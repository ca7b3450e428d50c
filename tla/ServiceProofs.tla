--------------------------- MODULE ServiceProofs ----------------------------
(***************************************************************************)
(* ircd/worker.c implements WorkerService: with the lists a task can be on *)
(* mapped to the status the service gives it, the initial states are the   *)
(* service's and every step is a step of the service or none at all.       *)
(***************************************************************************)
EXTENDS WorkerProofs, WorkerRefines

(* The tasks the service calls accepted and those it calls finished.       *)
Begun == Range(pending) \cup running
Over == Range(ready) \cup Range(list)

(* status in terms of the two, in this state and in the next.              *)
LEMMA StatusIs ==
    ASSUME IndInv
    PROVE  /\ Begun \subseteq Tasks /\ Over \subseteq Tasks /\ Begun \cap Over = {}
           /\ \A t \in Tasks :
                /\ status[t] = "accepted" <=> t \in Begun
                /\ status[t] = "finished" <=> t \in Over
                /\ status[t] = "free" <=> t \notin Begun \cup Over
<1>1. /\ Range(pending) \subseteq Tasks /\ Range(ready) \subseteq Tasks
      /\ Range(list) \subseteq Tasks /\ running \subseteq Tasks
  BY DEF IndInv, TypeOK, TypeQueues, Range
<1>2. Begun \subseteq Tasks /\ Over \subseteq Tasks
  BY <1>1 DEF Begun, Over
<1>3. Begun \cap Over = {}
  BY Zenon DEF Begun, Over, IndInv, OnePlace
<1>4. \A t \in Tasks : status[t] = IF t \in Begun THEN "accepted"
                                  ELSE IF t \in Over THEN "finished" ELSE "free"
  BY DEF status, Begun, Over
<1> QED
  BY <1>2, <1>3, <1>4

(* Tasks whose place did not change have the status they had.              *)
LEMMA StatusNext ==
    /\ status' = [t \in Tasks |-> IF t \in Begun' THEN "accepted"
                                  ELSE IF t \in Over' THEN "finished" ELSE "free"]
    /\ status = [t \in Tasks |-> IF t \in Begun THEN "accepted"
                                 ELSE IF t \in Over THEN "finished" ELSE "free"]
  BY DEF status, Begun, Over

(* The initial states of worker.c are initial states of the service.       *)
LEMMA ServiceInit == Init => Service!Init
<1> SUFFICES ASSUME Init PROVE Service!Init
  OBVIOUS
<1>1. Begun = {} /\ Over = {}
  BY DEF Init, Begun, Over, Range
<1>2. status = [t \in Tasks |-> "free"]
  BY <1>1, StatusNext
<1> QED
  BY <1>2 DEF Init, Service!Init

(* Where tasks are, as far as the service is concerned.                    *)
LEMMA Places ==
    ASSUME IndInv
    PROVE  /\ pending \in Seq(Tasks) /\ ready \in Seq(Tasks) /\ list \in Seq(Tasks)
           /\ running \subseteq Tasks
           /\ IsInjective(pending) /\ IsInjective(list)
           /\ Range(pending) \cap running = {} /\ Range(pending) \cap Range(ready) = {}
           /\ Range(pending) \cap Range(list) = {} /\ running \cap Range(ready) = {}
           /\ running \cap Range(list) = {} /\ Range(ready) \cap Range(list) = {}
<1>1. TypeQueues /\ OnePlace
  BY Zenon DEF IndInv, TypeOK
<1> HIDE DEF IndInv
<1>2. /\ pending \in Seq(Tasks) /\ ready \in Seq(Tasks) /\ list \in Seq(Tasks)
      /\ running \subseteq Tasks
  BY <1>1, Zenon DEF TypeQueues
<1>3. IsInjective(pending) /\ IsInjective(list)
  BY <1>1, Zenon DEF OnePlace
<1>4. /\ Range(pending) \cap running = {} /\ Range(pending) \cap Range(ready) = {}
      /\ Range(pending) \cap Range(list) = {} /\ running \cap Range(ready) = {}
      /\ running \cap Range(list) = {} /\ Range(ready) \cap Range(list) = {}
  BY <1>1, ZenonT(30) DEF OnePlace
<1> QED
  BY <1>2, <1>3, <1>4, Zenon

(* A task the server holds belongs to the core or to a loaded module.      *)
LEMMA OwnersPresent ==
    ASSUME IndInv
    PROVE  /\ \A t \in Range(list) : owner[t] \in loaded \cup {Core}
           /\ loaded \subseteq Modules
<1>1. OwnerShape /\ TypeMain
  BY Zenon DEF IndInv, TypeOK
<1> QED
  BY <1>1 DEF OwnerShape, TypeMain, Held

(* worker_submit_owned() and worker_post(): the service accepts the task.  *)
LEMMA AcceptServes ==
    ASSUME IndInv, NEW t \in Tasks, Accepting(t)
    PROVE  Service!Next
<1>1. Accepts(t)
  BY AcceptingAccepts, Zenon
<1>2. PICK o \in loaded \cup {Core} : Submit(o, t) \/ Post(o, t)
  BY <1>1, Zenon DEF Accepts
<1>3. o \in Service!Owners /\ o \in Service!Present
  BY <1>2, OwnersPresent, ZenonT(30) DEF Service!Owners, Service!Present
<1>4. UNCHANGED <<loaded, list>> /\ t \notin Held
  BY <1>1, <1>2 DEF Accepts, Submit, Post, drain
<1>5. UNCHANGED running /\ owner' = [owner EXCEPT ![t] = o]
  BY <1>2 DEF Submit, Post
<1>6. t \notin Begun /\ t \notin Over
  BY <1>4, Zenon DEF Held, Begun, Over
<1>7. status[t] = "free"
  BY <1>6, StatusIs
<1>8. CASE Submit(o, t)
  <2>1. pending' = Append(pending, t) /\ ready' = ready
    BY <1>8 DEF Submit
  <2>2. Range(pending') = Range(pending) \cup {t}
    BY <2>1, Places, AppendFacts, ZenonT(30)
  <2>3. Begun' = Begun \cup {t} /\ Over' = Over
    BY <1>4, <1>5, <2>1, <2>2 DEF Begun, Over
  <2>4. status' = [status EXCEPT ![t] = "accepted"]
    BY <2>3, StatusNext
  <2>5. Service!Accept(o, t, "accepted")
    BY <1>3, <1>4, <1>5, <1>7, <2>4, Zenon DEF Service!Accept
  <2> QED
    BY <1>3, <2>5, ZenonT(30) DEF Service!Next
<1>9. CASE Post(o, t)
  <2>1. pending' = pending /\ ready' = Append(ready, t)
    BY <1>9 DEF Post
  <2>2. Range(ready') = Range(ready) \cup {t}
    BY <2>1, Places, AppendFacts, ZenonT(30)
  <2>3. Begun' = Begun /\ Over' = Over \cup {t}
    BY <1>4, <1>5, <2>1, <2>2 DEF Begun, Over
  <2>4. status' = [status EXCEPT ![t] = "finished"]
    BY <1>6, <2>3, StatusNext
  <2>5. Service!Accept(o, t, "finished")
    BY <1>3, <1>4, <1>5, <1>7, <2>4, ZenonT(30) DEF Service!Accept
  <2> QED
    BY <1>3, <2>5, Zenon DEF Service!Next
<1> QED
  BY <1>2, <1>8, <1>9, Zenon

(* A pool thread takes a task, or the main thread takes the finished tasks *)
(* off their queue, or off the count: the service does not see it.         *)
LEMMA TakeServes ==
    ASSUME IndInv, NEW i \in Slots, PoolTake(i)
    PROVE  UNCHANGED Service!vars
<1>1. /\ pending # << >> /\ pending' = Tail(pending)
      /\ running' = running \cup {Head(pending)}
      /\ UNCHANGED <<ready, list, owner, loaded>>
  BY DEF PoolTake, drain
<1>2. Range(pending) = {Head(pending)} \cup Range(Tail(pending))
  BY <1>1, Places, TailFacts
<1>3. Begun' = Begun /\ Over' = Over
  BY <1>1, <1>2 DEF Begun, Over
<1> QED
  BY <1>1, <1>3, StatusNext DEF Service!vars

LEMMA DetachServes ==
    ASSUME IndInv, DrainDetach \/ DrainAccount
    PROVE  UNCHANGED Service!vars
<1>1. UNCHANGED <<pending, running, owner, loaded>>
  BY DEF DrainDetach, DrainAccount
<1>2. Over' = Over
  <2>1. CASE DrainDetach
    <3>1. MainShape
      BY ZenonT(30) DEF IndInv
    <3>2. list = << >> /\ list' = ready /\ ready' = << >>
      BY <2>1, <3>1 DEF DrainDetach, MainShape
    <3> QED
      BY <3>2 DEF Over, Range
  <2>2. CASE DrainAccount
    BY <2>2 DEF DrainAccount, Over
  <2> QED
    BY <2>1, <2>2, ZenonT(30)
<1>3. Begun' = Begun
  BY <1>1 DEF Begun
<1> QED
  BY <1>1, <1>2, <1>3, StatusNext DEF Service!vars

(* A pool thread finishes the task it runs.                                *)
LEMMA FinishServes ==
    ASSUME IndInv, NEW i \in Slots, PoolFinish(i)
    PROVE  Service!Next
<1>1. /\ pc[i] = "work" /\ running' = running \ {cur[i]}
      /\ ready' = Append(ready, cur[i])
      /\ UNCHANGED <<pending, list, owner, loaded>>
  BY DEF PoolFinish, drain
<1>2. cur[i] \in running
  BY <1>1, Zenon DEF IndInv, RunningInThreads
<1>3. cur[i] \in Tasks /\ cur[i] \notin Range(pending)
  BY <1>2, Places, Zenon
<1>4. Range(ready') = Range(ready) \cup {cur[i]}
  <2>1. ready \in Seq(Tasks)
    BY Places, Zenon
  <2>2. Range(Append(ready, cur[i])) = Range(ready) \cup {cur[i]}
    BY <1>3, <2>1, AppendFacts
  <2> QED
    BY <1>1, <2>2, Zenon
<1>5. Begun' = Begun \ {cur[i]} /\ Over' = Over \cup {cur[i]}
  BY <1>1, <1>3, <1>4 DEF Begun, Over
<1>6. cur[i] \in Begun
  BY <1>2, Zenon DEF Begun
<1>7. status[cur[i]] = "accepted"
  BY <1>3, <1>6, StatusIs, Zenon
<1>8. status' = [status EXCEPT ![cur[i]] = "finished"]
  BY <1>3, <1>5, StatusNext
<1>9. Service!Finish(cur[i])
  BY <1>1, <1>7, <1>8, Zenon DEF Service!Finish
<1> QED
  BY <1>3, <1>9, ZenonT(30) DEF Service!Next

(* The main thread delivers the task at the head of its list.              *)
LEMMA DeliverServes ==
    ASSUME IndInv, DrainDeliver
    PROVE  Service!Next
<1>1. /\ list # << >> /\ list' = Tail(list)
      /\ UNCHANGED <<pending, running, ready, owner, loaded>>
  BY DEF DrainDeliver, queues
<1>2. PICK h \in Tasks : h \notin Range(Tail(list)) /\ Range(list) = {h} \cup Range(Tail(list))
  BY <1>1, Places, TailFacts
<1>3. /\ h \in Range(list) /\ h \notin Range(ready) /\ h \notin Range(pending)
      /\ h \notin running
  BY <1>2, Places, ZenonT(30)
<1>4. Begun' = Begun /\ Over' = Over \ {h}
  BY <1>1, <1>2, <1>3 DEF Begun, Over
<1>5. h \notin Begun /\ h \in Over
  BY <1>3, Zenon DEF Begun, Over
<1>6. status[h] = "finished"
  BY <1>5, StatusIs, Zenon
<1>7. owner[h] \in Service!Present
  BY <1>3, OwnersPresent, ZenonT(30) DEF Service!Present
<1>8. status' = [status EXCEPT ![h] = "free"]
  BY <1>4, <1>5, StatusNext
<1>9. Service!Deliver(h)
  BY <1>1, <1>6, <1>7, <1>8, Zenon DEF Service!Deliver
<1> QED
  BY <1>9, ZenonT(30) DEF Service!Next

(* worker_cancel_module() throws away tasks of the module that leaves.     *)
LEMMA SweepServes ==
    ASSUME IndInv, CancelSweep \/ CancelWake
    PROVE  Service!Next
<1> DEFINE mine == OwnedBy(leaving)
<1>1. mpc \in {"sweep", "wait"} /\ UNCHANGED <<running, list, owner, loaded>>
  BY DEF CancelSweep, CancelWake, drain
<1>2. leaving \in loaded /\ leaving \in Modules
  <2>1. OwnerShape
    BY ZenonT(30) DEF IndInv
  <2>2. leaving \in loaded
    BY <1>1, <2>1 DEF OwnerShape
  <2> QED
    BY <2>2, OwnersPresent, Zenon
<1>3. list = << >> /\ Range(list) = {}
  <2>1. MainShape
    BY ZenonT(30) DEF IndInv
  <2> QED
    BY <1>1, <2>1 DEF MainShape, Range
<1>4. /\ pending' = Without(pending, mine)
      /\ ready' = ready \/ ready' = Without(ready, mine)
  BY DEF CancelSweep, CancelWake, CancelPending, CancelBoth
<1>5. /\ Range(Without(pending, mine)) = Range(pending) \ mine
      /\ Range(Without(ready, mine)) = Range(ready) \ mine
  BY Places, WithoutFacts, Zenon
<1>6. /\ Range(pending) \cap running = {} /\ Range(pending) \cap Range(ready) = {}
      /\ running \cap Range(ready) = {}
  BY Places, Zenon
<1> HIDE DEF mine
<1>7. PICK gone \in SUBSET mine : /\ Begun' = Begun \ gone /\ Over' = Over \ gone
                                  /\ gone \subseteq Begun \cup Over
  <2>1. CASE ready' = ready
    <3> DEFINE g == mine \cap Range(pending)
    <3>1. Begun' = Begun \ g /\ Over' = Over \ g /\ g \subseteq Begun \cup Over
      BY <1>1, <1>3, <1>4, <1>5, <1>6, <2>1 DEF Begun, Over
    <3> QED
      BY <3>1, ZenonT(30)
  <2>2. CASE ready' = Without(ready, mine)
    <3> DEFINE g == mine \cap (Range(pending) \cup Range(ready))
    <3>1. Begun' = Begun \ g /\ Over' = Over \ g /\ g \subseteq Begun \cup Over
      BY <1>1, <1>3, <1>4, <1>5, <1>6, <2>2 DEF Begun, Over
    <3> QED
      BY <3>1, ZenonT(30)
  <2> QED
    BY <1>4, <2>1, <2>2, Zenon
<1>8. \A t \in gone : t \in Tasks /\ owner[t] = leaving /\ status[t] # "free"
  <2>1. \A t \in gone : t \in Tasks /\ owner[t] = leaving
    BY <1>7, Zenon DEF mine, OwnedBy
  <2> QED
    BY <1>7, <2>1, StatusIs, Zenon
<1>9. status' = [t \in Tasks |-> IF t \in gone THEN "free" ELSE status[t]]
  BY <1>7, StatusNext
<1>10. Service!Discard(leaving)
  BY <1>1, <1>2, <1>8, <1>9, Zenon DEF Service!Discard
<1> QED
  BY <1>2, <1>10, ZenonT(30) DEF Service!Next

(* worker_shutdown() throws away all the tasks there are.                  *)
LEMMA CloseServes ==
    ASSUME IndInv, ShutDetach
    PROVE  Service!Next
<1>1. /\ mpc = "shut" /\ pending' = << >> /\ ready' = << >>
      /\ UNCHANGED <<running, list, owner, loaded>>
  BY DEF ShutDetach, drain
<1>2. MainShape /\ PoolShape /\ RunningInThreads
  BY ZenonT(30) DEF IndInv
<1>3. list = << >>
  BY <1>1, <1>2 DEF MainShape
<1>4. \A i \in Slots : pc[i] # "work"
  BY <1>1, <1>2 DEF PoolShape, Slots
<1>5. running = {}
  BY <1>2, <1>4, Zenon DEF RunningInThreads
<1>6. Begun' = {} /\ Over' = {}
  BY <1>1, <1>3, <1>5 DEF Begun, Over, Range
<1>7. status' = [t \in Tasks |-> "free"]
  BY <1>6, StatusNext
<1> QED
  BY <1>1, <1>7, ZenonT(30) DEF Service!Close, Service!Next

(* The steps that move no task: a module is loaded, or unloaded once the   *)
(* service holds nothing of it; the others the service does not see.       *)
LEMMA QuietServes ==
    ASSUME IndInv, Resizing \/ Staffing \/ Setting \/ Loading \/ Turning
    PROVE  Service!Next \/ UNCHANGED Service!vars
<1>0. Quiet
  BY QuietSteps
<1>1. Begun' = Begun /\ Over' = Over /\ owner' = owner
  BY <1>0 DEF Quiet, Begun, Over
<1>2. status' = status
  BY <1>1, StatusNext
<1>3. CASE loaded' = loaded
  BY <1>1, <1>2, <1>3, Zenon DEF Service!vars
<1>4. ASSUME NEW m \in Modules, ModuleLoad(m) PROVE Service!Next
  <2>1. loaded' = loaded \cup {m}
    BY <1>4 DEF ModuleLoad
  <2>2. Service!Load(m)
    BY <1>1, <1>2, <2>1, Zenon DEF Service!Load
  <2> QED
    BY <2>2, ZenonT(30) DEF Service!Next
<1>5. CASE CancelUnmap
  <2>1. mpc = "unmap" /\ loaded' = loaded \ {leaving}
    BY <1>5 DEF CancelUnmap
  <2>2. OwnerShape /\ MainShape
    BY Zenon DEF IndInv
  <2>3. leaving \in Modules
    <3>1. leaving \in loaded
      BY <2>1, <2>2 DEF OwnerShape
    <3> QED
      BY <3>1, OwnersPresent, ZenonT(30)
  <2>4. Range(list) = {}
    BY <2>1, <2>2 DEF MainShape, Range
  <2>5. \A t \in Range(pending) \cup running \cup Range(ready) : owner[t] # leaving
    BY <2>1, <2>2, Zenon DEF OwnerShape
  <2>6. \A t \in Begun \cup Over : owner[t] # leaving
    BY <2>4, <2>5, Zenon DEF Begun, Over
  <2>7. \A t \in Tasks : status[t] = "free" \/ owner[t] # leaving
    BY <2>6, StatusIs, Zenon
  <2>8. Service!Unload(leaving)
    BY <1>1, <1>2, <2>1, <2>7, ZenonT(30) DEF Service!Unload
  <2> QED
    BY <2>3, <2>8, ZenonT(30) DEF Service!Next
<1>6. loaded' = loaded \/ (\E m \in Modules : ModuleLoad(m)) \/ CancelUnmap
  <2>1. CASE Resizing
    BY <2>1 DEF Resizing, PoolWait, PoolExit, PoolResize, PoolJoin, PoolGrow
  <2>2. CASE Staffing
    BY <2>2 DEF Staffing, WorkerExit, StopAsk, StopJoin, WorkerSpawn,
                WorkerStopOwned, StopDone
  <2>3. CASE Setting
    BY <2>3 DEF Setting, WorkerInit, FeatureNotify, SetThreads
  <2>4. CASE Loading
    BY <2>4 DEF Loading, CancelModule
  <2>5. CASE Turning
    BY <2>5, Zenon DEF Turning, WakeRead, WakeClear, Shutdown, ShutFree, Halted, vars
  <2> QED
    BY <2>1, <2>2, <2>3, <2>4, <2>5
<1> QED
  BY <1>3, <1>4, <1>5, <1>6

(* Refinement: seen as its service, worker.c does nothing that             *)
(* WorkerService does not allow.  An accepted task is finished once, then  *)
(* delivered once while its owner is loaded or thrown away because its     *)
(* owner or the service is going, and no module is unmapped before.        *)
THEOREM ServiceImplemented == Spec => ImplementsService
<1>1. Init => Service!Init
  BY ServiceInit
<1>2. IndInv /\ [Next]_vars => [Service!Next]_(Service!vars)
  <2> SUFFICES ASSUME IndInv, [Next]_vars
               PROVE  Service!Next \/ UNCHANGED Service!vars
    BY Zenon
  <2>1. CASE \E t \in Tasks : Accepting(t)
    BY <2>1, AcceptServes
  <2>2. CASE Moving
    BY <2>2, TakeServes, FinishServes, DetachServes, DeliverServes, SweepServes,
       CloseServes, Zenon DEF Moving
  <2> QED
    BY <2>1, <2>2, QuietServes, StepKinds, Zenon
<1> QED
  BY <1>1, <1>2, Invariance, PTL DEF Spec, ImplementsService, Service!Spec
=============================================================================
