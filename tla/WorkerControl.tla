--------------------------- MODULE WorkerControl ----------------------------
(***************************************************************************)
(* The inductive invariant of ircd/worker.c, and the proof that no step    *)
(* breaks the part of it about the main thread, the pool and the workers.  *)
(***************************************************************************)
EXTENDS Worker, TLAPS

(* Where the main thread is says which of its locals are in use.           *)
MainShape ==
    /\ mpc # "deliver" => list = << >> /\ delivered = 0
    /\ mpc \notin {"wait", "unmap", "shutfree"} => dropped = {}
    /\ mpc # "stop" => todo = {}
    /\ mpc \in {"resize", "join"} => after \in {"zero", "grow", "shut"}
    /\ mpc \in {"grow"} => after = "grow"
    /\ mpc = "stop" => after # "grow"
    /\ mpc \in {"stop", "resize", "join"} /\ after \in {"zero", "shut"} => goal = 0
    /\ mpc = "stop" /\ after = "shut" => workers = todo
    /\ mpc \in {"resize", "join"} /\ after = "shut" => workers = {}
    /\ mpc = "shut" => workers = {}

(* pt_live: the threads that exist are those of the first nthreads slots,  *)
(* and one that has left its loop is above the target.                     *)
PoolShape ==
    /\ \A i \in Slots : pc[i] = "none" <=> i >= nthreads
    /\ \A i \in Slots : pc[i] = "exited" => i >= target
    /\ mpc = "join" => target = goal
    /\ mpc = "grow" => target = goal /\ nthreads <= goal
    /\ mpc \notin {"join", "grow"} => nthreads = target
    /\ mpc = "shut" => nthreads = 0

(* While the subsystem is down there are no threads and no tasks, and it   *)
(* is switched off on its way down.                                        *)
DownShape ==
    /\ mpc = "shut" \/ (mpc \in {"stop", "resize", "join"} /\ after = "shut")
         => ~ enabled
    /\ ~ up =>
         /\ pending = << >> /\ ready = << >> /\ running = {}
         /\ outstanding = 0
         /\ nthreads = 0 /\ started = {} /\ ~ enabled
         /\ mpc \notin {"clear", "detach", "deliver", "resize", "join", "grow",
                        "sweep", "wait", "shut"}
         /\ mpc = "stop" => after # "shut"

(* What the server holds belongs to the core or to a loaded module.  While *)
(* a module leaves, its workers go first; after the last sweep only tasks  *)
(* that are about to be destroyed are left of it.                          *)
OwnerShape ==
    /\ \A t \in Held : owner[t] \in loaded \cup {Core}
    /\ \A w \in workers : wowner[w] \in loaded \cup {Core}
    /\ mpc \in {"sweep", "wait", "unmap"} \/ (mpc = "stop" /\ after = "cancel")
         => leaving \in loaded
    /\ mpc = "stop" /\ after = "cancel"
         => \A w \in workers : wowner[w] = leaving => w \in todo
    /\ mpc \in {"sweep", "wait", "unmap"}
         => \A w \in workers : wowner[w] # leaving
    /\ mpc = "unmap"
         => \A t \in Range(pending) \cup running \cup Range(ready) : owner[t] # leaving

(* The wake-up protocol, for a server that does not start its workers      *)
(* again after worker_shutdown().                                          *)
WakeShape ==
    /\ up /\ ready # << >> => pipe \/ mpc \in {"clear", "detach"}
    /\ up /\ armed => pipe \/ mpc = "clear"
    /\ ~ up => ~ armed \/ closed \/ mpc = "shutfree"
    /\ mpc = "shutfree" => ~ up
    /\ closed => ~ up
    /\ up \/ closed \/ mpc = "shutfree" => configured

(* The inductive invariant.                                                *)
IndInv ==
    /\ TypeOK
    /\ OnePlace
    /\ Accounting
    /\ RunningInThreads
    /\ MainShape
    /\ PoolShape
    /\ DownShape
    /\ OwnerShape

-----------------------------------------------------------------------------
(* The actions that bring a task into the subsystem.                       *)
Accepting(t) ==
    \/ \E i \in Slots : TaskSubmits(i, t)
    \/ \E w \in Workers : WorkerPosts(w, t)
    \/ \E o \in Owners : MainSubmits(o, t)
    \/ DoneSubmits(t)

(* The kinds of step there are, besides accepting a task.                  *)
Moving ==
    \/ \E i \in Slots : PoolTake(i) \/ PoolFinish(i)
    \/ DrainDetach \/ DrainDeliver \/ DrainAccount
    \/ CancelSweep \/ CancelWake \/ ShutDetach

Resizing ==
    \/ \E i \in Slots : PoolWait(i) \/ PoolExit(i)
    \/ PoolResize \/ PoolJoin \/ PoolGrow

Staffing ==
    \/ \E w \in Workers : WorkerExit(w) \/ StopAsk(w) \/ StopJoin(w)
    \/ \E o \in Owners, w \in Workers : WorkerSpawn(o, w)
    \/ \E m \in Modules, w \in Workers : WorkerStopOwned(m, w)
    \/ StopDone

Setting ==
    \/ \E q \in QueueMaxes : WorkerInit(q)
    \/ \E n \in 0 .. MaxThreads, q \in QueueMaxes : FeatureNotify(n, q)

Loading ==
    \/ \E m \in Modules : ModuleLoad(m) \/ CancelModule(m)
    \/ CancelUnmap

Turning == WakeRead \/ WakeClear \/ Shutdown \/ ShutFree \/ Halted \/ UNCHANGED vars

LEMMA StepKinds ==
    ASSUME [Next]_vars
    PROVE  \/ \E t \in Tasks : Accepting(t)
           \/ Moving \/ Resizing \/ Staffing \/ Setting \/ Loading \/ Turning
  BY DEF Next, MainStep, MainBegins, PoolStep, Accepting, Moving, Resizing,
         Staffing, Setting, Loading, Turning

-----------------------------------------------------------------------------
(* A thread signalled or not, no thread starts, ends, or takes up work.    *)
LEMMA SignalFacts ==
    ASSUME TypePool, SignalWork \/ BroadcastWork \/ pc' = pc
    PROVE  /\ pc' \in [Slots -> {"none", "loop", "wait", "work", "exited"}]
           /\ \A i \in Slots : \A s \in {"none", "work", "exited"} :
                pc'[i] = s <=> pc[i] = s
<1> USE DEF TypePool
<1>1. CASE SignalWork
  BY <1>1 DEF SignalWork
<1>2. CASE BroadcastWork
  BY <1>2 DEF BroadcastWork
<1>3. CASE pc' = pc
  BY <1>3
<1> QED
  BY <1>1, <1>2, <1>3

(* What the actions that accept a task have in common, whoever owns it.    *)
LEMMA AcceptingFrame ==
    ASSUME NEW t \in Tasks, Accepting(t)
    PROVE  /\ \E o : Submit(o, t) \/ Post(o, t)
           /\ UNCHANGED <<switches, wvars, drain, mainvars, loaded, dropped>>
  BY DEF Accepting, TaskSubmits, WorkerPosts, MainSubmits, DoneSubmits

(* A step that moves no task leaves the lists alone, but for destroying    *)
(* tasks that were taken off them, and sets no thread to work.             *)
Quiet ==
    /\ UNCHANGED <<pending, running, ready, outstanding, owner, list, delivered>>
    /\ UNCHANGED <<cur, chained>>
    /\ dropped' \subseteq dropped
    /\ \A i \in Slots : pc'[i] = "work" <=> pc[i] = "work"

LEMMA QuietSteps ==
    ASSUME IndInv, Resizing \/ Staffing \/ Setting \/ Loading \/ Turning
    PROVE  Quiet
<1> USE DEF Quiet, queues, drain, pool
<1>1. CASE \E i \in Slots : PoolWait(i) \/ PoolExit(i)
  BY <1>1 DEF PoolWait, PoolExit, IndInv, TypeOK, TypePool
<1>2. CASE PoolResize
  BY <1>2, SignalFacts DEF PoolResize, IndInv, TypeOK
<1>3. CASE PoolJoin
  <2>1. \A i \in Slots : pc[i] = "work" => i < goal
    BY <1>3 DEF PoolJoin, PoolShape, IndInv, TypeOK, TypePool, TypeMain, Slots
  <2>2. \A i \in Slots : pc'[i] = IF i >= goal THEN "none" ELSE pc[i]
    BY <1>3 DEF PoolJoin
  <2>3. \A i \in Slots : pc'[i] = "work" <=> pc[i] = "work"
    BY <2>1, <2>2 DEF IndInv, TypeOK, TypeMain, Slots
  <2> QED
    BY <1>3, <2>3 DEF PoolJoin
<1>4. CASE PoolGrow
  <2>1. \A i \in Slots : pc'[i] = "work" <=> pc[i] = "work"
    BY <1>4 DEF PoolGrow, PoolShape, IndInv, TypeOK, TypePool, Slots
  <2> QED
    BY <1>4, <2>1 DEF PoolGrow
<1>5. CASE Staffing
  BY <1>5 DEF Staffing, WorkerExit, StopAsk, StopJoin, WorkerSpawn,
              WorkerStopOwned, StopDone
<1>6. CASE Setting
  BY <1>6 DEF Setting, WorkerInit, FeatureNotify, SetThreads
<1>7. CASE Loading
  BY <1>7 DEF Loading, ModuleLoad, CancelModule, CancelUnmap
<1>8. CASE Turning
  BY <1>8, ZenonT(30) DEF Turning, WakeRead, WakeClear, Shutdown, ShutFree, Halted, vars
<1> QED
  BY <1>1, <1>2, <1>3, <1>4, <1>5, <1>6, <1>7, <1>8 DEF Resizing

(* Steps that move no task change nobody's owner.                          *)
LEMMA QuietOwners ==
    ASSUME IndInv, Resizing \/ Staffing \/ Setting \/ Loading \/ Turning
    PROVE  OwnerShape'
<1>0. Quiet
  BY QuietSteps
<1> USE <1>0 DEF OwnerShape, Held, Quiet, IndInv, TypeOK, TypeMain, TypeWorkers, MainShape,
           switches, queues, pool, wvars, wake, drain, mainvars
<1>1. CASE Resizing
  BY <1>1, ZenonT(30) DEF Resizing, PoolWait, PoolExit, PoolResize, PoolJoin, PoolGrow
<1>2. CASE StopDone
  <2>1. ~ up => Range(pending) \cup running \cup Range(ready) = {}
    BY DEF DownShape, Range
  <2>2. /\ mpc' \in {"sweep", "unmap"} => after = "cancel"
        /\ mpc' = "unmap" => ~ up
        /\ mpc' \in {"idle", "sweep", "unmap", "resize"}
    BY <1>2 DEF StopDone
  <2> QED
    BY <1>2, <2>1, <2>2 DEF StopDone
<1>3. CASE Staffing /\ ~ StopDone
  <2>1. ASSUME NEW w \in Workers, WorkerExit(w) \/ StopAsk(w) PROVE OwnerShape'
    BY <2>1, ZenonT(30) DEF WorkerExit, StopAsk
  <2>2. ASSUME NEW w \in Workers, StopJoin(w) PROVE OwnerShape'
    BY <2>2, ZenonT(30) DEF StopJoin
  <2>3. ASSUME NEW o \in Owners, NEW w \in Workers, WorkerSpawn(o, w)
        PROVE  OwnerShape'
    BY <2>3, SMTT(30), ZenonT(30) DEF WorkerSpawn
  <2>4. ASSUME NEW m \in Modules, NEW w \in Workers, WorkerStopOwned(m, w)
        PROVE  OwnerShape'
    BY <2>4, ZenonT(30) DEF WorkerStopOwned
  <2> QED
    BY <1>3, <2>1, <2>2, <2>3, <2>4, ZenonT(30) DEF Staffing
<1>4. CASE Setting
  BY <1>4, ZenonT(30) DEF Setting, WorkerInit, FeatureNotify, SetThreads, SetZero,
              SetSome, BringUpFails
<1>5. CASE CancelUnmap
  <2>1. Range(list) = {}
    BY <1>5 DEF CancelUnmap, Range
  <2>2. \A t \in Held' : owner[t] \in loaded \cup {Core} /\ owner[t] # leaving
    BY <1>5, <2>1 DEF CancelUnmap
  <2>3. \A w \in workers : wowner[w] \in loaded \cup {Core} /\ wowner[w] # leaving
    BY <1>5 DEF CancelUnmap
  <2> QED
    BY <1>5, <2>2, <2>3, ZenonT(30) DEF CancelUnmap
<1>6. CASE Loading /\ ~ CancelUnmap
  BY <1>6 DEF Loading, ModuleLoad, CancelModule
<1>7. CASE Turning
  BY <1>7, ZenonT(40) DEF Turning, WakeRead, WakeClear, Shutdown, ShutFree, Halted, vars
<1> QED
  BY <1>1, <1>2, <1>3, <1>4, <1>5, <1>6, <1>7, ZenonT(30)

-----------------------------------------------------------------------------
(* The switches, the workers and the main thread's own state.              *)
ControlInv == TypeSwitches /\ TypeWorkers /\ TypeMain /\ MainShape

LEMMA ControlInvStep ==
    ASSUME IndInv, [Next]_vars
    PROVE  ControlInv'
<1> USE WorkerAssumption
    DEF ControlInv, IndInv, TypeOK, TypeSwitches, TypeWorkers, TypeMain, MainShape,
        switches, wvars, wake, drain, mainvars
<1>1. CASE \E t \in Tasks : Accepting(t)
  <2>1. UNCHANGED <<switches, wvars, drain, mainvars, loaded, dropped>>
    BY <1>1, AcceptingFrame
  <2>2. UNCHANGED wake \/ WakeMain
    BY <1>1, AcceptingFrame DEF Submit, Post
  <2>3. pipe' \in BOOLEAN /\ armed' \in BOOLEAN
    BY <2>2, Zenon DEF WakeMain
  <2> QED
    BY <2>1, <2>3
<1>2. CASE Moving
  <2>1. TypeSwitches'
    BY <1>2, ZenonT(40) DEF Moving, PoolTake, PoolFinish, WakeMain, DrainDetach,
       DrainDeliver, DrainAccount, CancelSweep, CancelWake, CancelPending,
       CancelBoth, ShutDetach
  <2>2. TypeWorkers'
    BY <1>2, ZenonT(30) DEF Moving, PoolTake, PoolFinish, WakeMain, DrainDetach,
       DrainDeliver, DrainAccount, CancelSweep, CancelWake, CancelPending,
       CancelBoth, ShutDetach
  <2>3. TypeMain' /\ MainShape'
    BY <1>2, SMTT(30), ZenonT(30) DEF Moving, PoolTake, PoolFinish, WakeMain, DrainDetach,
       DrainDeliver, DrainAccount, CancelSweep, CancelWake, CancelPending,
       CancelBoth, ShutDetach
  <2> QED
    BY <2>1, <2>2, <2>3
<1>3. CASE Resizing
  BY <1>3 DEF Resizing, PoolWait, PoolExit, PoolResize, PoolJoin, PoolGrow
<1>4. CASE Staffing
  <2>1. TypeSwitches'
    BY <1>4 DEF Staffing, WorkerExit, StopAsk, StopJoin, WorkerSpawn,
       WorkerStopOwned, StopDone, Owners
  <2>2. TypeWorkers'
    BY <1>4 DEF Staffing, WorkerExit, StopAsk, StopJoin, WorkerSpawn,
       WorkerStopOwned, StopDone, Owners
  <2>3. TypeMain' /\ MainShape'
    BY <1>4, ZenonT(40) DEF Staffing, WorkerExit, StopAsk, StopJoin, WorkerSpawn,
       WorkerStopOwned, StopDone, Owners
  <2> QED
    BY <2>1, <2>2, <2>3
<1>5. CASE \E q \in QueueMaxes : WorkerInit(q)
  BY <1>5, ZenonT(40) DEF WorkerInit, SetThreads, SetZero, SetSome, BringUpFails
<1>6. ASSUME NEW n \in 0 .. MaxThreads, NEW q \in QueueMaxes, FeatureNotify(n, q)
      PROVE  ControlInv'
  <2>1. CASE configured
    BY <1>6, <2>1, ZenonT(40) DEF FeatureNotify, SetThreads, SetZero, SetSome, BringUpFails
  <2>2. CASE ~ configured
    BY <1>6, <2>2 DEF FeatureNotify
  <2> QED
    BY <2>1, <2>2
<1>7. CASE Loading
  BY <1>7 DEF Loading, ModuleLoad, CancelModule, CancelUnmap, Owners
<1>8. CASE Turning
  <2>1. TypeSwitches'
    BY <1>8, ZenonT(40) DEF Turning, WakeRead, WakeClear, Shutdown, ShutFree, Halted,
       vars
  <2>2. TypeWorkers'
    BY <1>8 DEF Turning, WakeRead, WakeClear, Shutdown, ShutFree, Halted,
       vars
  <2>3. TypeMain' /\ MainShape'
    BY <1>8 DEF Turning, WakeRead, WakeClear, Shutdown, ShutFree, Halted,
       vars
  <2> QED
    BY <2>1, <2>2, <2>3
<1> HIDE DEF ControlInv, IndInv
<1> QED
  BY <1>1, <1>2, <1>3, <1>4, <1>5, <1>6, <1>7, <1>8, StepKinds, Zenon DEF Setting

(* Only pool_resize() changes the pool.                                    *)
LEMMA PoolFrame ==
    ASSUME Staffing \/ Setting \/ Loading \/ Turning
    PROVE  /\ UNCHANGED <<target, nthreads, pc, cur>>
           /\ \/ UNCHANGED <<mpc, goal>>
              \/ {mpc, mpc'} \cap {"join", "grow", "shut"} = {}
<1> USE DEF pool, mainvars
<1>1. CASE Staffing
  BY <1>1 DEF Staffing, WorkerExit, StopAsk, StopJoin, WorkerSpawn,
              WorkerStopOwned, StopDone
<1>2. CASE Setting
  BY <1>2 DEF Setting, WorkerInit, FeatureNotify, SetThreads, SetZero, SetSome,
              BringUpFails
<1>3. CASE Loading
  BY <1>3, ZenonT(30) DEF Loading, ModuleLoad, CancelModule, CancelUnmap
<1>4. CASE Turning
  BY <1>4 DEF Turning, WakeRead, WakeClear, Shutdown, ShutFree, Halted, vars
<1> QED
  BY <1>1, <1>2, <1>3, <1>4

(* The slots of the pool.                                                  *)
LEMMA PoolInvStep ==
    ASSUME IndInv, [Next]_vars
    PROVE  TypePool' /\ PoolShape'
<1> USE WorkerAssumption
    DEF IndInv, TypeOK, TypePool, PoolShape, TypeMain, MainShape, Slots,
        pool, mainvars
<1>1. CASE \E t \in Tasks : Accepting(t)
  <2>1. /\ UNCHANGED <<target, nthreads, cur, mpc, goal>>
        /\ SignalWork \/ pc' = pc
    BY <1>1, AcceptingFrame DEF Submit, Post
  <2>2. /\ pc' \in [Slots -> {"none", "loop", "wait", "work", "exited"}]
        /\ \A i \in Slots : \A s \in {"none", "work", "exited"} :
             pc'[i] = s <=> pc[i] = s
    BY <2>1, SignalFacts
  <2> QED
    BY <2>1, <2>2
<1>2. ASSUME NEW i \in Slots, PoolTake(i) PROVE TypePool' /\ PoolShape'
  <2>1. Head(pending) \in Tasks
    BY <1>2 DEF PoolTake, TypeQueues
  <2> QED
    BY <1>2, <2>1 DEF PoolTake
<1>3. ASSUME NEW i \in Slots, PoolFinish(i) \/ PoolWait(i) \/ PoolExit(i)
      PROVE  TypePool' /\ PoolShape'
  BY <1>3, SMTT(30), ZenonT(30) DEF PoolFinish, PoolWait, PoolExit
<1>4. CASE DrainDetach \/ DrainDeliver \/ DrainAccount \/ CancelSweep \/ CancelWake
           \/ ShutDetach
  BY <1>4, ZenonT(30) DEF DrainDetach, DrainDeliver, DrainAccount, CancelSweep, CancelWake,
              CancelPending, CancelBoth, ShutDetach
<1>5. CASE PoolResize
  <2>1. /\ pc' \in [Slots -> {"none", "loop", "wait", "work", "exited"}]
        /\ \A i \in Slots : \A s \in {"none", "work", "exited"} :
             pc'[i] = s <=> pc[i] = s
    BY <1>5, SignalFacts DEF PoolResize
  <2> QED
    BY <1>5, <2>1 DEF PoolResize
<1>6. CASE PoolJoin
  <2>1. \A i \in Slots : pc[i] = "work" => i < goal
    BY <1>6 DEF PoolJoin
  <2>2. \A i \in Slots : pc'[i] = IF i >= goal THEN "none" ELSE pc[i]
    BY <1>6 DEF PoolJoin
  <2>3. \A i \in Slots : pc'[i] = "work" <=> pc[i] = "work"
    BY <2>1, <2>2
  <2>4. TypePool'
    BY <1>6, <2>3 DEF PoolJoin
  <2>5. PoolShape'
    BY <1>6 DEF PoolJoin
  <2> QED
    BY <2>4, <2>5
<1>7. CASE PoolGrow
  BY <1>7, SMTT(30), ZenonT(30) DEF PoolGrow
<1>8. CASE Staffing \/ Setting \/ Loading \/ Turning
  BY ZenonT(30), <1>8, PoolFrame
<1> HIDE DEF IndInv, TypePool, PoolShape
<1> QED
  BY <1>1, <1>2, <1>3, <1>4, <1>5, <1>6, <1>7, <1>8, StepKinds, Zenon
     DEF Moving, Resizing

(* A subsystem that is down, or on its way down, stays empty.              *)
LEMMA DownShapeStep ==
    ASSUME IndInv, [Next]_vars
    PROVE  DownShape'
<1> USE DEF IndInv, TypeOK, DownShape, PoolShape, TypeSwitches, TypePool,
           TypeWorkers, TypeMain, MainShape, Slots, switches, queues, pool, wvars,
           mainvars
<1>1. CASE \E t \in Tasks : Accepting(t)
  <2>1. up /\ UNCHANGED <<up, enabled, mpc, after>>
    BY <1>1, AcceptingFrame DEF Submit, Post
  <2> QED
    BY <2>1
<1>2. CASE ShutDetach
  <2>1. running = {}
    <3>1. \A i \in Slots : pc[i] = "none"
      BY <1>2 DEF ShutDetach
    <3> QED
      BY <3>1 DEF RunningInThreads
  <2>2. workers = {} /\ started = {} /\ ~ enabled
    BY <1>2 DEF ShutDetach
  <2> QED
    BY <1>2, <2>1, <2>2 DEF ShutDetach
<1>3. CASE Moving /\ ~ ShutDetach
  <2>1. ASSUME NEW i \in Slots, PoolTake(i) \/ PoolFinish(i) PROVE up
    BY <2>1 DEF PoolTake, PoolFinish
  <2>2. ASSUME DrainDetach \/ DrainDeliver \/ DrainAccount \/ CancelSweep \/ CancelWake
        PROVE  up
    BY <2>2, ZenonT(30) DEF DrainDetach, DrainDeliver, DrainAccount, CancelSweep, CancelWake
  <2>3. up
    BY <1>3, <2>1, <2>2, Zenon DEF Moving
  <2>4. /\ UNCHANGED <<up, enabled, after>>
        /\ mpc' = mpc \/ mpc' \in {"idle", "deliver", "wait", "unmap"}
    BY <1>3, ZenonT(30) DEF Moving, PoolTake, PoolFinish, DrainDetach, DrainDeliver,
                DrainAccount, CancelSweep, CancelWake, CancelPending, CancelBoth
  <2> QED
    BY <2>3, <2>4
<1>4. CASE Resizing
  BY <1>4 DEF Resizing, PoolWait, PoolExit, PoolResize, PoolJoin, PoolGrow
<1>5. CASE Staffing
  BY <1>5 DEF Staffing, WorkerExit, StopAsk, StopJoin, WorkerSpawn,
              WorkerStopOwned, StopDone
<1>6. CASE Setting
  BY <1>6, SMTT(30), ZenonT(30) DEF Setting, WorkerInit, FeatureNotify, SetThreads, SetZero, SetSome,
              BringUpFails
<1>7. CASE Loading \/ Turning
  <2>1. DownShape
    BY Zenon
  <2> HIDE DEF IndInv, TypeOK, PoolShape, TypePool, TypeWorkers, MainShape
  <2>2. CASE Loading
    <3>1. /\ UNCHANGED <<up, enabled, pending, ready, running, outstanding,
                         nthreads, started>>
          /\ \/ UNCHANGED <<mpc, after>>
             \/ mpc' = "stop" /\ after' = "cancel"
             \/ mpc' = "idle"
      BY <2>2, ZenonT(30) DEF Loading, ModuleLoad, CancelModule, CancelUnmap
    <3> QED
      BY <2>1, <3>1
  <2>3. CASE Turning
    BY <2>1, <2>3 DEF Turning, WakeRead, WakeClear, Shutdown, ShutFree, Halted, vars
  <2> QED
    BY <1>7, <2>2, <2>3, Zenon
<1> HIDE DEF IndInv, DownShape
<1> QED
  BY <1>1, <1>2, <1>3, <1>4, <1>5, <1>6, <1>7, StepKinds, Zenon
=============================================================================
