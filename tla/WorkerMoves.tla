---------------------------- MODULE WorkerMoves -----------------------------
(***************************************************************************)
(* The steps of ircd/worker.c that bring tasks in, move them from list to  *)
(* list and take them out, and why they lose and duplicate none.           *)
(***************************************************************************)
EXTENDS WorkerControl, QueueProofs, FiniteSetTheorems

(* What they have in common: the task is submitted or posted for an owner  *)
(* that is mapped, and not for the module whose last task has just gone.   *)
Accepts(t) ==
    /\ \E o \in loaded \cup {Core} :
         /\ mpc = "unmap" => o # leaving
         /\ Submit(o, t) \/ Post(o, t)
    /\ chained' \in 0 .. MaxChain
    /\ UNCHANGED <<switches, wvars, drain, mainvars, loaded, dropped>>

LEMMA AcceptingAccepts ==
    ASSUME IndInv, NEW t \in Tasks, Accepting(t)
    PROVE  Accepts(t)
<1> USE WorkerAssumption DEF Accepts, IndInv, TypeOK, TypeQueues
<1>0. Core # leaving \/ mpc # "unmap"
  BY DEF OwnerShape, TypeMain
<1>1. ASSUME NEW i \in Slots, TaskSubmits(i, t) PROVE Accepts(t)
  <2>1. cur[i] \in running
    BY <1>1 DEF TaskSubmits, RunningInThreads
  <2>2. /\ owner[cur[i]] \in loaded \cup {Core}
        /\ mpc = "unmap" => owner[cur[i]] # leaving
    BY <2>1 DEF OwnerShape, Held
  <2> QED
    BY <1>0, <1>1, <2>2 DEF TaskSubmits
<1>2. ASSUME NEW w \in Workers, WorkerPosts(w, t) PROVE Accepts(t)
  <2>1. w \in workers
    BY <1>2 DEF WorkerPosts, TypeWorkers
  <2>2. /\ wowner[w] \in loaded \cup {Core}
        /\ mpc = "unmap" => wowner[w] # leaving
    BY <2>1 DEF OwnerShape
  <2> QED
    BY <1>0, <1>2, <2>2 DEF WorkerPosts
<1>3. ASSUME NEW o \in Owners, MainSubmits(o, t) PROVE Accepts(t)
  BY <1>3 DEF MainSubmits
<1>4. ASSUME DoneSubmits(t) PROVE Accepts(t)
  <2>1. Head(list) \in Range(list)
    BY <1>4, TailFacts DEF DoneSubmits
  <2>2. owner[Head(list)] \in loaded \cup {Core}
    BY <2>1 DEF OwnerShape, Held
  <2> QED
    BY <1>4, <2>2 DEF DoneSubmits
<1> QED
  BY <1>1, <1>2, <1>3, <1>4 DEF Accepting

(* Accepting a task preserves every conjunct it can disturb.               *)
LEMMA AcceptsStep ==
    ASSUME IndInv, NEW t \in Tasks, Accepts(t)
    PROVE  TypeQueues' /\ TypePool' /\ OnePlace' /\ Accounting'
           /\ RunningInThreads' /\ PoolShape' /\ OwnerShape'
<1> USE DEF IndInv, TypeOK, TypeQueues, pool, drain, wvars, mainvars
<1>1. PICK o \in loaded \cup {Core} :
        /\ mpc = "unmap" => o # leaving
        /\ Submit(o, t) \/ Post(o, t)
  BY DEF Accepts
<1>2. /\ running' = running /\ outstanding' = outstanding + 1 /\ t \notin Held
      /\ owner' = [owner EXCEPT ![t] = o]
      /\ target' = target /\ nthreads' = nthreads /\ cur' = cur
      /\ SignalWork \/ pc' = pc
      /\ \/ pending' = Append(pending, t) /\ ready' = ready
         \/ ready' = Append(ready, t) /\ pending' = pending
  BY <1>1 DEF Submit, Post, TaskAccept
<1>3. /\ list' = list /\ delivered' = delivered /\ mpc' = mpc /\ goal' = goal
      /\ leaving' = leaving /\ loaded' = loaded /\ dropped' = dropped
      /\ workers' = workers /\ wowner' = wowner /\ todo' = todo /\ after' = after
      /\ chained' \in 0 .. MaxChain
  BY DEF Accepts
<1>4. /\ pending' \in Seq(Tasks) /\ ready' \in Seq(Tasks)
      /\ IsInjective(pending') /\ IsInjective(ready')
      /\ Len(pending') + Len(ready') = Len(pending) + Len(ready) + 1
      /\ \/ Range(pending') = Range(pending) \cup {t} /\ Range(ready') = Range(ready)
         \/ Range(ready') = Range(ready) \cup {t} /\ Range(pending') = Range(pending)
  <2>1. t \notin Range(pending) /\ t \notin Range(ready)
    BY <1>2 DEF Held
  <2>2. CASE pending' = Append(pending, t) /\ ready' = ready
    BY <2>1, <2>2, AppendFacts, LenProperties DEF OnePlace
  <2>3. CASE ready' = Append(ready, t) /\ pending' = pending
    BY <2>1, <2>3, AppendFacts, LenProperties DEF OnePlace
  <2> QED
    BY <1>2, <2>2, <2>3
<1>5. /\ pc' \in [Slots -> {"none", "loop", "wait", "work", "exited"}]
      /\ \A i \in Slots : \A s \in {"none", "work", "exited"} :
           pc'[i] = s <=> pc[i] = s
  BY <1>2, SignalFacts
<1>6. TypeQueues'
  BY <1>2, <1>3, <1>4 DEF Owners, TypeMain
<1>7. TypePool'
  BY <1>2, <1>5 DEF TypePool
<1>8. OnePlace'
  BY <1>2, <1>3, <1>4 DEF OnePlace, Held
<1>9. Accounting'
  <2>1. /\ Len(pending) \in Nat /\ Len(ready) \in Nat /\ Len(list) \in Nat
        /\ Len(pending') \in Nat /\ Len(ready') \in Nat
    BY <1>4, LenProperties
  <2>2. PICK c \in Nat : c = Cardinality(running)
    BY WorkerAssumption, FS_Subset, FS_CardinalityType
  <2>3. outstanding = Len(pending) + c + Len(ready) + Len(list) + delivered
    BY <2>2 DEF Accounting
  <2>4. outstanding' = Len(pending') + c + Len(ready') + Len(list) + delivered
    <3>1. /\ outstanding' = outstanding + 1
          /\ Len(pending') + Len(ready') = Len(pending) + Len(ready) + 1
          /\ outstanding \in Nat /\ delivered \in Nat
      BY <1>2, <1>4
    <3> HIDE DEF IndInv
    <3> QED
      BY <2>1, <2>3, <3>1
  <2> QED
    BY <1>2, <1>3, <2>2, <2>4, Zenon DEF Accounting
<1>10. RunningInThreads'
  BY <1>2, <1>5 DEF RunningInThreads
<1>11. PoolShape'
  BY <1>2, <1>3, <1>5 DEF PoolShape
<1>12. OwnerShape'
  BY <1>1, <1>2, <1>3, <1>4 DEF OwnerShape, Held
<1> QED
  BY <1>6, <1>7, <1>8, <1>9, <1>10, <1>11, <1>12

(* What the steps that move tasks between the lists can disturb.           *)
QueueInv ==
    TypeQueues /\ OnePlace /\ Accounting /\ RunningInThreads /\ OwnerShape

(* The lengths that wi_outstanding adds up are naturals.                   *)
LEMMA Lengths ==
    ASSUME TypeQueues
    PROVE  /\ Len(pending) \in Nat /\ Len(ready) \in Nat /\ Len(list) \in Nat
           /\ IsFiniteSet(running) /\ Cardinality(running) \in Nat
  BY WorkerAssumption, LenProperties, FS_Subset, FS_CardinalityType DEF TypeQueues

(* A pool thread takes the oldest pending task.                            *)
LEMMA PoolTakeStep ==
    ASSUME IndInv, NEW i \in Slots, PoolTake(i)
    PROVE  QueueInv'
<1> USE DEF IndInv, TypeOK, TypeQueues, drain, wvars, mainvars
<1> DEFINE h == Head(pending)
<1>1. /\ h \in Tasks /\ h \in Range(pending)
      /\ pending' \in Seq(Tasks) /\ IsInjective(pending')
      /\ Range(pending') = Range(pending) \ {h}
      /\ Len(pending') = Len(pending) - 1 /\ Len(pending) > 0
  BY TailFacts DEF PoolTake, OnePlace
<1> HIDE DEF h
<1>2. /\ running' = running \cup {h} /\ cur' = [cur EXCEPT ![i] = h]
      /\ pc[i] # "work" /\ pc' = [pc EXCEPT ![i] = "work"]
      /\ ready' = ready /\ outstanding' = outstanding /\ owner' = owner
      /\ list' = list /\ delivered' = delivered /\ dropped' = dropped
      /\ mpc' = mpc /\ after' = after /\ leaving' = leaving /\ todo' = todo
      /\ loaded' = loaded /\ workers' = workers /\ wowner' = wowner
      /\ chained' = chained
  BY DEF PoolTake, h
<1>3. TypeQueues'
  BY <1>1, <1>2
<1>4. OnePlace'
  BY <1>1, <1>2 DEF OnePlace
<1>5. Accounting'
  <2>1. Cardinality(running') = Cardinality(running) + 1
    BY <1>1, <1>2, Lengths, FS_AddElement, ZenonT(30) DEF OnePlace
  <2>2. PICK c \in Nat : c = Cardinality(running)
    BY Lengths
  <2>3. /\ outstanding = Len(pending) + c + Len(ready) + Len(list) + delivered
        /\ Cardinality(running') = c + 1
    BY <2>1, <2>2 DEF Accounting
  <2>4. outstanding = Len(pending') + (c + 1) + Len(ready) + Len(list) + delivered
    <3>1. /\ Len(pending) \in Nat /\ Len(ready) \in Nat /\ Len(list) \in Nat
          /\ delivered \in Nat /\ outstanding \in Nat
      BY Lengths
    <3> HIDE DEF IndInv
    <3> QED
      BY <1>1, <2>3, <3>1
  <2> QED
    BY <1>2, <2>3, <2>4, Zenon DEF Accounting
<1>6. RunningInThreads'
  <2>1. h \notin running
    BY <1>1 DEF OnePlace
  <2> QED
    BY <1>2, <2>1 DEF RunningInThreads, TypePool
<1>7. OwnerShape'
  BY <1>1, <1>2 DEF OwnerShape, Held
<1> QED
  BY <1>3, <1>4, <1>5, <1>6, <1>7 DEF QueueInv

(* A pool thread hands its task to the reply queue.                        *)
LEMMA PoolFinishStep ==
    ASSUME IndInv, NEW i \in Slots, PoolFinish(i)
    PROVE  QueueInv'
<1> USE DEF IndInv, TypeOK, TypeQueues, drain, wvars, mainvars
<1> DEFINE h == cur[i]
<1>1. h \in running /\ h \in Tasks /\ h \notin Range(ready)
  BY DEF PoolFinish, RunningInThreads, TypePool, OnePlace
<1> HIDE DEF h
<1>2. /\ ready' \in Seq(Tasks) /\ IsInjective(ready')
      /\ Range(ready') = Range(ready) \cup {h}
      /\ Len(ready') = Len(ready) + 1
  BY <1>1, AppendFacts DEF PoolFinish, OnePlace, h
<1>3. /\ running' = running \ {h} /\ cur[i] = h /\ cur' = [cur EXCEPT ![i] = NoTask]
      /\ pc[i] = "work" /\ pc' = [pc EXCEPT ![i] = "loop"]
      /\ pending' = pending /\ outstanding' = outstanding /\ owner' = owner
      /\ list' = list /\ delivered' = delivered /\ dropped' = dropped
      /\ mpc' = mpc /\ after' = after /\ leaving' = leaving /\ todo' = todo
      /\ loaded' = loaded /\ workers' = workers /\ wowner' = wowner
      /\ chained' = chained
  BY DEF PoolFinish, h
<1>4. TypeQueues'
  BY <1>1, <1>2, <1>3
<1>5. OnePlace'
  BY <1>1, <1>2, <1>3 DEF OnePlace
<1>6. Accounting'
  <2>1. Cardinality(running') = Cardinality(running) - 1
    BY <1>1, <1>3, Lengths, FS_RemoveElement, ZenonT(30)
  <2>2. PICK c \in Nat : c = Cardinality(running)
    BY Lengths
  <2>3. /\ outstanding = Len(pending) + c + Len(ready) + Len(list) + delivered
        /\ Cardinality(running') = c - 1
    BY <2>1, <2>2 DEF Accounting
  <2>4. outstanding = Len(pending) + (c - 1) + Len(ready') + Len(list) + delivered
    <3>1. /\ Len(pending) \in Nat /\ Len(ready) \in Nat /\ Len(list) \in Nat
          /\ delivered \in Nat /\ outstanding \in Nat
      BY Lengths
    <3> HIDE DEF IndInv
    <3> QED
      BY <1>2, <2>3, <3>1
  <2> QED
    BY <1>3, <2>3, <2>4, Zenon DEF Accounting
<1>7. RunningInThreads'
  BY <1>1, <1>3 DEF RunningInThreads, TypePool
<1>8. OwnerShape'
  <2>1. mpc = "unmap" => owner[h] # leaving
    BY <1>1 DEF OwnerShape
  <2> QED
    BY <1>1, <1>2, <1>3, <2>1 DEF OwnerShape, Held
<1> QED
  BY <1>4, <1>5, <1>6, <1>7, <1>8 DEF QueueInv
(* worker_drain() detaches the reply queue.                                *)
LEMMA DrainDetachStep ==
    ASSUME IndInv, DrainDetach
    PROVE  QueueInv'
<1> USE DEF IndInv, TypeOK, TypeQueues, wvars
<1>1. list = << >> /\ delivered = 0 /\ mpc = "detach"
  BY DEF DrainDetach, MainShape
<1>2. /\ list' = ready /\ ready' = << >> /\ delivered' = 0 /\ mpc' = "deliver"
      /\ pending' = pending /\ running' = running /\ outstanding' = outstanding
      /\ owner' = owner /\ dropped' = dropped /\ after' = after
      /\ leaving' = leaving /\ todo' = todo /\ loaded' = loaded
      /\ workers' = workers /\ wowner' = wowner /\ chained' = chained
      /\ pc' = pc /\ cur' = cur
  BY DEF DrainDetach, pool
<1>3. Range(<< >>) = {} /\ IsInjective(<< >>) /\ Len(<< >>) = 0
  BY DEF Range, IsInjective
<1>4. TypeQueues'
  BY <1>2
<1>5. OnePlace'
  BY <1>1, <1>2, <1>3 DEF OnePlace
<1>6. Accounting'
  <2>1. PICK c \in Nat : c = Cardinality(running)
    BY Lengths
  <2>2. outstanding = Len(pending) + c + Len(ready) + 0 + 0
    BY <1>1, <1>3, <2>1 DEF Accounting
  <2>3. outstanding = Len(pending) + c + 0 + Len(ready) + 0
    <3>1. Len(pending) \in Nat /\ Len(ready) \in Nat /\ outstanding \in Nat
      BY Lengths
    <3> HIDE DEF IndInv
    <3> QED
      BY <2>2, <3>1
  <2> QED
    BY <1>2, <1>3, <2>1, <2>3, Zenon DEF Accounting
<1>7. RunningInThreads'
  BY <1>2 DEF RunningInThreads
<1>8. OwnerShape'
  BY <1>1, <1>2, <1>3 DEF OwnerShape, Held
<1> QED
  BY <1>4, <1>5, <1>6, <1>7, <1>8 DEF QueueInv

(* worker_drain() destroys the task it has delivered.                      *)
LEMMA DrainDeliverStep ==
    ASSUME IndInv, DrainDeliver
    PROVE  QueueInv'
<1> USE DEF IndInv, TypeOK, TypeQueues, queues, wvars, mainvars
<1>1. /\ list' \in Seq(Tasks) /\ IsInjective(list')
      /\ Range(list') \subseteq Range(list)
      /\ Len(list') = Len(list) - 1 /\ Len(list) > 0
  BY TailFacts DEF DrainDeliver, OnePlace
<1>2. /\ delivered' = delivered + 1 /\ mpc' = mpc
      /\ pending' = pending /\ running' = running /\ ready' = ready
      /\ outstanding' = outstanding /\ owner' = owner /\ dropped' = dropped
      /\ after' = after /\ leaving' = leaving /\ todo' = todo
      /\ loaded' = loaded /\ workers' = workers /\ wowner' = wowner
      /\ chained' = chained /\ pc' = pc /\ cur' = cur
  BY DEF DrainDeliver, pool
<1>3. TypeQueues'
  BY <1>1, <1>2
<1>4. OnePlace'
  BY <1>1, <1>2 DEF OnePlace
<1>5. Accounting'
  <2>1. PICK c \in Nat : c = Cardinality(running)
    BY Lengths
  <2>2. outstanding = Len(pending) + c + Len(ready) + Len(list) + delivered
    BY <2>1 DEF Accounting
  <2>3. outstanding = Len(pending) + c + Len(ready) + Len(list') + (delivered + 1)
    <3>1. /\ Len(pending) \in Nat /\ Len(ready) \in Nat /\ Len(list) \in Nat
          /\ delivered \in Nat /\ outstanding \in Nat
      BY Lengths
    <3> HIDE DEF IndInv
    <3> QED
      BY <1>1, <2>2, <3>1
  <2> QED
    BY <1>2, <2>1, <2>3, Zenon DEF Accounting
<1>6. RunningInThreads'
  BY <1>2 DEF RunningInThreads
<1>7. OwnerShape'
  BY <1>1, <1>2 DEF OwnerShape, Held
<1> QED
  BY <1>3, <1>4, <1>5, <1>6, <1>7 DEF QueueInv

(* worker_drain() takes what it delivered off the count.                   *)
LEMMA DrainAccountStep ==
    ASSUME IndInv, DrainAccount
    PROVE  QueueInv'
<1> USE DEF IndInv, TypeOK, TypeQueues, wvars
<1>1. /\ list = << >> /\ list' = list /\ mpc = "deliver" /\ mpc' = "idle"
      /\ outstanding' = outstanding - delivered /\ delivered' = 0
      /\ pending' = pending /\ running' = running /\ ready' = ready
      /\ owner' = owner /\ dropped' = dropped
      /\ after' = after /\ leaving' = leaving /\ todo' = todo
      /\ loaded' = loaded /\ workers' = workers /\ wowner' = wowner
      /\ chained' = chained /\ pc' = pc /\ cur' = cur
  BY DEF DrainAccount, pool
<1>2. Accounting' /\ outstanding' \in Nat
  <2>1. PICK c \in Nat : c = Cardinality(running)
    BY Lengths
  <2>2. outstanding = Len(pending) + c + Len(ready) + Len(list) + delivered
    BY <2>1 DEF Accounting
  <2>3. /\ outstanding' = Len(pending) + c + Len(ready) + Len(list) + 0
        /\ outstanding' \in Nat
    <3>1. /\ Len(pending) \in Nat /\ Len(ready) \in Nat /\ Len(list) \in Nat
          /\ delivered \in Nat /\ outstanding \in Nat
          /\ outstanding' = outstanding - delivered
      BY <1>1, Lengths
    <3> HIDE DEF IndInv
    <3> QED
      BY <2>2, <3>1
  <2> QED
    BY <1>1, <2>1, <2>3, Zenon DEF Accounting
<1>3. TypeQueues'
  BY <1>1, <1>2
<1>4. OnePlace'
  BY <1>1 DEF OnePlace
<1>5. RunningInThreads'
  BY <1>1 DEF RunningInThreads
<1>6. OwnerShape'
  BY <1>1 DEF OwnerShape, Held
<1> QED
  BY <1>2, <1>3, <1>4, <1>5, <1>6 DEF QueueInv

(* worker_cancel_module() sweeps the queues: what it takes off them, and   *)
(* nothing else, goes to be destroyed, and the count falls by as much.     *)
LEMMA CancelStep ==
    ASSUME IndInv, CancelSweep \/ CancelWake
    PROVE  QueueInv'
<1> USE DEF IndInv, TypeOK, TypeQueues, wvars, drain
<1> DEFINE mine == OwnedBy(leaving)
<1>1. /\ running' = running /\ owner' = owner /\ list' = list
      /\ delivered' = delivered /\ after' = after /\ leaving' = leaving
      /\ todo' = todo /\ loaded' = loaded /\ workers' = workers
      /\ wowner' = wowner /\ chained' = chained /\ pc' = pc /\ cur' = cur
      /\ mpc \in {"sweep", "wait"}
      /\ CancelPending \/ (~ HasRunning(leaving) /\ CancelBoth)
  BY DEF CancelSweep, CancelWake, pool
<1>2. \A t \in Tasks : t \in mine <=> owner[t] = leaving
  BY DEF OwnedBy
<1>3. /\ pending' = Without(pending, mine)
      /\ ready' = ready \/ ready' = Without(ready, mine)
      /\ outstanding' = outstanding - ((Len(pending) - Len(pending'))
                                         + (Len(ready) - Len(ready')))
      /\ dropped' \subseteq dropped \cup (mine \cap Range(pending))
                              \cup (Range(ready) \ Range(ready'))
      /\ mpc' \in {"wait", "unmap"}
      /\ mpc' = "unmap" => ready' = Without(ready, mine) /\ ~ HasRunning(leaving)
  <2>1. Range(Without(ready, mine)) = Range(ready) \ mine
    BY WithoutFacts
  <2>2. CASE CancelPending
    <3>1. Len(pending') \in Nat /\ Len(ready) - Len(ready) = 0
      BY <2>2, WithoutFacts, LenProperties DEF CancelPending
    <3> QED
      BY <2>2, <3>1, Lengths DEF CancelPending
  <2>3. CASE ~ HasRunning(leaving) /\ CancelBoth
    BY <2>1, <2>3 DEF CancelBoth
  <2> QED
    BY <1>1, <2>2, <2>3
<1> HIDE DEF mine
<1>4. /\ pending' \in Seq(Tasks) /\ ready' \in Seq(Tasks)
      /\ IsInjective(pending') /\ IsInjective(ready')
      /\ Len(pending') <= Len(pending) /\ Len(ready') <= Len(ready)
      /\ Range(pending') = Range(pending) \ mine
      /\ Range(ready') \subseteq Range(ready)
      /\ mpc' = "unmap" => Range(ready') = Range(ready) \ mine
  BY <1>3, WithoutFacts, Lengths DEF OnePlace
<1>5. /\ Range(pending) \subseteq Tasks /\ Range(ready) \subseteq Tasks
  BY DEF Range
<1>6. Accounting' /\ outstanding' \in Nat
  <2>1. PICK c \in Nat : c = Cardinality(running)
    BY Lengths
  <2>2. outstanding = Len(pending) + c + Len(ready) + Len(list) + delivered
    BY <2>1 DEF Accounting
  <2>3. /\ outstanding' = Len(pending') + c + Len(ready') + Len(list) + delivered
        /\ outstanding' \in Nat
    <3>1. /\ Len(pending) \in Nat /\ Len(ready) \in Nat /\ Len(list) \in Nat
          /\ Len(pending') \in Nat /\ Len(ready') \in Nat
          /\ delivered \in Nat /\ outstanding \in Nat
      BY <1>4, Lengths, LenProperties
    <3>2. outstanding' = outstanding - ((Len(pending) - Len(pending'))
                                          + (Len(ready) - Len(ready')))
      BY <1>3
    <3> HIDE DEF IndInv
    <3> QED
      BY <2>2, <3>1, <3>2
  <2> QED
    BY <1>1, <2>1, <2>3, Zenon DEF Accounting
<1>7. TypeQueues'
  BY <1>1, <1>3, <1>4, <1>5, <1>6
<1>8. OnePlace'
  BY <1>1, <1>3, <1>4 DEF OnePlace
<1>9. RunningInThreads'
  BY <1>1 DEF RunningInThreads
<1>10. OwnerShape'
  <2>1. mpc' = "unmap" =>
          \A t \in Range(pending') \cup running' \cup Range(ready') : owner'[t] # leaving'
    BY <1>1, <1>2, <1>3, <1>4, <1>5 DEF HasRunning
  <2>2. \A t \in Held' : owner'[t] \in loaded' \cup {Core}
    BY <1>1, <1>3, <1>4 DEF OwnerShape, Held
  <2> QED
    BY <1>1, <1>3, <2>1, <2>2 DEF OwnerShape
<1> QED
  BY <1>6, <1>7, <1>8, <1>9, <1>10 DEF QueueInv

(* worker_shutdown() detaches both queues once every thread is joined.     *)
LEMMA ShutDetachStep ==
    ASSUME IndInv, ShutDetach
    PROVE  QueueInv'
<1> USE DEF IndInv, TypeOK, TypeQueues, wvars, drain
<1>1. /\ mpc = "shut" /\ mpc' = "shutfree" /\ outstanding' = 0
      /\ ready' = << >> /\ pending' = << >>
      /\ dropped' = Range(ready) \cup Range(pending)
      /\ running' = running /\ owner' = owner /\ list' = list
      /\ delivered' = delivered /\ after' = after /\ leaving' = leaving
      /\ todo' = todo /\ loaded' = loaded /\ workers' = workers
      /\ wowner' = wowner /\ chained' = chained /\ pc' = pc /\ cur' = cur
  BY DEF ShutDetach, pool
<1>2. running = {} /\ list = << >> /\ delivered = 0
  <2>1. \A i \in Slots : pc[i] = "none"
    BY <1>1 DEF PoolShape, Slots
  <2> QED
    BY <1>1, <2>1, ZenonT(30) DEF RunningInThreads, MainShape
<1>3. Range(<< >>) = {} /\ IsInjective(<< >>) /\ Len(<< >>) = 0
  BY DEF Range, IsInjective
<1>4. TypeQueues'
  <2>1. Range(ready) \subseteq Tasks /\ Range(pending) \subseteq Tasks
    BY SMTT(30) DEF Range
  <2>2. << >> \in Seq(Tasks) /\ 0 \in Nat
    OBVIOUS
  <2> QED
    BY <1>1, <2>1, <2>2, ZenonT(30)
<1>5. OnePlace'
  BY <1>1, <1>2, <1>3 DEF OnePlace
<1>6. Accounting'
  BY <1>1, <1>2, <1>3, FS_EmptySet DEF Accounting
<1>7. RunningInThreads'
  BY <1>1 DEF RunningInThreads
<1>8. OwnerShape'
  BY <1>1, <1>2, <1>3 DEF OwnerShape, Held
<1> QED
  BY <1>4, <1>5, <1>6, <1>7, <1>8 DEF QueueInv

(* Filtering an empty queue leaves it empty.                               *)
LEMMA WithoutEmpty ==
    ASSUME NEW S
    PROVE  Without(<< >>, S) = << >>
<1>1. << >> \in Seq(Tasks) /\ Len(<< >>) = 0
  OBVIOUS
<1>2. Without(<< >>, S) \in Seq(Tasks) /\ Len(Without(<< >>, S)) = 0
  <2>1. Without(<< >>, S) \in Seq(Tasks) /\ Len(Without(<< >>, S)) <= 0
    BY <1>1, WithoutFacts, ZenonT(30)
  <2> QED
    BY <2>1, LenProperties
<1> QED
  BY <1>2, EmptySeq
=============================================================================
