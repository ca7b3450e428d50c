---------------------------- MODULE WorkerProofs ----------------------------
(***************************************************************************)
(* Theorems about ircd/worker.c for any number of tasks, modules, workers  *)
(* and threads, and any sizes of queue.                                    *)
(***************************************************************************)
EXTENDS WorkerMoves

(* What moving tasks can disturb is preserved by every step.               *)
LEMMA QueueInvStep ==
    ASSUME IndInv, [Next]_vars
    PROVE  QueueInv'
<1>1. CASE \E t \in Tasks : Accepting(t)
  BY <1>1, AcceptingAccepts, AcceptsStep DEF QueueInv
<1>2. CASE Moving
  BY <1>2, PoolTakeStep, PoolFinishStep, DrainDetachStep, DrainDeliverStep,
     DrainAccountStep, CancelStep, ShutDetachStep DEF Moving
<1>3. CASE Resizing \/ Staffing \/ Setting \/ Loading \/ Turning
  <2>1. Quiet
    BY <1>3, QuietSteps
  <2>2. TypeQueues' /\ OnePlace'
    BY <2>1 DEF Quiet, IndInv, TypeOK, TypeQueues, OnePlace
  <2>3. Accounting'
    BY <2>1, Zenon DEF Quiet, IndInv, Accounting
  <2>4. RunningInThreads'
    BY <2>1 DEF Quiet, IndInv, RunningInThreads
  <2> QED
    BY <1>3, <2>2, <2>3, <2>4, QuietOwners DEF QueueInv
<1> QED
  BY <1>1, <1>2, <1>3, StepKinds, Zenon

(* No step loses a wake-up, if a shutdown is final.                        *)
LEMMA WakeShapeStep ==
    ASSUME IndInv, WakeShape, ~ Restartable, [Next]_vars
    PROVE  WakeShape'
<1> USE DEF IndInv, TypeOK, WakeShape, DownShape, TypeSwitches, TypeMain, MainShape,
           switches, queues, wake, mainvars
<1>1. CASE \E t \in Tasks : Accepting(t)
  <2>1. PICK t \in Tasks : Accepts(t)
    BY <1>1, AcceptingAccepts
  <2>2. UNCHANGED <<switches, mainvars>>
    BY <2>1 DEF Accepts
  <2>3. (ready' = ready /\ UNCHANGED wake) \/ WakeMain
    BY <2>1 DEF Accepts, Submit, Post
  <2>4. up
    BY <2>1 DEF Accepts, Submit, Post
  <2>5. WakeMain => pipe' \/ mpc = "clear"
    BY <2>4, Zenon DEF WakeMain
  <2>6. CASE WakeMain
    BY <2>2, <2>4, <2>5, <2>6
  <2>7. CASE ready' = ready /\ UNCHANGED wake
    BY <2>2, <2>7
  <2> QED
    BY <2>3, <2>6, <2>7
<1>2. CASE CancelSweep \/ CancelWake
  <2>1. ready = << >> => ready' = << >>
    BY <1>2, WithoutEmpty DEF CancelSweep, CancelWake, CancelBoth, CancelPending
  <2> QED
    BY <1>2, <2>1 DEF CancelSweep, CancelWake, CancelBoth, CancelPending
<1>3. ASSUME NEW i \in Slots, PoolFinish(i) PROVE WakeShape'
  <2>1. up
    BY <1>3 DEF PoolFinish, PoolShape, TypePool, Slots
  <2> QED
    BY <1>3, <2>1, ZenonT(40) DEF PoolFinish, WakeMain
<1>4. CASE \/ \E i \in Slots : PoolTake(i)
           \/ DrainDetach \/ DrainDeliver \/ DrainAccount \/ ShutDetach
  BY <1>4 DEF PoolTake, DrainDetach, DrainDeliver, DrainAccount, ShutDetach
<1>5. CASE Resizing
  BY <1>5 DEF Resizing, PoolWait, PoolExit, PoolResize, PoolJoin, PoolGrow
<1>6. CASE Staffing
  BY <1>6 DEF Staffing, WorkerExit, StopAsk, StopJoin, WorkerSpawn,
              WorkerStopOwned, StopDone
<1>7. CASE Setting
  BY <1>7 DEF Setting, WorkerInit, FeatureNotify, SetThreads, SetZero, SetSome,
              BringUpFails
<1>8. CASE Loading
  BY <1>8 DEF Loading, ModuleLoad, CancelModule, CancelUnmap
<1>9. CASE Turning
  <2>1. CASE WakeRead \/ WakeClear \/ Shutdown
    BY <2>1 DEF WakeRead, WakeClear, Shutdown
  <2>2. CASE ShutFree
    BY <2>2 DEF ShutFree
  <2>3. CASE UNCHANGED vars
    BY <2>3 DEF vars
  <2> QED
    BY <1>9, <2>1, <2>2, <2>3 DEF Turning, Halted
<1> HIDE DEF IndInv, WakeShape
<1> QED
  BY <1>1, <1>2, <1>3, <1>4, <1>5, <1>6, <1>7, <1>8, <1>9, StepKinds, Zenon DEF Moving

-----------------------------------------------------------------------------
(* The invariant holds initially.                                          *)
LEMMA InitInv ==
    ASSUME Init
    PROVE  IndInv /\ WakeShape
<1> USE WorkerAssumption DEF Init
<1>1. Range(<< >>) = {} /\ IsInjective(<< >>) /\ Len(<< >>) = 0
  BY DEF Range, IsInjective
<1>2. TypeOK
  BY DEF TypeOK, TypeSwitches, TypeQueues, TypePool, TypeWorkers, TypeMain,
         Slots, Owners
<1>3. OnePlace /\ RunningInThreads
  BY <1>1 DEF OnePlace, RunningInThreads
<1>4. Accounting
  BY <1>1, FS_EmptySet DEF Accounting
<1>5. MainShape /\ PoolShape /\ DownShape /\ WakeShape
  BY DEF MainShape, PoolShape, DownShape, WakeShape, Slots
<1>6. OwnerShape
  BY <1>1 DEF OwnerShape, Held
<1> QED
  BY <1>2, <1>3, <1>4, <1>5, <1>6 DEF IndInv

(* Every step preserves the invariant.                                     *)
LEMMA NextInv ==
    ASSUME IndInv, [Next]_vars
    PROVE  IndInv'
  BY QueueInvStep, ControlInvStep, PoolInvStep, DownShapeStep
     DEF IndInv, TypeOK, QueueInv, ControlInv

(* The inductive invariant holds throughout.                               *)
LEMMA Invariance == Spec => []IndInv
<1>1. Init => IndInv
  BY InitInv
<1>2. IndInv /\ [Next]_vars => IndInv'
  BY NextInv
<1> QED
  BY <1>1, <1>2, PTL DEF Spec

(* Every variable of the subsystem keeps its type: wi_outstanding, an      *)
(* unsigned int, never passes below zero, and a pool thread has a task     *)
(* exactly while it works.                                                 *)
THEOREM TypeCorrect == Spec => []TypeOK
<1>1. IndInv => TypeOK
  BY DEF IndInv
<1> QED
  BY <1>1, Invariance, PTL

(* No task is ever in two lists, or twice in one: worker_drain(),          *)
(* worker_cancel_module() and worker_shutdown() never destroy one twice.   *)
THEOREM TasksInOnePlace == Spec => []OnePlace
<1>1. IndInv => OnePlace
  BY DEF IndInv
<1> QED
  BY <1>1, Invariance, PTL

(* wi_outstanding counts every task the server has accepted and has not    *)
(* let go of, so task_accept() bounds the true backlog.                    *)
THEOREM BacklogCounted == Spec => []Accounting
<1>1. IndInv => Accounting
  BY DEF IndInv
<1> QED
  BY <1>1, Invariance, PTL

(* wi_running is exactly what the pool threads are working on.             *)
THEOREM RunningListed == Spec => []RunningInThreads
<1>1. IndInv => RunningInThreads
  BY DEF IndInv
<1> QED
  BY <1>1, Invariance, PTL

(* After worker_cancel_module() and the unmapping nothing the server holds *)
(* belongs to the module, however its tasks were spread over the lists and *)
(* whatever they submitted in the meantime.                                *)
THEOREM UnloadIsClean == Spec => []UnloadedOwnsNothing
<1>1. IndInv => UnloadedOwnsNothing
  BY WorkerAssumption DEF IndInv, OwnerShape, UnloadedOwnsNothing
<1> QED
  BY <1>1, Invariance, PTL

(* A spawn held from before worker_init() gets its thread, or is freed, in *)
(* the first worker_set_threads() that brings the subsystem up: no worker  *)
(* without a thread stays on the list of a running subsystem.              *)
THEOREM HeldWorkersStart == Spec => []HeldUntilUp
<1>1. Init => HeldUntilUp
  BY DEF Init, HeldUntilUp
<1>2. IndInv /\ HeldUntilUp /\ [Next]_vars => HeldUntilUp'
  <2> SUFFICES ASSUME IndInv, HeldUntilUp, [Next]_vars
               PROVE  HeldUntilUp'
    OBVIOUS
  <2> USE DEF HeldUntilUp, switches, wvars, mainvars
  <2>1. CASE \E t \in Tasks : Accepting(t)
    BY <2>1, AcceptingAccepts, Zenon DEF Accepts
  <2>2. CASE Moving
    BY <2>2, Zenon DEF Moving, PoolTake, PoolFinish, DrainDetach, DrainDeliver,
                DrainAccount, CancelSweep, CancelWake, CancelBoth, CancelPending,
                ShutDetach
  <2>3. CASE Resizing
    BY <2>3, Zenon DEF Resizing, PoolWait, PoolExit, PoolResize, PoolJoin, PoolGrow,
                IndInv, MainShape
  <2>4. CASE Staffing
    BY <2>4, ZenonT(40) DEF Staffing, WorkerExit, StopAsk, StopJoin, WorkerSpawn,
                WorkerStopOwned, StopDone
  <2>5. CASE Setting
    BY <2>5, Zenon DEF Setting, WorkerInit, FeatureNotify, SetThreads, SetZero, SetSome,
                BringUpFails
  <2>6. CASE Loading
    BY <2>6, Zenon DEF Loading, ModuleLoad, CancelModule, CancelUnmap
  <2>7. CASE Turning
    BY <2>7, Zenon DEF Turning, WakeRead, WakeClear, Shutdown, ShutFree, Halted, vars
  <2> QED
    BY <2>1, <2>2, <2>3, <2>4, <2>5, <2>6, <2>7, StepKinds, Zenon
<1> QED
  BY <1>1, <1>2, Invariance, PTL DEF Spec

(* While results wait, a byte in the pipe is going to wake the main thread *)
(* or it is on its way to detach them.  This is for a server that does not *)
(* start its workers again after worker_shutdown(), as the daemon does     *)
(* not: wi_wake_armed outlives the pipe it speaks of.                      *)
THEOREM WakeUpsNotLost ==
    ASSUME ~ Restartable
    PROVE  Spec => []NoLostWake
<1>1. Init => IndInv /\ WakeShape
  BY InitInv
<1>2. (IndInv /\ WakeShape) /\ [Next]_vars => (IndInv /\ WakeShape)'
  BY NextInv, WakeShapeStep
<1>3. WakeShape => NoLostWake
  BY DEF WakeShape, NoLostWake
<1> QED
  BY <1>1, <1>2, <1>3, PTL DEF Spec
=============================================================================
