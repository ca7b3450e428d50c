------------------------------- MODULE Worker -------------------------------
(***************************************************************************)
(* The worker subsystem, ircd/worker.c: a pool of threads that run tasks,  *)
(* dedicated workers with a loop of their own, the reply queue that brings *)
(* results back to the main thread through a wake-up pipe, and the sweep   *)
(* that lets a module be unloaded while its work is in flight.             *)
(*                                                                         *)
(* Every section of the code that runs under wi_mutex is one action.  The  *)
(* main thread runs one operation at a time; an operation that lets go of  *)
(* the mutex or blocks (a join, a condition variable, a callback) is a     *)
(* sequence of actions that mpc, the main thread's place in it, links.     *)
(* The counters kept only for /STATS (wi_submitted, wi_completed,          *)
(* wi_rejected) are left out, so a refused submission is a stuttering step.*)
(***************************************************************************)
EXTENDS Naturals, FiniteSets, Queues

CONSTANTS
    Tasks,          \* task addresses: one is reused once its task is freed
    Modules,        \* modules that can be loaded and unloaded
    Workers,        \* dedicated worker addresses
    Core,           \* the NULL owner: work the server itself started
    NoTask,         \* a pool thread that has no task
    MaxThreads,     \* WORKER_MAX_THREADS
    QueueMaxes,     \* values FEAT_WORKER_QUEUE_MAX takes
    MaxChain,       \* bound on the tasks that tasks submit in their turn
    Restartable     \* may worker_set_threads() follow worker_shutdown()?

ASSUME WorkerAssumption ==
    /\ Core \notin Modules
    /\ NoTask \notin Tasks
    /\ IsFiniteSet(Tasks)
    /\ MaxThreads \in Nat \ {0}
    /\ QueueMaxes \subseteq Nat /\ QueueMaxes # {}
    /\ MaxChain \in Nat
    /\ Restartable \in BOOLEAN

VARIABLES
    up, configured, enabled, queueMax,      \* wi_up .. wi_queue_max
    feat,                                   \* FEAT_WORKER_THREADS
    closed,                                 \* worker_shutdown() has run
    pending, running, ready, outstanding,   \* the three lists and their sum
    owner,                                  \* wt_owner of each task
    target, nthreads,                       \* wi_target, wi_nthreads
    pc, cur,                                \* place and task of each thread
    workers, started, stopping, exited,     \* wi_workers and w_started, w_stop
    wowner,                                 \* w_owner
    pipe, armed,                            \* a byte in the pipe; wi_wake_armed
    loaded,                                 \* modules whose code is mapped
    mpc, after, goal, leaving,              \* where the main thread is
    todo,                                   \* workers it still has to stop
    list, delivered,                        \* locals of worker_drain()
    dropped,                                \* tasks taken off, not yet freed
    chained                                 \* tasks submitted by tasks so far

switches == <<up, configured, enabled, queueMax, feat, closed>>
queues   == <<pending, running, ready, outstanding, owner>>
pool     == <<target, nthreads, pc, cur>>
wvars    == <<workers, started, stopping, exited, wowner>>
wake     == <<pipe, armed>>
drain    == <<list, delivered>>
mainvars == <<mpc, after, goal, leaving, todo>>
vars     == <<switches, queues, pool, wvars, wake, drain, mainvars,
              loaded, dropped, chained>>

Slots  == 0 .. (MaxThreads - 1)
Owners == Modules \cup {Core}

(* Every task the server owns, wherever it is.                             *)
Held == Range(pending) \cup running \cup Range(ready) \cup Range(list) \cup dropped

OwnedBy(m) == {t \in Tasks : owner[t] = m}

(* Seeded fault: the wait for running tasks is skipped.                    *)
HasRunningNever(m) == FALSE

(* module_has_running()                                                    *)
HasRunning(m) == \E t \in running : owner[t] = m

Init ==
    /\ up = FALSE /\ configured = FALSE /\ enabled = FALSE /\ closed = FALSE
    /\ queueMax = 0
    /\ feat \in 0 .. MaxThreads
    /\ pending = << >> /\ running = {} /\ ready = << >> /\ outstanding = 0
    /\ owner = [t \in Tasks |-> Core]
    /\ target = 0 /\ nthreads = 0
    /\ pc = [i \in Slots |-> "none"] /\ cur = [i \in Slots |-> NoTask]
    /\ workers = {} /\ started = {} /\ stopping = {} /\ exited = {}
    /\ wowner = [w \in Workers |-> Core]
    /\ pipe = FALSE /\ armed = FALSE
    /\ loaded = {}
    /\ mpc = "idle" /\ after = "idle" /\ goal = 0 /\ leaving = Core /\ todo = {}
    /\ list = << >> /\ delivered = 0
    /\ dropped = {}
    /\ chained = 0

-----------------------------------------------------------------------------
(* Queue plumbing, under the mutex.                                        *)

(* wake_main(): one byte, unless one is believed to be there already.      *)
WakeMain ==
    /\ pipe' = (pipe \/ ~armed)
    /\ armed' = TRUE

(* pthread_cond_signal(&wi_work): some waiting thread, if there is one.    *)
SignalWork ==
    IF \E i \in Slots : pc[i] = "wait"
      THEN \E i \in Slots : pc[i] = "wait" /\ pc' = [pc EXCEPT ![i] = "loop"]
      ELSE pc' = pc

(* pthread_cond_broadcast(&wi_work)                                        *)
BroadcastWork ==
    pc' = [i \in Slots |-> IF pc[i] = "wait" THEN "loop" ELSE pc[i]]

(* task_accept(): the backlog is bounded.                                  *)
TaskAccept ==
    /\ outstanding < queueMax
    /\ outstanding' = outstanding + 1

(* Seeded fault: the submission does not signal wi_work.                   *)
SubmitSilently(o, t) ==
    /\ t \notin Held
    /\ up /\ enabled
    /\ TaskAccept
    /\ owner' = [owner EXCEPT ![t] = o]
    /\ pending' = Append(pending, t)
    /\ UNCHANGED <<running, ready, pool, wake>>

(* An accepted worker_submit_owned(o, t).                                  *)
Submit(o, t) ==
    /\ t \notin Held
    /\ up /\ enabled
    /\ TaskAccept
    /\ owner' = [owner EXCEPT ![t] = o]
    /\ pending' = Append(pending, t)
    /\ SignalWork
    /\ UNCHANGED <<running, ready, target, nthreads, cur, wake>>

(* An accepted worker_post() or worker_log() of t on behalf of o.          *)
Post(o, t) ==
    /\ t \notin Held
    /\ up
    /\ TaskAccept
    /\ owner' = [owner EXCEPT ![t] = o]
    /\ ready' = Append(ready, t)
    /\ WakeMain
    /\ UNCHANGED <<pending, running, pool>>

-----------------------------------------------------------------------------
(* Pool threads: worker_pool_main().                                       *)

PoolWait(i) ==
    /\ pc[i] = "loop" /\ pending = << >> /\ i < target
    /\ pc' = [pc EXCEPT ![i] = "wait"]
    /\ UNCHANGED <<switches, queues, target, nthreads, cur, wvars, wake, drain,
                   mainvars, loaded, dropped, chained>>

PoolTake(i) ==
    /\ pc[i] = "loop" /\ pending # << >> /\ i < target
    /\ pc' = [pc EXCEPT ![i] = "work"]
    /\ cur' = [cur EXCEPT ![i] = Head(pending)]
    /\ pending' = Tail(pending)
    /\ running' = running \cup {Head(pending)}
    /\ UNCHANGED <<switches, ready, outstanding, owner, target, nthreads, wvars,
                   wake, drain, mainvars, loaded, dropped, chained>>

PoolExit(i) ==
    /\ pc[i] = "loop" /\ i >= target
    /\ pc' = [pc EXCEPT ![i] = "exited"]
    /\ UNCHANGED <<switches, queues, target, nthreads, cur, wvars, wake, drain,
                   mainvars, loaded, dropped, chained>>

(* Seeded fault: the finished task stays on the running list.              *)
PoolFinishStillListed(i) ==
    /\ pc[i] = "work"
    /\ pc' = [pc EXCEPT ![i] = "loop"]
    /\ cur' = [cur EXCEPT ![i] = NoTask]
    /\ ready' = Append(ready, cur[i])
    /\ WakeMain
    /\ UNCHANGED <<switches, pending, running, outstanding, owner, target,
                   nthreads, wvars, drain, mainvars, loaded, dropped, chained>>

(* wt_work() has returned: running_unlink(), ready_push().                 *)
PoolFinish(i) ==
    /\ pc[i] = "work"
    /\ pc' = [pc EXCEPT ![i] = "loop"]
    /\ cur' = [cur EXCEPT ![i] = NoTask]
    /\ running' = running \ {cur[i]}
    /\ ready' = Append(ready, cur[i])
    /\ WakeMain
    /\ UNCHANGED <<switches, pending, outstanding, owner, target, nthreads,
                   wvars, drain, mainvars, loaded, dropped, chained>>

(* The running task submits more work, or queues a log line.               *)
TaskSubmits(i, t) ==
    /\ pc[i] = "work" /\ chained < MaxChain
    /\ chained' = chained + 1
    /\ \/ Submit(owner[cur[i]], t)
       \/ Post(Core, t)
    /\ UNCHANGED <<switches, wvars, drain, mainvars, loaded, dropped>>

-----------------------------------------------------------------------------
(* Dedicated workers: w_main() of a worker whose thread was created.       *)

WorkerPosts(w, t) ==
    /\ w \in started \ exited
    /\ Post(wowner[w], t) \/ Post(Core, t) \/ Submit(wowner[w], t)
    /\ UNCHANGED <<switches, wvars, drain, mainvars, loaded, dropped, chained>>

(* w_main() returns: it must once it is asked to, and may before that.     *)
WorkerExit(w) ==
    /\ w \in started \ exited
    /\ exited' = exited \cup {w}
    /\ UNCHANGED <<switches, queues, pool, workers, started, stopping, wowner,
                   wake, drain, mainvars, loaded, dropped, chained>>

-----------------------------------------------------------------------------
(* The main thread: worker_wake_callback() and worker_drain().             *)

WakeRead ==
    /\ mpc = "idle" /\ up /\ pipe
    /\ pipe' = FALSE
    /\ mpc' = "clear"
    /\ UNCHANGED <<switches, queues, pool, wvars, armed, drain, after, goal,
                   leaving, todo, loaded, dropped, chained>>

(* Seeded fault: the armed flag is never cleared.                          *)
WakeClearKeepsArmed ==
    /\ mpc = "clear"
    /\ mpc' = "detach"
    /\ UNCHANGED <<switches, queues, pool, wvars, wake, drain, after, goal,
                   leaving, todo, loaded, dropped, chained>>

WakeClear ==
    /\ mpc = "clear"
    /\ armed' = FALSE
    /\ mpc' = "detach"
    /\ UNCHANGED <<switches, queues, pool, wvars, pipe, drain, after, goal,
                   leaving, todo, loaded, dropped, chained>>

(* Seeded fault: the reply queue is copied, not detached.                  *)
DrainDetachCopies ==
    /\ mpc = "detach"
    /\ list' = ready
    /\ delivered' = 0
    /\ mpc' = "deliver"
    /\ UNCHANGED <<switches, queues, pool, wvars, wake, after, goal, leaving,
                   todo, loaded, dropped, chained>>

DrainDetach ==
    /\ mpc = "detach"
    /\ list' = ready
    /\ ready' = << >>
    /\ delivered' = 0
    /\ mpc' = "deliver"
    /\ UNCHANGED <<switches, pending, running, outstanding, owner, pool, wvars,
                   wake, after, goal, leaving, todo, loaded, dropped, chained>>

(* wt_done() of the task at the head of the list submits more work.        *)
DoneSubmits(t) ==
    /\ mpc = "deliver" /\ list # << >> /\ chained < MaxChain
    /\ chained' = chained + 1
    /\ Submit(owner[Head(list)], t)
    /\ UNCHANGED <<switches, wvars, drain, mainvars, loaded, dropped>>

(* wt_done() has returned: task_destroy().                                 *)
DrainDeliver ==
    /\ mpc = "deliver" /\ list # << >>
    /\ list' = Tail(list)
    /\ delivered' = delivered + 1
    /\ UNCHANGED <<switches, queues, pool, wvars, wake, mainvars, loaded,
                   dropped, chained>>

(* Seeded fault: what was delivered is taken off the count twice.          *)
DrainAccountTwice ==
    /\ mpc = "deliver" /\ list = << >>
    /\ outstanding' = outstanding - 2 * delivered
    /\ delivered' = 0
    /\ mpc' = "idle"
    /\ UNCHANGED <<switches, pending, running, ready, owner, pool, wvars, wake,
                   list, after, goal, leaving, todo, loaded, dropped, chained>>

DrainAccount ==
    /\ mpc = "deliver" /\ list = << >>
    /\ outstanding' = outstanding - delivered
    /\ delivered' = 0
    /\ mpc' = "idle"
    /\ UNCHANGED <<switches, pending, running, ready, owner, pool, wvars, wake,
                   list, after, goal, leaving, todo, loaded, dropped, chained>>

-----------------------------------------------------------------------------
(* The main thread: submitting, and starting and stopping workers.         *)

MainSubmits(o, t) ==
    /\ mpc = "idle"
    /\ o \in loaded \cup {Core}
    /\ Submit(o, t)
    /\ UNCHANGED <<switches, wvars, drain, mainvars, loaded, dropped, chained>>

(* worker_enabled(): the feature until worker_init(), the pool after it.   *)
WorkerEnabled == IF configured THEN up /\ enabled ELSE feat > 0

(* worker_spawn_owned(): before the subsystem is up the spawn is held.  A  *)
(* thread that cannot be created takes the worker off the list again.      *)
WorkerSpawn(o, w) ==
    /\ mpc = "idle"
    /\ o \in loaded \cup {Core}
    /\ w \notin workers
    /\ WorkerEnabled
    /\ workers' = workers \cup {w}
    /\ started' = IF up THEN started \cup {w} ELSE started
    /\ wowner' = [wowner EXCEPT ![w] = o]
    /\ UNCHANGED <<switches, queues, pool, stopping, exited, wake, drain,
                   mainvars, loaded, dropped, chained>>

(* worker_stop_owned(): a stale handle is not on the list.                 *)
WorkerStopOwned(m, w) ==
    /\ mpc = "idle"
    /\ m \in loaded
    /\ w \in workers /\ wowner[w] = m
    /\ todo' = {w} /\ mpc' = "stop" /\ after' = "idle"
    /\ UNCHANGED <<switches, queues, pool, wvars, wake, drain, goal, leaving,
                   loaded, dropped, chained>>

(* Seeded fault: the worker is never told to stop.                         *)
StopAskSilently(w) ==
    /\ mpc = "stop" /\ w \in todo /\ todo \cap stopping = {}
    /\ UNCHANGED vars

(* worker_stop(), first half: raise w_stop and write the byte.             *)
StopAsk(w) ==
    /\ mpc = "stop" /\ w \in todo /\ todo \cap stopping = {}
    /\ stopping' = stopping \cup {w}
    /\ UNCHANGED <<switches, queues, pool, workers, started, exited, wowner,
                   wake, drain, mainvars, loaded, dropped, chained>>

(* worker_stop(), second half: join the thread if there is one, unlink and *)
(* free the worker.                                                        *)
StopJoin(w) ==
    /\ mpc = "stop" /\ w \in todo \cap stopping
    /\ w \in started => w \in exited
    /\ todo' = todo \ {w}
    /\ workers' = workers \ {w}
    /\ started' = started \ {w}
    /\ stopping' = stopping \ {w}
    /\ exited' = exited \ {w}
    /\ UNCHANGED <<switches, queues, pool, wowner, wake, drain, mpc, after,
                   goal, leaving, loaded, dropped, chained>>

(* The loop over the workers is over: carry on with what it was part of.   *)
StopDone ==
    /\ mpc = "stop" /\ todo = {}
    /\ mpc' = CASE after = "idle"   -> "idle"
                [] after = "zero"   -> IF up THEN "resize" ELSE "idle"
                [] after = "shut"   -> "resize"
                [] after = "cancel" -> IF up THEN "sweep" ELSE "unmap"
    /\ UNCHANGED <<switches, queues, pool, wvars, wake, drain, after, goal,
                   leaving, todo, loaded, dropped, chained>>

-----------------------------------------------------------------------------
(* The main thread: worker_set_threads() and pool_resize().                *)

(* worker_set_threads(0): the master switch.  Only started workers go.     *)
SetZero(q) ==
    /\ queueMax' = q
    /\ enabled' = FALSE
    /\ todo' = started /\ mpc' = "stop" /\ after' = "zero" /\ goal' = 0
    /\ UNCHANGED <<up, closed, pipe>>

(* worker_set_threads(n): the pipe is new when the subsystem was down.     *)
SetSome(n, q) ==
    /\ queueMax' = q
    /\ up' = TRUE
    /\ pipe' = (up /\ pipe)
    /\ enabled' = TRUE
    /\ mpc' = "resize" /\ after' = "grow" /\ goal' = n
    /\ UNCHANGED <<closed, todo>>

(* worker_bring_up() could not open or watch the pipe.                     *)
BringUpFails(q) ==
    /\ ~up
    /\ queueMax' = q
    /\ UNCHANGED <<up, enabled, closed, pipe, mpc, after, goal, todo>>

SetThreads(n, q) ==
    /\ IF n = 0 THEN SetZero(q) ELSE SetSome(n, q) \/ BringUpFails(q)
    /\ UNCHANGED <<queues, pool, wvars, armed, drain, leaving, loaded, dropped,
                   chained>>

(* worker_init(), once the configuration file has been read.               *)
WorkerInit(q) ==
    /\ mpc = "idle" /\ ~configured
    /\ configured' = TRUE
    /\ SetThreads(feat, q)
    /\ UNCHANGED feat

(* worker_feature_notify(), from /SET and /REHASH: before worker_init()    *)
(* the value is only remembered.                                           *)
FeatureNotify(n, q) ==
    /\ mpc = "idle"
    /\ closed => Restartable
    /\ feat' = n
    /\ IF configured
         THEN SetThreads(n, q)
         ELSE UNCHANGED <<up, enabled, queueMax, closed, queues, pool, wvars,
                          wake, drain, mainvars, loaded, dropped, chained>>
    /\ UNCHANGED configured

(* pool_resize(), under the mutex.                                         *)
PoolResize ==
    /\ mpc = "resize"
    /\ target' = goal
    /\ BroadcastWork
    /\ mpc' = "join"
    /\ UNCHANGED <<switches, queues, nthreads, cur, wvars, wake, drain, after,
                   goal, leaving, todo, loaded, dropped, chained>>

(* pool_resize(), shrinking: join every slot above the target.             *)
PoolJoin ==
    /\ mpc = "join"
    /\ \A i \in Slots : i >= goal /\ i < nthreads => pc[i] = "exited"
    /\ pc' = [i \in Slots |-> IF i >= goal THEN "none" ELSE pc[i]]
    /\ nthreads' = IF goal < nthreads THEN goal ELSE nthreads
    /\ mpc' = CASE after = "zero" -> "detach"
                [] after = "grow" -> "grow"
                [] after = "shut" -> "shut"
    /\ UNCHANGED <<switches, queues, target, cur, wvars, wake, drain, after,
                   goal, leaving, todo, loaded, dropped, chained>>

(* Seeded fault: a held worker whose thread cannot be created stays on the *)
(* list.                                                                   *)
PoolGrowKeepsLost ==
    /\ mpc = "grow"
    /\ \E k \in nthreads .. goal :
         /\ pc' = [i \in Slots |-> IF nthreads <= i /\ i < k THEN "loop" ELSE pc[i]]
         /\ target' = k /\ nthreads' = k
    /\ \E lost \in SUBSET (workers \ started) : started' = workers \ lost
    /\ mpc' = "idle"
    /\ UNCHANGED <<switches, queues, cur, workers, stopping, exited, wowner, wake,
                   drain, after, goal, leaving, todo, loaded, dropped, chained>>

(* pool_resize(), growing: a failed pthread_create() settles for k.  Then  *)
(* worker_start_pending(): the held workers whose thread cannot be created *)
(* are freed.                                                              *)
PoolGrow ==
    /\ mpc = "grow"
    /\ \E k \in nthreads .. goal :
         /\ pc' = [i \in Slots |-> IF nthreads <= i /\ i < k THEN "loop" ELSE pc[i]]
         /\ target' = k /\ nthreads' = k
    /\ \E lost \in SUBSET (workers \ started) :
         /\ workers' = workers \ lost
         /\ started' = workers \ lost
    /\ mpc' = "idle"
    /\ UNCHANGED <<switches, queues, cur, stopping, exited, wowner, wake, drain,
                   after, goal, leaving, todo, loaded, dropped, chained>>

-----------------------------------------------------------------------------
(* The main thread: worker_cancel_module() and worker_shutdown().          *)

(* module_load(): the module's code is mapped.                             *)
ModuleLoad(m) ==
    /\ mpc = "idle" /\ ~closed
    /\ m \notin loaded
    /\ loaded' = loaded \cup {m}
    /\ UNCHANGED <<switches, queues, pool, wvars, wake, drain, mainvars,
                   dropped, chained>>

(* worker_cancel_module(): its threads first.                              *)
CancelModule(m) ==
    /\ mpc = "idle"
    /\ m \in loaded
    /\ leaving' = m
    /\ todo' = {w \in workers : wowner[w] = m}
    /\ mpc' = "stop" /\ after' = "cancel"
    /\ UNCHANGED <<switches, queues, pool, wvars, wake, drain, goal, loaded,
                   dropped, chained>>

(* Seeded fault: the pending queue is not swept a second time.             *)
CancelReadyOnly ==
    LET mine == OwnedBy(leaving)
        r == Without(ready, mine)
    IN  /\ ready' = r
        /\ outstanding' = outstanding - (Len(ready) - Len(r))
        /\ dropped' = dropped \cup (mine \cap Range(ready))
        /\ mpc' = "unmap"
        /\ UNCHANGED pending

(* The last word: pending and ready swept with the mutex held throughout.  *)
CancelBoth ==
    LET mine == OwnedBy(leaving)
        p == Without(pending, mine)
        r == Without(ready, mine)
    IN  /\ pending' = p
        /\ ready' = r
        /\ outstanding' = outstanding - ((Len(pending) - Len(p)) + (Len(ready) - Len(r)))
        /\ dropped' = dropped \cup (mine \cap (Range(pending) \cup Range(ready)))
        /\ mpc' = "unmap"

(* Seeded fault: the sweep does not take the tasks off wi_outstanding.     *)
CancelPendingUncounted ==
    LET mine == OwnedBy(leaving)
        p == Without(pending, mine)
    IN  /\ pending' = p
        /\ dropped' = dropped \cup (mine \cap Range(pending))
        /\ mpc' = "wait"
        /\ UNCHANGED <<ready, outstanding>>

(* The first sweep: with a task of the module's running, only pending.     *)
CancelPending ==
    LET mine == OwnedBy(leaving)
        p == Without(pending, mine)
    IN  /\ pending' = p
        /\ outstanding' = outstanding - (Len(pending) - Len(p))
        /\ dropped' = dropped \cup (mine \cap Range(pending))
        /\ mpc' = "wait"
        /\ UNCHANGED ready

CancelSweep ==
    /\ mpc = "sweep"
    /\ IF HasRunning(leaving) THEN CancelPending ELSE CancelBoth
    /\ UNCHANGED <<switches, running, owner, pool, wvars, wake, drain, after,
                   goal, leaving, todo, loaded, chained>>

(* pthread_cond_timedwait() came back and nothing of the module's runs.    *)
CancelWake ==
    /\ mpc = "wait"
    /\ ~HasRunning(leaving)
    /\ CancelBoth
    /\ UNCHANGED <<switches, running, owner, pool, wvars, wake, drain, after,
                   goal, leaving, todo, loaded, chained>>

(* The dropped tasks are destroyed, and the caller unmaps the module.      *)
CancelUnmap ==
    /\ mpc = "unmap"
    /\ dropped' = {}
    /\ loaded' = loaded \ {leaving}
    /\ leaving' = Core
    /\ mpc' = "idle"
    /\ UNCHANGED <<switches, queues, pool, wvars, wake, drain, after, goal,
                   todo, chained>>

(* worker_shutdown()                                                       *)
Shutdown ==
    /\ mpc = "idle" /\ up
    /\ enabled' = FALSE
    /\ todo' = workers /\ mpc' = "stop" /\ after' = "shut" /\ goal' = 0
    /\ UNCHANGED <<up, configured, queueMax, feat, closed, queues, pool, wvars,
                   wake, drain, leaving, loaded, dropped, chained>>

ShutDetach ==
    /\ mpc = "shut"
    /\ dropped' = Range(ready) \cup Range(pending)
    /\ ready' = << >> /\ pending' = << >>
    /\ outstanding' = 0
    /\ up' = FALSE
    /\ mpc' = "shutfree"
    /\ UNCHANGED <<configured, enabled, queueMax, feat, closed, running, owner,
                   pool, wvars, wake, drain, after, goal, leaving, todo, loaded,
                   chained>>

(* Destroy the tasks and close the pipe.                                   *)
ShutFree ==
    /\ mpc = "shutfree"
    /\ dropped' = {}
    /\ pipe' = FALSE
    /\ closed' = TRUE
    /\ mpc' = "idle"
    /\ UNCHANGED <<up, configured, enabled, queueMax, feat, queues, pool, wvars,
                   armed, drain, after, goal, leaving, todo, loaded, chained>>

(* The server has stopped its workers and is on its way out.               *)
Halted == mpc = "idle" /\ closed /\ UNCHANGED vars

-----------------------------------------------------------------------------
PoolStep(i) == PoolWait(i) \/ PoolTake(i) \/ PoolExit(i) \/ PoolFinish(i)

(* The steps the main thread takes once it has begun an operation.         *)
MainStep ==
    \/ WakeClear \/ DrainDetach \/ DrainDeliver \/ DrainAccount
    \/ \E w \in Workers : StopAsk(w) \/ StopJoin(w)
    \/ StopDone \/ PoolResize \/ PoolJoin \/ PoolGrow
    \/ CancelSweep \/ CancelWake \/ CancelUnmap
    \/ ShutDetach \/ ShutFree

(* What commands, timers and the configuration make the main thread begin. *)
MainBegins ==
    \/ \E o \in Owners, t \in Tasks : MainSubmits(o, t)
    \/ \E t \in Tasks : DoneSubmits(t)
    \/ \E o \in Owners, w \in Workers : WorkerSpawn(o, w)
    \/ \E m \in Modules, w \in Workers : WorkerStopOwned(m, w)
    \/ \E q \in QueueMaxes : WorkerInit(q)
    \/ \E n \in 0 .. MaxThreads, q \in QueueMaxes : FeatureNotify(n, q)
    \/ \E m \in Modules : ModuleLoad(m) \/ CancelModule(m)
    \/ Shutdown

Next ==
    \/ WakeRead \/ MainStep \/ MainBegins \/ Halted
    \/ \E i \in Slots : PoolStep(i)
    \/ \E i \in Slots, t \in Tasks : TaskSubmits(i, t)
    \/ \E w \in Workers : WorkerExit(w)
    \/ \E w \in Workers, t \in Tasks : WorkerPosts(w, t)

Spec == Init /\ [][Next]_vars

(* Threads that can run do run, wt_work() returns, w_main() returns once   *)
(* it is asked to, and the event loop gets round to a readable descriptor  *)
(* however often other work keeps it busy.                                 *)
Fairness ==
    /\ \A i \in Slots : WF_vars(PoolStep(i))
    /\ \A w \in Workers : WF_vars(w \in stopping /\ WorkerExit(w))
    /\ WF_vars(MainStep)
    /\ SF_vars(WakeRead)

FairSpec == Spec /\ Fairness

-----------------------------------------------------------------------------
(* Correctness.                                                            *)

TypeSwitches ==
    /\ up \in BOOLEAN /\ configured \in BOOLEAN /\ enabled \in BOOLEAN
    /\ closed \in BOOLEAN /\ pipe \in BOOLEAN /\ armed \in BOOLEAN
    /\ queueMax \in Nat
    /\ feat \in 0 .. MaxThreads

TypeQueues ==
    /\ pending \in Seq(Tasks) /\ ready \in Seq(Tasks) /\ list \in Seq(Tasks)
    /\ running \in SUBSET Tasks /\ dropped \in SUBSET Tasks
    /\ outstanding \in Nat /\ delivered \in Nat
    /\ owner \in [Tasks -> Owners]
    /\ chained \in 0 .. MaxChain

TypePool ==
    /\ target \in 0 .. MaxThreads /\ nthreads \in 0 .. MaxThreads
    /\ pc \in [Slots -> {"none", "loop", "wait", "work", "exited"}]
    /\ cur \in [Slots -> Tasks \cup {NoTask}]
    /\ \A i \in Slots : pc[i] = "work" <=> cur[i] \in Tasks

TypeWorkers ==
    /\ workers \in SUBSET Workers /\ started \in SUBSET workers
    /\ stopping \in SUBSET todo /\ exited \in SUBSET started
    /\ todo \in SUBSET workers
    /\ wowner \in [Workers -> Owners]

TypeMain ==
    /\ loaded \in SUBSET Modules
    /\ mpc \in {"idle", "clear", "detach", "deliver", "stop", "resize", "join",
                "grow", "sweep", "wait", "unmap", "shut", "shutfree"}
    /\ after \in {"idle", "zero", "grow", "cancel", "shut"}
    /\ goal \in 0 .. MaxThreads
    /\ leaving \in Owners

(* Every variable stays in its type: in particular wi_outstanding, which   *)
(* the code counts in an unsigned int, never goes below zero.              *)
TypeOK == TypeSwitches /\ TypeQueues /\ TypePool /\ TypeWorkers /\ TypeMain

(* Ownership: a task the server holds is in exactly one of its lists, and  *)
(* once.  A task in two places is run, delivered or freed twice.           *)
OnePlace ==
    /\ IsInjective(pending) /\ IsInjective(ready) /\ IsInjective(list)
    /\ Range(pending) \cap (running \cup Range(ready) \cup Range(list) \cup dropped) = {}
    /\ running \cap (Range(ready) \cup Range(list) \cup dropped) = {}
    /\ Range(ready) \cap (Range(list) \cup dropped) = {}
    /\ Range(list) \cap dropped = {}

(* wi_outstanding, which task_accept() bounds the backlog by, counts every *)
(* task that is queued, running, finished or being delivered: none leaks   *)
(* out of the count and none is taken off it twice.                        *)
Accounting ==
    outstanding = Len(pending) + Cardinality(running) + Len(ready)
                    + Len(list) + delivered

(* Once a module's code is unmapped nothing refers to it: no task of its   *)
(* is queued, running or about to be delivered, and no thread of its runs. *)
UnloadedOwnsNothing ==
    \A m \in Modules \ loaded :
        /\ \A t \in Held : owner[t] # m
        /\ \A w \in workers : wowner[w] # m

(* No lost wake-up: while results wait on the reply queue, either a byte   *)
(* in the pipe is going to wake the main thread or it is already on its    *)
(* way to detach the queue.                                                *)
NoLostWake ==
    up /\ ready # << >> => pipe \/ mpc \in {"clear", "detach"}

(* wi_running lists exactly the tasks inside pool threads, one each, which *)
(* is what worker_cancel_module() waits on.                                *)
RunningInThreads ==
    /\ running = {cur[i] : i \in {j \in Slots : pc[j] = "work"}}
    /\ \A i, j \in Slots : pc[i] = "work" /\ pc[j] = "work" /\ cur[i] = cur[j] => i = j

(* A spawn from before worker_init() is held until the subsystem is up.    *)
(* From then on every worker on wi_workers has its thread: none held over  *)
(* a failed bring-up, a switch to zero or an earlier configuration is      *)
(* forgotten on the list, except while worker_set_threads() is bringing    *)
(* the subsystem up.                                                       *)
HeldUntilUp ==
    up => workers = started \/ (after = "grow" /\ mpc \in {"resize", "join", "grow"})

(* "wi_wake_armed: A byte is already in the pipe", except between reading  *)
(* the pipe and clearing the flag.                                         *)
ArmedMeansByte == up /\ armed => pipe \/ mpc = "clear"

(* "Zero is the master switch, so the dedicated workers go too --          *)
(* including any that were spawned before worker_init() and are still      *)
(* waiting to start."                                                      *)
ZeroTakesAllWorkers ==
    configured /\ feat = 0 /\ mpc = "idle" => workers = {}

(* The main thread never stays blocked: every join and every wait of an    *)
(* operation it has begun comes to an end.                                 *)
MainReturns == mpc # "idle" ~> mpc = "idle"

(* A submitted task does not stay on the pending queue for ever, unless    *)
(* the pool has no threads or has been switched off.                       *)
PendingResolved ==
    \A t \in Tasks : t \in Range(pending) ~> (t \notin Range(pending) \/ target = 0)

(* A finished task is delivered or thrown away.                            *)
ReadyResolved ==
    \A t \in Tasks : t \in Range(ready) ~> t \notin Range(ready)
=============================================================================
