# Verification of ircu2

TLA+ models of parts of this IRC daemon, the TLC configurations that check them
on small instances, and TLAPS proofs for every value of the constants. Every
definition that stands for code is listed with its source lines under `map` in
`PROJECT.json`; paths below are relative to the repository root.

## The system

One process, one event loop (`ircd_events.c` and an engine), and a few threads.
Everything a client, a peer server, a timer or a module does runs on the main
thread as a callback of the loop; only `worker.c` runs code anywhere else.

| Part | Files | State it keeps | What is hard about it |
|---|---|---|---|
| Worker subsystem | `ircd/worker.c` | three task queues, pool threads, dedicated workers, wake-up pipe | threads, joins, lost wake-ups, unloading a module with work in flight |
| Hooks | `ircd/hooks.c` | chains per hook point, suspended actions with tokens and deadlines | a hook unregisters while its chain runs; a late or second resume; a timeout racing the answer |
| Database calls | `ircd/db.c` | one driver, calls in flight by id | the driver or the caller unloads between question and answer |
| Cache calls | `ircd/cache.c` | one driver, calls in flight with deadlines | the same, plus timeouts racing late answers and a bound on calls |
| Migrations | `ircd/migration.c`, `ircd/migration_run.c` | jobs in flight, one per module | a check made when a command arrives, acted on when the database answers |
| Module manager | `ircd/module.c`, `ircd/module_sync.c` | loaded modules and everything registered for them | order of teardown; rehash mark and sweep |
| Isolated modules | `ircd/modhost.c`, `ircd/modhost/` | a child process per module, a frame protocol | the child dies or answers late |
| HTTP server | `ircd/http.c`, `ircd/http_server.c` | routes, connections, deferred answers | the connection or the module goes before the answer |
| Capabilities, tags, batches | `ircd/capab.c`, `ircd/m_cap.c`, `ircd/msg_tag.c`, `ircd/batch.c`, `ircd/multiline.c` | per-connection negotiated sets, open batches | negotiation during registration, bounded batches |
| SASL | `ircd/sasl.c`, `ircd/m_sasl.c` | one exchange per client | the agent leaves, the client registers meanwhile |
| Client registration | `ircd/s_auth.c` | pending flags of an authorisation request | DNS, ident, iauth and timeouts in any order |
| Resolver | `ircd/ircd_res.c`, `ircd/ircd_reslib.c` | outstanding queries, retries, cache | lost, late and duplicated answers |
| Users, nicks, numerics | `ircd/s_user.c`, `ircd/m_nick.c`, `ircd/numnicks.c`, `ircd/hash.c`, `ircd/list.c` | clients, hash tables, numeric table | nick collisions resolved the same way on every server |
| Channels | `ircd/channel.c`, `ircd/m_burst.c`, `ircd/m_join.c`, `ircd/m_create.c`, `ircd/m_mode.c` | memberships, modes, bans, creation time | concurrent joins, net bursts and timestamps |
| Server links | `ircd/m_server.c`, `ircd/s_serv.c`, `ircd/m_endburst.c`, `ircd/m_eob_ack.c`, `ircd/s_misc.c` | tree of servers, burst flags | a link that would close a loop; splits during a burst |
| Network bans | `ircd/gline.c`, `ircd/jupe.c`, `ircd/sline.c` | timed entries, local and global activation | last-modified ordering, expiry |
| Connection throttling | `ircd/IPcheck.c` | per-address counters | small wrapping counters, expiry |
| Classes and listeners | `ircd/class.c`, `ircd/listener.c`, `ircd/s_conf.c` | reference counts | objects outlive a rehash while they are used |
| Buffers and queues | `ircd/dbuf.c`, `ircd/msgq.c`, `ircd/send.c`, `ircd/packet.c` | reference-counted messages, flow control | bounds, sharing, partial writes |
| Event core | `ircd/ircd_events.c`, `ircd/ircd_signal.c` | timers, sockets, generators | an object destroyed while its event is queued |
| Whowas, motd, userload, uping | `ircd/whowas.c`, `ircd/motd.c`, `ircd/userload.c`, `ircd/uping.c` | bounded rings and caches | reuse of a slot somebody still points to |
| Parsing and matching | `ircd/parse.c`, `ircd/match.c`, `ircd/crule.c`, `ircd/cidr_lookups.c` | command trie, masks | pure algorithms with boundary cases |
| Bots | `ircd/bot.c` | server-side clients owned by modules | teardown on unload |
| Modules in the tree | `modules/` | postgres pool, redis driver, history, filehost | connection pool, retries, ordering of writes |

## Workers (`Worker`, `WorkerService`, `WorkerRefines`, `MCWorker`)

`Worker` models `ircd/worker.c`. Each section of the code that runs under
`wi_mutex` is one action. A pool thread is a place `pc[i]` and a task `cur[i]`
(`PoolWait`, `PoolTake`, `PoolExit`, `PoolFinish`); a dedicated worker is a
member of `workers` that is `started`, `stopping` or `exited`. The main thread
runs one operation at a time, and an operation that releases the mutex or blocks
is a chain of actions linked by `mpc`:

- wake-up: `WakeRead`, `WakeClear`, then the drain;
- `worker_drain()`: `DrainDetach`, `DrainDeliver` per task, `DrainAccount`;
- `worker_stop()`: `StopAsk`, `StopJoin`, with `StopDone` going on to whatever
  the loop over the workers was part of (`after`);
- `worker_set_threads()`: `SetThreads`, then `PoolResize`, `PoolJoin`, `PoolGrow`;
- `worker_cancel_module()`: `CancelModule`, the stops, `CancelSweep`,
  `CancelWake`, `CancelUnmap`;
- `worker_shutdown()`: `Shutdown`, the stops, the resize, `ShutDetach`, `ShutFree`.

A failed `pthread_create()` or `pipe()` is a branch of the action that calls it.
`wt_work()` and `w_main()` may submit and post; `wt_done()` may submit. A refused
submission changes nothing but a statistics counter, so it is a stuttering step.
A task is an address, reused once freed.

`WorkerService` is the abstract contract: an accepted task is finished once and
then delivered once to an owner that is still loaded, or discarded because its
owner or the service is going. `WorkerRefines` maps the three queues and the detached
list to a status per task (`status`), and `ImplementsService` says that under this
mapping every behaviour of the detailed model is one of the service's.

| Run | Instance | Shows |
|---|---|---|
| `worker_safety` | 3 tasks, 2 threads, 1 module, 1 dedicated worker, backlog of 2 | `TypeOK`, `OnePlace`, `Accounting`, `UnloadedOwnsNothing`, `NoLostWake`, `RunningInThreads`, `HeldUntilUp`, `ImplementsService` |
| `worker_liveness` | 2 tasks | `MainReturns`, `PendingResolved`, `ReadyResolved` |
| `worker_restart` | as above, started again after a shutdown | violated: `wi_wake_armed` outlives its pipe |

`HeldUntilUp` is about a spawn made before `worker_init()`, which
`doc/readme.workers` promises to hold until the configuration is known. The held
worker may outlive a failed bring-up and a switch to zero; once the subsystem is
up it has its thread or has been freed, so no handle a module keeps names a worker
that is listed and never runs. Stopping a worker through a handle that is no longer
listed changes nothing and is a stuttering step.

Bounds. Two threads and three tasks with a backlog of two are enough for a task
to be refused, for one thread to exit while the other works, and for a task to be
submitted by a running task while its module is unloaded. `MaxChain` bounds only
the tasks that tasks submit: without it a task that resubmits itself for ever
keeps its module from unloading, which is what the code does. `Restartable` is
false except in `worker_restart`: the daemon shuts the subsystem down only on its
way out, the unit test starts it again.

Fairness. Threads that can run do run and `wt_work()` returns (weak fairness of
a pool thread), `w_main()` returns once asked to (weak fairness of `WorkerExit`
while stopping), the main thread finishes what it began (weak fairness of
`MainStep`), and the event loop gets round to a readable descriptor however often
other work keeps it busy (strong fairness of `WakeRead`: between two operations
the loop always polls). Nothing is assumed about new work arriving.

Proofs (`Queues`, `QueueProofs`, `WorkerControl`, `WorkerMoves`, `WorkerProofs`,
`ServiceProofs`).
The inductive invariant `IndInv` strengthens the checked invariants with what the
main thread's position implies: which workers it is stopping and for whom
(`OwnerShape`), that the pool is empty once it has been shrunk to nothing
(`PoolShape`, `DownShape`), and which positions the detached list and the
dropped tasks can be non-empty in (`MainShape`). It is needed because the
checked invariants say nothing about the middle of an unload, where they would
have to hold one sweep later. The steps are split into kinds: quiet steps that
leave the queues alone (`WorkerControl`), and the steps that accept or move tasks
(`WorkerMoves`); `QueueProofs` proves what filtering a queue keeps and removes.
`HeldUntilUp` is inductive relative to `IndInv`.

`ServiceProofs` shows the refinement, one lemma per kind of step: accepting is the
service's `Accept`, the end of `wt_work()` its `Finish`, the end of `wt_done()` its
`Deliver`, both sweeps its `Discard`, the shutdown its `Close`; taking a task,
detaching the reply queue and all quiet steps but loading and unmapping are
invisible. Three parts of `IndInv` carry it: `OnePlace` (the statuses exclude one
another, so a task is delivered once), `OwnerShape` (the owner of what is delivered
is loaded, and what is unmapped owns nothing) and `PoolShape` (nothing runs any more
when a shutdown throws the tasks away). `WakeUpsNotLost` assumes `~Restartable`, which `worker_restart` shows is necessary.

| Theorem | Statement |
|---|---|
| `TypeCorrect` | `Spec => []TypeOK` |
| `TasksInOnePlace` | `Spec => []OnePlace` |
| `BacklogCounted` | `Spec => []Accounting` |
| `RunningListed` | `Spec => []RunningInThreads` |
| `UnloadIsClean` | `Spec => []UnloadedOwnsNothing` |
| `HeldWorkersStart` | `Spec => []HeldUntilUp` |
| `WakeUpsNotLost` | `~Restartable` implies `Spec => []NoLostWake` |
| `ServiceImplemented` | `Spec => ImplementsService` |

The liveness properties are model-checked only.


## Migrations (`Migration.tla`)

`/MODULE MIGRATION` asks the database which versions of a module are applied;
the answer builds a job; the job sends its steps one at a time
(`ircd/migration_run.c`, over the call list of `ircd/db.c` and the transactions
of `modules/workers/postgres/pg_migrate.c`). Everything on the server's side
runs on the main thread, so one callback is one action. Between two callbacks
the operator may quit, the module may be unloaded or replaced by a newer build, the `Database{}`
block may go in a rehash, the driver may go, and the database may fail a call,
or commit and lose the answer.

| Model | Code |
|---|---|
| `calls` | the entries of `db_calls` that migration_run.c made: questions (`MigrationQuery`) and steps |
| `jobs` | `migration_jobs`; `at` is `mj_at` counted from 1 |
| `rows`, `exists` | the `migrations` table (database side) |
| `loaded`, `ships` | `module_find()` and `ms_count` of the module's set |
| `conf`, `ConfCommit`, `ConfSweep` | `db_config`, set by a `Database{}` block and cleared by a configuration without one |
| `CmdRun`, `CmdStatus`, `CmdList` | the operator's commands; a refused one changes nothing and is no step |
| `AppliedKnown`, `StepDone` | the two callbacks, run by `Complete` (`db_complete()`) |
| `FailAll` | `db_fail_all()`: the callbacks run with an error and release what they hold |
| `ModuleClose`, `MigrationShutdown`, `DbShutdown` | the end of `main()`, in its order |

Two constants describe the environment. `Refusing` lets the driver refuse a call
it could accept. `Patient` makes operators wait until no APPLY or REVERT of the
same module is waiting for its answer: nothing in the code makes them.

Runs (one module, three versions at most, two calls in flight; a question and a
step of another command is the smallest overlap, and three versions give a job
a first, a middle and a last step):

- `migration_safety` (`Patient`): every job is held by exactly one call and no
  call holds a freed job, through driver loss and shutdown (`OneCallPerJob`);
  one job per module (`OneJobPerModule`); recorded versions have no gaps
  (`GapFree`); and a job's plan, made from an answer that is old by the time it
  is carried out, stays true (`PlanStaysTrue`): what the job has passed is done,
  as it reports, and what is to come is not done yet, whatever happened since.
- `migration_liveness`: every job ends (`JobsEnd`), with commands racing. Weak
  fairness is on each call: the driver answers what it accepts (the contract in
  `include/db.h`; the postgres driver bounds each call with a deadline) and the
  event loop delivers it.
- `migration_race`, a violation: without `Patient`, two commands pass
  `migration_job_running()` before either is answered, and two jobs run for one
  module. The guard is evaluated when the command arrives; the job it guards
  against exists only once the answer has.

Two more disagreements TLC shows on this module, not kept as runs (Patient, one
operator, two versions):

- `ModuleJobsAnnounced`: `mj_core` is set from "the operator was not
  found", so a job whose operator quit meanwhile is reported to the log only.
- `LoadCreatesTable`: `migration_core_done` is set when the
  question is accepted and never cleared, so a driver loaded again after a
  failed attempt does not create the table.

A module only gains versions from one load to the next; going back to a build
that declares fewer is listed as a hazard and not modelled. The validator
`migration_build()` is represented by what it guarantees of a loaded set,
versions 1..N.

## Hooks (`Hooks.tla`, `MCHooks.tla`)

Hook chains and suspended operations (`ircd/hooks.c`). It is all one thread,
and what makes it hard is re-entry: a hook may register and remove hooks, make
the server run other chains, answer a suspended operation, exit a client or
unload a module, all while one or more runs stand in the middle of a chain. The
model therefore keeps a stack of activation records and lets only the top one
move; the number of running records is `hook_run_depth`.

| Model | Code |
|---|---|
| `chain`, `count`, `reapPending` | `hooks[]`, `hook_reap_pending`; a hook is a record with `h_mod`, `h_priority`, `h_dead` |
| `stack` | the C stack: runs, the tail of `hook_run_suspendable()` (`record`), `exit_client()` (`exit`), the loops of `hook_pending_expire()` (`expire`) and `hook_del_module()` (`unload`), and the rest of `module_unload_internal()` (`unmap`) |
| `holds`, `lastToken`, `armed` | `hook_pending_list`, `hook_last_token`, `hook_timer` |
| `owed` | what modules remember: the tokens they mean to answer, perhaps not for the last time |
| `loaded` | modules whose code is mapped: `Load` links one, `Unmap` is the end of its unload |
| `client` | the registration the only suspending call site, `auth_module_check()`, asks about |

An unload refuses the module's holds one at a time, detaches its hooks, and then
takes away its bots, database and cache calls, HTTP routes, modes and capabilities
before the code is unmapped. That last part runs other modules' code (a bot's exit
is notified, a call in flight is failed into its callback), so between `HookDelModule`
and `Unmap` anything the other modules can do may happen. A load whose `mi_init`
fails, or whose host does, is undone by the same unload, so it is a `Load`, the
registrations made so far, and an unload.

The order in which several expired holds are refused is left open, and so is
which command hooks are skipped for their command or flags. Assumptions about
the modules, none of them enforced by the code: `Tidy` (a hook that suspends has
not unregistered itself), `Polite` (none answers about a client that is
exiting), `Careful` (no module is unloaded from inside a hook of its own), and,
built into the guards, that a hook asked about a registration does not exit that
client itself, that one module is not unloaded twice at once, and that a module
registers nothing once its `mi_fini` has run and its hooks are gone. The passing
runs hold under these assumptions; `hooks_self` drops `Tidy` and `hooks_unload`
drops `Careful`. Without `Polite` TLC violates `ExitsOnce` (not kept as a run): a
CLIENT_EXITING hook answers the hold on the exiting client, which is exited a
second time.

Runs. Two hooks and a stack of four give a run inside a run with a removal or
an unload on top; two clients give two holds at once.

- `hooks_chains`: no run stands on a freed hook (`StandsOnLinked`), `count` is
  exact (`CountIsLive`), dead hooks are freed once no chain runs
  (`ReapedWhenIdle`), and live hooks and holds belong to loaded modules
  (`OwnersLoaded`).
- `hooks_holds`: an answer decides its own question or nothing, with a counter
  that wraps (`AnswersOwnQuestion`); a held client has exactly one hold and no
  hold outlives its client (`HeldByOne`); the timer covers every deadline
  (`DeadlineArmed`), the timeout being constant. A module is taken to answer or
  forget a token before the counter has gone all the way round.
- `hooks_liveness`: every held registration ends (`HeldDecided`), even when the
  timeout changes meanwhile. Strong fairness on the top record at each depth
  says that hooks return after finitely many calls back into the server; strong
  fairness on the clock and the timer says that the event loop keeps coming
  back to `timer_run()`, whatever else is busy.
- `hooks_self`, a violation: without `Tidy`, `held` is freed before it is read.
- `hooks_timeout`, a violation: lowering FEAT_HOOK_TIMEOUT leaves the timer set
  for the older, later deadline.
- `hooks_unload`, a violation: without `Careful`, a module is unloaded while its
  own hook runs, which `module_in_callback()` is documented to prevent but does
  not see, since only `mi_init`, `mi_fini` and `mi_rehash` are counted.

Not asserted: `hook_del_module()` refuses a module's holds before it detaches
its hooks, so the exits that follow may call that module's own CLIENT_EXITING
hook after its `mi_fini`. No document promises otherwise in this case.

## Correctness properties of the parts not modelled yet

- Calls in flight (cache, database): an accepted call is answered once, or
  forgotten because its owner is unloaded, and never both; nothing of a withdrawn
  driver is called; every call ends.
- Registration: a client registers once, with everything it waited for decided,
  and every registration ends; an answer concerns the nick that is registered.
- Module manager: nothing a module registered outlives it, in whatever order the
  teardown and the events it causes happen.
- Resolver: an answer reaches the query that asked, and every query ends.
- Nicks: two servers that saw the same collision keep the same client or neither.
- Channels: after the bursts are exchanged both sides agree on creation time,
  operators and modes.
- Links: the servers form a tree, and a split removes exactly one side.
- Network bans: servers that have seen the same changes agree, whatever the order.
- Throttling: the counters return to zero and do not wrap below it.
- Event core: no event is delivered for a generator that was destroyed.

## Plan

1. `Calls`, an abstract specification of calls in flight, with `Cache` and `Db`
   shown to implement it; `Migration` then rests on `Db`.
2. `Auth` (registration, SASL, CAP), composed with the holds of `Hooks`.
3. `Modules`: teardown and rehash, over hooks, calls and workers; then the
   isolated hosts and HTTP.
4. Network protocol, two or three servers and lossless ordered links that split:
   nick collisions, channel bursts, links, network bans.
5. `Resolver`, `IPcheck`, `EventCore`, buffers, reference counts; matching and
   connection rules as pure operators against a reference definition.

Theorems planned: `StandsOnLinked`, `CountIsLive` and `HeldByOne` of `Hooks`; `OneCallPerJob` of `Migration`; the
safety of `Calls`. There are more questions than it is sensible to keep as runs,
so one that a stronger one subsumes is retired, as the disagreements marked "not
kept as a run" above were.

## What stays with TLC, and what is not modelled

Only the worker subsystem has proofs. Liveness under fairness (`worker_liveness`,
`migration_liveness`, `hooks_liveness`) is out of the prover's reach and is checked
on the small instances only; so is everything said of `Migration` and `Hooks`.

The parts listed as `not_modelled` in `PROJECT.json` are either planned, with the
reason beside them, or left out for good: cryptography, hashing, TLS, formatting
and translation compute on bytes; the event engines wrap system calls; the vendored
HTTP library in `ircd/mongoose` is not this project's code; the SDK, the tools and
the unit tests are not part of the running server. So far the models cover a small
part of the server, its asynchronous core, and none of the IRC protocol itself.
