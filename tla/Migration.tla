----------------------------- MODULE Migration -----------------------------
(***************************************************************************)
(* Running migrations, ircd/migration_run.c, over the calls in flight that *)
(* ircd/db.c keeps for it and the transactions modules/workers/postgres    *)
(* runs.                                                                   *)
(*                                                                         *)
(* A command asks the database which versions are applied; the answer      *)
(* builds a job; the job sends one step at a time.  Between the question,  *)
(* the answer and every step the operator may quit, the module may be      *)
(* loaded or unloaded, the Database block may go and the driver may go.    *)
(* An operator is remembered by numnick and first-seen time: once they     *)
(* quit the lookup fails for good, so Quit forgets them everywhere at once.*)
(* mj_done always equals mj_at, so the model keeps mj_at only.             *)
(***************************************************************************)
EXTENDS Naturals, FiniteSets, Sequences, SequencesExt

CONSTANTS
    Modules,        \* modules that may ship migrations
    Core,           \* MIGRATION_CORE, the server's own set
    Operators,      \* operators who type /MODULE MIGRATION
    Nobody,         \* no operator, or one who has quit
    MaxVersion,     \* most migrations a module ships
    CoreVersions,   \* migrations in ircd/migrations
    MaxCalls,       \* bound on the database calls in flight
    Refusing,       \* may the driver refuse a call?
    Patient         \* do operators wait for one another's commands?

ASSUME MigrationAssumption ==
    /\ Core \notin Modules /\ Nobody \notin Operators
    /\ MaxVersion \in Nat \ {0} /\ MaxCalls \in Nat \ {0}
    /\ CoreVersions \in 1..MaxVersion
    /\ Refusing \in BOOLEAN /\ Patient \in BOOLEAN

VARIABLES
    phase,          \* where main() is
    driver,         \* db_driver is set
    conf,           \* db_config is set
    loaded, ships,  \* is the module loaded; ms_count of the last one loaded
    exists, rows,   \* the migrations table, and the versions it records
    calls,          \* migration_run.c's entries of db_calls
    jobs,           \* migration_jobs
    coreDone        \* migration_core_done

vars == <<phase, driver, conf, loaded, ships, exists, rows, calls, jobs,
          coreDone>>

Names == Modules \cup {Core}
Versions == 1..MaxVersion
Wants == {"status", "list", "apply", "revert"}

Questions ==
    [id : 1..MaxCalls, kind : {"ask"}, mod : Names, want : Wants,
     bound : 0..MaxVersion, op : Operators \cup {Nobody},
     code : {"none", "ok", "undefined", "error"}, seen : SUBSET Versions]

Steps ==
    [id : 1..MaxCalls, kind : {"step"}, job : 1..MaxCalls,
     code : {"none", "ok", "error"}]

Jobs ==
    [id : 1..MaxCalls, mod : Names, op : Operators \cup {Nobody},
     revert : BOOLEAN, core : BOOLEAN, steps : Seq(Versions),
     at : 1..MaxVersion]

Init ==
    /\ phase = "boot" /\ driver = FALSE /\ conf \in BOOLEAN
    /\ loaded = [m \in Modules |-> FALSE]
    /\ ships = [m \in Modules |-> 0]
    /\ exists = FALSE /\ rows = [m \in Names |-> {}]
    /\ calls = {} /\ jobs = {} /\ coreDone = FALSE

----------------------------------------------------------------------------
(* Identifiers.  The code never reuses one; a model identifier is reused   *)
(* once nothing holds it.                                                  *)
FreshId(S) == CHOOSE i \in 1..MaxCalls : \A x \in S : x.id # i

Room == Cardinality(calls) < MaxCalls

Question(m, want, bound, op) ==
    [id |-> FreshId(calls), kind |-> "ask", mod |-> m, want |-> want,
     bound |-> bound, op |-> op, code |-> "none", seen |-> {}]

JobOf(c) == CHOOSE j \in jobs : j.id = c.job

(* migration_job_running(): looks at jobs, not at questions in flight.     *)
JobRunning(m) == \E j \in jobs : j.mod = m

(* A command that changes the schema of m waits for its answer.            *)
Asked(m) ==
    \E c \in calls : c.kind = "ask" /\ c.mod = m /\ c.want \in {"apply", "revert"}

(* db_query() for a question: accepted unless the driver refuses.          *)
AskApplied(m, want, bound, op) ==
    /\ driver /\ conf /\ Room
    /\ calls' = calls \cup {Question(m, want, bound, op)}

----------------------------------------------------------------------------
ApplyStepsAll(seen, count, upto) ==
    SetToSortSeq({v \in 1..count : upto # 0 => v <= upto}, <)

(* The versions a job runs, in order.                                      *)
ApplySteps(seen, count, upto) ==
    SetToSortSeq({v \in 1..count : /\ upto # 0 => v <= upto
                                   /\ v \notin seen}, <)

RevertSteps(seen, count, downto) ==
    LET applied == seen \cap (1..count)
        newest  == CHOOSE v \in applied : \A w \in applied : w <= v
        lowest  == IF downto # 0 THEN downto ELSE newest
    IN  IF applied = {} THEN <<>>
        ELSE SetToSortSeq({v \in applied : v >= lowest}, >)

RunStepLeaks(job, cs, js) ==
    \/ /\ driver /\ conf
       /\ calls' = cs \cup {[id |-> FreshId(cs), kind |-> "step",
                             job |-> job.id, code |-> "none"]}
       /\ jobs' = js \cup {job}
    \/ /\ Refusing \/ ~driver \/ ~conf
       /\ calls' = cs
       /\ jobs' = js \cup {job}

(* migration_run_step(): one step goes to the driver, or the job ends.     *)
RunStep(job, cs, js) ==
    \/ /\ driver /\ conf
       /\ calls' = cs \cup {[id |-> FreshId(cs), kind |-> "step",
                             job |-> job.id, code |-> "none"]}
       /\ jobs' = js \cup {job}
    \/ /\ Refusing \/ ~driver \/ ~conf
       /\ calls' = cs
       /\ jobs' = js

NewJobZero(c, steps) ==
    [id |-> FreshId(jobs), mod |-> c.mod, op |-> c.op,
     revert |-> c.want = "revert", core |-> c.op = Nobody,
     steps |-> steps, at |-> 0]

(* migration_job_new(): a job with no operator is taken for the core's.    *)
NewJob(c, steps) ==
    [id |-> FreshId(jobs), mod |-> c.mod, op |-> c.op,
     revert |-> c.want = "revert", core |-> c.op = Nobody,
     steps |-> steps, at |-> 1]

(* What the module declares when the answer arrives.                       *)
Declared(m) ==
    IF m = Core THEN CoreVersions ELSE IF loaded[m] THEN ships[m] ELSE 0

(* migration_applied_known(), migration_list_done(): the answer arrives.   *)
(* A missing table is an empty one to the core, and an error to the rest.  *)
AppliedKnown(c) ==
    LET usable == c.code = "ok" \/ (c.mod = Core /\ c.code = "undefined")
        steps  == IF c.want = "apply"
                  THEN ApplySteps(c.seen, Declared(c.mod), c.bound)
                  ELSE RevertSteps(c.seen, Declared(c.mod), c.bound)
        starts == /\ Declared(c.mod) # 0 /\ usable
                  /\ c.want \in {"apply", "revert"} /\ steps # <<>>
    IN  IF starts THEN RunStep(NewJob(c, steps), calls \ {c}, jobs)
        ELSE calls' = calls \ {c} /\ UNCHANGED jobs

StepDoneIgnores(c) ==
    LET j == JobOf(c)
    IN  IF j.at >= Len(j.steps)
        THEN calls' = calls \ {c} /\ jobs' = jobs \ {j}
        ELSE RunStep([j EXCEPT !.at = @ + 1], calls \ {c}, jobs \ {j})

StepDoneStays(c) ==
    LET j == JobOf(c)
    IN  IF c.code # "ok"
        THEN calls' = calls \ {c} /\ jobs' = jobs \ {j}
        ELSE RunStep(j, calls \ {c}, jobs \ {j})

(* migration_step_done(): a failure ends the job, the last step too.       *)
StepDone(c) ==
    LET j == JobOf(c)
    IN  IF c.code # "ok" \/ j.at >= Len(j.steps)
        THEN calls' = calls \ {c} /\ jobs' = jobs \ {j}
        ELSE RunStep([j EXCEPT !.at = @ + 1], calls \ {c}, jobs \ {j})

----------------------------------------------------------------------------
CmdRunUnchecked(o, m, want, bound) ==
    /\ phase = "run"
    /\ loaded[m] /\ ships[m] # 0 /\ bound <= ships[m]
    /\ Patient => ~Asked(m)
    /\ AskApplied(m, want, bound, o)
    /\ UNCHANGED <<phase, driver, conf, loaded, ships, exists, rows, jobs,
                   coreDone>>

(* The operator's commands.  One that is refused changes nothing.          *)
CmdRun(o, m, want, bound) ==
    /\ phase = "run"
    /\ loaded[m] /\ ships[m] # 0 /\ bound <= ships[m]
    /\ ~JobRunning(m)
    /\ Patient => ~Asked(m)
    /\ AskApplied(m, want, bound, o)
    /\ UNCHANGED <<phase, driver, conf, loaded, ships, exists, rows, jobs,
                   coreDone>>

CmdStatus(o, m) ==
    /\ phase = "run"
    /\ loaded[m] /\ ships[m] # 0
    /\ AskApplied(m, "status", 0, o)
    /\ UNCHANGED <<phase, driver, conf, loaded, ships, exists, rows, jobs,
                   coreDone>>

CmdList(o) ==
    /\ phase = "run"
    /\ AskApplied(Core, "list", 0, o)
    /\ UNCHANGED <<phase, driver, conf, loaded, ships, exists, rows, jobs,
                   coreDone>>

----------------------------------------------------------------------------
(* migration_core_start(): done only once the question is accepted.        *)
CoreStart(reachable) ==
    \/ /\ ~coreDone /\ reachable /\ Room
       /\ calls' = calls \cup {Question(Core, "apply", 0, Nobody)}
       /\ coreDone' = TRUE
    \/ /\ coreDone \/ ~reachable \/ Refusing
       /\ UNCHANGED <<calls, coreDone>>

(* db_register_driver().  While ircd.conf is parsed there are no worker    *)
(* threads yet, and the question is refused.                               *)
RegisterDriver ==
    /\ phase \in {"boot", "run"} /\ ~driver
    /\ driver' = TRUE
    /\ CoreStart(phase = "run" /\ conf)
    /\ UNCHANGED <<phase, conf, loaded, ships, exists, rows, jobs>>

MainStart ==
    /\ phase = "boot"
    /\ phase' = "run"
    /\ CoreStart(driver /\ conf)
    /\ UNCHANGED <<driver, conf, loaded, ships, exists, rows, jobs>>

(* db_fail_all(): every call is answered with an error, and every callback *)
(* releases its question or its job.                                       *)
FailAll ==
    /\ calls' = {}
    /\ jobs' = {j \in jobs : \A c \in calls : c.kind = "step" => c.job # j.id}

UnregisterDriver ==
    /\ phase = "run" /\ driver
    /\ driver' = FALSE
    /\ FailAll
    /\ UNCHANGED <<phase, conf, loaded, ships, exists, rows, coreDone>>

(* A rehash: db_conf_commit() for a Database block, or db_conf_sweep()     *)
(* after a configuration with none.                                        *)
ConfCommit ==
    /\ phase = "run"
    /\ conf' = TRUE
    /\ UNCHANGED <<phase, driver, loaded, ships, exists, rows, calls, jobs,
                   coreDone>>

ConfSweep ==
    /\ phase = "run" /\ conf
    /\ conf' = FALSE
    /\ UNCHANGED <<phase, driver, loaded, ships, exists, rows, calls, jobs,
                   coreDone>>

(* A module is loaded with the set it ships; one that migration_build()    *)
(* refuses is not loaded.  A later build only adds versions.               *)
ModuleLoad(m, n) ==
    /\ phase = "run" /\ ~loaded[m]
    /\ n \in ships[m]..MaxVersion
    /\ loaded' = [loaded EXCEPT ![m] = TRUE]
    /\ ships' = [ships EXCEPT ![m] = n]
    /\ UNCHANGED <<phase, driver, conf, exists, rows, calls, jobs, coreDone>>

(* A module is unloaded.  The calls here belong to the core, so            *)
(* db_drop_module() leaves them; the jobs hold copies.                     *)
ModuleUnload(m) ==
    /\ phase = "run" /\ loaded[m]
    /\ loaded' = [loaded EXCEPT ![m] = FALSE]
    /\ UNCHANGED <<phase, driver, conf, ships, exists, rows, calls, jobs,
                   coreDone>>

(* An operator quits: migration_query_client() and migration_job_client()  *)
(* find nobody from here on.                                               *)
Quit(o) ==
    /\ phase = "run"
    /\ \E x \in {c \in calls : c.kind = "ask"} \cup jobs : x.op = o
    /\ calls' = {IF c.kind = "ask" /\ c.op = o
                 THEN [c EXCEPT !.op = Nobody] ELSE c : c \in calls}
    /\ jobs' = {IF j.op = o THEN [j EXCEPT !.op = Nobody] ELSE j : j \in jobs}
    /\ UNCHANGED <<phase, driver, conf, loaded, ships, exists, rows, coreDone>>

----------------------------------------------------------------------------
(* The database.  It may fail a call at any time.                          *)
Answered(c, new) ==
    /\ calls' = (calls \ {c}) \cup {new}
    /\ UNCHANGED <<phase, driver, conf, loaded, ships, jobs, coreDone>>

DbAsk(c) ==
    /\ phase = "run" /\ c.kind = "ask" /\ c.code = "none"
    /\ \/ Answered(c, [c EXCEPT !.code = "error"])
       \/ exists /\ Answered(c, [c EXCEPT !.code = "ok", !.seen = rows[c.mod]])
       \/ ~exists /\ Answered(c, [c EXCEPT !.code = "undefined"])
    /\ UNCHANGED <<exists, rows>>

(* pg_migrate_record(): the unique index refuses a version recorded twice; *)
(* a revert of one that is not recorded succeeds.                          *)
Record(j) ==
    /\ j.revert \/ j.steps[j.at] \notin rows[j.mod]
    /\ rows' = [rows EXCEPT ![j.mod] = IF j.revert THEN @ \ {j.steps[j.at]}
                                       ELSE @ \cup {j.steps[j.at]}]

(* pg_migrate_work(): the script and its row are one transaction, which    *)
(* fails and leaves nothing, or commits; a commit's answer may be lost.    *)
DbStep(c) ==
    /\ phase = "run" /\ c.kind = "step" /\ c.code = "none"
    /\ LET j == JobOf(c)
       IN  \/ /\ Answered(c, [c EXCEPT !.code = "error"])
              /\ UNCHANGED <<exists, rows>>
           \/ /\ exists \/ (j.mod = Core /\ j.steps[j.at] = 1)
              /\ exists' = TRUE
              /\ Record(j)
              /\ \E code \in {"ok", "error"} :
                    Answered(c, [c EXCEPT !.code = code])

(* db_complete(): the answer reaches the main thread.                      *)
Complete(c) ==
    /\ phase = "run" /\ c.code # "none"
    /\ \/ c.kind = "ask" /\ AppliedKnown(c)
       \/ c.kind = "step" /\ StepDone(c)
    /\ UNCHANGED <<phase, driver, conf, loaded, ships, exists, rows, coreDone>>

----------------------------------------------------------------------------
(* The end of main(): modules go first, the driver's among them.           *)
ModuleClose ==
    /\ phase = "run"
    /\ phase' = "closed"
    /\ driver' = FALSE
    /\ loaded' = [m \in Modules |-> FALSE]
    /\ FailAll
    /\ UNCHANGED <<conf, ships, exists, rows, coreDone>>

MigrationShutdown ==
    /\ phase = "closed"
    /\ phase' = "freed"
    /\ jobs' = {}
    /\ UNCHANGED <<driver, conf, loaded, ships, exists, rows, calls, coreDone>>

DbShutdown ==
    /\ phase = "freed"
    /\ phase' = "over"
    /\ FailAll
    /\ driver' = FALSE /\ conf' = FALSE
    /\ UNCHANGED <<loaded, ships, exists, rows, coreDone>>

Finished ==
    phase = "over" /\ UNCHANGED vars

Command(o) ==
    \/ \E m \in Modules, want \in {"apply", "revert"}, b \in 0..MaxVersion :
          CmdRun(o, m, want, b)
    \/ \E m \in Modules : CmdStatus(o, m)
    \/ CmdList(o)

Next ==
    \/ MainStart \/ RegisterDriver \/ UnregisterDriver
    \/ ConfCommit \/ ConfSweep
    \/ \E m \in Modules, n \in 0..MaxVersion : ModuleLoad(m, n)
    \/ \E m \in Modules : ModuleUnload(m)
    \/ \E o \in Operators : Command(o)
    \/ \E o \in Operators : Quit(o)
    \/ \E c \in calls : DbAsk(c)
    \/ \E c \in calls : DbStep(c)
    \/ \E c \in calls : Complete(c)
    \/ ModuleClose \/ MigrationShutdown \/ DbShutdown
    \/ Finished

Spec == Init /\ [][Next]_vars

(* The driver calls db_complete() for everything it accepted, and the      *)
(* event loop delivers it.                                                 *)
Serve(i) == \E c \in calls : c.id = i /\ (DbAsk(c) \/ DbStep(c) \/ Complete(c))

FairSpec == Spec /\ \A i \in 1..MaxCalls : WF_vars(Serve(i))

----------------------------------------------------------------------------
(* Every record keeps the type the structs of migration_run.c give it.      *)
TypeOK ==
    /\ phase \in {"boot", "run", "closed", "freed", "over"}
    /\ driver \in BOOLEAN /\ conf \in BOOLEAN /\ exists \in BOOLEAN
    /\ coreDone \in BOOLEAN
    /\ loaded \in [Modules -> BOOLEAN] /\ ships \in [Modules -> 0..MaxVersion]
    /\ rows \in [Names -> SUBSET Versions]
    /\ calls \subseteq Questions \cup Steps /\ jobs \subseteq Jobs

(* A job is the user pointer of exactly one call in flight, and the job a  *)
(* call points at is still allocated: no callback of migration_run.c runs  *)
(* on a freed job, and no job waits for an answer nobody will give.        *)
OneCallPerJob ==
    /\ \A j \in jobs :
          Cardinality({c \in calls : c.kind = "step" /\ c.job = j.id}) = 1
    /\ \A c \in calls : c.kind = "step" => \E j \in jobs : j.id = c.job
    /\ \A c \in calls : c.kind = "step" => JobOf(c).at <= Len(JobOf(c).steps)

(* "Jobs in flight.  One per module at a time" (migration_run.c, on        *)
(* migration_jobs): two jobs never interleave their steps.                 *)
OneJobPerModule ==
    \A j, k \in jobs : j.mod = k.mod => j = k

(* Versions are recorded without gaps: what the database holds of a module *)
(* is v1 up to some version, whatever fails, quits or unloads on the way.  *)
GapFree ==
    \A m \in Names : \A v \in rows[m] : \A w \in 1..v : w \in rows[m]

(* The plan of a job was made from an answer that was true when the        *)
(* database gave it, and it stays true until the job gets there: the steps *)
(* it has passed are done (mj_done, which it reports), and those to come   *)
(* are still to be done, although operators, modules, the driver and lost  *)
(* answers come in between.                                                *)
PlanStaysTrue ==
    \A c \in {x \in calls : x.kind = "step"} :
        LET j == JobOf(c)
            done(k) == j.steps[k] \in rows[j.mod] <=> ~j.revert
        IN  \A k \in 1..Len(j.steps) :
               /\ k < j.at \/ (k = j.at /\ c.code = "ok") => done(k)
               /\ k > j.at \/ (k = j.at /\ c.code = "none") => ~done(k)

(* "Every applied or reverted migration is announced to the other          *)
(* operators" (doc/readme.migrations): a job of a module is never taken    *)
(* for the server's own, whose reports go to the log alone.                *)
ModuleJobsAnnounced ==
    \A j \in jobs : j.mod # Core => ~j.core

(* "/MODULE LOAD postgres creates the table if it is not there"            *)
(* (doc/readme.migrations): registering a driver starts the core's set     *)
(* whenever the table is missing.                                          *)
LoadCreatesTable ==
    [][(phase = "run" /\ conf /\ ~driver /\ driver' /\ ~exists) =>
          \E c \in calls' : /\ c.kind = "ask" /\ c.mod = Core
                             /\ c.want = "apply"]_vars

(* Every job ends: each step is answered, and each answer moves the job on *)
(* or releases it.                                                         *)
JobsEnd ==
    \A i \in 1..MaxCalls :
        (\E j \in jobs : j.id = i) ~> (\A j \in jobs : j.id # i)
=============================================================================
