--------------------------- MODULE WorkerService ----------------------------
(***************************************************************************)
(* What ircd/worker.c promises its callers, without threads, queues or     *)
(* wake-ups: an accepted task is finished once, and then either delivered  *)
(* once, while its owner is loaded, or thrown away because its owner or    *)
(* the service is going.                                                   *)
(***************************************************************************)
CONSTANTS Tasks, Modules, Core

VARIABLES
    status,         \* "free", "accepted" or "finished"
    owner,          \* who a task belongs to
    loaded          \* modules whose code is mapped

vars == <<status, owner, loaded>>

Owners == Modules \cup {Core}
Present == loaded \cup {Core}

Init ==
    /\ status = [t \in Tasks |-> "free"]
    /\ owner = [t \in Tasks |-> Core]
    /\ loaded = {}

(* A submission is accepted as "accepted", a posted result as "finished".  *)
Accept(o, t, s) ==
    /\ o \in Present
    /\ status[t] = "free"
    /\ status' = [status EXCEPT ![t] = s]
    /\ owner' = [owner EXCEPT ![t] = o]
    /\ UNCHANGED loaded

Finish(t) ==
    /\ status[t] = "accepted"
    /\ status' = [status EXCEPT ![t] = "finished"]
    /\ UNCHANGED <<owner, loaded>>

Deliver(t) ==
    /\ status[t] = "finished"
    /\ owner[t] \in Present
    /\ status' = [status EXCEPT ![t] = "free"]
    /\ UNCHANGED <<owner, loaded>>

(* Some of what a module that is still loaded owns is thrown away.         *)
Discard(m) ==
    /\ m \in loaded
    /\ \E gone \in SUBSET {t \in Tasks : status[t] # "free" /\ owner[t] = m} :
         status' = [t \in Tasks |-> IF t \in gone THEN "free" ELSE status[t]]
    /\ UNCHANGED <<owner, loaded>>

Close ==
    /\ status' = [t \in Tasks |-> "free"]
    /\ UNCHANGED <<owner, loaded>>

Load(m) ==
    /\ loaded' = loaded \cup {m}
    /\ UNCHANGED <<status, owner>>

Unload(m) ==
    /\ \A t \in Tasks : status[t] = "free" \/ owner[t] # m
    /\ loaded' = loaded \ {m}
    /\ UNCHANGED <<status, owner>>

Next ==
    \/ \E o \in Owners, t \in Tasks : Accept(o, t, "accepted") \/ Accept(o, t, "finished")
    \/ \E t \in Tasks : Finish(t) \/ Deliver(t)
    \/ \E m \in Modules : Discard(m) \/ Load(m) \/ Unload(m)
    \/ Close

Spec == Init /\ [][Next]_vars
=============================================================================
