--------------------------- MODULE WorkerRefines ----------------------------
(* How ircd/worker.c is seen as the service of WorkerService.              *)
EXTENDS Worker

(* What the service of WorkerService keeps of a task.                      *)
status == [t \in Tasks |->
             IF t \in Range(pending) \cup running THEN "accepted"
             ELSE IF t \in Range(ready) \cup Range(list) THEN "finished"
             ELSE "free"]

Service == INSTANCE WorkerService WITH status <- status

(* worker.c implements the service: every step is one of its steps.        *)
ImplementsService == Service!Spec
=============================================================================
