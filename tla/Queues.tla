------------------------------- MODULE Queues -------------------------------
(* The singly linked queues of ircd/worker.c as sequences.                 *)
EXTENDS Naturals, Sequences, Functions

(* queue_filter_owner(): the queue without the elements of S, in order.    *)
Without(q, S) ==
    LET keep[i \in 0 .. Len(q)] ==
          IF i = 0 THEN << >>
          ELSE IF q[i] \in S THEN keep[i - 1]
          ELSE Append(keep[i - 1], q[i])
    IN  keep[Len(q)]
=============================================================================
