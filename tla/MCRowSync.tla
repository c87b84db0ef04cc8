----------------------------- MODULE MCRowSync -----------------------------
(* Instances of RowSync for TLC. *)
EXTENDS RowSync

CONSTANTS l1, l2, main

\* Every row belongs to the one factory.
OneFactory == [k \in Keys |-> {l1}]
\* Row 1 is pulled and pushed by both factories.
GlobalRow == [k \in Keys |-> {l1, l2}]

\* The faults the outbox and the held LAST_PULL are there for.
Recoverable == {"refused", "timeout", "row_error", "crash", "reset"}
NoFaults == {}
=============================================================================
