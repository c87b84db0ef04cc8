--------------------------- MODULE MCDeletionSync ---------------------------
(* Instances of DeletionSync for TLC. *)
EXTENDS DeletionSync, TLC

CONSTANTS l1, l2, main
NetworkFaults == {"rows_refused", "tombs_refused", "crash"}
=============================================================================
