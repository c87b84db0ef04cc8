--------------------------- MODULE MCSyncSchedule ---------------------------
(* Instances of SyncSchedule for TLC. *)
EXTENDS SyncSchedule

CONSTANTS r1, r2
TwoRuns == {r1, r2}
=============================================================================
