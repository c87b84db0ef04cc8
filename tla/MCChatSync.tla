---------------------------- MODULE MCChatSync ----------------------------
(* Instances of ChatSync for TLC. *)
EXTENDS ChatSync, TLC

CONSTANTS l1, l2, main

OneClock == [s \in Servers |-> 0]
LocalAhead == [s \in Servers |-> IF s = main THEN 0 ELSE 1]
=============================================================================
