---------------------------- MODULE MCShifting ----------------------------
(* Instances of Shifting for TLC. *)
EXTENDS Shifting

CONSTANTS h1, h2, i1, i2, a, b
TwoEach == [l \in Labels |-> 2]
=============================================================================
