---------------------------- MODULE MCGroupCalls ----------------------------
(* Instances of GroupCalls for TLC. *)
EXTENDS GroupCalls, TLC

CONSTANTS u1, u2, u3, r1, r2, h1, h2, w1, w2

OneEach == [h \in Handlers |-> IF h = h1 THEN w1 ELSE w2]

Same == Permutations(Users) \cup Permutations(Rooms) \cup Permutations(Handlers)
=============================================================================
