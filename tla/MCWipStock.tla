----------------------------- MODULE MCWipStock -----------------------------
(* Instances of WipStock for TLC. *)
EXTENDS WipStock, TLC

CONSTANTS h1, h2, r1, r2, i1, i2

\* Quantities of both signs.
Signed == {-1, 1}

\* Requests are alike, and so are items.
Alike == Permutations({h1, h2}) \cup Permutations({i1, i2})
=============================================================================
