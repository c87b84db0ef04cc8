------------------------------- MODULE MCDpr -------------------------------
(* Instances of Dpr for TLC. *)
EXTENDS Dpr, TLC

CONSTANTS h1, h2

Same == Permutations(Requests)

Stop(s)    == [slot |-> s, kind |-> "quick", good |-> 0]
Made(s, g) == [slot |-> s, kind |-> "main", good |-> g]

\* A stop, production in the hour after it, and one hour later.
StopAndGo == {Stop(1), Made(2, 2), Made(3, 2)}
=============================================================================
