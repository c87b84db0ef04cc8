---------------------------- MODULE StockLedger ----------------------------
(***************************************************************************)
(* What the WIP store promises: a stock item comes with a movement, its    *)
(* quantity changes only together with a movement of the same amount, none *)
(* takes more than there is, and a wipe takes items away whole.  An item   *)
(* may come with less than nothing.                                        *)
(***************************************************************************)
EXTENDS Integers

CONSTANTS Items

VARIABLES
  present,  \* the items in stock
  stock,    \* stock[i]: quantity on hand
  book      \* book[i]: sum of the movements ever written for item i

vars == <<present, stock, book>>

Init ==
  /\ present = {}
  /\ stock = [i \in Items |-> 0]
  /\ book = [i \in Items |-> 0]

Receive(i) ==
  /\ i \notin present
  /\ book[i] = 0
  /\ present' = present \cup {i}
  /\ stock'[i] \in Int
  /\ stock' = [stock EXCEPT ![i] = stock'[i]]
  /\ book' = [book EXCEPT ![i] = stock'[i]]

Move(i) ==
  /\ i \in present
  /\ stock'[i] \in Int
  /\ stock'[i] < stock[i] => stock'[i] >= 0
  /\ stock' = [stock EXCEPT ![i] = stock'[i]]
  /\ book' = [book EXCEPT ![i] = @ + (stock'[i] - stock[i])]
  /\ UNCHANGED present

\* Movements of items that are gone are of no account.
Wipe(gone) ==
  /\ present' = present \ gone
  /\ stock' = [i \in Items |-> IF i \in present' THEN stock[i] ELSE 0]
  /\ book' \in [Items -> Int]
  /\ \A i \in present' : book'[i] = book[i]

Next ==
  \/ \E i \in Items : Receive(i) \/ Move(i)
  \/ \E gone \in SUBSET Items : Wipe(gone)

Spec == Init /\ [][Next]_vars
=============================================================================
