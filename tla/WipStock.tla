------------------------------ MODULE WipStock ------------------------------
(***************************************************************************)
(* The WIP store: shifted records are approved into stock, stock is issued *)
(* and adjusted, and everything may be reset                               *)
(* (BACKEND/src/legacy/registerLegacyRoutes.js, /api/wip/..., tables       *)
(* shifting_records, wip_inventory, wip_stock_movements).                  *)
(*                                                                         *)
(* Each operation is one transaction: a first statement that locks its row *)
(* and reads it, and a commit that makes all its writes visible.  Between  *)
(* the two the other transactions run; a statement that needs a locked row *)
(* waits.  An error or a crash before the commit leaves nothing behind.    *)
(* Quantities have a sign: neither approve nor outward looks at it.        *)
(***************************************************************************)
EXTENDS Integers

CONSTANTS
  Handlers,  \* requests being handled at once
  Records,   \* ids of shifting_records
  Placed,    \* the records that have a factory
  Items,     \* ids of wip_inventory
  Amounts,   \* quantities
  MaxQty,    \* bound: stock and movements of an item
  NoRecord, NoItem

ASSUME WipConstants ==
  /\ Amounts \subseteq Int /\ MaxQty \in Nat /\ Placed \subseteq Records
  /\ NoRecord \notin Records /\ NoItem \notin Items

VARIABLES
  status,   \* status[r]: shifting_records.status; "none": no such row
  present,  \* the rows of wip_inventory
  stock,    \* stock[i]: wip_inventory.qty
  origin,   \* origin[i]: the record item i came from
  homed,    \* the items with a factory_id
  posted,   \* posted[i]: sum of the rows of wip_stock_movements of item i
  cleared,  \* history: sum of the movements of i that were cleared
  tx        \* tx[h]: the transaction of handler h

table == <<status, present, stock, origin, homed, posted, cleared>>
vars  == <<table, tx>>

\* qty: what was asked for; delta: the movement it amounts to; posts: it has a
\* factory; seen and doomed: the movements and items a reset deleted so far.
Transactions ==
  [op     : {"none", "approve", "outward", "adjust", "moves", "items", "records"},
   record : Records \cup {NoRecord},
   item   : Items \cup {NoItem},
   qty    : Int,
   delta  : Int,
   posts  : BOOLEAN,
   seen   : [Items -> Int],
   doomed : SUBSET Items]

None == [i \in Items |-> 0]
NoTx == [op |-> "none", record |-> NoRecord, item |-> NoItem, qty |-> 0, delta |-> 0,
         posts |-> FALSE, seen |-> None, doomed |-> {}]

Init ==
  /\ status = [r \in Records |-> "none"]
  /\ present = {}
  /\ stock = None
  /\ origin = [i \in Items |-> NoRecord]
  /\ homed = {}
  /\ posted = None
  /\ cleared = None
  /\ tx = [h \in Handlers |-> NoTx]

Begins(h, t) == tx[h].op = "none" /\ tx' = [tx EXCEPT ![h] = t]
Ends(h) == tx' = [tx EXCEPT ![h] = NoTx]

Resetting == \E h \in Handlers : tx[h].op \in {"moves", "items", "records"}
RecordLocked(r) ==
  \E h \in Handlers : tx[h].op = "records" \/ (tx[h].op = "approve" /\ tx[h].record = r)
ItemLocked(i) ==
  \E h \in Handlers : i \in tx[h].doomed \/ (tx[h].op \in {"outward", "adjust"} /\ tx[h].item = i)

-----------------------------------------------------------------------------
(* Records come from Shifting.                                             *)

Shift(r) ==
  /\ status[r] = "none"
  /\ status' = [status EXCEPT ![r] = "Pending"]
  /\ UNCHANGED <<present, stock, origin, homed, posted, cleared, tx>>

\* POST /api/wip/approve by a request with or without a factory.  The status of
\* the record is not looked at, nor the sign of the approved quantity.
Approve(h, r, n, factory) ==
  /\ status[r] # "none"
  /\ ~RecordLocked(r)
  /\ Begins(h, [NoTx EXCEPT !.op = "approve", !.record = r, !.qty = n,
                            !.posts = (r \in Placed \/ factory)])
  /\ UNCHANGED table

\* recordWipStockMovement writes nothing without a factory.
Posted(t, d) == IF t.posts THEN d ELSE 0

CommitApprove(h, i) ==
  /\ tx[h].op = "approve"
  /\ origin[i] = NoRecord
  /\ status' = [status EXCEPT ![tx[h].record] = "Approved"]
  /\ present' = present \cup {i}
  /\ stock' = [stock EXCEPT ![i] = tx[h].qty]
  /\ origin' = [origin EXCEPT ![i] = tx[h].record]
  /\ homed' = IF tx[h].posts THEN homed \cup {i} ELSE homed
  /\ posted' = [posted EXCEPT ![i] = Posted(tx[h], tx[h].qty)]
  /\ Ends(h)
  /\ UNCHANGED cleared

\* A movement of d on item i, in the name of its factory or the request's.
BeginMove(h, op, i, n, d, factory) ==
  /\ stock[i] + d <= MaxQty
  /\ posted[i] + cleared[i] + d \in -MaxQty..MaxQty
  /\ Begins(h, [NoTx EXCEPT !.op = op, !.item = i, !.qty = n, !.delta = d,
                            !.posts = (i \in homed \/ factory)])
  /\ UNCHANGED table

Outward_Unlocked(h, i, n, factory) ==
  /\ i \in present
  /\ n <= stock[i]
  /\ BeginMove(h, "outward", i, n, -n, factory)

\* POST /api/wip/outward: SELECT ... FOR UPDATE, then the balance is checked.
\* A quantity below zero passes the check.
Outward(h, i, n, factory) ==
  /\ i \in present
  /\ ~ItemLocked(i)
  /\ n <= stock[i]
  /\ BeginMove(h, "outward", i, n, -n, factory)

Adjust_Unlocked(h, i, n, factory) ==
  /\ n >= 0
  /\ i \in present
  /\ BeginMove(h, "adjust", i, n, n - stock[i], factory)

\* POST /api/wip/adjust: the movement is the difference to the row as locked.
Adjust(h, i, n, factory) ==
  /\ n >= 0
  /\ i \in present
  /\ ~ItemLocked(i)
  /\ BeginMove(h, "adjust", i, n, n - stock[i], factory)

\* An outward subtracts in SQL, an adjustment sets.
CommitMove(h) ==
  /\ tx[h].op \in {"outward", "adjust"}
  /\ LET i == tx[h].item
     IN  /\ stock' = [stock EXCEPT ![i] = IF tx[h].op = "outward" THEN @ - tx[h].qty ELSE tx[h].qty]
         /\ posted' = [posted EXCEPT ![i] = @ + Posted(tx[h], tx[h].delta)]
  /\ Ends(h)
  /\ UNCHANGED <<status, present, origin, homed, cleared>>

-----------------------------------------------------------------------------
(* POST /api/wip/reset: movements, inventory and records, each by its own  *)
(* DELETE that sees what was committed by then.                            *)

ResetMovements(h) ==
  /\ ~Resetting
  /\ Begins(h, [NoTx EXCEPT !.op = "moves", !.seen = posted])
  /\ UNCHANGED table

ResetItems(h) ==
  /\ tx[h].op = "moves"
  /\ \A i \in present : ~ItemLocked(i)
  /\ tx' = [tx EXCEPT ![h].op = "items", ![h].doomed = present]
  /\ UNCHANGED table

ResetRecords(h) ==
  /\ tx[h].op = "items"
  /\ \A r \in Records : ~RecordLocked(r)
  /\ tx' = [tx EXCEPT ![h].op = "records"]
  /\ UNCHANGED table

CommitReset_ClearsAll(h) ==
  /\ tx[h].op = "records"
  /\ status' = [r \in Records |-> "none"]
  /\ present' = present \ tx[h].doomed
  /\ stock' = [i \in Items |-> IF i \in present' THEN stock[i] ELSE 0]
  /\ posted' = None
  /\ Ends(h)
  /\ UNCHANGED <<origin, homed, cleared>>

\* The movements of a surviving item were written after the first DELETE.
CommitReset(h) ==
  /\ tx[h].op = "records"
  /\ status' = [r \in Records |-> "none"]
  /\ present' = present \ tx[h].doomed
  /\ stock' = [i \in Items |-> IF i \in present' THEN stock[i] ELSE 0]
  /\ posted' = [i \in Items |-> posted[i] - tx[h].seen[i]]
  /\ Ends(h)
  /\ UNCHANGED <<origin, homed, cleared>>

\* Clear data, type wipstock: the movements alone.
ClearMovements ==
  /\ ~Resetting
  /\ \E i \in Items : posted[i] # 0
  /\ posted' = None
  /\ cleared' = [i \in Items |-> cleared[i] + posted[i]]
  /\ UNCHANGED <<status, present, stock, origin, homed, tx>>

\* POST /api/shifting/delete-all
DeleteRecords ==
  /\ \A r \in Records : ~RecordLocked(r)
  /\ \E r \in Records : status[r] # "none"
  /\ status' = [r \in Records |-> "none"]
  /\ UNCHANGED <<present, stock, origin, homed, posted, cleared, tx>>

\* A statement fails, or the server dies: the database rolls back.
RollBack(h) ==
  /\ tx[h].op # "none"
  /\ Ends(h)
  /\ UNCHANGED table

-----------------------------------------------------------------------------
Next ==
  \/ \E r \in Records : Shift(r)
  \/ \E h \in Handlers :
       \/ \E r \in Records, n \in Amounts, f \in BOOLEAN : Approve(h, r, n, f)
       \/ \E i \in Items :
            \/ CommitApprove(h, i)
            \/ \E n \in Amounts, f \in BOOLEAN : Outward(h, i, n, f) \/ Adjust(h, i, n, f)
       \/ CommitMove(h)
       \/ ResetMovements(h) \/ ResetItems(h) \/ ResetRecords(h) \/ CommitReset(h)
       \/ RollBack(h)
  \/ ClearMovements
  \/ DeleteRecords

Spec == Init /\ [][Next]_vars

-----------------------------------------------------------------------------
TypeOK ==
  /\ status \in [Records -> {"none", "Pending", "Approved"}]
  /\ present \in SUBSET Items
  /\ stock \in [Items -> Int]
  /\ origin \in [Items -> Records \cup {NoRecord}]
  /\ homed \in SUBSET Items
  /\ posted \in [Items -> Int]
  /\ cleared \in [Items -> Int]
  /\ tx \in [Handlers -> Transactions]

\* Items of a factory.
Booked == present \cap homed

\* Every change of the stock of a factory is a movement of the same amount
\* (31460-31808), and none takes more than there is.
Ledger == INSTANCE StockLedger WITH
  present <- Booked,
  stock   <- [i \in Items |-> IF i \in Booked THEN stock[i] ELSE 0],
  book    <- [i \in Items |-> IF i \in homed THEN posted[i] + cleared[i] ELSE 0]

LedgerHolds == Ledger!Spec

\* On hand is what the movements, cleared ones included, add up to (31569-31723).
Balanced == \A i \in Booked : stock[i] = posted[i] + cleared[i]

\* What an issue takes was there when it is taken, and not only when the balance
\* was looked at (31575-31596): a stock that falls stays at zero or above.
NeverOverdrawn ==
  [][\A i \in present \cap present' : stock'[i] < stock[i] => stock'[i] >= 0]_vars

\* Movements of an item outlive it (a reset between another's first and second
\* statement, 31779-31789).
NoOrphans == \A i \in Items \ present : posted[i] = 0

\* A shifted record is put into stock once (31425-31462).
StockedOnce == \A i, j \in present : origin[i] = origin[j] => i = j
=============================================================================
