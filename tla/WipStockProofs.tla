--------------------------- MODULE WipStockProofs ---------------------------
(***************************************************************************)
(* The WIP store implements the ledger of StockLedger, and what is on hand *)
(* is what its movements add up to, for any number of requests, records    *)
(* and items.                                                              *)
(***************************************************************************)
EXTENDS WipStock, TLAPS

Moves(h)  == tx[h].op \in {"outward", "adjust"}
Resets(h) == tx[h].op \in {"moves", "items", "records"}

\* What a transaction read of the row it locked is still so.
MoversHold ==
  \A h \in Handlers :
    Moves(h) => /\ tx[h].item \in present
                /\ tx[h].op = "outward" => tx[h].qty <= stock[tx[h].item] /\ tx[h].delta = -tx[h].qty
                /\ tx[h].op = "adjust" => tx[h].qty >= 0 /\ tx[h].delta = tx[h].qty - stock[tx[h].item]
                /\ tx[h].item \in homed => tx[h].posts

MoversApart ==
  \A h, k \in Handlers :
    h # k /\ Moves(h) => /\ tx[h].item \notin tx[k].doomed
                         /\ Moves(k) => tx[h].item # tx[k].item

ApprovesARecord == \A h \in Handlers : tx[h].op = "approve" => tx[h].record \in Records

\* One reset at a time: the DELETE of the next waits for the rows of the first.
OneReset ==
  /\ \A h, k \in Handlers : Resets(h) /\ Resets(k) => h = k
  /\ \A h \in Handlers : /\ tx[h].doomed \subseteq present
                         /\ tx[h].op \notin {"items", "records"} => tx[h].doomed = {}

\* An id of wip_inventory that was never given out has no past.
FreshItems == \A i \in Items : origin[i] = NoRecord => i \notin present /\ i \notin homed /\ posted[i] = 0 /\ cleared[i] = 0

\* A reset deletes no movement of an item that it leaves.
SparesSurvivors ==
  \A h \in Handlers, i \in Items :
    Resets(h) => /\ origin[i] = NoRecord => tx[h].seen[i] = 0
                 /\ tx[h].op # "moves" /\ i \in present \ tx[h].doomed => tx[h].seen[i] = 0

StoreInv ==
  /\ TypeOK /\ MoversHold /\ MoversApart /\ ApprovesARecord
  /\ OneReset /\ FreshItems /\ SparesSurvivors /\ Balanced

LEMMA StoreInit == Init => StoreInv
<1> SUFFICES ASSUME Init PROVE StoreInv
  OBVIOUS
<1> USE DEF Init, NoTx, None
<1>1. NoTx \in Transactions
  BY DEF Transactions
<1>2. TypeOK
  BY <1>1 DEF TypeOK
<1>3. MoversHold /\ MoversApart /\ ApprovesARecord
  BY DEF MoversHold, MoversApart, ApprovesARecord, Moves
<1>4. OneReset /\ FreshItems /\ SparesSurvivors /\ Balanced
  BY DEF OneReset, FreshItems, SparesSurvivors, Balanced, Booked, Resets
<1> QED
  BY <1>2, <1>3, <1>4 DEF StoreInv

\* The transaction of one handler changes.
LEMMA TxChange ==
  ASSUME StoreInv, NEW h \in Handlers, NEW t \in Transactions, tx' = [tx EXCEPT ![h] = t]
  PROVE  /\ tx' \in [Handlers -> Transactions]
         /\ tx'[h] = t
         /\ \A k \in Handlers : k # h => tx'[k] = tx[k]
  BY DEF StoreInv, TypeOK

LEMMA NoTxType == NoTx \in Transactions
  BY DEF Transactions, NoTx, None

\* A transaction that holds no lock and nothing read comes and goes freely.
LEMMA LockFree ==
  ASSUME StoreInv, NEW h \in Handlers, NEW t \in Transactions, tx' = [tx EXCEPT ![h] = t],
         t.op \in {"none", "approve"}, t.op = "approve" => t.record \in Records, t.doomed = {},
         UNCHANGED table
  PROVE  StoreInv'
<1> USE DEF StoreInv, table
<1>1. /\ tx' \in [Handlers -> Transactions] /\ tx'[h] = t
      /\ \A k \in Handlers : k # h => tx'[k] = tx[k]
  BY TxChange
<1>2. TypeOK'
  BY <1>1 DEF TypeOK
<1>3. MoversHold' /\ MoversApart' /\ ApprovesARecord'
  BY <1>1 DEF MoversHold, MoversApart, ApprovesARecord, Moves
<1>4. OneReset' /\ FreshItems' /\ SparesSurvivors' /\ Balanced'
  BY <1>1 DEF OneReset, FreshItems, SparesSurvivors, Balanced, Booked, Resets
<1> QED
  BY <1>2, <1>3, <1>4

\* An item that is locked and read.
LEMMA MoveBegins ==
  ASSUME StoreInv, NEW h \in Handlers, NEW i \in Items, NEW n \in Int, NEW d \in Int,
         NEW op \in {"outward", "adjust"}, NEW f \in BOOLEAN,
         BeginMove(h, op, i, n, d, f),
         op = "outward" => n <= stock[i] /\ d = -n,
         op = "adjust" => n >= 0 /\ d = n - stock[i],
         i \in present, ~ItemLocked(i)
  PROVE  StoreInv'
<1> USE DEF StoreInv, table
<1> DEFINE p == (i \in homed \/ f)
           t == [NoTx EXCEPT !.op = op, !.item = i, !.qty = n, !.delta = d, !.posts = p]
<1>0. p \in BOOLEAN /\ (i \in homed => p)
  OBVIOUS
<1>1. tx' = [tx EXCEPT ![h] = t] /\ UNCHANGED table
  BY DEF BeginMove, Begins
<1> HIDE DEF p
<1>3. /\ t \in Transactions
      /\ t.op = op /\ t.item = i /\ t.qty = n /\ t.delta = d /\ t.posts = p /\ t.doomed = {}
  BY <1>0, NoTxType DEF NoTx, Transactions
<1> HIDE DEF t
<1>4. /\ tx' \in [Handlers -> Transactions] /\ tx'[h] = t
      /\ \A k \in Handlers : k # h => tx'[k] = tx[k]
  BY <1>1, <1>3, TxChange
<1>5. TypeOK'
  BY <1>1, <1>4 DEF TypeOK
<1>6. MoversHold'
  BY <1>0, <1>1, <1>3, <1>4 DEF MoversHold, Moves
<1>7. MoversApart'
  BY <1>1, <1>3, <1>4 DEF MoversApart, Moves, ItemLocked
<1>8. ApprovesARecord' /\ OneReset'
  BY <1>1, <1>3, <1>4 DEF ApprovesARecord, OneReset, Resets
<1>9. FreshItems' /\ Balanced'
  BY <1>1 DEF FreshItems, Balanced, Booked
<1>10. SparesSurvivors'
  BY <1>1, <1>3, <1>4 DEF SparesSurvivors, Resets
<1> QED
  BY <1>5, <1>6, <1>7, <1>8, <1>9, <1>10

\* An approval adds a movement to the item it adds to.
LEMMA ApproveCommits ==
  ASSUME StoreInv, NEW h \in Handlers, NEW i \in Items, CommitApprove(h, i)
  PROVE  StoreInv'
<1> USE DEF StoreInv
<1> DEFINE r == tx[h].record
           n == tx[h].qty
           m == Posted(tx[h], n)
<1>1. r \in Records /\ r # NoRecord /\ n \in Int /\ i \notin present /\ i \notin homed /\ posted[i] = 0 /\ cleared[i] = 0
  BY WipConstants DEF CommitApprove, ApprovesARecord, FreshItems, TypeOK, Transactions
<1>2. /\ tx' \in [Handlers -> Transactions] /\ tx'[h] = NoTx
      /\ \A k \in Handlers : k # h => tx'[k] = tx[k]
  BY NoTxType, TxChange DEF CommitApprove, Ends
<1>3. /\ status' = [status EXCEPT ![r] = "Approved"]
      /\ present' = present \cup {i}
      /\ stock' = [stock EXCEPT ![i] = n]
      /\ origin' = [origin EXCEPT ![i] = r]
      /\ homed' = IF tx[h].posts THEN homed \cup {i} ELSE homed
      /\ posted' = [posted EXCEPT ![i] = m]
      /\ cleared' = cleared
      /\ origin[i] = NoRecord
  BY DEF CommitApprove
<1>4. m \in Int /\ (tx[h].posts => m = n) /\ (~tx[h].posts => m = 0)
  BY <1>1 DEF Posted
<1> HIDE DEF r, n, m
<1>5. TypeOK'
  BY <1>1, <1>2, <1>3, <1>4 DEF TypeOK
<1>6. /\ stock'[i] = n /\ origin'[i] = r /\ posted'[i] = m
      /\ \A j \in Items : j # i => stock'[j] = stock[j] /\ origin'[j] = origin[j] /\ posted'[j] = posted[j]
  BY <1>3 DEF TypeOK
<1>7. NoTx.op = "none" /\ NoTx.doomed = {}
  BY DEF NoTx
<1>8. MoversHold'
  <2> SUFFICES ASSUME NEW k \in Handlers, Moves(k)'
               PROVE  /\ tx'[k].item \in present'
                      /\ tx'[k].op = "outward" => tx'[k].qty <= stock'[tx'[k].item] /\ tx'[k].delta = -tx'[k].qty
                      /\ tx'[k].op = "adjust" => /\ tx'[k].qty >= 0
                                                 /\ tx'[k].delta = tx'[k].qty - stock'[tx'[k].item]
                      /\ tx'[k].item \in homed' => tx'[k].posts
    BY DEF MoversHold
  <2>1. k # h /\ tx'[k] = tx[k] /\ Moves(k)
    BY <1>2, <1>7 DEF Moves
  <2>2. tx[k].item \in present /\ tx[k].item # i /\ tx[k].item \in Items
    BY <2>1, <1>1 DEF MoversHold, TypeOK
  <2> QED
    BY <2>1, <2>2, <1>3, <1>6 DEF MoversHold
<1>9. MoversApart' /\ ApprovesARecord'
  BY <1>2, <1>7 DEF MoversApart, ApprovesARecord, Moves
<1>10. OneReset'
  BY <1>2, <1>3, <1>7 DEF OneReset, Resets
<1>11. FreshItems'
  BY <1>1, <1>3, <1>6 DEF FreshItems
<1>12. SparesSurvivors'
  BY <1>2, <1>3, <1>6, <1>7 DEF SparesSurvivors, Resets
<1>13. Balanced'
  <2> SUFFICES ASSUME NEW j \in Booked' PROVE stock'[j] = posted'[j] + cleared'[j]
    BY DEF Balanced
  <2>1. CASE j = i
    BY <2>1, <1>1, <1>3, <1>4, <1>6 DEF Booked
  <2>2. CASE j # i
    BY <2>2, <1>3, <1>6 DEF Balanced, Booked, TypeOK
  <2> QED
    BY <2>1, <2>2
<1> QED
  BY <1>5, <1>8, <1>9, <1>10, <1>11, <1>12, <1>13

\* The quantity and the movements change by the same amount.
LEMMA MoveFacts ==
  ASSUME StoreInv, NEW h \in Handlers, CommitMove(h)
  PROVE  LET i == tx[h].item
             d == tx[h].delta
         IN  /\ i \in present /\ i \in Items /\ d \in Int
             /\ stock'[i] \in Int
             /\ stock'[i] = stock[i] + d
             /\ stock'[i] < stock[i] => stock'[i] >= 0
             /\ stock' = [stock EXCEPT ![i] = stock'[i]]
             /\ posted' = [posted EXCEPT ![i] = @ + Posted(tx[h], d)]
             /\ Posted(tx[h], d) \in Int
             /\ i \in homed => Posted(tx[h], d) = d
             /\ UNCHANGED <<status, present, origin, homed, cleared>>
<1> USE DEF StoreInv
<1> DEFINE i == tx[h].item
           d == tx[h].delta
           q == tx[h].qty
<1>1. i \in present /\ i \in Items /\ d \in Int /\ q \in Int /\ stock[i] \in Int
  BY DEF CommitMove, MoversHold, Moves, TypeOK, Transactions
<1>2. /\ tx[h].op \in {"outward", "adjust"}
      /\ stock' = [stock EXCEPT ![i] = IF tx[h].op = "outward" THEN @ - q ELSE q]
      /\ posted' = [posted EXCEPT ![i] = @ + Posted(tx[h], d)]
      /\ UNCHANGED <<status, present, origin, homed, cleared>>
  BY DEF CommitMove
<1>3. stock'[i] = IF tx[h].op = "outward" THEN stock[i] - q ELSE q
  BY <1>1, <1>2 DEF TypeOK
<1>4. /\ stock'[i] \in Int /\ stock'[i] = stock[i] + d
      /\ stock'[i] < stock[i] => stock'[i] >= 0
  <2>1. CASE tx[h].op = "outward"
    BY <2>1, <1>1, <1>3 DEF MoversHold, Moves
  <2>2. CASE tx[h].op = "adjust"
    BY <2>2, <1>1, <1>3 DEF MoversHold, Moves
  <2> QED
    BY <2>1, <2>2, <1>2
<1>5. stock' = [stock EXCEPT ![i] = stock'[i]]
  BY <1>1, <1>2, <1>3 DEF TypeOK
<1>6. Posted(tx[h], d) \in Int /\ (i \in homed => Posted(tx[h], d) = d)
  BY <1>1, <1>2 DEF Posted, MoversHold, Moves
<1> QED
  BY <1>1, <1>2, <1>4, <1>5, <1>6

\* A movement's item is as it was read, because it was locked.
LEMMA MoveCommits ==
  ASSUME StoreInv, NEW h \in Handlers, CommitMove(h)
  PROVE  StoreInv'
<1> USE DEF StoreInv
<1> DEFINE i == tx[h].item
           d == tx[h].delta
           p == Posted(tx[h], d)
<1>1. /\ i \in present /\ i \in Items /\ d \in Int /\ p \in Int
      /\ stock'[i] \in Int /\ stock'[i] = stock[i] + d
      /\ stock'[i] < stock[i] => stock'[i] >= 0
      /\ i \in homed => p = d
      /\ stock' = [stock EXCEPT ![i] = stock'[i]]
      /\ posted' = [posted EXCEPT ![i] = @ + p]
      /\ UNCHANGED <<status, present, origin, homed, cleared>>
  BY MoveFacts
<1>2. /\ tx' \in [Handlers -> Transactions] /\ tx'[h] = NoTx
      /\ \A k \in Handlers : k # h => tx'[k] = tx[k]
  BY NoTxType, TxChange DEF CommitMove, Ends
<1>3. NoTx.op = "none" /\ NoTx.doomed = {}
  BY DEF NoTx
<1>4. \A k \in Handlers : Moves(k)' => k # h /\ tx'[k] = tx[k] /\ Moves(k) /\ tx[k].item # i /\ tx[k].item \in Items
  BY <1>2, <1>3 DEF Moves, MoversApart, MoversHold, CommitMove, TypeOK
<1>6. posted[i] \in Int /\ posted'[i] = posted[i] + p
  BY <1>1 DEF TypeOK
<1> HIDE DEF i, d, p
<1>7. \A j \in Items : j # i => stock'[j] = stock[j] /\ posted'[j] = posted[j]
  BY <1>1 DEF TypeOK
<1>8. TypeOK'
  BY <1>1, <1>2, <1>6 DEF TypeOK
<1>9. MoversHold'
  BY <1>1, <1>4, <1>7 DEF MoversHold
<1>10. MoversApart' /\ ApprovesARecord'
  BY <1>2, <1>3 DEF MoversApart, ApprovesARecord, Moves
<1>11. OneReset'
  BY <1>1, <1>2, <1>3 DEF OneReset, Resets
<1>12. FreshItems'
  BY <1>1, <1>7 DEF FreshItems
<1>13. SparesSurvivors'
  BY <1>1, <1>2, <1>3 DEF SparesSurvivors, Resets
<1>14. Balanced'
  BY <1>1, <1>6, <1>7 DEF Balanced, Booked, TypeOK
<1> QED
  BY <1>8, <1>9, <1>10, <1>11, <1>12, <1>13, <1>14

\* The first two DELETEs of a reset, and its third: only what it holds changes.
LEMMA ResetGoesOn ==
  ASSUME StoreInv, NEW h \in Handlers, ResetMovements(h) \/ ResetItems(h) \/ ResetRecords(h)
  PROVE  StoreInv'
<1> USE DEF StoreInv, table
<1>1. CASE ResetMovements(h)
  <2> DEFINE t == [NoTx EXCEPT !.op = "moves", !.seen = posted]
  <2>1. t \in Transactions /\ t.op = "moves" /\ t.seen = posted /\ t.doomed = {}
    BY NoTxType DEF NoTx, Transactions, TypeOK
  <2>2. tx' = [tx EXCEPT ![h] = t] /\ ~Resetting /\ UNCHANGED table
    BY <1>1 DEF ResetMovements, Begins
  <2> HIDE DEF t
  <2>3. /\ tx' \in [Handlers -> Transactions] /\ tx'[h] = t
        /\ \A k \in Handlers : k # h => tx'[k] = tx[k]
    BY <2>1, <2>2, TxChange
  <2>4. TypeOK'
    BY <2>2, <2>3 DEF TypeOK
  <2>5. MoversHold' /\ MoversApart' /\ ApprovesARecord'
    BY <2>1, <2>2, <2>3 DEF MoversHold, MoversApart, ApprovesARecord, Moves
  <2>6. OneReset' /\ SparesSurvivors'
    BY <2>1, <2>2, <2>3 DEF OneReset, SparesSurvivors, FreshItems, Resets, Resetting
  <2>7. FreshItems' /\ Balanced'
    BY <2>2 DEF FreshItems, Balanced, Booked
  <2> QED
    BY <2>4, <2>5, <2>6, <2>7
<1>2. CASE ResetItems(h)
  <2> DEFINE t == [tx[h] EXCEPT !.op = "items", !.doomed = present]
  <2>1. tx[h] \in Transactions /\ present \in SUBSET Items
    BY DEF TypeOK
  <2>2. t \in Transactions /\ t.op = "items" /\ t.doomed = present /\ t.seen = tx[h].seen
    BY <2>1 DEF Transactions
  <2>3. /\ tx' = [tx EXCEPT ![h] = t] /\ UNCHANGED table /\ tx[h].op = "moves"
        /\ \A i \in present : ~ItemLocked(i)
    BY <1>2 DEF ResetItems, TypeOK
  <2> HIDE DEF t
  <2>4. /\ tx' \in [Handlers -> Transactions] /\ tx'[h] = t
        /\ \A k \in Handlers : k # h => tx'[k] = tx[k]
    BY <2>2, <2>3, TxChange
  <2>5. \A k \in Handlers : ~Moves(k) /\ ~Moves(k)'
    BY <2>2, <2>3, <2>4 DEF Moves, MoversHold, ItemLocked
  <2>6. TypeOK'
    BY <2>3, <2>4 DEF TypeOK
  <2>7. MoversHold' /\ MoversApart' /\ ApprovesARecord'
    BY <2>2, <2>4, <2>5 DEF MoversHold, MoversApart, ApprovesARecord
  <2>8. OneReset' /\ SparesSurvivors'
    BY <2>2, <2>3, <2>4 DEF OneReset, SparesSurvivors, Resets
  <2>9. FreshItems' /\ Balanced'
    BY <2>3 DEF FreshItems, Balanced, Booked
  <2> QED
    BY <2>6, <2>7, <2>8, <2>9
<1>3. CASE ResetRecords(h)
  <2> DEFINE t == [tx[h] EXCEPT !.op = "records"]
  <2>1. tx[h] \in Transactions
    BY DEF TypeOK
  <2>2. t \in Transactions /\ t.op = "records" /\ t.doomed = tx[h].doomed /\ t.seen = tx[h].seen
    BY <2>1 DEF Transactions
  <2>3. tx' = [tx EXCEPT ![h] = t] /\ UNCHANGED table /\ tx[h].op = "items"
    BY <1>3 DEF ResetRecords, TypeOK
  <2> HIDE DEF t
  <2>4. /\ tx' \in [Handlers -> Transactions] /\ tx'[h] = t
        /\ \A k \in Handlers : k # h => tx'[k] = tx[k]
    BY <2>2, <2>3, TxChange
  <2>5. TypeOK'
    BY <2>3, <2>4 DEF TypeOK
  <2>6. MoversHold' /\ MoversApart' /\ ApprovesARecord'
    BY <2>2, <2>3, <2>4 DEF MoversHold, MoversApart, ApprovesARecord, Moves
  <2>7. OneReset' /\ SparesSurvivors'
    BY <2>2, <2>3, <2>4 DEF OneReset, SparesSurvivors, Resets
  <2>8. FreshItems' /\ Balanced'
    BY <2>3 DEF FreshItems, Balanced, Booked
  <2> QED
    BY <2>5, <2>6, <2>7, <2>8
<1> QED
  BY <1>1, <1>2, <1>3

\* What a reset leaves keeps its movements.
LEMMA ResetFacts ==
  ASSUME StoreInv, NEW h \in Handlers, CommitReset(h)
  PROVE  /\ present' = present \ tx[h].doomed /\ tx[h].doomed \subseteq present
         /\ stock' \in [Items -> Int] /\ posted' \in [Items -> Int]
         /\ \A i \in Items : stock'[i] = IF i \in present' THEN stock[i] ELSE 0
         /\ \A i \in present' : posted'[i] = posted[i]
         /\ \A i \in Items : origin[i] = NoRecord => posted'[i] = 0
         /\ status' = [r \in Records |-> "none"]
         /\ UNCHANGED <<origin, homed, cleared>>
<1> USE DEF StoreInv
<1>1. /\ tx[h].op = "records"
      /\ present' = present \ tx[h].doomed
      /\ stock' = [i \in Items |-> IF i \in present' THEN stock[i] ELSE 0]
      /\ posted' = [i \in Items |-> posted[i] - tx[h].seen[i]]
      /\ status' = [r \in Records |-> "none"]
      /\ UNCHANGED <<origin, homed, cleared>>
  BY DEF CommitReset
<1>2. tx[h].seen \in [Items -> Int] /\ posted \in [Items -> Int] /\ stock \in [Items -> Int] /\ present \subseteq Items
  BY DEF TypeOK, Transactions
<1>3. tx[h].doomed \subseteq present
  BY DEF OneReset
<1>4. \A i \in present' : tx[h].seen[i] = 0
  BY <1>1, <1>2 DEF SparesSurvivors, Resets
<1>5. \A i \in Items : origin[i] = NoRecord => tx[h].seen[i] = 0 /\ posted[i] = 0
  BY <1>1 DEF SparesSurvivors, Resets, FreshItems
<1>6. stock' \in [Items -> Int] /\ posted' \in [Items -> Int]
  BY <1>1, <1>2
<1>7. \A i \in Items : posted'[i] = posted[i] - tx[h].seen[i] /\ posted[i] \in Int
  BY <1>1, <1>2
<1>8. \A i \in present' : posted'[i] = posted[i]
  BY <1>1, <1>2, <1>4, <1>7
<1>9. \A i \in Items : origin[i] = NoRecord => posted'[i] = 0
  BY <1>5, <1>7
<1> QED
  BY <1>1, <1>3, <1>6, <1>8, <1>9

\* A reset removes the items it found, with the movements it read of them.
LEMMA ResetCommits ==
  ASSUME StoreInv, NEW h \in Handlers, CommitReset(h)
  PROVE  StoreInv'
<1> USE DEF StoreInv
<1>1. /\ present' = present \ tx[h].doomed /\ tx[h].doomed \subseteq present
      /\ stock' \in [Items -> Int] /\ posted' \in [Items -> Int]
      /\ \A i \in Items : stock'[i] = IF i \in present' THEN stock[i] ELSE 0
      /\ \A i \in present' : posted'[i] = posted[i]
      /\ \A i \in Items : origin[i] = NoRecord => posted'[i] = 0
      /\ status' = [r \in Records |-> "none"]
      /\ UNCHANGED <<origin, homed, cleared>>
  BY ResetFacts
<1>2. /\ tx' \in [Handlers -> Transactions] /\ tx'[h] = NoTx
      /\ \A k \in Handlers : k # h => tx'[k] = tx[k]
  BY NoTxType, TxChange DEF CommitReset, Ends
<1>3. NoTx.op = "none" /\ NoTx.doomed = {} /\ tx[h].op = "records"
  BY DEF NoTx, CommitReset
<1>4. \A k \in Handlers : Resets(k) => k = h
  BY <1>3 DEF OneReset, Resets
<1>5. TypeOK'
  BY <1>1, <1>2 DEF TypeOK
<1>6. MoversHold'
  <2>1. \A k \in Handlers : Moves(k)' => k # h /\ tx'[k] = tx[k] /\ Moves(k) /\ tx[k].item \in present'
    BY <1>1, <1>2, <1>3 DEF Moves, MoversApart, MoversHold
  <2>2. \A k \in Handlers : Moves(k)' => stock'[tx[k].item] = stock[tx[k].item]
    BY <2>1, <1>1 DEF TypeOK
  <2> QED
    BY <2>1, <2>2, <1>1 DEF MoversHold
<1>7. MoversApart' /\ ApprovesARecord'
  BY <1>2, <1>3 DEF MoversApart, ApprovesARecord, Moves
<1>8. \A k \in Handlers : ~Resets(k)' /\ tx'[k].doomed = {}
  BY <1>2, <1>3, <1>4 DEF Resets, OneReset
<1>9. OneReset'
  BY <1>8 DEF OneReset
<1>10. SparesSurvivors'
  BY <1>8 DEF SparesSurvivors
<1>11. FreshItems'
  BY <1>1 DEF FreshItems
<1>12. Balanced'
  BY <1>1 DEF Balanced, Booked, TypeOK
<1> QED
  BY <1>5, <1>6, <1>7, <1>9, <1>10, <1>11, <1>12

\* One step for each action.
LEMMA StoreNext == StoreInv /\ [Next]_vars => StoreInv'
<1> SUFFICES ASSUME StoreInv, [Next]_vars PROVE StoreInv'
  OBVIOUS
<1> USE DEF StoreInv
<1>1. ASSUME status' \in [Records -> {"none", "Pending", "Approved"}],
             UNCHANGED <<present, stock, origin, homed, posted, cleared, tx>>
      PROVE  StoreInv'
  BY <1>1 DEF TypeOK, MoversHold, MoversApart, ApprovesARecord, OneReset, FreshItems, SparesSurvivors,
              Balanced, Booked, Moves, Resets
<1>2. ASSUME NEW r \in Records, Shift(r) PROVE StoreInv'
  BY <1>1, <1>2 DEF Shift, TypeOK
<1>3. CASE DeleteRecords
  BY <1>1, <1>3 DEF DeleteRecords, TypeOK
<1>4. CASE ClearMovements
  <2>1. /\ posted' = None /\ cleared' = [i \in Items |-> cleared[i] + posted[i]]
        /\ ~Resetting
        /\ UNCHANGED <<status, present, stock, origin, homed, tx>>
    BY <1>4 DEF ClearMovements
  <2>2. \A i \in Items : /\ posted'[i] = 0 /\ cleared'[i] = cleared[i] + posted[i]
                         /\ posted[i] \in Int /\ cleared[i] \in Int
    BY <2>1 DEF None, TypeOK
  <2>3. TypeOK'
    BY <2>1, <2>2 DEF TypeOK, None
  <2>4. MoversHold' /\ MoversApart' /\ ApprovesARecord' /\ OneReset'
    BY <2>1 DEF MoversHold, MoversApart, ApprovesARecord, OneReset, Moves, Resets
  <2>5. FreshItems' /\ SparesSurvivors'
    BY <2>1, <2>2 DEF FreshItems, SparesSurvivors, Resets
  <2>6. Balanced'
    BY <2>1, <2>2 DEF Balanced, Booked, TypeOK
  <2> QED
    BY <2>3, <2>4, <2>5, <2>6
<1>5. ASSUME NEW h \in Handlers, NEW r \in Records, NEW n \in Amounts, NEW f \in BOOLEAN, Approve(h, r, n, f)
      PROVE  StoreInv'
  <2> DEFINE t == [NoTx EXCEPT !.op = "approve", !.record = r, !.qty = n, !.posts = (r \in Placed \/ f)]
  <2>1. t \in Transactions /\ t.op = "approve" /\ t.record = r /\ t.doomed = {}
    BY NoTxType, WipConstants DEF NoTx, Transactions
  <2>2. tx' = [tx EXCEPT ![h] = t] /\ UNCHANGED table
    BY <1>5 DEF Approve, Begins
  <2> HIDE DEF t
  <2> QED
    BY <2>1, <2>2, LockFree
<1>6. ASSUME NEW h \in Handlers, RollBack(h) PROVE StoreInv'
  <2>1. tx' = [tx EXCEPT ![h] = NoTx] /\ UNCHANGED table
    BY <1>6 DEF RollBack, Ends
  <2>2. NoTx.op = "none" /\ NoTx.doomed = {}
    BY DEF NoTx
  <2> QED
    BY <2>1, <2>2, NoTxType, LockFree
<1>7. ASSUME NEW h \in Handlers, NEW i \in Items, NEW n \in Amounts, NEW f \in BOOLEAN, Outward(h, i, n, f)
      PROVE  StoreInv'
  <2>1. n \in Int /\ -n \in Int
    BY WipConstants
  <2>2. BeginMove(h, "outward", i, n, -n, f) /\ n <= stock[i] /\ i \in present /\ ~ItemLocked(i)
    BY <1>7 DEF Outward
  <2> QED
    BY <2>1, <2>2, MoveBegins
<1>8. ASSUME NEW h \in Handlers, NEW i \in Items, NEW n \in Amounts, NEW f \in BOOLEAN, Adjust(h, i, n, f)
      PROVE  StoreInv'
  <2>1. n \in Int /\ n - stock[i] \in Int
    BY WipConstants DEF TypeOK
  <2>2. BeginMove(h, "adjust", i, n, n - stock[i], f) /\ n >= 0 /\ i \in present /\ ~ItemLocked(i)
    BY <1>8 DEF Adjust
  <2> QED
    BY <2>1, <2>2, MoveBegins
<1>9. CASE UNCHANGED vars
  <2>1. status' = status /\ UNCHANGED <<present, stock, origin, homed, posted, cleared, tx>>
    BY <1>9 DEF vars, table
  <2> QED
    BY <1>1, <2>1 DEF TypeOK
<1> QED
  BY <1>2, <1>3, <1>4, <1>5, <1>6, <1>7, <1>8, <1>9, ApproveCommits, MoveCommits, ResetGoesOn, ResetCommits
     DEF Next

LEMMA StoreInvariant == Spec => []StoreInv
<1>1. Init => StoreInv
  BY StoreInit
<1>2. StoreInv /\ [Next]_vars => StoreInv'
  BY StoreNext
<1> QED
  BY <1>1, <1>2, PTL DEF Spec

\* On hand is what the movements add up to, however approvals, issues,
\* adjustments and resets overlap.
THEOREM StockIsBalanced == Spec => []Balanced
<1>1. StoreInv => Balanced
  BY DEF StoreInv
<1> QED
  BY <1>1, StoreInvariant, PTL

\* A step that makes the stock of an item fall leaves no less than nothing.
LEMMA FallsToNothing ==
  ASSUME StoreInv, [Next]_vars, NEW i \in present \cap present', stock'[i] < stock[i]
  PROVE  stock'[i] >= 0
<1> USE DEF StoreInv
<1>1. i \in Items /\ stock[i] \in Int
  BY DEF TypeOK
<1>2. ASSUME stock' = stock PROVE FALSE
  BY <1>1, <1>2
<1>3. ASSUME NEW h \in Handlers, NEW j \in Items, CommitApprove(h, j) PROVE FALSE
  <2>1. j \notin present /\ stock' = [stock EXCEPT ![j] = tx[h].qty]
    BY <1>3 DEF CommitApprove, FreshItems
  <2> QED
    BY <1>1, <2>1 DEF TypeOK
<1>4. ASSUME NEW h \in Handlers, CommitMove(h) PROVE stock'[i] >= 0
  <2> DEFINE j == tx[h].item
  <2>1. /\ j \in Items /\ stock' = [stock EXCEPT ![j] = stock'[j]]
        /\ stock'[j] < stock[j] => stock'[j] >= 0
    BY <1>4, MoveFacts
  <2> HIDE DEF j
  <2>2. i # j => stock'[i] = stock[i]
    BY <1>1, <2>1 DEF TypeOK
  <2> QED
    BY <1>1, <2>1, <2>2
<1>5. ASSUME NEW h \in Handlers, CommitReset(h) PROVE FALSE
  BY <1>1, <1>5, ResetFacts
<1>6. CASE UNCHANGED vars
  BY <1>2, <1>6 DEF vars, table
<1>7. ASSUME NEW h \in Handlers, NEW r \in Records, NEW n \in Amounts, NEW f \in BOOLEAN, Approve(h, r, n, f)
      PROVE  FALSE
  BY <1>2, <1>7 DEF Approve, table
<1>8. ASSUME NEW h \in Handlers, NEW j \in Items, NEW n \in Amounts, NEW f \in BOOLEAN,
             Outward(h, j, n, f) \/ Adjust(h, j, n, f)
      PROVE  FALSE
  BY <1>2, <1>8 DEF Outward, Adjust, BeginMove, table
<1>9. ASSUME NEW h \in Handlers, ResetMovements(h) \/ ResetItems(h) \/ ResetRecords(h) \/ RollBack(h)
      PROVE  FALSE
  BY <1>2, <1>9 DEF ResetMovements, ResetItems, ResetRecords, RollBack, table
<1>10. ASSUME ClearMovements \/ DeleteRecords \/ \E r \in Records : Shift(r) PROVE FALSE
  BY <1>2, <1>10 DEF ClearMovements, DeleteRecords, Shift
<1> QED
  BY <1>3, <1>4, <1>5, <1>6, <1>7, <1>8, <1>9, <1>10 DEF Next

\* No issue takes more than there is, because the row stays locked from the
\* look at the balance to the subtraction.
THEOREM NothingOverdrawn == Spec => NeverOverdrawn
<1>1. StoreInv /\ [Next]_vars
      => [\A i \in present \cap present' : stock'[i] < stock[i] => stock'[i] >= 0]_vars
  BY FallsToNothing
<1> QED
  BY <1>1, StoreInvariant, PTL DEF Spec, NeverOverdrawn

-----------------------------------------------------------------------------
(* The refinement of StockLedger.                                          *)

OnHand == [i \in Items |-> IF i \in Booked THEN stock[i] ELSE 0]
Book   == [i \in Items |-> IF i \in homed THEN posted[i] + cleared[i] ELSE 0]

LEMMA LedgerInit == Init => Ledger!Init
<1> SUFFICES ASSUME Init PROVE Ledger!Init
  OBVIOUS
<1>1. Booked = {}
  BY DEF Init, Booked
<1>2. homed = {}
  BY DEF Init
<1> QED
  BY <1>1, <1>2 DEF Ledger!Init

\* The ledger stutters where neither items nor quantities nor movements change.
LEMMA LedgerStutters ==
  ASSUME Booked' = Booked, homed' = homed, \A i \in Booked : stock'[i] = stock[i],
         \A i \in homed : posted'[i] + cleared'[i] = posted[i] + cleared[i]
  PROVE  UNCHANGED Ledger!vars
<1>1. Book' = Book /\ OnHand' = OnHand
  BY DEF Book, OnHand
<1> QED
  BY <1>1 DEF Ledger!vars, Book, OnHand

\* The refinement: an approval of a record with a factory is a receipt.
LEMMA ApproveReceives ==
  ASSUME StoreInv, NEW h \in Handlers, NEW i \in Items, CommitApprove(h, i)
  PROVE  Ledger!Receive(i) \/ UNCHANGED Ledger!vars
<1> DEFINE r == tx[h].record
           n == tx[h].qty
           m == Posted(tx[h], n)
<1>1. /\ r \in Records /\ n \in Int /\ i \notin present /\ i \notin homed /\ posted[i] = 0 /\ cleared[i] = 0
  BY DEF CommitApprove, ApprovesARecord, FreshItems, TypeOK, Transactions, StoreInv
<1>2. /\ present' = present \cup {i}
      /\ stock' = [stock EXCEPT ![i] = n]
      /\ origin' = [origin EXCEPT ![i] = r]
      /\ homed' = IF tx[h].posts THEN homed \cup {i} ELSE homed
      /\ posted' = [posted EXCEPT ![i] = m]
      /\ cleared' = cleared
      /\ m = IF tx[h].posts THEN n ELSE 0
  BY DEF CommitApprove, Posted
<1> HIDE DEF r, n, m
<1>3. /\ stock'[i] = n /\ origin'[i] = r /\ posted'[i] = m /\ cleared'[i] = 0
      /\ \A j \in Items : j # i => stock'[j] = stock[j] /\ origin'[j] = origin[j] /\ posted'[j] = posted[j]
  BY <1>1, <1>2 DEF TypeOK, StoreInv
<1>4. present \subseteq Items
  BY DEF TypeOK, StoreInv
<1>5. CASE tx[h].posts
  <2>1. Booked' = Booked \cup {i} /\ i \notin Booked
    BY <1>1, <1>2, <1>3, <1>4, <1>5 DEF Booked
  <2>2. posted'[i] + cleared'[i] = n
    BY <1>1, <1>2, <1>3, <1>5
  <2>3. OnHand'[i] = n
    BY <1>3, <2>1 DEF OnHand
  <2>4. OnHand' = [OnHand EXCEPT ![i] = n]
    BY <1>3, <2>1 DEF OnHand
  <2>5. Book' = [Book EXCEPT ![i] = n]
    <3>1. \A j \in Items : (IF j \in homed' THEN posted'[j] + cleared'[j] ELSE 0)
                              = IF j = i THEN n ELSE IF j \in homed THEN posted[j] + cleared[j] ELSE 0
      BY <1>2, <1>3, <1>5, <2>2
    <3> QED
      BY <3>1 DEF Book
  <2>6. Book[i] = 0
    BY <1>1 DEF Book
  <2> QED
    BY <1>1, <2>1, <2>3, <2>4, <2>5, <2>6 DEF Ledger!Receive, OnHand, Book
<1>6. CASE ~tx[h].posts
  <2>1. Booked' = Booked /\ i \notin Booked
    BY <1>1, <1>2, <1>3, <1>4, <1>6 DEF Booked
  <2>2. \A j \in Booked : stock'[j] = stock[j]
    BY <1>3, <1>4, <2>1 DEF Booked
  <2>3. homed' = homed /\ \A j \in homed : posted'[j] + cleared'[j] = posted[j] + cleared[j]
    BY <1>1, <1>2, <1>3, <1>6 DEF StoreInv, TypeOK
  <2> QED
    BY <2>1, <2>2, <2>3, LedgerStutters
<1> QED
  BY <1>5, <1>6

\* An issue or an adjustment is a move.
LEMMA MoveMoves ==
  ASSUME StoreInv, NEW h \in Handlers, CommitMove(h)
  PROVE  (\E i \in Items : Ledger!Move(i)) \/ UNCHANGED Ledger!vars
<1> DEFINE i == tx[h].item
           d == tx[h].delta
           p == Posted(tx[h], d)
<1>1. /\ i \in present /\ i \in Items /\ d \in Int /\ p \in Int
      /\ stock'[i] \in Int /\ stock'[i] = stock[i] + d
      /\ stock'[i] < stock[i] => stock'[i] >= 0
      /\ i \in homed => p = d
      /\ stock' = [stock EXCEPT ![i] = stock'[i]]
      /\ posted' = [posted EXCEPT ![i] = @ + p]
      /\ UNCHANGED <<status, present, origin, homed, cleared>>
  BY MoveFacts
<1>2. p = d \/ p = 0
  BY DEF Posted
<1> HIDE DEF i, d, p
<1>3. /\ posted \in [Items -> Int] /\ cleared \in [Items -> Int] /\ stock \in [Items -> Int]
      /\ present \subseteq Items
  BY DEF TypeOK, StoreInv
<1>4. posted'[i] = posted[i] + p /\ \A j \in Items : j # i => stock'[j] = stock[j] /\ posted'[j] = posted[j]
  BY <1>1, <1>3
<1>5. Booked' = Booked
  BY <1>1 DEF Booked
<1>6. CASE i \in homed
  <2>1. i \in Booked
    BY <1>1, <1>6 DEF Booked
  <2>2. OnHand'[i] = stock'[i] /\ OnHand[i] = stock[i]
    BY <1>1, <1>5, <2>1 DEF OnHand
  <2>3. OnHand' = [OnHand EXCEPT ![i] = OnHand'[i]]
    BY <1>4, <1>5, <2>2 DEF OnHand
  <2>4. posted'[i] + cleared'[i] = Book[i] + (OnHand'[i] - OnHand[i])
    BY <1>1, <1>2, <1>3, <1>4, <1>6, <2>2 DEF Book
  <2>5. Book' = [Book EXCEPT ![i] = @ + (OnHand'[i] - OnHand[i])]
    <3> DEFINE b == Book[i] + (OnHand'[i] - OnHand[i])
    <3>1. \A j \in Items : (IF j \in homed' THEN posted'[j] + cleared'[j] ELSE 0)
                              = IF j = i THEN b ELSE IF j \in homed THEN posted[j] + cleared[j] ELSE 0
      BY <1>1, <1>4, <1>6, <2>4
    <3> HIDE DEF b
    <3>2. Book' = [Book EXCEPT ![i] = b]
      BY <3>1 DEF Book
    <3> QED
      BY <3>2 DEF b
  <2> QED
    BY <1>1, <1>5, <2>1, <2>2, <2>3, <2>5 DEF Ledger!Move, OnHand, Book
<1>7. CASE i \notin homed
  <2>1. \A j \in Booked : stock'[j] = stock[j]
    BY <1>3, <1>4, <1>7 DEF Booked
  <2>2. homed' = homed /\ \A j \in homed : posted'[j] + cleared'[j] = posted[j] + cleared[j]
    BY <1>1, <1>3, <1>4, <1>7 DEF StoreInv, TypeOK
  <2> QED
    BY <1>5, <2>1, <2>2, LedgerStutters
<1> QED
  BY <1>6, <1>7

\* A reset is a wipe of the items it takes.
LEMMA ResetWipes ==
  ASSUME StoreInv, NEW h \in Handlers, CommitReset(h)
  PROVE  tx[h].doomed \in SUBSET Items /\ Ledger!Wipe(tx[h].doomed)
<1> DEFINE gone == tx[h].doomed
<1>1. /\ present' = present \ gone /\ gone \subseteq present
      /\ stock' \in [Items -> Int] /\ posted' \in [Items -> Int]
      /\ \A i \in Items : stock'[i] = IF i \in present' THEN stock[i] ELSE 0
      /\ \A i \in present' : posted'[i] = posted[i]
      /\ UNCHANGED <<origin, homed, cleared>>
  BY ResetFacts
<1>2. present \subseteq Items /\ cleared \in [Items -> Int]
  BY DEF TypeOK, StoreInv
<1> HIDE DEF gone
<1>3. Booked' = Booked \ gone
  BY <1>1 DEF Booked
<1>4. OnHand' = [i \in Items |-> IF i \in Booked' THEN OnHand[i] ELSE 0]
  BY <1>1, <1>3 DEF OnHand, Booked
<1>5. Book' \in [Items -> Int]
  BY <1>1, <1>2 DEF Book
<1>6. \A i \in Booked' : Book'[i] = Book[i]
  BY <1>1, <1>2 DEF Book, Booked
<1>7. gone \in SUBSET Items
  BY <1>1, <1>2
<1>8. Ledger!Wipe(gone)
  BY <1>3, <1>4, <1>5, <1>6 DEF Ledger!Wipe, OnHand, Book
<1> QED
  BY <1>7, <1>8 DEF gone

\* Every other step leaves the ledger as it is.
LEMMA LedgerNext == StoreInv /\ [Next]_vars => [Ledger!Next]_(Ledger!vars)
<1> SUFFICES ASSUME StoreInv, [Next]_vars PROVE Ledger!Next \/ UNCHANGED Ledger!vars
  OBVIOUS
<1>1. ASSUME UNCHANGED <<present, stock, origin, homed, posted, cleared>> PROVE UNCHANGED Ledger!vars
  BY <1>1, LedgerStutters DEF Booked
<1>2. CASE ClearMovements
  <2>1. Booked' = Booked /\ homed' = homed /\ stock' = stock
    BY <1>2 DEF ClearMovements, Booked
  <2>2. \A i \in Items : posted[i] \in Int /\ cleared[i] \in Int /\ posted'[i] = 0 /\ cleared'[i] = cleared[i] + posted[i]
    BY <1>2 DEF ClearMovements, None, TypeOK, StoreInv
  <2>3. \A i \in Items : posted'[i] + cleared'[i] = posted[i] + cleared[i]
    BY <2>2
  <2>4. homed \subseteq Items
    BY DEF StoreInv, TypeOK
  <2> QED
    BY <2>1, <2>3, <2>4, LedgerStutters
<1>3. ASSUME NEW h \in Handlers, NEW i \in Items, CommitApprove(h, i) PROVE Ledger!Next \/ UNCHANGED Ledger!vars
  BY <1>3, ApproveReceives DEF Ledger!Next
<1>4. ASSUME NEW h \in Handlers, CommitMove(h) PROVE Ledger!Next \/ UNCHANGED Ledger!vars
  BY <1>4, MoveMoves DEF Ledger!Next
<1>5. ASSUME NEW h \in Handlers, CommitReset(h) PROVE Ledger!Next \/ UNCHANGED Ledger!vars
  BY <1>5, ResetWipes DEF Ledger!Next, Ledger!Wipe
<1>6. ASSUME NEW h \in Handlers,
             \/ ResetMovements(h) \/ ResetItems(h) \/ ResetRecords(h) \/ RollBack(h)
             \/ \E r \in Records, n \in Amounts, f \in BOOLEAN : Approve(h, r, n, f)
             \/ \E i \in Items, n \in Amounts, f \in BOOLEAN : Outward(h, i, n, f) \/ Adjust(h, i, n, f)
      PROVE  UNCHANGED Ledger!vars
  <2>1. UNCHANGED table
    BY <1>6 DEF ResetMovements, ResetItems, ResetRecords, RollBack, Approve, Outward, Adjust, BeginMove
  <2> QED
    BY <1>1, <2>1 DEF table
<1>7. ASSUME DeleteRecords \/ \E r \in Records : Shift(r) PROVE UNCHANGED Ledger!vars
  BY <1>1, <1>7 DEF DeleteRecords, Shift
<1>8. CASE UNCHANGED vars
  BY <1>1, <1>8 DEF vars, table
<1> QED
  BY <1>2, <1>3, <1>4, <1>5, <1>6, <1>7, <1>8 DEF Next

\* The store, with its locks, its commits and its resets of three statements,
\* does what StockLedger promises, for any number of requests.
THEOREM StoreKeepsTheLedger == Spec => LedgerHolds
<1>1. Init => Ledger!Init
  BY LedgerInit
<1>2. StoreInv /\ [Next]_vars => [Ledger!Next]_(Ledger!vars)
  BY LedgerNext
<1> QED
  BY <1>1, <1>2, StoreInvariant, PTL DEF Spec, LedgerHolds, Ledger!Spec
=============================================================================
