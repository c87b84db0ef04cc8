--------------------------- MODULE RowSyncProofs ---------------------------
(***************************************************************************)
(* What RowSync guarantees for every set of factories, rows and bounds.    *)
(***************************************************************************)
EXTENDS RowSync, TLAPS

\* The empty row, the empty payload and what is left of one are typed.
LEMMA RowsTyped ==
  /\ NoRow \in Row
  /\ NoRows \in [Keys -> Row]
  /\ \A f \in [Keys -> Row], bad \in SUBSET Keys : Without(f, bad) \in [Keys -> Row]
BY DEF NoRow, NoRows, Row, Without

LEMMA PhaseNames ==
  {"idle", "drain", "mark", "select", "send", "close", "pull", "ask", "apply"} \subseteq Phases
BY DEF Phases

\* An upsert on either side writes rows.
LEMMA UpsertTyped ==
  ASSUME TypeOK, NEW f \in [Keys -> Row]
  PROVE  /\ UpsertAtMain(f) => now' \in Nat /\ row' \in [Servers -> [Keys -> Row]]
         /\ \A l \in Locals : UpsertAtLocal(l, f) => now' \in Nat /\ row' \in [Servers -> [Keys -> Row]]
<1>1. ASSUME UpsertAtMain(f)
      PROVE  now' \in Nat /\ row' \in [Servers -> [Keys -> Row]]
  <2>1. now' \in Nat
    BY <1>1 DEF TypeOK, UpsertAtMain
  <2>2. [k \in Keys |-> IF k \notin Newer(MAIN, f) THEN row[MAIN][k]
                         ELSE IF k \in Updated(MAIN, f) THEN [ver |-> f[k].ver, at |-> now + 1]
                         ELSE f[k]] \in [Keys -> Row]
    BY DEF TypeOK, Row, Servers
  <2>3. QED
    BY <1>1, <2>1, <2>2 DEF TypeOK, UpsertAtMain
<1>2. ASSUME NEW l \in Locals, UpsertAtLocal(l, f)
      PROVE  now' \in Nat /\ row' \in [Servers -> [Keys -> Row]]
  <2>1. [k \in Keys |-> IF k \in Newer(l, f) THEN f[k] ELSE row[l][k]] \in [Keys -> Row]
    BY DEF TypeOK, Row, Servers
  <2>2. QED
    BY <1>2, <2>1 DEF TypeOK, UpsertAtLocal
<1>3. QED
  BY <1>1, <1>2

LEMMA FaultTyped ==
  ASSUME TypeOK, NEW kind, Fault(kind)
  PROVE  faults' \in 0..MaxFaults
BY SyncConstants DEF TypeOK, Fault

LEMMA AnsweredTyped ==
  ASSUME TypeOK, NEW f \in [Keys -> Row], NEW bad \in SUBSET Keys, Answered(f, bad)
  PROVE  /\ now' \in Nat
         /\ row' \in [Servers -> [Keys -> Row]]
         /\ faults' \in 0..MaxFaults
         /\ UNCHANGED <<edits, open, limbo>>
BY RowsTyped, UpsertTyped, FaultTyped DEF Answered, TypeOK

LEMMA UnansweredTyped ==
  ASSUME TypeOK, NEW f \in [Keys -> Row], Unanswered(f)
  PROVE  /\ faults' \in 0..MaxFaults
         /\ limbo' \in SUBSET [Keys -> Row]
         /\ UNCHANGED <<now, edits, row, open>>
BY FaultTyped DEF Unanswered, TypeOK, store

LEMMA InitTyped == Init => TypeOK
BY SyncConstants, RowsTyped DEF Init, TypeOK, Phases

LEMMA NextTyped == TypeOK /\ [Next]_vars => TypeOK'
<1> SUFFICES ASSUME TypeOK, [Next]_vars PROVE TypeOK'
  OBVIOUS
<1> USE PhaseNames DEF store, cycle, kept
<1>1. ASSUME NEW s \in Servers, NEW k \in Keys, Edit(s, k) \/ BeginEdit(s, k)
      PROVE  TypeOK'
  <2>1. NextEdit \in Row /\ edits + 1 \in 0..MaxEdits /\ now + 1 \in Nat
    BY <1>1, SyncConstants DEF TypeOK, NextEdit, Row, Edit, BeginEdit, Stamp
  <2>2. CASE Edit(s, k)
    <3>1. row' \in [Servers -> [Keys -> Row]]
      BY <2>1, <2>2 DEF TypeOK, Edit
    <3>2. QED
      BY <2>1, <2>2, <3>1 DEF TypeOK, Edit, Stamp
  <2>3. CASE BeginEdit(s, k)
    <3>1. open' \in [Servers -> [Keys -> Row]]
      BY <2>1, <2>3 DEF TypeOK, BeginEdit
    <3>2. QED
      BY <2>1, <2>3, <3>1 DEF TypeOK, BeginEdit, Stamp
  <2>4. QED
    BY <1>1, <2>2, <2>3
<1>2. ASSUME NEW s \in Servers, NEW k \in Keys, EndEdit(s, k)
      PROVE  TypeOK'
  <2> DEFINE image == open[s][k]
  <2>0. image \in Row /\ NoRow \in Row
    BY RowsTyped DEF TypeOK
  <2>1. open' = [open EXCEPT ![s][k] = NoRow]
    BY <1>2 DEF EndEdit, CommitEdit, AbortEdit
  <2>2. row' = [row EXCEPT ![s][k] = image] \/ row' = row
    BY <1>2 DEF EndEdit, CommitEdit, AbortEdit
  <2>3. UNCHANGED <<now, edits, faults, outbox, lastPush, lastPull, limbo, pc, since, mark, afterId, flight>>
    BY <1>2 DEF EndEdit, CommitEdit, AbortEdit
  <2> HIDE DEF image
  <2>4. open' \in [Servers -> [Keys -> Row]]
    BY <2>0, <2>1 DEF TypeOK
  <2>5. row' \in [Servers -> [Keys -> Row]]
    <3>1. [row EXCEPT ![s][k] = image] \in [Servers -> [Keys -> Row]]
      BY <2>0 DEF TypeOK
    <3>2. QED
      BY <2>2, <3>1 DEF TypeOK
  <2>6. QED
    BY <2>3, <2>4, <2>5 DEF TypeOK
<1>3. ASSUME NEW f \in limbo, LateArrival(f)
      PROVE  TypeOK'
  BY <1>3, UpsertTyped DEF TypeOK, LateArrival
<1>4. ASSUME NEW l \in Locals, NEW bad \in SUBSET Keys, DrainAnswered(l, bad)
      PROVE  TypeOK'
  <2>1. outbox[l] \in [Keys -> Row]
    BY DEF TypeOK
  <2>2. QED
    BY <1>4, <2>1, AnsweredTyped, RowsTyped DEF TypeOK, DrainAnswered, EndDrain, Goto
<1>5. ASSUME NEW l \in Locals, DrainUnanswered(l) \/ DrainUnapplied(l)
      PROVE  TypeOK'
  <2>1. outbox[l] \in [Keys -> Row]
    BY DEF TypeOK
  <2>2. CASE DrainUnanswered(l)
    BY <2>1, <2>2, UnansweredTyped, RowsTyped DEF TypeOK, DrainUnanswered, EndDrain, Goto
  <2>3. CASE DrainUnapplied(l)
    BY <2>3, FaultTyped, RowsTyped DEF TypeOK, DrainUnapplied, AnsweredUnapplied, EndDrain, Goto
  <2>4. QED
    BY <1>5, <2>2, <2>3
<1>6. ASSUME NEW l \in Locals,
             StartCycle(l) \/ PushMark(l) \/ PushClose(l) \/ PullMark(l) \/ PullServe(l)
      PROVE  TypeOK'
  <2>1. MAIN \in Servers
    BY DEF Servers
  <2>2. CASE StartCycle(l)
    BY <2>2 DEF TypeOK, StartCycle, Goto
  <2>5. CASE PushMark(l)
    <3>1. pc' \in [Locals -> Phases] /\ since' \in [Locals -> Nat]
      BY <2>5 DEF TypeOK, PushMark, Goto
    <3>2. mark' \in [Locals -> Nat] /\ afterId' \in [Locals -> Nat]
      BY <2>5 DEF TypeOK, PushMark
    <3>3. UNCHANGED <<now, edits, faults, row, open, outbox, lastPush, lastPull, limbo, flight>>
      BY <2>5 DEF PushMark
    <3>4. QED
      BY <3>1, <3>2, <3>3 DEF TypeOK
  <2>6. CASE PushClose(l)
    BY <2>6 DEF TypeOK, PushClose, Goto
  <2>3. CASE PullMark(l)
    BY <2>3, SyncConstants DEF TypeOK, PullMark, Goto
  <2>4. CASE PullServe(l)
    BY <2>1, <2>4, RowsTyped DEF TypeOK, PullServe, Goto
  <2>7. QED
    BY <1>6, <2>2, <2>3, <2>4, <2>5, <2>6
<1>7. ASSUME NEW l \in Locals, PushSelect(l)
      PROVE  TypeOK'
  <2>1. \A B \in Page(Due(l)) : [k \in Keys |-> IF k \in B THEN row[l][k] ELSE NoRow] \in [Keys -> Row]
    BY RowsTyped DEF TypeOK, Servers
  <2>2. QED
    BY <1>7, <2>1 DEF TypeOK, PushSelect, Goto
<1>8. ASSUME NEW l \in Locals, PushNothing(l)
      PROVE  TypeOK'
  BY <1>8, FaultTyped DEF TypeOK, PushNothing, Goto
<1>9. ASSUME NEW l \in Locals, NextPage(l)
      PROVE  /\ flight' \in [Locals -> [Keys -> Row]]
             /\ pc' \in [Locals -> Phases]
             /\ afterId' \in [Locals -> Nat]
             /\ UNCHANGED <<since, mark>>
  <2>1. Carried(flight[l]) \subseteq Nat
    BY SyncConstants DEF Carried
  <2>2. QED
    BY <1>9, <2>1, RowsTyped DEF TypeOK, NextPage, Goto
<1>10. ASSUME NEW l \in Locals, Park(l)
       PROVE  outbox' \in [Locals -> [Keys -> Row]]
  <2>1. [k \in Keys |-> IF k \in Carried(flight[l]) THEN flight[l][k] ELSE outbox[l][k]] \in [Keys -> Row]
    BY DEF TypeOK
  <2>2. QED
    BY <1>10, <2>1 DEF TypeOK, Park
<1>11. ASSUME NEW l \in Locals, NEW bad \in SUBSET Keys, PushAnswered(l, bad)
       PROVE  TypeOK'
  <2>1. flight[l] \in [Keys -> Row]
    BY DEF TypeOK
  <2>2. outbox' \in [Locals -> [Keys -> Row]]
    BY <1>10, <1>11 DEF PushAnswered, TypeOK
  <2>3. QED
    BY <1>9, <1>11, <2>1, <2>2, AnsweredTyped DEF TypeOK, PushAnswered
<1>12. ASSUME NEW l \in Locals, PushUnapplied(l)
       PROVE  TypeOK'
  BY <1>9, <1>12, FaultTyped DEF TypeOK, PushUnapplied, AnsweredUnapplied
<1>13. ASSUME NEW l \in Locals, PushUnanswered(l)
       PROVE  TypeOK'
  <2>1. flight[l] \in [Keys -> Row]
    BY DEF TypeOK
  <2>2. QED
    BY <1>10, <1>13, <2>1, UnansweredTyped, RowsTyped DEF TypeOK, PushUnanswered, Goto
<1>14. ASSUME NEW l \in Locals
       PROVE  /\ EndCycle(l) => /\ pc' \in [Locals -> Phases]
                                /\ since' \in [Locals -> Nat]
                                /\ mark' \in [Locals -> Nat]
                                /\ afterId' \in [Locals -> Nat]
                                /\ flight' \in [Locals -> [Keys -> Row]]
  <2> SUFFICES ASSUME EndCycle(l)
               PROVE  /\ pc' \in [Locals -> Phases]
                      /\ since' \in [Locals -> Nat]
                      /\ mark' \in [Locals -> Nat]
                      /\ afterId' \in [Locals -> Nat]
                      /\ flight' \in [Locals -> [Keys -> Row]]
    OBVIOUS
  <2>1. pc' \in [Locals -> Phases]
    BY DEF TypeOK, EndCycle, Goto
  <2>2. since' \in [Locals -> Nat] /\ mark' \in [Locals -> Nat] /\ afterId' \in [Locals -> Nat]
    BY DEF TypeOK, EndCycle
  <2>3. flight' \in [Locals -> [Keys -> Row]]
    BY RowsTyped DEF TypeOK, EndCycle
  <2>4. QED
    BY <2>1, <2>2, <2>3
<1>15. ASSUME NEW l \in Locals, NEW bad \in SUBSET Keys, PullApply(l, bad)
       PROVE  TypeOK'
  <2>1. Without(flight[l], bad) \in [Keys -> Row]
    BY RowsTyped DEF TypeOK
  <2>2. now' \in Nat /\ row' \in [Servers -> [Keys -> Row]]
    BY <1>15, <2>1, UpsertTyped DEF PullApply
  <2>3. faults' \in 0..MaxFaults
    BY <1>15, FaultTyped DEF PullApply, TypeOK
  <2>4. QED
    BY <1>14, <1>15, <2>2, <2>3 DEF TypeOK, PullApply, EndPull
<1>16. ASSUME NEW l \in Locals, PullFails(l)
       PROVE  TypeOK'
  BY <1>14, <1>16, FaultTyped DEF TypeOK, PullFails, EndPull
<1>17. ASSUME NEW l \in Locals, Crash(l) \/ FullPushReset(l) \/ FullPullReset(l)
       PROVE  TypeOK'
  <2>1. CASE Crash(l)
    <3>1. limbo' \in SUBSET [Keys -> Row]
      BY <2>1 DEF TypeOK, Crash
    <3>2. QED
      BY <1>14, <2>1, <3>1, FaultTyped DEF TypeOK, Crash
  <2>2. CASE FullPushReset(l)
    BY <2>2, FaultTyped DEF TypeOK, FullPushReset
  <2>3. CASE FullPullReset(l)
    BY <2>3, FaultTyped DEF TypeOK, FullPullReset
  <2>4. QED
    BY <1>17, <2>1, <2>2, <2>3
<1>18. CASE UNCHANGED vars
  BY <1>18 DEF TypeOK, vars
<1>19. QED
  BY <1>1, <1>2, <1>3, <1>4, <1>5, <1>6, <1>7, <1>8, <1>11, <1>12, <1>13,
     <1>15, <1>16, <1>17, <1>18
  DEF Next, Progress, Trouble

\* Every variable keeps its type, for any constants SyncConstants allows.
THEOREM TypeCorrect == Spec => []TypeOK
BY InitTyped, NextTyped, PTL DEF Spec

-----------------------------------------------------------------------------
(* Copies only get newer.                                                  *)

\* What upsertData does on MAIN: a row only becomes newer, to the content of the
\* payload, with its stamp if it was inserted and with a new one if updated.
LEMMA MainUpserted ==
  ASSUME TypeOK, PastStamps, NEW f \in [Keys -> Row], \A k \in Keys : f[k].at <= now,
         UpsertAtMain(f)
  PROVE  /\ now' \in {now, now + 1}
         /\ \A s \in Locals : row'[s] = row[s]
         /\ \A k \in Keys :
              /\ row'[MAIN][k].at >= row[MAIN][k].at
              /\ row'[MAIN][k].at >= f[k].at
              /\ row'[MAIN][k].at <= now'
              /\ row'[MAIN][k] # row[MAIN][k] =>
                   /\ f[k].at > row[MAIN][k].at
                   /\ open[MAIN][k] = NoRow
                   /\ row'[MAIN][k].ver = f[k].ver
                   /\ \/ row[MAIN][k].at = 0 /\ row'[MAIN][k] = f[k]
                      \/ row'[MAIN][k].at = now + 1 /\ now' = now + 1
<1>1. now \in Nat /\ MAIN \in Servers /\ MAIN \notin Locals
  BY SyncConstants DEF TypeOK, Servers
<1>2. now' \in {now, now + 1}
  BY DEF UpsertAtMain
<1>3. \A s \in Locals : row'[s] = row[s]
  BY <1>1 DEF UpsertAtMain, TypeOK, Servers
<1>4. ASSUME NEW k \in Keys
      PROVE  /\ row'[MAIN][k].at >= row[MAIN][k].at
             /\ row'[MAIN][k].at >= f[k].at
             /\ row'[MAIN][k].at <= now'
             /\ row'[MAIN][k] # row[MAIN][k] =>
                  /\ f[k].at > row[MAIN][k].at
                  /\ open[MAIN][k] = NoRow
                  /\ row'[MAIN][k].ver = f[k].ver
                  /\ \/ row[MAIN][k].at = 0 /\ row'[MAIN][k] = f[k]
                     \/ row'[MAIN][k].at = now + 1 /\ now' = now + 1
  <2>1. /\ row[MAIN][k] \in Row /\ f[k] \in Row
        /\ row[MAIN][k].at <= now /\ f[k].at <= now
    BY <1>1 DEF TypeOK, PastStamps
  <2>2. row[MAIN][k].at \in Nat /\ f[k].at \in Nat /\ f[k].ver \in Nat
    BY <2>1 DEF Row
  <2>3. row'[MAIN][k] = IF k \notin Newer(MAIN, f) THEN row[MAIN][k]
                        ELSE IF k \in Updated(MAIN, f) THEN [ver |-> f[k].ver, at |-> now + 1]
                        ELSE f[k]
    BY <1>1 DEF UpsertAtMain, TypeOK
  <2>4. CASE k \notin Newer(MAIN, f)
    BY <1>1, <1>2, <2>1, <2>2, <2>3, <2>4 DEF Newer
  <2>5. CASE k \in Updated(MAIN, f)
    <3>1. k \in Newer(MAIN, f) /\ row'[MAIN][k] = [ver |-> f[k].ver, at |-> now + 1]
      BY <2>3, <2>5 DEF Updated
    <3>2. now' = now + 1
      BY <2>5 DEF UpsertAtMain
    <3>3. open[MAIN][k] = NoRow
      BY <3>1 DEF UpsertAtMain, Unlocked
    <3>4. QED
      BY <1>1, <2>1, <2>2, <3>1, <3>2, <3>3 DEF Newer
  <2>6. CASE k \in Newer(MAIN, f) /\ k \notin Updated(MAIN, f)
    <3>1. row'[MAIN][k] = f[k] /\ f[k].at > row[MAIN][k].at /\ row[MAIN][k].at = 0
      BY <2>2, <2>3, <2>6 DEF Newer, Updated
    <3>2. open[MAIN][k] = NoRow
      BY <2>6 DEF UpsertAtMain, Unlocked
    <3>3. QED
      BY <1>1, <1>2, <2>1, <2>2, <3>1, <3>2
  <2>7. QED
    BY <2>4, <2>5, <2>6
<1>5. QED
  BY <1>2, <1>3, <1>4

\* What upsertData does on a LOCAL: a row only becomes newer, and then it is the
\* payload's, stamp included.
LEMMA LocalUpserted ==
  ASSUME TypeOK, NEW l \in Locals, NEW f \in [Keys -> Row], UpsertAtLocal(l, f)
  PROVE  /\ now' = now
         /\ \A s \in Servers \ {l} : row'[s] = row[s]
         /\ \A k \in Keys :
              /\ row'[l][k].at >= row[l][k].at
              /\ row'[l][k].at >= f[k].at
              /\ row'[l][k] \in {row[l][k], f[k]}
              /\ row'[l][k] # row[l][k] => f[k].at > row[l][k].at /\ open[l][k] = NoRow
<1>1. l \in Servers
  BY DEF Servers
<1>2. now' = now /\ \A s \in Servers \ {l} : row'[s] = row[s]
  BY <1>1 DEF UpsertAtLocal, TypeOK
<1>3. ASSUME NEW k \in Keys
      PROVE  /\ row'[l][k].at >= row[l][k].at
             /\ row'[l][k].at >= f[k].at
             /\ row'[l][k] \in {row[l][k], f[k]}
             /\ row'[l][k] # row[l][k] => f[k].at > row[l][k].at /\ open[l][k] = NoRow
  <2>1. row[l][k].at \in Nat /\ f[k].at \in Nat
    BY <1>1 DEF TypeOK, Row
  <2>2. row'[l][k] = IF k \in Newer(l, f) THEN f[k] ELSE row[l][k]
    BY <1>1 DEF UpsertAtLocal, TypeOK
  <2>3. QED
    BY <2>1, <2>2 DEF Newer, UpsertAtLocal, Unlocked
<1>4. QED
  BY <1>2, <1>3

-----------------------------------------------------------------------------
(* Stamps lie in the past, locks are fresh, pulled rows are MAIN's.        *)

BaseInv == TypeOK /\ PastStamps /\ LocksFresh /\ PullFresh

\* What a step may do to the rows and the clock.
RowsGrow ==
  /\ now' \in {now, now + 1}
  /\ \A s \in Servers, k \in Keys : row'[s][k].at >= row[s][k].at /\ row'[s][k].at <= now'
  /\ \A s \in Servers, k \in Keys :
       open'[s][k] # NoRow => /\ s \in SlowServers
                              /\ open'[s][k].at > row'[s][k].at
                              /\ open'[s][k].at <= now'

LEMMA StampsTyped ==
  ASSUME TypeOK
  PROVE  /\ now \in Nat
         /\ \A s \in Servers, k \in Keys : row[s][k].at \in Nat /\ open[s][k].at \in Nat
         /\ \A l \in Locals, k \in Keys : outbox[l][k].at \in Nat /\ flight[l][k].at \in Nat
         /\ \A f \in limbo, k \in Keys : f[k].at \in Nat
         /\ \A l \in Locals : /\ lastPush[l] \in Nat /\ lastPull[l] \in Nat
                              /\ mark[l] \in Nat /\ since[l] \in Nat /\ afterId[l] \in Nat
BY DEF TypeOK, Row

\* Rows that fail leave the rest of the payload as it was.
LEMMA WithoutBounded ==
  ASSUME NEW f \in [Keys -> Row], NEW bad \in SUBSET Keys
  PROVE  /\ \A k \in Keys : Without(f, bad)[k].at <= f[k].at
         /\ \A k \in Keys \ bad : Without(f, bad)[k] = f[k]
         /\ \A k \in bad : Without(f, bad)[k] = NoRow
BY DEF Without, NoRow, Row

\* The steps in which users, MAIN and a LOCAL write rows.
LEMMA MainUpsertGrows ==
  ASSUME BaseInv, NEW f \in [Keys -> Row], \A k \in Keys : f[k].at <= now,
         UpsertAtMain(f), open' = open
  PROVE  RowsGrow
<1> USE DEF BaseInv
<1>1. \A s \in Servers : s = MAIN \/ s \in Locals
  BY DEF Servers
<1>2. now' \in {now, now + 1} /\ now \in Nat
  BY MainUpserted, StampsTyped
<1>3. \A s \in Servers, k \in Keys : row'[s][k].at >= row[s][k].at /\ row'[s][k].at <= now'
  BY <1>1, <1>2, MainUpserted, StampsTyped DEF PastStamps
<1>4. ASSUME NEW s \in Servers, NEW k \in Keys, open[s][k] # NoRow
      PROVE  row'[s][k] = row[s][k]
  BY <1>1, <1>4, MainUpserted
<1>5. QED
  BY <1>2, <1>3, <1>4, StampsTyped DEF RowsGrow, LocksFresh, PastStamps

LEMMA LocalUpsertGrows ==
  ASSUME BaseInv, NEW l \in Locals, NEW f \in [Keys -> Row], \A k \in Keys : f[k].at <= now,
         UpsertAtLocal(l, f), open' = open
  PROVE  RowsGrow
<1> USE DEF BaseInv
<1>1. l \in Servers /\ now' = now /\ now \in Nat
  BY LocalUpserted, StampsTyped DEF Servers
<1>2. ASSUME NEW s \in Servers, NEW k \in Keys
      PROVE  /\ row'[s][k].at >= row[s][k].at /\ row'[s][k].at <= now
             /\ open[s][k] # NoRow => row'[s][k] = row[s][k]
  BY <1>1, LocalUpserted, StampsTyped DEF PastStamps
<1>3. QED
  BY <1>1, <1>2, StampsTyped DEF RowsGrow, LocksFresh, PastStamps

LEMMA EditGrows ==
  ASSUME BaseInv, NEW s \in Servers, NEW k \in Keys, Edit(s, k) \/ BeginEdit(s, k) \/ EndEdit(s, k)
  PROVE  RowsGrow
<1> USE DEF BaseInv
<1>1. now \in Nat /\ row \in [Servers -> [Keys -> Row]] /\ open \in [Servers -> [Keys -> Row]]
  BY DEF TypeOK
<1>2. CASE Edit(s, k)
  <2>1. /\ now' = now + 1 /\ open' = open /\ open[s][k] = NoRow
        /\ row' = [row EXCEPT ![s][k] = NextEdit] /\ NextEdit.at = now + 1
    BY <1>2 DEF Edit, Stamp, NextEdit
  <2>2. ASSUME NEW t \in Servers, NEW j \in Keys
        PROVE  /\ row'[t][j].at >= row[t][j].at /\ row'[t][j].at <= now'
               /\ open[t][j] # NoRow => row'[t][j] = row[t][j]
    BY <1>1, <2>1, StampsTyped DEF PastStamps
  <2>3. QED
    BY <1>1, <2>1, <2>2, StampsTyped DEF RowsGrow, LocksFresh, PastStamps
<1>3. CASE BeginEdit(s, k)
  <2>1. /\ now' = now + 1 /\ row' = row /\ s \in SlowServers
        /\ open' = [open EXCEPT ![s][k] = NextEdit] /\ NextEdit.at = now + 1
    BY <1>3 DEF BeginEdit, Stamp, NextEdit
  <2>2. ASSUME NEW t \in Servers, NEW j \in Keys
        PROVE  open'[t][j] # open[t][j] => t \in SlowServers /\ open'[t][j].at = now + 1
    <3>1. CASE t = s /\ j = k
      BY <1>1, <2>1, <3>1
    <3>2. CASE ~(t = s /\ j = k)
      BY <1>1, <2>1, <3>2
    <3>3. QED
      BY <3>1, <3>2
  <2>3. QED
    BY <1>1, <2>1, <2>2, StampsTyped DEF RowsGrow, LocksFresh, PastStamps
<1>4. CASE EndEdit(s, k)
  <2>1. /\ now' = now /\ open[s][k] # NoRow
        /\ open' = [open EXCEPT ![s][k] = NoRow]
        /\ row' = row \/ row' = [row EXCEPT ![s][k] = open[s][k]]
    BY <1>4 DEF EndEdit, CommitEdit, AbortEdit
  <2>2. ASSUME NEW t \in Servers, NEW j \in Keys
        PROVE  /\ open'[t][j] \in {open[t][j], NoRow}
               /\ open'[t][j] # NoRow => row'[t][j] = row[t][j]
               /\ row'[t][j] \in {row[t][j], open[t][j]}
               /\ row'[t][j] # row[t][j] => open[t][j] # NoRow
    <3>1. CASE t = s /\ j = k
      BY <1>1, <2>1, <3>1
    <3>2. CASE ~(t = s /\ j = k)
      BY <1>1, <2>1, <3>2
    <3>3. QED
      BY <3>1, <3>2
  <2>3. ASSUME NEW t \in Servers, NEW j \in Keys
        PROVE  row'[t][j].at >= row[t][j].at /\ row'[t][j].at <= now
    BY <2>2, StampsTyped DEF LocksFresh, PastStamps
  <2>4. QED
    BY <1>1, <2>1, <2>2, <2>3, StampsTyped DEF RowsGrow, LocksFresh, PastStamps
<1>5. QED
  BY <1>2, <1>3, <1>4

\* A step that touches no row and no transaction.
LEMMA QuietGrows ==
  ASSUME BaseInv, UNCHANGED <<now, row, open>>
  PROVE  RowsGrow
BY StampsTyped DEF BaseInv, RowsGrow, LocksFresh, PastStamps

\* Whatever is sent, whole or in part, was stamped in the past.
LEMMA PayloadsPast ==
  ASSUME BaseInv
  PROVE  /\ \A l \in Locals, bad \in SUBSET Keys :
              /\ Without(outbox[l], bad) \in [Keys -> Row]
              /\ Without(flight[l], bad) \in [Keys -> Row]
              /\ \A k \in Keys : /\ Without(outbox[l], bad)[k].at <= now
                                 /\ Without(flight[l], bad)[k].at <= now
         /\ \A f \in limbo : f \in [Keys -> Row] /\ \A k \in Keys : f[k].at <= now
<1> USE DEF BaseInv
<1>1. \A l \in Locals : outbox[l] \in [Keys -> Row] /\ flight[l] \in [Keys -> Row]
  BY DEF TypeOK
<1>2. ASSUME NEW l \in Locals, NEW bad \in SUBSET Keys
      PROVE  /\ Without(outbox[l], bad) \in [Keys -> Row]
             /\ Without(flight[l], bad) \in [Keys -> Row]
  BY <1>1, RowsTyped
<1>3. ASSUME NEW l \in Locals, NEW bad \in SUBSET Keys, NEW k \in Keys
      PROVE  /\ Without(outbox[l], bad)[k].at <= now
             /\ Without(flight[l], bad)[k].at <= now
  <2>1. NoRow.at = 0
    BY DEF NoRow
  <2>2. QED
    BY <1>1, <2>1, WithoutBounded, StampsTyped DEF PastStamps
<1>4. \A f \in limbo : f \in [Keys -> Row] /\ \A k \in Keys : f[k].at <= now
  BY DEF TypeOK, PastStamps
<1>5. QED
  BY <1>2, <1>3, <1>4

\* The steps that leave rows, locks and the clock alone.
Quiet(l) ==
  \/ DrainUnanswered(l) \/ DrainUnapplied(l) \/ PushUnapplied(l) \/ PushUnanswered(l)
  \/ StartCycle(l) \/ PushMark(l) \/ PushSelect(l) \/ PushNothing(l) \/ PushClose(l)
  \/ PullMark(l) \/ PullServe(l) \/ PullFails(l) \/ Crash(l)
  \/ FullPushReset(l) \/ FullPullReset(l)

LEMMA QuietSteps ==
  ASSUME NEW l \in Locals, Quiet(l)
  PROVE  UNCHANGED <<now, row, open>>
BY DEF Quiet, DrainUnanswered, DrainUnapplied, PushUnapplied, PushUnanswered, StartCycle, PushMark,
       PushSelect, PushNothing, PushClose, PullMark, PullServe, PullFails, EndPull, Crash,
       FullPushReset, FullPullReset, Unanswered, AnsweredUnapplied, store

\* Next, sorted by what it does to the rows.
LEMMA NextSorted ==
  ASSUME [Next]_vars
  PROVE  \/ \E s \in Servers, k \in Keys : Edit(s, k) \/ BeginEdit(s, k) \/ EndEdit(s, k)
         \/ \E f \in limbo : LateArrival(f)
         \/ \E l \in Locals, bad \in SUBSET Keys :
               DrainAnswered(l, bad) \/ PushAnswered(l, bad) \/ PullApply(l, bad)
         \/ \E l \in Locals : Quiet(l)
         \/ UNCHANGED vars
BY DEF Next, Progress, Trouble, Quiet

\* Every step: stamps only grow, and a new one is of this moment.
LEMMA NextGrows ==
  ASSUME BaseInv, [Next]_vars
  PROVE  RowsGrow
<1>1. CASE \E s \in Servers, k \in Keys : Edit(s, k) \/ BeginEdit(s, k) \/ EndEdit(s, k)
  BY <1>1, EditGrows
<1>2. CASE \E f \in limbo : LateArrival(f)
  BY <1>2, PayloadsPast, MainUpsertGrows DEF LateArrival
<1>3. ASSUME NEW l \in Locals, NEW bad \in SUBSET Keys, DrainAnswered(l, bad)
      PROVE  RowsGrow
  <2>1. UpsertAtMain(Without(outbox[l], bad)) /\ open' = open
    BY <1>3 DEF DrainAnswered, Answered
  <2>2. QED
    BY <2>1, PayloadsPast, MainUpsertGrows
<1>4. ASSUME NEW l \in Locals, NEW bad \in SUBSET Keys, PushAnswered(l, bad)
      PROVE  RowsGrow
  <2>1. UpsertAtMain(Without(flight[l], bad)) /\ open' = open
    BY <1>4 DEF PushAnswered, Answered
  <2>2. QED
    BY <2>1, PayloadsPast, MainUpsertGrows
<1>5. ASSUME NEW l \in Locals, NEW bad \in SUBSET Keys, PullApply(l, bad)
      PROVE  RowsGrow
  <2>1. UpsertAtLocal(l, Without(flight[l], bad)) /\ open' = open
    BY <1>5 DEF PullApply, EndPull
  <2>2. QED
    BY <2>1, PayloadsPast, LocalUpsertGrows
<1>6. CASE \E l \in Locals : Quiet(l)
  BY <1>6, QuietSteps, QuietGrows
<1>7. CASE UNCHANGED vars
  BY <1>7, QuietGrows DEF vars, store
<1>8. QED
  BY <1>1, <1>2, <1>3, <1>4, <1>5, <1>6, <1>7, NextSorted

\* A cycle step of l, and only l.
CycleStep(l) ==
  Quiet(l) \/ \E bad \in SUBSET Keys : DrainAnswered(l, bad) \/ PushAnswered(l, bad) \/ PullApply(l, bad)

\* A cycle's step is its own LOCAL's.
LEMMA OthersStay ==
  ASSUME TypeOK, NEW l \in Locals, CycleStep(l), NEW m \in Locals \ {l}
  PROVE  /\ outbox'[m] = outbox[m] /\ flight'[m] = flight[m] /\ pc'[m] = pc[m]
         /\ since'[m] = since[m] /\ mark'[m] = mark[m] /\ afterId'[m] = afterId[m]
         /\ lastPush'[m] = lastPush[m] /\ lastPull'[m] = lastPull[m]
<1> USE DEF TypeOK, cycle, kept
<1>1. CASE \E bad \in SUBSET Keys : DrainAnswered(l, bad)
  BY <1>1 DEF DrainAnswered, EndDrain, Goto
<1>2. CASE \E bad \in SUBSET Keys : PushAnswered(l, bad)
  BY <1>2 DEF PushAnswered, NextPage, Park, Goto
<1>3. CASE \E bad \in SUBSET Keys : PullApply(l, bad)
  BY <1>3 DEF PullApply, EndPull, EndCycle, Goto
<1>4. CASE DrainUnanswered(l) \/ DrainUnapplied(l)
  BY <1>4 DEF DrainUnanswered, DrainUnapplied, EndDrain, Goto
<1>5. CASE PushUnapplied(l)
  BY <1>5 DEF PushUnapplied, NextPage, Goto
<1>6. CASE PushUnanswered(l)
  BY <1>6 DEF PushUnanswered, Park, Goto
<1>7. CASE StartCycle(l) \/ PushMark(l)
  BY <1>7 DEF StartCycle, PushMark, Goto
<1>8. CASE PushSelect(l)
  BY <1>8 DEF PushSelect, Goto
<1>9. CASE PushNothing(l) \/ PushClose(l)
  BY <1>9 DEF PushNothing, PushClose, Goto
<1>10. CASE PullMark(l) \/ PullServe(l)
  BY <1>10 DEF PullMark, PullServe, Goto
<1>11. CASE PullFails(l)
  BY <1>11 DEF PullFails, EndPull, EndCycle, Goto
<1>12. CASE Crash(l)
  BY <1>12 DEF Crash, EndCycle, Goto
<1>13. CASE FullPushReset(l) \/ FullPullReset(l)
  BY <1>13 DEF FullPushReset, FullPullReset
<1>14. QED
  BY <1>1, <1>2, <1>3, <1>4, <1>5, <1>6, <1>7, <1>8, <1>9, <1>10, <1>11, <1>12, <1>13
  DEF CycleStep, Quiet

\* Where what l's outbox, request and watermarks hold after its step comes from.
LEMMA OutboxNext ==
  ASSUME NEW l \in Locals, CycleStep(l)
  PROVE  \/ outbox' = outbox
         \/ outbox' = [outbox EXCEPT ![l] = NoRows]
         \/ pc[l] = "send" /\ Park(l)
BY DEF cycle, kept, CycleStep, Quiet, DrainAnswered, PushAnswered, PullApply, DrainUnanswered, DrainUnapplied,
       PushUnapplied, PushUnanswered, StartCycle, PushMark, PushSelect, PushNothing, PushClose,
       PullMark, PullServe, PullFails, Crash, FullPushReset, FullPullReset,
       EndDrain, EndPull

\* How a payload comes about.
LEMMA FlightNext ==
  ASSUME NEW l \in Locals, CycleStep(l)
  PROVE  \/ flight' = flight
         \/ flight' = [flight EXCEPT ![l] = NoRows]
         \/ PushSelect(l)
         \/ PullServe(l)
BY DEF cycle, kept, CycleStep, Quiet, DrainAnswered, PushAnswered, PullApply, DrainUnanswered, DrainUnapplied,
       PushUnapplied, PushUnanswered, StartCycle, PushMark, PushSelect, PushNothing, PushClose,
       PullMark, PullServe, PullFails, Crash, FullPushReset, FullPullReset,
       EndDrain, EndPull, EndCycle, NextPage

\* What a request that the sender gave up on may still carry.
LEMMA LimboNext ==
  ASSUME NEW l \in Locals, CycleStep(l)
  PROVE  \/ limbo' = limbo
         \/ limbo' = limbo \cup {outbox[l]}
         \/ pc[l] = "send" /\ limbo' = limbo \cup {flight[l]}
BY DEF CycleStep, Quiet, DrainAnswered, PushAnswered, PullApply, DrainUnanswered, DrainUnapplied,
       PushUnapplied, PushUnanswered, StartCycle, PushMark, PushSelect, PushNothing, PushClose,
       PullMark, PullServe, PullFails, Crash, FullPushReset, FullPullReset,
       EndPull, Answered, Unanswered, AnsweredUnapplied

\* How watermarks move.
LEMMA WatermarksNext ==
  ASSUME TypeOK, NEW l \in Locals, CycleStep(l)
  PROVE  /\ lastPush' = lastPush \/ FullPushReset(l) \/ PushClose(l)
         /\ lastPull' = lastPull \/ lastPull' = [lastPull EXCEPT ![l] = 0]
            \/ lastPull' = [lastPull EXCEPT ![l] = mark[l]]
         /\ mark' = mark \/ mark' = [mark EXCEPT ![l] = now] \/ mark' = [mark EXCEPT ![l] = 0]
BY DEF cycle, kept, CycleStep, Quiet, DrainAnswered, PushAnswered, PullApply, DrainUnanswered, DrainUnapplied,
       PushUnapplied, PushUnanswered, StartCycle, PushMark, PushSelect, PushNothing, PushClose,
       PullMark, PullServe, PullFails, Crash, FullPushReset, FullPullReset,
       EndDrain, EndPull, EndCycle, NextPage

\* Where each copy that a step carries was before.
LEMMA CarriersNext ==
  ASSUME TypeOK, NEW l \in Locals, CycleStep(l)
  PROVE  /\ \A k \in Keys :
              /\ \/ outbox'[l][k] = outbox[l][k]
                 \/ outbox'[l][k] = NoRow
                 \/ pc[l] = "send" /\ outbox'[l][k] = flight[l][k]
              /\ flight'[l][k] \in {flight[l][k], row[l][k], row[MAIN][k], NoRow}
         /\ limbo' \subseteq limbo \cup {outbox[l], flight[l]}
         /\ lastPush'[l] \in {lastPush[l], mark[l], 0}
         /\ lastPull'[l] \in {lastPull[l], mark[l], 0}
         /\ mark'[l] \in {mark[l], now, 0}
<1>1. ASSUME NEW k \in Keys
      PROVE  \/ outbox'[l][k] = outbox[l][k]
             \/ outbox'[l][k] = NoRow
             \/ pc[l] = "send" /\ outbox'[l][k] = flight[l][k]
  <2>1. CASE outbox' = [outbox EXCEPT ![l] = NoRows]
    BY <2>1 DEF TypeOK, NoRows
  <2>2. CASE pc[l] = "send" /\ Park(l)
    BY <2>2 DEF TypeOK, Park
  <2>3. QED
    BY <2>1, <2>2, OutboxNext
<1>2. ASSUME NEW k \in Keys
      PROVE  flight'[l][k] \in {flight[l][k], row[l][k], row[MAIN][k], NoRow}
  <2>1. CASE flight' = [flight EXCEPT ![l] = NoRows]
    BY <2>1 DEF TypeOK, NoRows
  <2>2. CASE PushSelect(l)
    BY <2>2 DEF TypeOK, PushSelect
  <2>3. CASE PullServe(l)
    BY <2>3 DEF TypeOK, PullServe
  <2>4. QED
    BY <2>1, <2>2, <2>3, FlightNext
<1>3. limbo' \subseteq limbo \cup {outbox[l], flight[l]}
  BY LimboNext
<1>4. lastPush'[l] \in {lastPush[l], mark[l], 0}
  BY WatermarksNext DEF TypeOK, FullPushReset, PushClose
<1>5. lastPull'[l] \in {lastPull[l], mark[l], 0} /\ mark'[l] \in {mark[l], now, 0}
  BY WatermarksNext DEF TypeOK
<1>6. QED
  BY <1>1, <1>2, <1>3, <1>4, <1>5

\* Users and late requests leave the cycles alone.
LEMMA UsersAndLateArrivals ==
  ASSUME \/ \E s \in Servers, k \in Keys : Edit(s, k) \/ BeginEdit(s, k) \/ EndEdit(s, k)
         \/ \E f \in limbo : LateArrival(f)
         \/ UNCHANGED vars
  PROVE  UNCHANGED <<kept, cycle>> /\ limbo' \subseteq limbo
BY DEF Edit, BeginEdit, EndEdit, CommitEdit, AbortEdit, Stamp, LateArrival, vars, kept, cycle

LEMMA PastStampsNext ==
  ASSUME BaseInv, [Next]_vars
  PROVE  PastStamps'
<1> USE DEF BaseInv
<1>1. RowsGrow /\ now \in Nat /\ MAIN \in Servers /\ Locals \subseteq Servers
  BY NextGrows, StampsTyped DEF Servers
<1>2. \A s \in Servers, k \in Keys : row'[s][k].at <= now' /\ open'[s][k].at <= now'
  <2>1. NoRow.at = 0
    BY DEF NoRow
  <2>2. QED
    BY <1>1, <2>1 DEF RowsGrow
<1>3. CASE UNCHANGED <<kept, cycle>> /\ limbo' \subseteq limbo
  BY <1>1, <1>2, <1>3, StampsTyped DEF PastStamps, RowsGrow, kept, cycle
<1>4. ASSUME NEW l \in Locals, CycleStep(l)
      PROVE  PastStamps'
  <2>1. NoRow.at = 0
    BY DEF NoRow
  <2>2. ASSUME NEW m \in Locals, NEW k \in Keys
        PROVE  outbox'[m][k].at <= now' /\ flight'[m][k].at <= now'
    <3>1. outbox[m][k].at <= now /\ flight[m][k].at <= now /\ row[m][k].at <= now /\ row[MAIN][k].at <= now
      BY <1>1 DEF PastStamps
    <3>2. /\ outbox'[m][k] \in {outbox[m][k], flight[m][k], NoRow}
          /\ flight'[m][k] \in {flight[m][k], row[m][k], row[MAIN][k], NoRow}
      BY <1>4, OthersStay, CarriersNext
    <3>3. QED
      BY <1>1, <2>1, <3>1, <3>2, StampsTyped DEF RowsGrow
  <2>3. ASSUME NEW f \in limbo', NEW k \in Keys
        PROVE  f[k].at <= now'
    <3>1. f \in limbo \/ f = outbox[l] \/ f = flight[l]
      BY <1>4, CarriersNext
    <3>2. QED
      BY <1>1, <3>1, StampsTyped DEF RowsGrow, PastStamps
  <2>4. ASSUME NEW m \in Locals
        PROVE  lastPush'[m] <= now' /\ lastPull'[m] <= now' /\ mark'[m] <= now'
    <3>1. /\ lastPush'[m] \in {lastPush[m], mark[m], 0}
          /\ lastPull'[m] \in {lastPull[m], mark[m], 0}
          /\ mark'[m] \in {mark[m], now, 0}
      BY <1>4, OthersStay, CarriersNext
    <3>2. QED
      BY <1>1, <3>1, StampsTyped DEF RowsGrow, PastStamps
  <2>5. QED
    BY <1>2, <2>2, <2>3, <2>4 DEF PastStamps
<1>5. QED
  BY <1>3, <1>4, NextSorted, UsersAndLateArrivals DEF CycleStep

\* A pull under way carries nothing newer than MAIN's copy, since those only grow.
LEMMA PullFreshNext ==
  ASSUME BaseInv, [Next]_vars
  PROVE  PullFresh'
<1> USE DEF BaseInv
<1>1. RowsGrow /\ MAIN \in Servers
  BY NextGrows DEF Servers
<1>2. SUFFICES ASSUME NEW m \in Locals, NEW k \in Keys, pc'[m] = "apply"
               PROVE  flight'[m][k].at <= row'[MAIN][k].at
  BY DEF PullFresh
<1>3. /\ row[MAIN][k].at \in Nat /\ row'[MAIN][k].at \in Nat /\ flight[m][k].at \in Nat
      /\ row'[MAIN][k].at >= row[MAIN][k].at
  BY <1>1, NextTyped, StampsTyped DEF RowsGrow, TypeOK, Row
<1>4. CASE pc[m] = "apply" /\ flight'[m] = flight[m]
  BY <1>3, <1>4 DEF PullFresh
<1>5. ASSUME NEW l \in Locals, CycleStep(l)
      PROVE  flight'[m][k].at <= row'[MAIN][k].at
  <2>1. CASE m # l
    BY <1>2, <1>4, <1>5, <2>1, OthersStay
  <2>2. CASE m = l /\ PullServe(l)
    <3>1. flight'[m][k] \in {row[MAIN][k], NoRow} /\ NoRow.at = 0
      BY <2>2 DEF PullServe, TypeOK, NoRow
    <3>2. QED
      BY <1>3, <3>1
  <2>3. CASE m = l /\ ~PullServe(l)
    <3>1. UNCHANGED <<pc, flight>>
      BY <1>2, <1>5, <2>3
      DEF CycleStep, Quiet, DrainAnswered, PushAnswered, PullApply, DrainUnanswered, DrainUnapplied,
          PushUnapplied, PushUnanswered, StartCycle, PushMark, PushSelect, PushNothing, PushClose,
          PullMark, PullFails, Crash, FullPushReset, FullPullReset, EndDrain, EndPull, EndCycle,
          NextPage, Goto, TypeOK, cycle
    <3>2. QED
      BY <1>2, <1>4, <2>3, <3>1
  <2>4. QED
    BY <2>1, <2>2, <2>3
<1>6. CASE UNCHANGED <<kept, cycle>>
  BY <1>2, <1>4, <1>6 DEF cycle
<1>7. QED
  BY <1>5, <1>6, NextSorted, UsersAndLateArrivals DEF CycleStep

LEMMA BaseNext == BaseInv /\ [Next]_vars => BaseInv'
<1> SUFFICES ASSUME BaseInv, [Next]_vars PROVE BaseInv'
  OBVIOUS
<1>1. LocksFresh'
  BY NextGrows DEF RowsGrow, LocksFresh
<1>2. QED
  BY <1>1, NextTyped, PastStampsNext, PullFreshNext DEF BaseInv

LEMMA BaseInit == Init => BaseInv
BY InitTyped, SyncConstants DEF Init, BaseInv, PastStamps, LocksFresh, PullFresh, NoRows, NoRow

-----------------------------------------------------------------------------
(* Nothing is lost behind LAST_PUSH.                                       *)

\* What the push relies on: no transaction of a factory outlives a watermark,
\* MAIN never answers for rows it did not apply, no page query fails, and a
\* request that can go unanswered is the table's last.
PushSafe ==
  /\ SlowServers \cap Locals = {}
  /\ Faults \cap {"safety_net", "query_error"} = {}
  /\ \/ \A S \in SUBSET Keys : Cardinality(S) < BatchSize
     \/ Faults \cap {"refused", "timeout"} = {}

\* NothingLost and PushAccounted, for one row of one factory.
Kept(l, k) == row[l][k].at <= lastPush[l] => Settled(l, k)
InHand(l, k) ==
  row[l][k].at <= mark[l] =>
    /\ pc[l] = "select" => Settled(l, k) \/ ToSelect(l, k)
    /\ pc[l] = "send" => Settled(l, k) \/ flight[l][k].at >= row[l][k].at \/ AfterPage(l, k)
    /\ pc[l] = "close" => Settled(l, k)

Accounted(l, k) == Kept(l, k) /\ InHand(l, k)

\* The invariant of the push, row by row.
LEMMA PushInvSplit ==
  PushInv <=> BaseInv /\ PushInFlight /\ \A k \in Keys : \A l \in Scope[k] : Accounted(l, k)
BY DEF PushInv, BaseInv, NothingLost, PushAccounted, Accounted, Kept, InHand, Settled

\* A copy MAIN has, or one stamped in this very step, is accounted for.
LEMMA SettledIsAccounted ==
  ASSUME NEW l, NEW k, Settled(l, k) PROVE Accounted(l, k)
BY DEF Accounted, Kept, InHand

\* The cycle of l stands still: its copy is as it was, on MAIN, or brand new.
LEMMA AccountedStays ==
  ASSUME BaseInv, TypeOK', RowsGrow, NEW k \in Keys, NEW l \in Locals, Accounted(l, k),
         pc'[l] = pc[l], since'[l] = since[l], mark'[l] = mark[l], afterId'[l] = afterId[l],
         flight'[l] = flight[l], lastPush'[l] = lastPush[l], outbox'[l] = outbox[l],
         row'[l][k] = row[l][k] \/ Delivered(l, k)' \/ row'[l][k].at > now
  PROVE  Accounted(l, k)'
<1> USE DEF BaseInv
<1>1. CASE Delivered(l, k)'
  BY <1>1, SettledIsAccounted DEF Settled, Accounted, Kept, InHand
<1>2. CASE row'[l][k].at > now /\ ~Delivered(l, k)'
  <2>1. mark'[l] <= now /\ lastPush'[l] <= now
    BY DEF PastStamps
  <2>2. now \in Nat /\ row'[l][k].at \in Nat /\ mark'[l] \in Nat /\ lastPush'[l] \in Nat
    BY DEF TypeOK, Row, Servers
  <2>3. ~(row'[l][k].at <= mark'[l]) /\ ~(row'[l][k].at <= lastPush'[l])
    BY <1>2, <2>1, <2>2
  <2>4. QED
    BY <2>3 DEF Accounted, Kept, InHand
<1>3. CASE row'[l][k] = row[l][k]
  <2>1. /\ row'[MAIN][k].at >= row[MAIN][k].at
        /\ row[MAIN][k].at \in Nat /\ row[l][k].at \in Nat /\ row'[MAIN][k].at \in Nat
    BY StampsTyped DEF RowsGrow, Servers, TypeOK, Row
  <2>2. Settled(l, k) => Settled(l, k)'
    BY <1>3, <2>1 DEF Settled, Delivered, Parked
  <2>3. ToSelect(l, k)' <=> ToSelect(l, k)
    BY <1>3 DEF ToSelect
  <2>4. AfterPage(l, k)' <=> AfterPage(l, k)
    BY <1>3 DEF AfterPage, Carried
  <2>5. QED
    BY <1>3, <2>2, <2>3, <2>4 DEF Accounted, Kept, InHand
<1>4. QED
  BY <1>1, <1>2, <1>3

\* A request MAIN answered: what it carried is on MAIN, but for the failed rows.
LEMMA AnswerDelivers ==
  ASSUME BaseInv, NEW f \in [Keys -> Row], \A k \in Keys : f[k].at <= now,
         NEW bad \in SUBSET Keys, Answered(f, bad)
  PROVE  \A k \in Keys \ bad : row'[MAIN][k].at >= f[k].at
<1>1. Without(f, bad) \in [Keys -> Row] /\ \A k \in Keys : Without(f, bad)[k].at <= now
  <2>1. NoRow.at = 0 /\ now \in Nat
    BY StampsTyped DEF BaseInv, NoRow
  <2>2. QED
    BY <2>1, RowsTyped, WithoutBounded
<1>2. UpsertAtMain(Without(f, bad))
  BY DEF Answered
<1>3. \A k \in Keys : row'[MAIN][k].at >= Without(f, bad)[k].at
  BY <1>1, <1>2, MainUpserted DEF BaseInv
<1>4. QED
  BY <1>3, WithoutBounded

\* Users' steps, seen from a LOCAL: nothing commits there with an old stamp.
LEMMA UserRows ==
  ASSUME BaseInv, PushSafe, NEW s \in Servers, NEW j \in Keys,
         Edit(s, j) \/ BeginEdit(s, j) \/ EndEdit(s, j), NEW l \in Locals, NEW k \in Keys
  PROVE  row'[l][k] = row[l][k] \/ row'[l][k].at > now
<1> USE DEF BaseInv
<1>1. row \in [Servers -> [Keys -> Row]] /\ l \in Servers /\ now \in Nat
  BY DEF TypeOK, Servers
<1>2. CASE Edit(s, j)
  <2>1. row' = [row EXCEPT ![s][j] = NextEdit] /\ NextEdit.at = now + 1
    BY <1>2 DEF Edit, NextEdit
  <2>2. CASE l = s /\ k = j
    BY <1>1, <2>1, <2>2
  <2>3. CASE ~(l = s /\ k = j)
    BY <1>1, <2>1, <2>3
  <2>4. QED
    BY <2>2, <2>3
<1>3. CASE BeginEdit(s, j)
  BY <1>3 DEF BeginEdit
<1>4. CASE EndEdit(s, j)
  <2>1. open[s][j] # NoRow /\ (row' = row \/ row' = [row EXCEPT ![s][j] = open[s][j]])
    BY <1>4 DEF EndEdit, CommitEdit, AbortEdit
  <2>2. s # l
    BY <2>1 DEF LocksFresh, PushSafe
  <2>3. QED
    BY <1>1, <2>1, <2>2
<1>5. QED
  BY <1>2, <1>3, <1>4

\* The steps of l that end or begin a drain, a push, a pull.
LEMMA DrainAccounted ==
  ASSUME BaseInv, TypeOK', RowsGrow, PushSafe, NEW l \in Locals, NEW k \in Keys, Accounted(l, k),
         \/ \E bad \in SUBSET Keys : DrainAnswered(l, bad)
         \/ DrainUnanswered(l)
         \/ DrainUnapplied(l)
  PROVE  Accounted(l, k)'
<1> USE DEF BaseInv
<1>1. /\ pc[l] = "drain" /\ pc'[l] = "mark" /\ lastPush'[l] = lastPush[l]
      /\ row'[l][k] = row[l][k]
  <2>1. row'[l] = row[l]
    <3>1. ASSUME NEW bad \in SUBSET Keys, DrainAnswered(l, bad)
          PROVE  row'[l] = row[l]
      BY <3>1, PayloadsPast, MainUpserted DEF DrainAnswered, Answered
    <3>2. QED
      BY <3>1, QuietSteps DEF Quiet
  <2>2. EndDrain(l, TRUE) \/ EndDrain(l, FALSE)
    BY DEF DrainAnswered, DrainUnanswered, DrainUnapplied
  <2>3. QED
    BY <2>1, <2>2 DEF EndDrain, Goto, TypeOK
<1>2. row[MAIN][k].at \in Nat /\ row[l][k].at \in Nat /\ outbox[l][k].at \in Nat
      /\ row'[MAIN][k].at \in Nat /\ row'[MAIN][k].at >= row[MAIN][k].at
  BY DEF TypeOK, Row, Servers, RowsGrow
<1>3. CASE outbox'[l] = outbox[l]
  <2>1. Settled(l, k) => Settled(l, k)'
    BY <1>1, <1>2, <1>3 DEF Settled, Delivered, Parked
  <2>2. QED
    BY <1>1, <2>1 DEF Accounted, Kept, InHand
<1>4. CASE DrainAnswered(l, {})
  <2>1. row'[MAIN][k].at >= outbox[l][k].at
    <3>1. outbox[l] \in [Keys -> Row] /\ \A j \in Keys : outbox[l][j].at <= now
      BY DEF TypeOK, PastStamps
    <3>2. QED
      BY <1>4, <3>1, AnswerDelivers DEF DrainAnswered
  <2>2. Settled(l, k) => Settled(l, k)'
    BY <1>1, <1>2, <2>1 DEF Settled, Delivered, Parked
  <2>3. QED
    BY <1>1, <2>2 DEF Accounted, Kept, InHand
<1>5. QED
  BY <1>3, <1>4 DEF DrainAnswered, DrainUnanswered, DrainUnapplied, EndDrain, AnsweredUnapplied,
                    Fault, PushSafe

\* The page query: a row due is in the request or on a later page.
LEMMA SelectAccounted ==
  ASSUME BaseInv, NEW l \in Locals, NEW k \in Keys, l \in Scope[k], Accounted(l, k), PushSelect(l)
  PROVE  Accounted(l, k)'
<1> USE DEF BaseInv
<1>1. PICK B \in Page(Due(l)) :
        flight' = [flight EXCEPT ![l] = [j \in Keys |-> IF j \in B THEN row[l][j] ELSE NoRow]]
  BY DEF PushSelect
<1>2. /\ pc[l] = "select" /\ pc'[l] = "send"
      /\ UNCHANGED <<row, outbox, lastPush, since, mark, afterId>>
  BY DEF PushSelect, Goto, TypeOK, store, kept
<1>3. flight'[l] = [j \in Keys |-> IF j \in B THEN row[l][j] ELSE NoRow]
  BY <1>1 DEF TypeOK
<1>4. \A j \in Keys : row[l][j].at \in Nat /\ since[l] \in Nat
  BY DEF TypeOK, Row, Servers
<1>5. B \subseteq Due(l) /\ Due(l) \subseteq Keys
  BY DEF Page, Due
<1>6. Settled(l, k) => Settled(l, k)'
  BY <1>2 DEF Settled, Delivered, Parked
<1>7. CASE Settled(l, k)
  BY <1>6, <1>7, SettledIsAccounted DEF Settled, Accounted, Kept, InHand
<1>8. CASE k \in B
  <2>1. flight'[l][k] = row[l][k] /\ row' = row
    BY <1>2, <1>3, <1>8
  <2>2. QED
    BY <1>2, <1>4, <1>6, <2>1 DEF Accounted, Kept, InHand
<1>9. CASE k \notin B /\ ToSelect(l, k)
  <2>1. k \in Due(l)
    BY <1>9 DEF ToSelect, Due
  <2>2. Cardinality(B) = BatchSize /\ \A j \in B : j < k
    <3>1. \A j \in B : j \in Nat /\ k \in Nat /\ j # k
      BY <1>5, <1>9, SyncConstants
    <3>2. \A j \in B : ~(k < j)
      BY <1>9, <2>1 DEF Page
    <3>3. Cardinality(B) = BatchSize
      BY <1>9, <2>1 DEF Page
    <3>4. QED
      BY <3>1, <3>2, <3>3
  <2>3. Carried(flight'[l]) = B
    <3>1. \A j \in B : row[l][j].at > 0
      BY <1>4, <1>5 DEF Due
    <3>2. NoRow.at = 0
      BY DEF NoRow
    <3>3. QED
      BY <1>3, <1>5, <3>1, <3>2 DEF Carried
  <2>4. AfterPage(l, k)'
    BY <1>2, <1>9, <2>2, <2>3 DEF AfterPage, ToSelect, Carried
  <2>5. QED
    BY <1>2, <1>6, <2>4 DEF Accounted, Kept, InHand
<1>10. CASE ~(row[l][k].at <= mark[l])
  BY <1>2, <1>6, <1>10 DEF Accounted, Kept, InHand
<1>11. QED
  BY <1>2, <1>7, <1>8, <1>9, <1>10 DEF Accounted, InHand

\* A cycle of l writes no other factory's rows, and writes its own only when it
\* applies a pull.
LEMMA OtherRowsStay ==
  ASSUME BaseInv, NEW l \in Locals, CycleStep(l), NEW m \in Locals,
         m # l \/ \A bad \in SUBSET Keys : ~PullApply(l, bad)
  PROVE  row'[m] = row[m]
<1> USE DEF BaseInv
<1>1. ASSUME NEW bad \in SUBSET Keys, DrainAnswered(l, bad)
      PROVE  row'[m] = row[m]
  BY <1>1, PayloadsPast, MainUpserted DEF DrainAnswered, Answered
<1>2. ASSUME NEW bad \in SUBSET Keys, PushAnswered(l, bad)
      PROVE  row'[m] = row[m]
  BY <1>2, PayloadsPast, MainUpserted DEF PushAnswered, Answered
<1>3. ASSUME NEW bad \in SUBSET Keys, PullApply(l, bad)
      PROVE  row'[m] = row[m]
  BY <1>3, PayloadsPast, LocalUpserted DEF PullApply, Servers
<1>4. QED
  BY <1>1, <1>2, <1>3, QuietSteps DEF CycleStep

\* PushInFlight, for one factory and one row of its.
Ahead(l) == pc[l] \in {"select", "send", "close"} => lastPush[l] <= mark[l]
Current(l, k) ==
  pc[l] = "send" /\ flight[l][k].at > 0 /\ row[l][k].at <= mark[l]
    => flight[l][k].at >= row[l][k].at

\* No cycle step but PushSelect and PushMark touches what PushInFlight is about
\* without leaving the phases it speaks of.
LEMMA PushInFlightNext ==
  ASSUME BaseInv, TypeOK', RowsGrow, PushSafe, PushInFlight, [Next]_vars
  PROVE  PushInFlight'
<1> USE DEF BaseInv
<1> USE DEF Ahead, Current
<1>1. \A l \in Locals : Ahead(l) /\ \A k \in Keys : Current(l, k)
  BY DEF PushInFlight
<1> SUFFICES \A l \in Locals : Ahead(l)' /\ \A k \in Keys : Current(l, k)'
  BY DEF PushInFlight
<1>2. /\ now \in Nat
      /\ \A l \in Locals : /\ mark[l] \in Nat /\ mark[l] <= now
                           /\ lastPush[l] \in Nat /\ lastPush[l] <= now
      /\ \A l \in Locals, k \in Keys :
           row[l][k].at \in Nat /\ row'[l][k].at \in Nat /\ flight[l][k].at \in Nat
  BY DEF TypeOK, Row, Servers, PastStamps
<1>3. ASSUME NEW l \in Locals, UNCHANGED <<pc[l], lastPush[l], mark[l], flight[l]>>,
             \A k \in Keys : row'[l][k] = row[l][k] \/ row'[l][k].at > now
      PROVE  Ahead(l)' /\ \A k \in Keys : Current(l, k)'
  BY <1>1, <1>2, <1>3
<1>4. ASSUME NEW s \in Servers, NEW j \in Keys, Edit(s, j) \/ BeginEdit(s, j) \/ EndEdit(s, j)
      PROVE  \A l \in Locals : Ahead(l)' /\ \A k \in Keys : Current(l, k)'
  <2>1. UNCHANGED <<kept, cycle>>
    BY <1>4, UsersAndLateArrivals
  <2>2. ASSUME NEW l \in Locals, NEW k \in Keys
        PROVE  row'[l][k] = row[l][k] \/ row'[l][k].at > now
    BY <1>4, UserRows
  <2>3. QED
    BY <1>1, <1>3, <2>1, <2>2 DEF kept, cycle
<1>5. ASSUME NEW f \in limbo, LateArrival(f)
      PROVE  \A l \in Locals : Ahead(l)' /\ \A k \in Keys : Current(l, k)'
  <2>1. UNCHANGED <<kept, cycle>>
    BY <1>5, UsersAndLateArrivals
  <2>2. \A l \in Locals : row'[l] = row[l]
    BY <1>5, PayloadsPast, MainUpserted DEF LateArrival
  <2>3. QED
    BY <1>1, <1>3, <2>1, <2>2 DEF kept, cycle
<1>6. ASSUME NEW l \in Locals, CycleStep(l), NEW m \in Locals
      PROVE  Ahead(m)' /\ \A k \in Keys : Current(m, k)'
  <2>1. CASE m # l
    <3>1. row'[m] = row[m]
      BY <1>6, <2>1, OtherRowsStay
    <3>2. UNCHANGED <<pc[m], lastPush[m], mark[m], flight[m]>>
      BY <1>6, <2>1, OthersStay
    <3>3. QED
      BY <1>3, <3>1, <3>2
  <2>2. CASE m = l /\ (\E bad \in SUBSET Keys : DrainAnswered(l, bad) \/ PullApply(l, bad))
    BY <2>2 DEF DrainAnswered, EndDrain, PullApply, EndPull, EndCycle, Goto, TypeOK
  <2>3. CASE m = l /\ (\/ DrainUnanswered(l) \/ DrainUnapplied(l) \/ StartCycle(l) \/ PushClose(l)
                       \/ PullMark(l) \/ PullServe(l) \/ PullFails(l) \/ Crash(l))
    BY <2>3 DEF DrainUnanswered, DrainUnapplied, EndDrain, StartCycle, PushClose, PullMark, PullServe,
                PullFails, EndPull, Crash, EndCycle, Goto, TypeOK
  <2>4. CASE m = l /\ PushMark(l)
    <3>1. pc'[l] = "select" /\ mark'[l] = now /\ lastPush'[l] = lastPush[l]
      BY <2>4 DEF PushMark, Goto, TypeOK, kept
    <3>2. QED
      BY <1>2, <2>4, <3>1
  <2>5. CASE m = l /\ PushSelect(l)
    <3>1. pc[l] = "select" /\ pc'[l] = "send" /\ UNCHANGED <<row, lastPush, mark>>
      BY <2>5 DEF PushSelect, Goto, TypeOK, kept, store
    <3>2. \A k \in Keys : flight'[l][k] = row[l][k] \/ flight'[l][k] = NoRow
      BY <2>5 DEF PushSelect, TypeOK
    <3>3. NoRow.at = 0
      BY DEF NoRow
    <3>4. QED
      BY <1>1, <1>2, <2>5, <3>1, <3>2, <3>3
  <2>6. CASE m = l /\ (\/ \E bad \in SUBSET Keys : PushAnswered(l, bad)
                       \/ PushUnapplied(l) \/ PushUnanswered(l) \/ PushNothing(l))
    <3>1. /\ pc[l] \in {"select", "send"} /\ pc'[l] \in {"select", "close"}
          /\ lastPush'[l] = lastPush[l] /\ mark'[l] = mark[l]
      BY <2>6 DEF PushAnswered, PushUnapplied, PushUnanswered, PushNothing, NextPage, Goto, TypeOK, kept
    <3>2. QED
      BY <1>1, <2>6, <3>1
  <2>7. CASE m = l /\ (FullPushReset(l) \/ FullPullReset(l))
    <3>1. /\ lastPush'[l] \in {0, lastPush[l]} /\ row' = row
          /\ pc' = pc /\ mark' = mark /\ flight' = flight
      BY <2>7 DEF FullPushReset, FullPullReset, TypeOK, store, cycle
    <3>2. QED
      BY <1>1, <1>2, <2>7, <3>1
  <2>8. QED
    BY <1>6, <2>1, <2>2, <2>3, <2>4, <2>5, <2>6, <2>7 DEF CycleStep, Quiet
<1>7. CASE UNCHANGED vars
  BY <1>1, <1>3, <1>7 DEF vars, store, kept, cycle
<1>8. QED
  BY <1>1, <1>4, <1>5, <1>6, <1>7, NextSorted DEF CycleStep

\* After a page that was answered: carried rows are on MAIN or parked, later
\* ones come with the next page.
LEMMA PageAnswered ==
  ASSUME BaseInv, TypeOK', RowsGrow, PushInFlight, NEW l \in Locals, NEW k \in Keys, Accounted(l, k),
         NEW bad \in SUBSET Keys, PushAnswered(l, bad)
  PROVE  Accounted(l, k)'
<1> USE DEF BaseInv
<1>1. /\ pc[l] = "send" /\ lastPush' = lastPush /\ mark' = mark /\ since' = since
      /\ flight[l] \in [Keys -> Row] /\ \A j \in Keys : flight[l][j].at <= now
      /\ row'[l] = row[l]
  <2>1. row'[l] = row[l]
    BY PayloadsPast, MainUpserted DEF PushAnswered, Answered
  <2>2. QED
    BY <2>1 DEF PushAnswered, NextPage, TypeOK, PastStamps
<1>2. /\ row[MAIN][k].at \in Nat /\ row[l][k].at \in Nat /\ outbox[l][k].at \in Nat
      /\ flight[l][k].at \in Nat /\ row'[MAIN][k].at \in Nat
      /\ row'[MAIN][k].at >= row[MAIN][k].at
      /\ lastPush[l] \in Nat /\ mark[l] \in Nat /\ lastPush[l] <= mark[l]
  BY <1>1 DEF TypeOK, Row, Servers, RowsGrow, PushInFlight
<1>3. CASE row[l][k].at > mark[l]
  <2>1. ~(row'[l][k].at <= mark'[l]) /\ ~(row'[l][k].at <= lastPush'[l])
    BY <1>1, <1>2, <1>3
  <2>2. QED
    BY <2>1 DEF Accounted, Kept, InHand
<1>4. CASE flight[l][k].at >= row[l][k].at
  <2>1. k \notin bad => row'[MAIN][k].at >= flight[l][k].at
    BY <1>1, AnswerDelivers DEF PushAnswered
  <2>2. k \in bad => outbox'[l][k] = flight[l][k]
    BY DEF PushAnswered, Answered, Park, TypeOK
  <2>3. Settled(l, k)'
    BY <1>1, <1>2, <1>4, <2>1, <2>2 DEF Settled, Delivered, Parked
  <2>4. QED
    BY <2>3 DEF Settled, Accounted, Kept, InHand
<1>5. CASE row[l][k].at <= mark[l] /\ ~(flight[l][k].at >= row[l][k].at)
  <2>1. k \notin Carried(flight[l])
    BY <1>1, <1>5 DEF Carried, PushInFlight
  <2>2. outbox'[l][k] = outbox[l][k]
    <3>1. Park(l) => outbox'[l][k] = IF k \in Carried(flight[l]) THEN flight[l][k] ELSE outbox[l][k]
      BY DEF Park, TypeOK
    <3>2. QED
      BY <2>1, <3>1 DEF PushAnswered
  <2>3. CASE Settled(l, k)
    <3>1. Settled(l, k)'
      BY <1>1, <1>2, <2>2, <2>3 DEF Settled, Delivered, Parked
    <3>2. QED
      BY <3>1 DEF Settled, Accounted, Kept, InHand
  <2>4. CASE AfterPage(l, k) /\ ~Settled(l, k)
    <3>1. PICK last \in Carried(flight[l]) :
            pc'[l] = "select" /\ afterId'[l] = last
      BY <2>4, SyncConstants DEF AfterPage, PushAnswered, NextPage, Goto, TypeOK
    <3>2. ToSelect(l, k)'
      BY <1>1, <2>4, <3>1, SyncConstants DEF AfterPage, ToSelect, Carried
    <3>3. ~(row'[l][k].at <= lastPush'[l])
      BY <1>1, <2>4 DEF Accounted, Kept
    <3>4. QED
      BY <3>1, <3>2, <3>3 DEF Accounted, Kept, InHand
  <2>5. QED
    BY <1>1, <1>5, <2>3, <2>4 DEF Accounted, InHand
<1>6. QED
  BY <1>2, <1>3, <1>4, <1>5

\* A request that went unanswered: its page, the table's last, is parked.
LEMMA PageUnanswered ==
  ASSUME BaseInv, PushInFlight, PushSafe, NEW l \in Locals, NEW k \in Keys, Accounted(l, k),
         PushUnanswered(l)
  PROVE  Accounted(l, k)'
<1> USE DEF BaseInv
<1>1. /\ pc[l] = "send" /\ pc'[l] = "close"
      /\ UNCHANGED <<row, lastPush, mark>>
  BY QuietSteps DEF PushUnanswered, Goto, TypeOK, Quiet
<1>2. outbox'[l][k] = IF k \in Carried(flight[l]) THEN flight[l][k] ELSE outbox[l][k]
  BY DEF PushUnanswered, Park, TypeOK
<1>3. /\ row[l][k].at \in Nat /\ flight[l][k].at \in Nat /\ outbox[l][k].at \in Nat
      /\ row[MAIN][k].at \in Nat /\ lastPush[l] \in Nat /\ mark[l] \in Nat
      /\ lastPush[l] <= mark[l]
  BY <1>1 DEF TypeOK, Row, Servers, PushInFlight
<1>4. CASE row[l][k].at > mark[l]
  <2>1. ~(row'[l][k].at <= mark'[l]) /\ ~(row'[l][k].at <= lastPush'[l])
    BY <1>1, <1>3, <1>4
  <2>2. QED
    BY <2>1 DEF Accounted, Kept, InHand
<1>5. CASE row[l][k].at <= mark[l]
  <2>1. ~AfterPage(l, k)
    <3>1. Faults \cap {"refused", "timeout"} # {}
      BY DEF PushUnanswered, Unanswered, Fault
    <3>2. Cardinality(Carried(flight[l])) < BatchSize
      BY <3>1 DEF PushSafe, Carried
    <3>3. QED
      BY <3>2, SyncConstants DEF AfterPage
  <2>2. Settled(l, k) \/ flight[l][k].at >= row[l][k].at
    BY <1>1, <1>5, <2>1 DEF Accounted, InHand
  <2>3. Settled(l, k)'
    BY <1>1, <1>2, <1>3, <1>5, <2>2 DEF Settled, Delivered, Parked, Carried, PushInFlight
  <2>4. QED
    BY <2>3 DEF Settled, Accounted, Kept, InHand
<1>6. QED
  BY <1>3, <1>4, <1>5

\* The steps in which a cycle of l takes a watermark, or ends with none to take.
LEMMA MarksAccounted ==
  ASSUME BaseInv, PushSafe, NEW l \in Locals, NEW k \in Keys, l \in Scope[k], Accounted(l, k),
         \/ PushMark(l) \/ PushNothing(l) \/ PushClose(l)
         \/ StartCycle(l) \/ PullMark(l) \/ PullServe(l) \/ PullFails(l) \/ Crash(l)
         \/ FullPushReset(l) \/ FullPullReset(l)
  PROVE  Accounted(l, k)'
<1> USE DEF BaseInv
<1>1. row' = row /\ outbox' = outbox
  BY QuietSteps DEF Quiet, PushMark, PushNothing, PushClose, StartCycle, PullMark, PullServe, PullFails,
                    EndPull, Crash, FullPushReset, FullPullReset, kept
<1>2. Settled(l, k) => Settled(l, k)'
  BY <1>1 DEF Settled, Delivered, Parked
<1>3. /\ row[l][k].at \in Nat /\ row[MAIN][k].at \in Nat /\ lastPush[l] \in Nat /\ k \in Nat \ {0}
      /\ row[l][k].at <= 0 => Settled(l, k)
  <2>1. row[l][k].at \in Nat /\ row[MAIN][k].at \in Nat
    BY DEF TypeOK, Row, Servers
  <2>2. QED
    BY <2>1, SyncConstants DEF TypeOK, Settled, Delivered
<1>4. CASE PushMark(l)
  <2>1. /\ pc'[l] = "select" /\ lastPush' = lastPush
        /\ since'[l] = lastPush[l] /\ afterId'[l] = 0
    BY <1>4 DEF PushMark, Goto, TypeOK, kept
  <2>2. CASE row[l][k].at <= lastPush[l]
    BY <1>2, <2>2, SettledIsAccounted DEF Settled, Accounted, Kept, InHand
  <2>3. CASE ~(row[l][k].at <= lastPush[l])
    <3>1. ToSelect(l, k)'
      BY <1>1, <1>3, <2>1, <2>3 DEF ToSelect
    <3>2. QED
      BY <1>1, <2>1, <2>3, <3>1 DEF Accounted, Kept, InHand
  <2>4. QED
    BY <2>2, <2>3
<1>5. CASE PushNothing(l)
  <2>1. /\ pc[l] = "select" /\ pc'[l] = "close" /\ UNCHANGED <<lastPush, mark>>
        /\ Due(l) = {}
    BY <1>5 DEF PushNothing, Fault, PushSafe, Goto, TypeOK, kept
  <2>2. ~ToSelect(l, k)
    BY <2>1 DEF Due, ToSelect
  <2>3. QED
    BY <1>1, <1>2, <2>1, <2>2 DEF Accounted, Kept, InHand
<1>6. CASE PushClose(l)
  <2>1. pc[l] = "close" /\ pc'[l] = "pull" /\ lastPush'[l] = mark[l]
    BY <1>6 DEF PushClose, Goto, TypeOK
  <2>2. QED
    BY <1>1, <1>2, <2>1 DEF Accounted, Kept, InHand
<1>7. CASE StartCycle(l) \/ PullMark(l) \/ PullServe(l) \/ PullFails(l) \/ Crash(l)
  <2>1. pc'[l] \in {"drain", "ask", "apply", "idle"} /\ lastPush' = lastPush
    BY <1>7 DEF StartCycle, PullMark, PullServe, PullFails, EndPull, Crash, EndCycle, Goto, TypeOK, kept
  <2>2. QED
    BY <1>1, <1>2, <2>1 DEF Accounted, Kept, InHand
<1>8. CASE FullPushReset(l) \/ FullPullReset(l)
  <2>1. lastPush'[l] \in {0, lastPush[l]} /\ UNCHANGED cycle
    BY <1>8 DEF FullPushReset, FullPullReset, TypeOK
  <2>2. InHand(l, k)'
    <3>1. ToSelect(l, k)' <=> ToSelect(l, k)
      BY <1>1, <2>1 DEF ToSelect, cycle
    <3>2. AfterPage(l, k)' <=> AfterPage(l, k)
      BY <1>1, <2>1 DEF AfterPage, cycle, Carried
    <3>3. QED
      BY <1>1, <1>2, <2>1, <3>1, <3>2 DEF Accounted, InHand, cycle
  <2>3. Kept(l, k)'
    BY <1>1, <1>2, <1>3, <2>1 DEF Accounted, Kept
  <2>4. QED
    BY <2>2, <2>3 DEF Accounted
<1>9. QED
  BY <1>4, <1>5, <1>6, <1>7, <1>8

\* A pulled row that replaces the LOCAL's copy is no newer than MAIN's.
LEMMA PullAppliedAccounted ==
  ASSUME BaseInv, TypeOK', NEW l \in Locals, NEW k \in Keys, Accounted(l, k),
         NEW bad \in SUBSET Keys, PullApply(l, bad)
  PROVE  Accounted(l, k)'
<1> USE DEF BaseInv
<1>1. /\ pc[l] = "apply" /\ pc'[l] = "idle"
      /\ lastPush' = lastPush /\ outbox' = outbox
  BY DEF PullApply, EndPull, EndCycle, Goto, TypeOK
<1>2. Without(flight[l], bad) \in [Keys -> Row]
  BY PayloadsPast
<1>3. /\ row'[l][k] \in {row[l][k], Without(flight[l], bad)[k]}
      /\ row'[MAIN] = row[MAIN]
  BY <1>2, LocalUpserted, SyncConstants DEF PullApply, Servers
<1>4. CASE row'[l][k] = row[l][k]
  <2>1. Settled(l, k) => Settled(l, k)'
    BY <1>1, <1>3, <1>4 DEF Settled, Delivered, Parked
  <2>2. QED
    BY <1>1, <1>4, <2>1 DEF Accounted, Kept, InHand
<1>5. CASE row'[l][k] = Without(flight[l], bad)[k]
  <2>1. Without(flight[l], bad)[k].at <= flight[l][k].at /\ flight[l][k].at <= row[MAIN][k].at
    BY <1>1, WithoutBounded DEF TypeOK, PullFresh
  <2>2. /\ Without(flight[l], bad)[k].at \in Nat /\ flight[l][k].at \in Nat
        /\ row[MAIN][k].at \in Nat
    BY <1>2 DEF TypeOK, Row, Servers
  <2>3. Delivered(l, k)'
    BY <1>3, <1>5, <2>1, <2>2 DEF Delivered
  <2>4. QED
    BY <2>3 DEF Settled, Accounted, Kept, InHand
<1>6. QED
  BY <1>3, <1>4, <1>5

\* No step of anybody leaves a row unaccounted for.
LEMMA AccountedNext ==
  ASSUME BaseInv, BaseInv', RowsGrow, PushSafe, PushInFlight, [Next]_vars,
         NEW k \in Keys, NEW l \in Scope[k], Accounted(l, k)
  PROVE  Accounted(l, k)'
<1>1. l \in Locals /\ TypeOK'
  BY SyncConstants DEF BaseInv
<1>2. ASSUME NEW s \in Servers, NEW j \in Keys, Edit(s, j) \/ BeginEdit(s, j) \/ EndEdit(s, j)
      PROVE  Accounted(l, k)'
  <2>1. UNCHANGED <<kept, cycle>> /\ (row'[l][k] = row[l][k] \/ row'[l][k].at > now)
    BY <1>1, <1>2, UsersAndLateArrivals, UserRows
  <2>2. QED
    BY <1>1, <2>1, AccountedStays DEF kept, cycle
<1>3. ASSUME NEW f \in limbo, LateArrival(f)
      PROVE  Accounted(l, k)'
  <2>1. UNCHANGED <<kept, cycle>> /\ row'[l] = row[l]
    BY <1>1, <1>3, UsersAndLateArrivals, PayloadsPast, MainUpserted DEF LateArrival, BaseInv
  <2>2. QED
    BY <1>1, <2>1, AccountedStays DEF kept, cycle
<1>4. ASSUME NEW m \in Locals \ {l}, CycleStep(m)
      PROVE  Accounted(l, k)'
  <2>1. row'[l] = row[l]
    BY <1>1, <1>4, OtherRowsStay
  <2>2. QED
    BY <1>1, <1>4, <2>1, OthersStay, AccountedStays DEF BaseInv
<1>5. ASSUME CycleStep(l)
      PROVE  Accounted(l, k)'
  <2>1. ~PushUnapplied(l)
    BY DEF PushUnapplied, AnsweredUnapplied, Fault, PushSafe
  <2>2. QED
    BY <1>1, <1>5, <2>1, DrainAccounted, SelectAccounted, PageAnswered, PageUnanswered, MarksAccounted,
       PullAppliedAccounted DEF CycleStep, Quiet
<1>6. CASE UNCHANGED vars
  BY <1>1, <1>6, AccountedStays DEF vars, store, kept, cycle
<1>7. QED
  BY <1>2, <1>3, <1>4, <1>5, <1>6, NextSorted DEF CycleStep

LEMMA PushInit == Init => PushInv
<1> SUFFICES ASSUME Init PROVE PushInv
  OBVIOUS
<1>1. BaseInv
  BY BaseInit
<1>2. PushInFlight
  BY DEF Init, PushInFlight
<1>3. \A k \in Keys : \A l \in Scope[k] : Accounted(l, k)
  <2>1. \A k \in Keys : \A l \in Scope[k] : row[l][k] = NoRow /\ row[MAIN][k] = NoRow
    BY SyncConstants DEF Init, Servers, NoRows
  <2>2. QED
    BY <2>1, SettledIsAccounted DEF Settled, Delivered, NoRow
<1>4. QED
  BY <1>1, <1>2, <1>3, PushInvSplit

LEMMA PushNext == PushSafe /\ PushInv /\ [Next]_vars => PushInv'
<1> SUFFICES ASSUME PushSafe, PushInv, [Next]_vars PROVE PushInv'
  OBVIOUS
<1>1. BaseInv /\ PushInFlight /\ \A k \in Keys : \A l \in Scope[k] : Accounted(l, k)
  BY PushInvSplit
<1>2. BaseInv' /\ RowsGrow
  BY <1>1, BaseNext, NextGrows
<1>3. PushInFlight'
  BY <1>1, <1>2, PushInFlightNext DEF BaseInv
<1>4. \A k \in Keys : \A l \in Scope[k] : Accounted(l, k)'
  BY <1>1, <1>2, AccountedNext
<1>5. NothingLost'
  BY <1>4 DEF NothingLost, Accounted, Kept, Settled
<1>6. PushAccounted'
  BY <1>4 DEF PushAccounted, Accounted, InHand
<1>7. QED
  BY <1>2, <1>3, <1>5, <1>6 DEF PushInv, BaseInv

\* However many factories and rows there are: what LAST_PUSH has moved past is
\* on MAIN or in the outbox, if the push can rely on PushSafe.
THEOREM NoRowLost == PushSafe => (Spec => []NothingLost)
<1>1. PushInv => NothingLost
  BY DEF PushInv
<1>2. ASSUME PushSafe
      PROVE  Spec => []NothingLost
  <2>1. PushInv /\ [Next]_vars => PushInv'
    BY <1>2, PushNext
  <2>2. QED
    BY <1>1, <2>1, PushInit, PTL DEF Spec
<1>3. QED
  BY <1>2

-----------------------------------------------------------------------------
(* How a copy of a row can change.                                         *)

\* The payloads MAIN may yet apply.
Sent == limbo \cup {outbox[l] : l \in Locals} \cup {flight[l] : l \in {m \in Locals : pc[m] = "send"}}

LEMMA SentTyped ==
  ASSUME BaseInv, NEW f \in Sent
  PROVE  f \in [Keys -> Row] /\ \A k \in Keys : f[k].at <= now
BY DEF Sent, BaseInv, TypeOK, PastStamps

\* A row of MAIN that a request changes is older than the request's.
LEMMA SentUpserts ==
  ASSUME BaseInv, NEW f \in Sent, NEW bad \in SUBSET Keys, NEW k \in Keys,
         UpsertAtMain(Without(f, bad)), row'[MAIN][k] # row[MAIN][k]
  PROVE  /\ f[k].at > row[MAIN][k].at
         /\ row'[MAIN][k].ver = f[k].ver
         /\ \/ row'[MAIN][k] = f[k]
            \/ row'[MAIN][k].at = now + 1 /\ now' = now + 1
<1> DEFINE g == Without(f, bad)
<1>1. g \in [Keys -> Row] /\ \A j \in Keys : g[j].at <= now
  <2>1. NoRow.at = 0 /\ now \in Nat
    BY StampsTyped DEF BaseInv, NoRow
  <2>2. QED
    BY <2>1, SentTyped, RowsTyped, WithoutBounded
<1>2. UpsertAtMain(g)
  OBVIOUS
<1> HIDE DEF g
<1>3. /\ g[k].at > row[MAIN][k].at
      /\ row'[MAIN][k].ver = g[k].ver
      /\ \/ row'[MAIN][k] = g[k]
         \/ row'[MAIN][k].at = now + 1 /\ now' = now + 1
  BY <1>1, <1>2, MainUpserted DEF BaseInv
<1>4. g[k] = f[k]
  <2>1. row[MAIN][k].at \in Nat /\ NoRow.at = 0
    BY StampsTyped DEF BaseInv, NoRow, Servers
  <2>2. k \notin bad
    BY <1>3, <2>1, SentTyped, WithoutBounded DEF g
  <2>3. QED
    BY <2>2, SentTyped, WithoutBounded DEF g
<1>5. QED
  BY <1>3, <1>4

\* Without anything failed the payload is applied as it is.
LEMMA WithoutNothing ==
  ASSUME NEW f \in [Keys -> Row] PROVE Without(f, {}) = f
BY DEF Without

\* MAIN's row changes by an edit made there, by a transaction that commits, or by
\* a request that carries a newer row.
LEMMA MainRowNext ==
  ASSUME BaseInv, [Next]_vars, NEW k \in Keys, row'[MAIN][k] # row[MAIN][k]
  PROVE  \/ row'[MAIN][k] = NextEdit /\ edits' = edits + 1
         \/ /\ row'[MAIN][k] = open[MAIN][k] /\ open[MAIN][k] # NoRow
            /\ open[MAIN][k].at + Overlap > now
         \/ \E f \in Sent :
              /\ f[k].at > row[MAIN][k].at
              /\ row'[MAIN][k].ver = f[k].ver
              /\ \/ row'[MAIN][k] = f[k]
                 \/ row'[MAIN][k].at = now + 1 /\ now' = now + 1
<1> USE DEF BaseInv
<1>1. /\ row \in [Servers -> [Keys -> Row]] /\ MAIN \in Servers
      /\ \A l \in Locals : outbox[l] \in Sent /\ (pc[l] = "send" => flight[l] \in Sent)
      /\ limbo \subseteq Sent
  BY DEF TypeOK, Servers, Sent
<1>2. ASSUME NEW s \in Servers, NEW j \in Keys, Edit(s, j) \/ BeginEdit(s, j) \/ EndEdit(s, j)
      PROVE  \/ row'[MAIN][k] = NextEdit /\ edits' = edits + 1
             \/ /\ row'[MAIN][k] = open[MAIN][k] /\ open[MAIN][k] # NoRow
                /\ open[MAIN][k].at + Overlap > now
  <2>1. CASE Edit(s, j)
    BY <1>1, <2>1 DEF Edit, Stamp
  <2>2. CASE CommitEdit(s, j)
    BY <1>1, <2>2 DEF CommitEdit
  <2>3. CASE BeginEdit(s, j) \/ AbortEdit(s, j)
    BY <2>3 DEF BeginEdit, AbortEdit
  <2>4. QED
    BY <1>2, <2>1, <2>2, <2>3 DEF EndEdit
<1>3. CASE \E f \in limbo : LateArrival(f)
  <2>1. PICK f \in limbo : UpsertAtMain(f)
    BY <1>3 DEF LateArrival
  <2>2. UpsertAtMain(Without(f, {}))
    BY <2>1, WithoutNothing DEF TypeOK
  <2>3. QED
    BY <1>1, <2>2, SentUpserts
<1>4. ASSUME NEW l \in Locals, NEW bad \in SUBSET Keys, DrainAnswered(l, bad)
      PROVE  UpsertAtMain(Without(outbox[l], bad))
  BY <1>4 DEF DrainAnswered, Answered
<1>5. ASSUME NEW l \in Locals, NEW bad \in SUBSET Keys, PushAnswered(l, bad)
      PROVE  pc[l] = "send" /\ UpsertAtMain(Without(flight[l], bad))
  BY <1>5 DEF PushAnswered, Answered
<1>6. ASSUME NEW l \in Locals, NEW bad \in SUBSET Keys, PullApply(l, bad)
      PROVE  row'[MAIN] = row[MAIN]
  BY <1>1, <1>6, SyncConstants DEF PullApply, UpsertAtLocal
<1>7. CASE \E l \in Locals : Quiet(l)
  BY <1>7, QuietSteps
<1>8. CASE UNCHANGED vars
  BY <1>8 DEF vars, store
<1>9. QED
  BY <1>1, <1>2, <1>3, <1>4, <1>5, <1>6, <1>7, <1>8, NextSorted, SentUpserts

-----------------------------------------------------------------------------
(* Nothing MAIN holds falls behind LAST_PULL.                              *)

\* What the pull relies on: a row of MAIN that a LOCAL pulls was written by
\* that LOCAL or on MAIN itself.  Rows written in two factories may arrive on
\* MAIN with a stamp older than the window of the other one's pull.
OneFactoryPerRow == \A k \in Keys : \A l, m \in Scope[k] : l = m

\* A request is sent by the page query alone.
LEMMA SendNext ==
  ASSUME TypeOK, NEW l \in Locals, CycleStep(l), pc'[l] = "send"
  PROVE  PushSelect(l) \/ UNCHANGED <<pc, flight>>
BY DEF CycleStep, Quiet, DrainAnswered, PushAnswered, PullApply, DrainUnanswered, DrainUnapplied,
       PushUnapplied, PushUnanswered, StartCycle, PushMark, PushNothing, PushClose, PullMark, PullServe,
       PullFails, Crash, FullPushReset, FullPullReset, EndDrain, EndPull, EndCycle, NextPage, Goto,
       TypeOK, cycle

\* No LOCAL sends a row that is newer than its factory's copy.
LEMMA OwnPayloadsNext ==
  ASSUME OneFactoryPerRow, BaseInv, BaseInv', OwnPayloads, [Next]_vars
  PROVE  OwnPayloads'
<1> USE DEF BaseInv
<1>1. RowsGrow
  BY NextGrows
<1>2. SUFFICES ASSUME NEW k \in Keys, NEW l \in Scope[k]
               PROVE  /\ \A m \in Locals : outbox'[m][k].at <= row'[l][k].at
                      /\ \A m \in Locals : pc'[m] = "send" => flight'[m][k].at <= row'[l][k].at
                      /\ \A f \in limbo' : f[k].at <= row'[l][k].at
  BY DEF OwnPayloads
<1>3. /\ row[l][k].at \in Nat /\ row'[l][k].at \in Nat /\ row'[l][k].at >= row[l][k].at
      /\ l \in Locals
  BY <1>1, SyncConstants, StampsTyped DEF RowsGrow, Servers, TypeOK, Row
<1>4. NoRow.at = 0
  BY DEF NoRow
<1>5. CASE UNCHANGED <<kept, cycle>> /\ limbo' \subseteq limbo
  BY <1>3, <1>5, StampsTyped DEF OwnPayloads, kept, cycle
<1>6. ASSUME NEW n \in Locals, CycleStep(n)
      PROVE  /\ \A m \in Locals : outbox'[m][k].at <= row'[l][k].at
             /\ \A m \in Locals : pc'[m] = "send" => flight'[m][k].at <= row'[l][k].at
             /\ \A f \in limbo' : f[k].at <= row'[l][k].at
  <2>1. ASSUME NEW m \in Locals
        PROVE  outbox'[m][k].at <= row'[l][k].at
    <3>1. \/ outbox'[m][k] \in {outbox[m][k], NoRow}
          \/ pc[m] = "send" /\ outbox'[m][k] = flight[m][k]
      BY <1>6, OthersStay, CarriersNext
    <3>2. QED
      BY <1>3, <1>4, <3>1, StampsTyped DEF OwnPayloads
  <2>2. ASSUME NEW m \in Locals, pc'[m] = "send"
        PROVE  flight'[m][k].at <= row'[l][k].at
    <3>1. CASE pc[m] = "send" /\ flight'[m] = flight[m]
      BY <1>3, <3>1, StampsTyped DEF OwnPayloads
    <3>2. CASE m # n
      BY <1>6, <2>2, <3>1, <3>2, OthersStay
    <3>3. CASE m = n /\ PushSelect(m)
      <4>1. PICK B \in Page(Due(m)) :
              flight' = [flight EXCEPT ![m] = [j \in Keys |-> IF j \in B THEN row[m][j] ELSE NoRow]]
        BY <3>3 DEF PushSelect
      <4>2. flight'[m][k] = IF k \in B THEN row[m][k] ELSE NoRow
        BY <4>1 DEF TypeOK
      <4>3. k \in B => m = l
        BY <4>1 DEF Page, Due, OneFactoryPerRow
      <4>4. QED
        BY <1>3, <1>4, <4>2, <4>3
    <3>4. CASE m = n /\ UNCHANGED <<pc, flight>>
      BY <2>2, <3>1, <3>4
    <3>5. QED
      BY <1>6, <2>2, <3>2, <3>3, <3>4, SendNext
  <2>3. ASSUME NEW f \in limbo'
        PROVE  f[k].at <= row'[l][k].at
    <3>1. f \in limbo \/ f = outbox[n] \/ (pc[n] = "send" /\ f = flight[n])
      BY <1>6, <2>3, LimboNext
    <3>2. QED
      BY <1>3, <3>1, StampsTyped DEF OwnPayloads
  <2>4. QED
    BY <2>1, <2>2, <2>3
<1>7. QED
  BY <1>5, <1>6, NextSorted, UsersAndLateArrivals DEF CycleStep

\* MAIN's copy of a row of l becomes either a stamp that no window of a pull has
\* moved past, or a row that l has.
LEMMA MainRowRecent ==
  ASSUME BaseInv, BaseInv', OwnPayloads, [Next]_vars, NEW k \in Keys, NEW l \in Scope[k]
  PROVE  \/ row'[MAIN][k] = row[MAIN][k]
         \/ row'[MAIN][k].at > 0 /\ row'[MAIN][k].at + Overlap > now
         \/ row'[MAIN][k].at <= row[l][k].at
<1> USE DEF BaseInv
<1>1. now \in Nat /\ Overlap \in Nat /\ open[MAIN][k].at \in Nat /\ l \in Locals /\ MAIN \in Servers
  BY SyncConstants, StampsTyped DEF Servers
<1>2. CASE row'[MAIN][k] = NextEdit
  BY <1>1, <1>2 DEF NextEdit
<1>3. CASE /\ row'[MAIN][k] = open[MAIN][k] /\ open[MAIN][k] # NoRow
           /\ open[MAIN][k].at + Overlap > now
  BY <1>1, <1>3, StampsTyped DEF LocksFresh
<1>4. ASSUME NEW f \in Sent, row'[MAIN][k] = f[k]
      PROVE  row'[MAIN][k].at <= row[l][k].at
  BY <1>4 DEF Sent, OwnPayloads
<1>5. CASE row'[MAIN][k].at = now + 1
  BY <1>1, <1>5
<1>6. QED
  BY <1>2, <1>3, <1>4, <1>5, MainRowNext

\* Where the phases of a pull and its watermark come from.
LEMMA PullPhaseNext ==
  ASSUME TypeOK, NEW l \in Locals, CycleStep(l)
  PROVE  /\ pc'[l] = "ask" => PullMark(l) \/ UNCHANGED <<pc, since>>
         /\ pc'[l] = "apply" => PullServe(l) \/ UNCHANGED <<pc, mark, flight>>
         /\ \/ lastPull'[l] \in {lastPull[l], 0}
            \/ PullApply(l, {}) /\ lastPull'[l] = mark[l]
<1> USE DEF CycleStep, Quiet, DrainAnswered, PushAnswered, DrainUnanswered, DrainUnapplied,
       PushUnapplied, PushUnanswered, StartCycle, PushMark, PushSelect, PushNothing, PushClose,
       PullFails, Crash, FullPushReset, FullPullReset, EndDrain, EndPull, EndCycle, NextPage, Goto,
       TypeOK, cycle, kept
<1>1. pc'[l] = "ask" => PullMark(l) \/ UNCHANGED <<pc, since>>
  BY DEF PullApply, PullServe
<1>2. pc'[l] = "apply" => PullServe(l) \/ UNCHANGED <<pc, mark, flight>>
  BY DEF PullApply, PullMark
<1>3. \/ lastPull'[l] \in {lastPull[l], 0}
      \/ PullApply(l, {}) /\ lastPull'[l] = mark[l]
  BY DEF PullApply, PullMark, PullServe
<1>4. QED
  BY <1>1, <1>2, <1>3

\* The window of a pull starts in the past by the overlap.
LEMMA PullWindowNext ==
  ASSUME BaseInv, BaseInv', PullAccounted, [Next]_vars, NEW l \in Locals, pc'[l] = "ask"
  PROVE  since'[l] = 0 \/ since'[l] + Overlap <= now'
<1> USE DEF BaseInv
<1>1. /\ now \in Nat /\ now' \in {now, now + 1} /\ Overlap \in Nat /\ since[l] \in Nat
      /\ lastPull[l] \in Nat /\ lastPull[l] <= now
  BY NextGrows, SyncConstants, StampsTyped DEF RowsGrow, PastStamps
<1>2. CASE pc'[l] = pc[l] /\ since'[l] = since[l]
  BY <1>1, <1>2 DEF PullAccounted
<1>3. CASE PullMark(l)
  <2>1. since'[l] = IF lastPull[l] > Overlap THEN lastPull[l] - Overlap ELSE 0
    BY <1>3 DEF PullMark, TypeOK
  <2>2. QED
    BY <1>1, <2>1
<1>4. QED
  BY <1>2, <1>3, NextSorted, UsersAndLateArrivals, OthersStay, PullPhaseNext DEF CycleStep, cycle

\* The steps that neither ask MAIN nor take its answer: MAIN's row may change.
LEMMA CoveredStays ==
  ASSUME BaseInv, BaseInv', OwnPayloads, PullCoversMain, PullAccounted, [Next]_vars,
         NEW k \in Keys, NEW l \in Scope[k]
  PROVE  /\ lastPull'[l] \in {lastPull[l], 0} =>
              (row'[MAIN][k].at + Overlap <= lastPull'[l] => row'[l][k].at >= row'[MAIN][k].at)
         /\ pc[l] = "ask" /\ row'[MAIN][k].at <= since[l] => row'[l][k].at >= row'[MAIN][k].at
         /\ pc[l] = "apply" /\ row'[MAIN][k].at + Overlap <= mark[l]
              => row'[l][k].at >= row'[MAIN][k].at \/ flight[l][k].at >= row'[MAIN][k].at
<1> USE DEF BaseInv
<1>1. /\ l \in Locals /\ MAIN \in Servers /\ Overlap \in Nat /\ now \in Nat
      /\ row[l][k].at \in Nat /\ row'[l][k].at \in Nat /\ row'[l][k].at >= row[l][k].at
      /\ row[MAIN][k].at \in Nat /\ row'[MAIN][k].at \in Nat
      /\ lastPull[l] \in Nat /\ lastPull[l] <= now /\ mark[l] \in Nat /\ mark[l] <= now
      /\ since[l] \in Nat
  <2>1. l \in Locals /\ l \in Servers /\ MAIN \in Servers /\ Overlap \in Nat
    BY SyncConstants DEF Servers
  <2>2. /\ now \in Nat /\ row[l][k].at \in Nat /\ row[MAIN][k].at \in Nat
        /\ lastPull[l] \in Nat /\ lastPull[l] <= now /\ mark[l] \in Nat /\ mark[l] <= now
        /\ since[l] \in Nat
    BY <2>1, StampsTyped DEF PastStamps
  <2>3. row'[l][k].at \in Nat /\ row'[MAIN][k].at \in Nat
    BY <2>1 DEF TypeOK, Row
  <2>4. row'[l][k].at >= row[l][k].at
    BY <2>1, NextGrows DEF RowsGrow
  <2>5. QED
    BY <2>1, <2>2, <2>3, <2>4
<1>2. CASE row'[MAIN][k] = row[MAIN][k]
  <2>1. /\ row[MAIN][k].at + Overlap <= lastPull[l] => row[l][k].at >= row[MAIN][k].at
        /\ pc[l] = "ask" /\ row[MAIN][k].at <= since[l] => row[l][k].at >= row[MAIN][k].at
        /\ pc[l] = "apply" /\ row[MAIN][k].at + Overlap <= mark[l]
             => row[l][k].at >= row[MAIN][k].at \/ flight[l][k].at >= row[MAIN][k].at
    BY DEF PullCoversMain, PullAccounted
  <2>2. QED
    BY <1>1, <1>2, <2>1
<1>3. CASE row'[MAIN][k].at > 0 /\ row'[MAIN][k].at + Overlap > now
  <2>1. pc[l] = "ask" => since[l] = 0 \/ since[l] + Overlap <= now
    BY <1>1 DEF PullAccounted
  <2>2. QED
    BY <1>1, <1>3, <2>1
<1>4. CASE row'[MAIN][k].at <= row[l][k].at
  BY <1>1, <1>4
<1>5. QED
  BY <1>2, <1>3, <1>4, MainRowRecent

\* The window leaves out what the last watermark accounted for.
LEMMA PullMarkCovers ==
  ASSUME BaseInv, PullCoversMain, NEW k \in Keys, NEW l \in Scope[k], PullMark(l),
         row'[MAIN][k].at <= since'[l]
  PROVE  row'[l][k].at >= row'[MAIN][k].at
<1>1. /\ l \in Locals /\ Overlap \in Nat /\ lastPull[l] \in Nat
      /\ row[l][k].at \in Nat /\ row[MAIN][k].at \in Nat
  BY SyncConstants, StampsTyped DEF BaseInv, Servers
<1>2. /\ since'[l] = IF lastPull[l] > Overlap THEN lastPull[l] - Overlap ELSE 0
      /\ row' = row
  BY <1>1 DEF PullMark, BaseInv, TypeOK, store
<1>3. row[MAIN][k].at = 0 \/ row[MAIN][k].at + Overlap <= lastPull[l]
  BY <1>1, <1>2
<1>4. QED
  BY <1>1, <1>2, <1>3 DEF PullCoversMain

\* The answer carries what the window does not leave out.
LEMMA PullServeCovers ==
  ASSUME BaseInv, PullAccounted, NEW k \in Keys, NEW l \in Scope[k], PullServe(l)
  PROVE  row'[l][k].at >= row'[MAIN][k].at \/ flight'[l][k].at >= row'[MAIN][k].at
<1>1. /\ l \in Locals /\ row[l][k].at \in Nat /\ row[MAIN][k].at \in Nat /\ since[l] \in Nat
  BY SyncConstants, StampsTyped DEF BaseInv, Servers
<1>2. /\ flight'[l][k] = IF row[MAIN][k].at > since[l] THEN row[MAIN][k] ELSE NoRow
      /\ row' = row /\ pc[l] = "ask"
  BY <1>1 DEF PullServe, BaseInv, TypeOK, store
<1>3. CASE row[MAIN][k].at > since[l]
  BY <1>1, <1>2, <1>3
<1>4. CASE row[MAIN][k].at <= since[l]
  BY <1>2, <1>4 DEF PullAccounted
<1>5. QED
  BY <1>1, <1>3, <1>4

\* What the answer carries is applied before the watermark moves.
LEMMA PullApplyCovers ==
  ASSUME BaseInv, BaseInv', PullAccounted, NEW k \in Keys, NEW l \in Scope[k], PullApply(l, {}),
         row'[MAIN][k].at + Overlap <= mark[l]
  PROVE  row'[l][k].at >= row'[MAIN][k].at
<1>1. l \in Locals /\ MAIN \in Servers \ {l} /\ flight[l] \in [Keys -> Row]
  BY SyncConstants DEF BaseInv, TypeOK, Servers
<1>2. UpsertAtLocal(l, flight[l]) /\ pc[l] = "apply"
  BY <1>1, WithoutNothing DEF PullApply
<1>3. row'[MAIN] = row[MAIN] /\ row'[l][k].at >= row[l][k].at /\ row'[l][k].at >= flight[l][k].at
  BY <1>1, <1>2, LocalUpserted DEF BaseInv
<1>4. row[l][k].at >= row[MAIN][k].at \/ flight[l][k].at >= row[MAIN][k].at
  BY <1>2, <1>3 DEF PullAccounted
<1>5. /\ row[l][k].at \in Nat /\ row[MAIN][k].at \in Nat /\ flight[l][k].at \in Nat
      /\ row'[l][k].at \in Nat
  BY <1>1, StampsTyped DEF BaseInv, Servers, TypeOK, Row
<1>6. QED
  BY <1>3, <1>4, <1>5

\* The watermark of a pull and its window leave out only rows that are there, and
\* in the end those that the answer carries.
LEMMA CoveredNext ==
  ASSUME BaseInv, BaseInv', OwnPayloads, PullCoversMain, PullAccounted, [Next]_vars,
         NEW k \in Keys, NEW l \in Scope[k]
  PROVE  /\ row'[MAIN][k].at + Overlap <= lastPull'[l] => row'[l][k].at >= row'[MAIN][k].at
         /\ pc'[l] = "ask" /\ row'[MAIN][k].at <= since'[l] => row'[l][k].at >= row'[MAIN][k].at
         /\ pc'[l] = "apply" /\ row'[MAIN][k].at + Overlap <= mark'[l]
              => row'[l][k].at >= row'[MAIN][k].at \/ flight'[l][k].at >= row'[MAIN][k].at
<1>1. l \in Locals /\ TypeOK
  BY SyncConstants DEF BaseInv
<1>2. CASE /\ lastPull'[l] = lastPull[l] /\ pc'[l] = pc[l]
           /\ since'[l] = since[l] /\ mark'[l] = mark[l] /\ flight'[l] = flight[l]
  BY <1>2, CoveredStays
<1>3. CASE CycleStep(l)
  <2>1. row'[MAIN][k].at + Overlap <= lastPull'[l] => row'[l][k].at >= row'[MAIN][k].at
    BY <1>1, <1>3, PullPhaseNext, PullApplyCovers, CoveredStays
  <2>2. pc'[l] = "ask" /\ row'[MAIN][k].at <= since'[l] => row'[l][k].at >= row'[MAIN][k].at
    BY <1>1, <1>3, PullPhaseNext, PullMarkCovers, CoveredStays
  <2>3. pc'[l] = "apply" /\ row'[MAIN][k].at + Overlap <= mark'[l]
          => row'[l][k].at >= row'[MAIN][k].at \/ flight'[l][k].at >= row'[MAIN][k].at
    BY <1>1, <1>3, PullPhaseNext, PullServeCovers, CoveredStays
  <2>4. QED
    BY <2>1, <2>2, <2>3
<1>4. QED
  BY <1>1, <1>2, <1>3, NextSorted, UsersAndLateArrivals, OthersStay DEF CycleStep, kept, cycle

LEMMA PullInvInit == Init => PullInv /\ BaseInv
<1> SUFFICES ASSUME Init PROVE PullInv /\ BaseInv
  OBVIOUS
<1>1. BaseInv
  BY BaseInit
<1>2. \A k \in Keys : \A l \in Scope[k] : row[l][k] = NoRow /\ row[MAIN][k] = NoRow
  BY SyncConstants DEF Init, Servers, NoRows
<1>3. OwnPayloads
  <2>1. ASSUME NEW m \in Locals, NEW k \in Keys
        PROVE  outbox[m][k] = NoRow /\ pc[m] = "idle"
    BY DEF Init, NoRows
  <2>2. limbo = {} /\ NoRow.at = 0
    BY DEF Init, NoRow
  <2>3. QED
    BY <1>2, <2>1, <2>2 DEF OwnPayloads
<1>4. PullCoversMain /\ PullAccounted
  BY <1>2 DEF Init, PullCoversMain, PullAccounted, NoRow
<1>5. QED
  BY <1>1, <1>3, <1>4 DEF PullInv, BaseInv

LEMMA PullInvNext == OneFactoryPerRow /\ PullInv /\ BaseInv /\ [Next]_vars => (PullInv /\ BaseInv)'
<1> SUFFICES ASSUME OneFactoryPerRow, PullInv, BaseInv, [Next]_vars PROVE (PullInv /\ BaseInv)'
  OBVIOUS
<1>1. BaseInv'
  BY BaseNext
<1>2. OwnPayloads'
  BY <1>1, OwnPayloadsNext DEF PullInv
<1>3. PullCoversMain' /\ PullAccounted'
  BY <1>1, CoveredNext, PullWindowNext DEF PullInv, PullCoversMain, PullAccounted
<1>4. QED
  BY <1>1, <1>2, <1>3 DEF PullInv, BaseInv

\* However many factories and rows there are, and whatever fails: a row of MAIN
\* that the window of the next pull leaves out is on its factory's server.
THEOREM NothingPassedOver == OneFactoryPerRow => (Spec => []PullCoversMain)
<1>1. PullInv => PullCoversMain
  BY DEF PullInv
<1>2. ASSUME OneFactoryPerRow
      PROVE  Spec => []PullCoversMain
  <2>1. PullInv /\ BaseInv /\ [Next]_vars => (PullInv /\ BaseInv)'
    BY <1>2, PullInvNext
  <2>2. QED
    BY <1>1, <2>1, PullInvInit, PTL DEF Spec
<1>3. QED
  BY <1>2

-----------------------------------------------------------------------------
(* MAIN never re-stamps what it already holds.                             *)

\* Where copies of a row are.
LEMMA CopiesHeld ==
  ASSUME NEW k \in Keys
  PROVE  /\ \A s \in Servers : row[s][k] \in Copies(k) /\ open[s][k] \in Copies(k)
         /\ \A l \in Locals : outbox[l][k] \in Copies(k) /\ flight[l][k] \in Copies(k)
         /\ \A f \in limbo : f[k] \in Copies(k)
         /\ \A f \in Sent : f[k] \in Copies(k)
BY DEF Copies, Sent

LEMMA CopiesTyped ==
  ASSUME BaseInv, NEW k \in Keys, NEW c \in Copies(k)
  PROVE  c.ver \in Nat /\ c.at \in Nat /\ c.at <= now
<1>1. c \in Row
  BY DEF BaseInv, TypeOK, Copies
<1>2. c.at <= now
  BY DEF BaseInv, TypeOK, PastStamps, Copies
<1>3. QED
  BY <1>1, <1>2 DEF Row

\* What the users' steps write is a new edit.
LEMMA UserImages ==
  ASSUME BaseInv, NEW s \in Servers, NEW j \in Keys, Edit(s, j) \/ BeginEdit(s, j) \/ EndEdit(s, j),
         NEW t \in Servers, NEW k \in Keys
  PROVE  \/ edits' = edits + 1 /\ {row'[t][k], open'[t][k]} \subseteq {row[t][k], open[t][k], NextEdit}
         \/ edits' = edits /\ {row'[t][k], open'[t][k]} \subseteq {row[t][k], open[t][k], NoRow}
<1>1. row \in [Servers -> [Keys -> Row]] /\ open \in [Servers -> [Keys -> Row]]
  BY DEF BaseInv, TypeOK
<1>2. CASE Edit(s, j)
  BY <1>1, <1>2 DEF Edit, Stamp
<1>3. CASE BeginEdit(s, j)
  BY <1>1, <1>3 DEF BeginEdit, Stamp
<1>4. CASE EndEdit(s, j)
  <2>1. /\ edits' = edits /\ open' = [open EXCEPT ![s][j] = NoRow]
        /\ row' = row \/ row' = [row EXCEPT ![s][j] = open[s][j]]
    BY <1>4 DEF EndEdit, CommitEdit, AbortEdit
  <2>2. QED
    BY <1>1, <2>1
<1>5. QED
  BY <1>2, <1>3, <1>4

\* The other steps write no edit of their own.
LEMMA CycleImages ==
  ASSUME BaseInv, NEW l \in Locals, CycleStep(l), NEW k \in Keys
  PROVE  /\ edits' = edits /\ open' = open
         /\ \A m \in Locals : row'[m][k] = row[m][k] \/ row'[m][k] = flight[m][k]
<1> USE DEF BaseInv
<1>1. edits' = edits /\ open' = open
  BY DEF CycleStep, Quiet, DrainAnswered, PushAnswered, PullApply, DrainUnanswered, DrainUnapplied,
       PushUnapplied, PushUnanswered, StartCycle, PushMark, PushSelect, PushNothing, PushClose,
       PullMark, PullServe, PullFails, Crash, FullPushReset, FullPullReset,
       EndPull, Answered, Unanswered, AnsweredUnapplied, store
<1>2. ASSUME NEW m \in Locals
      PROVE  row'[m][k] = row[m][k] \/ row'[m][k] = flight[m][k]
  <2>1. ASSUME NEW bad \in SUBSET Keys, DrainAnswered(l, bad) \/ PushAnswered(l, bad)
        PROVE  row'[m] = row[m]
    BY <2>1, PayloadsPast, MainUpserted DEF DrainAnswered, PushAnswered, Answered
  <2>2. ASSUME NEW bad \in SUBSET Keys, PullApply(l, bad)
        PROVE  row'[m][k] = row[m][k] \/ row'[m][k] = flight[m][k]
    <3>1. row \in [Servers -> [Keys -> Row]] /\ flight[l] \in [Keys -> Row] /\ m \in Servers
      BY DEF TypeOK, Servers
    <3>2. row' = [row EXCEPT ![l] =
            [j \in Keys |-> IF j \in Newer(l, Without(flight[l], bad)) THEN Without(flight[l], bad)[j] ELSE row[l][j]]]
      BY <2>2 DEF PullApply, UpsertAtLocal
    <3>3. k \in Newer(l, Without(flight[l], bad)) => Without(flight[l], bad)[k] = flight[l][k]
      <4>1. NoRow.at = 0 /\ row[l][k].at \in Nat
        BY StampsTyped DEF NoRow, Servers
      <4>2. QED
        BY <3>1, <4>1, WithoutBounded DEF Newer
    <3>4. QED
      BY <3>1, <3>2, <3>3
  <2>3. CASE Quiet(l)
    BY <2>3, QuietSteps
  <2>4. QED
    BY <2>1, <2>2, <2>3 DEF CycleStep
<1>3. QED
  BY <1>1, <1>2

LEMMA LateImages ==
  ASSUME BaseInv, NEW f \in limbo, LateArrival(f)
  PROVE  edits' = edits /\ open' = open /\ \A l \in Locals : row'[l] = row[l]
BY PayloadsPast, MainUpserted DEF BaseInv, LateArrival

\* Carrying a row makes no new copy of it.
LEMMA CarriedCopies ==
  ASSUME BaseInv, [Next]_vars, NEW k \in Keys
  PROVE  /\ \A m \in Locals : {outbox'[m][k], flight'[m][k]} \subseteq Copies(k) \cup {NoRow}
         /\ \A f \in limbo' : f[k] \in Copies(k)
<1>1. CASE UNCHANGED <<kept, cycle>> /\ limbo' \subseteq limbo
  BY <1>1, CopiesHeld DEF kept, cycle
<1>2. ASSUME NEW l \in Locals, CycleStep(l)
      PROVE  /\ \A m \in Locals : {outbox'[m][k], flight'[m][k]} \subseteq Copies(k) \cup {NoRow}
             /\ \A f \in limbo' : f[k] \in Copies(k)
  <2>1. MAIN \in Servers /\ Locals \subseteq Servers
    BY DEF Servers
  <2>2. \A m \in Locals : /\ outbox'[m][k] \in {outbox[m][k], NoRow, flight[m][k]}
                          /\ flight'[m][k] \in {flight[m][k], row[m][k], row[MAIN][k], NoRow}
    BY <1>2, OthersStay, CarriersNext DEF BaseInv
  <2>3. limbo' \subseteq limbo \cup {outbox[l], flight[l]}
    BY <1>2, CarriersNext DEF BaseInv
  <2>4. QED
    BY <2>1, <2>2, <2>3, CopiesHeld
<1>3. QED
  BY <1>1, <1>2, NextSorted, UsersAndLateArrivals DEF CycleStep

\* An image of row k after a step is one there was before, a new edit, or the
\* copy MAIN has just re-stamped.
Restamped(k, c) ==
  /\ c = row'[MAIN][k] /\ c.at = now + 1
  /\ \E d \in Copies(k) : d.at > row[MAIN][k].at /\ c.ver = d.ver

\* A copy is an old one, a user's edit, or MAIN's with a new stamp.
LEMMA CopiesNext ==
  ASSUME BaseInv, [Next]_vars, NEW k \in Keys, NEW c \in Copies(k)'
  PROVE  c \in Copies(k) \/ c = NoRow \/ (c = NextEdit /\ edits' = edits + 1) \/ Restamped(k, c)
<1>1. MAIN \in Servers /\ \A s \in Servers : s = MAIN \/ s \in Locals
  BY DEF Servers
<1>2. CASE c = row'[MAIN][k] /\ c # row[MAIN][k]
  BY <1>1, <1>2, MainRowNext, CopiesHeld DEF Restamped
<1>3. ASSUME NEW s \in Servers, c = open'[s][k] \/ (s \in Locals /\ c = row'[s][k])
      PROVE  c \in Copies(k) \/ c = NoRow \/ (c = NextEdit /\ edits' = edits + 1)
  <2>1. CASE \E t \in Servers, j \in Keys : Edit(t, j) \/ BeginEdit(t, j) \/ EndEdit(t, j)
    BY <1>3, <2>1, UserImages, CopiesHeld
  <2>2. CASE \E f \in limbo : LateArrival(f)
    BY <1>3, <2>2, LateImages, CopiesHeld
  <2>3. CASE \E l \in Locals : CycleStep(l)
    BY <1>3, <2>3, CycleImages, CopiesHeld
  <2>4. CASE UNCHANGED vars
    BY <1>3, <2>4, CopiesHeld DEF vars, store
  <2>5. QED
    BY <2>1, <2>2, <2>3, <2>4, NextSorted DEF CycleStep
<1>4. \/ \E s \in Servers : c = row'[s][k] \/ c = open'[s][k]
      \/ \E l \in Locals : c = outbox'[l][k] \/ c = flight'[l][k]
      \/ \E f \in limbo' : c = f[k]
  BY DEF Copies
<1>5. QED
  BY <1>1, <1>2, <1>3, <1>4, CarriedCopies, CopiesHeld

LEMMA EditsGrow ==
  ASSUME BaseInv, [Next]_vars
  PROVE  edits' \in {edits, edits + 1}
<1>1. CASE \E s \in Servers, k \in Keys : Edit(s, k) \/ BeginEdit(s, k) \/ EndEdit(s, k)
  BY <1>1 DEF Edit, BeginEdit, EndEdit, CommitEdit, AbortEdit, Stamp
<1>2. CASE \E f \in limbo : LateArrival(f)
  BY <1>2 DEF LateArrival
<1>3. CASE \E l \in Locals : CycleStep(l)
  BY <1>3 DEF CycleStep, Quiet, DrainAnswered, PushAnswered, PullApply, DrainUnanswered, DrainUnapplied,
       PushUnapplied, PushUnanswered, StartCycle, PushMark, PushSelect, PushNothing, PushClose,
       PullMark, PullServe, PullFails, Crash, FullPushReset, FullPullReset,
       EndPull, Answered, Unanswered, AnsweredUnapplied
<1>4. CASE UNCHANGED vars
  BY <1>4 DEF vars
<1>5. QED
  BY <1>1, <1>2, <1>3, <1>4, NextSorted DEF CycleStep

\* Edits are numbered in the order in which they are made.
LEMMA KnownEditsNext ==
  ASSUME BaseInv, KnownEdits, [Next]_vars
  PROVE  KnownEdits'
<1>1. edits \in Nat /\ edits' \in {edits, edits + 1}
  BY EditsGrow, SyncConstants DEF BaseInv, TypeOK
<1>2. SUFFICES ASSUME NEW k \in Keys, NEW c \in Copies(k)'
               PROVE  c.ver <= edits' /\ (c.ver = 0 => c.at = 0)
  BY DEF KnownEdits
<1>3. CASE c \in Copies(k)
  BY <1>1, <1>3, CopiesTyped DEF KnownEdits
<1>4. CASE c = NoRow
  BY <1>1, <1>4 DEF NoRow
<1>5. CASE c = NextEdit /\ edits' = edits + 1
  BY <1>1, <1>5 DEF NextEdit
<1>6. CASE Restamped(k, c)
  <2>1. PICK d \in Copies(k) : d.at > row[MAIN][k].at /\ c.ver = d.ver
    BY <1>6 DEF Restamped
  <2>2. d.ver <= edits /\ (d.ver = 0 => d.at = 0) /\ d.ver \in Nat /\ row[MAIN][k].at \in Nat
    BY CopiesTyped, StampsTyped DEF KnownEdits, BaseInv, Servers
  <2>3. QED
    BY <1>1, <2>1, <2>2
<1>7. QED
  BY <1>3, <1>4, <1>5, <1>6, CopiesNext

\* Only MAIN changes a stamp without an edit, and has then seen the edit.
LEMMA UnseenKeepStampNext ==
  ASSUME BaseInv, KnownEdits, UnseenKeepStamp, [Next]_vars
  PROVE  UnseenKeepStamp'
<1>1. SUFFICES ASSUME NEW k \in Keys, NEW c \in Copies(k)', NEW d \in Copies(k)',
                      c.ver = d.ver, c.at > row'[MAIN][k].at
               PROVE  c.at = d.at
  BY DEF UnseenKeepStamp
<1>2. /\ edits \in Nat /\ now \in Nat /\ row[MAIN][k].at \in Nat /\ row'[MAIN][k].at \in Nat
      /\ row'[MAIN][k].at >= row[MAIN][k].at
  <2>1. MAIN \in Servers /\ edits \in Nat /\ now \in Nat /\ row[MAIN][k].at \in Nat
    BY SyncConstants, StampsTyped DEF BaseInv, TypeOK, Servers
  <2>2. row'[MAIN][k].at \in Nat /\ row'[MAIN][k].at >= row[MAIN][k].at
    BY <2>1, NextGrows, BaseNext, StampsTyped DEF RowsGrow, BaseInv, TypeOK, Row
  <2>3. QED
    BY <2>1, <2>2
\* Only the new edit itself carries its number.
<1>3. ASSUME NEW e \in Copies(k)', e.ver = edits + 1
      PROVE  e = NextEdit
  <2>1. e \notin Copies(k)
    BY <1>2, <1>3, CopiesTyped DEF KnownEdits
  <2>2. e # NoRow
    BY <1>2, <1>3 DEF NoRow
  <2>3. ~Restamped(k, e)
    BY <1>2, <1>3, CopiesTyped DEF KnownEdits, Restamped
  <2>4. QED
    BY <2>1, <2>2, <2>3, CopiesNext
<1>4. CASE c = NextEdit \/ d = NextEdit
  BY <1>1, <1>3, <1>4 DEF NextEdit
<1>5. CASE c # NextEdit /\ d # NextEdit
  <2>1. c \in Copies(k)
    <3>1. c # NoRow /\ ~Restamped(k, c)
      BY <1>1, <1>2 DEF NoRow, Restamped
    <3>2. QED
      BY <1>5, <3>1, CopiesNext
  <2>2. c.ver # 0 /\ c.at <= now /\ c.at \in Nat
    BY <1>1, <1>2, <2>1, CopiesTyped DEF KnownEdits
  <2>3. d \in Copies(k)
    <3>1. d # NoRow
      BY <1>1, <2>2 DEF NoRow
    <3>2. ~Restamped(k, d)
      BY <1>1, <1>2, <2>2 DEF Restamped
    <3>3. QED
      BY <1>5, <3>1, <3>2, CopiesNext
  <2>4. c.at > row[MAIN][k].at
    BY <1>1, <1>2, <2>2
  <2>5. QED
    BY <1>1, <2>1, <2>3, <2>4 DEF UnseenKeepStamp
<1>6. QED
  BY <1>4, <1>5

LEMMA EchoInvInit == Init => EchoInv /\ BaseInv
<1> SUFFICES ASSUME Init PROVE EchoInv /\ BaseInv
  OBVIOUS
<1>1. BaseInv
  BY BaseInit
<1>2. \A k \in Keys : Copies(k) \subseteq {NoRow}
  BY DEF Init, Copies, NoRows
<1>3. KnownEdits /\ UnseenKeepStamp
  BY <1>2 DEF Init, KnownEdits, UnseenKeepStamp, NoRow
<1>4. QED
  BY <1>1, <1>3 DEF EchoInv, BaseInv

LEMMA EchoInvNext == EchoInv /\ BaseInv /\ [Next]_vars => (EchoInv /\ BaseInv)'
BY BaseNext, KnownEditsNext, UnseenKeepStampNext DEF EchoInv, BaseInv

\* If MAIN's row changes and its edit does not, then MAIN took a newer stamp of an
\* edit that it held: an edit seen, or a copy with its author's stamp.
LEMMA NoEchoStep ==
  ASSUME EchoInv, BaseInv, [Next]_vars, NEW k \in Keys, row'[MAIN][k].ver = row[MAIN][k].ver
  PROVE  row'[MAIN][k] = row[MAIN][k]
<1>1. SUFFICES ASSUME row'[MAIN][k] # row[MAIN][k] PROVE FALSE
  OBVIOUS
<1>2. MAIN \in Servers /\ edits \in Nat /\ row[MAIN][k] \in Copies(k)
  BY SyncConstants, CopiesHeld DEF BaseInv, TypeOK, Servers
<1>3. row[MAIN][k].ver \in Nat /\ row[MAIN][k].ver <= edits /\ row[MAIN][k].at \in Nat
  BY <1>2, CopiesTyped DEF EchoInv, KnownEdits
<1>4. row'[MAIN][k] # NextEdit
  BY <1>2, <1>3 DEF NextEdit
<1>5. ASSUME NEW d \in Copies(k), d.at > row[MAIN][k].at
      PROVE  d.ver # row[MAIN][k].ver
  <2>1. d.at # row[MAIN][k].at
    BY <1>3, <1>5, CopiesTyped
  <2>2. QED
    BY <1>2, <1>5, <2>1 DEF EchoInv, UnseenKeepStamp
<1>6. open[MAIN][k] # NoRow => open[MAIN][k].at > row[MAIN][k].at
  BY <1>2 DEF EchoInv, LocksFresh
<1>7. QED
  BY <1>1, <1>2, <1>4, <1>5, <1>6, MainRowNext, CopiesHeld

\* However often an edit is pulled, parked, pushed again or late: MAIN never
\* re-stamps its row to the content it already holds.
THEOREM RowsDoNotBounce == Spec => NoEcho
<1>1. ASSUME EchoInv /\ BaseInv, [Next]_vars
      PROVE  [\A k \in Keys : row'[MAIN][k].ver = row[MAIN][k].ver
                                => row'[MAIN][k] = row[MAIN][k]]_vars
  BY <1>1, NoEchoStep
<1>2. QED
  BY <1>1, EchoInvInit, EchoInvNext, PTL DEF Spec, NoEcho

-----------------------------------------------------------------------------
(* Equal stamps are equal copies, so that a factory that is caught up in   *)
(* both directions holds what MAIN holds.                                  *)

\* A stamp is given to one version of a row only, by its author's server or by
\* MAIN, and every copy of the row that has the stamp has that version.
StampsTell ==
  \A k \in Keys : \A c, d \in Copies(k) :
    (c.at = 0 => c.ver = 0) /\ (c.at = d.at => c.ver = d.ver)

\* A new stamp is on one new version: MAIN re-stamps nothing while a user writes.
LEMMA OneNewStamp ==
  ASSUME BaseInv, [Next]_vars, edits' = edits + 1, NEW k \in Keys, NEW c, Restamped(k, c)
  PROVE  c = NextEdit
<1>1. edits \in Nat /\ MAIN \in Servers
  BY SyncConstants DEF BaseInv, TypeOK, Servers
<1>2. \E s \in Servers, j \in Keys : Edit(s, j) \/ BeginEdit(s, j) \/ EndEdit(s, j)
  <2>1. edits' # edits
    BY <1>1
  <2>2. ~\E f \in limbo : LateArrival(f)
    BY <2>1, LateImages
  <2>3. ~\E l \in Locals : CycleStep(l)
    BY <2>1, CycleImages
  <2>4. ~UNCHANGED vars
    BY <2>1 DEF vars
  <2> QED
    BY <2>2, <2>3, <2>4, NextSorted DEF CycleStep
<1>3. row'[MAIN][k] \in {row[MAIN][k], open[MAIN][k], NextEdit}
  BY <1>1, <1>2, UserImages
<1>4. c = row'[MAIN][k] /\ c.at = now + 1 /\ now \in Nat
  BY DEF Restamped, BaseInv, TypeOK
<1>5. row[MAIN][k].at <= now /\ open[MAIN][k].at <= now /\ row[MAIN][k].at \in Nat /\ open[MAIN][k].at \in Nat
  BY <1>1, CopiesHeld, CopiesTyped
<1> QED
  BY <1>3, <1>4, <1>5

\* Every step keeps StampsTell.
LEMMA StampsTellNext ==
  ASSUME BaseInv, StampsTell, [Next]_vars
  PROVE  StampsTell'
<1> SUFFICES ASSUME NEW k \in Keys, NEW c \in Copies(k)', NEW d \in Copies(k)'
             PROVE  (c.at = 0 => c.ver = 0) /\ (c.at = d.at => c.ver = d.ver)
  BY DEF StampsTell
<1>1. now \in Nat /\ edits \in Nat
  BY SyncConstants DEF BaseInv, TypeOK
<1> DEFINE Old(x) == x \in Copies(k) \/ x = NoRow
           New(x) == (x = NextEdit /\ edits' = edits + 1) \/ Restamped(k, x)
<1>2. (Old(c) \/ New(c)) /\ (Old(d) \/ New(d))
  BY CopiesNext
<1>3. ASSUME NEW x, Old(x)
      PROVE  x.at \in Nat /\ x.at <= now /\ (x.at = 0 => x.ver = 0)
  BY <1>1, <1>3, CopiesTyped DEF StampsTell, NoRow
<1>4. ASSUME NEW x, New(x)
      PROVE  x.at = now + 1
  BY <1>4 DEF NextEdit, Restamped
<1>5. CASE Old(c) /\ Old(d)
  <2>1. CASE c \in Copies(k) /\ d \in Copies(k)
    BY <2>1 DEF StampsTell
  <2>2. CASE c = NoRow \/ d = NoRow
    BY <1>3, <1>5, <2>2 DEF NoRow
  <2> QED
    BY <1>3, <1>5, <2>1, <2>2
<1>6. CASE New(c) /\ New(d)
  <2>1. CASE Restamped(k, c) /\ Restamped(k, d)
    BY <1>1, <1>4, <1>6, <2>1 DEF Restamped
  <2>2. CASE c = NextEdit /\ edits' = edits + 1
    BY <1>1, <1>6, <2>2, OneNewStamp DEF NextEdit
  <2>3. CASE d = NextEdit /\ edits' = edits + 1
    BY <1>1, <1>6, <2>3, OneNewStamp DEF NextEdit
  <2> QED
    BY <1>6, <2>1, <2>2, <2>3
<1>7. CASE Old(c) /\ New(d)
  BY <1>1, <1>3, <1>4, <1>7
<1>8. CASE New(c) /\ Old(d)
  BY <1>1, <1>3, <1>4, <1>8
<1> QED
  BY <1>2, <1>5, <1>6, <1>7, <1>8

\* Nothing of row k waits on LOCAL l: it is stamped no later than LAST_PUSH and
\* not parked, and MAIN's copy no later than what the pulls have covered.
CaughtUp(l, k) ==
  /\ row[l][k].at <= lastPush[l] /\ outbox[l][k] = NoRow
  /\ row[MAIN][k].at + Overlap <= lastPull[l]

CaughtUpAgrees ==
  \A k \in Keys : \A l \in Scope[k] : CaughtUp(l, k) => row[l][k] = row[MAIN][k]

\* What Converges says of the end, at any time: whatever faults there were, a
\* factory's row that is caught up is MAIN's, in content and in stamp.
THEOREM CaughtUpRowsAgree ==
  PushSafe /\ OneFactoryPerRow => (Spec => []CaughtUpAgrees)
<1>1. Init => BaseInv /\ StampsTell
  <2> SUFFICES ASSUME Init PROVE StampsTell
    BY BaseInit
  <2>1. \A k \in Keys : Copies(k) \subseteq {NoRow}
    BY DEF Init, Copies, NoRows
  <2> QED
    BY <2>1 DEF StampsTell, NoRow
<1>2. BaseInv /\ StampsTell /\ [Next]_vars => (BaseInv /\ StampsTell)'
  BY BaseNext, StampsTellNext
<1>3. BaseInv /\ StampsTell /\ NothingLost /\ PullCoversMain => CaughtUpAgrees
  <2> SUFFICES ASSUME BaseInv, StampsTell, NothingLost, PullCoversMain,
                      NEW k \in Keys, NEW l \in Scope[k], CaughtUp(l, k)
               PROVE  row[l][k] = row[MAIN][k]
    BY DEF CaughtUpAgrees
  <2>1. l \in Servers /\ MAIN \in Servers /\ l \in Locals
    BY SyncConstants DEF Servers
  <2> DEFINE mine == row[l][k]
             main == row[MAIN][k]
  <2>2. mine \in Row /\ main \in Row /\ mine \in Copies(k) /\ main \in Copies(k)
    BY <2>1, CopiesHeld DEF BaseInv, TypeOK
  <2>3. main.at >= mine.at
    <3>1. Delivered(l, k) \/ Parked(l, k)
      BY DEF NothingLost, CaughtUp
    <3>2. Parked(l, k) => mine.at <= 0
      BY <2>2 DEF Parked, CaughtUp, NoRow, Row
    <3> QED
      BY <2>2, <3>1, <3>2 DEF Delivered, Row
  <2>4. mine.at >= main.at
    BY DEF PullCoversMain, CaughtUp
  <2>5. mine.at = main.at
    BY <2>2, <2>3, <2>4 DEF Row
  <2>6. mine.ver = main.ver
    BY <2>2, <2>5 DEF StampsTell
  <2> HIDE DEF mine, main
  <2>7. mine = main
    BY <2>2, <2>5, <2>6 DEF Row
  <2> QED
    BY <2>7 DEF mine, main
<1> QED
  BY <1>1, <1>2, <1>3, NoRowLost, NothingPassedOver, PTL DEF Spec

=============================================================================
