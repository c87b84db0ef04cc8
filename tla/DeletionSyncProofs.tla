------------------------- MODULE DeletionSyncProofs -------------------------
(***************************************************************************)
(* For every number of LOCALs, with deletes in transactions of any length: *)
(* what LAST_DELETE_PUSH has moved past, MAIN has a tombstone for, and what *)
(* LAST_DELETE_PULL has moved past, the LOCAL, unless it showed behind the *)
(* watermark or was skipped; no deleted plan comes back.                   *)
(***************************************************************************)
EXTENDS DeletionSync, TLAPS

NothingSkipped == "skipped" \notin Faults

LEMMA MainServer == MAIN \in Servers /\ Locals \subseteq Servers
BY DEF Servers

LEMMA DeletionInit == Init => DeletionInv
BY DeletionConstants, MainServer
   DEF Init, DeletionInv, TypeOK, Phases, MarksAhead, PastInstants, DeletionsAccounted, DeletionsReachMain,
       DeletionsReachLocals

-----------------------------------------------------------------------------
(* Types, and that every stamp is an instant of the past.                  *)

PastInv == TypeOK /\ PastInstants

\* The upsert touches no tombstone and never turns the clock back.
LEMMA UpsertType ==
  ASSUME PastInv, NEW s \in Servers, NEW at \in Nat, at <= now, Upsert(s, at)
  PROVE  /\ now' \in Nat /\ now' >= now /\ row' \in [Servers -> Nat]
         /\ \A t \in Servers : row'[t] <= now'
BY DEF PastInv, TypeOK, PastInstants, Upsert

LEMMA FaultType ==
  ASSUME PastInv, NEW kind, Fault(kind)
  PROVE  edits' = edits /\ deletes' = deletes /\ faults' \in 0..MaxFaults
BY DeletionConstants DEF PastInv, TypeOK, Fault

\* What is under way is of the past.
LEMMA InFlight ==
  ASSUME PastInv, NEW l \in Locals
  PROVE  flight[l] \in Nat /\ flight[l] <= now /\ parked[l] \in Nat /\ parked[l] <= now
         /\ mark[l] \in Nat /\ mark[l] <= now
BY DEF PastInv, TypeOK, PastInstants

\* The phases of a cycle that begin: what they read, and since when.
Begins(l) == Push(l) \/ PushDeletions(l) \/ Pull(l) \/ PullDeletions(l)

\* Those that end, and the outbox.
Ends(l) ==
  \/ Drain(l) \/ PushAnswered(l) \/ DeletionsPushed(l) \/ DeletionsRefused(l)
  \/ PullApplied(l) \/ DeletionsPulled(l) \/ PullFails(l) \/ Crash(l)

\* What users of server s do.
Uses(s) == Edit(s) \/ Delete(s) \/ BeginDelete(s) \/ EndDelete(s)

\* The steps, by those who make them.
LEMMA ByUserOrCycle ==
  ASSUME [Next]_vars
  PROVE  \/ \E s \in Servers : Uses(s)
         \/ \E l \in Locals : Begins(l) \/ Ends(l)
         \/ UNCHANGED vars
BY DEF Next, Progress, Begins, Ends, Uses

\* The beginning of a phase: a watermark is taken, and a tombstone newer than the
\* last one is sent or answered.
LEMMA PhaseBegun ==
  ASSUME PastInv, NEW l \in Locals, Begins(l)
  PROVE  \E to \in Phases, stamp \in Nat, since \in Nat :
           /\ stamp <= now
           /\ \/ to \notin {"deleteSent", "deletePulled"}
              \/ to = "deleteSent" /\ stamp = tomb[l] /\ since = lastDeletePush[l]
              \/ to = "deletePulled" /\ stamp = tomb[MAIN] /\ since = lastDeletePull[l]
           /\ UNCHANGED <<now, counts, store, parked, marks>>
           /\ pc' = [pc EXCEPT ![l] = to]
           /\ mark' = [mark EXCEPT ![l] = now]
           /\ flight' = [flight EXCEPT ![l] = IF stamp > since THEN stamp ELSE 0]
<1>1. /\ row[l] \in Nat /\ row[l] <= now /\ tomb[l] \in Nat /\ tomb[l] <= now
      /\ row[MAIN] \in Nat /\ row[MAIN] <= now /\ tomb[MAIN] \in Nat /\ tomb[MAIN] <= now
      /\ lastPush[l] \in Nat /\ lastDeletePush[l] \in Nat /\ lastDeletePull[l] \in Nat
      /\ PullSince(l) \in Nat
  BY MainServer, DeletionConstants DEF PastInv, TypeOK, PastInstants, PullSince
<1>2. CASE Push(l)
  <2>1. Begin(l, "push", "sent", row[l], lastPush[l]) /\ "sent" \in Phases
    BY <1>2 DEF Push, Phases
  <2>2. QED
    BY <1>1, <2>1 DEF Begin, Goto
<1>3. CASE PushDeletions(l)
  <2>1. Begin(l, "delete", "deleteSent", tomb[l], lastDeletePush[l]) /\ "deleteSent" \in Phases
    BY <1>3 DEF PushDeletions, Phases
  <2>2. QED
    BY <1>1, <2>1 DEF Begin, Goto
<1>4. CASE Pull(l)
  <2>1. Begin(l, "pull", "pulled", row[MAIN], PullSince(l)) /\ "pulled" \in Phases
    BY <1>4 DEF Pull, Phases
  <2>2. QED
    BY <1>1, <2>1 DEF Begin, Goto
<1>5. CASE PullDeletions(l)
  <2>1. Begin(l, "deletePull", "deletePulled", tomb[MAIN], lastDeletePull[l]) /\ "deletePulled" \in Phases
    BY <1>5 DEF PullDeletions, Phases
  <2>2. QED
    BY <1>1, <2>1 DEF Begin, Goto
<1>6. QED
  BY <1>2, <1>3, <1>4, <1>5 DEF Begins

\* The end of a phase: the request is worked off; what users count stays.
LEMMA PhaseEnded ==
  ASSUME NEW l \in Locals, Ends(l), PastInv
  PROVE  /\ \E to \in Phases \ {"deleteSent", "deletePulled"} : pc' = [pc EXCEPT ![l] = to]
         /\ mark' = mark \/ mark' = [mark EXCEPT ![l] = 0]
         /\ flight' = flight \/ flight' = [flight EXCEPT ![l] = 0]
         /\ gone' = gone /\ open' = open /\ edits' = edits /\ deletes' = deletes
BY DEF Ends, Drain, PushAnswered, DeletionsPushed, DeletionsRefused, PullApplied, DeletionsPulled, PullFails,
       Crash, ApplyDeletion, Applies, Fault, End, Goto, Phases, counts, store

\* A tombstone that is written is the first one of its server.
LEMMA BuryType ==
  ASSUME PastInv, NEW s \in Servers, NEW at \in Nat, Bury(s, at)
  PROVE  /\ tomb' = tomb \/ (tomb[s] = 0 /\ tomb' = [tomb EXCEPT ![s] = at])
         /\ late \subseteq late' /\ late' \subseteq Locals \X {"push", "pull"}
BY DEF Bury, Passed, PastInv, TypeOK

\* A user's delete is stamped with this moment, or with one that has passed.
LEMMA UserStep ==
  ASSUME PastInv, NEW s \in Servers, Uses(s)
  PROVE  /\ now' \in {now, now + 1} /\ UNCHANGED <<parked, marks, cycle, faults>>
         /\ \/ row' = row \/ row' = [row EXCEPT ![s] = 0]
            \/ row' = [row EXCEPT ![s] = now + 1] /\ now' = now + 1
         /\ \/ UNCHANGED <<tomb, late, gone>>
            \/ \E at \in Nat : at <= now' /\ Bury(s, at) /\ gone' = [gone EXCEPT ![s] = at]
         /\ open' = open \/ \E at \in Nat : at <= now' /\ open' = [open EXCEPT ![s] = at]
         /\ edits' \in 0..MaxEdits /\ deletes' \in 0..MaxDeletes
<1> USE DEF PastInv, TypeOK, PastInstants
<1>1. CASE Edit(s)
  BY <1>1, DeletionConstants DEF Edit
<1>2. CASE Delete(s)
  <2>1. /\ now' = now + 1 /\ UNCHANGED <<parked, marks, cycle, faults, edits, open>>
        /\ deletes' = deletes + 1 /\ deletes < MaxDeletes
        /\ row' = [row EXCEPT ![s] = 0]
        /\ Bury(s, now + 1) /\ gone' = [gone EXCEPT ![s] = now + 1]
    BY <1>2 DEF Delete, Deletes
  <2>2. now + 1 \in Nat /\ now + 1 <= now' /\ deletes' \in 0..MaxDeletes
    BY <2>1, DeletionConstants
  <2>3. QED
    BY <2>1, <2>2
<1>3. CASE BeginDelete(s)
  <2>1. /\ now' = now + 1 /\ UNCHANGED <<parked, marks, cycle, faults, edits, row, tomb, late, gone>>
        /\ deletes' = deletes + 1 /\ deletes < MaxDeletes
        /\ open' = [open EXCEPT ![s] = now + 1]
    BY <1>3 DEF BeginDelete
  <2>2. now + 1 \in Nat /\ now + 1 <= now' /\ deletes' \in 0..MaxDeletes
    BY <2>1, DeletionConstants
  <2>3. QED
    BY <2>1, <2>2
<1>4. CASE EndDelete(s)
  <2>1. open[s] \in Nat /\ open[s] <= now /\ 0 <= now
    OBVIOUS
  <2>2. UNCHANGED <<now, counts, parked, marks, cycle>> /\ open' = [open EXCEPT ![s] = 0]
    BY <1>4 DEF EndDelete
  <2>3. CASE Deletes(s, open[s])
    BY <2>1, <2>2, <2>3 DEF Deletes, counts
  <2>4. CASE UNCHANGED <<row, tomb, late, gone>>
    BY <2>1, <2>2, <2>4 DEF counts
  <2>5. QED
    BY <1>4, <2>3, <2>4 DEF EndDelete
<1>5. QED
  BY <1>1, <1>2, <1>3, <1>4 DEF Uses

LEMMA PastUsers ==
  ASSUME PastInv, NEW s \in Servers, Uses(s)
  PROVE  PastInv'
<1>1. /\ now' \in {now, now + 1} /\ UNCHANGED <<parked, marks, cycle, faults>>
      /\ \/ row' = row \/ row' = [row EXCEPT ![s] = 0]
         \/ row' = [row EXCEPT ![s] = now + 1] /\ now' = now + 1
      /\ edits' \in 0..MaxEdits /\ deletes' \in 0..MaxDeletes
  BY UserStep
<1>2. /\ late' \subseteq Locals \X {"push", "pull"}
      /\ tomb' \in [Servers -> Nat] /\ gone' \in [Servers -> Nat] /\ \A t \in Servers : tomb'[t] <= now'
  <2>1. CASE UNCHANGED <<tomb, late, gone>>
    BY <1>1, <2>1 DEF PastInv, TypeOK, PastInstants
  <2>2. ASSUME NEW at \in Nat, at <= now', Bury(s, at), gone' = [gone EXCEPT ![s] = at]
        PROVE  /\ late' \subseteq Locals \X {"push", "pull"}
               /\ tomb' \in [Servers -> Nat] /\ gone' \in [Servers -> Nat]
               /\ \A t \in Servers : tomb'[t] <= now'
    <3>1. tomb' = tomb \/ tomb' = [tomb EXCEPT ![s] = at]
      BY <2>2, BuryType
    <3>2. late' \subseteq Locals \X {"push", "pull"}
      BY <2>2, BuryType
    <3>3. tomb' \in [Servers -> Nat] /\ gone' \in [Servers -> Nat]
      BY <2>2, <3>1 DEF PastInv, TypeOK
    <3>4. \A t \in Servers : tomb'[t] <= now'
      BY <1>1, <2>2, <3>1 DEF PastInv, TypeOK, PastInstants
    <3>5. QED
      BY <3>2, <3>3, <3>4
  <2>3. QED
    BY <2>1, <2>2, UserStep
<1>3. open' \in [Servers -> Nat] /\ \A t \in Servers : open'[t] <= now'
  BY <1>1, UserStep DEF PastInv, TypeOK, PastInstants
<1>4. TypeOK'
  BY <1>1, <1>2, <1>3 DEF PastInv, TypeOK, marks, cycle
<1>5. PastInstants'
  BY <1>1, <1>2, <1>3 DEF PastInv, TypeOK, PastInstants, marks, cycle
<1>6. QED
  BY <1>4, <1>5 DEF PastInv

LEMMA PastBegins ==
  ASSUME PastInv, NEW l \in Locals, Begins(l)
  PROVE  PastInv'
<1>1. PICK to \in Phases, stamp \in Nat, since \in Nat :
        /\ stamp <= now
        /\ UNCHANGED <<now, counts, store, parked, marks>>
        /\ pc' = [pc EXCEPT ![l] = to]
        /\ mark' = [mark EXCEPT ![l] = now]
        /\ flight' = [flight EXCEPT ![l] = IF stamp > since THEN stamp ELSE 0]
  BY PhaseBegun
<1>2. TypeOK'
  BY <1>1 DEF PastInv, TypeOK, counts, store, marks
<1>3. PastInstants'
  BY <1>1 DEF PastInv, TypeOK, PastInstants, counts, store, marks
<1>4. QED
  BY <1>2, <1>3 DEF PastInv

\* A request or an answer that is worked off writes a tombstone, or skips it.
LEMMA TombstoneSteps ==
  ASSUME NEW l \in Locals, Ends(l)
  PROVE  \/ UNCHANGED <<tomb, late>>
         \/ Bury(MAIN, flight[l]) \/ (Bury(l, flight[l]) /\ pc[l] = "deletePulled" /\ flight[l] > 0)
         \/ /\ tomb' = tomb /\ "skipped" \in Faults
            /\ late' = late \cup {<<l, "push">>} \/ late' = late \cup {<<l, "pull">>}
BY DEF Ends, Drain, PushAnswered, DeletionsPushed, DeletionsRefused, PullApplied, DeletionsPulled,
       PullFails, Crash, ApplyDeletion, Applies, Fault, End, store

LEMMA PastEnds ==
  ASSUME PastInv, NEW l \in Locals, Ends(l)
  PROVE  PastInv' /\ now' >= now
<1> USE InFlight
<1>1. PICK to \in Phases \ {"deleteSent", "deletePulled"} :
        /\ pc' = [pc EXCEPT ![l] = to]
        /\ mark' = mark \/ mark' = [mark EXCEPT ![l] = 0]
        /\ flight' = flight \/ flight' = [flight EXCEPT ![l] = 0]
        /\ gone' = gone /\ open' = open /\ edits' = edits /\ deletes' = deletes
  BY PhaseEnded
<1>2. faults' \in 0..MaxFaults
  <2>1. faults' = faults \/ \E kind \in {"rows_refused", "tombs_refused", "skipped", "crash"} : Fault(kind)
    BY DEF Ends, Drain, PushAnswered, DeletionsPushed, DeletionsRefused, PullApplied, DeletionsPulled,
           PullFails, Crash, ApplyDeletion, counts
  <2>2. QED
    BY <2>1, FaultType DEF PastInv, TypeOK
<1>3. now' \in Nat /\ now' >= now /\ row' \in [Servers -> Nat] /\ \A t \in Servers : row'[t] <= now'
  <2>1. \/ UNCHANGED <<now, row>>
        \/ Upsert(MAIN, parked[l]) \/ Upsert(MAIN, flight[l]) \/ Upsert(l, flight[l])
        \/ now' = now /\ (row' = [row EXCEPT ![MAIN] = 0] \/ row' = [row EXCEPT ![l] = 0])
    BY DEF Ends, Drain, PushAnswered, DeletionsPushed, DeletionsRefused, PullApplied, DeletionsPulled,
           PullFails, Crash, ApplyDeletion, Applies, store
  <2>2. CASE UNCHANGED <<now, row>>
    BY <2>2 DEF PastInv, TypeOK, PastInstants
  <2>3. CASE Upsert(MAIN, parked[l]) \/ Upsert(MAIN, flight[l]) \/ Upsert(l, flight[l])
    BY <2>3, MainServer, UpsertType
  <2>4. CASE now' = now /\ (row' = [row EXCEPT ![MAIN] = 0] \/ row' = [row EXCEPT ![l] = 0])
    BY <2>4, MainServer DEF PastInv, TypeOK, PastInstants
  <2>5. QED
    BY <2>1, <2>2, <2>3, <2>4
<1>4. /\ tomb' \in [Servers -> Nat] /\ \A t \in Servers : tomb'[t] <= now'
      /\ late' \subseteq Locals \X {"push", "pull"}
  <2>1. CASE UNCHANGED <<tomb, late>>
    BY <1>3, <2>1 DEF PastInv, TypeOK, PastInstants
  <2>2. ASSUME NEW s \in Servers, Bury(s, flight[l])
        PROVE  tomb' = tomb \/ tomb' = [tomb EXCEPT ![s] = flight[l]]
    BY <2>2, BuryType
  <2>3. ASSUME NEW s \in Servers, Bury(s, flight[l])
        PROVE  late' \subseteq Locals \X {"push", "pull"}
    BY <2>3, BuryType
  <2>4. ASSUME NEW s \in Servers, Bury(s, flight[l])
        PROVE  tomb' \in [Servers -> Nat] /\ \A t \in Servers : tomb'[t] <= now'
    BY <1>3, <2>2, <2>4 DEF PastInv, TypeOK, PastInstants
  <2>5. CASE tomb' = tomb /\ (late' = late \cup {<<l, "push">>} \/ late' = late \cup {<<l, "pull">>})
    BY <1>3, <2>5 DEF PastInv, TypeOK, PastInstants
  <2>6. QED
    BY <2>1, <2>3, <2>4, <2>5, MainServer, TombstoneSteps
<1>5. parked' \in [Locals -> Nat] /\ \A m \in Locals : parked'[m] <= now'
  <2>1. parked' = parked \/ parked' = [parked EXCEPT ![l] = 0] \/ parked' = [parked EXCEPT ![l] = flight[l]]
    BY DEF Ends, Drain, PushAnswered, DeletionsPushed, DeletionsRefused, PullApplied, DeletionsPulled,
           PullFails, Crash
  <2>2. QED
    BY <1>3, <2>1 DEF PastInv, TypeOK, PastInstants
<1>6. /\ lastPush' \in [Locals -> Nat] /\ lastPull' \in [Locals -> Nat] /\ lastDeletePull' \in [Locals -> Nat]
      /\ lastDeletePush' \in [Locals -> Nat]
      /\ \A m \in Locals : lastDeletePush'[m] <= now' /\ lastDeletePull'[m] <= now'
  <2>1. /\ lastPush' = lastPush \/ lastPush' = [lastPush EXCEPT ![l] = mark[l]]
        /\ lastPull' = lastPull \/ lastPull' = [lastPull EXCEPT ![l] = mark[l]]
        /\ lastDeletePull' = lastDeletePull \/ lastDeletePull' = [lastDeletePull EXCEPT ![l] = mark[l]]
        /\ lastDeletePush' = lastDeletePush \/ lastDeletePush' = [lastDeletePush EXCEPT ![l] = mark[l]]
    BY DEF Ends, Drain, PushAnswered, DeletionsPushed, DeletionsRefused, PullApplied, DeletionsPulled,
           PullFails, Crash, marks
  <2>2. QED
    BY <1>3, <2>1 DEF PastInv, TypeOK, PastInstants
<1>7. TypeOK'
  <2>1. pc' \in [Locals -> Phases] /\ mark' \in [Locals -> Nat] /\ flight' \in [Locals -> Nat]
        /\ gone' \in [Servers -> Nat] /\ open' \in [Servers -> Nat]
    BY <1>1 DEF PastInv, TypeOK
  <2>2. edits' \in 0..MaxEdits /\ deletes' \in 0..MaxDeletes
    BY <1>1 DEF PastInv, TypeOK
  <2>3. QED
    BY <1>2, <1>3, <1>4, <1>5, <1>6, <2>1, <2>2 DEF TypeOK
<1>8. PastInstants'
  BY <1>1, <1>3, <1>4, <1>5, <1>6 DEF PastInv, TypeOK, PastInstants
<1>9. QED
  BY <1>3, <1>7, <1>8 DEF PastInv

LEMMA PastNext ==
  ASSUME PastInv, [Next]_vars
  PROVE  PastInv'
<1>1. CASE UNCHANGED vars
  BY <1>1 DEF vars, counts, store, marks, cycle, PastInv, TypeOK, PastInstants
<1>2. QED
  BY <1>1, ByUserOrCycle, PastUsers, PastBegins, PastEnds

-----------------------------------------------------------------------------
(* DeletionsReachMain and DeletionsReachLocals.                             *)

\* What holds of the pushes and pulls of LOCAL l before the step, with the
\* tombstones that are there after it.
Kept(l) ==
  /\ 0 < tomb'[l] /\ tomb'[l] <= lastDeletePush[l] => tomb'[MAIN] > 0 \/ <<l, "push">> \in late'
  /\ 0 < tomb'[MAIN] /\ tomb'[MAIN] <= lastDeletePull[l] => tomb'[l] > 0 \/ <<l, "pull">> \in late'
  /\ pc[l] = "deleteSent" /\ 0 < tomb'[l] /\ tomb'[l] <= mark[l]
       => tomb'[MAIN] > 0 \/ flight[l] > 0 \/ <<l, "push">> \in late'
  /\ pc[l] = "deletePulled" /\ 0 < tomb'[MAIN] /\ tomb'[MAIN] <= mark[l]
       => tomb'[l] > 0 \/ flight[l] > 0 \/ <<l, "pull">> \in late'
  /\ pc[l] = "deleteSent" /\ flight[l] > 0 => tomb'[l] > 0
  /\ pc[l] = "deletePulled" /\ flight[l] > 0 => tomb'[MAIN] > 0

\* Tombstones that stay, and watermarks that are excused, change nothing.
LEMMA NothingShows ==
  ASSUME DeletionInv, tomb' = tomb, late \subseteq late', NEW l \in Locals
  PROVE  Kept(l)
BY DEF DeletionInv, DeletionsAccounted, DeletionsReachMain, DeletionsReachLocals, Kept

\* A tombstone that shows behind a watermark is marked.
LEMMA TombstoneShows ==
  ASSUME DeletionInv, NEW s \in Servers, NEW at \in Nat, Bury(s, at), NEW l \in Locals
  PROVE  Kept(l)
<1>1. CASE tomb[s] # 0
  BY <1>1, NothingShows DEF Bury
<1>2. CASE tomb[s] = 0
  <2>1. tomb' = [tomb EXCEPT ![s] = at] /\ late' = late \cup Passed(s, at)
    BY <1>2 DEF Bury
  <2>2. /\ tomb'[l] = (IF l = s THEN at ELSE tomb[l])
        /\ tomb'[MAIN] = (IF MAIN = s THEN at ELSE tomb[MAIN])
        /\ tomb[l] \in Nat /\ tomb[MAIN] \in Nat /\ l # MAIN
        /\ tomb[l] > 0 => tomb'[l] > 0
        /\ tomb[MAIN] > 0 => tomb'[MAIN] > 0
    BY <1>2, <2>1, MainServer, DeletionConstants DEF DeletionInv, TypeOK
  <2>3. s = l /\ tomb[MAIN] = 0 /\ at <= PushedTo(l) => <<l, "push">> \in late'
    BY <2>1 DEF Passed
  <2>4. s = MAIN /\ tomb[l] = 0 /\ at <= PulledTo(l) => <<l, "pull">> \in late'
    BY <2>1 DEF Passed
  <2>5. /\ at <= lastDeletePush[l] => at <= PushedTo(l)
        /\ at <= lastDeletePull[l] => at <= PulledTo(l)
    BY DEF PushedTo, PulledTo, DeletionInv, TypeOK, MarksAhead
  <2>6. late \subseteq late'
    BY <2>1
  <2>7. CASE s = l
    BY <2>2, <2>3, <2>5, <2>6, <2>7
       DEF Kept, PushedTo, DeletionInv, DeletionsAccounted, DeletionsReachMain, DeletionsReachLocals
  <2>8. CASE s = MAIN
    BY <2>2, <2>4, <2>5, <2>6, <2>8
       DEF Kept, PulledTo, DeletionInv, DeletionsAccounted, DeletionsReachMain, DeletionsReachLocals
  <2>9. CASE s # l /\ s # MAIN
    BY <2>2, <2>6, <2>9 DEF Kept, DeletionInv, DeletionsAccounted, DeletionsReachMain, DeletionsReachLocals
  <2>10. QED
    BY <2>7, <2>8, <2>9
<1>3. QED
  BY <1>1, <1>2

\* A user's delete.
LEMMA DeletionUsers ==
  ASSUME DeletionInv, PastInv', NEW s \in Servers, Uses(s)
  PROVE  DeletionInv'
<1>0. PastInv
  BY DEF DeletionInv, PastInv
<1>1. UNCHANGED <<marks, cycle>>
  BY <1>0, UserStep
<1>2. \A l \in Locals : Kept(l)
  <2>1. CASE UNCHANGED <<tomb, late, gone>>
    BY <2>1, NothingShows
  <2>2. ASSUME NEW at \in Nat, Bury(s, at) PROVE \A l \in Locals : Kept(l)
    BY <2>2, TombstoneShows
  <2>3. QED
    BY <1>0, <2>1, <2>2, UserStep
<1>3. MarksAhead'
  BY <1>1 DEF DeletionInv, MarksAhead, marks, cycle
<1>4. DeletionsAccounted' /\ DeletionsReachMain' /\ DeletionsReachLocals'
  BY <1>1, <1>2 DEF Kept, DeletionsAccounted, DeletionsReachMain, DeletionsReachLocals, marks, cycle
<1>5. QED
  BY <1>3, <1>4 DEF DeletionInv, PastInv

\* A tombstone between the watermark and the mark is in the request or answer.
LEMMA DeletionBegins ==
  ASSUME DeletionInv, PastInv', NEW l \in Locals, Begins(l)
  PROVE  DeletionInv'
<1>1. PICK to \in Phases, stamp \in Nat, since \in Nat :
        /\ stamp <= now
        /\ \/ to \notin {"deleteSent", "deletePulled"}
           \/ to = "deleteSent" /\ stamp = tomb[l] /\ since = lastDeletePush[l]
           \/ to = "deletePulled" /\ stamp = tomb[MAIN] /\ since = lastDeletePull[l]
        /\ UNCHANGED <<now, counts, store, parked, marks>>
        /\ pc' = [pc EXCEPT ![l] = to]
        /\ mark' = [mark EXCEPT ![l] = now]
        /\ flight' = [flight EXCEPT ![l] = IF stamp > since THEN stamp ELSE 0]
  BY PhaseBegun DEF DeletionInv, PastInv
<1>2. UNCHANGED <<tomb, late, lastDeletePush, lastDeletePull>>
  BY <1>1 DEF store, marks
<1>3. DeletionsReachMain' /\ DeletionsReachLocals'
  BY <1>2 DEF DeletionInv, DeletionsReachMain, DeletionsReachLocals
<1>4. /\ pc'[l] = to /\ mark'[l] = now /\ flight'[l] = IF stamp > since THEN stamp ELSE 0
      /\ \A m \in Locals : m # l => pc'[m] = pc[m] /\ mark'[m] = mark[m] /\ flight'[m] = flight[m]
  BY <1>1 DEF DeletionInv, TypeOK
<1>5. MarksAhead'
  BY <1>2, <1>4 DEF DeletionInv, MarksAhead, PastInstants
<1>6. DeletionsAccounted'
  <2> SUFFICES ASSUME NEW m \in Locals
               PROVE  /\ pc'[m] = "deleteSent" /\ 0 < tomb[m] /\ tomb[m] <= mark'[m]
                           => tomb[MAIN] > 0 \/ flight'[m] > 0 \/ <<m, "push">> \in late
                      /\ pc'[m] = "deletePulled" /\ 0 < tomb[MAIN] /\ tomb[MAIN] <= mark'[m]
                           => tomb[m] > 0 \/ flight'[m] > 0 \/ <<m, "pull">> \in late
                      /\ pc'[m] = "deleteSent" /\ flight'[m] > 0 => tomb[m] > 0
                      /\ pc'[m] = "deletePulled" /\ flight'[m] > 0 => tomb[MAIN] > 0
    BY <1>2 DEF DeletionsAccounted
  <2>1. CASE m # l
    BY <1>4, <2>1 DEF DeletionInv, DeletionsAccounted
  <2>2. CASE m = l
    <3>1. /\ tomb[l] \in Nat /\ tomb[MAIN] \in Nat
          /\ lastDeletePush[l] \in Nat /\ lastDeletePull[l] \in Nat
      BY MainServer DEF DeletionInv, TypeOK
    <3>2. QED
      BY <1>1, <1>4, <2>2, <3>1 DEF DeletionInv, DeletionsReachMain, DeletionsReachLocals
  <2>3. QED
    BY <2>1, <2>2
<1>7. QED
  BY <1>3, <1>5, <1>6 DEF DeletionInv, PastInv

\* A deletion that is applied leaves a tombstone, or is marked as skipped.
LEMMA ApplyEither ==
  ASSUME PastInv, NEW s \in Servers, NEW at \in Nat, at > 0, NEW w, ApplyDeletion(s, at, w)
  PROVE  tomb'[s] > 0 \/ w \in late'
BY DEF ApplyDeletion, Applies, Bury, PastInv, TypeOK

\* The watermarks of tombstones move when the phase ends that carries them.
LEMMA WatermarksMove ==
  ASSUME PastInv, NEW l \in Locals, Ends(l)
  PROVE  /\ \/ lastDeletePush' = lastDeletePush
            \/ /\ pc[l] = "deleteSent" /\ lastDeletePush' = [lastDeletePush EXCEPT ![l] = mark[l]]
               /\ flight[l] > 0 => tomb'[MAIN] > 0 \/ <<l, "push">> \in late'
         /\ \/ lastDeletePull' = lastDeletePull
            \/ /\ pc[l] = "deletePulled" /\ lastDeletePull' = [lastDeletePull EXCEPT ![l] = mark[l]]
               /\ flight[l] > 0 => tomb'[l] > 0 \/ <<l, "pull">> \in late'
<1>1. CASE DeletionsPushed(l)
  <2>1. flight[l] > 0 => tomb'[MAIN] > 0 \/ <<l, "push">> \in late'
    BY <1>1, InFlight, MainServer, ApplyEither DEF DeletionsPushed
  <2>2. QED
    BY <1>1, <2>1 DEF DeletionsPushed, End
<1>2. CASE DeletionsPulled(l)
  <2>1. flight[l] > 0 => tomb'[l] > 0 \/ <<l, "pull">> \in late'
    BY <1>2, InFlight, MainServer, ApplyEither DEF DeletionsPulled
  <2>2. QED
    BY <1>2, <2>1 DEF DeletionsPulled, End
<1>3. CASE ~DeletionsPushed(l) /\ ~DeletionsPulled(l)
  BY <1>3 DEF Ends, Drain, PushAnswered, DeletionsRefused, PullApplied, PullFails, Crash, marks
<1>4. QED
  BY <1>1, <1>2, <1>3

\* A watermark moves after the other side has applied what is under way.
LEMMA DeletionEnds ==
  ASSUME DeletionInv, PastInv', NEW l \in Locals, Ends(l)
  PROVE  DeletionInv'
<1>0. PastInv
  BY DEF DeletionInv, PastInv
<1>1. PICK to \in Phases \ {"deleteSent", "deletePulled"} :
        /\ pc' = [pc EXCEPT ![l] = to]
        /\ mark' = mark \/ mark' = [mark EXCEPT ![l] = 0]
        /\ flight' = flight \/ flight' = [flight EXCEPT ![l] = 0]
  BY <1>0, PhaseEnded
<1>2. /\ pc'[l] \notin {"deleteSent", "deletePulled"}
      /\ \A m \in Locals : m # l => pc'[m] = pc[m] /\ mark'[m] = mark[m] /\ flight'[m] = flight[m]
  BY <1>1 DEF DeletionInv, TypeOK
<1>3. \A m \in Locals : Kept(m)
  <2>1. CASE tomb' = tomb /\ late \subseteq late'
    BY <2>1, NothingShows
  <2>2. ASSUME NEW s \in Servers, Bury(s, flight[l]) PROVE \A m \in Locals : Kept(m)
    BY <1>0, <2>2, InFlight, TombstoneShows
  <2>3. QED
    BY <2>1, <2>2, MainServer, TombstoneSteps
<1>4. /\ \A m \in Locals : m # l => lastDeletePush'[m] = lastDeletePush[m] /\ lastDeletePull'[m] = lastDeletePull[m]
      /\ \/ lastDeletePush'[l] = lastDeletePush[l]
         \/ /\ pc[l] = "deleteSent" /\ lastDeletePush'[l] = mark[l]
            /\ flight[l] > 0 => tomb'[MAIN] > 0 \/ <<l, "push">> \in late'
      /\ \/ lastDeletePull'[l] = lastDeletePull[l]
         \/ /\ pc[l] = "deletePulled" /\ lastDeletePull'[l] = mark[l]
            /\ flight[l] > 0 => tomb'[l] > 0 \/ <<l, "pull">> \in late'
  BY <1>0, WatermarksMove DEF PastInv, TypeOK
<1>5. MarksAhead' /\ DeletionsAccounted'
  BY <1>2, <1>3, <1>4 DEF Kept, DeletionInv, MarksAhead, DeletionsAccounted
<1>6. DeletionsReachMain'
  <2> SUFFICES ASSUME NEW m \in Locals, 0 < tomb'[m], tomb'[m] <= lastDeletePush'[m]
               PROVE  tomb'[MAIN] > 0 \/ <<m, "push">> \in late'
    BY DEF DeletionsReachMain
  <2>1. QED
    BY <1>3, <1>4 DEF Kept
<1>7. DeletionsReachLocals'
  <2> SUFFICES ASSUME NEW m \in Locals, 0 < tomb'[MAIN], tomb'[MAIN] <= lastDeletePull'[m]
               PROVE  tomb'[m] > 0 \/ <<m, "pull">> \in late'
    BY DEF DeletionsReachLocals
  <2>1. QED
    BY <1>3, <1>4 DEF Kept
<1>8. QED
  BY <1>5, <1>6, <1>7 DEF DeletionInv, PastInv

LEMMA DeletionNext ==
  ASSUME DeletionInv, [Next]_vars
  PROVE  DeletionInv'
<1>1. PastInv'
  BY PastNext DEF DeletionInv, PastInv
<1>2. CASE UNCHANGED vars
  BY <1>1, <1>2 DEF vars, store, marks, cycle, DeletionInv, PastInv, MarksAhead, DeletionsAccounted,
                    DeletionsReachMain, DeletionsReachLocals
<1>3. QED
  BY <1>1, <1>2, ByUserOrCycle, DeletionUsers, DeletionBegins, DeletionEnds

LEMMA DeletionInvariant == Spec => []DeletionInv
<1>1. Init => DeletionInv
  BY DeletionInit
<1>2. DeletionInv /\ [Next]_vars => DeletionInv'
  BY DeletionNext
<1>3. QED
  BY <1>1, <1>2, PTL DEF Spec

\* Whatever is refused, crashes, overlaps or commits late, on any number of
\* LOCALs: what LAST_DELETE_PUSH has moved past, MAIN has a tombstone for, or it
\* showed behind the watermark, or MAIN skipped it.
THEOREM NoDeletionLost == Spec => []DeletionsReachMain
<1>1. DeletionInv => DeletionsReachMain
  BY DEF DeletionInv
<1>2. QED
  BY <1>1, DeletionInvariant, PTL

\* The same for LAST_DELETE_PULL, whichever servers delete.
THEOREM DeletionsHeard == Spec => []DeletionsReachLocals
<1>1. DeletionInv => DeletionsReachLocals
  BY DEF DeletionInv
<1>2. QED
  BY <1>1, DeletionInvariant, PTL

-----------------------------------------------------------------------------
(* Deleted plans.                                                          *)

\* The phase of LOCAL l that carries a tombstone ends, and server s has it now.
Delivery(l, s) ==
  /\ \A t \in Servers : t # s => tomb'[t] = tomb[t] /\ row'[t] = row[t]
  /\ tomb[s] > 0 => tomb'[s] = tomb[s]
  /\ tomb'[s] # tomb[s] => tomb'[s] = flight[l]
  /\ flight[l] > 0 => tomb'[s] > 0 /\ (PlanBoard => row'[s] = 0)
  /\ flight[l] = 0 => tomb' = tomb /\ row' = row

\* A deletion applied without an error leaves a tombstone.
LEMMA Applied ==
  ASSUME PastInv, NothingSkipped, NEW l \in Locals, NEW s \in Servers, NEW w,
         IF flight[l] > 0 THEN ApplyDeletion(s, flight[l], w) ELSE UNCHANGED <<now, counts, store>>
  PROVE  Delivery(l, s)
<1>1. CASE flight[l] > 0
  <2>1. ~ Fault("skipped")
    BY DEF NothingSkipped, Fault
  <2>2. Applies(s, flight[l])
    BY <1>1, <2>1 DEF ApplyDeletion
  <2>3. QED
    BY <1>1, <2>2, InFlight DEF Applies, Bury, Keeps, Delivery, PastInv, TypeOK
<1>2. CASE ~(flight[l] > 0)
  BY <1>2, InFlight DEF Delivery, store
<1>3. QED
  BY <1>1, <1>2

\* What the end of a phase does to the tombstones.
LEMMA TombstonesEnded ==
  ASSUME PastInv, NothingSkipped, NEW l \in Locals, Ends(l)
  PROVE  \/ tomb' = tomb
         \/ Delivery(l, MAIN) /\ pc[l] = "deleteSent"
         \/ Delivery(l, l) /\ pc[l] = "deletePulled"
<1>1. CASE Drain(l) \/ PushAnswered(l) \/ PullApplied(l) \/ DeletionsRefused(l) \/ PullFails(l)
  BY <1>1 DEF Drain, PushAnswered, PullApplied, DeletionsRefused, PullFails, store
<1>2. CASE DeletionsPushed(l)
  BY <1>2, MainServer, Applied DEF DeletionsPushed, End
<1>3. CASE DeletionsPulled(l)
  BY <1>3, MainServer, Applied DEF DeletionsPulled, End
<1>4. CASE Crash(l)
  <2>1. CASE pc[l] = "deleteSent" /\ flight[l] > 0 /\ Applies(MAIN, flight[l])
    BY <2>1, MainServer, InFlight DEF Applies, Bury, Keeps, Delivery, PastInv, TypeOK
  <2>2. QED
    BY <1>4, <2>1 DEF Crash
<1>5. QED
  BY <1>1, <1>2, <1>3, <1>4 DEF Ends

\* A row that appears on a server is newer than its tombstone: the user wrote it
\* now, or upsertData let it through.
LEMMA RowAppears ==
  ASSUME PastInv, PlanBoard, [Next]_vars, NEW s \in Servers, row'[s] # row[s]
  PROVE  row'[s] = 0 \/ row'[s] > tomb[s]
<1> USE DEF PastInv, TypeOK, PastInstants
<1>1. CASE \E t \in Servers : Uses(t)
  BY <1>1, UserStep
<1>2. CASE \E l \in Locals : Begins(l)
  BY <1>2, PhaseBegun DEF store
<1>3. ASSUME NEW l \in Locals, Ends(l)
      PROVE  row'[s] = 0 \/ row'[s] > tomb[s]
  <2>1. \/ Upsert(MAIN, parked[l]) \/ Upsert(MAIN, flight[l]) \/ Upsert(l, flight[l])
        \/ row' = [row EXCEPT ![MAIN] = 0] \/ row' = [row EXCEPT ![l] = 0]
        \/ row' = row
    BY <1>3 DEF Ends, Drain, PushAnswered, DeletionsPushed, DeletionsRefused, PullApplied, DeletionsPulled,
                PullFails, Crash, ApplyDeletion, Applies, store
  <2>2. ASSUME NEW t \in Servers, NEW at \in Nat, Upsert(t, at)
        PROVE  row'[s] > tomb[s]
    BY <2>2 DEF Upsert, Buried
  <2>3. QED
    BY <1>3, <2>1, <2>2, InFlight, MainServer
<1>4. CASE UNCHANGED vars
  BY <1>4 DEF vars, store
<1>5. QED
  BY <1>1, <1>2, <1>3, <1>4, ByUserOrCycle

\* On every server, whatever fails, "skipped" included: a plan comes back to a
\* server that knows it as deleted only when it was written after the delete.
THEOREM NoPlanResurrected == PlanBoard => (Spec => TombstonesRespected)
<1> SUFFICES ASSUME PlanBoard PROVE Spec => TombstonesRespected
  OBVIOUS
<1>1. Init => PastInv
  BY DeletionInit DEF DeletionInv, PastInv
<1>2. PastInv /\ [Next]_vars => PastInv'
  BY PastNext
<1>3. PastInv /\ [Next]_vars => [\A s \in Servers : row[s] = 0 /\ row'[s] > 0 => row'[s] > tomb[s]]_vars
  BY RowAppears
<1>4. QED
  BY <1>1, <1>2, <1>3, PTL DEF Spec, TombstonesRespected

LEMMA EffectInit == Init => EffectInv
BY DeletionInit, MainServer DEF Init, EffectInv, PlansStayBuried, TombstoneSent, OneDelete, InTime

\* A server's first tombstone stays, and takes the plan away.
LEMMA FirstTombstone ==
  ASSUME EffectInv, PlanBoard, NothingSkipped, [Next]_vars, NEW s \in Servers
  PROVE  /\ tomb[s] > 0 => tomb'[s] = tomb[s]
         /\ tomb'[s] # tomb[s] => row'[s] = 0
<1>0. PastInv
  BY DEF EffectInv, DeletionInv, PastInv
<1>1. ASSUME NEW t \in Servers, Uses(t)
      PROVE  (tomb[s] > 0 => tomb'[s] = tomb[s]) /\ (tomb'[s] # tomb[s] => row'[s] = 0)
  <2>1. open[t] = 0 /\ tomb \in [Servers -> Nat] /\ row \in [Servers -> Nat]
    BY DEF EffectInv, InTime, DeletionInv, TypeOK
  <2>2. QED
    BY <1>1, <2>1 DEF Uses, Edit, Delete, BeginDelete, EndDelete, Deletes, Bury
<1>2. CASE \E l \in Locals : Begins(l)
  BY <1>0, <1>2, PhaseBegun DEF store
<1>3. ASSUME NEW l \in Locals, Ends(l)
      PROVE  (tomb[s] > 0 => tomb'[s] = tomb[s]) /\ (tomb'[s] # tomb[s] => row'[s] = 0)
  <2>1. tomb' = tomb \/ Delivery(l, MAIN) \/ Delivery(l, l)
    BY <1>0, <1>3, TombstonesEnded
  <2>2. QED
    BY <1>0, <2>1, InFlight DEF Delivery
<1>4. CASE UNCHANGED vars
  BY <1>4 DEF vars, store
<1>5. QED
  BY <1>1, <1>2, <1>3, <1>4, ByUserOrCycle

\* The guard of upsertData on plan_board, and the delete of an older row.
LEMMA BuriedNext ==
  ASSUME EffectInv, PlanBoard, NothingSkipped, [Next]_vars
  PROVE  PlansStayBuried'
<1> SUFFICES ASSUME NEW s \in Servers, tomb'[s] > 0 PROVE row'[s] = 0 \/ row'[s] > tomb'[s]
  BY DEF PlansStayBuried
<1>1. CASE tomb'[s] # tomb[s]
  BY <1>1, FirstTombstone
<1>2. CASE tomb'[s] = tomb[s] /\ row'[s] # row[s]
  BY <1>2, RowAppears DEF EffectInv, DeletionInv, PastInv
<1>3. CASE tomb'[s] = tomb[s] /\ row'[s] = row[s]
  BY <1>3 DEF EffectInv, PlansStayBuried
<1>4. QED
  BY <1>1, <1>2, <1>3

\* The first tombstone stays, so one under way is still its sender's.
LEMMA SentNext ==
  ASSUME EffectInv, PlanBoard, NothingSkipped, [Next]_vars
  PROVE  TombstoneSent'
<1> SUFFICES ASSUME NEW m \in Locals
             PROVE  /\ pc'[m] = "deleteSent" /\ flight'[m] > 0 => tomb'[m] = flight'[m]
                    /\ pc'[m] = "deletePulled" /\ flight'[m] > 0 => tomb'[MAIN] = flight'[m]
  BY DEF TombstoneSent
<1>0. PastInv
  BY DEF EffectInv, DeletionInv, PastInv
<1>1. (tomb[m] > 0 => tomb'[m] = tomb[m]) /\ (tomb[MAIN] > 0 => tomb'[MAIN] = tomb[MAIN])
  BY FirstTombstone, MainServer
<1>2. CASE pc'[m] = pc[m] /\ flight'[m] = flight[m]
  BY <1>1, <1>2 DEF EffectInv, TombstoneSent
<1>3. CASE \E l \in Locals : Begins(l)
  <2>1. PICK l \in Locals, to \in Phases, stamp \in Nat, since \in Nat :
          /\ \/ to \notin {"deleteSent", "deletePulled"}
             \/ to = "deleteSent" /\ stamp = tomb[l] /\ since = lastDeletePush[l]
             \/ to = "deletePulled" /\ stamp = tomb[MAIN] /\ since = lastDeletePull[l]
          /\ tomb' = tomb
          /\ pc' = [pc EXCEPT ![l] = to]
          /\ flight' = [flight EXCEPT ![l] = IF stamp > since THEN stamp ELSE 0]
    BY <1>0, <1>3, PhaseBegun DEF store
  <2>2. m # l => pc'[m] = pc[m] /\ flight'[m] = flight[m]
    BY <1>0, <2>1 DEF PastInv, TypeOK
  <2>3. m = l => pc'[m] = to /\ flight'[m] = IF stamp > since THEN stamp ELSE 0
    BY <1>0, <2>1 DEF PastInv, TypeOK
  <2>4. QED
    BY <1>2, <2>1, <2>2, <2>3
<1>4. ASSUME NEW l \in Locals, Ends(l)
      PROVE  pc'[m] \notin {"deleteSent", "deletePulled"} \/ (pc'[m] = pc[m] /\ flight'[m] = flight[m])
  <2>1. PICK to \in Phases \ {"deleteSent", "deletePulled"} :
          /\ pc' = [pc EXCEPT ![l] = to]
          /\ flight' = flight \/ flight' = [flight EXCEPT ![l] = 0]
    BY <1>0, <1>4, PhaseEnded
  <2>2. QED
    BY <1>0, <2>1 DEF PastInv, TypeOK
<1>5. CASE UNCHANGED vars \/ \E s \in Servers : Uses(s)
  BY <1>0, <1>2, <1>5, UserStep DEF vars, cycle
<1>6. QED
  BY <1>2, <1>3, <1>4, <1>5, ByUserOrCycle

\* Tombstones come from deletes and from tombstones.
LEMMA OneDeleteNext ==
  ASSUME EffectInv, NothingSkipped, [Next]_vars
  PROVE  OneDelete'
<1>0. PastInv
  BY DEF EffectInv, DeletionInv, PastInv
<1>1. ASSUME NEW s \in Servers, Delete(s)
      PROVE  OneDelete'
  <2>1. /\ deletes' = deletes + 1 /\ deletes \in Nat
        /\ gone' = [gone EXCEPT ![s] = now + 1]
        /\ tomb' = IF tomb[s] = 0 THEN [tomb EXCEPT ![s] = now + 1] ELSE tomb
    BY <1>0, <1>1, DeletionConstants DEF Delete, Deletes, Bury, PastInv, TypeOK
  <2>2. \A t \in Servers : gone'[t] > 0 => tomb'[t] > 0
    BY <1>0, <2>1 DEF PastInv, TypeOK, EffectInv, OneDelete
  <2>3. deletes' <= 1 => \A t, u \in Servers : tomb'[t] > 0 /\ gone'[u] > 0 => tomb'[t] = gone'[u]
    BY <1>0, <2>1 DEF PastInv, TypeOK, EffectInv, OneDelete
  <2>4. QED
    BY <2>1, <2>2, <2>3 DEF OneDelete
<1>2. CASE UNCHANGED <<deletes, gone, tomb>>
  BY <1>2 DEF EffectInv, OneDelete
<1>3. ASSUME NEW l \in Locals, NEW s \in Servers, Delivery(l, s), UNCHANGED <<deletes, gone>>,
             flight[l] > 0 => \E t \in Servers : tomb[t] = flight[l]
      PROVE  OneDelete'
  <2>1. \A t \in Servers : tomb'[t] = tomb[t] \/ \E u \in Servers : tomb'[t] = tomb[u] /\ tomb[u] > 0
    BY <1>0, <1>3, InFlight DEF Delivery
  <2>2. \A t \in Servers : tomb[t] > 0 => tomb'[t] > 0
    BY <1>3 DEF Delivery
  <2>3. QED
    BY <1>3, <2>1, <2>2 DEF EffectInv, OneDelete
<1>4. ASSUME NEW l \in Locals, Ends(l)
      PROVE  OneDelete'
  <2>1. UNCHANGED <<deletes, gone>>
    BY <1>0, <1>4, PhaseEnded
  <2>2. \/ tomb' = tomb
        \/ Delivery(l, MAIN) /\ pc[l] = "deleteSent"
        \/ Delivery(l, l) /\ pc[l] = "deletePulled"
    BY <1>0, <1>4, TombstonesEnded
  <2>3. pc[l] \in {"deleteSent", "deletePulled"} /\ flight[l] > 0 => \E t \in Servers : tomb[t] = flight[l]
    BY MainServer DEF EffectInv, TombstoneSent
  <2>4. QED
    BY <1>2, <1>3, <2>1, <2>2, <2>3, MainServer
<1>5. ASSUME NEW l \in Locals, Begins(l)
      PROVE  OneDelete'
  BY <1>0, <1>2, <1>5, PhaseBegun DEF counts, store
<1>6. ASSUME NEW s \in Servers, Edit(s) \/ BeginDelete(s) \/ EndDelete(s)
      PROVE  OneDelete'
  <2>1. CASE Edit(s)
    BY <1>2, <2>1 DEF Edit
  <2>2. CASE BeginDelete(s)
    BY <1>0, <2>2, DeletionConstants DEF BeginDelete, EffectInv, OneDelete, PastInv, TypeOK
  <2>3. ~EndDelete(s)
    BY DEF EndDelete, EffectInv, InTime
  <2>4. QED
    BY <1>6, <2>1, <2>2, <2>3
<1>7. CASE UNCHANGED vars
  BY <1>2, <1>7 DEF vars, counts, store
<1>8. QED
  BY <1>1, <1>4, <1>5, <1>6, <1>7, ByUserOrCycle DEF Uses

\* A delete by one statement is stamped later than every watermark.
LEMMA InTimeNext ==
  ASSUME EffectInv, NothingSkipped, SlowDeleters = {}, [Next]_vars
  PROVE  InTime'
<1>0. PastInv
  BY DEF EffectInv, DeletionInv, PastInv
<1>1. ASSUME NEW s \in Servers, Uses(s)
      PROVE  InTime'
  <2>1. ~BeginDelete(s) /\ ~EndDelete(s)
    BY DEF BeginDelete, EndDelete, EffectInv, InTime
  <2>2. CASE Edit(s)
    BY <2>2 DEF Edit, EffectInv, InTime
  <2>3. CASE Delete(s)
    <3>1. \A l \in Locals : <<l, "push">> \notin Passed(s, now + 1)
      BY <1>0 DEF Passed, PushedTo, PastInv, TypeOK, PastInstants
    <3>2. open' = open /\ (late' = late \/ late' = late \cup Passed(s, now + 1))
      BY <2>3 DEF Delete, Deletes, Bury
    <3>3. QED
      BY <3>1, <3>2 DEF EffectInv, InTime
  <2>4. QED
    BY <1>1, <2>1, <2>2, <2>3 DEF Uses
<1>2. ASSUME NEW l \in Locals, Ends(l)
      PROVE  InTime'
  <2>1. open' = open
    BY <1>0, <1>2, PhaseEnded
  <2>2. ASSUME NEW at, Bury(MAIN, at)
        PROVE  InTime'
    BY <2>1, <2>2, DeletionConstants DEF Bury, Passed, EffectInv, InTime
  <2>3. ASSUME Bury(l, flight[l]), pc[l] = "deletePulled", flight[l] > 0
        PROVE  InTime'
    <3>1. tomb[MAIN] # 0
      <4>1. DeletionsAccounted /\ l \in Locals
        BY <1>2 DEF EffectInv, DeletionInv
      <4>2. tomb[MAIN] > 0
        BY <2>3, <4>1 DEF DeletionsAccounted
      <4>3. QED
        BY <4>2
    <3>2. QED
      BY <2>1, <2>3, <3>1 DEF Bury, Passed, EffectInv, InTime
  <2>4. QED
    BY <1>2, <2>1, <2>2, <2>3, TombstoneSteps DEF NothingSkipped, EffectInv, InTime
<1>3. ASSUME NEW l \in Locals, Begins(l)
      PROVE  InTime'
  BY <1>0, <1>3, PhaseBegun DEF store, EffectInv, InTime
<1>4. CASE UNCHANGED vars
  BY <1>4 DEF vars, store, EffectInv, InTime
<1>5. QED
  BY <1>1, <1>2, <1>3, <1>4, ByUserOrCycle

LEMMA EffectNext ==
  ASSUME EffectInv, PlanBoard, NothingSkipped, SlowDeleters = {}, [Next]_vars
  PROVE  EffectInv'
BY DeletionNext, BuriedNext, SentNext, OneDeleteNext, InTimeNext DEF EffectInv

\* With one delete, the tombstones of the LOCAL and of MAIN are of that delete, and
\* a row of MAIN is newer.
LEMMA EffectMeans ==
  ASSUME EffectInv, deletes <= 1
  PROVE  DeletesTakeEffect
<1> SUFFICES ASSUME NEW l \in Locals, gone[l] > 0, gone[l] <= lastDeletePush[l]
             PROVE  row[MAIN] = 0 \/ row[MAIN] > gone[l]
  BY DEF DeletesTakeEffect
<1>1. tomb[l] > 0 /\ tomb[l] = gone[l]
  BY MainServer DEF EffectInv, OneDelete
<1>2. tomb[MAIN] > 0
  BY <1>1 DEF EffectInv, InTime, DeletionInv, DeletionsReachMain
<1>3. tomb[MAIN] = gone[l]
  BY <1>2, MainServer DEF EffectInv, OneDelete
<1>4. QED
  BY <1>2, <1>3, MainServer DEF EffectInv, PlansStayBuried

\* Users of any number of servers edit, delete and recreate a plan, each by a
\* statement of its own, as the routes do: until one of them deletes it a second
\* time, a delete that LAST_DELETE_PUSH has moved past has taken effect on MAIN.
THEOREM PlanDeletesTakeEffect ==
  PlanBoard /\ NothingSkipped /\ SlowDeleters = {} => (Spec => [](deletes <= 1 => DeletesTakeEffect))
<1> SUFFICES ASSUME PlanBoard, NothingSkipped, SlowDeleters = {} PROVE Spec => [](deletes <= 1 => DeletesTakeEffect)
  OBVIOUS
<1>1. Init => EffectInv
  BY EffectInit
<1>2. EffectInv /\ [Next]_vars => EffectInv'
  BY EffectNext
<1>3. EffectInv => (deletes <= 1 => DeletesTakeEffect)
  BY EffectMeans
<1>4. QED
  BY <1>1, <1>2, <1>3, PTL DEF Spec

=============================================================================
