---------------------------- MODULE DeletionSync ----------------------------
(***************************************************************************)
(* Deletions between the LOCALs and MAIN: the tombstones of sync_deletions *)
(* (BACKEND/services/sync.service.js), for one key of one table.           *)
(*                                                                         *)
(* A row carries nothing that says it was deleted, so deleting it records  *)
(* a tombstone, which travels beside the rows: a cycle pushes rows, pushes *)
(* tombstones, pulls rows, pulls tombstones, each with a watermark of its  *)
(* own.  The rows travel as in RowSync, reduced to what deletions meet:    *)
(* the stamp of the row, the parked payload, the pull's overlap.           *)
(*                                                                         *)
(* Stamps and tombstones are instants of one clock; 0 stands for no row    *)
(* and for no tombstone.                                                   *)
(*                                                                         *)
(* Left out, and why: what happens to the rows alone is RowSync; paging by *)
(* id, since one key has one tombstone; plans that are Running and         *)
(* plan_board's 15-second rule.                                            *)
(***************************************************************************)
EXTENDS Naturals

CONSTANTS
  Locals,     \* the LOCALs that the key's rows and tombstones reach
  MAIN,
  Deleters,   \* the servers whose users delete the row by a statement of its own
  SlowDeleters, \* those whose users delete it in a longer transaction
  Recreates,  \* users insert the key again after deleting it
  PlanBoard,  \* the table is plan_board, and no plan of it is Running
  Overlap,    \* SYNC_PULL_OVERLAP_MS
  Tolerance,  \* DELETE_SKEW_TOLERANCE_MS
  Faults,     \* the faults that may happen
  MaxEdits,   \* bound: inserts and updates by users
  MaxDeletes, \* bound: deletes by users
  MaxFaults   \* bound: faults

Servers == Locals \cup {MAIN}

ASSUME DeletionConstants ==
  /\ MAIN \notin Locals
  /\ Deleters \subseteq Servers /\ SlowDeleters \subseteq Servers
  /\ Recreates \in BOOLEAN
  /\ PlanBoard \in BOOLEAN
  /\ Overlap \in Nat /\ Tolerance \in Nat
  /\ MaxEdits \in Nat /\ MaxDeletes \in Nat /\ MaxFaults \in Nat
  /\ Faults \subseteq {"rows_refused", "tombs_refused", "skipped", "crash"}

VARIABLES
  now,       \* the clock
  edits, deletes, faults,  \* how many there were so far
  row,       \* row[s]: updated_at of the copy of server s
  tomb,      \* tomb[s]: deleted_at of its tombstone
  gone,      \* history: when a user last deleted the row on s
  open,      \* open[s]: when an open transaction that will delete began, or 0
  late,      \* history: watermarks that had passed a tombstone before it showed
  parked,    \* sync_failed_rows
  lastPush, lastDeletePush, lastPull, lastDeletePull,  \* server_config
  pc,        \* where the cycle of a LOCAL stands
  mark,      \* the cycleWatermark of its phase
  flight     \* the row's stamp, or the tombstone, that is under way

counts == <<edits, deletes, faults>>
store  == <<row, tomb, gone, open, late>>
marks  == <<lastPush, lastDeletePush, lastPull, lastDeletePull>>
cycle  == <<pc, mark, flight>>
vars   == <<now, counts, store, parked, marks, cycle>>

Phases == {"idle", "push", "sent", "delete", "deleteSent", "pull", "pulled",
           "deletePull", "deletePulled"}

TypeOK ==
  /\ now \in Nat
  /\ edits \in 0..MaxEdits
  /\ deletes \in 0..MaxDeletes
  /\ faults \in 0..MaxFaults
  /\ row \in [Servers -> Nat] /\ tomb \in [Servers -> Nat] /\ gone \in [Servers -> Nat]
  /\ open \in [Servers -> Nat] /\ late \subseteq Locals \X {"push", "pull"}
  /\ parked \in [Locals -> Nat]
  /\ lastPush \in [Locals -> Nat] /\ lastDeletePush \in [Locals -> Nat]
  /\ lastPull \in [Locals -> Nat] /\ lastDeletePull \in [Locals -> Nat]
  /\ mark \in [Locals -> Nat] /\ flight \in [Locals -> Nat]
  /\ pc \in [Locals -> Phases]

\* The row has long been everywhere.
Init ==
  /\ now = 1
  /\ edits = 0 /\ deletes = 0 /\ faults = 0
  /\ row = [s \in Servers |-> 1]
  /\ tomb = [s \in Servers |-> 0]
  /\ gone = [s \in Servers |-> 0]
  /\ open = [s \in Servers |-> 0]
  /\ late = {}
  /\ parked = [l \in Locals |-> 0]
  /\ lastPush = [l \in Locals |-> 1]
  /\ lastDeletePush = [l \in Locals |-> 1]
  /\ lastPull = [l \in Locals |-> 1]
  /\ lastDeletePull = [l \in Locals |-> 1]
  /\ pc = [l \in Locals |-> "idle"]
  /\ mark = [l \in Locals |-> 0]
  /\ flight = [l \in Locals |-> 0]

Fault(kind) ==
  /\ kind \in Faults
  /\ faults < MaxFaults
  /\ faults' = faults + 1
  /\ UNCHANGED <<edits, deletes>>

-----------------------------------------------------------------------------
(* Users.                                                                  *)

Edit(s) ==
  /\ edits < MaxEdits
  /\ row[s] > 0 \/ Recreates
  /\ edits' = edits + 1
  /\ now' = now + 1
  /\ row' = [row EXCEPT ![s] = now + 1]
  /\ UNCHANGED <<deletes, faults, tomb, gone, open, late, parked, marks, cycle>>

\* How far the pushes of LOCAL l, and its pulls, have looked for tombstones.
PushedTo(l) == IF pc[l] = "deleteSent" THEN mark[l] ELSE lastDeletePush[l]
PulledTo(l) == IF pc[l] = "deletePulled" THEN mark[l] ELSE lastDeletePull[l]

\* The watermarks that have passed deletedAt before the tombstone shows on s and
\* will not look back, of servers that have not heard of it.
Passed(s, deletedAt) ==
  {<<l, "push">> : l \in {m \in Locals : m = s /\ tomb[MAIN] = 0 /\ deletedAt <= PushedTo(m)}} \cup
  {<<l, "pull">> : l \in {m \in Locals : s = MAIN /\ tomb[m] = 0 /\ deletedAt <= PulledTo(m)}}

\* INSERT INTO sync_deletions ... ON CONFLICT DO NOTHING: the first one stays.
Bury(s, deletedAt) ==
  IF tomb[s] = 0
    THEN tomb' = [tomb EXCEPT ![s] = deletedAt] /\ late' = late \cup Passed(s, deletedAt)
    ELSE UNCHANGED <<tomb, late>>

\* The AFTER DELETE trigger record_sync_deletion; NOW() is deletedAt.
Deletes(s, deletedAt) ==
  /\ row[s] > 0
  /\ row' = [row EXCEPT ![s] = 0]
  /\ Bury(s, deletedAt)
  /\ gone' = [gone EXCEPT ![s] = deletedAt]

\* A user deletes the row by a statement of its own.
Delete(s) ==
  /\ s \in Deleters
  /\ deletes < MaxDeletes
  /\ deletes' = deletes + 1
  /\ now' = now + 1
  /\ Deletes(s, now + 1)
  /\ UNCHANGED <<edits, faults, open, parked, marks, cycle>>

\* A transaction begins that will delete it: NOW() is this moment.
BeginDelete(s) ==
  /\ s \in SlowDeleters /\ open[s] = 0
  /\ deletes < MaxDeletes
  /\ deletes' = deletes + 1
  /\ now' = now + 1
  /\ open' = [open EXCEPT ![s] = now + 1]
  /\ UNCHANGED <<edits, faults, row, tomb, gone, late, parked, marks, cycle>>

\* It deletes and commits, or rolls back; who wants the row in between waits.
EndDelete(s) ==
  /\ open[s] > 0
  /\ open' = [open EXCEPT ![s] = 0]
  /\ Deletes(s, open[s]) \/ UNCHANGED <<row, tomb, late, gone>>
  /\ UNCHANGED <<now, counts, parked, marks, cycle>>

-----------------------------------------------------------------------------
(* upsertData and applyRemoteDeletions.                                    *)

Buried_Ignored(s, at) == FALSE

\* plan_board only: a tombstone at least as new as the row keeps it out.
Buried(s, at) == PlanBoard /\ tomb[s] > 0 /\ tomb[s] >= at

\* An update is re-stamped on MAIN; an insert, and LOCALs, keep the stamp.
Upsert(s, at) ==
  IF at <= row[s] \/ Buried(s, at)
    THEN UNCHANGED <<now, row>>
    ELSE IF s = MAIN /\ row[s] > 0
      THEN now' = now + 1 /\ row' = [row EXCEPT ![s] = now + 1]
      ELSE UNCHANGED now /\ row' = [row EXCEPT ![s] = at]

Keeps(s, deletedAt) == row[s] > deletedAt + Tolerance /\ ~PlanBoard

Applies(s, deletedAt) ==
  /\ Bury(s, deletedAt)
  /\ row' = IF Keeps(s, deletedAt) THEN row ELSE [row EXCEPT ![s] = 0]

\* A savepoint isolates the deletion; an error in it counts as skipped, not as
\* failed, and watermark w goes on past it.
ApplyDeletion(s, deletedAt, w) ==
  /\ \/ Applies(s, deletedAt) /\ UNCHANGED counts
     \/ Fault("skipped") /\ late' = late \cup {w} /\ UNCHANGED <<tomb, row>>
  /\ UNCHANGED <<now, gone, open>>

-----------------------------------------------------------------------------
(* The cycle of LOCAL l.                                                   *)

Goto(l, phase) == pc' = [pc EXCEPT ![l] = phase]

Begin(l, from, to, stamp, since) ==
  /\ pc[l] = from
  /\ Goto(l, to)
  /\ mark' = [mark EXCEPT ![l] = now]
  /\ flight' = [flight EXCEPT ![l] = IF stamp > since THEN stamp ELSE 0]
  /\ UNCHANGED <<now, counts, store, parked, marks>>

End(l, from, to) ==
  /\ pc[l] = from
  /\ Goto(l, to)
  /\ mark' = [mark EXCEPT ![l] = 0]
  /\ flight' = [flight EXCEPT ![l] = 0]

\* drainOutbox, a cycle's first step: the parked payload is sent as it was.
Drain(l) ==
  /\ pc[l] = "idle"
  /\ Goto(l, "push")
  /\ \/ Upsert(MAIN, parked[l]) /\ parked' = [parked EXCEPT ![l] = 0] /\ UNCHANGED counts
     \/ Fault("rows_refused") /\ parked[l] > 0 /\ UNCHANGED <<now, row, parked>>
  /\ UNCHANGED <<tomb, gone, open, late, marks, mark, flight>>

Push(l) == Begin(l, "push", "sent", row[l], lastPush[l])

PushAnswered(l) ==
  /\ End(l, "sent", "delete")
  /\ \/ Upsert(MAIN, flight[l]) /\ UNCHANGED <<counts, parked>>
     \/ /\ Fault("rows_refused") /\ flight[l] > 0
        /\ parked' = [parked EXCEPT ![l] = flight[l]]
        /\ UNCHANGED <<now, row>>
  /\ lastPush' = [lastPush EXCEPT ![l] = mark[l]]
  /\ UNCHANGED <<tomb, gone, open, late, lastDeletePush, lastPull, lastDeletePull>>

PushDeletions(l) == Begin(l, "delete", "deleteSent", tomb[l], lastDeletePush[l])

DeletionsPushed_AtNow(l) ==
  /\ End(l, "deleteSent", "pull")
  /\ IF flight[l] > 0 THEN ApplyDeletion(MAIN, flight[l], <<l, "push">>) ELSE UNCHANGED <<now, counts, store>>
  /\ lastDeletePush' = [lastDeletePush EXCEPT ![l] = now]
  /\ UNCHANGED <<parked, lastPush, lastPull, lastDeletePull>>

DeletionsPushed(l) ==
  /\ End(l, "deleteSent", "pull")
  /\ IF flight[l] > 0 THEN ApplyDeletion(MAIN, flight[l], <<l, "push">>) ELSE UNCHANGED <<now, counts, store>>
  /\ lastDeletePush' = [lastDeletePush EXCEPT ![l] = mark[l]]
  /\ UNCHANGED <<parked, lastPush, lastPull, lastDeletePull>>

DeletionsRefused_Advances(l) ==
  /\ End(l, "deleteSent", "pull")
  /\ flight[l] > 0
  /\ Fault("tombs_refused")
  /\ lastDeletePush' = [lastDeletePush EXCEPT ![l] = mark[l]]
  /\ UNCHANGED <<now, store, parked, lastPush, lastPull, lastDeletePull>>

\* LAST_DELETE_PUSH is held; the tombstone goes out again.
DeletionsRefused(l) ==
  /\ End(l, "deleteSent", "pull")
  /\ flight[l] > 0
  /\ Fault("tombs_refused")
  /\ UNCHANGED <<now, store, parked, marks>>

PullSince(l) == IF lastPull[l] > Overlap THEN lastPull[l] - Overlap ELSE 0
Pull(l) == Begin(l, "pull", "pulled", row[MAIN], PullSince(l))

PullApplied(l) ==
  /\ End(l, "pulled", "deletePull")
  /\ Upsert(l, flight[l])
  /\ lastPull' = [lastPull EXCEPT ![l] = mark[l]]
  /\ UNCHANGED <<counts, tomb, gone, open, late, parked, lastPush, lastDeletePush, lastDeletePull>>

PullDeletions(l) == Begin(l, "deletePull", "deletePulled", tomb[MAIN], lastDeletePull[l])

DeletionsPulled_Forgets(l) ==
  /\ End(l, "deletePulled", "idle")
  /\ UNCHANGED <<now, counts, store>>
  /\ lastDeletePull' = [lastDeletePull EXCEPT ![l] = mark[l]]
  /\ UNCHANGED <<parked, lastPush, lastDeletePush, lastPull>>

DeletionsPulled(l) ==
  /\ End(l, "deletePulled", "idle")
  /\ IF flight[l] > 0 THEN ApplyDeletion(l, flight[l], <<l, "pull">>) ELSE UNCHANGED <<now, counts, store>>
  /\ lastDeletePull' = [lastDeletePull EXCEPT ![l] = mark[l]]
  /\ UNCHANGED <<parked, lastPush, lastDeletePush, lastPull>>

\* A pull MAIN does not serve: its watermark is held, the cycle goes on.
PullFails(l) ==
  /\ \/ End(l, "pulled", "deletePull") /\ Fault("rows_refused")
     \/ End(l, "deletePulled", "idle") /\ Fault("tombs_refused")
  /\ UNCHANGED <<now, store, parked, marks>>

\* The LOCAL's process dies; a request it had sent may still be worked off.
Crash(l) ==
  /\ pc[l] # "idle"
  /\ End(l, pc[l], "idle")
  /\ Fault("crash")
  /\ \/ UNCHANGED <<now, row, tomb, late>>
     \/ pc[l] = "sent" /\ Upsert(MAIN, flight[l]) /\ UNCHANGED <<tomb, late>>
     \/ pc[l] = "deleteSent" /\ flight[l] > 0 /\ Applies(MAIN, flight[l]) /\ UNCHANGED now
  /\ UNCHANGED <<gone, open, parked, marks>>

-----------------------------------------------------------------------------

Progress(l) ==
  \/ Drain(l) \/ Push(l) \/ PushAnswered(l)
  \/ PushDeletions(l) \/ DeletionsPushed(l)
  \/ Pull(l) \/ PullApplied(l)
  \/ PullDeletions(l) \/ DeletionsPulled(l)

Next ==
  \/ \E s \in Servers : Edit(s) \/ Delete(s) \/ BeginDelete(s) \/ EndDelete(s)
  \/ \E l \in Locals : Progress(l) \/ DeletionsRefused(l) \/ PullFails(l) \/ Crash(l)

Spec == Init /\ [][Next]_vars

\* Cycles go on for ever; users and faults are not fair.
FairSpec == Spec /\ \A l \in Locals : WF_vars(Progress(l))

-----------------------------------------------------------------------------

\* What LAST_DELETE_PUSH has moved past, MAIN has heard of (pushDeletionChanges
\* holds the watermark when a request fails), through refusals, crashes and
\* deletes in open transactions; but for a tombstone that showed, at its commit,
\* behind the watermark, and one that MAIN skipped.
DeletionsReachMain ==
  \A l \in Locals :
    0 < tomb[l] /\ tomb[l] <= lastDeletePush[l] => tomb[MAIN] > 0 \/ <<l, "push">> \in late

\* What LAST_DELETE_PULL has moved past, the LOCAL has heard of, whichever server
\* it was deleted on (getDeletionChanges); with the same exceptions, a tombstone
\* shows on MAIN when another LOCAL's push brings it, too.
DeletionsReachLocals ==
  \A l \in Locals :
    0 < tomb[MAIN] /\ tomb[MAIN] <= lastDeletePull[l] => tomb[l] > 0 \/ <<l, "pull">> \in late

\* Without the exceptions: "Hold the watermark when a batch failed so those
\* tombstones are retried" (1826) ...
EveryDeletionSent ==
  \A l \in Locals : 0 < tomb[l] /\ tomb[l] <= lastDeletePush[l] => tomb[MAIN] > 0

\* ... and "their deletions must reach every factory too" (2681).
EveryDeletionHeard ==
  \A l \in Locals : 0 < tomb[MAIN] /\ tomb[MAIN] <= lastDeletePull[l] => tomb[l] > 0

\* A user's delete that LAST_DELETE_PUSH has moved past took effect: MAIN has
\* no copy of the row, or one stamped after the delete.
DeletesTakeEffect ==
  \A l \in Locals :
    gone[l] > 0 /\ gone[l] <= lastDeletePush[l] /\ row[l] = 0
      => row[MAIN] = 0 \/ row[MAIN] > gone[l]

\* "tombstones respected; no ... resurrected rows" (docs/TESTING.md): a row
\* comes back to a server that knows it as deleted only when it was written
\* after that delete.
TombstonesRespected ==
  [][\A s \in Servers : row[s] = 0 /\ row'[s] > 0 => row'[s] > tomb[s]]_vars

\* A row that nobody edits ends deleted everywhere, or nowhere: what became of
\* it reaches every server (the watermarks of deletions, and the guards that
\* keep a pull or a parked payload from undoing one).
Agree == \A l \in Locals : row[l] > 0 <=> row[MAIN] > 0
DeletesConverge == [](edits = 0) => <>[]Agree

\* "A row edited strictly AFTER the delete is a genuine newer intent and still
\* passes through" (sync.service.js:2334): the servers agree in the end on a plan
\* that is edited too.
PlansAgree == <>[]Agree

-----------------------------------------------------------------------------
(* What makes DeletionsReachMain and DeletionsReachLocals inductive.       *)

PastInstants ==
  /\ \A s \in Servers : row[s] <= now /\ tomb[s] <= now /\ open[s] <= now
  /\ \A l \in Locals : parked[l] <= now /\ mark[l] <= now /\ flight[l] <= now
  /\ \A l \in Locals : lastDeletePush[l] <= now /\ lastDeletePull[l] <= now

\* A tombstone that a push is about to move past is on MAIN or in the request,
\* one that a pull is about to move past is on the LOCAL or in the answer, or it
\* showed too late; what a pull carries came from MAIN.
DeletionsAccounted ==
  \A l \in Locals :
    /\ pc[l] = "deleteSent" /\ 0 < tomb[l] /\ tomb[l] <= mark[l]
         => tomb[MAIN] > 0 \/ flight[l] > 0 \/ <<l, "push">> \in late
    /\ pc[l] = "deletePulled" /\ 0 < tomb[MAIN] /\ tomb[MAIN] <= mark[l]
         => tomb[l] > 0 \/ flight[l] > 0 \/ <<l, "pull">> \in late
    /\ pc[l] = "deleteSent" /\ flight[l] > 0 => tomb[l] > 0
    /\ pc[l] = "deletePulled" /\ flight[l] > 0 => tomb[MAIN] > 0

\* The mark of a phase is taken after the watermark it will replace.
MarksAhead ==
  \A l \in Locals :
    /\ pc[l] = "deleteSent" => lastDeletePush[l] <= mark[l]
    /\ pc[l] = "deletePulled" => lastDeletePull[l] <= mark[l]

DeletionInv ==
  /\ TypeOK /\ PastInstants /\ MarksAhead
  /\ DeletionsAccounted /\ DeletionsReachMain /\ DeletionsReachLocals

-----------------------------------------------------------------------------
(* What makes DeletesTakeEffect inductive for plan_board.                  *)

\* A plan that a server knows as deleted is there only if written afterwards.
PlansStayBuried == \A s \in Servers : tomb[s] > 0 => row[s] = 0 \/ row[s] > tomb[s]

\* A tombstone under way is the sender's.
TombstoneSent ==
  \A l \in Locals :
    /\ pc[l] = "deleteSent" /\ flight[l] > 0 => tomb[l] = flight[l]
    /\ pc[l] = "deletePulled" /\ flight[l] > 0 => tomb[MAIN] = flight[l]

\* All tombstones are of the one delete, as long as there was only one.
OneDelete ==
  /\ deletes = 0 => \A s \in Servers : gone[s] = 0 /\ tomb[s] = 0
  /\ \A s \in Servers : gone[s] > 0 => tomb[s] > 0
  /\ deletes <= 1 => \A s, t \in Servers : tomb[s] > 0 /\ gone[t] > 0 => tomb[s] = gone[t]

\* Where deletes are statements of their own, a tombstone shows ahead of its
\* server's LAST_DELETE_PUSH.
InTime == (\A s \in Servers : open[s] = 0) /\ \A l \in Locals : <<l, "push">> \notin late

EffectInv == DeletionInv /\ PlansStayBuried /\ TombstoneSent /\ OneDelete /\ InTime

=============================================================================
