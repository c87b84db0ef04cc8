------------------------------ MODULE RowSync ------------------------------
(***************************************************************************)
(* Row replication between the factory (LOCAL) servers and the MAIN        *)
(* server: BACKEND/services/sync.service.js, one synchronised table.       *)
(*                                                                         *)
(* Every LOCAL runs sync cycles.  A cycle drains the outbox of rows that   *)
(* earlier cycles could not deliver, pushes the rows stamped after         *)
(* LAST_PUSH in pages of ids, advances LAST_PUSH, pulls MAIN's rows        *)
(* stamped after LAST_PULL minus an overlap and advances LAST_PULL.        *)
(* Users edit rows on LOCALs and on MAIN between any two of these steps;   *)
(* requests are refused, time out, are half applied or arrive late.        *)
(*                                                                         *)
(* A row is what the protocol can tell apart: which edit wrote its content *)
(* (ver) and its updated_at (at).  One clock serves all the servers: the   *)
(* clock differences of the real ones are outside this module.             *)
(*                                                                         *)
(* Operators named X_Bug stand beside the operator X they spoil and are    *)
(* used by no action: they show that the properties notice the bug.        *)
(***************************************************************************)
EXTENDS Integers, FiniteSets

CONSTANTS
  Locals,       \* the factory servers
  MAIN,         \* the VPS
  Keys,         \* ids of the table's rows
  Scope,        \* Scope[k]: the LOCALs that edit, push and pull row k: its
                \* factory, or every LOCAL for a global table
  BatchSize,    \* PUSH_BATCH_SIZE
  Overlap,      \* SYNC_PULL_OVERLAP_MS, in clock ticks
  Faults,       \* the faults that may happen
  SlowServers,  \* the servers on which a transaction may stay open
  MaxEdits,     \* bound: edits of all users together
  MaxFaults     \* bound: faults and crashes together

FaultKinds == {"refused", "timeout", "row_error", "crash",
               "safety_net", "query_error", "reset"}

Servers == Locals \cup {MAIN}

ASSUME SyncConstants ==
  /\ MAIN \notin Locals
  /\ Keys \subseteq Nat \ {0}
  /\ Scope \in [Keys -> SUBSET Locals]
  /\ BatchSize \in Nat \ {0}
  /\ Overlap \in Nat
  /\ Faults \subseteq FaultKinds
  /\ SlowServers \subseteq Servers
  /\ MaxEdits \in Nat
  /\ MaxFaults \in Nat

Row == [ver : Nat, at : Nat]
NoRow == [ver |-> 0, at |-> 0]
NoRows == [k \in Keys |-> NoRow]
Carried(f) == {k \in Keys : f[k].at > 0}
Without(f, bad) == [k \in Keys |-> IF k \in bad THEN NoRow ELSE f[k]]

VARIABLES
  now,       \* the clock: the last stamp given out
  edits,     \* edits made so far; also the version the last one wrote
  faults,    \* faults and crashes so far
  row,       \* row[s][k]: server s's committed copy of row k
  open,      \* open[s][k]: the image an uncommitted transaction wrote
  outbox,    \* sync_failed_rows of a LOCAL: the parked payload of row k
  limbo,     \* payloads whose sender gave up and that MAIN may yet apply
  lastPush,  \* server_config LAST_PUSH
  lastPull,  \* server_config LAST_PULL
  pc,        \* where a LOCAL's cycle stands
  since,     \* the watermark the phase under way filters on
  mark,      \* cycleWatermark of the phase under way
  afterId,   \* the id cursor of pushTableAllBatches
  flight     \* the rows of the request or reply under way

store == <<row, open>>
cycle == <<pc, since, mark, afterId, flight>>
kept  == <<outbox, lastPush, lastPull>>
vars  == <<now, edits, faults, store, kept, limbo, cycle>>

Phases == {"idle", "drain", "mark", "select", "send", "close", "pull", "ask", "apply"}

TypeOK ==
  /\ now \in Nat
  /\ edits \in 0..MaxEdits
  /\ faults \in 0..MaxFaults
  /\ row \in [Servers -> [Keys -> Row]]
  /\ open \in [Servers -> [Keys -> Row]]
  /\ outbox \in [Locals -> [Keys -> Row]]
  /\ limbo \in SUBSET [Keys -> Row]
  /\ lastPush \in [Locals -> Nat]
  /\ lastPull \in [Locals -> Nat]
  /\ pc \in [Locals -> Phases]
  /\ since \in [Locals -> Nat]
  /\ mark \in [Locals -> Nat]
  /\ afterId \in [Locals -> Nat]
  /\ flight \in [Locals -> [Keys -> Row]]

Init ==
  /\ now = 0
  /\ edits = 0
  /\ faults = 0
  /\ row = [s \in Servers |-> NoRows]
  /\ open = [s \in Servers |-> NoRows]
  /\ outbox = [l \in Locals |-> NoRows]
  /\ limbo = {}
  /\ lastPush = [l \in Locals |-> 0]
  /\ lastPull = [l \in Locals |-> 0]
  /\ pc = [l \in Locals |-> "idle"]
  /\ since = [l \in Locals |-> 0]
  /\ mark = [l \in Locals |-> 0]
  /\ afterId = [l \in Locals |-> 0]
  /\ flight = [l \in Locals |-> NoRows]

Goto(l, phase) == pc' = [pc EXCEPT ![l] = phase]

\* The variables of a cycle die with it.
EndCycle(l) ==
  /\ Goto(l, "idle")
  /\ since' = [since EXCEPT ![l] = 0]
  /\ mark' = [mark EXCEPT ![l] = 0]
  /\ afterId' = [afterId EXCEPT ![l] = 0]
  /\ flight' = [flight EXCEPT ![l] = NoRows]

Fault(kind) ==
  /\ kind \in Faults
  /\ faults < MaxFaults
  /\ faults' = faults + 1

-----------------------------------------------------------------------------
(* Users: an edit stamps updated_at = NOW(), the start of its transaction. *)

MayEdit(s, k) == s = MAIN \/ s \in Scope[k]
NextEdit == [ver |-> edits + 1, at |-> now + 1]

Stamp(s, k) ==
  /\ MayEdit(s, k)
  /\ edits < MaxEdits
  /\ open[s][k] = NoRow
  /\ edits' = edits + 1
  /\ now' = now + 1
  /\ UNCHANGED <<faults, kept, limbo, cycle>>

Edit(s, k) ==
  /\ Stamp(s, k)
  /\ row' = [row EXCEPT ![s][k] = NextEdit]
  /\ UNCHANGED open

\* A transaction that updates the row at once and commits later; it holds the
\* row lock in between.
BeginEdit(s, k) ==
  /\ s \in SlowServers
  /\ Stamp(s, k)
  /\ open' = [open EXCEPT ![s][k] = NextEdit]
  /\ UNCHANGED row

\* On MAIN a transaction lives for less than the overlap; a longer one is
\* rolled back (the bound SYNC_PULL_OVERLAP_MS is chosen for).
CommitEdit(s, k) ==
  /\ open[s][k] # NoRow
  /\ s = MAIN => open[s][k].at + Overlap > now
  /\ row' = [row EXCEPT ![s][k] = open[s][k]]
  /\ open' = [open EXCEPT ![s][k] = NoRow]
  /\ UNCHANGED <<now, edits, faults, kept, limbo, cycle>>

AbortEdit(s, k) ==
  /\ open[s][k] # NoRow
  /\ open' = [open EXCEPT ![s][k] = NoRow]
  /\ UNCHANGED <<now, edits, faults, row, kept, limbo, cycle>>

-----------------------------------------------------------------------------
(* upsertData: a row is applied only when it is newer than the copy held.  *)
(* MAIN's BEFORE UPDATE trigger re-stamps an updated row; an inserted one  *)
(* keeps the stamp it was sent with.                                       *)

Newer(s, f) == {k \in Keys : f[k].at > row[s][k].at}
Updated(s, f) == {k \in Newer(s, f) : row[s][k].at > 0}
Unlocked(s, f) == \A k \in Newer(s, f) : open[s][k] = NoRow

UpsertAtMain(f) ==
  /\ Unlocked(MAIN, f)
  /\ now' = IF Updated(MAIN, f) = {} THEN now ELSE now + 1
  /\ row' = [row EXCEPT ![MAIN] =
       [k \in Keys |->
          IF k \notin Newer(MAIN, f) THEN row[MAIN][k]
          ELSE IF k \in Updated(MAIN, f) THEN [ver |-> f[k].ver, at |-> now + 1]
          ELSE f[k]]]

\* Without the flag the trigger re-stamps every row the LOCAL applies.
UpsertAtLocal_Restamps(l, f) ==
  /\ Unlocked(l, f)
  /\ now' = IF Newer(l, f) = {} THEN now ELSE now + 1
  /\ row' = [row EXCEPT ![l] =
       [k \in Keys |-> IF k \in Newer(l, f) THEN [f[k] EXCEPT !.at = now + 1] ELSE row[l][k]]]

\* A LOCAL applies pulled rows under SYNC_APPLY_FLAG: MAIN's stamps are kept.
UpsertAtLocal(l, f) ==
  /\ Unlocked(l, f)
  /\ row' = [row EXCEPT ![l] =
       [k \in Keys |-> IF k \in Newer(l, f) THEN f[k] ELSE row[l][k]]]
  /\ UNCHANGED now

-----------------------------------------------------------------------------
(* The fate of one POST /api/sync/push, as its sender sees it.             *)

\* MAIN applied the rows but for those that failed at row level, and said so.
Answered(f, bad) ==
  /\ bad \subseteq Carried(f)
  /\ UpsertAtMain(Without(f, bad))
  /\ IF bad = {} THEN UNCHANGED faults ELSE Fault("row_error")
  /\ UNCHANGED <<edits, open, limbo>>

\* MAIN's last-resort catch answers 200 with stats.failed = 0.
AnsweredUnapplied ==
  /\ Fault("safety_net")
  /\ UNCHANGED <<now, edits, store, limbo>>

Unanswered(f) ==
  /\ \/ Fault("refused") /\ UNCHANGED limbo
     \/ Fault("timeout") /\ limbo' = limbo \cup {f}
  /\ UNCHANGED <<now, edits, store>>

\* MAIN works off a request whose sender has stopped waiting.
LateArrival(f) ==
  /\ f \in limbo
  /\ UpsertAtMain(f)
  /\ limbo' = limbo \ {f}
  /\ UNCHANGED <<edits, faults, open, kept, cycle>>

-----------------------------------------------------------------------------
(* The cycle of LOCAL l.                                                   *)

StartCycle(l) ==
  /\ pc[l] = "idle"
  /\ Goto(l, "drain")
  /\ UNCHANGED <<now, edits, faults, store, kept, limbo, since, mark, afterId, flight>>

EndDrain(l, cleared) ==
  /\ pc[l] = "drain"
  /\ Goto(l, "mark")
  /\ outbox' = IF cleared THEN [outbox EXCEPT ![l] = NoRows] ELSE outbox
  /\ UNCHANGED <<lastPush, lastPull, since, mark, afterId, flight>>

DrainAnswered(l, bad) == EndDrain(l, bad = {}) /\ Answered(outbox[l], bad)
DrainUnanswered(l) ==
  Carried(outbox[l]) # {} /\ EndDrain(l, FALSE) /\ Unanswered(outbox[l])
DrainUnapplied(l) ==
  Carried(outbox[l]) # {} /\ EndDrain(l, TRUE) /\ AnsweredUnapplied

PushMark(l) ==
  /\ pc[l] = "mark"
  /\ Goto(l, "select")
  /\ since' = [since EXCEPT ![l] = lastPush[l]]
  /\ mark' = [mark EXCEPT ![l] = now]
  /\ afterId' = [afterId EXCEPT ![l] = 0]
  /\ UNCHANGED <<now, edits, faults, store, kept, limbo, flight>>

Due(l) == {k \in Keys : l \in Scope[k] /\ row[l][k].at > since[l] /\ k > afterId[l]}

\* ORDER BY id LIMIT BatchSize.
Page(S) == {B \in SUBSET S :
              /\ \A k \in B, j \in S : j < k => j \in B
              /\ Cardinality(B) <= BatchSize
              /\ B = S \/ Cardinality(B) = BatchSize}

PushSelect(l) ==
  /\ pc[l] = "select"
  /\ Due(l) # {}
  /\ \E B \in Page(Due(l)) :
       flight' = [flight EXCEPT ![l] = [k \in Keys |-> IF k \in B THEN row[l][k] ELSE NoRow]]
  /\ Goto(l, "send")
  /\ UNCHANGED <<now, edits, faults, store, kept, limbo, since, mark, afterId>>

PushNothing(l) ==
  /\ pc[l] = "select"
  /\ IF Due(l) = {} THEN UNCHANGED faults ELSE Fault("query_error")
  /\ Goto(l, "close")
  /\ UNCHANGED <<now, edits, store, kept, limbo, since, mark, afterId, flight>>

\* recordFailedRows: a newer payload of the same row replaces the parked one.
Park(l) ==
  outbox' = [outbox EXCEPT ![l] =
    [k \in Keys |-> IF k \in Carried(flight[l]) THEN flight[l][k] ELSE outbox[l][k]]]

NextPage_OnlyOne(l) ==
  /\ flight' = [flight EXCEPT ![l] = NoRows]
  /\ Goto(l, "close")
  /\ UNCHANGED <<since, mark, afterId>>

NextPage(l) ==
  /\ flight' = [flight EXCEPT ![l] = NoRows]
  /\ IF Cardinality(Carried(flight[l])) < BatchSize
       THEN Goto(l, "close") /\ UNCHANGED afterId
       ELSE /\ Goto(l, "select")
            /\ \E last \in Carried(flight[l]) :
                 /\ \A k \in Carried(flight[l]) : k <= last
                 /\ afterId' = [afterId EXCEPT ![l] = last]
  /\ UNCHANGED <<since, mark>>

PushAnswered(l, bad) ==
  /\ pc[l] = "send"
  /\ Answered(flight[l], bad)
  /\ IF bad = {} THEN UNCHANGED outbox ELSE Park(l)
  /\ NextPage(l)
  /\ UNCHANGED <<lastPush, lastPull>>

PushUnapplied(l) ==
  /\ pc[l] = "send"
  /\ AnsweredUnapplied
  /\ NextPage(l)
  /\ UNCHANGED kept

\* The page is parked and the table given up until the next cycle.
PushUnanswered(l) ==
  /\ pc[l] = "send"
  /\ Unanswered(flight[l])
  /\ Park(l)
  /\ Goto(l, "close")
  /\ flight' = [flight EXCEPT ![l] = NoRows]
  /\ UNCHANGED <<lastPush, lastPull, since, mark, afterId>>

PushClose_AtNow(l) ==
  /\ pc[l] = "close"
  /\ lastPush' = [lastPush EXCEPT ![l] = now]
  /\ Goto(l, "pull")
  /\ UNCHANGED <<now, edits, faults, store, outbox, lastPull, limbo, since, mark, afterId, flight>>

PushClose(l) ==
  /\ pc[l] = "close"
  /\ lastPush' = [lastPush EXCEPT ![l] = mark[l]]
  /\ Goto(l, "pull")
  /\ UNCHANGED <<now, edits, faults, store, outbox, lastPull, limbo, since, mark, afterId, flight>>

PullMark_Unclamped(l) ==
  /\ pc[l] = "pull"
  /\ Goto(l, "ask")
  /\ since' = [since EXCEPT ![l] = lastPull[l] - Overlap]
  /\ mark' = [mark EXCEPT ![l] = now]
  /\ UNCHANGED <<now, edits, faults, store, kept, limbo, afterId, flight>>

PullMark_NoOverlap(l) ==
  /\ pc[l] = "pull"
  /\ Goto(l, "ask")
  /\ since' = [since EXCEPT ![l] = lastPull[l]]
  /\ mark' = [mark EXCEPT ![l] = now]
  /\ UNCHANGED <<now, edits, faults, store, kept, limbo, afterId, flight>>

PullMark(l) ==
  /\ pc[l] = "pull"
  /\ Goto(l, "ask")
  /\ since' = [since EXCEPT ![l] = IF lastPull[l] > Overlap THEN lastPull[l] - Overlap ELSE 0]
  /\ mark' = [mark EXCEPT ![l] = now]
  /\ UNCHANGED <<now, edits, faults, store, kept, limbo, afterId, flight>>

\* getChanges on MAIN.
PullServe(l) ==
  /\ pc[l] = "ask"
  /\ Goto(l, "apply")
  /\ flight' = [flight EXCEPT ![l] =
       [k \in Keys |-> IF l \in Scope[k] /\ row[MAIN][k].at > since[l]
                         THEN row[MAIN][k] ELSE NoRow]]
  /\ UNCHANGED <<now, edits, faults, store, kept, limbo, since, mark, afterId>>

EndPull_AlwaysAdvances(l, complete) ==
  /\ EndCycle(l)
  /\ lastPull' = [lastPull EXCEPT ![l] = mark[l]]
  /\ UNCHANGED <<edits, open, outbox, lastPush, limbo>>

EndPull(l, complete) ==
  /\ EndCycle(l)
  /\ lastPull' = IF complete THEN [lastPull EXCEPT ![l] = mark[l]] ELSE lastPull
  /\ UNCHANGED <<edits, open, outbox, lastPush, limbo>>

\* Rows the upsert refused with an error hold LAST_PULL where it was.
PullApply(l, bad) ==
  /\ pc[l] = "apply"
  /\ bad \subseteq Carried(flight[l])
  /\ UpsertAtLocal(l, Without(flight[l], bad))
  /\ IF bad = {} THEN UNCHANGED faults ELSE Fault("row_error")
  /\ EndPull(l, bad = {})

PullFails(l) ==
  /\ pc[l] = "ask"
  /\ Fault("refused")
  /\ EndPull(l, FALSE)
  /\ UNCHANGED <<now, row>>

-----------------------------------------------------------------------------
(* The process dies and restarts, its push request perhaps already on the  *)
(* wire; an administrator resets a watermark.                              *)

Crash(l) ==
  /\ pc[l] # "idle"
  /\ Fault("crash")
  /\ EndCycle(l)
  /\ \/ UNCHANGED limbo
     \/ pc[l] = "send" /\ limbo' = limbo \cup {flight[l]}
  /\ UNCHANGED <<now, edits, store, kept>>

FullPushReset(l) ==
  /\ Fault("reset")
  /\ lastPush' = [lastPush EXCEPT ![l] = 0]
  /\ UNCHANGED <<now, edits, store, outbox, lastPull, limbo, cycle>>

FullPullReset(l) ==
  /\ Fault("reset")
  /\ lastPull' = [lastPull EXCEPT ![l] = 0]
  /\ UNCHANGED <<now, edits, store, outbox, lastPush, limbo, cycle>>

-----------------------------------------------------------------------------

\* What the cycle of l does when nothing goes wrong.
Progress(l) ==
  \/ StartCycle(l)
  \/ DrainAnswered(l, {})
  \/ PushMark(l)
  \/ PushSelect(l)
  \/ PushNothing(l)
  \/ PushAnswered(l, {})
  \/ PushClose(l)
  \/ PullMark(l)
  \/ PullServe(l)
  \/ PullApply(l, {})

Trouble(l) ==
  \/ \E bad \in SUBSET Keys \ {{}} : DrainAnswered(l, bad)
  \/ \E bad \in SUBSET Keys \ {{}} : PushAnswered(l, bad)
  \/ \E bad \in SUBSET Keys \ {{}} : PullApply(l, bad)
  \/ DrainUnanswered(l)
  \/ DrainUnapplied(l)
  \/ PushUnapplied(l)
  \/ PushUnanswered(l)
  \/ PullFails(l)
  \/ Crash(l)
  \/ FullPushReset(l)
  \/ FullPullReset(l)

EndEdit(s, k) == CommitEdit(s, k) \/ AbortEdit(s, k)

Next ==
  \/ \E s \in Servers, k \in Keys : Edit(s, k)
  \/ \E s \in Servers, k \in Keys : BeginEdit(s, k)
  \/ \E s \in Servers, k \in Keys : EndEdit(s, k)
  \/ \E f \in limbo : LateArrival(f)
  \/ \E l \in Locals : Progress(l)
  \/ \E l \in Locals : Trouble(l)

Spec == Init /\ [][Next]_vars

\* The timer restarts cycles for ever and every await of a cycle returns;
\* transactions end.  Users, faults and late arrivals are not fair.
FairSpec ==
  /\ Spec
  /\ \A l \in Locals : WF_vars(Progress(l))
  /\ \A s \in Servers, k \in Keys : WF_vars(EndEdit(s, k))

-----------------------------------------------------------------------------
(* Properties.                                                             *)

\* What LAST_PUSH has moved past is not lost (pushChanges): the row, or a
\* newer one, is on MAIN, or its payload waits in the outbox.
Delivered(l, k) == row[MAIN][k].at >= row[l][k].at
Parked(l, k) == outbox[l][k].at >= row[l][k].at
NothingLost ==
  \A k \in Keys : \A l \in Scope[k] :
    row[l][k].at <= lastPush[l] => Delivered(l, k) \/ Parked(l, k)

\* A MAIN row that the next pull's window (since LAST_PULL minus the overlap)
\* leaves out has been pulled already (pullChanges, withPullOverlap).
PullCoversMain ==
  \A k \in Keys : \A l \in Scope[k] :
    row[MAIN][k].at + Overlap <= lastPull[l] => row[l][k].at >= row[MAIN][k].at

\* Rows do not bounce: MAIN never re-stamps a row to the content it already
\* holds, however often that content is pulled and pushed back
\* (SYNC_APPLY_FLAG and the upsert's guard).
NoEcho ==
  [][\A k \in Keys : row'[MAIN][k].ver = row[MAIN][k].ver
                       => row'[MAIN][k] = row[MAIN][k]]_vars

\* "The upsert only applies a row when it is newer than the local copy"
\* (withPullOverlap): no server replaces a later edit of a row by an earlier.
LaterEditWins ==
  [][\A s \in Servers, k \in Keys : row'[s][k].ver >= row[s][k].ver]_vars

\* Once users and faults leave the servers alone, each LOCAL holds exactly
\* MAIN's copy of the rows in its scope, with an empty outbox.
Converges ==
  <>[](\A k \in Keys : \A l \in Scope[k] :
         row[l][k] = row[MAIN][k] /\ outbox[l][k] = NoRow)

-----------------------------------------------------------------------------
(* The conjuncts that make the invariants above inductive.                 *)

\* No stamp or watermark lies in the future.
PastStamps ==
  /\ \A s \in Servers, k \in Keys : row[s][k].at <= now /\ open[s][k].at <= now
  /\ \A l \in Locals, k \in Keys : outbox[l][k].at <= now /\ flight[l][k].at <= now
  /\ \A f \in limbo, k \in Keys : f[k].at <= now
  /\ \A l \in Locals : lastPush[l] <= now /\ lastPull[l] <= now /\ mark[l] <= now

\* A row somebody holds the lock of cannot overtake the image under the lock.
LocksFresh ==
  \A s \in Servers, k \in Keys :
    open[s][k] # NoRow => s \in SlowServers /\ open[s][k].at > row[s][k].at

\* What a pull carries was MAIN's copy, and MAIN's copies only get newer.
PullFresh ==
  \A l \in Locals, k \in Keys :
    pc[l] = "apply" => flight[l][k].at <= row[MAIN][k].at

Settled(l, k) == Delivered(l, k) \/ Parked(l, k)
ToSelect(l, k) == row[l][k].at > since[l] /\ k > afterId[l]
AfterPage(l, k) ==
  /\ row[l][k].at > since[l]
  /\ \A j \in Carried(flight[l]) : j < k
  /\ Cardinality(Carried(flight[l])) = BatchSize

\* During a push every row stamped before the watermark it will end with is
\* settled, on its way, or on a later page.
PushAccounted ==
  \A k \in Keys : \A l \in Scope[k] :
    row[l][k].at <= mark[l] =>
      /\ pc[l] = "select" => Settled(l, k) \/ ToSelect(l, k)
      /\ pc[l] = "send" => Settled(l, k) \/ flight[l][k].at >= row[l][k].at \/ AfterPage(l, k)
      /\ pc[l] = "close" => Settled(l, k)

\* A push ends with a watermark no older than the one it began with, and what
\* it carries is still the row, unless that was edited after the mark.
PushInFlight ==
  \A l \in Locals :
    /\ pc[l] \in {"select", "send", "close"} => lastPush[l] <= mark[l]
    /\ \A k \in Keys :
         pc[l] = "send" /\ flight[l][k].at > 0 /\ row[l][k].at <= mark[l]
           => flight[l][k].at >= row[l][k].at

PushInv ==
  /\ TypeOK /\ PastStamps /\ LocksFresh /\ PullFresh
  /\ NothingLost /\ PushAccounted /\ PushInFlight

\* No payload under way is newer than the copy of the factory that sends it.
OwnPayloads ==
  \A k \in Keys : \A l \in Scope[k] :
    /\ \A m \in Locals : outbox[m][k].at <= row[l][k].at
    /\ \A m \in Locals : pc[m] = "send" => flight[m][k].at <= row[l][k].at
    /\ \A f \in limbo : f[k].at <= row[l][k].at

\* During a pull what the window leaves out is there already.
PullAccounted ==
  /\ \A l \in Locals : pc[l] = "ask" => since[l] = 0 \/ since[l] + Overlap <= now
  /\ \A k \in Keys : \A l \in Scope[k] :
       /\ pc[l] = "ask" /\ row[MAIN][k].at <= since[l] => row[l][k].at >= row[MAIN][k].at
       /\ pc[l] = "apply" /\ row[MAIN][k].at + Overlap <= mark[l]
            => row[l][k].at >= row[MAIN][k].at \/ flight[l][k].at >= row[MAIN][k].at

PullInv == TypeOK /\ PastStamps /\ LocksFresh /\ OwnPayloads /\ PullCoversMain /\ PullAccounted

\* All that is left of an edit of row k, wherever it is.
Copies(k) ==
  {row[s][k] : s \in Servers} \cup {open[s][k] : s \in Servers}
  \cup {outbox[l][k] : l \in Locals} \cup {flight[l][k] : l \in Locals}
  \cup {f[k] : f \in limbo}

\* A copy stamped after MAIN's is of an edit MAIN has not seen: all copies of
\* that edit still carry the stamp its author's server gave it.
UnseenKeepStamp ==
  \A k \in Keys : \A c, d \in Copies(k) :
    c.ver = d.ver /\ c.at > row[MAIN][k].at => c.at = d.at

KnownEdits ==
  \A k \in Keys : \A c \in Copies(k) : c.ver <= edits /\ (c.ver = 0 => c.at = 0)

EchoInv == TypeOK /\ PastStamps /\ LocksFresh /\ UnseenKeepStamp /\ KnownEdits

=============================================================================
