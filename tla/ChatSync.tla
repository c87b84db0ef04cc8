------------------------------ MODULE ChatSync ------------------------------
(***************************************************************************)
(* The chat's own replication between the LOCALs and MAIN                  *)
(* (BACKEND/src/modules/chat/chatSync.js), one of its tables.              *)
(*                                                                         *)
(* Every row written by a user carries sync_seq, handed out when the       *)
(* statement runs, not when it commits.  The loop of a LOCAL pushes the    *)
(* rows past its push cursor and pulls MAIN's rows past its pull cursor;   *)
(* both sides merge column by column.  A cursor is saved once it is        *)
(* OVERLAP_MS old, and each cycle starts at the saved one.                 *)
(*                                                                         *)
(* A row has a body, for the columns where the newer updated_at wins, and  *)
(* a time, for last_read_at / last_message_at or a receipt's time.  A row  *)
(* is held by one transaction at a time, MAIN's for a push among them.     *)
(* Tick lets time pass: positions and transactions grow older.             *)
(*                                                                         *)
(* Left out: attachment files, rows that MAIN cannot apply, the adoption   *)
(* of natural keys, the limit of 20 pages in a cycle, the timer.           *)
(***************************************************************************)
EXTENDS Integers, FiniteSetsExt, SequencesExt

CONSTANTS
  Locals, MAIN,
  Keys,        \* sync_ids of the table's rows
  Rule,        \* how the time is merged: "later" (greatest) or "first"
  Ahead,       \* Ahead[s]: ticks by which the clock of s is ahead
  SlowServers, \* where a user's transaction may stay open
  Overlap,     \* OVERLAP_MS, in ticks
  OpenFor,     \* ticks in which every transaction ends
  Prompt,      \* before a position is OVERLAP_MS old, a phase that began OpenFor
               \* ticks after it was remembered has come to its end
  Batch,       \* BATCH
  MaxWrites,   \* bound: writes of all users
  MaxFailures, \* bound: faults and crashes
  MaxHistory   \* bound: positions a cursor remembers; the last one is replaced

Servers == Locals \cup {MAIN}
Ways == {"push", "pull"}

ASSUME ChatSyncConstants ==
  /\ MAIN \notin Locals /\ IsFiniteSet(Keys)
  /\ Rule \in {"later", "first"} /\ Ahead \in [Servers -> Nat]
  /\ SlowServers \subseteq Servers /\ Prompt \in BOOLEAN
  /\ Overlap \in Nat /\ OpenFor \in 1..Overlap
  /\ {Batch, MaxHistory} \subseteq Nat \ {0} /\ {MaxWrites, MaxFailures} \subseteq Nat

VARIABLES
  now,     \* writes so far: the clock
  failures,
  row,     \* row[s][k]: the committed row k of server s
  open,    \* open[s][k]: what an uncommitted transaction of s has written
  seq,     \* seq[s]: chat_sync_seq
  cursor,  \* cursor[l]: the push and the pull cursor of l
  pc,      \* where the cycle of l stands
  cur,     \* the position its phase has come to
  flight,  \* the rows of the request or the reply under way
  more,    \* its page was full
  limbo    \* pushes whose sender gave up and that MAIN may yet apply

tables   == <<row, open, seq>>
loop     == <<cursor, pc, cur, flight, more>>
chatVars == <<now, failures, tables, loop, limbo>>

\* seq = 0: NULL.  at = 0: there is no such row.
Row     == [body : Nat, time : Nat, at : Nat, seq : Nat]
NoRow   == [body |-> 0, time |-> 0, at |-> 0, seq |-> 0]
NoRows  == [k \in {} |-> NoRow]

\* by: the LOCAL that waits for its end, or the server itself.
Held    == [row : Row, by : Servers, age : Nat]
NoWrite == [row |-> NoRow, by |-> MAIN, age |-> 0]

\* read: whether a phase that began OpenFor ticks later is under way or has ended.
Position == [seq : Nat, age : Nat, read : {"no", "begun", "done"}]
Cursor   == [safe |-> 0, history |-> <<>>]

ChatInit ==
  /\ now = 0
  /\ failures = 0
  /\ row = [s \in Servers |-> [k \in Keys |-> NoRow]]
  /\ open = [s \in Servers |-> [k \in Keys |-> NoWrite]]
  /\ seq = [s \in Servers |-> 0]
  /\ cursor = [l \in Locals |-> [c \in Ways |-> Cursor]]
  /\ pc = [l \in Locals |-> "idle"]
  /\ cur = [l \in Locals |-> 0]
  /\ flight = [l \in Locals |-> NoRows]
  /\ more = [l \in Locals |-> FALSE]
  /\ limbo = {}

-----------------------------------------------------------------------------
(* Users write on every server.                                            *)

Clock(s) == now + 1 + Ahead[s]

\* A new message, an edit, a deletion, a role: the body is new.
Posted(s, k) == [row[s][k] EXCEPT !.body = now + 1, !.at = Clock(s), !.seq = seq[s] + 1]

\* Read: a member's position moves each time, a receipt gets its time once.
Marked(s, k) == [row[s][k] EXCEPT !.time = Clock(s), !.at = Clock(s), !.seq = seq[s] + 1]
MayMark(s, k) == IF Rule = "later" THEN row[s][k].at # 0 ELSE row[s][k].time = 0

Images(s, k) == {Posted(s, k)} \cup {r \in {Marked(s, k)} : MayMark(s, k)}

\* chat_sync_stamp hands out the number with the statement.
Stamps(s, k) ==
  /\ now < MaxWrites
  /\ now' = now + 1
  /\ open[s][k] = NoWrite
  /\ seq' = [seq EXCEPT ![s] = @ + 1]

Write(s, k) ==
  /\ Stamps(s, k)
  /\ \E image \in Images(s, k) : row' = [row EXCEPT ![s][k] = image]
  /\ UNCHANGED <<failures, open, loop, limbo>>

BeginWrite(s, k) ==
  /\ s \in SlowServers
  /\ Stamps(s, k)
  /\ \E image \in Images(s, k) :
       open' = [open EXCEPT ![s][k] = [row |-> image, by |-> s, age |-> 0]]
  /\ UNCHANGED <<failures, row, loop, limbo>>

\* The transaction commits or is rolled back, and nobody waits for it.
EndWrite(s, k) ==
  /\ open[s][k] # NoWrite /\ open[s][k].by = s
  /\ row' \in {row, [row EXCEPT ![s][k] = open[s][k].row]}
  /\ open' = [open EXCEPT ![s][k] = NoWrite]
  /\ UNCHANGED <<now, failures, seq, loop, limbo>>

-----------------------------------------------------------------------------
(* Reading past a cursor, and merging.                                     *)

Behind(s, from) == {k \in Keys : row[s][k].seq > from}

Page_Newest(s, from) ==
  LET waiting == Behind(s, from)
      page == {k \in waiting : Cardinality({j \in waiting : row[s][j].seq >= row[s][k].seq}) <= Batch}
  IN  [k \in page |-> row[s][k]]

Page(s, from) ==
  LET waiting == Behind(s, from)
      page == {k \in waiting : Cardinality({j \in waiting : row[s][j].seq <= row[s][k].seq}) <= Batch}
  IN  [k \in page |-> row[s][k]]

IsFull(s, from) == Cardinality(Behind(s, from)) >= Batch
LastSeq(rows) == Max({rows[k].seq : k \in DOMAIN rows})

Merge(mine, theirs) ==
  [body |-> IF theirs.at > mine.at THEN theirs.body ELSE mine.body,
   time |-> IF Rule = "later" THEN Max({mine.time, theirs.time})
            ELSE IF mine.time # 0 THEN mine.time ELSE theirs.time,
   at   |-> Max({mine.at, theirs.at}),
   seq  |-> mine.seq]

News_Always(mine, theirs) == TRUE

\* The WHERE of the upsert: only what changes a row is written and stamped.
News(mine, theirs) ==
  \/ theirs.at > mine.at
  \/ IF Rule = "later" THEN theirs.time > mine.time ELSE mine.time = 0 /\ theirs.time # 0

Changed(s, rows) == {k \in DOMAIN rows : News(row[s][k], rows[k])}

\* The transaction of a push at MAIN: each changed row takes its number with the
\* statement, and shows at the commit.
BeginMerge(rows, by) ==
  LET changed == Changed(MAIN, rows)
      Nth(k) == Cardinality({j \in changed : rows[j].seq <= rows[k].seq})
      Merged(k) == [Merge(row[MAIN][k], rows[k]) EXCEPT !.seq = seq[MAIN] + Nth(k)]
  IN  /\ \A k \in DOMAIN rows : open[MAIN][k] = NoWrite
      /\ open' = [open EXCEPT ![MAIN] = [k \in Keys |->
                    IF k \in changed THEN [row |-> Merged(k), by |-> by, age |-> 0]
                    ELSE open[MAIN][k]]]
      /\ seq' = [seq EXCEPT ![MAIN] = @ + Cardinality(changed)]

HeldFor(l) == {k \in Keys : open[MAIN][k].by = l}

CommitMerge(l) ==
  /\ row' = [row EXCEPT ![MAIN] = [k \in Keys |->
               IF k \in HeldFor(l) THEN open[MAIN][k].row ELSE row[MAIN][k]]]
  /\ open' = [open EXCEPT ![MAIN] = [k \in Keys |->
                IF k \in HeldFor(l) THEN NoWrite ELSE open[MAIN][k]]]

\* Applied from MAIN: no new number, and an unsent change keeps its own.
Unsent(mine) == mine.seq

MergeAtLocal(l, rows) ==
  /\ \A k \in DOMAIN rows : open[l][k] = NoWrite
  /\ row' = [row EXCEPT ![l] = [k \in Keys |->
               IF k \in Changed(l, rows)
                 THEN [Merge(row[l][k], rows[k]) EXCEPT !.seq = Unsent(row[l][k])] ELSE row[l][k]]]
  /\ seq' = seq

-----------------------------------------------------------------------------
(* makeCursor                                                              *)

Aged_AtOnce(position) == TRUE

Aged(position) == position.age >= Overlap

Begun(position) ==
  IF position.read = "no" /\ position.age >= OpenFor THEN [position EXCEPT !.read = "begun"] ELSE position

Since_Latest(l, c) ==
  LET history == cursor[l][c].history
  IN  /\ cursor' = [cursor EXCEPT ![l][c].history = [i \in DOMAIN history |-> Begun(history[i])]]
      /\ cur' = [cur EXCEPT ![l] = IF history = <<>> THEN cursor[l][c].safe ELSE Last(history).seq]

\* The positions at the head that are old enough are dropped, the last is saved.
Since(l, c) ==
  LET history == cursor[l][c].history
  IN  \E n \in 0..Len(history) :
        LET safe == IF n = 0 THEN cursor[l][c].safe ELSE history[n].seq
        IN  /\ \A i \in 1..n : Aged(history[i])
            /\ n < Len(history) => ~Aged(history[n + 1])
            /\ cursor' = [cursor EXCEPT ![l][c] =
                 [safe |-> safe, history |-> [i \in 1..(Len(history) - n) |-> Begun(history[n + i])]]]
            /\ cur' = [cur EXCEPT ![l] = safe]

\* The phase under way ends (as "done"), or breaks off (as "no").
Ended(history, as) ==
  [i \in DOMAIN history |->
    IF history[i].read = "begun" THEN [history[i] EXCEPT !.read = as] ELSE history[i]]

Remembered(history, last) ==
  LET position == [seq |-> last, age |-> 0, read |-> "no"]
  IN  IF Len(history) < MaxHistory THEN Append(history, position)
      ELSE [history EXCEPT ![MaxHistory] = position]

Advance(l, c, rows, full) ==
  LET history == Remembered(cursor[l][c].history, LastSeq(rows))
  IN  /\ cursor' = [cursor EXCEPT ![l][c].history = IF full THEN history ELSE Ended(history, "done")]
      /\ cur' = [cur EXCEPT ![l] = LastSeq(rows)]

Finish(l, c) == cursor' = [cursor EXCEPT ![l][c].history = Ended(@, "done")]

Older(history) ==
  [i \in DOMAIN history |->
    IF Aged(history[i]) THEN history[i] ELSE [history[i] EXCEPT !.age = @ + 1]]

\* One tick of the clock that OVERLAP_MS is measured with.
Tick ==
  /\ \A s \in Servers, k \in Keys : open[s][k] # NoWrite => open[s][k].age + 1 < OpenFor
  /\ Prompt => \A l \in Locals, c \in Ways : \A i \in DOMAIN cursor[l][c].history :
                 cursor[l][c].history[i].age + 1 >= Overlap => cursor[l][c].history[i].read = "done"
  /\ open' = [s \in Servers |-> [k \in Keys |->
                IF open[s][k] = NoWrite THEN NoWrite ELSE [open[s][k] EXCEPT !.age = @ + 1]]]
  /\ cursor' = [l \in Locals |-> [c \in Ways |->
                  [cursor[l][c] EXCEPT !.history = Older(@)]]]
  /\ UNCHANGED <<now, failures, row, seq, pc, cur, flight, more, limbo>>

-----------------------------------------------------------------------------
(* The loop of a LOCAL: pushOnce, then pullOnce.                           *)

Goes(l, step) == pc' = [pc EXCEPT ![l] = step]

Reads(l, page, full) ==
  /\ flight' = [flight EXCEPT ![l] = page]
  /\ more' = [more EXCEPT ![l] = full]

Lands(l) == Reads(l, NoRows, FALSE)

EndCycle(l) ==
  /\ Goes(l, "idle")
  /\ cur' = [cur EXCEPT ![l] = 0]
  /\ Lands(l)

BeginPush(l) ==
  /\ pc[l] = "idle"
  /\ Since(l, "push")
  /\ Goes(l, "push")
  /\ UNCHANGED <<now, failures, tables, flight, more, limbo>>

PushPage(l) ==
  /\ pc[l] = "push"
  /\ LET page == Page(l, cur[l])
     IN  IF page = NoRows
           THEN Finish(l, "push") /\ Goes(l, "pushed") /\ UNCHANGED <<flight, more>>
           ELSE Reads(l, page, IsFull(l, cur[l])) /\ Goes(l, "sent") /\ UNCHANGED cursor
  /\ UNCHANGED <<now, failures, tables, cur, limbo>>

PushArrives(l) ==
  /\ pc[l] = "sent"
  /\ BeginMerge(flight[l], l)
  /\ Goes(l, "merging")
  /\ UNCHANGED <<now, failures, row, cursor, cur, flight, more, limbo>>

PushApplied(l) ==
  /\ pc[l] = "merging"
  /\ CommitMerge(l)
  /\ Goes(l, "merged")
  /\ UNCHANGED <<now, failures, seq, cursor, cur, flight, more, limbo>>

PushAnswered(l) ==
  /\ pc[l] = "merged"
  /\ Advance(l, "push", flight[l], more[l])
  /\ Lands(l)
  /\ Goes(l, IF more[l] THEN "push" ELSE "pushed")
  /\ UNCHANGED <<now, failures, tables, limbo>>

BeginPull(l) ==
  /\ pc[l] = "pushed"
  /\ Since(l, "pull")
  /\ Goes(l, "pull")
  /\ UNCHANGED <<now, failures, tables, flight, more, limbo>>

PullPage(l) ==
  /\ pc[l] = "pull"
  /\ LET page == Page(MAIN, cur[l])
     IN  IF page = NoRows
           THEN Finish(l, "pull") /\ EndCycle(l)
           ELSE Reads(l, page, IsFull(MAIN, cur[l])) /\ Goes(l, "reply") /\ UNCHANGED <<cursor, cur>>
  /\ UNCHANGED <<now, failures, tables, limbo>>

PullApply(l) ==
  /\ pc[l] = "reply"
  /\ MergeAtLocal(l, flight[l])
  /\ Advance(l, "pull", flight[l], more[l])
  /\ Lands(l)
  /\ Goes(l, IF more[l] THEN "pull" ELSE "idle")
  /\ UNCHANGED <<now, failures, open, limbo>>

-----------------------------------------------------------------------------
(* Faults: the cycle fails, by a refusal, a time-out or because MAIN rolled  *)
(* back; the process dies, and with it what its cursors remembered.          *)

Fault == failures < MaxFailures /\ failures' = failures + 1

\* MAIN may yet apply a push it was sent, and nobody waits for one it is applying.
Abandons(l) ==
  /\ limbo' \in {limbo} \cup {limbo \cup {flight[l]} : step \in {pc[l]} \cap {"sent"}}
  /\ open' = [open EXCEPT ![MAIN] = [k \in Keys |->
                IF k \in HeldFor(l) THEN [open[MAIN][k] EXCEPT !.by = MAIN] ELSE open[MAIN][k]]]

BreakOff(l, keep) ==
  cursor' = [cursor EXCEPT ![l] = [c \in Ways |->
              [cursor[l][c] EXCEPT !.history = IF keep THEN Ended(@, "no") ELSE <<>>]]]

CycleFails(l) ==
  /\ pc[l] # "idle"
  /\ Fault
  /\ EndCycle(l)
  /\ Abandons(l)
  /\ BreakOff(l, TRUE)
  /\ UNCHANGED <<now, row, seq>>

Crash(l) ==
  /\ Fault
  /\ EndCycle(l)
  /\ Abandons(l)
  /\ BreakOff(l, FALSE)
  /\ UNCHANGED <<now, row, seq>>

LateArrival(rows) ==
  /\ BeginMerge(rows, MAIN)
  /\ limbo' = limbo \ {rows}
  /\ UNCHANGED <<now, failures, row, loop>>

-----------------------------------------------------------------------------
PushSteps(l) == BeginPush(l) \/ PushPage(l) \/ PushArrives(l) \/ PushApplied(l) \/ PushAnswered(l)
PullSteps(l) == BeginPull(l) \/ PullPage(l) \/ PullApply(l)

ChatNext ==
  \/ \E s \in Servers, k \in Keys : Write(s, k) \/ BeginWrite(s, k) \/ EndWrite(s, k)
  \/ \E l \in Locals : PushSteps(l) \/ PullSteps(l) \/ CycleFails(l) \/ Crash(l)
  \/ \E rows \in limbo : LateArrival(rows)
  \/ Tick

ChatSpec == ChatInit /\ [][ChatNext]_chatVars

\* cycle() schedules the next in its finally block and every fetch is bounded by
\* a timeout; the database ends transactions.
FairChatSpec ==
  /\ ChatSpec
  /\ \A l \in Locals : WF_chatVars(PushSteps(l) \/ PullSteps(l))
  /\ \A s \in Servers, k \in Keys : WF_chatVars(EndWrite(s, k))

-----------------------------------------------------------------------------
Pages == UNION {[ks -> Row] : ks \in SUBSET Keys}

ChatTypeOK ==
  /\ now \in 0..MaxWrites
  /\ failures \in 0..MaxFailures
  /\ \A s \in Servers, k \in Keys : row[s][k] \in Row
  /\ \A s \in Servers, k \in Keys : open[s][k] \in Held
  /\ seq \in [Servers -> Nat]
  /\ \A l \in Locals, c \in Ways :
       cursor[l][c].safe \in Nat /\ cursor[l][c].history \in Seq(Position)
  /\ pc \in [Locals -> {"idle", "push", "sent", "merging", "merged", "pushed", "pull", "reply"}]
  /\ cur \in [Locals -> Nat]
  /\ \A l \in Locals : flight[l] = NoRows \/ pc[l] \in {"sent", "merging", "merged", "reply"}

\* "A transaction that took its sync_seq earlier can commit after a later one
\* was already read" (328-330): nothing behind a saved push cursor is unknown to
\* MAIN, whatever was open, failed, came late or crashed.
PushCovers ==
  \A l \in Locals, k \in Keys :
    row[l][k].seq \in 1..cursor[l]["push"].safe => ~News(row[MAIN][k], row[l][k])

\* The same of the pull: nothing of MAIN behind the saved cursor is unknown here.
PullCovers ==
  \A l \in Locals, k \in Keys :
    row[MAIN][k].seq \in 1..cursor[l]["pull"].safe => ~News(row[l][k], row[MAIN][k])

\* "Rows a LOCAL applies from MAIN get no new sync_seq ..., so they are never
\* pushed back" (15-16), and what a LOCAL sends again changes nothing: MAIN gives
\* a row a number only with new content.
NoEcho ==
  [][\A s \in Servers, k \in Keys :
       row'[s][k].seq > row[s][k].seq =>
         [row'[s][k] EXCEPT !.seq = 0] # [row[s][k] EXCEPT !.seq = 0]]_chatVars

Same(r, t) == [r EXCEPT !.seq = 0] = [t EXCEPT !.seq = 0]

\* "chat replicates between MAIN and every factory LOCAL" (3): when users stop,
\* every copy of a row comes to be the same and stays so.
Converges == <>[](\A l \in Locals, k \in Keys : Same(row[l][k], row[MAIN][k]))

\* The last body a user gave a row is the one that stays, though somebody reads
\* the chat on another server ("A newer updated_at wins", 18).
LastBodyStays ==
  [][\A s \in Servers, k \in Keys : row'[s][k].body >= row[s][k].body]_chatVars
=============================================================================
