----------------------------- MODULE GroupCalls -----------------------------
(***************************************************************************)
(* Group voice calls of one group of JMS Chat: its rooms, who sits in      *)
(* them, and the line a room leaves in the group                           *)
(* (BACKEND/src/modules/chat/chatGroupCalls.js).                           *)
(*                                                                         *)
(* Every statement on the database is atomic; the requests of the phones   *)
(* and the cleanup timers of the workers interleave between statements.    *)
(* The sweep is two statements, and who ended rooms owes each its line.    *)
(*                                                                         *)
(* Left out: membership of the group, the caller's other calls, signals,   *)
(* pushes, and peak, which never exceeds the member rows of the room.      *)
(***************************************************************************)
EXTENDS Naturals, FiniteSets

CONSTANTS
  Users,
  NoUser,
  Rooms,      \* the ids crypto.randomUUID may return
  NoRoom,
  Handlers,   \* requests and timers at work at once
  Workers,
  WorkerOf,   \* WorkerOf[h]: the worker handler h runs in
  MaxPeople,
  MaxFaults   \* bound: queries that fail and workers that restart

ASSUME GroupCallsConstants ==
  /\ WorkerOf \in [Handlers -> Workers]
  /\ IsFiniteSet(Users) /\ IsFiniteSet(Handlers) /\ NoRoom \notin Rooms /\ NoUser \notin Users
  /\ MaxPeople \in Nat \ {0} /\ MaxFaults \in Nat

VARIABLES
  room,    \* room[r]: "none" (no such row), "live" (ended_at is null) or "ended"
  young,   \* rooms started less than 5 seconds ago
  inside,  \* inside[r]: member rows with left_at null
  stale,   \* stale[r]: of them, those not seen for STALE_SECONDS
  lines,   \* lines[r]: history lines written for r
  task,    \* task[h]: what handler h holds in its local variables
  ready,   \* workers whose schemaReady is set
  faults

tables    == <<room, young, inside, stale>>
groupVars == <<tables, lines, task, ready, faults>>

\* then: the step behind the sweep; owed: ended rooms that are owed a line.
Tasks == [step : {"idle", "absent", "empty", "select", "create", "again", "count",
                  "seat", "seen", "leave", "close", "done"},
          then : {"select", "done"},
          user : Users \cup {NoUser},
          room : Rooms \cup {NoRoom},
          owed : SUBSET Rooms]

Idle == [step |-> "idle", then |-> "done", user |-> NoUser, room |-> NoRoom, owed |-> {}]

GroupInit ==
  /\ room = [r \in Rooms |-> "none"]
  /\ young = {}
  /\ inside = [r \in Rooms |-> {}]
  /\ stale = [r \in Rooms |-> {}]
  /\ lines = [r \in Rooms |-> 0]
  /\ task = [h \in Handlers |-> Idle]
  /\ ready = {}
  /\ faults = 0

Live == {r \in Rooms : room[r] = "live"}

\* A handler writes the lines it owes before it goes on.
At(h, step) == task[h].step = step /\ task[h].owed = {}
Does(h, step) == task' = [task EXCEPT ![h].step = step]
\* What is left to do needs neither user nor room.
Forgets(h, step) == task' = [task EXCEPT ![h] = [Idle EXCEPT !.step = step]]
Takes(h, step, r) == task' = [task EXCEPT ![h].step = step, ![h].room = r]
Starts(h, step, then, u, r) ==
  /\ task[h].step = "idle"
  /\ task' = [task EXCEPT ![h] = [step |-> step, then |-> then, user |-> u, room |-> r, owed |-> {}]]

\* Every route asks ensureRoomSchema for the tables before anything else.
Requests(h, step, then, u, r) ==
  /\ Starts(h, step, then, u, r)
  /\ ready' = ready \cup {WorkerOf[h]}
  /\ UNCHANGED <<tables, lines, faults>>

-----------------------------------------------------------------------------
(* The sweep.                                                              *)

StaleSecondsPass(r, u) ==
  /\ r \in Live
  /\ u \in inside[r] \ stale[r]
  /\ stale' = [stale EXCEPT ![r] = @ \cup {u}]
  /\ UNCHANGED <<room, young, inside, lines, task, ready, faults>>

FiveSecondsPass(r) ==
  /\ r \in young
  /\ young' = young \ {r}
  /\ UNCHANGED <<room, inside, stale, lines, task, ready, faults>>

TakeOutStale(h) ==
  /\ At(h, "absent")
  /\ inside' = [r \in Rooms |-> IF r \in Live THEN inside[r] \ stale[r] ELSE inside[r]]
  /\ stale' = [r \in Rooms |-> IF r \in Live THEN {} ELSE stale[r]]
  /\ Does(h, "empty")
  /\ UNCHANGED <<room, young, lines, ready, faults>>

Deserted == {r \in Live : inside[r] = {} /\ r \notin young}

EndDeserted(h) ==
  /\ At(h, "empty")
  /\ room' = [r \in Rooms |-> IF r \in Deserted THEN "ended" ELSE room[r]]
  /\ task' = [task EXCEPT ![h].step = task[h].then, ![h].owed = Deserted]
  /\ UNCHANGED <<young, inside, stale, lines, ready, faults>>

WriteLine(h, r) ==
  /\ r \in task[h].owed
  /\ lines' = [lines EXCEPT ![r] = @ + 1]
  /\ task' = [task EXCEPT ![h].owed = @ \ {r}]
  /\ UNCHANGED <<tables, ready, faults>>

Respond(h) ==
  /\ At(h, "done")
  /\ task' = [task EXCEPT ![h] = Idle]
  /\ UNCHANGED <<tables, lines, ready, faults>>

Cleanup_SignalsOnly(h) ==
  /\ WorkerOf[h] \in ready
  /\ Starts(h, "done", "done", NoUser, NoRoom)
  /\ UNCHANGED <<tables, lines, ready, faults>>

\* Every minute, in a worker that was asked about rooms since it started.
Cleanup(h) ==
  /\ WorkerOf[h] \in ready
  /\ Starts(h, "absent", "done", NoUser, NoRoom)
  /\ UNCHANGED <<tables, lines, ready, faults>>

\* GET /api/chat/rooms/active: a phone asks for the calls it may join.
Active(h) == Requests(h, "absent", "done", NoUser, NoRoom)

-----------------------------------------------------------------------------
(* POST /api/chat/groups/:id/call: sweep, find or make the room, sit down. *)

Call(h, u) == Requests(h, "absent", "select", u, NoRoom)

SelectRoom(h) ==
  /\ At(h, "select")
  /\ IF Live = {} THEN Does(h, "create") ELSE \E r \in Live : Takes(h, "count", r)
  /\ UNCHANGED <<tables, lines, ready, faults>>

\* uq_chat_rooms_live lets one live room of the group in.  Once Rooms is used
\* up (a bound), the insert fails as any query may.
CreateRoom(h) ==
  /\ At(h, "create")
  /\ \/ /\ Live # {}
        /\ Does(h, "again")
        /\ UNCHANGED <<room, young>>
     \/ /\ Live = {}
        /\ \E r \in Rooms : /\ room[r] = "none"
                            /\ room' = [room EXCEPT ![r] = "live"]
                            /\ young' = young \cup {r}
                            /\ Takes(h, "count", r)
     \/ /\ Live = {} /\ \A r \in Rooms : room[r] = "ended"
        /\ Forgets(h, "done")
        /\ UNCHANGED <<room, young>>
  /\ UNCHANGED <<inside, stale, lines, ready, faults>>

SelectAgain_Unchecked(h) ==
  /\ At(h, "again")
  /\ Does(h, "count")
  /\ UNCHANGED <<tables, lines, ready, faults>>

\* The room that won may have ended by now: then the handler fails.
SelectAgain(h) ==
  /\ At(h, "again")
  /\ IF Live = {} THEN Forgets(h, "done") ELSE \E r \in Live : Takes(h, "count", r)
  /\ UNCHANGED <<tables, lines, ready, faults>>

CountPeople_Never(h) ==
  /\ At(h, "count")
  /\ Does(h, "seat")
  /\ UNCHANGED <<tables, lines, ready, faults>>

\* The people are counted here; the member row is written by the next statement.
CountPeople(h) ==
  /\ At(h, "count")
  /\ LET there == inside[task[h].room]
     IN  IF task[h].user \notin there /\ Cardinality(there) >= MaxPeople
           THEN Forgets(h, "done")
           ELSE Does(h, "seat")
  /\ UNCHANGED <<tables, lines, ready, faults>>

Seat(h) ==
  /\ At(h, "seat")
  /\ LET r == task[h].room
         u == task[h].user
     IN  /\ inside' = [inside EXCEPT ![r] = @ \cup {u}]
         /\ stale' = [stale EXCEPT ![r] = @ \ {u}]
  /\ Forgets(h, "done")
  /\ UNCHANGED <<room, young, lines, ready, faults>>

-----------------------------------------------------------------------------
(* GET /api/chat/rooms/:id/poll and POST /api/chat/rooms/:id/leave         *)

\* Who is not in a live room is answered 409; an ended room is only reported.
Poll(h, u, r) ==
  IF r \in Live /\ u \in inside[r]
    THEN Requests(h, "seen", "done", u, r)
    ELSE Requests(h, "done", "done", NoUser, NoRoom)

Seen_Reseats(h) ==
  /\ At(h, "seen")
  /\ inside' = [inside EXCEPT ![task[h].room] = @ \cup {task[h].user}]
  /\ stale' = [stale EXCEPT ![task[h].room] = @ \ {task[h].user}]
  /\ Forgets(h, "absent")
  /\ UNCHANGED <<room, young, lines, ready, faults>>

\* Who was taken out meanwhile stays out.
Seen(h) ==
  /\ At(h, "seen")
  /\ stale' = [stale EXCEPT ![task[h].room] = @ \ {task[h].user}]
  /\ Forgets(h, "absent")
  /\ UNCHANGED <<room, young, inside, lines, ready, faults>>

Leave(h, u, r) ==
  /\ room[r] # "none"
  /\ Requests(h, "leave", "done", u, r)

StandUp(h) ==
  /\ At(h, "leave")
  /\ LET r == task[h].room
         u == task[h].user
     IN  /\ inside' = [inside EXCEPT ![r] = @ \ {u}]
         /\ stale' = [stale EXCEPT ![r] = @ \ {u}]
  /\ Does(h, "close")
  /\ UNCHANGED <<room, young, lines, ready, faults>>

CloseRoom_AnyState(h) ==
  /\ At(h, "close")
  /\ LET r == task[h].room
     IN  IF inside[r] = {}
           THEN /\ room' = [room EXCEPT ![r] = "ended"]
                /\ task' = [task EXCEPT ![h] = [Idle EXCEPT !.step = "done", !.owed = {r}]]
           ELSE /\ room' = room
                /\ Forgets(h, "done")
  /\ UNCHANGED <<young, inside, stale, lines, ready, faults>>

\* The last one out ends the room, however young, if the sweep has not.
CloseRoom(h) ==
  /\ At(h, "close")
  /\ LET r == task[h].room
     IN  IF r \in Live /\ inside[r] = {}
           THEN /\ room' = [room EXCEPT ![r] = "ended"]
                /\ task' = [task EXCEPT ![h] = [Idle EXCEPT !.step = "done", !.owed = {r}]]
           ELSE /\ room' = room
                /\ Forgets(h, "done")
  /\ UNCHANGED <<young, inside, stale, lines, ready, faults>>

\* A query fails, and with it the handler.
Dies(h) ==
  /\ task[h].step # "idle"
  /\ faults < MaxFaults
  /\ faults' = faults + 1
  /\ task' = [task EXCEPT ![h] = Idle]
  /\ UNCHANGED <<tables, lines, ready>>

\* A worker restarts: its requests are gone, and its timer waits to be asked.
Restart(w) ==
  /\ faults < MaxFaults
  /\ faults' = faults + 1
  /\ task' = [h \in Handlers |-> IF WorkerOf[h] = w THEN Idle ELSE task[h]]
  /\ ready' = ready \ {w}
  /\ UNCHANGED <<tables, lines>>

-----------------------------------------------------------------------------
Statement(h) ==
  \/ TakeOutStale(h) \/ EndDeserted(h) \/ Respond(h)
  \/ \E r \in Rooms : WriteLine(h, r)
  \/ SelectRoom(h) \/ CreateRoom(h) \/ SelectAgain(h) \/ CountPeople(h) \/ Seat(h)
  \/ Seen(h) \/ StandUp(h) \/ CloseRoom(h)

GroupNext ==
  \/ \E r \in Rooms : FiveSecondsPass(r) \/ \E u \in Users : StaleSecondsPass(r, u)
  \/ \E w \in Workers : Restart(w)
  \/ \E h \in Handlers :
       \/ Statement(h) \/ Cleanup(h) \/ Active(h) \/ Dies(h)
       \/ \E u \in Users : Call(h, u) \/ \E r \in Rooms : Poll(h, u, r) \/ Leave(h, u, r)

GroupSpec == GroupInit /\ [][GroupNext]_groupVars

\* Statements come back, time passes, and the cleanup timer of each worker goes on.
FairGroupSpec ==
  /\ GroupSpec
  /\ \A h \in Handlers : WF_groupVars(Statement(h))
  /\ \A w \in Workers : SF_groupVars(\E h \in Handlers : WorkerOf[h] = w /\ Cleanup(h))
  /\ \A r \in Rooms : WF_groupVars(FiveSecondsPass(r))

-----------------------------------------------------------------------------
GroupTypeOK ==
  /\ room \in [Rooms -> {"none", "live", "ended"}]
  /\ young \in SUBSET Rooms
  /\ inside \in [Rooms -> SUBSET Users]
  /\ stale \in [Rooms -> SUBSET Users]
  /\ \A r \in Rooms : room[r] = "none" => inside[r] = {}
  /\ lines \in [Rooms -> Nat]
  /\ task \in [Handlers -> Tasks]
  /\ \A h \in Handlers : task[h].step \in {"count", "seat", "seen", "leave", "close"} => task[h].room \in Rooms
  /\ ready \in SUBSET Workers
  /\ faults \in 0..MaxFaults

Owing(r) == {h \in Handlers : r \in task[h].owed}

\* "the room ends when nobody is left and posts" its line
\* (chatGroupCalls.js:9-10): the leaves of the last two people and the sweeps of
\* all workers end a room once between them; no room gets a second line, and
\* none that goes on gets one.
RoomOneLine ==
  \A r \in Rooms :
    /\ lines[r] <= 1
    /\ lines[r] = 1 => Owing(r) = {}
    /\ room[r] # "ended" => lines[r] = 0 /\ Owing(r) = {}
    /\ \A h, i \in Owing(r) : h = i

\* MAX_PEOPLE: joins that counted at the same time pass the limit by no more
\* than one each beside the one that was entitled to the last seat (174-185).
SeatsBounded ==
  \A r \in Rooms : Cardinality(inside[r]) < MaxPeople + Cardinality(Handlers)

\* A person taken out, or who left, is in the room again only through a join:
\* polls that were under way change nothing (UPDATE of seen_at, 253).
BackOnlyByJoining ==
  [][\A r \in Rooms, u \in Users :
       u \in inside'[r] \ inside[r] =>
         \E h \in Handlers : /\ task[h].step = "seat"
                             /\ task[h].room = r /\ task[h].user = u]_groupVars

\* A room with nobody in it ends, though queries fail, workers restart and the
\* last one out may die between its two updates; unless somebody joins first, or
\* no worker was asked about rooms since it restarted (287-290).
DesertedRoomsEnd ==
  \A r \in Rooms :
    (r \in Live /\ inside[r] = {}) ~> (r \notin Live \/ inside[r] # {} \/ ready = {})

\* "Someone not seen for STALE_SECONDS ... is taken out" (8-9), of a live room.
StaleLeave ==
  \A r \in Rooms, u \in Users :
    (r \in Live /\ u \in stale[r]) ~> (r \notin Live \/ u \notin stale[r])

\* "the room ends when nobody is left" (9): nobody sits in a room that ended.
EndedIsEmpty == \A r \in Rooms : room[r] = "ended" => inside[r] = {}
=============================================================================
