-------------------------- MODULE GroupCallsProofs --------------------------
(***************************************************************************)
(* The rooms of group calls: one line for each, a limit of people that     *)
(* joins at the same time pass by little, and no way back in but a join,   *)
(* for any number of people, rooms, requests and cleanup timers.           *)
(***************************************************************************)
EXTENDS GroupCalls, TLAPS, FiniteSetTheorems

KnowsRoom(t) == t.step \in {"count", "seat", "seen", "leave", "close"} => t.room \in Rooms

KnowsUser(t) ==
  \/ t.step \in {"select", "create", "again", "count", "seat"}
  \/ t.step \in {"absent", "empty"} /\ t.then = "select"
  => t.user \in Users

JoinsByUsers == \A h \in Handlers : KnowsUser(task[h])

\* Rooms that a join found or made are there.
JoinsRooms == \A h \in Handlers : task[h].step \in {"count", "seat"} => room[task[h].room] # "none"

\* Handlers that are about to write a member row of room r, and their users.
Seating(r) == {h \in Handlers : task[h].step = "seat" /\ task[h].room = r}
Coming(r)  == {task[h].user : h \in Seating(r)}

Limit == MaxPeople + Cardinality(Handlers) - 1

\* Who sits in a room or was let in: the limit is passed before the seat is taken.
Crowd == \A r \in Rooms : Cardinality(inside[r] \cup Coming(r)) <= Limit

RoomsInv == GroupTypeOK /\ JoinsByUsers /\ JoinsRooms /\ RoomOneLine /\ Crowd

-----------------------------------------------------------------------------
LEMMA Finite ==
  /\ IsFiniteSet(Handlers) /\ IsFiniteSet(Users)
  /\ Cardinality(Handlers) \in Nat /\ Limit \in Int
  BY GroupCallsConstants, FS_CardinalityType DEF Limit

\* A room holds no more people than the limit when nobody comes in.
LEMMA CrowdShrinks ==
  ASSUME RoomsInv, \A r \in Rooms : inside'[r] \cup Coming(r)' \subseteq inside[r] \cup Coming(r)
  PROVE  Crowd'
<1> SUFFICES ASSUME NEW r \in Rooms PROVE Cardinality(inside'[r] \cup Coming(r)') <= Limit
  BY DEF Crowd, Limit
<1> DEFINE S == inside[r] \cup Coming(r)
           T == inside'[r] \cup Coming(r)'
<1>1. S \subseteq Users
  BY DEF RoomsInv, GroupTypeOK, JoinsByUsers, KnowsUser, Coming, Seating
<1>2. IsFiniteSet(S)
  BY <1>1, Finite, FS_Subset
<1>3. T \in SUBSET S
  OBVIOUS
<1>4. Cardinality(S) <= Limit
  BY DEF RoomsInv, Crowd
<1> HIDE DEF S, T
<1>5. Cardinality(T) <= Cardinality(S) /\ IsFiniteSet(T)
  BY <1>2, <1>3, FS_Subset
<1>6. Cardinality(T) <= Limit
  BY <1>2, <1>4, <1>5, Finite, FS_CardinalityType
<1> QED
  BY <1>6 DEF T

\* A step of one handler leaves the others' tasks alone.
LEMMA TaskChange ==
  ASSUME RoomsInv, NEW h \in Handlers, NEW t \in Tasks, task' = [task EXCEPT ![h] = t]
  PROVE  /\ task' \in [Handlers -> Tasks]
         /\ task'[h] = t
         /\ \A k \in Handlers : k # h => task'[k] = task[k]
  BY DEF RoomsInv, GroupTypeOK

\* A step of one handler that ends no room, writes no line and lets nobody in.
LEMMA QuietStep ==
  ASSUME RoomsInv, ready' \in SUBSET Workers, NEW h \in Handlers, NEW t \in Tasks, task' = [task EXCEPT ![h] = t],
         KnowsRoom(t), KnowsUser(t), t.step # "seat", t.owed \subseteq task[h].owed,
         t.step = "count" => room'[t.room] # "none",
         lines' = lines,
         room' \in [Rooms -> {"none", "live", "ended"}],
         \A r \in Rooms : room'[r] = room[r] \/ (room[r] = "none" /\ room'[r] = "live"),
         young' \in SUBSET Rooms,
         inside' \in [Rooms -> SUBSET Users], stale' \in [Rooms -> SUBSET Users],
         \A r \in Rooms : inside'[r] \subseteq inside[r] \cup Coming(r),
         \A r \in Rooms : room'[r] = "none" => inside'[r] = {},
         faults' \in 0..MaxFaults
  PROVE  RoomsInv'
<1> USE DEF RoomsInv
<1>1. /\ task' \in [Handlers -> Tasks] /\ task'[h] = t
      /\ \A k \in Handlers : k # h => task'[k] = task[k]
  BY TaskChange
<1>2. GroupTypeOK'
  BY <1>1 DEF GroupTypeOK, KnowsRoom
<1>3. JoinsByUsers' /\ JoinsRooms'
  <2>1. JoinsByUsers'
    BY <1>1 DEF JoinsByUsers, KnowsUser
  <2>2. \A k \in Handlers : task[k].step \in {"count", "seat"} => task[k].room \in Rooms
    BY DEF GroupTypeOK
  <2>3. JoinsRooms'
    BY <1>1, <2>2 DEF JoinsRooms, KnowsRoom
  <2> QED
    BY <2>1, <2>3
<1>4. RoomOneLine'
  <2>1. \A r \in Rooms : Owing(r)' \subseteq Owing(r)
    BY <1>1 DEF Owing
  <2> QED
    BY <2>1 DEF RoomOneLine
<1>5. Crowd'
  <2>1. \A r \in Rooms : Coming(r)' \subseteq Coming(r)
    BY <1>1 DEF Coming, Seating
  <2> QED
    BY <2>1, CrowdShrinks
<1> QED
  BY <1>2, <1>3, <1>4, <1>5

\* The tasks that are as good as done.
LEMMA IdleTask ==
  ASSUME NEW step \in {"idle", "absent", "done"}
  PROVE  LET t == [Idle EXCEPT !.step = step]
         IN  /\ t \in Tasks /\ KnowsRoom(t) /\ KnowsUser(t) /\ t.step = step /\ t.owed = {}
             /\ t.then = "done"
  BY DEF Idle, Tasks, KnowsRoom, KnowsUser

LEMMA RoomsInit == GroupInit => RoomsInv
<1> SUFFICES ASSUME GroupInit PROVE RoomsInv
  OBVIOUS
<1> USE DEF GroupInit
<1>1. Idle \in Tasks /\ Idle.step = "idle" /\ Idle.owed = {} /\ Idle.then = "done"
  BY DEF Idle, Tasks
<1>2. GroupTypeOK
  BY <1>1, GroupCallsConstants DEF GroupTypeOK
<1>3. JoinsByUsers /\ JoinsRooms /\ RoomOneLine
  BY <1>1 DEF JoinsByUsers, JoinsRooms, KnowsUser, RoomOneLine, Owing
<1>4. Crowd
  <2>1. \A r \in Rooms : inside[r] \cup Coming(r) = {}
    BY <1>1 DEF Coming, Seating
  <2>2. 0 <= Limit
    BY Finite, GroupCallsConstants DEF Limit
  <2> QED
    BY <2>1, <2>2, FS_EmptySet DEF Crowd
<1> QED
  BY <1>2, <1>3, <1>4 DEF RoomsInv

\* Time passes: no handler moves.
LEMMA TimePasses ==
  ASSUME RoomsInv, ready' \in SUBSET Workers, UNCHANGED <<room, inside, lines, task, faults>>,
         young' \in SUBSET Rooms, stale' \in [Rooms -> SUBSET Users]
  PROVE  RoomsInv'
<1> USE DEF RoomsInv
<1>1. GroupTypeOK' /\ JoinsByUsers' /\ JoinsRooms'
  BY DEF GroupTypeOK, JoinsByUsers, JoinsRooms
<1>2. RoomOneLine'
  BY DEF RoomOneLine, Owing
<1>3. Crowd'
  BY DEF Crowd, Coming, Seating, Limit
<1> QED
  BY <1>1, <1>2, <1>3

\* A step that changes nothing but the task of its handler.
LEMMA LocalStep ==
  ASSUME RoomsInv, ready' \in SUBSET Workers, NEW h \in Handlers, NEW t \in Tasks, task' = [task EXCEPT ![h] = t],
         KnowsRoom(t), KnowsUser(t), t.step # "seat", t.owed \subseteq task[h].owed,
         t.step = "count" => room[t.room] # "none",
         UNCHANGED <<tables, lines>>, faults' \in 0..MaxFaults
  PROVE  RoomsInv'
<1> USE DEF tables
<1>1. /\ room' \in [Rooms -> {"none", "live", "ended"}] /\ young' \in SUBSET Rooms
      /\ inside' \in [Rooms -> SUBSET Users] /\ stale' \in [Rooms -> SUBSET Users]
      /\ \A r \in Rooms : room'[r] = "none" => inside'[r] = {}
  BY DEF RoomsInv, GroupTypeOK
<1>2. /\ \A r \in Rooms : room'[r] = room[r] \/ (room[r] = "none" /\ room'[r] = "live")
      /\ \A r \in Rooms : inside'[r] \subseteq inside[r] \cup Coming(r)
      /\ lines' = lines
  OBVIOUS
<1> QED
  BY <1>1, <1>2, QuietStep

\* The requests and timers that begin.
LEMMA Begins ==
  ASSUME RoomsInv, ready' \in SUBSET Workers, NEW h \in Handlers, NEW step \in {"absent", "done", "seen", "leave"},
         NEW then \in {"select", "done"}, NEW u \in Users \cup {NoUser}, NEW r \in Rooms \cup {NoRoom},
         Starts(h, step, then, u, r), UNCHANGED <<tables, lines, faults>>,
         step \in {"seen", "leave"} => r \in Rooms,
         step = "absent" /\ then = "select" => u \in Users
  PROVE  RoomsInv'
<1> DEFINE t == [step |-> step, then |-> then, user |-> u, room |-> r, owed |-> {}]
<1>1. /\ t \in Tasks /\ KnowsRoom(t) /\ KnowsUser(t) /\ t.step = step /\ t.owed = {}
  BY DEF Tasks, KnowsRoom, KnowsUser
<1>2. task' = [task EXCEPT ![h] = t]
  BY DEF Starts
<1>3. faults' \in 0..MaxFaults
  BY DEF RoomsInv, GroupTypeOK
<1> HIDE DEF t
<1> QED
  BY <1>1, <1>2, <1>3, LocalStep

\* What handler h holds when it goes on to another step, perhaps with a room.
LEMMA TaskGoesOn ==
  ASSUME RoomsInv, NEW h \in Handlers, At(h, "select") \/ At(h, "create") \/ At(h, "again") \/ At(h, "count"),
         NEW step \in {"create", "again", "count", "seat"}, NEW r \in Rooms \cup {NoRoom},
         step \in {"count", "seat"} => r \in Rooms
  PROVE  LET t == [task[h] EXCEPT !.step = step, !.room = r]
         IN  /\ t \in Tasks /\ KnowsRoom(t) /\ KnowsUser(t) /\ t.step = step /\ t.room = r
             /\ t.user = task[h].user /\ t.user \in Users /\ t.owed = {}
<1>1. /\ task[h] \in Tasks /\ task[h].owed = {}
      /\ task[h].step \in {"select", "create", "again", "count"} /\ task[h].user \in Users
  BY DEF RoomsInv, GroupTypeOK, JoinsByUsers, KnowsUser, At
<1> QED
  BY <1>1 DEF Tasks, KnowsRoom, KnowsUser

\* A call that goes on keeps its room and its person.
LEMMA TaskSteps ==
  ASSUME RoomsInv, NEW h \in Handlers, At(h, "select") \/ At(h, "create") \/ At(h, "again") \/ At(h, "count"),
         NEW step \in {"create", "again", "seat"}, step = "seat" => At(h, "count")
  PROVE  LET t == [task[h] EXCEPT !.step = step]
         IN  /\ t \in Tasks /\ KnowsRoom(t) /\ KnowsUser(t) /\ t.step = step /\ t.room = task[h].room
             /\ t.user = task[h].user /\ t.user \in Users /\ t.owed = {}
<1>1. /\ task[h] \in Tasks /\ task[h].owed = {}
      /\ task[h].step \in {"select", "create", "again", "count"} /\ task[h].user \in Users
      /\ step = "seat" => task[h].room \in Rooms
  BY DEF RoomsInv, GroupTypeOK, JoinsByUsers, KnowsUser, At
<1> QED
  BY <1>1 DEF Tasks, KnowsRoom, KnowsUser

\* The room of a call exists, or none was found.
LEMMA RoomIsFound ==
  ASSUME RoomsInv, ready' \in SUBSET Workers, NEW h \in Handlers, SelectRoom(h) \/ SelectAgain(h)
  PROVE  RoomsInv'
<1>1. UNCHANGED <<tables, lines>> /\ faults' \in 0..MaxFaults
  BY DEF SelectRoom, SelectAgain, RoomsInv, GroupTypeOK
<1>2. (At(h, "select") \/ At(h, "again")) /\ task[h] \in Tasks /\ task \in [Handlers -> Tasks]
  BY DEF SelectRoom, SelectAgain, RoomsInv, GroupTypeOK
<1>3. ASSUME Does(h, "create"), At(h, "select") PROVE RoomsInv'
  <2> DEFINE t == [task[h] EXCEPT !.step = "create"]
  <2>2. task' = [task EXCEPT ![h] = t]
    BY <1>3 DEF Does
  <2>3. t \in Tasks /\ KnowsRoom(t) /\ KnowsUser(t) /\ t.step = "create" /\ t.owed = {}
    BY <1>2, <1>3, TaskSteps
  <2> HIDE DEF t
  <2> QED
    BY <1>1, <2>2, <2>3, LocalStep
<1>4. ASSUME Forgets(h, "done") PROVE RoomsInv'
  BY <1>1, <1>4, IdleTask, LocalStep DEF Forgets
<1>5. ASSUME NEW r \in Live, Takes(h, "count", r) PROVE RoomsInv'
  <2> DEFINE t == [task[h] EXCEPT !.step = "count", !.room = r]
  <2>1. r \in Rooms
    BY DEF Live
  <2>2. task' = [task EXCEPT ![h] = t]
    BY <1>2, <1>5 DEF Takes
  <2>3. t \in Tasks /\ KnowsRoom(t) /\ KnowsUser(t) /\ t.step = "count" /\ t.owed = {}
        /\ t.room = r /\ room[r] # "none"
    BY <1>2, <2>1, TaskGoesOn DEF Live
  <2> HIDE DEF t
  <2> QED
    BY <1>1, <2>2, <2>3, LocalStep
<1> QED
  BY <1>3, <1>4, <1>5 DEF SelectRoom, SelectAgain

\* The unique index: a room is created where there is none that is live.
LEMMA RoomIsMade ==
  ASSUME RoomsInv, ready' \in SUBSET Workers, NEW h \in Handlers, CreateRoom(h)
  PROVE  RoomsInv'
<1>1. At(h, "create") /\ UNCHANGED <<inside, stale, lines, faults>>
  BY DEF CreateRoom
<1>2. /\ task[h] \in Tasks /\ task \in [Handlers -> Tasks] /\ faults' \in 0..MaxFaults
      /\ task[h].room \in Rooms \cup {NoRoom}
  BY <1>1 DEF RoomsInv, GroupTypeOK, Tasks
<1>3. CASE Does(h, "again") /\ UNCHANGED <<room, young>>
  <2> DEFINE t == [task[h] EXCEPT !.step = "again"]
  <2>1. task' = [task EXCEPT ![h] = t]
    BY <1>3 DEF Does
  <2>2. t \in Tasks /\ KnowsRoom(t) /\ KnowsUser(t) /\ t.step = "again" /\ t.owed = {}
    BY <1>1, <1>2, TaskSteps
  <2>3. UNCHANGED <<tables, lines>>
    BY <1>1, <1>3 DEF tables
  <2> HIDE DEF t
  <2> QED
    BY <1>2, <2>1, <2>2, <2>3, LocalStep
<1>4. CASE Forgets(h, "done") /\ UNCHANGED <<room, young>>
  <2>1. UNCHANGED <<tables, lines>>
    BY <1>1, <1>4 DEF tables
  <2> QED
    BY <1>2, <1>4, <2>1, IdleTask, LocalStep DEF Forgets
<1>5. ASSUME NEW r \in Rooms, room[r] = "none", room' = [room EXCEPT ![r] = "live"],
             young' = young \cup {r}, Takes(h, "count", r)
      PROVE  RoomsInv'
  <2> DEFINE t == [task[h] EXCEPT !.step = "count", !.room = r]
  <2>1. task' = [task EXCEPT ![h] = t]
    BY <1>2, <1>5 DEF Takes
  <2>2. t \in Tasks /\ KnowsRoom(t) /\ KnowsUser(t) /\ t.step = "count" /\ t.owed = {}
        /\ t.room = r
    BY <1>1, TaskGoesOn
  <2>3. /\ room' \in [Rooms -> {"none", "live", "ended"}] /\ young' \in SUBSET Rooms
        /\ inside' \in [Rooms -> SUBSET Users] /\ stale' \in [Rooms -> SUBSET Users]
        /\ \A q \in Rooms : room'[q] = room[q] \/ (room[q] = "none" /\ room'[q] = "live")
        /\ \A q \in Rooms : room'[q] = "none" => inside'[q] = {}
        /\ room'[r] # "none"
    BY <1>1, <1>5 DEF RoomsInv, GroupTypeOK
  <2>4. lines' = lines /\ \A q \in Rooms : inside'[q] \subseteq inside[q] \cup Coming(q)
    BY <1>1
  <2> HIDE DEF t
  <2> QED
    BY <1>2, <2>1, <2>2, <2>3, <2>4, QuietStep
<1> QED
  BY <1>3, <1>4, <1>5 DEF CreateRoom

\* At the count, fewer than MaxPeople sit in the room; at most every handler is
\* about to seat somebody.
LEMMA LetIn ==
  ASSUME RoomsInv, NEW h \in Handlers, CountPeople(h), Does(h, "seat"),
         task[h].user \in inside[task[h].room] \/ ~(Cardinality(inside[task[h].room]) >= MaxPeople)
  PROVE  Crowd'
<1> DEFINE r == task[h].room
           u == task[h].user
<1>1. r \in Rooms /\ u \in Users /\ task \in [Handlers -> Tasks] /\ inside \in [Rooms -> SUBSET Users]
  BY DEF CountPeople, At, RoomsInv, GroupTypeOK, JoinsByUsers, KnowsUser
<1>2. /\ task'[h].step = "seat" /\ task'[h].room = r /\ task'[h].user = u
      /\ \A k \in Handlers : k # h => task'[k] = task[k]
      /\ inside' = inside
  BY <1>1 DEF Does, CountPeople, tables, Tasks
<1> HIDE DEF r, u
<1> SUFFICES ASSUME NEW q \in Rooms PROVE Cardinality(inside'[q] \cup Coming(q)') <= Limit
  BY DEF Crowd, Limit
<1>3. Coming(q)' \subseteq Coming(q) \cup (IF q = r THEN {u} ELSE {})
  BY <1>2 DEF Coming, Seating
<1>4. Coming(q) \subseteq Users /\ Coming(q)' \subseteq Users /\ inside[q] \subseteq Users
  BY <1>1, <1>3 DEF RoomsInv, JoinsByUsers, KnowsUser, Coming, Seating
<1>5. IsFiniteSet(inside[q]) /\ IsFiniteSet(Coming(q)) /\ IsFiniteSet(Coming(q)')
  BY <1>4, Finite, FS_Subset
<1>6. ASSUME inside'[q] \cup Coming(q)' \subseteq inside[q] \cup Coming(q)
      PROVE  Cardinality(inside'[q] \cup Coming(q)') <= Limit
  <2> DEFINE S == inside[q] \cup Coming(q)
             T == inside'[q] \cup Coming(q)'
  <2>1. IsFiniteSet(S) /\ T \in SUBSET S
    BY <1>5, <1>6, FS_Union
  <2>2. Cardinality(S) <= Limit
    BY DEF RoomsInv, Crowd
  <2> HIDE DEF S, T
  <2>3. Cardinality(T) <= Cardinality(S) /\ IsFiniteSet(T)
    BY <2>1, FS_Subset
  <2>4. Cardinality(T) <= Limit
    BY <2>1, <2>2, <2>3, Finite, FS_CardinalityType
  <2> QED
    BY <2>4 DEF T
<1>7. CASE q # r \/ u \in inside[q]
  BY <1>2, <1>3, <1>6, <1>7
<1>8. CASE q = r /\ u \notin inside[q]
  <2> DEFINE A == inside[q]
             B == Coming(q)'
  <2>1. Cardinality(A) \in Nat /\ Cardinality(A) < MaxPeople
    BY <1>5, <1>8, FS_CardinalityType, GroupCallsConstants DEF r, u
  <2>2. Cardinality(B) <= Cardinality(Handlers) /\ Cardinality(B) \in Nat
    <3> DEFINE W == Seating(q)'
               f == [k \in W |-> task'[k].user]
    <3>1. W \in SUBSET Handlers
      BY DEF Seating
    <3>2. IsFiniteSet(W) /\ Cardinality(W) <= Cardinality(Handlers)
      BY <3>1, Finite, FS_Subset
    <3>3. f \in Surjection(W, B)
      BY DEF Surjection, Coming
    <3>4. Cardinality(B) <= Cardinality(W)
      BY <3>2, <3>3, FS_Surjection
    <3>5. Cardinality(B) \in Nat /\ Cardinality(W) \in Nat
      BY <1>5, <3>2, FS_CardinalityType
    <3> QED
      BY <3>2, <3>4, <3>5, Finite
  <2>3. /\ Cardinality(A \cup B) = Cardinality(A) + Cardinality(B) - Cardinality(A \cap B)
        /\ IsFiniteSet(A \cap B)
    BY <1>5, FS_Union, FS_Intersection
  <2>4. Cardinality(A \cap B) \in Nat
    BY <2>3, FS_CardinalityType
  <2>5. inside'[q] \cup Coming(q)' = A \cup B
    BY <1>2
  <2> HIDE DEF A, B
  <2>6. Cardinality(A \cup B) <= Limit
    BY <2>1, <2>2, <2>3, <2>4, Finite, GroupCallsConstants DEF Limit
  <2> QED
    BY <2>5, <2>6
<1> QED
  BY <1>7, <1>8

\* Those who are let in are counted in Crowd before they sit down.
LEMMA PeopleAreCounted ==
  ASSUME RoomsInv, ready' \in SUBSET Workers, NEW h \in Handlers, CountPeople(h)
  PROVE  RoomsInv'
<1>1. UNCHANGED <<tables, lines>> /\ faults' \in 0..MaxFaults /\ At(h, "count")
  BY DEF CountPeople, RoomsInv, GroupTypeOK
<1>2. CASE Forgets(h, "done")
  BY <1>1, <1>2, IdleTask, LocalStep DEF Forgets
<1>3. CASE Does(h, "seat") /\ ( \/ task[h].user \in inside[task[h].room]
                                \/ ~(Cardinality(inside[task[h].room]) >= MaxPeople))
  <2> DEFINE t == [task[h] EXCEPT !.step = "seat"]
  <2>1. task[h].room \in Rooms /\ task[h] \in Tasks /\ task \in [Handlers -> Tasks]
    BY <1>1 DEF RoomsInv, GroupTypeOK, At
  <2>2. task' = [task EXCEPT ![h] = t]
    BY <1>3 DEF Does
  <2>3. t \in Tasks /\ KnowsRoom(t) /\ KnowsUser(t) /\ t.owed = {} /\ t.room = task[h].room
    BY <1>1, <2>1, TaskSteps
  <2> HIDE DEF t
  <2>4. /\ task' \in [Handlers -> Tasks] /\ task'[h] = t
        /\ \A k \in Handlers : k # h => task'[k] = task[k]
    BY <2>2, <2>3, TaskChange
  <2>5. GroupTypeOK'
    BY <1>1, <2>3, <2>4 DEF RoomsInv, GroupTypeOK, KnowsRoom, tables
  <2>6. JoinsByUsers' /\ JoinsRooms'
    BY <1>1, <2>3, <2>4 DEF RoomsInv, JoinsByUsers, JoinsRooms, KnowsUser, At, tables
  <2>7. RoomOneLine'
    <3>1. \A r \in Rooms : Owing(r)' \subseteq Owing(r)
      BY <2>3, <2>4 DEF Owing
    <3> QED
      BY <1>1, <3>1 DEF RoomsInv, RoomOneLine, tables
  <2>8. Crowd'
    BY <1>3, LetIn
  <2> QED
    BY <2>5, <2>6, <2>7, <2>8 DEF RoomsInv
<1> QED
  BY <1>2, <1>3 DEF CountPeople

\* Steps that move people or stale marks within the rooms.
LEMMA PeopleMove ==
  ASSUME RoomsInv, ready' \in SUBSET Workers, NEW h \in Handlers, Seat(h) \/ StandUp(h) \/ Seen(h) \/ TakeOutStale(h)
  PROVE  RoomsInv'
<1>1. /\ task[h] \in Tasks /\ task \in [Handlers -> Tasks] /\ room \in [Rooms -> {"none", "live", "ended"}]
      /\ inside \in [Rooms -> SUBSET Users] /\ stale \in [Rooms -> SUBSET Users] /\ young \in SUBSET Rooms
      /\ \A r \in Rooms : room[r] = "none" => inside[r] = {}
      /\ faults \in 0..MaxFaults
      /\ task[h].step \in {"seat", "seen", "leave"} => task[h].room \in Rooms
  BY DEF RoomsInv, GroupTypeOK
<1>2. UNCHANGED <<room, young, lines, faults>>
  BY DEF Seat, StandUp, Seen, TakeOutStale
<1>3. ASSUME NEW t \in Tasks, task' = [task EXCEPT ![h] = t], KnowsRoom(t), KnowsUser(t), t.step \notin {"count", "seat"},
             t.owed \subseteq task[h].owed,
             inside' \in [Rooms -> SUBSET Users], stale' \in [Rooms -> SUBSET Users],
             \A r \in Rooms : inside'[r] \subseteq inside[r] \cup Coming(r),
             \A r \in Rooms : room[r] = "none" => inside'[r] = {}
      PROVE  RoomsInv'
  <2>1. /\ room' \in [Rooms -> {"none", "live", "ended"}] /\ young' \in SUBSET Rooms
        /\ \A r \in Rooms : room'[r] = room[r] \/ (room[r] = "none" /\ room'[r] = "live")
        /\ \A r \in Rooms : room'[r] = "none" => inside'[r] = {}
        /\ lines' = lines /\ faults' \in 0..MaxFaults
    BY <1>1, <1>2, <1>3
  <2> QED
    BY <1>3, <2>1, QuietStep
<1>4. CASE Seat(h)
  <2> DEFINE r == task[h].room
             u == task[h].user
  <2>1. /\ inside' = [inside EXCEPT ![r] = @ \cup {u}] /\ stale' = [stale EXCEPT ![r] = @ \ {u}]
        /\ task[h].step = "seat" /\ Forgets(h, "done")
    BY <1>4 DEF Seat, At
  <2>2. r \in Rooms /\ u \in Users /\ u \in Coming(r)
    BY <1>1, <2>1 DEF RoomsInv, JoinsByUsers, KnowsUser, Coming, Seating
  <2>3. room[r] # "none"
    BY <2>1 DEF RoomsInv, JoinsRooms, r
  <2> HIDE DEF r, u
  <2>4. /\ inside' \in [Rooms -> SUBSET Users] /\ stale' \in [Rooms -> SUBSET Users]
        /\ \A q \in Rooms : inside'[q] \subseteq inside[q] \cup Coming(q)
        /\ \A q \in Rooms : room[q] = "none" => inside'[q] = {}
    BY <1>1, <2>1, <2>2, <2>3
  <2> QED
    BY <1>3, <2>1, <2>4, IdleTask DEF Forgets
<1>5. CASE Seen(h)
  <2>1. /\ inside' = inside /\ stale' = [stale EXCEPT ![task[h].room] = @ \ {task[h].user}]
        /\ Forgets(h, "absent")
    BY <1>5 DEF Seen
  <2>2. stale' \in [Rooms -> SUBSET Users]
    BY <1>1, <2>1
  <2> QED
    BY <1>1, <1>3, <2>1, <2>2, IdleTask DEF Forgets
<1>6. CASE StandUp(h)
  <2> DEFINE t == [task[h] EXCEPT !.step = "close"]
  <2>1. /\ inside' = [inside EXCEPT ![task[h].room] = @ \ {task[h].user}]
        /\ stale' = [stale EXCEPT ![task[h].room] = @ \ {task[h].user}]
        /\ task' = [task EXCEPT ![h] = t] /\ task[h].step = "leave"
    BY <1>6 DEF StandUp, At, Does
  <2>2. t \in Tasks /\ KnowsRoom(t) /\ KnowsUser(t) /\ t.step = "close" /\ t.owed = task[h].owed
    BY <1>1, <2>1 DEF Tasks, KnowsRoom, KnowsUser
  <2> HIDE DEF t
  <2>3. /\ inside' \in [Rooms -> SUBSET Users] /\ stale' \in [Rooms -> SUBSET Users]
        /\ \A q \in Rooms : inside'[q] \subseteq inside[q]
    BY <1>1, <2>1
  <2>4. /\ \A q \in Rooms : inside'[q] \subseteq inside[q] \cup Coming(q)
        /\ \A q \in Rooms : room[q] = "none" => inside'[q] = {}
    BY <1>1, <2>3
  <2> QED
    BY <1>3, <2>1, <2>2, <2>3, <2>4
<1>7. CASE TakeOutStale(h)
  <2> DEFINE t == [task[h] EXCEPT !.step = "empty"]
  <2>1. /\ inside' = [r \in Rooms |-> IF r \in Live THEN inside[r] \ stale[r] ELSE inside[r]]
        /\ stale' = [r \in Rooms |-> IF r \in Live THEN {} ELSE stale[r]]
        /\ task' = [task EXCEPT ![h] = t] /\ task[h].step = "absent"
    BY <1>7 DEF TakeOutStale, At, Does
  <2>2. t \in Tasks /\ KnowsRoom(t) /\ KnowsUser(t) /\ t.step = "empty" /\ t.owed = task[h].owed
    BY <1>1, <2>1 DEF Tasks, KnowsRoom, KnowsUser, RoomsInv, JoinsByUsers
  <2> HIDE DEF t
  <2>3. /\ inside' \in [Rooms -> SUBSET Users] /\ stale' \in [Rooms -> SUBSET Users]
        /\ \A q \in Rooms : inside'[q] \subseteq inside[q]
    BY <1>1, <2>1
  <2> QED
    BY <1>1, <1>3, <2>1, <2>2, <2>3
<1> QED
  BY <1>4, <1>5, <1>6, <1>7

\* Who ends live rooms owes the line of each, and nobody else does.
LEMMA RoomsEnd ==
  ASSUME RoomsInv, ready' \in SUBSET Workers, NEW h \in Handlers, NEW t \in Tasks, task' = [task EXCEPT ![h] = t],
         KnowsRoom(t), KnowsUser(t), t.step \notin {"count", "seat"}, task[h].owed = {}, t.owed \subseteq Live,
         \A r \in t.owed : inside[r] = {},
         room' = [r \in Rooms |-> IF r \in t.owed THEN "ended" ELSE room[r]],
         UNCHANGED <<young, inside, stale, lines, faults>>
  PROVE  RoomsInv'
<1> USE DEF RoomsInv
<1>1. /\ task' \in [Handlers -> Tasks] /\ task'[h] = t
      /\ \A k \in Handlers : k # h => task'[k] = task[k]
  BY TaskChange
<1>2. GroupTypeOK'
  BY <1>1 DEF GroupTypeOK, KnowsRoom
<1>3. JoinsByUsers' /\ JoinsRooms'
  BY <1>1 DEF JoinsByUsers, JoinsRooms, KnowsUser, GroupTypeOK
<1>4. RoomOneLine'
  <2> SUFFICES ASSUME NEW r \in Rooms
               PROVE  /\ lines'[r] <= 1
                      /\ lines'[r] = 1 => Owing(r)' = {}
                      /\ room'[r] # "ended" => lines'[r] = 0 /\ Owing(r)' = {}
                      /\ \A k, i \in Owing(r)' : k = i
    BY DEF RoomOneLine
  <2>1. CASE r \in t.owed
    <3>1. room[r] # "ended"
      BY <2>1 DEF Live
    <3>2. lines[r] = 0 /\ Owing(r) = {}
      BY <3>1 DEF RoomOneLine
    <3>3. Owing(r)' \subseteq {h}
      BY <1>1, <3>2 DEF Owing
    <3> QED
      BY <2>1, <3>2, <3>3
  <2>2. CASE r \notin t.owed
    <3>1. Owing(r)' \subseteq Owing(r) /\ room'[r] = room[r]
      BY <1>1, <2>2 DEF Owing
    <3> QED
      BY <3>1 DEF RoomOneLine
  <2> QED
    BY <2>1, <2>2
<1>5. Crowd'
  <2>1. \A r \in Rooms : Coming(r)' \subseteq Coming(r)
    BY <1>1 DEF Coming, Seating
  <2> QED
    BY <2>1, CrowdShrinks
<1> QED
  BY <1>2, <1>3, <1>4, <1>5

\* A room the sweep ends owes its line to this handler alone.
LEMMA SweepEnds ==
  ASSUME RoomsInv, ready' \in SUBSET Workers, NEW h \in Handlers, EndDeserted(h)
  PROVE  RoomsInv'
<1> DEFINE t == [task[h] EXCEPT !.step = task[h].then, !.owed = Deserted]
<1>1. task[h] \in Tasks /\ task[h].step = "empty" /\ task[h].owed = {}
  BY DEF EndDeserted, At, RoomsInv, GroupTypeOK
<1>2. Deserted \subseteq Live /\ Live \subseteq Rooms /\ \A r \in Deserted : inside[r] = {}
  BY DEF Deserted, Live
<1>3. /\ t \in Tasks /\ t.step = task[h].then /\ t.owed = Deserted /\ t.then = task[h].then
      /\ t.user = task[h].user /\ task[h].then \in {"select", "done"}
  BY <1>1, <1>2 DEF Tasks
<1>4. KnowsRoom(t) /\ KnowsUser(t) /\ t.step \notin {"count", "seat"}
  BY <1>1, <1>3 DEF KnowsRoom, KnowsUser, RoomsInv, JoinsByUsers
<1>5. /\ task' = [task EXCEPT ![h] = t]
      /\ room' = [r \in Rooms |-> IF r \in Deserted THEN "ended" ELSE room[r]]
      /\ UNCHANGED <<young, inside, stale, lines, faults>>
  BY DEF EndDeserted
<1> HIDE DEF t
<1> QED
  BY <1>1, <1>2, <1>3, <1>4, <1>5, RoomsEnd

\* A room the last person leaves is ended by one handler, which owes its line.
LEMMA LeaveEnds ==
  ASSUME RoomsInv, ready' \in SUBSET Workers, NEW h \in Handlers, CloseRoom(h)
  PROVE  RoomsInv'
<1> DEFINE r == task[h].room
           t == [Idle EXCEPT !.step = "done", !.owed = {r}]
<1>1. /\ task[h].owed = {} /\ r \in Rooms /\ room \in [Rooms -> {"none", "live", "ended"}]
      /\ UNCHANGED <<young, inside, stale, lines, faults>> /\ faults \in 0..MaxFaults
  BY DEF CloseRoom, At, RoomsInv, GroupTypeOK
<1>2. CASE /\ r \in Live /\ inside[r] = {}
           /\ room' = [room EXCEPT ![r] = "ended"] /\ task' = [task EXCEPT ![h] = t]
  <2>1. t \in Tasks /\ KnowsRoom(t) /\ KnowsUser(t) /\ t.step = "done" /\ t.owed = {r}
    BY <1>1 DEF Idle, Tasks, KnowsRoom, KnowsUser
  <2>2. room' = [q \in Rooms |-> IF q \in t.owed THEN "ended" ELSE room[q]]
    BY <1>1, <1>2, <2>1
  <2> HIDE DEF t, r
  <2> QED
    BY <1>1, <1>2, <2>1, <2>2, RoomsEnd
<1>3. CASE room' = room /\ Forgets(h, "done")
  <2>1. UNCHANGED <<tables, lines>> /\ faults' \in 0..MaxFaults
    BY <1>1, <1>3 DEF tables
  <2> QED
    BY <1>3, <2>1, IdleTask, LocalStep DEF Forgets
<1> QED
  BY <1>2, <1>3 DEF CloseRoom

\* A line that is written is no longer owed.
LEMMA LineIsWritten ==
  ASSUME RoomsInv, ready' \in SUBSET Workers, NEW h \in Handlers, NEW r \in Rooms, WriteLine(h, r)
  PROVE  RoomsInv'
<1> USE DEF RoomsInv
<1> DEFINE t == [task[h] EXCEPT !.owed = @ \ {r}]
<1>1. task[h] \in Tasks /\ lines \in [Rooms -> Nat] /\ r \in task[h].owed
  BY DEF WriteLine, GroupTypeOK
<1>2. /\ t \in Tasks /\ t.owed = task[h].owed \ {r} /\ t.step = task[h].step /\ t.then = task[h].then
      /\ t.user = task[h].user /\ t.room = task[h].room
  BY <1>1 DEF Tasks
<1>3. /\ task' = [task EXCEPT ![h] = t] /\ lines' = [lines EXCEPT ![r] = @ + 1]
      /\ UNCHANGED <<room, young, inside, stale, faults>>
  BY DEF WriteLine, tables
<1> HIDE DEF t
<1>4. /\ task' \in [Handlers -> Tasks] /\ task'[h] = t
      /\ \A k \in Handlers : k # h => task'[k] = task[k]
  BY <1>2, <1>3, TaskChange
<1>5. Owing(r) = {h} /\ lines[r] = 0 /\ room[r] = "ended"
  <2>1. h \in Owing(r)
    BY <1>1 DEF Owing
  <2> QED
    BY <1>1, <2>1 DEF RoomOneLine
<1>6. GroupTypeOK'
  BY <1>1, <1>2, <1>3, <1>4 DEF GroupTypeOK
<1>7. JoinsByUsers' /\ JoinsRooms'
  BY <1>2, <1>3, <1>4 DEF JoinsByUsers, JoinsRooms, KnowsUser
<1>8. RoomOneLine'
  <2>1. lines'[r] = 1 /\ Owing(r)' = {}
    BY <1>1, <1>2, <1>3, <1>4, <1>5 DEF Owing
  <2>2. \A q \in Rooms : q # r => lines'[q] = lines[q] /\ Owing(q)' = Owing(q)
    BY <1>1, <1>2, <1>3, <1>4 DEF Owing
  <2> QED
    BY <1>3, <1>5, <2>1, <2>2 DEF RoomOneLine
<1>9. Crowd'
  <2>1. \A q \in Rooms : Coming(q)' \subseteq Coming(q)
    BY <1>2, <1>4 DEF Coming, Seating
  <2> QED
    BY <1>3, <2>1, CrowdShrinks
<1> QED
  BY <1>6, <1>7, <1>8, <1>9

\* A worker that restarts forgets its tasks: it owes no line and seats nobody.
LEMMA WorkerStarts ==
  ASSUME RoomsInv, NEW w \in Workers, Restart(w)
  PROVE  RoomsInv'
<1> USE DEF RoomsInv
<1>1. /\ Idle \in Tasks /\ Idle.step = "idle" /\ Idle.owed = {}
      /\ UNCHANGED <<room, young, inside, stale, lines>>
  BY DEF Idle, Tasks, Restart, tables
<1>2. /\ task' \in [Handlers -> Tasks]
      /\ \A h \in Handlers : task'[h] = Idle \/ task'[h] = task[h]
  BY <1>1 DEF Restart, GroupTypeOK
<1>3. GroupTypeOK'
  <2>1. ready' \in SUBSET Workers /\ faults' \in 0..MaxFaults
    BY GroupCallsConstants DEF Restart, GroupTypeOK
  <2> QED
    BY <1>1, <1>2, <2>1 DEF GroupTypeOK
<1>4. JoinsByUsers' /\ JoinsRooms'
  BY <1>1, <1>2 DEF JoinsByUsers, JoinsRooms, KnowsUser
<1>5. RoomOneLine'
  <2>1. \A r \in Rooms : Owing(r)' \subseteq Owing(r)
    BY <1>1, <1>2 DEF Owing
  <2> QED
    BY <1>1, <2>1 DEF RoomOneLine
<1>6. Crowd'
  <2>1. \A r \in Rooms : Coming(r)' \subseteq Coming(r)
    BY <1>1, <1>2 DEF Coming, Seating
  <2> QED
    BY <1>1, <2>1, CrowdShrinks
<1> QED
  BY <1>3, <1>4, <1>5, <1>6

\* A step adds to ready the worker of its handler, or takes one away.
LEMMA ReadyTyped ==
  ASSUME GroupTypeOK, [GroupNext]_groupVars
  PROVE  ready' \in SUBSET Workers
<1> USE GroupCallsConstants DEF GroupTypeOK
<1>1. ASSUME NEW h \in Handlers, Statement(h) PROVE UNCHANGED ready
  BY <1>1 DEF Statement, TakeOutStale, EndDeserted, Respond, WriteLine, SelectRoom, CreateRoom, SelectAgain,
              CountPeople, Seat, Seen, StandUp, CloseRoom
<1>2. ASSUME NEW h \in Handlers, Cleanup(h) \/ Dies(h) PROVE UNCHANGED ready
  BY <1>2 DEF Cleanup, Dies
<1>3. ASSUME NEW h \in Handlers, NEW u \in Users, NEW r \in Rooms, Poll(h, u, r) \/ Leave(h, u, r)
      PROVE  ready' = ready \cup {WorkerOf[h]}
  BY <1>3 DEF Poll, Leave, Requests
<1>4. ASSUME NEW h \in Handlers, Active(h) PROVE ready' = ready \cup {WorkerOf[h]}
  BY <1>4 DEF Active, Requests
<1>5. ASSUME NEW h \in Handlers, NEW u \in Users, Call(h, u) PROVE ready' = ready \cup {WorkerOf[h]}
  BY <1>5 DEF Call, Requests
<1>6. ASSUME NEW r \in Rooms, FiveSecondsPass(r) \/ \E u \in Users : StaleSecondsPass(r, u)
      PROVE  UNCHANGED ready
  BY <1>6 DEF FiveSecondsPass, StaleSecondsPass
<1>7. ASSUME NEW w \in Workers, Restart(w) PROVE ready' = ready \ {w}
  BY <1>7 DEF Restart
<1> QED
  BY <1>1, <1>2, <1>3, <1>4, <1>5, <1>6, <1>7 DEF GroupNext, groupVars

\* One step for each action.
LEMMA RoomsNext == RoomsInv /\ [GroupNext]_groupVars => RoomsInv'
<1> SUFFICES ASSUME RoomsInv, [GroupNext]_groupVars PROVE RoomsInv'
  OBVIOUS
<1>0. ready' \in SUBSET Workers
  BY ReadyTyped DEF RoomsInv
<1>1. ASSUME NEW r \in Rooms, FiveSecondsPass(r) PROVE RoomsInv'
  <2>1. young' \in SUBSET Rooms /\ stale' \in [Rooms -> SUBSET Users]
    BY <1>1 DEF FiveSecondsPass, RoomsInv, GroupTypeOK
  <2> QED
    BY <1>0, <1>1, <2>1, TimePasses DEF FiveSecondsPass
<1>2. ASSUME NEW r \in Rooms, NEW u \in Users, StaleSecondsPass(r, u) PROVE RoomsInv'
  <2>1. young' \in SUBSET Rooms /\ stale' \in [Rooms -> SUBSET Users]
    BY <1>2 DEF StaleSecondsPass, RoomsInv, GroupTypeOK
  <2> QED
    BY <1>0, <1>2, <2>1, TimePasses DEF StaleSecondsPass
<1>3. ASSUME NEW h \in Handlers, Respond(h) PROVE RoomsInv'
  <2>1. task' = [task EXCEPT ![h] = Idle] /\ UNCHANGED <<tables, lines>> /\ faults' \in 0..MaxFaults
    BY <1>3 DEF Respond, RoomsInv, GroupTypeOK
  <2>2. Idle \in Tasks /\ KnowsRoom(Idle) /\ KnowsUser(Idle) /\ Idle.step = "idle" /\ Idle.owed = {}
    BY DEF Idle, Tasks, KnowsRoom, KnowsUser
  <2> QED
    BY <1>0, <2>1, <2>2, LocalStep
<1>4. ASSUME NEW h \in Handlers, Dies(h) PROVE RoomsInv'
  <2>1. task' = [task EXCEPT ![h] = Idle] /\ UNCHANGED <<tables, lines>> /\ faults' \in 0..MaxFaults
    BY <1>4, GroupCallsConstants DEF Dies, RoomsInv, GroupTypeOK
  <2>2. Idle \in Tasks /\ KnowsRoom(Idle) /\ KnowsUser(Idle) /\ Idle.step = "idle" /\ Idle.owed = {}
    BY DEF Idle, Tasks, KnowsRoom, KnowsUser
  <2> QED
    BY <1>0, <2>1, <2>2, LocalStep
<1>5. ASSUME NEW h \in Handlers, Cleanup(h) \/ Active(h) PROVE RoomsInv'
  BY <1>0, <1>5, Begins DEF Cleanup, Active, Requests
<1>6. ASSUME NEW h \in Handlers, NEW u \in Users, Call(h, u) PROVE RoomsInv'
  BY <1>0, <1>6, Begins DEF Call, Requests
<1>7. ASSUME NEW h \in Handlers, NEW u \in Users, NEW r \in Rooms, Poll(h, u, r) \/ Leave(h, u, r) PROVE RoomsInv'
  BY <1>0, <1>7, Begins DEF Poll, Leave, Requests
<1>8. ASSUME NEW h \in Handlers, Statement(h) PROVE RoomsInv'
  BY <1>0, <1>3, <1>8, RoomIsFound, RoomIsMade, PeopleAreCounted, PeopleMove, SweepEnds, LeaveEnds, LineIsWritten
     DEF Statement
<1>10. ASSUME NEW w \in Workers, Restart(w) PROVE RoomsInv'
  BY <1>10, WorkerStarts
<1>9. CASE UNCHANGED groupVars
  <2>1. UNCHANGED <<room, young, inside, stale, lines, task, faults>>
    BY <1>9 DEF groupVars, tables
  <2>2. young' \in SUBSET Rooms /\ stale' \in [Rooms -> SUBSET Users]
    BY <2>1 DEF RoomsInv, GroupTypeOK
  <2> QED
    BY <1>0, <2>1, <2>2, TimePasses
<1> QED
  BY <1>1, <1>2, <1>4, <1>5, <1>6, <1>7, <1>8, <1>9, <1>10 DEF GroupNext

LEMMA RoomsInvariant == GroupSpec => []RoomsInv
<1>1. GroupInit => RoomsInv
  BY RoomsInit
<1>2. RoomsInv /\ [GroupNext]_groupVars => RoomsInv'
  BY RoomsNext
<1> QED
  BY <1>1, <1>2, PTL DEF GroupSpec

-----------------------------------------------------------------------------
\* Every variable of the group calls keeps its type.
THEOREM GroupTypes == GroupSpec => []GroupTypeOK
<1>1. RoomsInv => GroupTypeOK
  BY DEF RoomsInv
<1> QED
  BY <1>1, RoomsInvariant, PTL

\* No room gets a second line in its group, none that goes on gets one.
THEOREM OneLinePerRoom == GroupSpec => []RoomOneLine
<1>1. RoomsInv => RoomOneLine
  BY DEF RoomsInv
<1> QED
  BY <1>1, RoomsInvariant, PTL

\* A room holds at most MaxPeople and one more for each handler beside the
\* first: the count and the member row are two statements.
THEOREM SeatsAreBounded == GroupSpec => []SeatsBounded
<1>1. RoomsInv => SeatsBounded
  <2> SUFFICES ASSUME RoomsInv, NEW r \in Rooms
               PROVE  Cardinality(inside[r]) < MaxPeople + Cardinality(Handlers)
    BY DEF SeatsBounded
  <2> DEFINE S == inside[r] \cup Coming(r)
  <2>1. S \subseteq Users
    BY DEF RoomsInv, GroupTypeOK, JoinsByUsers, KnowsUser, Coming, Seating
  <2>2. IsFiniteSet(S) /\ inside[r] \in SUBSET S
    BY <2>1, Finite, FS_Subset
  <2>3. Cardinality(S) <= Limit
    BY DEF RoomsInv, Crowd
  <2> HIDE DEF S
  <2>4. /\ Cardinality(inside[r]) <= Cardinality(S)
        /\ Cardinality(S) \in Nat /\ Cardinality(inside[r]) \in Nat
    BY <2>2, FS_Subset, FS_CardinalityType
  <2> QED
    BY <2>3, <2>4, Finite, GroupCallsConstants DEF Limit
<1> QED
  BY <1>1, RoomsInvariant, PTL

\* Who was taken out of a room is back only through a join of their own.
THEOREM OnlyJoinsBringBack == GroupSpec => BackOnlyByJoining
<1> DEFINE Joins ==
      \A r \in Rooms, u \in Users :
        u \in inside'[r] \ inside[r] =>
          \E h \in Handlers : /\ task[h].step = "seat"
                              /\ task[h].room = r /\ task[h].user = u
<1>1. RoomsInv /\ [GroupNext]_groupVars => Joins
  <2> SUFFICES ASSUME RoomsInv, [GroupNext]_groupVars, NEW r \in Rooms, NEW u \in Users,
                      u \in inside'[r] \ inside[r]
               PROVE  \E h \in Handlers : task[h].step = "seat" /\ task[h].room = r /\ task[h].user = u
    OBVIOUS
  <2>1. inside \in [Rooms -> SUBSET Users]
    BY DEF RoomsInv, GroupTypeOK
  <2>2. \E h \in Handlers : Seat(h) \/ StandUp(h) \/ TakeOutStale(h)
    BY DEF GroupNext, Statement, groupVars, tables, FiveSecondsPass, StaleSecondsPass, Respond, Dies, Restart, Cleanup,
           Active, Call, Poll, Leave, Requests, SelectRoom, SelectAgain, CreateRoom, CountPeople, Seen, EndDeserted, CloseRoom,
           WriteLine
  <2>3. PICK h \in Handlers : Seat(h) \/ StandUp(h) \/ TakeOutStale(h)
    BY <2>2
  <2>4. \A q \in Rooms : StandUp(h) \/ TakeOutStale(h) => inside'[q] \subseteq inside[q]
    BY <2>1 DEF StandUp, TakeOutStale
  <2>5. Seat(h)
    BY <2>3, <2>4
  <2>6. task[h].step = "seat" /\ inside' = [inside EXCEPT ![task[h].room] = @ \cup {task[h].user}]
    BY <2>5 DEF Seat, At
  <2> QED
    BY <2>1, <2>6
<1> QED
  BY <1>1, RoomsInvariant, PTL DEF GroupSpec, BackOnlyByJoining
=============================================================================
