----------------------------- MODULE ChatCalls -----------------------------
(***************************************************************************)
(* One-to-one voice calls of JMS Chat: the rows of chat_calls and the      *)
(* history lines (BACKEND/src/modules/chat/chatCalls.js).                  *)
(*                                                                         *)
(* The phones' requests are handled by several worker processes.  Every    *)
(* statement on the database is atomic; between two statements of a        *)
(* handler, the other handlers run.  A handler that ended calls owes each  *)
(* of them a line in the direct chat of its two people.                    *)
(*                                                                         *)
(* Time: a call is overdue once it has rung for RING_SECONDS.  Left out:   *)
(* the 4 hours after which a call no longer counts as busy, signals, ICE,  *)
(* pushes and live events, which change no row of chat_calls.              *)
(***************************************************************************)
EXTENDS Naturals, FiniteSets

CONSTANTS
  Users,
  Calls,      \* the ids crypto.randomUUID may return
  Handlers,   \* requests being handled at once
  NoCall,
  MaxFaults   \* bound: handlers that die

ASSUME CallsConstants == NoCall \notin Calls /\ MaxFaults \in Nat

VARIABLES
  status,    \* chat_calls.status; "none": no such row
  people,    \* people[c]: caller and callee of the request that made c
  answered,  \* the calls with answered_at
  overdue,   \* the calls created more than RING_SECONDS ago
  lines,     \* lines[c]: history lines written for c
  job,       \* job[h]: what handler h holds in its local variables
  faults

table == <<status, people, answered, overdue>>
vars  == <<table, lines, job, faults>>

Live == {"ringing", "accepted"}
Over == {"ended", "declined", "missed"}

\* owed: the calls it ended and owes a line; verdict: the status it will write.
Jobs == [step    : {"idle", "check", "insert", "refuse", "update", "lines"},
         call    : Calls \cup {NoCall},
         verdict : Over \cup {"none"},
         owed    : SUBSET Calls]

Idle == [step |-> "idle", call |-> NoCall, verdict |-> "none", owed |-> {}]

TypeOK ==
  /\ status \in [Calls -> {"none"} \cup Live \cup Over]
  /\ people \in [Calls -> Users \X Users]
  /\ answered \in SUBSET Calls
  /\ overdue \in SUBSET Calls
  /\ lines \in [Calls -> Nat]
  /\ job \in [Handlers -> Jobs]
  /\ \A h \in Handlers : job[h].step \in {"check", "insert", "refuse", "update"} => job[h].call \in Calls
  /\ \A h \in Handlers : job[h].step = "update" => job[h].verdict \in Over
  /\ faults \in 0..MaxFaults

Init ==
  /\ status = [c \in Calls |-> "none"]
  /\ people \in {[c \in Calls |-> <<u, u>>] : u \in Users}
  /\ answered = {}
  /\ overdue = {}
  /\ lines = [c \in Calls |-> 0]
  /\ job = [h \in Handlers |-> Idle]
  /\ faults = 0

Does(h, j) == job' = [job EXCEPT ![h] = j]

-----------------------------------------------------------------------------
(* Ringing out.                                                            *)

RingSecondsPass(c) ==
  /\ status[c] = "ringing"
  /\ c \notin overdue
  /\ overdue' = overdue \cup {c}
  /\ UNCHANGED <<status, people, answered, lines, job, faults>>

Unanswered == {c \in overdue : status[c] = "ringing"}

ExpireRinging_AllOverdue(h, step, c) ==
  /\ status' = [d \in Calls |-> IF d \in overdue THEN "missed" ELSE status[d]]
  /\ Does(h, [step |-> step, call |-> c, verdict |-> "none", owed |-> Unanswered])

ExpireRinging_NoLines(h, step, c) ==
  /\ status' = [d \in Calls |-> IF d \in Unanswered THEN "missed" ELSE status[d]]
  /\ Does(h, [step |-> step, call |-> c, verdict |-> "none", owed |-> {}])

ExpireRinging(h, step, c) ==
  /\ status' = [d \in Calls |-> IF d \in Unanswered THEN "missed" ELSE status[d]]
  /\ Does(h, [step |-> step, call |-> c, verdict |-> "none", owed |-> Unanswered])

Poll_NoExpiry(h) ==
  /\ job[h].step = "idle"
  /\ Does(h, [Idle EXCEPT !.step = "lines"])
  /\ UNCHANGED <<table, lines, faults>>

\* Status and signal requests of any phone.
Poll(h) ==
  /\ job[h].step = "idle"
  /\ ExpireRinging(h, "lines", NoCall)
  /\ UNCHANGED <<people, answered, overdue, lines, faults>>

\* One line for each call that UPDATE ... RETURNING gave this handler.
WriteLine(h, c) ==
  /\ c \in job[h].owed
  /\ lines' = [lines EXCEPT ![c] = @ + 1]
  /\ Does(h, [job[h] EXCEPT !.owed = @ \ {c}])
  /\ UNCHANGED <<table, faults>>

Respond(h) ==
  /\ job[h].step = "lines"
  /\ job[h].owed = {}
  /\ Does(h, Idle)
  /\ UNCHANGED <<table, lines, faults>>

-----------------------------------------------------------------------------
(* POST /api/chat/calls                                                    *)

Placing(h) == job[h].step \in {"check", "insert", "refuse"}

\* randomUUID: no row and no other request has this id.
Fresh(c) == status[c] = "none" /\ \A h \in Handlers : Placing(h) => job[h].call # c

Ask(h, c, caller, callee) ==
  /\ job[h].step = "idle"
  /\ caller # callee
  /\ Fresh(c)
  /\ people' = [people EXCEPT ![c] = <<caller, callee>>]
  /\ ExpireRinging(h, "check", c)
  /\ UNCHANGED <<answered, overdue, lines, faults>>

OnACall(u) == \E c \in Calls : status[c] \in Live /\ u \in {people[c][1], people[c][2]}

\* Only the person called is looked up, and the row is inserted later.
CheckBusy(h) ==
  /\ job[h].step = "check"
  /\ job[h].owed = {}
  /\ Does(h, [job[h] EXCEPT !.step = IF OnACall(people[job[h].call][2]) THEN "refuse" ELSE "insert"])
  /\ UNCHANGED <<table, lines, faults>>

Insert(h) ==
  /\ job[h].step = "insert"
  /\ status' = [status EXCEPT ![job[h].call] = "ringing"]
  /\ Does(h, Idle)
  /\ UNCHANGED <<people, answered, overdue, lines, faults>>

\* A call to somebody busy is recorded as missed, with its line.
InsertMissed(h) ==
  /\ job[h].step = "refuse"
  /\ status' = [status EXCEPT ![job[h].call] = "missed"]
  /\ Does(h, [Idle EXCEPT !.step = "lines", !.owed = {job[h].call}])
  /\ UNCHANGED <<people, answered, overdue, lines, faults>>

-----------------------------------------------------------------------------
(* accept, decline, end                                                    *)

\* UPDATE ... WHERE status = 'ringing'.
Accept(c) ==
  /\ status[c] = "ringing"
  /\ status' = [status EXCEPT ![c] = "accepted"]
  /\ answered' = answered \cup {c}
  /\ UNCHANGED <<people, overdue, lines, job, faults>>

HangUp_AsItStands(h, c, decline, byCallee) ==
  /\ job[h].step = "idle"
  /\ status[c] # "none"
  /\ Does(h, [step |-> "update", call |-> c, owed |-> {},
              verdict |-> IF decline THEN "declined" ELSE status[c]])
  /\ UNCHANGED <<table, lines, faults>>

\* myCall reads the row, and what to write is decided from that status ...
HangUp(h, c, decline, byCallee) ==
  /\ job[h].step = "idle"
  /\ status[c] # "none"
  /\ LET verdict == IF decline \/ (status[c] = "ringing" /\ byCallee) THEN "declined"
                    ELSE IF status[c] = "ringing" THEN "missed" ELSE "ended"
     IN  Does(h, [step |-> "update", call |-> c, verdict |-> verdict, owed |-> {}])
  /\ UNCHANGED <<table, lines, faults>>

EndCall_Unguarded(h) ==
  /\ job[h].step = "update"
  /\ status' = [status EXCEPT ![job[h].call] = job[h].verdict]
  /\ Does(h, [Idle EXCEPT !.step = "lines", !.owed = {job[h].call}])
  /\ UNCHANGED <<people, answered, overdue, lines, faults>>

\* ... and written if the call is still live; then the line.
EndCall(h) ==
  /\ job[h].step = "update"
  /\ LET c == job[h].call
     IN  IF status[c] \in Live
           THEN /\ status' = [status EXCEPT ![c] = job[h].verdict]
                /\ Does(h, [Idle EXCEPT !.step = "lines", !.owed = {c}])
           ELSE /\ status' = status
                /\ Does(h, Idle)
  /\ UNCHANGED <<people, answered, overdue, lines, faults>>

\* The worker restarts, or its queries fail: the lines it owes are never written.
Dies(h) ==
  /\ job[h].step # "idle"
  /\ faults < MaxFaults
  /\ faults' = faults + 1
  /\ Does(h, Idle)
  /\ UNCHANGED <<table, lines>>

-----------------------------------------------------------------------------

HandlerStep(h) ==
  \/ \E c \in Calls : WriteLine(h, c)
  \/ Respond(h) \/ CheckBusy(h) \/ Insert(h) \/ InsertMissed(h) \/ EndCall(h)

Request(h) ==
  \/ Poll(h)
  \/ \E c \in Calls, caller, callee \in Users : Ask(h, c, caller, callee)
  \/ \E c \in Calls, decline, byCallee \in BOOLEAN : HangUp(h, c, decline, byCallee)

Next ==
  \/ \E c \in Calls : RingSecondsPass(c) \/ Accept(c)
  \/ \E h \in Handlers : Request(h) \/ HandlerStep(h) \/ Dies(h)

Spec == Init /\ [][Next]_vars

\* A handler's statements come back; time passes; the phones of a ringing call
\* go on asking for its status.
FairSpec ==
  /\ Spec
  /\ \A h \in Handlers : WF_vars(HandlerStep(h))
  /\ SF_vars(\E h \in Handlers : Poll(h))
  /\ \A c \in Calls : WF_vars(RingSecondsPass(c))

-----------------------------------------------------------------------------

\* A call that is over stays as it was recorded: a late accept, a second hang-up
\* decided before, or the ring timer change nothing (the WHERE clauses of the
\* three updates).
OverForGood ==
  [][\A c \in Calls : status[c] \in Over => status'[c] = status[c]]_vars

Owing(c) == {h \in Handlers : c \in job[h].owed}

\* "Each call ends with one line in the direct chat" (chatCalls.js:15): never
\* two, whoever ends the call at the same time, and none for a call that goes on.
OneLine ==
  \A c \in Calls :
    /\ lines[c] <= 1
    /\ lines[c] = 1 => status[c] \in Over /\ Owing(c) = {}
    /\ Owing(c) # {} => status[c] \in Over
    /\ \A h, i \in Owing(c) : h = i

\* A call does not ring for ever once RING_SECONDS are over.
CallsEnd == \A c \in Calls : status[c] = "ringing" ~> status[c] # "ringing"

\* The line of every call that is over is written, when no handler dies with it:
\* whoever's update ended the call is the one who writes it.
LinesWritten == [](faults = 0) => \A c \in Calls : status[c] \in Over ~> lines[c] = 1

\* "Voice call" is the line of an answered call, "Missed voice call" of one
\* nobody answered (chatCalls.js:15-16): a call that was answered is not
\* recorded as missed.
AnsweredIsNotMissed == \A c \in answered : status[c] # "missed"

\* "... is on another call" (chatCalls.js:176): nobody is called by two at once.
OneCallEach ==
  \A c, d \in Calls :
    status[c] \in Live /\ status[d] \in Live /\ people[c][2] = people[d][2] => c = d

=============================================================================
