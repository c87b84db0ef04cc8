---------------------------- MODULE ChatProofs -----------------------------
(***************************************************************************)
(* What holds of the chat for any number of people, servers, rows and      *)
(* handlers.  Of the calls: one history line per call, and a call that is  *)
(* over stays as it is.  Of the replication: nothing behind a saved cursor *)
(* is unknown to the other side, a number means something new, and a row   *)
(* that both cursors have come past is the same on both sides.             *)
(***************************************************************************)
EXTENDS ChatCalls, ChatSync, FiniteSetTheorems, WellFoundedInduction, TLAPS

-----------------------------------------------------------------------------
(* Calls.                                                                  *)

\* The requests that place calls have ids of their own, which no row has yet.
OwnIds ==
  /\ \A h \in Handlers : Placing(h) => status[job[h].call] = "none"
  /\ \A h, i \in Handlers : Placing(h) /\ Placing(i) /\ job[h].call = job[i].call => h = i

\* Lines are owed only while a handler is busy writing them.
OwedWhileWriting ==
  \A h \in Handlers : job[h].step \notin {"check", "lines"} => job[h].owed = {}

\* OneLine, without the sets of handlers.
NeverTwice ==
  /\ \A c \in Calls : lines[c] <= 1
  /\ \A c \in Calls : lines[c] = 1 => status[c] \in Over
  /\ \A c \in Calls, h \in Handlers : c \in job[h].owed => lines[c] = 0 /\ status[c] \in Over
  /\ \A c \in Calls, h, i \in Handlers : c \in job[h].owed /\ c \in job[i].owed => h = i

CallsInv == TypeOK /\ OwnIds /\ OwedWhileWriting /\ NeverTwice

\* At first there are no calls and no handler is busy.
LEMMA InvInit == Init => CallsInv
<1> SUFFICES ASSUME Init PROVE CallsInv
  OBVIOUS
<1> USE DEF Init, Idle
<1>1. TypeOK
  BY CallsConstants DEF TypeOK, Jobs, Live, Over
<1>2. OwnIds
  BY DEF OwnIds, Placing
<1>3. OwedWhileWriting
  BY DEF OwedWhileWriting
<1>4. NeverTwice
  BY DEF NeverTwice
<1> QED
  BY <1>1, <1>2, <1>3, <1>4 DEF CallsInv

\* The rows expireRinging takes: what any handler learns by it is owed by none.
LEMMA Expiry ==
  ASSUME CallsInv, NEW h \in Handlers, NEW c \in Calls \cup {NoCall},
         NEW step \in {"lines", "check"}, step = "check" => c \in Calls,
         step = "check" => Fresh(c),
         job[h].step = "idle", ExpireRinging(h, step, c),
         people' \in [Calls -> Users \X Users],
         UNCHANGED <<answered, overdue, lines, faults>>
  PROVE  CallsInv'
<1> DEFINE expired == Unanswered
           j == [step |-> step, call |-> c, verdict |-> "none", owed |-> expired]
<1>1. /\ expired \in SUBSET Calls
      /\ \A d \in expired : status[d] = "ringing"
  BY DEF CallsInv, TypeOK, Unanswered
<1>2. /\ job' = [job EXCEPT ![h] = j]
      /\ status' = [d \in Calls |-> IF d \in expired THEN "missed" ELSE status[d]]
  BY DEF ExpireRinging, Does
<1> HIDE DEF expired
<1>3. j \in Jobs
  BY <1>1 DEF Jobs, Over
<1>4. job \in [Handlers -> Jobs] /\ status \in [Calls -> {"none"} \cup Live \cup Over]
  BY DEF CallsInv, TypeOK
<1>5. /\ job'[h] = j
      /\ \A i \in Handlers : i # h => job'[i] = job[i]
      /\ j.step = step /\ j.call = c /\ j.owed = expired /\ j.verdict = "none"
  BY <1>2, <1>4
<1> HIDE DEF j
<1>6. TypeOK'
  <2>1. status' \in [Calls -> {"none"} \cup Live \cup Over]
    BY <1>2, <1>4 DEF Over
  <2>2. job' \in [Handlers -> Jobs]
    BY <1>2, <1>3, <1>4
  <2> QED
    BY <2>1, <2>2, <1>5 DEF CallsInv, TypeOK
<1>7. OwnIds'
  <2>1. ASSUME NEW d \in Calls, status[d] = "none" PROVE status'[d] = "none"
    BY <2>1, <1>1, <1>2
  <2>2. ASSUME NEW i \in Handlers, i # h, Placing(i)'
        PROVE  Placing(i) /\ job'[i].call = job[i].call /\ job[i].call \in Calls
    BY <2>2, <1>5 DEF Placing, CallsInv, TypeOK
  <2>3. Placing(h)' => /\ job'[h].call \in Calls
                       /\ status[job'[h].call] = "none"
                       /\ \A i \in Handlers : Placing(i) => job[i].call # job'[h].call
    BY <1>5 DEF Placing, Fresh
  <2>4. \A i \in Handlers : Placing(i)' => status'[job'[i].call] = "none"
    BY <2>1, <2>2, <2>3 DEF CallsInv, OwnIds
  <2>5. \A i, k \in Handlers : Placing(i)' /\ Placing(k)' /\ job'[i].call = job'[k].call => i = k
    BY <2>2, <2>3 DEF CallsInv, OwnIds
  <2> QED
    BY <2>4, <2>5 DEF OwnIds, Placing
<1>8. OwedWhileWriting'
  BY <1>5 DEF CallsInv, OwedWhileWriting
<1>9. NeverTwice'
  <2>1. \A d \in expired : status'[d] \in Over /\ lines[d] = 0 /\ \A i \in Handlers : d \notin job[i].owed
    <3> SUFFICES ASSUME NEW d \in expired
                 PROVE  status'[d] \in Over /\ lines[d] = 0 /\ \A i \in Handlers : d \notin job[i].owed
      OBVIOUS
    <3>1. d \in Calls /\ status[d] = "ringing" /\ status'[d] = "missed"
      BY <1>1, <1>2
    <3>2. status[d] \notin Over /\ status'[d] \in Over
      BY <3>1 DEF Over
    <3>3. lines[d] \in Nat /\ lines[d] <= 1 /\ lines[d] # 1
      BY <3>1, <3>2 DEF CallsInv, TypeOK, NeverTwice
    <3> QED
      BY <3>1, <3>2, <3>3 DEF CallsInv, NeverTwice
  <2>2. \A d \in Calls : status[d] \in Over => status'[d] \in Over
    BY <1>2 DEF Over
  <2> QED
    BY <2>1, <2>2, <1>5 DEF CallsInv, NeverTwice
<1> QED
  BY <1>6, <1>7, <1>8, <1>9 DEF CallsInv

\* A handler that does one thing to its own locals.
LEMMA JobChange ==
  ASSUME CallsInv, NEW h \in Handlers, NEW j, Does(h, j)
  PROVE  /\ job'[h] = j
         /\ \A i \in Handlers : i # h => job'[i] = job[i]
         /\ j \in Jobs => job' \in [Handlers -> Jobs]
  BY DEF CallsInv, TypeOK, Does

\* Every step of a handler, the ring timer and a death keep CallsInv.
LEMMA InvNext == CallsInv /\ [Next]_vars => CallsInv'
<1> SUFFICES ASSUME CallsInv, [Next]_vars PROVE CallsInv'
  OBVIOUS
<1> USE DEF CallsInv
<1>1. ASSUME NEW c \in Calls, RingSecondsPass(c) PROVE CallsInv'
  <2>1. TypeOK'
    BY <1>1 DEF RingSecondsPass, TypeOK
  <2> QED
    BY <1>1, <2>1 DEF RingSecondsPass, OwnIds, Placing, OwedWhileWriting, NeverTwice
<1>2. ASSUME NEW c \in Calls, Accept(c) PROVE CallsInv'
  <2>1. TypeOK'
    BY <1>2 DEF Accept, TypeOK, Live
  <2>2. job' = job /\ lines' = lines /\ status[c] = "ringing"
        /\ \A d \in Calls : d # c => status'[d] = status[d]
    BY <1>2 DEF Accept, TypeOK
  <2>3. OwnIds'
    BY <2>2 DEF OwnIds, Placing, TypeOK
  <2>4. \A d \in Calls : status[d] \in Over => status'[d] \in Over
    BY <2>2 DEF Over
  <2>5. NeverTwice'
    BY <2>2, <2>4 DEF NeverTwice
  <2> QED
    BY <2>1, <2>2, <2>3, <2>5 DEF OwedWhileWriting
<1>3. ASSUME NEW h \in Handlers, Poll(h) PROVE CallsInv'
  <2>1. people' \in [Calls -> Users \X Users]
    BY <1>3 DEF Poll, TypeOK
  <2> QED
    BY <1>3, <2>1, Expiry DEF Poll
<1>4. ASSUME NEW h \in Handlers, NEW c \in Calls, NEW caller \in Users, NEW callee \in Users,
             Ask(h, c, caller, callee)
      PROVE  CallsInv'
  <2>1. people' \in [Calls -> Users \X Users]
    BY <1>4 DEF Ask, TypeOK
  <2> QED
    BY <1>4, <2>1, Expiry DEF Ask
<1>5. ASSUME NEW h \in Handlers, NEW c \in Calls, WriteLine(h, c) PROVE CallsInv'
  <2> DEFINE j == [job[h] EXCEPT !.owed = @ \ {c}]
  <2>1. /\ status' = status /\ people' = people /\ answered' = answered /\ overdue' = overdue
        /\ faults' = faults /\ c \in job[h].owed /\ Does(h, j)
        /\ lines' = [lines EXCEPT ![c] = @ + 1]
    BY <1>5 DEF WriteLine, table
  <2>2. job[h] \in Jobs
    BY DEF TypeOK
  <2>3. /\ j \in Jobs /\ j.step = job[h].step /\ j.call = job[h].call
        /\ j.verdict = job[h].verdict /\ j.owed = job[h].owed \ {c}
    BY <2>2 DEF Jobs
  <2> HIDE DEF j
  <2>4. /\ job'[h] = j
        /\ \A i \in Handlers : i # h => job'[i] = job[i]
        /\ job' \in [Handlers -> Jobs]
    BY <2>1, <2>3, JobChange
  <2>5. \A i \in Handlers : /\ job'[i].step = job[i].step /\ job'[i].call = job[i].call
                            /\ job'[i].verdict = job[i].verdict
                            /\ job'[i].owed = IF i = h THEN job[i].owed \ {c} ELSE job[i].owed
    BY <2>3, <2>4
  <2>6. lines' \in [Calls -> Nat]
    BY <2>1 DEF TypeOK
  <2>7. TypeOK'
    <3>1. \A i \in Handlers :
            /\ job'[i].step \in {"check", "insert", "refuse", "update"} => job'[i].call \in Calls
            /\ job'[i].step = "update" => job'[i].verdict \in Over
      BY <2>5 DEF TypeOK
    <3> QED
      BY <2>1, <2>4, <2>6, <3>1 DEF TypeOK
  <2>8. OwnIds' /\ OwedWhileWriting'
    <3>1. \A i \in Handlers : (Placing(i)' <=> Placing(i)) /\ job'[i].call = job[i].call
      BY <2>5 DEF Placing
    <3>2. OwnIds'
      BY <2>1, <3>1 DEF OwnIds
    <3>3. \A i \in Handlers : job[i].owed = {} => job'[i].owed = {}
      BY <2>5
    <3> QED
      BY <2>5, <3>2, <3>3 DEF OwedWhileWriting
  <2>9. NeverTwice'
    <3>1. lines[c] = 0 /\ status[c] \in Over /\ lines'[c] = 1
          /\ \A d \in Calls : d # c => lines'[d] = lines[d]
      BY <2>1 DEF NeverTwice, TypeOK
    <3>2. \A i \in Handlers : c \notin job'[i].owed
      BY <2>1, <2>5 DEF NeverTwice
    <3>3. \A i \in Handlers : job'[i].owed \subseteq job[i].owed
      BY <2>5
    <3> QED
      BY <2>1, <3>1, <3>2, <3>3 DEF NeverTwice
  <2> QED
    BY <2>7, <2>8, <2>9
\* A handler is done, or moves on without a change to the table.
<1>6. ASSUME NEW h \in Handlers, NEW j \in Jobs, Does(h, j), UNCHANGED <<table, lines>>,
             faults' \in 0..MaxFaults, j.owed = {},
             \/ j = Idle
             \/ j.step = "update" /\ j.call \in Calls /\ j.verdict \in Over
             \/ Placing(h) /\ j.step \in {"insert", "refuse"} /\ j.call = job[h].call
      PROVE  CallsInv'
  <2>1. /\ job'[h] = j
        /\ \A i \in Handlers : i # h => job'[i] = job[i]
        /\ job' \in [Handlers -> Jobs]
    BY <1>6, JobChange
  <2>2. TypeOK'
    <3>1. /\ status' = status /\ people' = people /\ answered' = answered /\ overdue' = overdue
          /\ lines' = lines /\ faults' \in 0..MaxFaults
      BY <1>6 DEF table
    <3>2. j.step \in {"check", "insert", "refuse", "update"} => j.call \in Calls
      BY <1>6 DEF Idle, Placing, TypeOK
    <3>3. j.step = "update" => j.verdict \in Over
      BY <1>6 DEF Idle
    <3> QED
      BY <2>1, <3>1, <3>2, <3>3 DEF TypeOK
  <2>3. \A i \in Handlers : Placing(i)' => Placing(i) /\ job'[i].call = job[i].call
    BY <1>6, <2>1 DEF Placing, Idle
  <2>4. OwnIds'
    BY <1>6, <2>3 DEF OwnIds, table
  <2>5. OwedWhileWriting' /\ NeverTwice'
    BY <1>6, <2>1 DEF OwedWhileWriting, NeverTwice, table
  <2> QED
    BY <2>2, <2>4, <2>5
<1>7. ASSUME NEW h \in Handlers, Respond(h) \/ Dies(h) PROVE CallsInv'
  <2>1. Does(h, Idle) /\ UNCHANGED <<table, lines>> /\ faults' \in 0..MaxFaults
    BY <1>7, CallsConstants DEF Respond, Dies, TypeOK
  <2>2. Idle \in Jobs /\ Idle.owed = {}
    BY DEF Idle, Jobs
  <2> QED
    BY <1>6, <2>1, <2>2
<1>8. ASSUME NEW h \in Handlers, CheckBusy(h) PROVE CallsInv'
  <2> DEFINE s == IF OnACall(people[job[h].call][2]) THEN "refuse" ELSE "insert"
             j == [job[h] EXCEPT !.step = s]
  <2>1. s \in {"refuse", "insert"}
    OBVIOUS
  <2>2. /\ Does(h, j) /\ UNCHANGED <<table, lines>> /\ faults' \in 0..MaxFaults
        /\ job[h] \in Jobs /\ job[h].owed = {} /\ Placing(h)
    BY <1>8 DEF CheckBusy, TypeOK, Placing
  <2> HIDE DEF s
  <2>3. j \in Jobs /\ j.step = s /\ j.owed = {} /\ j.call = job[h].call
    BY <2>1, <2>2 DEF Jobs
  <2> HIDE DEF j
  <2> QED
    BY <1>6, <2>1, <2>2, <2>3
<1>9. ASSUME NEW h \in Handlers, NEW c \in Calls, NEW decline \in BOOLEAN, NEW byCallee \in BOOLEAN,
             HangUp(h, c, decline, byCallee)
      PROVE  CallsInv'
  <2>1. PICK v \in Over : Does(h, [step |-> "update", call |-> c, verdict |-> v, owed |-> {}])
    BY <1>9 DEF HangUp, Over
  <2> DEFINE j == [step |-> "update", call |-> c, verdict |-> v, owed |-> {}]
  <2>2. j \in Jobs /\ j.step = "update" /\ j.call \in Calls /\ j.verdict \in Over /\ j.owed = {}
    BY DEF Jobs
  <2>3. Does(h, j) /\ UNCHANGED <<table, lines>> /\ faults' \in 0..MaxFaults
    BY <1>9, <2>1 DEF HangUp, TypeOK
  <2> HIDE DEF j
  <2> QED
    BY <1>6, <2>2, <2>3
\* The row of call c changes, and h is the one who owes its line, if it is over.
<1>10. ASSUME NEW h \in Handlers, NEW c \in Calls, NEW v \in {"ringing"} \cup Over,
              status' = [status EXCEPT ![c] = v], status[c] \in {"none"} \cup Live,
              Does(h, IF v = "ringing" THEN Idle ELSE [Idle EXCEPT !.step = "lines", !.owed = {c}]),
              \A i \in Handlers : i # h /\ Placing(i) => job[i].call # c,
              UNCHANGED <<people, answered, overdue, lines, faults>>
       PROVE  CallsInv'
  <2> DEFINE j == IF v = "ringing" THEN Idle ELSE [Idle EXCEPT !.step = "lines", !.owed = {c}]
  <2>1. /\ j \in Jobs /\ j.step \in {"idle", "lines"} /\ j.owed \subseteq {c}
        /\ j.owed # {} => v \in Over /\ j.step = "lines"
    BY <1>10 DEF Idle, Jobs
  <2>2. /\ job'[h] = j
        /\ \A i \in Handlers : i # h => job'[i] = job[i]
        /\ job' \in [Handlers -> Jobs]
    BY <1>10, <2>1, JobChange
  <2> HIDE DEF j
  <2>3. /\ status' \in [Calls -> {"none"} \cup Live \cup Over]
        /\ status'[c] = v
        /\ \A d \in Calls : d # c => status'[d] = status[d]
    BY <1>10 DEF TypeOK, Live
  <2>4. TypeOK'
    BY <1>10, <2>1, <2>2, <2>3 DEF TypeOK
  <2>5. \A i \in Handlers : Placing(i)' => /\ i # h /\ Placing(i) /\ job'[i].call = job[i].call
                                            /\ job[i].call # c /\ job[i].call \in Calls
    BY <1>10, <2>1, <2>2 DEF Placing, TypeOK
  <2>6. OwnIds'
    BY <2>3, <2>5 DEF OwnIds
  <2>7. OwedWhileWriting'
    BY <2>1, <2>2 DEF OwedWhileWriting
  <2>8. /\ status[c] \notin Over /\ lines[c] = 0
        /\ \A i \in Handlers : c \notin job[i].owed
    <3>1. status[c] \notin Over
      BY <1>10 DEF Over, Live
    <3>2. lines[c] \in Nat /\ lines[c] <= 1 /\ lines[c] # 1
      BY <3>1 DEF TypeOK, NeverTwice
    <3> QED
      BY <3>1, <3>2 DEF NeverTwice
  <2>9. NeverTwice'
    BY <1>10, <2>1, <2>2, <2>3, <2>8 DEF NeverTwice
  <2> QED
    BY <2>4, <2>6, <2>7, <2>9
<1>11. ASSUME NEW h \in Handlers, Insert(h) \/ InsertMissed(h) PROVE CallsInv'
  <2> DEFINE c == job[h].call
  <2>1. c \in Calls /\ Placing(h) /\ status[c] = "none"
        /\ \A i \in Handlers : i # h /\ Placing(i) => job[i].call # c
    BY <1>11 DEF Insert, InsertMissed, TypeOK, Placing, OwnIds
  <2>2. CASE Insert(h)
    BY <2>1, <2>2, <1>10 DEF Insert
  <2>3. CASE InsertMissed(h)
    <3>1. "missed" \in Over /\ "missed" # "ringing"
      BY DEF Over
    <3>2. /\ status' = [status EXCEPT ![c] = "missed"]
          /\ Does(h, [Idle EXCEPT !.step = "lines", !.owed = {c}])
          /\ UNCHANGED <<people, answered, overdue, lines, faults>>
      BY <2>3 DEF InsertMissed
    <3> HIDE DEF c
    <3> QED
      BY <2>1, <3>1, <3>2, <1>10
  <2> QED
    BY <1>11, <2>2, <2>3
<1>12. ASSUME NEW h \in Handlers, EndCall(h) PROVE CallsInv'
  <2> DEFINE c == job[h].call
             v == job[h].verdict
  <2>1. c \in Calls /\ v \in Over /\ v # "ringing"
    BY <1>12 DEF EndCall, TypeOK, Over
  <2>2. CASE status[c] \in Live
    <3>1. /\ status' = [status EXCEPT ![c] = v]
          /\ Does(h, [Idle EXCEPT !.step = "lines", !.owed = {c}])
          /\ UNCHANGED <<people, answered, overdue, lines, faults>>
      BY <1>12, <2>2 DEF EndCall
    <3>2. \A i \in Handlers : i # h /\ Placing(i) => job[i].call # c
      BY <2>2 DEF OwnIds, Live
    <3> HIDE DEF c, v
    <3> QED
      BY <2>1, <2>2, <3>1, <3>2, <1>10
  <2>3. CASE status[c] \notin Live
    <3>1. Does(h, Idle) /\ UNCHANGED <<table, lines>> /\ faults' \in 0..MaxFaults
      BY <1>12, <2>3 DEF EndCall, table, TypeOK
    <3>2. Idle \in Jobs /\ Idle.owed = {}
      BY DEF Idle, Jobs
    <3> QED
      BY <1>6, <3>1, <3>2
  <2> QED
    BY <2>2, <2>3
<1>13. CASE UNCHANGED vars
  BY <1>13 DEF vars, table, TypeOK, OwnIds, Placing, OwedWhileWriting, NeverTwice
<1> QED
  BY <1>1, <1>2, <1>3, <1>4, <1>5, <1>7, <1>8, <1>9, <1>11, <1>12, <1>13
  DEF Next, Request, HandlerStep

\* The types of the tables and of the handlers' locals (chatCalls.js:31-43).
THEOREM TypeCorrect == Spec => []TypeOK
<1>1. CallsInv => TypeOK
  BY DEF CallsInv
<1> QED
  BY <1>1, InvInit, InvNext, PTL DEF Spec

\* One history line per call, whoever ends it (chatCalls.js:15, 216-221): the
\* UPDATE ... RETURNING gives each call to one handler only.
THEOREM OneLinePerCall == Spec => []OneLine
<1>1. CallsInv => OneLine
  <2> SUFFICES ASSUME CallsInv PROVE OneLine
    OBVIOUS
  <2>1. ASSUME NEW c \in Calls, NEW h \in Owing(c)
        PROVE  h \in Handlers /\ c \in job[h].owed /\ lines[c] = 0 /\ status[c] \in Over
    BY DEF Owing, CallsInv, NeverTwice
  <2>2. ASSUME NEW c \in Calls, NEW h \in Owing(c), NEW i \in Owing(c) PROVE h = i
    BY <2>1 DEF CallsInv, NeverTwice
  <2> QED
    BY <2>1, <2>2 DEF OneLine, CallsInv, NeverTwice
<1> QED
  BY <1>1, InvInit, InvNext, PTL DEF Spec

\* A call that is over stays as it was recorded (chatCalls.js:126-127, 210, 217-218).
THEOREM OverStaysOver == Spec => OverForGood
<1> DEFINE Keeps == \A c \in Calls : status[c] \in Over => status'[c] = status[c]
<1>1. CallsInv /\ [Next]_vars => [Keeps]_vars
  <2> SUFFICES ASSUME CallsInv, Next PROVE Keeps
    BY DEF vars
  <2> USE DEF CallsInv
  <2>1. ASSUME NEW d \in Calls, RingSecondsPass(d) \/ Accept(d) PROVE Keeps
    BY <2>1 DEF RingSecondsPass, Accept, TypeOK, Over
  <2>2. ASSUME NEW h \in Handlers, NEW step, NEW d, ExpireRinging(h, step, d) PROVE Keeps
    BY <2>2 DEF ExpireRinging, Unanswered, Over
  <2>3. ASSUME NEW h \in Handlers, Request(h) PROVE Keeps
    BY <2>2, <2>3 DEF Request, Poll, Ask, HangUp, table
  <2>4. ASSUME NEW h \in Handlers, Insert(h) \/ InsertMissed(h) PROVE Keeps
    <3>1. Placing(h) /\ job[h].call \in Calls /\ status[job[h].call] = "none"
      BY <2>4 DEF Insert, InsertMissed, Placing, TypeOK, OwnIds
    <3> QED
      BY <2>4, <3>1 DEF Insert, InsertMissed, TypeOK, Over
  <2>5. ASSUME NEW h \in Handlers, EndCall(h) PROVE Keeps
    BY <2>5 DEF EndCall, TypeOK, Live, Over
  <2>6. ASSUME NEW h \in Handlers,
               Respond(h) \/ CheckBusy(h) \/ Dies(h) \/ \E d \in Calls : WriteLine(h, d)
        PROVE  Keeps
    BY <2>6 DEF Respond, CheckBusy, Dies, WriteLine, table
  <2> QED
    BY <2>1, <2>3, <2>4, <2>5, <2>6 DEF Next, HandlerStep
<1> QED
  BY <1>1, InvInit, InvNext, PTL DEF Spec, OverForGood

-----------------------------------------------------------------------------
(* Replication: what the cursors stand for.                                *)

\* a has everything that b brings.
Covers(a, b) == ~News(a, b)

\* a has everything that b has, and something else.
Renews(a, b) == Covers(a, b) /\ ~Same(a, b)

\* Where the rows of a cursor come from and go, and the steps of its phase.
Source(l, c) == IF c = "push" THEN l ELSE MAIN
Target(l, c) == IF c = "push" THEN MAIN ELSE l
Waiting(c)   == IF c = "push" THEN {"sent", "merging", "merged"} ELSE {"reply"}
Phase(c)     == Waiting(c) \cup {c}

\* No clock is ahead of that of s.
Latest(s) == \A t \in Servers : Ahead[t] <= Ahead[s]

ArePage(rows) ==
  /\ DOMAIN rows \subseteq Keys
  /\ rows = [k \in DOMAIN rows |-> rows[k]]
  /\ \A k \in DOMAIN rows : rows[k] \in Row
  /\ \A j, k \in DOMAIN rows : rows[j].seq = rows[k].seq => j = k

Steps == {"idle", "push", "sent", "merging", "merged", "pushed", "pull", "reply"}

Stores ==
  /\ now \in Nat
  /\ row \in [Servers -> [Keys -> Row]]
  /\ open \in [Servers -> [Keys -> Held]]
  /\ seq \in [Servers -> Nat]

Loops ==
  /\ cursor \in [Locals -> [Ways -> [safe : Nat, history : Seq(Position)]]]
  /\ pc \in [Locals -> Steps]
  /\ cur \in [Locals -> Nat]
  /\ more \in [Locals -> BOOLEAN]
  /\ flight = [l \in Locals |-> flight[l]]
  /\ \A l \in Locals : ArePage(flight[l])
  /\ \A rows \in limbo : ArePage(rows)
  /\ \A l \in Locals : pc[l] \in Waiting("push") \cup Waiting("pull") => DOMAIN flight[l] # {}

\* A number is handed out once.
Numbered ==
  \A s \in Servers :
    /\ \A k \in Keys : /\ row[s][k].seq <= seq[s] /\ open[s][k].row.seq <= seq[s]
                       /\ open[s][k] # NoWrite => open[s][k].row.seq # 0
    /\ \A j, k \in Keys : /\ row[s][j].seq = row[s][k].seq /\ row[s][j].seq # 0 => j = k
                          /\ open[s][j].row.seq = open[s][k].row.seq /\ open[s][j].row.seq # 0 => j = k
                          /\ row[s][j].seq = open[s][k].row.seq => row[s][j].seq = 0

\* A transaction ends in time.
Brief == \A s \in Servers, k \in Keys : open[s][k].age < OpenFor

Base == Stores /\ Loops /\ Numbered /\ Brief

\* Nothing was written or stamped later than the clock of d stamps next.
Before(r, d) == r.body <= now /\ r.at <= now + Ahead[d] /\ r.time <= now + Ahead[d]

Stamped(d) ==
  /\ \A s \in Servers, k \in Keys : Before(row[s][k], d) /\ Before(open[s][k].row, d)
  /\ \A l \in Locals : \A k \in DOMAIN flight[l] : Before(flight[l][k], d)
  /\ \A rows \in limbo : \A k \in DOMAIN rows : Before(rows[k], d)
  /\ \A k \in Keys : open[d][k] # NoWrite => Renews(open[d][k].row, row[d][k])

Known(l, c, k) == Covers(row[Target(l, c)][k], row[Source(l, c)][k])

\* The phase under way has come past row k, or will not come to it.
Missed(l, c, k) ==
  /\ pc[l] \in Phase(c)
  /\ \/ row[Source(l, c)][k].seq <= cur[l]
     \/ /\ pc[l] \in Waiting(c)
        /\ ~(k \in DOMAIN flight[l] /\ row[Source(l, c)][k] = flight[l][k])
        /\ row[Source(l, c)][k].seq <= LastSeq(flight[l]) \/ ~more[l]

\* No position was handed out later than the last number.
Positions(l, c) ==
  LET last == seq[Source(l, c)]
  IN  /\ cursor[l][c].safe <= last
      /\ \A i \in DOMAIN cursor[l][c].history : cursor[l][c].history[i].seq <= last
      /\ pc[l] \in Phase(c) => cur[l] <= last
      /\ pc[l] \in Waiting(c) => LastSeq(flight[l]) <= last

\* What the marks of a position mean.
Marks(l, c) ==
  \A i \in DOMAIN cursor[l][c].history :
    LET p == cursor[l][c].history[i]
    IN  /\ p.read # "no" => p.age >= OpenFor
        /\ Prompt /\ p.age >= Overlap => p.read = "done"

\* A number that no transaction has committed yet is ahead of the saved position,
\* and no position remembered beyond it is older than its transaction.
Pending(l, c) ==
  \A k \in Keys :
    LET w == open[Source(l, c)][k]
    IN  w # NoWrite =>
          /\ cursor[l][c].safe < w.row.seq
          /\ \A i \in DOMAIN cursor[l][c].history :
               w.row.seq <= cursor[l][c].history[i].seq => cursor[l][c].history[i].age <= w.age

\* A row that the other side does not know is ahead of the saved position.  A
\* position beyond it has not been read up to by a whole phase, nor, once the
\* phase under way has missed the row, by this one.
Unknown(l, c) ==
  \A k \in Keys :
    LET n == row[Source(l, c)][k].seq
    IN  n # 0 /\ ~Known(l, c, k) =>
          /\ cursor[l][c].safe < n
          /\ \A i \in DOMAIN cursor[l][c].history :
               n <= cursor[l][c].history[i].seq =>
                 /\ cursor[l][c].history[i].read # "done"
                 /\ Missed(l, c, k) => cursor[l][c].history[i].read = "no"

Line(l, c) == Positions(l, c) /\ Marks(l, c) /\ Pending(l, c) /\ Unknown(l, c)

\* What MAIN has of a page: of the push of l once it is merged, of what it answered.
Has(l, k) ==
  \/ Covers(row[MAIN][k], flight[l][k])
  \/ /\ pc[l] = "merging" /\ open[MAIN][k].by = l
     /\ Covers(open[MAIN][k].row, flight[l][k])

Answers(l) == pc[l] \in {"merging", "merged", "reply"} => \A k \in DOMAIN flight[l] : Has(l, k)

EchoInv == Base /\ \A s \in Servers : Stamped(s)
PushInv == Base /\ Stamped(MAIN) /\ \A l \in Locals : Line(l, "push") /\ Answers(l)
PullInv == Base /\ \A l \in Locals : Stamped(l) /\ Line(l, "pull")

-----------------------------------------------------------------------------
(* What merging and reading by pages do.                                   *)

\* The maximum of a finite set of numbers is one of them, and the greatest.
LEMMA Largest ==
  ASSUME NEW S, IsFiniteSet(S), S # {}, S \subseteq Nat
  PROVE  Max(S) \in S /\ \A y \in S : y <= Max(S)
<1> DEFINE HasMax(s) == \E x \in s : \A y \in s : x >= y
           U == {s \in SUBSET S : s # {} /\ ~HasMax(s)}
<1>1. IsWellFoundedOn(StrictSubsetOrdering(S), SUBSET S)
  <2>1. IsWellFoundedOn(StrictSubsetOrdering(S), FiniteSubsetsOf(S))
    BY FS_StrictSubsetOrderingWellFounded
  <2> QED
    BY <2>1, FS_FiniteSubsetsOfFinite, Zenon
<1>2. CASE U # {}
  <2>1. PICK s \in U : \A u \in U : <<u, s>> \notin StrictSubsetOrdering(S)
    <3>1. U \subseteq SUBSET S
      OBVIOUS
    <3> HIDE DEF U
    <3> QED
      BY <1>1, <1>2, <3>1, WFMin
  <2>2. PICK x \in s : x \in Nat
    OBVIOUS
  <2>3. s # {x}
    BY <2>2
  <2>4. s \ {x} \in SUBSET S /\ s \in SUBSET S /\ s \ {x} # s /\ s \ {x} \subseteq s /\ s \ {x} # {}
    BY <2>2, <2>3
  <2>5. <<s \ {x}, s>> \in StrictSubsetOrdering(S)
    BY <2>4 DEF StrictSubsetOrdering
  <2>6. HasMax(s \ {x})
    BY <2>1, <2>4, <2>5
  <2>7. PICK z \in s \ {x} : \A y \in s \ {x} : z >= y
    BY <2>6
  <2>8. \A y \in s : y \in Nat
    OBVIOUS
  <2>9. HasMax(s)
    <3>1. CASE z >= x
      BY <2>7, <3>1
    <3>2. CASE x >= z
      <4>1. \A y \in s : x >= y
        BY <2>2, <2>7, <2>8, <3>2
      <4> QED
        BY <4>1
    <3> QED
      BY <2>2, <2>7, <2>8, <3>1, <3>2
  <2> QED
    BY <2>9
<1>3. HasMax(S)
  BY <1>2
<1>4. Max(S) \in S /\ \A y \in S : Max(S) >= y
  BY <1>3, Zenon DEF Max
<1> QED
  BY <1>4

\* The maximum of two numbers.
LEMMA LargerOf ==
  ASSUME NEW a \in Nat, NEW b \in Nat
  PROVE  Max({a, b}) = IF a >= b THEN a ELSE b
<1>1. IsFiniteSet({a, b})
  <2>1. IsFiniteSet({a}) /\ {a, b} = {a} \cup {b}
    BY FS_Singleton
  <2> QED
    BY <2>1, FS_AddElement
<1>2. Max({a, b}) \in {a, b} /\ \A y \in {a, b} : y <= Max({a, b})
  <2>1. {a, b} # {} /\ {a, b} \subseteq Nat
    OBVIOUS
  <2> QED
    BY <1>1, <2>1, Largest
<1> QED
  BY <1>2

\* A row covers another when neither its stamp nor its time is behind.
LEMMA CoversMeans ==
  ASSUME NEW a \in Row, NEW b \in Row
  PROVE  Covers(a, b) <=> /\ b.at <= a.at
                          /\ IF Rule = "later" THEN b.time <= a.time ELSE a.time = 0 => b.time = 0
BY DEF Covers, News, Row

\* Covering is reflexive and transitive.
LEMMA CoversOrder ==
  /\ \A a \in Row : Covers(a, a)
  /\ \A a, b, d \in Row : Covers(a, b) /\ Covers(b, d) => Covers(a, d)
<1>1. \A a \in Row : a.at \in Nat /\ a.time \in Nat
  BY DEF Row
<1>2. \A a \in Row : Covers(a, a)
  BY <1>1, CoversMeans
<1>3. ASSUME NEW a \in Row, NEW b \in Row, NEW d \in Row, Covers(a, b), Covers(b, d)
      PROVE  Covers(a, d)
  BY <1>1, <1>3, CoversMeans
<1> QED
  BY <1>2, <1>3

\* Rows are the same when they differ in nothing but the number.
LEMMA SameMeans ==
  ASSUME NEW a \in Row, NEW b \in Row
  PROVE  Same(a, b) <=> a.body = b.body /\ a.time = b.time /\ a.at = b.at
<1>1. /\ a = [body |-> a.body, time |-> a.time, at |-> a.at, seq |-> a.seq]
      /\ b = [body |-> b.body, time |-> b.time, at |-> b.at, seq |-> b.seq]
  BY DEF Row
<1>2. /\ [a EXCEPT !.seq = 0] = [body |-> a.body, time |-> a.time, at |-> a.at, seq |-> 0]
      /\ [b EXCEPT !.seq = 0] = [body |-> b.body, time |-> b.time, at |-> b.at, seq |-> 0]
  BY <1>1
<1> QED
  BY <1>2 DEF Same

\* A merged row is the least that covers both.
LEMMA Merging ==
  ASSUME NEW a \in Row, NEW b \in Row, NEW n \in Nat
  PROVE  LET m == [Merge(a, b) EXCEPT !.seq = n]
         IN  /\ m \in Row /\ m.seq = n
             /\ Covers(m, a) /\ Covers(m, b)
             /\ \A d \in Row : Covers(d, a) /\ Covers(d, b) => Covers(d, m)
             /\ m.body \in {a.body, b.body} /\ m.at \in {a.at, b.at} /\ m.time \in {a.time, b.time}
             /\ News(a, b) => m.at # a.at \/ m.time # a.time
<1> DEFINE m == [Merge(a, b) EXCEPT !.seq = n]
<1>1. /\ a.at \in Nat /\ a.time \in Nat /\ a.body \in Nat
      /\ b.at \in Nat /\ b.time \in Nat /\ b.body \in Nat
  BY DEF Row
<1>2. /\ Max({a.at, b.at}) = IF a.at >= b.at THEN a.at ELSE b.at
      /\ Max({a.time, b.time}) = IF a.time >= b.time THEN a.time ELSE b.time
  BY <1>1, LargerOf
<1>3. m = [body |-> IF b.at > a.at THEN b.body ELSE a.body,
           time |-> IF Rule = "later" THEN Max({a.time, b.time})
                    ELSE IF a.time # 0 THEN a.time ELSE b.time,
           at   |-> Max({a.at, b.at}),
           seq  |-> n]
  BY DEF Merge
<1>4. m \in Row
  BY <1>1, <1>2, <1>3 DEF Row
<1>5. /\ m.seq = n /\ m.body \in {a.body, b.body} /\ m.at = IF a.at >= b.at THEN a.at ELSE b.at
      /\ m.time = IF Rule = "later" THEN (IF a.time >= b.time THEN a.time ELSE b.time)
                  ELSE IF a.time # 0 THEN a.time ELSE b.time
  BY <1>2, <1>3
<1> HIDE DEF m
<1>6. Covers(m, a) /\ Covers(m, b)
  BY <1>1, <1>4, <1>5, CoversMeans
<1>7. ASSUME NEW d \in Row, Covers(d, a), Covers(d, b) PROVE Covers(d, m)
  <2>1. d.at \in Nat /\ d.time \in Nat
    BY DEF Row
  <2> QED
    BY <1>1, <1>4, <1>5, <1>7, <2>1, CoversMeans
<1>8. News(a, b) => m.at # a.at \/ m.time # a.time
  BY <1>1, <1>5 DEF News
<1>9. m.body \in {a.body, b.body} /\ m.at \in {a.at, b.at} /\ m.time \in {a.time, b.time}
  BY <1>1, <1>5
<1> QED
  BY <1>4, <1>5, <1>6, <1>7, <1>8, <1>9 DEF m

\* The types of what is read from the state.
LEMMA Typing ==
  ASSUME Base
  PROVE  /\ now \in Nat /\ MAIN \in Servers /\ Locals \subseteq Servers
         /\ \A s \in Servers : seq[s] \in Nat
         /\ \A s \in Servers, k \in Keys : /\ row[s][k] \in Row /\ row[s][k].seq \in Nat
                                          /\ open[s][k] \in Held /\ open[s][k].row \in Row
                                          /\ open[s][k].row.seq \in Nat /\ open[s][k].age \in Nat
         /\ \A l \in Locals, c \in Ways : cursor[l][c].safe \in Nat /\ cursor[l][c].history \in Seq(Position)
         /\ \A l \in Locals : cur[l] \in Nat /\ more[l] \in BOOLEAN /\ pc[l] \in Steps /\ ArePage(flight[l])
         /\ \A l \in Locals : \A k \in DOMAIN flight[l] : k \in Keys /\ flight[l][k] \in Row /\ flight[l][k].seq \in Nat
<1>1. now \in Nat /\ MAIN \in Servers /\ Locals \subseteq Servers /\ \A s \in Servers : seq[s] \in Nat
  BY DEF Base, Stores, Servers
<1>2. \A s \in Servers, k \in Keys : /\ row[s][k] \in Row /\ row[s][k].seq \in Nat
                                     /\ open[s][k] \in Held /\ open[s][k].row \in Row
                                     /\ open[s][k].row.seq \in Nat /\ open[s][k].age \in Nat
  BY DEF Base, Stores, Row, Held
<1>3. \A l \in Locals, c \in Ways : cursor[l][c].safe \in Nat /\ cursor[l][c].history \in Seq(Position)
  BY DEF Base, Loops
<1>4. \A l \in Locals : cur[l] \in Nat /\ more[l] \in BOOLEAN /\ pc[l] \in Steps /\ ArePage(flight[l])
  BY DEF Base, Loops
<1>5. \A l \in Locals : \A k \in DOMAIN flight[l] : k \in Keys /\ flight[l][k] \in Row /\ flight[l][k].seq \in Nat
  BY <1>4 DEF ArePage, Row
<1> QED
  BY <1>1, <1>2, <1>3, <1>4, <1>5

\* The rows that a page takes are those up to its last one.
LEMMA Paging ==
  ASSUME Base, NEW s \in Servers, NEW from \in Nat, Page(s, from) # NoRows
  PROVE  LET page == Page(s, from)
         IN  /\ ArePage(page) /\ DOMAIN page # {}
             /\ \A k \in DOMAIN page : page[k] = row[s][k] /\ row[s][k].seq \in 1..LastSeq(page)
             /\ LastSeq(page) \in Nat /\ LastSeq(page) <= seq[s]
             /\ \A k \in Keys : row[s][k].seq > from /\ row[s][k].seq <= LastSeq(page) => k \in DOMAIN page
             /\ ~IsFull(s, from) => \A k \in Keys : row[s][k].seq > from => k \in DOMAIN page
<1> DEFINE waiting == Behind(s, from)
           rank(k) == {j \in waiting : row[s][j].seq <= row[s][k].seq}
           page == Page(s, from)
<1>1. \A k \in Keys : row[s][k] \in Row /\ row[s][k].seq \in Nat
  BY Typing
<1>2. /\ DOMAIN page = {k \in waiting : Cardinality(rank(k)) <= Batch}
      /\ page = [k \in DOMAIN page |-> row[s][k]]
  BY DEF Page
<1>3. waiting \subseteq Keys /\ \A k \in waiting : row[s][k].seq > from
  BY DEF Behind
<1>4. IsFiniteSet(waiting) /\ Batch \in Nat
  BY <1>3, ChatSyncConstants, FS_Subset
<1> HIDE DEF waiting, page
<1>5. DOMAIN page # {}
  <2>1. SUFFICES ASSUME DOMAIN page = {} PROVE page = NoRows
    BY DEF page
  <2> QED
    BY <1>2, <2>1 DEF NoRows
<1>6. \A k \in DOMAIN page : page[k] = row[s][k] /\ k \in waiting /\ k \in Keys
  BY <1>2, <1>3
<1>7. ArePage(page)
  <2>1. \A j, k \in DOMAIN page : page[j].seq = page[k].seq => j = k
    <3> SUFFICES ASSUME NEW j \in DOMAIN page, NEW k \in DOMAIN page, page[j].seq = page[k].seq
                 PROVE  j = k
      OBVIOUS
    <3>1. row[s][j].seq = row[s][k].seq /\ row[s][j].seq # 0 /\ j \in Keys /\ k \in Keys
      BY <1>1, <1>3, <1>6
    <3> QED
      BY <3>1 DEF Base, Numbered
  <2> QED
    BY <1>1, <1>2, <1>6, <2>1 DEF ArePage
<1> DEFINE numbers == {page[k].seq : k \in DOMAIN page}
<1>8. LastSeq(page) \in numbers /\ \A n \in numbers : n <= LastSeq(page)
  <2>1. IsFiniteSet(DOMAIN page)
    BY <1>2, <1>4, FS_Subset
  <2>2. IsFiniteSet(numbers)
    <3> DEFINE f == [k \in DOMAIN page |-> page[k].seq]
    <3>1. f \in Surjection(DOMAIN page, numbers)
      BY DEF Surjection
    <3> QED
      BY <2>1, <3>1, FS_Surjection
  <2>3. numbers # {} /\ numbers \subseteq Nat
    BY <1>1, <1>5, <1>6
  <2> QED
    BY <2>2, <2>3, Largest DEF LastSeq
<1>9. PICK last \in DOMAIN page : LastSeq(page) = row[s][last].seq
  BY <1>6, <1>8
<1>10. LastSeq(page) \in Nat /\ LastSeq(page) <= seq[s]
  BY <1>1, <1>6, <1>9 DEF Base, Numbered
<1>11. ASSUME NEW k \in DOMAIN page PROVE row[s][k].seq \in 1..LastSeq(page)
  <2>1. row[s][k].seq \in numbers /\ row[s][k].seq \in Nat /\ row[s][k].seq > from
    BY <1>1, <1>3, <1>6
  <2> QED
    BY <1>8, <1>10, <2>1
<1>12. ASSUME NEW k \in Keys, row[s][k].seq > from, row[s][k].seq <= LastSeq(page)
       PROVE  k \in DOMAIN page
  <2>1. k \in waiting
    BY <1>12 DEF waiting, Behind
  <2>2. rank(k) \subseteq rank(last)
    BY <1>1, <1>3, <1>9, <1>12, <1>6
  <2>3. IsFiniteSet(rank(last))
    BY <1>4, FS_Subset
  <2>4. Cardinality(rank(k)) <= Cardinality(rank(last)) /\ Cardinality(rank(last)) \in Nat /\ Cardinality(rank(k)) \in Nat
    <3>1. IsFiniteSet(rank(k))
      BY <1>4, FS_Subset
    <3> HIDE DEF rank
    <3> QED
      BY <2>2, <2>3, <3>1, FS_Subset, FS_CardinalityType
  <2>5. Cardinality(rank(last)) <= Batch
    BY <1>2, <1>9
  <2> HIDE DEF rank
  <2>6. Cardinality(rank(k)) <= Batch
    BY <1>4, <2>4, <2>5
  <2> QED
    BY <1>2, <2>1, <2>6
<1>13. ASSUME ~IsFull(s, from), NEW k \in Keys, row[s][k].seq > from PROVE k \in DOMAIN page
  <2>1. k \in waiting /\ ~(Cardinality(waiting) >= Batch)
    BY <1>13 DEF waiting, Behind, IsFull
  <2>2. rank(k) \subseteq waiting
    OBVIOUS
  <2> HIDE DEF rank
  <2>3. /\ Cardinality(rank(k)) \in Nat /\ Cardinality(waiting) \in Nat
        /\ Cardinality(rank(k)) <= Cardinality(waiting)
    BY <1>4, <2>2, FS_Subset, FS_CardinalityType
  <2>4. Cardinality(rank(k)) <= Batch
    BY <1>4, <2>1, <2>3
  <2> QED
    BY <1>2, <2>1, <2>4
<1> QED
  BY <1>5, <1>6, <1>7, <1>10, <1>11, <1>12, <1>13 DEF page

\* The last number of a page is a number.
LEMMA PageNumbers ==
  ASSUME NEW rows, ArePage(rows), DOMAIN rows # {}
  PROVE  LastSeq(rows) \in Nat
<1> DEFINE f == [k \in DOMAIN rows |-> rows[k].seq]
           numbers == {rows[k].seq : k \in DOMAIN rows}
<1>1. \A k \in DOMAIN rows : rows[k].seq \in Nat /\ k \in Keys
  BY DEF ArePage, Row
<1>2. f \in Surjection(DOMAIN rows, numbers)
  BY DEF Surjection
<1>3. IsFiniteSet(DOMAIN rows)
  BY <1>1, ChatSyncConstants, FS_Subset
<1>4. IsFiniteSet(numbers)
  BY <1>2, <1>3, FS_Surjection
<1>5. numbers # {} /\ numbers \subseteq Nat
  BY <1>1
<1> QED
  BY <1>1, <1>4, <1>5, Largest DEF LastSeq

\* A page is empty only where nothing is behind the position.
LEMMA NoPage ==
  ASSUME Base, NEW s \in Servers, NEW from \in Nat, Page(s, from) = NoRows
  PROVE  \A k \in Keys : ~(row[s][k].seq > from)
<1> SUFFICES ASSUME NEW k \in Keys, row[s][k].seq > from PROVE FALSE
  OBVIOUS
<1> DEFINE waiting == Behind(s, from)
           below(j) == seq[s] - row[s][j].seq
           gaps == {below(j) : j \in waiting}
<1>1. /\ waiting \subseteq Keys /\ k \in waiting /\ seq[s] \in Nat
      /\ \A j \in waiting : row[s][j].seq > from /\ row[s][j].seq \in Nat /\ row[s][j].seq <= seq[s]
  BY Typing DEF Behind, Base, Numbered
<1>2. gaps \subseteq Nat /\ gaps # {}
  BY <1>1
<1>3. IsFiniteSet(gaps)
  <2> DEFINE f == [j \in waiting |-> below(j)]
  <2>1. f \in Surjection(waiting, gaps)
    BY DEF Surjection
  <2>2. IsFiniteSet(waiting)
    BY <1>1, ChatSyncConstants, FS_Subset
  <2> QED
    BY <2>1, <2>2, FS_Surjection
<1>4. PICK j \in waiting : \A g \in gaps : g <= below(j)
  <2>1. Max(gaps) \in gaps /\ \A g \in gaps : g <= Max(gaps)
    BY <1>2, <1>3, Largest
  <2> HIDE DEF below
  <2> QED
    BY <2>1
<1>5. {i \in waiting : row[s][i].seq <= row[s][j].seq} = {j}
  <2> SUFFICES ASSUME NEW i \in waiting, row[s][i].seq <= row[s][j].seq PROVE i = j
    BY <1>1
  <2>1. below(i) <= below(j)
    BY <1>4
  <2>2. row[s][i].seq = row[s][j].seq /\ row[s][i].seq # 0
    BY <1>1, <2>1
  <2> QED
    BY <1>1, <2>2 DEF Base, Numbered
<1>6. Cardinality({j}) <= Batch
  <2>1. Batch \in Nat \ {0} /\ Cardinality({j}) = 1
    BY ChatSyncConstants, FS_Singleton
  <2> QED
    BY <2>1
<1>7. j \in DOMAIN Page(s, from)
  BY <1>5, <1>6 DEF Page
<1> QED
  BY <1>7 DEF NoRows

-----------------------------------------------------------------------------
(* What a step may do to the rows.                                         *)

\* Row k wherever it is: committed, in an open transaction, under way, or in a
\* push that nobody waits for any more.
CopiesOf(k) ==
  {NoRow} \cup {row[s][k] : s \in Servers}
          \cup {open[s][k].row : s \in Servers}
          \cup {flight[l][k] : l \in {j \in Locals : k \in DOMAIN flight[j]}}
          \cup {rows[k] : rows \in {r \in limbo : k \in DOMAIN r}}

\* Stamp and body are those of r; some copy had them before.
AsIn(m, r) == m.at = r.at /\ m.body = r.body
Carried(k, m) == \E r \in CopiesOf(k) : AsIn(m, r)

\* What a user writes now.
Written(m) == now' = now + 1 /\ \E s \in Servers : m.at = Clock(s)
\* A copy is an old one, or what a user writes now.
Comes(k, m, image) == Carried(k, m) \/ (m = image /\ Written(m))

BeforeNext(r, d) == r.body <= now' /\ r.at <= now' + Ahead[d] /\ r.time <= now' + Ahead[d]

\* m is what row k of s may become, with a number of its own.
Image(s, k, m) ==
  /\ m \in Row /\ m.seq > seq[s] /\ m.seq <= seq'[s]
  /\ \A d \in Servers : Latest(d) /\ Stamped(d) => BeforeNext(m, d)
  /\ Latest(s) /\ Stamped(s) => Renews(m, row[s][k])

\* A row that nobody writes, and of which no transaction ends.
Rests(s, k) ==
  /\ row'[s][k] = row[s][k]
  /\ open'[s][k].row = open[s][k].row /\ open'[s][k].age >= open[s][k].age
  /\ open'[s][k] = NoWrite <=> open[s][k] = NoWrite

\* A LOCAL applies what MAIN answered.
Takes(s, k) ==
  /\ s \in Locals /\ pc[s] = "reply" /\ pc'[s] \notin Phase("push") /\ k \in DOMAIN flight[s]
  /\ row'[s][k].seq = row[s][k].seq
  /\ \A d \in Servers : Stamped(d) => BeforeNext(row'[s][k], d)
  /\ Covers(row'[s][k], row[s][k])
  /\ \A d \in Row : Covers(d, row[s][k]) /\ Covers(d, flight[s][k]) => Covers(d, row'[s][k])

\* What a step may make of a row and of what is held of it.
Moves(s, k) ==
  \/ Rests(s, k)
  \/ open[s][k] = NoWrite /\ open'[s][k] = NoWrite /\ Image(s, k, row'[s][k])
  \/ open[s][k] = NoWrite /\ row'[s][k] = row[s][k] /\ Image(s, k, open'[s][k].row)
  \/ open[s][k] # NoWrite /\ open'[s][k] = NoWrite /\ row'[s][k] \in {row[s][k], open[s][k].row}
  \/ open[s][k] = NoWrite /\ open'[s][k] = NoWrite /\ Takes(s, k)

\* Two rows do not get one number.
Apart(s) ==
  \A j, k \in Keys :
    /\ row'[s][j].seq = row'[s][k].seq /\ row'[s][j].seq > seq[s] => j = k
    /\ open'[s][j].row.seq = open'[s][k].row.seq /\ open'[s][j].row.seq > seq[s] => j = k
    /\ row'[s][j].seq = open'[s][k].row.seq => ~(row'[s][j].seq > seq[s])

\* What a step may do to the tables.
StoresMove ==
  /\ Stores' /\ now' \in {now, now + 1}
  /\ \A s \in Servers : seq'[s] >= seq[s] /\ Apart(s)
  /\ \A s \in Servers, k \in Keys : Moves(s, k)
  /\ \A k \in Keys : \E image : \A s \in Servers :
       Comes(k, row'[s][k], image) /\ Comes(k, open'[s][k].row, image)

\* The empty page and the absent row.
LEMMA NoRowsYet ==
  /\ ArePage(NoRows) /\ DOMAIN NoRows = {}
  /\ NoRow \in Row /\ NoRow.body = 0 /\ NoRow.at = 0 /\ NoRow.time = 0 /\ NoRow.seq = 0
  /\ NoWrite \in Held /\ NoWrite.row = NoRow /\ NoWrite.by = MAIN /\ NoWrite.age = 0
BY DEF ArePage, NoRows, NoRow, NoWrite, Row, Held, Servers

\* A row under way, or late, is a copy.
LEMMA AreCopies ==
  /\ \A s \in Servers, k \in Keys : row[s][k] \in CopiesOf(k) /\ open[s][k].row \in CopiesOf(k)
  /\ \A l \in Locals : \A k \in DOMAIN flight[l] : flight[l][k] \in CopiesOf(k)
  /\ \A rows \in limbo : \A k \in DOMAIN rows : rows[k] \in CopiesOf(k)
  /\ \A k : NoRow \in CopiesOf(k)
  /\ \A k : \A r \in CopiesOf(k) : Carried(k, r)
BY DEF CopiesOf, Carried, AsIn

\* and a copy is a row.
LEMMA CopiesAreRows ==
  ASSUME Base, NEW k \in Keys
  PROVE  CopiesOf(k) \subseteq Row
<1>1. \A rows \in limbo : \A j \in DOMAIN rows : rows[j] \in Row
  BY DEF Base, Loops, ArePage
<1> QED
  BY <1>1, Typing, NoRowsYet DEF CopiesOf

\* What was stamped by now is stamped by the next step.
LEMMA StillBefore ==
  ASSUME Base, now' \in {now, now + 1}, NEW d \in Servers, NEW r \in Row, Before(r, d)
  PROVE  BeforeNext(r, d)
<1>1. now \in Nat /\ Ahead[d] \in Nat
  BY Typing, ChatSyncConstants
<1> QED
  BY <1>1 DEF Before, BeforeNext, Row

\* Every copy of a row was stamped by now.
LEMMA CopiesStamped ==
  ASSUME Base, NEW d \in Servers, Stamped(d), NEW k \in Keys, NEW r \in CopiesOf(k)
  PROVE  Before(r, d)
<1>1. now \in Nat /\ Ahead[d] \in Nat
  BY Typing, ChatSyncConstants
<1>2. Before(NoRow, d)
  BY <1>1, NoRowsYet DEF Before
<1> QED
  BY <1>2 DEF Stamped, CopiesOf

\* Of a store that does not change.
LEMMA AtRest ==
  ASSUME Base, NEW s \in Servers, NEW k \in Keys, row'[s][k] = row[s][k], open'[s][k] = open[s][k]
  PROVE  Moves(s, k)
<1>1. open[s][k].age \in Nat
  BY Typing
<1> QED
  BY <1>1 DEF Moves, Rests

\* No number is new.
LEMMA NoneNew ==
  ASSUME Base, NEW s \in Servers,
         \A k \in Keys : /\ row'[s][k].seq \in {row[s][k].seq, open[s][k].row.seq}
                         /\ open'[s][k].row.seq \in {open[s][k].row.seq, 0}
  PROVE  Apart(s)
<1>1. seq[s] \in Nat /\ \A k \in Keys : row[s][k].seq <= seq[s] /\ open[s][k].row.seq <= seq[s]
  BY Typing DEF Base, Numbered
<1>2. \A k \in Keys : row'[s][k].seq <= seq[s] /\ open'[s][k].row.seq <= seq[s]
  BY <1>1
<1>3. \A k \in Keys : row[s][k].seq \in Nat /\ open[s][k].row.seq \in Nat
  BY Typing
<1>4. \A k \in Keys : row'[s][k].seq \in Nat /\ open'[s][k].row.seq \in Nat
  BY <1>3
<1> QED
  BY <1>1, <1>2, <1>4 DEF Apart

\* A step that changes no row.
LEMMA Quiet ==
  ASSUME Base, now' = now, row' = row, seq' = seq,
         open' \in [Servers -> [Keys -> Held]],
         \A s \in Servers, k \in Keys :
           /\ open'[s][k].row = open[s][k].row /\ open'[s][k].age >= open[s][k].age
           /\ open'[s][k] = NoWrite <=> open[s][k] = NoWrite
  PROVE  StoresMove
<1>1. Stores'
  BY DEF Base, Stores
<1>2. \A s \in Servers, k \in Keys : Moves(s, k)
  BY DEF Moves, Rests
<1>3. \A s \in Servers : seq'[s] >= seq[s] /\ Apart(s)
  BY Typing, NoneNew
<1>4. \A k \in Keys : \A s \in Servers : \A image :
        Comes(k, row'[s][k], image) /\ Comes(k, open'[s][k].row, image)
  BY AreCopies DEF Comes
<1> QED
  BY <1>1, <1>2, <1>3, <1>4 DEF StoresMove

\* The clock of a server never shows 0.
LEMMA Clocks ==
  ASSUME Base, NEW s \in Servers
  PROVE  Clock(s) \in Nat /\ Clock(s) = now + 1 + Ahead[s] /\ Clock(s) # 0 /\ Ahead[s] \in Nat
BY ChatSyncConstants, Typing DEF Clock

\* What a user's write makes of a row: the next number, and never less than
\* the row had if no clock is ahead of this one.
LEMMA Imaged ==
  ASSUME Base, NEW s \in Servers, NEW k \in Keys, Stamps(s, k), NEW image \in Images(s, k)
  PROVE  Image(s, k, image) /\ Written(image) /\ image.seq # 0
<1>1. /\ row[s][k] \in Row /\ seq[s] \in Nat /\ now \in Nat /\ now' = now + 1
      /\ seq'[s] = seq[s] + 1
  BY Typing DEF Base, Stores, Stamps
<1>2. Clock(s) \in Nat /\ Clock(s) = now + 1 + Ahead[s] /\ Clock(s) # 0 /\ Ahead[s] \in Nat
  BY Clocks
<1>3. \/ image = [row[s][k] EXCEPT !.body = now + 1, !.at = Clock(s), !.seq = seq[s] + 1]
      \/ image = [row[s][k] EXCEPT !.time = Clock(s), !.at = Clock(s), !.seq = seq[s] + 1]
  BY DEF Images, Posted, Marked
<1>4. Written(image)
  <2>1. image.at = Clock(s)
    BY <1>1, <1>3 DEF Row
  <2> QED
    BY <1>1, <2>1 DEF Written
<1> HIDE DEF Clock
<1>5. /\ image \in Row /\ image.seq = seq[s] + 1
      /\ image.at = Clock(s) /\ image.time \in {row[s][k].time, Clock(s)}
      /\ image.body \in {row[s][k].body, now + 1}
  <2>1. /\ row[s][k] = [body |-> row[s][k].body, time |-> row[s][k].time, at |-> row[s][k].at, seq |-> row[s][k].seq]
        /\ row[s][k].body \in Nat /\ row[s][k].time \in Nat /\ row[s][k].at \in Nat
        /\ now + 1 \in Nat /\ seq[s] + 1 \in Nat
    BY <1>1 DEF Row
  <2>2. \/ image = [body |-> now + 1, time |-> row[s][k].time, at |-> Clock(s), seq |-> seq[s] + 1]
        \/ image = [body |-> row[s][k].body, time |-> Clock(s), at |-> Clock(s), seq |-> seq[s] + 1]
    BY <1>3, <2>1
  <2> QED
    BY <1>2, <2>1, <2>2 DEF Row
<1>6. row[s][k].at \in Nat /\ row[s][k].time \in Nat /\ row[s][k].body \in Nat
  BY <1>1 DEF Row
<1>7. ASSUME NEW d \in Servers, Latest(d), Stamped(d) PROVE BeforeNext(image, d)
  <2>1. Ahead[s] <= Ahead[d] /\ Ahead[d] \in Nat
    BY <1>7, ChatSyncConstants DEF Latest
  <2>2. row[s][k].time <= now + Ahead[d] /\ row[s][k].body <= now
    BY <1>7 DEF Stamped, Before
  <2> QED
    BY <1>1, <1>2, <1>5, <1>6, <2>1, <2>2 DEF BeforeNext
<1>8. ASSUME Latest(s), Stamped(s) PROVE Renews(image, row[s][k])
  <2>1. row[s][k].at <= now + Ahead[s] /\ row[s][k].time <= now + Ahead[s]
    BY <1>8 DEF Stamped, Before
  <2>2. Covers(image, row[s][k])
    BY <1>1, <1>2, <1>5, <1>6, <2>1, CoversMeans
  <2>3. image.at # row[s][k].at
    BY <1>1, <1>2, <1>5, <1>6, <2>1
  <2> QED
    BY <1>1, <1>5, <2>2, <2>3, SameMeans DEF Renews
<1> QED
  BY <1>1, <1>4, <1>5, <1>7, <1>8 DEF Image

\* A user's write at once, or in a transaction that stays open.
LEMMA WriteMoves ==
  ASSUME Base, NEW s \in Servers, NEW k \in Keys, Write(s, k) \/ BeginWrite(s, k)
  PROVE  StoresMove
<1>1. PICK image \in Images(s, k) :
        \/ row' = [row EXCEPT ![s][k] = image] /\ open' = open
        \/ row' = row /\ open' = [open EXCEPT ![s][k] = [row |-> image, by |-> s, age |-> 0]]
  BY DEF Write, BeginWrite
<1>2. /\ Stamps(s, k) /\ now' = now + 1 /\ open[s][k] = NoWrite /\ seq' = [seq EXCEPT ![s] = @ + 1]
  BY DEF Write, BeginWrite, Stamps
<1>3. Image(s, k, image) /\ Written(image)
  BY <1>2, Imaged
<1>4. /\ now \in Nat /\ row \in [Servers -> [Keys -> Row]] /\ seq \in [Servers -> Nat]
      /\ open \in [Servers -> [Keys -> Held]]
  BY DEF Base, Stores
<1>5. image \in Row /\ image.seq > seq[s] /\ [row |-> image, by |-> s, age |-> 0] \in Held
  BY <1>3 DEF Image, Held
<1>6. /\ row' \in [Servers -> [Keys -> Row]] /\ open' \in [Servers -> [Keys -> Held]]
      /\ \A i \in Servers, j \in Keys : i # s \/ j # k => row'[i][j] = row[i][j] /\ open'[i][j] = open[i][j]
      /\ \/ row'[s][k] = image /\ open'[s][k] = open[s][k]
         \/ row'[s][k] = row[s][k] /\ open'[s][k].row = image
  <2>1. CASE row' = [row EXCEPT ![s][k] = image] /\ open' = open
    BY <1>4, <1>5, <2>1
  <2>2. CASE row' = row /\ open' = [open EXCEPT ![s][k] = [row |-> image, by |-> s, age |-> 0]]
    BY <1>4, <1>5, <2>2
  <2> QED
    BY <1>1, <2>1, <2>2
<1>7. seq' \in [Servers -> Nat] /\ seq'[s] = seq[s] + 1 /\ \A i \in Servers : i # s => seq'[i] = seq[i]
  BY <1>2, <1>4
<1>8. Stores'
  BY <1>2, <1>4, <1>6, <1>7 DEF Stores
<1>9. \A i \in Servers : seq'[i] >= seq[i]
  BY <1>4, <1>7
<1>10. ASSUME NEW i \in Servers, NEW j \in Keys PROVE Moves(i, j)
  <2>1. CASE i = s /\ j = k
    BY <1>2, <1>3, <1>6, <2>1 DEF Moves
  <2>2. CASE ~(i = s /\ j = k)
    BY <1>6, <2>2, AtRest
  <2> QED
    BY <2>1, <2>2
<1>11. ASSUME NEW i \in Servers PROVE Apart(i)
  <2>1. CASE i # s
    BY <1>6, <2>1, NoneNew
  <2>2. CASE i = s
    <3>1. seq[s] \in Nat /\ \A j \in Keys : row[s][j].seq \in Nat /\ open[s][j].row.seq \in Nat
      BY Typing
    <3>2. \A j \in Keys : row[s][j].seq <= seq[s] /\ open[s][j].row.seq <= seq[s]
      BY DEF Base, Numbered
    <3>3. \A j \in Keys : j # k => row'[s][j].seq <= seq[s] /\ open'[s][j].row.seq <= seq[s]
      BY <1>6, <3>2
    <3>4. row'[s][k].seq <= seq[s] \/ open'[s][k].row.seq <= seq[s]
      BY <1>6, <3>2
    <3>5. \A j \in Keys : row'[s][j].seq \in Nat /\ open'[s][j].row.seq \in Nat
      BY <1>6 DEF Row, Held
    <3> QED
      BY <2>2, <3>1, <3>3, <3>4, <3>5 DEF Apart
  <2> QED
    BY <2>1, <2>2
<1>12. ASSUME NEW j \in Keys, NEW i \in Servers
       PROVE  Comes(j, row'[i][j], image) /\ Comes(j, open'[i][j].row, image)
  <2>1. row'[i][j] \in {row[i][j], image} /\ open'[i][j].row \in {open[i][j].row, image}
    BY <1>6
  <2> QED
    BY <1>3, <2>1, AreCopies DEF Comes
<1> QED
  BY <1>2, <1>8, <1>9, <1>10, <1>11, <1>12 DEF StoresMove

\* The end of transactions: some rows show what was held, and are held no more.
LEMMA Ending ==
  ASSUME Base, now' = now, seq' = seq, row' \in [Servers -> [Keys -> Row]], open' \in [Servers -> [Keys -> Held]],
         \A s \in Servers, k \in Keys :
           \/ row'[s][k] = row[s][k] /\ open'[s][k] = open[s][k]
           \/ open[s][k] # NoWrite /\ open'[s][k] = NoWrite /\ row'[s][k] \in {row[s][k], open[s][k].row}
  PROVE  StoresMove
<1>1. Stores'
  BY DEF Base, Stores
<1>2. \A s \in Servers, k \in Keys : Moves(s, k)
  BY AtRest DEF Moves
<1>3. \A s \in Servers, k \in Keys :
        /\ row'[s][k] \in {row[s][k], open[s][k].row}
        /\ open'[s][k].row \in {open[s][k].row, NoRow}
  BY NoRowsYet
<1>4. \A s \in Servers : seq'[s] >= seq[s] /\ Apart(s)
  BY <1>3, Typing, NoneNew, NoRowsYet
<1>5. \A k \in Keys : \A s \in Servers : \A image :
        Comes(k, row'[s][k], image) /\ Comes(k, open'[s][k].row, image)
  BY <1>3, AreCopies DEF Comes
<1> QED
  BY <1>1, <1>2, <1>4, <1>5 DEF StoresMove

\* Of a user's transaction that ends,
LEMMA EndWriteMoves ==
  ASSUME Base, NEW s \in Servers, NEW k \in Keys, EndWrite(s, k)
  PROVE  StoresMove
<1>1. /\ open[s][k] # NoWrite /\ now' = now /\ seq' = seq
      /\ row' \in {row, [row EXCEPT ![s][k] = open[s][k].row]}
      /\ open' = [open EXCEPT ![s][k] = NoWrite]
  BY DEF EndWrite
<1>2. /\ row \in [Servers -> [Keys -> Row]] /\ open \in [Servers -> [Keys -> Held]]
      /\ open[s][k].row \in Row /\ NoWrite \in Held
  BY Typing, NoRowsYet DEF Base, Stores
<1>3. row' \in [Servers -> [Keys -> Row]] /\ open' \in [Servers -> [Keys -> Held]]
  <2>1. [row EXCEPT ![s][k] = open[s][k].row] \in [Servers -> [Keys -> Row]]
    BY <1>2
  <2>2. [open EXCEPT ![s][k] = NoWrite] \in [Servers -> [Keys -> Held]]
    BY <1>2
  <2> QED
    BY <1>1, <1>2, <2>1, <2>2
<1>4. \A i \in Servers, j \in Keys :
        \/ row'[i][j] = row[i][j] /\ open'[i][j] = open[i][j]
        \/ open[i][j] # NoWrite /\ open'[i][j] = NoWrite /\ row'[i][j] \in {row[i][j], open[i][j].row}
  BY <1>1, <1>2
<1> QED
  BY <1>1, <1>3, <1>4, Ending

\* and of one of MAIN's for a push.
LEMMA CommitMoves ==
  ASSUME Base, NEW l \in Locals, CommitMerge(l), now' = now, seq' = seq
  PROVE  /\ StoresMove
         /\ \A k \in Keys : row'[MAIN][k] = IF open[MAIN][k].by = l THEN open[MAIN][k].row ELSE row[MAIN][k]
<1>1. /\ row' = [row EXCEPT ![MAIN] = [k \in Keys |->
                   IF k \in HeldFor(l) THEN open[MAIN][k].row ELSE row[MAIN][k]]]
      /\ open' = [open EXCEPT ![MAIN] = [k \in Keys |->
                    IF k \in HeldFor(l) THEN NoWrite ELSE open[MAIN][k]]]
  BY DEF CommitMerge
<1>2. /\ row \in [Servers -> [Keys -> Row]] /\ open \in [Servers -> [Keys -> Held]] /\ MAIN \in Servers
      /\ \A k \in Keys : open[MAIN][k].row \in Row /\ NoWrite \in Held
  BY Typing, NoRowsYet DEF Base, Stores
<1>3. row' \in [Servers -> [Keys -> Row]] /\ open' \in [Servers -> [Keys -> Held]]
  BY <1>1, <1>2
<1>4. \A k \in HeldFor(l) : open[MAIN][k] # NoWrite
  BY NoRowsYet, ChatSyncConstants DEF HeldFor
<1>5. ASSUME NEW s \in Servers, NEW k \in Keys
      PROVE  \/ row'[s][k] = row[s][k] /\ open'[s][k] = open[s][k]
             \/ open[s][k] # NoWrite /\ open'[s][k] = NoWrite /\ row'[s][k] \in {row[s][k], open[s][k].row}
  <2>1. CASE s # MAIN
    BY <1>1, <1>2, <2>1
  <2>2. CASE s = MAIN
    BY <1>1, <1>2, <1>4, <2>2
  <2> QED
    BY <2>1, <2>2
<1>6. \A k \in Keys : row'[MAIN][k] = IF open[MAIN][k].by = l THEN open[MAIN][k].row ELSE row[MAIN][k]
  BY <1>1, <1>2 DEF HeldFor
<1> QED
  BY <1>3, <1>5, <1>6, Ending

\* A merged row has the stamp and the body of one of the two.
LEMMA MergedWhole ==
  ASSUME NEW a \in Row, NEW b \in Row, NEW n \in Nat
  PROVE  LET m == [Merge(a, b) EXCEPT !.seq = n] IN AsIn(m, a) \/ AsIn(m, b)
<1>1. a.at \in Nat /\ b.at \in Nat
  BY DEF Row
<1>2. Max({a.at, b.at}) = IF a.at >= b.at THEN a.at ELSE b.at
  BY <1>1, LargerOf
<1> QED
  BY <1>1, <1>2 DEF Merge, AsIn

\* The rows of a page that is under way, or late, are copies.
LEMMA PageCopies ==
  ASSUME Base, NEW rows, rows \in limbo \/ \E l \in Locals : rows = flight[l]
  PROVE  /\ ArePage(rows)
         /\ \A k \in DOMAIN rows : k \in Keys /\ rows[k] \in Row /\ rows[k].seq \in Nat /\ rows[k] \in CopiesOf(k)
<1>1. ArePage(rows)
  BY DEF Base, Loops
<1> QED
  BY <1>1, AreCopies DEF ArePage, Row

\* MAIN merges a page: what changes gets a new number.
LEMMA MergeMoves ==
  ASSUME Base, NEW rows, rows \in limbo \/ (\E l \in Locals : rows = flight[l]), NEW by \in Servers,
         BeginMerge(rows, by), row' = row, now' = now
  PROVE  /\ StoresMove
         /\ \A k \in DOMAIN rows : \/ Covers(row[MAIN][k], rows[k])
                                   \/ open'[MAIN][k].by = by /\ Covers(open'[MAIN][k].row, rows[k])
         /\ \A k \in Keys : open[MAIN][k] # NoWrite => open'[MAIN][k] = open[MAIN][k]
<1> DEFINE changed == Changed(MAIN, rows)
           upto(k) == {j \in changed : rows[j].seq <= rows[k].seq}
           Nth(k) == Cardinality(upto(k))
           Merged(k) == [Merge(row[MAIN][k], rows[k]) EXCEPT !.seq = seq[MAIN] + Nth(k)]
<1>1. /\ MAIN \in Servers /\ seq[MAIN] \in Nat /\ row \in [Servers -> [Keys -> Row]] /\ seq \in [Servers -> Nat]
      /\ open \in [Servers -> [Keys -> Held]] /\ now \in Nat
      /\ \A k \in Keys : row[MAIN][k] \in Row /\ row[MAIN][k].seq \in Nat /\ row[MAIN][k].seq <= seq[MAIN]
      /\ \A k \in Keys : open[MAIN][k].row.seq \in Nat /\ open[MAIN][k].row.seq <= seq[MAIN]
      /\ \A k \in DOMAIN rows : k \in Keys /\ rows[k] \in Row /\ rows[k].seq \in Nat
  BY Typing, PageCopies DEF Base, Stores, Numbered
<1>2. changed \subseteq DOMAIN rows /\ changed \subseteq Keys /\ IsFiniteSet(changed)
  <2>1. changed \subseteq DOMAIN rows /\ changed \subseteq Keys
    BY <1>1 DEF Changed
  <2> QED
    BY <2>1, ChatSyncConstants, FS_Subset
<1>3. Cardinality(changed) \in Nat
  BY <1>2, FS_CardinalityType
<1>4. \A k \in changed : Nth(k) \in Nat /\ Nth(k) >= 1 /\ Nth(k) <= Cardinality(changed)
  <2> SUFFICES ASSUME NEW k \in changed
               PROVE  Nth(k) \in Nat /\ Nth(k) >= 1 /\ Nth(k) <= Cardinality(changed)
    OBVIOUS
  <2>1. k \in upto(k) /\ upto(k) \subseteq changed
    BY <1>1, <1>2
  <2> HIDE DEF upto
  <2>2. IsFiniteSet(upto(k)) /\ Cardinality(upto(k)) <= Cardinality(changed)
    BY <1>2, <2>1, FS_Subset
  <2>3. Cardinality(upto(k)) \in Nat /\ Cardinality(upto(k)) # 0
    BY <2>1, <2>2, FS_CardinalityType, FS_EmptySet
  <2> QED
    BY <2>2, <2>3
<1>5. ASSUME NEW j \in changed, NEW k \in changed, rows[j].seq < rows[k].seq PROVE Nth(j) # Nth(k)
  <2>1. upto(j) \subseteq upto(k) /\ k \in upto(k) /\ k \notin upto(j)
    BY <1>1, <1>2, <1>5
  <2>2. IsFiniteSet(upto(k))
    BY <1>2, FS_Subset
  <2> HIDE DEF upto
  <2> QED
    BY <2>1, <2>2, FS_Subset, FS_CardinalityType
<1>6. ASSUME NEW j \in changed, NEW k \in changed, Nth(j) = Nth(k) PROVE j = k
  <2>1. rows[j].seq = rows[k].seq
    <3>1. rows[j].seq \in Nat /\ rows[k].seq \in Nat
      BY <1>1, <1>2
    <3>2. ~(rows[j].seq < rows[k].seq) /\ ~(rows[k].seq < rows[j].seq)
      BY <1>5, <1>6
    <3> QED
      BY <3>1, <3>2
  <2> QED
    BY <1>2, <2>1, PageCopies DEF ArePage
<1>7. /\ \A k \in DOMAIN rows : open[MAIN][k] = NoWrite
      /\ open' = [open EXCEPT ![MAIN] = [k \in Keys |->
                    IF k \in changed THEN [row |-> Merged(k), by |-> by, age |-> 0] ELSE open[MAIN][k]]]
      /\ seq' = [seq EXCEPT ![MAIN] = @ + Cardinality(changed)]
  BY DEF BeginMerge
<1>8. \A k \in DOMAIN rows : k \notin changed => Covers(row[MAIN][k], rows[k])
  BY DEF Changed, Covers
<1>9. \A k \in changed : News(row[MAIN][k], rows[k])
  BY DEF Changed
<1> HIDE DEF changed, Nth
<1>10. /\ seq' \in [Servers -> Nat] /\ seq'[MAIN] = seq[MAIN] + Cardinality(changed)
       /\ \A s \in Servers : seq'[s] >= seq[s]
  BY <1>1, <1>3, <1>7
<1>11. ASSUME NEW k \in changed
       PROVE  LET m == Merged(k)
              IN  /\ Image(MAIN, k, m) /\ m.seq = seq[MAIN] + Nth(k)
                  /\ Covers(m, rows[k]) /\ Carried(k, m)
  <2> DEFINE m == Merged(k)
  <2>1. seq[MAIN] + Nth(k) \in Nat /\ row[MAIN][k] \in Row /\ rows[k] \in Row /\ k \in Keys
    BY <1>1, <1>2, <1>4
  <2>2. /\ m \in Row /\ m.seq = seq[MAIN] + Nth(k) /\ Covers(m, row[MAIN][k]) /\ Covers(m, rows[k])
        /\ m.body \in {row[MAIN][k].body, rows[k].body} /\ m.at \in {row[MAIN][k].at, rows[k].at}
        /\ m.time \in {row[MAIN][k].time, rows[k].time}
        /\ m.at # row[MAIN][k].at \/ m.time # row[MAIN][k].time
    BY <1>9, <2>1, Merging
  <2>3. AsIn(m, row[MAIN][k]) \/ AsIn(m, rows[k])
    BY <2>1, MergedWhole
  <2> HIDE DEF m
  <2>4. row[MAIN][k] \in CopiesOf(k) /\ rows[k] \in CopiesOf(k)
    BY <1>1, <1>2, <2>1, AreCopies, PageCopies
  <2>5. Carried(k, m)
    BY <2>3, <2>4 DEF Carried
  <2>6. Renews(m, row[MAIN][k])
    BY <2>1, <2>2, SameMeans DEF Renews
  <2>7. m.seq > seq[MAIN] /\ m.seq <= seq'[MAIN]
    BY <1>1, <1>3, <1>4, <1>10, <2>2
  <2>8. ASSUME NEW d \in Servers, Stamped(d) PROVE BeforeNext(m, d)
    <3>1. Before(row[MAIN][k], d) /\ Before(rows[k], d)
      BY <2>1, <2>4, <2>8, CopiesStamped
    <3> QED
      BY <2>2, <3>1 DEF Before, BeforeNext
  <2>9. Image(MAIN, k, m)
    BY <2>2, <2>6, <2>7, <2>8 DEF Image
  <2> QED
    BY <2>2, <2>5, <2>9 DEF m
<1> HIDE DEF Merged
<1>12. \A k \in changed : [row |-> Merged(k), by |-> by, age |-> 0] \in Held
  BY <1>11 DEF Image, Held
<1>13. \A s \in Servers : s # MAIN => open'[s] = open[s]
  BY <1>1, <1>7
<1>14. \A k \in Keys : open'[MAIN][k] =
         IF k \in changed THEN [row |-> Merged(k), by |-> by, age |-> 0] ELSE open[MAIN][k]
  BY <1>1, <1>7
<1>15. \A k \in changed : open'[MAIN][k].row = Merged(k) /\ open'[MAIN][k].by = by
  <2> SUFFICES ASSUME NEW k \in changed
               PROVE  open'[MAIN][k].row = Merged(k) /\ open'[MAIN][k].by = by
    OBVIOUS
  <2>1. open'[MAIN][k] = [row |-> Merged(k), by |-> by, age |-> 0]
    BY <1>2, <1>14
  <2> QED
    BY <2>1
<1>16. \A k \in Keys : k \notin changed => open'[MAIN][k] = open[MAIN][k]
  BY <1>14
<1>17. open' \in [Servers -> [Keys -> Held]]
  <2>1. [k \in Keys |-> IF k \in changed THEN [row |-> Merged(k), by |-> by, age |-> 0]
                        ELSE open[MAIN][k]] \in [Keys -> Held]
    BY <1>1, <1>12
  <2> QED
    BY <1>1, <1>7, <2>1
<1>18. Stores'
  BY <1>1, <1>10, <1>17 DEF Stores
<1>19. ASSUME NEW s \in Servers, NEW k \in Keys PROVE Moves(s, k)
  <2>1. CASE s = MAIN /\ k \in changed
    <3>1. open[MAIN][k] = NoWrite /\ open'[MAIN][k].row = Merged(k)
      <4>1. open[MAIN][k] = NoWrite
        BY <1>2, <1>7, <2>1
      <4>2. open'[MAIN][k] = [row |-> Merged(k), by |-> by, age |-> 0]
        BY <1>14, <2>1
      <4> QED
        BY <4>1, <4>2
    <3>2. row'[MAIN][k] = row[MAIN][k]
      OBVIOUS
    <3> QED
      BY <1>11, <2>1, <3>1, <3>2 DEF Moves
  <2>2. CASE ~(s = MAIN /\ k \in changed)
    BY <1>13, <1>14, <2>2, AtRest
  <2> QED
    BY <2>1, <2>2
<1>20. ASSUME NEW s \in Servers PROVE Apart(s)
  <2>1. CASE s # MAIN
    BY <1>13, <2>1, NoneNew
  <2>2. CASE s = MAIN
    <3> SUFFICES ASSUME NEW j \in Keys, NEW k \in Keys
                 PROVE  /\ row[MAIN][j].seq = row[MAIN][k].seq /\ row[MAIN][j].seq > seq[MAIN] => j = k
                        /\ open'[MAIN][j].row.seq = open'[MAIN][k].row.seq /\ open'[MAIN][j].row.seq > seq[MAIN] => j = k
                        /\ row[MAIN][j].seq = open'[MAIN][k].row.seq => ~(row[MAIN][j].seq > seq[MAIN])
      BY <2>2 DEF Apart
    <3>1. ~(row[MAIN][j].seq > seq[MAIN])
      BY <1>1
    <3>2. ASSUME open'[MAIN][j].row.seq = open'[MAIN][k].row.seq, open'[MAIN][j].row.seq > seq[MAIN] PROVE j = k
      <4>1. j \in changed /\ k \in changed
        BY <1>1, <1>16, <3>2
      <4>2. Merged(j).seq = Merged(k).seq
        BY <1>15, <3>2, <4>1
      <4>3. seq[MAIN] + Nth(j) = seq[MAIN] + Nth(k)
        BY <1>11, <4>1, <4>2
      <4>5. Nth(j) \in Nat /\ Nth(k) \in Nat
        BY <1>4, <4>1
      <4>6. seq[MAIN] \in Nat
        BY <1>1
      <4>4. Nth(j) = Nth(k)
        BY <4>3, <4>5, <4>6
      <4> QED
        BY <1>6, <4>1, <4>4
    <3> QED
      BY <3>1, <3>2
  <2> QED
    BY <2>1, <2>2
<1>21. ASSUME NEW k \in Keys, NEW s \in Servers, NEW image
       PROVE  Comes(k, row'[s][k], image) /\ Comes(k, open'[s][k].row, image)
  <2>1. CASE s = MAIN /\ k \in changed
    <3>1. open'[MAIN][k].row = Merged(k) /\ Carried(k, Merged(k)) /\ Carried(k, row[MAIN][k])
      BY <1>11, <1>15, <2>1, AreCopies
    <3> QED
      BY <2>1, <3>1 DEF Comes
  <2>2. CASE ~(s = MAIN /\ k \in changed)
    <3>1. open'[s][k] = open[s][k] /\ Carried(k, open[s][k].row) /\ Carried(k, row[s][k])
      BY <1>13, <1>16, <2>2, AreCopies
    <3> QED
      BY <3>1 DEF Comes
  <2> QED
    BY <2>1, <2>2
<1>22. \A k \in DOMAIN rows : \/ Covers(row[MAIN][k], rows[k])
                              \/ open'[MAIN][k].by = by /\ Covers(open'[MAIN][k].row, rows[k])
  BY <1>8, <1>11, <1>15
<1>23. \A k \in Keys : open[MAIN][k] # NoWrite => open'[MAIN][k] = open[MAIN][k]
  BY <1>2, <1>7, <1>14
<1> QED
  BY <1>10, <1>18, <1>19, <1>20, <1>21, <1>22, <1>23 DEF StoresMove

\* and its transaction has just begun.
LEMMA MergeBrief ==
  ASSUME Base, NEW rows, NEW by, BeginMerge(rows, by)
  PROVE  Brief'
<1>1. open \in [Servers -> [Keys -> Held]] /\ MAIN \in Servers /\ OpenFor \in Nat \ {0}
  BY ChatSyncConstants DEF Base, Stores, Servers
<1>2. \A s \in Servers, k \in Keys : open'[s][k] = open[s][k] \/ open'[s][k].age = 0
  <2> DEFINE changed == Changed(MAIN, rows)
             Nth(k) == Cardinality({j \in changed : rows[j].seq <= rows[k].seq})
             Merged(k) == [Merge(row[MAIN][k], rows[k]) EXCEPT !.seq = seq[MAIN] + Nth(k)]
  <2>1. open' = [open EXCEPT ![MAIN] = [k \in Keys |->
                   IF k \in changed THEN [row |-> Merged(k), by |-> by, age |-> 0] ELSE open[MAIN][k]]]
    BY DEF BeginMerge
  <2> HIDE DEF changed, Merged
  <2> QED
    BY <1>1, <2>1
<1> QED
  BY <1>1, <1>2 DEF Base, Brief

\* A LOCAL merges what MAIN answered: numbers stay.
LEMMA LocalMergeMoves ==
  ASSUME Base, NEW l \in Locals, MergeAtLocal(l, flight[l]), open' = open, now' = now,
         pc[l] = "reply", pc'[l] \notin Phase("push")
  PROVE  /\ StoresMove
         /\ \A k \in DOMAIN flight[l] : Covers(row'[l][k], flight[l][k])
         /\ row'[MAIN] = row[MAIN]
<1> DEFINE changed == Changed(l, flight[l])
<1>1. /\ l \in Servers /\ l # MAIN /\ MAIN \in Servers /\ row \in [Servers -> [Keys -> Row]] /\ open \in [Servers -> [Keys -> Held]]
      /\ seq \in [Servers -> Nat] /\ now \in Nat
      /\ \A k \in Keys : row[l][k] \in Row /\ row[l][k].seq \in Nat
      /\ \A k \in DOMAIN flight[l] : k \in Keys /\ flight[l][k] \in Row
  BY ChatSyncConstants, Typing DEF Base, Stores, Servers
<1>2. /\ \A k \in DOMAIN flight[l] : open[l][k] = NoWrite
      /\ row' = [row EXCEPT ![l] = [k \in Keys |->
                   IF k \in changed THEN [Merge(row[l][k], flight[l][k]) EXCEPT !.seq = row[l][k].seq]
                   ELSE row[l][k]]]
      /\ seq' = seq
  BY DEF MergeAtLocal, Unsent
<1>3. changed \subseteq DOMAIN flight[l]
  BY DEF Changed
<1>4. \A k \in DOMAIN flight[l] : k \notin changed => Covers(row[l][k], flight[l][k])
  BY DEF Changed, Covers
<1> HIDE DEF changed
<1>5. ASSUME NEW k \in changed
      PROVE  LET m == row'[l][k]
             IN  m \in Row /\ Covers(m, flight[l][k]) /\ Carried(k, m) /\ Takes(l, k)
  <2> DEFINE m == row'[l][k]
  <2>1. m = [Merge(row[l][k], flight[l][k]) EXCEPT !.seq = row[l][k].seq]
    BY <1>1, <1>2, <1>3
  <2>2. row[l][k].seq \in Nat /\ row[l][k] \in Row /\ flight[l][k] \in Row /\ k \in Keys
    BY <1>1, <1>3
  <2> HIDE DEF m
  <2>3. /\ m \in Row /\ m.seq = row[l][k].seq /\ Covers(m, row[l][k]) /\ Covers(m, flight[l][k])
        /\ m.body \in {row[l][k].body, flight[l][k].body} /\ m.at \in {row[l][k].at, flight[l][k].at}
        /\ m.time \in {row[l][k].time, flight[l][k].time}
        /\ \A d \in Row : Covers(d, row[l][k]) /\ Covers(d, flight[l][k]) => Covers(d, m)
    BY <2>1, <2>2, Merging
  <2>4. row[l][k] \in CopiesOf(k) /\ flight[l][k] \in CopiesOf(k)
    BY <1>1, <1>3, <2>2, AreCopies
  <2>5. Carried(k, m)
    BY <2>1, <2>2, <2>4, MergedWhole DEF Carried
  <2>6. ASSUME NEW d \in Servers, Stamped(d) PROVE BeforeNext(m, d)
    <3>1. Before(row[l][k], d) /\ Before(flight[l][k], d)
      BY <2>2, <2>4, <2>6, CopiesStamped
    <3> QED
      BY <2>3, <3>1 DEF Before, BeforeNext
  <2> QED
    BY <1>3, <2>3, <2>5, <2>6 DEF Takes, m
<1>6. \A k \in Keys : k \notin changed => row'[l][k] = row[l][k]
  BY <1>1, <1>2
<1>7. \A s \in Servers : s # l => row'[s] = row[s]
  BY <1>1, <1>2
<1>8. row' \in [Servers -> [Keys -> Row]]
  <2>1. \A k \in Keys : row'[l][k] \in Row
    BY <1>1, <1>5, <1>6
  <2>2. row'[l] = [k \in Keys |-> row'[l][k]]
    BY <1>1, <1>2
  <2> QED
    BY <1>1, <1>2, <1>7, <2>1, <2>2
<1>9. Stores'
  BY <1>1, <1>2, <1>8 DEF Stores
<1>10. ASSUME NEW s \in Servers, NEW k \in Keys PROVE Moves(s, k)
  <2>1. CASE s = l /\ k \in changed
    BY <1>2, <1>3, <1>5, <2>1 DEF Moves
  <2>2. CASE ~(s = l /\ k \in changed)
    BY <1>6, <1>7, <2>2, AtRest
  <2> QED
    BY <2>1, <2>2
<1>11. ASSUME NEW s \in Servers PROVE seq'[s] >= seq[s] /\ Apart(s)
  <2>1. \A k \in Keys : row'[s][k].seq = row[s][k].seq
    BY <1>5, <1>6, <1>7 DEF Takes
  <2> QED
    BY <1>2, <2>1, NoneNew, Typing
<1>12. ASSUME NEW k \in Keys, NEW s \in Servers, NEW image
       PROVE  Comes(k, row'[s][k], image) /\ Comes(k, open'[s][k].row, image)
  BY <1>5, <1>6, <1>7, AreCopies DEF Comes
<1>13. \A k \in DOMAIN flight[l] : Covers(row'[l][k], flight[l][k])
  BY <1>1, <1>4, <1>5, <1>6
<1> QED
  BY <1>1, <1>7, <1>9, <1>10, <1>11, <1>12, <1>13 DEF StoresMove

\* The pages under way and the late ones are made of rows there were.
Flow ==
  /\ \A l \in Locals : \A k \in DOMAIN flight'[l] : k \in Keys /\ flight'[l][k] \in CopiesOf(k)
  /\ \A rows \in limbo' : \A k \in DOMAIN rows : k \in Keys /\ rows[k] \in CopiesOf(k)

\* Rows never lose what they have.
Grows(d) == \A k \in Keys : Covers(row'[d][k], row[d][k])

\* A new number stands for something new.
Newly(d) == \A k \in Keys : row'[d][k].seq > row[d][k].seq => ~Same(row'[d][k], row[d][k])

\* The numbers after such a step.
LEMMA MovedNumbers ==
  ASSUME Base, StoresMove
  PROVE  Numbered'
<1> SUFFICES ASSUME NEW s \in Servers
             PROVE  /\ \A k \in Keys : /\ row'[s][k].seq <= seq'[s] /\ open'[s][k].row.seq <= seq'[s]
                                       /\ open'[s][k] # NoWrite => open'[s][k].row.seq # 0
                    /\ \A j, k \in Keys :
                         /\ row'[s][j].seq = row'[s][k].seq /\ row'[s][j].seq # 0 => j = k
                         /\ open'[s][j].row.seq = open'[s][k].row.seq /\ open'[s][j].row.seq # 0 => j = k
                         /\ row'[s][j].seq = open'[s][k].row.seq => row'[s][j].seq = 0
  BY DEF Numbered
<1>1. /\ seq[s] \in Nat /\ seq'[s] \in Nat /\ seq'[s] >= seq[s] /\ Apart(s)
      /\ \A k \in Keys : row[s][k].seq \in Nat /\ open[s][k].row.seq \in Nat
      /\ \A k \in Keys : row'[s][k].seq \in Nat /\ open'[s][k].row.seq \in Nat
  <2>1. /\ seq[s] \in Nat /\ \A k \in Keys : row[s][k].seq \in Nat /\ open[s][k].row.seq \in Nat
    BY Typing
  <2>2. seq'[s] \in Nat /\ seq'[s] >= seq[s] /\ Apart(s)
    BY DEF StoresMove, Stores
  <2>3. \A k \in Keys : row'[s][k] \in Row /\ open'[s][k] \in Held
    BY DEF StoresMove, Stores
  <2>4. \A k \in Keys : row'[s][k].seq \in Nat /\ open'[s][k].row.seq \in Nat
    BY <2>3 DEF Row, Held
  <2> QED
    BY <2>1, <2>2, <2>4
<1>2. /\ \A k \in Keys : /\ row[s][k].seq <= seq[s] /\ open[s][k].row.seq <= seq[s]
                         /\ open[s][k] # NoWrite => open[s][k].row.seq # 0
      /\ \A j, k \in Keys : /\ row[s][j].seq = row[s][k].seq /\ row[s][j].seq # 0 => j = k
                            /\ open[s][j].row.seq = open[s][k].row.seq /\ open[s][j].row.seq # 0 => j = k
                            /\ row[s][j].seq = open[s][k].row.seq => row[s][j].seq = 0
  BY DEF Base, Numbered
\* Each number is one there was, or new.
<1>3. ASSUME NEW k \in Keys
      PROVE  /\ row'[s][k].seq <= seq'[s] /\ open'[s][k].row.seq <= seq'[s]
             /\ open'[s][k] # NoWrite => open'[s][k].row.seq # 0
             /\ \/ row'[s][k].seq = row[s][k].seq /\ open'[s][k].row.seq \in {open[s][k].row.seq, 0}
                \/ row'[s][k].seq = open[s][k].row.seq /\ open'[s][k].row.seq = 0
                \/ row'[s][k].seq > seq[s] /\ open'[s][k].row.seq = 0
                \/ row'[s][k].seq = row[s][k].seq /\ open'[s][k].row.seq > seq[s]
  <2>1. Moves(s, k) /\ NoWrite.row.seq = 0
    BY NoRowsYet DEF StoresMove
  <2>2. CASE Rests(s, k)
    BY <1>1, <1>2, <2>2 DEF Rests
  <2>3. CASE open[s][k] = NoWrite /\ open'[s][k] = NoWrite /\ Image(s, k, row'[s][k])
    BY <1>1, <1>2, <2>1, <2>3 DEF Image
  <2>4. CASE open[s][k] = NoWrite /\ row'[s][k] = row[s][k] /\ Image(s, k, open'[s][k].row)
    BY <1>1, <1>2, <2>1, <2>4 DEF Image
  <2>5. CASE open[s][k] # NoWrite /\ open'[s][k] = NoWrite /\ row'[s][k] \in {row[s][k], open[s][k].row}
    BY <1>1, <1>2, <2>1, <2>5
  <2>6. CASE open[s][k] = NoWrite /\ open'[s][k] = NoWrite /\ Takes(s, k)
    BY <1>1, <1>2, <2>1, <2>6 DEF Takes
  <2> QED
    BY <2>1, <2>2, <2>3, <2>4, <2>5, <2>6 DEF Moves
<1>4. ASSUME NEW j \in Keys, NEW k \in Keys, row'[s][j].seq = row'[s][k].seq, row'[s][j].seq # 0
      PROVE  j = k
  <2>1. CASE row'[s][j].seq > seq[s]
    BY <1>1, <1>4, <2>1 DEF Apart
  <2>2. CASE ~(row'[s][j].seq > seq[s])
    <3>1. /\ row'[s][j].seq \in {row[s][j].seq, open[s][j].row.seq}
          /\ row'[s][k].seq \in {row[s][k].seq, open[s][k].row.seq}
      BY <1>1, <1>2, <1>3, <1>4, <2>2
    <3> QED
      BY <1>2, <1>4, <3>1
  <2> QED
    BY <2>1, <2>2
<1>5. ASSUME NEW j \in Keys, NEW k \in Keys, open'[s][j].row.seq = open'[s][k].row.seq, open'[s][j].row.seq # 0
      PROVE  j = k
  <2>1. CASE open'[s][j].row.seq > seq[s]
    BY <1>1, <1>5, <2>1 DEF Apart
  <2>2. CASE ~(open'[s][j].row.seq > seq[s])
    <3>1. open'[s][j].row.seq = open[s][j].row.seq /\ open'[s][k].row.seq = open[s][k].row.seq
      BY <1>1, <1>2, <1>3, <1>5, <2>2
    <3> QED
      BY <1>2, <1>5, <3>1
  <2> QED
    BY <2>1, <2>2
<1>6. ASSUME NEW j \in Keys, NEW k \in Keys, row'[s][j].seq = open'[s][k].row.seq, row'[s][j].seq # 0
      PROVE  FALSE
  <2>1. ~(row'[s][j].seq > seq[s])
    BY <1>1, <1>6 DEF Apart
  <2>2. /\ row'[s][j].seq \in {row[s][j].seq, open[s][j].row.seq}
        /\ open'[s][k].row.seq = open[s][k].row.seq /\ row'[s][k].seq = row[s][k].seq
    BY <1>1, <1>2, <1>3, <1>6, <2>1
  <2>3. row'[s][j].seq = open[s][j].row.seq
    BY <1>2, <1>6, <2>2
  <2>4. j = k
    BY <1>2, <1>6, <2>2, <2>3
  <2>5. row'[s][k].seq = row[s][k].seq /\ row'[s][k].seq = open[s][k].row.seq
    BY <2>2, <2>3, <2>4
  <2> QED
    BY <1>2, <1>6, <2>4, <2>5
<1> QED
  BY <1>3, <1>4, <1>5, <1>6

\* A row that moves keeps what it had where no clock is ahead.
LEMMA MovedRows ==
  ASSUME Base, StoresMove, NEW d \in Servers, Latest(d), Stamped(d)
  PROVE  Grows(d) /\ Newly(d)
<1> SUFFICES ASSUME NEW k \in Keys
             PROVE  /\ Covers(row'[d][k], row[d][k])
                    /\ row'[d][k].seq > row[d][k].seq => ~Same(row'[d][k], row[d][k])
  BY DEF Grows, Newly
<1>1. Moves(d, k)
  BY DEF StoresMove
<1>2. Covers(row[d][k], row[d][k]) /\ row[d][k].seq \in Nat /\ ~(row[d][k].seq > row[d][k].seq)
  BY Typing, CoversOrder
<1>3. CASE row'[d][k] = row[d][k]
  BY <1>2, <1>3
<1>4. CASE Image(d, k, row'[d][k])
  BY <1>4 DEF Image, Renews
<1>5. CASE open[d][k] # NoWrite /\ row'[d][k] = open[d][k].row
  BY <1>5 DEF Stamped, Renews
<1>6. CASE Takes(d, k)
  BY <1>2, <1>6 DEF Takes
<1> QED
  BY <1>1, <1>3, <1>4, <1>5, <1>6 DEF Moves, Rests

\* What every copy was stamped by now stays stamped by now.
LEMMA MovedStamps ==
  ASSUME Base, StoresMove, Flow, NEW d \in Servers, Latest(d), Stamped(d)
  PROVE  Stamped(d)'
<1>1. ASSUME NEW k \in Keys, NEW r \in CopiesOf(k) PROVE BeforeNext(r, d)
  BY CopiesStamped, CopiesAreRows, StillBefore DEF StoresMove
<1>2. ASSUME NEW s \in Servers, NEW k \in Keys
      PROVE  BeforeNext(row'[s][k], d) /\ BeforeNext(open'[s][k].row, d)
  <2>1. Moves(s, k)
    BY DEF StoresMove
  <2>2. BeforeNext(row[s][k], d) /\ BeforeNext(open[s][k].row, d) /\ BeforeNext(NoRow, d)
    BY <1>1, AreCopies
  <2> QED
    BY <1>2, <2>1, <2>2, NoRowsYet DEF Moves, Rests, Image, Takes
<1>3. /\ \A l \in Locals : \A k \in DOMAIN flight'[l] : BeforeNext(flight'[l][k], d)
      /\ \A rows \in limbo' : \A k \in DOMAIN rows : BeforeNext(rows[k], d)
  BY <1>1 DEF Flow
<1>4. ASSUME NEW k \in Keys, open'[d][k] # NoWrite PROVE Renews(open'[d][k].row, row'[d][k])
  <2>1. Moves(d, k)
    BY DEF StoresMove
  <2>2. CASE Rests(d, k)
    BY <1>4, <2>2 DEF Rests, Stamped
  <2>3. CASE row'[d][k] = row[d][k] /\ Image(d, k, open'[d][k].row)
    BY <2>3 DEF Image
  <2> QED
    BY <1>4, <2>1, <2>2, <2>3 DEF Moves
<1>5. /\ \A s \in Servers, k \in Keys : Before(row[s][k], d)' /\ Before(open[s][k].row, d)'
      /\ \A l \in Locals : \A k \in DOMAIN flight'[l] : Before(flight[l][k], d)'
      /\ \A rows \in limbo' : \A k \in DOMAIN rows :
           rows[k].body <= now' /\ rows[k].at <= now' + Ahead[d] /\ rows[k].time <= now' + Ahead[d]
  BY <1>2, <1>3 DEF Before, BeforeNext
<1>6. \A k \in Keys : open'[d][k] # NoWrite => Renews(open'[d][k].row, row'[d][k])
  BY <1>4
<1> QED
  BY <1>5, <1>6 DEF Stamped, Before

\* A step carries every copy, or a user gives the row one new stamp.
LEMMA CopiesNext ==
  ASSUME Base, StoresMove, Flow, NEW k \in Keys
  PROVE  \E image : \A m \in CopiesOf(k)' : Comes(k, m, image)
<1>1. PICK image : \A s \in Servers : Comes(k, row'[s][k], image) /\ Comes(k, open'[s][k].row, image)
  BY DEF StoresMove
<1>2. ASSUME NEW m \in CopiesOf(k) PROVE Comes(k, m, image)
  BY AreCopies DEF Comes
<1>3. Comes(k, NoRow, image)
  BY <1>2, AreCopies
<1>4. ASSUME NEW l \in Locals, k \in DOMAIN flight'[l] PROVE Comes(k, flight'[l][k], image)
  BY <1>2, <1>4 DEF Flow
<1>5. ASSUME NEW rows \in limbo', k \in DOMAIN rows PROVE Comes(k, rows[k], image)
  BY <1>2, <1>5 DEF Flow
<1>6. \A m \in CopiesOf(k)' : Comes(k, m, image)
  BY <1>1, <1>3, <1>4, <1>5 DEF CopiesOf
<1> QED
  BY <1>6

-----------------------------------------------------------------------------
(* What a step may do to a cursor, and why its line holds.                 *)

\* A position of a cursor that comes to no new one.
Remains(p, q) ==
  /\ p.seq = q.seq /\ p.age = q.age
  /\ p.read = q.read \/ (q.read = "begun" /\ p.read = "no")

\* The cursor comes to nothing new, though its phase may break off,
Stays(l, c) ==
  /\ cursor'[l][c].safe = cursor[l][c].safe
  /\ \A i \in DOMAIN cursor'[l][c].history : \E j \in DOMAIN cursor[l][c].history :
       Remains(cursor'[l][c].history[i], cursor[l][c].history[j])
  /\ pc'[l] \in Phase(c) => pc[l] \in Phase(c) /\ cur'[l] = cur[l]
  /\ pc'[l] \in Waiting(c) => pc[l] \in Waiting(c) /\ flight'[l] = flight[l] /\ more'[l] = more[l]

\* its phase begins,
Begins(l, c) ==
  /\ Since(l, c) /\ pc[l] \notin Phase(c) /\ pc'[l] = c
  /\ row' = row /\ open' = open /\ seq' = seq

\* reads a page,
TakesPage(l, c) ==
  LET s == Source(l, c)
  IN  /\ pc[l] = c /\ Page(s, cur[l]) # NoRows /\ pc'[l] \in Waiting(c)
      /\ flight'[l] = Page(s, cur[l]) /\ more'[l] = IsFull(s, cur[l])
      /\ cursor' = cursor /\ cur' = cur
      /\ row' = row /\ open' = open /\ seq' = seq

\* finds nothing more,
Finishes(l, c) ==
  /\ pc[l] = c /\ Page(Source(l, c), cur[l]) = NoRows /\ pc'[l] \notin Phase(c)
  /\ Finish(l, c)
  /\ row' = row /\ open' = open /\ seq' = seq

\* or has taken its page.
Advances(l, c) ==
  LET s == Source(l, c)
  IN  /\ pc[l] = (IF c = "push" THEN "merged" ELSE "reply")
      /\ Advance(l, c, flight[l], more[l])
      /\ IF more[l] THEN pc'[l] = c ELSE pc'[l] \notin Phase(c)
      /\ row'[s] = row[s] /\ open'[s] = open[s] /\ seq'[s] = seq[s]
      /\ c = "pull" => \A k \in DOMAIN flight[l] : Covers(row'[l][k], flight[l][k])

\* A cursor has two sides.
LEMMA Sides ==
  ASSUME NEW l \in Locals, NEW c \in Ways
  PROVE  /\ Source(l, c) \in Servers /\ Target(l, c) \in Servers /\ Source(l, c) # Target(l, c)
         /\ c = "push" => Source(l, c) = l /\ Target(l, c) = MAIN /\ Waiting(c) = {"sent", "merging", "merged"}
         /\ c = "pull" => Source(l, c) = MAIN /\ Target(l, c) = l /\ Waiting(c) = {"reply"}
         /\ c = "push" \/ c = "pull"
         /\ Waiting(c) \subseteq Phase(c) /\ c \in Phase(c) /\ c \notin Waiting(c)
         /\ Source(l, c)' = Source(l, c) /\ Target(l, c)' = Target(l, c)
BY ChatSyncConstants DEF Source, Target, Ways, Servers, Waiting, Phase

\* The positions of a cursor.
LEMMA Remembering ==
  ASSUME Base, NEW l \in Locals, NEW c \in Ways
  PROVE  /\ cursor[l][c].history \in Seq(Position)
         /\ \A i \in DOMAIN cursor[l][c].history :
              LET p == cursor[l][c].history[i]
              IN  p \in Position /\ p.seq \in Nat /\ p.age \in Nat /\ p.read \in {"no", "begun", "done"}
<1>1. cursor[l][c].history \in Seq(Position)
  BY Typing
<1>2. \A i \in DOMAIN cursor[l][c].history : cursor[l][c].history[i] \in Position
  BY <1>1
<1> QED
  BY <1>1, <1>2 DEF Position

\* Of a row that the other side does not know after a step that gives the
\* cursor no new position: it was so before, or its number was not committed.
LEMMA UnknownBefore ==
  ASSUME Base, StoresMove, NEW l \in Locals, NEW c \in Ways, Grows(Target(l, c)),
         c = "push" => Answers(l), NEW k \in Keys,
         row'[Source(l, c)][k].seq # 0, ~Known(l, c, k)'
  PROVE  LET s == Source(l, c) IN
         \/ row'[s][k] = row[s][k] /\ ~Known(l, c, k)
         \/ row'[s][k].seq > seq[s]
         \/ open[s][k] # NoWrite /\ row'[s][k] = open[s][k].row
         \/ /\ row'[s][k].seq = row[s][k].seq /\ ~Known(l, c, k)
            /\ c = "push" /\ pc'[l] \notin Phase(c)
<1> DEFINE s == Source(l, c)
           d == Target(l, c)
<1>1. /\ s \in Servers /\ d \in Servers /\ Moves(s, k)
      /\ Known(l, c, k)' <=> Covers(row'[d][k], row'[s][k])
  BY Sides DEF StoresMove, Known
<1>2. /\ row[s][k] \in Row /\ row[d][k] \in Row /\ row'[s][k] \in Row /\ row'[d][k] \in Row
      /\ Covers(row'[d][k], row[d][k])
  BY <1>1, Typing DEF StoresMove, Stores, Grows
<1>3. CASE row'[s][k] = row[s][k]
  <2>1. ~Covers(row[d][k], row[s][k])
    BY <1>1, <1>2, <1>3, CoversOrder
  <2> QED
    BY <1>3, <2>1 DEF Known
<1>4. CASE Image(s, k, row'[s][k])
  BY <1>4 DEF Image
<1>5. CASE open[s][k] # NoWrite /\ row'[s][k] = open[s][k].row
  BY <1>5
<1>6. CASE Takes(s, k)
  <2>1. /\ c = "push" /\ s = l /\ d = MAIN /\ pc[l] = "reply" /\ k \in DOMAIN flight[l] /\ pc'[l] \notin Phase(c)
        /\ row'[s][k].seq = row[s][k].seq
    BY <1>6, ChatSyncConstants, Sides DEF Takes
  <2>2. Covers(row[d][k], flight[l][k]) /\ flight[l][k] \in Row
    BY <2>1, Typing DEF Answers, Has
  <2>3. ASSUME Covers(row[d][k], row[s][k]) PROVE FALSE
    <3>1. Covers(row[d][k], row'[s][k])
      BY <1>2, <1>6, <2>1, <2>2, <2>3 DEF Takes
    <3> QED
      BY <1>1, <1>2, <3>1, CoversOrder
  <2> QED
    BY <2>1, <2>3 DEF Known
<1> QED
  BY <1>1, <1>3, <1>4, <1>5, <1>6 DEF Moves, Rests

\* What a cursor stands for outlives every step that gives it no new position
\* and takes nothing from the side that knows.
LEMMA LineStays ==
  ASSUME Base, Base', StoresMove, NEW l \in Locals, NEW c \in Ways, Line(l, c), Stays(l, c),
         Grows(Target(l, c)), c = "push" => Answers(l)
  PROVE  Line(l, c)'
<1> DEFINE s == Source(l, c)
           h == cursor[l][c].history
           g == cursor'[l][c].history
<1>1. /\ s \in Servers /\ s' = s /\ seq[s] \in Nat /\ seq'[s] \in Nat /\ seq'[s] >= seq[s]
      /\ cursor'[l][c].safe = cursor[l][c].safe /\ cursor[l][c].safe \in Nat
      /\ \A k \in Keys : row'[s][k].seq \in Nat /\ open[s][k].age \in Nat /\ open[s][k].row.seq \in Nat
  <2>1. s \in Servers /\ s' = s
    BY Sides
  <2>2. row' \in [Servers -> [Keys -> Row]] /\ seq' \in [Servers -> Nat]
    BY DEF StoresMove, Stores
  <2>3. \A k \in Keys : row'[s][k].seq \in Nat
    BY <2>1, <2>2 DEF Row
  <2> QED
    BY <2>1, <2>2, <2>3, Typing DEF StoresMove, Stays
<1>2. \A i \in DOMAIN g : \E j \in DOMAIN h : Remains(g[i], h[j])
  BY DEF Stays
<1>3. \A j \in DOMAIN h : h[j].seq \in Nat /\ h[j].age \in Nat /\ h[j].read \in {"no", "begun", "done"} /\ h[j].seq <= seq[s]
  BY Remembering DEF Line, Positions
<1> HIDE DEF s
<1>4. Positions(l, c)'
  <2>1. \A i \in DOMAIN g : g[i].seq <= seq'[s]
    BY <1>1, <1>2, <1>3 DEF Remains
  <2>2. /\ cursor[l][c].safe <= seq[s] /\ (pc[l] \in Phase(c) => cur[l] <= seq[s])
        /\ pc[l] \in Waiting(c) => LastSeq(flight[l]) <= seq[s]
    BY DEF Line, Positions, s
  <2>3. pc'[l] \in Phase(c) => cur'[l] <= seq'[s]
    BY <1>1, <2>2, Typing DEF Stays
  <2>4. pc'[l] \in Waiting(c) => LastSeq(flight'[l]) <= seq'[s]
    <3>1. pc[l] \in Waiting(c) => LastSeq(flight[l]) \in Nat
      BY PageNumbers, Sides DEF Base, Loops
    <3> QED
      BY <1>1, <2>2, <3>1 DEF Stays
  <2> QED
    BY <1>1, <2>1, <2>2, <2>3, <2>4 DEF Positions, LastSeq, s, Phase, Waiting
<1>5. Marks(l, c)'
  <2> SUFFICES ASSUME NEW i \in DOMAIN g
               PROVE  /\ g[i].read # "no" => g[i].age >= OpenFor
                      /\ Prompt /\ g[i].age >= Overlap => g[i].read = "done"
    BY DEF Marks
  <2>1. PICK j \in DOMAIN h : Remains(g[i], h[j])
    BY <1>2
  <2>2. /\ h[j].read # "no" => h[j].age >= OpenFor
        /\ Prompt /\ h[j].age >= Overlap => h[j].read = "done"
    BY DEF Line, Marks
  <2> QED
    BY <2>1, <2>2 DEF Remains
<1>6. Pending(l, c)'
  <2> SUFFICES ASSUME NEW k \in Keys, open'[s][k] # NoWrite
               PROVE  /\ cursor[l][c].safe < open'[s][k].row.seq
                      /\ \A i \in DOMAIN g : open'[s][k].row.seq <= g[i].seq => g[i].age <= open'[s][k].age
    BY <1>1 DEF Pending, s
  <2>1. Moves(s, k)
    BY <1>1 DEF StoresMove
  <2>2. CASE Rests(s, k)
    <3>1. /\ cursor[l][c].safe < open[s][k].row.seq
          /\ \A j \in DOMAIN h : open[s][k].row.seq <= h[j].seq => h[j].age <= open[s][k].age
      BY <2>2 DEF Line, Pending, Rests, s
    <3>2. open'[s][k].row = open[s][k].row /\ open'[s][k].age >= open[s][k].age /\ open'[s][k].age \in Nat
      BY <1>1, <2>2 DEF Rests, StoresMove, Stores, Held
    <3> QED
      BY <1>1, <1>2, <1>3, <3>1, <3>2 DEF Remains
  <2>3. CASE Image(s, k, open'[s][k].row)
    <3>1. open'[s][k].row.seq > seq[s] /\ open'[s][k].row.seq \in Nat /\ cursor[l][c].safe <= seq[s]
      BY <2>3 DEF Image, Row, Line, Positions, s
    <3> QED
      BY <1>1, <1>2, <1>3, <3>1 DEF Remains
  <2> QED
    BY <2>1, <2>2, <2>3 DEF Moves
<1>7. Unknown(l, c)'
  <2> SUFFICES ASSUME NEW k \in Keys, row'[s][k].seq # 0, ~Known(l, c, k)'
               PROVE  /\ cursor[l][c].safe < row'[s][k].seq
                      /\ \A i \in DOMAIN g : row'[s][k].seq <= g[i].seq =>
                           g[i].read # "done" /\ (Missed(l, c, k)' => g[i].read = "no")
    BY <1>1 DEF Unknown, s
  <2>1. CASE row'[s][k] = row[s][k] /\ ~Known(l, c, k)
    <3>1. /\ cursor[l][c].safe < row[s][k].seq
          /\ \A j \in DOMAIN h : row[s][k].seq <= h[j].seq =>
               h[j].read # "done" /\ (Missed(l, c, k) => h[j].read = "no")
      BY <2>1 DEF Line, Unknown, s
    <3>2. ASSUME Missed(l, c, k)' PROVE Missed(l, c, k)
      <4>1. /\ pc'[l] \in Phase(c)
            /\ \/ row'[s][k].seq <= cur'[l]
               \/ /\ pc'[l] \in Waiting(c)
                  /\ ~(k \in DOMAIN flight'[l] /\ row'[s][k] = flight'[l][k])
                  /\ row'[s][k].seq <= LastSeq(flight'[l]) \/ ~more'[l]
        BY <1>1, <3>2 DEF Missed, LastSeq, Phase, Waiting, s
      <4>2. pc[l] \in Phase(c) /\ cur'[l] = cur[l]
        BY <4>1 DEF Stays
      <4>3. pc'[l] \in Waiting(c) => pc[l] \in Waiting(c) /\ flight'[l] = flight[l] /\ more'[l] = more[l]
        BY DEF Stays
      <4> QED
        BY <2>1, <4>1, <4>2, <4>3 DEF Missed, s
    <3> QED
      BY <1>2, <2>1, <3>1, <3>2 DEF Remains
  <2>2. CASE row'[s][k].seq > seq[s]
    <3>1. cursor[l][c].safe <= seq[s]
      BY DEF Line, Positions, s
    <3> QED
      BY <1>1, <1>2, <1>3, <2>2, <3>1 DEF Remains
  <2>3. CASE open[s][k] # NoWrite /\ row'[s][k] = open[s][k].row
    <3>1. /\ cursor[l][c].safe < open[s][k].row.seq
          /\ \A j \in DOMAIN h : open[s][k].row.seq <= h[j].seq => h[j].age <= open[s][k].age
      BY <2>3 DEF Line, Pending, s
    <3>2. OpenFor \in Nat /\ open[s][k].age < OpenFor
      BY <1>1, ChatSyncConstants DEF Base, Brief
    <3>3. \A j \in DOMAIN h : open[s][k].row.seq <= h[j].seq => h[j].read = "no"
      BY <1>1, <1>3, <3>1, <3>2 DEF Line, Marks
    <3> QED
      BY <1>2, <2>3, <3>1, <3>3 DEF Remains
  <2>4. CASE /\ row'[s][k].seq = row[s][k].seq /\ ~Known(l, c, k)
             /\ pc'[l] \notin Phase(c)
    <3>1. /\ cursor[l][c].safe < row[s][k].seq
          /\ \A j \in DOMAIN h : row[s][k].seq <= h[j].seq => h[j].read # "done"
      BY <2>4 DEF Line, Unknown, s
    <3>2. ~Missed(l, c, k)'
      BY <2>4 DEF Missed, Phase, Waiting
    <3> QED
      BY <1>2, <2>4, <3>1, <3>2 DEF Remains
  <2> QED
    BY <2>1, <2>2, <2>3, <2>4, UnknownBefore DEF s
<1> QED
  BY <1>4, <1>5, <1>6, <1>7 DEF Line

\* What a phase starts from.
LEMMA SinceMeans ==
  ASSUME Base, NEW l \in Locals, NEW c \in Ways, Since(l, c)
  PROVE  LET h == cursor[l][c].history
             g == cursor'[l][c].history
         IN  /\ cur' = [cur EXCEPT ![l] = cursor'[l][c].safe]
             /\ \A j \in Locals, w \in Ways : j # l \/ w # c => cursor'[j][w] = cursor[j][w]
             /\ cursor' \in [Locals -> [Ways -> [safe : Nat, history : Seq(Position)]]]
             /\ cursor'[l][c].safe \in Nat
             /\ \/ cursor'[l][c].safe = cursor[l][c].safe
                \/ \E n \in DOMAIN h : cursor'[l][c].safe = h[n].seq /\ h[n].age >= Overlap
             /\ \A i \in DOMAIN g : \E j \in DOMAIN h : g[i] = Begun(h[j])
<1> DEFINE h == cursor[l][c].history
           first(n) == IF n = 0 THEN cursor[l][c].safe ELSE h[n].seq
           rest(n) == [i \in 1..(Len(h) - n) |-> Begun(h[n + i])]
<1>1. PICK n \in 0..Len(h) :
        /\ \A i \in 1..n : Aged(h[i])
        /\ cursor' = [cursor EXCEPT ![l][c] = [safe |-> first(n), history |-> rest(n)]]
        /\ cur' = [cur EXCEPT ![l] = first(n)]
  BY DEF Since
<1>2. /\ cursor \in [Locals -> [Ways -> [safe : Nat, history : Seq(Position)]]]
      /\ h \in Seq(Position) /\ Len(h) \in Nat /\ DOMAIN h = 1..Len(h)
      /\ \A i \in 1..Len(h) : h[i] \in Position /\ h[i].seq \in Nat /\ h[i].age \in Nat
  BY Remembering DEF Base, Loops
<1>3. \A p \in Position : Begun(p) \in Position
  BY DEF Begun, Position
<1>4. first(n) \in Nat
  BY <1>1, <1>2, Typing
<1>5. rest(n) \in Seq(Position) /\ DOMAIN rest(n) = 1..(Len(h) - n)
  <2>1. Len(h) - n \in Nat
    BY <1>1, <1>2
  <2>2. \A i \in 1..(Len(h) - n) : n + i \in 1..Len(h)
    BY <1>1, <1>2
  <2>3. \A i \in 1..(Len(h) - n) : Begun(h[n + i]) \in Position
    BY <1>2, <1>3, <2>2
  <2> QED
    BY <2>1, <2>3
<1>6. \A i \in 1..(Len(h) - n) : rest(n)[i] = Begun(h[n + i]) /\ n + i \in DOMAIN h
  BY <1>1, <1>2
<1>7. first(n) = cursor[l][c].safe \/ (n \in DOMAIN h /\ first(n) = h[n].seq /\ h[n].age >= Overlap)
  BY <1>1, <1>2 DEF Aged
<1> HIDE DEF first, rest, h
<1>8. /\ cursor'[l][c].safe = first(n) /\ cursor'[l][c].history = rest(n)
      /\ \A j \in Locals, w \in Ways : j # l \/ w # c => cursor'[j][w] = cursor[j][w]
      /\ cursor' \in [Locals -> [Ways -> [safe : Nat, history : Seq(Position)]]]
  <2>1. [safe |-> first(n), history |-> rest(n)] \in [safe : Nat, history : Seq(Position)]
    BY <1>4, <1>5
  <2>2. cursor'[l][c] = [safe |-> first(n), history |-> rest(n)]
    BY <1>1, <1>2
  <2>3. \A j \in Locals, w \in Ways : j # l \/ w # c => cursor'[j][w] = cursor[j][w]
    BY <1>1, <1>2
  <2>4. cursor' \in [Locals -> [Ways -> [safe : Nat, history : Seq(Position)]]]
    BY <1>1, <1>2, <2>1
  <2> QED
    BY <2>2, <2>3, <2>4
<1>9. \A i \in DOMAIN rest(n) : \E j \in DOMAIN h : rest(n)[i] = Begun(h[j])
  BY <1>5, <1>6
<1>10. \/ first(n) = cursor[l][c].safe
       \/ \E m \in DOMAIN h : first(n) = h[m].seq /\ h[m].age >= Overlap
  BY <1>7
<1> QED
  BY <1>1, <1>4, <1>8, <1>9, <1>10 DEF h

\* A phase begins: a position that is dropped has been read up to, and no
\* transaction is as old.
LEMMA LineBegins ==
  ASSUME Base, Prompt, NEW l \in Locals, NEW c \in Ways, Line(l, c), Begins(l, c)
  PROVE  Line(l, c)'
<1> DEFINE s == Source(l, c)
           h == cursor[l][c].history
           g == cursor'[l][c].history
           safe == cursor'[l][c].safe
<1>1. /\ s \in Servers /\ s' = s /\ seq[s] \in Nat
      /\ \A k \in Keys : row[s][k].seq \in Nat /\ open[s][k].age \in Nat /\ open[s][k].row.seq \in Nat
      /\ row' = row /\ open' = open /\ seq' = seq /\ pc'[l] = c /\ c \in Phase(c) /\ c \notin Waiting(c)
  BY Sides, Typing DEF Begins
<1>2. /\ cur'[l] = safe /\ safe \in Nat
      /\ \/ safe = cursor[l][c].safe
         \/ \E n \in DOMAIN h : safe = h[n].seq /\ h[n].age >= Overlap
      /\ \A i \in DOMAIN g : \E j \in DOMAIN h : g[i] = Begun(h[j])
  <2>1. cur \in [Locals -> Nat]
    BY DEF Base, Loops
  <2>2. Since(l, c)
    BY DEF Begins
  <2>3. cur' = [cur EXCEPT ![l] = safe]
    BY <2>2, SinceMeans
  <2>4. /\ safe \in Nat
        /\ \/ safe = cursor[l][c].safe
           \/ \E n \in DOMAIN h : safe = h[n].seq /\ h[n].age >= Overlap
        /\ \A i \in DOMAIN g : \E j \in DOMAIN h : g[i] = Begun(h[j])
    BY <2>2, SinceMeans
  <2> QED
    BY <2>1, <2>3, <2>4
<1>3. \A j \in DOMAIN h : /\ h[j].seq \in Nat /\ h[j].age \in Nat /\ h[j].read \in {"no", "begun", "done"} /\ h[j] \in Position
                          /\ h[j].seq <= seq[s]
                          /\ h[j].read # "no" => h[j].age >= OpenFor
                          /\ h[j].age >= Overlap => h[j].read = "done"
  BY Remembering DEF Line, Positions, Marks
<1>4. \A i \in DOMAIN g : \E j \in DOMAIN h :
        /\ g[i].seq = h[j].seq /\ g[i].age = h[j].age
        /\ g[i].read = h[j].read \/ (h[j].read = "no" /\ g[i].read = "begun" /\ h[j].age >= OpenFor)
  <2>1. \A p \in Position : LET q == Begun(p) IN
          /\ q.seq = p.seq /\ q.age = p.age
          /\ q.read = p.read \/ (p.read = "no" /\ q.read = "begun" /\ p.age >= OpenFor)
    BY DEF Begun, Position
  <2> SUFFICES ASSUME NEW i \in DOMAIN g
               PROVE  \E j \in DOMAIN h :
                        /\ g[i].seq = h[j].seq /\ g[i].age = h[j].age
                        /\ g[i].read = h[j].read \/ (h[j].read = "no" /\ g[i].read = "begun" /\ h[j].age >= OpenFor)
    OBVIOUS
  <2>2. PICK j \in DOMAIN h : g[i] = Begun(h[j])
    BY <1>2
  <2>3. h[j] \in Position
    BY <1>3
  <2> QED
    BY <2>1, <2>2, <2>3
<1>5. OpenFor \in Nat /\ Overlap \in Nat /\ OpenFor <= Overlap /\ cursor[l][c].safe <= seq[s] /\ cursor[l][c].safe \in Nat
  BY ChatSyncConstants, Typing DEF Line, Positions
<1>6. safe <= seq[s]
  BY <1>2, <1>3, <1>5
<1> HIDE DEF s, safe, g
<1>7. Positions(l, c)'
  <2>1. \A i \in DOMAIN g : g[i].seq <= seq[s]
    BY <1>3, <1>4
  <2> QED
    BY <1>1, <1>2, <1>6, <2>1 DEF Positions, s, safe, g, Phase, Waiting
<1>8. Marks(l, c)'
  <2>1. \A i \in DOMAIN g : /\ g[i].read # "no" => g[i].age >= OpenFor
                            /\ g[i].age >= Overlap => g[i].read = "done"
    BY <1>3, <1>4
  <2> QED
    BY <2>1 DEF Marks, g
<1>9. Pending(l, c)'
  <2> SUFFICES ASSUME NEW k \in Keys, open[s][k] # NoWrite
               PROVE  /\ safe < open[s][k].row.seq
                      /\ \A i \in DOMAIN g : open[s][k].row.seq <= g[i].seq => g[i].age <= open[s][k].age
    BY <1>1 DEF Pending, s, safe, g
  <2>1. /\ cursor[l][c].safe < open[s][k].row.seq
        /\ \A j \in DOMAIN h : open[s][k].row.seq <= h[j].seq => h[j].age <= open[s][k].age
    BY DEF Line, Pending, s
  <2>2. open[s][k].age < OpenFor
    BY <1>1 DEF Base, Brief
  <2>3. \A j \in DOMAIN h : h[j].age >= Overlap => h[j].seq < open[s][k].row.seq
    BY <1>1, <1>3, <1>5, <2>1, <2>2
  <2> QED
    BY <1>2, <1>4, <2>1, <2>3
<1>10. Unknown(l, c)'
  <2> SUFFICES ASSUME NEW k \in Keys, row[s][k].seq # 0, ~Known(l, c, k)
               PROVE  /\ safe < row[s][k].seq
                      /\ \A i \in DOMAIN g : row[s][k].seq <= g[i].seq =>
                           g[i].read # "done" /\ (Missed(l, c, k)' => g[i].read = "no")
    <3>1. \A k \in Keys : Known(l, c, k)' <=> Known(l, c, k)
      BY <1>1, Sides DEF Known
    <3> QED
      BY <1>1, <3>1 DEF Unknown, s, safe, g
  <2>1. /\ cursor[l][c].safe < row[s][k].seq
        /\ \A j \in DOMAIN h : row[s][k].seq <= h[j].seq => h[j].read # "done"
    BY DEF Line, Unknown, s
  <2>2. \A j \in DOMAIN h : h[j].age >= Overlap => h[j].seq < row[s][k].seq
    BY <1>1, <1>3, <2>1
  <2>3. safe < row[s][k].seq
    BY <1>2, <2>1, <2>2
  <2>4. ~Missed(l, c, k)'
    <3>1. ~(row[s][k].seq <= safe)
      BY <1>1, <1>2, <2>3
    <3> QED
      BY <1>1, <1>2, <3>1 DEF Missed, s, Phase, Waiting
  <2>5. \A i \in DOMAIN g : row[s][k].seq <= g[i].seq => g[i].read # "done"
    BY <1>4, <2>1
  <2> QED
    BY <2>3, <2>4, <2>5
<1> QED
  BY <1>7, <1>8, <1>9, <1>10 DEF Line

\* A phase reads a page: it misses no row that it had not missed.
LEMMA LineReads ==
  ASSUME Base, NEW l \in Locals, NEW c \in Ways, Line(l, c), TakesPage(l, c)
  PROVE  Line(l, c)'
<1> DEFINE s == Source(l, c)
           page == Page(s, cur[l])
<1>1. /\ s \in Servers /\ s' = s /\ cur[l] \in Nat /\ pc[l] = c /\ c \in Phase(c)
      /\ row' = row /\ open' = open /\ seq' = seq /\ cursor' = cursor /\ cur' = cur
      /\ pc'[l] \in Waiting(c) /\ pc'[l] \in Phase(c) /\ flight'[l] = page /\ more'[l] = IsFull(s, cur[l])
  BY Sides, Typing DEF TakesPage
<1>2. /\ LastSeq(page) <= seq[s] /\ LastSeq(page) \in Nat
      /\ \A k \in DOMAIN page : page[k] = row[s][k]
      /\ \A k \in Keys : row[s][k].seq > cur[l] /\ row[s][k].seq <= LastSeq(page) => k \in DOMAIN page
      /\ ~IsFull(s, cur[l]) => \A k \in Keys : row[s][k].seq > cur[l] => k \in DOMAIN page
  <2>1. page # NoRows
    BY DEF TakesPage
  <2> QED
    BY <1>1, <2>1, Paging
<1> HIDE DEF s, page
<1>3. Positions(l, c)'
  BY <1>1, <1>2 DEF Line, Positions, LastSeq, s, Phase, Waiting
<1>4. Marks(l, c)' /\ Pending(l, c)'
  BY <1>1 DEF Line, Marks, Pending, s
<1>5. Unknown(l, c)'
  <2>1. ASSUME NEW k \in Keys PROVE /\ Known(l, c, k)' <=> Known(l, c, k)
                                    /\ Missed(l, c, k)' => Missed(l, c, k)
    <3>1. Known(l, c, k)' <=> Known(l, c, k)
      BY <1>1, Sides DEF Known
    <3>2. ASSUME Missed(l, c, k)' PROVE row[s][k].seq <= cur[l]
      <4>1. \/ row[s][k].seq <= cur[l]
            \/ /\ ~(k \in DOMAIN page /\ row[s][k] = page[k])
               /\ row[s][k].seq <= LastSeq(page) \/ ~IsFull(s, cur[l])
        BY <1>1, <3>2 DEF Missed, LastSeq, Phase, Waiting, s
      <4>2. row[s][k].seq \in Nat
        BY <1>1, Typing
      <4> QED
        BY <1>1, <1>2, <4>1, <4>2
    <3> QED
      BY <1>1, <3>1, <3>2 DEF Missed, s
  <2> QED
    BY <1>1, <2>1 DEF Line, Unknown, s
<1> QED
  BY <1>3, <1>4, <1>5 DEF Line

\* The end of a phase changes only the marks of the positions.
LEMMA Marking ==
  ASSUME NEW h \in Seq(Position), NEW as \in {"no", "done"}
  PROVE  /\ Ended(h, as) \in Seq(Position) /\ DOMAIN Ended(h, as) = DOMAIN h
         /\ \A i \in DOMAIN h : LET p == Ended(h, as)[i]
                                IN  /\ p.seq = h[i].seq /\ p.age = h[i].age
                                    /\ p.read = IF h[i].read = "begun" THEN as ELSE h[i].read
<1>1. \A i \in DOMAIN h : h[i] \in Position
  OBVIOUS
<1>2. \A q \in Position : LET p == IF q.read = "begun" THEN [q EXCEPT !.read = as] ELSE q
                          IN  /\ p \in Position /\ p.seq = q.seq /\ p.age = q.age
                              /\ p.read = IF q.read = "begun" THEN as ELSE q.read
  BY DEF Position
<1>3. DOMAIN Ended(h, as) = DOMAIN h /\ DOMAIN h = 1..Len(h) /\ Len(h) \in Nat
  BY DEF Ended
<1>4. \A i \in DOMAIN h : LET p == Ended(h, as)[i]
                          IN  /\ p \in Position /\ p.seq = h[i].seq /\ p.age = h[i].age
                              /\ p.read = IF h[i].read = "begun" THEN as ELSE h[i].read
  BY <1>1, <1>2 DEF Ended
<1>5. Ended(h, as) \in Seq(Position)
  <2>1. Ended(h, as) = [i \in 1..Len(h) |-> Ended(h, as)[i]]
    BY <1>3 DEF Ended
  <2>2. \A i \in 1..Len(h) : Ended(h, as)[i] \in Position
    BY <1>3, <1>4
  <2> DEFINE e == Ended(h, as)
  <2> HIDE DEF e
  <2>3. e = [i \in 1..Len(h) |-> e[i]] /\ \A i \in 1..Len(h) : e[i] \in Position
    BY <2>1, <2>2 DEF e
  <2>4. e \in Seq(Position)
    BY <1>3, <2>3
  <2> QED
    BY <2>4 DEF e
<1> QED
  BY <1>3, <1>4, <1>5

\* A page that was taken leaves its last number as the newest position.
LEMMA Appending ==
  ASSUME NEW h \in Seq(Position), NEW last \in Nat
  PROVE  /\ Remembered(h, last) \in Seq(Position)
         /\ \A i \in DOMAIN Remembered(h, last) :
              \/ i \in DOMAIN h /\ Remembered(h, last)[i] = h[i]
              \/ Remembered(h, last)[i] = [seq |-> last, age |-> 0, read |-> "no"]
<1> DEFINE position == [seq |-> last, age |-> 0, read |-> "no"]
<1>1. position \in Position
  BY DEF Position
<1>2. MaxHistory \in Nat \ {0} /\ Len(h) \in Nat /\ DOMAIN h = 1..Len(h)
  BY ChatSyncConstants
<1> HIDE DEF position
<1>3. CASE Len(h) < MaxHistory
  <2>1. Remembered(h, last) = Append(h, position)
    BY <1>3 DEF Remembered, position
  <2>2. /\ Append(h, position) \in Seq(Position) /\ DOMAIN Append(h, position) = 1..(Len(h) + 1)
        /\ \A i \in 1..(Len(h) + 1) : Append(h, position)[i] = IF i = Len(h) + 1 THEN position ELSE h[i]
    BY <1>1, <1>2
  <2>3. \A i \in 1..(Len(h) + 1) : i = Len(h) + 1 \/ i \in DOMAIN h
    BY <1>2
  <2> QED
    BY <2>1, <2>2, <2>3 DEF position
<1>4. CASE ~(Len(h) < MaxHistory)
  <2>1. Remembered(h, last) = [h EXCEPT ![MaxHistory] = position]
    BY <1>4 DEF Remembered, position
  <2>2. /\ [h EXCEPT ![MaxHistory] = position] \in Seq(Position)
        /\ DOMAIN [h EXCEPT ![MaxHistory] = position] = DOMAIN h
        /\ \A i \in DOMAIN h : [h EXCEPT ![MaxHistory] = position][i] = IF i = MaxHistory THEN position ELSE h[i]
    BY <1>1, <1>2, <1>4
  <2> QED
    BY <2>1, <2>2 DEF position
<1> QED
  BY <1>3, <1>4

\* With a tick every position grows older, up to OVERLAP_MS.
LEMMA OlderMeans ==
  ASSUME NEW h \in Seq(Position)
  PROVE  /\ Older(h) \in Seq(Position) /\ DOMAIN Older(h) = DOMAIN h
         /\ \A i \in DOMAIN h : LET p == Older(h)[i]
                                IN  /\ p.seq = h[i].seq /\ p.read = h[i].read
                                    /\ p.age = IF h[i].age >= Overlap THEN h[i].age ELSE h[i].age + 1
<1>1. \A i \in DOMAIN h : h[i] \in Position
  OBVIOUS
<1>2. \A q \in Position : LET p == IF Aged(q) THEN q ELSE [q EXCEPT !.age = @ + 1]
                          IN  /\ p \in Position /\ p.seq = q.seq /\ p.read = q.read
                              /\ p.age = IF q.age >= Overlap THEN q.age ELSE q.age + 1
  <2> SUFFICES ASSUME NEW q \in Position
               PROVE  LET p == IF Aged(q) THEN q ELSE [q EXCEPT !.age = @ + 1]
                      IN  /\ p \in Position /\ p.seq = q.seq /\ p.read = q.read
                          /\ p.age = IF q.age >= Overlap THEN q.age ELSE q.age + 1
    OBVIOUS
  <2>1. CASE q.age >= Overlap
    BY <2>1 DEF Aged
  <2>2. CASE ~(q.age >= Overlap)
    <3>1. /\ [q EXCEPT !.age = @ + 1] \in Position
          /\ [q EXCEPT !.age = @ + 1].seq = q.seq /\ [q EXCEPT !.age = @ + 1].read = q.read
          /\ [q EXCEPT !.age = @ + 1].age = q.age + 1
      <4>1. /\ q = [seq |-> q.seq, age |-> q.age, read |-> q.read]
            /\ q.seq \in Nat /\ q.age \in Nat /\ q.read \in {"no", "begun", "done"}
        BY DEF Position
      <4>2. [q EXCEPT !.age = @ + 1] = [seq |-> q.seq, age |-> q.age + 1, read |-> q.read]
        BY <4>1
      <4>3. q.age + 1 \in Nat
        BY <4>1
      <4> QED
        BY <4>1, <4>2, <4>3 DEF Position
    <3> QED
      BY <2>2, <3>1 DEF Aged
  <2> QED
    BY <2>1, <2>2
<1>3. DOMAIN Older(h) = DOMAIN h /\ DOMAIN h = 1..Len(h) /\ Len(h) \in Nat
  BY DEF Older
<1>4. \A i \in DOMAIN h : LET p == Older(h)[i]
                          IN  /\ p \in Position /\ p.seq = h[i].seq /\ p.read = h[i].read
                              /\ p.age = IF h[i].age >= Overlap THEN h[i].age ELSE h[i].age + 1
  BY <1>1, <1>2 DEF Older
<1>5. Older(h) \in Seq(Position)
  <2>1. Older(h) = [i \in 1..Len(h) |-> Older(h)[i]]
    BY <1>3 DEF Older
  <2> QED
    BY <1>3, <1>4, <2>1
<1> QED
  BY <1>3, <1>4, <1>5

\* Transactions grow older with a tick, and stay in time.
LEMMA Aging ==
  ASSUME Base, Tick
  PROVE  /\ open' \in [Servers -> [Keys -> Held]]
         /\ \A s \in Servers, k \in Keys :
              /\ open'[s][k] = NoWrite <=> open[s][k] = NoWrite
              /\ open'[s][k].row = open[s][k].row /\ open'[s][k].by = open[s][k].by
              /\ open'[s][k].age = IF open[s][k] = NoWrite THEN open[s][k].age ELSE open[s][k].age + 1
              /\ open'[s][k].age < OpenFor
<1>1. /\ open' = [s \in Servers |-> [k \in Keys |->
                    IF open[s][k] = NoWrite THEN NoWrite ELSE [open[s][k] EXCEPT !.age = @ + 1]]]
      /\ \A s \in Servers, k \in Keys : open[s][k] # NoWrite => open[s][k].age + 1 < OpenFor
  BY DEF Tick
<1>2. ASSUME NEW s \in Servers, NEW k \in Keys
      PROVE  /\ open'[s][k] \in Held
             /\ open'[s][k] = NoWrite <=> open[s][k] = NoWrite
             /\ open'[s][k].row = open[s][k].row /\ open'[s][k].by = open[s][k].by
             /\ open'[s][k].age = IF open[s][k] = NoWrite THEN open[s][k].age ELSE open[s][k].age + 1
             /\ open'[s][k].age < OpenFor
  <2>1. open[s][k] \in Held /\ open[s][k].age \in Nat /\ open[s][k].age < OpenFor
    BY Typing DEF Base, Brief
  <2>2. open'[s][k] = IF open[s][k] = NoWrite THEN NoWrite ELSE [open[s][k] EXCEPT !.age = @ + 1]
    BY <1>1
  <2>3. CASE open[s][k] = NoWrite
    BY <2>1, <2>2, <2>3
  <2>4. CASE open[s][k] # NoWrite
    <3>1. open'[s][k] = [open[s][k] EXCEPT !.age = @ + 1]
      BY <2>2, <2>4
    <3>2. /\ open'[s][k] \in Held /\ open'[s][k].row = open[s][k].row /\ open'[s][k].by = open[s][k].by
          /\ open'[s][k].age = open[s][k].age + 1
      BY <2>1, <3>1 DEF Held
    <3>3. open'[s][k] # NoWrite
      BY <2>1, <3>2, NoRowsYet
    <3> QED
      BY <1>1, <2>4, <3>2, <3>3
  <2> QED
    BY <2>3, <2>4
<1>3. open' = [s \in Servers |-> [k \in Keys |-> open'[s][k]]]
  BY <1>1
<1>4. open' \in [Servers -> [Keys -> Held]]
  BY <1>2, <1>3
<1> QED
  BY <1>2, <1>4

\* A phase ends where nothing is left to read: what the other side does not know,
\* it has missed.
LEMMA LineFinishes ==
  ASSUME Base, NEW l \in Locals, NEW c \in Ways, Line(l, c), Finishes(l, c)
  PROVE  Line(l, c)'
<1> DEFINE s == Source(l, c)
           h == cursor[l][c].history
           g == cursor'[l][c].history
<1>1. /\ s \in Servers /\ s' = s /\ cur[l] \in Nat /\ pc[l] = c /\ c \in Phase(c)
      /\ row' = row /\ open' = open /\ seq' = seq
      /\ pc'[l] \notin Phase(c) /\ pc'[l] \notin Waiting(c)
      /\ \A k \in Keys : ~(row[s][k].seq > cur[l]) /\ row[s][k].seq \in Nat
  BY NoPage, Sides, Typing DEF Finishes
<1>2. /\ cursor'[l][c].safe = cursor[l][c].safe /\ DOMAIN g = DOMAIN h
      /\ \A i \in DOMAIN h : /\ g[i].seq = h[i].seq /\ g[i].age = h[i].age
                             /\ g[i].read = IF h[i].read = "begun" THEN "done" ELSE h[i].read
  <2>1. cursor' = [cursor EXCEPT ![l][c].history = Ended(h, "done")]
    BY DEF Finishes, Finish
  <2>2. cursor \in [Locals -> [Ways -> [safe : Nat, history : Seq(Position)]]]
    BY DEF Base, Loops
  <2>3. cursor'[l][c].safe = cursor[l][c].safe /\ g = Ended(h, "done")
    BY <2>1, <2>2
  <2> QED
    BY <2>3, Remembering, Marking
<1>3. \A k \in Keys : (Known(l, c, k)' <=> Known(l, c, k)) /\ ~Missed(l, c, k)' /\ Missed(l, c, k)
  <2>1. \A k \in Keys : Known(l, c, k)' <=> Known(l, c, k)
    BY <1>1, Sides DEF Known
  <2>2. \A k \in Keys : ~Missed(l, c, k)'
    BY <1>1 DEF Missed, Phase, Waiting
  <2>3. \A k \in Keys : row[s][k].seq <= cur[l]
    BY <1>1
  <2> QED
    BY <1>1, <2>1, <2>2, <2>3 DEF Missed
<1> HIDE DEF s, h, g
<1>4. Positions(l, c)'
  BY <1>1, <1>2 DEF Line, Positions, s, h, g, Phase, Waiting
<1>5. Marks(l, c)'
  <2>1. \A i \in DOMAIN h : /\ h[i].read # "no" => h[i].age >= OpenFor
                            /\ Prompt /\ h[i].age >= Overlap => h[i].read = "done"
    BY DEF Line, Marks, h
  <2>2. \A i \in DOMAIN g : /\ g[i].read # "no" => g[i].age >= OpenFor
                            /\ Prompt /\ g[i].age >= Overlap => g[i].read = "done"
    BY <1>2, <2>1
  <2> QED
    BY <2>2 DEF Marks, g
<1>6. Pending(l, c)'
  BY <1>1, <1>2 DEF Line, Pending, s, h, g
<1>7. Unknown(l, c)'
  <2> SUFFICES ASSUME NEW k \in Keys, row[s][k].seq # 0, ~Known(l, c, k)
               PROVE  /\ cursor[l][c].safe < row[s][k].seq
                      /\ \A i \in DOMAIN g : row[s][k].seq <= g[i].seq => g[i].read # "done"
    BY <1>1, <1>2, <1>3 DEF Unknown, s, g
  <2>1. /\ cursor[l][c].safe < row[s][k].seq
        /\ \A i \in DOMAIN h : row[s][k].seq <= h[i].seq => h[i].read = "no"
    BY <1>3 DEF Line, Unknown, s, h
  <2> QED
    BY <1>2, <2>1
<1> QED
  BY <1>4, <1>5, <1>6, <1>7 DEF Line

\* A page was taken: the new position has age 0 and no mark, and what the other
\* side still does not know, the phase has missed.
LEMMA LineAdvances ==
  ASSUME Base, NEW l \in Locals, NEW c \in Ways, Line(l, c), Advances(l, c),
         Base', Grows(Target(l, c)), c = "push" => Answers(l)
  PROVE  Line(l, c)'
<1> DEFINE s == Source(l, c)
           d == Target(l, c)
           h == cursor[l][c].history
           g == cursor'[l][c].history
           last == LastSeq(flight[l])
           new == [seq |-> last, age |-> 0, read |-> "no"]
<1>1. /\ s \in Servers /\ d \in Servers /\ s' = s /\ d' = d /\ s # d
      /\ row'[s] = row[s] /\ open'[s] = open[s] /\ seq'[s] = seq[s] /\ seq[s] \in Nat
      /\ pc[l] \in Waiting(c) /\ pc[l] \in Phase(c) /\ pc'[l] \notin Waiting(c)
      /\ IF more[l] THEN pc'[l] = c ELSE pc'[l] \notin Phase(c)
      /\ more[l] \in BOOLEAN /\ h \in Seq(Position)
  BY Sides, Typing DEF Advances
<1>2. last \in Nat /\ last <= seq[s]
  <2>1. ArePage(flight[l]) /\ DOMAIN flight[l] # {}
    BY <1>1, Sides DEF Base, Loops
  <2> QED
    BY <1>1, <2>1, PageNumbers DEF Line, Positions
<1>3. /\ cursor'[l][c].safe = cursor[l][c].safe /\ cur'[l] = last
      /\ \A i \in DOMAIN g :
           \/ \E j \in DOMAIN h : /\ g[i].seq = h[j].seq /\ g[i].age = h[j].age
                                  /\ \/ g[i].read = h[j].read
                                     \/ ~more[l] /\ h[j].read = "begun" /\ g[i].read = "done"
           \/ g[i].seq = last /\ g[i].age = 0 /\ g[i].read = "no"
  <2>1. /\ cursor \in [Locals -> [Ways -> [safe : Nat, history : Seq(Position)]]]
        /\ cur \in [Locals -> Nat]
    BY DEF Base, Loops
  <2> DEFINE r == Remembered(h, last)
  <2>2. /\ cursor' = [cursor EXCEPT ![l][c].history = IF more[l] THEN r ELSE Ended(r, "done")]
        /\ cur' = [cur EXCEPT ![l] = last]
    BY DEF Advances, Advance
  <2>3. /\ r \in Seq(Position)
        /\ \A i \in DOMAIN r : (i \in DOMAIN h /\ r[i] = h[i]) \/ r[i] = new
    BY <1>1, <1>2, Appending
  <2> HIDE DEF r, h, last
  <2>4. cursor'[l][c].safe = cursor[l][c].safe /\ cur'[l] = last /\ g = IF more[l] THEN r ELSE Ended(r, "done")
    BY <2>1, <2>2
  <2>5. new.seq = last /\ new.age = 0 /\ new.read = "no"
    OBVIOUS
  <2> HIDE DEF g, new
  <2>6. CASE more[l]
    BY <2>3, <2>4, <2>5, <2>6
  <2>7. CASE ~more[l]
    <3>1. /\ DOMAIN g = DOMAIN r
          /\ \A i \in DOMAIN r : /\ g[i].seq = r[i].seq /\ g[i].age = r[i].age
                                 /\ g[i].read = IF r[i].read = "begun" THEN "done" ELSE r[i].read
      BY <2>3, <2>4, <2>7, Marking
    <3>2. ASSUME NEW i \in DOMAIN g
          PROVE  \/ \E j \in DOMAIN h : /\ g[i].seq = h[j].seq /\ g[i].age = h[j].age
                                        /\ \/ g[i].read = h[j].read
                                           \/ ~more[l] /\ h[j].read = "begun" /\ g[i].read = "done"
                 \/ g[i].seq = last /\ g[i].age = 0 /\ g[i].read = "no"
      <4>1. CASE i \in DOMAIN h /\ r[i] = h[i]
        BY <2>7, <3>1, <3>2, <4>1
      <4>2. CASE r[i] = new
        BY <2>5, <3>1, <3>2, <4>2
      <4> QED
        BY <2>3, <3>1, <4>1, <4>2
    <3> QED
      BY <2>4, <3>2
  <2> QED
    BY <2>6, <2>7 DEF g, h, last
<1>4. \A j \in DOMAIN h : /\ h[j].seq \in Nat /\ h[j].age \in Nat /\ h[j].seq <= seq[s]
                          /\ h[j].read # "no" => h[j].age >= OpenFor
                          /\ Prompt /\ h[j].age >= Overlap => h[j].read = "done"
  BY Remembering DEF Line, Positions, Marks
\* What the other side has after the step.
<1>5. \A k \in DOMAIN flight[l] : Covers(row'[d][k], flight[l][k])
  <2>1. CASE c = "pull"
    BY <2>1, Sides DEF Advances
  <2>2. CASE c = "push"
    <3>1. pc[l] = "merged" /\ d = MAIN
      BY <2>2, Sides DEF Advances
    <3>2. ASSUME NEW k \in DOMAIN flight[l] PROVE Covers(row'[d][k], flight[l][k])
      <4>1. Covers(row[d][k], flight[l][k])
        BY <2>2, <3>1, <3>2 DEF Answers, Has
      <4>2. row[d][k] \in Row /\ row'[d][k] \in Row /\ flight[l][k] \in Row /\ k \in Keys
        BY <1>1, <3>2, Typing DEF Base, Stores
      <4> QED
        BY <4>1, <4>2, CoversOrder DEF Grows
    <3> QED
      BY <3>2
  <2> QED
    BY <2>1, <2>2, Sides
<1>6. ASSUME NEW k \in Keys, row[s][k].seq # 0, ~Known(l, c, k)'
      PROVE  /\ cursor[l][c].safe < row[s][k].seq
             /\ \A j \in DOMAIN h : row[s][k].seq <= h[j].seq =>
                  h[j].read # "done" /\ (~more[l] \/ row[s][k].seq <= last => h[j].read = "no")
  <2>1. ~Covers(row'[d][k], row[s][k])
    BY <1>1, <1>6 DEF Known
  <2>2. ~Known(l, c, k)
    <3>1. row[d][k] \in Row /\ row'[d][k] \in Row /\ row[s][k] \in Row
      BY <1>1, Typing DEF Base, Stores
    <3> QED
      BY <2>1, <3>1, CoversOrder DEF Known, Grows
  <2>3. ~(k \in DOMAIN flight[l] /\ row[s][k] = flight[l][k])
    BY <1>5, <2>1
  <2>4. ~more[l] \/ row[s][k].seq <= last => Missed(l, c, k)
    BY <1>1, <2>3 DEF Missed
  <2> QED
    BY <1>6, <2>2, <2>4 DEF Line, Unknown
<1> HIDE DEF s, d, h, g, last
<1>7. Positions(l, c)'
  <2>1. \A i \in DOMAIN g : g[i].seq <= seq[s]
    BY <1>2, <1>3, <1>4
  <2> QED
    BY <1>1, <1>2, <1>3, <2>1 DEF Line, Positions, s, g, Waiting, Phase
<1>8. OpenFor \in 1..Overlap /\ Overlap \in Nat
  BY ChatSyncConstants
<1>9. Marks(l, c)'
  <2>1. \A i \in DOMAIN g : /\ g[i].read # "no" => g[i].age >= OpenFor
                            /\ Prompt /\ g[i].age >= Overlap => g[i].read = "done"
    BY <1>3, <1>4, <1>8
  <2> QED
    BY <2>1 DEF Marks, g
<1>10. Pending(l, c)'
  <2> SUFFICES ASSUME NEW k \in Keys, open[s][k] # NoWrite
               PROVE  /\ cursor[l][c].safe < open[s][k].row.seq
                      /\ \A i \in DOMAIN g : open[s][k].row.seq <= g[i].seq => g[i].age <= open[s][k].age
    BY <1>1, <1>3 DEF Pending, s, g
  <2>1. /\ cursor[l][c].safe < open[s][k].row.seq
        /\ \A j \in DOMAIN h : open[s][k].row.seq <= h[j].seq => h[j].age <= open[s][k].age
    BY DEF Line, Pending, s, h
  <2>2. open[s][k].age \in Nat
    BY <1>1, Typing
  <2> QED
    BY <1>3, <1>4, <2>1, <2>2
<1>11. Unknown(l, c)'
  <2> SUFFICES ASSUME NEW k \in Keys, row[s][k].seq # 0, ~Known(l, c, k)'
               PROVE  /\ cursor[l][c].safe < row[s][k].seq
                      /\ \A i \in DOMAIN g : row[s][k].seq <= g[i].seq =>
                           g[i].read # "done" /\ (Missed(l, c, k)' => g[i].read = "no")
    BY <1>1, <1>3 DEF Unknown, s, g
  <2>1. Missed(l, c, k)' => more[l] /\ row[s][k].seq <= last
    <3>1. ASSUME Missed(l, c, k)' PROVE more[l] /\ row[s][k].seq <= last
      <4>1. pc'[l] \in Phase(c) /\ row[s][k].seq <= last
        BY <1>1, <1>3, <3>1 DEF Missed, s, Phase, Waiting
      <4> QED
        BY <1>1, <4>1
    <3> QED
      BY <3>1
  <2>2. ASSUME NEW i \in DOMAIN g, row[s][k].seq <= g[i].seq
        PROVE  g[i].read # "done" /\ (more[l] /\ row[s][k].seq <= last => g[i].read = "no")
    BY <1>3, <1>6, <2>2
  <2> QED
    BY <1>6, <2>1, <2>2
<1> QED
  BY <1>7, <1>9, <1>10, <1>11 DEF Line

\* Time passes: positions and transactions grow older alike.
LEMMA LineTicks ==
  ASSUME Base, NEW l \in Locals, NEW c \in Ways, Line(l, c), Tick
  PROVE  Line(l, c)'
<1> DEFINE s == Source(l, c)
           h == cursor[l][c].history
           g == cursor'[l][c].history
<1>1. /\ s \in Servers /\ s' = s /\ row' = row /\ seq' = seq /\ pc' = pc /\ cur' = cur
      /\ flight' = flight /\ more' = more
      /\ \A k \in Keys : open[s][k].age \in Nat
      /\ Prompt => \A i \in DOMAIN h : h[i].age + 1 >= Overlap => h[i].read = "done"
  BY Sides, Typing DEF Tick
<1>2. \A k \in Keys : /\ open'[s][k] = NoWrite <=> open[s][k] = NoWrite
                      /\ open[s][k] # NoWrite => open'[s][k].row = open[s][k].row /\ open'[s][k].age = open[s][k].age + 1
  BY <1>1, Aging
<1>3. /\ cursor'[l][c].safe = cursor[l][c].safe /\ DOMAIN g = DOMAIN h
      /\ \A i \in DOMAIN h : /\ g[i].seq = h[i].seq /\ g[i].read = h[i].read
                             /\ g[i].age = IF h[i].age >= Overlap THEN h[i].age ELSE h[i].age + 1
  <2>1. /\ cursor'[l][c] = [cursor[l][c] EXCEPT !.history = Older(@)]
        /\ cursor[l][c] \in [safe : Nat, history : Seq(Position)]
    BY DEF Tick, Base, Loops
  <2>2. cursor'[l][c].safe = cursor[l][c].safe /\ g = Older(h)
    BY <2>1
  <2> QED
    BY <2>2, Remembering, OlderMeans
<1>4. \A j \in DOMAIN h : h[j].seq \in Nat /\ h[j].age \in Nat
  BY Remembering
<1> HIDE DEF s, h, g
<1>5. Positions(l, c)'
  BY <1>1, <1>3 DEF Line, Positions, s, g, h, LastSeq, Phase, Waiting
<1>6. Marks(l, c)'
  <2>1. OpenFor \in Nat /\ Overlap \in Nat
    BY ChatSyncConstants
  <2>2. \A i \in DOMAIN h : /\ h[i].read # "no" => h[i].age >= OpenFor
                            /\ Prompt /\ h[i].age >= Overlap => h[i].read = "done"
    BY DEF Line, Marks, h
  <2>3. \A i \in DOMAIN g : /\ g[i].read # "no" => g[i].age >= OpenFor
                            /\ Prompt /\ g[i].age >= Overlap => g[i].read = "done"
    BY <1>1, <1>3, <1>4, <2>1, <2>2
  <2> QED
    BY <2>3 DEF Marks, g
<1>7. Pending(l, c)'
  <2> SUFFICES ASSUME NEW k \in Keys, open'[s][k] # NoWrite
               PROVE  /\ cursor[l][c].safe < open'[s][k].row.seq
                      /\ \A i \in DOMAIN g : open'[s][k].row.seq <= g[i].seq => g[i].age <= open'[s][k].age
    BY <1>1, <1>3 DEF Pending, s, g
  <2>1. /\ cursor[l][c].safe < open[s][k].row.seq
        /\ \A j \in DOMAIN h : open[s][k].row.seq <= h[j].seq => h[j].age <= open[s][k].age
    BY <1>2 DEF Line, Pending, s, h
  <2> QED
    BY <1>1, <1>2, <1>3, <1>4, <2>1
<1>8. Unknown(l, c)'
  <2>1. ASSUME NEW k \in Keys
        PROVE  (Known(l, c, k)' <=> Known(l, c, k)) /\ (Missed(l, c, k)' => Missed(l, c, k))
    <3>1. Known(l, c, k)' <=> Known(l, c, k)
      BY <1>1, Sides DEF Known
    <3>2. Missed(l, c, k)' => Missed(l, c, k)
      BY <1>1 DEF Missed, LastSeq, Phase, Waiting, s
    <3> QED
      BY <3>1, <3>2
  <2> QED
    BY <1>1, <1>3, <2>1 DEF Line, Unknown, s, g, h
<1> QED
  BY <1>5, <1>6, <1>7, <1>8 DEF Line

-----------------------------------------------------------------------------
(* What each step does.                                                    *)

\* The loop of l does nothing; only that of l does something.
LoopRests(l) ==
  /\ cursor'[l] = cursor[l] /\ pc'[l] = pc[l] /\ cur'[l] = cur[l]
  /\ flight'[l] = flight[l] /\ more'[l] = more[l]

OnlyMoves(l) == \A j \in Locals : j # l => LoopRests(j)

\* What MAIN is applying for l it goes on applying.
Holds(l) ==
  \A k \in Keys : open[MAIN][k].by = l =>
    open'[MAIN][k].by = l /\ open'[MAIN][k].row = open[MAIN][k].row

\* What a step may do to a cursor,
LineMoves(l, c) ==
  Stays(l, c) \/ Begins(l, c) \/ TakesPage(l, c) \/ Finishes(l, c) \/ Advances(l, c) \/ Tick

\* and to what MAIN has of a page.
AnswerMoves(l) ==
  \/ pc'[l] = pc[l] /\ flight'[l] = flight[l] /\ Holds(l)
  \/ pc'[l] \notin {"merging", "merged", "reply"}
  \/ \A k \in DOMAIN flight'[l] : Has(l, k)'
  \/ /\ pc[l] = "merging" /\ pc'[l] = "merged" /\ flight'[l] = flight[l]
     /\ \A k \in Keys : row'[MAIN][k] = IF open[MAIN][k].by = l THEN open[MAIN][k].row ELSE row[MAIN][k]

\* What every step does.
StepMeans ==
  /\ StoresMove /\ Flow /\ Loops' /\ Brief'
  /\ \A l \in Locals : AnswerMoves(l) /\ \A c \in Ways : LineMoves(l, c)

\* A loop that does nothing.
LEMMA Resting ==
  ASSUME NEW l \in Locals, LoopRests(l)
  PROVE  \A c \in Ways : LineMoves(l, c)
BY DEF LoopRests, LineMoves, Stays, Remains

\* Two cursors are equal when both their ways are.
LEMMA CursorsEqual ==
  ASSUME Base, cursor' \in [Locals -> [Ways -> [safe : Nat, history : Seq(Position)]]], NEW l \in Locals,
         \A w \in Ways : cursor'[l][w] = cursor[l][w]
  PROVE  cursor'[l] = cursor[l]
BY DEF Base, Loops

Rewrites(l, c, h) == cursor' = [cursor EXCEPT ![l][c].history = h]

\* One way of a cursor gets another history.
LEMMA HistoryChanges ==
  ASSUME Base, NEW l \in Locals, NEW c \in Ways, NEW h \in Seq(Position), Rewrites(l, c, h)
  PROVE  /\ cursor' \in [Locals -> [Ways -> [safe : Nat, history : Seq(Position)]]]
         /\ \A j \in Locals, w \in Ways : j # l \/ w # c => cursor'[j][w] = cursor[j][w]
         /\ cursor'[l][c].safe = cursor[l][c].safe /\ cursor'[l][c].history = h
<1>1. cursor \in [Locals -> [Ways -> [safe : Nat, history : Seq(Position)]]]
  BY DEF Base, Loops
<1>2. [cursor[l][c] EXCEPT !.history = h] \in [safe : Nat, history : Seq(Position)]
  BY <1>1
<1>3. cursor' = [cursor EXCEPT ![l] = [cursor[l] EXCEPT ![c] = [cursor[l][c] EXCEPT !.history = h]]]
  BY <1>1 DEF Rewrites
<1>4. [cursor[l] EXCEPT ![c] = [cursor[l][c] EXCEPT !.history = h]] \in [Ways -> [safe : Nat, history : Seq(Position)]]
  BY <1>1, <1>2
<1> QED
  BY <1>1, <1>2, <1>3, <1>4

\* Users and late pushes move no loop.
LEMMA NoLoopMoves ==
  ASSUME Base, StoresMove, Brief', UNCHANGED loop, limbo' \subseteq limbo, \A l \in Locals : Holds(l)
  PROVE  StepMeans
<1>1. /\ cursor' = cursor /\ pc' = pc /\ cur' = cur /\ flight' = flight /\ more' = more
  BY DEF loop
<1>2. Loops'
  BY <1>1 DEF Base, Loops, ArePage
<1>3. Flow
  BY <1>1, AreCopies, Typing, PageCopies DEF Flow
<1>4. \A l \in Locals : AnswerMoves(l)
  BY <1>1 DEF AnswerMoves
<1>5. \A l \in Locals : LoopRests(l)
  BY <1>1 DEF LoopRests
<1> QED
  BY <1>2, <1>3, <1>4, <1>5, Resting DEF StepMeans

\* The types of the loops after a step.
LoopTypes ==
  /\ cursor' \in [Locals -> [Ways -> [safe : Nat, history : Seq(Position)]]]
  /\ pc' \in [Locals -> Steps] /\ cur' \in [Locals -> Nat] /\ more' \in [Locals -> BOOLEAN]
  /\ flight' = [l \in Locals |-> flight'[l]]

\* A step of one loop: what is left to show of it.
LEMMA OneLoopMoves ==
  ASSUME Base, NEW l \in Locals, OnlyMoves(l), LoopTypes, StoresMove, Brief',
         \/ flight'[l] \in {flight[l], NoRows}
         \/ \E s \in Servers : flight'[l] = Page(s, cur[l]) /\ Page(s, cur[l]) # NoRows,
         pc'[l] \in Waiting("push") \cup Waiting("pull") => DOMAIN flight'[l] # {},
         \A rows \in limbo' : rows \in limbo \/ \E j \in Locals : rows = flight[j],
         \A j \in Locals : j # l => Holds(j),
         AnswerMoves(l), \A c \in Ways : LineMoves(l, c)
  PROVE  StepMeans
<1>1. /\ ArePage(flight'[l])
      /\ \A k \in DOMAIN flight'[l] : k \in Keys /\ flight'[l][k] \in CopiesOf(k)
  <2>1. CASE flight'[l] = flight[l]
    BY <2>1, Typing, AreCopies
  <2>2. CASE flight'[l] = NoRows
    BY <2>2, NoRowsYet
  <2>3. ASSUME NEW s \in Servers, flight'[l] = Page(s, cur[l]), Page(s, cur[l]) # NoRows
        PROVE  /\ ArePage(flight'[l])
               /\ \A k \in DOMAIN flight'[l] : k \in Keys /\ flight'[l][k] \in CopiesOf(k)
    <3>1. cur[l] \in Nat
      BY Typing
    <3>2. ArePage(flight'[l]) /\ \A k \in DOMAIN flight'[l] : flight'[l][k] = row[s][k]
      BY <2>3, <3>1, Paging
    <3> QED
      BY <3>2, AreCopies DEF ArePage
  <2> QED
    BY <2>1, <2>2, <2>3
<1>2. \A j \in Locals : j # l => /\ flight'[j] = flight[j] /\ pc'[j] = pc[j]
                                 /\ ArePage(flight[j])
                                 /\ \A k \in DOMAIN flight[j] : k \in Keys /\ flight[j][k] \in CopiesOf(k)
  BY Typing, AreCopies DEF OnlyMoves, LoopRests
<1>3. \A rows \in limbo' : ArePage(rows) /\ \A k \in DOMAIN rows : k \in Keys /\ rows[k] \in CopiesOf(k)
  BY PageCopies
<1>4. Loops'
  <2>1. \A j \in Locals : ArePage(flight[j])'
    <3>1. \A j \in Locals : ArePage(flight'[j])
      BY <1>1, <1>2
    <3> QED
      BY <3>1 DEF ArePage
  <2>2. \A j \in Locals : pc'[j] \in (Waiting("push") \cup Waiting("pull"))' => DOMAIN flight'[j] # {}
    BY <1>2 DEF Base, Loops, Waiting
  <2>3. \A rows \in limbo' : ArePage(rows)'
    BY <1>3 DEF ArePage
  <2> QED
    BY <2>1, <2>2, <2>3 DEF LoopTypes, Loops
<1>5. Flow
  BY <1>1, <1>2, <1>3 DEF Flow
<1>6. \A j \in Locals : j # l => AnswerMoves(j) /\ \A c \in Ways : LineMoves(j, c)
  BY Resting DEF OnlyMoves, LoopRests, AnswerMoves
<1> QED
  BY <1>4, <1>5, <1>6 DEF StepMeans

\* What a step that leaves the tables alone does to them.
LEMMA TablesRest ==
  ASSUME Base, now' = now, row' = row, open' = open, seq' = seq
  PROVE  StoresMove /\ Brief' /\ \A l \in Locals : Holds(l)
<1>1. StoresMove
  BY Typing, Quiet DEF Base, Stores
<1> QED
  BY <1>1 DEF Base, Brief, Holds

\* Users: a write at once or in a transaction,
LEMMA WriteMeans ==
  ASSUME Base, NEW s \in Servers, NEW k \in Keys, Write(s, k) \/ BeginWrite(s, k)
  PROVE  StepMeans
<1>1. StoresMove
  BY WriteMoves
<1>2. /\ UNCHANGED loop /\ limbo' = limbo /\ open[s][k] = NoWrite /\ open \in [Servers -> [Keys -> Held]]
      /\ \/ open' = open
         \/ \E image : open' = [open EXCEPT ![s][k] = [row |-> image, by |-> s, age |-> 0]]
  BY DEF Write, BeginWrite, Stamps, Base, Stores
<1>3. \A i \in Servers, j \in Keys :
        \/ open'[i][j] = open[i][j]
        \/ open[i][j] = NoWrite /\ open'[i][j].age = 0
  BY <1>2
<1>4. Brief'
  <2>1. OpenFor \in Nat \ {0}
    BY ChatSyncConstants
  <2> QED
    BY <1>3, <2>1 DEF Base, Brief
<1>5. \A l \in Locals : Holds(l)
  BY <1>3, NoRowsYet, ChatSyncConstants DEF Holds, Servers
<1> QED
  BY <1>1, <1>2, <1>4, <1>5, NoLoopMoves

\* its end,
LEMMA EndWriteMeans ==
  ASSUME Base, NEW s \in Servers, NEW k \in Keys, EndWrite(s, k)
  PROVE  StepMeans
<1>1. StoresMove
  BY EndWriteMoves
<1>2. /\ UNCHANGED loop /\ limbo' = limbo /\ open[s][k].by = s /\ open \in [Servers -> [Keys -> Held]]
      /\ open' = [open EXCEPT ![s][k] = NoWrite]
  BY DEF EndWrite, Base, Stores
<1>3. \A i \in Servers, j \in Keys :
        \/ open'[i][j] = open[i][j]
        \/ i = s /\ j = k /\ open'[i][j].age = 0
  BY <1>2, NoRowsYet
<1>4. Brief'
  <2>1. OpenFor \in Nat \ {0}
    BY ChatSyncConstants
  <2> QED
    BY <1>3, <2>1 DEF Base, Brief
<1>5. \A l \in Locals : Holds(l)
  BY <1>2, <1>3, ChatSyncConstants DEF Holds, Servers
<1> QED
  BY <1>1, <1>2, <1>4, <1>5, NoLoopMoves

\* and a push that MAIN applies though its sender gave up.
LEMMA LateArrivalMeans ==
  ASSUME Base, NEW rows \in limbo, LateArrival(rows)
  PROVE  StepMeans
<1>1. BeginMerge(rows, MAIN) /\ row' = row /\ now' = now /\ UNCHANGED loop /\ limbo' \subseteq limbo /\ MAIN \in Servers
  BY DEF LateArrival, Servers
<1>2. StoresMove /\ \A k \in Keys : open[MAIN][k] # NoWrite => open'[MAIN][k] = open[MAIN][k]
  BY <1>1, MergeMoves
<1>3. Brief'
  BY <1>1, MergeBrief
<1>4. \A l \in Locals : Holds(l)
  BY <1>2, NoRowsYet, ChatSyncConstants DEF Holds
<1> QED
  BY <1>1, <1>2, <1>3, <1>4, NoLoopMoves

\* Time passes.
LEMMA TickMeans ==
  ASSUME Base, Tick
  PROVE  StepMeans
<1>1. /\ now' = now /\ row' = row /\ seq' = seq /\ pc' = pc /\ cur' = cur /\ flight' = flight
      /\ more' = more /\ limbo' = limbo
      /\ cursor' = [l \in Locals |-> [c \in Ways |-> [cursor[l][c] EXCEPT !.history = Older(@)]]]
  BY DEF Tick
<1>2. StoresMove /\ Brief' /\ \A l \in Locals : Holds(l)
  <2>1. \A s \in Servers, k \in Keys : open[s][k].age \in Nat
    BY Typing
  <2>2. StoresMove
    <3>1. \A s \in Servers, k \in Keys :
            /\ open'[s][k].row = open[s][k].row /\ open'[s][k].age >= open[s][k].age
            /\ open'[s][k] = NoWrite <=> open[s][k] = NoWrite
      BY <2>1, Aging
    <3> QED
      BY <1>1, <3>1, Aging, Quiet
  <2> QED
    BY <2>2, Aging DEF Brief, Holds, Servers
<1>3. cursor' \in [Locals -> [Ways -> [safe : Nat, history : Seq(Position)]]]
  <2> SUFFICES ASSUME NEW l \in Locals, NEW c \in Ways
               PROVE  [cursor[l][c] EXCEPT !.history = Older(@)] \in [safe : Nat, history : Seq(Position)]
    BY <1>1
  <2>1. cursor[l][c] \in [safe : Nat, history : Seq(Position)] /\ Older(cursor[l][c].history) \in Seq(Position)
    BY Remembering, OlderMeans DEF Base, Loops
  <2> QED
    BY <2>1
<1>4. Loops'
  BY <1>1, <1>3 DEF Base, Loops, ArePage
<1>5. Flow
  BY <1>1, AreCopies, Typing, PageCopies DEF Flow
<1> QED
  BY <1>1, <1>2, <1>4, <1>5 DEF StepMeans, AnswerMoves, LineMoves

\* The loop: a phase begins,
LEMMA BeginPhase ==
  ASSUME Base, NEW l \in Locals, NEW c \in Ways, pc[l] \notin Phase("push") \cup Phase("pull"), Since(l, c),
         Goes(l, c), UNCHANGED <<now, tables, flight, more, limbo>>
  PROVE  StepMeans
<1>1. /\ now' = now /\ row' = row /\ open' = open /\ seq' = seq /\ flight' = flight /\ more' = more /\ limbo' = limbo
      /\ pc' = [pc EXCEPT ![l] = c] /\ pc \in [Locals -> Steps] /\ cur \in [Locals -> Nat]
      /\ more \in [Locals -> BOOLEAN] /\ flight = [j \in Locals |-> flight[j]]
  BY DEF tables, Goes, Base, Loops
<1>2. /\ cur' = [cur EXCEPT ![l] = cursor'[l][c].safe] /\ cursor'[l][c].safe \in Nat
      /\ \A j \in Locals, w \in Ways : j # l \/ w # c => cursor'[j][w] = cursor[j][w]
      /\ cursor' \in [Locals -> [Ways -> [safe : Nat, history : Seq(Position)]]]
  BY SinceMeans
<1>3. pc'[l] = c /\ c \in Steps /\ \A j \in Locals : j # l => pc'[j] = pc[j] /\ cur'[j] = cur[j]
  BY <1>1, <1>2, Sides DEF Steps
<1>4. \A j \in Locals : j # l => cursor'[j] = cursor[j]
  BY <1>2, CursorsEqual
<1>5. OnlyMoves(l)
  BY <1>1, <1>3, <1>4 DEF OnlyMoves, LoopRests
<1>6. LoopTypes
  BY <1>1, <1>2, <1>3 DEF LoopTypes
<1>7. StoresMove /\ Brief' /\ \A j \in Locals : Holds(j)
  BY <1>1, TablesRest
<1>8. AnswerMoves(l)
  BY <1>3, Sides DEF AnswerMoves
<1>9. ASSUME NEW w \in Ways PROVE LineMoves(l, w)
  <2>1. CASE w = c
    <3>1. pc[l] \notin Phase(c)
      BY DEF Ways
    <3>2. Begins(l, c)
      BY <1>1, <1>3, <3>1 DEF Begins
    <3> QED
      BY <2>1, <3>2 DEF LineMoves
  <2>2. CASE w # c
    <3>1. cursor'[l][w] = cursor[l][w] /\ pc'[l] \notin Phase(w) /\ pc'[l] \notin Waiting(w)
      BY <1>2, <1>3, <2>2 DEF Phase, Waiting, Ways
    <3> QED
      BY <3>1 DEF LineMoves, Stays, Remains
  <2> QED
    BY <2>1, <2>2
<1>10. pc'[l] \notin Waiting("push") \cup Waiting("pull")
  BY <1>3, Sides DEF Waiting
<1> QED
  BY <1>1, <1>5, <1>6, <1>7, <1>8, <1>9, <1>10, OneLoopMoves

\* reads a page or ends,
LEMMA PagePhase ==
  ASSUME Base, NEW l \in Locals, NEW c \in Ways,
         (c = "push" /\ PushPage(l)) \/ (c = "pull" /\ PullPage(l))
  PROVE  StepMeans
<1> DEFINE s == Source(l, c)
           page == Page(s, cur[l])
<1>1. /\ now' = now /\ row' = row /\ open' = open /\ seq' = seq /\ limbo' = limbo
      /\ pc[l] = c /\ s \in Servers /\ cur[l] \in Nat
      /\ pc \in [Locals -> Steps] /\ cur \in [Locals -> Nat] /\ more \in [Locals -> BOOLEAN]
      /\ flight = [j \in Locals |-> flight[j]]
      /\ cursor \in [Locals -> [Ways -> [safe : Nat, history : Seq(Position)]]]
  BY Sides, Typing DEF PushPage, PullPage, tables, Base, Loops
<1>2. StoresMove /\ Brief' /\ \A j \in Locals : Holds(j)
  BY <1>1, TablesRest
<1>3. CASE page # NoRows
  <2>1. /\ flight' = [flight EXCEPT ![l] = page] /\ more' = [more EXCEPT ![l] = IsFull(s, cur[l])]
        /\ cursor' = cursor /\ cur' = cur
        /\ pc' = [pc EXCEPT ![l] = IF c = "push" THEN "sent" ELSE "reply"]
    BY <1>3, Sides DEF PushPage, PullPage, Reads, Goes
  <2>2. /\ flight'[l] = page /\ more'[l] = IsFull(s, cur[l]) /\ pc'[l] = IF c = "push" THEN "sent" ELSE "reply"
        /\ \A j \in Locals : j # l => pc'[j] = pc[j] /\ flight'[j] = flight[j] /\ more'[j] = more[j]
        /\ pc' \in [Locals -> Steps] /\ more' \in [Locals -> BOOLEAN] /\ flight' = [j \in Locals |-> flight'[j]]
    <3>1. IsFull(s, cur[l]) \in BOOLEAN /\ (IF c = "push" THEN "sent" ELSE "reply") \in Steps
      BY DEF Steps, IsFull
    <3>2. pc' \in [Locals -> Steps] /\ pc'[l] = (IF c = "push" THEN "sent" ELSE "reply")
          /\ \A j \in Locals : j # l => pc'[j] = pc[j]
      BY <1>1, <2>1, <3>1
    <3> HIDE DEF page
    <3>3. /\ flight'[l] = page /\ more'[l] = IsFull(s, cur[l])
          /\ \A j \in Locals : j # l => flight'[j] = flight[j] /\ more'[j] = more[j]
          /\ more' \in [Locals -> BOOLEAN] /\ flight' = [j \in Locals |-> flight'[j]]
      BY <1>1, <2>1, <3>1
    <3> QED
      BY <3>2, <3>3
  <2>3. OnlyMoves(l) /\ LoopTypes
    BY <1>1, <2>1, <2>2 DEF OnlyMoves, LoopRests, LoopTypes
  <2>4. DOMAIN flight'[l] # {} /\ \A k \in DOMAIN page : page[k] = row[s][k] /\ k \in Keys
    BY <1>1, <1>3, <2>2, Paging DEF ArePage
  <2>5. AnswerMoves(l)
    <3>1. CASE c = "push"
      BY <2>2, <3>1 DEF AnswerMoves
    <3>2. CASE c = "pull"
      <4>1. s = MAIN
        BY <3>2, Sides
      <4>2. \A k \in DOMAIN flight'[l] : Covers(row'[MAIN][k], flight'[l][k])
        BY <1>1, <2>2, <2>4, <4>1, Typing, CoversOrder
      <4> QED
        BY <4>2 DEF AnswerMoves, Has
    <3> QED
      BY <3>1, <3>2, Sides
  <2>6. ASSUME NEW w \in Ways PROVE LineMoves(l, w)
    <3>1. CASE w = c
      <4>1. pc'[l] \in Waiting(c)
        BY <2>2, Sides
      <4> QED
        BY <1>1, <1>3, <2>1, <2>2, <3>1, <4>1 DEF LineMoves, TakesPage
    <3>2. CASE w # c
      <4>1. cursor'[l][w] = cursor[l][w] /\ pc'[l] \notin Phase(w) /\ pc'[l] \notin Waiting(w)
        BY <2>1, <2>2, <3>2 DEF Phase, Waiting, Ways
      <4> QED
        BY <4>1 DEF LineMoves, Stays, Remains
    <3> QED
      BY <3>1, <3>2
  <2>7. \E i \in Servers : flight'[l] = Page(i, cur[l]) /\ Page(i, cur[l]) # NoRows
    BY <1>1, <1>3, <2>2
  <2> QED
    BY <1>1, <1>2, <2>3, <2>4, <2>5, <2>6, <2>7, OneLoopMoves
<1>4. CASE page = NoRows
  <2>1. /\ Finish(l, c) /\ pc' = [pc EXCEPT ![l] = IF c = "push" THEN "pushed" ELSE "idle"]
        /\ \/ flight' = flight /\ more' = more /\ cur' = cur
           \/ /\ flight' = [flight EXCEPT ![l] = NoRows] /\ more' = [more EXCEPT ![l] = FALSE]
              /\ cur' = [cur EXCEPT ![l] = 0]
    BY <1>4, Sides DEF PushPage, PullPage, EndCycle, Lands, Reads, Goes
  <2>2. /\ pc'[l] = IF c = "push" THEN "pushed" ELSE "idle"
        /\ \A j \in Locals : j # l => /\ pc'[j] = pc[j] /\ flight'[j] = flight[j] /\ more'[j] = more[j]
                                      /\ cur'[j] = cur[j]
        /\ flight'[l] \in {flight[l], NoRows}
        /\ pc' \in [Locals -> Steps] /\ more' \in [Locals -> BOOLEAN] /\ flight' = [j \in Locals |-> flight'[j]]
        /\ cur' \in [Locals -> Nat]
    <3>1. pc' \in [Locals -> Steps] /\ pc'[l] = (IF c = "push" THEN "pushed" ELSE "idle")
          /\ \A j \in Locals : j # l => pc'[j] = pc[j]
      BY <1>1, <2>1 DEF Steps
    <3>2. CASE flight' = flight /\ more' = more /\ cur' = cur
      BY <1>1, <3>1, <3>2
    <3>3. CASE /\ flight' = [flight EXCEPT ![l] = NoRows] /\ more' = [more EXCEPT ![l] = FALSE]
               /\ cur' = [cur EXCEPT ![l] = 0]
      BY <1>1, <3>1, <3>3
    <3> QED
      BY <2>1, <3>2, <3>3
  <2>3. /\ cursor' = [cursor EXCEPT ![l][c].history = Ended(@, "done")]
        /\ Ended(cursor[l][c].history, "done") \in Seq(Position)
    BY <2>1, Remembering, Marking DEF Finish
  <2>4. /\ cursor' \in [Locals -> [Ways -> [safe : Nat, history : Seq(Position)]]]
        /\ \A j \in Locals, w \in Ways : j # l \/ w # c => cursor'[j][w] = cursor[j][w]
    <3> DEFINE h == Ended(cursor[l][c].history, "done")
    <3>1. Rewrites(l, c, h) /\ h \in Seq(Position)
      BY <1>1, <2>3 DEF Rewrites
    <3> HIDE DEF h
    <3> QED
      BY <3>1, HistoryChanges
  <2>5. OnlyMoves(l) /\ LoopTypes
    BY <2>2, <2>4, CursorsEqual DEF OnlyMoves, LoopRests, LoopTypes
  <2>6. AnswerMoves(l)
    BY <2>2 DEF AnswerMoves
  <2>7. ASSUME NEW w \in Ways PROVE LineMoves(l, w)
    <3>1. pc'[l] \notin Phase(w) /\ pc'[l] \notin Waiting(w)
      BY <2>2 DEF Phase, Waiting, Ways
    <3>2. CASE w = c
      BY <1>1, <1>4, <2>1, <3>1, <3>2 DEF LineMoves, Finishes
    <3>3. CASE w # c
      BY <2>4, <3>1, <3>3 DEF LineMoves, Stays, Remains
    <3> QED
      BY <3>2, <3>3
  <2>8. pc'[l] \notin Waiting("push") \cup Waiting("pull")
    BY <2>2 DEF Waiting
  <2> QED
    BY <1>1, <1>2, <2>2, <2>5, <2>6, <2>7, <2>8, OneLoopMoves
<1> QED
  BY <1>3, <1>4

\* MAIN takes a push: what changes is held until the commit,
LEMMA PushArrivesMeans ==
  ASSUME Base, NEW l \in Locals, PushArrives(l)
  PROVE  StepMeans
<1>1. /\ BeginMerge(flight[l], l) /\ row' = row /\ now' = now /\ pc[l] = "sent" /\ pc' = [pc EXCEPT ![l] = "merging"]
      /\ cursor' = cursor /\ cur' = cur /\ flight' = flight /\ more' = more /\ limbo' = limbo /\ l \in Servers
      /\ pc \in [Locals -> Steps] /\ cur \in [Locals -> Nat] /\ more \in [Locals -> BOOLEAN]
      /\ flight = [j \in Locals |-> flight[j]]
      /\ cursor \in [Locals -> [Ways -> [safe : Nat, history : Seq(Position)]]]
  BY DEF PushArrives, Goes, Servers, Base, Loops
<1>2. /\ StoresMove
      /\ \A k \in DOMAIN flight[l] : \/ Covers(row[MAIN][k], flight[l][k])
                                     \/ open'[MAIN][k].by = l /\ Covers(open'[MAIN][k].row, flight[l][k])
      /\ \A k \in Keys : open[MAIN][k] # NoWrite => open'[MAIN][k] = open[MAIN][k]
  BY <1>1, MergeMoves
<1>3. Brief'
  BY <1>1, MergeBrief
<1>4. pc'[l] = "merging" /\ pc' \in [Locals -> Steps] /\ \A j \in Locals : j # l => pc'[j] = pc[j]
  BY <1>1 DEF Steps
<1>5. OnlyMoves(l) /\ LoopTypes
  BY <1>1, <1>4 DEF OnlyMoves, LoopRests, LoopTypes
<1>6. \A j \in Locals : j # l => Holds(j)
  BY <1>2, NoRowsYet, ChatSyncConstants DEF Holds
<1>7. AnswerMoves(l)
  BY <1>1, <1>2, <1>4 DEF AnswerMoves, Has
<1>8. \A c \in Ways : LineMoves(l, c)
  BY <1>1, <1>4 DEF LineMoves, Stays, Remains, Phase, Waiting, Ways
<1>9. DOMAIN flight'[l] # {}
  BY <1>1 DEF Base, Loops, Waiting
<1> QED
  BY <1>1, <1>2, <1>3, <1>5, <1>6, <1>7, <1>8, <1>9, OneLoopMoves

\* commits it,
LEMMA PushAppliedMeans ==
  ASSUME Base, NEW l \in Locals, PushApplied(l)
  PROVE  StepMeans
<1>1. /\ CommitMerge(l) /\ seq' = seq /\ now' = now /\ pc[l] = "merging" /\ pc' = [pc EXCEPT ![l] = "merged"]
      /\ cursor' = cursor /\ cur' = cur /\ flight' = flight /\ more' = more /\ limbo' = limbo
      /\ pc \in [Locals -> Steps] /\ cur \in [Locals -> Nat] /\ more \in [Locals -> BOOLEAN]
      /\ flight = [j \in Locals |-> flight[j]]
      /\ cursor \in [Locals -> [Ways -> [safe : Nat, history : Seq(Position)]]]
  BY DEF PushApplied, Goes, Base, Loops
<1>2. /\ StoresMove
      /\ \A k \in Keys : row'[MAIN][k] = IF open[MAIN][k].by = l THEN open[MAIN][k].row ELSE row[MAIN][k]
  BY <1>1, CommitMoves
<1>3. /\ open \in [Servers -> [Keys -> Held]] /\ MAIN \in Servers
      /\ open' = [open EXCEPT ![MAIN] = [k \in Keys |->
                    IF k \in HeldFor(l) THEN NoWrite ELSE open[MAIN][k]]]
  BY <1>1 DEF CommitMerge, Base, Stores, Servers
<1>4. \A s \in Servers, k \in Keys :
        \/ open'[s][k] = open[s][k]
        \/ s = MAIN /\ open[MAIN][k].by = l /\ open'[s][k] = NoWrite
  BY <1>3 DEF HeldFor
<1>5. Brief'
  <2>1. OpenFor \in Nat \ {0}
    BY ChatSyncConstants
  <2> QED
    BY <1>4, <2>1, NoRowsYet DEF Base, Brief
<1>6. pc'[l] = "merged" /\ pc' \in [Locals -> Steps] /\ \A j \in Locals : j # l => pc'[j] = pc[j]
  BY <1>1 DEF Steps
<1>7. OnlyMoves(l) /\ LoopTypes
  BY <1>1, <1>6 DEF OnlyMoves, LoopRests, LoopTypes
<1>8. \A j \in Locals : j # l => Holds(j)
  BY <1>3, <1>4 DEF Holds
<1>9. AnswerMoves(l)
  BY <1>1, <1>2, <1>6 DEF AnswerMoves
<1>10. \A c \in Ways : LineMoves(l, c)
  BY <1>1, <1>6 DEF LineMoves, Stays, Remains, Phase, Waiting, Ways
<1>11. DOMAIN flight'[l] # {}
  BY <1>1 DEF Base, Loops, Waiting
<1> QED
  BY <1>1, <1>2, <1>5, <1>7, <1>8, <1>9, <1>10, <1>11, OneLoopMoves

\* What a page that was taken makes of the cursor.
LEMMA AdvanceMeans ==
  ASSUME Base, NEW l \in Locals, NEW c \in Ways, pc[l] \in Waiting("push") \cup Waiting("pull"),
         Advance(l, c, flight[l], more[l])
  PROVE  /\ cursor' \in [Locals -> [Ways -> [safe : Nat, history : Seq(Position)]]]
         /\ \A j \in Locals, w \in Ways : j # l \/ w # c => cursor'[j][w] = cursor[j][w]
         /\ cur' \in [Locals -> Nat] /\ \A j \in Locals : j # l => cur'[j] = cur[j]
<1> DEFINE last == LastSeq(flight[l])
           g == Remembered(cursor[l][c].history, last)
           h == IF more[l] THEN g ELSE Ended(g, "done")
<1>1. last \in Nat
  BY Typing, PageNumbers DEF Base, Loops
<1>2. cur \in [Locals -> Nat] /\ cur' = [cur EXCEPT ![l] = last]
  BY DEF Advance, Base, Loops
<1>3. Rewrites(l, c, h)
  BY DEF Advance, Rewrites
<1>4. h \in Seq(Position)
  <2>1. g \in Seq(Position)
    BY <1>1, Remembering, Appending
  <2> HIDE DEF g
  <2> QED
    BY <2>1, Marking
<1> HIDE DEF last, h
<1> QED
  BY <1>1, <1>2, <1>3, <1>4, HistoryChanges

\* and answers; the LOCAL remembers how far it has come.
LEMMA PushAnsweredMeans ==
  ASSUME Base, NEW l \in Locals, PushAnswered(l)
  PROVE  StepMeans
<1>1. /\ Advance(l, "push", flight[l], more[l]) /\ now' = now /\ row' = row /\ open' = open /\ seq' = seq /\ limbo' = limbo
      /\ pc[l] = "merged" /\ pc' = [pc EXCEPT ![l] = IF more[l] THEN "push" ELSE "pushed"]
      /\ flight' = [flight EXCEPT ![l] = NoRows] /\ more' = [more EXCEPT ![l] = FALSE]
      /\ pc \in [Locals -> Steps] /\ more \in [Locals -> BOOLEAN] /\ flight = [j \in Locals |-> flight[j]]
      /\ "push" \in Ways
  BY DEF PushAnswered, Goes, Lands, Reads, tables, Base, Loops, Ways
<1>2. /\ cursor' \in [Locals -> [Ways -> [safe : Nat, history : Seq(Position)]]]
      /\ \A j \in Locals, w \in Ways : j # l \/ w # "push" => cursor'[j][w] = cursor[j][w]
      /\ cur' \in [Locals -> Nat] /\ \A j \in Locals : j # l => cur'[j] = cur[j]
  BY <1>1, AdvanceMeans DEF Waiting
<1>3. /\ pc'[l] = (IF more[l] THEN "push" ELSE "pushed") /\ pc' \in [Locals -> Steps]
      /\ flight'[l] = NoRows /\ flight' = [j \in Locals |-> flight'[j]] /\ more' \in [Locals -> BOOLEAN]
      /\ \A j \in Locals : j # l => pc'[j] = pc[j] /\ flight'[j] = flight[j] /\ more'[j] = more[j]
  BY <1>1 DEF Steps
<1>4. OnlyMoves(l) /\ LoopTypes
  BY <1>2, <1>3, CursorsEqual DEF OnlyMoves, LoopRests, LoopTypes
<1>5. StoresMove /\ Brief' /\ \A j \in Locals : Holds(j)
  BY <1>1, TablesRest
<1>6. AnswerMoves(l)
  BY <1>3 DEF AnswerMoves
<1>7. ASSUME NEW c \in Ways PROVE LineMoves(l, c)
  <2>1. CASE c = "push"
    <3>1. Source(l, c) \in Servers
      BY Sides
    <3>2. Advances(l, "push")
      BY <1>1, <1>3 DEF Advances, Phase, Waiting
    <3> QED
      BY <2>1, <3>2 DEF LineMoves
  <2>2. CASE c = "pull"
    BY <1>2, <1>3, <2>2 DEF LineMoves, Stays, Remains, Phase, Waiting
  <2> QED
    BY <2>1, <2>2 DEF Ways
<1>8. pc'[l] \notin Waiting("push") \cup Waiting("pull")
  BY <1>3 DEF Waiting
<1> QED
  BY <1>1, <1>3, <1>4, <1>5, <1>6, <1>7, <1>8, OneLoopMoves

\* The LOCAL applies what MAIN answered.
LEMMA PullApplyMeans ==
  ASSUME Base, NEW l \in Locals, PullApply(l)
  PROVE  StepMeans
<1>1. /\ MergeAtLocal(l, flight[l]) /\ Advance(l, "pull", flight[l], more[l])
      /\ now' = now /\ open' = open /\ limbo' = limbo
      /\ pc[l] = "reply" /\ pc' = [pc EXCEPT ![l] = IF more[l] THEN "pull" ELSE "idle"]
      /\ flight' = [flight EXCEPT ![l] = NoRows] /\ more' = [more EXCEPT ![l] = FALSE]
      /\ pc \in [Locals -> Steps] /\ more \in [Locals -> BOOLEAN] /\ flight = [j \in Locals |-> flight[j]]
      /\ "pull" \in Ways
  BY DEF PullApply, Goes, Lands, Reads, Base, Loops, Ways
<1>2. /\ cursor' \in [Locals -> [Ways -> [safe : Nat, history : Seq(Position)]]]
      /\ \A j \in Locals, w \in Ways : j # l \/ w # "pull" => cursor'[j][w] = cursor[j][w]
      /\ cur' \in [Locals -> Nat] /\ \A j \in Locals : j # l => cur'[j] = cur[j]
  BY <1>1, AdvanceMeans DEF Waiting
<1>3. /\ pc'[l] = (IF more[l] THEN "pull" ELSE "idle") /\ pc' \in [Locals -> Steps]
      /\ flight'[l] = NoRows /\ flight' = [j \in Locals |-> flight'[j]] /\ more' \in [Locals -> BOOLEAN]
      /\ \A j \in Locals : j # l => pc'[j] = pc[j] /\ flight'[j] = flight[j] /\ more'[j] = more[j]
  BY <1>1 DEF Steps
<1>4. OnlyMoves(l) /\ LoopTypes
  BY <1>2, <1>3, CursorsEqual DEF OnlyMoves, LoopRests, LoopTypes
<1>5. /\ StoresMove /\ row'[MAIN] = row[MAIN]
      /\ \A k \in DOMAIN flight[l] : Covers(row'[l][k], flight[l][k])
  <2>1. pc'[l] \notin Phase("push")
    BY <1>3 DEF Phase, Waiting
  <2> QED
    BY <1>1, <2>1, LocalMergeMoves
<1>6. Brief' /\ \A j \in Locals : Holds(j)
  BY <1>1 DEF Base, Brief, Holds
<1>7. AnswerMoves(l)
  BY <1>3 DEF AnswerMoves
<1>8. ASSUME NEW c \in Ways PROVE LineMoves(l, c)
  <2>1. CASE c = "pull"
    <3>1. Source(l, "pull") = MAIN /\ seq' = seq
      BY <1>1 DEF Source, MergeAtLocal
    <3>2. Advances(l, "pull")
      BY <1>1, <1>3, <1>5, <3>1 DEF Advances, Phase, Waiting
    <3> QED
      BY <2>1, <3>2 DEF LineMoves
  <2>2. CASE c = "push"
    BY <1>2, <1>3, <2>2 DEF LineMoves, Stays, Remains, Phase, Waiting
  <2> QED
    BY <2>1, <2>2 DEF Ways
<1>9. pc'[l] \notin Waiting("push") \cup Waiting("pull")
  BY <1>3 DEF Waiting
<1> QED
  BY <1>1, <1>3, <1>4, <1>5, <1>6, <1>7, <1>8, <1>9, OneLoopMoves

\* The cycle fails, or the process dies: no position is new, and what MAIN was
\* applying it goes on applying for nobody.
LEMMA BreakOffMeans ==
  ASSUME Base, NEW l \in Locals, CycleFails(l) \/ Crash(l)
  PROVE  StepMeans
<1>1. PICK keep \in BOOLEAN : BreakOff(l, keep)
  BY DEF CycleFails, Crash
<1>2. /\ now' = now /\ row' = row /\ seq' = seq /\ pc' = [pc EXCEPT ![l] = "idle"] /\ cur' = [cur EXCEPT ![l] = 0]
      /\ flight' = [flight EXCEPT ![l] = NoRows] /\ more' = [more EXCEPT ![l] = FALSE]
      /\ \A rows \in limbo' : rows \in limbo \/ rows = flight[l]
      /\ open' = [open EXCEPT ![MAIN] = [k \in Keys |->
                    IF k \in HeldFor(l) THEN [open[MAIN][k] EXCEPT !.by = MAIN] ELSE open[MAIN][k]]]
      /\ pc \in [Locals -> Steps] /\ more \in [Locals -> BOOLEAN] /\ flight = [j \in Locals |-> flight[j]]
      /\ cur \in [Locals -> Nat] /\ open \in [Servers -> [Keys -> Held]] /\ MAIN \in Servers /\ l # MAIN
  <2>1. /\ EndCycle(l) /\ Abandons(l) /\ now' = now /\ row' = row /\ seq' = seq
    BY DEF CycleFails, Crash
  <2>2. \A rows \in limbo' : rows \in limbo \/ rows = flight[l]
    BY <2>1 DEF Abandons
  <2>3. /\ pc \in [Locals -> Steps] /\ more \in [Locals -> BOOLEAN] /\ flight = [j \in Locals |-> flight[j]]
        /\ cur \in [Locals -> Nat] /\ open \in [Servers -> [Keys -> Held]] /\ MAIN \in Servers /\ l # MAIN
    BY ChatSyncConstants DEF Base, Loops, Stores, Servers
  <2> QED
    BY <2>1, <2>2, <2>3 DEF EndCycle, Goes, Lands, Reads, Abandons
<1>3. /\ pc'[l] = "idle" /\ pc' \in [Locals -> Steps] /\ cur' \in [Locals -> Nat]
      /\ flight'[l] = NoRows /\ flight' = [j \in Locals |-> flight'[j]] /\ more' \in [Locals -> BOOLEAN]
      /\ \A j \in Locals : j # l => /\ pc'[j] = pc[j] /\ cur'[j] = cur[j] /\ flight'[j] = flight[j]
                                    /\ more'[j] = more[j]
  BY <1>2 DEF Steps
<1>4. /\ cursor' \in [Locals -> [Ways -> [safe : Nat, history : Seq(Position)]]]
      /\ \A j \in Locals : j # l => cursor'[j] = cursor[j]
      /\ \A c \in Ways : /\ cursor'[l][c].safe = cursor[l][c].safe
                         /\ cursor'[l][c].history = IF keep THEN Ended(cursor[l][c].history, "no") ELSE <<>>
  <2> DEFINE h(c) == IF keep THEN Ended(cursor[l][c].history, "no") ELSE <<>>
  <2>1. \A c \in Ways : h(c) \in Seq(Position) /\ cursor[l][c] \in [safe : Nat, history : Seq(Position)]
    BY Remembering, Marking DEF Base, Loops
  <2>2. cursor' = [cursor EXCEPT ![l] = [c \in Ways |-> [cursor[l][c] EXCEPT !.history = h(c)]]]
    BY <1>1 DEF BreakOff
  <2>3. cursor \in [Locals -> [Ways -> [safe : Nat, history : Seq(Position)]]]
    BY DEF Base, Loops
  <2>4. \A c \in Ways : [cursor[l][c] EXCEPT !.history = h(c)] \in [safe : Nat, history : Seq(Position)]
    BY <2>1
  <2>5. \A c \in Ways : cursor'[l][c].safe = cursor[l][c].safe /\ cursor'[l][c].history = h(c)
    BY <2>1, <2>2, <2>3
  <2> HIDE DEF h
  <2>6. /\ cursor' \in [Locals -> [Ways -> [safe : Nat, history : Seq(Position)]]]
        /\ \A j \in Locals : j # l => cursor'[j] = cursor[j]
    BY <2>2, <2>3, <2>4
  <2> QED
    BY <2>5, <2>6 DEF h
<1>5. OnlyMoves(l) /\ LoopTypes
  BY <1>3, <1>4 DEF OnlyMoves, LoopRests, LoopTypes
<1>6. \A s \in Servers, k \in Keys :
        \/ open'[s][k] = open[s][k]
        \/ s = MAIN /\ open[s][k].by = l /\ open'[s][k] = [open[s][k] EXCEPT !.by = MAIN]
  BY <1>2 DEF HeldFor
<1>7. /\ open' \in [Servers -> [Keys -> Held]]
      /\ \A s \in Servers, k \in Keys : /\ open'[s][k].row = open[s][k].row /\ open'[s][k].age = open[s][k].age
                                        /\ open[s][k] \in Held
  <2>1. \A s \in Servers, k \in Keys : open[s][k] \in Held
    BY <1>2
  <2>2. \A s \in Servers, k \in Keys :
          /\ [open[s][k] EXCEPT !.by = MAIN] \in Held
          /\ [open[s][k] EXCEPT !.by = MAIN].row = open[s][k].row
          /\ [open[s][k] EXCEPT !.by = MAIN].age = open[s][k].age
    <3> SUFFICES ASSUME NEW s \in Servers, NEW k \in Keys
                 PROVE  LET w == [open[s][k] EXCEPT !.by = MAIN]
                        IN  w \in Held /\ w.row = open[s][k].row /\ w.age = open[s][k].age
      OBVIOUS
    <3>1. open[s][k] \in Held
      BY <2>1
    <3> QED
      BY <1>2, <3>1 DEF Held
  <2>3. open' \in [Servers -> [Keys -> Held]]
    BY <1>2, <2>1, <2>2
  <2>4. ASSUME NEW s \in Servers, NEW k \in Keys
        PROVE  open'[s][k].row = open[s][k].row /\ open'[s][k].age = open[s][k].age
    <3>1. CASE open'[s][k] = open[s][k]
      BY <3>1
    <3>2. CASE open'[s][k] = [open[s][k] EXCEPT !.by = MAIN]
      BY <2>2, <3>2
    <3> QED
      BY <1>6, <3>1, <3>2
  <2> QED
    BY <2>1, <2>3, <2>4
<1>8. \A s \in Servers, k \in Keys : open'[s][k] = NoWrite <=> open[s][k] = NoWrite
  <2> SUFFICES ASSUME NEW s \in Servers, NEW k \in Keys, open'[s][k] # open[s][k]
               PROVE  open'[s][k] # NoWrite /\ open[s][k] # NoWrite
    OBVIOUS
  <2>1. s = MAIN /\ open[s][k].by = l /\ open'[s][k] = [open[s][k] EXCEPT !.by = MAIN] /\ open[s][k] \in Held
    BY <1>6, <1>7
  <2>2. open[s][k] # NoWrite
    BY <1>2, <2>1, NoRowsYet
  <2>3. open[s][k].row # NoRow
    BY <2>2, NoRowsYet DEF Base, Numbered
  <2> QED
    BY <1>7, <2>2, <2>3, NoRowsYet
<1>9. StoresMove
  <2>1. \A s \in Servers, k \in Keys : open[s][k].age \in Nat
    BY Typing
  <2> QED
    BY <1>2, <1>7, <1>8, <2>1, Quiet
<1>10. Brief'
  BY <1>7 DEF Base, Brief
<1>11. \A j \in Locals : j # l => Holds(j)
  BY <1>2, <1>6 DEF Holds
<1>12. AnswerMoves(l)
  BY <1>3 DEF AnswerMoves
<1>13. ASSUME NEW c \in Ways PROVE LineMoves(l, c)
  <2>1. \A i \in DOMAIN cursor'[l][c].history : \E j \in DOMAIN cursor[l][c].history :
          Remains(cursor'[l][c].history[i], cursor[l][c].history[j])
    <3>1. CASE keep
      <4> DEFINE h == cursor[l][c].history
      <4>1. cursor'[l][c].history = Ended(h, "no") /\ h \in Seq(Position)
        BY <1>4, <3>1, Remembering
      <4>2. /\ DOMAIN Ended(h, "no") = DOMAIN h
            /\ \A i \in DOMAIN h : LET p == Ended(h, "no")[i]
                                   IN  /\ p.seq = h[i].seq /\ p.age = h[i].age
                                       /\ p.read = IF h[i].read = "begun" THEN "no" ELSE h[i].read
        BY <4>1, Marking
      <4> HIDE DEF h
      <4>3. \A i \in DOMAIN h : Remains(Ended(h, "no")[i], h[i])
        BY <4>2 DEF Remains
      <4> QED
        BY <4>1, <4>2, <4>3 DEF h
    <3>2. CASE ~keep
      BY <1>4, <3>2
    <3> QED
      BY <3>1, <3>2
  <2>2. pc'[l] \notin Phase(c) /\ pc'[l] \notin Waiting(c)
    BY <1>3 DEF Phase, Waiting, Ways
  <2> QED
    BY <1>4, <2>1, <2>2 DEF LineMoves, Stays
<1>14. pc'[l] \notin Waiting("push") \cup Waiting("pull")
  BY <1>3 DEF Waiting
<1> QED
  BY <1>2, <1>3, <1>5, <1>9, <1>10, <1>11, <1>12, <1>13, <1>14, OneLoopMoves

\* Every step is one of these.
LEMMA StepsMean ==
  ASSUME Base, [ChatNext]_chatVars
  PROVE  StepMeans /\ Base'
<1>1. StepMeans
  <2>1. CASE UNCHANGED chatVars
    <3>1. now' = now /\ row' = row /\ open' = open /\ seq' = seq /\ UNCHANGED loop /\ limbo' = limbo
      BY <2>1 DEF chatVars, tables
    <3> QED
      BY <3>1, TablesRest, NoLoopMoves
  <2>2. ASSUME NEW s \in Servers, NEW k \in Keys, Write(s, k) \/ BeginWrite(s, k) \/ EndWrite(s, k)
        PROVE  StepMeans
    BY <2>2, WriteMeans, EndWriteMeans
  <2>3. ASSUME NEW l \in Locals, PushSteps(l) \/ PullSteps(l) PROVE StepMeans
    <3>1. CASE BeginPush(l)
      BY <3>1, BeginPhase DEF BeginPush, Ways, Phase, Waiting
    <3>2. CASE BeginPull(l)
      BY <3>2, BeginPhase DEF BeginPull, Ways, Phase, Waiting
    <3>3. CASE PushPage(l)
      BY <3>3, PagePhase DEF Ways
    <3>4. CASE PullPage(l)
      BY <3>4, PagePhase DEF Ways
    <3> QED
      BY <2>3, <3>1, <3>2, <3>3, <3>4, PushArrivesMeans, PushAppliedMeans, PushAnsweredMeans, PullApplyMeans
      DEF PushSteps, PullSteps
  <2>4. ASSUME NEW l \in Locals, CycleFails(l) \/ Crash(l) PROVE StepMeans
    BY <2>4, BreakOffMeans
  <2>5. ASSUME NEW rows \in limbo, LateArrival(rows) PROVE StepMeans
    BY <2>5, LateArrivalMeans
  <2> QED
    BY <2>1, <2>2, <2>3, <2>4, <2>5, TickMeans DEF ChatNext
<1>2. Base'
  BY <1>1, MovedNumbers DEF Base, StepMeans, StoresMove
<1> QED
  BY <1>1, <1>2

\* It keeps what a cursor stands for,
LEMMA LineKept ==
  ASSUME Base, [ChatNext]_chatVars, Prompt, NEW l \in Locals, NEW c \in Ways, Line(l, c),
         Grows(Target(l, c)), c = "push" => Answers(l)
  PROVE  Line(l, c)'
<1>1. Base' /\ StoresMove /\ LineMoves(l, c)
  BY StepsMean DEF StepMeans
<1> QED
  BY <1>1, LineStays, LineBegins, LineReads, LineFinishes, LineAdvances, LineTicks DEF LineMoves

\* and what MAIN has of a page.
LEMMA AnswersKept ==
  ASSUME Base, [ChatNext]_chatVars, NEW l \in Locals, Answers(l), Grows(MAIN)
  PROVE  Answers(l)'
<1> SUFFICES ASSUME pc'[l] \in {"merging", "merged", "reply"}, NEW k \in DOMAIN flight'[l]
             PROVE  Has(l, k)'
  BY DEF Answers
<1>1. Base' /\ MAIN \in Servers /\ AnswerMoves(l)
  BY StepsMean DEF StepMeans, Servers
<1>2. /\ k \in Keys /\ flight'[l][k] \in Row /\ row'[MAIN][k] \in Row /\ row[MAIN][k] \in Row
      /\ open[MAIN][k].row \in Row
  <2>1. k \in Keys /\ flight'[l][k] \in Row
    <3>1. ArePage(flight'[l])
      BY <1>1 DEF Base, Loops, ArePage
    <3> QED
      BY <3>1 DEF ArePage
  <2> QED
    BY <1>1, <2>1, Typing DEF Base, Stores
<1>3. CASE pc'[l] = pc[l] /\ flight'[l] = flight[l] /\ Holds(l)
  <2>1. Has(l, k)
    BY <1>3 DEF Answers
  <2>2. CASE Covers(row[MAIN][k], flight[l][k])
    BY <1>2, <1>3, <2>2, CoversOrder DEF Grows, Has
  <2>3. CASE pc[l] = "merging" /\ open[MAIN][k].by = l /\ Covers(open[MAIN][k].row, flight[l][k])
    BY <1>2, <1>3, <2>3 DEF Holds, Has
  <2> QED
    BY <2>1, <2>2, <2>3 DEF Has
<1>4. CASE /\ pc[l] = "merging" /\ pc'[l] = "merged" /\ flight'[l] = flight[l]
           /\ \A j \in Keys : row'[MAIN][j] = IF open[MAIN][j].by = l THEN open[MAIN][j].row ELSE row[MAIN][j]
  <2>1. Has(l, k)
    BY <1>4 DEF Answers
  <2>2. CASE Covers(row[MAIN][k], flight[l][k])
    BY <1>2, <1>4, <2>2, CoversOrder DEF Grows, Has
  <2>3. CASE open[MAIN][k].by = l /\ Covers(open[MAIN][k].row, flight[l][k])
    BY <1>2, <1>4, <2>3 DEF Has
  <2> QED
    BY <2>1, <2>2, <2>3 DEF Has
<1> QED
  BY <1>1, <1>3, <1>4 DEF AnswerMoves

-----------------------------------------------------------------------------
(* At first no cursor stands for anything.                                 *)

\* Nothing was written, stamped or read.
LEMMA AtFirst ==
  ASSUME ChatInit
  PROVE  /\ Base /\ \A d \in Servers : Stamped(d)
         /\ \A l \in Locals : Answers(l) /\ \A c \in Ways : Line(l, c)
<1>1. /\ now = 0 /\ seq = [s \in Servers |-> 0] /\ limbo = {}
      /\ row = [s \in Servers |-> [k \in Keys |-> NoRow]]
      /\ open = [s \in Servers |-> [k \in Keys |-> NoWrite]]
      /\ cursor = [l \in Locals |-> [c \in Ways |-> Cursor]]
      /\ pc = [l \in Locals |-> "idle"] /\ cur = [l \in Locals |-> 0]
      /\ flight = [l \in Locals |-> NoRows] /\ more = [l \in Locals |-> FALSE]
  BY DEF ChatInit
<1>2. Cursor.safe = 0 /\ Cursor.history = <<>> /\ Cursor \in [safe : Nat, history : Seq(Position)]
  BY DEF Cursor
<1>3. Stores
  BY <1>1, NoRowsYet DEF Stores
<1>4. Loops
  BY <1>1, <1>2, NoRowsYet DEF Loops, Steps, Waiting
<1>5. Numbered /\ Brief
  <2>1. OpenFor \in Nat \ {0}
    BY ChatSyncConstants
  <2> QED
    BY <1>1, <2>1, NoRowsYet DEF Numbered, Brief
<1>6. ASSUME NEW d \in Servers PROVE Stamped(d)
  <2>1. Ahead[d] \in Nat
    BY ChatSyncConstants
  <2> QED
    BY <1>1, <2>1, NoRowsYet DEF Stamped, Before
<1>7. ASSUME NEW l \in Locals PROVE Answers(l)
  BY <1>1 DEF Answers
<1>8. ASSUME NEW l \in Locals, NEW c \in Ways PROVE Line(l, c)
  <2>1. pc[l] \notin Phase(c) /\ pc[l] \notin Waiting(c) /\ cursor[l][c].safe = 0 /\ DOMAIN cursor[l][c].history = {}
    BY <1>1, <1>2 DEF Phase, Waiting, Ways
  <2>2. /\ Source(l, c) \in Servers /\ seq[Source(l, c)] = 0
        /\ \A k \in Keys : open[Source(l, c)][k] = NoWrite /\ row[Source(l, c)][k].seq = 0
    BY <1>1, NoRowsYet, Sides
  <2> QED
    BY <2>1, <2>2 DEF Line, Positions, Marks, Pending, Unknown
<1> QED
  BY <1>3, <1>4, <1>5, <1>6, <1>7, <1>8 DEF Base

\* Nothing behind a saved push cursor is unknown to MAIN, if no LOCAL's clock is
\* ahead of MAIN's, so that MAIN's own write never hides a later one ("newer
\* updated_at wins" trusts the clocks), and Prompt: transactions end within OpenFor
\* ticks, and before a position is OVERLAP_MS old, a push that began as many ticks
\* after it was remembered has come to its end.
THEOREM PushesCover == Prompt /\ Latest(MAIN) => (ChatSpec => []PushCovers)
<1> SUFFICES ASSUME Prompt, Latest(MAIN) PROVE ChatSpec => []PushCovers
  OBVIOUS
<1>0. MAIN \in Servers /\ "push" \in Ways /\ \A l : Target(l, "push") = MAIN /\ Source(l, "push") = l
  BY DEF Servers, Ways, Target, Source
<1>1. ChatInit => PushInv
  BY <1>0, AtFirst DEF PushInv
<1>2. PushInv /\ [ChatNext]_chatVars => PushInv'
  <2> SUFFICES ASSUME PushInv, [ChatNext]_chatVars PROVE PushInv'
    OBVIOUS
  <2>1. Base /\ Base' /\ StoresMove /\ Flow
    BY StepsMean DEF PushInv, StepMeans
  <2>2. Stamped(MAIN)' /\ Grows(MAIN)
    BY <1>0, <2>1, MovedRows, MovedStamps DEF PushInv
  <2>3. \A l \in Locals : Line(l, "push")' /\ Answers(l)'
    BY <1>0, <2>2, LineKept, AnswersKept DEF PushInv
  <2> QED
    BY <2>1, <2>2, <2>3 DEF PushInv
<1>3. PushInv => PushCovers
  <2> SUFFICES ASSUME PushInv, NEW l \in Locals, NEW k \in Keys, row[l][k].seq \in 1..cursor[l]["push"].safe,
                      ~Known(l, "push", k)
               PROVE  FALSE
    BY <1>0 DEF PushCovers, Known, Covers
  <2>1. row[l][k].seq \in Nat /\ cursor[l]["push"].safe \in Nat
    BY <1>0, Typing DEF PushInv, Servers
  <2> QED
    BY <1>0, <2>1 DEF PushInv, Line, Unknown
<1> QED
  BY <1>1, <1>2, <1>3, PTL DEF ChatSpec

\* The same of the pull, where no clock may be ahead of that of the LOCAL.
THEOREM PullsCover == Prompt /\ (\A l \in Locals : Latest(l)) => (ChatSpec => []PullCovers)
<1> SUFFICES ASSUME Prompt, \A l \in Locals : Latest(l) PROVE ChatSpec => []PullCovers
  OBVIOUS
<1>0. /\ MAIN \in Servers /\ Locals \subseteq Servers /\ "pull" \in Ways
      /\ \A l : Target(l, "pull") = l /\ Source(l, "pull") = MAIN
  BY DEF Servers, Ways, Target, Source
<1>1. ChatInit => PullInv
  BY <1>0, AtFirst DEF PullInv
<1>2. PullInv /\ [ChatNext]_chatVars => PullInv'
  <2> SUFFICES ASSUME PullInv, [ChatNext]_chatVars PROVE PullInv'
    OBVIOUS
  <2>1. Base /\ Base' /\ StoresMove /\ Flow
    BY StepsMean DEF PullInv, StepMeans
  <2>2. \A l \in Locals : Stamped(l)' /\ Grows(l)
    BY <1>0, <2>1, MovedRows, MovedStamps DEF PullInv
  <2>3. \A l \in Locals : Line(l, "pull")'
    BY <1>0, <2>2, LineKept DEF PullInv
  <2> QED
    BY <2>1, <2>2, <2>3 DEF PullInv
<1>3. PullInv => PullCovers
  <2> SUFFICES ASSUME PullInv, NEW l \in Locals, NEW k \in Keys, row[MAIN][k].seq \in 1..cursor[l]["pull"].safe,
                      ~Known(l, "pull", k)
               PROVE  FALSE
    BY <1>0 DEF PullCovers, Known, Covers
  <2>1. row[MAIN][k].seq \in Nat /\ cursor[l]["pull"].safe \in Nat
    BY <1>0, Typing DEF PullInv
  <2> QED
    BY <1>0, <2>1 DEF PullInv, Line, Unknown
<1> QED
  BY <1>1, <1>2, <1>3, PTL DEF ChatSpec

\* Where the clocks agree, a row gets a number only with new content: what is
\* sent again, or applied from the other side, is not sent on.
THEOREM NumbersMeanNews == (\A s \in Servers : Latest(s)) => (ChatSpec => NoEcho)
<1> SUFFICES ASSUME \A s \in Servers : Latest(s) PROVE ChatSpec => NoEcho
  OBVIOUS
<1>1. ChatInit => EchoInv
  BY AtFirst DEF EchoInv
<1>2. EchoInv /\ [ChatNext]_chatVars => EchoInv' /\ \A s \in Servers : Newly(s)
  <2> SUFFICES ASSUME EchoInv, [ChatNext]_chatVars PROVE EchoInv' /\ \A s \in Servers : Newly(s)
    OBVIOUS
  <2>1. Base /\ Base' /\ StoresMove /\ Flow
    BY StepsMean DEF EchoInv, StepMeans
  <2>2. \A s \in Servers : Stamped(s)' /\ Newly(s)
    BY <2>1, MovedRows, MovedStamps DEF EchoInv
  <2> QED
    BY <2>1, <2>2 DEF EchoInv
<1>3. EchoInv /\ [ChatNext]_chatVars =>
        \A s \in Servers, k \in Keys :
          row'[s][k].seq > row[s][k].seq =>
            [row'[s][k] EXCEPT !.seq = 0] # [row[s][k] EXCEPT !.seq = 0]
  BY <1>2 DEF Newly, Same
<1> QED
  BY <1>1, <1>2, <1>3, PTL DEF ChatSpec, NoEcho

-----------------------------------------------------------------------------
(* Equal stamps are equal bodies, so that a row of which both cursors have *)
(* come to the end is the same on both sides.                              *)

\* An updated_at stands for one body of its row.
StampsTell ==
  \A k \in Keys : \A a, b \in CopiesOf(k) : a.at = b.at => a.body = b.body

\* What has no number is known on the other side: it is not there, or came from MAIN.
Unnumbered(l, c) ==
  \A k \in Keys : row[Source(l, c)][k].seq = 0 => Known(l, c, k)

AgreeInv ==
  /\ EchoInv /\ StampsTell
  /\ \A l \in Locals : Answers(l) /\ \A c \in Ways : Unnumbered(l, c)

\* No stamp is handed out twice where the clocks agree.
LEMMA StampsTellNext ==
  ASSUME EchoInv, StampsTell, [ChatNext]_chatVars, \A s \in Servers : Latest(s)
  PROVE  StampsTell'
<1> SUFFICES ASSUME NEW k \in Keys, NEW a \in CopiesOf(k)', NEW b \in CopiesOf(k)', a.at = b.at
             PROVE  a.body = b.body
  BY DEF StampsTell
<1>1. Base /\ MAIN \in Servers /\ now \in Nat /\ Ahead[MAIN] \in Nat /\ Stamped(MAIN)
  BY ChatSyncConstants DEF Servers, EchoInv, Base, Stores
<1>2. PICK image : \A m \in CopiesOf(k)' : Comes(k, m, image)
  BY <1>1, StepsMean, CopiesNext DEF StepMeans
<1>3. ASSUME NEW m, Carried(k, m) PROVE m.at <= now + Ahead[MAIN]
  BY <1>1, <1>3, CopiesStamped DEF Carried, AsIn, Before
<1>4. ASSUME NEW m, Written(m) PROVE m.at = now + 1 + Ahead[MAIN]
  <2>1. PICK s \in Servers : m.at = Clock(s)
    BY <1>4 DEF Written
  <2>2. Ahead[s] = Ahead[MAIN]
    BY <1>1, ChatSyncConstants DEF Latest
  <2> QED
    BY <2>1, <2>2 DEF Clock
<1>5. CASE Carried(k, a) /\ Carried(k, b)
  BY <1>5 DEF Carried, AsIn, StampsTell
<1>6. CASE ~(Carried(k, a) /\ Carried(k, b))
  BY <1>1, <1>2, <1>3, <1>4, <1>6 DEF Comes
<1> QED
  BY <1>5, <1>6

\* A row that loses nothing of its own, and takes only what MAIN answered,
\* stays known without a number.
LEMMA UnnumberedKept ==
  ASSUME Base, Base', StoresMove, NEW l \in Locals, NEW c \in Ways, Unnumbered(l, c), Answers(l),
         Grows(Target(l, c))
  PROVE  Unnumbered(l, c)'
<1> DEFINE s == Source(l, c)
           t == Target(l, c)
<1> SUFFICES ASSUME NEW k \in Keys, row'[s][k].seq = 0 PROVE Covers(row'[t][k], row'[s][k])
  BY Sides DEF Unnumbered, Known
<1>1. s \in Servers /\ t \in Servers
  BY Sides
<1>2. /\ row[s][k] \in Row /\ row[t][k] \in Row /\ row'[s][k] \in Row /\ row'[t][k] \in Row
      /\ seq[s] \in Nat
  BY <1>1, Typing DEF Base, Stores
<1>3. Covers(row'[t][k], row[t][k])
  BY DEF Grows
<1>4. SUFFICES Covers(row[t][k], row'[s][k])
  BY <1>2, <1>3, CoversOrder
<1>5. Moves(s, k)
  BY <1>1 DEF StoresMove
<1>6. CASE row'[s][k] = row[s][k]
  BY <1>6 DEF Unnumbered, Known
<1>7. ~Image(s, k, row'[s][k])
  BY <1>2 DEF Image
<1>8. ~(open[s][k] # NoWrite /\ row'[s][k] = open[s][k].row)
  BY <1>1 DEF Base, Numbered
<1>9. CASE Takes(s, k)
  <2>1. s = l /\ t = MAIN
    BY <1>9, ChatSyncConstants, Sides DEF Takes
  <2>2. Covers(row[t][k], row[s][k])
    BY <1>9 DEF Takes, Unnumbered, Known
  <2>3. Covers(row[t][k], flight[s][k])
    BY <1>9, <2>1 DEF Takes, Answers, Has
  <2> QED
    BY <1>2, <1>9, <2>2, <2>3 DEF Takes
<1> QED
  BY <1>5, <1>6, <1>7, <1>8, <1>9 DEF Moves, Rests

\* Both saved cursors have come past row k, or it has no number for them.
CaughtUp(l, k) ==
  row[l][k].seq <= cursor[l]["push"].safe /\ row[MAIN][k].seq <= cursor[l]["pull"].safe

\* Of a receipt the first time stays, on each side its own: only body and stamp agree.
CaughtUpAgrees ==
  \A l \in Locals, k \in Keys :
    CaughtUp(l, k) => /\ AsIn(row[l][k], row[MAIN][k])
                      /\ Rule = "later" => Same(row[l][k], row[MAIN][k])

\* What Converges says of the end, at any time: whatever failed, crashed or came
\* late, a row of which both cursors have come to the end is the same on the LOCAL
\* and on MAIN, where PushesCover and PullsCover hold.
THEOREM CaughtUpCopiesAgree ==
  Prompt /\ (\A s \in Servers : Latest(s)) => (ChatSpec => []CaughtUpAgrees)
<1> SUFFICES ASSUME Prompt, \A s \in Servers : Latest(s) PROVE ChatSpec => []CaughtUpAgrees
  OBVIOUS
<1>0. MAIN \in Servers /\ Locals \subseteq Servers
  BY DEF Servers
<1>1. ChatInit => AgreeInv
  <2> SUFFICES ASSUME ChatInit PROVE AgreeInv
    OBVIOUS
  <2>1. \A k \in Keys : CopiesOf(k) \subseteq {NoRow}
    BY NoRowsYet DEF ChatInit, CopiesOf
  <2>2. StampsTell
    BY <2>1 DEF StampsTell
  <2>3. \A l \in Locals, c \in Ways : Unnumbered(l, c)
    <3>1. ASSUME NEW l \in Locals, NEW c \in Ways, NEW k \in Keys PROVE Known(l, c, k)
      <4>1. row[Source(l, c)][k] = NoRow /\ row[Target(l, c)][k] = NoRow
        BY Sides DEF ChatInit
      <4> QED
        BY <4>1, NoRowsYet, CoversOrder DEF Known
    <3> QED
      BY <3>1 DEF Unnumbered
  <2> QED
    BY <2>2, <2>3, AtFirst DEF AgreeInv, EchoInv
<1>2. AgreeInv /\ [ChatNext]_chatVars => AgreeInv'
  <2> SUFFICES ASSUME AgreeInv, [ChatNext]_chatVars PROVE AgreeInv'
    OBVIOUS
  <2>1. Base /\ Base' /\ StoresMove /\ Flow
    BY StepsMean DEF AgreeInv, EchoInv, StepMeans
  <2>2. EchoInv' /\ \A s \in Servers : Grows(s)
    BY <2>1, MovedRows, MovedStamps DEF AgreeInv, EchoInv
  <2>3. StampsTell'
    BY StampsTellNext DEF AgreeInv
  <2>4. \A l \in Locals : Answers(l)'
    BY <1>0, <2>1, <2>2, AnswersKept DEF AgreeInv
  <2>5. \A l \in Locals, c \in Ways : Unnumbered(l, c)'
    BY <2>1, <2>2, Sides, UnnumberedKept DEF AgreeInv
  <2> QED
    BY <2>2, <2>3, <2>4, <2>5 DEF AgreeInv
<1>3. AgreeInv /\ PushCovers /\ PullCovers => CaughtUpAgrees
  <2> SUFFICES ASSUME AgreeInv, PushCovers, PullCovers, NEW l \in Locals, NEW k \in Keys, CaughtUp(l, k)
               PROVE  /\ AsIn(row[l][k], row[MAIN][k])
                      /\ Rule = "later" => Same(row[l][k], row[MAIN][k])
    BY DEF CaughtUpAgrees
  <2> DEFINE mine == row[l][k]
             main == row[MAIN][k]
  <2>1. /\ mine \in Row /\ main \in Row /\ mine.seq \in Nat /\ main.seq \in Nat
        /\ \A c \in Ways : cursor[l][c].safe \in Nat
    BY <1>0, Typing DEF AgreeInv, EchoInv
  <2>2. "push" \in Ways /\ "pull" \in Ways
    BY DEF Ways
  <2>3. Covers(main, mine)
    <3>1. CASE mine.seq = 0
      BY <2>2, <3>1, Sides DEF AgreeInv, Unnumbered, Known
    <3>2. CASE mine.seq # 0
      <4>1. mine.seq \in 1..cursor[l]["push"].safe
        BY <2>1, <2>2, <3>2 DEF CaughtUp
      <4> QED
        BY <4>1 DEF PushCovers, Covers
    <3> QED
      BY <3>1, <3>2
  <2>4. Covers(mine, main)
    <3>1. CASE main.seq = 0
      BY <2>2, <3>1, Sides DEF AgreeInv, Unnumbered, Known
    <3>2. CASE main.seq # 0
      <4>1. main.seq \in 1..cursor[l]["pull"].safe
        BY <2>1, <2>2, <3>2 DEF CaughtUp
      <4> QED
        BY <4>1 DEF PullCovers, Covers
    <3> QED
      BY <3>1, <3>2
  <2>5. mine.at \in Nat /\ main.at \in Nat /\ mine.time \in Nat /\ main.time \in Nat
    BY <2>1 DEF Row
  <2>6. mine.at = main.at /\ (Rule = "later" => mine.time = main.time)
    BY <2>1, <2>3, <2>4, <2>5, CoversMeans
  <2>7. mine.body = main.body
    BY <1>0, <2>6, AreCopies DEF AgreeInv, StampsTell
  <2> QED
    BY <2>1, <2>6, <2>7, SameMeans DEF AsIn
<1>4. ChatSpec => []PushCovers
  BY <1>0, PushesCover
<1>5. ChatSpec => []PullCovers
  BY <1>0, PullsCover
<1> QED
  BY <1>1, <1>2, <1>3, <1>4, <1>5, PTL DEF ChatSpec
=============================================================================
