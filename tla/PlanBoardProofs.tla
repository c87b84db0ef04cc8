-------------------------- MODULE PlanBoardProofs --------------------------
(***************************************************************************)
(* Approval on the plan board: what /api/planning/run starts is approved,  *)
(* the history tells every stage, a rejection stands, and no row gets two  *)
(* verdicts of one stage, for any number of plans, requests and            *)
(* recoveries.                                                             *)
(***************************************************************************)
EXTENDS PlanBoard, FiniteSetTheorems, TLAPS

\* Some verdict of vs was given on p.
Told(p, vs) == \E i \in 1..Len(history[p]) : history[p][i] \in vs

HistoryTells(p) ==
  /\ row[p].stage = "PPC_APPROVED" => Told(p, {"PPC_CHECKED"})
  /\ row[p].stage = "REJECTED" => Told(p, {"PPC_REJECTED", "MOULDING_REJECTED"})
  /\ Told(p, {"APPROVED", "MOULDING_REJECTED"}) => Told(p, {"PPC_CHECKED"})

\* What a handler read is still so, or the row it read is gone for good: a row
\* inserted later has another id.
Sound(d) ==
  /\ d.step \notin {"idle", "next"} => d.plan \in Plans
  /\ d.step = "verdict" => d.seen \in {"PENDING", "PPC_APPROVED"}
  /\ d.plan \in Plans => d.birth <= births[d.plan]
  /\ d.step \in {"stop", "run"} /\ d.ok /\ d.plan \in there /\ births[d.plan] = d.birth
       => row[d.plan].stage = "APPROVED"
  /\ d.step = "stopAll" => ~d.ok
  /\ d.step = "insert" => d.seen \in {"PENDING", "PPC_APPROVED"}
  /\ d.step = "insert" /\ d.seen = "PPC_APPROVED" => Told(d.plan, {"PPC_CHECKED"})

ApprovalInv ==
  /\ BoardTypeOK
  /\ \A p \in Plans : HistoryTells(p)
  /\ \A h \in Handlers : Sound(doing[h])

-----------------------------------------------------------------------------
LEMMA IdleSound ==
  /\ Idle \in Doings /\ Idle.step = "idle" /\ Idle.plan = NoPlan /\ Idle.birth = 0
  /\ Sound(Idle)
  BY PlanBoardConstants DEF Idle, Doings, Stages, Sound

LEMMA ApprovalInit == BoardInit => ApprovalInv
<1> SUFFICES ASSUME BoardInit PROVE ApprovalInv
  OBVIOUS
<1> USE DEF BoardInit
<1>1. BoardTypeOK
  BY IdleSound DEF BoardTypeOK, Rows, Stages, NewRow
<1>2. \A p \in Plans : HistoryTells(p)
  BY DEF HistoryTells, Told, NewRow
<1>3. \A h \in Handlers : Sound(doing[h])
  BY IdleSound
<1> QED
  BY <1>1, <1>2, <1>3 DEF ApprovalInv

\* A step of one request leaves what the others hold alone.
LEMMA DoingChange ==
  ASSUME BoardTypeOK, NEW h \in Handlers, NEW d \in Doings, doing' = [doing EXCEPT ![h] = d]
  PROVE  /\ doing' \in [Handlers -> Doings] /\ doing'[h] = d
         /\ \A k \in Handlers : k # h => doing'[k] = doing[k]
  BY DEF BoardTypeOK

\* Changing a status leaves the stages alone.
LEMMA StatusOnly ==
  ASSUME BoardTypeOK, NEW ps, NEW status \in {"Idle", "Running", "COMPLETED"}, SetStatus(ps, status)
  PROVE  row' \in [Plans -> Rows] /\ \A p \in Plans : row'[p].stage = row[p].stage
  BY DEF BoardTypeOK, SetStatus, Rows

\* Steps that touch neither stages nor rows nor histories.
LEMMA StagesKept ==
  ASSUME ApprovalInv, row' \in [Plans -> Rows], \A p \in Plans : row'[p].stage = row[p].stage,
         UNCHANGED <<there, births, history>>, produced' \in SUBSET Plans,
         doing' \in [Handlers -> Doings],
         \A h \in Handlers : doing'[h] = doing[h] \/ Sound(doing'[h])
  PROVE  ApprovalInv'
<1> USE DEF ApprovalInv
<1>1. \A h \in Handlers : Sound(doing'[h])
  OBVIOUS
<1>2. \A vs : \A p \in Plans : Told(p, vs)' <=> Told(p, vs)
  BY DEF Told
<1>3. \A h \in Handlers : Sound(doing[h])'
  BY <1>1 DEF Sound, Told
<1>4. \A p \in Plans : HistoryTells(p)'
  BY <1>2 DEF HistoryTells
<1>5. BoardTypeOK'
  BY <1>1 DEF BoardTypeOK, Sound
<1> QED
  BY <1>3, <1>4, <1>5

\* The same with one handler that goes on to d.
LEMMA OneGoesOn ==
  ASSUME ApprovalInv, row' \in [Plans -> Rows], \A p \in Plans : row'[p].stage = row[p].stage,
         UNCHANGED <<there, births, produced, history>>,
         NEW h \in Handlers, NEW d \in Doings, Sound(d), doing' = [doing EXCEPT ![h] = d]
  PROVE  ApprovalInv'
<1>1. /\ doing' \in [Handlers -> Doings] /\ doing'[h] = d
      /\ \A k \in Handlers : k # h => doing'[k] = doing[k]
  BY DoingChange DEF ApprovalInv
<1>2. produced' \in SUBSET Plans /\ \A k \in Handlers : doing'[k] = doing[k] \/ Sound(doing'[k])
  BY <1>1 DEF ApprovalInv, BoardTypeOK
<1> QED
  BY <1>1, <1>2, StagesKept

\* A verdict on top of the others takes none away.
LEMMA Appended ==
  ASSUME BoardTypeOK, NEW p \in Plans, NEW v \in Verdicts, history' = [history EXCEPT ![p] = Append(@, v)]
  PROVE  /\ history' \in [Plans -> Seq(Verdicts)]
         /\ \A q \in Plans : q # p => history'[q] = history[q]
         /\ \A vs : Told(p, vs)' <=> Told(p, vs) \/ v \in vs
<1>1. history \in [Plans -> Seq(Verdicts)] /\ history[p] \in Seq(Verdicts)
  BY DEF BoardTypeOK
<1>2. /\ history' \in [Plans -> Seq(Verdicts)] /\ history'[p] = Append(history[p], v)
      /\ \A q \in Plans : q # p => history'[q] = history[q]
  BY <1>1
<1>3. /\ Len(history'[p]) = Len(history[p]) + 1 /\ Len(history[p]) \in Nat
      /\ history'[p][Len(history[p]) + 1] = v
      /\ \A i \in 1..Len(history[p]) : history'[p][i] = history[p][i]
  BY <1>1, <1>2
<1>4. \A vs : Told(p, vs)' <=> Told(p, vs) \/ v \in vs
  BY <1>3 DEF Told
<1> QED
  BY <1>2, <1>4

\* Before any verdict of Moulding is the one of PPC: the verdict takes the stage
\* that its own transaction found.
LEMMA VerdictFalls ==
  ASSUME ApprovalInv, NEW h \in Handlers, CommitVerdict(h)
  PROVE  ApprovalInv'
<1> USE DEF ApprovalInv
<1>1. /\ doing[h] \in Doings /\ doing[h].step = "verdict" /\ Ends(h)
      /\ UNCHANGED <<there, births, produced>>
      /\ doing[h].seen \in {"PENDING", "PPC_APPROVED"}
  BY DEF CommitVerdict, BoardTypeOK, Sound
<1>2. CASE ~StillAt(h)
  <2>1. UNCHANGED <<row, history>>
    BY <1>2 DEF CommitVerdict
  <2>2. row' \in [Plans -> Rows] /\ doing' = [doing EXCEPT ![h] = Idle]
    BY <1>1, <2>1 DEF BoardTypeOK, Ends
  <2> QED
    BY <1>1, <2>1, <2>2, IdleSound, OneGoesOn
<1>3. CASE StillAt(h)
  <2>1. PICK p \in Plans : p = doing[h].plan
    BY <1>1, <1>3 DEF StillAt, Found, BoardTypeOK
  <2>2. \E v : v = Verdict(doing[h])
    OBVIOUS
  <2>3. PICK v : v = Verdict(doing[h])
    BY <2>2
  <2>4. /\ p \in there /\ row[p] \in Rows /\ row[p].stage = doing[h].seen
        /\ row' = [row EXCEPT ![p] = Judge(row[p], v)]
        /\ history' = [history EXCEPT ![p] = Append(@, v)]
    BY <1>1, <1>3, <2>1, <2>3 DEF CommitVerdict, StillAt, Found, BoardTypeOK
  <2>5. /\ v = "PPC_CHECKED" \/ v = "PPC_REJECTED" \/ v = "APPROVED" \/ v = "MOULDING_REJECTED"
        /\ v = "PPC_CHECKED" \/ v = "PPC_REJECTED" => row[p].stage = "PENDING"
        /\ v = "APPROVED" \/ v = "MOULDING_REJECTED" => row[p].stage = "PPC_APPROVED"
        /\ row[p].stage # "APPROVED" /\ v \in Verdicts
    <3>1. CASE doing[h].seen = "PENDING"
      <4>1. v = "PPC_CHECKED" \/ v = "PPC_REJECTED"
        BY <2>3, <3>1 DEF Verdict
      <4> QED
        BY <2>4, <3>1, <4>1 DEF Verdicts
    <3>2. CASE doing[h].seen = "PPC_APPROVED"
      <4>1. v = "APPROVED" \/ v = "MOULDING_REJECTED"
        BY <2>3, <3>2 DEF Verdict
      <4> QED
        BY <2>4, <3>2, <4>1 DEF Verdicts
    <3> QED
      BY <1>1, <3>1, <3>2
  <2>6. /\ Judge(row[p], v) \in Rows
        /\ Judge(row[p], v).stage = IF v = "PPC_CHECKED" THEN "PPC_APPROVED"
                                    ELSE IF v = "APPROVED" THEN "APPROVED" ELSE "REJECTED"
    BY <2>4, <2>5 DEF Judge, Rows, Stages
  <2>7. /\ history' \in [Plans -> Seq(Verdicts)]
        /\ \A q \in Plans : q # p => history'[q] = history[q]
        /\ \A vs : Told(p, vs)' <=> Told(p, vs) \/ v \in vs
    BY <2>4, <2>5, Appended
  <2>8. /\ doing' \in [Handlers -> Doings] /\ doing'[h] = Idle
        /\ \A k \in Handlers : k # h => doing'[k] = doing[k]
    BY <1>1, IdleSound, DoingChange DEF Ends
  <2>9. /\ row' \in [Plans -> Rows] /\ row'[p].stage = Judge(row[p], v).stage
        /\ \A q \in Plans : q # p => row'[q] = row[q]
    BY <2>4, <2>6 DEF BoardTypeOK
  <2>10. \A q \in Plans : HistoryTells(q)'
    <3> SUFFICES ASSUME NEW q \in Plans PROVE HistoryTells(q)'
      OBVIOUS
    <3>1. HistoryTells(q) /\ HistoryTells(p)
      BY <2>4
    <3>2. CASE q # p
      BY <2>7, <2>9, <3>1, <3>2 DEF HistoryTells, Told
    <3>3. CASE q = p
      <4>1. row[p].stage = "PPC_APPROVED" => Told(p, {"PPC_CHECKED"})
        BY <3>1 DEF HistoryTells
      <4>2. Told(p, {"PPC_CHECKED"})' <=> Told(p, {"PPC_CHECKED"}) \/ v = "PPC_CHECKED"
        BY <2>7
      <4>3. /\ row'[p].stage = "PPC_APPROVED" => v = "PPC_CHECKED"
            /\ row'[p].stage = "REJECTED" => v \in {"PPC_REJECTED", "MOULDING_REJECTED"}
        BY <2>5, <2>6, <2>9 DEF Verdicts
      <4>4. row'[p].stage = "REJECTED" => Told(p, {"PPC_REJECTED", "MOULDING_REJECTED"})'
        BY <2>7, <4>3
      <4>5. Told(p, {"APPROVED", "MOULDING_REJECTED"})' => Told(p, {"PPC_CHECKED"})'
        <5>1. Told(p, {"APPROVED", "MOULDING_REJECTED"})'
                <=> Told(p, {"APPROVED", "MOULDING_REJECTED"}) \/ v \in {"APPROVED", "MOULDING_REJECTED"}
          BY <2>7
        <5>2. v \in {"APPROVED", "MOULDING_REJECTED"} => row[p].stage = "PPC_APPROVED"
          BY <2>5
        <5> QED
          BY <3>1, <4>1, <4>2, <5>1, <5>2 DEF HistoryTells
      <4> QED
        BY <3>3, <4>2, <4>3, <4>4, <4>5 DEF HistoryTells
    <3> QED
      BY <3>2, <3>3
  <2>11. \A k \in Handlers : Sound(doing[k])'
    <3> SUFFICES ASSUME NEW k \in Handlers PROVE Sound(doing[k])'
      OBVIOUS
    <3>1. CASE k = h
      BY <2>8, <3>1, IdleSound, PlanBoardConstants DEF Sound
    <3>2. CASE k # h
      <4>1. doing'[k] = doing[k] /\ Sound(doing[k])
        BY <2>8, <3>2
      <4>2. \A vs : \A q \in Plans : Told(q, vs) => Told(q, vs)'
        BY <2>7 DEF Told
      <4>3. \A q \in Plans : row[q].stage = "APPROVED" => row'[q].stage = "APPROVED"
        BY <2>5, <2>9
      <4> QED
        BY <1>1, <4>1, <4>2, <4>3 DEF Sound
    <3> QED
      BY <3>1, <3>2
  <2>12. BoardTypeOK'
    BY <1>1, <2>7, <2>8, <2>9, <2>11 DEF BoardTypeOK, Sound
  <2> QED
    BY <2>10, <2>11, <2>12
<1> QED
  BY <1>2, <1>3

-----------------------------------------------------------------------------
(* Requests that read a row, or none, and go on.                            *)

\* A request that reads a plan knows what it has read.
LEMMA ReadFalls ==
  ASSUME ApprovalInv, NEW h \in Handlers, NEW p \in Plans,
         NEW step \in {"stop", "stopAll", "verdict", "delete"}, NEW seen \in Stages, NEW ok \in BOOLEAN,
         Reads(h, p, step, seen, ok), UNCHANGED <<board, produced, history>>,
         step = "verdict" => seen \in {"PENDING", "PPC_APPROVED"},
         step = "stop" /\ ok => row[p].stage = "APPROVED", step = "stopAll" => ~ok
  PROVE  ApprovalInv'
<1> DEFINE d == [step |-> step, plan |-> p, birth |-> births[p], seen |-> seen, ok |-> ok]
<1>1. row \in [Plans -> Rows] /\ births[p] \in Nat
  BY DEF ApprovalInv, BoardTypeOK
<1>2. d \in Doings /\ d.step = step /\ d.plan = p /\ d.birth = births[p] /\ d.seen = seen /\ d.ok = ok
  BY <1>1 DEF Doings
<1>3. doing' = [doing EXCEPT ![h] = d]
  BY DEF Reads
<1>4. UNCHANGED <<row, there, births, produced, history>>
  BY DEF board
<1> HIDE DEF d
<1>5. Sound(d)
  BY <1>1, <1>2 DEF Sound
<1> QED
  BY <1>1, <1>2, <1>3, <1>4, <1>5, OneGoesOn

\* A handler that goes on to a plan without an approval of its own.
LEMMA TaskSound ==
  ASSUME NEW d \in Doings, d.step \in {"requeue", "next", "stopAll", "runFirst"}, ~d.ok,
         d.step # "next" => d.plan \in Plans, d.plan \in Plans => d.birth <= births[d.plan]
  PROVE  Sound(d)
  BY DEF Sound

\* A request that will requeue plans or start another has judged none.
LEMMA AskFalls ==
  ASSUME ApprovalInv, NEW h \in Handlers, NEW p \in Plans \cup {NoPlan}, NEW step \in {"requeue", "next"},
         step # "next" => p \in Plans, Asks(h, p, step),
         row' \in [Plans -> Rows], \A q \in Plans : row'[q].stage = row[q].stage,
         UNCHANGED <<there, births, produced, history>>
  PROVE  ApprovalInv'
<1> DEFINE d == [Idle EXCEPT !.step = step, !.plan = p]
<1>1. d \in Doings /\ d.step = step /\ d.plan = p /\ d.birth = 0 /\ d.ok = FALSE
  BY DEF Idle, Doings, Stages
<1>2. doing' = [doing EXCEPT ![h] = d] /\ births \in [Plans -> Nat]
  BY DEF Asks, ApprovalInv, BoardTypeOK
<1> HIDE DEF d
<1>3. Sound(d)
  BY <1>1, <1>2, TaskSound
<1> QED
  BY <1>1, <1>2, <1>3, OneGoesOn

\* A handler that goes on with the same plan.
LEMMA DoesFalls ==
  ASSUME ApprovalInv, NEW h \in Handlers, NEW step \in {"run", "stopLast"},
         doing[h].step \in {"stop", "stopAll", "runFirst"}, Does(h, step),
         step = "run" => doing[h].step # "runFirst",
         row' \in [Plans -> Rows], \A p \in Plans : row'[p].stage = row[p].stage,
         UNCHANGED <<there, births, produced, history>>
  PROVE  ApprovalInv'
<1> DEFINE d == [doing[h] EXCEPT !.step = step]
<1>1. doing[h] \in Doings /\ Sound(doing[h])
  BY DEF ApprovalInv, BoardTypeOK
<1>2. /\ d \in Doings /\ d.step = step /\ d.plan = doing[h].plan /\ d.birth = doing[h].birth
      /\ d.seen = doing[h].seen /\ d.ok = doing[h].ok
  BY <1>1 DEF Doings
<1>3. doing' = [doing EXCEPT ![h] = d]
  BY DEF Does
<1> HIDE DEF d
<1>4. Sound(d)
  BY <1>1, <1>2 DEF Sound
<1> QED
  BY <1>2, <1>3, <1>4, OneGoesOn

-----------------------------------------------------------------------------
(* One lemma per group of actions.                                          *)

\* The statements of a start change no stage.
LEMMA StatementFalls ==
  ASSUME ApprovalInv, NEW h \in Handlers, StopOthers(h) \/ StopAll(h) \/ SetRunning(h)
  PROVE  ApprovalInv'
<1>1. BoardTypeOK /\ row \in [Plans -> Rows]
  BY DEF ApprovalInv, BoardTypeOK
<1>2. /\ row' \in [Plans -> Rows] /\ \A p \in Plans : row'[p].stage = row[p].stage
      /\ UNCHANGED <<there, births, produced, history>>
  <2>1. CASE StopOthers(h)
    BY <1>1, <2>1, StatusOnly DEF StopOthers
  <2>2. CASE StopAll(h)
    BY <1>1, <2>2, StatusOnly DEF StopAll
  <2>3. CASE SetRunning(h)
    BY <1>1, <2>3, StatusOnly DEF SetRunning
  <2> QED
    BY <2>1, <2>2, <2>3
<1>3. CASE Ends(h)
  <2>1. doing' = [doing EXCEPT ![h] = Idle]
    BY <1>3 DEF Ends
  <2> QED
    BY <1>2, <2>1, IdleSound, OneGoesOn
<1>4. CASE ~Ends(h)
  <2>1. \/ doing[h].step \in {"stop", "stopAll"} /\ Does(h, "run")
        \/ doing[h].step = "runFirst" /\ Does(h, "stopLast")
    BY <1>4 DEF StopOthers, StopAll, SetRunning
  <2> QED
    BY <1>2, <2>1, DoesFalls
<1> QED
  BY <1>3, <1>4

LEMMA RequeueFalls ==
  ASSUME ApprovalInv, NEW h \in Handlers, Requeue(h)
  PROVE  ApprovalInv'
<1>1. BoardTypeOK /\ row \in [Plans -> Rows] /\ births \in [Plans -> Nat]
  BY DEF ApprovalInv, BoardTypeOK
<1>2. /\ row' \in [Plans -> Rows] /\ \A p \in Plans : row'[p].stage = row[p].stage
      /\ UNCHANGED <<there, births, produced, history>>
  BY <1>1, StatusOnly DEF Requeue
<1> DEFINE d == [Idle EXCEPT !.step = "next"]
<1>3. d \in Doings /\ d.step = "next" /\ d.plan = NoPlan /\ d.birth = 0 /\ d.ok = FALSE
  BY DEF Idle, Doings, Stages
<1>4. doing' = [doing EXCEPT ![h] = d] \/ doing' = [doing EXCEPT ![h] = Idle]
  BY DEF Requeue, Ends
<1> HIDE DEF d
<1>5. Sound(d)
  BY <1>1, <1>3, PlanBoardConstants, TaskSound
<1> QED
  BY <1>2, <1>3, <1>4, <1>5, IdleSound, OneGoesOn

LEMMA PickFalls ==
  ASSUME ApprovalInv, NEW h \in Handlers, PickNext(h)
  PROVE  ApprovalInv'
<1>1. row \in [Plans -> Rows] /\ births \in [Plans -> Nat] /\ there \in SUBSET Plans
      /\ UNCHANGED <<row, there, births, produced, history>>
  BY DEF ApprovalInv, BoardTypeOK, PickNext, board
<1>2. CASE Ends(h)
  BY <1>1, <1>2, IdleSound, OneGoesOn DEF Ends
<1>3. CASE ~Ends(h)
  <2>1. PICK p \in Plans, step \in {"stopAll", "runFirst"} :
          doing' = [doing EXCEPT ![h] = [Idle EXCEPT !.step = step, !.plan = p, !.birth = births[p]]]
    BY <1>1, <1>3 DEF PickNext, Waiting
  <2> DEFINE d == [Idle EXCEPT !.step = step, !.plan = p, !.birth = births[p]]
  <2>2. d \in Doings /\ d.step = step /\ d.plan = p /\ d.birth = births[p] /\ d.ok = FALSE
    BY <1>1 DEF Idle, Doings, Stages
  <2>3. doing' = [doing EXCEPT ![h] = d]
    BY <2>1
  <2> HIDE DEF d
  <2>4. Sound(d)
    BY <1>1, <2>2, TaskSound
  <2> QED
    BY <1>1, <2>2, <2>3, <2>4, OneGoesOn
<1> QED
  BY <1>2, <1>3

\* Single statements that change a status.
LEMMA StatusFalls ==
  ASSUME ApprovalInv, NEW ps, NEW status \in {"Idle", "Running", "COMPLETED"}, SetStatus(ps, status),
         UNCHANGED <<there, births, produced, history, doing>>
  PROVE  ApprovalInv'
<1>1. BoardTypeOK
  BY DEF ApprovalInv
<1>2. row' \in [Plans -> Rows] /\ \A p \in Plans : row'[p].stage = row[p].stage
  BY <1>1, StatusOnly
<1>3. doing' \in [Handlers -> Doings] /\ produced' \in SUBSET Plans
  BY <1>1 DEF BoardTypeOK
<1> QED
  BY <1>2, <1>3, StagesKept
-----------------------------------------------------------------------------

\* Approving everything tells no new story of a plan before APPROVED.
LEMMA BulkFalls ==
  ASSUME ApprovalInv, BulkApprove
  PROVE  ApprovalInv'
<1> USE DEF ApprovalInv
<1>1. /\ row' \in [Plans -> Rows]
      /\ \A p \in Plans : row'[p].stage = row[p].stage \/ row'[p].stage = "APPROVED"
      /\ UNCHANGED <<there, births, produced, history, doing>>
  BY DEF BulkApprove, BoardTypeOK, Rows, Stages
<1>2. \A vs : \A p \in Plans : Told(p, vs)' <=> Told(p, vs)
  BY <1>1 DEF Told
<1>3. \A p \in Plans : HistoryTells(p)'
  BY <1>1, <1>2 DEF HistoryTells
<1>4. \A h \in Handlers : Sound(doing[h])'
  <2> SUFFICES ASSUME NEW h \in Handlers PROVE Sound(doing[h])'
    OBVIOUS
  <2>1. Sound(doing[h]) /\ doing'[h] = doing[h]
    BY <1>1
  <2> QED
    BY <1>1, <2>1 DEF Sound, Told
<1>5. BoardTypeOK'
  BY <1>1 DEF BoardTypeOK
<1> QED
  BY <1>3, <1>4, <1>5

\* Rows come and go: p's row is another than before, or none, and every handler
\* keeps what it holds or holds nothing.
LEMMA RowFalls ==
  ASSUME ApprovalInv, NEW p \in Plans, NEW r \in Rows,
         row' = [row EXCEPT ![p] = r],
         r.stage = "PPC_APPROVED" => Told(p, {"PPC_CHECKED"}),
         r.stage = "REJECTED" => Told(p, {"PPC_REJECTED", "MOULDING_REJECTED"}),
         UNCHANGED <<produced, history>>,
         \/ there' = there \ {p} /\ births' = births
         \/ there' = there \cup {p} /\ births' = [births EXCEPT ![p] = births[p] + 1],
         doing' \in [Handlers -> Doings],
         \A h \in Handlers : doing'[h] = doing[h] \/ doing'[h] = Idle
  PROVE  ApprovalInv'
<1> USE DEF ApprovalInv
<1>1. /\ row \in [Plans -> Rows] /\ births \in [Plans -> Nat] /\ there \in SUBSET Plans
      /\ \A q \in there : births[q] > 0
  BY DEF BoardTypeOK
<1>2. /\ row' \in [Plans -> Rows] /\ births' \in [Plans -> Nat] /\ there' \in SUBSET Plans
      /\ row'[p] = r /\ \A q \in Plans : q # p => row'[q] = row[q] /\ births'[q] = births[q]
      /\ \A q \in Plans : births[q] <= births'[q]
      /\ \A q \in there' : q # p => q \in there
      /\ p \in there' => births'[p] > births[p]
  BY <1>1
<1>3. \A vs : \A q \in Plans : Told(q, vs)' <=> Told(q, vs)
  BY DEF Told
<1>4. \A q \in Plans : HistoryTells(q)'
  <2> SUFFICES ASSUME NEW q \in Plans PROVE HistoryTells(q)'
    OBVIOUS
  <2>1. HistoryTells(q) /\ HistoryTells(p)
    OBVIOUS
  <2>2. CASE q = p
    BY <1>2, <1>3, <2>1, <2>2 DEF HistoryTells
  <2>3. CASE q # p
    BY <1>2, <1>3, <2>1, <2>3 DEF HistoryTells
  <2> QED
    BY <2>2, <2>3
<1>5. \A h \in Handlers : Sound(doing[h])'
  <2> SUFFICES ASSUME NEW h \in Handlers PROVE Sound(doing[h])'
    OBVIOUS
  <2>1. CASE doing'[h] = Idle
    BY <2>1, IdleSound, PlanBoardConstants DEF Sound
  <2>2. CASE doing'[h] = doing[h]
    <3>1. Sound(doing[h]) /\ doing[h] \in Doings
      BY DEF BoardTypeOK
    <3>2. PICK d : d = doing[h]
      OBVIOUS
    <3>3. d.birth \in Nat /\ Sound(d)
      BY <3>1, <3>2 DEF Doings
    <3>4. d.plan \in Plans => d.birth <= births'[d.plan]
      BY <1>1, <1>2, <3>3 DEF Sound
    <3>5. d.step \in {"stop", "run"} /\ d.ok /\ d.plan \in there' /\ births'[d.plan] = d.birth
            => row'[d.plan].stage = "APPROVED"
      <4>1. CASE d.plan = p
        BY <1>1, <1>2, <3>3, <4>1 DEF Sound
      <4>2. CASE d.plan # p
        BY <1>1, <1>2, <3>3, <4>2 DEF Sound
      <4> QED
        BY <4>1, <4>2
    <3>6. d.step = "insert" /\ d.seen = "PPC_APPROVED" => Told(d.plan, {"PPC_CHECKED"})'
      BY <1>3, <3>3 DEF Sound
    <3> QED
      BY <2>2, <3>2, <3>3, <3>4, <3>5, <3>6 DEF Sound
  <2> QED
    BY <2>1, <2>2
<1>6. BoardTypeOK'
  <2>1. \A q \in there' : births'[q] > 0
    BY <1>1, <1>2
  <2> QED
    BY <1>2, <1>5, <2>1 DEF BoardTypeOK, Sound
<1> QED
  BY <1>4, <1>5, <1>6

\* A new plan waits for its verdicts, and is not the one a request has read.
LEMMA CreateFalls ==
  ASSUME ApprovalInv, NEW p \in Plans, Create(p)
  PROVE  ApprovalInv'
<1> DEFINE r == row[p]
<1>1. /\ row \in [Plans -> Rows] /\ births \in [Plans -> Nat] /\ doing \in [Handlers -> Doings]
      /\ HistoryTells(p)
  BY DEF ApprovalInv, BoardTypeOK
<1>2. /\ there' = there \cup {p} /\ births' = [births EXCEPT ![p] = births[p] + 1]
      /\ UNCHANGED <<row, produced, history, doing>>
  BY <1>1 DEF Create
<1>3. r \in Rows /\ row' = [row EXCEPT ![p] = r]
  BY <1>1, <1>2
<1>4. /\ r.stage = "PPC_APPROVED" => Told(p, {"PPC_CHECKED"})
      /\ r.stage = "REJECTED" => Told(p, {"PPC_REJECTED", "MOULDING_REJECTED"})
  BY <1>1 DEF HistoryTells
<1> QED
  BY <1>1, <1>2, <1>3, <1>4, RowFalls

LEMMA DeleteRowFalls ==
  ASSUME ApprovalInv, NEW h \in Handlers, DeleteRow(h)
  PROVE  ApprovalInv'
<1>1. /\ doing' = [doing EXCEPT ![h] = Idle] /\ UNCHANGED <<births, produced, history>>
      /\ row \in [Plans -> Rows] /\ there \in SUBSET Plans /\ BoardTypeOK
  BY DEF DeleteRow, Ends, ApprovalInv, BoardTypeOK
<1>2. CASE ~Found(h)
  <2>1. UNCHANGED <<row, there>>
    BY <1>2 DEF DeleteRow
  <2> QED
    BY <1>1, <2>1, IdleSound, OneGoesOn
<1>3. CASE Found(h)
  <2>1. PICK p \in Plans : p = doing[h].plan
    BY <1>1, <1>3 DEF Found
  <2>2. there' = there \ {p} /\ row' = [row EXCEPT ![p] = NewRow]
    BY <1>3, <2>1 DEF DeleteRow
  <2>3. NewRow \in Rows /\ NewRow.stage = "PENDING"
    BY DEF NewRow, Rows, Stages
  <2>4. doing' \in [Handlers -> Doings] /\ \A k \in Handlers : doing'[k] = doing[k] \/ doing'[k] = Idle
    BY <1>1, IdleSound, DoingChange
  <2> QED
    BY <1>1, <2>2, <2>3, <2>4, RowFalls
<1> QED
  BY <1>2, <1>3

\* A recovered plan returns to the stage of its snapshot, which the history tells.
LEMMA InsertFalls ==
  ASSUME ApprovalInv, NEW h \in Handlers, NEW status \in {"Idle", "Running"}, InsertSnapshot(h, status)
  PROVE  ApprovalInv'
<1>1. /\ doing' = [doing EXCEPT ![h] = Idle] /\ UNCHANGED <<produced, history>>
      /\ row \in [Plans -> Rows] /\ BoardTypeOK
      /\ doing[h].step = "insert" /\ doing[h] \in Doings /\ Sound(doing[h])
  BY DEF InsertSnapshot, Ends, ApprovalInv, BoardTypeOK
<1>2. PICK p \in Plans : p = doing[h].plan
  BY <1>1 DEF Sound
<1>3. CASE p \in there
  <2>1. UNCHANGED <<row, there, births>>
    BY <1>2, <1>3 DEF InsertSnapshot, board
  <2> QED
    BY <1>1, <2>1, IdleSound, OneGoesOn
<1>4. CASE p \notin there
  <2>1. PICK r : r = [status |-> status, stage |-> doing[h].seen]
    OBVIOUS
  <2>2. /\ there' = there \cup {p} /\ births' = [births EXCEPT ![p] = births[p] + 1]
        /\ row' = [row EXCEPT ![p] = r]
    BY <1>2, <1>4, <2>1 DEF InsertSnapshot
  <2>3. r \in Rows /\ r.stage = doing[h].seen
    BY <1>1, <2>1 DEF Rows, Doings
  <2>4. r.stage # "REJECTED" /\ (r.stage = "PPC_APPROVED" => Told(p, {"PPC_CHECKED"}))
    BY <1>1, <1>2, <2>3 DEF Sound
  <2>5. doing' \in [Handlers -> Doings] /\ \A k \in Handlers : doing'[k] = doing[k] \/ doing'[k] = Idle
    BY <1>1, IdleSound, DoingChange
  <2> QED
    BY <1>1, <2>2, <2>3, <2>4, <2>5, RowFalls
<1> QED
  BY <1>3, <1>4

\* The latest snapshot of a plan that Moulding judged stands behind PPC's verdict.
LEMMA RecoverFalls ==
  ASSUME ApprovalInv, NEW h \in Handlers, NEW p \in Plans, Recover(h, p)
  PROVE  ApprovalInv'
<1> DEFINE last == Last(history[p])
           seen == SnapshotStage(last)
           d == [Idle EXCEPT !.step = "insert", !.plan = p, !.seen = seen]
<1>1. /\ history[p] \in Seq(Verdicts) /\ history[p] # <<>> /\ births \in [Plans -> Nat]
      /\ UNCHANGED <<row, there, births, produced, history>> /\ row \in [Plans -> Rows]
      /\ doing' = [doing EXCEPT ![h] = d] /\ HistoryTells(p)
  BY DEF Recover, board, ApprovalInv, BoardTypeOK
<1>2. Len(history[p]) \in Nat /\ Len(history[p]) \in 1..Len(history[p]) /\ last = history[p][Len(history[p])]
  BY <1>1 DEF Last
<1>3. last \in Verdicts
  BY <1>1, <1>2
<1>4. /\ seen \in {"PENDING", "PPC_APPROVED"}
      /\ seen = "PPC_APPROVED" => last \in {"APPROVED", "MOULDING_REJECTED"}
  BY <1>3 DEF SnapshotStage, Verdicts
<1>5. seen = "PPC_APPROVED" => Told(p, {"PPC_CHECKED"})
  BY <1>1, <1>2, <1>4 DEF Told, HistoryTells
<1> HIDE DEF last, seen
<1>6. d \in Doings /\ d.step = "insert" /\ d.plan = p /\ d.birth = 0 /\ d.seen = seen
  BY <1>4 DEF Idle, Doings, Stages
<1> HIDE DEF d
<1>7. Sound(d)
  BY <1>1, <1>4, <1>5, <1>6 DEF Sound
<1> QED
  BY <1>1, <1>6, <1>7, OneGoesOn

-----------------------------------------------------------------------------
\* The requests, by what they read.
LEMMA RequestFalls ==
  ASSUME ApprovalInv, NEW h \in Handlers, NEW p \in Plans, Request(h, p)
  PROVE  ApprovalInv'
<1>1. BoardTypeOK /\ row \in [Plans -> Rows] /\ "PENDING" \in Stages
  BY DEF ApprovalInv, BoardTypeOK, Stages
<1>2. CASE Run(h, p)
  BY <1>1, <1>2, ReadFalls DEF Run, Approved
<1>3. CASE Start(h, p)
  BY <1>1, <1>3, ReadFalls DEF Start
<1>4. CASE Switch(h, p)
  BY <1>1, <1>4, ReadFalls DEF Switch
<1>5. CASE JobComplete(h, p)
  BY <1>1, <1>5, AskFalls DEF JobComplete, board
<1>6. CASE SupervisorComplete(h, p)
  <2>1. row' \in [Plans -> Rows] /\ \A q \in Plans : row'[q].stage = row[q].stage
    BY <1>1, <1>6, StatusOnly DEF SupervisorComplete
  <2> QED
    BY <1>6, <2>1, AskFalls DEF SupervisorComplete
<1>7. ASSUME NEW approve \in BOOLEAN, Decide(h, p, approve) PROVE ApprovalInv'
  <2>1. row[p].stage \in {"PENDING", "PPC_APPROVED"} /\ row[p].stage \in Stages
    BY <1>7 DEF Decide, Stages
  <2> QED
    BY <1>7, <2>1, ReadFalls DEF Decide
<1>8. CASE Delete(h, p)
  BY <1>1, <1>8, ReadFalls DEF Delete
<1>9. CASE Recover(h, p)
  BY <1>9, RecoverFalls
<1> QED
  BY <1>2, <1>3, <1>4, <1>5, <1>6, <1>7, <1>8, <1>9 DEF Request

\* One step for each action.
LEMMA ApprovalNext == ApprovalInv /\ [BoardNext]_boardVars => ApprovalInv'
<1> SUFFICES ASSUME ApprovalInv, [BoardNext]_boardVars PROVE ApprovalInv'
  OBVIOUS
<1>1. BoardTypeOK /\ row \in [Plans -> Rows] /\ doing \in [Handlers -> Doings]
  BY DEF ApprovalInv, BoardTypeOK
<1>2. CASE UNCHANGED boardVars
  BY <1>1, <1>2, StagesKept DEF boardVars, board, ApprovalInv, BoardTypeOK
<1>3. ASSUME NEW h \in Handlers, Statement(h) PROVE ApprovalInv'
  BY <1>3, StatementFalls, RequeueFalls, PickFalls, VerdictFalls, DeleteRowFalls, InsertFalls DEF Statement
<1>4. ASSUME NEW h \in Handlers, NEW p \in Plans, Request(h, p) PROVE ApprovalInv'
  BY <1>4, RequestFalls
<1>5. ASSUME NEW p \in Plans, Create(p) PROVE ApprovalInv'
  BY <1>5, CreateFalls
<1>6. ASSUME NEW p \in Plans, Produce(p) PROVE ApprovalInv'
  <2>1. /\ UNCHANGED <<row, there, births, history, doing>> /\ produced' = produced \cup {p}
        /\ produced \in SUBSET Plans
    BY <1>1, <1>6 DEF Produce, board, BoardTypeOK
  <2> QED
    BY <1>1, <2>1, StagesKept
<1>7. ASSUME NEW p \in Plans, Stop(p) \/ Complete(p) \/ \E closed \in BOOLEAN : Review(p, closed)
      PROVE  ApprovalInv'
  BY <1>7, StatusFalls DEF Stop, Complete, SetBy, Review
<1>8. CASE SelfHeal
  BY <1>8, StatusFalls DEF SelfHeal
<1>9. CASE BulkApprove
  BY <1>9, BulkFalls
<1> QED
  BY <1>2, <1>3, <1>4, <1>5, <1>6, <1>7, <1>8, <1>9 DEF BoardNext

\* Of every reachable board: each row has its types, the history tells its
\* stage, and what /api/planning/run holds is approved or gone.
THEOREM Approvals == BoardSpec => []ApprovalInv
<1> QED
  BY ApprovalInit, ApprovalNext, PTL DEF BoardSpec

\* The types of rows, histories and requests (plan_board and its history).
THEOREM BoardTypes == BoardSpec => []BoardTypeOK
<1>1. ApprovalInv => BoardTypeOK
  BY DEF ApprovalInv
<1> QED
  BY <1>1, Approvals, PTL

\* Between PPC and Moulding, or rejected, a plan's history says so: the verdict
\* and its history row commit together, and a recovery takes its snapshot's stage.
THEOREM StagesAreTold == BoardSpec => []StageIsTold
<1>1. ApprovalInv => StageIsTold
  <2> SUFFICES ASSUME ApprovalInv PROVE StageIsTold
    OBVIOUS
  <2>1. /\ there \in SUBSET Plans /\ history \in [Plans -> Seq(Verdicts)]
        /\ \A p \in Plans : HistoryTells(p)
    BY DEF ApprovalInv, BoardTypeOK
  <2>2. ASSUME NEW p \in Plans, NEW vs, Told(p, vs) PROVE Given(p, vs) # {}
    <3>1. history[p] \in Seq(Verdicts)
      BY <2>1
    <3>2. DOMAIN history[p] = 1..Len(history[p])
      BY <3>1
    <3> QED
      BY <2>2, <3>2 DEF Told, Given
  <2> QED
    BY <2>1, <2>2 DEF StageIsTold, HistoryTells
<1> QED
  BY <1>1, Approvals, PTL

-----------------------------------------------------------------------------
\* Only setting the plan running ends a request that is to run one.
LEMMA RunEnds ==
  ASSUME ApprovalInv, NEW h \in Handlers, doing[h].step = "run", doing'[h] = Idle, [BoardNext]_boardVars
  PROVE  SetRunning(h)
<1>1. doing \in [Handlers -> Doings] /\ doing'[h] # doing[h] /\ doing[h].step # "idle"
  BY IdleSound DEF ApprovalInv, BoardTypeOK
<1>2. ASSUME NEW k \in Handlers, NEW d, doing' = [doing EXCEPT ![k] = d] PROVE k = h
  BY <1>1, <1>2
<1>3. ASSUME NEW k \in Handlers, NEW p \in Plans, Request(k, p) PROVE FALSE
  <2>1. doing[k].step = "idle" /\ \E d : doing' = [doing EXCEPT ![k] = d]
    BY <1>3 DEF Request, Run, Start, Switch, JobComplete, SupervisorComplete, Decide, Delete, Recover, Reads, Asks
  <2> QED
    BY <1>1, <1>2, <2>1
<1>4. ASSUME NEW k \in Handlers, Statement(k) PROVE SetRunning(h)
  <2>1. \E d : doing' = [doing EXCEPT ![k] = d]
    BY <1>4 DEF Statement, StopOthers, StopAll, SetRunning, Requeue, PickNext, CommitVerdict, DeleteRow,
                InsertSnapshot, Ends, Does
  <2>2. k = h
    BY <1>2, <2>1
  <2> QED
    BY <1>1, <1>4, <2>2 DEF Statement, StopOthers, StopAll, Requeue, PickNext, CommitVerdict, DeleteRow, InsertSnapshot
<1>5. UNCHANGED doing => FALSE
  BY <1>1
<1> QED
  BY <1>3, <1>4, <1>5 DEF BoardNext, boardVars, board, Create, Produce, Stop, Complete, SetBy, Review, SelfHeal, BulkApprove

\* /api/planning/run starts an approved plan, or none: the gate was passed some
\* statements before, and no id comes back with another stage.
THEOREM RunsAreApproved == BoardSpec => RunsApproved
<1>1. ASSUME ApprovalInv, [BoardNext]_boardVars
      PROVE  \A h \in Handlers, p \in Plans :
               /\ doing[h].step = "run" /\ doing[h].ok /\ doing[h].plan = p
               /\ row[p].status # "Running" /\ row'[p].status = "Running"
               /\ doing'[h] = Idle
               => row[p].stage = "APPROVED"
  <2> SUFFICES ASSUME NEW h \in Handlers, NEW p \in Plans, doing[h].step = "run", doing[h].ok,
                      doing[h].plan = p, row[p].status # "Running", row'[p].status = "Running", doing'[h] = Idle
               PROVE  row[p].stage = "APPROVED"
    OBVIOUS
  <2>1. SetRunning(h)
    BY <1>1, RunEnds
  <2>2. Found(h)
    BY <2>1 DEF SetRunning
  <2> QED
    BY <1>1, <2>2 DEF Found, ApprovalInv, Sound
<1> QED
  BY <1>1, Approvals, PTL DEF BoardSpec, RunsApproved

\* Only a bulk approval, which approves every plan not completed, takes the stage
\* of a rejected plan back: a late verdict finds another stage than it read.
THEOREM RejectionsStand == BoardSpec => RejectionStands
<1>1. ASSUME ApprovalInv, [BoardNext]_boardVars
      PROVE  \A p \in there \cap there' :
               row[p].stage = "REJECTED" /\ row'[p].stage # "REJECTED" =>
                 \A o \in there' : row'[o].stage = "APPROVED" \/ row'[o].status = "COMPLETED"
  <2> SUFFICES ASSUME NEW p \in there \cap there', row[p].stage = "REJECTED", row'[p].stage # "REJECTED"
               PROVE  \A o \in there' : row'[o].stage = "APPROVED" \/ row'[o].status = "COMPLETED"
    OBVIOUS
  <2>1. BoardTypeOK /\ p \in Plans /\ row \in [Plans -> Rows] /\ there \in SUBSET Plans
    BY <1>1 DEF ApprovalInv, BoardTypeOK
  <2>2. row' # row
    OBVIOUS
  <2>3. ASSUME NEW ps, NEW status \in {"Idle", "Running", "COMPLETED"}, SetStatus(ps, status) PROVE FALSE
    BY <2>1, <2>3, StatusOnly
  <2>4. ASSUME NEW h \in Handlers, Statement(h) PROVE FALSE
    <3>1. CASE CommitVerdict(h)
      <4>1. /\ row' = [row EXCEPT ![doing[h].plan] = Judge(@, Verdict(doing[h]))]
            /\ row[doing[h].plan].stage = doing[h].seen
        BY <2>2, <3>1 DEF CommitVerdict, StillAt
      <4>2. doing[h].seen # "REJECTED"
        BY <1>1, <3>1 DEF CommitVerdict, ApprovalInv, Sound
      <4> QED
        BY <2>1, <4>1, <4>2
    <3>2. CASE DeleteRow(h)
      BY <2>1, <2>2, <3>2 DEF DeleteRow, Found
    <3>3. ASSUME NEW status \in {"Idle", "Running"}, InsertSnapshot(h, status) PROVE FALSE
      BY <2>1, <2>2, <3>3 DEF InsertSnapshot, board
    <3>4. CASE StopOthers(h) \/ StopAll(h) \/ SetRunning(h) \/ Requeue(h) \/ PickNext(h)
      BY <2>2, <2>3, <3>4 DEF StopOthers, StopAll, SetRunning, Requeue, PickNext, board
    <3> QED
      BY <2>4, <3>1, <3>2, <3>3, <3>4 DEF Statement
  <2>5. ASSUME NEW h \in Handlers, NEW q \in Plans, Request(h, q) PROVE FALSE
    BY <2>2, <2>3, <2>5 DEF Request, Run, Start, Switch, JobComplete, SupervisorComplete, Decide, Delete, Recover, board
  <2>6. ASSUME NEW q \in Plans, \/ Create(q) \/ Produce(q) \/ Stop(q) \/ Complete(q)
                                \/ \E closed \in BOOLEAN : Review(q, closed)
        PROVE  FALSE
    BY <2>2, <2>3, <2>6 DEF Create, Produce, Stop, Complete, SetBy, Review, board
  <2>7. CASE SelfHeal
    BY <2>3, <2>7 DEF SelfHeal
  <2>8. CASE BulkApprove
    BY <2>1, <2>8 DEF BulkApprove, Rows
  <2> QED
    BY <1>1, <2>2, <2>4, <2>5, <2>6, <2>7, <2>8 DEF BoardNext, boardVars, board
<1> QED
  BY <1>1, Approvals, PTL DEF BoardSpec, RejectionStands

-----------------------------------------------------------------------------
(* One verdict per stage and row.                                           *)

OfPPC      == {"PPC_CHECKED", "PPC_REJECTED"}
OfMoulding == {"APPROVED", "MOULDING_REJECTED"}

\* A live row that still waits for a verdict has not had it; the rows before it
\* had at most one each.
VerdictsCounted(p) ==
  /\ Cardinality(Given(p, OfPPC)) <= births[p]
  /\ Cardinality(Given(p, OfMoulding)) <= births[p]
  /\ p \in there /\ row[p].stage = "PENDING" => Cardinality(Given(p, OfPPC)) < births[p]
  /\ p \in there /\ row[p].stage \in {"PENDING", "PPC_APPROVED"} => Cardinality(Given(p, OfMoulding)) < births[p]

VerdictInv == ApprovalInv /\ \A p \in Plans : VerdictsCounted(p)

\* Verdicts can be counted.
LEMMA GivenFinite ==
  ASSUME BoardTypeOK, NEW p \in Plans, NEW vs
  PROVE  IsFiniteSet(Given(p, vs)) /\ Cardinality(Given(p, vs)) \in Nat
<1>1. DOMAIN history[p] = 1..Len(history[p]) /\ Len(history[p]) \in Nat
  BY DEF BoardTypeOK
<1>2. IsFiniteSet(1..Len(history[p]))
  BY <1>1, FS_Interval
<1>3. IsFiniteSet(Given(p, vs))
  BY <1>1, <1>2, FS_Subset DEF Given
<1> QED
  BY <1>3, FS_CardinalityType

\* One more verdict is counted once, where it belongs.
LEMMA OneMore ==
  ASSUME BoardTypeOK, NEW p \in Plans, NEW v \in Verdicts, history' = [history EXCEPT ![p] = Append(@, v)], NEW vs
  PROVE  Cardinality(Given(p, vs))' = Cardinality(Given(p, vs)) + (IF v \in vs THEN 1 ELSE 0)
<1> DEFINE n == Len(history[p])
<1>1. history \in [Plans -> Seq(Verdicts)] /\ history[p] \in Seq(Verdicts)
  BY DEF BoardTypeOK
<1>2. history'[p] = Append(history[p], v)
  BY <1>1
<1>3. /\ n \in Nat /\ DOMAIN history[p] = 1..n /\ DOMAIN history'[p] = 1..(n + 1)
      /\ history'[p][n + 1] = v /\ \A i \in 1..n : history'[p][i] = history[p][i]
  BY <1>1, <1>2
<1> HIDE DEF n
<1>4. Given(p, vs)' = IF v \in vs THEN Given(p, vs) \cup {n + 1} ELSE Given(p, vs)
  <2>1. Given(p, vs)' = {i \in 1..(n + 1) : history'[p][i] \in vs}
    BY <1>3 DEF Given
  <2>2. Given(p, vs) = {i \in 1..n : history[p][i] \in vs}
    BY <1>3 DEF Given
  <2>3. \A i \in 1..(n + 1) : i = n + 1 \/ i \in 1..n
    BY <1>3
  <2>4. 1..n \subseteq 1..(n + 1) /\ n + 1 \in 1..(n + 1)
    BY <1>3
  <2> QED
    BY <1>3, <2>1, <2>2, <2>3, <2>4
<1>5. n + 1 \notin Given(p, vs)
  BY <1>3 DEF Given
<1>6. IsFiniteSet(Given(p, vs)) /\ Cardinality(Given(p, vs)) \in Nat
  BY GivenFinite
<1>7. CASE v \in vs
  BY <1>4, <1>5, <1>6, <1>7, FS_AddElement
<1>8. CASE v \notin vs
  BY <1>4, <1>6, <1>8
<1> QED
  BY <1>7, <1>8

\* What a step that gives no verdict on p does to it: a new row, or the same one
\* with a stage that waits for no more than before.
NoVerdict(p) ==
  /\ history'[p] = history[p]
  /\ births'[p] >= births[p]
  /\ p \in there' => \/ births'[p] > births[p]
                     \/ p \in there /\ row'[p].stage \in {row[p].stage, "APPROVED"}

\* A step that gives no verdict and reopens no stage keeps the count.
LEMMA CountedWithout ==
  ASSUME BoardTypeOK, BoardTypeOK', NEW p \in Plans, VerdictsCounted(p), NoVerdict(p)
  PROVE  VerdictsCounted(p)'
<1>1. \A vs : Given(p, vs)' = Given(p, vs)
  BY DEF Given, NoVerdict
<1>2. /\ Cardinality(Given(p, OfPPC)) \in Nat /\ Cardinality(Given(p, OfMoulding)) \in Nat
      /\ births[p] \in Nat /\ births'[p] \in Nat
  BY GivenFinite DEF BoardTypeOK
<1> QED
  BY <1>1, <1>2 DEF VerdictsCounted, NoVerdict

\* The one step that gives verdicts gives one on the stage that waits for it.
LEMMA CountedWith ==
  ASSUME ApprovalInv, NEW h \in Handlers, CommitVerdict(h), StillAt(h), \A p \in Plans : VerdictsCounted(p)
  PROVE  \A p \in Plans : VerdictsCounted(p)'
<1>1. /\ BoardTypeOK /\ doing[h].seen \in {"PENDING", "PPC_APPROVED"} /\ doing[h].plan \in Plans
      /\ UNCHANGED <<there, births>>
  BY DEF ApprovalInv, CommitVerdict, Sound, StillAt, Found
<1>2. PICK p \in Plans : p = doing[h].plan
  BY <1>1
<1>3. PICK v : v = Verdict(doing[h])
  OBVIOUS
<1>4. /\ row' = [row EXCEPT ![p] = Judge(@, v)] /\ history' = [history EXCEPT ![p] = Append(@, v)]
      /\ p \in there /\ row[p].stage = doing[h].seen
  BY <1>2, <1>3 DEF CommitVerdict, StillAt, Found
<1>5. /\ row[p].stage = "PENDING" => v \in OfPPC
      /\ row[p].stage = "PPC_APPROVED" => v \in OfMoulding
  BY <1>3, <1>4 DEF Verdict, OfPPC, OfMoulding
<1>6. v \in Verdicts /\ (v \in OfPPC => v \notin OfMoulding)
  BY <1>1, <1>4, <1>5 DEF OfPPC, OfMoulding, Verdicts
<1>7. row'[p].stage = "PENDING" => FALSE
  <2>1. row[p] \in Rows
    BY <1>1 DEF BoardTypeOK
  <2>2. row'[p] = Judge(row[p], v)
    BY <1>1, <1>4 DEF BoardTypeOK
  <2> QED
    BY <2>1, <2>2 DEF Judge, Rows
<1>8. row'[p].stage = "PPC_APPROVED" => v \in OfPPC
  <2>1. row[p] \in Rows
    BY <1>1 DEF BoardTypeOK
  <2>2. row'[p] = Judge(row[p], v)
    BY <1>1, <1>4 DEF BoardTypeOK
  <2> QED
    BY <2>1, <2>2 DEF Judge, Rows, OfPPC
<1>9. \A vs : Cardinality(Given(p, vs))' = Cardinality(Given(p, vs)) + (IF v \in vs THEN 1 ELSE 0)
  BY <1>1, <1>4, <1>6, OneMore
<1>10. VerdictsCounted(p)'
  <2>1. /\ Cardinality(Given(p, OfPPC)) \in Nat /\ Cardinality(Given(p, OfMoulding)) \in Nat /\ births[p] \in Nat
    BY <1>1, GivenFinite DEF BoardTypeOK
  <2>2. VerdictsCounted(p) /\ births'[p] = births[p]
    BY <1>1
  <2>3. CASE row[p].stage = "PENDING"
    BY <1>4, <1>5, <1>6, <1>7, <1>8, <1>9, <2>1, <2>2, <2>3 DEF VerdictsCounted
  <2>4. CASE row[p].stage = "PPC_APPROVED"
    BY <1>4, <1>5, <1>6, <1>7, <1>8, <1>9, <2>1, <2>2, <2>4 DEF VerdictsCounted
  <2> QED
    BY <1>1, <1>4, <2>3, <2>4
<1>11. ASSUME NEW q \in Plans, q # p PROVE VerdictsCounted(q)'
  <2>1. history'[q] = history[q] /\ row'[q] = row[q] /\ UNCHANGED <<there, births>>
    BY <1>1, <1>4, <1>11 DEF BoardTypeOK
  <2> QED
    BY <2>1 DEF VerdictsCounted, Given
<1> QED
  BY <1>10, <1>11

\* Every step but a verdict under its lock is of that kind.
LEMMA StepsWithout ==
  ASSUME ApprovalInv, [BoardNext]_boardVars, ~ \E h \in Handlers : CommitVerdict(h) /\ StillAt(h), NEW p \in Plans
  PROVE  NoVerdict(p)
<1>1. /\ BoardTypeOK /\ row \in [Plans -> Rows] /\ births \in [Plans -> Nat] /\ there \in SUBSET Plans
      /\ births[p] \in Nat
  BY DEF ApprovalInv, BoardTypeOK
<1>2. ASSUME NEW ps, NEW status \in {"Idle", "Running", "COMPLETED"}, SetStatus(ps, status) \/ row' = row,
             UNCHANGED <<there, births, history>>
      PROVE  NoVerdict(p)
  BY <1>1, <1>2, StatusOnly DEF NoVerdict
<1>3. ASSUME NEW h \in Handlers, Statement(h) PROVE NoVerdict(p)
  <2>1. CASE CommitVerdict(h)
    BY <1>1, <2>1 DEF CommitVerdict, NoVerdict
  <2>2. CASE DeleteRow(h)
    BY <1>1, <2>2 DEF DeleteRow, NoVerdict
  <2>3. ASSUME NEW status \in {"Idle", "Running"}, InsertSnapshot(h, status) PROVE NoVerdict(p)
    BY <1>1, <2>3 DEF InsertSnapshot, NoVerdict, board
  <2>4. CASE StopOthers(h) \/ StopAll(h) \/ SetRunning(h) \/ Requeue(h) \/ PickNext(h)
    BY <1>2, <2>4 DEF StopOthers, StopAll, SetRunning, Requeue, PickNext, board
  <2> QED
    BY <1>3, <2>1, <2>2, <2>3, <2>4 DEF Statement
<1>4. ASSUME NEW h \in Handlers, NEW q \in Plans, Request(h, q) PROVE NoVerdict(p)
  BY <1>2, <1>4 DEF Request, Run, Start, Switch, JobComplete, SupervisorComplete, Decide, Delete, Recover, board
<1>5. ASSUME NEW q \in Plans, Create(q) PROVE NoVerdict(p)
  BY <1>1, <1>5 DEF Create, NoVerdict
<1>6. ASSUME NEW q \in Plans, Produce(q) \/ Stop(q) \/ Complete(q) \/ \E closed \in BOOLEAN : Review(q, closed)
      PROVE  NoVerdict(p)
  BY <1>2, <1>6 DEF Produce, Stop, Complete, SetBy, Review, board
<1>7. CASE SelfHeal
  BY <1>2, <1>7 DEF SelfHeal
<1>8. CASE BulkApprove
  BY <1>1, <1>8 DEF BulkApprove, NoVerdict, Rows
<1>9. CASE UNCHANGED boardVars
  BY <1>1, <1>9 DEF boardVars, board, NoVerdict
<1> QED
  BY <1>3, <1>4, <1>5, <1>6, <1>7, <1>8, <1>9 DEF BoardNext

\* Whoever clicks at the same time, approves in bulk, deletes or recovers: each
\* row of a plan gets at most one verdict of PPC and one of Moulding (the FOR
\* UPDATE and the stage compared under it).
THEOREM VerdictsGivenOnce == BoardSpec => []OneVerdictPerStage
<1>1. BoardInit => VerdictInv
  <2> SUFFICES ASSUME BoardInit PROVE VerdictInv
    OBVIOUS
  <2>1. \A p \in Plans : \A vs : Given(p, vs) = {}
    BY DEF BoardInit, Given
  <2>2. \A p \in Plans : VerdictsCounted(p)
    <3> SUFFICES ASSUME NEW p \in Plans PROVE VerdictsCounted(p)
      OBVIOUS
    <3>1. Cardinality(Given(p, OfPPC)) = 0 /\ Cardinality(Given(p, OfMoulding)) = 0
      BY <2>1, FS_EmptySet
    <3>2. births[p] = 0 /\ there = {}
      BY DEF BoardInit
    <3> QED
      BY <3>1, <3>2 DEF VerdictsCounted
  <2> QED
    BY <2>2, ApprovalInit DEF VerdictInv
<1>2. VerdictInv /\ [BoardNext]_boardVars => VerdictInv'
  <2> SUFFICES ASSUME VerdictInv, [BoardNext]_boardVars PROVE VerdictInv'
    OBVIOUS
  <2>1. ApprovalInv /\ ApprovalInv' /\ BoardTypeOK /\ BoardTypeOK'
    BY ApprovalNext DEF VerdictInv, ApprovalInv
  <2>2. CASE \E h \in Handlers : CommitVerdict(h) /\ StillAt(h)
    BY <2>1, <2>2, CountedWith DEF VerdictInv
  <2>3. CASE ~ \E h \in Handlers : CommitVerdict(h) /\ StillAt(h)
    BY <2>1, <2>3, StepsWithout, CountedWithout DEF VerdictInv
  <2> QED
    BY <2>2, <2>3
<1>3. VerdictInv => OneVerdictPerStage
  BY DEF VerdictInv, VerdictsCounted, OneVerdictPerStage, OfPPC, OfMoulding
<1> QED
  BY <1>1, <1>2, <1>3, PTL DEF BoardSpec
=============================================================================
