----------------------------- MODULE PlanBoard -----------------------------
(***************************************************************************)
(* The plans of one machine: who runs, who was approved, deletion and      *)
(* recovery (BACKEND/src/legacy/registerLegacyRoutes.js, plan_board and    *)
(* plan_job_card_approval_history).                                        *)
(*                                                                         *)
(* Statements commit by themselves, the approval's transaction excepted; a *)
(* request decides from what it read before other requests wrote.          *)
(*                                                                         *)
(* Left out: roles and factories, the Job Card link (every order has one), *)
(* the labels P1-P4, the order of the queue (any plan may be the next),    *)
(* audit rows, other machines.                                             *)
(***************************************************************************)
EXTENDS Naturals, FiniteSets, SequencesExt

CONSTANTS
  Plans,         \* plan_id codes
  NoPlan,
  Judged,        \* bound: the plans that PPC and Moulding act on
  Moulded,       \* bound: the plans that production is entered for
  Handlers,      \* requests being handled at once
  MaxRecoveries  \* bound: recoveries of one plan

ASSUME PlanBoardConstants ==
  /\ NoPlan \notin Plans /\ Judged \cup Moulded \subseteq Plans
  /\ MaxRecoveries \in Nat

VARIABLES
  row,       \* row[p]: status and jc_approval_status of p's row
  there,     \* plans with a row in plan_board
  births,    \* births[p]: how often a row of p was inserted; tells its ids apart
  produced,  \* plans with rows in dpr_hourly
  history,   \* history[p]: the verdicts on p, in order
  doing      \* doing[h]: what handler h holds in its local variables

board     == <<row, there, births>>
boardVars == <<board, produced, history, doing>>

Stages   == {"PENDING", "PPC_APPROVED", "APPROVED", "REJECTED"}
Verdicts == {"PPC_CHECKED", "APPROVED", "PPC_REJECTED", "MOULDING_REJECTED"}

\* "Idle": 'PLANNED', 'Stopped', 'REJECTED' or 'CLOSED'; no statement tells them apart.
Rows     == [status : {"Idle", "Running", "COMPLETED"}, stage : Stages]

NewRow == [status |-> "Idle", stage |-> "PENDING"]

\* birth: the id it read; seen: what it read of the row; ok: approves, or came
\* through the gate of /api/planning/run.
Doings == [step : {"idle", "stop", "stopAll", "run", "runFirst", "stopLast",
                   "requeue", "next", "verdict", "delete", "insert"},
           plan : Plans \cup {NoPlan}, birth : Nat, seen : Stages, ok : BOOLEAN]

Idle == [step |-> "idle", plan |-> NoPlan, birth |-> 0, seen |-> "PENDING", ok |-> FALSE]

BoardInit ==
  /\ row = [p \in Plans |-> NewRow]
  /\ there = {}
  /\ births = [p \in Plans |-> 0]
  /\ produced = {}
  /\ history = [p \in Plans |-> <<>>]
  /\ doing = [h \in Handlers |-> Idle]

Runners == {p \in there : row[p].status = "Running"}

Ends(h) == doing' = [doing EXCEPT ![h] = Idle]
Does(h, step) == doing' = [doing EXCEPT ![h].step = step]

Asks(h, p, step) ==
  /\ doing[h].step = "idle"
  /\ doing' = [doing EXCEPT ![h] = [Idle EXCEPT !.step = step, !.plan = p]]

\* A request reads p's row, and goes on with its id and with what it needs of it.
Reads(h, p, step, seen, ok) ==
  /\ doing[h].step = "idle"
  /\ p \in there
  /\ doing' = [doing EXCEPT ![h] = [step |-> step, plan |-> p, birth |-> births[p],
                                    seen |-> seen, ok |-> ok]]

Found_ByCode(h) == doing[h].plan \in there

\* WHERE id = $1: the row the handler read, unless it was deleted meanwhile.
Found(h) == doing[h].plan \in there /\ births[doing[h].plan] = doing[h].birth

SetStatus(ps, status) ==
  row' = [p \in Plans |-> IF p \in ps THEN [row[p] EXCEPT !.status = status] ELSE row[p]]

-----------------------------------------------------------------------------
(* Starting a plan: three routes stop the others and then set 'Running',   *)
(* in two statements.                                                      *)

Approved(r) == r.stage = "APPROVED"

\* /api/planning/run decides on the row it read first.
Run(h, p) ==
  /\ Approved(row[p])
  /\ Reads(h, p, "stop", "PENDING", TRUE)
  /\ UNCHANGED <<board, produced, history>>

\* /api/planning/start, and /api/planning/update to RUNNING: no approval gate.
Start(h, p) ==
  /\ Reads(h, p, "stop", "PENDING", FALSE)
  /\ UNCHANGED <<board, produced, history>>

\* switch-priority-job: p is the next of the labelled plans.
Switch(h, p) ==
  /\ Reads(h, p, "stopAll", "PENDING", FALSE)
  /\ UNCHANGED <<board, produced, history>>

StopOthers(h) ==
  /\ doing[h].step \in {"stop", "stopLast"}
  /\ SetStatus(Runners \ {doing[h].plan}, "Idle")
  /\ IF doing[h].step = "stop" THEN Does(h, "run") ELSE Ends(h)
  /\ UNCHANGED <<there, births, produced, history>>

StopAll(h) ==
  /\ doing[h].step = "stopAll"
  /\ SetStatus(Runners, "Idle")
  /\ Does(h, "run")
  /\ UNCHANGED <<there, births, produced, history>>

\* Whatever the row has become.
SetRunning(h) ==
  /\ doing[h].step \in {"run", "runFirst"}
  /\ IF Found(h) THEN SetStatus({doing[h].plan}, "Running") ELSE row' = row
  /\ IF doing[h].step = "run" THEN Ends(h) ELSE Does(h, "stopLast")
  /\ UNCHANGED <<there, births, produced, history>>

\* /api/approvals/review, action REJECT: runs beside whatever runs.
Review(p, closed) ==
  /\ p \in there
  /\ SetStatus({p}, IF closed THEN "Idle" ELSE "Running")
  /\ UNCHANGED <<there, births, produced, history, doing>>

-----------------------------------------------------------------------------
(* The supervisor's "complete": stop this job, start the next.             *)

\* /api/job/complete counts its production first, then sends it to the back of
\* the queue: 'Stopped' if there was any, 'Planned' if not.
JobComplete(h, p) ==
  /\ Asks(h, p, "requeue")
  /\ UNCHANGED <<board, produced, history>>

Requeue(h) ==
  /\ doing[h].step = "requeue"
  /\ LET p == doing[h].plan
     IN  IF p \in there
           THEN /\ SetStatus({p}, "Idle")
                /\ doing' = [doing EXCEPT ![h] = [Idle EXCEPT !.step = "next"]]
           ELSE /\ row' = row
                /\ Ends(h)
  /\ UNCHANGED <<there, births, produced, history>>

\* supervisor-complete stops it at once.
SupervisorComplete(h, p) ==
  /\ p \in there
  /\ Asks(h, NoPlan, "next")
  /\ SetStatus({p}, "Idle")
  /\ UNCHANGED <<there, births, produced, history>>

Waiting == {p \in there : row[p].status \notin {"Running", "COMPLETED"}}

\* The approval is not looked at.  One route stops all, then runs the next; the
\* other runs it, then stops the others.
PickNext(h) ==
  /\ doing[h].step = "next"
  /\ \/ Waiting = {} /\ Ends(h)
     \/ \E p \in Waiting, step \in {"stopAll", "runFirst"} :
          doing' = [doing EXCEPT ![h] = [Idle EXCEPT !.step = step, !.plan = p, !.birth = births[p]]]
  /\ UNCHANGED <<board, produced, history>>

-----------------------------------------------------------------------------
(* One statement each: stop, restore-plan, update; complete.               *)

SetBy(p, status) ==
  /\ p \in there
  /\ SetStatus({p}, status)
  /\ UNCHANGED <<there, births, produced, history, doing>>

Stop(p) == SetBy(p, "Idle")

Complete(p) == SetBy(p, "COMPLETED")

\* On a load of the board, once per 5 minutes: the runner updated last is kept.
SelfHeal ==
  /\ \E p \in Runners : SetStatus(Runners \ {p}, "Idle")
  /\ UNCHANGED <<there, births, produced, history, doing>>

-----------------------------------------------------------------------------
(* Approval: POST /api/planning/job-card-approvals/:id/action              *)

Decide(h, p, approve) ==
  /\ p \in Judged
  /\ row[p].stage \in {"PENDING", "PPC_APPROVED"}
  /\ Reads(h, p, "verdict", row[p].stage, approve)
  /\ UNCHANGED <<board, produced, history>>

Verdict(d) ==
  IF d.seen = "PENDING" THEN IF d.ok THEN "PPC_CHECKED" ELSE "PPC_REJECTED"
                              ELSE IF d.ok THEN "APPROVED" ELSE "MOULDING_REJECTED"

Judge(r, v) ==
  IF v = "PPC_CHECKED" THEN [r EXCEPT !.stage = "PPC_APPROVED"]
  ELSE IF v = "APPROVED" THEN [r EXCEPT !.stage = "APPROVED"]
  ELSE [status |-> "Idle", stage |-> "REJECTED"]

\* SELECT ... FOR UPDATE, against the stage read before the transaction.
StillAt_Unlocked(h) == Found(h)

StillAt(h) == Found(h) /\ row[doing[h].plan].stage = doing[h].seen

\* Stage and history row commit together.
CommitVerdict(h) ==
  /\ doing[h].step = "verdict"
  /\ LET p == doing[h].plan
         v == Verdict(doing[h])
     IN  IF StillAt(h)
           THEN /\ row' = [row EXCEPT ![p] = Judge(@, v)]
                /\ history' = [history EXCEPT ![p] = Append(@, v)]
           ELSE UNCHANGED <<row, history>>
  /\ Ends(h)
  /\ UNCHANGED <<there, births, produced>>

\* /api/admin/plans/bulk-approve: every plan that is not completed, rejected
\* ones included, and no history row.
BulkApprove ==
  /\ row' = [p \in Plans |-> IF p \in there /\ row[p].status # "COMPLETED"
                               THEN [row[p] EXCEPT !.stage = "APPROVED"] ELSE row[p]]
  /\ UNCHANGED <<there, births, produced, history, doing>>

-----------------------------------------------------------------------------
(* Creation, production, deletion, recovery.                               *)

Create_NoId(p) ==
  /\ births[p] = 0
  /\ there' = there \cup {p}
  /\ UNCHANGED <<row, births, produced, history, doing>>

Create(p) ==
  /\ births[p] = 0
  /\ there' = there \cup {p}
  /\ births' = [births EXCEPT ![p] = 1]
  /\ UNCHANGED <<row, produced, history, doing>>

\* /api/dpr/submit looks at no plan when it inserts; its screen shows plans of the board.
Produce(p) ==
  /\ p \in there \cap Moulded
  /\ produced' = produced \cup {p}
  /\ UNCHANGED <<board, history, doing>>

\* A plan with production is refused when it is counted ...
Delete(h, p) ==
  /\ p \notin produced
  /\ Reads(h, p, "delete", "PENDING", FALSE)
  /\ UNCHANGED <<board, produced, history>>

\* ... and deleted by its id some statements later.
DeleteRow(h) ==
  /\ doing[h].step = "delete"
  /\ IF Found(h)
       THEN /\ there' = there \ {doing[h].plan}
            /\ row' = [row EXCEPT ![doing[h].plan] = NewRow]
       ELSE UNCHANGED <<there, row>>
  /\ Ends(h)
  /\ UNCHANGED <<births, produced, history>>

\* The snapshot of an entry is the row as it was read before that verdict.
SnapshotStage(v) == IF v \in {"PPC_CHECKED", "PPC_REJECTED"} THEN "PENDING" ELSE "PPC_APPROVED"

\* recover-deleted-plan: the latest snapshot, and no live row.
Recover(h, p) ==
  /\ doing[h].step = "idle"
  /\ history[p] # <<>>
  /\ p \notin there
  /\ births[p] <= MaxRecoveries
  /\ doing' = [doing EXCEPT ![h] = [Idle EXCEPT !.step = "insert", !.plan = p, !.seen = SnapshotStage(Last(history[p]))]]
  /\ UNCHANGED <<board, produced, history>>

InsertSnapshot_AsJudged(h, status) ==
  /\ doing[h].step = "insert"
  /\ LET p == doing[h].plan
     IN  IF p \notin there
           THEN /\ row' = [row EXCEPT ![p] = Judge([status |-> status, stage |-> "PENDING"], "PPC_CHECKED")]
                /\ there' = there \cup {p}
                /\ births' = [births EXCEPT ![p] = @ + 1]
           ELSE UNCHANGED board
  /\ Ends(h)
  /\ UNCHANGED <<produced, history>>

\* A second recovery hits the unique index (23505) and is answered 409.  status:
\* whatever the row had when it was judged.
InsertSnapshot(h, status) ==
  /\ doing[h].step = "insert"
  /\ LET p == doing[h].plan
     IN  IF p \notin there
           THEN /\ row' = [row EXCEPT ![p] = [status |-> status, stage |-> doing[h].seen]]
                /\ there' = there \cup {p}
                /\ births' = [births EXCEPT ![p] = @ + 1]
           ELSE UNCHANGED board
  /\ Ends(h)
  /\ UNCHANGED <<produced, history>>

-----------------------------------------------------------------------------
Statement(h) ==
  \/ StopOthers(h) \/ StopAll(h) \/ SetRunning(h)
  \/ Requeue(h) \/ PickNext(h)
  \/ CommitVerdict(h) \/ DeleteRow(h)
  \/ \E status \in {"Idle", "Running"} : InsertSnapshot(h, status)

Request(h, p) ==
  \/ Run(h, p) \/ Start(h, p) \/ Switch(h, p)
  \/ JobComplete(h, p) \/ SupervisorComplete(h, p)
  \/ \E approve \in BOOLEAN : Decide(h, p, approve)
  \/ Delete(h, p) \/ Recover(h, p)

BoardNext ==
  \/ \E h \in Handlers : Statement(h) \/ \E p \in Plans : Request(h, p)
  \/ \E p \in Plans : \/ Create(p) \/ Produce(p) \/ Stop(p) \/ Complete(p)
                      \/ \E closed \in BOOLEAN : Review(p, closed)
  \/ SelfHeal \/ BulkApprove

BoardSpec == BoardInit /\ [][BoardNext]_boardVars

\* Somebody has the board open.
FairBoardSpec == BoardSpec /\ WF_boardVars(SelfHeal)

-----------------------------------------------------------------------------
BoardTypeOK ==
  /\ row \in [Plans -> Rows]
  /\ there \in SUBSET Plans
  /\ births \in [Plans -> Nat]
  /\ \A p \in there : births[p] > 0
  /\ produced \in SUBSET Plans
  /\ history \in [Plans -> Seq(Verdicts)]
  /\ doing \in [Handlers -> Doings]
  /\ \A h \in Handlers : doing[h].step \notin {"idle", "next"} => doing[h].plan \in Plans

Given(p, vs) == {i \in DOMAIN history[p] : history[p][i] \in vs}

\* "both requests would apply their own stage transition" without the row lock
\* (18678-18681): each row of a plan gets at most one verdict of PPC and one of
\* Moulding, whoever clicks at the same time, and whoever approves in bulk.
OneVerdictPerStage ==
  \A p \in Plans :
    /\ Cardinality(Given(p, {"PPC_CHECKED", "PPC_REJECTED"})) <= births[p]
    /\ Cardinality(Given(p, {"APPROVED", "MOULDING_REJECTED"})) <= births[p]

\* "status change and its audit row MUST commit together" (18632): a stage a
\* plan stands at between PPC and Moulding, or rejected, is told by its history,
\* after a recovery too.
StageIsTold ==
  \A p \in there :
    /\ row[p].stage = "PPC_APPROVED" => Given(p, {"PPC_CHECKED"}) # {}
    /\ row[p].stage = "REJECTED" => Given(p, {"PPC_REJECTED", "MOULDING_REJECTED"}) # {}

\* A verdict that was decided on an older stage never takes a rejection back;
\* only a bulk approval does, and that approves everything not completed.
RejectionStands ==
  [][\A p \in there \cap there' :
       row[p].stage = "REJECTED" /\ row'[p].stage # "REJECTED" =>
         \A o \in there' : row'[o].stage = "APPROVED" \/ row'[o].status = "COMPLETED"]_boardVars

\* "starting a plan requires BOTH PPC and Moulding approval" (15861): what
\* /api/planning/run starts is approved when it is started, though the approval
\* was read two statements before, and plans are deleted and recovered meanwhile.
RunsApproved ==
  [][\A h \in Handlers, p \in Plans :
       /\ doing[h].step = "run" /\ doing[h].ok /\ doing[h].plan = p
       /\ row[p].status # "Running" /\ row'[p].status = "Running"
       /\ doing'[h] = Idle
       => row[p].stage = "APPROVED"]_boardVars

\* Starts that overlap leave several plans running on the machine; the self-heal
\* of the board (12461-12472) brings it back to one.
OneRunnerAgain == Cardinality(Runners) > 1 ~> Cardinality(Runners) <= 1

\* "a plan may only be ... started when ... BOTH PPC and Moulding have approved
\* it" (13024-13029).
StartGated ==
  [][\A p \in there : row[p].status # "Running" /\ p \in there' /\ row'[p].status = "Running"
                        => row[p].stage = "APPROVED"]_boardVars

\* "Deleting it would orphan that production" (15967): no production without a plan.
NoOrphans == produced \subseteq there

\* At most one plan of the machine runs.
OneRunner == Cardinality(Runners) <= 1

\* A plan that was rejected is not approved but by a new plan ("Bulk-approve all
\* PENDING/NULL plans", 4608).
RejectedStays ==
  [][\A p \in there \cap there' : row[p].stage = "REJECTED" => row'[p].stage = "REJECTED"]_boardVars
=============================================================================
