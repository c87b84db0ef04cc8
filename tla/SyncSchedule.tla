---------------------------- MODULE SyncSchedule ----------------------------
(***************************************************************************)
(* When a LOCAL's sync cycles run: triggerSync, runSyncCycle and the three *)
(* kinds of timers that call it (BACKEND/services/sync.service.js).        *)
(*                                                                         *)
(* runSyncCycle is asynchronous: between two of its awaits timers fire,    *)
(* users write and trigger, administrators reset watermarks.  Two flags    *)
(* keep activations apart: syncInFlight and syncRerunRequested.            *)
(*                                                                         *)
(* What a cycle carries is RowSync's subject.  Here an edit is its place   *)
(* in the order of edits, a watermark the last edit it has moved past.     *)
(* Timers have no durations: one that is armed may fire at any time.       *)
(*                                                                         *)
(* init swallows what it throws: a process may come up deaf (its           *)
(* SERVER_TYPE never read) or dormant (configured, but nothing armed).     *)
(***************************************************************************)
EXTENDS Naturals, FiniteSets

CONSTANTS
  Runs,       \* activations of runSyncCycle that may be alive together
  MaxEdits,   \* bound: edits
  MaxResets,  \* bound: full-push and full-pull resets together
  MaxFaults   \* bound: cycles that throw and restarts together

ASSUME ScheduleConstants ==
  /\ Runs # {}
  /\ MaxEdits \in Nat
  /\ MaxResets \in Nat
  /\ MaxFaults \in Nat

VARIABLES
  edits,     \* edits committed so far
  resets,    \* resets so far
  faults,    \* faults so far
  lastPush,  \* server_config LAST_PUSH
  timer,     \* syncTimer: unarmed, armed with a short delay, with the interval
  debounce,  \* triggerTimeout is armed
  oneShots,  \* setTimeouts of full-push resets not yet fired
  inFlight,  \* syncInFlight
  rerun,     \* syncRerunRequested
  life,      \* what init left: deaf, dormant, or a schedule that is awake
  pc,        \* where each activation stands
  mark,      \* the cycleWatermark it took
  asked,     \* history: triggerSync was called after the last cycle began
  wantsAll   \* history: a full push was asked for and no cycle began it yet

activation == <<pc, mark>>
flags      == <<timer, debounce, oneShots, inFlight, rerun, life>>
vars       == <<edits, resets, faults, lastPush, flags, activation, asked, wantsAll>>

Delays == {"off", "short", "interval"}
Steps  == {"idle", "begin", "push", "rest", "end"}
Lives  == {"deaf", "dormant", "awake"}

TypeOK ==
  /\ edits \in 0..MaxEdits
  /\ resets \in 0..MaxResets
  /\ faults \in 0..MaxFaults
  /\ lastPush \in 0..MaxEdits
  /\ timer \in Delays
  /\ oneShots \in 0..resets
  /\ debounce \in BOOLEAN
  /\ inFlight \in BOOLEAN
  /\ rerun \in BOOLEAN
  /\ life \in Lives
  /\ pc \in [Runs -> Steps]
  /\ mark \in [Runs -> 0..MaxEdits]
  /\ asked \in BOOLEAN
  /\ wantsAll \in BOOLEAN

\* How far init gets before it throws, if it throws.
StartUp(l) == IF l = "awake" THEN "short" ELSE "off"

Init ==
  /\ edits = 0
  /\ resets = 0
  /\ faults = 0
  /\ lastPush = 0
  /\ life \in Lives
  /\ timer = StartUp(life)
  /\ debounce = FALSE
  /\ oneShots = 0
  /\ inFlight = FALSE
  /\ rerun = FALSE
  /\ pc = [r \in Runs |-> "idle"]
  /\ mark = [r \in Runs |-> 0]
  /\ asked = FALSE
  /\ wantsAll = FALSE

Goto(r, step) == pc' = [pc EXCEPT ![r] = step]

-----------------------------------------------------------------------------
(* triggerSync                                                             *)

TriggerSync ==
  IF life = "deaf"
    THEN UNCHANGED <<asked, debounce, rerun>>
    ELSE /\ asked' = TRUE
         /\ IF inFlight
              THEN rerun' = TRUE /\ UNCHANGED debounce
              ELSE debounce' = TRUE /\ UNCHANGED rerun

\* A route writes rows and triggers a cycle; some writers never trigger one.
Edit ==
  /\ edits < MaxEdits
  /\ edits' = edits + 1
  /\ TriggerSync \/ UNCHANGED <<asked, debounce, rerun>>
  /\ UNCHANGED <<resets, faults, lastPush, timer, oneShots, inFlight, life, activation, wantsAll>>

-----------------------------------------------------------------------------
(* runSyncCycle                                                            *)

RunSyncCycle_Unguarded ==
  \E r \in Runs :
    /\ pc[r] = "idle"
    /\ Goto(r, "begin")
    /\ inFlight' = TRUE
    /\ life' = "awake"
    /\ asked' = FALSE
    /\ UNCHANGED rerun

\* Called by a timer.  The first statements, up to the first await.
RunSyncCycle ==
  IF inFlight
    THEN rerun' = TRUE /\ UNCHANGED <<pc, inFlight, life, asked>>
    ELSE \E r \in Runs :
           /\ pc[r] = "idle"
           /\ Goto(r, "begin")
           /\ inFlight' = TRUE
           /\ life' = "awake"
           /\ asked' = FALSE
           /\ UNCHANGED rerun

\* An activation that begins disarms the trigger's timeout.
SyncTimerFires ==
  /\ timer # "off"
  /\ timer' = "off"
  /\ RunSyncCycle
  /\ debounce' = (debounce /\ inFlight)
  /\ UNCHANGED <<edits, resets, faults, lastPush, oneShots, mark, wantsAll>>

TriggerFires ==
  /\ debounce
  /\ debounce' = FALSE
  /\ RunSyncCycle
  /\ UNCHANGED <<edits, resets, faults, lastPush, timer, oneShots, mark, wantsAll>>

OneShotFires ==
  /\ oneShots > 0
  /\ oneShots' = oneShots - 1
  /\ RunSyncCycle
  /\ debounce' = (debounce /\ inFlight)
  /\ UNCHANGED <<edits, resets, faults, lastPush, timer, mark, wantsAll>>

\* pushChanges reads LAST_PUSH and takes the watermark ...
BeginPush(r) ==
  /\ pc[r] = "begin"
  /\ mark' = [mark EXCEPT ![r] = edits]
  /\ wantsAll' = (wantsAll /\ lastPush > 0)
  /\ Goto(r, "push")
  /\ UNCHANGED <<edits, resets, faults, lastPush, flags, asked>>

EndPush_OneTooFar(r) ==
  /\ pc[r] = "push"
  /\ lastPush' = mark[r] + 1
  /\ Goto(r, "rest")
  /\ UNCHANGED <<edits, resets, faults, flags, mark, asked, wantsAll>>

\* ... and, its requests done, stores it.
EndPush(r) ==
  /\ pc[r] = "push"
  /\ lastPush' = mark[r]
  /\ Goto(r, "rest")
  /\ UNCHANGED <<edits, resets, faults, flags, mark, asked, wantsAll>>

\* Deletions and pulls.
PullAndAudit(r) ==
  /\ pc[r] = "rest"
  /\ Goto(r, "end")
  /\ UNCHANGED <<edits, resets, faults, lastPush, flags, mark, asked, wantsAll>>

\* The catch of runSyncCycle: whatever was left of the cycle is skipped.
Throw(r) ==
  /\ pc[r] \in {"begin", "push", "rest"}
  /\ faults < MaxFaults
  /\ faults' = faults + 1
  /\ Goto(r, "end")
  /\ UNCHANGED <<edits, resets, lastPush, flags, mark, asked, wantsAll>>

Finally_ForgetsRerun(r) ==
  /\ pc[r] = "end"
  /\ inFlight' = FALSE
  /\ rerun' = FALSE
  /\ timer' = "interval"
  /\ Goto(r, "idle")
  /\ UNCHANGED <<edits, resets, faults, lastPush, debounce, oneShots, life, mark, asked, wantsAll>>

Finally_OnlyFollowUps(r) ==
  /\ pc[r] = "end"
  /\ inFlight' = FALSE
  /\ rerun' = FALSE
  /\ timer' = IF rerun THEN "short" ELSE timer
  /\ Goto(r, "idle")
  /\ UNCHANGED <<edits, resets, faults, lastPush, debounce, oneShots, life, mark, asked, wantsAll>>

Finally(r) ==
  /\ pc[r] = "end"
  /\ inFlight' = FALSE
  /\ rerun' = FALSE
  /\ timer' = IF rerun THEN "short" ELSE "interval"
  /\ Goto(r, "idle")
  /\ UNCHANGED <<edits, resets, faults, lastPush, debounce, oneShots, life, mark, asked, wantsAll>>

-----------------------------------------------------------------------------
(* Administrators, restarts.                                               *)

Reset ==
  /\ resets < MaxResets
  /\ resets' = resets + 1

\* Refused unless SERVER_TYPE is LOCAL, as the next reset but one.
FullPushReset ==
  /\ life # "deaf"
  /\ Reset
  /\ lastPush' = 0
  /\ oneShots' = oneShots + 1
  /\ wantsAll' = TRUE
  /\ UNCHANGED <<edits, faults, timer, debounce, inFlight, rerun, life, activation, asked>>

\* POST /api/sync/force-full-push, the operators' button.
ForceFullPush ==
  /\ Reset
  /\ lastPush' = 0
  /\ TriggerSync
  /\ wantsAll' = TRUE
  /\ UNCHANGED <<edits, faults, timer, oneShots, inFlight, life, activation>>

\* LAST_PULL is not kept here; the cycle is scheduled through syncTimer.
FullPullReset ==
  /\ life # "deaf"
  /\ Reset
  /\ timer' = "short"
  /\ life' = "awake"
  /\ UNCHANGED <<edits, faults, lastPush, debounce, oneShots, inFlight, rerun, activation, asked, wantsAll>>

\* A trigger the dead process had in hand is made good by the first cycle of
\* a schedule that awakes, and by nothing if init fails.
Restart ==
  /\ faults < MaxFaults
  /\ faults' = faults + 1
  /\ life' \in Lives
  /\ timer' = StartUp(life')
  /\ asked' = (asked /\ life' = "awake")
  /\ debounce' = FALSE
  /\ oneShots' = 0
  /\ inFlight' = FALSE
  /\ rerun' = FALSE
  /\ pc' = [r \in Runs |-> "idle"]
  /\ UNCHANGED <<edits, resets, lastPush, mark, wantsAll>>

-----------------------------------------------------------------------------

Fire == SyncTimerFires \/ TriggerFires \/ OneShotFires

CycleStep(r) == BeginPush(r) \/ EndPush(r) \/ PullAndAudit(r) \/ Finally(r)

Next ==
  \/ Edit
  \/ Fire
  \/ \E r \in Runs : CycleStep(r) \/ Throw(r)
  \/ FullPushReset \/ ForceFullPush \/ FullPullReset
  \/ Restart

Spec == Init /\ [][Next]_vars

\* Armed timers fire, and every await of a cycle comes back.
FairSpec ==
  /\ Spec
  /\ WF_vars(SyncTimerFires)
  /\ WF_vars(TriggerFires)
  /\ WF_vars(OneShotFires)
  /\ \A r \in Runs : WF_vars(CycleStep(r))

-----------------------------------------------------------------------------

\* Two activations never run at once, whichever timers and triggers overlap
\* (the syncInFlight guard spans every await of the cycle).
OneCycle == \A r, s \in Runs : pc[r] # "idle" /\ pc[s] # "idle" => r = s

\* A schedule that was armed since the process began does not die with it
\* alive: a cycle is running, and will schedule the next one in its finally,
\* or syncTimer is armed.
ScheduleLives == life = "awake" => inFlight \/ timer # "off"

\* A trigger is not left to the interval: a cycle that begins after it is
\* queued behind the one running, or armed with a short delay.
TriggersKept ==
  asked => \/ inFlight /\ rerun
           \/ debounce
           \/ timer = "short"

\* "so the next sync cycle re-pushes ALL local rows to MAIN" (full-push-reset):
\* the epoch stays in LAST_PUSH until a cycle has read it.
ResetHonoured == wantsAll => lastPush = 0

\* The process that stays in the end has a schedule, or was asked for a cycle
\* since its init failed (after the settings were read).
Roused == life = "awake" \/ asked

\* However edits, triggers, failures and restarts interleave, every edit is
\* moved past by a push in the end, the ones nobody triggered a cycle for
\* too, unless init left a process that nothing ever wakes.
EveryEditPushed == <>[]Roused => <>[](lastPush = edits)

\* What makes these inductive: syncInFlight says whether an activation is
\* alive, and a trigger during one has set syncRerunRequested.
FlagTellsTruth == inFlight <=> \E r \in Runs : pc[r] # "idle"
AskedInFlight == asked /\ inFlight => rerun
AwakeInFlight == (inFlight => life = "awake") /\ (life = "deaf" => ~asked)

ScheduleInv ==
  /\ TypeOK /\ FlagTellsTruth /\ AskedInFlight /\ AwakeInFlight
  /\ OneCycle /\ ScheduleLives /\ TriggersKept

=============================================================================
