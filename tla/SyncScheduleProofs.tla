------------------------- MODULE SyncScheduleProofs -------------------------
(***************************************************************************)
(* SyncSchedule keeps its cycles apart and its schedule alive, whatever    *)
(* the number of activations, timers, triggers and restarts.               *)
(***************************************************************************)
EXTENDS SyncSchedule, TLAPS

LEMMA ScheduleInit == Init => ScheduleInv
<1> SUFFICES ASSUME Init PROVE ScheduleInv
  OBVIOUS
<1> USE DEF Init
<1>1. /\ edits \in 0..MaxEdits /\ resets \in 0..MaxResets /\ faults \in 0..MaxFaults
      /\ lastPush \in 0..MaxEdits /\ oneShots \in 0..resets
  BY ScheduleConstants
<1>2. life \in Lives /\ timer \in Delays /\ pc \in [Runs -> Steps] /\ mark \in [Runs -> 0..MaxEdits]
  BY ScheduleConstants DEF Delays, Steps, StartUp
<1>3. \A r \in Runs : pc[r] = "idle"
  OBVIOUS
<1>4. TypeOK
  BY <1>1, <1>2, Zenon DEF TypeOK
<1>5. FlagTellsTruth /\ AskedInFlight /\ AwakeInFlight /\ OneCycle /\ ScheduleLives /\ TriggersKept
  BY <1>3
  DEF FlagTellsTruth, AskedInFlight, AwakeInFlight, OneCycle, ScheduleLives, TriggersKept, StartUp
<1>6. QED
  BY <1>4, <1>5 DEF ScheduleInv

\* What the call of runSyncCycle by a timer does, whichever timer it is.
LEMMA Called ==
  ASSUME ScheduleInv, RunSyncCycle
  PROVE  /\ pc' \in [Runs -> Steps] /\ inFlight' = TRUE /\ rerun' \in BOOLEAN /\ asked' \in BOOLEAN
         /\ life' \in Lives
         /\ OneCycle' /\ FlagTellsTruth' /\ AskedInFlight' /\ AwakeInFlight'
         /\ ScheduleLives' /\ TriggersKept'
<1> USE DEF ScheduleInv
<1>1. CASE inFlight
  <2>1. rerun' = TRUE /\ UNCHANGED <<pc, inFlight, life, asked>>
    BY <1>1 DEF RunSyncCycle
  <2>2. OneCycle' /\ FlagTellsTruth'
    BY <2>1 DEF OneCycle, FlagTellsTruth
  <2>3. QED
    BY <1>1, <2>1, <2>2 DEF TypeOK, AskedInFlight, AwakeInFlight, ScheduleLives, TriggersKept
<1>2. CASE ~inFlight
  <2>1. PICK r \in Runs : Goto(r, "begin")
    BY <1>2 DEF RunSyncCycle
  <2>2. inFlight' = TRUE /\ asked' = FALSE /\ rerun' = rerun /\ life' = "awake"
    BY <1>2 DEF RunSyncCycle
  <2>3. \A s \in Runs : pc[s] = "idle"
    BY <1>2 DEF FlagTellsTruth
  <2>4. pc' \in [Runs -> Steps] /\ pc'[r] = "begin" /\ \A s \in Runs \ {r} : pc'[s] = "idle"
    BY <2>1, <2>3 DEF Goto, TypeOK, Steps
  <2>5. OneCycle' /\ FlagTellsTruth'
    BY <2>2, <2>4 DEF OneCycle, FlagTellsTruth
  <2>6. QED
    BY <2>2, <2>4, <2>5 DEF TypeOK, Lives, AskedInFlight, AwakeInFlight, ScheduleLives, TriggersKept
<1>3. QED
  BY <1>1, <1>2

\* One step for each timer, caller and phase of a cycle.
LEMMA ScheduleNext == ScheduleInv /\ [Next]_vars => ScheduleInv'
<1> SUFFICES ASSUME ScheduleInv, [Next]_vars PROVE ScheduleInv'
  OBVIOUS
<1> USE DEF ScheduleInv
<1>1. ASSUME TriggerSync
      PROVE  /\ asked' \in BOOLEAN /\ debounce' \in BOOLEAN /\ rerun' \in BOOLEAN
             /\ UNCHANGED <<timer, inFlight, life>> => AskedInFlight' /\ AwakeInFlight' /\ TriggersKept'
  <2>0. CASE life = "deaf"
    <3>1. UNCHANGED <<asked, debounce, rerun>>
      BY <1>1, <2>0 DEF TriggerSync
    <3>2. ~asked
      BY <2>0 DEF AwakeInFlight
    <3>3. QED
      BY <2>0, <3>1, <3>2 DEF TypeOK, AskedInFlight, AwakeInFlight, TriggersKept
  <2>1. CASE life # "deaf" /\ inFlight
    BY <1>1, <2>1, Zenon DEF TriggerSync, TypeOK, AskedInFlight, AwakeInFlight, TriggersKept
  <2>2. CASE life # "deaf" /\ ~inFlight
    <3>1. asked' = TRUE /\ debounce' = TRUE /\ rerun' = rerun
      BY <1>1, <2>2 DEF TriggerSync
    <3>2. QED
      BY <2>2, <3>1 DEF TypeOK, AskedInFlight, AwakeInFlight, TriggersKept
  <2>3. QED
    BY <2>0, <2>1, <2>2
<1>2. CASE Edit
  <2>1. edits' \in 0..MaxEdits
    BY <1>2, ScheduleConstants DEF Edit, TypeOK
  <2>2. UNCHANGED <<resets, faults, lastPush, timer, oneShots, inFlight, life, pc, mark, wantsAll>>
    BY <1>2 DEF Edit, activation
  <2>3. OneCycle' /\ FlagTellsTruth' /\ ScheduleLives'
    BY <2>2 DEF OneCycle, FlagTellsTruth, ScheduleLives
  <2>4. /\ asked' \in BOOLEAN /\ debounce' \in BOOLEAN /\ rerun' \in BOOLEAN
        /\ AskedInFlight' /\ AwakeInFlight' /\ TriggersKept'
    BY <1>1, <1>2, <2>2 DEF Edit, TypeOK, AskedInFlight, AwakeInFlight, TriggersKept
  <2>5. QED
    BY <2>1, <2>2, <2>3, <2>4 DEF TypeOK
<1>3. CASE Fire
  <2>1. RunSyncCycle /\ UNCHANGED <<edits, resets, faults, lastPush, mark, wantsAll>>
    BY <1>3 DEF Fire, SyncTimerFires, TriggerFires, OneShotFires
  <2>2. debounce' = FALSE \/ debounce' = (debounce /\ inFlight) \/ debounce' = debounce
    BY <1>3, Zenon DEF Fire, SyncTimerFires, TriggerFires, OneShotFires
  <2>3. timer' \in {timer, "off"}
    BY <1>3 DEF Fire, SyncTimerFires, TriggerFires, OneShotFires
  <2>4. oneShots' \in 0..resets
    BY <1>3, ScheduleConstants DEF Fire, SyncTimerFires, TriggerFires, OneShotFires, TypeOK
  <2>5. debounce' \in BOOLEAN /\ wantsAll' \in BOOLEAN
    BY <2>1, <2>2, Zenon DEF TypeOK
  <2>6. timer' \in Delays
    BY <2>3 DEF TypeOK, Delays
  <2>7. /\ pc' \in [Runs -> Steps] /\ inFlight' = TRUE /\ rerun' \in BOOLEAN /\ asked' \in BOOLEAN
        /\ life' \in Lives
        /\ OneCycle' /\ FlagTellsTruth' /\ AskedInFlight' /\ AwakeInFlight'
        /\ ScheduleLives' /\ TriggersKept'
    BY <2>1, Called
  <2>8. TypeOK'
    BY <2>1, <2>4, <2>5, <2>6, <2>7 DEF TypeOK
  <2>9. QED
    BY <2>7, <2>8
<1>4. ASSUME NEW r \in Runs, BeginPush(r) \/ EndPush(r) \/ PullAndAudit(r) \/ Throw(r)
      PROVE  ScheduleInv'
  <2>1. UNCHANGED <<edits, resets, timer, debounce, oneShots, inFlight, rerun, life, asked>>
    BY <1>4 DEF BeginPush, EndPush, PullAndAudit, Throw, flags
  <2>2. PICK step \in Steps \ {"idle"} : Goto(r, step) /\ pc[r] # "idle"
    BY <1>4 DEF BeginPush, EndPush, PullAndAudit, Throw, Steps
  <2>3. pc' \in [Runs -> Steps] /\ \A s \in Runs : pc'[s] = "idle" <=> pc[s] = "idle"
    BY <2>2 DEF Goto, TypeOK
  <2>4. faults' \in 0..MaxFaults
    BY <1>4, ScheduleConstants DEF BeginPush, EndPush, PullAndAudit, Throw, TypeOK
  <2>5. lastPush' \in 0..MaxEdits /\ mark' \in [Runs -> 0..MaxEdits] /\ wantsAll' \in BOOLEAN
    BY <1>4 DEF BeginPush, EndPush, PullAndAudit, Throw, TypeOK
  <2>6. OneCycle' /\ FlagTellsTruth'
    BY <2>1, <2>3 DEF OneCycle, FlagTellsTruth
  <2>7. QED
    BY <2>1, <2>3, <2>4, <2>5, <2>6 DEF TypeOK, AskedInFlight, AwakeInFlight, ScheduleLives, TriggersKept
<1>5. ASSUME NEW r \in Runs, Finally(r)
      PROVE  ScheduleInv'
  <2>1. /\ inFlight' = FALSE /\ rerun' = FALSE /\ timer' = IF rerun THEN "short" ELSE "interval"
        /\ UNCHANGED <<edits, resets, faults, lastPush, debounce, oneShots, life, mark, asked, wantsAll>>
    BY <1>5 DEF Finally
  <2>2. pc' \in [Runs -> Steps] /\ pc'[r] = "idle" /\ \A s \in Runs : pc'[s] = "idle"
    BY <1>5 DEF Finally, Goto, TypeOK, OneCycle, Steps
  <2>3. inFlight
    BY <1>5 DEF Finally, FlagTellsTruth
  <2>4. QED
    BY <2>1, <2>2, <2>3
    DEF TypeOK, Delays, OneCycle, FlagTellsTruth, AskedInFlight, AwakeInFlight, ScheduleLives, TriggersKept
<1>6. CASE FullPushReset \/ ForceFullPush \/ FullPullReset
  <2>1. UNCHANGED <<edits, faults, inFlight, pc, mark>>
    BY <1>6 DEF FullPushReset, ForceFullPush, FullPullReset, activation
  <2>2. /\ resets' \in 0..MaxResets /\ oneShots' \in 0..resets' /\ lastPush' \in 0..MaxEdits
    BY <1>6, ScheduleConstants DEF FullPushReset, ForceFullPush, FullPullReset, Reset, TypeOK
  <2>3. timer' \in {timer, "short"}
    BY <1>6 DEF FullPushReset, ForceFullPush, FullPullReset
  <2>4. wantsAll' \in BOOLEAN
    BY <1>6, Zenon DEF FullPushReset, ForceFullPush, FullPullReset, TypeOK
  <2>5. /\ asked' \in BOOLEAN /\ debounce' \in BOOLEAN /\ rerun' \in BOOLEAN
        /\ AskedInFlight' /\ AwakeInFlight' /\ TriggersKept'
    <3>1. CASE ForceFullPush
      BY <1>1, <3>1 DEF ForceFullPush
    <3>2. CASE FullPushReset \/ FullPullReset
      <4>1. UNCHANGED <<asked, debounce, rerun, inFlight>> /\ life # "deaf" /\ life' \in {life, "awake"}
        BY <3>2 DEF FullPushReset, FullPullReset
      <4>2. QED
        BY <2>3, <4>1 DEF TypeOK, AskedInFlight, AwakeInFlight, TriggersKept
    <3>3. QED
      BY <1>6, <3>1, <3>2
  <2>6. life' = life \/ (life' = "awake" /\ timer' = "short")
    BY <1>6 DEF FullPushReset, ForceFullPush, FullPullReset
  <2>7. OneCycle' /\ FlagTellsTruth' /\ ScheduleLives'
    BY <2>1, <2>3, <2>6 DEF OneCycle, FlagTellsTruth, ScheduleLives
  <2>8. timer' \in Delays /\ life' \in Lives
    BY <2>3, <2>6 DEF TypeOK, Delays, Lives
  <2>9. TypeOK'
    BY <2>1, <2>2, <2>4, <2>5, <2>8 DEF TypeOK
  <2>10. QED
    BY <2>5, <2>7, <2>9
<1>7. CASE Restart
  <2>1. \A r \in Runs : pc'[r] = "idle"
    BY <1>7 DEF Restart
  <2>2. pc' \in [Runs -> Steps] /\ timer' \in Delays /\ life' \in Lives
    BY <1>7 DEF Restart, Steps, Delays, StartUp
  <2>3. faults' \in 0..MaxFaults /\ oneShots' \in 0..resets'
    BY <1>7, ScheduleConstants DEF Restart, TypeOK
  <2>4. /\ UNCHANGED <<edits, resets, lastPush, mark, wantsAll>>
        /\ debounce' = FALSE /\ inFlight' = FALSE /\ rerun' = FALSE
        /\ timer' = StartUp(life') /\ asked' = (asked /\ life' = "awake")
    BY <1>7 DEF Restart
  <2>5. TypeOK'
    BY <2>2, <2>3, <2>4 DEF TypeOK
  <2>6. /\ OneCycle' /\ FlagTellsTruth' /\ AskedInFlight' /\ AwakeInFlight'
        /\ ScheduleLives' /\ TriggersKept'
    BY <2>1, <2>4
    DEF OneCycle, FlagTellsTruth, AskedInFlight, AwakeInFlight, ScheduleLives, TriggersKept, StartUp
  <2>7. QED
    BY <2>5, <2>6
<1>8. CASE UNCHANGED vars
  BY <1>8 DEF vars, flags, activation, TypeOK, OneCycle, FlagTellsTruth, AskedInFlight,
              AwakeInFlight, ScheduleLives, TriggersKept
<1>9. QED
  BY <1>2, <1>3, <1>4, <1>5, <1>6, <1>7, <1>8 DEF Next, CycleStep

LEMMA ScheduleInvariant == Spec => []ScheduleInv
<1>1. Init => ScheduleInv
  BY ScheduleInit
<1>2. ScheduleInv /\ [Next]_vars => ScheduleInv'
  BY ScheduleNext
<1>3. QED
  BY <1>1, <1>2, PTL DEF Spec

\* Two activations of runSyncCycle are never between their awaits together.
THEOREM OneCycleAtATime == Spec => []OneCycle
<1>1. ScheduleInv => OneCycle
  BY DEF ScheduleInv
<1>2. QED
  BY <1>1, ScheduleInvariant, PTL

\* Once armed in the life of a process, the schedule stays alive: a cycle is
\* running or syncTimer is armed.
THEOREM ScheduleNeverDies == Spec => []ScheduleLives
<1>1. ScheduleInv => ScheduleLives
  BY DEF ScheduleInv
<1>2. QED
  BY <1>1, ScheduleInvariant, PTL

\* A triggered cycle is queued or armed, never left to the interval.
THEOREM TriggersAreKept == Spec => []TriggersKept
<1>1. ScheduleInv => TriggersKept
  BY DEF ScheduleInv
<1>2. QED
  BY <1>1, ScheduleInvariant, PTL

=============================================================================
