# TLA+ models of JMS Enterprise

JMS Enterprise runs a moulding company: a MAIN server (a VPS) and one LOCAL
server in each factory, every one a Node.js process over its own PostgreSQL
database, with scanners, machine collectors, browsers and phones around them.
A LOCAL works without the network; a background protocol keeps its tables and
MAIN's the same.  That protocol, together with the other parts of the code in
which several actors meet on one piece of state, is what this directory models.

Paths below are relative to `src/`; `sync.service.js` is
`BACKEND/services/sync.service.js`.

| Module | Models | Run | Proved |
|---|---|---|---|
| `RowSync` | rows between LOCALs and MAIN: outbox, push, pull, watermarks | `sync_factory`, `sync_faulty` | `RowSyncProofs` |
| `SyncSchedule` | when cycles run: timers, triggers, resets, restarts | `schedule_cycles` | `SyncScheduleProofs` |
| `DeletionSync` | tombstones beside the rows of one key | `deletions_rows`, `deletions_plans` | `DeletionSyncProofs` |
| `ChatCalls` | voice calls under concurrent request handlers | `calls_lines` | `ChatProofs` |
| `GroupCalls` | rooms of group calls, their people and their sweep | `group_calls` | `GroupCallsProofs` |
| `ChatSync` | the chat's own replication: numbers, cursors, merging | `chat_sync` | `ChatProofs` |
| `PlanBoard` | the plans of a machine: approval, start, deletion, recovery | `plan_board` | `PlanBoardProofs` |
| `Dpr` | hourly production entries, placeholders, the over-production cap | `dpr_entries` | `FloorProofs` |
| `Shifting` | pieces leaving the shop floor, under advisory locks on a pool of connections | `shifting_locks` | `FloorProofs` |
| `WipStock` | transactions of the WIP store | `wip_ledger` | `WipStockProofs` |
| `StockLedger` | abstract: what the WIP store promises; `WipStock` implements it | `wip_ledger` | `WipStockProofs` |

`MCX.tla` holds the instance constants of module `X`, `X_name.cfg` its
configurations.  `PROJECT.json` lists the runs, the mutated definitions that
show each property can fail, the source lines behind every definition, the
hazards of the code and the theorems.

## 1. Inventory

### Row synchronisation — `sync.service.js`

*State.*  Per server: the tables (every synchronised row carries `updated_at`,
stamped by a trigger).  Per LOCAL: `sync_failed_rows` (the outbox), and in
`server_config` the watermarks `LAST_PUSH`, `LAST_PULL`, `LAST_DELETE_PUSH`,
`LAST_DELETE_PULL`.  In memory: the position of the cycle under way.

*Operations.*  `runSyncCycle` calls `pushChanges` (`drainOutbox`, then
`pushTableAllBatches` per table, then the new `LAST_PUSH`),
`pushDeletionChanges`, `pullChanges` and `pullDeletionChanges`, each a series
of HTTP requests to MAIN, whose routes run `upsertData`, `getChanges`,
`applyRemoteDeletions`, `getDeletionChanges`.

*Interactions.*  Messages: requests that are refused, time out, are worked off
after the sender gave up, or are answered 200 with some rows failed.  Shared
state: users write the same tables between any two statements.

*Hard.*  A watermark is read before the rows and stored after them;
`updated_at` is the start of a transaction but the row appears at its commit;
MAIN re-stamps what it updates and keeps the stamp of what it inserts; four
watermarks move at different times; a crash leaves whichever was stored.

*Correct when* nothing falls behind a watermark undelivered (`NothingLost`,
`PullCoversMain`), rows do not bounce (`NoEcho`), and the copies end equal
(`Converges`).

### The schedule of cycles — `sync.service.js` 1416–1513, `registerLegacyRoutes.js`

*State.*  `syncInFlight`, `syncRerunRequested`, `syncTimer`, `triggerTimeout`,
one-shot timers.  *Operations.*  `triggerSync` (called by the writing routes),
`scheduleSyncCycle`, `runSyncCycle`, the reset routes, `init`.  *Hard.*
Everything can happen during every await; an `init` that throws is only logged
("Init Failed") and leaves a server with no timer armed.  *Correct when* one
cycle runs at a time, a schedule that was started never dies, and triggers and
resets are not forgotten.

### Deletions — `sync.service.js` 1777–1835, 1977–2024, 2663–2890

*State.*  `sync_deletions`: one tombstone per key, the first one stays.
*Operations.*  A trigger records deletes; tombstones travel like rows with
their own watermarks; `upsertData` holds plans against them, and
`shouldKeepRowOverDeletion` holds a tombstone against a newer row.  *Hard.*  A
tombstone is stamped with the start of its transaction (`NOW()`) and shows at the
commit, and neither watermark of deletions has an overlap.  *Correct
when* deletes reach every server, take effect, and are not undone by a pull, a
parked payload or a retry.

### Voice calls — `BACKEND/src/modules/chat/chatCalls.js`

*State.*  `chat_calls` rows, the history lines in the direct chat, and what each
handler holds in its variables between two statements.  *Operations.*  Place,
accept, decline, end, poll; `expireRinging` runs inside the requests, nothing
else ends an unanswered call.  *Correct when* each call ends, once, with
exactly one line that says what happened.

### Group calls — `BACKEND/src/modules/chat/chatGroupCalls.js`

*State.*  `chat_group_calls` (rooms), `chat_group_call_members` (a row per
person and room, with `seen_at` and `left_at`), the history line of each room.
*Operations.*  Call (find the live room or create one, count, take a seat), poll
(`seen_at`), leave, and the sweep of every worker's cleanup timer.  The sweep
runs only in a worker whose `schemaReady` is set: one that has served a room's
route since it started.  *Hard.*
Nothing is locked: two workers create a room at once and one meets the unique
index, two joins count the same seats, the last leave and the sweeps of all
workers end one room, and the worker that ended it may die before its line.
*Correct when* a room ends once with one line, the limit of people is passed by
no more than the joins under way, and a deserted room ends.

### Chat synchronisation — `BACKEND/src/modules/chat/chatSync.js`

*State.*  Per server `chat_sync_seq` and the `sync_seq` of every chat row; per
LOCAL a push and a pull cursor, saved in `chat_sync_state`, and in memory the
positions read in the last 10 s. *Operations.*  The trigger `chat_sync_stamp`,
the cycle (`pushOnce`, `pullOnce`), `POST /api/sync/chat/push`,
`GET /api/sync/chat/pull`, `applyRows`. *Hard.*  A number is handed out when the
statement runs and shows when its transaction commits; a request is worked off
after its sender gave up; a row has an unsent change when MAIN's version of it
arrives; MAIN applies a push in a transaction of its own, which commits late
like any other; a position is saved by its age alone; a restart forgets the
overlap. *Correct when* nothing behind a saved cursor is unknown to the other
side, rows do not bounce, and the copies become the same.

### The plan board — `BACKEND/src/legacy/registerLegacyRoutes.js`

*State.*  `plan_board` (status, `jc_approval_status`),
`plan_job_card_approval_history`, and what requests read before they write.
*Operations.*  PPC and Moulding judge a plan (the one transaction with a row
lock), bulk approval, `/api/planning/run`, complete with the start of the next
plan, stop, close and reopen, delete with a snapshot, recover, self-heal.
*Hard.*  All but the verdict are single statements that commit by themselves: a
plan is started after it was read as approved, and may have been deleted and
recovered at an older stage meanwhile.  *Correct when* each stage is decided
once and told by the history, a rejection stands, and what is started as
approved is approved.

### DPR entries — `registerLegacyRoutes.js` 7934–8269, 8463–8484, 30161–30318

*State.*  `dpr_hourly` with its placeholders (`created_by = 'SYSTEM-AUTOFILL'`),
`extra_qty_allowances`.  *Operations.*  Submit (the cap, filling the gap after a
stop, the search for a twin, the insert, the replacement of placeholders), edit,
delete, allow an extra quantity, withdraw it.  *Hard.*  A submit is five
statements and locks nothing; phones send an entry again; a query that fails in
the cap, in the search for a twin or in the replacement is logged, and the entry
goes on without it.  *Correct when*
duplicates and the production beyond the cap are bounded by the requests under
way, and a genuine entry supersedes the placeholder of its hour.

### Shifting and the WIP store — `registerLegacyRoutes.js` 10627–11102, 31460–31799, 32555–32636

*State.*  `shifting_records`, `qc_verifications` and a cache of whether
verification is enforced, the connections of the pool; `wip_inventory` and
`wip_stock_movements`. *Operations.*  Scan a label, shift by hand, verify;
approve a shifted record into stock, issue, adjust, reset, clear, delete.
*Hard.*  A shift holds one connection and its advisory lock, and its checks ask
the same pool for a second one; different locks protect one balance. In the
store, a reset deletes three tables in three statements, and other transactions
commit between them; approve and outward check no sign, so that stock may begin
below zero, and grow by an issue. *Correct when* a label leaves once, more than
is verified leaves only by what is under way, every shift is answered, and stock
is what its movements add up to and what is taken from it was there.

### Parts that are not modelled

| Part | State that steps race on | What would make it correct |
|---|---|---|
| `plan_board` rules of `upsertData` | status, the 15-second rule, one RUNNING plan per machine | a user's start or stop is not silently skipped; at most one plan runs on a machine |
| Updates: `updater.service.js`, `localNodeAgent.js`, `LOCAL_SERVER_SUPERVISOR.js` | the files of a release, `node_modules`, the running version | what runs is one complete release; a failed step is retried |
| Scanner bridge, `CLIENT_BRIDGE/bridge.js` | connection entries, reconnect timers | one connection and one timer per line; a scan is delivered |
| Machine collector, `MACHINE_COLLECTOR/collector.js` | the last shot count, overlapping polls | every shot is logged once |
| Login lockout, response cache, `BACKEND/src/app` | counters per worker; entries by signature | the limits hold; an answer is never stale |

The other request handlers of one statement or one transaction (ERP masters, HR,
NPD, reports), authentication decisions, start-up, migrations, retention, file
serving, firmware, client applications and scripts have no steps that race on
state of their own.  They stay out; their writes are the `Edit` and `Delete`
actions of the models.  `PROJECT.json` lists each of these parts with its reason.

## 2. Plan

The order was: first what carries the product (`RowSync`), when it runs
(`SyncSchedule`), what rows cannot carry (`DeletionSync`), the multi-process chat
components (`ChatCalls`, `GroupCalls`, `ChatSync`), then the chain of production
(`PlanBoard`, `Dpr`, `Shifting`, `WipStock`) with an abstract ledger at its end.
`Shifting` takes the rows `Dpr` leaves as its input, and `WipStock` the records
`Shifting` leaves; they meet in tables only, so each is checked alone against
every state the other may leave it.

What would come next:

1. `PlanSync`: the rules for plans in `upsertData` (Running wins over
   Planned/Stopped, the 15-second rule, the de-duplication after commit), with
   a clock per server, composed with `PlanBoard` on two servers.
2. An abstract log that two parties read from a cursor, implemented by the pull
   of `RowSync` and by the cursors of `ChatSync`.
3. `Updates`: two updaters, `npm install`, the supervisor, crashes between them.
4. `Bridge`, `Collector`, `LoginLockout`, `ChangeAwareCache`: small modules.

Theorems worth adding: the implementation of the abstract log of item 2.  What
such a log promises its reader is proved of both pulls, and so is what follows
for a factory that has read to the end (section 6).

## 3. The modules and the code

### RowSync

A row is `[ver, at]`: which edit wrote its content, and `updated_at`.  One table,
ids `Keys`, `Scope[k]` the LOCALs of row `k`'s factory, or all of them for a
table of `GLOBAL_MASTER_TABLES`.

| Code | Model |
|---|---|
| a user's statement, `touch_sync_updated_at_column` | `Edit`; `BeginEdit`, `CommitEdit`, `AbortEdit` when the transaction stays open |
| `drainOutbox` | `DrainAnswered`, `DrainUnanswered`, `DrainUnapplied` |
| `pushChanges`: read `LAST_PUSH`, take the watermark | `PushMark` |
| `pushTableAllBatches`: query, request, id cursor | `PushSelect`, `PushNothing`, `PushAnswered`, `PushUnapplied`, `PushUnanswered`, `NextPage` |
| `recordFailedRows` | `Park` |
| `pushChanges`: store `LAST_PUSH` | `PushClose` |
| `POST /push` and its safety net | `Answered`, `AnsweredUnapplied` |
| a request the sender gave up on | `limbo`, `LateArrival` |
| `upsertData` | `UpsertAtMain` (re-stamps updates), `UpsertAtLocal` (keeps MAIN's stamps) |
| `pullChanges`, `withPullOverlap`, `getChanges` | `PullMark`, `PullServe`, `PullApply`, `EndPull`, `PullFails` |
| process exit, the admin routes | `Crash`, `FullPushReset`, `FullPullReset` |

Every await between two pieces of state is a step boundary; one statement on the
database, or one transaction, is one action.  `Progress(l)` is what a cycle does
when all goes well, `Trouble(l)` what can go wrong, bounded by `MaxFaults` and
chosen by `Faults`.

Abstractions: one clock for all servers; one table; a pull is one request; the
outbox is drained whole (`DRAIN_LIMIT` is 500); rows have the same id
everywhere; `upsertData`'s transaction is one action.

### SyncSchedule

An edit is its number and `LAST_PUSH` the number of the last edit a push moved
past, which is enough to say what a cycle that starts at a given moment will
carry.  Timers have no durations: an armed one may fire at any time, so every
order of the 1 s, 1.5 s and interval timers is covered.  `RunSyncCycle` is the
guard of `runSyncCycle` for every caller; `Runs` are the activations alive at
once (two are enough to refute `OneCycle`).  `asked` and `wantsAll` are history
variables.

`life` is what `init` left. Its errors are swallowed, so a `Restart` picks one
of three: `deaf` (it threw before the server knew itself as a LOCAL:
`triggerSync` does nothing, and the routes that start a cycle refuse), `dormant`
(it threw later: no timer is armed, but a trigger or a reset still starts a
cycle, whose end arms the timer) and `awake`. So `ScheduleLives` speaks of a
server that is awake, and `EveryEditPushed` of one that stays `Roused`, awake or
asked for a cycle. A server whose start-up failed does nothing until its next
restart.

### DeletionSync

One key of one table on a LOCAL (or two) and MAIN: the stamp of the row, the
stamp of the tombstone, the four watermarks, the parked payload.  The four
phases of a cycle have the same shape, `Begin` (watermark and request) and
`End`; `Upsert` and `ApplyDeletion` are the receiving sides with their guards.
`PlanBoard` chooses the table: `plan_board` (guard against resurrected rows,
no plan of it Running) or another.  `gone` is history: when a user last deleted
the row on a server.  A `skipped` fault is an error inside a deletion's
savepoint.

`Delete` is a statement that commits by itself. `BeginDelete` and `EndDelete`
are a transaction on one of `SlowDeleters`: `record_sync_deletion` stamps the
tombstone with the transaction's start, `open[s]`, and it shows at the commit.
Plans are deleted by single statements (`SlowDeleters = {}` in
`deletions_plans`). The history variable `late` holds what a watermark without
an overlap has passed over: `<<l, "push">>` or `<<l, "pull">>` once a tombstone
showed, behind that watermark, to a side that was not told otherwise, or was
skipped. `DeletionsReachMain` and `DeletionsReachLocals` say that this is the
only way to lose a deletion; `EveryDeletionSent` and `EveryDeletionHeard`,
without the exception, do not hold (section 4).

### ChatCalls

`job[h]` is a request handler: the step it is at, the call it is about, the
verdict it decided from the row it read, the calls it ended and owes a line.
Each SQL statement is one action, and other handlers (other worker processes
too) run between two of them.  `Dies` ends a handler anywhere.

### GroupCalls

The idiom of `ChatCalls`: `task[h]` is a request or a cleanup timer and the step
it is at, one SQL statement an action.  `Call` leads through `SelectRoom`,
`CreateRoom` (the unique index decides), `SelectAgain`, `CountPeople`, `Seat`;
`Poll` and `Leave` read the member row first (`myRoom`), then `Seen`, or
`StandUp` and `CloseRoom`.  `Cleanup` and every `Call` run the sweep:
`TakeOutStale`, then `EndDeserted`, which owes a line for each room it ended.
Time is two sets: `young` rooms (5 s) and `stale` people (`STALE_SECONDS`).

Handlers belong to worker processes (`WorkerOf`). `ready` are the workers whose
`schemaReady` is set: a request of a room's route sets it (`Active`), `Cleanup`
starts only where it is set, and `Restart(w)` unsets it and takes the worker's
handlers with it. `Dies` is a query that fails in one of them.

### ChatSync

A row has a `body` (the columns where the newer `updated_at` wins), a `time`
(`last_read_at`, `last_message_at`: the later one stays, `Rule = "later"`; or a
receipt's times: the first one stays, `Rule = "first"`), `at` (`updated_at`) and
`seq`. `open[s][k]` is what an uncommitted transaction has written to row `k`: a
user's (`BeginWrite`, `EndWrite`; `Write` is a statement that commits at once)
or, on MAIN, that of a push, which `applyRows` works off in `BeginMerge` (each
changed row takes its number with the statement) and `CommitMerge`. `Merge` and
`News` are the SET and the WHERE of `upsertSql`, `Since` and `Advance` the
cursor. A LOCAL has two cursors (`Ways`): `push` reads the rows of the LOCAL,
`pull` those of MAIN (`Source`). When a LOCAL gives up (`CycleFails`, `Crash`),
a push that MAIN has not begun may still arrive (`limbo`), and one that it has
begun goes on for nobody (`Abandons`): its rows then commit or roll back one by
one in the model, which is more than the code can do.

`Tick` is the clock that `OVERLAP_MS` is measured with: open transactions and
remembered positions grow older, and `Since` saves the last position that is
`Overlap` ticks old, as the code does, by age alone.  Two conditions bound the
ticks.  Every transaction ends within `OpenFor` of them.  And if `Prompt` is set,
then before a position is `Overlap` old, a phase has been completed that began
`OpenFor` ticks after the position was remembered, so that what had been open at
that position was over when the phase read.  Both are conditions on durations
and look at no row.  With the code's 10 s and a cycle every 3 s they hold if
transactions end within about 6 s and a cycle completes in the 4 s that are left.
The code guarantees neither: nothing limits a transaction; after failures
the loop waits up to 60 s, a request may take 30 s and a file upload 120 s, and
positions age meanwhile.  The comment at `chatSync.js:328` promises more than
that, and `ChatSync_late_commit.cfg`, where `Prompt` is off, shows it: without
any fault, a transaction that is open for nearly `OVERLAP_MS` and commits
between two cycles is behind the saved cursor, unsent, for good.

### PlanBoard

A plan is its `plan_id`; `births` tells apart the rows that were inserted under
it, as their ids do.  `doing[h]` is what a request holds: `Decide` then
`CommitVerdict` (with its lock and second look, `StillAt`); `Run`, `Start`,
`Switch` then `StopOthers` or `StopAll` then `SetRunning`; `JobComplete` and
`SupervisorComplete` then `Requeue`, `PickNext`, `SetRunning`; `Delete` then
`DeleteRow`; `Recover` then `InsertSnapshot`.  `Review`, `Stop`, `Complete`,
`Create`, `BulkApprove`, `SelfHeal` are single statements.  Some of what the code
does is easily missed: the next plan a completed job starts may be one that is
rejected or closed; a recovered plan returns to the stage of its last snapshot,
which was taken before that verdict.

### Dpr

One machine, one shift, one colour.  `rows` are the undeleted rows in the order
of their ids, `old` those beyond the two minutes in which a twin is looked for.
`SoftDelete` takes rows out and moves up the rest: the `n`th row that is left is
the one at `Nth`, the row whose `Rank` among them is `n`.  The requests handled at
once and the entries that may come are finitely many, so that an entry has a
largest quantity (`DprConstants`).
`Submit` computes the cap from what it reads; then `ReadLast`, `LookAtGap`,
`FillGap` (a stop is continued by a placeholder), `LookForTwin`, `Insert`,
`ReplaceAutofill`.  `Allow` and `InsertGrant` are the extra quantity with its
20-second guard.

The queries of the cap and of the twin may fail (`failures`): the entry goes on,
and its row says in `off` which guard it was not held against (`Guards`).  A
replacement that fails, or that a dying worker does not come to, leaves the
placeholder: its hour is `unreplaced` until a later entry of that hour replaces
it.  `TwinsBounded` and `CapBounded` count the rows those guards have seen, and
`GenuineSupersedes` excuses the unreplaced hours.  The comments state the first
two as a choice (lines 8118 and 8211).

### Shifting

`job[h]` holds a connection of the pool from `Connect`, waits for the advisory
lock of its source in `Lock`, needs a second connection for `Check`, and keeps
both lock and connection until `Save`.  There is at least one handler, and the
amounts of a shift are finitely many (`ShiftingConstants`).  `TimeOut` is
`connectionTimeoutMillis`: without it a full pool is a deadlock.  `Enforced` reads
the setting through a cache that is refreshed when it expires; when its query
fails, enforcement is off for the cache's life, and what leaves meanwhile is
unchecked and not counted by `ShiftBounded`.  `made` and
`verified` are history.

### WipStock and StockLedger

A transaction is its first statement, which locks its row and reads, and its
commit. `Approve`, `Outward`, `Adjust` and the three statements of
`/api/wip/reset` wait where PostgreSQL would (`RecordLocked`, `ItemLocked`).
`posted[i]` is the sum of the movements of an item, `cleared[i]` (history) of
those that `ClearMovements` removed. Quantities are any integers: approve and
outward take negative ones. `homed` are the items with a factory. A movement of
an item without one is recorded all the same when the request has a factory
(`posts`, `Posted`), so such an item has movements that are not all of its
stock.

`StockLedger` promises less and more simply: an item comes with its first
movement, changes by movements of the same amount, none of which takes more than
there is, and goes whole. `LedgerHolds` is `Ledger!Spec` under the mapping that
shows the items of a factory only, and the movements with the cleared ones: a
commit of an approval is a `Receive`, of an issue or adjustment a `Move`, of a
reset a `Wipe`, and every other step a stutter. The other items are mapped away
because their movements do not tell their stock.

## 4. Runs

| Run | Instance | Shows | Distinct states |
|---|---|---|---|
| `sync_factory` | 1 LOCAL, 2 rows, pages of 1, overlap 1, 3 edits, slow transactions on MAIN, 2 of {row error, crash, reset} | `NothingLost`, `Converges` | 559,125 |
| `sync_faulty` | 1 LOCAL, 2 rows on one page, 3 edits, any 2 faults | `PullCoversMain`, `NoEcho` | 683,788 |
| `schedule_cycles` | 2 activations, 2 edits, 2 resets, 2 failures or restarts | `OneCycle`, `ScheduleLives`, `TriggersKept`, `EveryEditPushed` | 30,645 |
| `deletions_rows` | 2 LOCALs, deletes in open transactions on one of them and on MAIN, 2 deletes, 1 fault (a refused request or a skipped savepoint) | `DeletionsReachMain`, `DeletionsReachLocals` | 4,365,651 |
| `deletions_plans` | `plan_board`, 1 LOCAL, deletes on both sides, 2 edits, 1 delete, 2 faults | `DeletesTakeEffect`, `TombstonesRespected`, `DeletesConverge` | 84,435 |
| `calls_lines` | 2 people, 2 calls, 2 handlers, 1 death | `OneLine`, `OverForGood`, `CallsEnd`, `LinesWritten` | 227,696 |
| `group_calls` | 3 people, 1 room, 1 seat, 2 workers with a handler each, 2 failed queries or restarts | `RoomOneLine`, `SeatsBounded`, `BackOnlyByJoining`, `DesertedRoomsEnd` | 127,371 |
| `chat_sync` | 1 LOCAL, 2 rows, pages of 1, 2 writes, open transactions on both sides, `Overlap` 3 and `OpenFor` 2 ticks, 1 fault, 2 remembered positions | `PushCovers`, `PullCovers`, `NoEcho`, `Converges` | 634,166 |
| `plan_board` | 2 plans, one judged and one produced, 2 requests, 1 recovery of each | `OneVerdictPerStage`, `StageIsTold`, `RejectionStands`, `RunsApproved` | 1,895,647 |
| `dpr_entries` | 3 hours, a stop and two productions, 2 requests, 3 rows, 1 extra quantity, 1 failed guard or replacement | `TwinsBounded`, `CapBounded`, `GenuineSupersedes` | 2,004,331 |
| `shifting_locks` | 1 entry, 1 label, shifts of 1 by 2 requests, a pool of 3 of which others may hold 1 | `LabelOnce`, `ManualWithinProduced`, `ShiftBounded`, `ShiftsEnd` | 158,170 |
| `wip_ledger` | 2 records, one with a factory, 2 items, quantities 1 and -1, stock and movements within 1 of zero, 2 requests | `Balanced`, `NeverOverdrawn`, `LedgerHolds` | 1,138,726 |

Why these bounds. Two rows on two pages are the smallest push in which a page
can fail or a row change behind the id cursor; with a page of one row, one row
more than the last full page is the boundary case. Three edits are an edit, an
answer to it from the other side and one more while either is under way; two
faults are a fault and one during its repair. Two activations, handlers or
requests, and two calls, are what a race needs; with one seat two joins race for
the last seat and the third person is the one who comes back. The overlap of a
pull is one tick, so that a row inside and a row outside of it both occur. Two
deletes, on a LOCAL and on MAIN, are a tombstone that meets another, and one
whose transaction ends behind either watermark.  Crashes are in `deletions_plans`, and in
the theorems. The chat's overlap of 3 ticks,
with transactions that last up to 2, is the smallest in which a position is
remembered, read again and saved while a transaction is open; two writes are a
row behind another. Two plans on one machine are one that runs and one that
takes its place; one recovery brings a plan back at an older stage once. Three
hours are a stop, the hour its placeholder fills and the one after; the cap of 1
keeps an entry of 2 out until somebody allows 1 more. A pool of 3 of which
others hold 1 leaves two shifts one connection each and none for their checks.
Two items are one a reset takes and one that comes while it goes on; a quantity
of either sign and a balance of one are an item that begins below zero, at it
and above. Deadlock is checked in every run but `schedule_cycles`, where a
server whose start-up failed may stop for good.

`sync_faulty` shares its instance's shape with `sync_factory`, but it has the
faults that lose rows on the push side (below): the pull loses nothing then
either.

The type invariants of the modules (`TypeOK`, `DprTypeOK`, `BoardTypeOK`,
`GroupTypeOK`, `ChatTypeOK`) hold in the same instances; they are proved for all
instances, by name or as a part of the inductive invariants, and not repeated in
the runs.

### What does not hold

Sentences of the code's comments or docs that the code breaks, each a
configuration with a counterexample (`tlc -config X.cfg MCX`):

| Configuration | Property | What the code does |
|---|---|---|
| `RowSync_tail_lost` | `NothingLost` | A refused page is parked, the pages behind it are neither sent nor parked, and `LAST_PUSH` moves past them. |
| `RowSync_safety_net` | `NothingLost` | The last catch of `POST /push` answers 200 with `stats.failed = 0`; the sender counts the rows as delivered. |
| `RowSync_late_insert` | `PullCoversMain` | A row inserted on MAIN with an old stamp is never pulled by the other LOCAL. |
| `RowSync_overwritten` | `LaterEditWins` | An edit between the push and the pull of a cycle is replaced by its predecessor, stamped later by MAIN. |
| `SyncSchedule_reset` | `ResetHonoured` | A reset during a cycle is overwritten by that cycle's watermark: "the next sync cycle re-pushes ALL local rows" does not happen. |
| `DeletionSync_ghost` | `TombstonesRespected` | A row deleted on the LOCAL between the push of deletions and the pull comes back by the pull; only `plan_board` is guarded. |
| `DeletionSync_drained` | `DeletesTakeEffect` | A parked payload is drained after the row was deleted and the delete pushed. |
| `DeletionSync_late_tombstone` | `EveryDeletionHeard` | With two LOCALs, a tombstone arrives with a time the other's `LAST_DELETE_PULL` has passed. |
| `ChatCalls_answered` | `AnsweredIsNotMissed` | A caller who hangs up in the moment of the answer writes `missed` over `accepted`. |
| `GroupCalls_stranded` | `EndedIsEmpty` | A room ends between a join's select and its member row: the member sits in a room no sweep looks at. |
| `ChatSync_late_commit` | `PushCovers` | A cursor's position becomes safe by its age alone: a transaction open for nearly as long, that commits between two cycles, is behind it. No fault is needed. |
| `PlanBoard_orphans` | `NoOrphans` | A plan is deleted statements after its production was counted; production arrives between. |
| `Dpr_double_grant` | `GrantedOnce` | Two clicks on Allow look for a recent grant before either is inserted. |
| `Dpr_phantom_hour` | `NoPhantomHour` | A gap filled after its hour's genuine entry came counts the hour twice. |
| `Shifting_counted` | `OnlyCountedLeaves` | Shifts under different locks check the same verified balance. |
| `WipStock_orphans` | `NoOrphans` | A reset's first statement does not see a movement that commits before its second one deletes the item. |

One line changed gives more of them:

| Change | Property | What it shows |
|---|---|---|
| `RowSync_faulty`, `Faults = {"query_error"}` | `NothingLost` | the page query fails: nothing parked, `LAST_PUSH` moves on |
| `RowSync_faulty`, `Faults <- NoFaults`, `SlowServers = {l1}` | `NothingLost` | a LOCAL transaction commits a row stamped before the watermark: the push has no overlap |
| `DeletionSync_rows` | `EveryDeletionSent` | a delete that commits behind `LAST_DELETE_PUSH`, or fails in its savepoint on MAIN, is never sent again |
| `DeletionSync_rows`, `Locals = {l1}`, `Faults = {}` | `EveryDeletionHeard` | a delete on MAIN that commits behind `LAST_DELETE_PULL` is never pulled |
| `DeletionSync_ghost`, `MaxEdits = 1`, `MaxDeletes = 2` | `DeletesTakeEffect` | a second delete of a re-created key keeps the first tombstone and is not pushed |
| `DeletionSync_plans` | `PlansAgree` | a plan edited after MAIN deleted it passes MAIN's guard and is then deleted on the LOCAL |
| `ChatCalls_lines`, `Users = {u1, u2, u3}` | `OneCallEach` | two callers pass the busy check before either row is inserted |
| `PlanBoard_plans`, `Judged = {}` | `OneRunner`, `StartGated` | two starts leave two plans running; the older routes start a plan that nobody approved |
| `PlanBoard_plans` | `RejectedStays` | a bulk approval approves rejected plans too |
| `WipStock_ledger` | `StockedOnce` | `approve` does not look at the record's status: a second click stocks it twice |
| `ChatSync_rows`, `Rule = "first"` | `Converges` | two servers that set a receipt's time each keep their own (`COALESCE`) |
| `ChatSync_rows`, `Ahead <- LocalAhead` | `Converges` | equal `updated_at` of different clocks: neither side takes the other's body |
| `ChatSync_rows`, `MaxWrites = 3` | `LastBodyStays` | marking a row as read makes its old body newer, and takes back what another server wrote meanwhile |

Three configurations hold beside the runs: `ChatSync_rows` with 3 writes, no
faults, `Overlap = 2` and `OpenFor = 1`, `PlanBoard_runners` (`OneRunnerAgain`:
the board's self-heal ends every double run, under fairness of its polls) and
`RowSync_factory` with a global row, two LOCALs and an overlap beyond the clock.

Counterexamples met on the way and not kept: a refused push of deletions followed
by the pull of the same cycle brings the row back; a tombstone that is sent
twice, because a crash came before the watermark, deletes on MAIN a plan created
again in between; `users` rows go to every LOCAL but their tombstones only to one
factory (`getDeletionChanges` makes an exception for moulds alone).  For moulds
the code works around the rule of the first tombstone
(`BACKEND/src/legacy/registerLegacyRoutes.js:27942-27956`).

## 5. Fairness

- `RowSync`, `DeletionSync`: `WF(Progress(l))`.  `runSyncCycle` re-arms its timer
  in a `finally`, and every await returns because `withSyncTimeout` bounds each
  request.  `WF(EndEdit)`: PostgreSQL ends transactions.  Users, faults, and
  late arrivals have no fairness; `Converges` holds because they are finite in
  number, which the bounds stand for.
- `ChatSync`: `WF(PushSteps(l) \/ PullSteps(l))` for the same reason (`cycle`
  schedules the next one in its `finally`, every `fetch` has a timeout) and
  `WF(EndWrite(s, k))`.  None for `Tick`: `Converges` does not need time to pass.
- `SyncSchedule`: `WF` of each timer (Node fires armed timers) and
  `WF(CycleStep(r))`.  A server that `init` left dormant has nothing else to wake
  it than the timer of a trigger or a reset.
- `ChatCalls`: `WF(HandlerStep(h))` for statements that return, `WF` for time
  passing, and `SF` for "some handler serves a poll": the phones of a ringing
  call ask for its status every few seconds, and the handlers that serve them
  come free again and again though any one of them may be busy.  Without polls
  a call does ring for ever, which the mutant of `CallsEnd` shows.
- `GroupCalls`: `WF(Statement(h))` and `WF(FiveSecondsPass(r))` likewise, and for
  each worker `SF` of "one of its handlers starts the clean-up": its timer comes
  again, and a handler is free again and again.  `Cleanup` is enabled only where
  `schemaReady` is set, so a worker that nobody sends a room's request owes no
  sweep, and `DesertedRoomsEnd` promises nothing while no worker is ready.
  Nothing makes a person poll, leave or come back.
- `Shifting`: `SF(Serve(h))`: a request waits for a connection, an advisory lock
  or a row, and each of them comes free again and again; the pool serves its
  queue in order and PostgreSQL the waiters of a lock.
- `PlanBoard`: none in the run; `PlanBoard_runners` assumes `WF(SelfHeal)`, which is
  somebody having the board open.

## 6. Proofs

All proofs are checked to the last leaf; the constants are arbitrary, with the
`ASSUME` of each module (`SyncConstants`, `ScheduleConstants`,
`DeletionConstants`, `CallsConstants`, `GroupCallsConstants`,
`ChatSyncConstants`, `PlanBoardConstants`, `DprConstants`, `ShiftingConstants`,
`WipConstants`).  Where a theorem has a hypothesis beyond these, a configuration
that drops it has a counterexample, so that no condition is there for
convenience.

**`RowSyncProofs`** — `TypeCorrect`, three properties, each from its own
invariant, and what they come to together, for any number of factories, rows,
edits and faults.

`NoRowLost`: `PushSafe => (Spec => []NothingLost)`.  `NothingLost` alone is not
inductive: in the middle of a push a row may be undelivered and unparked as long
as it is in the request or on a later page.  `PushInv` says so: `PushAccounted`
(by phase: settled, to be selected, in the request, or on a later page),
`PushInFlight` (the new watermark is not older than the old one, and the
request's payload is the row unless that was edited after the watermark),
`PastStamps` (no stamp or watermark in the future, so an edit lands after every
watermark), `LocksFresh` and `PullFresh` (a transaction under way is newer than
the row it locks; a pull carries nothing newer than MAIN's copy).  Each action
has a lemma; `RowsGrow`, that stamps only grow, is the fact most of them need.
`PushSafe` names what the code relies on: no open transaction on a LOCAL, no
safety-net answer, no failed page query, and no refused request in a push of
several pages.  `RowSync_tail_lost`, `RowSync_safety_net` and two variations of
`RowSync_faulty` (section 4) each drop one of these and lose a row.

`NothingPassedOver`: `OneFactoryPerRow => (Spec => []PullCoversMain)`, whatever
fails.  MAIN inserts a pushed row with the stamp it came with, perhaps older than
a watermark of the pull.  That is harmless only because the one LOCAL that pulls
the row is the one that sent it, and still has it: `OwnPayloads` says that the
outbox, the requests under way and those given up on carry nothing newer than
the sender's row.  With `PullAccounted` (the watermark about to be stored leaves
out only rows that the answer carries or the LOCAL holds) it is `PullInv`.
`OneFactoryPerRow` is true of the tables with a factory;
`RowSync_late_insert` shows what a row with two LOCALs does.

`RowsDoNotBounce`: `Spec => NoEcho`, without a hypothesis.  `EchoInv`
looks at all copies of a row, in tables, transactions, outboxes and requests
(`Copies`): one stamped after MAIN's is of an edit that MAIN has not seen
(`UnseenKeepStamp`), so `upsertData` finds what it holds already to be no newer.

`CaughtUpRowsAgree`: `PushSafe /\ OneFactoryPerRow => (Spec => []CaughtUpAgrees)`,
the safety half of `Converges`, at any time and without fairness: a row of which
nothing waits in either direction (`CaughtUp`: stamped no later than `LAST_PUSH`
and not parked, MAIN's copy no later than what the pulls have covered) is on the
LOCAL what it is on MAIN.  `NoRowLost` and `NothingPassedOver` make MAIN's copy no
older and no newer, so the stamps are equal; that equal stamps are equal
contents is a third invariant, `StampsTell`, over all copies of the row: a stamp
is given to one version only, because a step in which a user writes re-stamps
nothing on MAIN (`OneNewStamp`).  The theorem needs both hypotheses:
`RowSync_late_insert` (two factories for a row), `RowSync_tail_lost` (with
`BatchSize = 1`) and `RowSync_safety_net` each reach a state that is caught up and
disagrees; in `sync_factory`'s instance rows that users have edited are caught up.

**`SyncScheduleProofs`** — `OneCycleAtATime`, `ScheduleNeverDies`,
`TriggersAreKept`, from `ScheduleInv`: `syncInFlight` tells whether an activation
is alive (`FlagTellsTruth`), a trigger during one has set
`syncRerunRequested` (`AskedInFlight`), and a server in a cycle is awake, and a
deaf one is asked for nothing (`AwakeInFlight`).  The schedule never dies, that
is, of a server that is awake: one whose `init` threw has none.

**`DeletionSyncProofs`** — for any number of LOCALs:

- `NoDeletionLost`: a tombstone that `LAST_DELETE_PUSH` has moved past is on
  MAIN, unless it is one the watermark passed over: it showed too late, or was
  skipped (`late`).
- `DeletionsHeard`: the same of MAIN's tombstones, `LAST_DELETE_PULL` and the
  LOCALs, whichever server the row was deleted on.
  Both from `DeletionInv`, which adds what is under way (`DeletionsAccounted`: a
  tombstone about to be moved past is there, in the request or the answer, or in
  `late`), that no instant is in the future (`PastInstants`) and that the mark of
  a phase is not older than the watermark it replaces (`MarksAhead`).  The
  exceptions are needed: section 4.
- `NoPlanResurrected`: on `plan_board`, a row a tombstone covers does not come
  back.  `DeletionSync_ghost` is any other table.
- `PlanDeletesTakeEffect`: on `plan_board`, where deletes are single statements
  (`SlowDeleters = {}`), and as long as the plan was deleted at most once, MAIN
  does not hold the older plan when `LAST_DELETE_PUSH` has moved past the
  deletion. From `EffectInv`: a plan is there only if written after its
  tombstone (`PlansStayBuried`), the tombstone under way is the sender's
  (`TombstoneSent`), all tombstones are of the one delete (`OneDelete`), and
  each showed ahead of its LOCAL's watermark (`InTime`). A second delete keeps
  the first tombstone and breaks the property: `DeletionSync_plans` with
  `MaxDeletes = 2`.

**`ChatProofs`**, calls — `TypeCorrect`, `OneLinePerCall` and the action property
`OverStaysOver`, for any number of people, calls and handlers, from `CallsInv`:
ids are not shared by requests (`OwnIds`), only a handler that is writing owes a
line (`OwedWhileWriting`), and a line is owed by at most one handler or written,
of a call that is over, never both (`NeverTwice`).

**`ChatProofs`**, replication — for any number of LOCALs, rows, writes, failures
and page sizes:

- `PushesCover`: `Prompt /\ Latest(MAIN) => (ChatSpec => []PushCovers)`;
- `PullsCover`: the same of `PullCovers`, with the clocks of all LOCALs
  the latest, MAIN's own late commits and those of applied pushes included;
- `NumbersMeanNews`: `NoEcho`, where all clocks agree: a row gets a new number
  only with new content;
- `CaughtUpCopiesAgree`: under `Prompt` and where all clocks agree, a
  row that both saved cursors have come past (`CaughtUp`) is the same on the
  LOCAL and on MAIN.  Of a receipt, whose first time stays (`Rule = "first"`), each
  side may keep its own time for ever; then body and stamp agree.

`Latest(s)` says that no clock is ahead of that of `s`. The invariants are made
of `Base` (types, that a number is handed out once, and that no transaction is
older than `OpenFor`), `Stamped(d)` (nothing was written or stamped after what
the clock of `d` stamps next, so that a write on `d` always wins) and, for a
LOCAL and a direction, `Line`: positions lie within the numbers given
(`Positions`); a position that some phase has begun to read for is `OpenFor`
old, and under `Prompt` one such phase is over when it is `Overlap` old
(`Marks`); a number still in a transaction is ahead of the saved position, and a
remembered one beyond it is no older than the transaction (`Pending`); a row
that the other side does not know is ahead of the saved position too, and no
position beyond it has had its phase (`Unknown`). A phase that begins for a
position `OpenFor` ticks after it was remembered therefore finds no transaction
behind it, and when it is over the other side has all that is behind it; only
then is the position saved. For the push, `Answers` adds what MAIN has of a
page: held, committed, or known before. Both directions are one set of lemmas,
and one step means one of a few things (`StepMeans`): what became of the stores
(`StoresMove`), of what is visible (`Flow`), of a cursor (`LineMoves`) and of
the answer (`AnswerMoves`).

`CaughtUpCopiesAgree` adds that an `updated_at` stands for one body, in every copy,
open transaction, page and late push (`StampsTell`: `CopiesNext` shows that a step
carries the copies there are, or a user gives one new stamp), and that what has
no number is known on the other side, since a LOCAL took it from MAIN
(`Unnumbered`).

Every hypothesis is needed. In `chat_sync`'s instance `PushCovers`, `PullCovers`
and `CaughtUpAgrees` each have a counterexample without faults where `Prompt` is
off (`ChatSync_late_commit`); with the LOCAL two ticks ahead `PushCovers`
breaks, with MAIN two ticks ahead `PullCovers`, and with either one tick ahead
`CaughtUpAgrees` and, of three writes, `NoEcho`. A server whose clock is ahead
writes rows that the other's later writes do not replace.

**`GroupCallsProofs`** — `GroupTypes`, `OneLinePerRoom`, `SeatsAreBounded`,
`OnlyJoinsBringBack`, from `RoomsInv`.  People are counted before the member row
is written, so the number of seats alone is not inductive: `Crowd` bounds those
who sit in a room together with those who were let in and have not sat down, and
the bound is the limit and one person for every further handler.  `JoinsByUsers` and
`JoinsRooms` say that a join under way is a person's and of a room that exists.

**`PlanBoardProofs`** — `BoardTypes`, `StagesAreTold`, `RunsAreApproved`,
`RejectionsStand`, from `ApprovalInv`: `HistoryTells` (the stage of a plan has its
entries in the history, so that a handler that read the stage may rely on them)
and `Sound`, what each handler knows of the plan it has read: a verdict was
formed on an open stage, and a run that passed its check is of an approved plan
unless the plan was replaced meanwhile.

`VerdictsGivenOnce` (`OneVerdictPerStage`) counts: `VerdictsCounted` says that a
plan has had no more verdicts of a stage than rows, and one fewer while its row
waits for one. Every action but `CommitVerdict` leaves the verdicts alone, and
that one looks at the stage under its lock.

**`FloorProofs`**, shifting — `LabelsShiftOnce`, from `ScanInv`: one handler is past
the lock of a label (`OneInside`), so what its check found still holds when it
saves (`ChecksHold`).  `ManualShiftsProduced`, from `ManualInv`: for the one source
that manual shifts share a lock of, what the check added up stays within what was
produced until the row is saved (`ManualHolds`).  `ShiftsBounded`, from `BoundInv`:
shifts of different labels hold different locks, so each may be checked before
the others save; all that were saved or are about to be exceed what was ever
verified by at most the largest amount for each handler but one (`Bounded`).

**`FloorProofs`**, entries — for any number of requests, slots, entries and rows:

- `EntriesTyped`, with what a request under way holds (`EntryInv`);
- `TwinsAreBounded`, from `TwinInv`: the rows that stand for an entry, were held
  against the guard and are young enough to be its twins, and the requests that
  have found no twin and are about to insert it, are together no more than the
  requests: one that looks for a
  twin finds it as soon as another has inserted;
- `CapIsBounded`, from `CapInv`: production that was held against the cap and that
  no admin corrected, and what the
  requests past their check are about to add, stay within the cap, all that was
  ever granted, and the largest entry for each request but one;
- `GenuineRowsSupersede`: `GenuineSupersedes` itself is inductive, with `EntryInv`:
  a placeholder stands beside a genuine row only while its replacement is under
  way or after one that did not come about (`unreplaced`).
  What makes it so when rows are deleted is `Deleted`: the rows that are left keep
  their order under their new numbers (`Rank`, `Nth`).

The bounds are about sums and counts over finite sets: what a sum is when one
term changes, when the terms are renumbered, or taken from a part of the set, and
how large it can be, are lemmas proved by induction on the subsets of the set
(`SubsetsInduct`, from `WFMin`: a set of subsets that is not all of them leaves
out a smallest one).

**`WipStockProofs`** — `StockIsBalanced`, `NothingOverdrawn` and the refinement
`StoreKeepsTheLedger`, for any integer quantities: `Spec => LedgerHolds`, where
`LedgerHolds` is `StockLedger`'s specification with the committed stock as its
accounts. From `StoreInv`: a movement under way has its item locked
(`MoversHold`, `MoversApart`), one reset runs at a time (`OneReset`), an item
not yet stocked has no trace (`FreshItems`), and a reset deletes no movement of
an item it leaves (`SparesSurvivors`). Each commit is a step of the ledger,
every other action a stutter.

**Only model-checked**: all liveness (`Converges` of both modules,
`DeletesConverge`, `EveryEditPushed`, `CallsEnd`, `LinesWritten`,
`DesertedRoomsEnd`, `ShiftsEnd`), which needs fairness and `ENABLED` and is out of
the prover's reach.  Every other property of a passing run is a theorem.

## 7. Limits

- The clocks of the servers agree in `RowSync` and `DeletionSync`.
  `shouldKeepRowOverDeletion` tolerates two minutes of skew and `withPullOverlap`
  twenty; last writer wins tolerates none.  `ChatSync` has clocks that are
  ahead (`Ahead`).
- Rules of single tables are left out of `RowSync`: `plan_board`'s status and
  15-second rules, twin rows of `dpr_hourly`, links of `assembly_scans`,
  re-numbered ids, legacy conflicts of notifications.
- Retention of tombstones (30 days) against a LOCAL that is absent for longer;
  the scope of a tombstone (which factories get it).
- Pages of a pull, and the 500-row limit of the outbox's drain.
- `ChatSync`: attachment files, rows that MAIN cannot apply, the adoption of
  natural keys, the 20 pages of a cycle, the timer, and two loops alive while the
  lead moves from one process to the other.
- `ChatCalls`: signals, pushes, and the 4 hours after which a live call no
  longer makes a person busy.  `GroupCalls`: who belongs to the group, signals,
  pushes.
- `PlanBoard`: roles, factories, the Job Card link, the order of the queue, audit
  rows, other machines; the labels of `machine_plan_priority` (their handler
  sends `BEGIN` through the pool, `registerLegacyRoutes.js:13142-13212`, so each
  of its statements commits by itself).
- `Dpr`: one colour of one plan; an entry is one that passed the guards of role,
  date, plant and quantity.
- `WipStock`: racks, the log of outward movements, and the daily snapshots that
  are uploaded beside the store.

`PROJECT.json` lists the main hazards of the code with the properties that cover
them, or why none does.
