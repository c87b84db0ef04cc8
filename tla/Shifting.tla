----------------------------- MODULE Shifting -----------------------------
(***************************************************************************)
(* Shifting: pieces of one job leave the shop floor, by hand or by the     *)
(* scan of a printed label (BACKEND/src/legacy/registerLegacyRoutes.js,    *)
(* /api/shifting/..., table shifting_records), against what DPR says is    *)
(* produced and what QC verified of it (/api/qc/verify/...).               *)
(*                                                                         *)
(* A shift runs in a transaction on a connection of the pool that holds an *)
(* advisory lock: "plan" for a manual shift, the label for a scan.  Its    *)
(* checks use q(), a second connection of the same pool.                   *)
(*                                                                         *)
(* Left out: colours beside one, the factory, the destination, weights,    *)
(* and verifications that grow older than 3 days.  How rows come about is  *)
(* module Dpr.                                                             *)
(***************************************************************************)
EXTENDS Integers, FiniteSetsExt

CONSTANTS
  Handlers,  \* shifts being handled at once
  Rows,      \* DPR entries of one hour of the job
  Goods,     \* good quantities of an entry
  Labels,    \* printed labels of the job
  LabelQty,  \* LabelQty[l]: pieces on label l
  Manual,    \* stands for a shift without a label
  Amounts,   \* quantities that are shifted
  PoolSize,  \* connections of the pool
  MaxOthers  \* bound: connections held by other requests

Sources == Labels \cup {Manual}

ASSUME ShiftingConstants ==
  /\ IsFiniteSet(Handlers) /\ Handlers # {} /\ IsFiniteSet(Rows) /\ IsFiniteSet(Labels)
  /\ Goods \subseteq Nat /\ IsFiniteSet(Amounts) /\ Amounts \subseteq Nat \ {0} /\ Amounts # {}
  /\ LabelQty \in [Labels -> Nat] /\ Manual \notin Labels
  /\ PoolSize \in Nat \ {0} /\ MaxOthers \in Nat

VARIABLES
  good,      \* good[i]: dpr_hourly.good_qty; 0: deleted or not yet there
  verdict,   \* verdict[i]: qc_verifications.status of entry i
  hourly,    \* the hour's verification without an entry says Verified
  seen,      \* qc_verifications has a recent row
  cache,     \* _shiftVerifyCache
  shifted,   \* shifted[s]: pieces in shifting_records, by label or Manual
  unchecked, \* a shift was saved while verification was not enforced
  others,    \* connections that other requests hold, throughout
  job,       \* job[h]: what handler h holds
  made,      \* history: the most that was produced at any time
  verified   \* history: the most that was verified at any time

table  == <<good, verdict, hourly, seen, shifted>>
vars   == <<table, cache, unchecked, others, job, made, verified>>

Verdicts == {"none", "Verified", "Other"}

Jobs == [step : {"idle", "pool", "lock", "check", "save"}, from : Sources, qty : Amounts, free : BOOLEAN]

Sum(f, S) == MapThenSumSet(LAMBDA i : f[i], S)

Idle == [step |-> "idle", from |-> Manual, qty |-> CHOOSE q \in Amounts : TRUE, free |-> FALSE]

Init ==
  /\ good = [i \in Rows |-> 0]
  /\ verdict = [i \in Rows |-> "none"]
  /\ hourly = FALSE
  /\ seen = FALSE
  /\ cache = "expired"
  /\ shifted = [s \in Sources |-> 0]
  /\ unchecked = FALSE
  /\ others \in 0..MaxOthers
  /\ job = [h \in Handlers |-> Idle]
  /\ made = 0
  /\ verified = 0

-----------------------------------------------------------------------------
(* Availability of the job.                                                *)

Produced == Sum(good, Rows)

\* An entry's own verification, or else that of its hour.
Counts(i) == verdict[i] = "Verified" \/ (verdict[i] = "none" /\ hourly)

Verified == Sum(good, {i \in Rows : Counts(i)})

Shifted == Sum(shifted, Sources)

Ready_Unshifted == Verified

Ready == Max({Verified - Shifted, 0})

-----------------------------------------------------------------------------
(* DPR and QC.  QC's own two statements are one step here: an entry that   *)
(* changes between them is one that changes after them.                    *)

Produce(i, g) ==
  /\ good[i] = 0
  /\ good' = [good EXCEPT ![i] = g]
  /\ UNCHANGED <<verdict, hourly, seen, shifted, cache, unchecked, others, job>>

Correct(i, g) ==
  /\ good[i] \notin {0, g}
  /\ good' = [good EXCEPT ![i] = g]
  /\ UNCHANGED <<verdict, hourly, seen, shifted, cache, unchecked, others, job>>

TakeBack_Negative(i) ==
  /\ good[i] # 0
  /\ good' = [good EXCEPT ![i] = @ - 2]
  /\ UNCHANGED <<verdict, hourly, seen, shifted, cache, unchecked, others, job>>

\* A row with the next id is a new one.
TakeBack(i) ==
  /\ good[i] # 0
  /\ good' = [good EXCEPT ![i] = 0]
  /\ verdict' = [verdict EXCEPT ![i] = "none"]
  /\ UNCHANGED <<hourly, seen, shifted, cache, unchecked, others, job>>

\* The first entry verified takes over a row without an entry.
VerifyEntry(i, v) ==
  /\ good[i] # 0
  /\ verdict' = [verdict EXCEPT ![i] = v]
  /\ hourly' = (hourly /\ verdict[i] # "none")
  /\ seen' = TRUE
  /\ UNCHANGED <<good, shifted, cache, unchecked, others, job>>

\* Older apps name no entry; of an hour without entries QC counts 0 of 0.
VerifyHour(accepted) ==
  /\ \A i \in Rows : good[i] = 0
  /\ hourly' = accepted
  /\ seen' = TRUE
  /\ UNCHANGED <<good, verdict, shifted, cache, unchecked, others, job>>

-----------------------------------------------------------------------------
(* POST /api/shifting/entry and /scan-entry                                *)

Does(h, step) == job' = [job EXCEPT ![h].step = step]
Ends(h) == job' = [job EXCEPT ![h] = Idle]

InUse == others + Cardinality({h \in Handlers : job[h].step \in {"lock", "check", "save"}})

Ask(h, s, n) ==
  /\ job[h].step = "idle"
  /\ job' = [job EXCEPT ![h] = [step |-> "pool", from |-> s, qty |-> n, free |-> FALSE]]
  /\ UNCHANGED <<table, cache, unchecked, others>>

Connect(h) ==
  /\ job[h].step = "pool"
  /\ InUse < PoolSize
  /\ Does(h, "lock")
  /\ UNCHANGED <<table, cache, unchecked, others>>

Inside(h) == job[h].step \in {"check", "save"}

Lock_None(h) == job[h].step = "lock" /\ Does(h, "check") /\ UNCHANGED <<table, cache, unchecked, others>>

Lock(h) ==
  /\ job[h].step = "lock"
  /\ \A k \in Handlers : Inside(k) => job[k].from # job[h].from
  /\ Does(h, "check")
  /\ UNCHANGED <<table, cache, unchecked, others>>

\* The cache lasts 5 minutes; a settings query without an answer counts as no
\* recent verification.
Enforced(answered) == IF cache = "expired" THEN answered /\ seen ELSE cache = "on"

\* A scan is held against its label, a manual shift against the shop floor.
FitsSource(s, n) ==
  IF s \in Labels THEN n <= Max({LabelQty[s] - shifted[s], 0})
                  ELSE n <= Max({Produced - Shifted, 0})

Allowed(s, n, answered) ==
  /\ FitsSource(s, n)
  /\ Produced > 0
  /\ Enforced(answered) => n <= Ready

\* QC holds jobs and Moulding releases them at any time.
Check(h, onHold, answered) ==
  /\ job[h].step = "check"
  /\ InUse < PoolSize
  /\ IF ~onHold /\ Allowed(job[h].from, job[h].qty, answered)
       THEN job' = [job EXCEPT ![h].step = "save", ![h].free = ~Enforced(answered)]
       ELSE Ends(h)
  /\ cache' = IF Enforced(answered) THEN "on" ELSE "off"
  /\ UNCHANGED <<table, unchecked, others>>

TimeOut_Never(h) == FALSE

\* connectionTimeoutMillis: waiting for a connection ends in an error.
TimeOut(h) ==
  /\ job[h].step \in {"pool", "check"}
  /\ InUse = PoolSize
  /\ Ends(h)
  /\ UNCHANGED <<table, cache, unchecked, others>>

Save(h) ==
  /\ job[h].step = "save"
  /\ shifted' = [shifted EXCEPT ![job[h].from] = @ + job[h].qty]
  /\ unchecked' = (unchecked \/ job[h].free)
  /\ Ends(h)
  /\ UNCHANGED <<good, verdict, hourly, seen, cache, others>>

CacheExpires ==
  /\ cache # "expired"
  /\ cache' = "expired"
  /\ UNCHANGED <<table, unchecked, others, job>>

\* POST /api/shifting/delete-all
ClearAll ==
  /\ Shifted > 0
  /\ shifted' = [s \in Sources |-> 0]
  /\ unchecked' = FALSE
  /\ UNCHANGED <<good, verdict, hourly, seen, cache, others, job>>

-----------------------------------------------------------------------------
Shop ==
  \/ \E i \in Rows : \/ \E g \in Goods : Produce(i, g) \/ Correct(i, g)
                     \/ TakeBack(i)
                     \/ \E v \in Verdicts \ {"none"} : VerifyEntry(i, v)
  \/ \E accepted \in BOOLEAN : VerifyHour(accepted)
  \/ CacheExpires
  \/ ClearAll

History ==
  /\ made' = Max({made, Produced'})
  /\ verified' = Max({verified, Verified'})

Serve(h) ==
  \/ Connect(h) \/ Lock(h) \/ TimeOut(h) \/ Save(h)
  \/ \E onHold, answered \in BOOLEAN : Check(h, onHold, answered)

Next ==
  /\ Shop \/ \E h \in Handlers : Serve(h) \/ \E s \in Sources, n \in Amounts : Ask(h, s, n)
  /\ History

Spec == Init /\ [][Next]_vars

\* The database, the pool and the event loop go on; the server grants an
\* advisory lock in the order of its waiters, so a handler that can proceed
\* again and again does.
FairSpec == Spec /\ \A h \in Handlers : SF_vars(Serve(h) /\ History)

-----------------------------------------------------------------------------
TypeOK ==
  /\ good \in [Rows -> Nat]
  /\ verdict \in [Rows -> Verdicts]
  /\ hourly \in BOOLEAN
  /\ seen \in BOOLEAN
  /\ cache \in {"expired", "on", "off"}
  /\ shifted \in [Sources -> Nat]
  /\ unchecked \in BOOLEAN
  /\ others \in 0..MaxOthers
  /\ InUse <= PoolSize
  /\ job \in [Handlers -> Jobs]
  /\ made \in Nat
  /\ verified \in Nat

\* No label is shifted for more pieces than it stands for, however its scans
\* meet ("the second one sees the first one's row and is refused", 10627-10629).
LabelOnce == \A l \in Labels : shifted[l] <= LabelQty[l]

\* Manual shifts of a job, one at a time under its lock, never add up to more
\* than DPR ever showed as produced (10720-10734).
ManualWithinProduced == shifted[Manual] <= made

\* "Only produced and QC-verified pieces may leave the shop floor" (10807): as
\* long as verification was enforced, no more leave than were verified at some
\* time and the shifts under other locks add.
ShiftBounded ==
  ~unchecked => Shifted <= verified + (Cardinality(Handlers) - 1) * Max(Amounts)

\* Every shift is answered, though those that hold all connections of the pool
\* wait for one more.
ShiftsEnd == \A h \in Handlers : job[h].step # "idle" ~> job[h].step = "idle"

\* "Only produced and QC-verified pieces may leave" (10807), with shifts of two
\* labels, or of a label and by hand, at the same time.
OnlyCountedLeaves == ~unchecked => Shifted <= verified
=============================================================================
