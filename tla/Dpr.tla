------------------------------- MODULE Dpr -------------------------------
(***************************************************************************)
(* Hourly production entries (DPR) of one machine, one shift and one       *)
(* colour of a plan, and the extra quantity PPC allows for that colour     *)
(* (BACKEND/src/legacy/registerLegacyRoutes.js, table dpr_hourly and       *)
(* extra_qty_allowances).                                                  *)
(*                                                                         *)
(* Every statement is atomic and commits by itself; requests run between   *)
(* two statements of another.  A submit reads, decides, reads again and    *)
(* only then inserts: nothing is locked meanwhile.  A guard whose query    *)
(* fails lets the entry through ("log, don't hard-block", 8118).           *)
(*                                                                         *)
(* Left out: the role, date, plant and quantity guards (an entry here is   *)
(* one that passed them), colours beside the one (8001-8028 pick it),      *)
(* machine status logs and maintenance tickets.                            *)
(***************************************************************************)
EXTENDS Integers, Sequences, FiniteSetsExt, Functions

CONSTANTS
  Requests,   \* requests being handled at once
  Slots,      \* the hour slots of the shift, 1..n
  Entries,    \* what supervisors submit; a quick action is an hour of downtime
  Corrected,  \* good quantities an admin may correct a row to
  PlanCap,    \* 102 % of the colour's planned quantity
  Extras,     \* extra quantities that are allowed
  MaxRows,    \* bound: rows of dpr_hourly
  MaxGrants,  \* bound: rows of extra_qty_allowances
  MaxFailures \* bound: statements that fail, and workers that die

ASSUME DprConstants ==
  /\ IsFiniteSet(Requests) /\ Requests # {}
  /\ Slots \subseteq Nat /\ Extras \subseteq Nat /\ Corrected \subseteq Nat
  /\ Entries \subseteq [slot : Slots, kind : {"main", "quick"}, good : Nat]
  /\ IsFiniteSet(Entries) /\ Entries # {} /\ \A e \in Entries : e.kind = "quick" => e.good = 0
  /\ PlanCap \in Nat /\ MaxRows \in Nat /\ MaxGrants \in Nat /\ MaxFailures \in Nat

VARIABLES
  rows,       \* the rows of dpr_hourly with is_deleted = false, in the order of their ids
  old,        \* how many of them, the first ones, are older than 2 minutes
  grants,     \* extra_qty_allowances, in the order of their ids
  oldGrants,  \* the first grants, given more than 20 seconds ago
  req,        \* req[h]: what handler h holds in its local variables
  failures,   \* how many failures there were
  unreplaced  \* history: hours whose last replacement did not come about

failed  == <<failures, unreplaced>>
dprVars == <<rows, old, grants, oldGrants, req, failed>>

\* The guards of a submit that a failing query turns off.
Guards == {"cap", "twin"}

Stored == [slot : Slots, kind : {"main", "quick"}, good : Nat]

\* auto: created by SYSTEM-AUTOFILL; off: guards it was not held against.
Row(e, auto, off) == [entry |-> e, auto |-> auto, edited |-> FALSE, off |-> off]

\* gaps: slots still to be looked at by the continuity loop.
Held == [step  : {"idle", "last", "gap", "fill", "twin", "insert", "replace", "grant"},
             entry : Entries,
             gaps  : SUBSET Slots,
             off   : SUBSET Guards,
             extra : Extras \cup {0}]

NoEntry == CHOOSE e \in Entries : TRUE
NoRequest == [step |-> "idle", entry |-> NoEntry, gaps |-> {}, off |-> {}, extra |-> 0]

DprInit ==
  /\ rows = <<>>
  /\ old = 0
  /\ grants = <<>>
  /\ oldGrants = 0
  /\ req = [h \in Requests |-> NoRequest]
  /\ failures = 0
  /\ unreplaced = {}

GoesOn(h, step) == req' = [req EXCEPT ![h].step = step]
Answers(h) == req' = [req EXCEPT ![h] = NoRequest]

\* A statement that does not answer is a failure.
FailsUnless(answered) ==
  /\ answered \/ failures < MaxFailures
  /\ failures' = IF answered THEN failures ELSE failures + 1

Filled(s) == \E i \in DOMAIN rows : rows[i].entry.slot = s
Good(ids) == SumFunctionOnSet([i \in DOMAIN rows |-> rows[i].entry.good], ids)
AllGood == Good(DOMAIN rows)

LiveGrants == {i \in DOMAIN grants : grants[i].live}
Granted(ids) == SumFunctionOnSet([i \in DOMAIN grants |-> grants[i].extra], ids)

-----------------------------------------------------------------------------
(* POST /api/dpr/submit                                                    *)

WithinCap_NoSum(e) == e.good <= PlanCap + Granted(LiveGrants)

\* The cap is read once, before the row is inserted several statements later.
WithinCap(e) == e.good > 0 => AllGood + e.good <= PlanCap + Granted(LiveGrants)

\* An entry without good quantity asks for no cap.
Submit(h, e, answered) ==
  /\ req[h].step = "idle"
  /\ IF answered THEN WithinCap(e) ELSE e.good > 0
  /\ req' = [req EXCEPT ![h].step = "last", ![h].entry = e,
                        ![h].off = IF answered THEN {} ELSE {"cap"}]
  /\ FailsUnless(answered)
  /\ UNCHANGED <<rows, old, grants, oldGrants, unreplaced>>

\* The slots between the latest row, when that is a quick action, and this one.
Skipped(e) ==
  IF rows = <<>> THEN {}
  ELSE LET last == rows[Len(rows)].entry
       IN  {s \in Slots : last.kind = "quick" /\ last.slot < s /\ s < e.slot}

ReadLast(h) ==
  /\ req[h].step = "last"
  /\ req' = [req EXCEPT ![h].step = "gap", ![h].gaps = Skipped(req[h].entry)]
  /\ UNCHANGED <<rows, old, grants, oldGrants, failed>>

LookAtGap(h) ==
  /\ req[h].step = "gap"
  /\ req[h].gaps # {}
  /\ LET s == Min(req[h].gaps)
     IN  IF Filled(s) THEN req' = [req EXCEPT ![h].gaps = @ \ {s}]
                      ELSE GoesOn(h, "fill")
  /\ UNCHANGED <<rows, old, grants, oldGrants, failed>>

\* A copy of the quick action: the machine is taken to have stood still.
FillGap(h) ==
  /\ req[h].step = "fill"
  /\ Len(rows) < MaxRows
  /\ LET s == Min(req[h].gaps)
     IN  /\ rows' = Append(rows, Row([slot |-> s, kind |-> "quick", good |-> 0], TRUE, {}))
         /\ req' = [req EXCEPT ![h].step = "gap", ![h].gaps = @ \ {s}]
  /\ UNCHANGED <<old, grants, oldGrants, failed>>

\* "Continuity Error": what is still to be filled stays open.
LeaveGaps(h) ==
  /\ req[h].step \in {"last", "gap", "fill"}
  /\ req[h].step = "gap" => req[h].gaps # {}
  /\ req' = [req EXCEPT ![h].step = "gap", ![h].gaps = {}]
  /\ FailsUnless(FALSE)
  /\ UNCHANGED <<rows, old, grants, oldGrants, unreplaced>>

Twin_Never(e) == {}

\* The same entry, saved within 2 minutes.
Twin(e) == {i \in DOMAIN rows : i > old /\ rows[i].entry = e}

\* A twin is answered with its own id and nothing is written.
LookForTwin(h, answered) ==
  /\ req[h].step = "gap"
  /\ req[h].gaps = {}
  /\ IF answered /\ Twin(req[h].entry) # {}
       THEN Answers(h)
       ELSE req' = [req EXCEPT ![h].step = "insert",
                               ![h].off = IF answered THEN @ ELSE @ \cup {"twin"}]
  /\ FailsUnless(answered)
  /\ UNCHANGED <<rows, old, grants, oldGrants, unreplaced>>

Insert(h) ==
  /\ req[h].step = "insert"
  /\ Len(rows) < MaxRows
  /\ rows' = Append(rows, Row(req[h].entry, FALSE, req[h].off))
  /\ GoesOn(h, "replace")
  /\ UNCHANGED <<old, grants, oldGrants, failed>>

\* How many of the rows up to i are left, and the n-th that is left.
Rank(left, i) == Cardinality({j \in left : j <= i})
Nth(left, n) == CHOOSE i \in left : Rank(left, i) = n

SoftDelete(ids) ==
  LET left == DOMAIN rows \ ids
  IN  /\ rows' = [n \in 1..Cardinality(left) |-> rows[Nth(left, n)]]
      /\ old' = Rank(left, old)

Replaced_Never(s) == {}

\* The placeholders of the slot, superseded by the genuine row.
Replaced(s) == {i \in DOMAIN rows : rows[i].auto /\ rows[i].entry.slot = s}

ReplaceAutofill(h) ==
  /\ req[h].step = "replace"
  /\ SoftDelete(Replaced(req[h].entry.slot))
  /\ Answers(h)
  /\ unreplaced' = unreplaced \ {req[h].entry.slot}
  /\ UNCHANGED <<grants, oldGrants, failures>>

\* An insert that fails, a replacement that fails and is only logged, a worker
\* that dies anywhere: the request goes no further.
Stops(h) ==
  /\ req[h].step # "idle"
  /\ Answers(h)
  /\ unreplaced' = unreplaced \cup (IF req[h].step = "replace" THEN {req[h].entry.slot} ELSE {})
  /\ FailsUnless(FALSE)
  /\ UNCHANGED <<rows, old, grants, oldGrants>>

TwoMinutesPass ==
  /\ old < Len(rows)
  /\ old' = Len(rows)
  /\ UNCHANGED <<rows, grants, oldGrants, req, failed>>

-----------------------------------------------------------------------------
(* Deletion and correction of rows.                                        *)

\* /api/dpr/delete, /delete-entry and /delete-quick.
Delete(i) ==
  /\ SoftDelete({i})
  /\ UNCHANGED <<grants, oldGrants, req, failed>>

\* /api/dpr/edit: no cap is checked.
Edit(i, g) ==
  /\ rows[i].entry.good # g
  /\ rows' = [rows EXCEPT ![i].entry.good = g, ![i].edited = TRUE]
  /\ UNCHANGED <<old, grants, oldGrants, req, failed>>

-----------------------------------------------------------------------------
(* POST /api/extra-qty/allow and DELETE /api/extra-qty/:id, by one user.   *)

RecentGrants == {i \in LiveGrants : i > oldGrants}

\* A recent grant answers a second click; the row is inserted later.
Allow(h, extra) ==
  /\ req[h].step = "idle"
  /\ RecentGrants = {}
  /\ Len(grants) + Cardinality({k \in Requests : req[k].step = "grant"}) < MaxGrants
  /\ req' = [req EXCEPT ![h].step = "grant", ![h].extra = extra]
  /\ UNCHANGED <<rows, old, grants, oldGrants, failed>>

InsertGrant(h) ==
  /\ req[h].step = "grant"
  /\ grants' = Append(grants, [extra |-> req[h].extra, live |-> TRUE])
  /\ Answers(h)
  /\ UNCHANGED <<rows, old, oldGrants, failed>>

WithdrawGrant(i) ==
  /\ i \in LiveGrants
  /\ grants' = [grants EXCEPT ![i].live = FALSE]
  /\ UNCHANGED <<rows, old, oldGrants, req, failed>>

TwentySecondsPass ==
  /\ oldGrants < Len(grants)
  /\ oldGrants' = Len(grants)
  /\ UNCHANGED <<rows, old, grants, req, failed>>

-----------------------------------------------------------------------------
DprNext ==
  \/ \E h \in Requests : \/ \E e \in Entries, answered \in BOOLEAN : Submit(h, e, answered)
                         \/ ReadLast(h) \/ LookAtGap(h) \/ FillGap(h) \/ LeaveGaps(h)
                         \/ \E answered \in BOOLEAN : LookForTwin(h, answered)
                         \/ Insert(h) \/ ReplaceAutofill(h) \/ Stops(h)
                         \/ \E x \in Extras : Allow(h, x)
                         \/ InsertGrant(h)
  \/ \E i \in DOMAIN rows : Delete(i) \/ \E g \in Corrected : Edit(i, g)
  \/ \E i \in DOMAIN grants : WithdrawGrant(i)
  \/ TwoMinutesPass
  \/ TwentySecondsPass

DprSpec == DprInit /\ [][DprNext]_dprVars

-----------------------------------------------------------------------------
DprTypeOK ==
  /\ rows \in Seq([entry : Stored, auto : BOOLEAN, edited : BOOLEAN, off : SUBSET Guards])
  /\ Len(rows) <= MaxRows
  /\ old \in 0..Len(rows)
  /\ grants \in Seq([extra : Extras, live : BOOLEAN])
  /\ Len(grants) <= MaxGrants
  /\ oldGrants \in 0..Len(grants)
  /\ req \in [Requests -> Held]
  /\ failures \in 0..MaxFailures
  /\ unreplaced \subseteq Slots

\* The duplicate guard (8184-8189): of one entry, no more rows of the last two
\* minutes that were held against the guard stand beside each other than requests
\* can be under way at once.
TwinsBounded ==
  \A e \in Entries :
    Cardinality({i \in DOMAIN rows : /\ i > old
                                     /\ rows[i].entry = e
                                     /\ "twin" \notin rows[i].off
                                     /\ ~rows[i].auto /\ ~rows[i].edited}) <= Cardinality(Requests)

\* The over-production cap (8042-8048): without corrections and entries whose cap
\* could not be read, and counting what was ever allowed, production passes the
\* cap by no more than the entries of the requests that were under way with the
\* one that reached it.
CapBounded ==
  Good({i \in DOMAIN rows : ~rows[i].edited /\ "cap" \notin rows[i].off})
    <= PlanCap + Granted(DOMAIN grants) + (Cardinality(Requests) - 1) * Max({e.good : e \in Entries})

\* "the genuine entry we just inserted supersedes the placeholder" (8252-8258):
\* a placeholder older than a genuine row of its hour stands only while the
\* request that inserted the genuine row goes on, or when its replacement was the
\* hour's last and failed.
GenuineSupersedes ==
  \A i, j \in DOMAIN rows :
    /\ i < j
    /\ rows[i].auto /\ ~rows[j].auto
    /\ rows[i].entry.slot = rows[j].entry.slot
    => \/ \E h \in Requests : req[h].step = "replace" /\ req[h].entry.slot = rows[i].entry.slot
       \/ rows[i].entry.slot \in unreplaced

\* "A single "Allow" must never end up granting extra twice" (30182), within the
\* 20 seconds of its guard.
GrantedOnce == Cardinality(RecentGrants) <= 1

\* "so the hour isn't double-counted" (8255-8256): production and a placeholder
\* of the same hour do not both stand once no request is under way.
NoPhantomHour ==
  (\A h \in Requests : req[h].step = "idle") =>
    \A i, j \in DOMAIN rows :
      rows[i].entry.slot = rows[j].entry.slot /\ rows[i].auto => rows[j].entry.kind # "main"
=============================================================================
