-------------------------- MODULE FeatureTimeline --------------------------
(***************************************************************************)
(* What a fixture's features know, and when. Two features of a fixture are *)
(* kept, both averages over the matches of its teams and league: strength  *)
(* (FixtureVenueStrengthCalculator: written by every sync and import of    *)
(* the fixture, and by a backfill) and goals (FixtureExpectedGoals-        *)
(* Calculator: by a backfill only). Each row of feature_values_offline     *)
(* has the time it is of (as_of); predictions, and the anchors that stand  *)
(* in for predictions in training sets, read the latest row as of a cutoff.*)
(*                                                                         *)
(* A value is abstracted to the set of matches it was averaged over, which *)
(* is what a leak is about. All fixtures are of one league and one pairing *)
(* of teams, windows and minimum samples leave nothing out, and a fixture  *)
(* keeps its kick-off. Workers sync and predict on autocommit sessions; a  *)
(* Maintainer runs the tasks started by hand, in batches it commits.       *)
(***************************************************************************)
EXTENDS Integers, FiniteSets

CONSTANTS Fixture, Kickoff, Worker, Maintainer,
          MaxTime, MaxValues, MaxServed, MaxAnchors    \* bounds

Time == 0..MaxTime
Session == Worker \union Maintainer
AnchorId == 1..MaxAnchors

ASSUME KickoffAssumption == Kickoff \in [Fixture -> Time]
ASSUME SessionAssumption == Worker \intersect Maintainer = {}
ASSUME BoundAssumption ==
    MaxTime \in Nat /\ MaxValues \in Nat /\ MaxServed \in Nat /\ MaxAnchors \in Nat

VARIABLES
    clock,
    recorded,   \* fixtures whose row is COMPLETED with a score
    values,     \* feature_values_offline
    served,     \* predictions recorded by the prediction engine
    anchors,    \* predictions of the historical-backfill model
    job,        \* what each session is doing
    contested   \* history: fixtures listed by a task while another one had them in hand
vars == <<clock, recorded, values, served, anchors, job, contested>>

Feature == {"strength", "goals"}
Value == [feature : Feature, of : Fixture, asOf : Time, seen : SUBSET Fixture]
Served == [by : {"sweep", "request"}, of : Fixture, cutoff : Time, snapshot : SUBSET Value]
Anchor == [id : AnchorId, of : Fixture, snapshot : SUBSET Value]

Op == {"none", "sync", "sweep", "request", "strength", "goals", "anchors", "refresh"}
PC == {"idle", "save", "compute", "write", "read strength", "read goals", "record", "rows"}
Job == [op : Op, pc : PC,
        of : SUBSET Fixture,         \* the fixture at hand, those still to do
        cutoff : Time,               \* the `now` of the run
        got : SUBSET Value,          \* values read or computed, not yet committed
        rows : SUBSET Anchor]        \* anchors written, not yet committed
IdleJob == [op |-> "none", pc |-> "idle", of |-> {}, cutoff |-> 0, got |-> {}, rows |-> {}]

TypeOK ==
    /\ clock \in Time
    /\ recorded \in SUBSET Fixture
    /\ values \in SUBSET Value
    /\ served \in SUBSET Served
    /\ anchors \in SUBSET Anchor
    /\ job \in [Session -> Job]
    /\ contested \in SUBSET Fixture

Init ==
    /\ clock = 0
    /\ recorded = {} /\ values = {} /\ served = {} /\ anchors = {}
    /\ job = [s \in Session |-> IdleJob]
    /\ contested = {}

-----------------------------------------------------------------------------
(* The calculators and the store. *)

SeenThrough(cutoff) == {f \in recorded : Kickoff[f] <= cutoff}    \* mutant: not strict

(* The completed matches, with a score, that kicked off before the cutoff. *)
SeenBefore(cutoff) == {f \in recorded : Kickoff[f] < cutoff}

(* What a calculator writes: nothing for want of matches. *)
Computed(feature, f, cutoff) ==
    {v \in [feature : {feature}, of : {f}, asOf : {cutoff}, seen : {SeenBefore(cutoff)}] :
        v.seen # {}}

LatestValue(feature, f, cutoff) ==    \* mutant: get_latest
    LET found == {v \in values : v.feature = feature /\ v.of = f}
    IN  {v \in found : \A u \in found : u.asOf <= v.asOf}

(* get_as_of: the row of the latest as_of up to the cutoff; any of several. *)
ValueAsOf(feature, f, cutoff) ==
    LET found == {v \in values : v.feature = feature /\ v.of = f /\ v.asOf <= cutoff}
    IN  {v \in found : \A u \in found : u.asOf <= v.asOf}

(* The sets that hold one of the values found, or none if there is none. *)
OneOf(found) == IF found = {} THEN {{}} ELSE {{v} : v \in found}

Begin(s, op, pc, fixtures, cutoff, got) ==
    job' = [job EXCEPT ![s] = [op |-> op, pc |-> pc, of |-> fixtures, cutoff |-> cutoff,
                               got |-> got, rows |-> {}]]
Done(s) == job' = [job EXCEPT ![s] = IdleJob]

Tick ==
    /\ clock < MaxTime
    /\ clock' = clock + 1
    /\ UNCHANGED <<recorded, values, served, anchors, job, contested>>

-----------------------------------------------------------------------------
(* reconcile_fixture, as far as results and features are concerned. *)

StartSync(w, f) ==
    /\ job[w].pc = "idle"
    /\ Begin(w, "sync", "save", {f}, clock, {})
    /\ UNCHANGED <<clock, recorded, values, served, anchors, contested>>

(* The row is saved; a final score there can be once the match has begun. *)
SaveFixture(w) ==
    /\ job[w].pc = "save"
    /\ \/ UNCHANGED recorded
       \/ /\ \A f \in job[w].of : Kickoff[f] < clock
          /\ recorded' = recorded \union job[w].of
    /\ job' = [job EXCEPT ![w].pc = "compute"]
    /\ UNCHANGED <<clock, values, served, anchors, contested>>

(* _compute_venue_strength as of the time the run began. *)
ComputeStrength(w) ==
    /\ job[w].pc = "compute"
    /\ job' = [job EXCEPT ![w].pc = "write",
                  ![w].got = UNION {Computed("strength", f, job[w].cutoff) : f \in job[w].of}]
    /\ UNCHANGED <<clock, recorded, values, served, anchors, contested>>

WriteStrength(w) ==
    /\ job[w].pc = "write"
    /\ values' = values \union job[w].got
    /\ Cardinality(values') <= MaxValues
    /\ Done(w)
    /\ UNCHANGED <<clock, recorded, served, anchors, contested>>

(* A historical import is one transaction, and features as of the kick-off. *)
Import(f) ==
    /\ Kickoff[f] < clock
    /\ recorded' = recorded \union {f}
    /\ values' = values \union
           {v \in [feature : {"strength"}, of : {f}, asOf : {Kickoff[f]},
                   seen : {{g \in recorded' : Kickoff[g] < Kickoff[f]}}] : v.seen # {}}
    /\ Cardinality(values') <= MaxValues
    /\ UNCHANGED <<clock, served, anchors, job, contested>>

-----------------------------------------------------------------------------
(* The prediction engine. *)

(* The scheduled sweep takes fixtures that are to begin after its run did,  *)
(* the cutoff of them all; when their turn comes they may have been played. *)
StartSweep(w, f) ==
    /\ job[w].pc = "idle"
    /\ f \notin recorded /\ clock < Kickoff[f]
    /\ Begin(w, "sweep", "read strength", {f}, clock, {})
    /\ UNCHANGED <<clock, recorded, values, served, anchors, contested>>

StartRequest(w, f) ==
    /\ job[w].pc = "idle"
    /\ Begin(w, "request", "read strength", {f}, clock, {})
    /\ UNCHANGED <<clock, recorded, values, served, anchors, contested>>

(* PredictionContextBuilder.build: one statement for each feature. *)
ReadFeature(w, feature, from, to) ==
    /\ job[w].pc = from
    /\ \E f \in job[w].of : \E read \in OneOf(ValueAsOf(feature, f, job[w].cutoff)) :
           job' = [job EXCEPT ![w].pc = to, ![w].got = @ \union read]
    /\ UNCHANGED <<clock, recorded, values, served, anchors, contested>>

RecordPrediction(w) ==
    /\ job[w].pc = "record"
    /\ \E f \in job[w].of :
           served' = served \union {[by |-> job[w].op, of |-> f, cutoff |-> job[w].cutoff,
                                     snapshot |-> job[w].got]}
    /\ Cardinality(served') <= MaxServed
    /\ Done(w)
    /\ UNCHANGED <<clock, recorded, values, anchors, contested>>

-----------------------------------------------------------------------------
(* The tasks started by hand. Each lists its rows, works them off one by    *)
(* one and commits every so many.                                           *)

Covered(feature) == {f \in Fixture : \E v \in values : v.feature = feature /\ v.of = f}
Anchored == {a.of : a \in anchors}

(* backfill_venue_strength..., backfill_expected_goals_for_completed_fixtures *)
StartBackfill(r, feature, force) ==
    /\ job[r].pc = "idle"
    /\ Begin(r, feature, "rows", recorded \ (IF force THEN {} ELSE Covered(feature)), clock, {})
    /\ UNCHANGED <<clock, recorded, values, served, anchors, contested>>

BackfillRow(r, f) ==
    /\ job[r].pc = "rows" /\ job[r].op \in Feature /\ f \in job[r].of
    /\ job' = [job EXCEPT ![r].of = @ \ {f},
                          ![r].got = @ \union Computed(job[r].op, f, Kickoff[f])]
    /\ UNCHANGED <<clock, recorded, values, served, anchors, contested>>

(* What an anchors task has in hand: fixtures to do, and those whose anchor *)
(* it has written and not committed.                                        *)
InHand(j) == IF j.op = "anchors" THEN j.of \union {a.of : a \in j.rows} ELSE {}

(* Task r lists fixtures to anchor, each with its goals as of its kick-off. *)
List(r, fixtures) ==
    /\ \E got \in SUBSET values :
           /\ \A f \in fixtures :
                  {v \in got : v.of = f} \in OneOf(ValueAsOf("goals", f, Kickoff[f]))
           /\ {v.of : v \in got} \subseteq fixtures
           /\ Begin(r, "anchors", "rows", fixtures, clock, got)
    /\ contested' = contested \union {f \in fixtures : \E s \in Session : f \in InHand(job[s])}
    /\ UNCHANGED <<clock, recorded, values, served, anchors>>

StartAnchorsAgain(r) ==    \* mutant: fixtures that have an anchor are listed too
    job[r].pc = "idle" /\ List(r, recorded)

(* backfill_correct_score_training_anchors: its one query lists the         *)
(* fixtures without an anchor. Nothing keeps two such tasks apart.          *)
StartAnchors(r) ==
    job[r].pc = "idle" /\ List(r, recorded \ Anchored)

FreshAnchorIds == AnchorId \ ({a.id : a \in anchors}
                              \union UNION {{a.id : a \in job[s].rows} : s \in Session})

(* No goals, no anchor. *)
AnchorRow(r, f) ==
    LET goals == {v \in job[r].got : v.of = f}
        New == {[id |-> id, of |-> f, snapshot |-> goals] :
                   id \in {i \in FreshAnchorIds : \A j \in FreshAnchorIds : i <= j}}
    IN  /\ job[r].pc = "rows" /\ job[r].op = "anchors" /\ f \in job[r].of
        /\ goals # {} => New # {}
        /\ job' = [job EXCEPT ![r].of = @ \ {f},
                              ![r].rows = IF goals = {} THEN @ ELSE @ \union New]
        /\ UNCHANGED <<clock, recorded, values, served, anchors, contested>>

(* refresh_correct_score_training_feature_snapshots: an anchor's strength   *)
(* is merged into its snapshot, as of the kick-off.                         *)
StartRefresh(r) ==
    /\ job[r].pc = "idle"
    /\ Begin(r, "refresh", "rows", Anchored, clock, {})
    /\ UNCHANGED <<clock, recorded, values, served, anchors, contested>>

Merged(snapshot, read) ==
    IF read = {} THEN snapshot ELSE {v \in snapshot : v.feature # "strength"} \union read

RefreshRow(r, f) ==
    /\ job[r].pc = "rows" /\ job[r].op = "refresh" /\ f \in job[r].of
    /\ \E read \in OneOf(ValueAsOf("strength", f, Kickoff[f])) :
           job' = [job EXCEPT ![r].of = @ \ {f},
                      ![r].rows = @ \union {[a EXCEPT !.snapshot = Merged(@, read)] :
                                            a \in {b \in anchors : b.of = f}}]
    /\ UNCHANGED <<clock, recorded, values, served, anchors, contested>>

(* The end of a batch, and with no rows left of the task. *)
Commit(r) ==
    /\ job[r].pc = "rows"
    /\ values' = IF job[r].op \in Feature THEN values \union job[r].got ELSE values
    /\ Cardinality(values') <= MaxValues
    /\ anchors' = job[r].rows \union {a \in anchors : \A b \in job[r].rows : b.id # a.id}
    /\ IF job[r].of = {} THEN Done(r)
       ELSE job' = [job EXCEPT ![r].rows = {}, ![r].got = IF job[r].op \in Feature THEN {} ELSE @]
    /\ UNCHANGED <<clock, recorded, served, contested>>

(* An error, a task's timeout, a restart: what is not committed is lost. *)
Abort(s) ==
    /\ job[s].pc # "idle"
    /\ Done(s)
    /\ UNCHANGED <<clock, recorded, values, served, anchors, contested>>

-----------------------------------------------------------------------------
Work(w) ==
    \/ \E f \in Fixture : StartSync(w, f) \/ StartSweep(w, f) \/ StartRequest(w, f)
    \/ SaveFixture(w) \/ ComputeStrength(w) \/ WriteStrength(w)
    \/ ReadFeature(w, "strength", "read strength", "read goals")
    \/ ReadFeature(w, "goals", "read goals", "record")
    \/ RecordPrediction(w)
Maintain(r) ==
    \/ \E feature \in Feature, force \in BOOLEAN : StartBackfill(r, feature, force)
    \/ StartAnchors(r) \/ StartRefresh(r) \/ Commit(r)
    \/ \E f \in Fixture : BackfillRow(r, f) \/ AnchorRow(r, f) \/ RefreshRow(r, f)
Next ==
    \/ Tick
    \/ \E f \in Fixture : Import(f)
    \/ \E w \in Worker : Work(w)
    \/ \E r \in Maintainer : Maintain(r)
    \/ \E s \in Session : Abort(s)

Spec == Init /\ [][Next]_vars

-----------------------------------------------------------------------------
(* A prediction is made from the past: its features are of matches that     *)
(* kicked off before its cutoff, though it reads them later, one by one,    *)
(* while results come in; and what the sweep predicts has not begun at the  *)
(* cutoff, so that its own result is never among them.                      *)
PredictionsSeeThePast ==
    \A p \in served : \A v \in p.snapshot : \A g \in v.seen :
        /\ Kickoff[g] < p.cutoff
        /\ p.by = "sweep" => Kickoff[g] < Kickoff[p.of]

(* A training anchor is made long after its match, from backfilled values   *)
(* and those that syncs left: it has none that saw the match itself, or one *)
(* that kicked off later.                                                   *)
AnchorsArePreMatch ==
    \A a \in anchors : \A v \in a.snapshot : \A g \in v.seen : Kickoff[g] < Kickoff[a.of]

(* A fixture has one anchor at most, whatever was committed when a task     *)
(* died and however often it is started again, unless a task listed it      *)
(* while another one had it in hand.                                        *)
AnchoredOnce == \A a, b \in anchors : a.of = b.of => a = b \/ a.of \in contested

(* The task's docstring: "Idempotent: the discovery query excludes any      *)
(* fixture that already has a prediction from this anchor model". False:    *)
(* nothing keeps two tasks apart.                                           *)
AnchoringIsIdempotent == \A a, b \in anchors : a.of = b.of => a = b
=============================================================================
