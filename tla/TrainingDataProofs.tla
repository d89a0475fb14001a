------------------------- MODULE TrainingDataProofs -------------------------
(***************************************************************************)
(* Proofs about what a model learns from: FeatureTimeline (no feature of a *)
(* prediction or of a training anchor saw the match it is about), for any  *)
(* fixtures and kick-offs and any number of workers and of tasks started   *)
(* by hand; and DatasetSplit (a temporal split evaluates on the future of  *)
(* what it trains on, folds tile the dataset, parts partition it), for     *)
(* datasets, requests and outliers of every size.                          *)
(***************************************************************************)
EXTENDS FeatureTimeline, DatasetSplit, FiniteSetTheorems, TLAPS

(* A value is of the past of its as_of.                                    *)
PastValue(v) == \A g \in v.seen : Kickoff[g] < v.asOf

(* A snapshot that a training set may use for its fixture.                 *)
PreMatch(a) == \A v \in a.snapshot : \A g \in v.seen : Kickoff[g] < Kickoff[a.of]

Reading == {"read strength", "read goals", "record"}

(* What a session has read or made is bounded by the cutoff it is for.     *)
GoodJob(j) ==
    /\ \A v \in j.got : PastValue(v)
    /\ \A a \in j.rows : PreMatch(a)
    /\ j.pc \in Reading =>
           /\ j.op \in {"sweep", "request"}
           /\ \A v \in j.got : v.asOf <= j.cutoff
           /\ j.op = "sweep" => \A f \in j.of : j.cutoff < Kickoff[f]
    /\ j.op = "anchors" => j.pc = "rows" /\ \A v \in j.got : v.asOf <= Kickoff[v.of]

Jobs == \A s \in Session : GoodJob(job[s])
Values == \A v \in values : PastValue(v)

IInv == TypeOK /\ Values /\ PredictionsSeeThePast /\ AnchorsArePreMatch /\ Jobs

-----------------------------------------------------------------------------
(* The initial state satisfies the invariant. *)
LEMMA InitIInv == Init => IInv
<1> SUFFICES ASSUME Init PROVE IInv
  OBVIOUS
<1>1. 0 \in Time
  BY BoundAssumption DEF Time
<1>2. IdleJob \in Job /\ GoodJob(IdleJob)
  BY <1>1 DEF IdleJob, Job, Op, PC, GoodJob, Reading
<1>3. TypeOK
  BY <1>1, <1>2 DEF Init, TypeOK
<1>4. Values /\ PredictionsSeeThePast /\ AnchorsArePreMatch
  BY DEF Init, Values, PredictionsSeeThePast, AnchorsArePreMatch
<1>5. Jobs
  BY <1>2 DEF Init, Jobs
<1>6. QED
  BY <1>3, <1>4, <1>5 DEF IInv

(* An idle session has nothing to answer for.                              *)
LEMMA IdleIsGood == IdleJob \in Job /\ GoodJob(IdleJob)
<1>1. 0 \in Time
  BY BoundAssumption DEF Time
<1>2. QED
  BY <1>1 DEF IdleJob, Job, Op, PC, GoodJob, Reading

(* One session's record is replaced by a good one.                         *)
LEMMA JobStep ==
    ASSUME IInv, NEW s \in Session, NEW j \in Job, GoodJob(j),
           job' = [job EXCEPT ![s] = j]
    PROVE  job' \in [Session -> Job] /\ Jobs'
<1>1. job' \in [Session -> Job]
  BY DEF IInv, TypeOK
<1>2. ASSUME NEW t \in Session PROVE GoodJob(job'[t])
  <2>1. CASE t = s
    BY <2>1 DEF IInv, TypeOK
  <2>2. CASE t # s
    <3>1. job'[t] = job[t]
      BY <2>2 DEF IInv, TypeOK
    <3>2. QED
      BY <3>1 DEF IInv, Jobs
  <2>3. QED
    BY <2>1, <2>2
<1>3. Jobs'
  BY <1>2 DEF Jobs
<1>4. QED
  BY <1>1, <1>3

(* A step that only replaces one session's record by a good one.           *)
LEMMA LocalStep ==
    ASSUME IInv, NEW s \in Session, NEW j \in Job, GoodJob(j),
           job' = [job EXCEPT ![s] = j],
           UNCHANGED <<clock, recorded, values, served, anchors>>,
           contested' = contested \/ contested' \in SUBSET Fixture
    PROVE  IInv'
<1>1. job' \in [Session -> Job] /\ Jobs'
  BY JobStep
<1>2. TypeOK'
  BY <1>1 DEF IInv, TypeOK
<1>3. Values' /\ PredictionsSeeThePast' /\ AnchorsArePreMatch'
  BY DEF IInv, Values, PredictionsSeeThePast, AnchorsArePreMatch
<1>4. QED
  BY <1>1, <1>2, <1>3 DEF IInv

(* The record of a session, and what it is good for.                       *)
LEMMA JobFields ==
    ASSUME IInv, NEW s \in Session
    PROVE  job[s] \in Job /\ GoodJob(job[s])
BY DEF IInv, TypeOK, Jobs

(* What a calculator computes is a value of the past.                      *)
LEMMA ComputedIsPast ==
    ASSUME IInv, NEW feature \in Feature, NEW f \in Fixture, NEW cutoff \in Time,
           NEW v \in Computed(feature, f, cutoff)
    PROVE  v \in Value /\ PastValue(v) /\ v.asOf = cutoff /\ v.of = f
<1>1. SeenBefore(cutoff) \in SUBSET Fixture
  BY DEF IInv, TypeOK, SeenBefore
<1>2. v \in Value /\ v.asOf = cutoff /\ v.seen = SeenBefore(cutoff) /\ v.of = f
  BY <1>1 DEF Computed, Value
<1>3. PastValue(v)
  BY <1>2 DEF PastValue, SeenBefore
<1>4. QED
  BY <1>2, <1>3

(* A value read as of a cutoff is a row of the store, not later than it.   *)
LEMMA ReadIsPast ==
    ASSUME IInv, NEW feature \in Feature, NEW f \in Fixture, NEW cutoff \in Time,
           NEW read \in OneOf(ValueAsOf(feature, f, cutoff)), NEW v \in read
    PROVE  v \in values /\ v \in Value /\ PastValue(v) /\ v.asOf <= cutoff
           /\ v.of = f /\ v.feature = feature
<1>1. v \in ValueAsOf(feature, f, cutoff)
  BY DEF OneOf
<1>2. QED
  BY <1>1 DEF ValueAsOf, IInv, TypeOK, Values

-----------------------------------------------------------------------------
(* The steps of the workers. *)

(* A job that has read nothing is good, if a sweep's fixture is yet to begin. *)
LEMMA BeginStep ==
    ASSUME IInv, NEW s \in Session, NEW op \in Op, NEW pc \in PC, NEW fixtures \in SUBSET Fixture,
           NEW got \in SUBSET values, Begin(s, op, pc, fixtures, clock, got),
           pc \in Reading => got = {} /\ op \in {"sweep", "request"},
           op = "sweep" => \A f \in fixtures : clock < Kickoff[f],
           op = "anchors" => pc = "rows" /\ \A v \in got : v.asOf <= Kickoff[v.of],
           UNCHANGED <<clock, recorded, values, served, anchors>>,
           contested' = contested \/ contested' \in SUBSET Fixture
    PROVE  IInv'
<1> DEFINE j == [op |-> op, pc |-> pc, of |-> fixtures, cutoff |-> clock, got |-> got, rows |-> {}]
<1>1. j \in Job
  BY DEF IInv, TypeOK, Job
<1>2. \A v \in got : PastValue(v)
  BY DEF IInv, Values
<1>3. GoodJob(j)
  BY <1>2 DEF GoodJob
<1>4. job' = [job EXCEPT ![s] = j]
  BY DEF Begin
<1>5. QED
  BY <1>1, <1>3, <1>4, LocalStep

(* A session that is done holds nothing to be true to. *)
LEMMA DoneStep ==
    ASSUME IInv, NEW s \in Session, Done(s)
    PROVE  job' \in [Session -> Job] /\ Jobs'
<1>1. job' = [job EXCEPT ![s] = IdleJob]
  BY DEF Done
<1>2. QED
  BY <1>1, IdleIsGood, JobStep

(* The worker's syncs: a score or a strength is recorded at the time of the *)
(* write.                                                                   *)
LEMMA SyncSteps ==
    ASSUME IInv, NEW w \in Worker,
           SaveFixture(w) \/ ComputeStrength(w) \/ WriteStrength(w)
    PROVE  IInv'
<1>1. w \in Session
  BY DEF Session
<1>2. job[w] \in Job /\ GoodJob(job[w])
  BY <1>1, JobFields
<1>3. CASE SaveFixture(w)
  <2> DEFINE j == [job[w] EXCEPT !.pc = "compute"]
  <2>1. job' = [job EXCEPT ![w] = j] /\ UNCHANGED <<clock, values, served, anchors, contested>>
    BY <1>3 DEF SaveFixture
  <2>2. j \in Job
    BY <1>2 DEF Job, PC
  <2>3. GoodJob(j)
    BY <1>2, <1>3 DEF GoodJob, Reading, Job, SaveFixture
  <2>4. job' \in [Session -> Job] /\ Jobs'
    BY <1>1, <2>1, <2>2, <2>3, JobStep
  <2>5. recorded' \in SUBSET Fixture
    BY <1>2, <1>3 DEF SaveFixture, IInv, TypeOK, Job
  <2>6. TypeOK'
    BY <2>1, <2>4, <2>5 DEF IInv, TypeOK
  <2>7. Values' /\ PredictionsSeeThePast' /\ AnchorsArePreMatch'
    BY <2>1 DEF IInv, Values, PredictionsSeeThePast, AnchorsArePreMatch
  <2>8. QED
    BY <2>4, <2>6, <2>7 DEF IInv
<1>4. CASE ComputeStrength(w)
  <2> DEFINE got == UNION {Computed("strength", f, job[w].cutoff) : f \in job[w].of}
             j == [job[w] EXCEPT !.pc = "write", !.got = got]
  <2>1. \A v \in got : v \in Value /\ PastValue(v)
    BY <1>2, ComputedIsPast DEF Job, Feature
  <2>2. j \in Job
    BY <1>2, <2>1 DEF Job, PC
  <2>3. GoodJob(j)
    BY <1>2, <1>4, <2>1 DEF GoodJob, Reading, Job, ComputeStrength
  <2>4. QED
    <3>1. job' = [job EXCEPT ![w] = j] /\ UNCHANGED <<clock, recorded, values, served, anchors, contested>>
      BY <1>4 DEF ComputeStrength
    <3>2. QED
      BY <1>1, <2>2, <2>3, <3>1, LocalStep
<1>5. CASE WriteStrength(w)
  <2>1. job' \in [Session -> Job] /\ Jobs'
    BY <1>1, <1>5, DoneStep DEF WriteStrength
  <2>2. values' = values \union job[w].got /\ UNCHANGED <<clock, recorded, served, anchors, contested>>
    BY <1>5 DEF WriteStrength
  <2>3. TypeOK'
    BY <1>2, <2>1, <2>2 DEF IInv, TypeOK, Job
  <2>4. Values'
    BY <1>2, <2>2 DEF IInv, Values, GoodJob
  <2>5. PredictionsSeeThePast' /\ AnchorsArePreMatch'
    BY <2>2 DEF IInv, PredictionsSeeThePast, AnchorsArePreMatch
  <2>6. QED
    BY <2>1, <2>3, <2>4, <2>5 DEF IInv
<1>6. QED
  BY <1>3, <1>4, <1>5

(* A worker starts on a fixture.                                           *)
LEMMA StartSteps ==
    ASSUME IInv, NEW s \in Session, NEW f \in Fixture,
           StartSync(s, f) \/ StartSweep(s, f) \/ StartRequest(s, f)
    PROVE  IInv'
<1>1. {} \in SUBSET values
  OBVIOUS
<1>2. \A op \in {"sync", "sweep", "request"} : op \in Op
  BY DEF Op
<1>3. \A pc \in {"save", "read strength"} : pc \in PC
  BY DEF PC
<1>4. CASE StartSync(s, f)
  <2>1. Begin(s, "sync", "save", {f}, clock, {}) /\ UNCHANGED <<clock, recorded, values, served, anchors, contested>>
    BY <1>4 DEF StartSync
  <2>2. "save" \notin Reading
    BY DEF Reading
  <2>3. QED
    BY <1>1, <1>2, <1>3, <2>1, <2>2, BeginStep
<1>5. CASE StartSweep(s, f)
  <2> DEFINE todo == {f}
  <2>1. /\ Begin(s, "sweep", "read strength", todo, clock, {})
        /\ UNCHANGED <<clock, recorded, values, served, anchors, contested>>
    BY <1>5 DEF StartSweep
  <2>2. todo \in SUBSET Fixture /\ \A g \in todo : clock < Kickoff[g]
    BY <1>5 DEF StartSweep
  <2> HIDE DEF todo
  <2>3. QED
    BY <1>1, <1>2, <1>3, <2>1, <2>2, BeginStep
<1>6. CASE StartRequest(s, f)
  <2>1. /\ Begin(s, "request", "read strength", {f}, clock, {})
        /\ UNCHANGED <<clock, recorded, values, served, anchors, contested>>
    BY <1>6 DEF StartRequest
  <2>2. QED
    BY <1>1, <1>2, <1>3, <2>1, BeginStep
<1>7. QED
  BY <1>4, <1>5, <1>6

(* The prediction engine reads one more feature.                           *)
LEMMA ReadStep ==
    ASSUME IInv, NEW w \in Worker, NEW feature \in Feature,
           NEW from \in {"read strength", "read goals"}, NEW to \in {"read goals", "record"},
           ReadFeature(w, feature, from, to)
    PROVE  IInv'
<1>1. w \in Session
  BY DEF Session
<1>2. job[w] \in Job /\ GoodJob(job[w])
  BY <1>1, JobFields
<1>3. PICK f \in job[w].of : \E read \in OneOf(ValueAsOf(feature, f, job[w].cutoff)) :
          job' = [job EXCEPT ![w].pc = to, ![w].got = @ \union read]
  BY DEF ReadFeature
<1>4. PICK read \in OneOf(ValueAsOf(feature, f, job[w].cutoff)) :
          job' = [job EXCEPT ![w].pc = to, ![w].got = @ \union read]
  BY <1>3
<1> DEFINE j == [job[w] EXCEPT !.pc = to, !.got = @ \union read]
<1>5. job[w].cutoff \in Time /\ f \in Fixture
  BY <1>2 DEF Job
<1>6. ASSUME NEW v \in read PROVE v \in Value /\ PastValue(v) /\ v.asOf <= job[w].cutoff
  <2> DEFINE cutoff == job[w].cutoff
  <2>1. cutoff \in Time /\ f \in Fixture /\ read \in OneOf(ValueAsOf(feature, f, cutoff))
    BY <1>5
  <2> HIDE DEF cutoff
  <2>2. v \in Value /\ PastValue(v) /\ v.asOf <= cutoff
    BY <2>1, ReadIsPast
  <2>3. QED
    BY <2>2 DEF cutoff
<1>7. j \in Job
  BY <1>2, <1>6 DEF Job, PC
<1>8. job[w].pc = from /\ from \in Reading
  BY DEF ReadFeature, Reading
<1>9. GoodJob(j)
  BY <1>2, <1>6, <1>8 DEF GoodJob, Job
<1>10. job' = [job EXCEPT ![w] = j]
  BY <1>4
<1>11. QED
  BY <1>1, <1>7, <1>9, <1>10, LocalStep DEF ReadFeature

(* What is recorded is what was read as of the cutoff.                     *)
LEMMA RecordStep ==
    ASSUME IInv, NEW w \in Worker, RecordPrediction(w)
    PROVE  IInv'
<1>1. w \in Session
  BY DEF Session
<1>2. job[w] \in Job /\ GoodJob(job[w]) /\ job[w].pc = "record"
  BY <1>1, JobFields DEF RecordPrediction
<1>3. PICK f \in job[w].of :
          served' = served \union {[by |-> job[w].op, of |-> f, cutoff |-> job[w].cutoff,
                                    snapshot |-> job[w].got]}
  BY DEF RecordPrediction
<1> DEFINE p == [by |-> job[w].op, of |-> f, cutoff |-> job[w].cutoff, snapshot |-> job[w].got]
<1>4. job' \in [Session -> Job] /\ Jobs'
  BY <1>1, DoneStep DEF RecordPrediction
<1>5. /\ job[w].op \in {"sweep", "request"}
      /\ \A v \in job[w].got : PastValue(v) /\ v.asOf <= job[w].cutoff
      /\ job[w].op = "sweep" => job[w].cutoff < Kickoff[f]
  BY <1>2 DEF GoodJob, Reading
<1>6. f \in Fixture /\ p \in Served
  BY <1>2, <1>5 DEF Job, Served
<1>7. ASSUME NEW v \in p.snapshot, NEW g \in v.seen
      PROVE  Kickoff[g] < p.cutoff /\ (p.by = "sweep" => Kickoff[g] < Kickoff[p.of])
  <2>1. v \in Value /\ g \in Fixture
    BY <1>2, <1>7 DEF Job, Value
  <2>2. Kickoff[g] \in Int /\ v.asOf \in Int /\ job[w].cutoff \in Int /\ Kickoff[f] \in Int
    BY <1>2, <1>6, <2>1, KickoffAssumption, BoundAssumption DEF Time, Value, Job
  <2>3. Kickoff[g] < v.asOf /\ v.asOf <= job[w].cutoff
    BY <1>5, <1>7 DEF PastValue
  <2>4. QED
    BY <1>5, <2>2, <2>3
<1>8. UNCHANGED <<clock, recorded, values, anchors, contested>>
  BY DEF RecordPrediction
<1>9. TypeOK'
  BY <1>3, <1>4, <1>6, <1>8 DEF IInv, TypeOK
<1>10. PredictionsSeeThePast'
  BY <1>3, <1>7 DEF IInv, PredictionsSeeThePast
<1>11. Values' /\ AnchorsArePreMatch'
  BY <1>8 DEF IInv, Values, AnchorsArePreMatch
<1>12. QED
  BY <1>4, <1>9, <1>10, <1>11 DEF IInv

(* Time passes.                                                            *)
LEMMA TickStep == IInv /\ Tick => IInv'
<1> SUFFICES ASSUME IInv, Tick PROVE IInv'
  OBVIOUS
<1>1. clock' \in Time
  BY BoundAssumption DEF Tick, IInv, TypeOK, Time
<1>2. TypeOK'
  BY <1>1 DEF Tick, IInv, TypeOK
<1>3. Values' /\ PredictionsSeeThePast' /\ AnchorsArePreMatch' /\ Jobs'
  BY DEF Tick, IInv, Values, PredictionsSeeThePast, AnchorsArePreMatch, Jobs
<1>4. QED
  BY <1>2, <1>3 DEF IInv

(* A match is imported, with a value as of its kick-off.                   *)
LEMMA ImportStep ==
    ASSUME IInv, NEW f \in Fixture, Import(f)
    PROVE  IInv'
<1> DEFINE seen == {g \in recorded' : Kickoff[g] < Kickoff[f]}
           new == {v \in [feature : {"strength"}, of : {f}, asOf : {Kickoff[f]}, seen : {seen}] :
                      v.seen # {}}
<1>1. recorded' = recorded \union {f} /\ values' = values \union new
      /\ UNCHANGED <<clock, served, anchors, job, contested>>
  BY DEF Import
<1>2. recorded' \in SUBSET Fixture /\ Kickoff[f] \in Time
  BY <1>1, KickoffAssumption DEF IInv, TypeOK
<1>3. \A v \in new : v \in Value /\ PastValue(v)
  BY <1>2 DEF Value, Feature, PastValue
<1>4. TypeOK'
  BY <1>1, <1>2, <1>3 DEF IInv, TypeOK
<1>5. Values'
  BY <1>1, <1>3 DEF IInv, Values
<1>6. PredictionsSeeThePast' /\ AnchorsArePreMatch' /\ Jobs'
  BY <1>1 DEF IInv, PredictionsSeeThePast, AnchorsArePreMatch, Jobs
<1>7. QED
  BY <1>4, <1>5, <1>6 DEF IInv

-----------------------------------------------------------------------------
(* The steps of a task started by hand. *)

(* A backfill lists completed fixtures.                                    *)
LEMMA StartBackfillStep ==
    ASSUME IInv, NEW r \in Session, NEW feature \in Feature, NEW force \in BOOLEAN,
           StartBackfill(r, feature, force)
    PROVE  IInv'
<1> DEFINE todo == recorded \ (IF force THEN {} ELSE Covered(feature))
<1>1. /\ Begin(r, feature, "rows", todo, clock, {})
      /\ UNCHANGED <<clock, recorded, values, served, anchors, contested>>
  BY DEF StartBackfill
<1>2. todo \in SUBSET Fixture /\ {} \in SUBSET values
  BY DEF IInv, TypeOK
<1>3. feature \in Op /\ feature # "sweep" /\ feature # "anchors"
  BY DEF Feature, Op
<1>4. "rows" \in PC /\ "rows" \notin Reading
  BY DEF PC, Reading
<1> HIDE DEF todo
<1>5. QED
  BY <1>1, <1>2, <1>3, <1>4, BeginStep

(* A refresh lists the anchors' fixtures.                                  *)
LEMMA StartRefreshStep ==
    ASSUME IInv, NEW r \in Session, StartRefresh(r)
    PROVE  IInv'
<1>1. Anchored \in SUBSET Fixture /\ {} \in SUBSET values
  BY DEF IInv, TypeOK, Anchored, Anchor
<1>2. "refresh" \in Op /\ "rows" \in PC /\ "rows" \notin Reading
  BY DEF Op, PC, Reading
<1>3. QED
  BY <1>1, <1>2, BeginStep DEF StartRefresh

(* The goals listed are of the kick-off of the fixture they are of.        *)
LEMMA StartAnchorsStep ==
    ASSUME IInv, NEW r \in Session, StartAnchors(r)
    PROVE  IInv'
<1>1. PICK got \in SUBSET values :
          /\ \A f \in recorded :  f \notin Anchored =>
                 {v \in got : v.of = f} \in OneOf(ValueAsOf("goals", f, Kickoff[f]))
          /\ {v.of : v \in got} \subseteq recorded \ Anchored
          /\ Begin(r, "anchors", "rows", recorded \ Anchored, clock, got)
  BY DEF StartAnchors, List
<1> DEFINE todo == recorded \ Anchored
<1>2. todo \in SUBSET Fixture
  BY DEF IInv, TypeOK
<1>3. ASSUME NEW v \in got PROVE v.asOf <= Kickoff[v.of]
  <2> DEFINE f == v.of
             read == {u \in got : u.of = f}
             cutoff == Kickoff[f]
  <2>1. f \in recorded /\ f \notin Anchored /\ v \in read
    BY <1>1
  <2>2. read \in OneOf(ValueAsOf("goals", f, cutoff))
    BY <1>1, <2>1
  <2>3. cutoff \in Time /\ f \in Fixture /\ "goals" \in Feature
    BY <1>2, <2>1, KickoffAssumption DEF Feature
  <2>4. v.asOf <= cutoff
    <3> HIDE DEF cutoff, read, f
    <3>1. QED
      BY <2>1, <2>2, <2>3, ReadIsPast
  <2>5. QED
    BY <2>4
<1>4. "anchors" \in Op /\ "rows" \in PC /\ "rows" \notin Reading
  BY DEF Op, PC, Reading
<1>5. Begin(r, "anchors", "rows", todo, clock, got)
      /\ UNCHANGED <<clock, recorded, values, served, anchors>>
      /\ contested' \in SUBSET Fixture
  BY <1>1, <1>2 DEF StartAnchors, List, IInv, TypeOK
<1> HIDE DEF todo
<1>6. QED
  BY <1>1, <1>2, <1>3, <1>4, <1>5, BeginStep

(* A backfill works off a row: a value as of the kick-off.                 *)
LEMMA BackfillRowStep ==
    ASSUME IInv, NEW r \in Session, NEW f \in Fixture, BackfillRow(r, f)
    PROVE  IInv'
<1>1. job[r] \in Job /\ GoodJob(job[r])
  BY JobFields
<1>2. job[r].pc = "rows" /\ job[r].op \in Feature
  BY DEF BackfillRow
<1> DEFINE new == Computed(job[r].op, f, Kickoff[f])
           j == [job[r] EXCEPT !.of = @ \ {f}, !.got = @ \union new]
<1>3. ASSUME NEW v \in new PROVE v \in Value /\ PastValue(v)
  <2> DEFINE feature == job[r].op
             cutoff == Kickoff[f]
  <2>1. feature \in Feature /\ cutoff \in Time /\ v \in Computed(feature, f, cutoff)
    BY <1>2, KickoffAssumption
  <2> HIDE DEF feature, cutoff
  <2>2. QED
    BY <2>1, ComputedIsPast
<1>4. j \in Job
  BY <1>1, <1>3 DEF Job
<1>5. GoodJob(j)
  BY <1>1, <1>2, <1>3 DEF GoodJob, Job, Feature, Reading
<1>6. job' = [job EXCEPT ![r] = j] /\ UNCHANGED <<clock, recorded, values, served, anchors, contested>>
  BY DEF BackfillRow
<1>7. QED
  BY <1>4, <1>5, <1>6, LocalStep

(* An anchor is written with the goals that were listed for its fixture.   *)
LEMMA AnchorRowStep ==
    ASSUME IInv, NEW r \in Session, NEW f \in Fixture, AnchorRow(r, f)
    PROVE  IInv'
<1>1. job[r] \in Job /\ GoodJob(job[r])
  BY JobFields
<1> DEFINE goals == {v \in job[r].got : v.of = f}
           ids == {i \in FreshAnchorIds : \A k \in FreshAnchorIds : i <= k}
           New == {[id |-> id, of |-> f, snapshot |-> goals] : id \in ids}
           rows == IF goals = {} THEN job[r].rows ELSE job[r].rows \union New
           j == [job[r] EXCEPT !.of = @ \ {f}, !.rows = rows]
<1>2. job[r].pc = "rows" /\ job[r].op = "anchors"
      /\ job' = [job EXCEPT ![r] = j] /\ UNCHANGED <<clock, recorded, values, served, anchors, contested>>
  BY DEF AnchorRow
<1>3. goals \in SUBSET Value /\ \A v \in goals : PastValue(v) /\ v.asOf <= Kickoff[f]
  BY <1>1, <1>2 DEF Job, GoodJob
<1>4. \A v \in goals : \A g \in v.seen : Kickoff[g] < Kickoff[f]
  <2> SUFFICES ASSUME NEW v \in goals, NEW g \in v.seen PROVE Kickoff[g] < Kickoff[f]
    OBVIOUS
  <2>1. g \in Fixture /\ v.asOf \in Int /\ Kickoff[g] \in Int /\ Kickoff[f] \in Int
    BY <1>3, KickoffAssumption, BoundAssumption DEF Value, Time
  <2>2. Kickoff[g] < v.asOf /\ v.asOf <= Kickoff[f]
    BY <1>3 DEF PastValue
  <2>3. QED
    BY <2>1, <2>2
<1>5. \A a \in New : a \in Anchor /\ PreMatch(a)
  <2>1. ids \subseteq AnchorId
    BY DEF FreshAnchorIds
  <2> HIDE DEF goals, ids
  <2>2. QED
    BY <1>3, <1>4, <2>1 DEF Anchor, PreMatch
<1>6. \A a \in rows : a \in Anchor /\ PreMatch(a)
  <2> HIDE DEF goals, New
  <2>1. QED
    BY <1>1, <1>5 DEF Job, GoodJob
<1> HIDE DEF rows
<1>7. j \in Job
  BY <1>1, <1>6 DEF Job
<1>8. GoodJob(j)
  BY <1>1, <1>2, <1>6 DEF GoodJob, Job, Reading
<1>9. QED
  BY <1>2, <1>7, <1>8, LocalStep

(* An anchor's snapshot is given a strength as of the kick-off.            *)
LEMMA RefreshRowStep ==
    ASSUME IInv, NEW r \in Session, NEW f \in Fixture, RefreshRow(r, f)
    PROVE  IInv'
<1>1. job[r] \in Job /\ GoodJob(job[r])
  BY JobFields
<1>2. PICK read \in OneOf(ValueAsOf("strength", f, Kickoff[f])) :
          job' = [job EXCEPT ![r].of = @ \ {f},
                     ![r].rows = @ \union {[a EXCEPT !.snapshot = Merged(@, read)] :
                                           a \in {b \in anchors : b.of = f}}]
  BY DEF RefreshRow
<1> DEFINE New == {[a EXCEPT !.snapshot = Merged(@, read)] : a \in {b \in anchors : b.of = f}}
           j == [job[r] EXCEPT !.of = @ \ {f}, !.rows = @ \union New]
<1>3. ASSUME NEW v \in read
      PROVE  v \in Value /\ \A g \in v.seen : Kickoff[g] < Kickoff[f]
  <2> DEFINE cutoff == Kickoff[f]
  <2>1. cutoff \in Time /\ read \in OneOf(ValueAsOf("strength", f, cutoff)) /\ "strength" \in Feature
    BY KickoffAssumption DEF Feature
  <2> HIDE DEF cutoff
  <2>2. v \in Value /\ PastValue(v) /\ v.asOf <= cutoff
    BY <2>1, ReadIsPast
  <2>3. ASSUME NEW g \in v.seen PROVE Kickoff[g] < cutoff
    <3>1. g \in Fixture /\ v.asOf \in Int /\ Kickoff[g] \in Int /\ cutoff \in Int
      BY <2>1, <2>2, KickoffAssumption, BoundAssumption DEF Value, Time
    <3>2. QED
      BY <2>2, <3>1 DEF PastValue
  <2>4. QED
    BY <2>2, <2>3 DEF cutoff
<1>4. ASSUME NEW a \in anchors, a.of = f
      PROVE  LET b == [a EXCEPT !.snapshot = Merged(@, read)]
             IN  b \in Anchor /\ PreMatch(b)
  <2>1. a \in Anchor /\ PreMatch(a)
    BY DEF IInv, TypeOK, AnchorsArePreMatch, PreMatch
  <2>2. \A v \in Merged(a.snapshot, read) : v \in a.snapshot \/ v \in read
    BY DEF Merged
  <2>3. Merged(a.snapshot, read) \in SUBSET Value
    BY <1>3, <2>1, <2>2 DEF Anchor
  <2>4. \A v \in Merged(a.snapshot, read) : \A g \in v.seen : Kickoff[g] < Kickoff[f]
    BY <1>3, <1>4, <2>1, <2>2 DEF PreMatch
  <2>5. QED
    BY <1>4, <2>1, <2>3, <2>4 DEF Anchor, PreMatch
<1>5. \A a \in New : a \in Anchor /\ PreMatch(a)
  BY <1>4
<1>6. job[r].pc = "rows" /\ job[r].op = "refresh"
      /\ UNCHANGED <<clock, recorded, values, served, anchors, contested>>
  BY DEF RefreshRow
<1>7. job' = [job EXCEPT ![r] = j]
  BY <1>2
<1> HIDE DEF New
<1>8. j \in Job
  BY <1>1, <1>5 DEF Job
<1>9. GoodJob(j)
  BY <1>1, <1>5, <1>6 DEF GoodJob, Job, Reading
<1>10. QED
  BY <1>6, <1>7, <1>8, <1>9, LocalStep

(* A batch is committed: values of the past, anchors that are pre-match.   *)
LEMMA CommitStep ==
    ASSUME IInv, NEW r \in Session, Commit(r)
    PROVE  IInv'
<1>1. job[r] \in Job /\ GoodJob(job[r]) /\ job[r].pc = "rows"
  BY JobFields DEF Commit
<1>2. UNCHANGED <<clock, recorded, served, contested>>
  BY DEF Commit
<1>3. \A v \in values' : v \in Value /\ PastValue(v)
  BY <1>1 DEF Commit, IInv, TypeOK, Values, GoodJob, Job
<1>4. \A a \in anchors' : a \in Anchor /\ PreMatch(a)
  BY <1>1 DEF Commit, IInv, TypeOK, AnchorsArePreMatch, PreMatch, GoodJob, Job
<1>5. job' \in [Session -> Job] /\ Jobs'
  <2>1. CASE job[r].of = {}
    BY <2>1, DoneStep DEF Commit
  <2>2. CASE job[r].of # {}
    <3> DEFINE got == IF job[r].op \in Feature THEN {} ELSE job[r].got
               j == [job[r] EXCEPT !.rows = {}, !.got = got]
    <3>1. job' = [job EXCEPT ![r] = j]
      BY <2>2 DEF Commit
    <3>2. j \in Job
      BY <1>1 DEF Job
    <3>3. GoodJob(j)
      BY <1>1 DEF GoodJob, Job, Reading
    <3>4. QED
      BY <3>1, <3>2, <3>3, JobStep
  <2>3. QED
    BY <2>1, <2>2
<1>6. TypeOK'
  BY <1>2, <1>3, <1>4, <1>5 DEF IInv, TypeOK
<1>7. Values' /\ AnchorsArePreMatch'
  BY <1>3, <1>4 DEF Values, AnchorsArePreMatch, PreMatch
<1>8. PredictionsSeeThePast'
  BY <1>2 DEF IInv, PredictionsSeeThePast
<1>9. QED
  BY <1>5, <1>6, <1>7, <1>8 DEF IInv

(* Every step keeps the invariant.                                         *)
LEMMA NextIInv == IInv /\ [Next]_vars => IInv'
<1> SUFFICES ASSUME IInv, [Next]_vars PROVE IInv'
  OBVIOUS
<1>1. CASE UNCHANGED vars
  BY <1>1 DEF vars, IInv, TypeOK, Values, PredictionsSeeThePast, AnchorsArePreMatch, Jobs
<1>2. CASE Tick
  BY <1>2, TickStep
<1>3. ASSUME NEW f \in Fixture, Import(f) PROVE IInv'
  BY <1>3, ImportStep
<1>4. ASSUME NEW s \in Session, Abort(s) PROVE IInv'
  BY <1>4, IdleIsGood, LocalStep DEF Abort, Done
<1>5. ASSUME NEW w \in Worker, Work(w) PROVE IInv'
  <2>1. w \in Session
    BY DEF Session
  <2>2. ASSUME NEW f \in Fixture, StartSync(w, f) \/ StartSweep(w, f) \/ StartRequest(w, f)
        PROVE  IInv'
    BY <2>1, <2>2, StartSteps
  <2>3. CASE SaveFixture(w) \/ ComputeStrength(w) \/ WriteStrength(w)
    BY <2>3, SyncSteps
  <2>4. CASE \/ ReadFeature(w, "strength", "read strength", "read goals")
             \/ ReadFeature(w, "goals", "read goals", "record")
    BY <2>4, ReadStep DEF Feature
  <2>5. CASE RecordPrediction(w)
    BY <2>5, RecordStep
  <2>6. QED
    BY <1>5, <2>2, <2>3, <2>4, <2>5 DEF Work
<1>6. ASSUME NEW r \in Maintainer, Maintain(r) PROVE IInv'
  <2>1. r \in Session
    BY DEF Session
  <2>2. ASSUME NEW feature \in Feature, NEW force \in BOOLEAN, StartBackfill(r, feature, force)
        PROVE  IInv'
    BY <2>1, <2>2, StartBackfillStep
  <2>3. CASE StartRefresh(r)
    BY <2>1, <2>3, StartRefreshStep
  <2>4. CASE StartAnchors(r)
    BY <2>1, <2>4, StartAnchorsStep
  <2>5. CASE Commit(r)
    BY <2>1, <2>5, CommitStep
  <2>6. ASSUME NEW f \in Fixture, BackfillRow(r, f) \/ AnchorRow(r, f) \/ RefreshRow(r, f)
        PROVE  IInv'
    BY <2>1, <2>6, BackfillRowStep, AnchorRowStep, RefreshRowStep
  <2>7. QED
    BY <1>6, <2>2, <2>3, <2>4, <2>5, <2>6 DEF Maintain
<1>7. QED
  BY <1>1, <1>2, <1>3, <1>4, <1>5, <1>6 DEF Next

(* The invariant holds in every behaviour. *)
LEMMA Inductive == Spec => []IInv
<1>1. QED
  BY InitIInv, NextIInv, PTL DEF Spec

-----------------------------------------------------------------------------
(* Every variable always has its type. *)
THEOREM TypeCorrect == Spec => []TypeOK
<1>1. IInv => TypeOK
  BY DEF IInv
<1>2. QED
  BY <1>1, Inductive, PTL

(* However late a prediction reads its features, and whoever writes them    *)
(* meanwhile, they are of matches that kicked off before its cutoff, and    *)
(* for one of the sweep before the match itself.                            *)
THEOREM NoLookAhead == Spec => []PredictionsSeeThePast
<1>1. IInv => PredictionsSeeThePast
  BY DEF IInv
<1>2. QED
  BY <1>1, Inductive, PTL

(* No training anchor ever holds a value that saw its own match or one that *)
(* kicked off later, for any number of syncs, imports, backfills and        *)
(* refreshes at once.                                                       *)
THEOREM NoTrainingLeak == Spec => []AnchorsArePreMatch
<1>1. IInv => AnchorsArePreMatch
  BY DEF IInv
<1>2. QED
  BY <1>1, Inductive, PTL

-----------------------------------------------------------------------------
(* Tasks that anchor fixtures, any number of them at once.                  *)

(* Tasks under way: only they hold anchors, one for each fixture they have  *)
(* worked off. New anchors are for fixtures that have none, unless they are *)
(* contested, and refreshed ones stand for anchors that exist.              *)
AnchorJob(s, j) ==
    /\ j.op \notin {"anchors", "refresh"} => j.rows = {}
    /\ j.op \in {"anchors", "refresh"} => s \in Maintainer /\ j.pc = "rows"
    /\ \A a, b \in j.rows : /\ a.of = b.of => a = b \/ a.of \in contested
                            /\ a.id = b.id => a = b
    /\ \A a \in j.rows : a.of \notin j.of
    /\ j.op = "anchors" =>
           /\ \A a \in anchors : a.of \in j.of => a.of \in contested
           /\ \A a \in j.rows, b \in anchors :
                  a.id # b.id /\ (a.of = b.of => a.of \in contested)
    /\ j.op = "refresh" => \A a \in j.rows : \E b \in anchors : b.id = a.id /\ b.of = a.of

(* Two anchors tasks have no fixtures in hand together but contested ones.  *)
Apart(j, k, fixtures) ==
    j.op = "anchors" /\ k.op = "anchors" =>
        /\ InHand(j) \intersect InHand(k) \subseteq fixtures
        /\ \A a \in j.rows, b \in k.rows : a.id # b.id

DistinctIds == \A a, b \in anchors : a.id = b.id => a = b

OnceInv == /\ IInv /\ AnchoredOnce /\ DistinctIds
           /\ \A s \in Session : AnchorJob(s, job[s])
           /\ \A s, t \in Session : s # t => Apart(job[s], job[t], contested)

(* A session that is not at a task holds no anchors.                        *)
LEMMA NoTask ==
    ASSUME NEW s, NEW j, j.op \notin {"anchors", "refresh"}, j.rows = {}
    PROVE  AnchorJob(s, j)
BY DEF AnchorJob

(* A step that writes no anchor, and leaves its own job in order and apart  *)
(* from the others.                                                         *)
LEMMA OnceLocal ==
    ASSUME OnceInv, IInv', NEW s \in Session, NEW j, AnchorJob(s, j),
           \A t \in Session \ {s} : Apart(j, job[t], contested'),
           job' = [job EXCEPT ![s] = j], anchors' = anchors, contested \subseteq contested'
    PROVE  OnceInv'
<1>1. job'[s] = j /\ \A t \in Session \ {s} : job'[t] = job[t]
  BY DEF OnceInv, IInv, TypeOK
<1>2. \A t \in Session : AnchorJob(t, job'[t])
  BY <1>1 DEF OnceInv
<1>3. \A t \in Session : AnchorJob(t, job[t])'
  BY <1>2 DEF AnchorJob
<1>4. AnchoredOnce' /\ DistinctIds'
  BY DEF OnceInv, AnchoredOnce, DistinctIds
<1>5. \A t, u \in Session : t # u => Apart(job'[t], job'[u], contested')
  <2> SUFFICES ASSUME NEW t \in Session, NEW u \in Session, t # u
               PROVE  Apart(job'[t], job'[u], contested')
    OBVIOUS
  <2>1. CASE t = s
    BY <1>1, <2>1
  <2>2. CASE u = s
    <3>1. Apart(j, job[t], contested')
      BY <2>2
    <3>2. Apart(job[t], j, contested')
      BY <3>1 DEF Apart
    <3>3. QED
      BY <1>1, <2>2, <3>2
  <2>3. CASE t # s /\ u # s
    <3>1. Apart(job[t], job[u], contested)
      BY DEF OnceInv
    <3>2. QED
      BY <1>1, <2>3, <3>1 DEF Apart
  <2>4. QED
    BY <2>1, <2>2, <2>3
<1>6. \A t, u \in Session : t # u => Apart(job[t], job[u], contested)'
  BY <1>5 DEF Apart, InHand
<1>7. QED
  BY <1>3, <1>4, <1>6 DEF OnceInv

(* A step of a session at anything but anchoring.                           *)
LEMMA OnceElse ==
    ASSUME OnceInv, IInv', NEW s \in Session, NEW j, AnchorJob(s, j), j.op # "anchors",
           job' = [job EXCEPT ![s] = j], UNCHANGED <<anchors, contested>>
    PROVE  OnceInv'
<1>1. \A t \in Session \ {s} : Apart(j, job[t], contested')
  BY DEF Apart
<1>2. QED
  BY <1>1, OnceLocal

(* A session that starts anything but a listing of fixtures to anchor.      *)
LEMMA OnceBegin ==
    ASSUME OnceInv, IInv', NEW s \in Session, NEW op, NEW pc, NEW fixtures, NEW got,
           Begin(s, op, pc, fixtures, clock, got), UNCHANGED <<anchors, contested>>,
           op # "anchors", op = "refresh" => s \in Maintainer /\ pc = "rows"
    PROVE  OnceInv'
<1> DEFINE j == [op |-> op, pc |-> pc, of |-> fixtures, cutoff |-> clock, got |-> got, rows |-> {}]
<1>1. job' = [job EXCEPT ![s] = j]
  BY DEF Begin
<1>2. j.op = op /\ j.pc = pc /\ j.rows = {}
  OBVIOUS
<1> HIDE DEF j
<1>3. AnchorJob(s, j)
  BY <1>2 DEF AnchorJob
<1>4. QED
  BY <1>1, <1>2, <1>3, OnceElse

(* A session that ends, whatever it has done.                               *)
LEMMA OnceDone ==
    ASSUME OnceInv, IInv', NEW s \in Session, Done(s), UNCHANGED <<anchors, contested>>
    PROVE  OnceInv'
<1>1. AnchorJob(s, IdleJob) /\ IdleJob.op # "anchors"
  BY NoTask DEF IdleJob
<1>2. QED
  BY <1>1, OnceElse DEF Done

(* A session that goes on with the same task and the same anchors.          *)
LEMMA OnceGoOn ==
    ASSUME OnceInv, IInv', NEW s \in Session, NEW j, job[s].op \notin {"anchors", "refresh"},
           j.op = job[s].op, j.rows = job[s].rows,
           job' = [job EXCEPT ![s] = j], UNCHANGED <<anchors, contested>>
    PROVE  OnceInv'
<1>1. job[s].rows = {}
  BY DEF OnceInv, AnchorJob
<1>2. AnchorJob(s, j)
  BY <1>1, NoTask
<1>3. QED
  BY <1>2, OnceElse

(* The workers' steps touch no anchor.                                      *)
LEMMA OnceWork ==
    ASSUME OnceInv, IInv', NEW w \in Worker, Work(w)
    PROVE  OnceInv'
<1>1. w \in Session /\ job[w] \in Job
  BY DEF Session, OnceInv, IInv, TypeOK
<1>2. ASSUME NEW f \in Fixture, StartSync(w, f) \/ StartSweep(w, f) \/ StartRequest(w, f)
      PROVE  OnceInv'
  <2>1. PICK op \in {"sync", "sweep", "request"}, pc \in {"save", "read strength"} :
           Begin(w, op, pc, {f}, clock, {}) /\ UNCHANGED <<anchors, contested>>
    BY <1>2 DEF StartSync, StartSweep, StartRequest
  <2>2. op # "anchors" /\ op # "refresh"
    OBVIOUS
  <2>3. QED
    BY <1>1, <2>1, <2>2, OnceBegin
<1>3. CASE WriteStrength(w) \/ RecordPrediction(w)
  BY <1>1, <1>3, OnceDone DEF WriteStrength, RecordPrediction
<1>4. ASSUME NEW pc, NEW got, job' = [job EXCEPT ![w] = [job[w] EXCEPT !.pc = pc, !.got = got]],
             UNCHANGED <<anchors, contested>>, job[w].pc # "rows"
      PROVE  OnceInv'
  <2> DEFINE j == [job[w] EXCEPT !.pc = pc, !.got = got]
  <2>1. j.op = job[w].op /\ j.rows = job[w].rows
    BY <1>1 DEF Job
  <2>2. job[w].op \notin {"anchors", "refresh"}
    BY <1>1, <1>4 DEF OnceInv, AnchorJob
  <2>3. job' = [job EXCEPT ![w] = j]
    BY <1>4
  <2> HIDE DEF j
  <2>4. QED
    BY <1>1, <1>4, <2>1, <2>2, <2>3, OnceGoOn
<1>5. CASE SaveFixture(w)
  <2>1. [job[w] EXCEPT !.pc = "compute"] = [job[w] EXCEPT !.pc = "compute", !.got = job[w].got]
    BY <1>1 DEF Job
  <2>2. /\ job' = [job EXCEPT ![w] = [job[w] EXCEPT !.pc = "compute", !.got = job[w].got]]
        /\ UNCHANGED <<anchors, contested>> /\ job[w].pc # "rows"
    BY <1>5, <2>1 DEF SaveFixture
  <2>3. QED
    BY <1>4, <2>2
<1>6. CASE ComputeStrength(w)
  <2> DEFINE got == UNION {Computed("strength", f, job[w].cutoff) : f \in job[w].of}
  <2>1. /\ job' = [job EXCEPT ![w] = [job[w] EXCEPT !.pc = "write", !.got = got]]
        /\ UNCHANGED <<anchors, contested>> /\ job[w].pc # "rows"
    BY <1>6 DEF ComputeStrength
  <2> HIDE DEF got
  <2>2. QED
    BY <1>4, <2>1
<1>7. ASSUME NEW feature \in Feature, NEW from \in {"read strength", "read goals"},
             NEW to \in {"read goals", "record"}, ReadFeature(w, feature, from, to)
      PROVE  OnceInv'
  <2>1. PICK f \in job[w].of : \E read \in OneOf(ValueAsOf(feature, f, job[w].cutoff)) :
          job' = [job EXCEPT ![w].pc = to, ![w].got = @ \union read]
    BY <1>7 DEF ReadFeature
  <2>2. PICK read \in OneOf(ValueAsOf(feature, f, job[w].cutoff)) :
          job' = [job EXCEPT ![w].pc = to, ![w].got = @ \union read]
    BY <2>1
  <2> DEFINE got == job[w].got \union read
  <2>3. /\ job' = [job EXCEPT ![w] = [job[w] EXCEPT !.pc = to, !.got = got]]
        /\ UNCHANGED <<anchors, contested>> /\ job[w].pc # "rows"
    BY <1>7, <2>2 DEF ReadFeature
  <2> HIDE DEF got
  <2>4. QED
    BY <1>4, <2>3
<1>8. QED
  BY <1>2, <1>3, <1>5, <1>6, <1>7 DEF Work, Feature

-----------------------------------------------------------------------------
(* The steps of the task under way.                                         *)

(* The listing: fixtures without an anchor.                                 *)
LEMMA OnceStartAnchors ==
    ASSUME OnceInv, IInv', NEW r \in Maintainer, StartAnchors(r)
    PROVE  OnceInv'
<1>1. PICK got : Begin(r, "anchors", "rows", recorded \ Anchored, clock, got)
  BY DEF StartAnchors, List
<1> DEFINE j == [op |-> "anchors", pc |-> "rows", of |-> recorded \ Anchored,
                 cutoff |-> clock, got |-> got, rows |-> {}]
<1>2. job' = [job EXCEPT ![r] = j]
  BY <1>1 DEF Begin
<1>3. j.op = "anchors" /\ j.pc = "rows" /\ j.rows = {} /\ j.of = recorded \ Anchored
  OBVIOUS
<1> HIDE DEF j
<1>4. AnchorJob(r, j)
  BY <1>3 DEF AnchorJob, Anchored
<1>5. /\ r \in Session /\ anchors' = anchors
      /\ contested' = contested \union {f \in recorded \ Anchored :
                                           \E s \in Session : f \in InHand(job[s])}
  BY DEF Session, StartAnchors, List
<1>6. \A t \in Session \ {r} : Apart(j, job[t], contested')
  BY <1>3, <1>5 DEF Apart, InHand
<1>7. QED
  BY <1>2, <1>4, <1>5, <1>6, OnceLocal

(* A fixture is worked off: its anchor has a new id, and it leaves the list.*)
LEMMA OnceAnchorRow ==
    ASSUME OnceInv, IInv', NEW r \in Maintainer, NEW f \in Fixture, AnchorRow(r, f)
    PROVE  OnceInv'
<1>0. r \in Session /\ job[r] \in Job /\ AnchorJob(r, job[r])
  BY DEF Session, OnceInv, IInv, TypeOK
<1> DEFINE goals == {v \in job[r].got : v.of = f}
           ids == {i \in FreshAnchorIds : \A k \in FreshAnchorIds : i <= k}
           New == {[id |-> id, of |-> f, snapshot |-> goals] : id \in ids}
           rows == IF goals = {} THEN job[r].rows ELSE job[r].rows \union New
           todo == job[r].of \ {f}
           j == [job[r] EXCEPT !.of = todo, !.rows = rows]
<1>1. /\ job[r].pc = "rows" /\ job[r].op = "anchors" /\ f \in job[r].of
      /\ job' = [job EXCEPT ![r] = j] /\ UNCHANGED <<anchors, contested>>
  BY DEF AnchorRow
<1>2. \A i, k \in ids : i = k
  <2>1. \A i \in FreshAnchorIds : i \in Int
    BY BoundAssumption DEF FreshAnchorIds, AnchorId
  <2>2. QED
    BY <2>1
<1>3. /\ \A i \in ids, a \in anchors : a.id # i
      /\ \A i \in ids, t \in Session : \A a \in job[t].rows : a.id # i
  BY <1>0 DEF FreshAnchorIds
<1> HIDE DEF goals, ids
<1>4. \A a \in New : a.of = f /\ a.id \in ids /\ a.snapshot = goals
  OBVIOUS
<1>5. \A a, b \in New : a = b
  BY <1>2
<1>6. \A a \in rows : a \in job[r].rows \/ a \in New
  OBVIOUS
<1>7. j.op = "anchors" /\ j.pc = "rows" /\ j.of = todo /\ j.rows = rows
  BY <1>0, <1>1 DEF Job
<1> HIDE DEF New, rows, j
<1>8. /\ \A a \in job[r].rows : a.of \notin job[r].of
      /\ \A a \in anchors : a.of \in job[r].of => a.of \in contested
      /\ \A a \in job[r].rows, b \in anchors : a.id # b.id /\ (a.of = b.of => a.of \in contested)
      /\ \A a, b \in job[r].rows : (a.of = b.of => a = b \/ a.of \in contested)
                                   /\ (a.id = b.id => a = b)
  BY <1>0, <1>1 DEF AnchorJob
<1>9. \A a, b \in rows : (a.of = b.of => a = b \/ a.of \in contested) /\ (a.id = b.id => a = b)
  BY <1>0, <1>1, <1>3, <1>4, <1>5, <1>6, <1>8
<1>10. \A a \in rows : a.of \notin todo
  BY <1>4, <1>6, <1>8
<1>11. \A a \in rows, b \in anchors : a.id # b.id /\ (a.of = b.of => a.of \in contested)
  BY <1>1, <1>3, <1>4, <1>6, <1>8
<1>12. \A a \in anchors : a.of \in todo => a.of \in contested
  BY <1>8
<1>13. AnchorJob(r, j)
  <2> HIDE DEF todo
  <2>1. QED
    BY <1>7, <1>9, <1>10, <1>11, <1>12 DEF AnchorJob
<1>14. ASSUME NEW t \in Session \ {r} PROVE Apart(j, job[t], contested')
  <2>1. Apart(job[r], job[t], contested)
    BY <1>0 DEF OnceInv
  <2>2. InHand(j) \subseteq InHand(job[r])
    BY <1>1, <1>4, <1>6, <1>7 DEF InHand
  <2>3. job[t].op = "anchors" => \A a \in rows, b \in job[t].rows : a.id # b.id
    BY <1>1, <1>3, <1>4, <1>6, <2>1 DEF Apart
  <2>4. QED
    BY <1>1, <1>7, <2>1, <2>2, <2>3 DEF Apart
<1>15. QED
  BY <1>0, <1>1, <1>13, <1>14, OnceLocal

(* A refresh works off a fixture: the one anchor it has.                    *)
LEMMA OnceRefreshRow ==
    ASSUME OnceInv, IInv', NEW r \in Maintainer, NEW f \in Fixture, RefreshRow(r, f)
    PROVE  OnceInv'
<1>0. r \in Session /\ job[r] \in Job /\ AnchorJob(r, job[r])
  BY DEF Session, OnceInv, IInv, TypeOK
<1>1. PICK read \in OneOf(ValueAsOf("strength", f, Kickoff[f])) :
          job' = [job EXCEPT ![r].of = @ \ {f},
                     ![r].rows = @ \union {[a EXCEPT !.snapshot = Merged(@, read)] :
                                           a \in {b \in anchors : b.of = f}}]
  BY DEF RefreshRow
<1> DEFINE New == {[a EXCEPT !.snapshot = Merged(@, read)] : a \in {b \in anchors : b.of = f}}
           rows == job[r].rows \union New
           todo == job[r].of \ {f}
           j == [job[r] EXCEPT !.of = todo, !.rows = rows]
<1>2. job' = [job EXCEPT ![r] = j]
  BY <1>1
<1>3. /\ job[r].pc = "rows" /\ job[r].op = "refresh" /\ f \in job[r].of
      /\ UNCHANGED <<anchors, contested>>
  BY DEF RefreshRow
<1>4. /\ \A a, b \in anchors : a.of = b.of => a = b \/ a.of \in contested
      /\ \A a, b \in anchors : a.id = b.id => a = b
  BY DEF OnceInv, AnchoredOnce, DistinctIds
<1>5. ASSUME NEW a \in New
      PROVE  \E b \in anchors : /\ b.of = f /\ a.of = f /\ a.id = b.id
                               /\ a = [b EXCEPT !.snapshot = Merged(@, read)]
  <2>1. PICK b \in anchors : b.of = f /\ a = [b EXCEPT !.snapshot = Merged(@, read)]
    OBVIOUS
  <2>2. b \in Anchor
    BY DEF OnceInv, IInv, TypeOK
  <2>3. a.of = b.of /\ a.id = b.id
    BY <2>1, <2>2 DEF Anchor
  <2>4. QED
    BY <2>1, <2>3
<1>6. \A a, b \in New : (a.of = b.of => a = b \/ a.of \in contested) /\ (a.id = b.id => a = b)
  BY <1>4, <1>5
<1>7. j.op = "refresh" /\ j.pc = "rows" /\ j.of = todo /\ j.rows = rows
  BY <1>0, <1>3 DEF Job
<1> HIDE DEF New, j
<1>8. /\ \A a \in job[r].rows : a.of \notin job[r].of
      /\ \A a, b \in job[r].rows : (a.of = b.of => a = b \/ a.of \in contested)
                                   /\ (a.id = b.id => a = b)
      /\ \A a \in job[r].rows : \E b \in anchors : b.id = a.id /\ b.of = a.of
  BY <1>0, <1>3 DEF AnchorJob
<1>9. \A a \in rows : \E b \in anchors : b.id = a.id /\ b.of = a.of
  BY <1>5, <1>8
<1>10. \A a \in rows : a.of \notin todo
  BY <1>5, <1>8
<1>11. \A a, b \in rows : a.id = b.id => a.of = b.of
  BY <1>4, <1>9
<1>12. \A a, b \in rows : (a.of = b.of => a = b \/ a.of \in contested) /\ (a.id = b.id => a = b)
  <2>1. \A a \in job[r].rows, b \in New : a.of # b.of
    BY <1>3, <1>5, <1>8
  <2>2. \A a \in rows : a \in job[r].rows \/ a \in New
    OBVIOUS
  <2> HIDE DEF rows
  <2>3. QED
    BY <1>6, <1>8, <1>11, <2>1, <2>2
<1> HIDE DEF rows, todo
<1>13. AnchorJob(r, j)
  BY <1>0, <1>3, <1>7, <1>9, <1>10, <1>12 DEF AnchorJob
<1>14. QED
  BY <1>0, <1>2, <1>3, <1>7, <1>13, OnceElse

(* A batch is committed: new anchors stand beside those there are, and      *)
(* refreshed ones replace theirs.                                           *)
LEMMA OnceCommit ==
    ASSUME OnceInv, IInv', NEW r \in Maintainer, Commit(r)
    PROVE  OnceInv'
<1>0. r \in Session /\ job[r] \in Job /\ AnchorJob(r, job[r]) /\ job[r].pc = "rows"
  BY DEF Session, OnceInv, IInv, TypeOK, Commit
<1> DEFINE rows == job[r].rows
           rest == {a \in anchors : \A b \in rows : b.id # a.id}
<1>1. anchors' = rows \union rest /\ contested' = contested
  BY DEF Commit
<1>2. \A a, b \in rows : (a.of = b.of => a = b \/ a.of \in contested) /\ (a.id = b.id => a = b)
  BY <1>0 DEF AnchorJob
<1>3. \A a, b \in anchors : (a.of = b.of => a = b \/ a.of \in contested) /\ (a.id = b.id => a = b)
  BY DEF OnceInv, AnchoredOnce, DistinctIds
<1>4. \A a \in rows, b \in rest : a.id # b.id
  OBVIOUS
<1>5. \A a \in rows, b \in rest : a.of = b.of => a.of \in contested
  <2> SUFFICES ASSUME NEW a \in rows, NEW b \in rest, a.of = b.of PROVE a.of \in contested
    OBVIOUS
  <2>1. CASE job[r].op = "anchors"
    BY <1>0, <2>1 DEF AnchorJob
  <2>2. CASE job[r].op = "refresh"
    <3>1. PICK c \in anchors : c.id = a.id /\ c.of = a.of
      BY <1>0, <2>2 DEF AnchorJob
    <3>2. c # b
      BY <3>1
    <3>3. QED
      BY <1>3, <3>1, <3>2
  <2>3. CASE job[r].op \notin {"anchors", "refresh"}
    BY <1>0, <2>3 DEF AnchorJob
  <2>4. QED
    BY <2>1, <2>2, <2>3
<1>6. AnchoredOnce' /\ DistinctIds'
  <2>1. \A a \in rest : a \in anchors
    OBVIOUS
  <2> HIDE DEF rows, rest
  <2>2. \A a, b \in anchors' : (a.of = b.of => a = b \/ a.of \in contested) /\ (a.id = b.id => a = b)
    BY <1>1, <1>2, <1>3, <1>4, <1>5, <2>1
  <2>3. QED
    BY <1>1, <2>2 DEF AnchoredOnce, DistinctIds
<1>7. \A t \in Session \ {r} : job'[t] = job[t]
  BY <1>0 DEF Commit, Done, IInv, OnceInv, TypeOK
<1>8. /\ job'[r].rows = {}
      /\ InHand(job'[r]) \subseteq InHand(job[r])
      /\ \/ /\ job'[r].op = job[r].op
            /\ job'[r].of = job[r].of
            /\ job'[r].pc = "rows"
         \/ job'[r].op = "none"
  <2>1. CASE job[r].of = {}
    <3>1. job' = [job EXCEPT ![r] = IdleJob]
      BY <2>1 DEF Commit, Done
    <3>2. job'[r] = IdleJob
      BY <1>0, <3>1 DEF OnceInv, IInv, TypeOK
    <3>3. QED
      BY <3>2 DEF IdleJob, InHand
  <2>2. CASE job[r].of # {}
    <3> DEFINE got == IF job[r].op \in Feature THEN {} ELSE job[r].got
               j == [job[r] EXCEPT !.rows = {}, !.got = got]
    <3>1. job' = [job EXCEPT ![r] = j]
      BY <2>2 DEF Commit
    <3>2. j.op = job[r].op /\ j.pc = "rows" /\ j.of = job[r].of /\ j.rows = {}
      BY <1>0 DEF Job
    <3> HIDE DEF j
    <3>3. job'[r] = j
      BY <1>0, <3>1 DEF OnceInv, IInv, TypeOK
    <3>4. QED
      BY <3>2, <3>3 DEF InHand
  <2>3. QED
    BY <2>1, <2>2
<1>9. AnchorJob(r, job[r])'
  <2>1. job[r].op \in {"anchors", "refresh"} => r \in Maintainer
    OBVIOUS
  <2>2. job[r].op = "anchors" => \A a \in anchors' : a.of \in job[r].of => a.of \in contested
    BY <1>0, <1>1 DEF AnchorJob
  <2>3. (\A a \in job'[r].rows : FALSE) /\ contested' = contested
    BY <1>1, <1>8
  <2>4. CASE job'[r].op = "none"
    BY <2>3, <2>4 DEF AnchorJob
  <2>5. CASE job'[r].op = job[r].op /\ job'[r].of = job[r].of /\ job'[r].pc = "rows"
    BY <1>0, <1>8, <2>1, <2>2, <2>3, <2>5 DEF AnchorJob
  <2>6. QED
    BY <1>8, <2>4, <2>5
<1>10. ASSUME NEW t \in Session \ {r} PROVE AnchorJob(t, job[t])'
  <2>1. AnchorJob(t, job[t]) /\ Apart(job[r], job[t], contested)
    BY <1>0 DEF OnceInv
  <2>2. CASE job[t].op = "anchors"
    <3>1. ASSUME NEW a \in rows
          PROVE  /\ a.of \in InHand(job[t]) => a.of \in contested
                 /\ \A b \in job[t].rows : b.id # a.id
      <4>1. CASE job[r].op = "anchors"
        <5>1. a \in job[r].rows /\ InHand(job[r]) \intersect InHand(job[t]) \subseteq contested
              /\ \A c \in job[r].rows, b \in job[t].rows : c.id # b.id
          BY <2>1, <2>2, <4>1 DEF Apart
        <5>2. a.of \in InHand(job[r])
          BY <4>1, <5>1 DEF InHand
        <5>3. QED
          BY <5>1, <5>2
      <4>2. CASE job[r].op = "refresh"
        <5>1. PICK c \in anchors : c.id = a.id /\ c.of = a.of
          BY <1>0, <4>2 DEF AnchorJob
        <5>2. QED
          BY <2>1, <2>2, <5>1 DEF AnchorJob, InHand
      <4>3. CASE job[r].op \notin {"anchors", "refresh"}
        BY <1>0, <4>3 DEF AnchorJob
      <4>4. QED
        BY <4>1, <4>2, <4>3
    <3>2. InHand(job[t]) = job[t].of \union {a.of : a \in job[t].rows}
      BY <2>2 DEF InHand
    <3>3. \A a \in rest : a \in anchors
      OBVIOUS
    <3> HIDE DEF rows, rest
    <3>4. /\ \A a \in anchors' : a.of \in job[t].of => a.of \in contested
          /\ \A b \in job[t].rows, a \in anchors' :
                b.id # a.id /\ (b.of = a.of => b.of \in contested)
      BY <1>1, <2>1, <2>2, <3>1, <3>2, <3>3 DEF AnchorJob
    <3>5. QED
      BY <1>1, <1>7, <2>1, <2>2, <3>4 DEF AnchorJob
  <2>3. CASE job[t].op = "refresh"
    <3>1. ASSUME NEW a \in job[t].rows
          PROVE  \E b \in anchors' : b.id = a.id /\ b.of = a.of
      <4>1. PICK b \in anchors : b.id = a.id /\ b.of = a.of
        BY <2>1, <2>3 DEF AnchorJob
      <4>2. CASE b \in rest
        BY <1>1, <4>1, <4>2
      <4>3. CASE b \notin rest
        <5>1. PICK c \in rows : c.id = b.id
          BY <4>3
        <5>2. job[r].op = "refresh"
          BY <1>0, <5>1 DEF AnchorJob
        <5>3. PICK d \in anchors : d.id = c.id /\ d.of = c.of
          BY <1>0, <5>2 DEF AnchorJob
        <5>4. d = b
          BY <1>3, <5>1, <5>3
        <5>5. QED
          BY <1>1, <4>1, <5>1, <5>3, <5>4
      <4>4. QED
        BY <4>2, <4>3
    <3>2. QED
      BY <1>1, <1>7, <2>1, <2>3, <3>1 DEF AnchorJob
  <2>4. CASE job[t].op \notin {"anchors", "refresh"}
    BY <1>1, <1>7, <2>1, <2>4 DEF AnchorJob
  <2>5. QED
    BY <2>2, <2>3, <2>4
<1>11. \A t, u \in Session : t # u => Apart(job'[t], job'[u], contested')
  <2> SUFFICES ASSUME NEW t \in Session, NEW u \in Session, t # u
               PROVE  Apart(job'[t], job'[u], contested')
    OBVIOUS
  <2>1. Apart(job[t], job[u], contested)
    BY DEF OnceInv
  <2>2. ASSUME NEW v \in Session
        PROVE  /\ InHand(job'[v]) \subseteq InHand(job[v])
               /\ job'[v].op = "anchors" => job[v].op = "anchors"
               /\ job'[v].rows \subseteq job[v].rows
    BY <1>7, <1>8
  <2>3. QED
    BY <1>1, <2>1, <2>2 DEF Apart
<1>12. \A t, u \in Session : t # u => Apart(job[t], job[u], contested)'
  BY <1>11 DEF Apart, InHand
<1>13. QED
  BY <1>6, <1>9, <1>10, <1>12 DEF OnceInv

(* Every step keeps fixtures anchored once.                                 *)
LEMMA NextOnce == OnceInv /\ [Next]_vars => OnceInv'
<1> SUFFICES ASSUME OnceInv, [Next]_vars PROVE OnceInv'
  OBVIOUS
<1>0. IInv'
  BY NextIInv DEF OnceInv
<1>1. CASE UNCHANGED <<anchors, job, contested>>
  <2>1. AnchoredOnce' /\ DistinctIds'
    BY <1>1 DEF OnceInv, AnchoredOnce, DistinctIds
  <2>2. \A s \in Session : AnchorJob(s, job[s])'
    BY <1>1 DEF OnceInv, AnchorJob
  <2>3. \A s, t \in Session : s # t => Apart(job[s], job[t], contested)'
    BY <1>1 DEF OnceInv, Apart, InHand
  <2>4. QED
    BY <1>0, <2>1, <2>2, <2>3 DEF OnceInv
<1>2. ASSUME NEW s \in Session, Abort(s) PROVE OnceInv'
  BY <1>0, <1>2, OnceDone DEF Abort
<1>3. ASSUME NEW w \in Worker, Work(w) PROVE OnceInv'
  BY <1>0, <1>3, OnceWork
<1>4. ASSUME NEW r \in Maintainer, Maintain(r) PROVE OnceInv'
  <2>0. r \in Session /\ job[r] \in Job
    BY DEF Session, OnceInv, IInv, TypeOK
  <2>1. ASSUME NEW feature \in Feature, NEW force \in BOOLEAN, StartBackfill(r, feature, force)
        PROVE  OnceInv'
    <3>1. PICK fixtures : Begin(r, feature, "rows", fixtures, clock, {})
      BY <2>1 DEF StartBackfill
    <3>2. feature # "anchors" /\ feature # "refresh" /\ UNCHANGED <<anchors, contested>>
      BY <2>1 DEF Feature, StartBackfill
    <3>3. QED
      BY <1>0, <2>0, <3>1, <3>2, OnceBegin
  <2>2. CASE StartRefresh(r)
    <3>1. Begin(r, "refresh", "rows", Anchored, clock, {}) /\ UNCHANGED <<anchors, contested>>
      BY <2>2 DEF StartRefresh
    <3>2. QED
      BY <1>0, <2>0, <3>1, OnceBegin
  <2>3. CASE StartAnchors(r)
    BY <1>0, <2>3, OnceStartAnchors
  <2>4. CASE Commit(r)
    BY <1>0, <2>4, OnceCommit
  <2>5. ASSUME NEW f \in Fixture, AnchorRow(r, f) \/ RefreshRow(r, f) PROVE OnceInv'
    BY <1>0, <2>5, OnceAnchorRow, OnceRefreshRow
  <2>6. ASSUME NEW f \in Fixture, BackfillRow(r, f) PROVE OnceInv'
    <3> DEFINE new == Computed(job[r].op, f, Kickoff[f])
               j == [job[r] EXCEPT !.of = @ \ {f}, !.got = @ \union new]
    <3>1. /\ job' = [job EXCEPT ![r] = j] /\ UNCHANGED <<anchors, contested>>
          /\ job[r].op \notin {"anchors", "refresh"}
      BY <2>6 DEF BackfillRow, Feature
    <3> HIDE DEF new
    <3>2. j.op = job[r].op /\ j.rows = job[r].rows
      BY <2>0 DEF Job
    <3> HIDE DEF j
    <3>3. QED
      BY <1>0, <2>0, <3>1, <3>2, OnceGoOn
  <2>7. QED
    BY <1>4, <2>1, <2>2, <2>3, <2>4, <2>5, <2>6 DEF Maintain
<1>5. QED
  BY <1>1, <1>2, <1>3, <1>4 DEF Next, vars, Tick, Import

(* However many tasks are started by hand, and whatever those that died had *)
(* committed, a fixture has one training anchor at most, unless a task      *)
(* listed it while another one had it in hand.                              *)
THEOREM OneAnchorPerFixture == Spec => []AnchoredOnce
<1>1. Init => OnceInv
  <2> SUFFICES ASSUME Init PROVE OnceInv
    OBVIOUS
  <2>1. IInv /\ AnchoredOnce /\ DistinctIds
    BY InitIInv DEF Init, AnchoredOnce, DistinctIds
  <2>2. \A s \in Session : job[s].op = "none" /\ job[s].rows = {}
    BY DEF Init, IdleJob
  <2>3. \A s \in Session : AnchorJob(s, job[s])
    BY <2>2, NoTask
  <2>4. \A s, t \in Session : Apart(job[s], job[t], contested)
    BY <2>2 DEF Apart
  <2>5. QED
    BY <2>1, <2>3, <2>4 DEF OnceInv
<1>2. OnceInv /\ [Next]_vars => OnceInv'
  BY NextOnce
<1>3. OnceInv => AnchoredOnce
  BY DEF OnceInv
<1>4. QED
  BY <1>1, <1>2, <1>3, PTL DEF Spec

-----------------------------------------------------------------------------
(* DatasetSplit. Everything rests on the rank of a sample: the sort puts    *)
(* the sample of rank k - 1 at place k, so slices are ranges of ranks, and  *)
(* what the loops cut out of the dataset can be told from bounds alone.     *)

(* The order of the samples: by time, then as the dataset holds them.      *)
Before(j, i) == time[j] < time[i] \/ (time[j] = time[i] /\ j < i)

(* How many samples of a set come before one.                              *)
Rank(S, i) == Cardinality({j \in S : Before(j, i)})

(* A set of samples that all have a time.                                  *)
Timed(S) == IsFiniteSet(S) /\ S \subseteq Nat /\ \A i \in S : time[i] \in Nat

(* Samples that have a time are in a strict total order.                   *)
LEMMA BeforeIsAnOrder ==
  ASSUME NEW S, Timed(S)
  PROVE  /\ \A i \in S : ~Before(i, i)
         /\ \A i, j \in S : i # j => Before(i, j) \/ Before(j, i)
         /\ \A i, j, k \in S : Before(i, j) /\ Before(j, k) => Before(i, k)
  BY DEF Timed, Before

(* Ranks are counted from zero and grow with the order.                    *)
LEMMA RankGrows ==
  ASSUME NEW S, Timed(S)
  PROVE  /\ Cardinality(S) \in Nat
         /\ \A i \in S : Rank(S, i) \in 0..(Cardinality(S) - 1)
         /\ \A i, j \in S : Before(i, j) => Rank(S, i) < Rank(S, j)
  <1>1. IsFiniteSet(S) /\ Cardinality(S) \in Nat
    BY FS_CardinalityType DEF Timed
  <1>2. ASSUME NEW i \in S PROVE Rank(S, i) \in 0..(Cardinality(S) - 1)
    <2> DEFINE B == {j \in S : Before(j, i)}
    <2>1. B \subseteq S \ {i}
      BY BeforeIsAnOrder
    <2>2. IsFiniteSet(S \ {i}) /\ Cardinality(S \ {i}) = Cardinality(S) - 1
      BY <1>1, FS_RemoveElement
    <2>3. IsFiniteSet(B) /\ Cardinality(B) <= Cardinality(S) - 1
      BY <2>1, <2>2, FS_Subset
    <2>4. Cardinality(B) \in Nat
      BY <2>3, FS_CardinalityType
    <2>5. Rank(S, i) = Cardinality(B)
      BY DEF Rank
    <2> HIDE DEF B
    <2> QED
      BY <1>1, <2>3, <2>4, <2>5
  <1>3. ASSUME NEW i \in S, NEW j \in S, Before(i, j) PROVE Rank(S, i) < Rank(S, j)
    <2> DEFINE B(x) == {y \in S : Before(y, x)}
    <2>1. B(i) \subseteq B(j) /\ i \in B(j) /\ i \notin B(i)
      BY <1>3, BeforeIsAnOrder
    <2>2. IsFiniteSet(B(j))
      BY <1>1, FS_Subset
    <2>3. Cardinality(B(i)) <= Cardinality(B(j)) /\ Cardinality(B(i)) # Cardinality(B(j))
      BY <2>1, <2>2, FS_Subset
    <2>4. Rank(S, i) = Cardinality(B(i)) /\ Rank(S, j) = Cardinality(B(j))
      BY DEF Rank
    <2>5. Rank(S, i) \in Nat /\ Rank(S, j) \in Nat
      BY <1>1, <1>2
    <2> HIDE DEF B
    <2> QED
      BY <2>3, <2>4, <2>5
  <1> QED
    BY <1>1, <1>2, <1>3

(* Every rank is taken, by the pigeonhole principle.                       *)
LEMMA RankIsOnto ==
  ASSUME NEW S, Timed(S), NEW k \in 1..Cardinality(S)
  PROVE  \E i \in S : Rank(S, i) = k - 1
  <1> DEFINE n == Cardinality(S)
             f == [i \in S |-> Rank(S, i) + 1]
  <1>1. IsFiniteSet(S) /\ n \in Nat
    BY RankGrows DEF Timed
  <1>2. \A i \in S : Rank(S, i) + 1 \in 1..n
    BY <1>1, RankGrows
  <1>3. f \in [S -> 1..n]
    BY <1>2
  <1>4. \A i, j \in S : f[i] = f[j] => i = j
    <2> SUFFICES ASSUME NEW i \in S, NEW j \in S, i # j PROVE f[i] # f[j]
      OBVIOUS
    <2>1. Rank(S, i) \in Int /\ Rank(S, j) \in Int
      BY <1>1, RankGrows
    <2>2. Rank(S, i) < Rank(S, j) \/ Rank(S, j) < Rank(S, i)
      BY BeforeIsAnOrder, RankGrows
    <2> QED
      BY <2>1, <2>2
  <1>5. f \in Injection(S, 1..n)
    BY <1>3, <1>4 DEF Injection, IsInjective
  <1>6. IsFiniteSet(1..n) /\ Cardinality(1..n) = n
    BY <1>1, FS_Interval
  <1>7. f \in Surjection(S, 1..n)
    BY <1>5, <1>6, FS_Injection
  <1>8. PICK i \in S : f[i] = k
    BY <1>7 DEF Surjection
  <1>9. Rank(S, i) \in Int /\ Rank(S, i) + 1 = k
    BY <1>1, <1>8, RankGrows
  <1> QED
    BY <1>9

(* What _chronological returns: the sample at a place has that rank.       *)
Sorted(c, S) ==
    /\ c \in [1..Cardinality(S) -> S]
    /\ \A k \in 1..Cardinality(S) : Rank(S, c[k]) = k - 1

(* The sort does sort, whatever times the samples have.                    *)
LEMMA ChronologicalSorts ==
  ASSUME NEW S, Timed(S)
  PROVE  Sorted(Chronological(S), S) /\ Cardinality(S) \in Nat
  <1> DEFINE n == Cardinality(S)
             c == Chronological(S)
  <1>1. n \in Nat
    BY RankGrows
  <1>2. c = [k \in 1..n |-> CHOOSE i \in S : Rank(S, i) = k - 1]
    BY DEF Chronological, Rank, Before
  <1>3. \A k \in 1..n : c[k] \in S /\ Rank(S, c[k]) = k - 1
    BY <1>2, RankIsOnto
  <1>4. c \in [1..n -> S]
    BY <1>2, <1>3
  <1> HIDE DEF c
  <1> QED
    BY <1>1, <1>3, <1>4 DEF Sorted, c

(* The part of the samples that is held out leaves both parts something.   *)
LEMMA CutLeavesBoth ==
  ASSUME NEW n \in Nat \ {0}, NEW ratio \in 1..99
  PROVE  /\ Cut(n, ratio) \in 1..n
         /\ n > 1 => Cut(n, ratio) < n
  <1> DEFINE m == n * (100 - ratio)
  <1>1. m \in Nat /\ m < 100 * n
    OBVIOUS
  <1>2. Cut(n, ratio) = AtLeast(1, m \div 100)
    BY DEF Cut
  <1> HIDE DEF m
  <1>3. m \div 100 \in Nat /\ m \div 100 < n
    BY <1>1
  <1> QED
    BY <1>2, <1>3 DEF AtLeast

-----------------------------------------------------------------------------
(* The samples of a set from one rank up to another.                       *)
Ranked(S, i, j) == {x \in S : i <= Rank(S, x) /\ Rank(S, x) < j}

(* Slices of the sorted samples are ranges of ranks.                       *)
LEMMA SliceIsRanked ==
  ASSUME NEW S, Timed(S), NEW c, Sorted(c, S),
         NEW i \in 0..Cardinality(S), NEW j \in 0..Cardinality(S)
  PROVE  Slice(c, i, j) = Ranked(S, i, j)
  <1> DEFINE n == Cardinality(S)
  <1>1. n \in Nat /\ \A x \in S : Rank(S, x) \in 0..(n - 1)
    BY RankGrows
  <1>2. c \in [1..n -> S] /\ \A k \in 1..n : Rank(S, c[k]) = k - 1
    BY DEF Sorted
  <1>3. Len(c) = n
    BY <1>1, <1>2
  <1>4. Slice(c, i, j) = {c[k] : k \in (i + 1)..j}
    BY <1>1, <1>3 DEF Slice, AtMost
  <1>5. ASSUME NEW k \in (i + 1)..j PROVE c[k] \in Ranked(S, i, j)
    <2>1. k \in 1..n /\ k - 1 \in i..(j - 1)
      BY <1>1
    <2>2. c[k] \in S /\ Rank(S, c[k]) \in i..(j - 1)
      BY <1>2, <2>1
    <2> QED BY <2>2 DEF Ranked
  <1>6. ASSUME NEW x \in Ranked(S, i, j) PROVE \E k \in (i + 1)..j : c[k] = x
    <2>1. x \in S /\ Rank(S, x) \in i..(j - 1) /\ Rank(S, x) \in 0..(n - 1)
      BY <1>1, <1>6 DEF Ranked
    <2> DEFINE k == Rank(S, x) + 1
    <2>2. k \in (i + 1)..j /\ k \in 1..n /\ k - 1 = Rank(S, x)
      BY <1>1, <2>1
    <2> HIDE DEF k
    <2>3. c[k] \in S /\ Rank(S, c[k]) = Rank(S, x)
      BY <1>2, <2>2
    <2>4. c[k] = x
      BY <1>1, <2>1, <2>3, RankGrows, BeforeIsAnOrder
    <2> QED
      BY <2>2, <2>4
  <1> QED
    BY <1>4, <1>5, <1>6

(* A range of ranks has as many samples as it is long.                     *)
LEMMA RankedSize ==
  ASSUME NEW S, Timed(S), NEW i \in 0..Cardinality(S), NEW j \in i..Cardinality(S)
  PROVE  /\ Ranked(S, i, j) \subseteq S /\ IsFiniteSet(Ranked(S, i, j))
         /\ Cardinality(Ranked(S, i, j)) = j - i
         /\ i < j => Ranked(S, i, j) # {}
  <1> DEFINE n == Cardinality(S)
             R == Ranked(S, i, j)
             f == [x \in R |-> Rank(S, x)]
             T == i..(j - 1)
  <1>1. n \in Nat /\ IsFiniteSet(S) /\ \A x \in S : Rank(S, x) \in 0..(n - 1)
    BY RankGrows DEF Timed
  <1>2. R \subseteq S /\ IsFiniteSet(R)
    BY <1>1, FS_Subset DEF Ranked
  <1>3. \A x \in R : Rank(S, x) \in T
    BY <1>1 DEF Ranked
  <1>4. ASSUME NEW r \in T PROVE \E x \in R : f[x] = r
    <2>1. r + 1 \in 1..n /\ (r + 1) - 1 = r
      BY <1>1, <1>4
    <2>2. PICK x \in S : Rank(S, x) = r
      BY <2>1, RankIsOnto
    <2>3. x \in R
      BY <1>1, <1>4, <2>2 DEF Ranked
    <2> QED
      BY <2>2, <2>3
  <1>5. \A x, y \in R : f[x] = f[y] => x = y
    <2> SUFFICES ASSUME NEW x \in R, NEW y \in R, x # y PROVE f[x] # f[y]
      OBVIOUS
    <2>1. x \in S /\ y \in S /\ Rank(S, x) \in Int /\ Rank(S, y) \in Int
      BY <1>1, <1>2
    <2>2. Rank(S, x) < Rank(S, y) \/ Rank(S, y) < Rank(S, x)
      BY <2>1, BeforeIsAnOrder, RankGrows
    <2> QED
      BY <2>1, <2>2
  <1>6. f \in [R -> T]
    BY <1>3
  <1>7. f \in Surjection(R, T) /\ f \in Injection(R, T)
    BY <1>4, <1>5, <1>6 DEF Surjection, Injection, IsInjective
  <1>8. Cardinality(T) = Cardinality(R)
    BY <1>2, <1>7, FS_Surjection
  <1>9. Cardinality(T) = j - i
    <2>1. i \in Int /\ j - 1 \in Int
      BY <1>1
    <2>2. Cardinality(T) = IF i > j - 1 THEN 0 ELSE (j - 1) - i + 1
      BY <2>1, FS_Interval
    <2> HIDE DEF T
    <2> QED
      BY <1>1, <2>1, <2>2
  <1>10. i < j => R # {}
    <2>1. ASSUME i < j PROVE i \in T
      BY <1>1, <2>1
    <2> QED
      BY <1>4, <2>1
  <1> QED
    BY <1>2, <1>8, <1>9, <1>10

(* What comes before a range of ranks, and what comes after it.            *)
LEMMA AroundRanked ==
  ASSUME NEW S, Timed(S), NEW i \in 0..Cardinality(S), NEW j \in i..Cardinality(S), i < j
  PROVE  /\ {x \in S : \A y \in Ranked(S, i, j) : Before(x, y)} = Ranked(S, 0, i)
         /\ {x \in S : \A y \in Ranked(S, i, j) : Before(y, x)} = Ranked(S, j, Cardinality(S))
  <1> DEFINE n == Cardinality(S)
             R == Ranked(S, i, j)
  <1>1. n \in Nat /\ \A x \in S : Rank(S, x) \in 0..(n - 1)
    BY RankGrows
  <1>2. \A x, y \in S : Rank(S, x) < Rank(S, y) <=> Before(x, y)
    <2> SUFFICES ASSUME NEW x \in S, NEW y \in S, Rank(S, x) < Rank(S, y) PROVE Before(x, y)
      BY RankGrows
    <2>1. x # y /\ ~Before(y, x)
      BY <1>1, RankGrows
    <2> QED
      BY <2>1, BeforeIsAnOrder
  <1>3. R \subseteq S /\ \A y \in R : i <= Rank(S, y) /\ Rank(S, y) < j
    BY DEF Ranked
  <1>4. PICK first \in S : Rank(S, first) = i
    <2>1. i + 1 \in 1..n /\ (i + 1) - 1 = i
      BY <1>1
    <2> QED
      BY <2>1, RankIsOnto
  <1>5. PICK last \in S : Rank(S, last) = j - 1
    <2>1. j \in 1..n
      BY <1>1
    <2> QED
      BY <2>1, RankIsOnto
  <1>6. first \in R /\ last \in R
    BY <1>1, <1>4, <1>5 DEF Ranked
  <1>7. ASSUME NEW x \in S
        PROVE  /\ (\A y \in R : Before(x, y)) <=> Rank(S, x) < i
               /\ (\A y \in R : Before(y, x)) <=> j <= Rank(S, x)
    <2>1. Rank(S, x) \in Int /\ \A y \in R : Rank(S, y) \in Int
      BY <1>1, <1>3
    <2>2. (\A y \in R : Before(x, y)) => Rank(S, x) < i
      BY <1>2, <1>4, <1>6
    <2>3. (\A y \in R : Before(y, x)) => j <= Rank(S, x)
      BY <1>1, <1>2, <1>5, <1>6, <2>1
    <2>4. Rank(S, x) < i => \A y \in R : Before(x, y)
      BY <1>1, <1>2, <1>3, <2>1
    <2>5. j <= Rank(S, x) => \A y \in R : Before(y, x)
      BY <1>1, <1>2, <1>3, <2>1
    <2> QED
      BY <2>2, <2>3, <2>4, <2>5
  <1> QED
    BY <1>1, <1>7 DEF Ranked

-----------------------------------------------------------------------------
(* What the folds of n samples look like, whatever the strategy: N tests of *)
(* Unit samples each, one after the other from the rank First on.           *)
Folding == Temporal \ {"holdout"}
Unit(n) == IF request.strategy = "time_series_split" THEN n \div (request.size + 1)
           ELSE request.step
First(n) == IF request.strategy = "time_series_split" THEN Unit(n) ELSE request.size
Start(n, k) == First(n) + Unit(n) * (k - 1)
From(n, k) == IF request.strategy = "rolling_window" THEN Unit(n) * (k - 1) ELSE 0
(* The first of the last samples that no further test fits into.            *)
End(n, N) == First(n) + Unit(n) * N
Longest == IF request.strategy = "time_series_split" THEN request.size + 1 ELSE request.step

FoldsOf(S, N) ==
    LET n == Cardinality(S)
    IN  [k \in 1..N |-> [train |-> Ranked(S, From(n, k), Start(n, k)),
                         test |-> Ranked(S, Start(n, k), Start(n, k) + Unit(n))]]

(* N folds fit, and either one more does not or N is what was asked for.    *)
FoldsFit(n, N) ==
    /\ Unit(n) \in Nat \ {0} /\ First(n) \in Nat \ {0}
    /\ End(n, N) <= n /\ n < End(n, N) + Longest
    /\ request.strategy = "time_series_split" => N = request.size

(* A quotient is the number of whole parts, also of a negative number.      *)
LEMMA Quotient ==
  ASSUME NEW x \in Int, NEW u \in Nat \ {0}
  PROVE  x \div u \in Int /\ u * (x \div u) <= x /\ x < u * (x \div u) + u
  OBVIOUS

(* A remainder is what the whole parts leave.                               *)
LEMMA Remainder ==
  ASSUME NEW x \in Nat, NEW u \in Nat \ {0}
  PROVE  x % u = x - u * (x \div u)
  OBVIOUS

(* Fold by fold, the bounds lie in order between the first sample and the last. *)
LEMMA FoldBounds ==
  ASSUME request \in Request, NEW n \in Nat, NEW N \in Nat \ {0}, FoldsFit(n, N), NEW k \in 1..N
  PROVE  /\ From(n, k) \in Nat /\ Start(n, k) \in Nat /\ Unit(n) \in Nat \ {0}
         /\ From(n, k) < Start(n, k)
         /\ Start(n, k) + Unit(n) <= End(n, N) /\ End(n, N) \in 0..n
         /\ Start(n, k) + Unit(n) = First(n) + Unit(n) * k
         /\ k < N => Start(n, k) + Unit(n) <= Start(n, N)
  <1> DEFINE u == Unit(n)
             first == First(n)
  <1>1. u \in Nat \ {0} /\ first \in Nat \ {0} /\ first + u * N <= n
    BY DEF FoldsFit, End
  <1>2. request.strategy = "rolling_window" => first = request.size
    BY DEF First
  <1> HIDE DEF u, first
  <1>3. u * (k - 1) \in Nat /\ u * (k - 1) + u = u * k /\ u * k <= u * N /\ u * N \in Nat
    BY <1>1
  <1>4. k < N => u * (k - 1) + u <= u * (N - 1)
    BY <1>1
  <1>5. Start(n, k) = first + u * (k - 1) /\ Start(n, N) = first + u * (N - 1)
    BY DEF Start, u, first
  <1>6. From(n, k) \in {0, u * (k - 1)}
    BY DEF From, u
  <1>7. End(n, N) = first + u * N /\ Unit(n) = u /\ First(n) = first
    BY DEF End, u, first
  <1> QED
    BY <1>1, <1>3, <1>4, <1>5, <1>6, <1>7

(* The parameters a request may have.                                       *)
LEMMA Parameters ==
  ASSUME request \in Request
  PROVE  /\ request.strategy \in Temporal \union Shuffled
         /\ request.strategy \in {"rolling_window", "walk_forward"} =>
                request.size \in Nat \ {0} /\ request.step \in Nat \ {0}
         /\ request.strategy = "time_series_split" =>
                request.size \in Nat \ {0} /\ request.step = 1
         /\ request.strategy \in {"holdout"} \union Shuffled => request.ratio \in 1..99
  BY SizesAssumption DEF Request, Temporal, Shuffled

(* The three loops make such folds, or none.                                *)
LEMMA FoldsAreRanges ==
  ASSUME NEW S, Timed(S), request \in Request, request.strategy \in Folding,
         Folds(Chronological(S)) # <<>>
  PROVE  \E N \in Nat \ {0} : /\ Folds(Chronological(S)) = FoldsOf(S, N)
                              /\ FoldsFit(Cardinality(S), N)
  <1> DEFINE n == Cardinality(S)
             c == Chronological(S)
             u == Unit(n)
  <1>1. n \in Nat /\ Sorted(c, S)
    BY ChronologicalSorts
  <1>2. Len(c) = n
    BY <1>1 DEF Sorted
  <1>3. request.strategy \in {"rolling_window", "walk_forward", "time_series_split"}
    BY DEF Folding, Temporal
  <1> HIDE DEF c, n
  <1>4. ASSUME NEW N \in Nat \ {0}, FoldsFit(n, N),
               Folds(c) = [k \in 1..N |->
                             Fold(c, From(n, k), Start(n, k), Start(n, k) + Unit(n))]
        PROVE  Folds(c) = FoldsOf(S, N)
    <2>1. ASSUME NEW k \in 1..N
          PROVE  Fold(c, From(n, k), Start(n, k), Start(n, k) + Unit(n))
                 = [train |-> Ranked(S, From(n, k), Start(n, k)),
                    test |-> Ranked(S, Start(n, k), Start(n, k) + Unit(n))]
      <3>1. /\ From(n, k) \in Nat /\ Start(n, k) \in Nat /\ Unit(n) \in Nat
            /\ From(n, k) <= Start(n, k) /\ Start(n, k) + Unit(n) <= n
        <4>1. /\ From(n, k) \in Nat /\ Start(n, k) \in Nat /\ Unit(n) \in Nat \ {0}
              /\ From(n, k) < Start(n, k)
              /\ Start(n, k) + Unit(n) <= End(n, N) /\ End(n, N) \in 0..n
          BY <1>1, <1>4, FoldBounds
        <4> QED
          BY <1>1, <4>1
      <3>2. From(n, k) \in 0..n /\ Start(n, k) \in 0..n /\ Start(n, k) + Unit(n) \in 0..n
        BY <1>1, <3>1
      <3> QED
        BY <1>1, <3>2, SliceIsRanked DEF Fold, n
    <2> QED
      BY <1>4, <2>1 DEF FoldsOf, n
  <1>5. CASE request.strategy \in {"rolling_window", "walk_forward"}
    <2> DEFINE N == (n - request.size) \div request.step
               size == request.size
               step == request.step
    <2>1. size \in Nat \ {0} /\ step \in Nat \ {0}
      BY <1>5, Parameters
    <2>2. N \in Int /\ step * N <= n - size /\ n - size < step * N + step
      <3>1. n - size \in Int /\ N = (n - size) \div step
        BY <1>1, <2>1
      <3> HIDE DEF N, size, step
      <3> QED
        BY <2>1, <3>1, Quotient
    <2>3. First(n) = size /\ Unit(n) = step /\ Longest = step /\ Fits(c, size, step) = 1..N
      BY <1>2, <1>5 DEF First, Unit, Longest, Fits
    <2>4. Folds(c) = IF request.strategy = "rolling_window" THEN RollingWindow(c, size, step)
                     ELSE WalkForward(c, size, step)
      BY <1>5 DEF Folds
    <2> HIDE DEF N, size, step
    <2>5. Folds(c) = [k \in 1..N |-> Fold(c, From(n, k), size + step * (k - 1), size + step * k)]
      <3>1. CASE request.strategy = "rolling_window"
        BY <2>3, <2>4, <3>1 DEF RollingWindow, From
      <3>2. CASE request.strategy = "walk_forward"
        BY <2>3, <2>4, <3>2 DEF WalkForward, From
      <3> QED
        BY <1>5, <3>1, <3>2
    <2>6. N \in Nat \ {0}
      BY <2>2, <2>5 DEF c
    <2>7. FoldsFit(n, N)
      BY <1>1, <1>5, <2>1, <2>2, <2>3, <2>6 DEF FoldsFit, End
    <2>8. \A k \in 1..N : Start(n, k) = size + step * (k - 1)
                          /\ Start(n, k) + Unit(n) = size + step * k
      BY <1>1, <2>3, <2>6, <2>7, FoldBounds DEF Start
    <2>9. Folds(c) = [k \in 1..N |-> Fold(c, From(n, k), Start(n, k), Start(n, k) + Unit(n))]
      BY <2>5, <2>8
    <2> QED
      BY <1>4, <2>6, <2>7, <2>9 DEF c, n
  <1>6. CASE request.strategy = "time_series_split"
    <2> DEFINE N == request.size
               size == n \div (N + 1)
    <2>1. N \in Nat \ {0}
      BY <1>6, Parameters
    <2>2. size \in Int /\ (N + 1) * size <= n /\ n < (N + 1) * size + (N + 1)
      <3>1. n \in Int /\ N + 1 \in Nat \ {0} /\ size = n \div (N + 1)
        BY <1>1, <2>1
      <3> HIDE DEF N, size
      <3> QED
        BY <3>1, Quotient
    <2>3. First(n) = size /\ Unit(n) = size /\ Longest = N + 1
      BY <1>6 DEF First, Unit, Longest
    <2>4. Folds(c) = IF size < 1 THEN <<>>
                     ELSE [k \in 1..N |-> Fold(c, 0, size * k, size * (k + 1))]
      BY <1>2, <1>6 DEF Folds, TimeSeriesSplit
    <2>5. N = request.size /\ \A k \in 1..N : From(n, k) = 0
      BY <1>6 DEF From
    <2> HIDE DEF N, size
    <2>6. size \in Nat \ {0} /\ Folds(c) = [k \in 1..N |-> Fold(c, 0, size * k, size * (k + 1))]
      BY <2>2, <2>4 DEF c
    <2>7. FoldsFit(n, N)
      <3>1. (N + 1) * size = size + size * N
        BY <2>1, <2>6
      <3> QED
        BY <1>1, <2>1, <2>2, <2>3, <2>5, <2>6, <3>1 DEF FoldsFit, End
    <2>8. ASSUME NEW k \in 1..N
          PROVE  Start(n, k) = size * k /\ Start(n, k) + Unit(n) = size * (k + 1)
      <3>1. size + size * (k - 1) = size * k /\ size * k + size = size * (k + 1)
        BY <2>1, <2>6
      <3> QED
        BY <2>3, <3>1 DEF Start
    <2>9. Folds(c) = [k \in 1..N |-> Fold(c, From(n, k), Start(n, k), Start(n, k) + Unit(n))]
      BY <2>5, <2>6, <2>8
    <2> QED
      BY <1>4, <2>1, <2>7, <2>9 DEF c, n
  <1> QED
    BY <1>3, <1>5, <1>6

-----------------------------------------------------------------------------
(* The run's invariant: what the split it was given is.                     *)
AfterSplit == {"split", "fitted", "done"}

SplitOf(S, s) ==
    /\ request.strategy \in Temporal => Timed(S)
    /\ request.strategy \in Folding =>
           \E N \in Nat \ {0} : s.folds = FoldsOf(S, N) /\ FoldsFit(Cardinality(S), N)
    /\ request.strategy \notin Folding =>
           /\ s.folds = <<>>
           /\ s.train \union s.validation \union s.test = S
           /\ Cardinality(s.train) + Cardinality(s.validation) + Cardinality(s.test)
                  = Cardinality(S)
           /\ s.train # {} /\ s.test # {}
    /\ request.strategy = "holdout" =>
           \E cut \in 1..(Cardinality(S) - 1) :
               s.train = Ranked(S, 0, cut) /\ s.test = Ranked(S, cut, Cardinality(S))

GoodSplit == SplitOf(kept, split)

Dataset == IsFiniteSet(Sample) /\ Sample \subseteq Nat /\ \A i \in Sample : time[i] \in Nat \union {None}

SplitIInv ==
    /\ Dataset /\ request \in Request /\ kept \subseteq Sample
    /\ stage \in {"built", "preprocessed", "failed"} \union AfterSplit
    /\ stage \notin AfterSplit => split = NoSplit
    /\ stage \in AfterSplit => GoodSplit
    /\ stage \in {"fitted", "done"} =>
           fitted = IF split.folds = <<>> THEN split.train ELSE LastFold.train
    /\ stage = "done" =>
           evaluated = CASE split.folds # <<>> -> LastFold.test
                         [] split.folds = <<>> /\ split.test # {} -> split.test
                         [] OTHER -> split.validation

(* What a split is does not change while the dataset and the request do not. *)
LEMMA OrderStays ==
  ASSUME UNCHANGED time, NEW S
  PROVE  /\ Timed(S)' <=> Timed(S)
         /\ \A i, j : Ranked(S, i, j)' = Ranked(S, i, j)
  <1>1. Timed(S)' <=> Timed(S)
    BY DEF Timed
  <1>2. \A x, y : Before(x, y)' <=> Before(x, y)
    BY DEF Before
  <1>3. \A x : {y \in S : Before(y, x)'} = {y \in S : Before(y, x)}
    BY <1>2
  <1>4. \A x : Rank(S, x)' = Rank(S, x)
    BY <1>3 DEF Rank
  <1> QED
    BY <1>1, <1>4 DEF Ranked

(* What the folds should be depends on the request and the dates only. *)
LEMMA FoldsStay ==
  ASSUME UNCHANGED <<time, request>>, NEW S, NEW N
  PROVE  FoldsOf(S, N)' = FoldsOf(S, N) /\ (FoldsFit(Cardinality(S), N)' <=> FoldsFit(Cardinality(S), N))
  <1>1. \A n : Unit(n)' = Unit(n) /\ First(n)' = First(n)
    BY DEF Unit, First
  <1>2. \A n, k : Start(n, k)' = Start(n, k) /\ From(n, k)' = From(n, k) /\ End(n, k)' = End(n, k)
    BY <1>1 DEF Start, From, End
  <1>3. Longest' = Longest
    BY DEF Longest
  <1>4. \A i, j : Ranked(S, i, j)' = Ranked(S, i, j)
    BY OrderStays
  <1> QED
    BY <1>1, <1>2, <1>3, <1>4 DEF FoldsOf, FoldsFit

(* So does what a split should be, *)
LEMMA SplitOfStays ==
  ASSUME UNCHANGED <<time, request>>, NEW S, NEW s, SplitOf(S, s)
  PROVE  SplitOf(S, s)'
  <1>1. Timed(S)' <=> Timed(S)
    BY OrderStays
  <1>2. \A i, j : Ranked(S, i, j)' = Ranked(S, i, j)
    BY OrderStays
  <1>3. \A N : FoldsOf(S, N)' = FoldsOf(S, N)
               /\ (FoldsFit(Cardinality(S), N)' <=> FoldsFit(Cardinality(S), N))
    BY FoldsStay
  <1> QED
    BY <1>1, <1>2, <1>3 DEF SplitOf

(* and a step that stores the split asked for has a good one afterwards. *)
LEMMA GoodSplitStays ==
  ASSUME UNCHANGED <<time, request, kept>>, SplitOf(kept, split')
  PROVE  GoodSplit'
  <1>1. PICK S, s : S = kept /\ s = split'
    OBVIOUS
  <1>2. SplitOf(S, s)'
    BY <1>1, SplitOfStays
  <1> QED
    BY <1>1, <1>2 DEF GoodSplit

(* At the start there is a dataset and nothing else.                        *)
LEMMA InitSplit == SplitInit => SplitIInv
  <1> SUFFICES ASSUME SplitInit PROVE SplitIInv
    OBVIOUS
  <1>1. PICK n \in 1..MaxSamples : time \in [1..n -> 1..MaxReferenceTime \union {None}]
    BY DEF SplitInit
  <1>2. Sample = 1..n /\ n \in Int
    BY <1>1 DEF Sample
  <1>3. Dataset
    BY <1>1, <1>2, FS_Interval, DatasetAssumption DEF Dataset
  <1> QED
    BY <1>3 DEF SplitInit, SplitIInv, AfterSplit

(* A set that can be split has two samples at least, and their times if the *)
(* split is a temporal one.                                                 *)
LEMMA SplittableSet ==
  ASSUME SplitIInv, CanSplit
  PROVE  /\ IsFiniteSet(kept) /\ Cardinality(kept) \in Nat /\ Cardinality(kept) > 1
         /\ request.strategy \in Temporal => Timed(kept)
  <1>1. IsFiniteSet(kept) /\ kept \subseteq Nat /\ \A i \in kept : time[i] \in Nat \union {None}
    BY FS_Subset DEF SplitIInv, Dataset
  <1>2. Cardinality(kept) \in Nat
    BY <1>1, FS_CardinalityType
  <1> QED
    BY <1>1, <1>2 DEF CanSplit, Timed

(* Two disjoint parts and the rest make up the whole, counted too.          *)
LEMMA ThreeParts ==
  ASSUME NEW S, IsFiniteSet(S), NEW A \in SUBSET S, NEW B \in SUBSET S, A \intersect B = {}
  PROVE  /\ A \union (S \ (A \union B)) \union B = S
         /\ Cardinality(A) + Cardinality(S \ (A \union B)) + Cardinality(B) = Cardinality(S)
  <1>1. IsFiniteSet(A) /\ IsFiniteSet(B)
    BY FS_Subset
  <1>2. IsFiniteSet(A \union B) /\ A \union B \subseteq S
    BY <1>1, FS_Union
  <1>3. Cardinality(A \union B) = Cardinality(A) + Cardinality(B) - Cardinality({})
    BY <1>1, FS_Union
  <1>4. S \intersect (A \union B) = A \union B
    OBVIOUS
  <1>5. Cardinality(S \ (A \union B)) = Cardinality(S) - Cardinality(A \union B)
    BY <1>4, FS_Difference
  <1>6. {Cardinality(S), Cardinality(A), Cardinality(B), Cardinality(A \union B)} \subseteq Nat
    BY <1>1, <1>2, FS_CardinalityType
  <1> QED
    BY <1>3, <1>5, <1>6, FS_EmptySet

(* A shuffled split partitions the samples.                                 *)
LEMMA ShuffledStep ==
  ASSUME SplitIInv, SplitShuffled
  PROVE  SplitOf(kept, split')
  <1> DEFINE n == Cardinality(kept)
             testCut == Cut(n, request.ratio)
             trainCut == IF request.strategy = "train_test" THEN testCut
                         ELSE Cut(testCut, request.ratio)
  <1>1. CanSplit /\ request.strategy \in Shuffled
    BY DEF SplitShuffled
  <1>2. IsFiniteSet(kept) /\ n \in Nat /\ n > 1
    BY <1>1, SplittableSet
  <1>3. request.ratio \in 1..99
    BY <1>1, Parameters DEF SplitIInv
  <1>4. PICK train \in SUBSET kept, test \in SUBSET kept :
            /\ Cardinality(train) = trainCut /\ Cardinality(test) = n - testCut
            /\ train \intersect test = {}
            /\ split' = [NoSplit EXCEPT !.train = train, !.test = test,
                                        !.validation = kept \ (train \union test)]
    BY DEF SplitShuffled
  <1>5. testCut \in 1..n /\ testCut < n /\ trainCut \in 1..testCut
    <2>1. PICK m \in Nat \ {0}, ratio \in 1..99 : m = n /\ ratio = request.ratio
      BY <1>2, <1>3
    <2>2. Cut(m, ratio) \in 1..m /\ Cut(m, ratio) < m
      BY <1>2, <2>1, CutLeavesBoth
    <2>3. Cut(m, ratio) \in Nat \ {0}
      BY <2>2
    <2>4. Cut(Cut(m, ratio), ratio) \in 1..Cut(m, ratio)
      BY <2>3, CutLeavesBoth
    <2> QED
      BY <2>1, <2>2, <2>3, <2>4
  <1>6. /\ split'.train = train /\ split'.test = test /\ split'.folds = <<>>
        /\ split'.validation = kept \ (train \union test)
    BY <1>4 DEF NoSplit
  <1> HIDE DEF testCut, trainCut, n
  <1>7. train # {} /\ test # {}
    BY <1>2, <1>4, <1>5, FS_EmptySet
  <1>8. /\ train \union (kept \ (train \union test)) \union test = kept
        /\ Cardinality(train) + Cardinality(kept \ (train \union test)) + Cardinality(test)
               = Cardinality(kept)
    BY <1>2, <1>4, ThreeParts
  <1>9. request.strategy \notin Temporal /\ request.strategy \notin Folding
        /\ request.strategy # "holdout"
    BY <1>1 DEF Shuffled, Temporal, Folding
  <1> QED
    BY <1>6, <1>7, <1>8, <1>9 DEF SplitOf

(* A holdout tests on the last samples.                                     *)
LEMMA HoldoutStep ==
  ASSUME SplitIInv, SplitHoldout
  PROVE  SplitOf(kept, split')
  <1>1. CanSplit /\ request.strategy = "holdout"
    BY DEF SplitHoldout
  <1>2. IsFiniteSet(kept) /\ Cardinality(kept) \in Nat /\ Cardinality(kept) > 1 /\ Timed(kept)
    BY <1>1, SplittableSet DEF Temporal
  <1>3. request.ratio \in 1..99
    BY <1>1, Parameters DEF SplitIInv
  <1>4. PICK n \in Nat \ {0}, ratio \in 1..99, c \in {Chronological(kept)} :
            n = Cardinality(kept) /\ ratio = request.ratio /\ c = Chronological(kept)
    BY <1>2, <1>3
  <1>5. PICK cut : cut = Cut(n, ratio)
    OBVIOUS
  <1>6. cut \in 1..(n - 1) /\ 0 \in 0..n /\ cut \in 0..n /\ n \in cut..n
    <2>1. n > 1
      BY <1>2, <1>4
    <2>2. cut \in 1..n /\ cut < n
      BY <1>5, <2>1, CutLeavesBoth
    <2> QED
      BY <2>2
  <1>7. Sorted(c, kept) /\ Len(c) = n
    BY <1>2, <1>4, ChronologicalSorts DEF Sorted
  <1>8. split' = [NoSplit EXCEPT !.train = Slice(c, 0, cut), !.test = Slice(c, cut, n)]
    BY <1>4, <1>5, <1>7 DEF SplitHoldout
  <1> DEFINE train == Ranked(kept, 0, cut)
             test == Ranked(kept, cut, n)
  <1>9. Slice(c, 0, cut) = train /\ Slice(c, cut, n) = test
    BY <1>2, <1>4, <1>6, <1>7, SliceIsRanked
  <1>10. /\ split'.train = train /\ split'.test = test /\ split'.folds = <<>>
         /\ split'.validation = {}
    BY <1>8, <1>9 DEF NoSplit
  <1>11. \A x \in kept : Rank(kept, x) \in 0..(n - 1)
    BY <1>2, <1>4, RankGrows
  <1>12. train \subseteq kept /\ test \subseteq kept /\ train \intersect test = {}
         /\ kept \ (train \union test) = {}
    BY <1>6, <1>11 DEF Ranked
  <1>13. train # {} /\ test # {}
    BY <1>2, <1>4, <1>6, RankedSize
  <1>14. request.strategy \notin Folding
    BY <1>1 DEF Folding
  <1>15. \E k \in 1..(Cardinality(kept) - 1) :
            split'.train = Ranked(kept, 0, k) /\ split'.test = Ranked(kept, k, Cardinality(kept))
    BY <1>4, <1>6, <1>10
  <1> HIDE DEF train, test
  <1>16. /\ train \union {} \union test = kept
         /\ Cardinality(train) + Cardinality({}) + Cardinality(test) = Cardinality(kept)
    <2>1. /\ train \union (kept \ (train \union test)) \union test = kept
          /\ Cardinality(train) + Cardinality(kept \ (train \union test)) + Cardinality(test)
                 = Cardinality(kept)
      BY <1>2, <1>12, ThreeParts
    <2> QED
      BY <1>12, <2>1
  <1> QED
    BY <1>2, <1>10, <1>13, <1>14, <1>15, <1>16 DEF SplitOf

(* A split into folds is one of ranges.                                     *)
LEMMA FoldsStep ==
  ASSUME SplitIInv, SplitFolds
  PROVE  SplitOf(kept, split')
  <1>1. CanSplit /\ request.strategy \in Folding /\ Folds(Chronological(kept)) # <<>>
    BY DEF SplitFolds, CanSplit, Folding
  <1>2. Timed(kept)
    BY <1>1, SplittableSet DEF Folding
  <1>3. PICK N \in Nat \ {0} : /\ Folds(Chronological(kept)) = FoldsOf(kept, N)
                               /\ FoldsFit(Cardinality(kept), N)
    BY <1>1, <1>2, FoldsAreRanges DEF SplitIInv
  <1>4. split'.folds = FoldsOf(kept, N)
    BY <1>3 DEF SplitFolds, NoSplit
  <1>5. request.strategy # "holdout"
    BY <1>1 DEF Folding
  <1> QED
    BY <1>1, <1>2, <1>3, <1>4, <1>5 DEF SplitOf

(* Every step keeps the run's invariant.                                    *)
LEMMA StepSplit == SplitIInv /\ [SplitNext]_splitVars => SplitIInv'
  <1> SUFFICES ASSUME SplitIInv, [SplitNext]_splitVars PROVE SplitIInv'
    OBVIOUS
  <1>1. ASSUME UNCHANGED <<time, request, kept>>
        PROVE  Dataset' /\ request' \in Request /\ (kept \subseteq Sample)'
    BY <1>1 DEF SplitIInv, Dataset, Sample
  <1>2. CASE RemoveOutliers
    <2>1. UNCHANGED <<time, request, split>> /\ kept' \subseteq Sample /\ stage' = "preprocessed"
      BY <1>2 DEF RemoveOutliers
    <2>2. Dataset' /\ request' \in Request /\ (kept \subseteq Sample)'
      BY <2>1 DEF SplitIInv, Dataset, Sample
    <2>3. split' = NoSplit
      BY <1>2, <2>1 DEF RemoveOutliers, SplitIInv, AfterSplit
    <2> QED
      BY <2>1, <2>2, <2>3 DEF SplitIInv, AfterSplit
  <1>3. CASE Refuse
    <2>1. UNCHANGED <<time, request, kept, split>> /\ stage' = "failed" /\ split = NoSplit
      BY <1>3 DEF Refuse, SplitIInv, AfterSplit
    <2> QED
      BY <1>1, <2>1 DEF SplitIInv, AfterSplit
  <1>4. CASE SplitShuffled \/ SplitHoldout \/ SplitFolds
    <2>1. UNCHANGED <<time, request, kept>> /\ stage' = "split"
      BY <1>4 DEF SplitShuffled, SplitHoldout, SplitFolds
    <2>2. GoodSplit'
      BY <1>4, <2>1, ShuffledStep, HoldoutStep, FoldsStep, GoodSplitStays
    <2> QED
      BY <1>1, <2>1, <2>2 DEF SplitIInv, AfterSplit
  <1>5. CASE Fit
    <2>1. UNCHANGED <<time, request, kept, split>> /\ stage' = "fitted" /\ GoodSplit
      BY <1>5 DEF Fit, SplitIInv, AfterSplit
    <2>2. fitted' = IF split'.folds = <<>> THEN split'.train ELSE LastFold'.train
      BY <1>5, <2>1 DEF Fit, LastFold
    <2>8. GoodSplit'
      BY <2>1, GoodSplitStays DEF GoodSplit
    <2> QED
      BY <1>1, <2>1, <2>2, <2>8 DEF SplitIInv, AfterSplit
  <1>6. CASE Evaluate
    <2>1. UNCHANGED <<time, request, kept, split, fitted>> /\ stage' = "done" /\ GoodSplit
      BY <1>6 DEF Evaluate, SplitIInv, AfterSplit
    <2>2. fitted' = IF split'.folds = <<>> THEN split'.train ELSE LastFold'.train
      BY <1>6, <2>1 DEF Evaluate, SplitIInv, LastFold
    <2>3. evaluated' = CASE split'.folds # <<>> -> LastFold'.test
                         [] split'.folds = <<>> /\ split'.test # {} -> split'.test
                         [] OTHER -> split'.validation
      BY <1>6, <2>1 DEF Evaluate, LastFold
    <2>8. GoodSplit'
      BY <2>1, GoodSplitStays DEF GoodSplit
    <2> QED
      BY <1>1, <2>1, <2>2, <2>3, <2>8 DEF SplitIInv, AfterSplit
  <1>7. CASE UNCHANGED splitVars
    <2>1. UNCHANGED <<time, request, kept, split, fitted, evaluated, stage>>
      BY <1>7 DEF splitVars
    <2>2. stage \in AfterSplit => GoodSplit'
      BY <2>1, GoodSplitStays DEF SplitIInv, GoodSplit
    <2> QED
      BY <1>1, <2>1, <2>2 DEF SplitIInv, AfterSplit, LastFold
  <1> QED
    BY <1>2, <1>3, <1>4, <1>5, <1>6, <1>7 DEF SplitNext

(* The run's invariant, for datasets of every size and every request.       *)
THEOREM SplitInductiveInvariant == SplitSpec => []SplitIInv
  BY InitSplit, StepSplit, PTL DEF SplitSpec

(* A split into parts, shuffled or by time, loses no sample and has none    *)
(* twice, and leaves something to train on and something to test.           *)
THEOREM PartsAreAPartition == SplitSpec => []PartsPartition
  <1>1. SplitIInv => PartsPartition
    <2> SUFFICES ASSUME SplitIInv, stage \in AfterSplit, split.folds = <<>>
                 PROVE  /\ split.train \union split.validation \union split.test = kept
                        /\ Cardinality(split.train) + Cardinality(split.validation)
                               + Cardinality(split.test) = Cardinality(kept)
                        /\ split.train # {} /\ split.test # {}
      BY DEF PartsPartition, AfterSplit
    <2>1. SplitOf(kept, split)
      BY DEF SplitIInv, GoodSplit
    <2>2. \A N \in Nat \ {0} : FoldsOf(kept, N) # <<>>
      BY DEF FoldsOf
    <2> QED
      BY <2>1, <2>2 DEF SplitOf
  <1> QED
    BY <1>1, SplitInductiveInvariant, PTL

-----------------------------------------------------------------------------
(* A sample of lower rank is not later.                                     *)
LEMMA RankedInTime ==
  ASSUME NEW S, Timed(S), NEW x \in S, NEW y \in S, Rank(S, x) < Rank(S, y)
  PROVE  time[x] <= time[y] /\ x # y
  <1>1. Rank(S, x) \in Int /\ Rank(S, y) \in Int
    BY RankGrows
  <1>2. x # y /\ ~Before(y, x)
    BY <1>1, RankGrows
  <1>3. Before(x, y)
    BY <1>2, BeforeIsAnOrder
  <1> QED
    BY <1>2, <1>3 DEF Before, Timed

(* One range of ranks before another: what is in it is of no later time.    *)
LEMMA RangesInTime ==
  ASSUME NEW S, Timed(S), NEW a, NEW b \in Int, NEW c \in Int, NEW d, b <= c
  PROVE  \A x \in Ranked(S, a, b), y \in Ranked(S, c, d) : time[x] <= time[y] /\ x # y
  <1> SUFFICES ASSUME NEW x \in Ranked(S, a, b), NEW y \in Ranked(S, c, d)
               PROVE  time[x] <= time[y] /\ x # y
    OBVIOUS
  <1>1. x \in S /\ y \in S /\ Rank(S, x) < b /\ c <= Rank(S, y)
    BY DEF Ranked
  <1>2. Rank(S, x) \in Int /\ Rank(S, y) \in Int
    BY <1>1, RankGrows
  <1>3. Rank(S, x) < Rank(S, y)
    BY <1>1, <1>2
  <1> QED
    BY <1>1, <1>3, RankedInTime

(* However the dataset was ordered and whatever was dropped from it, a model *)
(* trained for a temporal strategy is evaluated on samples it was not given, *)
(* none earlier than one it was given, and as recent as any a fold tests.    *)
THEOREM NoLookAheadInEvaluation == SplitSpec => []EvaluatedOnTheFuture
  <1>1. SplitIInv => EvaluatedOnTheFuture
    <2> SUFFICES ASSUME SplitIInv, stage = "done", request.strategy \in Temporal
                 PROVE  /\ fitted # {} /\ evaluated # {} /\ fitted \intersect evaluated = {}
                        /\ \A i \in fitted \union evaluated : time[i] # None
                        /\ \A i \in fitted, j \in evaluated : time[i] <= time[j]
                        /\ \A k \in DOMAIN split.folds :
                               \A i \in split.folds[k].test, j \in evaluated :
                                   i \in evaluated \/ time[i] <= time[j]
      BY DEF EvaluatedOnTheFuture
    <2>1. SplitOf(kept, split) /\ Timed(kept)
      BY DEF SplitIInv, GoodSplit, AfterSplit, SplitOf
    <2>2. PICK n \in Nat : n = Cardinality(kept)
      BY <2>1, RankGrows
    <2>3. \A i \in kept : time[i] # None
      BY <2>1, NoneAssumption DEF Timed
    <2>4. CASE request.strategy \in Folding
      <3>1. PICK N \in Nat \ {0} : split.folds = FoldsOf(kept, N) /\ FoldsFit(n, N)
        BY <2>1, <2>2, <2>4 DEF SplitOf
      <3>2. /\ split.folds # <<>> /\ DOMAIN split.folds = 1..N /\ Len(split.folds) = N
            /\ \A k \in 1..N :
                   /\ split.folds[k].train = Ranked(kept, From(n, k), Start(n, k))
                   /\ split.folds[k].test = Ranked(kept, Start(n, k), Start(n, k) + Unit(n))
        BY <2>2, <3>1 DEF FoldsOf
      <3>3. ASSUME NEW k \in 1..N
            PROVE  /\ From(n, k) \in 0..n /\ Start(n, k) \in From(n, k)..n /\ Start(n, k) \in 0..n
                   /\ Start(n, k) + Unit(n) \in Start(n, k)..n
                   /\ From(n, k) < Start(n, k) /\ Start(n, k) < Start(n, k) + Unit(n)
                   /\ k < N => Start(n, k) + Unit(n) <= Start(n, N)
        <4>1. /\ From(n, k) \in Nat /\ Start(n, k) \in Nat /\ Unit(n) \in Nat \ {0}
              /\ From(n, k) < Start(n, k)
              /\ Start(n, k) + Unit(n) <= End(n, N) /\ End(n, N) \in 0..n
              /\ k < N => Start(n, k) + Unit(n) <= Start(n, N)
          BY <3>1, FoldBounds DEF SplitIInv
        <4> QED
          BY <4>1
      <3>4. N \in 1..N
        OBVIOUS
      <3>5. /\ fitted = Ranked(kept, From(n, N), Start(n, N))
            /\ evaluated = Ranked(kept, Start(n, N), Start(n, N) + Unit(n))
        <4>1. LastFold = split.folds[N]
          BY <3>2 DEF LastFold
        <4>2. fitted = LastFold.train /\ evaluated = LastFold.test
          BY <3>2 DEF SplitIInv
        <4> QED
          BY <3>2, <3>4, <4>1, <4>2
      <3>6. fitted # {} /\ evaluated # {} /\ fitted \subseteq kept /\ evaluated \subseteq kept
        BY <2>1, <2>2, <3>3, <3>4, <3>5, RankedSize
      <3>7. \A i \in fitted, j \in evaluated : time[i] <= time[j] /\ i # j
        <4>1. Start(n, N) \in Int
          BY <3>3, <3>4
        <4> QED
          BY <2>1, <3>5, <4>1, RangesInTime
      <3>8. ASSUME NEW k \in 1..N, NEW i \in split.folds[k].test, NEW j \in evaluated
            PROVE  i \in evaluated \/ time[i] <= time[j]
        <4>1. CASE k = N
          <5>1. split.folds[k].test = evaluated
            BY <3>2, <3>4, <3>5, <4>1
          <5> QED
            BY <3>8, <5>1
        <4>2. CASE k < N
          <5>1. i \in Ranked(kept, Start(n, k), Start(n, k) + Unit(n))
            BY <3>2, <3>8
          <5>2. /\ Start(n, k) + Unit(n) \in Int /\ Start(n, N) \in Int
                /\ Start(n, k) + Unit(n) <= Start(n, N)
            BY <3>3, <3>4, <4>2
          <5> QED
            BY <2>1, <3>5, <3>8, <5>1, <5>2, RangesInTime
        <4> QED
          BY <4>1, <4>2
      <3> QED
        BY <2>3, <3>2, <3>6, <3>7, <3>8
    <2>5. CASE request.strategy = "holdout"
      <3>1. PICK cut \in 1..(n - 1) : /\ split.train = Ranked(kept, 0, cut)
                                      /\ split.test = Ranked(kept, cut, n)
        BY <2>1, <2>2, <2>5 DEF SplitOf
      <3>2. split.folds = <<>> /\ split.train # {} /\ split.test # {}
        BY <2>1, <2>5 DEF SplitOf, Folding
      <3>3. fitted = split.train /\ evaluated = split.test
        BY <3>2 DEF SplitIInv
      <3>4. fitted \subseteq kept /\ evaluated \subseteq kept
        BY <3>1, <3>3 DEF Ranked
      <3>5. \A i \in fitted, j \in evaluated : time[i] <= time[j] /\ i # j
        <4>1. cut \in Int /\ cut <= cut
          OBVIOUS
        <4>2. \A i \in Ranked(kept, 0, cut), j \in Ranked(kept, cut, n) :
                  time[i] <= time[j] /\ i # j
          BY <2>1, <4>1, RangesInTime
        <4> QED
          BY <3>1, <3>3, <4>2
      <3> QED
        BY <2>3, <3>2, <3>3, <3>4, <3>5
    <2> QED
      BY <2>4, <2>5 DEF Folding
  <1> QED
    BY <1>1, SplitInductiveInvariant, PTL

(* The tests of the folds, taken together, are one range of ranks.          *)
LEMMA TestsAreOneRange ==
  ASSUME NEW S, Timed(S), request \in Request, NEW N \in Nat \ {0}, NEW n \in Nat,
         n = Cardinality(S), FoldsFit(n, N)
  PROVE  UNION {Ranked(S, Start(n, k), Start(n, k) + Unit(n)) : k \in 1..N}
         = Ranked(S, First(n), End(n, N))
  <1>1. PICK u \in Nat \ {0}, first \in Nat : u = Unit(n) /\ first = First(n)
    BY DEF FoldsFit
  <1>2. ASSUME NEW k \in 1..N
        PROVE  /\ Start(n, k) = first + u * (k - 1) /\ Start(n, k) + Unit(n) = first + u * k
               /\ End(n, N) = first + u * N
               /\ u * (k - 1) \in Nat /\ u * k \in Nat /\ u * k <= u * N /\ u * N \in Nat
    <2>1. Start(n, k) + Unit(n) = First(n) + Unit(n) * k
      BY <1>1, FoldBounds
    <2>2. u * (k - 1) \in Nat /\ u * k \in Nat /\ u * k <= u * N /\ u * N \in Nat
      OBVIOUS
    <2> QED
      BY <1>1, <2>1, <2>2 DEF Start, End
  <1>3. End(n, N) = first + u * N /\ u * N \in Nat
    BY <1>1 DEF End
  <1>4. ASSUME NEW x \in S
        PROVE  (\E k \in 1..N : x \in Ranked(S, Start(n, k), Start(n, k) + Unit(n)))
               <=> x \in Ranked(S, First(n), End(n, N))
    <2>1. PICK r \in Nat : r = Rank(S, x)
      BY RankGrows
    <2>2. ASSUME NEW k \in 1..N, x \in Ranked(S, Start(n, k), Start(n, k) + Unit(n))
          PROVE  x \in Ranked(S, First(n), End(n, N))
      BY <1>1, <1>2, <2>1, <2>2 DEF Ranked
    <2>3. ASSUME x \in Ranked(S, First(n), End(n, N))
          PROVE  \E k \in 1..N : x \in Ranked(S, Start(n, k), Start(n, k) + Unit(n))
      <3>1. first <= r /\ r < first + u * N
        BY <1>1, <1>3, <2>1, <2>3 DEF Ranked
      <3>2. PICK q : q = (r - first) \div u
        OBVIOUS
      <3>3. q \in Int /\ u * q <= r - first /\ r - first < u * q + u
        BY <3>1, <3>2, Quotient
      <3>4. q \in 0..(N - 1)
        <4>1. u * q < u * N /\ 0 < u * (q + 1)
          BY <3>1, <3>3
        <4> QED
          BY <3>3, <4>1
      <3>5. PICK k \in 1..N : k = q + 1
        BY <3>4
      <3>6. u * (k - 1) = u * q /\ u * k = u * q + u
        BY <3>3, <3>5
      <3>7. Start(n, k) <= r /\ r < Start(n, k) + Unit(n)
        BY <1>2, <3>3, <3>6
      <3> QED
        BY <2>1, <3>7 DEF Ranked
    <2> QED
      BY <2>2, <2>3
  <1> QED
    BY <1>1, <1>4 DEF Ranked

(* Whatever the number of samples and the request, the folds tile a stretch  *)
(* of the dataset, and what they leave untested at its end is exactly known. *)
THEOREM FoldsTileTheEnd == SplitSpec => []FoldsTile
  <1>1. SplitIInv => FoldsTile
    <2> SUFFICES ASSUME SplitIInv, split.folds # <<>> PROVE FoldsTile
      BY DEF FoldsTile
    <2>1. stage \in AfterSplit /\ SplitOf(kept, split)
      BY DEF SplitIInv, GoodSplit, NoSplit
    <2>2. request.strategy \in Folding /\ Timed(kept)
      BY <2>1 DEF SplitOf, Folding
    <2>3. PICK n \in Nat, N \in Nat \ {0} :
              n = Cardinality(kept) /\ split.folds = FoldsOf(kept, N) /\ FoldsFit(n, N)
      BY <2>1, <2>2, RankGrows DEF SplitOf
    <2>4. /\ DOMAIN split.folds = 1..N /\ Len(split.folds) = N
          /\ \A k \in 1..N :
                 /\ split.folds[k].train = Ranked(kept, From(n, k), Start(n, k))
                 /\ split.folds[k].test = Ranked(kept, Start(n, k), Start(n, k) + Unit(n))
      BY <2>3 DEF FoldsOf
    <2>5. PICK u \in Nat \ {0}, first \in Nat \ {0} : u = Unit(n) /\ first = First(n)
      BY <2>3 DEF FoldsFit
    <2>6. \A x \in kept : Rank(kept, x) \in 0..(n - 1)
      BY <2>2, <2>3, RankGrows
    <2> DEFINE Tested == UNION {split.folds[k].test : k \in DOMAIN split.folds}
               Earlier(k) == {i \in kept : \A j \in split.folds[k].test : Before(i, j)}
               Rest == {i \in kept : \A j \in Tested : Before(j, i)}
               end == End(n, N)
    <2>7. end \in first..n /\ first < end /\ end - first = u * N /\ n - end < Longest
      <3>1. end = first + u * N /\ u * N \in Nat /\ u * N > 0
        BY <2>5 DEF End
      <3>2. end <= n /\ n < end + Longest
        BY <2>3 DEF FoldsFit
      <3>3. Longest \in Int
        BY <2>2, Parameters DEF Longest, SplitIInv, Folding, Temporal
      <3> HIDE DEF end
      <3> QED
        BY <3>1, <3>2, <3>3
    <2>8. ASSUME NEW k \in 1..N
          PROVE  /\ From(n, k) \in 0..n /\ Start(n, k) \in From(n, k)..n /\ Start(n, k) \in 0..n
                 /\ Start(n, k) + u \in Start(n, k)..n
                 /\ From(n, k) < Start(n, k) /\ Start(n, k) < Start(n, k) + u
      <3>1. /\ From(n, k) \in Nat /\ Start(n, k) \in Nat /\ Unit(n) \in Nat \ {0}
            /\ From(n, k) < Start(n, k)
            /\ Start(n, k) + Unit(n) <= End(n, N) /\ End(n, N) \in 0..n
        BY <2>3, FoldBounds DEF SplitIInv
      <3> QED
        BY <2>5, <3>1
    <2>9. ASSUME NEW k \in 1..N
          PROVE  /\ Cardinality(split.folds[k].test) = u
                 /\ Earlier(k) = Ranked(kept, 0, Start(n, k))
                 /\ Cardinality(Earlier(k)) = Start(n, k)
                 /\ split.folds[k].train # {}
      <3>1. split.folds[k].test = Ranked(kept, Start(n, k), Start(n, k) + u)
        BY <2>4, <2>5
      <3>2. Cardinality(split.folds[k].test) = (Start(n, k) + u) - Start(n, k)
        <4>1. PICK i, j : i = Start(n, k) /\ j = Start(n, k) + u
          OBVIOUS
        <4>2. i \in 0..Cardinality(kept) /\ j \in i..Cardinality(kept)
          BY <2>3, <2>8, <4>1
        <4>3. Cardinality(Ranked(kept, i, j)) = j - i
          BY <2>2, <4>2, RankedSize
        <4> QED
          BY <3>1, <4>1, <4>3
      <3>3. Earlier(k) = Ranked(kept, 0, Start(n, k))
        BY <2>2, <2>3, <2>8, <3>1, AroundRanked
      <3>4. Cardinality(Ranked(kept, 0, Start(n, k))) = Start(n, k) - 0
        <4>1. 0 \in 0..n /\ Start(n, k) \in 0..n
          BY <2>8
        <4> QED
          BY <2>2, <2>3, <4>1, RankedSize
      <3>5. Ranked(kept, From(n, k), Start(n, k)) # {}
        BY <2>2, <2>3, <2>8, RankedSize
      <3>6. split.folds[k].train # {}
        BY <2>4, <3>5
      <3>7. (Start(n, k) + u) - Start(n, k) = u /\ Start(n, k) - 0 = Start(n, k)
        BY <2>8
      <3> HIDE DEF Earlier
      <3> QED
        BY <3>2, <3>3, <3>4, <3>6, <3>7
    <2>10. ASSUME NEW k \in 1..N
           PROVE  split.folds[k].train =
                      IF request.strategy # "rolling_window" THEN Earlier(k)
                      ELSE {i \in Earlier(k) :
                               Rank(kept, i) >= Cardinality(Earlier(k)) - request.size}
      <3>1. CASE request.strategy # "rolling_window"
        BY <2>4, <2>9, <3>1 DEF From
      <3>2. CASE request.strategy = "rolling_window"
        <4>1. first = request.size /\ Start(n, k) = first + u * (k - 1) /\ From(n, k) = u * (k - 1)
          BY <2>5, <3>2 DEF First, Start, From
        <4>2. u * (k - 1) \in Nat
          OBVIOUS
        <4>3. Cardinality(Earlier(k)) - request.size = From(n, k) /\ From(n, k) \in Nat
          BY <2>9, <4>1, <4>2
        <4>4. Earlier(k) = Ranked(kept, 0, Start(n, k))
          BY <2>9
        <4>5. Ranked(kept, From(n, k), Start(n, k))
              = {i \in Ranked(kept, 0, Start(n, k)) : Rank(kept, i) >= From(n, k)}
          BY <2>6, <4>3 DEF Ranked
        <4> HIDE DEF Earlier
        <4> QED
          BY <2>4, <3>2, <4>3, <4>4, <4>5
      <3> QED
        BY <3>1, <3>2
    <2>11. Tested = Ranked(kept, first, end)
      <3>1. Tested = UNION {Ranked(kept, Start(n, k), Start(n, k) + Unit(n)) : k \in 1..N}
        BY <2>4
      <3> QED
        <4>1. request \in Request
          BY DEF SplitIInv
        <4>2. UNION {Ranked(kept, Start(n, k), Start(n, k) + Unit(n)) : k \in 1..N}
              = Ranked(kept, First(n), End(n, N))
          BY <2>2, <2>3, <4>1, TestsAreOneRange
        <4> QED
          BY <2>5, <3>1, <4>2
    <2> HIDE DEF Tested, end
    <2>12. Cardinality(Tested) = u * N
      BY <2>2, <2>3, <2>7, <2>11, RankedSize
    <2>13. Rest = Ranked(kept, end, n)
      <3>1. first \in 0..n /\ end \in first..n
        BY <2>7
      <3> QED
        BY <2>2, <2>3, <2>7, <2>11, <3>1, AroundRanked
    <2>14. Cardinality(Rest) = n - end
      <3>1. end \in 0..n /\ n \in end..n
        BY <2>7
      <3> QED
        BY <2>2, <2>3, <2>13, <3>1, RankedSize
    <2>15. Tested \union Rest \union Earlier(1) = kept
      <3>1. Earlier(1) = Ranked(kept, 0, first)
        <4>1. 1 \in 1..N /\ Start(n, 1) = first
          BY <2>5 DEF Start
        <4> QED
          BY <2>9, <4>1
      <3> HIDE DEF Earlier, Rest
      <3>2. \A x \in kept : \/ x \in Ranked(kept, first, end)
                            \/ x \in Ranked(kept, end, n)
                            \/ x \in Ranked(kept, 0, first)
        BY <2>6, <2>7 DEF Ranked
      <3>3. Ranked(kept, first, end) \union Ranked(kept, end, n) \union Ranked(kept, 0, first)
            = kept
        BY <3>2 DEF Ranked
      <3> QED
        BY <2>11, <2>13, <3>1, <3>3
    <2>16. u = IF request.strategy = "time_series_split"
               THEN Cardinality(kept) \div (request.size + 1) ELSE request.step
      BY <2>3, <2>5 DEF Unit
    <2>17. IF request.strategy = "time_series_split"
           THEN Cardinality(Rest) = Cardinality(kept) % (request.size + 1)
           ELSE Cardinality(Rest) < request.step
      <3>1. CASE request.strategy = "time_series_split"
        <4>1. N = request.size /\ first = u /\ u = n \div (N + 1)
          BY <2>3, <2>5, <3>1 DEF FoldsFit, First, Unit
        <4>2. end = u + u * N
          BY <2>5, <4>1 DEF end, End
        <4>3. u + u * N = (N + 1) * u
          BY <4>1
        <4>4. N + 1 \in Nat \ {0} /\ n \in Nat
          OBVIOUS
        <4>5. n % (N + 1) = n - (N + 1) * (n \div (N + 1))
          BY <4>4, Remainder
        <4> QED
          BY <2>3, <2>14, <3>1, <4>1, <4>2, <4>3, <4>5
      <3>2. CASE request.strategy # "time_series_split"
        BY <2>7, <2>14, <3>2 DEF Longest
      <3> QED
        BY <3>1, <3>2
    <2> QED
      BY <2>4, <2>9, <2>10, <2>12, <2>15, <2>16, <2>17 DEF FoldsTile, Before, Rank, Tested
  <1> QED
    BY <1>1, SplitInductiveInvariant, PTL
=============================================================================
