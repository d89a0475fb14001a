----------------------- MODULE FixtureOutcomesProofs -----------------------
(***************************************************************************)
(* Proofs about FixtureOutcomes, for any number of syncs that overlap as   *)
(* they like: its types, that a sync that is not behind moves the status   *)
(* along the lifecycle only, and that, until one that is behind goes on to *)
(* write, no prediction is judged by a score of a match in play and        *)
(* outcomes follow the score of their fixture. The inductive invariant     *)
(* follows a score from the provider's report through the record and the   *)
(* entity to the outcome.                                                  *)
(***************************************************************************)
EXTENDS FixtureOutcomes, TLAPS

(* An idle job is a job. *)
LEMMA IdleIsAJob == IdleJob \in Job /\ IdleJob.todo = {} /\ IdleJob.pc = "idle"
  BY DEF IdleJob, Job, PC, Sync, Fixtures, Row, Unplayed, FixtureStatus, ScoreOrNone

(* The fields of a job. *)
LEMMA JobFields ==
  ASSUME NEW r \in Job
  PROVE  /\ r.pc \in PC /\ r.kind \in Sync /\ r.record \in Row /\ r.entity \in Row
         /\ r.todo \in SUBSET Prediction /\ r.at \in Prediction \union {NoPrediction}
         /\ r.seen \in ScoreOrNone
  BY DEF Job

(* What is merged from two rows is a row. *)
LEMMA MergedTyped ==
  ASSUME NEW existing \in Row, NEW record \in Row, NEW kind \in Sync
  PROVE  Merged(existing, record, kind) \in Row
  <1>1. ResolvedStatus(existing.status, record.status, kind) \in FixtureStatus
    BY DEF Row, ResolvedStatus
  <1>2. ResolvedScore(existing.score, record.score, kind) \in ScoreOrNone
    BY DEF Row, ResolvedScore
  <1> QED
    BY <1>1, <1>2 DEF Merged, Row

-----------------------------------------------------------------------------
(* Initially every variable has its type. *)
LEMMA InitTyped == Init => TypeOK
  <1> SUFFICES ASSUME Init PROVE TypeOK
    OBVIOUS
  <1>1. Unplayed \in Row
    BY DEF Unplayed, Row, FixtureStatus, ScoreOrNone
  <1>2. job \in [Worker -> Job] /\ \A w \in Worker : job[w].todo \subseteq published
    BY IdleIsAJob DEF Init
  <1>3. crashes \in 0..MaxCrashes
    BY BoundAssumption DEF Init
  <1>4. overtaken \in BOOLEAN /\ behind \in SUBSET Worker
    BY DEF Init
  <1> QED
    BY <1>1, <1>2, <1>3, <1>4 DEF Init, TypeOK, ScoreOrNone

(* What a step of worker w changes of the jobs. *)
LEMMA ProceedFacts ==
  ASSUME TypeOK, NEW w \in Worker, NEW r, Proceed(w, r)
  PROVE  job'[w] = r /\ \A v \in Worker \ {w} : job'[v] = job[v]
  BY DEF Proceed, TypeOK

(* A step that gives one worker another well-typed job, whose predictions  *)
(* are published, and changes no prediction's status.                      *)
LEMMA JobTyped ==
  ASSUME TypeOK, NEW w \in Worker, NEW r \in Job, Proceed(w, r),
         r.todo \subseteq published, UNCHANGED published
  PROVE  /\ job' \in [Worker -> Job]
         /\ \A v \in Worker : job'[v].todo \subseteq published'
  BY DEF TypeOK, Proceed

(* Every step keeps every variable in its type. *)
LEMMA StepTyped == TypeOK /\ [Next]_vars => TypeOK'
  <1> SUFFICES ASSUME TypeOK, [Next]_vars PROVE TypeOK'
    OBVIOUS
  <1> USE DEF tables, reports
  <1>1. \A w \in Worker : job[w] \in Job /\ job[w].todo \subseteq published
    BY DEF TypeOK
  <1>2. CASE Play
    <2>1. PICK next \in Row : Follows(next) /\ truth' = next
      BY <1>2 DEF Play
    <2>2. next.status \in {"completed", "live"} => next.score \in Score
      <3>1. CASE next = [truth EXCEPT !.status = "cancelled"]
        BY <3>1 DEF TypeOK, Row
      <3>2. CASE next # [truth EXCEPT !.status = "cancelled"]
        BY <2>1, <3>2 DEF Follows
      <3> QED
        BY <3>1, <3>2
    <2> QED
      BY <1>2, <2>1, <2>2 DEF Play, TypeOK
  <1>3. ASSUME NEW p \in Prediction, Publish(p) PROVE TypeOK'
    BY <1>3 DEF Publish, TypeOK
  <1>4. ASSUME NEW w \in Worker, NEW kind \in Kinds, Fetch(w, kind) PROVE TypeOK'
    <2> DEFINE r == [IdleJob EXCEPT !.pc = "read", !.kind = kind, !.record = truth]
    <2>1. r \in Job /\ r.todo = {}
      BY IdleIsAJob, KindsAssumption DEF Job, PC, TypeOK
    <2>2. Proceed(w, r)
      BY <1>4 DEF Fetch
    <2> HIDE DEF r
    <2> QED
      BY <1>4, <2>1, <2>2, JobTyped DEF Fetch, TypeOK
  <1>5. ASSUME NEW w \in Worker, Read(w) PROVE TypeOK'
    <2> DEFINE entity == Merged(fixture, job[w].record, job[w].kind)
               r == [job[w] EXCEPT !.pc = "write", !.entity = entity]
    <2>1. r \in Job /\ r.todo = job[w].todo
      BY <1>1, MergedTyped, JobFields DEF Job, PC, TypeOK
    <2>2. Proceed(w, r)
      BY <1>5 DEF Read
    <2>3. fixture.score \in Score \union {NoScore}
      BY DEF TypeOK, Row, ScoreOrNone
    <2> HIDE DEF r
    <2>4. provisional' \in SUBSET Score
      BY <1>5, <2>3 DEF Read, TypeOK
    <2> QED
      BY <1>1, <1>5, <2>1, <2>2, <2>4, JobTyped DEF Read, TypeOK
  <1>6. ASSUME NEW w \in Worker, Write(w) PROVE TypeOK'
    <2> DEFINE r == IF job[w].entity.status = "completed" /\ job[w].entity.score # NoScore
                    THEN [job[w] EXCEPT !.pc = "list"] ELSE IdleJob
    <2>1. [job[w] EXCEPT !.pc = "list"] \in Job /\ [job[w] EXCEPT !.pc = "list"].todo = job[w].todo
      BY <1>1 DEF Job, PC
    <2>2. r \in Job /\ r.todo \subseteq published
      BY <1>1, <2>1, IdleIsAJob
    <2>3. Proceed(w, r) /\ fixture' \in Row
      BY <1>1, <1>6, JobFields DEF Write, End
    <2>4. behind' \in SUBSET Worker /\ overtaken' \in BOOLEAN
      BY <1>6 DEF Write, Pass, TypeOK
    <2> HIDE DEF r
    <2> QED
      BY <1>6, <2>2, <2>3, <2>4, JobTyped DEF Write, TypeOK
  <1>7. ASSUME NEW w \in Worker, ListPublished(w) PROVE TypeOK'
    <2> DEFINE r == [job[w] EXCEPT !.pc = "resolve", !.todo = published]
    <2>1. r \in Job /\ r.todo = published
      BY <1>1 DEF Job, PC, TypeOK
    <2>2. Proceed(w, r)
      BY <1>7 DEF ListPublished
    <2> HIDE DEF r
    <2> QED
      BY <1>7, <2>1, <2>2, JobTyped DEF ListPublished, TypeOK
  <1>8. ASSUME NEW w \in Worker, ReadOutcome(w) PROVE TypeOK'
    <2>0. behind' \in SUBSET Worker
      BY <1>8 DEF ReadOutcome, NoLonger, TypeOK
    <2>1. ASSUME NEW p \in job[w].todo,
                 Proceed(w, [job[w] EXCEPT !.pc = "put", !.at = p, !.seen = outcome[p],
                                           !.todo = @ \ {p}])
          PROVE  TypeOK'
      <3> DEFINE r == [job[w] EXCEPT !.pc = "put", !.at = p, !.seen = outcome[p],
                                     !.todo = @ \ {p}]
      <3>1. p \in Prediction /\ outcome[p] \in ScoreOrNone
        BY <1>1, JobFields DEF TypeOK
      <3>2. r \in Job /\ r.todo = job[w].todo \ {p}
        BY <1>1, <3>1, JobFields DEF Job, PC
      <3>3. Proceed(w, r)
        BY <2>1
      <3> HIDE DEF r
      <3> QED
        BY <1>1, <1>8, <2>0, <3>2, <3>3, JobTyped DEF ReadOutcome, TypeOK
    <2>2. CASE End(w)
      BY <1>8, <2>0, <2>2, IdleIsAJob, JobTyped DEF ReadOutcome, TypeOK, End
    <2> QED
      BY <1>8, <2>1, <2>2 DEF ReadOutcome
  <1>9. ASSUME NEW w \in Worker, RecordOrCorrect(w) PROVE TypeOK'
    <2> DEFINE r == [job[w] EXCEPT !.pc = "resolve", !.at = NoPrediction, !.seen = NoScore]
    <2>1. r \in Job /\ r.todo = job[w].todo
      BY <1>1 DEF Job, PC, ScoreOrNone
    <2>2. Proceed(w, r) \/ Proceed(w, IdleJob)
      BY <1>9 DEF RecordOrCorrect, NextOutcome, End
    <2>3. job[w].entity.score \in ScoreOrNone
      BY <1>1, JobFields DEF Row
    <2>4. outcome' \in [Prediction -> ScoreOrNone]
      BY <1>9, <2>3 DEF RecordOrCorrect, TypeOK
    <2>5. behind' \in SUBSET Worker /\ overtaken' \in BOOLEAN
      BY <1>9 DEF RecordOrCorrect, NoLonger, TypeOK
    <2> HIDE DEF r
    <2> QED
      BY <1>1, <1>9, <2>1, <2>2, <2>4, <2>5, IdleIsAJob, JobTyped DEF RecordOrCorrect, TypeOK
  <1>10. ASSUME NEW w \in Worker, Crash(w) PROVE TypeOK'
    <2>1. crashes' \in 0..MaxCrashes /\ behind' \in SUBSET Worker
      BY <1>10, BoundAssumption DEF Crash, NoLonger, TypeOK
    <2> QED
      BY <1>10, <2>1, IdleIsAJob, JobTyped DEF Crash, End, TypeOK
  <1>11. CASE UNCHANGED vars
    BY <1>11 DEF vars, TypeOK
  <1> QED
    BY <1>2, <1>3, <1>4, <1>5, <1>6, <1>7, <1>8, <1>9, <1>10, <1>11 DEF Next, Step

(* Every state has the types of the tables, and a resolution under way     *)
(* goes through published predictions only.                                *)
THEOREM TypeCorrect == Spec => []TypeOK
  BY InitTyped, StepTyped, PTL DEF Spec

-----------------------------------------------------------------------------
(* The scores a fixture may be completed with, and a row that is completed *)
(* with one of them only.                                                  *)
Ended == finals \union provisional
Over(row) == row.status = "completed" => finals # {} /\ row.score \in Ended

(* After the final whistle the provider reports such scores only. *)
Reports ==
    /\ truth.status = "completed" => finals # {}
    /\ finals # {} => truth.status \in {"live", "completed"} /\ truth.score \in Ended

(* A sync is one of those in use, and one that is not behind will write a  *)
(* status the lifecycle allows.                                            *)
Ahead(w) ==
    /\ job[w].kind \in Kinds \/ job[w].pc = "idle"
    /\ w \notin behind /\ job[w].pc = "write" =>
          Lawful(fixture.status, job[w].entity.status)

(* Where a score of an ended match may be on its way to the outcomes, in a *)
(* sync that is not behind.                                                *)
OnItsWay(w) ==
    w \notin behind =>
        /\ job[w].pc = "read" =>
              /\ Over(job[w].record)
              /\ fixture.status = "completed" => job[w].record.score \in Ended
        /\ job[w].pc = "write" => Over(job[w].entity)
        /\ job[w].pc \in {"list", "resolve", "put"} => job[w].entity.score \in Ended

Delivered ==
    /\ Over(fixture)
    /\ \A w \in Worker : OnItsWay(w)
    /\ \A p \in Prediction : outcome[p] # NoScore => outcome[p] \in Ended

IInv ==
    /\ TypeOK
    /\ Reports
    /\ \A w \in Worker : Ahead(w)
    /\ ~overtaken => Delivered

(* The invariant holds at the start. *)
LEMMA InitHolds == Init => IInv
  <1> SUFFICES ASSUME Init PROVE IInv
    OBVIOUS
  <1>1. \A w \in Worker : job[w].pc = "idle"
    BY IdleIsAJob DEF Init
  <1>2. fixture.status = "scheduled" /\ truth.status = "scheduled" /\ finals = {}
    BY DEF Init, Unplayed
  <1>3. Reports /\ \A w \in Worker : Ahead(w)
    BY <1>1, <1>2 DEF Reports, Ahead
  <1>4. Delivered
    BY <1>1, <1>2 DEF Delivered, Over, OnItsWay, Init
  <1> QED
    BY <1>3, <1>4, InitTyped DEF IInv

-----------------------------------------------------------------------------
(* A worker's step. *)
Work(w) == (\E kind \in Kinds : Fetch(w, kind)) \/ Step(w) \/ Crash(w)

(* The history only grows, and only Play changes what the provider says.   *)
LEMMA HistoryGrows ==
  ASSUME TypeOK, [Next]_vars
  PROVE  /\ finals \subseteq finals' /\ Ended \subseteq Ended'
         /\ overtaken => overtaken'
  <1> USE DEF tables, reports, Ended
  <1>1. CASE Play
    BY <1>1 DEF Play
  <1>2. CASE \E p \in Prediction : Publish(p)
    BY <1>2 DEF Publish
  <1>3. CASE \E w \in Worker : \E kind \in Kinds : Fetch(w, kind)
    BY <1>3 DEF Fetch
  <1>4. CASE \E w \in Worker : Read(w)
    BY <1>4 DEF Read
  <1>5. CASE \E w \in Worker : Write(w)
    BY <1>5 DEF Write
  <1>6. CASE \E w \in Worker : ListPublished(w)
    BY <1>6 DEF ListPublished
  <1>7. CASE \E w \in Worker : ReadOutcome(w)
    <2>1. PICK w \in Worker : ReadOutcome(w)
      BY <1>7
    <2>2. UNCHANGED <<finals, provisional, overtaken>>
      BY <2>1 DEF ReadOutcome
    <2> QED
      BY <2>2
  <1>8. CASE \E w \in Worker : RecordOrCorrect(w)
    <2>1. PICK w \in Worker : RecordOrCorrect(w)
      BY <1>8
    <2>2. /\ overtaken' = (overtaken \/ (w \in behind /\ outcome' # outcome))
          /\ UNCHANGED <<finals, provisional>>
      BY <2>1 DEF RecordOrCorrect
    <2> QED
      BY <2>2
  <1>9. CASE \E w \in Worker : Crash(w)
    BY <1>9 DEF Crash
  <1>10. CASE UNCHANGED vars
    BY <1>10 DEF vars
  <1> QED
    BY <1>1, <1>2, <1>3, <1>4, <1>5, <1>6, <1>7, <1>8, <1>9, <1>10 DEF Next, Step

(* A worker's step concerns that worker, except that its write leaves the  *)
(* others at work behind.                                                  *)
LEMMA OthersStay ==
  ASSUME TypeOK, NEW w \in Worker, Work(w), NEW v \in Worker, v # w
  PROVE  /\ job'[v] = job[v]
         /\ v \notin behind' =>
               job[v].pc = "idle" \/ (v \notin behind /\ fixture' = fixture)
  <1> USE DEF tables, reports
  <1>1. ASSUME NEW kind \in Kinds, Fetch(w, kind)
        PROVE  job'[v] = job[v] /\ behind' = behind /\ fixture' = fixture
    BY <1>1, ProceedFacts DEF Fetch
  <1>2. CASE Read(w) \/ ListPublished(w)
    BY <1>2, ProceedFacts DEF Read, ListPublished
  <1>3. CASE Write(w)
    <2>1. job'[v] = job[v]
      BY <1>3, ProceedFacts DEF Write, End
    <2> QED
      BY <1>3, <2>1 DEF Write, Pass
  <1>4. CASE ReadOutcome(w) \/ RecordOrCorrect(w) \/ Crash(w)
    <2>1. job'[v] = job[v]
      BY <1>4, ProceedFacts DEF ReadOutcome, RecordOrCorrect, Crash, End, NextOutcome
    <2>2. behind' \in {behind, behind \ {w}} /\ fixture' = fixture
      BY <1>4 DEF ReadOutcome, RecordOrCorrect, Crash, NoLonger
    <2> QED
      BY <2>1, <2>2
  <1> QED
    BY <1>1, <1>2, <1>3, <1>4 DEF Work, Step

(* What holds of the jobs holds of the other workers after a step.         *)
LEMMA OthersHold ==
  ASSUME IInv, [Next]_vars, NEW w \in Worker, Work(w), NEW v \in Worker, v # w
  PROVE  Ahead(v)' /\ (~overtaken' => OnItsWay(v)')
  <1>1. /\ job'[v] = job[v]
        /\ v \notin behind' => job[v].pc = "idle" \/ (v \notin behind /\ fixture' = fixture)
    BY OthersStay DEF IInv
  <1>2. finals \subseteq finals' /\ Ended \subseteq Ended' /\ (overtaken => overtaken')
    BY HistoryGrows DEF IInv
  <1>3. Ahead(v)'
    BY <1>1 DEF IInv, Ahead, Lawful
  <1>4. ~overtaken' => OnItsWay(v)'
    BY <1>1, <1>2 DEF IInv, Delivered, OnItsWay, Over
  <1> QED
    BY <1>3, <1>4

(* A worker's step that leaves the fixture and the outcomes alone keeps    *)
(* the invariant if its new job agrees with it.                            *)
LEMMA QuietStep ==
  ASSUME IInv, [Next]_vars, NEW w \in Worker, Work(w),
         UNCHANGED <<fixture, outcome, truth, finals>>,
         Ahead(w)', ~overtaken' => OnItsWay(w)'
  PROVE  IInv'
  <1>1. TypeOK' /\ Ended \subseteq Ended' /\ (overtaken => overtaken')
    BY StepTyped, HistoryGrows DEF IInv
  <1>2. \A v \in Worker : Ahead(v)' /\ (~overtaken' => OnItsWay(v)')
    BY OthersHold
  <1>3. Reports'
    BY <1>1 DEF IInv, Reports
  <1>4. ~overtaken' => Delivered'
    BY <1>1, <1>2 DEF IInv, Delivered, Over
  <1> QED
    BY <1>1, <1>2, <1>3, <1>4 DEF IInv

(* Play extends the history by what it reports. *)
LEMMA PlayStep ==
  ASSUME IInv, Play
  PROVE  IInv'
  <1>1. TypeOK' /\ [Next]_vars
    BY StepTyped DEF IInv, Next
  <1>2. finals \subseteq finals' /\ Ended \subseteq Ended'
    BY <1>1, HistoryGrows DEF IInv
  <1>3. UNCHANGED <<fixture, published, outcome, job, behind, overtaken>>
    BY DEF Play
  <1>4. Reports'
    <2>1. PICK next \in Row : Follows(next) /\ truth' = next
      BY DEF Play
    <2>2. truth'.status = "completed" => finals' # {} /\ truth'.score \in Ended'
      BY DEF Play, Ended
    <2>3. ASSUME finals # {} PROVE truth'.status \in {"live", "completed"}
      <3>1. truth.status \in {"live", "completed"} /\ truth.score \in Score
        BY <2>3 DEF IInv, Reports, Ended, TypeOK
      <3>2. truth.score # NoScore
        BY <3>1, ModelValues
      <3> QED
        BY <2>1, <2>3, <3>1, <3>2 DEF Follows
    <2>4. truth'.status = "live" /\ finals # {} => truth'.score \in Ended'
      BY DEF Play, Ended
    <2>5. finals = {} /\ finals' # {} => truth'.status = "completed"
      BY DEF Play
    <2> QED
      BY <2>2, <2>3, <2>4, <2>5 DEF Reports
  <1>5. \A w \in Worker : Ahead(w)'
    BY <1>3 DEF IInv, Ahead, Lawful
  <1>6. ~overtaken' => Delivered'
    BY <1>2, <1>3 DEF IInv, Delivered, Over, OnItsWay
  <1> QED
    BY <1>1, <1>4, <1>5, <1>6 DEF IInv

(* A record is as final as the provider's report. *)
LEMMA FetchStep ==
  ASSUME IInv, NEW w \in Worker, NEW kind \in Kinds, Fetch(w, kind)
  PROVE  IInv'
  <1> DEFINE r == [IdleJob EXCEPT !.pc = "read", !.kind = kind, !.record = truth]
  <1>1. r.pc = "read" /\ r.kind = kind /\ r.record = truth
    BY DEF IdleJob
  <1>2. job'[w] = r
    BY ProceedFacts DEF Fetch, IInv
  <1> HIDE DEF r
  <1>3. UNCHANGED <<fixture, outcome, truth, finals, provisional, behind, overtaken>>
    BY DEF Fetch, tables, reports
  <1>4. Ahead(w)'
    BY <1>1, <1>2 DEF Ahead
  <1>5. ~overtaken' => OnItsWay(w)'
    BY <1>1, <1>2, <1>3 DEF IInv, Delivered, Reports, OnItsWay, Over, Ended
  <1> QED
    BY <1>3, <1>4, <1>5, QuietStep DEF Work, Next

(* Merging gives a lawful status, and a completed row only of a score of   *)
(* the ended match.                                                        *)
LEMMA ReadStep ==
  ASSUME IInv, NEW w \in Worker, Read(w)
  PROVE  IInv'
  <1> DEFINE record == job[w].record
             kind == job[w].kind
             entity == Merged(fixture, record, kind)
             r == [job[w] EXCEPT !.pc = "write", !.entity = entity]
  <1>1. job[w] \in Job /\ job[w].pc = "read" /\ fixture \in Row
    BY DEF Read, IInv, TypeOK
  <1>2. r.pc = "write" /\ r.kind = kind /\ r.entity = entity
    BY <1>1 DEF Job
  <1>3. job'[w] = r
    BY ProceedFacts DEF Read, IInv
  <1>4. /\ entity.status = ResolvedStatus(fixture.status, record.status, kind)
        /\ entity.score = ResolvedScore(fixture.score, record.score, kind)
    BY DEF Merged
  <1>5. UNCHANGED <<fixture, outcome, truth, finals, behind, overtaken>>
    BY DEF Read, tables
  <1>6. w \notin behind => Lawful(fixture.status, entity.status)
    BY <1>1, <1>4 DEF IInv, Ahead, ResolvedStatus, Lawful
  <1>7. Ended \subseteq Ended' /\ Ended \subseteq Score
    BY HistoryGrows DEF IInv, Next, Step, TypeOK, Ended
  <1>8. ASSUME ~overtaken, w \notin behind, entity.status = "completed"
        PROVE  finals # {} /\ entity.score \in Ended'
    <2>1. fixture.status = "completed" \/ record.status = "completed"
      BY <1>4, <1>8 DEF ResolvedStatus
    <2>2. finals # {} /\ record.score \in Ended
      BY <1>1, <1>8, <2>1 DEF IInv, Delivered, OnItsWay, Over
    <2>3. record.score # NoScore
      BY <1>7, <2>2, ModelValues
    <2>4. CASE kind.preserve /\ fixture.score # NoScore
      <3>1. entity.score = fixture.score
        BY <1>4, <2>4 DEF ResolvedScore
      <3>2. CASE fixture.status = "completed"
        BY <1>7, <1>8, <3>1, <3>2 DEF IInv, Delivered, Over
      <3>3. CASE fixture.status # "completed"
        BY <1>8, <2>2, <2>4, <3>1, <3>3 DEF Read, Ended
      <3> QED
        BY <2>2, <3>1, <3>2, <3>3
    <2>5. CASE ~(kind.preserve /\ fixture.score # NoScore)
      BY <1>4, <1>7, <2>2, <2>3, <2>5 DEF ResolvedScore
    <2> QED
      BY <2>2, <2>4, <2>5
  <1> HIDE DEF r, entity
  <1>9. Ahead(w)'
    BY <1>1, <1>2, <1>3, <1>5, <1>6 DEF IInv, Ahead, Lawful
  <1>10. ~overtaken' => OnItsWay(w)'
    BY <1>2, <1>3, <1>5, <1>8 DEF OnItsWay, Over
  <1> QED
    BY <1>5, <1>9, <1>10, QuietStep DEF Work, Step, Next

(* The write of a sync that is not behind leaves a fixture completed with  *)
(* a score of the ended match.                                             *)
LEMMA WriteStep ==
  ASSUME IInv, NEW w \in Worker, Write(w)
  PROVE  IInv'
  <1> DEFINE entity == job[w].entity
             r == IF entity.status = "completed" /\ entity.score # NoScore
                  THEN [job[w] EXCEPT !.pc = "list"] ELSE IdleJob
  <1>1. TypeOK' /\ [Next]_vars /\ Work(w)
    BY StepTyped DEF IInv, Next, Step, Work
  <1>2. /\ job[w] \in Job /\ job[w].pc = "write" /\ fixture' = entity
        /\ UNCHANGED <<truth, outcome, finals, provisional>>
        /\ overtaken' = (overtaken \/ w \in behind)
    BY DEF Write, IInv, TypeOK, reports
  <1>3. job'[w] = r
    BY ProceedFacts DEF Write, End, IInv
  <1>4. \/ r.pc = "idle"
        \/ /\ r.pc = "list" /\ r.entity = entity /\ r.kind = job[w].kind
           /\ entity.status = "completed"
    BY <1>2, IdleIsAJob DEF Job
  <1> HIDE DEF r
  <1>5. job[w].kind \in Kinds
    BY <1>2 DEF IInv, Ahead
  <1>6. ~overtaken' => ~overtaken /\ w \notin behind /\ Over(entity)
    BY <1>2 DEF IInv, Delivered, OnItsWay
  <1>7. Ended' = Ended
    BY <1>2 DEF Ended
  <1>8. Ahead(w)'
    BY <1>3, <1>4, <1>5 DEF Ahead
  <1>9. ~overtaken' => OnItsWay(w)'
    BY <1>3, <1>4, <1>6, <1>7 DEF OnItsWay, Over
  <1>10. \A v \in Worker : Ahead(v)' /\ (~overtaken' => OnItsWay(v)')
    BY <1>1, <1>8, <1>9, OthersHold
  <1>11. Reports'
    BY <1>2, <1>7 DEF IInv, Reports
  <1>12. ~overtaken' => Delivered'
    BY <1>2, <1>6, <1>7, <1>10 DEF IInv, Delivered, Over
  <1> QED
    BY <1>1, <1>10, <1>11, <1>12 DEF IInv

(* The list keeps the entity whose score goes to the outcomes. *)
LEMMA ListStep ==
  ASSUME IInv, NEW w \in Worker, ListPublished(w)
  PROVE  IInv'
  <1> DEFINE r == [job[w] EXCEPT !.pc = "resolve", !.todo = published]
  <1>1. job[w] \in Job /\ job[w].pc = "list"
    BY DEF ListPublished, IInv, TypeOK
  <1>2. r.pc = "resolve" /\ r.kind = job[w].kind /\ r.entity = job[w].entity
    BY <1>1 DEF Job
  <1>3. job'[w] = r
    BY ProceedFacts DEF ListPublished, IInv
  <1> HIDE DEF r
  <1>4. UNCHANGED <<fixture, outcome, truth, finals, provisional, behind, overtaken>>
    BY DEF ListPublished, tables, reports
  <1>5. Ahead(w)'
    BY <1>1, <1>2, <1>3 DEF IInv, Ahead
  <1>6. ~overtaken' => OnItsWay(w)'
    BY <1>1, <1>2, <1>3, <1>4 DEF IInv, Delivered, OnItsWay, Ended
  <1> QED
    BY <1>4, <1>5, <1>6, QuietStep DEF Work, Step, Next

(* So does the choice of the next prediction. *)
LEMMA ReadOutcomeStep ==
  ASSUME IInv, NEW w \in Worker, ReadOutcome(w)
  PROVE  IInv'
  <1>1. job[w] \in Job /\ job[w].pc = "resolve"
    BY DEF ReadOutcome, IInv, TypeOK
  <1>2. UNCHANGED <<fixture, outcome, truth, finals, provisional, overtaken>>
    BY DEF ReadOutcome, tables, reports
  <1>3. \/ job'[w] = IdleJob
        \/ /\ job'[w].pc = "put" /\ job'[w].kind = job[w].kind
           /\ job'[w].entity = job[w].entity
    <2>1. ASSUME NEW p \in job[w].todo,
                 Proceed(w, [job[w] EXCEPT !.pc = "put", !.at = p, !.seen = outcome[p],
                                           !.todo = @ \ {p}])
          PROVE  /\ job'[w].pc = "put" /\ job'[w].kind = job[w].kind
                 /\ job'[w].entity = job[w].entity
      <3>1. job'[w] = [job[w] EXCEPT !.pc = "put", !.at = p, !.seen = outcome[p],
                                     !.todo = @ \ {p}]
        BY <2>1, ProceedFacts DEF IInv
      <3> QED
        BY <1>1, <3>1 DEF Job
    <2>2. CASE End(w)
      BY <2>2, ProceedFacts DEF End, IInv
    <2> QED
      BY <2>1, <2>2 DEF ReadOutcome
  <1>4. w \notin behind' => w \notin behind \/ job'[w].pc = "idle"
    BY DEF ReadOutcome, NoLonger
  <1>5. Ahead(w)'
    BY <1>1, <1>3, IdleIsAJob DEF IInv, Ahead
  <1>6. ~overtaken' => OnItsWay(w)'
    BY <1>1, <1>2, <1>3, <1>4, IdleIsAJob DEF IInv, Delivered, OnItsWay, Ended
  <1> QED
    BY <1>2, <1>5, <1>6, QuietStep DEF Work, Step, Next

(* A sync that is not behind records a score of the ended match; one that  *)
(* is behind is noted when it changes an outcome.                          *)
LEMMA RecordStep ==
  ASSUME IInv, NEW w \in Worker, RecordOrCorrect(w)
  PROVE  IInv'
  <1> DEFINE p == job[w].at
             fresh == job[w].entity.score
             r == [job[w] EXCEPT !.pc = "resolve", !.at = NoPrediction, !.seen = NoScore]
  <1>1. TypeOK' /\ [Next]_vars /\ Work(w)
    BY StepTyped DEF IInv, Next, Step, Work
  <1>2. /\ job[w] \in Job /\ job[w].pc = "put"
        /\ UNCHANGED <<truth, fixture, finals, provisional>>
        /\ overtaken' = (overtaken \/ (w \in behind /\ outcome' # outcome))
        /\ w \notin behind' => w \notin behind \/ job'[w].pc = "idle"
    BY DEF RecordOrCorrect, NoLonger, IInv, TypeOK, reports
  <1>3. r.pc = "resolve" /\ r.kind = job[w].kind /\ r.entity = job[w].entity
    BY <1>2 DEF Job
  <1>4. job'[w] = r \/ job'[w] = IdleJob
    BY ProceedFacts DEF RecordOrCorrect, NextOutcome, End, IInv
  <1> HIDE DEF r
  <1>5. Ended' = Ended
    BY <1>2 DEF Ended
  <1>6. Ahead(w)'
    BY <1>2, <1>3, <1>4, IdleIsAJob DEF IInv, Ahead
  <1>7. ~overtaken' => OnItsWay(w)'
    BY <1>2, <1>3, <1>4, <1>5, IdleIsAJob DEF IInv, Delivered, OnItsWay
  <1>8. \A v \in Worker : Ahead(v)' /\ (~overtaken' => OnItsWay(v)')
    BY <1>1, <1>6, <1>7, OthersHold
  <1>9. Reports'
    BY <1>2, <1>5 DEF IInv, Reports
  <1>10. ASSUME ~overtaken', NEW q \in Prediction, outcome'[q] # NoScore
         PROVE  outcome'[q] \in Ended
    <2>1. outcome \in [Prediction -> ScoreOrNone]
      BY DEF IInv, TypeOK
    <2>2. outcome'[q] = outcome[q] \/ (q = p /\ outcome'[q] = fresh /\ outcome' # outcome)
      BY <2>1 DEF RecordOrCorrect
    <2>3. CASE outcome'[q] = outcome[q]
      BY <1>2, <1>10, <2>3 DEF IInv, Delivered
    <2>4. CASE outcome'[q] = fresh /\ outcome' # outcome
      BY <1>2, <1>10, <2>4 DEF IInv, Delivered, OnItsWay
    <2> QED
      BY <2>2, <2>3, <2>4
  <1>11. ~overtaken' => Delivered'
    BY <1>2, <1>5, <1>8, <1>10 DEF IInv, Delivered, Over
  <1> QED
    BY <1>1, <1>8, <1>9, <1>11 DEF IInv

(* A crash forgets a job. *)
LEMMA CrashStep ==
  ASSUME IInv, NEW w \in Worker, Crash(w)
  PROVE  IInv'
  <1>1. job'[w].pc = "idle"
    BY ProceedFacts, IdleIsAJob DEF Crash, End, IInv
  <1>2. UNCHANGED <<fixture, outcome, truth, finals>>
    BY DEF Crash, tables, reports
  <1>3. Ahead(w)' /\ OnItsWay(w)'
    BY <1>1 DEF Ahead, OnItsWay
  <1> QED
    BY <1>2, <1>3, QuietStep DEF Work, Next

(* The invariant is kept by every step. *)
LEMMA StepHolds == IInv /\ [Next]_vars => IInv'
  <1> SUFFICES ASSUME IInv, [Next]_vars PROVE IInv'
    OBVIOUS
  <1>1. CASE Play
    BY <1>1, PlayStep
  <1>2. CASE \E p \in Prediction : Publish(p)
    BY <1>2, StepTyped DEF Publish, reports, IInv, Reports, Ahead, Lawful, Delivered, Over,
                           OnItsWay, Ended
  <1>3. ASSUME NEW w \in Worker, NEW kind \in Kinds, Fetch(w, kind) PROVE IInv'
    BY <1>3, FetchStep
  <1>4. ASSUME NEW w \in Worker, Step(w) PROVE IInv'
    BY <1>4, ReadStep, WriteStep, ListStep, ReadOutcomeStep, RecordStep DEF Step
  <1>5. ASSUME NEW w \in Worker, Crash(w) PROVE IInv'
    BY <1>5, CrashStep
  <1>6. CASE UNCHANGED vars
    BY <1>6, StepTyped DEF vars, IInv, Reports, Ahead, Lawful, Delivered, Over, OnItsWay, Ended
  <1> QED
    BY <1>1, <1>2, <1>3, <1>4, <1>5, <1>6 DEF Next

(* However the syncs of a fixture overlap, one that is not behind will     *)
(* write a lawful status, and until one that is behind goes on to write,   *)
(* every score between the provider's report and the outcomes is one of    *)
(* the ended match.                                                        *)
THEOREM InductiveInvariant == Spec => []IInv
  BY InitHolds, StepHolds, PTL DEF Spec

(* No prediction is judged by a score of a match still being played, until *)
(* a sync that is behind goes on to write.                                 *)
THEOREM OnlyFinalScoresJudge == Spec => []OutcomesAreFinal
  <1>1. IInv => OutcomesAreFinal
    BY DEF IInv, Delivered, OutcomesAreFinal, Ended
  <1> QED
    BY <1>1, InductiveInvariant, PTL

(* Only a sync that is behind can take the status off the lifecycle.       *)
THEOREM LifecycleIsRespected == Spec => StatusMovesForward
  <1> DEFINE Forward == \/ Lawful(fixture.status, fixture'.status)
                        \/ \E w \in Worker : Stale(w)
  <1>1. IInv /\ [Next]_vars => [Forward]_vars
    <2> SUFFICES ASSUME IInv, [Next]_vars PROVE Forward \/ UNCHANGED vars
      OBVIOUS
    <2>1. ASSUME NEW w \in Worker, Write(w) PROVE Forward
      <3>1. CASE w \in behind
        <4>1. job'[w].pc \in {"list", "idle"}
          <5>1. job[w] \in Job
            BY DEF IInv, TypeOK
          <5>2. job'[w] = [job[w] EXCEPT !.pc = "list"] \/ job'[w] = IdleJob
            BY <2>1, ProceedFacts DEF Write, End, IInv
          <5> QED
            BY <5>1, <5>2, IdleIsAJob DEF Job
        <4>2. job[w].pc = "write"
          BY <2>1 DEF Write
        <4>3. Stale(w)
          BY <3>1, <4>1, <4>2 DEF Stale
        <4> QED
          BY <4>3
      <3>2. CASE w \notin behind
        BY <2>1, <3>2 DEF Write, IInv, Ahead
      <3> QED
        BY <3>1, <3>2
    <2>2. CASE fixture' = fixture
      BY <2>2 DEF Lawful
    <2>3. fixture' = fixture \/ \E w \in Worker : Write(w)
      BY DEF Next, Play, Publish, Fetch, Step, Read, ListPublished, ReadOutcome,
             RecordOrCorrect, Crash, vars, tables
    <2> QED
      BY <2>1, <2>2, <2>3
  <1>2. Spec => []IInv
    BY InductiveInvariant
  <1> QED
    BY <1>1, <1>2, PTL DEF Spec, StatusMovesForward

-----------------------------------------------------------------------------
(* A corrected score on its way to the outcomes: what the sync that wrote  *)
(* the fixture last has yet to look at is all that may still be of an      *)
(* older score.                                                            *)

(* A row that has its outcomes resolved. *)
Closed(row) == row.status = "completed" /\ row.score # NoScore

(* A sync that goes through the outcomes, and those it has yet to look at. *)
Resolving(j) == j.pc \in {"list", "resolve", "put"}
Pending(j) == CASE j.pc = "list" -> published
                [] j.pc = "resolve" -> j.todo
                [] j.pc = "put" -> j.todo \union {j.at}
                [] OTHER -> {}

(* What a sync's memory says of the fixture and of the outcome it has read. *)
UpToDate(j) ==
    /\ j.pc = "write" => (Closed(fixture) => Closed(j.entity))
    /\ Resolving(j) => j.entity = fixture /\ Closed(fixture)
    /\ j.pc = "put" => j.at \in published /\ j.seen = outcome[j.at]

(* Only published predictions of a closed fixture are judged. *)
JudgedIsClosed ==
    \A p \in Prediction : outcome[p] # NoScore => p \in published /\ Closed(fixture)

(* Outcomes that no sync in front has yet to look at are of the score the  *)
(* fixture has.                                                            *)
InFront == Worker \ behind
CaughtUp ==
    crashes = 0 =>
        \A p \in Prediction :
            (\A w \in InFront : p \notin Pending(job[w])) => outcome[p] \in {NoScore, fixture.score}

(* At most one sync in front goes through the outcomes: the last writer.   *)
OneResolves == \A v, w \in InFront : Resolving(job[v]) /\ Resolving(job[w]) => v = w

Following ==
    /\ JudgedIsClosed
    /\ \A w \in InFront : UpToDate(job[w])
    /\ OneResolves
    /\ CaughtUp

FollowInv == TypeOK /\ (~overtaken => Following)

(* The invariant holds at the start. *)
LEMMA InitFollows == Init => FollowInv
  <1> SUFFICES ASSUME Init PROVE FollowInv
    OBVIOUS
  <1>1. \A w \in Worker : job[w].pc = "idle"
    BY IdleIsAJob DEF Init
  <1>2. (\A w \in InFront : UpToDate(job[w])) /\ OneResolves
    BY <1>1 DEF InFront, UpToDate, OneResolves, Resolving
  <1>3. JudgedIsClosed /\ CaughtUp
    BY DEF Init, JudgedIsClosed, CaughtUp
  <1> QED
    BY <1>2, <1>3, InitTyped DEF FollowInv, Following

(* An idle job has nothing to do. *)
LEMMA IdleFollows == UpToDate(IdleJob) /\ ~Resolving(IdleJob) /\ Pending(IdleJob) = {}
  BY IdleIsAJob DEF UpToDate, Resolving, Pending

(* A closed fixture stays closed when a record is merged into it. *)
LEMMA MergedClosed ==
  ASSUME NEW existing \in Row, NEW record \in Row, NEW kind \in Sync, Closed(existing)
  PROVE  Closed(Merged(existing, record, kind))
  <1>1. AllowedTransitions["completed"] = {}
    BY DEF AllowedTransitions, FixtureStatus
  <1>2. ResolvedStatus(existing.status, record.status, kind) = "completed"
    BY <1>1 DEF ResolvedStatus, Closed
  <1>3. ResolvedScore(existing.score, record.score, kind) # NoScore
    BY DEF ResolvedScore, Closed
  <1> QED
    BY <1>2, <1>3 DEF Closed, Merged

(* A sync moves on without touching the tables. *)
LEMMA SyncFollows ==
  ASSUME FollowInv, TypeOK', NEW w \in Worker, NEW r, Proceed(w, r),
         UNCHANGED <<fixture, published, outcome, crashes, overtaken>>,
         behind' = behind \/ (r = IdleJob /\ behind' = behind \ {w}),
         ~overtaken /\ w \notin behind =>
            /\ UpToDate(r) /\ Pending(r) = Pending(job[w])
            /\ Resolving(r) => Resolving(job[w])
  PROVE  FollowInv'
  <1> SUFFICES ASSUME ~overtaken PROVE Following'
    BY DEF FollowInv
  <1>1. job'[w] = r /\ \A v \in Worker \ {w} : job'[v] = job[v]
    BY ProceedFacts DEF FollowInv
  <1>2. InFront \subseteq InFront' /\ InFront' \subseteq InFront \union {w}
    BY DEF InFront
  <1>3. w \in InFront' => \/ r = IdleJob /\ w \notin InFront
                          \/ w \in InFront
    BY DEF InFront
  <1>4. JudgedIsClosed'
    BY DEF FollowInv, Following, JudgedIsClosed, Closed
  <1>5. w \in InFront' => /\ UpToDate(r)
                          /\ Resolving(r) => w \in InFront /\ Resolving(job[w])
    BY <1>3, IdleFollows DEF InFront
  <1>6. \A v \in InFront' : UpToDate(job'[v])
    BY <1>1, <1>2, <1>5 DEF FollowInv, Following, InFront
  <1>7. \A v \in InFront' : UpToDate(job[v])'
    BY <1>6 DEF UpToDate, Resolving, Closed
  <1>8. \A v \in InFront' : Resolving(job'[v]) => v \in InFront /\ Resolving(job[v])
    BY <1>1, <1>2, <1>5 DEF InFront
  <1>9. OneResolves'
    BY <1>8 DEF FollowInv, Following, OneResolves, Resolving
  <1>10. \A v \in InFront : Pending(job[v])' = Pending(job[v])
    BY <1>1 DEF Pending, InFront
  <1>11. CaughtUp'
    BY <1>2, <1>10 DEF FollowInv, Following, CaughtUp
  <1> QED
    BY <1>4, <1>7, <1>9, <1>11 DEF Following

(* The write leaves a closed fixture closed and all its outcomes to be     *)
(* looked at, and every other sync at work behind.                         *)
LEMMA WriteFollows ==
  ASSUME FollowInv, TypeOK', NEW w \in Worker, Write(w)
  PROVE  FollowInv'
  <1> SUFFICES ASSUME ~overtaken, w \notin behind PROVE Following'
    BY DEF FollowInv, Write
  <1> DEFINE entity == job[w].entity
             r == [job[w] EXCEPT !.pc = "list"]
  <1>1. /\ job[w] \in Job /\ job[w].pc = "write" /\ fixture' = entity
        /\ UNCHANGED <<published, outcome, crashes>>
    BY DEF Write, FollowInv, TypeOK
  <1>2. r.pc = "list" /\ r.entity = entity
    BY <1>1 DEF Job
  <1>3. \A v \in Worker \ {w} : job'[v] = job[v] /\ (v \in InFront' => job[v].pc = "idle")
    BY ProceedFacts DEF Write, End, Pass, InFront, FollowInv
  <1>4. w \in InFront /\ w \in InFront' /\ InFront' \subseteq Worker
    BY DEF Write, Pass, InFront
  <1>5. \A v \in InFront' \ {w} : UpToDate(job[v])' /\ ~Resolving(job[v])'
    BY <1>3, <1>4 DEF UpToDate, Resolving
  <1>6. OneResolves'
    BY <1>5 DEF OneResolves, Resolving
  <1>7. CASE Closed(entity)
    <2>1. job'[w] = r
      BY <1>7, ProceedFacts DEF Write, Closed, FollowInv
    <2> HIDE DEF r, entity
    <2>2. JudgedIsClosed'
      BY <1>1, <1>7 DEF FollowInv, Following, JudgedIsClosed, Closed
    <2>3. UpToDate(job[w])'
      BY <1>1, <1>2, <1>7, <2>1 DEF UpToDate, Resolving, Closed
    <2>4. Pending(job[w])' = published
      BY <1>1, <1>2, <2>1 DEF Pending
    <2>5. CaughtUp'
      BY <1>1, <1>4, <2>4 DEF FollowInv, Following, JudgedIsClosed, CaughtUp
    <2> QED
      BY <1>5, <1>6, <2>2, <2>3, <2>5 DEF Following
  <1>8. CASE ~Closed(entity)
    <2>1. job'[w] = IdleJob
      BY <1>8, ProceedFacts DEF Write, End, Closed, FollowInv
    <2>2. ~Closed(fixture)
      BY <1>1, <1>4, <1>8 DEF FollowInv, Following, UpToDate
    <2>3. \A p \in Prediction : outcome[p] = NoScore
      BY <2>2 DEF FollowInv, Following, JudgedIsClosed
    <2>4. JudgedIsClosed' /\ CaughtUp'
      BY <1>1, <2>3 DEF JudgedIsClosed, CaughtUp
    <2>5. UpToDate(job[w])'
      BY <2>1, IdleIsAJob DEF UpToDate, Resolving
    <2> QED
      BY <1>5, <1>6, <2>4, <2>5 DEF Following
  <1> QED
    BY <1>7, <1>8

(* The outcome looked at ends up of the fixture's score; a sync that is    *)
(* behind changes none.                                                    *)
LEMMA RecordFollows ==
  ASSUME FollowInv, TypeOK', NEW w \in Worker, RecordOrCorrect(w)
  PROVE  FollowInv'
  <1> SUFFICES ASSUME ~overtaken, ~overtaken' PROVE Following'
    BY DEF FollowInv, RecordOrCorrect
  <1> DEFINE p == job[w].at
             r == [job[w] EXCEPT !.pc = "resolve", !.at = NoPrediction, !.seen = NoScore]
  <1>1. /\ job[w] \in Job /\ job[w].pc = "put"
        /\ UNCHANGED <<fixture, published, crashes>>
        /\ behind' = IF job'[w].pc = "idle" THEN behind \ {w} ELSE behind
    BY DEF RecordOrCorrect, NoLonger, FollowInv, TypeOK
  <1>2. r.pc = "resolve" /\ r.entity = job[w].entity /\ r.todo = job[w].todo
    BY <1>1 DEF Job
  <1>3. /\ \/ Proceed(w, r) /\ job'[w] = r
           \/ Proceed(w, IdleJob) /\ job'[w] = IdleJob
        /\ \A v \in Worker \ {w} : job'[v] = job[v]
    BY ProceedFacts DEF RecordOrCorrect, NextOutcome, End, FollowInv
  <1>4. CASE w \in behind
    <2>1. UNCHANGED <<outcome, overtaken>>
      <3>1. overtaken' = (overtaken \/ (w \in behind /\ outcome' # outcome))
        BY DEF RecordOrCorrect
      <3>2. overtaken \in BOOLEAN /\ overtaken' \in BOOLEAN
        BY DEF FollowInv, TypeOK
      <3> QED
        BY <1>4, <3>1, <3>2
    <2>2. behind' = behind \/ (job'[w] = IdleJob /\ behind' = behind \ {w})
      BY <1>1, <1>2, <1>3, IdleIsAJob
    <2>3. PICK q : Proceed(w, q) /\ job'[w] = q
      BY <1>3
    <2>4. FollowInv'
      BY <1>1, <1>4, <2>1, <2>2, <2>3, SyncFollows
    <2> QED
      BY <2>4 DEF FollowInv
  <1>5. CASE w \notin behind
    <2>1. /\ w \in InFront /\ job[w].entity = fixture /\ Closed(fixture)
          /\ p \in published /\ job[w].seen = outcome[p]
      BY <1>1, <1>5 DEF FollowInv, Following, UpToDate, Resolving, InFront
    <2>2. p \in Prediction /\ outcome \in [Prediction -> ScoreOrNone]
      BY <2>1 DEF FollowInv, TypeOK
    <2>3. \A q \in Prediction : outcome'[q] = IF q = p THEN fixture.score ELSE outcome[q]
      BY <2>1, <2>2 DEF RecordOrCorrect
    <2>4. job'[w] = r /\ InFront' = InFront
      <3>1. job'[w] = r
        BY <2>1, ProceedFacts DEF RecordOrCorrect, NextOutcome, FollowInv
      <3> QED
        BY <1>1, <1>2, <1>5, <3>1 DEF InFront
    <2> HIDE DEF r, p
    <2>5. JudgedIsClosed'
      BY <1>1, <2>1, <2>3 DEF FollowInv, Following, JudgedIsClosed, Closed
    <2>6. \A v \in InFront' : v # w => ~Resolving(job[v])' /\ job'[v] = job[v]
      BY <1>1, <1>3, <2>1, <2>4 DEF FollowInv, Following, OneResolves, Resolving, InFront
    <2>7. \A v \in InFront' : UpToDate(job[v])'
      <3>1. UpToDate(job[w])'
        BY <1>1, <1>2, <2>1, <2>4 DEF UpToDate, Resolving, Closed
      <3>2. ASSUME NEW v \in InFront, v # w PROVE UpToDate(job[v])'
        BY <1>1, <2>4, <2>6, <3>2 DEF FollowInv, Following, UpToDate, Resolving, Closed
      <3> QED
        BY <2>4, <3>1, <3>2
    <2>8. OneResolves'
      BY <2>6 DEF OneResolves, Resolving
    <2>9. Pending(job[w])' = job[w].todo /\ Pending(job[w]) = job[w].todo \union {p}
      BY <1>1, <1>2, <2>4 DEF Pending, p
    <2>10. \A v \in InFront : v # w => Pending(job[v])' = Pending(job[v])
      BY <1>1, <1>3 DEF Pending, InFront
    <2>11. CaughtUp'
      BY <1>1, <2>1, <2>3, <2>4, <2>9, <2>10 DEF FollowInv, Following, CaughtUp
    <2> QED
      BY <2>5, <2>7, <2>8, <2>11 DEF Following
  <1> QED
    BY <1>4, <1>5

(* Every step keeps the invariant. *)
LEMMA StepFollows == FollowInv /\ [Next]_vars => FollowInv'
  <1> SUFFICES ASSUME FollowInv, [Next]_vars PROVE FollowInv'
    OBVIOUS
  <1>1. TypeOK /\ TypeOK'
    BY StepTyped DEF FollowInv
  <1>2. \A w \in Worker : job[w] \in Job /\ job[w].todo \subseteq published
    BY <1>1 DEF TypeOK
  <1>3. CASE UNCHANGED <<fixture, published, outcome, job, crashes, behind, overtaken>>
    BY <1>1, <1>3 DEF FollowInv, Following, JudgedIsClosed, UpToDate, CaughtUp, OneResolves,
                      Resolving, InFront, Pending, Closed
  <1>4. ASSUME NEW p \in Prediction, Publish(p) PROVE FollowInv'
    <2>1. /\ UNCHANGED <<fixture, outcome, job, crashes, behind, overtaken>>
          /\ published \subseteq published'
      BY <1>4 DEF Publish, reports
    <2>2. \A w \in Worker : Pending(job[w]) \subseteq Pending(job[w])'
      BY <2>1 DEF Pending
    <2>3. InFront' = InFront /\ InFront \subseteq Worker
      BY <2>1 DEF InFront
    <2>4. ~overtaken => CaughtUp'
      BY <2>1, <2>2, <2>3 DEF FollowInv, Following, CaughtUp
    <2>5. ~overtaken => JudgedIsClosed' /\ OneResolves' /\ \A w \in InFront' : UpToDate(job[w])'
      BY <2>1, <2>3 DEF FollowInv, Following, JudgedIsClosed, UpToDate, OneResolves,
                        Resolving, Closed
    <2> QED
      BY <1>1, <2>1, <2>4, <2>5 DEF FollowInv, Following
  <1>5. ASSUME NEW w \in Worker, NEW kind \in Kinds, Fetch(w, kind) PROVE FollowInv'
    <2> DEFINE r == [IdleJob EXCEPT !.pc = "read", !.kind = kind, !.record = truth]
    <2>1. r.pc = "read"
      BY DEF IdleJob
    <2>2. /\ Proceed(w, r) /\ job[w].pc = "idle"
          /\ UNCHANGED <<fixture, published, outcome, crashes, behind, overtaken>>
      BY <1>5 DEF Fetch, tables
    <2> HIDE DEF r
    <2>3. UpToDate(r) /\ Pending(r) = Pending(job[w]) /\ ~Resolving(r)
      BY <2>1, <2>2 DEF UpToDate, Pending, Resolving
    <2> QED
      BY <1>1, <2>2, <2>3, SyncFollows
  <1>6. ASSUME NEW w \in Worker, Read(w) PROVE FollowInv'
    <2> DEFINE entity == Merged(fixture, job[w].record, job[w].kind)
               r == [job[w] EXCEPT !.pc = "write", !.entity = entity]
    <2>1. /\ fixture \in Row /\ job[w].record \in Row /\ job[w].kind \in Sync
      BY <1>1, <1>2, JobFields DEF TypeOK
    <2>2. Closed(fixture) => Closed(entity)
      BY <2>1, MergedClosed
    <2>3. /\ Proceed(w, r) /\ job[w].pc = "read"
          /\ UNCHANGED <<fixture, published, outcome, crashes, behind, overtaken>>
      BY <1>6 DEF Read, tables
    <2> HIDE DEF entity
    <2>4. r.pc = "write" /\ r.entity = entity
      BY <1>2 DEF Job
    <2> HIDE DEF r
    <2>5. UpToDate(r) /\ Pending(r) = Pending(job[w]) /\ ~Resolving(r)
      BY <2>2, <2>3, <2>4 DEF UpToDate, Pending, Resolving
    <2> QED
      BY <1>1, <2>3, <2>5, SyncFollows
  <1>7. ASSUME NEW w \in Worker, Write(w) PROVE FollowInv'
    BY <1>1, <1>7, WriteFollows
  <1>8. ASSUME NEW w \in Worker, ListPublished(w) PROVE FollowInv'
    <2> DEFINE r == [job[w] EXCEPT !.pc = "resolve", !.todo = published]
    <2>1. r.pc = "resolve" /\ r.todo = published /\ r.entity = job[w].entity
      BY <1>2 DEF Job
    <2>2. /\ Proceed(w, r) /\ job[w].pc = "list"
          /\ UNCHANGED <<fixture, published, outcome, crashes, behind, overtaken>>
      BY <1>8 DEF ListPublished, tables
    <2> HIDE DEF r
    <2>3. ~overtaken /\ w \notin behind =>
             UpToDate(r) /\ Pending(r) = Pending(job[w]) /\ Resolving(job[w])
      BY <2>1, <2>2 DEF FollowInv, Following, InFront, UpToDate, Pending, Resolving
    <2> QED
      BY <1>1, <2>2, <2>3, SyncFollows
  <1>9. ASSUME NEW w \in Worker, ReadOutcome(w) PROVE FollowInv'
    <2>1. /\ job[w].pc = "resolve"
          /\ UNCHANGED <<fixture, published, outcome, crashes, overtaken>>
          /\ behind' = IF job'[w].pc = "idle" THEN behind \ {w} ELSE behind
      BY <1>9 DEF ReadOutcome, NoLonger, tables
    <2>2. ASSUME NEW p \in job[w].todo,
                 Proceed(w, [job[w] EXCEPT !.pc = "put", !.at = p, !.seen = outcome[p],
                                           !.todo = @ \ {p}])
          PROVE  FollowInv'
      <3> DEFINE r == [job[w] EXCEPT !.pc = "put", !.at = p, !.seen = outcome[p],
                                     !.todo = @ \ {p}]
      <3>1. p \in published
        BY <1>2
      <3>2. /\ r.pc = "put" /\ r.at = p /\ r.seen = outcome[p]
            /\ r.todo = job[w].todo \ {p} /\ r.entity = job[w].entity
        BY <1>2 DEF Job
      <3>3. Proceed(w, r) /\ job'[w] = r
        BY <1>1, <2>2, ProceedFacts
      <3> HIDE DEF r
      <3>4. behind' = behind
        BY <2>1, <3>2, <3>3
      <3>5. ~overtaken /\ w \notin behind =>
               UpToDate(r) /\ Pending(r) = Pending(job[w]) /\ Resolving(job[w])
        BY <2>1, <3>1, <3>2 DEF FollowInv, Following, InFront, UpToDate, Pending, Resolving
      <3> QED
        BY <1>1, <2>1, <3>3, <3>4, <3>5, SyncFollows
    <2>3. CASE job[w].todo = {} /\ End(w)
      <3>1. Proceed(w, IdleJob) /\ job'[w] = IdleJob
        BY <1>1, <2>3, ProceedFacts DEF End
      <3>2. Pending(IdleJob) = Pending(job[w])
        BY <2>1, <2>3, IdleFollows DEF Pending
      <3> QED
        BY <1>1, <2>1, <3>1, <3>2, IdleFollows, IdleIsAJob, SyncFollows
    <2> QED
      BY <1>9, <2>2, <2>3 DEF ReadOutcome
  <1>10. ASSUME NEW w \in Worker, RecordOrCorrect(w) PROVE FollowInv'
    BY <1>1, <1>10, RecordFollows
  <1>11. ASSUME NEW w \in Worker, Crash(w) PROVE FollowInv'
    <2>1. /\ crashes' # 0 /\ UNCHANGED <<fixture, published, outcome, overtaken>>
          /\ job'[w] = IdleJob /\ \A v \in Worker \ {w} : job'[v] = job[v]
          /\ InFront' = InFront \union {w}
      <3>1. crashes' # 0
        BY <1>1, <1>11, BoundAssumption DEF Crash, TypeOK
      <3>2. job'[w] = IdleJob /\ \A v \in Worker \ {w} : job'[v] = job[v]
        BY <1>1, <1>11, ProceedFacts DEF Crash, End
      <3>3. behind' = behind \ {w}
        BY <1>11, <3>2, IdleIsAJob DEF Crash, NoLonger
      <3> QED
        BY <1>11, <3>1, <3>2, <3>3 DEF Crash, InFront, tables
    <2>2. \A v \in InFront' : \/ v \in InFront /\ job'[v] = job[v]
                              \/ job'[v] = IdleJob
      BY <2>1 DEF InFront
    <2>3. ~overtaken => OneResolves' /\ \A v \in InFront' : UpToDate(job[v])'
      BY <2>1, <2>2, IdleIsAJob DEF FollowInv, Following, UpToDate, OneResolves, Resolving, Closed
    <2> QED
      BY <1>1, <2>1, <2>3 DEF FollowInv, Following, JudgedIsClosed, CaughtUp, Closed
  <1> QED
    BY <1>3, <1>4, <1>5, <1>6, <1>7, <1>8, <1>9, <1>10, <1>11 DEF Next, Step, Play, vars

(* As long as no sync that is behind goes on to write, however they        *)
(* overlap, every outcome is of the score its fixture has once the syncs   *)
(* are through, supplementary sources included.                            *)
THEOREM OutcomesKeepUp == Spec => []OutcomesFollowScore
  <1>1. FollowInv => OutcomesFollowScore
    BY DEF FollowInv, Following, CaughtUp, Pending, OutcomesFollowScore, InFront
  <1> QED
    BY <1>1, InitFollows, StepFollows, PTL DEF Spec

=============================================================================
