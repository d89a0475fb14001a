--------------------- MODULE PredictionLifecycleProofs ---------------------
(***************************************************************************)
(* Proofs about PredictionLifecycle for any predictions, any number of     *)
(* overlapping sessions, any time to live and any bound on the clock.      *)
(***************************************************************************)
EXTENDS MCPredictionLifecycle, TLAPS

(* Where a job stands: it has read the clock, it carries a prediction of   *)
(* its own once one was computed, and it never gives the status            *)
(* superseded to the prediction it carries.                                *)
JobInv(s) ==
    /\ job[s].pc \notin {"idle", "review"} => job[s].now < clock
    /\ job[s].pc \in {"commit", "record", "audit", "supersede", "review"} =>
          job[s].prediction \in Prediction
    /\ job[s].previous \in Recorded \cup {NoPrediction}
    /\ job[s].pc = "supersede" => job[s].previous # NoPrediction
    /\ job[s].pc = "review" => job[s].prediction \in Recorded
    /\ job[s].pc = "review" => job[s].status \in {"published", "voided"}
    /\ job[s].pc # "review" => job[s].status \in {"draft", "published"}

TypeInv == TypeOK /\ \A s \in Session : JobInv(s)

(* Only a sweep takes the sweep's steps; and the prediction a request is   *)
(* about to commit is its own: nobody has recorded it and no other job     *)
(* carries it.                                                             *)
OwnVersion(s) ==
    /\ job[s].pc \in {"due", "supersede", "record", "audit"} => job[s].sweep
    /\ job[s].pc = "commit" =>
          /\ job[s].prediction \notin Recorded
          /\ \A t \in Session \ {s} : job[t].prediction # job[s].prediction

IInv == TypeInv /\ \A s \in Session : OwnVersion(s)

-----------------------------------------------------------------------------

(* A step that changes one job and no prediction keeps TypeInv if that     *)
(* job's record is well formed and the clock does not go back.             *)
LEMMA JobStep ==
    ASSUME TypeInv, NEW s \in Session, NEW r \in Job,
           job' = [job EXCEPT ![s] = r],
           UNCHANGED predictions, audits' \subseteq Prediction,
           clock' \in Time, clock <= clock',
           JobInv(s)'
    PROVE  TypeInv'
<1>1. job' \in [Session -> Job] /\ job'[s] = r /\ \A t \in Session \ {s} : job'[t] = job[t]
  BY DEF TypeInv, TypeOK
<1>2. clock \in Int /\ clock' \in Int
  BY TimeAssumption DEF TypeInv, TypeOK, Time
<1>3. Recorded' = Recorded
  BY DEF Recorded
<1>4. TypeOK'
  <2>1. \A p \in Recorded : predictions[p].generated_at \in Int
    BY TimeAssumption DEF TypeInv, TypeOK, Row, Time, Recorded
  <2>2. QED
    BY <1>1, <1>2, <1>3, <2>1 DEF TypeInv, TypeOK
<1>5. ASSUME NEW t \in Session PROVE JobInv(t)'
  <2>1. CASE t = s
    BY <2>1
  <2>2. CASE t # s
    <3>1. job[t].now \in Int
      BY TimeAssumption DEF TypeInv, TypeOK, Job, Time
    <3>2. QED
      BY <2>2, <3>1, <1>1, <1>2, <1>3 DEF TypeInv, JobInv
  <2>3. QED
    BY <2>1, <2>2
<1>6. QED
  BY <1>4, <1>5 DEF TypeInv

(* The idle job is a job, and in order.                                    *)
LEMMA IdleJobType ==
    /\ IdleJob \in Job
    /\ IdleJob.pc = "idle" /\ IdleJob.status = "draft" /\ ~IdleJob.sweep
    /\ IdleJob.prediction = NoPrediction /\ IdleJob.previous = NoPrediction
BY TimeAssumption DEF IdleJob, Job, PC, Time, Status

(* A job may always end.                                                   *)
LEMMA EndStep ==
    ASSUME TypeInv, NEW s \in Session, End(s), UNCHANGED <<predictions, clock>>,
           audits' \subseteq Prediction
    PROVE  TypeInv'
<1>1. job'[s] = IdleJob
  BY DEF End, TypeInv, TypeOK
<1>2. JobInv(s)'
  BY <1>1, IdleJobType DEF JobInv
<1>3. clock' \in Time /\ clock <= clock'
  BY TimeAssumption DEF TypeInv, TypeOK, Time
<1>4. QED
  BY <1>2, <1>3, IdleJobType, JobStep DEF End

(* Writing rows: the versions a job gives a status to, or adds, are well   *)
(* formed and dated before now, and the other jobs' predictions stay       *)
(* recorded.                                                               *)
LEMMA RowStep ==
    ASSUME TypeInv, NEW s \in Session, NEW r \in Job, NEW rows,
           job' = [job EXCEPT ![s] = r], predictions' = rows,
           rows \in [Prediction -> Row],
           \A p \in Prediction : rows[p].status # "none" => rows[p].generated_at < clock,
           \A p \in Recorded : rows[p].status # "none",
           clock' = clock, audits' \subseteq Prediction,
           JobInv(s)'
    PROVE  TypeInv' /\ Recorded \subseteq Recorded'
<1>1. job' \in [Session -> Job] /\ job'[s] = r /\ \A t \in Session \ {s} : job'[t] = job[t]
  BY DEF TypeInv, TypeOK
<1>2. TypeOK'
  BY <1>1 DEF TypeInv, TypeOK, Recorded
<1>3. Recorded \subseteq Recorded'
  BY DEF Recorded
<1>4. ASSUME NEW t \in Session PROVE JobInv(t)'
  <2>1. CASE t = s
    BY <2>1
  <2>2. CASE t # s
    BY <2>2, <1>1, <1>3 DEF TypeInv, JobInv
  <2>3. QED
    BY <2>1, <2>2
<1>5. QED
  BY <1>2, <1>3, <1>4 DEF TypeInv

(* WithSuperseded rewrites one status.                                     *)
LEMMA Superseding ==
    ASSUME TypeInv, NEW q \in Prediction \cup {NoPrediction}
    PROVE  /\ WithSuperseded(q) \in [Prediction -> Row]
           /\ \A p \in Prediction : p # q => WithSuperseded(q)[p] = predictions[p]
           /\ q \in Prediction => WithSuperseded(q)[q].status = "superseded"
           /\ \A p \in Prediction :
                 WithSuperseded(q)[p].generated_at = predictions[p].generated_at
<1>1. \A p \in Prediction : predictions[p] \in Row
  BY DEF TypeInv, TypeOK
<1>2. "superseded" \in Status
  BY DEF Status
<1>3. CASE q = NoPrediction
  BY <1>3, PredictionAssumption DEF WithSuperseded, TypeInv, TypeOK
<1>4. CASE q \in Prediction
  <2> DEFINE row == [predictions[q] EXCEPT !.status = "superseded"]
  <2>1. row \in Row /\ row.status = "superseded" /\ row.generated_at = predictions[q].generated_at
    BY <1>1, <1>2, <1>4 DEF Row
  <2>2. WithSuperseded(q) = [predictions EXCEPT ![q] = row]
    BY <1>4, PredictionAssumption DEF WithSuperseded
  <2> HIDE DEF row
  <2>3. QED
    BY <1>4, <2>1, <2>2 DEF TypeInv, TypeOK
<1>5. QED
  BY <1>3, <1>4

-----------------------------------------------------------------------------

(* Every action keeps TypeInv.                                             *)
LEMMA InitTypeInv == Init => TypeInv
<1> SUFFICES ASSUME Init PROVE TypeInv
  OBVIOUS
<1>1. [status |-> "none", generated_at |-> 0] \in Row
  BY TimeAssumption DEF Row, Time
<1>2. TypeOK
  BY <1>1, IdleJobType, TimeAssumption DEF Init, TypeOK, Recorded, Time
<1>3. \A s \in Session : JobInv(s)
  BY IdleJobType DEF Init, JobInv
<1>4. QED
  BY <1>2, <1>3 DEF TypeInv

(* Reading the clock keeps it in its range.                                *)
LEMMA ClockMoves ==
    ASSUME TypeInv, ReadClock
    PROVE  clock \in Time /\ clock' \in Time /\ clock < clock' /\ clock <= clock'
BY TimeAssumption DEF TypeInv, TypeOK, ReadClock, Time

(* A new generation, of a request or of the sweep.                         *)
LEMMA StartStep ==
    ASSUME TypeInv, NEW s \in Session, NEW r \in Job, r.now = clock, r.status = "draft",
           r.pc \in {"generate", "due"}, r.previous = NoPrediction,
           Begin(s, r), ReadClock, UNCHANGED <<predictions, audits>>
    PROVE  TypeInv'
<1>0. clock \in Time /\ clock' \in Time /\ clock < clock' /\ clock <= clock'
  BY ClockMoves
<1>3. job' = [job EXCEPT ![s] = r]
  BY DEF Begin
<1>4. job'[s] = r
  BY <1>3 DEF TypeInv, TypeOK
<1>5. JobInv(s)'
  BY <1>0, <1>4 DEF JobInv
<1>6. audits' \subseteq Prediction
  BY DEF TypeInv, TypeOK
<1>7. QED
  BY <1>0, <1>3, <1>5, <1>6, JobStep

(* The record of a generation that starts.                                 *)
LEMMA StartFields ==
    ASSUME TypeInv
    PROVE  LET request == [IdleJob EXCEPT !.pc = "generate", !.now = clock]
               sweep == [IdleJob EXCEPT !.pc = "due", !.sweep = TRUE, !.now = clock]
           IN  /\ request \in Job /\ request.pc = "generate" /\ request.now = clock
               /\ request.status = "draft" /\ ~request.sweep
               /\ request.prediction = NoPrediction /\ request.previous = NoPrediction
               /\ sweep \in Job /\ sweep.pc = "due" /\ sweep.now = clock
               /\ sweep.status = "draft" /\ sweep.previous = NoPrediction
               /\ sweep.sweep /\ sweep.prediction = NoPrediction
BY DEF TypeInv, TypeOK, IdleJob, Job, PC, Status

(* Starting a request's generation.                                        *)
LEMMA StartGenerationTypeInv ==
    ASSUME TypeInv, NEW s \in Session, NEW forced \in BOOLEAN, StartGeneration(s, forced)
    PROVE  TypeInv'
BY StartFields, StartStep DEF StartGeneration

(* Starting the sweep.                                                     *)
LEMMA StartSweepTypeInv ==
    ASSUME TypeInv, NEW s \in Session, StartSweep(s)
    PROVE  TypeInv'
BY StartFields, StartStep DEF StartSweep

(* The engine's answer.                                                    *)
LEMMA GenerateTypeInv ==
    ASSUME TypeInv, NEW s \in Session, NEW p \in Prediction, Generate(s, p)
    PROVE  TypeInv' /\ \E r \in Job :
              /\ job' = [job EXCEPT ![s] = r]
              /\ r.pc = "commit" \/ r.sweep
              /\ r.prediction = p
              /\ r.previous \in Recorded \cup {NoPrediction}
<1>1. PICK st \in {"draft", "published"},
           old \in IF Latest \cap Published = {} THEN {NoPrediction} ELSE Latest \cap Published :
        LET pc == IF ~job[s].sweep THEN "commit"
                   ELSE IF old = NoPrediction THEN "record" ELSE "supersede"
        IN  job' = [job EXCEPT ![s].pc = pc, ![s].prediction = p,
                               ![s].status = st, ![s].previous = old]
  BY DEF Generate
<1> DEFINE pc == IF ~job[s].sweep THEN "commit"
                 ELSE IF old = NoPrediction THEN "record" ELSE "supersede"
           r == [job[s] EXCEPT !.pc = pc, !.prediction = p, !.status = st, !.previous = old]
<1>2. job[s] \in Job /\ job[s].pc = "generate"
  BY DEF TypeInv, TypeOK, Generate
<1>3. old \in Recorded \cup {NoPrediction} /\ Recorded \subseteq Prediction
  BY DEF Latest, Recorded
<1>4. pc \in {"commit", "record", "supersede"} /\ (pc = "supersede" => old # NoPrediction)
      /\ (~job[s].sweep => pc = "commit")
  OBVIOUS
<1>5. job' = [job EXCEPT ![s] = r]
  BY <1>1
<1> HIDE DEF pc
<1>6. r \in Job
  BY <1>2, <1>3, <1>4 DEF Job, PC, Status
<1>7. r.pc = pc /\ r.sweep = job[s].sweep /\ r.prediction = p /\ r.status = st /\ r.previous = old /\ r.now = job[s].now
  BY <1>2 DEF Job
<1>8. job[s].now < clock
  BY <1>2 DEF TypeInv, JobInv
<1> HIDE DEF r
<1>10. job'[s] = r
  BY <1>5 DEF TypeInv, TypeOK
<1>11. UNCHANGED <<predictions, audits, clock>>
  BY DEF Generate
<1>12. JobInv(s)'
  BY <1>3, <1>4, <1>7, <1>8, <1>10, <1>11 DEF JobInv, Recorded
<1>13. audits' \subseteq Prediction /\ clock' \in Time /\ clock <= clock'
  BY <1>11, TimeAssumption DEF TypeInv, TypeOK, Time
<1>14. QED
  BY <1>3, <1>4, <1>5, <1>6, <1>7, <1>11, <1>12, <1>13, JobStep

(* A job that goes on to another step without changing anything else.      *)
LEMMA GoOnStep ==
    ASSUME TypeInv, NEW s \in Session, NEW pc \in {"generate", "record", "audit"},
           NEW rows, job' = [job EXCEPT ![s].pc = pc], predictions' = rows,
           rows \in [Prediction -> Row],
           \A p \in Prediction : rows[p].status # "none" => rows[p].generated_at < clock,
           \A p \in Recorded : rows[p].status # "none",
           clock' = clock, audits' = audits,
           job[s].pc \notin {"idle", "review"},
           pc # "generate" => job[s].prediction \in Prediction
    PROVE  TypeInv'
<1> DEFINE r == [job[s] EXCEPT !.pc = pc]
<1>1. job[s] \in Job
  BY DEF TypeInv, TypeOK
<1>2. r \in Job
  BY <1>1 DEF Job, PC
<1>3. /\ r.pc = pc /\ r.prediction = job[s].prediction
      /\ r.status = job[s].status /\ r.now = job[s].now /\ r.previous = job[s].previous
  BY <1>1 DEF Job
<1>4. job' = [job EXCEPT ![s] = r]
  OBVIOUS
<1> HIDE DEF r
<1>5. job'[s] = r
  BY <1>4 DEF TypeInv, TypeOK
<1>6. Recorded \subseteq Recorded'
  BY DEF Recorded
<1>7. JobInv(s)'
  BY <1>3, <1>5, <1>6 DEF TypeInv, JobInv
<1>8. audits' \subseteq Prediction
  BY DEF TypeInv, TypeOK
<1>9. QED
  BY <1>2, <1>4, <1>7, <1>8, RowStep

(* The rows as they are satisfy what GoOnStep asks of them.                *)
LEMMA SameRows ==
    ASSUME TypeInv
    PROVE  /\ predictions \in [Prediction -> Row]
           /\ \A p \in Prediction : predictions[p].status # "none" =>
                 predictions[p].generated_at < clock
           /\ \A p \in Recorded : predictions[p].status # "none"
BY DEF TypeInv, TypeOK, Recorded

(* Superseding a version and adding one.                                   *)
LEMMA NewVersionRows ==
    ASSUME TypeInv, NEW s \in Session, NEW q \in Prediction \cup {NoPrediction},
           job[s].prediction \in Prediction, job[s].now < clock,
           job[s].status \in {"draft", "published"},
           q \in Prediction => q \in Recorded
    PROVE  LET rows == [WithSuperseded(q) EXCEPT ![job[s].prediction] = NewRow(s)]
           IN  /\ rows \in [Prediction -> Row]
               /\ \A p \in Prediction : rows[p].status # "none" => rows[p].generated_at < clock
               /\ \A p \in Recorded : rows[p].status # "none"
               /\ rows[job[s].prediction].status = job[s].status
               /\ \A p \in Prediction \ {job[s].prediction} :
                     rows[p].status = WithSuperseded(q)[p].status
<1> DEFINE base == WithSuperseded(q)
           rows == [base EXCEPT ![job[s].prediction] = NewRow(s)]
<1>1. base \in [Prediction -> Row]
  BY Superseding
<1>2. NewRow(s) \in Row /\ NewRow(s).status = job[s].status /\ NewRow(s).generated_at = job[s].now
  <2>1. job[s].status \in Status /\ job[s].now \in Time
    BY DEF TypeInv, TypeOK, Job
  <2>2. QED
    BY <2>1, SameRows DEF NewRow, Row
<1>3. \A p \in Prediction : base[p].status # "none" => base[p].generated_at < clock
  BY Superseding, SameRows DEF Recorded
<1>4. \A p \in Recorded : base[p].status # "none"
  BY Superseding DEF Recorded
<1> HIDE DEF base
<1>5. rows[job[s].prediction] = NewRow(s)
      /\ \A p \in Prediction \ {job[s].prediction} : rows[p] = base[p]
  BY <1>1
<1>6. rows \in [Prediction -> Row]
  BY <1>1, <1>2
<1> HIDE DEF rows
<1>7. /\ \A p \in Prediction : rows[p].status # "none" => rows[p].generated_at < clock
      /\ \A p \in Recorded : rows[p].status # "none"
      /\ rows[job[s].prediction].status = job[s].status
      /\ \A p \in Prediction \ {job[s].prediction} : rows[p].status = base[p].status
  BY <1>2, <1>3, <1>4, <1>5 DEF Recorded
<1>8. QED
  BY <1>6, <1>7 DEF rows, base

(* What a commit writes.                                                   *)
LEMMA CommitTypeInv ==
    ASSUME TypeInv, NEW s \in Session, Commit(s)
    PROVE  TypeInv' /\ Recorded \subseteq Recorded' /\ Recorded' = Recorded \cup {job[s].prediction}
<1> DEFINE rows == [WithSuperseded(job[s].previous) EXCEPT ![job[s].prediction] = NewRow(s)]
<1>1. job[s].prediction \in Prediction /\ job[s].now < clock
      /\ job[s].status \in {"draft", "published"}
  BY DEF TypeInv, JobInv, Commit
<1>2. job[s].previous \in Prediction \cup {NoPrediction}
  BY DEF TypeInv, TypeOK, Job
<1>3. job[s].previous \in Prediction => job[s].previous \in Recorded
  BY PredictionAssumption DEF TypeInv, JobInv
<1>4. /\ rows \in [Prediction -> Row]
      /\ \A p \in Prediction : rows[p].status # "none" => rows[p].generated_at < clock
      /\ \A p \in Recorded : rows[p].status # "none"
      /\ rows[job[s].prediction].status = job[s].status
      /\ \A p \in Prediction \ {job[s].prediction} :
            rows[p].status = WithSuperseded(job[s].previous)[p].status
  BY <1>1, <1>2, <1>3, NewVersionRows
<1>5. predictions' = rows /\ clock' = clock /\ job' = [job EXCEPT ![s] = IdleJob]
      /\ audits' = audits \cup {job[s].prediction}
  BY DEF Commit, End
<1> HIDE DEF rows
<1>6. job'[s] = IdleJob
  BY <1>5 DEF TypeInv, TypeOK
<1>7. JobInv(s)'
  BY <1>6, IdleJobType DEF JobInv
<1>8. audits' \subseteq Prediction
  BY <1>1, <1>5 DEF TypeInv, TypeOK
<1>9. TypeInv' /\ Recorded \subseteq Recorded'
  BY <1>4, <1>5, <1>7, <1>8, IdleJobType, RowStep
<1>10. \A p \in Prediction \ {job[s].prediction} : p \in Recorded' => p \in Recorded
  BY <1>2, <1>3, <1>4, <1>5, Superseding, ZenonT(40) DEF Recorded
<1>11. job[s].prediction \in Recorded'
  BY <1>1, <1>4, <1>5 DEF Recorded
<1>12. Recorded' \subseteq Prediction
  BY DEF Recorded
<1>13. QED
  BY <1>9, <1>10, <1>11, <1>12

(* What the commit of a review writes.                                     *)
LEMMA CommitReviewTypeInv ==
    ASSUME TypeInv, NEW s \in Session, CommitReview(s)
    PROVE  TypeInv' /\ Recorded' = Recorded
<1> DEFINE p == job[s].prediction
           row == [predictions[p] EXCEPT !.status = job[s].status]
<1>1. p \in Recorded /\ job[s].status \in {"published", "voided"} /\ p \in Prediction
  BY DEF TypeInv, JobInv, CommitReview
<1>2. row \in Row /\ row.status = job[s].status /\ row.generated_at = predictions[p].generated_at
  BY <1>1, SameRows DEF Row, Status
<1>3. predictions' = [predictions EXCEPT ![p] = row]
  BY DEF CommitReview
<1>4. UNCHANGED <<audits, clock>> /\ job' = [job EXCEPT ![s] = IdleJob]
  BY DEF CommitReview, End
<1> HIDE DEF row, p
<1>5. /\ predictions' \in [Prediction -> Row]
      /\ predictions'[p] = row
      /\ \A q \in Prediction \ {p} : predictions'[q] = predictions[q]
  BY <1>1, <1>2, <1>3, SameRows
<1>6. Recorded' = Recorded
  BY <1>1, <1>2, <1>5 DEF Recorded
<1>7. \A q \in Prediction : predictions'[q].status # "none" => predictions'[q].generated_at < clock
  BY <1>1, <1>2, <1>5, SameRows DEF Recorded
<1>8. \A q \in Recorded : predictions'[q].status # "none"
  BY <1>6 DEF Recorded
<1>9. job'[s] = IdleJob
  BY <1>4 DEF TypeInv, TypeOK
<1>10. JobInv(s)'
  BY <1>9, IdleJobType DEF JobInv
<1>11. audits' \subseteq Prediction
  BY <1>4 DEF TypeInv, TypeOK
<1>12. QED
  BY <1>4, <1>5, <1>6, <1>7, <1>8, <1>10, <1>11, IdleJobType, RowStep

(* Starting a review keeps TypeInv.                                        *)
LEMMA ReviewTypeInv ==
    ASSUME TypeInv, NEW s \in Session, NEW p \in Prediction,
           NEW verdict \in {"published", "voided"}, Review(s, p, verdict)
    PROVE  TypeInv'
<1> DEFINE r == [IdleJob EXCEPT !.pc = "review", !.prediction = p, !.status = verdict]
<1>1. r \in Job /\ r.pc = "review" /\ r.prediction = p /\ r.status = verdict
      /\ r.previous = NoPrediction
  <2>1. verdict \in Status /\ 0 \in Time /\ "review" \in PC
    BY TimeAssumption DEF Status, Time, PC
  <2>2. QED
    BY <2>1 DEF IdleJob, Job
<1>2. p \in Recorded
  BY DEF Review, Reviewable, Recorded
<1>3. job' = [job EXCEPT ![s] = r] /\ UNCHANGED <<predictions, audits, clock>>
  BY DEF Review, Begin
<1> HIDE DEF r
<1>4. job'[s] = r
  BY <1>3 DEF TypeInv, TypeOK
<1>5. JobInv(s)'
  BY <1>1, <1>2, <1>3, <1>4 DEF JobInv, Recorded
<1>6. audits' \subseteq Prediction /\ clock' \in Time /\ clock <= clock'
  BY <1>3, TimeAssumption DEF TypeInv, TypeOK, Time
<1>7. QED
  BY <1>1, <1>3, <1>5, <1>6, JobStep

(* The sweep's steps keep TypeInv.                                         *)
LEMMA SweepStepsTypeInv ==
    ASSUME TypeInv, NEW s \in Session,
           \/ ReachSubject(s) \/ Supersede(s) \/ Record(s) \/ Audit(s) \/ Abort(s)
    PROVE  TypeInv'
<1>0. audits \subseteq Prediction
  BY DEF TypeInv, TypeOK
<1>1. CASE ReachSubject(s)
  <2>1. CASE End(s)
    BY <1>0, <1>1, <2>1, EndStep DEF ReachSubject
  <2>2. CASE job' = [job EXCEPT ![s].pc = "generate"]
    BY <1>1, <2>2, SameRows, GoOnStep DEF ReachSubject
  <2>3. QED
    BY <1>1, <2>1, <2>2 DEF ReachSubject
<1>2. CASE Supersede(s)
  <2>1. job[s].previous \in Recorded /\ job[s].prediction \in Prediction
        /\ job[s].previous \in Prediction
    BY <1>2 DEF TypeInv, JobInv, Supersede, Recorded
  <2>2. /\ predictions' = WithSuperseded(job[s].previous)
        /\ job' = [job EXCEPT ![s].pc = "record"]
        /\ audits' = audits /\ clock' = clock /\ job[s].pc = "supersede"
    BY <1>2 DEF Supersede
  <2>3. /\ WithSuperseded(job[s].previous) \in [Prediction -> Row]
        /\ \A p \in Prediction : WithSuperseded(job[s].previous)[p].status # "none"
              => WithSuperseded(job[s].previous)[p].generated_at < clock
        /\ \A p \in Recorded : WithSuperseded(job[s].previous)[p].status # "none"
    BY <2>1, Superseding, SameRows, ZenonT(40) DEF Recorded
  <2>4. QED
    BY <2>1, <2>2, <2>3, GoOnStep
<1>3. CASE Record(s)
  <2> DEFINE rows == [predictions EXCEPT ![job[s].prediction] = NewRow(s)]
  <2>1. job[s].prediction \in Prediction /\ job[s].now < clock
        /\ job[s].status \in {"draft", "published"}
    BY <1>3 DEF TypeInv, JobInv, Record
  <2>2. WithSuperseded(NoPrediction) = predictions
    BY DEF WithSuperseded
  <2>3. /\ rows \in [Prediction -> Row]
        /\ \A p \in Prediction : rows[p].status # "none" => rows[p].generated_at < clock
        /\ \A p \in Recorded : rows[p].status # "none"
    BY <2>1, <2>2, PredictionAssumption, NewVersionRows
  <2>4. /\ predictions' = rows /\ job' = [job EXCEPT ![s].pc = "audit"]
        /\ audits' = audits /\ clock' = clock /\ job[s].pc = "record"
    BY <1>3 DEF Record
  <2> HIDE DEF rows
  <2>5. QED
    BY <2>1, <2>3, <2>4, GoOnStep
<1>4. CASE Audit(s)
  <2>1. audits' \subseteq Prediction
    BY <1>0, <1>4 DEF TypeInv, JobInv, Audit
  <2>2. QED
    BY <1>4, <2>1, EndStep DEF Audit
<1>5. CASE Abort(s)
  BY <1>0, <1>5, EndStep DEF Abort
<1>6. QED
  BY <1>1, <1>2, <1>3, <1>4, <1>5

(* Time passing keeps TypeInv.                                             *)
LEMMA TickTypeInv == ASSUME TypeInv, Tick PROVE TypeInv'
<1>1. clock \in Time /\ clock' \in Time /\ clock < clock'
  BY ClockMoves DEF Tick
<1>2. UNCHANGED <<predictions, audits, job>> /\ Recorded' = Recorded
  BY DEF Tick, Recorded
<1>3. clock \in Int /\ clock' \in Int
  BY <1>1, TimeAssumption DEF Time
<1>4. \A p \in Recorded : predictions[p].generated_at \in Int
  <2>1. \A p \in Recorded : predictions[p] \in Row
    BY DEF TypeInv, TypeOK, Recorded
  <2>2. QED
    BY <2>1, TimeAssumption DEF Row, Time
<1>5. TypeOK'
  BY <1>1, <1>2, <1>3, <1>4 DEF TypeInv, TypeOK
<1>6. ASSUME NEW s \in Session PROVE JobInv(s)'
  <2>1. job[s].now \in Int
    BY TimeAssumption DEF TypeInv, TypeOK, Job, Time
  <2>2. QED
    BY <2>1, <1>1, <1>2, <1>3 DEF TypeInv, JobInv
<1>7. QED
  BY <1>5, <1>6 DEF TypeInv

(* TypeInv is inductive.                                                   *)
LEMMA NextTypeInv == TypeInv /\ [Next]_vars => TypeInv'
<1> SUFFICES ASSUME TypeInv, [Next]_vars PROVE TypeInv'
  OBVIOUS
<1>1. ASSUME NEW s \in Session, NEW forced \in BOOLEAN, StartGeneration(s, forced)
      PROVE  TypeInv'
  BY <1>1, StartGenerationTypeInv
<1>2. ASSUME NEW s \in Session, StartSweep(s) PROVE TypeInv'
  BY <1>2, StartSweepTypeInv
<1>3. ASSUME NEW s \in Session, NEW p \in Prediction, Generate(s, p) PROVE TypeInv'
  BY <1>3, GenerateTypeInv
<1>4. ASSUME NEW s \in Session, NEW p \in Prediction,
             Review(s, p, "published") \/ Review(s, p, "voided")
      PROVE  TypeInv'
  BY <1>4, ReviewTypeInv
<1>5. ASSUME NEW s \in Session,
             ReachSubject(s) \/ Supersede(s) \/ Record(s) \/ Audit(s) \/ Abort(s)
      PROVE  TypeInv'
  BY <1>5, SweepStepsTypeInv
<1>6. ASSUME NEW s \in Session, Commit(s) PROVE TypeInv'
  BY <1>6, CommitTypeInv
<1>7. ASSUME NEW s \in Session, CommitReview(s) PROVE TypeInv'
  BY <1>7, CommitReviewTypeInv
<1>8. CASE Tick
  BY <1>8, TickTypeInv
<1>9. CASE UNCHANGED vars
  BY <1>9 DEF vars, TypeInv, TypeOK, JobInv, Recorded
<1>10. QED
  BY <1>1, <1>2, <1>3, <1>4, <1>5, <1>6, <1>7, <1>8, <1>9 DEF Next

(* Rows, audit rows and jobs stay well formed, and no prediction is dated  *)
(* after the time it is read.                                              *)
THEOREM TypeCorrect == Spec => []TypeOK
<1>1. TypeInv => TypeOK
  BY DEF TypeInv
<1>2. QED
  BY <1>1, InitTypeInv, NextTypeInv, PTL DEF Spec

-----------------------------------------------------------------------------

(* A step that changes one job, and records nothing another job carries,   *)
(* keeps the invariant.                                                    *)
LEMMA OwnStep ==
    ASSUME IInv, TypeInv', NEW s \in Session, NEW r \in Job,
           job' = [job EXCEPT ![s] = r], OwnVersion(s)',
           Recorded' \subseteq Recorded \cup {job[s].prediction},
           \A t \in Session \ {s} : job[t].pc = "commit" => r.prediction # job[t].prediction
    PROVE  IInv'
<1>1. job'[s] = r /\ \A t \in Session \ {s} : job'[t] = job[t]
  BY DEF IInv, TypeInv, TypeOK
<1>2. ASSUME NEW t \in Session PROVE OwnVersion(t)'
  <2>1. CASE t = s
    BY <2>1
  <2>2. CASE t # s
    <3>1. job[t].pc = "commit" =>
            /\ job[t].prediction \notin Recorded
            /\ \A u \in Session \ {t} : job[u].prediction # job[t].prediction
      BY DEF IInv, OwnVersion
    <3>2. job[t].pc \in {"due", "supersede", "record", "audit"} => job[t].sweep
      BY DEF IInv, OwnVersion
    <3>3. job[t].pc = "commit" => job[t].prediction \notin Recorded'
      BY <2>2, <3>1
    <3>4. job[t].pc = "commit" =>
            \A u \in Session \ {t} : job'[u].prediction # job[t].prediction
      BY <1>1, <2>2, <3>1
    <3>5. QED
      BY <1>1, <2>2, <3>2, <3>3, <3>4 DEF OwnVersion
  <2>3. QED
    BY <2>1, <2>2
<1>3. QED
  BY <1>2 DEF IInv

(* The end of a job.                                                       *)
LEMMA OwnEnd ==
    ASSUME IInv, TypeInv', NEW s \in Session, job' = [job EXCEPT ![s] = IdleJob],
           Recorded' \subseteq Recorded \cup {job[s].prediction}
    PROVE  IInv'
<1>1. job'[s] = IdleJob
  BY DEF IInv, TypeInv, TypeOK
<1>2. OwnVersion(s)'
  BY <1>1, IdleJobType DEF OwnVersion
<1>3. \A t \in Session : job[t].pc = "commit" => NoPrediction # job[t].prediction
  BY PredictionAssumption DEF IInv, TypeInv, JobInv
<1>4. QED
  BY <1>2, <1>3, IdleJobType, OwnStep

(* A job that goes on to another step with the prediction it carries.      *)
LEMMA OwnGoOn ==
    ASSUME IInv, TypeInv', NEW s \in Session, NEW pc \in {"generate", "record", "audit"},
           job' = [job EXCEPT ![s].pc = pc], job[s].pc # "commit",
           job[s].sweep \/ pc = "generate",
           Recorded' \subseteq Recorded \cup {job[s].prediction}
    PROVE  IInv' /\ job'[s].pc = pc /\ job'[s].prediction = job[s].prediction
                 /\ job'[s].sweep = job[s].sweep
<1> DEFINE r == [job[s] EXCEPT !.pc = pc]
<1>1. job[s] \in Job
  BY DEF IInv, TypeInv, TypeOK
<1>2. /\ r \in Job /\ r.pc = pc /\ r.prediction = job[s].prediction
      /\ r.sweep = job[s].sweep
  BY <1>1 DEF Job, PC
<1>3. job' = [job EXCEPT ![s] = r]
  OBVIOUS
<1> HIDE DEF r
<1>4. job'[s] = r
  BY <1>3 DEF IInv, TypeInv, TypeOK
<1>5. OwnVersion(s)'
  BY <1>2, <1>4 DEF OwnVersion
<1>6. \A t \in Session \ {s} : job[t].pc = "commit" => r.prediction # job[t].prediction
  BY <1>2 DEF IInv, OwnVersion
<1>7. QED
  BY <1>2, <1>3, <1>4, <1>5, <1>6, OwnStep

(* What the sweep's two writes do to the rows.                             *)
LEMMA SupersedeEffect ==
    ASSUME TypeInv, NEW s \in Session, Supersede(s)
    PROVE  Recorded' = Recorded
<1>1. job[s].previous \in Recorded
  BY DEF TypeInv, JobInv, Supersede
<1>2. job[s].previous \in Prediction \cup {NoPrediction}
  BY DEF TypeInv, TypeOK, Job
<1>3. predictions' = WithSuperseded(job[s].previous)
  BY DEF Supersede
<1>4. /\ predictions'[job[s].previous].status = "superseded"
      /\ \A p \in Prediction : p # job[s].previous => predictions'[p] = predictions[p]
  BY <1>1, <1>2, <1>3, Superseding DEF Recorded
<1>5. QED
  BY <1>1, <1>4 DEF Recorded

(* The sweep's record adds its own version and supersedes nothing.         *)
LEMMA RecordEffect ==
    ASSUME TypeInv, NEW s \in Session, Record(s)
    PROVE  /\ Recorded' \subseteq Recorded \cup {job[s].prediction}
           /\ \A p \in Prediction : predictions'[p].status = "superseded"
                                      => predictions[p].status = "superseded"
<1>1. job[s].prediction \in Prediction /\ job[s].status \in {"draft", "published"}
  BY DEF TypeInv, JobInv, Record
<1>2. NewRow(s).status = job[s].status
  BY DEF NewRow
<1>3. predictions' = [predictions EXCEPT ![job[s].prediction] = NewRow(s)]
  BY DEF Record
<1>4. /\ predictions'[job[s].prediction] = NewRow(s)
      /\ \A p \in Prediction \ {job[s].prediction} : predictions'[p] = predictions[p]
  BY <1>1, <1>3, SameRows
<1>5. QED
  BY <1>1, <1>2, <1>4 DEF Recorded

(* A review gives no prediction the status superseded.                     *)
LEMMA CommitReviewEffect ==
    ASSUME TypeInv, NEW s \in Session, CommitReview(s)
    PROVE  \A p \in Prediction : predictions'[p].status = "superseded"
                                  => predictions[p].status = "superseded"
<1> DEFINE row == [predictions[job[s].prediction] EXCEPT !.status = job[s].status]
<1>1. job[s].status # "superseded" /\ job[s].prediction \in Prediction
  BY DEF TypeInv, JobInv, CommitReview
<1>2. row.status = job[s].status
  BY <1>1, SameRows DEF Row
<1>3. predictions' = [predictions EXCEPT ![job[s].prediction] = row]
  BY DEF CommitReview
<1> HIDE DEF row
<1>4. /\ predictions'[job[s].prediction] = row
      /\ \A p \in Prediction \ {job[s].prediction} : predictions'[p] = predictions[p]
  BY <1>1, <1>3, SameRows
<1>5. QED
  BY <1>1, <1>2, <1>4

(* Every action keeps the invariant.                                       *)
LEMMA NextIInv == IInv /\ [Next]_vars => IInv'
<1> SUFFICES ASSUME IInv, [Next]_vars PROVE IInv'
  OBVIOUS
<1>0. TypeInv' /\ TypeInv
  BY NextTypeInv DEF IInv
<1>1. ASSUME NEW s \in Session, StartSweep(s) \/ \E forced \in BOOLEAN : StartGeneration(s, forced)
      PROVE  IInv'
  <2> DEFINE request == [IdleJob EXCEPT !.pc = "generate", !.now = clock]
             sweep == [IdleJob EXCEPT !.pc = "due", !.sweep = TRUE, !.now = clock]
  <2>1. /\ request \in Job /\ request.pc = "generate" /\ request.prediction = NoPrediction
        /\ sweep \in Job /\ sweep.pc = "due" /\ sweep.sweep /\ sweep.prediction = NoPrediction
    BY <1>0, StartFields
  <2>2. PICK r \in {request, sweep} : job' = [job EXCEPT ![s] = r]
    BY <1>1 DEF StartGeneration, StartSweep, Begin
  <2>3. r \in Job /\ r.prediction = NoPrediction /\ (r.pc = "generate" \/ (r.pc = "due" /\ r.sweep))
    BY <2>1, <2>2
  <2> HIDE DEF request, sweep
  <2>4. OwnVersion(s)'
    BY <1>0, <2>2, <2>3 DEF OwnVersion, TypeInv, TypeOK
  <2>5. \A t \in Session : job[t].pc = "commit" => NoPrediction # job[t].prediction
    BY <1>0, PredictionAssumption DEF TypeInv, JobInv
  <2>6. Recorded' = Recorded
    BY <1>1 DEF StartGeneration, StartSweep, Recorded
  <2>7. QED
    BY <1>0, <2>2, <2>3, <2>4, <2>5, <2>6, OwnStep
<1>2. ASSUME NEW s \in Session, NEW p \in Prediction, Generate(s, p)
      PROVE  IInv'
  <2>1. PICK r \in Job :
           /\ job' = [job EXCEPT ![s] = r] /\ (r.pc = "commit" \/ r.sweep)
           /\ r.prediction = p
    BY <1>0, <1>2, GenerateTypeInv
  <2>2. Recorded' = Recorded /\ Fresh(p)
    BY <1>2 DEF Generate, Recorded
  <2>3. job'[s] = r /\ \A t \in Session \ {s} : job'[t] = job[t]
    BY <1>0, <2>1 DEF TypeInv, TypeOK
  <2>4. OwnVersion(s)'
    BY <2>1, <2>2, <2>3 DEF OwnVersion, Fresh
  <2>5. QED
    BY <1>0, <2>1, <2>2, <2>4, OwnStep DEF Fresh
<1>3. ASSUME NEW s \in Session, NEW p \in Prediction, NEW verdict \in {"published", "voided"},
             Review(s, p, verdict)
      PROVE  IInv'
  <2> DEFINE r == [IdleJob EXCEPT !.pc = "review", !.prediction = p, !.status = verdict]
  <2>1. r \in Job /\ r.pc = "review" /\ r.prediction = p
    <3>1. verdict \in Status /\ 0 \in Time /\ "review" \in PC
      BY TimeAssumption DEF Status, Time, PC
    <3>2. QED
      BY <3>1 DEF IdleJob, Job
  <2>2. job' = [job EXCEPT ![s] = r] /\ Recorded' = Recorded
    BY <1>3 DEF Review, Begin, Recorded
  <2> HIDE DEF r
  <2>3. OwnVersion(s)'
    BY <1>0, <2>1, <2>2 DEF OwnVersion, TypeInv, TypeOK
  <2>4. \A t \in Session : job[t].pc = "commit" => p # job[t].prediction
    BY <1>3 DEF IInv, OwnVersion, Review, Reviewable, Recorded
  <2>5. QED
    BY <1>0, <2>1, <2>2, <2>3, <2>4, OwnStep
<1>4. ASSUME NEW s \in Session, Commit(s) PROVE IInv'
  <2>1. Recorded' = Recorded \cup {job[s].prediction}
    BY <1>0, <1>4, CommitTypeInv
  <2>2. QED
    BY <1>0, <1>4, <2>1, OwnEnd DEF Commit, End
<1>5. ASSUME NEW s \in Session, CommitReview(s) PROVE IInv'
  <2>1. Recorded' = Recorded
    BY <1>0, <1>5, CommitReviewTypeInv
  <2>2. QED
    BY <1>0, <1>5, <2>1, OwnEnd DEF CommitReview, End
<1>6. ASSUME NEW s \in Session, Abort(s) \/ Audit(s) PROVE IInv'
  BY <1>0, <1>6, OwnEnd DEF Abort, Audit, End, Recorded
<1>7. ASSUME NEW s \in Session, ReachSubject(s) PROVE IInv'
  <2>1. Recorded' = Recorded
    BY <1>7 DEF ReachSubject, Recorded
  <2>2. CASE job' = [job EXCEPT ![s] = IdleJob]
    BY <1>0, <2>1, <2>2, OwnEnd
  <2>3. CASE job' = [job EXCEPT ![s].pc = "generate"]
    BY <1>0, <1>7, <2>1, <2>3, OwnGoOn DEF ReachSubject
  <2>4. QED
    BY <1>7, <2>2, <2>3 DEF ReachSubject, End
<1>8. ASSUME NEW s \in Session, Supersede(s) \/ Record(s) PROVE IInv'
  <2>1. Recorded' \subseteq Recorded \cup {job[s].prediction} /\ job[s].sweep
    BY <1>0, <1>8, SupersedeEffect, RecordEffect DEF IInv, OwnVersion, Supersede, Record
  <2>2. QED
    BY <1>0, <1>8, <2>1, OwnGoOn DEF Supersede, Record
<1>9. CASE Tick \/ UNCHANGED vars
  BY <1>0, <1>9 DEF Tick, vars, IInv, OwnVersion, Recorded
<1>10. QED
  BY <1>1, <1>2, <1>3, <1>4, <1>5, <1>6, <1>7, <1>8, <1>9 DEF Next

(* The invariant holds in every reachable state.                           *)
THEOREM InductiveInvariant == Spec => []IInv
<1>1. Init => IInv
  <2> SUFFICES ASSUME Init PROVE IInv
    OBVIOUS
  <2>1. \A s \in Session : OwnVersion(s)
    BY IdleJobType DEF Init, OwnVersion
  <2>2. QED
    BY <2>1, InitTypeInv DEF IInv
<1>2. QED
  BY <1>1, NextIInv, PTL DEF Spec

-----------------------------------------------------------------------------

(* The steps that write rows are the two commits and the sweep's two       *)
(* writes.                                                                 *)
LEMMA WritesOnly ==
    ASSUME [Next]_vars, predictions' # predictions
    PROVE  \E s \in Session : Commit(s) \/ CommitReview(s) \/ Supersede(s) \/ Record(s)
BY DEF Next, vars, StartGeneration, StartSweep, ReachSubject, Generate, Review, Audit, Abort, Tick

(* However requests and sweeps overlap and fail, a version is superseded   *)
(* in the step that records another one, or by a sweep.                    *)
THEOREM SupersededIsReplaced == Spec => SupersededOnArrival
<1> DEFINE Replaced == \A p \in Prediction :
             predictions[p].status # "superseded" /\ predictions'[p].status = "superseded"
             => \/ Recorded' \ Recorded # {}
                \/ \E s \in Session : job[s].pc = "supersede" /\ job'[s].pc = "record"
<1>1. IInv /\ [Next]_vars => Replaced
  <2> SUFFICES ASSUME IInv, [Next]_vars, NEW p \in Prediction,
                      predictions[p].status # "superseded",
                      predictions'[p].status = "superseded"
               PROVE  \/ Recorded' \ Recorded # {}
                      \/ \E s \in Session : job[s].pc = "supersede" /\ job'[s].pc = "record"
    OBVIOUS
  <2>0. TypeInv /\ TypeInv' /\ predictions' # predictions
    BY NextTypeInv DEF IInv
  <2>1. PICK s \in Session : Commit(s) \/ CommitReview(s) \/ Supersede(s) \/ Record(s)
    BY <2>0, WritesOnly
  <2>2. CASE Commit(s)
    <3>1. Recorded' = Recorded \cup {job[s].prediction}
      BY <2>0, <2>2, CommitTypeInv
    <3>2. job[s].prediction \notin Recorded
      BY <2>2 DEF Commit, IInv, OwnVersion
    <3>3. QED
      BY <3>1, <3>2
  <2>3. CASE CommitReview(s)
    BY <2>0, <2>3, CommitReviewEffect
  <2>4. CASE Supersede(s)
    BY <2>0, <2>4 DEF Supersede, TypeInv, TypeOK, Job
  <2>5. CASE Record(s)
    BY <2>0, <2>5, RecordEffect
  <2>6. QED
    BY <2>1, <2>2, <2>3, <2>4, <2>5
<1>2. QED
  BY <1>1, InductiveInvariant, PTL DEF Spec, SupersededOnArrival

-----------------------------------------------------------------------------
(* One job at a time: nothing changes under a job that has read it.         *)

Turns == mode # "overlapping" => OneBusy
Reviews == mode = "reviewed" => \A s \in Session : ~job[s].sweep
Sweeps == mode = "swept" => \A s \in Session : job[s].pc # "review"

(* What the job at work has read is still so: every version is older than  *)
(* the time it read, the version it supersedes is the published one, and   *)
(* the prediction under review is still reviewable.                        *)
StillSo(s) ==
    /\ job[s].pc \in {"due", "generate", "commit", "supersede", "record"} =>
          \A p \in Recorded : predictions[p].generated_at < job[s].now
    /\ job[s].pc \in {"commit", "supersede"} => job[s].previous \in Published \cup {NoPrediction}
    /\ job[s].pc = "review" => Reviewable(predictions[job[s].prediction].status, job[s].status)

(* Without reviews only the latest version is ever published, and no other *)
(* is left when a new one is recorded.                                     *)
Replaces(s) ==
    /\ job[s].pc \in {"commit", "supersede"} => Published \subseteq {job[s].previous}
    /\ job[s].pc = "record" => Published = {}

SerialInv ==
    /\ IInv /\ Turns /\ Reviews /\ Sweeps
    /\ mode # "overlapping" => \A s \in Session : StillSo(s)
    /\ mode = "reviewed" => SupersededForNewer
    /\ mode = "swept" => /\ AtMostOnePublished /\ Published \subseteq Latest
                         /\ \A s \in Session : Replaces(s)

-----------------------------------------------------------------------------

(* Dates are integers.                                                     *)
LEMMA Dates ==
    ASSUME TypeInv
    PROVE  /\ \A p \in Prediction : predictions[p].generated_at \in Int
           /\ \A s \in Session : job[s].now \in Int
           /\ clock \in Int
<1>1. \A t \in Time : t \in Int
  BY TimeAssumption DEF Time
<1>2. /\ \A p \in Prediction : predictions[p] \in Row
      /\ \A s \in Session : job[s] \in Job
      /\ clock \in Time
  BY DEF TypeInv, TypeOK
<1>3. QED
  BY <1>1, <1>2 DEF Row, Job

(* What a commit does to each row: its own is new, the one it supersedes   *)
(* changes status, the others stay.                                        *)
LEMMA CommitRows ==
    ASSUME TypeInv, NEW s \in Session, Commit(s)
    PROVE  /\ job[s].prediction \in Prediction
           /\ predictions'[job[s].prediction].status = job[s].status
           /\ predictions'[job[s].prediction].generated_at = job[s].now
           /\ \A q \in Prediction \ {job[s].prediction} :
                 /\ predictions'[q].generated_at = predictions[q].generated_at
                 /\ q # job[s].previous => predictions'[q] = predictions[q]
                 /\ q = job[s].previous => predictions'[q].status = "superseded"
<1> DEFINE base == WithSuperseded(job[s].previous)
<1>1. job[s].prediction \in Prediction /\ job[s].previous \in Prediction \cup {NoPrediction}
  BY DEF TypeInv, TypeOK, JobInv, Job, Commit
<1>2. /\ base \in [Prediction -> Row]
      /\ \A p \in Prediction : p # job[s].previous => base[p] = predictions[p]
      /\ job[s].previous \in Prediction => base[job[s].previous].status = "superseded"
      /\ \A p \in Prediction : base[p].generated_at = predictions[p].generated_at
  BY <1>1, Superseding
<1>3. predictions' = [base EXCEPT ![job[s].prediction] = NewRow(s)]
  BY DEF Commit
<1> HIDE DEF base
<1>4. /\ predictions'[job[s].prediction] = NewRow(s)
      /\ \A q \in Prediction \ {job[s].prediction} : predictions'[q] = base[q]
  BY <1>1, <1>2, <1>3
<1>5. NewRow(s).status = job[s].status /\ NewRow(s).generated_at = job[s].now
  BY DEF NewRow
<1>6. QED
  BY <1>1, <1>2, <1>4, <1>5

(* The sweep's first write takes one version out of service.               *)
LEMMA SupersedeRows ==
    ASSUME TypeInv, NEW s \in Session, Supersede(s)
    PROVE  /\ \A q \in Prediction :
                 /\ predictions'[q].generated_at = predictions[q].generated_at
                 /\ q # job[s].previous => predictions'[q] = predictions[q]
                 /\ q = job[s].previous => predictions'[q].status = "superseded"
<1>1. job[s].previous \in Prediction \cup {NoPrediction}
  BY DEF TypeInv, TypeOK, Job
<1>2. predictions' = WithSuperseded(job[s].previous)
  BY DEF Supersede
<1>3. QED
  BY <1>1, <1>2, Superseding

(* The sweep's second write adds one version and leaves the others.        *)
LEMMA RecordRows ==
    ASSUME TypeInv, NEW s \in Session, Record(s)
    PROVE  /\ job[s].prediction \in Prediction
           /\ predictions'[job[s].prediction].generated_at = job[s].now
           /\ \A q \in Prediction \ {job[s].prediction} : predictions'[q] = predictions[q]
<1>1. job[s].prediction \in Prediction
  BY DEF TypeInv, JobInv, Record
<1>2. predictions' = [predictions EXCEPT ![job[s].prediction] = NewRow(s)]
  BY DEF Record
<1>3. NewRow(s).generated_at = job[s].now
  BY DEF NewRow
<1>4. QED
  BY <1>1, <1>2, <1>3, SameRows

(* A review changes the status of one row, and no date.                    *)
LEMMA CommitReviewRows ==
    ASSUME TypeInv, NEW s \in Session, CommitReview(s)
    PROVE  \A q \in Prediction :
                 /\ predictions'[q].generated_at = predictions[q].generated_at
                 /\ q # job[s].prediction => predictions'[q] = predictions[q]
                 /\ q = job[s].prediction => predictions'[q].status = job[s].status
<1> DEFINE row == [predictions[job[s].prediction] EXCEPT !.status = job[s].status]
<1>1. job[s].prediction \in Prediction
  BY DEF TypeInv, JobInv, CommitReview
<1>2. /\ row.status = job[s].status
      /\ row.generated_at = predictions[job[s].prediction].generated_at
  BY <1>1, SameRows DEF Row
<1>3. predictions' = [predictions EXCEPT ![job[s].prediction] = row]
  BY DEF CommitReview
<1> HIDE DEF row
<1>4. /\ predictions'[job[s].prediction] = row
      /\ \A q \in Prediction \ {job[s].prediction} : predictions'[q] = predictions[q]
  BY <1>1, <1>3, SameRows
<1>5. QED
  BY <1>2, <1>4

(* When jobs take turns, a step of one session finds and leaves every      *)
(* other session idle.                                                     *)
LEMMA OneAtWork ==
    ASSUME SerialInv, Turns', mode' = mode, mode # "overlapping",
           NEW s \in Session, NEW r, job' = [job EXCEPT ![s] = r],
           job[s].pc # "idle" \/ job'[s].pc # "idle"
    PROVE  /\ \A t \in Session \ {s} : job'[t] = job[t] /\ job[t].pc = "idle"
           /\ job'[s] = r
<1>1. job'[s] = r /\ \A t \in Session \ {s} : job'[t] = job[t]
  BY DEF SerialInv, IInv, TypeInv, TypeOK
<1>2. OneBusy /\ OneBusy'
  BY DEF SerialInv, Turns
<1>3. CASE job[s].pc # "idle"
  BY <1>1, <1>2, <1>3 DEF OneBusy, Busy
<1>4. CASE job'[s].pc # "idle"
  <2>1. \A t \in Session \ {s} : job'[t].pc = "idle"
    BY <1>2, <1>4 DEF OneBusy, Busy
  <2>2. QED
    BY <1>1, <2>1
<1>5. QED
  BY <1>3, <1>4

(* The part of SerialInv about jobs that take turns.                       *)
Kept == /\ \A s \in Session : StillSo(s)
        /\ mode = "reviewed" => SupersededForNewer
        /\ mode = "swept" => /\ AtMostOnePublished /\ Published \subseteq Latest
                             /\ \A s \in Session : Replaces(s)

(* A step that writes no row keeps it if it leaves its job in order.       *)
LEMMA KeptJob ==
    ASSUME SerialInv, Turns', mode' = mode, mode # "overlapping",
           NEW s \in Session, NEW r, job' = [job EXCEPT ![s] = r],
           job[s].pc # "idle" \/ job'[s].pc # "idle",
           predictions' = predictions,
           StillSo(s)', mode = "swept" => Replaces(s)'
    PROVE  Kept'
<1>1. \A t \in Session \ {s} : job'[t].pc = "idle"
  BY OneAtWork
<1>2. ASSUME NEW t \in Session PROVE StillSo(t)' /\ (mode = "swept" => Replaces(t)')
  <2>1. CASE t = s
    BY <2>1
  <2>2. CASE t # s
    BY <1>1, <2>2 DEF StillSo, Replaces
  <2>3. QED
    BY <2>1, <2>2
<1>3. Recorded' = Recorded /\ Published' = Published /\ Latest' = Latest
  BY DEF Recorded, Published, Latest
<1>4. (SupersededForNewer' <=> SupersededForNewer) /\ (AtMostOnePublished' <=> AtMostOnePublished)
  BY <1>3 DEF SupersededForNewer, AtMostOnePublished
<1>5. QED
  BY <1>2, <1>3, <1>4 DEF Kept, SerialInv

(* A job that ends without writing a row.                                  *)
LEMMA KeptEnd ==
    ASSUME SerialInv, Turns', mode' = mode, mode # "overlapping",
           NEW s \in Session, job[s].pc # "idle", End(s), predictions' = predictions
    PROVE  Kept'
<1>1. job' = [job EXCEPT ![s] = IdleJob] /\ job'[s].pc = "idle"
  BY IdleJobType DEF End, SerialInv, IInv, TypeInv, TypeOK
<1>2. StillSo(s)' /\ Replaces(s)'
  BY <1>1 DEF StillSo, Replaces
<1>3. QED
  BY <1>1, <1>2, KeptJob

(* Starting a generation: every version is older than the time it reads.   *)
LEMMA KeptStart ==
    ASSUME SerialInv, Turns', mode' = mode, mode # "overlapping", NEW s \in Session,
           StartSweep(s) \/ \E forced \in BOOLEAN : StartGeneration(s, forced)
    PROVE  Kept'
<1> DEFINE request == [IdleJob EXCEPT !.pc = "generate", !.now = clock]
           sweep == [IdleJob EXCEPT !.pc = "due", !.sweep = TRUE, !.now = clock]
<1>1. request.pc = "generate" /\ request.now = clock /\ sweep.pc = "due" /\ sweep.now = clock
  BY StartFields DEF SerialInv, IInv
<1>2. PICK r \in {request, sweep} : job' = [job EXCEPT ![s] = r]
  BY DEF StartGeneration, StartSweep, Begin
<1>3. r.pc \in {"generate", "due"} /\ r.now = clock
  BY <1>1, <1>2
<1> HIDE DEF request, sweep
<1>4. predictions' = predictions /\ Recorded' = Recorded
  BY DEF StartGeneration, StartSweep, Recorded
<1>5. job'[s] = r
  BY <1>2 DEF SerialInv, IInv, TypeInv, TypeOK
<1>6. \A p \in Recorded : predictions[p].generated_at < clock
  BY DEF SerialInv, IInv, TypeInv, TypeOK
<1>7. StillSo(s)' /\ Replaces(s)'
  BY <1>3, <1>4, <1>5, <1>6 DEF StillSo, Replaces
<1>8. QED
  BY <1>2, <1>3, <1>4, <1>5, <1>7, KeptJob

(* The sweep reaches the subject.                                          *)
LEMMA KeptReach ==
    ASSUME SerialInv, Turns', mode' = mode, mode # "overlapping", NEW s \in Session,
           ReachSubject(s)
    PROVE  Kept'
<1>1. CASE End(s)
  BY <1>1, KeptEnd DEF ReachSubject
<1>2. CASE job' = [job EXCEPT ![s].pc = "generate"]
  <2> DEFINE r == [job[s] EXCEPT !.pc = "generate"]
  <2>1. job[s] \in Job /\ job[s].pc = "due"
    BY DEF SerialInv, IInv, TypeInv, TypeOK, ReachSubject
  <2>2. r.pc = "generate" /\ r.now = job[s].now
    BY <2>1 DEF Job
  <2>3. job' = [job EXCEPT ![s] = r]
    BY <1>2
  <2> HIDE DEF r
  <2>4. job'[s] = r
    BY <2>3 DEF SerialInv, IInv, TypeInv, TypeOK
  <2>5. predictions' = predictions /\ Recorded' = Recorded
    BY DEF ReachSubject, Recorded
  <2>6. StillSo(s)' /\ Replaces(s)'
    BY <2>1, <2>2, <2>4, <2>5 DEF StillSo, Replaces, SerialInv
  <2>7. QED
    BY <2>1, <2>3, <2>5, <2>6, KeptJob
<1>3. QED
  BY <1>1, <1>2 DEF ReachSubject

(* The engine's answer finds the published version, if there is one.       *)
LEMMA KeptGenerate ==
    ASSUME SerialInv, Turns', mode' = mode, mode # "overlapping",
           NEW s \in Session, NEW p \in Prediction, Generate(s, p)
    PROVE  Kept'
<1>1. PICK st \in {"draft", "published"},
           old \in IF Latest \cap Published = {} THEN {NoPrediction} ELSE Latest \cap Published :
        LET pc == IF ~job[s].sweep THEN "commit"
                   ELSE IF old = NoPrediction THEN "record" ELSE "supersede"
        IN  job' = [job EXCEPT ![s].pc = pc, ![s].prediction = p,
                               ![s].status = st, ![s].previous = old]
  BY DEF Generate
<1> DEFINE pc == IF ~job[s].sweep THEN "commit"
                 ELSE IF old = NoPrediction THEN "record" ELSE "supersede"
           r == [job[s] EXCEPT !.pc = pc, !.prediction = p, !.status = st, !.previous = old]
<1>2. job[s] \in Job /\ job[s].pc = "generate"
  BY DEF SerialInv, IInv, TypeInv, TypeOK, Generate
<1>3. pc \in {"commit", "record", "supersede"} /\ (pc = "record" => old = NoPrediction)
  OBVIOUS
<1>4. job' = [job EXCEPT ![s] = r]
  BY <1>1
<1> HIDE DEF pc
<1>5. r.pc = pc /\ r.previous = old /\ r.now = job[s].now
  BY <1>2 DEF Job
<1> HIDE DEF r
<1>6. job'[s] = r
  BY <1>4 DEF SerialInv, IInv, TypeInv, TypeOK
<1>7. predictions' = predictions /\ Recorded' = Recorded /\ Published' = Published
  BY DEF Generate, Recorded, Published
<1>8. old \in Published \cup {NoPrediction}
      /\ (old = NoPrediction => Latest \cap Published = {})
  BY PredictionAssumption DEF Published
<1>9. \A q \in Recorded : predictions[q].generated_at < job[s].now
  BY <1>2 DEF SerialInv, StillSo
<1>10. StillSo(s)'
  BY <1>3, <1>5, <1>6, <1>7, <1>8, <1>9 DEF StillSo
<1>11. ASSUME mode = "swept" PROVE Replaces(s)'
  <2>1. AtMostOnePublished /\ Published \subseteq Latest
    BY <1>11 DEF SerialInv
  <2>2. Published \subseteq {old} /\ (old = NoPrediction => Published = {})
    BY <1>8, <2>1 DEF AtMostOnePublished
  <2>3. QED
    BY <1>3, <1>5, <1>6, <1>7, <2>2 DEF Replaces
<1>12. QED
  BY <1>2, <1>4, <1>7, <1>10, <1>11, KeptJob

(* A review starts from a status it may start from.                        *)
LEMMA KeptReview ==
    ASSUME SerialInv, Turns', mode' = mode, mode # "overlapping", NEW s \in Session,
           NEW p \in Prediction, NEW verdict \in {"published", "voided"},
           Review(s, p, verdict)
    PROVE  Kept'
<1> DEFINE r == [IdleJob EXCEPT !.pc = "review", !.prediction = p, !.status = verdict]
<1>1. r.pc = "review" /\ r.prediction = p /\ r.status = verdict
  BY DEF IdleJob
<1>2. job' = [job EXCEPT ![s] = r] /\ predictions' = predictions
  BY DEF Review, Begin
<1> HIDE DEF r
<1>3. job'[s] = r
  BY <1>2 DEF SerialInv, IInv, TypeInv, TypeOK
<1>4. StillSo(s)' /\ Replaces(s)'
  BY <1>1, <1>2, <1>3 DEF StillSo, Replaces, Review
<1>5. QED
  BY <1>1, <1>2, <1>3, <1>4, KeptJob

(* When a job ends that was alone, all sessions are idle.                  *)
LEMMA AllIdle ==
    ASSUME SerialInv, Turns', mode' = mode, mode # "overlapping",
           NEW s \in Session, job[s].pc # "idle", End(s)
    PROVE  \A t \in Session : StillSo(t)' /\ Replaces(t)'
<1>1. job' = [job EXCEPT ![s] = IdleJob]
  BY DEF End
<1>2. /\ \A t \in Session \ {s} : job'[t] = job[t] /\ job[t].pc = "idle"
      /\ job'[s] = IdleJob
  BY <1>1, OneAtWork
<1>3. \A t \in Session : job'[t].pc = "idle"
  BY <1>2, IdleJobType
<1>4. QED
  BY <1>3 DEF StillSo, Replaces

(* A request commits: the new version is the newest and, when nobody       *)
(* reviews, the only one published.                                        *)
LEMMA KeptCommit ==
    ASSUME SerialInv, Turns', mode' = mode, mode # "overlapping", NEW s \in Session,
           Commit(s)
    PROVE  Kept'
<1> DEFINE new == job[s].prediction
           old == job[s].previous
<1>0. TypeInv /\ job[s].pc = "commit" /\ End(s)
  BY DEF SerialInv, IInv, Commit
<1>1. /\ new \in Prediction
      /\ predictions'[new].status = job[s].status
      /\ predictions'[new].generated_at = job[s].now
      /\ \A q \in Prediction \ {new} :
            /\ predictions'[q].generated_at = predictions[q].generated_at
            /\ q # old => predictions'[q] = predictions[q]
            /\ q = old => predictions'[q].status = "superseded"
  BY <1>0, CommitRows
<1>2. Recorded' = Recorded \cup {new} /\ new \notin Recorded
  BY <1>0, CommitTypeInv DEF SerialInv, IInv, OwnVersion
<1>3. /\ \A q \in Recorded : predictions[q].generated_at < job[s].now
      /\ old \in Published \cup {NoPrediction}
  BY <1>0 DEF SerialInv, StillSo
<1>4. job[s].status \in {"draft", "published"}
  BY <1>0 DEF TypeInv, JobInv
<1>5. \A t \in Session : StillSo(t)' /\ Replaces(t)'
  BY <1>0, AllIdle
<1>6. \A q \in Recorded : predictions'[q].generated_at < predictions'[new].generated_at
  BY <1>1, <1>2, <1>3 DEF Recorded
<1>7. ASSUME mode = "reviewed" PROVE SupersededForNewer'
  <2> SUFFICES ASSUME NEW p \in Prediction, predictions'[p].status = "superseded"
               PROVE  \E q \in Recorded' :
                         predictions'[q].generated_at > predictions'[p].generated_at
    BY DEF SupersededForNewer
  <2>1. p # new
    BY <1>1, <1>4
  <2>2. p \in Recorded
    BY <1>2, <2>1 DEF Recorded
  <2>3. predictions'[p].generated_at \in Int /\ predictions'[new].generated_at \in Int
    BY <1>0, <1>1, <2>1, Dates
  <2>4. QED
    BY <1>2, <1>6, <2>2, <2>3
<1>8. ASSUME mode = "swept" PROVE AtMostOnePublished' /\ (Published \subseteq Latest)'
  <2>1. Published \subseteq {old}
    BY <1>0, <1>8 DEF SerialInv, Replaces
  <2>2. Published' \subseteq {new}
    BY <1>1, <2>1 DEF Published
  <2>3. AtMostOnePublished'
    BY <2>2 DEF AtMostOnePublished
  <2>4. \A q \in Recorded' : predictions'[q].generated_at <= predictions'[new].generated_at
    <3>1. \A q \in Prediction : predictions'[q].generated_at \in Int
      BY <1>0, <1>1, Dates
    <3>2. Recorded \subseteq Prediction
      BY DEF Recorded
    <3>3. QED
      BY <1>1, <1>2, <1>6, <3>1, <3>2
  <2>5. new \in Latest'
    BY <1>2, <2>4 DEF Latest
  <2>6. QED
    BY <2>2, <2>3, <2>5
<1>9. QED
  BY <1>5, <1>7, <1>8 DEF Kept

(* The sweep takes the published version out of service.                   *)
LEMMA KeptSupersede ==
    ASSUME SerialInv, Turns', mode' = mode, mode # "overlapping", NEW s \in Session,
           Supersede(s)
    PROVE  Kept'
<1>0. TypeInv /\ job[s].pc = "supersede" /\ job[s].sweep /\ mode # "reviewed"
  BY DEF SerialInv, IInv, Supersede, OwnVersion, Reviews
<1>1. \A q \in Prediction :
         /\ predictions'[q].generated_at = predictions[q].generated_at
         /\ q # job[s].previous => predictions'[q] = predictions[q]
         /\ q = job[s].previous => predictions'[q].status = "superseded"
  BY <1>0, SupersedeRows
<1>2. Recorded' = Recorded
  BY <1>0, SupersedeEffect
<1> DEFINE r == [job[s] EXCEPT !.pc = "record"]
<1>3. job[s] \in Job
  BY <1>0 DEF TypeInv, TypeOK
<1>4. r.pc = "record" /\ r.now = job[s].now
  BY <1>3 DEF Job
<1>5. job' = [job EXCEPT ![s] = r]
  BY DEF Supersede
<1> HIDE DEF r
<1>6. /\ \A t \in Session \ {s} : job'[t].pc = "idle"
      /\ job'[s] = r
  BY <1>0, <1>5, OneAtWork
<1>7. \A q \in Recorded : predictions[q].generated_at < job[s].now
  BY <1>0 DEF SerialInv, StillSo
<1>8. \A q \in Recorded' : predictions'[q].generated_at < job'[s].now
  BY <1>1, <1>2, <1>4, <1>6, <1>7 DEF Recorded
<1>9. \A t \in Session : StillSo(t)'
  BY <1>4, <1>6, <1>8 DEF StillSo
<1>10. ASSUME mode = "swept" PROVE Published' = {}
  <2>1. Published \subseteq {job[s].previous}
    BY <1>0, <1>10 DEF SerialInv, Replaces
  <2>2. QED
    BY <1>1, <2>1 DEF Published
<1>11. ASSUME mode = "swept"
       PROVE  AtMostOnePublished' /\ (Published \subseteq Latest)' /\ \A t \in Session : Replaces(t)'
  BY <1>4, <1>6, <1>10, <1>11 DEF AtMostOnePublished, Replaces
<1>12. QED
  BY <1>0, <1>9, <1>11 DEF Kept

(* The sweep records the newest version, the only one published.           *)
LEMMA KeptRecord ==
    ASSUME SerialInv, Turns', mode' = mode, mode # "overlapping", NEW s \in Session,
           Record(s)
    PROVE  Kept'
<1> DEFINE new == job[s].prediction
<1>0. TypeInv /\ job[s].pc = "record" /\ job[s].sweep /\ mode # "reviewed"
  BY DEF SerialInv, IInv, Record, OwnVersion, Reviews
<1>1. /\ new \in Prediction
      /\ predictions'[new].generated_at = job[s].now
      /\ \A q \in Prediction \ {new} : predictions'[q] = predictions[q]
  BY <1>0, RecordRows
<1> DEFINE r == [job[s] EXCEPT !.pc = "audit"]
<1>2. job[s] \in Job
  BY <1>0 DEF TypeInv, TypeOK
<1>3. r.pc = "audit"
  BY <1>2 DEF Job
<1>4. job' = [job EXCEPT ![s] = r]
  BY DEF Record
<1> HIDE DEF r
<1>5. /\ \A t \in Session \ {s} : job'[t].pc = "idle"
      /\ job'[s] = r
  BY <1>0, <1>4, OneAtWork
<1>6. \A t \in Session : StillSo(t)' /\ Replaces(t)'
  BY <1>3, <1>5 DEF StillSo, Replaces
<1>7. ASSUME mode = "swept" PROVE AtMostOnePublished' /\ (Published \subseteq Latest)'
  <2>1. Published = {}
    BY <1>0, <1>7 DEF SerialInv, Replaces
  <2>2. Published' \subseteq {new}
    BY <1>1, <2>1 DEF Published
  <2>3. AtMostOnePublished'
    BY <2>2 DEF AtMostOnePublished
  <2>4. \A q \in Recorded : predictions[q].generated_at < job[s].now
    BY <1>0 DEF SerialInv, StillSo
  <2>5. job[s].now \in Int /\ \A q \in Prediction : predictions[q].generated_at \in Int
    BY <1>0, Dates
  <2>6. \A q \in Recorded' : predictions'[q].generated_at <= predictions'[new].generated_at
    BY <1>1, <2>4, <2>5 DEF Recorded
  <2>7. \A q \in Published' : q \in Recorded'
    BY DEF Published, Recorded
  <2>8. QED
    BY <2>2, <2>3, <2>6, <2>7 DEF Latest
<1>8. QED
  BY <1>0, <1>6, <1>7 DEF Kept

(* A review commits: what was superseded for a newer version still is.     *)
LEMMA KeptCommitReview ==
    ASSUME SerialInv, Turns', mode' = mode, mode # "overlapping", NEW s \in Session,
           CommitReview(s)
    PROVE  Kept'
<1>0. TypeInv /\ job[s].pc = "review" /\ End(s) /\ mode # "swept"
  BY DEF SerialInv, IInv, CommitReview, Sweeps
<1>1. \A q \in Prediction : predictions'[q].generated_at = predictions[q].generated_at
  BY <1>0, CommitReviewRows
<1>2. /\ Recorded' = Recorded
      /\ \A q \in Prediction : predictions'[q].status = "superseded"
                                  => predictions[q].status = "superseded"
  BY <1>0, CommitReviewTypeInv, CommitReviewEffect
<1>3. \A t \in Session : StillSo(t)'
  BY <1>0, AllIdle
<1>4. SupersededForNewer => SupersededForNewer'
  BY <1>1, <1>2 DEF SupersededForNewer, Recorded
<1>5. QED
  BY <1>0, <1>3, <1>4 DEF Kept, SerialInv

(* Time passing, and stuttering.                                           *)
LEMMA KeptSame ==
    ASSUME SerialInv, mode' = mode, mode # "overlapping", UNCHANGED <<predictions, job>>
    PROVE  Kept'
<1>1. Recorded' = Recorded /\ Published' = Published /\ Latest' = Latest
  BY DEF Recorded, Published, Latest
<1>2. \A s \in Session : (StillSo(s)' <=> StillSo(s)) /\ (Replaces(s)' <=> Replaces(s))
  BY <1>1 DEF StillSo, Replaces
<1>3. (SupersededForNewer' <=> SupersededForNewer) /\ (AtMostOnePublished' <=> AtMostOnePublished)
  BY <1>1 DEF SupersededForNewer, AtMostOnePublished
<1>4. QED
  BY <1>1, <1>2, <1>3 DEF Kept, SerialInv

(* Jobs that take turns keep the invariant.                                *)
LEMMA NextSerial == SerialInv /\ [MCNext]_<<vars, mode>> => SerialInv'
<1> SUFFICES ASSUME SerialInv, [MCNext]_<<vars, mode>> PROVE SerialInv'
  OBVIOUS
<1>0. mode' = mode /\ [Next]_vars
  BY DEF MCNext
<1>1. IInv'
  BY <1>0, NextIInv DEF SerialInv
<1>2. Turns' /\ Reviews' /\ Sweeps'
  <2>1. CASE MCNext
    BY <2>1 DEF MCNext, Allowed, Turns, Reviews, Sweeps
  <2>2. CASE UNCHANGED <<vars, mode>>
    BY <2>2 DEF SerialInv, vars, Turns, Reviews, Sweeps, OneBusy, Busy
  <2>3. QED
    BY <2>1, <2>2
<1>3. ASSUME mode # "overlapping" PROVE Kept'
  <2>1. CASE Tick \/ UNCHANGED vars
    BY <1>0, <1>3, <2>1, KeptSame DEF Tick, vars
  <2>2. ASSUME NEW s \in Session,
               \/ \E forced \in BOOLEAN : StartGeneration(s, forced)
               \/ StartSweep(s) \/ ReachSubject(s)
               \/ \E p \in Prediction : \/ Generate(s, p)
                                        \/ Review(s, p, "published")
                                        \/ Review(s, p, "voided")
               \/ Supersede(s) \/ Record(s) \/ Audit(s) \/ Commit(s)
               \/ CommitReview(s) \/ Abort(s)
        PROVE  Kept'
    <3>1. CASE StartSweep(s) \/ \E forced \in BOOLEAN : StartGeneration(s, forced)
      BY <1>0, <1>2, <1>3, <3>1, KeptStart
    <3>2. CASE ReachSubject(s)
      BY <1>0, <1>2, <1>3, <3>2, KeptReach
    <3>3. ASSUME NEW p \in Prediction, Generate(s, p) PROVE Kept'
      BY <1>0, <1>2, <1>3, <3>3, KeptGenerate
    <3>4. ASSUME NEW p \in Prediction, Review(s, p, "published") \/ Review(s, p, "voided")
          PROVE  Kept'
      BY <1>0, <1>2, <1>3, <3>4, KeptReview
    <3>5. CASE Supersede(s)
      BY <1>0, <1>2, <1>3, <3>5, KeptSupersede
    <3>6. CASE Record(s)
      BY <1>0, <1>2, <1>3, <3>6, KeptRecord
    <3>7. CASE Audit(s) \/ Abort(s)
      BY <1>0, <1>2, <1>3, <3>7, KeptEnd DEF Audit, Abort
    <3>8. CASE Commit(s)
      BY <1>0, <1>2, <1>3, <3>8, KeptCommit
    <3>9. CASE CommitReview(s)
      BY <1>0, <1>2, <1>3, <3>9, KeptCommitReview
    <3>10. QED
      BY <2>2, <3>1, <3>2, <3>3, <3>4, <3>5, <3>6, <3>7, <3>8, <3>9
  <2>3. QED
    BY <1>0, <2>1, <2>2 DEF Next
<1>4. QED
  BY <1>0, <1>1, <1>2, <1>3 DEF SerialInv, Kept

(* It holds before the first job.                                          *)
LEMMA InitSerial == MCInit => SerialInv
<1> SUFFICES ASSUME MCInit PROVE SerialInv
  OBVIOUS
<1>1. IInv
  <2>1. \A s \in Session : OwnVersion(s)
    BY IdleJobType DEF MCInit, Init, OwnVersion
  <2>2. QED
    BY <2>1, InitTypeInv DEF MCInit, IInv
<1>2. \A s \in Session : job[s].pc = "idle" /\ ~job[s].sweep
  BY IdleJobType DEF MCInit, Init
<1>3. \A p \in Prediction : predictions[p].status = "none"
  BY DEF MCInit, Init
<1>4. Turns /\ Reviews /\ Sweeps
  BY <1>2 DEF Turns, OneBusy, Busy, Reviews, Sweeps
<1>5. \A s \in Session : StillSo(s) /\ Replaces(s)
  BY <1>2 DEF StillSo, Replaces
<1>6. SupersededForNewer /\ AtMostOnePublished /\ Published \subseteq Latest
  BY <1>3 DEF SupersededForNewer, AtMostOnePublished, Published
<1>7. QED
  BY <1>1, <1>4, <1>5, <1>6 DEF SerialInv

(* Jobs that take turns keep SerialInv.                                    *)
THEOREM SerialInductiveInvariant == MCSpec => []SerialInv
BY InitSerial, NextSerial, PTL DEF MCSpec

(* One request at a time, what supersedes a version is newer than it, also *)
(* after administrators have approved and rejected versions.               *)
THEOREM NewerVersionsSupersede == MCSpec => []NewerSupersedes
<1>1. SerialInv => NewerSupersedes
  BY DEF SerialInv, NewerSupersedes
<1>2. QED
  BY <1>1, SerialInductiveInvariant, PTL

(* Without reviews, one job at a time, at most one version is published,   *)
(* sweeps killed between their writes included.                            *)
THEOREM OneVersionPublished == MCSpec => []OnePublishedAtATime
<1>1. SerialInv => OnePublishedAtATime
  BY DEF SerialInv, OnePublishedAtATime
<1>2. QED
  BY <1>1, SerialInductiveInvariant, PTL

(* One request at a time, a rejected version stays rejected: a commit      *)
(* supersedes the published version only, and a review that was reviewable *)
(* when it was read still is.                                              *)
THEOREM RejectionIsFinal == MCSpec => VoidedIsFinal
<1>1. SerialInv /\ [MCNext]_<<vars, mode>> => (mode = "reviewed" => VoidedStays)
  <2> SUFFICES ASSUME SerialInv, [MCNext]_<<vars, mode>>, mode = "reviewed",
                      NEW p \in Prediction, predictions[p].status = "voided"
               PROVE  predictions'[p].status = "voided"
    BY DEF VoidedStays
  <2>0. TypeInv /\ [Next]_vars /\ p \in Recorded
    BY DEF SerialInv, IInv, MCNext, Recorded
  <2>1. CASE predictions' = predictions
    BY <2>1
  <2>2. ASSUME NEW s \in Session, Commit(s) PROVE predictions'[p].status = "voided"
    <3>1. job[s].prediction \notin Recorded /\ job[s].previous \in Published \cup {NoPrediction}
      BY <2>2 DEF SerialInv, IInv, OwnVersion, StillSo, Commit
    <3>2. p # job[s].prediction /\ p # job[s].previous
      BY <2>0, <3>1, PredictionAssumption DEF Published
    <3>3. predictions'[p] = predictions[p]
      BY <2>0, <2>2, <3>2, CommitRows
    <3>4. QED
      BY <3>3
  <2>3. ASSUME NEW s \in Session, CommitReview(s) PROVE predictions'[p].status = "voided"
    <3>1. Reviewable(predictions[job[s].prediction].status, job[s].status)
      BY <2>3 DEF SerialInv, StillSo, CommitReview
    <3>2. p # job[s].prediction
      BY <3>1 DEF Reviewable
    <3>3. predictions'[p] = predictions[p]
      BY <2>0, <2>3, <3>2, CommitReviewRows
    <3>4. QED
      BY <3>3
  <2>4. ASSUME NEW s \in Session, Supersede(s) \/ Record(s) PROVE FALSE
    BY <2>4 DEF SerialInv, IInv, OwnVersion, Reviews, Supersede, Record
  <2>5. QED
    BY <2>0, <2>1, <2>2, <2>3, <2>4, WritesOnly
<1>2. QED
  BY <1>1, SerialInductiveInvariant, PTL DEF MCSpec, VoidedIsFinal
=============================================================================
