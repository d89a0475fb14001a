------------------------ MODULE ModelRegistryProofs ------------------------
(***************************************************************************)
(* Proofs about ModelRegistry, for any number of models and of concurrent  *)
(* jobs.                                                                   *)
(***************************************************************************)
EXTENDS MCModelRegistry, TLAPS

-----------------------------------------------------------------------------

(* The type invariant with the jobs' memory in one set, which the provers  *)
(* take more easily (TLC could not build it).                              *)
AnyRows == UNION {[held -> Row] : held \in SUBSET Model}
AnyJob == [pc : PC, repair : BOOLEAN, model : Model \cup {NoModel},
           rival : Model \cup {NoModel}, now : Time, rows : AnyRows]

Typed == /\ models \in [Model -> Row]
         /\ comparison \in [Model -> Comparison \cup {NoComparison}]
         /\ job \in [Session -> AnyJob]
         /\ clock \in Time

(* A record of a job in AnyJob is one of the Job(held).                    *)
LEMMA AnyJobIsJob ==
  ASSUME NEW j \in AnyJob
  PROVE  \E held \in SUBSET Model : j \in Job(held)
<1>1. PICK held \in SUBSET Model : j.rows \in [held -> Row]
  BY DEF AnyJob, AnyRows
<1>2. j \in Job(held)
  BY <1>1 DEF AnyJob, Job
<1> QED
  BY <1>2

(* Facts about the rows a job holds.                                       *)
LEMMA RowsFacts ==
  ASSUME NEW r \in AnyRows
  PROVE  /\ DOMAIN r \subseteq Model
         /\ \A m \in DOMAIN r : r[m] \in Row
BY DEF AnyRows

(* A job may hold a single row.                                            *)
LEMMA OneRowInRows ==
  ASSUME NEW m \in Model, NEW row \in Row
  PROVE  /\ OneRow(m, row) \in AnyRows
         /\ DOMAIN OneRow(m, row) = {m}
         /\ OneRow(m, row)[m] = row
<1>1. OneRow(m, row) \in [{m} -> Row]
  BY DEF OneRow
<1>2. {m} \in SUBSET Model
  OBVIOUS
<1> QED
  BY <1>1, <1>2 DEF AnyRows, OneRow

(* A retired row has its retirement date, a champion its promotion date.   *)
Dated(row) == /\ row.status = "retired" => row.retired_at # NoTime
              /\ row.status = "champion" => row.promoted_at # NoTime

(* What the row updates of the service produce.                            *)
LEMMA RowUpdates ==
  ASSUME NEW row \in Row, NEW now \in Time
  PROVE  /\ Crowned(row, now) \in Row
         /\ Reinstated(row, now) \in Row
         /\ Retired(row, now) \in Row
         /\ Crowned(row, now).status = "champion" /\ Crowned(row, now).promoted_at = now
         /\ Reinstated(row, now).status = "champion" /\ Reinstated(row, now).promoted_at = now
         /\ Retired(row, now).status = "retired" /\ Retired(row, now).retired_at = now
         /\ Dated(Crowned(row, now)) /\ Dated(Reinstated(row, now)) /\ Dated(Retired(row, now))
<1>1. /\ Crowned(row, now) \in Row
      /\ Reinstated(row, now) \in Row
      /\ Retired(row, now) \in Row
      /\ Crowned(row, now).status = "champion" /\ Crowned(row, now).promoted_at = now
      /\ Reinstated(row, now).status = "champion" /\ Reinstated(row, now).promoted_at = now
      /\ Retired(row, now).status = "retired" /\ Retired(row, now).retired_at = now
  BY DEF Row, Crowned, Reinstated, Retired
<1>2. now # NoTime
  BY TimeAssumption DEF Time, NoTime
<1> QED
  BY <1>1, <1>2 DEF Dated

(* Writing the rows a job holds leaves well-typed rows.                    *)
LEMMA WrittenType ==
  ASSUME models \in [Model -> Row], NEW r \in AnyRows
  PROVE  Written(r) \in [Model -> Row]
BY RowsFacts DEF Written

(* The idle job is a job.                                                  *)
LEMMA IdleJobType == IdleJob \in AnyJob /\ IdleJob.pc = "idle"
<1>1. NoRows \in [{} -> Row]
  BY DEF NoRows
<1>2. NoRows \in AnyRows
  BY <1>1 DEF AnyRows
<1>3. 0 \in Time
  BY TimeAssumption DEF Time
<1> QED
  BY <1>2, <1>3 DEF IdleJob, AnyJob, PC

(* get_champion returns a model of the market, or none.                    *)
LEMMA GetChampionType == GetChampion \subseteq Model \cup {NoModel}
BY DEF GetChampion, Champions

-----------------------------------------------------------------------------

(***************************************************************************)
(* The inductive invariant.                                                *)
(***************************************************************************)

(* What a job holds at each of its steps.                                  *)
ShapeOf(j) ==
    /\ j.pc \in {"promote", "rollback"} => j.model \in Model /\ DOMAIN j.rows = {j.model}
    /\ j.pc = "rollback" => j.rows[j.model].status = "retired" /\ Dated(j.rows[j.model])
    /\ j.pc = "commit" =>
         \A m \in DOMAIN j.rows :
           j.rows[m].status \in {"champion", "retired"} /\ Dated(j.rows[m])
    /\ j.pc = "mode" =>
         /\ j.model \in Model /\ DOMAIN j.rows = {j.model}
         /\ j.rows[j.model].status # "none" /\ Dated(j.rows[j.model])
    /\ j.pc \in {"challenge", "compare", "retire_loser", "verify", "bootstrap", "retire_broken"}
         => j.model \in Model
    /\ j.pc \in {"compare", "retire_broken"} => j.rival \in Model

Shape == \A s \in Session : ShapeOf(job[s])

(* A job about to replace one champion by the model it works on holds the  *)
(* evidence for it (a rollback works on the model it retires).             *)
EvidenceFor(m, row) == /\ comparison[m].verdict = "challenger_better"
                       /\ row.promoted_at - comparison[m].at <= MaxAge

EvidencedJob(j) ==
    j.pc = "commit" =>
      \A old, new \in DOMAIN j.rows :
        old # new /\ j.rows[new].status = "champion" =>
          j.model # new \/ EvidenceFor(new, j.rows[new])

Evidenced == \A s \in Session : EvidencedJob(job[s])

(* A challenger is compared at most once, by the job that registered it.   *)
Owning == {s \in Session : job[s].pc \in {"challenge", "compare"}}

ComparedOnce ==
    /\ \A m \in Model : models[m].status = "none" => comparison[m] = NoComparison
    /\ \A s \in Owning : /\ models[job[s].model].status # "none"
                          /\ comparison[job[s].model] = NoComparison
    /\ \A s, t \in Owning : job[s].model = job[t].model => s = t

RowsDated == \A m \in Model : Dated(models[m])

IInv == Typed /\ AtMostOneChampion /\ RowsDated /\ Shape /\ Evidenced /\ ComparedOnce

-----------------------------------------------------------------------------

(* An empty market satisfies the invariant.                                *)
LEMMA InitIInv == Init => IInv
<1> SUFFICES ASSUME Init PROVE IInv
  OBVIOUS
<1>1. Unregistered \in Row /\ Unregistered.status = "none"
  BY DEF Unregistered, Row
<1>2. Typed
  <2>1. clock \in Time
    BY TimeAssumption DEF Init, Time
  <2> QED
    BY <1>1, <2>1, IdleJobType DEF Init, Typed
<1>3. AtMostOneChampion /\ RowsDated
  BY <1>1 DEF Init, AtMostOneChampion, OneChampion, RowsDated, Dated
<1>4. \A s \in Session : job[s].pc = "idle"
  BY IdleJobType DEF Init
<1>5. Shape /\ Evidenced
  BY <1>4 DEF Shape, ShapeOf, Evidenced, EvidencedJob
<1>6. ComparedOnce
  BY <1>4 DEF ComparedOnce, Owning, Init
<1> QED
  BY <1>2, <1>3, <1>5, <1>6 DEF IInv

(* A step that changes nothing but one job keeps the invariant when the    *)
(* job's new record has the invariant's shape.                             *)
LEMMA JobStep ==
  ASSUME IInv, NEW s \in Session, NEW r \in AnyJob,
         ShapeOf(r), EvidencedJob(r), r.pc \notin {"challenge", "compare"},
         job' = [job EXCEPT ![s] = r],
         UNCHANGED <<models, comparison, clock>>
  PROVE  IInv'
<1> USE DEF IInv
<1>1. Typed'
  BY DEF Typed
<1>2. AtMostOneChampion' /\ RowsDated'
  BY DEF AtMostOneChampion, OneChampion, RowsDated, Dated
<1>3. job'[s] = r /\ \A t \in Session \ {s} : job'[t] = job[t]
  BY DEF Typed
<1>4. Shape'
  BY <1>3 DEF Shape
<1>5. Evidenced'
  <2>1. \A t \in Session : EvidencedJob(job'[t])
    BY <1>3 DEF Evidenced
  <2> QED
    BY <2>1 DEF Evidenced, EvidencedJob, EvidenceFor
<1>6. ComparedOnce'
  BY <1>3 DEF ComparedOnce, Owning
<1> QED
  BY <1>1, <1>2, <1>4, <1>5, <1>6

(* A job may end at any of its steps.                                      *)
LEMMA EndStep ==
  ASSUME IInv, NEW s \in Session, End(s), UNCHANGED <<models, comparison, clock>>
  PROVE  IInv'
<1>1. ShapeOf(IdleJob) /\ EvidencedJob(IdleJob)
  BY IdleJobType DEF ShapeOf, EvidencedJob
<1> QED
  BY <1>1, IdleJobType, JobStep DEF End

(* A job that begins by reading one row.                                   *)
LEMMA HoldingJob ==
  ASSUME Typed, NEW m \in Model, NEW row \in Row, NEW pc \in PC
  PROVE  /\ Holding(pc, m, row) \in AnyJob
         /\ Holding(pc, m, row).pc = pc
         /\ Holding(pc, m, row).model = m
         /\ DOMAIN Holding(pc, m, row).rows = {m}
         /\ Holding(pc, m, row).rows[m] = row
BY OneRowInRows DEF Holding, AnyJob, Typed

-----------------------------------------------------------------------------
(* The steps that only read.                                               *)

(* A promotion begins with the row it has just read.                       *)
LEMMA StartPromotionStep ==
  ASSUME IInv, NEW s \in Session, NEW m \in Model, StartPromotion(s, m)
  PROVE  IInv'
<1> DEFINE r == Holding("promote", m, models[m])
<1>1. r \in AnyJob /\ r.pc = "promote" /\ r.model = m /\ DOMAIN r.rows = {m}
  BY HoldingJob DEF IInv, Typed, PC
<1>2. ShapeOf(r) /\ EvidencedJob(r)
  BY <1>1 DEF ShapeOf, EvidencedJob
<1>3. job' = [job EXCEPT ![s] = r] /\ UNCHANGED <<models, comparison, clock>>
  BY DEF StartPromotion, Begin
<1> HIDE DEF r
<1> QED
  BY <1>1, <1>2, <1>3, JobStep

(* A rollback begins with the champion's row, retired and dated in memory. *)
LEMMA StartRollbackStep ==
  ASSUME IInv, NEW s \in Session, StartRollback(s)
  PROVE  IInv'
<1>1. PICK m \in Champions :
        Begin(s, Holding("rollback", m, Retired(models[m], clock)))
  BY DEF StartRollback
<1> DEFINE row == Retired(models[m], clock)
           r == Holding("rollback", m, row)
<1>2. m \in Model
  BY DEF Champions
<1>3. row \in Row /\ row.status = "retired" /\ Dated(row)
  BY <1>2, RowUpdates DEF IInv, Typed, Dated, Time, NoTime
<1>4. r \in AnyJob /\ r.pc = "rollback" /\ r.model = m /\ DOMAIN r.rows = {m} /\ r.rows[m] = row
  BY <1>2, <1>3, HoldingJob DEF IInv, PC
<1>5. job' = [job EXCEPT ![s] = r] /\ UNCHANGED <<models, comparison, clock>>
  BY <1>1 DEF StartRollback, Begin
<1> HIDE DEF r, row
<1>6. ShapeOf(r) /\ EvidencedJob(r)
  BY <1>2, <1>3, <1>4 DEF ShapeOf, EvidencedJob
<1> QED
  BY <1>4, <1>5, <1>6, JobStep

(* A retirement is ready to commit the champion's row, retired and dated.  *)
LEMMA StartRetireStep ==
  ASSUME IInv, NEW s \in Session, StartRetire(s)
  PROVE  IInv'
<1>1. PICK m \in Champions :
        Begin(s, Holding("commit", m, Retired(models[m], clock)))
  BY DEF StartRetire
<1> DEFINE row == Retired(models[m], clock)
           r == Holding("commit", m, row)
<1>2. m \in Model
  BY DEF Champions
<1>3. row \in Row /\ row.status = "retired" /\ Dated(row)
  BY <1>2, RowUpdates DEF IInv, Typed, Dated, Time, NoTime
<1>4. r \in AnyJob /\ r.pc = "commit" /\ DOMAIN r.rows = {m} /\ r.rows[m] = row
  BY <1>2, <1>3, HoldingJob DEF IInv, PC
<1>5. job' = [job EXCEPT ![s] = r] /\ UNCHANGED <<models, comparison, clock>>
  BY <1>1 DEF StartRetire, Begin
<1> HIDE DEF r, row
<1>6. ShapeOf(r) /\ EvidencedJob(r)
  BY <1>3, <1>4 DEF ShapeOf, EvidencedJob
<1> QED
  BY <1>4, <1>5, <1>6, JobStep

(* An assessment keeps the status and the dates of the champion it read.   *)
LEMMA StartAssessmentStep ==
  ASSUME IInv, NEW s \in Session, StartAssessment(s)
  PROVE  IInv'
<1>1. PICK m \in Champions :
        Begin(s, Holding("commit", m, [models[m] EXCEPT !.compromised = TRUE]))
  BY DEF StartAssessment
<1> DEFINE row == [models[m] EXCEPT !.compromised = TRUE]
           r == Holding("commit", m, row)
<1>2. m \in Model /\ models[m].status = "champion" /\ models[m] \in Row /\ Dated(models[m])
  BY DEF Champions, IInv, Typed, RowsDated
<1>3. row \in Row /\ row.status = "champion" /\ Dated(row)
  BY <1>2 DEF Row, Dated
<1> HIDE DEF row
<1>4. r \in AnyJob /\ r.pc = "commit" /\ DOMAIN r.rows = {m} /\ r.rows[m] = row
  BY <1>2, <1>3, HoldingJob DEF IInv, PC
<1>5. job' = [job EXCEPT ![s] = r] /\ UNCHANGED <<models, comparison, clock>>
  BY <1>1 DEF StartAssessment, Begin, row
<1> HIDE DEF r
<1>6. ShapeOf(r) /\ EvidencedJob(r)
  BY <1>3, <1>4 DEF ShapeOf, EvidencedJob
<1> QED
  BY <1>4, <1>5, <1>6, JobStep

(* A change of deployment mode holds the row it read, as it was.           *)
LEMMA StartSetModeStep ==
  ASSUME IInv, NEW s \in Session, NEW m \in Model, StartSetMode(s, m)
  PROVE  IInv'
<1> DEFINE r == Holding("mode", m, models[m])
<1>1. models[m] \in Row /\ models[m].status # "none" /\ Dated(models[m])
  BY DEF StartSetMode, IInv, Typed, RowsDated
<1>2. /\ r \in AnyJob /\ r.pc = "mode" /\ r.model = m /\ DOMAIN r.rows = {m}
      /\ r.rows[m] = models[m]
  BY <1>1, HoldingJob DEF IInv, PC
<1>3. job' = [job EXCEPT ![s] = r] /\ UNCHANGED <<models, comparison, clock>>
  BY DEF StartSetMode, Begin
<1> HIDE DEF r
<1>4. ShapeOf(r) /\ EvidencedJob(r)
  BY <1>1, <1>2 DEF ShapeOf, EvidencedJob
<1> QED
  BY <1>2, <1>3, <1>4, JobStep

(* A training begins with the champion it read, and no model yet.          *)
LEMMA StartTrainingStep ==
  ASSUME IInv, NEW s \in Session, StartTraining(s)
  PROVE  IInv'
<1>1. PICK rival \in GetChampion, repair \in BOOLEAN :
        Begin(s, [pc |-> "train", repair |-> repair, model |-> NoModel, rival |-> rival,
                  now |-> clock, rows |-> NoRows])
  BY DEF StartTraining
<1> DEFINE r == [pc |-> "train", repair |-> repair, model |-> NoModel, rival |-> rival,
                 now |-> clock, rows |-> NoRows]
<1>2. r.pc = "train"
  OBVIOUS
<1>3. r \in AnyJob
  <2>1. NoRows \in AnyRows
    BY IdleJobType DEF IdleJob, AnyJob
  <2> QED
    BY <2>1, GetChampionType DEF IInv, Typed, AnyJob, PC
<1>4. job' = [job EXCEPT ![s] = r] /\ UNCHANGED <<models, comparison, clock>>
  BY <1>1 DEF StartTraining, Begin
<1> HIDE DEF r
<1>5. ShapeOf(r) /\ EvidencedJob(r)
  BY <1>2 DEF ShapeOf, EvidencedJob
<1> QED
  BY <1>2, <1>3, <1>4, <1>5, JobStep

(* A job that moves on with the rows it will write.                        *)
LEMMA GoOnJob ==
  ASSUME NEW j \in AnyJob, NEW pc \in PC, NEW rows \in AnyRows
  PROVE  /\ GoOn(j, pc, rows) \in AnyJob
         /\ GoOn(j, pc, rows).pc = pc /\ GoOn(j, pc, rows).rows = rows
         /\ GoOn(j, pc, rows).model = j.model /\ GoOn(j, pc, rows).rival = j.rival
BY DEF AnyJob, GoOn

(* A job goes on to its commit when the rows it holds are dated and a      *)
(* handover among them is backed by evidence.                              *)
LEMMA ReadyStep ==
  ASSUME IInv, NEW s \in Session, NEW rows \in AnyRows,
         \A m \in DOMAIN rows : rows[m].status \in {"champion", "retired"} /\ Dated(rows[m]),
         \A old, new \in DOMAIN rows :
           old # new /\ rows[new].status = "champion" =>
             job[s].model # new \/ EvidenceFor(new, rows[new]),
         job' = [job EXCEPT ![s] = GoOn(job[s], "commit", rows)],
         UNCHANGED <<models, comparison, clock>>
  PROVE  IInv'
<1> DEFINE r == GoOn(job[s], "commit", rows)
<1>0. job[s] \in AnyJob /\ "commit" \in PC
  BY DEF IInv, Typed, PC
<1>1. r \in AnyJob /\ r.pc = "commit" /\ r.rows = rows /\ r.model = job[s].model
  BY <1>0, GoOnJob
<1> HIDE DEF r
<1>2. ShapeOf(r) /\ EvidencedJob(r)
  BY <1>1 DEF ShapeOf, EvidencedJob
<1>3. job' = [job EXCEPT ![s] = r]
  BY DEF r
<1> QED
  BY <1>1, <1>2, <1>3, JobStep

(* A promotion goes on only without a champion to replace, or on evidence. *)
LEMMA DecidePromotionStep ==
  ASSUME IInv, NEW s \in Session, DecidePromotion(s)
  PROVE  IInv'
<1> DEFINE m == job[s].model
           now == job[s].now
           crowned == Crowned(job[s].rows[m], now)
<1>1. m \in Model /\ now \in Time /\ job[s].rows[m] \in Row
  BY RowsFacts DEF DecidePromotion, IInv, Shape, ShapeOf, Typed, AnyJob
<1>2. UNCHANGED <<models, comparison, clock>> /\ Typed
  BY DEF DecidePromotion, IInv
<1>3. /\ crowned \in Row /\ crowned.status = "champion" /\ Dated(crowned)
      /\ crowned.promoted_at = now
  BY <1>1, RowUpdates
<1>4. CASE End(s)
  BY <1>2, <1>4, EndStep
<1>5. ASSUME job' = [job EXCEPT ![s] = GoOn(@, "commit", OneRow(m, crowned))]
      PROVE  IInv'
  <2> HIDE DEF m, now, crowned
  <2>1. /\ OneRow(m, crowned) \in AnyRows /\ DOMAIN OneRow(m, crowned) = {m}
        /\ OneRow(m, crowned)[m] = crowned
    BY <1>1, <1>3, OneRowInRows
  <2>2. \A old, new \in DOMAIN OneRow(m, crowned) : old = new
    BY <2>1
  <2> QED
    BY <1>2, <1>3, <1>5, <2>1, <2>2, ReadyStep
<1>6. ASSUME NEW rival \in GetChampion, rival \notin {NoModel, m}, Favorable(m, now),
             job' = [job EXCEPT ![s] =
                       GoOn(@, "commit", TwoRows(m, crowned, rival, Retired(models[rival], now)))]
      PROVE  IInv'
  <2> DEFINE out == Retired(models[rival], now)
             rows == TwoRows(m, crowned, rival, out)
  <2> HIDE DEF m, now, crowned
  <2>1. rival \in Model /\ rival # m /\ models[rival] \in Row
    BY <1>2, <1>6, GetChampionType DEF Typed
  <2>2. out \in Row /\ out.status = "retired" /\ Dated(out)
    BY <1>1, <2>1, RowUpdates
  <2> HIDE DEF out
  <2>3. rows \in AnyRows /\ DOMAIN rows = {m, rival} /\ rows[m] = crowned /\ rows[rival] = out
    <3>1. rows \in [{m, rival} -> Row] /\ rows[m] = crowned /\ rows[rival] = out
      BY <1>3, <2>1, <2>2 DEF TwoRows
    <3>2. {m, rival} \in SUBSET Model
      BY <1>1, <2>1
    <3> QED
      BY <3>1, <3>2 DEF AnyRows
  <2>4. EvidenceFor(m, crowned)
    BY <1>3, <1>6 DEF EvidenceFor, Favorable
  <2>5. job' = [job EXCEPT ![s] = GoOn(job[s], "commit", rows)]
    BY <1>6 DEF out
  <2> HIDE DEF rows
  <2> QED
    BY <1>2, <1>3, <2>2, <2>3, <2>4, <2>5, ReadyStep
<1> QED
  BY <1>4, <1>5, <1>6 DEF DecidePromotion

(* A rollback's handover goes to another model than the one it works on,   *)
(* which needs no evidence.                                                *)
LEMMA DecideRollbackStep ==
  ASSUME IInv, NEW s \in Session, DecideRollback(s)
  PROVE  IInv'
<1> DEFINE m == job[s].model
           now == job[s].now
           mine == job[s].rows[m]
<1>1. m \in Model /\ now \in Time /\ mine \in Row /\ mine.status = "retired" /\ Dated(mine)
  BY RowsFacts DEF DecideRollback, IInv, Shape, ShapeOf, Typed, AnyJob
<1>2. UNCHANGED <<models, comparison, clock>> /\ Typed
  BY DEF DecideRollback, IInv
<1>3. CASE End(s)
  BY <1>2, <1>3, EndStep
<1>4. ASSUME NEW previous \in LatestRetired,
             job' = [job EXCEPT ![s] =
                       GoOn(@, "commit", TwoRows(previous, Reinstated(models[previous], now),
                                                 m, mine))]
      PROVE  IInv'
  <2> DEFINE in == Reinstated(models[previous], now)
             rows == TwoRows(previous, in, m, mine)
  <2> HIDE DEF m, now, mine
  <2>1. previous \in Model /\ models[previous].status = "retired" /\ models[previous] \in Row
    BY <1>2 DEF LatestRetired, Typed
  <2>2. in \in Row /\ in.status = "champion" /\ Dated(in)
    BY <1>1, <2>1, RowUpdates
  <2> HIDE DEF in
  <2>3. /\ rows \in AnyRows /\ DOMAIN rows = {previous, m} /\ rows[previous] = in
        /\ m # previous => rows[m] = mine
    <3>1. /\ rows \in [{previous, m} -> Row] /\ rows[previous] = in
          /\ m # previous => rows[m] = mine
      BY <1>1, <2>1, <2>2 DEF TwoRows
    <3>2. {previous, m} \in SUBSET Model
      BY <1>1, <2>1
    <3> QED
      BY <3>1, <3>2 DEF AnyRows
  <2>4. job' = [job EXCEPT ![s] = GoOn(job[s], "commit", rows)]
    BY <1>4 DEF in
  <2>5. \A old, new \in DOMAIN rows : old # new /\ rows[new].status = "champion" => m # new
    BY <1>1, <2>3
  <2> HIDE DEF rows
  <2> QED
    BY <1>1, <1>2, <2>1, <2>2, <2>3, <2>4, <2>5, ReadyStep DEF m
<1> QED
  BY <1>3, <1>4 DEF DecideRollback

(* A task's own promotion begins like a request's.                         *)
LEMMA BootstrapStep ==
  ASSUME IInv, NEW s \in Session, Bootstrap(s)
  PROVE  IInv'
<1> DEFINE m == job[s].model
           rows == OneRow(m, models[m])
           r == GoOn(job[s], "promote", rows)
<1>1. m \in Model
  BY DEF Bootstrap, IInv, Shape, ShapeOf
<1>2. UNCHANGED <<models, comparison, clock>> /\ Typed
  BY DEF Bootstrap, IInv
<1>3. CASE End(s)
  BY <1>2, <1>3, EndStep
<1>4. ASSUME job' = [job EXCEPT ![s] = r] PROVE IInv'
  <2>1. rows \in AnyRows /\ DOMAIN rows = {m}
    BY <1>1, <1>2, OneRowInRows DEF Typed
  <2> HIDE DEF rows
  <2>2. r \in AnyJob /\ r.pc = "promote" /\ r.rows = rows /\ r.model = m
    BY <1>2, <2>1, GoOnJob DEF PC, Typed
  <2> HIDE DEF r, m
  <2>3. ShapeOf(r) /\ EvidencedJob(r)
    BY <1>1, <2>1, <2>2 DEF ShapeOf, EvidencedJob
  <2> QED
    BY <1>2, <1>4, <2>2, <2>3, JobStep
<1> QED
  BY <1>3, <1>4 DEF Bootstrap

(* Whatever the artifact check says, no row is written.                    *)
LEMMA VerifyArtifactStep ==
  ASSUME IInv, NEW s \in Session, VerifyArtifact(s)
  PROVE  IInv'
<1>1. PICK pc \in {"not_promoted", "bootstrap", "retire_broken"} :
         /\ job' = [job EXCEPT ![s].pc = pc]
         /\ pc = "retire_broken" => job[s].rival # NoModel
  BY DEF VerifyArtifact
<1> DEFINE r == [job[s] EXCEPT !.pc = pc]
<1>2. job[s] \in AnyJob /\ job[s].model \in Model
  BY DEF VerifyArtifact, IInv, Shape, ShapeOf, Typed
<1>3. r \in AnyJob /\ r.pc = pc /\ r.model = job[s].model /\ r.rival = job[s].rival
  BY <1>2 DEF AnyJob, PC
<1>4. job' = [job EXCEPT ![s] = r] /\ UNCHANGED <<models, comparison, clock>>
  BY <1>1, <1>2 DEF VerifyArtifact, IInv, Typed
<1> HIDE DEF r
<1>5. ShapeOf(r) /\ EvidencedJob(r)
  BY <1>1, <1>2, <1>3 DEF ShapeOf, EvidencedJob, AnyJob
<1> QED
  BY <1>3, <1>4, <1>5, JobStep

-----------------------------------------------------------------------------
(* The steps that write.                                                   *)

(* A new row is a candidate nobody has compared or retired.                *)
LEMMA RegisterStep ==
  ASSUME IInv, NEW s \in Session, NEW m \in Model, Register(s, m)
  PROVE  IInv'
<1> DEFINE r == [job[s] EXCEPT !.pc = "challenge", !.model = m]
<1> USE DEF IInv
<1>1. /\ models[m] = Unregistered /\ UNCHANGED <<comparison, clock>>
      /\ job[s] \in AnyJob /\ job[s].pc = "train"
  BY DEF Register, Typed
<1>2. r \in AnyJob /\ r.pc = "challenge" /\ r.model = m
  BY <1>1 DEF AnyJob, PC
<1>3. job' = [job EXCEPT ![s] = r]
  BY <1>1 DEF Register, Typed
<1> HIDE DEF r
<1>4. job'[s] = r /\ \A t \in Session \ {s} : job'[t] = job[t]
  BY <1>3 DEF Typed
<1>5. /\ models'[m] \in Row /\ models'[m].status = "candidate"
      /\ \A n \in Model \ {m} : models'[n] = models[n]
      /\ models' \in [Model -> Row]
  BY <1>1 DEF Register, Row, Typed
<1>6. Typed'
  BY <1>1, <1>2, <1>3, <1>5 DEF Typed
<1>7. AtMostOneChampion' /\ RowsDated'
  BY <1>5 DEF AtMostOneChampion, OneChampion, RowsDated, Dated
<1>8. ShapeOf(r)
  BY <1>2 DEF ShapeOf
<1>9. Shape'
  BY <1>4, <1>8 DEF Shape
<1>10. Evidenced'
  <2>1. \A t \in Session : EvidencedJob(job'[t]) /\ DOMAIN job'[t].rows \subseteq Model
    BY <1>2, <1>4, <1>6, RowsFacts DEF Evidenced, EvidencedJob, Typed, AnyJob
  <2> QED
    BY <1>1, <2>1 DEF Evidenced, EvidencedJob, EvidenceFor
<1>11. ComparedOnce'
  <2>1. \A t \in Owning : job[t].model # m
    BY <1>1 DEF ComparedOnce, Unregistered
  <2>2. Owning' = Owning \cup {s}
    BY <1>1, <1>2, <1>4 DEF Owning
  <2>3. models[m].status = "none" /\ comparison[m] = NoComparison
    BY <1>1 DEF ComparedOnce, Unregistered
  <2>4. \A t \in Owning : t # s /\ job[t].model \in Model
    BY <1>1 DEF Owning, Shape, ShapeOf
  <2>5. \A n \in Model : models'[n].status = "none" => comparison'[n] = NoComparison
    BY <1>1, <1>5 DEF ComparedOnce
  <2>6. \A t \in Owning : job'[t].model = job[t].model
    BY <1>4, <2>4 DEF Owning
  <2>7. \A t \in Owning' : /\ models'[job'[t].model].status # "none"
                           /\ comparison'[job'[t].model] = NoComparison
    BY <1>1, <1>2, <1>4, <1>5, <2>1, <2>2, <2>3, <2>4, <2>6 DEF ComparedOnce
  <2>8. \A t, u \in Owning' : job'[t].model = job'[u].model => t = u
    BY <1>2, <1>4, <2>1, <2>2, <2>6 DEF ComparedOnce
  <2> QED
    BY <2>5, <2>7, <2>8 DEF ComparedOnce
<1> QED
  BY <1>6, <1>7, <1>9, <1>10, <1>11

(* Writing one row and moving job s on.                                    *)
LEMMA WriteStep ==
  ASSUME IInv, NEW s \in Session, NEW m \in Model, NEW row \in Row, NEW r \in AnyJob,
         row.status # "none", row.status # "champion", Dated(row),
         ShapeOf(r), r.pc \notin {"challenge", "commit"},
         r.pc = "compare" => job[s].pc = "challenge" /\ r.model = job[s].model,
         models' = [models EXCEPT ![m] = row],
         job' = [job EXCEPT ![s] = r],
         UNCHANGED <<comparison, clock>>
  PROVE  IInv'
<1> USE DEF IInv
<1>1. job'[s] = r /\ \A t \in Session \ {s} : job'[t] = job[t]
  BY DEF Typed
<1>2. models'[m] = row /\ \A n \in Model \ {m} : models'[n] = models[n]
  BY DEF Typed
<1>3. Typed'
  BY DEF Typed
<1>4. AtMostOneChampion' /\ RowsDated'
  BY <1>2 DEF AtMostOneChampion, OneChampion, RowsDated, Dated
<1>5. Shape'
  BY <1>1 DEF Shape
<1>6. Evidenced'
  <2>1. \A t \in Session : EvidencedJob(job'[t]) /\ DOMAIN job'[t].rows \subseteq Model
    BY <1>1, <1>3, RowsFacts DEF Evidenced, EvidencedJob, Typed, AnyJob
  <2> QED
    BY <2>1 DEF Evidenced, EvidencedJob, EvidenceFor
<1>7. ComparedOnce'
  <2>1. Owning' \subseteq Owning /\ \A t \in Owning' : job'[t].model = job[t].model
    BY <1>1 DEF Owning
  <2>2. \A t \in Owning : job[t].model \in Model
    BY DEF Owning, Shape, ShapeOf
  <2> QED
    BY <1>2, <2>1, <2>2 DEF ComparedOnce
<1> QED
  BY <1>3, <1>4, <1>5, <1>6, <1>7

(* Becoming a challenger disturbs no champion and no date.                 *)
LEMMA PromoteToChallengerStep ==
  ASSUME IInv, NEW s \in Session, PromoteToChallenger(s)
  PROVE  IInv'
<1> DEFINE m == job[s].model
           row == [models[m] EXCEPT !.status = "challenger"]
           r == [job[s] EXCEPT !.pc = AfterChallenge(job[s])]
<1>1. /\ m \in Model /\ job[s] \in AnyJob /\ job[s].pc = "challenge" /\ models[m] \in Row
      /\ UNCHANGED <<comparison, clock>>
  BY DEF PromoteToChallenger, IInv, Shape, ShapeOf, Typed
<1>2. CASE models[m].status # "candidate"
  BY <1>1, <1>2, EndStep DEF PromoteToChallenger
<1>3. CASE models[m].status = "candidate"
  <2>1. row \in Row /\ row.status = "challenger"
    BY <1>1 DEF Row
  <2>2. /\ r \in AnyJob /\ r.pc \in {"verify", "bootstrap", "compare"}
        /\ r.pc = "compare" => r.rival # NoModel
        /\ r.model = m /\ r.rival = job[s].rival
    BY <1>1 DEF AnyJob, PC, AfterChallenge
  <2>3. models' = [models EXCEPT ![m] = row]
    BY <1>1, <1>3 DEF PromoteToChallenger, IInv, Typed
  <2>4. job' = [job EXCEPT ![s] = r]
    BY <1>1, <1>3 DEF PromoteToChallenger, IInv, Typed
  <2>5. job[s].rival \in Model \cup {NoModel}
    BY <1>1 DEF AnyJob
  <2> HIDE DEF r, row
  <2>6. ShapeOf(r)
    BY <1>1, <2>2, <2>5 DEF ShapeOf
  <2>7. Dated(row)
    BY <2>1 DEF Dated
  <2> QED
    BY <1>1, <1>3, <2>1, <2>2, <2>3, <2>4, <2>6, <2>7, WriteStep
<1> QED
  BY <1>2, <1>3

(* The loser's retirement is dated, whatever it has become meanwhile.      *)
LEMMA RetireLoserStep ==
  ASSUME IInv, NEW s \in Session, RetireLoser(s)
  PROVE  IInv'
<1> DEFINE m == job[s].model
           row == Retired(models[m], job[s].now)
<1>1. /\ m \in Model /\ job[s].now \in Time /\ models[m] \in Row
      /\ End(s) /\ UNCHANGED <<comparison, clock>>
  BY DEF RetireLoser, IInv, Shape, ShapeOf, Typed, AnyJob
<1>2. CASE models[m].status = "retired"
  BY <1>1, <1>2, EndStep DEF RetireLoser
<1>3. CASE models[m].status # "retired"
  <2>1. row \in Row /\ row.status = "retired" /\ Dated(row)
    BY <1>1, RowUpdates
  <2>2. models' = [models EXCEPT ![m] = row]
    BY <1>1, <1>3 DEF RetireLoser, IInv, Typed
  <2>3. job' = [job EXCEPT ![s] = IdleJob]
    BY <1>1 DEF End
  <2>4. ShapeOf(IdleJob)
    BY IdleJobType DEF ShapeOf
  <2> HIDE DEF row, m
  <2> QED
    BY <1>1, <2>1, <2>2, <2>3, <2>4, IdleJobType, WriteStep
<1> QED
  BY <1>2, <1>3

(* The broken champion's retirement is dated.                              *)
LEMMA RetireBrokenStep ==
  ASSUME IInv, NEW s \in Session, RetireBroken(s)
  PROVE  IInv'
<1> DEFINE m == job[s].rival
           row == Retired(models[m], job[s].now)
           r == [job[s] EXCEPT !.pc = "bootstrap"]
<1>1. /\ m \in Model /\ job[s].model \in Model /\ job[s] \in AnyJob /\ models[m] \in Row
      /\ job[s].now \in Time /\ UNCHANGED <<comparison, clock>>
  BY DEF RetireBroken, IInv, Shape, ShapeOf, Typed, AnyJob
<1>2. CASE models[m].status = "retired"
  BY <1>1, <1>2, EndStep DEF RetireBroken
<1>3. CASE models[m].status # "retired"
  <2>1. row \in Row /\ row.status = "retired" /\ Dated(row)
    BY <1>1, RowUpdates
  <2>2. models' = [models EXCEPT ![m] = row]
    BY <1>1, <1>3 DEF RetireBroken, IInv, Typed
  <2>3. r \in AnyJob /\ r.pc = "bootstrap" /\ r.model = job[s].model
    BY <1>1 DEF AnyJob, PC
  <2>4. job' = [job EXCEPT ![s] = r]
    BY <1>1, <1>3 DEF RetireBroken, IInv, Typed
  <2> HIDE DEF row, m, r
  <2>5. ShapeOf(r)
    BY <1>1, <2>3 DEF ShapeOf
  <2> QED
    BY <1>1, <2>1, <2>2, <2>3, <2>4, <2>5, WriteStep
<1> QED
  BY <1>2, <1>3

(* A comparison is recorded once, for a model of the job's own, so no      *)
(* evidence another job relies on is lost.                                 *)
LEMMA CompareStep ==
  ASSUME IInv, NEW s \in Session, Compare(s)
  PROVE  IInv'
<1> DEFINE m == job[s].model
           r == [job[s] EXCEPT !.pc = "retire_loser"]
<1> USE DEF IInv
<1>1. PICK verdict \in Verdict :
        /\ comparison' = [comparison EXCEPT ![m] =
                             [verdict |-> verdict, against |-> job[s].rival, at |-> job[s].now]]
        /\ job' = [job EXCEPT ![s].pc = "retire_loser"] \/ End(s)
  BY DEF Compare
<1>2. /\ s \in Owning /\ m \in Model /\ job[s].rival \in Model /\ job[s] \in AnyJob
      /\ job[s].now \in Time /\ UNCHANGED <<models, clock>>
  BY DEF Compare, Owning, Shape, ShapeOf, Typed, AnyJob
<1>3. PICK rec \in AnyJob : /\ job' = [job EXCEPT ![s] = rec]
                         /\ ShapeOf(rec) /\ rec.pc \in {"retire_loser", "idle"}
  <2>1. r \in AnyJob /\ r.pc = "retire_loser" /\ r.model = m
    BY <1>2 DEF AnyJob, PC
  <2>2. CASE End(s)
    BY <2>2, IdleJobType DEF End, ShapeOf
  <2>3. CASE job' = [job EXCEPT ![s].pc = "retire_loser"]
    <3>1. job' = [job EXCEPT ![s] = r]
      BY <2>3 DEF Typed
    <3> HIDE DEF r
    <3>2. ShapeOf(r)
      BY <1>2, <2>1 DEF ShapeOf
    <3> QED
      BY <2>1, <3>1, <3>2
  <2> QED
    BY <1>1, <2>2, <2>3
<1>4. job'[s] = rec /\ \A t \in Session \ {s} : job'[t] = job[t]
  BY <1>3 DEF Typed
<1>5. /\ comparison'[m] \in Comparison /\ comparison' \in [Model -> Comparison \cup {NoComparison}]
      /\ \A n \in Model \ {m} : comparison'[n] = comparison[n]
  BY <1>1, <1>2 DEF Typed, Comparison
<1>6. comparison[m] = NoComparison /\ models[m].status # "none"
  BY <1>2 DEF ComparedOnce
<1>7. Typed'
  BY <1>2, <1>3, <1>5 DEF Typed
<1>8. AtMostOneChampion' /\ RowsDated'
  BY <1>2 DEF AtMostOneChampion, OneChampion, RowsDated, Dated
<1>9. Shape'
  BY <1>3, <1>4 DEF Shape
<1>10. Evidenced'
  <2>1. \A t \in Session : EvidencedJob(job'[t]) /\ DOMAIN job'[t].rows \subseteq Model
    BY <1>3, <1>4, <1>7, RowsFacts DEF Evidenced, EvidencedJob, Typed, AnyJob
  <2>2. \A n \in Model, row \in Row : EvidenceFor(n, row) => EvidenceFor(n, row)'
    <3>1. ~ (comparison[m].verdict = "challenger_better")
      BY <1>6 DEF NoComparison
    <3>2. SUFFICES ASSUME NEW n \in Model, NEW row \in Row, EvidenceFor(n, row)
                   PROVE  /\ comparison'[n].verdict = "challenger_better"
                          /\ row.promoted_at - comparison'[n].at <= MaxAge
      BY DEF EvidenceFor
    <3>3. n # m
      BY <3>1, <3>2 DEF EvidenceFor
    <3>4. comparison'[n] = comparison[n]
      BY <1>5, <3>3
    <3> QED
      BY <3>2, <3>4 DEF EvidenceFor
  <2>3. \A t \in Session : \A n \in DOMAIN job'[t].rows : n \in Model /\ job'[t].rows[n] \in Row
    BY <1>7, RowsFacts DEF Typed, AnyJob
  <2> QED
    BY <1>2, <2>1, <2>2, <2>3 DEF Evidenced, EvidencedJob, EvidenceFor
<1>11. ComparedOnce'
  <2>1. Owning' \subseteq Owning \ {s} /\ \A t \in Owning' : job'[t] = job[t]
    BY <1>3, <1>4 DEF Owning
  <2>2. \A t \in Owning : job[t].model \in Model
    BY DEF Owning, Shape, ShapeOf
  <2>3. \A t \in Owning \ {s} : job[t].model # m
    BY <1>2 DEF ComparedOnce
  <2> QED
    BY <1>2, <1>5, <1>6, <2>1, <2>2, <2>3 DEF ComparedOnce
<1> QED
  BY <1>7, <1>8, <1>9, <1>10, <1>11

(* What a job commits is registered and dated, and the unique index        *)
(* refuses a second champion.                                              *)
LEMMA CommitStep ==
  ASSUME IInv, NEW s \in Session, Commit(s)
  PROVE  IInv'
<1> DEFINE rows == job[s].rows
<1> USE DEF IInv
<1>1. /\ rows \in AnyRows /\ End(s) /\ UNCHANGED <<comparison, clock>>
      /\ models' = IF OneChampion(Written(rows)) THEN Written(rows) ELSE models
      /\ \A m \in DOMAIN rows : rows[m].status # "none" /\ Dated(rows[m])
  BY DEF Commit, Shape, ShapeOf, Typed, AnyJob
<1>2. CASE models' = models
  BY <1>1, <1>2, EndStep
<1>3. CASE models' = Written(rows) /\ OneChampion(Written(rows))
  <2> HIDE DEF rows
  <2>1. models' \in [Model -> Row]
    BY <1>1, <1>3, WrittenType DEF Typed
  <2>2. \A m \in Model : models'[m] = IF m \in DOMAIN rows THEN rows[m] ELSE models[m]
    BY <1>3 DEF Written
  <2>3. job' = [job EXCEPT ![s] = IdleJob]
    BY <1>1 DEF End
  <2>4. job'[s] = IdleJob /\ \A t \in Session \ {s} : job'[t] = job[t]
    BY <2>3 DEF Typed
  <2>5. Typed'
    BY <1>1, <2>1, <2>3, IdleJobType DEF Typed
  <2>6. AtMostOneChampion'
    BY <1>3 DEF AtMostOneChampion
  <2>7. RowsDated'
    BY <1>1, <2>2 DEF RowsDated
  <2>8. Shape'
    BY <2>4, IdleJobType DEF Shape, ShapeOf
  <2>9. Evidenced'
    <3>1. \A t \in Session : EvidencedJob(job'[t]) /\ DOMAIN job'[t].rows \subseteq Model
      BY <2>4, <2>5, IdleJobType, RowsFacts DEF Evidenced, EvidencedJob, Typed, AnyJob
    <3> QED
      BY <1>1, <3>1 DEF Evidenced, EvidencedJob, EvidenceFor
  <2>10. ComparedOnce'
    <3>1. Owning' \subseteq Owning /\ \A t \in Owning' : job'[t] = job[t]
      BY <2>4, IdleJobType DEF Owning
    <3>2. \A t \in Owning : job[t].model \in Model
      BY DEF Owning, Shape, ShapeOf
    <3>3. \A n \in Model : models'[n].status = "none" => models[n].status = "none"
      BY <1>1, <2>2
    <3> QED
      BY <1>1, <3>1, <3>2, <3>3 DEF ComparedOnce
  <2> QED
    BY <2>5, <2>6, <2>7, <2>8, <2>9, <2>10
<1> QED
  BY <1>1, <1>2, <1>3

(* Time passing changes neither rows nor evidence.                         *)
LEMMA TickStep ==
  ASSUME IInv, Tick
  PROVE  IInv'
<1> USE DEF IInv, Tick
<1>1. Typed'
  BY TimeAssumption DEF Typed, Time
<1>2. AtMostOneChampion' /\ RowsDated' /\ Shape'
  BY DEF AtMostOneChampion, OneChampion, RowsDated, Dated, Shape
<1>3. Evidenced'
  BY DEF Evidenced, EvidencedJob, EvidenceFor
<1>4. ComparedOnce'
  BY DEF ComparedOnce, Owning
<1> QED
  BY <1>1, <1>2, <1>3, <1>4

-----------------------------------------------------------------------------

(* The invariant is inductive: one case per action.                        *)
LEMMA StepIInv == IInv /\ [Next]_vars => IInv'
<1> SUFFICES ASSUME IInv, [Next]_vars PROVE IInv'
  OBVIOUS
<1>1. ASSUME NEW s \in Session, NEW m \in Model, StartPromotion(s, m) \/ StartSetMode(s, m)
      PROVE IInv'
  BY <1>1, StartPromotionStep, StartSetModeStep
<1>2. ASSUME NEW s \in Session, NEW m \in Model, Register(s, m) PROVE IInv'
  BY <1>2, RegisterStep
<1>3. ASSUME NEW s \in Session, DecidePromotion(s) \/ Commit(s) PROVE IInv'
  BY <1>3, DecidePromotionStep, CommitStep
<1>4. ASSUME NEW s \in Session, StartRollback(s) \/ DecideRollback(s) PROVE IInv'
  BY <1>4, StartRollbackStep, DecideRollbackStep
<1>5. ASSUME NEW s \in Session, StartRetire(s) \/ StartAssessment(s) PROVE IInv'
  BY <1>5, StartRetireStep, StartAssessmentStep
<1>6. ASSUME NEW s \in Session, StartTraining(s) \/ PromoteToChallenger(s) PROVE IInv'
  BY <1>6, StartTrainingStep, PromoteToChallengerStep
<1>7. ASSUME NEW s \in Session, Compare(s) \/ RetireLoser(s) PROVE IInv'
  BY <1>7, CompareStep, RetireLoserStep
<1>8. ASSUME NEW s \in Session, VerifyArtifact(s) \/ RetireBroken(s) \/ Bootstrap(s)
      PROVE IInv'
  BY <1>8, VerifyArtifactStep, RetireBrokenStep, BootstrapStep
<1>9. ASSUME NEW s \in Session, ReportNotPromoted(s) \/ Abort(s) PROVE IInv'
  BY <1>9, EndStep DEF ReportNotPromoted, Abort
<1>10. CASE Tick
  BY <1>10, TickStep
<1>11. CASE UNCHANGED vars
  BY <1>11 DEF vars, IInv, Typed, AtMostOneChampion, OneChampion, RowsDated, Dated, Shape,
               Evidenced, EvidencedJob, EvidenceFor, ComparedOnce, Owning
<1> QED
  BY <1>1, <1>2, <1>3, <1>4, <1>5, <1>6, <1>7, <1>8, <1>9, <1>10, <1>11 DEF Next

(* The rows, comparisons and jobs always satisfy the inductive invariant.   *)
THEOREM InductiveInvariant == Spec => []IInv
<1> QED
  BY InitIInv, StepIInv, PTL DEF Spec

(* The rows, the comparisons and what jobs hold in memory keep their types. *)
THEOREM TypeCorrect == Spec => []TypeOK
<1>1. IInv => TypeOK
  <2> SUFFICES ASSUME IInv PROVE TypeOK
    OBVIOUS
  <2>1. /\ job = [s \in Session |-> job[s]]
        /\ \A s \in Session : job[s] \in AnyJob
    BY DEF IInv, Typed
  <2> QED
    BY <2>1, AnyJobIsJob DEF IInv, Typed, TypeOK
<1> QED
  BY <1>1, InductiveInvariant, PTL

(* The market never has two champions, however requests, sweeps and         *)
(* repairs overlap.                                                         *)
THEOREM OneChampionPerMarket == Spec => []AtMostOneChampion
<1>1. IInv => AtMostOneChampion
  BY DEF IInv
<1> QED
  BY <1>1, InductiveInvariant, PTL

(* Retired rows carry their retirement date and champions their promotion   *)
(* date, although jobs overwrite each other's rows.                         *)
THEOREM DatesCorrect == Spec => []StatusIsDated
<1>1. IInv => StatusIsDated
  BY DEF IInv, RowsDated, Dated, StatusIsDated
<1> QED
  BY <1>1, InductiveInvariant, PTL

(* A step that crowns a model is the commit of a job that holds its row.    *)
LEMMA CrownedByCommit ==
  ASSUME IInv, [Next]_vars, NEW new \in Model,
         models[new].status # "champion", models'[new].status = "champion"
  PROVE  \E s \in Session : Commit(s)
<1>1. models # models'
  OBVIOUS
<1>2. ASSUME NEW s \in Session, NEW m \in Model, Register(s, m) PROVE FALSE
  BY <1>2 DEF Register, IInv, Typed, Row
<1>3. ASSUME NEW s \in Session, PromoteToChallenger(s) PROVE FALSE
  BY <1>3 DEF PromoteToChallenger, IInv, Typed, Row, Shape, ShapeOf
<1>4. ASSUME NEW s \in Session, RetireLoser(s) PROVE FALSE
  <2> DEFINE m == job[s].model
  <2>1. m \in Model /\ models[m] \in Row /\ job[s].now \in Time
    BY <1>4 DEF RetireLoser, IInv, Typed, Shape, ShapeOf, AnyJob
  <2>2. Retired(models[m], job[s].now).status = "retired"
    BY <2>1, RowUpdates
  <2> QED
    BY <1>4, <2>1, <2>2 DEF RetireLoser, IInv, Typed
<1>5. ASSUME NEW s \in Session, RetireBroken(s) PROVE FALSE
  <2> DEFINE m == job[s].rival
  <2>1. m \in Model /\ models[m] \in Row /\ job[s].now \in Time
    BY <1>5 DEF RetireBroken, IInv, Typed, Shape, ShapeOf, AnyJob
  <2>2. Retired(models[m], job[s].now).status = "retired"
    BY <2>1, RowUpdates
  <2> QED
    BY <1>5, <2>1, <2>2 DEF RetireBroken, IInv, Typed
<1> QED
  BY <1>1, <1>2, <1>3, <1>4, <1>5
  DEF Next, vars, StartPromotion, DecidePromotion, StartRollback, DecideRollback, StartRetire,
      StartAssessment, StartSetMode, StartTraining, Compare, VerifyArtifact, ReportNotPromoted, Bootstrap,
      Abort, Tick

(* A serving champion is handed over to another model, other than by a      *)
(* rollback's commit, only on a favorable comparison that is at most        *)
(* max_comparison_age old.                                                  *)
THEOREM HandoverNeedsEvidence == Spec => HandoverOnEvidence
<1> DEFINE Handover ==
      \A old, new \in Model :
        (/\ old # new
         /\ models[old].status = "champion"
         /\ models'[new].status = "champion"
         /\ ~\E s \in Session : RollingBackTo(new, s) /\ Writes(s))
        => /\ comparison[new].verdict = "challenger_better"
           /\ models'[new].promoted_at - comparison[new].at <= MaxAge
<1>1. IInv /\ [Next]_vars => Handover
  <2> SUFFICES ASSUME IInv, [Next]_vars, NEW old \in Model, NEW new \in Model,
                      old # new, models[old].status = "champion",
                      models'[new].status = "champion",
                      ~\E s \in Session : RollingBackTo(new, s) /\ Writes(s)
               PROVE  /\ comparison[new].verdict = "challenger_better"
                      /\ models'[new].promoted_at - comparison[new].at <= MaxAge
    OBVIOUS
  <2>1. models[new].status # "champion"
    BY DEF IInv, AtMostOneChampion, OneChampion
  <2>2. PICK s \in Session : Commit(s)
    BY <2>1, CrownedByCommit
  <2>3. IInv'
    BY StepIInv
  <2>4. models'[old].status # "champion"
    BY <2>3 DEF IInv, AtMostOneChampion, OneChampion
  <2> DEFINE rows == job[s].rows
  <2>5. \A m \in Model : models'[m] = IF m \in DOMAIN rows THEN rows[m] ELSE models[m]
    BY <2>1, <2>2 DEF Commit, Written
  <2>6. /\ new \in DOMAIN rows /\ old \in DOMAIN rows
        /\ models'[new] = rows[new] /\ rows[new].status = "champion"
    BY <2>1, <2>4, <2>5
  <2>7. job[s].pc = "commit"
    BY <2>2, <2>6 DEF Commit, IInv, Shape, ShapeOf
  <2>8. Writes(s)
    <3>1. job'[s] = IdleJob
      BY <2>2 DEF Commit, End, IInv, Typed
    <3>2. QED
      BY <2>1, <2>7, <3>1, IdleJobType DEF Writes
  <2>9. job[s].model = new
    BY <2>7, <2>8 DEF RollingBackTo
  <2>10. EvidenceFor(new, rows[new])
    BY <2>6, <2>7, <2>9 DEF IInv, Evidenced, EvidencedJob
  <2> QED
    BY <2>6, <2>10 DEF EvidenceFor
<1> QED
  BY <1>1, InductiveInvariant, PTL DEF Spec, HandoverOnEvidence

(* A step that retires nobody keeps every champion a champion.              *)
LEMMA ChampionStays ==
  ASSUME IInv, Champions # {}, Champions' = {}, NEW m \in Model, NEW row \in Row,
         models[m].status # "champion", models' = [models EXCEPT ![m] = row]
  PROVE  FALSE
<1>1. PICK n \in Model : models[n].status = "champion"
  BY DEF Champions
<1>2. models'[n].status = "champion"
  BY <1>1 DEF IInv, Typed
<1> QED
  BY <1>1, <1>2 DEF Champions

(* A step that empties the market is a retire, or writes a deployment mode  *)
(* into the row of a model read before it was promoted.                     *)
LEMMA StepLosesByRetire ==
  ASSUME IInv, [Next]_vars, Champions # {}, Champions' = {}
  PROVE  \E s \in Session : (Retiring(s) \/ ReadBeforePromotion(s)) /\ Writes(s)
<1> USE DEF IInv
<1>1. models' # models
  BY DEF Champions
<1>2. ASSUME NEW s \in Session, NEW m \in Model, Register(s, m)
      PROVE  FALSE
  <2> DEFINE row == [models[m] EXCEPT !.status = "candidate"]
  <2>1. models[m] \in Row /\ models[m].status = "none"
    <3>1. models[m] = Unregistered
      BY <1>2 DEF Register
    <3>2. Unregistered.status = "none"
      BY DEF Unregistered
    <3> QED
      BY <3>1, <3>2 DEF Typed
  <2>2. row \in Row
    BY <2>1 DEF Row
  <2>3. models' = [models EXCEPT ![m] = row]
    BY <1>2 DEF Register, Typed
  <2> HIDE DEF row
  <2> QED
    BY <2>1, <2>2, <2>3, ChampionStays
<1>3. ASSUME NEW s \in Session, PromoteToChallenger(s)
      PROVE  FALSE
  <2> DEFINE m == job[s].model
             row == [models[m] EXCEPT !.status = "challenger"]
  <2>1. m \in Model /\ models[m] \in Row /\ models[m].status = "candidate"
    BY <1>1, <1>3 DEF PromoteToChallenger, Shape, ShapeOf, Typed
  <2>2. row \in Row
    BY <2>1 DEF Row
  <2>3. models' = [models EXCEPT ![m] = row]
    BY <1>3, <2>1 DEF PromoteToChallenger, Typed
  <2> HIDE DEF row, m
  <2> QED
    BY <2>1, <2>2, <2>3, ChampionStays
<1>4. ASSUME NEW s \in Session, RetireLoser(s)
      PROVE  Retiring(s) /\ Writes(s)
  <2>1. job[s].pc = "retire_loser" /\ job'[s] = IdleJob
    BY <1>4 DEF RetireLoser, End, Typed
  <2> QED
    BY <1>1, <2>1, IdleJobType DEF Retiring, Writes
<1>5. ASSUME NEW s \in Session, RetireBroken(s)
      PROVE  Retiring(s) /\ Writes(s)
  <2>1. job[s] \in AnyJob /\ job[s].pc = "retire_broken"
    BY <1>5 DEF RetireBroken, Typed
  <2>2. job' = [job EXCEPT ![s].pc = "bootstrap"]
    BY <1>1, <1>5 DEF RetireBroken
  <2>3. job'[s].pc = "bootstrap"
    BY <2>1, <2>2 DEF Typed, AnyJob
  <2> QED
    BY <1>1, <2>1, <2>3 DEF Retiring, Writes
<1>6. ASSUME NEW s \in Session, Commit(s)
      PROVE  (Retiring(s) \/ ReadBeforePromotion(s)) /\ Writes(s)
  <2> DEFINE rows == job[s].rows
  <2>1. job[s].pc \in {"commit", "mode"} /\ job'[s] = IdleJob /\ rows \in AnyRows
    BY <1>6 DEF Commit, End, Typed, AnyJob
  <2>2. models' = Written(rows)
    BY <1>1, <1>6 DEF Commit
  <2>3. Writes(s)
    BY <1>1, <2>1, IdleJobType DEF Writes
  <2>4. \A m \in DOMAIN rows : m \in Model /\ models'[m] = rows[m]
    BY <2>1, <2>2, RowsFacts DEF Written
  <2>5. \A m \in DOMAIN rows : rows[m].status # "champion"
    BY <2>4 DEF Champions
  <2>6. CASE job[s].pc = "commit"
    <3>1. \A m \in DOMAIN rows : rows[m].status = "retired"
      BY <2>5, <2>6 DEF Shape, ShapeOf
    <3> QED
      BY <2>3, <2>6, <3>1 DEF Retiring
  <2>7. CASE job[s].pc = "mode"
    <3>1. DOMAIN rows = {job[s].model}
      BY <2>7 DEF Shape, ShapeOf
    <3>2. PICK n \in Model : models[n].status = "champion"
      BY DEF Champions
    <3>3. models'[n].status # "champion"
      BY DEF Champions
    <3>4. n = job[s].model
      BY <2>2, <3>1, <3>2, <3>3 DEF Written
    <3> QED
      BY <2>3, <2>5, <2>7, <3>1, <3>2, <3>4 DEF ReadBeforePromotion
  <2> QED
    BY <2>1, <2>6, <2>7
<1>7. CASE UNCHANGED vars
  BY <1>1, <1>7 DEF vars
<1> QED
  BY <1>1, <1>2, <1>3, <1>4, <1>5, <1>6, <1>7
  DEF Next, StartPromotion, DecidePromotion, StartRollback, DecideRollback, StartRetire,
      StartAssessment, StartSetMode, StartTraining, Compare, VerifyArtifact, ReportNotPromoted, Bootstrap,
      Abort, Tick

(* However promotions, rollbacks, assessments, sweeps and changes of         *)
(* deployment mode overlap, a market that has a champion is left without one *)
(* by a retire, or by a deployment mode written into a row that was read     *)
(* before its promotion.                                                     *)
THEOREM ChampionHasSuccessor == Spec => ChampionIsReplaced
<1>1. IInv /\ [Next]_vars =>
        [Champions # {} /\ Champions' = {} =>
           \E s \in Session : (Retiring(s) \/ ReadBeforePromotion(s)) /\ Writes(s)]_vars
  BY StepLosesByRetire
<1> QED
  BY <1>1, InductiveInvariant, PTL DEF Spec, ChampionIsReplaced

-----------------------------------------------------------------------------
(* One job at a time: nothing changes under a job that has read it.        *)

(* Writing this row follows the lifecycle and keeps the integrity state.   *)
WrittenInOrder(m, row, holder) ==
    /\ models[m].compromised => row.compromised
    /\ row.status # models[m].status =>
          /\ row.status \in Successors(models[m].status)
          /\ models[m].status = "retired" => holder # m

(* What the job at work has read, or has written before, is still so.      *)
Faithful(j) ==
    /\ j.pc = "promote" => /\ models[j.model].status = "challenger"
                           /\ j.rows[j.model] = models[j.model]
    /\ j.pc = "rollback" => /\ models[j.model].status = "champion"
                            /\ models[j.model].compromised => j.rows[j.model].compromised
    /\ j.pc = "commit" => \A m \in DOMAIN j.rows : WrittenInOrder(m, j.rows[m], j.model)
    /\ j.pc = "mode" => \A m \in DOMAIN j.rows : j.rows[m] = models[m]
    /\ j.pc \in {"challenge", "compare", "retire_loser"} => models[j.model].status # "none"
    /\ j.pc \in {"train", "challenge", "verify", "retire_broken"} /\ j.rival # NoModel =>
          models[j.rival].status # "none"

OneBusy == \A s, t \in Busy : s = t

SerialInv == IInv /\ (mode = "serial" => OneBusy /\ \A s \in Session : Faithful(job[s]))

KeptCompromised == \A m \in Model : models[m].compromised => models'[m].compromised

(* The stages of the lifecycle, one by one.                                *)
LEMMA Stages ==
    /\ Successors("none") = {"candidate"}
    /\ Successors("candidate") = {"challenger", "retired"}
    /\ Successors("challenger") = {"champion", "retired"}
    /\ Successors("champion") = {"retired"}
    /\ Successors("retired") = {"champion"}
BY DEF Successors

(* No row update touches the integrity state.                              *)
LEMMA UpdatesKeepIntegrity ==
  ASSUME NEW row \in Row, NEW now \in Time
  PROVE  /\ Crowned(row, now).compromised = row.compromised
         /\ Reinstated(row, now).compromised = row.compromised
         /\ Retired(row, now).compromised = row.compromised
BY DEF Row, Crowned, Reinstated, Retired

(* A step that writes nothing is in order.                                 *)
LEMMA NoWrite == ASSUME models' = models PROVE InOrder /\ KeptCompromised
BY DEF InOrder, KeptCompromised

(* A step that writes one row of a model that is not retired is in order   *)
(* if the row goes on to the next stage and keeps its integrity state.     *)
LEMMA OneWrite ==
  ASSUME IInv, NEW m \in Model, NEW row, models' = [models EXCEPT ![m] = row],
         models[m].status # "retired", row.status \in Successors(models[m].status),
         models[m].compromised => row.compromised
  PROVE  InOrder /\ KeptCompromised
<1>1. models'[m] = row /\ \A n \in Model \ {m} : models'[n] = models[n]
  BY DEF IInv, Typed
<1>2. QED
  BY <1>1 DEF InOrder, KeptCompromised

(* A job that goes on without writing is faithful to the rows as they are. *)
LEMMA FaithfulJob ==
  ASSUME IInv, NEW s \in Session, NEW r, job' = [job EXCEPT ![s] = r], models' = models,
         Faithful(r)
  PROVE  InOrder /\ KeptCompromised /\ Faithful(job[s])'
<1>1. job'[s] = r
  BY DEF IInv, Typed
<1>2. Faithful(job[s])'
  BY <1>1 DEF Faithful, WrittenInOrder
<1>3. QED
  BY <1>2, NoWrite

(* A job that has ended remembers nothing.                                 *)
LEMMA FaithfulIdle ==
  ASSUME NEW s \in Session, job'[s].pc = "idle"
  PROVE  Faithful(job[s])'
BY DEF Faithful

(* A job that ends without writing.                                        *)
LEMMA FaithfulEnd ==
  ASSUME IInv, NEW s \in Session, End(s), models' = models
  PROVE  InOrder /\ KeptCompromised /\ Faithful(job[s])'
<1>1. job'[s].pc = "idle"
  BY IdleJobType DEF End, IInv, Typed
<1>2. QED
  BY <1>1, NoWrite, FaithfulIdle

-----------------------------------------------------------------------------

(* The jobs that begin with one row, as it is or as it will be committed.  *)
LEMMA FaithfulStart ==
  ASSUME IInv, NEW s \in Session,
         \/ \E m \in Model : StartPromotion(s, m) \/ StartSetMode(s, m)
         \/ StartRollback(s) \/ StartRetire(s) \/ StartAssessment(s)
  PROVE  InOrder /\ KeptCompromised /\ Faithful(job[s])'
<1>1. models \in [Model -> Row] /\ clock \in Time
  BY DEF IInv, Typed
<1>2. ASSUME NEW m \in Model, StartPromotion(s, m)
      PROVE  InOrder /\ KeptCompromised /\ Faithful(job[s])'
  <2> DEFINE r == Holding("promote", m, models[m])
  <2>1. r.pc = "promote" /\ r.model = m /\ r.rows[m] = models[m]
    BY <1>1, HoldingJob DEF IInv, PC
  <2>2. job' = [job EXCEPT ![s] = r] /\ models' = models /\ models[m].status = "challenger"
    BY <1>2 DEF StartPromotion, Begin
  <2> HIDE DEF r
  <2>3. Faithful(r)
    BY <2>1, <2>2 DEF Faithful
  <2>4. QED
    BY <2>2, <2>3, FaithfulJob
<1>3. ASSUME NEW m \in Champions, NEW pc \in {"rollback", "commit"}, models' = models,
             Begin(s, Holding(pc, m, Retired(models[m], clock)))
      PROVE  InOrder /\ KeptCompromised /\ Faithful(job[s])'
  <2> DEFINE row == Retired(models[m], clock)
             r == Holding(pc, m, row)
  <2>1. m \in Model /\ models[m].status = "champion" /\ models[m] \in Row
    BY <1>1 DEF Champions
  <2>2. row \in Row /\ row.status = "retired" /\ row.compromised = models[m].compromised
    BY <1>1, <2>1, RowUpdates, UpdatesKeepIntegrity
  <2> HIDE DEF row
  <2>3. r.pc = pc /\ r.model = m /\ r.rows[m] = row /\ DOMAIN r.rows = {m}
    BY <2>1, <2>2, HoldingJob DEF IInv, PC
  <2>4. job' = [job EXCEPT ![s] = r]
    BY <1>3 DEF Begin, row
  <2> HIDE DEF r
  <2>5. WrittenInOrder(m, row, m)
    BY <2>1, <2>2, Stages DEF WrittenInOrder
  <2>6. Faithful(r)
    BY <2>1, <2>2, <2>3, <2>5 DEF Faithful
  <2>7. QED
    BY <1>3, <2>4, <2>6, FaithfulJob
<1>4. ASSUME StartAssessment(s)
      PROVE  InOrder /\ KeptCompromised /\ Faithful(job[s])'
  <2>1. PICK m \in Champions : Begin(s, Holding("commit", m, [models[m] EXCEPT !.compromised = TRUE]))
    BY <1>4 DEF StartAssessment
  <2> DEFINE row == [models[m] EXCEPT !.compromised = TRUE]
             r == Holding("commit", m, row)
  <2>2. m \in Model /\ models[m] \in Row
    BY <1>1 DEF Champions
  <2>3. row \in Row /\ row.status = models[m].status /\ row.compromised
    BY <2>2 DEF Row
  <2> HIDE DEF row
  <2>4. r.pc = "commit" /\ r.model = m /\ r.rows[m] = row /\ DOMAIN r.rows = {m}
    BY <2>2, <2>3, HoldingJob DEF IInv, PC
  <2>5. job' = [job EXCEPT ![s] = r] /\ models' = models
    BY <1>4, <2>1 DEF Begin, row, StartAssessment
  <2> HIDE DEF r
  <2>6. Faithful(r)
    BY <2>3, <2>4 DEF Faithful, WrittenInOrder
  <2>7. QED
    BY <2>5, <2>6, FaithfulJob
<1>5. ASSUME NEW m \in Model, StartSetMode(s, m)
      PROVE  InOrder /\ KeptCompromised /\ Faithful(job[s])'
  <2> DEFINE r == Holding("mode", m, models[m])
  <2>1. r.pc = "mode" /\ DOMAIN r.rows = {m} /\ r.rows[m] = models[m]
    BY <1>1, HoldingJob DEF IInv, PC
  <2>2. job' = [job EXCEPT ![s] = r] /\ models' = models
    BY <1>5 DEF StartSetMode, Begin
  <2> HIDE DEF r
  <2>3. Faithful(r)
    BY <2>1 DEF Faithful
  <2>4. QED
    BY <2>2, <2>3, FaithfulJob
<1>6. QED
  BY <1>2, <1>3, <1>4, <1>5 DEF StartRollback, StartRetire

(* A promotion commits the challenger it has read, crowned, and the        *)
(* champion it has read, retired.                                          *)
LEMMA FaithfulPromotion ==
  ASSUME IInv, NEW s \in Session, DecidePromotion(s), Faithful(job[s])
  PROVE  InOrder /\ KeptCompromised /\ Faithful(job[s])'
<1> DEFINE m == job[s].model
           now == job[s].now
           crowned == Crowned(job[s].rows[m], now)
<1>1. /\ m \in Model /\ now \in Time /\ models[m] \in Row /\ models[m].status = "challenger"
      /\ job[s].rows[m] = models[m]
  BY DEF DecidePromotion, IInv, Shape, ShapeOf, Typed, AnyJob, Faithful
<1>2. models' = models /\ job[s] \in AnyJob /\ "commit" \in PC
  BY DEF DecidePromotion, IInv, Typed, PC
<1>3. /\ crowned \in Row /\ crowned.status = "champion"
      /\ crowned.compromised = models[m].compromised
  BY <1>1, RowUpdates, UpdatesKeepIntegrity
<1>4. WrittenInOrder(m, crowned, m)
  BY <1>1, <1>3, Stages DEF WrittenInOrder
<1>5. CASE End(s)
  BY <1>2, <1>5, FaithfulEnd
<1>6. ASSUME job' = [job EXCEPT ![s] = GoOn(@, "commit", OneRow(m, crowned))]
      PROVE  InOrder /\ KeptCompromised /\ Faithful(job[s])'
  <2> DEFINE rows == OneRow(m, crowned)
             r == GoOn(job[s], "commit", rows)
  <2> HIDE DEF now, crowned
  <2>1. rows \in AnyRows /\ DOMAIN rows = {m} /\ rows[m] = crowned
    BY <1>1, <1>3, OneRowInRows
  <2> HIDE DEF rows
  <2>2. r.pc = "commit" /\ r.rows = rows /\ r.model = m
    BY <1>2, <2>1, GoOnJob
  <2>3. job' = [job EXCEPT ![s] = r]
    BY <1>6 DEF rows
  <2> HIDE DEF r, m
  <2>4. Faithful(r)
    BY <1>4, <2>1, <2>2 DEF Faithful
  <2>5. QED
    BY <1>2, <2>3, <2>4, FaithfulJob
<1>7. ASSUME NEW rival \in GetChampion, rival \notin {NoModel, m},
             job' = [job EXCEPT ![s] =
                       GoOn(@, "commit", TwoRows(m, crowned, rival, Retired(models[rival], now)))]
      PROVE  InOrder /\ KeptCompromised /\ Faithful(job[s])'
  <2> DEFINE out == Retired(models[rival], now)
             rows == TwoRows(m, crowned, rival, out)
             r == GoOn(job[s], "commit", rows)
  <2> HIDE DEF now, crowned
  <2>1. rival \in Model /\ rival # m /\ models[rival].status = "champion" /\ models[rival] \in Row
    BY <1>7 DEF GetChampion, Champions, IInv, Typed
  <2>2. out \in Row /\ out.status = "retired" /\ out.compromised = models[rival].compromised
    BY <1>1, <2>1, RowUpdates, UpdatesKeepIntegrity
  <2> HIDE DEF out
  <2>3. WrittenInOrder(rival, out, m)
    BY <2>1, <2>2, Stages DEF WrittenInOrder
  <2>4. rows \in AnyRows /\ DOMAIN rows = {m, rival} /\ rows[m] = crowned /\ rows[rival] = out
    <3>1. rows \in [{m, rival} -> Row] /\ rows[m] = crowned /\ rows[rival] = out
      BY <1>3, <2>1, <2>2 DEF TwoRows
    <3>2. {m, rival} \in SUBSET Model
      BY <1>1, <2>1
    <3>3. QED
      BY <3>1, <3>2 DEF AnyRows
  <2>5. job' = [job EXCEPT ![s] = r]
    BY <1>7 DEF out
  <2> HIDE DEF rows
  <2>6. r.pc = "commit" /\ r.rows = rows /\ r.model = m
    BY <1>2, <2>4, GoOnJob
  <2> HIDE DEF r, m
  <2>7. Faithful(r)
    BY <1>4, <2>3, <2>4, <2>6 DEF Faithful
  <2>8. QED
    BY <1>2, <2>5, <2>7, FaithfulJob
<1>8. QED
  BY <1>5, <1>6, <1>7 DEF DecidePromotion

(* A rollback commits the champion it has read, retired, and another model *)
(* that is retired, reinstated.                                            *)
LEMMA FaithfulRollback ==
  ASSUME IInv, NEW s \in Session, DecideRollback(s), Faithful(job[s])
  PROVE  InOrder /\ KeptCompromised /\ Faithful(job[s])'
<1> DEFINE m == job[s].model
           now == job[s].now
           mine == job[s].rows[m]
<1>1. /\ m \in Model /\ now \in Time /\ mine \in Row /\ mine.status = "retired"
      /\ models[m].status = "champion" /\ (models[m].compromised => mine.compromised)
  BY RowsFacts DEF DecideRollback, IInv, Shape, ShapeOf, Typed, AnyJob, Faithful
<1>2. models' = models /\ job[s] \in AnyJob /\ "commit" \in PC
  BY DEF DecideRollback, IInv, Typed, PC
<1>3. WrittenInOrder(m, mine, m)
  BY <1>1, Stages DEF WrittenInOrder
<1>4. CASE End(s)
  BY <1>2, <1>4, FaithfulEnd
<1>5. ASSUME NEW previous \in LatestRetired,
             job' = [job EXCEPT ![s] =
                       GoOn(@, "commit", TwoRows(previous, Reinstated(models[previous], now),
                                                 m, mine))]
      PROVE  InOrder /\ KeptCompromised /\ Faithful(job[s])'
  <2> DEFINE in == Reinstated(models[previous], now)
             rows == TwoRows(previous, in, m, mine)
             r == GoOn(job[s], "commit", rows)
  <2> HIDE DEF now, mine
  <2>1. previous \in Model /\ models[previous].status = "retired" /\ models[previous] \in Row
    BY DEF LatestRetired, IInv, Typed
  <2>2. previous # m
    BY <1>1, <2>1
  <2>3. in \in Row /\ in.status = "champion" /\ in.compromised = models[previous].compromised
    BY <1>1, <2>1, RowUpdates, UpdatesKeepIntegrity
  <2> HIDE DEF in
  <2>4. WrittenInOrder(previous, in, m)
    BY <2>1, <2>2, <2>3, Stages DEF WrittenInOrder
  <2>5. /\ rows \in AnyRows /\ DOMAIN rows = {previous, m} /\ rows[previous] = in
        /\ rows[m] = mine
    <3>1. rows \in [{previous, m} -> Row] /\ rows[previous] = in /\ rows[m] = mine
      BY <1>1, <2>1, <2>2, <2>3 DEF TwoRows
    <3>2. {previous, m} \in SUBSET Model
      BY <1>1, <2>1
    <3>3. QED
      BY <3>1, <3>2 DEF AnyRows
  <2>6. job' = [job EXCEPT ![s] = r]
    BY <1>5 DEF in
  <2> HIDE DEF rows
  <2>7. r.pc = "commit" /\ r.rows = rows /\ r.model = m
    BY <1>2, <2>5, GoOnJob
  <2> HIDE DEF r, m
  <2>8. Faithful(r)
    BY <1>3, <2>4, <2>5, <2>7 DEF Faithful
  <2>9. QED
    BY <1>2, <2>6, <2>8, FaithfulJob
<1>6. QED
  BY <1>4, <1>5 DEF DecideRollback

(* Sweeps and repairs that only read: the champion read has been registered.*)
LEMMA FaithfulReading ==
  ASSUME IInv, NEW s \in Session, Faithful(job[s]),
         StartTraining(s) \/ VerifyArtifact(s) \/ Compare(s) \/ Bootstrap(s)
  PROVE  InOrder /\ KeptCompromised /\ Faithful(job[s])'
<1>0. job[s] \in AnyJob /\ models \in [Model -> Row]
  BY DEF IInv, Typed
<1>1. CASE StartTraining(s)
  <2>1. PICK rival \in GetChampion, repair \in BOOLEAN :
          Begin(s, [pc |-> "train", repair |-> repair, model |-> NoModel, rival |-> rival,
                    now |-> clock, rows |-> NoRows])
    BY <1>1 DEF StartTraining
  <2> DEFINE r == [pc |-> "train", repair |-> repair, model |-> NoModel, rival |-> rival,
                   now |-> clock, rows |-> NoRows]
  <2>2. r.pc = "train" /\ r.rival = rival
    OBVIOUS
  <2>3. job' = [job EXCEPT ![s] = r] /\ models' = models
    BY <1>1, <2>1 DEF StartTraining, Begin
  <2>4. rival # NoModel => models[rival].status # "none"
    BY DEF GetChampion, Champions
  <2> HIDE DEF r
  <2>5. Faithful(r)
    BY <2>2, <2>4 DEF Faithful
  <2>6. QED
    BY <2>3, <2>5, FaithfulJob
<1>2. CASE VerifyArtifact(s)
  <2>1. PICK pc \in {"not_promoted", "bootstrap", "retire_broken"} :
           job' = [job EXCEPT ![s].pc = pc]
    BY <1>2 DEF VerifyArtifact
  <2> DEFINE r == [job[s] EXCEPT !.pc = pc]
  <2>2. r.pc = pc /\ r.rival = job[s].rival
    BY <1>0 DEF AnyJob
  <2>3. job' = [job EXCEPT ![s] = r] /\ models' = models /\ job[s].pc = "verify"
    BY <1>2, <2>1 DEF VerifyArtifact
  <2> HIDE DEF r
  <2>4. Faithful(r)
    BY <2>2, <2>3 DEF Faithful
  <2>5. QED
    BY <2>3, <2>4, FaithfulJob
<1>3. CASE Compare(s)
  <2>1. models' = models /\ job[s].pc = "compare"
    BY <1>3 DEF Compare
  <2>2. CASE End(s)
    BY <2>1, <2>2, FaithfulEnd
  <2>3. CASE job' = [job EXCEPT ![s].pc = "retire_loser"]
    <3> DEFINE r == [job[s] EXCEPT !.pc = "retire_loser"]
    <3>1. r.pc = "retire_loser" /\ r.model = job[s].model
      BY <1>0 DEF AnyJob
    <3>2. job' = [job EXCEPT ![s] = r]
      BY <2>3
    <3> HIDE DEF r
    <3>3. Faithful(r)
      BY <2>1, <3>1 DEF Faithful
    <3>4. QED
      BY <2>1, <3>2, <3>3, FaithfulJob
  <2>4. QED
    BY <1>3, <2>2, <2>3 DEF Compare
<1>4. CASE Bootstrap(s)
  <2> DEFINE m == job[s].model
             rows == OneRow(m, models[m])
             r == GoOn(job[s], "promote", rows)
  <2>1. m \in Model /\ models' = models /\ "promote" \in PC
    BY <1>4 DEF Bootstrap, IInv, Shape, ShapeOf, PC
  <2>2. CASE End(s)
    BY <2>1, <2>2, FaithfulEnd
  <2>3. ASSUME job' = [job EXCEPT ![s] = r], models[m].status = "challenger"
        PROVE  InOrder /\ KeptCompromised /\ Faithful(job[s])'
    <3>1. rows \in AnyRows /\ rows[m] = models[m]
      BY <1>0, <2>1, OneRowInRows
    <3> HIDE DEF rows
    <3>2. r.pc = "promote" /\ r.rows = rows /\ r.model = m
      BY <1>0, <2>1, <3>1, GoOnJob
    <3> HIDE DEF r, m
    <3>3. Faithful(r)
      BY <2>3, <3>1, <3>2 DEF Faithful
    <3>4. QED
      BY <2>1, <2>3, <3>3, FaithfulJob
  <2>4. QED
    BY <1>4, <2>2, <2>3 DEF Bootstrap
<1>5. QED
  BY <1>1, <1>2, <1>3, <1>4

(* A new row is the first stage of the lifecycle.                          *)
LEMMA FaithfulRegister ==
  ASSUME IInv, NEW s \in Session, NEW m \in Model, Register(s, m), Faithful(job[s])
  PROVE  InOrder /\ KeptCompromised /\ Faithful(job[s])'
<1> DEFINE row == [models[m] EXCEPT !.status = "candidate"]
           r == [job[s] EXCEPT !.pc = "challenge", !.model = m]
<1>1. /\ models[m] = Unregistered /\ job[s] \in AnyJob /\ job[s].pc = "train"
      /\ models[m] \in Row
  BY DEF Register, IInv, Typed
<1>2. models[m].status = "none" /\ ~models[m].compromised
  BY <1>1 DEF Unregistered
<1>3. row.status = "candidate"
  BY <1>1 DEF Row
<1>4. models' = [models EXCEPT ![m] = row] /\ job' = [job EXCEPT ![s] = r]
  BY DEF Register
<1>5. r.pc = "challenge" /\ r.model = m /\ r.rival = job[s].rival
  BY <1>1 DEF AnyJob
<1> HIDE DEF row, r
<1>6. InOrder /\ KeptCompromised
  BY <1>2, <1>3, <1>4, Stages, OneWrite
<1>7. models'[m] = row /\ \A n \in Model \ {m} : models'[n] = models[n]
  BY <1>4 DEF IInv, Typed
<1>8. job'[s] = r /\ job[s].rival \in Model \cup {NoModel}
  BY <1>1, <1>4 DEF IInv, Typed, AnyJob
<1>9. job[s].rival # NoModel => models[job[s].rival].status # "none"
  BY <1>1 DEF Faithful
<1>10. Faithful(job[s])'
  BY <1>3, <1>5, <1>7, <1>8, <1>9 DEF Faithful
<1>11. QED
  BY <1>6, <1>10

(* A candidate becomes a challenger.                                       *)
LEMMA FaithfulChallenge ==
  ASSUME IInv, NEW s \in Session, PromoteToChallenger(s), Faithful(job[s])
  PROVE  InOrder /\ KeptCompromised /\ Faithful(job[s])'
<1> DEFINE m == job[s].model
           row == [models[m] EXCEPT !.status = "challenger"]
           r == [job[s] EXCEPT !.pc = AfterChallenge(job[s])]
<1>1. m \in Model /\ job[s] \in AnyJob /\ job[s].pc = "challenge" /\ models[m] \in Row
  BY DEF PromoteToChallenger, IInv, Shape, ShapeOf, Typed
<1>2. CASE models[m].status # "candidate"
  BY <1>2, FaithfulEnd DEF PromoteToChallenger
<1>3. CASE models[m].status = "candidate"
  <2>1. row.status = "challenger" /\ row.compromised = models[m].compromised
    BY <1>1 DEF Row
  <2>2. /\ r.pc \in {"verify", "bootstrap", "compare"} /\ r.model = m
        /\ r.rival = job[s].rival
    BY <1>1 DEF AnyJob, AfterChallenge
  <2>3. models' = [models EXCEPT ![m] = row] /\ job' = [job EXCEPT ![s] = r]
    BY <1>3 DEF PromoteToChallenger
  <2> HIDE DEF row, r, m
  <2>4. InOrder /\ KeptCompromised
    BY <1>1, <1>3, <2>1, <2>3, Stages, OneWrite
  <2>5. models'[m] = row /\ \A n \in Model \ {m} : models'[n] = models[n]
    BY <1>1, <2>3 DEF IInv, Typed
  <2>6. job'[s] = r /\ job[s].rival \in Model \cup {NoModel}
    BY <1>1, <2>3 DEF IInv, Typed, AnyJob
  <2>7. job[s].rival # NoModel => models[job[s].rival].status # "none"
    BY <1>1 DEF Faithful
  <2>8. Faithful(job[s])'
    BY <2>1, <2>2, <2>5, <2>6, <2>7 DEF Faithful
  <2>9. QED
    BY <2>4, <2>8
<1>4. QED
  BY <1>2, <1>3

(* What is retired had been registered, and was not retired before.        *)
LEMMA RetirementInOrder ==
  ASSUME IInv, NEW m \in Model, NEW now \in Time,
         models' = [models EXCEPT ![m] = Retired(@, now)],
         models[m].status \notin {"none", "retired"}
  PROVE  InOrder /\ KeptCompromised
<1> DEFINE row == Retired(models[m], now)
<1>1. models[m] \in Row
  BY DEF IInv, Typed
<1>2. row.status = "retired" /\ row.compromised = models[m].compromised
  BY <1>1, RowUpdates, UpdatesKeepIntegrity
<1>3. models[m].status \in {"candidate", "challenger", "champion"}
  BY <1>1 DEF Row
<1>4. models' = [models EXCEPT ![m] = row]
  OBVIOUS
<1> HIDE DEF row
<1>5. QED
  BY <1>2, <1>3, <1>4, Stages, OneWrite

(* The sweep retires the loser.                                            *)
LEMMA FaithfulRetireLoser ==
  ASSUME IInv, NEW s \in Session, RetireLoser(s), Faithful(job[s])
  PROVE  InOrder /\ KeptCompromised /\ Faithful(job[s])'
<1>1. /\ job[s].model \in Model /\ job[s].now \in Time /\ End(s)
      /\ models[job[s].model].status # "none"
  BY DEF RetireLoser, IInv, Shape, ShapeOf, Typed, AnyJob, Faithful
<1>2. CASE models[job[s].model].status = "retired"
  BY <1>1, <1>2, FaithfulEnd DEF RetireLoser
<1>3. CASE models[job[s].model].status # "retired"
  <2>1. job'[s].pc = "idle"
    BY <1>1, IdleJobType DEF End, IInv, Typed
  <2>2. InOrder /\ KeptCompromised
    BY <1>1, <1>3, RetirementInOrder DEF RetireLoser
  <2>3. QED
    BY <2>1, <2>2, FaithfulIdle
<1>4. QED
  BY <1>2, <1>3

(* The repair retires the broken champion.                                 *)
LEMMA FaithfulRetireBroken ==
  ASSUME IInv, NEW s \in Session, RetireBroken(s), Faithful(job[s])
  PROVE  InOrder /\ KeptCompromised /\ Faithful(job[s])'
<1>1. /\ job[s].rival \in Model /\ job[s].now \in Time /\ job[s] \in AnyJob
      /\ job[s].pc = "retire_broken" /\ job[s].rival # NoModel
  BY NoModelAssumption DEF RetireBroken, IInv, Shape, ShapeOf, Typed, AnyJob
<1>2. models[job[s].rival].status # "none"
  BY <1>1 DEF Faithful
<1>3. CASE models[job[s].rival].status = "retired"
  BY <1>3, FaithfulEnd DEF RetireBroken
<1>4. CASE models[job[s].rival].status # "retired"
  <2>1. job' = [job EXCEPT ![s].pc = "bootstrap"]
    BY <1>4 DEF RetireBroken
  <2>2. job'[s].pc = "bootstrap"
    BY <1>1, <2>1 DEF IInv, Typed, AnyJob
  <2>3. InOrder /\ KeptCompromised
    BY <1>1, <1>2, <1>4, RetirementInOrder DEF RetireBroken
  <2>4. Faithful(job[s])'
    BY <2>2 DEF Faithful
  <2>5. QED
    BY <2>3, <2>4
<1>5. QED
  BY <1>3, <1>4

(* A commit writes what was in order when it was read, and still is; a      *)
(* deployment mode goes into the row as it still is.                       *)
LEMMA FaithfulCommit ==
  ASSUME IInv, NEW s \in Session, Commit(s), Faithful(job[s])
  PROVE  InOrder /\ KeptCompromised /\ Faithful(job[s])'
<1> DEFINE rows == job[s].rows
<1>1. /\ job[s].pc \in {"commit", "mode"} /\ End(s)
      /\ models' = IF OneChampion(Written(rows)) THEN Written(rows) ELSE models
  BY DEF Commit
<1>2. CASE models' = models
  BY <1>1, <1>2, FaithfulEnd
<1>3. CASE models' = Written(rows) /\ job[s].pc = "commit"
  <2>0. \A m \in DOMAIN rows : WrittenInOrder(m, rows[m], job[s].model)
    BY <1>3 DEF Faithful
  <2>1. \A m \in Model : models'[m] = IF m \in DOMAIN rows THEN rows[m] ELSE models[m]
    BY <1>3 DEF Written
  <2>2. InOrder
    BY <1>3, <2>0, <2>1 DEF InOrder, WrittenInOrder
  <2>3. KeptCompromised
    BY <2>0, <2>1 DEF KeptCompromised, WrittenInOrder
  <2>4. job'[s].pc = "idle"
    BY <1>1, IdleJobType DEF End, IInv, Typed
  <2>5. QED
    BY <2>2, <2>3, <2>4, FaithfulIdle
<1>4. CASE models' = Written(rows) /\ job[s].pc = "mode"
  <2>1. \A m \in DOMAIN rows : rows[m] = models[m]
    BY <1>4 DEF Faithful
  <2>2. \A m \in Model : models'[m] = models[m]
    BY <1>4, <2>1 DEF Written
  <2>3. InOrder /\ KeptCompromised
    BY <2>2 DEF InOrder, KeptCompromised
  <2>4. job'[s].pc = "idle"
    BY <1>1, IdleJobType DEF End, IInv, Typed
  <2>5. QED
    BY <2>3, <2>4, FaithfulIdle
<1>5. QED
  BY <1>1, <1>2, <1>3, <1>4

(* A job's step, whatever it is.                                           *)
WorkOf(s) ==
    \/ \E m \in Model : StartPromotion(s, m) \/ StartSetMode(s, m) \/ Register(s, m)
    \/ DecidePromotion(s) \/ Commit(s)
    \/ StartRollback(s) \/ DecideRollback(s)
    \/ StartRetire(s) \/ StartAssessment(s)
    \/ StartTraining(s) \/ PromoteToChallenger(s)
    \/ Compare(s) \/ RetireLoser(s)
    \/ VerifyArtifact(s) \/ ReportNotPromoted(s) \/ RetireBroken(s) \/ Bootstrap(s)
    \/ Abort(s)

(* A step of a job faithful to the rows is in order.                       *)
LEMMA FaithfulWork ==
  ASSUME IInv, NEW s \in Session, WorkOf(s), Faithful(job[s])
  PROVE  InOrder /\ KeptCompromised /\ Faithful(job[s])'
<1>1. CASE \/ \E m \in Model : StartPromotion(s, m) \/ StartSetMode(s, m)
           \/ StartRollback(s) \/ StartRetire(s) \/ StartAssessment(s)
  BY <1>1, FaithfulStart
<1>2. CASE \E m \in Model : Register(s, m)
  BY <1>2, FaithfulRegister
<1>3. CASE DecidePromotion(s) \/ DecideRollback(s)
  BY <1>3, FaithfulPromotion, FaithfulRollback
<1>4. CASE StartTraining(s) \/ VerifyArtifact(s) \/ Compare(s) \/ Bootstrap(s)
  BY <1>4, FaithfulReading
<1>5. CASE PromoteToChallenger(s) \/ RetireLoser(s) \/ RetireBroken(s) \/ Commit(s)
  BY <1>5, FaithfulChallenge, FaithfulRetireLoser, FaithfulRetireBroken, FaithfulCommit
<1>6. CASE ReportNotPromoted(s) \/ Abort(s)
  BY <1>6, FaithfulEnd DEF ReportNotPromoted, Abort
<1>7. QED
  BY <1>1, <1>2, <1>3, <1>4, <1>5, <1>6 DEF WorkOf

(* A job's step changes that job only.                                     *)
LEMMA OneJobWorks ==
  ASSUME IInv, NEW s \in Session, WorkOf(s)
  PROVE  /\ \A t \in Session \ {s} : job'[t] = job[t]
         /\ job[s].pc # "idle" \/ job'[s].pc # "idle"
<1>1. job \in [Session -> AnyJob]
  BY DEF IInv, Typed
<1>2. CASE \/ \E m \in Model : StartPromotion(s, m) \/ StartSetMode(s, m)
           \/ StartRollback(s) \/ StartRetire(s) \/ StartAssessment(s)
  <2>1. PICK m \in Model, pc \in {"promote", "rollback", "commit", "mode"} :
           \E row : job' = [job EXCEPT ![s] = Holding(pc, m, row)]
    BY <1>2 DEF StartPromotion, StartSetMode, StartRollback, StartRetire, StartAssessment, Begin, Champions
  <2>2. PICK row : job' = [job EXCEPT ![s] = Holding(pc, m, row)]
    BY <2>1
  <2>3. Holding(pc, m, row).pc # "idle"
    BY DEF Holding
  <2>4. QED
    BY <1>1, <2>2, <2>3
<1>3. CASE StartTraining(s)
  <2>1. PICK rival \in GetChampion, repair \in BOOLEAN :
          job' = [job EXCEPT ![s] = [pc |-> "train", repair |-> repair, model |-> NoModel,
                                     rival |-> rival, now |-> clock, rows |-> NoRows]]
    BY <1>3 DEF StartTraining, Begin
  <2>2. job'[s].pc = "train"
    BY <1>1, <2>1
  <2>3. QED
    BY <1>1, <2>1, <2>2
<1>4. CASE \/ \E m \in Model : Register(s, m)
           \/ DecidePromotion(s) \/ Commit(s) \/ DecideRollback(s)
           \/ PromoteToChallenger(s) \/ Compare(s) \/ RetireLoser(s) \/ VerifyArtifact(s)
           \/ ReportNotPromoted(s) \/ RetireBroken(s) \/ Bootstrap(s) \/ Abort(s)
  <2>1. job[s].pc # "idle"
    BY <1>4 DEF Register, DecidePromotion, Commit, DecideRollback, PromoteToChallenger,
                Compare, RetireLoser, VerifyArtifact, ReportNotPromoted, RetireBroken,
                Bootstrap, Abort
  <2>2. \E r : job' = [job EXCEPT ![s] = r]
    <3>1. CASE \E m \in Model : Register(s, m)
      BY <3>1 DEF Register
    <3>2. CASE DecidePromotion(s)
      BY <3>2 DEF DecidePromotion, End
    <3>3. CASE DecideRollback(s)
      BY <3>3 DEF DecideRollback, End
    <3>4. CASE PromoteToChallenger(s) \/ VerifyArtifact(s)
      BY <3>4 DEF PromoteToChallenger, VerifyArtifact, End
    <3>5. CASE Compare(s) \/ RetireBroken(s) \/ Bootstrap(s)
      BY <3>5 DEF Compare, RetireBroken, Bootstrap, End
    <3>6. CASE Commit(s) \/ RetireLoser(s) \/ ReportNotPromoted(s) \/ Abort(s)
      BY <3>6 DEF Commit, RetireLoser, ReportNotPromoted, Abort, End
    <3>7. QED
      BY <1>4, <3>1, <3>2, <3>3, <3>4, <3>5, <3>6
  <2>3. QED
    BY <1>1, <2>1, <2>2
<1>5. QED
  BY <1>2, <1>3, <1>4 DEF WorkOf

(* Jobs that come one after the other keep the invariant, and every step   *)
(* they take is in order.                                                  *)
LEMMA StepSerial ==
  SerialInv /\ [MCNext]_<<vars, mode>> =>
     SerialInv' /\ (mode = "serial" => InOrder /\ KeptCompromised)
<1> SUFFICES ASSUME SerialInv, [MCNext]_<<vars, mode>>
             PROVE  SerialInv' /\ (mode = "serial" => InOrder /\ KeptCompromised)
  OBVIOUS
<1>0. IInv /\ IInv' /\ mode' = mode /\ [Next]_vars
  BY StepIInv DEF SerialInv, MCNext
<1>1. ASSUME mode = "serial"
      PROVE  OneBusy' /\ (\A s \in Session : Faithful(job[s]))' /\ InOrder /\ KeptCompromised
  <2>0. OneBusy /\ \A s \in Session : Faithful(job[s])
    BY <1>1 DEF SerialInv
  <2>1. CASE UNCHANGED <<models, job>>
    <3>1. OneBusy'
      BY <2>0, <2>1 DEF OneBusy, Busy
    <3>2. (\A s \in Session : Faithful(job[s]))'
      BY <2>0, <2>1 DEF Faithful, WrittenInOrder
    <3>3. QED
      BY <2>1, <3>1, <3>2, NoWrite
  <2>2. ASSUME NEW s \in Session, WorkOf(s), MCNext
        PROVE  OneBusy' /\ (\A t \in Session : Faithful(job[t]))' /\ InOrder /\ KeptCompromised
    <3>1. OneBusy'
      BY <1>1, <2>2 DEF MCNext, Allowed, OneBusy
    <3>2. InOrder /\ KeptCompromised /\ Faithful(job[s])'
      BY <1>0, <2>0, <2>2, FaithfulWork
    <3>3. /\ \A t \in Session \ {s} : job'[t] = job[t]
          /\ job[s].pc # "idle" \/ job'[s].pc # "idle"
      BY <1>0, <2>2, OneJobWorks
    <3>4. \A t \in Session \ {s} : job'[t].pc = "idle"
      BY <2>0, <3>1, <3>3 DEF OneBusy, Busy
    <3>5. \A t \in Session \ {s} : Faithful(job[t])'
      BY <3>4, FaithfulIdle
    <3>6. QED
      BY <3>1, <3>2, <3>5
  <2>3. CASE MCNext
    <3>1. Tick \/ \E s \in Session : WorkOf(s)
      BY <2>3 DEF MCNext, Next, WorkOf
    <3>2. QED
      BY <2>1, <2>2, <2>3, <3>1 DEF Tick
  <2>4. QED
    BY <2>1, <2>3 DEF vars
<1>2. QED
  BY <1>0, <1>1 DEF SerialInv

(* It holds before the first job.                                          *)
LEMMA InitSerial == MCInit => SerialInv
<1> SUFFICES ASSUME MCInit PROVE SerialInv
  OBVIOUS
<1>1. IInv
  BY InitIInv DEF MCInit
<1>2. \A s \in Session : job[s].pc = "idle"
  BY IdleJobType DEF MCInit, Init
<1>3. OneBusy /\ \A s \in Session : Faithful(job[s])
  BY <1>2 DEF OneBusy, Busy, Faithful
<1>4. QED
  BY <1>1, <1>3 DEF SerialInv

(* Jobs that come one after the other keep SerialInv.                      *)
THEOREM SerialInductiveInvariant == MCSpec => []SerialInv
BY InitSerial, StepSerial, PTL DEF MCSpec

(* When jobs do not overlap, every model follows the lifecycle of          *)
(* ModelStatus, a rollback being the only way back from RETIRED.           *)
THEOREM LifecycleIsFollowed == MCSpec => LifecycleOrder
<1>1. SerialInv /\ [MCNext]_<<vars, mode>> => (mode = "serial" => InOrder)
  BY StepSerial
<1>2. QED
  BY <1>1, SerialInductiveInvariant, PTL DEF MCSpec, LifecycleOrder

(* When jobs do not overlap, no write of a row resets a confirmed          *)
(* integrity violation.                                                    *)
THEOREM CompromiseIsKept == MCSpec => CompromiseIsPermanent
<1>1. SerialInv /\ [MCNext]_<<vars, mode>> =>
        (mode = "serial" => \A m \in Model : models[m].compromised => models'[m].compromised)
  BY StepSerial DEF KeptCompromised
<1>2. QED
  BY <1>1, SerialInductiveInvariant, PTL DEF MCSpec, CompromiseIsPermanent
=============================================================================
