--------------------------- MODULE ModelRegistry ---------------------------
(***************************************************************************)
(* The Champion/Challenger registry of ONE prediction market: the rows of  *)
(* predictions.models, the comparisons recorded for them, and the jobs     *)
(* that read and write them concurrently.                                  *)
(*                                                                         *)
(* A job is either an API request or script (one READ COMMITTED database   *)
(* transaction: it reads rows in separate statements, and all its writes   *)
(* become visible when it commits) or a Celery task (AUTOCOMMIT: each      *)
(* write is visible at once).  A repository write stores the whole row the *)
(* job has in memory, so a job that read a row before another one changed  *)
(* it overwrites that change.  The database refuses a second champion row. *)
(***************************************************************************)
EXTENDS Integers

CONSTANTS
    Model,      \* ids of the models the market may ever have
    Session,    \* jobs that may run at the same time
    NoModel,    \* stands for "no such row" (None in the code)
    MaxAge,     \* ModelRegistryService.max_comparison_age
    MaxClock    \* bound on the clock

ASSUME NoModelAssumption == NoModel \notin Model
ASSUME TimeAssumption == MaxAge \in Nat /\ MaxClock \in Nat

VARIABLES
    models,       \* the model rows
    comparison,   \* the comparison recorded for each challenger
    job,          \* what each session is doing
    clock         \* wall-clock time

vars == <<models, comparison, job, clock>>

-----------------------------------------------------------------------------

NoTime == -1
Time == 0..MaxClock

Row == [status      : {"none", "candidate", "challenger", "champion", "retired"},
        promoted_at : Time \cup {NoTime},
        retired_at  : Time \cup {NoTime},
        compromised : BOOLEAN]

Unregistered == [status |-> "none", promoted_at |-> NoTime,
                 retired_at |-> NoTime, compromised |-> FALSE]

Verdict == {"challenger_better", "champion_better", "inconclusive"}

Comparison == [verdict : Verdict, against : Model, at : Time]
NoComparison == [verdict |-> "none", against |-> NoModel, at |-> NoTime]

(* What a job holds in memory: the model it works on, the champion it read *)
(* when it began, the rows it will write and the time it began.            *)
PC == {"idle", "promote", "rollback", "commit", "mode", "train", "challenge", "compare",
       "retire_loser", "verify", "not_promoted", "retire_broken", "bootstrap"}

Job(held) == [pc : PC, repair : BOOLEAN, model : Model \cup {NoModel},
              rival : Model \cup {NoModel}, now : Time, rows : [held -> Row]]

NoRows == [m \in {} |-> Unregistered]
OneRow(m, row) == [x \in {m} |-> row]
TwoRows(m, row, n, other) == [x \in {m, n} |-> IF x = m THEN row ELSE other]

IdleJob == [pc |-> "idle", repair |-> FALSE, model |-> NoModel, rival |-> NoModel,
            now |-> 0, rows |-> NoRows]

Written(rows) == [m \in Model |-> IF m \in DOMAIN rows THEN rows[m] ELSE models[m]]

OneChampion(f) == \A m, n \in Model :
                    f[m].status = "champion" /\ f[n].status = "champion" => m = n

(* get_champion: the market's champion row, or None.                       *)
Champions == {m \in Model : models[m].status = "champion"}
GetChampion == IF Champions = {} THEN {NoModel} ELSE Champions

(* Mutant: a promotion that starts from a fresh integrity state.           *)
CrownedClean(row, now) == [row EXCEPT !.status = "champion", !.promoted_at = now,
                                      !.compromised = FALSE]
Crowned(row, now) == [row EXCEPT !.status = "champion", !.promoted_at = now]

Reinstated(row, now) == [Crowned(row, now) EXCEPT !.retired_at = NoTime]

Retired(row, now) == [row EXCEPT !.status = "retired", !.retired_at = now]

(* Mutant: the age of the comparison is not looked at.                     *)
FavorableWhateverAge(m, now) == comparison[m].verdict = "challenger_better"
(* _require_favorable_comparison                                           *)
Favorable(m, now) == /\ comparison[m].verdict = "challenger_better"
                     /\ now - comparison[m].at <= MaxAge

-----------------------------------------------------------------------------

Init == /\ models = [m \in Model |-> Unregistered]
        /\ comparison = [m \in Model |-> NoComparison]
        /\ job = [s \in Session |-> IdleJob]
        /\ clock = 0

Begin(s, record) == /\ job[s].pc = "idle"
                    /\ job' = [job EXCEPT ![s] = record]

(* A job that has just read row m and holds (its own version of) it.       *)
Holding(pc, m, row) == [pc |-> pc, repair |-> FALSE, model |-> m, rival |-> NoModel,
                        now |-> clock, rows |-> OneRow(m, row)]

(* A job that goes on to step pc holding the given rows.                   *)
GoOn(j, pc, rows) == [j EXCEPT !.pc = pc, !.rows = rows]

End(s) == job' = [job EXCEPT ![s] = IdleJob]

(*************************** promote_to_champion ***************************)

(* Mutant: any registered model may be promoted.                           *)
StartPromotionOfAny(s, m) ==
    /\ models[m].status # "none"
    /\ ~models[m].compromised
    /\ Begin(s, Holding("promote", m, models[m]))
    /\ UNCHANGED <<models, comparison, clock>>

(* The candidate is read and must be an uncompromised challenger.          *)
StartPromotion(s, m) ==
    /\ models[m].status = "challenger"
    /\ ~models[m].compromised
    /\ Begin(s, Holding("promote", m, models[m]))
    /\ UNCHANGED <<models, comparison, clock>>

(* The champion is read, and the comparison if there is one to replace.    *)
DecidePromotion(s) ==
    /\ job[s].pc = "promote"
    /\ LET m == job[s].model
           crowned == Crowned(job[s].rows[m], job[s].now)
       IN  \E rival \in GetChampion :
             \/ /\ rival \in {NoModel, m}
                /\ job' = [job EXCEPT ![s] = GoOn(@, "commit", OneRow(m, crowned))]
             \/ /\ rival \notin {NoModel, m}
                /\ Favorable(m, job[s].now)
                /\ LET retired == Retired(models[rival], job[s].now)
                   IN  job' = [job EXCEPT ![s] =
                                 GoOn(@, "commit", TwoRows(m, crowned, rival, retired))]
             \/ /\ rival \notin {NoModel, m}
                /\ ~Favorable(m, job[s].now)
                /\ End(s)
    /\ UNCHANGED <<models, comparison, clock>>

(* Mutant: without the partial unique index.                               *)
CommitUnchecked(s) ==
    /\ job[s].pc \in {"commit", "mode"}
    /\ models' = Written(job[s].rows)
    /\ End(s)
    /\ UNCHANGED <<comparison, clock>>

(* The job's rows are written and committed, unless the partial unique     *)
(* index finds a second champion, which aborts the transaction.            *)
Commit(s) ==
    /\ job[s].pc \in {"commit", "mode"}
    /\ models' = IF OneChampion(Written(job[s].rows))
                 THEN Written(job[s].rows) ELSE models
    /\ End(s)
    /\ UNCHANGED <<comparison, clock>>

(********************************* rollback ********************************)

(* Mutant: the champion's retirement is visible before its predecessor is  *)
(* looked up.                                                              *)
StartRollbackAtOnce(s) ==
    /\ \E m \in Champions :
         /\ Begin(s, Holding("rollback", m, Retired(models[m], clock)))
         /\ models' = [models EXCEPT ![m] = Retired(@, clock)]
    /\ UNCHANGED <<comparison, clock>>

StartRollback(s) ==
    /\ \E m \in Champions :
         Begin(s, Holding("rollback", m, Retired(models[m], clock)))
    /\ UNCHANGED <<models, comparison, clock>>

LatestRetired == {m \in Model : /\ models[m].status = "retired"
                                /\ \A n \in Model : models[n].status = "retired"
                                      => models[n].retired_at <= models[m].retired_at}

DecideRollback(s) ==
    /\ job[s].pc = "rollback"
    /\ LET m == job[s].model
       IN  \/ \E previous \in LatestRetired :
                LET reinstated == Reinstated(models[previous], job[s].now)
                IN  job' = [job EXCEPT ![s] =
                              GoOn(@, "commit", TwoRows(previous, reinstated, m, @.rows[m]))]
           \/ LatestRetired = {} /\ End(s)
    /\ UNCHANGED <<models, comparison, clock>>

(********************* retire, and the integrity script *********************)

(* The seed scripts retire the champion they have read.                    *)
StartRetire(s) ==
    /\ \E m \in Champions :
         Begin(s, Holding("commit", m, Retired(models[m], clock)))
    /\ UNCHANGED <<models, comparison, clock>>

(* assess_training_integrity marks the champion it read as compromised.    *)
StartAssessment(s) ==
    /\ \E m \in Champions :
         /\ ~models[m].compromised
         /\ Begin(s, Holding("commit", m, [models[m] EXCEPT !.compromised = TRUE]))
    /\ UNCHANGED <<models, comparison, clock>>

(* set_deployment_mode changes nothing that is kept here, and writes back   *)
(* the whole row it has read, of a model of any status.                     *)
StartSetMode(s, m) ==
    /\ models[m].status # "none"
    /\ Begin(s, Holding("mode", m, models[m]))
    /\ UNCHANGED <<models, comparison, clock>>

(***************** the retraining sweep and champion repair *****************)

(* Both read the champion first, then train for minutes.                   *)
StartTraining(s) ==
    /\ \E rival \in GetChampion, repair \in BOOLEAN :
         Begin(s, [pc |-> "train", repair |-> repair, model |-> NoModel, rival |-> rival,
                   now |-> clock, rows |-> NoRows])
    /\ UNCHANGED <<models, comparison, clock>>

Register(s, m) ==
    /\ job[s].pc = "train"
    /\ models[m] = Unregistered
    /\ models' = [models EXCEPT ![m].status = "candidate"]
    /\ job' = [job EXCEPT ![s].pc = "challenge", ![s].model = m]
    /\ UNCHANGED <<comparison, clock>>

(* What follows the registration of the new challenger.                    *)
AfterChallenge(j) == IF j.repair THEN "verify"
                     ELSE IF j.rival = NoModel THEN "bootstrap" ELSE "compare"

PromoteToChallenger(s) ==
    /\ job[s].pc = "challenge"
    /\ \/ /\ models[job[s].model].status = "candidate"
          /\ models' = [models EXCEPT ![job[s].model].status = "challenger"]
          /\ job' = [job EXCEPT ![s].pc = AfterChallenge(job[s])]
       \/ /\ models[job[s].model].status # "candidate"
          /\ End(s)
          /\ UNCHANGED models
    /\ UNCHANGED <<comparison, clock>>

(* _compare_against_champion: against the champion read when the job began. *)
Compare(s) ==
    /\ job[s].pc = "compare"
    /\ \E verdict \in Verdict :
         /\ comparison' = [comparison EXCEPT ![job[s].model] =
                             [verdict |-> verdict, against |-> job[s].rival, at |-> job[s].now]]
         /\ IF verdict = "champion_better"
            THEN job' = [job EXCEPT ![s].pc = "retire_loser"]
            ELSE End(s)
    /\ UNCHANGED <<models, clock>>

RetireLoser(s) ==
    /\ job[s].pc = "retire_loser"
    /\ LET m == job[s].model
       IN  models' = IF models[m].status = "retired" THEN models
                     ELSE [models EXCEPT ![m] = Retired(@, job[s].now)]
    /\ End(s)
    /\ UNCHANGED <<comparison, clock>>

(* The repair reloads the artifact it has just registered.                 *)
VerifyArtifact(s) ==
    /\ job[s].pc = "verify"
    /\ \E loads \in BOOLEAN :
         job' = [job EXCEPT ![s].pc = IF ~loads THEN "not_promoted"
                                      ELSE IF job[s].rival = NoModel THEN "bootstrap"
                                      ELSE "retire_broken"]
    /\ UNCHANGED <<models, comparison, clock>>

ReportNotPromoted(s) ==
    /\ job[s].pc = "not_promoted"
    /\ End(s)
    /\ UNCHANGED <<models, comparison, clock>>

RetireBroken(s) ==
    /\ job[s].pc = "retire_broken"
    /\ LET m == job[s].rival
       IN  \/ /\ models[m].status # "retired"
              /\ models' = [models EXCEPT ![m] = Retired(@, job[s].now)]
              /\ job' = [job EXCEPT ![s].pc = "bootstrap"]
           \/ /\ models[m].status = "retired"
              /\ End(s)
              /\ UNCHANGED models
    /\ UNCHANGED <<comparison, clock>>

(* promote_to_champion called by the task itself: the same first read.     *)
Bootstrap(s) ==
    /\ job[s].pc = "bootstrap"
    /\ LET m == job[s].model
       IN  IF models[m].status = "challenger" /\ ~models[m].compromised
           THEN job' = [job EXCEPT ![s] = GoOn(@, "promote", OneRow(m, models[m]))]
           ELSE End(s)
    /\ UNCHANGED <<models, comparison, clock>>

(***************************************************************************)

(* A request that fails rolls back; a killed or timed-out task keeps what  *)
(* it has written so far; training or comparing may fail.                  *)
Abort(s) == /\ job[s].pc # "idle"
            /\ End(s)
            /\ UNCHANGED <<models, comparison, clock>>

Tick == /\ clock < MaxClock
        /\ clock' = clock + 1
        /\ UNCHANGED <<models, comparison, job>>

Next == \/ \E s \in Session :
             \/ \E m \in Model : StartPromotion(s, m) \/ StartSetMode(s, m) \/ Register(s, m)
             \/ DecidePromotion(s) \/ Commit(s)
             \/ StartRollback(s) \/ DecideRollback(s)
             \/ StartRetire(s) \/ StartAssessment(s)
             \/ StartTraining(s) \/ PromoteToChallenger(s)
             \/ Compare(s) \/ RetireLoser(s)
             \/ VerifyArtifact(s) \/ ReportNotPromoted(s) \/ RetireBroken(s) \/ Bootstrap(s)
             \/ Abort(s)
        \/ Tick

Spec == Init /\ [][Next]_vars

-----------------------------------------------------------------------------

(* Type correctness of the rows, the comparisons and the jobs' memory.     *)
TypeOK == /\ models \in [Model -> Row]
          /\ comparison \in [Model -> Comparison \cup {NoComparison}]
          /\ job = [s \in Session |-> job[s]]
          /\ \A s \in Session : \E held \in SUBSET Model : job[s] \in Job(held)
          /\ clock \in Time

(* "Exactly one CHAMPION per market": whatever requests, sweeps and        *)
(* repairs overlap, get_champion (scalar_one_or_none) never finds two.     *)
AtMostOneChampion == OneChampion(models)

(* Every retired row carries the date rollback orders retirements by, and  *)
(* every champion the date it was promoted, although jobs overwrite each   *)
(* other's rows with what they read earlier.                               *)
StatusIsDated ==
    \A m \in Model : /\ models[m].status = "retired" => models[m].retired_at # NoTime
                     /\ models[m].status = "champion" => models[m].promoted_at # NoTime

(* Session s writes and ends.                                              *)
Writes(s) == job'[s] # job[s] /\ models' # models

(* promote_to_champion's gate: a serving champion is handed over to another *)
(* model, other than by a rollback, only on a favorable comparison that was *)
(* at most max_comparison_age old at the promotion, even when the champion  *)
(* changed or the challenger was written by others in the meantime.         *)
RollingBackTo(m, s) == job[s].pc = "commit" /\ job[s].model # m
HandoverOnEvidence ==
    [][\A old, new \in Model :
          (/\ old # new
           /\ models[old].status = "champion"
           /\ models'[new].status = "champion"
           /\ ~\E s \in Session : RollingBackTo(new, s) /\ Writes(s))
          => /\ comparison[new].verdict = "challenger_better"
             /\ models'[new].promoted_at - comparison[new].at <= MaxAge]_vars

(* No promotion, rollback or integrity assessment, however it interleaves   *)
(* with others and whichever rows others wrote in the meantime, leaves the  *)
(* market empty: a champion goes without another one coming only by a       *)
(* retire (the scripts', the repair's or the sweep's), or when a deployment *)
(* mode is written into a row that was read before its promotion.           *)
Retiring(s) == \/ job[s].pc \in {"retire_broken", "retire_loser"}
               \/ /\ job[s].pc = "commit"
                  /\ \A m \in DOMAIN job[s].rows : job[s].rows[m].status = "retired"
ReadBeforePromotion(s) == job[s].pc = "mode" /\ models[job[s].model].status = "champion"
                          /\ job[s].rows[job[s].model].status # "champion"
ChampionIsReplaced ==
    [][Champions # {} /\ Champions' = {} =>
          \E s \in Session : (Retiring(s) \/ ReadBeforePromotion(s)) /\ Writes(s)]_vars

(* set_deployment_mode is "independent of that lifecycle gate": it deposes  *)
(* no champion. False: the row it read before a promotion is written whole. *)
ModeDeposesNobody ==
    [][\A s \in Session, m \in Model :
          job[s].pc = "mode" /\ Writes(s) /\ models[m].status = "champion"
             => models'[m].status = "champion"]_vars

(* The lifecycle of ModelStatus: no step skips a stage, and a retired model *)
(* comes back only as the other row of a rollback's transaction.            *)
Successors(status) ==
    CASE status = "none"       -> {"candidate"}
      [] status = "candidate"  -> {"challenger", "retired"}
      [] status = "challenger" -> {"champion", "retired"}
      [] status = "champion"   -> {"retired"}
      [] status = "retired"    -> {"champion"}

InOrder == \A m \in Model : models'[m].status # models[m].status =>
              /\ models'[m].status \in Successors(models[m].status)
              /\ models[m].status = "retired" =>
                    \E s \in Session : job[s].pc = "commit" /\ job[s].model # m

-----------------------------------------------------------------------------

(* TrainingIntegrityError: "The only way past this is a genuine clean       *)
(* retrain that registers a new CANDIDATE/CHALLENGER".                      *)
CompromisedNeverPromoted ==
    [][\A m \in Model : models[m].compromised /\ models[m].status # "champion"
          => models'[m].status # "champion"]_vars
=============================================================================
