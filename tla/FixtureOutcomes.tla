-------------------------- MODULE FixtureOutcomes --------------------------
(***************************************************************************)
(* One fixture from its first report to the outcomes of its predictions:   *)
(* the sync workers fetch the provider's record, merge it into the fixture *)
(* row (EntityReconciliationService.reconcile_fixture) and, once the row   *)
(* says COMPLETED with a score, record or correct the outcome of every     *)
(* published prediction (OutcomeResolutionService.resolve_for_fixture).    *)
(*                                                                         *)
(* The live, upcoming and completed syncs of one competition hold          *)
(* different locks, so several may work on the same fixture. A worker's    *)
(* session is AUTOCOMMIT: each of its writes is durable when it is made,   *)
(* and a crash keeps those made so far.                                    *)
(*                                                                         *)
(* The row exists from the start (the creation, its duplicates and the     *)
(* matching of teams are not modelled); a score is one value; every market *)
(* has a resolver, and the outcome is told apart by the score it is of.    *)
(***************************************************************************)
EXTENDS Integers

CONSTANTS Prediction, Worker, Score, NoScore, NoPrediction,
          Kinds,         \* the syncs in use, a subset of Sync
          Disturbances,  \* what may befall the match, besides being played
          MaxCrashes     \* bound on the workers' crashes

ASSUME ModelValues == NoScore \notin Score /\ NoPrediction \notin Prediction
ASSUME BoundAssumption == MaxCrashes \in Nat

(* sync_fixtures and sync_live_fixtures; sync_completed_fixtures from a    *)
(* provider that never reports a live match; the same from a supplementary *)
(* provider, whose score never replaces one.                               *)
Sync == [skipLive : BOOLEAN, preserve : BOOLEAN]
Fixtures == [skipLive |-> FALSE, preserve |-> FALSE]
Completed == [skipLive |-> TRUE, preserve |-> FALSE]
Supplementary == [skipLive |-> TRUE, preserve |-> TRUE]
ASSUME KindsAssumption == Kinds \subseteq Sync

VARIABLES
    truth,       \* what the provider reports at this moment
    fixture,     \* the fixtures row
    published,   \* predictions of this fixture that are PUBLISHED
    outcome,     \* prediction_outcomes: of which score each prediction's row is
    job,         \* what each worker is doing
    crashes,
    finals,      \* history: the scores the provider has reported as final
    provisional, \* history: the scores it reported live again after full time, and
                 \* those a supplementary source kept when it completed the fixture
    behind,      \* history: the syncs during which another one wrote the fixture
    overtaken    \* history: a sync that was behind went on to write
vars == <<truth, fixture, published, outcome, job, crashes,
          finals, provisional, behind, overtaken>>
tables == <<truth, fixture, published, outcome>>
reports == <<finals, provisional>>

FixtureStatus == {"scheduled", "live", "completed", "postponed", "cancelled"}
ScoreOrNone == Score \union {NoScore}
Row == [status : FixtureStatus, score : ScoreOrNone]
Unplayed == [status |-> "scheduled", score |-> NoScore]

PC == {"idle", "read", "write", "list", "resolve", "put"}
Job == [pc : PC,
        kind : Sync,
        record : Row,                  \* as fetched
        entity : Row,                  \* the Fixture to be written
        todo : SUBSET Prediction,      \* listed, not yet resolved
        at : Prediction \union {NoPrediction},
        seen : ScoreOrNone]            \* the outcome of `at`, as read
IdleJob == [pc |-> "idle", kind |-> Fixtures, record |-> Unplayed, entity |-> Unplayed,
            todo |-> {}, at |-> NoPrediction, seen |-> NoScore]

TypeOK ==
    /\ truth \in Row /\ fixture \in Row
    /\ published \in SUBSET Prediction
    /\ outcome \in [Prediction -> ScoreOrNone]
    /\ job \in [Worker -> Job]
    /\ \A w \in Worker : job[w].todo \subseteq published
    /\ crashes \in 0..MaxCrashes
    /\ finals \in SUBSET Score /\ provisional \in SUBSET Score
    /\ behind \in SUBSET Worker /\ overtaken \in BOOLEAN

Init ==
    /\ truth = Unplayed /\ fixture = Unplayed
    /\ published = {}
    /\ outcome = [p \in Prediction |-> NoScore]
    /\ job = [w \in Worker |-> IdleJob]
    /\ crashes = 0
    /\ finals = {} /\ provisional = {}
    /\ behind = {} /\ overtaken = FALSE

-----------------------------------------------------------------------------
(* The provider and the predictions. *)

(* What a report may be followed by: kick-off, goals, the final whistle and *)
(* its corrections; with disturbances, a postponement before the match, its *)
(* interruption and resumption or abandonment, its cancellation, and, once  *)
(* completed, a report that it is live again.                               *)
Follows(next) ==
    \/ /\ truth.status \in {"scheduled", "live"} /\ next.status = "live" /\ next.score \in Score
    \/ /\ truth.status \in {"live", "completed"} /\ next.status = "completed" /\ next.score \in Score
    \/ /\ "relived" \in Disturbances /\ truth.status = "completed"
       /\ next.status = "live" /\ next.score \in Score
    \/ /\ "postponed" \in Disturbances /\ truth.score = NoScore /\ next.score = NoScore
       /\ <<truth.status, next.status>> \in {<<"scheduled", "postponed">>, <<"postponed", "scheduled">>}
    \/ /\ "interrupted" \in Disturbances /\ truth.score \in Score /\ next.score = truth.score
       /\ finals = {}
       /\ <<truth.status, next.status>> \in {<<"live", "postponed">>, <<"postponed", "live">>}
    \/ /\ "cancelled" \in Disturbances /\ truth.status \in {"scheduled", "live", "postponed"}
       /\ finals = {}
       /\ next = [truth EXCEPT !.status = "cancelled"]

Play ==
    /\ \E next \in Row : Follows(next) /\ truth' = next
    /\ finals' = IF truth'.status = "completed" THEN finals \union {truth'.score} ELSE finals
    /\ provisional' = IF truth'.status = "live" /\ finals # {}
                      THEN provisional \union {truth'.score} ELSE provisional
    /\ UNCHANGED <<fixture, published, outcome, job, crashes, behind, overtaken>>

Publish(p) ==
    /\ p \notin published
    /\ published' = published \union {p}
    /\ UNCHANGED <<truth, fixture, outcome, job, crashes, reports, behind, overtaken>>

-----------------------------------------------------------------------------
(* The sync. *)

AllowedTransitions == [s \in FixtureStatus |->
    CASE s = "scheduled" -> {"live", "postponed", "cancelled"}
      [] s = "live" -> {"completed", "postponed"}
      [] s = "postponed" -> {"scheduled", "cancelled"}
      [] OTHER -> {}]

StatusAsReported(existing, target, kind) == target    \* mutant: no lifecycle

StatusByLifecycle(existing, target, kind) ==    \* mutant: no sync skips LIVE
    IF target \in AllowedTransitions[existing] THEN target ELSE existing

(* _resolve_fixture_status: the reported status if the lifecycle allows it, *)
(* and from SCHEDULED to COMPLETED only for the syncs that skip LIVE.       *)
ResolvedStatus(existing, target, kind) ==
    IF \/ target \in AllowedTransitions[existing]
       \/ kind.skipLive /\ existing = "scheduled" /\ target = "completed"
    THEN target ELSE existing

(* The score of the record wins unless it has none, or the source is       *)
(* supplementary and the fixture has one.                                  *)
ResolvedScore(existing, reported, kind) ==
    IF reported = NoScore \/ (kind.preserve /\ existing # NoScore) THEN existing ELSE reported

Merged(existing, record, kind) ==
    [status |-> ResolvedStatus(existing.status, record.status, kind),
     score |-> ResolvedScore(existing.score, record.score, kind)]

(* Worker w goes on as r; a job that ends is no longer behind.             *)
Proceed(w, r) == job' = [job EXCEPT ![w] = r]
End(w) == Proceed(w, IdleJob)
NoLonger(w) == behind' = IF job'[w].pc = "idle" THEN behind \ {w} ELSE behind

(* Worker w has written the fixture under all the others at work.          *)
Pass(w) == behind' = {v \in Worker \ {w} : job[v].pc # "idle"}

(* The fetch: the record is as old as the run from here on. The syncs of   *)
(* completed fixtures are given finished matches only.                     *)
Fetch(w, kind) ==
    /\ job[w].pc = "idle"
    /\ kind.skipLive => truth.status = "completed"
    /\ Proceed(w, [IdleJob EXCEPT !.pc = "read", !.kind = kind, !.record = truth])
    /\ UNCHANGED <<tables, crashes, reports, behind, overtaken>>

(* The fixture is read and the entity to be written built from it. *)
Read(w) ==
    LET entity == Merged(fixture, job[w].record, job[w].kind) IN
    /\ job[w].pc = "read"
    /\ Proceed(w, [job[w] EXCEPT !.pc = "write", !.entity = entity])
    /\ provisional' = IF /\ job[w].kind.preserve /\ fixture.score # NoScore
                         /\ fixture.status # "completed" /\ entity.status = "completed"
                      THEN provisional \union {fixture.score} ELSE provisional
    /\ UNCHANGED <<tables, crashes, finals, behind, overtaken>>

(* Mutant: outcomes are resolved as soon as there is a score.              *)
WriteAndResolve(w) ==
    /\ job[w].pc = "write"
    /\ fixture' = job[w].entity
    /\ IF job[w].entity.score # NoScore
       THEN Proceed(w, [job[w] EXCEPT !.pc = "list"]) ELSE End(w)
    /\ Pass(w) /\ overtaken' = (overtaken \/ w \in behind)
    /\ UNCHANGED <<truth, published, outcome, crashes, reports>>

(* The upsert writes the whole entity over whatever the row holds now; a   *)
(* completed fixture with a score has its outcomes resolved.               *)
Write(w) ==
    /\ job[w].pc = "write"
    /\ fixture' = job[w].entity
    /\ IF job[w].entity.status = "completed" /\ job[w].entity.score # NoScore
       THEN Proceed(w, [job[w] EXCEPT !.pc = "list"]) ELSE End(w)
    /\ Pass(w) /\ overtaken' = (overtaken \/ w \in behind)
    /\ UNCHANGED <<truth, published, outcome, crashes, reports>>

(* The fixture's predictions, of which the published are gone through. *)
ListPublished(w) ==
    /\ job[w].pc = "list"
    /\ Proceed(w, [job[w] EXCEPT !.pc = "resolve", !.todo = published])
    /\ UNCHANGED <<tables, crashes, reports, behind, overtaken>>

(* The next prediction's outcome is read; after the last, the job is done. *)
ReadOutcome(w) ==
    /\ job[w].pc = "resolve"
    /\ \/ \E p \in job[w].todo :
             Proceed(w, [job[w] EXCEPT !.pc = "put", !.at = p, !.seen = outcome[p],
                                       !.todo = @ \ {p}])
       \/ job[w].todo = {} /\ End(w)
    /\ NoLonger(w)
    /\ UNCHANGED <<tables, crashes, reports, overtaken>>

(* What follows an outcome that has been seen to.                          *)
NextOutcome(w) == Proceed(w, [job[w] EXCEPT !.pc = "resolve", !.at = NoPrediction,
                                            !.seen = NoScore])

(* Mutant: an outcome, once there, is never resolved again.                *)
RecordUncorrected(w) ==
    LET p == job[w].at  fresh == job[w].entity.score IN
    /\ job[w].pc = "put"
    /\ IF job[w].seen = NoScore /\ outcome[p] # NoScore
       THEN outcome' = outcome /\ End(w)
       ELSE /\ outcome' = [outcome EXCEPT ![p] = IF job[w].seen = NoScore THEN fresh ELSE @]
            /\ NextOutcome(w)
    /\ NoLonger(w) /\ overtaken' = (overtaken \/ (w \in behind /\ outcome' # outcome))
    /\ UNCHANGED <<truth, fixture, published, crashes, reports>>

(* _record_or_correct: insert (a row that appeared meanwhile violates the  *)
(* unique index and ends the run), skip what agrees, correct what differs. *)
RecordOrCorrect(w) ==
    LET p == job[w].at  fresh == job[w].entity.score IN
    /\ job[w].pc = "put"
    /\ IF job[w].seen = NoScore /\ outcome[p] # NoScore
       THEN outcome' = outcome /\ End(w)
       ELSE /\ outcome' = [outcome EXCEPT ![p] = IF job[w].seen = fresh THEN @ ELSE fresh]
            /\ NextOutcome(w)
    /\ NoLonger(w) /\ overtaken' = (overtaken \/ (w \in behind /\ outcome' # outcome))
    /\ UNCHANGED <<truth, fixture, published, crashes, reports>>

(* The worker is killed, or a record times out, at any point of the sync. *)
Crash(w) ==
    /\ job[w].pc # "idle" /\ crashes < MaxCrashes
    /\ End(w) /\ NoLonger(w)
    /\ crashes' = crashes + 1
    /\ UNCHANGED <<tables, reports, overtaken>>

Step(w) == Read(w) \/ Write(w) \/ ListPublished(w) \/ ReadOutcome(w) \/ RecordOrCorrect(w)

Next ==
    \/ Play
    \/ \E p \in Prediction : Publish(p)
    \/ \E w \in Worker : (\E kind \in Kinds : Fetch(w, kind)) \/ Step(w) \/ Crash(w)

Spec == Init /\ [][Next]_vars

(* Beat fires every sync again and again whatever ran in between, for some *)
(* worker to take it, and a sync that started goes on to its end.          *)
Fairness ==
    /\ \A w \in Worker : WF_vars(Step(w))
    /\ \A kind \in Kinds : SF_vars(\E w \in Worker : Fetch(w, kind))
FairSpec == Spec /\ Fairness

-----------------------------------------------------------------------------
(* The lifecycle of fixture.py, over the row as others see it: whatever the *)
(* provider reports, a fixture never goes back out of COMPLETED or          *)
(* CANCELLED, and takes no step the lifecycle forbids but the one granted   *)
(* to the syncs that skip LIVE; a sync that is behind, because another one  *)
(* wrote the row since it began, may undo what the other one wrote.         *)
Lawful(from, to) ==
    \/ to = from
    \/ to \in AllowedTransitions[from]
    \/ from = "scheduled" /\ to = "completed" /\ \E kind \in Kinds : kind.skipLive
Stale(w) == w \in behind /\ job[w].pc = "write" /\ job'[w] # job[w]
StatusMovesForward ==
    [][Lawful(fixture.status, fixture'.status) \/ \E w \in Worker : Stale(w)]_vars

(* "Never backward out of COMPLETED/CANCELLED", with no exception. False of *)
(* a sync that is behind: it writes the status it once read.                *)
NeverBackward ==
    [][fixture.status \in {"completed", "cancelled"} => fixture'.status = fixture.status]_vars

(* No prediction is judged by a score of a match still being played: as     *)
(* long as no sync that is behind goes on to write, however syncs overlap,  *)
(* an outcome is of a score the provider has reported as final, of one it   *)
(* reported live again after full time, or of one a supplementary source    *)
(* found and kept when it completed the fixture.                            *)
OutcomesAreFinal ==
    ~overtaken => \A p \in Prediction :
                     outcome[p] # NoScore => outcome[p] \in finals \union provisional

(* Outcomes are resolved "once a fixture is known COMPLETED with a final    *)
(* score", with no exception. False: only the status of a late record is    *)
(* rejected, never its score.                                               *)
OutcomesOfFinalScores == \A p \in Prediction : outcome[p] # NoScore => outcome[p] \in finals

(* When no sync is under way, none was killed and none that was behind went *)
(* on to write, an outcome is of the score its fixture has: a corrected     *)
(* score corrects the outcomes with it, prediction by prediction.           *)
OutcomesFollowScore ==
    ~overtaken /\ crashes = 0 /\ (\A w \in Worker : job[w].pc = "idle") =>
        \A p \in Prediction : outcome[p] # NoScore => outcome[p] = fixture.score

(* Once the provider sticks to a final score, the fixture ends up completed *)
(* with it and every published prediction judged by it, whatever syncs and  *)
(* crashes came in between.                                                 *)
Final(s) == [status |-> "completed", score |-> s]
Settled(s) == fixture = Final(s) /\ \A p \in published : outcome[p] = s
ResultIsRecorded == \A s \in Score : <>[](truth = Final(s)) => <>[]Settled(s)

(* The same of a match that is neither postponed nor interrupted, whatever  *)
(* syncs that were behind have overwritten, unless they do so for ever.     *)
UndisturbedResultIsRecorded ==
    [](truth.status # "postponed") /\ <>[](behind = {}) => ResultIsRecorded
=============================================================================
