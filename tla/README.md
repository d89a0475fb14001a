# Titan Intelligence Lab: a TLA+ verification project

This directory models the parts of the TitanIQ backend (`src/backend`) in which
several actors meet over shared state: database transactions of API requests,
autocommitting Celery tasks, Redis locks, webhooks that come twice. Each module
is translated from the source. TLC checks it on a small instance and TLAPS
proves its safety properties for every value of the constants.

Paths below are relative to `src/backend`; `m/` stands for `modules/`.

1. [The system](#1-the-system)
2. [How the code runs, and how a module says so](#2-how-the-code-runs-and-how-a-module-says-so)
3. [The modules](#3-the-modules)
4. [Runs, bounds and fairness](#4-runs-bounds-and-fairness)
5. [Proofs](#5-proofs)
6. [Where the code departs from its own words](#6-where-the-code-departs-from-its-own-words)
7. [Not modelled, and the plan](#7-not-modelled-and-the-plan)

## 1. The system

TitanIQ collects sports data from providers, turns it into features, trains one
model per prediction market, serves and judges predictions, and sells access to
them. It is one FastAPI application (`apps/api`), one Celery worker application
with a beat schedule (`apps/worker`), PostgreSQL and Redis. Components talk by
direct calls inside a process; between processes they share only database rows,
Redis keys and the schedule. There are no message queues besides Celery's.

| Component | State | Operations | Talks to | Hard part |
|---|---|---|---|---|
| Model registry | `models` rows, comparisons | register, promote_to_challenger, promote_to_champion, rollback, retire, set_deployment_mode | retraining, cache of loaded models, engine | overlapping writers of whole rows |
| Retraining orchestrator | none of its own | sweep of markets, repair_broken_champion | registry, training, evaluation | minutes between reading and writing, autocommit |
| Prediction cache | `predictions`, audit rows | get_or_generate, regenerate, approve, reject, scheduled sweep | engine, credits, outcomes | one published version, stale clock, killed sweep |
| Prediction credits | `prediction_credits`, reward events | get_entitlement, consume, grant | prediction router, AdMob callback | last credit, duplicate callbacks, row locks |
| Checkout | pending checkouts, event ledger, subscriptions | initiate_checkout, handle_webhook | Flutterwave, billing | redelivery, event before commit, timeout after charge |
| Sync orchestrator | sync runs, checkpoints, Redis locks | `_run_sync` of each entity kind | providers, reconciliation | expiring locks, hangs, crashes, stale checkpoint |
| Fixture reconciliation | `fixtures` | reconcile_fixture | sync, outcome resolution | two syncs on one row, late records, corrections |
| Identity of teams and fixtures | `provider_ref_index`, rows | reconcile_team, reconcile_fixture, import_file, confirm_mappings, merge script | sync, admin, script | one row per club and match over several sources, merges, crashes between row and index |
| Feature store and calculators | `feature_values_offline` | write, get_as_of, backfills, anchor and refresh tasks | reconciliation, engine, datasets | no value from after the cutoff, tasks that die between batches |
| Datasets and training | datasets, splits | split, train | registry, retraining | chronology of data in database order, fold boundaries |
| Outcome resolution | `prediction_outcomes` | resolve_for_fixture | reconciliation, predictions | outcomes after a corrected score |
| Provider router, breaker, quota | Redis cache and locks, breaker in memory, usage rows | `_execute` with de-duplication and retry | every sync | waiters and expiring locks, half-open breaker, late answers |
| Tenancy, identity, billing plans | organizations, memberships, invitations, sessions, plans | invite, accept, change_member_role | API | invitations accepted twice, last owner |
| Knowledge graph, news intelligence, explanations, alerts, watchlist, webhooks, admin registry | rows | pipelines and CRUD | the above | mostly sequential |

What makes each of the modelled components correct, in the words of its code:

- *registry*: "exactly one CHAMPION per market"; no promotion over a serving
  champion without a recent favourable comparison; a compromised model never
  promoted; the lifecycle CANDIDATE, CHALLENGER, CHAMPION, RETIRED.
- *prediction cache*: at most one PUBLISHED prediction of a subject and market;
  no generated prediction without an audit row; old versions superseded, not
  deleted.
- *credits*: a generation costs one credit exactly if it is answered; an ad
  event is rewarded once; the balance is never negative.
- *checkout*: an event is never processed twice; a subscription for every paid
  charge and for no other; failures recorded.
- *sync*: no two workers sync the same scope at once; no scope stays locked; a
  scope is not fetched again within its interval.
- *provider gateway*: "only the lock holder calls `fetch`"; no request is blocked
  for ever on another; an open breaker lets no call through until it has rested.
- *fixtures and outcomes*: the status follows the lifecycle; an outcome is that
  of the final score, and follows its corrections.
- *identities*: a fixture another source has created "gets updated rather than
  duplicated"; nothing is ever taken for another club or match; no reference dangles.
- *features*: a prediction sees no value from after its cutoff, training no result
  from after the kick-off (`PRE_MATCH_SAFE`); one anchor per fixture.
- *datasets*: "max(train.reference_time) <= min(test.reference_time)"; a model is
  judged on the most recent samples, none of which it was fitted on.

`PROJECT.json` lists all 27 components and the hazards of this code at their lines.

## 2. How the code runs, and how a module says so

Three execution disciplines decide what interleavings exist. They are the same in
all modules.

- **An API request is one READ COMMITTED transaction** (`apps/api/composition.py`,
  `get_session`: commit when the handler returns, roll back when it raises). It
  reads committed rows in separate statements. Its writes are kept in the job
  record and become visible together in the action `Commit`; `Abort` drops them.
- **A Celery task works on an AUTOCOMMIT session** (`apps/worker/bootstrap.py`):
  each write is an action of its own and stays when the task is killed
  (`Abort`, `Crash`).
- **A repository upsert writes the whole entity** the caller has in memory, so a
  job that read a row earlier overwrites what others wrote since. A job's
  record therefore holds the row as read.

Where correctness rests on the database itself it is modelled explicitly: the partial
unique index of champions (`Commit` in ModelRegistry refuses the second), the
unique event ids (`Mark` in Checkout, `RecordReward` in PredictionCredits wait
for an uncommitted insert of the same key and then see it), row locks
(`RowLocked`) and savepoints (`InsertRow`). Where it rests on nothing, nothing
is added: two generations of a prediction simply interleave.

Data is abstracted to what the properties tell apart: a comparison is its
verdict, opponent and time; a score is one value; a market's metric, a
prediction's probabilities, prices and texts are left out.

## 3. The modules

### ModelRegistry (one market)

`m/predictions/application/model_registry_service.py`,
`scheduled_retraining_orchestrator.py`, the two scripts that write models, the
repository and its index. `models` are the rows, `comparison` the evaluation
recorded for each challenger, `job` what each session is doing. A session is a
request or script (`StartPromotion`, `DecidePromotion`, `StartRollback`,
`DecideRollback`, `StartRetire`, `StartAssessment`, `StartSetMode`, then `Commit`) or a task (the
retraining sweep or the repair: `StartTraining`, `Register`,
`PromoteToChallenger`, `Compare`, `RetireLoser`, `VerifyArtifact`,
`RetireBroken`, `Bootstrap`, the last going on like a promotion). A promotion by
a task writes one row only: it is of the model the task has just registered,
which has no comparison, so a champion that appeared meanwhile refuses it;
`Commit` as one action is therefore exact for tasks too. The change of a model's
deployment mode (`StartSetMode`) belongs here although the mode itself is left out:
it too writes the whole row it has read, status included. The repository's upsert
re-reads the row and writes the columns that differ, which is a write of the whole
row up to the moment between that read and the flush, which is left out. Other
writers of whole rows (calibration, `m/predictions/application/calibration_validation_service.py:353-367`,
the calibration task, `m/predictions/infrastructure/celery/tasks.py:861`, and the
seeding script) touch no status of their own and are not modelled; what a stale one does to a
promotion is what `StartSetMode` does.

Properties: `AtMostOneChampion`, `HandoverOnEvidence`,
`ChampionIsReplaced`, and, for jobs one after the other, `LifecycleOrder`
and `CompromiseIsPermanent`; proved only: `StatusIsDated`.

### Checkout and PaidSubscription

`m/billing/application/checkout_service.py`, the Flutterwave adapter and the
repositories. A charge has a record at the provider (`charge`), an HTTP request
(`request`), a committed row (`checkout`); `sent` are the events the provider
delivers, in any order, any number of times and to several handlers at once;
`processed` is the ledger; `handler` the deliveries in progress (`Receive`,
`Mark`, `Lookup`, `CommitDelivery`, `Crash`). `PaidSubscription` is the abstract
promise (a paid charge activates one subscription at most, nothing else does);
`PaidOnce` says Checkout implements it, with the paid charges as refinement
mapping.

Properties: `AtMostOneSubscription`, `SucceededIsSubscribed`, `PaidOnce`, and the
liveness property `PaymentIsHonoured`; proved only: `PaidBeforeSubscribed`.

### PredictionCredits (one user)

`m/predictions/application/prediction_credit_service.py`, its repositories and the
three endpoints that use it. `tx` holds each request's step, the event whose key
it has inserted and its uncommitted version of the account row; `RowLocked` and
`KeyLocked` are PostgreSQL's waiting. `answered` counts predictions returned.

Properties: `NeverOverspent`, `CreditsAddUp`, `RequestsEnd`.

### PredictionLifecycle (one subject and market)

`m/predictions/application/prediction_cache_service.py`,
`scheduled_prediction_generation_orchestrator.py` and the review endpoints. A
request generates (`StartGeneration`, `Generate`, `Commit`) or reviews
(`Review`, `CommitReview`); the sweep reads the clock once, reaches this subject
later (`StartSweep`, `ReachSubject`) and then writes step by step (`Supersede`,
`Record`, `Audit`).

Properties: `SupersededOnArrival` under any overlap;
`NewerSupersedes`, `VoidedIsFinal`, `OnePublishedAtATime` in the modes below.

### SyncRun (one scope)

`m/ingestion/application/sync_orchestrator.py` (`_run_sync`, `_fail`) and
`m/ingestion/infrastructure/cache/redis_lock.py`. A `Task` is a worker process,
the `Request`s share the API process and its one lock object: `tokens` is per
process. Time is kept as ages and remaining times, so that `Tick` needs no clock
bound. A release is two steps, GET and DEL, between which time may pass
(`ReleaseGet`, `ReleaseDel`). Four history variables: `rested` and `overlapped`, for
`RunsAreSpaced`, are the age of the last run that was closed and released, and
whether two runs of the scope were ever under way together; `strayed` and `robbed`,
for `ExclusiveWork`, are the releases that are about to delete a key which is not
their run's (it has expired since their GET, or they have popped the token of a later
run of their process), and the runs whose key such a release has deleted.

Properties: `ExclusiveWork`, `RunsAreSpaced`, and the liveness properties
`RunsEnd` and `LockIsFreed`.

### FixtureOutcomes (one fixture)

`m/ingestion/application/entity_reconciliation_service.py` (`reconcile_fixture`,
`_resolve_fixture_status`), the lifecycle of
`m/sports/domain/contracts/fixture.py`, and
`m/predictions/application/outcome_resolution_service.py`. `truth` is what the
provider reports (`Play`), `job` the syncs in progress (`Fetch`, `Read`,
`Write`, `ListPublished`, `ReadOutcome`, `RecordOrCorrect`). Of the syncs there are three kinds: `Fixtures`, `Completed`, which skips
LIVE, and `Supplementary`, which skips it and never replaces a score. The provider
may report a match live again after full time (`relived`), which `_resolve_fixture_status`
names. The history variables say what a property leaves open: `finals` are the scores
reported with a final whistle; `provisional` those reported live after one, and those a
supplementary source kept when it completed the fixture; `behind` the syncs during
which another one wrote the fixture; and `overtaken`, that such a sync went on to write.

Properties: `OutcomesAreFinal`, `OutcomesFollowScore`, `StatusMovesForward`, and
the liveness property `UndisturbedResultIsRecorded`.

### ProviderGateway (one provider)

`SportsProviderRouter` of `m/sports/infrastructure/providers/provider_router.py`,
`m/admin/application/circuit_breaker.py` and the Redis lock and cache. `req` is
where each caller of one process stands between two awaits: `_fetch_with_dedup`
(`Start`, `Acquire`, `Lose`, `Joined`, `Poll`, `Recheck`, `Store`, `Release`),
`_execute` (`UseMock`, `Refuse`, `Throttle`, `Admit`) and `_call_with_retry`
(`Unsupported`, `Succeed`, `Retry`, `Fail`, `Cancel`). `breaker` is the record of
`CircuitBreaker` for this provider; it and the lock object live in the process, and
`Crash` resets them while the locks in Redis stay until they expire. Other processes
act on the cache and the locks only (`Elsewhere*`). `provider` is what the
database says: not active, out of quota, or available.

Time is kept as ages: a request holds a `now` read on its arrival, and both
a failure and a trial are dated by it. Requests of the API read it so; a
Celery task passes the clock reading of its start, which may be older than the recovery
timeout of 60 s, and then `PauseLasts` promises nothing (its bound is vacuous once
`MaxAge >= Recovery`). `Cancel` is the `wait_for` of the sync orchestrator around a
fetch, or a failure of the bookkeeping that follows a result; a cancellation is not an `Exception`, so the breaker
never hears of it. A foreign fixture is one reconciled through another provider.
Two history variables: `disturbed` (for a resource, somebody has given up waiting,
a lock was outlived, or the cache was filled without the lock since the last time nobody
was asking) and `quiet` (the age of the last failure that opened the breaker).

Properties: `BreakerCoherent`, `SharedCall`, `PauseLasts`, and the liveness
properties `RequestsEnd` and `BreakerRecovers`; proved only: `OpenAdmitsNothing`.

### EntityReconciliation (teams and fixtures of several sources)

`m/ingestion/application/entity_reconciliation_service.py` (`reconcile_team`, the
matching of `reconcile_fixture`), `historical_import_service.py`,
`cross_provider_team_mapping_service.py`, the index `provider_ref_index` and
`scripts/merge_duplicate_football_teams.py`. A worker reads what the index and the
matching by teams and date give (`ReadTeam`, `ReadFixture`), saves the row
(`SaveTeam`, `SaveFixture`; `Refuse` when a foreign key fails) and then the index entry
(`WriteRef`), each a statement of its own. The `Desk` is the transaction of a file
import (`ReadCatalogue`, `ReadFile`, `CommitFile`, of one match) or of a confirmed
mapping (`ReadMapping`, `CommitMapping`). `Merge` is the script. Clubs and matches are
those of the real world, and a row carries, as history, the one it was made
for: this is what "the same" and "taken for another" are measured by. What the
data must satisfy for matching to work at all is an `ASSUME`: sources differ by a day at
most on a match, and never call two clubs by one name.

Properties: `NoMixUp` and `RefsAreLive` under any overlap and failure; `TidyIndex` and
`OneRowStaysOne` for jobs one after the other.

### FeatureTimeline (one pairing and league)

What the features of a fixture know, and when. The value of a feature is
abstracted to the set of matches it was averaged over. `strength` is written by
every sync (`StartSync`, `SaveFixture`, `ComputeStrength`, `WriteStrength`), by imports
(`Import`) and by a backfill; `goals` by a backfill only. The prediction sweep and
requests read both, one after the other, as of the time they began (`StartSweep`,
`StartRequest`, `ReadFeature`, `RecordPrediction`). The tasks started by hand
(`m/predictions/infrastructure/celery/tasks.py`) list their rows, work them off in any
order and commit now and then: the backfills (`StartBackfill`, `BackfillRow`), the
training anchors (`StartAnchors`, `AnchorRow`), the refresh of their snapshots
(`StartRefresh`, `RefreshRow`), `Commit`, `Abort`. Two values of one feature with the
same `as_of` may exist, and a read gets either of them. Nothing keeps two tasks started
by hand apart; `contested` is a history variable: the fixtures one task has listed while
another had them in hand.

Properties: `PredictionsSeeThePast`, `AnchorsArePreMatch`, `AnchoredOnce`.

### DatasetSplit (one training run)

`m/predictions/application/dataset_splitter.py` and what
`TrainingPipelineService.train` does with a split. A sample is its place in the
dataset and its `reference_time`, if it has one; the six strategies are operators
(`Chronological`, `Cut`, `RollingWindow`, `WalkForward`, `TimeSeriesSplit`; a loop
`while start + size <= n` makes one fold per number in `Fits`), and a run, `SplitSpec`,
is `RemoveOutliers`, then a split or `Refuse`, `Fit` and `Evaluate`. `FoldsTile` is the
reference definition the folds are compared with: it says by rank and counting, without
indices or loops, which samples each fold must train on and test, and how many of the
newest samples may be left untested: fewer than a fold for the two windows, for the
time-series split the remainder of the division that gave its fold size, which may be more
than a fold.

Properties: `EvaluatedOnTheFuture`, `FoldsTile`, `PartsPartition`.

## 4. Runs, bounds and fairness

The `TypeOK` of each component is proved (`TypeCorrect`) and checked by no run.
DatasetSplit states none: its variables are functions of the dataset, and the
properties pin them down.

| Run | Instance | What it shows |
|---|---|---|
| registry | 3 models, 2 sessions, age 1, clock to 2, symmetric | jobs that overlap in every way leave one champion, evidence behind each handover, and no market emptied but by a retire or by a change of mode that read the champion's row before its promotion; without overlap, the lifecycle and the permanence of a finding |
| checkout | 2 charges, 2 deliveries at a time, 1 failing delivery | no double subscription, PaidSubscription is implemented, a reported payment is honoured |
| credits | 3 sessions, 2 events, 2 free credits, 2 per reward | conservation and no overspending under all lock waits; every request ends |
| lifecycle | 4 predictions, 2 sessions, TTL 1, clock to 6 (4 when jobs overlap), symmetric | supersession under overlap; order, finality and uniqueness in its modes |
| sync_run | 1 task and 1 request, or 2 requests of one process; TTL 2, interval 3, forced runs (with the task), crashes | exclusion but for what a stray release robs, spacing, termination, a freed lock |
| fixture_outcomes | 2 scores, 1 crash; 2 workers, 2 kinds of sync, 1 prediction, a match live again; or 1 worker, 3 kinds, 2 predictions, all disturbances | outcomes are final, follow the score, the status moves forward, as long as no sync writes over another; an undisturbed result is recorded |
| provider_gateway | 2 callers, 2 resources (1 foreign), threshold 2, recovery 2, `now` aged 1 at most, lock TTL 1, 1 poll, 1 retry, crashes | shared calls, a breaker that rests and recovers, no endless request |
| identities | 2 clubs, one with two names, 2 matches of one pairing (one reported on two days), 2 workers, the desk, 3 team and 3 fixture rows, symmetric | no mix-up and no lost team under overlap, failures and merges; in order, a live index and one row per match |
| features | 2 workers, 1 maintainer and 2 matches with kick-offs 1 and 2, or 2 maintainers and 3 matches; clock to 3, 3 values, 1 prediction, 3 anchors, symmetric | no look-ahead in predictions and training, one anchor per fixture, or two tasks that had it in hand together |
| splits | datasets of 1 to 6 samples at 3 times in any order (some without a time, up to 3 samples), sizes 1 to 3, ratios 15, 20, 50, 1 outlier | chronology, tiling, partition |
| compromised_rollback, checkout_early_webhook | smallest instance that shows it | the findings of section 6 |

**Modes.** Some guarantees of the code hold only when jobs do not overlap, and
saying so is more useful than leaving them out. The MC modules of the registry
and of the lifecycle add a variable `mode` that is chosen at the start and never
changes, and prune the states the mode excludes: `overlapping` (everything, with
a tighter clock bound), `serial` (one busy session), `reviewed` (one busy session,
no sweep), `swept` (one busy session, no review). An MC-level property names its
mode. The modules themselves know nothing of modes. That of EntityReconciliation has
two: `tidy` (one job at a time, no failure, no merge while one is under way) and
`busy` (two jobs at a time, failures, merges at any time, one match and one merge);
properties of the tidy mode are those the code keeps only then. What a mode says of
jobs and merges is part of the MC module's next-state relation, so that the proofs can
use it; bounds of the state space are a CONSTRAINT, which no proof sees.

Three MC modules use the same device to keep the instance small, not to exclude an
overlap: SyncRun chooses who is triggered (`crew`: a task beside a request, or two requests,
which share a lock object), FixtureOutcomes whether two workers overlap on a plainly played
match or one meets everything else (`overlapping`, `alone`), FeatureTimeline who is busy on which
matches (`cast`). Their properties name no mode, and their theorems are of the plain `Spec`.

**Why the bounds are enough.** Two sessions are what every race found here needs:
a reader that is overtaken and a writer that overtakes it; the credits take three
because a waiter, a holder and a committer meet there. Three models are a former
champion, the champion and a challenger. Two charges show that one does not
disturb the other; two deliveries are a duplicate pair. Four predictions let
a version be superseded twice and a review bring one back. In SyncRun, TTL 2
lets a lock expire in the middle of a run and interval 3 exceeds it, so a run can
time out and the scope still not be due, and its key expire between the GET and the DEL of a release; two requests let a run that outlived its lock pop the token of the next; ages saturate at the interval, so the
state space is finite with no clock bound. In ProviderGateway a threshold of 2 has a
failure that does not open the breaker, recovery exceeds the age of a `now`, so that a
late failure can be dated before or after a pause, and a lock can be outlived; two
callers are a holder and a waiter, a late answer and a trial. Its MC module leaves out
the instances in which the first caller asks for the foreign fixture: callers are alike,
and two callers of a resource nobody can fetch show nothing. In EntityReconciliation three
team rows are the two clubs and a duplicate, to be merged and made again; days 1, 2 and 4
have a match reported within the window by two sources, and another of the same teams
outside it, two days off. In FixtureOutcomes two workers are a sync and one that overtakes it, once each kind; a match reported live again has a single final score there, so that the other one is its provisional score. In FeatureTimeline a clock of 3 has a time before,
between and after two kick-offs; with three matches two tasks can hold one in common and one each; `InPlay` keeps predictions and anchors apart, which
never read each other's rows, and bounds the values a prediction can meet, which are the
one before and the one after its cutoff. Six samples at three times have ties on both
sides of a cut, a rolling window that moves twice, a rest no fold takes, and parts of
every strategy; a shuffle does not look at times, so there they are left out. Two scores are a partial or wrong one
and a final one. The proofs lift all of this for the safety properties they cover.

**Deadlock.** `CHECK_DEADLOCK FALSE` stands where the bounded clock or the finite
supply of charges, models, predictions, team rows and values lets the model stop, and in
splits, where a training run ends; in credits, sync_run,
fixture_outcomes and provider_gateway the check is on.

**Fairness.**
Checkout: a handler that has an event goes on (weak), and an event that is not in the
ledger is delivered again (strong): Flutterwave redelivers until it is answered.
Credits: strong fairness of each session's steps, since a waiter's step is
enabled and disabled again as others take the row, and PostgreSQL queues waiters.
SyncRun: time passes; Redis and the database answer; the steps of the run itself
have no fairness, since a provider or a reconciliation may hang for ever: that is what
the time limit is for. A hang of Redis or of `_fail` is outside every limit of
the code. ProviderGateway: time passes and each request goes on (weak), since every await
of it has a limit (10 s per HTTP call, two retries, ten polls, the caller's `wait_for`).
`BreakerRecovers` assumes that the provider stays available, that calls
stop failing and being cancelled, and that somebody goes on asking for something it
can serve; the asking itself is not assumed fair. FixtureOutcomes: a started sync goes on (weak), and each kind of sync is
fetched again and again by some worker (strong), because beat fires it on a schedule and
leaves the worker to the queue. `UndisturbedResultIsRecorded` assumes, as its premise says, that syncs
do not go on overwriting each other for ever.

**Mutants.** Each property of each passing run has a mutant in `PROJECT.json`: a
definition of the module that changes one translated definition the way a bug
would (a guard dropped, a date forgotten, a write made early), under which TLC
finds that property violated.

## 5. Proofs

Eight proof modules, each extending the components it is about. None assumes
anything but the named `ASSUME`s of the component (types of the constants, null values
outside the sets) and, where stated below, conditions in the theorem itself. Every
safety property that a run checks is proved.

A theorem about a mode of section 4 is about the `MCSpec` of an MC module; that spec adds
the variable `mode` and what it excludes, and the theorem is for every number of
sessions, rows and clock values, not for the instance of the run.

| Module | Theorems | Argument |
|---|---|---|
| ModelRegistryProofs | `TypeCorrect`, `OneChampionPerMarket`, `DatesCorrect`, `HandoverNeedsEvidence`, `ChampionHasSuccessor` | `IInv`: rows dated; a job that is about to commit holds dated rows (`Shape`) and, for a handover, evidence that is still in the table (`Evidenced`). It is still there because a challenger is compared once, by the job that registered it (`ComparedOnce`). Uniqueness rests on the index in `Commit` and on no other action crowning anybody; `ChampionHasSuccessor` rests on `Shape`: what is committed is of champions and retired rows, so that a commit which leaves no champion retires all it writes, or it is the one row of a change of mode, as it was read. |
| | `LifecycleIsFollowed`, `CompromiseIsKept` | mode `serial`. `SerialInv`: each row a job is about to commit is one step of the lifecycle from the row in the table, and keeps a finding that the table has (`Faithful`), because no other job is under way. |
| BillingProofs, on Checkout | `TypeCorrect`, `OneSubscriptionPerCharge`, `OnlyPaidSubscribes`, `SucceededMeansSubscribed`, `ImplementsPromise` | a subscription has its success event in the ledger (`SubscribedOnce`), and a delivery holding an uncommitted entry holds it alone and it is not committed (`Exclusive`), so a second commit for the charge is impossible. Refinement: only a commit activates, every other step pays or stutters. |
| BillingProofs, on PredictionCredits | `CreditsTypeCorrect`, `CreditsAreConserved`, `OverspendingIsImpossible` | the sums hold of the committed row and, shifted by what the transaction has given or spent, of each uncommitted version (`TxInv`); there is one such version at most (`OneHolder`), and one holder of an event's key (`OneKeyHolder`). |
| PredictionLifecycleProofs | `TypeCorrect`, `SupersededIsReplaced` | what each job carries at each step (`JobInv`), and that the version a request is about to commit is its own and unrecorded (`OwnVersion`); only then does its commit record something. |
| | `NewerVersionsSupersede`, `OneVersionPublished`, `RejectionIsFinal` | modes `reviewed` and `swept`. `SerialInv`: what the one busy job has read is still so (`StillSo`); with reviews, whatever is superseded is so for a newer version; without them the published versions are among the latest, and what a sweep is to supersede is what is published (`Replaces`), which also holds after a sweep killed between its writes. |
| SyncRunProofs | `TypeCorrect`, `WorkIsExclusive` | a run at work that was not robbed holds the key, and the key lasts as long as the run may (`LockIsHeld`); a release that has passed its GET, and whose own key is not the one in Redis, is among the `strayed` (`DeletesOwn`), so that whoever loses the key to it is among the `robbed`. Of any number of processes, requests that share a lock object, and releases of any length. |
| | `RunsStayApart` | as long as no two runs overlapped the checkpoint is no older than the last closed run (`Spaced`); hence a run that found the scope due, and is not forced, is at least an interval later than that run (`InPlace`). The property excludes overlap itself. |
| FixtureOutcomesProofs | `TypeCorrect`, `OnlyFinalScoresJudge`, `LifecycleIsRespected` | a sync that is not behind has read the row as it still is, so the status it is about to write is a lawful successor of it (`Ahead`); and as long as none that was behind has written, the row is completed only with a score of an ended match, and such a score alone is on its way from record to entity to outcome (`Delivered`, `OnItsWay`). Any number of workers, kinds of sync and disturbances. |
| | `OutcomesKeepUp` | an invariant of its own, `FollowInv`: of the syncs that are not behind one at most resolves outcomes (`OneResolves`), and what it has yet to look at (`Pending`) is all that may be of an older score (`CaughtUp`). |
| ProviderGatewayProofs | `TypeCorrect`, `BreakerIsCoherent`, `PauseIsKept`, `OpenMeansClosedDoors`, `CallsAreShared` | `PauseIsKept` needs that `opened_at` of an open breaker is at most a request's clock age older than the failure itself; `CallsAreShared` that whoever has passed the lock of an undisturbed resource still holds it, and that after the re-check nothing but its own result enters the cache. |
| EntityReconciliationProofs | `TypeCorrect`, `NothingIsMixedUp`, `ReferencesAreLive` | there is an owner of each team id, decided when its row is first made and outliving the row, with which rows, index and the memory of jobs agree (`Owned`): a merged row that a late save brings back is the same club's again. A fixture found by teams and day is the match's own since its row is of the two clubs and on a day of its match (`PlayedOnItsDays`, `SameMatchIsTheMatch`). Any overlap, failure and merge. |
| | `IndexStaysTidy`, `OneRowIsKept` | mode `tidy`. No job holds the id of a deleted team (`LiveJob`), and what a job read would be read again when it writes (`UpToDate`): a row is new only if looking for it now finds none, which one row of the match between one row of each club excludes (`SingleIsFound`). `OneRowIsKept` is about a club that goes by one name in all sources, as its property is; a second name does make a second row. |
| TrainingDataProofs, on FeatureTimeline | `TypeCorrect`, `NoLookAhead`, `NoTrainingLeak` | every value, committed or in a job, saw only matches that kicked off before its `as_of` (`Values`); what a job has read (`GoodJob`) is of its fixture and as of its cutoff, what a task has read as of the kick-off, so strictness carries over to the snapshot. No assumption on how many tasks run. |
| | `OneAnchorPerFixture` | the anchors a task has made and not committed carry fresh ids and are of fixtures without one, or contested; a fixture in the hands of two tasks is contested since the later of them listed it; and a refresh rewrites anchors under their own ids (`OnceInv`). Any number of tasks. |
| TrainingDataProofs, on DatasetSplit | `PartsAreAPartition`, `NoLookAheadInEvaluation`, `FoldsTileTheEnd` | sorting gives each sample the number of samples before it, a different one each, so all numbers below the size of the dataset (a pigeonhole argument on `FS_Injection`); a slice is an interval of ranks, and a fold two adjacent ones, whose bounds are arithmetic. `SplitIInv`: the split kept is the one the request asks for. For datasets of every size, any tie, any request. |

The invariants had to be strengthened beyond the properties because each property
speaks of committed rows while the steps that endanger it act on what jobs carry in
memory: the `Shape`, `Exclusive`, `TxInv`, `OwnVersion`, `LockIsHeld`,
`OnItsWay`, `UpToDate`, `Sharing`, `Owned` and `Values` parts all say what a job's memory
may still rely on.

*Only model-checked*: the liveness properties, as TLAPS does not prove liveness under
fairness here: `PaymentIsHonoured`, `RequestsEnd` of the credits and of the gateway,
`RunsEnd`, `LockIsFreed`, `UndisturbedResultIsRecorded`, `BreakerRecovers`.

## 6. Where the code departs from its own words

Shown by a violation run, with the trace TLC prints:

- *compromised_rollback*: `rollback` reinstates the most recently retired model
  without looking at its provenance.
- *checkout_early_webhook*: an event handled before the checkout's own request has
  committed is marked processed and finds no row; its redelivery is skipped.

Seen while modelling; the models contain the behaviour, and the checked properties
are stated so as to leave it room. Where a name follows, it is a definition of the module
that takes the words of the code literally and is false: added to the configuration of the run, to be
violated within seconds, it makes TLC print the trace. To be added as INVARIANTS are
`AtMostOnePublished`, `EveryPredictionAudited` and `OnePublishedUnderReview`
(`PredictionLifecycle.cfg`), `OutcomesOfFinalScores` (`FixtureOutcomes.cfg`) and
`AnchoringIsIdempotent` (`FeatureTimeline.cfg`); as PROPERTIES `OwnershipChecked`
(`SyncRun.cfg`), `NeverBackward` (`FixtureOutcomes.cfg`), `ModeDeposesNobody`
(`ModelRegistry.cfg`) and `OneTrialAtATime` (`ProviderGateway.cfg`).

- `_persist_new_version` has no lock: two overlapping generations publish two
  versions (`prediction_cache_service.py:137`, against 11-13): `AtMostOnePublished`;
- requests of one API process share their lock tokens, so a run that outlived its lock
  deletes the next one's (`redis_lock.py:41`, against 8-11): `OwnershipChecked`. `ExclusiveWork`
  says how far the damage goes;
- a rejected transition keeps the status but not the score: a record that says live
  again after full time, or a late one of an overlapping sync, overwrites the final score, and
  outcomes follow (`entity_reconciliation_service.py:536`, against
  `outcome_resolution_service.py:515`; 463-464 knows such records): `OutcomesOfFinalScores`;
- a sync that read the fixture before another one wrote it writes its status back, also
  out of COMPLETED (`entity_reconciliation_service.py:541`, against
  `m/sports/domain/contracts/fixture.py:12-13`): `NeverBackward`;
- a change of a model's deployment mode, said to be independent of the lifecycle, that
  read the row before a promotion takes the promotion back and leaves the market without a
  champion (`model_registry_service.py:155`, against 150-151): `ModeDeposesNobody`;
- two anchor tasks started by hand list the same fixtures and anchor them twice
  (`tasks.py:883`, against 839-840): `AnchoringIsIdempotent`;
- the promotion gate looks the comparison up by challenger alone; it may have been
  made against a former champion (`model_registry_service.py:235`);
- a repair whose new artifact does not load returns before retiring the broken
  champion (`scheduled_retraining_orchestrator.py:436`, against 385-386);
- an inconclusive challenger is not retired (`:491`, against
  `model_comparison.py:33-37`); the sweep may retire a model that became champion
  during the comparison (`:492`);
- a charge that fails synchronously resolves the checkout
  (`checkout_service.py:89`, against `m/billing/domain/value_objects.py:47-48`);
  a checkout whose provider call times out is rolled back although the charge may
  still be paid;
- `approve` publishes beside a published version (`prediction_cache_service.py:109`):
  `OnePublishedUnderReview`; a killed sweep leaves an unaudited prediction (`:146-147`,
  against 3-6): `EveryPredictionAudited`; the sweep's early clock reading regenerates a version that is fresh (`:80`);
- the checkpoint is read before the lock (`sync_orchestrator.py:178`), so
  overlapping triggers run back to back, and a late `_fail` writes an older
  `last_synced_at` over a newer one (`:329`); an exception in a record that is not
  a timeout leaves the run RUNNING (`:234`);
- a half-open breaker is said to "allow exactly one trial request through"
  (`m/admin/application/circuit_breaker.py:57`) and lets every request through:
  `OneTrialAtATime`. The
  words taken literally would be worse: the mutant of `BreakerRecovers` admits
  the one trial, which may be throttled or cancelled unreported, and the breaker then
  stays half open for ever;
- a lock of 30 s (`provider_router.py:105`) can be outlived by three calls of 10 s and the
  backoff between them, and waiters give up after 2 s, so "only the lock holder calls `fetch`"
  (`:225`) holds of quick answers only; `SharedCall` says so;
- a supplementary source completes a
  fixture with the partial score it has (`:528`); an interrupted match is POSTPONED
  and can never complete (`m/sports/domain/contracts/fixture.py:17`);
- row and index entry are two autocommitted writes: a worker killed between them, or two
  syncs that both find nothing, leave a duplicate row (`entity_reconciliation_service.py:419`,
  `:541`); of two rows of one match the matching by teams and date then finds neither, so a
  third source makes a third (`:501`). The merge script unites teams, never their fixtures.
  A mapping confirmed for a team merged away before the commit dangles
  (`cross_provider_team_mapping_service.py:125`, against 120-123). Matches of one pairing
  on consecutive days cannot be told apart (`:497`), which concerns baseball;
- features of a live sync are as of now, on every reconciliation, also after the match: a
  prediction requested then may contain its own result, though each value is registered
  `PRE_MATCH_SAFE`; `PredictionsSeeThePast` promises more of the sweep only. A
  backfill skips fixtures whose only value is dated after their kick-off
  (`m/predictions/infrastructure/celery/tasks.py:574`); matches are compared by kick-off, so one that ended after this
  kick-off counts if it began before;
- an anchor's `evaluated_at` is its kick-off (`tasks.py:899`), though the reference time is to be
  "the real-world moment the sample's label became knowable" (`m/predictions/ports/ml_model.py:59`);
  a match's anchor and its served prediction may so lie on different sides of a cut;
- the time-series split leaves up to `n_splits` newest samples out of every fold
  (`dataset_splitter.py:153`); imputation and outliers are computed over all samples before
  the split (`training_pipeline_service.py:172-178`).

## 7. Not modelled, and the plan

Coarser than the code: a
sweep is modelled for one market, one subject or one scope; in FixtureOutcomes a fixture
exists from the start, in EntityReconciliation it has no status or score. Features are
the two of FeatureTimeline: form, transfers, line-ups and news follow the same store
and cutoffs. `cross_provider_ref` has no live caller. Alerts, quality reports and the event timeline are left out. Numerical work (training, calibration,
metrics), text pipelines, read-only views, the schema migrations and the frontends
have no protocol state and are not modelled.

Of the provider gateway: the usage rows behind the quota, read and written back whole by
every request, lose counts (`m/admin/application/quota_intelligence_engine.py:64-75`); mock
results share the cache keys of real ones and outlive an activation; the
fixture-schedule variant counts a missing capability as a failure of the breaker.

Order of the work, most important first; items 1 to 10 are done.

1. ModelRegistry: what is served.
2. Checkout with PaidSubscription: what is paid.
3. PredictionCredits: what is consumed.
4. PredictionLifecycle: what is shown.
5. SyncRun: the machinery of every ingestion task.
6. FixtureOutcomes: how predictions are judged.
7. ProviderGateway: de-duplicated requests, retry, circuit breaker and quota of
   `m/sports/infrastructure/providers/provider_router.py` and `m/admin/application`;
   what is asked of the providers. Left for later: quota counting and the fixture-schedule
   variant.
8. EntityReconciliation: which row a record is about.
9. FeatureTimeline: what predictions and training sets may know.
10. DatasetSplit: what a model is fitted and judged on.
11. Tenancy: an organization always has an owner; an invitation is accepted once.
12. Model cache of `m/predictions/infrastructure/ml/model_loader.py` with the
    registry: what is served after a promotion or a rollback (one path fills the
    process-wide cache without the checksum another path relies on, line 76).
13. Composition of PredictionCredits and PredictionLifecycle in one generate
    request; of SyncRun and FixtureOutcomes, whose different locks explain the stale
    score; the choice among a subject's subscriptions.
14. Proofs of what items 11 to 13 add. New questions replace or extend the runs of
    section 4, through modes, before new runs are added.
