-------------------------- MODULE ProviderGateway --------------------------
(***************************************************************************)
(* Requests to a sports data provider through SportsProviderRouter: the    *)
(* shared response cache, the lock that joins identical requests, the      *)
(* choice between the provider and its mock, the circuit breaker and the   *)
(* bounded retry.                                                          *)
(*                                                                         *)
(* One process is modelled in full: its requests interleave at every await *)
(* and share the breaker and the lock object, both in memory.  Other       *)
(* processes (the Celery workers) share the Redis cache and lock only.     *)
(* A Request is a caller that asks for its resource again and again.       *)
(*                                                                         *)
(* Time is kept as ages: of the `now` a caller passed, and of opened_at.   *)
(* The quota is kept as its verdict: rows of usage, counted by all         *)
(* processes and replaced at midnight, may turn it at any moment.  Values, *)
(* delays and the length of the cache's TTL are left out.                  *)
(***************************************************************************)
EXTENDS Integers

CONSTANTS Request, Resource,
          Foreign,       \* fixtures reconciled through some other provider
          Nobody, Elsewhere,
          Threshold,     \* failure_threshold
          Recovery,      \* recovery_timeout
          MaxAge,        \* bound: how old the `now` of a request may become
          LockTtl,       \* _LOCK_TTL_SECONDS
          Waits,         \* _LOCK_WAIT_ATTEMPTS
          Retries        \* _MAX_RETRY_ATTEMPTS

ASSUME ForeignAssumption == Foreign \subseteq Resource
ASSUME HolderAssumption == Nobody # Elsewhere /\ {Nobody, Elsewhere} \intersect Request = {}
ASSUME NumberAssumption ==
    {Threshold, Recovery, Waits} \subseteq Nat \ {0} /\ {MaxAge, LockTtl, Retries} \subseteq Nat

VARIABLES
    asks,        \* the resource each request asks for: its cache key
    cached,      \* resources with an entry in the response cache
    lock,        \* holder of each resource's Redis lock
    breaker,     \* CircuitBreaker._states[provider]
    req,         \* what each request is doing
    provider,    \* "inactive" (or without a credential), "exhausted" or "available"
    disturbed,   \* history: the joining of requests was given up or outlived
    quiet        \* history: age of the last failure that opened the breaker
vars == <<asks, cached, lock, breaker, req, provider, disturbed, quiet>>
shared == <<cached, lock, disturbed>>
world == <<asks, provider>>

Never == -1    \* opened_at is None
Longest == Recovery + MaxAge    \* ages of opened_at above this are not told apart

PC == {"idle", "lock", "wait", "recheck", "fetch", "call", "store", "release"}
ProviderState == {"inactive", "exhausted", "available"}
Idle == [pc |-> "idle", holds |-> FALSE, count |-> 0, age |-> 0]
Closed == [state |-> "CLOSED", failures |-> 0, opened |-> Never]

Breaker == [state : {"CLOSED", "OPEN", "HALF_OPEN"},
            failures : 0..Threshold,    \* saturated: only >= is asked of it
            opened : {Never} \union 0..Longest]
Doing == [pc : PC,
          holds : BOOLEAN,    \* `acquired`
          count : 0..Waits - 1 \union 0..Retries,    \* polls of the cache, or retries
          age : 0..MaxAge]    \* of `now`

TypeOK ==
    /\ asks \in [Request -> Resource]
    /\ cached \in [Resource -> BOOLEAN]
    /\ lock \in [Resource -> Request \union {Nobody, Elsewhere}]
    /\ breaker \in Breaker
    /\ req \in [Request -> Doing]
    /\ provider \in ProviderState
    /\ disturbed \in [Resource -> BOOLEAN]
    /\ quiet \in 0..Recovery

Init ==
    /\ asks \in [Request -> Resource]
    /\ cached = [k \in Resource |-> FALSE]
    /\ lock = [k \in Resource |-> Nobody]
    /\ breaker = Closed
    /\ req = [r \in Request |-> Idle]
    /\ provider \in ProviderState
    /\ disturbed = [k \in Resource |-> FALSE]
    /\ quiet = Recovery

Active(k) == {r \in Request : asks[r] = k /\ req[r].pc # "idle"}
GoTo(r, pc) == req' = [req EXCEPT ![r].pc = pc, ![r].count = 0]
(* The end of `_fetch`, normal or not: a holder still runs its `finally`.  *)
Leave(r) == IF req[r].holds THEN GoTo(r, "release") ELSE req' = [req EXCEPT ![r] = Idle]

-----------------------------------------------------------------------------
(* _fetch_with_dedup.  `now` is read as the request arrives.  A hit in the *)
(* first look at the cache is no step.                                     *)
Start(r) ==
    LET k == asks[r] IN
    /\ req[r].pc = "idle" /\ ~cached[k]
    /\ req' = [req EXCEPT ![r] = [Idle EXCEPT !.pc = "lock"]]
    /\ disturbed' = [disturbed EXCEPT ![k] = disturbed[k] /\ Active(k) # {}]
    /\ UNCHANGED <<cached, lock, breaker, world, quiet>>

Acquire(r) ==
    /\ req[r].pc = "lock" /\ lock[asks[r]] = Nobody
    /\ lock' = [lock EXCEPT ![asks[r]] = r]
    /\ req' = [req EXCEPT ![r].pc = "recheck", ![r].holds = TRUE]
    /\ UNCHANGED <<cached, breaker, world, disturbed, quiet>>

Lose(r) ==
    /\ req[r].pc = "lock" /\ lock[asks[r]] # Nobody
    /\ GoTo(r, "wait")
    /\ UNCHANGED <<shared, breaker, world, quiet>>

Joined(r) ==
    /\ req[r].pc = "wait" /\ cached[asks[r]]
    /\ Leave(r)
    /\ UNCHANGED <<shared, breaker, world, quiet>>

PollForEver(r) ==    \* mutant: wait as long as the lock is held
    /\ req[r].pc = "wait" /\ ~cached[asks[r]]
    /\ req' = req
    /\ UNCHANGED <<shared, breaker, world, quiet>>

(* After the last poll the request calls the provider itself.              *)
Poll(r) ==
    LET k == asks[r] IN
    /\ req[r].pc = "wait" /\ ~cached[k]
    /\ IF req[r].count + 1 < Waits
       THEN req' = [req EXCEPT ![r].count = @ + 1] /\ UNCHANGED disturbed
       ELSE GoTo(r, "fetch") /\ disturbed' = [disturbed EXCEPT ![k] = TRUE]
    /\ UNCHANGED <<cached, lock, breaker, world, quiet>>

RecheckNothing(r) ==    \* mutant: the cache is not looked at again
    /\ req[r].pc = "recheck" /\ GoTo(r, "fetch")
    /\ UNCHANGED <<shared, breaker, world, quiet>>

Recheck(r) ==
    /\ req[r].pc = "recheck"
    /\ IF cached[asks[r]] THEN Leave(r) ELSE GoTo(r, "fetch")
    /\ UNCHANGED <<shared, breaker, world, quiet>>

Store(r) ==
    /\ req[r].pc = "store"
    /\ cached' = [cached EXCEPT ![asks[r]] = TRUE]
    /\ Leave(r)
    /\ UNCHANGED <<lock, breaker, world, disturbed, quiet>>

(* The tokens are kept per key, so a release deletes whatever lock this    *)
(* process set last, and none that another process set.                    *)
Release(r) ==
    LET k == asks[r] IN
    /\ req[r].pc = "release"
    /\ lock' = [lock EXCEPT ![k] = IF @ = Elsewhere THEN @ ELSE Nobody]
    /\ req' = [req EXCEPT ![r] = Idle]
    /\ UNCHANGED <<cached, breaker, world, disturbed, quiet>>

-----------------------------------------------------------------------------
(* CircuitBreaker: allow_request, record_success and record_failure.  They *)
(* run without an await.                                                   *)
Recovered(r) == breaker.opened # Never /\ breaker.opened - req[r].age >= Recovery
AllowedOnce(r) ==    \* mutant: half open, only the request that found it so is tried
    breaker.state = "CLOSED" \/ (breaker.state = "OPEN" /\ Recovered(r))
Allowed(r) == breaker.state = "OPEN" => Recovered(r)
AllowRequest(r) ==
    /\ Allowed(r)
    /\ breaker' = IF breaker.state = "OPEN" THEN [breaker EXCEPT !.state = "HALF_OPEN"] ELSE breaker

RecordSuccessKeepingCount ==    \* mutant: consecutive_failures is not reset
    breaker' = [Closed EXCEPT !.failures = breaker.failures]
RecordSuccess == breaker' = Closed

RecordFailureUndated(r) ==    \* mutant: a failed trial keeps the old opened_at
    LET failures == IF breaker.failures < Threshold THEN breaker.failures + 1 ELSE Threshold
        trial == breaker.state = "HALF_OPEN"
        opens == trial \/ failures >= Threshold
    IN /\ breaker' = IF opens THEN [state |-> "OPEN", failures |-> failures,
                                    opened |-> IF trial THEN breaker.opened ELSE req[r].age]
                     ELSE [breaker EXCEPT !.failures = failures]
       /\ quiet' = IF opens THEN 0 ELSE quiet
RecordFailure(r) ==
    LET failures == IF breaker.failures < Threshold /\ breaker.state # "HALF_OPEN"
                    THEN breaker.failures + 1 ELSE breaker.failures
        opens == breaker.state = "HALF_OPEN" \/ failures >= Threshold
    IN /\ breaker' = IF opens THEN [state |-> "OPEN", failures |-> failures, opened |-> req[r].age]
                     ELSE [breaker EXCEPT !.failures = failures]
       /\ quiet' = IF opens THEN 0 ELSE quiet

(* _execute, up to the call.  Reading the provider, asking the breaker and *)
(* asking the quota are one step: the awaits between them change nothing   *)
(* that a later moment of the asking would not show.                       *)
UseMock(r) ==
    /\ req[r].pc = "fetch" /\ provider = "inactive" /\ asks[r] \notin Foreign
    /\ GoTo(r, "store")
    /\ UNCHANGED <<shared, breaker, world, quiet>>

Refuse(r) ==
    /\ req[r].pc = "fetch" /\ provider # "inactive" /\ ~Allowed(r)
    /\ Leave(r)
    /\ UNCHANGED <<shared, breaker, world, quiet>>

(* The breaker has been told of a trial that is not made.                  *)
Throttle(r) ==
    /\ req[r].pc = "fetch" /\ provider = "exhausted"
    /\ AllowRequest(r) /\ Leave(r)
    /\ UNCHANGED <<shared, world, quiet>>

Admit(r) ==
    /\ req[r].pc = "fetch" /\ provider = "available"
    /\ AllowRequest(r) /\ GoTo(r, "call")
    /\ UNCHANGED <<shared, world, quiet>>

-----------------------------------------------------------------------------
(* _call_with_retry and what _execute does with its outcome.               *)
(* _guard_same_provider refuses a foreign fixture before any call is made, *)
(* to the provider or to its mock; the breaker does not hear of it.        *)
Unsupported(r) ==
    /\ asks[r] \in Foreign
    /\ req[r].pc = "call" \/ (req[r].pc = "fetch" /\ provider = "inactive")
    /\ Leave(r)
    /\ UNCHANGED <<shared, breaker, world, quiet>>

Calling(r) == req[r].pc = "call" /\ asks[r] \notin Foreign

Succeed(r) ==
    /\ Calling(r)
    /\ RecordSuccess /\ GoTo(r, "store")
    /\ UNCHANGED <<shared, world, quiet>>

Retry(r) ==
    /\ Calling(r) /\ req[r].count < Retries
    /\ req' = [req EXCEPT ![r].count = @ + 1]
    /\ UNCHANGED <<shared, breaker, world, quiet>>

(* A permanent error, or one more retryable error than is tolerated.       *)
Fail(r) ==
    /\ Calling(r)
    /\ RecordFailure(r) /\ Leave(r)
    /\ UNCHANGED <<shared, world>>

(* The caller's own time limit cancels the request, or the bookkeeping of  *)
(* a result fails; the breaker does not hear of it.                        *)
Cancel(r) ==
    /\ Calling(r) \/ req[r].pc = "store"
    /\ Leave(r)
    /\ UNCHANGED <<shared, breaker, world, quiet>>

-----------------------------------------------------------------------------
Forget(k) ==
    /\ cached[k] /\ cached' = [cached EXCEPT ![k] = FALSE]
    /\ UNCHANGED <<lock, breaker, req, world, disturbed, quiet>>

(* A holder lasts longer than its lock.                                    *)
LockExpires(k) ==
    /\ lock[k] \in Request /\ req[lock[k]].age >= LockTtl
    /\ lock' = [lock EXCEPT ![k] = Nobody]
    /\ disturbed' = [disturbed EXCEPT ![k] = TRUE]
    /\ UNCHANGED <<cached, breaker, req, world, quiet>>

(* Another process takes the lock, fills the cache (as the holder of the   *)
(* lock, or having given up waiting for it), leaves or loses the lock.     *)
ElsewhereLocks(k) ==
    /\ lock[k] = Nobody /\ lock' = [lock EXCEPT ![k] = Elsewhere]
    /\ UNCHANGED <<cached, breaker, req, world, disturbed, quiet>>

ElsewhereStores(k) ==
    /\ k \notin Foreign /\ ~cached[k]
    /\ cached' = [cached EXCEPT ![k] = TRUE]
    /\ disturbed' = [disturbed EXCEPT ![k] = @ \/ lock[k] # Elsewhere]
    /\ UNCHANGED <<lock, breaker, req, world, quiet>>

ElsewhereUnlocks(k) ==
    /\ lock[k] = Elsewhere /\ lock' = [lock EXCEPT ![k] = Nobody]
    /\ UNCHANGED <<cached, breaker, req, world, disturbed, quiet>>

(* The provider is (de)activated; its quota runs out or is renewed.        *)
ProviderMoves ==
    /\ provider' \in ProviderState \ {provider}
    /\ UNCHANGED <<asks, shared, breaker, req, quiet>>

(* The process dies: its breaker and requests with it, its locks remain.   *)
Crash ==
    /\ breaker' = Closed
    /\ req' = [r \in Request |-> Idle]
    /\ lock' = [k \in Resource |-> IF lock[k] \in Request THEN Elsewhere ELSE lock[k]]
    /\ UNCHANGED <<cached, world, disturbed, quiet>>

Older(age, limit) == IF age < limit THEN age + 1 ELSE limit
Tick ==
    /\ \A r \in Request : req[r].pc # "idle" => req[r].age < MaxAge
    /\ req' = [r \in Request |-> IF req[r].pc = "idle" THEN req[r]
                                 ELSE [req[r] EXCEPT !.age = @ + 1]]
    /\ breaker' = IF breaker.opened = Never THEN breaker
                  ELSE [breaker EXCEPT !.opened = Older(@, Longest)]
    /\ quiet' = Older(quiet, Recovery)
    /\ UNCHANGED <<shared, world>>

Dedup(r) == Acquire(r) \/ Lose(r) \/ Joined(r) \/ Poll(r) \/ Recheck(r) \/ Store(r) \/ Release(r)
Execute(r) == UseMock(r) \/ Refuse(r) \/ Throttle(r) \/ Admit(r)
Call(r) == Unsupported(r) \/ Succeed(r) \/ Retry(r) \/ Fail(r) \/ Cancel(r)
Step(r) == Dedup(r) \/ Execute(r) \/ Call(r)
Others(k) == Forget(k) \/ LockExpires(k) \/ ElsewhereLocks(k) \/ ElsewhereStores(k) \/ ElsewhereUnlocks(k)

Next ==
    \/ \E r \in Request : Start(r) \/ Step(r)
    \/ \E k \in {asks[r] : r \in Request} : Others(k)
    \/ ProviderMoves \/ Crash \/ Tick

Spec == Init /\ [][Next]_vars

(* Every await of a request has a time limit, and time passes.             *)
Fairness == WF_vars(Tick) /\ \A r \in Request : WF_vars(Step(r))
FairSpec == Spec /\ Fairness

-----------------------------------------------------------------------------
(* The breaker lets every request through exactly while fewer failures     *)
(* than the threshold have followed the last success, and one that does    *)
(* not always knows since when: otherwise it could never try again.        *)
BreakerCoherent ==
    /\ breaker.state = "CLOSED" <=> breaker.failures < Threshold
    /\ breaker.state = "CLOSED" <=> breaker.opened = Never

(* As long as nobody gave up waiting and no lock was outlived, one request *)
(* of all processes asks for a resource at a time, and only while there is *)
(* no result of another in the cache: identical requests share one call.   *)
Fetching(r) == req[r].pc \in {"fetch", "call", "store"}
SharedCall ==
    \A r \in Request : Fetching(r) /\ ~disturbed[asks[r]] =>
        /\ lock[asks[r]] = r
        /\ ~cached[asks[r]]
        /\ \A s \in Request : asks[s] = asks[r] /\ Fetching(s) => s = r

(* While the breaker stays open no request begins to call the provider,    *)
(* whatever late answers arrive.                                           *)
OpenAdmitsNothing ==
    [][breaker.state = "OPEN" /\ breaker'.state = "OPEN" =>
          \A r \in Request : req'[r].pc = "call" => req[r].pc = "call"]_vars

(* The breaker is tried again no sooner after a failure that opened it     *)
(* than recovery_timeout less the age a request's `now` may have: both the *)
(* failure and the trial are dated by clocks read before their calls.      *)
PauseLasts ==
    [][breaker.state = "OPEN" /\ breaker'.state = "HALF_OPEN" => quiet + MaxAge >= Recovery]_vars

(* "HALF_OPEN: allow exactly one trial request through": none is let        *)
(* through while the trial of another is under way. False: every request    *)
(* that finds the breaker half open is let through.                         *)
OneTrialAtATime ==
    [][breaker.state = "HALF_OPEN" =>
          \A r, s \in Request : r # s /\ Calling(s) /\ Calling(s)' /\ Calling(r)' => Calling(r)]_vars

(* No request waits for ever, on the lock of another or on the provider.   *)
RequestsEnd == \A r \in Request : req[r].pc # "idle" ~> req[r].pc = "idle"

(* Once the provider answers and quota is left, a breaker that is asked    *)
(* again and again does not keep the provider shut out: no half-made trial *)
(* and no late answer leaves it stuck.                                     *)
BreakerRecovers ==
    /\ <>[](provider = "available") /\ <>[][\A r \in Request : ~Fail(r) /\ ~Cancel(r)]_vars
    /\ []<>(\E r \in Request : req[r].pc = "fetch" /\ asks[r] \notin Foreign)
    => []<>(breaker.state = "CLOSED")
=============================================================================
