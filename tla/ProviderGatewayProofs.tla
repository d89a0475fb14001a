----------------------- MODULE ProviderGatewayProofs -----------------------
(***************************************************************************)
(* Proofs about ProviderGateway: its type invariant; that the breaker is   *)
(* coherent, admits nothing while open and pauses as long as its clocks    *)
(* allow; and that identical requests share one call, for every set of     *)
(* requests, every threshold and every time limit.                         *)
(*                                                                         *)
(* Two strengthenings carry the results. A breaker that was opened carries *)
(* a date at most MaxAge older than its last failure (Dated). A request    *)
(* knows whether it holds its lock, and one that does, and was not         *)
(* disturbed, is the holder that Redis knows (Sharing).                    *)
(***************************************************************************)
EXTENDS ProviderGateway, TLAPS

-----------------------------------------------------------------------------
(* The fields of what a request is doing. *)
LEMMA DoingFields ==
  ASSUME NEW d \in Doing
  PROVE  /\ d.pc \in PC /\ d.holds \in BOOLEAN
         /\ d.count \in 0..Waits - 1 \union 0..Retries /\ d.age \in 0..MaxAge
  BY DEF Doing

(* The fields of a breaker. *)
LEMMA BreakerFields ==
  ASSUME NEW b \in Breaker
  PROVE  /\ b.state \in {"CLOSED", "OPEN", "HALF_OPEN"}
         /\ b.failures \in 0..Threshold /\ b.opened \in {Never} \union 0..Longest
  BY DEF Breaker

(* An idle request, and a closed breaker, have their types. *)
LEMMA IdleAndClosedTyped == Idle \in Doing /\ Closed \in Breaker
  BY NumberAssumption DEF Idle, Doing, PC, Closed, Breaker, Never

(* Going to another place keeps what the requests do typed. *)
LEMMA GoToTyped ==
  ASSUME TypeOK, NEW r \in Request, NEW pc \in PC, GoTo(r, pc)
  PROVE  req' \in [Request -> Doing]
  <1> DEFINE counts == 0..Waits - 1 \union 0..Retries
  <1>1. 0 \in counts
    BY NumberAssumption
  <1> HIDE DEF counts
  <1>2. Doing = [pc : PC, holds : BOOLEAN, count : counts, age : 0..MaxAge]
    BY DEF Doing, counts
  <1>3. [req[r] EXCEPT !.pc = pc, !.count = 0] \in Doing
    BY <1>1, <1>2 DEF TypeOK
  <1> QED
    BY <1>3 DEF GoTo, TypeOK

(* So does leaving. *)
LEMMA LeaveTyped ==
  ASSUME TypeOK, NEW r \in Request, Leave(r)
  PROVE  req' \in [Request -> Doing]
  BY GoToTyped, IdleAndClosedTyped DEF Leave, PC, TypeOK

(* Asking the breaker keeps it typed. *)
LEMMA AllowTyped ==
  ASSUME TypeOK, NEW r \in Request, AllowRequest(r)
  PROVE  breaker' \in Breaker
  <1>1. [breaker EXCEPT !.state = "HALF_OPEN"] \in Breaker
    BY DEF TypeOK, Breaker
  <1> QED
    BY <1>1 DEF AllowRequest, TypeOK

(* So does telling it of a failure; the last failure has just happened. *)
LEMMA RecordFailureTyped ==
  ASSUME TypeOK, NEW r \in Request, RecordFailure(r)
  PROVE  breaker' \in Breaker /\ quiet' \in 0..Recovery
  <1> DEFINE failures == IF breaker.failures < Threshold /\ breaker.state # "HALF_OPEN"
                         THEN breaker.failures + 1 ELSE breaker.failures
             opens == breaker.state = "HALF_OPEN" \/ failures >= Threshold
  <1>1. breaker \in Breaker /\ req[r] \in Doing /\ quiet \in 0..Recovery
    BY DEF TypeOK
  <1>2. failures \in 0..Threshold
    BY <1>1, BreakerFields, NumberAssumption
  <1>3. req[r].age \in 0..Longest
    BY <1>1, DoingFields, NumberAssumption DEF Longest
  <1>4. [state |-> "OPEN", failures |-> failures, opened |-> req[r].age] \in Breaker
    BY <1>2, <1>3 DEF Breaker
  <1>5. [breaker EXCEPT !.failures = failures] \in Breaker
    BY <1>1, <1>2 DEF Breaker
  <1>6. /\ breaker' = IF opens THEN [state |-> "OPEN", failures |-> failures, opened |-> req[r].age]
                      ELSE [breaker EXCEPT !.failures = failures]
        /\ quiet' = IF opens THEN 0 ELSE quiet
    BY DEF RecordFailure
  <1> QED
    BY <1>1, <1>4, <1>5, <1>6, NumberAssumption

(* What becomes older stays within its limit. *)
LEMMA OlderStays ==
  ASSUME NEW limit \in Nat, NEW age \in 0..limit
  PROVE  Older(age, limit) \in 0..limit /\ Older(age, limit) >= age /\ Older(age, limit) <= age + 1
  BY DEF Older

(* Initially every variable has its type. *)
LEMMA InitTyped == Init => TypeOK
  BY IdleAndClosedTyped, NumberAssumption, HolderAssumption DEF Init, TypeOK

(* Every step of a request keeps every variable in its type. *)
LEMMA RequestStepTyped == \A r \in Request : TypeOK /\ (Start(r) \/ Step(r)) => TypeOK'
  <1> SUFFICES ASSUME NEW r \in Request, TypeOK, Start(r) \/ Step(r) PROVE TypeOK'
    OBVIOUS
  <1>0. asks[r] \in Resource /\ req[r] \in Doing
    BY DEF TypeOK
  <1>1. CASE Start(r)
    <2>1. [Idle EXCEPT !.pc = "lock"] \in Doing
      BY IdleAndClosedTyped DEF Idle, Doing, PC
    <2> QED
      BY <1>1, <2>1 DEF Start, TypeOK, world
  <1>2. CASE Acquire(r)
    <2>1. [req[r] EXCEPT !.pc = "recheck", !.holds = TRUE] \in Doing
      BY <1>0 DEF Doing, PC
    <2> QED
      BY <1>2, <2>1 DEF Acquire, TypeOK, world
  <1>3. CASE Lose(r)
    BY <1>3, GoToTyped DEF Lose, PC, TypeOK, shared, world
  <1>4. CASE Joined(r)
    BY <1>4, LeaveTyped DEF Joined, TypeOK, shared, world
  <1>5. CASE Poll(r)
    <2>1. CASE req[r].count + 1 < Waits
      <3>1. req[r].count + 1 \in 0..Waits - 1
        BY <1>0, <2>1, DoingFields, NumberAssumption
      <3>2. [req[r] EXCEPT !.count = @ + 1] \in Doing
        BY <1>0, <3>1 DEF Doing
      <3> QED
        BY <1>5, <2>1, <3>2 DEF Poll, TypeOK, world
    <2>2. CASE ~(req[r].count + 1 < Waits)
      BY <1>5, <2>2, GoToTyped DEF Poll, PC, TypeOK, world
    <2> QED
      BY <2>1, <2>2
  <1>6. CASE Recheck(r)
    BY <1>6, GoToTyped, LeaveTyped DEF Recheck, PC, TypeOK, shared, world
  <1>7. CASE Store(r)
    BY <1>7, LeaveTyped DEF Store, TypeOK, world
  <1>8. CASE Release(r)
    BY <1>8, IdleAndClosedTyped DEF Release, TypeOK, world
  <1>9. CASE UseMock(r) \/ Refuse(r)
    BY <1>9, GoToTyped, LeaveTyped DEF UseMock, Refuse, PC, TypeOK, shared, world
  <1>10. CASE Throttle(r) \/ Admit(r)
    BY <1>10, AllowTyped, GoToTyped, LeaveTyped DEF Throttle, Admit, PC, TypeOK, shared, world
  <1>11. CASE Unsupported(r) \/ Cancel(r)
    BY <1>11, LeaveTyped DEF Unsupported, Cancel, TypeOK, shared, world
  <1>12. CASE Succeed(r)
    BY <1>12, IdleAndClosedTyped, GoToTyped DEF Succeed, RecordSuccess, PC, TypeOK, shared, world
  <1>13. CASE Retry(r)
    <2>1. req[r].count + 1 \in 0..Retries
      BY <1>0, <1>13, DoingFields, NumberAssumption DEF Retry
    <2>2. [req[r] EXCEPT !.count = @ + 1] \in Doing
      BY <1>0, <2>1 DEF Doing
    <2> QED
      BY <1>13, <2>2 DEF Retry, TypeOK, shared, world
  <1>14. CASE Fail(r)
    BY <1>14, RecordFailureTyped, LeaveTyped DEF Fail, TypeOK, shared, world
  <1> QED
    BY <1>1, <1>2, <1>3, <1>4, <1>5, <1>6, <1>7, <1>8, <1>9, <1>10, <1>11, <1>12, <1>13, <1>14
       DEF Step, Dedup, Execute, Call

(* Every other step does too. *)
LEMMA StepTyped == TypeOK /\ [Next]_vars => TypeOK'
  <1> SUFFICES ASSUME TypeOK, [Next]_vars PROVE TypeOK'
    OBVIOUS
  <1>1. ASSUME NEW r \in Request, Start(r) \/ Step(r) PROVE TypeOK'
    BY <1>1, RequestStepTyped
  <1>2. ASSUME NEW k \in Resource, Others(k) PROVE TypeOK'
    BY <1>2 DEF Others, Forget, LockExpires, ElsewhereLocks, ElsewhereStores, ElsewhereUnlocks,
               TypeOK, world
  <1>3. CASE ProviderMoves
    BY <1>3 DEF ProviderMoves, TypeOK, shared
  <1>4. CASE Crash
    BY <1>4, IdleAndClosedTyped DEF Crash, TypeOK, world
  <1>5. CASE Tick
    <2>1. ASSUME NEW r \in Request, req[r].pc # "idle"
          PROVE  [req[r] EXCEPT !.age = @ + 1] \in Doing
      <3>1. req[r] \in Doing /\ req[r].age < MaxAge
        BY <1>5, <2>1 DEF Tick, TypeOK
      <3>2. req[r].age + 1 \in 0..MaxAge
        BY <3>1, DoingFields, NumberAssumption
      <3> QED
        BY <3>1, <3>2 DEF Doing
    <2>2. req' \in [Request -> Doing]
      BY <1>5, <2>1 DEF Tick, TypeOK
    <2>3. breaker' \in Breaker
      <3>1. CASE breaker.opened = Never
        BY <1>5, <3>1 DEF Tick, TypeOK
      <3>2. CASE breaker.opened # Never
        <4>1. breaker \in Breaker /\ breaker.opened \in 0..Longest /\ Longest \in Nat
          BY <3>2, BreakerFields, NumberAssumption DEF TypeOK, Longest
        <4>2. Older(breaker.opened, Longest) \in 0..Longest
          BY <4>1, OlderStays
        <4>3. [breaker EXCEPT !.opened = Older(@, Longest)] \in Breaker
          BY <4>1, <4>2 DEF Breaker
        <4> QED
          BY <1>5, <3>2, <4>3 DEF Tick
      <3> QED
        BY <3>1, <3>2
    <2>4. quiet' \in 0..Recovery
      BY <1>5, OlderStays, NumberAssumption DEF Tick, TypeOK
    <2> QED
      BY <1>5, <2>2, <2>3, <2>4 DEF Tick, TypeOK, shared, world
  <1>6. CASE UNCHANGED vars
    BY <1>6 DEF vars, TypeOK
  <1>7. {asks[r] : r \in Request} \subseteq Resource
    BY DEF TypeOK
  <1> QED
    BY <1>1, <1>2, <1>3, <1>4, <1>5, <1>6, <1>7 DEF Next

(* TypeOK: what the router, the breaker and Redis keep has its type in     *)
(* every reachable state.                                                  *)
THEOREM TypeCorrect == Spec => []TypeOK
  BY InitTyped, StepTyped, PTL DEF Spec

-----------------------------------------------------------------------------
(* A date of opening is at most MaxAge older than the failure that set it. *)
Dated == breaker.opened # Never => breaker.opened <= quiet + MaxAge
BreakerInv == BreakerCoherent /\ Dated

(* What a step of a request may do to the breaker.                         *)
LEMMA BreakerFrame ==
  ASSUME NEW r \in Request, Start(r) \/ Step(r)
  PROVE  \/ UNCHANGED <<breaker, quiet>>
         \/ AllowRequest(r) /\ UNCHANGED quiet
         \/ RecordSuccess /\ UNCHANGED quiet
         \/ RecordFailure(r)
  BY DEF Step, Dedup, Execute, Call, Start, Acquire, Lose, Joined, Poll, Recheck, Store, Release,
         UseMock, Refuse, Throttle, Admit, Unsupported, Succeed, Retry, Fail, Cancel

(* No resource is touched by the others beyond the cache and the lock.     *)
LEMMA OthersFrame ==
  ASSUME NEW k, Others(k)
  PROVE  UNCHANGED <<breaker, quiet, req, asks>>
  BY DEF Others, Forget, LockExpires, ElsewhereLocks, ElsewhereStores, ElsewhereUnlocks, world

(* A failure that opens the breaker dates it by a clock at most MaxAge old. *)
LEMMA FailureKeepsBreaker ==
  ASSUME TypeOK, BreakerInv, NEW r \in Request, RecordFailure(r)
  PROVE  BreakerInv'
  <1> DEFINE failures == IF breaker.failures < Threshold /\ breaker.state # "HALF_OPEN"
                         THEN breaker.failures + 1 ELSE breaker.failures
             opens == breaker.state = "HALF_OPEN" \/ failures >= Threshold
  <1>1. breaker \in Breaker /\ req[r].age \in 0..MaxAge /\ quiet \in 0..Recovery
    BY DoingFields DEF TypeOK
  <1>2. /\ breaker' = IF opens THEN [state |-> "OPEN", failures |-> failures, opened |-> req[r].age]
                      ELSE [breaker EXCEPT !.failures = failures]
        /\ quiet' = IF opens THEN 0 ELSE quiet
    BY DEF RecordFailure
  <1>3. CASE opens
    <2>1. breaker' = [state |-> "OPEN", failures |-> failures, opened |-> req[r].age] /\ quiet' = 0
      BY <1>2, <1>3
    <2>2. failures = Threshold
      BY <1>1, <1>3, BreakerFields, NumberAssumption DEF BreakerInv, BreakerCoherent
    <2>3. req[r].age # Never /\ req[r].age <= 0 + MaxAge
      BY <1>1, NumberAssumption DEF Never
    <2> HIDE DEF failures, opens
    <2> QED
      BY <2>1, <2>2, <2>3, NumberAssumption DEF BreakerInv, BreakerCoherent, Dated
  <1>4. CASE ~opens
    <2>1. breaker' = [breaker EXCEPT !.failures = failures] /\ quiet' = quiet
      BY <1>2, <1>4
    <2>2. /\ breaker'.state = breaker.state /\ breaker'.opened = breaker.opened
          /\ breaker'.failures = failures
      BY <1>1, <2>1 DEF Breaker
    <2>3. failures < Threshold /\ breaker.failures < Threshold
      BY <1>1, <1>4, BreakerFields, NumberAssumption DEF BreakerInv, BreakerCoherent
    <2> HIDE DEF failures, opens
    <2> QED
      BY <2>1, <2>2, <2>3 DEF BreakerInv, BreakerCoherent, Dated
  <1> QED
    BY <1>3, <1>4

(* Every step keeps the breaker coherent and dated. *)
LEMMA StepKeepsBreaker == TypeOK /\ BreakerInv /\ [Next]_vars => BreakerInv'
  <1> SUFFICES ASSUME TypeOK, BreakerInv, [Next]_vars PROVE BreakerInv'
    OBVIOUS
  <1> USE DEF BreakerInv, BreakerCoherent, Dated
  <1>0. breaker \in Breaker /\ quiet \in 0..Recovery
    BY DEF TypeOK
  <1>1. CASE UNCHANGED <<breaker, quiet>>
    BY <1>1
  <1>2. CASE breaker' = Closed
    BY <1>2, NumberAssumption DEF Closed, Never
  <1>3. ASSUME NEW r \in Request, Start(r) \/ Step(r) PROVE BreakerInv'
    <2>1. CASE AllowRequest(r) /\ UNCHANGED quiet
      <3>1. /\ breaker'.failures = breaker.failures /\ breaker'.opened = breaker.opened
            /\ breaker'.state = "CLOSED" <=> breaker.state = "CLOSED"
        BY <1>0, <2>1 DEF AllowRequest, Breaker
      <3> QED
        BY <2>1, <3>1
    <2>2. CASE RecordSuccess
      BY <1>2, <2>2 DEF RecordSuccess
    <2>3. CASE RecordFailure(r)
      BY <2>3, FailureKeepsBreaker
    <2> QED
      BY <1>1, <1>3, <2>1, <2>2, <2>3, BreakerFrame
  <1>4. ASSUME NEW k, Others(k) PROVE BreakerInv'
    BY <1>1, <1>4, OthersFrame
  <1>5. CASE Tick
    <2>1. quiet' \in 0..Recovery /\ quiet' = Older(quiet, Recovery)
      BY <1>5, <1>0, OlderStays, NumberAssumption DEF Tick
    <2>2. CASE breaker.opened = Never
      BY <1>5, <2>2 DEF Tick
    <2>3. CASE breaker.opened # Never
      <3>1. breaker.opened \in 0..Longest /\ Longest = Recovery + MaxAge /\ Longest \in Nat
        BY <1>0, <2>3, BreakerFields, NumberAssumption DEF Longest
      <3>2. /\ breaker'.opened = Older(breaker.opened, Longest)
            /\ breaker'.failures = breaker.failures /\ breaker'.state = breaker.state
        BY <1>0, <1>5, <2>3 DEF Tick, Breaker
      <3>3. breaker'.opened \in 0..Longest
        BY <3>1, <3>2, OlderStays
      <3>4. breaker'.opened <= quiet' + MaxAge
        BY <1>0, <2>1, <2>3, <3>1, <3>2, NumberAssumption DEF Older
      <3>5. breaker'.opened # Never
        BY <3>3 DEF Never
      <3> QED
        BY <2>3, <3>2, <3>4, <3>5
    <2> QED
      BY <2>2, <2>3
  <1>6. ASSUME ProviderMoves \/ UNCHANGED vars PROVE BreakerInv'
    BY <1>1, <1>6 DEF ProviderMoves, vars
  <1> QED
    BY <1>2, <1>3, <1>4, <1>5, <1>6 DEF Next, Crash

(* BreakerCoherent, in every reachable state: the breaker is open, wholly  *)
(* or half, exactly while the threshold of failures is reached, and then   *)
(* knows since when.                                                       *)
THEOREM BreakerIsCoherent == Spec => []BreakerCoherent
  <1>1. Init => BreakerInv
    BY NumberAssumption DEF Init, Closed, Never, BreakerInv, BreakerCoherent, Dated
  <1>2. BreakerInv => BreakerCoherent
    BY DEF BreakerInv
  <1> QED
    BY <1>1, <1>2, StepKeepsBreaker, TypeCorrect, PTL DEF Spec

(* An open breaker that turns half open was asked by a request so late     *)
(* that its last failure is as old as the two clocks allow.                *)
LEMMA TrialIsLate ==
  TypeOK /\ BreakerInv /\ [Next]_vars /\ breaker.state = "OPEN" /\ breaker'.state = "HALF_OPEN"
    => quiet + MaxAge >= Recovery
  <1> SUFFICES ASSUME TypeOK, BreakerInv, [Next]_vars, breaker.state = "OPEN", breaker'.state = "HALF_OPEN"
               PROVE  quiet + MaxAge >= Recovery
    OBVIOUS
  <1>0. breaker \in Breaker
    BY DEF TypeOK
  <1>1. ASSUME breaker'.state = breaker.state \/ breaker'.state = "CLOSED" \/ breaker'.state = "OPEN"
        PROVE  FALSE
    BY <1>1
  <1>2. ASSUME NEW r \in Request, Start(r) \/ Step(r) PROVE quiet + MaxAge >= Recovery
    <2>1. CASE AllowRequest(r)
      <3>1. /\ breaker.opened # Never /\ breaker.opened - req[r].age >= Recovery
            /\ breaker.opened \in 0..Longest /\ req[r].age \in 0..MaxAge
        BY <1>0, <2>1, BreakerFields, DoingFields DEF AllowRequest, Allowed, Recovered, TypeOK
      <3> QED
        BY <3>1, NumberAssumption DEF BreakerInv, Dated, TypeOK, Longest
    <2>2. CASE RecordFailure(r)
      BY <1>0, <1>1, <2>2 DEF RecordFailure, Breaker
    <2> QED
      BY <1>1, <1>2, <2>1, <2>2, BreakerFrame DEF RecordSuccess, Closed
  <1>3. CASE Tick
    BY <1>0, <1>1, <1>3 DEF Tick, Breaker
  <1>4. ASSUME NEW k, Others(k) PROVE FALSE
    BY <1>1, <1>4, OthersFrame
  <1>5. CASE ProviderMoves \/ Crash \/ UNCHANGED vars
    BY <1>1, <1>5 DEF ProviderMoves, Crash, Closed, vars
  <1> QED
    BY <1>2, <1>3, <1>4, <1>5 DEF Next

(* PauseLasts: a trial follows the last failure that opened the breaker by *)
(* recovery_timeout less the age of a request's `now`, at the least.       *)
THEOREM PauseIsKept == Spec => PauseLasts
  <1>1. Init => BreakerInv
    BY NumberAssumption DEF Init, Closed, Never, BreakerInv, BreakerCoherent, Dated
  <1>2. TypeOK /\ BreakerInv /\ [Next]_vars =>
          [breaker.state = "OPEN" /\ breaker'.state = "HALF_OPEN" => quiet + MaxAge >= Recovery]_vars
    BY TrialIsLate
  <1> QED
    BY <1>1, <1>2, StepKeepsBreaker, TypeCorrect, PTL DEF Spec, PauseLasts

(* OpenAdmitsNothing: while the breaker stays open no request comes to     *)
(* call the provider.                                                      *)
THEOREM OpenMeansClosedDoors == Spec => OpenAdmitsNothing
  <1>1. ASSUME TypeOK, [Next]_vars, breaker.state = "OPEN", breaker'.state = "OPEN"
        PROVE  \A r \in Request : req'[r].pc = "call" => req[r].pc = "call"
    <2>0. breaker \in Breaker /\ req \in [Request -> Doing]
      BY <1>1 DEF TypeOK
    <2>1. ASSUME NEW r \in Request, Start(r) \/ Step(r), NEW s \in Request, req'[s].pc = "call"
          PROVE  req[s].pc = "call"
      <3>1. CASE Admit(r)
        BY <1>1, <2>0, <3>1 DEF Admit, AllowRequest, Breaker
      <3>2. CASE ~Admit(r)
        BY <2>0, <2>1, <3>2
           DEF Step, Dedup, Execute, Call, Start, Acquire, Lose, Joined, Poll, Recheck, Store, Release,
               UseMock, Refuse, Throttle, Unsupported, Succeed, Retry, Fail, Cancel,
               GoTo, Leave, Idle, Doing
      <3> QED
        BY <3>1, <3>2
    <2>2. CASE Tick
      BY <2>0, <2>2 DEF Tick, Doing
    <2>3. ASSUME NEW k, Others(k) PROVE req' = req
      BY <2>3, OthersFrame
    <2>4. CASE ProviderMoves \/ Crash \/ UNCHANGED vars
      BY <2>4 DEF ProviderMoves, Crash, Idle, vars
    <2> QED
      BY <1>1, <2>1, <2>2, <2>3, <2>4 DEF Next
  <1>2. TypeOK /\ [Next]_vars =>
          [breaker.state = "OPEN" /\ breaker'.state = "OPEN" =>
             \A r \in Request : req'[r].pc = "call" => req[r].pc = "call"]_vars
    BY <1>1
  <1> QED
    BY <1>2, TypeCorrect, PTL DEF Spec, OpenAdmitsNothing

-----------------------------------------------------------------------------
(* A place tells whether the request holds its lock: not before it asked,  *)
(* and surely where it re-checks and releases.                             *)
Placed(d) == /\ d.pc \in {"idle", "lock", "wait"} => ~d.holds
             /\ d.pc \in {"recheck", "release"} => d.holds

(* A holder that was not disturbed is the holder Redis knows; a request    *)
(* that fetches, and was not disturbed, holds, and nothing is cached.      *)
Undisturbed(r) == ~disturbed[asks[r]]
Sharing ==
    /\ \A r \in Request : Placed(req[r])
    /\ \A r \in Request : req[r].holds /\ Undisturbed(r) => lock[asks[r]] = r
    /\ \A r \in Request : Fetching(r) /\ Undisturbed(r) => req[r].holds /\ ~cached[asks[r]]

(* It is what SharedCall says, and more.                                   *)
LEMMA SharingSuffices == TypeOK /\ Sharing => SharedCall
  BY DEF Sharing, SharedCall, Undisturbed

(* A step of one request that touches nothing shared keeps Sharing when it *)
(* takes no lock and begins to fetch only as an undisturbed holder with    *)
(* nothing cached.                                                         *)
LEMMA LocalStep ==
  ASSUME TypeOK, Sharing, NEW r \in Request, NEW d, req' = [req EXCEPT ![r] = d],
         UNCHANGED <<asks, shared>>, Placed(d), d.holds => req[r].holds,
         d.pc \in {"fetch", "call", "store"} =>
            (Fetching(r) /\ d.holds = req[r].holds) \/ (d.holds /\ ~cached[asks[r]]) \/ ~Undisturbed(r)
  PROVE  Sharing'
  <1>1. ASSUME NEW s \in Request, s # r PROVE req'[s] = req[s]
    BY <1>1 DEF TypeOK
  <1>2. req'[r] = d
    BY DEF TypeOK
  <1> QED
    BY <1>1, <1>2 DEF Sharing, Fetching, Undisturbed, shared, Placed

(* Leaving leads to idleness or to the release, as the lock demands.       *)
LEMMA LeaveEffect ==
  ASSUME TypeOK, NEW r \in Request, Leave(r)
  PROVE  \E d : /\ req' = [req EXCEPT ![r] = d]
                /\ Placed(d) /\ d.pc \in {"idle", "release"} /\ d.holds = req[r].holds
  <1>1. req[r] \in Doing
    BY DEF TypeOK
  <1>2. CASE req[r].holds
    <2> DEFINE d == [req[r] EXCEPT !.pc = "release", !.count = 0]
    <2>1. req' = [req EXCEPT ![r] = d]
      BY <1>2 DEF Leave, GoTo, TypeOK
    <2>2. d.pc = "release" /\ d.holds = req[r].holds
      BY <1>1 DEF Doing
    <2> HIDE DEF d
    <2> QED
      BY <1>2, <2>1, <2>2 DEF Placed
  <1>3. CASE ~req[r].holds
    <2>1. req' = [req EXCEPT ![r] = Idle] /\ Idle.pc = "idle" /\ Idle.holds = FALSE
      BY <1>3 DEF Leave, Idle
    <2>2. Idle.holds = req[r].holds
      BY <1>1, <1>3, <2>1, DoingFields
    <2> QED
      BY <2>1, <2>2 DEF Placed
  <1> QED
    BY <1>2, <1>3

(* Leaving and going on are such steps. *)
LEMMA LeaveKeepsSharing ==
  ASSUME TypeOK, Sharing, NEW r \in Request, Leave(r), UNCHANGED <<asks, shared>>
  PROVE  Sharing'
  <1>1. PICK d : /\ req' = [req EXCEPT ![r] = d]
                 /\ Placed(d) /\ d.pc \in {"idle", "release"} /\ d.holds = req[r].holds
    BY LeaveEffect
  <1> QED
    BY <1>1, LocalStep

(* A request that goes on to fetch, or within the fetch, keeps Sharing.    *)
LEMMA GoToKeepsSharing ==
  ASSUME TypeOK, Sharing, NEW r \in Request, NEW pc \in PC, GoTo(r, pc), UNCHANGED <<asks, shared>>,
         \/ pc \in {"fetch", "call", "store"} /\ Fetching(r)
         \/ pc = "fetch" /\ req[r].pc = "recheck" /\ ~cached[asks[r]]
         \/ pc = "wait" /\ req[r].pc = "lock"
  PROVE  Sharing'
  <1> DEFINE d == [req[r] EXCEPT !.pc = pc, !.count = 0]
  <1>1. req' = [req EXCEPT ![r] = d]
    BY DEF GoTo, TypeOK
  <1>2. d.pc = pc /\ d.holds = req[r].holds
    BY DEF Doing, TypeOK
  <1>3. Placed(req[r])
    BY DEF Sharing
  <1> HIDE DEF d
  <1>4. Placed(d)
    BY <1>2, <1>3 DEF Placed
  <1> QED
    BY <1>1, <1>2, <1>3, <1>4, LocalStep DEF Placed

(* Every step of a request keeps Sharing. *)
LEMMA RequestStepKeepsSharing ==
  ASSUME TypeOK, Sharing, NEW r \in Request, Start(r) \/ Step(r)
  PROVE  Sharing'
  <1> DEFINE k == asks[r]
  <1>0. k \in Resource /\ req[r] \in Doing /\ Placed(req[r])
    BY DEF TypeOK, Sharing
  <1>1. ASSUME NEW s \in Request, s # r, NEW d, req' = [req EXCEPT ![r] = d] PROVE req'[s] = req[s]
    BY <1>1 DEF TypeOK
  <1>2. CASE Start(r)
    <2>1. req' = [req EXCEPT ![r] = [Idle EXCEPT !.pc = "lock"]] /\ asks' = asks
      BY <1>2 DEF Start, world
    <2>2. req'[r].pc = "lock" /\ req'[r].holds = FALSE
      BY <2>1 DEF Idle, TypeOK
    <2>3. ASSUME NEW s \in Request, s # r, req[s].pc # "idle", ~disturbed'[asks[s]]
          PROVE  Undisturbed(s)
      <3>1. asks[s] = k => s \in Active(k)
        BY <2>3 DEF Active
      <3> QED
        BY <1>0, <1>2, <2>3, <3>1 DEF Start, TypeOK, Undisturbed
    <2>4. \A s \in Request : req[s].holds \/ Fetching(s) => req[s].pc # "idle"
      BY DEF Sharing, Placed, Fetching
    <2>5. UNCHANGED <<cached, lock>>
      BY <1>2 DEF Start
    <2> QED
      BY <1>1, <2>1, <2>2, <2>3, <2>4, <2>5 DEF Sharing, Placed, Fetching, Undisturbed
  <1>3. CASE Acquire(r)
    <2>1. req' = [req EXCEPT ![r] = [req[r] EXCEPT !.pc = "recheck", !.holds = TRUE]]
      BY <1>3 DEF Acquire, TypeOK
    <2>2. req'[r].pc = "recheck" /\ req'[r].holds = TRUE
      BY <1>0, <2>1 DEF TypeOK, Doing
    <2>3. lock' = [lock EXCEPT ![k] = r] /\ lock[k] = Nobody /\ UNCHANGED <<asks, cached, disturbed>>
      BY <1>3 DEF Acquire, world
    <2>4. \A s \in Request : asks[s] = k /\ req[s].holds => ~Undisturbed(s)
      BY <2>3, HolderAssumption DEF Sharing
    <2>5. lock'[k] = r /\ \A s \in Request : asks[s] # k => lock'[asks[s]] = lock[asks[s]]
      BY <1>0, <2>3 DEF TypeOK
    <2>6. \A s \in Request : s # r => req'[s] = req[s]
      BY <1>1, <2>1
    <2>7. ASSUME NEW s \in Request
          PROVE  /\ Placed(req'[s])
                 /\ req'[s].holds /\ Undisturbed(s)' => lock'[asks'[s]] = s
                 /\ Fetching(s)' /\ Undisturbed(s)' => req'[s].holds /\ ~cached'[asks'[s]]
      BY <2>2, <2>3, <2>4, <2>5, <2>6 DEF Sharing, Placed, Fetching, Undisturbed
    <2> QED
      BY <2>7 DEF Sharing
  <1>4. CASE Lose(r)
    BY <1>4, GoToKeepsSharing DEF Lose, PC, world
  <1>5. CASE Joined(r)
    BY <1>5, LeaveKeepsSharing DEF Joined, world
  <1>6. CASE Poll(r)
    <2>1. CASE req[r].count + 1 < Waits
      <3> DEFINE d == [req[r] EXCEPT !.count = @ + 1]
      <3>1. d.pc = "wait" /\ d.holds = req[r].holds /\ Placed(d)
        BY <1>0, <1>6 DEF Poll, Doing, Placed
      <3>2. req' = [req EXCEPT ![r] = d] /\ UNCHANGED <<asks, shared>>
        BY <1>6, <2>1 DEF Poll, TypeOK, shared, world
      <3> HIDE DEF d
      <3> QED
        BY <3>1, <3>2, LocalStep
    <2>2. CASE ~(req[r].count + 1 < Waits)
      <3>1. req' = [req EXCEPT ![r] = [req[r] EXCEPT !.pc = "fetch", !.count = 0]]
        BY <1>6, <2>2 DEF Poll, GoTo, TypeOK
      <3>2. req'[r].pc = "fetch" /\ req'[r].holds = req[r].holds
        BY <1>0, <3>1 DEF TypeOK, Doing
      <3>3. disturbed' = [disturbed EXCEPT ![k] = TRUE] /\ UNCHANGED <<asks, cached, lock>>
        BY <1>6, <2>2 DEF Poll, world
      <3>4. disturbed'[k] = TRUE /\ \A s \in Request : ~disturbed'[asks[s]] => Undisturbed(s)
        BY <1>0, <3>3 DEF TypeOK, Undisturbed
      <3>5. \A s \in Request : s # r => req'[s] = req[s]
        BY <1>1, <3>1
      <3> QED
        BY <3>2, <3>3, <3>4, <3>5 DEF Sharing, Placed, Fetching, Undisturbed
    <2> QED
      BY <2>1, <2>2
  <1>7. CASE Recheck(r)
    BY <1>7, LeaveKeepsSharing, GoToKeepsSharing DEF Recheck, PC, world
  <1>8. CASE Store(r)
    <2>1. /\ Leave(r) /\ UNCHANGED <<asks, lock, disturbed>> /\ Fetching(r)
          /\ cached' = [cached EXCEPT ![k] = TRUE]
      BY <1>8 DEF Store, world, Fetching
    <2>2. /\ \A s \in Request : s # r => req'[s] = req[s]
          /\ Placed(req'[r]) /\ req'[r].pc \in {"idle", "release"} /\ req'[r].holds = req[r].holds
      <3>1. PICK d : /\ req' = [req EXCEPT ![r] = d]
                     /\ Placed(d) /\ d.pc \in {"idle", "release"} /\ d.holds = req[r].holds
        BY <2>1, LeaveEffect
      <3>2. req'[r] = d /\ \A s \in Request : s # r => req'[s] = req[s]
        BY <3>1 DEF TypeOK
      <3> QED
        BY <3>1, <3>2
    <2>3. ASSUME NEW s \in Request, s # r, Fetching(s), Undisturbed(s) PROVE asks[s] # k
      BY <2>1, <2>3, SharingSuffices DEF SharedCall, Undisturbed
    <2>4. \A s \in Request : asks[s] # k => cached'[asks[s]] = cached[asks[s]]
      BY <1>0, <2>1 DEF TypeOK
    <2> QED
      BY <2>1, <2>2, <2>3, <2>4 DEF Sharing, Fetching, Undisturbed
  <1>9. CASE Release(r)
    <2>1. req[r].holds /\ req' = [req EXCEPT ![r] = Idle] /\ UNCHANGED <<asks, cached, disturbed>>
      BY <1>0, <1>9 DEF Release, world, Placed
    <2>2. req'[r] = Idle /\ \A s \in Request : s # r => req'[s] = req[s]
      BY <2>1 DEF TypeOK
    <2>3. ASSUME NEW s \in Request, s # r, req[s].holds, Undisturbed(s) PROVE asks[s] # k
      BY <2>1, <2>3 DEF Sharing, Undisturbed
    <2>4. \A s \in Request : asks[s] # k => lock'[asks[s]] = lock[asks[s]]
      BY <1>0, <1>9 DEF Release, TypeOK
    <2>5. Idle.pc = "idle" /\ Idle.holds = FALSE
      BY DEF Idle
    <2> QED
      BY <2>1, <2>2, <2>3, <2>4, <2>5 DEF Sharing, Placed, Fetching, Undisturbed
  <1>10. CASE UseMock(r)
    BY <1>10, GoToKeepsSharing DEF UseMock, PC, Fetching, world
  <1>11. CASE Refuse(r) \/ Throttle(r) \/ Unsupported(r) \/ Fail(r) \/ Cancel(r)
    BY <1>11, LeaveKeepsSharing DEF Refuse, Throttle, Unsupported, Fail, Cancel, world
  <1>12. CASE Admit(r)
    BY <1>12, GoToKeepsSharing DEF Admit, PC, Fetching, world
  <1>13. CASE Succeed(r)
    BY <1>13, GoToKeepsSharing DEF Succeed, Calling, PC, Fetching, world
  <1>14. CASE Retry(r)
    <2> DEFINE d == [req[r] EXCEPT !.count = @ + 1]
    <2>1. d.pc = "call" /\ d.holds = req[r].holds /\ Fetching(r) /\ Placed(d)
      BY <1>0, <1>14 DEF Retry, Calling, Doing, Fetching, Placed
    <2>2. req' = [req EXCEPT ![r] = d] /\ UNCHANGED <<asks, shared>>
      BY <1>14 DEF Retry, TypeOK, world
    <2> HIDE DEF d
    <2> QED
      BY <2>1, <2>2, LocalStep
  <1> QED
    BY <1>2, <1>3, <1>4, <1>5, <1>6, <1>7, <1>8, <1>9, <1>10, <1>11, <1>12, <1>13, <1>14
       DEF Step, Dedup, Execute, Call

(* So does every other step. *)
LEMMA StepKeepsSharing == TypeOK /\ Sharing /\ [Next]_vars => Sharing'
  <1> SUFFICES ASSUME TypeOK, Sharing, [Next]_vars PROVE Sharing'
    OBVIOUS
  <1>1. ASSUME NEW r \in Request, Start(r) \/ Step(r) PROVE Sharing'
    BY <1>1, RequestStepKeepsSharing
  <1>2. ASSUME NEW k \in Resource, Others(k) PROVE Sharing'
    <2>1. UNCHANGED <<req, asks>>
      BY <1>2, OthersFrame
    <2>2. CASE Forget(k)
      BY <2>1, <2>2 DEF Forget, Sharing, Fetching, Undisturbed, TypeOK
    <2>3. CASE LockExpires(k)
      <3>1. /\ UNCHANGED cached /\ disturbed'[k] = TRUE
            /\ \A l \in Resource : l # k => lock'[l] = lock[l] /\ disturbed'[l] = disturbed[l]
        BY <2>3 DEF LockExpires, TypeOK
      <3>2. \A r \in Request : Undisturbed(r)' => Undisturbed(r) /\ lock'[asks[r]] = lock[asks[r]]
        BY <2>1, <3>1 DEF Undisturbed, TypeOK
      <3> QED
        BY <2>1, <3>1, <3>2 DEF Sharing, Fetching
    <2>4. CASE ElsewhereLocks(k) \/ ElsewhereUnlocks(k)
      <3>1. /\ UNCHANGED <<cached, disturbed>> /\ lock[k] \notin Request
            /\ \A l \in Resource : l # k => lock'[l] = lock[l]
        BY <2>4, HolderAssumption DEF ElsewhereLocks, ElsewhereUnlocks, TypeOK
      <3>2. \A r \in Request : req[r].holds /\ Undisturbed(r) => asks[r] # k
        BY <3>1 DEF Sharing
      <3> QED
        BY <2>1, <3>1, <3>2 DEF Sharing, Fetching, Undisturbed, TypeOK
    <2>5. CASE ElsewhereStores(k)
      <3>1. /\ UNCHANGED lock /\ disturbed'[k] = (disturbed[k] \/ lock[k] # Elsewhere)
            /\ \A l \in Resource : l # k => cached'[l] = cached[l] /\ disturbed'[l] = disturbed[l]
        BY <2>5 DEF ElsewhereStores, TypeOK
      <3>2. ASSUME NEW r \in Request, Undisturbed(r)'
            PROVE  Undisturbed(r) /\ (asks[r] = k => lock[k] \notin Request)
        BY <2>1, <3>1, <3>2, HolderAssumption DEF Undisturbed, TypeOK
      <3>3. ASSUME NEW r \in Request, Undisturbed(r)', Fetching(r)
            PROVE  req[r].holds /\ ~cached'[asks[r]]
        BY <3>1, <3>2, <3>3 DEF Sharing, TypeOK
      <3> QED
        BY <2>1, <3>1, <3>2, <3>3 DEF Sharing, Fetching
    <2> QED
      BY <1>2, <2>2, <2>3, <2>4, <2>5 DEF Others
  <1>3. CASE Tick
    <2>1. \A r \in Request : req'[r].pc = req[r].pc /\ req'[r].holds = req[r].holds
      BY <1>3 DEF Tick, TypeOK, Doing
    <2> QED
      BY <1>3, <2>1 DEF Tick, Sharing, Placed, Fetching, Undisturbed, shared, world
  <1>4. CASE Crash
    BY <1>4 DEF Crash, Idle, Sharing, Placed, Fetching
  <1>5. CASE ProviderMoves \/ UNCHANGED vars
    BY <1>5 DEF ProviderMoves, vars, Sharing, Placed, Fetching, Undisturbed, shared
  <1>6. {asks[r] : r \in Request} \subseteq Resource
    BY DEF TypeOK
  <1> QED
    BY <1>1, <1>2, <1>3, <1>4, <1>5, <1>6 DEF Next

(* SharedCall, in every reachable state: unless waiting was given up or a  *)
(* lock outlived, one request at a time calls for a resource, none of      *)
(* another process does, and nothing that is in the cache is called for.   *)
THEOREM CallsAreShared == Spec => []SharedCall
  <1>1. Init => Sharing
    BY DEF Init, Sharing, Placed, Fetching, Idle
  <1> QED
    BY <1>1, StepKeepsSharing, SharingSuffices, TypeCorrect, PTL DEF Spec
=============================================================================
