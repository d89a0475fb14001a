------------------------------ MODULE SyncRun ------------------------------
(***************************************************************************)
(* The shared machinery of the ingestion sync (SyncOrchestrator._run_sync) *)
(* for one (sport, entity kind, scope) triple: the incremental skip on the *)
(* checkpoint, the Redis lock with its expiry, the run bounded by the      *)
(* lock's own TTL, the bookkeeping of success and failure, the release.    *)
(*                                                                         *)
(* A Task is a Celery worker process of its own (one task at a time, an    *)
(* autocommit session); a Request is one of the admin triggers, which all  *)
(* run in one API process, share its lock object and commit at their end.  *)
(*                                                                         *)
(* Time is kept as ages: how long ago the scope was last synced (up to     *)
(* Interval, after which it no longer matters), how long a lock and a run  *)
(* have left. Records, quality reports, timeline events and the counter of *)
(* consecutive failures are not kept; they decide nothing here.            *)
(***************************************************************************)
EXTENDS Integers

CONSTANTS Task, Request, NoWorker,
          Ttl,          \* lock_ttl_seconds: of the lock and of the run's wait_for
          Interval,     \* min_interval_seconds
          Forcing,      \* runs that skip the interval (force, or a LIVE trigger)
          Crashing      \* a process may die at any step

Worker == Task \union Request

ASSUME WorkerAssumption == Task \intersect Request = {} /\ NoWorker \notin Worker
ASSUME TimeAssumption == Ttl \in Nat \ {0} /\ Interval \in Nat \ {0}
ASSUME SwitchAssumption == {Forcing, Crashing} \subseteq BOOLEAN

(* The workers of one operating system process. *)
Process(w) == IF w \in Request THEN Request ELSE {w}
Processes == {Process(w) : w \in Worker}

VARIABLES
    lock,        \* the Redis key: who set it, and the time it has left (0: no key)
    tokens,      \* RedisDistributedLock._tokens of each process, for this key
    checkpoint,  \* age of SyncCheckpoint.last_synced_at, as committed
    job,         \* what each worker is doing
    rested,      \* history: age of the last run that was closed and released
    overlapped,  \* history: two runs were under way at the same time
    strayed,     \* history: workers about to DEL a key that is no longer, or never was, theirs
    robbed       \* history: runs whose key such a release has deleted
vars == <<lock, tokens, checkpoint, job, rested, overlapped, strayed, robbed>>
keyHistory == <<strayed, robbed>>

Age == 0..Interval
PC == {"idle", "acquire", "record", "fetch", "process", "finish", "fail", "mark",
       "report", "release", "delete", "commit"}
RunStatus == {"none", "running", "succeeded", "failed"}
Closed == {"succeeded", "failed"}

Job == [pc : PC,
        age : Age,             \* of `now`, read when the run was triggered
        left : 0..Ttl,         \* before wait_for cancels the run
        guarded : BOOLEAN,     \* inside that wait_for
        forced : BOOLEAN,
        status : RunStatus,    \* of the SyncRun row
        marked : BOOLEAN]      \* the checkpoint was upserted in this session
IdleJob == [pc |-> "idle", age |-> 0, left |-> 0, guarded |-> FALSE, forced |-> FALSE,
            status |-> "none", marked |-> FALSE]

TypeOK ==
    /\ lock \in [holder : Worker \union {NoWorker}, left : 0..Ttl]
    /\ tokens \in [Processes -> Worker \union {NoWorker}]
    /\ checkpoint \in Age
    /\ job \in [Worker -> Job]
    /\ rested \in Age
    /\ overlapped \in BOOLEAN
    /\ strayed \subseteq Worker /\ robbed \subseteq Worker

Init ==
    /\ lock = [holder |-> NoWorker, left |-> 0]
    /\ tokens = [p \in Processes |-> NoWorker]
    /\ checkpoint = Interval
    /\ job = [w \in Worker |-> IdleJob]
    /\ rested = Interval
    /\ overlapped = FALSE
    /\ strayed = {} /\ robbed = {}

(* A step of the run itself: cancelled once the run's time is up. *)
At(w, pc) == job[w].pc = pc /\ (job[w].guarded => job[w].left > 0)
GoTo(w, pc) == job' = [job EXCEPT ![w].pc = pc]

-----------------------------------------------------------------------------
(* The run is triggered, the checkpoint read, and the run skipped (no step) *)
(* unless it is due. This is before the lock is asked for.                  *)
Begin(w, force) ==
    /\ job[w].pc = "idle"
    /\ force \/ checkpoint = Interval
    /\ job' = [job EXCEPT ![w] = [IdleJob EXCEPT !.pc = "acquire", !.forced = force]]
    /\ overlapped' = (overlapped \/ \E v \in Worker : job[v].pc # "idle")
    /\ UNCHANGED <<lock, tokens, checkpoint, rested, keyHistory>>

(* SET NX EX: the key is set if there is none, and the process remembers   *)
(* the token under the key's name.                                         *)
Acquire(w) ==
    /\ job[w].pc = "acquire" /\ lock.left = 0
    /\ lock' = [holder |-> w, left |-> Ttl]
    /\ tokens' = [tokens EXCEPT ![Process(w)] = w]
    /\ job' = [job EXCEPT ![w].pc = "record", ![w].left = Ttl, ![w].guarded = TRUE]
    /\ robbed' = robbed \ {w}
    /\ UNCHANGED <<checkpoint, rested, overlapped, strayed>>

(* Somebody is syncing this scope: the call returns None. *)
Refused(w) ==
    /\ job[w].pc = "acquire" /\ lock.left > 0
    /\ job' = [job EXCEPT ![w] = IdleJob]
    /\ UNCHANGED <<lock, tokens, checkpoint, rested, overlapped, keyHistory>>

RecordRun(w) ==
    /\ At(w, "record")
    /\ job' = [job EXCEPT ![w].pc = "fetch", ![w].status = "running"]
    /\ UNCHANGED <<lock, tokens, checkpoint, rested, overlapped, keyHistory>>

(* The provider answers, or anything goes wrong (its own timeout included). *)
Fetch(w) ==
    /\ At(w, "fetch")
    /\ GoTo(w, "process") \/ GoTo(w, "fail")
    /\ UNCHANGED <<lock, tokens, checkpoint, rested, overlapped, keyHistory>>

(* Every record is reconciled; one that times out counts as rejected, any  *)
(* other exception leaves the run through the `finally` that releases.     *)
ProcessRecords(w) ==
    /\ At(w, "process")
    /\ \/ GoTo(w, "finish")
       \/ job' = [job EXCEPT ![w].pc = "release", ![w].guarded = FALSE]
    /\ UNCHANGED <<lock, tokens, checkpoint, rested, overlapped, keyHistory>>

Close(w, status) == job' = [job EXCEPT ![w].pc = "mark", ![w].status = status]

Finish(w) ==
    /\ At(w, "finish") /\ Close(w, "succeeded")
    /\ UNCHANGED <<lock, tokens, checkpoint, rested, overlapped, keyHistory>>

FailUnmarked(w) ==    \* mutant: a failed run does not touch the checkpoint
    /\ At(w, "fail")
    /\ job' = [job EXCEPT ![w].pc = "report", ![w].status = "failed"]
    /\ UNCHANGED <<lock, tokens, checkpoint, rested, overlapped, keyHistory>>

(* _fail: the run is closed as failed, then the checkpoint upserted. *)
Fail(w) ==
    /\ At(w, "fail") /\ Close(w, "failed")
    /\ UNCHANGED <<lock, tokens, checkpoint, rested, overlapped, keyHistory>>

(* The upsert of the checkpoint: last_synced_at = now, the time the run    *)
(* was triggered. A task's is visible at once, a request's when it commits.*)
Mark(w) ==
    /\ At(w, "mark")
    /\ checkpoint' = IF w \in Task THEN job[w].age ELSE checkpoint
    /\ job' = [job EXCEPT ![w].pc = "report", ![w].marked = TRUE]
    /\ UNCHANGED <<lock, tokens, rested, overlapped, keyHistory>>

(* The quality report and the timeline event end the run. *)
Report(w) ==
    /\ At(w, "report")
    /\ job' = [job EXCEPT ![w].pc = "release", ![w].guarded = FALSE]
    /\ UNCHANGED <<lock, tokens, checkpoint, rested, overlapped, keyHistory>>

TimeOutOfFetch(w) ==    \* mutant: only the fetch is bounded in time
    /\ job[w].guarded /\ job[w].left = 0 /\ job[w].pc \in {"record", "fetch"}
    /\ job' = [job EXCEPT ![w].pc = "fail", ![w].guarded = FALSE, ![w].marked = FALSE]
    /\ UNCHANGED <<lock, tokens, checkpoint, rested, overlapped, keyHistory>>

(* wait_for cancels the run wherever it is, the session is rolled back and *)
(* the run closed as failed, outside of any further time limit.            *)
TimeOut(w) ==
    /\ job[w].guarded /\ job[w].left = 0
    /\ job' = [job EXCEPT ![w].pc = "fail", ![w].guarded = FALSE, ![w].marked = FALSE]
    /\ UNCHANGED <<lock, tokens, checkpoint, rested, overlapped, keyHistory>>

-----------------------------------------------------------------------------
(* release(): pop the process's token of the key, GET, compare, and DEL.   *)
Leave(w) == IF w \in Task THEN "idle" ELSE "commit"

ReleaseUnchecked(w) ==    \* mutant: the key is deleted whoever set it
    /\ job[w].pc = "release"
    /\ tokens' = [tokens EXCEPT ![Process(w)] = NoWorker]
    /\ GoTo(w, IF tokens[Process(w)] # NoWorker /\ lock.left > 0 THEN "delete" ELSE Leave(w))
    /\ rested' = IF w \in Task /\ job[w].status \in Closed THEN job[w].age ELSE rested
    /\ UNCHANGED <<lock, checkpoint, overlapped, keyHistory>>

(* The token it pops may be that of a later run of the same process.       *)
ReleaseGet(w) ==
    LET token == tokens[Process(w)]
        passed == token # NoWorker /\ lock.left > 0 /\ lock.holder = token
    IN
    /\ job[w].pc = "release"
    /\ tokens' = [tokens EXCEPT ![Process(w)] = NoWorker]
    /\ GoTo(w, IF passed THEN "delete" ELSE Leave(w))
    /\ rested' = IF w \in Task /\ job[w].status \in Closed THEN job[w].age ELSE rested
    /\ strayed' = IF passed /\ token # w THEN strayed \union {w} ELSE strayed
    /\ UNCHANGED <<lock, checkpoint, overlapped, robbed>>

(* Every other release that has compared the key is about to delete no key *)
(* of its own any more.                                                    *)
ReleaseDel(w) ==
    /\ job[w].pc = "delete"
    /\ lock' = [holder |-> NoWorker, left |-> 0]
    /\ GoTo(w, Leave(w))
    /\ robbed' = IF w \in strayed THEN robbed \union ({lock.holder} \intersect Worker) ELSE robbed
    /\ strayed' = (strayed \union {v \in Worker : job[v].pc = "delete"}) \ {w}
    /\ UNCHANGED <<tokens, checkpoint, rested, overlapped>>

(* The end of a request: get_session commits, or rolls back what an        *)
(* exception left half done.                                               *)
Commit(w) ==
    /\ job[w].pc = "commit"
    /\ checkpoint' = IF job[w].marked THEN job[w].age ELSE checkpoint
    /\ rested' = IF job[w].status \in Closed THEN job[w].age ELSE rested
    /\ job' = [job EXCEPT ![w] = IdleJob]
    /\ UNCHANGED <<lock, tokens, overlapped, keyHistory>>

(* A process dies: its runs and its tokens are gone, the Redis key stays. *)
Crash(p) ==
    /\ Crashing
    /\ job' = [w \in Worker |-> IF w \in p THEN IdleJob ELSE job[w]]
    /\ tokens' = [tokens EXCEPT ![p] = NoWorker]
    /\ strayed' = strayed \ p
    /\ UNCHANGED <<lock, checkpoint, rested, overlapped, robbed>>

Older(age) == IF age < Interval THEN age + 1 ELSE age
Less(left) == IF left > 0 THEN left - 1 ELSE 0

Aged(w) == [job[w] EXCEPT !.age = Older(job[w].age), !.left = Less(job[w].left)]

TickKeepingKeys ==    \* mutant: SET NX without EX
    /\ checkpoint' = Older(checkpoint) /\ rested' = Older(rested)
    /\ job' = [w \in Worker |-> IF job[w].pc = "idle" THEN job[w] ELSE Aged(w)]
    /\ UNCHANGED <<lock, tokens, overlapped, keyHistory>>

(* Time passes: Redis drops the key when its expiry is reached. *)
Tick ==
    /\ lock' = IF lock.left > 1 THEN [lock EXCEPT !.left = lock.left - 1]
               ELSE [holder |-> NoWorker, left |-> 0]
    /\ checkpoint' = Older(checkpoint) /\ rested' = Older(rested)
    /\ job' = [w \in Worker |-> IF job[w].pc = "idle" THEN job[w] ELSE Aged(w)]
    /\ strayed' = IF lock.left > 1 THEN strayed
                  ELSE strayed \union {w \in Worker : job[w].pc = "delete"}
    /\ UNCHANGED <<tokens, overlapped, robbed>>

Run(w) == RecordRun(w) \/ Fetch(w) \/ ProcessRecords(w) \/ Finish(w) \/ Mark(w) \/ Report(w)
Bookkeep(w) == Fail(w) \/ TimeOut(w)
Release(w) == ReleaseGet(w) \/ ReleaseDel(w) \/ Commit(w)

Next ==
    \/ \E w \in Worker :
          \/ \E force \in {Forcing, FALSE} : Begin(w, force)
          \/ Acquire(w) \/ Refused(w) \/ Run(w) \/ Bookkeep(w) \/ Release(w)
    \/ \E p \in Processes : Crash(p)
    \/ Tick

Spec == Init /\ [][Next]_vars

(* Time passes; Redis and the database answer once the run has been        *)
(* cancelled. The steps of the run itself may hang for ever: the provider  *)
(* and the reconciliation owe nobody an answer.                            *)
Fairness ==
    /\ WF_vars(Tick)
    /\ \A w \in Worker :
          /\ WF_vars(Acquire(w) \/ Refused(w))
          /\ WF_vars(Bookkeep(w))
          /\ WF_vars(~job[w].guarded /\ (Mark(w) \/ Report(w)))
          /\ WF_vars(Release(w))
FairSpec == Spec /\ Fairness

-----------------------------------------------------------------------------
(* A run that has the lock and has not reached its time limit. *)
Working(w) == job[w].guarded /\ job[w].left > 0

(* The lock does what it is for: no two runs are working on the scope at   *)
(* the same time, whatever expires, crashes, hangs past its limit or is    *)
(* released late, unless the key of one was deleted by a stray release.    *)
(* There are two ways for a release to stray, and no third: its key is     *)
(* gone between its GET and its DEL, or it has popped the token of a later *)
(* run of its process. What a stray release does is limited to the one run *)
(* it robs, and over with that run.                                        *)
ExclusiveWork ==
    \A v, w \in Worker : Working(v) /\ Working(w) => v = w \/ {v, w} \intersect robbed # {}

(* What redis_lock.py says of a release, that the one race left is a key   *)
(* which expires between the GET and the DEL: the comparison is passed by  *)
(* the run that set the key. False: a run that outlived its lock pops the  *)
(* token of a later run of its process, and passes.                        *)
OwnershipChecked ==
    [][\A w \in Worker :
          job[w].pc = "release" /\ job'[w].pc = "delete" => lock.holder = w]_vars

(* The incremental skip, over the whole life of the scope and as long as   *)
(* its runs do not overlap: no run that is not forced turns to the         *)
(* provider within the interval after the start of another that was        *)
(* closed, as a success or as a failure, whatever crashed in between. It   *)
(* takes the checkpoint of every outcome, the rollback of a run that timed *)
(* out and the late commit of a request.                                   *)
RunsAreSpaced ==
    [][\A w \in Worker :
          job[w].pc = "record" /\ job'[w].pc = "fetch" /\ ~job[w].forced /\ ~overlapped
             => rested = Interval]_vars

(* No hang of a provider or of the reconciliation blocks a worker for      *)
(* ever: whatever it was doing, it comes back for its next task.           *)
RunsEnd == \A w \in Worker : job[w].pc # "idle" ~> job[w].pc = "idle"

(* The scope is never locked for good, not even by a process that died     *)
(* holding the lock.                                                       *)
LockIsFreed == []<>(lock.left = 0)
=============================================================================
