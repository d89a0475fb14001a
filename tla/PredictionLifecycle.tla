------------------------ MODULE PredictionLifecycle ------------------------
(***************************************************************************)
(* PredictionCacheService: the versions of the prediction of ONE subject   *)
(* and market, their statuses and their audit rows.                        *)
(*                                                                         *)
(* Requests generate, regenerate, approve and reject, each in one READ     *)
(* COMMITTED transaction: it reads committed rows and its own writes       *)
(* become visible together.  The scheduled sweep reads the clock when it   *)
(* starts, reaches this subject later, and works on an autocommit session: *)
(* each of its writes is visible at once.  No two jobs read the same       *)
(* microsecond, so a job that reads the clock moves it on.                 *)
(***************************************************************************)
EXTENDS Integers

CONSTANTS
    Prediction,     \* ids of the predictions that may be generated
    Session,        \* requests and sweeps that may run at the same time
    NoPrediction,   \* stands for None
    Ttl,            \* cache_ttl_seconds
    MaxClock        \* bound on the clock

ASSUME PredictionAssumption == NoPrediction \notin Prediction
ASSUME TimeAssumption == Ttl \in Nat /\ MaxClock \in Nat

VARIABLES
    predictions,   \* the prediction rows
    audits,        \* the predictions with a GENERATED audit row
    job,           \* what each session is doing
    clock          \* wall-clock time

vars == <<predictions, audits, job, clock>>

-----------------------------------------------------------------------------

Time == 0..MaxClock
Status == {"draft", "published", "superseded", "voided"}

Row == [status : Status \cup {"none"}, generated_at : Time]

(* A job: its step, the time it read, and the status it is about to give   *)
(* to a prediction; a generation also has the version it supersedes.       *)
PC == {"idle", "due", "generate", "commit", "supersede", "record", "audit", "review"}

Job == [pc : PC, sweep : BOOLEAN, now : Time, prediction : Prediction \cup {NoPrediction},
        status : Status, previous : Prediction \cup {NoPrediction}]

IdleJob == [pc |-> "idle", sweep |-> FALSE, now |-> 0, prediction |-> NoPrediction,
            status |-> "draft", previous |-> NoPrediction]

Recorded == {p \in Prediction : predictions[p].status # "none"}

Published == {p \in Prediction : predictions[p].status = "published"}

(* get_latest_for_subject, as a set of at most one row.                    *)
Latest == {p \in Recorded : \A q \in Recorded :
              predictions[q].generated_at <= predictions[p].generated_at}

(* The latest version is young enough at this time to be returned as it    *)
(* is, whatever its status.                                                *)
Cached(now) == \E p \in Latest : now - predictions[p].generated_at \in 0..Ttl

(* An id nobody uses yet (uuid4).                                          *)
Fresh(p) == p \notin Recorded /\ \A s \in Session : job[s].prediction # p

Init == /\ predictions = [p \in Prediction |-> [status |-> "none", generated_at |-> 0]]
        /\ audits = {}
        /\ job = [s \in Session |-> IdleJob]
        /\ clock = 0

Begin(s, r) == /\ job[s].pc = "idle"
               /\ job' = [job EXCEPT ![s] = r]

End(s) == job' = [job EXCEPT ![s] = IdleJob]

ReadClock == clock < MaxClock /\ clock' = clock + 1

(*********************** get_or_generate, regenerate ***********************)

(* A request: only an administrator's regenerate passes a fresh version by.*)
StartGeneration(s, forced) ==
    /\ forced \/ ~Cached(clock)
    /\ Begin(s, [IdleJob EXCEPT !.pc = "generate", !.now = clock])
    /\ ReadClock
    /\ UNCHANGED <<predictions, audits>>

(* The sweep: other subjects come first.                                   *)
StartSweep(s) ==
    /\ Begin(s, [IdleJob EXCEPT !.pc = "due", !.sweep = TRUE, !.now = clock])
    /\ ReadClock
    /\ UNCHANGED <<predictions, audits>>

(* The sweep reaches this subject, with the time it read when it started.  *)
ReachSubject(s) ==
    /\ job[s].pc = "due"
    /\ IF Cached(job[s].now) THEN End(s) ELSE job' = [job EXCEPT ![s].pc = "generate"]
    /\ UNCHANGED <<predictions, audits, clock>>

(* Mutant: the old version is superseded at once, in a transaction of its  *)
(* own.                                                                    *)
GenerateLate(s, p) ==
    /\ job[s].pc = "generate"
    /\ Fresh(p)
    /\ predictions' = [q \in Prediction |->
          IF q \in Latest \cap Published THEN [predictions[q] EXCEPT !.status = "superseded"]
          ELSE predictions[q]]
    /\ job' = [job EXCEPT ![s].pc = IF job[s].sweep THEN "record" ELSE "commit",
                          ![s].prediction = p]
    /\ UNCHANGED <<audits, clock>>

(* Mutant: the previous version is not looked up.                          *)
GenerateForgetful(s, p) ==
    /\ job[s].pc = "generate"
    /\ Fresh(p)
    /\ \E status \in {"draft", "published"} :
         job' = [job EXCEPT ![s].pc = IF job[s].sweep THEN "record" ELSE "commit",
                            ![s].prediction = p, ![s].status = status]
    /\ UNCHANGED <<predictions, audits, clock>>

(* The engine has computed prediction p, confident enough to be published  *)
(* or not; the latest version is looked up again, to be superseded if it   *)
(* is published.                                                           *)
Generate(s, p) ==
    /\ job[s].pc = "generate"
    /\ Fresh(p)
    /\ \E status \in {"draft", "published"},
          old \in IF Latest \cap Published = {} THEN {NoPrediction} ELSE Latest \cap Published :
         LET pc == IF ~job[s].sweep THEN "commit"
                   ELSE IF old = NoPrediction THEN "record" ELSE "supersede"
         IN  job' = [job EXCEPT ![s].pc = pc, ![s].prediction = p,
                                ![s].status = status, ![s].previous = old]
    /\ UNCHANGED <<predictions, audits, clock>>

(* Mutant: a new version is the old one, recomputed, with the old date.    *)
NewRowCopied(s) ==
    [status |-> job[s].status,
     generated_at |-> IF job[s].previous = NoPrediction THEN job[s].now
                      ELSE predictions[job[s].previous].generated_at]

NewRow(s) == [status |-> job[s].status, generated_at |-> job[s].now]

WithSuperseded(p) == IF p = NoPrediction THEN predictions
                     ELSE [predictions EXCEPT ![p].status = "superseded"]

(* The sweep's writes, one by one.                                         *)
Supersede(s) ==
    /\ job[s].pc = "supersede"
    /\ predictions' = WithSuperseded(job[s].previous)
    /\ job' = [job EXCEPT ![s].pc = "record"]
    /\ UNCHANGED <<audits, clock>>

Record(s) ==
    /\ job[s].pc = "record"
    /\ predictions' = [predictions EXCEPT ![job[s].prediction] = NewRow(s)]
    /\ job' = [job EXCEPT ![s].pc = "audit"]
    /\ UNCHANGED <<audits, clock>>

Audit(s) ==
    /\ job[s].pc = "audit"
    /\ audits' = audits \cup {job[s].prediction}
    /\ End(s)
    /\ UNCHANGED <<predictions, clock>>

(* The request's writes, together.                                         *)
Commit(s) ==
    /\ job[s].pc = "commit"
    /\ predictions' = [WithSuperseded(job[s].previous) EXCEPT ![job[s].prediction] = NewRow(s)]
    /\ audits' = audits \cup {job[s].prediction}
    /\ End(s)
    /\ UNCHANGED clock

(***************************** approve, reject *****************************)

(* Mutant: approve looks at no status.                                     *)
ReviewableAlways(status, verdict) ==
    \/ verdict = "published" /\ status # "none"
    \/ verdict = "voided" /\ status = "draft"

(* The status a review may start from.                                     *)
Reviewable(status, verdict) ==
    \/ verdict = "published" /\ status \in {"draft", "superseded"}
    \/ verdict = "voided" /\ status = "draft"

Review(s, p, verdict) ==
    /\ Reviewable(predictions[p].status, verdict)
    /\ Begin(s, [IdleJob EXCEPT !.pc = "review", !.prediction = p, !.status = verdict])
    /\ UNCHANGED <<predictions, audits, clock>>

CommitReview(s) ==
    /\ job[s].pc = "review"
    /\ predictions' = [predictions EXCEPT ![job[s].prediction].status = job[s].status]
    /\ End(s)
    /\ UNCHANGED <<audits, clock>>

(***************************************************************************)

(* A request that fails rolls back; a sweep that is killed, or that skips  *)
(* this subject after an error, keeps what it has written so far.          *)
Abort(s) == /\ job[s].pc # "idle"
            /\ End(s)
            /\ UNCHANGED <<predictions, audits, clock>>

Tick == ReadClock /\ UNCHANGED <<predictions, audits, job>>

Next == \/ \E s \in Session :
             \/ \E forced \in BOOLEAN : StartGeneration(s, forced)
             \/ StartSweep(s) \/ ReachSubject(s)
             \/ \E p \in Prediction : \/ Generate(s, p)
                                      \/ Review(s, p, "published")
                                      \/ Review(s, p, "voided")
             \/ Supersede(s) \/ Record(s) \/ Audit(s) \/ Commit(s)
             \/ CommitReview(s) \/ Abort(s)
        \/ Tick

Spec == Init /\ [][Next]_vars

-----------------------------------------------------------------------------

(* Type correctness; and every prediction is dated before now.             *)
TypeOK == /\ predictions \in [Prediction -> Row]
          /\ audits \subseteq Prediction
          /\ job \in [Session -> Job]
          /\ clock \in Time
          /\ \A p \in Recorded : predictions[p].generated_at < clock

(* A version is taken out of service only together with the arrival of     *)
(* another one, so a failed generation leaves the old one served; only a   *)
(* sweep takes it out first and may then be killed.                        *)
SupersededOnArrival ==
    [][\A p \in Prediction :
          predictions[p].status # "superseded" /\ predictions'[p].status = "superseded"
          => \/ Recorded' \ Recorded # {}
             \/ \E s \in Session : job[s].pc = "supersede" /\ job'[s].pc = "record"]_vars

(* What supersedes a version is newer than it.  Holds for one request at a *)
(* time.                                                                   *)
SupersededForNewer ==
    \A p \in Prediction : predictions[p].status = "superseded" =>
        \E q \in Recorded : predictions[q].generated_at > predictions[p].generated_at

(* A rejected prediction stays rejected.                                   *)
VoidedStays == \A p \in Prediction : predictions[p].status = "voided"
                                       => predictions'[p].status = "voided"

(* "at most one PUBLISHED prediction per subject+market at a time", as     *)
(* PredictionCacheService says of itself.  Of the whole system it is       *)
(* false: two overlapping generations supersede the same version, and a    *)
(* review approves a superseded one beside its successor.                  *)
AtMostOnePublished == \A p, q \in Published : p = q

(* "no generated prediction leaves this service without" an audit row: each *)
(* recorded prediction has one, or its sweep stands before writing it.      *)
(* False of the sweep, which writes in autocommit and may end there.        *)
EveryPredictionAudited ==
    \A p \in Recorded \ audits : \E s \in Session : job[s].pc = "audit" /\ job[s].prediction = p
=============================================================================
