----------------------- MODULE MCPredictionLifecycle -----------------------
(* Model checking of PredictionLifecycle.  Predictions and sessions are      *)
(* interchangeable.  A behaviour runs in one of three modes: jobs of any     *)
(* kind that overlap; requests and reviews, one after the other; requests    *)
(* and sweeps, one after the other, without reviews.                         *)
EXTENDS PredictionLifecycle, TLC

CONSTANT OverlapClock   \* bound on the clock when jobs overlap

ASSUME OverlapAssumption == OverlapClock <= MaxClock

VARIABLE mode

Busy == {s \in Session : job[s].pc # "idle"}
OneBusy == \A s, t \in Busy : s = t

Allowed == \/ mode = "overlapping" /\ clock <= OverlapClock
           \/ mode = "reviewed" /\ OneBusy /\ \A s \in Session : ~job[s].sweep
           \/ mode = "swept" /\ OneBusy /\ \A s \in Session : job[s].pc # "review"

MCInit == Init /\ mode \in {"overlapping", "reviewed", "swept"}
MCNext == UNCHANGED mode /\ Next /\ Allowed'
MCSpec == MCInit /\ [][MCNext]_<<vars, mode>>

Symmetry == Permutations(Prediction) \cup Permutations(Session)

(* One request at a time: what supersedes a version is newer than it, also   *)
(* after administrators have approved and rejected versions.                 *)
NewerSupersedes == mode = "reviewed" => SupersededForNewer

(* One request at a time: a rejected prediction is never published or        *)
(* superseded again by the generations and reviews that follow.              *)
VoidedIsFinal == [][mode = "reviewed" => VoidedStays]_<<vars, mode>>

(* "at most one PUBLISHED prediction per subject+market at a time": as long  *)
(* as nobody reviews and jobs come one after the other, killed sweeps        *)
(* included.                                                                 *)
OnePublishedAtATime == mode = "swept" => AtMostOnePublished

(* The same of requests and reviews one after the other, with no overlap and *)
(* no sweep: false, since approve accepts a superseded version.              *)
OnePublishedUnderReview == mode = "reviewed" => AtMostOnePublished
=============================================================================
