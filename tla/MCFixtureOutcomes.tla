------------------------- MODULE MCFixtureOutcomes -------------------------
(* Model checking of FixtureOutcomes, in one of two modes: two workers whose *)
(* syncs of live and completed matches overlap, and one worker with a        *)
(* supplementary source, a second prediction and everything that may befall  *)
(* a match. In the first a match that is reported live again has one result. *)
EXTENDS FixtureOutcomes

CONSTANTS w1, p1, s1

VARIABLE mode

AllKinds == {Fixtures, Completed, Supplementary}
Crew == IF mode = "overlapping" THEN Worker ELSE {w1}
InUse == IF mode = "overlapping" THEN {Fixtures, Completed} ELSE Kinds

Allowed ==
    /\ \A w \in Worker : job[w].pc # "idle" => w \in Crew /\ job[w].kind \in InUse
    /\ mode = "overlapping" =>
          /\ published \subseteq {p1}
          /\ truth.status \notin {"postponed", "cancelled"}
          /\ provisional # {} => crashes = 0 /\ finals = {s1}

MCInit == Init /\ mode \in {"overlapping", "alone"}
MCNext == Next /\ UNCHANGED mode /\ Allowed'

(* The fairness of the specification, of the syncs there are in the mode.   *)
MCFairness ==
    /\ \A w \in Worker : WF_vars(Step(w))
    /\ \A kind \in Kinds : SF_vars(kind \in InUse /\ \E w \in Crew : Fetch(w, kind))
MCSpec == MCInit /\ [][MCNext]_<<vars, mode>> /\ MCFairness
=============================================================================
