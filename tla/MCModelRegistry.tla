-------------------------- MODULE MCModelRegistry --------------------------
(* Model checking of ModelRegistry.  Models and sessions are interchangeable *)
(* and a behaviour runs in one of two modes: jobs that overlap, at a time    *)
(* that stands still, or jobs that come one after the other while time       *)
(* passes.                                                                   *)
EXTENDS ModelRegistry, TLC

VARIABLE mode

Busy == {s \in Session : job[s].pc # "idle"}

Allowed == \/ mode = "overlapping" /\ clock = 0
           \/ mode = "serial" /\ \A s, t \in Busy : s = t

MCInit == Init /\ mode \in {"overlapping", "serial"}
MCNext == UNCHANGED mode /\ Next /\ Allowed'
MCSpec == MCInit /\ [][MCNext]_<<vars, mode>>

Symmetry == Permutations(Model) \cup Permutations(Session)

(* When requests and tasks do not overlap, every model follows the lifecycle *)
(* of ModelStatus, a rollback being the only way back from RETIRED.          *)
LifecycleOrder == [][mode = "serial" => InOrder]_<<vars, mode>>

(* When requests and tasks do not overlap, a confirmed integrity violation   *)
(* stays recorded: no write of the row resets PROVENANCE_COMPROMISED, neither *)
(* its retirement nor its reinstatement.                                     *)
CompromiseIsPermanent ==
    [][mode = "serial" =>
         \A m \in Model : models[m].compromised => models'[m].compromised]_<<vars, mode>>
=============================================================================
