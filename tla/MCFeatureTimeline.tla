------------------------- MODULE MCFeatureTimeline -------------------------
(* Model checking of FeatureTimeline: a match and, a day later, one or two   *)
(* more. The cast of a behaviour is the workers with one session for the     *)
(* tasks started by hand and two matches, or two such sessions with three.   *)
(* Predictions and training never read what the other wrote, so they are in  *)
(* play one at a time: two workers while there is a prediction, a worker and *)
(* a task by hand while there is an anchor.                                  *)
EXTENDS FeatureTimeline, TLC

CONSTANTS f1, f2, f3
MCKickoff == [f \in Fixture |-> IF f = f1 THEN 1 ELSE 2]
Symmetry == Permutations(Worker) \union Permutations(Maintainer) \union Permutations({f2, f3})

VARIABLE cast   \* who is busy and which matches are played in this behaviour

Casts == [sessions : {Worker \union {r} : r \in Maintainer}, fixtures : {{f1, f2}, {f1, f3}}]
           \union [sessions : {Maintainer}, fixtures : {Fixture}]

MCInit == Init /\ cast \in Casts
MCNext ==
    /\ Next /\ UNCHANGED cast
    /\ recorded' \subseteq cast.fixtures
    /\ \A s \in Session : job'[s] # IdleJob => s \in cast.sessions /\ job'[s].of \subseteq cast.fixtures
MCSpec == MCInit /\ [][MCNext]_<<vars, cast>>

(* Bounds. Anchors need the goals of their matches and nothing else.         *)
Active == {s \in Session : job[s].pc # "idle"}
Predicting == served # {} \/ \E s \in Session : job[s].op \in {"sweep", "request"}
Training == anchors # {} \/ \E s \in Session : job[s].op \in {"anchors", "refresh"}
InPlay ==
    IF cast.sessions = Maintainer THEN \A v \in values : v.feature = "goals"
    ELSE /\ ~(Predicting /\ Training)
         /\ Predicting => Cardinality(values) <= 2
         /\ Cardinality(Active) + Cardinality(values) <= 4
         /\ Cardinality(Active) <= 2
         /\ Training => Cardinality(Active \intersect Worker) <= 1
=============================================================================
