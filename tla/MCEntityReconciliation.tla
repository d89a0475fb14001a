----------------------- MODULE MCEntityReconciliation -----------------------
(* Model checking of EntityReconciliation. One club goes by one name, the    *)
(* other is called differently in files; two matches of one pairing are two  *)
(* days apart at least. A `mode` is chosen at the start and never changes:   *)
(* "tidy" (one job at a time, none fails, and nobody merges while one runs)  *)
(* or "busy" (everything).                                                   *)
EXTENDS EntityReconciliation, TLC

CONSTANTS A, B, m1, m2

MCHome == [m \in Match |-> A]
MCAway == [m \in Match |-> B]
MCDays == [m \in Match |-> IF m = m1 THEN {1, 2} ELSE {4}]
MCName == [s \in {"api", "file"} |-> [c \in Club |->
              IF c = A THEN "a" ELSE IF s = "api" THEN "b" ELSE "b fc"]]

Symmetry == Permutations(Worker)

VARIABLE mode
MCInit == Init /\ mode \in {"tidy", "busy"}
Busy(s) == job[s].pc # "idle"
Tidy ==
    /\ \A s, t \in Session : Busy(s)' /\ Busy(t)' => s = t
    /\ (\E s \in Session : Busy(s)) => gone' \subseteq gone
MCNext ==
    /\ \/ \E w \in Worker : Sync(w)
       \/ Office
       \/ mode = "busy" /\ \E s \in Session : Abort(s)
    /\ mode = "tidy" => Tidy
    /\ UNCHANGED mode
MCSpec == MCInit /\ [][MCNext]_<<vars, mode>>

InPlay == {job[s].of : s \in Session} \union {fixture[i].match : i \in Fixtures}
Modes == CASE mode = "tidy" -> Cardinality(Fixtures) <= 2 \/ m2 \notin InPlay
           [] mode = "busy" -> /\ Cardinality({s \in Session : Busy(s)}) <= 2
                               /\ Cardinality(Fixtures) <= 1 /\ Cardinality(gone) <= 1
                               /\ m2 \notin InPlay /\ \A s \in Session : job[s].day <= 1

(* The rows made for a club, for a match. *)
RowsOf(c) == {i \in Teams : team[i].club = c}
RowsOfMatch(m) == {i \in Fixtures : fixture[i].match = m}

(* "a fixture api-football already created gets updated rather than          *)
(* duplicated": once the default provider's id of a match, or of a club that *)
(* goes by one name, has been indexed and there is one row of it (and of the *)
(* clubs of the match), no second one is ever made by jobs one after the     *)
(* other, whatever source they are from and whatever merges come between.    *)
Single(ids) == Cardinality(ids) = 1
OneRowStaysOne ==
    [][mode = "tidy" =>
          /\ ref["api"][A] # None /\ Single(RowsOf(A)) => Single(RowsOf(A)')
          /\ \A m \in Match :
                /\ ref["api"][m] # None /\ Single(RowsOfMatch(m))
                /\ \A c \in {Home[m], Away[m]} : Single(RowsOf(c)) /\ Single(RowsOf(c)')
                => Single(RowsOfMatch(m)')]_vars

(* Where jobs run one after the other no entry of the index is left behind   *)
(* for a team the merge script deleted, so that the next sync of the club    *)
(* does not make it a second row.                                            *)
TidyIndex ==
    mode = "tidy" => \A s \in Source, c \in Club : ref[s][c] \in Teams \union {None}
=============================================================================
