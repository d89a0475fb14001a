--------------------------- MODULE MCDatasetSplit ---------------------------
(* Model checking of DatasetSplit: for the temporal strategies every dataset *)
(* of up to six samples at one of three times each, or with none where they  *)
(* are up to three; a shuffle never looks at the times.                      *)
EXTENDS DatasetSplit

MCInit ==
    /\ SplitInit
    /\ IF request.strategy \in Shuffled THEN \A i \in Sample : time[i] = None
       ELSE Cardinality(Sample) > 3 => \A i \in Sample : time[i] # None
MCSpec == MCInit /\ [][SplitNext]_splitVars
=============================================================================
