---------------------------- MODULE DatasetSplit ----------------------------
(***************************************************************************)
(* From a dataset to a trained and an evaluated model: the strategies of   *)
(* dataset_splitter and what TrainingPipelineService.train makes of them.  *)
(*                                                                         *)
(* Samples are numbered in the order the dataset holds them, which is the  *)
(* database's and says nothing of time. What a sample is but for its       *)
(* reference_time is left out, and so are the models: a fit is the set of  *)
(* samples it is given. A tuple of samples is the set of them, once cut.   *)
(* The dataset is approved; windows, steps and splits are positive, and    *)
(* ratios are percentages, for which the code's floats round the same way. *)
(***************************************************************************)
EXTENDS Integers, Sequences, FiniteSets

CONSTANTS None,
          MaxSamples, MaxReferenceTime, MaxOutliers, Sizes, Ratios    \* bounds

ASSUME DatasetAssumption == MaxSamples \in Nat /\ MaxReferenceTime \in Nat /\ MaxOutliers \in Nat
ASSUME SizesAssumption == Sizes \subseteq Nat \ {0} /\ Ratios \subseteq 1..99
ASSUME NoneAssumption == None \notin Nat

Temporal == {"holdout", "rolling_window", "walk_forward", "time_series_split"}
Shuffled == {"train_test", "train_val_test"}
(* `size` and `step`: window_size and test_size, min_train_size and step, or *)
(* n_splits (no step); `ratio`: of what is held out, for test and validation. *)
Request == [strategy : {"rolling_window", "walk_forward"}, size : Sizes, step : Sizes, ratio : {1}]
    \union [strategy : {"time_series_split"}, size : Sizes, step : {1}, ratio : {1}]
    \union [strategy : {"holdout"} \union Shuffled, size : {1}, step : {1}, ratio : Ratios]

VARIABLES
    time,       \* the reference_time of every sample of the dataset
    request,    \* the strategy asked for, with its arguments
    kept,       \* the samples that are not outliers
    split,      \* DatasetSplit
    fitted, evaluated,    \* the samples the model was fitted, evaluated on
    stage
splitVars == <<time, request, kept, split, fitted, evaluated, stage>>

Sample == DOMAIN time
NoSplit == [train |-> {}, validation |-> {}, test |-> {}, folds |-> <<>>]

SplitInit ==
    /\ \E n \in 1..MaxSamples : time \in [1..n -> 1..MaxReferenceTime \union {None}]
    /\ request \in Request
    /\ kept = {} /\ split = NoSplit /\ fitted = {} /\ evaluated = {}
    /\ stage = "built"

-----------------------------------------------------------------------------
AtLeast(a, b) == IF a > b THEN a ELSE b
AtMost(a, b) == IF a < b THEN a ELSE b

(* samples[i:j] of a sequence *)
Slice(samples, i, j) == {samples[k] : k \in (i + 1)..AtMost(j, Len(samples))}

DatasetOrder(samples) ==    \* mutant: the order of the dataset is taken for chronological
    [k \in 1..Cardinality(samples) |->
        CHOOSE i \in samples : Cardinality({j \in samples : j < i}) = k - 1]

(* Sorted by reference_time, samples of one time in the dataset's order. *)
Chronological(samples) ==
    LET Before(j, i) == time[j] < time[i] \/ (time[j] = time[i] /\ j < i)
    IN  [k \in 1..Cardinality(samples) |->
            CHOOSE i \in samples : Cardinality({j \in samples : Before(j, i)}) = k - 1]

CutOf(n, ratio) == (n * (100 - ratio)) \div 100    \* mutant: may leave nothing to train on

(* max(1, int(n * (1 - ratio))) *)
Cut(n, ratio) == AtLeast(1, (n * (100 - ratio)) \div 100)

Fold(samples, i, j, k) == [train |-> Slice(samples, i, j), test |-> Slice(samples, j, k)]

(* How often a fold's test fits: `while start + size <= n`, start += size. *)
Fits(samples, start, size) == 1..((Len(samples) - start) \div size)

OverlappingWindow(samples, window, size) ==    \* mutant: windows advance by one
    [k \in 1..(Len(samples) - window - size + 1) |->
        Fold(samples, k - 1, k - 1 + window, k - 1 + window + size)]

RollingWindow(samples, window, size) ==
    [k \in Fits(samples, window, size) |->
        Fold(samples, size * (k - 1), window + size * (k - 1), window + size * k)]

WalkForward(samples, min, step) ==
    [k \in Fits(samples, min, step) |->
        Fold(samples, 0, min + step * (k - 1), min + step * k)]

(* The folds are empty if there are too few samples for one each. *)
TimeSeriesSplit(samples, splits) ==
    LET size == Len(samples) \div (splits + 1)
    IN  IF size < 1 THEN <<>>
        ELSE [i \in 1..splits |-> Fold(samples, 0, size * i, size * (i + 1))]

Folds(samples) ==
    CASE request.strategy = "rolling_window" -> RollingWindow(samples, request.size, request.step)
      [] request.strategy = "walk_forward" -> WalkForward(samples, request.size, request.step)
      [] request.strategy = "time_series_split" -> TimeSeriesSplit(samples, request.size)
      [] OTHER -> <<>>

-----------------------------------------------------------------------------
(* Samples that stand out are dropped before the split. *)
RemoveOutliers ==
    /\ stage = "built"
    /\ \E outliers \in SUBSET Sample :
           /\ Cardinality(outliers) <= MaxOutliers
           /\ kept' = Sample \ outliers
    /\ stage' = "preprocessed"
    /\ UNCHANGED <<time, request, split, fitted, evaluated>>

(* Otherwise InsufficientSamplesForSplitError or MissingTemporalReferenceError. *)
CanSplit ==
    /\ Cardinality(kept) >= 2
    /\ request.strategy \in Temporal => \A i \in kept : time[i] # None
    /\ request.strategy \in Temporal \ {"holdout"} => Folds(Chronological(kept)) # <<>>

Refuse ==
    /\ stage = "preprocessed" /\ ~CanSplit
    /\ stage' = "failed"
    /\ UNCHANGED <<time, request, kept, split, fitted, evaluated>>

(* A seeded shuffle: any two or three parts of the right sizes. *)
SplitShuffled ==
    LET n == Cardinality(kept)
        testCut == Cut(n, request.ratio)
        trainCut == IF request.strategy = "train_test" THEN testCut ELSE Cut(testCut, request.ratio)
    IN  /\ stage = "preprocessed" /\ CanSplit /\ request.strategy \in Shuffled
        /\ \E train, test \in SUBSET kept :
               /\ Cardinality(train) = trainCut /\ Cardinality(test) = n - testCut
               /\ train \intersect test = {}
               /\ split' = [NoSplit EXCEPT !.train = train, !.test = test,
                                           !.validation = kept \ (train \union test)]
        /\ stage' = "split"
        /\ UNCHANGED <<time, request, kept, fitted, evaluated>>

SplitHoldout ==
    LET samples == Chronological(kept)
        cut == Cut(Len(samples), request.ratio)
    IN  /\ stage = "preprocessed" /\ CanSplit /\ request.strategy = "holdout"
        /\ split' = [NoSplit EXCEPT !.train = Slice(samples, 0, cut),
                                    !.test = Slice(samples, cut, Len(samples))]
        /\ stage' = "split"
        /\ UNCHANGED <<time, request, kept, fitted, evaluated>>

(* The train part of a split into folds is everything. *)
SplitFolds ==
    /\ stage = "preprocessed" /\ CanSplit /\ request.strategy \in Temporal \ {"holdout"}
    /\ split' = [NoSplit EXCEPT !.train = kept, !.folds = Folds(Chronological(kept))]
    /\ stage' = "split"
    /\ UNCHANGED <<time, request, kept, fitted, evaluated>>

LastFold == split.folds[Len(split.folds)]

(* A model is fitted on the last fold, the most recent one, if there is any. *)
Fit ==
    /\ stage = "split"
    /\ fitted' = IF split.folds = <<>> THEN split.train ELSE LastFold.train
    /\ stage' = "fitted"
    /\ UNCHANGED <<time, request, kept, split, evaluated>>

(* Evaluated on the validation part for want of a test part. *)
Evaluate ==
    /\ stage = "fitted"
    /\ evaluated' = CASE split.folds # <<>> -> LastFold.test
                      [] split.folds = <<>> /\ split.test # {} -> split.test
                      [] OTHER -> split.validation
    /\ stage' = "done"
    /\ UNCHANGED <<time, request, kept, split, fitted>>

SplitNext ==
    \/ RemoveOutliers \/ Refuse \/ SplitShuffled \/ SplitHoldout \/ SplitFolds \/ Fit \/ Evaluate

SplitSpec == SplitInit /\ [][SplitNext]_splitVars

-----------------------------------------------------------------------------
(* However the dataset was ordered and whatever was dropped from it, a model *)
(* trained for a temporal strategy is evaluated on samples it was not given, *)
(* none of which is earlier than one it was given, and which are as recent   *)
(* as any that a fold tests.                                                 *)
EvaluatedOnTheFuture ==
    stage = "done" /\ request.strategy \in Temporal =>
        /\ fitted # {} /\ evaluated # {} /\ fitted \intersect evaluated = {}
        /\ \A i \in fitted \union evaluated : time[i] # None
        /\ \A i \in fitted, j \in evaluated : time[i] <= time[j]
        /\ \A k \in DOMAIN split.folds : \A i \in split.folds[k].test, j \in evaluated :
               i \in evaluated \/ time[i] <= time[j]

(* The folds tile a stretch of the dataset: no sample is tested twice, and   *)
(* each fold is trained on what lies right before its test, a rolling window *)
(* of it or all of it. Untested are the samples before the first test, and   *)
(* the newest ones that are left over: fewer than a test takes where the     *)
(* tests are given their size, but the remainder of the division for a       *)
(* time_series_split, up to n_splits samples however small its tests are.    *)
FoldsTile ==
    LET Tested == UNION {split.folds[k].test : k \in DOMAIN split.folds}
        Before(i, j) == time[i] < time[j] \/ (time[i] = time[j] /\ i < j)
        Rank(i) == Cardinality({j \in kept : Before(j, i)})
        Earlier(k) == {i \in kept : \A j \in split.folds[k].test : Before(i, j)}
        Size == IF request.strategy = "time_series_split"
                THEN Cardinality(kept) \div (request.size + 1) ELSE request.step
        Rest == {i \in kept : \A j \in Tested : Before(j, i)}
    IN  split.folds # <<>> =>
            /\ \A k \in DOMAIN split.folds :
                   /\ Cardinality(split.folds[k].test) = Size
                   /\ split.folds[k].train =
                          IF request.strategy # "rolling_window" THEN Earlier(k)
                          ELSE {i \in Earlier(k) :
                                   Rank(i) >= Cardinality(Earlier(k)) - request.size}
                   /\ split.folds[k].train # {}
            /\ Cardinality(Tested) = Size * Len(split.folds)
            /\ Tested \union Rest \union Earlier(1) = kept
            /\ IF request.strategy = "time_series_split"
               THEN Cardinality(Rest) = Cardinality(kept) % (request.size + 1)
               ELSE Cardinality(Rest) < request.step

(* A split into parts loses no sample and has none twice, and leaves          *)
(* something to train on and something to test, from two samples on.          *)
PartsPartition ==
    stage \in {"split", "fitted", "done"} /\ split.folds = <<>> =>
        /\ split.train \union split.validation \union split.test = kept
        /\ Cardinality(split.train) + Cardinality(split.validation) + Cardinality(split.test)
               = Cardinality(kept)
        /\ split.train # {} /\ split.test # {}
=============================================================================
