CONSTANTS
    None = None
    MaxSamples = 6
    MaxReferenceTime = 3
    MaxOutliers = 1
    Sizes = {1, 2, 3}
    Ratios = {15, 20, 50}
SPECIFICATION MCSpec
INVARIANTS EvaluatedOnTheFuture FoldsTile PartsPartition
CHECK_DEADLOCK FALSE
