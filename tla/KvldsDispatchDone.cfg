SPECIFICATION Spec
CONSTANTS
    MAXREQS = 3
    NmrPages <- MCNmrPages
    NmrConcurrency = 2
    MaxBatch = 2
    MinBatch = 2
    MaxSent = 2
    MayClean = TRUE
INVARIANT DoneMeansIdle
CHECK_DEADLOCK FALSE
