SPECIFICATION FairSpec
CONSTANTS
    MAXREQS = 3
    NmrPages <- MCNmrPages
    NmrConcurrency = 2
    MaxBatch = 2
    MinBatch = 2
    MaxSent = 6
    MayClean = TRUE
INVARIANT Owed
INVARIANT NothingForgotten
PROPERTY Answered
CHECK_DEADLOCK FALSE
