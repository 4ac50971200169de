SPECIFICATION Spec
CONSTANTS
    BLKSPEROBJECT = 2
    MarkerPeriod = 2
    Stored = {1}
    Sizes = {2}
    MaxAppends = 2
    MaxKills = 2
    MaxConns = 3
    MaxGets = 0
    LatePuts = TRUE
INVARIANT OnePut
