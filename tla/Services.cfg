CONSTANTS
    Byte = 5
    MAXLEN = 3
    ValueMax = 2
    WBUFLEN = 12
    RBUFLEN = 10
    SocketSize = 60
    BLKSPEROBJECT = 2
    MarkerPeriod = 2
    Stored = {0, 6}
    Sizes = {2}
    MaxAppends = 2
    MaxKills = 1
    MaxGets = 1
    LatePuts = FALSE
    reqsip_max = 2
    Endpoints = {e1, e2}
    MaxFails = 1
    MaxExpiries = 2
    BurstSeconds = 1
    MaxBurst = 200
    FullBucket = 300
    Capacities = {1}
    UnitCosts = {2}
    OtherOps = {"GETC", "DELETE"}
    MaxFaults = 1
    MaxReads = 2
    MaxReqs = 3
    MaxConns = 2
    KvMaxConns = 1
    Addresses = {a1, a2, a3}
    MAXHDR = 6
    MAXCHLEN = 3
    WaitMax = 3
    res_bodylen_max = 5
INIT Init
NEXT Next
INVARIANT Understood
INVARIANT ReadFits
INVARIANT NothingLost
INVARIANT BlocksKept
INVARIANT DeletesRecorded
INVARIANT S3Requests
INVARIANT RetriesIdempotent
INVARIANT QueuesSound
 
 
