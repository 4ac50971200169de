SPECIFICATION FairSpec
CONSTANTS
    nreaders = 1
    MaxBlk = 2
    MaxAppend = 2
    MaxRequests = 3
    MaxConns = 2
INVARIANT OwedResponses
 
PROPERTY EveryRequestAnswered
PROPERTY ConnectionsEnd
CHECK_DEADLOCK FALSE
