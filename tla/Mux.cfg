SPECIFICATION FairSpec
CONSTANTS
    a = a
    b = b
    Clients = {a, b}
    Listeners = {l1}
    nsock_active_max = 2
    MaxReq <- MCMaxReq
    MaxConnect <- MCMaxConnect
INVARIANT CountsPending
 
INVARIANT Routed
PROPERTY Responded
 
CHECK_DEADLOCK FALSE
