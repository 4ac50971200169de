--------------------------- MODULE MCLbsDynamodb ----------------------------
(* LbsDynamodb for model checking: what two processes go through.          *)
EXTENDS LbsDynamodb, TLC

CONSTANTS p1, p2

Does(d1, d2) == (p1 :> d1) @@ (p2 :> d2)

\* A second process takes over while the first one is at work.
Takeover ==
    [opt_1 |-> {}, does |-> Does({"start", "append", "free"}, {"start", "append", "free"}),
     maxblk |-> 3, get |-> 0, drop |-> 0, retry |-> 0]

\* The same when the first one may die, and a request is made again.
TakeoverRetry ==
    [opt_1 |-> {}, does |-> Does({"start", "append", "free", "crash"},
                                 {"start", "append", "free"}),
     maxblk |-> 2, get |-> 0, drop |-> 0, retry |-> 1]

\* The second process reads what the first one wrote.
TakeoverRead ==
    [opt_1 |-> {}, does |-> Does({"start", "append", "free", "crash"},
                                 {"start", "append", "get"}),
     maxblk |-> 2, get |-> 1, drop |-> 0, retry |-> 0]

\* One process, whose client comes back twice.
Reconnect ==
    [opt_1 |-> {}, does |-> Does({"start", "append", "free", "get", "drop"}, {}),
     maxblk |-> 3, get |-> 2, drop |-> 2, retry |-> 0]

\* One process that stops when its client goes.
Stop ==
    [opt_1 |-> {p1}, does |-> Does({"start", "append", "free", "drop"}, {}),
     maxblk |-> 5, get |-> 0, drop |-> 1, retry |-> 1]

MCRuns == {Takeover, TakeoverRetry, TakeoverRead, Reconnect, Stop}
=============================================================================
