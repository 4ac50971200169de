----------------------------- MODULE BlockStore -----------------------------
(***************************************************************************)
(* What a block store promises (DESIGN, "Block store protocol"): a log of  *)
(* numbered blocks that grows at one end and is freed from the other.      *)
(* LbsStorage implements it; LbsDispatch and the kvlds modules build on it.*)
(***************************************************************************)
EXTENDS Naturals

VARIABLES
    log,        \* block number -> the APPEND that wrote it, from freed on
    next,       \* the number of the next block
    stable,     \* blocks below this number survive a loss of power
    freed,      \* blocks below this number may be gone
    pend        \* the APPEND in progress: [id, n], n = 0 if there is none

blockstore == <<log, next, stable, freed, pend>>

NoAppend == [id |-> 0, n |-> 0]

Init == log = <<>> /\ next = 0 /\ stable = 0 /\ freed = 0 /\ pend = NoAppend

\* The log with the first k blocks of the APPEND in progress.
Grown(k) ==
    [b \in DOMAIN log \cup {c \in next .. next + k - 1 : c >= freed} |->
        IF b < next THEN log[b] ELSE pend.id]

AppendStart(id, n) ==
    /\ pend = NoAppend
    /\ pend' = [id |-> id, n |-> n]
    /\ UNCHANGED <<log, next, stable, freed>>

AppendDone ==
    /\ pend # NoAppend
    /\ log' = Grown(pend.n)
    /\ next' = next + pend.n /\ stable' = next + pend.n
    /\ pend' = NoAppend
    /\ UNCHANGED freed

\* FREE is advisory: the blocks may go at once, later, or never.
Free(b) ==
    /\ b <= next
    /\ freed' = IF b > freed THEN b ELSE freed
    /\ log' = [c \in {d \in DOMAIN log : d >= freed'} |-> log[c]]
    /\ UNCHANGED <<next, stable, pend>>

\* The process dies: the APPEND in progress may have written some of its
\* blocks, and never the last one without all those before it.
Kill ==
    /\ \E k \in 0 .. pend.n :
          stable <= next + k /\ log' = Grown(k) /\ next' = next + k
    /\ pend' = NoAppend
    /\ UNCHANGED <<stable, freed>>

\* Blocks may reach the disk before their APPEND is done.
Settle ==
    /\ stable' \in stable .. next + pend.n
    /\ UNCHANGED <<log, next, freed, pend>>

\* The power is lost: blocks that have not reached the disk may go as well, even
\* if they have been seen since.
PowerLoss ==
    /\ \E last \in stable .. next + pend.n :
          /\ log' = [b \in {c \in DOMAIN Grown(pend.n) : c < last} |-> Grown(pend.n)[b]]
          /\ next' = last /\ stable' = last
    /\ pend' = NoAppend
    /\ UNCHANGED freed

Step(Ids, Sizes) ==
    \/ \E id \in Ids, n \in Sizes : AppendStart(id, n)
    \/ AppendDone
    \/ \E b \in 0 .. next : Free(b)
    \/ Settle
    \/ Kill
    \/ PowerLoss
=============================================================================
