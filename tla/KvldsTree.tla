----------------------------- MODULE KvldsTree ------------------------------
(***************************************************************************)
(* The log-structured B+Tree of kvlds and the requests that work on it:    *)
(* batches of modifying requests (dispatch_mr.c), GET and RANGE requests   *)
(* (dispatch_nmr.c), writing the dirty nodes out (btree_sync.c), fetching  *)
(* and evicting nodes (btree_node.c), and start-up and the FREE timer      *)
(* (btree.c), over a BlockStore that may crash.                            *)
(*                                                                         *)
(* The tree is a root and the leaves 1 .. NLeaves.  The model follows a few*)
(* of its keys, and each stays in its leaf: the splits and merges of       *)
(* btree_balance.c are kept as the fetching and dirtying of more leaves.   *)
(*                                                                         *)
(* Callbacks run from the two queues of immediate events that kvlds uses,  *)
(* and a network or timer event is handled only when both are empty.       *)
(***************************************************************************)
EXTENDS Integers, Sequences, FiniteSets, FiniteSetsExt

CONSTANTS
    NLeaves,        \* number of leaves
    Keys, Vals, NoVal,
    leafOf,         \* the leaf a key belongs to
    Slots,          \* bound: GET and RANGE requests in progress at once
    MaxBlk,         \* bound: block numbers stay below MaxBlk
    Runs            \* what a behaviour has in it: a set of records (see MCKvldsTree)

Leaves == 1 .. NLeaves

ASSUME KvldsTreeAssumption ==
    /\ NLeaves \in Nat \ {0} /\ leafOf \in [Keys -> Leaves]
    /\ Vals \subseteq Nat /\ NoVal \in Nat \ Vals
    /\ MaxBlk \in Nat
    /\ \A r \in Runs :
          /\ \A q \in r.requests :        \* the modifying requests there are
                /\ q.type \in {"SET", "CAS", "ADD", "MODIFY", "DELETE", "CAD"}
                /\ q.key \in Keys /\ q.oval \in Vals /\ q.value \in Vals
          /\ r.maxbatch \in Nat           \* requests in a batch
          /\ r.reads \in BOOLEAN          \* are there GETs and RANGEs?
          /\ r.merging \in BOOLEAN        \* may balancing need more leaves?
          /\ r.cleaning \in BOOLEAN       \* is the background cleaner on (-S)?
          /\ r.kinds \subseteq {"kvlds", "lbs", "power"}     \* what may die
          /\ r.left \in Nat               \* how many times it may

VARIABLES
    log, next, stable, freed, pend,     \* the BlockStore
    content,    \* the pages sent to it, by block number
    up,         \* is kvlds running?
    nextblk,    \* T->nextblk
    node,       \* struct node of each leaf; a leaf has at most two
    shadow,     \* which of them is in the tree under T->root_shadow
    dirty,      \* which of them is in the tree under T->root_dirty
    readers,    \* the callbacks waiting for a node that is being read
    imm,        \* the immediate events of priority 0 and 1
    net,        \* in the loop of readpackets ("lbs") or of gotrequest ("client")
    batch,      \* struct batch
    nmr,        \* struct nmr_cookie of each GET or RANGE request
    groups,     \* the cleaner's list of struct cleaning_group
    frees,      \* FREE requests on their way
    answers,    \* ghost: the answers to the last batch
    run         \* one of Runs; run.left counts down

Store == INSTANCE BlockStore
store == <<log, next, stable, freed, pend>>
tree == <<nextblk, node, shadow, dirty>>
vars == <<store, content, up, tree, readers, imm, net, batch, nmr,
          groups, frees, answers, run>>

Nodes == Leaves \X {0, 1}
KeysOf(l) == {k \in Keys : leafOf[k] = l}
NoData == <<>>

NoNode == [state |-> "gone", type |-> "NP", page |-> -1, kv |-> NoData, oncl |-> FALSE]
NewNode(page) == [NoNode EXCEPT !.state = "CLEAN", !.page = page, !.oncl = TRUE]
NoBatch == [phase |-> "none", reqs |-> <<>>, left |-> 0, merge |-> {}, opdone |-> <<>>]
NoRead == [type |-> "none", got |-> NoData, left |-> {}, poss |-> {}]

ShadowNode(l) == <<l, shadow[l]>>
DirtyNode(l) == <<l, dirty[l]>>
Present(n) == node[n].type = "LEAF"

NoEvents == [p0 |-> <<>>, p1 |-> <<>>]
Event(cb, i, n) == [cb |-> cb, i |-> i, n |-> n]
Plain(cb) == <<Event(cb, 0, <<0, 0>>)>>

LeafPage(kv) == [root |-> FALSE, kv |-> kv]
RootPage(child) == [root |-> TRUE, child |-> child]

-----------------------------------------------------------------------------
(***************************************************************************)
(* btree_init: scan backwards for the newest root page, and hang a child   *)
(* that is not present under it for every leaf.                            *)
(***************************************************************************)
Roots == {b \in DOMAIN log : content[b].root}

LoadTree(child) ==
    /\ node' = [n \in Nodes |-> IF n[2] = 0 THEN NewNode(child[n[1]]) ELSE NoNode]
    /\ shadow' = [l \in Leaves |-> 0]
    /\ dirty' = [l \in Leaves |-> 0]

Recover ==
    /\ ~up /\ Roots # {}
    /\ up' = TRUE
    /\ nextblk' = next
    /\ LoadTree(content[Max(Roots)].child)
    /\ UNCHANGED <<store, content, readers, imm, net, batch, nmr, groups, frees,
                   answers, run>>

\* A tree in which no key of interest has a value, just loaded.
Init ==
    LET empty == [l \in Leaves |-> [k \in KeysOf(l) |-> NoVal]] IN
    /\ log = [b \in 0 .. NLeaves |-> 1]
    /\ next = NLeaves + 1 /\ stable = next /\ freed = 0 /\ pend = Store!NoAppend
    /\ content = [b \in 0 .. NLeaves |->
          IF b < NLeaves THEN LeafPage(empty[b + 1])
          ELSE RootPage([l \in Leaves |-> l - 1])]
    /\ up = TRUE /\ nextblk = next
    /\ node = [n \in Nodes |-> IF n[2] = 0 THEN NewNode(n[1] - 1) ELSE NoNode]
    /\ shadow = [l \in Leaves |-> 0] /\ dirty = [l \in Leaves |-> 0]
    /\ readers = [n \in Nodes |-> <<>>]
    /\ imm = NoEvents /\ net = "none"
    /\ batch = NoBatch /\ nmr = [i \in Slots |-> NoRead] /\ groups = {} /\ frees = {}
    /\ answers = <<>> /\ run \in Runs

-----------------------------------------------------------------------------
(***************************************************************************)
(* The event loop and the fetching of nodes.                               *)
(***************************************************************************)
\* A network or timer event can be handled.
Idle == up /\ net = "none" /\ imm = NoEvents

Handling0(cb) == up /\ net = "none" /\ imm.p0 # <<>> /\ Head(imm.p0).cb = cb
Handling1(cb) ==
    up /\ net = "none" /\ imm.p0 = <<>> /\ imm.p1 # <<>> /\ Head(imm.p1).cb = cb

\* The event at the head of its queue is done, and has registered more events.
Done0(new0, new1) == imm' = [p0 |-> Tail(imm.p0) \o new0, p1 |-> imm.p1 \o new1]
Done1(new0, new1) == imm' = [p0 |-> new0, p1 |-> Tail(imm.p1) \o new1]

InOrder(ls) == SelectSeq([l \in Leaves |-> l], LAMBDA l : l \in ls)

\* btree_node_fetch: of the nodes, read those in ns that are not being read yet,
\* and leave the callbacks waiting[n] for each.
Fetch(nodes, ns, waiting) ==
    /\ node' = [n \in Nodes |-> IF n \in ns THEN [nodes[n] EXCEPT !.type = "READ"] ELSE nodes[n]]
    /\ readers' = [n \in Nodes |-> IF n \in ns THEN readers[n] \o waiting[n] ELSE readers[n]]

\* callback_fetch: the block store has answered a GET.
CallbackFetch(n) ==
    /\ Idle \/ (up /\ net = "lbs")
    /\ node[n].type = "READ" /\ node[n].page \in DOMAIN log
    /\ node' = [node EXCEPT ![n].type = "LEAF", ![n].kv = content[node[n].page].kv]
    /\ imm' = [imm EXCEPT !.p0 = @ \o readers[n]]
    /\ readers' = [readers EXCEPT ![n] = <<>>]
    /\ net' = "lbs"
    /\ UNCHANGED <<store, content, up, nextblk, shadow, dirty, batch, nmr, groups, frees,
                   answers, run>>

\* readpackets or gotrequest has no more packets to look at.
PacketsDone ==
    /\ up /\ net # "none" /\ net' = "none"
    /\ UNCHANGED <<store, content, up, tree, readers, imm, batch, nmr, groups, frees,
                   answers, run>>

\* Node locks (b), (c), (e) and (f) of node.h.
Locked(n) ==
    \/ node[n].state # "CLEAN" \/ node[n].type = "READ" \/ \E g \in groups : n \in g.ready
    \/ \E j \in DOMAIN imm.p0 : imm.p0[j].n = n
    \/ batch.phase = "leaves" /\ \E j \in DOMAIN batch.reqs :
          n = DirtyNode(leafOf[batch.reqs[j].key])
    \/ batch.phase = "merge" /\ n[1] \in batch.merge /\ n = DirtyNode(n[1])

\* makepresent, for a node elsewhere in the tree: the pool evicts this one.
Evict(n) ==
    /\ up /\ Present(n) /\ ~Locked(n)
    /\ node' = [node EXCEPT ![n].type = "NP", ![n].kv = NoData]
    /\ UNCHANGED <<store, content, up, nextblk, shadow, dirty, readers, imm, net,
                   batch, nmr, groups, frees, answers, run>>

-----------------------------------------------------------------------------
(***************************************************************************)
(* dispatch_nmr.c.  poss collects, for the properties, the databases that  *)
(* have been current since the request was launched.                       *)
(***************************************************************************)
\* What a key has whose leaf is not in the block store.
Lost == -1

TreeAt(child) ==
    [k \in Keys |->
        LET b == child[leafOf[k]] IN
        IF b \in DOMAIN log /\ ~content[b].root /\ k \in DOMAIN content[b].kv
        THEN content[b].kv[k] ELSE Lost]

Current == TreeAt([l \in Leaves |-> node[ShadowNode(l)].page])

\* Mutant of LaunchNmr: the leaves are looked for under root_dirty.
LaunchNmrDirty(i, type, ls, q0) ==
    LET here == {l \in ls : Present(DirtyNode(l))}
        cb == IF type = "GET" THEN "get" ELSE "range"
        ev(l) == Event(cb, i, DirtyNode(l))
        atonce == type = "GET" /\ here = ls
    IN
    /\ nmr' = [nmr EXCEPT ![i] =
          [type |-> type, left |-> IF atonce THEN {} ELSE ls, poss |-> {Current},
           got |-> IF atonce THEN [l \in ls |-> node[DirtyNode(l)].kv] ELSE NoData]]
    /\ imm' = [imm EXCEPT !.p0 = q0 \o
          (IF atonce THEN <<Event("nmr_done", i, <<0, 0>>)>>
           ELSE [j \in DOMAIN InOrder(here) |-> ev(InOrder(here)[j])])]
    /\ LET ns == {DirtyNode(l) : l \in ls \ here} IN
       Fetch(node, ns, [n \in ns |-> <<ev(n[1])>>])

\* dispatch_nmr_launch, with q0 the events of priority 0 there are: a GET whose
\* leaf is present is answered at once.
LaunchNmr(i, type, ls, q0) ==
    LET here == {l \in ls : Present(ShadowNode(l))}
        cb == IF type = "GET" THEN "get" ELSE "range"
        ev(l) == Event(cb, i, ShadowNode(l))
        atonce == type = "GET" /\ here = ls
    IN
    /\ nmr' = [nmr EXCEPT ![i] =
          [type |-> type, left |-> IF atonce THEN {} ELSE ls, poss |-> {Current},
           got |-> IF atonce THEN [l \in ls |-> node[ShadowNode(l)].kv] ELSE NoData]]
    /\ imm' = [imm EXCEPT !.p0 = q0 \o
          (IF atonce THEN <<Event("nmr_done", i, <<0, 0>>)>>
           ELSE [j \in DOMAIN InOrder(here) |-> ev(InOrder(here)[j])])]
    /\ LET ns == {ShadowNode(l) : l \in ls \ here} IN
       Fetch(node, ns, [n \in ns |-> <<ev(n[1])>>])

FreeSlot(i) == nmr[i].type = "none" /\ \A j \in Slots : j < i => nmr[j].type # "none"

Nmrs ==
    {<<"GET", {l}>> : l \in Leaves}
        \cup {<<"RANGE", ls>> : ls \in {a .. b : a \in Leaves, b \in Leaves} \ {{}}}

\* gotrequest, poke_nmr: a request arrives and is launched.
GotNmr(i, r) ==
    /\ Idle \/ (up /\ net = "client")
    /\ FreeSlot(i)
    /\ LaunchNmr(i, r[1], r[2], imm.p0)
    /\ net' = "client"
    /\ UNCHANGED <<store, content, up, nextblk, shadow, dirty, batch, groups, frees,
                   answers, run>>

\* callback_get_gotleaf, callback_range_gotleaf: copy from the leaf, and after
\* the last one send the response.
GotLeafNmr(cb) ==
    /\ Handling0(cb)
    /\ LET e == Head(imm.p0)
           l == e.n[1]
           left == nmr[e.i].left \ {l} IN
       /\ nmr' = [nmr EXCEPT ![e.i].left = left,
             ![e.i].got = [m \in DOMAIN @ \cup {l} |-> IF m = l THEN node[e.n].kv ELSE @[m]]]
       /\ Done0(IF left = {} THEN <<Event("nmr_done", e.i, <<0, 0>>)>> ELSE <<>>, <<>>)
    /\ UNCHANGED <<store, content, up, tree, readers, net, batch, groups, frees, answers, run>>

\* callback_nmr_done: a request in the queue may now be launched.
NmrDone ==
    /\ Handling0("nmr_done")
    /\ nmr' = [nmr EXCEPT ![Head(imm.p0).i] = NoRead]
    /\ Done0(<<>>, <<>>)
    /\ UNCHANGED <<store, content, up, tree, readers, net, batch, groups, frees, answers, run>>

NmrDoneLaunch(r) ==
    /\ Handling0("nmr_done")
    /\ LaunchNmr(Head(imm.p0).i, r[1], r[2], Tail(imm.p0))
    /\ UNCHANGED <<store, content, up, nextblk, shadow, dirty, net, batch, groups, frees,
                   answers, run>>

-----------------------------------------------------------------------------
(***************************************************************************)
(* dispatch_mr.c                                                           *)
(***************************************************************************)
Batches == UNION {[1 .. n -> run.requests] : n \in 1 .. run.maxbatch}
           \cup (IF run.cleaning THEN {<<>>} ELSE {})

\* btree_cleaning_possible
CleaningPossible == \E g \in groups : g.fetch = {}

\* dispatch_mr_launch, with q0 the events of priority 0 there are: find the
\* leaf of every request in the dirty tree.
LaunchMr(reqs, q0) ==
    LET nodeOf(j) == DirtyNode(leafOf[reqs[j].key])
        absent == {j \in DOMAIN reqs : ~Present(nodeOf(j))}
        ns == {nodeOf(j) : j \in absent}
    IN
    /\ nextblk + NLeaves < MaxBlk
    /\ batch' = [NoBatch EXCEPT !.phase = "leaves", !.reqs = reqs,
                                !.left = Cardinality(absent)]
    /\ Fetch(node, ns, [n \in ns |-> [j \in 1 .. Cardinality({i \in absent : nodeOf(i) = n}) |->
                                 Event("mr", 0, n)]])
    /\ imm' = [p0 |-> q0, p1 |-> IF absent = {} THEN Plain("gotleaves") ELSE <<>>]

\* gotrequest or a timer, and poke_mr: a batch is launched.  callback_mrc_timer
\* launches a batch without requests if there is something to clean.
GotMrs(reqs) ==
    /\ Idle \/ (up /\ net = "client")
    /\ batch = NoBatch
    /\ reqs = <<>> => Idle /\ CleaningPossible
    /\ LaunchMr(reqs, imm.p0)
    /\ net' = IF reqs = <<>> THEN net ELSE "client"
    /\ UNCHANGED <<store, content, up, nextblk, shadow, dirty, nmr, groups, frees,
                   answers, run>>

\* callback_gotleaf
GotLeafMr ==
    /\ Handling0("mr")
    /\ batch' = [batch EXCEPT !.left = @ - 1]
    /\ Done0(<<>>, IF batch.left = 1 THEN Plain("gotleaves") ELSE <<>>)
    /\ UNCHANGED <<store, content, up, tree, readers, net, nmr, groups, frees, answers, run>>

\* batch_dirty: does the request have an effect on a leaf where its key has the
\* value v?
HasEffect(r, v) ==
    CASE r.type = "SET" -> TRUE
      [] r.type = "ADD" -> v = NoVal
      [] r.type \in {"MODIFY", "DELETE"} -> v # NoVal
      [] r.type \in {"CAS", "CAD"} -> v # NoVal /\ r.oval = v

ReqLeaf(r) == leafOf[r.key]

\* The leaves batch_dirty makes dirty: those some request has an effect on, as
\* the leaf was when the batch began.
Effective ==
    {ReqLeaf(batch.reqs[j]) : j \in {i \in DOMAIN batch.reqs :
        LET r == batch.reqs[i] IN HasEffect(r, node[DirtyNode(ReqLeaf(r))].kv[r.key])}}

\* btree_cleaning_clean: those that the cleaner holds.
Cleanable == {l \in Leaves : \E g \in groups : g.fetch = {} /\ DirtyNode(l) \in g.ready}

\* btree_cleaning_notify_dirtying, free_cstate: the groups after the nodes ns have
\* been dirtied; a group that loses its last node goes.
AfterDirtying(ns) ==
    {[g EXCEPT !.ready = @ \ ns] :
        g \in {h \in groups : h.ready = {} \/ h.fetch # {} \/ ~(h.ready \subseteq ns)}}

\* batch_run on the leaves ls, which are mutable: the requests in order, with
\* what the keys map to and which requests have done something.
BatchRun(ls) ==
    LET reqs == batch.reqs
        after[i \in 0 .. Len(reqs)] ==
          IF i = 0
          THEN [kv |-> [k \in {k \in Keys : leafOf[k] \in ls} |-> node[DirtyNode(leafOf[k])].kv[k]],
                opdone |-> <<>>]
          ELSE LET r == reqs[i]
                   was == after[i - 1]
                   op == ReqLeaf(r) \in ls /\ HasEffect(r, was.kv[r.key])
                   val == IF r.type \in {"DELETE", "CAD"} THEN NoVal ELSE r.value
               IN [kv |-> IF op THEN [was.kv EXCEPT ![r.key] = val] ELSE was.kv,
                   opdone |-> Append(was.opdone, op)]
    IN after[Len(reqs)]

\* btree_node_dirty for the leaves ls: each gets a dirty node, which maps its keys
\* as kv does, and the node it had becomes a shadow.
Dirtied(ls, kv) ==
    [n \in Nodes |->
        IF n[1] \notin ls THEN node[n]
        ELSE IF n = DirtyNode(n[1])
             THEN [node[n] EXCEPT !.state = "SHADOW"]
             ELSE [NoNode EXCEPT !.state = "DIRTY", !.type = "LEAF",
                                 !.kv = [k \in KeysOf(n[1]) |-> kv[k]]]]

Flipped(ls) == [l \in Leaves |-> IF l \in ls THEN 1 - dirty[l] ELSE dirty[l]]

KvOf(ls) == [k \in {k \in Keys : leafOf[k] \in ls} |-> node[DirtyNode(leafOf[k])].kv[k]]

\* callback_gotleaves when nothing is to be dirtied: on to the responses.
GotLeavesNothing ==
    /\ Handling1("gotleaves")
    /\ Effective \cup Cleanable = {}
    /\ batch' = [batch EXCEPT !.phase = "synced", !.opdone = BatchRun({}).opdone]
    /\ Done1(Plain("synced"), <<>>)
    /\ UNCHANGED <<store, content, up, tree, readers, net, nmr, groups, frees, answers, run>>

\* callback_gotleaves: dirty the leaves, perform the requests, and plan the
\* merges, for which more leaves (m) may have to be fetched.
GotLeaves(m) ==
    /\ Handling1("gotleaves")
    /\ LET ls == Effective \cup Cleanable
           did == BatchRun(Effective)
           kv == KvOf(ls)
           ns == {DirtyNode(l) : l \in {l \in m : ~Present(DirtyNode(l))}}
       IN
       /\ ls # {} /\ m \cap ls = {}
       /\ dirty' = Flipped(ls)
       /\ groups' = AfterDirtying({DirtyNode(l) : l \in ls})
       /\ Fetch(Dirtied(ls, [k \in DOMAIN kv |-> IF k \in DOMAIN did.kv THEN did.kv[k] ELSE kv[k]]),
                ns, [n \in ns |-> <<Event("merge", 0, n)>>])
       /\ batch' = [batch EXCEPT !.phase = "merge", !.merge = m, !.left = Cardinality(ns),
                                 !.opdone = did.opdone]
       /\ Done1(<<>>, IF ns = {} THEN Plain("domerge") ELSE <<>>)
    /\ UNCHANGED <<store, content, up, nextblk, shadow, net, nmr, frees, answers, run>>

\* Mutant of MergeFetch: the count is tested before it is decreased.
MergeFetchLate ==
    /\ Handling0("merge")
    /\ batch' = [batch EXCEPT !.left = @ - 1]
    /\ Done0(<<>>, IF batch.left = 0 THEN Plain("domerge") ELSE <<>>)
    /\ UNCHANGED <<store, content, up, tree, readers, net, nmr, groups, frees, answers, run>>

\* merge_fetch
MergeFetch ==
    /\ Handling0("merge")
    /\ batch' = [batch EXCEPT !.left = @ - 1]
    /\ Done0(<<>>, IF batch.left = 1 THEN Plain("domerge") ELSE <<>>)
    /\ UNCHANGED <<store, content, up, tree, readers, net, nmr, groups, frees, answers, run>>

\* domerge: the leaves that take part in a merge become dirty.
DoMerge ==
    /\ Handling1("domerge")
    /\ node' = Dirtied(batch.merge, KvOf(batch.merge))
    /\ dirty' = Flipped(batch.merge)
    /\ groups' = AfterDirtying({DirtyNode(l) : l \in batch.merge})
    /\ batch' = [batch EXCEPT !.merge = {}]
    /\ Done1(Plain("balanced"), <<>>)
    /\ UNCHANGED <<store, content, up, nextblk, shadow, readers, net, nmr, frees,
                   answers, run>>

-----------------------------------------------------------------------------
(***************************************************************************)
(* btree_sync.c                                                            *)
(***************************************************************************)
DirtyLeaves == {l \in Leaves : node[DirtyNode(l)].state = "DIRTY"}

\* Mutant of SerialOrder: a node gets its number before its children.
SerialOrderRootFirst == <<0>> \o InOrder(DirtyLeaves)

\* serializetree: the order in which dirty nodes get their page numbers, the
\* children of a node before the node itself (0 is the root).
SerialOrder == Append(InOrder(DirtyLeaves), 0)

\* callback_balanced, btree_sync: number and serialize the dirty nodes, and send
\* them in one APPEND.
BtreeSync ==
    /\ Handling0("balanced")
    /\ LET order == SerialOrder
           pn(l) == nextblk + (CHOOSE i \in DOMAIN order : order[i] = l) - 1
           child == [l \in Leaves |-> IF l \in DirtyLeaves THEN pn(l) ELSE node[DirtyNode(l)].page]
           page(l) == IF l = 0 THEN RootPage(child) ELSE LeafPage(node[DirtyNode(l)].kv)
       IN
       /\ node' = [n \in Nodes |->
             IF n[1] \in DirtyLeaves /\ n = DirtyNode(n[1])
             THEN [node[n] EXCEPT !.page = child[n[1]]] ELSE node[n]]
       /\ content' = [b \in 0 .. nextblk + Len(order) - 1 |->
             IF b < nextblk THEN content[b] ELSE page(order[b - nextblk + 1])]
       /\ Store!AppendStart(1, Len(order))
    /\ batch' = [batch EXCEPT !.phase = "append"]
    /\ Done0(<<>>, <<>>)
    /\ UNCHANGED <<up, nextblk, shadow, dirty, readers, net, nmr, groups, frees, answers, run>>

\* callback_append: the APPEND has been answered; makeclean.
CallbackAppend ==
    /\ Idle \/ (up /\ net = "lbs")
    /\ batch.phase = "append" /\ pend = Store!NoAppend
    /\ nextblk' = next
    /\ node' = [n \in Nodes |->
          IF node[n].state = "DIRTY" THEN [node[n] EXCEPT !.state = "CLEAN", !.oncl = TRUE]
          ELSE node[n]]
    /\ batch' = [batch EXCEPT !.phase = "unshadow"]
    /\ imm' = [imm EXCEPT !.p1 = @ \o Plain("unshadow")]
    /\ net' = "lbs"
    /\ UNCHANGED <<store, content, up, shadow, dirty, readers, nmr, groups, frees, answers, run>>

\* Mutant of Unshadow: it does not let the events of priority 0 go first.
UnshadowSoon ==
    /\ up /\ net = "none" /\ imm.p1 = Plain("unshadow")
    /\ shadow' = dirty
    /\ node' = [n \in Nodes |-> IF node[n].state = "SHADOW" THEN NoNode ELSE node[n]]
    /\ nmr' = [i \in Slots |-> IF nmr[i].left = {} THEN nmr[i] ELSE
          [nmr[i] EXCEPT !.poss = @ \cup {TreeAt([l \in Leaves |-> node[DirtyNode(l)].page])}]]
    /\ batch' = [batch EXCEPT !.phase = "synced"]
    /\ imm' = [p0 |-> imm.p0 \o Plain("synced"), p1 |-> <<>>]
    /\ UNCHANGED <<store, content, up, nextblk, dirty, readers, net, groups, frees, answers, run>>

\* callback_unshadow: the dirty tree takes the place of the shadow tree, whose
\* own nodes are freed.
Unshadow ==
    /\ Handling1("unshadow")
    /\ shadow' = dirty
    /\ node' = [n \in Nodes |-> IF node[n].state = "SHADOW" THEN NoNode ELSE node[n]]
    /\ nmr' = [i \in Slots |-> IF nmr[i].left = {} THEN nmr[i] ELSE
          [nmr[i] EXCEPT !.poss = @ \cup {TreeAt([l \in Leaves |-> node[DirtyNode(l)].page])}]]
    /\ batch' = [batch EXCEPT !.phase = "synced"]
    /\ Done1(Plain("synced"), <<>>)
    /\ UNCHANGED <<store, content, up, nextblk, dirty, readers, net, groups, frees, answers, run>>

\* callback_synced: send the responses.
Synced ==
    /\ Handling0("synced")
    /\ answers' = IF batch.reqs = <<>> THEN answers ELSE batch.opdone
    /\ batch' = [NoBatch EXCEPT !.phase = "done"]
    /\ Done0(Plain("mr_done"), <<>>)
    /\ UNCHANGED <<store, content, up, tree, readers, net, nmr, groups, frees, run>>

\* callback_mr_done: the next batch may be launched.
MrDone ==
    /\ Handling0("mr_done")
    /\ batch' = NoBatch
    /\ Done0(<<>>, <<>>)
    /\ UNCHANGED <<store, content, up, tree, readers, net, nmr, groups, frees, answers, run>>

MrDoneLaunch(reqs) ==
    /\ Handling0("mr_done")
    /\ LaunchMr(reqs, Tail(imm.p0))
    /\ UNCHANGED <<store, content, up, nextblk, shadow, dirty, net, nmr, groups, frees,
                   answers, run>>

-----------------------------------------------------------------------------
(***************************************************************************)
(* btree.c, btree_cleaning.c, the block store, and crashes.                *)
(***************************************************************************)
\* Mutant of OldestLeaf: the leaf of the dirty tree.
OldestLeafDirty == Min({node[DirtyNode(l)].page : l \in Leaves})

\* root_shadow->oldestleaf
OldestLeaf == Min({node[ShadowNode(l)].page : l \in Leaves})

\* callback_gc
CallbackGc ==
    /\ Idle
    /\ frees' = frees \cup {OldestLeaf}
    /\ UNCHANGED <<store, content, up, tree, readers, imm, net, batch, nmr, groups, answers, run>>

\* tick, poke, callback_find: the cleaner takes the leaves of the shadow tree that
\* are old and not taken yet, and descends into each.
OldLeaves ==
    {l \in Leaves : LET n == node[ShadowNode(l)] IN
        n.oncl /\ n.page < nextblk - (NLeaves + 1) \div 2}

CallbackFind ==
    LET here == InOrder({l \in OldLeaves : Present(ShadowNode(l))})
        absent == {ShadowNode(l) : l \in {m \in OldLeaves : ~Present(ShadowNode(m))}}
        all == {ShadowNode(l) : l \in OldLeaves} IN
    /\ run.cleaning /\ Idle /\ OldLeaves # {}
    /\ groups' = groups \cup {[fetch |-> all, ready |-> {}]}
    /\ Fetch([n \in Nodes |-> [node[n] EXCEPT !.oncl = @ /\ n \notin all]], absent,
             [n \in absent |-> <<Event("clean", 0, n)>>])
    /\ imm' = [imm EXCEPT !.p0 = [j \in DOMAIN here |-> Event("clean", 0, ShadowNode(here[j]))]]
    /\ UNCHANGED <<store, content, up, nextblk, shadow, dirty, net, batch, nmr, frees,
                   answers, run>>

\* callback_clean: a leaf that has been modified is left alone.
CallbackClean ==
    /\ Handling0("clean")
    /\ LET n == Head(imm.p0).n
           got(g) == [fetch |-> g.fetch \ {n},
                      ready |-> IF node[n].state = "CLEAN" THEN g.ready \cup {n} ELSE g.ready] IN
       groups' = {IF n \in g.fetch THEN got(g) ELSE g : g \in groups}
    /\ Done0(<<>>, <<>>)
    /\ UNCHANGED <<store, content, up, tree, readers, net, batch, nmr, frees, answers, run>>

\* The block store works on the requests it has.
LbsAppend ==
    /\ Store!AppendDone
    /\ UNCHANGED <<content, up, tree, readers, imm, net, batch, nmr, groups, frees, answers, run>>

LbsFree(b) ==
    /\ b \in frees /\ frees' = frees \ {b}
    /\ Store!Free(b)
    /\ UNCHANGED <<content, up, tree, readers, imm, net, batch, nmr, groups, answers, run>>

\* kvlds dies, and what it had in memory with it.
Down ==
    /\ up /\ run.left > 0
    /\ up' = FALSE /\ run' = [run EXCEPT !.left = @ - 1]
    /\ nextblk' = 0 /\ node' = [n \in Nodes |-> NoNode]
    /\ shadow' = [l \in Leaves |-> 0] /\ dirty' = [l \in Leaves |-> 0]
    /\ readers' = [n \in Nodes |-> <<>>] /\ imm' = NoEvents /\ net' = "none"
    /\ batch' = NoBatch /\ nmr' = [i \in Slots |-> NoRead]
    /\ groups' = {} /\ frees' = {}
    /\ UNCHANGED <<content, answers>>

\* Only kvlds dies: the block store finishes an APPEND it has received before
\* it accepts the next connection.
KvldsKill ==
    /\ "kvlds" \in run.kinds /\ Down
    /\ \/ Store!AppendDone
       \/ pend' = Store!NoAppend /\ UNCHANGED <<log, next, stable, freed>>

\* The block store dies; kvlds exits when its requests fail.
LbsKill == "lbs" \in run.kinds /\ Down /\ Store!Kill

PowerLoss == "power" \in run.kinds /\ Down /\ Store!PowerLoss

-----------------------------------------------------------------------------
Responses == CallbackAppend \/ \E n \in Nodes : CallbackFetch(n)

Callbacks ==
    \/ PacketsDone
    \/ GotLeafNmr("get") \/ GotLeafNmr("range") \/ NmrDone
    \/ GotLeafMr \/ GotLeavesNothing
    \/ \E m \in IF run.merging THEN SUBSET Leaves ELSE {{}} : GotLeaves(m)
    \/ MergeFetch \/ DoMerge \/ BtreeSync \/ Unshadow \/ Synced \/ MrDone
    \/ CallbackClean

Launches ==
    \/ run.reads /\ \E i \in Slots, r \in Nmrs : GotNmr(i, r)
    \/ \E r \in Nmrs : NmrDoneLaunch(r)
    \/ \E reqs \in Batches : GotMrs(reqs) \/ MrDoneLaunch(reqs)

Next ==
    \/ Callbacks
    \/ Responses
    \/ Launches
    \/ CallbackGc
    \/ CallbackFind
    \/ \E n \in Nodes : Evict(n)
    \/ LbsAppend
    \/ \E b \in frees : LbsFree(b)
    \/ KvldsKill \/ LbsKill \/ PowerLoss
    \/ Recover

Spec == Init /\ [][Next]_vars

\* The event loop runs the immediate events there are, and gets round to every
\* socket that is ready; the block store performs its requests; and the queues
\* of requests, which only network events add to, run empty.
FairSpec ==
    /\ Spec
    /\ WF_vars(Callbacks) /\ WF_vars(LbsAppend)
    /\ SF_vars(CallbackAppend) /\ \A n \in Nodes : SF_vars(CallbackFetch(n))
    /\ SF_vars(NmrDone) /\ SF_vars(MrDone)

-----------------------------------------------------------------------------
(***************************************************************************)
(* Properties                                                              *)
(***************************************************************************)
\* The types of the variables: struct node, struct batch, struct nmr_cookie.
TypeOK ==
    /\ up \in BOOLEAN /\ net \in {"none", "lbs", "client"} /\ nextblk \in Nat
    /\ \A n \in Nodes :
          /\ node[n].state \in {"CLEAN", "SHADOW", "DIRTY", "gone"}
          /\ node[n].type \in {"NP", "READ", "LEAF"}
          /\ node[n].page \in Nat \cup {-1}
          /\ node[n].oncl \in BOOLEAN
    /\ shadow \in [Leaves -> {0, 1}] /\ dirty \in [Leaves -> {0, 1}]
    /\ batch.phase \in {"none", "leaves", "merge", "append", "unshadow", "synced", "done"}
    /\ batch.reqs \in Batches \cup {<<>>} /\ batch.left \in Nat
    /\ \A g \in groups : g.fetch \subseteq Nodes /\ g.ready \subseteq Nodes
    /\ frees \subseteq Nat /\ run.left \in Nat

\* Every callback that waits for a node has a node to wait for.
NoDangling ==
    /\ \A j \in DOMAIN imm.p0 :
          imm.p0[j].n \in Nodes => Present(imm.p0[j].n) /\ node[imm.p0[j].n].state # "gone"
    /\ \A n \in Nodes : readers[n] # <<>> => node[n].type = "READ"

\* node.h's invariants on nodes and their parents, for a tree in the middle of
\* any batch: a node in both trees is clean, a node in one is the shadow or the
\* dirty version of the other, and a clean or shadow node in memory is what the
\* block store has under its page number.  No callback is waiting for a node that
\* has been freed (callback_append, "Make sure no callbacks are pending on the
\* shadow tree before we garbage collect it").
TreeInvariants ==
    /\ TypeOK
    /\ NoDangling
    /\ up => \A l \in Leaves :
           LET s == node[ShadowNode(l)]
               d == node[DirtyNode(l)] IN
           /\ s.state = IF shadow[l] = dirty[l] THEN "CLEAN" ELSE "SHADOW"
           /\ shadow[l] # dirty[l] =>
                 d.state = IF batch.phase = "unshadow" THEN "CLEAN" ELSE "DIRTY"
           /\ batch.phase \in {"none", "leaves", "synced", "done"} => shadow[l] = dirty[l]
           /\ s.type = "LEAF" => s.kv = content[s.page].kv

\* callback_gc frees what is older than the oldest leaf: whatever is in progress,
\* the pages that btree_init would need if everything died now are still there,
\* and so is every page that a node not in memory would be fetched from.
PagesKept ==
    /\ Roots # {} /\ \A l \in Leaves : content[Max(Roots)].child[l] \in DOMAIN log
    /\ up => \A n \in Nodes :
          node[n].state \in {"CLEAN", "SHADOW"} => node[n].page \in DOMAIN log

\* A GET or RANGE response shows the database as it was at one moment between
\* the launch of the request and the response, although batches are written out
\* while some of the leaves are being fetched.
ReadsAtomic ==
    \A i \in Slots :
        nmr[i].type # "none" /\ nmr[i].left = {} =>
            \E d \in nmr[i].poss : \A l \in DOMAIN nmr[i].got :
                nmr[i].got[l] = [k \in KeysOf(l) |-> d[k]]

\* Every batch of modifying requests, and every GET and RANGE, that is launched is
\* answered, whatever merging, cleaning and eviction go on meanwhile.
RequestsAnswered ==
    /\ batch.phase = "leaves" ~> batch.phase = "done"
    /\ \A i \in Slots : nmr[i].type # "none" ~> nmr[i].left = {}
=============================================================================
