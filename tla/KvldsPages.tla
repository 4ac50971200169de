------------------------------ MODULE KvldsPages ------------------------------
(* The pages of the key-value store from batch to batch: a batch of requests  *)
(* changes leaves, the tree is split and merged (fetching the neighbours the  *)
(* merges need), prefix lengths are filled in, the dirty pages are written,   *)
(* and later read back.  RANGE requests of a client (kvlds/dispatch_nmr.c and *)
(* the loop of lib/proto_kvlds/proto_kvlds_client.c) run between batches.     *)
(* Locks, shadow nodes and durability are the subject of KvldsTree.           *)
EXTENDS KvldsBalance, FiniteSets

CONSTANTS
    Keys,        \* the keys used
    Batches,     \* the batches of requests: sequences of [k, v]
    Ranges,      \* the ranges listed: <<start, end>>
    range_max,   \* the size limit of a RANGE request
    MaxBatches,  \* bound: batches
    ScanBatches, \* bound: batches once a listing has begun
    MaxEvicts    \* bound: evictions and restarts

VARIABLES
    T,           \* root_dirty
    nnodes,      \* T->nnodes
    pages,       \* the pages in the block store, by page number
    phase,       \* "idle", "merging" or "balanced"
    nmergefetch, \* fetches for merging under way
    kv,          \* what the requests so far have stored: Null where nothing
    nb, ev,      \* batches, evictions and restarts so far
    scan         \* the client's listing

pgvars == <<T, nnodes, pages, phase, nmergefetch, kv, nb, ev, scan>>

Fetched(N) == IF N.ty \in {"np", "read"} THEN deserialize(N, pages[N.pn]) ELSE N

-----------------------------------------------------------------------------
(* Batches (dispatch_mr.c).                                                   *)

DirtyPath(N, kids) ==
    IF \E i \in DOMAIN kids : kids[i].st = "dirty"
    THEN [btree_node_dirty(N) EXCEPT !.kids = kids]
    ELSE [N EXCEPT !.kids = kids]

(* The subtree N after the requests ops: the leaves are found, those on which *)
(* a request has an effect are dirtied with their parents, and changed.       *)
RECURSIVE BatchRun(_, _)
BatchRun(N, ops) ==
    IF ops = <<>> THEN N
    ELSE IF N.ty \in {"np", "read"} THEN BatchRun(Fetched(N), ops)
    ELSE IF N.ty = "leaf" THEN LeafBatch(N, ops)
    ELSE DirtyPath(N, [i \in DOMAIN N.kids |->
             BatchRun(N.kids[i], SelectSeq(ops, LAMBDA o : btree_find_child(N, o.k) = i))])

(* What is stored after the requests: the last one for a key counts.          *)
Stored(ops) ==
    LET is(k) == {i \in DOMAIN ops : ops[i].k = k /\ ops[i].v # Touch}
    IN  [k \in Keys |-> IF is(k) = {} THEN kv[k] ELSE ops[Max(is(k))].v]

planmerge(R) == T' = planmergenode(R) /\ nmergefetch' = nmergefetches(T')

(* callback_gotleaves and btree_balance up to the first planmerge; without    *)
(* anything dirtied the batch is over.                                        *)
callback_gotleaves ==
    /\ phase = "idle" /\ nb < (IF scan.on = "no" THEN MaxBatches ELSE ScanBatches)
    /\ scan.on # "done"
    /\ \E ops \in Batches :
        /\ \E D \in {BatchRun(T, ops)} :
            \/ D.st = "clean" /\ T' = D /\ UNCHANGED <<nnodes, nmergefetch, phase>>
            \/ /\ D.st = "dirty"
               /\ \E S \in {splittree(D)} : nnodes' = nnodes + S.n /\ planmerge(S.t)
               /\ phase' = "merging"
        /\ kv' = Stored(ops)
        /\ scan' = [scan EXCEPT !.touched = @ \cup {ops[i].k : i \in DOMAIN ops}]
    /\ nb' = nb + 1
    /\ UNCHANGED <<pages, ev>>

RECURSIVE Paths(_)
Paths(N) == {<<>>} \cup UNION {{<<i>> \o p : p \in Paths(N.kids[i])} : i \in DOMAIN N.kids}

RECURSIVE At(_, _)
At(N, p) == IF p = <<>> THEN N ELSE At(N.kids[Head(p)], Tail(p))

RECURSIVE Put(_, _, _)
Put(N, p, M) ==
    IF p = <<>> THEN M ELSE [N EXCEPT !.kids[Head(p)] = Put(@, Tail(p), M)]

(* merge_fetch: a page for merging has arrived, locked by the fetch.          *)
merge_fetch ==
    /\ phase = "merging"
    /\ \E p \in Paths(T) :
        /\ At(T, p).ty = "read"
        /\ T' = Put(T, p, [Fetched(At(T, p)) EXCEPT !.lk = TRUE])
    /\ nmergefetch' = nmergefetch - 1
    /\ UNCHANGED <<nnodes, pages, phase, kv, nb, ev, scan>>

domerge ==
    /\ phase = "merging" /\ nmergefetch = 0
    /\ \E D \in {domergenode(T)} :
        \/ D.t.nm /\ nnodes' = nnodes + D.n /\ planmerge(D.t) /\ UNCHANGED phase
        \/ /\ ~D.t.nm
           /\ \E R \in {deroot([D EXCEPT !.n = nnodes + @])} : T' = R.t /\ nnodes' = R.n
           /\ phase' = "balanced"
           /\ UNCHANGED nmergefetch
    /\ UNCHANGED <<pages, kv, nb, ev, scan>>

(* callback_balanced, btree_sync, callback_unshadow.                          *)
callback_balanced ==
    /\ phase = "balanced"
    /\ LET s == serializetree(btree_mlen(T), pages, nnodes)
       IN  T' = s.t /\ pages' = s.pages
    /\ phase' = "idle"
    /\ UNCHANGED <<nnodes, nmergefetch, kv, nb, ev, scan>>

-----------------------------------------------------------------------------
(* The page pool evicts a clean node which nothing locks: neither a child     *)
(* which is present or being fetched, nor a planned merge, nor the root's     *)
(* role (btree_node.c: makepresent, freedata).                                *)
makepresent ==
    /\ ev < MaxEvicts /\ scan.on = "no"
    /\ \E p \in Paths(T) \ {<<>>} :
        LET N == At(T, p)
        IN  /\ node_present(N) /\ N.st = "clean" /\ ~N.lk
            /\ \A i \in DOMAIN N.kids : N.kids[i].ty = "np"
            /\ T' = Put(T, p, node_alloc(N.pn, N.ol, N.ps))
    /\ ev' = ev + 1
    /\ UNCHANGED <<nnodes, pages, phase, nmergefetch, kv, nb, scan>>

(* The last of the first n pages that is a root, as btree_init looks for it.  *)
RECURSIVE RootNode(_)
RootNode(n) ==
    IF n = 0 THEN Bad
    ELSE LET N == deserialize(node_alloc(n, 0, 0), pages[n])
         IN  IF node_present(N) /\ N.root THEN N ELSE RootNode(n - 1)

(* A new daemon: btree_init scans backwards for a root.                       *)
btree_init ==
    /\ phase = "idle" /\ ev < MaxEvicts /\ scan.on = "no"
    /\ LET N == RootNode(Len(pages))
       IN  /\ T' = Sized(N)
           /\ nnodes' = deserialize_root(pages[N.pn])
    /\ ev' = ev + 1
    /\ UNCHANGED <<pages, phase, nmergefetch, kv, nb, scan>>

-----------------------------------------------------------------------------
(* RANGE on the server.  The pages it reads are left to be evicted at once.   *)

(* btree_find_range: a node of height at most 1 responsible for the key k,    *)
(* and the end of its range ("" where the keyspace ends).                     *)
RECURSIVE findleaf(_, _, _)
findleaf(N0, k, e) ==
    LET N == Fetched(N0)
        i == btree_find_child(N, k)
    IN  IF N.h <= 1 THEN [N |-> N, e |-> e]
        ELSE findleaf(N.kids[i], k, IF i <= Len(N.keys) THEN N.keys[i] ELSE e)

(* callback_range_gotnode: the children to read, from the one responsible for *)
(* the start, as many as surely fit, up to the first which passes the end.    *)
RangeLeaves(N, start, end) ==
    LET first == btree_find_child(N, start)
        count == IF range_max < pagelen THEN 1 ELSE range_max \div pagelen
        Past(i) == i <= Len(N.keys) /\ kvldskey_cmp(end, N.keys[i]) < 0
    IN  {i \in first .. Len(N.kids) : i < first + count /\ \A j \in first .. i - 1 : ~Past(j)}

(* callback_range_gotleaf: pairs from the start up to and including the end,  *)
(* as long as they fit; where they stop fitting the response ends.            *)
callback_range_gotleaf(C, leaf, start, end) ==
    LET Take(a, p) ==
            IF \/ a.full
               \/ kvldskey_cmp(p.k, start) < 0
               \/ end # <<>> /\ kvldskey_cmp(p.k, end) > 0 THEN a
            ELSE LET rlen == a.rlen + PairSize(p)
                 IN  IF a.got # <<>> /\ range_max < rlen
                     THEN [a EXCEPT !.rlen = rlen, !.full = TRUE, !.end = p.k]
                     ELSE [a EXCEPT !.rlen = rlen, !.got = Append(@, p)]
    IN  [FoldLeft(Take, C, leaf.pairs) EXCEPT !.full = FALSE]

(* rangedone: the pairs in the heap's order, and where to continue.           *)
rangedone(C, mlen, end) ==
    [pairs |-> SortSeq(C.got, LAMBDA p, q : kvldskey_cmp2(p.k, q.k, mlen) < 0),
     next |-> IF C.end = <<>> THEN end
              ELSE IF end = <<>> \/ kvldskey_cmp(C.end, end) < 0 THEN C.end
              ELSE end]

(* The leaves of a range are read in order, and C->end is where the response  *)
(* will end if everything in them fits.                                       *)
ReadLeaves(f, is, start, end, stop) ==
    LET leaves == IF f.N.h = 0 THEN <<f.N>>
                  ELSE [j \in 1 .. Cardinality(is) |->
                           Fetched(f.N.kids[btree_find_child(f.N, start) + j - 1])]
        C == [got |-> <<>>, rlen |-> 0, full |-> FALSE, end |-> stop]
    IN  rangedone(FoldLeft(LAMBDA a, l : callback_range_gotleaf(a, l, start, end), C, leaves),
                  f.N.mt, end)

(* A variant that does not adjust C->end when it stops before the last child. *)
CallbackRangeGotnodeFar(start, end) ==
    LET f == findleaf(T, start, <<>>)
    IN  ReadLeaves(f, RangeLeaves(f.N, start, end), start, end, f.e)

callback_range_gotnode(start, end) ==
    LET f == findleaf(T, start, <<>>)
        is == RangeLeaves(f.N, start, end)
        last == CHOOSE i \in is : \A j \in is : j <= i
    IN  ReadLeaves(f, is, start, end,
                   IF f.N.h = 1 /\ last < Len(f.N.kids) THEN f.N.keys[last] ELSE f.e)

(* The client's loop.                                                         *)
NoScan == [on |-> "no", first |-> <<>>, start |-> <<>>, end |-> <<>>, reqdone |-> FALSE,
           got |-> <<>>, touched |-> {}]

proto_kvlds_request_range2 ==
    /\ phase = "idle" /\ scan.on = "no" /\ nb <= ScanBatches
    /\ \E r \in Ranges :
        scan' = [NoScan EXCEPT !.on = "yes", !.first = r[1], !.start = r[1], !.end = r[2]]
    /\ UNCHANGED <<T, nnodes, pages, phase, nmergefetch, kv, nb, ev>>

doreq ==
    IF scan.end = <<>> THEN ~(scan.reqdone /\ scan.start = <<>>)
    ELSE kvldskey_cmp(scan.start, scan.end) < 0

(* A response is rejected if it has more pairs than can fit in the limit.     *)
poke_range2 ==
    /\ phase = "idle" /\ scan.on = "yes" /\ doreq
    /\ \E r \in {callback_range_gotnode(scan.start, scan.end)} :
           IF Len(r.pairs) > 1 /\ Len(r.pairs) > range_max \div 2
           THEN scan' = [scan EXCEPT !.on = "failed"]
           ELSE scan' = [scan EXCEPT !.start = r.next, !.reqdone = TRUE,
                                     !.got = @ \o r.pairs]
    /\ UNCHANGED <<T, nnodes, pages, phase, nmergefetch, kv, nb, ev>>

callback_range_done ==
    /\ phase = "idle" /\ scan.on = "yes" /\ ~doreq
    /\ scan' = [scan EXCEPT !.on = "done"]
    /\ UNCHANGED <<T, nnodes, pages, phase, nmergefetch, kv, nb, ev>>

-----------------------------------------------------------------------------
(* An empty store has been created: a root leaf without pairs.                *)
Init ==
    /\ LET s == serializetree([btree_node_mkleaf(<<>>) EXCEPT !.root = TRUE], <<>>, 1)
       IN  T = s.t /\ pages = s.pages
    /\ nnodes = 1
    /\ phase = "idle"
    /\ nmergefetch = 0
    /\ kv = [k \in Keys |-> Null]
    /\ nb = 0 /\ ev = 0
    /\ scan = NoScan

Over == phase = "idle" /\ (nb = MaxBatches \/ scan.on = "done") /\ UNCHANGED pgvars

Next ==
    \/ callback_gotleaves \/ merge_fetch \/ domerge \/ callback_balanced
    \/ makepresent \/ btree_init
    \/ proto_kvlds_request_range2 \/ poke_range2 \/ callback_range_done
    \/ Over

-----------------------------------------------------------------------------
(* Properties.                                                                *)

(* The whole tree, with the nodes which are not present read from their pages.*)
RECURSIVE Whole(_)
Whole(N) ==
    LET M == Fetched(N)
    IN  [M EXCEPT !.kids = [i \in DOMAIN M.kids |-> Whole(M.kids[i])]]

RECURSIVE Nodes(_)
Nodes(N) == 1 + SumFunction([i \in DOMAIN N.kids |-> Nodes(N.kids[i])])

RECURSIVE Pairs(_)
Pairs(N) == IF N.ty = "leaf" THEN N.pairs
            ELSE FlattenSeq([i \in DOMAIN N.kids |-> Pairs(N.kids[i])])

Ascending(s) == \A i \in 1 .. Len(s) - 1 : kvldskey_cmp(s[i], s[i + 1]) < 0

PairKeys(s) == [i \in DOMAIN s |-> s[i].k]

(* A subtree is responsible for the keys from start to before end, has one    *)
(* child more than keys, and all its leaves at the same depth.                *)
RECURSIVE Ordered(_, _, _)
Ordered(N, start, end) ==
    LET ks == IF N.ty = "leaf" THEN PairKeys(N.pairs) ELSE N.keys
    IN  /\ N.ty \in {"leaf", "parent"}
        /\ Ascending(ks)
        /\ \A i \in DOMAIN ks :
            /\ start = <<>> \/ kvldskey_cmp(start[1], ks[i]) <= 0
            /\ end = <<>> \/ kvldskey_cmp(ks[i], end[1]) < 0
        /\ N.ty = "parent" =>
            /\ Len(N.kids) = Len(N.keys) + 1
            /\ \A i \in DOMAIN N.kids :
                /\ N.kids[i].h = N.h - 1
                /\ Ordered(N.kids[i], IF i = 1 THEN start ELSE <<N.keys[i - 1]>>,
                                      IF i <= Len(N.keys) THEN <<N.keys[i]>> ELSE end)

(* The value a GET would find, with the searches of btree_find.c.             *)
RECURSIVE Lookup(_, _)
Lookup(N, k) ==
    IF N.ty = "parent" THEN Lookup(N.kids[btree_find_child(N, k)], k)
    ELSE LET i == btree_find_kvpair(N, k) IN IF i = 0 THEN Null ELSE N.pairs[i].v

(* Splitting, merging, dropping the root, writing out and reading back        *)
(* (btree_balance.c, btree_sync.c, serialize.c) never lose, add or reorder a  *)
(* pair: at every step the tree, unread pages included, holds exactly what    *)
(* the requests have stored, is ordered and of even depth, and T->nnodes      *)
(* counts its nodes; and the searches which skip the first mlen_t bytes of    *)
(* every key (btree_find.c, btree_mlen.c) find every key and only those.      *)
PagesSound ==
    LET W  == Whole(T)
        ps == Pairs(W)
    IN  /\ Ordered(W, <<>>, <<>>)
        /\ \A k \in Keys : kv[k] # Null => [k |-> k, v |-> kv[k]] \in Range(ps)
        /\ \A i \in DOMAIN ps : kv[ps[i].k] = ps[i].v
        /\ nnodes = Nodes(W)
        /\ \A k \in Keys : Lookup(W, k) = kv[k]

(* No two neighbours, one of them dirty, fit in two thirds of a page.         *)
FullyMerged(N) ==
    \A i \in DOMAIN N.keys :
        LET a == N.kids[i]
            b == N.kids[i + 1]
        IN  "dirty" \in {a.st, b.st} =>
                serialize_size(b) + serialize_merge_size(a)
                + (IF N.h = 1 THEN 0 ELSE kvldskey_serial_size(N.keys[i])) > breakat

(* When rebalancing is over (btree_balance's callback) every dirty node fits  *)
(* in a page; a size kept from an earlier stage is still the right one        *)
(* (serialize asserts both); no node is left marked for merging or locked; a  *)
(* root which is a parent has two children; the root will be written; and no  *)
(* further merge is possible.                                                 *)
PagesFit ==
    phase = "balanced" =>
        /\ T.st = "dirty" /\ T.root
        /\ T.ty = "parent" => Len(T.kids) >= 2
        /\ \A p \in Paths(T) :
            LET N == At(T, p)
            IN  /\ ~N.mg /\ ~N.lk /\ N.ty # "read" /\ (N.root <=> p = <<>>)
                /\ N.st = "dirty" =>
                    /\ ActualSize(N) <= pagelen
                    /\ N.ps \in {0, ActualSize(N)}
                    /\ FullyMerged(N)
                    /\ p # <<>> => At(T, Front(p)).st = "dirty"

(* A client's listing of a range by several RANGE requests (poke_range2), with *)
(* batches between them, returns keys in strictly increasing order and within  *)
(* bounds; of the keys no batch has touched meanwhile, those before the point  *)
(* reached are returned exactly if they are stored, with their values; and no  *)
(* response is rejected.  A key equal to the end of the range may be returned  *)
(* or not.                                                                     *)
RangeRight ==
    LET g == scan.got
        Reached(k) == \/ scan.on = "done"
                      \/ scan.reqdone /\ kvldskey_cmp(k, scan.start) < 0
        Within(k) == /\ kvldskey_cmp(scan.first, k) <= 0
                     /\ scan.end = <<>> \/ kvldskey_cmp(k, scan.end) < 0
    IN  /\ scan.on # "failed"
        /\ Ascending(PairKeys(g))
        /\ \A i \in DOMAIN g : Within(g[i].k) \/ g[i].k = scan.end
        /\ \A k \in Keys \ scan.touched :
            (Within(k) /\ Reached(k)) =>
                {g[i].v : i \in {j \in DOMAIN g : g[j].k = k}} = {kv[k]} \ {Null}
=============================================================================
