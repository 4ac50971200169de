---------------------------- MODULE KvldsBalance ----------------------------
(* Rebalancing the dirty tree (kvlds/btree_balance.c, btree_node_split.c,     *)
(* btree_node_merge.c) and writing it out (btree_mlen.c, btree_sync.c).       *)
(* A tree is its root node, the children inside their parents.  The functions *)
(* which change T->nnodes return the change n beside the tree t.              *)
EXTENDS KvldsNode

breakat == (pagelen * 2) \div 3

-----------------------------------------------------------------------------
(* Splitting (btree_node_split.c).                                            *)

RECURSIVE LeafParts(_, _)
LeafParts(pairs, size) ==
    IF pairs = <<>> THEN 1
    ELSE IF size > breakat
    THEN 1 + LeafParts(Tail(pairs), SERIALIZE_OVERHEAD + PairSize(Head(pairs)))
    ELSE LeafParts(Tail(pairs), size + PairSize(Head(pairs)))

nparts_leaf(N) == LeafParts(N.pairs, SERIALIZE_OVERHEAD)

EmptyParent == SERIALIZE_OVERHEAD + SERIALIZE_PERCHILD

nparts_parent(N) ==
    LET Add(a, k) == IF a.size > breakat THEN [n |-> a.n + 1, size |-> EmptyParent]
                     ELSE [a EXCEPT !.size = @ + kvldskey_serial_size(k) + SERIALIZE_PERCHILD]
    IN  FoldLeft(Add, [n |-> 1, size |-> EmptyParent], N.keys).n

btree_node_split_nparts(N) == IF N.ty = "leaf" THEN nparts_leaf(N) ELSE nparts_parent(N)

(* The parts of a leaf and the separators between them: each separator is the *)
(* first key of the part which follows it.                                    *)
RECURSIVE CutLeaf(_, _, _)
CutLeaf(pairs, cur, size) ==
    IF pairs = <<>> THEN [kids |-> <<btree_node_mkleaf(cur)>>, keys |-> <<>>]
    ELSE LET p == Head(pairs)
             r == CutLeaf(Tail(pairs), <<p>>, SERIALIZE_OVERHEAD + PairSize(p))
         IN  IF size > breakat
             THEN [kids |-> <<btree_node_mkleaf(cur)>> \o r.kids, keys |-> <<p.k>> \o r.keys]
             ELSE CutLeaf(Tail(pairs), Append(cur, p), size + PairSize(p))

split_leaf(N) == CutLeaf(N.pairs, <<>>, SERIALIZE_OVERHEAD)

(* The parts of a parent: the key at which it breaks moves up.                *)
split_parent(N) ==
    LET Part(a) == btree_node_mkparent(N.h, a.ckeys, a.ckids)
        Add(a, i) ==
            IF a.size > breakat
            THEN [kids |-> Append(a.kids, Part(a)), keys |-> Append(a.keys, N.keys[i]),
                  ckeys |-> <<>>, ckids |-> <<N.kids[i + 1]>>, size |-> EmptyParent]
            ELSE [a EXCEPT !.ckeys = Append(@, N.keys[i]), !.ckids = Append(@, N.kids[i + 1]),
                           !.size = @ + kvldskey_serial_size(N.keys[i]) + SERIALIZE_PERCHILD]
        r == FoldLeftDomain(Add, [kids |-> <<>>, keys |-> <<>>, ckeys |-> <<>>,
                                  ckids |-> <<N.kids[1]>>, size |-> EmptyParent], N.keys)
    IN  [kids |-> Append(r.kids, Part(r)), keys |-> r.keys]

btree_node_split(N) == IF N.ty = "leaf" THEN split_leaf(N) ELSE split_parent(N)

Overlarge(N) == node_present(N) /\ serialize_size(N) > pagelen

Room(N) == IF Overlarge(N) THEN btree_node_split_nparts(N) ELSE 1

Measured(N) == IF node_present(N) THEN Sized(N) ELSE N

PartsOf(N) == IF Overlarge(N) THEN btree_node_split(Sized(N))
              ELSE [kids |-> <<Measured(N)>>, keys |-> <<>>]

(* N with the parts of its children in their place.                           *)
WithParts(N, parts) ==
    [N EXCEPT !.kids = FlattenSeq([i \in DOMAIN parts |-> parts[i].kids]),
              !.keys = FlattenSeq([i \in DOMAIN parts |->
                           IF i <= Len(N.keys) THEN Append(parts[i].keys, N.keys[i])
                           ELSE parts[i].keys])]

(* splitchildren: the children of a dirty parent are split after their own    *)
(* children, below, have been.  It does nothing if it counts no more parts    *)
(* than children, and asserts the number of parts it made room for.           *)
SplitBelow(N, below) ==
    LET room == SumFunction([i \in DOMAIN below |-> Room(below[i].t)])
        S    == WithParts(N, [i \in DOMAIN below |-> PartsOf(below[i].t)])
    IN  [t |-> IF room = Len(N.kids)
               THEN [N EXCEPT !.kids = [i \in DOMAIN below |-> Measured(below[i].t)]]
               ELSE IF room # Len(S.kids) THEN Bad ELSE S,
         n |-> room - Len(N.kids) + SumFunction([i \in DOMAIN below |-> below[i].n])]

RECURSIVE splitchildren(_)
splitchildren(N) ==
    IF N.ty # "parent" \/ N.st # "dirty" THEN [t |-> N, n |-> 0]
    ELSE SplitBelow(N, [i \in DOMAIN N.kids |-> splitchildren(N.kids[i])])

splitroot(N) ==
    LET parts == btree_node_split([N EXCEPT !.root = FALSE])
        R == btree_node_mkparent(N.h + 1, parts.keys, parts.kids)
    IN  [t |-> IF btree_node_split_nparts(N) # Len(parts.kids) THEN Bad
               ELSE [R EXCEPT !.root = TRUE],
         n |-> Len(parts.kids)]

(* splittree's loop: new roots until the root fits.                           *)
RECURSIVE SplitRoots(_)
SplitRoots(r) ==
    IF r.t.ty = "bad" \/ serialize_size(r.t) <= pagelen THEN [r EXCEPT !.t = Sized(@)]
    ELSE LET s == splitroot(r.t) IN SplitRoots([t |-> s.t, n |-> r.n + s.n])

splittree(T) == SplitRoots(splitchildren(T))

-----------------------------------------------------------------------------
(* Planning merges, from the right.  A child is to be merged into its right   *)
(* neighbour if the run of children this belongs to has a dirty one and the   *)
(* result stays within two thirds of a page.                                  *)

ScanChild(N, a, i) ==
    LET kid   == Sized(N.kids[i])
        dirty == kid.st = "dirty"
        got   == a.gotdirty \/ dirty
        leaf  == IF dirty THEN kid.ty = "leaf" ELSE a.leafchild
        plen  == a.plen + serialize_merge_size(kid)
                 + IF leaf THEN 0 ELSE kvldskey_serial_size(N.keys[i])
    IN  IF i < Len(N.kids) /\ got /\ plen <= breakat
        THEN [kids |-> <<[kid EXCEPT !.mg = TRUE]>> \o a.kids,
              plen |-> plen, gotdirty |-> got, leafchild |-> leaf]
        ELSE [kids |-> <<kid>> \o a.kids, plen |-> kid.ps,
              gotdirty |-> dirty, leafchild |-> kid.ty = "leaf"]

InRun(kids, i) == kids[i].mg \/ (i > 1 /\ kids[i - 1].mg)

(* A child in a run is locked if it is present, else fetched.                 *)
RECURSIVE planmergenode(_)
planmergenode(N) ==
    IF N.ty # "parent" \/ N.st # "dirty" THEN N
    ELSE LET M    == [N EXCEPT !.kids = [i \in DOMAIN N.kids |-> planmergenode(N.kids[i])]]
             kids == FoldRightDomain(LAMBDA i, a : ScanChild(M, a, i), M.kids,
                                     [kids |-> <<>>, plen |-> 0, gotdirty |-> FALSE,
                                      leafchild |-> FALSE]).kids
         IN  [M EXCEPT !.kids = [i \in DOMAIN kids |->
                  IF ~InRun(kids, i) THEN kids[i]
                  ELSE IF node_present(kids[i]) THEN [kids[i] EXCEPT !.lk = TRUE]
                  ELSE [kids[i] EXCEPT !.ty = "read"]]]

RECURSIVE nmergefetches(_)
nmergefetches(N) ==
    IF N.ty = "read" THEN 1
    ELSE SumFunction([i \in DOMAIN N.kids |-> nmergefetches(N.kids[i])])

-----------------------------------------------------------------------------
(* Merging (btree_node_merge.c): all nodes dirty, and all of one type.        *)

merge_leaf(c_in) == btree_node_mkleaf(FlattenSeq([i \in DOMAIN c_in |-> c_in[i].pairs]))

merge_parent(c_in, k_in) ==
    btree_node_mkparent(c_in[1].h,
        FlattenSeq([i \in DOMAIN c_in |-> IF i <= Len(k_in) THEN Append(c_in[i].keys, k_in[i])
                                          ELSE c_in[i].keys]),
        FlattenSeq([i \in DOMAIN c_in |-> c_in[i].kids]))

btree_node_merge(c_in, k_in) ==
    IF \E i \in DOMAIN c_in : c_in[i].ty # c_in[1].ty \/ c_in[i].st # "dirty" THEN Bad
    ELSE IF c_in[1].ty = "leaf" THEN merge_leaf(c_in) ELSE merge_parent(c_in, k_in)

(* The children of N with the planned runs merged: those of a run which are   *)
(* clean are dirtied first, and each run takes the last separator.            *)
Merged(N) ==
    LET Ready(i) == LET c == N.kids[i]
                    IN  IF ~InRun(N.kids, i) THEN c
                        ELSE IF c.st = "dirty" THEN [c EXCEPT !.lk = FALSE]
                        ELSE btree_node_dirty(c)
        Next(a, i) ==
            IF N.kids[i].mg
            THEN [a EXCEPT !.run = Append(@, Ready(i)), !.sep = Append(@, N.keys[i])]
            ELSE [kids |-> Append(a.kids, IF a.run = <<>> THEN Ready(i)
                                          ELSE btree_node_merge(Append(a.run, Ready(i)), a.sep)),
                  keys |-> IF i <= Len(N.keys) THEN Append(a.keys, N.keys[i]) ELSE a.keys,
                  run |-> <<>>, sep |-> <<>>]
    IN  FoldLeftDomain(Next, [kids |-> <<>>, keys |-> <<>>, run |-> <<>>, sep |-> <<>>], N.kids)

(* A variant that leaves the size of N as it was cached before the merges.    *)
MergeRunsKeptSize(N) ==
    LET r == Merged(N) IN [N EXCEPT !.kids = r.kids, !.keys = r.keys]

MergeRuns(N) ==
    LET r == Merged(N) IN [N EXCEPT !.kids = r.kids, !.keys = r.keys, !.ps = 0]

RECURSIVE domergenode(_)
domergenode(N) ==
    IF N.ty # "parent" \/ N.st # "dirty" THEN [t |-> [N EXCEPT !.nm = FALSE], n |-> 0]
    ELSE LET below == [i \in DOMAIN N.kids |-> domergenode(N.kids[i])]
             need  == \E i \in DOMAIN below : below[i].t.nm \/ N.kids[i].mg
             M == [N EXCEPT !.kids = [i \in DOMAIN below |-> below[i].t], !.nm = need]
             R == IF \E i \in DOMAIN N.kids : N.kids[i].mg THEN MergeRuns(M) ELSE M
         IN  [t |-> R, n |-> Len(R.kids) - Len(N.kids)
                             + SumFunction([i \in DOMAIN below |-> below[i].n])]

(* A root with a single child is replaced by the child.                       *)
RECURSIVE deroot(_)
deroot(r) ==
    IF r.t.ty = "parent" /\ r.t.keys = <<>>
    THEN deroot([t |-> [r.t.kids[1] EXCEPT !.root = TRUE, !.ps = 0], n |-> r.n - 1])
    ELSE r

-----------------------------------------------------------------------------
(* Writing the tree out.  start and end are the bounds of the keys a node is  *)
(* responsible for: <<>> where the keyspace ends, else <<key>>.               *)

RECURSIVE mlen_traverse(_, _, _)
mlen_traverse(N, start, end) ==
    IF N.st # "dirty" THEN N
    ELSE [N EXCEPT
            !.kids = [i \in DOMAIN N.kids |->
                         mlen_traverse(N.kids[i],
                             IF i = 1 THEN start ELSE <<N.keys[i - 1]>>,
                             IF i <= Len(N.keys) THEN <<N.keys[i]>> ELSE end)],
            !.mt = IF start = <<>> \/ end = <<>> THEN 0
                   ELSE kvldskey_mlen(start[1], end[1])]

btree_mlen(T) == mlen_traverse(T, <<>>, <<>>)

OldestOf(N, pn) ==
    CHOOSE m \in {pn} \cup {N.kids[i].ol : i \in DOMAIN N.kids} :
        \A i \in DOMAIN N.kids : m <= N.kids[i].ol /\ m <= pn

(* serializetree and makeclean: children get their pages before their parent. *)
RECURSIVE serializetree(_, _, _)
serializetree(N, pages, nnodes) ==
    IF N.st # "dirty" THEN [t |-> N, pages |-> pages]
    ELSE LET Kid(a, c) == LET s == serializetree(c, a.pages, nnodes)
                          IN  [kids |-> Append(a.kids, s.t), pages |-> s.pages]
             r  == FoldLeft(Kid, [kids |-> <<>>, pages |-> pages], N.kids)
             pn == Len(r.pages) + 1
             M  == Sized([N EXCEPT !.kids = r.kids, !.pn = pn,
                                   !.ol = OldestOf([N EXCEPT !.kids = r.kids], pn)])
         IN  [t |-> [M EXCEPT !.st = "clean"],
              pages |-> Append(r.pages, serialize(M, nnodes))]
=============================================================================
