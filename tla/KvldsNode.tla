------------------------------ MODULE KvldsNode ------------------------------
(* The nodes of the B+Tree of kvlds/ and their pages: keys and their          *)
(* comparison (lib/datastruct/kvldskey.c), the node structure, the page       *)
(* format (serialize.c), the searches inside a node (btree_find.c) and the    *)
(* changes to a leaf (btree_mutate.c with lib/datastruct/kvhash.c).           *)
(*                                                                            *)
(* A key or a value is a sequence of bytes.  A page is a sequence of units:   *)
(* a byte of a string, a length byte and every fixed-width integer take one   *)
(* unit each, so SERIALIZE_OVERHEAD (magic, number of keys, height, mlen) is  *)
(* 4 units, SERIALIZE_ROOT is 1 and SERIALIZE_PERCHILD (page number, oldest   *)
(* leaf, page size) is 3.                                                     *)
EXTENDS Integers, Sequences, SequencesExt, Functions, TLC

CONSTANT pagelen    \* size of a page, in units

SERIALIZE_OVERHEAD == 4
SERIALIZE_ROOT == 1
SERIALIZE_PERCHILD == 3

(* "KVLDS\0", the height byte's root flag, and the three marks which are not  *)
(* strings: a NULL value, the key of an empty hash slot, and the request of   *)
(* the cleaner to rewrite a leaf as it is.                                    *)
Magic == 75
RootFlag == 128
Null == <<-1>>
NoKey == <<-2>>
Touch == <<-3>>

-----------------------------------------------------------------------------
(* Keys.                                                                      *)

kvldskey_serial_size(x) == 1 + Len(x)

(* The strings are known to match in their first m bytes, so these are not    *)
(* looked at; the result is negative, zero or positive.                       *)
kvldskey_cmp2(x, y, m) ==
    LET n == IF Len(x) < Len(y) THEN Len(x) ELSE Len(y)
        d == {i \in m + 1 .. n : x[i] # y[i]}
        i == CHOOSE i \in d : \A j \in d : i <= j
    IN  IF d = {} THEN Len(x) - Len(y) ELSE x[i] - y[i]

kvldskey_cmp(x, y) == kvldskey_cmp2(x, y, 0)

(* Length of the common prefix.  The loop stops at the end of x and relies on *)
(* x < y not to pass the end of y; its one caller with x > y                  *)
(* (btree_mutate_add) takes a minimum which a longer result cannot change.    *)
kvldskey_mlen(x, y) ==
    LET n == IF Len(x) < Len(y) THEN Len(x) ELSE Len(y)
    IN  CHOOSE m \in 0 .. n : /\ \A i \in 1 .. m : x[i] = y[i]
                              /\ m = n \/ x[m + 1] # y[m + 1]

-----------------------------------------------------------------------------
(* Nodes.  The page size ps is 0 while it is not known ((uint32_t)(-1)).  A   *)
(* node of type "bad" stands for a failed assertion or a rejected page.       *)

node_alloc(pn, ol, ps) ==
    [ty |-> "np", st |-> "clean", h |-> -1, root |-> FALSE, mt |-> 0, mn |-> 0,
     pairs |-> <<>>, keys |-> <<>>, kids |-> <<>>, pn |-> pn, ol |-> ol, ps |-> ps,
     mg |-> FALSE, nm |-> FALSE, lk |-> FALSE]

Bad == [node_alloc(0, 0, 0) EXCEPT !.ty = "bad"]

node_present(N) == N.ty \in {"leaf", "parent"}

MatchAll(pairs) == IF pairs = <<>> THEN 255 ELSE kvldskey_mlen(Head(pairs).k, Last(pairs).k)

btree_node_mkleaf(pairs) ==
    [node_alloc(0, 0, 0) EXCEPT !.ty = "leaf", !.st = "dirty", !.h = 0,
                                !.pairs = pairs, !.mn = MatchAll(pairs)]

btree_node_mkparent(h, keys, kids) ==
    [node_alloc(0, 0, 0) EXCEPT !.ty = "parent", !.st = "dirty", !.h = h,
                                !.keys = keys, !.kids = kids]

(* The dirty copy of a clean node: a new page, of a size yet to be known.     *)
btree_node_dirty(N) == [N EXCEPT !.st = "dirty", !.ps = 0, !.pn = 0, !.ol = 0, !.lk = FALSE]

-----------------------------------------------------------------------------
(* Pages.                                                                     *)

PairSize(p) == kvldskey_serial_size(p.k) + kvldskey_serial_size(p.v)

(* The size a node would have if it were computed now: children which are to  *)
(* be merged into their right neighbour take no space.                        *)
ActualSize(N) ==
    SERIALIZE_OVERHEAD + (IF N.root THEN SERIALIZE_ROOT ELSE 0)
    + IF N.ty = "leaf"
      THEN SumFunction([i \in DOMAIN N.pairs |-> PairSize(N.pairs[i])])
      ELSE SumFunction([i \in DOMAIN N.keys |->
                    IF N.kids[i].mg THEN 0
                    ELSE SERIALIZE_PERCHILD + kvldskey_serial_size(N.keys[i])])
           + SERIALIZE_PERCHILD

serialize_size(N) == IF N.ps # 0 THEN N.ps ELSE ActualSize(N)

(* serialize_size leaves its result in the node.                              *)
Sized(N) == [N EXCEPT !.ps = serialize_size(N)]

serialize_merge_size(N) ==
    serialize_size(N) - SERIALIZE_OVERHEAD - (IF N.root THEN SERIALIZE_ROOT ELSE 0)

String(x) == <<Len(x)>> \o x

serialize(N, nnodes) ==
    LET nkeys == IF N.ty = "leaf" THEN Len(N.pairs) ELSE Len(N.keys)
        data  == <<Magic, nkeys, N.h + (IF N.root THEN RootFlag ELSE 0), N.mt>>
                 \o (IF N.root THEN <<nnodes>> ELSE <<>>)
                 \o (IF N.ty = "leaf"
                     THEN FlattenSeq([i \in DOMAIN N.pairs |-> String(N.pairs[i].k)])
                          \o FlattenSeq([i \in DOMAIN N.pairs |-> String(N.pairs[i].v)])
                     ELSE FlattenSeq([i \in DOMAIN N.keys |-> String(N.keys[i])])
                          \o FlattenSeq([i \in DOMAIN N.kids |->
                                 <<N.kids[i].pn, N.kids[i].ol, N.kids[i].ps>>]))
    IN  data \o [i \in 1 .. pagelen - Len(data) |-> 0]

(* n strings from the front of a buffer: the strings and what follows them.   *)
RECURSIVE Strings(_, _)
Strings(buf, n) ==
    IF n = 0 THEN [ok |-> TRUE, s |-> <<>>, rest |-> buf]
    ELSE IF buf = <<>> THEN [ok |-> FALSE, s |-> <<>>, rest |-> buf]
    ELSE IF Len(buf) < 1 + Head(buf) THEN [ok |-> FALSE, s |-> <<>>, rest |-> buf]
    ELSE LET r == Strings(SubSeq(buf, 2 + Head(buf), Len(buf)), n - 1)
         IN  [r EXCEPT !.s = <<SubSeq(buf, 2, 1 + Head(buf))>> \o @]

Zeros(buf) == \A i \in DOMAIN buf : buf[i] = 0

ParsedLeaf(N, nkeys, buf) ==
    LET ks == Strings(buf, nkeys)
        vs == Strings(ks.rest, nkeys)
        pairs == [i \in 1 .. nkeys |-> [k |-> ks.s[i], v |-> vs.s[i]]]
    IN  IF ~ks.ok THEN Bad ELSE IF ~vs.ok \/ ~Zeros(vs.rest) THEN Bad
        ELSE [N EXCEPT !.ty = "leaf", !.pairs = pairs, !.mn = MatchAll(pairs)]

ParsedParent(N, nkeys, buf) ==
    LET ks == Strings(buf, nkeys)
        at(i) == SERIALIZE_PERCHILD * (i - 1)
        end == SERIALIZE_PERCHILD * (nkeys + 1)
        kid(i) == node_alloc(ks.rest[at(i) + 1], ks.rest[at(i) + 2], ks.rest[at(i) + 3])
    IN  IF ~ks.ok THEN Bad
        ELSE IF Len(ks.rest) < end \/ ~Zeros(SubSeq(ks.rest, end + 1, Len(ks.rest))) THEN Bad
        ELSE [N EXCEPT !.ty = "parent", !.keys = ks.s,
                       !.kids = [i \in 1 .. nkeys + 1 |-> kid(i)]]

deserialize(N, buf) ==
    LET root == buf[3] >= RootFlag
        M == [N EXCEPT !.root = root, !.h = buf[3] % RootFlag, !.mt = buf[4]]
        data == SubSeq(buf, 1 + SERIALIZE_OVERHEAD
                              + (IF root THEN SERIALIZE_ROOT ELSE 0), Len(buf))
    IN  IF buf[1] # Magic THEN Bad
        ELSE IF M.h = 0 THEN ParsedLeaf(M, buf[2], data) ELSE ParsedParent(M, buf[2], data)

deserialize_root(buf) == buf[SERIALIZE_OVERHEAD + 1]

-----------------------------------------------------------------------------
(* Searching a node: a binary search which compares beyond the node's mlen_t. *)

RECURSIVE Bisect(_, _, _, _, _)
Bisect(keys, k, m, min, max) ==
    IF min = max THEN [at |-> min, found |-> FALSE]
    ELSE LET mid == min + ((max - min) \div 2)
             rc  == kvldskey_cmp2(k, keys[mid + 1], m)
         IN  IF rc < 0 THEN Bisect(keys, k, m, min, mid)
             ELSE IF rc > 0 THEN Bisect(keys, k, m, mid + 1, max)
             ELSE [at |-> mid, found |-> TRUE]

(* Position of the pair with the key k, or 0.                                 *)
btree_find_kvpair(N, k) ==
    LET r == Bisect([i \in DOMAIN N.pairs |-> N.pairs[i].k], k, N.mt, 0, Len(N.pairs))
    IN  IF r.found THEN r.at + 1 ELSE 0

(* Position of the child responsible for the key k.                           *)
btree_find_child(N, k) ==
    LET r == Bisect(N.keys, k, N.mt, 0, Len(N.keys))
    IN  IF r.found THEN r.at + 2 ELSE r.at + 1

-----------------------------------------------------------------------------
(* The hash table of the pairs added to a leaf.  Slots are numbered from 0.   *)
(* The hash stands for CRC32C: some function of the key, with collisions.     *)

hash(k) == Len(k) + SumFunction(k)

Free == [k |-> NoKey, v |-> Null, h |-> 0]

kvhash_init == [nkeys |-> 0, nslots |-> 4, slots |-> [i \in 0 .. 3 |-> Free]]

(* The slot with the key k, or the free slot where it belongs.                *)
RECURSIVE Probe(_, _, _)
Probe(H, k, pos) ==
    IF H.slots[pos].k \in {NoKey, k} THEN pos ELSE Probe(H, k, (pos + 1) % H.nslots)

kvhash_search(H, k) == Probe(H, k, hash(k) % H.nslots)

(* Every entry moves to the first free slot from its hash, in slot order.     *)
rehash(H) ==
    LET n == 2 * H.nslots
        Move(a, i) ==
            LET e == H.slots[i - 1]
                RECURSIVE From(_)
                From(pos) == IF a[pos].k = NoKey THEN pos ELSE From((pos + 1) % n)
            IN  IF e.k = NoKey THEN a ELSE [a EXCEPT ![From(e.h % n)] = e]
    IN  [H EXCEPT !.nslots = n,
                  !.slots = FoldLeft(Move, [i \in 0 .. n - 1 |-> Free],
                                     [i \in 1 .. H.nslots |-> i])]

kvhash_postadd(H) ==
    LET G == [H EXCEPT !.nkeys = @ + 1]
    IN  IF G.nkeys + (G.nslots \div 4) > G.nslots THEN rehash(G) ELSE G

-----------------------------------------------------------------------------
(* Changing a leaf.  A mutable leaf has, beside its sorted pairs, a hash      *)
(* table H of the pairs added; a deleted pair has the value Null in either.   *)

btree_mutate_mutable(N) == [leaf |-> N, H |-> kvhash_init]

(* A variant that keeps mlen_n as it was before the key was added.            *)
BtreeMutateAddStale(M, pos, k, v) ==
    [M EXCEPT !.H = kvhash_postadd([@ EXCEPT !.slots[pos] =
                                        [k |-> k, v |-> v, h |-> hash(k)]])]

btree_mutate_add(M, pos, k, v) ==
    LET m == kvldskey_mlen(k, Head(M.leaf.pairs).k)
        mn == IF M.leaf.pairs = <<>> THEN 0
              ELSE IF m < M.leaf.mn THEN m ELSE M.leaf.mn
    IN  [M EXCEPT !.leaf.mn = mn,
                  !.H = kvhash_postadd([@ EXCEPT !.slots[pos] =
                                            [k |-> k, v |-> v, h |-> hash(k)]])]

(* One request of a batch on a mutable leaf: SET adds the pair or changes its *)
(* value (a deleted one is found, and changed); DELETE removes a value.       *)
Run(M, op) ==
    LET i   == btree_find_kvpair(M.leaf, op.k)
        pos == kvhash_search(M.H, op.k)
    IN  IF i # 0 THEN [M EXCEPT !.leaf.pairs[i].v = op.v]
        ELSE IF M.H.slots[pos].k # NoKey THEN [M EXCEPT !.H.slots[pos].v = op.v]
        ELSE IF op.v = Null THEN M
        ELSE btree_mutate_add(M, pos, op.k, op.v)

(* Two sorted sequences of pairs, merged: a pair of b goes first if its key   *)
(* is smaller than that of a's.                                               *)
RECURSIVE MergePairs(_, _, _)
MergePairs(a, b, m) ==
    IF a = <<>> THEN b
    ELSE IF b # <<>> /\ kvldskey_cmp2(Head(a).k, Head(b).k, m) > 0
    THEN <<Head(b)>> \o MergePairs(a, Tail(b), m)
    ELSE <<Head(a)>> \o MergePairs(Tail(a), b, m)

btree_mutate_immutable(M) ==
    LET Live(s) == SelectSeq(s, LAMBDA p : p.v # Null)
        slots   == [i \in 1 .. M.H.nslots |-> [k |-> M.H.slots[i - 1].k,
                                               v |-> M.H.slots[i - 1].v]]
        added   == SortSeq(Live(slots),
                           LAMBDA p, q : kvldskey_cmp2(p.k, q.k, M.leaf.mn) < 0)
    IN  [M.leaf EXCEPT !.pairs = MergePairs(Live(@), added, M.leaf.mn)]

(* batch_dirty's test: does the request change the leaf as it was found?      *)
HasEffect(N, op) ==
    op.v # Touch /\ (op.v = Null => btree_find_kvpair(N, op.k) # 0)

(* The requests on a leaf, in order.                                          *)
RECURSIVE RunAll(_, _)
RunAll(M, ops) ==
    IF M.leaf.ty # "leaf" \/ ops = <<>> THEN M ELSE RunAll(Run(M, Head(ops)), Tail(ops))

(* The requests of a batch which belong to one leaf.  A leaf which only the   *)
(* cleaner wants is dirtied and stays as it is.                               *)
LeafBatch(N, ops) ==
    IF \E i \in DOMAIN ops : HasEffect(N, ops[i])
    THEN btree_mutate_immutable(
             RunAll(btree_mutate_mutable(btree_node_dirty(N)),
                    SelectSeq(ops, LAMBDA o : o.v # Touch)))
    ELSE IF \E i \in DOMAIN ops : ops[i].v = Touch THEN btree_node_dirty(N)
    ELSE N
=============================================================================
