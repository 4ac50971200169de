---------------------------- MODULE MCKvldsPages ----------------------------
(* Keys of up to two bytes, values of two sizes.  A page has 38 units, the    *)
(* least for which btree_init accepts keys of 2 bytes and values of 8.        *)
EXTENDS KvldsPages

Bytes == 0 .. 3
K == <<<<>>, <<0>>, <<0, 0>>, <<0, 1>>, <<0, 2>>, <<0, 3>>, <<1>>, <<1, 0>>, <<1, 1>>,
       <<1, 2>>, <<1, 3>>, <<2>>, <<2, 0>>, <<2, 1>>, <<2, 2>>, <<2, 3>>, <<3>>, <<3, 0>>,
       <<3, 1>>, <<3, 2>>, <<3, 3>>>>
MCKeys == Range(K)

Large == [i \in 1 .. 8 |-> 7]
Small == <<>>

(* A request with the value v for every step-th key from the lo-th to the     *)
(* hi-th, in the order of the keys or the reverse.                            *)
Each(lo, hi, step, v) ==
    [i \in 1 .. 1 + ((hi - lo) \div step) |-> [k |-> K[lo + (i - 1) * step], v |-> v]]

MCBatches ==
    {Reverse(Each(1, 21, 2, Large)), Each(2, 21, 2, Large),
     Each(1, 21, 1, Null), Each(3, 21, 1, Null), Each(1, 18, 1, Null), Each(6, 15, 1, Null),
     Each(1, 21, 2, Null), Each(4, 12, 1, Small), Each(2, 20, 3, Small), Each(9, 21, 3, Large),
     Each(2, 2, 1, Touch), Each(20, 20, 1, Touch), Each(1, 1, 1, Small),
     Each(8, 8, 1, Large), Each(21, 21, 1, Null),
     Each(1, 3, 2, Small) \o Each(9, 11, 2, Small), Each(5, 7, 2, Null)}

MCRanges == {<<<<>>, <<>>>>, <<<<0, 1>>, <<2, 1>>>>, <<<<1>>, <<>>>>, <<<<>>, <<1, 2>>>>}
=============================================================================
