------------------------------ MODULE PtrHeap ------------------------------
(***************************************************************************)
(* libcperciva/datastruct/ptrheap.c: a heap in an array.  Positions count  *)
(* from 1 here, so that the parent of i is i \div 2.  rc is what the       *)
(* caller was last told of each element's position (setreccookie); key is  *)
(* the order compar computes, as a function on the elements.               *)
(***************************************************************************)
EXTENDS Naturals, Sequences

ptrheap_init == [elems |-> <<>>, rc |-> <<>>]

setreccookie(rc, x, i) == [y \in DOMAIN rc \cup {x} |-> IF y = x THEN i ELSE rc[y]]

swap(H, i, j) ==
    [elems |-> [H.elems EXCEPT ![i] = H.elems[j], ![j] = H.elems[i]],
     rc |-> setreccookie(setreccookie(H.rc, H.elems[j], i), H.elems[i], j)]

RECURSIVE heapifyup(_, _, _)
heapifyup(H, i, key) ==
    IF i = 1 \/ key[H.elems[i]] >= key[H.elems[i \div 2]] THEN H
    ELSE heapifyup(swap(H, i, i \div 2), i \div 2, key)

\* The smaller of position i and child c, among the first N positions.
Lesser(H, i, c, N, key) ==
    IF c <= N /\ key[H.elems[i]] > key[H.elems[IF c <= N THEN c ELSE i]] THEN c ELSE i

RECURSIVE heapify(_, _, _, _)
heapify(H, i, N, key) ==
    LET min == Lesser(H, Lesser(H, i, 2 * i, N, key), 2 * i + 1, N, key)
    IN IF min = i THEN H ELSE heapify(swap(H, min, i), min, N, key)

ptrheap_add(H, x, key) ==
    LET n == Len(H.elems) + 1
    IN heapifyup([elems |-> Append(H.elems, x), rc |-> setreccookie(H.rc, x, n)],
                 n, key)

ptrheap_getmin(H) == H.elems[1]

\* The last element takes position r, moves up or down, and the end goes.
ptrheap_delete(H, r, key) ==
    LET n == Len(H.elems)
        M == [elems |-> [H.elems EXCEPT ![r] = H.elems[n]],
              rc |-> setreccookie(H.rc, H.elems[n], r)]
        S == IF r = n THEN H
             ELSE IF r > 1 /\ key[M.elems[r]] < key[M.elems[r \div 2]]
             THEN heapifyup(swap(M, r, r \div 2), r \div 2, key)
             ELSE heapify(M, r, n, key)
    IN [elems |-> SubSeq(S.elems, 1, n - 1),
        rc |-> [x \in DOMAIN S.rc \ {H.elems[r]} |-> S.rc[x]]]

ptrheap_decrease(H, r, key) == heapifyup(H, r, key)

ptrheap_increase(H, r, key) == heapify(H, r, Len(H.elems), key)

ptrheap_increasemin(H, key) == heapify(H, 1, Len(H.elems), key)

=============================================================================
