----------------------------- MODULE ServerPool -----------------------------
(***************************************************************************)
(* lib/serverpool/serverpool.c: the addresses of DynamoDB, fed by a child  *)
(* process that looks them up again and again.  In place of generation     *)
(* numbers an address has its age: 0 in the pool's generation, 1 in the    *)
(* one before, 2 in any older one.  A lookup that succeeds has an address. *)
(***************************************************************************)
EXTENDS Naturals, Sequences, SequencesExt

CONSTANT Addresses

VARIABLES
    A,          \* the addresses, in the order of the array
    reading,    \* what network_read waits for: a length, or an address
    pipe,       \* what the child has written: lengths before addresses, or 0
    got,        \* the addresses read since the last generation ended
    last        \* the addresses of the last complete generation

spvars == <<A, reading, pipe, got, last>>

addaddr(P, a) ==
    IF \E i \in DOMAIN P : P[i].sa = a
    THEN [i \in DOMAIN P |-> IF P[i].sa = a THEN [sa |-> a, age |-> 0, live |-> TRUE] ELSE P[i]]
    ELSE Append(P, [sa |-> a, age |-> 0, live |-> TRUE])

\* Mutant: an address of the previous generation is not kept.
RECURSIVE PruneFrom0(_, _)
PruneFrom0(P, i) ==
    IF i > Len(P) THEN P
    ELSE IF P[i].age = 0 \/ P[i].live THEN PruneFrom0(P, i + 1)
    ELSE PruneFrom0(SubSeq([P EXCEPT ![i] = P[Len(P)]], 1, Len(P) - 1), i + 1)

\* pruneaddrs from position i on.  The address that takes the place of the one
\* removed is not looked at.
RECURSIVE pruneaddrs(_, _)
pruneaddrs(P, i) ==
    IF i > Len(P) THEN P
    ELSE IF P[i].age <= 1 \/ P[i].live THEN pruneaddrs(P, i + 1)
    ELSE pruneaddrs(SubSeq([P EXCEPT ![i] = P[Len(P)]], 1, Len(P) - 1), i + 1)

Older(P) == [i \in DOMAIN P |-> [P[i] EXCEPT !.age = IF @ = 2 THEN 2 ELSE @ + 1]]

\* The first lookup is generation 0; generation 1 is to be read next.
serverpool_create ==
    /\ \E S \in SUBSET Addresses \ {{}} :
          /\ A = Older(FoldLeft(addaddr, <<>>, SetToSeq(S)))
          /\ last = S
    /\ reading = "len" /\ pipe = <<>> /\ got = {}

\* The child: a lookup that fails sends nothing.
forkdns ==
    /\ pipe = <<>> /\ reading = "len"
    /\ \E S \in SUBSET Addresses \ {{}} :
          pipe' = SetToSeq(S) \o <<"end">>
    /\ UNCHANGED <<A, reading, got, last>>

callback_read_len ==
    /\ reading = "len" /\ pipe # <<>>
    /\ IF Head(pipe) = "end"
       THEN /\ A' = pruneaddrs(Older(A), 1)
            /\ last' = got /\ got' = {}
            /\ pipe' = Tail(pipe) /\ UNCHANGED reading
       ELSE reading' = "addr" /\ UNCHANGED <<A, pipe, got, last>>

callback_read_addr ==
    /\ reading = "addr"
    /\ A' = addaddr(A, Head(pipe))
    /\ got' = got \cup {Head(pipe)}
    /\ reading' = "len" /\ pipe' = Tail(pipe)
    /\ UNCHANGED last

\* An address was last looked up ttl seconds ago.
Expire ==
    /\ \E i \in DOMAIN A : A[i].live /\ A' = [A EXCEPT ![i].live = FALSE]
    /\ UNCHANGED <<reading, pipe, got, last>>

serverpool_pick ==
    /\ A' = pruneaddrs(A, 1)
    /\ UNCHANGED <<reading, pipe, got, last>>

Init == serverpool_create

Next == forkdns \/ callback_read_len \/ callback_read_addr \/ Expire \/ serverpool_pick

\* The assertion of serverpool_pick, and why it holds: whenever a request is
\* made, even while a generation is half read and all TTLs have run out, the
\* pool has each address of the last complete lookup and of the one being read,
\* and none twice.
PoolCurrent ==
    /\ last # {} /\ last \cup got \subseteq {A[i].sa : i \in DOMAIN A}
    /\ \A i, j \in DOMAIN A : A[i].sa = A[j].sa => i = j

=============================================================================
