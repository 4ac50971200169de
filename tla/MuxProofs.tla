----------------------------- MODULE MuxProofs ------------------------------
(***************************************************************************)
(* Proofs about mux/dispatch.c with lib/wire/wire_requestqueue.c, for any  *)
(* number of clients, connections, requests and listening sockets.         *)
(***************************************************************************)
EXTENDS Mux, SetFacts, TLAPS

\* The provers of a step that names none, and the seconds each has.
USE SMTT(30), ZenonT(30)

-----------------------------------------------------------------------------
(***************************************************************************)
(* The inductive invariant.  The three properties hold each other up: a    *)
(* response reaches the right connection because the connection of a       *)
(* pending request cannot have been dropped, which is what the count says; *)
(* and accepting starts again once because a connection is dropped once.   *)
(***************************************************************************)
ReqMap == UNION {[S -> Request] : S \in SUBSET Nat}
Packet == [ID : Int, body : Request \cup {<<>>}]

TypeQ ==
    /\ q \in [reqs : ReqMap, next : Nat,
              failed : BOOLEAN, reading : BOOLEAN, WQ : Seq(Packet)]
    /\ DOMAIN q.reqs \subseteq 0 .. q.next - 1
    /\ imm \in Seq(Request)
    /\ busy \in {"none", "readpackets"} \cup Clients
    /\ wire \subseteq Packet /\ resp \in Seq(Packet)

State == [accept_cookie : SUBSET Listeners, sock_active : SUBSET Clients,
          reading : SUBSET Clients, nrequests : [Clients -> Nat],
          failed : BOOLEAN, error : BOOLEAN]

TypeD ==
    /\ d \in State /\ IsFiniteSet(d.sock_active)
    /\ main \in {"running", "done", "error"}

TypeC ==
    /\ backlog \subseteq Clients /\ gone \subseteq Clients
    /\ asked \in [Clients -> Nat] /\ since \in [Clients -> Nat]
    /\ inbox \in [Clients -> Seq(Nat)]
    /\ out \in [Clients -> SUBSET [ID : Nat, body : Request]]
    /\ \A c \in Clients : asked[c] <= MaxReq[c] /\ since[c] <= asked[c]

\* A connection is read only while it is in use, and not by two.
Reading ==
    /\ d.reading \subseteq d.sock_active
    /\ busy \in Clients => busy \in d.sock_active \ d.reading
    /\ backlog \cap d.sock_active = {}

Counts ==
    \A c \in Clients :
        /\ d.nrequests[c] = Pending(c)
        /\ Pending(c) > 0 => c \in d.sock_active
        /\ c \in d.sock_active => c \in d.reading \/ busy = c \/ d.nrequests[c] > 0

\* Also after a failure, nothing is accepted at the limit.
Accepting(s) ==
    /\ ~s.error
    /\ s.accept_cookie \in {{}, Listeners}
    /\ Cardinality(s.sock_active) <= nsock_active_max
    /\ s.accept_cookie # {} => Cardinality(s.sock_active) < nsock_active_max
    /\ ~s.failed /\ Cardinality(s.sock_active) < nsock_active_max
          => s.accept_cookie = Listeners

Accepts ==
    /\ main # "error" => ~d.error
    /\ ~d.error => Accepting(d)

\* A packet under way carries an ID that was given out, and if that is still
\* pending the request it was given to.
Carried(p, Q) ==
    p.ID # Bogus => p.ID \in 0 .. Q.next - 1
                    /\ (p.ID \in DOMAIN Q.reqs => p.body = Q.reqs[p.ID])

Packets ==
    /\ \A i \in DOMAIN q.WQ : Carried(q.WQ[i], q)
    /\ \A p \in wire : Carried(p, q)
    /\ \A i \in DOMAIN resp : Carried(resp[i], q)

\* What is read, pending or answered belongs to the client's last connection.
Current ==
    /\ \A c \in Clients : \A i \in DOMAIN inbox[c] : inbox[c][i] \in since[c] + 1 .. asked[c]
    /\ \A id \in DOMAIN q.reqs : q.reqs[id].ID > since[q.reqs[id].conn]
    /\ \A c \in Clients \ (d.sock_active \cup backlog) : inbox[c] = <<>>
    /\ \A c \in Clients \ d.sock_active : out[c] = {}
    /\ \A c \in Clients : \A r \in out[c] :
          r.body = [conn |-> c, ID |-> r.ID] /\ r.ID > since[c] /\ r.ID <= MaxReq[c]

MuxInv ==
    TypeQ /\ TypeD /\ TypeC /\ Reading /\ Counts /\ Accepts /\ Packets /\ Current

-----------------------------------------------------------------------------
(* Counting requests in maps and sequences.                                *)

\* The fields of a request.
LEMMA RequestFields ==
    ASSUME NEW F \in Request
    PROVE  /\ F.conn \in Clients /\ F.ID \in 1 .. MaxReq[F.conn]
           /\ F = [conn |-> F.conn, ID |-> F.ID]
  BY DEF Request

\* A finite map has finitely many requests of a connection.
LEMMA OfFinite ==
    ASSUME SetFacts, NEW f, NEW c, IsFiniteSet(DOMAIN f)
    PROVE  IsFiniteSet(Of(f, c)) /\ Cardinality(Of(f, c)) \in Nat
  <1>1. Of(f, c) \in SUBSET DOMAIN f
    BY DEF Of
  <1>2. IsFiniteSet(Of(f, c))
    BY <1>1 DEF SetFacts, SubsetSize
  <1> QED
    BY <1>2 DEF SetFacts, FiniteSize

\* The same for sequences.
LEMMA SeqOfFinite ==
    ASSUME SetFacts, NEW s \in Seq(Request), NEW c
    PROVE  IsFiniteSet(Of(s, c)) /\ Cardinality(Of(s, c)) \in Nat
  <1>1. DOMAIN s = 1 .. Len(s) /\ Len(s) \in Nat
    OBVIOUS
  <1>2. IsFiniteSet(DOMAIN s)
    BY <1>1 DEF SetFacts, IntervalSize
  <1> QED
    BY <1>2, OfFinite

\* Two sets between which a function goes one to one have the same size.
LEMMA SameSize ==
    ASSUME SetFacts, NEW S, NEW T, IsFiniteSet(S), NEW f \in [S -> T],
           \A x, y \in S : f[x] = f[y] => x = y,
           \A y \in T : \E x \in S : f[x] = y
    PROVE  IsFiniteSet(T) /\ Cardinality(T) = Cardinality(S)
  <1>1. OneToOne(f, S) /\ Onto(f, S, T)
    BY DEF OneToOne, Onto
  <1> QED
    BY <1>1 DEF SetFacts, MatchSize

\* One more request at the end.
LEMMA CountAppend ==
    ASSUME SetFacts, NEW s \in Seq(Request), NEW F \in Request, NEW c
    PROVE  Cardinality(Of(Append(s, F), c))
             = Cardinality(Of(s, c)) + IF F.conn = c THEN 1 ELSE 0
  <1>1. IsFiniteSet(Of(s, c)) /\ Cardinality(Of(s, c)) \in Nat
    BY SeqOfFinite
  <1>2. Len(s) + 1 \notin Of(s, c)
    BY DEF Of
  <1>3. CASE F.conn = c
    <2>1. Of(Append(s, F), c) = Of(s, c) \cup {Len(s) + 1}
      BY <1>3 DEF Of
    <2> QED
      BY ZenonT(60), <1>1, <1>2, <1>3, <2>1 DEF SetFacts, AddSize
  <1>4. CASE F.conn # c
    <2>1. Of(Append(s, F), c) = Of(s, c)
      BY <1>4 DEF Of
    <2> QED
      BY <1>1, <1>4, <2>1
  <1> QED
    BY <1>3, <1>4

\* One request less at the front.
LEMMA CountTail ==
    ASSUME SetFacts, NEW s \in Seq(Request), s # <<>>, NEW c
    PROVE  Cardinality(Of(s, c))
             = Cardinality(Of(Tail(s), c)) + IF Head(s).conn = c THEN 1 ELSE 0
  <1> DEFINE U == Of(s, c) \ {1}
             f == [i \in U |-> i - 1]
  <1>1. IsFiniteSet(Of(s, c)) /\ Cardinality(Of(s, c)) \in Nat
    BY SeqOfFinite
  <1>2. 1 \in Of(s, c) <=> Head(s).conn = c
    BY DEF Of
  <1>3. IsFiniteSet(U) /\ Cardinality(Of(s, c)) = Cardinality(U) + IF Head(s).conn = c THEN 1 ELSE 0
    <2>1. /\ IsFiniteSet(U)
          /\ Cardinality(U) = IF 1 \in Of(s, c) THEN Cardinality(Of(s, c)) - 1
                              ELSE Cardinality(Of(s, c))
      BY <1>1 DEF SetFacts, RemoveSize
    <2> QED
      BY <1>1, <1>2, <2>1
  <1>4. f \in [U -> Of(Tail(s), c)]
    BY DEF Of
  <1>5. \A x, y \in U : f[x] = f[y] => x = y
    BY DEF Of
  <1>6. \A y \in Of(Tail(s), c) : \E x \in U : f[x] = y
    <2>1. SUFFICES ASSUME NEW y \in Of(Tail(s), c) PROVE y + 1 \in U /\ f[y + 1] = y
      BY Zenon
    <2> QED
      BY <2>1 DEF Of
  <1>7. Cardinality(Of(Tail(s), c)) = Cardinality(U)
    <2> HIDE DEF U, f
    <2> QED
      BY Zenon, <1>3, <1>4, <1>5, <1>6, SameSize
  <1> QED
    BY <1>3, <1>7

\* Two sequences.
LEMMA CountConcat ==
    ASSUME SetFacts, NEW s \in Seq(Request), NEW t \in Seq(Request), NEW c
    PROVE  Cardinality(Of(s \o t, c)) = Cardinality(Of(s, c)) + Cardinality(Of(t, c))
  <1> DEFINE V == {i \in Of(s \o t, c) : i > Len(s)}
             f == [i \in Of(t, c) |-> i + Len(s)]
  <1>1. /\ IsFiniteSet(Of(s, c)) /\ Cardinality(Of(s, c)) \in Nat
        /\ IsFiniteSet(Of(t, c)) /\ Cardinality(Of(t, c)) \in Nat
    BY SeqOfFinite
  <1>2. /\ s \o t \in Seq(Request) /\ Len(s \o t) = Len(s) + Len(t)
        /\ \A i \in 1 .. Len(s) + Len(t) :
              (s \o t)[i] = IF i <= Len(s) THEN s[i] ELSE t[i - Len(s)]
    OBVIOUS
  <1>3. f \in [Of(t, c) -> V]
    BY <1>2 DEF Of
  <1>4. \A x, y \in Of(t, c) : f[x] = f[y] => x = y
    BY DEF Of
  <1>5. \A y \in V : \E x \in Of(t, c) : f[x] = y
    <2>1. SUFFICES ASSUME NEW y \in V PROVE y - Len(s) \in Of(t, c) /\ f[y - Len(s)] = y
      BY Zenon
    <2> QED
      BY <1>2 DEF Of
  <1>6. IsFiniteSet(V) /\ Cardinality(V) = Cardinality(Of(t, c))
    BY ZenonT(60), <1>1, <1>3, <1>4, <1>5, SameSize
  <1>7. Of(s \o t, c) = Of(s, c) \cup V
    BY <1>2 DEF Of
  <1>8. Of(s, c) \cap V = {}
    BY DEF Of
  <1> HIDE DEF V
  <1>9. Cardinality(Of(s, c) \cup V)
          = Cardinality(Of(s, c)) + Cardinality(V) - Cardinality(Of(s, c) \cap V)
    BY Zenon, <1>1, <1>6 DEF SetFacts, UnionSize
  <1>10. Cardinality(Of(s, c) \cap V) = 0
    BY Zenon, <1>8 DEF SetFacts, EmptySize
  <1> QED
    BY <1>1, <1>6, <1>7, <1>9, <1>10

\* The requests of a map, in the order of their IDs.
LEMMA CountInOrder ==
    ASSUME SetFacts, NEW reqs, reqs \in [DOMAIN reqs -> Request], DOMAIN reqs \subseteq Nat,
           IsFiniteSet(DOMAIN reqs), NEW ids \in InOrder(DOMAIN reqs), NEW c
    PROVE  LET t == [i \in DOMAIN ids |-> reqs[ids[i]]]
           IN  t \in Seq(Request) /\ Cardinality(Of(t, c)) = Cardinality(Of(reqs, c))
  <1> DEFINE n == Cardinality(DOMAIN reqs)
             t == [i \in DOMAIN ids |-> reqs[ids[i]]]
             f == [i \in Of(t, c) |-> ids[i]]
  <1>1. n \in Nat /\ IsFiniteSet(1 .. n) /\ Cardinality(1 .. n) = n
    <2>1. n \in Nat
      BY DEF SetFacts, FiniteSize
    <2> HIDE DEF n
    <2> QED
      BY <2>1 DEF SetFacts, IntervalSize
  <1>2. /\ ids \in [1 .. n -> DOMAIN reqs]
        /\ \A i, j \in 1 .. n : i < j => ids[i] < ids[j]
    BY DEF InOrder
  <1>3. \A i, j \in 1 .. n : ids[i] = ids[j] => i = j
    <2>1. SUFFICES ASSUME NEW i \in 1 .. n, NEW j \in 1 .. n, ids[i] = ids[j], i # j PROVE FALSE
      OBVIOUS
    <2>2. ids[i] \in Nat /\ ids[j] \in Nat
      BY <1>2
    <2>3. i < j \/ j < i
      BY <1>1, <2>1
    <2> QED
      BY <1>2, <2>1, <2>2, <2>3
  <1>4. OneToOne(ids, 1 .. n)
    BY <1>3 DEF OneToOne
  <1>5. Onto(ids, 1 .. n, DOMAIN reqs)
    BY <1>1, <1>2, <1>4 DEF SetFacts, MatchSize
  <1>6. t \in [1 .. n -> Request]
    BY <1>2
  <1>7. t \in Seq(Request)
    BY <1>1, <1>6
  <1>8. IsFiniteSet(Of(t, c))
    BY <1>7, SeqOfFinite
  <1>9. f \in [Of(t, c) -> Of(reqs, c)]
    BY <1>2 DEF Of
  <1>10. \A x, y \in Of(t, c) : f[x] = f[y] => x = y
    BY <1>2, <1>3 DEF Of
  <1>11. \A y \in Of(reqs, c) : \E x \in Of(t, c) : f[x] = y
    <2>1. SUFFICES ASSUME NEW y \in Of(reqs, c) PROVE \E x \in Of(t, c) : f[x] = y
      OBVIOUS
    <2>2. PICK x \in 1 .. n : ids[x] = y
      BY <1>5, <2>1 DEF Onto, Of
    <2>3. x \in Of(t, c)
      BY <1>2, <2>1, <2>2 DEF Of
    <2> QED
      BY <2>2, <2>3
  <1>12. Cardinality(Of(t, c)) = Cardinality(Of(reqs, c))
    BY Zenon, <1>8, <1>9, <1>10, <1>11, SameSize
  <1> QED
    BY <1>7, <1>12

-----------------------------------------------------------------------------
(* What the request queue does to the callbacks to come.                   *)

\* The map of pending requests.
LEMMA ReqsType ==
    ASSUME SetFacts, TypeQ
    PROVE  /\ q.reqs \in [DOMAIN q.reqs -> Request] /\ DOMAIN q.reqs \subseteq Nat
           /\ IsFiniteSet(DOMAIN q.reqs) /\ q.next \in Nat /\ q.next \notin DOMAIN q.reqs
           /\ \A c : Cardinality(Of(q.reqs, c)) \in Nat /\ Cardinality(Of(imm, c)) \in Nat
                     /\ IsFiniteSet(Of(q.reqs, c))
  <1>1. /\ q.reqs \in [DOMAIN q.reqs -> Request] /\ DOMAIN q.reqs \subseteq Nat
        /\ q.next \in Nat /\ q.next \notin DOMAIN q.reqs
    BY DEF TypeQ, ReqMap
  <1>2. IsFiniteSet(0 .. q.next - 1)
    <2>1. 0 \in Int /\ q.next - 1 \in Int
      BY <1>1
    <2> QED
      BY <2>1 DEF SetFacts, IntervalSize
  <1>3. IsFiniteSet(DOMAIN q.reqs)
    <2>1. DOMAIN q.reqs \in SUBSET (0 .. q.next - 1)
      BY DEF TypeQ
    <2> QED
      BY Zenon, <1>2, <2>1 DEF SetFacts, SubsetSize
  <1>4. imm \in Seq(Request)
    BY DEF TypeQ
  <1>5. ASSUME NEW c
        PROVE  /\ Cardinality(Of(q.reqs, c)) \in Nat /\ IsFiniteSet(Of(q.reqs, c))
               /\ Cardinality(Of(imm, c)) \in Nat
    BY <1>3, <1>4, OfFinite, SeqOfFinite
  <1> QED
    BY <1>1, <1>3, <1>5

\* A request added is one callback more for its connection.
LEMMA AddPending ==
    ASSUME SetFacts, TypeQ, NEW F \in Request, RequestqueueAdd(F, F)
    PROVE  \A c : Pending(c)' = Pending(c) + IF F.conn = c THEN 1 ELSE 0
  <1> SUFFICES ASSUME NEW c
               PROVE Pending(c)' = Pending(c) + IF F.conn = c THEN 1 ELSE 0
    OBVIOUS
  <1>1. CASE q.failed
    <2>1. imm' = Append(imm, F) /\ q' = q
      BY <1>1 DEF RequestqueueAdd
    <2>2. Cardinality(Of(imm', c)) = Cardinality(Of(imm, c)) + IF F.conn = c THEN 1 ELSE 0
      BY <2>1, CountAppend DEF TypeQ
    <2> QED
      BY <2>1, <2>2, ReqsType DEF Pending
  <1>2. CASE ~q.failed
    <2>1. /\ imm' = imm
          /\ q'.reqs = [id \in DOMAIN q.reqs \cup {q.next} |-> IF id = q.next THEN F ELSE q.reqs[id]]
      BY Zenon, <1>2 DEF RequestqueueAdd, TypeQ
    <2>2. CASE F.conn = c
      <3>1. Of(q'.reqs, c) = Of(q.reqs, c) \cup {q.next}
        BY <2>1, <2>2, ReqsType DEF Of
      <3>2. q.next \notin Of(q.reqs, c)
        BY ReqsType DEF Of
      <3>3. Cardinality(Of(q.reqs, c) \cup {q.next}) = Cardinality(Of(q.reqs, c)) + 1
        BY Zenon, <3>2, ReqsType DEF SetFacts, AddSize
      <3>4. Pending(c)' = Cardinality(Of(q.reqs, c)) + 1 + Cardinality(Of(imm, c))
        BY <2>1, <3>1, <3>3 DEF Pending
      <3> QED
        BY <2>2, <3>4, ReqsType DEF Pending
    <2>3. CASE F.conn # c
      <3>1. Of(q'.reqs, c) = Of(q.reqs, c)
        BY <2>1, <2>3, ReqsType DEF Of
      <3> QED
        BY <2>1, <2>3, <3>1, ReqsType DEF Pending
    <2> QED
      BY <2>2, <2>3
  <1> QED
    BY <1>1, <1>2

\* When the queue fails no callback is lost, and none added.
LEMMA FailPending ==
    ASSUME SetFacts, TypeQ, failqueue
    PROVE  imm' \in Seq(Request) /\ \A c : Pending(c)' = Pending(c)
  <1>1. PICK ids \in InOrder(DOMAIN q.reqs) :
           imm' = imm \o [i \in DOMAIN ids |-> q.reqs[ids[i]]]
    BY Zenon DEF failqueue
  <1> DEFINE t == [i \in DOMAIN ids |-> q.reqs[ids[i]]]
  <1>2. t \in Seq(Request) /\ \A c : Cardinality(Of(t, c)) = Cardinality(Of(q.reqs, c))
    BY Zenon, ReqsType, CountInOrder
  <1>3. imm \in Seq(Request)
    BY DEF TypeQ
  <1>4. imm' = imm \o t
    BY <1>1
  <1> HIDE DEF t
  <1>5. \A c : Cardinality(Of(imm', c)) = Cardinality(Of(imm, c)) + Cardinality(Of(q.reqs, c))
    BY <1>2, <1>3, <1>4, CountConcat
  <1>6. q'.reqs = <<>>
    BY DEF failqueue, TypeQ
  <1>7. \A c : Cardinality(Of(q'.reqs, c)) = 0
    <2>1. \A c : Of(<<>>, c) = {}
      BY DEF Of
    <2> QED
      BY Zenon, <1>6, <2>1 DEF SetFacts, EmptySize
  <1> QED
    BY <1>2, <1>3, <1>4, <1>5, <1>7, ReqsType DEF Pending

\* A response takes the callback of its request.
LEMMA RemovePending ==
    ASSUME SetFacts, TypeQ, NEW ID \in DOMAIN q.reqs, imm' = imm,
           q'.reqs = [id \in DOMAIN q.reqs \ {ID} |-> q.reqs[id]]
    PROVE  \A c : Pending(c) = Pending(c)' + IF q.reqs[ID].conn = c THEN 1 ELSE 0
  <1> SUFFICES ASSUME NEW c
               PROVE Pending(c) = Pending(c)' + IF q.reqs[ID].conn = c THEN 1 ELSE 0
    OBVIOUS
  <1>1. Of(q'.reqs, c) = Of(q.reqs, c) \ {ID}
    BY DEF Of
  <1>2. ID \in Of(q.reqs, c) <=> q.reqs[ID].conn = c
    BY DEF Of
  <1>3. Cardinality(Of(q.reqs, c) \ {ID})
           = Cardinality(Of(q.reqs, c)) - IF ID \in Of(q.reqs, c) THEN 1 ELSE 0
    <2>1. IsFiniteSet(Of(q.reqs, c))
      BY ReqsType
    <2> QED
      BY <2>1, Zenon DEF SetFacts, RemoveSize
  <1>4. Pending(c)' = Cardinality(Of(q.reqs, c) \ {ID}) + Cardinality(Of(imm, c))
    BY <1>1 DEF Pending
  <1>5. Cardinality(Of(q.reqs, c)) \in Nat /\ Cardinality(Of(imm, c)) \in Nat
    BY ReqsType
  <1> QED
    BY <1>2, <1>3, <1>4, <1>5 DEF Pending

\* failreq makes the first of the callbacks scheduled.
LEMMA FailreqPending ==
    ASSUME SetFacts, TypeQ, failreq
    PROVE  \A c : Pending(c) = Pending(c)' + IF Head(imm).conn = c THEN 1 ELSE 0
  <1>1. imm \in Seq(Request) /\ imm # <<>> /\ imm' = Tail(imm) /\ q' = q
    BY DEF TypeQ, failreq
  <1>2. \A c : Cardinality(Of(imm, c)) = Cardinality(Of(imm', c))
                                         + IF Head(imm).conn = c THEN 1 ELSE 0
    BY <1>1, CountTail
  <1>3. Tail(imm) \in Seq(Request)
    BY <1>1
  <1>4. \A c : Cardinality(Of(Tail(imm), c)) \in Nat
    BY Zenon, <1>3, SeqOfFinite
  <1> QED
    BY <1>1, <1>2, <1>4, ReqsType DEF Pending

-----------------------------------------------------------------------------
(* Dropping connections.                                                   *)

\* dropconn of connections in use: accepting starts again exactly when it has
\* to, and never twice.
LEMMA Dropconn ==
    ASSUME SetFacts, NEW s \in State, IsFiniteSet(s.sock_active), Accepting(s),
           NEW C \in SUBSET s.sock_active
    PROVE  /\ dropconn(s, C) \in State /\ Accepting(dropconn(s, C))
           /\ IsFiniteSet(dropconn(s, C).sock_active)
           /\ dropconn(s, C).sock_active = s.sock_active \ C
           /\ dropconn(s, C).reading = s.reading
           /\ dropconn(s, C).nrequests = s.nrequests
           /\ dropconn(s, C).failed = s.failed
  <1> DEFINE t == [s EXCEPT !.sock_active = @ \ C]
  <1>1. s.sock_active \ C \in SUBSET s.sock_active
    OBVIOUS
  <1>2. /\ IsFiniteSet(s.sock_active \ C)
        /\ Cardinality(s.sock_active \ C) <= Cardinality(s.sock_active)
        /\ Cardinality(s.sock_active) = Cardinality(s.sock_active \ C)
              => s.sock_active = s.sock_active \ C
        /\ Cardinality(s.sock_active \ C) \in Nat /\ Cardinality(s.sock_active) \in Nat
    BY <1>1 DEF SetFacts, SubsetSize, FiniteSize
  <1>3. /\ t \in State /\ t.sock_active = s.sock_active \ C /\ t.reading = s.reading
        /\ t.nrequests = s.nrequests /\ t.failed = s.failed /\ t.error = s.error
        /\ t.accept_cookie = s.accept_cookie
    BY DEF State
  <1>4. nsock_active_max \in Nat /\ Listeners # {}
    BY MuxAssumption
  <1>5. CASE C # {} /\ Cardinality(s.sock_active) = nsock_active_max
    <2>1. s.accept_cookie = {}
      BY <1>5, <1>2, <1>4 DEF Accepting
    <2>2. dropconn(s, C) = [t EXCEPT !.accept_cookie = Listeners]
      BY <1>5, <1>3, <2>1 DEF dropconn, accept_start
    <2>3. Cardinality(s.sock_active \ C) < nsock_active_max
      BY <1>5, <1>2
    <2> HIDE DEF t
    <2>4. /\ dropconn(s, C) \in State
          /\ dropconn(s, C).accept_cookie = Listeners
          /\ dropconn(s, C).sock_active = t.sock_active
          /\ dropconn(s, C).reading = t.reading /\ dropconn(s, C).error = t.error
          /\ dropconn(s, C).nrequests = t.nrequests /\ dropconn(s, C).failed = t.failed
      BY <2>2, <1>3 DEF State
    <2> QED
      BY <1>2, <1>3, <1>4, <2>3, <2>4 DEF Accepting
  <1>6. CASE ~(C # {} /\ Cardinality(s.sock_active) = nsock_active_max)
    <2>1. dropconn(s, C) = t
      BY <1>6 DEF dropconn
    <2>2. C = {} => s.sock_active \ C = s.sock_active
      OBVIOUS
    <2>3. Cardinality(s.sock_active) < nsock_active_max \/ s.sock_active \ C = s.sock_active
      BY <1>6, <1>2, <1>4, <2>2 DEF Accepting
    <2> HIDE DEF t
    <2>4. Accepting(t)
      BY <1>2, <1>3, <1>4, <2>3 DEF Accepting
    <2> QED
      BY <1>2, <1>3, <2>1, <2>4
  <1> QED
    BY <1>5, <1>6

\* What an answer for the connection c may do to the dispatcher's state: only
\* connections without anything to come are dropped, and none is left that is
\* neither read nor owed anything.
Answer(s, t, c) ==
    /\ t \in State /\ IsFiniteSet(t.sock_active) /\ Accepting(t)
    /\ t.nrequests = [s.nrequests EXCEPT ![c] = @ - 1]
    /\ t.sock_active \subseteq s.sock_active
    /\ t.reading \subseteq s.reading /\ t.reading \subseteq t.sock_active
    /\ \A e \in s.sock_active \ t.sock_active : t.nrequests[e] = 0
    /\ \A e \in t.sock_active :
          (e \in s.reading \/ s.nrequests[e] > 0) => (e \in t.reading \/ t.nrequests[e] > 0)

\* reqdone and what it drops.
LEMMA Reqdone ==
    ASSUME SetFacts, NEW s \in State, IsFiniteSet(s.sock_active), Accepting(s),
           s.reading \subseteq s.sock_active,
           NEW c \in s.sock_active, s.nrequests[c] > 0
    PROVE  /\ Answer(s, reqdone(s, c), c)
           /\ reqdone(s, c).reading = s.reading
  <1> DEFINE t == [s EXCEPT !.nrequests[c] = @ - 1]
  <1>1. /\ t \in State /\ t.sock_active = s.sock_active /\ t.reading = s.reading
        /\ t.nrequests = [s.nrequests EXCEPT ![c] = @ - 1] /\ t.failed = s.failed
        /\ t.error = s.error /\ t.accept_cookie = s.accept_cookie
    BY DEF State
  <1>2. c \in Clients /\ s.nrequests \in [Clients -> Nat] /\ s.sock_active \subseteq Clients
    BY DEF State
  <1>3. Accepting(t)
    BY <1>1 DEF Accepting
  <1>4. reqdone(s, c) = IF t.nrequests[c] = 0 /\ c \notin t.reading
                        THEN dropconn(t, {c}) ELSE t
    BY DEF reqdone
  <1>5. {c} \in SUBSET s.sock_active
    OBVIOUS
  <1> HIDE DEF t
  <1>6. /\ dropconn(t, {c}) \in State /\ Accepting(dropconn(t, {c}))
        /\ IsFiniteSet(dropconn(t, {c}).sock_active)
        /\ dropconn(t, {c}).sock_active = s.sock_active \ {c}
        /\ dropconn(t, {c}).reading = s.reading
        /\ dropconn(t, {c}).nrequests = t.nrequests
        /\ dropconn(t, {c}).failed = s.failed
    BY <1>1, <1>3, <1>5, Dropconn
  <1>7. CASE t.nrequests[c] = 0 /\ c \notin t.reading
    BY ZenonT(60), <1>1, <1>2, <1>4, <1>6, <1>7 DEF Answer
  <1>8. CASE ~(t.nrequests[c] = 0 /\ c \notin t.reading)
    BY <1>1, <1>2, <1>3, <1>4, <1>8 DEF Answer
  <1> QED
    BY <1>7, <1>8

\* A failed request drops every connection that is owed nothing.
LEMMA FailedState ==
    ASSUME SetFacts, NEW s \in State, IsFiniteSet(s.sock_active), Accepting(s),
           s.reading \subseteq s.sock_active,
           NEW c \in s.sock_active, s.nrequests[c] > 0
    PROVE  Answer(s, Failed(s, c), c)
  <1> DEFINE r == reqdone(s, c)
             t == [accept_stop(r) EXCEPT !.failed = TRUE]
             u == [t EXCEPT !.reading = {}]
             C == {e \in t.reading : t.nrequests[e] = 0}
  <1>1. Answer(s, r, c) /\ r.reading = s.reading
    BY Reqdone
  <1>2. Failed(s, c) = dropconn(u, C)
    BY DEF Failed
  <1>3. r \in State
    BY <1>1 DEF Answer
  <1> HIDE DEF r
  <1>4. /\ t \in State /\ u \in State
        /\ u.sock_active = r.sock_active /\ u.nrequests = r.nrequests /\ u.reading = {}
        /\ u.failed = TRUE /\ u.error = r.error /\ u.accept_cookie = {}
        /\ t.reading = r.reading /\ t.nrequests = r.nrequests
    BY Zenon, <1>3 DEF State, accept_stop
  <1> HIDE DEF t, u
  <1>5. Accepting(u) /\ IsFiniteSet(u.sock_active)
    BY <1>1, <1>4 DEF Accepting, Answer
  <1>6. C \in SUBSET u.sock_active
    BY <1>1, <1>4 DEF Answer
  <1>7. C = {e \in s.reading : r.nrequests[e] = 0}
    BY <1>1, <1>4
  <1> HIDE DEF C
  <1>8. /\ dropconn(u, C) \in State /\ Accepting(dropconn(u, C))
        /\ IsFiniteSet(dropconn(u, C).sock_active)
        /\ dropconn(u, C).sock_active = r.sock_active \ C
        /\ dropconn(u, C).reading = {}
        /\ dropconn(u, C).nrequests = r.nrequests
    BY <1>4, <1>5, <1>6, Dropconn
  <1>9. /\ s.nrequests \in [Clients -> Nat] /\ s.sock_active \subseteq Clients
        /\ r.nrequests \in [Clients -> Nat]
    BY <1>3 DEF State
  <1> DEFINE v == dropconn(u, C)
  <1>10. ASSUME NEW e \in s.sock_active \ v.sock_active
         PROVE  v.nrequests[e] = 0
    BY Zenon, <1>1, <1>7, <1>8 DEF Answer
  <1>11. ASSUME NEW e \in v.sock_active, e \in s.reading \/ s.nrequests[e] > 0
         PROVE  v.nrequests[e] > 0
    <2>1. e \in r.sock_active /\ e \notin C /\ e \in Clients
      BY <1>1, <1>8, <1>9, <1>11 DEF Answer
    <2>2. e \in s.reading \/ r.nrequests[e] > 0
      BY <1>1, <1>11, <2>1 DEF Answer
    <2> QED
      BY <1>7, <1>8, <1>9, <2>1, <2>2
  <1>12. /\ v.nrequests = [s.nrequests EXCEPT ![c] = @ - 1]
         /\ v.sock_active \subseteq s.sock_active
    BY <1>1, <1>8 DEF Answer
  <1> QED
    BY <1>2, <1>8, <1>10, <1>11, <1>12 DEF Answer

-----------------------------------------------------------------------------
(* The steps of the request queue.                                         *)

\* A callback for the request F keeps what the invariant says of the
\* connections and the clients.
LEMMA Callback ==
    ASSUME SetFacts, MuxInv, main = "running", NEW F \in Request, NEW P, NEW ok \in BOOLEAN,
           callback_gotresponse(F, P, ok), busy \notin Clients, busy' \notin Clients,
           \A c : Pending(c) = Pending(c)' + IF F.conn = c THEN 1 ELSE 0,
           \A c : Pending(c)' \in Nat,
           ok => P.body = F /\ F.ID > since[F.conn],
           DOMAIN q'.reqs \subseteq DOMAIN q.reqs,
           \A id \in DOMAIN q'.reqs : q'.reqs[id] = q.reqs[id]
    PROVE  TypeD' /\ TypeC' /\ Reading' /\ Counts' /\ Accepts' /\ Current'
  <1> DEFINE c == F.conn
             s == IF ok THEN reqdone(d, c) ELSE Failed(d, c)
  <1>1. c \in Clients /\ F.ID \in 1 .. MaxReq[c] /\ F = [conn |-> c, ID |-> F.ID]
    BY RequestFields
  <1>2. MaxReq[c] \in Nat
    BY <1>1, MuxAssumption
  <1>3. d.nrequests[c] > 0 /\ c \in d.sock_active
    BY <1>1 DEF MuxInv, Counts
  <1>4. /\ d \in State /\ IsFiniteSet(d.sock_active) /\ Accepting(d)
        /\ d.reading \subseteq d.sock_active /\ backlog \cap d.sock_active = {}
        /\ d.nrequests \in [Clients -> Nat] /\ d.sock_active \subseteq Clients
    BY DEF MuxInv, TypeD, Accepts, Reading, State
  <1>5. Answer(d, s, c)
    BY <1>3, <1>4, Reqdone, FailedState
  <1>6. /\ Become(s)
        /\ out' = [e \in Clients |->
                     IF e \notin s.sock_active THEN {}
                     ELSE IF ok /\ e = c THEN out[e] \cup {[ID |-> F.ID, body |-> P.body]}
                     ELSE out[e]]
    BY DEF callback_gotresponse
  <1> HIDE DEF s, c
  <1>7. /\ d' = s /\ main' = "running"
        /\ gone' \subseteq gone
        /\ inbox' = [e \in Clients |->
                       IF e \in s.sock_active \cup backlog THEN inbox[e] ELSE <<>>]
        /\ backlog' = backlog /\ asked' = asked /\ since' = since
    BY <1>5, <1>6 DEF Become, Answer, Accepting
  <1>8. s \in State /\ s.nrequests \in [Clients -> Nat] /\ s.sock_active \subseteq Clients
    BY Zenon, <1>5 DEF Answer, State
  <1>9. TypeD' /\ Accepts'
    BY <1>5, <1>7 DEF TypeD, Accepts, Answer, Accepting
  <1>10. TypeC'
    <2>1. inbox' \in [Clients -> Seq(Nat)]
      BY <1>7 DEF MuxInv, TypeC
    <2>2. out' \in [Clients -> SUBSET [ID : Nat, body : Request]]
      BY <1>1, <1>2, <1>6 DEF MuxInv, TypeC
    <2> QED
      BY <1>7, <2>1, <2>2 DEF MuxInv, TypeC
  <1>11. Reading'
    BY <1>4, <1>5, <1>7 DEF Reading, Answer
  <1>12. Counts'
    <2> SUFFICES ASSUME NEW e \in Clients
                 PROVE  /\ s.nrequests[e] = Pending(e)'
                        /\ Pending(e)' > 0 => e \in s.sock_active
                        /\ e \in s.sock_active => e \in s.reading \/ s.nrequests[e] > 0
      BY <1>7 DEF Counts
    <2>1. /\ d.nrequests[e] = Pending(e) /\ (Pending(e) > 0 => e \in d.sock_active)
          /\ e \in d.sock_active => e \in d.reading \/ d.nrequests[e] > 0
      BY DEF MuxInv, Counts
    <2>2. Pending(e) = Pending(e)' + (IF c = e THEN 1 ELSE 0) /\ Pending(e)' \in Nat
      BY DEF c
    <2>3. s.nrequests[e] = IF e = c THEN d.nrequests[c] - 1 ELSE d.nrequests[e]
      BY <1>1, <1>4, <1>5 DEF Answer
    <2>4. s.nrequests[e] = Pending(e)'
      BY <2>1, <2>2, <2>3
    <2>5. Pending(e)' > 0 => e \in s.sock_active
      BY <1>5, <2>1, <2>2, <2>4 DEF Answer
    <2>6. e \in s.sock_active => e \in s.reading \/ s.nrequests[e] > 0
      BY <1>5, <2>1 DEF Answer
    <2> QED
      BY <2>4, <2>5, <2>6
  <1>13. Current'
    <2>1. \A e \in Clients : \A i \in DOMAIN inbox'[e] :
             inbox'[e][i] \in since'[e] + 1 .. asked'[e]
      BY <1>7 DEF MuxInv, Current
    <2>2. \A id \in DOMAIN q'.reqs : q'.reqs[id].ID > since'[q'.reqs[id].conn]
      BY <1>7 DEF MuxInv, Current
    <2>3. \A e \in Clients \ (s.sock_active \cup backlog) : inbox'[e] = <<>>
      BY <1>7
    <2>4. \A e \in Clients \ s.sock_active : out'[e] = {}
      BY <1>6
    <2>5. ASSUME NEW e \in Clients, NEW x \in out'[e]
          PROVE  x.body = [conn |-> e, ID |-> x.ID] /\ x.ID > since[e] /\ x.ID <= MaxReq[e]
      <3>1. CASE x \in out[e]
        BY <3>1 DEF MuxInv, Current
      <3>2. CASE x \notin out[e]
        <4>1. ok /\ e = c /\ x = [ID |-> F.ID, body |-> P.body]
          BY <1>6, <2>5, <3>2
        <4> QED
          BY <1>1, <1>2, <4>1 DEF c
      <3> QED
        BY <3>1, <3>2
    <2> QED
      BY <1>7, <2>1, <2>2, <2>3, <2>4, <2>5 DEF Current
  <1> QED
    BY <1>9, <1>10, <1>11, <1>12, <1>13

\* A packet answers a pending request.
LEMMA MatchedStep ==
    ASSUME SetFacts, MuxInv, main = "running", readpackets \/ ReadpacketsMore, Matched,
           callback_gotresponse(q.reqs[Head(resp).ID], Head(resp), TRUE)
    PROVE  MuxInv'
  <1> DEFINE ID == Head(resp).ID
  <1>1. ReadPacket /\ busy \in {"none", "readpackets"}
    BY DEF readpackets, ReadpacketsMore, Idle
  <1>2. /\ resp \in Seq(Packet) /\ resp # <<>> /\ resp' = Tail(resp)
        /\ ID \in DOMAIN q.reqs /\ busy' = "readpackets" /\ imm' = imm /\ wire' = wire
        /\ q' = [Without(q, ID) EXCEPT !.reading = FALSE]
    BY <1>1 DEF ReadPacket, Matched, MuxInv, TypeQ
  <1>3. /\ q'.reqs = [id \in DOMAIN q.reqs \ {ID} |-> q.reqs[id]]
        /\ q'.next = q.next /\ q'.failed = q.failed /\ q'.reading = FALSE /\ q'.WQ = q.WQ
        /\ q' = [reqs |-> q'.reqs, next |-> q.next, failed |-> q.failed,
                 reading |-> FALSE, WQ |-> q.WQ]
    BY Zenon, <1>2 DEF Without, MuxInv, TypeQ
  <1>4. /\ q.reqs \in [DOMAIN q.reqs -> Request] /\ DOMAIN q.reqs \subseteq Nat
        /\ q.reqs[ID] \in Request
    BY <1>2, ReqsType DEF MuxInv
  <1> HIDE DEF ID
  <1>5. TypeQ'
    <2>1. q'.reqs \in ReqMap
      <3>1. q'.reqs \in [DOMAIN q.reqs \ {ID} -> Request] /\ DOMAIN q.reqs \ {ID} \in SUBSET Nat
        BY <1>3, <1>4
      <3> QED
        BY <3>1 DEF ReqMap
    <2>2. DOMAIN q'.reqs \subseteq 0 .. q'.next - 1
      BY <1>3 DEF MuxInv, TypeQ
    <2>3. q' \in [reqs : ReqMap, next : Nat,
                  failed : BOOLEAN, reading : BOOLEAN, WQ : Seq(Packet)]
      BY Zenon, <1>3, <2>1 DEF MuxInv, TypeQ
    <2>4. Tail(resp) \in Seq(Packet)
      BY <1>2
    <2> QED
      BY <1>2, <2>2, <2>3, <2>4 DEF MuxInv, TypeQ
  <1>6. \A c : Pending(c) = Pending(c)' + IF q.reqs[ID].conn = c THEN 1 ELSE 0
    BY <1>2, <1>3, RemovePending DEF MuxInv
  <1>7. \A c : Pending(c)' \in Nat
    <2>1. (\A c : Cardinality(Of(q.reqs, c)) \in Nat /\ Cardinality(Of(imm, c)) \in Nat
                  /\ IsFiniteSet(Of(q.reqs, c)))'
      BY <1>5, ReqsType, PTL
    <2> QED
      BY <2>1 DEF Pending
  <1>8. Head(resp) = resp[1] /\ 1 \in DOMAIN resp
    BY <1>2
  <1>9. Head(resp).body = q.reqs[ID] /\ q.reqs[ID].ID > since[q.reqs[ID].conn]
    BY <1>2, <1>4, <1>8 DEF MuxInv, Packets, Carried, Current, Bogus, ID
  <1>10. busy \notin Clients /\ busy' \notin Clients
    BY <1>1, <1>2, MuxAssumption
  <1>11. /\ callback_gotresponse(q.reqs[ID], Head(resp), TRUE)
         /\ DOMAIN q'.reqs \subseteq DOMAIN q.reqs
         /\ \A id \in DOMAIN q'.reqs : q'.reqs[id] = q.reqs[id]
    BY Zenon, <1>3 DEF ID
  <1>12. TypeD' /\ TypeC' /\ Reading' /\ Counts' /\ Accepts' /\ Current'
    BY Zenon, <1>4, <1>6, <1>7, <1>9, <1>10, <1>11, Callback
  <1>13. Packets'
    <2>1. \A p : Carried(p, q) => Carried(p, q')
      BY <1>3 DEF Carried
    <2>2. \A j \in DOMAIN Tail(resp) : j + 1 \in DOMAIN resp /\ Tail(resp)[j] = resp[j + 1]
      BY <1>2
    <2>3. \A j \in DOMAIN resp' : Carried(resp'[j], q')
      BY Zenon, <1>2, <2>1, <2>2 DEF MuxInv, Packets
    <2> QED
      BY Zenon, <1>2, <1>3, <2>1, <2>3 DEF MuxInv, Packets
  <1> QED
    BY <1>5, <1>12, <1>13 DEF MuxInv

\* A failed request has its callback.
LEMMA FailreqStep ==
    ASSUME SetFacts, MuxInv, main = "running", failreq, callback_gotresponse(Head(imm), Bogus, FALSE)
    PROVE  MuxInv'
  <1>1. /\ imm \in Seq(Request) /\ imm # <<>> /\ imm' = Tail(imm) /\ busy = "none"
        /\ q' = q /\ busy' = busy /\ wire' = wire /\ resp' = resp
    BY DEF MuxInv, TypeQ, failreq
  <1>2. Head(imm) \in Request /\ Tail(imm) \in Seq(Request)
    BY <1>1
  <1>3. TypeQ'
    BY <1>1, <1>2 DEF MuxInv, TypeQ
  <1>4. \A c : Pending(c) = Pending(c)' + IF Head(imm).conn = c THEN 1 ELSE 0
    BY FailreqPending DEF MuxInv
  <1>5. \A c : Pending(c)' \in Nat
    <2>1. (\A c : Cardinality(Of(q.reqs, c)) \in Nat /\ Cardinality(Of(imm, c)) \in Nat
                  /\ IsFiniteSet(Of(q.reqs, c)))'
      BY <1>3, ReqsType, PTL
    <2> QED
      BY <2>1 DEF Pending
  <1>6. busy \notin Clients /\ busy' \notin Clients
    BY <1>1, MuxAssumption
  <1>7. TypeD' /\ TypeC' /\ Reading' /\ Counts' /\ Accepts' /\ Current'
    BY Zenon, <1>1, <1>2, <1>4, <1>5, <1>6, Callback
  <1>8. Packets'
    BY <1>1 DEF MuxInv, Packets
  <1> QED
    BY <1>3, <1>7, <1>8 DEF MuxInv

\* The queue fails: nothing changes for the connections yet.
LEMMA FailqueueStep ==
    ASSUME SetFacts, MuxInv, failqueue, Unconcerned, busy \notin Clients, busy' \in {"none", "readpackets"},
           wire' = wire, resp' \in Seq(Packet),
           \A i \in DOMAIN resp' : \E j \in DOMAIN resp : resp'[i] = resp[j]
    PROVE  MuxInv'
  <1>1. imm' \in Seq(Request) /\ \A c : Pending(c)' = Pending(c)
    BY FailPending DEF MuxInv
  <1>2. /\ q' = [reqs |-> <<>>, next |-> q.next, failed |-> TRUE, reading |-> FALSE,
                 WQ |-> <<>>]
        /\ q.next \in Nat
    BY Zenon DEF failqueue, MuxInv, TypeQ
  <1>3. /\ d' = d /\ main' = main /\ out' = out /\ backlog' = backlog /\ gone' = gone
        /\ inbox' = inbox /\ asked' = asked /\ since' = since
    BY DEF Unconcerned, clients
  <1>4. TypeQ'
    <2>1. <<>> \in ReqMap
      <3>1. <<>> \in [{} -> Request] /\ {} \in SUBSET Nat
        OBVIOUS
      <3> QED
        BY Zenon, <3>1 DEF ReqMap
    <2>2. q' \in [reqs : ReqMap, next : Nat,
                  failed : BOOLEAN, reading : BOOLEAN, WQ : Seq(Packet)]
      BY <1>2, <2>1
    <2>3. DOMAIN q'.reqs \subseteq 0 .. q'.next - 1
      BY <1>2
    <2> QED
      BY <1>1, <2>2, <2>3 DEF MuxInv, TypeQ
  <1>5. TypeD' /\ TypeC' /\ Accepts'
    BY <1>3 DEF MuxInv, TypeD, TypeC, Accepts
  <1>6. busy' \notin Clients
    BY MuxAssumption
  <1>7. Reading' /\ Counts'
    BY <1>1, <1>3, <1>6 DEF MuxInv, Reading, Counts
  <1>8. Packets'
    BY <1>2 DEF MuxInv, Packets, Carried
  <1>9. Current'
    BY <1>2, <1>3 DEF MuxInv, Current
  <1> QED
    BY <1>4, <1>5, <1>7, <1>8, <1>9 DEF MuxInv

\* What leaves the pending requests and the dispatcher alone.
LEMMA QuietStep ==
    ASSUME SetFacts, MuxInv, Unconcerned, imm' = imm, TypeQ', Packets',
           q'.reqs = q.reqs, q'.next = q.next,
           busy' = busy \/ (busy \notin Clients /\ busy' \notin Clients)
    PROVE  MuxInv'
  <1>1. /\ d' = d /\ main' = main /\ out' = out /\ backlog' = backlog /\ gone' = gone
        /\ inbox' = inbox /\ asked' = asked /\ since' = since
    BY DEF Unconcerned, clients
  <1>2. TypeD' /\ TypeC' /\ Accepts'
    BY <1>1 DEF MuxInv, TypeD, TypeC, Accepts
  <1>3. \A c : Pending(c)' = Pending(c)
    BY DEF Pending
  <1>4. Reading' /\ Counts'
    BY <1>1, <1>3 DEF MuxInv, Reading, Counts
  <1>5. Current'
    BY <1>1 DEF MuxInv, Current
  <1> QED
    BY <1>2, <1>4, <1>5 DEF MuxInv

\* The loop of readpackets ends.
LEMMA ReadpacketsDoneStep ==
    ASSUME SetFacts, MuxInv, ReadpacketsDone, Unconcerned
    PROVE  MuxInv'
  <1>1. /\ q' = [q EXCEPT !.reading = TRUE] /\ imm' = imm /\ wire' = wire /\ resp' = resp
        /\ busy = "readpackets" /\ busy' = "none"
    BY DEF ReadpacketsDone
  <1>2. q'.reqs = q.reqs /\ q'.next = q.next /\ q'.WQ = q.WQ
    BY <1>1 DEF MuxInv, TypeQ
  <1>3. TypeQ'
    BY Zenon, <1>1 DEF MuxInv, TypeQ
  <1>4. Packets'
    BY <1>1, <1>2 DEF MuxInv, Packets, Carried
  <1>5. busy \notin Clients /\ busy' \notin Clients
    BY <1>1, MuxAssumption
  <1> QED
    BY <1>1, <1>2, <1>3, <1>4, <1>5, QuietStep

\* A request reaches the server.
LEMMA WrittenStep ==
    ASSUME SetFacts, MuxInv, Written, Unconcerned
    PROVE  MuxInv'
  <1>1. /\ q.WQ \in Seq(Packet) /\ q.WQ # <<>> /\ q' = [q EXCEPT !.WQ = Tail(@)]
        /\ imm' = imm /\ busy' = busy /\ wire' = wire \cup {Head(q.WQ)} /\ resp' = resp
    BY DEF Written, MuxInv, TypeQ
  <1>2. q'.reqs = q.reqs /\ q'.next = q.next /\ q'.WQ = Tail(q.WQ)
    BY <1>1 DEF MuxInv, TypeQ
  <1>3. /\ Head(q.WQ) = q.WQ[1] /\ 1 \in DOMAIN q.WQ /\ Head(q.WQ) \in Packet
        /\ Tail(q.WQ) \in Seq(Packet)
        /\ \A j \in DOMAIN Tail(q.WQ) : j + 1 \in DOMAIN q.WQ /\ Tail(q.WQ)[j] = q.WQ[j + 1]
    BY <1>1
  <1>4. TypeQ'
    BY Zenon, <1>1, <1>3 DEF MuxInv, TypeQ
  <1>5. Packets'
    <2>1. \A p : Carried(p, q) => Carried(p, q')
      BY <1>2 DEF Carried
    <2>2. \A j \in DOMAIN q'.WQ : Carried(q'.WQ[j], q')
      BY <1>2, <1>3, <2>1 DEF MuxInv, Packets
    <2>3. \A p \in wire' : Carried(p, q')
      BY Zenon, <1>1, <1>3, <2>1 DEF MuxInv, Packets
    <2> QED
      BY Zenon, <1>1, <2>1, <2>2, <2>3 DEF MuxInv, Packets
  <1> QED
    BY <1>1, <1>2, <1>4, <1>5, QuietStep

\* The server answers, sends what is no answer, or closes.
LEMMA TargetStep ==
    ASSUME SetFacts, MuxInv, TargetAnswers \/ TargetGarbles \/ TargetCloses, Unconcerned
    PROVE  MuxInv'
  <1>1. /\ q' = q /\ imm' = imm /\ busy' = busy /\ wire' \subseteq wire
        /\ \/ resp' = resp
           \/ \E p \in wire : resp' = Append(resp, p)
           \/ resp' = Append(resp, [ID |-> Bogus, body |-> <<>>])
    BY DEF TargetAnswers, TargetGarbles, TargetCloses
  <1>2. [ID |-> Bogus, body |-> <<>>] \in Packet /\ Carried([ID |-> Bogus, body |-> <<>>], q)
    BY DEF Packet, Carried, Bogus
  <1>3. resp \in Seq(Packet) /\ wire \subseteq Packet
    BY DEF MuxInv, TypeQ
  <1>4. \/ resp' = resp
        \/ \E p \in Packet : Carried(p, q) /\ resp' = Append(resp, p)
    BY <1>1, <1>2, <1>3 DEF MuxInv, Packets
  <1>5. resp' \in Seq(Packet) /\ \A i \in DOMAIN resp' : Carried(resp'[i], q)
    <2>1. CASE resp' = resp
      BY <1>3, <2>1 DEF MuxInv, Packets
    <2>2. ASSUME NEW p \in Packet, Carried(p, q), resp' = Append(resp, p)
          PROVE  resp' \in Seq(Packet) /\ \A i \in DOMAIN resp' : Carried(resp'[i], q)
      <3>1. /\ Append(resp, p) \in Seq(Packet)
            /\ \A i \in DOMAIN Append(resp, p) :
                  Append(resp, p)[i] = p \/ (i \in DOMAIN resp /\ Append(resp, p)[i] = resp[i])
        BY <1>3, <2>2
      <3> QED
        BY <2>2, <3>1 DEF MuxInv, Packets
    <2> QED
      BY <1>4, <2>1, <2>2
  <1>6. TypeQ'
    BY <1>1, <1>5 DEF MuxInv, TypeQ
  <1>7. Packets'
    BY <1>1, <1>5 DEF MuxInv, Packets
  <1> QED
    BY <1>1, <1>6, <1>7, QuietStep

\* All steps of the queue and its server.
LEMMA QueueStep ==
    ASSUME SetFacts, MuxInv, Queue
    PROVE  MuxInv'
  <1>1. main = "running"
    BY DEF Queue
  <1>2. CASE /\ readpackets \/ ReadpacketsMore
             /\ IF Matched THEN callback_gotresponse(q.reqs[Head(resp).ID], Head(resp), TRUE)
                ELSE Unconcerned
    <2>1. CASE Matched
      BY <1>1, <1>2, <2>1, MatchedStep
    <2>2. CASE ~Matched
      <3>1. ReadPacket /\ busy \in {"none", "readpackets"} /\ Unconcerned
        BY <1>2, <2>2 DEF readpackets, ReadpacketsMore, Idle
      <3>2. /\ resp # <<>> /\ resp' = Tail(resp) /\ wire' = wire
            /\ busy' = "none" /\ failqueue /\ resp \in Seq(Packet)
        BY <2>2, <3>1 DEF ReadPacket, MuxInv, TypeQ
      <3>3. /\ Tail(resp) \in Seq(Packet)
            /\ \A i \in DOMAIN Tail(resp) : i + 1 \in DOMAIN resp /\ Tail(resp)[i] = resp[i + 1]
        BY <3>2
      <3>4. busy \notin Clients
        BY <3>1, MuxAssumption
      <3> QED
        BY <3>1, <3>2, <3>3, <3>4, FailqueueStep
    <2> QED
      BY <2>1, <2>2
  <1>3. CASE failreq /\ callback_gotresponse(Head(imm), Bogus, FALSE)
    BY <1>1, <1>3, FailreqStep
  <1>4. CASE (ReadpacketsFail \/ WriteFail) /\ Unconcerned
    <2>1. failqueue /\ busy = "none" /\ busy' = busy /\ wire' = wire /\ resp' = resp
      BY <1>4 DEF ReadpacketsFail, WriteFail, Idle
    <2>2. busy \notin Clients
      BY <2>1, MuxAssumption
    <2> QED
      BY <1>4, <2>1, <2>2, FailqueueStep DEF MuxInv, TypeQ
  <1>5. CASE (ReadpacketsDone \/ Written) /\ Unconcerned
    BY <1>5, ReadpacketsDoneStep, WrittenStep
  <1> QED
    BY Zenon, <1>2, <1>3, <1>4, <1>5 DEF Queue

-----------------------------------------------------------------------------
(* The steps of the dispatcher and the clients.                            *)

\* A request is forwarded.
LEMMA ForwardStep ==
    ASSUME SetFacts, MuxInv, NEW c \in Clients, Forward(c), busy = c \/ (busy = "none" /\ c \in d.reading)
    PROVE  MuxInv'
  <1> DEFINE F == [conn |-> c, ID |-> Head(inbox[c])]
  <1>1. /\ inbox[c] # <<>> /\ inbox' = [inbox EXCEPT ![c] = Tail(@)]
        /\ RequestqueueAdd(F, F)
        /\ d' = [d EXCEPT !.nrequests[c] = @ + 1, !.reading = @ \ {c}]
        /\ busy' = c /\ wire' = wire /\ resp' = resp /\ main' = main
        /\ backlog' = backlog /\ gone' = gone /\ asked' = asked /\ since' = since /\ out' = out
    BY DEF Forward
  <1>2. /\ inbox \in [Clients -> Seq(Nat)] /\ inbox[c] \in Seq(Nat)
        /\ asked[c] \in Nat /\ since[c] \in Nat /\ asked[c] <= MaxReq[c] /\ MaxReq[c] \in Nat
    BY MuxAssumption DEF MuxInv, TypeC
  <1>3. /\ Head(inbox[c]) = inbox[c][1] /\ 1 \in DOMAIN inbox[c] /\ Tail(inbox[c]) \in Seq(Nat)
        /\ \A i \in DOMAIN Tail(inbox[c]) : i + 1 \in DOMAIN inbox[c]
                                            /\ Tail(inbox[c])[i] = inbox[c][i + 1]
    BY <1>1, <1>2
  <1>4. Head(inbox[c]) \in since[c] + 1 .. asked[c]
    <2>1. \A e \in Clients : \A i \in DOMAIN inbox[e] : inbox[e][i] \in since[e] + 1 .. asked[e]
      BY DEF MuxInv, Current
    <2> QED
      BY ONLY <1>3, <2>1, c \in Clients
  <1>5. F \in Request /\ F.conn = c /\ F.ID > since[c]
    BY <1>2, <1>4 DEF Request
  <1> HIDE DEF F
  <1>6. \A e : Pending(e)' = Pending(e) + IF c = e THEN 1 ELSE 0
    BY <1>1, <1>5, AddPending DEF MuxInv
  <1>7. /\ d \in State /\ d.reading \subseteq d.sock_active /\ c \in d.sock_active
        /\ d.nrequests \in [Clients -> Nat] /\ backlog \cap d.sock_active = {}
        /\ busy \in Clients => busy = c
    BY MuxAssumption DEF MuxInv, TypeD, Reading, State
  <1>8. /\ d' \in State /\ d'.sock_active = d.sock_active /\ d'.reading = d.reading \ {c}
        /\ d'.nrequests = [d.nrequests EXCEPT ![c] = @ + 1] /\ d'.failed = d.failed
        /\ d'.error = d.error /\ d'.accept_cookie = d.accept_cookie
    <2> DEFINE n == [d.nrequests EXCEPT ![c] = @ + 1]
    <2>1. n \in [Clients -> Nat]
      BY <1>7
    <2>2. d' = [d EXCEPT !.nrequests = n, !.reading = @ \ {c}]
      BY <1>1, <1>7 DEF State
    <2> HIDE DEF n
    <2>3. /\ d' \in State /\ d'.sock_active = d.sock_active /\ d'.reading = d.reading \ {c}
          /\ d'.nrequests = n /\ d'.failed = d.failed
          /\ d'.error = d.error /\ d'.accept_cookie = d.accept_cookie
      BY Zenon, <1>7, <2>1, <2>2 DEF State
    <2> QED
      BY <2>3 DEF n
  <1>9. TypeD' /\ Accepts'
    BY <1>1, <1>8 DEF MuxInv, TypeD, Accepts, Accepting
  <1>10. TypeC'
    <2>1. inbox' \in [Clients -> Seq(Nat)]
      BY <1>1, <1>2, <1>3
    <2> QED
      BY <1>1, <2>1 DEF MuxInv, TypeC
  <1>11. Reading'
    BY <1>1, <1>7, <1>8 DEF Reading
  <1>12. Counts'
    <2> SUFFICES ASSUME NEW e \in Clients
                 PROVE  /\ d'.nrequests[e] = Pending(e)'
                        /\ Pending(e)' > 0 => e \in d.sock_active
                        /\ e \in d.sock_active =>
                              e \in d'.reading \/ c = e \/ d'.nrequests[e] > 0
      BY <1>1, <1>8 DEF Counts
    <2>1. /\ d.nrequests[e] = Pending(e) /\ (Pending(e) > 0 => e \in d.sock_active)
          /\ e \in d.sock_active => e \in d.reading \/ busy = e \/ d.nrequests[e] > 0
      BY DEF MuxInv, Counts
    <2>2. Pending(e)' = Pending(e) + (IF c = e THEN 1 ELSE 0)
      BY <1>6
    <2>3. CASE e = c
      BY <1>7, <1>8, <2>1, <2>2, <2>3
    <2>4. CASE e # c
      BY <1>7, <1>8, <2>1, <2>2, <2>4
    <2> QED
      BY <2>3, <2>4
  <1>13. TypeQ' /\ Packets' /\ \A id \in DOMAIN q'.reqs :
                                  q'.reqs[id] = F \/ (id \in DOMAIN q.reqs /\ q'.reqs[id] = q.reqs[id])
    <2>1. CASE q.failed
      <3>1. imm' = Append(imm, F) /\ q' = q
        BY <1>1, <2>1 DEF RequestqueueAdd
      <3>2. Append(imm, F) \in Seq(Request)
        BY <1>5 DEF MuxInv, TypeQ
      <3>3. TypeQ'
        BY <1>1, <3>1, <3>2 DEF MuxInv, TypeQ
      <3>4. Packets'
        BY <1>1, <3>1 DEF MuxInv, Packets
      <3> QED
        BY <3>1, <3>3, <3>4
    <2>2. CASE ~q.failed
      <3> DEFINE P == [ID |-> q.next, body |-> F]
                 R == [id \in DOMAIN q.reqs \cup {q.next} |-> IF id = q.next THEN F ELSE q.reqs[id]]
      <3>1. /\ imm' = imm /\ q.WQ \in Seq(Packet)
            /\ q' = [reqs |-> R, next |-> q.next + 1, failed |-> q.failed,
                     reading |-> q.reading, WQ |-> Append(q.WQ, P)]
        BY <1>1, <2>2, ZenonT(30) DEF RequestqueueAdd, MuxInv, TypeQ
      <3>2. q.next \in Nat /\ q.reqs \in [DOMAIN q.reqs -> Request] /\ DOMAIN q.reqs \subseteq Nat
        BY ReqsType DEF MuxInv
      <3>3. R \in ReqMap /\ DOMAIN R = DOMAIN q.reqs \cup {q.next}
        <4>1. R \in [DOMAIN q.reqs \cup {q.next} -> Request]
              /\ DOMAIN q.reqs \cup {q.next} \in SUBSET Nat
          BY <1>5, <3>2
        <4> QED
          BY Zenon, <4>1 DEF ReqMap
      <3>4. P \in Packet
        BY <1>5, <3>2 DEF Packet
      <3>5. /\ q'.reqs = R /\ q'.next = q.next + 1 /\ q'.WQ = Append(q.WQ, P)
            /\ Append(q.WQ, P) \in Seq(Packet)
            /\ \A i \in DOMAIN Append(q.WQ, P) :
                  Append(q.WQ, P)[i] = P \/ (i \in DOMAIN q.WQ /\ Append(q.WQ, P)[i] = q.WQ[i])
        BY <3>1, <3>4
      <3>6. Carried(P, q')
        BY <3>2, <3>5 DEF Carried
      <3>7. \A p : Carried(p, q) => Carried(p, q')
        BY <3>2, <3>5 DEF Carried
      <3>8. \A id \in DOMAIN R : R[id] = F \/ (id \in DOMAIN q.reqs /\ R[id] = q.reqs[id])
        BY <3>2
      <3> HIDE DEF P, R
      <3>9. TypeQ'
        <4>1. q' \in [reqs : ReqMap, next : Nat, failed : BOOLEAN, reading : BOOLEAN,
                      WQ : Seq(Packet)]
          BY <3>1, <3>2, <3>3, <3>5 DEF MuxInv, TypeQ
        <4>2. DOMAIN q'.reqs \subseteq 0 .. q'.next - 1
          BY <3>2, <3>3, <3>5 DEF MuxInv, TypeQ
        <4> QED
          BY <1>1, <3>1, <4>1, <4>2 DEF MuxInv, TypeQ
      <3>10. Packets'
        BY <1>1, <3>5, <3>6, <3>7 DEF MuxInv, Packets
      <3> QED
        BY <3>5, <3>8, <3>9, <3>10
    <2> QED
      BY <2>1, <2>2
  <1>14. Current'
    <2>1. \A e \in Clients : \A i \in DOMAIN inbox'[e] : inbox'[e][i] \in since[e] + 1 .. asked[e]
      BY <1>1, <1>2, <1>3 DEF MuxInv, Current
    <2>2. \A id \in DOMAIN q'.reqs : q'.reqs[id].ID > since[q'.reqs[id].conn]
      BY <1>5, <1>13, ZenonT(30) DEF MuxInv, Current
    <2>3. \A e \in Clients \ (d.sock_active \cup backlog) : inbox'[e] = <<>>
      BY <1>1, <1>7 DEF MuxInv, Current
    <2> QED
      BY <1>1, <1>8, <2>1, <2>2, <2>3 DEF MuxInv, Current
  <1> QED
    BY <1>9, <1>10, <1>11, <1>12, <1>13, <1>14 DEF MuxInv

\* The loop over a connection's requests ends.
LEMMA GotrequestsDoneStep ==
    ASSUME SetFacts, MuxInv, NEW c \in Clients, GotrequestsDone(c)
    PROVE  MuxInv'
  <1>1. /\ busy = c /\ busy' = "none" /\ d' = [d EXCEPT !.reading = @ \cup {c}]
        /\ q' = q /\ imm' = imm /\ wire' = wire /\ resp' = resp /\ main' = main
        /\ backlog' = backlog /\ gone' = gone /\ inbox' = inbox /\ asked' = asked
        /\ since' = since /\ out' = out
    BY DEF GotrequestsDone, clients
  <1>2. c \in d.sock_active /\ "none" \notin Clients
    BY <1>1, MuxAssumption DEF MuxInv, Reading
  <1>3. /\ d' \in State /\ d'.sock_active = d.sock_active /\ d'.reading = d.reading \cup {c}
        /\ d'.nrequests = d.nrequests /\ d'.failed = d.failed
        /\ d'.error = d.error /\ d'.accept_cookie = d.accept_cookie
    BY <1>1 DEF MuxInv, TypeD, State
  <1>4. TypeQ' /\ Packets' /\ TypeC'
    BY <1>1 DEF MuxInv, TypeQ, Packets, TypeC
  <1>5. TypeD' /\ Accepts'
    BY <1>1, <1>3 DEF MuxInv, TypeD, Accepts, Accepting
  <1>6. \A e : Pending(e)' = Pending(e)
    BY <1>1 DEF Pending
  <1>7. Reading' /\ Counts'
    BY <1>1, <1>2, <1>3, <1>6 DEF MuxInv, Reading, Counts
  <1>8. Current'
    BY <1>1, <1>3 DEF MuxInv, Current
  <1> QED
    BY <1>4, <1>5, <1>7, <1>8 DEF MuxInv

\* A connection ends, or what comes in is not a packet.
LEMMA GotrequestsFailStep ==
    ASSUME SetFacts, MuxInv, main = "running", NEW c \in Clients, GotrequestsFail(c)
    PROVE  MuxInv'
  <1> DEFINE s == [d EXCEPT !.reading = @ \ {c}]
             t == IF s.nrequests[c] = 0 THEN dropconn(s, {c}) ELSE s
  <1>1. /\ busy = c \/ (busy = "none" /\ c \in d.reading)
        /\ busy' = "none" /\ Become(t)
        /\ out' = [e \in Clients |-> IF e \in d'.sock_active THEN out[e] ELSE {}]
        /\ q' = q /\ imm' = imm /\ wire' = wire /\ resp' = resp
    BY DEF GotrequestsFail, Idle
  <1>2. /\ d \in State /\ IsFiniteSet(d.sock_active) /\ Accepting(d)
        /\ d.reading \subseteq d.sock_active /\ backlog \cap d.sock_active = {}
        /\ d.nrequests \in [Clients -> Nat] /\ c \in d.sock_active
        /\ busy \in Clients => busy = c
    BY <1>1, MuxAssumption DEF MuxInv, TypeD, Accepts, Reading, State
  <1>3. /\ s \in State /\ s.sock_active = d.sock_active /\ s.reading = d.reading \ {c}
        /\ s.nrequests = d.nrequests /\ s.failed = d.failed
        /\ s.error = d.error /\ s.accept_cookie = d.accept_cookie
    BY <1>2 DEF State
  <1> HIDE DEF s
  <1>4. Accepting(s)
    BY <1>2, <1>3 DEF Accepting
  <1>5. /\ dropconn(s, {c}) \in State /\ Accepting(dropconn(s, {c}))
        /\ IsFiniteSet(dropconn(s, {c}).sock_active)
        /\ dropconn(s, {c}).sock_active = s.sock_active \ {c}
        /\ dropconn(s, {c}).reading = s.reading
        /\ dropconn(s, {c}).nrequests = s.nrequests
    <2>1. {c} \in SUBSET s.sock_active
      BY <1>2, <1>3
    <2> QED
      BY ZenonT(60), <1>2, <1>3, <1>4, <2>1, Dropconn
  <1>6. /\ t \in State /\ Accepting(t) /\ IsFiniteSet(t.sock_active)
        /\ t.reading = d.reading \ {c} /\ t.nrequests = d.nrequests
        /\ t.sock_active = IF d.nrequests[c] = 0 THEN d.sock_active \ {c} ELSE d.sock_active
    BY Zenon, <1>2, <1>3, <1>4, <1>5
  <1> HIDE DEF t
  <1>7. /\ d' = t /\ main' = "running" /\ gone' \subseteq gone
        /\ inbox' = [e \in Clients |->
                       IF e \in t.sock_active \cup backlog THEN inbox[e] ELSE <<>>]
        /\ backlog' = backlog /\ asked' = asked /\ since' = since
    BY <1>1, <1>6 DEF Become, Accepting
  <1>8. TypeQ' /\ Packets'
    BY <1>1 DEF MuxInv, TypeQ, Packets
  <1>9. TypeD' /\ Accepts'
    BY <1>6, <1>7 DEF TypeD, Accepts, Accepting
  <1>10. TypeC'
    <2>1. inbox' \in [Clients -> Seq(Nat)]
      BY <1>7 DEF MuxInv, TypeC
    <2>2. out' \in [Clients -> SUBSET [ID : Nat, body : Request]]
      BY <1>1 DEF MuxInv, TypeC
    <2> QED
      BY <1>7, <2>1, <2>2 DEF MuxInv, TypeC
  <1>11. \A e : Pending(e)' = Pending(e)
    BY <1>1 DEF Pending
  <1>12. Reading'
    BY <1>1, <1>2, <1>6, <1>7, MuxAssumption DEF Reading
  <1>13. Counts'
    <2> SUFFICES ASSUME NEW e \in Clients
                 PROVE  /\ d'.nrequests[e] = Pending(e)'
                        /\ Pending(e)' > 0 => e \in d'.sock_active
                        /\ e \in d'.sock_active =>
                              e \in d'.reading \/ busy' = e \/ d'.nrequests[e] > 0
      BY DEF Counts
    <2>1. /\ d.nrequests[e] = Pending(e)
          /\ Pending(e) > 0 => e \in d.sock_active
          /\ e \in d.sock_active => e \in d.reading \/ busy = e \/ d.nrequests[e] > 0
      BY DEF MuxInv, Counts
    <2>2. Pending(e)' = Pending(e) /\ d'.nrequests[e] = d.nrequests[e]
      BY <1>6, <1>7, <1>11
    <2>3. e # c => (e \in d'.sock_active <=> e \in d.sock_active)
                   /\ (e \in d'.reading <=> e \in d.reading) /\ busy # e
      BY <1>1, <1>2, <1>6, <1>7
    <2>4. d.nrequests[c] \in Nat
      BY <1>2
    <2>5. /\ ~(d.nrequests[c] > 0) => c \notin d'.sock_active
          /\ d.nrequests[c] > 0 => c \in d'.sock_active
      BY <1>2, <1>6, <1>7, <2>4
    <2> QED
      BY ONLY <2>1, <2>2, <2>3, <2>5
  <1>14. Current'
    <2>1. \A e \in Clients : \A i \in DOMAIN inbox'[e] : i \in DOMAIN inbox[e] /\ inbox'[e][i] = inbox[e][i]
      BY <1>7
    <2>2. \A e \in Clients : \A i \in DOMAIN inbox'[e] : inbox'[e][i] \in since'[e] + 1 .. asked'[e]
      BY <1>7, <2>1 DEF MuxInv, Current
    <2>3. \A id \in DOMAIN q'.reqs : q'.reqs[id].ID > since'[q'.reqs[id].conn]
      BY <1>1, <1>7 DEF MuxInv, Current
    <2>4. \A e \in Clients \ (d'.sock_active \cup backlog') : inbox'[e] = <<>>
      BY <1>7
    <2>5. \A e \in Clients \ d'.sock_active : out'[e] = {}
      BY <1>1
    <2>6. \A e \in Clients : out'[e] \subseteq out[e]
      BY <1>1
    <2>7. \A e \in Clients : \A r \in out'[e] :
             r.body = [conn |-> e, ID |-> r.ID] /\ r.ID > since'[e] /\ r.ID <= MaxReq[e]
      BY <1>7, <2>6, ZenonT(60) DEF MuxInv, Current
    <2> QED
      BY <2>2, <2>3, <2>4, <2>5, <2>7 DEF Current
  <1> QED
    BY <1>8, <1>9, <1>10, <1>12, <1>13, <1>14 DEF MuxInv

\* A connection is accepted.
LEMMA GotconnStep ==
    ASSUME SetFacts, MuxInv, main = "running", NEW c \in Clients, callback_gotconn(c)
    PROVE  MuxInv'
  <1> DEFINE s == [accept_stop(d) EXCEPT !.sock_active = @ \cup {c}, !.reading = @ \cup {c}]
  <1>1. /\ busy = "none" /\ d.accept_cookie # {} /\ c \in backlog /\ backlog' = backlog \ {c}
        /\ d' = IF Cardinality(s.sock_active) < nsock_active_max THEN accept_start(s) ELSE s
        /\ main' = IF d'.error THEN "error" ELSE main
        /\ q' = q /\ imm' = imm /\ busy' = busy /\ wire' = wire /\ resp' = resp
        /\ gone' = gone /\ inbox' = inbox /\ asked' = asked /\ since' = since /\ out' = out
    BY DEF callback_gotconn, Idle, queue
  <1>2. /\ d \in State /\ IsFiniteSet(d.sock_active) /\ Accepting(d)
        /\ d.reading \subseteq d.sock_active /\ c \notin d.sock_active
    BY <1>1 DEF MuxInv, TypeD, Accepts, Reading
  <1>3. /\ s \in State /\ s.sock_active = d.sock_active \cup {c}
        /\ s.reading = d.reading \cup {c} /\ s.accept_cookie = {}
        /\ s.nrequests = d.nrequests /\ s.failed = d.failed /\ s.error = d.error
    BY Zenon, <1>2 DEF State, accept_stop
  <1> HIDE DEF s
  <1>4. /\ IsFiniteSet(s.sock_active) /\ Cardinality(d.sock_active) \in Nat
        /\ Cardinality(s.sock_active) = Cardinality(d.sock_active) + 1
    BY <1>2, <1>3 DEF SetFacts, AddSize, FiniteSize
  <1>5. /\ nsock_active_max \in Nat /\ Listeners # {}
        /\ Cardinality(d.sock_active) < nsock_active_max /\ ~d.error
    BY <1>1, <1>2, MuxAssumption DEF Accepting
  <1>6. d' = IF Cardinality(s.sock_active) < nsock_active_max
             THEN [s EXCEPT !.accept_cookie = Listeners] ELSE s
    BY <1>1, <1>3 DEF accept_start
  <1>7. /\ d' \in State /\ d'.sock_active = s.sock_active /\ d'.reading = s.reading
        /\ d'.nrequests = s.nrequests /\ d'.failed = s.failed /\ d'.error = s.error
        /\ d'.accept_cookie = IF Cardinality(s.sock_active) < nsock_active_max
                              THEN Listeners ELSE {}
    BY <1>3, <1>6 DEF State
  <1>8. TypeQ' /\ Packets'
    BY <1>1 DEF MuxInv, TypeQ, Packets
  <1>9. TypeC'
    BY <1>1 DEF MuxInv, TypeC
  <1>10. TypeD' /\ Accepts'
    <2>1. Accepting(d')
      BY <1>3, <1>4, <1>5, <1>7 DEF Accepting
    <2> QED
      BY <1>1, <1>3, <1>4, <1>5, <1>7, <2>1 DEF MuxInv, TypeD, Accepts
  <1>11. \A e : Pending(e)' = Pending(e)
    BY <1>1 DEF Pending
  <1>12. Reading' /\ Counts'
    BY <1>1, <1>3, <1>7, <1>11, MuxAssumption DEF MuxInv, Reading, Counts
  <1>13. Current'
    BY Zenon, <1>1, <1>3, <1>7 DEF MuxInv, Current
  <1> QED
    BY <1>8, <1>9, <1>10, <1>12, <1>13 DEF MuxInv

\* An accept fails, or main finds that the dispatcher is done.
LEMMA EndStep ==
    ASSUME SetFacts, MuxInv, GotconnFail \/ MainDone
    PROVE  MuxInv'
  <1>1. /\ q' = q /\ imm' = imm /\ busy' = busy /\ wire' = wire /\ resp' = resp
        /\ backlog' = backlog /\ gone' = gone /\ inbox' = inbox /\ asked' = asked
        /\ since' = since /\ out' = out
    BY ZenonT(30) DEF GotconnFail, MainDone, clients, queue
  <1>2. \/ d' = d /\ main = "running" /\ main' = "done"
        \/ /\ main' = "error"
           /\ \E L \in d.accept_cookie :
                 d' = [d EXCEPT !.accept_cookie = @ \ {L}, !.error = TRUE]
    BY ZenonT(30) DEF GotconnFail, MainDone
  <1>3. /\ d' \in State /\ d'.sock_active = d.sock_active /\ d'.reading = d.reading
        /\ d'.nrequests = d.nrequests
        /\ (d' = d /\ main = "running" /\ main' = "done") \/ (main' = "error" /\ d'.error)
    BY <1>2, ZenonT(30) DEF MuxInv, TypeD, State
  <1>4. TypeQ' /\ Packets' /\ TypeC'
    BY <1>1 DEF MuxInv, TypeQ, Packets, TypeC
  <1>5. TypeD' /\ Accepts'
    BY <1>3 DEF MuxInv, TypeD, Accepts
  <1>6. \A e : Pending(e)' = Pending(e)
    BY <1>1 DEF Pending
  <1>7. Reading' /\ Counts'
    BY <1>1, <1>3, <1>6 DEF MuxInv, Reading, Counts
  <1>8. Current'
    BY <1>1, <1>3 DEF MuxInv, Current
  <1> QED
    BY <1>4, <1>5, <1>7, <1>8 DEF MuxInv

\* A client connects, sends or closes.
LEMMA ClientStep ==
    ASSUME SetFacts, MuxInv, NEW c \in Clients, Client(c)
    PROVE  MuxInv'
  <1>1. /\ q' = q /\ imm' = imm /\ busy' = busy /\ wire' = wire /\ resp' = resp
        /\ d' = d /\ main' = main /\ out' = out
    BY DEF Client, ClientConnects, ClientSends, ClientCloses, queue
  <1>2. TypeQ' /\ Packets' /\ TypeD' /\ Accepts'
    BY <1>1 DEF MuxInv, TypeQ, Packets, TypeD, Accepts
  <1>3. \A e : Pending(e)' = Pending(e)
    BY <1>1 DEF Pending
  <1>4. Counts'
    BY <1>1, <1>3 DEF MuxInv, Counts
  <1>5. CASE ClientConnects(c)
    <2>1. /\ c \notin d.sock_active \cup backlog /\ since' = [since EXCEPT ![c] = asked[c]]
          /\ backlog' = backlog \cup {c} /\ gone' = gone /\ inbox' = inbox /\ asked' = asked
      BY <1>5 DEF ClientConnects
    <2>2. asked \in [Clients -> Nat] /\ since \in [Clients -> Nat]
      BY DEF MuxInv, TypeC
    <2>3. TypeC' /\ Reading'
      <3>1. since' \in [Clients -> Nat]
        BY ONLY <2>1, <2>2, c \in Clients
      <3>2. \A e \in Clients : asked[e] <= MaxReq[e] /\ since[e] <= asked[e]
        BY DEF MuxInv, TypeC
      <3>3. \A e \in Clients : asked[e] <= MaxReq[e] /\ since'[e] <= asked[e]
        BY ONLY <2>1, <2>2, <3>2, c \in Clients
      <3>4. /\ backlog \subseteq Clients /\ gone \subseteq Clients
            /\ inbox \in [Clients -> Seq(Nat)]
            /\ out \in [Clients -> SUBSET [ID : Nat, body : Request]]
        BY DEF MuxInv, TypeC
      <3>5. TypeC'
        BY ONLY <1>1, <2>1, <2>2, <3>1, <3>3, <3>4, c \in Clients, Zenon DEF TypeC
      <3>6. Reading'
        BY <1>1, <2>1 DEF MuxInv, Reading
      <3> QED
        BY <3>5, <3>6
    <2>4. inbox[c] = <<>> /\ out[c] = {}
      BY <2>1 DEF MuxInv, Current
    <2>5. ASSUME NEW id \in DOMAIN q.reqs
          PROVE  q.reqs[id].conn # c
      <3>1. d.nrequests[c] = Pending(c) /\ ~(Pending(c) > 0)
        BY <2>1 DEF MuxInv, Counts
      <3>2. /\ Cardinality(Of(q.reqs, c)) \in Nat /\ Cardinality(Of(imm, c)) \in Nat
            /\ IsFiniteSet(Of(q.reqs, c))
        BY ReqsType DEF MuxInv
      <3>3. Cardinality(Of(q.reqs, c)) = 0
        <4> DEFINE x == Cardinality(Of(q.reqs, c))
                   y == Cardinality(Of(imm, c))
        <4>1. Pending(c) = x + y
          BY DEF Pending
        <4>2. x \in Nat /\ y \in Nat
          BY <3>2
        <4> HIDE DEF x, y
        <4>3. x = 0
          BY ONLY <3>1, <4>1, <4>2
        <4> QED
          BY <4>3 DEF x
      <3>4. Of(q.reqs, c) = {}
        BY <3>2, <3>3 DEF SetFacts, EmptySize
      <3> QED
        BY <3>4 DEF Of
    <2>6. \A id \in DOMAIN q.reqs : q.reqs[id].conn \in Clients
      BY ReqsType, RequestFields DEF MuxInv
    <2>7. \A e \in Clients : e # c => since'[e] = since[e]
      BY <2>1, <2>2
    <2>8. \A e \in Clients : \A i \in DOMAIN inbox[e] : inbox[e][i] \in since'[e] + 1 .. asked[e]
      BY <2>4, <2>7 DEF MuxInv, Current
    <2>9. \A id \in DOMAIN q.reqs : q.reqs[id].ID > since'[q.reqs[id].conn]
      BY <2>5, <2>6, <2>7 DEF MuxInv, Current
    <2>10. \A e \in Clients : \A r \in out[e] :
              r.body = [conn |-> e, ID |-> r.ID] /\ r.ID > since'[e] /\ r.ID <= MaxReq[e]
      BY <2>4, <2>7, ZenonT(30) DEF MuxInv, Current
    <2>11. Current'
      BY <1>1, <2>1, <2>8, <2>9, <2>10, ZenonT(30) DEF MuxInv, Current
    <2> QED
      BY <1>2, <1>4, <2>3, <2>11 DEF MuxInv
  <1>6. CASE ClientSends(c)
    <2>1. /\ c \in d.sock_active \cup backlog /\ asked[c] < MaxReq[c]
          /\ asked' = [asked EXCEPT ![c] = @ + 1]
          /\ inbox' = [inbox EXCEPT ![c] = Append(@, asked[c] + 1)]
          /\ backlog' = backlog /\ gone' = gone /\ since' = since
      BY <1>6 DEF ClientSends
    <2>2. /\ asked \in [Clients -> Nat] /\ since \in [Clients -> Nat]
          /\ inbox \in [Clients -> Seq(Nat)] /\ inbox[c] \in Seq(Nat) /\ MaxReq[c] \in Nat
          /\ since[c] <= asked[c]
      BY MuxAssumption DEF MuxInv, TypeC
    <2>3. /\ Append(inbox[c], asked[c] + 1) \in Seq(Nat)
          /\ \A i \in DOMAIN Append(inbox[c], asked[c] + 1) :
                \/ Append(inbox[c], asked[c] + 1)[i] = asked[c] + 1
                \/ i \in DOMAIN inbox[c] /\ Append(inbox[c], asked[c] + 1)[i] = inbox[c][i]
      BY <2>2
    <2>4. TypeC'
      <3>1. inbox' \in [Clients -> Seq(Nat)] /\ asked' \in [Clients -> Nat]
        <4>1. inbox' \in [Clients -> Seq(Nat)]
          BY ONLY <2>1, <2>2, <2>3, c \in Clients
        <4>2. asked[c] + 1 \in Nat
          BY ONLY <2>2, c \in Clients
        <4>3. asked' \in [Clients -> Nat]
          BY ONLY <2>1, <2>2, <4>2, c \in Clients
        <4> QED
          BY ONLY <4>1, <4>3
      <3>2. \A e \in Clients : asked'[e] <= MaxReq[e] /\ since[e] <= asked'[e]
        <4>1. \A e \in Clients : asked[e] <= MaxReq[e] /\ since[e] <= asked[e]
          BY DEF MuxInv, TypeC
        <4>2. MaxReq \in [Clients -> Nat]
          BY MuxAssumption
        <4> QED
          BY ONLY <2>1, <2>2, <4>1, <4>2, c \in Clients
      <3> QED
        BY <1>1, <2>1, <3>1, <3>2 DEF MuxInv, TypeC
    <2>5. Reading'
      BY <1>1, <2>1 DEF MuxInv, Reading
    <2>6. ASSUME NEW e \in Clients, NEW i \in DOMAIN inbox'[e]
          PROVE  inbox'[e][i] \in since[e] + 1 .. asked'[e]
      <3>1. CASE e = c
        <4>1. inbox'[e] = Append(inbox[c], asked[c] + 1) /\ asked'[e] = asked[c] + 1
          BY <2>1, <2>2, <3>1
        <4>2. inbox'[e][i] = asked[c] + 1 \/ inbox'[e][i] \in since[c] + 1 .. asked[c]
          BY <2>3, <2>6, <4>1, ZenonT(60) DEF MuxInv, Current
        <4> QED
          BY <2>2, <3>1, <4>1, <4>2
      <3>2. CASE e # c
        BY <2>1, <2>2, <2>6, <3>2 DEF MuxInv, Current
      <3> QED
        BY <3>1, <3>2
    <2>7. \A e \in Clients \ (d.sock_active \cup backlog) : inbox'[e] = <<>>
      BY <2>1, <2>2, ZenonT(60) DEF MuxInv, Current
    <2>8. Current'
      BY <1>1, <2>1, <2>6, <2>7 DEF MuxInv, Current
    <2> QED
      BY <1>2, <1>4, <2>4, <2>5, <2>8 DEF MuxInv
  <1>7. CASE ClientCloses(c)
    <2>1. /\ gone' = gone \cup {c} /\ backlog' = backlog /\ inbox' = inbox /\ asked' = asked
          /\ since' = since
      BY <1>7 DEF ClientCloses
    <2>2. TypeC' /\ Reading' /\ Current'
      BY <1>1, <2>1 DEF MuxInv, TypeC, Reading, Current
    <2> QED
      BY <1>2, <1>4, <2>2 DEF MuxInv
  <1> QED
    BY <1>5, <1>6, <1>7 DEF Client

-----------------------------------------------------------------------------
(* The invariant holds at the start, and every step keeps it.              *)

\* dispatch_init establishes the invariant.
LEMMA MuxInit == ASSUME SetFacts PROVE Init => MuxInv
  <1> SUFFICES ASSUME Init PROVE MuxInv
    OBVIOUS
  <1>1. /\ q = [reqs |-> <<>>, next |-> 0, failed |-> FALSE, reading |-> TRUE, WQ |-> <<>>]
        /\ imm = <<>> /\ busy = "none" /\ wire = {} /\ resp = <<>>
        /\ d = [accept_cookie |-> Listeners, sock_active |-> {}, reading |-> {},
                nrequests |-> [c \in Clients |-> 0], failed |-> FALSE, error |-> FALSE]
        /\ main = "running" /\ backlog = {} /\ gone = {}
        /\ inbox = [c \in Clients |-> <<>>] /\ out = [c \in Clients |-> {}]
        /\ asked = [c \in Clients |-> 0] /\ since = asked
    BY DEF Init, QInit
  <1>2. TypeQ
    <2>1. <<>> \in [{} -> Request] /\ {} \in SUBSET Nat /\ DOMAIN <<>> = {}
      OBVIOUS
    <2>2. <<>> \in ReqMap
      BY <2>1 DEF ReqMap
    <2> QED
      BY <1>1, <2>1, <2>2 DEF TypeQ
  <1>3. TypeD
    BY <1>1 DEF TypeD, State, SetFacts, EmptySize
  <1>4. TypeC
    BY <1>1, MuxAssumption DEF TypeC
  <1>5. Reading
    BY <1>1, MuxAssumption DEF Reading
  <1>6. Accepts
    <2>1. /\ d.error = FALSE /\ d.failed = FALSE /\ d.accept_cookie = Listeners
          /\ d.sock_active = {}
      BY <1>1
    <2>2. Cardinality(d.sock_active) = 0
      BY <2>1 DEF SetFacts, EmptySize
    <2>3. nsock_active_max \in Nat \ {0}
      BY MuxAssumption
    <2> QED
      BY ONLY <2>1, <2>2, <2>3 DEF Accepts, Accepting
  <1>7. Counts
    <2>1. \A c : Of(<<>>, c) = {}
      BY DEF Of
    <2>2. q.reqs = <<>> /\ imm = <<>>
      BY <1>1
    <2>3. \A c : Pending(c) = Cardinality({}) + Cardinality({})
      BY <2>1, <2>2 DEF Pending
    <2>4. \A c : Pending(c) = 0
      BY <2>3 DEF SetFacts, EmptySize
    <2> QED
      BY <1>1, <2>4 DEF Counts
  <1>8. Packets /\ Current
    <2>1. /\ q.reqs = <<>> /\ q.WQ = <<>> /\ wire = {} /\ resp = <<>>
          /\ \A c \in Clients : inbox[c] = <<>> /\ out[c] = {}
      BY <1>1
    <2>2. DOMAIN <<>> = {}
      OBVIOUS
    <2>3. Packets
      BY ONLY <2>1, <2>2 DEF Packets
    <2>4. Current
      BY ONLY <2>1, <2>2 DEF Current
    <2> QED
      BY <2>3, <2>4
  <1> QED
    BY <1>2, <1>3, <1>4, <1>5, <1>6, <1>7, <1>8 DEF MuxInv

\* Every step keeps the invariant.
LEMMA MuxNext == ASSUME SetFacts PROVE MuxInv /\ [Next]_vars => MuxInv'
  <1> SUFFICES ASSUME MuxInv, [Next]_vars PROVE MuxInv'
    OBVIOUS
  <1>1. ASSUME NEW c \in Clients, Handle(c) PROVE MuxInv'
    <2>1. main = "running"
      BY <1>1 DEF Handle
    <2>2. CASE callback_gotconn(c)
      BY <2>1, <2>2, GotconnStep
    <2>3. CASE callback_gotrequests(c) \/ GotrequestsMore(c)
      BY <2>3, ForwardStep DEF callback_gotrequests, GotrequestsMore, Idle
    <2>4. CASE GotrequestsDone(c)
      BY <2>4, GotrequestsDoneStep
    <2>5. CASE GotrequestsFail(c)
      BY <2>1, <2>5, GotrequestsFailStep
    <2> QED
      BY <1>1, <2>2, <2>3, <2>4, <2>5 DEF Handle
  <1>2. ASSUME NEW c \in Clients, Client(c) PROVE MuxInv'
    BY <1>2, ClientStep
  <1>3. CASE GotconnFail \/ MainDone
    BY <1>3, EndStep
  <1>4. CASE Queue
    BY <1>4, QueueStep
  <1>5. CASE Target
    BY <1>5, TargetStep DEF Target
  <1>6. CASE UNCHANGED vars
    <2>1. /\ q' = q /\ imm' = imm /\ busy' = busy /\ wire' = wire /\ resp' = resp
          /\ Unconcerned
      BY <1>6 DEF vars, queue, Unconcerned
    <2>2. TypeQ' /\ Packets'
      BY <2>1 DEF MuxInv, TypeQ, Packets
    <2> QED
      BY <2>1, <2>2, QuietStep
  <1> QED
    BY <1>1, <1>2, <1>3, <1>4, <1>5, <1>6 DEF Next

-----------------------------------------------------------------------------
(* The theorems.                                                           *)

INSTANCE SetFactsProofs

\* The invariant holds throughout every run of the multiplexer.
LEMMA MuxSafe == Spec => []MuxInv
  <1>1. Init => MuxInv
    BY SetFactsHold, MuxInit
  <1>2. MuxInv /\ [Next]_vars => MuxInv'
    BY SetFactsHold, MuxNext
  <1> QED
    BY <1>1, <1>2, PTL DEF Spec

\* The multiplexer (mux/dispatch.c) counts right what it owes to every
\* connection, whatever the request queue does, and frees a connection
\* (dropconn) exactly when nothing can come for it any more.
THEOREM MuxCountsPending == Spec => []CountsPending
  <1>1. MuxInv => CountsPending
    <2> SUFFICES ASSUME MuxInv PROVE CountsPending
      OBVIOUS
    <2>1. \A c \in Clients : out[c] \subseteq Response(c)
      <3> SUFFICES ASSUME NEW c \in Clients, NEW r \in out[c] PROVE r \in Response(c)
        OBVIOUS
      <3>1. /\ r \in [ID : Nat, body : Request] /\ r.ID > since[c] /\ r.ID <= MaxReq[c]
            /\ since[c] \in Nat /\ MaxReq[c] \in Nat
        BY Zenon, MuxAssumption DEF MuxInv, TypeC, Current
      <3> QED
        BY <3>1 DEF Response
    <2>2. \A id \in DOMAIN q.reqs : q.reqs[id] \in Request
      BY SetFactsHold, ReqsType DEF MuxInv
    <2>3. TypeOK
      BY <2>1, <2>2 DEF MuxInv, TypeQ, TypeD, State, TypeOK
    <2> QED
      BY <2>3 DEF MuxInv, Counts, CountsPending
  <1> QED
    BY <1>1, MuxSafe, PTL

\* The multiplexer accepts connections exactly while it has fewer than the
\* limit (nsock_active_max), until its target fails, and accept_start never
\* finds an accept in progress.
THEOREM MuxAcceptsBelowLimit == Spec => []AcceptsBelowLimit
  <1>1. MuxInv => AcceptsBelowLimit
    <2> SUFFICES ASSUME MuxInv PROVE AcceptsBelowLimit
      OBVIOUS
    <2>1. d.error \in BOOLEAN /\ d.failed \in BOOLEAN
      BY DEF MuxInv, TypeD, State
    <2> QED
      BY <2>1 DEF MuxInv, Accepts, Accepting, AcceptsBelowLimit
  <1> QED
    BY <1>1, MuxSafe, PTL

\* callback_gotresponse writes a response to the connection the request came
\* from, under the client's own ID, and never to a later connection.
THEOREM MuxRouted == Spec => []Routed
  <1>1. MuxInv => Routed
    BY ZenonT(30) DEF MuxInv, Current, Routed
  <1> QED
    BY <1>1, MuxSafe, PTL

=============================================================================
