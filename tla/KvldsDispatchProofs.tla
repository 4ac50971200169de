------------------------ MODULE KvldsDispatchProofs -------------------------
(***************************************************************************)
(* Proofs about KvldsDispatch: kvlds's dispatcher counts the responses it  *)
(* owes, keeps to MAXREQS, and between two events has a reason to wait for *)
(* everything it has not launched.                                         *)
(***************************************************************************)
EXTENDS KvldsDispatch, SetFacts, TLAPS

\* The provers of a step that names none, and the seconds each has.
USE SMTT(30), ZenonT(30)

State ==
    [dying : BOOLEAN, read_cookie : BOOLEAN, nrequests : Nat,
     nmr_q : Seq(NmrTypes), nmr_run : [NmrTypes -> Nat],
     mr_qlen : Nat, mr_reqs : Nat, mr_inprogress : BOOLEAN,
     mr_timer : BOOLEAN, mr_timer_expired : BOOLEAN,
     mrc_timer : BOOLEAN, docleans : BOOLEAN]

\* The non-modifying and the modifying requests of a state.
Nmrs(s) == Len(s.nmr_q) + s.nmr_run["GET"] + s.nmr_run["RANGE"]
Mrs(s) == s.mr_qlen + (IF s.mr_inprogress THEN s.mr_reqs ELSE 0)

\* What poke_nmr and poke_mr leave.
NmrPoked(s) == s.nmr_q # <<>> => Pages(s.nmr_run) > 0
MrPoked(s) ==
    /\ s.mr_qlen > 0 => s.mr_timer \/ (s.mr_timer_expired /\ s.mr_inprogress)
    /\ s.mrc_timer \/ (s.docleans /\ s.mr_inprogress)

\* The connection, between handlers and in the loop of gotrequest.
Connection ==
    /\ looping # "no" => main = "open" /\ ~d.dying /\ ~d.read_cookie
    /\ main = "accept" => ~d.dying /\ ~d.read_cookie
    /\ d.read_cookie => main = "open" /\ ~d.dying
    /\ looping = "no" /\ main = "open" /\ ~d.dying => (d.read_cookie <=> d.nrequests < MAXREQS)

\* The inductive invariant.  In the loop of gotrequest, where NothingForgotten
\* says nothing, the queues have been poked after every request all the same.
DispInv ==
    /\ TypeOK
    /\ d.nrequests = Nmrs(d) + Mrs(d)
    /\ d.nrequests <= MAXREQS
    /\ ~d.dying => received = answered + d.nrequests
    /\ NmrPoked(d) /\ MrPoked(d)
    /\ Connection

-----------------------------------------------------------------------------
(***************************************************************************)
(* The largest element of a set of bounded numbers.                        *)
(***************************************************************************)
\* Max, which poke_nmr's loop is modelled with, is what its name says.
LEMMA MaxIs ==
  ASSUME SetFacts, NEW n \in Nat, NEW S \in SUBSET (0 .. n), S # {}
  PROVE  Max(S) \in S /\ \A k \in S : k <= Max(S)
<1> DEFINE D == {n - k : k \in S}
<1>0. \A k \in S : k \in 0 .. n
  OBVIOUS
<1>1. D \in SUBSET Nat /\ D # {}
  <2>1. \A k \in S : n - k \in Nat
    BY <1>0
  <2>2. D # {}
    BY Zenon
  <2> QED
    BY <2>1, <2>2
<1> HIDE DEF D
<1>2. PICK m \in D : \A k \in D : m <= k
  BY <1>1 DEF SetFacts, LeastNatural
<1>3. PICK x \in S : m = n - x
  BY <1>2 DEF D
<1>4. \A k \in S : x >= k
  <2> SUFFICES ASSUME NEW k \in S PROVE x >= k
    OBVIOUS
  <2>1. n - k \in D
    BY DEF D
  <2>2. n - x <= n - k /\ k \in Nat /\ x \in Nat
    BY <1>0, <1>2, <1>3, <2>1
  <2> QED
    BY <2>2
<1> QED
  BY Zenon, <1>4 DEF Max

-----------------------------------------------------------------------------
(***************************************************************************)
(* What the functions of dispatch.c do to a dispatcher state.              *)
(***************************************************************************)
\* Of the first k requests of the queue, each is a GET or a RANGE.
LEMMA LaunchedCounts ==
  ASSUME SetFacts, NEW s \in State, NEW k \in 0 .. Len(s.nmr_q)
  PROVE  /\ Launched(s, k) \in [NmrTypes -> Nat]
         /\ Launched(s, k)["GET"] + Launched(s, k)["RANGE"]
               = s.nmr_run["GET"] + s.nmr_run["RANGE"] + k
<1> DEFINE J(t) == {j \in 1 .. k : s.nmr_q[j] = t}
           G == Cardinality(J("GET"))
           H == Cardinality(J("RANGE"))
           f == Launched(s, k)
<1>1. /\ s.nmr_q \in Seq(NmrTypes) /\ s.nmr_run \in [NmrTypes -> Nat]
      /\ Len(s.nmr_q) \in Nat /\ k \in Nat /\ k <= Len(s.nmr_q)
  BY DEF State
<1>2. \A j \in 1 .. k : s.nmr_q[j] \in NmrTypes
  BY <1>1
<1>3. IsFiniteSet(1 .. k) /\ Cardinality(1 .. k) = k
  <2>1. k \in Nat /\ k \in Int /\ 1 \in Int
    BY <1>1
  <2> QED
    BY ONLY SetFacts, <2>1, Zenon DEF SetFacts, IntervalSize
<1>4. \A t : IsFiniteSet(J(t)) /\ Cardinality(J(t)) \in Nat
  BY <1>3 DEF SetFacts, SubsetSize, FiniteSize
<1>5. 1 .. k = J("GET") \cup J("RANGE") /\ J("GET") \cap J("RANGE") = {}
  BY <1>2 DEF NmrTypes
<1>6. f = [t \in NmrTypes |-> s.nmr_run[t] + Cardinality(J(t))]
  BY DEF Launched
<1> HIDE DEF J, f
<1>7. G + H = k
  <2>1. Cardinality(J("GET") \cup J("RANGE"))
          = G + H - Cardinality(J("GET") \cap J("RANGE"))
    BY Zenon, <1>4 DEF SetFacts, UnionSize
  <2>2. k = G + H - 0
    BY Zenon, <1>3, <1>5, <2>1 DEF SetFacts, EmptySize
  <2>3. G \in Nat /\ H \in Nat
    BY <1>4
  <2> HIDE DEF G, H
  <2> QED
    BY <2>2, <2>3
<1>8. f \in [NmrTypes -> Nat]
  BY <1>1, <1>4, <1>6
<1>9. /\ f["GET"] = s.nmr_run["GET"] + G /\ f["RANGE"] = s.nmr_run["RANGE"] + H
      /\ s.nmr_run["GET"] \in Nat /\ s.nmr_run["RANGE"] \in Nat
  BY <1>1, <1>6 DEF NmrTypes
<1>10. f["GET"] + f["RANGE"] = s.nmr_run["GET"] + s.nmr_run["RANGE"] + k
  <2> DEFINE a == s.nmr_run["GET"]
             b == s.nmr_run["RANGE"]
  <2>1. /\ G \in Nat /\ H \in Nat /\ a \in Nat /\ b \in Nat
        /\ f["GET"] = a + G /\ f["RANGE"] = b + H
    BY <1>4, <1>9
  <2> HIDE DEF G, H, a, b
  <2>2. (a + G) + (b + H) = a + b + k
    BY <1>1, <1>7, <2>1
  <2> QED
    BY <2>1, <2>2 DEF a, b
<1> QED
  BY <1>8, <1>10 DEF f

\* poke_nmr launches requests and loses none, and when it leaves some in the queue
\* others are in progress; it changes nothing else.
LEMMA PokeNmrKeeps ==
  ASSUME SetFacts, NEW s \in State
  PROVE  /\ PokeNmr(s) \in State
         /\ Nmrs(PokeNmr(s)) = Nmrs(s) /\ Mrs(PokeNmr(s)) = Mrs(s)
         /\ NmrPoked(PokeNmr(s)) /\ (MrPoked(s) => MrPoked(PokeNmr(s)))
         /\ PokeNmr(s).nrequests = s.nrequests /\ PokeNmr(s).dying = s.dying
         /\ PokeNmr(s).read_cookie = s.read_cookie
<1> DEFINE L == Len(s.nmr_q)
           S == {k \in 0 .. L : \A j \in 1 .. k : Fits(s, j)}
           n == Max(S)
           t == PokeNmr(s)
<1>1. s.nmr_q \in Seq(NmrTypes) /\ s.nmr_run \in [NmrTypes -> Nat] /\ L \in Nat
  BY DEF State
<1>2. S \in SUBSET (0 .. L) /\ 0 \in S
  BY <1>1
<1>3. n \in S /\ \A k \in S : k <= n
  <2> HIDE DEF S, L
  <2> QED
    BY Zenon, <1>1, <1>2, MaxIs
<1>4. n \in 0 .. L /\ \A j \in 1 .. n : Fits(s, j)
  BY <1>3
<1>5. n < L => ~Fits(s, n + 1)
  <2> SUFFICES ASSUME n < L, Fits(s, n + 1) PROVE FALSE
    OBVIOUS
  <2>1. n + 1 \in 0 .. L /\ \A j \in 1 .. n + 1 : j \in 1 .. n \/ j = n + 1
    <3> HIDE DEF n, L
    <3> QED
      BY <1>1, <1>4
  <2>2. n + 1 \in S
    BY Zenon, <1>4, <2>1
  <2> HIDE DEF S
  <2> QED
    BY <1>1, <1>3, <1>4, <2>2
<1>6. t = [s EXCEPT !.nmr_run = Launched(s, n), !.nmr_q = SubSeq(s.nmr_q, n + 1, L)]
  BY DEF PokeNmr
<1> HIDE DEF n, t, S, L
<1>7. /\ SubSeq(s.nmr_q, n + 1, L) \in Seq(NmrTypes)
      /\ Len(SubSeq(s.nmr_q, n + 1, L)) = L - n
  <2>1. n + 1 \in 1 .. L + 1 /\ L \in n .. L
    BY <1>1, <1>4
  <2> QED
    BY <1>1, <1>4, <2>1 DEF L
<1>8. /\ Launched(s, n) \in [NmrTypes -> Nat]
      /\ Launched(s, n)["GET"] + Launched(s, n)["RANGE"]
            = s.nmr_run["GET"] + s.nmr_run["RANGE"] + n
  BY <1>4, LaunchedCounts DEF L
<1>9. /\ t \in State
      /\ t.nmr_run = Launched(s, n) /\ t.nmr_q = SubSeq(s.nmr_q, n + 1, L)
      /\ t.nrequests = s.nrequests /\ t.dying = s.dying /\ t.read_cookie = s.read_cookie
      /\ t.mr_qlen = s.mr_qlen /\ t.mr_reqs = s.mr_reqs
      /\ t.mr_inprogress = s.mr_inprogress /\ t.mr_timer = s.mr_timer
      /\ t.mr_timer_expired = s.mr_timer_expired
      /\ t.mrc_timer = s.mrc_timer /\ t.docleans = s.docleans
  BY Zenon, <1>6, <1>7, <1>8 DEF State
<1>10. Nmrs(t) = Nmrs(s)
  <2> DEFINE a == s.nmr_run["GET"]
             b == s.nmr_run["RANGE"]
             x == t.nmr_run["GET"]
             y == t.nmr_run["RANGE"]
  <2>1. a \in Nat /\ b \in Nat /\ x \in Nat /\ y \in Nat /\ x + y = a + b + n
    BY <1>1, <1>8, <1>9 DEF NmrTypes
  <2>2. Nmrs(t) = (L - n) + x + y /\ Nmrs(s) = L + a + b
    BY <1>7, <1>9 DEF Nmrs, L
  <2> HIDE DEF a, b, x, y
  <2> QED
    BY <1>1, <1>4, <2>1, <2>2
<1>11. NmrPoked(t)
  <2> SUFFICES ASSUME t.nmr_q # <<>> PROVE Pages(t.nmr_run) > 0
    BY DEF NmrPoked
  <2>1. n < L
    BY <1>1, <1>4, <1>7, <1>9
  <2>2. (n + 1) - 1 = n
    BY <1>4
  <2>3. Launched(s, (n + 1) - 1) = Launched(s, n)
    BY <2>2
  <2>4. ~Fits(s, n + 1)
    BY <1>5, <2>1
  <2>5. Pages(Launched(s, (n + 1) - 1)) > 0
    BY <2>4, Zenon DEF Fits
  <2> QED
    BY <1>9, <2>3, <2>5
<1> QED
  BY <1>9, <1>10, <1>11 DEF t, Mrs, MrPoked

\* poke_mr launches a batch and loses no request, and when it leaves requests or
\* cleaning to do there is a timer or a batch in the way; it changes nothing else.
LEMMA PokeMrKeeps ==
  ASSUME NEW s \in State, s.mrc_timer \/ s.docleans
  PROVE  /\ PokeMr(s) \in State
         /\ Nmrs(PokeMr(s)) = Nmrs(s) /\ Mrs(PokeMr(s)) = Mrs(s)
         /\ MrPoked(PokeMr(s)) /\ (NmrPoked(s) => NmrPoked(PokeMr(s)))
         /\ PokeMr(s).nrequests = s.nrequests /\ PokeMr(s).dying = s.dying
         /\ PokeMr(s).read_cookie = s.read_cookie
<1> DEFINE n == IF s.mr_qlen > MaxBatch THEN MaxBatch ELSE s.mr_qlen
           u == IF BatchDue(s) THEN LaunchBatch(s) ELSE s
           t == PokeMr(s)
<1>1. n \in Nat /\ n <= s.mr_qlen /\ s.mr_qlen - n \in Nat
  BY KvldsDispatchAssumption DEF State
<1>2. LaunchBatch(s) = [s EXCEPT !.mr_reqs = n, !.mr_qlen = s.mr_qlen - n,
                           !.mr_inprogress = TRUE, !.mr_timer = FALSE,
                           !.mr_timer_expired = FALSE, !.mrc_timer = TRUE,
                           !.docleans = FALSE]
  BY DEF LaunchBatch
<1> HIDE DEF n
<1>3. /\ u \in State
      /\ u.nmr_q = s.nmr_q /\ u.nmr_run = s.nmr_run
      /\ u.nrequests = s.nrequests /\ u.dying = s.dying /\ u.read_cookie = s.read_cookie
      /\ Mrs(u) = Mrs(s)
      /\ u.mr_timer_expired => u.mr_inprogress
      /\ u.mrc_timer \/ (u.docleans /\ u.mr_inprogress)
  <2>1. CASE BatchDue(s)
    <3>1. u = LaunchBatch(s)
      BY <2>1
    <3>2. /\ u \in State
          /\ u.nmr_q = s.nmr_q /\ u.nmr_run = s.nmr_run
          /\ u.nrequests = s.nrequests /\ u.dying = s.dying /\ u.read_cookie = s.read_cookie
          /\ u.mr_qlen = s.mr_qlen - n /\ u.mr_reqs = n /\ u.mr_inprogress = TRUE
          /\ u.mr_timer_expired = FALSE /\ u.mrc_timer = TRUE
      BY ZenonT(60), <1>1, <1>2, <3>1 DEF State
    <3>3. ~s.mr_inprogress /\ s.mr_qlen \in Nat
      BY <2>1 DEF BatchDue, State
    <3> QED
      BY <1>1, <3>2, <3>3 DEF Mrs
  <2>2. CASE ~BatchDue(s)
    BY <2>2 DEF BatchDue, State
  <2> QED
    BY <2>1, <2>2
<1>4. t = [u EXCEPT !.mr_timer = u.mr_timer \/ (~u.mr_timer_expired /\ u.mr_qlen > 0)]
  BY DEF PokeMr, StartTimer
<1> HIDE DEF t, u
<1>5. /\ t \in State
      /\ t.nmr_q = s.nmr_q /\ t.nmr_run = s.nmr_run
      /\ t.nrequests = s.nrequests /\ t.dying = s.dying /\ t.read_cookie = s.read_cookie
      /\ t.mr_qlen = u.mr_qlen /\ t.mr_reqs = u.mr_reqs
      /\ t.mr_inprogress = u.mr_inprogress /\ t.mr_timer_expired = u.mr_timer_expired
      /\ t.mrc_timer = u.mrc_timer /\ t.docleans = u.docleans
      /\ t.mr_timer = (u.mr_timer \/ (~u.mr_timer_expired /\ u.mr_qlen > 0))
  BY <1>3, <1>4 DEF State
<1>6. MrPoked(t)
  BY Zenon, <1>3, <1>5 DEF MrPoked
<1> QED
  BY <1>3, <1>5, <1>6 DEF t, Nmrs, Mrs, NmrPoked

\* dropconnection takes the queued requests, and only them, off the count.
LEMMA DropKeeps ==
  ASSUME NEW s \in State, s.nrequests = Nmrs(s) + Mrs(s), MrPoked(s)
  PROVE  LET t == Dropconnection(s) IN
         /\ t \in State /\ t.nrequests = Nmrs(t) + Mrs(t) /\ t.nrequests <= s.nrequests
         /\ NmrPoked(t) /\ MrPoked(t) /\ t.dying /\ ~t.read_cookie
<1> DEFINE t == Dropconnection(s)
           L == Len(s.nmr_q)
           a == s.nmr_run["GET"]
           b == s.nmr_run["RANGE"]
           m == IF s.mr_inprogress THEN s.mr_reqs ELSE 0
<1>1. L \in Nat /\ a \in Nat /\ b \in Nat /\ m \in Nat /\ s.mr_qlen \in Nat
  BY DEF State, NmrTypes
<1>2. Nmrs(s) = L + a + b /\ Mrs(s) = s.mr_qlen + m
  BY DEF Nmrs, Mrs
<1>3. t = [s EXCEPT !.dying = TRUE, !.read_cookie = FALSE, !.nmr_q = <<>>, !.mr_qlen = 0,
                    !.nrequests = s.nrequests - L - s.mr_qlen,
                    !.mr_timer = FALSE, !.mr_timer_expired = FALSE]
  BY DEF Dropconnection
<1> HIDE DEF L, a, b, m, t
<1>4. s.nrequests - L - s.mr_qlen = a + b + m /\ a + b + m \in Nat
      /\ a + b + m <= s.nrequests
  BY <1>1, <1>2
<1>5. /\ t \in State
      /\ t.dying = TRUE /\ t.read_cookie = FALSE /\ t.nmr_q = <<>> /\ t.mr_qlen = 0
      /\ t.nrequests = a + b + m /\ t.nmr_run = s.nmr_run
      /\ t.mr_inprogress = s.mr_inprogress /\ t.mr_reqs = s.mr_reqs
      /\ t.mrc_timer = s.mrc_timer /\ t.docleans = s.docleans
  <2> DEFINE n == s.nrequests - L - s.mr_qlen
             e == <<>>
  <2>1. n \in Nat /\ n = a + b + m /\ e \in Seq(NmrTypes)
    BY <1>4
  <2>2. t = [s EXCEPT !.dying = TRUE, !.read_cookie = FALSE, !.nmr_q = e, !.mr_qlen = 0,
                      !.nrequests = n, !.mr_timer = FALSE, !.mr_timer_expired = FALSE]
    BY <1>3
  <2> HIDE DEF n, e
  <2>3. /\ t \in State
        /\ t.dying = TRUE /\ t.read_cookie = FALSE /\ t.nmr_q = e /\ t.mr_qlen = 0
        /\ t.nrequests = n /\ t.nmr_run = s.nmr_run
        /\ t.mr_inprogress = s.mr_inprogress /\ t.mr_reqs = s.mr_reqs
        /\ t.mrc_timer = s.mrc_timer /\ t.docleans = s.docleans
    BY ONLY Zenon, s \in State, <2>1, <2>2 DEF State
  <2> QED
    BY <2>1, <2>3 DEF e
<1>6. Nmrs(t) = 0 + a + b /\ Mrs(t) = 0 + m
  <2>1. Len(t.nmr_q) = 0
    BY <1>5
  <2> QED
    BY <1>5, <2>1 DEF Nmrs, Mrs, a, b, m
<1>7. t.nrequests = Nmrs(t) + Mrs(t) /\ t.nrequests <= s.nrequests
  BY <1>1, <1>4, <1>5, <1>6
<1>8. NmrPoked(t) /\ MrPoked(t)
  BY <1>5 DEF NmrPoked, MrPoked
<1> QED
  BY <1>5, <1>7, <1>8 DEF t

\* readreqs starts to wait for requests, and does nothing else.
LEMMA ReadreqsKeeps ==
  ASSUME NEW s \in State, NEW o \in BOOLEAN
  PROVE  LET t == Readreqs(s, o) IN
         /\ t \in State /\ Nmrs(t) = Nmrs(s) /\ Mrs(t) = Mrs(s)
         /\ (NmrPoked(s) => NmrPoked(t)) /\ (MrPoked(s) => MrPoked(t))
         /\ t.nrequests = s.nrequests /\ t.dying = s.dying
         /\ t.mrc_timer = s.mrc_timer /\ t.docleans = s.docleans
         /\ t.read_cookie <=> (o /\ ~s.dying /\ s.nrequests # MAXREQS) \/ s.read_cookie
<1> DEFINE t == Readreqs(s, o)
           c == (o /\ ~s.dying /\ s.nrequests # MAXREQS) \/ s.read_cookie
<1>1. c \in BOOLEAN
  OBVIOUS
<1>2. t = [s EXCEPT !.read_cookie = c]
  BY DEF Readreqs
<1> HIDE DEF t, c
<1>3. /\ t \in State /\ t.read_cookie = c
      /\ t.nmr_q = s.nmr_q /\ t.nmr_run = s.nmr_run
      /\ t.nrequests = s.nrequests /\ t.dying = s.dying
      /\ t.mr_qlen = s.mr_qlen /\ t.mr_reqs = s.mr_reqs
      /\ t.mr_inprogress = s.mr_inprogress /\ t.mr_timer = s.mr_timer
      /\ t.mr_timer_expired = s.mr_timer_expired
      /\ t.mrc_timer = s.mrc_timer /\ t.docleans = s.docleans
  BY Zenon, <1>1, <1>2 DEF State
<1> QED
  BY Zenon, <1>3 DEF t, c, Nmrs, Mrs, NmrPoked, MrPoked

\* The numbers of requests are natural numbers.
LEMMA CountsNat ==
  ASSUME NEW s \in State
  PROVE  Nmrs(s) \in Nat /\ Mrs(s) \in Nat
<1>1. Len(s.nmr_q) \in Nat /\ s.nmr_run["GET"] \in Nat /\ s.nmr_run["RANGE"] \in Nat
  BY DEF State, NmrTypes
<1>2. s.mr_qlen \in Nat /\ s.mr_reqs \in Nat
  BY DEF State
<1> QED
  BY <1>1, <1>2 DEF Nmrs, Mrs

-----------------------------------------------------------------------------
(***************************************************************************)
(* The steps.                                                              *)
(***************************************************************************)
\* What is left to show of a step when the functions it calls are known.
LEMMA Holds ==
  ASSUME d' \in State,
         main' \in {"accept", "open", "done"}, looping' \in {"no", "first", "more"},
         cleanable' \in BOOLEAN, received' \in Nat, answered' \in Nat,
         d'.nrequests = Nmrs(d') + Mrs(d'), d'.nrequests <= MAXREQS,
         ~d'.dying => received' = answered' + d'.nrequests,
         NmrPoked(d'), MrPoked(d'), Connection'
  PROVE  DispInv'
BY DEF DispInv, TypeOK, State, Nmrs, Mrs, NmrPoked, MrPoked

\* What the invariant says of the state before the step.
LEMMA Has ==
  ASSUME DispInv
  PROVE  /\ d \in State /\ d.nrequests \in Nat /\ d.dying \in BOOLEAN
         /\ d.read_cookie \in BOOLEAN
         /\ main \in {"accept", "open", "done"} /\ looping \in {"no", "first", "more"}
         /\ cleanable \in BOOLEAN /\ received \in Nat /\ answered \in Nat
         /\ d.nrequests = Nmrs(d) + Mrs(d) /\ d.nrequests <= MAXREQS
         /\ ~d.dying => received = answered + d.nrequests
         /\ NmrPoked(d) /\ MrPoked(d)
         /\ MAXREQS \in Nat
BY KvldsDispatchAssumption DEF DispInv, TypeOK, State

\* dispatch_init and dispatch_accept start with nothing owed and nothing to do.
LEMMA DispInit ==
  ASSUME Init
  PROVE  DispInv
<1>1. d \in State
  BY DEF Init, State
<1>2. Nmrs(d) = 0 /\ Mrs(d) = 0 /\ d.nrequests = 0
  BY DEF Init, Nmrs, Mrs, NmrTypes
<1>3. NmrPoked(d) /\ MrPoked(d) /\ Connection
  BY DEF Init, NmrPoked, MrPoked, Connection
<1> QED
  <2>1. TypeOK
    BY Zenon, <1>1 DEF Init, TypeOK, State
  <2>2. d.nrequests = Nmrs(d) + Mrs(d) /\ d.nrequests <= MAXREQS
    BY <1>2, KvldsDispatchAssumption
  <2>3. received = answered + d.nrequests
    BY <1>2 DEF Init
  <2> QED
    BY <1>3, <2>1, <2>2, <2>3 DEF DispInv

\* callback_accept and the start of gotrequest.
LEMMA AcceptStep ==
  ASSUME DispInv, CallbackAccept
  PROVE  DispInv'
<1> USE Has
<1>1. d' = Readreqs(d, TRUE)
  BY DEF CallbackAccept
<1>2. /\ d' \in State /\ Nmrs(d') = Nmrs(d) /\ Mrs(d') = Mrs(d)
      /\ NmrPoked(d') /\ MrPoked(d')
      /\ d'.nrequests = d.nrequests /\ d'.dying = d.dying
      /\ d'.read_cookie <=> (~d.dying /\ d.nrequests # MAXREQS) \/ d.read_cookie
  BY Zenon, <1>1, ReadreqsKeeps
<1>3. Connection'
  <2>1. d.nrequests # MAXREQS <=> d.nrequests < MAXREQS
    OBVIOUS
  <2>2. main = "accept" /\ main' = "open" /\ looping' = looping
    BY DEF CallbackAccept
  <2>3. ~d.dying /\ ~d.read_cookie /\ looping = "no"
    BY <2>2 DEF DispInv, Connection
  <2> QED
    BY <1>2, <2>1, <2>2, <2>3 DEF Connection
<1> QED
  BY Zenon, <1>2, <1>3, Holds DEF CallbackAccept

\* gotrequest is entered: the read that called it back is over.
LEMMA GotRequestStep ==
  ASSUME DispInv, GotRequest
  PROVE  DispInv'
<1> USE Has
<1>1. d' = [d EXCEPT !.read_cookie = FALSE]
  BY DEF GotRequest
<1>2. /\ d' \in State /\ d'.read_cookie = FALSE
      /\ d'.nmr_q = d.nmr_q /\ d'.nmr_run = d.nmr_run
      /\ d'.nrequests = d.nrequests /\ d'.dying = d.dying
      /\ d'.mr_qlen = d.mr_qlen /\ d'.mr_reqs = d.mr_reqs
      /\ d'.mr_inprogress = d.mr_inprogress /\ d'.mr_timer = d.mr_timer
      /\ d'.mr_timer_expired = d.mr_timer_expired
      /\ d'.mrc_timer = d.mrc_timer /\ d'.docleans = d.docleans
  BY Zenon, <1>1 DEF State
<1>3. Nmrs(d') = Nmrs(d) /\ Mrs(d') = Mrs(d) /\ NmrPoked(d') /\ MrPoked(d')
  BY <1>2 DEF Nmrs, Mrs, NmrPoked, MrPoked
<1>4. Connection'
  BY <1>2 DEF DispInv, Connection, GotRequest
<1> QED
  BY <1>2, <1>3, <1>4, Holds DEF GotRequest

\* The three ways to lose the connection.
LEMMA DropStep ==
  ASSUME DispInv, GotRequestFailed \/ GotBadRequest \/ WriteFailed
  PROVE  DispInv'
<1> USE Has
<1>1. /\ d' = Dropconnection(d) /\ looping' = "no"
      /\ main' = main /\ cleanable' = cleanable
      /\ received' = received /\ answered' = answered
  BY DEF GotRequestFailed, GotBadRequest, WriteFailed, Waiting
<1>2. main = "open"
  BY DEF DispInv, Connection, GotRequestFailed, GotBadRequest, WriteFailed, More
<1>3. /\ d' \in State /\ d'.nrequests = Nmrs(d') + Mrs(d') /\ d'.nrequests <= d.nrequests
      /\ NmrPoked(d') /\ MrPoked(d') /\ d'.dying /\ ~d'.read_cookie
  BY <1>1, DropKeeps
<1>4. Connection'
  BY <1>1, <1>2, <1>3 DEF Connection
<1>5. d'.nrequests <= MAXREQS
  <2>1. d'.nrequests \in Nat
    BY <1>3 DEF State
  <2> QED
    BY <1>3, <2>1
<1> QED
  BY <1>1, <1>3, <1>4, <1>5, Holds

\* In the loop of gotrequest there is room for a request, and the connection is open.
LEMMA InLoop ==
  ASSUME DispInv, More
  PROVE  /\ looping # "no" /\ main = "open" /\ ~d.dying /\ ~d.read_cookie
         /\ d.nrequests + 1 \in Nat /\ d.nrequests + 1 <= MAXREQS
         /\ received = answered + d.nrequests
<1> USE Has
<1>1. looping # "no" /\ d.nrequests # MAXREQS
  BY DEF More
<1>2. main = "open" /\ ~d.dying /\ ~d.read_cookie
  BY <1>1 DEF DispInv, Connection
<1> QED
  BY <1>1, <1>2

\* gotrequest answers PARAMS at once, and owes nothing for it.
LEMMA GotParamsStep ==
  ASSUME DispInv, GotParams
  PROVE  DispInv'
<1> USE Has
<1>1. d' = d /\ main' = main /\ cleanable' = cleanable /\ looping' = "more"
  BY DEF GotParams
<1>2. main = "open" /\ ~d.dying /\ ~d.read_cookie /\ received = answered + d.nrequests
  BY InLoop DEF GotParams
<1>3. Connection'
  BY <1>1, <1>2 DEF Connection
<1>4. received' = received + 1 /\ answered' = answered + 1
  BY DEF GotParams
<1>5. received' \in Nat /\ answered' \in Nat /\ received' = answered' + d'.nrequests
  BY <1>1, <1>2, <1>4
<1> QED
  BY <1>1, <1>3, <1>5, Holds

\* gotrequest queues a modifying request and pokes that queue: the batch is launched,
\* or a batch in progress or the timer will look at the queue again.
LEMMA GotMrStep ==
  ASSUME DispInv, GotMr
  PROVE  DispInv'
<1> USE Has
<1> DEFINE s == [d EXCEPT !.nrequests = d.nrequests + 1, !.mr_qlen = d.mr_qlen + 1]
<1>1. /\ d' = PokeMr(s) /\ main' = main /\ cleanable' = cleanable /\ looping' = "more"
      /\ received' = received + 1 /\ answered' = answered
  BY DEF GotMr
<1>2. /\ main = "open" /\ ~d.dying /\ ~d.read_cookie /\ received = answered + d.nrequests
      /\ d.nrequests + 1 \in Nat /\ d.nrequests + 1 <= MAXREQS
  BY InLoop DEF GotMr
<1>3. d.mr_qlen \in Nat /\ d.mr_qlen + 1 \in Nat
  BY DEF State
<1>4. /\ s \in State /\ s.nrequests = d.nrequests + 1 /\ s.mr_qlen = d.mr_qlen + 1
      /\ s.nmr_q = d.nmr_q /\ s.nmr_run = d.nmr_run
      /\ s.dying = d.dying /\ s.read_cookie = d.read_cookie
      /\ s.mr_inprogress = d.mr_inprogress /\ s.mr_reqs = d.mr_reqs
      /\ s.mrc_timer = d.mrc_timer /\ s.docleans = d.docleans
  BY Zenon, <1>2, <1>3 DEF State
<1> HIDE DEF s
<1>5. Nmrs(s) = Nmrs(d) /\ NmrPoked(s)
  BY <1>4 DEF Nmrs, NmrPoked
<1>6. Mrs(s) = Mrs(d) + 1
  <2> DEFINE m == IF d.mr_inprogress THEN d.mr_reqs ELSE 0
  <2>1. Mrs(s) = (d.mr_qlen + 1) + m /\ Mrs(d) = d.mr_qlen + m /\ m \in Nat
    BY <1>4 DEF Mrs, State
  <2> HIDE DEF m
  <2> QED
    BY <1>3, <2>1
<1>7. s.mrc_timer \/ s.docleans
  BY <1>4 DEF MrPoked
<1>8. /\ d' \in State /\ Nmrs(d') = Nmrs(d) /\ Mrs(d') = Mrs(d) + 1
      /\ MrPoked(d') /\ NmrPoked(d')
      /\ d'.nrequests = d.nrequests + 1 /\ d'.dying = d.dying
      /\ d'.read_cookie = d.read_cookie
  BY <1>1, <1>4, <1>5, <1>6, <1>7, PokeMrKeeps
<1>9. Connection'
  BY <1>1, <1>2, <1>8 DEF Connection
<1>10. /\ d'.nrequests = Nmrs(d') + Mrs(d') /\ d'.nrequests <= MAXREQS
       /\ received' \in Nat /\ received' = answered' + d'.nrequests
  BY <1>1, <1>2, <1>8, CountsNat
<1> QED
  BY <1>1, <1>8, <1>9, <1>10, Holds

\* gotrequest queues a request that does not modify and pokes that queue: it is
\* launched, or something in progress will look at the queue when it ends.
LEMMA GotNmrStep ==
  ASSUME SetFacts, DispInv, NEW t \in NmrTypes, GotNmr(t)
  PROVE  DispInv'
<1> USE Has
<1> DEFINE s == [d EXCEPT !.nrequests = d.nrequests + 1, !.nmr_q = Append(d.nmr_q, t)]
<1>1. /\ d' = PokeNmr(s) /\ main' = main /\ cleanable' = cleanable /\ looping' = "more"
      /\ received' = received + 1 /\ answered' = answered
  BY DEF GotNmr
<1>2. /\ main = "open" /\ ~d.dying /\ ~d.read_cookie /\ received = answered + d.nrequests
      /\ d.nrequests + 1 \in Nat /\ d.nrequests + 1 <= MAXREQS
  BY InLoop DEF GotNmr
<1>3. /\ Append(d.nmr_q, t) \in Seq(NmrTypes) /\ Len(d.nmr_q) \in Nat
      /\ Len(Append(d.nmr_q, t)) = Len(d.nmr_q) + 1
  BY DEF State
<1>4. /\ s \in State /\ s.nrequests = d.nrequests + 1 /\ s.nmr_q = Append(d.nmr_q, t)
      /\ s.nmr_run = d.nmr_run
      /\ s.dying = d.dying /\ s.read_cookie = d.read_cookie /\ s.mr_qlen = d.mr_qlen
      /\ s.mr_inprogress = d.mr_inprogress /\ s.mr_reqs = d.mr_reqs
      /\ s.mr_timer = d.mr_timer /\ s.mr_timer_expired = d.mr_timer_expired
      /\ s.mrc_timer = d.mrc_timer /\ s.docleans = d.docleans
  BY Zenon, <1>2, <1>3 DEF State
<1> HIDE DEF s
<1>5. Mrs(s) = Mrs(d) /\ MrPoked(s)
  BY <1>4 DEF Mrs, MrPoked
<1>6. Nmrs(s) = Nmrs(d) + 1
  <2> DEFINE L == Len(d.nmr_q)
             a == d.nmr_run["GET"]
             b == d.nmr_run["RANGE"]
  <2>1. Nmrs(s) = (L + 1) + a + b /\ Nmrs(d) = L + a + b /\ a \in Nat /\ b \in Nat /\ L \in Nat
    BY <1>3, <1>4 DEF Nmrs, State, NmrTypes
  <2> HIDE DEF L, a, b
  <2> QED
    BY <2>1
<1>7. /\ d' \in State /\ Nmrs(d') = Nmrs(d) + 1 /\ Mrs(d') = Mrs(d)
      /\ MrPoked(d') /\ NmrPoked(d')
      /\ d'.nrequests = d.nrequests + 1 /\ d'.dying = d.dying
      /\ d'.read_cookie = d.read_cookie
  BY <1>1, <1>4, <1>5, <1>6, PokeNmrKeeps
<1>8. Connection'
  BY <1>1, <1>2, <1>7 DEF Connection
<1>9. /\ d'.nrequests = Nmrs(d') + Mrs(d') /\ d'.nrequests <= MAXREQS
      /\ received' \in Nat /\ received' = answered' + d'.nrequests
  BY <1>1, <1>2, <1>7, CountsNat
<1> QED
  BY <1>1, <1>7, <1>8, <1>9, Holds

\* gotrequest finds no more requests, or has MAXREQS of them, and leaves its loop:
\* it waits for more exactly below the limit.
LEMMA GotNoMoreStep ==
  ASSUME DispInv, GotNoMore
  PROVE  DispInv'
<1> USE Has
<1>1. /\ d' = Readreqs(d, TRUE) /\ main' = main /\ cleanable' = cleanable
      /\ looping = "more" /\ looping' = "no"
      /\ received' = received /\ answered' = answered
  BY DEF GotNoMore
<1>2. main = "open" /\ ~d.dying /\ ~d.read_cookie
  BY <1>1 DEF DispInv, Connection
<1>3. /\ d' \in State /\ Nmrs(d') = Nmrs(d) /\ Mrs(d') = Mrs(d)
      /\ NmrPoked(d') /\ MrPoked(d')
      /\ d'.nrequests = d.nrequests /\ d'.dying = d.dying
      /\ d'.read_cookie <=> (~d.dying /\ d.nrequests # MAXREQS) \/ d.read_cookie
  BY Zenon, <1>1, ReadreqsKeeps
<1>4. d.nrequests # MAXREQS <=> d.nrequests < MAXREQS
  OBVIOUS
<1>5. Connection'
  BY Zenon, <1>1, <1>2, <1>3, <1>4 DEF Connection
<1> QED
  BY Zenon, <1>1, <1>3, <1>5, Holds

\* The end of n requests, with readreqs: what it does to the connection and to the
\* number of responses owed.
LEMMA RequestsDone ==
  ASSUME DispInv, Waiting, NEW n \in Nat, n <= d.nrequests, Answer(n),
         d' \in State, d'.nrequests = d.nrequests - n, d'.dying = d.dying,
         d'.read_cookie
            <=> (main = "open" /\ ~d.dying /\ d.nrequests - n # MAXREQS) \/ d.read_cookie,
         main' = main, looping' = looping, received' = received
  PROVE  /\ Connection' /\ d'.nrequests <= MAXREQS /\ answered' \in Nat
         /\ ~d'.dying => received' = answered' + d'.nrequests
<1> USE Has
<1>1. looping = "no" /\ main \in {"accept", "open"}
  BY DEF Waiting
<1>2. /\ d.nrequests - n \in Nat /\ d.nrequests - n <= MAXREQS
      /\ d.nrequests - n # MAXREQS <=> d.nrequests - n < MAXREQS
  OBVIOUS
<1>3. main = "open" /\ ~d.dying /\ d.read_cookie => d.nrequests - n < MAXREQS
  <2>1. main = "open" /\ ~d.dying /\ d.read_cookie => d.nrequests < MAXREQS
    BY <1>1 DEF DispInv, Connection
  <2>2. d.nrequests < MAXREQS => d.nrequests - n < MAXREQS
    OBVIOUS
  <2> QED
    BY <2>1, <2>2
<1>4. Connection'
  <2>1. /\ main = "accept" => ~d.dying /\ ~d.read_cookie
        /\ d.read_cookie => main = "open" /\ ~d.dying
    BY DEF DispInv, Connection
  <2> QED
    BY <1>1, <1>2, <1>3, <2>1 DEF Connection
<1>5. CASE d.dying
  BY <1>2, <1>4, <1>5 DEF Answer
<1>6. CASE ~d.dying
  <2>1. answered' = answered + n /\ received = answered + d.nrequests
    BY <1>6 DEF Answer
  <2> QED
    BY <1>2, <1>4, <2>1
<1> QED
  BY <1>5, <1>6

\* callback_nmr_done: a request ends, the queue is poked, and reading resumes if this
\* request was the one that kept it below the limit.
LEMMA NmrDoneStep ==
  ASSUME SetFacts, DispInv, NEW t \in NmrTypes, CallbackNmrDone(t)
  PROVE  DispInv'
<1> USE Has
<1> DEFINE run == [d.nmr_run EXCEPT ![t] = d.nmr_run[t] - 1]
           s == [d EXCEPT !.nmr_run = run, !.nrequests = d.nrequests - 1]
           r == Readreqs(s, main = "open")
<1>1. /\ Waiting /\ d.nmr_run[t] > 0
      /\ d' = PokeNmr(Readreqs([d EXCEPT !.nmr_run[t] = @ - 1, !.nrequests = @ - 1],
                               main = "open"))
      /\ Answer(1) /\ main' = main /\ looping' = looping
      /\ cleanable' = cleanable /\ received' = received
  BY DEF CallbackNmrDone
<1>2. [d EXCEPT !.nmr_run[t] = @ - 1, !.nrequests = @ - 1] = s
  BY DEF State
<1>3. /\ d.nmr_run \in [NmrTypes -> Nat] /\ d.nmr_run[t] \in Nat \ {0}
      /\ run \in [NmrTypes -> Nat] /\ Len(d.nmr_q) \in Nat
  BY <1>1 DEF State
<1>4. /\ run["GET"] + run["RANGE"] = (d.nmr_run["GET"] + d.nmr_run["RANGE"]) - 1
      /\ d.nmr_run["GET"] + d.nmr_run["RANGE"] \in Nat \ {0}
      /\ run["GET"] \in Nat /\ run["RANGE"] \in Nat
      /\ d.nmr_run["GET"] \in Nat /\ d.nmr_run["RANGE"] \in Nat
  <2>1. CASE t = "GET"
    BY <1>3, <2>1 DEF NmrTypes
  <2>2. CASE t = "RANGE"
    BY <1>3, <2>2 DEF NmrTypes
  <2> QED
    BY <2>1, <2>2 DEF NmrTypes
<1>5. Nmrs(d) \in Nat \ {0} /\ 1 <= d.nrequests /\ d.nrequests - 1 \in Nat
  <2> DEFINE L == Len(d.nmr_q)
             a == d.nmr_run["GET"]
             b == d.nmr_run["RANGE"]
  <2>1. Nmrs(d) = L + a + b /\ L \in Nat /\ a \in Nat /\ b \in Nat /\ a + b # 0
    BY <1>3, <1>4 DEF Nmrs
  <2>2. Mrs(d) \in Nat
    BY CountsNat
  <2> HIDE DEF L, a, b
  <2> QED
    BY <2>1, <2>2
<1>6. /\ s \in State /\ s.nrequests = d.nrequests - 1 /\ s.nmr_q = d.nmr_q
      /\ s.nmr_run = run
      /\ s.dying = d.dying /\ s.read_cookie = d.read_cookie /\ s.mr_qlen = d.mr_qlen
      /\ s.mr_inprogress = d.mr_inprogress /\ s.mr_reqs = d.mr_reqs
      /\ s.mr_timer = d.mr_timer /\ s.mr_timer_expired = d.mr_timer_expired
      /\ s.mrc_timer = d.mrc_timer /\ s.docleans = d.docleans
  <2> HIDE DEF run
  <2> QED
    BY Zenon, <1>3, <1>5 DEF State
<1> HIDE DEF s, run
<1>7. Mrs(s) = Mrs(d) /\ MrPoked(s)
  BY <1>6 DEF Mrs, MrPoked
<1>8. Nmrs(s) = Nmrs(d) - 1
  <2> DEFINE L == Len(d.nmr_q)
             a == d.nmr_run["GET"]
             b == d.nmr_run["RANGE"]
             x == run["GET"]
             y == run["RANGE"]
  <2>1. /\ Nmrs(s) = L + x + y /\ Nmrs(d) = L + a + b /\ L \in Nat
        /\ a \in Nat /\ b \in Nat /\ x \in Nat /\ y \in Nat /\ x + y = (a + b) - 1
    BY <1>3, <1>4, <1>6 DEF Nmrs
  <2> HIDE DEF L, a, b, x, y
  <2> QED
    BY <2>1
<1>9. /\ r \in State /\ Nmrs(r) = Nmrs(s) /\ Mrs(r) = Mrs(s) /\ MrPoked(r)
      /\ r.nrequests = s.nrequests /\ r.dying = s.dying
      /\ r.read_cookie <=> (main = "open" /\ ~s.dying /\ s.nrequests # MAXREQS) \/ s.read_cookie
  BY Zenon, <1>6, <1>7, ReadreqsKeeps
<1>10. d' = PokeNmr(r)
  BY <1>1, <1>2
<1> HIDE DEF r
<1>11. /\ d' \in State /\ Nmrs(d') = Nmrs(d) - 1 /\ Mrs(d') = Mrs(d)
       /\ NmrPoked(d') /\ MrPoked(d')
       /\ d'.nrequests = d.nrequests - 1 /\ d'.dying = d.dying
       /\ d'.read_cookie = r.read_cookie
  BY <1>6, <1>7, <1>8, <1>9, <1>10, PokeNmrKeeps
<1>12. d'.read_cookie
          <=> (main = "open" /\ ~d.dying /\ d.nrequests - 1 # MAXREQS) \/ d.read_cookie
  BY <1>6, <1>9, <1>11
<1>13. /\ Connection' /\ d'.nrequests <= MAXREQS /\ answered' \in Nat
       /\ ~d'.dying => received' = answered' + d'.nrequests
  BY <1>1, <1>5, <1>11, <1>12, RequestsDone
<1>14. d'.nrequests = Nmrs(d') + Mrs(d')
  BY <1>11, CountsNat
<1> QED
  BY <1>1, <1>11, <1>13, <1>14, Holds

\* callback_mr_done: a batch ends with all its requests, the next one is poked, and
\* reading resumes.
LEMMA MrDoneStep ==
  ASSUME DispInv, CallbackMrDone
  PROVE  DispInv'
<1> USE Has
<1> DEFINE n == d.mr_reqs
           s == [d EXCEPT !.nrequests = d.nrequests - n, !.mr_inprogress = FALSE]
           r == Readreqs(s, main = "open")
<1>1. /\ Waiting /\ d.mr_inprogress /\ d' = PokeMr(r)
      /\ Answer(n) /\ main' = main /\ looping' = looping
      /\ cleanable' = cleanable /\ received' = received
  BY DEF CallbackMrDone
<1>2. /\ n \in Nat /\ d.mr_qlen \in Nat /\ Mrs(d) = d.mr_qlen + n
  BY <1>1 DEF State, Mrs
<1> HIDE DEF n
<1>3. n <= d.nrequests /\ d.nrequests - n \in Nat
  BY <1>2, CountsNat
<1>4. /\ s \in State /\ s.nrequests = d.nrequests - n /\ s.nmr_q = d.nmr_q
      /\ s.nmr_run = d.nmr_run
      /\ s.dying = d.dying /\ s.read_cookie = d.read_cookie /\ s.mr_qlen = d.mr_qlen
      /\ s.mr_inprogress = FALSE
      /\ s.mrc_timer = d.mrc_timer /\ s.docleans = d.docleans
  BY Zenon, <1>3 DEF State
<1> HIDE DEF s
<1>5. Nmrs(s) = Nmrs(d) /\ NmrPoked(s) /\ Mrs(s) = d.mr_qlen + 0 /\ (s.mrc_timer \/ s.docleans)
  BY <1>4 DEF Nmrs, NmrPoked, Mrs, MrPoked
<1>6. /\ r \in State /\ Nmrs(r) = Nmrs(s) /\ Mrs(r) = Mrs(s) /\ NmrPoked(r)
      /\ r.nrequests = s.nrequests /\ r.dying = s.dying
      /\ r.mrc_timer = s.mrc_timer /\ r.docleans = s.docleans
      /\ r.read_cookie <=> (main = "open" /\ ~s.dying /\ s.nrequests # MAXREQS) \/ s.read_cookie
  BY Zenon, <1>4, <1>5, ReadreqsKeeps
<1> HIDE DEF r
<1>7. /\ d' \in State /\ Nmrs(d') = Nmrs(d) /\ Mrs(d') = d.mr_qlen + 0
      /\ NmrPoked(d') /\ MrPoked(d')
      /\ d'.nrequests = d.nrequests - n /\ d'.dying = d.dying
      /\ d'.read_cookie = r.read_cookie
  BY <1>1, <1>4, <1>5, <1>6, PokeMrKeeps
<1>8. d'.read_cookie
         <=> (main = "open" /\ ~d.dying /\ d.nrequests - n # MAXREQS) \/ d.read_cookie
  BY <1>4, <1>6, <1>7
<1>9. /\ Connection' /\ d'.nrequests <= MAXREQS /\ answered' \in Nat
      /\ ~d'.dying => received' = answered' + d'.nrequests
  BY <1>1, <1>2, <1>3, <1>7, <1>8, RequestsDone
<1>10. d'.nrequests = Nmrs(d') + Mrs(d')
  BY <1>2, <1>7, CountsNat
<1> QED
  BY <1>1, <1>7, <1>9, <1>10, Holds

\* The two timers.
LEMMA TimerStep ==
  ASSUME DispInv, CallbackMrTimer \/ CallbackMrcTimer
  PROVE  DispInv'
<1> USE Has
<1>1. PICK s \in State :
        /\ d' = PokeMr(s) /\ s.nrequests = d.nrequests /\ s.nmr_q = d.nmr_q
        /\ s.nmr_run = d.nmr_run /\ s.dying = d.dying /\ s.read_cookie = d.read_cookie
        /\ s.mr_qlen = d.mr_qlen /\ s.mr_reqs = d.mr_reqs
        /\ s.mr_inprogress = d.mr_inprogress /\ (s.mrc_timer \/ s.docleans)
  <2>1. CASE CallbackMrTimer
    <3> DEFINE s == [d EXCEPT !.mr_timer = FALSE, !.mr_timer_expired = TRUE]
    <3>1. s \in State /\ d' = PokeMr(s)
      BY Zenon, <2>1 DEF CallbackMrTimer, State
    <3>2. /\ s.nrequests = d.nrequests /\ s.nmr_q = d.nmr_q
          /\ s.nmr_run = d.nmr_run /\ s.dying = d.dying /\ s.read_cookie = d.read_cookie
          /\ s.mr_qlen = d.mr_qlen /\ s.mr_reqs = d.mr_reqs
          /\ s.mr_inprogress = d.mr_inprogress /\ (s.mrc_timer \/ s.docleans)
      BY DEF MrPoked, State
    <3> HIDE DEF s
    <3> QED
      BY <3>1, <3>2
  <2>2. CASE CallbackMrcTimer
    <3> DEFINE s == [d EXCEPT !.mrc_timer = FALSE, !.docleans = TRUE]
    <3>1. s \in State /\ d' = PokeMr(s)
      BY Zenon, <2>2 DEF CallbackMrcTimer, State
    <3>2. /\ s.nrequests = d.nrequests /\ s.nmr_q = d.nmr_q
          /\ s.nmr_run = d.nmr_run /\ s.dying = d.dying /\ s.read_cookie = d.read_cookie
          /\ s.mr_qlen = d.mr_qlen /\ s.mr_reqs = d.mr_reqs
          /\ s.mr_inprogress = d.mr_inprogress /\ s.docleans
      BY DEF State
    <3> HIDE DEF s
    <3> QED
      BY <3>1, <3>2
  <2> QED
    BY <2>1, <2>2
<1>2. /\ main' = main /\ looping' = looping /\ cleanable' = cleanable
      /\ received' = received /\ answered' = answered
  BY DEF CallbackMrTimer, CallbackMrcTimer
<1>3. Nmrs(s) = Nmrs(d) /\ Mrs(s) = Mrs(d) /\ NmrPoked(s)
  BY <1>1 DEF Nmrs, Mrs, NmrPoked
<1>4. /\ d' \in State /\ Nmrs(d') = Nmrs(d) /\ Mrs(d') = Mrs(d)
      /\ NmrPoked(d') /\ MrPoked(d')
      /\ d'.nrequests = d.nrequests /\ d'.dying = d.dying
      /\ d'.read_cookie = d.read_cookie
  BY <1>1, <1>3, PokeMrKeeps
<1>5. Connection'
  BY <1>2, <1>4 DEF DispInv, Connection
<1> QED
  BY <1>2, <1>4, <1>5, Holds

\* dispatch_done, the cleaner, and no step at all leave the state as it is.
LEMMA OtherStep ==
  ASSUME DispInv, CleanerStep \/ DispatchDone \/ UNCHANGED vars
  PROVE  DispInv'
<1> USE Has
<1>1. d' = d /\ looping' = looping /\ received' = received /\ answered' = answered
  BY DEF CleanerStep, DispatchDone, vars
<1>2. main' \in {"accept", "open", "done"} /\ cleanable' \in BOOLEAN
  BY Zenon DEF CleanerStep, DispatchDone, vars
<1>3. Connection'
  <2>1. CASE main' = main
    BY <1>1, <2>1 DEF DispInv, Connection
  <2>2. CASE DispatchDone
    <3>1. looping = "no" /\ main' = "done" /\ d.dying
      BY <2>2 DEF DispatchDone, Waiting, Alive
    <3>2. ~d.read_cookie
      BY <3>1 DEF DispInv, Connection
    <3> QED
      BY <1>1, <3>1, <3>2 DEF Connection
  <2> QED
    BY <2>1, <2>2 DEF CleanerStep, vars
<1> QED
  BY <1>1, <1>2, <1>3, Holds

\* Every handler of the dispatcher keeps the inductive invariant.
LEMMA DispNext ==
  ASSUME SetFacts, DispInv, [Next]_vars
  PROVE  DispInv'
BY AcceptStep, GotRequestStep, DropStep, GotParamsStep, GotMrStep, GotNmrStep,
   GotNoMoreStep, NmrDoneStep, MrDoneStep, TimerStep, OtherStep, Zenon
   DEF Next, Packet

-----------------------------------------------------------------------------
(***************************************************************************)
(* The theorems.                                                           *)
(***************************************************************************)
-----------------------------------------------------------------------------
(***************************************************************************)
(* The theorems.                                                           *)
(***************************************************************************)
INSTANCE SetFactsProofs

\* The invariant holds throughout every run of the dispatcher.
LEMMA DispSafe == Spec => []DispInv
<1>1. Init => DispInv
  BY DispInit
<1>2. DispInv /\ [Next]_vars => DispInv'
  BY SetFactsHold, DispNext
<1> QED
  BY <1>1, <1>2, PTL DEF Spec

\* kvlds's dispatcher counts the responses it owes: nrequests is the number of
\* requests queued and in progress, at most MAXREQS, however requests, completions,
\* timers and drops of the connection follow each other, and no request of a
\* connection that is alive is lost or answered twice.
THEOREM DispatcherOwes == Spec => []Owed
<1>1. DispInv => Owed
  <2> SUFFICES ASSUME DispInv PROVE Owed
    OBVIOUS
  <2> DEFINE L == Len(d.nmr_q)
             a == d.nmr_run["GET"]
             b == d.nmr_run["RANGE"]
             m == IF d.mr_inprogress THEN d.mr_reqs ELSE 0
  <2>1. /\ L \in Nat /\ a \in Nat /\ b \in Nat /\ m \in Nat /\ d.mr_qlen \in Nat
        /\ d.nrequests = (L + a + b) + (d.mr_qlen + m)
    BY Has DEF State, NmrTypes, Nmrs, Mrs
  <2> HIDE DEF L, a, b, m
  <2>2. d.nrequests = L + a + b + d.mr_qlen + m
    BY <2>1
  <2>3. TypeOK /\ d.nrequests <= MAXREQS /\ (~d.dying => received = answered + d.nrequests)
    BY DEF DispInv
  <2> QED
    BY <2>2, <2>3 DEF Owed, L, a, b, m
<1> QED
  BY <1>1, DispSafe, PTL

\* Between two events the dispatcher has forgotten nothing: what is queued has a
\* timer, a batch or a read in its way that will look at the queue again, and the
\* connection is read from if and only if there is room for a request.
THEOREM DispatcherForgetsNothing == Spec => []NothingForgotten
<1>1. DispInv => NothingForgotten
  BY Zenon DEF DispInv, NothingForgotten, NmrPoked, MrPoked, Connection, Waiting
<1> QED
  BY <1>1, DispSafe, PTL
=============================================================================
