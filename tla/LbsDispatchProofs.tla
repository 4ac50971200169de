-------------------------- MODULE LbsDispatchProofs -------------------------
(***************************************************************************)
(* The theorems about lbs/dispatch.c, worker.c and dispatch_request.c, for *)
(* any number of reader threads.                                           *)
(***************************************************************************)
EXTENDS LbsDispatch, SetFacts, TLAPS

\* The provers of a step that names none, and the seconds each has.
USE SMTT(30), ZenonT(30), Z3T(30)

Readers == 0 .. nreaders - 1
Read == [id: Nat, blkno: Nat]
Job == [op: {"none", "read", "write", "delete"}, blkno: Nat, n: Nat, id: Nat]
Ctl == [pc: {"run", "wait", "dead"}, haswork: BOOLEAN, workdone: BOOLEAN, suicide: BOOLEAN,
        work: Job, data: Int]

Req == [type: {"params", "get", "append", "free"}, blkno: Nat, n: Nat, conn: Nat,
        answers: Seq(Nat), status: {0, 1}, value: Int, must: Int]

Elems(s) == {s[i] : i \in DOMAIN s}
Distinct(s) == \A i, j \in DOMAIN s : s[i] = s[j] => i = j

\* The threads a response is owed for, the readers without work, and the threads
\* whose work is done and has not been taken back.
Busy(c) == {w \in 0 .. writer : c[w].haswork}
Idle(c) == {w \in Readers : ~c[w].haswork}
Done(c) == {w \in Workers : c[w].haswork /\ c[w].workdone}

\* The n threads on top of a stack.
Taken(n, s) == {s[Len(s) + 1 - i] : i \in 1 .. n}

StoreOK ==
    /\ next \in Nat /\ freed \in Nat /\ pend \in [id: Nat, n: Nat]
    /\ \A b \in DOMAIN log : b \in Nat /\ b < next /\ log[b] \in Nat

ReqsOK == reqs \in Seq(Req) /\ conn \in Nat

\* What the dispatcher and its threads have in common.
Work0 ==
    /\ npending = Len(readq) + Cardinality(Busy(ctl))
    /\ writer_busy = ctl[writer].haswork /\ deleter_busy = ctl[deleter].haswork
    /\ Distinct(readers_idle) /\ Elems(readers_idle) = Idle(ctl)
    /\ Distinct(spair) /\ Elems(spair) = Done(ctl)
    /\ readq # <<>> => readers_idle = <<>>

\* Nothing is owed to anybody while there is no connection.
Between ==
    /\ accepting \/ victim # Nobody => npending = 0 /\ ~reading
    /\ victim # Nobody => ~accepting

OwedInv == TypeOK /\ StoreOK /\ ReqsOK /\ assertOK /\ Work0 /\ Between

-----------------------------------------------------------------------------
(***************************************************************************)
(* Sequences of threads, and the numbers of threads.                       *)
(***************************************************************************)
\* A thread is put at the end of a stack or a queue that does not have it.
LEMMA AppendElems ==
  ASSUME NEW S, NEW s \in Seq(S), NEW x \in S, Distinct(s), x \notin Elems(s)
  PROVE  /\ Append(s, x) \in Seq(S) /\ Distinct(Append(s, x))
         /\ Elems(Append(s, x)) = Elems(s) \cup {x}
<1> DEFINE t == Append(s, x)
<1>1. /\ t \in Seq(S) /\ Len(t) = Len(s) + 1 /\ t[Len(s) + 1] = x
      /\ \A i \in 1 .. Len(s) : t[i] = s[i]
  OBVIOUS
<1>2. DOMAIN s = 1 .. Len(s) /\ Len(s) \in Nat /\ DOMAIN t = 1 .. Len(s) + 1
  BY <1>1
<1> HIDE DEF t
<1>3. \A i \in DOMAIN t : i \in DOMAIN s \/ i = Len(s) + 1
  BY <1>2
<1>4. Distinct(t)
  BY Zenon, <1>1, <1>2, <1>3 DEF Distinct, Elems
<1>5. Elems(t) = Elems(s) \cup {x}
  <2>1. Elems(t) \subseteq Elems(s) \cup {x}
    BY Zenon, <1>1, <1>2, <1>3 DEF Elems
  <2>2. Elems(s) \cup {x} \subseteq Elems(t)
    BY <1>1, <1>2 DEF Elems
  <2> QED
    BY Zenon, <2>1, <2>2
<1> QED
  BY Zenon, <1>1, <1>4, <1>5 DEF t

\* The first thread is taken from a queue.
LEMMA TailElems ==
  ASSUME NEW S, NEW s \in Seq(S), s # <<>>, Distinct(s)
  PROVE  /\ Head(s) \in S /\ Head(s) \in Elems(s)
         /\ Tail(s) \in Seq(S) /\ Distinct(Tail(s)) /\ Elems(Tail(s)) = Elems(s) \ {Head(s)}
<1> DEFINE t == Tail(s)
<1>1. /\ Head(s) = s[1] /\ t \in Seq(S) /\ Len(t) = Len(s) - 1 /\ Len(s) \in Nat \ {0}
      /\ \A i \in 1 .. Len(t) : t[i] = s[i + 1]
  OBVIOUS
<1>2. DOMAIN s = 1 .. Len(s) /\ DOMAIN t = 1 .. Len(s) - 1 /\ 1 \in DOMAIN s
  BY <1>1
<1> HIDE DEF t
<1>3. \A i \in DOMAIN t : i + 1 \in DOMAIN s /\ i + 1 # 1 /\ t[i] = s[i + 1]
  BY <1>1, <1>2
<1>4. \A i \in DOMAIN s : i = 1 \/ (i - 1 \in DOMAIN t /\ t[i - 1] = s[i])
  BY <1>1, <1>2
<1>5. Distinct(t)
  BY <1>2, <1>3 DEF Distinct
<1>6. Elems(t) \subseteq Elems(s) \ {s[1]}
  BY <1>2, <1>3 DEF Distinct, Elems
<1>7. Elems(s) \ {s[1]} \subseteq Elems(t)
  BY <1>4 DEF Elems
<1>8. s[1] \in S /\ s[1] \in Elems(s)
  BY <1>2 DEF Elems
<1> QED
  BY Zenon, <1>1, <1>5, <1>6, <1>7, <1>8 DEF t

\* The last n threads are taken from a stack: they are n threads.
LEMMA PopElems ==
  ASSUME SetFacts, NEW S, NEW s \in Seq(S), Distinct(s), NEW n \in 0 .. Len(s)
  PROVE  LET T == Taken(n, s)
             t == SubSeq(s, 1, Len(s) - n)
         IN  /\ t \in Seq(S) /\ Len(t) = Len(s) - n /\ Distinct(t)
             /\ Elems(t) = Elems(s) \ T
             /\ T \subseteq Elems(s) /\ IsFiniteSet(T) /\ Cardinality(T) = n
<1> DEFINE L == Len(s)
           T == {s[L + 1 - i] : i \in 1 .. n}
           t == SubSeq(s, 1, L - n)
           f == [i \in 1 .. n |-> s[L + 1 - i]]
<1>1. L \in Nat /\ DOMAIN s = 1 .. L /\ n \in Nat /\ n <= L /\ L - n \in Nat
  OBVIOUS
<1>2. /\ t \in Seq(S) /\ Len(t) = L - n
      /\ \A i \in 1 .. L - n : t[i] = s[i]
  <2>1. \A i \in 1 .. L - n : s[i] \in S
    BY <1>1
  <2>2. /\ t \in Seq(S) /\ Len(t) = IF 1 <= L - n THEN (L - n) - 1 + 1 ELSE 0
        /\ \A i \in 1 .. (L - n) - 1 + 1 : t[i] = s[1 + i - 1]
    BY <1>1, <2>1
  <2>3. \A i \in 1 .. L - n : i \in 1 .. (L - n) - 1 + 1 /\ 1 + i - 1 = i
    BY <1>1
  <2>4. Len(t) = L - n
    <3> HIDE DEF t, L
    <3> QED
      BY <1>1, <2>2
  <2> QED
    BY Zenon, <2>2, <2>3, <2>4
<1>3. DOMAIN t = 1 .. L - n
  BY <1>2
<1> HIDE DEF t, L
<1>4. Distinct(t)
  BY <1>1, <1>2, <1>3 DEF Distinct
<1>5. \A i \in 1 .. n : L + 1 - i \in DOMAIN s /\ L + 1 - i \notin 1 .. L - n
  BY <1>1
<1>6. T \subseteq Elems(s)
  BY Zenon, <1>5 DEF Elems
<1>7. Elems(t) \subseteq Elems(s) \ T
  <2> SUFFICES ASSUME NEW i \in 1 .. L - n
               PROVE  s[i] \in Elems(s) /\ s[i] \notin T
    BY Zenon, <1>2, <1>3 DEF Elems
  <2>1. i \in DOMAIN s
    BY <1>1
  <2> QED
    BY <1>5, <2>1 DEF Elems, Distinct
<1>8. Elems(s) \ T \subseteq Elems(t)
  <2> SUFFICES ASSUME NEW i \in DOMAIN s, s[i] \notin T
               PROVE  s[i] \in Elems(t)
    BY Zenon DEF Elems
  <2>1. i \in 1 .. L - n \/ (L + 1 - i \in 1 .. n /\ L + 1 - (L + 1 - i) = i)
    BY <1>1
  <2>2. i \in 1 .. L - n
    BY Zenon, <2>1
  <2> QED
    BY Zenon, <1>2, <1>3, <2>2 DEF Elems
<1>9. IsFiniteSet(T) /\ Cardinality(T) = n
  <2>1. f \in [1 .. n -> T] /\ \A y \in T : \E i \in 1 .. n : f[i] = y
    BY Zenon
  <2>2. \A i, j \in 1 .. n : f[i] = f[j] => i = j
    <3> SUFFICES ASSUME NEW i \in 1 .. n, NEW j \in 1 .. n, s[L + 1 - i] = s[L + 1 - j]
                 PROVE  i = j
      BY Zenon
    <3>1. L + 1 - i = L + 1 - j
      BY Zenon, <1>5 DEF Distinct
    <3> QED
      BY <1>1, <3>1
  <2> HIDE DEF f, T
  <2>3. OneToOne(f, 1 .. n) /\ Onto(f, 1 .. n, T)
    BY Zenon, <2>1, <2>2 DEF OneToOne, Onto
  <2>5. IsFiniteSet(1 .. n) /\ Cardinality(1 .. n) = n
    BY <1>1 DEF SetFacts, IntervalSize
  <2> QED
    BY Zenon, <2>1, <2>3, <2>5 DEF SetFacts, MatchSize
<1>10. T = Taken(n, s)
  BY Zenon DEF Taken, L
<1> HIDE DEF T
<1> QED
  BY Zenon, <1>2, <1>4, <1>6, <1>7, <1>8, <1>9, <1>10 DEF t, L

\* The threads are finitely many.
LEMMA BusyFinite ==
  ASSUME SetFacts, NEW c
  PROVE  IsFiniteSet(Busy(c)) /\ Cardinality(Busy(c)) \in Nat
<1>1. IsFiniteSet(0 .. writer)
  BY LbsDispatchAssumption DEF writer, SetFacts, IntervalSize
<1>2. Busy(c) \subseteq 0 .. writer
  BY Zenon DEF Busy
<1> QED
  BY Zenon, <1>1, <1>2 DEF SetFacts, SubsetSize, FiniteSize

\* Some threads get work that had none.
LEMMA MoreBusy ==
  ASSUME SetFacts, NEW c, NEW e, NEW T \in SUBSET (0 .. writer), IsFiniteSet(T),
         \A w \in 0 .. writer : e[w].haswork <=> (c[w].haswork \/ w \in T),
         \A w \in T : ~c[w].haswork
  PROVE  Cardinality(Busy(e)) = Cardinality(Busy(c)) + Cardinality(T)
<1>1. Busy(e) = Busy(c) \cup T /\ Busy(c) \cap T = {}
  BY Zenon DEF Busy
<1>2. IsFiniteSet(Busy(c)) /\ Cardinality(Busy(c)) \in Nat
  BY Zenon, BusyFinite
<1>3. Cardinality(Busy(c) \cup T)
        = Cardinality(Busy(c)) + Cardinality(T) - Cardinality(Busy(c) \cap T)
  BY Zenon, <1>2 DEF SetFacts, UnionSize
<1>4. Cardinality(T) \in Nat
  BY Zenon DEF SetFacts, FiniteSize
<1>5. Cardinality(Busy(c) \cap T) = 0
  BY Zenon, <1>1 DEF SetFacts, EmptySize
<1> QED
  BY <1>1, <1>2, <1>3, <1>4, <1>5

\* A thread loses its work.
LEMMA LessBusy ==
  ASSUME SetFacts, NEW c, NEW e, NEW w \in 0 .. writer, c[w].haswork, ~e[w].haswork,
         \A v \in 0 .. writer : v # w => (e[v].haswork <=> c[v].haswork)
  PROVE  Cardinality(Busy(c)) = Cardinality(Busy(e)) + 1
<1>1. Busy(c) = Busy(e) \cup {w} /\ w \notin Busy(e)
  BY Zenon DEF Busy
<1> QED
  BY Zenon, <1>1, BusyFinite DEF SetFacts, AddSize

-----------------------------------------------------------------------------
(***************************************************************************)
(* dispatch_request_pokereadq.                                             *)
(***************************************************************************)
\* What it does: n readers that had no work get the first reads of the queue, in
\* order, until one of the two runs out.
Handed(c, q, idle, n) ==
    /\ n <= Len(q) /\ n <= Len(idle)
    /\ assertOK' = TRUE
    /\ ctl' \in [Workers -> Ctl]
    /\ readq' \in Seq(Read) /\ Len(readq') = Len(q) - n
    /\ \A i \in DOMAIN readq' : i + n \in DOMAIN q /\ readq'[i] = q[i + n]
    /\ readers_idle' \in Seq(Readers) /\ Distinct(readers_idle')
    /\ readq' # <<>> => readers_idle' = <<>>
    /\ Elems(readers_idle') = Elems(idle) \ Taken(n, idle)
    /\ IsFiniteSet(Taken(n, idle)) /\ Cardinality(Taken(n, idle)) = n
    /\ Taken(n, idle) \subseteq Idle(c)
    /\ \A w \in Workers \ Taken(n, idle) : ctl'[w] = c[w]
    /\ \A w \in Taken(n, idle) :
          /\ ctl'[w].haswork /\ ~ctl'[w].workdone
          /\ \E i \in 1 .. n :
                /\ idle[Len(idle) + 1 - i] = w
                /\ ctl'[w].work = [op |-> "read", blkno |-> q[i].blkno, n |-> 0, id |-> q[i].id]

\* dispatch_request_pokereadq hands reads to the readers on top of the stack.
LEMMA Poked ==
  ASSUME SetFacts, NEW c \in [Workers -> Ctl], NEW q \in Seq(Read), NEW idle \in Seq(Readers), NEW ok,
         ok = TRUE, ctl \in [Workers -> Ctl],
         Distinct(idle), Elems(idle) = Idle(c), PokeReadq(c, q, idle, ok)
  PROVE  \E n \in Nat : Handed(c, q, idle, n)
<1> DEFINE n == IF Len(q) < Len(idle) THEN Len(q) ELSE Len(idle)
           T == Taken(n, idle)
           reader(i) == idle[Len(idle) + 1 - i]
           rd(w) == q[CHOOSE i \in 1 .. n : reader(i) = w]
<1>1. Len(q) \in Nat /\ Len(idle) \in Nat /\ DOMAIN q = 1 .. Len(q)
  OBVIOUS
<1>2. n \in Nat /\ n <= Len(q) /\ n <= Len(idle) /\ n \in 0 .. Len(idle)
  BY <1>1
<1>0. n = Len(q) \/ n = Len(idle)
  BY Zenon
<1>3. T = {reader(i) : i \in 1 .. n}
  BY Zenon DEF Taken
<1>4. /\ assertOK' = (ok /\ \A w \in T : ~c[w].haswork)
      /\ ctl' = [w \in Workers |->
                   IF w \in T THEN Assigned(w, "read", rd(w).blkno, 0, rd(w).id) ELSE c[w]]
      /\ readq' = SubSeq(q, n + 1, Len(q))
      /\ readers_idle' = SubSeq(idle, 1, Len(idle) - n)
  BY Zenon DEF PokeReadq, Taken
<1> HIDE DEF n
<1>5. /\ readers_idle' \in Seq(Readers) /\ Len(readers_idle') = Len(idle) - n
      /\ Distinct(readers_idle') /\ Elems(readers_idle') = Elems(idle) \ T
      /\ T \subseteq Elems(idle) /\ IsFiniteSet(T) /\ Cardinality(T) = n
  BY <1>2, <1>4, PopElems
<1>6. T \subseteq Idle(c) /\ T \subseteq Workers
  BY <1>5, LbsDispatchAssumption DEF Idle, Readers, Workers
<1>7. assertOK' = TRUE
  BY Zenon, <1>4, <1>6 DEF Idle
<1>8. /\ readq' \in Seq(Read) /\ Len(readq') = Len(q) - n
      /\ \A i \in DOMAIN readq' : i + n \in DOMAIN q /\ readq'[i] = q[i + n]
  <2>1. \A i \in n + 1 .. Len(q) : q[i] \in Read
    BY <1>1, <1>2
  <2>2. n + 1 \in Int /\ Len(q) \in Int
    BY <1>1, <1>2
  <2>3. /\ readq' \in Seq(Read)
        /\ Len(readq') = IF n + 1 <= Len(q) THEN Len(q) - (n + 1) + 1 ELSE 0
        /\ \A i \in 1 .. Len(q) - (n + 1) + 1 : readq'[i] = q[(n + 1) + i - 1]
    BY <1>4, <2>1, <2>2
  <2>4. Len(readq') = Len(q) - n
    <3> DEFINE L == Len(q)
               l == Len(readq')
    <3>1. l = IF n + 1 <= L THEN L - (n + 1) + 1 ELSE 0
      BY Zenon, <2>3
    <3>2. L \in Nat /\ n \in Nat /\ n <= L
      BY Zenon, <1>1, <1>2
    <3> HIDE DEF L, l
    <3>3. l = L - n
      BY <3>1, <3>2
    <3> QED
      BY Zenon, <3>3 DEF L, l
  <2>5. DOMAIN readq' = 1 .. Len(q) - n
    BY <2>3, <2>4
  <2>6. \A i \in 1 .. Len(q) - n :
          i \in 1 .. Len(q) - (n + 1) + 1 /\ (n + 1) + i - 1 = i + n /\ i + n \in 1 .. Len(q)
    BY <1>1, <1>2
  <2> QED
    BY Zenon, <1>1, <2>3, <2>4, <2>5, <2>6
<1>9. readq' # <<>> => readers_idle' = <<>>
  BY <1>0, <1>1, <1>5, <1>8
<1>10. \A w \in T : /\ (CHOOSE i \in 1 .. n : reader(i) = w) \in 1 .. n
                    /\ reader(CHOOSE i \in 1 .. n : reader(i) = w) = w
  BY Zenon, <1>3
<1>11. \A w \in T : \E i \in 1 .. n : reader(i) = w /\ rd(w) = q[i]
  BY Zenon, <1>10
<1> HIDE DEF rd, reader
<1>12. \A i \in 1 .. n : q[i] \in Read
  BY <1>1, <1>2
<1>13. \A w \in T : /\ ctl'[w] \in Ctl /\ ctl'[w].haswork /\ ~ctl'[w].workdone
                    /\ ctl'[w].work = [op |-> "read", blkno |-> rd(w).blkno,
                                       n |-> 0, id |-> rd(w).id]
  <2> SUFFICES ASSUME NEW w \in T
               PROVE  /\ ctl'[w] \in Ctl /\ ctl'[w].haswork /\ ~ctl'[w].workdone
                      /\ ctl'[w].work = [op |-> "read", blkno |-> rd(w).blkno,
                                         n |-> 0, id |-> rd(w).id]
    BY Zenon
  <2>1. ctl'[w] = Assigned(w, "read", rd(w).blkno, 0, rd(w).id)
    BY Zenon, <1>4, <1>6
  <2>2. rd(w) \in Read
    BY Zenon, <1>11, <1>12
  <2>3. rd(w).blkno \in Nat /\ rd(w).id \in Nat
    BY Zenon, <2>2 DEF Read
  <2>4. ctl[w] \in Ctl
    BY Zenon, <1>6
  <2>5. [op |-> "read", blkno |-> rd(w).blkno, n |-> 0, id |-> rd(w).id] \in Job
    BY Zenon, <2>3 DEF Job
  <2> QED
    BY Zenon, <2>1, <2>4, <2>5 DEF Assigned, Ctl
<1>14. \A w \in Workers \ T : ctl'[w] = c[w]
  BY Zenon, <1>4
<1>15. ctl' \in [Workers -> Ctl]
  <2>1. \A w \in Workers : ctl'[w] \in Ctl
    BY Zenon, <1>13, <1>14
  <2> QED
    BY Zenon, <1>4, <2>1
<1>16. \A w \in T : \E i \in 1 .. n :
          /\ idle[Len(idle) + 1 - i] = w
          /\ ctl'[w].work = [op |-> "read", blkno |-> q[i].blkno, n |-> 0, id |-> q[i].id]
  <2> SUFFICES ASSUME NEW w \in T
               PROVE  \E i \in 1 .. n :
                         /\ idle[Len(idle) + 1 - i] = w
                         /\ ctl'[w].work = [op |-> "read", blkno |-> q[i].blkno, n |-> 0, id |-> q[i].id]
    BY Zenon
  <2>1. PICK i \in 1 .. n : reader(i) = w /\ rd(w) = q[i]
    BY Zenon, <1>11
  <2>2. idle[Len(idle) + 1 - i] = w
    BY ONLY <2>1 DEF reader
  <2>3. ctl'[w].work = [op |-> "read", blkno |-> rd(w).blkno, n |-> 0, id |-> rd(w).id]
    BY ONLY <1>13, w \in T, Zenon
  <2> QED
    BY ONLY <2>1, <2>2, <2>3, Zenon
<1>17. Handed(c, q, idle, n)
  <2> HIDE DEF T
  <2> QED
    BY Zenon, <1>2, <1>5, <1>6, <1>7, <1>8, <1>9, <1>13, <1>14, <1>15, <1>16 DEF T, Handed
<1> QED
  BY Zenon, <1>2, <1>17

-----------------------------------------------------------------------------
(***************************************************************************)
(* The steps, and what they do to the responses owed.                      *)
(***************************************************************************)
\* The numbers of the threads.
LEMMA Numbers ==
  /\ nreaders \in Nat \ {0} /\ writer \in Nat /\ deleter \in Nat
  /\ writer \in Workers /\ deleter \in Workers /\ writer \in 0 .. writer
  /\ deleter \notin 0 .. writer /\ writer \notin Readers /\ deleter \notin Readers
  /\ writer # deleter
  /\ 0 .. writer \subseteq Workers /\ Readers \subseteq 0 .. writer /\ Readers \subseteq Workers
  /\ \A w \in Workers : w \in Int /\ (w \in Readers \/ w = writer \/ w = deleter)
  /\ \A w \in Workers : w < nreaders <=> w \in Readers
  /\ \A w \in Workers : w # deleter <=> w \in 0 .. writer
  /\ Nobody \notin Workers
BY LbsDispatchAssumption DEF writer, deleter, Workers, Readers, Nobody

\* The types, by the names of this module.
LEMMA Types ==
  ASSUME OwedInv
  PROVE  /\ opt_1 \in BOOLEAN /\ accepting \in BOOLEAN /\ reading \in BOOLEAN
         /\ npending \in Nat /\ writer_busy \in BOOLEAN /\ deleter_busy \in BOOLEAN
         /\ readq \in Seq(Read) /\ readers_idle \in Seq(Readers) /\ spair \in Seq(Workers)
         /\ ctl \in [Workers -> Ctl] /\ victim \in -1 .. nreaders + 2
BY DEF OwedInv, TypeOK, Read, Readers, Ctl, Job

\* What is to be shown of a step.
LEMMA Owes ==
  ASSUME opt_1' \in BOOLEAN, accepting' \in BOOLEAN, reading' \in BOOLEAN,
         npending' \in Nat, writer_busy' \in BOOLEAN, deleter_busy' \in BOOLEAN,
         readq' \in Seq(Read), readers_idle' \in Seq(Readers), spair' \in Seq(Workers),
         ctl' \in [Workers -> Ctl], victim' \in -1 .. nreaders + 2,
         StoreOK', ReqsOK', assertOK', Work0', Between'
  PROVE  OwedInv'
<1>1. TypeOK'
  BY Zenon DEF TypeOK, Read, Readers, Ctl, Job
<1> QED
  BY Zenon, <1>1 DEF OwedInv

\* A step that moves no work.
LEMMA SameWork ==
  ASSUME OwedInv, ctl' \in [Workers -> Ctl],
         \A w \in Workers : ctl'[w].haswork = ctl[w].haswork
  PROVE  /\ Busy(ctl') = Busy(ctl) /\ Idle(ctl') = Idle(ctl)
         /\ ctl'[writer].haswork = ctl[writer].haswork
         /\ ctl'[deleter].haswork = ctl[deleter].haswork
BY Zenon, Numbers DEF Busy, Idle

\* The requests are what NewReq and Answer make.
LEMMA NewReqType ==
  ASSUME OwedInv, NEW type \in {"params", "get", "append", "free"}, NEW b \in Nat, NEW n \in Nat
  PROVE  NewReq(type, b, n) \in Req
<1>1. conn \in Nat /\ (b \in DOMAIN log => log[b] \in Int) /\ NoData \in Int
  BY DEF OwedInv, ReqsOK, StoreOK, NoData
<1> DEFINE m == IF type = "get" /\ b \in DOMAIN log THEN log[b] ELSE NoData
<1>2. m \in Int
  BY Zenon, <1>1
<1>3. NewReq(type, b, n) = [type |-> type, blkno |-> b, n |-> n, conn |-> conn,
                            answers |-> <<>>, status |-> 0, value |-> 0, must |-> m]
  BY Zenon DEF NewReq
<1> HIDE DEF m
<1> QED
  BY <1>1, <1>2, <1>3 DEF Req

\* ... also when they have been answered.
LEMMA AnswerType ==
  ASSUME OwedInv, NEW r \in Req, NEW st \in {0, 1}, NEW v \in Int
  PROVE  Answer(r, st, v) \in Req
<1>1. r.answers \in Seq(Nat) /\ conn \in Nat
  BY Zenon DEF Req, OwedInv, ReqsOK
<1>2. Append(r.answers, conn) \in Seq(Nat)
  BY <1>1
<1> QED
  BY Zenon, <1>2 DEF Answer, Req

\* dispatch_init leaves all the threads without work and all the readers on the stack.
LEMMA OwedInit ==
  ASSUME SetFacts, Init
  PROVE  OwedInv
<1> USE Numbers
<1>1. NewWorker \in Ctl /\ NewWorker.haswork = FALSE
  BY DEF NewWorker, NoWork, Ctl, Job, NoData
<1>2. ctl = [w \in Workers |-> NewWorker]
  BY Zenon DEF Init
<1>3. ctl \in [Workers -> Ctl] /\ \A w \in Workers : ~ctl[w].haswork
  BY Zenon, <1>1, <1>2
<1>4. Busy(ctl) = {} /\ Idle(ctl) = Readers /\ Done(ctl) = {}
  BY Zenon, <1>3 DEF Busy, Idle, Done
<1>5. readers_idle = [i \in 1 .. nreaders |-> i - 1]
  BY Zenon DEF Init
<1>6. readers_idle \in Seq(Readers) /\ DOMAIN readers_idle = 1 .. nreaders
  <2>1. \A i \in 1 .. nreaders : i - 1 \in Readers
    BY DEF Readers
  <2> QED
    BY <1>5, <2>1
<1>7. Distinct(readers_idle)
  BY <1>5 DEF Distinct
<1>8. Elems(readers_idle) = Readers
  <2>1. \A i \in 1 .. nreaders : i - 1 \in Readers
    BY DEF Readers
  <2>2. \A w \in Readers : w + 1 \in 1 .. nreaders /\ (w + 1) - 1 = w
    BY DEF Readers
  <2>3. Elems(readers_idle) \subseteq Readers
    BY Zenon, <1>5, <2>1 DEF Elems
  <2>4. Readers \subseteq Elems(readers_idle)
    BY Zenon, <1>5, <2>2 DEF Elems
  <2> QED
    BY Zenon, <2>3, <2>4
<1>9. readq = <<>> /\ spair = <<>> /\ npending = 0
  BY Zenon DEF Init
<1>10. Len(readq) = 0 /\ Distinct(spair) /\ Elems(spair) = {}
       /\ readq \in Seq(Read) /\ spair \in Seq(Workers)
  BY <1>9 DEF Distinct, Elems
<1>11. Work0
  <2>1. npending = Len(readq) + Cardinality(Busy(ctl))
    BY <1>4, <1>9, <1>10 DEF SetFacts, EmptySize
  <2>2. writer_busy = ctl[writer].haswork /\ deleter_busy = ctl[deleter].haswork
    <3>1. ctl[writer].haswork = FALSE /\ ctl[deleter].haswork = FALSE
      BY Zenon, <1>1, <1>2
    <3> QED
      BY Zenon, <3>1 DEF Init
  <2> QED
    BY Zenon, <1>4, <1>7, <1>8, <1>9, <1>10, <2>1, <2>2 DEF Work0
<1>12. StoreOK
  BY DEF Init, StoreOK, Store!Init, Store!NoAppend
<1>13. Between /\ ReqsOK
  BY DEF Init, Between, ReqsOK
<1>14. TypeOK
  <2>1. /\ opt_1 \in BOOLEAN /\ accepting \in BOOLEAN /\ reading \in BOOLEAN
        /\ writer_busy \in BOOLEAN /\ deleter_busy \in BOOLEAN /\ victim = -1
    BY Zenon DEF Init, Nobody
  <2>2. -1 \in -1 .. nreaders + 2
    OBVIOUS
  <2>3. npending \in Nat
    BY Zenon, <1>9
  <2> QED
    BY <1>3, <1>6, <1>10, <2>1, <2>2, <2>3 DEF TypeOK, Read, Readers, Ctl, Job
<1> QED
  BY Zenon, <1>11, <1>12, <1>13, <1>14 DEF Init, OwedInv

\* The record of a thread that is woken up, goes to sleep or dies.
LEMMA PcCtl ==
  ASSUME NEW c \in Ctl, NEW pc \in {"run", "wait", "dead"}, NEW su \in BOOLEAN
  PROVE  /\ LET e == [c EXCEPT !.pc = pc] IN
            e \in Ctl /\ e.haswork = c.haswork /\ e.workdone = c.workdone
         /\ LET e == [c EXCEPT !.suicide = su, !.pc = pc] IN
            e \in Ctl /\ e.haswork = c.haswork /\ e.workdone = c.workdone
BY Zenon DEF Ctl

\* A thread goes to sleep, wakes up to die, or dies.
LEMMA OwedPc ==
  ASSUME OwedInv, NEW w \in Workers, WorkSleep(w) \/ WorkDie(w) \/ WorkerKill
  PROVE  OwedInv'
<1> USE Numbers, Types
<1>1. PICK v \in Workers, e \in Ctl :
        /\ ctl' = [ctl EXCEPT ![v] = e]
        /\ e.haswork = ctl[v].haswork /\ e.workdone = ctl[v].workdone
  <2>1. CASE WorkSleep(w)
    <3> DEFINE e == [ctl[w] EXCEPT !.pc = "wait"]
    <3>1. e \in Ctl /\ e.haswork = ctl[w].haswork /\ e.workdone = ctl[w].workdone
      <4>1. ctl[w] \in Ctl
        BY Zenon
      <4> QED
        BY ONLY Zenon, <4>1, PcCtl
    <3>2. ctl' = [ctl EXCEPT ![w] = e]
      BY <2>1 DEF WorkSleep
    <3> HIDE DEF e
    <3> QED
      BY Zenon, <3>1, <3>2
  <2>2. CASE WorkDie(w)
    <3> DEFINE e == [ctl[w] EXCEPT !.pc = "dead"]
    <3>1. e \in Ctl /\ e.haswork = ctl[w].haswork /\ e.workdone = ctl[w].workdone
      <4>1. ctl[w] \in Ctl
        BY Zenon
      <4> QED
        BY ONLY Zenon, <4>1, PcCtl
    <3>2. ctl' = [ctl EXCEPT ![w] = e]
      BY Zenon, <2>2 DEF WorkDie
    <3> HIDE DEF e
    <3> QED
      BY Zenon, <3>1, <3>2
  <2>3. CASE WorkerKill
    <3> DEFINE e == [ctl[victim] EXCEPT !.suicide = TRUE, !.pc = "run"]
    <3>1. victim \in Workers
      BY Zenon, <2>3 DEF WorkerKill
    <3>2. e \in Ctl /\ e.haswork = ctl[victim].haswork /\ e.workdone = ctl[victim].workdone
      <4>1. ctl[victim] \in Ctl
        BY Zenon, <3>1
      <4> QED
        BY ONLY Zenon, <4>1, PcCtl
    <3>3. ctl' = [ctl EXCEPT ![victim] = e]
      BY Zenon, <2>3 DEF WorkerKill
    <3> HIDE DEF e
    <3> QED
      BY Zenon, <3>1, <3>2, <3>3
  <2> QED
    BY Zenon, <2>1, <2>2, <2>3
<1>2. UNCHANGED <<netvars, dispatch, spair, victim, store, reqs, assertOK>>
  BY Zenon DEF WorkSleep, WorkDie, WorkerKill
<1>3. /\ opt_1' = opt_1 /\ accepting' = accepting /\ reading' = reading /\ npending' = npending
      /\ readq' = readq /\ readers_idle' = readers_idle /\ writer_busy' = writer_busy
      /\ deleter_busy' = deleter_busy /\ spair' = spair /\ victim' = victim
      /\ assertOK' = assertOK
      /\ next' = next /\ freed' = freed /\ pend' = pend /\ log' = log
      /\ reqs' = reqs /\ conn' = conn
  BY Zenon, <1>2 DEF netvars, dispatch, store
<1>4. ctl' \in [Workers -> Ctl]
  BY Zenon, <1>1
<1>5. \A x \in Workers : ctl'[x].haswork = ctl[x].haswork /\ ctl'[x].workdone = ctl[x].workdone
  BY Zenon, <1>1
<1>6. Busy(ctl') = Busy(ctl) /\ Idle(ctl') = Idle(ctl) /\ Done(ctl') = Done(ctl)
      /\ ctl'[writer].haswork = ctl[writer].haswork
      /\ ctl'[deleter].haswork = ctl[deleter].haswork
  BY Zenon, <1>4, <1>5, SameWork DEF Done
<1>7. Work0'
  BY <1>3, <1>6 DEF OwedInv, Work0
<1>8. StoreOK' /\ Between' /\ ReqsOK' /\ assertOK'
  BY Zenon, <1>3 DEF OwedInv, StoreOK, Between, ReqsOK
<1> QED
  BY <1>3, <1>4, <1>7, <1>8, Owes

\* The record of a thread that is done.
LEMMA FinishedCtl ==
  ASSUME NEW c \in Ctl, NEW x \in Int
  PROVE  LET e == [c EXCEPT !.workdone = TRUE, !.data = x] IN
         /\ e \in Ctl /\ e.haswork = c.haswork /\ e.workdone = TRUE
         /\ e.work = c.work /\ e.data = x
BY Zenon DEF Ctl

\* A thread is done: it is put into the socket pair, which does not have it.
LEMMA OwedFinish ==
  ASSUME OwedInv, NEW w \in Workers, NEW data \in Int,
         ctl[w].haswork, ~ctl[w].workdone, Finish(w, data), StoreOK'
  PROVE  OwedInv'
<1> USE Numbers, Types
<1> DEFINE e == [ctl[w] EXCEPT !.workdone = TRUE, !.data = data]
<1>1. ctl' = [ctl EXCEPT ![w] = e] /\ spair' = Append(spair, w)
  BY Zenon DEF Finish
<1>2. e \in Ctl /\ e.haswork = ctl[w].haswork /\ e.workdone = TRUE
  <2>1. ctl[w] \in Ctl
    BY Zenon
  <2> QED
    BY Zenon, <2>1, FinishedCtl
<1> HIDE DEF e
<1>3. /\ opt_1' = opt_1 /\ accepting' = accepting /\ reading' = reading /\ npending' = npending
      /\ readq' = readq /\ readers_idle' = readers_idle /\ writer_busy' = writer_busy
      /\ deleter_busy' = deleter_busy /\ victim' = victim /\ assertOK' = assertOK
      /\ reqs' = reqs /\ conn' = conn
  BY Zenon DEF Finish, netvars, dispatch
<1>4. ctl' \in [Workers -> Ctl] /\ \A x \in Workers : ctl'[x].haswork = ctl[x].haswork
  BY Zenon, <1>1, <1>2
<1>5. /\ Busy(ctl') = Busy(ctl) /\ Idle(ctl') = Idle(ctl)
      /\ ctl'[writer].haswork = ctl[writer].haswork
      /\ ctl'[deleter].haswork = ctl[deleter].haswork
  BY Zenon, <1>4, SameWork
<1>6. Done(ctl') = Done(ctl) \cup {w} /\ w \notin Done(ctl)
  BY Zenon, <1>1, <1>2 DEF Done
<1>7. Distinct(spair) /\ Elems(spair) = Done(ctl)
  BY Zenon DEF OwedInv, Work0
<1>8. spair' \in Seq(Workers) /\ Distinct(spair') /\ Elems(spair') = Done(ctl')
  <2>1. w \notin Elems(spair)
    BY Zenon, <1>6, <1>7
  <2>2. /\ Append(spair, w) \in Seq(Workers) /\ Distinct(Append(spair, w))
        /\ Elems(Append(spair, w)) = Elems(spair) \cup {w}
    BY <1>7, <2>1, AppendElems
  <2> QED
    BY Zenon, <1>1, <1>6, <1>7, <2>2
<1>9. Work0'
  BY Zenon, <1>3, <1>5, <1>8 DEF OwedInv, Work0
<1>10. Between' /\ ReqsOK' /\ assertOK'
  BY Zenon, <1>3 DEF OwedInv, Between, ReqsOK
<1> QED
  BY <1>3, <1>4, <1>8, <1>9, <1>10, Owes

\* The work itself, on the store.
LEMMA OwedWork ==
  ASSUME OwedInv, NEW w \in Workers, WorkRead(w) \/ WorkWriteDone(w) \/ WorkDelete(w)
  PROVE  OwedInv'
<1> USE Numbers, Types
<1>0. ctl[w].haswork /\ ~ctl[w].workdone
  BY Zenon DEF WorkRead, WorkWriteDone, WorkDelete, HasWork
<1>1. CASE WorkRead(w)
  <2> DEFINE b == ctl[w].work.blkno
  <2>1. PICK data \in IF b \in DOMAIN log THEN {log[b]}
                      ELSE IF b < freed THEN {NoData, OldData} ELSE {NoData} :
                Finish(w, data)
    BY Zenon, <1>1 DEF WorkRead
  <2>2. data \in Int
    BY <2>1 DEF OwedInv, StoreOK, NoData, OldData
  <2>3. StoreOK'
    BY Zenon, <1>1 DEF WorkRead, OwedInv, StoreOK, store
  <2> QED
    BY Zenon, <1>0, <2>1, <2>2, <2>3, OwedFinish
<1>2. CASE WorkWriteDone(w)
  <2>1. Store!AppendDone /\ Finish(w, NoData)
    BY Zenon, <1>2 DEF WorkWriteDone
  <2>2. next \in Nat /\ freed \in Nat /\ pend.n \in Nat /\ pend.id \in Nat
    BY Zenon DEF OwedInv, StoreOK
  <2>3. /\ next' = next + pend.n /\ freed' = freed /\ pend' = [id |-> 0, n |-> 0]
        /\ log' = [b \in DOMAIN log \cup {c \in next .. next + pend.n - 1 : c >= freed} |->
                     IF b < next THEN log[b] ELSE pend.id]
    BY Zenon, <2>1 DEF Store!AppendDone, Store!Grown, Store!NoAppend
  <2>4. ASSUME NEW b \in DOMAIN log' PROVE b \in Nat /\ b < next' /\ log'[b] \in Nat
    <3>1. CASE b \in DOMAIN log
      <4>1. b \in Nat /\ b < next /\ log[b] \in Nat
        BY Zenon, <3>1 DEF OwedInv, StoreOK
      <4>2. log'[b] = log[b]
        BY Zenon, <2>3, <3>1, <4>1
      <4> QED
        BY <2>2, <2>3, <4>1, <4>2
    <3>2. CASE b \notin DOMAIN log
      <4>1. b \in next .. next + pend.n - 1
        BY Zenon, <2>3, <3>2
      <4>2. b \in Nat /\ ~(b < next) /\ b < next + pend.n
        <5> DEFINE k == pend.n
        <5>1. b \in next .. next + k - 1 /\ next \in Nat /\ k \in Nat
          BY Zenon, <2>2, <4>1
        <5> HIDE DEF k
        <5>2. b \in Nat /\ ~(b < next) /\ b < next + k
          BY <5>1
        <5> QED
          BY Zenon, <5>2 DEF k
      <4>3. log'[b] = pend.id
        BY Zenon, <2>3, <4>2
      <4> QED
        BY <2>2, <2>3, <4>2, <4>3
    <3> QED
      BY Zenon, <3>1, <3>2
  <2>5. StoreOK'
    <3>1. next' \in Nat /\ freed' \in Nat /\ pend' \in [id: Nat, n: Nat]
      BY <2>2, <2>3
    <3> QED
      BY Zenon, <2>4, <3>1 DEF StoreOK
  <2>6. NoData \in Int
    BY DEF NoData
  <2> QED
    BY Zenon, <1>0, <2>1, <2>5, <2>6, OwedFinish
<1>3. CASE WorkDelete(w)
  <2> DEFINE k == ctl[w].work.blkno
  <2>1. Store!Free(k) /\ Finish(w, NoData)
    BY Zenon, <1>3 DEF WorkDelete
  <2>2. k \in Nat
    BY Zenon DEF Ctl, Job
  <2>3. /\ freed' = (IF k > freed THEN k ELSE freed)
        /\ log' = [c \in {x \in DOMAIN log : x >= freed'} |-> log[c]]
        /\ next' = next /\ pend' = pend
    BY Zenon, <2>1 DEF Store!Free
  <2>4. freed' \in Nat
    BY Zenon, <2>2, <2>3 DEF OwedInv, StoreOK
  <2>5. StoreOK'
    BY <2>3, <2>4 DEF OwedInv, StoreOK
  <2>6. NoData \in Int
    BY DEF NoData
  <2> QED
    BY Zenon, <1>0, <2>1, <2>5, <2>6, OwedFinish
<1> QED
  BY Zenon, <1>1, <1>2, <1>3

\* A step that leaves the threads and the dispatcher's queues alone.
LEMMA OwedIdle ==
  ASSUME OwedInv,
         WorkerJoin \/ RequestParams \/ (\E w \in Workers : WorkWriteStart(w)) \/ Close
            \/ UNCHANGED vars
  PROVE  OwedInv'
<1> USE Numbers, Types
<1>1. /\ opt_1' = opt_1 /\ reading' = reading /\ UNCHANGED dispatch /\ spair' = spair
      /\ ctl' = ctl /\ assertOK' = assertOK
  BY Zenon DEF WorkerJoin, RequestParams, WorkWriteStart, Close, vars, netvars, dispatch, ReadRequest
<1>2. /\ npending' = npending /\ readq' = readq /\ readers_idle' = readers_idle
      /\ writer_busy' = writer_busy /\ deleter_busy' = deleter_busy
  BY Zenon, <1>1 DEF dispatch
<1>3. Work0'
  BY Zenon, <1>1, <1>2 DEF OwedInv, Work0
<1>4. StoreOK'
  <2>1. CASE store' = store
    BY <2>1 DEF OwedInv, StoreOK, store
  <2>2. ASSUME NEW w \in Workers, WorkWriteStart(w) PROVE StoreOK'
    <3>1. /\ pend' = [id |-> ctl[w].work.id, n |-> ctl[w].work.n]
          /\ log' = log /\ next' = next /\ freed' = freed
      BY Zenon, <2>2 DEF WorkWriteStart, Store!AppendStart
    <3>2. ctl[w].work.id \in Nat /\ ctl[w].work.n \in Nat
      BY Zenon DEF Ctl, Job
    <3> QED
      BY Zenon, <3>1, <3>2 DEF OwedInv, StoreOK
  <2> QED
    BY Zenon, <2>1, <2>2 DEF WorkerJoin, RequestParams, Close, vars, store
<1>5. accepting' \in BOOLEAN /\ victim' \in -1 .. nreaders + 2 /\ Between'
  <2>1. CASE Close
    <3>1. ~reading /\ ~(npending > 0)
      BY Zenon, <2>1 DEF Close, Alive
    <3>2. npending = 0
      BY <3>1
    <3>3. /\ accepting' \in BOOLEAN /\ victim' \in -1 .. nreaders + 2
          /\ victim' # Nobody => ~accepting'
      BY <2>1 DEF Close, Nobody
    <3> QED
      BY Zenon, <1>1, <1>2, <3>1, <3>2, <3>3 DEF Between
  <2>2. CASE WorkerJoin
    <3>1. victim \in Workers /\ victim' = victim + 1 /\ accepting' = accepting
      BY Zenon, <2>2 DEF WorkerJoin, netvars
    <3>2. victim' \in -1 .. nreaders + 2
      BY <3>1 DEF Workers
    <3>3. victim # Nobody
      BY Zenon, <3>1
    <3> QED
      BY Zenon, <1>1, <1>2, <3>1, <3>2, <3>3 DEF OwedInv, Between
  <2>3. CASE accepting' = accepting /\ victim' = victim
    BY Zenon, <1>1, <1>2, <2>3 DEF OwedInv, Between
  <2> QED
    BY Zenon, <2>1, <2>2, <2>3 DEF RequestParams, WorkWriteStart, vars, netvars, ReadRequest
<1>6. ReqsOK'
  <2>1. CASE reqs' = reqs /\ conn' = conn
    BY Zenon, <2>1 DEF OwedInv, ReqsOK
  <2>2. CASE RequestParams
    <3>1. reqs' = Append(reqs, Answer(NewReq("params", 0, 0), 0, next)) /\ conn' = conn
      BY Zenon, <2>2 DEF RequestParams, ReadRequest, netvars
    <3>2. Answer(NewReq("params", 0, 0), 0, next) \in Req
      BY NewReqType, AnswerType DEF OwedInv, StoreOK
    <3> QED
      BY <3>1, <3>2 DEF OwedInv, ReqsOK
  <2> QED
    BY Zenon, <2>1, <2>2 DEF WorkerJoin, WorkWriteStart, Close, vars, netvars
<1> QED
  BY <1>1, <1>2, <1>3, <1>4, <1>5, <1>6, Owes DEF OwedInv

\* The connection is lost, or a new one is accepted.
LEMMA OwedConnection ==
  ASSUME SetFacts, OwedInv, BadRequest \/ WriteFailed \/ Accept
  PROVE  OwedInv'
<1> USE Numbers, Types
<1>1. /\ opt_1' = opt_1 /\ readers_idle' = readers_idle
      /\ writer_busy' = writer_busy /\ deleter_busy' = deleter_busy
      /\ ctl' = ctl /\ spair' = spair /\ victim' = victim /\ assertOK' = assertOK
      /\ log' = log /\ next' = next /\ freed' = freed /\ pend' = pend
      /\ readq' = <<>>
  BY Zenon DEF BadRequest, WriteFailed, Accept, DropConnection, store
<1>2. readq' \in Seq(Read) /\ Len(readq') = 0
  BY <1>1
<1>3. Cardinality(Busy(ctl)) \in Nat /\ Len(readq) \in Nat
      /\ npending = Len(readq) + Cardinality(Busy(ctl))
  BY BusyFinite DEF OwedInv, Work0
<1>4. npending' = Cardinality(Busy(ctl))
  <2>1. CASE Accept
    <3>1. npending = 0 /\ npending' = 0
      BY Zenon, <2>1 DEF Accept, OwedInv, Between
    <3> QED
      BY <1>3, <3>1
  <2>2. CASE DropConnection
    BY <1>3, <2>2 DEF DropConnection
  <2> QED
    BY Zenon, <2>1, <2>2 DEF BadRequest, WriteFailed
<1>5. npending' \in Nat /\ npending' = Len(readq') + Cardinality(Busy(ctl'))
  BY <1>1, <1>2, <1>3, <1>4
<1>6. Work0'
  BY Zenon, <1>1, <1>5 DEF OwedInv, Work0
<1>7. accepting' \in BOOLEAN /\ reading' \in BOOLEAN /\ Between'
  <2>1. CASE Accept
    <3>1. accepting /\ accepting' = FALSE /\ reading' = TRUE
      BY Zenon, <2>1 DEF Accept
    <3>2. victim = Nobody
      <4>1. victim # Nobody => ~accepting
        BY Zenon DEF OwedInv, Between
      <4> QED
        BY Zenon, <3>1, <4>1
    <3> QED
      BY Zenon, <1>1, <3>1, <3>2 DEF Between
  <2>2. CASE BadRequest \/ WriteFailed
    <3>1. accepting' = accepting /\ reading' = FALSE
      BY Zenon, <2>2 DEF BadRequest, WriteFailed, DropConnection
    <3>2. ~accepting /\ victim = Nobody
      BY Zenon, <2>2 DEF BadRequest, WriteFailed, OwedInv, Between
    <3> QED
      BY Zenon, <1>1, <3>1, <3>2 DEF Between
  <2> QED
    BY Zenon, <2>1, <2>2
<1>8. StoreOK' /\ assertOK'
  BY Zenon, <1>1 DEF OwedInv, StoreOK
<1>9. ReqsOK'
  <2>1. reqs' = reqs /\ (conn' = conn \/ conn' = conn + 1)
    BY Zenon DEF BadRequest, WriteFailed, Accept
  <2> QED
    BY <2>1 DEF OwedInv, ReqsOK
<1> QED
  BY Zenon, <1>1, <1>2, <1>5, <1>6, <1>7, <1>8, <1>9, Owes

\* dispatch_request_pokereadq loses no request and gives no thread a second one.
LEMMA OwedPoke ==
  ASSUME SetFacts, NEW c \in [Workers -> Ctl], NEW q \in Seq(Read), NEW idle \in Seq(Readers), NEW ok,
         ok = TRUE, ctl \in [Workers -> Ctl],
         Distinct(idle), Elems(idle) = Idle(c), PokeReadq(c, q, idle, ok)
  PROVE  /\ assertOK' = TRUE
         /\ ctl' \in [Workers -> Ctl]
         /\ readq' \in Seq(Read) /\ readers_idle' \in Seq(Readers)
         /\ readq' # <<>> => readers_idle' = <<>>
         /\ Distinct(readers_idle') /\ Elems(readers_idle') = Idle(ctl')
         /\ Done(ctl') = Done(c)
         /\ Len(readq') + Cardinality(Busy(ctl')) = Len(q) + Cardinality(Busy(c))
         /\ ctl'[writer] = c[writer] /\ ctl'[deleter] = c[deleter]
<1> USE Numbers
<1>0. PICK n \in Nat : Handed(c, q, idle, n)
  BY Zenon, Poked
<1>1. /\ n <= Len(q) /\ n <= Len(idle)
      /\ assertOK' = TRUE
      /\ ctl' \in [Workers -> Ctl]
      /\ readq' \in Seq(Read) /\ Len(readq') = Len(q) - n
      /\ readers_idle' \in Seq(Readers) /\ Distinct(readers_idle')
      /\ readq' # <<>> => readers_idle' = <<>>
      /\ Elems(readers_idle') = Elems(idle) \ Taken(n, idle)
      /\ IsFiniteSet(Taken(n, idle)) /\ Cardinality(Taken(n, idle)) = n
      /\ Taken(n, idle) \subseteq Idle(c)
      /\ \A w \in Workers \ Taken(n, idle) : ctl'[w] = c[w]
      /\ \A w \in Taken(n, idle) : ctl'[w].haswork /\ ~ctl'[w].workdone
  BY Zenon, <1>0 DEF Handed
<1> DEFINE T == Taken(n, idle)
<1>2. T \subseteq Readers /\ \A w \in T : ~c[w].haswork
  BY Zenon, <1>1 DEF Idle
<1>3. T \subseteq 0 .. writer /\ T \subseteq Workers /\ writer \notin T /\ deleter \notin T
  BY Zenon, <1>2
<1>4. \A w \in T : ctl'[w].haswork /\ ~ctl'[w].workdone
  BY Zenon, <1>1
<1>5. \A w \in Workers \ T : ctl'[w] = c[w]
  BY Zenon, <1>1
<1>6. Cardinality(T) = n /\ IsFiniteSet(T)
  BY Zenon, <1>1
<1> HIDE DEF T
<1>7. Idle(ctl') = Idle(c) \ T
  BY Zenon, <1>2, <1>4, <1>5 DEF Idle
<1>8. Done(ctl') = Done(c)
  BY Zenon, <1>2, <1>3, <1>4, <1>5 DEF Done
<1>9. \A w \in 0 .. writer : ctl'[w].haswork <=> (c[w].haswork \/ w \in T)
  BY Zenon, <1>4, <1>5
<1>10. Cardinality(Busy(ctl')) = Cardinality(Busy(c)) + n
  BY <1>2, <1>3, <1>6, <1>9, MoreBusy
<1>11. Len(readq') + Cardinality(Busy(ctl')) = Len(q) + Cardinality(Busy(c))
  <2> DEFINE L == Len(q)
             l == Len(readq')
             x == Cardinality(Busy(c))
             y == Cardinality(Busy(ctl'))
  <2>1. L \in Nat /\ x \in Nat /\ l = L - n /\ y = x + n
    BY <1>1, <1>10, BusyFinite
  <2> HIDE DEF L, l, x, y
  <2>2. l + y = L + x
    BY <2>1
  <2> QED
    BY Zenon, <2>2 DEF L, l, x, y
<1>12. ctl'[writer] = c[writer] /\ ctl'[deleter] = c[deleter]
  BY Zenon, <1>3, <1>5
<1>13. Elems(readers_idle') = Idle(ctl')
  BY Zenon, <1>1, <1>7 DEF T
<1> QED
  BY Zenon, <1>1, <1>8, <1>11, <1>12, <1>13

\* What every request has in common.
LEMMA ReadRequestKeeps ==
  ASSUME OwedInv, NEW r \in Req, ReadRequest(r)
  PROVE  /\ reading /\ ~accepting /\ victim = Nobody
         /\ opt_1' = opt_1 /\ accepting' = accepting /\ reading' = reading /\ conn' = conn
         /\ spair' = spair /\ victim' = victim
         /\ reqs' = Append(reqs, r) /\ ReqsOK' /\ Len(reqs') = Len(reqs) + 1
         /\ Len(reqs') \in Nat /\ Between'
<1>1. /\ reading /\ opt_1' = opt_1 /\ accepting' = accepting /\ reading' = reading
      /\ conn' = conn /\ spair' = spair /\ victim' = victim /\ reqs' = Append(reqs, r)
  BY Zenon DEF ReadRequest, netvars
<1>2. ~accepting /\ victim = Nobody
  BY Zenon, <1>1 DEF OwedInv, Between
<1>3. reqs \in Seq(Req) /\ conn \in Nat
  BY Zenon DEF OwedInv, ReqsOK
<1>4. reqs' \in Seq(Req) /\ Len(reqs') = Len(reqs) + 1 /\ Len(reqs) \in Nat
  BY <1>1, <1>3
<1>5. Between'
  BY Zenon, <1>1, <1>2 DEF Between
<1> QED
  BY <1>1, <1>2, <1>3, <1>4, <1>5 DEF ReqsOK

\* The record of a thread that is given work.
LEMMA AssignedCtl ==
  ASSUME NEW c \in Ctl, NEW job \in Job
  PROVE  LET e == [c EXCEPT !.pc = "run", !.haswork = TRUE, !.workdone = FALSE, !.work = job] IN
         e \in Ctl /\ e.haswork = TRUE /\ e.workdone = FALSE /\ e.work = job
BY Zenon DEF Ctl

\* dispatch_request_get: one more response is owed, and the read is in the queue or a
\* thread has it.
LEMMA OwedGet ==
  ASSUME SetFacts, OwedInv, NEW b \in 0 .. MaxBlk - 1, RequestGet(b)
  PROVE  OwedInv'
<1> USE Numbers, Types
<1> DEFINE q == Append(readq, [id |-> Len(reqs'), blkno |-> b])
<1>0. b \in Nat
  BY LbsDispatchAssumption
<1>1. /\ ReadRequest(NewReq("get", b, 0)) /\ npending' = npending + 1
      /\ PokeReadq(ctl, q, readers_idle, assertOK)
      /\ writer_busy' = writer_busy /\ deleter_busy' = deleter_busy
      /\ log' = log /\ next' = next /\ freed' = freed /\ pend' = pend
  BY Zenon DEF RequestGet, store
<1>2. NewReq("get", b, 0) \in Req
  BY Zenon, <1>0, NewReqType
<1>3. /\ opt_1' = opt_1 /\ accepting' = accepting /\ reading' = reading
      /\ spair' = spair /\ victim' = victim /\ ReqsOK' /\ Len(reqs') \in Nat /\ Between'
  BY Zenon, <1>1, <1>2, ReadRequestKeeps
<1>4. q \in Seq(Read) /\ Len(q) = Len(readq) + 1 /\ Len(readq) \in Nat
  <2>1. [id |-> Len(reqs'), blkno |-> b] \in Read
    BY Zenon, <1>0, <1>3 DEF Read
  <2> QED
    BY <2>1
<1> HIDE DEF q
<1>5. Distinct(readers_idle) /\ Elems(readers_idle) = Idle(ctl) /\ assertOK \in BOOLEAN
  BY Zenon DEF OwedInv, Work0
<1>6. /\ assertOK' = TRUE
      /\ ctl' \in [Workers -> Ctl]
      /\ readq' \in Seq(Read) /\ readers_idle' \in Seq(Readers)
      /\ readq' # <<>> => readers_idle' = <<>>
      /\ Distinct(readers_idle') /\ Elems(readers_idle') = Idle(ctl')
      /\ Done(ctl') = Done(ctl)
      /\ Len(readq') + Cardinality(Busy(ctl')) = Len(q) + Cardinality(Busy(ctl))
      /\ ctl'[writer] = ctl[writer] /\ ctl'[deleter] = ctl[deleter]
  BY Zenon, <1>1, <1>4, <1>5, OwedPoke DEF OwedInv
<1>7. npending' \in Nat /\ npending' = Len(readq') + Cardinality(Busy(ctl'))
  <2> DEFINE L == Len(readq)
             x == Cardinality(Busy(ctl))
             y == Len(readq') + Cardinality(Busy(ctl'))
  <2>1. L \in Nat /\ x \in Nat /\ npending = L + x /\ y = (L + 1) + x
    BY Zenon, <1>4, <1>6, BusyFinite DEF OwedInv, Work0
  <2> HIDE DEF L, x, y
  <2>2. npending' = y /\ y \in Nat
    BY <1>1, <2>1
  <2> QED
    BY Zenon, <2>2 DEF y
<1>8. Work0'
  BY Zenon, <1>1, <1>3, <1>6, <1>7 DEF OwedInv, Work0
<1>9. StoreOK'
  BY Zenon, <1>1 DEF OwedInv, StoreOK
<1> QED
  BY <1>1, <1>3, <1>6, <1>7, <1>8, <1>9, Owes

\* A thread that has no work is given some, and is no reader.
LEMMA OwedAssign ==
  ASSUME SetFacts, OwedInv, NEW w \in {writer, deleter}, ~ctl[w].haswork, NEW e \in Ctl,
         e.haswork = TRUE, e.workdone = FALSE, ctl' = [ctl EXCEPT ![w] = e]
  PROVE  /\ ctl' \in [Workers -> Ctl] /\ ctl'[w] = e
         /\ \A v \in Workers \ {w} : ctl'[v] = ctl[v]
         /\ Idle(ctl') = Idle(ctl) /\ Done(ctl') = Done(ctl)
         /\ Cardinality(Busy(ctl')) = Cardinality(Busy(ctl)) + (IF w = writer THEN 1 ELSE 0)
<1> USE Numbers, Types
<1>1. /\ ctl' \in [Workers -> Ctl] /\ ctl'[w] = e
      /\ \A v \in Workers \ {w} : ctl'[v] = ctl[v]
  OBVIOUS
<1>2. Idle(ctl') = Idle(ctl) /\ Done(ctl') = Done(ctl)
  BY <1>1 DEF Idle, Done
<1>3. CASE w = writer
  <2>1. IsFiniteSet({writer}) /\ Cardinality({writer}) = 1
    BY Zenon DEF SetFacts, SingletonSize
  <2>2. \A v \in 0 .. writer : ctl'[v].haswork <=> (ctl[v].haswork \/ v \in {writer})
    BY Zenon, <1>1, <1>3
  <2>3. {writer} \in SUBSET (0 .. writer) /\ \A v \in {writer} : ~ctl[v].haswork
    BY Zenon, <1>3
  <2>4. Cardinality(Busy(ctl')) = Cardinality(Busy(ctl)) + Cardinality({writer})
    BY Zenon, <2>1, <2>2, <2>3, MoreBusy
  <2> QED
    BY <1>1, <1>2, <1>3, <2>1, <2>4
<1>4. CASE w = deleter
  <2>1. Busy(ctl') = Busy(ctl)
    BY <1>1, <1>4 DEF Busy
  <2> QED
    BY <1>1, <1>2, <1>4, <2>1, BusyFinite
<1> QED
  BY <1>3, <1>4

\* dispatch_request_append: refused at once, or given to the writer, which has no work
\* as writer_busy says.
LEMMA OwedAppend ==
  ASSUME SetFacts, OwedInv, NEW b \in 0 .. MaxBlk, NEW n \in 1 .. MaxAppend, RequestAppend(b, n)
  PROVE  OwedInv'
<1> USE Numbers, Types
<1>0. b \in Nat /\ n \in Nat
  BY LbsDispatchAssumption
<1>1. /\ readq' = readq /\ readers_idle' = readers_idle /\ deleter_busy' = deleter_busy
      /\ log' = log /\ next' = next /\ freed' = freed /\ pend' = pend
  BY Zenon DEF RequestAppend, store
<1>2. NewReq("append", b, n) \in Req /\ Answer(NewReq("append", b, n), 1, -1) \in Req
  BY <1>0, NewReqType, AnswerType
<1>3. /\ opt_1' = opt_1 /\ accepting' = accepting /\ reading' = reading
      /\ spair' = spair /\ victim' = victim /\ ReqsOK' /\ Len(reqs') \in Nat /\ Between'
  BY <1>2, ReadRequestKeeps DEF RequestAppend
<1>4. StoreOK'
  BY <1>1 DEF OwedInv, StoreOK
<1>5. CASE b # next \/ writer_busy
  <2>1. npending' = npending /\ writer_busy' = writer_busy /\ ctl' = ctl /\ assertOK' = assertOK
    BY Zenon, <1>5 DEF RequestAppend
  <2>2. Work0' /\ assertOK'
    BY <1>1, <1>3, <2>1 DEF OwedInv, Work0
  <2> QED
    BY <1>1, <1>3, <1>4, <2>1, <2>2, Owes
<1>6. CASE ~(b # next \/ writer_busy)
  <2> DEFINE e == Assigned(writer, "write", b, n, Len(reqs'))
  <2>1. /\ npending' = npending + 1 /\ writer_busy' = TRUE
        /\ assertOK' = (assertOK /\ ~ctl[writer].haswork)
        /\ ctl' = [ctl EXCEPT ![writer] = e]
    BY <1>6 DEF RequestAppend
  <2>2. ~ctl[writer].haswork
    BY <1>6 DEF OwedInv, Work0
  <2>3. e \in Ctl /\ e.haswork = TRUE /\ e.workdone = FALSE
    <3> DEFINE job == [op |-> "write", blkno |-> b, n |-> n, id |-> Len(reqs')]
    <3>1. job \in Job /\ ctl[writer] \in Ctl
      BY <1>0, <1>3 DEF Job
    <3>2. e = [ctl[writer] EXCEPT !.pc = "run", !.haswork = TRUE, !.workdone = FALSE,
                                !.work = job]
      BY Zenon DEF Assigned
    <3> HIDE DEF job, e
    <3> QED
      BY ONLY Zenon, <3>1, <3>2, AssignedCtl
  <2> HIDE DEF e
  <2>4. /\ ctl' \in [Workers -> Ctl] /\ ctl'[writer] = e
        /\ \A v \in Workers \ {writer} : ctl'[v] = ctl[v]
        /\ Idle(ctl') = Idle(ctl) /\ Done(ctl') = Done(ctl)
        /\ Cardinality(Busy(ctl')) = Cardinality(Busy(ctl)) + 1
    BY Zenon, <2>1, <2>2, <2>3, OwedAssign
  <2>5. npending' \in Nat /\ npending' = Len(readq') + Cardinality(Busy(ctl'))
    <3>1. npending = Len(readq) + Cardinality(Busy(ctl))
      BY Zenon DEF OwedInv, Work0
    <3> DEFINE L == Len(readq)
               x == Cardinality(Busy(ctl))
               y == Len(readq') + Cardinality(Busy(ctl'))
    <3>2. L \in Nat /\ x \in Nat /\ npending = L + x
      BY <3>1, BusyFinite
    <3>3. y = L + (x + 1)
      BY <1>1, <2>4
    <3> HIDE DEF L, x, y
    <3>4. npending' = y /\ y \in Nat
      BY ONLY <2>1, <3>2, <3>3
    <3> QED
      BY <3>4 DEF y
  <2>6. Work0' /\ assertOK' /\ writer_busy' \in BOOLEAN
    BY Zenon, <1>1, <1>3, <2>1, <2>2, <2>3, <2>4, <2>5 DEF OwedInv, Work0
  <2> QED
    BY <1>1, <1>3, <1>4, <2>4, <2>5, <2>6, Owes
<1> QED
  BY <1>5, <1>6

\* dispatch_request_free: given to the deleter unless it is busy; no response is owed
\* for it in either case.
LEMMA OwedFree ==
  ASSUME SetFacts, OwedInv, NEW b \in 0 .. next, RequestFree(b)
  PROVE  OwedInv'
<1> USE Numbers, Types
<1>0. b \in Nat
  BY DEF OwedInv, StoreOK
<1>1. /\ readq' = readq /\ readers_idle' = readers_idle /\ writer_busy' = writer_busy
      /\ npending' = npending
      /\ log' = log /\ next' = next /\ freed' = freed /\ pend' = pend
  BY Zenon DEF RequestFree, store
<1>2. Answer(NewReq("free", b, 0), 0, 0) \in Req
  BY <1>0, NewReqType, AnswerType
<1>3. /\ opt_1' = opt_1 /\ accepting' = accepting /\ reading' = reading
      /\ spair' = spair /\ victim' = victim /\ ReqsOK' /\ Len(reqs') \in Nat /\ Between'
  BY <1>2, ReadRequestKeeps DEF RequestFree
<1>4. StoreOK'
  BY Zenon, <1>1 DEF OwedInv, StoreOK
<1>5. CASE deleter_busy
  <2>1. deleter_busy' = deleter_busy /\ ctl' = ctl /\ assertOK' = assertOK
    BY <1>5 DEF RequestFree
  <2>2. Work0' /\ assertOK'
    BY <1>1, <1>3, <2>1 DEF OwedInv, Work0
  <2> QED
    BY <1>1, <1>3, <1>4, <2>1, <2>2, Owes
<1>6. CASE ~deleter_busy
  <2> DEFINE e == Assigned(deleter, "delete", b, 0, Len(reqs'))
  <2>1. /\ deleter_busy' = TRUE
        /\ assertOK' = (assertOK /\ ~ctl[deleter].haswork)
        /\ ctl' = [ctl EXCEPT ![deleter] = e]
    BY <1>6 DEF RequestFree
  <2>2. ~ctl[deleter].haswork
    BY <1>6 DEF OwedInv, Work0
  <2>3. e \in Ctl /\ e.haswork = TRUE /\ e.workdone = FALSE
    <3> DEFINE job == [op |-> "delete", blkno |-> b, n |-> 0, id |-> Len(reqs')]
    <3>1. job \in Job /\ ctl[deleter] \in Ctl
      BY <1>0, <1>3 DEF Job
    <3>2. e = [ctl[deleter] EXCEPT !.pc = "run", !.haswork = TRUE, !.workdone = FALSE,
                                !.work = job]
      BY Zenon DEF Assigned
    <3> HIDE DEF job, e
    <3> QED
      BY ONLY Zenon, <3>1, <3>2, AssignedCtl
  <2> HIDE DEF e
  <2>4. /\ ctl' \in [Workers -> Ctl] /\ ctl'[deleter] = e
        /\ \A v \in Workers \ {deleter} : ctl'[v] = ctl[v]
        /\ Idle(ctl') = Idle(ctl) /\ Done(ctl') = Done(ctl)
        /\ Cardinality(Busy(ctl')) = Cardinality(Busy(ctl)) + 0
    BY Zenon, <2>1, <2>2, <2>3, OwedAssign
  <2>5. Cardinality(Busy(ctl')) = Cardinality(Busy(ctl))
    BY <2>4, BusyFinite
  <2>6. Work0' /\ assertOK' /\ deleter_busy' \in BOOLEAN
    BY Zenon, <1>1, <1>3, <2>1, <2>2, <2>3, <2>4, <2>5 DEF OwedInv, Work0
  <2> QED
    BY <1>1, <1>3, <1>4, <2>4, <2>6, Owes
<1> QED
  BY <1>5, <1>6

\* The record of a thread whose work is taken back, and that of the request.
LEMMA TakenBackCtl ==
  ASSUME NEW w, ctl[w] \in Ctl
  PROVE  TakenBack(w) \in Ctl /\ TakenBack(w).haswork = FALSE
<1>1. NoWork \in Job /\ NoData \in Int
  BY DEF NoWork, Job, NoData
<1>2. TakenBack(w) = [ctl[w] EXCEPT !.haswork = FALSE, !.work = NoWork, !.data = NoData]
  BY DEF TakenBack
<1> QED
  BY Zenon, <1>1, <1>2 DEF Ctl

\* What dispatch_response_send makes of a request is one.
LEMMA ResponseType ==
  ASSUME OwedInv, NEW w \in Workers, ctl[w].work.id \in DOMAIN reqs
  PROVE  Response(w) \in Req
<1> USE Types
<1> DEFINE r == reqs[ctl[w].work.id]
           x == ctl[w].data
<1>1. r \in Req /\ x \in Int /\ next \in Int
  <2>1. reqs \in Seq(Req) /\ next \in Nat /\ ctl[w] \in Ctl
    BY DEF OwedInv, ReqsOK, StoreOK
  <2>2. r \in Req
    BY <2>1
  <2>3. x \in Int
    <3> DEFINE t == ctl[w]
    <3>1. t \in Ctl
      BY Zenon, <2>1
    <3> HIDE DEF t
    <3>2. t.data \in Int
      BY ONLY <3>1 DEF Ctl
    <3> QED
      BY Zenon, <3>2 DEF t
  <2> QED
    BY <2>1, <2>2, <2>3
<1> HIDE DEF r, x
<1>2. (IF x = NoData THEN 1 ELSE 0) \in {0, 1}
  BY Zenon
<1>3. Answer(r, IF x = NoData THEN 1 ELSE 0, x) \in Req /\ Answer(r, 0, next) \in Req
  BY Zenon, <1>1, <1>2, AnswerType
<1> QED
  BY Zenon, <1>1, <1>3 DEF Response, r, x

\* workdone: the thread whose ID comes out of the socket has done its work, and the
\* asserts of worker_getdone hold.
LEMMA OwedWorkDone ==
  ASSUME SetFacts, OwedInv, WorkDone
  PROVE  OwedInv'
<1> USE Numbers, Types
<1> DEFINE w == Head(spair)
           c == [ctl EXCEPT ![w] = TakenBack(w)]
           ok == assertOK /\ ctl[w].haswork /\ ctl[w].workdone
<1>1. /\ victim = Nobody /\ spair # <<>> /\ spair' = Tail(spair)
      /\ reqs' = [reqs EXCEPT ![ctl[w].work.id] = Response(w)]
      /\ npending' = IF w = deleter THEN npending ELSE npending - 1
      /\ deleter_busy' = (deleter_busy /\ w # deleter)
      /\ writer_busy' = (writer_busy /\ w # writer)
      /\ w < nreaders => PokeReadq(c, readq, Append(readers_idle, w), ok)
      /\ ~(w < nreaders) => /\ ctl' = c /\ assertOK' = ok
                            /\ readq' = readq /\ readers_idle' = readers_idle
      /\ opt_1' = opt_1 /\ accepting' = accepting /\ reading' = reading /\ conn' = conn
      /\ victim' = victim
      /\ log' = log /\ next' = next /\ freed' = freed /\ pend' = pend
  BY Zenon DEF WorkDone, netvars, store
<1>2. Distinct(spair) /\ Elems(spair) = Done(ctl) /\ assertOK
  BY DEF OwedInv, Work0
<1>3. /\ w \in Workers /\ w \in Done(ctl)
      /\ spair' \in Seq(Workers) /\ Distinct(spair') /\ Elems(spair') = Done(ctl) \ {w}
  <2>1. spair \in Seq(Workers)
    BY Zenon
  <2> QED
    BY ONLY <1>1, <1>2, <2>1, TailElems
<1>4. ctl[w].haswork /\ ctl[w].workdone
  BY Zenon, <1>3 DEF Done
<1>5. ok = TRUE
  BY Zenon, <1>2, <1>4
<1>6. /\ c \in [Workers -> Ctl] /\ c[w].haswork = FALSE
      /\ \A v \in Workers \ {w} : c[v] = ctl[v]
  <2>1. TakenBack(w) \in Ctl /\ TakenBack(w).haswork = FALSE
    BY Zenon, <1>3, TakenBackCtl
  <2> HIDE DEF w
  <2> QED
    BY Zenon, <1>3, <2>1
<1> HIDE DEF w, c, ok
<1>7. Done(c) = Done(ctl) \ {w}
  BY Zenon, <1>3, <1>6 DEF Done
<1>8. ReqsOK'
  <2>1. reqs \in Seq(Req) /\ conn \in Nat
    BY Zenon DEF OwedInv, ReqsOK
  <2>2. CASE ctl[w].work.id \in DOMAIN reqs
    <3>1. Response(w) \in Req
      BY Zenon, <1>3, <2>2, ResponseType
    <3>2. reqs' \in Seq(Req)
      BY <1>1, <2>1, <2>2, <3>1
    <3> QED
      BY <1>1, <2>1, <3>2 DEF ReqsOK
  <2>3. CASE ctl[w].work.id \notin DOMAIN reqs
    <3>1. reqs' = reqs
      BY <1>1, <2>1, <2>3
    <3> QED
      BY Zenon, <1>1, <2>1, <3>1 DEF ReqsOK
  <2> QED
    BY Zenon, <2>2, <2>3
<1>9. StoreOK'
  BY Zenon, <1>1 DEF OwedInv, StoreOK
<1>10. npending = Len(readq) + Cardinality(Busy(ctl)) /\ Len(readq) \in Nat
  BY DEF OwedInv, Work0
<1>11. Between'
  <2>1. CASE accepting
    <3>1. npending = 0 /\ ~reading
      BY Zenon, <2>1 DEF OwedInv, Between
    <3>2. Cardinality(Busy(ctl)) = 0
      BY <1>10, <3>1, BusyFinite
    <3>3. Busy(ctl) = {}
      BY Zenon, <3>2, BusyFinite DEF SetFacts, EmptySize
    <3>4. w = deleter
      BY Zenon, <1>3, <1>4, <3>3 DEF Busy
    <3> QED
      BY Zenon, <1>1, <2>1, <3>1, <3>4 DEF Between
  <2>2. CASE ~accepting
    BY Zenon, <1>1, <2>2 DEF Between
  <2> QED
    BY Zenon, <2>1, <2>2
<1>12. deleter_busy' \in BOOLEAN /\ writer_busy' \in BOOLEAN
  BY Zenon, <1>1
<1>13. CASE w \in Readers
  <2>1. w < nreaders /\ w \in 0 .. writer /\ w # deleter /\ w # writer
    BY Zenon, <1>13 DEF Readers
  <2>2. Cardinality(Busy(ctl)) = Cardinality(Busy(c)) + 1
    <3>1. \A v \in 0 .. writer : v # w => (c[v].haswork <=> ctl[v].haswork)
      BY Zenon, <1>6
    <3> QED
      BY ONLY SetFacts, <1>4, <1>6, <2>1, <3>1, LessBusy
  <2> DEFINE idle == Append(readers_idle, w)
  <2>3. /\ idle \in Seq(Readers) /\ Distinct(idle) /\ Elems(idle) = Idle(c)
    <3>1. Distinct(readers_idle) /\ Elems(readers_idle) = Idle(ctl)
      BY Zenon DEF OwedInv, Work0
    <3>2. w \notin Idle(ctl) /\ Idle(c) = Idle(ctl) \cup {w}
      BY Zenon, <1>4, <1>6, <1>13 DEF Idle
    <3> QED
      BY <1>13, <3>1, <3>2, AppendElems
  <2> HIDE DEF idle
  <2>4. PokeReadq(c, readq, idle, ok)
    BY Zenon, <1>1, <2>1 DEF idle
  <2>5. /\ assertOK' = TRUE
        /\ ctl' \in [Workers -> Ctl]
        /\ readq' \in Seq(Read) /\ readers_idle' \in Seq(Readers)
        /\ readq' # <<>> => readers_idle' = <<>>
        /\ Distinct(readers_idle') /\ Elems(readers_idle') = Idle(ctl')
        /\ Done(ctl') = Done(c)
        /\ Len(readq') + Cardinality(Busy(ctl')) = Len(readq) + Cardinality(Busy(c))
        /\ ctl'[writer] = c[writer] /\ ctl'[deleter] = c[deleter]
    BY Zenon, <1>5, <1>6, <2>3, <2>4, OwedPoke
  <2>6. npending' \in Nat /\ npending' = Len(readq') + Cardinality(Busy(ctl'))
    <3> DEFINE L == Len(readq)
               x == Cardinality(Busy(c))
               y == Len(readq') + Cardinality(Busy(ctl'))
    <3>1. L \in Nat /\ x \in Nat /\ npending = L + (x + 1) /\ y = L + x
      BY <1>10, <2>2, <2>5, BusyFinite
    <3> HIDE DEF L, x, y
    <3>2. npending' = y /\ y \in Nat
      BY <1>1, <2>1, <3>1
    <3> QED
      BY Zenon, <3>2 DEF y
  <2>7. ctl'[writer] = ctl[writer] /\ ctl'[deleter] = ctl[deleter]
    BY <1>6, <2>1, <2>5
  <2>8. Work0'
    BY Zenon, <1>1, <1>3, <1>7, <1>12, <2>1, <2>5, <2>6, <2>7 DEF OwedInv, Work0
  <2> QED
    BY <1>1, <1>3, <1>8, <1>9, <1>11, <1>12, <2>5, <2>6, <2>8, Owes
<1>14. CASE w = writer
  <2>1. ~(w < nreaders) /\ w \in 0 .. writer /\ w # deleter
    BY <1>14 DEF writer
  <2>2. Cardinality(Busy(ctl)) = Cardinality(Busy(c)) + 1
    <3>1. \A v \in 0 .. writer : v # w => (c[v].haswork <=> ctl[v].haswork)
      BY Zenon, <1>6
    <3> QED
      BY ONLY SetFacts, <1>4, <1>6, <2>1, <3>1, LessBusy
  <2>3. ctl' = c /\ assertOK' = ok /\ readq' = readq /\ readers_idle' = readers_idle
    BY <1>1, <2>1
  <2>4. npending' \in Nat /\ npending' = Len(readq') + Cardinality(Busy(ctl'))
    <3> DEFINE L == Len(readq)
               x == Cardinality(Busy(c))
    <3>1. L \in Nat /\ x \in Nat /\ npending = L + (x + 1)
      BY <1>10, <2>2, BusyFinite
    <3>2. npending' = npending - 1
      BY <1>1, <2>1
    <3> HIDE DEF L, x
    <3>3. npending' = L + x /\ L + x \in Nat
      BY ONLY <3>1, <3>2
    <3> QED
      BY Zenon, <2>3, <3>3 DEF L, x
  <2>5. Idle(c) = Idle(ctl)
    BY Zenon, <1>6, <1>14 DEF Idle
  <2>6. c[deleter] = ctl[deleter]
    BY <1>6, <1>14
  <2>7. Work0'
    BY Zenon, <1>1, <1>3, <1>6, <1>7, <1>12, <1>14, <2>3, <2>4, <2>5, <2>6 DEF OwedInv, Work0
  <2> QED
    BY <1>1, <1>3, <1>5, <1>6, <1>8, <1>9, <1>11, <1>12, <2>3, <2>4, <2>7, Owes
<1>15. CASE w = deleter
  <2>1. ~(w < nreaders) /\ w # writer
    BY Zenon, <1>15 DEF deleter
  <2>2. Busy(c) = Busy(ctl)
    BY Zenon, <1>6, <1>15 DEF Busy
  <2>3. ctl' = c /\ assertOK' = ok /\ readq' = readq /\ readers_idle' = readers_idle
    BY <1>1, <2>1
  <2>4. npending' = npending
    BY <1>1, <1>15
  <2>5. Idle(c) = Idle(ctl)
    BY Zenon, <1>6, <1>15 DEF Idle
  <2>6. c[writer] = ctl[writer]
    BY <1>6, <1>15
  <2>7. Work0'
    BY Zenon, <1>1, <1>3, <1>6, <1>7, <1>12, <1>15, <2>1, <2>2, <2>3, <2>4, <2>5, <2>6
       DEF OwedInv, Work0
  <2> QED
    BY <1>1, <1>3, <1>5, <1>6, <1>8, <1>9, <1>11, <1>12, <2>3, <2>4, <2>7, Owes
<1> QED
  BY <1>3, <1>13, <1>14, <1>15

\* Every step of the event loop and of the threads keeps the inductive invariant.
LEMMA OwedNext ==
  ASSUME SetFacts, OwedInv, [Next]_vars
  PROVE  OwedInv'
<1>1. ASSUME NEW w \in Workers, Work(w) PROVE OwedInv'
  BY <1>1, OwedPc, OwedWork, OwedIdle DEF Work
<1>2. CASE Client
  BY <1>2, OwedIdle, OwedGet, OwedAppend, OwedFree, OwedConnection DEF Client
<1>3. CASE WorkerKill
  BY <1>3, OwedPc DEF WorkerKill
<1> QED
  BY <1>1, <1>2, <1>3, OwedWorkDone, OwedIdle DEF Next

\* What the invariant says of the responses owed and of the assert()s of worker.c.
LEMMA OwedMeans == OwedInv => OwedResponses
<1> SUFFICES ASSUME OwedInv PROVE OwedResponses
  BY Zenon
<1>1. {readers_idle[i] : i \in DOMAIN readers_idle} = Elems(readers_idle)
  BY Zenon DEF Elems
<1> QED
  BY <1>1, Types DEF OwedInv, OwedResponses, Work0, Busy, Idle, Readers

-----------------------------------------------------------------------------
(***************************************************************************)
(* The answers of lbs, for any number of reader threads: each request is   *)
(* answered at most once, to the connection it came from and with the      *)
(* right block or block number.                                            *)
(*                                                                         *)
(* The inductive invariant: who is to answer which request, and what they  *)
(* have found out so far.                                                  *)
(***************************************************************************)
\* The request has no answer yet, and its connection is the one in use.
Open(rs, id) == id \in DOMAIN rs /\ rs[id].answers = <<>> /\ rs[id].conn = conn

\* The block that a GET must be served can still be read, has been read, or was freed.
Found(b, m) == m = NoData \/ b < freed \/ (b \in DOMAIN log /\ log[b] = m)
Got(b, m, data) == m = NoData \/ b < freed \/ data = m

IsGet(rs, id, b) == Open(rs, id) /\ rs[id].type = "get" /\ rs[id].blkno = b

\* The reads in the queue, and the reads that threads have.
Queued(rs, q) ==
    \A i \in DOMAIN q : IsGet(rs, q[i].id, q[i].blkno) /\ Found(q[i].blkno, rs[q[i].id].must)

IsRead(rs, e) ==
    /\ e.work.op = "read" /\ IsGet(rs, e.work.id, e.work.blkno)
    /\ ~e.workdone => Found(e.work.blkno, rs[e.work.id].must)
    /\ e.workdone => Got(e.work.blkno, rs[e.work.id].must, e.data)

BeingRead(rs, c) == \A w \in Readers : c[w].haswork => IsRead(rs, c[w])

\* No request is there twice.
Once(q, c) ==
    /\ \A i, j \in DOMAIN q : q[i].id = q[j].id => i = j
    /\ \A i \in DOMAIN q : \A w \in Readers : c[w].haswork => q[i].id # c[w].work.id
    /\ \A v, w \in Readers :
          c[v].haswork /\ c[w].haswork /\ c[v].work.id = c[w].work.id => v = w

Hold(rs, q, c) == Queued(rs, q) /\ BeingRead(rs, c) /\ Once(q, c)

\* The writer's work is an APPEND that has not been answered ...
Writes(rs, e) ==
    e.haswork =>
        /\ e.work.op = "write" /\ Open(rs, e.work.id) /\ rs[e.work.id].type = "append"
        /\ rs[e.work.id].blkno = e.work.blkno /\ rs[e.work.id].n = e.work.n

\* ... and nobody else appends.
Appending(e) ==
    /\ e.haswork /\ e.workdone => next = e.work.blkno + e.work.n
    /\ e.haswork /\ ~e.workdone =>
          /\ next = e.work.blkno
          /\ pend = Store!NoAppend \/ pend = [id |-> e.work.id, n |-> e.work.n]
    /\ ~e.haswork \/ e.workdone => pend = Store!NoAppend

Deletes(e) == e.haswork => e.work.op = "delete"

\* What AnsweredRight says of one request.
Right(r) ==
    /\ r.answers \in {<<>>, <<r.conn>>}
    /\ r.answers # <<>> =>
          /\ r.type = "append" /\ r.status = 0 => r.value = r.blkno + r.n
          /\ r.type = "get" /\ r.must # NoData => r.value = r.must \/ r.blkno < freed

Answers ==
    /\ \A i \in DOMAIN reqs : Right(reqs[i])
    /\ Hold(reqs, readq, ctl)
    /\ Writes(reqs, ctl[writer]) /\ Appending(ctl[writer]) /\ Deletes(ctl[deleter])

AnsInv == OwedInv /\ Answers

-----------------------------------------------------------------------------
(***************************************************************************)
(* The requests that are held when the requests, the queue or the threads  *)
(* change.                                                                 *)
(***************************************************************************)
\* dispatch_request_pokereadq moves reads from the queue to threads, each to one.
LEMMA PokeHolds ==
  ASSUME SetFacts, NEW rs, NEW c \in [Workers -> Ctl], NEW q \in Seq(Read), NEW idle \in Seq(Readers),
         NEW ok, ok = TRUE, ctl \in [Workers -> Ctl],
         Distinct(idle), Elems(idle) = Idle(c), PokeReadq(c, q, idle, ok), Hold(rs, q, c)
  PROVE  Hold(rs, readq', ctl')
<1> USE Numbers
<1>0. PICK n \in Nat : Handed(c, q, idle, n)
  BY Zenon, Poked
<1>1. /\ n <= Len(q)
      /\ readq' \in Seq(Read) /\ Len(readq') = Len(q) - n
      /\ \A i \in DOMAIN readq' : i + n \in DOMAIN q /\ readq'[i] = q[i + n]
      /\ Taken(n, idle) \subseteq Idle(c)
      /\ \A w \in Workers \ Taken(n, idle) : ctl'[w] = c[w]
      /\ \A w \in Taken(n, idle) : ctl'[w].haswork /\ ~ctl'[w].workdone
  BY <1>0 DEF Handed
<1> DEFINE T == Taken(n, idle)
           K(w, i) == /\ i \in 1 .. n /\ idle[Len(idle) + 1 - i] = w
                      /\ ctl'[w].work.op = "read" /\ ctl'[w].work.id = q[i].id
                      /\ ctl'[w].work.blkno = q[i].blkno
<1>2. T \subseteq Readers /\ \A w \in T : ctl'[w].haswork /\ ~ctl'[w].workdone
  BY <1>1 DEF Idle
<1>3. ASSUME NEW w \in T PROVE \E i \in 1 .. n : K(w, i)
  <2>1. PICK i \in 1 .. n :
          /\ idle[Len(idle) + 1 - i] = w
          /\ ctl'[w].work = [op |-> "read", blkno |-> q[i].blkno, n |-> 0, id |-> q[i].id]
    BY Zenon, <1>0, <1>3 DEF Handed
  <2>2. K(w, i)
    BY ONLY <2>1
  <2> QED
    BY <2>2
<1>4. \A w \in Readers \ T : ctl'[w] = c[w]
  BY <1>1
<1>5. \A i \in DOMAIN readq' : i + n \in DOMAIN q /\ readq'[i] = q[i + n] /\ i \in Nat /\ i >= 1
  <2>1. DOMAIN readq' = 1 .. Len(readq') /\ Len(readq') \in Nat
    BY <1>1
  <2> QED
    BY <1>1, <2>1
<1>6. DOMAIN q = 1 .. Len(q) /\ 1 .. n \subseteq DOMAIN q
  <2>1. DOMAIN q = 1 .. Len(q) /\ Len(q) \in Nat
    OBVIOUS
  <2> QED
    BY <1>1, <2>1
<1> HIDE DEF T
<1>7. Queued(rs, readq')
  BY <1>5 DEF Hold, Queued
<1>8. BeingRead(rs, ctl')
  <2> SUFFICES ASSUME NEW w \in Readers, ctl'[w].haswork PROVE IsRead(rs, ctl'[w])
    BY Zenon DEF BeingRead
  <2>1. CASE w \in T
    <3>1. PICK i \in 1 .. n : K(w, i)
      BY Zenon, <1>3, <2>1
    <3>2. IsGet(rs, q[i].id, q[i].blkno) /\ Found(q[i].blkno, rs[q[i].id].must)
      BY <1>6, <3>1 DEF Hold, Queued
    <3> QED
      BY Zenon, <1>2, <2>1, <3>1, <3>2 DEF IsRead
  <2>2. CASE w \notin T
    BY <1>4, <2>2 DEF Hold, BeingRead
  <2> QED
    BY <2>1, <2>2
<1>9. Once(readq', ctl')
  <2>1. \A i, j \in DOMAIN q : q[i].id = q[j].id => i = j
    BY DEF Hold, Once
  <2>2. \A i \in DOMAIN q : \A w \in Readers \ T : ctl'[w].haswork => q[i].id # ctl'[w].work.id
    BY <1>4 DEF Hold, Once
  <2>3. \A i, j \in DOMAIN readq' : readq'[i].id = readq'[j].id => i = j
    BY <1>5, <2>1
  <2>4. ASSUME NEW i \in DOMAIN readq', NEW w \in Readers, ctl'[w].haswork
        PROVE  readq'[i].id # ctl'[w].work.id
    <3>1. CASE w \in T
      <4>1. PICK j \in 1 .. n : K(w, j)
        BY <1>3, <3>1
      <4>2. j # i + n /\ j \in DOMAIN q
        BY <1>5, <1>6
      <4> QED
        BY <1>5, <2>1, <4>1, <4>2
    <3>2. CASE w \notin T
      BY <1>5, <2>2, <2>4, <3>2
    <3> QED
      BY <3>1, <3>2
  <2>5. ASSUME NEW v \in Readers, NEW w \in Readers, ctl'[v].haswork, ctl'[w].haswork,
               ctl'[v].work.id = ctl'[w].work.id
        PROVE  v = w
    <3>1. CASE v \in T /\ w \in T
      <4>1. PICK i \in 1 .. n : K(v, i)
        BY <1>3, <3>1
      <4>2. PICK j \in 1 .. n : K(w, j)
        BY <1>3, <3>1
      <4>3. i = j
        BY Zenon, <1>6, <2>1, <2>5, <4>1, <4>2
      <4> QED
        BY <4>1, <4>2, <4>3
    <3>2. CASE v \in T /\ w \notin T
      <4>1. PICK i \in 1 .. n : K(v, i)
        BY <1>3, <3>2
      <4> QED
        BY Zenon, <1>6, <2>2, <2>5, <3>2, <4>1
    <3>3. CASE v \notin T /\ w \in T
      <4>1. PICK i \in 1 .. n : K(w, i)
        BY <1>3, <3>3
      <4> QED
        BY <1>6, <2>2, <2>5, <3>3, <4>1
    <3>4. CASE v \notin T /\ w \notin T
      BY <1>4, <2>5, <3>4 DEF Hold, Once
    <3> QED
      BY <3>1, <3>2, <3>3, <3>4
  <2> QED
    BY <2>3, <2>4, <2>5 DEF Once
<1> QED
  BY <1>7, <1>8, <1>9 DEF Hold

\* The requests that are queued or being read are the same in rs and ts.
Same(rs, ts, q, c) ==
    /\ \A i \in DOMAIN q : q[i].id \in DOMAIN ts /\ ts[q[i].id] = rs[q[i].id]
    /\ \A w \in Readers : c[w].haswork =>
          c[w].work.id \in DOMAIN ts /\ ts[c[w].work.id] = rs[c[w].work.id]

\* The requests that are held do not change: what is held stays so.
LEMMA SameRequests ==
  ASSUME NEW rs, NEW ts, NEW q, NEW c, Hold(rs, q, c), Same(rs, ts, q, c)
  PROVE  Hold(ts, q, c)
<1> USE DEF Same
<1>1. Queued(ts, q)
  BY DEF Hold, Queued, IsGet, Open
<1>2. BeingRead(ts, c)
  <2> SUFFICES ASSUME NEW w \in Readers, c[w].haswork PROVE IsRead(ts, c[w])
    BY Zenon DEF BeingRead
  <2>1. IsRead(rs, c[w]) /\ c[w].work.id \in DOMAIN ts /\ ts[c[w].work.id] = rs[c[w].work.id]
    BY Zenon DEF Hold, BeingRead
  <2> QED
    BY Zenon, <2>1 DEF IsRead, IsGet, Open
<1> QED
  BY Zenon, <1>1, <1>2 DEF Hold

\* The readers do not change.
LEMMA SameReaders ==
  ASSUME NEW rs, NEW q, NEW c, NEW e, Hold(rs, q, c), \A w \in Readers : e[w] = c[w]
  PROVE  Hold(rs, q, e)
<1>1. Queued(rs, q)
  BY Zenon DEF Hold
<1>2. BeingRead(rs, e)
  BY Zenon DEF Hold, BeingRead
<1>3. Once(q, e)
  BY DEF Hold, Once
<1> QED
  BY <1>1, <1>2, <1>3 DEF Hold

\* A request is added at the end.
LEMMA Added ==
  ASSUME AnsInv, NEW r \in Req, reqs' = Append(reqs, r)
  PROVE  /\ Len(reqs') = Len(reqs) + 1 /\ Len(reqs') \in Nat
         /\ Len(reqs') \notin DOMAIN reqs /\ DOMAIN reqs' = DOMAIN reqs \cup {Len(reqs')}
         /\ reqs'[Len(reqs')] = r
         /\ \A i \in DOMAIN reqs : reqs'[i] = reqs[i]
         /\ Hold(reqs', readq, ctl) /\ Writes(reqs', ctl[writer])
<1>1. reqs \in Seq(Req) /\ DOMAIN reqs = 1 .. Len(reqs) /\ Len(reqs) \in Nat
  BY DEF AnsInv, OwedInv, ReqsOK
<1>2. /\ reqs' \in Seq(Req) /\ Len(reqs') = Len(reqs) + 1
      /\ \A i \in 1 .. Len(reqs) : reqs'[i] = reqs[i]
      /\ reqs'[Len(reqs) + 1] = r
  BY <1>1
<1>3. DOMAIN reqs' = 1 .. Len(reqs')
  BY <1>2
<1>4. /\ Len(reqs') \in Nat /\ Len(reqs') \notin DOMAIN reqs
      /\ DOMAIN reqs' = DOMAIN reqs \cup {Len(reqs')}
      /\ \A i \in DOMAIN reqs : reqs'[i] = reqs[i]
  BY <1>1, <1>2, <1>3
<1>5. Hold(reqs', readq, ctl)
  <2>1. Hold(reqs, readq, ctl)
    BY Zenon DEF AnsInv, Answers
  <2>2. \A i \in DOMAIN readq : readq[i].id \in DOMAIN reqs
    BY Zenon, <2>1 DEF Hold, Queued, IsGet, Open
  <2>3. \A w \in Readers : ctl[w].haswork => ctl[w].work.id \in DOMAIN reqs
    BY Zenon, <2>1 DEF Hold, BeingRead, IsRead, IsGet, Open
  <2>4. \A i \in DOMAIN readq :
          readq[i].id \in DOMAIN reqs' /\ reqs'[readq[i].id] = reqs[readq[i].id]
    BY <1>4, <2>2
  <2>5. \A w \in Readers : ctl[w].haswork =>
          ctl[w].work.id \in DOMAIN reqs' /\ reqs'[ctl[w].work.id] = reqs[ctl[w].work.id]
    BY Zenon, <1>4, <2>3
  <2> QED
    <3>1. Same(reqs, reqs', readq, ctl)
      BY ONLY <2>4, <2>5 DEF Same
    <3> QED
      BY ONLY <2>1, <3>1, SameRequests
<1>6. Writes(reqs', ctl[writer])
  BY Zenon, <1>4 DEF AnsInv, Answers, Writes, Open
<1> QED
  BY Zenon, <1>2, <1>4, <1>5, <1>6

-----------------------------------------------------------------------------
(***************************************************************************)
(* The steps.                                                              *)
(***************************************************************************)
\* A step that adds no request, moves no work and leaves the store alone; reads that
\* no thread has taken may be forgotten.
LEMMA AnsSame ==
  ASSUME AnsInv, reqs' = reqs, conn' = conn, readq' = readq \/ readq' = <<>>,
         log' = log, next' = next, freed' = freed, pend' = pend,
         \A w \in Workers : /\ ctl'[w].haswork = ctl[w].haswork
                            /\ ctl'[w].workdone = ctl[w].workdone
                            /\ ctl'[w].work = ctl[w].work /\ ctl'[w].data = ctl[w].data
  PROVE  Answers'
<1> USE Numbers
<1>1. (\A i \in DOMAIN reqs : Right(reqs[i]))'
  BY Zenon DEF AnsInv, Answers, Right
<1>2. Queued(reqs, readq) /\ BeingRead(reqs, ctl) /\ Once(readq, ctl)
  BY Zenon DEF AnsInv, Answers, Hold
<1>3. Queued(reqs, readq)'
  BY <1>2 DEF Queued, IsGet, Open, Found
<1>4. BeingRead(reqs, ctl)'
  <2> SUFFICES ASSUME NEW w \in Readers, ctl'[w].haswork PROVE IsRead(reqs, ctl[w])'
    BY Zenon DEF BeingRead
  <2>1. w \in Workers /\ ctl[w].haswork
    BY Zenon
  <2>2. IsRead(reqs, ctl[w])
    BY <1>2, <2>1 DEF BeingRead
  <2> QED
    BY <2>1, <2>2 DEF IsRead, IsGet, Open, Found, Got
<1>5. Once(readq, ctl)'
  BY <1>2 DEF Once
<1>6. (Writes(reqs, ctl[writer]) /\ Appending(ctl[writer]) /\ Deletes(ctl[deleter]))'
  BY DEF AnsInv, Answers, Writes, Appending, Deletes, Open
<1> QED
  BY <1>1, <1>3, <1>4, <1>5, <1>6 DEF Answers, Hold

\* A step that leaves the store and the connection alone.
LEMMA Renamed ==
  ASSUME AnsInv, conn' = conn, log' = log, freed' = freed, next' = next, pend' = pend,
         \A i \in DOMAIN reqs' : Right(reqs'[i]), Hold(reqs', readq', ctl'),
         Writes(reqs', ctl'[writer]), Appending(ctl'[writer]), Deletes(ctl'[deleter])
  PROVE  Answers'
<1>1. (\A i \in DOMAIN reqs : Right(reqs[i]))'
  BY Zenon DEF Right
<1>2. Queued(reqs, readq)'
  BY Zenon DEF Hold, Queued, IsGet, Open, Found
<1>3. BeingRead(reqs, ctl)'
  BY DEF Hold, BeingRead, IsRead, IsGet, Open, Found, Got
<1>4. Once(readq, ctl)'
  BY Zenon DEF Hold, Once
<1>5. (Writes(reqs, ctl[writer]) /\ Appending(ctl[writer]) /\ Deletes(ctl[deleter]))'
  BY DEF Writes, Appending, Deletes, Open
<1> QED
  BY <1>1, <1>2, <1>3, <1>4, <1>5 DEF Answers, Hold

\* The record of a new request, and of one that is answered for the first time.
LEMMA NewRecord ==
  ASSUME NEW type, NEW b, NEW n
  PROVE  LET r == NewReq(type, b, n) IN
         /\ r.type = type /\ r.blkno = b /\ r.n = n /\ r.conn = conn /\ r.answers = <<>>
         /\ r.must = IF type = "get" /\ b \in DOMAIN log THEN log[b] ELSE NoData
BY DEF NewReq

\* A request of this connection without an answer, and what the answer makes of it.
Unanswered(r) == r \in Req /\ r.answers = <<>> /\ r.conn = conn

AnsweredAs(a, r, st, v) ==
    /\ a.type = r.type /\ a.blkno = r.blkno /\ a.n = r.n /\ a.conn = r.conn
    /\ a.must = r.must /\ a.status = st /\ a.value = v
    /\ a.answers = <<a.conn>>

\* The response to a request, on the connection the request came on.
LEMMA AnsweredRecord ==
  ASSUME NEW r, NEW st, NEW v, Unanswered(r), NEW a, a = Answer(r, st, v)
  PROVE  AnsweredAs(a, r, st, v)
<1> USE DEF Unanswered, AnsweredAs
<1>1. Append(<<>>, conn) = <<conn>>
  OBVIOUS
<1> DEFINE x == Append(r.answers, conn)
<1>2. x = <<conn>>
  BY <1>1
<1> HIDE DEF x
<1>3. Answer(r, st, v) = [r EXCEPT !.answers = x, !.status = st, !.value = v]
  BY Zenon DEF Answer, x
<1> QED
  BY <1>2, <1>3 DEF Req

\* A connection is accepted: nobody has a request of the one before.
LEMMA AnsAccept ==
  ASSUME SetFacts, AnsInv, Accept
  PROVE  Answers'
<1> USE Numbers
<1>1. /\ accepting /\ readq' = <<>> /\ ctl' = ctl /\ reqs' = reqs
      /\ log' = log /\ next' = next /\ freed' = freed /\ pend' = pend
  BY Zenon DEF Accept, store
<1>2. npending = 0 /\ npending = Len(readq) + Cardinality(Busy(ctl)) /\ Len(readq) \in Nat
  BY <1>1, Types DEF AnsInv, OwedInv, Between, Work0
<1>3. Busy(ctl) = {}
  <2>1. Cardinality(Busy(ctl)) = 0
    BY <1>2, BusyFinite
  <2> QED
    BY <2>1, BusyFinite DEF SetFacts, EmptySize
<1>4. \A w \in 0 .. writer : ~ctl[w].haswork
  BY <1>3 DEF Busy
<1>5. \A w \in Readers : ~ctl'[w].haswork
  BY <1>1, <1>4
<1>6. ~ctl'[writer].haswork
  BY <1>1, <1>4
<1>7. (\A i \in DOMAIN reqs : Right(reqs[i]))'
  BY <1>1 DEF AnsInv, Answers, Right
<1>8. DOMAIN readq' = {}
  BY <1>1
<1>9. Hold(reqs, readq, ctl)'
  BY <1>5, <1>8 DEF Hold, Queued, BeingRead, Once
<1>10. (Writes(reqs, ctl[writer]) /\ Appending(ctl[writer]) /\ Deletes(ctl[deleter]))'
  BY <1>1, <1>6 DEF AnsInv, Answers, Writes, Appending, Deletes
<1> QED
  BY <1>7, <1>9, <1>10 DEF Answers

\* PARAMS and FREE, and an APPEND that is refused: answered at once.
LEMMA AnsAtOnce ==
  ASSUME AnsInv, NEW r \in Req, reqs' = Append(reqs, r), Right(r), conn' = conn,
         log' = log, next' = next, freed' = freed, pend' = pend, readq' = readq,
         ctl'[writer] = ctl[writer], \A w \in Readers : ctl'[w] = ctl[w],
         Deletes(ctl'[deleter])
  PROVE  Answers'
<1>1. /\ DOMAIN reqs' = DOMAIN reqs \cup {Len(reqs')} /\ reqs'[Len(reqs')] = r
      /\ \A i \in DOMAIN reqs : reqs'[i] = reqs[i]
      /\ Hold(reqs', readq, ctl) /\ Writes(reqs', ctl[writer])
  BY Zenon, Added
<1>2. \A i \in DOMAIN reqs' : Right(reqs'[i])
  BY Zenon, <1>1 DEF AnsInv, Answers
<1>3. Hold(reqs', readq', ctl')
  BY Zenon, <1>1, SameReaders
<1>4. Writes(reqs', ctl'[writer]) /\ Appending(ctl'[writer])
  BY Zenon, <1>1 DEF AnsInv, Answers
<1> QED
  BY Zenon, <1>2, <1>3, <1>4, Renamed

\* dispatch_request_params2 and dispatch_request_free.
LEMMA AnsParamsFree ==
  ASSUME AnsInv, RequestParams \/ \E b \in 0 .. next : RequestFree(b)
  PROVE  Answers'
<1> USE Numbers
<1>0. OwedInv /\ next \in Nat
  BY Zenon DEF AnsInv, OwedInv, StoreOK
<1>1. CASE RequestParams
  <2> DEFINE n == NewReq("params", 0, 0)
             r == Answer(n, 0, next)
  <2>1. n \in Req /\ n.answers = <<>> /\ n.conn = conn /\ n.type = "params"
    BY <1>0, NewReqType, NewRecord
  <2> HIDE DEF n
  <2>2. r \in Req /\ r.type = "params" /\ r.answers = <<r.conn>>
    <3>1. r \in Req
      BY <1>0, <2>1, AnswerType
    <3>2. Unanswered(n)
      BY ONLY <2>1 DEF Unanswered
    <3>3. AnsweredAs(r, n, 0, next)
      BY ONLY <3>2, AnsweredRecord
    <3> QED
      BY ONLY <2>1, <3>1, <3>3 DEF AnsweredAs
  <2>3. /\ reqs' = Append(reqs, r) /\ conn' = conn /\ ctl' = ctl /\ readq' = readq
        /\ log' = log /\ next' = next /\ freed' = freed /\ pend' = pend
    BY Zenon, <1>1 DEF RequestParams, ReadRequest, netvars, dispatch, store, n
  <2> HIDE DEF r
  <2>4. Right(r)
    BY Zenon, <2>2 DEF Right
  <2>5. Deletes(ctl'[deleter])
    BY Zenon, <2>3 DEF AnsInv, Answers
  <2> QED
    BY <2>2, <2>3, <2>4, <2>5, AnsAtOnce
<1>2. ASSUME NEW b \in 0 .. next, RequestFree(b) PROVE Answers'
  <2> DEFINE n == NewReq("free", b, 0)
             r == Answer(n, 0, 0)
  <2>0. b \in Nat
    BY <1>0
  <2>1. n \in Req /\ n.answers = <<>> /\ n.conn = conn /\ n.type = "free"
    BY <1>0, <2>0, NewReqType, NewRecord
  <2> HIDE DEF n
  <2>2. r \in Req /\ r.type = "free" /\ r.answers = <<r.conn>>
    <3>1. r \in Req
      BY <1>0, <2>1, AnswerType
    <3>2. Unanswered(n)
      BY ONLY <2>1 DEF Unanswered
    <3>3. AnsweredAs(r, n, 0, 0)
      BY ONLY <3>2, AnsweredRecord
    <3> QED
      BY ONLY <2>1, <3>1, <3>3 DEF AnsweredAs
  <2>3. /\ reqs' = Append(reqs, r) /\ conn' = conn /\ readq' = readq
        /\ log' = log /\ next' = next /\ freed' = freed /\ pend' = pend
    BY <1>2 DEF RequestFree, ReadRequest, netvars, store, n
  <2> HIDE DEF r
  <2>4. Right(r)
    BY Zenon, <2>2 DEF Right
  <2>5. ctl \in [Workers -> Ctl] /\ Len(reqs') \in Nat
    <3>1. Len(reqs') \in Nat
      BY <2>2, <2>3, Added
    <3> QED
      BY <1>0, <3>1, Types
  <2>6. /\ \A w \in Workers \ {deleter} : ctl'[w] = ctl[w]
        /\ Deletes(ctl'[deleter])
    <3>1. CASE deleter_busy
      BY <1>2, <3>1 DEF RequestFree, AnsInv, Answers
    <3>2. CASE ~deleter_busy
      <4> DEFINE job == [op |-> "delete", blkno |-> b, n |-> 0, id |-> Len(reqs')]
                 e == [ctl[deleter] EXCEPT !.pc = "run", !.haswork = TRUE,
                                           !.workdone = FALSE, !.work = job]
      <4>1. ctl' = [ctl EXCEPT ![deleter] = e]
        BY Zenon, <1>2, <3>2 DEF RequestFree, Assigned
      <4>2. job \in Job /\ job.op = "delete" /\ ctl[deleter] \in Ctl
        BY <2>0, <2>5 DEF Job
      <4> HIDE DEF job
      <4>3. e.work = job
        BY Zenon, <4>2, AssignedCtl
      <4> HIDE DEF e
      <4> QED
        BY <2>5, <4>1, <4>2, <4>3 DEF Deletes
    <3> QED
      BY <3>1, <3>2
  <2>7. ctl'[writer] = ctl[writer] /\ \A w \in Readers : ctl'[w] = ctl[w]
    BY Zenon, <2>6
  <2> QED
    BY <2>2, <2>3, <2>4, <2>6, <2>7, AnsAtOnce
<1> QED
  BY <1>1, <1>2

\* dispatch_request_append: the writer, which has no work, gets the request, and the
\* APPEND starts where the store ends.
LEMMA AnsAppend ==
  ASSUME AnsInv, NEW b \in 0 .. MaxBlk, NEW n \in 1 .. MaxAppend, RequestAppend(b, n)
  PROVE  Answers'
<1> USE Numbers
<1>0. OwedInv /\ b \in Nat /\ n \in Nat /\ ctl \in [Workers -> Ctl]
  BY LbsDispatchAssumption, Types DEF AnsInv
<1> DEFINE r == NewReq("append", b, n)
<1>1. /\ r \in Req /\ r.answers = <<>> /\ r.conn = conn /\ r.type = "append"
      /\ r.blkno = b /\ r.n = n
  BY <1>0, NewReqType, NewRecord
<1>2. /\ conn' = conn /\ readq' = readq
      /\ log' = log /\ next' = next /\ freed' = freed /\ pend' = pend
  BY DEF RequestAppend, ReadRequest, netvars, store
<1>3. CASE b # next \/ writer_busy
  <2> DEFINE a == Answer(r, 1, -1)
  <2>1. reqs' = Append(reqs, a) /\ ctl' = ctl
    BY <1>3 DEF RequestAppend, ReadRequest
  <2> HIDE DEF r
  <2>2. a \in Req /\ a.type = "append" /\ a.status = 1 /\ a.answers = <<a.conn>>
    <3>1. a \in Req
      BY <1>0, <1>1, AnswerType
    <3>2. Unanswered(r)
      BY ONLY <1>0, <1>1 DEF Unanswered
    <3>3. AnsweredAs(a, r, 1, -1)
      BY ONLY <3>2, AnsweredRecord
    <3> QED
      BY ONLY <1>0, <1>1, <3>1, <3>3 DEF AnsweredAs
  <2> HIDE DEF a
  <2>3. Right(a)
    BY <2>2 DEF Right
  <2>4. Deletes(ctl'[deleter])
    BY <2>1 DEF AnsInv, Answers
  <2> QED
    BY <1>2, <2>1, <2>2, <2>3, <2>4, AnsAtOnce
<1>4. CASE ~(b # next \/ writer_busy)
  <2> DEFINE job == [op |-> "write", blkno |-> b, n |-> n, id |-> Len(reqs')]
             e == [ctl[writer] EXCEPT !.pc = "run", !.haswork = TRUE,
                                      !.workdone = FALSE, !.work = job]
  <2>1. reqs' = Append(reqs, r) /\ ctl' = [ctl EXCEPT ![writer] = e]
    BY <1>4 DEF RequestAppend, ReadRequest, Assigned
  <2> HIDE DEF r
  <2>2. /\ Len(reqs') \in Nat
        /\ DOMAIN reqs' = DOMAIN reqs \cup {Len(reqs')} /\ reqs'[Len(reqs')] = r
        /\ \A i \in DOMAIN reqs : reqs'[i] = reqs[i]
        /\ Hold(reqs', readq, ctl)
    BY <1>1, <2>1, Added
  <2>3. /\ job \in Job /\ ctl[writer] \in Ctl
        /\ job.op = "write" /\ job.id = Len(reqs') /\ job.blkno = b /\ job.n = n
    BY Zenon, <1>0, <2>2 DEF Job
  <2> HIDE DEF job
  <2>4. e.haswork = TRUE /\ e.workdone = FALSE /\ e.work = job
    BY Zenon, <2>3, AssignedCtl
  <2> HIDE DEF e
  <2>5. ctl'[writer] = e /\ \A w \in Workers \ {writer} : ctl'[w] = ctl[w]
    BY Zenon, <1>0, <2>1
  <2>6. ~ctl[writer].haswork /\ b = next
    BY <1>4 DEF AnsInv, OwedInv, Work0
  <2>7. pend = Store!NoAppend
    BY <2>6 DEF AnsInv, Answers, Appending
  <2>8. Writes(reqs', ctl'[writer]) /\ Appending(ctl'[writer])
    BY Zenon, <1>1, <2>2, <2>3, <2>4, <2>5, <2>6, <2>7 DEF Writes, Appending, Open
  <2>9. Right(r)
    BY <1>1 DEF Right
  <2>10. \A i \in DOMAIN reqs' : Right(reqs'[i])
    BY Zenon, <2>2, <2>9 DEF AnsInv, Answers
  <2>11. Hold(reqs', readq', ctl')
    <3>1. \A w \in Readers : ctl'[w] = ctl[w]
      BY <2>5
    <3> QED
      BY ONLY <1>2, <2>2, <3>1, SameReaders
  <2>12. Deletes(ctl'[deleter])
    BY <2>5 DEF AnsInv, Answers
  <2> QED
    BY <1>2, <2>8, <2>10, <2>11, <2>12, Renamed
<1> QED
  BY <1>3, <1>4

\* dispatch_request_get: the request goes to the end of the queue, and the block it must
\* be served, if the store has it, can be read.
LEMMA AnsGet ==
  ASSUME SetFacts, AnsInv, NEW b \in 0 .. MaxBlk - 1, RequestGet(b)
  PROVE  Answers'
<1> USE Numbers
<1>0. OwedInv /\ b \in Nat
  BY LbsDispatchAssumption DEF AnsInv
<1> DEFINE r == NewReq("get", b, 0)
           k == Len(reqs')
           x == [id |-> k, blkno |-> b]
           q == Append(readq, x)
<1>1. /\ r \in Req /\ r.answers = <<>> /\ r.conn = conn /\ r.type = "get" /\ r.blkno = b
      /\ r.must = IF b \in DOMAIN log THEN log[b] ELSE NoData
  BY <1>0, NewReqType, NewRecord
<1>2. /\ reqs' = Append(reqs, r) /\ PokeReadq(ctl, q, readers_idle, assertOK)
      /\ conn' = conn /\ log' = log /\ next' = next /\ freed' = freed /\ pend' = pend
  BY DEF RequestGet, ReadRequest, netvars, store
<1> HIDE DEF r
<1>3. /\ k \in Nat /\ k \notin DOMAIN reqs
      /\ DOMAIN reqs' = DOMAIN reqs \cup {k} /\ reqs'[k] = r
      /\ \A i \in DOMAIN reqs : reqs'[i] = reqs[i]
      /\ Hold(reqs', readq, ctl) /\ Writes(reqs', ctl[writer])
  BY <1>1, <1>2, Added
<1> HIDE DEF k
<1>4. x \in Read /\ x.id = k /\ x.blkno = b
  BY <1>0, <1>3 DEF Read
<1> HIDE DEF x
<1>5. readq \in Seq(Read) /\ ctl \in [Workers -> Ctl] /\ readers_idle \in Seq(Readers)
      /\ Distinct(readers_idle) /\ Elems(readers_idle) = Idle(ctl) /\ assertOK = TRUE
  BY <1>0, Types DEF OwedInv, Work0
<1>6. /\ q \in Seq(Read) /\ DOMAIN q = DOMAIN readq \cup {Len(readq) + 1}
      /\ \A i \in DOMAIN readq : q[i] = readq[i]
      /\ q[Len(readq) + 1] = x /\ Len(readq) + 1 \notin DOMAIN readq
  <2>1. DOMAIN readq = 1 .. Len(readq) /\ Len(readq) \in Nat
    BY <1>5
  <2>2. /\ q \in Seq(Read) /\ Len(q) = Len(readq) + 1
        /\ \A i \in 1 .. Len(readq) : q[i] = readq[i]
        /\ q[Len(readq) + 1] = x
    BY <1>4, <1>5
  <2>3. DOMAIN q = 1 .. Len(q)
    BY <2>2
  <2> QED
    BY <2>1, <2>2, <2>3
<1> HIDE DEF q
<1>7. Queued(reqs', q)
  <2>1. IsGet(reqs', x.id, x.blkno) /\ Found(x.blkno, reqs'[x.id].must)
    BY <1>1, <1>3, <1>4 DEF IsGet, Open, Found
  <2> QED
    BY <1>3, <1>6, <2>1 DEF Hold, Queued
<1>8. Once(q, ctl)
  <2>1. \A i \in DOMAIN readq : readq[i].id # k
    BY <1>3 DEF AnsInv, Answers, Hold, Queued, IsGet, Open
  <2>2. \A w \in Readers : ctl[w].haswork => ctl[w].work.id # k
    BY Zenon, <1>3 DEF AnsInv, Answers, Hold, BeingRead, IsRead, IsGet, Open
  <2>3. Once(readq, ctl)
    BY Zenon, <1>3 DEF Hold
  <2>4. \A i, j \in DOMAIN q : q[i].id = q[j].id => i = j
    BY <1>4, <1>6, <2>1, <2>3 DEF Once
  <2>5. \A i \in DOMAIN q : \A w \in Readers : ctl[w].haswork => q[i].id # ctl[w].work.id
    BY <1>4, <1>6, <2>2, <2>3 DEF Once
  <2> QED
    BY <2>3, <2>4, <2>5 DEF Once
<1>9. Hold(reqs', q, ctl)
  BY Zenon, <1>3, <1>7, <1>8 DEF Hold
<1>10. Hold(reqs', readq', ctl')
  BY Zenon, <1>2, <1>5, <1>6, <1>9, PokeHolds
<1>11. ctl'[writer] = ctl[writer] /\ ctl'[deleter] = ctl[deleter]
  BY Zenon, <1>2, <1>5, <1>6, OwedPoke
<1>12. Right(r)
  BY <1>1 DEF Right
<1>13. \A i \in DOMAIN reqs' : Right(reqs'[i])
  BY <1>3, <1>12 DEF AnsInv, Answers
<1>14. Writes(reqs', ctl'[writer]) /\ Appending(ctl'[writer]) /\ Deletes(ctl'[deleter])
  BY <1>3, <1>11 DEF AnsInv, Answers
<1> QED
  BY <1>2, <1>10, <1>13, <1>14, Renamed

\* Blocks are appended or freed: a block that was there is still there, or freed.
LEMMA StoreMoves ==
  ASSUME AnsInv, conn' = conn, reqs' = reqs, readq' = readq,
         \A w \in Readers : ctl'[w] = ctl[w],
         \A b \in Nat : b < freed => b < freed',
         \A b \in DOMAIN log : b < freed' \/ (b \in DOMAIN log' /\ log'[b] = log[b])
  PROVE  (\A i \in DOMAIN reqs : Right(reqs[i]))' /\ Hold(reqs, readq, ctl)'
<1> USE Numbers
<1>0. OwedInv
  BY DEF AnsInv
<1>1. \A i \in DOMAIN reqs : reqs[i] \in Req /\ reqs[i].blkno \in Nat
  <2>1. reqs \in Seq(Req)
    BY <1>0 DEF OwedInv, ReqsOK
  <2>2. \A i \in DOMAIN reqs : reqs[i] \in Req
    BY <2>1
  <2> QED
    BY <2>2 DEF Req
<1>2. (\A i \in DOMAIN reqs : Right(reqs[i]))'
  BY <1>1 DEF AnsInv, Answers, Right
<1>3. ASSUME NEW b \in Nat, NEW m, Found(b, m)
      PROVE  m = NoData \/ b < freed' \/ (b \in DOMAIN log' /\ log'[b] = m)
  BY <1>3 DEF Found
<1>4. Queued(reqs, readq) /\ BeingRead(reqs, ctl) /\ Once(readq, ctl)
  BY DEF AnsInv, Answers, Hold
<1>5. Queued(reqs, readq)'
  <2> SUFFICES ASSUME NEW i \in DOMAIN readq
               PROVE  /\ IsGet(reqs, readq[i].id, readq[i].blkno)'
                      /\ Found(readq[i].blkno, reqs[readq[i].id].must)'
    BY Zenon DEF Queued
  <2>1. IsGet(reqs, readq[i].id, readq[i].blkno) /\ Found(readq[i].blkno, reqs[readq[i].id].must)
    BY <1>4 DEF Queued
  <2>2. readq[i].blkno \in Nat
    BY <1>1, <2>1 DEF IsGet, Open
  <2>3. Found(readq[i].blkno, reqs[readq[i].id].must)'
    BY <1>3, <2>1, <2>2 DEF Found
  <2> QED
    BY <2>1, <2>3 DEF IsGet, Open
<1>6. BeingRead(reqs, ctl)'
  <2> SUFFICES ASSUME NEW w \in Readers, ctl[w].haswork PROVE IsRead(reqs, ctl[w])'
    BY Zenon DEF BeingRead
  <2>1. IsRead(reqs, ctl[w])
    BY <1>4 DEF BeingRead
  <2> DEFINE b == ctl[w].work.blkno
             m == reqs[ctl[w].work.id].must
  <2>2. b \in Nat
    BY <1>1, <2>1 DEF IsRead, IsGet, Open
  <2>3. ctl[w].workdone => m = NoData \/ b < freed' \/ ctl[w].data = m
    BY <2>1, <2>2 DEF IsRead, Got
  <2>4. ~ctl[w].workdone => m = NoData \/ b < freed' \/ (b \in DOMAIN log' /\ log'[b] = m)
    <3>1. ~ctl[w].workdone => Found(b, m)
      BY <2>1 DEF IsRead
    <3> HIDE DEF b, m
    <3> QED
      BY <1>3, <2>2, <3>1
  <2>5. ctl[w].work.op = "read" /\ IsGet(reqs, ctl[w].work.id, b)
    BY <2>1 DEF IsRead
  <2>6. IsGet(reqs, ctl[w].work.id, ctl[w].work.blkno)'
    BY <2>5 DEF IsGet, Open
  <2> QED
    BY Zenon, <2>3, <2>4, <2>5, <2>6 DEF IsRead, Found, Got
<1>7. Once(readq, ctl)'
  BY <1>4 DEF Once
<1> QED
  BY <1>2, <1>5, <1>6, <1>7 DEF Hold

\* Only readers read, only the writer writes, and only the deleter deletes.
LEMMA WhoWorks ==
  ASSUME AnsInv, NEW w \in Workers, NEW op, HasWork(w, op)
  PROVE  /\ op = "read" => w \in Readers
         /\ op = "write" => w = writer
         /\ op = "delete" => w = deleter
<1>1. ctl[w].haswork /\ ctl[w].work.op = op
  BY Zenon DEF HasWork
<1>2. w \in Readers => op = "read"
  BY <1>1 DEF AnsInv, Answers, Hold, BeingRead, IsRead
<1>3. w = writer => op = "write"
  BY Zenon, <1>1 DEF AnsInv, Answers, Writes
<1>4. w = deleter => op = "delete"
  BY Zenon, <1>1 DEF AnsInv, Answers, Deletes
<1> QED
  BY <1>2, <1>3, <1>4, Numbers

\* What Finish leaves alone.
LEMMA Finished ==
  ASSUME AnsInv, NEW w \in Workers, NEW x \in Int, Finish(w, x)
  PROVE  /\ conn' = conn /\ reqs' = reqs /\ readq' = readq
         /\ \A v \in Workers \ {w} : ctl'[v] = ctl[v]
         /\ ctl'[w].haswork = ctl[w].haswork /\ ctl'[w].workdone = TRUE
         /\ ctl'[w].work = ctl[w].work /\ ctl'[w].data = x
<1>0. ctl \in [Workers -> Ctl]
  BY Zenon, Types DEF AnsInv
<1> DEFINE e == [ctl[w] EXCEPT !.workdone = TRUE, !.data = x]
<1>1. ctl' = [ctl EXCEPT ![w] = e] /\ conn' = conn /\ reqs' = reqs /\ readq' = readq
  BY Zenon DEF Finish, netvars, dispatch
<1>2. ctl[w] \in Ctl
  BY Zenon, <1>0
<1>3. e.haswork = ctl[w].haswork /\ e.workdone = TRUE /\ e.work = ctl[w].work /\ e.data = x
  BY Zenon, <1>2, FinishedCtl
<1> HIDE DEF e
<1> QED
  BY Zenon, <1>0, <1>1, <1>3

\* storage_read finds the block that must be served, unless it was freed.
LEMMA AnsRead ==
  ASSUME AnsInv, NEW w \in Workers, WorkRead(w)
  PROVE  Answers'
<1> USE Numbers
<1> DEFINE b == ctl[w].work.blkno
<1>1. w \in Readers /\ ctl[w].haswork /\ ~ctl[w].workdone
  <2>1. HasWork(w, "read")
    BY Zenon DEF WorkRead
  <2> QED
    BY <2>1, WhoWorks DEF HasWork
<1>2. log' = log /\ next' = next /\ freed' = freed /\ pend' = pend
  BY Zenon DEF WorkRead, store
<1>3. PICK x \in IF b \in DOMAIN log THEN {log[b]}
                 ELSE IF b < freed THEN {NoData, OldData} ELSE {NoData} : Finish(w, x)
  BY Zenon DEF WorkRead
<1>4. x \in Int
  BY <1>3 DEF AnsInv, OwedInv, StoreOK, NoData, OldData
<1>5. /\ conn' = conn /\ reqs' = reqs /\ readq' = readq
      /\ \A v \in Workers \ {w} : ctl'[v] = ctl[v]
      /\ ctl'[w].haswork = ctl[w].haswork /\ ctl'[w].workdone = TRUE
      /\ ctl'[w].work = ctl[w].work /\ ctl'[w].data = x
  BY Zenon, <1>3, <1>4, Finished
<1>6. IsRead(reqs, ctl[w])
  BY Zenon, <1>1 DEF AnsInv, Answers, Hold, BeingRead
<1>7. Got(b, reqs[ctl[w].work.id].must, x)
  <2> DEFINE m == reqs[ctl[w].work.id].must
  <2>1. Found(b, m)
    BY <1>1, <1>6 DEF IsRead
  <2> HIDE DEF b, m
  <2>2. Got(b, m, x)
    BY <1>3, <2>1 DEF Found, Got
  <2> QED
    BY Zenon, <2>2 DEF m
<1>8. IsRead(reqs', ctl'[w])
  BY Zenon, <1>5, <1>6, <1>7 DEF IsRead
<1>9. Queued(reqs', readq')
  BY Zenon, <1>5 DEF AnsInv, Answers, Hold
<1>10. BeingRead(reqs', ctl')
  BY <1>5, <1>8 DEF AnsInv, Answers, Hold, BeingRead
<1>11. Once(readq', ctl')
  <2>1. \A v \in Readers : ctl'[v].haswork = ctl[v].haswork /\ ctl'[v].work = ctl[v].work
    BY Zenon, <1>5
  <2>2. Once(readq, ctl)
    BY Zenon DEF AnsInv, Answers, Hold
  <2>3. readq' = readq
    BY Zenon, <1>5
  <2> QED
    BY ONLY <2>1, <2>2, <2>3 DEF Once
<1>12. ctl'[writer] = ctl[writer] /\ ctl'[deleter] = ctl[deleter]
  BY <1>1, <1>5
<1>13. /\ \A i \in DOMAIN reqs' : Right(reqs'[i])
       /\ Writes(reqs', ctl'[writer]) /\ Appending(ctl'[writer]) /\ Deletes(ctl'[deleter])
  BY <1>5, <1>12 DEF AnsInv, Answers
<1> QED
  BY <1>2, <1>5, <1>9, <1>10, <1>11, <1>13, Renamed DEF Hold

\* The writer starts, with nothing of another APPEND under way.
LEMMA AnsWriteStart ==
  ASSUME AnsInv, NEW w \in Workers, WorkWriteStart(w)
  PROVE  Answers'
<1> USE Numbers
<1>1. w = writer /\ ctl[writer].haswork /\ ~ctl[writer].workdone
  <2>1. HasWork(w, "write")
    BY Zenon DEF WorkWriteStart
  <2> QED
    BY Zenon, <2>1, WhoWorks DEF HasWork
<1>2. /\ conn' = conn /\ reqs' = reqs /\ readq' = readq /\ ctl' = ctl
      /\ log' = log /\ freed' = freed /\ next' = next
      /\ pend' = [id |-> ctl[writer].work.id, n |-> ctl[writer].work.n]
  BY Zenon, <1>1 DEF WorkWriteStart, Store!AppendStart, netvars, dispatch
<1>3. (\A i \in DOMAIN reqs : Right(reqs[i]))' /\ Hold(reqs, readq, ctl)'
  BY <1>2, StoreMoves
<1>4. Writes(reqs, ctl[writer])' /\ Deletes(ctl[deleter])'
  BY Zenon, <1>2 DEF AnsInv, Answers, Writes, Open, Deletes
<1>5. Appending(ctl[writer])'
  BY <1>1, <1>2 DEF AnsInv, Answers, Appending
<1> QED
  BY <1>3, <1>4, <1>5 DEF Answers

\* The blocks are in the store: storage_nextblock is now the block after them.
LEMMA AnsWriteDone ==
  ASSUME AnsInv, NEW w \in Workers, WorkWriteDone(w)
  PROVE  Answers'
<1> USE Numbers
<1>1. w = writer /\ ctl[writer].haswork /\ ~ctl[writer].workdone
  <2>1. HasWork(w, "write")
    BY Zenon DEF WorkWriteDone
  <2> QED
    BY Zenon, <2>1, WhoWorks DEF HasWork
<1>2. Finish(writer, NoData) /\ NoData \in Int
  BY <1>1 DEF WorkWriteDone, NoData
<1>3. /\ conn' = conn /\ reqs' = reqs /\ readq' = readq
      /\ \A v \in Workers \ {writer} : ctl'[v] = ctl[v]
      /\ ctl'[writer].haswork = ctl[writer].haswork /\ ctl'[writer].workdone = TRUE
      /\ ctl'[writer].work = ctl[writer].work
  BY Zenon, <1>2, Finished
<1>4. /\ pend # Store!NoAppend
      /\ next' = next + pend.n /\ freed' = freed /\ pend' = Store!NoAppend
      /\ log' = [b \in DOMAIN log \cup {c \in next .. next + pend.n - 1 : c >= freed} |->
                   IF b < next THEN log[b] ELSE pend.id]
  BY Zenon DEF WorkWriteDone, Store!AppendDone, Store!Grown
<1>5. \A b \in DOMAIN log : b \in DOMAIN log' /\ log'[b] = log[b]
  BY Zenon, <1>4 DEF AnsInv, OwedInv, StoreOK
<1>6. (\A i \in DOMAIN reqs : Right(reqs[i]))' /\ Hold(reqs, readq, ctl)'
  BY <1>3, <1>4, <1>5, StoreMoves
<1>7. Writes(reqs, ctl[writer])' /\ Deletes(ctl[deleter])'
  BY Zenon, <1>3 DEF AnsInv, Answers, Writes, Open, Deletes
<1>8. next = ctl[writer].work.blkno
      /\ pend = [id |-> ctl[writer].work.id, n |-> ctl[writer].work.n]
  BY Zenon, <1>1, <1>4 DEF AnsInv, Answers, Appending
<1>9. Appending(ctl[writer])'
  BY <1>3, <1>4, <1>8 DEF Appending
<1> QED
  BY Zenon, <1>6, <1>7, <1>9 DEF Answers

\* storage_delete: what it takes away is freed.
LEMMA AnsDelete ==
  ASSUME AnsInv, NEW w \in Workers, WorkDelete(w)
  PROVE  Answers'
<1> USE Numbers
<1>1. w = deleter
  <2>1. HasWork(w, "delete")
    BY Zenon DEF WorkDelete
  <2> QED
    BY Zenon, <2>1, WhoWorks
<1>2. Finish(deleter, NoData) /\ NoData \in Int
  BY <1>1 DEF WorkDelete, NoData
<1>3. /\ conn' = conn /\ reqs' = reqs /\ readq' = readq
      /\ \A v \in Workers \ {deleter} : ctl'[v] = ctl[v]
      /\ ctl'[deleter].haswork = ctl[deleter].haswork
      /\ ctl'[deleter].work = ctl[deleter].work
  BY Zenon, <1>2, Finished
<1> DEFINE k == ctl[deleter].work.blkno
<1>4. /\ freed' = (IF k > freed THEN k ELSE freed)
      /\ log' = [c \in {x \in DOMAIN log : x >= freed'} |-> log[c]]
      /\ next' = next /\ pend' = pend
  BY Zenon, <1>1 DEF WorkDelete, Store!Free
<1>5. k \in Nat /\ freed \in Nat /\ \A b \in DOMAIN log : b \in Nat
  BY Zenon, Types DEF AnsInv, OwedInv, StoreOK, Ctl, Job
<1> HIDE DEF k
<1>6. /\ \A b \in Nat : b < freed => b < freed'
      /\ \A b \in DOMAIN log : b < freed' \/ (b \in DOMAIN log' /\ log'[b] = log[b])
  BY <1>4, <1>5
<1>7. (\A i \in DOMAIN reqs : Right(reqs[i]))' /\ Hold(reqs, readq, ctl)'
  BY <1>3, <1>6, StoreMoves
<1>8. Writes(reqs, ctl[writer])' /\ Appending(ctl[writer])' /\ Deletes(ctl[deleter])'
  BY Zenon, <1>3, <1>4 DEF AnsInv, Answers, Writes, Open, Appending, Deletes
<1> QED
  BY <1>7, <1>8 DEF Answers

\* workdone: the request of the thread is the only one that changes, and it is answered
\* for the first time.
LEMMA AnsWorkDone ==
  ASSUME SetFacts, AnsInv, WorkDone
  PROVE  Answers'
<1> USE Numbers
<1>0. OwedInv /\ ctl \in [Workers -> Ctl] /\ readq \in Seq(Read)
      /\ readers_idle \in Seq(Readers) /\ spair \in Seq(Workers)
  BY Zenon, Types DEF AnsInv
<1> DEFINE w == Head(spair)
           c == [ctl EXCEPT ![w] = TakenBack(w)]
           ok == assertOK /\ ctl[w].haswork /\ ctl[w].workdone
           id == ctl[w].work.id
           r == reqs[id]
<1>1. /\ spair # <<>>
      /\ reqs' = [reqs EXCEPT ![id] = Response(w)]
      /\ w < nreaders => PokeReadq(c, readq, Append(readers_idle, w), ok)
      /\ ~(w < nreaders) => ctl' = c /\ readq' = readq
      /\ conn' = conn /\ log' = log /\ next' = next /\ freed' = freed /\ pend' = pend
  BY Zenon DEF WorkDone, netvars, store
<1>2. /\ w \in Workers /\ ctl[w].haswork /\ ctl[w].workdone /\ assertOK
  <2>1. Distinct(spair) /\ Elems(spair) = Done(ctl) /\ assertOK
    BY Zenon, <1>0 DEF OwedInv, Work0
  <2>2. w \in Workers /\ w \in Done(ctl)
    BY <1>0, <1>1, <2>1, TailElems
  <2> QED
    BY Zenon, <2>1, <2>2 DEF Done
<1>3. /\ c \in [Workers -> Ctl] /\ c[w].haswork = FALSE
      /\ \A v \in Workers \ {w} : c[v] = ctl[v]
  <2>1. TakenBack(w) \in Ctl /\ TakenBack(w).haswork = FALSE
    BY Zenon, <1>0, <1>2, TakenBackCtl
  <2> HIDE DEF w
  <2> QED
    BY <1>0, <1>2, <2>1
<1>4. ok = TRUE
  BY Zenon, <1>2
<1>5. Response(w) = IF ctl[w].work.op = "read"
                    THEN Answer(r, IF ctl[w].data = NoData THEN 1 ELSE 0, ctl[w].data)
                    ELSE IF ctl[w].work.op = "write" THEN Answer(r, 0, next) ELSE r
  BY Zenon DEF Response
<1>6. reqs \in Seq(Req) /\ \A i \in DOMAIN reqs : reqs[i] \in Req
  <2>1. reqs \in Seq(Req)
    BY Zenon, <1>0 DEF OwedInv, ReqsOK
  <2> QED
    BY <2>1
<1> HIDE DEF w, c, ok
<1>7. /\ DOMAIN reqs' = DOMAIN reqs
      /\ \A i \in DOMAIN reqs : i # id => reqs'[i] = reqs[i]
      /\ id \in DOMAIN reqs => reqs'[id] = Response(w)
  BY <1>1, <1>6
<1>8. Queued(reqs, readq) /\ BeingRead(reqs, ctl) /\ Once(readq, ctl)
  BY Zenon DEF AnsInv, Answers, Hold
<1>9. CASE w \in Readers
  <2>1. /\ ctl[w].work.op = "read" /\ IsGet(reqs, id, ctl[w].work.blkno)
        /\ Got(ctl[w].work.blkno, r.must, ctl[w].data)
    BY Zenon, <1>2, <1>8, <1>9 DEF BeingRead, IsRead
  <2>2. id \in DOMAIN reqs /\ r \in Req /\ r.answers = <<>> /\ r.conn = conn /\ r.type = "get"
        /\ r.blkno = ctl[w].work.blkno
    BY <1>6, <2>1 DEF IsGet, Open
  <2>3. /\ Response(w).type = "get" /\ Response(w).blkno = r.blkno
        /\ Response(w).must = r.must /\ Response(w).value = ctl[w].data
        /\ Response(w).answers = <<Response(w).conn>>
    <3> DEFINE st == IF ctl[w].data = NoData THEN 1 ELSE 0
    <3>1. Response(w) = Answer(r, st, ctl[w].data)
      BY Zenon, <1>5, <2>1
    <3> HIDE DEF r, st
    <3>2. Unanswered(r)
      BY ONLY <2>2 DEF Unanswered
    <3>3. AnsweredAs(Response(w), r, st, ctl[w].data)
      BY ONLY <3>1, <3>2, AnsweredRecord
    <3> QED
      BY ONLY <2>2, <3>1, <3>3 DEF AnsweredAs
  <2>4. Right(Response(w))
    BY Zenon, <2>1, <2>2, <2>3 DEF Right, Got
  <2>5. \A i \in DOMAIN reqs' : Right(reqs'[i])
    BY Zenon, <1>7, <2>4 DEF AnsInv, Answers
  <2>6. Hold(reqs, readq, c)
    BY ZenonT(60), <1>3, <1>8 DEF Hold, BeingRead, Once
  <2>7. \A i \in DOMAIN readq : readq[i].id \in DOMAIN reqs' /\ reqs'[readq[i].id] = reqs[readq[i].id]
    <3>1. \A i \in DOMAIN readq : readq[i].id \in DOMAIN reqs /\ readq[i].id # id
      BY Zenon, <1>2, <1>8, <1>9 DEF Queued, IsGet, Open, Once
    <3> QED
      BY Zenon, <1>7, <3>1
  <2>8. \A v \in Readers : c[v].haswork =>
          c[v].work.id \in DOMAIN reqs' /\ reqs'[c[v].work.id] = reqs[c[v].work.id]
    <3>1. \A v \in Readers : c[v].haswork => v # w /\ c[v] = ctl[v]
      BY Zenon, <1>3
    <3>2. \A v \in Readers : v # w /\ ctl[v].haswork =>
             ctl[v].work.id \in DOMAIN reqs /\ ctl[v].work.id # id
      BY Zenon, <1>2, <1>8, <1>9 DEF BeingRead, IsRead, IsGet, Open, Once
    <3> QED
      BY ZenonT(60), <1>7, <3>1, <3>2
  <2>9. Hold(reqs', readq, c)
    <3> HIDE DEF c
    <3>1. Same(reqs, reqs', readq, c)
      BY ONLY <2>7, <2>8, Zenon DEF Same
    <3> QED
      BY ONLY <2>6, <3>1, SameRequests
  <2> DEFINE idle == Append(readers_idle, w)
  <2>10. idle \in Seq(Readers) /\ Distinct(idle) /\ Elems(idle) = Idle(c)
    <3>1. Distinct(readers_idle) /\ Elems(readers_idle) = Idle(ctl)
      BY Zenon, <1>0 DEF OwedInv, Work0
    <3>2. w \notin Idle(ctl) /\ Idle(c) = Idle(ctl) \cup {w}
      BY Zenon, <1>2, <1>3, <1>9 DEF Idle
    <3> QED
      BY <1>0, <1>9, <3>1, <3>2, AppendElems
  <2>11. PokeReadq(c, readq, idle, ok)
    BY Zenon, <1>1, <1>2, <1>9
  <2> HIDE DEF idle
  <2>12. Hold(reqs', readq', ctl')
    BY Zenon, <1>0, <1>3, <1>4, <2>9, <2>10, <2>11, PokeHolds
  <2>13. ctl'[writer] = c[writer] /\ ctl'[deleter] = c[deleter]
    BY Zenon, <1>0, <1>3, <1>4, <2>10, <2>11, OwedPoke
  <2>14. ctl'[writer] = ctl[writer] /\ ctl'[deleter] = ctl[deleter]
    BY <1>3, <1>9, <2>13
  <2>15. Writes(reqs, ctl[writer]) /\ Appending(ctl[writer]) /\ Deletes(ctl[deleter])
    BY Zenon DEF AnsInv, Answers
  <2>16. Writes(reqs', ctl[writer])
    <3>1. ctl[writer].haswork => ctl[writer].work.id # id
      BY Zenon, <2>2, <2>15 DEF Writes
    <3> QED
      BY <1>7, <2>15, <3>1 DEF Writes, Open
  <2> QED
    BY Zenon, <1>1, <2>5, <2>12, <2>14, <2>15, <2>16, Renamed
<1>10. CASE w = writer
  <2>1. /\ ctl[w].work.op = "write" /\ Open(reqs, id) /\ r.type = "append"
        /\ r.blkno = ctl[w].work.blkno /\ r.n = ctl[w].work.n
        /\ next = ctl[w].work.blkno + ctl[w].work.n /\ pend = Store!NoAppend
    BY Zenon, <1>2, <1>10 DEF AnsInv, Answers, Writes, Appending
  <2>2. id \in DOMAIN reqs /\ r \in Req /\ r.answers = <<>> /\ r.conn = conn
    BY <1>6, <2>1 DEF Open
  <2>3. /\ Response(w).type = "append" /\ Response(w).blkno = r.blkno /\ Response(w).n = r.n
        /\ Response(w).value = next /\ Response(w).answers = <<Response(w).conn>>
    <3>1. Response(w) = Answer(r, 0, next) /\ r.type = "append"
      BY <1>5, <2>1
    <3> HIDE DEF r
    <3>2. Unanswered(r)
      BY ONLY <2>2 DEF Unanswered
    <3>3. AnsweredAs(Response(w), r, 0, next)
      BY ONLY <3>1, <3>2, AnsweredRecord
    <3> QED
      BY ONLY <2>2, <3>1, <3>3 DEF AnsweredAs
  <2>4. Right(Response(w))
    BY Zenon, <2>1, <2>3 DEF Right
  <2>5. \A i \in DOMAIN reqs' : Right(reqs'[i])
    BY <1>7, <2>4 DEF AnsInv, Answers
  <2>6. ctl' = c /\ readq' = readq
    BY <1>1, <1>2, <1>10
  <2>7. \A v \in Readers : c[v] = ctl[v]
    BY <1>3, <1>10
  <2>8. Hold(reqs, readq, c)
    BY ZenonT(60), <1>8, <2>7 DEF Hold, BeingRead, Once
  <2>9. \A i \in DOMAIN readq : readq[i].id \in DOMAIN reqs' /\ reqs'[readq[i].id] = reqs[readq[i].id]
    <3>1. \A i \in DOMAIN readq : readq[i].id \in DOMAIN reqs /\ readq[i].id # id
      BY Zenon, <1>8, <2>1 DEF Queued, IsGet, Open
    <3> QED
      BY Zenon, <1>7, <3>1
  <2>10. \A v \in Readers : c[v].haswork =>
          c[v].work.id \in DOMAIN reqs' /\ reqs'[c[v].work.id] = reqs[c[v].work.id]
    <3>1. \A v \in Readers : c[v].haswork => c[v].work.id \in DOMAIN reqs /\ c[v].work.id # id
      BY ZenonT(60), <1>8, <2>1, <2>7 DEF BeingRead, IsRead, IsGet, Open
    <3> QED
      BY Zenon, <1>7, <3>1
  <2>11. Hold(reqs', readq', ctl')
    <3>1. Hold(reqs', readq, c)
      <4> HIDE DEF c
      <4>1. Same(reqs, reqs', readq, c)
        BY ONLY <2>9, <2>10, Zenon DEF Same
      <4> QED
        BY ONLY <2>8, <4>1, SameRequests
    <3> QED
      BY ONLY <2>6, <3>1
  <2>12. ~ctl'[writer].haswork /\ ctl'[deleter] = ctl[deleter]
    BY Zenon, <1>3, <1>10, <2>6
  <2>13. Writes(reqs', ctl'[writer]) /\ Appending(ctl'[writer]) /\ Deletes(ctl'[deleter])
    BY Zenon, <2>1, <2>12 DEF Writes, Appending, AnsInv, Answers
  <2> QED
    BY <1>1, <2>5, <2>11, <2>13, Renamed
<1>11. CASE w = deleter
  <2>1. ctl[w].work.op = "delete"
    BY Zenon, <1>2, <1>11 DEF AnsInv, Answers, Deletes
  <2>2. Response(w) = r
    BY Zenon, <1>5, <2>1
  <2>3. reqs' = reqs
    <3>1. \A i \in DOMAIN reqs : reqs'[i] = reqs[i]
      BY <1>7, <2>2
    <3> QED
      BY <1>1, <1>6, <1>7, <3>1
  <2>4. ctl' = c /\ readq' = readq
    BY <1>1, <1>2, <1>11
  <2>5. /\ \A v \in Readers : ctl'[v] = ctl[v]
        /\ ctl'[writer] = ctl[writer] /\ ~ctl'[deleter].haswork
    BY Zenon, <1>3, <1>11, <2>4
  <2>6. Hold(reqs', readq', ctl')
    <3>1. Hold(reqs, readq, ctl)
      BY <1>8 DEF Hold
    <3>2. Hold(reqs, readq, ctl')
      BY ONLY <2>5, <3>1, SameReaders
    <3> QED
      BY ONLY <2>3, <2>4, <3>2
  <2>7. /\ \A i \in DOMAIN reqs' : Right(reqs'[i])
        /\ Writes(reqs', ctl'[writer]) /\ Appending(ctl'[writer]) /\ Deletes(ctl'[deleter])
    BY Zenon, <2>3, <2>5 DEF AnsInv, Answers, Deletes
  <2> QED
    BY Zenon, <1>1, <2>6, <2>7, Renamed
<1> QED
  BY <1>2, <1>9, <1>10, <1>11

\* The steps of a thread that is going to sleep or to die, and of the event loop when
\* it closes or loses the connection.
LEMMA AnsQuiet ==
  ASSUME AnsInv,
         \/ \E w \in Workers : WorkSleep(w) \/ WorkDie(w)
         \/ WorkerKill \/ WorkerJoin \/ Close \/ BadRequest \/ WriteFailed \/ UNCHANGED vars
  PROVE  Answers'
<1>0. ctl \in [Workers -> Ctl]
  BY Zenon, Types DEF AnsInv
<1>1. /\ reqs' = reqs /\ conn' = conn /\ (readq' = readq \/ readq' = <<>>)
      /\ log' = log /\ next' = next /\ freed' = freed /\ pend' = pend
  BY Zenon DEF WorkSleep, WorkDie, WorkerKill, WorkerJoin, Close, BadRequest, WriteFailed,
         DropConnection, vars, netvars, dispatch, store
<1>2. \A v \in Workers : /\ ctl'[v].haswork = ctl[v].haswork
                         /\ ctl'[v].workdone = ctl[v].workdone
                         /\ ctl'[v].work = ctl[v].work /\ ctl'[v].data = ctl[v].data
  <2>1. CASE ctl' = ctl
    BY Zenon, <2>1
  <2>2. CASE \E w \in Workers : WorkSleep(w) \/ WorkDie(w)
    <3>1. PICK w \in Workers, pc \in {"wait", "dead"} : ctl' = [ctl EXCEPT ![w].pc = pc]
      BY Zenon, <2>2 DEF WorkSleep, WorkDie
    <3> QED
      BY <1>0, <3>1 DEF Ctl
  <2>3. CASE WorkerKill
    BY <1>0, <2>3 DEF WorkerKill, Ctl
  <2> QED
    BY Zenon, <2>1, <2>2, <2>3 DEF WorkerJoin, Close, BadRequest, WriteFailed, vars
<1> QED
  BY Zenon, <1>1, <1>2, AnsSame

\* At first there are no requests and nobody works.
LEMMA AnsInit ==
  ASSUME SetFacts, Init
  PROVE  AnsInv
<1> USE Numbers
<1>1. OwedInv
  BY Zenon, OwedInit
<1>2. reqs = <<>> /\ readq = <<>> /\ ctl = [w \in Workers |-> NewWorker] /\ pend = Store!NoAppend
  BY Zenon DEF Init, Store!Init
<1>3. \A w \in Workers : ~ctl[w].haswork
  BY Zenon, <1>2 DEF NewWorker
<1>4. DOMAIN reqs = {} /\ DOMAIN readq = {}
  BY <1>2
<1>5. Hold(reqs, readq, ctl)
  BY Zenon, <1>3, <1>4 DEF Hold, Queued, BeingRead, Once
<1>6. Writes(reqs, ctl[writer]) /\ Appending(ctl[writer]) /\ Deletes(ctl[deleter])
  BY <1>2, <1>3 DEF Writes, Appending, Deletes
<1> QED
  BY <1>1, <1>4, <1>5, <1>6 DEF AnsInv, Answers

\* Every step of the event loop and of the threads keeps the inductive invariant.
LEMMA AnsNext ==
  ASSUME SetFacts, AnsInv, [Next]_vars
  PROVE  AnsInv'
<1>1. OwedInv'
  BY Zenon, OwedNext DEF AnsInv
<1> SUFFICES Answers'
  BY Zenon, <1>1 DEF AnsInv
<1>2. ASSUME NEW w \in Workers, Work(w) PROVE Answers'
  BY <1>2, AnsQuiet, AnsRead, AnsWriteStart, AnsWriteDone, AnsDelete DEF Work
<1>3. CASE Client
  <2>1. CASE RequestParams \/ \E b \in 0 .. next : RequestFree(b)
    BY <2>1, AnsParamsFree
  <2>2. ASSUME NEW b \in 0 .. MaxBlk - 1, RequestGet(b) PROVE Answers'
    BY <2>2, AnsGet
  <2>3. ASSUME NEW b \in 0 .. MaxBlk, NEW n \in 1 .. MaxAppend, RequestAppend(b, n)
        PROVE  Answers'
    BY <2>3, AnsAppend
  <2>4. CASE BadRequest \/ WriteFailed
    BY <2>4, AnsQuiet
  <2>5. CASE Accept
    BY Zenon, <2>5, AnsAccept
  <2> QED
    BY <1>3, <2>1, <2>2, <2>3, <2>4, <2>5 DEF Client
<1>4. CASE WorkerKill \/ WorkerJoin \/ Close \/ UNCHANGED vars
  BY <1>4, AnsQuiet
<1>5. CASE WorkDone
  BY Zenon, <1>5, AnsWorkDone
<1> QED
  BY <1>2, <1>3, <1>4, <1>5 DEF Next

-----------------------------------------------------------------------------
(***************************************************************************)
(* The theorems.                                                           *)
(***************************************************************************)
INSTANCE SetFactsProofs

\* The invariant holds throughout every run of the dispatcher and its threads.
LEMMA AnsSafe == Spec => []AnsInv
<1>1. Init => AnsInv
  BY SetFactsHold, AnsInit
<1>2. AnsInv /\ [Next]_vars => AnsInv'
  BY SetFactsHold, AnsNext
<1> QED
  BY <1>1, <1>2, PTL DEF Spec

\* For any number of reader threads: D->npending counts exactly the responses that are
\* still owed, the dispatcher's idea of who is busy is the threads' own, and the
\* assert()s of worker_assign and worker_getdone hold, across dropped connections.
THEOREM LbsOwesResponses == Spec => []OwedResponses
<1>1. AnsInv => OwedResponses
  BY OwedMeans DEF AnsInv
<1> QED
  BY <1>1, AnsSafe, PTL

\* For any number of reader threads: a request is answered at most once and to the
\* connection it came from; a GET with the block, if the store had it when the GET was
\* read and no FREE has covered it since; and an APPEND that succeeds with the number
\* of the block after its own, which storage_nextblock gives when the response is made.
THEOREM LbsAnswersRight == Spec => []AnsweredRight
<1>1. AnsInv => AnsweredRight
  BY Zenon DEF AnsInv, Answers, AnsweredRight, Right
<1> QED
  BY <1>1, AnsSafe, PTL
=============================================================================
