----------------------- MODULE LbsDynamodbLocalProofs -----------------------
(***************************************************************************)
(* What concerns one part of the system: the functions that handlers call, *)
(* which change the state of their process only; DynamoDB, which serves a  *)
(* request; a request that times out; a process that ends. And what the    *)
(* invariant says: it holds at first, and it implies the properties of     *)
(* LbsDynamodb.                                                            *)
(***************************************************************************)
EXTENDS LbsDynamodbInvariant, TLAPS

\* The provers of a step that names none, and the seconds each has.
USE SMTT(30), ZenonT(30), Z3T(30)

(***************************************************************************)
(* writemetadata and poke                                                  *)
(***************************************************************************)
\* A tuple and a process ID make a metadata item (writemetadata encodes one).
LEMMA ItemType ==
    ASSUME NEW t \in MTuple, NEW pid \in Nat
    PROVE  Item(t, pid) \in ItemRec
  BY DEF Item, MTuple, ItemRec

\* writemetadata leaves a process in a state of the right type.
LEMMA WriteType ==
    ASSUME NEW s \in Handling
    PROVE  writemetadata(s) \in Handling
  <1> DEFINE x == Item(s.stored, s.pid)
             y == Item(s.latest, s.pid)
             o == <<"icas", <<x, y>>>>
             l == [s.latest EXCEPT !.cb = NoCallback, !.generation = @ + 1]
  <1>1. x \in ItemRec /\ y \in ItemRec
    BY ItemType DEF Handling, ProcWith
  <1>2. o \in Outs
    BY <1>1 DEF Outs
  <1>3. s.latest \in MTuple /\ s.write_inprogress \in BOOLEAN
    BY DEF Handling, ProcWith
  <1>4. l \in MTuple
    <2>1. s.latest.generation + 1 \in Nat
      BY <1>3 DEF MTuple
    <2> QED
      BY Zenon, <1>3, <2>1 DEF MTuple
  <1>5. writemetadata(s) =
          IF s.write_inprogress THEN [s EXCEPT !.write_wanted = TRUE]
          ELSE [s EXCEPT !.write_inprogress = TRUE, !.write_wanted = FALSE,
                         !.storing = s.latest, !.latest = l, !.out = s.out \cup {o}]
    BY Zenon DEF writemetadata, Handling, ProcWith, MTuple
  <1> HIDE DEF x, y, o, l
  <1>6. [s EXCEPT !.write_wanted = TRUE] \in Handling
    BY Zenon DEF Handling, ProcWith
  <1>7. [s EXCEPT !.write_inprogress = TRUE, !.write_wanted = FALSE,
                  !.storing = s.latest, !.latest = l, !.out = s.out \cup {o}] \in Handling
    BY Zenon, <1>2, <1>4 DEF Handling, ProcWith
  <1> QED
    BY <1>5, <1>6, <1>7

\* The state t after writemetadata in the state s.
Wrote(s, t) ==
    /\ t.phase = s.phase /\ t.pid = s.pid /\ t.conn = s.conn /\ t.gets = s.gets
    /\ t.nextblk = s.nextblk /\ t.lastblk = s.lastblk /\ t.append = s.append
    /\ t.N = s.N /\ t.M = s.M /\ t.ip = s.ip /\ t.flushed = s.flushed
    /\ t.shuttingdown = s.shuttingdown /\ t.shutdown = s.shutdown
    /\ t.stored = s.stored /\ t.write_inprogress
    /\ IF s.write_inprogress
       THEN t.write_wanted /\ t.storing = s.storing /\ t.latest = s.latest /\ t.out = s.out
       ELSE /\ ~t.write_wanted /\ t.storing = s.latest
            /\ t.latest.nextblk = s.latest.nextblk /\ t.latest.lastblk = s.latest.lastblk
            /\ t.latest.deletedto = s.latest.deletedto
            /\ t.latest.generation = s.latest.generation + 1 /\ t.latest.cb = NoCallback
            /\ t.out = s.out \cup {<<"icas", <<Item(s.stored, s.pid),
                                               Item(s.latest, s.pid)>>>>}

\* What writemetadata sets: it sends the latest tuple if no write is in progress,
\* else it leaves a note that a write is wanted.
LEMMA WriteFields ==
    ASSUME NEW s \in Handling
    PROVE  Wrote(s, writemetadata(s))
  <1>1. CASE s.write_inprogress
    BY Zenon, <1>1 DEF Wrote, writemetadata, Handling, ProcWith
  <1>2. CASE ~s.write_inprogress
    BY Zenon, <1>2 DEF Wrote, writemetadata, Handling, ProcWith, MTuple
  <1> QED
    BY <1>1, <1>2

\* writemetadata keeps what holds of a process, and the write that the deleter
\* or the APPEND waits for is now in progress or wanted.
LEMMA WriteLocal ==
    ASSUME NEW s \in Handling, NEW t \in Handling, Wrote(s, t), Core(s)
    PROVE  /\ Local(t) /\ Kept(s, t) /\ Asks(s, t)
           /\ t.write_inprogress /\ (Later(t) # NoCallback => t.write_wanted)
  <1>1. Tuples(t)
    <2>1. CASE s.write_inprogress
      BY <2>1 DEF Wrote, Core, Tuples, Sent, Later, Stage, Now
    <2>2. CASE ~s.write_inprogress
      BY <2>2 DEF Wrote, Core, Tuples, Sent, Later, Stage, Now, Upto, NoCallback, Handling, ProcWith, MTuple, Appending
    <2> QED
      BY <2>1, <2>2
  <1>2. Appending(t)
    <2>1. CASE s.write_inprogress
      BY <2>1 DEF Wrote, Core, Appending, Later, Stage, Now
    <2>2. CASE ~s.write_inprogress
      BY <2>2 DEF Wrote, Core, Appending, Later, Stage, Now, NoCallback, Tuples
    <2> QED
      BY <2>1, <2>2
  <1>3. Deleting(t)
    <2>1. CASE s.write_inprogress
      BY <2>1 DEF Wrote, Core, Deleting, Limits
    <2>2. CASE ~s.write_inprogress
      BY <2>2 DEF Wrote, Core, Deleting, Limits, Tuples, Upto, Sent, Handling, ProcWith, MTuple
    <2> QED
      BY <2>1, <2>2
  <1>4. Asking(t)
    <2>1. CASE s.write_inprogress
      BY <2>1 DEF Wrote, Core, Asking
    <2>2. CASE ~s.write_inprogress
      BY <2>2 DEF Wrote, Core, Asking
    <2> QED
      BY <2>1, <2>2
  <1>5. Flushed(t)
    <2>1. CASE s.write_inprogress
      BY Zenon, <2>1 DEF Wrote, Flushed
    <2>2. CASE ~s.write_inprogress
      BY Zenon, <2>2 DEF Wrote, Core, Deleting, Flushed
    <2> QED
      BY <2>1, <2>2
  <1>6. Kept(s, t)
    BY Zenon DEF Wrote, Kept, Stage, Later, Now, NoCallback, Core, Appending, Handling, ProcWith
  <1>7. Asks(s, t)
    BY DEF Wrote, Asks, Handling, ProcWith
  <1> QED
    BY <1>1, <1>2, <1>3, <1>4, <1>6, <1>7, <1>5 DEF Local, Core, Wrote, Later, NoCallback

\* The least element of a set of numbers, as poke takes it of the DELETEs in
\* progress.
LEMMA LeastOf ==
    ASSUME SetFacts, NEW S \in SUBSET Nat, S # {}
    PROVE  Min(S) \in S /\ \A y \in S : Min(S) <= y
  <1>1. \E m \in S : \A n \in S : m <= n
    BY Zenon DEF SetFacts, LeastNatural
  <1> QED
    BY <1>1, Zenon DEF Min

\* The larger of two numbers, as in the room that poke computes.
LEMMA MaxOfTwo ==
    ASSUME NEW x \in Int, NEW y \in Int
    PROVE  /\ Max({x, y}) = IF x >= y THEN x ELSE y
           /\ Max({x, y}) \in Int
  <1>1. \E m \in {x, y} : \A n \in {x, y} : m >= n
    <2>1. CASE x >= y
      BY <2>1
    <2>2. CASE ~(x >= y)
      BY <2>2
    <2> QED
      BY <2>1, <2>2
  <1>2. Max({x, y}) \in {x, y} /\ \A n \in {x, y} : Max({x, y}) >= n
    BY <1>1, Zenon DEF Max
  <1> QED
    BY <1>2

\* The least of three numbers, as in the room that poke computes.
LEMMA MinOfThree ==
    ASSUME NEW x \in Int, NEW y \in Int, NEW z \in Int
    PROVE  LET m == Min({x, y, z}) IN m \in {x, y, z} /\ m <= x /\ m <= y /\ m <= z
  <1>1. \E m \in {x, y, z} : \A n \in {x, y, z} : m =< n
    <2>1. CASE x <= y /\ x <= z
      BY <2>1
    <2>2. CASE y <= x /\ y <= z
      BY <2>2
    <2>3. CASE z <= x /\ z <= y
      BY <2>3
    <2> QED
      BY <2>1, <2>2, <2>3
  <1>2. Min({x, y, z}) \in {x, y, z} /\ \A n \in {x, y, z} : Min({x, y, z}) =< n
    BY <1>1, Zenon DEF Min
  <1> QED
    BY <1>2

\* The DELETEs that may be made now.
Room(s) == Max({0, Min({s.N - s.M, MAXINPROGRESS - Cardinality(s.ip),
                        s.stored.deletedto + MAXUNRECORDED - s.M})})

\* The DELETEs that poke issues respect N and both its limits, and reach one of
\* them.
LEMMA RoomFacts ==
    ASSUME SetFacts, NEW s \in Handling, Limits(s)
    PROVE  /\ Room(s) \in Nat
           /\ Room(s) > 0 => /\ s.M + Room(s) <= s.N
                             /\ Cardinality(s.ip) + Room(s) <= MAXINPROGRESS
                             /\ s.M + Room(s) <= s.stored.deletedto + MAXUNRECORDED
           /\ \/ s.M + Room(s) >= s.N
              \/ Cardinality(s.ip) + Room(s) >= MAXINPROGRESS
              \/ s.M + Room(s) >= s.stored.deletedto + MAXUNRECORDED
  <1> DEFINE x == s.N - s.M
             y == MAXINPROGRESS - Cardinality(s.ip)
             z == s.stored.deletedto + MAXUNRECORDED - s.M
             m == Min({x, y, z})
  <1>1. s.N \in Nat /\ s.M \in Nat /\ s.stored.deletedto \in Nat
    BY DEF Handling, ProcWith, MTuple
  <1>2. Cardinality(s.ip) \in Nat
    BY DEF Limits, SetFacts, FiniteSize
  <1>3. x \in Int /\ y \in Int /\ z \in Int
    BY <1>1, <1>2, LbsDynamodbAssumption
  <1>4. m \in {x, y, z} /\ m <= x /\ m <= y /\ m <= z
    BY Zenon, <1>3, MinOfThree
  <1>5. m \in Int
    BY <1>3, <1>4
  <1>6. Room(s) = IF 0 >= m THEN 0 ELSE m
    BY <1>5, MaxOfTwo DEF Room
  <1> HIDE DEF m
  <1> QED
    BY <1>1, <1>2, <1>4, <1>5, <1>6, LbsDynamodbAssumption

\* The number of DELETEs that the loop of poke issues.
LEMMA RangeCount ==
    ASSUME SetFacts, NEW a \in Nat, NEW k \in Nat
    PROVE  IsFiniteSet(a .. a + k - 1) /\ Cardinality(a .. a + k - 1) = k
  <1> DEFINE b == a + k - 1
  <1>1. a \in Int /\ b \in Int /\ a <= b + 1 /\ b - a + 1 = k
    OBVIOUS
  <1>2. IntervalSize /\ RangeSize
    BY DEF SetFacts
  <1> HIDE DEF b
  <1>3. IsFiniteSet(a .. b)
    BY Zenon, <1>1, <1>2 DEF IntervalSize
  <1>4. Cardinality(a .. b) = b - a + 1
    BY Zenon, <1>1, <1>2 DEF RangeSize
  <1> QED
    BY <1>1, <1>3, <1>4 DEF b

\* The loop of poke that issues DELETEs keeps what holds of a process.  After
\* it no DELETE is left, one is in progress, or MAXUNRECORDED is reached.
LEMMA IssueLocal ==
    ASSUME SetFacts, NEW s \in Handling, Local(s), s.shuttingdown = 0
    PROVE  LET t == IssueDeletes(s) IN
           /\ t \in Handling /\ Local(t) /\ Kept(s, t) /\ Asks(s, t)
           /\ t.latest = s.latest /\ t.write_wanted = s.write_wanted
           /\ t.storing = s.storing /\ t.write_inprogress = s.write_inprogress
           /\ t.shuttingdown = 0 /\ t.flushed = s.flushed /\ t.shutdown = s.shutdown
           /\ \/ t.M >= t.N \/ t.ip # {}
              \/ s.ip = {} /\ s.M >= s.stored.deletedto + MAXUNRECORDED
  <1> DEFINE k == Room(s)
             new == s.M .. s.M + k - 1
             outs == {<<"delete", <<b>>>> : b \in new}
             t == IssueDeletes(s)
  <1>1. /\ s.M \in Nat /\ s.N \in Nat /\ s.ip \in SUBSET Nat /\ s.out \in SUBSET Outs
        /\ s.latest \in MTuple /\ s.stored \in MTuple /\ s.stored.deletedto \in Nat
        /\ s.latest.deletedto \in Nat
    BY DEF Handling, ProcWith, MTuple
  <1>2. /\ k \in Nat
        /\ k > 0 => /\ s.M + k <= s.N
                    /\ Cardinality(s.ip) + k <= MAXINPROGRESS
                    /\ s.M + k <= s.stored.deletedto + MAXUNRECORDED
        /\ \/ s.M + k >= s.N
           \/ Cardinality(s.ip) + k >= MAXINPROGRESS
           \/ s.M + k >= s.stored.deletedto + MAXUNRECORDED
    BY Zenon, RoomFacts DEF Local, Core, Deleting
  <1>3. t = [s EXCEPT !.M = s.M + k, !.ip = s.ip \cup new, !.out = s.out \cup outs]
    BY Zenon DEF IssueDeletes, Room, Handling, ProcWith
  <1> HIDE DEF k
  <1>4. new \subseteq Nat /\ outs \subseteq Outs
    BY <1>1, <1>2 DEF Outs
  <1>5. s.M + k \in Nat /\ s.ip \cup new \in SUBSET Nat /\ s.out \cup outs \in SUBSET Outs
    BY <1>1, <1>2, <1>4
  <1> HIDE DEF new, outs, t
  <1>6. t \in Handling
    BY ZenonT(60), <1>3, <1>5 DEF Handling, ProcWith
  <1>7. /\ t.phase = s.phase /\ t.pid = s.pid /\ t.conn = s.conn /\ t.gets = s.gets
        /\ t.nextblk = s.nextblk /\ t.lastblk = s.lastblk /\ t.append = s.append
        /\ t.N = s.N /\ t.M = s.M + k /\ t.ip = s.ip \cup new /\ t.flushed = s.flushed
        /\ t.shuttingdown = s.shuttingdown /\ t.shutdown = s.shutdown
        /\ t.stored = s.stored /\ t.storing = s.storing /\ t.latest = s.latest
        /\ t.write_inprogress = s.write_inprogress /\ t.write_wanted = s.write_wanted
        /\ t.out = s.out \cup outs
    BY Zenon, <1>3 DEF Handling, ProcWith
  <1>8. Tuples(t) /\ Appending(t)
    BY Zenon, <1>7 DEF Local, Core, Tuples, Appending, Sent, Stage, Later, Now
  <1>9. IsFiniteSet(t.ip) /\ Cardinality(t.ip) <= Cardinality(s.ip) + k
        /\ Cardinality(t.ip) \in Nat /\ Cardinality(s.ip) \in Nat
    <2>1. IsFiniteSet(new) /\ Cardinality(new) = k
      BY <1>1, <1>2, RangeCount DEF new
    <2>2. IsFiniteSet(s.ip)
      BY DEF Local, Core, Deleting, Limits
    <2>3. /\ IsFiniteSet(s.ip \cup new)
          /\ Cardinality(s.ip \cup new)
                = Cardinality(s.ip) + Cardinality(new) - Cardinality(s.ip \cap new)
      BY Zenon, <2>1, <2>2 DEF SetFacts, UnionSize
    <2>4. IsFiniteSet(s.ip \cap new)
      <3>1. s.ip \cap new \in SUBSET s.ip
        OBVIOUS
      <3> QED
        BY Zenon, <3>1, <2>2 DEF SetFacts, SubsetSize
    <2>5. /\ Cardinality(s.ip) \in Nat /\ Cardinality(s.ip \cap new) \in Nat
          /\ Cardinality(s.ip \cup new) \in Nat
      BY Zenon, <2>2, <2>3, <2>4 DEF SetFacts, FiniteSize
    <2> QED
      BY <1>2, <1>7, <2>1, <2>3, <2>5
  <1>10. \A b \in new : s.M <= b /\ b < s.M + k /\ b < s.N
    BY <1>1, <1>2 DEF new
  <1>11. Deleting(t)
    <2>1. Limits(t)
      BY <1>1, <1>2, <1>7, <1>9, LbsDynamodbAssumption DEF Local, Core, Deleting, Limits
    <2>2. \A b \in t.ip : b < t.M /\ b < t.N /\ t.latest.deletedto <= b
      <3> TAKE b \in t.ip
      <3>1. CASE b \in s.ip
        BY <3>1, <1>1, <1>2, <1>7 DEF Local, Core, Deleting
      <3>2. CASE b \in new
        BY <3>2, <1>1, <1>2, <1>4, <1>7, <1>10 DEF Local, Core, Deleting
      <3> QED
        BY <3>1, <3>2, <1>7
    <2>3. t.flushed <= t.latest.deletedto /\ t.latest.deletedto <= t.M
      BY <1>1, <1>2, <1>7 DEF Local, Core, Deleting
    <2> QED
      BY <2>1, <2>2, <2>3, <1>7 DEF Local, Core, Deleting
  <1>12. Flushed(t)
    BY Zenon, <1>7 DEF Local, Flushed
  <1>13. Asking(t)
    <2> SUFFICES ASSUME NEW o \in t.out
                 PROVE  /\ o[1] \in {"icas", "put", "delete", "get", "getc"}
                        /\ o[1] = "icas" =>
                              /\ t.write_inprogress
                              /\ o[2] = <<Item(t.stored, t.pid), Item(t.storing, t.pid)>>
                        /\ o[1] = "put" => t.append.old <= o[2][1] /\ o[2][1] < t.nextblk
                        /\ o[1] = "delete" => o[2][1] \in t.ip
      BY DEF Asking
    <2>1. CASE o \in s.out
      BY <2>1, <1>7 DEF Local, Core, Asking
    <2>2. CASE o \in outs
      BY <2>2, <1>7 DEF outs
    <2> QED
      BY <2>1, <2>2, <1>7
  <1>14. Kept(s, t)
    BY Zenon, <1>7 DEF Kept, Stage, Later, Now
  <1>15. Asks(s, t)
    <2>1. t.ip \ s.ip \subseteq new
      BY <1>7
    <2>2. \A b \in new : b \notin s.ip
      BY <1>1, <1>10 DEF Local, Core, Deleting
    <2>3. \A o \in t.out \ s.out : \E b \in t.ip \ s.ip : o = <<"delete", <<b>>>>
      BY Zenon, <2>2, <1>7 DEF outs
    <2>4. \A b \in t.ip \ s.ip : <<"delete", <<b>>>> \in t.out /\ b >= s.M
      <3>1. \A b \in new : <<"delete", <<b>>>> \in t.out
        BY Zenon, <1>7 DEF outs
      <3>2. \A b \in new : b >= s.M
        BY <1>1, <1>4, <1>10
      <3> QED
        BY Zenon, <2>1, <3>1, <3>2
    <2>5. s.M .. t.M - 1 \subseteq new
      BY <1>1, <1>2, <1>7 DEF new
    <2>6. s.M <= t.M
      BY <1>1, <1>2, <1>7
    <2>7. \A b \in s.M .. t.M - 1 : b \in t.ip /\ b \notin s.ip
      BY Zenon, <2>2, <2>5, <1>7
    <2>8. s.out \subseteq t.out /\ s.ip \subseteq t.ip
      BY Zenon, <1>7
    <2> QED
      BY Zenon, <2>3, <2>4, <2>6, <2>7, <2>8, <1>7 DEF Asks
  <1>16. \/ t.M >= t.N \/ t.ip # {}
         \/ s.ip = {} /\ s.M >= s.stored.deletedto + MAXUNRECORDED
    <2> SUFFICES ASSUME t.ip = {}, ~(t.M >= t.N)
                 PROVE  s.ip = {} /\ s.M >= s.stored.deletedto + MAXUNRECORDED
      OBVIOUS
    <2>1. s.ip = {} /\ new = {}
      BY <1>7
    <2>2. k = 0
      BY <2>1, <1>1, <1>2 DEF new
    <2>3. Cardinality(s.ip) = 0
      BY <2>1 DEF SetFacts, EmptySize
    <2> QED
      BY <2>1, <2>2, <2>3, <1>1, <1>2, <1>7, LbsDynamodbAssumption
  <1> QED
    BY <1>6, <1>7, <1>8, <1>11, <1>13, <1>14, <1>15, <1>16, <1>12 DEF Local, Core, t

\* Two parts of a handler keep what each of them keeps.
LEMMA KeptTrans ==
    ASSUME NEW s \in Handling, NEW t \in Handling, NEW u \in Handling,
           Kept(s, t), Kept(t, u)
    PROVE  Kept(s, u)
  <1>1. /\ s.write_inprogress \in BOOLEAN /\ t.write_inprogress \in BOOLEAN
        /\ u.write_inprogress \in BOOLEAN
    BY DEF Handling, ProcWith
  <1> QED
    BY Zenon, <1>1 DEF Kept

\* Two parts of a handler ask for what one of them asks for.
LEMMA AsksTrans ==
    ASSUME NEW s \in Handling, NEW t \in Handling, NEW u \in Handling,
           Kept(s, t), Kept(t, u), Asks(s, t), Asks(t, u)
    PROVE  Asks(s, u)
  <1>1. /\ s.M \in Nat /\ t.M \in Nat /\ u.M \in Nat
        /\ s.ip \subseteq Nat /\ t.ip \subseteq Nat /\ u.ip \subseteq Nat
    BY DEF Handling, ProcWith
  <1>2. s.out \subseteq u.out /\ s.ip \subseteq u.ip /\ s.M <= u.M
    BY <1>1 DEF Asks
  <1>3. \A o \in u.out \ s.out :
           \/ o[1] = "icas" /\ ~s.write_inprogress
           \/ \E b \in u.ip \ s.ip : o = <<"delete", <<b>>>>
    <2> TAKE o \in u.out \ s.out
    <2>1. CASE o \in t.out
      <3>1. \/ o[1] = "icas" /\ ~s.write_inprogress
            \/ \E b \in t.ip \ s.ip : o = <<"delete", <<b>>>>
        BY Zenon, <2>1 DEF Asks
      <3>2. t.ip \subseteq u.ip
        BY DEF Asks
      <3> QED
        BY Zenon, <3>1, <3>2
    <2>2. CASE o \notin t.out
      <3>1. \/ o[1] = "icas" /\ ~t.write_inprogress
            \/ \E b \in u.ip \ t.ip : o = <<"delete", <<b>>>>
        BY Zenon, <2>2 DEF Asks
      <3>2. s.ip \subseteq t.ip
        BY DEF Asks
      <3>3. ~t.write_inprogress => ~s.write_inprogress
        BY Zenon DEF Kept
      <3> QED
        BY Zenon, <3>1, <3>2, <3>3
    <2> QED
      BY <2>1, <2>2
  <1>4. u.write_inprogress /\ ~s.write_inprogress =>
           <<"icas", <<Item(u.stored, u.pid), Item(u.storing, u.pid)>>>> \in u.out
    BY Zenon DEF Asks, Kept
  <1>5. \A b \in s.M .. u.M - 1 : b \in u.ip /\ b \notin s.ip
    <2> TAKE b \in s.M .. u.M - 1
    <2>1. CASE b < t.M
      <3>1. b \in s.M .. t.M - 1
        BY <2>1, <1>1
      <3> QED
        BY Zenon, <3>1 DEF Asks
    <2>2. CASE ~(b < t.M)
      <3>1. b \in t.M .. u.M - 1
        BY <2>2, <1>1
      <3> QED
        BY Zenon, <3>1 DEF Asks
    <2> QED
      BY <2>1, <2>2
  <1>6. \A b \in u.ip \ s.ip : <<"delete", <<b>>>> \in u.out /\ b >= s.M
    <2> TAKE b \in u.ip \ s.ip
    <2>1. CASE b \in t.ip
      BY Zenon, <2>1 DEF Asks
    <2>2. CASE b \notin t.ip
      <3>1. <<"delete", <<b>>>> \in u.out /\ b >= t.M /\ s.M <= t.M
        BY Zenon, <2>2 DEF Asks
      <3> QED
        BY <3>1, <1>1
    <2> QED
      BY <2>1, <2>2
  <1> QED
    BY Zenon, <1>2, <1>3, <1>4, <1>5, <1>6 DEF Asks

\* The value that poke gives to metadata_deletedto_write does not go back, and
\* everything below it is deleted.
LEMMA DeletedToFacts ==
    ASSUME SetFacts, NEW s \in Handling, Local(s)
    PROVE  /\ DeletedTo(s) \in Nat
           /\ s.latest.deletedto <= DeletedTo(s) /\ DeletedTo(s) <= s.M
           /\ \A b \in s.ip : DeletedTo(s) <= b
           /\ s.ip = {} => DeletedTo(s) = s.M
  <1>1. s.M \in Nat /\ s.ip \in SUBSET Nat /\ s.latest.deletedto \in Nat
    BY DEF Handling, ProcWith, MTuple
  <1>2. CASE s.ip = {}
    BY <1>1, <1>2 DEF DeletedTo, Local, Core, Deleting
  <1>3. CASE s.ip # {}
    <2>1. Min(s.ip) \in s.ip /\ \A b \in s.ip : Min(s.ip) <= b
      BY Zenon, <1>1, <1>3, LeastOf
    <2> QED
      BY <1>1, <1>3, <2>1 DEF DeletedTo, Local, Core, Deleting
  <1> QED
    BY <1>2, <1>3

\* poke tells the metadata how far the DELETEs have come.
Told(s) == [s EXCEPT !.latest.deletedto = DeletedTo(s)]

\* metadata_deletedto_write, the part of it that sets the value, keeps what
\* holds of a process.
LEMMA TellLocal ==
    ASSUME SetFacts, NEW s \in Handling, Local(s)
    PROVE  LET t == Told(s) IN
           /\ t \in Handling /\ Local(t) /\ Kept(s, t) /\ Asks(s, t)
           /\ t.write_inprogress = s.write_inprogress /\ t.storing = s.storing
           /\ t.shuttingdown = s.shuttingdown /\ t.shutdown = s.shutdown
           /\ t.write_wanted = s.write_wanted /\ t.ip = s.ip /\ t.M = s.M
           /\ t.flushed = s.flushed
           /\ t.latest.deletedto = DeletedTo(s) /\ t.latest.cb = s.latest.cb
  <1> DEFINE l == [s.latest EXCEPT !.deletedto = DeletedTo(s)]
             t == Told(s)
  <1>1. s.latest \in MTuple
    BY DEF Handling, ProcWith
  <1>2. DeletedTo(s) \in Nat
    BY DeletedToFacts
  <1>3. /\ l \in MTuple
        /\ l.deletedto = DeletedTo(s) /\ l.cb = s.latest.cb /\ l.nextblk = s.latest.nextblk
        /\ l.generation = s.latest.generation /\ l.lastblk = s.latest.lastblk
    BY Zenon, <1>1, <1>2 DEF MTuple
  <1>4. t = [s EXCEPT !.latest = l]
    BY Zenon DEF Told, Handling, ProcWith
  <1> HIDE DEF l, t
  <1>5. /\ t \in Handling
        /\ t.phase = s.phase /\ t.pid = s.pid /\ t.conn = s.conn /\ t.gets = s.gets
        /\ t.nextblk = s.nextblk /\ t.lastblk = s.lastblk /\ t.append = s.append
        /\ t.N = s.N /\ t.M = s.M /\ t.ip = s.ip /\ t.flushed = s.flushed
        /\ t.shuttingdown = s.shuttingdown /\ t.shutdown = s.shutdown
        /\ t.stored = s.stored /\ t.storing = s.storing /\ t.latest = l
        /\ t.write_inprogress = s.write_inprogress /\ t.write_wanted = s.write_wanted
        /\ t.out = s.out
    BY Zenon, <1>3, <1>4 DEF Handling, ProcWith
  <1>6. /\ s.M \in Nat /\ s.ip \in SUBSET Nat /\ s.latest.deletedto \in Nat
        /\ s.stored.deletedto \in Nat /\ s.storing.deletedto \in Nat /\ s.flushed \in Nat
    BY DEF Handling, ProcWith, MTuple
  <1>7. Tuples(t)
    <2>1. Upto(Sent(s), s.latest) /\ s.latest.deletedto <= l.deletedto
      BY Zenon, <1>3, DeletedToFacts DEF Local, Core, Tuples
    <2>2. Sent(s).deletedto \in Nat
      BY <1>6 DEF Sent
    <2>3. Upto(Sent(s), l)
      BY <2>1, <2>2, <1>2, <1>3, <1>6 DEF Upto
    <2>4. Sent(t) = Sent(s) /\ Stage(t) = Stage(s) /\ Later(t) = Later(s)
      BY Zenon, <1>3, <1>5 DEF Sent, Stage, Later, Now
    <2> QED
      BY Zenon, <2>3, <2>4, <1>3, <1>5 DEF Local, Core, Tuples
  <1>8. Appending(t)
    BY Zenon, <1>3, <1>5 DEF Local, Core, Appending, Stage, Later, Now
  <1>9. Deleting(t)
    BY <1>2, <1>3, <1>5, <1>6, DeletedToFacts DEF Local, Core, Deleting, Limits
  <1>10. Flushed(t)
    BY Zenon, <1>5 DEF Local, Flushed
  <1>11. Asking(t)
    BY Zenon, <1>5 DEF Local, Core, Asking
  <1>12. Kept(s, t)
    BY Zenon, <1>3, <1>5 DEF Kept, Stage, Later, Now
  <1>13. Asks(s, t)
    BY <1>5, <1>6 DEF Asks
  <1> QED
    BY Zenon, <1>3, <1>5, <1>7, <1>8, <1>9, <1>11, <1>12, <1>13, <1>10 DEF Local, Core, t

\* The states s and t differ at most in flushed, shuttingdown, shutdown, conn
\* and gets.
Alike(s, t) ==
    /\ t.phase = s.phase /\ t.pid = s.pid /\ t.nextblk = s.nextblk
    /\ t.lastblk = s.lastblk /\ t.append = s.append
    /\ t.N = s.N /\ t.M = s.M /\ t.ip = s.ip
    /\ t.stored = s.stored /\ t.storing = s.storing /\ t.latest = s.latest
    /\ t.write_inprogress = s.write_inprogress
    /\ t.write_wanted = s.write_wanted /\ t.out = s.out

\* What does not depend on the deleter's own state.
LEMMA AlikeCore ==
    ASSUME NEW s \in Handling, NEW t \in Handling, Alike(s, t), Core(s)
    PROVE  /\ Tuples(t) /\ Appending(t) /\ Asking(t) /\ Asks(s, t)
           /\ Later(t) = Later(s)
           /\ t.conn = s.conn /\ t.gets = s.gets => Kept(s, t)
  <1>1. Sent(t) = Sent(s) /\ Later(t) = Later(s) /\ Now(t) = Now(s) /\ Stage(t) = Stage(s)
    BY Zenon DEF Alike, Sent, Later, Now, Stage
  <1>2. Tuples(t)
    BY Zenon, <1>1 DEF Alike, Core, Tuples
  <1>3. Appending(t)
    BY Zenon, <1>1 DEF Alike, Core, Appending
  <1>4. Asking(t)
    BY Zenon DEF Alike, Core, Asking
  <1>5. Asks(s, t)
    <2>1. s.M \in Nat
      BY DEF Handling, ProcWith
    <2>2. (\A b \in s.M .. t.M - 1 : FALSE) /\ s.M <= t.M
      BY <2>1 DEF Alike
    <2> QED
      BY Zenon, <2>2 DEF Alike, Asks
  <1>6. t.conn = s.conn /\ t.gets = s.gets => Kept(s, t)
    BY Zenon, <1>1 DEF Alike, Kept
  <1> QED
    BY <1>1, <1>2, <1>3, <1>4, <1>5, <1>6

\* The state after writemetadata is one that poke may leave.
LEMMA WritePoked ==
    ASSUME NEW s \in Handling, Core(s)
    PROVE  Poked(s, writemetadata(s)) /\ writemetadata(s).write_inprogress
  <1> DEFINE t == writemetadata(s)
  <1>1. t \in Handling /\ Wrote(s, t)
    BY Zenon, WriteType, WriteFields
  <1>2. /\ Local(t) /\ Kept(s, t) /\ Asks(s, t) /\ t.write_inprogress
        /\ Later(t) # NoCallback => t.write_wanted
    BY Zenon, <1>1, WriteLocal
  <1> HIDE DEF t
  <1> QED
    BY Zenon, <1>1, <1>2 DEF Poked, t

\* poke when the stored value is far behind: it issues DELETEs, then flushes.
Flushing(s) == [IssueDeletes(Told(s)) EXCEPT !.flushed = DeletedTo(s)]

\* poke when the deleter is shutting down and all is stored: deleteto_stop returns.
Ended(s) == [Told(s) EXCEPT !.shutdown = TRUE]

\* poke when the deleter is shutting down and has a value left to store.
LastWrite(s) == [writemetadata(Told(s)) EXCEPT !.shuttingdown = 2]

\* The paths through poke: far behind or not, and while it is shutting down,
\* still deleting, done, or in need of a last write.
LEMMA PokeCases ==
    ASSUME NEW s, s.shuttingdown \in 0 .. 2
    PROVE  /\ s.shuttingdown = 0 /\ FarBehind(s) => poke(s) = writemetadata(Flushing(s))
           /\ s.shuttingdown = 0 /\ ~FarBehind(s) => poke(s) = IssueDeletes(Told(s))
           /\ s.shuttingdown # 0 /\ s.ip # {} => poke(s) = Told(s)
           /\ s.shuttingdown # 0 /\ s.ip = {} /\ s.stored.deletedto = DeletedTo(s) =>
                 poke(s) = Ended(s)
           /\ s.shuttingdown = 1 /\ s.ip = {} /\ s.stored.deletedto # DeletedTo(s) =>
                 poke(s) = LastWrite(s)
           /\ s.shuttingdown = 2 /\ s.ip = {} /\ s.stored.deletedto # DeletedTo(s) =>
                 poke(s) = Told(s)
  <1>1. s.shuttingdown \in {0, 1, 2}
    OBVIOUS
  <1>2. (0 > 0) = FALSE /\ (1 > 0) = TRUE /\ (2 > 0) = TRUE
    OBVIOUS
  <1>3. CASE s.shuttingdown = 0
    BY <1>3 DEF poke, Flushing, Told
  <1>4. CASE s.shuttingdown = 1
    BY <1>4 DEF poke, LastWrite, Ended, Told
  <1>5. CASE s.shuttingdown = 2
    BY <1>5 DEF poke, LastWrite, Ended, Told
  <1> QED
    BY Zenon, <1>1, <1>3, <1>4, <1>5

\* poke keeps what holds of a process and leaves the deleter nothing to do that
\* it could do now.
LEMMA PokeLocal ==
    ASSUME SetFacts, NEW s \in Handling, Local(s), s.phase \in Working
    PROVE  Poked(s, poke(s))
  <1> DEFINE told == Told(s)
  <1>1. /\ told \in Handling /\ Local(told) /\ Kept(s, told) /\ Asks(s, told)
        /\ told.write_inprogress = s.write_inprogress /\ told.storing = s.storing
        /\ told.shuttingdown = s.shuttingdown /\ told.shutdown = s.shutdown
        /\ told.write_wanted = s.write_wanted /\ told.ip = s.ip /\ told.M = s.M
        /\ told.flushed = s.flushed
        /\ told.latest.deletedto = DeletedTo(s) /\ told.latest.cb = s.latest.cb
    BY Zenon, TellLocal
  <1>2. /\ s.shuttingdown \in 0 .. 2 /\ s.M \in Nat /\ s.N \in Nat /\ s.stored.deletedto \in Nat
        /\ s.flushed \in Nat /\ s.storing.deletedto \in Nat /\ s.write_wanted \in BOOLEAN
        /\ s.write_inprogress \in BOOLEAN
    BY DEF Handling, ProcWith, MTuple
  <1>3. /\ DeletedTo(s) \in Nat /\ DeletedTo(s) <= s.M
        /\ s.ip = {} => DeletedTo(s) = s.M
    BY Zenon, DeletedToFacts
  <1>4. told.phase = s.phase /\ told.stored = s.stored /\ told.N = s.N
    BY Zenon, <1>1 DEF Kept
  <1>5. Later(told) = Later(s)
    BY Zenon, <1>1 DEF Later
  <1>6. s.phase = "running" <=> s.shuttingdown = 0
    BY Zenon DEF Local, Core, Deleting
  <1> HIDE DEF told
  <1>7. CASE s.shuttingdown = 0
    <2> DEFINE i == IssueDeletes(told)
    <2>1. /\ i \in Handling /\ Local(i) /\ Kept(told, i) /\ Asks(told, i)
          /\ i.latest = told.latest /\ i.write_wanted = told.write_wanted
          /\ i.storing = told.storing /\ i.write_inprogress = told.write_inprogress
          /\ i.shuttingdown = 0 /\ i.flushed = told.flushed /\ i.shutdown = told.shutdown
          /\ \/ i.M >= i.N \/ i.ip # {}
             \/ told.ip = {} /\ told.M >= told.stored.deletedto + MAXUNRECORDED
      BY Zenon, <1>1, <1>7, IssueLocal
    <2> HIDE DEF i
    <2>2. Kept(s, i) /\ Asks(s, i)
      BY Zenon, <1>1, <2>1, KeptTrans, AsksTrans
    <2>3. Later(i) = Later(s)
      BY Zenon, <1>5, <2>1 DEF Later
    <2>4. i.phase = "running"
      BY Zenon, <1>6, <1>7, <2>2 DEF Kept
    <2>5. CASE FarBehind(s)
      <3> DEFINE f == [i EXCEPT !.flushed = DeletedTo(s)]
                 w == writemetadata(f)
      <3>1. /\ f \in Handling /\ f.flushed = DeletedTo(s)
            /\ f.phase = i.phase /\ f.pid = i.pid /\ f.conn = i.conn /\ f.gets = i.gets
            /\ f.nextblk = i.nextblk /\ f.lastblk = i.lastblk /\ f.append = i.append
            /\ f.N = i.N /\ f.M = i.M /\ f.ip = i.ip
            /\ f.shuttingdown = i.shuttingdown /\ f.shutdown = i.shutdown
            /\ f.stored = i.stored /\ f.storing = i.storing /\ f.latest = i.latest
            /\ f.write_inprogress = i.write_inprogress /\ f.write_wanted = i.write_wanted
            /\ f.out = i.out
        BY ZenonT(60), <2>1, <1>3 DEF Handling, ProcWith
      <3>2. poke(s) = w
        BY Zenon, <1>2, <1>7, <2>5, PokeCases DEF w, f, i, told, Flushing
      <3> HIDE DEF f, w
      <3>3. Alike(i, f) /\ Core(i)
        BY Zenon, <2>1, <3>1 DEF Alike, Local
      <3>4. /\ Tuples(f) /\ Appending(f) /\ Asking(f) /\ Asks(i, f) /\ Kept(i, f)
            /\ Later(f) = Later(i)
        BY Zenon, <2>1, <3>1, <3>3, AlikeCore
      <3>5. Core(f)
        <4>1. DeletedTo(s) <= DeletedTo(s)
          BY <1>3
        <4>2. Deleting(i)
          BY Zenon, <3>3 DEF Core
        <4>3. Deleting(f)
          BY <1>1, <2>1, <3>1, <4>1, <4>2 DEF Deleting, Limits
        <4> QED
          BY Zenon, <3>4, <4>3 DEF Core
      <3>6. Poked(f, w) /\ w.write_inprogress
        BY Zenon, <3>1, <3>5, WritePoked DEF w
      <3>7. Kept(s, w) /\ Asks(s, w)
        BY Zenon, <2>1, <2>2, <3>1, <3>4, <3>6, KeptTrans, AsksTrans DEF Poked
      <3>8. (Later(f) # NoCallback <=> Later(s) # NoCallback)
            /\ f.write_wanted = s.write_wanted
        BY Zenon, <1>1, <2>1, <2>3, <3>1, <3>4
      <3> QED
        BY Zenon, <3>2, <3>6, <3>7, <3>8 DEF Poked
    <2>6. CASE ~FarBehind(s)
      <3>1. poke(s) = i
        BY Zenon, <1>2, <1>7, <2>6, PokeCases DEF i, told
      <3>2. i.M >= i.N \/ i.ip # {} \/ i.write_inprogress \/ i.write_wanted
        <4> SUFFICES ASSUME ~(i.M >= i.N), i.ip = {}, ~i.write_inprogress, ~i.write_wanted
                     PROVE  FALSE
          OBVIOUS
        <4>1. /\ told.ip = {} /\ told.M >= told.stored.deletedto + MAXUNRECORDED
              /\ ~told.write_inprogress /\ ~told.write_wanted
          BY Zenon, <2>1
        <4>2. s.ip = {} /\ s.M >= s.stored.deletedto + MAXUNRECORDED
          BY Zenon, <4>1, <1>1, <1>4
        <4>3. s.flushed <= s.stored.deletedto
          BY Zenon, <4>1, <1>1 DEF Local, Flushed
        <4>4. DeletedTo(s) = s.M
          BY <4>2, <1>3
        <4>5. MAXUNRECORDED > MAXUNRECORDED \div 2 /\ MAXUNRECORDED > MAXUNRECORDED \div 4
              /\ MAXUNRECORDED \div 2 \in Nat /\ MAXUNRECORDED \div 4 \in Nat
          BY LbsDynamodbAssumption
        <4> QED
          BY <2>6, <4>2, <4>3, <4>4, <4>5, <1>2, LbsDynamodbAssumption DEF FarBehind
      <3> QED
        BY Zenon, <2>1, <2>2, <2>3, <2>4, <3>1, <3>2, <1>1 DEF Poked
    <2> QED
      BY <2>5, <2>6
  <1>8. ASSUME s.shuttingdown # 0, poke(s) = told,
               told.ip # {} \/ told.write_inprogress \/ told.write_wanted
        PROVE  Poked(s, poke(s))
    BY Zenon, <1>1, <1>4, <1>5, <1>6, <1>8 DEF Poked
  <1>9. CASE s.shuttingdown # 0 /\ s.ip # {}
    <2>1. poke(s) = told
      BY Zenon, <1>2, <1>9, PokeCases DEF told
    <2> QED
      BY Zenon, <1>1, <1>8, <1>9, <2>1
  <1>10. CASE s.shuttingdown # 0 /\ s.ip = {} /\ s.stored.deletedto = DeletedTo(s)
    <2> DEFINE e == Ended(s)
    <2>1. poke(s) = e
      BY Zenon, <1>2, <1>10, PokeCases
    <2>2. /\ e \in Handling /\ e.flushed = told.flushed
          /\ e.phase = told.phase /\ e.pid = told.pid /\ e.conn = told.conn
          /\ e.gets = told.gets /\ e.nextblk = told.nextblk /\ e.lastblk = told.lastblk
          /\ e.append = told.append /\ e.N = told.N /\ e.M = told.M /\ e.ip = told.ip
          /\ e.shuttingdown = told.shuttingdown /\ e.shutdown
          /\ e.stored = told.stored /\ e.storing = told.storing /\ e.latest = told.latest
          /\ e.write_inprogress = told.write_inprogress
          /\ e.write_wanted = told.write_wanted /\ e.out = told.out
      BY ZenonT(60), <1>1 DEF Ended, told, Handling, ProcWith
    <2> HIDE DEF e
    <2>3. Alike(told, e) /\ Core(told)
      BY Zenon, <1>1, <2>2 DEF Alike, Local
    <2>4. /\ Tuples(e) /\ Appending(e) /\ Asking(e) /\ Asks(told, e) /\ Kept(told, e)
          /\ Later(e) = Later(told)
      BY Zenon, <1>1, <2>2, <2>3, AlikeCore
    <2>5. Local(e)
      <3>1. Deleting(told) /\ Flushed(told)
        BY Zenon, <1>1 DEF Local, Core
      <3>2. Deleting(e) /\ Flushed(e)
        BY Zenon, <2>2, <3>1 DEF Deleting, Limits, Flushed
      <3> QED
        BY Zenon, <2>4, <3>2 DEF Local, Core
    <2>6. Kept(s, e) /\ Asks(s, e)
      BY Zenon, <1>1, <2>2, <2>4, KeptTrans, AsksTrans
    <2> QED
      BY Zenon, <1>1, <1>4, <1>5, <1>6, <1>10, <2>1, <2>2, <2>4, <2>5, <2>6 DEF Poked
  <1>11. CASE s.shuttingdown = 1 /\ s.ip = {} /\ s.stored.deletedto # DeletedTo(s)
    <2> DEFINE w == writemetadata(told)
               e == LastWrite(s)
    <2>1. poke(s) = e
      BY Zenon, <1>2, <1>11, PokeCases
    <2>2. Poked(told, w) /\ w.write_inprogress /\ w \in Handling /\ Wrote(told, w)
      BY Zenon, <1>1, WritePoked, WriteType, WriteFields DEF Local
    <2>3. e = [w EXCEPT !.shuttingdown = 2]
      BY Zenon DEF LastWrite, told
    <2> HIDE DEF w, e
    <2>4. /\ e \in Handling /\ e.flushed = w.flushed
          /\ e.phase = w.phase /\ e.pid = w.pid /\ e.conn = w.conn
          /\ e.gets = w.gets /\ e.nextblk = w.nextblk /\ e.lastblk = w.lastblk
          /\ e.append = w.append /\ e.N = w.N /\ e.M = w.M /\ e.ip = w.ip
          /\ e.shuttingdown = 2 /\ e.shutdown = w.shutdown
          /\ e.stored = w.stored /\ e.storing = w.storing /\ e.latest = w.latest
          /\ e.write_inprogress = w.write_inprogress
          /\ e.write_wanted = w.write_wanted /\ e.out = w.out
      <3>1. 2 \in 0 .. 2
        OBVIOUS
      <3> QED
        BY ZenonT(60), <2>2, <2>3, <3>1 DEF Handling, ProcWith
    <2>5. Local(e)
      <3>1. Alike(w, e) /\ Core(w)
        BY Zenon, <2>2, <2>4 DEF Alike, Local, Poked
      <3>2. Tuples(e) /\ Appending(e) /\ Asking(e)
        BY Zenon, <2>2, <2>4, <3>1, AlikeCore
      <3>3. w.ip = {} /\ w.M = s.M /\ w.latest.deletedto = s.M
            /\ (w.write_wanted \/ w.storing.deletedto = s.M)
        <4>1. told.ip = {} /\ told.M = s.M /\ told.latest.deletedto = s.M
          BY <1>1, <1>3, <1>11
        <4> QED
          BY <2>2, <4>1 DEF Wrote
      <3>4. e.phase # "running"
        BY <1>4, <1>6, <1>11, <2>2, <2>4 DEF Wrote
      <3>5. Deleting(e) /\ Flushed(e)
        BY <2>2, <2>4, <3>3, <3>4 DEF Poked, Local, Core, Deleting, Limits, Flushed
      <3> QED
        BY Zenon, <3>2, <3>5 DEF Local, Core
    <2>6. Kept(s, w) /\ Asks(s, w)
      BY Zenon, <1>1, <2>2, KeptTrans, AsksTrans DEF Poked
    <2>7. Kept(s, e) /\ Asks(s, e)
      <3>1. Alike(w, e) /\ Core(w)
        BY Zenon, <2>2, <2>4 DEF Alike, Local, Poked
      <3>2. Asks(w, e) /\ Kept(w, e)
        BY Zenon, <2>2, <2>4, <3>1, AlikeCore
      <3> QED
        BY Zenon, <2>2, <2>4, <2>6, <3>2, KeptTrans, AsksTrans DEF Poked
    <2>8. Later(e) # NoCallback => e.write_wanted
      BY Zenon, <2>2, <2>4 DEF Wrote, Later, Poked
    <2> QED
      BY Zenon, <2>1, <2>2, <2>4, <2>5, <2>7, <1>1, <1>5, <2>8 DEF Poked
  <1>12. CASE s.shuttingdown = 2 /\ s.ip = {} /\ s.stored.deletedto # DeletedTo(s)
    <2>1. poke(s) = told
      BY Zenon, <1>2, <1>12, PokeCases DEF told
    <2>2. s.write_wanted \/ s.write_inprogress
      BY Zenon, <1>3, <1>12 DEF Local, Core, Deleting
    <2>3. s.shuttingdown # 0
      BY <1>12
    <2> QED
      BY Zenon, <1>1, <1>8, <2>1, <2>2, <2>3
  <1>13. s.shuttingdown = 0 \/ s.shuttingdown = 1 \/ s.shuttingdown = 2
    BY <1>2
  <1>14. s.shuttingdown = 0 \/ s.shuttingdown # 0
    OBVIOUS
  <1> QED
    BY Zenon, <1>7, <1>9, <1>10, <1>11, <1>12, <1>13, <1>14

\* What holds of the process still holds when a handler of the deleter or of
\* the dispatcher has recorded what happened.
LEMMA ResumedLocal ==
    ASSUME SetFacts, NEW s \in Handling, NEW s0 \in Handling, Resumed(s, s0), Local(s),
           Asking(s0)
    PROVE  Local(s0) /\ Stage(s0) = Stage(s) /\ Later(s0) = Later(s)
  <1>1. Later(s0) = Later(s) /\ Now(s0) = Now(s) /\ Sent(s0) = Sent(s)
    BY Zenon DEF Resumed, Later, Now, Sent
  <1>2. Stage(s0) = Stage(s)
    BY Zenon, <1>1 DEF Stage
  <1>3. Tuples(s) /\ Appending(s) /\ Deleting(s)
    BY Zenon DEF Local, Core
  <1>4. Tuples(s0)
    BY Zenon, <1>1, <1>2, <1>3 DEF Tuples, Resumed
  <1>5. Appending(s0)
    BY Zenon, <1>1, <1>2, <1>3 DEF Appending, Resumed
  <1>6. Limits(s0)
    <2>1. s0.ip \in SUBSET s.ip /\ IsFiniteSet(s.ip) /\ Cardinality(s.ip) <= MAXINPROGRESS
      BY Zenon, <1>3 DEF Deleting, Limits, Resumed
    <2>2. IsFiniteSet(s0.ip) /\ Cardinality(s0.ip) <= Cardinality(s.ip)
      BY Zenon, <2>1 DEF SetFacts, SubsetSize
    <2>3. Cardinality(s0.ip) \in Nat /\ Cardinality(s.ip) \in Nat
      BY Zenon, <2>1, <2>2 DEF SetFacts, FiniteSize
    <2>4. Cardinality(s0.ip) <= MAXINPROGRESS
      BY <2>1, <2>2, <2>3, LbsDynamodbAssumption
    <2> QED
      BY Zenon, <1>3, <2>2, <2>4 DEF Limits, Deleting, Resumed
  <1>7. \A b \in s0.ip : b < s0.M /\ b < s0.N /\ s0.latest.deletedto <= b
    <2>1. s0.ip \subseteq Nat /\ s0.N \in Nat /\ s.N \in Nat /\ s0.N >= s.N
      BY DEF Handling, ProcWith, Resumed
    <2>2. \A b \in s0.ip : b < s0.M /\ b < s.N /\ s0.latest.deletedto <= b
      BY Zenon, <1>3 DEF Deleting, Resumed
    <2> QED
      BY <2>1, <2>2
  <1>8. /\ s0.flushed <= s0.latest.deletedto /\ s0.latest.deletedto <= s0.M
        /\ s0.phase = "running" <=> s0.shuttingdown = 0
    <2>1. CASE s0.phase = s.phase /\ s0.shuttingdown = s.shuttingdown
      BY Zenon, <1>3, <2>1 DEF Deleting, Resumed
    <2>2. CASE s0.phase = "stopping" /\ s0.shuttingdown = 1
      <3>1. s0.flushed <= s0.latest.deletedto /\ s0.latest.deletedto <= s0.M
        BY Zenon, <1>3 DEF Deleting, Resumed
      <3> QED
        BY <2>2, <3>1
    <2> QED
      BY Zenon, <2>1, <2>2 DEF Resumed
  <1>9. s0.shuttingdown = 2 =>
          /\ s0.ip = {} /\ s0.latest.deletedto = s0.M
          /\ \/ s0.stored.deletedto = s0.M \/ s0.write_wanted
             \/ s0.write_inprogress /\ s0.storing.deletedto = s0.M
    <2>1. CASE s0.phase = "stopping" /\ s0.shuttingdown = 1
      BY <2>1
    <2>2. CASE s0.phase = s.phase /\ s0.shuttingdown = s.shuttingdown
      BY Zenon, <1>3, <2>2 DEF Deleting, Resumed
    <2> QED
      BY Zenon, <2>1, <2>2 DEF Resumed
  <1>10. Deleting(s0)
    BY Zenon, <1>6, <1>7, <1>8, <1>9 DEF Deleting
  <1>11. Flushed(s0)
    BY Zenon DEF Local, Flushed, Resumed
  <1> QED
    BY Zenon, <1>1, <1>2, <1>4, <1>5, <1>10, <1>11 DEF Local, Core

\* After poke no write is wanted without one in progress, and the deleter has
\* work in progress if there is any.
LEMMA PokedRest ==
    ASSUME NEW s0, NEW t, Poked(s0, t), t.phase \in Working,
           Later(s0) # NoCallback => s0.write_wanted,
           s0.write_wanted => s0.write_inprogress
    PROVE  AtRest(t)
  <1>1. s0.write_inprogress => t.write_inprogress
    BY Zenon DEF Poked, Kept
  <1> QED
    BY Zenon, <1>1 DEF Poked, AtRest

(***************************************************************************)
(* What the handlers of an APPEND make of the process                      *)
(***************************************************************************)
\* The state in which metadata_nextblk_write asks for the write.
Numbered(s, n) ==
    [[s EXCEPT !.append = [old |-> s.nextblk, nblks |-> n, nblks_left |-> n],
               !.nextblk = @ + n]
       EXCEPT !.latest.nextblk = s.nextblk + n, !.latest.cb = "nextblk"]

\* What metadata_nextblk_write sets.
LEMMA NumberedFields ==
    ASSUME NEW s \in Handling, NEW n \in Nat
    PROVE  LET s0 == Numbered(s, n) IN
           /\ s0 \in Handling
           /\ s0.phase = s.phase /\ s0.pid = s.pid /\ s0.conn = s.conn /\ s0.gets = s.gets
           /\ s0.nextblk = s.nextblk + n /\ s0.lastblk = s.lastblk
           /\ s0.append.old = s.nextblk /\ s0.append.nblks = n /\ s0.append.nblks_left = n
           /\ s0.N = s.N /\ s0.M = s.M /\ s0.ip = s.ip /\ s0.flushed = s.flushed
           /\ s0.shuttingdown = s.shuttingdown /\ s0.shutdown = s.shutdown
           /\ s0.stored = s.stored /\ s0.storing = s.storing
           /\ s0.write_inprogress = s.write_inprogress /\ s0.write_wanted = s.write_wanted
           /\ s0.latest.nextblk = s.nextblk + n /\ s0.latest.cb = "nextblk"
           /\ s0.latest.deletedto = s.latest.deletedto /\ s0.latest.lastblk = s.latest.lastblk
           /\ s0.latest.generation = s.latest.generation /\ s0.out = s.out
  <1> DEFINE app == [old |-> s.nextblk, nblks |-> n, nblks_left |-> n]
             s1 == [s EXCEPT !.append = app, !.nextblk = @ + n]
             s0 == Numbered(s, n)
  <1>1. s.nextblk \in Nat /\ s.latest \in MTuple
    BY DEF Handling, ProcWith
  <1>2. app \in [old : Nat, nblks : Nat, nblks_left : Nat]
        /\ app.old = s.nextblk /\ app.nblks = n /\ app.nblks_left = n
    BY <1>1
  <1> HIDE DEF app
  <1>3. s1 \in Handling
    <2>1. \A u \in Handling : [u EXCEPT !.append = app] \in Handling
      BY <1>2 DEF Handling, ProcWith
    <2>2. \A u \in Handling : [u EXCEPT !.nextblk = @ + n] \in Handling
      BY DEF Handling, ProcWith
    <2> QED
      BY Zenon, <2>1, <2>2
  <1>4. /\ s1.phase = s.phase /\ s1.pid = s.pid /\ s1.conn = s.conn /\ s1.gets = s.gets
        /\ s1.nextblk = s.nextblk + n /\ s1.lastblk = s.lastblk /\ s1.append = app
        /\ s1.N = s.N /\ s1.M = s.M /\ s1.ip = s.ip /\ s1.flushed = s.flushed
        /\ s1.shuttingdown = s.shuttingdown /\ s1.shutdown = s.shutdown
        /\ s1.stored = s.stored /\ s1.storing = s.storing /\ s1.latest = s.latest
        /\ s1.write_inprogress = s.write_inprogress /\ s1.write_wanted = s.write_wanted
        /\ s1.out = s.out
    BY Zenon DEF Handling, ProcWith
  <1>5. s0 = [s1 EXCEPT !.latest.nextblk = s.nextblk + n, !.latest.cb = "nextblk"]
    BY Zenon DEF Numbered, app
  <1> HIDE DEF s1, s0
  <1> DEFINE lt == [s1.latest EXCEPT !.nextblk = s.nextblk + n, !.cb = "nextblk"]
  <1>6. s0 = [s1 EXCEPT !.latest = lt]
    BY Zenon, <1>3, <1>5 DEF Handling, ProcWith
  <1>7. /\ lt \in MTuple /\ lt.nextblk = s.nextblk + n /\ lt.cb = "nextblk"
        /\ lt.deletedto = s.latest.deletedto /\ lt.lastblk = s.latest.lastblk
        /\ lt.generation = s.latest.generation
    <2>1. s1.latest \in MTuple /\ s.nextblk + n \in Nat
      BY <1>1, <1>4
    <2> QED
      BY Zenon, <1>4, <2>1 DEF MTuple
  <1> HIDE DEF lt
  <1>8. s0 \in Handling
    BY <1>3, <1>6, <1>7 DEF Handling, ProcWith
  <1>9. /\ s0.phase = s1.phase /\ s0.pid = s1.pid /\ s0.conn = s1.conn /\ s0.gets = s1.gets
        /\ s0.nextblk = s1.nextblk /\ s0.lastblk = s1.lastblk /\ s0.append = s1.append
        /\ s0.N = s1.N /\ s0.M = s1.M /\ s0.ip = s1.ip /\ s0.flushed = s1.flushed
        /\ s0.shuttingdown = s1.shuttingdown /\ s0.shutdown = s1.shutdown
        /\ s0.stored = s1.stored /\ s0.storing = s1.storing /\ s0.latest = lt
        /\ s0.write_inprogress = s1.write_inprogress /\ s0.write_wanted = s1.write_wanted
        /\ s0.out = s1.out
    BY Zenon, <1>3, <1>6 DEF Handling, ProcWith
  <1>10. /\ s0 \in Handling
         /\ s0.phase = s.phase /\ s0.pid = s.pid /\ s0.conn = s.conn /\ s0.gets = s.gets
         /\ s0.nextblk = s.nextblk + n /\ s0.lastblk = s.lastblk
         /\ s0.append.old = s.nextblk /\ s0.append.nblks = n /\ s0.append.nblks_left = n
         /\ s0.N = s.N /\ s0.M = s.M /\ s0.ip = s.ip /\ s0.flushed = s.flushed
         /\ s0.shuttingdown = s.shuttingdown /\ s0.shutdown = s.shutdown
         /\ s0.stored = s.stored /\ s0.storing = s.storing
         /\ s0.write_inprogress = s.write_inprogress /\ s0.write_wanted = s.write_wanted
         /\ s0.latest.nextblk = s.nextblk + n /\ s0.latest.cb = "nextblk"
         /\ s0.latest.deletedto = s.latest.deletedto /\ s0.latest.lastblk = s.latest.lastblk
         /\ s0.latest.generation = s.latest.generation /\ s0.out = s.out
    BY Zenon, <1>2, <1>4, <1>7, <1>8, <1>9
  <1> QED
    BY <1>10 DEF s0

\* It keeps what holds of a process: no other APPEND was in progress, so no
\* other callback is replaced.
LEMMA NumberedCore ==
    ASSUME NEW s \in Handling, NEW n \in Nat, 1 <= n, n <= MaxAppend, Local(s),
           s.append = NoAppend, s.out = {}
    PROVE  /\ Core(Numbered(s, n)) /\ Stage(Numbered(s, n)) = "nextblk"
           /\ ~(s.write_inprogress /\ s.storing.cb = "nextblk")
  <1> DEFINE s0 == Numbered(s, n)
  <1>1. /\ s0 \in Handling /\ s0.phase = s.phase
        /\ s0.pid = s.pid /\ s0.nextblk = s.nextblk + n /\ s0.lastblk = s.lastblk
        /\ s0.append.old = s.nextblk /\ s0.append.nblks = n /\ s0.append.nblks_left = n
        /\ s0.N = s.N /\ s0.M = s.M /\ s0.ip = s.ip /\ s0.flushed = s.flushed
        /\ s0.shuttingdown = s.shuttingdown
        /\ s0.stored = s.stored /\ s0.storing = s.storing
        /\ s0.write_inprogress = s.write_inprogress /\ s0.write_wanted = s.write_wanted
        /\ s0.latest.nextblk = s.nextblk + n /\ s0.latest.cb = "nextblk"
        /\ s0.latest.deletedto = s.latest.deletedto /\ s0.latest.lastblk = s.latest.lastblk
        /\ s0.latest.generation = s.latest.generation /\ s0.out = {}
    BY ZenonT(60), NumberedFields
  <1> HIDE DEF s0
  <1>2. Tuples(s) /\ Appending(s) /\ Deleting(s)
    BY Zenon DEF Local, Core
  <1>3. Later(s) = NoCallback /\ Now(s) = NoCallback /\ Stage(s) = NoCallback
    <2>1. s.append.nblks = 0
      BY DEF NoAppend
    <2>2. Stage(s) = NoCallback
      BY Zenon, <1>2, <2>1 DEF Appending
    <2> QED
      BY Zenon, <2>2 DEF Stage
  <1>4. Later(s0) = "nextblk" /\ Now(s0) = NoCallback /\ Stage(s0) = "nextblk"
        /\ Sent(s0) = Sent(s)
    <2>1. Later(s0) = "nextblk" /\ Now(s0) = Now(s) /\ Sent(s0) = Sent(s)
      BY Zenon, <1>1 DEF Later, Now, Sent
    <2>2. "nextblk" # NoCallback
      BY DEF NoCallback
    <2> QED
      BY Zenon, <1>3, <2>1, <2>2 DEF Stage
  <1>5. "nextblk" # NoCallback /\ "lastblk" # NoCallback /\ "nextblk" # "lastblk"
    BY DEF NoCallback
  <1>6. /\ s.nextblk \in Nat /\ Sent(s) \in MTuple /\ s.lastblk \in Nat \cup {-1}
        /\ s.stored \in MTuple
    <2>1. s.stored \in MTuple /\ s.storing \in MTuple
      BY DEF Handling, ProcWith
    <2>2. Sent(s) \in MTuple
      BY Zenon, <2>1 DEF Sent
    <2> QED
      BY <2>1, <2>2 DEF Handling, ProcWith
  <1>7. Tuples(s0)
    <2>1. s0.latest.generation = Sent(s0).generation + 1
          /\ s0.pid > 0 /\ s0.latest.lastblk = s0.lastblk
          /\ s0.stored.lastblk < s0.stored.nextblk /\ Sent(s0).lastblk < Sent(s0).nextblk
      BY Zenon, <1>1, <1>2, <1>4 DEF Tuples
    <2>2. Upto(Sent(s0), s0.latest) /\ s0.lastblk < s0.nextblk
      <3>1. Upto(Sent(s), s.latest) /\ s.latest.nextblk = s.nextblk /\ s.lastblk < s.nextblk
        BY Zenon, <1>2 DEF Tuples
      <3>2. Sent(s).nextblk <= s.nextblk + n /\ s.lastblk < s.nextblk + n
        BY <1>6, <3>1 DEF Upto, MTuple
      <3> QED
        BY Zenon, <1>1, <1>4, <3>1, <3>2 DEF Upto
    <2>3. s0.write_inprogress => /\ s0.storing.generation = s0.stored.generation + 1
                                 /\ Upto(s0.stored, s0.storing)
      BY Zenon, <1>1, <1>2 DEF Tuples
    <2>4. Sent(s0).nextblk = s0.append.old /\ s0.stored.nextblk = s0.append.old
      BY Zenon, <1>1, <1>2, <1>3, <1>4, <1>5 DEF Tuples
    <2> QED
      BY Zenon, <1>1, <1>4, <2>1, <2>2, <2>3, <2>4 DEF Tuples
  <1>8. Appending(s0)
    <2>1. s0.append.nblks > 0 /\ s0.append.nblks # 0 /\ s0.append.nblks_left <= s0.append.nblks
          /\ s0.append.nblks <= MaxAppend
      BY <1>1
    <2>2. Stage(s0) # "lastblk" /\ Now(s0) # "lastblk"
      BY <1>4, <1>5
    <2> QED
      BY Zenon, <1>1, <1>4, <2>1, <2>2 DEF Appending
  <1>9. Deleting(s0)
    BY Zenon, <1>1, <1>2 DEF Deleting, Limits
  <1>10. Asking(s0)
    BY <1>1 DEF Asking
  <1>11. Core(s0) /\ Stage(s0) = "nextblk"
    BY Zenon, <1>4, <1>7, <1>8, <1>9, <1>10 DEF Core
  <1>12. ~(s.write_inprogress /\ s.storing.cb = "nextblk")
    BY Zenon, <1>3, <1>5 DEF Now
  <1> QED
    BY <1>11, <1>12 DEF s0

\* A block has been stored, and others have not.
OneLess(s) == [s EXCEPT !.append.nblks_left = @ - 1]

\* What callback_append_put_blks sets when more blocks are to come.
LEMMA OneLessFields ==
    ASSUME NEW s \in Handling, s.append.nblks_left > 0
    PROVE  LET s0 == OneLess(s) IN
           /\ s0 \in Handling
           /\ s0.phase = s.phase /\ s0.pid = s.pid /\ s0.conn = s.conn /\ s0.gets = s.gets
           /\ s0.nextblk = s.nextblk /\ s0.lastblk = s.lastblk
           /\ s0.append.old = s.append.old /\ s0.append.nblks = s.append.nblks
           /\ s0.append.nblks_left = s.append.nblks_left - 1
           /\ s0.N = s.N /\ s0.M = s.M /\ s0.ip = s.ip /\ s0.flushed = s.flushed
           /\ s0.shuttingdown = s.shuttingdown /\ s0.shutdown = s.shutdown
           /\ s0.stored = s.stored /\ s0.storing = s.storing /\ s0.latest = s.latest
           /\ s0.write_inprogress = s.write_inprogress /\ s0.write_wanted = s.write_wanted
           /\ s0.out = s.out
  <1> DEFINE app == [s.append EXCEPT !.nblks_left = @ - 1]
             s0 == OneLess(s)
  <1>1. s.append \in [old : Nat, nblks : Nat, nblks_left : Nat]
    BY DEF Handling, ProcWith
  <1>2. app \in [old : Nat, nblks : Nat, nblks_left : Nat]
        /\ app.old = s.append.old /\ app.nblks = s.append.nblks
        /\ app.nblks_left = s.append.nblks_left - 1
    BY <1>1
  <1>3. s0 = [s EXCEPT !.append = app]
    BY Zenon DEF OneLess, Handling, ProcWith
  <1> HIDE DEF app, s0
  <1>4. s0 \in Handling
    BY <1>2, <1>3 DEF Handling, ProcWith
  <1>5. /\ s0.phase = s.phase /\ s0.pid = s.pid /\ s0.conn = s.conn /\ s0.gets = s.gets
        /\ s0.nextblk = s.nextblk /\ s0.lastblk = s.lastblk /\ s0.append = app
        /\ s0.N = s.N /\ s0.M = s.M /\ s0.ip = s.ip /\ s0.flushed = s.flushed
        /\ s0.shuttingdown = s.shuttingdown /\ s0.shutdown = s.shutdown
        /\ s0.stored = s.stored /\ s0.storing = s.storing /\ s0.latest = s.latest
        /\ s0.write_inprogress = s.write_inprogress /\ s0.write_wanted = s.write_wanted
        /\ s0.out = s.out
    BY Zenon, <1>3 DEF Handling, ProcWith
  <1>6. /\ s0.append.old = s.append.old /\ s0.append.nblks = s.append.nblks
        /\ s0.append.nblks_left = s.append.nblks_left - 1
    BY Zenon, <1>2, <1>5
  <1> QED
    BY <1>4, <1>5, <1>6 DEF s0

\* It keeps what holds of a process.
LEMMA OneLessLocal ==
    ASSUME NEW s \in Handling, Local(s), Stage(s) = NoCallback, s.append.nblks > 0,
           s.append.nblks_left > 1, s.out = {}
    PROVE  /\ Local(OneLess(s)) /\ Stage(OneLess(s)) = NoCallback
           /\ Later(OneLess(s)) = Later(s)
  <1> DEFINE s0 == OneLess(s)
  <1>1. /\ s0 \in Handling
        /\ s0.phase = s.phase /\ s0.pid = s.pid
        /\ s0.nextblk = s.nextblk /\ s0.lastblk = s.lastblk
        /\ s0.append.old = s.append.old /\ s0.append.nblks = s.append.nblks
        /\ s0.append.nblks_left = s.append.nblks_left - 1
        /\ s0.N = s.N /\ s0.M = s.M /\ s0.ip = s.ip /\ s0.flushed = s.flushed
        /\ s0.shuttingdown = s.shuttingdown
        /\ s0.stored = s.stored /\ s0.storing = s.storing /\ s0.latest = s.latest
        /\ s0.write_inprogress = s.write_inprogress /\ s0.write_wanted = s.write_wanted
        /\ s0.out = {}
    <2>1. s.append.nblks_left \in Nat /\ s.append.nblks_left > 0
      BY DEF Handling, ProcWith
    <2> QED
      BY Zenon, <2>1, OneLessFields
  <1> HIDE DEF s0
  <1>2. Tuples(s) /\ Appending(s) /\ Deleting(s) /\ Flushed(s)
    BY Zenon DEF Local, Core
  <1>3. Later(s0) = Later(s) /\ Now(s0) = Now(s) /\ Sent(s0) = Sent(s)
    BY Zenon, <1>1 DEF Later, Now, Sent
  <1>4. Stage(s0) = Stage(s)
    BY Zenon, <1>3 DEF Stage
  <1>5. Tuples(s0)
    BY Zenon, <1>1, <1>2, <1>3, <1>4 DEF Tuples
  <1>6. Appending(s0)
    <2>1. s0.append.nblks_left <= s0.append.nblks /\ s0.append.nblks # 0
      <3>1. s.append.nblks_left <= s.append.nblks
        BY Zenon, <1>2 DEF Appending
      <3>2. s.append.nblks_left \in Nat /\ s.append.nblks \in Nat
        BY DEF Handling, ProcWith
      <3> QED
        BY <1>1, <3>1, <3>2
    <2>2. Stage(s0) # "nextblk" /\ Stage(s0) # "lastblk"
      BY <1>4 DEF NoCallback
    <2> QED
      BY Zenon, <1>1, <1>2, <1>3, <2>1, <2>2 DEF Appending
  <1>7. Deleting(s0) /\ Flushed(s0)
    BY Zenon, <1>1, <1>2 DEF Deleting, Limits, Flushed
  <1>8. Asking(s0)
    BY <1>1 DEF Asking
  <1>9. Local(s0) /\ Stage(s0) = NoCallback /\ Later(s0) = Later(s)
    BY Zenon, <1>3, <1>4, <1>5, <1>6, <1>7, <1>8 DEF Local, Core
  <1> QED
    BY <1>9 DEF s0

\* The state in which metadata_lastblk_write asks for the write.
StoredAll(s) ==
    [[OneLess(s) EXCEPT !.lastblk = s.nextblk - 1]
       EXCEPT !.latest.lastblk = s.nextblk - 1, !.latest.cb = "lastblk"]

\* What metadata_lastblk_write sets after the last PUT.
LEMMA StoredAllFields ==
    ASSUME NEW s \in Handling, s.append.nblks_left > 0
    PROVE  LET s0 == StoredAll(s) IN
           /\ s0 \in Handling
           /\ s0.phase = s.phase /\ s0.pid = s.pid /\ s0.conn = s.conn /\ s0.gets = s.gets
           /\ s0.nextblk = s.nextblk /\ s0.lastblk = s.nextblk - 1
           /\ s0.append.old = s.append.old /\ s0.append.nblks = s.append.nblks
           /\ s0.append.nblks_left = s.append.nblks_left - 1
           /\ s0.N = s.N /\ s0.M = s.M /\ s0.ip = s.ip /\ s0.flushed = s.flushed
           /\ s0.shuttingdown = s.shuttingdown /\ s0.shutdown = s.shutdown
           /\ s0.stored = s.stored /\ s0.storing = s.storing
           /\ s0.write_inprogress = s.write_inprogress /\ s0.write_wanted = s.write_wanted
           /\ s0.latest.nextblk = s.latest.nextblk /\ s0.latest.cb = "lastblk"
           /\ s0.latest.deletedto = s.latest.deletedto /\ s0.latest.lastblk = s.nextblk - 1
           /\ s0.latest.generation = s.latest.generation /\ s0.out = s.out
  <1> DEFINE u == OneLess(s)
             l == s.nextblk - 1
             s1 == [u EXCEPT !.lastblk = l]
             s0 == StoredAll(s)
  <1>1. s.nextblk \in Nat /\ s.latest \in MTuple
    BY DEF Handling, ProcWith
  <1>2. l \in Nat \cup {-1}
    BY <1>1
  <1>3. /\ u \in Handling
        /\ u.phase = s.phase /\ u.pid = s.pid /\ u.conn = s.conn /\ u.gets = s.gets
        /\ u.nextblk = s.nextblk /\ u.lastblk = s.lastblk
        /\ u.append.old = s.append.old /\ u.append.nblks = s.append.nblks
        /\ u.append.nblks_left = s.append.nblks_left - 1
        /\ u.N = s.N /\ u.M = s.M /\ u.ip = s.ip /\ u.flushed = s.flushed
        /\ u.shuttingdown = s.shuttingdown /\ u.shutdown = s.shutdown
        /\ u.stored = s.stored /\ u.storing = s.storing /\ u.latest = s.latest
        /\ u.write_inprogress = s.write_inprogress /\ u.write_wanted = s.write_wanted
        /\ u.out = s.out
    BY Zenon, OneLessFields
  <1>4. s0 = [s1 EXCEPT !.latest.lastblk = l, !.latest.cb = "lastblk"]
    BY Zenon DEF StoredAll
  <1> HIDE DEF u, s0, l
  <1>5. s1 \in Handling
    BY <1>2, <1>3 DEF Handling, ProcWith
  <1>6. /\ s1.phase = u.phase /\ s1.pid = u.pid /\ s1.conn = u.conn /\ s1.gets = u.gets
        /\ s1.nextblk = u.nextblk /\ s1.lastblk = l /\ s1.append = u.append
        /\ s1.N = u.N /\ s1.M = u.M /\ s1.ip = u.ip /\ s1.flushed = u.flushed
        /\ s1.shuttingdown = u.shuttingdown /\ s1.shutdown = u.shutdown
        /\ s1.stored = u.stored /\ s1.storing = u.storing /\ s1.latest = u.latest
        /\ s1.write_inprogress = u.write_inprogress /\ s1.write_wanted = u.write_wanted
        /\ s1.out = u.out
    BY Zenon, <1>3 DEF Handling, ProcWith
  <1> HIDE DEF s1
  <1> DEFINE lt == [s1.latest EXCEPT !.lastblk = l, !.cb = "lastblk"]
  <1>7. s0 = [s1 EXCEPT !.latest = lt]
    BY Zenon, <1>4, <1>5 DEF Handling, ProcWith
  <1>8. s1.latest = s.latest
    BY Zenon, <1>3, <1>6
  <1>9. /\ lt \in MTuple /\ lt.lastblk = l /\ lt.cb = "lastblk"
        /\ lt.deletedto = s.latest.deletedto /\ lt.nextblk = s.latest.nextblk
        /\ lt.generation = s.latest.generation
    BY Zenon, <1>1, <1>2, <1>8 DEF MTuple
  <1> HIDE DEF lt
  <1>10. s0 \in Handling
    BY <1>5, <1>7, <1>9 DEF Handling, ProcWith
  <1>11. /\ s0.phase = s1.phase /\ s0.pid = s1.pid /\ s0.conn = s1.conn /\ s0.gets = s1.gets
         /\ s0.nextblk = s1.nextblk /\ s0.lastblk = s1.lastblk /\ s0.append = s1.append
         /\ s0.N = s1.N /\ s0.M = s1.M /\ s0.ip = s1.ip /\ s0.flushed = s1.flushed
         /\ s0.shuttingdown = s1.shuttingdown /\ s0.shutdown = s1.shutdown
         /\ s0.stored = s1.stored /\ s0.storing = s1.storing /\ s0.latest = lt
         /\ s0.write_inprogress = s1.write_inprogress /\ s0.write_wanted = s1.write_wanted
         /\ s0.out = s1.out
    BY Zenon, <1>5, <1>7 DEF Handling, ProcWith
  <1>12. /\ s0 \in Handling
         /\ s0.phase = s.phase /\ s0.pid = s.pid /\ s0.conn = s.conn /\ s0.gets = s.gets
         /\ s0.nextblk = s.nextblk /\ s0.lastblk = l
         /\ s0.append.old = s.append.old /\ s0.append.nblks = s.append.nblks
         /\ s0.append.nblks_left = s.append.nblks_left - 1
         /\ s0.N = s.N /\ s0.M = s.M /\ s0.ip = s.ip /\ s0.flushed = s.flushed
         /\ s0.shuttingdown = s.shuttingdown /\ s0.shutdown = s.shutdown
         /\ s0.stored = s.stored /\ s0.storing = s.storing
         /\ s0.write_inprogress = s.write_inprogress /\ s0.write_wanted = s.write_wanted
         /\ s0.latest.nextblk = s.latest.nextblk /\ s0.latest.cb = "lastblk"
         /\ s0.latest.deletedto = s.latest.deletedto /\ s0.latest.lastblk = l
         /\ s0.latest.generation = s.latest.generation /\ s0.out = s.out
    BY Zenon, <1>3, <1>6, <1>9, <1>10, <1>11
  <1> QED
    BY <1>12 DEF s0, l

\* It keeps what holds of a process: the callback that it sets replaces none.
LEMMA StoredAllCore ==
    ASSUME NEW s \in Handling, Local(s), Stage(s) = NoCallback, s.append.nblks > 0,
           s.append.nblks_left = 1, s.out = {}
    PROVE  Core(StoredAll(s)) /\ Stage(StoredAll(s)) = "lastblk"
  <1> DEFINE s0 == StoredAll(s)
  <1>1. /\ s0 \in Handling
        /\ s0.phase = s.phase /\ s0.pid = s.pid
        /\ s0.nextblk = s.nextblk /\ s0.lastblk = s.nextblk - 1
        /\ s0.append.old = s.append.old /\ s0.append.nblks = s.append.nblks
        /\ s0.append.nblks_left = s.append.nblks_left - 1
        /\ s0.N = s.N /\ s0.M = s.M /\ s0.ip = s.ip /\ s0.flushed = s.flushed
        /\ s0.shuttingdown = s.shuttingdown
        /\ s0.stored = s.stored /\ s0.storing = s.storing
        /\ s0.write_inprogress = s.write_inprogress /\ s0.write_wanted = s.write_wanted
        /\ s0.latest.nextblk = s.latest.nextblk /\ s0.latest.cb = "lastblk"
        /\ s0.latest.deletedto = s.latest.deletedto /\ s0.latest.lastblk = s.nextblk - 1
        /\ s0.latest.generation = s.latest.generation /\ s0.out = {}
    <2>1. s.append.nblks_left > 0
      OBVIOUS
    <2> QED
      BY Zenon, <2>1, StoredAllFields
  <1> HIDE DEF s0
  <1>2. Tuples(s) /\ Appending(s) /\ Deleting(s)
    BY Zenon DEF Local, Core
  <1>3. Later(s) = NoCallback /\ Now(s) = NoCallback
    BY Zenon DEF Stage
  <1>4. "lastblk" # NoCallback /\ "nextblk" # NoCallback /\ "lastblk" # "nextblk"
    BY DEF NoCallback
  <1>5. Later(s0) = "lastblk" /\ Now(s0) = NoCallback /\ Stage(s0) = "lastblk"
        /\ Sent(s0) = Sent(s)
    <2>1. Later(s0) = "lastblk" /\ Now(s0) = Now(s) /\ Sent(s0) = Sent(s)
      BY Zenon, <1>1 DEF Later, Now, Sent
    <2> QED
      BY Zenon, <1>3, <1>4, <2>1 DEF Stage
  <1>6. Sent(s).nextblk = s.nextblk /\ s.stored.nextblk = s.nextblk
    BY Zenon, <1>2, <1>3, <1>4 DEF Tuples
  <1>7. /\ s.nextblk \in Nat /\ Sent(s) \in MTuple /\ s.stored \in MTuple
    <2>1. s.stored \in MTuple /\ s.storing \in MTuple
      BY DEF Handling, ProcWith
    <2>2. Sent(s) \in MTuple
      BY Zenon, <2>1 DEF Sent
    <2> QED
      BY <2>1, <2>2 DEF Handling, ProcWith
  <1>8. Tuples(s0)
    <2>1. /\ s0.latest.generation = Sent(s0).generation + 1
          /\ s0.pid > 0 /\ s0.latest.nextblk = s0.nextblk
          /\ s0.stored.lastblk < s0.stored.nextblk /\ Sent(s0).lastblk < Sent(s0).nextblk
          /\ Upto(Sent(s), s.latest)
      BY Zenon, <1>1, <1>2, <1>5 DEF Tuples
    <2>2. Sent(s).lastblk <= s.nextblk - 1 /\ s.nextblk - 1 < s.nextblk
      BY <1>5, <1>6, <1>7, <2>1 DEF MTuple
    <2>3. Upto(Sent(s0), s0.latest) /\ s0.lastblk < s0.nextblk
          /\ s0.latest.lastblk = s0.lastblk
      BY Zenon, <1>1, <1>5, <2>1, <2>2 DEF Upto
    <2>4. s0.write_inprogress => /\ s0.storing.generation = s0.stored.generation + 1
                                 /\ Upto(s0.stored, s0.storing)
      BY Zenon, <1>1, <1>2 DEF Tuples
    <2>5. Sent(s0).nextblk = s0.nextblk /\ s0.stored.nextblk = s0.nextblk
      BY Zenon, <1>1, <1>5, <1>6
    <2> QED
      BY Zenon, <1>4, <1>5, <2>1, <2>3, <2>4, <2>5 DEF Tuples
  <1>9. Appending(s0)
    <2>1. s0.append.nblks # 0 /\ s0.append.nblks_left = 0
          /\ s0.append.nblks_left <= s0.append.nblks
      BY <1>1 DEF Handling, ProcWith
    <2>2. Stage(s0) # "nextblk" /\ Now(s0) # "lastblk"
      BY <1>4, <1>5
    <2>3. s0.append.nblks <= MaxAppend /\ s0.append.old + s0.append.nblks = s0.nextblk
      BY Zenon, <1>1, <1>2 DEF Appending
    <2> QED
      BY Zenon, <1>1, <1>5, <2>1, <2>2, <2>3 DEF Appending
  <1>10. Deleting(s0)
    BY Zenon, <1>1, <1>2 DEF Deleting, Limits
  <1>11. Asking(s0)
    BY <1>1 DEF Asking
  <1>12. Core(s0) /\ Stage(s0) = "lastblk"
    BY Zenon, <1>5, <1>8, <1>9, <1>10, <1>11 DEF Core
  <1> QED
    BY <1>12 DEF s0

\* The metadata is stored, before the callbacks.
Stored0(s) == [s EXCEPT !.write_inprogress = FALSE, !.stored = s.storing]

\* The callback of the APPEND has been called.
Called(s) == CallbackState(Stored0(s))

\* What callback_writemetadata and the callback of the APPEND set.
LEMMA CalledFields ==
    ASSUME NEW s \in Handling, s.out = {}
    PROVE  LET s1 == Called(s) IN
           /\ s1 \in Handling
           /\ s1.phase = s.phase /\ s1.pid = s.pid /\ s1.conn = s.conn /\ s1.gets = s.gets
           /\ s1.nextblk = s.nextblk /\ s1.lastblk = s.lastblk
           /\ s1.append = IF s.storing.cb = "lastblk" THEN NoAppend ELSE s.append
           /\ s1.N = s.N /\ s1.M = s.M /\ s1.ip = s.ip /\ s1.flushed = s.flushed
           /\ s1.shuttingdown = s.shuttingdown /\ s1.shutdown = s.shutdown
           /\ s1.stored = s.storing /\ s1.storing = s.storing /\ s1.latest = s.latest
           /\ ~s1.write_inprogress /\ s1.write_wanted = s.write_wanted
           /\ s1.out = IF s.storing.cb = "nextblk" THEN NewPuts(s) ELSE {}
  <1> DEFINE s0 == Stored0(s)
             s1 == Called(s)
  <1>1. s.storing \in MTuple
    BY DEF Handling, ProcWith
  <1>2. s0 \in Handling
    <2>1. \A u \in Handling : [u EXCEPT !.write_inprogress = FALSE] \in Handling
      BY Zenon DEF Handling, ProcWith
    <2>2. \A u \in Handling : \A x \in MTuple : [u EXCEPT !.stored = x] \in Handling
      BY DEF Handling, ProcWith
    <2> QED
      BY Zenon, <1>1, <2>1, <2>2 DEF Stored0
  <1>3. /\ s0.phase = s.phase /\ s0.pid = s.pid /\ s0.conn = s.conn /\ s0.gets = s.gets
        /\ s0.nextblk = s.nextblk /\ s0.lastblk = s.lastblk /\ s0.append = s.append
        /\ s0.N = s.N /\ s0.M = s.M /\ s0.ip = s.ip /\ s0.flushed = s.flushed
        /\ s0.shuttingdown = s.shuttingdown /\ s0.shutdown = s.shutdown
        /\ s0.stored = s.storing /\ s0.storing = s.storing /\ s0.latest = s.latest
        /\ ~s0.write_inprogress /\ s0.write_wanted = s.write_wanted
        /\ s0.out = s.out
    BY Zenon DEF Stored0, Handling, ProcWith
  <1> HIDE DEF s0
  <1>4. "lastblk" # NoCallback /\ "nextblk" # NoCallback /\ "lastblk" # "nextblk"
    BY DEF NoCallback
  <1>5. s.storing.cb \in {NoCallback, "nextblk", "lastblk"}
    BY <1>1 DEF MTuple
  <1>6. CASE s.storing.cb = "nextblk"
    <2>1. s1 = [s0 EXCEPT !.out = @ \cup NewPuts(s0)]
      <3>1. s1 = callback_append_put_nextblk(s0)
        BY <1>3, <1>4, <1>6 DEF Called, CallbackState, s0
      <3> QED
        BY Zenon, <3>1 DEF callback_append_put_nextblk, NewPuts
    <2>2. NewPuts(s0) = NewPuts(s)
      BY Zenon, <1>3 DEF NewPuts
    <2>3. s1 = [s0 EXCEPT !.out = NewPuts(s)]
      BY Zenon, <1>3, <2>1, <2>2
    <2>4. NewPuts(s) \in SUBSET Outs
      <3>1. s.append.old \in Nat /\ s.append.nblks \in Nat
        BY DEF Handling, ProcWith
      <3>2. \A b \in s.append.old .. s.append.old + s.append.nblks - 1 : b \in Nat
        BY <3>1
      <3>3. \A b \in Nat : <<"put", <<b>>>> \in Outs
        BY DEF Outs
      <3> QED
        BY Zenon, <3>2, <3>3 DEF NewPuts
    <2> HIDE DEF s1
    <2>5. s1 \in Handling
      BY <1>2, <2>3, <2>4 DEF Handling, ProcWith
    <2>6. /\ s1.phase = s0.phase /\ s1.pid = s0.pid /\ s1.conn = s0.conn /\ s1.gets = s0.gets
          /\ s1.nextblk = s0.nextblk /\ s1.lastblk = s0.lastblk /\ s1.append = s0.append
          /\ s1.N = s0.N /\ s1.M = s0.M /\ s1.ip = s0.ip /\ s1.flushed = s0.flushed
          /\ s1.shuttingdown = s0.shuttingdown /\ s1.shutdown = s0.shutdown
          /\ s1.stored = s0.stored /\ s1.storing = s0.storing /\ s1.latest = s0.latest
          /\ s1.write_inprogress = s0.write_inprogress /\ s1.write_wanted = s0.write_wanted
          /\ s1.out = NewPuts(s)
      BY Zenon, <1>2, <2>3 DEF Handling, ProcWith
    <2>7. s.storing.cb # "lastblk"
      BY <1>4, <1>6
    <2> QED
      BY Zenon, <1>3, <1>6, <2>5, <2>6, <2>7 DEF s1
  <1>7. CASE s.storing.cb = "lastblk"
    <2>1. s1 = [s0 EXCEPT !.append = NoAppend]
      <3>1. s1 = callback_append_put_lastblk(s0)
        BY <1>3, <1>4, <1>7 DEF Called, CallbackState, s0
      <3> QED
        BY Zenon, <3>1 DEF callback_append_put_lastblk
    <2> HIDE DEF s1
    <2>2. s1 \in Handling
      <3>1. NoAppend \in [old : Nat, nblks : Nat, nblks_left : Nat]
        BY DEF NoAppend
      <3> QED
        BY <1>2, <2>1, <3>1 DEF Handling, ProcWith
    <2>3. /\ s1.phase = s0.phase /\ s1.pid = s0.pid /\ s1.conn = s0.conn /\ s1.gets = s0.gets
          /\ s1.nextblk = s0.nextblk /\ s1.lastblk = s0.lastblk /\ s1.append = NoAppend
          /\ s1.N = s0.N /\ s1.M = s0.M /\ s1.ip = s0.ip /\ s1.flushed = s0.flushed
          /\ s1.shuttingdown = s0.shuttingdown /\ s1.shutdown = s0.shutdown
          /\ s1.stored = s0.stored /\ s1.storing = s0.storing /\ s1.latest = s0.latest
          /\ s1.write_inprogress = s0.write_inprogress /\ s1.write_wanted = s0.write_wanted
          /\ s1.out = s0.out
      BY Zenon, <1>2, <2>1 DEF Handling, ProcWith
    <2>4. s.storing.cb # "nextblk"
      BY <1>4, <1>7
    <2> QED
      BY Zenon, <1>3, <1>7, <2>2, <2>3, <2>4 DEF s1
  <1>8. CASE s.storing.cb = NoCallback
    <2>1. s1 = s0
      BY <1>3, <1>4, <1>8 DEF Called, CallbackState, s0
    <2>2. s.storing.cb # "nextblk" /\ s.storing.cb # "lastblk"
      BY <1>4, <1>8
    <2> QED
      BY Zenon, <1>2, <1>3, <2>1, <2>2
  <1> QED
    BY Zenon, <1>5, <1>6, <1>7, <1>8

\* They keep what holds of a process, and the APPEND then waits for nothing that
\* has happened.
LEMMA CalledLocal ==
    ASSUME NEW s \in Handling, s.out = {}, Local(s), s.write_inprogress
    PROVE  Local(Called(s)) /\ Stage(Called(s)) = Later(s) /\ Later(Called(s)) = Later(s)
  <1> DEFINE s1 == Called(s)
  <1>1. /\ s1 \in Handling
        /\ s1.phase = s.phase /\ s1.pid = s.pid
        /\ s1.nextblk = s.nextblk /\ s1.lastblk = s.lastblk
        /\ s1.append = IF s.storing.cb = "lastblk" THEN NoAppend ELSE s.append
        /\ s1.N = s.N /\ s1.M = s.M /\ s1.ip = s.ip /\ s1.flushed = s.flushed
        /\ s1.shuttingdown = s.shuttingdown
        /\ s1.stored = s.storing /\ s1.storing = s.storing /\ s1.latest = s.latest
        /\ ~s1.write_inprogress /\ s1.write_wanted = s.write_wanted
        /\ s1.out = IF s.storing.cb = "nextblk" THEN NewPuts(s) ELSE {}
    BY Zenon, CalledFields
  <1> HIDE DEF s1
  <1>2. Tuples(s) /\ Appending(s) /\ Deleting(s) /\ Flushed(s)
    BY Zenon DEF Local, Core
  <1>3. "lastblk" # NoCallback /\ "nextblk" # NoCallback /\ "lastblk" # "nextblk"
    BY DEF NoCallback
  <1>4. /\ Later(s1) = Later(s) /\ Now(s1) = NoCallback /\ Sent(s1) = s.storing
        /\ Stage(s1) = Later(s) /\ Now(s) = s.storing.cb /\ Sent(s) = s.storing
    BY Zenon, <1>1 DEF Later, Now, Sent, Stage
  <1>5. /\ s.stored \in MTuple /\ s.storing \in MTuple /\ s.latest \in MTuple
        /\ s.M \in Nat /\ s.flushed \in Nat
        /\ s.append \in [old : Nat, nblks : Nat, nblks_left : Nat]
        /\ s.nextblk \in Nat
    BY DEF Handling, ProcWith
  <1>6. Upto(s.stored, s.storing) /\ Upto(s.storing, s.latest)
    BY Zenon, <1>2, <1>4 DEF Tuples
  <1>7. Later(s) # NoCallback => s.storing.cb = NoCallback
    BY Zenon, <1>2, <1>4 DEF Appending
  <1>8. Later(s) = "nextblk" => s1.append = s.append
    BY Zenon, <1>1, <1>3, <1>7
  <1>9. Tuples(s1)
    <2>1. /\ s1.pid > 0
          /\ s1.latest.generation = Sent(s1).generation + 1 /\ Upto(Sent(s1), s1.latest)
          /\ s1.latest.nextblk = s1.nextblk /\ s1.latest.lastblk = s1.lastblk
          /\ s1.lastblk < s1.nextblk
          /\ s1.stored.lastblk < s1.stored.nextblk /\ Sent(s1).lastblk < Sent(s1).nextblk
      BY Zenon, <1>1, <1>2, <1>4 DEF Tuples
    <2>2. Sent(s).nextblk = IF Later(s) = "nextblk" THEN s.append.old ELSE s.nextblk
      BY Zenon, <1>2 DEF Tuples
    <2>3. /\ Sent(s1).nextblk = IF Later(s1) = "nextblk" THEN s1.append.old ELSE s1.nextblk
          /\ s1.stored.nextblk = IF Stage(s1) = "nextblk" THEN s1.append.old ELSE s1.nextblk
      BY Zenon, <1>1, <1>4, <1>8, <2>2
    <2> QED
      BY Zenon, <1>1, <2>1, <2>3 DEF Tuples
  <1>10. Appending(s1)
    <2>1. CASE s.storing.cb = "lastblk"
      <3>1. s1.append = NoAppend /\ Stage(s1) = NoCallback
        BY Zenon, <1>1, <1>3, <1>4, <1>7, <2>1
      <3>2. /\ s1.append.nblks = 0 /\ s1.append.nblks_left = 0
            /\ Stage(s1) # "nextblk" /\ Now(s1) # "lastblk"
        BY <1>3, <1>4, <3>1 DEF NoAppend
      <3>3. s1.append.nblks <= MaxAppend /\ s1.append.nblks_left <= s1.append.nblks
            /\ ~(s1.append.nblks > 0)
        BY <3>2, LbsDynamodbAssumption
      <3> QED
        BY Zenon, <1>4, <3>1, <3>2, <3>3 DEF Appending
    <2>2. CASE s.storing.cb = "nextblk"
      <3>1. s1.append = s.append /\ Stage(s1) = NoCallback
        BY Zenon, <1>1, <1>3, <1>4, <1>7, <2>2
      <3>2. s.append.nblks # 0
        <4>1. Stage(s) = "nextblk"
          BY Zenon, <1>3, <1>4, <1>7, <2>2 DEF Stage
        <4> QED
          BY <1>2, <1>3, <4>1 DEF Appending
      <3>3. Stage(s1) # "nextblk" /\ Stage(s1) # "lastblk" /\ Now(s1) # "lastblk"
        BY <1>3, <1>4, <3>1
      <3> QED
        BY Zenon, <1>1, <1>2, <1>4, <3>1, <3>2, <3>3 DEF Appending
    <2>3. CASE s.storing.cb = NoCallback
      <3>1. s1.append = s.append /\ Stage(s1) = Stage(s)
        BY Zenon, <1>1, <1>3, <1>4, <2>3 DEF Stage
      <3>2. Now(s1) # "lastblk"
        BY <1>3, <1>4
      <3> QED
        BY Zenon, <1>1, <1>2, <1>4, <3>1, <3>2 DEF Appending
    <2> QED
      BY <1>5, <2>1, <2>2, <2>3 DEF MTuple
  <1>11. Deleting(s1)
    <2>1. s1.M <= s1.stored.deletedto + MAXUNRECORDED
      <3>1. s.M <= s.stored.deletedto + MAXUNRECORDED
        BY Zenon, <1>2 DEF Deleting, Limits
      <3> QED
        BY <1>1, <1>5, <1>6, <3>1, LbsDynamodbAssumption DEF Upto, MTuple
    <2>2. s1.shuttingdown = 2 =>
             /\ s1.ip = {} /\ s1.latest.deletedto = s1.M
             /\ s1.stored.deletedto = s1.M \/ s1.write_wanted
      <3>1. ASSUME s.shuttingdown = 2
            PROVE  /\ s.ip = {} /\ s.latest.deletedto = s.M
                   /\ s.stored.deletedto = s.M \/ s.write_wanted \/ s.storing.deletedto = s.M
        BY Zenon, <1>2, <3>1 DEF Deleting
      <3>2. s.stored.deletedto = s.M /\ s.latest.deletedto = s.M => s.storing.deletedto = s.M
        BY <1>5, <1>6 DEF Upto, MTuple
      <3> QED
        BY Zenon, <1>1, <3>1, <3>2
    <2> QED
      BY Zenon, <1>1, <1>2, <2>1, <2>2 DEF Deleting, Limits
  <1>12. Flushed(s1)
    <2>1. s.flushed <= s.storing.deletedto \/ s.write_wanted
      <3>1. s.flushed <= s.stored.deletedto => s.flushed <= s.storing.deletedto
        BY <1>5, <1>6 DEF Upto, MTuple
      <3> QED
        BY Zenon, <1>2, <3>1 DEF Flushed
    <2> QED
      BY Zenon, <1>1, <2>1 DEF Flushed
  <1>13. Asking(s1)
    <2> SUFFICES ASSUME NEW o \in s1.out
                 PROVE  /\ o[1] = "put" /\ s1.append.old <= o[2][1] /\ o[2][1] < s1.nextblk
      BY DEF Asking
    <2>1. s.storing.cb = "nextblk" /\ o \in NewPuts(s)
      BY Zenon, <1>1
    <2>2. PICK b \in s.append.old .. s.append.old + s.append.nblks - 1 : o = <<"put", <<b>>>>
      BY Zenon, <2>1 DEF NewPuts
    <2>3. s1.append = s.append /\ s1.nextblk = s.nextblk
      BY Zenon, <1>1, <1>3, <2>1
    <2>4. s.append.nblks > 0 => s.append.old + s.append.nblks = s.nextblk
      BY Zenon, <1>2 DEF Appending
    <2>5. o[1] = "put" /\ o[2][1] = b
      BY <2>2
    <2>6. s.append.old <= b /\ b < s.nextblk
      BY <1>5, <2>2, <2>4
    <2> QED
      BY Zenon, <2>3, <2>5, <2>6
  <1>14. Local(s1) /\ Stage(s1) = Later(s) /\ Later(s1) = Later(s)
    BY Zenon, <1>4, <1>9, <1>10, <1>11, <1>12, <1>13 DEF Local, Core
  <1> QED
    BY <1>14 DEF s1

\* The state after the metadata has been stored.
LEMMA StoredLocal ==
    ASSUME SetFacts, NEW s \in Handling, s.out = {}, Local(s), AtRest(s), s.write_inprogress,
           s.phase \in Working
    PROVE  LET t == MetadataStored(s) IN
           /\ t \in Handling /\ Local(t) /\ AtRest(t)
           /\ Kept(Called(s), t) /\ Asks(Called(s), t)
  <1> DEFINE s1 == Called(s)
             s2 == poke(s1)
             t == MetadataStored(s)
  <1>1. /\ s1 \in Handling /\ s1.phase = s.phase /\ s1.write_wanted = s.write_wanted
        /\ ~s1.write_inprogress
    BY Zenon, CalledFields
  <1>2. Local(s1) /\ Later(s1) = Later(s)
    BY Zenon, CalledLocal
  <1>3. t = IF s2.write_wanted THEN writemetadata(s2) ELSE s2
    BY Zenon DEF MetadataStored, Called, Stored0
  <1> HIDE DEF s1
  <1>4. Poked(s1, s2)
    BY Zenon, <1>1, <1>2, PokeLocal
  <1> HIDE DEF s2, t
  <1>5. /\ s2 \in Handling /\ Local(s2) /\ Kept(s1, s2) /\ Asks(s1, s2)
        /\ s2.phase = "running" => s2.M >= s2.N \/ s2.ip # {} \/ s2.write_inprogress
                                   \/ s2.write_wanted
        /\ s2.phase = "stopping" => s2.shutdown \/ s2.ip # {} \/ s2.write_inprogress
                                    \/ s2.write_wanted
    BY Zenon, <1>4 DEF Poked
  <1>6. Later(s2) # NoCallback => s2.write_wanted
    <2>1. Later(s1) # NoCallback => s1.write_wanted
      BY Zenon, <1>1, <1>2 DEF AtRest
    <2> QED
      BY Zenon, <1>4, <2>1 DEF Poked
  <1>7. CASE s2.write_wanted
    <2>1. t = writemetadata(s2)
      BY Zenon, <1>3, <1>7
    <2>2. t \in Handling /\ Wrote(s2, t) /\ Core(s2)
      BY Zenon, <1>5, <2>1, WriteType, WriteFields DEF Local
    <2>3. /\ Local(t) /\ Kept(s2, t) /\ Asks(s2, t)
          /\ t.write_inprogress /\ (Later(t) # NoCallback => t.write_wanted)
      BY Zenon, <1>5, <2>2, WriteLocal
    <2>4. Kept(s1, t) /\ Asks(s1, t)
      BY Zenon, <1>1, <1>5, <2>2, <2>3, KeptTrans, AsksTrans
    <2>5. AtRest(t)
      BY Zenon, <2>3 DEF AtRest
    <2> QED
      BY Zenon, <2>2, <2>3, <2>4, <2>5 DEF s1, t
  <1>8. CASE ~s2.write_wanted
    <2>1. t = s2
      BY Zenon, <1>3, <1>8
    <2>2. AtRest(t)
      BY Zenon, <1>5, <1>6, <1>8, <2>1 DEF AtRest
    <2> QED
      BY Zenon, <1>5, <2>1, <2>2 DEF s1, t
  <1> QED
    BY Zenon, <1>7, <1>8

(***************************************************************************)
(* The process that owns the metadata                                      *)
(***************************************************************************)
\* What a process is that owns the metadata from now on.
Owning(t, s) ==
    /\ t \in Handling /\ t.phase = "running" /\ t.conn = "accepting" /\ t.out = s.out
    /\ t.latest \in MTuple /\ t.latest.nextblk = s.stored.nextblk
    /\ t.latest.deletedto = s.stored.deletedto /\ t.latest.lastblk = s.stored.lastblk
    /\ t.latest.generation = s.stored.generation + 1 /\ t.latest.cb = s.stored.cb
    /\ t.M = s.stored.deletedto
    /\ t.nextblk = s.stored.nextblk /\ t.lastblk = s.stored.lastblk
    /\ t.stored = s.stored /\ t.pid = s.pid /\ t.append = s.append /\ t.gets = s.gets
    /\ t.ip = s.ip /\ t.N = s.N /\ t.flushed = s.flushed
    /\ t.write_inprogress = s.write_inprogress /\ t.write_wanted = s.write_wanted
    /\ t.shuttingdown = s.shuttingdown

\* What callback_claimmetadata and the initialization of the deleter set.
LEMMA ClaimedFields ==
    ASSUME NEW s \in Handling, NEW t, t = Claimed(s)
    PROVE  Owning(t, s)
  <1> DEFINE L == [s.stored EXCEPT !.generation = s.stored.generation + 1]
             v1 == [s EXCEPT !.phase = "running"]
             v2 == [v1 EXCEPT !.conn = "accepting"]
             v3 == [v2 EXCEPT !.latest = L]
             v4 == [v3 EXCEPT !.M = s.stored.deletedto]
             v5 == [v4 EXCEPT !.nextblk = s.stored.nextblk]
             v6 == [v5 EXCEPT !.lastblk = s.stored.lastblk]
  <1>1. s.stored \in MTuple
    BY DEF Handling, ProcWith
  <1>2. /\ L \in MTuple /\ L.nextblk = s.stored.nextblk /\ L.deletedto = s.stored.deletedto
        /\ L.lastblk = s.stored.lastblk /\ L.generation = s.stored.generation + 1
        /\ L.cb = s.stored.cb
    BY <1>1 DEF MTuple
  <1>3. s.stored.deletedto \in Nat /\ s.stored.nextblk \in Nat /\ s.stored.lastblk \in Nat \cup {-1}
    BY <1>1 DEF MTuple
  <1>4. /\ \A v \in Handling : [v EXCEPT !.phase = "running"] \in Handling
        /\ \A v \in Handling : [v EXCEPT !.conn = "accepting"] \in Handling
        /\ \A v \in Handling : \A x \in MTuple : [v EXCEPT !.latest = x] \in Handling
        /\ \A v \in Handling : \A x \in Nat : [v EXCEPT !.M = x] \in Handling
        /\ \A v \in Handling : \A x \in Nat : [v EXCEPT !.nextblk = x] \in Handling
        /\ \A v \in Handling : \A x \in Nat \cup {-1} : [v EXCEPT !.lastblk = x] \in Handling
    BY DEF Handling, ProcWith
  <1> HIDE DEF L
  <1>5. t = v6
    BY Zenon DEF Claimed, L
  <1>6. v1 \in Handling
    BY <1>4
  <1> HIDE DEF v1
  <1>7. v2 \in Handling
    BY <1>4, <1>6
  <1> HIDE DEF v2
  <1>8. v3 \in Handling
    BY <1>2, <1>4, <1>7
  <1> HIDE DEF v3
  <1>9. v4 \in Handling
    BY <1>3, <1>4, <1>8
  <1> HIDE DEF v4
  <1>10. v5 \in Handling
    BY <1>3, <1>4, <1>9
  <1> HIDE DEF v5
  <1>11. v6 \in Handling
    BY <1>3, <1>4, <1>10
  <1> HIDE DEF v6
  <1>12. /\ t.phase = "running" /\ t.conn = "accepting" /\ t.out = s.out
         /\ t.latest = L /\ t.M = s.stored.deletedto
         /\ t.nextblk = s.stored.nextblk /\ t.lastblk = s.stored.lastblk
         /\ t.stored = s.stored /\ t.pid = s.pid /\ t.append = s.append /\ t.gets = s.gets
         /\ t.ip = s.ip /\ t.N = s.N /\ t.flushed = s.flushed
         /\ t.write_inprogress = s.write_inprogress /\ t.write_wanted = s.write_wanted
         /\ t.shuttingdown = s.shuttingdown
    BY DEF Claimed, L, Handling, ProcWith
  <1> QED
    BY Zenon, <1>2, <1>5, <1>11, <1>12 DEF Owning

\* The process begins its work in a state in which it should be.
LEMMA ClaimedLocal ==
    ASSUME SetFacts, NEW s \in Handling, Fresh(s), s.phase = "claiming", s.out = {},
           s.stored.lastblk < s.stored.nextblk, NEW t, Owning(t, s)
    PROVE  Local(t) /\ AtRest(t)
  <1>1. /\ s.pid > 0 /\ s.stored.cb = NoCallback /\ ~s.write_inprogress /\ ~s.write_wanted
        /\ s.append = NoAppend /\ s.N = 0 /\ s.flushed = 0 /\ s.ip = {} /\ s.shuttingdown = 0
    BY Zenon DEF Fresh
  <1>2. /\ s.stored.nextblk \in Nat /\ s.stored.deletedto \in Nat
        /\ s.stored.generation \in Nat /\ s.stored.lastblk \in Nat \cup {-1}
    BY DEF Handling, ProcWith, MTuple
  <1>3. /\ t.phase = "running" /\ t.out = {}
        /\ t.latest.nextblk = s.stored.nextblk
        /\ t.latest.deletedto = s.stored.deletedto /\ t.latest.lastblk = s.stored.lastblk
        /\ t.latest.generation = s.stored.generation + 1 /\ t.latest.cb = NoCallback
        /\ t.M = s.stored.deletedto
        /\ t.nextblk = s.stored.nextblk /\ t.lastblk = s.stored.lastblk
        /\ t.stored = s.stored /\ t.pid = s.pid /\ t.append = NoAppend
        /\ t.ip = {} /\ t.N = 0 /\ t.flushed = 0
        /\ ~t.write_inprogress /\ ~t.write_wanted /\ t.shuttingdown = 0
    BY Zenon, <1>1 DEF Owning
  <1>4. Sent(t) = s.stored /\ Now(t) = NoCallback /\ Later(t) = NoCallback /\ Stage(t) = NoCallback
    BY <1>3 DEF Sent, Now, Later, Stage
  <1>5. Tuples(t)
    BY <1>1, <1>2, <1>3, <1>4 DEF Tuples, Upto, NoCallback
  <1>6. Appending(t)
    BY <1>1, <1>3, <1>4, LbsDynamodbAssumption DEF Appending, NoAppend, NoCallback
  <1>7. Deleting(t)
    <2>1. IsFiniteSet(t.ip) /\ Cardinality(t.ip) <= MAXINPROGRESS
      <3>1. IsFiniteSet({}) /\ Cardinality({}) = 0
        BY Zenon DEF SetFacts, EmptySize
      <3> QED
        BY <1>3, <3>1, LbsDynamodbAssumption
    <2>2. t.M <= t.stored.deletedto + MAXUNRECORDED
      BY <1>2, <1>3, LbsDynamodbAssumption
    <2> QED
      BY <1>2, <1>3, <2>1, <2>2 DEF Deleting, Limits
  <1>8. Asking(t)
    BY <1>3 DEF Asking
  <1>9. Flushed(t)
    BY <1>2, <1>3 DEF Flushed
  <1>10. AtRest(t)
    BY <1>2, <1>3, <1>4 DEF AtRest
  <1> QED
    BY Zenon, <1>5, <1>6, <1>7, <1>8, <1>9, <1>10 DEF Local, Core

(***************************************************************************)
(* A process ends                                                          *)
(***************************************************************************)
\* The process p is gone: what is left of it.
Left(p) ==
    LET s == proc[p]
        u == proc'[p]
    IN /\ p \in Daemons /\ proc' \in [Daemons -> ProcWith({{}})]
       /\ \A q \in Daemons \ {p} : proc'[q] = proc[q]
       /\ u.phase \in {"done", "exited"} /\ u.conn = "none"
       /\ u.pid = s.pid /\ u.stored = s.stored /\ u.storing = s.storing
       /\ u.write_inprogress = s.write_inprogress
       /\ u.append = s.append /\ u.M = s.M /\ u.ip = s.ip
       /\ \A m \in net' : \E n \in net :
             /\ m.p = n.p /\ m.op = n.op /\ m.arg = n.arg /\ m.live \in BOOLEAN
             /\ m = [p |-> m.p, op |-> m.op, arg |-> m.arg, live |-> m.live]
             /\ m.live => m = n /\ n.p # p
       /\ \A n \in net : n.p # p => n \in net'
       /\ \A a : a \in ans' <=> a \in ans /\ a.p # p
       /\ md' = md /\ data' = data /\ run' = run /\ pids' = pids
       /\ acked' = acked /\ freed' = freed /\ written' = written
       /\ deleted' = deleted /\ denied' = denied

\* What a process leaves behind that exits or stops: requests nobody waits for.
LEMMA GoneLeft ==
    ASSUME Types, NEW p \in Daemons, NEW ph \in {"done", "exited"}, Gone(p, ph),
           UNCHANGED <<dynamo, run, pids, acked, freed, deleted, denied>>
    PROVE  Left(p)
  <1> DEFINE u == [proc[p] EXCEPT !.phase = ph, !.conn = "none"]
  <1>1. proc \in [Daemons -> ProcWith({{}})]
    BY Zenon DEF Types
  <1>2. proc[p] \in ProcWith({{}})
    BY Zenon, <1>1
  <1>3. proc' = [proc EXCEPT ![p] = u]
    <2> DEFINE f == [proc EXCEPT ![p] = [proc[p] EXCEPT !.phase = ph]]
    <2>1. proc' = [f EXCEPT ![p] = [f[p] EXCEPT !.conn = "none"]]
      BY Zenon DEF Gone
    <2>2. f[p] = [proc[p] EXCEPT !.phase = ph]
      BY Zenon, <1>1
    <2>3. proc' = [f EXCEPT ![p] = u]
      BY Zenon, <2>1, <2>2
    <2> HIDE DEF u
    <2>4. [f EXCEPT ![p] = u] = [proc EXCEPT ![p] = u]
      BY Zenon, <1>1
    <2> QED
      BY Zenon, <2>3, <2>4
  <1>4. /\ \A v \in ProcWith({{}}) : [v EXCEPT !.phase = ph] \in ProcWith({{}})
        /\ \A v \in ProcWith({{}}) : [v EXCEPT !.conn = "none"] \in ProcWith({{}})
    BY DEF ProcWith
  <1>5. u = [[proc[p] EXCEPT !.phase = ph] EXCEPT !.conn = "none"]
    OBVIOUS
  <1>6. u \in ProcWith({{}})
    BY Zenon, <1>2, <1>4, <1>5
  <1>7. /\ u.phase = ph /\ u.conn = "none" /\ u.pid = proc[p].pid
        /\ u.stored = proc[p].stored /\ u.storing = proc[p].storing
        /\ u.write_inprogress = proc[p].write_inprogress
        /\ u.append = proc[p].append /\ u.M = proc[p].M /\ u.ip = proc[p].ip
    BY <1>2 DEF ProcWith
  <1> HIDE DEF u
  <1>8. /\ proc' \in [Daemons -> ProcWith({{}})] /\ proc'[p] = u
        /\ \A q \in Daemons \ {p} : proc'[q] = proc[q]
    BY Zenon, <1>1, <1>3, <1>6
  <1>9. /\ md' = md /\ data' = data /\ run' = run /\ pids' = pids
        /\ acked' = acked /\ freed' = freed /\ deleted' = deleted /\ denied' = denied
    BY DEF dynamo
  <1>10. written' = written /\ \A a : a \in ans' <=> a \in ans /\ a.p # p
    BY DEF Gone
  <1>11. \A n \in net : /\ n = [p |-> n.p, op |-> n.op, arg |-> n.arg, live |-> n.live]
                        /\ n.live \in BOOLEAN
    BY Zenon DEF Types
  <1>12. ASSUME NEW n \in net
         PROVE  LET m == [n EXCEPT !.live = @ /\ n.p # p] IN
                /\ m = [p |-> n.p, op |-> n.op, arg |-> n.arg, live |-> (n.live /\ n.p # p)]
                /\ m.p = n.p /\ m.op = n.op /\ m.arg = n.arg /\ m.live \in BOOLEAN
                /\ m = [p |-> m.p, op |-> m.op, arg |-> m.arg, live |-> m.live]
                /\ m.live <=> n.live /\ n.p # p
                /\ n.p # p => m = n
    <2> DEFINE l == n.live /\ n.p # p
               r == [p |-> n.p, op |-> n.op, arg |-> n.arg, live |-> n.live]
    <2>1. n = r
      BY Zenon, <1>11
    <2>2. l \in BOOLEAN /\ (n.p # p => l = n.live)
      BY <1>11
    <2>3. [n EXCEPT !.live = @ /\ n.p # p] = [n EXCEPT !.live = l]
      OBVIOUS
    <2> HIDE DEF l
    <2>4. [r EXCEPT !.live = l] = [p |-> n.p, op |-> n.op, arg |-> n.arg, live |-> l]
      OBVIOUS
    <2> HIDE DEF r
    <2> DEFINE m == [p |-> n.p, op |-> n.op, arg |-> n.arg, live |-> l]
    <2>5. [n EXCEPT !.live = @ /\ n.p # p] = m
      BY Zenon, <2>1, <2>3, <2>4
    <2>6. /\ m.p = n.p /\ m.op = n.op /\ m.arg = n.arg /\ m.live = l
          /\ m = [p |-> m.p, op |-> m.op, arg |-> m.arg, live |-> m.live]
      BY Zenon
    <2>7. n.p # p => m = n
      BY Zenon, <2>1, <2>2 DEF r
    <2>8. m.live \in BOOLEAN
      BY Zenon, <2>2, <2>6
    <2>9. m.live <=> n.live /\ n.p # p
      BY Zenon, <2>6 DEF l
    <2>10. m = [p |-> n.p, op |-> n.op, arg |-> n.arg, live |-> (n.live /\ n.p # p)]
      BY Zenon DEF l
    <2> HIDE DEF m
    <2> QED
      BY Zenon, <2>5, <2>6, <2>7, <2>8, <2>9, <2>10
  <1>13. net' = {[m EXCEPT !.live = @ /\ m.p # p] : m \in net}
    BY Zenon DEF Gone
  <1>14. \A m \in net' : \E n \in net :
            /\ m.p = n.p /\ m.op = n.op /\ m.arg = n.arg /\ m.live \in BOOLEAN
            /\ m = [p |-> m.p, op |-> m.op, arg |-> m.arg, live |-> m.live]
            /\ m.live => m = n /\ n.p # p
    <2> TAKE m \in net'
    <2>1. PICK n \in net : m = [n EXCEPT !.live = @ /\ n.p # p]
      BY Zenon, <1>13
    <2> QED
      BY Zenon, <1>12, <2>1
  <1>15. \A n \in net : n.p # p => n \in net'
    BY Zenon, <1>12, <1>13
  <1> QED
    BY Zenon, <1>7, <1>8, <1>9, <1>10, <1>14, <1>15 DEF Left

\* Such a process does no work and nothing is under way for it.
LEMMA LeftWorking ==
    ASSUME NEW p, Left(p)
    PROVE  /\ proc'[p].phase \notin Working /\ proc'[p].phase \notin {"off", "reading", "claiming"}
           /\ \A m \in net' : m.live => m \in net /\ m.p # p
           /\ \A a \in ans' : a \in ans /\ a.p # p
  <1>1. proc'[p].phase \in {"done", "exited"}
    BY Zenon DEF Left
  <1>2. proc'[p].phase \notin Working /\ proc'[p].phase \notin {"off", "reading", "claiming"}
    BY <1>1 DEF Working
  <1> QED
    BY Zenon, <1>2 DEF Left

\* When a process is gone the types hold.
LEMMA LeftTypes ==
    ASSUME Types, NEW p, Left(p)
    PROVE  Types'
  <1>1. ASSUME NEW m \in net'
        PROVE  /\ m = [p |-> m.p, op |-> m.op, arg |-> m.arg, live |-> m.live]
               /\ m.p \in Daemons /\ m.live \in BOOLEAN /\ ArgOK(m.op, m.arg)
    BY Zenon DEF Left, Types
  <1>2. \A a \in ans' : a.p \in Daemons /\ ArgOK(a.op, a.arg)
    BY Zenon DEF Left, Types
  <1>3. Blocks' = Blocks
    BY Zenon DEF Left, Blocks
  <1> QED
    BY Zenon, <1>1, <1>2, <1>3 DEF Left, Types

\* When a process is gone the others are as they were.
LEMMA LeftProc ==
    ASSUME Types, ProcInv, NEW p, Left(p)
    PROVE  ProcInv'
  <1>1. run' = run /\ freed' = freed /\ Blocks' = Blocks /\ p \in Daemons
    BY Zenon DEF Left, Blocks
  <1>2. OneProc(proc[p])'
    <2>1. Limits(proc[p]) /\ proc[p].append.nblks_left <= MaxAppend /\ proc[p].ip \subseteq Blocks
      BY Zenon, <1>1 DEF ProcInv, OneProc
    <2>2. Limits(proc'[p])
      BY Zenon, <2>1 DEF Limits, Left
    <2>3. proc'[p].append.nblks_left <= MaxAppend /\ proc'[p].ip \subseteq Blocks /\ proc'[p].conn = "none"
      BY Zenon, <2>1 DEF Left
    <2> QED
      BY Zenon, <1>1, <2>2, <2>3, LeftWorking DEF OneProc
  <1>3. ASSUME NEW q \in Daemons, q # p PROVE OneProc(proc[q])'
    <2>1. proc'[q] = proc[q] /\ OneProc(proc[q])
      BY Zenon, <1>3 DEF Left, ProcInv
    <2> QED
      BY Zenon, <1>1, <2>1 DEF OneProc
  <1> QED
    BY Zenon, <1>2, <1>3 DEF ProcInv

\* When a process is gone the requests of the others are still single.
LEMMA LeftAlone ==
    ASSUME Alone, NEW p, Left(p)
    PROVE  Alone'
  <1>1. /\ \A m, n \in net' : m.live /\ n.live /\ Twins(m, n) => m = n
        /\ \A m \in net' : \A a \in ans' : m.live => ~Twins(m, a)
        /\ \A a, b \in ans' : Twins(a, b) => a = b
    BY Zenon, LeftWorking DEF Alone
  <1> QED
    BY Zenon, <1>1 DEF Alone

\* When a process is gone a compare-and-swap of it may still be served, as its
\* last write.
LEMMA LeftIcas ==
    ASSUME Types, IcasInv, NEW p, Left(p)
    PROVE  IcasInv'
  <1>1. /\ md' = md /\ run' = run /\ pids' = pids /\ deleted' = deleted /\ freed' = freed
        /\ \A q \in Daemons : proc'[q].pid = proc[q].pid
    BY Zenon DEF Left
  <1>2. \A x : (Good(x)' <=> Good(x)) /\ (Past(x)' <=> Past(x))
    BY Zenon, <1>1 DEF Good, Past
  <1>3. ASSUME NEW m \in net', m.op = "icas" PROVE IcasMsg(m)'
    <2>1. PICK n \in net : /\ m.p = n.p /\ m.op = n.op /\ m.arg = n.arg
                           /\ m.live => m = n /\ n.p # p
      BY Zenon DEF Left
    <2>2. IcasMsg(n) /\ n.p \in Daemons
      BY Zenon, <1>3, <2>1 DEF IcasInv, Types
    <2> DEFINE x == m.arg[1]
               y == m.arg[2]
    <2>3. Current(proc[n.p], x, y) => Current(proc'[n.p], x, y)
      <3>1. CASE n.p = p
        <4>1. /\ proc'[p].write_inprogress = proc[p].write_inprogress
              /\ proc'[p].stored = proc[p].stored /\ proc'[p].storing = proc[p].storing
              /\ proc'[p].pid = proc[p].pid
          BY Zenon DEF Left
        <4>2. proc'[p].phase \notin Working
          BY Zenon, LeftWorking
        <4> QED
          BY Zenon, <3>1, <4>1, <4>2 DEF Current
      <3>2. CASE n.p # p
        BY Zenon, <2>2, <3>2 DEF Left
      <3> QED
        BY <3>1, <3>2
    <2>4. m.live => Asked(proc'[m.p], x, y)
      <3>1. m.live => proc'[m.p] = proc[m.p] /\ n.live
        BY Zenon, <2>1, <2>2 DEF Left
      <3> QED
        BY Zenon, <2>1, <2>2, <3>1 DEF IcasMsg
    <2>5. /\ Claim(x, y) \/ Write(x, y)
          /\ Good(x) /\ Good(y) /\ y.pid > 0
          /\ \A q \in Daemons \ {m.p} : proc[q].pid # y.pid
          /\ y.pid <= proc[m.p].pid
          /\ Past(x) \/ y.pid < proc[m.p].pid \/ Current(proc[m.p], x, y)
      BY Zenon, <2>1, <2>2 DEF IcasMsg
    <2>6. m.p \in Daemons
      BY Zenon, <2>1, <2>2
    <2>7. /\ Good(x)' /\ Good(y)'
          /\ \A q \in Daemons \ {m.p} : proc'[q].pid # y.pid
          /\ y.pid <= proc'[m.p].pid
          /\ Past(x)' \/ y.pid < proc'[m.p].pid \/ Current(proc'[m.p], x, y)
      BY Zenon, <1>1, <1>2, <2>1, <2>3, <2>5, <2>6
    <2> QED
      BY Zenon, <2>4, <2>5, <2>7 DEF IcasMsg
  <1>4. ASSUME NEW a \in ans', a.op = "icas" PROVE IcasAns(a)'
    <2>1. a \in ans /\ a.p # p /\ a.p \in Daemons
      BY Zenon, LeftWorking DEF Types
    <2>2. IcasAns(a) /\ proc'[a.p] = proc[a.p]
      BY Zenon, <1>4, <2>1 DEF IcasInv, Left
    <2> QED
      BY Zenon, <1>1, <1>2, <2>2 DEF IcasAns
  <1> QED
    BY Zenon, <1>3, <1>4 DEF IcasInv

\* When a process is gone it may still be the owner in the item.
LEMMA LeftOwner ==
    ASSUME Types, OwnerInv, ReadInv, NEW p, Left(p)
    PROVE  OwnerInv' /\ ReadInv'
  <1>1. /\ md' = md /\ run' = run /\ pids' = pids /\ deleted' = deleted /\ freed' = freed
        /\ \A q \in Daemons : /\ proc'[q].pid = proc[q].pid /\ proc'[q].stored = proc[q].stored
                              /\ proc'[q].storing = proc[q].storing
                              /\ proc'[q].write_inprogress = proc[q].write_inprogress
    BY Zenon DEF Left
  <1>2. \A x : Good(x)' <=> Good(x)
    BY Zenon, <1>1 DEF Good
  <1>3. Good(md)'
    BY Zenon, <1>1, <1>2 DEF OwnerInv, Good
  <1>4. OwnerInv'
    <2>1. /\ \A q \in Daemons : proc'[q].pid <= pids'
          /\ \A q, r \in Daemons : proc'[q].pid = proc'[r].pid /\ proc'[q].pid > 0 => q = r
      BY <1>1 DEF OwnerInv
    <2>2. ASSUME NEW q \in Daemons, md'.pid = proc'[q].pid, proc'[q].pid > 0
          PROVE  \/ md' = Item(proc'[q].stored, proc'[q].pid)
                 \/ proc'[q].write_inprogress /\ md' = Item(proc'[q].storing, proc'[q].pid)
      BY Zenon, <1>1, <2>2 DEF OwnerInv
    <2> QED
      BY Zenon, <1>3, <2>1, <2>2 DEF OwnerInv
  <1>5. \A q \in Daemons : q # p => proc'[q] = proc[q]
    BY Zenon DEF Left
  <1>6. ASSUME NEW m \in net', m.op = "getmd", m.live PROVE proc'[m.p].phase = "reading"
    <2>1. m \in net /\ m.p # p /\ m.p \in Daemons
      BY Zenon, <1>6, LeftWorking DEF Types
    <2> QED
      BY Zenon, <1>5, <1>6, <2>1 DEF ReadInv
  <1>7. \A a \in ans' : a.op = "getmd" =>
          /\ proc'[a.p].phase = "reading" /\ a.res \in ItemRec /\ Good(a.res)'
    BY Zenon, <1>2, <1>5, LeftWorking DEF ReadInv, Types
  <1>8. ReadInv'
    BY Zenon, <1>6, <1>7 DEF ReadInv
  <1> QED
    BY Zenon, <1>4, <1>8

\* When a process is gone the DELETEs of it are still of blocks to free.
LEMMA LeftDelete ==
    ASSUME Types, DeleteInv, NEW p, Left(p)
    PROVE  DeleteInv'
  <1>1. /\ deleted' = deleted /\ freed' = freed
        /\ \A q \in Daemons : q # p => proc'[q] = proc[q]
    BY Zenon DEF Left
  <1>2. \A q \in Daemons : proc'[q].phase \in Working => DoneBelow(proc[q])'
    <2> SUFFICES ASSUME NEW q \in Daemons, proc'[q].phase \in Working PROVE DoneBelow(proc[q])'
      OBVIOUS
    <2>1. q # p
      BY Zenon, LeftWorking
    <2>2. proc'[q] = proc[q] /\ DoneBelow(proc[q])
      BY Zenon, <1>1, <2>1 DEF DeleteInv
    <2> QED
      BY Zenon, <1>1, <2>2 DEF DoneBelow
  <1>3. ASSUME NEW m \in net', m.op = "delete"
        PROVE  /\ m.arg[1] < freed
               /\ m.live => proc'[m.p].phase \in Working /\ m.arg[1] \in proc'[m.p].ip
    <2>1. PICK n \in net : /\ m.p = n.p /\ m.op = n.op /\ m.arg = n.arg
                           /\ m.live => m = n /\ n.p # p
      BY Zenon DEF Left
    <2>2. /\ n.arg[1] < freed /\ n.p \in Daemons
          /\ n.live => proc[n.p].phase \in Working /\ n.arg[1] \in proc[n.p].ip
      BY Zenon, <1>3, <2>1 DEF DeleteInv, Types
    <2> QED
      BY Zenon, <1>1, <2>1, <2>2
  <1>4. \A a \in ans' : a.op = "delete" =>
          /\ a.arg[1] < freed /\ a.arg[1] \in deleted
          /\ proc'[a.p].phase \in Working /\ a.arg[1] \in proc'[a.p].ip
    BY Zenon, <1>1, LeftWorking DEF DeleteInv, Types
  <1> QED
    BY Zenon, <1>1, <1>2, <1>3, <1>4 DEF DeleteInv

\* When a process is gone the APPENDs of the others wait for what they waited for.
LEMMA LeftPut ==
    ASSUME Types, PutInv, NEW p, Left(p)
    PROVE  PutInv'
  <1>1. /\ data' = data /\ freed' = freed /\ Blocks' = Blocks
        /\ \A q \in Daemons : q # p => proc'[q] = proc[q]
    BY Zenon DEF Left, Blocks
  <1>2. ASSUME NEW m \in net', m.op = "put"
        PROVE  /\ m.arg[1] \in Blocks
               /\ m.live => Putting(proc'[m.p]) /\ InRange(proc'[m.p], m.arg[1])
    <2>1. PICK n \in net : /\ m.p = n.p /\ m.op = n.op /\ m.arg = n.arg
                           /\ m.live => m = n /\ n.p # p
      BY Zenon DEF Left
    <2>2. /\ n.arg[1] \in Blocks /\ n.p \in Daemons
          /\ n.live => Putting(proc[n.p]) /\ InRange(proc[n.p], n.arg[1])
      BY Zenon, <1>2, <2>1 DEF PutInv, Types
    <2> QED
      BY Zenon, <1>1, <2>1, <2>2
  <1>3. ASSUME NEW a \in ans', a.op = "put"
        PROVE  /\ Putting(proc'[a.p]) /\ InRange(proc'[a.p], a.arg[1])
               /\ a.arg[1] \in data \/ a.arg[1] < freed
    <2>1. a \in ans /\ a.p # p /\ a.p \in Daemons
      BY Zenon, LeftWorking DEF Types
    <2> QED
      BY Zenon, <1>1, <1>3, <2>1 DEF PutInv
  <1>4. ASSUME NEW q \in Daemons PROVE PutProc(q)'
    <2>1. CASE q = p
      <3>1. proc'[q].phase \notin Working
        BY Zenon, <2>1, LeftWorking
      <3> QED
        BY Zenon, <3>1 DEF PutProc, Putting
    <2>2. CASE q # p
      <3>1. proc'[q] = proc[q] /\ PutProc(q)
        BY Zenon, <1>1, <2>2 DEF PutInv
      <3>2. \A b : (\E m \in net' : m.p = q /\ m.op = "put" /\ m.live /\ m.arg[1] = b) <=>
                   (\E m \in net : m.p = q /\ m.op = "put" /\ m.live /\ m.arg[1] = b)
        <4>1. \A m \in net : m.p # p => m \in net'
          BY Zenon DEF Left
        <4>2. \A m \in net' : m.live => m \in net
          BY Zenon, LeftWorking
        <4> QED
          BY Zenon, <2>2, <4>1, <4>2
      <3>3. \A b : (\E a \in ans' : a.p = q /\ a.op = "put" /\ a.arg[1] = b) <=>
                   (\E a \in ans : a.p = q /\ a.op = "put" /\ a.arg[1] = b)
        BY Zenon, <2>2 DEF Left
      <3>4. Owed(q)' = Owed(q)
        BY <1>1, <3>2, <3>3 DEF Owed
      <3> QED
        BY Zenon, <1>1, <3>1, <3>2, <3>4 DEF PutProc
    <2> QED
      BY <2>1, <2>2
  <1> QED
    BY Zenon, <1>1, <1>2, <1>3, <1>4 DEF PutInv

\* When a process is gone what it acknowledged is still there.
LEMMA LeftAcked ==
    ASSUME Types, AckedInv, NEW p, Left(p)
    PROVE  AckedInv'
  <1>1. /\ data' = data /\ freed' = freed /\ md' = md /\ acked' = acked
        /\ \A q \in Daemons : proc'[q].pid = proc[q].pid /\ proc'[q].stored = proc[q].stored
        /\ \A a \in ans' : a \in ans
    BY Zenon DEF Left
  <1>2. \A b \in acked' : (b >= freed' => b \in data') /\ b <= md'.lastblk
    BY Zenon, <1>1 DEF AckedInv
  <1>3. ASSUME NEW q \in Daemons, md'.pid = proc'[q].pid, proc'[q].pid > 0
        PROVE  /\ \A b \in acked' : b <= proc'[q].stored.lastblk
               /\ \A a \in ans' : a.op = "icas" /\ a.p # q /\ a.res =>
                     a.arg[2].lastblk <= proc'[q].stored.lastblk
    <2>1. md.pid = proc[q].pid /\ proc[q].pid > 0 /\ proc'[q].stored = proc[q].stored
      BY Zenon, <1>1, <1>3
    <2>2. /\ \A b \in acked : b <= proc[q].stored.lastblk
          /\ \A a \in ans : a.op = "icas" /\ a.p # q /\ a.res =>
                a.arg[2].lastblk <= proc[q].stored.lastblk
      BY Zenon, <2>1 DEF AckedInv
    <2> QED
      BY Zenon, <1>1, <2>1, <2>2
  <1> QED
    BY Zenon, <1>2, <1>3 DEF AckedInv

\* When a process is gone no block is granted to it.
LEMMA LeftWritten ==
    ASSUME Types, WrittenInv, NEW p, Left(p)
    PROVE  WrittenInv'
  <1>1. /\ md' = md /\ written' = written
        /\ \A q \in Daemons : q # p => proc'[q] = proc[q]
        /\ \A a \in ans' : a \in ans
    BY Zenon DEF Left
  <1>2. \A q \in Daemons : Granted(q)' => Granted(q) /\ proc'[q] = proc[q]
    <2> SUFFICES ASSUME NEW q \in Daemons, Granted(q)' PROVE Granted(q) /\ proc'[q] = proc[q]
      OBVIOUS
    <2>1. proc'[q].phase \in Working
      BY Zenon DEF Granted
    <2>2. proc'[q] = proc[q]
      BY Zenon, <1>1, <2>1, LeftWorking
    <2> QED
      BY Zenon, <1>1, <2>2 DEF Granted
  <1> HIDE DEF Granted
  <1> QED
    BY Zenon, <1>1, <1>2 DEF WrittenInv, InRange

\* When a process is gone the GETs of the others are as they were.
LEMMA LeftGet ==
    ASSUME Types, GetInv, NEW p, Left(p)
    PROVE  GetInv'
  <1>1. /\ freed' = freed /\ acked' = acked /\ denied' = denied
        /\ \A q \in Daemons : q # p => proc'[q] = proc[q]
    BY Zenon DEF Left
  <1>2. ASSUME NEW m \in net', m.op \in Reads, m.live PROVE GetMsg(m)'
    <2>1. m \in net /\ m.p # p /\ m.p \in Daemons
      BY Zenon, <1>2, LeftWorking DEF Types
    <2>2. GetMsg(m) /\ proc'[m.p] = proc[m.p]
      BY Zenon, <1>1, <1>2, <2>1 DEF GetInv
    <2> QED
      BY Zenon, <2>2 DEF GetMsg
  <1>3. ASSUME NEW a \in ans', a.op \in Reads PROVE GetAns(a)'
    <2>1. a \in ans /\ a.p # p /\ a.p \in Daemons
      BY Zenon, LeftWorking DEF Types
    <2>2. GetAns(a) /\ proc'[a.p] = proc[a.p]
      BY Zenon, <1>1, <1>3, <2>1 DEF GetInv
    <2> QED
      BY Zenon, <1>1, <2>2 DEF GetAns
  <1>4. ASSUME NEW q \in Daemons, proc'[q].phase \in Working PROVE GetProc(proc[q])'
    <2>1. q # p
      BY Zenon, <1>4, LeftWorking
    <2>2. proc'[q] = proc[q] /\ GetProc(proc[q])
      BY Zenon, <1>1, <1>4, <2>1 DEF GetInv
    <2> QED
      BY Zenon, <1>1, <2>2 DEF GetProc
  <1> QED
    BY Zenon, <1>1, <1>2, <1>3, <1>4 DEF GetInv

\* A process waits for what it waited for, if it is as it was.
LEMMA WaitSame ==
    ASSUME NEW q, WaitProc(q), proc'[q] = proc[q],
           \A op : Awaits(q, op) => Awaits(q, op)',
           \A ops, b : AwaitsBlock(q, ops, b) => AwaitsBlock(q, ops, b)'
    PROVE  WaitProc(q)'
  <1>1. /\ proc'[q].phase = "reading" => Awaits(q, "getmd")'
        /\ proc'[q].phase = "claiming" => Awaits(q, "icas")'
    BY Zenon DEF WaitProc
  <1>2. ASSUME proc'[q].phase \in Working
        PROVE  /\ proc'[q].write_inprogress => Awaits(q, "icas")'
               /\ \A b \in proc'[q].ip : AwaitsBlock(q, {"delete"}, b)'
               /\ \A g \in proc'[q].gets : AwaitsBlock(q, Reads, g.blk)'
    <2>1. proc[q].phase \in Working
      BY Zenon, <1>2
    <2> QED
      BY Zenon, <2>1 DEF WaitProc
  <1> QED
    BY Zenon, <1>1, <1>2 DEF WaitProc

\* When a process is gone the others wait for what they waited for.
LEMMA LeftWait ==
    ASSUME Types, WaitInv, NEW p, Left(p)
    PROVE  WaitInv'
  <1>1. \A q \in Daemons : q # p => proc'[q] = proc[q]
    BY Zenon DEF Left
  <1>2. /\ \A n \in net : n.p # p => n \in net'
        /\ \A a \in ans : a.p # p => a \in ans'
    BY Zenon DEF Left
  <1>3. ASSUME NEW q \in Daemons PROVE WaitProc(q)'
    <2>1. CASE q = p
      <3>1. /\ proc'[q].phase \notin Working
            /\ proc'[q].phase # "reading" /\ proc'[q].phase # "claiming"
        BY Zenon, <2>1, LeftWorking
      <3> QED
        BY Zenon, <3>1 DEF WaitProc
    <2>2. CASE q # p
      <3>1. proc'[q] = proc[q] /\ WaitProc(q)
        BY Zenon, <1>1, <2>2 DEF WaitInv
      <3>2. \A op : Awaits(q, op) => Awaits(q, op)'
        BY Zenon, <1>2, <2>2 DEF Awaits
      <3>3. \A ops, b : AwaitsBlock(q, ops, b) => AwaitsBlock(q, ops, b)'
        BY Zenon, <1>2, <2>2 DEF AwaitsBlock
      <3> QED
        BY Zenon, <3>1, <3>2, <3>3, WaitSame
    <2> QED
      BY <2>1, <2>2
  <1> QED
    BY Zenon, <1>3 DEF WaitInv

\* A process that exits or stops keeps the invariant.
LEMMA GoneStep ==
    ASSUME DynInv, NEW p \in Daemons, NEW ph \in {"done", "exited"}, Gone(p, ph),
           UNCHANGED <<dynamo, run, pids, acked, freed, deleted, denied>>
    PROVE  GoodStep
  <1>1. /\ Types /\ ProcInv /\ Alone /\ IcasInv /\ ReadInv /\ OwnerInv /\ DeleteInv
        /\ PutInv /\ AckedInv /\ WrittenInv /\ GetInv /\ WaitInv
    BY Zenon DEF DynInv
  <1>2. Left(p)
    BY Zenon, <1>1, GoneLeft
  <1>3. DynInv'
    BY Zenon, <1>1, <1>2, LeftTypes, LeftProc, LeftAlone, LeftIcas, LeftOwner, LeftDelete,
       LeftPut, LeftAcked, LeftWritten, LeftGet, LeftWait DEF DynInv
  <1>4. Onward
    <2>1. md' = md /\ \A m \in net' : m.live => m \in net
      BY Zenon, <1>2, LeftWorking DEF Left
    <2> QED
      BY Zenon, <2>1 DEF Onward
  <1> QED
    BY Zenon, <1>3, <1>4 DEF GoodStep

\* metadata_free and the end of the process: it keeps the invariant.
LEMMA FreeMetadataStep ==
    ASSUME DynInv, NEW p \in Daemons, metadata_free(p)
    PROVE  GoodStep
  BY Zenon, GoneStep DEF metadata_free

\* A crash of the process keeps the invariant.
LEMMA CrashStep ==
    ASSUME DynInv, NEW p \in Daemons, Crash(p)
    PROVE  GoodStep
  BY Zenon, GoneStep DEF Crash

(***************************************************************************)
(* DynamoDB serves a request                                               *)
(***************************************************************************)
\* The request m is served.
Served(m) ==
    /\ m \in net /\ net' = net \ {m} /\ ans \subseteq ans'
    /\ proc' = proc /\ run' = run /\ pids' = pids /\ acked' = acked /\ freed' = freed
    /\ written' = written /\ denied' = denied /\ Blocks' = Blocks
    /\ deleted \subseteq deleted' /\ (m.op = "delete" => m.arg[1] \in deleted')
    /\ \A b \in data : b \in data' \/ (m.op = "delete" /\ b = m.arg[1])
    /\ \A b \in data' : b \in data \/ (m.op = "put" /\ b = m.arg[1])
    /\ m.op = "put" => m.arg[1] \in data'
    /\ IF m.op = "icas" /\ md = m.arg[1] THEN md' = m.arg[2] ELSE md' = md
    /\ \A a \in ans' \ ans : /\ m.live /\ a.p = m.p /\ a.op = m.op /\ a.arg = m.arg
                             /\ a.res \in Results(m) /\ \A c \in ans' \ ans : c = a
    /\ m.live => \E a \in ans' : a.p = m.p /\ a.op = m.op /\ a.arg = m.arg

\* What the table does with a request.
LEMMA ServeServed ==
    ASSUME NEW m \in net, Serve(m)
    PROVE  Served(m)
  <1>1. /\ net' = net \ {m}
        /\ proc' = proc /\ run' = run /\ pids' = pids /\ acked' = acked /\ freed' = freed
        /\ written' = written /\ denied' = denied
    BY DEF Serve
  <1>2. Blocks' = Blocks
    BY Zenon, <1>1 DEF Blocks
  <1>3. /\ deleted \subseteq deleted' /\ (m.op = "delete" => m.arg[1] \in deleted')
    BY DEF Serve
  <1>4. /\ \A b \in data : b \in data' \/ (m.op = "delete" /\ b = m.arg[1])
        /\ \A b \in data' : b \in data \/ (m.op = "put" /\ b = m.arg[1])
        /\ m.op = "put" => m.arg[1] \in data'
    BY DEF Serve
  <1>5. IF m.op = "icas" /\ md = m.arg[1] THEN md' = m.arg[2] ELSE md' = md
    BY Zenon DEF Serve
  <1>6. PICK r \in Results(m) :
           ans' = IF ~m.live THEN ans
                  ELSE ans \cup {[p |-> m.p, op |-> m.op, arg |-> m.arg, res |-> r]}
    BY Zenon DEF Serve
  <1>7. PICK c : c = [p |-> m.p, op |-> m.op, arg |-> m.arg, res |-> r]
    BY Zenon
  <1>8. c.p = m.p /\ c.op = m.op /\ c.arg = m.arg /\ c.res = r
    BY <1>7
  <1>9. ans' = IF ~m.live THEN ans ELSE ans \cup {c}
    BY Zenon, <1>6, <1>7
  <1>10. /\ ans \subseteq ans' /\ \A a \in ans' \ ans : m.live /\ a = c
         /\ m.live => c \in ans'
    BY <1>9
  <1>11. \A a \in ans' \ ans : /\ m.live /\ a.p = m.p /\ a.op = m.op /\ a.arg = m.arg
                               /\ a.res \in Results(m) /\ \A d \in ans' \ ans : d = a
    BY Zenon, <1>6, <1>8, <1>10
  <1> QED
    BY Zenon, <1>1, <1>2, <1>3, <1>4, <1>5, <1>8, <1>10, <1>11 DEF Served

\* A request that is served keeps the types.
LEMMA ServedTypes ==
    ASSUME Types, PutInv, NEW m, Served(m)
    PROVE  Types' /\ m.p \in Daemons
           /\ (m.op = "icas" => m.arg[1] \in ItemRec /\ m.arg[2] \in ItemRec)
  <1>1. /\ m.p \in Daemons /\ ArgOK(m.op, m.arg)
    BY Zenon DEF Types, Served
  <1>2. m.op = "icas" => m.arg[1] \in ItemRec /\ m.arg[2] \in ItemRec
    <2>1. m.op = "icas" => m.arg \in ItemRec \X ItemRec
      BY Zenon, <1>1 DEF ArgOK
    <2> QED
      BY <2>1
  <1>3. md' \in ItemRec
    BY Zenon, <1>2 DEF Types, Served
  <1>4. data' \subseteq Blocks'
    BY Zenon DEF Types, Served, PutInv
  <1>5. \A n \in net' : n \in net
    BY Zenon DEF Served
  <1>6. \A a \in ans' : a.p \in Daemons /\ ArgOK(a.op, a.arg)
    BY Zenon, <1>1 DEF Types, Served
  <1>7. /\ pids' = pids /\ freed' = freed /\ run' = run /\ acked' = acked /\ written' = written
        /\ denied' = denied /\ proc' = proc /\ Blocks' = Blocks
    BY Zenon DEF Served
  <1>8. \A n \in net' : /\ n = [p |-> n.p, op |-> n.op, arg |-> n.arg, live |-> n.live]
                        /\ n.p \in Daemons /\ n.live \in BOOLEAN /\ ArgOK(n.op, n.arg)
    BY Zenon, <1>5 DEF Types
  <1>9. /\ pids' \in Nat /\ freed' \in Nat /\ run' \in Run
        /\ acked' \subseteq Blocks' /\ written' \subseteq Blocks'
        /\ denied' \subseteq Nat /\ proc' \in [Daemons -> ProcWith({{}})]
    BY Zenon, <1>7 DEF Types
  <1> QED
    BY Zenon, <1>1, <1>2, <1>3, <1>4, <1>6, <1>8, <1>9 DEF Types

\* The answer takes the place of the request.
LEMMA ServedAlone ==
    ASSUME Alone, NEW m, Served(m)
    PROVE  Alone'
  <1>1. /\ m \in net /\ net' = net \ {m} /\ ans \subseteq ans'
        /\ \A a \in ans' \ ans : /\ m.live /\ a.p = m.p /\ a.op = m.op /\ a.arg = m.arg
                                 /\ \A c \in ans' \ ans : c = a
    BY Zenon DEF Served
  <1>2. \A a \in ans' \ ans : \A n : (Twins(n, a) => Twins(n, m)) /\ (Twins(a, n) => Twins(m, n))
    BY Zenon, <1>1 DEF Twins
  <1>3. \A n, a : Twins(n, a) => Twins(a, n)
    BY Zenon DEF Twins, SameKind
  <1>4. \A k, n \in net' : k.live /\ n.live /\ Twins(k, n) => k = n
    BY Zenon, <1>1 DEF Alone
  <1>5. \A a, b \in ans' : Twins(a, b) => a = b
    BY Zenon, <1>1, <1>2, <1>3 DEF Alone
  <1>6. ASSUME NEW n \in net', NEW a \in ans', n.live, Twins(n, a) PROVE FALSE
    <2>1. n \in net /\ n # m
      BY Zenon, <1>1, <1>6
    <2>2. CASE a \in ans
      BY Zenon, <1>6, <2>1, <2>2 DEF Alone
    <2>3. CASE a \notin ans
      BY Zenon, <1>1, <1>2, <1>6, <2>1, <2>3 DEF Alone
    <2> QED
      BY <2>2, <2>3
  <1> QED
    BY Zenon, <1>4, <1>5, <1>6 DEF Alone

\* The metadata stays or moves on.
LEMMA ServedForward ==
    ASSUME Types, IcasInv, PutInv, NEW m, Served(m)
    PROVE  /\ md' = md \/ Claim(md, md') \/ Write(md, md')
           /\ Upto(md, md') /\ \A x \in ItemRec : x = md \/ Past(x) => x = md' \/ Past(x)'
           /\ \A x \in ItemRec : Past(x) => Past(x)'
           /\ \A x \in ItemRec : Upto(x, md) => Upto(x, md')
  <1>1. md' \in ItemRec /\ md \in ItemRec
    BY Zenon, ServedTypes DEF Types
  <1>2. md' = md \/ Claim(md, md') \/ Write(md, md')
    BY Zenon DEF Served, IcasInv, IcasMsg
  <1>3. /\ md.nextblk \in Nat /\ md.deletedto \in Nat /\ md.generation \in Nat
        /\ md.lastblk \in Nat \cup {-1} /\ md.pid \in Nat
        /\ md'.nextblk \in Nat /\ md'.deletedto \in Nat /\ md'.generation \in Nat
        /\ md'.lastblk \in Nat \cup {-1} /\ md'.pid \in Nat
    BY <1>1 DEF ItemRec
  <1>4. Claim(md, md') => /\ md'.nextblk = md.nextblk /\ md'.deletedto = md.deletedto
                          /\ md'.generation = md.generation /\ md'.lastblk = md.lastblk
                          /\ md.pid < md'.pid
    BY <1>1 DEF Claim, ItemRec
  <1>5. Upto(md, md')
    <2>1. CASE md' = md
      BY <1>3, <2>1 DEF Upto
    <2>2. CASE Claim(md, md')
      BY <1>3, <1>4, <2>2 DEF Upto
    <2>3. CASE Write(md, md')
      BY Zenon, <2>3 DEF Write
    <2> QED
      BY <1>2, <2>1, <2>2, <2>3
  <1>6. \/ md' = md
        \/ md'.generation = md.generation /\ md.pid < md'.pid
        \/ md'.generation = md.generation + 1
    BY Zenon, <1>2, <1>4 DEF Write
  <1>7. ASSUME NEW x \in ItemRec, Past(x) PROVE Past(x)'
    <2>1. x.generation \in Nat /\ x.pid \in Nat
      BY DEF ItemRec
    <2>2. \/ md'.generation = md.generation /\ md.pid <= md'.pid
          \/ md'.generation = md.generation + 1
      BY <1>3, <1>6
    <2> QED
      BY <1>3, <1>7, <2>1, <2>2 DEF Past
  <1>8. ASSUME NEW x \in ItemRec, x = md, x # md' PROVE Past(x)'
    <2>1. \/ md'.generation = md.generation /\ md.pid < md'.pid
          \/ md'.generation = md.generation + 1
      BY Zenon, <1>6, <1>8
    <2>2. md.generation < md.generation + 1
      BY <1>3
    <2> QED
      BY Zenon, <1>8, <2>1, <2>2 DEF Past
  <1>9. ASSUME NEW x \in ItemRec, Upto(x, md) PROVE Upto(x, md')
    <2>1. x.nextblk \in Nat /\ x.deletedto \in Nat /\ x.lastblk \in Nat \cup {-1}
      BY DEF ItemRec
    <2> QED
      BY <1>3, <1>5, <1>9, <2>1 DEF Upto
  <1> QED
    BY Zenon, <1>2, <1>5, <1>7, <1>8, <1>9

\* A compare-and-swap that succeeds has stored its item.
LEMMA ServedResult ==
    ASSUME NEW m, Served(m), NEW a \in ans' \ ans, m.op = "icas"
    PROVE  a.res \in BOOLEAN /\ (a.res => md' = a.arg[2])
  <1>1. a.res \in Results(m) /\ a.arg = m.arg
    BY Zenon DEF Served
  <1>2. a.res = (md \in {m.arg[1], m.arg[2]})
    BY <1>1 DEF Results
  <1>3. a.res \in BOOLEAN
    BY <1>2
  <1>4. a.res => md = m.arg[1] \/ md = m.arg[2]
    BY Zenon, <1>2
  <1>5. IF md = m.arg[1] THEN md' = m.arg[2] ELSE md' = md
    BY Zenon DEF Served
  <1> QED
    BY Zenon, <1>1, <1>3, <1>4, <1>5

\* Only the process that asked for it finds its own ID in the metadata.
LEMMA ServedOwn ==
    ASSUME Types, IcasInv, PutInv, NEW m, Served(m), md' # md,
           NEW q \in Daemons, md'.pid = proc[q].pid
    PROVE  q = m.p /\ Current(proc[q], md, md') /\ (Claim(md, md') \/ Write(md, md'))
  <1>1. m.op = "icas" /\ md = m.arg[1] /\ md' = m.arg[2] /\ m \in net
    BY Zenon DEF Served
  <1>2. IcasMsg(m)
    BY Zenon, <1>1 DEF IcasInv
  <1>3. q = m.p
    BY Zenon, <1>1, <1>2 DEF IcasMsg
  <1>4. md.generation \in Nat /\ md.pid \in Nat /\ proc[q].pid \in Nat
    BY DEF Types, ItemRec, ProcWith
  <1>5. ~Past(md) /\ ~(proc[q].pid < proc[q].pid)
    BY <1>4 DEF Past
  <1> QED
    BY Zenon, <1>1, <1>2, <1>3, <1>5 DEF IcasMsg

\* What an item says stays true when a request is served.
LEMMA ServedGood ==
    ASSUME NEW m, Served(m), NEW x, Good(x)
    PROVE  Good(x)'
  <1>1. run' = run /\ pids' = pids /\ freed' = freed /\ deleted \subseteq deleted'
    BY Zenon DEF Served
  <1> QED
    BY Zenon, <1>1 DEF Good

\* The other compare-and-swaps under way are still right: one of a process that
\* lost the metadata compares with an item that is past.
LEMMA ServedIcas ==
    ASSUME Types, IcasInv, PutInv, NEW m, Served(m)
    PROVE  IcasInv'
  <1>1. /\ proc' = proc /\ net' = net \ {m} /\ m \in net
    BY Zenon DEF Served
  <1>2. /\ \A x \in ItemRec : x = md \/ Past(x) => x = md' \/ Past(x)'
        /\ \A x \in ItemRec : Past(x) => Past(x)'
        /\ \A x \in ItemRec : Upto(x, md) => Upto(x, md')
    BY Zenon, ServedForward
  <1>3. ASSUME NEW n \in net', n.op = "icas" PROVE IcasMsg(n)'
    <2>1. IcasMsg(n) /\ n \in net
      BY Zenon, <1>1, <1>3 DEF IcasInv
    <2>2. n.arg \in ItemRec \X ItemRec
      BY Zenon, <1>3, <2>1 DEF Types, ArgOK
    <2>3. n.arg[1] \in ItemRec /\ n.arg[2] \in ItemRec
      BY <2>2
    <2>4. Good(n.arg[1])' /\ Good(n.arg[2])'
      BY Zenon, <2>1, ServedGood DEF IcasMsg
    <2>5. Past(n.arg[1]) => Past(n.arg[1])'
      BY Zenon, <1>2, <2>3
    <2> QED
      BY Zenon, <1>1, <2>1, <2>4, <2>5 DEF IcasMsg
  <1>4. ASSUME NEW a \in ans', a.op = "icas" PROVE IcasAns(a)'
    <2>1. CASE a \in ans
      <3>1. IcasAns(a)
        BY Zenon, <1>4, <2>1 DEF IcasInv
      <3>2. a.arg \in ItemRec \X ItemRec
        BY Zenon, <1>4, <2>1 DEF Types, ArgOK
      <3>3. a.arg[2] \in ItemRec
        BY <3>2
      <3>4. Good(a.arg[2])'
        BY Zenon, <3>1, ServedGood DEF IcasAns
      <3>5. a.res => (a.arg[2] = md' \/ Past(a.arg[2])') /\ Upto(a.arg[2], md')
        BY Zenon, <1>2, <3>1, <3>3 DEF IcasAns
      <3> QED
        BY Zenon, <1>1, <3>1, <3>4, <3>5 DEF IcasAns
    <2>2. CASE a \notin ans
      <3>1. m.live /\ a.p = m.p /\ a.op = m.op /\ a.arg = m.arg
        BY Zenon, <2>2 DEF Served
      <3>2. IcasMsg(m)
        BY Zenon, <1>1, <1>4, <3>1 DEF IcasInv
      <3>3. Asked(proc[a.p], a.arg[1], a.arg[2]) /\ Good(a.arg[2])
        BY Zenon, <3>1, <3>2 DEF IcasMsg
      <3>4. Good(a.arg[2])'
        BY Zenon, <3>3, ServedGood
      <3>5. a.res \in BOOLEAN /\ (a.res => a.arg[2] = md')
        BY Zenon, <1>4, <2>2, <3>1, ServedResult
      <3>6. Upto(md', md')
        <4>1. md' \in ItemRec
          BY Zenon, ServedTypes DEF Types
        <4> QED
          BY <4>1 DEF Upto, ItemRec
      <3> QED
        BY Zenon, <1>1, <3>3, <3>4, <3>5, <3>6 DEF IcasAns
    <2> QED
      BY <2>1, <2>2
  <1> QED
    BY Zenon, <1>3, <1>4 DEF IcasInv

\* The item that is read says only what is true.
LEMMA ServedRead ==
    ASSUME Types, ReadInv, OwnerInv, NEW m, Served(m)
    PROVE  ReadInv'
  <1>1. /\ proc' = proc /\ net' = net \ {m} /\ m \in net
    BY Zenon DEF Served
  <1>2. \A n \in net' : n.op = "getmd" /\ n.live => proc'[n.p].phase = "reading"
    BY Zenon, <1>1 DEF ReadInv
  <1>3. ASSUME NEW a \in ans', a.op = "getmd"
        PROVE  proc'[a.p].phase = "reading" /\ a.res \in ItemRec /\ Good(a.res)'
    <2>1. CASE a \in ans
      BY Zenon, <1>1, <1>3, <2>1, ServedGood DEF ReadInv
    <2>2. CASE a \notin ans
      <3>1. m.live /\ a.p = m.p /\ a.op = m.op /\ a.res \in Results(m)
        BY Zenon, <2>2 DEF Served
      <3>2. a.res = md
        BY <1>3, <3>1 DEF Results
      <3>3. md \in ItemRec /\ Good(md)
        BY Zenon DEF Types, OwnerInv
      <3>4. Good(a.res)
        BY Zenon, <3>2, <3>3
      <3> QED
        BY Zenon, <1>1, <1>3, <3>1, <3>2, <3>3, <3>4, ServedGood DEF ReadInv
    <2> QED
      BY <2>1, <2>2
  <1> QED
    BY Zenon, <1>2, <1>3 DEF ReadInv

\* The owner in the item knows what the item says, or its write is in progress.
LEMMA ServedOwner ==
    ASSUME Types, IcasInv, PutInv, OwnerInv, NEW m, Served(m)
    PROVE  OwnerInv'
  <1>1. /\ proc' = proc /\ pids' = pids /\ m \in net
    BY Zenon DEF Served
  <1>2. Good(md)'
    <2>1. PICK x : x = md'
      BY Zenon
    <2>2. Good(x)
      BY Zenon, <2>1 DEF Served, IcasInv, IcasMsg, OwnerInv
    <2>3. Good(x)'
      BY Zenon, <2>2, ServedGood
    <2> QED
      BY Zenon, <2>1, <2>3 DEF Good
  <1>3. ASSUME NEW q \in Daemons, md'.pid = proc[q].pid, proc[q].pid > 0
        PROVE  \/ md' = Item(proc[q].stored, proc[q].pid)
               \/ proc[q].write_inprogress /\ md' = Item(proc[q].storing, proc[q].pid)
    <2>1. CASE md' = md
      BY Zenon, <1>3, <2>1 DEF OwnerInv
    <2>2. CASE md' # md
      BY Zenon, <1>3, <2>2, ServedOwn DEF Current
    <2> QED
      BY <2>1, <2>2
  <1>4. /\ \A p \in Daemons : proc'[p].pid <= pids'
        /\ \A p, q \in Daemons : proc'[p].pid = proc'[q].pid /\ proc'[p].pid > 0 => p = q
    BY Zenon, <1>1 DEF OwnerInv
  <1> QED
    BY Zenon, <1>1, <1>2, <1>3, <1>4 DEF OwnerInv

\* A DELETE that is served is recorded as served.
LEMMA ServedDelete ==
    ASSUME Types, DeleteInv, NEW m, Served(m)
    PROVE  DeleteInv'
  <1>1. /\ proc' = proc /\ net' = net \ {m} /\ m \in net /\ freed' = freed
        /\ deleted \subseteq deleted'
    BY Zenon DEF Served
  <1>2. \A p \in Daemons : proc'[p].phase \in Working => DoneBelow(proc[p])'
    BY Zenon, <1>1 DEF DeleteInv, DoneBelow
  <1>3. \A n \in net' : n.op = "delete" =>
          /\ n.arg[1] < freed'
          /\ n.live => proc'[n.p].phase \in Working /\ n.arg[1] \in proc'[n.p].ip
    BY Zenon, <1>1 DEF DeleteInv
  <1>4. ASSUME NEW a \in ans', a.op = "delete"
        PROVE  /\ a.arg[1] < freed' /\ a.arg[1] \in deleted'
               /\ proc'[a.p].phase \in Working /\ a.arg[1] \in proc'[a.p].ip
    <2>1. CASE a \in ans
      BY Zenon, <1>1, <1>4, <2>1 DEF DeleteInv
    <2>2. CASE a \notin ans
      <3>1. m.live /\ a.p = m.p /\ a.op = m.op /\ a.arg = m.arg
            /\ (m.op = "delete" => m.arg[1] \in deleted')
        BY Zenon, <2>2 DEF Served
      <3> QED
        BY Zenon, <1>1, <1>4, <3>1 DEF DeleteInv
    <2> QED
      BY <2>1, <2>2
  <1> QED
    BY Zenon, <1>2, <1>3, <1>4 DEF DeleteInv

\* A block is stored, or to free: that stays so.
LEMMA ServedStored ==
    ASSUME DeleteInv, NEW m, Served(m)
    PROVE  \A b : b \in data \/ b < freed => b \in data' \/ b < freed'
  <1>1. m.op = "delete" => m.arg[1] < freed
    BY Zenon DEF Served, DeleteInv
  <1> QED
    BY Zenon, <1>1 DEF Served

\* A block that is PUT is in the table, and no DELETE comes in between unless it
\* is freed.
LEMMA ServedPut ==
    ASSUME Types, DeleteInv, PutInv, NEW m, Served(m)
    PROVE  PutInv'
  <1>1. /\ proc' = proc /\ net' = net \ {m} /\ m \in net /\ freed' = freed
        /\ ans \subseteq ans' /\ Blocks' = Blocks
    BY Zenon DEF Served
  <1>2. \A b : b \in data \/ b < freed => b \in data' \/ b < freed'
    BY Zenon, ServedStored
  <1>3. \A n \in net' : n.op = "put" =>
          /\ n.arg[1] \in Blocks'
          /\ n.live => Putting(proc'[n.p]) /\ InRange(proc'[n.p], n.arg[1])
    BY Zenon, <1>1 DEF PutInv
  <1>4. ASSUME NEW a \in ans', a.op = "put"
        PROVE  /\ Putting(proc'[a.p]) /\ InRange(proc'[a.p], a.arg[1])
               /\ a.arg[1] \in data' \/ a.arg[1] < freed'
    <2>1. CASE a \in ans
      BY Zenon, <1>1, <1>2, <1>4, <2>1 DEF PutInv
    <2>2. CASE a \notin ans
      <3>1. m.live /\ a.p = m.p /\ a.op = m.op /\ a.arg = m.arg
            /\ (m.op = "put" => m.arg[1] \in data')
        BY Zenon, <2>2 DEF Served
      <3> QED
        BY Zenon, <1>1, <1>4, <3>1 DEF PutInv
    <2> QED
      BY <2>1, <2>2
  <1>5. ASSUME NEW p \in Daemons PROVE PutProc(p)'
    <2>1. Owed(p)' = Owed(p)
      <3>1. ASSUME NEW b, \E n \in net : n.p = p /\ n.op = "put" /\ n.live /\ n.arg[1] = b
            PROVE  \/ \E n \in net' : n.p = p /\ n.op = "put" /\ n.live /\ n.arg[1] = b
                   \/ \E a \in ans' : a.p = p /\ a.op = "put" /\ a.arg[1] = b
        <4>1. PICK n \in net : n.p = p /\ n.op = "put" /\ n.live /\ n.arg[1] = b
          BY Zenon, <3>1
        <4>2. CASE n = m
          <5>1. \E a \in ans' : a.p = n.p /\ a.op = n.op /\ a.arg = n.arg
            BY Zenon, <4>1, <4>2 DEF Served
          <5> QED
            BY Zenon, <4>1, <5>1
        <4>3. CASE n # m
          BY Zenon, <1>1, <4>1, <4>3
        <4> QED
          BY <4>2, <4>3
      <3>2. ASSUME NEW b, \E a \in ans' : a.p = p /\ a.op = "put" /\ a.arg[1] = b
            PROVE  \/ \E n \in net : n.p = p /\ n.op = "put" /\ n.live /\ n.arg[1] = b
                   \/ \E a \in ans : a.p = p /\ a.op = "put" /\ a.arg[1] = b
        <4>1. PICK a \in ans' : a.p = p /\ a.op = "put" /\ a.arg[1] = b
          BY Zenon, <3>2
        <4>2. CASE a \in ans
          BY Zenon, <4>1, <4>2
        <4>3. CASE a \notin ans
          <5>1. m.live /\ a.p = m.p /\ a.op = m.op /\ a.arg = m.arg
            BY Zenon, <4>3 DEF Served
          <5> QED
            BY Zenon, <1>1, <4>1, <5>1
        <4> QED
          BY <4>2, <4>3
      <3>3. \A b \in Owed(p) : b \in Owed(p)'
        BY Zenon, <1>1, <3>1 DEF Owed
      <3>4. \A b \in Owed(p)' : b \in Owed(p)
        BY Zenon, <1>1, <3>2 DEF Owed
      <3> QED
        BY Zenon, <3>3, <3>4
    <2>2. PutProc(p)
      BY Zenon DEF PutInv
    <2>3. ASSUME proc[p].phase \in Working, proc[p].append.nblks > 0,
                 Stage(proc[p]) # "nextblk", NEW b \in Blocks, InRange(proc[p], b)
          PROVE  \/ b \in data' \/ b < freed'
                 \/ \E n \in net' : n.p = p /\ n.op = "put" /\ n.live /\ n.arg[1] = b
      <3>1. \/ b \in data \/ b < freed
            \/ \E n \in net : n.p = p /\ n.op = "put" /\ n.live /\ n.arg[1] = b
        BY Zenon, <2>2, <2>3 DEF PutProc
      <3>2. CASE b \in data \/ b < freed
        BY Zenon, <1>2, <3>2
      <3>3. CASE \E n \in net : n.p = p /\ n.op = "put" /\ n.live /\ n.arg[1] = b
        <4>1. m.op = "put" => m.arg[1] \in data'
          BY Zenon DEF Served
        <4> QED
          BY Zenon, <1>1, <3>3, <4>1
      <3> QED
        BY Zenon, <3>1, <3>2, <3>3
    <2>4. Putting(proc'[p]) => /\ proc'[p].append.nblks_left > 0
                               /\ proc'[p].append.nblks_left = Cardinality(Owed(p)')
      BY Zenon, <1>1, <2>1, <2>2 DEF PutProc
    <2> QED
      BY Zenon, <1>1, <2>3, <2>4 DEF PutProc
  <1> QED
    BY Zenon, <1>3, <1>4, <1>5 DEF PutInv

\* What a read answers is a truth value.
LEMMA Found ==
    ASSUME NEW b, NEW S, NEW r, r = (b \in S)
    PROVE  r \in BOOLEAN
  OBVIOUS

\* A consistent read finds a block that was acknowledged before the GET.
LEMMA ServedGet ==
    ASSUME Types, AckedInv, GetInv, NEW m, Served(m)
    PROVE  GetInv'
  <1>1. /\ proc' = proc /\ net' = net \ {m} /\ m \in net /\ freed' = freed /\ acked' = acked
        /\ denied' = denied
    BY Zenon DEF Served
  <1>2. \A n \in net' : n.op \in Reads /\ n.live => GetMsg(n)'
    BY Zenon, <1>1 DEF GetInv, GetMsg
  <1>3. ASSUME NEW a \in ans', a.op \in Reads PROVE GetAns(a)'
    <2>1. CASE a \in ans
      BY Zenon, <1>1, <1>3, <2>1 DEF GetInv, GetAns
    <2>2. CASE a \notin ans
      <3>1. m.live /\ a.p = m.p /\ a.op = m.op /\ a.arg = m.arg /\ a.res \in Results(m)
        BY Zenon, <2>2 DEF Served
      <3>2. GetMsg(m)
        BY Zenon, <1>1, <1>3, <3>1 DEF GetInv
      <3>3. /\ m.op = "getc" => a.res = (m.arg[1] \in data)
            /\ m.op = "get" => a.res \in BOOLEAN
        BY Zenon, <3>1 DEF Results
      <3>4. a.res \in BOOLEAN
        <4>1. m.op = "getc" => a.res \in BOOLEAN
          BY Zenon, <3>3, Found
        <4> QED
          BY Zenon, <1>3, <3>1, <3>3, <4>1 DEF Reads
      <3>5. ASSUME a.op = "getc", ~a.res, NEW g \in proc[a.p].gets, g.blk = a.arg[1], g.due
            PROVE  g.blk < freed
        <4>1. m.p \in Daemons
          BY Zenon, <1>1 DEF Types
        <4>2. g.blk \in acked
          BY Zenon, <3>1, <3>2, <3>5, <4>1 DEF GetMsg, GetInv, GetProc
        <4>3. g.blk \notin data
          BY Zenon, <3>1, <3>3, <3>5
        <4>4. ~(g.blk >= freed)
          BY Zenon, <4>2, <4>3 DEF AckedInv
        <4>5. g.blk \in Int /\ freed \in Int
          BY <4>2 DEF Types, Blocks
        <4> QED
          BY <4>4, <4>5
      <3> QED
        BY Zenon, <1>1, <3>1, <3>2, <3>4, <3>5 DEF GetAns, GetMsg
    <2> QED
      BY <2>1, <2>2
  <1>4. \A p \in Daemons : proc'[p].phase \in Working => GetProc(proc[p])'
    BY Zenon, <1>1 DEF GetInv, GetProc
  <1>5. \A b \in denied' : b < freed'
    BY Zenon, <1>1 DEF GetInv
  <1> QED
    BY Zenon, <1>2, <1>3, <1>4, <1>5 DEF GetInv

\* What was waited for is answered.
LEMMA ServedWait ==
    ASSUME WaitInv, NEW m, Served(m)
    PROVE  WaitInv'
  <1>1. /\ proc' = proc /\ net' = net \ {m} /\ m \in net /\ ans \subseteq ans'
        /\ m.live => \E a \in ans' : a.p = m.p /\ a.op = m.op /\ a.arg = m.arg
    BY Zenon DEF Served
  <1>2. ASSUME NEW q \in Daemons PROVE WaitProc(q)'
    <2>1. \A op : Awaits(q, op) => Awaits(q, op)'
      BY Zenon, <1>1 DEF Awaits
    <2>2. \A ops, b : AwaitsBlock(q, ops, b) => AwaitsBlock(q, ops, b)'
      BY Zenon, <1>1 DEF AwaitsBlock
    <2> QED
      BY Zenon, <1>1, <2>1, <2>2, WaitSame DEF WaitInv
  <1> QED
    BY Zenon, <1>2 DEF WaitInv

\* Who claims the metadata knows what it says.
LEMMA ClaimKnows ==
    ASSUME NEW x \in ItemRec, NEW y \in ItemRec, NEW s \in ProcWith({{}}), Claim(x, y),
           Current(s, x, y)
    PROVE  s.stored.lastblk = x.lastblk
  <1>1. x.pid \in Nat /\ y.pid \in Nat /\ x.pid < y.pid /\ y.lastblk = x.lastblk
    BY DEF ItemRec, Claim
  <1>2. CASE s.write_inprogress
    <2>1. x = Item(s.stored, s.pid) /\ y = Item(s.storing, s.pid)
      BY Zenon, <1>2 DEF Current
    <2>2. x.pid = y.pid
      BY <2>1 DEF Item
    <2> QED
      BY <1>1, <2>2
  <1>3. CASE ~s.write_inprogress
    <2>1. y = Item(s.stored, s.pid)
      BY Zenon, <1>3 DEF Current
    <2>2. y.lastblk = s.stored.lastblk
      BY <2>1 DEF Item
    <2> QED
      BY Zenon, <1>1, <2>2
  <1> QED
    BY Zenon, <1>2, <1>3

\* What was acknowledged is still there, and a claim or a write that is stored
\* does not forget it.
LEMMA ServedAcked ==
    ASSUME Types, IcasInv, PutInv, DeleteInv, AckedInv, NEW m, Served(m)
    PROVE  AckedInv'
  <1>1. /\ proc' = proc /\ m \in net /\ freed' = freed /\ acked' = acked
    BY Zenon DEF Served
  <1>2. /\ md' = md \/ Claim(md, md') \/ Write(md, md')
        /\ Upto(md, md')
    BY Zenon, ServedForward
  <1>3. md \in ItemRec /\ md' \in ItemRec /\ m.p \in Daemons
    BY Zenon, ServedTypes DEF Types
  <1>4. md.lastblk \in Int /\ md'.lastblk \in Int /\ acked \subseteq Int /\ freed \in Int
    BY <1>3 DEF ItemRec, Types, Blocks
  <1>5. ASSUME NEW b \in acked PROVE (b >= freed => b \in data') /\ b <= md'.lastblk
    <2>1. (b >= freed => b \in data) /\ b <= md.lastblk
      BY Zenon, <1>5 DEF AckedInv
    <2>2. b \in data => b \in data' \/ b < freed'
      BY Zenon, ServedStored
    <2>3. b <= md'.lastblk
      BY <1>2, <1>4, <2>1 DEF Upto
    <2>4. b \in Int /\ ~(b >= freed /\ b < freed)
      BY <1>4
    <2> QED
      BY Zenon, <1>1, <2>1, <2>2, <2>3, <2>4
  <1>6. ASSUME NEW q \in Daemons, md'.pid = proc[q].pid, proc[q].pid > 0
        PROVE  /\ \A b \in acked : b <= proc[q].stored.lastblk
               /\ \A a \in ans : a.op = "icas" /\ a.p # q /\ a.res =>
                      a.arg[2].lastblk <= proc[q].stored.lastblk
    <2>1. CASE md'.pid = md.pid
      BY Zenon, <1>6, <2>1 DEF AckedInv
    <2>2. CASE md'.pid # md.pid
      <3>1. md' # md /\ ~Write(md, md')
        BY Zenon, <2>2 DEF Write
      <3>2. Claim(md, md')
        BY Zenon, <1>2, <3>1
      <3>3. Current(proc[q], md, md') /\ proc[q] \in ProcWith({{}})
        BY Zenon, <1>6, <3>1, ServedOwn DEF Types
      <3>4. proc[q].stored.lastblk = md.lastblk
        BY Zenon, <1>3, <3>2, <3>3, ClaimKnows
      <3>5. \A a \in ans : a.op = "icas" /\ a.res => a.arg[2].lastblk <= md.lastblk
        BY Zenon DEF IcasInv, IcasAns, Upto
      <3> QED
        BY Zenon, <3>4, <3>5 DEF AckedInv
    <2> QED
      BY <2>1, <2>2
  <1>7. ASSUME NEW q \in Daemons, md'.pid = proc[q].pid, NEW a \in ans' \ ans,
               a.op = "icas", a.p # q, a.res
        PROVE  FALSE
    <2>1. a.p = m.p /\ a.op = m.op /\ a.arg = m.arg
      BY Zenon, <1>7 DEF Served
    <2>2. md' = m.arg[2]
      BY Zenon, <1>7, <2>1, ServedResult
    <2>3. \A r \in Daemons \ {m.p} : proc[r].pid # m.arg[2].pid
      BY Zenon, <1>1, <1>7, <2>1 DEF IcasInv, IcasMsg
    <2> QED
      BY Zenon, <1>7, <2>1, <2>2, <2>3
  <1>8. ASSUME NEW q \in Daemons, md'.pid = proc'[q].pid, proc'[q].pid > 0
        PROVE  /\ \A b \in acked' : b <= proc'[q].stored.lastblk
               /\ \A a \in ans' : a.op = "icas" /\ a.p # q /\ a.res =>
                      a.arg[2].lastblk <= proc'[q].stored.lastblk
    BY Zenon, <1>1, <1>6, <1>7, <1>8
  <1> QED
    BY Zenon, <1>1, <1>5, <1>8 DEF AckedInv

\* A process that is granted blocks by this very request.
LEMMA NewGrant ==
    ASSUME Types, ProcInv, IcasInv, PutInv, NEW m, Served(m), NEW p \in Daemons,
           Granted(p)', ~Granted(p)
    PROVE  /\ p = m.p /\ md = Item(proc[p].stored, proc[p].pid)
           /\ md' = Item(proc[p].storing, proc[p].pid)
           /\ md.nextblk = proc[p].append.old /\ md'.nextblk = proc[p].nextblk
  <1>1. proc' = proc /\ m \in net
    BY Zenon DEF Served
  <1>2. /\ proc[p].phase \in Working /\ proc[p].write_inprogress
        /\ proc[p].storing.cb = "nextblk"
        /\ \/ md' = Item(proc[p].storing, proc[p].pid)
           \/ \E a \in ans' : a.p = p /\ a.op = "icas" /\ a.res
    BY Zenon, <1>1 DEF Granted
  <1>3. /\ md # Item(proc[p].storing, proc[p].pid)
        /\ ~\E a \in ans : a.p = p /\ a.op = "icas" /\ a.res
    BY Zenon, <1>2 DEF Granted
  <1>4. md' = Item(proc[p].storing, proc[p].pid)
    <2>1. ASSUME NEW a \in ans', a.p = p, a.op = "icas", a.res
          PROVE  md' = Item(proc[p].storing, proc[p].pid)
      <3>1. a \in ans' \ ans
        BY Zenon, <1>3, <2>1
      <3>2. m.live /\ a.p = m.p /\ a.op = m.op /\ a.arg = m.arg
        BY Zenon, <3>1 DEF Served
      <3>3. md' = m.arg[2]
        BY Zenon, <2>1, <3>1, <3>2, ServedResult
      <3>4. Asked(proc[p], m.arg[1], m.arg[2])
        BY Zenon, <1>1, <2>1, <3>2 DEF IcasInv, IcasMsg
      <3> QED
        BY Zenon, <1>2, <3>3, <3>4 DEF Asked
    <2> QED
      BY Zenon, <1>2, <2>1
  <1>5. md' # md
    BY Zenon, <1>3, <1>4
  <1>6. md'.pid = proc[p].pid
    BY <1>4 DEF Item
  <1>7. p = m.p /\ Current(proc[p], md, md')
    BY Zenon, <1>5, <1>6, ServedOwn
  <1>8. md = Item(proc[p].stored, proc[p].pid)
    BY Zenon, <1>2, <1>7 DEF Current
  <1>9. Tuples(proc[p]) /\ Appending(proc[p])
    BY Zenon, <1>2 DEF ProcInv, OneProc, Local, Core
  <1>10. Now(proc[p]) = "nextblk" /\ "nextblk" # NoCallback
    BY <1>2 DEF Now, NoCallback
  <1>11. Later(proc[p]) = NoCallback
    BY Zenon, <1>9, <1>10 DEF Appending
  <1>12. Stage(proc[p]) = "nextblk" /\ Sent(proc[p]) = proc[p].storing
    BY Zenon, <1>2, <1>10, <1>11 DEF Stage, Sent
  <1>13. /\ proc[p].stored.nextblk = proc[p].append.old
         /\ proc[p].storing.nextblk = proc[p].nextblk
    BY Zenon, <1>9, <1>10, <1>11, <1>12 DEF Tuples
  <1>14. md.nextblk = proc[p].stored.nextblk /\ md'.nextblk = proc[p].storing.nextblk
    BY <1>4, <1>8 DEF Item
  <1> QED
    BY Zenon, <1>4, <1>7, <1>8, <1>13, <1>14

\* A write of nextblk that is stored grants blocks that nobody was granted.
LEMMA ServedWritten ==
    ASSUME Types, ProcInv, IcasInv, PutInv, WrittenInv, NEW m, Served(m)
    PROVE  WrittenInv'
  <1>1. proc' = proc /\ m \in net /\ written' = written
    BY Zenon DEF Served
  <1>2. Upto(md, md')
    BY Zenon, ServedForward
  <1>3. md \in ItemRec /\ md' \in ItemRec
    BY Zenon, ServedTypes DEF Types
  <1>4. /\ md.nextblk \in Int /\ md'.nextblk \in Int /\ md.nextblk <= md'.nextblk
        /\ written \subseteq Int
        /\ \A q \in Daemons : proc[q].nextblk \in Int /\ proc[q].append.old \in Int
    BY <1>2, <1>3 DEF ItemRec, Types, Blocks, Upto, ProcWith
  <1>5. \A b \in written : b < md.nextblk
    BY Zenon DEF WrittenInv
  <1>6. \A b \in written : b < md'.nextblk
    BY <1>4, <1>5
  <1>7. ASSUME NEW q \in Daemons, Granted(q)
        PROVE  proc[q].nextblk <= md.nextblk /\ proc[q].nextblk <= md'.nextblk
    <2>1. proc[q].nextblk <= md.nextblk
      BY Zenon, <1>7 DEF WrittenInv
    <2> QED
      BY <1>4, <2>1
  <1>8. ASSUME NEW q \in Daemons, Granted(q)', ~Granted(q)
        PROVE  /\ proc[q].nextblk <= md'.nextblk /\ \A b \in written : ~InRange(proc[q], b)
               /\ \A r \in Daemons \ {q} : Granted(r)' =>
                     Granted(r) /\ proc[r].nextblk <= proc[q].append.old
    <2>1. md.nextblk = proc[q].append.old /\ md'.nextblk = proc[q].nextblk /\ q = m.p
      BY Zenon, <1>8, NewGrant
    <2>2. \A r \in Daemons \ {q} : Granted(r)' => Granted(r)
      BY Zenon, <2>1, NewGrant
    <2>3. \A r \in Daemons \ {q} : Granted(r)' => proc[r].nextblk <= proc[q].append.old
      BY Zenon, <1>7, <2>1, <2>2
    <2>4. proc[q].nextblk <= md'.nextblk
      BY <1>4, <2>1
    <2>5. \A b \in written : ~InRange(proc[q], b)
      BY <1>4, <1>5, <2>1 DEF InRange
    <2> QED
      BY Zenon, <2>2, <2>3, <2>4, <2>5
  <1>9. ASSUME NEW q \in Daemons, Granted(q)'
        PROVE  /\ proc[q].nextblk <= md'.nextblk /\ \A b \in written : ~InRange(proc[q], b)
    BY Zenon, <1>7, <1>8, <1>9 DEF WrittenInv
  <1>10. ASSUME NEW q \in Daemons, Granted(q)', NEW r \in Daemons \ {q}, Granted(r)'
         PROVE  \/ proc[q].nextblk <= proc[r].append.old
                \/ proc[r].nextblk <= proc[q].append.old
    <2>1. CASE ~Granted(q)
      BY Zenon, <1>8, <1>10, <2>1
    <2>2. CASE ~Granted(r)
      <3>1. q \in Daemons \ {r}
        BY Zenon, <1>10
      <3> QED
        BY Zenon, <1>8, <1>10, <2>2, <3>1
    <2>3. CASE Granted(q) /\ Granted(r)
      BY Zenon, <1>10, <2>3 DEF WrittenInv
    <2> QED
      BY Zenon, <2>1, <2>2, <2>3
  <1> HIDE DEF Granted
  <1> QED
    BY Zenon, <1>1, <1>6, <1>9, <1>10 DEF WrittenInv, InRange

\* A request that is served keeps the invariant.
LEMMA ServeStep ==
    ASSUME DynInv, NEW m \in net, Serve(m)
    PROVE  GoodStep
  <1>1. Served(m)
    BY Zenon, ServeServed
  <1>2. /\ Types /\ ProcInv /\ Alone /\ IcasInv /\ ReadInv /\ OwnerInv /\ DeleteInv
        /\ PutInv /\ AckedInv /\ WrittenInv /\ GetInv /\ WaitInv
    BY Zenon DEF DynInv
  <1>3. ProcInv'
    <2>1. proc' = proc /\ run' = run /\ freed' = freed /\ Blocks' = Blocks
      BY Zenon, <1>1 DEF Served
    <2> QED
      BY Zenon, <1>2, <2>1 DEF ProcInv, OneProc
  <1>4. Types' /\ Alone' /\ IcasInv' /\ ReadInv'
    BY Zenon, <1>1, <1>2, ServedTypes, ServedAlone, ServedIcas, ServedRead
  <1>5. OwnerInv' /\ DeleteInv' /\ PutInv' /\ AckedInv'
    BY Zenon, <1>1, <1>2, ServedOwner, ServedDelete, ServedPut, ServedAcked
  <1>6. WrittenInv' /\ GetInv' /\ WaitInv'
    BY Zenon, <1>1, <1>2, ServedWritten, ServedGet, ServedWait
  <1>7. DynInv'
    BY Zenon, <1>3, <1>4, <1>5, <1>6 DEF DynInv
  <1>8. Onward
    <2>1. \A n \in net' : n \in net
      BY Zenon, <1>1 DEF Served
    <2>2. md' = md \/ Claim(md, md') \/ Write(md, md')
      BY Zenon, <1>1, <1>2, ServedForward
    <2>3. Claim(md, md') => md' = [md EXCEPT !.pid = md'.pid]
      BY Zenon DEF Claim
    <2>4. Write(md, md') => /\ md'.pid = md.pid
                            /\ md'.generation = md.generation + 1
                            /\ md'.nextblk >= md.nextblk /\ md'.deletedto >= md.deletedto
                            /\ md'.lastblk >= md.lastblk
      <3>1. md \in ItemRec /\ md' \in ItemRec
        BY Zenon, <1>2, <1>4 DEF Types
      <3> QED
        BY <3>1 DEF Write, Upto, ItemRec
    <2> QED
      BY Zenon, <2>1, <2>2, <2>3, <2>4 DEF Onward
  <1> QED
    BY Zenon, <1>7, <1>8 DEF GoodStep

(***************************************************************************)
(* A request times out                                                     *)
(***************************************************************************)
\* Blocks depend on the options only.
LEMMA SameBlocks ==
    ASSUME run'.maxblk = run.maxblk
    PROVE  Blocks' = Blocks
  BY Zenon DEF Blocks

\* A request is made again: the first attempt is under way, nobody waits for it.
Again(m, n) ==
    /\ m \in net /\ net' = net \cup {n}
    /\ n.p = m.p /\ n.op = m.op /\ n.arg = m.arg /\ n.live = FALSE
    /\ n = [p |-> n.p, op |-> n.op, arg |-> n.arg, live |-> n.live]
    /\ run' \in Run /\ run'.maxblk = run.maxblk /\ Blocks' = Blocks
    /\ md' = md /\ data' = data /\ ans' = ans /\ proc' = proc /\ pids' = pids /\ acked' = acked
    /\ freed' = freed /\ written' = written /\ deleted' = deleted /\ denied' = denied

\* What a timeout of the key-value store's client does: the request is sent
\* again, and the first attempt may still be served.
LEMMA TimeoutAgain ==
    ASSUME Types, NEW m \in net, Timeout(m)
    PROVE  \E n : Again(m, n)
  <1>1. /\ m.op \in {"put", "delete", "icas"} /\ run.retry > 0
        /\ run' = [run EXCEPT !.retry = run.retry - 1]
        /\ net' = net \cup {[m EXCEPT !.live = FALSE]}
        /\ md' = md /\ data' = data /\ ans' = ans /\ proc' = proc /\ pids' = pids
        /\ acked' = acked
        /\ freed' = freed /\ written' = written /\ deleted' = deleted /\ denied' = denied
    BY DEF Timeout, dynamo, ghosts
  <1>2. PICK n : n = [m EXCEPT !.live = FALSE]
    BY Zenon
  <1>3. m = [p |-> m.p, op |-> m.op, arg |-> m.arg, live |-> m.live]
    BY Zenon DEF Types
  <1>4. n = [p |-> m.p, op |-> m.op, arg |-> m.arg, live |-> FALSE]
    <2> DEFINE l == FALSE
               r == [p |-> m.p, op |-> m.op, arg |-> m.arg, live |-> m.live]
    <2>1. n = [r EXCEPT !.live = l]
      BY Zenon, <1>2, <1>3
    <2> HIDE DEF l
    <2>2. [r EXCEPT !.live = l] = [p |-> m.p, op |-> m.op, arg |-> m.arg, live |-> l]
      OBVIOUS
    <2> QED
      BY Zenon, <2>1, <2>2 DEF l
  <1>5. /\ n.p = m.p /\ n.op = m.op /\ n.arg = m.arg /\ n.live = FALSE
    BY <1>4
  <1>6. n = [p |-> n.p, op |-> n.op, arg |-> n.arg, live |-> n.live]
    BY Zenon, <1>4, <1>5
  <1>7. run' \in Run /\ run'.maxblk = run.maxblk
    BY <1>1 DEF Types, Run
  <1>8. Blocks' = Blocks
    BY Zenon, <1>7, SameBlocks
  <1> QED
    BY Zenon, <1>1, <1>2, <1>5, <1>6, <1>7, <1>8 DEF Again

\* An attempt that nobody waits for keeps the invariant.
LEMMA AgainStep ==
    ASSUME DynInv, NEW m, NEW n, Again(m, n)
    PROVE  GoodStep
  <1>1. /\ Types /\ ProcInv /\ Alone /\ IcasInv /\ ReadInv /\ OwnerInv /\ DeleteInv
        /\ PutInv /\ AckedInv /\ WrittenInv /\ GetInv /\ WaitInv
    BY Zenon DEF DynInv
  <1>2. /\ m \in net /\ net' = net \cup {n}
        /\ n.p = m.p /\ n.op = m.op /\ n.arg = m.arg /\ n.live = FALSE
        /\ n = [p |-> n.p, op |-> n.op, arg |-> n.arg, live |-> n.live]
    BY Zenon DEF Again
  <1>3. /\ run' \in Run /\ run'.maxblk = run.maxblk /\ Blocks' = Blocks
        /\ md' = md /\ data' = data /\ ans' = ans /\ proc' = proc /\ pids' = pids
        /\ acked' = acked
        /\ freed' = freed /\ written' = written /\ deleted' = deleted /\ denied' = denied
    BY Zenon DEF Again
  <1>4. ~n.live /\ n.live \in BOOLEAN /\ net \subseteq net' /\ \A k \in net' : k \in net \/ k = n
    BY Zenon, <1>2
  <1>5. \A k \in net' : k.live => k \in net
    BY Zenon, <1>4
  <1>6. Types'
    <2>1. /\ n.p \in Daemons /\ ArgOK(n.op, n.arg)
      BY Zenon, <1>1, <1>2 DEF Types
    <2>2. \A k \in net' : /\ k = [p |-> k.p, op |-> k.op, arg |-> k.arg, live |-> k.live]
                          /\ k.p \in Daemons /\ k.live \in BOOLEAN /\ ArgOK(k.op, k.arg)
      BY Zenon, <1>1, <1>2, <1>4, <2>1 DEF Types
    <2>3. \A a \in ans' : a.p \in Daemons /\ ArgOK(a.op, a.arg)
      BY Zenon, <1>1, <1>3 DEF Types
    <2>4. /\ md' \in ItemRec /\ pids' \in Nat /\ freed' \in Nat /\ run' \in Run
          /\ data' \subseteq Blocks' /\ acked' \subseteq Blocks' /\ written' \subseteq Blocks'
          /\ denied' \subseteq Nat /\ proc' \in [Daemons -> ProcWith({{}})]
      BY Zenon, <1>1, <1>3 DEF Types
    <2> QED
      BY Zenon, <2>2, <2>3, <2>4 DEF Types
  <1>7. ProcInv'
    BY Zenon, <1>1, <1>3 DEF ProcInv, OneProc
  <1>8. Alone'
    BY Zenon, <1>1, <1>3, <1>5 DEF Alone
  <1>9. \A x : (Good(x)' <=> Good(x)) /\ (Past(x)' <=> Past(x))
    BY Zenon, <1>3 DEF Good, Past
  <1>10. IcasInv'
    <2>1. ASSUME NEW k \in net', k.op = "icas" PROVE IcasMsg(k)'
      <3>1. PICK j \in net : j.p = k.p /\ j.op = k.op /\ j.arg = k.arg /\ (k.live => j.live)
        BY Zenon, <1>2, <1>4
      <3>2. IcasMsg(j)
        BY Zenon, <1>1, <2>1, <3>1 DEF IcasInv
      <3> QED
        BY Zenon, <1>3, <1>9, <3>1, <3>2 DEF IcasMsg
    <2>2. ASSUME NEW a \in ans', a.op = "icas" PROVE IcasAns(a)'
      BY Zenon, <1>1, <1>3, <1>9, <2>2 DEF IcasInv, IcasAns
    <2> QED
      BY Zenon, <2>1, <2>2 DEF IcasInv
  <1>11. ReadInv'
    BY Zenon, <1>1, <1>3, <1>5, <1>9 DEF ReadInv
  <1>12. OwnerInv'
    <2>1. Good(md)'
      BY Zenon, <1>1, <1>3 DEF OwnerInv, Good
    <2> QED
      BY Zenon, <1>1, <1>3, <2>1 DEF OwnerInv
  <1>13. DeleteInv'
    <2>1. \A p \in Daemons : proc'[p].phase \in Working => DoneBelow(proc[p])'
      BY Zenon, <1>1, <1>3 DEF DeleteInv, DoneBelow
    <2>2. \A k \in net' : k.op = "delete" => k.arg[1] < freed'
      BY Zenon, <1>1, <1>2, <1>3, <1>4 DEF DeleteInv
    <2> QED
      BY Zenon, <1>1, <1>3, <1>5, <2>1, <2>2 DEF DeleteInv
  <1>14. PutInv'
    <2>1. \A k \in net' : k.op = "put" => k.arg[1] \in Blocks'
      BY Zenon, <1>1, <1>2, <1>3, <1>4 DEF PutInv
    <2>2. ASSUME NEW p \in Daemons PROVE PutProc(p)'
      <3>1. \A b : (\E k \in net' : k.p = p /\ k.op = "put" /\ k.live /\ k.arg[1] = b)
                   <=> (\E k \in net : k.p = p /\ k.op = "put" /\ k.live /\ k.arg[1] = b)
        BY Zenon, <1>4, <1>5
      <3>2. Owed(p)' = Owed(p)
        <4>1. \A b : b \in Owed(p)' <=> b \in Owed(p)
          BY Zenon, <1>3, <3>1 DEF Owed
        <4> QED
          BY Zenon, <4>1
      <3>3. PutProc(p)
        BY Zenon, <1>1 DEF PutInv
      <3> QED
        BY Zenon, <1>3, <3>1, <3>2, <3>3 DEF PutProc
    <2> QED
      BY Zenon, <1>1, <1>3, <1>5, <2>1, <2>2 DEF PutInv
  <1>15. AckedInv'
    BY Zenon, <1>1, <1>3 DEF AckedInv
  <1>16. WrittenInv'
    <2>1. \A q : Granted(q)' <=> Granted(q)
      BY Zenon, <1>3 DEF Granted
    <2> HIDE DEF Granted
    <2> QED
      BY Zenon, <1>1, <1>3, <2>1 DEF WrittenInv, InRange
  <1>17. GetInv'
    BY Zenon, <1>1, <1>3, <1>5 DEF GetInv, GetMsg, GetAns, GetProc
  <1>18. WaitInv'
    <2>1. ASSUME NEW q \in Daemons PROVE WaitProc(q)'
      <3>1. \A op : Awaits(q, op) => Awaits(q, op)'
        BY Zenon, <1>3, <1>4 DEF Awaits
      <3>2. \A ops, b : AwaitsBlock(q, ops, b) => AwaitsBlock(q, ops, b)'
        BY Zenon, <1>3, <1>4 DEF AwaitsBlock
      <3> QED
        BY Zenon, <1>1, <1>3, <3>1, <3>2, WaitSame DEF WaitInv
    <2> QED
      BY Zenon, <2>1 DEF WaitInv
  <1>19. DynInv'
    BY Zenon, <1>6, <1>7, <1>8, <1>10, <1>11, <1>12, <1>13, <1>14, <1>15, <1>16, <1>17, <1>18
       DEF DynInv
  <1>20. Onward
    BY Zenon, <1>3, <1>5 DEF Onward
  <1> QED
    BY Zenon, <1>19, <1>20 DEF GoodStep

\* A timeout keeps the invariant.
LEMMA TimeoutStep ==
    ASSUME DynInv, NEW m \in net, Timeout(m)
    PROVE  GoodStep
  <1>1. PICK n : Again(m, n)
    BY Zenon, TimeoutAgain DEF DynInv
  <1> QED
    BY Zenon, <1>1, AgainStep

(***************************************************************************)
(* The first state, and a step of the rest of the system                   *)
(***************************************************************************)
\* The invariant holds when no process has started.
LEMMA DynInit ==
    ASSUME SetFacts, Init
    PROVE  DynInv
  <1>1. /\ md = Item(NewTuple, 0)
        /\ data = {} /\ net = {} /\ ans = {}
        /\ proc = [p \in Daemons |-> Off]
        /\ run \in Runs /\ pids = 0
        /\ acked = {} /\ freed = 0 /\ written = {} /\ deleted = {} /\ denied = {}
    BY Zenon DEF Init
  <1>2. run \in Run
    BY <1>1, LbsDynamodbAssumption
  <1>3. /\ md \in ItemRec /\ md.lastblk = -1 /\ md.nextblk = 0 /\ md.pid = 0 /\ md.deletedto = 0
    BY <1>1 DEF ItemRec, Item, NewTuple, Tuple
  <1>4. Off \in ProcWith({{}})
    BY DEF Off, ProcWith, MTuple, NewTuple, Tuple, NoAppend, NoCallback
  <1>5. \A p \in Daemons : proc[p] = Off
    BY <1>1
  <1>6. /\ Off.phase = "off" /\ Off.phase \notin Working /\ Off.phase # "reading"
        /\ Off.phase # "claiming" /\ Off.pid = 0 /\ Off.ip = {} /\ Off.M = 0
        /\ Off.conn = "none" /\ Off.append = NoAppend /\ ~(Off.pid > 0)
        /\ Off.stored.deletedto = 0 /\ Off.append.nblks_left = 0
    BY DEF Off, Working, NewTuple, Tuple, NoAppend
  <1>7. Fresh(Off)
    BY DEF Fresh, Off
  <1>8. Types
    <2>1. proc \in [Daemons -> ProcWith({{}})]
      BY <1>1, <1>4
    <2>2. 0 \in Nat
      OBVIOUS
    <2>3. \A x \in {} : FALSE
      OBVIOUS
    <2> QED
      BY Zenon, <1>1, <1>2, <1>3, <2>1, <2>2, <2>3 DEF Types
  <1>9. ProcInv
    <2>1. Limits(Off) /\ Off.append.nblks_left <= MaxAppend
      <3>1. IsFiniteSet({}) /\ Cardinality({}) = 0
        BY Zenon DEF SetFacts, EmptySize
      <3> QED
        BY <1>6, <3>1, LbsDynamodbAssumption DEF Limits
    <2>2. OneProc(Off)
      BY Zenon, <1>6, <1>7, <2>1 DEF OneProc
    <2> QED
      BY Zenon, <1>5, <2>2 DEF ProcInv
  <1>10. Alone /\ IcasInv /\ ReadInv
    BY Zenon, <1>1 DEF Alone, IcasInv, ReadInv
  <1>11. OwnerInv
    <2>1. Good(md)
      <3>1. run.maxblk \in Nat
        BY <1>2 DEF Run
      <3> QED
        BY <1>1, <1>3, <3>1 DEF Good
    <2>2. 0 <= 0
      OBVIOUS
    <2> QED
      BY Zenon, <1>1, <1>5, <1>6, <2>1, <2>2 DEF OwnerInv
  <1>12. DeleteInv /\ GetInv /\ WaitInv
    BY Zenon, <1>1, <1>5, <1>6 DEF DeleteInv, GetInv, WaitInv, WaitProc
  <1>13. PutInv
    <2>1. \A p \in Daemons : PutProc(p)
      BY Zenon, <1>5, <1>6 DEF PutProc, Putting
    <2> QED
      BY Zenon, <1>1, <2>1 DEF PutInv
  <1>14. AckedInv /\ WrittenInv
    <2>1. \A p \in Daemons : ~Granted(p)
      BY Zenon, <1>5, <1>6 DEF Granted
    <2> QED
      BY Zenon, <1>1, <1>5, <1>6, <2>1 DEF AckedInv, WrittenInv
  <1> QED
    BY Zenon, <1>8, <1>9, <1>10, <1>11, <1>12, <1>13, <1>14 DEF DynInv

\* The invariant depends on the variables only.
LEMMA DynStutter ==
    ASSUME DynInv, UNCHANGED vars
    PROVE  GoodStep
  <1>1. /\ Types /\ ProcInv /\ Alone /\ IcasInv /\ ReadInv /\ OwnerInv /\ DeleteInv
        /\ PutInv /\ AckedInv /\ WrittenInv /\ GetInv /\ WaitInv
    BY Zenon DEF DynInv
  <1>2. /\ md' = md /\ data' = data /\ net' = net /\ ans' = ans /\ proc' = proc /\ run' = run
        /\ pids' = pids /\ acked' = acked /\ freed' = freed /\ written' = written
        /\ deleted' = deleted /\ denied' = denied
    BY DEF vars, ghosts
  <1>3. Blocks' = Blocks
    BY Zenon, <1>2 DEF Blocks
  <1>4. Types'
    BY Zenon, <1>1, <1>2, <1>3 DEF Types
  <1>5. ProcInv'
    BY Zenon, <1>1, <1>2, <1>3 DEF ProcInv, OneProc
  <1>6. Alone'
    BY Zenon, <1>1, <1>2 DEF Alone
  <1>7. \A x : (Good(x)' <=> Good(x)) /\ (Past(x)' <=> Past(x))
    BY Zenon, <1>2 DEF Good, Past
  <1>8. IcasInv'
    BY Zenon, <1>1, <1>2, <1>7 DEF IcasInv, IcasMsg, IcasAns
  <1>9. ReadInv'
    BY Zenon, <1>1, <1>2, <1>7 DEF ReadInv
  <1>10. OwnerInv'
    <2>1. Good(md)'
      BY Zenon, <1>1, <1>2 DEF OwnerInv, Good
    <2> QED
      BY Zenon, <1>1, <1>2, <2>1 DEF OwnerInv
  <1>11. DeleteInv'
    BY Zenon, <1>1, <1>2 DEF DeleteInv, DoneBelow
  <1>12. PutInv'
    <2>1. ASSUME NEW p \in Daemons PROVE PutProc(p)'
      <3>1. Owed(p)' = Owed(p)
        BY Zenon, <1>2, <1>3 DEF Owed
      <3> QED
        BY Zenon, <1>1, <1>2, <1>3, <3>1 DEF PutInv, PutProc
    <2> QED
      BY Zenon, <1>1, <1>2, <1>3, <2>1 DEF PutInv
  <1>13. AckedInv'
    BY Zenon, <1>1, <1>2 DEF AckedInv
  <1>14. WrittenInv'
    <2>1. \A q : Granted(q)' <=> Granted(q)
      BY Zenon, <1>2 DEF Granted
    <2> HIDE DEF Granted
    <2> QED
      BY Zenon, <1>1, <1>2, <2>1 DEF WrittenInv, InRange
  <1>15. GetInv'
    BY Zenon, <1>1, <1>2 DEF GetInv, GetMsg, GetAns, GetProc
  <1>16. WaitInv'
    <2>1. ASSUME NEW q \in Daemons PROVE WaitProc(q)'
      <3>1. \A op : Awaits(q, op) => Awaits(q, op)'
        BY Zenon, <1>2 DEF Awaits
      <3>2. \A ops, b : AwaitsBlock(q, ops, b) => AwaitsBlock(q, ops, b)'
        BY Zenon, <1>2 DEF AwaitsBlock
      <3> QED
        BY Zenon, <1>1, <1>2, <3>1, <3>2, WaitSame DEF WaitInv
    <2> QED
      BY Zenon, <2>1 DEF WaitInv
  <1>17. DynInv'
    BY Zenon, <1>4, <1>5, <1>6, <1>8, <1>9, <1>10, <1>11, <1>12, <1>13, <1>14, <1>15, <1>16
       DEF DynInv
  <1>18. Onward
    BY Zenon, <1>2 DEF Onward
  <1> QED
    BY Zenon, <1>17, <1>18 DEF GoodStep

(***************************************************************************)
(* What the invariant implies                                              *)
(***************************************************************************)
\* The invariant implies that acknowledged blocks are kept.
LEMMA InvAckedKept ==
    ASSUME DynInv
    PROVE  AckedKept
  <1>1. AckedInv
    BY Zenon DEF DynInv
  <1>2. \A p \in Daemons : proc[p].phase = "running" => proc[p].pid > 0
    <2>1. "running" \in Working
      BY DEF Working
    <2> QED
      BY Zenon, <2>1 DEF DynInv, ProcInv, OneProc, Local, Core, Tuples
  <1> QED
    BY Zenon, <1>1, <1>2 DEF AckedKept, AckedInv

\* The invariant implies that GETs find the blocks they should.
LEMMA InvReadsFind ==
    ASSUME DynInv
    PROVE  ReadsFind
  BY Zenon DEF DynInv, GetInv, ReadsFind

\* The invariant implies that DELETEs are recorded as they should be.
LEMMA InvDeletedRecorded ==
    ASSUME DynInv
    PROVE  DeletedRecorded
  <1>1. Types /\ ProcInv
    BY Zenon DEF DynInv
  <1>2. \A b \in 0 .. md.deletedto - 1 : b \in deleted /\ b < freed
    BY Zenon DEF DynInv, OwnerInv, Good
  <1>3. DOMAIN md = {"nextblk", "deletedto", "generation", "lastblk", "pid"}
    BY <1>1 DEF Types, ItemRec
  <1>4. ASSUME NEW p \in Daemons
        PROVE  /\ proc[p].phase \in {"off", "reading", "claiming", "running", "stopping",
                                     "done", "exited"}
               /\ proc[p].conn \in {"none", "accepting", "open", "dying"}
               /\ {proc[p].stored, proc[p].storing, proc[p].latest} \subseteq MTuple
               /\ proc[p].append.nblks_left \in 0 .. MaxAppend
               /\ proc[p].ip \subseteq Blocks /\ Cardinality(proc[p].ip) <= MAXINPROGRESS
               /\ proc[p].M <= proc[p].stored.deletedto + MAXUNRECORDED
    <2>1. proc[p] \in ProcWith({{}})
      BY Zenon, <1>1 DEF Types
    <2>2. OneProc(proc[p])
      BY Zenon, <1>1 DEF ProcInv
    <2>3. /\ proc[p].append.nblks_left <= MaxAppend /\ proc[p].ip \subseteq Blocks
          /\ Cardinality(proc[p].ip) <= MAXINPROGRESS
          /\ proc[p].M <= proc[p].stored.deletedto + MAXUNRECORDED
      BY Zenon, <2>2 DEF OneProc, Limits
    <2>4. /\ proc[p].phase \in {"off", "reading", "claiming", "running", "stopping",
                                "done", "exited"}
          /\ proc[p].conn \in {"none", "accepting", "open", "dying"}
          /\ proc[p].stored \in MTuple /\ proc[p].storing \in MTuple
          /\ proc[p].latest \in MTuple
          /\ proc[p].append.nblks_left \in Nat
      BY <2>1 DEF ProcWith
    <2>5. proc[p].append.nblks_left \in 0 .. MaxAppend
      BY <2>3, <2>4, LbsDynamodbAssumption
    <2>6. {proc[p].stored, proc[p].storing, proc[p].latest} \subseteq MTuple
      BY Zenon, <2>4
    <2> QED
      BY Zenon, <2>3, <2>4, <2>5, <2>6
  <1>5. run \in Run /\ data \subseteq Blocks /\ \A m \in net : m.p \in Daemons /\ m.live \in BOOLEAN
    BY Zenon, <1>1 DEF Types
  <1> QED
    BY Zenon, <1>2, <1>3, <1>4, <1>5 DEF DeletedRecorded, TypeOK

\* The PUTs under way for p, and the answers to its PUTs.
LivePuts(p) == {m \in net : m.p = p /\ m.op = "put" /\ m.live}

PutAnswers(p) == {a \in ans : a.p = p /\ a.op = "put"}

Numbers(S) == {b \in Blocks : \E m \in S : m.arg[1] = b}

\* There is one PUT for each block.
LEMMA PutNumbers ==
    ASSUME SetFacts, Types, NEW S, \A m \in S : m.arg[1] \in Blocks,
           \A m, n \in S : m.arg[1] = n.arg[1] => m = n
    PROVE  IsFiniteSet(Numbers(S)) /\ Cardinality(S) = Cardinality(Numbers(S))
  <1> DEFINE N == Numbers(S)
             f == [b \in N |-> CHOOSE m \in S : m.arg[1] = b]
  <1>1. IsFiniteSet(N)
    <2>1. run.maxblk \in Int /\ run.maxblk - 1 \in Int
      BY DEF Types, Run
    <2>2. IsFiniteSet(Blocks)
      <3>1. \A a, b \in Int : IsFiniteSet(a .. b)
        BY Zenon DEF SetFacts, IntervalSize
      <3>2. 0 \in Int
        OBVIOUS
      <3>3. IsFiniteSet(0 .. run.maxblk - 1)
        BY Zenon, <2>1, <3>1, <3>2
      <3> QED
        BY Zenon, <3>3 DEF Blocks
    <2>3. N \in SUBSET Blocks
      BY Zenon DEF Numbers
    <2> HIDE DEF N
    <2> QED
      BY Zenon, <2>2, <2>3 DEF SetFacts, SubsetSize
  <1>2. \A b \in N : f[b] \in S /\ f[b].arg[1] = b
    BY Zenon DEF Numbers
  <1>3. f \in [N -> S]
    BY Zenon, <1>2
  <1>4. \A m \in S : m.arg[1] \in N /\ f[m.arg[1]] = m
    <2> TAKE m \in S
    <2>1. m.arg[1] \in N
      BY Zenon DEF Numbers
    <2> HIDE DEF N, f
    <2> QED
      BY Zenon, <1>2, <2>1
  <1> HIDE DEF N, f
  <1>5. OneToOne(f, N)
    BY Zenon, <1>2 DEF OneToOne
  <1>6. Onto(f, N, S)
    BY Zenon, <1>4 DEF Onto
  <1>7. Cardinality(S) = Cardinality(N)
    BY Zenon, <1>1, <1>3, <1>5, <1>6 DEF SetFacts, MatchSize
  <1> QED
    BY Zenon, <1>1, <1>7 DEF N

\* The PUTs under way and their answers are as many as the blocks that the
\* APPEND waits for.
LEMMA PutsOwed ==
    ASSUME SetFacts, DynInv, NEW p \in Daemons
    PROVE  /\ Cardinality(LivePuts(p)) + Cardinality(PutAnswers(p)) = Cardinality(Owed(p))
           /\ IsFiniteSet(Owed(p))
           /\ Cardinality(LivePuts(p)) \in Nat /\ Cardinality(PutAnswers(p)) \in Nat
           /\ Owed(p) # {} => Putting(proc[p])
  <1>1. Types /\ Alone /\ PutInv
    BY Zenon DEF DynInv
  <1> DEFINE P == LivePuts(p)
             Q == PutAnswers(p)
  <1>2. /\ \A m \in P : m \in net /\ m.p = p /\ m.op = "put" /\ m.live
        /\ \A a \in Q : a \in ans /\ a.p = p /\ a.op = "put"
    BY Zenon DEF LivePuts, PutAnswers
  <1>3. /\ \A m \in P : Putting(proc[p]) /\ m.arg[1] \in Blocks /\ m.arg = <<m.arg[1]>>
        /\ \A a \in Q : Putting(proc[p]) /\ a.arg = <<a.arg[1]>>
    BY Zenon, <1>1, <1>2 DEF PutInv, Types, ArgOK
  <1>4. \A a \in Q : a.arg[1] \in Blocks
    <2> TAKE a \in Q
    <2>1. InRange(proc[p], a.arg[1]) /\ Putting(proc[p])
      BY Zenon, <1>1, <1>2 DEF PutInv
    <2>2. a.arg[1] \in Nat
      BY Zenon, <1>1, <1>2 DEF Types, ArgOK
    <2>3. proc[p].nextblk <= run.maxblk /\ proc[p] \in ProcWith({{}})
      BY Zenon, <2>1 DEF Putting, DynInv, ProcInv, OneProc, Types
    <2>4. proc[p].nextblk \in Nat /\ proc[p].append.old \in Nat /\ run.maxblk \in Nat
      BY <1>1, <2>3 DEF ProcWith, Types, Run
    <2> QED
      BY <2>1, <2>2, <2>3, <2>4 DEF InRange, Blocks
  <1> HIDE DEF P, Q
  <1>5. \A m, n : m.p = p /\ n.p = p /\ m.op = "put" /\ n.op = "put" /\ m.arg = n.arg
                  => Twins(m, n)
    BY Zenon DEF Twins, SameKind
  <1>6. ASSUME NEW m \in P, NEW n \in P, m.arg[1] = n.arg[1] PROVE m = n
    <2>1. m.arg = n.arg
      BY Zenon, <1>3, <1>6
    <2>2. Twins(m, n)
      BY Zenon, <1>2, <1>5, <2>1
    <2> QED
      BY Zenon, <1>1, <1>2, <2>2 DEF Alone
  <1>7. ASSUME NEW m \in Q, NEW n \in Q, m.arg[1] = n.arg[1] PROVE m = n
    <2>1. m.arg = n.arg
      BY Zenon, <1>3, <1>7
    <2>2. Twins(m, n)
      BY Zenon, <1>2, <1>5, <2>1
    <2> QED
      BY Zenon, <1>1, <1>2, <2>2 DEF Alone
  <1>8. ASSUME NEW m \in P, NEW n \in Q, m.arg[1] = n.arg[1] PROVE FALSE
    <2>1. m.arg = n.arg
      BY Zenon, <1>3, <1>8
    <2>2. Twins(m, n)
      BY Zenon, <1>2, <1>5, <2>1
    <2> QED
      BY Zenon, <1>1, <1>2, <2>2 DEF Alone
  <1>9. /\ IsFiniteSet(Numbers(P)) /\ Cardinality(P) = Cardinality(Numbers(P))
    BY Zenon, <1>1, <1>3, <1>6, PutNumbers
  <1>10. /\ IsFiniteSet(Numbers(Q)) /\ Cardinality(Q) = Cardinality(Numbers(Q))
    BY Zenon, <1>1, <1>4, <1>7, PutNumbers
  <1>11. Owed(p) = Numbers(P) \cup Numbers(Q)
    <2>1. \A b : b \in Owed(p) <=> b \in Numbers(P) \cup Numbers(Q)
      BY Zenon DEF Owed, Numbers, P, Q, LivePuts, PutAnswers
    <2> QED
      BY Zenon, <2>1
  <1>12. Numbers(P) \cap Numbers(Q) = {}
    BY Zenon, <1>8 DEF Numbers
  <1> DEFINE NP == Numbers(P)
             NQ == Numbers(Q)
  <1>13. IsFiniteSet(NP) /\ IsFiniteSet(NQ) /\ NP \cap NQ = {} /\ Owed(p) = NP \cup NQ
    BY Zenon, <1>9, <1>10, <1>11, <1>12
  <1> HIDE DEF NP, NQ
  <1>14. /\ IsFiniteSet(NP \cup NQ)
         /\ Cardinality(NP \cup NQ) = Cardinality(NP) + Cardinality(NQ) - Cardinality(NP \cap NQ)
         /\ Cardinality(NP) \in Nat /\ Cardinality(NQ) \in Nat /\ Cardinality({}) = 0
    BY Zenon, <1>13 DEF SetFacts, UnionSize, FiniteSize, EmptySize
  <1>15. Cardinality(NP \cap NQ) = 0
    BY Zenon, <1>13, <1>14
  <1>16. Cardinality(NP \cup NQ) = Cardinality(NP) + Cardinality(NQ)
    BY <1>14, <1>15
  <1>17. Cardinality(P) = Cardinality(NP) /\ Cardinality(Q) = Cardinality(NQ)
    BY Zenon, <1>9, <1>10 DEF NP, NQ
  <1>18. Cardinality(P) + Cardinality(Q) = Cardinality(Owed(p))
    BY Zenon, <1>13, <1>16, <1>17
  <1>19. Owed(p) # {} => Putting(proc[p])
    BY Zenon, <1>3, <1>13 DEF NP, NQ, Numbers
  <1> QED
    BY Zenon, <1>13, <1>14, <1>17, <1>18, <1>19 DEF P, Q

\* The invariant implies that an APPEND waits for one thing at a time.
LEMMA InvAppendWaitsOnce ==
    ASSUME SetFacts, DynInv
    PROVE  AppendWaitsOnce
  <1> SUFFICES ASSUME NEW p \in Daemons, proc[p].phase \in {"running", "stopping"}
               PROVE  LET s == proc[p]
                          later == s.latest.cb # NoCallback
                          now == s.write_inprogress /\ s.storing.cb # NoCallback
                          puts == Cardinality({m \in net : m.p = p /\ m.op = "put" /\ m.live})
                                  + Cardinality({a \in ans : a.p = p /\ a.op = "put"})
                      IN /\ ~(later /\ now)
                         /\ (later \/ now) => puts = 0 /\ s.append # NoAppend
                         /\ s.append # NoAppend => later \/ now \/ puts = s.append.nblks_left
                         /\ puts > 0 => puts = s.append.nblks_left
    BY Zenon DEF AppendWaitsOnce
  <1> DEFINE s == proc[p]
             later == s.latest.cb # NoCallback
             now == s.write_inprogress /\ s.storing.cb # NoCallback
             puts == Cardinality(LivePuts(p)) + Cardinality(PutAnswers(p))
  <1>1. s.phase \in Working
    BY Zenon DEF Working
  <1>2. Appending(s) /\ s \in ProcWith({{}})
    BY Zenon, <1>1 DEF DynInv, ProcInv, OneProc, Local, Core, Types
  <1>3. puts = Cardinality(Owed(p)) /\ (Owed(p) # {} => Putting(s)) /\ IsFiniteSet(Owed(p))
    BY Zenon, PutsOwed
  <1>4. Putting(s) => s.append.nblks_left = puts
    BY Zenon, <1>3 DEF DynInv, PutInv, PutProc
  <1>5. Cardinality({}) = 0 /\ ~(0 > 0)
    BY DEF SetFacts, EmptySize
  <1>6. ~Putting(s) => puts = 0
    BY Zenon, <1>3, <1>5
  <1> HIDE DEF puts
  <1>7. (later <=> Later(s) # NoCallback) /\ (now <=> Now(s) # NoCallback)
    BY Zenon DEF Later, Now
  <1>8. (later \/ now) <=> Stage(s) # NoCallback
    BY Zenon, <1>7 DEF Stage
  <1>9. ~(later /\ now)
    BY Zenon, <1>2, <1>7 DEF Appending
  <1>10. s.append = NoAppend => s.append.nblks = 0
    BY DEF NoAppend
  <1>11. s.append.nblks = 0 => s.append = NoAppend /\ Stage(s) = NoCallback
    BY Zenon, <1>2 DEF Appending
  <1>12. s.append.nblks = 0 \/ s.append.nblks > 0
    BY <1>2 DEF ProcWith
  <1> HIDE DEF later, now
  <1>13. (later \/ now) => puts = 0 /\ s.append # NoAppend
    <2>1. (later \/ now) => ~Putting(s)
      BY Zenon, <1>8 DEF Putting
    <2>2. (later \/ now) => s.append # NoAppend
      BY Zenon, <1>8, <1>10, <1>11
    <2> QED
      BY Zenon, <1>6, <2>1, <2>2
  <1>14. s.append # NoAppend => later \/ now \/ puts = s.append.nblks_left
    <2>1. s.append # NoAppend /\ ~(later \/ now) => Putting(s)
      BY Zenon, <1>1, <1>8, <1>11, <1>12 DEF Putting
    <2> QED
      BY Zenon, <1>4, <2>1
  <1>15. puts > 0 => puts = s.append.nblks_left
    BY Zenon, <1>4, <1>5, <1>6
  <1> QED
    BY Zenon, <1>9, <1>13, <1>14, <1>15 DEF later, now, puts, LivePuts, PutAnswers

\* The invariant implies that nobody waits in vain.
LEMMA InvNothingStuck ==
    ASSUME SetFacts, DynInv
    PROVE  NothingStuck
  <1>1. ASSUME NEW p \in Daemons,
               ~\E m \in net : m.p = p /\ m.live, ~\E a \in ans : a.p = p
        PROVE  /\ proc[p].phase = "running" =>
                     /\ proc[p].append = NoAppend /\ proc[p].gets = {}
                     /\ proc[p].M >= proc[p].N /\ proc[p].ip = {} /\ ~proc[p].write_inprogress
               /\ proc[p].phase = "stopping" => proc[p].shutdown
               /\ proc[p].phase \notin {"reading", "claiming"}
    <2> DEFINE s == proc[p]
    <2>1. \A op : ~Awaits(p, op)
      BY Zenon, <1>1 DEF Awaits
    <2>2. \A ops, b : ~AwaitsBlock(p, ops, b)
      BY Zenon, <1>1 DEF AwaitsBlock
    <2>3. WaitProc(p)
      BY Zenon DEF DynInv, WaitInv
    <2>4. s.phase \notin {"reading", "claiming"}
      BY Zenon, <2>1, <2>3 DEF WaitProc
    <2>5. ASSUME s.phase \in Working
          PROVE  ~s.write_inprogress /\ s.ip = {} /\ s.gets = {} /\ s.append = NoAppend
                 /\ AtRest(s)
      <3>1. ~s.write_inprogress /\ (\A b \in s.ip : FALSE) /\ (\A g \in s.gets : FALSE)
        BY Zenon, <2>1, <2>2, <2>3, <2>5 DEF WaitProc
      <3>2. s.ip = {} /\ s.gets = {}
        BY Zenon, <3>1
      <3>3. AtRest(s) /\ Appending(s) /\ s \in ProcWith({{}})
        BY Zenon, <2>5 DEF DynInv, ProcInv, OneProc, Local, Core, Types
      <3>4. Later(s) = NoCallback /\ Now(s) = NoCallback
        BY Zenon, <3>1, <3>3 DEF AtRest, Now
      <3>5. Stage(s) = NoCallback
        BY Zenon, <3>4 DEF Stage
      <3>6. Owed(p) = {}
        BY Zenon, <1>1 DEF Owed
      <3>7. Cardinality(Owed(p)) = 0 /\ ~(0 > 0)
        BY <3>6 DEF SetFacts, EmptySize
      <3>8. ~Putting(s)
        BY Zenon, <3>7 DEF DynInv, PutInv, PutProc
      <3>9. s.append.nblks = 0 \/ s.append.nblks > 0
        BY <3>3 DEF ProcWith
      <3>10. s.append = NoAppend
        BY Zenon, <2>5, <3>3, <3>5, <3>8, <3>9 DEF Putting, Appending
      <3> QED
        BY Zenon, <3>1, <3>2, <3>3, <3>10
    <2>6. "running" \in Working /\ "stopping" \in Working
      BY DEF Working
    <2>7. ASSUME s.phase = "running" PROVE s.M >= s.N
      BY Zenon, <2>5, <2>6, <2>7 DEF AtRest
    <2>8. ASSUME s.phase = "stopping" PROVE s.shutdown
      BY Zenon, <2>5, <2>6, <2>8 DEF AtRest
    <2> QED
      BY Zenon, <2>4, <2>5, <2>6, <2>7, <2>8
  <1>2. AppendWaitsOnce
    BY Zenon, InvAppendWaitsOnce
  <1> QED
    BY Zenon, <1>1, <1>2 DEF NothingStuck
=============================================================================
