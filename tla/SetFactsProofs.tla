--------------------------- MODULE SetFactsProofs ---------------------------
(***************************************************************************)
(* The facts about finite sets and naturals that the proofs about the      *)
(* components take as a hypothesis, from the library.                      *)
(***************************************************************************)
EXTENDS SetFacts, FiniteSetTheorems, WellFoundedInduction, TLAPS

\* The provers of a step that names none, and the seconds each has.
USE SMTT(30), ZenonT(30)

\* A nonempty set of numbers (of free IDs, of queue indices) has a least one.
LEMMA Least == LeastNatural
  <1> SUFFICES ASSUME NEW T \in SUBSET Nat, T # {}
               PROVE  \E m \in T : \A n \in T : m <= n
    BY DEF LeastNatural
  <1>1. PICK m \in T : \A y \in T : ~(<<y, m>> \in OpToRel(<, Nat))
    BY Zenon, WFMin, NatLessThanWellFounded
  <1>2. \A y \in T : ~(y < m)
    BY Zenon, <1>1 DEF OpToRel
  <1> QED
    BY <1>2

\* What counting connections, requests and files rests on.
THEOREM SetFactsHold == SetFacts
  <1>1. FiniteSize
    BY FS_CardinalityType DEF FiniteSize
  <1>2. EmptySize
    BY FS_EmptySet DEF EmptySize
  <1>3. SingletonSize
    BY Zenon, FS_Singleton DEF SingletonSize
  <1>4. AddSize
    BY FS_AddElement, FS_CardinalityType DEF AddSize
  <1>5. RemoveSize
    BY FS_RemoveElement, FS_CardinalityType DEF RemoveSize
  <1>6. SubsetSize
    BY FS_Subset DEF SubsetSize
  <1>7. UnionSize
    BY FS_Union DEF UnionSize
  <1>8. IntervalSize
    <2>1. ASSUME NEW n \in Nat PROVE Cardinality(1 .. n) = n
      <3>1. Cardinality(1 .. n) = IF 1 > n THEN 0 ELSE n - 1 + 1
        BY FS_Interval
      <3> QED
        BY <3>1
    <2> QED
      BY <2>1, FS_Interval DEF IntervalSize
  <1>9. MatchSize
    <2> SUFFICES ASSUME NEW S, NEW T, NEW f \in [S -> T], OneToOne(f, S)
                 PROVE  /\ IsFiniteSet(S) /\ Onto(f, S, T)
                              => IsFiniteSet(T) /\ Cardinality(T) = Cardinality(S)
                        /\ IsFiniteSet(T) /\ Cardinality(S) = Cardinality(T)
                              => Onto(f, S, T)
      BY DEF MatchSize
    <2>1. f \in Injection(S, T)
      BY DEF OneToOne, Injection, IsInjective
    <2>2. ASSUME IsFiniteSet(S), Onto(f, S, T)
          PROVE  IsFiniteSet(T) /\ Cardinality(T) = Cardinality(S)
      <3>1. f \in Bijection(S, T)
        BY <2>1, <2>2 DEF Onto, Bijection, Surjection
      <3>2. ExistsBijection(S, T)
        BY <3>1 DEF ExistsBijection
      <3> QED
        BY <2>2, <3>2, FS_Bijection
    <2>3. ASSUME IsFiniteSet(T), Cardinality(S) = Cardinality(T) PROVE Onto(f, S, T)
      <3>1. f \in Surjection(S, T)
        BY <2>1, <2>3, FS_Injection
      <3> QED
        BY <3>1 DEF Surjection, Onto
    <2> QED
      BY <2>2, <2>3
  <1>10. RangeSize
    BY FS_Interval DEF RangeSize
  <1> QED
    BY <1>1, <1>2, <1>3, <1>4, <1>5, <1>6, <1>7, <1>8, <1>9, <1>10, Least DEF SetFacts
=============================================================================
