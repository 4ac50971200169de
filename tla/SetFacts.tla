------------------------------ MODULE SetFacts ------------------------------
(***************************************************************************)
(* What the proofs use of finite sets and of the naturals, as formulas.    *)
(* They are theorems of the library (SetFactsProofs), too many to keep in  *)
(* sight of every step: the lemmas about a component take SetFacts as a    *)
(* hypothesis, and its theorems discharge it.                              *)
(***************************************************************************)
EXTENDS Integers, FiniteSets

OneToOne(f, S) == \A x, y \in S : f[x] = f[y] => x = y
Onto(f, S, T) == \A y \in T : \E x \in S : f[x] = y

FiniteSize == \A S : IsFiniteSet(S) => Cardinality(S) \in Nat

EmptySize ==
    /\ IsFiniteSet({}) /\ Cardinality({}) = 0
    /\ \A S : IsFiniteSet(S) /\ Cardinality(S) = 0 => S = {}

SingletonSize == \A x : IsFiniteSet({x}) /\ Cardinality({x}) = 1

AddSize ==
    \A S, x : IsFiniteSet(S) =>
        /\ IsFiniteSet(S \cup {x})
        /\ Cardinality(S \cup {x}) = Cardinality(S) + IF x \in S THEN 0 ELSE 1

RemoveSize ==
    \A S, x : IsFiniteSet(S) =>
        /\ IsFiniteSet(S \ {x})
        /\ Cardinality(S \ {x}) = Cardinality(S) - IF x \in S THEN 1 ELSE 0

SubsetSize ==
    \A S : \A T \in SUBSET S : IsFiniteSet(S) =>
        /\ IsFiniteSet(T) /\ Cardinality(T) <= Cardinality(S)
        /\ Cardinality(T) = Cardinality(S) => T = S

UnionSize ==
    \A S, T : IsFiniteSet(S) /\ IsFiniteSet(T) =>
        /\ IsFiniteSet(S \cup T)
        /\ Cardinality(S \cup T)
              = Cardinality(S) + Cardinality(T) - Cardinality(S \cap T)

IntervalSize ==
    /\ \A a, b \in Int : IsFiniteSet(a .. b)
    /\ \A n \in Nat : Cardinality(1 .. n) = n

RangeSize == \A a, b \in Int : a <= b + 1 => Cardinality(a .. b) = b - a + 1

\* A one to one function onto a set, and one into a set of the same size.
MatchSize ==
    \A S, T : \A f \in [S -> T] : OneToOne(f, S) =>
        /\ IsFiniteSet(S) /\ Onto(f, S, T)
              => IsFiniteSet(T) /\ Cardinality(T) = Cardinality(S)
        /\ IsFiniteSet(T) /\ Cardinality(S) = Cardinality(T) => Onto(f, S, T)

LeastNatural == \A T \in SUBSET Nat : T # {} => \E m \in T : \A n \in T : m <= n

SetFacts ==
    /\ FiniteSize /\ EmptySize /\ SingletonSize /\ AddSize /\ RemoveSize
    /\ SubsetSize /\ UnionSize /\ IntervalSize /\ RangeSize /\ MatchSize /\ LeastNatural
=============================================================================
