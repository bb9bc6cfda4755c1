----------------------------- MODULE FiniteSums -----------------------------
(* What the proofs about regions share: the least of a set of numbers,       *)
(* induction over numbers and over finite sets, and sums over finite sets.   *)
EXTENDS Integers, FiniteSetsExt, Functions, FiniteSetTheorems, WellFoundedInduction, TLAPS

LEMMA LeastOf == ASSUME NEW S, S \subseteq Nat, S # {}
                 PROVE  \E m \in S : \A n \in S : m <= n
<1> DEFINE R == OpToRel(<, Nat)
<1>1. IsWellFoundedOn(R, Nat)
  BY NatLessThanWellFounded
<1>2. PICK m \in S : \A n \in S : <<n, m>> \notin R
  <2> HIDE DEF R
  <2> QED
    BY <1>1, WFMin
<1>3. \A n \in S : ~ (n < m)
  BY <1>2 DEF OpToRel
<1>4. \A n \in S : m <= n
  <2> HIDE DEF R
  <2> QED
    BY <1>3
<1> QED
  BY <1>4

(* Induction over numbers and over finite sets, for properties that are sets. *)
LEMMA InductionOnNat ==
  ASSUME NEW G, 0 \in G, \A n \in Nat : n \in G => n + 1 \in G
  PROVE  \A n \in Nat : n \in G
<1> SUFFICES ASSUME NEW n \in Nat, n \notin G PROVE FALSE
  OBVIOUS
<1> DEFINE B == {k \in Nat : k \notin G}
<1>1. PICK m \in B : \A k \in B : m <= k
  <2>1. B \subseteq Nat /\ B # {}
    OBVIOUS
  <2> HIDE DEF B
  <2> QED
    BY <2>1, LeastOf
<1>2. m # 0 /\ m \in Nat
  OBVIOUS
<1>3. m - 1 \in Nat /\ ~ (m <= m - 1)
  BY <1>2
<1>4. m - 1 \in G
  BY <1>1, <1>3
<1> QED
  BY <1>2, <1>3, <1>4

LEMMA InductionOnSets ==
  ASSUME NEW S, IsFiniteSet(S), NEW G, {} \in G,
         \A T \in SUBSET S : \A x \in S \ T : T \in G => T \cup {x} \in G
  PROVE  S \in G
<1> DEFINE D == {Cardinality(S \ T) : T \in {U \in SUBSET S : U \in G}}
<1>1. D \subseteq Nat /\ D # {}
  <2>1. \A T : Cardinality(S \ T) \in Nat
    BY FS_Subset, FS_CardinalityType
  <2> QED
    BY <2>1
<1>2. PICK m \in D : \A k \in D : m <= k
  <2> HIDE DEF D
  <2> QED
    BY <1>1, LeastOf
<1>3. PICK T \in SUBSET S : T \in G /\ m = Cardinality(S \ T)
  OBVIOUS
<1>6. m \in Nat
  BY <1>1
<1>7. \A U \in SUBSET S : U \in G => m <= Cardinality(S \ U)
  BY <1>2
<1> HIDE DEF D
<1>4. CASE S \ T = {}
  <2>1. T = S
    BY <1>4
  <2> QED
    BY <1>3, <2>1
<1>5. CASE S \ T # {}
  <2>1. PICK x \in S \ T : TRUE
    BY <1>5
  <2>2. T \cup {x} \in G /\ T \cup {x} \in SUBSET S
    BY <1>3, <2>1
  <2>3. Cardinality(S \ (T \cup {x})) = m - 1
    <3>1. IsFiniteSet(S \ T)
      BY FS_Subset
    <3>2. S \ (T \cup {x}) = (S \ T) \ {x}
      OBVIOUS
    <3> DEFINE R == S \ T
    <3>3. x \in R
      OBVIOUS
    <3> HIDE DEF R
    <3>4. Cardinality(R \ {x}) = Cardinality(R) - 1
      BY <3>1, <3>3, FS_RemoveElement DEF R
    <3> QED
      BY <1>3, <3>2, <3>4 DEF R
  <2> QED
    BY <1>6, <1>7, <2>2, <2>3
<1> QED
  BY <1>4, <1>5

-----------------------------------------------------------------------------
(* The sum over a set is what it is of the set without an element, and that. *)
OneMore(f, g, s) == IF s = {} THEN 0
                    ELSE f[CHOOSE x \in s : TRUE] + g[s \ {CHOOSE x \in s : TRUE}]

Iter(f, S) == CHOOSE g : g = [s \in SUBSET S |-> OneMore(f, g, s)]

LEMMA SumIsIter == ASSUME NEW f, NEW S PROVE SumFunctionOnSet(f, S) = Iter(f, S)[S]
  BY DEF SumFunctionOnSet, FoldFunctionOnSet, MapThenFoldSet, Iter, OneMore

LEMMA IterExists ==
  ASSUME NEW S, IsFiniteSet(S), NEW f
  PROVE  Iter(f, S) = [s \in SUBSET S |-> OneMore(f, Iter(f, S), s)]
<1> DEFINE D(n) == {s \in SUBSET S : Cardinality(s) <= n}
           P(n) == \E g : g = [s \in D(n) |-> OneMore(f, g, s)]
           G == {n \in Nat : P(n)}
<1>0. \A s \in SUBSET S : IsFiniteSet(s) /\ Cardinality(s) \in Nat
  BY FS_Subset, FS_CardinalityType
<1>1. 0 \in G
  <2>1. \A s \in D(0) : s = {}
    BY <1>0, FS_EmptySet
  <2>2. [s \in D(0) |-> 0] = [s \in D(0) |-> OneMore(f, [t \in D(0) |-> 0], s)]
    BY <2>1 DEF OneMore
  <2> QED
    BY <2>2
<1>2. ASSUME NEW n \in Nat, n \in G PROVE n + 1 \in G
  <2>1. PICK g : g = [s \in D(n) |-> OneMore(f, g, s)]
    BY <1>2
  <2> DEFINE h == [s \in D(n + 1) |-> OneMore(f, g, s)]
  <2>2. \A s \in D(n) : s \in D(n + 1) /\ h[s] = g[s]
    <3>1. ASSUME NEW s \in D(n) PROVE s \in D(n + 1)
      BY <1>0
    <3>2. \A s \in D(n) : g[s] = OneMore(f, g, s)
      BY <2>1
    <3> QED
      BY <3>1, <3>2
  <2>3. ASSUME NEW s \in D(n + 1) PROVE OneMore(f, g, s) = OneMore(f, h, s)
    <3>1. CASE s = {}
      BY <3>1 DEF OneMore
    <3>2. CASE s # {}
      <4> DEFINE x == CHOOSE x \in s : TRUE
      <4>1. x \in s
        BY <3>2
      <4>2. s \ {x} \in D(n)
        <5>1. Cardinality(s \ {x}) = Cardinality(s) - 1
          BY <1>0, <4>1, FS_RemoveElement
        <5> QED
          BY <1>0, <5>1
      <4>3. h[s \ {x}] = g[s \ {x}]
        BY <2>2, <4>2
      <4> QED
        BY <3>2, <4>3 DEF OneMore
    <3> QED
      BY <3>1, <3>2
  <2>4. h = [s \in D(n + 1) |-> OneMore(f, h, s)]
    <3> HIDE DEF D
    <3> QED
      BY <2>3
  <2>5. P(n + 1)
    <3> HIDE DEF h, D
    <3> QED
      BY <2>4
  <2> HIDE DEF P
  <2> QED
    BY <2>5
<1>3. Cardinality(S) \in G
  <2> HIDE DEF G
  <2> QED
    BY <1>0, <1>1, <1>2, InductionOnNat
<1>4. D(Cardinality(S)) = SUBSET S
  BY <1>0, FS_Subset
<1>5. \E g : g = [s \in SUBSET S |-> OneMore(f, g, s)]
  <2> HIDE DEF D
  <2> QED
    BY <1>3, <1>4
<1> QED
  BY <1>5 DEF Iter

(* It does not matter of which larger set the sum is taken.                  *)
LEMMA IterAgree ==
  ASSUME NEW S, IsFiniteSet(S), NEW f, NEW T \in SUBSET S
  PROVE  Iter(f, S)[T] = SumFunctionOnSet(f, T)
<1>0. IsFiniteSet(T) /\ \A s \in SUBSET S : IsFiniteSet(s) /\ Cardinality(s) \in Nat
  BY FS_Subset, FS_CardinalityType
<1> DEFINE g == Iter(f, S)
           h == Iter(f, T)
           G == {n \in Nat : \A s \in SUBSET T : Cardinality(s) <= n => g[s] = h[s]}
<1>1. \A s \in SUBSET T : g[s] = OneMore(f, g, s) /\ h[s] = OneMore(f, h, s)
  <2>1. g = [s \in SUBSET S |-> OneMore(f, g, s)]
    BY IterExists
  <2>2. h = [s \in SUBSET T |-> OneMore(f, h, s)]
    BY <1>0, IterExists
  <2> HIDE DEF g, h
  <2> QED
    BY <2>1, <2>2
<1> HIDE DEF g, h
<1>2. 0 \in G
  <2> SUFFICES ASSUME NEW s \in SUBSET T, Cardinality(s) <= 0 PROVE g[s] = h[s]
    OBVIOUS
  <2>1. s = {}
    BY <1>0, FS_EmptySet
  <2> QED
    BY <1>1, <2>1 DEF OneMore
<1>3. ASSUME NEW n \in Nat, n \in G PROVE n + 1 \in G
  <2> SUFFICES ASSUME NEW s \in SUBSET T, Cardinality(s) <= n + 1 PROVE g[s] = h[s]
    BY <1>3
  <2>1. CASE s = {}
    BY <1>1, <2>1 DEF OneMore
  <2>2. CASE s # {}
    <3> DEFINE x == CHOOSE x \in s : TRUE
    <3>1. x \in s
      BY <2>2
    <3>2. s \ {x} \in SUBSET T /\ Cardinality(s \ {x}) <= n
      <4>1. Cardinality(s \ {x}) = Cardinality(s) - 1
        BY <1>0, <3>1, FS_RemoveElement
      <4> QED
        BY <1>0, <4>1
    <3>3. g[s \ {x}] = h[s \ {x}]
      BY <1>3, <3>2
    <3> QED
      BY <1>1, <2>2, <3>3 DEF OneMore
  <2> QED
    BY <2>1, <2>2
<1>4. Cardinality(T) \in G
  <2> HIDE DEF G
  <2> QED
    BY <1>0, <1>2, <1>3, InductionOnNat
<1>5. g[T] = h[T]
  BY <1>0, <1>4
<1> QED
  BY <1>5, SumIsIter DEF g, h

LEMMA SumStep ==
  ASSUME NEW S, IsFiniteSet(S), NEW f
  PROVE  SumFunctionOnSet(f, S) =
           IF S = {} THEN 0
           ELSE f[CHOOSE x \in S : TRUE] + SumFunctionOnSet(f, S \ {CHOOSE x \in S : TRUE})
<1>1. SumFunctionOnSet(f, S) = OneMore(f, Iter(f, S), S)
  <2>1. Iter(f, S)[S] = OneMore(f, Iter(f, S), S)
    <3> DEFINE g == Iter(f, S)
    <3>1. g = [s \in SUBSET S |-> OneMore(f, g, s)]
      BY IterExists
    <3> HIDE DEF g
    <3>2. g[S] = OneMore(f, g, S)
      BY <3>1
    <3> QED
      BY <3>2 DEF g
  <2> QED
    BY <2>1, SumIsIter
<1>2. Iter(f, S)[S \ {CHOOSE x \in S : TRUE}] = SumFunctionOnSet(f, S \ {CHOOSE x \in S : TRUE})
  <2>1. S \ {CHOOSE x \in S : TRUE} \in SUBSET S
    OBVIOUS
  <2> HIDE DEF SumFunctionOnSet
  <2> QED
    BY <2>1, IterAgree
<1> QED
  BY <1>1, <1>2 DEF OneMore

LEMMA SumTyped ==
  ASSUME NEW S, IsFiniteSet(S), NEW f, \A x \in S : f[x] \in Nat
  PROVE  SumFunctionOnSet(f, S) \in Nat
<1> DEFINE G == {n \in Nat : \A T \in SUBSET S :
                   Cardinality(T) <= n => SumFunctionOnSet(f, T) \in Nat}
<1>0. \A T \in SUBSET S : IsFiniteSet(T) /\ Cardinality(T) \in Nat
  BY FS_Subset, FS_CardinalityType
<1>1. 0 \in G
  <2> SUFFICES ASSUME NEW T \in SUBSET S, Cardinality(T) <= 0
               PROVE  SumFunctionOnSet(f, T) \in Nat
    OBVIOUS
  <2>1. T = {}
    BY <1>0, FS_EmptySet
  <2> QED
    BY <1>0, <2>1, SumStep
<1>2. ASSUME NEW n \in Nat, n \in G PROVE n + 1 \in G
  <2> SUFFICES ASSUME NEW T \in SUBSET S, Cardinality(T) <= n + 1
               PROVE  SumFunctionOnSet(f, T) \in Nat
    BY <1>2
  <2>1. CASE T = {}
    BY <1>0, <2>1, SumStep
  <2>2. CASE T # {}
    <3> DEFINE x == CHOOSE x \in T : TRUE
    <3>1. x \in T
      BY <2>2
    <3>2. T \ {x} \in SUBSET S /\ Cardinality(T \ {x}) <= n
      <4>1. Cardinality(T \ {x}) = Cardinality(T) - 1
        BY <1>0, <3>1, FS_RemoveElement
      <4> QED
        BY <1>0, <4>1
    <3>3. SumFunctionOnSet(f, T \ {x}) \in Nat
      BY <1>2, <3>2
    <3>4. SumFunctionOnSet(f, T) = f[x] + SumFunctionOnSet(f, T \ {x})
      BY <1>0, <2>2, SumStep
    <3> QED
      BY <3>1, <3>3, <3>4
  <2> QED
    BY <2>1, <2>2
<1>3. Cardinality(S) \in G
  <2> HIDE DEF G
  <2> QED
    BY <1>0, <1>1, <1>2, InductionOnNat
<1> QED
  BY <1>0, <1>3

(* ... whichever element it is.                                              *)
LEMMA SumRemove ==
  ASSUME NEW S, IsFiniteSet(S), NEW f, \A x \in S : f[x] \in Nat, NEW y \in S
  PROVE  SumFunctionOnSet(f, S) = f[y] + SumFunctionOnSet(f, S \ {y})
<1> DEFINE Good(T) == \A z \in T : SumFunctionOnSet(f, T) = f[z] + SumFunctionOnSet(f, T \ {z})
           G == {n \in Nat : \A T \in SUBSET S : Cardinality(T) <= n => Good(T)}
<1>0. \A T \in SUBSET S : /\ IsFiniteSet(T) /\ Cardinality(T) \in Nat
                          /\ SumFunctionOnSet(f, T) \in Nat
  <2>1. \A T \in SUBSET S : IsFiniteSet(T) /\ Cardinality(T) \in Nat
    BY FS_Subset, FS_CardinalityType
  <2>2. \A T \in SUBSET S : SumFunctionOnSet(f, T) \in Nat
    BY <2>1, SumTyped
  <2> QED
    BY <2>1, <2>2
<1>1. 0 \in G
  <2> SUFFICES ASSUME NEW T \in SUBSET S, Cardinality(T) <= 0 PROVE Good(T)
    OBVIOUS
  <2>1. T = {}
    BY <1>0, FS_EmptySet
  <2> QED
    BY <2>1
<1>2. ASSUME NEW n \in Nat, n \in G PROVE n + 1 \in G
  <2> SUFFICES ASSUME NEW T \in SUBSET S, Cardinality(T) <= n + 1, NEW z \in T
               PROVE  SumFunctionOnSet(f, T) = f[z] + SumFunctionOnSet(f, T \ {z})
    BY <1>2
  <2> DEFINE x == CHOOSE x \in T : TRUE
  <2>1. x \in T
    OBVIOUS
  <2>2. SumFunctionOnSet(f, T) = f[x] + SumFunctionOnSet(f, T \ {x})
    BY <1>0, SumStep
  <2> HIDE DEF x
  <2>3. CASE x = z
    BY <2>2, <2>3
  <2>4. CASE x # z
    <3> DEFINE U == T \ {x}
               V == T \ {z}
    <3>1. U \in SUBSET S /\ V \in SUBSET S /\ z \in U /\ x \in V /\ U \ {z} = V \ {x}
      BY <2>1, <2>4
    <3>2. Cardinality(U) <= n /\ Cardinality(V) <= n
      <4>1. Cardinality(U) = Cardinality(T) - 1 /\ Cardinality(V) = Cardinality(T) - 1
        BY <1>0, <2>1, FS_RemoveElement
      <4> QED
        BY <1>0, <4>1
    <3>3. Good(U) /\ Good(V)
      BY <1>2, <3>1, <3>2
    <3>4. /\ SumFunctionOnSet(f, U) = f[z] + SumFunctionOnSet(f, U \ {z})
          /\ SumFunctionOnSet(f, V) = f[x] + SumFunctionOnSet(f, U \ {z})
      BY <3>1, <3>3
    <3>5. f[x] \in Nat /\ f[z] \in Nat /\ SumFunctionOnSet(f, U \ {z}) \in Nat
      BY <1>0, <2>1, <3>1
    <3> QED
      BY <2>2, <3>4, <3>5
  <2> QED
    BY <2>3, <2>4
<1>3. Cardinality(S) \in G
  <2> HIDE DEF G
  <2> QED
    BY <1>0, <1>1, <1>2, InductionOnNat
<1> QED
  BY <1>0, <1>3

LEMMA SumUnion ==
  ASSUME NEW A, NEW B, IsFiniteSet(A), IsFiniteSet(B), A \cap B = {},
         NEW f, \A x \in A \cup B : f[x] \in Nat
  PROVE  SumFunctionOnSet(f, A \cup B) = SumFunctionOnSet(f, A) + SumFunctionOnSet(f, B)
<1> DEFINE Good(T) == SumFunctionOnSet(f, A \cup T)
                       = SumFunctionOnSet(f, A) + SumFunctionOnSet(f, T)
           G == {T \in SUBSET B : Good(T)}
<1>0. /\ SumFunctionOnSet(f, {}) = 0 /\ SumFunctionOnSet(f, A) \in Nat
      /\ \A T \in SUBSET B : /\ IsFiniteSet(T) /\ IsFiniteSet(A \cup T)
                             /\ SumFunctionOnSet(f, T) \in Nat
  <2>1. \A T \in SUBSET B : IsFiniteSet(T) /\ IsFiniteSet(A \cup T)
    BY FS_Subset, FS_Union
  <2> QED
    BY <2>1, SumTyped, SumStep, FS_EmptySet
<1>1. {} \in G
  <2>1. A \cup {} = A
    OBVIOUS
  <2> QED
    BY <1>0, <2>1
<1>2. ASSUME NEW T \in SUBSET B, NEW x \in B \ T, T \in G PROVE T \cup {x} \in G
  <2>1. A \cup (T \cup {x}) \in SUBSET (A \cup B) /\ x \in T \cup {x} /\ x \in A \cup (T \cup {x})
    OBVIOUS
  <2>2. (T \cup {x}) \ {x} = T /\ (A \cup (T \cup {x})) \ {x} = A \cup T
    OBVIOUS
  <2>3. SumFunctionOnSet(f, T \cup {x}) = f[x] + SumFunctionOnSet(f, T)
    <3>1. T \cup {x} \in SUBSET B
      OBVIOUS
    <3> DEFINE C == T \cup {x}
    <3>2. IsFiniteSet(C) /\ x \in C /\ C \ {x} = T /\ \A y \in C : f[y] \in Nat
      BY <1>0, <2>2, <3>1
    <3> HIDE DEF C
    <3>3. SumFunctionOnSet(f, C) = f[x] + SumFunctionOnSet(f, C \ {x})
      BY <3>2, SumRemove
    <3> QED
      BY <3>2, <3>3 DEF C
  <2>4. SumFunctionOnSet(f, A \cup (T \cup {x})) = f[x] + SumFunctionOnSet(f, A \cup T)
    <3>1. T \cup {x} \in SUBSET B
      OBVIOUS
    <3> DEFINE C == A \cup (T \cup {x})
    <3>2. IsFiniteSet(C) /\ x \in C /\ C \ {x} = A \cup T /\ \A y \in C : f[y] \in Nat
      BY <1>0, <2>2, <3>1
    <3> HIDE DEF C
    <3>3. SumFunctionOnSet(f, C) = f[x] + SumFunctionOnSet(f, C \ {x})
      BY <3>2, SumRemove
    <3> QED
      BY <3>2, <3>3 DEF C
  <2>5. f[x] \in Nat /\ SumFunctionOnSet(f, T) \in Nat
    BY <1>0
  <2>6. Good(T)
    BY <1>2
  <2>7. Good(T \cup {x})
    BY <1>0, <2>3, <2>4, <2>5, <2>6
  <2> HIDE DEF Good
  <2> QED
    BY <2>7
<1>3. B \in G
  <2> HIDE DEF G
  <2> QED
    BY <1>1, <1>2, InductionOnSets
<1> QED
  BY <1>3
=============================================================================
