------------------------------ MODULE SumLemmas ------------------------------
(***************************************************************************)
(* Facts about numbers, finite sets and sums of a function that the proofs *)
(* about the exchange cite.  Induction is stated with a set in the place   *)
(* of the property: it holds of everything when the set has everything.    *)
(***************************************************************************)
EXTENDS Integers, Sequences, FiniteSets, Functions, FiniteSetTheorems,
        WellFoundedInduction, TLAPS

LEMMA LeastNumber ==
  ASSUME NEW A, A \subseteq Nat, A # {}
  PROVE  \E n \in A : \A m \in A : n <= m
<1>1. PICK n \in A : \A m \in A : <<m, n>> \notin OpToRel(<, Nat)
  BY NatLessThanWellFounded, WFMin, Zenon
<1>2. \A m \in A : ~(m < n)
  BY <1>1 DEF OpToRel
<1> QED BY <1>2

LEMMA Induction ==
  ASSUME NEW A, 0 \in A, \A n \in Nat : n \in A => n + 1 \in A
  PROVE  Nat \subseteq A
<1> SUFFICES ASSUME Nat \ A # {} PROVE FALSE
  OBVIOUS
<1>1. PICK n \in Nat \ A : \A m \in Nat \ A : n <= m
  <2> DEFINE Out == Nat \ A
  <2>1. Out \subseteq Nat /\ Out # {}
    OBVIOUS
  <2> HIDE DEF Out
  <2>2. \E n \in Out : \A m \in Out : n <= m
    BY <2>1, LeastNumber
  <2> QED BY <2>2 DEF Out
<1>2. n # 0
  BY <1>1
<1>3. n - 1 \in Nat /\ n - 1 \in A
  BY <1>1, <1>2
<1> QED BY <1>1, <1>3

LEMMA RemoveOne ==
  ASSUME NEW S, IsFiniteSet(S), NEW x \in S
  PROVE  /\ IsFiniteSet(S \ {x}) /\ Cardinality(S \ {x}) \in Nat
         /\ Cardinality(S) \in Nat /\ Cardinality(S \ {x}) = Cardinality(S) - 1
<1>1. Cardinality(S \ {x}) = Cardinality(S) - 1
  BY FS_RemoveElement
<1>2. IsFiniteSet(S \ {x})
  BY FS_Subset
<1> QED BY <1>1, <1>2, FS_CardinalityType

\* What holds of the empty set and is kept when an element comes in holds of a
\* finite set.
LEMMA SetInduction ==
  ASSUME NEW S, IsFiniteSet(S), NEW A, {} \in A,
         \A T \in SUBSET S : \A x \in S \ T : T \in A => T \cup {x} \in A
  PROVE  S \in A
<1> DEFINE Big == {n \in Nat : \A T \in SUBSET S : Cardinality(T) = n => T \in A}
<1>0. \A T \in SUBSET S : IsFiniteSet(T) /\ Cardinality(T) \in Nat
  BY FS_Subset, FS_CardinalityType
<1>1. 0 \in Big
  BY <1>0, FS_EmptySet
<1>2. ASSUME NEW n \in Nat, n \in Big PROVE n + 1 \in Big
  <2> SUFFICES ASSUME NEW T \in SUBSET S, Cardinality(T) = n + 1 PROVE T \in A
    OBVIOUS
  <2>1. PICK x \in T : TRUE
    BY <1>0, FS_EmptySet
  <2>2. Cardinality(T \ {x}) = n
    BY <1>0, <2>1, RemoveOne
  <2>3. T \ {x} \in A
    BY <1>2, <2>2
  <2>4. T = (T \ {x}) \cup {x} /\ x \in S \ (T \ {x})
    BY <2>1
  <2> QED BY <2>3, <2>4
<1>3. Nat \subseteq Big
  <2> HIDE DEF Big
  <2> QED BY <1>1, <1>2, Induction
<1> QED BY <1>0, <1>3

-----------------------------------------------------------------------------
(***************************************************************************)
(* Sums.  SumFunctionOnSet folds over the set in an order that CHOOSE      *)
(* gives; the lemmas say that there is such a fold and that its order does *)
(* not matter.                                                             *)
(***************************************************************************)
Pick(T) == CHOOSE x \in T : TRUE

IsFold(g, f, C) == g = [T \in C |-> IF T = {} THEN 0 ELSE f[Pick(T)] + g[T \ {Pick(T)}]]

LEMMA SumIsFold ==
  ASSUME NEW f, NEW S
  PROVE  SumFunctionOnSet(f, S) = (CHOOSE g : IsFold(g, f, SUBSET S))[S]
BY DEF SumFunctionOnSet, FoldFunctionOnSet, MapThenFoldSet, IsFold, Pick

LEMMA FoldExists ==
  ASSUME NEW f, NEW S, IsFiniteSet(S)
  PROVE  \E g : IsFold(g, f, SUBSET S)
<1> DEFINE Small(n) == {T \in SUBSET S : Cardinality(T) <= n}
           Some == {n \in Nat : \E g : IsFold(g, f, Small(n))}
<1>0. \A T \in SUBSET S : IsFiniteSet(T) /\ Cardinality(T) \in Nat
  BY FS_Subset, FS_CardinalityType
<1>1. 0 \in Some
  <2> DEFINE g == [T \in Small(0) |-> 0]
  <2>1. \A T \in Small(0) : T = {}
    BY <1>0, FS_EmptySet
  <2>2. g = [T \in Small(0) |-> IF T = {} THEN 0 ELSE f[Pick(T)] + g[T \ {Pick(T)}]]
    BY <2>1
  <2> QED BY <2>2 DEF IsFold
<1>2. ASSUME NEW n \in Nat, n \in Some PROVE n + 1 \in Some
  <2>1. PICK g : IsFold(g, f, Small(n))
    BY <1>2
  <2>h. PICK h : h = [T \in Small(n + 1) |-> IF T = {} THEN 0 ELSE f[Pick(T)] + g[T \ {Pick(T)}]]
    OBVIOUS
  <2>2. ASSUME NEW T \in Small(n + 1), T # {} PROVE T \ {Pick(T)} \in Small(n)
    <3>1. Pick(T) \in T
      BY <2>2 DEF Pick
    <3>2. Cardinality(T \ {Pick(T)}) = Cardinality(T) - 1
      BY <1>0, <3>1, RemoveOne
    <3> QED BY <1>0, <2>2, <3>2
  <2>3. ASSUME NEW T \in Small(n) PROVE h[T] = g[T]
    <3>1. T \in Small(n + 1)
      BY <1>0
    <3> QED BY <2>1, <2>h, <3>1 DEF IsFold
  <2>4. h = [T \in Small(n + 1) |-> IF T = {} THEN 0 ELSE f[Pick(T)] + h[T \ {Pick(T)}]]
    BY <2>h, <2>2, <2>3
  <2>5. IsFold(h, f, Small(n + 1))
    BY <2>4 DEF IsFold
  <2>6. \E w : IsFold(w, f, Small(n + 1))
    BY <2>5, Zenon
  <2> QED BY ONLY <2>6, n \in Nat
<1>3. Nat \subseteq Some
  <2> HIDE DEF Some
  <2> QED BY <1>1, <1>2, Induction
<1>4. PICK g : IsFold(g, f, Small(Cardinality(S)))
  BY <1>0, <1>3
<1>5. Small(Cardinality(S)) = SUBSET S
  BY FS_Subset
<1> QED BY <1>4, <1>5

\* Two folds agree wherever both are defined.
LEMMA FoldsAgree ==
  ASSUME NEW f, NEW S, IsFiniteSet(S), NEW U \in SUBSET S,
         NEW g, IsFold(g, f, SUBSET S), NEW h, IsFold(h, f, SUBSET U)
  PROVE  g[U] = h[U]
<1> DEFINE Known == {n \in Nat : \A T \in SUBSET U : Cardinality(T) = n => g[T] = h[T]}
<1>0. \A T \in SUBSET U : IsFiniteSet(T) /\ Cardinality(T) \in Nat
  BY FS_Subset, FS_CardinalityType
<1>1. 0 \in Known
  BY <1>0, FS_EmptySet DEF IsFold
<1>2. ASSUME NEW n \in Nat, n \in Known PROVE n + 1 \in Known
  <2> SUFFICES ASSUME NEW T \in SUBSET U, Cardinality(T) = n + 1 PROVE g[T] = h[T]
    OBVIOUS
  <2>1. T # {} /\ Pick(T) \in T
    BY <1>0, FS_EmptySet DEF Pick
  <2>2. Cardinality(T \ {Pick(T)}) = n
    BY <1>0, <2>1, RemoveOne
  <2>3. g[T \ {Pick(T)}] = h[T \ {Pick(T)}]
    BY <1>2, <2>2
  <2> QED BY <2>1, <2>3 DEF IsFold
<1>3. Nat \subseteq Known
  <2> HIDE DEF Known
  <2> QED BY <1>1, <1>2, Induction
<1> QED BY <1>0, <1>3

LEMMA SumUnfolds ==
  ASSUME NEW f, NEW S, IsFiniteSet(S)
  PROVE  SumFunctionOnSet(f, S) =
           IF S = {} THEN 0 ELSE f[Pick(S)] + SumFunctionOnSet(f, S \ {Pick(S)})
<1>0. PICK U \in SUBSET S : U = S \ {Pick(S)}
  OBVIOUS
<1>1. PICK g : IsFold(g, f, SUBSET S) /\ SumFunctionOnSet(f, S) = g[S]
  BY FoldExists, SumIsFold
<1>2. IsFiniteSet(U)
  BY FS_Subset
<1>3. PICK h : IsFold(h, f, SUBSET U) /\ SumFunctionOnSet(f, U) = h[U]
  BY <1>2, FoldExists, SumIsFold
<1>4. g[U] = h[U]
  <2>1. IsFold(g, f, SUBSET S)
    BY <1>1
  <2>2. IsFold(h, f, SUBSET U)
    BY <1>3
  <2>3. \A a : IsFold(a, f, SUBSET S) => \A b : IsFold(b, f, SUBSET U) => a[U] = b[U]
    BY FoldsAgree
  <2> QED BY <2>1, <2>2, <2>3
<1>5. g[S] = IF S = {} THEN 0 ELSE f[Pick(S)] + g[U]
  BY <1>0, <1>1 DEF IsFold
<1> QED BY <1>0, <1>1, <1>3, <1>4, <1>5

\* The sum of nothing.
LEMMA SumEmpty == ASSUME NEW f PROVE SumFunctionOnSet(f, {}) = 0
BY SumUnfolds, FS_EmptySet

LEMMA SumType ==
  ASSUME NEW S, IsFiniteSet(S), NEW f, \A x \in S : f[x] \in Int
  PROVE  SumFunctionOnSet(f, S) \in Int
<1> DEFINE Known == {n \in Nat : \A T \in SUBSET S :
                       Cardinality(T) = n => SumFunctionOnSet(f, T) \in Int}
<1>0. \A T \in SUBSET S : IsFiniteSet(T) /\ Cardinality(T) \in Nat
  BY FS_Subset, FS_CardinalityType
<1>1. 0 \in Known
  BY <1>0, FS_EmptySet, SumEmpty
<1>2. ASSUME NEW n \in Nat, n \in Known PROVE n + 1 \in Known
  <2> SUFFICES ASSUME NEW T \in SUBSET S, Cardinality(T) = n + 1
               PROVE  SumFunctionOnSet(f, T) \in Int
    OBVIOUS
  <2>1. T # {} /\ Pick(T) \in T
    BY <1>0, FS_EmptySet DEF Pick
  <2>2. Cardinality(T \ {Pick(T)}) = n
    BY <1>0, <2>1, RemoveOne
  <2>3. SumFunctionOnSet(f, T \ {Pick(T)}) \in Int
    BY <1>2, <2>2
  <2> QED BY <1>0, <2>1, <2>3, SumUnfolds
<1>3. Nat \subseteq Known
  <2> HIDE DEF Known
  <2> QED BY <1>1, <1>2, Induction
<1> QED BY <1>0, <1>3

\* Any element may be taken out of a sum.
LEMMA SumWithout ==
  ASSUME NEW S, IsFiniteSet(S), NEW f, \A x \in S : f[x] \in Int, NEW y \in S
  PROVE  SumFunctionOnSet(f, S) = f[y] + SumFunctionOnSet(f, S \ {y})
<1> DEFINE Known == {n \in Nat : \A T \in SUBSET S : Cardinality(T) = n =>
                       \A z \in T : SumFunctionOnSet(f, T) = f[z] + SumFunctionOnSet(f, T \ {z})}
<1>0. \A T \in SUBSET S : IsFiniteSet(T) /\ Cardinality(T) \in Nat
  BY FS_Subset, FS_CardinalityType
<1>1. 0 \in Known
  BY <1>0, FS_EmptySet
<1>2. ASSUME NEW n \in Nat, n \in Known PROVE n + 1 \in Known
  <2> SUFFICES ASSUME NEW T \in SUBSET S, Cardinality(T) = n + 1, NEW z \in T
               PROVE  SumFunctionOnSet(f, T) = f[z] + SumFunctionOnSet(f, T \ {z})
    OBVIOUS
  <2> DEFINE c == Pick(T)
  <2>1. c \in T
    BY DEF Pick
  <2>2. SumFunctionOnSet(f, T) = f[c] + SumFunctionOnSet(f, T \ {c})
    BY <1>0, SumUnfolds
  <2> HIDE DEF c
  <2>3. CASE z = c
    BY <2>2, <2>3
  <2>4. CASE z # c
    <3> DEFINE both == T \ {c, z}
    <3>1. Cardinality(T \ {c}) = n /\ Cardinality(T \ {z}) = n
      BY <1>0, <2>1, RemoveOne
    <3>2. (T \ {c}) \ {z} = both /\ (T \ {z}) \ {c} = both /\ z \in T \ {c} /\ c \in T \ {z}
      BY <2>1, <2>4
    <3>3. SumFunctionOnSet(f, T \ {c}) = f[z] + SumFunctionOnSet(f, both)
      BY <1>2, <3>1, <3>2
    <3>4. SumFunctionOnSet(f, T \ {z}) = f[c] + SumFunctionOnSet(f, both)
      BY <1>2, <3>1, <3>2
    <3>5. SumFunctionOnSet(f, both) \in Int /\ f[c] \in Int /\ f[z] \in Int
      BY <1>0, <2>1, SumType
    <3> QED BY <2>2, <3>3, <3>4, <3>5
  <2> QED BY <2>3, <2>4
<1>3. Nat \subseteq Known
  <2> HIDE DEF Known
  <2> QED BY <1>1, <1>2, Induction
<1> QED BY <1>0, <1>3

\* Equal summands have equal sums.
LEMMA SumSame ==
  ASSUME NEW S, IsFiniteSet(S), NEW f, NEW g, \A x \in S : f[x] = g[x]
  PROVE  SumFunctionOnSet(f, S) = SumFunctionOnSet(g, S)
<1> DEFINE Known == {n \in Nat : \A T \in SUBSET S : Cardinality(T) = n =>
                       SumFunctionOnSet(f, T) = SumFunctionOnSet(g, T)}
<1>0. \A T \in SUBSET S : IsFiniteSet(T) /\ Cardinality(T) \in Nat
  BY FS_Subset, FS_CardinalityType
<1>1. 0 \in Known
  BY <1>0, FS_EmptySet, SumEmpty
<1>2. ASSUME NEW n \in Nat, n \in Known PROVE n + 1 \in Known
  <2> SUFFICES ASSUME NEW T \in SUBSET S, Cardinality(T) = n + 1
               PROVE  SumFunctionOnSet(f, T) = SumFunctionOnSet(g, T)
    OBVIOUS
  <2>1. T # {} /\ Pick(T) \in T
    BY <1>0, FS_EmptySet DEF Pick
  <2>2. Cardinality(T \ {Pick(T)}) = n
    BY <1>0, <2>1, RemoveOne
  <2>3. SumFunctionOnSet(f, T \ {Pick(T)}) = SumFunctionOnSet(g, T \ {Pick(T)})
    BY <1>2, <2>2
  <2> QED BY <1>0, <2>1, <2>3, SumUnfolds
<1>3. Nat \subseteq Known
  <2> HIDE DEF Known
  <2> QED BY <1>1, <1>2, Induction
<1> QED BY <1>0, <1>3

\* Two functions that differ at one place.
LEMMA SumChanged ==
  ASSUME NEW S, IsFiniteSet(S), NEW f, NEW g, NEW y \in S,
         \A x \in S : f[x] \in Int /\ g[x] \in Int,
         \A x \in S \ {y} : g[x] = f[x]
  PROVE  SumFunctionOnSet(g, S) = SumFunctionOnSet(f, S) - f[y] + g[y]
<1>1. IsFiniteSet(S \ {y})
  BY FS_Subset
<1>2. SumFunctionOnSet(f, S \ {y}) = SumFunctionOnSet(g, S \ {y})
  BY <1>1, SumSame
<1>3. SumFunctionOnSet(f, S \ {y}) \in Int
  BY <1>1, SumType
<1>4. SumFunctionOnSet(f, S) = f[y] + SumFunctionOnSet(f, S \ {y})
  BY SumWithout
<1>5. SumFunctionOnSet(g, S) = g[y] + SumFunctionOnSet(g, S \ {y})
  BY SumWithout
<1> QED BY <1>2, <1>3, <1>4, <1>5

\* A sum of zeros.
LEMMA SumZero ==
  ASSUME NEW S, IsFiniteSet(S), NEW f, \A x \in S : f[x] = 0
  PROVE  SumFunctionOnSet(f, S) = 0
<1> DEFINE A == {T \in SUBSET S : SumFunctionOnSet(f, T) = 0}
<1>1. {} \in A
  BY SumEmpty
<1>2. ASSUME NEW T \in SUBSET S, NEW x \in S \ T, T \in A PROVE T \cup {x} \in A
  <2>1. IsFiniteSet(T \cup {x}) /\ (T \cup {x}) \ {x} = T
    BY FS_Subset
  <2>2. SumFunctionOnSet(f, T \cup {x}) = f[x] + SumFunctionOnSet(f, T)
    BY <2>1, SumWithout
  <2> QED BY <1>2, <2>2
<1>3. S \in A
  <2> HIDE DEF A
  <2> QED BY <1>1, <1>2, SetInduction
<1> QED BY <1>3

\* A sum of numbers that are not negative is no less than each of them.
LEMMA SumBounds ==
  ASSUME NEW S, IsFiniteSet(S), NEW f, \A x \in S : f[x] \in Nat
  PROVE  /\ SumFunctionOnSet(f, S) \in Nat
         /\ \A x \in S : f[x] <= SumFunctionOnSet(f, S)
<1> DEFINE A == {T \in SUBSET S : SumFunctionOnSet(f, T) \in Nat}
<1>1. {} \in A
  BY SumEmpty
<1>2. ASSUME NEW T \in SUBSET S, NEW x \in S \ T, T \in A PROVE T \cup {x} \in A
  <2>1. IsFiniteSet(T \cup {x}) /\ (T \cup {x}) \ {x} = T
    BY FS_Subset
  <2>2. SumFunctionOnSet(f, T \cup {x}) = f[x] + SumFunctionOnSet(f, T)
    BY <2>1, SumWithout
  <2> QED BY <1>2, <2>2
<1>3. ASSUME NEW T \in SUBSET S PROVE T \in A
  <2>1. IsFiniteSet(T)
    BY FS_Subset
  <2> HIDE DEF A
  <2> QED BY <1>1, <1>2, <2>1, SetInduction
<1>4. ASSUME NEW x \in S PROVE f[x] <= SumFunctionOnSet(f, S)
  <2>1. SumFunctionOnSet(f, S) = f[x] + SumFunctionOnSet(f, S \ {x})
    BY SumWithout
  <2>2. SumFunctionOnSet(f, S \ {x}) \in Nat
    BY <1>3
  <2> QED BY <2>1, <2>2
<1> QED BY <1>3, <1>4
=============================================================================
