------------------------------ MODULE SumsProofs ------------------------------
(***************************************************************************)
(* What a sum over a finite set satisfies.  The fold of the community      *)
(* modules is a recursive function, so the first part shows that there is  *)
(* a function satisfying its equation (UnfoldingExists) and that it is the *)
(* one the fold evaluates (SumUnfolds); the second is what the proofs about*)
(* stock, statistics and revenue cite.                                     *)
(*                                                                         *)
(* Induction is by SetInduction, and over the naturals by NatInductionSet, *)
(* which take the property as a set: the theorems of the library take an   *)
(* operator, which the provers cannot instantiate.                         *)
(***************************************************************************)
EXTENDS Sums, FiniteSetTheorems, TLAPS

-------------------------------------------------------------------------------
(* Induction, and the recursion of the fold.                               *)

\* Induction over the subsets of a finite set, with the property as the set G of
\* those that have it: a subset outside G that is minimal would have all the
\* subsets with one element less in G, and so be in G itself.
LEMMA SetInduction ==
  ASSUME NEW S, IsFiniteSet(S), NEW G,
         \A T \in SUBSET S : (\A x \in T : T \ {x} \in G) => T \in G
  PROVE  \A T \in SUBSET S : T \in G
<1> SUFFICES ASSUME NEW U \in SUBSET S, U \notin G PROVE FALSE
  OBVIOUS
<1> DEFINE Bad == {T \in SUBSET S : T \notin G}
<1>1. IsWellFoundedOn(StrictSubsetOrdering(S), SUBSET S)
  <2>1. FiniteSubsetsOf(S) = SUBSET S
    BY FS_FiniteSubsetsOfFinite
  <2>2. IsWellFoundedOn(StrictSubsetOrdering(S), FiniteSubsetsOf(S))
    BY FS_StrictSubsetOrderingWellFounded
  <2> QED
    BY <2>1, <2>2
<1>2. Bad \subseteq SUBSET S /\ Bad # {}
  OBVIOUS
<1> HIDE DEF Bad
<1>3. PICK T \in Bad : \A V \in Bad : ~ (<<V, T>> \in StrictSubsetOrdering(S))
  BY <1>1, <1>2, WFMin
<1> USE DEF Bad
<1>4. PICK x \in T : T \ {x} \notin G
  BY <1>3
<1>5. T \ {x} \in Bad
  BY <1>3, <1>4
<1>6. <<T \ {x}, T>> \in StrictSubsetOrdering(S)
  BY <1>3, <1>4 DEF StrictSubsetOrdering
<1> QED
  BY <1>3, <1>5, <1>6

\* The element that MapThenSumSet takes next, and the equation that its
\* recursive function is defined by.
Choice(T) == CHOOSE x \in T : TRUE

Unfolds(f, g, S) ==
  g = [T \in SUBSET S |->
         IF T = {} THEN 0 ELSE f[Choice(T)] + g[T \ {Choice(T)}]]

\* A set that is not empty contains its choice.
LEMMA ChoiceIn == ASSUME NEW T, T # {} PROVE Choice(T) \in T
BY DEF Choice

\* Two functions that unfold a sum agree wherever both are defined.
LEMMA SameUnfolding ==
  ASSUME NEW f, NEW S, IsFiniteSet(S), NEW V \in SUBSET S, NEW g, NEW h,
         Unfolds(f, g, S), Unfolds(f, h, V)
  PROVE  \A T \in SUBSET V : g[T] = h[T]
<1> DEFINE G == {T \in SUBSET V : g[T] = h[T]}
<1>1. IsFiniteSet(V)
  BY FS_Subset
<1>2. ASSUME NEW T \in SUBSET V, \A x \in T : T \ {x} \in G
      PROVE  T \in G
  <2>1. CASE T = {}
    BY <2>1 DEF Unfolds
  <2>2. CASE T # {}
    <3> DEFINE c == Choice(T)
    <3>1. c \in T
      BY <2>2, ChoiceIn
    <3>2. g[T \ {c}] = h[T \ {c}]
      BY <1>2, <3>1
    <3>3. g[T] = f[c] + g[T \ {c}]
      BY <2>2 DEF Unfolds
    <3>4. h[T] = f[c] + h[T \ {c}]
      BY <2>2 DEF Unfolds
    <3> QED
      BY <3>2, <3>3, <3>4
  <2> QED
    BY <2>1, <2>2
<1> HIDE DEF G
<1>3. \A T \in SUBSET V : T \in G
  BY <1>1, <1>2, SetInduction
<1> QED
  BY <1>3 DEF G

\* There is a function that unfolds the sum: on the largest set it continues the
\* unfolding of the set without its choice, on a smaller set it is that of any
\* set between the two.
LEMMA UnfoldingExists ==
  ASSUME NEW f, NEW S, IsFiniteSet(S)
  PROVE  \E g : Unfolds(f, g, S)
<1> DEFINE G == {T \in SUBSET S : \E g : Unfolds(f, g, T)}
<1>1. ASSUME NEW U \in SUBSET S, \A x \in U : U \ {x} \in G
      PROVE  U \in G
  <2> DEFINE of(x) == CHOOSE g : Unfolds(f, g, U \ {x})
  <2>1. \A x \in U : Unfolds(f, of(x), U \ {x})
    BY <1>1
  <2> HIDE DEF of
  <2> DEFINE some(T) == Choice(U \ T)
             g == [T \in SUBSET U |->
                     IF T = U
                     THEN IF T = {} THEN 0
                          ELSE f[Choice(T)] + of(Choice(T))[T \ {Choice(T)}]
                     ELSE of(some(T))[T]]
  <2>2. \A T \in SUBSET U : T # U => some(T) \in U /\ T \in SUBSET (U \ {some(T)})
    BY ChoiceIn
  <2>3. ASSUME NEW x \in U, NEW y \in U, NEW T, T \subseteq U \ {x}, T \subseteq U \ {y}
        PROVE  of(x)[T] = of(y)[T]
    <3>1. U \ {x} \in SUBSET S /\ U \ {y} \in SUBSET S /\ T \in SUBSET S
      BY <2>3
    <3>2. IsFiniteSet(U \ {x}) /\ IsFiniteSet(U \ {y})
      BY <3>1, FS_Subset
    <3>3. Unfolds(f, of(x), U \ {x}) /\ Unfolds(f, of(y), U \ {y})
      BY <2>1
    <3>4. PICK k : k = [V \in SUBSET T |-> of(x)[V]]
      OBVIOUS
    <3>5. Unfolds(f, k, T)
      <4>1. ASSUME NEW V \in SUBSET T
            PROVE  k[V] = IF V = {} THEN 0 ELSE f[Choice(V)] + k[V \ {Choice(V)}]
        <5>1. V \in SUBSET (U \ {x}) /\ V \ {Choice(V)} \in SUBSET T
          BY <2>3
        <5>2. of(x)[V] = IF V = {} THEN 0
                         ELSE f[Choice(V)] + of(x)[V \ {Choice(V)}]
          BY <3>3, <5>1 DEF Unfolds
        <5> QED
          BY <3>4, <5>1, <5>2
      <4>2. k = [V \in SUBSET T |-> k[V]]
        BY <3>4
      <4>3. k = [V \in SUBSET T |->
                   IF V = {} THEN 0 ELSE f[Choice(V)] + k[V \ {Choice(V)}]]
        BY <4>1, <4>2
      <4> QED
        BY <4>3 DEF Unfolds
    <3>6. ASSUME NEW z \in {x, y} PROVE of(z)[T] = k[T]
      <4>1. PICK o, W : o = of(z) /\ W = U \ {z}
        OBVIOUS
      <4>2. IsFiniteSet(W) /\ Unfolds(f, o, W) /\ T \in SUBSET W
        BY <2>3, <3>2, <3>3, <4>1
      <4>3. \A V \in SUBSET T : o[V] = k[V]
        BY <3>5, <4>2, SameUnfolding
      <4> QED
        BY <4>1, <4>3
    <3> QED
      BY <3>6
  <2>4. \A T \in SUBSET U :
          g[T] = IF T = {} THEN 0 ELSE f[Choice(T)] + g[T \ {Choice(T)}]
    <3> SUFFICES ASSUME NEW T \in SUBSET U
                 PROVE  g[T] = IF T = {} THEN 0
                               ELSE f[Choice(T)] + g[T \ {Choice(T)}]
      OBVIOUS
    <3>1. CASE T = {} /\ T = U
      BY <3>1
    <3>2. CASE T # U
      <4> DEFINE z == some(T)
      <4>1. z \in U /\ T \in SUBSET (U \ {z})
        BY <2>2, <3>2
      <4>2. g[T] = of(z)[T]
        BY <3>2
      <4>3. of(z)[T] = IF T = {} THEN 0
                       ELSE f[Choice(T)] + of(z)[T \ {Choice(T)}]
        BY <2>1, <4>1 DEF Unfolds
      <4>4. CASE T # {}
        <5> DEFINE V == T \ {Choice(T)}
        <5>1. V \in SUBSET U /\ V # U /\ V \subseteq U \ {z}
          BY <4>1
        <5>2. some(V) \in U /\ V \subseteq U \ {some(V)}
          BY <2>2, <5>1
        <5>3. g[V] = of(some(V))[V]
          BY <5>1
        <5>4. of(some(V))[V] = of(z)[V]
          BY <2>3, <4>1, <5>1, <5>2
        <5> QED
          BY <4>2, <4>3, <4>4, <5>3, <5>4
      <4> QED
        BY <4>2, <4>3, <4>4
    <3>3. CASE T = U /\ T # {}
      <4> DEFINE c == Choice(T)
                 V == T \ {c}
      <4>1. c \in U
        BY <3>3, ChoiceIn
      <4>2. g[T] = f[c] + of(c)[V]
        BY <3>3
      <4>3. V \in SUBSET U /\ V # U /\ V \subseteq U \ {c}
        BY <3>3, <4>1
      <4>4. some(V) \in U /\ V \subseteq U \ {some(V)}
        BY <2>2, <4>3
      <4>5. g[V] = of(some(V))[V]
        BY <4>3
      <4>6. of(some(V))[V] = of(c)[V]
        BY <2>3, <4>1, <4>3, <4>4
      <4> QED
        BY <3>3, <4>2, <4>5, <4>6
    <3> QED
      BY <3>1, <3>2, <3>3
  <2>5. g = [T \in SUBSET U |-> g[T]]
    OBVIOUS
  <2> HIDE DEF g
  <2>6. g = [T \in SUBSET U |->
               IF T = {} THEN 0 ELSE f[Choice(T)] + g[T \ {Choice(T)}]]
    BY <2>4, <2>5
  <2>7. Unfolds(f, g, U)
    BY <2>6 DEF Unfolds
  <2> QED
    BY <2>7
<1> HIDE DEF G
<1>2. \A T \in SUBSET S : T \in G
  BY <1>1, SetInduction
<1> QED
  BY <1>2 DEF G

\* The recursive function inside the fold satisfies its own equation.
LEMMA SumUnfolds ==
  ASSUME NEW f, NEW S, IsFiniteSet(S)
  PROVE  \E g : Unfolds(f, g, S) /\ SumOver(f, S) = g[S]
<1>1. PICK h : Unfolds(f, h, S)
  BY UnfoldingExists
<1> DEFINE g == CHOOSE k : Unfolds(f, k, S)
<1>2. Unfolds(f, g, S)
  BY <1>1
<1>3. SumOver(f, S) = g[S]
  BY DEF SumOver, MapThenSumSet, MapThenFoldSet, Unfolds, Choice
<1> QED
  BY <1>2, <1>3

\* The fold takes the chosen element first.
LEMMA SumFirst ==
  ASSUME NEW f, NEW S, IsFiniteSet(S)
  PROVE  SumOver(f, S) = IF S = {} THEN 0
                         ELSE f[Choice(S)] + SumOver(f, S \ {Choice(S)})
<1>1. PICK g : Unfolds(f, g, S) /\ SumOver(f, S) = g[S]
  BY SumUnfolds
<1>2. CASE S = {}
  BY <1>1, <1>2 DEF Unfolds
<1>3. CASE S # {}
  <2> DEFINE V == S \ {Choice(S)}
  <2>1. V \in SUBSET S /\ IsFiniteSet(V)
    BY FS_Subset
  <2>2. PICK h : Unfolds(f, h, V) /\ SumOver(f, V) = h[V]
    BY <2>1, SumUnfolds
  <2>3. g[V] = h[V]
    BY <1>1, <2>1, <2>2, SameUnfolding
  <2>4. g[S] = f[Choice(S)] + g[V]
    BY <1>1, <1>3 DEF Unfolds
  <2> QED
    BY <1>1, <1>3, <2>2, <2>3, <2>4
<1> QED
  BY <1>2, <1>3

-------------------------------------------------------------------------------
(* Sums.                                                                   *)

\* The sum over nothing is 0.
LEMMA SumEmpty == ASSUME NEW f PROVE SumOver(f, {}) = 0
<1>1. IsFiniteSet({})
  BY FS_EmptySet
<1> QED
  BY <1>1, SumFirst

\* A sum of integers is an integer.
LEMMA SumType ==
  ASSUME NEW f, NEW S, IsFiniteSet(S), \A x \in S : f[x] \in Int
  PROVE  SumOver(f, S) \in Int
<1> DEFINE G == {T \in SUBSET S : SumOver(f, T) \in Int}
<1>1. ASSUME NEW T \in SUBSET S, \A x \in T : T \ {x} \in G
      PROVE  T \in G
  <2>1. IsFiniteSet(T)
    BY FS_Subset
  <2>2. CASE T = {}
    BY <2>2, SumEmpty
  <2>3. CASE T # {}
    <3>1. Choice(T) \in T
      BY <2>3, ChoiceIn
    <3>2. SumOver(f, T) = f[Choice(T)] + SumOver(f, T \ {Choice(T)})
      BY <2>1, <2>3, SumFirst
    <3>3. f[Choice(T)] \in Int /\ SumOver(f, T \ {Choice(T)}) \in Int
      BY <1>1, <3>1
    <3> QED
      BY <3>2, <3>3
  <2> QED
    BY <2>2, <2>3
<1> HIDE DEF G
<1>2. \A T \in SUBSET S : T \in G
  BY <1>1, SetInduction
<1> QED
  BY <1>2 DEF G

\* Any element may be taken first: the choice of the fold does not matter.
LEMMA SumRemove ==
  ASSUME NEW f, NEW S, IsFiniteSet(S), \A y \in S : f[y] \in Int, NEW x \in S
  PROVE  SumOver(f, S) = f[x] + SumOver(f, S \ {x})
<1> DEFINE G == {T \in SUBSET S :
                   \A y \in T : SumOver(f, T) = f[y] + SumOver(f, T \ {y})}
<1>1. ASSUME NEW T \in SUBSET S, \A y \in T : T \ {y} \in G
      PROVE  T \in G
  <2> SUFFICES ASSUME NEW y \in T
               PROVE  SumOver(f, T) = f[y] + SumOver(f, T \ {y})
    OBVIOUS
  <2> DEFINE c == Choice(T)
  <2>1. IsFiniteSet(T) /\ T # {}
    BY FS_Subset
  <2>2. c \in T
    BY <2>1, ChoiceIn
  <2>3. SumOver(f, T) = f[c] + SumOver(f, T \ {c})
    BY <2>1, SumFirst
  <2>4. CASE y # c
    <3>1. SumOver(f, T \ {c}) = f[y] + SumOver(f, (T \ {c}) \ {y})
      BY <1>1, <2>2, <2>4
    <3>2. SumOver(f, T \ {y}) = f[c] + SumOver(f, (T \ {y}) \ {c})
      BY <1>1, <2>2, <2>4
    <3>3. (T \ {c}) \ {y} = (T \ {y}) \ {c}
      OBVIOUS
    <3>4. PICK V : V = (T \ {y}) \ {c}
      OBVIOUS
    <3>5. IsFiniteSet(V) /\ \A z \in V : f[z] \in Int
      <4>1. V \in SUBSET S
        BY <3>4
      <4> QED
        BY <4>1, FS_Subset
    <3>6. PICK v \in Int, m \in Int, n \in Int :
            v = SumOver(f, V) /\ m = f[c] /\ n = f[y]
      BY <2>2, <3>5, SumType
    <3>7. SumOver(f, T) = m + (n + v)
      BY <2>3, <3>1, <3>4, <3>6
    <3>8. SumOver(f, T \ {y}) = m + v
      BY <3>2, <3>4, <3>6
    <3> QED
      BY <3>6, <3>7, <3>8
  <2> QED
    BY <2>3, <2>4
<1> HIDE DEF G
<1>2. \A T \in SUBSET S : T \in G
  BY <1>1, SetInduction
<1> QED
  BY <1>2 DEF G

\* One element more.
LEMMA SumInsert ==
  ASSUME NEW f, NEW S, IsFiniteSet(S), NEW x, x \notin S,
         \A y \in S \cup {x} : f[y] \in Int
  PROVE  SumOver(f, S \cup {x}) = SumOver(f, S) + f[x]
<1>1. IsFiniteSet(S \cup {x}) /\ (S \cup {x}) \ {x} = S
  BY FS_AddElement
<1>2. SumOver(f, S \cup {x}) = f[x] + SumOver(f, S)
  BY <1>1, SumRemove
<1>3. SumOver(f, S) \in Int
  BY SumType
<1> QED
  BY <1>2, <1>3

\* Only the values on the set matter.
LEMMA SumSame ==
  ASSUME NEW f, NEW g, NEW S, IsFiniteSet(S), \A x \in S : f[x] = g[x]
  PROVE  SumOver(f, S) = SumOver(g, S)
<1> DEFINE G == {T \in SUBSET S : SumOver(f, T) = SumOver(g, T)}
<1>1. ASSUME NEW T \in SUBSET S, \A x \in T : T \ {x} \in G
      PROVE  T \in G
  <2>1. IsFiniteSet(T)
    BY FS_Subset
  <2>2. CASE T = {}
    BY <2>2, SumEmpty
  <2>3. CASE T # {}
    <3>1. Choice(T) \in T
      BY <2>3, ChoiceIn
    <3>2. /\ SumOver(f, T) = f[Choice(T)] + SumOver(f, T \ {Choice(T)})
          /\ SumOver(g, T) = g[Choice(T)] + SumOver(g, T \ {Choice(T)})
      BY <2>1, <2>3, SumFirst
    <3> QED
      BY <1>1, <3>1, <3>2
  <2> QED
    BY <2>2, <2>3
<1> HIDE DEF G
<1>2. \A T \in SUBSET S : T \in G
  BY <1>1, SetInduction
<1> QED
  BY <1>2 DEF G

\* A sum of zeros is 0.
LEMMA SumZero ==
  ASSUME NEW f, NEW S, IsFiniteSet(S), \A x \in S : f[x] = 0
  PROVE  SumOver(f, S) = 0
<1> DEFINE G == {T \in SUBSET S : SumOver(f, T) = 0}
<1>1. ASSUME NEW T \in SUBSET S, \A x \in T : T \ {x} \in G
      PROVE  T \in G
  <2>1. IsFiniteSet(T)
    BY FS_Subset
  <2>2. CASE T = {}
    BY <2>2, SumEmpty
  <2>3. CASE T # {}
    <3>1. Choice(T) \in T
      BY <2>3, ChoiceIn
    <3>2. SumOver(f, T) = f[Choice(T)] + SumOver(f, T \ {Choice(T)})
      BY <2>1, <2>3, SumFirst
    <3>3. f[Choice(T)] = 0 /\ SumOver(f, T \ {Choice(T)}) = 0
      BY <1>1, <3>1
    <3> QED
      BY <3>2, <3>3
  <2> QED
    BY <2>2, <2>3
<1> HIDE DEF G
<1>2. \A T \in SUBSET S : T \in G
  BY <1>1, SetInduction
<1> QED
  BY <1>2 DEF G

\* One value changes, and the sum by as much.
LEMMA SumChange ==
  ASSUME NEW f, NEW g, NEW S, IsFiniteSet(S), NEW x \in S,
         \A y \in S : f[y] \in Int /\ g[y] \in Int,
         \A y \in S \ {x} : f[y] = g[y]
  PROVE  SumOver(g, S) = (SumOver(f, S) - f[x]) + g[x]
<1>1. IsFiniteSet(S \ {x})
  BY FS_RemoveElement
<1>2. SumOver(f, S \ {x}) = SumOver(g, S \ {x}) /\ SumOver(f, S \ {x}) \in Int
  BY <1>1, SumSame, SumType
<1>3. SumOver(f, S) = f[x] + SumOver(f, S \ {x})
  BY SumRemove
<1>4. SumOver(g, S) = g[x] + SumOver(g, S \ {x})
  BY SumRemove
<1> QED
  BY <1>2, <1>3, <1>4

\* A sum of naturals is a natural, and no smaller than any of them.
LEMMA SumNat ==
  ASSUME NEW f, NEW S, IsFiniteSet(S), \A x \in S : f[x] \in Nat
  PROVE  SumOver(f, S) \in Nat /\ \A x \in S : f[x] <= SumOver(f, S)
<1> DEFINE G == {T \in SUBSET S : SumOver(f, T) \in Nat}
<1>1. ASSUME NEW T \in SUBSET S, \A x \in T : T \ {x} \in G
      PROVE  T \in G
  <2>1. IsFiniteSet(T)
    BY FS_Subset
  <2>2. CASE T = {}
    BY <2>2, SumEmpty
  <2>3. CASE T # {}
    <3>1. Choice(T) \in T
      BY <2>3, ChoiceIn
    <3>2. SumOver(f, T) = f[Choice(T)] + SumOver(f, T \ {Choice(T)})
      BY <2>1, <2>3, SumFirst
    <3>3. f[Choice(T)] \in Nat /\ SumOver(f, T \ {Choice(T)}) \in Nat
      BY <1>1, <3>1
    <3> QED
      BY <3>2, <3>3
  <2> QED
    BY <2>2, <2>3
<1> HIDE DEF G
<1>2. \A T \in SUBSET S : T \in G
  BY <1>1, SetInduction
<1>3. \A T \in SUBSET S : SumOver(f, T) \in Nat
  BY <1>2 DEF G
<1>4. ASSUME NEW x \in S PROVE f[x] <= SumOver(f, S)
  <2>1. SumOver(f, S) = f[x] + SumOver(f, S \ {x})
    BY SumRemove
  <2>2. SumOver(f, S \ {x}) \in Nat
    BY <1>3
  <2> QED
    BY <2>1, <2>2
<1> QED
  BY <1>3, <1>4

\* The sum of a combination.
LEMMA SumAdd ==
  ASSUME NEW f, NEW g, NEW h, NEW S, IsFiniteSet(S), NEW k \in Int,
         \A x \in S : f[x] \in Int /\ g[x] \in Int /\ h[x] = k * f[x] + g[x]
  PROVE  SumOver(h, S) = k * SumOver(f, S) + SumOver(g, S)
<1> DEFINE G == {T \in SUBSET S : SumOver(h, T) = k * SumOver(f, T) + SumOver(g, T)}
<1>1. ASSUME NEW T \in SUBSET S, \A x \in T : T \ {x} \in G
      PROVE  T \in G
  <2>1. IsFiniteSet(T)
    BY FS_Subset
  <2>2. CASE T = {}
    <3>1. SumOver(h, T) = 0 /\ SumOver(f, T) = 0 /\ SumOver(g, T) = 0
      BY <2>2, SumEmpty
    <3>2. k * 0 = 0
      OBVIOUS
    <3> QED
      BY <3>1, <3>2
  <2>3. CASE T # {}
    <3>1. PICK x \in T : x = Choice(T)
      BY <2>3, ChoiceIn
    <3>2. PICK V : V = T \ {x}
      OBVIOUS
    <3>3. IsFiniteSet(V) /\ V \subseteq S
      BY <3>2, FS_Subset
    <3>4. /\ SumOver(f, T) = f[x] + SumOver(f, V)
          /\ SumOver(g, T) = g[x] + SumOver(g, V)
          /\ SumOver(h, T) = h[x] + SumOver(h, V)
      BY <2>1, <2>3, <3>1, <3>2, SumFirst
    <3>5. SumOver(h, V) = k * SumOver(f, V) + SumOver(g, V)
      BY <1>1, <3>2
    <3>6. PICK a \in Int, b \in Int, m \in Int, n \in Int :
            a = f[x] /\ b = g[x] /\ m = SumOver(f, V) /\ n = SumOver(g, V)
      BY <3>1, <3>3, SumType
    <3>7. h[x] = k * a + b
      BY <3>1, <3>6
    <3>8. (k * a + b) + (k * m + n) = k * (a + m) + (b + n)
      OBVIOUS
    <3> QED
      BY <3>4, <3>5, <3>6, <3>7, <3>8
  <2> QED
    BY <2>2, <2>3
<1> HIDE DEF G
<1>2. \A T \in SUBSET S : T \in G
  BY <1>1, SetInduction
<1> QED
  BY <1>2 DEF G

\* A sum of naturals over less is no more.
LEMMA SumSubset ==
  ASSUME NEW f, NEW S, IsFiniteSet(S), \A x \in S : f[x] \in Nat, NEW V \in SUBSET S
  PROVE  SumOver(f, V) <= SumOver(f, S)
<1> DEFINE G == {T \in SUBSET S : SumOver(f, T \cap V) <= SumOver(f, T)}
<1>1. ASSUME NEW T \in SUBSET S, \A x \in T : T \ {x} \in G
      PROVE  T \in G
  <2>1. IsFiniteSet(T) /\ IsFiniteSet(T \cap V)
    <3>1. T \cap V \in SUBSET S
      OBVIOUS
    <3> QED
      BY <3>1, FS_Subset
  <2>2. CASE T = {}
    <3>1. T \cap V = {}
      BY <2>2
    <3> QED
      BY <2>2, <3>1, SumEmpty
  <2>3. CASE T # {}
    <3>1. PICK x : x \in T
      BY <2>3
    <3>2. PICK a \in Nat, m \in Nat, n \in Nat :
            /\ a = f[x] /\ m = SumOver(f, T \ {x})
            /\ n = SumOver(f, (T \ {x}) \cap V)
      <4>1. IsFiniteSet(T \ {x}) /\ IsFiniteSet((T \ {x}) \cap V)
        <5>1. T \ {x} \in SUBSET T /\ (T \ {x}) \cap V \in SUBSET T
          OBVIOUS
        <5> QED
          BY <2>1, <5>1, FS_Subset
      <4>2. SumOver(f, T \ {x}) \in Nat
        BY <4>1, SumNat
      <4>3. SumOver(f, (T \ {x}) \cap V) \in Nat
        BY <4>1, SumNat
      <4> QED
        BY <3>1, <4>2, <4>3
    <3>3. SumOver(f, T) = a + m
      BY <2>1, <3>1, <3>2, SumRemove
    <3>4. n <= m
      BY <1>1, <3>1, <3>2
    <3>5. CASE x \in V
      <4>1. SumOver(f, T \cap V) = f[x] + SumOver(f, (T \cap V) \ {x})
        BY <2>1, <3>1, <3>5, SumRemove
      <4>2. (T \cap V) \ {x} = (T \ {x}) \cap V
        OBVIOUS
      <4>3. SumOver(f, T \cap V) = a + n
        BY <3>2, <4>1, <4>2
      <4> QED
        BY <3>3, <3>4, <4>3
    <3>6. CASE x \notin V
      <4>1. T \cap V = (T \ {x}) \cap V
        BY <3>6
      <4>2. SumOver(f, T \cap V) = n
        BY <3>2, <4>1
      <4> QED
        BY <3>2, <3>3, <3>4, <4>2
    <3> QED
      BY <3>5, <3>6
  <2> QED
    BY <2>2, <2>3
<1> HIDE DEF G
<1>2. \A T \in SUBSET S : T \in G
  BY <1>1, SetInduction
<1>3. S \cap V = V
  OBVIOUS
<1> QED
  BY <1>2, <1>3 DEF G

\* Zeros may be left out of a sum.
LEMMA SumSupport ==
  ASSUME NEW f, NEW S, IsFiniteSet(S), NEW V \in SUBSET S,
         \A x \in S : f[x] \in Int, \A x \in S \ V : f[x] = 0
  PROVE  SumOver(f, S) = SumOver(f, V)
<1> DEFINE G == {T \in SUBSET S : SumOver(f, T) = SumOver(f, T \cap V)}
<1>1. ASSUME NEW T \in SUBSET S, \A x \in T : T \ {x} \in G
      PROVE  T \in G
  <2>1. IsFiniteSet(T) /\ IsFiniteSet(T \cap V)
    <3>1. T \cap V \in SUBSET S
      OBVIOUS
    <3> QED
      BY <3>1, FS_Subset
  <2>2. CASE T = {}
    <3>1. T \cap V = T
      BY <2>2
    <3> QED
      BY <3>1
  <2>3. CASE T # {}
    <3>1. PICK x : x \in T
      BY <2>3
    <3>2. SumOver(f, T) = f[x] + SumOver(f, T \ {x})
      BY <2>1, <3>1, SumRemove
    <3>3. SumOver(f, T \ {x}) = SumOver(f, (T \ {x}) \cap V)
      BY <1>1, <3>1
    <3>4. CASE x \in V
      <4>1. SumOver(f, T \cap V) = f[x] + SumOver(f, (T \cap V) \ {x})
        BY <2>1, <3>1, <3>4, SumRemove
      <4>2. (T \cap V) \ {x} = (T \ {x}) \cap V
        OBVIOUS
      <4> QED
        BY <3>2, <3>3, <4>1, <4>2
    <3>5. CASE x \notin V
      <4>1. T \cap V = (T \ {x}) \cap V
        BY <3>5
      <4>2. f[x] = 0
        BY <3>1, <3>5
      <4>3. IsFiniteSet(T \ {x}) /\ \A y \in T \ {x} : f[y] \in Int
        <5>1. T \ {x} \in SUBSET T
          OBVIOUS
        <5> QED
          BY <2>1, <5>1, FS_Subset
      <4>4. SumOver(f, T \ {x}) \in Int
        BY <4>3, SumType
      <4> QED
        <5>1. PICK n \in Int : n = SumOver(f, T \ {x})
          BY <4>4
        <5>2. SumOver(f, T) = 0 + n
          BY <3>2, <4>2, <5>1
        <5>3. SumOver(f, T) = n
          BY <5>1, <5>2
        <5>4. SumOver(f, T \cap V) = n
          BY <3>3, <4>1, <5>1
        <5> QED
          BY <5>3, <5>4
    <3> QED
      BY <3>4, <3>5
  <2> QED
    BY <2>2, <2>3
<1> HIDE DEF G
<1>2. \A T \in SUBSET S : T \in G
  BY <1>1, SetInduction
<1>3. S \cap V = V
  OBVIOUS
<1> QED
  BY <1>2, <1>3 DEF G

\* A sum over two parts.
LEMMA SumSplit ==
  ASSUME NEW f, NEW S, IsFiniteSet(S), \A x \in S : f[x] \in Int, NEW V \in SUBSET S
  PROVE  SumOver(f, S) = SumOver(f, V) + SumOver(f, S \ V)
<1>1. PICK g, h : /\ g = [x \in S |-> IF x \in V THEN f[x] ELSE 0]
                  /\ h = [x \in S |-> IF x \in V THEN 0 ELSE f[x]]
  OBVIOUS
<1>2. \A x \in S : /\ g[x] \in Int /\ h[x] \in Int /\ f[x] = 1 * g[x] + h[x]
                   /\ x \in V => g[x] = f[x] /\ h[x] = 0
                   /\ x \notin V => g[x] = 0 /\ h[x] = f[x]
  BY <1>1
<1>3. SumOver(f, S) = 1 * SumOver(g, S) + SumOver(h, S)
  BY <1>2, SumAdd
<1>4. S \ V \in SUBSET S /\ IsFiniteSet(V) /\ IsFiniteSet(S \ V)
  <2>1. S \ V \in SUBSET S
    OBVIOUS
  <2> QED
    BY <2>1, FS_Subset
<1>5. SumOver(g, S) = SumOver(g, V)
  <2>1. \A x \in S \ V : g[x] = 0
    BY <1>2
  <2> QED
    BY <1>2, <2>1, SumSupport
<1>6. SumOver(h, S) = SumOver(h, S \ V)
  <2>1. \A x \in S \ (S \ V) : h[x] = 0
    BY <1>2
  <2> QED
    BY <1>2, <1>4, <2>1, SumSupport
<1>7. SumOver(g, V) = SumOver(f, V) /\ SumOver(h, S \ V) = SumOver(f, S \ V)
  <2>1. (\A x \in V : g[x] = f[x]) /\ \A x \in S \ V : h[x] = f[x]
    BY <1>2
  <2> QED
    BY <1>4, <2>1, SumSame
<1>8. SumOver(f, V) \in Int /\ SumOver(f, S \ V) \in Int
  <2>1. (\A x \in V : f[x] \in Int) /\ \A x \in S \ V : f[x] \in Int
    BY <1>4
  <2> QED
    BY <1>4, <2>1, SumType
<1> QED
  BY <1>3, <1>5, <1>6, <1>7, <1>8

\* A sum of integers that are none larger than W.
LEMMA SumBound ==
  ASSUME NEW f, NEW S, IsFiniteSet(S), NEW W \in Nat,
         \A x \in S : f[x] \in Int /\ f[x] <= W
  PROVE  SumOver(f, S) <= Cardinality(S) * W
<1> DEFINE G == {T \in SUBSET S : SumOver(f, T) <= Cardinality(T) * W}
<1>1. ASSUME NEW T \in SUBSET S, \A x \in T : T \ {x} \in G
      PROVE  T \in G
  <2>1. IsFiniteSet(T)
    BY FS_Subset
  <2>2. CASE T = {}
    <3>1. SumOver(f, T) = 0 /\ Cardinality(T) = 0
      BY <2>2, SumEmpty, FS_EmptySet
    <3>2. 0 * W = 0
      OBVIOUS
    <3> QED
      BY <3>1, <3>2
  <2>3. CASE T # {}
    <3>1. PICK x : x \in T
      BY <2>3
    <3>2. SumOver(f, T) = f[x] + SumOver(f, T \ {x})
      BY <2>1, <3>1, SumRemove
    <3>3. IsFiniteSet(T \ {x}) /\ Cardinality(T \ {x}) = Cardinality(T) - 1
      BY <2>1, <3>1, FS_RemoveElement
    <3>4. PICK n \in Nat : n = Cardinality(T \ {x})
      BY <3>3, FS_CardinalityType
    <3>5. Cardinality(T) \in Nat
      BY <2>1, FS_CardinalityType
    <3>6. Cardinality(T) = n + 1
      BY <3>3, <3>4, <3>5
    <3>7. PICK a \in Int, m \in Int : a = f[x] /\ m = SumOver(f, T \ {x})
      BY <3>1, <3>3, SumType
    <3>8. m <= n * W
      BY <1>1, <3>1, <3>4, <3>7
    <3>9. a <= W
      BY <3>1, <3>7
    <3>10. (n + 1) * W = n * W + W
      OBVIOUS
    <3>11. PICK q \in Int : q = n * W
      OBVIOUS
    <3>12. a + m <= q + W
      BY <3>8, <3>9, <3>11
    <3> QED
      BY <3>2, <3>6, <3>7, <3>10, <3>11, <3>12
  <2> QED
    BY <2>2, <2>3
<1> HIDE DEF G
<1>2. \A T \in SUBSET S : T \in G
  BY <1>1, SetInduction
<1> QED
  BY <1>2 DEF G

\* A sum over classes of sums over their members is the sum over the members.
LEMMA SumClasses ==
  ASSUME NEW f, NEW S, IsFiniteSet(S), \A x \in S : f[x] \in Int,
         NEW K, IsFiniteSet(K), NEW h, \A x \in S : h[x] \in K
  PROVE  SumOver([k \in K |-> SumOver(f, {x \in S : h[x] = k})], K) = SumOver(f, S)
<1> DEFINE Class(T, k) == {x \in T : h[x] = k}
           by(T) == [k \in K |-> SumOver(f, Class(T, k))]
           G == {T \in SUBSET S : SumOver(by(T), K) = SumOver(f, T)}
<1>1. ASSUME NEW T \in SUBSET S, \A x \in T : T \ {x} \in G
      PROVE  T \in G
  <2>1. IsFiniteSet(T)
    BY FS_Subset
  <2>2. CASE T = {}
    <3>1. \A k \in K : Class(T, k) = {}
      BY <2>2
    <3>2. PICK z : z = by(T)
      OBVIOUS
    <3>3. \A k \in K : z[k] = 0
      BY <3>1, <3>2, SumEmpty
    <3>4. SumOver(z, K) = 0
      BY <3>3, SumZero
    <3> QED
      BY <2>2, <3>2, <3>4, SumEmpty
  <2>3. CASE T # {}
    <3>1. PICK x : x \in T
      BY <2>3
    <3>2. PICK V : V = T \ {x}
      OBVIOUS
    <3>3. PICK y, z : y = by(V) /\ z = by(T)
      OBVIOUS
    <3>4. V \in SUBSET S /\ IsFiniteSet(V)
      BY <2>1, <3>2, FS_Subset
    <3>5. ASSUME NEW U \in SUBSET S, NEW k \in K
          PROVE  IsFiniteSet(Class(U, k)) /\ SumOver(f, Class(U, k)) \in Int
      <4>1. Class(U, k) \in SUBSET S
        OBVIOUS
      <4>2. IsFiniteSet(Class(U, k))
        BY <4>1, FS_Subset
      <4> QED
        BY <4>1, <4>2, SumType
    <3>6. \A k \in K : y[k] \in Int /\ z[k] \in Int
      BY <3>3, <3>4, <3>5
    <3>7. ASSUME NEW k \in K \ {h[x]} PROVE y[k] = z[k]
      <4>1. Class(V, k) = Class(T, k)
        BY <3>2
      <4> QED
        BY <3>3, <4>1
    <3>8. PICK k \in K : k = h[x]
      BY <3>1
    <3>9. z[k] = f[x] + y[k]
      <4>1. x \in Class(T, k) /\ Class(T, k) \ {x} = Class(V, k)
        BY <3>1, <3>2, <3>8
      <4>2. IsFiniteSet(Class(T, k)) /\ \A v \in Class(T, k) : f[v] \in Int
        BY <3>5
      <4> HIDE DEF Class
      <4>3. SumOver(f, Class(T, k)) = f[x] + SumOver(f, Class(V, k))
        BY <4>1, <4>2, SumRemove
      <4> QED
        BY <3>3, <4>3
    <3>10. SumOver(z, K) = (SumOver(y, K) - y[k]) + z[k]
      BY <3>6, <3>7, <3>8, SumChange
    <3>11. SumOver(y, K) = SumOver(f, V)
      BY <1>1, <3>1, <3>2, <3>3
    <3>12. SumOver(f, T) = f[x] + SumOver(f, V)
      BY <2>1, <3>1, <3>2, SumRemove
    <3>13. f[x] \in Int /\ y[k] \in Int /\ SumOver(f, V) \in Int
      BY <3>1, <3>4, <3>6, SumType
    <3>14. SumOver(z, K) = SumOver(f, T)
      BY <3>9, <3>10, <3>11, <3>12, <3>13
    <3> QED
      BY <3>3, <3>14
  <2> QED
    BY <2>2, <2>3
<1> HIDE DEF G
<1>2. \A T \in SUBSET S : T \in G
  BY <1>1, SetInduction
<1> QED
  BY <1>2 DEF G

-------------------------------------------------------------------------------
(* Naturals.                                                               *)

\* A set that has 0, and n + 1 with n, has every natural: it has the number of
\* elements of each part of an interval.
LEMMA NatInductionSet ==
  ASSUME NEW G, 0 \in G, \A n \in Nat : n \in G => n + 1 \in G
  PROVE  \A n \in Nat : n \in G
<1> SUFFICES ASSUME NEW u \in Nat PROVE u \in G
  OBVIOUS
<1>1. IsFiniteSet(1..u) /\ Cardinality(1..u) = u
  BY FS_Interval
<1> DEFINE H == {T \in SUBSET (1..u) : Cardinality(T) \in G}
<1>2. ASSUME NEW T \in SUBSET (1..u), \A x \in T : T \ {x} \in H
      PROVE  T \in H
  <2>1. IsFiniteSet(T)
    BY <1>1, FS_Subset
  <2>2. CASE T = {}
    BY <2>2, FS_EmptySet
  <2>3. CASE T # {}
    <3>1. PICK x : x \in T
      BY <2>3
    <3>2. IsFiniteSet(T \ {x}) /\ Cardinality(T \ {x}) = Cardinality(T) - 1
      BY <2>1, <3>1, FS_RemoveElement
    <3>3. Cardinality(T \ {x}) \in Nat /\ Cardinality(T) \in Nat
      BY <2>1, <3>2, FS_CardinalityType
    <3>4. Cardinality(T \ {x}) + 1 = Cardinality(T)
      BY <3>2, <3>3
    <3> QED
      BY <1>2, <3>1, <3>3, <3>4
  <2> QED
    BY <2>2, <2>3
<1> HIDE DEF H
<1>3. \A T \in SUBSET (1..u) : T \in H
  BY <1>1, <1>2, SetInduction
<1>4. 1..u \in H
  BY <1>3
<1> QED
  BY <1>1, <1>4 DEF H
===============================================================================
