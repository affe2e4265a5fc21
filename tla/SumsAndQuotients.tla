-------------------------- MODULE SumsAndQuotients --------------------------
(***************************************************************************)
(* Lemmas about sums over finite sets and about quotients of naturals, for *)
(* the proofs of every module.  A sum is defined by a recursion that takes *)
(* elements out of the set in an order nobody knows: that the recursion    *)
(* has one solution, and that the order does not matter, is proved by      *)
(* induction over the subsets of the set, stated with a set of the good    *)
(* subsets instead of a predicate.                                         *)
(***************************************************************************)
EXTENDS FiniteSetsExt, FiniteSetTheorems, TLAPS

\* Induction over the subsets of a finite set: when a subset is good because all smaller
\* ones are, they all are.
LEMMA SubsetInduction ==
    ASSUME NEW S, IsFiniteSet(S), NEW G,
           \A T \in SUBSET S : (\A U \in SUBSET T : U # T => U \in G) => T \in G
    PROVE  SUBSET S \subseteq G
  <1> DEFINE bad == (SUBSET S) \ G
  <1> SUFFICES ASSUME bad # {} PROVE FALSE
    OBVIOUS
  <1>1. IsWellFoundedOn(StrictSubsetOrdering(S), SUBSET S)
    <2>1. IsWellFoundedOn(StrictSubsetOrdering(S), FiniteSubsetsOf(S))
      BY FS_StrictSubsetOrderingWellFounded
    <2>2. FiniteSubsetsOf(S) = SUBSET S
      BY FS_FiniteSubsetsOfFinite
    <2> QED
      BY <2>1, <2>2
  <1>2. PICK T \in bad : \A U \in bad : <<U, T>> \notin StrictSubsetOrdering(S)
    <2> HIDE DEF bad
    <2>1. bad \subseteq SUBSET S
      BY DEF bad
    <2> QED
      BY <1>1, <2>1, WFMin
  <1>3. \A U \in SUBSET T : U # T => U \in G
    BY <1>2 DEF StrictSubsetOrdering
  <1> QED
    BY <1>2, <1>3

\* The element a fold over s takes next
Chosen(s) == CHOOSE x \in s : TRUE

\* g gives the sum of f over each subset of S.
IsSum(g, f, S) == g = [s \in SUBSET S |->
    IF s = {} THEN 0 ELSE f[Chosen(s)] + g[s \ {Chosen(s)}]]

\* A set that is not empty holds the element that is chosen.
LEMMA ChosenIsMember == ASSUME NEW s, s # {} PROVE Chosen(s) \in s
  BY DEF Chosen

\* SumFunctionOnSet, with its definitions expanded.
LEMMA SumIsChosen ==
    ASSUME NEW f, NEW S
    PROVE  SumFunctionOnSet(f, S) = (CHOOSE g : IsSum(g, f, S))[S]
  BY DEF SumFunctionOnSet, FoldFunctionOnSet, MapThenFoldSet, IsSum, Chosen

\* The recursion at one subset.
LEMMA SumRecursion ==
    ASSUME NEW f, NEW S, NEW g, IsSum(g, f, S), NEW U \in SUBSET S
    PROVE  g[U] = IF U = {} THEN 0 ELSE f[Chosen(U)] + g[U \ {Chosen(U)}]
  BY DEF IsSum

\* Two solutions agree.
LEMMA SumUnique ==
    ASSUME NEW f, NEW S, NEW T, IsFiniteSet(S), NEW g, NEW h,
           IsSum(g, f, S), IsSum(h, f, T), S \subseteq T
    PROVE  g[S] = h[S]
  <1> DEFINE G == {U \in SUBSET S : g[U] = h[U]}
  <1>1. ASSUME NEW U \in SUBSET S, \A V \in SUBSET U : V # U => V \in G
        PROVE  U \in G
    <2>1. CASE U = {}
      BY <2>1, SumRecursion
    <2>2. CASE U # {}
      <3> DEFINE V == U \ {Chosen(U)}
      <3>1. g[V] = h[V]
        BY <1>1, <2>2, ChosenIsMember
      <3> QED
        BY <2>2, <3>1, SumRecursion
    <2> QED
      BY <2>1, <2>2
  <1>2. SUBSET S \subseteq G
    <2> HIDE DEF G
    <2> QED
      BY <1>1, SubsetInduction
  <1> QED
    BY <1>2

\* Provided that its recursion has a solution, a sum is what that solution says.
LEMMA SumIsSolution ==
    ASSUME NEW f, NEW S, IsFiniteSet(S), NEW T, S \subseteq T, NEW g, IsSum(g, f, T),
           \E h : IsSum(h, f, S)
    PROVE  SumFunctionOnSet(f, S) = g[S]
  BY SumIsChosen, SumUnique

\* The recursion that defines a sum over a finite set has a solution.
LEMMA SumExists ==
    ASSUME NEW f, NEW S, IsFiniteSet(S)
    PROVE  \E g : IsSum(g, f, S)
  <1> DEFINE sum(U) == SumFunctionOnSet(f, U)
             G == {T \in SUBSET S : \E g : IsSum(g, f, T)}
  <1>1. ASSUME NEW T \in SUBSET S, \A U \in SUBSET T : U # T => U \in G
        PROVE  T \in G
    <2> DEFINE rest(U) == U \ {Chosen(U)}
               next(U) == IF U = {} THEN 0 ELSE f[Chosen(U)] + sum(rest(U))
               g == [U \in SUBSET T |-> IF U = T THEN next(T) ELSE sum(U)]
    <2>1. ASSUME NEW U \in SUBSET T, U # T PROVE sum(U) = next(U)
      <3>1. PICK h : IsSum(h, f, U)
        BY <1>1, <2>1
      <3>2. sum(U) = h[U]
        BY <1>1, <3>1, FS_Subset, SumIsSolution
      <3>3. CASE U = {}
        BY <3>1, <3>2, <3>3, SumRecursion
      <3>4. CASE U # {}
        <4>1. rest(U) \in SUBSET T /\ rest(U) # T /\ rest(U) \subseteq U
          BY <2>1, <3>4, ChosenIsMember
        <4>2. IsFiniteSet(rest(U)) /\ \E k : IsSum(k, f, rest(U))
          BY <1>1, <4>1, FS_Subset
        <4>3. sum(rest(U)) = h[rest(U)]
          BY <3>1, <4>1, <4>2, SumIsSolution
        <4>4. h[U] = f[Chosen(U)] + h[rest(U)]
          BY <3>1, <3>4, SumRecursion
        <4> QED
          BY <3>2, <3>4, <4>3, <4>4
      <3> QED
        BY <3>3, <3>4
    <2>2. \A U \in SUBSET T : g[U] = next(U)
      BY <2>1
    <2>3. \A U \in SUBSET T : U # {} => rest(U) \in SUBSET T /\ rest(U) # T
      BY ChosenIsMember
    <2>4. \A U \in SUBSET T :
             g[U] = IF U = {} THEN 0 ELSE f[Chosen(U)] + g[rest(U)]
      BY <2>2, <2>3
    <2>5. IsSum(g, f, T)
      <3> DEFINE g2 == [U \in SUBSET T |->
                          IF U = {} THEN 0 ELSE f[Chosen(U)] + g[rest(U)]]
      <3>1. g = g2
        BY <2>4
      <3> QED
        BY <3>1 DEF IsSum
    <2> QED
      BY <2>5
  <1>2. SUBSET S \subseteq G
    <2> HIDE DEF G
    <2> QED
      BY <1>1, SubsetInduction
  <1> QED
    BY <1>2

\* The sum over no element.
LEMMA SumEmpty == ASSUME NEW f PROVE SumFunctionOnSet(f, {}) = 0
  <1>1. IsFiniteSet({})
    BY FS_EmptySet
  <1>2. PICK g : IsSum(g, f, {})
    BY <1>1, SumExists
  <1>3. SumFunctionOnSet(f, {}) = g[{}]
    BY <1>1, <1>2, SumIsSolution
  <1> QED
    BY <1>2, <1>3, SumRecursion

\* A sum is its chosen term and the sum over the rest.
LEMMA SumChosen ==
    ASSUME NEW f, NEW S, IsFiniteSet(S), S # {}
    PROVE  SumFunctionOnSet(f, S)
              = f[Chosen(S)] + SumFunctionOnSet(f, S \ {Chosen(S)})
  <1> DEFINE R == S \ {Chosen(S)}
  <1>1. IsFiniteSet(R)
    BY FS_Subset
  <1>2. PICK g : IsSum(g, f, S)
    BY SumExists
  <1>3. SumFunctionOnSet(f, S) = g[S]
    BY <1>2, SumExists, SumIsSolution
  <1>4. SumFunctionOnSet(f, R) = g[R]
    BY <1>1, <1>2, SumExists, SumIsSolution
  <1> QED
    BY <1>2, <1>3, <1>4, SumRecursion

\* Any element may be taken out of a sum first.
LEMMA SumRemove ==
    ASSUME NEW f, NEW S, IsFiniteSet(S), \A x \in S : f[x] \in Int
    PROVE  /\ SumFunctionOnSet(f, S) \in Int
           /\ \A x \in S : SumFunctionOnSet(f, S) = f[x] + SumFunctionOnSet(f, S \ {x})
  <1> DEFINE sum(U) == SumFunctionOnSet(f, U)
             Good(U) == sum(U) \in Int /\ \A x \in U : sum(U) = f[x] + sum(U \ {x})
             G == {U \in SUBSET S : Good(U)}
  <1>1. ASSUME NEW T \in SUBSET S, \A U \in SUBSET T : U # T => U \in G
        PROVE  T \in G
    <2>1. CASE T = {}
      BY <2>1, SumEmpty
    <2>2. CASE T # {}
      <3> DEFINE c == Chosen(T)
      <3>1. IsFiniteSet(T) /\ c \in T
        BY <2>2, ChosenIsMember, FS_Subset
      <3>2. sum(T) = f[c] + sum(T \ {c})
        BY <2>2, <3>1, SumChosen
      <3> HIDE DEF c, sum
      <3>3. \A x \in T : T \ {x} \in SUBSET T /\ T \ {x} # T
        OBVIOUS
      <3>4. \A x \in T : Good(T \ {x})
        BY <1>1, <3>3
      <3>5. ASSUME NEW x \in T, x # c PROVE sum(T) = f[x] + sum(T \ {x})
        <4>1. sum(T \ {c}) = f[x] + sum((T \ {c}) \ {x})
          BY <3>1, <3>4, <3>5
        <4>2. sum(T \ {x}) = f[c] + sum((T \ {x}) \ {c})
          BY <3>1, <3>4, <3>5
        <4>3. sum((T \ {c}) \ {x}) = sum((T \ {x}) \ {c})
          <5>1. (T \ {c}) \ {x} = (T \ {x}) \ {c}
            OBVIOUS
          <5> QED
            BY <5>1, Zenon
        <4>4. sum((T \ {c}) \ {x}) \in Int /\ f[x] \in Int /\ f[c] \in Int
          <5>1. (T \ {c}) \ {x} \in SUBSET T /\ (T \ {c}) \ {x} # T
            BY <3>1
          <5> QED
            BY <1>1, <3>1, <5>1
        <4> QED
          BY <3>2, <4>1, <4>2, <4>3, <4>4
      <3>6. sum(T) \in Int
        BY <3>1, <3>2, <3>4
      <3> QED
        BY <3>2, <3>5, <3>6
    <2> QED
      BY <2>1, <2>2
  <1>2. SUBSET S \subseteq G
    <2> HIDE DEF G
    <2> QED
      BY <1>1, SubsetInduction
  <1> QED
    BY <1>2

\* A new element adds its term.
LEMMA SumAdd ==
    ASSUME NEW f, NEW S, IsFiniteSet(S), \A y \in S : f[y] \in Int,
           NEW x, x \notin S, f[x] \in Int
    PROVE  SumFunctionOnSet(f, S \union {x}) = SumFunctionOnSet(f, S) + f[x]
  <1>1. IsFiniteSet(S \union {x})
    BY FS_AddElement
  <1>2. SumFunctionOnSet(f, (S \union {x}) \ {x}) = SumFunctionOnSet(f, S)
    <2>1. (S \union {x}) \ {x} = S
      OBVIOUS
    <2> QED
      BY <2>1, Zenon
  <1>4. SumFunctionOnSet(f, S) \in Int
    BY SumRemove
  <1>3. SumFunctionOnSet(f, S \union {x})
           = f[x] + SumFunctionOnSet(f, (S \union {x}) \ {x})
    BY <1>1, SumRemove
  <1> QED
    BY <1>2, <1>3, <1>4

\* Sums compare as their terms do.
LEMMA SumMonotonic ==
    ASSUME NEW f, NEW g, NEW S, IsFiniteSet(S),
           \A x \in S : f[x] \in Int /\ g[x] \in Int /\ f[x] <= g[x]
    PROVE  SumFunctionOnSet(f, S) <= SumFunctionOnSet(g, S)
  <1> DEFINE Good(U) == SumFunctionOnSet(f, U) <= SumFunctionOnSet(g, U)
             G == {U \in SUBSET S : Good(U)}
  <1>1. ASSUME NEW T \in SUBSET S, \A U \in SUBSET T : U # T => U \in G
        PROVE  T \in G
    <2>1. CASE T = {}
      BY <2>1, SumEmpty
    <2>2. CASE T # {}
      <3>1. PICK x \in T : TRUE
        BY <2>2
      <3>2. IsFiniteSet(T) /\ IsFiniteSet(T \ {x})
        BY FS_Subset
      <3>3. /\ SumFunctionOnSet(f, T) = f[x] + SumFunctionOnSet(f, T \ {x})
            /\ SumFunctionOnSet(g, T) = g[x] + SumFunctionOnSet(g, T \ {x})
            /\ SumFunctionOnSet(f, T \ {x}) \in Int
            /\ SumFunctionOnSet(g, T \ {x}) \in Int
        BY <3>2, SumRemove
      <3>4. SumFunctionOnSet(f, T \ {x}) <= SumFunctionOnSet(g, T \ {x})
        BY <1>1
      <3>5. f[x] \in Int /\ g[x] \in Int /\ f[x] <= g[x]
        OBVIOUS
      <3> QED
        BY <3>3, <3>4, <3>5
    <2> QED
      BY <2>1, <2>2
  <1>2. SUBSET S \subseteq G
    <2> HIDE DEF G
    <2> QED
      BY <1>1, SubsetInduction
  <1> QED
    BY <1>2

\* Sums of the same terms are the same.
LEMMA SumCongruent ==
    ASSUME NEW f, NEW g, NEW S, IsFiniteSet(S),
           \A x \in S : f[x] \in Int /\ g[x] = f[x]
    PROVE  SumFunctionOnSet(f, S) = SumFunctionOnSet(g, S)
  <1>1. SumFunctionOnSet(f, S) <= SumFunctionOnSet(g, S)
    BY SumMonotonic
  <1>2. SumFunctionOnSet(g, S) <= SumFunctionOnSet(f, S)
    BY SumMonotonic
  <1>3. SumFunctionOnSet(f, S) \in Int /\ SumFunctionOnSet(g, S) \in Int
    BY SumRemove
  <1> QED
    BY <1>1, <1>2, <1>3

\* A sum of naturals is one, and no less than any of its terms.
LEMMA SumNat ==
    ASSUME NEW f, NEW S, IsFiniteSet(S), \A x \in S : f[x] \in Nat
    PROVE  /\ SumFunctionOnSet(f, S) \in Nat
           /\ \A x \in S : f[x] <= SumFunctionOnSet(f, S)
  <1>1. \A U \in SUBSET S : SumFunctionOnSet(f, U) \in Nat
    <2> DEFINE Good(U) == SumFunctionOnSet(f, U) \in Nat
               G == {U \in SUBSET S : Good(U)}
    <2>1. ASSUME NEW T \in SUBSET S, \A U \in SUBSET T : U # T => U \in G
          PROVE  T \in G
      <3>1. CASE T = {}
        BY <3>1, SumEmpty
      <3>2. CASE T # {}
        <4>1. PICK x \in T : TRUE
          BY <3>2
        <4>2. IsFiniteSet(T)
          BY FS_Subset
        <4>3. SumFunctionOnSet(f, T) = f[x] + SumFunctionOnSet(f, T \ {x})
          BY <4>2, SumRemove
        <4>4. SumFunctionOnSet(f, T \ {x}) \in Nat
          BY <2>1
        <4> QED
          BY <4>3, <4>4
      <3> QED
        BY <3>1, <3>2
    <2>2. SUBSET S \subseteq G
      <3> HIDE DEF G
      <3> QED
        BY <2>1, SubsetInduction
    <2> QED
      BY <2>2
  <1>2. ASSUME NEW x \in S PROVE f[x] <= SumFunctionOnSet(f, S)
    <2>1. SumFunctionOnSet(f, S) = f[x] + SumFunctionOnSet(f, S \ {x})
      BY SumRemove
    <2>2. SumFunctionOnSet(f, S \ {x}) \in Nat
      BY <1>1
    <2> QED
      BY <2>1, <2>2
  <1> QED
    BY <1>1, <1>2

\* A sum of nothing but zeros.
LEMMA SumZero ==
    ASSUME NEW f, NEW S, IsFiniteSet(S), \A x \in S : f[x] = 0
    PROVE  SumFunctionOnSet(f, S) = 0
  <1> DEFINE Good(U) == SumFunctionOnSet(f, U) = 0
             G == {U \in SUBSET S : Good(U)}
  <1>1. ASSUME NEW T \in SUBSET S, \A U \in SUBSET T : U # T => U \in G
        PROVE  T \in G
    <2>1. CASE T = {}
      BY <2>1, SumEmpty
    <2>2. CASE T # {}
      <3>1. PICK x \in T : TRUE
        BY <2>2
      <3>2. IsFiniteSet(T)
        BY FS_Subset
      <3>3. SumFunctionOnSet(f, T) = f[x] + SumFunctionOnSet(f, T \ {x})
        BY <3>2, SumRemove
      <3>4. SumFunctionOnSet(f, T \ {x}) = 0
        BY <1>1
      <3> QED
        BY <3>3, <3>4
    <2> QED
      BY <2>1, <2>2
  <1>2. SUBSET S \subseteq G
    <2> HIDE DEF G
    <2> QED
      BY <1>1, SubsetInduction
  <1> QED
    BY <1>2

\* A sum is that of a part and that of the rest.
LEMMA SumSplit ==
    ASSUME NEW f, NEW S, IsFiniteSet(S), \A x \in S : f[x] \in Int, NEW P \in SUBSET S
    PROVE  SumFunctionOnSet(f, S)
              = SumFunctionOnSet(f, P) + SumFunctionOnSet(f, S \ P)
  <1> DEFINE sum(U) == SumFunctionOnSet(f, U)
             Good(U) == sum(S) = sum(U) + sum(S \ U)
             G == {U \in SUBSET S : Good(U)}
  <1>1. ASSUME NEW T \in SUBSET S, \A U \in SUBSET T : U # T => U \in G
        PROVE  T \in G
    <2>1. CASE T = {}
      <3>1. sum(T) = 0 /\ sum(S) \in Int
        BY <2>1, SumEmpty, SumRemove
      <3>2. S \ T = S
        BY <2>1
      <3>3. sum(S \ T) = sum(S)
        BY <3>2, Zenon
      <3> HIDE DEF sum
      <3> QED
        BY <3>1, <3>3
    <2>2. CASE T # {}
      <3>1. PICK x \in T : TRUE
        BY <2>2
      <3>2. IsFiniteSet(T) /\ IsFiniteSet(T \ {x}) /\ IsFiniteSet(S \ (T \ {x}))
        BY FS_Subset
      <3>3. (S \ (T \ {x})) \ {x} = S \ T
        OBVIOUS
      <3>4. sum(T) = f[x] + sum(T \ {x}) /\ sum(T \ {x}) \in Int
        BY <3>2, SumRemove
      <3>5. /\ sum(S \ (T \ {x})) = f[x] + sum((S \ (T \ {x})) \ {x})
            /\ sum(S \ (T \ {x})) \in Int
        BY <3>2, SumRemove
      <3>6. sum(S) = sum(T \ {x}) + sum(S \ (T \ {x}))
        BY <1>1
      <3>7. IsFiniteSet(S \ T)
        BY FS_Subset
      <3>8. f[x] \in Int /\ sum(S \ T) \in Int
        BY <3>7, SumRemove
      <3>9. sum(S \ (T \ {x})) = f[x] + sum(S \ T)
        BY <3>3, <3>5
      <3> HIDE DEF sum
      <3> QED
        BY <3>4, <3>6, <3>8, <3>9
    <2> QED
      BY <2>1, <2>2
  <1>2. SUBSET S \subseteq G
    <2> HIDE DEF G
    <2> QED
      BY <1>1, SubsetInduction
  <1> QED
    BY <1>2

\* A part of naturals sums to no more than the whole.
LEMMA SumSubset ==
    ASSUME NEW f, NEW S, IsFiniteSet(S), \A x \in S : f[x] \in Nat, NEW P \in SUBSET S
    PROVE  SumFunctionOnSet(f, P) <= SumFunctionOnSet(f, S)
  <1>1. IsFiniteSet(P) /\ IsFiniteSet(S \ P)
    BY FS_Subset
  <1>2. /\ \A x \in S : f[x] \in Int
        /\ \A x \in P : f[x] \in Nat
        /\ \A x \in S \ P : f[x] \in Nat
    OBVIOUS
  <1>3. SumFunctionOnSet(f, S)
           = SumFunctionOnSet(f, P) + SumFunctionOnSet(f, S \ P)
    BY <1>2, SumSplit
  <1>4. SumFunctionOnSet(f, P) \in Nat
    BY <1>1, <1>2, SumNat
  <1>5. SumFunctionOnSet(f, S \ P) \in Nat
    BY <1>1, <1>2, SumNat
  <1> QED
    BY <1>3, <1>4, <1>5

\* When one term changes, the sum changes by as much.
LEMMA SumUpdate ==
    ASSUME NEW f, NEW g, NEW S, IsFiniteSet(S), NEW x \in S,
           \A y \in S : f[y] \in Int /\ g[y] \in Int,
           \A y \in S \ {x} : g[y] = f[y]
    PROVE  SumFunctionOnSet(g, S) = SumFunctionOnSet(f, S) - f[x] + g[x]
  <1>1. IsFiniteSet(S \ {x})
    BY FS_Subset
  <1>2. SumFunctionOnSet(f, S \ {x}) = SumFunctionOnSet(g, S \ {x})
    BY <1>1, SumCongruent
  <1>3. /\ SumFunctionOnSet(f, S) = f[x] + SumFunctionOnSet(f, S \ {x})
        /\ SumFunctionOnSet(g, S) = g[x] + SumFunctionOnSet(g, S \ {x})
    BY SumRemove
  <1>4. SumFunctionOnSet(f, S \ {x}) \in Int
    BY <1>1, SumRemove
  <1> QED
    BY <1>2, <1>3, <1>4

\* So it does when two terms change.
LEMMA SumUpdateTwo ==
    ASSUME NEW f, NEW g, NEW S, IsFiniteSet(S), NEW x \in S, NEW y \in S, x # y,
           \A z \in S : f[z] \in Int /\ g[z] \in Int,
           \A z \in S \ {x, y} : g[z] = f[z]
    PROVE  SumFunctionOnSet(g, S)
              = SumFunctionOnSet(f, S) - f[x] - f[y] + g[x] + g[y]
  <1> DEFINE h == [z \in S |-> IF z = x THEN g[x] ELSE f[z]]
  <1>1. /\ \A z \in S : h[z] \in Int
        /\ h[x] = g[x] /\ h[y] = f[y]
        /\ \A z \in S \ {x} : h[z] = f[z]
        /\ \A z \in S \ {y} : g[z] = h[z]
    OBVIOUS
  <1> HIDE DEF h
  <1>2. SumFunctionOnSet(h, S) = SumFunctionOnSet(f, S) - f[x] + h[x]
    BY <1>1, SumUpdate
  <1>3. SumFunctionOnSet(g, S) = SumFunctionOnSet(h, S) - h[y] + g[y]
    BY <1>1, SumUpdate
  <1>4. SumFunctionOnSet(f, S) \in Int /\ f[x] \in Int /\ f[y] \in Int
    BY SumRemove
  <1>5. g[x] \in Int /\ g[y] \in Int
    OBVIOUS
  <1> QED
    BY <1>1, <1>2, <1>3, <1>4, <1>5

-----------------------------------------------------------------------------

\* What a quotient is: the greatest number that goes so many times.
LEMMA Quotient ==
    ASSUME NEW m \in Nat, NEW d \in Nat \ {0}
    PROVE  m \div d \in Nat /\ (m \div d) * d <= m /\ m < (m \div d) * d + d
  OBVIOUS

\* Multiplying by a natural keeps an order...
LEMMA ProductMonotonic ==
    ASSUME NEW p \in Int, NEW q \in Int, NEW d \in Nat, p <= q
    PROVE  p * d <= q * d
  OBVIOUS

\* ... and a strict one is that of the factors.
LEMMA ProductCancels ==
    ASSUME NEW p \in Int, NEW q \in Int, NEW d \in Nat, p * d < q * d
    PROVE  p < q
  OBVIOUS

\* So is one that is not, for a factor that is not zero.
LEMMA ProductCancelsAtMost ==
    ASSUME NEW p \in Int, NEW q \in Int, NEW d \in Nat \ {0}, p * d <= q * d
    PROVE  p <= q
  <1>1. CASE q < p
    <2>1. (q + 1) * d <= p * d
      BY <1>1, ProductMonotonic
    <2>2. (q + 1) * d = q * d + d /\ q * d \in Int /\ p * d \in Int
      OBVIOUS
    <2> QED
      BY <2>1, <2>2
  <1> QED
    BY <1>1

\* Bounds of a quotient, from bounds of the dividend.
LEMMA QuotientAtLeast ==
    ASSUME NEW m \in Nat, NEW d \in Nat \ {0}, NEW q \in Nat, q * d <= m
    PROVE  q <= m \div d
  <1> DEFINE k == m \div d
  <1>1. k \in Nat /\ m < k * d + d
    BY Quotient
  <1> HIDE DEF k
  <1>2. q * d < (k + 1) * d
    BY <1>1
  <1> QED
    BY <1>1, <1>2, ProductCancels

\* And from above.
LEMMA QuotientAtMost ==
    ASSUME NEW m \in Nat, NEW d \in Nat \ {0}, NEW q \in Nat, m < q * d + d
    PROVE  m \div d <= q
  <1> DEFINE k == m \div d
  <1>1. k \in Nat /\ k * d <= m
    BY Quotient
  <1> HIDE DEF k
  <1>2. k * d < (q + 1) * d
    BY <1>1
  <1> QED
    BY <1>1, <1>2, ProductCancels

-----------------------------------------------------------------------------

\* A finite set of integers that is not empty has a greatest one.
LEMMA MaxExists ==
    ASSUME NEW S \in SUBSET Int, IsFiniteSet(S), S # {}
    PROVE  Max(S) \in S /\ \A x \in S : x <= Max(S)
  <1> DEFINE Good(T) == T = {} \/ \E m \in T : \A x \in T : x <= m
             G == {T \in SUBSET S : Good(T)}
  <1>1. ASSUME NEW T \in SUBSET S, \A U \in SUBSET T : U # T => U \in G
        PROVE  T \in G
    <2>1. CASE T = {}
      BY <2>1
    <2>2. CASE T # {}
      <3>1. PICK y \in T : TRUE
        BY <2>2
      <3>2. T \ {y} \in G
        BY <1>1
      <3>3. CASE T \ {y} = {}
        BY <3>3
      <3>4. CASE T \ {y} # {}
        <4>1. PICK m \in T \ {y} : \A x \in T \ {y} : x <= m
          BY <3>2, <3>4
        <4>2. y \in Int /\ m \in Int /\ \A x \in T : x \in Int
          OBVIOUS
        <4>3. CASE y <= m
          BY <4>1, <4>3
        <4>4. CASE ~ y <= m
          <5>1. \A x \in T : x <= y
            BY <4>1, <4>2, <4>4
          <5> QED
            BY <5>1
        <4> QED
          BY <4>3, <4>4
      <3> QED
        BY <3>3, <3>4
    <2> QED
      BY <2>1, <2>2
  <1>2. SUBSET S \subseteq G
    <2> HIDE DEF G
    <2> QED
      BY <1>1, SubsetInduction
  <1>3. PICK m \in S : \A x \in S : x <= m
    BY <1>2
  <1>4. \A x \in S : m >= x
    BY <1>3
  <1> QED
    BY <1>4 DEF Max

\* The less of two.
LEMMA MinOfTwo ==
    ASSUME NEW a \in Int, NEW b \in Int
    PROVE  Min({a, b}) \in {a, b} /\ Min({a, b}) <= a /\ Min({a, b}) <= b
  <1>1. \E x \in {a, b} : \A y \in {a, b} : x <= y
    OBVIOUS
  <1> QED
    BY <1>1 DEF Min

\* Whole parts of n pieces of m make up no more than the whole part of all of them.
LEMMA WholeParts ==
    ASSUME NEW m \in Nat, NEW d \in Nat \ {0}, NEW k \in Nat, NEW n \in Nat, k <= n
    PROVE  /\ k * ((1 * m) \div d) \in Nat
           /\ (n * m) \div d \in Nat
           /\ k * ((1 * m) \div d) <= (n * m) \div d
  <1> DEFINE q == (1 * m) \div d
  <1>1. 1 * m = m /\ n * m \in Nat /\ k * m \in Nat
    OBVIOUS
  <1>2. q \in Nat /\ q * d <= m
    BY <1>1, Quotient
  <1>3. (n * m) \div d \in Nat
    BY <1>1, Quotient
  <1> HIDE DEF q
  <1>4. k * q \in Nat /\ q * d \in Nat
    BY <1>2
  <1>5. (q * d) * k <= m * k
    BY <1>2, <1>4, ProductMonotonic
  <1>6. k * m <= n * m
    BY ProductMonotonic
  <1>7. /\ (k * q) * d = (q * d) * k /\ m * k = k * m
        /\ (q * d) * k \in Int
    BY <1>2
  <1>8. (k * q) * d <= n * m
    <2> DEFINE a == (k * q) * d
               b == (q * d) * k
               c == k * m
               e == n * m
    <2>1. a = b /\ b <= c /\ c <= e /\ b \in Int /\ c \in Int /\ e \in Int
      BY <1>1, <1>5, <1>6, <1>7
    <2> HIDE DEF a, b, c, e
    <2>2. a <= e
      BY <2>1
    <2> QED
      BY <2>2 DEF a, e
  <1>9. k * q <= (n * m) \div d
    BY <1>1, <1>4, <1>8, QuotientAtLeast
  <1> QED
    BY <1>3, <1>4, <1>9 DEF q

\* A set of naturals that is not empty has a least one.
LEMMA LeastExists ==
    ASSUME NEW S \in SUBSET Nat, S # {}
    PROVE  Min(S) \in S /\ \A x \in S : Min(S) <= x
  <1>1. PICK n \in S : TRUE
    OBVIOUS
  <1> DEFINE D == {d \in 0 .. n : n - d \in S}
  <1>2. n \in Nat /\ D \in SUBSET (0 .. n) /\ 0 \in D
    BY <1>1
  <1>3. IsFiniteSet(D) /\ D \in SUBSET Int
    <2>1. IsFiniteSet(0 .. n)
      BY <1>2, FS_Interval
    <2>2. IsFiniteSet(D)
      BY <1>2, <2>1, FS_Subset
    <2> QED
      BY <1>2, <2>2
  <1>4. Max(D) \in D /\ \A d \in D : d <= Max(D)
    BY <1>2, <1>3, MaxExists
  <1> DEFINE m == n - Max(D)
  <1>5. m \in S
    BY <1>4
  <1>6. ASSUME NEW x \in S PROVE m <= x
    <2>1. x \in Nat /\ Max(D) \in 0 .. n
      BY <1>4
    <2>2. CASE x <= n
      <3>1. n - x \in 0 .. n /\ n - (n - x) = x
        BY <1>2, <2>1, <2>2
      <3>2. n - x \in D
        BY <3>1
      <3>3. n - x <= Max(D)
        BY <1>4, <3>2
      <3> HIDE DEF D
      <3> QED
        BY <1>2, <2>1, <3>3
    <2>3. CASE n < x
      <3> HIDE DEF D
      <3> QED
        BY <1>2, <2>1, <2>3
    <2> QED
      BY <1>2, <2>1, <2>2, <2>3
  <1>7. \E x \in S : \A y \in S : x <= y
    <2> HIDE DEF m
    <2> QED
      BY <1>5, <1>6
  <1> QED
    BY <1>7 DEF Min

\* A factor of all terms is one of their sum.
LEMMA SumScale ==
    ASSUME NEW f, NEW g, NEW S, IsFiniteSet(S), NEW c \in Int,
           \A x \in S : f[x] \in Int /\ g[x] = c * f[x]
    PROVE  SumFunctionOnSet(g, S) = c * SumFunctionOnSet(f, S)
  <1> DEFINE Good(U) == SumFunctionOnSet(g, U) = c * SumFunctionOnSet(f, U)
             G == {U \in SUBSET S : Good(U)}
  <1>1. ASSUME NEW T \in SUBSET S, \A U \in SUBSET T : U # T => U \in G
        PROVE  T \in G
    <2>1. CASE T = {}
      BY <2>1, SumEmpty
    <2>2. CASE T # {}
      <3>1. PICK x \in T : TRUE
        BY <2>2
      <3>2. IsFiniteSet(T) /\ IsFiniteSet(T \ {x})
        BY FS_Subset
      <3>3. \A y \in T : f[y] \in Int /\ g[y] \in Int
        OBVIOUS
      <3>4. /\ SumFunctionOnSet(f, T) = f[x] + SumFunctionOnSet(f, T \ {x})
            /\ SumFunctionOnSet(g, T) = g[x] + SumFunctionOnSet(g, T \ {x})
            /\ SumFunctionOnSet(f, T \ {x}) \in Int
        BY <3>2, <3>3, SumRemove
      <3>5. /\ SumFunctionOnSet(g, T \ {x}) = c * SumFunctionOnSet(f, T \ {x})
            /\ f[x] \in Int /\ g[x] = c * f[x]
        BY <1>1
      <3>6. \A p, q \in Int : c * p + c * q = c * (p + q)
        OBVIOUS
      <3>7. SumFunctionOnSet(g, T) = c * SumFunctionOnSet(f, T)
        BY <3>4, <3>5, <3>6
      <3> QED
        BY <3>7
    <2> QED
      BY <2>1, <2>2
  <1>2. SUBSET S \subseteq G
    <2> HIDE DEF G
    <2> QED
      BY <1>1, SubsetInduction
  <1> QED
    BY <1>2

=============================================================================
