-------------------------------- MODULE Sums -------------------------------
(***************************************************************************)
(* Sums of a function over its domain: what they are when a value changes, *)
(* when all values are zero, and when the values count the positions of a  *)
(* sequence.  The induction is on sets: what holds of a set whenever it    *)
(* holds of its proper subsets holds of all subsets of a finite set.       *)
(***************************************************************************)
EXTENDS Integers, FiniteSets, Functions, FiniteSetTheorems, TLAPS

\* Induction on the subsets of S, with the set of those that have the property.
LEMMA SubsetInduction ==
  ASSUME NEW S, IsFiniteSet(S), NEW Good \in SUBSET SUBSET S,
         \A T \in SUBSET S : (\A U \in SUBSET T : U # T => U \in Good) => T \in Good
  PROVE  \A T \in SUBSET S : T \in Good
<1>1. IsWellFoundedOn(StrictSubsetOrdering(S), SUBSET S)
  BY FS_StrictSubsetOrderingWellFounded, FS_FiniteSubsetsOfFinite
<1> DEFINE Bad == (SUBSET S) \ Good
<1>2. SUFFICES ASSUME Bad # {} PROVE FALSE
  OBVIOUS
<1>3. PICK T \in Bad : \A U \in Bad : ~(<<U, T>> \in StrictSubsetOrdering(S))
  <2>1. Bad \subseteq SUBSET S
    OBVIOUS
  <2> HIDE DEF Bad
  <2>2. QED
    BY <1>1, <1>2, <2>1, WFMin
<1>4. \A U \in SUBSET T : U # T => U \in Good
  BY <1>3 DEF StrictSubsetOrdering
<1>5. QED
  BY <1>3, <1>4

-----------------------------------------------------------------------------
(* What a sum is: the value at S of a function that adds up every subset   *)

First(s) == CHOOSE x \in s : TRUE
Adds(f, g, D) == g = [s \in D |-> IF s = {} THEN 0 ELSE f[First(s)] + g[s \ {First(s)}]]

\* Two such functions agree where the summands do.
Agree(g1, g2, S) == \A T \in SUBSET S : g1[T] = g2[T]

LEMMA AddsAgree ==
  ASSUME NEW S, IsFiniteSet(S), NEW A, NEW B, S \subseteq A, S \subseteq B,
         NEW f1, NEW f2, \A x \in S : f1[x] = f2[x],
         NEW g1, NEW g2, Adds(f1, g1, SUBSET A), Adds(f2, g2, SUBSET B)
  PROVE  Agree(g1, g2, S)
<1> DEFINE Good == {T \in SUBSET S : g1[T] = g2[T]}
<1>1. ASSUME NEW T \in SUBSET S, \A U \in SUBSET T : U # T => U \in Good
      PROVE  T \in Good
  <2>1. /\ g1[T] = IF T = {} THEN 0 ELSE f1[First(T)] + g1[T \ {First(T)}]
        /\ g2[T] = IF T = {} THEN 0 ELSE f2[First(T)] + g2[T \ {First(T)}]
    BY DEF Adds
  <2>2. CASE T = {}
    BY <2>1, <2>2
  <2>3. CASE T # {}
    <3>1. First(T) \in T
      BY <2>3 DEF First
    <3>2. f1[First(T)] = f2[First(T)] /\ g1[T \ {First(T)}] = g2[T \ {First(T)}]
      BY <1>1, <3>1
    <3>3. QED
      BY <2>1, <2>3, <3>2
  <2>4. QED
    BY <2>2, <2>3
<1>2. \A T \in SUBSET S : T \in Good
  <2>1. Good \in SUBSET SUBSET S
    OBVIOUS
  <2> HIDE DEF Good
  <2>2. QED
    BY <1>1, <2>1, SubsetInduction
<1>3. QED
  BY <1>2 DEF Agree

\* There is one for every finite set.
LEMMA AddsExists ==
  ASSUME NEW S, IsFiniteSet(S), NEW f
  PROVE  \E g : Adds(f, g, SUBSET S)
<1> DEFINE Good == {T \in SUBSET S : \E g : Adds(f, g, SUBSET T)}
           G(T) == CHOOSE g : Adds(f, g, SUBSET T)
<1>1. \A T \in Good : Adds(f, G(T), SUBSET T)
  OBVIOUS
<1> HIDE DEF G
<1>2. ASSUME NEW T \in SUBSET S, \A U \in SUBSET T : U # T => U \in Good
      PROVE  T \in Good
  <2> DEFINE last == IF T = {} THEN 0 ELSE f[First(T)] + G(T \ {First(T)})[T \ {First(T)}]
             g == [s \in SUBSET T |-> IF s = T THEN last ELSE G(s)[s]]
  <2>1. ASSUME NEW s \in SUBSET T
        PROVE  g[s] = IF s = {} THEN 0 ELSE f[First(s)] + g[s \ {First(s)}]
    <3>1. CASE s = T
      <4>1. T # {} => T \ {First(T)} # T /\ T \ {First(T)} \in SUBSET T
        BY DEF First
      <4>2. QED
        BY <3>1, <4>1
    <3>2. CASE s # T
      <4>1. Adds(f, G(s), SUBSET s) /\ g[s] = G(s)[s]
        BY <1>1, <1>2, <3>2
      <4>2. G(s)[s] = IF s = {} THEN 0 ELSE f[First(s)] + G(s)[s \ {First(s)}]
        BY <4>1 DEF Adds
      <4>3. CASE s # {}
        <5> DEFINE r == s \ {First(s)}
        <5>1. r \in SUBSET s /\ r # T /\ r \in SUBSET T
          BY <4>3 DEF First
        <5>2. Adds(f, G(r), SUBSET r) /\ g[r] = G(r)[r]
          BY <1>1, <1>2, <5>1
        <5>3. IsFiniteSet(r)
          BY <5>1, FS_Subset
        <5>4. G(s)[r] = G(r)[r]
          <6> HIDE DEF r
          <6>1. r \subseteq s
            BY <5>1
          <6>2. r \subseteq r /\ r \in SUBSET r /\ \A x \in r : f[x] = f[x]
            OBVIOUS
          <6>3. \A U \in SUBSET r : G(s)[U] = G(r)[U]
            <7> DEFINE gs == G(s)
                       gr == G(r)
            <7>1. Adds(f, gs, SUBSET s) /\ Adds(f, gr, SUBSET r)
              BY <4>1, <5>2
            <7> HIDE DEF gs, gr
            <7>2. Agree(gs, gr, r)
              BY <5>3, <6>1, <6>2, <7>1, AddsAgree
            <7>3. QED
              BY <7>2 DEF Agree, gs, gr
          <6>4. QED
            BY <6>2, <6>3
        <5>5. QED
          BY <4>1, <4>2, <4>3, <5>2, <5>4
      <4>4. QED
        BY <4>1, <4>2, <4>3
    <3>3. QED
      BY <3>1, <3>2
  <2>2. g = [s \in SUBSET T |-> IF s = {} THEN 0 ELSE f[First(s)] + g[s \ {First(s)}]]
    <3>1. g = [s \in SUBSET T |-> g[s]]
      OBVIOUS
    <3> HIDE DEF g
    <3>2. QED
      BY <2>1, <3>1
  <2>3. Adds(f, g, SUBSET T)
    BY <2>2 DEF Adds
  <2>4. QED
    BY <2>3
<1>3. \A T \in SUBSET S : T \in Good
  <2>1. Good \in SUBSET SUBSET S
    OBVIOUS
  <2> HIDE DEF Good
  <2>2. QED
    BY <1>2, <2>1, SubsetInduction
<1>4. QED
  BY <1>3

\* The library's sum is such a function's value at the domain.
LEMMA SumAdds ==
  ASSUME NEW S, IsFiniteSet(S), NEW f, DOMAIN f = S
  PROVE  \E g : Adds(f, g, SUBSET S) /\ SumFunction(f) = g[S]
<1> DEFINE h == CHOOSE g : Adds(f, g, SUBSET S)
<1>1. Adds(f, h, SUBSET S)
  BY AddsExists
<1>2. SumFunction(f) = h[S]
  BY DEF SumFunction, SumFunctionOnSet, FoldFunctionOnSet, MapThenFoldSet, Adds, First
<1>3. QED
  BY <1>1, <1>2

\* Any element may be taken first.
AnyFirst(f, g, S) ==
  /\ g[{}] = 0
  /\ \A T \in SUBSET S : g[T] \in Int /\ \A a \in T : g[T] = f[a] + g[T \ {a}]

LEMMA AddsRemove ==
  ASSUME NEW S, IsFiniteSet(S), NEW f \in [S -> Int], NEW g, Adds(f, g, SUBSET S)
  PROVE  AnyFirst(f, g, S)
<1> DEFINE Taken(T) == g[T] \in Int /\ \A a \in T : g[T] = f[a] + g[T \ {a}]
           Good == {T \in SUBSET S : Taken(T)}
<1>1. \A T \in SUBSET S : g[T] = IF T = {} THEN 0 ELSE f[First(T)] + g[T \ {First(T)}]
  BY DEF Adds
<1>2. ASSUME NEW T \in SUBSET S, \A U \in SUBSET T : U # T => U \in Good
      PROVE  T \in Good
  <2>1. CASE T = {}
    <3>1. g[T] = 0
      BY <1>1, <2>1
    <3>2. QED
      BY <2>1, <3>1
  <2>2. CASE T # {}
    <3> DEFINE x == First(T)
    <3>1. x \in T /\ f[x] \in Int /\ g[T] = f[x] + g[T \ {x}]
      BY <1>1, <2>2 DEF First
    <3> HIDE DEF x
    <3>2. \A a \in T : f[a] \in Int /\ Taken(T \ {a})
      BY <1>2
    <3>3. ASSUME NEW a \in T, a # x PROVE g[T] = f[a] + g[T \ {a}]
      <4> DEFINE both == (T \ {x}) \ {a}
      <4>1. both = (T \ {a}) \ {x} /\ both \in SUBSET T /\ both # T
        BY <3>1
      <4>2. g[T \ {x}] = f[a] + g[both]
        BY <3>1, <3>2, <3>3
      <4>3. g[T \ {a}] = f[x] + g[both]
        <5>1. x \in T \ {a}
          BY <3>1, <3>3
        <5>2. QED
          BY <3>2, <4>1, <5>1
      <4>4. g[both] \in Int /\ f[a] \in Int
        BY <1>2, <4>1
      <4> HIDE DEF both
      <4>5. QED
        BY <3>1, <4>2, <4>3, <4>4
    <3>4. g[T] \in Int
      BY <3>1, <3>2
    <3>5. \A a \in T : g[T] = f[a] + g[T \ {a}]
      BY <3>1, <3>3
    <3>6. QED
      BY <3>4, <3>5
  <2>3. QED
    BY <2>1, <2>2
<1>3. \A T \in SUBSET S : T \in Good
  <2>1. Good \in SUBSET SUBSET S
    OBVIOUS
  <2> HIDE DEF Good
  <2>2. QED
    BY <1>2, <2>1, SubsetInduction
<1>4. g[{}] = 0
  BY <1>1
<1>5. QED
  BY <1>3, <1>4 DEF AnyFirst

-----------------------------------------------------------------------------
(* The first n positions                                                   *)

LEMMA Positions ==
  ASSUME NEW n \in Nat
  PROVE  IsFiniteSet(1 .. n) /\ Cardinality(1 .. n) = n
<1>1. 1 \in Int /\ n \in Int
  OBVIOUS
<1>2. IsFiniteSet(1 .. n) /\ Cardinality(1 .. n) = IF 1 > n THEN 0 ELSE n - 1 + 1
  BY <1>1, FS_Interval, Zenon
<1>3. QED
  BY <1>2

-----------------------------------------------------------------------------
(* Laws of sums                                                            *)

LEMMA SumType ==
  ASSUME NEW S, IsFiniteSet(S), NEW f \in [S -> Int]
  PROVE  SumFunction(f) \in Int
<1>1. PICK g : Adds(f, g, SUBSET S) /\ SumFunction(f) = g[S]
  BY SumAdds
<1>2. AnyFirst(f, g, S)
  BY <1>1, AddsRemove
<1>3. QED
  BY <1>1, <1>2 DEF AnyFirst

\* One value changes.
LEMMA SumUpdate ==
  ASSUME NEW S, IsFiniteSet(S), NEW f \in [S -> Int], NEW h \in [S -> Int], NEW a \in S,
         \A x \in S \ {a} : h[x] = f[x]
  PROVE  SumFunction(h) = SumFunction(f) + h[a] - f[a]
<1>1. PICK g1 : Adds(f, g1, SUBSET S) /\ SumFunction(f) = g1[S]
  BY SumAdds
<1>2. PICK g2 : Adds(h, g2, SUBSET S) /\ SumFunction(h) = g2[S]
  BY SumAdds
<1> DEFINE rest == S \ {a}
<1>3. rest \subseteq S /\ rest \in SUBSET S /\ \A x \in rest : f[x] = h[x]
  OBVIOUS
<1>4. IsFiniteSet(rest)
  BY FS_Subset
<1>5. g1[S] = f[a] + g1[rest] /\ g1[rest] \in Int
  <2>1. AnyFirst(f, g1, S)
    BY <1>1, AddsRemove
  <2>2. QED
    BY <1>3, <2>1 DEF AnyFirst
<1>6. g2[S] = h[a] + g2[rest] /\ g2[rest] \in Int
  <2>1. AnyFirst(h, g2, S)
    BY <1>2, AddsRemove
  <2>2. QED
    BY <1>3, <2>1 DEF AnyFirst
<1> HIDE DEF rest
<1>7. g1[rest] = g2[rest]
  <2>1. Agree(g1, g2, rest)
    BY <1>1, <1>2, <1>3, <1>4, AddsAgree
  <2>2. QED
    BY <2>1 DEF Agree
<1>8. QED
  BY <1>1, <1>2, <1>5, <1>6, <1>7

LEMMA SumZero ==
  ASSUME NEW S, IsFiniteSet(S), NEW f \in [S -> Int], \A x \in S : f[x] = 0
  PROVE  SumFunction(f) = 0
<1>1. PICK g : Adds(f, g, SUBSET S) /\ SumFunction(f) = g[S]
  BY SumAdds
<1>5. AnyFirst(f, g, S)
  BY <1>1, AddsRemove
<1> DEFINE Good == {T \in SUBSET S : g[T] = 0}
<1>2. ASSUME NEW T \in SUBSET S, \A U \in SUBSET T : U # T => U \in Good
      PROVE  T \in Good
  <2>1. CASE T = {}
    BY <1>5, <2>1 DEF AnyFirst
  <2>2. CASE T # {}
    <3>1. PICK a \in T : TRUE
      BY <2>2
    <3>2. g[T] = f[a] + g[T \ {a}] /\ f[a] = 0
      BY <1>5 DEF AnyFirst
    <3>3. g[T \ {a}] = 0
      BY <1>2
    <3>4. QED
      BY <3>2, <3>3
  <2>3. QED
    BY <2>1, <2>2
<1>3. \A T \in SUBSET S : T \in Good
  <2>1. Good \in SUBSET SUBSET S
    OBVIOUS
  <2> HIDE DEF Good
  <2>2. QED
    BY <1>2, <2>1, SubsetInduction
<1>4. QED
  BY <1>1, <1>3

\* A sum of natural numbers is one, and no summand exceeds it.
LEMMA SumOfNats ==
  ASSUME NEW S, IsFiniteSet(S), NEW f \in [S -> Nat]
  PROVE  SumFunction(f) \in Nat /\ \A a \in S : f[a] <= SumFunction(f)
<1>1. f \in [S -> Int]
  OBVIOUS
<1>2. PICK g : Adds(f, g, SUBSET S) /\ SumFunction(f) = g[S]
  BY SumAdds
<1>3. AnyFirst(f, g, S)
  BY <1>1, <1>2, AddsRemove
<1> DEFINE Good == {T \in SUBSET S : g[T] \in Nat}
<1>4. ASSUME NEW T \in SUBSET S, \A U \in SUBSET T : U # T => U \in Good
      PROVE  T \in Good
  <2>1. CASE T = {}
    BY <1>3, <2>1 DEF AnyFirst
  <2>2. CASE T # {}
    <3>1. PICK a \in T : TRUE
      BY <2>2
    <3>2. g[T] = f[a] + g[T \ {a}] /\ f[a] \in Nat
      BY <1>3 DEF AnyFirst
    <3>3. g[T \ {a}] \in Nat
      BY <1>4
    <3>4. QED
      BY <3>2, <3>3
  <2>3. QED
    BY <2>1, <2>2
<1>5. \A T \in SUBSET S : T \in Good
  <2>1. Good \in SUBSET SUBSET S
    OBVIOUS
  <2> HIDE DEF Good
  <2>2. QED
    BY <1>4, <2>1, SubsetInduction
<1>6. ASSUME NEW a \in S PROVE f[a] <= g[S]
  <2>1. g[S] = f[a] + g[S \ {a}] /\ g[S \ {a}] \in Nat /\ f[a] \in Nat
    BY <1>3, <1>5 DEF AnyFirst
  <2>2. QED
    BY <2>1
<1>7. QED
  BY <1>2, <1>5, <1>6

\* What one entry gives another gets: nothing is made or lost, to oneself neither.
Moved(f, a, b, n) == [[f EXCEPT ![a] = @ - n] EXCEPT ![b] = @ + n]

LEMMA SumMove ==
  ASSUME NEW S, IsFiniteSet(S), NEW f \in [S -> Int], NEW a \in S, NEW b \in S, NEW n \in Int
  PROVE  Moved(f, a, b, n) \in [S -> Int] /\ SumFunction(Moved(f, a, b, n)) = SumFunction(f)
<1> DEFINE g == [f EXCEPT ![a] = @ - n]
           h == [g EXCEPT ![b] = @ + n]
<1>1. g \in [S -> Int] /\ g[a] = f[a] - n /\ \A x \in S \ {a} : g[x] = f[x]
  OBVIOUS
<1>2. h = Moved(f, a, b, n)
  BY DEF Moved
<1> HIDE DEF g
<1>3. h \in [S -> Int] /\ h[b] = g[b] + n /\ \A x \in S \ {b} : h[x] = g[x]
  BY <1>1
<1> HIDE DEF h
<1>4. SumFunction(g) = SumFunction(f) + g[a] - f[a]
  BY <1>1, SumUpdate
<1>5. SumFunction(h) = SumFunction(g) + h[b] - g[b]
  BY <1>1, <1>3, SumUpdate
<1>6. SumFunction(f) \in Int /\ SumFunction(g) \in Int /\ f[a] \in Int /\ g[b] \in Int
  BY <1>1, SumType
<1>7. QED
  BY <1>1, <1>2, <1>3, <1>4, <1>5, <1>6

\* Adding a multiple entry by entry adds the multiple of the sum.
LEMMA SumLinear ==
  ASSUME NEW S, IsFiniteSet(S), NEW f \in [S -> Int], NEW g \in [S -> Int], NEW k \in Int,
         NEW h \in [S -> Int], \A x \in S : h[x] = f[x] + k * g[x]
  PROVE  SumFunction(h) = SumFunction(f) + k * SumFunction(g)
<1>1. PICK F : Adds(f, F, SUBSET S) /\ SumFunction(f) = F[S]
  BY SumAdds
<1>2. PICK G : Adds(g, G, SUBSET S) /\ SumFunction(g) = G[S]
  BY SumAdds
<1>3. PICK H : Adds(h, H, SUBSET S) /\ SumFunction(h) = H[S]
  BY SumAdds
<1>4. AnyFirst(f, F, S) /\ AnyFirst(g, G, S) /\ AnyFirst(h, H, S)
  BY <1>1, <1>2, <1>3, AddsRemove
<1> DEFINE Good == {T \in SUBSET S : H[T] = F[T] + k * G[T]}
<1>5. ASSUME NEW T \in SUBSET S, \A U \in SUBSET T : U # T => U \in Good
      PROVE  T \in Good
  <2>1. CASE T = {}
    <3>1. F[{}] = 0 /\ G[{}] = 0 /\ H[{}] = 0
      BY <1>4 DEF AnyFirst
    <3>2. QED
      BY <2>1, <3>1
  <2>2. CASE T # {}
    <3>1. PICK a \in T : TRUE
      BY <2>2
    <3> DEFINE rest == T \ {a}
    <3>2. /\ F[T] = f[a] + F[rest] /\ G[T] = g[a] + G[rest] /\ H[T] = h[a] + H[rest]
          /\ F[rest] \in Int /\ G[rest] \in Int
      BY <1>4 DEF AnyFirst
    <3>3. H[rest] = F[rest] + k * G[rest]
      BY <1>5
    <3>4. h[a] = f[a] + k * g[a] /\ f[a] \in Int /\ g[a] \in Int
      OBVIOUS
    <3>5. \A x, y \in Int : k * (x + y) = k * x + k * y
      OBVIOUS
    <3>6. k * G[T] = k * g[a] + k * G[rest]
      BY <3>2, <3>4, <3>5
    <3>7. k * g[a] \in Int /\ k * G[rest] \in Int
      BY <3>2, <3>4
    <3>8. H[T] = F[T] + k * G[T]
      <4> HIDE DEF rest
      <4>1. QED
        BY <3>2, <3>3, <3>4, <3>6, <3>7
    <3>9. QED
      BY <3>8
  <2>3. QED
    BY <2>1, <2>2
<1>6. \A T \in SUBSET S : T \in Good
  <2>1. Good \in SUBSET SUBSET S
    OBVIOUS
  <2> HIDE DEF Good
  <2>2. QED
    BY <1>5, <2>1, SubsetInduction
<1>7. QED
  BY <1>1, <1>2, <1>3, <1>6

\* Counting the places of a list value by value counts them all.
Places(list, D, v) == {i \in D : list[i] = v}
PlaceCounts(S, list, D) == [v \in S |-> Cardinality(Places(list, D, v))]

LEMMA SumOfPlaces ==
  ASSUME NEW S, IsFiniteSet(S), NEW D, IsFiniteSet(D), NEW list \in [D -> S]
  PROVE  SumFunction(PlaceCounts(S, list, D)) = Cardinality(D)
<1> DEFINE Counts(T) == [v \in S |-> Cardinality(Places(list, T, v))]
           Good == {T \in SUBSET D : SumFunction(Counts(T)) = Cardinality(T)}
<1>1. ASSUME NEW T \in SUBSET D
      PROVE  /\ IsFiniteSet(T) /\ Cardinality(T) \in Nat /\ Counts(T) \in [S -> Int]
             /\ \A v \in S : /\ IsFiniteSet(Places(list, T, v))
                             /\ Cardinality(Places(list, T, v)) \in Nat
  <2>1. IsFiniteSet(T) /\ Cardinality(T) \in Nat
    BY FS_Subset, FS_CardinalityType
  <2>2. ASSUME NEW v \in S
        PROVE  IsFiniteSet(Places(list, T, v)) /\ Cardinality(Places(list, T, v)) \in Nat
    <3>1. Places(list, T, v) \subseteq T
      BY DEF Places
    <3>2. QED
      BY <2>1, <3>1, FS_Subset, FS_CardinalityType
  <2>3. QED
    BY <2>1, <2>2
<1>2. ASSUME NEW T \in SUBSET D, \A U \in SUBSET T : U # T => U \in Good
      PROVE  T \in Good
  <2>1. CASE T = {}
    <3>1. Cardinality(T) = 0 /\ \A v \in S : Places(list, T, v) = {}
      BY <2>1, FS_EmptySet DEF Places
    <3>2. \A v \in S : Counts(T)[v] = 0
      BY <3>1, FS_EmptySet
    <3>3. Counts(T) \in [S -> Int]
      BY <1>1
    <3> HIDE DEF Counts
    <3>4. SumFunction(Counts(T)) = 0
      BY <3>2, <3>3, SumZero
    <3>5. QED
      BY <3>1, <3>4
  <2>2. CASE T # {}
    <3>1. PICK i \in T : TRUE
      BY <2>2
    <3> DEFINE U == T \ {i}
               a == list[i]
    <3>2. U \in SUBSET D /\ U \in SUBSET T /\ U # T /\ T \in SUBSET D /\ a \in S
      OBVIOUS
    <3>3. SumFunction(Counts(U)) = Cardinality(U)
      BY <1>2, <3>2
    <3>4. Cardinality(U) = Cardinality(T) - 1
      BY <1>1, FS_RemoveElement
    <3>5. \A v \in S \ {a} : Places(list, U, v) = Places(list, T, v)
      BY DEF Places
    <3>6. Cardinality(Places(list, U, a)) = Cardinality(Places(list, T, a)) - 1
      <4>1. i \in Places(list, T, a) /\ Places(list, U, a) = Places(list, T, a) \ {i}
        BY DEF Places
      <4>2. IsFiniteSet(Places(list, T, a))
        BY <1>1, <3>2
      <4>3. \A P : IsFiniteSet(P) /\ i \in P => Cardinality(P \ {i}) = Cardinality(P) - 1
        BY FS_RemoveElement
      <4> HIDE DEF U, a
      <4>4. QED
        BY <4>1, <4>2, <4>3
    <3>7. /\ \A v \in S \ {a} : Counts(T)[v] = Counts(U)[v]
          /\ Counts(U)[a] = Counts(T)[a] - 1 /\ Counts(T)[a] \in Int
      BY <1>1, <3>2, <3>5, <3>6
    <3>8. Counts(T) \in [S -> Int] /\ Counts(U) \in [S -> Int] /\ Cardinality(T) \in Nat
      BY <1>1, <3>2
    <3> HIDE DEF Counts, U, a
    <3>9. SumFunction(Counts(T)) = SumFunction(Counts(U)) + Counts(T)[a] - Counts(U)[a]
      BY <3>2, <3>7, <3>8, SumUpdate
    <3>10. SumFunction(Counts(T)) = Cardinality(T)
      BY <3>3, <3>4, <3>7, <3>8, <3>9
    <3>11. QED
      BY <3>10
  <2>3. QED
    BY <2>1, <2>2
<1>3. \A T \in SUBSET D : T \in Good
  <2>1. Good \in SUBSET SUBSET D
    OBVIOUS
  <2> HIDE DEF Good
  <2>2. QED
    BY <1>2, <2>1, SubsetInduction
<1>4. QED
  BY <1>3 DEF PlaceCounts

=============================================================================
