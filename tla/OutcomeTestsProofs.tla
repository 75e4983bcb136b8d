--------------------------- MODULE OutcomeTestsProofs ---------------------------
(***************************************************************************)
(* Proofs about OutcomeTests, for any products, signals, frames, packs and *)
(* length of the feed.                                                     *)
(*                                                                         *)
(* What the sources hold keeps its type (Sources); every property is then  *)
(* a fact about the operators: that a greatest contact, a median and a     *)
(* worst severity exist, what one more value does to a sum, and that a     *)
(* division keeps the order.  Inductions are by a least counterexample, a  *)
(* least natural number or a least subset of a finite set.                 *)
(***************************************************************************)
EXTENDS OutcomeTests, FiniteSetTheorems, TLAPS

(* Least and greatest; sums over a finite set. *)

\* Every non-empty set of naturals has a least element.
LEMMA LeastNatural ==
    ASSUME NEW T, T \subseteq Nat, T # {}
    PROVE  \E x \in T : \A y \in T : x <= y
<1>1. PICK x \in T : \A y \in T : ~ (<<y, x>> \in OpToRel(<, Nat))
    BY WFMin, NatLessThanWellFounded
<1>2. \A y \in T : ~ (y < x)
    BY <1>1 DEF OpToRel
<1>3. QED
    BY <1>2

\* A non-empty set of naturals that has a bound has a greatest element, and
\* Max is it.
LEMMA MaxOfNaturals ==
    ASSUME NEW S, S \subseteq Nat, S # {}, NEW n \in Nat, \A x \in S : x <= n
    PROVE  Max(S) \in S /\ \A y \in S : y <= Max(S)
<1> DEFINE T == {n - x : x \in S}
<1>1. T \subseteq Nat /\ T # {}
  <2>1. \A x \in S : n - x \in Nat
      OBVIOUS
  <2>2. QED
      BY <2>1
<1>2. PICK d \in T : \A y \in T : d <= y
    BY <1>1, LeastNatural
<1>3. PICK x \in S : d = n - x
    OBVIOUS
<1>4. \A y \in S : x >= y
    <2> TAKE y \in S
    <2>1. n - y \in T
        OBVIOUS
    <2>2. QED
        BY <1>2, <1>3, <2>1
<1>5. QED
    BY <1>4 DEF Max

\* A finite family has a finite image.
LEMMA FiniteImage ==
    ASSUME NEW v, IsFiniteSet(DOMAIN v)
    PROVE  IsFiniteSet({v[p] : p \in DOMAIN v})
<1> DEFINE R == {v[p] : p \in DOMAIN v}
           g == [p \in DOMAIN v |-> v[p]]
<1>1. g \in Surjection(DOMAIN v, R)
    BY DEF Surjection
<1>2. QED
    BY <1>1, FS_Surjection

-----------------------------------------------------------------------------
\* g tells the sums of the weights w over the subsets of S, the way the folds
\* of the community modules compute them.
SumsOver(g, w, S) ==
    g = [s \in SUBSET S |->
            IF s = {} THEN 0
            ELSE w[CHOOSE x \in s : TRUE] + g[s \ {CHOOSE x \in s : TRUE}]]

LEMMA SumsStep ==
    ASSUME NEW S, NEW w, NEW g, SumsOver(g, w, S), NEW s \in SUBSET S, s # {}
    PROVE  \E x \in s : x = (CHOOSE z \in s : TRUE) /\ g[s] = w[x] + g[s \ {x}]
BY DEF SumsOver

LEMMA SumsEmpty ==
    ASSUME NEW S, NEW w, NEW g, SumsOver(g, w, S)
    PROVE  g[{}] = 0
BY DEF SumsOver

\* Among the finite subsets with a defect there is a least one.
LEMMA LeastSubset ==
    ASSUME NEW S, IsFiniteSet(S), NEW B, B \subseteq SUBSET S, B # {}
    PROVE  \E s \in B : \A t \in SUBSET s : t # s => t \notin B
<1>1. B \subseteq FiniteSubsetsOf(S)
    BY FS_Subset DEF FiniteSubsetsOf
<1>2. PICK s \in B : \A t \in B : ~ (<<t, s>> \in StrictSubsetOrdering(S))
    BY <1>1, WFMin, FS_StrictSubsetOrderingWellFounded
<1>3. QED
    BY <1>2 DEF StrictSubsetOrdering

LEMMA SumsType ==
    ASSUME NEW S, IsFiniteSet(S), NEW w, \A x \in S : w[x] \in Nat,
           NEW g, SumsOver(g, w, S)
    PROVE  \A s \in SUBSET S : g[s] \in Nat
<1> DEFINE B == {s \in SUBSET S : g[s] \notin Nat}
<1>1. SUFFICES ASSUME B # {} PROVE FALSE
    OBVIOUS
<1>2. PICK s \in B : \A t \in SUBSET s : t # s => t \notin B
  <2>1. B \subseteq SUBSET S
      OBVIOUS
  <2> HIDE DEF B
  <2>2. QED
      BY <1>1, <2>1, LeastSubset
<1>3. CASE s = {}
    BY <1>3, SumsEmpty
<1>4. CASE s # {}
  <2>1. PICK x \in s : g[s] = w[x] + g[s \ {x}]
      BY <1>2, <1>4, SumsStep
  <2>2. s \ {x} \notin B /\ s \ {x} \in SUBSET S
      BY <1>2
  <2>3. QED
      BY <1>2, <2>1, <2>2
<1>5. QED
    BY <1>3, <1>4

\* The sum depends on the weights of the set's own elements only.
LEMMA SumsAgree ==
    ASSUME NEW S, IsFiniteSet(S), NEW R, NEW w, NEW v,
           NEW g, SumsOver(g, w, S), NEW h, SumsOver(h, v, R), S \subseteq R,
           \A x \in S : w[x] = v[x]
    PROVE  \A s \in SUBSET S : g[s] = h[s]
<1> DEFINE B == {s \in SUBSET S : g[s] # h[s]}
<1>1. SUFFICES ASSUME B # {} PROVE FALSE
    OBVIOUS
<1>2. PICK s \in B : \A t \in SUBSET s : t # s => t \notin B
  <2>1. B \subseteq SUBSET S
      OBVIOUS
  <2> HIDE DEF B
  <2>2. QED
      BY <1>1, <2>1, LeastSubset
<1>3. CASE s = {}
    BY <1>3, SumsEmpty
<1>4. CASE s # {}
  <2>1. PICK x \in s : x = (CHOOSE z \in s : TRUE) /\ g[s] = w[x] + g[s \ {x}]
      BY <1>2, <1>4, SumsStep
  <2>2. PICK y \in s : y = (CHOOSE z \in s : TRUE) /\ h[s] = v[y] + h[s \ {y}]
      BY <1>2, <1>4, SumsStep
  <2>3. s \ {x} \notin B /\ s \ {x} \in SUBSET S
      BY <1>2
  <2>4. QED
      BY <1>2, <2>1, <2>2, <2>3
<1>5. QED
    BY <1>3, <1>4

\* Any element may be taken first.
LEMMA SumsTakeAny ==
    ASSUME NEW S, IsFiniteSet(S), NEW w, \A x \in S : w[x] \in Nat,
           NEW g, SumsOver(g, w, S), NEW T, T \subseteq S, NEW y \in T, NEW U, U = T \ {y}
    PROVE  g[T] = w[y] + g[U]
<1> DEFINE B == {s \in SUBSET S : \E x \in s : g[s] # w[x] + g[s \ {x}]}
<1>1. SUFFICES ASSUME B # {} PROVE FALSE
    OBVIOUS
<1>2. PICK s \in B : \A t \in SUBSET s : t # s => t \notin B
  <2>1. B \subseteq SUBSET S
      OBVIOUS
  <2> HIDE DEF B
  <2>2. QED
      BY <1>1, <2>1, LeastSubset
<1>3. PICK x \in s : g[s] # w[x] + g[s \ {x}]
    BY <1>2
<1>4. PICK c \in s : c = (CHOOSE z \in s : TRUE) /\ g[s] = w[c] + g[s \ {c}]
    BY <1>2, SumsStep
<1>5. x # c
    BY <1>3, <1>4
<1> DEFINE sc == s \ {c}  sx == s \ {x}  both == (s \ {c}) \ {x}
<1>6. sc \in SUBSET S /\ sx \in SUBSET S /\ both \in SUBSET S /\ both = sx \ {c}
    BY <1>2
<1>7. g[sc] = w[x] + g[both]
  <2>1. sc \notin B /\ x \in sc
      BY <1>2, <1>4, <1>5
  <2>2. QED
      BY <1>6, <2>1
<1>8. g[sx] = w[c] + g[both]
  <2>1. sx \notin B /\ c \in sx
      BY <1>2, <1>3, <1>5
  <2>2. QED
      BY <1>6, <2>1
<1>9. g[both] \in Nat /\ w[x] \in Nat /\ w[c] \in Nat
    BY <1>2, <1>6, SumsType
<1> HIDE DEF sc, sx, both
<1>10. g[s] = w[c] + g[sc] /\ g[s] # w[x] + g[sx]
    BY <1>3, <1>4 DEF sc, sx
<1>11. QED
    BY <1>7, <1>8, <1>9, <1>10

\* The sums exist.
LEMMA SumsExist ==
    ASSUME NEW S, IsFiniteSet(S), NEW w
    PROVE  \E g : SumsOver(g, w, S)
<1> DEFINE B == {R \in SUBSET S : ~ \E g : SumsOver(g, w, R)}
<1>1. SUFFICES ASSUME B # {} PROVE FALSE
    OBVIOUS
<1>2. PICK R \in B : \A t \in SUBSET R : t # R => t \notin B
  <2>1. B \subseteq SUBSET S
      OBVIOUS
  <2> HIDE DEF B
  <2>2. QED
      BY <1>1, <2>1, LeastSubset
<1> DEFINE first(s) == CHOOSE x \in s : TRUE
           rest(s) == s \ {first(s)}
           over(s) == CHOOSE h : SumsOver(h, w, s)
           G == [s \in SUBSET R |->
                   IF s = {} THEN 0 ELSE w[first(s)] + over(rest(s))[rest(s)]]
<1>3. \A s \in SUBSET R : s # {} => first(s) \in s
    OBVIOUS
<1>4. \A t \in SUBSET R : t # R => SumsOver(over(t), w, t)
  <2> TAKE t \in SUBSET R
  <2> HAVE t # R
  <2>1. \E h : SumsOver(h, w, t)
      BY <1>2
  <2>2. QED
      BY <2>1
<1>5. ASSUME NEW s \in SUBSET R, s # {} PROVE G[rest(s)] = over(rest(s))[rest(s)]
  <2> DEFINE t == rest(s)
  <2>1. t \in SUBSET R /\ t # R
      BY <1>3, <1>5
  <2>2. SumsOver(over(t), w, t)
      BY <1>4, <2>1
  <2>3. CASE t = {}
    <3>1. over(t)[t] = 0
        BY <2>2, <2>3, SumsEmpty
    <3>2. G[t] = 0
        BY <2>1, <2>3
    <3>3. QED
        BY <3>1, <3>2
  <2>4. CASE t # {}
    <3> DEFINE u == rest(t)
    <3>1. u \in SUBSET R /\ u # R /\ u \in SUBSET t /\ first(t) \in t
        BY <1>3, <2>1, <2>4
    <3>2. SumsOver(over(u), w, u) /\ IsFiniteSet(u)
        BY <1>2, <1>4, <3>1, FS_Subset
    <3>3. over(t)[u] = over(u)[u]
      <4> HIDE DEF u, t, over
      <4>1. QED
          BY <2>2, <3>1, <3>2, SumsAgree
    <3>4. over(t)[t] = w[first(t)] + over(t)[u]
        BY <2>2, <2>4 DEF SumsOver
    <3>5. G[t] = w[first(t)] + over(u)[u]
        BY <2>1, <2>4
    <3> HIDE DEF u, over, G, first
    <3>6. QED
        BY <3>3, <3>4, <3>5
  <2>5. QED
      BY <2>3, <2>4
<1>6. \A s \in SUBSET R :
         G[s] = IF s = {} THEN 0
                ELSE w[CHOOSE x \in s : TRUE] + G[s \ {CHOOSE x \in s : TRUE}]
  <2> TAKE s \in SUBSET R
  <2>1. CASE s = {}
      BY <2>1
  <2>2. CASE s # {}
    <3>1. G[s] = w[first(s)] + over(rest(s))[rest(s)]
        BY <2>2
    <3>2. G[rest(s)] = over(rest(s))[rest(s)]
        BY <1>5, <2>2
    <3>3. G[s] = w[first(s)] + G[s \ {first(s)}]
      <4> HIDE DEF G, over, first
      <4>1. QED
          BY <3>1, <3>2
    <3> HIDE DEF G
    <3>4. QED
        BY <2>2, <3>3
  <2>3. QED
      BY <2>1, <2>2
<1>7. SumsOver(G, w, R)
  <2>1. G = [s \in SUBSET R |-> G[s]]
      OBVIOUS
  <2> HIDE DEF G
  <2>2. QED
      BY <1>6, <2>1 DEF SumsOver
<1>8. QED
    BY <1>2, <1>7

\* The sum of the values of a function is such a sum over its domain.
LEMMA SumIsOver ==
    ASSUME NEW w, IsFiniteSet(DOMAIN w)
    PROVE  \E g : SumsOver(g, w, DOMAIN w) /\ SumFunction(w) = g[DOMAIN w]
<1> DEFINE Over(g) == g = [s \in SUBSET (DOMAIN w) |->
              IF s = {} THEN 0
              ELSE w[CHOOSE x \in s : TRUE] + g[s \ {CHOOSE x \in s : TRUE}]]
<1>1. \A g : Over(g) <=> SumsOver(g, w, DOMAIN w)
    BY DEF SumsOver
<1>2. SumFunction(w) = (CHOOSE g : Over(g))[DOMAIN w]
    BY DEF SumFunction, SumFunctionOnSet, FoldFunctionOnSet, MapThenFoldSet
<1> HIDE DEF Over
<1>3. \E g : Over(g)
    BY <1>1, SumsExist
<1>4. Over(CHOOSE g : Over(g))
    BY <1>3
<1>5. QED
    BY <1>1, <1>2, <1>4

LEMMA SumType ==
    ASSUME NEW w, IsFiniteSet(DOMAIN w), \A x \in DOMAIN w : w[x] \in Nat
    PROVE  SumFunction(w) \in Nat
<1>1. PICK g : SumsOver(g, w, DOMAIN w) /\ SumFunction(w) = g[DOMAIN w]
    BY SumIsOver
<1>2. \A s \in SUBSET (DOMAIN w) : g[s] \in Nat
    BY <1>1, SumsType
<1>3. QED
    BY <1>1, <1>2

LEMMA SumOfNothing ==
    ASSUME NEW w, DOMAIN w = {}
    PROVE  SumFunction(w) = 0
<1>1. IsFiniteSet(DOMAIN w)
    BY FS_EmptySet
<1>2. PICK g : SumsOver(g, w, DOMAIN w) /\ SumFunction(w) = g[DOMAIN w]
    BY <1>1, SumIsOver
<1>3. QED
    BY <1>2, SumsEmpty

\* One more value adds itself to the sum.
LEMMA SumOfOneMore ==
    ASSUME NEW w, IsFiniteSet(DOMAIN w), NEW x, x \notin DOMAIN w,
           NEW v, DOMAIN v = DOMAIN w \cup {x}, \A s \in DOMAIN w : v[s] = w[s],
           \A s \in DOMAIN v : v[s] \in Nat
    PROVE  SumFunction(v) = v[x] + SumFunction(w)
<1>1. PICK S : S = DOMAIN w
    OBVIOUS
<1>2. PICK R : R = DOMAIN v
    OBVIOUS
<1>3. IsFiniteSet(S) /\ IsFiniteSet(R) /\ S \subseteq R /\ R \ {x} = S
    BY <1>1, <1>2, FS_AddElement
<1>4. PICK g : SumsOver(g, w, S) /\ SumFunction(w) = g[S]
    BY <1>1, SumIsOver
<1>5. PICK h : SumsOver(h, v, R) /\ SumFunction(v) = h[R]
    BY <1>2, <1>3, SumIsOver
<1>6. \A s \in S : w[s] = v[s]
    BY <1>1
<1>7. \A s \in R : v[s] \in Nat
    BY <1>2
<1>8. \A s \in SUBSET S : g[s] = h[s]
    BY <1>3, <1>4, <1>5, <1>6, SumsAgree
<1>9. x \in R
    BY <1>2
<1>10. h[R] = v[x] + h[S]
    BY <1>3, <1>5, <1>7, <1>9, SumsTakeAny
<1>11. QED
    BY <1>3, <1>4, <1>5, <1>8, <1>10

-----------------------------------------------------------------------------
(* Order statistics, the median, rounding. *)

\* How many values lie below x, and at or below it.
Below(v, x) == {p \in DOMAIN v : v[p] < x}
UpTo(v, x) == {p \in DOMAIN v : v[p] <= x}

LEMMA Counts ==
    ASSUME NEW v, IsFiniteSet(DOMAIN v), NEW x
    PROVE  /\ Cardinality(Below(v, x)) \in Nat /\ IsFiniteSet(Below(v, x))
           /\ Cardinality(UpTo(v, x)) \in Nat /\ IsFiniteSet(UpTo(v, x))
           /\ Cardinality(DOMAIN v) \in Nat
<1>1. Below(v, x) \in SUBSET (DOMAIN v) /\ UpTo(v, x) \in SUBSET (DOMAIN v)
    BY DEF Below, UpTo
<1>2. QED
    BY <1>1, FS_Subset, FS_CardinalityType

\* A finite non-empty set of naturals has a bound.
LEMMA FiniteMax ==
    ASSUME NEW S, S \subseteq Nat, S # {}, IsFiniteSet(S)
    PROVE  \E x \in S : \A y \in S : y <= x
<1> DEFINE above(x) == {y \in S : y > x}
           T == {Cardinality(above(x)) : x \in S}
<1>1. \A x \in S : IsFiniteSet(above(x)) /\ Cardinality(above(x)) \in Nat
  <2> TAKE x \in S
  <2>1. above(x) \in SUBSET S
      OBVIOUS
  <2> HIDE DEF above
  <2>2. QED
      BY <2>1, FS_Subset, FS_CardinalityType
<1>2. T \subseteq Nat /\ T # {}
    BY <1>1
<1>3. PICK d \in T : \A e \in T : d <= e
    BY <1>2, LeastNatural
<1>4. PICK x \in S : d = Cardinality(above(x))
    OBVIOUS
<1>5. ASSUME NEW y \in S, ~ (y <= x) PROVE FALSE
  <2>1. above(y) \in SUBSET above(x) /\ y \in above(x) /\ y \notin above(y)
    <3>1. x \in Nat /\ y \in Nat /\ x < y
        BY <1>5
    <3>2. \A z \in S : z > y => z > x
        BY <3>1
    <3>3. above(y) \in SUBSET above(x)
        BY <3>2
    <3>4. y > x /\ ~ (y > y)
        BY <3>1
    <3>5. QED
        BY <3>3, <3>4
  <2>2. Cardinality(above(y)) \in T
      OBVIOUS
  <2>3. d <= Cardinality(above(y))
      BY <1>3, <2>2
  <2>4. IsFiniteSet(above(x)) /\ Cardinality(above(x)) \in Nat /\ Cardinality(above(y)) \in Nat
      BY <1>1, <1>5
  <2> HIDE DEF above
  <2>5. Cardinality(above(y)) <= Cardinality(above(x))
        /\ (Cardinality(above(x)) = Cardinality(above(y)) => above(x) = above(y))
      BY <2>1, <2>4, FS_Subset
  <2>6. QED
      BY <1>4, <2>1, <2>3, <2>4, <2>5
<1>6. QED
    BY <1>5

\* sorted(values)[k - 1] is one of the values, with fewer than k below it and at
\* least k up to it.
LEMMA KthSmallestIs ==
    ASSUME NEW v, IsFiniteSet(DOMAIN v), \A p \in DOMAIN v : v[p] \in Nat,
           NEW k \in Nat, 1 <= k, k <= Cardinality(DOMAIN v)
    PROVE  /\ KthSmallest(v, k) \in Nat
           /\ Cardinality(Below(v, KthSmallest(v, k))) < k
           /\ Cardinality(UpTo(v, KthSmallest(v, k))) >= k
<1> DEFINE R == {v[p] : p \in DOMAIN v}
           T == {x \in R : Cardinality(UpTo(v, x)) >= k}
<1>1. R \subseteq Nat /\ IsFiniteSet(R)
    BY FiniteImage
<1>2. R # {}
  <2>1. DOMAIN v # {}
      BY FS_EmptySet
  <2>2. QED
      BY <2>1
<1>3. T # {}
  <2>1. PICK x \in R : \A y \in R : y <= x
    <3> HIDE DEF R
    <3>1. QED
        BY <1>1, <1>2, FiniteMax
  <2>2. UpTo(v, x) = DOMAIN v
      BY <2>1 DEF UpTo
  <2>3. QED
      BY <2>2
<1>4. PICK x \in T : \A y \in T : x <= y
  <2>1. T \subseteq Nat
      BY <1>1
  <2> HIDE DEF T
  <2>2. QED
      BY <1>3, <2>1, LeastNatural
<1>5. Cardinality(Below(v, x)) < k
  <2>1. CASE Below(v, x) = {}
      BY <2>1, FS_EmptySet
  <2>2. CASE Below(v, x) # {}
    <3> DEFINE W == {y \in R : y < x}
    <3>1. W \subseteq Nat /\ W # {} /\ W \in SUBSET R
        BY <1>1, <2>2 DEF Below
    <3>2. IsFiniteSet(W)
        BY <1>1, <3>1, FS_Subset
    <3>3. PICK z \in W : \A y \in W : y <= z
      <4> HIDE DEF W
      <4>1. QED
          BY <3>1, <3>2, FiniteMax
    <3>4. Below(v, x) = UpTo(v, z)
        BY <1>1, <3>3 DEF Below, UpTo
    <3>5. z \notin T
        BY <1>1, <1>4, <3>3
    <3>6. ~ (Cardinality(UpTo(v, z)) >= k)
        BY <3>5
    <3>7. QED
        BY <3>4, <3>6, Counts
  <2>3. QED
      BY <2>1, <2>2
<1>6. \E y \in R : Cardinality(Below(v, y)) < k /\ Cardinality(UpTo(v, y)) >= k
    BY <1>4, <1>5
<1>7. KthSmallest(v, k) = CHOOSE y \in R : Cardinality(Below(v, y)) < k
                                           /\ Cardinality(UpTo(v, y)) >= k
    BY DEF KthSmallest, Below, UpTo
<1>8. KthSmallest(v, k) \in R /\ Cardinality(Below(v, KthSmallest(v, k))) < k
      /\ Cardinality(UpTo(v, KthSmallest(v, k))) >= k
    BY <1>6, <1>7
<1>9. QED
    BY <1>1, <1>8

\* A later position holds no smaller value.
LEMMA KthSmallestGrows ==
    ASSUME NEW v, IsFiniteSet(DOMAIN v), \A p \in DOMAIN v : v[p] \in Nat,
           NEW j \in Nat, NEW k \in Nat, 1 <= j, j <= k, k <= Cardinality(DOMAIN v)
    PROVE  KthSmallest(v, j) <= KthSmallest(v, k)
<1>1. PICK x \in Nat : /\ x = KthSmallest(v, j) /\ Cardinality(Below(v, x)) < j
    BY KthSmallestIs, FS_CardinalityType
<1>2. PICK y \in Nat : /\ y = KthSmallest(v, k) /\ Cardinality(UpTo(v, y)) >= k
    BY KthSmallestIs, FS_CardinalityType
<1>3. ASSUME y < x PROVE FALSE
  <2>1. UpTo(v, y) \in SUBSET Below(v, x)
      BY <1>3 DEF UpTo, Below
  <2>2. Cardinality(UpTo(v, y)) <= Cardinality(Below(v, x))
      BY <2>1, Counts, FS_Subset
  <2>3. Cardinality(UpTo(v, y)) \in Nat /\ Cardinality(Below(v, x)) \in Nat
      BY Counts
  <2>4. QED
      BY <1>1, <1>2, <2>2, <2>3
<1>4. QED
    BY <1>1, <1>2, <1>3

-----------------------------------------------------------------------------
\* At most half of the values lie above the median.
LEMMA HalfAboveMedian ==
    ASSUME NEW v, IsFiniteSet(DOMAIN v), \A p \in DOMAIN v : v[p] \in Nat
    PROVE  /\ TwiceMedian(v) \in Nat
           /\ 2 * Cardinality({p \in DOMAIN v : 2 * v[p] > TwiceMedian(v)})
                 <= Cardinality(DOMAIN v)
<1>1. PICK n \in Nat : n = Cardinality(DOMAIN v)
    BY FS_CardinalityType
<1>2. CASE n = 0
  <2>1. DOMAIN v = {}
      BY <1>1, <1>2, FS_EmptySet
  <2>2. {p \in DOMAIN v : 2 * v[p] > TwiceMedian(v)} = {}
      BY <2>1
  <2>3. TwiceMedian(v) = 0
      BY <1>1, <1>2 DEF TwiceMedian
  <2>4. QED
      BY <1>1, <1>2, <2>2, <2>3, FS_EmptySet
<1>3. CASE n > 0
  <2>1. PICK lo \in Nat : lo = (n + 1) \div 2 /\ 1 <= lo /\ lo <= n /\ 2 * (n - lo) <= n
      BY <1>3
  <2>2. PICK hi \in Nat : hi = n \div 2 + 1 /\ lo <= hi /\ hi <= n
      BY <1>3, <2>1
  <2>3. PICK x \in Nat : x = KthSmallest(v, lo) /\ Cardinality(UpTo(v, x)) >= lo
      BY <1>1, <2>1, KthSmallestIs
  <2>4. PICK y \in Nat : y = KthSmallest(v, hi)
      BY <1>1, <2>1, <2>2, KthSmallestIs
  <2>5. x <= y
      BY <1>1, <2>1, <2>2, <2>3, <2>4, KthSmallestGrows
  <2>6. TwiceMedian(v) = x + y
      BY <1>1, <1>3, <2>1, <2>2, <2>3, <2>4 DEF TwiceMedian
  <2> DEFINE A == {p \in DOMAIN v : 2 * v[p] > TwiceMedian(v)}
  <2>7. A \in SUBSET (DOMAIN v \ UpTo(v, x))
      BY <2>5, <2>6 DEF UpTo
  <2>8. DOMAIN v \cap UpTo(v, x) = UpTo(v, x)
      BY DEF UpTo
  <2>9. /\ IsFiniteSet(DOMAIN v \ UpTo(v, x))
        /\ Cardinality(DOMAIN v \ UpTo(v, x)) = n - Cardinality(UpTo(v, x))
      BY <1>1, <2>8, FS_Difference
  <2>10. Cardinality(A) <= Cardinality(DOMAIN v \ UpTo(v, x)) /\ Cardinality(A) \in Nat
    <3> HIDE DEF A
    <3>1. QED
        BY <2>7, <2>9, FS_Subset, FS_CardinalityType
  <2>11. 2 * Cardinality(A) <= n
    <3> HIDE DEF A
    <3>1. Cardinality(UpTo(v, x)) \in Nat
        BY Counts
    <3>2. QED
        BY <2>1, <2>3, <2>9, <2>10, <3>1
  <2>12. QED
      BY <1>1, <2>6, <2>11
<1>4. QED
    BY <1>2, <1>3

-----------------------------------------------------------------------------
\* Division by a positive number keeps the order and the sign.
LEMMA DivFacts ==
    ASSUME NEW a \in Int, NEW d \in Nat, d > 0
    PROVE  /\ a \div d \in Int
           /\ d * (a \div d) <= a /\ a < d * (a \div d) + d
OBVIOUS

LEMMA DivMonotone ==
    ASSUME NEW a \in Int, NEW b \in Int, a <= b, NEW d \in Nat, d > 0
    PROVE  a \div d <= b \div d
<1>1. PICK q \in Int : q = a \div d /\ d * q <= a
    BY DivFacts
<1>2. PICK r \in Int : r = b \div d /\ b < d * r + d
    BY DivFacts
<1>3. ASSUME r < q PROVE FALSE
  <2>1. PICK e \in Nat : q = r + 1 + e
    <3>1. q - r - 1 \in Nat /\ q = r + 1 + (q - r - 1)
        BY <1>3
    <3>2. QED
        BY <3>1
  <2>2. d * q = d * r + d + d * e
      BY <2>1
  <2>3. d * e >= 0
      OBVIOUS
  <2>4. d * q \in Int /\ d * r \in Int /\ d * e \in Int
      OBVIOUS
  <2>5. QED
      BY <1>1, <1>2, <2>2, <2>3, <2>4
<1>4. QED
    BY <1>1, <1>2, <1>3

\* Rounding keeps the order, and a negative number never rounds to a positive one.
LEMMA RoundedMonotone ==
    ASSUME NEW a \in Int, NEW b \in Int, a <= b, NEW d \in Nat, d > 0
    PROVE  Rounded(a, d) \in Int /\ Rounded(a, d) <= Rounded(b, d)
<1>1. 2 * a + d \in Int /\ 2 * b + d \in Int /\ 2 * a + d <= 2 * b + d
      /\ 2 * d \in Nat /\ 2 * d > 0
    OBVIOUS
<1>2. QED
    BY <1>1, DivMonotone, DivFacts DEF Rounded

LEMMA RoundedSign ==
    ASSUME NEW a \in Int, a <= 0, NEW d \in Nat, d > 0
    PROVE  Rounded(a, d) <= 0
<1>1. Rounded(a, d) \in Int /\ Rounded(a, d) <= Rounded(0, d)
    BY RoundedMonotone
<1>2. Rounded(0, d) = d \div (2 * d)
    BY DEF Rounded
<1>3. PICK q \in Int : q = d \div (2 * d) /\ (2 * d) * q <= d
    BY DivFacts
<1>4. q <= 0
  <2>1. ASSUME q >= 1 PROVE FALSE
    <3>1. PICK e \in Nat : q = 1 + e
      <4>1. q - 1 \in Nat /\ q = 1 + (q - 1)
          BY <2>1
      <4>2. QED
          BY <4>1
    <3>2. (2 * d) * q = 2 * d + 2 * (d * e)
        BY <3>1
    <3>3. d * e >= 0 /\ d * e \in Int
        OBVIOUS
    <3>4. QED
        BY <1>3, <3>2, <3>3
  <2>2. QED
      BY <2>1
<1>5. QED
    BY <1>1, <1>2, <1>3, <1>4

-----------------------------------------------------------------------------
(* What the sources hold, and what the tests observe of it. *)

\* The inductive part of the type invariant: what the sources hold.  All the
\* rest is computed from it.
Sources ==
    /\ signals \in Seq(Signal[frame]) /\ Len(signals) <= MaxSignals[frame]
    /\ frame \in Frames /\ policy \in Policies
    /\ granted \subseteq Subject \X Channel

LEMMA SourcesInvariant == Spec => []Sources
<1>1. Init => Sources
    BY MaxSignalsAssumption DEF Init, Sources
<1>2. Sources /\ [Next]_vars => Sources'
  <2> SUFFICES ASSUME Sources, [Next]_vars PROVE Sources'
      OBVIOUS
  <2>1. CASE UNCHANGED vars
      BY <2>1 DEF Sources, vars
  <2>2. ASSUME NEW s \in Signal[frame], Observe(s) PROVE Sources'
    <3>1. MaxSignals[frame] \in Nat
        BY MaxSignalsAssumption DEF Sources
    <3>2. signals' \in Seq(Signal[frame]) /\ Len(signals') = Len(signals) + 1
        BY <2>2 DEF Sources, Observe
    <3>3. QED
        BY <2>2, <3>1, <3>2 DEF Sources, Observe
  <2>3. QED
      BY <2>1, <2>2 DEF Next
<1>3. QED
    BY <1>1, <1>2, PTL DEF Spec

LEMMA SourcesAre ==
    ASSUME Sources
    PROVE  /\ DOMAIN signals = 1..Len(signals) /\ Len(signals) \in Nat
           /\ IsFiniteSet(DOMAIN signals)
           /\ Len(signals) <= MaxSignals[frame] /\ MaxSignals[frame] \in Nat
           /\ \A i \in DOMAIN signals : signals[i] \in SignalType
           /\ DOMAIN frame \subseteq Product /\ IsFiniteSet(DOMAIN frame)
           /\ \A p \in DOMAIN frame : frame[p] \in ProfileType
           /\ DOMAIN policy \subseteq Family
           /\ \A f \in DOMAIN policy : policy[f] \in ThresholdType
<1>1. DOMAIN signals = 1..Len(signals) /\ Len(signals) \in Nat
    BY DEF Sources
<1>2. IsFiniteSet(DOMAIN signals)
    BY <1>1, FS_Interval
<1>3. MaxSignals[frame] \in Nat
    BY MaxSignalsAssumption DEF Sources
<1>4. \A i \in DOMAIN signals : signals[i] \in SignalType
    BY SignalAssumption DEF Sources
<1>5. QED
    BY <1>1, <1>2, <1>3, <1>4, FramesAssumption, PoliciesAssumption DEF Sources

LEMMA AboutIsFinite ==
    ASSUME Sources, NEW p
    PROVE  /\ IsFiniteSet(About(p)) /\ About(p) \in SUBSET (DOMAIN signals)
           /\ IsFiniteSet(OffTarget(p)) /\ OffTarget(p) \in SUBSET About(p)
           /\ IsFiniteSet(HarmSignals(p)) /\ HarmSignals(p) \in SUBSET About(p)
<1>1. About(p) \in SUBSET (DOMAIN signals) /\ OffTarget(p) \in SUBSET About(p)
      /\ HarmSignals(p) \in SUBSET About(p)
    BY DEF About, OffTarget, HarmSignals, OfKind
<1>2. QED
    BY <1>1, SourcesAre, FS_Subset

-----------------------------------------------------------------------------
\* What each test observes is a number.
LEMMA WeightType ==
    ASSUME NEW s \in SignalType, s.kind \in DOMAIN HarmWeight
    PROVE  HarmWeight[s.kind] * s.value \in Nat
<1>1. HarmWeight \in [{"complaint", "conduct_flag", "qa_failure"} -> Nat]
    BY DEF HarmWeight
<1>2. HarmWeight[s.kind] \in Nat
    BY <1>1
<1>3. s.value \in Nat
    BY DEF SignalType
<1>4. QED
    BY <1>2, <1>3

LEMMA HarmType ==
    ASSUME Sources, NEW p
    PROVE  HarmScore(p) \in Nat
<1> DEFINE w == [i \in HarmSignals(p) |-> HarmWeight[signals[i].kind] * signals[i].value]
<1>1. \A i \in HarmSignals(p) : signals[i] \in SignalType /\ signals[i].kind \in DOMAIN HarmWeight
    BY SourcesAre, AboutIsFinite DEF HarmSignals, OfKind
<1>2. \A i \in DOMAIN w : w[i] \in Nat
    BY <1>1, WeightType
<1>3. IsFiniteSet(DOMAIN w)
    BY AboutIsFinite
<1>4. HarmScore(p) = SumFunction(w)
    BY DEF HarmScore
<1> HIDE DEF w
<1>5. QED
    BY <1>2, <1>3, <1>4, SumType

LEMMA DriftType ==
    ASSUME Sources, NEW p
    PROVE  Drift(p) \in Int
<1>1. CASE About(p) = {}
    BY <1>1 DEF Drift
<1>2. CASE About(p) # {}
  <2>1. PICK n \in Nat : n = Cardinality(About(p)) /\ n > 0
      BY <1>2, AboutIsFinite, FS_CardinalityType, FS_EmptySet
  <2>2. PICK k \in Nat : k = Cardinality(OffTarget(p))
      BY AboutIsFinite, FS_CardinalityType
  <2>3. Micro * k \in Int
      BY DEF Micro
  <2>4. Rounded(Micro * k, n) \in Int
      BY <2>1, <2>3, RoundedMonotone
  <2>5. QED
      BY <1>2, <2>1, <2>2, <2>4 DEF Drift
<1>3. QED
    BY <1>1, <1>2

\* The two ends of the price test: the ratios, and their distances to the median.
Spread == [q \in DOMAIN frame |-> Distance(2 * frame[q].ratio, TwiceMedian(Ratios))]

LEMMA MediansType ==
    ASSUME Sources
    PROVE  /\ \A p \in DOMAIN frame : frame[p].ratio \in Nat
           /\ TwiceMedian(Ratios) \in Nat /\ TwiceMedian(Spread) \in Nat
<1>1. \A p \in DOMAIN frame : frame[p].ratio \in Nat
    BY SourcesAre DEF ProfileType
<1>2. IsFiniteSet(DOMAIN frame)
    BY SourcesAre
<1>3. DOMAIN Ratios = DOMAIN frame /\ \A p \in DOMAIN Ratios : Ratios[p] \in Nat
    BY <1>1 DEF Ratios
<1>4. TwiceMedian(Ratios) \in Nat
    BY <1>2, <1>3, HalfAboveMedian
<1>5. DOMAIN Spread = DOMAIN frame /\ \A p \in DOMAIN Spread : Spread[p] \in Nat
    BY <1>1, <1>4 DEF Spread, Distance
<1>6. TwiceMedian(Spread) \in Nat
    BY <1>2, <1>5, HalfAboveMedian
<1>7. QED
    BY <1>1, <1>4, <1>6

\* The score of a product as a function of its distance above the median.
LEMMA PriceZIs ==
    ASSUME Sources, NEW p \in DOMAIN frame, NEW m2, m2 = TwiceMedian(Ratios),
           NEW mad4, mad4 = TwiceMedian(Spread)
    PROVE  /\ 2 * frame[p].ratio - m2 \in Int
           /\ mad4 > 0 =>
                 PriceZ(p) = Rounded(674500 * 2 * (2 * frame[p].ratio - m2), mad4)
           /\ mad4 = 0 =>
                 PriceZ(p) = IF 2 * frame[p].ratio - m2 = 0 THEN 0
                             ELSE IF 2 * frame[p].ratio - m2 > 0 THEN 999 * Micro
                             ELSE -999 * Micro
<1>1. m2 \in Nat /\ mad4 \in Nat /\ frame[p].ratio \in Nat
    BY MediansType
<1>2. PriceZ(p) = IF mad4 > 0 THEN Rounded(674500 * 2 * (2 * frame[p].ratio - m2), mad4)
                  ELSE IF 2 * frame[p].ratio - m2 = 0 THEN 0
                  ELSE IF 2 * frame[p].ratio - m2 > 0 THEN 999 * Micro ELSE -999 * Micro
    BY DEF PriceZ, Spread
<1>3. QED
    BY <1>1, <1>2

LEMMA PriceFacts ==
    ASSUME Sources, NEW p \in DOMAIN frame
    PROVE  /\ PriceZ(p) \in Int
           /\ PriceZ(p) > 0 => 2 * frame[p].ratio > TwiceMedian(Ratios)
           /\ \A q \in DOMAIN frame :
                 frame[p].ratio >= frame[q].ratio => PriceZ(p) >= PriceZ(q)
<1>1. PICK m2 \in Nat : m2 = TwiceMedian(Ratios)
    BY MediansType
<1>2. PICK mad4 \in Nat : mad4 = TwiceMedian(Spread)
    BY MediansType
<1>3. \A q \in DOMAIN frame : frame[q].ratio \in Nat
    BY MediansType
<1>4. CASE mad4 > 0
  <2> DEFINE scaled(q) == 674500 * 2 * (2 * frame[q].ratio - m2)
  <2>1. \A q \in DOMAIN frame : PriceZ(q) = Rounded(scaled(q), mad4)
      BY <1>1, <1>2, <1>4, PriceZIs
  <2>2. \A q \in DOMAIN frame : scaled(q) \in Int
      BY <1>3
  <2>3. \A q \in DOMAIN frame : PriceZ(q) \in Int
      BY <1>4, <2>1, <2>2, RoundedMonotone
  <2>4. ~ (2 * frame[p].ratio > m2) => scaled(p) <= 0
      BY <1>3
  <2>5. \A q \in DOMAIN frame : frame[p].ratio >= frame[q].ratio => scaled(q) <= scaled(p)
      BY <1>3
  <2> HIDE DEF scaled
  <2>6. ~ (2 * frame[p].ratio > m2) => ~ (PriceZ(p) > 0)
      BY <1>4, <2>1, <2>2, <2>3, <2>4, RoundedSign
  <2>7. ASSUME NEW q \in DOMAIN frame, frame[p].ratio >= frame[q].ratio
        PROVE  PriceZ(p) >= PriceZ(q)
      BY <1>4, <2>1, <2>2, <2>3, <2>5, <2>7, RoundedMonotone
  <2>8. QED
      BY <1>1, <2>3, <2>6, <2>7
<1>5. CASE mad4 = 0
  <2>1. \A q \in DOMAIN frame :
           PriceZ(q) = IF 2 * frame[q].ratio - m2 = 0 THEN 0
                       ELSE IF 2 * frame[q].ratio - m2 > 0 THEN 999 * Micro
                       ELSE -999 * Micro
      BY <1>1, <1>2, <1>5, PriceZIs
  <2>2. QED
      BY <1>1, <1>3, <2>1 DEF Micro
<1>6. QED
    BY <1>4, <1>5

-----------------------------------------------------------------------------
\* The customers a set of signals names.
LEMMA SubjectsAreFinite ==
    ASSUME Sources, NEW at \in SUBSET (DOMAIN signals)
    PROVE  IsFiniteSet(Subjects(at))
<1> DEFINE v == [i \in at |-> signals[i].subject]
<1>1. IsFiniteSet(at)
    BY SourcesAre, FS_Subset
<1>2. IsFiniteSet({v[i] : i \in DOMAIN v})
  <2>1. IsFiniteSet(DOMAIN v)
      BY <1>1
  <2> HIDE DEF v
  <2>2. QED
      BY <2>1, FiniteImage
<1>3. Subjects(at) \in SUBSET {v[i] : i \in DOMAIN v}
    BY DEF Subjects
<1>4. QED
    BY <1>2, <1>3, FS_Subset

LEMMA MishandledIsFinite ==
    ASSUME Sources, NEW p
    PROVE  IsFiniteSet(Mishandled(p)) /\ Cardinality(Mishandled(p)) \in Nat
<1>1. OfKind({"vulnerability_cue"}, About(p)) \in SUBSET (DOMAIN signals)
    BY DEF OfKind, About
<1>2. IsFiniteSet(Vulnerable(p))
    BY <1>1, SubjectsAreFinite DEF Vulnerable
<1>3. Mishandled(p) \in SUBSET Vulnerable(p)
    BY DEF Mishandled
<1>4. QED
    BY <1>2, <1>3, FS_Subset, FS_CardinalityType

LEMMA ObservedType ==
    ASSUME Sources, NEW f \in Family, NEW p \in DOMAIN frame
    PROVE  Observed(f, p) \in Int
<1>1. HarmScore(p) \in Int /\ Drift(p) \in Int /\ PriceZ(p) \in Int
      /\ Micro * Cardinality(Mishandled(p)) \in Int
    BY HarmType, DriftType, PriceFacts, MishandledIsFinite DEF Micro
<1>2. QED
    BY <1>1 DEF Observed, Family

LEMMA OutcomeType ==
    ASSUME Sources, NEW f \in Family, NEW p
    PROVE  /\ OutcomeOf(f, p) \in Outcome
           /\ SeverityOf(f, p) \in Severity
           /\ OutcomeOf(f, p) = "gap" <=> f \notin DOMAIN policy
           /\ Contributing(f, p) \subseteq DOMAIN signals
<1>1. OutcomeOf(f, p) \in Outcome /\ (OutcomeOf(f, p) = "gap" <=> f \notin DOMAIN policy)
    BY DEF OutcomeOf, Outcome
<1>2. SeverityOf(f, p) \in Severity
  <2>1. f \in DOMAIN policy => policy[f].severity \in Severity
      BY SourcesAre DEF ThresholdType
  <2>2. QED
      BY <1>1, <2>1 DEF SeverityOf, Severity, Outcome
<1>3. Contributing(f, p) \subseteq DOMAIN signals
    BY DEF Contributing, Family, HarmSignals, OffTarget, OfKind, About
<1>4. QED
    BY <1>1, <1>2, <1>3

\* The worst severity exists, and its rank is the highest of the breaching ones.
LEMMA WorstIs ==
    ASSUME Sources
    PROVE  /\ WorstSeverity \in Severity
           /\ \A t \in Breaching : Rank[SeverityOf(t[1], t[2])] <= Rank[WorstSeverity]
<1>1. \A t \in Breaching : SeverityOf(t[1], t[2]) \in Severity
    BY OutcomeType DEF Breaching, Tests
<1>2. \A v \in Severity : Rank[v] \in 0..3
    BY DEF Severity, Rank
<1>3. BreachingRanks \subseteq {Rank[v] : v \in Severity} /\ BreachingRanks # {}
    BY <1>1 DEF BreachingRanks, Severity
<1>4. BreachingRanks \subseteq Nat /\ \A r \in BreachingRanks : r <= 3
    BY <1>2, <1>3
<1>5. Max(BreachingRanks) \in BreachingRanks /\ \A r \in BreachingRanks : r <= Max(BreachingRanks)
    BY <1>3, <1>4, MaxOfNaturals
<1>6. \E v \in Severity : Rank[v] = Max(BreachingRanks)
    BY <1>3, <1>5
<1>7. WorstSeverity \in Severity /\ Rank[WorstSeverity] = Max(BreachingRanks)
    BY <1>6 DEF WorstSeverity
<1>8. \A t \in Breaching : Rank[SeverityOf(t[1], t[2])] \in BreachingRanks
    BY DEF BreachingRanks
<1>9. QED
    BY <1>5, <1>7, <1>8

-----------------------------------------------------------------------------
(* The theorems. *)

\* The feed, the frame and the pack have their types, and so has everything
\* computed from them: every test of every product observes a number, cites
\* signals of the feed, and the worst severity is one.
THEOREM TypeCorrect == Spec => []TypeOK
<1>1. Sources => TypeOK
  <2> SUFFICES ASSUME Sources PROVE TypeOK
      OBVIOUS
  <2>1. ASSUME NEW t \in Tests PROVE Results[t] \in ResultType
    <3>1. t[1] \in Family /\ t[2] \in DOMAIN frame
        BY DEF Tests
    <3>2. Observed(t[1], t[2]) \in Int
        BY <3>1, ObservedType
    <3>3. OutcomeOf(t[1], t[2]) \in Outcome /\ SeverityOf(t[1], t[2]) \in Severity
          /\ Contributing(t[1], t[2]) \subseteq DOMAIN signals
        BY <3>1, OutcomeType
    <3>4. DOMAIN signals \subseteq 1..MaxSignals[frame]
        BY SourcesAre
    <3>5. QED
        BY <3>2, <3>3, <3>4 DEF Results, ResultType
  <2>2. Results \in [Tests -> ResultType]
      BY <2>1 DEF Results
  <2>3. WorstSeverity \in Severity
      BY WorstIs
  <2>4. QED
      BY <2>2, <2>3 DEF Sources, TypeOK
<1>2. QED
    BY <1>1, SourcesInvariant, PTL

\* A pack that leaves a family out never reads as a clean bill: whatever the
\* frame and the signals, the assessment requires review, at HIGH at least.
THEOREM UnmeasuredEscalates == Spec => []UnmeasuredIsNeverGood
<1>1. Sources => UnmeasuredIsNeverGood
  <2> SUFFICES ASSUME Sources, DOMAIN policy # Family, DOMAIN frame # {}
               PROVE  RequiresReview /\ Rank[WorstSeverity] >= Rank["high"]
      BY DEF UnmeasuredIsNeverGood
  <2>1. PICK f \in Family : f \notin DOMAIN policy
      BY SourcesAre
  <2>2. PICK p \in DOMAIN frame : TRUE
      OBVIOUS
  <2>3. OutcomeOf(f, p) = "gap" /\ SeverityOf(f, p) = "high"
      BY <2>1 DEF OutcomeOf, SeverityOf
  <2>4. <<f, p>> \in Breaching
      BY <2>3 DEF Breaching, Tests
  <2>5. Rank["high"] <= Rank[WorstSeverity]
      BY <2>3, <2>4, WorstIs
  <2>6. Rank["high"] \in Int /\ Rank[WorstSeverity] \in Int
      BY WorstIs DEF Rank, Severity
  <2>7. QED
      BY <2>4, <2>5, <2>6 DEF RequiresReview
<1>2. QED
    BY <1>1, SourcesInvariant, PTL

\* The price test singles out outliers, never a majority, and orders the products
\* as their fee-per-value ratios do, for any product set (_median, _mad,
\* _robust_z).
THEOREM OutliersAreFew == Spec => []FewProductsStandOut
<1>1. Sources => FewProductsStandOut
  <2> SUFFICES ASSUME Sources PROVE FewProductsStandOut
      OBVIOUS
  <2> DEFINE dear == {p \in DOMAIN frame : PriceZ(p) > 0}
             above == {p \in DOMAIN frame : 2 * frame[p].ratio > TwiceMedian(Ratios)}
  <2>1. dear \in SUBSET above /\ above \in SUBSET (DOMAIN frame)
      BY PriceFacts
  <2>2. IsFiniteSet(DOMAIN frame) /\ \A p \in DOMAIN frame : frame[p].ratio \in Nat
      BY SourcesAre, MediansType
  <2>3. 2 * Cardinality(above) <= Cardinality(DOMAIN frame)
    <3>1. DOMAIN Ratios = DOMAIN frame /\ \A p \in DOMAIN Ratios : Ratios[p] = frame[p].ratio
        BY DEF Ratios
    <3>2. above = {p \in DOMAIN Ratios : 2 * Ratios[p] > TwiceMedian(Ratios)}
      <4>1. PICK m2 : m2 = TwiceMedian(Ratios)
          OBVIOUS
      <4>2. above = {p \in DOMAIN Ratios : 2 * Ratios[p] > m2}
          BY <3>1, <4>1
      <4>3. QED
          BY <4>1, <4>2
    <3>3. 2 * Cardinality({p \in DOMAIN Ratios : 2 * Ratios[p] > TwiceMedian(Ratios)})
             <= Cardinality(DOMAIN Ratios)
        BY <2>2, <3>1, HalfAboveMedian
    <3> HIDE DEF above
    <3>4. QED
        BY <3>1, <3>2, <3>3
  <2>4. 2 * Cardinality(dear) <= Cardinality(DOMAIN frame)
    <3> HIDE DEF above, dear
    <3>1. IsFiniteSet(above) /\ IsFiniteSet(dear) /\ Cardinality(dear) <= Cardinality(above)
        BY <2>1, <2>2, FS_Subset
    <3>2. Cardinality(above) \in Nat /\ Cardinality(dear) \in Nat
          /\ Cardinality(DOMAIN frame) \in Nat
        BY <2>2, <3>1, FS_CardinalityType
    <3>3. QED
        BY <2>3, <3>1, <3>2
  <2>5. QED
      BY <2>4, PriceFacts DEF FewProductsStandOut
<1>2. QED
    BY <1>1, SourcesInvariant, PTL

\* The channel the consent store is asked about is a channel.
LEMMA ChannelAskedType ==
    ASSUME Sources, NEW x
    PROVE  ChannelAsked(x) \in Channel
<1>1. CASE ContactsOf(x) = {}
    BY <1>1, SignalAssumption DEF ChannelAsked
<1>2. CASE ContactsOf(x) # {}
  <2>1. ContactsOf(x) \subseteq Nat /\ \A i \in ContactsOf(x) : i <= Len(signals)
    <3>1. ContactsOf(x) \subseteq DOMAIN signals
        BY DEF ContactsOf, OfKind
    <3>2. DOMAIN signals = 1..Len(signals) /\ Len(signals) \in Nat
        BY SourcesAre
    <3>3. QED
        BY <3>1, <3>2
  <2>2. Len(signals) \in Nat
      BY SourcesAre
  <2>3. Max(ContactsOf(x)) \in ContactsOf(x)
      BY <1>2, <2>1, <2>2, MaxOfNaturals
  <2>4. PICK i \in DOMAIN signals : i = Max(ContactsOf(x)) /\ signals[i].channel # ""
      BY <2>3 DEF ContactsOf, OfKind
  <2>5. signals[i] \in SignalType
      BY SourcesAre
  <2>6. signals[i].channel \in Channel
      BY <2>4, <2>5 DEF SignalType
  <2>7. QED
      BY <1>2, <2>4, <2>6 DEF ChannelAsked
<1>3. QED
    BY <1>1, <1>2

\* Whatever the channels and the order of the contacts, a vulnerable customer who
\* was contacted and granted nothing is counted, and one who granted everything
\* is not (_consent_denied_subjects, _vulnerable_customer).
THEOREM ConsentIsFailClosed == Spec => []ConsentFailsClosed
<1>1. Sources => ConsentFailsClosed
  <2> SUFFICES ASSUME Sources, NEW p \in DOMAIN frame,
                      NEW x \in Vulnerable(p) \cap Contacted(p)
               PROVE  /\ (\A ch \in Channel : <<x, ch>> \notin granted) => x \in Mishandled(p)
                      /\ (\A ch \in Channel : <<x, ch>> \in granted) => x \notin Mishandled(p)
      BY DEF ConsentFailsClosed
  <2>1. x \in Subjects(OfKind({"vulnerability_cue"}, DOMAIN signals))
      BY DEF Vulnerable, Subjects, OfKind, About
  <2>2. x \in ConsentDenied <=> <<x, ChannelAsked(x)>> \notin granted
      BY <2>1 DEF ConsentDenied
  <2>3. ChannelAsked(x) \in Channel
      BY ChannelAskedType
  <2>4. x \in Mishandled(p) <=> x \in ConsentDenied
      BY DEF Mishandled
  <2>5. QED
      BY <2>2, <2>3, <2>4
<1>2. QED
    BY <1>1, SourcesInvariant, PTL

-----------------------------------------------------------------------------
\* What one more signal does to the signals about a product.
LEMMA AboutAfter ==
    ASSUME Sources, NEW s \in Signal[frame], Observe(s), NEW p
    PROVE  /\ Len(signals') = Len(signals) + 1 /\ signals'[Len(signals')] = s
           /\ DOMAIN signals' = DOMAIN signals \cup {Len(signals')}
           /\ Len(signals') \notin DOMAIN signals
           /\ \A i \in DOMAIN signals : signals'[i] = signals[i]
           /\ (About(p))' = IF s.product = p THEN About(p) \cup {Len(signals')} ELSE About(p)
<1>1. /\ Len(signals') = Len(signals) + 1 /\ signals'[Len(signals')] = s
      /\ DOMAIN signals' = DOMAIN signals \cup {Len(signals')}
      /\ Len(signals') \notin DOMAIN signals
      /\ \A i \in DOMAIN signals : signals'[i] = signals[i]
    BY DEF Observe, Sources
<1>2. QED
    BY <1>1 DEF About

LEMMA HarmStep ==
    ASSUME Sources, [Next]_vars, NEW p
    PROVE  (HarmScore(p))' \in Nat /\ (HarmScore(p))' >= HarmScore(p)
<1>1. HarmScore(p) \in Nat
    BY HarmType
<1>2. CASE UNCHANGED vars
  <2>1. (HarmScore(p))' = HarmScore(p)
      BY <1>2 DEF HarmScore, HarmSignals, OfKind, About, vars
  <2>2. QED
      BY <1>1, <2>1
<1>3. ASSUME NEW s \in Signal[frame], Observe(s)
      PROVE  (HarmScore(p))' \in Nat /\ (HarmScore(p))' >= HarmScore(p)
  <2>1. PICK n : n = Len(signals')
      OBVIOUS
  <2>2. PICK H : H = HarmSignals(p)
      OBVIOUS
  <2>3. PICK K : K = (HarmSignals(p))'
      OBVIOUS
  <2> DEFINE w == [i \in H |-> HarmWeight[signals[i].kind] * signals[i].value]
             v == [i \in K |-> HarmWeight[signals'[i].kind] * signals'[i].value]
  <2>4. SumFunction(w) = HarmScore(p)
      BY <2>2 DEF HarmScore
  <2>5. SumFunction(v) = (HarmScore(p))'
      BY <2>3 DEF HarmScore
  <2>6. IsFiniteSet(H) /\ H \subseteq DOMAIN signals /\ n \notin H
    <3>1. H \subseteq DOMAIN signals /\ IsFiniteSet(H)
        BY <2>2, AboutIsFinite
    <3>2. QED
        BY <1>3, <2>1, <3>1, AboutAfter
  <2>7. K = H \/ (K = H \cup {n} /\ s.kind \in DOMAIN HarmWeight)
    <3>1. /\ signals'[n] = s /\ \A i \in DOMAIN signals : signals'[i] = signals[i]
          /\ (About(p))' = About(p) \/ (About(p))' = About(p) \cup {n}
          /\ About(p) \subseteq DOMAIN signals
        BY <1>3, <2>1, AboutAfter, AboutIsFinite
    <3>2. H = {i \in About(p) : signals[i].kind \in DOMAIN HarmWeight}
        BY <2>2 DEF HarmSignals, OfKind
    <3>3. K = {i \in (About(p))' : signals'[i].kind \in DOMAIN HarmWeight}
        BY <2>3 DEF HarmSignals, OfKind
    <3>4. QED
        BY <3>1, <3>2, <3>3
  <2>8. \A i \in H : v[i] = w[i] /\ w[i] \in Nat
    <3>1. \A i \in H : signals[i] \in SignalType /\ signals[i].kind \in DOMAIN HarmWeight
          /\ signals'[i] = signals[i]
        BY <1>3, <2>2, <2>6, SourcesAre, AboutAfter DEF HarmSignals, OfKind
    <3>2. \A i \in H : w[i] \in Nat
        BY <3>1, WeightType
    <3>3. QED
        BY <2>7, <3>1, <3>2
  <2>9. CASE K = H
    <3>1. v = w
        BY <2>8, <2>9
    <3>2. QED
        BY <1>1, <2>4, <2>5, <3>1
  <2>10. CASE K = H \cup {n} /\ s.kind \in DOMAIN HarmWeight
    <3>1. v[n] \in Nat
      <4>1. s \in SignalType /\ signals'[n] = s
          BY <1>3, <2>1, SignalAssumption, AboutAfter DEF Sources
      <4>2. HarmWeight[s.kind] * s.value \in Nat
          BY <2>10, <4>1, WeightType
      <4>3. QED
          BY <2>10, <4>1, <4>2
    <3>2. DOMAIN w = H /\ DOMAIN v = H \cup {n}
        BY <2>10
    <3> HIDE DEF v, w
    <3>3. SumFunction(v) = v[n] + SumFunction(w)
        BY <2>6, <2>8, <3>1, <3>2, SumOfOneMore
    <3>4. QED
        BY <1>1, <2>4, <2>5, <3>1, <3>3
  <2>11. QED
      BY <2>7, <2>9, <2>10
<1>4. QED
    BY <1>2, <1>3 DEF Next

\* More evidence of harm never clears a product: no step lowers a harm score or
\* turns a harm breach back into a pass (_foreseeable_harm, _verdict).
THEOREM HarmOnlyGrows == Spec => HarmAccumulates
<1>1. ASSUME Sources, [Next]_vars, NEW p \in DOMAIN frame
      PROVE  /\ HarmScore(p)' >= HarmScore(p)
             /\ OutcomeOf("foreseeable_harm", p) = "breach"
                  => OutcomeOf("foreseeable_harm", p)' = "breach"
  <2>1. PICK a \in Nat : a = HarmScore(p)
      BY <1>1, HarmType
  <2>2. PICK b \in Nat : b = HarmScore(p)' /\ b >= a
      BY <1>1, <2>1, HarmStep
  <2>3. policy' = policy
      BY <1>1 DEF Next, Observe, vars
  <2>4. ASSUME OutcomeOf("foreseeable_harm", p) = "breach"
        PROVE  OutcomeOf("foreseeable_harm", p)' = "breach"
    <3>1. "foreseeable_harm" \in DOMAIN policy /\ a >= policy["foreseeable_harm"].threshold
        BY <2>1, <2>4 DEF OutcomeOf, Observed
    <3>2. policy["foreseeable_harm"].threshold \in Int
        BY <1>1, <3>1, SourcesAre DEF ThresholdType
    <3>3. b >= policy["foreseeable_harm"].threshold
        BY <2>1, <2>2, <3>1, <3>2
    <3>4. QED
        BY <2>2, <2>3, <3>1, <3>3 DEF OutcomeOf, Observed
  <2>5. QED
      BY <2>1, <2>2, <2>4
<1>2. Sources /\ [Next]_vars =>
         [\A p \in DOMAIN frame :
            /\ HarmScore(p)' >= HarmScore(p)
            /\ OutcomeOf("foreseeable_harm", p) = "breach"
                 => OutcomeOf("foreseeable_harm", p)' = "breach"]_vars
    BY <1>1
<1>3. QED
    BY <1>2, SourcesInvariant, PTL DEF Spec, HarmAccumulates

\* A product's harm, drift and price results are computed from the signals about
\* it: evidence about any other product, of the frame or not, moves none of them
\* (_signals_by_product).
THEOREM EvidenceStays == Spec => EvidenceStaysWithItsProduct
<1>1. ASSUME Sources, [Next]_vars, vars' # vars, NEW p \in DOMAIN frame,
             signals'[Len(signals')].product # p,
             NEW f \in Family \ {"vulnerable_customer"}
      PROVE  Observed(f, p)' = Observed(f, p)
  <2>1. PICK s \in Signal[frame] : Observe(s)
      BY <1>1 DEF Next
  <2>2. (About(p))' = About(p) /\ \A i \in About(p) : signals'[i] = signals[i]
    <3>1. (About(p))' = About(p)
        BY <1>1, <2>1, AboutAfter
    <3>2. QED
        BY <1>1, <2>1, <3>1, AboutAfter, AboutIsFinite
  <2>3. frame' = frame
      BY <2>1 DEF Observe
  <2>4. HarmScore(p)' = HarmScore(p)
    <3>1. (HarmSignals(p))' = HarmSignals(p) /\ HarmSignals(p) \subseteq About(p)
        BY <2>2 DEF HarmSignals, OfKind
    <3>2. [i \in (HarmSignals(p))' |-> HarmWeight[signals'[i].kind] * signals'[i].value]
          = [i \in HarmSignals(p) |-> HarmWeight[signals[i].kind] * signals[i].value]
        BY <2>2, <3>1
    <3>3. QED
        BY <3>2 DEF HarmScore
  <2>5. Drift(p)' = Drift(p)
    <3>1. (OffTarget(p))' = OffTarget(p)
        BY <2>2, <2>3 DEF OffTarget
    <3>2. QED
        BY <2>2, <3>1 DEF Drift
  <2>6. PriceZ(p)' = PriceZ(p)
      BY <2>3 DEF PriceZ, Ratios, TwiceMedian, KthSmallest
  <2>7. QED
      BY <1>1, <2>4, <2>5, <2>6 DEF Observed, Family
<1>2. Sources /\ [Next]_vars =>
         [\A p \in DOMAIN frame :
            signals'[Len(signals')].product # p =>
               \A f \in Family \ {"vulnerable_customer"} :
                   Observed(f, p)' = Observed(f, p)]_vars
    BY <1>1
<1>3. QED
    BY <1>2, SourcesInvariant, PTL DEF Spec, EvidenceStaysWithItsProduct

\* The findings of one family, and of a set of families.
FoundIn(fs) == {t \in Breaching : t[1] \in fs}
ThemesOf(fs) == {ThemeOf(f) : f \in fs}

LEMMA DisjointUnion ==
    ASSUME NEW A, IsFiniteSet(A), NEW C, IsFiniteSet(C), A \cap C = {},
           NEW U, U = A \cup C
    PROVE  /\ Cardinality(A) \in Nat /\ Cardinality(C) \in Nat
           /\ Cardinality(U) = Cardinality(A) + Cardinality(C)
<1>1. Cardinality(A) \in Nat /\ Cardinality(C) \in Nat
    BY FS_CardinalityType
<1>2. Cardinality(A \cup C) = Cardinality(A) + Cardinality(C) - Cardinality(A \cap C)
    BY FS_Union
<1>3. Cardinality(A \cap C) = 0
    BY FS_EmptySet
<1>4. Cardinality(U) = Cardinality(A \cup C)
    OBVIOUS
<1>5. QED
    BY <1>1, <1>2, <1>3, <1>4

LEMMA FindingsAreFinite ==
    ASSUME Sources
    PROVE  IsFiniteSet(Family) /\ IsFiniteSet(Breaching)
<1>1. IsFiniteSet(Family)
  <2>1. Family = {"foreseeable_harm"} \cup {"target_market_drift"}
                 \cup {"price_vs_value"} \cup {"vulnerable_customer"}
      BY DEF Family
  <2>2. QED
      BY <2>1, FS_Singleton, FS_Union
<1>2. IsFiniteSet(Tests)
    BY <1>1, SourcesAre, FS_Product DEF Tests
<1>3. Breaching \in SUBSET Tests
    BY DEF Breaching
<1>4. QED
    BY <1>1, <1>2, <1>3, FS_Subset

\* A theme counts the findings of its family, breaches and gaps, once each.
LEMMA ThemeCounts ==
    ASSUME Sources, NEW f
    PROVE  /\ ThemeOf(f).family = f
           /\ ThemeOf(f).findings = Cardinality(FoundIn({f}))
           /\ Cardinality(FoundIn({f})) \in Nat
<1> DEFINE b == {t \in FoundIn({f}) : OutcomeOf(f, t[2]) = "breach"}
           g == {t \in FoundIn({f}) : OutcomeOf(f, t[2]) = "gap"}
<1>1. FoundIn({f}) \in SUBSET Breaching
    BY DEF FoundIn
<1>2. b \cup g = FoundIn({f}) /\ b \cap g = {}
    BY DEF FoundIn, Breaching
<1>3. IsFiniteSet(FoundIn({f})) /\ b \in SUBSET FoundIn({f}) /\ g \in SUBSET FoundIn({f})
    BY <1>1, FindingsAreFinite, FS_Subset
<1>4. FoundIn({f}) = {t \in Breaching : t[1] = f}
    BY DEF FoundIn
<1>5. ThemeOf(f).family = f /\ ThemeOf(f).findings = Cardinality(b) + Cardinality(g)
    BY <1>4 DEF ThemeOf
<1> HIDE DEF b, g
<1>6. IsFiniteSet(b) /\ IsFiniteSet(g)
    BY <1>3, FS_Subset
<1>7. Cardinality(FoundIn({f})) = Cardinality(b) + Cardinality(g)
    BY <1>2, <1>6, DisjointUnion
<1>8. Cardinality(FoundIn({f})) \in Nat
    BY <1>3, FS_CardinalityType
<1>9. QED
    BY <1>5, <1>7, <1>8

LEMMA FindingsAddUp ==
    ASSUME Sources, NEW fs, IsFiniteSet(fs)
    PROVE  SumFunction([theme \in ThemesOf(fs) |-> theme.findings]) = Cardinality(FoundIn(fs))
<1> DEFINE sum(gs) == SumFunction([theme \in ThemesOf(gs) |-> theme.findings])
           B == {gs \in SUBSET fs : sum(gs) # Cardinality(FoundIn(gs))}
<1>1. SUFFICES ASSUME B # {} PROVE FALSE
    OBVIOUS
<1>2. PICK gs \in B : \A t \in SUBSET gs : t # gs => t \notin B
  <2>1. B \subseteq SUBSET fs
      OBVIOUS
  <2> HIDE DEF B
  <2>2. QED
      BY <1>1, <2>1, LeastSubset
<1>3. CASE gs = {}
  <2>1. FoundIn(gs) = {} /\ ThemesOf(gs) = {}
      BY <1>3 DEF FoundIn, ThemesOf
  <2>2. sum(gs) = 0
    <3>1. DOMAIN [theme \in ThemesOf(gs) |-> theme.findings] = {}
        BY <2>1
    <3>2. QED
        BY <3>1, SumOfNothing
  <2>3. QED
      BY <1>2, <2>1, <2>2, FS_EmptySet
<1>4. CASE gs # {}
  <2>1. PICK f \in gs : TRUE
      BY <1>4
  <2>2. PICK hs : hs = gs \ {f}
      OBVIOUS
  <2>3. sum(hs) = Cardinality(FoundIn(hs))
      BY <1>2, <2>1, <2>2
  <2>4. IsFiniteSet(hs) /\ IsFiniteSet(gs)
      BY <1>2, <2>2, FS_Subset
  <2> DEFINE w == [theme \in ThemesOf(hs) |-> theme.findings]
             v == [theme \in ThemesOf(gs) |-> theme.findings]
  <2>5. IsFiniteSet(DOMAIN w)
    <3> DEFINE th == [g \in hs |-> ThemeOf(g)]
    <3>1. IsFiniteSet(DOMAIN th) /\ {th[g] : g \in DOMAIN th} = ThemesOf(hs)
        BY <2>4 DEF ThemesOf
    <3> HIDE DEF th
    <3>2. IsFiniteSet(ThemesOf(hs))
        BY <3>1, FiniteImage
    <3>3. QED
        BY <3>2
  <2>6. ThemeOf(f) \notin DOMAIN w
      BY <2>2, ThemeCounts DEF ThemesOf
  <2>7. DOMAIN v = DOMAIN w \cup {ThemeOf(f)}
      BY <2>1, <2>2 DEF ThemesOf
  <2>8. \A s \in DOMAIN w : v[s] = w[s]
      BY <2>7
  <2>9. \A s \in DOMAIN v : v[s] \in Nat
    <3>1. \A s \in ThemesOf(gs) : v[s] = s.findings
        OBVIOUS
    <3>2. \A s \in ThemesOf(gs) : \E g \in gs : s = ThemeOf(g)
        BY DEF ThemesOf
    <3>3. \A g : ThemeOf(g).findings \in Nat
        BY ThemeCounts
    <3>4. QED
        BY <3>1, <3>2, <3>3
  <2>10. v[ThemeOf(f)] = Cardinality(FoundIn({f}))
      BY <2>7, ThemeCounts
  <2>11. SumFunction(v) = Cardinality(FoundIn({f})) + Cardinality(FoundIn(hs))
    <3>1. SumFunction(w) = Cardinality(FoundIn(hs))
        BY <2>3
    <3>2. PICK x : x = ThemeOf(f)
        OBVIOUS
    <3> HIDE DEF v, w
    <3>3. SumFunction(v) = v[x] + SumFunction(w)
        BY <2>5, <2>6, <2>7, <2>8, <2>9, <3>2, SumOfOneMore
    <3>4. QED
        BY <2>10, <3>1, <3>2, <3>3
  <2>12. Cardinality(FoundIn(gs)) = Cardinality(FoundIn({f})) + Cardinality(FoundIn(hs))
    <3>1. FoundIn(gs) = FoundIn({f}) \cup FoundIn(hs) /\ FoundIn({f}) \cap FoundIn(hs) = {}
        BY <2>1, <2>2 DEF FoundIn
    <3>2. FoundIn({f}) \in SUBSET Breaching /\ FoundIn(hs) \in SUBSET Breaching
        BY DEF FoundIn
    <3>3. IsFiniteSet(FoundIn({f})) /\ IsFiniteSet(FoundIn(hs))
        BY <3>2, FindingsAreFinite, FS_Subset
    <3>4. QED
        BY <3>1, <3>3, DisjointUnion
  <2>13. QED
      BY <1>2, <2>11, <2>12
<1>5. QED
    BY <1>3, <1>4

\* The themes account for every finding of the engine, once: their counts add
\* up to the breaches and gaps, whatever the feed, the frame and the pack
\* (synthesize_themes).
THEOREM ThemesAccount == Spec => []ThemesCountEveryFinding
<1>1. Sources => ThemesCountEveryFinding
  <2> SUFFICES ASSUME Sources PROVE ThemesCountEveryFinding
      OBVIOUS
  <2> DEFINE fs == {t[1] : t \in Breaching}
  <2>1. Themes = ThemesOf(fs) /\ FoundIn(fs) = Breaching
      BY DEF Themes, ThemesOf, FoundIn
  <2>2. IsFiniteSet(fs)
    <3>1. fs \in SUBSET Family
        BY DEF Breaching, Tests
    <3> HIDE DEF fs
    <3>2. QED
        BY <3>1, FindingsAreFinite, FS_Subset
  <2>3. SumFunction([theme \in Themes |-> theme.findings]) = Cardinality(Breaching)
    <3> HIDE DEF fs
    <3>1. SumFunction([theme \in ThemesOf(fs) |-> theme.findings]) = Cardinality(FoundIn(fs))
        BY <2>2, FindingsAddUp
    <3>2. QED
        BY <2>1, <3>1
  <2>4. ASSUME NEW t \in Breaching
        PROVE  \E theme \in Themes : /\ theme.family = t[1]
                                     /\ t[2] \in theme.products
                                     /\ Contributing(t[1], t[2]) \subseteq theme.signals
    <3>1. ThemeOf(t[1]) \in Themes
        BY DEF Themes
    <3>2. ThemeOf(t[1]).family = t[1] /\ t[2] \in ThemeOf(t[1]).products
          /\ Contributing(t[1], t[2]) \subseteq ThemeOf(t[1]).signals
        BY DEF ThemeOf
    <3>3. QED
        BY <3>1, <3>2
  <2>5. QED
      BY <2>3, <2>4 DEF ThemesCountEveryFinding
<1>2. QED
    BY <1>1, SourcesInvariant, PTL
=============================================================================
