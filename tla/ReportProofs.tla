---------------------------- MODULE ReportProofs ----------------------------
(***************************************************************************)
(* Proofs about what is reported of scored runs: the metrics a run emits   *)
(* and those derived from its outputs when it is shown, and the report qt  *)
(* compare makes of two runs.  Sums are the library's folds: what they     *)
(* give is proved by induction over the subsets that a fold goes through,  *)
(* and what they count by the partition of rows into classes.              *)
(***************************************************************************)
EXTENDS ScoredRunProofs

Pick(s) == CHOOSE x \in s : TRUE

LEMMA PickIsElement == ASSUME NEW s, s # {} PROVE Pick(s) \in s
  BY DEF Pick

(* Induction over the subsets that a fold goes through. *)
LEMMA FoldInduction ==
    ASSUME NEW D, IsFiniteSet(D), NEW Good, {} \in Good,
           \A s \in SUBSET D : s # {} /\ s \ {Pick(s)} \in Good => s \in Good
    PROVE  SUBSET D \subseteq Good
  <1> DEFINE Sized(n) == {s \in SUBSET D : Cardinality(s) = n}
             All == {n \in Nat : Sized(n) \subseteq Good}
  <1>1. \A s \in SUBSET D : IsFiniteSet(s) /\ Cardinality(s) \in Nat
    BY FS_Subset, FS_CardinalityType
  <1>2. 0 \in All
    <2>1. \A s \in Sized(0) : s = {}
      BY <1>1, FS_EmptySet
    <2>2. QED
      BY <2>1
  <1>3. \A n \in Nat : n \in All => n + 1 \in All
    <2> SUFFICES ASSUME NEW n \in Nat, Sized(n) \subseteq Good, NEW s \in Sized(n + 1) PROVE s \in Good
      OBVIOUS
    <2>1. s # {}
      BY FS_EmptySet
    <2>2. s \ {Pick(s)} \in Sized(n)
      <3>1. Pick(s) \in s
        BY <2>1, PickIsElement
      <3>2. Cardinality(s \ {Pick(s)}) = Cardinality(s) - 1
        BY <1>1, <3>1, FS_RemoveElement
      <3>3. QED
        BY <3>2
    <2>3. QED
      BY <2>1, <2>2
  <1>4. Nat \subseteq All
    <2> HIDE DEF All
    <2>1. QED
      BY <1>2, <1>3, Induction
  <1>5. QED
    BY <1>1, <1>4

LEMMA SameFold ==
    ASSUME NEW D, IsFiniteSet(D), NEW g, NEW h, g[{}] = h[{}],
           \A s \in SUBSET D : s # {} /\ g[s \ {Pick(s)}] = h[s \ {Pick(s)}] => g[s] = h[s]
    PROVE  g[D] = h[D]
  <1> DEFINE Good == {s \in SUBSET D : g[s] = h[s]}
  <1>1. \A s \in SUBSET D : s # {} /\ s \ {Pick(s)} \in Good => s \in Good
    OBVIOUS
  <1>2. {} \in Good
    OBVIOUS
  <1>3. SUBSET D \subseteq Good
    <2> HIDE DEF Good
    <2>1. QED
      BY <1>1, <1>2, FoldInduction
  <1>4. QED
    BY <1>3

(* A fold over a finite set is a function. *)
Folds(g, D, v, op, base) ==
    /\ g[{}] = base
    /\ \A s \in SUBSET D : s # {} => g[s] = op[<<v[Pick(s)], g[s \ {Pick(s)}]>>]

LEMMA FoldExists ==
    ASSUME NEW D, IsFiniteSet(D), NEW X, NEW A, NEW v \in [D -> X], NEW op \in [X \X A -> A], NEW base \in A
    PROVE  \E g \in [SUBSET D -> A] : Folds(g, D, v, op, base)
  <1> DEFINE UpTo(g, n) == /\ g \in [SUBSET D -> A] /\ g[{}] = base
                           /\ \A s \in SUBSET D : s # {} /\ Cardinality(s) <= n =>
                                 g[s] = op[<<v[Pick(s)], g[s \ {Pick(s)}]>>]
             All == {n \in Nat : \E g : UpTo(g, n)}
  <1>1. \A s \in SUBSET D : IsFiniteSet(s) /\ Cardinality(s) \in Nat
    BY FS_Subset, FS_CardinalityType
  <1>2. \A s \in SUBSET D : s # {} => /\ Pick(s) \in s /\ s \ {Pick(s)} \in SUBSET D
                                      /\ Cardinality(s \ {Pick(s)}) = Cardinality(s) - 1
    BY <1>1, PickIsElement, FS_RemoveElement
  <1>3. 0 \in All
    <2> DEFINE g == [s \in SUBSET D |-> base]
    <2>1. UpTo(g, 0)
      BY <1>1, FS_EmptySet
    <2>2. QED
      BY <2>1
  <1>4. \A n \in Nat : n \in All => n + 1 \in All
    <2> SUFFICES ASSUME NEW n \in Nat, n \in All PROVE n + 1 \in All
      OBVIOUS
    <2>0. PICK g : UpTo(g, n)
      OBVIOUS
    <2> DEFINE After(s) == op[<<v[Pick(s)], g[s \ {Pick(s)}]>>]
               h == [s \in SUBSET D |-> IF s = {} THEN base ELSE After(s)]
    <2>1. h \in [SUBSET D -> A]
      <3>0. g \in [SUBSET D -> A]
        BY <2>0
      <3>1. \A s \in SUBSET D : s # {} => After(s) \in A
        BY <1>2, <3>0
      <3>2. QED
        BY <3>1
    <2>2. \A s \in SUBSET D : Cardinality(s) <= n => h[s] = g[s]
      BY <2>0
    <2>3. \A s \in SUBSET D : s # {} /\ Cardinality(s) <= n + 1 =>
              h[s] = op[<<v[Pick(s)], h[s \ {Pick(s)}]>>]
      <3> SUFFICES ASSUME NEW s \in SUBSET D, s # {}, Cardinality(s) <= n + 1
                   PROVE  h[s] = op[<<v[Pick(s)], h[s \ {Pick(s)}]>>]
        OBVIOUS
      <3>1. s \ {Pick(s)} \in SUBSET D /\ Cardinality(s \ {Pick(s)}) <= n
        BY <1>1, <1>2
      <3>2. h[s \ {Pick(s)}] = g[s \ {Pick(s)}]
        BY <2>2, <3>1
      <3>3. h[s] = After(s)
        OBVIOUS
      <3>4. QED
        BY <3>2, <3>3
    <2>4. h[{}] = base
      OBVIOUS
    <2>5. UpTo(h, n + 1)
      BY <2>1, <2>3, <2>4
    <2> HIDE DEF UpTo, h
    <2>6. QED
      BY <2>5
  <1>5. Cardinality(D) \in All
    <2>1. Nat \subseteq All
      <3> HIDE DEF All
      <3>1. QED
        BY <1>3, <1>4, Induction
    <2>2. QED
      BY <1>1, <2>1
  <1>6. \A s \in SUBSET D : Cardinality(s) <= Cardinality(D)
    BY FS_Subset
  <1>7. PICK g : UpTo(g, Cardinality(D))
    BY <1>5
  <1>8. QED
    BY <1>6, <1>7 DEF Folds

AddsUp(g, v) ==
    g = [s \in SUBSET DOMAIN v |-> IF s = {} THEN 0 ELSE v[Pick(s)] + g[s \ {Pick(s)}]]

LEMMA SumUnfolds == ASSUME NEW v PROVE SumOver(v) = (CHOOSE g : AddsUp(g, v))[DOMAIN v]
  BY DEF SumOver, FoldFunction, FoldFunctionOnSet, MapThenFoldSet, AddsUp, Pick

(* Whatever adds up is the sum. *)
LEMMA SumIs ==
    ASSUME NEW v, IsFiniteSet(DOMAIN v), NEW g, AddsUp(g, v)
    PROVE  SumOver(v) = g[DOMAIN v]
  <1> DEFINE h == CHOOSE f : AddsUp(f, v)
  <1>1. AddsUp(h, v)
    OBVIOUS
  <1> HIDE DEF h
  <1>2. g[{}] = 0 /\ h[{}] = 0
    BY <1>1 DEF AddsUp
  <1>3. \A s \in SUBSET DOMAIN v : s # {} => /\ g[s] = v[Pick(s)] + g[s \ {Pick(s)}]
                                             /\ h[s] = v[Pick(s)] + h[s \ {Pick(s)}]
    BY <1>1 DEF AddsUp
  <1>4. g[DOMAIN v] = h[DOMAIN v]
    <2>1. \A s \in SUBSET DOMAIN v : s # {} /\ g[s \ {Pick(s)}] = h[s \ {Pick(s)}] => g[s] = h[s]
      BY <1>3
    <2>2. QED
      BY <1>2, <2>1, SameFold
  <1>5. QED
    BY <1>4, SumUnfolds DEF h

(* Numbers of elements by a class: their sum is the number of elements that are of one of
   the classes. *)
Of(X, c, s) == {x \in X : c[x] \in s}

LEMMA SumOfCounts ==
    ASSUME NEW X, IsFiniteSet(X), NEW c, NEW v, IsFiniteSet(DOMAIN v),
           \A d \in DOMAIN v : v[d] = Cardinality(Of(X, c, {d}))
    PROVE  SumOver(v) = Cardinality(Of(X, c, DOMAIN v))
  <1> DEFINE g == [s \in SUBSET DOMAIN v |-> Cardinality(Of(X, c, s))]
  <1>1. \A s \in SUBSET DOMAIN v :
           s # {} => Cardinality(Of(X, c, s)) = v[Pick(s)] + Cardinality(Of(X, c, s \ {Pick(s)}))
    <2> SUFFICES ASSUME NEW s \in SUBSET DOMAIN v, s # {}
                 PROVE  Cardinality(Of(X, c, s)) = v[Pick(s)] + Cardinality(Of(X, c, s \ {Pick(s)}))
      OBVIOUS
    <2>1. Pick(s) \in s
      BY PickIsElement
    <2>2. Of(X, c, s) = Of(X, c, {Pick(s)}) \cup Of(X, c, s \ {Pick(s)})
      BY <2>1 DEF Of
    <2>3. Of(X, c, {Pick(s)}) \cap Of(X, c, s \ {Pick(s)}) = {}
      BY DEF Of
    <2>4. /\ IsFiniteSet(Of(X, c, {Pick(s)})) /\ IsFiniteSet(Of(X, c, s \ {Pick(s)}))
      BY FS_Subset DEF Of
    <2>5. /\ Cardinality(Of(X, c, {Pick(s)})) \in Nat /\ Cardinality(Of(X, c, s \ {Pick(s)})) \in Nat
      BY <2>4, FS_CardinalityType
    <2>6. Cardinality(Of(X, c, s)) = Cardinality(Of(X, c, {Pick(s)})) + Cardinality(Of(X, c, s \ {Pick(s)})) - 0
      <3> DEFINE A == Of(X, c, {Pick(s)})
                 B == Of(X, c, s \ {Pick(s)})
      <3> HIDE DEF A, B
      <3>1. Cardinality(A \cup B) = Cardinality(A) + Cardinality(B) - Cardinality(A \cap B)
        BY <2>4, FS_Union DEF A, B
      <3>2. Cardinality(A \cap B) = 0
        BY <2>3, FS_EmptySet DEF A, B
      <3>3. QED
        BY <2>2, <3>1, <3>2 DEF A, B
    <2>7. QED
      BY <2>1, <2>5, <2>6
  <1>2. Cardinality(Of(X, c, {})) = 0
    BY FS_EmptySet DEF Of
  <1>3. AddsUp(g, v)
    <2>1. \A s \in SUBSET DOMAIN v :
             g[s] = IF s = {} THEN 0 ELSE v[Pick(s)] + g[s \ {Pick(s)}]
      BY <1>1, <1>2
    <2>2. QED
      BY <2>1 DEF AddsUp
  <1>4. SumOver(v) = g[DOMAIN v]
    <2> HIDE DEF g
    <2>1. QED
      BY <1>3, SumIs
  <1>5. QED
    BY <1>4

(* A sum of integers is a number, and within what the least and the greatest would give. *)
LEMMA SumOfIntegers ==
    ASSUME NEW D, IsFiniteSet(D), NEW v \in [D -> Int]
    PROVE  \E g \in [SUBSET D -> Int] : AddsUp(g, v) /\ SumOver(v) = g[D]
  <1> DEFINE op == [p \in Int \X Int |-> p[1] + p[2]]
  <1>1. op \in [Int \X Int -> Int]
    OBVIOUS
  <1>2. \A a, b \in Int : op[<<a, b>>] = a + b
    OBVIOUS
  <1> HIDE DEF op
  <1>3. PICK g \in [SUBSET D -> Int] :
           /\ g[{}] = 0
           /\ \A s \in SUBSET D : s # {} => g[s] = op[<<v[Pick(s)], g[s \ {Pick(s)}]>>]
    <2> DEFINE I == Int
    <2>1. v \in [D -> I] /\ op \in [I \X I -> I] /\ 0 \in I
      BY <1>1
    <2> HIDE DEF I
    <2>2. \E g \in [SUBSET D -> I] : Folds(g, D, v, op, 0)
      BY <2>1, FoldExists
    <2>3. QED
      BY <2>2 DEF I, Folds
  <1>4. \A s \in SUBSET D : s # {} => g[s] = v[Pick(s)] + g[s \ {Pick(s)}]
    <2>1. \A s \in SUBSET D : s # {} => v[Pick(s)] \in Int /\ g[s \ {Pick(s)}] \in Int
      BY PickIsElement
    <2>2. QED
      BY <1>2, <1>3, <2>1
  <1>5. AddsUp(g, v)
    <2>1. \A s \in SUBSET D : g[s] = IF s = {} THEN 0 ELSE v[Pick(s)] + g[s \ {Pick(s)}]
      BY <1>3, <1>4
    <2>2. g = [s \in SUBSET D |-> g[s]]
      OBVIOUS
    <2>3. QED
      BY <2>1, <2>2 DEF AddsUp
  <1>6. QED
    BY <1>5, SumIs

LEMMA SumIsBounded ==
    ASSUME NEW D, IsFiniteSet(D), NEW v \in [D -> Int], NEW lo \in Int, NEW hi \in Int,
           \A d \in D : lo <= v[d] /\ v[d] <= hi
    PROVE  SumOver(v) \in lo * Cardinality(D)..hi * Cardinality(D)
  <1>1. PICK g \in [SUBSET D -> Int] : AddsUp(g, v) /\ SumOver(v) = g[D]
    BY SumOfIntegers
  <1> DEFINE Good == {s \in SUBSET D : lo * Cardinality(s) <= g[s] /\ g[s] <= hi * Cardinality(s)}
  <1>2. \A s \in SUBSET D : IsFiniteSet(s) /\ Cardinality(s) \in Nat
    BY FS_Subset, FS_CardinalityType
  <1>3. {} \in Good
    <2>1. g[{}] = 0
      BY <1>1 DEF AddsUp
    <2>2. QED
      BY <2>1, FS_EmptySet
  <1>4. \A s \in SUBSET D : s # {} /\ s \ {Pick(s)} \in Good => s \in Good
    <2> SUFFICES ASSUME NEW s \in SUBSET D, s # {}, s \ {Pick(s)} \in Good PROVE s \in Good
      OBVIOUS
    <2> DEFINE n == Cardinality(s \ {Pick(s)})
               rest == g[s \ {Pick(s)}]
    <2>1. Pick(s) \in D /\ Pick(s) \in s
      BY PickIsElement
    <2>2. n \in Nat /\ Cardinality(s) = n + 1
      BY <1>2, <2>1, FS_RemoveElement
    <2>3. g[s] = v[Pick(s)] + rest
      BY <1>1 DEF AddsUp
    <2>4. v[Pick(s)] \in Int /\ lo <= v[Pick(s)] /\ v[Pick(s)] <= hi /\ rest \in Int
      BY <2>1
    <2>5. lo * n <= rest /\ rest <= hi * n
      OBVIOUS
    <2> HIDE DEF n, rest
    <2>6. lo * (n + 1) = lo * n + lo /\ hi * (n + 1) = hi * n + hi /\ lo * n \in Int /\ hi * n \in Int
      BY <2>2
    <2>7. lo * (n + 1) <= v[Pick(s)] + rest /\ v[Pick(s)] + rest <= hi * (n + 1)
      BY <2>4, <2>5, <2>6
    <2>8. QED
      BY <2>2, <2>3, <2>7
  <1>5. D \in Good
    <2> HIDE DEF Good
    <2>1. QED
      BY <1>3, <1>4, FoldInduction
  <1>6. QED
    BY <1>1, <1>2, <1>5

-----------------------------------------------------------------------------
(* Sums of fractions. *)

Ratio == Nat \X (Nat \ {0})

LEMMA Ratios ==
    /\ \A n \in Nat : Whole(n) \in Ratio
    /\ \A a, b \in Ratio : Plus(a, b) \in Ratio /\ Times(a, b) \in Ratio /\ SafeRatio(a, b) \in Ratio
  <1>1. \A n \in Nat : Whole(n) \in Ratio
    BY DEF Whole, Ratio
  <1>2. \A m, n \in Nat \ {0} : m * n \in Nat \ {0}
    OBVIOUS
  <1>3. \A m, n \in Nat : m * n \in Nat
    OBVIOUS
  <1>4. ASSUME NEW a \in Ratio, NEW b \in Ratio
        PROVE  Plus(a, b) \in Ratio /\ Times(a, b) \in Ratio /\ SafeRatio(a, b) \in Ratio
    <2>1. a[1] \in Nat /\ a[2] \in Nat \ {0} /\ b[1] \in Nat /\ b[2] \in Nat \ {0}
      BY DEF Ratio
    <2>2. /\ a[1] * b[2] \in Nat /\ b[1] * a[2] \in Nat /\ a[1] * b[1] \in Nat
          /\ a[2] * b[2] \in Nat \ {0} /\ (b[1] # 0 => a[2] * b[1] \in Nat \ {0})
      BY <1>2, <1>3, <2>1
    <2>3. Plus(a, b) \in Ratio
      BY <2>2 DEF Plus, Ratio
    <2>4. Times(a, b) \in Ratio
      BY <2>2 DEF Times, Ratio
    <2>5. SafeRatio(a, b) \in Ratio
      BY <2>2 DEF SafeRatio, Ratio
    <2>6. QED
      BY <2>3, <2>4, <2>5
  <1>5. QED
    BY <1>1, <1>4

Total(v) == FoldFunction(Plus, Whole(0), v)

RatiosAddUp(g, v) ==
    g = [s \in SUBSET DOMAIN v |-> IF s = {} THEN Whole(0) ELSE Plus(v[Pick(s)], g[s \ {Pick(s)}])]

LEMMA TotalUnfolds == ASSUME NEW v PROVE Total(v) = (CHOOSE g : RatiosAddUp(g, v))[DOMAIN v]
  BY DEF Total, FoldFunction, FoldFunctionOnSet, MapThenFoldSet, RatiosAddUp, Pick

LEMMA TotalIs ==
    ASSUME NEW v, IsFiniteSet(DOMAIN v), NEW g, RatiosAddUp(g, v)
    PROVE  Total(v) = g[DOMAIN v]
  <1> DEFINE h == CHOOSE f : RatiosAddUp(f, v)
  <1>1. RatiosAddUp(h, v)
    OBVIOUS
  <1> HIDE DEF h
  <1>2. g[{}] = h[{}]
    BY <1>1 DEF RatiosAddUp
  <1>3. \A s \in SUBSET DOMAIN v : s # {} => /\ g[s] = Plus(v[Pick(s)], g[s \ {Pick(s)}])
                                             /\ h[s] = Plus(v[Pick(s)], h[s \ {Pick(s)}])
    BY <1>1 DEF RatiosAddUp
  <1>4. g[DOMAIN v] = h[DOMAIN v]
    <2>1. \A s \in SUBSET DOMAIN v : s # {} /\ g[s \ {Pick(s)}] = h[s \ {Pick(s)}] => g[s] = h[s]
      BY <1>3
    <2>2. QED
      BY <1>2, <2>1, SameFold
  <1>5. QED
    BY <1>4, TotalUnfolds DEF h

LEMMA TotalOfRatios ==
    ASSUME NEW D, IsFiniteSet(D), NEW v \in [D -> Ratio]
    PROVE  \E g \in [SUBSET D -> Ratio] : RatiosAddUp(g, v) /\ Total(v) = g[D]
  <1> DEFINE op == [p \in Ratio \X Ratio |-> Plus(p[1], p[2])]
  <1>1. op \in [Ratio \X Ratio -> Ratio]
    BY Ratios
  <1>2. \A a, b \in Ratio : op[<<a, b>>] = Plus(a, b)
    OBVIOUS
  <1> HIDE DEF op
  <1>3. Whole(0) \in Ratio
    BY Ratios
  <1>4. PICK g \in [SUBSET D -> Ratio] : Folds(g, D, v, op, Whole(0))
    BY <1>1, <1>3, FoldExists
  <1>5. \A s \in SUBSET D : s # {} => g[s] = Plus(v[Pick(s)], g[s \ {Pick(s)}])
    <2>1. \A s \in SUBSET D : s # {} => v[Pick(s)] \in Ratio /\ g[s \ {Pick(s)}] \in Ratio
      BY PickIsElement
    <2>2. QED
      BY <1>2, <1>4, <2>1 DEF Folds
  <1>6. RatiosAddUp(g, v)
    <2>1. \A s \in SUBSET D : g[s] = IF s = {} THEN Whole(0) ELSE Plus(v[Pick(s)], g[s \ {Pick(s)}])
      BY <1>4, <1>5 DEF Folds
    <2>2. g = [s \in SUBSET D |-> g[s]]
      OBVIOUS
    <2>3. QED
      BY <2>1, <2>2 DEF RatiosAddUp
  <1>7. QED
    BY <1>6, TotalIs

LEMMA BoundsAdd ==
    ASSUME NEW a \in Nat, NEW b \in Nat, NEW c \in Nat, NEW d \in Nat, NEW t \in Nat, NEW w \in Nat, NEW h \in Nat,
           a * t <= b * w, c * t <= d * h
    PROVE  (a * d + c * b) * t <= (b * d) * (w + h)
  <1>1. (a * d + c * b) * t = d * (a * t) + b * (c * t)
    OBVIOUS
  <1>2. (b * d) * (w + h) = d * (b * w) + b * (d * h)
    OBVIOUS
  <1>3. \A x, y, n \in Nat : x <= y => n * x <= n * y
    OBVIOUS
  <1>4. d * (a * t) <= d * (b * w) /\ b * (c * t) <= b * (d * h)
    <2>1. a * t \in Nat /\ b * w \in Nat /\ c * t \in Nat /\ d * h \in Nat
      OBVIOUS
    <2>2. QED
      BY <1>3, <2>1
  <1>5. /\ d * (a * t) \in Nat /\ d * (b * w) \in Nat /\ b * (c * t) \in Nat /\ b * (d * h) \in Nat
    OBVIOUS
  <1>6. d * (a * t) + b * (c * t) <= d * (b * w) + b * (d * h)
    <2> DEFINE p == d * (a * t)
               q == d * (b * w)
               r == b * (c * t)
               z == b * (d * h)
    <2>1. p \in Nat /\ q \in Nat /\ r \in Nat /\ z \in Nat /\ p <= q /\ r <= z
      BY <1>4, <1>5
    <2> HIDE DEF p, q, r, z
    <2>2. p + r <= q + z
      BY <2>1
    <2>3. QED
      BY <2>2 DEF p, q, r, z
  <1>7. QED
    BY <1>1, <1>2, <1>6

(* Fractions that are at most their part of a total add up to its parts at most. *)
LEMMA TotalIsBounded ==
    ASSUME NEW D, IsFiniteSet(D), NEW v \in [D -> Ratio], NEW w \in [D -> Nat], NEW t \in Nat,
           \A d \in D : v[d][1] * t <= v[d][2] * w[d]
    PROVE  /\ Total(v) \in Ratio /\ SumOver(w) \in Nat
           /\ Total(v)[1] * t <= Total(v)[2] * SumOver(w)
  <1>1. PICK g \in [SUBSET D -> Ratio] : RatiosAddUp(g, v) /\ Total(v) = g[D]
    BY TotalOfRatios
  <1>2. PICK h \in [SUBSET D -> Int] : AddsUp(h, w) /\ SumOver(w) = h[D]
    <2>1. w \in [D -> Int]
      OBVIOUS
    <2>2. QED
      BY <2>1, SumOfIntegers
  <1> DEFINE Good == {s \in SUBSET D : h[s] \in Nat /\ g[s][1] * t <= g[s][2] * h[s]}
  <1>3. {} \in Good
    <2>1. g[{}] = <<0, 1>> /\ h[{}] = 0
      BY <1>1, <1>2 DEF RatiosAddUp, AddsUp, Whole
    <2>2. QED
      BY <2>1
  <1>4. \A s \in SUBSET D : s # {} /\ s \ {Pick(s)} \in Good => s \in Good
    <2> SUFFICES ASSUME NEW s \in SUBSET D, s # {}, s \ {Pick(s)} \in Good PROVE s \in Good
      OBVIOUS
    <2> DEFINE x == v[Pick(s)]
               y == g[s \ {Pick(s)}]
               m == w[Pick(s)]
               n == h[s \ {Pick(s)}]
    <2>1. Pick(s) \in D
      BY PickIsElement
    <2>2. g[s] = Plus(x, y) /\ h[s] = m + n
      BY <1>1, <1>2 DEF RatiosAddUp, AddsUp
    <2>3. /\ x \in Ratio /\ y \in Ratio /\ m \in Nat /\ n \in Nat
          /\ x[1] * t <= x[2] * m /\ y[1] * t <= y[2] * n
      BY <2>1
    <2> HIDE DEF x, y, m, n
    <2>4. x[1] \in Nat /\ x[2] \in Nat /\ y[1] \in Nat /\ y[2] \in Nat
      BY <2>3 DEF Ratio
    <2>5. (x[1] * y[2] + y[1] * x[2]) * t <= (x[2] * y[2]) * (m + n)
      BY <2>3, <2>4, BoundsAdd
    <2>6. Plus(x, y)[1] = x[1] * y[2] + y[1] * x[2] /\ Plus(x, y)[2] = x[2] * y[2]
      BY DEF Plus
    <2>7. QED
      BY <2>2, <2>3, <2>5, <2>6
  <1>5. D \in Good
    <2> HIDE DEF Good
    <2>1. QED
      BY <1>3, <1>4, FoldInduction
  <1>6. QED
    BY <1>1, <1>2, <1>5

-----------------------------------------------------------------------------
(* F1 from true positives, false positives and false negatives. *)

F1Of(tp, fp, fn) ==
    LET precision == SafeRatio(Whole(tp), Whole(tp + fp))
        recall == SafeRatio(Whole(tp), Whole(tp + fn))
    IN  SafeRatio(Times(Whole(2), Times(precision, recall)), Plus(precision, recall))

HarmonicMean(tp, fp, fn) ==
    IF 2 * tp + fp + fn = 0 THEN Whole(0) ELSE <<2 * tp, 2 * tp + fp + fn>>

LEMMA F1IsHarmonicMean ==
    ASSUME NEW a \in Nat, NEW b \in Nat, NEW c \in Nat
    PROVE  /\ F1Of(a, b, c) \in Ratio /\ F1Of(a, b, c)[1] <= F1Of(a, b, c)[2]
           /\ SameRatio(F1Of(a, b, c), HarmonicMean(a, b, c))
  <1> DEFINE precision == SafeRatio(Whole(a), Whole(a + b))
             recall == SafeRatio(Whole(a), Whole(a + c))
             n == a + b
             m == a + c
  <1>1. CASE a = 0
    <2>1. precision \in Ratio /\ recall \in Ratio
      BY Ratios
    <2>2. precision[1] = 0 /\ recall[1] = 0
      BY <1>1 DEF SafeRatio, Whole
    <2>3. Plus(precision, recall)[1] = 0
      <3> HIDE DEF precision, recall
      <3>1. QED
        BY <2>1, <2>2 DEF Plus, Ratio
    <2>4. F1Of(a, b, c) = <<0, 1>>
      BY <2>3 DEF F1Of, SafeRatio
    <2>5. HarmonicMean(a, b, c)[1] = 0 /\ HarmonicMean(a, b, c)[2] \in Nat
      BY <1>1 DEF HarmonicMean, Whole
    <2>6. SameRatio(<<0, 1>>, HarmonicMean(a, b, c))
      BY <2>5 DEF SameRatio
    <2>7. QED
      BY <2>4, <2>6 DEF Ratio
  <1>2. CASE a # 0
    <2>1. precision = <<a, n>> /\ recall = <<a, m>>
      BY <1>2 DEF SafeRatio, Whole
    <2>2. n \in Nat \ {0} /\ m \in Nat \ {0}
      BY <1>2
    <2>3. HarmonicMean(a, b, c) = <<2 * a, n + m>>
      BY <1>2 DEF HarmonicMean
    <2>4. a <= n /\ a <= m
      OBVIOUS
    <2> HIDE DEF n, m
    <2>5. Times(precision, recall) = <<a * a, n * m>> /\ Plus(precision, recall) = <<a * m + a * n, n * m>>
      BY <2>1 DEF Times, Plus
    <2>6. Times(Whole(2), Times(precision, recall)) = <<2 * (a * a), n * m>>
      BY <2>2, <2>5 DEF Times, Whole
    <2> DEFINE k == n * m
               d == a * m + a * n
    <2>7. k \in Nat \ {0} /\ d \in Nat \ {0}
      <3>1. \A x, y \in Nat \ {0} : x * y \in Nat \ {0}
        OBVIOUS
      <3>2. a * m \in Nat \ {0} /\ a * n \in Nat \ {0} /\ k \in Nat \ {0}
        BY <1>2, <2>2, <3>1
      <3>3. QED
        BY <3>2
    <2> HIDE DEF k, d
    <2>8. F1Of(a, b, c) = <<(2 * (a * a)) * k, k * d>>
      BY <2>5, <2>6, <2>7 DEF F1Of, SafeRatio, k, d
    <2>9. d = a * (n + m)
      BY <2>2 DEF d
    <2>10. 2 * (a * a) <= d
      <3>1. \A x, y, z \in Nat : y <= z => x * y <= x * z
        OBVIOUS
      <3>2. a * (a + a) <= a * (n + m)
        BY <2>2, <2>4, <3>1
      <3>3. QED
        BY <2>9, <3>2
    <2>11. F1Of(a, b, c) \in Ratio
      <3>1. \A x, y \in Nat \ {0} : x * y \in Nat \ {0}
        OBVIOUS
      <3>2. k * d \in Nat \ {0}
        BY <2>7, <3>1
      <3>3. a * a \in Nat
        OBVIOUS
      <3>4. (2 * (a * a)) * k \in Nat
        BY <2>7, <3>3
      <3>5. QED
        BY <2>8, <3>2, <3>4 DEF Ratio
    <2>12. (2 * (a * a)) * k <= k * d
      <3>1. \A x, y, z \in Nat : y <= z => y * x <= x * z
        OBVIOUS
      <3>2. 2 * (a * a) \in Nat
        OBVIOUS
      <3>3. QED
        BY <2>7, <2>10, <3>1, <3>2
    <2>13. ((2 * (a * a)) * k) * (n + m) = (2 * a) * (k * d)
      <3>1. (2 * a) * (k * (a * (n + m))) = ((2 * (a * a)) * k) * (n + m)
        BY <2>2, <2>7
      <3>2. QED
        BY <2>9, <3>1
    <2>14. QED
      BY <2>3, <2>8, <2>11, <2>12, <2>13 DEF SameRatio
  <1>3. QED
    BY <1>1, <1>2

-----------------------------------------------------------------------------
(* The confusion matrix. *)

(* Elements counted by the name of an attribute. *)
Named(X, a, names) == {x \in X : a[x] \in names}
NamesOf(name, D) == {name[d] : d \in D}

LEMMA SumByName ==
    ASSUME NEW X, IsFiniteSet(X), NEW a, NEW name, NEW D, IsFiniteSet(D),
           \A d, e \in D : name[d] = name[e] => d = e,
           NEW v, DOMAIN v = D, \A d \in D : v[d] = Cardinality(Named(X, a, {name[d]}))
    PROVE  SumOver(v) = Cardinality(Named(X, a, NamesOf(name, D)))
  <1> DEFINE names == NamesOf(name, D)
             Y == Named(X, a, names)
             c == [x \in Y |-> CHOOSE d \in D : name[d] = a[x]]
  <1>1. \A x \in Y : c[x] \in D /\ name[c[x]] = a[x]
    BY DEF Named, NamesOf
  <1>2. IsFiniteSet(Y)
    BY FS_Subset DEF Named
  <1>3. \A d \in D : Of(Y, c, {d}) = Named(X, a, {name[d]})
    <2> SUFFICES ASSUME NEW d \in D PROVE Of(Y, c, {d}) = Named(X, a, {name[d]})
      OBVIOUS
    <2>1. \A x \in Y : c[x] = d <=> a[x] = name[d]
      BY <1>1
    <2>2. \A x \in X : a[x] = name[d] => x \in Y
      BY DEF Named, NamesOf
    <2> HIDE DEF c
    <2>3. QED
      BY <2>1, <2>2 DEF Of, Named
  <1>4. Of(Y, c, D) = Y
    <2> HIDE DEF Y
    <2>1. QED
      BY <1>1 DEF Of
  <1> HIDE DEF c, Y
  <1>5. SumOver(v) = Cardinality(Of(Y, c, D))
    <2>1. \A d \in DOMAIN v : v[d] = Cardinality(Of(Y, c, {d}))
      BY <1>3
    <2>2. QED
      BY <1>2, <2>1, SumOfCounts
  <1>6. QED
    BY <1>4, <1>5 DEF Y

Goldens(outs) == [i \in DOMAIN outs |-> outs[i].golden]
Answers(outs) == [i \in DOMAIN outs |-> outs[i].parsed]
MatrixColumns(labels) == [p \in 1..Len(labels)+1 |-> IF p > Len(labels) THEN NULL ELSE labels[p]]

With(outs, golden, parsed) == {i \in DOMAIN outs : outs[i].golden = golden /\ outs[i].parsed = parsed}
FalsePositives(outs, l) == {i \in DOMAIN outs : outs[i].golden # l /\ outs[i].parsed = l}
FalseNegatives(outs, l) == {i \in DOMAIN outs : outs[i].golden = l /\ outs[i].parsed # l}

(* Outputs that are counted by distinct labels. *)
Counted(outs, labels) ==
    /\ IsFiniteSet(DOMAIN outs) /\ labels \in Seq(Strings) /\ Countable(outs, labels)
    /\ \A i, j \in DOMAIN labels : labels[i] = labels[j] => i = j

LEMMA LabelsOfSeq ==
    ASSUME NEW labels \in Seq(Strings), \A i, j \in DOMAIN labels : labels[i] = labels[j] => i = j
    PROVE  /\ Len(labels) \in Nat /\ DOMAIN labels = 1..Len(labels) /\ IsFiniteSet(DOMAIN labels)
           /\ IsFiniteSet(1..Len(labels)+1)
           /\ \A p, q \in 1..Len(labels)+1 : MatrixColumns(labels)[p] = MatrixColumns(labels)[q] => p = q
           /\ NamesOf(MatrixColumns(labels), 1..Len(labels)+1) = Elements(labels) \cup {NULL}
           /\ NamesOf(labels, DOMAIN labels) = Elements(labels)
  <1>1. Len(labels) \in Nat /\ DOMAIN labels = 1..Len(labels)
    OBVIOUS
  <1>2. IsFiniteSet(1..Len(labels)) /\ IsFiniteSet(1..Len(labels)+1)
    BY <1>1, FS_Interval
  <1>3. \A p \in DOMAIN labels : labels[p] # NULL
    BY NullAssumption
  <1>4. \A p \in 1..Len(labels)+1 : /\ p \in DOMAIN labels => MatrixColumns(labels)[p] = labels[p]
                                    /\ p \notin DOMAIN labels => p = Len(labels) + 1 /\ MatrixColumns(labels)[p] = NULL
    BY <1>1 DEF MatrixColumns
  <1>5. \A p, q \in 1..Len(labels)+1 : MatrixColumns(labels)[p] = MatrixColumns(labels)[q] => p = q
    BY <1>3, <1>4
  <1>6. MatrixColumns(labels)[Len(labels)+1] = NULL /\ Len(labels)+1 \in 1..Len(labels)+1
    BY <1>1 DEF MatrixColumns
  <1>7. DOMAIN labels \subseteq 1..Len(labels)+1
    BY <1>1
  <1>8. NamesOf(MatrixColumns(labels), 1..Len(labels)+1) = Elements(labels) \cup {NULL}
    BY <1>4, <1>6, <1>7 DEF Elements, NamesOf
  <1>9. QED
    BY <1>1, <1>2, <1>5, <1>8 DEF Elements, NamesOf

LEMMA MatrixCells ==
    ASSUME NEW outs, NEW labels
    PROVE  /\ DOMAIN ConfusionMatrix(outs, labels) = DOMAIN labels
           /\ \A g \in DOMAIN labels :
                 /\ DOMAIN ConfusionMatrix(outs, labels)[g] = 1..Len(labels)+1
                 /\ \A p \in 1..Len(labels)+1 :
                       ConfusionMatrix(outs, labels)[g][p] = Cardinality(With(outs, labels[g], MatrixColumns(labels)[p]))
  <1>1. \A g \in DOMAIN labels : \A p \in 1..Len(labels)+1 :
           With(outs, labels[g], MatrixColumns(labels)[p])
              = {i \in DOMAIN outs : /\ outs[i].golden = labels[g]
                                     /\ outs[i].parsed = IF p > Len(labels) THEN NULL ELSE labels[p]}
    BY DEF With, MatrixColumns
  <1>2. QED
    BY <1>1 DEF ConfusionMatrix

(* The cell of a label and itself. *)
LEMMA DiagonalCells ==
    ASSUME NEW outs, NEW labels, Counted(outs, labels)
    PROVE  \A g, l \in DOMAIN labels :
              ConfusionMatrix(outs, labels)[g][l] = Cardinality(With(outs, labels[g], labels[l]))
  <1>1. DOMAIN labels = 1..Len(labels) /\ Len(labels) \in Nat
    BY LabelsOfSeq DEF Counted
  <1>2. \A l \in DOMAIN labels : l \in 1..Len(labels)+1 /\ MatrixColumns(labels)[l] = labels[l]
    BY <1>1 DEF MatrixColumns
  <1>3. QED
    BY <1>2, MatrixCells

LEMMA SupportCounts ==
    ASSUME NEW outs, NEW labels, Counted(outs, labels), NEW l \in DOMAIN labels
    PROVE  Support(ConfusionMatrix(outs, labels), l)
              = Cardinality({i \in DOMAIN outs : outs[i].golden = labels[l]})
  <1> DEFINE X == {i \in DOMAIN outs : outs[i].golden = labels[l]}
             v == ConfusionMatrix(outs, labels)[l]
             D == 1..Len(labels)+1
             name == MatrixColumns(labels)
             a == Answers(outs)
  <1>1. IsFiniteSet(X)
    BY FS_Subset DEF Counted
  <1>2. IsFiniteSet(D) /\ \A d, e \in D : name[d] = name[e] => d = e
    BY LabelsOfSeq DEF Counted
  <1>3. \A d : Named(X, a, {d}) = With(outs, labels[l], d)
    BY DEF Named, Answers, With
  <1>4. DOMAIN v = D /\ \A d \in D : v[d] = Cardinality(Named(X, a, {name[d]}))
    BY <1>3, MatrixCells
  <1>5. Named(X, a, Elements(labels) \cup {NULL}) = X
    BY DEF Named, Answers, Counted, Countable
  <1>6. NamesOf(name, D) = Elements(labels) \cup {NULL}
    BY LabelsOfSeq DEF Counted
  <1> HIDE DEF X, D, v, name, a
  <1>7. SumOver(v) = Cardinality(Named(X, a, NamesOf(name, D)))
    BY <1>1, <1>2, <1>4, SumByName
  <1>8. SumOver(v) = Cardinality(X)
    BY <1>5, <1>6, <1>7
  <1>9. QED
    BY <1>8 DEF Support, v, X

LEMMA FalsePositivesCount ==
    ASSUME NEW outs, NEW labels, Counted(outs, labels), NEW l \in DOMAIN labels
    PROVE  LET matrix == ConfusionMatrix(outs, labels)
           IN  SumOver([g \in DOMAIN matrix \ {l} |-> matrix[g][l]]) = Cardinality(FalsePositives(outs, labels[l]))
  <1> DEFINE matrix == ConfusionMatrix(outs, labels)
             X == {i \in DOMAIN outs : outs[i].parsed = labels[l]}
             D == DOMAIN labels \ {l}
             v == [g \in D |-> matrix[g][l]]
             a == Goldens(outs)
  <1>1. IsFiniteSet(X)
    BY FS_Subset DEF Counted
  <1>2. /\ IsFiniteSet(D) /\ \A d, e \in D : labels[d] = labels[e] => d = e
    <2>1. IsFiniteSet(DOMAIN labels) /\ \A d, e \in DOMAIN labels : labels[d] = labels[e] => d = e
      BY LabelsOfSeq DEF Counted
    <2>2. QED
      BY <2>1, FS_Difference
  <1>3. DOMAIN matrix = DOMAIN labels /\ \A d \in D : matrix[d][l] = Cardinality(With(outs, labels[d], labels[l]))
    BY MatrixCells, DiagonalCells
  <1>4. \A d : Named(X, a, {d}) = With(outs, d, labels[l])
    BY DEF Named, Goldens, With
  <1>5. DOMAIN v = D /\ \A d \in D : v[d] = Cardinality(Named(X, a, {labels[d]}))
    BY <1>3, <1>4
  <1>6. Named(X, a, NamesOf(labels, D)) = FalsePositives(outs, labels[l])
    <2>1. \A i \in DOMAIN outs : outs[i].golden \in NamesOf(labels, D) <=> outs[i].golden # labels[l]
      <3>1. \A i \in DOMAIN outs : \E d \in DOMAIN labels : outs[i].golden = labels[d]
        BY DEF Counted, Countable, Elements
      <3>2. \A d, e \in DOMAIN labels : labels[d] = labels[e] => d = e
        BY DEF Counted
      <3>3. QED
        BY <3>1, <3>2 DEF NamesOf
    <2>2. QED
      BY <2>1 DEF Named, Goldens, FalsePositives
  <1>7. v = [g \in DOMAIN matrix \ {l} |-> matrix[g][l]]
    BY <1>3
  <1> HIDE DEF X, D, v, a
  <1>8. SumOver(v) = Cardinality(Named(X, a, NamesOf(labels, D)))
    BY <1>1, <1>2, <1>5, SumByName
  <1>9. QED
    BY <1>6, <1>7, <1>8

LEMMA MatrixAddsUp ==
    ASSUME NEW outs, NEW labels, Counted(outs, labels)
    PROVE  LET matrix == ConfusionMatrix(outs, labels)
           IN  /\ SumOver([l \in DOMAIN labels |-> Support(matrix, l)]) = Cardinality(DOMAIN outs)
               /\ SumOver([l \in DOMAIN labels |-> matrix[l][l]])
                     = Cardinality({i \in DOMAIN outs : outs[i].parsed = outs[i].golden})
  <1> DEFINE matrix == ConfusionMatrix(outs, labels)
             D == DOMAIN labels
             a == Goldens(outs)
             v == [l \in D |-> Support(matrix, l)]
             w == [l \in D |-> matrix[l][l]]
             X == DOMAIN outs
             Y == {i \in DOMAIN outs : outs[i].parsed = outs[i].golden}
  <1>1. IsFiniteSet(X) /\ IsFiniteSet(Y)
    BY FS_Subset DEF Counted
  <1>2. IsFiniteSet(D) /\ \A d, e \in D : labels[d] = labels[e] => d = e
    BY LabelsOfSeq DEF Counted
  <1>3. \A d : /\ Named(X, a, {d}) = {i \in DOMAIN outs : outs[i].golden = d}
               /\ Named(Y, a, {d}) = With(outs, d, d)
    BY DEF Named, Goldens, With
  <1>4. \A d \in D : v[d] = Cardinality(Named(X, a, {labels[d]}))
    <2>1. \A d \in D : Support(matrix, d) = Cardinality({i \in DOMAIN outs : outs[i].golden = labels[d]})
      BY SupportCounts
    <2> HIDE DEF matrix, X, a
    <2>2. QED
      BY <1>3, <2>1
  <1>5. \A d \in D : w[d] = Cardinality(Named(Y, a, {labels[d]}))
    BY <1>3, DiagonalCells
  <1>6. Named(X, a, NamesOf(labels, D)) = X /\ Named(Y, a, NamesOf(labels, D)) = Y
    BY DEF Named, NamesOf, Goldens, Counted, Countable, Elements
  <1>7. DOMAIN v = D /\ DOMAIN w = D
    OBVIOUS
  <1> HIDE DEF X, Y, D, v, w, a
  <1>8. /\ SumOver(v) = Cardinality(Named(X, a, NamesOf(labels, D)))
        /\ SumOver(w) = Cardinality(Named(Y, a, NamesOf(labels, D)))
    <2>1. /\ \A d \in D : v[d] = Cardinality(Named(X, a, {labels[d]}))
          /\ \A d \in D : w[d] = Cardinality(Named(Y, a, {labels[d]}))
      BY <1>4, <1>5
    <2>2. SumOver(v) = Cardinality(Named(X, a, NamesOf(labels, D)))
      BY <1>1, <1>2, <1>7, <2>1, SumByName
    <2>3. SumOver(w) = Cardinality(Named(Y, a, NamesOf(labels, D)))
      BY <1>1, <1>2, <1>7, <2>1, SumByName
    <2>4. QED
      BY <2>2, <2>3
  <1>9. SumOver(v) = Cardinality(X) /\ SumOver(w) = Cardinality(Y)
    BY <1>6, <1>8
  <1>10. QED
    BY <1>9 DEF X, Y, D, v, w

LEMMA LengthOf ==
    ASSUME NEW n \in Nat, NEW f, f = [i \in 1..n |-> f[i]]
    PROVE  Len(f) = n
  <1> DEFINE S == {f[i] : i \in 1..n}
  <1>1. f \in [1..n -> S]
    OBVIOUS
  <1>2. f \in Seq(S)
    BY <1>1, IsASeq
  <1>3. QED
    BY <1>1, <1>2

LEMMA PositivesAndNegatives ==
    ASSUME NEW outs, NEW labels, Counted(outs, labels), NEW l
    PROVE  /\ Cardinality(With(outs, l, l)) \in Nat
           /\ Cardinality(FalsePositives(outs, l)) \in Nat
           /\ Cardinality(FalseNegatives(outs, l)) \in Nat
           /\ Cardinality({i \in DOMAIN outs : outs[i].golden = l})
                 = Cardinality(With(outs, l, l)) + Cardinality(FalseNegatives(outs, l))
           /\ Cardinality({i \in DOMAIN outs : outs[i].parsed = l})
                 = Cardinality(With(outs, l, l)) + Cardinality(FalsePositives(outs, l))
  <1> DEFINE A == With(outs, l, l)
             B == FalsePositives(outs, l)
             C == FalseNegatives(outs, l)
  <1>1. IsFiniteSet(A) /\ IsFiniteSet(B) /\ IsFiniteSet(C)
    BY FS_Subset DEF Counted, With, FalsePositives, FalseNegatives
  <1>2. A \cap B = {} /\ A \cap C = {}
    BY DEF With, FalsePositives, FalseNegatives
  <1>3. /\ {i \in DOMAIN outs : outs[i].golden = l} = A \cup C
        /\ {i \in DOMAIN outs : outs[i].parsed = l} = A \cup B
    BY DEF With, FalsePositives, FalseNegatives
  <1> HIDE DEF A, B, C
  <1>4. Cardinality(A) \in Nat /\ Cardinality(B) \in Nat /\ Cardinality(C) \in Nat
    BY <1>1, FS_CardinalityType
  <1>5. Cardinality({}) = 0
    BY FS_EmptySet
  <1>6. Cardinality(A \cup B) = Cardinality(A) + Cardinality(B) - Cardinality(A \cap B)
    BY <1>1, FS_Union
  <1>7. Cardinality(A \cup C) = Cardinality(A) + Cardinality(C) - Cardinality(A \cap C)
    BY <1>1, FS_Union
  <1>8. Cardinality(A \cup B) = Cardinality(A) + Cardinality(B) /\ Cardinality(A \cup C) = Cardinality(A) + Cardinality(C)
    <2>1. Cardinality(A \cap B) = 0 /\ Cardinality(A \cap C) = 0
      BY <1>2, <1>5
    <2>2. QED
      BY <1>4, <1>6, <1>7, <2>1
  <1>9. QED
    BY <1>3, <1>4, <1>8 DEF A, B, C

F1OfLabel(outs, l) ==
    F1Of(Cardinality(With(outs, l, l)), Cardinality(FalsePositives(outs, l)), Cardinality(FalseNegatives(outs, l)))

LEMMA F1OfMatrix ==
    ASSUME NEW outs, NEW labels, Counted(outs, labels), NEW l \in DOMAIN labels
    PROVE  F1(ConfusionMatrix(outs, labels), l) = F1OfLabel(outs, labels[l])
  <1> DEFINE matrix == ConfusionMatrix(outs, labels)
             tp == Cardinality(With(outs, labels[l], labels[l]))
             fp == Cardinality(FalsePositives(outs, labels[l]))
             fn == Cardinality(FalseNegatives(outs, labels[l]))
  <1>1. matrix[l][l] = tp
    BY DiagonalCells
  <1>2. SumOver([g \in DOMAIN matrix \ {l} |-> matrix[g][l]]) = fp
    BY FalsePositivesCount
  <1>3. Support(matrix, l) = tp + fn
    <2>1. Support(matrix, l) = Cardinality({i \in DOMAIN outs : outs[i].golden = labels[l]})
      BY SupportCounts
    <2>2. Cardinality({i \in DOMAIN outs : outs[i].golden = labels[l]}) = tp + fn
      BY PositivesAndNegatives
    <2>3. QED
      BY <2>1, <2>2
  <1> HIDE DEF matrix, tp, fp, fn
  <1>4. F1(matrix, l) = F1Of(tp, fp, fn)
    BY <1>1, <1>2, <1>3 DEF F1, F1Of
  <1>5. QED
    BY <1>4 DEF matrix, tp, fp, fn, F1OfLabel

(* As the Python SDK computes it from the samples. *)
LEMMA F1OfSamples ==
    ASSUME NEW outs, NEW l
    PROVE  BinaryF1([i \in DOMAIN outs |-> outs[i].golden = l], [i \in DOMAIN outs |-> outs[i].parsed = l])
              = F1OfLabel(outs, l)
  <1> DEFINE actual == [i \in DOMAIN outs |-> outs[i].golden = l]
             predicted == [i \in DOMAIN outs |-> outs[i].parsed = l]
  <1>1. /\ DOMAIN actual = DOMAIN outs
        /\ \A i \in DOMAIN outs : (actual[i] <=> outs[i].golden = l) /\ (predicted[i] <=> outs[i].parsed = l)
    OBVIOUS
  <1> HIDE DEF actual, predicted
  <1>2. {i \in DOMAIN actual : actual[i] /\ predicted[i]} = With(outs, l, l)
    BY <1>1 DEF With
  <1>3. {i \in DOMAIN actual : ~actual[i] /\ predicted[i]} = FalsePositives(outs, l)
    BY <1>1 DEF FalsePositives
  <1>4. {i \in DOMAIN actual : actual[i] /\ ~predicted[i]} = FalseNegatives(outs, l)
    BY <1>1 DEF FalseNegatives
  <1>5. BinaryF1(actual, predicted) = F1OfLabel(outs, l)
    BY <1>2, <1>3, <1>4 DEF BinaryF1, Precision, Recall, F1OfLabel, F1Of
  <1>6. QED
    BY <1>5 DEF actual, predicted

(* No average of F1 leaves 0..1. *)
LEMMA AveragesAreRatios ==
    ASSUME NEW outs, NEW labels, Counted(outs, labels), DOMAIN outs # {}
    PROVE  LET f1 == F1Metrics(ConfusionMatrix(outs, labels))
           IN  /\ f1.labels \in [DOMAIN labels -> Ratio] /\ f1.macro \in Ratio /\ f1.weighted \in Ratio
               /\ f1.macro[1] \in 0..f1.macro[2] /\ f1.weighted[1] \in 0..f1.weighted[2]
  <1> DEFINE matrix == ConfusionMatrix(outs, labels)
             D == DOMAIN labels
             n == Len(labels)
             f1 == [l \in DOMAIN matrix |-> F1(matrix, l)]
             support == [l \in D |-> Support(matrix, l)]
             total == SumOver(support)
             one == [l \in D |-> 1]
             weighted == [l \in DOMAIN matrix |-> Times(f1[l], SafeRatio(Whole(Support(matrix, l)), Whole(total)))]
  <1>1. D = 1..n /\ n \in Nat \ {0} /\ IsFiniteSet(D) /\ Cardinality(D) = n
    <2>1. D = 1..n /\ n \in Nat
      BY LabelsOfSeq DEF Counted
    <2>2. labels # <<>> /\ labels \in Seq(Strings)
      BY DEF Counted, Countable
    <2>3. n # 0
      BY <2>2
    <2>4. QED
      BY <2>1, <2>3, FS_Interval
  <1>2. DOMAIN matrix = D
    BY MatrixCells
  <1>3. Len(matrix) = n
    <2>1. matrix = [l \in 1..n |-> matrix[l]]
      BY <1>1 DEF ConfusionMatrix
    <2>2. QED
      BY <1>1, <2>1, LengthOf
  <1>4. \A l \in D : F1(matrix, l) \in Ratio /\ F1(matrix, l)[1] <= F1(matrix, l)[2]
    <2> SUFFICES ASSUME NEW l \in D PROVE F1(matrix, l) \in Ratio /\ F1(matrix, l)[1] <= F1(matrix, l)[2]
      OBVIOUS
    <2>1. F1(matrix, l) = F1OfLabel(outs, labels[l])
      BY F1OfMatrix
    <2>2. F1OfLabel(outs, labels[l]) \in Ratio /\ F1OfLabel(outs, labels[l])[1] <= F1OfLabel(outs, labels[l])[2]
      BY PositivesAndNegatives, F1IsHarmonicMean DEF F1OfLabel
    <2>3. QED
      BY <2>1, <2>2
  <1>5. \A l \in D : Support(matrix, l) \in Nat
    <2> SUFFICES ASSUME NEW l \in D PROVE Support(matrix, l) \in Nat
      OBVIOUS
    <2>1. Support(matrix, l) = Cardinality({i \in DOMAIN outs : outs[i].golden = labels[l]})
      BY SupportCounts
    <2>2. {i \in DOMAIN outs : outs[i].golden = labels[l]} \in SUBSET DOMAIN outs
      OBVIOUS
    <2>3. QED
      BY <2>1, <2>2, FS_Subset, FS_CardinalityType DEF Counted
  <1>6. total \in Nat \ {0}
    <2>1. total = Cardinality(DOMAIN outs)
      BY MatrixAddsUp
    <2>2. QED
      BY <2>1, FS_CardinalityType, FS_EmptySet DEF Counted
  <1> HIDE DEF matrix, D, n, total
  <1>7. f1 \in [D -> Ratio] /\ \A l \in D : f1[l][1] \in Nat /\ f1[l][2] \in Nat \ {0} /\ f1[l][1] <= f1[l][2]
    BY <1>2, <1>4 DEF Ratio
  <1>8. /\ Times(Total(f1), <<1, n>>)[1] \in 0..Times(Total(f1), <<1, n>>)[2]
        /\ Times(Total(f1), <<1, n>>) \in Ratio
    <2>1. one \in [D -> Nat] /\ one \in [D -> Int] /\ \A l \in D : one[l] = 1
      OBVIOUS
    <2> HIDE DEF one, f1
    <2>2. \A l \in D : f1[l][1] * 1 <= f1[l][2] * one[l]
      BY <1>7, <2>1
    <2>3. Total(f1) \in Ratio /\ Total(f1)[1] * 1 <= Total(f1)[2] * SumOver(one)
      BY <1>1, <1>7, <2>1, <2>2, TotalIsBounded
    <2>4. SumOver(one) = n
      <3>1. \A lo, hi \in Int : (\A l \in D : lo <= one[l] /\ one[l] <= hi) =>
                SumOver(one) \in lo * Cardinality(D)..hi * Cardinality(D)
        BY <1>1, <2>1, SumIsBounded
      <3>2. SumOver(one) \in 1 * n..1 * n
        BY <1>1, <2>1, <3>1
      <3>3. QED
        BY <1>1, <3>2
    <2>5. Total(f1)[1] \in Nat /\ Total(f1)[2] \in Nat
      BY <2>3 DEF Ratio
    <2>6. Times(Total(f1), <<1, n>>) = <<Total(f1)[1] * 1, Total(f1)[2] * n>>
      BY DEF Times
    <2>7. Total(f1)[2] * n \in Nat
      BY <1>1, <2>5
    <2>8. <<1, n>> \in Ratio
      BY <1>1 DEF Ratio
    <2>9. Times(Total(f1), <<1, n>>) \in Ratio
      BY <2>3, <2>8, Ratios
    <2>10. QED
      BY <2>3, <2>4, <2>5, <2>6, <2>7, <2>9
  <1>9. Total(weighted)[1] \in 0..Total(weighted)[2] /\ Total(weighted) \in Ratio
    <2>1. support \in [D -> Nat] /\ DOMAIN weighted = D
      BY <1>2, <1>5
    <2>2. \A l \in D : weighted[l] = <<f1[l][1] * support[l], f1[l][2] * total>>
      <3> SUFFICES ASSUME NEW l \in D PROVE weighted[l] = <<f1[l][1] * support[l], f1[l][2] * total>>
        OBVIOUS
      <3>1. SafeRatio(Whole(support[l]), Whole(total)) = <<support[l], total>>
        BY <1>5, <1>6 DEF SafeRatio, Whole
      <3>2. weighted[l] = Times(f1[l], SafeRatio(Whole(support[l]), Whole(total)))
        BY <1>2
      <3>3. QED
        BY <3>1, <3>2 DEF Times
    <2>3. weighted = [l \in D |-> weighted[l]]
      BY <1>2
    <2> HIDE DEF f1, support, weighted
    <2>4. \A l \in D : weighted[l] \in Ratio /\ weighted[l][1] * total <= weighted[l][2] * support[l]
      <3> SUFFICES ASSUME NEW l \in D
                   PROVE  weighted[l] \in Ratio /\ weighted[l][1] * total <= weighted[l][2] * support[l]
        OBVIOUS
      <3> DEFINE a == f1[l][1]
                 b == f1[l][2]
                 m == support[l]
      <3>1. a \in Nat /\ b \in Nat \ {0} /\ a <= b /\ m \in Nat
        BY <1>7, <2>1
      <3>2. weighted[l] = <<a * m, b * total>>
        BY <2>2
      <3> HIDE DEF a, b, m
      <3>3. a * m \in Nat /\ b * total \in Nat \ {0}
        <4>1. \A x, y \in Nat \ {0} : x * y \in Nat \ {0}
          OBVIOUS
        <4>2. QED
          BY <1>6, <3>1, <4>1
      <3>4. (a * m) * total <= (b * total) * m
        <4>1. m * total \in Nat
          BY <1>6, <3>1
        <4>2. \A x, y, z \in Nat : x <= y => x * z <= y * z
          OBVIOUS
        <4>3. a * (m * total) <= b * (m * total)
          BY <3>1, <4>1, <4>2
        <4>4. (a * m) * total = a * (m * total) /\ (b * total) * m = b * (m * total)
          BY <1>6, <3>1
        <4>5. QED
          BY <4>3, <4>4
      <3>5. QED
        BY <3>2, <3>3, <3>4 DEF Ratio, m
    <2>5. weighted \in [D -> Ratio]
      BY <2>3, <2>4
    <2>6. Total(weighted) \in Ratio /\ Total(weighted)[1] * total <= Total(weighted)[2] * SumOver(support)
      BY <1>1, <1>6, <2>1, <2>4, <2>5, TotalIsBounded
    <2>7. Total(weighted)[1] \in Nat /\ Total(weighted)[2] \in Nat
      BY <2>6 DEF Ratio
    <2>8. SumOver(support) = total
      BY DEF total, support
    <2>9. \A x, y \in Nat : \A z \in Nat \ {0} : x * z <= y * z => x <= y
      OBVIOUS
    <2>10. QED
      BY <1>6, <2>6, <2>7, <2>8, <2>9
  <1>10. /\ F1Metrics(matrix).macro = Times(Total(f1), <<1, Len(matrix)>>)
         /\ F1Metrics(matrix).weighted = Total(weighted) /\ F1Metrics(matrix).labels = f1
    <2>1. [l \in DOMAIN matrix |-> Support(matrix, l)] = support
      BY <1>2
    <2>2. SumOver([l \in DOMAIN matrix |-> Support(matrix, l)]) = total
      BY <2>1 DEF total
    <2>3. QED
      BY <2>2 DEF F1Metrics, Total
  <1>11. QED
    BY <1>3, <1>7, <1>8, <1>9, <1>10 DEF matrix, D

-----------------------------------------------------------------------------
(* The order of scores, and what is between them. *)

LEMMA Extremes ==
    ASSUME NEW S, IsFiniteSet(S), S \subseteq Int, S # {}
    PROVE  /\ \E x \in S : \A y \in S : x <= y
           /\ \E x \in S : \A y \in S : y <= x
  <1> DEFINE Good == {s \in SUBSET S : s = {} \/ ((\E x \in s : \A y \in s : x <= y)
                                                   /\ (\E x \in s : \A y \in s : y <= x))}
  <1>1. {} \in Good
    OBVIOUS
  <1>2. \A s \in SUBSET S : s # {} /\ s \ {Pick(s)} \in Good => s \in Good
    <2> SUFFICES ASSUME NEW s \in SUBSET S, s # {}, s \ {Pick(s)} \in Good PROVE s \in Good
      OBVIOUS
    <2> DEFINE z == Pick(s)
               t == s \ {z}
    <2>1. z \in s
      BY PickIsElement
    <2> HIDE DEF z
    <2>2. CASE t = {}
      <3>1. \A y \in s : y = z
        BY <2>2
      <3>2. QED
        BY <2>1, <3>1
    <2>3. CASE t # {}
      <3>1. PICK x \in t, y \in t : \A k \in t : x <= k /\ k <= y
        BY <2>3 DEF z
      <3>2. \E k \in {x, z} : \A m \in s : k <= m
        <4>1. CASE x <= z
          BY <3>1, <4>1
        <4>2. CASE ~(x <= z)
          BY <2>1, <3>1, <4>2
        <4>3. QED
          BY <4>1, <4>2
      <3>3. \E k \in {y, z} : \A m \in s : m <= k
        <4>1. CASE z <= y
          BY <3>1, <4>1
        <4>2. CASE ~(z <= y)
          BY <2>1, <3>1, <4>2
        <4>3. QED
          BY <4>1, <4>2
      <3>4. QED
        BY <2>1, <3>1, <3>2, <3>3
    <2>4. QED
      BY <2>2, <2>3
  <1>3. S \in Good
    <2> HIDE DEF Good
    <2>1. QED
      BY <1>1, <1>2, FoldInduction
  <1>4. QED
    BY <1>3

Below(values, v) == {i \in DOMAIN values : values[i] < v}
UpTo(values, v) == {i \in DOMAIN values : values[i] <= v}

LEMMA Places ==
    ASSUME NEW n \in Nat, NEW values \in [1..n -> Int], NEW k \in 1..n
    PROVE  /\ Sorted(values)[k] \in Elements(values) /\ Sorted(values)[k] \in Int
           /\ Cardinality(Below(values, Sorted(values)[k])) < k
           /\ k <= Cardinality(UpTo(values, Sorted(values)[k]))
  <1> DEFINE Reached == {v \in Elements(values) : k <= Cardinality(UpTo(values, v))}
  <1>1. IsFiniteSet(1..n) /\ Cardinality(1..n) = n
    BY FS_Interval
  <1>2. Elements(values) \subseteq Int /\ Elements(values) # {} /\ IsFiniteSet(Elements(values))
    <2>1. values \in Surjection(1..n, Elements(values))
      BY DEF Surjection, Elements
    <2>2. QED
      BY <1>1, <2>1, FS_Surjection DEF Elements
  <1>3. Reached # {}
    <2>1. PICK m \in Elements(values) : \A v \in Elements(values) : v <= m
      BY <1>2, Extremes
    <2>2. UpTo(values, m) = 1..n
      BY <2>1 DEF UpTo, Elements
    <2>3. QED
      BY <1>1, <2>2
  <1>4. PICK v \in Reached : \A w \in Reached : v <= w
    BY <1>2, <1>3, Extremes, FS_Subset
  <1>5. v \in Elements(values) /\ v \in Int /\ k <= Cardinality(UpTo(values, v))
    BY <1>2, <1>4
  <1>6. \A w \in Elements(values) : k <= Cardinality(UpTo(values, w)) => v <= w
    BY <1>4
  <1> HIDE DEF Reached
  <1>7. Cardinality(Below(values, v)) < k
    <2> DEFINE B == Below(values, v)
    <2>1. IsFiniteSet(B) /\ Cardinality(B) \in Nat
      BY <1>1, FS_Subset, FS_CardinalityType DEF Below
    <2>2. CASE B = {}
      BY <2>2, FS_EmptySet
    <2>3. CASE B # {}
      <3> DEFINE W == {w \in Elements(values) : w < v}
      <3>1. IsFiniteSet(W) /\ W \subseteq Int /\ W # {}
        BY <1>2, <2>3, FS_Subset DEF Below, Elements
      <3>2. PICK w \in W : \A x \in W : x <= w
        BY <3>1, Extremes
      <3>3. UpTo(values, w) = B
        <4>1. \A i \in 1..n : values[i] <= w <=> values[i] < v
          <5>1. w \in Int /\ w < v
            BY <3>1, <3>2
          <5>2. \A i \in 1..n : values[i] \in Elements(values) /\ values[i] \in Int
            BY DEF Elements
          <5>3. \A i \in 1..n : values[i] < v => values[i] <= w
            BY <3>2, <5>2
          <5>4. QED
            BY <1>5, <5>1, <5>2, <5>3
        <4>2. QED
          BY <4>1 DEF UpTo, Below
      <3>4. w \in Elements(values) /\ ~(v <= w)
        BY <1>5, <3>1, <3>2
      <3>5. ~(k <= Cardinality(B))
        BY <1>6, <3>3, <3>4
      <3>6. QED
        BY <2>1, <3>5
    <2>4. QED
      BY <2>2, <2>3
  <1>8. Sorted(values)[k] = CHOOSE x \in Elements(values) :
                               Cardinality(Below(values, x)) < k /\ k <= Cardinality(UpTo(values, x))
    BY DEF Sorted, Below, UpTo
  <1>9. QED
    BY <1>2, <1>5, <1>7, <1>8

LEMMA SortedIsInOrder ==
    ASSUME NEW n \in Nat \ {0}, NEW values \in [1..n -> Int]
    PROVE  /\ Sorted(values) \in [1..n -> Int] /\ Len(Sorted(values)) = n
           /\ \A k, l \in 1..n : k <= l => Sorted(values)[k] <= Sorted(values)[l]
           /\ \A k \in 1..n : Sorted(values)[k] \in Elements(values)
           /\ \A v \in Elements(values) : Sorted(values)[1] <= v /\ v <= Sorted(values)[n]
  <1> DEFINE sorted == Sorted(values)
  <1>1. \A k \in 1..n : /\ sorted[k] \in Elements(values) /\ sorted[k] \in Int
                        /\ Cardinality(Below(values, sorted[k])) < k
                        /\ k <= Cardinality(UpTo(values, sorted[k]))
    BY Places
  <1>2. sorted = [k \in 1..n |-> sorted[k]]
    <2>1. \E f : Sorted(values) = [k \in DOMAIN values |-> f[k]]
      <3> DEFINE Rank(k) == CHOOSE v \in Elements(values) :
                               /\ Cardinality({i \in DOMAIN values : values[i] < v}) < k
                               /\ k <= Cardinality({i \in DOMAIN values : values[i] <= v})
      <3>1. Sorted(values) = [k \in DOMAIN values |-> Rank(k)]
        BY DEF Sorted
      <3> HIDE DEF Rank
      <3>2. Sorted(values) = [k \in DOMAIN values |-> Sorted(values)[k]]
        BY <3>1
      <3>3. QED
        BY <3>2
    <2>2. QED
      BY <2>1
  <1> HIDE DEF sorted
  <1>3. sorted \in [1..n -> Int] /\ Len(sorted) = n
    BY <1>1, <1>2, LengthOf
  <1>4. \A v : /\ IsFiniteSet(Below(values, v)) /\ Cardinality(Below(values, v)) \in Nat
               /\ IsFiniteSet(UpTo(values, v)) /\ Cardinality(UpTo(values, v)) \in Nat
    <2>1. IsFiniteSet(1..n)
      BY FS_Interval
    <2>2. QED
      BY <2>1, FS_Subset, FS_CardinalityType DEF Below, UpTo
  <1>5. \A k, l \in 1..n : k <= l => sorted[k] <= sorted[l]
    <2> SUFFICES ASSUME NEW k \in 1..n, NEW l \in 1..n, k <= l, ~(sorted[k] <= sorted[l]) PROVE FALSE
      OBVIOUS
    <2>1. UpTo(values, sorted[l]) \in SUBSET Below(values, sorted[k])
      <3> DEFINE x == sorted[k]
                 y == sorted[l]
      <3>1. x \in Int /\ y \in Int /\ ~(x <= y)
        BY <1>1
      <3> HIDE DEF x, y
      <3>2. \A i \in 1..n : values[i] <= y => values[i] < x
        BY <3>1
      <3>3. UpTo(values, y) \in SUBSET Below(values, x)
        BY <3>2 DEF UpTo, Below
      <3>4. QED
        BY <3>3 DEF x, y
    <2>2. Cardinality(UpTo(values, sorted[l])) <= Cardinality(Below(values, sorted[k]))
      BY <1>4, <2>1, FS_Subset
    <2>3. l <= Cardinality(UpTo(values, sorted[l])) /\ Cardinality(Below(values, sorted[k])) < k
      BY <1>1
    <2>4. QED
      BY <1>4, <2>2, <2>3
  <1>6. \A v \in Elements(values) : sorted[1] <= v /\ v <= sorted[n]
    <2> SUFFICES ASSUME NEW i \in 1..n PROVE sorted[1] <= values[i] /\ values[i] <= sorted[n]
      BY DEF Elements
    <2>1. values[i] \in Int /\ 1 \in 1..n /\ n \in 1..n
      OBVIOUS
    <2>2. sorted[1] <= values[i]
      <3> SUFFICES ASSUME ~(sorted[1] <= values[i]) PROVE FALSE
        OBVIOUS
      <3>1. i \in Below(values, sorted[1])
        <4> DEFINE x == sorted[1]
        <4>1. x \in Int /\ ~(x <= values[i])
          BY <1>1, <2>1
        <4> HIDE DEF x
        <4>2. i \in Below(values, x)
          BY <2>1, <4>1 DEF Below
        <4>3. QED
          BY <4>2 DEF x
      <3>2. Cardinality(Below(values, sorted[1])) # 0
        BY <1>4, <3>1, FS_EmptySet
      <3>3. QED
        BY <1>1, <1>4, <2>1, <3>2
    <2>3. values[i] <= sorted[n]
      <3> SUFFICES ASSUME ~(values[i] <= sorted[n]) PROVE FALSE
        OBVIOUS
      <3>1. UpTo(values, sorted[n]) \in SUBSET (1..n \ {i})
        BY <1>1, <2>1 DEF UpTo
      <3>2. IsFiniteSet(1..n \ {i}) /\ Cardinality(1..n \ {i}) = n - 1
        <4>1. IsFiniteSet(1..n) /\ Cardinality(1..n) = n
          BY FS_Interval
        <4>2. QED
          BY <4>1, FS_RemoveElement
      <3>3. Cardinality(UpTo(values, sorted[n])) <= n - 1
        BY <3>1, <3>2, FS_Subset
      <3>4. n <= Cardinality(UpTo(values, sorted[n]))
        BY <1>1, <2>1
      <3>5. QED
        BY <1>4, <3>3, <3>4
    <2>4. QED
      BY <2>2, <2>3
  <1>7. QED
    BY <1>1, <1>3, <1>5, <1>6 DEF sorted

LEMMA Between ==
    ASSUME NEW x \in Int, NEW y \in Int, x <= y, NEW w \in 0..100, NEW u \in w..100
    PROVE  /\ x * (100 - w) + y * w \in Int
           /\ 100 * x <= x * (100 - w) + y * w
           /\ x * (100 - w) + y * w <= x * (100 - u) + y * u
           /\ x * (100 - u) + y * u <= 100 * y
  <1> DEFINE e == y - x
  <1>1. e \in Nat
    OBVIOUS
  <1>2. \A k \in 0..100 : x * (100 - k) + y * k = 100 * x + e * k
    OBVIOUS
  <1>3. 100 * y = 100 * x + e * 100
    OBVIOUS
  <1> HIDE DEF e
  <1>4. 0 <= e * w /\ e * w <= e * u /\ e * u <= e * 100 /\ e * w \in Int /\ e * u \in Int
    <2>1. \A k, m \in Nat : k <= m => e * k <= e * m
      BY <1>1
    <2>2. QED
      BY <1>1, <2>1
  <1>5. QED
    BY <1>2, <1>3, <1>4

LEMMA Mixtures ==
    ASSUME NEW x \in Int, NEW y \in Int, x <= y, NEW w \in 0..100
    PROVE  /\ x * (100 - w) + y * w \in Int
           /\ 100 * x <= x * (100 - w) + y * w
           /\ x * (100 - w) + y * w <= 100 * y
  <1> DEFINE e == y - x
  <1>1. e \in Nat
    OBVIOUS
  <1>2. x * (100 - w) + y * w = 100 * x + e * w
    OBVIOUS
  <1>3. 100 * y = 100 * x + e * 100
    OBVIOUS
  <1> HIDE DEF e
  <1>4. 0 <= e * w /\ e * w <= e * 100 /\ e * w \in Int
    <2>1. \A k, m \in Nat : k <= m => e * k <= e * m
      BY <1>1
    <2>2. QED
      BY <1>1, <2>1
  <1>5. QED
    BY <1>2, <1>3, <1>4

(* The value at a rank in hundredths. *)
Mixed(s, below, weight) == s[below + 1] * (100 - weight) + s[below + 1 + 1] * weight

ValueAt(s, rank) ==
    IF rank % 100 = 0 THEN 100 * s[rank \div 100 + 1] ELSE Mixed(s, rank \div 100, rank % 100)

LEMMA PercentilesAreInOrder ==
    ASSUME NEW n \in Nat \ {0}, NEW s \in [1..n -> Int], Len(s) = n,
           \A k, l \in 1..n : k <= l => s[k] <= s[l], NEW p \in 0..100, NEW q \in p..100
    PROVE  /\ Percentile(s, p) \in Int
           /\ 100 * s[1] <= Percentile(s, p)
           /\ Percentile(s, p) <= Percentile(s, q)
           /\ Percentile(s, q) <= 100 * s[n]
  <1> DEFINE Rank(k) == k * (n - 1)
  <1>1. \A k \in 0..100 : Rank(k) \in 0..100 * (n - 1)
    <2>1. \A k, m \in Nat : k <= 100 => k * m <= 100 * m /\ k * m \in Nat
      OBVIOUS
    <2>2. n - 1 \in Nat
      OBVIOUS
    <2>3. QED
      BY <2>1, <2>2
  <1>2. Rank(p) <= Rank(q)
    <2>1. \A k, l, m \in Nat : k <= l => k * m <= l * m
      OBVIOUS
    <2>2. QED
      BY <2>1
  <1>3. Percentile(s, p) = ValueAt(s, Rank(p)) /\ Percentile(s, q) = ValueAt(s, Rank(q))
    <2>1. \A k : Percentile(s, k) = ValueAt(s, k * (Len(s) - 1))
      BY DEF Percentile, ValueAt, Mixed
    <2>2. QED
      BY <2>1
  <1>4. \A r \in 0..100 * (n - 1) : \E d \in Nat, w \in 0..99 :
           r = 100 * d + w /\ r \div 100 = d /\ r % 100 = w /\ d + 1 \in 1..n /\ (w # 0 => d + 1 + 1 \in 1..n)
    <2> SUFFICES ASSUME NEW r \in 0..100 * (n - 1)
                 PROVE  \E d \in Nat, w \in 0..99 :
                           r = 100 * d + w /\ r \div 100 = d /\ r % 100 = w /\ d + 1 \in 1..n /\ (w # 0 => d + 1 + 1 \in 1..n)
      OBVIOUS
    <2>1. r \in Nat /\ r <= 100 * (n - 1)
      OBVIOUS
    <2>2. r \div 100 \in Nat /\ r % 100 \in 0..99 /\ r = 100 * (r \div 100) + (r % 100)
      BY <2>1
    <2> DEFINE d == r \div 100
               w == r % 100
    <2> HIDE DEF d, w
    <2>3. d \in Nat /\ w \in 0..99 /\ r = 100 * d + w
      BY <2>2 DEF d, w
    <2>4. d + 1 \in 1..n /\ (w # 0 => d + 1 + 1 \in 1..n)
      BY <2>1, <2>3
    <2>5. QED
      BY <2>3, <2>4 DEF d, w
  <1>0. \A r, d, w : r \div 100 = d /\ r % 100 = w /\ w = 0 => ValueAt(s, r) = 100 * s[d + 1]
    BY DEF ValueAt
  <1>12. \A r, d, w : r \div 100 = d /\ r % 100 = w /\ w # 0 => ValueAt(s, r) = Mixed(s, d, w)
    BY DEF ValueAt
  <1>13. \A d, w : Mixed(s, d, w) = s[d + 1] * (100 - w) + s[d + 1 + 1] * w
    BY DEF Mixed
  <1>5. \A r \in 0..100 * (n - 1) :
           /\ ValueAt(s, r) \in Int /\ 100 * s[r \div 100 + 1] <= ValueAt(s, r)
           /\ r % 100 = 0 => ValueAt(s, r) = 100 * s[r \div 100 + 1]
           /\ r % 100 # 0 => ValueAt(s, r) <= 100 * s[r \div 100 + 1 + 1]
    <2> SUFFICES ASSUME NEW r \in 0..100 * (n - 1)
                 PROVE  /\ ValueAt(s, r) \in Int /\ 100 * s[r \div 100 + 1] <= ValueAt(s, r)
                        /\ r % 100 = 0 => ValueAt(s, r) = 100 * s[r \div 100 + 1]
                        /\ r % 100 # 0 => ValueAt(s, r) <= 100 * s[r \div 100 + 1 + 1]
      OBVIOUS
    <2>1. PICK d \in Nat, w \in 0..99 :
             r = 100 * d + w /\ r \div 100 = d /\ r % 100 = w /\ d + 1 \in 1..n /\ (w # 0 => d + 1 + 1 \in 1..n)
      BY <1>4
    <2>2. CASE w = 0
      <3>1. ValueAt(s, r) = 100 * s[d + 1]
        BY <1>0, <2>1, <2>2
      <3>2. s[d + 1] \in Int
        BY <2>1
      <3>3. QED
        BY <2>1, <2>2, <3>1, <3>2
    <2>3. CASE w # 0
      <3>1. ValueAt(s, r) = s[d + 1] * (100 - w) + s[d + 1 + 1] * w
        <4>1. r \div 100 = d /\ r % 100 = w
          BY <2>1
        <4>2. ValueAt(s, r) = Mixed(s, d, w)
          BY <1>12, <2>3, <4>1
        <4>3. QED
          BY <1>13, <4>2
      <3>2. s[d + 1] \in Int /\ s[d + 1 + 1] \in Int /\ s[d + 1] <= s[d + 1 + 1]
        BY <2>1, <2>3
      <3>3. w \in 0..100 /\ w \in w..100
        OBVIOUS
      <3>4. /\ s[d + 1] * (100 - w) + s[d + 1 + 1] * w \in Int
            /\ 100 * s[d + 1] <= s[d + 1] * (100 - w) + s[d + 1 + 1] * w
            /\ s[d + 1] * (100 - w) + s[d + 1 + 1] * w <= 100 * s[d + 1 + 1]
        <4> DEFINE x == s[d + 1]
                   y == s[d + 1 + 1]
        <4>1. x \in Int /\ y \in Int /\ x <= y
          BY <3>2
        <4> HIDE DEF x, y
        <4>2. /\ x * (100 - w) + y * w \in Int
              /\ 100 * x <= x * (100 - w) + y * w
              /\ x * (100 - w) + y * w <= 100 * y
          BY <3>3, <4>1, Mixtures
        <4>3. QED
          BY <4>2 DEF x, y
      <3>5. r \div 100 = d /\ r % 100 # 0
        BY <2>1, <2>3
      <3>6. ValueAt(s, r) \in Int /\ 100 * s[d + 1] <= ValueAt(s, r) /\ ValueAt(s, r) <= 100 * s[d + 1 + 1]
        BY <3>1, <3>4, Zenon
      <3>7. QED
        BY <3>5, <3>6, Zenon
    <2>4. QED
      BY <2>2, <2>3
  <1>6. ASSUME NEW r \in 0..100 * (n - 1), NEW t \in 0..100 * (n - 1), r <= t
        PROVE  ValueAt(s, r) <= ValueAt(s, t)
    <2>1. PICK d \in Nat, w \in 0..99 :
             r = 100 * d + w /\ r \div 100 = d /\ r % 100 = w /\ d + 1 \in 1..n /\ (w # 0 => d + 1 + 1 \in 1..n)
      BY <1>4
    <2>2. PICK e \in Nat, u \in 0..99 :
             t = 100 * e + u /\ t \div 100 = e /\ t % 100 = u /\ e + 1 \in 1..n /\ (u # 0 => e + 1 + 1 \in 1..n)
      BY <1>4
    <2>3. (d = e /\ w <= u) \/ d < e
      BY <1>6, <2>1, <2>2
    <2>4. CASE d < e
      <3>1. 100 * s[e + 1] <= ValueAt(s, t) /\ s[e + 1] \in Int /\ ValueAt(s, t) \in Int
        BY <1>5, <2>2
      <3>2. CASE w = 0
        <4>1. ValueAt(s, r) = 100 * s[d + 1] /\ s[d + 1] \in Int /\ s[d + 1] <= s[e + 1]
          BY <1>5, <2>1, <2>2, <2>4, <3>2
        <4>2. QED
          BY <3>1, <4>1
      <3>3. CASE w # 0
        <4>1. ValueAt(s, r) <= 100 * s[d + 1 + 1] /\ ValueAt(s, r) \in Int
          <5>1. r \div 100 = d /\ r % 100 # 0
            BY <2>1, <3>3
          <5>2. /\ ValueAt(s, r) \in Int
                /\ r % 100 # 0 => ValueAt(s, r) <= 100 * s[r \div 100 + 1 + 1]
            BY <1>5
          <5>3. QED
            BY <5>1, <5>2
        <4>2. s[d + 1 + 1] \in Int /\ s[d + 1 + 1] <= s[e + 1]
          BY <2>1, <2>2, <2>4, <3>3
        <4>3. s[e + 1] \in Int
          BY <3>1
        <4>4. \A x, y \in Int : x <= y => 100 * x <= 100 * y
          OBVIOUS
        <4>5. 100 * s[d + 1 + 1] <= 100 * s[e + 1]
          BY <4>2, <4>3, <4>4
        <4>6. ValueAt(s, r) <= 100 * s[e + 1]
          BY <4>1, <4>2, <4>3, <4>5
        <4>7. QED
          BY <3>1, <4>1, <4>3, <4>6
      <3>4. QED
        BY <3>2, <3>3
    <2>5. CASE d = e /\ w <= u
      <3>1. CASE w = 0
        <4>1. ValueAt(s, r) = 100 * s[d + 1]
          BY <1>5, <2>1, <3>1
        <4>2. 100 * s[e + 1] <= ValueAt(s, t)
          BY <1>5, <2>2
        <4>3. QED
          BY <2>5, <4>1, <4>2
      <3>2. CASE w # 0
        <4>1. /\ ValueAt(s, r) = s[d + 1] * (100 - w) + s[d + 1 + 1] * w
              /\ ValueAt(s, t) = s[d + 1] * (100 - u) + s[d + 1 + 1] * u
          <5>1. r \div 100 = d /\ r % 100 = w /\ t \div 100 = d /\ t % 100 = u /\ u # 0
            BY <2>1, <2>2, <2>5, <3>2
          <5>2. ValueAt(s, r) = Mixed(s, d, w)
            BY <1>12, <3>2, <5>1
          <5>3. ValueAt(s, t) = Mixed(s, d, u)
            BY <1>12, <5>1
          <5>4. QED
            BY <1>13, <5>2, <5>3
        <4>2. s[d + 1] \in Int /\ s[d + 1 + 1] \in Int /\ s[d + 1] <= s[d + 1 + 1]
          BY <2>1, <3>2
        <4>3. w \in 0..100 /\ u \in w..100
          BY <2>5
        <4>4. s[d + 1] * (100 - w) + s[d + 1 + 1] * w <= s[d + 1] * (100 - u) + s[d + 1 + 1] * u
          BY <4>2, <4>3, Between
        <4>5. QED
          BY <4>1, <4>4
      <3>3. QED
        BY <3>1, <3>2
    <2>6. QED
      BY <2>3, <2>4, <2>5
  <1>7. ValueAt(s, 0) = 100 * s[1] /\ ValueAt(s, 100 * (n - 1)) = 100 * s[n]
    <2>1. 0 % 100 = 0 /\ 0 \div 100 + 1 = 1 /\ (100 * (n - 1)) % 100 = 0 /\ (100 * (n - 1)) \div 100 + 1 = n
      OBVIOUS
    <2>2. QED
      BY <2>1 DEF ValueAt
  <1>8. 0 \in 0..100 * (n - 1) /\ 100 * (n - 1) \in 0..100 * (n - 1)
    OBVIOUS
  <1>9. Rank(p) \in 0..100 * (n - 1) /\ Rank(q) \in 0..100 * (n - 1)
    <2>1. p \in 0..100 /\ q \in 0..100
      OBVIOUS
    <2> HIDE DEF Rank
    <2>2. QED
      BY <1>1, <2>1
  <1>10. /\ ValueAt(s, 0) <= ValueAt(s, Rank(p)) /\ ValueAt(s, Rank(p)) <= ValueAt(s, Rank(q))
         /\ ValueAt(s, Rank(q)) <= ValueAt(s, 100 * (n - 1))
    <2> HIDE DEF Rank
    <2>1. 0 <= Rank(p) /\ Rank(q) <= 100 * (n - 1)
      BY <1>9
    <2>2. QED
      BY <1>2, <1>6, <1>8, <1>9, <2>1
  <1>11. ValueAt(s, Rank(p)) \in Int
    BY <1>5, <1>9
  <1>14. QED
    BY <1>3, <1>7, <1>10, <1>11

-----------------------------------------------------------------------------
(* The metrics of a run. *)

(* The metrics of a completed run are those of its results, which are all there. *)
CompletedInv ==
    /\ status \in {"running", "completed"} => results = [i \in DOMAIN results |-> results[i]]
    /\ status = "completed" =>
          aggregate = Aggregate(results) /\ aggregate # NULL /\ \A i \in Rows : results[i] # NULL

LEMMA ChangedFunction ==
    ASSUME NEW f, f = [k \in DOMAIN f |-> f[k]], NEW i, NEW x, NEW g, g = [f EXCEPT ![i] = x]
    PROVE  g = [k \in DOMAIN g |-> g[k]]
  OBVIOUS

LEMMA RunsAreAggregated == Spec => []CompletedInv
  <1>1. Init => CompletedInv
    BY DEF Init, CompletedInv
  <1>2. CompletedInv /\ [Next]_vars => CompletedInv'
    <2> SUFFICES ASSUME CompletedInv, [Next]_vars PROVE CompletedInv'
      OBVIOUS
    <2>1. ASSUME NEW w, Begin(w)
          PROVE  CompletedInv'
      <3>1. CASE ReachRows(Parse(w, env))
        <4>1. \E D : results' = [i \in D |-> NULL]
          BY <3>1 DEF ReachRows
        <4>2. results' = [i \in DOMAIN results' |-> results'[i]]
          BY <4>1
        <4>3. QED
          BY <3>1, <4>2 DEF ReachRows, CompletedInv
      <3>2. CASE MissRows(Parse(w, env))
        BY <3>2 DEF MissRows, CompletedInv
      <3>3. QED
        BY <2>1, <3>1, <3>2 DEF Begin
    <2>2. CASE Start \/ ResumeLocal \/ ResumeRemote
      BY <2>1, <2>2 DEF Start, ResumeLocal, ResumeRemote
    <2>3. ASSUME NEW i \in Rows, EvaluateRow(i) \/ ReuseRow(i)
          PROVE  CompletedInv'
      <3>1. status = "running" /\ status' = "running" /\ \E x : results' = [results EXCEPT ![i] = x]
        BY <2>3 DEF EvaluateRow, ReuseRow, Pending
      <3>2. results' = [k \in DOMAIN results' |-> results'[k]]
        BY <3>1, ChangedFunction DEF CompletedInv
      <3>3. QED
        BY <3>1, <3>2 DEF CompletedInv
    <2>4. CASE \E i \in Rows : FailRow(i)
      BY <2>4 DEF FailRow, Fail, CompletedInv
    <2>5. CASE Complete
      <3>1. CASE Fail
        BY <3>1 DEF Fail, CompletedInv
      <3>2. CASE ~Fail
        <4>1. /\ status = "running" /\ status' = "completed" /\ UNCHANGED <<results, seen>>
              /\ aggregate' = Aggregate(results) /\ Aggregate(results) # NULL
              /\ \A i \in Rows : results[i] # NULL
          BY <2>5, <3>2 DEF Complete
        <4>2. aggregate' = Aggregate(results')
          BY <4>1
        <4>3. Rows' = Rows
          BY <4>1 DEF Rows
        <4>4. QED
          BY <4>1, <4>2, <4>3 DEF CompletedInv
      <3>3. QED
        BY <3>1, <3>2
    <2>6. CASE Change \/ UNCHANGED vars
      <3>1. UNCHANGED <<status, seen, results, aggregate>>
        BY <2>6 DEF Change, vars
      <3>2. Rows' = Rows /\ Aggregate(results') = Aggregate(results)
        BY <3>1 DEF Rows
      <3>3. QED
        BY <3>1, <3>2 DEF CompletedInv
    <2>7. QED
      BY <2>2, <2>3, <2>4, <2>5, <2>6 DEF Next
  <1>3. QED
    BY <1>1, <1>2, PTL DEF Spec

MetricsInv == SettingsInv /\ AttemptInv /\ OutputsInv /\ ResultsInv /\ CompletedInv

(* A completed run has its results in order, each that of a stored output. *)
LEMMA ResultsAreWhole ==
    ASSUME MetricsInv, status = "completed", results # <<>>
    PROVE  \E n \in Nat \ {0} :
              /\ Rows = 1..n /\ DOMAIN results = 1..n /\ Len(results) = n
              /\ results = [i \in 1..n |-> results[i]]
              /\ \A i \in 1..n : i \in Stored /\ results[i] # NULL /\ results[i] = Decode(outputs[i].output)
  <1>1. PICK batch \in Batches : seen \in Forms(batch) /\ DOMAIN results = DOMAIN batch
    BY DEF MetricsInv, AttemptInv
  <1>2. PICK n \in Nat : DOMAIN batch = 1..n
    <2>1. \E k \in 0..Len(dataset) : DOMAIN batch = 1..k
      BY BatchesAreShort DEF MetricsInv, SettingsInv
    <2>2. QED
      BY <2>1
  <1>3. Rows = 1..n /\ DOMAIN results = 1..n
    BY <1>1, <1>2, BatchesAreShort DEF MetricsInv, SettingsInv, Rows
  <1>4. results = [i \in 1..n |-> results[i]]
    BY <1>3 DEF MetricsInv, CompletedInv
  <1>5. n # 0
    <2> SUFFICES ASSUME n = 0 PROVE FALSE
      OBVIOUS
    <2>1. 1..n = {}
      OBVIOUS
    <2>2. results = <<>>
      BY <1>4, <2>1
    <2>3. QED
      BY <2>2
  <1>6. Len(results) = n
    BY <1>4, LengthOf
  <1>7. \A i \in Rows : i \in Stored /\ results[i] # NULL /\ results[i] = Decode(outputs[i].output)
    BY DEF MetricsInv, ResultsInv, CompletedInv
  <1>8. QED
    BY <1>3, <1>4, <1>5, <1>6, <1>7

(* What is counted of a completed multiple-choice run. *)
LEMMA OutputsAreCounted ==
    ASSUME MetricsInv, CompletedAsStored("multiple_choice")
    PROVE  /\ Counted(DecodedOutputs, config.style.labels)
           /\ DOMAIN DecodedOutputs = Rows /\ Rows # {}
           /\ aggregate.of = Cardinality(Rows)
           /\ aggregate.correct = Cardinality({i \in Rows : DecodedOutputs[i].parsed = DecodedOutputs[i].golden})
  <1> DEFINE labels == config.style.labels
             outs == DecodedOutputs
  <1>1. PICK n \in Nat \ {0} :
           /\ Rows = 1..n /\ DOMAIN results = 1..n /\ Len(results) = n
           /\ results = [i \in 1..n |-> results[i]]
           /\ \A i \in 1..n : i \in Stored /\ results[i] # NULL /\ results[i] = Decode(outputs[i].output)
    BY ResultsAreWhole DEF CompletedAsStored
  <1>2. DOMAIN outs = Rows /\ \A i \in Rows : outs[i] = Decode(outputs[i].output) /\ outs[i] = results[i]
    BY <1>1 DEF DecodedOutputs, CompletedAsStored
  <1> HIDE DEF outs
  <1>3. \A i \in Rows :
           /\ outs[i].kind = "classification" /\ labels \in Seq(Strings)
           /\ outs[i].golden \in Elements(labels) /\ outs[i].parsed \in Elements(labels) \cup {NULL}
           /\ outs[i].correct <=> outs[i].parsed = outs[i].golden
    <2> SUFFICES ASSUME NEW i \in Rows
                 PROVE  /\ outs[i].kind = "classification" /\ labels \in Seq(Strings)
                        /\ outs[i].golden \in Elements(labels) /\ outs[i].parsed \in Elements(labels) \cup {NULL}
                        /\ outs[i].correct <=> outs[i].parsed = outs[i].golden
      OBVIOUS
    <2>1. i \in Stored /\ outs[i] = Decode(outputs[i].output) /\ config.style = outputs[i].by.style
          /\ config.style.type = "multiple_choice"
      BY <1>1, <1>2 DEF CompletedAsStored
    <2>2. /\ outs[i].kind = "classification" /\ labels \in Seq(Strings) /\ outs[i].response \in Seq(Strings)
          /\ outs[i].golden \in Elements(labels)
          /\ outs[i].parsed = ExtractLabel(outs[i].response, labels)
          /\ outs[i].correct <=> outs[i].parsed = outs[i].golden
      BY <2>1, OutputsAreJudged DEF MetricsInv
    <2>3. outs[i].parsed \in Elements(labels) \cup {NULL}
      BY <2>2, LastLabelIsExtracted
    <2>4. QED
      BY <2>2, <2>3
  <1>4. IsFiniteSet(Rows) /\ Cardinality(Rows) = n /\ Rows # {}
    BY <1>1, FS_Interval
  <1>5. labels \in Seq(Strings) /\ labels # <<>> /\ Cardinality(Elements(labels)) = Len(labels)
    <2>1. ValidateStyle(config.style) /\ config.style.type = "multiple_choice"
      BY DEF CompletedAsStored, MetricsInv, SettingsInv, ConfigInv
    <2>2. QED
      BY <1>3, <1>4, <2>1 DEF ValidateStyle
  <1>6. Counted(outs, labels)
    BY <1>2, <1>3, <1>4, <1>5, LabelsAreDistinct DEF Counted, Countable
  <1>7. aggregate = [correct |-> Cardinality({i \in DOMAIN results : results[i].correct}), of |-> Len(results)]
    <2>1. aggregate = Aggregate(results)
      BY DEF MetricsInv, CompletedInv, CompletedAsStored
    <2>2. \A i \in DOMAIN results : results[i].kind = "classification"
      BY <1>1, <1>2, <1>3
    <2>3. results # <<>>
      BY DEF CompletedAsStored
    <2>4. QED
      BY <2>1, <2>2, <2>3 DEF Aggregate
  <1>8. {i \in DOMAIN results : results[i].correct} = {i \in Rows : outs[i].parsed = outs[i].golden}
    BY <1>1, <1>2, <1>3
  <1>9. aggregate.of = n /\ aggregate.correct = Cardinality({i \in DOMAIN results : results[i].correct})
    BY <1>1, <1>7
  <1>10. QED
    BY <1>2, <1>4, <1>6, <1>8, <1>9 DEF outs

LEMMA AccuracyIsCounted ==
    ASSUME MetricsInv PROVE AccuracyMatchesConfusion
  <1> SUFFICES ASSUME CompletedAsStored("multiple_choice")
               PROVE  LET labels == config.style.labels
                          matrix == ConfusionMatrix(DecodedOutputs, labels)
                      IN  /\ Countable(DecodedOutputs, labels)
                          /\ SumOver([l \in DOMAIN labels |-> Support(matrix, l)]) = aggregate.of
                          /\ SumOver([l \in DOMAIN labels |-> matrix[l][l]]) = aggregate.correct
    BY DEF AccuracyMatchesConfusion
  <1>1. Counted(DecodedOutputs, config.style.labels)
    BY OutputsAreCounted
  <1>2. Countable(DecodedOutputs, config.style.labels)
    BY <1>1 DEF Counted
  <1>3. LET labels == config.style.labels
            matrix == ConfusionMatrix(DecodedOutputs, labels)
        IN  /\ SumOver([l \in DOMAIN labels |-> Support(matrix, l)]) = Cardinality(Rows)
            /\ SumOver([l \in DOMAIN labels |-> matrix[l][l]])
                  = Cardinality({i \in Rows : DecodedOutputs[i].parsed = DecodedOutputs[i].golden})
    BY <1>1, MatrixAddsUp, OutputsAreCounted
  <1>4. QED
    BY <1>2, <1>3, OutputsAreCounted

LEMMA F1IsShown ==
    ASSUME MetricsInv, CompletedAsStored("multiple_choice"), "f1" \in DOMAIN OutputMetrics(config, DecodedOutputs, TRUE)
    PROVE  OutputMetrics(config, DecodedOutputs, TRUE)["f1"]
              = F1Metrics(ConfusionMatrix(DecodedOutputs, config.style.labels))
  <1> DEFINE outs == DecodedOutputs
             requested == {i \in DOMAIN config.metrics : RequestedFor(config.metrics[i], TRUE)}
             names == {config.metrics[i].name : i \in requested}
             matrix == ConfusionMatrix(outs, config.style.labels)
             metrics == OutputMetrics(config, outs, TRUE)
  <1>1. DOMAIN outs # {} /\ Countable(outs, config.style.labels) /\ config.style.type = "multiple_choice"
    BY OutputsAreCounted DEF Counted, CompletedAsStored
  <1> HIDE DEF outs
  <1>2. metrics = IF requested = {} THEN [n \in {} |-> NULL]
                  ELSE [n \in names |-> IF n = "f1" THEN F1Metrics(matrix) ELSE matrix]
    BY <1>1 DEF OutputMetrics
  <1>3. "f1" \in DOMAIN metrics
    BY DEF outs
  <1> HIDE DEF metrics, matrix, names, requested
  <1>4. metrics["f1"] = F1Metrics(matrix)
    BY <1>2, <1>3
  <1>5. QED
    BY <1>4 DEF metrics, matrix, outs

(* A ratio is the F1 of a label in the rows, as the harmonic mean of counts and as the SDK
   has it. *)
IsF1Of(ratio, outs, label, rows) ==
    LET actual == [i \in rows |-> outs[i].golden = label]
        predicted == [i \in rows |-> outs[i].parsed = label]
        Count(f) == Cardinality({i \in rows : f[i]})
        tp == Cardinality({i \in rows : actual[i] /\ predicted[i]})
        of == Count(actual) + Count(predicted)
    IN  /\ SameRatio(ratio, IF of = 0 THEN Whole(0) ELSE <<2 * tp, of>>)
        /\ SameRatio(ratio, BinaryF1(actual, predicted))

LEMMA F1AgreesWithCounts ==
    ASSUME NEW outs, NEW labels, Counted(outs, labels), NEW l \in DOMAIN labels,
           NEW rows, rows = DOMAIN outs
    PROVE  IsF1Of(F1Metrics(ConfusionMatrix(outs, labels)).labels[l], outs, labels[l], rows)
  <1> DEFINE matrix == ConfusionMatrix(outs, labels)
             f1 == F1Metrics(matrix)
             actual == [i \in rows |-> outs[i].golden = labels[l]]
             predicted == [i \in rows |-> outs[i].parsed = labels[l]]
             a == Cardinality(With(outs, labels[l], labels[l]))
             b == Cardinality(FalsePositives(outs, labels[l]))
             c == Cardinality(FalseNegatives(outs, labels[l]))
             A == {i \in rows : actual[i]}
             P == {i \in rows : predicted[i]}
             T == {i \in rows : actual[i] /\ predicted[i]}
             of == Cardinality(A) + Cardinality(P)
  <1>1. f1.labels[l] = F1Of(a, b, c)
    <2>1. l \in DOMAIN matrix
      BY MatrixCells
    <2>2. F1(matrix, l) = F1Of(a, b, c)
      BY F1OfMatrix DEF F1OfLabel
    <2> HIDE DEF matrix
    <2>3. f1.labels = [k \in DOMAIN matrix |-> F1(matrix, k)]
      BY DEF F1Metrics
    <2>4. QED
      BY <2>1, <2>2, <2>3
  <1>2. BinaryF1(actual, predicted) = F1Of(a, b, c)
    BY F1OfSamples DEF F1OfLabel
  <1>3. T = With(outs, labels[l], labels[l])
    BY DEF With
  <1>4. A = {i \in rows : outs[i].golden = labels[l]} /\ P = {i \in rows : outs[i].parsed = labels[l]}
    OBVIOUS
  <1>5. a \in Nat /\ b \in Nat /\ c \in Nat /\ Cardinality(A) = a + c /\ Cardinality(P) = a + b
    <2>1. a \in Nat /\ b \in Nat /\ c \in Nat
      BY PositivesAndNegatives
    <2>2. Cardinality({i \in rows : outs[i].golden = labels[l]}) = a + c
      BY PositivesAndNegatives
    <2>3. Cardinality({i \in rows : outs[i].parsed = labels[l]}) = a + b
      BY PositivesAndNegatives
    <2> HIDE DEF a, b, c, A, P
    <2>4. QED
      BY <1>4, <2>1, <2>2, <2>3
  <1>6. Cardinality(T) = a
    BY <1>3
  <1> HIDE DEF f1, actual, predicted, a, b, c, A, P, T
  <1>7. of = 2 * a + b + c
    BY <1>5
  <1>8. (IF of = 0 THEN Whole(0) ELSE <<2 * Cardinality(T), of>>) = HarmonicMean(a, b, c)
    BY <1>6, <1>7 DEF HarmonicMean
  <1>9. SameRatio(f1.labels[l], IF of = 0 THEN Whole(0) ELSE <<2 * Cardinality(T), of>>)
    BY <1>1, <1>5, <1>8, F1IsHarmonicMean
  <1>10. SameRatio(f1.labels[l], BinaryF1(actual, predicted))
    BY <1>1, <1>2 DEF SameRatio
  <1>11. QED
    BY <1>9, <1>10 DEF f1, actual, predicted, A, P, T, matrix, IsF1Of

LEMMA F1IsRight ==
    ASSUME MetricsInv PROVE F1MatchesReference
  <1> SUFFICES ASSUME CompletedAsStored("multiple_choice"),
                      "f1" \in DOMAIN OutputMetrics(config, DecodedOutputs, TRUE)
               PROVE  LET labels == config.style.labels
                          f1 == OutputMetrics(config, DecodedOutputs, TRUE)["f1"]
                      IN  /\ \A l \in DOMAIN labels : IsF1Of(f1.labels[l], DecodedOutputs, labels[l], Rows)
                          /\ \A average \in {f1.macro, f1.weighted} : average[1] \in 0..average[2]
    BY DEF F1MatchesReference, IsF1Of
  <1> DEFINE outs == DecodedOutputs
             labels == config.style.labels
             f1 == F1Metrics(ConfusionMatrix(outs, labels))
  <1>1. Counted(outs, labels) /\ DOMAIN outs = Rows /\ Rows # {}
    BY OutputsAreCounted
  <1>2. OutputMetrics(config, outs, TRUE)["f1"] = f1
    BY F1IsShown
  <1> HIDE DEF outs, labels
  <1>3. f1.macro[1] \in 0..f1.macro[2] /\ f1.weighted[1] \in 0..f1.weighted[2]
    BY <1>1, AveragesAreRatios
  <1>4. \A l \in DOMAIN labels : IsF1Of(f1.labels[l], outs, labels[l], Rows)
    BY <1>1, F1AgreesWithCounts
  <1> HIDE DEF f1
  <1>5. QED
    BY <1>2, <1>3, <1>4 DEF outs, labels

(* The statistics of a completed similarity run are those of its scores. *)
LEMMA ScoresAreAggregated ==
    ASSUME MetricsInv, status = "completed", config.style.type = "similarity", NEW n \in Nat \ {0},
           Rows = 1..n, DOMAIN results = 1..n, results # <<>>,
           \A i \in 1..n : i \in Stored /\ results[i] # NULL /\ results[i] = Decode(outputs[i].output)
    PROVE  /\ [i \in 1..n |-> results[i].score] \in [1..n -> Int]
           /\ aggregate = Statistics([i \in 1..n |-> results[i].score])
  <1>1. ASSUME NEW i \in 1..n
        PROVE  results[i].kind = "similarity" /\ results[i].score \in Int
    <2>1. config.style = outputs[i].by.style
      BY ResultsAreOfOneStyle DEF MetricsInv
    <2>2. QED
      BY <2>1, OutputsAreJudged DEF MetricsInv
  <1>2. aggregate = Aggregate(results)
    BY DEF MetricsInv, CompletedInv
  <1>3. 1 \in DOMAIN results /\ results[1].kind # "classification"
    BY <1>1
  <1>4. Aggregate(results) = Statistics([i \in DOMAIN results |-> results[i].score])
    BY <1>1, <1>3 DEF Aggregate
  <1>5. QED
    BY <1>1, <1>2, <1>4

LEMMA StatisticsAreInOrder ==
    ASSUME NEW n \in Nat \ {0}, NEW values \in [1..n -> Int]
    PROVE  LET a == Statistics(values)
               scores == {values[i] : i \in 1..n}
           IN  /\ {a.min, a.max} \subseteq scores /\ \A s \in scores : a.min <= s /\ s <= a.max
               /\ 100 * a.min <= a.median /\ a.median <= a.p95 /\ a.p95 <= a.p99 /\ a.p99 <= 100 * a.max
               /\ a.sum \in a.min * n..a.max * n
  <1> DEFINE s == Sorted(values)
             a == Statistics(values)
             scores == {values[i] : i \in 1..n}
  <1>1. Len(values) = n /\ DOMAIN values = 1..n
    <2>1. values = [i \in 1..n |-> values[i]]
      OBVIOUS
    <2>2. QED
      BY <2>1, LengthOf
  <1>2. /\ s \in [1..n -> Int] /\ Len(s) = n
        /\ \A k, l \in 1..n : k <= l => s[k] <= s[l]
        /\ \A k \in 1..n : s[k] \in scores
        /\ \A v \in scores : s[1] <= v /\ v <= s[n]
    <2>1. scores = Elements(values)
      BY <1>1 DEF Elements
    <2>2. QED
      BY <2>1, SortedIsInOrder
  <1> HIDE DEF s
  <1>3. /\ a.min = s[1] /\ a.max = s[n] /\ a.sum = SumOver(values)
        /\ a.median = Percentile(s, 50) /\ a.p95 = Percentile(s, 95) /\ a.p99 = Percentile(s, 99)
    BY <1>1 DEF Statistics, s
  <1> HIDE DEF a
  <1>4. /\ 100 * s[1] <= Percentile(s, 50) /\ Percentile(s, 50) <= Percentile(s, 95)
        /\ Percentile(s, 95) <= Percentile(s, 99) /\ Percentile(s, 99) <= 100 * s[n]
    <2>1. 50 \in 0..100 /\ 95 \in 50..100
      OBVIOUS
    <2>a. 95 \in 0..100 /\ 99 \in 95..100
      OBVIOUS
    <2>2. ASSUME NEW p \in 0..100, NEW q \in p..100
          PROVE  100 * s[1] <= Percentile(s, p) /\ Percentile(s, p) <= Percentile(s, q) /\ Percentile(s, q) <= 100 * s[n]
      BY <1>2, PercentilesAreInOrder
    <2>3. 100 * s[1] <= Percentile(s, 50) /\ Percentile(s, 50) <= Percentile(s, 95)
      BY <2>1, <2>2
    <2>4. Percentile(s, 95) <= Percentile(s, 99) /\ Percentile(s, 99) <= 100 * s[n]
      BY <2>a, <2>2
    <2>5. QED
      BY <2>3, <2>4
  <1>5. SumOver(values) \in s[1] * n..s[n] * n
    <2>1. IsFiniteSet(1..n) /\ Cardinality(1..n) = n
      BY FS_Interval
    <2>2. s[1] \in Int /\ s[n] \in Int
      BY <1>2
    <2>3. \A d \in 1..n : s[1] <= values[d] /\ values[d] <= s[n]
      BY <1>2
    <2>4. QED
      BY <2>1, <2>2, <2>3, SumIsBounded
  <1> HIDE DEF scores
  <1>6. s[1] \in scores /\ s[n] \in scores
    <2>1. 1 \in 1..n /\ n \in 1..n
      OBVIOUS
    <2>2. QED
      BY <1>2, <2>1
  <1>7. /\ {a.min, a.max} \subseteq scores /\ \A v \in scores : a.min <= v /\ v <= a.max
    BY <1>2, <1>3, <1>6
  <1>8. QED
    BY <1>3, <1>4, <1>5, <1>7 DEF a, scores

LEMMA PercentilesAreRight ==
    ASSUME MetricsInv PROVE PercentilesAreOrdered
  <1> SUFFICES ASSUME status = "completed", config.style.type = "similarity", results # <<>>
               PROVE  LET a == aggregate
                          scores == {results[i].score : i \in Rows}
                      IN  /\ {a.min, a.max} \subseteq scores /\ \A s \in scores : a.min <= s /\ s <= a.max
                          /\ 100 * a.min <= a.median /\ a.median <= a.p95 /\ a.p95 <= a.p99 /\ a.p99 <= 100 * a.max
                          /\ a.sum \in a.min * Len(results)..a.max * Len(results)
    BY DEF PercentilesAreOrdered
  <1>1. PICK n \in Nat \ {0} :
           /\ Rows = 1..n /\ DOMAIN results = 1..n /\ Len(results) = n
           /\ results = [i \in 1..n |-> results[i]]
           /\ \A i \in 1..n : i \in Stored /\ results[i] # NULL /\ results[i] = Decode(outputs[i].output)
    BY ResultsAreWhole
  <1> DEFINE values == [i \in 1..n |-> results[i].score]
  <1>2. values \in [1..n -> Int] /\ aggregate = Statistics(values)
    BY <1>1, ScoresAreAggregated
  <1>3. {results[i].score : i \in Rows} = {values[i] : i \in 1..n}
    BY <1>1
  <1> HIDE DEF values
  <1>4. LET a == Statistics(values)
            scores == {values[i] : i \in 1..n}
        IN  /\ {a.min, a.max} \subseteq scores /\ \A s \in scores : a.min <= s /\ s <= a.max
            /\ 100 * a.min <= a.median /\ a.median <= a.p95 /\ a.p95 <= a.p99 /\ a.p99 <= 100 * a.max
            /\ a.sum \in a.min * n..a.max * n
    BY <1>2, StatisticsAreInOrder
  <1>5. QED
    BY <1>1, <1>2, <1>3, <1>4

(* What a run reports agrees with its stored outputs and with its scores
   (aggregate_metrics, compute_f1_metrics, percentile). *)
THEOREM ReportsAgree == Spec => []MetricsMatchOutputs
  <1>1. MetricsInv => MetricsMatchOutputs
    BY AccuracyIsCounted, F1IsRight, PercentilesAreRight DEF MetricsMatchOutputs
  <1>2. QED
    BY <1>1, Configured, AttemptsReadBatches, OutputsAreKept, ResultsAreStored, RunsAreAggregated, PTL DEF MetricsInv

-----------------------------------------------------------------------------
(* Comparisons: the metrics of two runs. *)

Fraction == Int \X Int

(* Every metric has one value. *)
HasValues(metrics) == \A name \in DOMAIN metrics : \E x \in Fraction : metrics[name] = <<x>>

ValuesOf(metrics, name) == IF name \in DOMAIN metrics THEN metrics[name] ELSE <<>>

LEMMA NamesOfMetrics ==
    ASSUME NEW a, NEW b
    PROVE  DOMAIN MetricRows(a, b) = DOMAIN a \cup DOMAIN b
  BY DEF MetricRows

LEMMA RowOfMetric ==
    ASSUME NEW a, NEW b, NEW name \in DOMAIN a \cup DOMAIN b
    PROVE  LET left == ValuesOf(a, name)
               right == ValuesOf(b, name)
           IN  /\ MetricRows(a, b)[name].direction = Direction(Deltas(left, right))
               /\ MetricRows(a, b)[name].same =
                    (Len(left) = Len(right) /\ \A i \in DOMAIN left : SameRatio(left[i], right[i]))
  BY DEF MetricRows, ValuesOf

LEMMA SameValuesAreSame ==
    ASSUME NEW a, NEW b, NEW name \in DOMAIN a \cup DOMAIN b, ValuesOf(a, name) = ValuesOf(b, name)
    PROVE  MetricRows(a, b)[name].same
  <1>1. \A x : SameRatio(x, x)
    BY DEF SameRatio
  <1> DEFINE left == ValuesOf(a, name)
             right == ValuesOf(b, name)
  <1>2. MetricRows(a, b)[name].same = (Len(left) = Len(right) /\ \A i \in DOMAIN left : SameRatio(left[i], right[i]))
    BY RowOfMetric
  <1>3. left = right
    OBVIOUS
  <1> HIDE DEF left, right
  <1>4. QED
    BY <1>1, <1>2, <1>3

(* How much more y is than x. *)
Excess(x, y) == y[1] * x[2] - x[1] * y[2]
DirectionOf(excess) == IF excess > 0 THEN "up" ELSE IF excess < 0 THEN "down" ELSE "same"

LEMMA PairsHaveDirections ==
    ASSUME NEW x \in Fraction, NEW y \in Fraction
    PROVE  Direction(Deltas(<<x>>, <<y>>)) = DirectionOf(Excess(x, y))
  <1> DEFINE d == Plus(y, Times(Whole(-1), x))
             deltas == Deltas(<<x>>, <<y>>)
  <1>1. x[1] \in Int /\ x[2] \in Int /\ y[1] \in Int /\ y[2] \in Int
    BY DEF Fraction
  <1>2. d = <<y[1] * (1 * x[2]) + ((-1) * x[1]) * y[2], y[2] * (1 * x[2])>>
    <2>1. Times(Whole(-1), x) = <<(-1) * x[1], 1 * x[2]>>
      BY DEF Times, Whole
    <2>2. QED
      BY <2>1 DEF Plus
  <1>3. /\ y[1] * (1 * x[2]) + ((-1) * x[1]) * y[2] = Excess(x, y)
        /\ y[1] * (1 * x[2]) + ((-1) * x[1]) * y[2] \in Int /\ y[2] * (1 * x[2]) \in Int /\ Excess(x, y) \in Int
    <2>1. 1 * x[2] = x[2] /\ (-1) * x[1] = 0 - x[1]
      BY <1>1
    <2>2. \A u, v \in Int : (0 - u) * v = 0 - u * v /\ u * v \in Int
      OBVIOUS
    <2>3. (0 - x[1]) * y[2] = 0 - x[1] * y[2]
      BY <1>1, <2>2
    <2>4. x[1] * y[2] \in Int /\ y[1] * x[2] \in Int /\ y[2] * x[2] \in Int
      BY <1>1, <2>2
    <2>5. QED
      BY <2>1, <2>3, <2>4 DEF Excess
  <1>4. d[1] = Excess(x, y) /\ d \in Int \X Int
    BY <1>2, <1>3
  <1>5. d # NULL
    BY <1>4, DeltasAssumption
  <1>6. DOMAIN deltas = {1} /\ deltas[1] = d
    <2>1. Max({1, 1}) = 1
      BY DEF Max
    <2>2. Len(<<x>>) = 1 /\ Len(<<y>>) = 1 /\ 1 \in DOMAIN <<x>> /\ 1 \in DOMAIN <<y>>
      OBVIOUS
    <2>3. 1..1 = {1}
      OBVIOUS
    <2> HIDE DEF d
    <2>4. deltas = [i \in 1..1 |->
                      IF i \in DOMAIN <<x>> /\ i \in DOMAIN <<y>>
                      THEN Plus(<<y>>[i], Times(Whole(-1), <<x>>[i])) ELSE NULL]
      BY <2>1, <2>2 DEF Deltas
    <2>5. deltas[1] = Plus(<<y>>[1], Times(Whole(-1), <<x>>[1]))
      BY <2>2, <2>3, <2>4
    <2>6. <<y>>[1] = y /\ <<x>>[1] = x
      OBVIOUS
    <2>7. QED
      BY <2>3, <2>4, <2>5, <2>6 DEF d
  <1> HIDE DEF d, deltas
  <1>7. {deltas[i] : i \in DOMAIN deltas} \ {NULL} = {d}
    BY <1>5, <1>6
  <1>8. Direction(deltas) = DirectionOf(d[1])
    <2>1. d[1] \in Int
      BY <1>3, <1>4
    <2> DEFINE known == {deltas[i] : i \in DOMAIN deltas} \ {NULL}
    <2>2. ((\E e \in known : e[1] > 0) <=> d[1] > 0) /\ ((\E e \in known : e[1] < 0) <=> d[1] < 0)
      BY <1>7
    <2> DEFINE up == \E e \in known : e[1] > 0
               down == \E e \in known : e[1] < 0
    <2>3. Direction(deltas) = CASE up /\ down -> "mixed" [] up /\ ~down -> "up" [] down /\ ~up -> "down" [] OTHER -> "same"
      BY DEF Direction
    <2> HIDE DEF known
    <2>4. QED
      BY <2>1, <2>2, <2>3 DEF DirectionOf
  <1>9. QED
    BY <1>4, <1>8 DEF deltas

LEMMA LoneValuesHaveNoDirection ==
    ASSUME NEW x
    PROVE  Direction(Deltas(<<x>>, <<>>)) = "same" /\ Direction(Deltas(<<>>, <<x>>)) = "same"
  <1>1. ASSUME NEW left, NEW right, \A i : ~(i \in DOMAIN left /\ i \in DOMAIN right)
        PROVE  Direction(Deltas(left, right)) = "same"
    <2> DEFINE deltas == Deltas(left, right)
    <2>1. \A i \in DOMAIN deltas : deltas[i] = NULL
      BY <1>1 DEF Deltas
    <2> HIDE DEF deltas
    <2>2. {deltas[i] : i \in DOMAIN deltas} \ {NULL} = {}
      BY <2>1
    <2>3. Direction(deltas) = "same"
      BY <2>2 DEF Direction
    <2>4. QED
      BY <2>3 DEF deltas
  <1>2. QED
    BY <1>1

Opposite(direction) ==
    CASE direction = "up" -> "down" [] direction = "down" -> "up" [] OTHER -> direction

(* Seen from the other side the metrics move the other way. *)
LEMMA MirrorsAreOpposite ==
    ASSUME NEW a, NEW b, HasValues(a), HasValues(b), NEW name \in DOMAIN a \cup DOMAIN b
    PROVE  MetricRows(b, a)[name].direction = Opposite(MetricRows(a, b)[name].direction)
  <1> DEFINE left == ValuesOf(a, name)
             right == ValuesOf(b, name)
  <1>1. /\ MetricRows(a, b)[name].direction = Direction(Deltas(left, right))
        /\ MetricRows(b, a)[name].direction = Direction(Deltas(right, left))
    BY RowOfMetric
  <1>2. CASE name \in DOMAIN a /\ name \in DOMAIN b
    <2>1. PICK x \in Fraction : a[name] = <<x>>
      BY <1>2 DEF HasValues
    <2>2. PICK y \in Fraction : b[name] = <<y>>
      BY <1>2 DEF HasValues
    <2>3. left = <<x>> /\ right = <<y>>
      BY <1>2, <2>1, <2>2 DEF ValuesOf
    <2>4. /\ Direction(Deltas(left, right)) = DirectionOf(Excess(x, y))
          /\ Direction(Deltas(right, left)) = DirectionOf(Excess(y, x))
      BY <2>3, PairsHaveDirections
    <2>5. Excess(x, y) \in Int /\ Excess(y, x) = 0 - Excess(x, y)
      BY DEF Excess, Fraction
    <2>6. DirectionOf(Excess(y, x)) = Opposite(DirectionOf(Excess(x, y)))
      BY <2>5 DEF DirectionOf, Opposite
    <2>7. QED
      BY <1>1, <2>4, <2>6
  <1>3. CASE name \in DOMAIN a /\ name \notin DOMAIN b
    <2>1. PICK x \in Fraction : a[name] = <<x>>
      BY <1>3 DEF HasValues
    <2>2. left = <<x>> /\ right = <<>>
      BY <1>3, <2>1 DEF ValuesOf
    <2>3. QED
      BY <1>1, <2>2, LoneValuesHaveNoDirection DEF Opposite
  <1>4. CASE name \notin DOMAIN a /\ name \in DOMAIN b
    <2>1. PICK y \in Fraction : b[name] = <<y>>
      BY <1>4 DEF HasValues
    <2>2. left = <<>> /\ right = <<y>>
      BY <1>4, <2>1 DEF ValuesOf
    <2>3. QED
      BY <1>1, <2>2, LoneValuesHaveNoDirection DEF Opposite
  <1>5. QED
    BY <1>2, <1>3, <1>4

LEMMA JoinedValues ==
    ASSUME NEW f, NEW g, HasValues(f), HasValues(g)
    PROVE  HasValues(Joined(f, g))
  BY DEF HasValues, Joined

LEMMA F1HasValues ==
    ASSUME NEW f1, NEW D, f1.labels \in [D -> Ratio], f1.macro \in Ratio, f1.weighted \in Ratio
    PROVE  HasValues(F1Values(f1))
  <1>1. Ratio \subseteq Fraction
    BY DEF Ratio, Fraction
  <1> DEFINE Value(n) == CASE n[1] = "f1" -> f1.labels[n[2]] [] n[1] = "macro_f1" -> f1.macro [] OTHER -> f1.weighted
             names == {<<"f1", l>> : l \in D} \cup {<<"macro_f1", 0>>, <<"weighted_f1", 0>>}
  <1>2. \A n \in names : Value(n) \in Ratio
    <2>1. \A l \in D : <<"f1", l>>[1] = "f1" /\ <<"f1", l>>[2] = l
      OBVIOUS
    <2>2. \A l \in D : Value(<<"f1", l>>) \in Ratio
      BY <2>1
    <2>3. Value(<<"macro_f1", 0>>) \in Ratio /\ Value(<<"weighted_f1", 0>>) \in Ratio
      OBVIOUS
    <2> HIDE DEF Value
    <2>4. QED
      BY <2>2, <2>3
  <1> HIDE DEF names, Value
  <1>3. F1Values(f1) = [n \in names |-> <<Value(n)>>]
    BY DEF F1Values, names, Value
  <1>4. QED
    BY <1>1, <1>2, <1>3 DEF HasValues

LEMMA MatrixHasValues ==
    ASSUME NEW matrix, NEW D, DOMAIN matrix = D, Len(matrix) \in Nat,
           \A g \in D : \A p \in 1..Len(matrix)+1 : matrix[g][p] \in Nat
    PROVE  HasValues(MatrixValues(matrix))
  <1> DEFINE names == {<<"confusion", g, p>> : g \in D, p \in 1..Len(matrix)+1}
             Value(n) == Whole(matrix[n[2]][n[3]])
  <1>1. \A n \in names : Value(n) \in Fraction
    BY DEF Whole, Fraction
  <1> HIDE DEF names, Value
  <1>2. MatrixValues(matrix) = [n \in names |-> <<Value(n)>>]
    BY DEF MatrixValues, names, Value
  <1>3. QED
    BY <1>1, <1>2 DEF HasValues

LEMMA AccuracyHasValue ==
    ASSUME NEW correct \in Int, NEW of \in Int,
           NEW aggregated, aggregated = [correct |-> correct, of |-> of]
    PROVE  /\ HasValues(ScoreMetrics(aggregated))
           /\ <<"accuracy", 0>> \in DOMAIN ScoreMetrics(aggregated)
           /\ ScoreMetrics(aggregated)[<<"accuracy", 0>>] = <<<<correct, of>>>>
  <1>1. "correct" \in DOMAIN aggregated /\ aggregated.correct = correct /\ aggregated.of = of
    OBVIOUS
  <1>2. ScoreMetrics(aggregated) = [n \in {<<"accuracy", 0>>} |-> <<<<correct, of>>>>]
    BY <1>1 DEF ScoreMetrics
  <1>3. <<correct, of>> \in Fraction
    BY DEF Fraction
  <1>4. QED
    BY <1>2, <1>3 DEF HasValues

StatisticFields == {"sum", "of", "squares", "min", "max", "median", "p95", "p99"}

LEMMA StatisticsAreFractions ==
    ASSUME NEW s, \A field \in StatisticFields : s[field] \in Int, NEW name \in ScoreNames
    PROVE  StatisticValue(s, name) \in Fraction
  <1>1. /\ s.sum \in Int /\ s.of \in Int /\ s.squares \in Int /\ s.min \in Int /\ s.max \in Int
        /\ s.median \in Int /\ s.p95 \in Int /\ s.p99 \in Int
    BY DEF StatisticFields
  <1>2. \A x, y \in Int : x * y \in Int /\ x - y \in Int
    OBVIOUS
  <1>3. s.of * s.squares - s.sum * s.sum \in Int /\ s.of * s.of \in Int
    BY <1>1, <1>2
  <1>4. name \in {"mean", "stdev", "variance", "median", "min", "max", "p95", "p99"}
    BY DEF ScoreNames
  <1>5. QED
    BY <1>1, <1>3, <1>4 DEF StatisticValue, Fraction, Whole

LEMMA ScoresHaveValues ==
    ASSUME NEW a, DOMAIN a = StatisticFields, \A field \in StatisticFields : a[field] \in Int
    PROVE  HasValues(ScoreMetrics(a))
  <1> DEFINE names == {<<name, 0>> : name \in ScoreNames}
  <1>1. "correct" \notin DOMAIN a
    BY DEF StatisticFields
  <1>2. ScoreMetrics(a) = [n \in names |-> <<StatisticValue(a, n[1])>>]
    BY <1>1 DEF ScoreMetrics
  <1>3. \A n \in names : n[1] \in ScoreNames
    OBVIOUS
  <1>4. \A n \in names : StatisticValue(a, n[1]) \in Fraction
    BY <1>3, StatisticsAreFractions
  <1> HIDE DEF names
  <1>5. QED
    BY <1>2, <1>4 DEF HasValues

(* An output that is scored in a style. *)
IsJudged(output, style) ==
    /\ output.kind = (IF style.type = "similarity" THEN "similarity" ELSE "classification")
    /\ style.type = "multiple_choice" =>
          output.golden \in Elements(style.labels) /\ output.parsed \in Elements(style.labels) \cup {NULL}
    /\ style.type # "similarity" => output.correct \in BOOLEAN
    /\ style.type = "similarity" => output.score \in Int

(* The outputs of the n rows of a run with the given settings. *)
AreOutputs(outs, n, settings) ==
    /\ n \in Nat \ {0} /\ outs = [k \in 1..n |-> outs[k]]
    /\ \A k \in 1..n : IsJudged(outs[k], settings.style)
    /\ ValidateMetrics(settings.metrics, settings.style)
    /\ settings.style.type = "multiple_choice" =>
          LET labels == settings.style.labels
          IN  /\ labels \in Seq(Strings) /\ labels # <<>>
              /\ \A i, j \in DOMAIN labels : labels[i] = labels[j] => i = j

Correct(outs) == {k \in DOMAIN outs : outs[k].correct}
ScoresOf(outs) == [k \in DOMAIN outs |-> outs[k].score]

LEMMA OutputsAreAggregated ==
    ASSUME NEW n, NEW outs, NEW settings, AreOutputs(outs, n, settings)
    PROVE  /\ DOMAIN outs = 1..n /\ Cardinality(Correct(outs)) \in Nat
           /\ settings.style.type # "similarity" =>
                 Aggregate(outs) = [correct |-> Cardinality(Correct(outs)), of |-> n]
           /\ settings.style.type = "similarity" =>
                 ScoresOf(outs) \in [1..n -> Int] /\ Aggregate(outs) = Statistics(ScoresOf(outs))
  <1>1. n \in Nat \ {0} /\ outs = [k \in 1..n |-> outs[k]] /\ \A k \in 1..n : IsJudged(outs[k], settings.style)
    BY DEF AreOutputs
  <1>2. DOMAIN outs = 1..n /\ Len(outs) = n
    BY <1>1, LengthOf
  <1>3. outs # <<>> /\ 1 \in DOMAIN outs
    <2>1. 1 \in DOMAIN outs /\ 1 \notin DOMAIN <<>>
      BY <1>1, <1>2
    <2>2. QED
      BY <2>1
  <1>4. Cardinality(Correct(outs)) \in Nat
    <2>1. IsFiniteSet(1..n) /\ Correct(outs) \in SUBSET (1..n)
      BY <1>1, <1>2, FS_Interval DEF Correct
    <2>2. QED
      BY <2>1, FS_Subset, FS_CardinalityType
  <1>5. CASE settings.style.type # "similarity"
    <2>1. \A k \in DOMAIN outs : outs[k].kind = "classification"
      BY <1>1, <1>2, <1>5 DEF IsJudged
    <2>2. QED
      BY <1>2, <1>3, <1>4, <1>5, <2>1 DEF Aggregate, Correct
  <1>6. CASE settings.style.type = "similarity"
    <2>1. \A k \in DOMAIN outs : outs[k].kind = "similarity" /\ outs[k].score \in Int
      BY <1>1, <1>2, <1>6 DEF IsJudged
    <2>2. outs[1].kind # "classification"
      BY <1>3, <2>1
    <2>3. Aggregate(outs) = Statistics(ScoresOf(outs))
      BY <1>3, <2>1, <2>2 DEF Aggregate, ScoresOf
    <2>4. QED
      BY <1>2, <1>4, <1>6, <2>1, <2>3 DEF ScoresOf
  <1>7. QED
    BY <1>5, <1>6

(* What is computed of the outputs: nothing but for multiple choice. *)
LEMMA NothingIsRequested ==
    ASSUME NEW settings, ValidateMetrics(settings.metrics, settings.style), settings.style.type # "multiple_choice",
           NEW outs
    PROVE  OutputMetrics(settings, outs, TRUE) = [n \in {} |-> NULL]
  <1>1. settings.metrics = <<>>
    BY DEF ValidateMetrics
  <1>2. {i \in DOMAIN settings.metrics : RequestedFor(settings.metrics[i], TRUE)} = {}
    BY <1>1
  <1>3. QED
    BY <1>2 DEF OutputMetrics

Requested(settings) == {settings.metrics[i].name : i \in {j \in DOMAIN settings.metrics : RequestedFor(settings.metrics[j], TRUE)}}
MetricOf(name, matrix) == IF name = "f1" THEN F1Metrics(matrix) ELSE matrix
Computed(settings, matrix) == [name \in Requested(settings) |-> MetricOf(name, matrix)]

LEMMA CountsAreComputed ==
    ASSUME NEW n, NEW outs, NEW settings, AreOutputs(outs, n, settings), settings.style.type = "multiple_choice"
    PROVE  /\ Counted(outs, settings.style.labels) /\ DOMAIN outs = 1..n
           /\ OutputMetrics(settings, outs, TRUE)
                 = Computed(settings, ConfusionMatrix(outs, settings.style.labels))
  <1> DEFINE labels == settings.style.labels
             matrix == ConfusionMatrix(outs, labels)
             requested == {j \in DOMAIN settings.metrics : RequestedFor(settings.metrics[j], TRUE)}
             names == {settings.metrics[i].name : i \in requested}
  <1>1. DOMAIN outs = 1..n /\ IsFiniteSet(DOMAIN outs) /\ DOMAIN outs # {}
    <2>1. n \in Nat \ {0} /\ outs = [k \in 1..n |-> outs[k]]
      BY DEF AreOutputs
    <2>2. DOMAIN outs = 1..n
      BY <2>1
    <2>3. IsFiniteSet(1..n) /\ 1 \in 1..n
      BY <2>1, FS_Interval
    <2>4. QED
      BY <2>2, <2>3
  <1>2. Counted(outs, labels)
    BY <1>1 DEF AreOutputs, IsJudged, Counted, Countable
  <1>3. Countable(outs, labels)
    BY <1>2 DEF Counted
  <1> HIDE DEF labels
  <1>4. OutputMetrics(settings, outs, TRUE)
           = IF requested = {} THEN [name \in {} |-> NULL]
             ELSE [name \in names |-> IF name = "f1" THEN F1Metrics(matrix) ELSE matrix]
    BY <1>1, <1>3 DEF OutputMetrics, labels
  <1>5. requested = {} => names = {}
    OBVIOUS
  <1>6. Requested(settings) = names
    BY DEF Requested
  <1> HIDE DEF matrix, requested, names
  <1>7. OutputMetrics(settings, outs, TRUE) = [name \in names |-> MetricOf(name, matrix)]
    BY <1>4, <1>5 DEF MetricOf
  <1>8. QED
    BY <1>1, <1>2, <1>6, <1>7 DEF matrix, labels, Computed

LEMMA NoValues == HasValues(<<>>)
  BY DEF HasValues

LEMMA DerivedHaveValues ==
    ASSUME NEW n, NEW outs, NEW settings, AreOutputs(outs, n, settings)
    PROVE  HasValues(DerivedMetrics(OutputMetrics(settings, outs, TRUE)))
  <1> DEFINE metrics == OutputMetrics(settings, outs, TRUE)
             labels == settings.style.labels
             matrix == ConfusionMatrix(outs, labels)
  <1>1. SUFFICES /\ "f1" \in DOMAIN metrics => HasValues(F1Values(metrics["f1"]))
                 /\ "confusion" \in DOMAIN metrics => HasValues(MatrixValues(metrics["confusion"]))
    <2> HIDE DEF metrics
    <2>1. ASSUME "f1" \in DOMAIN metrics => HasValues(F1Values(metrics["f1"])),
                 "confusion" \in DOMAIN metrics => HasValues(MatrixValues(metrics["confusion"]))
          PROVE  HasValues(DerivedMetrics(metrics))
      <3>1. HasValues(IF "f1" \in DOMAIN metrics THEN F1Values(metrics["f1"]) ELSE <<>>)
        BY <2>1, NoValues
      <3>2. HasValues(IF "confusion" \in DOMAIN metrics THEN MatrixValues(metrics["confusion"]) ELSE <<>>)
        BY <2>1, NoValues
      <3>3. QED
        BY <3>1, <3>2, JoinedValues DEF DerivedMetrics
    <2>2. QED
      BY <2>1 DEF metrics
  <1>2. CASE settings.style.type # "multiple_choice"
    <2>1. metrics = [m \in {} |-> NULL]
      BY <1>2, NothingIsRequested DEF AreOutputs
    <2> HIDE DEF metrics
    <2>2. DOMAIN metrics = {}
      BY <2>1
    <2>3. QED
      BY <2>2
  <1>3. CASE settings.style.type = "multiple_choice"
    <2>1. Counted(outs, labels) /\ metrics = Computed(settings, matrix) /\ DOMAIN outs # {}
      <3>1. Counted(outs, labels) /\ DOMAIN outs = 1..n
        BY <1>3, CountsAreComputed
      <3>3. metrics = Computed(settings, matrix)
        BY <1>3, CountsAreComputed
      <3>2. 1 \in 1..n
        BY DEF AreOutputs
      <3> HIDE DEF metrics, matrix, labels
      <3>4. QED
        BY <3>1, <3>2, <3>3
    <2>2. HasValues(F1Values(F1Metrics(matrix)))
      BY <2>1, AveragesAreRatios, F1HasValues
    <2>3. HasValues(MatrixValues(matrix))
      <3>1. DOMAIN matrix = DOMAIN labels /\ DOMAIN labels = 1..Len(labels) /\ Len(labels) \in Nat
        BY <2>1, MatrixCells, LabelsOfSeq DEF Counted
      <3>2. Len(matrix) = Len(labels)
        <4>1. matrix = [l \in 1..Len(labels) |-> matrix[l]]
          BY <3>1 DEF ConfusionMatrix
        <4>2. QED
          BY <3>1, <4>1, LengthOf
      <3>3. \A g \in DOMAIN labels : \A p \in 1..Len(labels)+1 : matrix[g][p] \in Nat
        <4> SUFFICES ASSUME NEW g \in DOMAIN labels, NEW p \in 1..Len(labels)+1 PROVE matrix[g][p] \in Nat
          OBVIOUS
        <4>1. matrix[g][p] = Cardinality(With(outs, labels[g], MatrixColumns(labels)[p]))
          BY MatrixCells
        <4>2. With(outs, labels[g], MatrixColumns(labels)[p]) \in SUBSET DOMAIN outs
          BY DEF With
        <4>3. QED
          BY <2>1, <4>1, <4>2, FS_Subset, FS_CardinalityType DEF Counted
      <3> HIDE DEF matrix
      <3>4. QED
        BY <3>1, <3>2, <3>3, MatrixHasValues
    <2> HIDE DEF metrics, matrix
    <2>4. "f1" \in DOMAIN metrics => metrics["f1"] = F1Metrics(matrix)
      BY <2>1 DEF Computed, MetricOf
    <2>5. "confusion" \in DOMAIN metrics => metrics["confusion"] = matrix
      BY <2>1 DEF Computed, MetricOf
    <2>6. QED
      BY <2>2, <2>3, <2>4, <2>5
  <1>4. QED
    BY <1>2, <1>3

MetricsOf(settings, outs, latencies) ==
    Joined(DefaultMetrics(Aggregate(outs), latencies), DerivedMetrics(OutputMetrics(settings, outs, TRUE)))

LEMMA StatisticsAreNumbers ==
    ASSUME NEW n \in Nat \ {0}, NEW values \in [1..n -> Int]
    PROVE  /\ DOMAIN Statistics(values) = StatisticFields
           /\ \A field \in StatisticFields : Statistics(values)[field] \in Int
  <1> DEFINE s == Sorted(values)
             a == Statistics(values)
  <1>1. Len(values) = n
    <2>1. values = [i \in 1..n |-> values[i]]
      OBVIOUS
    <2>2. QED
      BY <2>1, LengthOf
  <1>2. s \in [1..n -> Int] /\ Len(s) = n /\ \A k, l \in 1..n : k <= l => s[k] <= s[l]
    BY SortedIsInOrder
  <1>3. \A v \in [1..n -> Int] : SumOver(v) \in Int
    <2> SUFFICES ASSUME NEW v \in [1..n -> Int] PROVE SumOver(v) \in Int
      OBVIOUS
    <2> DEFINE D == 1..n
    <2>1. IsFiniteSet(D) /\ v \in [D -> Int]
      BY FS_Interval
    <2> HIDE DEF D, s, a
    <2>2. PICK g \in [SUBSET D -> Int] : SumOver(v) = g[D]
      BY <2>1, SumOfIntegers
    <2>3. QED
      BY <2>2
  <1> DEFINE squares == [i \in DOMAIN values |-> values[i] * values[i]]
  <1>a. squares \in [1..n -> Int]
    OBVIOUS
  <1>4. \A p \in 0..100 : Percentile(s, p) \in Int
    <2> SUFFICES ASSUME NEW p \in 0..100 PROVE Percentile(s, p) \in Int
      OBVIOUS
    <2> HIDE DEF s
    <2>1. 100 \in p..100
      OBVIOUS
    <2>2. QED
      BY <1>2, <2>1, PercentilesAreInOrder
  <1>5. a = [sum |-> SumOver(values), of |-> n, squares |-> SumOver(squares), min |-> s[1], max |-> s[n],
             median |-> Percentile(s, 50), p95 |-> Percentile(s, 95), p99 |-> Percentile(s, 99)]
    BY <1>1 DEF Statistics
  <1> HIDE DEF a, s, squares
  <1>6. Percentile(s, 50) \in Int /\ Percentile(s, 95) \in Int /\ Percentile(s, 99) \in Int /\ s[1] \in Int /\ s[n] \in Int
    BY <1>2, <1>4
  <1>7. SumOver(values) \in Int /\ SumOver(squares) \in Int
    BY <1>3, <1>a
  <1>8. DOMAIN a = StatisticFields /\ \A field \in StatisticFields : a[field] \in Int
    BY <1>5, <1>6, <1>7 DEF StatisticFields
  <1>9. QED
    BY <1>8 DEF a

LEMMA LatenciesHaveValues ==
    ASSUME NEW latencies \in Seq(Nat)
    PROVE  HasValues(LatencyMetrics(latencies))
  <1>1. CASE latencies = <<>>
    BY <1>1, NoValues DEF LatencyMetrics
  <1>2. CASE latencies # <<>>
    <2> DEFINE s == Statistics(latencies)
               names == {<<"latency", name>> : name \in LatencyNames}
    <2>1. Len(latencies) \in Nat \ {0} /\ latencies \in [1..Len(latencies) -> Int]
      BY <1>2
    <2>2. \A field \in StatisticFields : s[field] \in Int
      BY <2>1, StatisticsAreNumbers
    <2>3. LatencyMetrics(latencies) = [n \in names |-> <<StatisticValue(s, n[2])>>]
      BY <1>2 DEF LatencyMetrics
    <2> HIDE DEF s
    <2>4. \A n \in names : n[2] \in ScoreNames
      BY DEF LatencyNames, ScoreNames
    <2>5. \A n \in names : StatisticValue(s, n[2]) \in Fraction
      BY <2>2, <2>4, StatisticsAreFractions
    <2> HIDE DEF names
    <2>6. QED
      BY <2>3, <2>5 DEF HasValues
  <1>3. QED
    BY <1>1, <1>2

(* A run of at least one row has an aggregate. *)
LEMMA ScoresAreThere ==
    ASSUME NEW n, NEW outs, NEW settings, AreOutputs(outs, n, settings)
    PROVE  HasValues(ScoreMetrics(Aggregate(outs))) /\ Aggregate(outs) # <<>>
  <1>1. DOMAIN <<>> = {}
    OBVIOUS
  <1>2. CASE settings.style.type # "similarity"
    <2>1. /\ Aggregate(outs) = [correct |-> Cardinality(Correct(outs)), of |-> n]
          /\ Cardinality(Correct(outs)) \in Nat
      BY <1>2, OutputsAreAggregated
    <2>2. Cardinality(Correct(outs)) \in Int /\ n \in Int
      BY <2>1 DEF AreOutputs
    <2>3. HasValues(ScoreMetrics(Aggregate(outs)))
      BY <2>1, <2>2, AccuracyHasValue
    <2>4. "correct" \in DOMAIN Aggregate(outs)
      BY <2>1
    <2>5. QED
      BY <1>1, <2>3, <2>4
  <1>3. CASE settings.style.type = "similarity"
    <2>1. ScoresOf(outs) \in [1..n -> Int] /\ Aggregate(outs) = Statistics(ScoresOf(outs)) /\ n \in Nat \ {0}
      BY <1>3, OutputsAreAggregated DEF AreOutputs
    <2> DEFINE a == Statistics(ScoresOf(outs))
    <2>2. DOMAIN a = StatisticFields /\ \A field \in StatisticFields : a[field] \in Int
      BY <2>1, StatisticsAreNumbers
    <2> HIDE DEF a
    <2>3. HasValues(ScoreMetrics(a))
      BY <2>2, ScoresHaveValues
    <2>4. a # <<>>
      BY <1>1, <2>2 DEF StatisticFields
    <2>5. QED
      BY <2>1, <2>3, <2>4 DEF a
  <1>4. QED
    BY <1>2, <1>3

LEMMA RunsHaveValues ==
    ASSUME NEW n, NEW outs, NEW settings, AreOutputs(outs, n, settings), NEW latencies \in Seq(Nat)
    PROVE  HasValues(MetricsOf(settings, outs, latencies))
  <1>1. HasValues(DerivedMetrics(OutputMetrics(settings, outs, TRUE)))
    BY DerivedHaveValues
  <1>2. HasValues(DefaultMetrics(Aggregate(outs), latencies))
    BY ScoresAreThere, LatenciesHaveValues, JoinedValues DEF DefaultMetrics
  <1>3. QED
    BY <1>1, <1>2, JoinedValues DEF MetricsOf

(* The names of the metrics of latencies are theirs alone. *)
LEMMA MeasuredNames ==
    /\ \A latencies : \A name \in DOMAIN LatencyMetrics(latencies) : name[1] = "latency"
    /\ \A a : \A name \in DOMAIN ScoreMetrics(a) : name[1] # "latency"
    /\ \A metrics : \A name \in DOMAIN DerivedMetrics(metrics) : name[1] # "latency"
  <1>1. DOMAIN <<>> = {}
    OBVIOUS
  <1>2. ASSUME NEW latencies, NEW name \in DOMAIN LatencyMetrics(latencies)
        PROVE  name[1] = "latency"
    BY <1>1, <1>2 DEF LatencyMetrics
  <1>3. ASSUME NEW a, NEW name \in DOMAIN ScoreMetrics(a)
        PROVE  name[1] # "latency"
    BY <1>3 DEF ScoreMetrics, ScoreNames
  <1>4. ASSUME NEW metrics, NEW name \in DOMAIN DerivedMetrics(metrics)
        PROVE  name[1] # "latency"
    <2>1. \A f1 : \A n \in DOMAIN F1Values(f1) : n[1] # "latency"
      BY DEF F1Values
    <2>2. \A matrix : \A n \in DOMAIN MatrixValues(matrix) : n[1] # "latency"
      BY DEF MatrixValues
    <2>3. name \in DOMAIN (IF "f1" \in DOMAIN metrics THEN F1Values(metrics["f1"]) ELSE <<>>)
            \/ name \in DOMAIN (IF "confusion" \in DOMAIN metrics THEN MatrixValues(metrics["confusion"]) ELSE <<>>)
      BY <1>4 DEF DerivedMetrics, Joined
    <2>4. QED
      BY <1>1, <2>1, <2>2, <2>3
  <1>5. QED
    BY <1>2, <1>3, <1>4

IsScored(outs) == Aggregate(outs) # <<>>
IsMeasured(name) == name[1] = "latency"
Unmeasured(settings, outs) ==
    Joined(ScoreMetrics(Aggregate(outs)), DerivedMetrics(OutputMetrics(settings, outs, TRUE)))

(* What is stored under a name is a statistic of the latencies or one of the outputs. *)
LEMMA ValuesOfRuns ==
    ASSUME NEW settings, NEW outs, NEW latencies, IsScored(outs), NEW name
    PROVE  ValuesOf(MetricsOf(settings, outs, latencies), name)
              = ValuesOf(IF IsMeasured(name) THEN LatencyMetrics(latencies) ELSE Unmeasured(settings, outs), name)
  <1> DEFINE scores == ScoreMetrics(Aggregate(outs))
             measured == LatencyMetrics(latencies)
             derived == DerivedMetrics(OutputMetrics(settings, outs, TRUE))
  <1>1. MetricsOf(settings, outs, latencies) = Joined(Joined(scores, measured), derived)
    BY DEF MetricsOf, DefaultMetrics, IsScored
  <1>2. /\ name \in DOMAIN measured => name[1] = "latency"
        /\ name \in DOMAIN scores => name[1] # "latency"
        /\ name \in DOMAIN derived => name[1] # "latency"
    BY MeasuredNames
  <1> HIDE DEF scores, measured, derived
  <1>3. CASE name[1] = "latency"
    <2>1. name \notin DOMAIN scores /\ name \notin DOMAIN derived
      BY <1>2, <1>3
    <2>2. ValuesOf(Joined(Joined(scores, measured), derived), name) = ValuesOf(measured, name)
      BY <2>1 DEF ValuesOf, Joined
    <2>3. QED
      BY <1>1, <1>3, <2>2 DEF measured, IsMeasured
  <1>4. CASE name[1] # "latency"
    <2>1. name \notin DOMAIN measured
      BY <1>2, <1>4
    <2>2. ValuesOf(Joined(Joined(scores, measured), derived), name) = ValuesOf(Joined(scores, derived), name)
      BY <2>1 DEF ValuesOf, Joined
    <2>3. QED
      BY <1>1, <1>4, <2>2 DEF scores, derived, IsMeasured, Unmeasured
  <1>5. QED
    BY <1>3, <1>4

(* What is measured is that of the latencies alone. *)
LEMMA SameLatenciesSameMetrics ==
    ASSUME NEW settings, NEW outs, NEW others, IsScored(outs), IsScored(others),
           NEW latencies, NEW name, IsMeasured(name)
    PROVE  ValuesOf(MetricsOf(settings, outs, latencies), name) = ValuesOf(MetricsOf(settings, others, latencies), name)
  <1>1. ValuesOf(MetricsOf(settings, outs, latencies), name) = ValuesOf(LatencyMetrics(latencies), name)
    BY ValuesOfRuns
  <1>2. ValuesOf(MetricsOf(settings, others, latencies), name) = ValuesOf(LatencyMetrics(latencies), name)
    BY ValuesOfRuns
  <1>3. QED
    BY <1>1, <1>2

(* Metrics that are not measured move only with a verdict. *)
LEMMA SameVerdictsSameMetrics ==
    ASSUME NEW n, NEW settings, NEW outs, NEW others, AreOutputs(outs, n, settings), AreOutputs(others, n, settings),
           \A k \in 1..n :
              /\ settings.style.type = "similarity" => others[k].score = outs[k].score
              /\ settings.style.type # "similarity" =>
                    /\ others[k].golden = outs[k].golden /\ others[k].parsed = outs[k].parsed
                    /\ others[k].correct = outs[k].correct,
           NEW mine, NEW theirs, NEW name, ~IsMeasured(name)
    PROVE  ValuesOf(MetricsOf(settings, outs, mine), name) = ValuesOf(MetricsOf(settings, others, theirs), name)
  <1>1. DOMAIN outs = 1..n /\ DOMAIN others = 1..n
    BY OutputsAreAggregated
  <1>2. Aggregate(others) = Aggregate(outs)
    <2>1. CASE settings.style.type # "similarity"
      <3>1. Correct(others) = Correct(outs)
        BY <1>1, <2>1 DEF Correct
      <3>2. QED
        BY <2>1, <3>1, OutputsAreAggregated
    <2>2. CASE settings.style.type = "similarity"
      <3>1. ScoresOf(others) = ScoresOf(outs)
        BY <1>1, <2>2 DEF ScoresOf
      <3>2. QED
        BY <2>2, <3>1, OutputsAreAggregated
    <2>3. QED
      BY <2>1, <2>2
  <1>3. OutputMetrics(settings, others, TRUE) = OutputMetrics(settings, outs, TRUE)
    <2>1. CASE settings.style.type # "multiple_choice"
      BY <2>1, NothingIsRequested DEF AreOutputs
    <2>2. CASE settings.style.type = "multiple_choice"
      <3> DEFINE labels == settings.style.labels
      <3>1. ConfusionMatrix(others, labels) = ConfusionMatrix(outs, labels)
        <4> DEFINE Label(p) == IF p > Len(labels) THEN NULL ELSE labels[p]
        <4>1. \A a, b : {k \in DOMAIN others : others[k].golden = a /\ others[k].parsed = b}
                           = {k \in DOMAIN outs : outs[k].golden = a /\ outs[k].parsed = b}
          BY <1>1, <2>2
        <4>2. \A o : ConfusionMatrix(o, labels)
                        = [g \in DOMAIN labels |-> [p \in 1..Len(labels)+1 |-> Cardinality(With(o, labels[g], Label(p)))]]
          BY DEF ConfusionMatrix, With
        <4>3. \A a, b : With(others, a, b) = With(outs, a, b)
          BY <4>1 DEF With
        <4> HIDE DEF labels, Label
        <4> DEFINE Row(o, g) == [p \in 1..Len(labels)+1 |-> Cardinality(With(o, labels[g], Label(p)))]
        <4>4. \A g : Row(others, g) = Row(outs, g)
          BY <4>3
        <4>5. \A o : ConfusionMatrix(o, labels) = [g \in DOMAIN labels |-> Row(o, g)]
          BY <4>2
        <4> HIDE DEF Row
        <4>6. QED
          BY <4>4, <4>5
      <3>2. QED
        BY <2>2, <3>1, CountsAreComputed
    <2>3. QED
      BY <2>1, <2>2
  <1>4. IsScored(outs) /\ IsScored(others)
    BY ScoresAreThere DEF IsScored
  <1>5. Unmeasured(settings, others) = Unmeasured(settings, outs)
    BY <1>2, <1>3 DEF Unmeasured
  <1>6. ValuesOf(MetricsOf(settings, outs, mine), name) = ValuesOf(Unmeasured(settings, outs), name)
    BY <1>4, ValuesOfRuns
  <1>7. ValuesOf(MetricsOf(settings, others, theirs), name) = ValuesOf(Unmeasured(settings, others), name)
    BY <1>4, ValuesOfRuns
  <1>8. QED
    BY <1>5, <1>6, <1>7

(* The accuracy goes the way of the one verdict that is another. *)
AccuracyFollows(rows, before, after) ==
    rows[<<"accuracy", 0>>].direction =
        (IF after.correct = before.correct THEN "same" ELSE IF after.correct THEN "up" ELSE "down")

DifferAt(i, outs, others) == \A k \in DOMAIN others : k # i => others[k] = outs[k]

LEMMA AccuracyFollowsVerdict ==
    ASSUME NEW n, NEW settings, NEW outs, NEW others, AreOutputs(outs, n, settings), AreOutputs(others, n, settings),
           settings.style.type # "similarity", NEW i \in 1..n, DifferAt(i, outs, others), NEW mine, NEW theirs
    PROVE  AccuracyFollows(MetricRows(MetricsOf(settings, outs, mine), MetricsOf(settings, others, theirs)),
                           outs[i], others[i])
  <1> DEFINE name == <<"accuracy", 0>>
             a == MetricsOf(settings, outs, mine)
             b == MetricsOf(settings, others, theirs)
             c == Cardinality(Correct(outs))
             d == Cardinality(Correct(others))
  <1>1. /\ n \in Nat \ {0} /\ DOMAIN outs = 1..n /\ DOMAIN others = 1..n /\ c \in Nat /\ d \in Nat
        /\ Aggregate(outs) = [correct |-> c, of |-> n] /\ Aggregate(others) = [correct |-> d, of |-> n]
    <2>1. n \in Nat \ {0}
      BY DEF AreOutputs
    <2>2. DOMAIN outs = 1..n /\ c \in Nat /\ Aggregate(outs) = [correct |-> c, of |-> n]
      BY OutputsAreAggregated
    <2>3. DOMAIN others = 1..n /\ d \in Nat /\ Aggregate(others) = [correct |-> d, of |-> n]
      BY OutputsAreAggregated
    <2>4. QED
      BY <2>1, <2>2, <2>3
  <1>a. \A k \in 1..n : k # i => others[k] = outs[k]
    BY <1>1 DEF DifferAt
  <1>2. name \in DOMAIN a /\ a[name] = <<<<c, n>>>> /\ name \in DOMAIN b /\ b[name] = <<<<d, n>>>>
    <2> HIDE DEF c, d
    <2>1. ASSUME NEW o, NEW e \in Nat, Aggregate(o) = [correct |-> e, of |-> n], Aggregate(o) # <<>>, NEW l
          PROVE  name \in DOMAIN MetricsOf(settings, o, l) /\ MetricsOf(settings, o, l)[name] = <<<<e, n>>>>
      <3>1. name \in DOMAIN ScoreMetrics(Aggregate(o)) /\ ScoreMetrics(Aggregate(o))[name] = <<<<e, n>>>>
        BY <1>1, <2>1, AccuracyHasValue
      <3> HIDE DEF name
      <3>2. QED
        BY <2>1, <3>1 DEF MetricsOf, DefaultMetrics, Joined
    <2>a. Aggregate(outs) # <<>> /\ Aggregate(others) # <<>>
      BY ScoresAreThere
    <2>2. QED
      BY <1>1, <2>1, <2>a
  <1>3. MetricRows(a, b)[name].direction = DirectionOf(Excess(<<c, n>>, <<d, n>>))
    <2>1. ValuesOf(a, name) = <<<<c, n>>>> /\ ValuesOf(b, name) = <<<<d, n>>>>
      BY <1>2 DEF ValuesOf
    <2>2. <<c, n>> \in Fraction /\ <<d, n>> \in Fraction
      BY <1>1 DEF Fraction
    <2> HIDE DEF a, b, c, d, name
    <2>3. MetricRows(a, b)[name].direction = Direction(Deltas(ValuesOf(a, name), ValuesOf(b, name)))
      BY <1>2, RowOfMetric
    <2>4. QED
      BY <2>1, <2>2, <2>3, PairsHaveDirections
  <1>4. Excess(<<c, n>>, <<d, n>>) = d * n - c * n
    BY DEF Excess
  <1>5. others[i].correct \in BOOLEAN /\ outs[i].correct \in BOOLEAN
    BY DEF AreOutputs, IsJudged
  <1>6. IsFiniteSet(Correct(outs)) /\ IsFiniteSet(Correct(others))
    <2>1. IsFiniteSet(1..n)
      BY <1>1, FS_Interval
    <2>2. Correct(outs) \in SUBSET (1..n) /\ Correct(others) \in SUBSET (1..n)
      BY <1>1 DEF Correct
    <2>3. QED
      BY <2>1, <2>2, FS_Subset
  <1> HIDE DEF a, b, name
  <1>7. CASE others[i].correct = outs[i].correct
    <2>1. Correct(others) = Correct(outs)
      BY <1>1, <1>7, <1>a DEF Correct
    <2>2. d * n - c * n = 0
      BY <1>1, <2>1
    <2>3. QED
      BY <1>3, <1>4, <1>7, <2>2 DEF DirectionOf, a, b, name, AccuracyFollows
  <1>8. CASE others[i].correct /\ ~outs[i].correct
    <2>1. Correct(others) = Correct(outs) \cup {i} /\ i \notin Correct(outs)
      BY <1>1, <1>8, <1>a DEF Correct
    <2>2. d = c + 1
      BY <1>6, <2>1, FS_AddElement
    <2> HIDE DEF c, d
    <2>3. d * n - c * n > 0
      BY <1>1, <2>2
    <2>4. QED
      BY <1>3, <1>4, <1>8, <2>3 DEF DirectionOf, a, b, name, AccuracyFollows
  <1>9. CASE ~others[i].correct /\ outs[i].correct
    <2>1. Correct(outs) = Correct(others) \cup {i} /\ i \notin Correct(others)
      BY <1>1, <1>9, <1>a DEF Correct
    <2>2. c = d + 1
      BY <1>6, <2>1, FS_AddElement
    <2> HIDE DEF c, d
    <2>3. d * n - c * n < 0
      BY <1>1, <2>2
    <2>4. others[i].correct # outs[i].correct
      BY <1>5, <1>9
    <2>5. DirectionOf(d * n - c * n) = "down"
      BY <1>1, <2>3 DEF DirectionOf
    <2>6. QED
      BY <1>3, <1>4, <1>9, <2>4, <2>5 DEF a, b, name, AccuracyFollows
  <1>10. QED
    BY <1>5, <1>7, <1>8, <1>9

-----------------------------------------------------------------------------
(* Comparisons: the steps of two runs. *)

StepsOf(outs) == [k \in DOMAIN outs |-> [hash |-> outs[k].hash, status |-> "completed", output |-> outs[k].output]]

(* What the rows of two runs of m and n steps say of their outputs f and g. *)
TellOutputs(rows, m, n, f, g) ==
    /\ DOMAIN rows = 1..m
    /\ \A k \in 1..m : /\ rows[k].input = (k \in 1..n) /\ rows[k].status = (k \in 1..n)
                       /\ rows[k].output = (k \in 1..n /\ f[k].output = g[k].output)

(* Two runs that are asked for the same and whose row i alone may have another output. *)
AlikeBut(i, n, f, g) == \A k \in 1..n : g[k].hash = f[k].hash /\ (k # i => g[k] = f[k])

LEMMA StepsAreCompared ==
    ASSUME NEW m \in Nat, NEW n \in 1..m, NEW i, NEW f, NEW g, DOMAIN f = 1..m, DOMAIN g = 1..n,
           AlikeBut(i, n, f, g)
    PROVE  TellOutputs(StepRows(StepsOf(f), StepsOf(g)), m, n, f, g)
  <1> DEFINE a == StepsOf(f)
             b == StepsOf(g)
  <1>1. DOMAIN a = 1..m /\ DOMAIN b = 1..n /\ 1..n \subseteq 1..m
    BY DEF StepsOf
  <1>2. \A k \in 1..m : a[k]["hash"] = f[k].hash /\ a[k]["status"] = "completed" /\ a[k]["output"] = f[k].output
    BY DEF StepsOf
  <1>3. \A k \in 1..n : b[k]["hash"] = g[k].hash /\ b[k]["status"] = "completed" /\ b[k]["output"] = g[k].output
    BY DEF StepsOf
  <1>a. \A k \in 1..n : g[k].hash = f[k].hash
    BY DEF AlikeBut
  <1> HIDE DEF a, b
  <1>4. DOMAIN StepRows(a, b) = 1..m
    BY <1>1 DEF StepRows
  <1>5. \A k \in 1..m :
           /\ StepRows(a, b)[k].input = (k \in 1..n /\ a[k]["hash"] = b[k]["hash"])
           /\ StepRows(a, b)[k].status = (k \in 1..n /\ a[k]["status"] = b[k]["status"])
           /\ StepRows(a, b)[k].output = (k \in 1..n /\ a[k]["output"] = b[k]["output"])
    BY <1>1 DEF StepRows
  <1>6. \A k \in 1..m :
           /\ StepRows(a, b)[k].input = (k \in 1..n)
           /\ StepRows(a, b)[k].status = (k \in 1..n)
           /\ StepRows(a, b)[k].output = (k \in 1..n /\ f[k].output = g[k].output)
    BY <1>2, <1>3, <1>5, <1>a
  <1>7. QED
    BY <1>4, <1>6 DEF a, b, TellOutputs

-----------------------------------------------------------------------------
(* Comparisons: a run and another that answers to one row otherwise, or has fewer. *)

(* An attempt has as many rows as its limit says, and valid metrics. *)
ReachedInv ==
    status \in {"running", "completed"} =>
        config.limit = Len(seen) /\ ValidateMetrics(config.metrics, config.style)

LEMMA AttemptsReachLimits == Spec => []ReachedInv
  <1>1. Init => ReachedInv
    BY DEF Init, ReachedInv
  <1>2. ReachedInv /\ SettingsInv /\ [Next]_vars => ReachedInv'
    <2> SUFFICES ASSUME ReachedInv, SettingsInv, [Next]_vars PROVE ReachedInv'
      OBVIOUS
    <2>1. ASSUME NEW w \in Wire, Begin(w)
          PROVE  ReachedInv'
      <3> DEFINE parsed == Parse(w, env)
                 limit == IF parsed.limit = NULL THEN Len(dataset) ELSE Min({parsed.limit, Len(dataset)})
                 batch == SubSeq(dataset, 1, limit)
      <3>1. CASE MissRows(parsed)
        BY <3>1 DEF MissRows, ReachedInv
      <3>2. CASE ReachRows(parsed)
        <4>1. parsed \in Setting /\ ValidateMetrics(parsed.metrics, parsed.style)
          BY <2>1, SettingsAssumption, SettingsAreRead DEF Begin, SettingsInv, SurroundingsInv
        <4>2. limit \in 0..Len(dataset) /\ Len(dataset) \in Nat
          <5> HIDE DEF parsed
          <5> QED
            BY <4>1, LimitsAreNumbers DEF SettingsInv, SurroundingsInv
        <4>3. seen' \in Forms(batch) /\ config' = [parsed EXCEPT !.limit = limit]
          BY <3>2 DEF ReachRows, Forms
        <4> HIDE DEF parsed, limit
        <4>4. config'.limit = limit /\ config'.metrics = parsed.metrics /\ config'.style = parsed.style
          BY <4>1, <4>3 DEF Setting
        <4>5. Len(batch) = limit /\ DOMAIN batch = 1..limit /\ limit \in Nat
          <5>1. dataset \in Seq(Elements(dataset))
            BY DatasetsAssumption DEF SettingsInv, SurroundingsInv
          <5>2. QED
            BY <4>2, <5>1
        <4> HIDE DEF batch
        <4>6. Len(seen') = limit
          <5>1. CASE seen' = batch
            BY <4>5, <5>1
          <5>2. CASE seen' = ThroughCache(batch)
            <6>1. seen' = [i \in 1..limit |-> seen'[i]]
              BY <4>5, <5>2 DEF ThroughCache
            <6>2. QED
              BY <4>5, <6>1, LengthOf
          <5>3. QED
            BY <4>3, <5>1, <5>2 DEF Forms
        <4>7. QED
          BY <4>1, <4>4, <4>6 DEF ReachedInv
      <3>3. QED
        BY <2>1, <3>1, <3>2 DEF Begin
    <2>2. CASE Start \/ ResumeLocal
      BY <2>1, <2>2, SettingsAssumption DEF Start, ResumeLocal, SettingsInv, SurroundingsInv
    <2>3. CASE ResumeRemote
      <3>1. stored \in Wire /\ Begin(stored)
        BY <2>3, SettingsSurvive DEF ResumeRemote, SettingsInv, ConfigInv
      <3>2. QED
        BY <2>1, <3>1
    <2>4. ASSUME UNCHANGED <<config, seen>>, status = "running" \/ status' = status
          PROVE  ReachedInv'
      BY <2>4 DEF ReachedInv
    <2>5. CASE \E i \in Rows : EvaluateRow(i) \/ ReuseRow(i)
      BY <2>4, <2>5 DEF EvaluateRow, ReuseRow, Pending
    <2>6. CASE \E i \in Rows : FailRow(i)
      BY <2>6 DEF FailRow, Fail, ReachedInv
    <2>7. CASE Complete
      <3>1. CASE Fail
        BY <3>1 DEF Fail, ReachedInv
      <3>2. CASE ~Fail
        BY <2>4, <2>7, <3>2 DEF Complete
      <3>3. QED
        BY <3>1, <3>2
    <2>8. CASE Change \/ UNCHANGED vars
      BY <2>4, <2>8 DEF Change, vars
    <2>9. QED
      BY <2>2, <2>3, <2>5, <2>6, <2>7, <2>8 DEF Next
  <1>3. QED
    BY <1>1, <1>2, Configured, PTL DEF Spec

(* What is known of an output as it is stored. *)
JudgedAs(output, style) ==
    /\ output.kind = (IF style.type = "similarity" THEN "similarity" ELSE "classification")
    /\ style.type = "multiple_choice" =>
          /\ style.labels \in Seq(Strings) /\ output.response \in Seq(Strings)
          /\ output.golden \in Elements(style.labels)
          /\ output.parsed = ExtractLabel(output.response, style.labels)
    /\ style.type # "similarity" => output.correct \in BOOLEAN
    /\ style.type = "similarity" => output.score \in Int

LEMMA JudgedIsJudged ==
    ASSUME NEW output, NEW style, JudgedAs(output, style)
    PROVE  IsJudged(output, style)
  BY LastLabelIsExtracted DEF JudgedAs, IsJudged

(* What is stored of a completed run of one style. *)
LEMMA StoredOutputsAreWhole ==
    ASSUME MetricsInv, ReachedInv, CompletedAsStored(config.style.type)
    PROVE  \E m \in Nat \ {0} :
              /\ Rows = 1..m /\ Len(seen) = m /\ config.limit = m
              /\ DOMAIN DecodedOutputs = 1..m /\ DecodedOutputs = results
              /\ AreOutputs(DecodedOutputs, m, config)
  <1>1. PICK m \in Nat \ {0} :
           /\ Rows = 1..m /\ DOMAIN results = 1..m /\ Len(results) = m
           /\ results = [i \in 1..m |-> results[i]]
           /\ \A i \in 1..m : i \in Stored /\ results[i] # NULL /\ results[i] = Decode(outputs[i].output)
    BY ResultsAreWhole DEF CompletedAsStored
  <1>2. Stored = 1..m
    BY <1>1 DEF CompletedAsStored
  <1>3. DecodedOutputs = [i \in 1..m |-> Decode(outputs[i].output)]
    BY <1>2 DEF DecodedOutputs
  <1>4. DecodedOutputs = results
    <2>1. \A i \in 1..m : Decode(outputs[i].output) = results[i]
      BY <1>1
    <2>2. [i \in 1..m |-> Decode(outputs[i].output)] = [i \in 1..m |-> results[i]]
      BY <2>1
    <2>3. QED
      BY <1>1, <1>3, <2>2
  <1>5. config.style \in Style({Levenshtein, Cosine}) /\ ValidateStyle(config.style)
    BY DEF MetricsInv, SettingsInv, ConfigInv, CompletedAsStored, Setting
  <1>6. ASSUME NEW i \in 1..m
        PROVE  IsJudged(DecodedOutputs[i], config.style)
    <2>1. i \in Stored /\ DecodedOutputs[i] = Decode(outputs[i].output) /\ config.style = outputs[i].by.style
      BY <1>1, <1>2, <1>3 DEF CompletedAsStored
    <2>2. JudgedAs(DecodedOutputs[i], config.style)
      BY <2>1, OutputsAreJudged DEF MetricsInv, JudgedAs
    <2>3. QED
      BY <2>2, JudgedIsJudged
  <1>7. config.style.type = "multiple_choice" =>
          LET labels == config.style.labels
          IN  /\ labels \in Seq(Strings) /\ labels # <<>>
              /\ \A i, j \in DOMAIN labels : labels[i] = labels[j] => i = j
    BY <1>5, LabelsAreDistinct DEF Style, ChoiceStyle, ValidateStyle
  <1>8. config.limit = Len(seen) /\ ValidateMetrics(config.metrics, config.style) /\ config.limit \in Nat \cup {NULL}
    BY DEF ReachedInv, CompletedAsStored, MetricsInv, SettingsInv, ConfigInv, Setting
  <1>9. Len(seen) = m
    <2>1. PICK batch \in Batches : seen \in Forms(batch)
      BY DEF MetricsInv, AttemptInv, CompletedAsStored
    <2>2. Len(batch) \in Nat /\ DOMAIN batch = 1..Len(batch)
      <3>1. \E n \in 0..Len(dataset) : DOMAIN batch = 1..n /\ Len(batch) = n
        BY BatchesAreShort DEF MetricsInv, SettingsInv
      <3>2. QED
        BY <3>1
    <2>3. DOMAIN batch = Rows
      BY <2>1, BatchesAreShort DEF MetricsInv, SettingsInv, Rows
    <2>4. Len(batch) = m
      BY <1>1, <2>2, <2>3
    <2>5. CASE seen = ThroughCache(batch)
      <3>1. seen = [i \in 1..m |-> seen[i]]
        BY <1>1, <2>3, <2>5 DEF ThroughCache
      <3>2. QED
        BY <3>1, LengthOf
    <2>6. QED
      BY <2>1, <2>4, <2>5 DEF Forms
  <1>10. DOMAIN DecodedOutputs = 1..m
    BY <1>3
  <1>11. AreOutputs(DecodedOutputs, m, config)
    BY <1>3, <1>6, <1>7, <1>8 DEF AreOutputs
  <1>12. QED
    BY <1>1, <1>4, <1>8, <1>9, <1>10, <1>11

(* The row, had the model answered otherwise. *)
Reanswered(i, response) ==
    [outputs[i] EXCEPT !.output = Encode(Evaluate(Prepared(i), config.style, response, ScoreOf), FALSE)]

LEMMA OtherAnswersAreJudged ==
    ASSUME MetricsInv, CompletedAsStored(config.style.type), NEW i \in Rows, NEW response \in Samples
    PROVE  /\ Reanswered(i, response).hash = outputs[i].hash
           /\ IsJudged(Decode(Reanswered(i, response).output), config.style)
           /\ config.style.type # "similarity" =>
                 Decode(Reanswered(i, response).output).golden = DecodedOutputs[i].golden
  <1> DEFINE record == Reanswered(i, response)
             by == outputs[i].by
             prepared == PrepareRow(seen[i], by.style, Draws[hash])
  <1>1. /\ i \in Stored /\ by.style = config.style
        /\ Prepared(i) # NULL /\ outputs[i].hash = HashOf(i)
    BY DEF CompletedAsStored, MetricsInv, ResultsInv, CompletedInv
  <1>2. PICK other \in Batches : IsOutput(outputs[i], i, other, hash)
    BY <1>1 DEF MetricsInv, OutputsInv, OutputInv
  <1>3. PICK batch \in Batches : seen \in Forms(batch)
    BY DEF MetricsInv, AttemptInv, CompletedAsStored
  <1>4. i \in DOMAIN batch
    BY <1>3, BatchesAreShort DEF Rows, MetricsInv, SettingsInv
  <1>5. PICK rows, old, answer :
          /\ by \in Setting /\ ValidateStyle(by.style)
          /\ \E s \in Sources : by.style.type = "multiple_choice" => s.style = by.style
          /\ outputs[i] = StoredAs(rows[i], hash, by, answer, old)
    BY <1>2 DEF IsOutput
  <1>6. prepared = Prepared(i)
    BY <1>1 DEF Prepared
  <1>7. Display(by.model) = Display(config.model)
    <2>1. outputs[i].hash[3] = Display(config.model)
      BY <1>1 DEF HashOf, RowInputHash
    <2>2. outputs[i].hash[3] = Display(by.model)
      <3> HIDE DEF by
      <3>1. QED
        BY <1>5 DEF StoredAs, RowInputHash
    <2>3. QED
      BY <2>1, <2>2
  <1>8. outputs[i].hash = RowInputHash(RenderedAs(seen[i], prepared), prepared, Display(by.model), by.style)
    BY <1>1, <1>6, <1>7 DEF HashOf, Rendered, RenderedAs
  <1>9. record = [hash |-> outputs[i].hash,
                  output |-> Encode(Evaluate(prepared, by.style, response, ScoreOf), FALSE), by |-> by]
    <2> DEFINE new == Encode(Evaluate(prepared, by.style, response, ScoreOf), FALSE)
    <2>1. record = [outputs[i] EXCEPT !.output = new]
      BY <1>1, <1>6 DEF Reanswered
    <2>2. \E h, o, b : outputs[i] = [hash |-> h, output |-> o, by |-> b]
      <3> HIDE DEF by
      <3>1. QED
        BY <1>5 DEF StoredAs
    <2> HIDE DEF new, record
    <2>3. record = [hash |-> outputs[i].hash, output |-> new, by |-> outputs[i].by]
      BY <2>1, <2>2
    <2>4. QED
      BY <2>3 DEF new
  <1>10. record = StoredAs(seen[i], hash, by, response, FALSE) /\ record.by = by
    <2> HIDE DEF record, by
    <2>1. QED
      BY <1>8, <1>9 DEF StoredAs
  <1>11. response \in Seq(Strings) /\ (by.style.type # "multiple_choice" => response \in Responses)
    <2>1. ConfigInv
      BY DEF MetricsInv, SettingsInv, CompletedAsStored
    <2>2. config.style.type # "multiple_choice" => Samples = Responses
      BY DEF Samples
    <2>3. QED
      BY <1>1, <2>1, <2>2, SamplesAreResponses
  <1>12. prepared # NULL
    BY <1>1, <1>6
  <1>13. IsOutput(record, i, batch, hash)
    <2> HIDE DEF record, prepared
    <2>1. PrepareRow(seen[i], by.style, Draws[hash]) # NULL
      BY <1>12 DEF prepared
    <2> HIDE DEF by
    <2>2. QED
      BY <1>3, <1>4, <1>5, <1>10, <1>11, <2>1 DEF IsOutput
  <1>14. record.hash = outputs[i].hash
    <2> HIDE DEF record
    <2>1. QED
      BY <1>9
  <1> HIDE DEF record
  <1>15. config.style = record.by.style
    BY <1>1, <1>10
  <1>16. /\ JudgedAs(Decode(record.output), config.style)
         /\ config.style.type # "similarity" => Decode(record.output).golden = record.hash[2]
    BY <1>13, <1>15, RecordsAreJudged DEF MetricsInv, JudgedAs
  <1>17. config.style.type # "similarity" => Decode(outputs[i].output).golden = outputs[i].hash[2]
    BY <1>1, OutputsAreJudged DEF MetricsInv
  <1>18. DecodedOutputs[i] = Decode(outputs[i].output)
    BY <1>1 DEF DecodedOutputs
  <1>19. QED
    BY <1>14, <1>16, <1>17, <1>18, JudgedIsJudged DEF record

DecodedWith(others, n) == [k \in 1..n |-> Decode(others[k].output)]

LEMMA OthersAreOutputs ==
    ASSUME NEW m, Rows = 1..m, AreOutputs(DecodedOutputs, m, config),
           NEW n \in 1..m, NEW i \in 1..n, NEW response, NEW others, others = OutputsWith(i, response, n),
           IsJudged(Decode(Reanswered(i, response).output), config.style),
           Stored = Rows
    PROVE  /\ AreOutputs(DecodedWith(others, n), n, config)
           /\ DOMAIN others = 1..n /\ others[i] = Reanswered(i, response)
           /\ \A k \in 1..n : k # i => others[k] = outputs[k]
           /\ \A k \in 1..n : k # i => DecodedWith(others, n)[k] = DecodedOutputs[k]
           /\ DecodedWith(others, n)[i] = Decode(Reanswered(i, response).output)
  <1> DEFINE decoded == DecodedWith(others, n)
  <1>1. m \in Nat /\ n \in Nat \ {0} /\ 1..n \subseteq 1..m
    BY DEF AreOutputs
  <1>2. /\ DOMAIN others = 1..n /\ others[i] = Reanswered(i, response)
        /\ \A k \in 1..n : k # i => others[k] = outputs[k]
    BY DEF OutputsWith, Reanswered
  <1>3. decoded[i] = Decode(Reanswered(i, response).output)
    BY <1>2 DEF DecodedWith
  <1>4. \A k \in 1..n : k # i => decoded[k] = DecodedOutputs[k]
    BY <1>1, <1>2 DEF DecodedWith, DecodedOutputs
  <1>5. decoded = [k \in 1..n |-> decoded[k]]
    BY DEF DecodedWith
  <1> HIDE DEF decoded
  <1>6. \A k \in 1..n : IsJudged(decoded[k], config.style)
    BY <1>1, <1>3, <1>4 DEF AreOutputs
  <1>7. AreOutputs(decoded, n, config)
    BY <1>1, <1>5, <1>6 DEF AreOutputs
  <1>8. QED
    BY <1>2, <1>3, <1>4, <1>7 DEF decoded

(* What is read of a run. *)
LEMMA RunsAreRead ==
    ASSUME NEW name, NEW settings, NEW outs, NEW decoded, decoded = [k \in DOMAIN outs |-> Decode(outs[k].output)],
           NEW latencies, NEW run, run = RunData(name, settings, outs, Aggregate(decoded), latencies)
    PROVE  /\ run.name = name /\ run.input = Write(settings) /\ run.output = Cardinality(DOMAIN outs)
           /\ run.steps = StepsOf(outs) /\ run.metrics = MetricsOf(settings, decoded, latencies)
  BY DEF RunData, StepsOf, MetricsOf

LEMMA LimitsDoNotCount ==
    ASSUME NEW settings \in Setting, NEW n, NEW outs, NEW latencies
    PROVE  MetricsOf([settings EXCEPT !.limit = n], outs, latencies) = MetricsOf(settings, outs, latencies)
  <1> DEFINE limited == [settings EXCEPT !.limit = n]
  <1>1. limited.metrics = settings.metrics /\ limited.style = settings.style
    BY DEF Setting
  <1> HIDE DEF limited
  <1>2. OutputMetrics(limited, outs, TRUE) = OutputMetrics(settings, outs, TRUE)
    BY <1>1 DEF OutputMetrics
  <1>3. MetricsOf(limited, outs, latencies) = MetricsOf(settings, outs, latencies)
    BY <1>2 DEF MetricsOf
  <1>4. QED
    BY <1>3 DEF limited

Verdict(output) == IF output.kind = "similarity" THEN <<output.score>> ELSE <<output.parsed, output.correct>>
ChangedSteps(report) == {k \in Rows : ~report.steps[k].output}
Moved(report) == {m \in DOMAIN report.metrics : ~report.metrics[m].same}
Measured(report) == {m \in DOMAIN report.metrics : m[1] = "latency"}

(* What the comparison of a run with another is to say. *)
BlamesSteps(report, i, n) ==
    /\ ChangedSteps(report) \subseteq {i} \cup n + 1..Len(seen)
    /\ DOMAIN report.outputDifferences = ChangedSteps(report) \cap {i}
    /\ \A k \in Rows : report.steps[k].input = (k <= n)
    /\ report.differs <=> ChangedSteps(report) # {} \/ Moved(report) \cap Measured(report) # {}

BlamesMetrics(report, mirror, decoded, i, n, mine, theirs) ==
    /\ mine = theirs => Moved(report) \cap Measured(report) = {}
    /\ n = Len(seen) /\ Verdict(decoded[i]) = Verdict(DecodedOutputs[i]) => Moved(report) \subseteq Measured(report)
    /\ n = Len(seen) /\ config.style.type # "similarity" =>
            report.metrics[<<"accuracy", 0>>].direction =
                (IF decoded[i].correct = DecodedOutputs[i].correct THEN "same"
                 ELSE IF decoded[i].correct THEN "up" ELSE "down")
    /\ \A m \in DOMAIN report.metrics : mirror[m].direction = Opposite(report.metrics[m].direction)

LEMMA MetricsAreBlamed ==
    ASSUME NEW m \in Nat, Len(seen) = m, AreOutputs(DecodedOutputs, m, config),
           NEW n \in 1..m, NEW i \in 1..n, NEW decoded, AreOutputs(decoded, n, config),
           \A k \in 1..n : k # i => decoded[k] = DecodedOutputs[k],
           config.style.type # "similarity" => decoded[i].golden = DecodedOutputs[i].golden,
           NEW mine \in Seq(Nat), NEW theirs \in Seq(Nat),
           NEW report,
           report.metrics = MetricRows(MetricsOf(config, DecodedOutputs, mine), MetricsOf(config, decoded, theirs)),
           NEW mirror,
           mirror = MetricRows(MetricsOf(config, decoded, theirs), MetricsOf(config, DecodedOutputs, mine))
    PROVE  BlamesMetrics(report, mirror, decoded, i, n, mine, theirs)
  <1> DEFINE a == MetricsOf(config, DecodedOutputs, mine)
             b == MetricsOf(config, decoded, theirs)
  <1>1. ASSUME NEW name \in DOMAIN report.metrics, ValuesOf(a, name) = ValuesOf(b, name)
        PROVE  report.metrics[name].same
    <2> HIDE DEF a, b
    <2>1. report.metrics = MetricRows(a, b)
      BY DEF a, b
    <2>2. name \in DOMAIN a \cup DOMAIN b
      BY <2>1, NamesOfMetrics
    <2>3. QED
      BY <1>1, <2>1, <2>2, SameValuesAreSame
  <1>2. ASSUME mine = theirs, NEW name \in DOMAIN report.metrics, name[1] = "latency"
        PROVE  report.metrics[name].same
    <2>1. IsScored(DecodedOutputs) /\ IsScored(decoded)
      BY ScoresAreThere DEF IsScored
    <2>2. ValuesOf(a, name) = ValuesOf(b, name)
      BY <1>2, <2>1, SameLatenciesSameMetrics DEF IsMeasured
    <2> HIDE DEF a, b
    <2>3. QED
      BY <1>1, <1>2, <2>2
  <1>3. ASSUME n = m, Verdict(decoded[i]) = Verdict(DecodedOutputs[i]),
               NEW name \in DOMAIN report.metrics, name[1] # "latency"
        PROVE  report.metrics[name].same
    <2>1. \A k \in 1..n : IsJudged(decoded[k], config.style) /\ IsJudged(DecodedOutputs[k], config.style)
      BY <1>3 DEF AreOutputs
    <2>2. /\ config.style.type = "similarity" => decoded[i].score = DecodedOutputs[i].score
          /\ config.style.type # "similarity" =>
                decoded[i].parsed = DecodedOutputs[i].parsed /\ decoded[i].correct = DecodedOutputs[i].correct
      <3>1. IsJudged(decoded[i], config.style) /\ IsJudged(DecodedOutputs[i], config.style)
        BY <2>1
      <3>2. \A w, x, y, z : (<<x>> = <<y>> => x = y) /\ (<<w, x>> = <<y, z>> => w = y /\ x = z)
        OBVIOUS
      <3>3. QED
        BY <1>3, <3>1, <3>2 DEF Verdict, IsJudged
    <2>3. \A k \in 1..n :
              /\ config.style.type = "similarity" => decoded[k].score = DecodedOutputs[k].score
              /\ config.style.type # "similarity" =>
                    /\ decoded[k].golden = DecodedOutputs[k].golden /\ decoded[k].parsed = DecodedOutputs[k].parsed
                    /\ decoded[k].correct = DecodedOutputs[k].correct
      BY <2>2
    <2>4. ValuesOf(a, name) = ValuesOf(b, name)
      BY <1>3, <2>3, SameVerdictsSameMetrics DEF IsMeasured
    <2>5. QED
      BY <1>3, <1>1, <2>4
  <1>4. ASSUME n = m, config.style.type # "similarity"
        PROVE  report.metrics[<<"accuracy", 0>>].direction =
                  (IF decoded[i].correct = DecodedOutputs[i].correct THEN "same"
                   ELSE IF decoded[i].correct THEN "up" ELSE "down")
    <2>1. AreOutputs(DecodedOutputs, n, config) /\ DOMAIN decoded = 1..n
      BY <1>4 DEF AreOutputs
    <2>2. DifferAt(i, DecodedOutputs, decoded)
      BY <2>1 DEF DifferAt
    <2>3. AccuracyFollows(MetricRows(a, b), DecodedOutputs[i], decoded[i])
      BY <1>4, <2>1, <2>2, AccuracyFollowsVerdict
    <2> HIDE DEF a, b
    <2>4. report.metrics = MetricRows(a, b)
      BY DEF a, b
    <2>5. QED
      BY <2>3, <2>4 DEF AccuracyFollows
  <1>5. ASSUME NEW name \in DOMAIN report.metrics
        PROVE  mirror[name].direction = Opposite(report.metrics[name].direction)
    <2>1. HasValues(a) /\ HasValues(b)
      BY RunsHaveValues
    <2> HIDE DEF a, b
    <2>2. report.metrics = MetricRows(a, b) /\ mirror = MetricRows(b, a)
      BY DEF a, b
    <2>3. name \in DOMAIN a \cup DOMAIN b
      BY <2>2, NamesOfMetrics
    <2>4. QED
      BY <2>1, <2>2, <2>3, MirrorsAreOpposite
  <1> HIDE DEF a, b
  <1>6. Moved(report) \cap Measured(report) = {} \/ mine # theirs
    BY <1>2 DEF Moved, Measured
  <1>7. n = m /\ Verdict(decoded[i]) = Verdict(DecodedOutputs[i]) => Moved(report) \subseteq Measured(report)
    BY <1>3 DEF Moved, Measured
  <1>8. QED
    BY <1>4, <1>5, <1>6, <1>7 DEF BlamesMetrics

Alike(this, that, report) ==
    this.input = that.input /\ this.output = that.output /\ Moved(report) \subseteq Measured(report)

LEMMA StepsAreBlamed ==
    ASSUME NEW m \in Nat, Rows = 1..m, Len(seen) = m, NEW n \in 1..m, NEW i \in 1..n,
           NEW f, NEW g, DOMAIN f = 1..m, DOMAIN g = 1..n, AlikeBut(i, n, f, g),
           NEW this, NEW that, this.steps = StepsOf(f), that.steps = StepsOf(g),
           n = m /\ g[i].output = f[i].output => Alike(this, that, CompareReport(this, that))
    PROVE  BlamesSteps(CompareReport(this, that), i, n)
  <1> DEFINE report == CompareReport(this, that)
             steps == StepRows(StepsOf(f), StepsOf(g))
             metrics == MetricRows(this.metrics, that.metrics)
             changed == ChangedSteps(report)
  <1>0. \A k \in 1..n : g[k].hash = f[k].hash /\ (k # i => g[k] = f[k])
    BY DEF AlikeBut
  <1>1. /\ report.steps = steps /\ report.metrics = metrics
        /\ report.outputDifferences = OutputDifferences(StepsOf(f), StepsOf(g))
        /\ report.differs <=> \/ \E k \in DOMAIN steps : ~(steps[k].input /\ steps[k].status /\ steps[k].output)
                              \/ \E name \in DOMAIN metrics : ~metrics[name].same
                              \/ this.input # that.input \/ this.output # that.output
    BY DEF CompareReport
  <1> HIDE DEF report
  <1>2. /\ DOMAIN steps = 1..m
        /\ \A k \in 1..m : /\ steps[k].input = (k \in 1..n) /\ steps[k].status = (k \in 1..n)
                           /\ steps[k].output = (k \in 1..n /\ f[k].output = g[k].output)
    <2> HIDE DEF changed, metrics
    <2>1. TellOutputs(steps, m, n, f, g)
      BY StepsAreCompared
    <2> HIDE DEF steps
    <2>2. QED
      BY <2>1 DEF TellOutputs
  <1> HIDE DEF steps, metrics
  <1>3. changed = {k \in 1..m : ~(k \in 1..n /\ f[k].output = g[k].output)}
    BY <1>1, <1>2 DEF ChangedSteps
  <1>4. changed \subseteq {i} \cup n + 1..Len(seen)
    BY <1>0, <1>3
  <1>5. DOMAIN report.outputDifferences = changed \cap {i}
    <2>1. DOMAIN StepsOf(f) = 1..m /\ DOMAIN StepsOf(g) = 1..n /\ 1..m \cap 1..n = 1..n
      BY DEF StepsOf
    <2>2. \A k \in 1..n : StepsOf(f)[k].output = f[k].output /\ StepsOf(g)[k].output = g[k].output
      BY DEF StepsOf
    <2>3. DOMAIN OutputDifferences(StepsOf(f), StepsOf(g)) = {k \in 1..n : f[k].output # g[k].output}
      BY <2>1, <2>2 DEF OutputDifferences
    <2> HIDE DEF changed
    <2>4. {k \in 1..n : f[k].output # g[k].output} = changed \cap {i}
      BY <1>0, <1>3
    <2>5. QED
      BY <1>1, <2>3, <2>4
  <1>6. \A k \in Rows : report.steps[k].input = (k <= n)
    BY <1>1, <1>2
  <1>7. report.differs <=> changed # {} \/ Moved(report) \cap Measured(report) # {}
    <2>a. report.differs <=> \/ \E k \in DOMAIN steps : ~(steps[k].input /\ steps[k].status /\ steps[k].output)
                             \/ Moved(report) # {} \/ this.input # that.input \/ this.output # that.output
      BY <1>1 DEF Moved
    <2>1. ASSUME changed = {}
          PROVE  report.differs <=> Moved(report) \cap Measured(report) # {}
      <3>1. n = m /\ g[i].output = f[i].output
        BY <1>3, <2>1
      <3>2. this.input = that.input /\ this.output = that.output /\ Moved(report) \subseteq Measured(report)
        BY <3>1 DEF Alike, report
      <3>3. ASSUME NEW k \in DOMAIN steps
            PROVE  steps[k].input /\ steps[k].status /\ steps[k].output
        <4>1. k \in 1..m /\ k \notin changed
          BY <1>2, <2>1
        <4> HIDE DEF changed
        <4>2. k \in 1..n /\ f[k].output = g[k].output
          BY <1>3, <4>1
        <4>3. QED
          BY <1>2, <4>1, <4>2
      <3>4. report.differs <=> Moved(report) # {}
        BY <2>a, <3>2, <3>3
      <3>5. QED
        BY <3>2, <3>4
    <2>2. ASSUME NEW k \in changed
          PROVE  report.differs
      <3>1. k \in DOMAIN steps /\ ~steps[k].output
        BY <1>2, <1>3
      <3>2. QED
        BY <1>1, <3>1
    <2> HIDE DEF changed
    <2>3. CASE changed = {}
      BY <2>1, <2>3
    <2>4. CASE changed # {}
      BY <2>2, <2>4
    <2>5. QED
      BY <2>3, <2>4
  <1> HIDE DEF changed
  <1>8. QED
    BY <1>4, <1>5, <1>6, <1>7 DEF BlamesSteps, changed, report

AreLatencies(latencies) == latencies \in Seq(Nat)

(* The metrics of the two runs, as the report reads them. *)
LEMMA RunsAreCompared ==
    ASSUME MetricsInv, ReachedInv, CompletedAsStored(config.style.type),
           NEW i \in Rows, NEW n \in Rows, i <= n, NEW response \in Samples,
           NEW mine, NEW theirs, AreLatencies(mine), AreLatencies(theirs),
           NEW this, this = RunData("run", config, [k \in Rows |-> outputs[k]], aggregate, mine),
           NEW others, others = OutputsWith(i, response, n), NEW decoded, decoded = DecodedWith(others, n),
           NEW that, that = RunData("run", [config EXCEPT !.limit = n], others, Aggregate(decoded), theirs),
           NEW report, report = CompareReport(this, that),
           NEW mirror, mirror = MetricRows(that.metrics, this.metrics)
    PROVE  BlamesSteps(report, i, n) /\ BlamesMetrics(report, mirror, decoded, i, n, mine, theirs)
  <1> DEFINE own == [k \in Rows |-> outputs[k]]
             limited == [config EXCEPT !.limit = n]
  <1>1. PICK m \in Nat \ {0} :
           /\ Rows = 1..m /\ Len(seen) = m /\ config.limit = m
           /\ DOMAIN DecodedOutputs = 1..m /\ DecodedOutputs = results
           /\ AreOutputs(DecodedOutputs, m, config)
    BY StoredOutputsAreWhole
  <1>2. n \in 1..m /\ i \in 1..n
    BY <1>1
  <1>3. config \in Setting /\ Stored = Rows /\ status = "completed"
    BY DEF MetricsInv, SettingsInv, ConfigInv, CompletedAsStored
  <1>4. aggregate = Aggregate(DecodedOutputs)
    BY <1>1, <1>3 DEF MetricsInv, CompletedInv
  <1>5. /\ Reanswered(i, response).hash = outputs[i].hash
        /\ IsJudged(Decode(Reanswered(i, response).output), config.style)
        /\ config.style.type # "similarity" =>
              Decode(Reanswered(i, response).output).golden = DecodedOutputs[i].golden
    BY OtherAnswersAreJudged
  <1>6. /\ AreOutputs(decoded, n, config)
        /\ DOMAIN others = 1..n /\ others[i] = Reanswered(i, response)
        /\ \A k \in 1..n : k # i => others[k] = outputs[k]
        /\ \A k \in 1..n : k # i => decoded[k] = DecodedOutputs[k]
        /\ decoded[i] = Decode(Reanswered(i, response).output)
    BY <1>1, <1>2, <1>3, <1>5, OthersAreOutputs
  <1>7. /\ this.input = Write(config) /\ this.output = Cardinality(1..m)
        /\ this.steps = StepsOf(own) /\ this.metrics = MetricsOf(config, DecodedOutputs, mine)
    <2>1. DecodedOutputs = [k \in DOMAIN own |-> Decode(own[k].output)]
      BY <1>3 DEF DecodedOutputs
    <2>2. this = RunData("run", config, own, Aggregate(DecodedOutputs), mine)
      BY <1>4
    <2>3. DOMAIN own = 1..m
      BY <1>1
    <2> HIDE DEF own
    <2>4. /\ this.input = Write(config) /\ this.output = Cardinality(DOMAIN own)
          /\ this.steps = StepsOf(own) /\ this.metrics = MetricsOf(config, DecodedOutputs, mine)
      BY <2>1, <2>2, RunsAreRead
    <2>5. QED
      BY <2>3, <2>4
  <1>8. /\ that.input = Write(limited) /\ that.output = Cardinality(1..n)
        /\ that.steps = StepsOf(others) /\ that.metrics = MetricsOf(config, decoded, theirs)
    <2>1. decoded = [k \in DOMAIN others |-> Decode(others[k].output)]
      BY <1>6 DEF DecodedWith
    <2>2. MetricsOf(limited, decoded, theirs) = MetricsOf(config, decoded, theirs)
      BY <1>3, LimitsDoNotCount
    <2> HIDE DEF limited
    <2>3. that = RunData("run", limited, others, Aggregate(decoded), theirs)
      BY DEF limited
    <2>4. /\ that.input = Write(limited) /\ that.output = Cardinality(DOMAIN others)
          /\ that.steps = StepsOf(others) /\ that.metrics = MetricsOf(limited, decoded, theirs)
      BY <2>1, <2>3, RunsAreRead
    <2>5. QED
      BY <1>6, <2>2, <2>4
  <1>9. /\ DOMAIN own = 1..m
        /\ \A k \in 1..n : others[k].hash = own[k].hash /\ (k # i => others[k] = own[k])
    <2>1. DOMAIN own = 1..m /\ \A k \in 1..m : own[k] = outputs[k]
      BY <1>1
    <2>2. \A k \in 1..n : k \in 1..m
      BY <1>1, <1>2
    <2> HIDE DEF own
    <2>3. QED
      BY <1>5, <1>6, <2>1, <2>2
  <1>10. own[i] = outputs[i]
    OBVIOUS
  <1>11. n = m => limited = config
    BY <1>1, <1>3 DEF Setting
  <1> HIDE DEF own, limited
  <1>12. BlamesMetrics(report, mirror, decoded, i, n, mine, theirs)
    <2>1. report.metrics = MetricRows(this.metrics, that.metrics)
      BY DEF CompareReport
    <2>2. config.style.type # "similarity" => decoded[i].golden = DecodedOutputs[i].golden
      BY <1>5, <1>6
    <2>3. m \in Nat
      BY <1>1
    <2>4. /\ Len(seen) = m /\ AreOutputs(DecodedOutputs, m, config) /\ AreOutputs(decoded, n, config)
          /\ \A k \in 1..n : k # i => decoded[k] = DecodedOutputs[k]
      BY <1>1, <1>6
    <2>5. /\ report.metrics = MetricRows(MetricsOf(config, DecodedOutputs, mine), MetricsOf(config, decoded, theirs))
          /\ mirror = MetricRows(MetricsOf(config, decoded, theirs), MetricsOf(config, DecodedOutputs, mine))
      BY <1>7, <1>8, <2>1
    <2>6. QED
      BY <1>2, <2>2, <2>3, <2>4, <2>5, MetricsAreBlamed DEF AreLatencies
  <1>13. ASSUME n = m, others[i].output = own[i].output
         PROVE  this.input = that.input /\ this.output = that.output /\ Moved(report) \subseteq Measured(report)
    <2>1. decoded[i] = DecodedOutputs[i]
      BY <1>3, <1>6, <1>10, <1>13 DEF DecodedOutputs
    <2>2. Moved(report) \subseteq Measured(report)
      BY <1>1, <1>12, <1>13, <2>1 DEF BlamesMetrics
    <2>3. QED
      BY <1>7, <1>8, <1>11, <1>13, <2>2
  <1>14. BlamesSteps(report, i, n)
    <2>1. m \in Nat
      BY <1>1
    <2>2. /\ Rows = 1..m /\ Len(seen) = m /\ DOMAIN own = 1..m /\ DOMAIN others = 1..n
          /\ this.steps = StepsOf(own) /\ that.steps = StepsOf(others)
      BY <1>1, <1>6, <1>7, <1>8, <1>9
    <2>3. AlikeBut(i, n, own, others)
      BY <1>9 DEF AlikeBut
    <2>4. n = m /\ others[i].output = own[i].output => Alike(this, that, CompareReport(this, that))
      BY <1>13 DEF Alike
    <2>5. BlamesSteps(CompareReport(this, that), i, n)
      BY <1>2, <2>1, <2>2, <2>3, <2>4, StepsAreBlamed
    <2>6. QED
      BY <2>5
  <1>15. QED
    BY <1>12, <1>14

LEMMA ComparisonIsRight ==
    ASSUME MetricsInv, ReachedInv
    PROVE  ComparisonBlamesTheRow
  <1> SUFFICES ASSUME CompletedAsStored(config.style.type), NEW pair \in Latencies, NEW mine \in {pair[1]}, NEW theirs \in {pair[2]},
                      NEW this \in {RunData("run", config, [k \in Rows |-> outputs[k]], aggregate, mine)},
                      NEW i \in Rows, NEW n \in Rows, NEW response \in Samples, i <= n,
                      NEW others \in {OutputsWith(i, response, n)},
                      NEW decoded \in {[k \in 1..n |-> Decode(others[k].output)]},
                      NEW that \in {RunData("run", [config EXCEPT !.limit = n], others, Aggregate(decoded), theirs)},
                      NEW report \in {CompareReport(this, that)},
                      NEW mirror \in {MetricRows(that.metrics, this.metrics)}
               PROVE  LET changed == {k \in Rows : ~report.steps[k].output}
                          moved == {m \in DOMAIN report.metrics : ~report.metrics[m].same}
                          measured == {m \in DOMAIN report.metrics : m[1] = "latency"}
                          Judged(output) == IF output.kind = "similarity" THEN <<output.score>>
                                            ELSE <<output.parsed, output.correct>>
                      IN  /\ changed \subseteq {i} \cup n + 1..Len(seen)
                          /\ DOMAIN report.outputDifferences = changed \cap {i}
                          /\ \A k \in Rows : report.steps[k].input = (k <= n)
                          /\ report.differs <=> changed # {} \/ moved \cap measured # {}
                          /\ mine = theirs => moved \cap measured = {}
                          /\ n = Len(seen) /\ Judged(decoded[i]) = Judged(DecodedOutputs[i]) => moved \subseteq measured
                          /\ n = Len(seen) /\ config.style.type # "similarity" =>
                                  report.metrics[<<"accuracy", 0>>].direction =
                                      (IF decoded[i].correct = DecodedOutputs[i].correct THEN "same"
                                       ELSE IF decoded[i].correct THEN "up" ELSE "down")
                          /\ \A m \in DOMAIN report.metrics :
                                  mirror[m].direction = (CASE report.metrics[m].direction = "up" -> "down"
                                                           [] report.metrics[m].direction = "down" -> "up"
                                                           [] OTHER -> report.metrics[m].direction)
    BY Zenon DEF ComparisonBlamesTheRow
  <1>1. decoded = DecodedWith(others, n)
    BY DEF DecodedWith
  <1>2. AreLatencies(mine) /\ AreLatencies(theirs)
    BY LatenciesAssumption DEF AreLatencies
  <1>3. BlamesSteps(report, i, n) /\ BlamesMetrics(report, mirror, decoded, i, n, mine, theirs)
    BY <1>1, <1>2, RunsAreCompared
  <1>4. QED
    BY <1>3 DEF BlamesSteps, BlamesMetrics, ChangedSteps, Moved, Measured, Verdict, Opposite

(* qt compare, of a completed run and one in which a row had another answer, or with
   fewer rows, differs in that row's step and the missing ones, in the metrics of latencies,
   and in other metrics only as the verdict on the row says (CompareReport::build,
   compare_metrics). *)
THEOREM ComparisonsBlameTheRow == Spec => []ComparisonBlamesTheRow
  <1>1. MetricsInv /\ ReachedInv => ComparisonBlamesTheRow
    BY ComparisonIsRight
  <1>2. QED
    BY <1>1, Configured, AttemptsReadBatches, OutputsAreKept, ResultsAreStored, RunsAreAggregated,
       AttemptsReachLimits, PTL DEF MetricsInv
=============================================================================
