----------------------------- MODULE FoldTheory -----------------------------
(***************************************************************************)
(* Folds, recursion and sums.  The folds of the community modules and      *)
(* recursive functions are defined by CHOOSE; here they are shown to obey  *)
(* the equations their names promise, by induction from the well-founded   *)
(* order of the numbers.  A proof that needs an instance instantiates this *)
(* module with its operator: op(element, accumulator), the base value and  *)
(* the order in which elements are chosen.                                 *)
(***************************************************************************)
EXTENDS SequencesExt, FiniteSetTheorems, WellFoundedInduction, TLAPS

CONSTANTS op(_, _), base, choose(_)

\* The order of the numbers is well founded, as a relation.
LEMMA LessThan ==
    \E R : IsWellFoundedOn(R, Nat) /\ \A m, n \in Nat : m < n => <<m, n>> \in R
<1>1. IsWellFoundedOn(OpToRel(<, Nat), Nat)
    BY NatLessThanWellFounded
<1>2. \A m, n \in Nat : m < n => <<m, n>> \in OpToRel(<, Nat)
    BY DEF OpToRel
<1> QED
    BY <1>1, <1>2, Zenon

\* Every non-empty set of numbers has a least one.
THEOREM LeastNumber ==
    ASSUME NEW T, T \subseteq Nat, T # {}
    PROVE  \E n \in T : \A m \in T : n <= m
<1>1. PICK R : IsWellFoundedOn(R, Nat) /\ \A m, n \in Nat : m < n => <<m, n>> \in R
  BY LessThan
<1>2. IsWellFoundedOn(R, Nat)
  BY <1>1
<1>3. PICK n \in T : \A m \in T : ~ (<<m, n>> \in R)
  BY <1>2, WFMin, Zenon
<1>4. SUFFICES ASSUME NEW m \in T PROVE n <= m
  OBVIOUS
<1>5. m \in Nat /\ n \in Nat
  OBVIOUS
<1>6. ~ (m < n)
  BY <1>5, <1>1, <1>3
<1> QED
  BY <1>5, <1>6

\* Induction, with the set of the numbers it holds for as a parameter.
THEOREM Induction ==
    ASSUME NEW T, 0 \in T, \A n \in Nat : n \in T => n + 1 \in T
    PROVE  Nat \subseteq T
<1>1. SUFFICES ASSUME ~ (Nat \subseteq T) PROVE FALSE
  OBVIOUS
<1>2. PICK n \in Nat \ T : \A m \in Nat \ T : n <= m
  BY <1>1, LeastNumber
<1>3. n # 0 /\ n - 1 \in Nat /\ n - 1 \in T
  BY <1>2
<1>4. (n-1)+1 = n
  BY <1>2
<1> QED
  BY <1>2, <1>3, <1>4

\* Induction over the subsets of a finite set, one element at a time.
THEOREM SubsetInduction ==
    ASSUME NEW S, IsFiniteSet(S), NEW T,
           \A t \in SUBSET S : (\A x \in t : t \ {x} \in T) => t \in T
    PROVE  SUBSET S \subseteq T
<1>1. SUFFICES ASSUME ~ (SUBSET S \subseteq T) PROVE FALSE
  OBVIOUS
<1> DEFINE N == {Cardinality(t) : t \in (SUBSET S) \ T}
<1>2. \A t \in SUBSET S : IsFiniteSet(t) /\ Cardinality(t) \in Nat
  BY FS_Subset, FS_CardinalityType
<1>3. N \subseteq Nat /\ N # {}
  BY <1>1, <1>2
<1> HIDE DEF N
<1>4. PICK n \in N : \A m \in N : n <= m
  BY <1>3, LeastNumber
<1>5. PICK t \in (SUBSET S) \ T : Cardinality(t) = n
  BY <1>4 DEF N
<1>6. ASSUME NEW x \in t PROVE t \ {x} \in T
  <2>1. Cardinality(t \ {x}) = n - 1 /\ n \in Nat
    BY <1>2, <1>5, FS_RemoveElement
  <2>2. ~ (n <= n - 1)
    BY <2>1
  <2>3. t \ {x} \in SUBSET S
    BY <1>5
  <2> QED
    BY <2>1, <2>2, <2>3, <1>4 DEF N
<1> QED
  BY <1>5, <1>6

-----------------------------------------------------------------------------
(* Recursive functions on an initial segment of the numbers.               *)

Recurs(f, N) == f = [n \in 0..N |-> IF n = 0 THEN base ELSE op(n, f[n - 1])]

\* A definition by recursion over 0..N does define a function.
THEOREM RecursionExists ==
    ASSUME NEW N \in Nat PROVE \E f : Recurs(f, N)
<1> DEFINE T == {n \in Nat : \E f : Recurs(f, n)}
<1>1. 0 \in T
  <2> DEFINE f == [n \in 0..0 |-> base]
  <2>1. Recurs(f, 0)
    BY DEF Recurs
  <2> QED
    BY <2>1
<1>2. ASSUME NEW n \in Nat, n \in T PROVE n + 1 \in T
  <2>1. PICK f : Recurs(f, n)
    BY <1>2
  <2> DEFINE h == [k \in 0..(n + 1) |-> IF k = 0 THEN base ELSE op(k, f[k - 1])]
  <2>2. \A k \in 0..n : h[k] = f[k]
    BY <2>1 DEF Recurs
  <2>3. \A k \in 0..(n + 1) : k # 0 => k - 1 \in 0..n
    OBVIOUS
  <2>4. \A k \in 0..(n + 1) : k # 0 => h[k - 1] = f[k - 1]
    BY <2>2, <2>3
  <2>5. h = [k \in 0..(n + 1) |-> IF k = 0 THEN base ELSE op(k, h[k - 1])]
    BY <2>4, Zenon
  <2>6. Recurs(h, n + 1)
    BY <2>5 DEF Recurs
  <2> QED
    BY <2>6
<1>3. Nat \subseteq T
  <2> HIDE DEF T
  <2> QED BY <1>1, <1>2, Induction
<1> QED
  BY <1>3

-----------------------------------------------------------------------------

\* The fold of the values of f over S.
Fold(f, S) == MapThenFoldSet(op, base, LAMBDA x : f[x], choose, S)

\* g satisfies the equation of the fold on every set of F.
Folds(g, f, F) ==
    g = [t \in F |-> IF t = {} THEN base ELSE op(f[choose(t)], g[t \ {choose(t)}])]

Chooses(S) == \A t \in SUBSET S : t # {} => choose(t) \in t

UpTo(S, n) == {t \in SUBSET S : Cardinality(t) <= n}

\* A fold is the value at S of a function on the subsets of S.
LEMMA FoldDef ==
    \A f, S : Fold(f, S) = (CHOOSE g : Folds(g, f, SUBSET S))[S]
  BY DEF Fold, Folds, MapThenFoldSet

\* That function exists, when choose picks an element of each subset.
LEMMA FoldsExist ==
    ASSUME NEW S, IsFiniteSet(S), Chooses(S), NEW f
    PROVE  \E g : Folds(g, f, SUBSET S)
<1> DEFINE P == {n \in Nat : \E g : Folds(g, f, UpTo(S, n))}
<1>0. \A t \in SUBSET S : IsFiniteSet(t) /\ Cardinality(t) \in Nat
  BY FS_Subset, FS_CardinalityType
<1>1. 0 \in P
  <2> DEFINE g == [t \in UpTo(S, 0) |-> base]
  <2>1. \A t \in UpTo(S, 0) : t = {}
    BY <1>0, FS_EmptySet DEF UpTo
  <2>2. Folds(g, f, UpTo(S, 0))
    BY <2>1 DEF Folds
  <2> QED
    BY <2>2
<1>2. ASSUME NEW n \in Nat, n \in P PROVE n + 1 \in P
  <2>1. PICK g : Folds(g, f, UpTo(S, n))
    BY <1>2
  <2> DEFINE h == [t \in UpTo(S, n + 1) |->
                      IF t = {} THEN base ELSE op(f[choose(t)], g[t \ {choose(t)}])]
  <2>2. \A t \in UpTo(S, n) : h[t] = g[t] /\ t \in UpTo(S, n + 1)
    <3>1. \A t \in UpTo(S, n) : t \in UpTo(S, n + 1)
      BY <1>0 DEF UpTo
    <3>2. \A t \in UpTo(S, n) :
              g[t] = IF t = {} THEN base ELSE op(f[choose(t)], g[t \ {choose(t)}])
      BY <2>1 DEF Folds
    <3> QED
      BY <3>1, <3>2
  <2>3. \A t \in UpTo(S, n + 1) : t # {} => t \ {choose(t)} \in UpTo(S, n)
    BY <1>0, FS_RemoveElement DEF UpTo, Chooses
  <2>4. \A t \in UpTo(S, n + 1) : t # {} => g[t \ {choose(t)}] = h[t \ {choose(t)}]
    BY <2>2, <2>3
  <2>5. h = [t \in UpTo(S, n + 1) |->
                      IF t = {} THEN base ELSE op(f[choose(t)], h[t \ {choose(t)}])]
    BY <2>4, Zenon
  <2>6. Folds(h, f, UpTo(S, n + 1))
    BY <2>5 DEF Folds
  <2> QED
    BY <2>6
<1>3. Nat \subseteq P
  <2> HIDE DEF P
  <2> QED BY <1>1, <1>2, Induction
<1>4. UpTo(S, Cardinality(S)) = SUBSET S /\ Cardinality(S) \in Nat
  BY FS_Subset, FS_CardinalityType DEF UpTo
<1> QED
  BY <1>3, <1>4

\* It depends on the values at S alone, and not on the sets above S.
LEMMA FoldsAgree ==
    ASSUME NEW S, IsFiniteSet(S), Chooses(S), NEW D, S \subseteq D, NEW f, NEW h,
           \A x \in S : f[x] = h[x],
           NEW g, NEW k, Folds(g, f, SUBSET S), Folds(k, h, SUBSET D)
    PROVE  g[S] = k[S]
<1> DEFINE T == {t \in SUBSET S : g[t] = k[t]}
<1>1. ASSUME NEW t \in SUBSET S, \A x \in t : t \ {x} \in T PROVE t \in T
  <2>1. g[t] = IF t = {} THEN base ELSE op(f[choose(t)], g[t \ {choose(t)}])
    BY DEF Folds
  <2>2. k[t] = IF t = {} THEN base ELSE op(h[choose(t)], k[t \ {choose(t)}])
    BY DEF Folds
  <2>3. t # {} => choose(t) \in t
    BY DEF Chooses
  <2>4. t # {} => g[t \ {choose(t)}] = k[t \ {choose(t)}]
    BY <2>3, <1>1
  <2>5. t # {} => f[choose(t)] = h[choose(t)]
    BY <2>3
  <2> QED
    BY <2>1, <2>2, <2>4, <2>5
<1>2. SUBSET S \subseteq T
  <2> HIDE DEF T
  <2> QED BY <1>1, SubsetInduction
<1> QED
  BY <1>2

\* Functions that agree on S have the same fold.
THEOREM FoldCongruent ==
    ASSUME NEW S, IsFiniteSet(S), Chooses(S), NEW f, NEW h, \A x \in S : f[x] = h[x]
    PROVE  Fold(f, S) = Fold(h, S)
<1> DEFINE g == CHOOSE r : Folds(r, f, SUBSET S)
           k == CHOOSE r : Folds(r, h, SUBSET S)
<1>1. Folds(g, f, SUBSET S) /\ Folds(k, h, SUBSET S)
  BY FoldsExist
<1>2. Fold(f, S) = g[S] /\ Fold(h, S) = k[S]
  BY FoldDef
<1> HIDE DEF g, k
<1>3. g[S] = k[S]
  BY <1>1, FoldsAgree
<1> QED
  BY <1>2, <1>3

\* The fold over nothing is the base.
THEOREM FoldEmpty ==
    ASSUME NEW f, Chooses({}) PROVE Fold(f, {}) = base
<1>1. Folds(CHOOSE g : Folds(g, f, SUBSET {}), f, SUBSET {})
  BY FoldsExist, FS_EmptySet
<1>2. \A g : Folds(g, f, SUBSET {}) => g[{}] = base
  BY DEF Folds
<1> QED
  BY <1>1, <1>2, FoldDef

\* A fold takes the chosen element last.
THEOREM FoldUnfolds ==
    ASSUME NEW S, IsFiniteSet(S), Chooses(S), S # {}, NEW f
    PROVE  Fold(f, S) = op(f[choose(S)], Fold(f, S \ {choose(S)}))
<1> DEFINE g == CHOOSE k : Folds(k, f, SUBSET S)
           R == S \ {choose(S)}
           r == CHOOSE k : Folds(k, f, SUBSET R)
<1>1. Folds(g, f, SUBSET S)
  BY FoldsExist
<1>2. IsFiniteSet(R) /\ Chooses(R) /\ R \subseteq S
  BY FS_RemoveElement DEF Chooses
<1>3. Folds(r, f, SUBSET R)
  <2> HIDE DEF R
  <2> QED BY <1>2, FoldsExist
<1>4. g[S] = op(f[choose(S)], g[R])
  <2>1. \A k : Folds(k, f, SUBSET S) => k[S] = op(f[choose(S)], k[R])
    BY DEF Folds
  <2> HIDE DEF g, R
  <2> QED BY <1>1, <2>1
<1>5. r[R] = g[R]
  <2> HIDE DEF g, r, R
  <2> QED BY <1>1, <1>2, <1>3, FoldsAgree
<1>6. Fold(f, S) = g[S] /\ Fold(f, R) = r[R]
  BY FoldDef
<1> HIDE DEF g, r
<1> QED
  BY <1>4, <1>5, <1>6

\* What base and op stay in, the fold is in.
THEOREM FoldIn ==
    ASSUME NEW S, IsFiniteSet(S), Chooses(S), NEW f, NEW V, base \in V,
           \A x \in S : \A v \in V : op(f[x], v) \in V
    PROVE  Fold(f, S) \in V
<1> DEFINE T == {t \in SUBSET S : Fold(f, t) \in V}
<1>1. ASSUME NEW t \in SUBSET S, \A x \in t : t \ {x} \in T PROVE t \in T
  <2>1. IsFiniteSet(t) /\ Chooses(t)
    BY FS_Subset DEF Chooses
  <2>2. CASE t = {}
    BY <2>1, <2>2, FoldEmpty
  <2>3. CASE t # {}
    <3>1. choose(t) \in t
      BY <2>3 DEF Chooses
    <3>2. Fold(f, t \ {choose(t)}) \in V
      BY <3>1, <1>1
    <3>3. Fold(f, t) = op(f[choose(t)], Fold(f, t \ {choose(t)}))
      BY <2>1, <2>3, FoldUnfolds
    <3> QED
      BY <3>1, <3>2, <3>3
  <2> QED
    BY <2>2, <2>3
<1>2. SUBSET S \subseteq T
  <2> HIDE DEF T
  <2> QED BY <1>1, SubsetInduction
<1> QED
  BY <1>2

-----------------------------------------------------------------------------
(* Folds of sequences, from left to right.                                 *)

ChoosesLast == \A n \in Nat : \A t \in SUBSET (1..n) : t # {} => choose(t) = Max(t)

\* Max is the greatest element of a set of indices.
LEMMA MaxInterval ==
    ASSUME NEW n \in Nat, NEW t \in SUBSET (1..n), t # {}
    PROVE  Max(t) \in t /\ \A y \in t : Max(t) >= y
<1> DEFINE N == {n - y : y \in t}
<1>0. \A y \in t : y \in Nat /\ n - y \in Nat
  BY SMT
<1>1. N \subseteq Nat /\ N # {}
  BY <1>0
<1>2. PICK k \in N : \A m \in N : k <= m
  <2> HIDE DEF N
  <2> QED BY <1>1, LeastNumber
<1>3. PICK x \in t : k = n - x
  OBVIOUS
<1>4. ASSUME NEW y \in t PROVE x >= y
  <2>1. n - x <= n - y
    BY <1>2, <1>3
  <2>2. x \in Nat /\ y \in Nat
    BY <1>0
  <2> QED
    BY <2>1, <2>2, SMT
<1> QED
  BY <1>3, <1>4 DEF Max

\* FoldLeft takes the last element of a sequence last.
THEOREM FoldAppend ==
    ASSUME ChoosesLast, NEW E, NEW s \in Seq(E), NEW e \in E
    PROVE  Fold(Append(s, e), DOMAIN Append(s, e)) = op(e, Fold(s, DOMAIN s))
<1> DEFINE n == Len(s)
           a == Append(s, e)
           D == 1..(n + 1)
<1>1. n \in Nat /\ DOMAIN s = 1..n /\ DOMAIN a = D /\ a[n + 1] = e /\ \A i \in 1..n : a[i] = s[i]
  OBVIOUS
<1>2. \A m \in Nat : Chooses(1..m) /\ IsFiniteSet(1..m)
  <2> SUFFICES ASSUME NEW m \in Nat PROVE Chooses(1..m) /\ IsFiniteSet(1..m)
    OBVIOUS
  <2>1. \A t \in SUBSET (1..m) : t # {} => choose(t) \in t
    BY MaxInterval DEF ChoosesLast
  <2>2. IsFiniteSet(1..m)
    BY FS_Interval
  <2> QED
    BY <2>1, <2>2 DEF Chooses
<1>3. choose(D) = n + 1
  <2>0. n + 1 \in Nat
    BY <1>1
  <2>1. D \in SUBSET D /\ n + 1 \in Nat /\ n + 1 \in D /\ D # {}
    BY <2>0
  <2>2. choose(D) = Max(D)
    BY <2>1 DEF ChoosesLast
  <2>3. Max(D) \in D /\ Max(D) >= n + 1
    BY <2>1, MaxInterval
  <2> QED
    BY <1>1, <2>2, <2>3
<1>4. D \ {n + 1} = 1..n /\ D # {}
  BY <1>1
<1>5. Fold(a, D) = op(a[n + 1], Fold(a, 1..n))
  <2>1. IsFiniteSet(D) /\ Chooses(D)
    BY <1>1, <1>2
  <2> HIDE DEF D, a
  <2> QED BY <2>1, <1>3, <1>4, FoldUnfolds
<1>6. Fold(a, 1..n) = Fold(s, 1..n)
  <2> HIDE DEF a
  <2> QED BY <1>1, <1>2, FoldCongruent
<1> QED
  BY <1>1, <1>5, <1>6

\* FoldLeft over no elements is the base.
THEOREM FoldNone ==
    ASSUME ChoosesLast PROVE Fold(<< >>, DOMAIN << >>) = base
<1>1. DOMAIN << >> = {}
  OBVIOUS
<1>2. Chooses({})
  BY DEF Chooses
<1> QED
  BY <1>1, <1>2, FoldEmpty

-----------------------------------------------------------------------------
(* Filters: folds that keep some of the elements of a sequence.            *)

\* op appends the element to what was kept before it, or drops it.
Filters(E) == base = << >> /\ \A e \in E : \A K \in Seq(E) : op(e, K) \in {K, Append(K, e)}

\* What m tells of the filtered sequence r of s: where each kept element was,
\* and why each of the others was dropped.
Embeds(m, r, s, E) ==
    /\ r \in Seq(E)
    /\ m \in [1..Len(r) -> 1..Len(s)]
    /\ \A i, j \in 1..Len(r) : i < j => m[i] < m[j]
    /\ \A i \in 1..Len(r) :
          /\ i <= m[i] /\ r[i] = s[m[i]]
          /\ \E K \in Seq(E) : Len(K) = i - 1 /\ op(r[i], K) = Append(K, r[i])
    /\ \A j \in 1..Len(s) :
          \/ \E i \in 1..Len(r) : m[i] = j
          \/ \E K \in Seq(E) : Len(K) < j /\ op(s[j], K) = K

\* One more element is kept at the end, or dropped.
LEMMA EmbedsStep ==
    ASSUME NEW E, Filters(E), NEW s \in Seq(E), NEW e \in E, NEW m, NEW r, Embeds(m, r, s, E)
    PROVE  \E k : Embeds(k, op(e, r), Append(s, e), E)
<1> DEFINE a == Append(s, e)
           n == Len(s)
           l == Len(r)
<1>1. /\ n \in Nat /\ Len(a) = n + 1 /\ a[n + 1] = e /\ \A j \in 1..n : a[j] = s[j]
      /\ r \in Seq(E) /\ l \in Nat
  BY DEF Embeds
<1>2. l <= n
  <2>1. CASE l = 0
    BY <1>1, <2>1
  <2>2. CASE l # 0
    <3>1. l \in 1..l
      BY <1>1, <2>2
    <3>2. l <= m[l] /\ m[l] \in 1..n
      BY <3>1 DEF Embeds
    <3> QED
      BY <1>1, <3>2
  <2> QED BY <2>1, <2>2
<1> HIDE DEF a
<1>3. CASE op(e, r) = r
  <2>1. m \in [1..l -> 1..Len(a)]
    BY <1>1 DEF Embeds
  <2>2. \A i \in 1..l : r[i] = a[m[i]]
    BY <1>1 DEF Embeds
  <2>3. ASSUME NEW j \in 1..Len(a)
        PROVE  \/ \E i \in 1..l : m[i] = j
               \/ \E K \in Seq(E) : Len(K) < j /\ op(a[j], K) = K
    <3>1. CASE j \in 1..n
      BY <1>1, <3>1 DEF Embeds
    <3>2. CASE j = n + 1
      <4>1. Len(r) < j /\ op(a[j], r) = r
        BY <1>1, <1>2, <1>3, <3>2
      <4> QED
        BY <1>1, <4>1
    <3> QED
      BY <1>1, <3>1, <3>2
  <2>4. Embeds(m, r, a, E)
    BY <1>1, <2>1, <2>2, <2>3 DEF Embeds
  <2> QED
    BY <1>3, <2>4 DEF a
<1>4. CASE op(e, r) = Append(r, e)
  <2> DEFINE q == Append(r, e)
             k == [i \in 1..(l + 1) |-> IF i = l + 1 THEN n + 1 ELSE m[i]]
  <2>1. q \in Seq(E) /\ Len(q) = l + 1 /\ q[l + 1] = e /\ \A i \in 1..l : q[i] = r[i]
    BY <1>1
  <2>2. \A i \in 1..l : m[i] \in 1..n /\ i <= m[i] /\ r[i] = s[m[i]]
    BY DEF Embeds
  <2>3. /\ k \in [1..Len(q) -> 1..Len(a)]
        /\ k[l + 1] = n + 1 /\ \A i \in 1..l : k[i] = m[i]
    BY <1>1, <2>1, <2>2
  <2> HIDE DEF q, k
  <2>4. ASSUME NEW i \in 1..Len(q), NEW j \in 1..Len(q), i < j PROVE k[i] < k[j]
    <3>1. i \in 1..l
      BY <1>1, <2>1, <2>4
    <3>2. CASE j = l + 1
      <4>1. k[i] = m[i] /\ m[i] \in 1..n
        BY <2>2, <2>3, <3>1
      <4>2. k[j] = n + 1
        BY <2>3, <3>2
      <4> QED
        BY <1>1, <4>1, <4>2
    <3>3. CASE j \in 1..l
      BY <2>3, <2>4, <3>1, <3>3 DEF Embeds
    <3> QED
      BY <1>1, <2>1, <3>2, <3>3
  <2>5. ASSUME NEW i \in 1..Len(q)
        PROVE  /\ i <= k[i] /\ q[i] = a[k[i]]
               /\ \E K \in Seq(E) : Len(K) = i - 1 /\ op(q[i], K) = Append(K, q[i])
    <3>1. CASE i = l + 1
      <4>1. Len(r) = i - 1 /\ op(q[i], r) = Append(r, q[i])
        BY <1>1, <1>4, <2>1, <3>1
      <4>2. i <= k[i] /\ q[i] = a[k[i]]
        BY <1>1, <1>2, <2>1, <2>3, <3>1
      <4> QED
        BY <1>1, <4>1, <4>2
    <3>2. CASE i \in 1..l
      <4>1. q[i] = r[i] /\ k[i] = m[i] /\ m[i] \in 1..n /\ i <= m[i] /\ a[m[i]] = s[m[i]] /\ r[i] = s[m[i]]
        BY <1>1, <2>1, <2>2, <2>3, <3>2
      <4>2. \E K \in Seq(E) : Len(K) = i - 1 /\ op(r[i], K) = Append(K, r[i])
        BY <3>2 DEF Embeds
      <4> QED
        BY <4>1, <4>2
    <3> QED
      BY <1>1, <2>1, <3>1, <3>2
  <2>6. ASSUME NEW j \in 1..Len(a)
        PROVE  \/ \E i \in 1..Len(q) : k[i] = j
               \/ \E K \in Seq(E) : Len(K) < j /\ op(a[j], K) = K
    <3>1. CASE j = n + 1
      BY <1>1, <2>1, <2>3, <3>1
    <3>2. CASE j \in 1..n
      <4>1. CASE \E i \in 1..l : m[i] = j
        BY <1>1, <2>1, <2>3, <4>1
      <4>2. CASE \E K \in Seq(E) : Len(K) < j /\ op(s[j], K) = K
        BY <1>1, <3>2, <4>2
      <4> QED
        BY <3>2, <4>1, <4>2 DEF Embeds
    <3> QED
      BY <1>1, <3>1, <3>2
  <2>7. Embeds(k, q, a, E)
    BY <2>1, <2>3, <2>4, <2>5, <2>6 DEF Embeds
  <2> QED
    BY <1>4, <2>7 DEF a, q
<1> QED
  BY <1>1, <1>3, <1>4 DEF Filters

\* A loop that keeps some elements yields a subsequence, and says why it dropped each
\* of the others.
THEOREM FilterEmbeds ==
    ASSUME ChoosesLast, NEW E, Filters(E), NEW s \in Seq(E)
    PROVE  \E m : Embeds(m, Fold(s, DOMAIN s), s, E)
<1> DEFINE T == {n \in Nat : \A t \in Seq(E) : Len(t) = n => \E m : Embeds(m, Fold(t, DOMAIN t), t, E)}
<1>1. 0 \in T
  <2> SUFFICES ASSUME NEW t \in Seq(E), Len(t) = 0
               PROVE  \E m : Embeds(m, Fold(t, DOMAIN t), t, E)
    OBVIOUS
  <2>1. t = << >>
    OBVIOUS
  <2>2. Fold(t, DOMAIN t) = << >>
    BY <2>1, FoldNone DEF Filters
  <2>3. Embeds(<< >>, << >>, << >>, E)
    <3>1. << >> \in Seq(E) /\ Len(<< >>) = 0 /\ 1..0 = {}
      OBVIOUS
    <3>2. << >> \in [1..Len(<< >>) -> 1..Len(<< >>)]
      OBVIOUS
    <3> QED
      BY <3>1, <3>2 DEF Embeds
  <2> QED
    BY <2>1, <2>2, <2>3
<1>2. ASSUME NEW n \in Nat, n \in T PROVE n + 1 \in T
  <2> SUFFICES ASSUME NEW t \in Seq(E), Len(t) = n + 1
               PROVE  \E m : Embeds(m, Fold(t, DOMAIN t), t, E)
    OBVIOUS
  <2> DEFINE f == [i \in 1..n |-> t[i]]
             e == t[Len(t)]
  <2>1. f \in Seq(E) /\ Len(f) = n /\ e \in E /\ t = Append(f, e)
    <3>1. f \in Seq(E) /\ Len(f) = n /\ e \in E
      OBVIOUS
    <3>2. Len(Append(f, e)) = n + 1 /\ \A i \in 1..(n + 1) : Append(f, e)[i] = t[i]
      BY <3>1
    <3>3. Append(f, e) \in Seq(E)
      BY <3>1
    <3> HIDE DEF f, e
    <3> QED
      BY <3>1, <3>2, <3>3
  <2> HIDE DEF f, e
  <2>2. PICK m : Embeds(m, Fold(f, DOMAIN f), f, E)
    BY <1>2, <2>1
  <2>3. Fold(t, DOMAIN t) = op(e, Fold(f, DOMAIN f))
    BY <2>1, FoldAppend
  <2> QED
    BY <2>1, <2>2, <2>3, EmbedsStep
<1>3. Nat \subseteq T
  <2> HIDE DEF T
  <2> QED BY <1>1, <1>2, Induction
<1> QED
  BY <1>3

-----------------------------------------------------------------------------
(* Sums.                                                                   *)

Adds == base = 0 /\ \A a, b \in Int : op(a, b) = a + b

\* A sum of integers is one.
THEOREM SumType ==
    ASSUME Adds, NEW S, IsFiniteSet(S), Chooses(S), NEW f, \A x \in S : f[x] \in Int
    PROVE  Fold(f, S) \in Int
<1>1. ASSUME NEW x \in S, NEW v \in Int PROVE op(f[x], v) \in Int
  <2>1. f[x] \in Int
    OBVIOUS
  <2>2. op(f[x], v) = f[x] + v
    BY <2>1 DEF Adds
  <2> QED
    BY <2>1, <2>2
<1>2. base \in Int
  BY DEF Adds
<1> QED
  BY <1>1, <1>2, FoldIn

\* A sum of numbers is one.
THEOREM SumNat ==
    ASSUME Adds, NEW S, IsFiniteSet(S), Chooses(S), NEW f, \A x \in S : f[x] \in Nat
    PROVE  Fold(f, S) \in Nat
<1>1. ASSUME NEW x \in S, NEW v \in Nat PROVE op(f[x], v) \in Nat
  <2>1. f[x] \in Nat
    OBVIOUS
  <2>2. op(f[x], v) = f[x] + v
    BY <2>1 DEF Adds
  <2> QED
    BY <2>1, <2>2
<1>2. base \in Nat
  BY DEF Adds
<1> QED
  BY <1>1, <1>2, FoldIn

\* A sum of zeroes is zero.
THEOREM SumZero ==
    ASSUME Adds, NEW S, IsFiniteSet(S), Chooses(S), NEW f, \A x \in S : f[x] = 0
    PROVE  Fold(f, S) = 0
<1>1. base \in {0} /\ \A x \in S : \A v \in {0} : op(f[x], v) \in {0}
  BY DEF Adds
<1>2. Fold(f, S) \in {0}
  BY <1>1, FoldIn
<1> QED
  BY <1>2

\* A sum may be taken from any of its terms.
THEOREM SumSplit ==
    ASSUME Adds, NEW S, IsFiniteSet(S), Chooses(S), NEW f, \A x \in S : f[x] \in Int,
           NEW c \in S
    PROVE  Fold(f, S) = f[c] + Fold(f, S \ {c})
<1> DEFINE T == {t \in SUBSET S : \A d \in t : Fold(f, t) = f[d] + Fold(f, t \ {d})}
<1>0. \A t \in SUBSET S : IsFiniteSet(t) /\ Chooses(t) /\ Fold(f, t) \in Int
  <2>1. \A t \in SUBSET S : IsFiniteSet(t) /\ Chooses(t) /\ \A x \in t : f[x] \in Int
    BY FS_Subset DEF Chooses
  <2> QED
    BY <2>1, SumType
<1>1. ASSUME NEW t \in SUBSET S, \A x \in t : t \ {x} \in T PROVE t \in T
  <2> SUFFICES ASSUME NEW d \in t PROVE Fold(f, t) = f[d] + Fold(f, t \ {d})
    OBVIOUS
  <2> DEFINE x == choose(t)
  <2>1. x \in t
    BY DEF Chooses
  <2>2. Fold(f, t) = f[x] + Fold(f, t \ {x})
    <3>1. Fold(f, t) = op(f[x], Fold(f, t \ {x}))
      BY <1>0, FoldUnfolds
    <3>2. f[x] \in Int /\ Fold(f, t \ {x}) \in Int
      BY <1>0, <2>1
    <3> QED
      BY <3>1, <3>2 DEF Adds
  <2> HIDE DEF x
  <2>3. CASE d = x
    BY <2>2, <2>3
  <2>4. CASE d # x
    <3> DEFINE R == (t \ {d}) \ {x}
    <3>1. (t \ {x}) \ {d} = R
      OBVIOUS
    <3>2. Fold(f, t \ {x}) = f[d] + Fold(f, R)
      BY <1>1, <2>1, <2>4, <3>1
    <3>3. Fold(f, t \ {d}) = f[x] + Fold(f, R)
      BY <1>1, <2>1, <2>4
    <3>4. f[x] \in Int /\ f[d] \in Int /\ Fold(f, R) \in Int
      BY <1>0, <2>1
    <3> HIDE DEF R
    <3>5. f[x] + (f[d] + Fold(f, R)) = f[d] + (f[x] + Fold(f, R))
      BY <3>4
    <3> QED
      BY <2>2, <3>2, <3>3, <3>5
  <2> QED
    BY <2>3, <2>4
<1>2. SUBSET S \subseteq T
  <2> HIDE DEF T
  <2> QED BY <1>1, SubsetInduction
<1>3. S \in T
  BY <1>2
<1> QED
  BY <1>3

\* A sum is that of a part and of the rest.
THEOREM SumPartition ==
    ASSUME Adds, NEW S, IsFiniteSet(S), Chooses(S), NEW f, \A x \in S : f[x] \in Int,
           NEW P, P \subseteq S
    PROVE  Fold(f, S) = Fold(f, P) + Fold(f, S \ P)
<1> DEFINE T == {t \in SUBSET S : Fold(f, S) = Fold(f, t) + Fold(f, S \ t)}
<1>0. \A t \in SUBSET S : /\ IsFiniteSet(t) /\ Chooses(t) /\ Fold(f, t) \in Int
                          /\ \A x \in t : Fold(f, t) = f[x] + Fold(f, t \ {x})
  <2>1. \A t \in SUBSET S : IsFiniteSet(t) /\ Chooses(t) /\ \A x \in t : f[x] \in Int
    BY FS_Subset DEF Chooses
  <2> QED
    BY <2>1, SumType, SumSplit
<1>1. ASSUME NEW t \in SUBSET S, \A x \in t : t \ {x} \in T PROVE t \in T
  <2>1. CASE t = {}
    <3>1. Fold(f, t) = 0
      BY <1>0, <2>1, FoldEmpty DEF Adds
    <3>2. S \ t = S /\ Fold(f, S) \in Int
      BY <1>0, <2>1
    <3>3. Fold(f, S) = 0 + Fold(f, S)
      BY <3>2
    <3> QED
      BY <3>1, <3>2, <3>3
  <2>2. CASE t # {}
    <3>1. PICK x \in t : TRUE
      BY <2>2
    <3> DEFINE r == t \ {x}
               q == S \ r
    <3>2. Fold(f, S) = Fold(f, r) + Fold(f, q)
      BY <1>1
    <3>3. q \in SUBSET S /\ x \in q /\ q \ {x} = S \ t
      OBVIOUS
    <3>4. Fold(f, q) = f[x] + Fold(f, S \ t)
      BY <1>0, <3>3
    <3>5. Fold(f, t) = f[x] + Fold(f, r)
      BY <1>0
    <3>6. f[x] \in Int /\ Fold(f, r) \in Int /\ Fold(f, S \ t) \in Int
      BY <1>0
    <3> HIDE DEF r, q
    <3>7. Fold(f, r) + (f[x] + Fold(f, S \ t)) = (f[x] + Fold(f, r)) + Fold(f, S \ t)
      BY <3>6
    <3>8. Fold(f, S) = Fold(f, t) + Fold(f, S \ t)
      BY <3>2, <3>4, <3>5, <3>7
    <3> QED
      BY <3>8
  <2> QED
    BY <2>1, <2>2
<1>2. SUBSET S \subseteq T
  <2> HIDE DEF T
  <2> QED BY <1>1, SubsetInduction
<1>3. P \in T
  BY <1>2
<1> QED
  BY <1>3

\* When one term changes, the sum changes by the difference.
THEOREM SumUpdate ==
    ASSUME Adds, NEW S, IsFiniteSet(S), Chooses(S), NEW c \in S,
           NEW f, \A x \in S : f[x] \in Int, NEW h, \A x \in S : h[x] \in Int,
           \A x \in S \ {c} : h[x] = f[x]
    PROVE  Fold(h, S) = Fold(f, S) - f[c] + h[c]
<1> DEFINE R == S \ {c}
<1>1. IsFiniteSet(R) /\ Chooses(R)
  BY FS_RemoveElement DEF Chooses
<1>2. Fold(h, R) = Fold(f, R)
  <2> HIDE DEF R
  <2> QED BY <1>1, FoldCongruent DEF R
<1>3. Fold(f, S) = f[c] + Fold(f, R) /\ Fold(h, S) = h[c] + Fold(h, R)
  BY SumSplit
<1>4. Fold(f, R) \in Int
  <2>1. \A x \in R : f[x] \in Int
    OBVIOUS
  <2> HIDE DEF R
  <2> QED BY <1>1, <2>1, SumType
<1> QED
  BY <1>2, <1>3, <1>4
=============================================================================
