------------------------- MODULE EventStorage_proofs -------------------------
(***************************************************************************)
(* For any notices, markets, collections and numbers of processes: what    *)
(* the analyzer makes of a collection, and what stores leave in the        *)
(* directories of module EventStorage.                                     *)
(*                                                                         *)
(* The analyzer: the windows are the seconds that have trades, and the     *)
(* steep rises of them are reported as pumps. The loops over trades,       *)
(* windows and markets are folds; one lemma makes of a fold the sequence   *)
(* of what the loop has after each turn.                                   *)
(*                                                                         *)
(* The stores: the strengthening is about the one that holds sm.mu. It is  *)
(* the latest to have begun (so that what it writes is newer than anything *)
(* else), and every file that is no longer on its list is there, its own.  *)
(***************************************************************************)
EXTENDS EventStorage, FiniteSetTheorems, SequenceTheorems, TLAPS

-----------------------------------------------------------------------------
(* Numbers, and permutations *)

LEMMA LeastOfNaturals ==
  ASSUME NEW S \in SUBSET Nat, S # {}
  PROVE  \E n \in S : \A m \in S : n <= m
<1>1. IsWellFoundedOn(OpToRel(<, Nat), Nat)
  BY NatLessThanWellFounded
<1>2. PICK n \in S : \A m \in S : ~ (<<m, n>> \in OpToRel(<, Nat))
  BY <1>1, WFMin, Zenon
<1>3. \A m \in S : ~ (m < n)
  BY <1>2 DEF OpToRel
<1> QED
  BY <1>3

LEMMA SetInduction ==
  ASSUME NEW S, 0 \in S, \A n \in Nat : n \in S => n + 1 \in S
  PROVE  Nat \subseteq S
<1> SUFFICES ASSUME Nat \ S # {} PROVE FALSE
  OBVIOUS
<1>1. PICK n \in Nat \ S : \A m \in Nat \ S : n <= m
  BY LeastOfNaturals
<1>2. n - 1 \in Nat /\ n - 1 \in S
  BY <1>1
<1> QED
  BY <1>1, <1>2

LEMMA MaxOfBounded ==
  ASSUME NEW n \in Nat, NEW S \in SUBSET (0..n), S # {}
  PROVE  Max(S) \in S /\ \A x \in S : x <= Max(S)
<1> DEFINE T == {m \in 0..n : n - m \in S}
<1>1. T \in SUBSET Nat /\ T # {}
  <2>1. PICK x \in S : TRUE
    OBVIOUS
  <2>2. n - x \in 0..n /\ n - (n - x) = x
    OBVIOUS
  <2>3. n - x \in T
    BY <2>1, <2>2
  <2>4. T \subseteq Nat
    OBVIOUS
  <2> QED
    BY <2>3, <2>4
<1>2. PICK m \in T : \A k \in T : m <= k
  BY <1>1, LeastOfNaturals
<1>3. n - m \in S /\ \A x \in S : n - m >= x
  <2>1. ASSUME NEW x \in S
        PROVE  n - m >= x
    <3>1. n - x \in 0..n /\ n - (n - x) = x
      OBVIOUS
    <3>2. m <= n - x
      BY <1>2, <3>1
    <3> QED
      BY <1>2, <3>2
  <2> QED
    BY <1>2, <2>1
<1>4. Max(S) \in S /\ \A x \in S : Max(S) >= x
  BY <1>3 DEF Max
<1> QED
  BY <1>4

\* A permutation of a set has all its members.
LEMMA Permutation ==
  ASSUME NEW S, IsFiniteSet(S), NEW s \in SetToSeqs(S)
  PROVE  /\ Cardinality(S) \in Nat /\ s \in [1..Cardinality(S) -> S] /\ s \in Seq(S)
         /\ Len(s) = Cardinality(S) /\ DOMAIN s = 1..Len(s)
         /\ \A i, j \in 1..Len(s) : s[i] = s[j] => i = j
         /\ \A x \in S : \E i \in 1..Len(s) : s[i] = x
<1> DEFINE n == Cardinality(S)
<1>1. n \in Nat
  BY FS_CardinalityType
<1>2. s \in [1..n -> S] /\ \A i, j \in 1..n : i # j => s[i] # s[j]
  BY DEF SetToSeqs
<1>3. s \in Seq(S) /\ Len(s) = n /\ DOMAIN s = 1..n
  BY <1>1, <1>2
<1>4. IsFiniteSet(1..n) /\ Cardinality(1..n) = n
  BY <1>1, FS_Interval
<1>5. s \in Injection(1..n, S)
  BY <1>2 DEF Injection, IsInjective
<1>6. s \in Surjection(1..n, S)
  BY <1>4, <1>5, FS_Injection
<1> QED
  BY <1>1, <1>2, <1>3, <1>6 DEF Surjection

-----------------------------------------------------------------------------
(* The analyzer: sorting and extremes *)

InOrder(s, key) == \A i, j \in DOMAIN s : i < j => key[s[i]] <= key[s[j]]

Distinct(s, n) == \A i, j \in 1..n : i # j => s[i] # s[j]

Prepend(t, r, n) == [i \in 1..n + 1 |-> IF i = 1 THEN t ELSE r[i - 1]]

\* The least element and after it the others, in order, are in order.
LEMMA LeastFirst ==
  ASSUME NEW T, NEW key \in [T -> Nat], NEW S \in SUBSET T, NEW t \in S, NEW n \in Nat,
         \A u \in S : key[t] <= key[u],
         NEW r \in [1..n -> S \ {t}],
         Distinct(r, n),
         \A i, j \in 1..n : i < j => key[r[i]] <= key[r[j]]
  PROVE  /\ Prepend(t, r, n) \in [1..n + 1 -> S] /\ InOrder(Prepend(t, r, n), key)
         /\ Distinct(Prepend(t, r, n), n + 1)
<1> DEFINE s == [i \in 1..n + 1 |-> IF i = 1 THEN t ELSE r[i - 1]]
<1> s = Prepend(t, r, n)
  BY DEF Prepend
<1>1. \A i \in 1..n + 1 : i # 1 => i - 1 \in 1..n
  OBVIOUS
<1>2. \A i \in 1..n + 1 : s[i] = IF i = 1 THEN t ELSE r[i - 1]
  OBVIOUS
<1>3. \A i \in 1..n + 1 : s[i] \in S
  BY <1>1, <1>2
<1>4. s \in [1..n + 1 -> S]
  BY <1>3
<1>5. ASSUME NEW i \in 1..n + 1, NEW j \in 1..n + 1, i # j
      PROVE  s[i] # s[j]
  <2>1. CASE i = 1
    <3>1. j - 1 \in 1..n /\ s[j] = r[j - 1]
      BY <1>1, <1>2, <1>5, <2>1
    <3> QED
      BY <1>2, <2>1, <3>1
  <2>2. CASE j = 1
    <3>1. i - 1 \in 1..n /\ s[i] = r[i - 1]
      BY <1>1, <1>2, <1>5, <2>2
    <3> QED
      BY <1>2, <2>2, <3>1
  <2>3. CASE i # 1 /\ j # 1
    <3>1. i - 1 \in 1..n /\ j - 1 \in 1..n /\ i - 1 # j - 1
      BY <1>1, <1>5, <2>3
    <3>2. r[i - 1] # r[j - 1]
      BY <3>1 DEF Distinct
    <3> QED
      BY <1>2, <2>3, <3>2
  <2> QED
    BY <2>1, <2>2, <2>3
<1>6. ASSUME NEW i \in 1..n + 1, NEW j \in 1..n + 1, i < j
      PROVE  key[s[i]] <= key[s[j]]
  <2>1. CASE i = 1
    BY <1>2, <1>3, <2>1
  <2>2. CASE i # 1
    <3>1. i - 1 \in 1..n /\ j - 1 \in 1..n /\ i - 1 < j - 1 /\ j # 1
      BY <1>6, <2>2
    <3>2. key[r[i - 1]] <= key[r[j - 1]]
      BY <3>1
    <3> QED
      BY <1>2, <2>2, <3>1, <3>2
  <2> QED
    BY <2>1, <2>2
<1>7. InOrder(s, key)
  BY <1>6 DEF InOrder
<1>8. Distinct(s, n + 1)
  BY <1>5 DEF Distinct
<1> QED
  BY <1>4, <1>7, <1>8

\* A finite set can be sorted.
LEMMA SortExists ==
  ASSUME NEW T, NEW key \in [T -> Nat], NEW S \in SUBSET T, IsFiniteSet(S)
  PROVE  \E s \in SetToSeqs(S) : InOrder(s, key)
<1> DEFINE Sortable(U) == \E s \in [1..Cardinality(U) -> U] :
                 InOrder(s, key) /\ Distinct(s, Cardinality(U))
           E == {n \in Nat : \A U \in SUBSET T :
                   IsFiniteSet(U) /\ Cardinality(U) = n => Sortable(U)}
<1>1. 0 \in E
  <2> SUFFICES ASSUME NEW U \in SUBSET T, IsFiniteSet(U), Cardinality(U) = 0
               PROVE  Sortable(U)
    OBVIOUS
  <2>1. PICK s \in [1..0 -> U] : TRUE
    <3>1. [i \in 1..0 |-> i] \in [1..0 -> U]
      OBVIOUS
    <3> QED
      BY <3>1
  <2>2. InOrder(s, key)
    BY DEF InOrder
  <2>3. 1..Cardinality(U) = 1..0 /\ Distinct(s, Cardinality(U))
    BY DEF Distinct
  <2> QED
    BY <2>1, <2>2, <2>3, Zenon
<1>2. ASSUME NEW n \in Nat, n \in E
      PROVE  n + 1 \in E
  <2> SUFFICES ASSUME NEW U \in SUBSET T, IsFiniteSet(U), Cardinality(U) = n + 1
               PROVE  Sortable(U)
    OBVIOUS
  <2>1. U # {}
    BY FS_EmptySet
  <2>2. PICK t \in U : \A u \in U : key[t] <= key[u]
    <3> DEFINE K == {key[u] : u \in U}
    <3>1. K \in SUBSET Nat /\ K # {}
      BY <2>1
    <3>2. PICK k \in K : \A l \in K : k <= l
      BY <3>1, LeastOfNaturals
    <3> QED
      BY <3>2
  <2>3. IsFiniteSet(U \ {t}) /\ Cardinality(U \ {t}) = n
    <3>1. IsFiniteSet(U \ {t}) /\ Cardinality(U \ {t}) = Cardinality(U) - 1
      BY <2>2, FS_RemoveElement, Zenon
    <3> QED
      BY <3>1
  <2>4. Sortable(U \ {t})
    BY <1>2, <2>3
  <2>5. PICK r \in [1..n -> U \ {t}] :
           InOrder(r, key) /\ Distinct(r, n)
    BY <2>3, <2>4
  <2>6. \A i, j \in 1..n : i < j => key[r[i]] <= key[r[j]]
    BY <2>5 DEF InOrder
  <2> DEFINE s == Prepend(t, r, n)
  <2>7. s \in [1..n + 1 -> U] /\ InOrder(s, key) /\ Distinct(s, n + 1)
    <3> HIDE DEF E, Sortable
    <3> QED
      BY <2>2, <2>5, <2>6, LeastFirst
  <2> HIDE DEF s, E
  <2> QED
    BY <2>7, Zenon
<1>3. Cardinality(S) \in Nat /\ Cardinality(S) \in E
  <2> HIDE DEF E
  <2> QED
    BY <1>1, <1>2, SetInduction, FS_CardinalityType
<1>4. Sortable(S)
  BY <1>3
<1> QED
  BY <1>4 DEF SetToSeqs, Distinct

LEMMA Extremes ==
  ASSUME NEW S \in SUBSET Nat, IsFiniteSet(S), S # {}
  PROVE  /\ Min(S) \in S /\ Max(S) \in S
         /\ \A x \in S : Min(S) <= x /\ x <= Max(S)
<1>1. Min(S) \in S /\ \A x \in S : Min(S) <= x
  <2>1. \E m \in S : \A x \in S : m <= x
    BY LeastOfNaturals
  <2> QED
    BY <2>1 DEF Min
<1>2. PICK b \in Nat : \A x \in S : x <= b
  <2> DEFINE key == [x \in Nat |-> x]
  <2>1. PICK s \in SetToSeqs(S) : InOrder(s, key)
    <3>1. key \in [Nat -> Nat]
      OBVIOUS
    <3> HIDE DEF key
    <3> QED
      BY <3>1, SortExists
  <2>2. PICK n \in Nat : n = Cardinality(S)
    BY FS_CardinalityType
  <2>3. /\ s \in [1..n -> S] /\ DOMAIN s = 1..n
        /\ \A x \in S : \E i \in 1..n : s[i] = x
    BY <2>2, Permutation
  <2> HIDE DEF key
  <2>4. n # 0
    <3>1. PICK x \in S : TRUE
      OBVIOUS
    <3>2. PICK i \in 1..n : s[i] = x
      BY <2>3, <3>1
    <3> QED
      BY <3>2
  <2>5. \A i \in 1..n : s[i] <= s[n]
    <3> SUFFICES ASSUME NEW i \in 1..n PROVE s[i] <= s[n]
      OBVIOUS
    <3>1. n \in 1..n
      BY <2>4
    <3>2. s[i] \in Nat /\ s[n] \in Nat
      BY <2>3, <3>1, Zenon
    <3>3. i < n => key[s[i]] <= key[s[n]]
      BY <2>1, <2>3, <3>1 DEF InOrder
    <3>4. key[s[i]] = s[i] /\ key[s[n]] = s[n]
      BY <3>2 DEF key
    <3>5. i < n => s[i] <= s[n]
      BY <3>3, <3>4
    <3> QED
      BY <3>2, <3>5
  <2>6. s[n] \in Nat
    <3>1. n \in 1..n
      BY <2>4
    <3> QED
      BY <2>3, <3>1, Zenon
  <2>7. \A x \in S : x <= s[n]
    BY <2>3, <2>5, Zenon
  <2> QED
    BY <2>6, <2>7
<1>3. S \in SUBSET (0..b)
  BY <1>2
<1> QED
  BY <1>1, <1>3, MaxOfBounded

-----------------------------------------------------------------------------
(* FoldLeft: a loop over a sequence, as the provers see it. The step is a  *)
(* function G of the position and of what the loop has made so far.        *)

LEMMA Initial ==
  ASSUME NEW k \in Nat \ {0}
  PROVE  1..k # {} /\ Max(1..k) = k /\ (1..k) \ {Max(1..k)} = 1..k - 1
<1>1. 1..k \in SUBSET (0..k) /\ k \in 1..k
  OBVIOUS
<1>2. Max(1..k) \in 1..k /\ k <= Max(1..k)
  BY <1>1, MaxOfBounded
<1>3. Max(1..k) = k
  BY <1>2
<1> QED
  BY <1>1, <1>3

\* g says what the loop makes of any part of the positions.
Folds(g, b, n, G) ==
  \A x \in SUBSET (1..n) : g[x] = IF x = {} THEN b ELSE G[<<Max(x), g[x \ {Max(x)}]>>]

Foldable(S, b, n, G) == \E g \in [SUBSET (1..n) -> S] : Folds(g, b, n, G)

LEMMA FoldOnward ==
  ASSUME NEW S, NEW b \in S, NEW N \in Nat, NEW G \in [(1..N) \X S -> S],
         NEW n \in Nat, n < N, NEW g \in [SUBSET (1..n) -> S], Folds(g, b, n, G)
  PROVE  Foldable(S, b, n + 1, G)
<1> DEFINE h == [x \in SUBSET (1..n + 1) |->
                  IF n + 1 \in x THEN G[<<n + 1, g[x \ {n + 1}]>>] ELSE g[x]]
<1>1. \A x \in SUBSET (1..n + 1) : x \ {n + 1} \in SUBSET (1..n)
  OBVIOUS
<1>2. n + 1 \in 1..N /\ n + 1 \in 1..n + 1
  OBVIOUS
<1>3. ASSUME NEW x \in SUBSET (1..n + 1), n + 1 \in x
      PROVE  Max(x) = n + 1
  <2>1. x \in SUBSET (0..n + 1) /\ x # {} /\ n + 1 \in Nat
    BY <1>3
  <2>2. Max(x) \in x /\ n + 1 <= Max(x)
    BY <1>3, <2>1, MaxOfBounded
  <2>3. Max(x) \in 1..n + 1
    BY <2>2
  <2> QED
    BY <2>2, <2>3
<1>4. ASSUME NEW x \in SUBSET (1..n + 1), n + 1 \notin x
      PROVE  h[x] \in S /\ h[x] = IF x = {} THEN b ELSE G[<<Max(x), h[x \ {Max(x)}]>>]
  <2>1. x \in SUBSET (1..n) /\ x \ {Max(x)} \in SUBSET (1..n)
    <3>1. \A y \in 1..n + 1 : y # n + 1 => y \in 1..n
      OBVIOUS
    <3> QED
      BY <1>4, <3>1, Zenon
  <2>2. n + 1 \notin x \ {Max(x)} /\ x \ {Max(x)} \in SUBSET (1..n + 1)
    BY <1>4
  <2>3. h[x] = g[x] /\ h[x \ {Max(x)}] = g[x \ {Max(x)}]
    BY <1>4, <2>2
  <2>4. g[x] \in S
    BY <2>1
  <2> HIDE DEF h
  <2> QED
    BY <2>1, <2>3, <2>4 DEF Folds
<1>5. ASSUME NEW x \in SUBSET (1..n + 1), n + 1 \in x
      PROVE  h[x] \in S /\ h[x] = G[<<Max(x), h[x \ {Max(x)}]>>]
  <2>1. Max(x) = n + 1
    BY <1>3, <1>5
  <2>2. x \ {n + 1} \in SUBSET (1..n) /\ x \ {n + 1} \in SUBSET (1..n + 1)
    BY <1>1
  <2>3. h[x] = G[<<n + 1, g[x \ {n + 1}]>>] /\ h[x \ {n + 1}] = g[x \ {n + 1}]
    BY <1>5, <2>2
  <2>4. g[x \ {n + 1}] \in S
    BY <2>2
  <2>5. <<n + 1, g[x \ {n + 1}]>> \in (1..N) \X S
    BY <1>2, <2>4
  <2>6. G[<<n + 1, g[x \ {n + 1}]>>] \in S
    BY <2>5
  <2> HIDE DEF h
  <2> QED
    BY <2>1, <2>3, <2>6
<1>6. h = [x \in SUBSET (1..n + 1) |-> h[x]]
  OBVIOUS
<1> HIDE DEF h
<1>7. h \in [SUBSET (1..n + 1) -> S]
  <2>1. \A x \in SUBSET (1..n + 1) : h[x] \in S
    BY <1>4, <1>5
  <2> QED
    BY <1>6, <2>1
<1>8. Folds(h, b, n + 1, G)
  <2> SUFFICES ASSUME NEW x \in SUBSET (1..n + 1)
               PROVE  h[x] = IF x = {} THEN b ELSE G[<<Max(x), h[x \ {Max(x)}]>>]
    BY DEF Folds
  <2>1. CASE n + 1 \in x
    BY <1>5, <2>1
  <2>2. CASE n + 1 \notin x
    BY <1>4, <2>2
  <2> QED
    BY <2>1, <2>2
<1> QED
  BY <1>7, <1>8 DEF Foldable

LEMMA FoldExists ==
  ASSUME NEW S, NEW b \in S, NEW N \in Nat, NEW G \in [(1..N) \X S -> S]
  PROVE  Foldable(S, b, N, G)
<1> DEFINE E == {n \in Nat : n <= N => Foldable(S, b, n, G)}
<1>1. 0 \in E
  <2> DEFINE g == [x \in SUBSET (1..0) |-> b]
  <2>1. \A x \in SUBSET (1..0) : x = {} /\ g[x] = b
    OBVIOUS
  <2>2. g \in [SUBSET (1..0) -> S]
    OBVIOUS
  <2> HIDE DEF g
  <2>3. Folds(g, b, 0, G)
    BY <2>1 DEF Folds
  <2> QED
    BY <2>2, <2>3 DEF Foldable
<1>2. ASSUME NEW n \in Nat, n \in E
      PROVE  n + 1 \in E
  <2> SUFFICES ASSUME n + 1 <= N
               PROVE  Foldable(S, b, n + 1, G)
    OBVIOUS
  <2>1. n < N
    OBVIOUS
  <2>2. n <= N /\ Foldable(S, b, n, G)
    BY <1>2, <2>1
  <2> HIDE DEF E
  <2>3. PICK g \in [SUBSET (1..n) -> S] : Folds(g, b, n, G)
    BY <2>2 DEF Foldable
  <2> QED
    BY <2>1, <2>3, FoldOnward
<1>3. N \in E
  <2> HIDE DEF E
  <2> QED
    BY <1>1, <1>2, SetInduction
<1> QED
  BY <1>3

\* w[k] is what the loop has made after k turns.
Turns(w, b, n, G) == w[0] = b /\ \A k \in 1..n : w[k] = G[<<k, w[k - 1]>>]

Looped(S, b, n, G, result) == \E w \in [0..n -> S] : Turns(w, b, n, G) /\ result = w[n]

\* f does so wherever what it makes is in S.
FoldsInto(f, S, n, G) ==
  \A x \in SUBSET (1..n) : x # {} /\ f[x \ {Max(x)}] \in S
    => f[x] = G[<<Max(x), f[x \ {Max(x)}]>>]

LEMMA FoldTurns ==
  ASSUME NEW S, NEW b \in S, NEW N \in Nat, NEW G \in [(1..N) \X S -> S],
         NEW f, f[{}] = b, FoldsInto(f, S, N, G)
  PROVE  Looped(S, b, N, G, f[1..N])
<1> DEFINE w == [k \in 0..N |-> f[1..k]]
           E == {n \in Nat : n <= N => f[1..n] \in S}
<1>1. f[1..0] = b
  <2>1. 1..0 = {}
    OBVIOUS
  <2> QED
    BY <2>1
<1>2. ASSUME NEW k \in 1..N, f[1..k - 1] \in S
      PROVE  f[1..k] = G[<<k, f[1..k - 1]>>] /\ f[1..k] \in S
  <2>1. k \in Nat \ {0}
    OBVIOUS
  <2>2. 1..k # {} /\ Max(1..k) = k /\ (1..k) \ {Max(1..k)} = 1..k - 1
    BY <2>1, Initial
  <2>3. 1..k \in SUBSET (1..N)
    OBVIOUS
  <2>4. f[1..k] = G[<<k, f[1..k - 1]>>]
    BY <1>2, <2>2, <2>3 DEF FoldsInto
  <2>5. <<k, f[1..k - 1]>> \in (1..N) \X S
    BY <1>2
  <2>6. G[<<k, f[1..k - 1]>>] \in S
    BY <2>5
  <2> QED
    BY <2>4, <2>6
<1>3. 0 \in E
  BY <1>1
<1>4. ASSUME NEW n \in Nat, n \in E
      PROVE  n + 1 \in E
  <2> SUFFICES ASSUME n + 1 <= N PROVE f[1..n + 1] \in S
    OBVIOUS
  <2>1. n + 1 \in 1..N /\ (n + 1) - 1 = n /\ f[1..n] \in S
    BY <1>4
  <2>2. f[1..(n + 1) - 1] \in S
    BY <2>1
  <2> HIDE DEF E
  <2> QED
    BY <1>2, <2>1, <2>2
<1>5. \A k \in 0..N : f[1..k] \in S
  <2>1. Nat \subseteq E
    <3> HIDE DEF E
    <3> QED
      BY <1>3, <1>4, SetInduction
  <2> SUFFICES ASSUME NEW k \in 0..N PROVE f[1..k] \in S
    OBVIOUS
  <2>2. k \in Nat /\ k <= N
    OBVIOUS
  <2> QED
    BY <2>1, <2>2
<1>6. w \in [0..N -> S] /\ f[1..N] = w[N]
  BY <1>5
<1>7. Turns(w, b, N, G)
  <2>1. w[0] = b
    BY <1>1
  <2>2. ASSUME NEW k \in 1..N
        PROVE  w[k] = G[<<k, w[k - 1]>>]
    <3>1. k - 1 \in 0..N /\ k \in 0..N
      OBVIOUS
    <3>2. w[k] = f[1..k] /\ w[k - 1] = f[1..k - 1]
      BY <3>1
    <3>3. f[1..k - 1] \in S
      BY <1>5, <3>1
    <3> HIDE DEF w, E
    <3> QED
      BY <1>2, <3>2, <3>3
  <2> HIDE DEF w
  <2> QED
    BY <2>1, <2>2 DEF Turns
<1> HIDE DEF w
<1> QED
  BY <1>6, <1>7 DEF Looped

-----------------------------------------------------------------------------
(* Windows *)

AnalyzedMarkets == Range(AnalysisOrder)

LEMMA Parameters ==
  /\ TimeWindowSize \in Nat \ {0} /\ MinPumpPercentage \in Nat
  /\ MinTradesRequired \in Nat \ {0}
  /\ TsOf \in [Trades -> Nat] /\ PriceOf \in [Trades -> Nat \union {None}]
  /\ AnalysisOrder \in Seq(AnalyzedMarkets)
  BY AnalyzerAssumption DEF ParametersOK, AnalyzedMarkets

StartOf(t) == Second(t) * TimeWindowSize

LEMMA QuotientBounds ==
  ASSUME NEW a \in Nat, NEW d \in Nat \ {0}
  PROVE  a \div d \in Nat /\ (a \div d) * d \in Nat
         /\ (a \div d) * d <= a /\ a < (a \div d) * d + d
<1>1. a \div d \in Nat /\ a % d \in 0..d - 1
  OBVIOUS
<1>2. a = d * (a \div d) + (a % d)
  OBVIOUS
<1>3. d * (a \div d) \in Nat /\ d * (a \div d) = (a \div d) * d
  BY <1>1
<1>4. PICK p \in Nat, r \in 0..d - 1 : p = d * (a \div d) /\ a = p + r
  BY <1>1, <1>2, <1>3
<1> QED
  BY <1>1, <1>3, <1>4

LEMMA SecondsOfTrades ==
  ASSUME NEW t \in Trades
  PROVE  /\ TsOf[t] \in Nat /\ Second(t) \in Nat /\ StartOf(t) \in Nat
         /\ StartOf(t) <= TsOf[t] /\ TsOf[t] < StartOf(t) + TimeWindowSize
<1>1. TsOf[t] \in Nat /\ TimeWindowSize \in Nat \ {0}
  BY Parameters
<1> QED
  BY <1>1, QuotientBounds DEF StartOf, Second

\* Multiples of d that are less than d apart are the same.
LEMMA SameMultiple ==
  ASSUME NEW p \in Nat, NEW q \in Nat, NEW d \in Nat \ {0}, NEW x \in Nat, NEW y \in Nat,
         x = p * d, y = q * d, x < y + d
  PROVE  p <= q
<1>1. q < p => q + 1 <= p
  OBVIOUS
<1>2. (q + 1) * d = y + d
  OBVIOUS
<1>3. q + 1 <= p => (q + 1) * d <= p * d
  OBVIOUS
<1> QED
  BY <1>1, <1>2, <1>3

LEMMA SameSecond ==
  ASSUME NEW t \in Trades, NEW u \in Trades, StartOf(u) <= TsOf[t],
         TsOf[t] < StartOf(u) + TimeWindowSize
  PROVE  Second(t) = Second(u) /\ StartOf(t) = StartOf(u)
<1>1. /\ TsOf[t] \in Nat /\ Second(t) \in Nat /\ StartOf(t) \in Nat
      /\ Second(u) \in Nat /\ StartOf(u) \in Nat
      /\ StartOf(t) <= TsOf[t] /\ TsOf[t] < StartOf(t) + TimeWindowSize
  BY SecondsOfTrades
<1>2. TimeWindowSize \in Nat \ {0}
  BY Parameters
<1>3. StartOf(t) < StartOf(u) + TimeWindowSize /\ StartOf(u) < StartOf(t) + TimeWindowSize
  BY <1>1, <1>2
<1>4. StartOf(t) = Second(t) * TimeWindowSize /\ StartOf(u) = Second(u) * TimeWindowSize
  BY DEF StartOf
<1>5. Second(t) <= Second(u) /\ Second(u) <= Second(t)
  BY <1>1, <1>2, <1>3, <1>4, SameMultiple
<1>6. Second(t) = Second(u)
  BY <1>1, <1>5
<1> QED
  BY <1>4, <1>6

LEMMA SameStart ==
  ASSUME NEW t \in Trades, NEW u \in Trades, StartOf(t) = StartOf(u)
  PROVE  Second(t) = Second(u)
<1>1. TsOf[t] \in Nat /\ StartOf(t) <= TsOf[t] /\ TsOf[t] < StartOf(t) + TimeWindowSize
  BY SecondsOfTrades
<1> QED
  BY <1>1, SameSecond

Windows == [start : Nat, trades : SUBSET Trades]

NewWindow(t) == [start |-> StartOf(t), trades |-> {t}]

\* The windows after the first k trades of s: each has trades of its second
\* only, none is missing, and the last trade is in the last window.
WindowsAreRight(w, s, k) ==
  /\ w \in Seq(Windows)
  /\ k = 0 => w = <<>>
  /\ k # 0 => Len(w) # 0 /\ s[k] \in w[Len(w)].trades
  /\ \A i \in 1..Len(w) : w[i].trades # {} /\ \A t \in w[i].trades :
       StartOf(t) = w[i].start /\ \E x \in 1..k : t = s[x]
  /\ \A x \in 1..k : \E i \in 1..Len(w) : s[x] \in w[i].trades
  /\ \A i, j \in 1..Len(w) : i < j => w[i].start < w[j].start

LEMMA AddOpens ==
  ASSUME NEW w \in Seq(Windows), NEW t \in Trades,
         w = <<>> \/ TsOf[t] >= w[Len(w)].start + TimeWindowSize
  PROVE  /\ AddToWindows(w, t) = Append(w, NewWindow(t))
         /\ AddToWindows(w, t) \in Seq(Windows)
<1>1. NewWindow(t) \in Windows
  BY SecondsOfTrades DEF NewWindow, Windows
<1>2. AddToWindows(w, t) = Append(w, NewWindow(t))
  BY DEF AddToWindows, Last, NewWindow, StartOf, Second
<1> QED
  BY <1>1, <1>2

\* v is w with the trade in the last window.
Joined(v, w, t) ==
  \A i \in 1..Len(w) : v[i] =
    IF i = Len(w) THEN [start |-> w[i].start, trades |-> w[i].trades \union {t}] ELSE w[i]

LEMMA AddJoins ==
  ASSUME NEW w \in Seq(Windows), NEW t \in Trades,
         w # <<>>, ~ (TsOf[t] >= w[Len(w)].start + TimeWindowSize)
  PROVE  /\ AddToWindows(w, t) = [w EXCEPT ![Len(w)].trades = @ \union {t}]
         /\ AddToWindows(w, t) \in Seq(Windows)
         /\ Len(AddToWindows(w, t)) = Len(w) /\ Joined(AddToWindows(w, t), w, t)
<1>1. AddToWindows(w, t) = [w EXCEPT ![Len(w)].trades = @ \union {t}]
  BY DEF AddToWindows, Last
<1>2. PICK m \in Nat : m = Len(w) /\ DOMAIN w = 1..m
  OBVIOUS
<1>3. \A i \in 1..m : w[i] \in Windows
  BY <1>2
<1>4. \A i \in 1..m : /\ w[i].start \in Nat /\ w[i].trades \in SUBSET Trades
                      /\ w[i] = [start |-> w[i].start, trades |-> w[i].trades]
  BY <1>3 DEF Windows
<1> DEFINE v == [i \in 1..m |->
                  IF i = m THEN [start |-> w[i].start, trades |-> w[i].trades \union {t}]
                           ELSE w[i]]
<1>5. AddToWindows(w, t) = v
  <2>1. AddToWindows(w, t) = [i \in 1..m |->
          IF i = m THEN [w[i] EXCEPT !.trades = w[i].trades \union {t}] ELSE w[i]]
    BY <1>1, <1>2
  <2>2. \A i \in 1..m : [w[i] EXCEPT !.trades = w[i].trades \union {t}]
                          = [start |-> w[i].start, trades |-> w[i].trades \union {t}]
    <3> SUFFICES ASSUME NEW i \in 1..m
                 PROVE  [w[i] EXCEPT !.trades = w[i].trades \union {t}]
                          = [start |-> w[i].start, trades |-> w[i].trades \union {t}]
      OBVIOUS
    <3>1. w[i] \in Windows /\ w[i].trades \union {t} \in SUBSET Trades
      BY <1>3, <1>4
    <3>2. PICK c \in SUBSET Trades : c = w[i].trades \union {t}
      BY <3>1
    <3>3. [w[i] EXCEPT !.trades = c] = [start |-> w[i].start, trades |-> c]
      BY <3>1 DEF Windows
    <3> QED
      BY <3>2, <3>3
  <2> QED
    BY <2>1, <2>2
<1>6. \A i \in 1..m : v[i] \in Windows
  BY <1>3, <1>4 DEF Windows
<1>7. v \in Seq(Windows) /\ Len(v) = m
  BY <1>6
<1>8. Joined(v, w, t)
  BY <1>2 DEF Joined
<1> HIDE DEF v
<1> QED
  BY <1>1, <1>2, <1>5, <1>7, <1>8

\* What holds of the windows so far, without the window that the trade goes to.
LEMMA WindowStep ==
  ASSUME NEW n \in Nat, NEW s \in [1..n -> Trades], InOrder(s, TsOf),
         NEW k \in 1..n, NEW w, WindowsAreRight(w, s, k - 1)
  PROVE  WindowsAreRight(AddToWindows(w, s[k]), s, k)
<1> DEFINE t == s[k]
           v == AddToWindows(w, t)
<1>1. t \in Trades /\ w \in Seq(Windows) /\ k - 1 \in 0..n /\ k # 0
  BY DEF WindowsAreRight
<1>2. PICK m \in Nat : m = Len(w)
  BY <1>1
<1>3. \A i \in 1..m : w[i] \in Windows /\ w[i].start \in Nat /\ w[i].trades \in SUBSET Trades
  <2>1. \A i \in 1..m : w[i] \in Windows
    BY <1>1, <1>2
  <2> QED
    BY <2>1 DEF Windows
<1>4. \A i \in 1..m : w[i].trades # {} /\ \A u \in w[i].trades :
        StartOf(u) = w[i].start /\ \E x \in 1..k - 1 : u = s[x]
  BY <1>2 DEF WindowsAreRight
<1>5. \A x \in 1..k - 1 : \E i \in 1..m : s[x] \in w[i].trades
  BY <1>2 DEF WindowsAreRight
<1>6. \A i, j \in 1..m : i < j => w[i].start < w[j].start
  BY <1>2 DEF WindowsAreRight
<1>7. \A x \in 1..k : x = k \/ x \in 1..k - 1
  OBVIOUS
<1>8. \A x \in 1..k - 1 : x \in 1..k
  OBVIOUS
<1>9. TsOf[t] \in Nat /\ StartOf(t) \in Nat /\ StartOf(t) <= TsOf[t]
      /\ TsOf[t] < StartOf(t) + TimeWindowSize /\ TimeWindowSize \in Nat \ {0}
  BY <1>1, SecondsOfTrades, Parameters
<1>10. k \in 1..k
  OBVIOUS
<1>11. CASE w = <<>> \/ TsOf[t] >= w[Len(w)].start + TimeWindowSize
  <2>1. v = Append(w, NewWindow(t)) /\ v \in Seq(Windows)
    BY <1>1, <1>11, AddOpens
  <2>2. Len(v) = m + 1 /\ v[m + 1] = NewWindow(t) /\ \A i \in 1..m : v[i] = w[i]
    BY <1>1, <1>2, <2>1
  <2>3. v[m + 1].start = StartOf(t) /\ v[m + 1].trades = {t}
    BY <2>2 DEF NewWindow
  <2>4. \A i \in 1..m + 1 : i = m + 1 \/ i \in 1..m
    OBVIOUS
  <2>5. \A i \in 1..m : w[i].start < StartOf(t)
    <3> SUFFICES ASSUME NEW i \in 1..m PROVE w[i].start < StartOf(t)
      OBVIOUS
    <3>1. m \in 1..m /\ w # <<>>
      BY <1>2
    <3>2. w[m].start \in Nat /\ w[i].start \in Nat
      BY <1>3, <3>1
    <3>3. TsOf[t] >= w[m].start + TimeWindowSize
      BY <1>2, <1>11, <3>1
    <3>4. w[m].start < StartOf(t)
      BY <1>9, <3>2, <3>3
    <3>5. i < m => w[i].start < w[m].start
      BY <1>6, <3>1
    <3> QED
      BY <1>9, <3>2, <3>4, <3>5
  <2> HIDE DEF v, t
  <2>6. ASSUME NEW i \in 1..m + 1
        PROVE  v[i].trades # {} /\ \A u \in v[i].trades :
                 StartOf(u) = v[i].start /\ \E x \in 1..k : u = s[x]
    <3>1. CASE i = m + 1
      <4>1. t = s[k]
        BY DEF t
      <4> QED
        BY <1>10, <2>3, <3>1, <4>1
    <3>2. CASE i \in 1..m
      <4>1. v[i] = w[i]
        BY <2>2, <3>2
      <4> QED
        BY <1>4, <1>8, <3>2, <4>1
    <3> QED
      BY <2>4, <3>1, <3>2
  <2>7. ASSUME NEW x \in 1..k
        PROVE  \E i \in 1..m + 1 : s[x] \in v[i].trades
    <3>1. CASE x = k
      <4>1. m + 1 \in 1..m + 1 /\ t = s[x]
        BY <3>1 DEF t
      <4> QED
        BY <2>3, <4>1
    <3>2. CASE x \in 1..k - 1
      <4>1. PICK i \in 1..m : s[x] \in w[i].trades
        BY <1>5, <3>2
      <4>2. i \in 1..m + 1 /\ v[i] = w[i]
        BY <2>2
      <4> QED
        BY <4>1, <4>2
    <3> QED
      BY <1>7, <3>1, <3>2
  <2>8. ASSUME NEW i \in 1..m + 1, NEW j \in 1..m + 1, i < j
        PROVE  v[i].start < v[j].start
    <3>1. i \in 1..m /\ v[i] = w[i]
      BY <2>2, <2>8
    <3>2. CASE j = m + 1
      BY <2>3, <2>5, <3>1, <3>2
    <3>3. CASE j \in 1..m
      <4>1. v[j] = w[j]
        BY <2>2, <3>3
      <4> QED
        BY <1>6, <2>8, <3>1, <3>3, <4>1
    <3> QED
      BY <2>4, <3>2, <3>3
  <2>9. Len(v) # 0 /\ s[k] \in v[Len(v)].trades
    <3>1. m + 1 # 0 /\ t = s[k]
      BY DEF t
    <3> QED
      BY <2>2, <2>3, <3>1
  <2>10. WindowsAreRight(v, s, k)
    BY <1>1, <2>1, <2>2, <2>6, <2>7, <2>8, <2>9 DEF WindowsAreRight
  <2> QED
    BY <2>10 DEF v, t
<1>12. CASE w # <<>> /\ ~ (TsOf[t] >= w[Len(w)].start + TimeWindowSize)
  <2>1. /\ v \in Seq(Windows) /\ Len(v) = m
        /\ \A i \in 1..m : v[i] =
             IF i = m THEN [start |-> w[i].start, trades |-> w[i].trades \union {t}] ELSE w[i]
    <3>1. v \in Seq(Windows) /\ Len(v) = Len(w) /\ Joined(v, w, t)
      <4> HIDE DEF v, t
      <4> QED
        BY <1>1, <1>12, AddJoins DEF v
    <3> HIDE DEF v, t
    <3> QED
      BY <1>2, <3>1 DEF Joined
  <2>2. m \in 1..m /\ m # 0
    BY <1>1, <1>2, <1>12
  <2>3. k - 1 # 0 /\ s[k - 1] \in w[m].trades
    BY <1>1, <1>2, <1>12 DEF WindowsAreRight
  <2> HIDE DEF v, t
  <2>4. v[m].start = w[m].start /\ v[m].trades = w[m].trades \union {t}
    BY <2>1, <2>2
  <2>5. \A i \in 1..m : v[i].start = w[i].start
    BY <2>1, <2>4
  <2>6. StartOf(t) = w[m].start
    <3>1. k - 1 \in 1..n /\ k \in 1..n /\ k - 1 < k
      BY <1>1, <2>3
    <3>2. TsOf[s[k - 1]] <= TsOf[t]
      BY <3>1 DEF InOrder, t
    <3>3. PICK u \in Trades : u = s[k - 1] /\ u \in w[m].trades
      BY <2>3, <3>1
    <3>4. StartOf(u) = w[m].start
      BY <1>4, <2>2, <3>3
    <3>5. TsOf[u] \in Nat /\ StartOf(u) \in Nat /\ StartOf(u) <= TsOf[u]
      BY SecondsOfTrades
    <3>6. StartOf(u) <= TsOf[t]
      BY <1>9, <3>2, <3>3, <3>5
    <3>7. TsOf[t] < StartOf(u) + TimeWindowSize
      BY <1>2, <1>9, <1>12, <3>4, <3>5
    <3> QED
      BY <1>1, <3>4, <3>6, <3>7, SameSecond
  <2>7. ASSUME NEW i \in 1..m
        PROVE  v[i].trades # {} /\ \A u \in v[i].trades :
                 StartOf(u) = v[i].start /\ \E x \in 1..k : u = s[x]
    <3>1. CASE i = m
      <4>1. t = s[k]
        BY DEF t
      <4>2. ASSUME NEW u \in v[i].trades
            PROVE  StartOf(u) = v[i].start /\ \E x \in 1..k : u = s[x]
        <5>1. CASE u = t
          BY <1>10, <2>4, <2>6, <3>1, <4>1, <5>1
        <5>2. CASE u \in w[m].trades
          BY <1>4, <1>8, <2>2, <2>4, <3>1, <5>2
        <5> QED
          BY <2>4, <3>1, <5>1, <5>2
      <4>3. v[i].trades # {}
        BY <2>4, <3>1
      <4> QED
        BY <4>2, <4>3
    <3>2. CASE i # m
      <4>1. v[i] = w[i]
        BY <2>1, <3>2
      <4> QED
        BY <1>4, <1>8, <4>1
    <3> QED
      BY <3>1, <3>2
  <2>8. ASSUME NEW x \in 1..k
        PROVE  \E i \in 1..m : s[x] \in v[i].trades
    <3>1. CASE x = k
      <4>1. t = s[x]
        BY <3>1 DEF t
      <4> QED
        BY <2>2, <2>4, <4>1
    <3>2. CASE x \in 1..k - 1
      <4>1. PICK i \in 1..m : s[x] \in w[i].trades
        BY <1>5, <3>2
      <4>2. s[x] \in v[i].trades
        <5>1. CASE i = m
          BY <2>4, <4>1, <5>1
        <5>2. CASE i # m
          BY <2>1, <4>1, <5>2
        <5> QED
          BY <5>1, <5>2
      <4> QED
        BY <4>2
    <3> QED
      BY <1>7, <3>1, <3>2
  <2>9. \A i, j \in 1..m : i < j => v[i].start < v[j].start
    BY <1>6, <2>5
  <2>10. s[k] \in v[m].trades
    BY <2>4 DEF t
  <2>11. WindowsAreRight(v, s, k)
    BY <1>1, <2>1, <2>2, <2>7, <2>8, <2>9, <2>10 DEF WindowsAreRight
  <2> QED
    BY <2>11 DEF v, t
<1> QED
  BY <1>11, <1>12

LEMMA WindowsRight ==
  ASSUME NEW n \in Nat, NEW s \in [1..n -> Trades], InOrder(s, TsOf)
  PROVE  WindowsAreRight(createTimeWindows(s), s, n)
<1> DEFINE S == Seq(Windows)
           G == [p \in (1..n) \X S |-> AddToWindows(p[2], s[p[1]])]
           Step(f) == [x \in SUBSET (1..n) |->
                        IF x = {} THEN <<>> ELSE AddToWindows(f[x \ {Max(x)}], s[Max(x)])]
           loop == CHOOSE f : f = Step(f)
<1>1. createTimeWindows(s) = loop[1..n]
  <2>1. DOMAIN s = 1..n
    OBVIOUS
  <2> QED
    BY <2>1 DEF createTimeWindows, FoldLeft, MapThenFoldSet
<1>2. \A w \in S, t \in Trades : AddToWindows(w, t) \in S
  <2> SUFFICES ASSUME NEW w \in S, NEW t \in Trades PROVE AddToWindows(w, t) \in S
    OBVIOUS
  <2>1. CASE w = <<>> \/ TsOf[t] >= w[Len(w)].start + TimeWindowSize
    BY <2>1, AddOpens
  <2>2. CASE w # <<>> /\ ~ (TsOf[t] >= w[Len(w)].start + TimeWindowSize)
    BY <2>2, AddJoins
  <2> QED
    BY <2>1, <2>2
<1>3. G \in [(1..n) \X S -> S] /\ <<>> \in S
  BY <1>2
<1>4. \A k \in 1..n, w \in S : G[<<k, w>>] = AddToWindows(w, s[k])
  OBVIOUS
<1>5. \A x \in SUBSET (1..n) : x # {} => Max(x) \in 1..n /\ x \ {Max(x)} \in SUBSET (1..n)
  <2> SUFFICES ASSUME NEW x \in SUBSET (1..n), x # {} PROVE Max(x) \in x
    OBVIOUS
  <2>1. x \in SUBSET (0..n)
    OBVIOUS
  <2> QED
    BY <2>1, MaxOfBounded
<1>6. \E f : f = Step(f)
  <2> HIDE DEF G, S
  <2>1. PICK g \in [SUBSET (1..n) -> S] : Folds(g, <<>>, n, G)
    BY <1>3, FoldExists DEF Foldable
  <2>2. \A x \in SUBSET (1..n) :
          g[x] = IF x = {} THEN <<>> ELSE AddToWindows(g[x \ {Max(x)}], s[Max(x)])
    <3> SUFFICES ASSUME NEW x \in SUBSET (1..n), x # {}
                 PROVE  g[x] = AddToWindows(g[x \ {Max(x)}], s[Max(x)])
      BY <2>1 DEF Folds
    <3>1. Max(x) \in 1..n /\ g[x \ {Max(x)}] \in S
      BY <1>5
    <3>2. g[x] = G[<<Max(x), g[x \ {Max(x)}]>>]
      BY <2>1 DEF Folds
    <3> QED
      BY <1>4, <3>1, <3>2
  <2>3. g = Step(g)
    BY <2>2
  <2> QED
    BY <2>3
<1>7. loop = Step(loop)
  BY <1>6
<1>8. loop[{}] = <<>> /\ \A x \in SUBSET (1..n) : x # {} =>
        loop[x] = AddToWindows(loop[x \ {Max(x)}], s[Max(x)])
  <2> HIDE DEF loop
  <2>1. \A x \in SUBSET (1..n) : loop[x] = Step(loop)[x]
    BY <1>7
  <2> QED
    BY <2>1
<1> HIDE DEF loop, G, S
<1>9. FoldsInto(loop, S, n, G)
  BY <1>4, <1>5, <1>8 DEF FoldsInto
<1>10. PICK w \in [0..n -> S] : Turns(w, <<>>, n, G) /\ loop[1..n] = w[n]
  <2>1. loop[{}] = <<>>
    BY <1>8
  <2>2. Looped(S, <<>>, n, G, loop[1..n])
    BY <1>3, <1>9, <2>1, FoldTurns
  <2> QED
    BY <2>2 DEF Looped
<1>11. w[0] = <<>> /\ \A k \in 1..n : w[k] = AddToWindows(w[k - 1], s[k])
  <2>1. \A k \in 1..n : k - 1 \in 0..n
    OBVIOUS
  <2> QED
    BY <1>4, <1>10, <2>1 DEF Turns
<1> DEFINE E == {k \in Nat : k <= n => WindowsAreRight(w[k], s, k)}
<1>12. 0 \in E
  <2>1. w[0] = <<>> /\ w[0] \in Seq(Windows) /\ Len(w[0]) = 0
    BY <1>11
  <2>2. 0 \in Nat /\ 1..0 = {}
    OBVIOUS
  <2>3. WindowsAreRight(w[0], s, 0)
    BY <2>1, <2>2 DEF WindowsAreRight
  <2> QED
    BY <2>3
<1>13. ASSUME NEW k \in Nat, k \in E
       PROVE  k + 1 \in E
  <2> SUFFICES ASSUME k + 1 <= n PROVE WindowsAreRight(w[k + 1], s, k + 1)
    OBVIOUS
  <2>1. k + 1 \in 1..n /\ (k + 1) - 1 = k /\ WindowsAreRight(w[k], s, k)
    BY <1>13
  <2>2. WindowsAreRight(w[(k + 1) - 1], s, (k + 1) - 1)
    BY <2>1
  <2>3. WindowsAreRight(AddToWindows(w[(k + 1) - 1], s[k + 1]), s, k + 1)
    BY <2>1, <2>2, WindowStep
  <2> HIDE DEF E
  <2> QED
    BY <1>11, <2>1, <2>3
<1>14. n \in E
  <2> HIDE DEF E
  <2> QED
    BY <1>12, <1>13, SetInduction
<1> QED
  BY <1>1, <1>10, <1>14

LEMMA SortedTrades ==
  ASSUME NEW S \in SUBSET Trades, IsFiniteSet(S)
  PROVE  \E n \in Nat : /\ SortedByTime(S) \in [1..n -> S] /\ InOrder(SortedByTime(S), TsOf)
                        /\ \A t \in S : \E x \in 1..n : SortedByTime(S)[x] = t
<1> DEFINE s == SortedByTime(S)
<1>1. \E r \in SetToSeqs(S) : InOrder(r, TsOf)
  BY Parameters, SortExists
<1>2. s \in SetToSeqs(S) /\ InOrder(s, TsOf)
  BY <1>1 DEF SortedByTime, InOrder
<1> HIDE DEF s
<1>3. PICK n \in Nat : n = Cardinality(S)
  BY FS_CardinalityType
<1>4. /\ s \in [1..n -> S] /\ Len(s) = n
      /\ \A t \in S : \E x \in 1..Len(s) : s[x] = t
  BY <1>2, <1>3, Permutation
<1>5. \A t \in S : \E x \in 1..n : s[x] = t
  BY <1>4
<1> QED
  BY <1>2, <1>4, <1>5 DEF s

SecondOf(S, u) == {t \in S : Second(t) = Second(u)}

\* The windows of a set of trades are its seconds, in order.
AreTheSeconds(w, S) ==
  /\ w \in Seq(Windows)
  /\ \A i \in 1..Len(w) : w[i].trades # {} /\ \A u \in w[i].trades :
       u \in S /\ StartOf(u) = w[i].start /\ w[i].trades = SecondOf(S, u)
  /\ \A u \in S : \E i \in 1..Len(w) : u \in w[i].trades
  /\ \A i, j \in 1..Len(w) : i < j => w[i].start < w[j].start

LEMMA WindowsOfTrades ==
  ASSUME NEW S \in SUBSET Trades, IsFiniteSet(S)
  PROVE  AreTheSeconds(createTimeWindows(SortedByTime(S)), S)
<1>1. PICK s : s = SortedByTime(S)
  OBVIOUS
<1>2. PICK n \in Nat : /\ s \in [1..n -> S] /\ InOrder(s, TsOf)
                       /\ \A t \in S : \E x \in 1..n : s[x] = t
  BY <1>1, SortedTrades
<1>3. PICK w : w = createTimeWindows(s)
  OBVIOUS
<1>4. WindowsAreRight(w, s, n)
  <2>1. s \in [1..n -> Trades]
    BY <1>2
  <2> QED
    BY <1>2, <1>3, <2>1, WindowsRight
<1>5. w \in Seq(Windows)
  BY <1>4 DEF WindowsAreRight
<1>6. PICK m \in Nat : m = Len(w)
  BY <1>5
<1>7. \A i \in 1..m : w[i].trades # {} /\ \A u \in w[i].trades :
        StartOf(u) = w[i].start /\ \E x \in 1..n : u = s[x]
  BY <1>4, <1>6 DEF WindowsAreRight
<1>8. \A i \in 1..m : \A u \in w[i].trades : u \in S /\ StartOf(u) = w[i].start
  BY <1>2, <1>7
<1>9. \A x \in 1..n : \E i \in 1..m : s[x] \in w[i].trades
  BY <1>4, <1>6 DEF WindowsAreRight
<1>10. \A u \in S : \E i \in 1..m : u \in w[i].trades
  BY <1>2, <1>9
<1>11. \A i, j \in 1..m : i < j => w[i].start < w[j].start
  BY <1>4, <1>6 DEF WindowsAreRight
<1>12. ASSUME NEW i \in 1..m, NEW u \in w[i].trades
       PROVE  w[i].trades = SecondOf(S, u)
  <2>1. u \in S /\ StartOf(u) = w[i].start
    BY <1>8
  <2>2. ASSUME NEW t \in w[i].trades
        PROVE  t \in SecondOf(S, u)
    <3>1. t \in S /\ StartOf(t) = StartOf(u)
      BY <1>8, <2>1
    <3>2. Second(t) = Second(u)
      BY <2>1, <3>1, SameStart
    <3> QED
      BY <3>1, <3>2 DEF SecondOf
  <2>3. ASSUME NEW t \in S, Second(t) = Second(u)
        PROVE  t \in w[i].trades
    <3>1. PICK j \in 1..m : t \in w[j].trades
      BY <1>10
    <3>2. w[j].start = w[i].start
      BY <1>8, <2>1, <2>3, <3>1 DEF StartOf
    <3>3. StartOf(u) \in Nat
      BY <2>1, SecondsOfTrades
    <3>4. PICK a \in Nat : a = w[i].start
      BY <2>1, <3>3
    <3>5. ~ (i < j) /\ ~ (j < i)
      <4>1. i < j => a < a
        BY <1>11, <3>2, <3>4
      <4>2. j < i => a < a
        BY <1>11, <3>2, <3>4
      <4> QED
        BY <4>1, <4>2
    <3> QED
      BY <3>1, <3>5
  <2> QED
    BY <2>2, <2>3 DEF SecondOf
<1>13. AreTheSeconds(w, S)
  BY <1>5, <1>6, <1>7, <1>8, <1>10, <1>11, <1>12 DEF AreTheSeconds
<1> QED
  BY <1>1, <1>3, <1>13

-----------------------------------------------------------------------------
(* Pumps *)

PricedOf(S) == {t \in S : PriceOf[t] # None}

LEMMA PricesOfTrades ==
  ASSUME NEW C \in SUBSET Trades, IsFiniteSet(C)
  PROVE  /\ Prices(C) \in SUBSET Nat /\ IsFiniteSet(Prices(C))
         /\ \A p : p \in Prices(C) <=> \E t \in PricedOf(C) : p = PriceOf[t]
<1>1. \A p : p \in Prices(C) <=> \E t \in PricedOf(C) : p = PriceOf[t]
  BY DEF Prices, PricedOf
<1>2. \A t \in PricedOf(C) : PriceOf[t] \in Nat
  BY Parameters DEF PricedOf
<1>3. IsFiniteSet(PricedOf(C))
  <2>1. PricedOf(C) \in SUBSET C
    BY DEF PricedOf
  <2> QED
    BY <2>1, FS_Subset
<1>4. IsFiniteSet(Prices(C))
  <2> DEFINE f == [t \in PricedOf(C) |-> PriceOf[t]]
  <2>1. f \in [PricedOf(C) -> Prices(C)] /\ \A p \in Prices(C) : \E t \in PricedOf(C) : f[t] = p
    BY <1>1
  <2>2. f \in Surjection(PricedOf(C), Prices(C))
    BY <2>1 DEF Surjection
  <2> HIDE DEF f
  <2> QED
    BY <1>3, <2>2, FS_Surjection
<1> QED
  BY <1>1, <1>2, <1>4

LEMMA WiderIsSteep ==
  ASSUME NEW low \in Nat, NEW high \in Nat, NEW a \in Nat, NEW b \in Nat,
         low <= a, b <= high, Steep(a, b)
  PROVE  Steep(low, high)
<1>1. MinPumpPercentage \in Nat
  BY Parameters
<1>2. PICK p \in Nat : p = MinPumpPercentage
  BY <1>1
<1>3. p * low <= p * a /\ p * low \in Nat /\ p * a \in Nat
  OBVIOUS
<1>4. (b - a) * 100 >= p * a
  BY <1>2 DEF Steep
<1>5. (b - a) * 100 <= (high - low) * 100
  OBVIOUS
<1>6. PICK x \in Nat, y \in Nat : x = p * low /\ y = p * a
  BY <1>3
<1>7. (high - low) * 100 >= x
  BY <1>3, <1>4, <1>5, <1>6
<1> QED
  BY <1>2, <1>6, <1>7 DEF Steep

HasZero(C)  == \E t \in PricedOf(C) : PriceOf[t] = 0
HasSteep(C) == \E t, u \in PricedOf(C) : Steep(PriceOf[t], PriceOf[u])

LEMMA PumpWhenSteep ==
  ASSUME NEW w \in Windows, IsFiniteSet(w.trades)
  PROVE  PumpIn(w) <=> /\ Cardinality(w.trades) >= MinTradesRequired
                       /\ ~ HasZero(w.trades) /\ HasSteep(w.trades)
<1>1. PICK C \in SUBSET Trades : C = w.trades
  BY DEF Windows
<1>2. /\ Prices(C) \in SUBSET Nat /\ IsFiniteSet(Prices(C))
      /\ \A p : p \in Prices(C) <=> \E t \in PricedOf(C) : p = PriceOf[t]
  BY <1>1, PricesOfTrades
<1>3. CASE Prices(C) = {}
  <2>1. ~ HasSteep(C)
    BY <1>2, <1>3 DEF HasSteep
  <2> QED
    BY <1>1, <1>3, <2>1 DEF PumpIn
<1>4. CASE Prices(C) # {}
  <2>1. PICK low \in Nat, high \in Nat :
          /\ low = Min(Prices(C)) /\ high = Max(Prices(C))
          /\ low \in Prices(C) /\ high \in Prices(C)
          /\ \A p \in Prices(C) : low <= p /\ p <= high
    BY <1>2, <1>4, Extremes
  <2>2. low > 0 <=> ~ HasZero(C)
    <3>1. ASSUME HasZero(C)
          PROVE  low = 0
      <4>1. 0 \in Prices(C)
        BY <1>2, <3>1 DEF HasZero
      <4> QED
        BY <2>1, <4>1
    <3>2. ASSUME low = 0
          PROVE  HasZero(C)
      BY <1>2, <2>1, <3>2 DEF HasZero
    <3> QED
      BY <3>1, <3>2
  <2>3. Steep(low, high) <=> HasSteep(C)
    <3>1. ASSUME HasSteep(C)
          PROVE  Steep(low, high)
      <4>1. PICK t \in PricedOf(C), u \in PricedOf(C) : Steep(PriceOf[t], PriceOf[u])
        BY <3>1 DEF HasSteep
      <4>2. PriceOf[t] \in Prices(C) /\ PriceOf[u] \in Prices(C)
        BY <1>2
      <4>3. PICK a \in Nat, b \in Nat : a = PriceOf[t] /\ b = PriceOf[u]
        BY <1>2, <4>2
      <4>4. low <= a /\ b <= high /\ Steep(a, b)
        BY <2>1, <4>1, <4>2, <4>3
      <4> QED
        BY <4>4, WiderIsSteep
    <3>2. ASSUME Steep(low, high)
          PROVE  HasSteep(C)
      <4>1. PICK t \in PricedOf(C), u \in PricedOf(C) : low = PriceOf[t] /\ high = PriceOf[u]
        BY <1>2, <2>1
      <4> QED
        BY <3>2, <4>1 DEF HasSteep
    <3> QED
      BY <3>1, <3>2
  <2> QED
    BY <1>1, <1>4, <2>1, <2>2, <2>3 DEF PumpIn
<1> QED
  BY <1>3, <1>4

PumpsAt(m) == {analyzeTimeWindow(m, w) : w \in Windows}

LEMMA PumpFields ==
  ASSUME NEW m, NEW w \in Windows
  PROVE  /\ analyzeTimeWindow(m, w) \in PumpsAt(m)
         /\ analyzeTimeWindow(m, w).market = m /\ analyzeTimeWindow(m, w).start = w.start
  BY DEF PumpsAt, analyzeTimeWindow

\* One turn of the loop over the windows.
AddPump(m, pumps, w) ==
  IF PumpIn(w) THEN Append(pumps, analyzeTimeWindow(m, w)) ELSE pumps

\* The pumps of the first k windows.
ArePumpsOf(pumps, m, ws, k) ==
  /\ pumps \in Seq(PumpsAt(m))
  /\ \A i \in 1..Len(pumps) : \E j \in 1..k :
       PumpIn(ws[j]) /\ pumps[i] = analyzeTimeWindow(m, ws[j])
  /\ \A j \in 1..k : PumpIn(ws[j]) =>
       \E i \in 1..Len(pumps) : pumps[i] = analyzeTimeWindow(m, ws[j])

LEMMA PumpStep ==
  ASSUME NEW m, NEW n \in Nat, NEW ws \in [1..n -> Windows], NEW k \in 1..n, NEW pumps,
         ArePumpsOf(pumps, m, ws, k - 1)
  PROVE  ArePumpsOf(AddPump(m, pumps, ws[k]), m, ws, k)
<1> DEFINE p == analyzeTimeWindow(m, ws[k])
<1>1. pumps \in Seq(PumpsAt(m)) /\ p \in PumpsAt(m)
  BY PumpFields DEF ArePumpsOf
<1>2. PICK l \in Nat : l = Len(pumps)
  BY <1>1
<1>3. \A i \in 1..l : \E j \in 1..k - 1 :
        PumpIn(ws[j]) /\ pumps[i] = analyzeTimeWindow(m, ws[j])
  BY <1>2 DEF ArePumpsOf
<1>4. \A j \in 1..k - 1 : PumpIn(ws[j]) =>
        \E i \in 1..l : pumps[i] = analyzeTimeWindow(m, ws[j])
  BY <1>2 DEF ArePumpsOf
<1>5. k \in 1..k /\ (\A j \in 1..k - 1 : j \in 1..k) /\ \A j \in 1..k : j = k \/ j \in 1..k - 1
  OBVIOUS
<1>6. CASE ~ PumpIn(ws[k])
  <2>1. AddPump(m, pumps, ws[k]) = pumps
    BY <1>6 DEF AddPump
  <2>2. \A i \in 1..l : \E j \in 1..k :
          PumpIn(ws[j]) /\ pumps[i] = analyzeTimeWindow(m, ws[j])
    BY <1>3, <1>5
  <2>3. \A j \in 1..k : PumpIn(ws[j]) =>
          \E i \in 1..l : pumps[i] = analyzeTimeWindow(m, ws[j])
    BY <1>4, <1>5, <1>6
  <2> QED
    BY <1>1, <1>2, <2>1, <2>2, <2>3 DEF ArePumpsOf
<1>7. CASE PumpIn(ws[k])
  <2>1. PICK q : q = Append(pumps, p)
    OBVIOUS
  <2>2. AddPump(m, pumps, ws[k]) = q
    BY <1>7, <2>1 DEF AddPump
  <2>3. q \in Seq(PumpsAt(m)) /\ Len(q) = l + 1 /\ q[l + 1] = p /\ \A i \in 1..l : q[i] = pumps[i]
    BY <1>1, <1>2, <2>1
  <2>4. l + 1 \in 1..l + 1 /\ (\A i \in 1..l : i \in 1..l + 1)
        /\ \A i \in 1..l + 1 : i = l + 1 \/ i \in 1..l
    OBVIOUS
  <2>5. \A i \in 1..l + 1 : \E j \in 1..k :
          PumpIn(ws[j]) /\ q[i] = analyzeTimeWindow(m, ws[j])
    BY <1>3, <1>5, <1>7, <2>3, <2>4
  <2>6. \A j \in 1..k : PumpIn(ws[j]) =>
          \E i \in 1..l + 1 : q[i] = analyzeTimeWindow(m, ws[j])
    BY <1>4, <1>5, <2>3, <2>4
  <2> QED
    BY <2>2, <2>3, <2>5, <2>6 DEF ArePumpsOf
<1> QED
  BY <1>6, <1>7

LEMMA PumpsRight ==
  ASSUME NEW m, NEW C, ~ (Cardinality(C) < MinTradesRequired), NEW n \in Nat,
         NEW ws \in [1..n -> Windows], ws = createTimeWindows(SortedByTime(C))
  PROVE  ArePumpsOf(analyzeExchangeMarket(m, C), m, ws, n)
<1> DEFINE S == Seq(PumpsAt(m))
           G == [p \in (1..n) \X S |-> AddPump(m, p[2], ws[p[1]])]
           Step(f) == [x \in SUBSET (1..n) |->
                        IF x = {} THEN <<>> ELSE AddPump(m, f[x \ {Max(x)}], ws[Max(x)])]
           loop == CHOOSE f : f = Step(f)
<1>1. analyzeExchangeMarket(m, C) = loop[1..n]
  <2>1. DOMAIN ws = 1..n
    OBVIOUS
  <2> QED
    BY <2>1 DEF analyzeExchangeMarket, FoldLeft, MapThenFoldSet, AddPump
<1>2. \A pumps \in S, k \in 1..n : AddPump(m, pumps, ws[k]) \in S
  BY PumpFields DEF AddPump
<1>3. G \in [(1..n) \X S -> S] /\ <<>> \in S
  BY <1>2
<1>4. \A k \in 1..n, pumps \in S : G[<<k, pumps>>] = AddPump(m, pumps, ws[k])
  OBVIOUS
<1>5. \A x \in SUBSET (1..n) : x # {} => Max(x) \in 1..n /\ x \ {Max(x)} \in SUBSET (1..n)
  <2> SUFFICES ASSUME NEW x \in SUBSET (1..n), x # {} PROVE Max(x) \in x
    OBVIOUS
  <2>1. x \in SUBSET (0..n)
    OBVIOUS
  <2> QED
    BY <2>1, MaxOfBounded
<1>6. \E f : f = Step(f)
  <2> HIDE DEF G, S
  <2>1. PICK g \in [SUBSET (1..n) -> S] : Folds(g, <<>>, n, G)
    BY <1>3, FoldExists DEF Foldable
  <2>2. \A x \in SUBSET (1..n) :
          g[x] = IF x = {} THEN <<>> ELSE AddPump(m, g[x \ {Max(x)}], ws[Max(x)])
    <3> SUFFICES ASSUME NEW x \in SUBSET (1..n), x # {}
                 PROVE  g[x] = AddPump(m, g[x \ {Max(x)}], ws[Max(x)])
      BY <2>1 DEF Folds
    <3>1. Max(x) \in 1..n /\ g[x \ {Max(x)}] \in S
      BY <1>5
    <3>2. g[x] = G[<<Max(x), g[x \ {Max(x)}]>>]
      BY <2>1 DEF Folds
    <3> QED
      BY <1>4, <3>1, <3>2
  <2>3. g = Step(g)
    BY <2>2
  <2> QED
    BY <2>3
<1>7. loop = Step(loop)
  BY <1>6
<1>8. loop[{}] = <<>> /\ \A x \in SUBSET (1..n) : x # {} =>
        loop[x] = AddPump(m, loop[x \ {Max(x)}], ws[Max(x)])
  <2> HIDE DEF loop
  <2>1. \A x \in SUBSET (1..n) : loop[x] = Step(loop)[x]
    BY <1>7
  <2> QED
    BY <2>1
<1> HIDE DEF loop, G, S
<1>9. FoldsInto(loop, S, n, G)
  BY <1>4, <1>5, <1>8 DEF FoldsInto
<1>10. PICK w \in [0..n -> S] : Turns(w, <<>>, n, G) /\ loop[1..n] = w[n]
  <2>1. loop[{}] = <<>>
    BY <1>8
  <2>2. Looped(S, <<>>, n, G, loop[1..n])
    BY <1>3, <1>9, <2>1, FoldTurns
  <2> QED
    BY <2>2 DEF Looped
<1>11. w[0] = <<>> /\ \A k \in 1..n : w[k] = AddPump(m, w[k - 1], ws[k])
  <2>1. \A k \in 1..n : k - 1 \in 0..n
    OBVIOUS
  <2> QED
    BY <1>4, <1>10, <2>1 DEF Turns
<1> DEFINE E == {k \in Nat : k <= n => ArePumpsOf(w[k], m, ws, k)}
<1>12. 0 \in E
  <2>1. w[0] = <<>> /\ w[0] \in Seq(PumpsAt(m)) /\ Len(w[0]) = 0
    BY <1>11
  <2>2. ArePumpsOf(w[0], m, ws, 0)
    BY <2>1 DEF ArePumpsOf
  <2> QED
    BY <2>2
<1>13. ASSUME NEW k \in Nat, k \in E
       PROVE  k + 1 \in E
  <2> SUFFICES ASSUME k + 1 <= n PROVE ArePumpsOf(w[k + 1], m, ws, k + 1)
    OBVIOUS
  <2>1. k + 1 \in 1..n /\ (k + 1) - 1 = k /\ ArePumpsOf(w[k], m, ws, k)
    BY <1>13
  <2>2. ArePumpsOf(w[(k + 1) - 1], m, ws, (k + 1) - 1)
    BY <2>1
  <2>3. ArePumpsOf(AddPump(m, w[(k + 1) - 1], ws[k + 1]), m, ws, k + 1)
    BY <2>1, <2>2, PumpStep
  <2> HIDE DEF E
  <2> QED
    BY <1>11, <2>1, <2>3
<1>14. n \in E
  <2> HIDE DEF E
  <2> QED
    BY <1>12, <1>13, SetInduction
<1> QED
  BY <1>1, <1>10, <1>14

\* The beginnings of the seconds that have two steeply different prices.
SteepStarts(C) ==
  {StartOf(t) : t \in {u \in PricedOf(C) :
     /\ Crowded(u, C)
     /\ ~ \E v \in PricedOf(C) : Second(v) = Second(u) /\ PriceOf[v] = 0
     /\ \E v \in PricedOf(C) : Second(u) = Second(v) /\ Steep(PriceOf[u], PriceOf[v])}}

\* A window is a pump if and only if it has a trade of a steep second.
LEMMA PumpWhenSteepSecond ==
  ASSUME NEW C \in SUBSET Trades, IsFiniteSet(C), NEW w \in Windows, NEW u \in w.trades,
         \A t \in w.trades : t \in C /\ w.trades = SecondOf(C, t)
  PROVE  PumpIn(w) <=> \E t \in PricedOf(w.trades) :
           /\ Crowded(t, C)
           /\ ~ \E v \in PricedOf(C) : Second(v) = Second(t) /\ PriceOf[v] = 0
           /\ \E v \in PricedOf(C) : Second(t) = Second(v) /\ Steep(PriceOf[t], PriceOf[v])
<1>1. IsFiniteSet(w.trades)
  <2>1. w.trades \in SUBSET C
    OBVIOUS
  <2> QED
    BY <2>1, FS_Subset
<1>2. PumpIn(w) <=> /\ Cardinality(w.trades) >= MinTradesRequired
                    /\ ~ HasZero(w.trades) /\ HasSteep(w.trades)
  BY <1>1, PumpWhenSteep
<1>3. \A t \in w.trades : Crowded(t, C) <=> Cardinality(w.trades) >= MinTradesRequired
  <2> SUFFICES ASSUME NEW t \in w.trades
               PROVE  Crowded(t, C) <=> Cardinality(w.trades) >= MinTradesRequired
    OBVIOUS
  <2>1. w.trades = {v \in C : Second(v) = Second(t)}
    BY DEF SecondOf
  <2> QED
    BY <2>1 DEF Crowded
<1>4. \A t \in w.trades : \A v : v \in PricedOf(w.trades) <=> v \in PricedOf(C) /\ Second(v) = Second(t)
  BY DEF SecondOf, PricedOf
<1>5. \A t \in PricedOf(w.trades) : t \in w.trades
  BY DEF PricedOf
<1>6. \A t \in w.trades :
        HasZero(w.trades) <=> \E v \in PricedOf(C) : Second(v) = Second(t) /\ PriceOf[v] = 0
  BY <1>4 DEF HasZero
<1>7. HasSteep(w.trades) <=> \E t \in PricedOf(w.trades) :
        \E v \in PricedOf(C) : Second(t) = Second(v) /\ Steep(PriceOf[t], PriceOf[v])
  BY <1>4, <1>5 DEF HasSteep
<1> QED
  BY <1>2, <1>3, <1>5, <1>6, <1>7

LEMMA MarketStarts ==
  ASSUME NEW m, NEW C \in SUBSET Trades, IsFiniteSet(C)
  PROVE  /\ analyzeExchangeMarket(m, C) \in Seq(PumpsAt(m))
         /\ Starts(analyzeExchangeMarket(m, C)) = SteepStarts(C)
<1>1. CASE Cardinality(C) < MinTradesRequired
  <2>1. analyzeExchangeMarket(m, C) = <<>>
    BY <1>1 DEF analyzeExchangeMarket
  <2>2. \A u : ~ Crowded(u, C)
    <3> SUFFICES ASSUME NEW u, Crowded(u, C) PROVE FALSE
      OBVIOUS
    <3>1. PICK D : D = {v \in C : Second(v) = Second(u)}
      OBVIOUS
    <3>2. IsFiniteSet(D) /\ Cardinality(D) <= Cardinality(C)
      BY <3>1, FS_Subset
    <3>3. Cardinality(D) \in Nat /\ Cardinality(C) \in Nat /\ MinTradesRequired \in Nat
      BY <3>2, FS_CardinalityType, Parameters
    <3>4. Cardinality(D) >= MinTradesRequired
      BY <3>1 DEF Crowded
    <3> QED
      BY <1>1, <3>2, <3>3, <3>4
  <2>3. SteepStarts(C) = {}
    BY <2>2 DEF SteepStarts
  <2> QED
    BY <2>1, <2>3 DEF Starts
<1>2. CASE ~ (Cardinality(C) < MinTradesRequired)
  <2>1. PICK w : w = createTimeWindows(SortedByTime(C))
    OBVIOUS
  <2>2. AreTheSeconds(w, C)
    BY <2>1, WindowsOfTrades
  <2>3. w \in Seq(Windows)
    BY <2>2 DEF AreTheSeconds
  <2>4. PICK n \in Nat : n = Len(w) /\ w \in [1..n -> Windows]
    BY <2>3
  <2>5. PICK pumps : pumps = analyzeExchangeMarket(m, C)
    OBVIOUS
  <2>6. ArePumpsOf(pumps, m, w, n)
    BY <1>2, <2>1, <2>4, <2>5, PumpsRight
  <2>7. pumps \in Seq(PumpsAt(m))
    BY <2>6 DEF ArePumpsOf
  <2>8. PICK l \in Nat : l = Len(pumps) /\ DOMAIN pumps = 1..l
    BY <2>7
  <2>9. \A j \in 1..n : /\ w[j] \in Windows /\ w[j].trades # {}
                        /\ \A u \in w[j].trades : /\ u \in C /\ StartOf(u) = w[j].start
                                                  /\ w[j].trades = SecondOf(C, u)
    BY <2>2, <2>4 DEF AreTheSeconds
  <2>10. \A j \in 1..n : PumpIn(w[j]) <=> \E t \in PricedOf(w[j].trades) :
           /\ Crowded(t, C)
           /\ ~ \E v \in PricedOf(C) : Second(v) = Second(t) /\ PriceOf[v] = 0
           /\ \E v \in PricedOf(C) : Second(t) = Second(v) /\ Steep(PriceOf[t], PriceOf[v])
    <3> SUFFICES ASSUME NEW j \in 1..n
                 PROVE  PumpIn(w[j]) <=> \E t \in PricedOf(w[j].trades) :
           /\ Crowded(t, C)
           /\ ~ \E v \in PricedOf(C) : Second(v) = Second(t) /\ PriceOf[v] = 0
           /\ \E v \in PricedOf(C) : Second(t) = Second(v) /\ Steep(PriceOf[t], PriceOf[v])
      OBVIOUS
    <3>1. PICK x \in Windows : x = w[j]
      BY <2>9
    <3>2. x.trades # {} /\ \A t \in x.trades : t \in C /\ x.trades = SecondOf(C, t)
      BY <2>9, <3>1
    <3>3. PICK u \in x.trades : TRUE
      BY <3>2
    <3> QED
      BY <3>1, <3>2, <3>3, PumpWhenSteepSecond
  <2>11. ASSUME NEW i \in 1..l
         PROVE  pumps[i].start \in SteepStarts(C)
    <3>1. PICK j \in 1..n : PumpIn(w[j]) /\ pumps[i] = analyzeTimeWindow(m, w[j])
      BY <2>6, <2>8 DEF ArePumpsOf
    <3>2. pumps[i].start = w[j].start
      BY <2>9, <3>1, PumpFields
    <3>3. PICK t \in PricedOf(w[j].trades) :
           /\ Crowded(t, C)
           /\ ~ \E v \in PricedOf(C) : Second(v) = Second(t) /\ PriceOf[v] = 0
           /\ \E v \in PricedOf(C) : Second(t) = Second(v) /\ Steep(PriceOf[t], PriceOf[v])
      BY <2>10, <3>1
    <3>4. t \in w[j].trades /\ t \in PricedOf(C)
      BY <2>9, <3>3 DEF PricedOf
    <3>5. StartOf(t) = w[j].start
      BY <2>9, <3>4
    <3> QED
      BY <3>2, <3>3, <3>4, <3>5 DEF SteepStarts
  <2>12. ASSUME NEW x \in SteepStarts(C)
         PROVE  \E i \in 1..l : pumps[i].start = x
    <3>1. PICK t \in PricedOf(C) :
           /\ x = StartOf(t) /\ Crowded(t, C)
           /\ ~ \E v \in PricedOf(C) : Second(v) = Second(t) /\ PriceOf[v] = 0
           /\ \E v \in PricedOf(C) : Second(t) = Second(v) /\ Steep(PriceOf[t], PriceOf[v])
      BY DEF SteepStarts
    <3>2. t \in C
      BY DEF PricedOf
    <3>3. PICK j \in 1..n : t \in w[j].trades
      BY <2>2, <2>4, <3>2 DEF AreTheSeconds
    <3>4. t \in PricedOf(w[j].trades) /\ w[j].start = x
      BY <2>9, <3>1, <3>3 DEF PricedOf
    <3>5. PumpIn(w[j])
      BY <2>10, <3>1, <3>4
    <3>6. PICK i \in 1..l : pumps[i] = analyzeTimeWindow(m, w[j])
      BY <2>6, <2>8, <3>5 DEF ArePumpsOf
    <3>7. pumps[i].start = w[j].start
      BY <2>9, <3>6, PumpFields
    <3> QED
      BY <3>4, <3>7
  <2>13. Starts(pumps) = SteepStarts(C)
    BY <2>8, <2>11, <2>12 DEF Starts
  <2> QED
    BY <2>5, <2>7, <2>13
<1> QED
  BY <1>1, <1>2

-----------------------------------------------------------------------------
(* All markets *)

Pumps == UNION {PumpsAt(m) : m \in AnalyzedMarkets}

LEMMA PumpsAreTyped ==
  /\ \A m \in AnalyzedMarkets : \A p \in PumpsAt(m) : p \in Pumps /\ p.market = m
  /\ \A p \in Pumps : p.start \in Nat
<1>1. \A m \in AnalyzedMarkets : \A p \in PumpsAt(m) : p \in Pumps /\ p.market = m
  BY PumpFields DEF Pumps, PumpsAt
<1>2. \A m \in AnalyzedMarkets : \A p \in PumpsAt(m) : p.start \in Nat
  <2> SUFFICES ASSUME NEW m \in AnalyzedMarkets, NEW w \in Windows
               PROVE  analyzeTimeWindow(m, w).start \in Nat
    BY DEF PumpsAt
  <2>1. w.start \in Nat
    BY DEF Windows
  <2> QED
    BY <2>1, PumpFields
<1>3. \A p \in Pumps : p.start \in Nat
  BY <1>2 DEF Pumps
<1> QED
  BY <1>1, <1>3

\* The state the analyzer may find.
Collection(c) == c \in [AnalyzedMarkets -> SUBSET Trades] /\ \A m \in AnalyzedMarkets : IsFiniteSet(c[m])

Found(c, m) == analyzeExchangeMarket(m, c[m])

\* The pumps of the first k markets.
AreAllPumps(pumps, c, k) ==
  /\ pumps \in Seq(Pumps)
  /\ \A i \in 1..Len(pumps) : \E j \in 1..k :
       \E h \in DOMAIN Found(c, AnalysisOrder[j]) :
         pumps[i] = Found(c, AnalysisOrder[j])[h]
  /\ \A j \in 1..k : \A h \in DOMAIN Found(c, AnalysisOrder[j]) :
       \E i \in 1..Len(pumps) : pumps[i] = Found(c, AnalysisOrder[j])[h]

LEMMA MarketStep ==
  ASSUME NEW c, Collection(c), NEW n \in Nat, n = Len(AnalysisOrder), NEW k \in 1..n,
         NEW pumps, AreAllPumps(pumps, c, k - 1)
  PROVE  AreAllPumps(pumps \o Found(c, AnalysisOrder[k]), c, k)
<1>1. PICK more : more = Found(c, AnalysisOrder[k])
  OBVIOUS
<1>2. AnalysisOrder[k] \in AnalyzedMarkets
  BY Parameters
<1>3. more \in Seq(Pumps)
  <2>1. PICK m \in AnalyzedMarkets : m = AnalysisOrder[k]
    BY <1>2
  <2>2. more \in Seq(PumpsAt(m))
    BY <1>1, <2>1, MarketStarts DEF Found, Collection
  <2>3. PumpsAt(m) \subseteq Pumps
    BY PumpsAreTyped
  <2> QED
    BY <2>2, <2>3
<1>4. pumps \in Seq(Pumps)
  BY DEF AreAllPumps
<1>5. PICK a \in Nat, b \in Nat : a = Len(pumps) /\ b = Len(more) /\ DOMAIN more = 1..b
  BY <1>3, <1>4
<1>6. PICK q : q = pumps \o more
  OBVIOUS
<1>7. /\ q \in Seq(Pumps) /\ Len(q) = a + b
      /\ \A i \in 1..a : q[i] = pumps[i]
      /\ \A i \in 1..b : q[a + i] = more[i]
  BY <1>3, <1>4, <1>5, <1>6
<1>8. /\ \A i \in 1..a + b : i \in 1..a \/ (i - a \in 1..b /\ i = a + (i - a))
      /\ \A i \in 1..a : i \in 1..a + b
      /\ \A i \in 1..b : a + i \in 1..a + b
  OBVIOUS
<1>9. k \in 1..k /\ (\A j \in 1..k - 1 : j \in 1..k) /\ \A j \in 1..k : j = k \/ j \in 1..k - 1
  OBVIOUS
<1>10. ASSUME NEW i \in 1..a + b
       PROVE  \E j \in 1..k : \E h \in DOMAIN Found(c, AnalysisOrder[j]) :
                q[i] = Found(c, AnalysisOrder[j])[h]
  <2>1. CASE i \in 1..a
    <3>1. PICK j \in 1..k - 1 : \E h \in DOMAIN Found(c, AnalysisOrder[j]) :
            pumps[i] = Found(c, AnalysisOrder[j])[h]
      BY <1>5, <2>1 DEF AreAllPumps
    <3> QED
      BY <1>7, <1>9, <2>1, <3>1
  <2>2. CASE i - a \in 1..b /\ i = a + (i - a)
    <3>1. PICK h \in 1..b : i = a + h
      BY <2>2
    <3>2. q[i] = more[h]
      BY <1>7, <3>1
    <3>3. h \in DOMAIN Found(c, AnalysisOrder[k]) /\ q[i] = Found(c, AnalysisOrder[k])[h]
      BY <1>1, <1>5, <3>2
    <3> QED
      BY <1>9, <3>3
  <2> QED
    BY <1>8, <2>1, <2>2
<1>11. ASSUME NEW j \in 1..k, NEW h \in DOMAIN Found(c, AnalysisOrder[j])
       PROVE  \E i \in 1..a + b : q[i] = Found(c, AnalysisOrder[j])[h]
  <2>1. CASE j \in 1..k - 1
    <3>1. PICK i \in 1..a : pumps[i] = Found(c, AnalysisOrder[j])[h]
      BY <1>5, <2>1 DEF AreAllPumps
    <3> QED
      BY <1>7, <1>8, <3>1
  <2>2. CASE j = k
    <3>1. h \in 1..b /\ Found(c, AnalysisOrder[j])[h] = more[h]
      BY <1>1, <1>5, <2>2
    <3>2. a + h \in 1..a + b /\ q[a + h] = more[h]
      BY <1>7, <1>8, <3>1
    <3> QED
      BY <3>1, <3>2
  <2> QED
    BY <1>9, <2>1, <2>2
<1>12. AreAllPumps(q, c, k)
  BY <1>7, <1>10, <1>11 DEF AreAllPumps
<1> QED
  BY <1>1, <1>6, <1>12

LEMMA AllPumpsRight ==
  ASSUME NEW c, Collection(c)
  PROVE  AreAllPumps(PumpsOf(c), c, Len(AnalysisOrder))
<1>1. PICK n \in Nat : n = Len(AnalysisOrder) /\ DOMAIN AnalysisOrder = 1..n
  BY Parameters
<1> DEFINE S == Seq(Pumps)
           Turn(pumps, k) == pumps \o Found(c, AnalysisOrder[k])
           G == [p \in (1..n) \X S |-> Turn(p[2], p[1])]
           Step(f) == [x \in SUBSET (1..n) |->
                        IF x = {} THEN <<>> ELSE Turn(f[x \ {Max(x)}], Max(x))]
           loop == CHOOSE f : f = Step(f)
<1>2. PumpsOf(c) = loop[1..n]
  BY <1>1 DEF PumpsOf, Found, FoldLeft, MapThenFoldSet
<1>3. \A k \in 1..n : Found(c, AnalysisOrder[k]) \in S
  <2> SUFFICES ASSUME NEW k \in 1..n PROVE Found(c, AnalysisOrder[k]) \in S
    OBVIOUS
  <2>1. PICK m \in AnalyzedMarkets : m = AnalysisOrder[k]
    BY <1>1, Parameters
  <2>2. Found(c, m) \in Seq(PumpsAt(m))
    BY MarketStarts DEF Found, Collection
  <2>3. PumpsAt(m) \subseteq Pumps
    BY PumpsAreTyped
  <2> QED
    BY <2>1, <2>2, <2>3
<1>4. \A pumps \in S, k \in 1..n : Turn(pumps, k) \in S
  BY <1>3
<1>5. G \in [(1..n) \X S -> S] /\ <<>> \in S
  BY <1>4
<1>6. \A k \in 1..n, pumps \in S : G[<<k, pumps>>] = Turn(pumps, k)
  OBVIOUS
<1>7. \A x \in SUBSET (1..n) : x # {} => Max(x) \in 1..n /\ x \ {Max(x)} \in SUBSET (1..n)
  <2> SUFFICES ASSUME NEW x \in SUBSET (1..n), x # {} PROVE Max(x) \in x
    OBVIOUS
  <2>1. x \in SUBSET (0..n)
    OBVIOUS
  <2> QED
    BY <2>1, MaxOfBounded
<1>8. \E f : f = Step(f)
  <2> HIDE DEF G, S, Turn
  <2>1. PICK g \in [SUBSET (1..n) -> S] : Folds(g, <<>>, n, G)
    BY <1>5, FoldExists DEF Foldable
  <2>2. \A x \in SUBSET (1..n) :
          g[x] = IF x = {} THEN <<>> ELSE Turn(g[x \ {Max(x)}], Max(x))
    <3> SUFFICES ASSUME NEW x \in SUBSET (1..n), x # {}
                 PROVE  g[x] = Turn(g[x \ {Max(x)}], Max(x))
      BY <2>1 DEF Folds
    <3>1. Max(x) \in 1..n /\ g[x \ {Max(x)}] \in S
      BY <1>7
    <3>2. g[x] = G[<<Max(x), g[x \ {Max(x)}]>>]
      BY <2>1 DEF Folds
    <3> QED
      BY <1>6, <3>1, <3>2
  <2>3. g = Step(g)
    BY <2>2
  <2> QED
    BY <2>3
<1>9. loop = Step(loop)
  BY <1>8
<1>10. loop[{}] = <<>> /\ \A x \in SUBSET (1..n) : x # {} =>
         loop[x] = Turn(loop[x \ {Max(x)}], Max(x))
  <2> HIDE DEF loop, Turn
  <2>1. \A x \in SUBSET (1..n) : loop[x] = Step(loop)[x]
    BY <1>9
  <2> QED
    BY <2>1
<1> HIDE DEF loop, G, S, Turn
<1>11. FoldsInto(loop, S, n, G)
  BY <1>6, <1>7, <1>10 DEF FoldsInto
<1>12. PICK w \in [0..n -> S] : Turns(w, <<>>, n, G) /\ loop[1..n] = w[n]
  <2>1. loop[{}] = <<>>
    BY <1>10
  <2>2. Looped(S, <<>>, n, G, loop[1..n])
    BY <1>5, <1>11, <2>1, FoldTurns
  <2> QED
    BY <2>2 DEF Looped
<1>13. w[0] = <<>> /\ \A k \in 1..n : w[k] = Turn(w[k - 1], k)
  <2>1. \A k \in 1..n : k - 1 \in 0..n
    OBVIOUS
  <2> QED
    BY <1>6, <1>12, <2>1 DEF Turns
<1> DEFINE E == {k \in Nat : k <= n => AreAllPumps(w[k], c, k)}
<1>14. 0 \in E
  <2>1. w[0] \in Seq(Pumps) /\ Len(w[0]) = 0
    BY <1>13
  <2> QED
    BY <2>1 DEF AreAllPumps
<1>15. ASSUME NEW k \in Nat, k \in E
       PROVE  k + 1 \in E
  <2> SUFFICES ASSUME k + 1 <= n PROVE AreAllPumps(w[k + 1], c, k + 1)
    OBVIOUS
  <2>1. k + 1 \in 1..n /\ (k + 1) - 1 = k /\ AreAllPumps(w[k], c, k)
    BY <1>15
  <2>2. AreAllPumps(w[(k + 1) - 1], c, (k + 1) - 1)
    BY <2>1
  <2>3. AreAllPumps(Turn(w[(k + 1) - 1], k + 1), c, k + 1)
    BY <1>1, <2>1, <2>2, MarketStep DEF Turn
  <2> HIDE DEF E
  <2> QED
    BY <1>13, <2>1, <2>3
<1>16. n \in E
  <2> HIDE DEF E
  <2> QED
    BY <1>14, <1>15, SetInduction
<1> QED
  BY <1>1, <1>2, <1>12, <1>16

\* What AllPumpsRight says market by market.
LEMMA StartsByMarket ==
  ASSUME NEW c, Collection(c), NEW m \in AnalyzedMarkets
  PROVE  LET pumps == PumpsOf(c)
         IN  {pumps[i].start : i \in {j \in DOMAIN pumps : pumps[j].market = m}}
               = SteepStarts(c[m])
<1>1. PICK pumps : pumps = PumpsOf(c)
  OBVIOUS
<1>2. PICK n \in Nat : n = Len(AnalysisOrder) /\ DOMAIN AnalysisOrder = 1..n
  BY Parameters
<1>3. AreAllPumps(pumps, c, n)
  BY <1>1, <1>2, AllPumpsRight
<1>4. PICK l \in Nat : l = Len(pumps) /\ DOMAIN pumps = 1..l
  BY <1>3 DEF AreAllPumps
<1>5. \A k \in AnalyzedMarkets : /\ Found(c, k) \in Seq(PumpsAt(k)) /\ Starts(Found(c, k)) = SteepStarts(c[k])
                         /\ \A h \in DOMAIN Found(c, k) : Found(c, k)[h].market = k
  <2> SUFFICES ASSUME NEW k \in AnalyzedMarkets
               PROVE  /\ Found(c, k) \in Seq(PumpsAt(k)) /\ Starts(Found(c, k)) = SteepStarts(c[k])
                      /\ \A h \in DOMAIN Found(c, k) : Found(c, k)[h].market = k
    OBVIOUS
  <2>1. Found(c, k) \in Seq(PumpsAt(k)) /\ Starts(Found(c, k)) = SteepStarts(c[k])
    BY MarketStarts DEF Found, Collection
  <2>2. \A h \in DOMAIN Found(c, k) : Found(c, k)[h] \in PumpsAt(k)
    BY <2>1
  <2> QED
    BY <2>1, <2>2, PumpsAreTyped
<1>6. \A j \in 1..n : AnalysisOrder[j] \in AnalyzedMarkets
  BY <1>2, Parameters
<1>7. ASSUME NEW i \in 1..l, pumps[i].market = m
      PROVE  pumps[i].start \in SteepStarts(c[m])
  <2>1. PICK j \in 1..n : \E h \in DOMAIN Found(c, AnalysisOrder[j]) :
          pumps[i] = Found(c, AnalysisOrder[j])[h]
    BY <1>3, <1>4 DEF AreAllPumps
  <2>2. AnalysisOrder[j] = m
    BY <1>5, <1>6, <1>7, <2>1
  <2>3. pumps[i].start \in Starts(Found(c, m))
    BY <2>1, <2>2 DEF Starts
  <2> QED
    BY <1>5, <2>3
<1>8. ASSUME NEW x \in SteepStarts(c[m])
      PROVE  \E i \in 1..l : pumps[i].market = m /\ pumps[i].start = x
  <2>1. PICK j \in 1..n : AnalysisOrder[j] = m
    BY <1>2 DEF AnalyzedMarkets, Range
  <2>2. x \in Starts(Found(c, m))
    BY <1>5
  <2>3. PICK h \in DOMAIN Found(c, m) : Found(c, m)[h].start = x
    BY <2>2 DEF Starts
  <2>4. PICK i \in 1..l : pumps[i] = Found(c, m)[h]
    BY <1>3, <1>4, <2>1 DEF AreAllPumps
  <2>5. pumps[i].market = m
    BY <1>5, <2>4
  <2> QED
    BY <2>3, <2>4, <2>5
<1>9. {pumps[i].start : i \in {j \in DOMAIN pumps : pumps[j].market = m}} = SteepStarts(c[m])
  BY <1>4, <1>7, <1>8
<1> QED
  BY <1>1, <1>9

\* In each market, every trade is in exactly one window, and the windows are in
\* the order of time.
LEMMA CollectionHasWindows ==
  ASSUME NEW collected, Collection(collected)
  PROVE  AreWindows(collected)
<1> SUFFICES ASSUME NEW m \in Range(AnalysisOrder)
             PROVE  LET trades  == collected[m]
                        windows == createTimeWindows(SortedByTime(trades))
                    IN  /\ {windows[i].trades : i \in DOMAIN windows}
                             = {{t \in trades : Second(t) = Second(u)} : u \in trades}
                        /\ \A i \in DOMAIN windows : \A t \in windows[i].trades :
                             Second(t) * TimeWindowSize = windows[i].start
                        /\ \A i, j \in DOMAIN windows : i < j => windows[i].start < windows[j].start
  BY DEF AreWindows
<1>1. PICK S \in SUBSET Trades : S = collected[m] /\ IsFiniteSet(S)
  BY DEF Collection, AnalyzedMarkets
<1>2. PICK w : w = createTimeWindows(SortedByTime(S))
  OBVIOUS
<1>3. AreTheSeconds(w, S)
  BY <1>1, <1>2, WindowsOfTrades
<1>4. DOMAIN w = 1..Len(w)
  BY <1>3 DEF AreTheSeconds
<1>5. \A i \in DOMAIN w : w[i].trades # {} /\ \A u \in w[i].trades :
        u \in S /\ StartOf(u) = w[i].start /\ w[i].trades = {t \in S : Second(t) = Second(u)}
  BY <1>3, <1>4 DEF AreTheSeconds, SecondOf
<1>6. \A u \in S : \E i \in DOMAIN w : u \in w[i].trades
  BY <1>3, <1>4 DEF AreTheSeconds
<1>7. \A i, j \in DOMAIN w : i < j => w[i].start < w[j].start
  BY <1>3, <1>4 DEF AreTheSeconds
<1>8. \A i \in DOMAIN w : \A t \in w[i].trades : Second(t) * TimeWindowSize = w[i].start
  BY <1>5 DEF StartOf
<1>9. \A i \in DOMAIN w : \E u \in S : w[i].trades = SecondOf(S, u)
  BY <1>5 DEF SecondOf
<1>10. \A u \in S : \E i \in DOMAIN w : w[i].trades = SecondOf(S, u)
  BY <1>5, <1>6 DEF SecondOf
<1>11. {w[i].trades : i \in DOMAIN w} = {{t \in S : Second(t) = Second(u)} : u \in S}
  <2>1. {w[i].trades : i \in DOMAIN w} = {SecondOf(S, u) : u \in S}
    BY <1>9, <1>10
  <2> QED
    BY <2>1 DEF SecondOf
<1>12. collected[m] = S /\ createTimeWindows(SortedByTime(collected[m])) = w
  BY <1>1, <1>2
<1> QED
  BY <1>7, <1>8, <1>11, <1>12

\* The steep rises of the crowded seconds are reported, and only steep seconds.
LEMMA CollectionHasItsRises ==
  ASSUME NEW collected, Collection(collected)
  PROVE  HasTheRises(AnalyzePumps(collected), collected)
<1> SUFFICES ASSUME NEW m \in Range(AnalysisOrder)
             PROVE  LET priced   == Priced(collected[m])
                        pumps    == AnalyzePumps(collected).pumps
                        reported == {pumps[i].start :
                                       i \in {j \in DOMAIN pumps : pumps[j].market = m}}
                        together(t, u) == Second(t) = Second(u)
                    IN  /\ \A t, u \in priced :
                             /\ together(t, u) /\ TsOf[t] <= TsOf[u]
                             /\ Steep(PriceOf[t], PriceOf[u])
                             /\ Crowded(t, collected[m])
                             /\ \A v \in priced : together(v, t) => PriceOf[v] # 0
                             => Second(t) * TimeWindowSize \in reported
                        /\ \A start \in reported : \E t, u \in priced :
                             /\ together(t, u) /\ Second(t) * TimeWindowSize = start
                             /\ Steep(PriceOf[t], PriceOf[u])
  BY DEF HasTheRises
<1>1. Collection(collected)
  OBVIOUS
<1>2. AnalyzePumps(collected).pumps = PumpsOf(collected)
  BY DEF AnalyzePumps
<1>3. PICK pumps : pumps = PumpsOf(collected)
  OBVIOUS
<1>4. PICK reported :
        reported = {pumps[i].start : i \in {j \in DOMAIN pumps : pumps[j].market = m}}
  OBVIOUS
<1>5. reported = SteepStarts(collected[m])
  BY <1>1, <1>3, <1>4, StartsByMarket DEF AnalyzedMarkets
<1>6. Priced(collected[m]) = PricedOf(collected[m])
  BY DEF Priced, PricedOf
<1>7. ASSUME NEW t \in Priced(collected[m]), NEW u \in Priced(collected[m]),
             Second(t) = Second(u), Steep(PriceOf[t], PriceOf[u]), Crowded(t, collected[m]),
             \A v \in Priced(collected[m]) : Second(v) = Second(t) => PriceOf[v] # 0
      PROVE  Second(t) * TimeWindowSize \in reported
  BY <1>5, <1>6, <1>7 DEF SteepStarts, StartOf
<1>8. ASSUME NEW start \in reported
      PROVE  \E t, u \in Priced(collected[m]) :
               /\ Second(t) = Second(u) /\ Second(t) * TimeWindowSize = start
               /\ Steep(PriceOf[t], PriceOf[u])
  BY <1>5, <1>6 DEF SteepStarts, StartOf
<1> QED
  BY <1>2, <1>3, <1>4, <1>7, <1>8

-----------------------------------------------------------------------------
(* The stores *)

Fixed == RawFiles \union {AnalysisFile, SummaryFile}

\* What the store of l, holding sm.mu, has written and could not pass over.
Written(l) ==
  IF tasks[l].at = "raw" THEN RawFiles \ tasks[l].todo
  ELSE RawFiles \union {f \in RefinedFiles(tasks[l].result) \ tasks[l].todo : f.kind # "pumps"}

Own(l, f) ==
  /\ <<getEventDirectory(l), f>> \in DOMAIN disk
  /\ disk[<<getEventDirectory(l), f>>].no = tasks[l].no
  /\ disk[<<getEventDirectory(l), f>>].body = Body(l, f)

\* The holder of sm.mu is the latest store.
HolderIsLatest ==
  \A l \in Listings :
    /\ tasks[l].no <= begun
    /\ tasks[l].at \in Storing =>
         /\ tasks[l].no = begun
         /\ \A k \in Listings \ {l} : tasks[k].no < begun

\* Its list and its result are those of its phase.
ListsAreRight ==
  \A l \in Listings :
    /\ At(l, "raw") => tasks[l].todo \subseteq RawFiles
    /\ At(l, "refined") => /\ tasks[l].result = ResultOf[tasks[l].data]
                           /\ tasks[l].todo \subseteq RefinedFiles(tasks[l].result)

\* What it has written is still there.
WrittenIsOwn ==
  \A l \in Listings : tasks[l].at \in Storing => \A f \in Written(l) : Own(l, f)

MetadataIsOld == \A x \in DOMAIN disk : x[2] = MetadataFile => disk[x].no = 0

\* And so it is when it has ended in success and the directory is still its own.
Lasting(l) ==
  /\ At(l, "stored")
  /\ \A f \in FilesOf(getEventDirectory(l)) :
       StoreNo(getEventDirectory(l), f) <= tasks[l].no
  /\ main # "exiting" \/ cleaned <= TriggerOf[l] + RetentionDays * Day

StoredIsOwn ==
  \A l \in Listings :
    Lasting(l) => tasks[l].result = ResultOf[tasks[l].data] /\ \A f \in Written(l) : Own(l, f)

Inv ==
  /\ HolderIsLatest /\ ListsAreRight /\ WrittenIsOwn /\ MetadataIsOld
  /\ FilesAreInStepOrder /\ StoredIsOwn

-----------------------------------------------------------------------------
(* Files *)

\* The kinds of file are told apart by their names.
LEMMA Kinds ==
  /\ \A f \in RawFiles : f.kind = "raw" /\ f.market \in Markets /\ f = File("raw", f.market)
  /\ MetadataFile.kind = "metadata" /\ AnalysisFile.kind = "pump_analysis"
  /\ EventsFile.kind = "pump_events" /\ SummaryFile.kind = "summary"
  /\ \A m : File("pumps", m).kind = "pumps"
  BY DEF RawFiles, MetadataFile, AnalysisFile, EventsFile, SummaryFile, File

\* What a store is to write belongs to the files, and is none of the others'.
LEMMA RefinedKinds ==
  ASSUME NEW data \in AllData
  PROVE  /\ RefinedFiles(ResultOf[data]) \subseteq Files
         /\ \A f \in RefinedFiles(ResultOf[data]) :
              \/ f \in {AnalysisFile, EventsFile, SummaryFile} \/ f.kind = "pumps"
         /\ AnalysisFile \in RefinedFiles(ResultOf[data])
         /\ SummaryFile \in RefinedFiles(ResultOf[data])
         /\ ResultOf[data].pumps # <<>> => EventsFile \in RefinedFiles(ResultOf[data])
  <1> DEFINE exchanges == ResultOf[data].summary.exchanges
  <1>1. RefinedFiles(ResultOf[data]) =
          {AnalysisFile, SummaryFile}
            \union (IF ResultOf[data].pumps = <<>> THEN {} ELSE {EventsFile})
            \union {File("pumps", m) : m \in exchanges}
    BY DEF RefinedFiles
  <1>2. exchanges \subseteq UNION {ResultOf[d].summary.exchanges : d \in AllData}
    OBVIOUS
  <1>3. {File("pumps", m) : m \in exchanges} \subseteq Files
    BY <1>2, Zenon DEF Files
  <1>4. {AnalysisFile, SummaryFile, EventsFile} \subseteq Files
    BY DEF Files
  <1> QED BY <1>1, <1>3, <1>4, Kinds

\* Ranks are numbers, and those of the raw files come first.
LEMMA Ranks ==
  /\ Len(RawOrder) \in Nat
  /\ \A f \in RawFiles : Rank(f) \in 1..Len(RawOrder)
  /\ Rank(AnalysisFile) = Len(RawOrder) + 1
  /\ Rank(EventsFile) = Len(RawOrder) + 2
  /\ Rank(SummaryFile) = Len(RawOrder) + 3
  /\ \A f : f.kind = "pumps" => Rank(f) = Len(RawOrder) + 4
  <1>1. Len(RawOrder) \in Nat /\ DOMAIN RawOrder = 1..Len(RawOrder)
    BY StorageAssumption
  <1>2. ASSUME NEW f \in RawFiles
        PROVE  Rank(f) \in 1..Len(RawOrder)
    <2>1. f.kind = "raw" /\ f.market \in Markets
      BY Kinds
    <2>2. \E i \in DOMAIN RawOrder : RawOrder[i] = f.market
      BY <2>1, StorageAssumption DEF Range
    <2>3. Rank(f) = CHOOSE i \in DOMAIN RawOrder : RawOrder[i] = f.market
      BY <2>1 DEF Rank
    <2> QED BY <2>2, <2>3, <1>1
  <1> QED BY <1>1, <1>2, Kinds DEF Rank

\* What writing a file does to the disk.
LEMMA PutFacts ==
  ASSUME NEW dir, NEW f, NEW entry, Put(dir, f, entry)
  PROVE  /\ DOMAIN disk' = DOMAIN disk \union {<<dir, f>>}
         /\ disk'[<<dir, f>>] = entry
         /\ \A x \in DOMAIN disk : x # <<dir, f>> => disk'[x] = disk[x]
  BY DEF Put


\* A file is written: the disk keeps its type.
LEMMA PutKeepsType ==
  ASSUME TypeOK, begun \in Nat, begun' = begun,
         NEW l \in Listings, NEW f \in Files, NEW entry,
         entry.of = l, entry.no \in 0..begun, Put(getEventDirectory(l), f, entry)
  PROVE  /\ DOMAIN disk' \subseteq {getEventDirectory(k) : k \in Listings} \X Files
         /\ \A x \in DOMAIN disk' :
              disk'[x].of \in Listings /\ disk'[x].no \in 0..begun
              /\ x[1] = getEventDirectory(disk'[x].of)
  <1> DEFINE new == <<getEventDirectory(l), f>>
  <1>1. /\ DOMAIN disk' = DOMAIN disk \union {new}
        /\ disk'[new] = entry
        /\ \A x \in DOMAIN disk : x # new => disk'[x] = disk[x]
    BY PutFacts
  <1>2. new \in {getEventDirectory(k) : k \in Listings} \X Files
    OBVIOUS
  <1>3. DOMAIN disk' \subseteq {getEventDirectory(k) : k \in Listings} \X Files
    <2> HIDE DEF new
    <2> QED BY <1>1, <1>2 DEF TypeOK
  <1>4. ASSUME NEW x \in DOMAIN disk'
        PROVE  /\ disk'[x].of \in Listings /\ disk'[x].no \in 0..begun
               /\ x[1] = getEventDirectory(disk'[x].of)
    <2>1. CASE x = new
      BY <1>1, <2>1
    <2>2. CASE x # new
      <3> HIDE DEF new
      <3>1. x \in DOMAIN disk /\ disk'[x] = disk[x]
        BY <1>1, <1>4, <2>2
      <3> QED BY <3>1 DEF TypeOK
    <2> QED BY <2>1, <2>2
  <1> QED BY <1>3, <1>4

-----------------------------------------------------------------------------
(* Types *)

LEMMA TypeInit == Init => TypeOK
  BY StorageAssumption DEF Init, TypeOK, At, NoTask, Task, Storing

\* The record of a store that begins.
LEMMA BeginKeepsTask ==
  ASSUME NEW t \in Task, NEW n \in Nat
  PROVE  LET begins == [t EXCEPT !.at = "raw", !.no = n, !.todo = RawFiles]
         IN  begins \in Task /\ begins.at = "raw" /\ begins.data = t.data
  <1>1. RawFiles \in SUBSET Files
    BY DEF Files
  <1>2. "raw" \in {"none", "spawned"} \union Storing \union Ended
    BY DEF Storing
  <1> QED BY <1>1, <1>2 DEF Task

\* One step of a store keeps the types.
LEMMA TypeStore ==
  ASSUME TypeOK, Inv, NEW l \in Listings, StoreStep(l)
  PROVE  TypeOK'
  <1> USE DEF TypeOK, At
  <1>0. tasks[l] \in Task /\ None \notin Listings
    BY StorageAssumption
  <1>1. CASE StoreCollectionEvent(l)
    <2> DEFINE begins == [tasks[l] EXCEPT !.at = "raw", !.no = begun + 1, !.todo = RawFiles]
    <2>2. tasks' = [tasks EXCEPT ![l] = begins]
      BY <1>1 DEF StoreCollectionEvent
    <2>3. begins \in Task /\ begins.at = "raw" /\ begins.data = tasks[l].data
      <3>1. begun + 1 \in Nat
        OBVIOUS
      <3> QED BY <1>0, <3>1, BeginKeepsTask
    <2>4. smu = None /\ smu' = l /\ begun' = begun + 1 /\ tasks[l].at = "spawned"
      BY <1>1 DEF StoreCollectionEvent
    <2>5. UNCHANGED <<runs, main, poll, disk, cleaned>>
      BY <1>1 DEF StoreCollectionEvent
    <2> HIDE DEF begins
    <2>6. tasks' \in [Listings -> Task]
      BY <2>2, <2>3
    <2>7. \A k \in Listings : At(k, "none")' \/ (tasks[k].data)' \in Collections[k]
      BY <2>2, <2>3, <2>4
    <2>8. \A k \in Listings : smu' = k <=> tasks'[k].at \in Storing
      BY <1>0, <2>2, <2>3, <2>4 DEF Storing
    <2>9. \A x \in DOMAIN disk : disk[x].no \in 0..begun'
      <3> DEFINE No(x) == disk[x].no
      <3>1. \A x \in DOMAIN disk : No(x) \in 0..begun
        OBVIOUS
      <3> HIDE DEF No
      <3>2. \A x \in DOMAIN disk : No(x) \in 0..begun'
        BY <2>4, <3>1
      <3> QED BY <3>2 DEF No
    <2> QED BY <1>0, <2>4, <2>5, <2>6, <2>7, <2>8, <2>9
  <1>2. CASE writeJSONFile(l)
    <2>1. PICK f \in NextFiles(l) :
            /\ Put(getEventDirectory(l), f, [of |-> l, no |-> tasks[l].no, body |-> Body(l, f)])
            /\ tasks' = [tasks EXCEPT ![l].todo = @ \ {f}]
      BY <1>2 DEF writeJSONFile
    <2>2. f \in Files /\ tasks[l].no \in 0..begun
      BY <1>0, <2>1, Inv DEF NextFiles, Task, Inv, HolderIsLatest
    <2>3. UNCHANGED <<runs, main, poll, smu, begun, cleaned>>
      BY <1>2 DEF writeJSONFile
    <2>4. /\ DOMAIN disk' \subseteq {getEventDirectory(k) : k \in Listings} \X Files
          /\ \A x \in DOMAIN disk' :
               disk'[x].of \in Listings /\ disk'[x].no \in 0..begun
               /\ x[1] = getEventDirectory(disk'[x].of)
      BY <2>1, <2>2, <2>3, PutKeepsType
    <2> QED BY <1>0, <2>1, <2>3, <2>4 DEF Task
  <1>3. CASE PumpsFileFails(l)
    BY <1>0, <1>3 DEF PumpsFileFails, Task
  <1>4. CASE performPumpAnalysis(l)
    <2>1. tasks[l].data \in AllData
      BY <1>4 DEF performPumpAnalysis, AllData
    <2>2. RefinedFiles(ResultOf[tasks[l].data]) \subseteq Files
      BY <2>1, RefinedKinds
    <2>3. PICK result \in {ResultOf[d] : d \in AllData} :
            /\ RefinedFiles(result) \in SUBSET Files
            /\ tasks' = [tasks EXCEPT ![l].at = "refined", ![l].result = result,
                                      ![l].todo = RefinedFiles(result)]
      BY <1>4, <2>1, <2>2 DEF performPumpAnalysis
    <2>4. tasks' \in [Listings -> Task]
      <3>1. "refined" \in {"none", "spawned"} \union Storing \union Ended
        BY DEF Storing
      <3> QED BY <1>0, <2>3, <3>1 DEF Task
    <2>5. UNCHANGED <<runs, main, poll, smu, disk, begun, cleaned>>
      BY <1>4 DEF performPumpAnalysis
    <2>6. /\ \A k \in Listings \ {l} : tasks'[k] = tasks[k]
          /\ tasks'[l].at = "refined" /\ tasks'[l].data = tasks[l].data
      BY <1>0, <2>3 DEF Task
    <2>7. tasks[l].at \in Storing /\ "refined" \in Storing /\ tasks[l].at # "none"
      BY <1>4 DEF performPumpAnalysis, Storing
    <2> QED BY <1>0, <2>4, <2>5, <2>6, <2>7
  <1>5. ASSUME NEW where \in Ended, NEW left \in SUBSET tasks[l].todo,
               StoreEnds(l, where, left), tasks[l].at \in Storing
        PROVE  TypeOK'
    <2>1. tasks' \in [Listings -> Task]
      BY <1>0, <1>5 DEF StoreEnds, Task, Storing, Ended
    <2>2. /\ \A k \in Listings \ {l} : tasks'[k] = tasks[k]
          /\ tasks'[l].at = where /\ tasks'[l].data = tasks[l].data
          /\ smu' = None /\ UNCHANGED <<runs, main, poll, disk, begun, cleaned>>
      BY <1>0, <1>5 DEF StoreEnds, Task
    <2>3. where \notin Storing /\ where # "none" /\ smu = l /\ tasks[l].at # "none"
      BY <1>5 DEF Storing, Ended
    <2> QED BY <1>0, <2>1, <2>2, <2>3
  <1>6. CASE Stored(l)
    BY <1>5, <1>6 DEF Stored, Storing, Ended
  <1>7. CASE StoreRawFails(l)
    BY <1>5, <1>7 DEF StoreRawFails, Storing, Ended
  <1>8. CASE RefinedFails(l)
    BY <1>5, <1>8 DEF RefinedFails, Storing, Ended
  <1> QED BY <1>1, <1>2, <1>3, <1>4, <1>6, <1>7, <1>8 DEF StoreStep

\* Every step keeps the types.
LEMMA TypeNext ==
  ASSUME TypeOK, Inv, [Next]_vars
  PROVE  TypeOK'
  <1> USE DEF TypeOK, At
  <1>0. None \notin Listings
    BY StorageAssumption
  <1>1. CASE UNCHANGED vars
    BY <1>1 DEF vars
  <1>2. CASE PollBegin
    BY <1>2 DEF PollBegin
  <1>3. CASE PollEnd
    BY <1>3 DEF PollEnd
  <1>4. ASSUME NEW l \in Listings, HandOver(l)
        PROVE  TypeOK'
    <2>1. PICK data \in Collections[l] :
            tasks' = [tasks EXCEPT ![l] =
              [at |-> "spawned", no |-> 0, data |-> data, result |-> None, todo |-> {}]]
      BY <1>4 DEF HandOver
    <2>2. [at |-> "spawned", no |-> 0, data |-> data, result |-> None, todo |-> {}] \in Task
      BY DEF Task, AllData
    <2> QED BY <1>4, <2>1, <2>2 DEF HandOver, Storing
  <1>5. ASSUME NEW l \in Listings, StoreStep(l)
        PROVE  TypeOK'
    BY <1>5, TypeStore
  <1>6. CASE StoreListingEvent
    <2>1. poll.of \in Listings
      BY <1>6 DEF StoreListingEvent
    <2>2. CASE UNCHANGED disk
      BY <1>6, <2>2 DEF StoreListingEvent
    <2>3. CASE Put(getEventDirectory(poll.of), MetadataFile,
                   [of |-> poll.of, no |-> 0, body |-> TriggerOf[poll.of]])
      <3>1. MetadataFile \in Files
        BY DEF Files
      <3>2. /\ DOMAIN disk' \subseteq {getEventDirectory(k) : k \in Listings} \X Files
            /\ \A x \in DOMAIN disk' :
                 disk'[x].of \in Listings /\ disk'[x].no \in 0..begun
                 /\ x[1] = getEventDirectory(disk'[x].of)
        BY <1>6, <2>1, <2>3, <3>1, PutKeepsType DEF StoreListingEvent
      <3> QED BY <1>6, <2>1, <3>2 DEF StoreListingEvent
    <2> QED BY <1>6, <2>2, <2>3 DEF StoreListingEvent
  <1>7. CASE StopMonitor
    BY <1>7 DEF StopMonitor
  <1>8. CASE CloseStorage
    <2>1. PICK now \in CleanTimes, removed \in SUBSET Directories :
            /\ disk' = [x \in {y \in DOMAIN disk : y[1] \notin removed} |-> disk[x]]
            /\ cleaned' = now
      BY <1>8 DEF CloseStorage
    <2>2. cleaned' \in Nat
      BY <2>1, StorageAssumption
    <2> QED BY <1>8, <2>1, <2>2 DEF CloseStorage
  <1>9. CASE ProcessEnds
    <2>1. NoTask \in Task
      BY DEF NoTask, Task
    <2> QED BY <1>0, <1>9, <2>1 DEF ProcessEnds, NoTask, Storing
  <1>10. CASE Start
    BY <1>10, StorageAssumption DEF Start
  <1> QED
    BY <1>1, <1>2, <1>3, <1>4, <1>5, <1>6, <1>7, <1>8, <1>9, <1>10 DEF Next

-----------------------------------------------------------------------------
(* The invariant *)

LEMMA InvInit == Init => Inv
  BY StorageAssumption DEF Init, Inv, HolderIsLatest, ListsAreRight, WrittenIsOwn,
     MetadataIsOld, FilesAreInStepOrder, StoredIsOwn, Lasting, At, NoTask, Storing

\* Of two stores no two hold sm.mu.
LEMMA OneHolder ==
  ASSUME TypeOK, NEW l \in Listings, NEW k \in Listings,
         tasks[l].at \in Storing, tasks[k].at \in Storing
  PROVE  k = l
  BY DEF TypeOK

\* The step does not touch the disk and the numbers of the stores.
LEMMA OrderIsKept ==
  ASSUME FilesAreInStepOrder, MetadataIsOld, UNCHANGED disk
  PROVE  FilesAreInStepOrder' /\ MetadataIsOld'
  BY DEF FilesAreInStepOrder, MetadataIsOld

\* What l has written stays its own while nobody writes and its record stays.
LEMMA OwnIsKept ==
  ASSUME NEW l \in Listings, UNCHANGED <<disk, tasks[l]>>
  PROVE  (\A f \in Written(l) : Own(l, f)) => (\A f \in Written(l) : Own(l, f))'
  <1>1. Written(l)' = Written(l)
    BY DEF Written
  <1>2. ASSUME NEW f PROVE Body(l, f)' = Body(l, f)
    BY DEF Body
  <1>3. ASSUME NEW f PROVE Own(l, f)' = Own(l, f)
    BY <1>2 DEF Own
  <1> QED BY <1>1, <1>3

\* The files are ordered, except the metadata and the lists of pumps of a market.
LEMMA FileKinds ==
  ASSUME NEW f \in Files, f.kind # "metadata"
  PROVE  /\ f \in RawFiles \union {AnalysisFile, EventsFile, SummaryFile} \/ f.kind = "pumps"
         /\ Rank(f) \in Nat
  <1>1. f \in RawFiles \union {AnalysisFile, EventsFile, SummaryFile} \/ f.kind = "pumps"
    BY Kinds DEF Files
  <1> QED BY <1>1, Ranks

\* What a store writes next is preceded by all it has had to write.
LEMMA EarlierIsWritten ==
  ASSUME TypeOK, ListsAreRight, NEW l \in Listings, tasks[l].at \in Storing,
         NEW f \in NextFiles(l), NEW g \in Files,
         g.kind \notin {"metadata", "pump_events", "pumps"}, Rank(g) < Rank(f)
  PROVE  g \in Written(l) /\ f.kind # "metadata"
  <1>1. f \in tasks[l].todo /\ \A h \in tasks[l].todo : Rank(f) <= Rank(h)
    BY DEF NextFiles
  <1>2. Rank(g) \in Nat
    BY FileKinds
  <1>3. CASE tasks[l].at = "raw"
    <2>1. f \in RawFiles
      BY <1>1, <1>3 DEF ListsAreRight, At
    <2>2. Rank(f) \in 1..Len(RawOrder) /\ Len(RawOrder) \in Nat
      BY <2>1, Ranks
    <2>3. g \in RawFiles
      <3>1. g \in RawFiles \union {AnalysisFile, SummaryFile}
        BY FileKinds, Kinds
      <3>2. g # AnalysisFile /\ g # SummaryFile
        BY <2>2, Ranks
      <3> QED BY <3>1, <3>2
    <2>4. g \notin tasks[l].todo
      BY <1>1, <1>2, <2>2
    <2> QED BY <1>3, <2>1, <2>3, <2>4, Kinds DEF Written
  <1>4. CASE tasks[l].at = "refined"
    <2>1. tasks[l].data \in AllData /\ tasks[l].result = ResultOf[tasks[l].data]
      BY <1>4 DEF TypeOK, At, AllData, ListsAreRight
    <2>2. f \in RefinedFiles(ResultOf[tasks[l].data])
      BY <1>1, <1>4, <2>1 DEF ListsAreRight, At
    <2>3. f \in Files /\ f.kind # "metadata"
      BY <2>1, <2>2, RefinedKinds, Kinds
    <2>4. Rank(f) \in Nat
      BY <2>3, FileKinds
    <2>5. g \notin tasks[l].todo
      BY <1>1, <1>2, <2>4
    <2>6. g \in RawFiles \union {AnalysisFile, SummaryFile}
      BY FileKinds, Kinds
    <2>7. AnalysisFile \in RefinedFiles(tasks[l].result)
          /\ SummaryFile \in RefinedFiles(tasks[l].result)
      BY <2>1, RefinedKinds
    <2> QED BY <1>4, <2>3, <2>5, <2>6, <2>7 DEF Written
  <1> QED BY <1>3, <1>4 DEF Storing

\* A store writes: the directory stays in order.
LEMMA WriteKeepsOrder ==
  ASSUME TypeOK, Inv, NEW l \in Listings, tasks[l].at \in Storing, NEW f \in NextFiles(l),
         Put(getEventDirectory(l), f, [of |-> l, no |-> tasks[l].no, body |-> Body(l, f)])
  PROVE  FilesAreInStepOrder'
  <1> DEFINE new == <<getEventDirectory(l), f>>
             entry == [of |-> l, no |-> tasks[l].no, body |-> Body(l, f)]
  <1>1. /\ DOMAIN disk' = DOMAIN disk \union {new}
        /\ disk'[new].no = begun
        /\ \A x \in DOMAIN disk : x # new => disk'[x] = disk[x]
    <2>1. entry.no = begun
      BY DEF Inv, HolderIsLatest
    <2> QED BY <2>1, PutFacts
  <1>2. \A x \in DOMAIN disk : disk[x].no \in 0..begun /\ x[2] \in Files
    BY DEF TypeOK
  <1>3. begun \in Nat
    BY DEF TypeOK
  <1>4. f \in Files
    BY DEF NextFiles, TypeOK, Task
  <1> SUFFICES ASSUME NEW x \in DOMAIN disk', NEW y \in DOMAIN disk',
                      x[1] = y[1], x[2].kind # "metadata", y[2].kind # "metadata",
                      x[2].kind \notin {"pump_events", "pumps"}, Rank(x[2]) < Rank(y[2])
               PROVE  disk'[x].no >= disk'[y].no
    BY DEF FilesAreInStepOrder, Rank
  <1>5. CASE x # new /\ y # new
    <2> HIDE DEF new
    <2>1. x \in DOMAIN disk /\ y \in DOMAIN disk /\ disk'[x] = disk[x] /\ disk'[y] = disk[y]
      BY <1>1, <1>5
    <2> QED BY <2>1 DEF Inv, FilesAreInStepOrder
  <1>6. CASE x = new /\ y # new
    <2> HIDE DEF new
    <2>1. y \in DOMAIN disk /\ disk'[y] = disk[y]
      BY <1>1, <1>6
    <2> QED BY <1>1, <1>2, <1>3, <1>6, <2>1
  <1>7. CASE x # new /\ y = new
    <2>1. x \in DOMAIN disk /\ disk'[x] = disk[x]
      <3> HIDE DEF new
      <3> QED BY <1>1, <1>7
    <2>2. y[1] = getEventDirectory(l) /\ y[2] = f
      BY <1>7
    <2>3. x[2] \in Written(l)
      BY <1>2, <2>1, <2>2, EarlierIsWritten DEF Inv
    <2>4. x = <<getEventDirectory(l), x[2]>>
      BY <2>1, <2>2 DEF TypeOK
    <2>5. disk[x].no = tasks[l].no
      BY <2>3, <2>4 DEF Inv, WrittenIsOwn, Own
    <2>6. tasks[l].no = begun
      BY DEF Inv, HolderIsLatest
    <2> QED BY <1>1, <1>3, <1>7, <2>1, <2>5, <2>6
  <1>8. CASE x = new /\ y = new
    <2>1. x[2] = f /\ y[2] = f /\ Rank(f) \in Nat
      BY <1>4, <1>8, FileKinds
    <2> QED BY <2>1
  <1> QED BY <1>5, <1>6, <1>7, <1>8

\* A file is written by the store of l: what that store had written stays.
LEMMA WriteKeepsOwn ==
  ASSUME TypeOK, Inv, NEW l \in Listings, tasks[l].at \in Storing, NEW f \in NextFiles(l),
         Put(getEventDirectory(l), f, [of |-> l, no |-> tasks[l].no, body |-> Body(l, f)]),
         tasks' = [tasks EXCEPT ![l].todo = @ \ {f}]
  PROVE  (\A g \in Written(l) : Own(l, g))'
  <1> DEFINE dir   == getEventDirectory(l)
             entry == [of |-> l, no |-> tasks[l].no, body |-> Body(l, f)]
  <1>1. /\ tasks[l]'.at = tasks[l].at /\ tasks[l]'.no = tasks[l].no
        /\ tasks[l]'.data = tasks[l].data /\ tasks[l]'.result = tasks[l].result
        /\ tasks[l]'.todo = tasks[l].todo \ {f}
    BY DEF TypeOK, Task
  <1>2. Written(l)' \subseteq Written(l) \union {f}
    BY <1>1 DEF Written
  <1>3. ASSUME NEW g PROVE Body(l, g)' = Body(l, g)
    BY <1>1 DEF Body
  <1>4. /\ DOMAIN disk' = DOMAIN disk \union {<<dir, f>>}
        /\ disk'[<<dir, f>>] = entry
        /\ \A x \in DOMAIN disk : x # <<dir, f>> => disk'[x] = disk[x]
    BY PutFacts
  <1>5. ASSUME NEW g \in Written(l)' PROVE Own(l, g)'
    <2>1. CASE g = f
      BY <1>1, <1>3, <1>4, <2>1 DEF Own
    <2>2. CASE g # f
      <3>1. Own(l, g)
        BY <1>2, <1>5, <2>2 DEF Inv, WrittenIsOwn
      <3>2. <<dir, g>> # <<dir, f>>
        BY <2>2
      <3>3. <<dir, g>> \in DOMAIN disk' /\ disk'[<<dir, g>>] = disk[<<dir, g>>]
        BY <1>4, <3>1, <3>2 DEF Own
      <3> QED BY <1>1, <1>3, <3>1, <3>3 DEF Own
    <2> QED BY <2>1, <2>2
  <1> QED BY <1>5

\* Somebody writes a file of a younger store, or the metadata: the directory of
\* l is no longer its own, or has kept all that the store of l wrote there.
LEMMA WriteKeepsStored ==
  ASSUME TypeOK, StoredIsOwn, MetadataIsOld, NEW l \in Listings, NEW k \in Listings,
         NEW f \in Files, NEW entry, entry.no \in Nat,
         Put(getEventDirectory(k), f, entry), f = MetadataFile \/ entry.no > tasks[l].no,
         UNCHANGED <<tasks[l], main, cleaned>>, Lasting(l)'
  PROVE  tasks[l]'.result = ResultOf[tasks[l]'.data] /\ (\A g \in Written(l) : Own(l, g))'
  <1> DEFINE dir == getEventDirectory(l)
             new == <<getEventDirectory(k), f>>
  <1>1. /\ DOMAIN disk' = DOMAIN disk \union {new}
        /\ disk'[new] = entry
        /\ \A x \in DOMAIN disk : x # new => disk'[x] = disk[x]
    BY PutFacts
  <1>2. \A g \in FilesOf(dir)' : disk'[<<dir, g>>].no <= tasks[l].no
    BY DEF Lasting, StoreNo
  <1>3. f = MetadataFile \/ getEventDirectory(k) # dir
    <2> SUFFICES ASSUME f # MetadataFile, getEventDirectory(k) = dir PROVE FALSE
      OBVIOUS
    <2>1. f \in FilesOf(dir)' /\ disk'[<<dir, f>>] = entry
      <3>1. new \in DOMAIN disk' /\ new[1] = dir /\ new[2] = f
        BY <1>1
      <3> QED BY <1>1, <3>1 DEF FilesOf
    <2>2. entry.no <= tasks[l].no /\ tasks[l].no \in Nat
      BY <1>2, <2>1 DEF TypeOK, Task
    <2> QED BY <2>2
  <1>4. ASSUME NEW g \in FilesOf(dir), g # MetadataFile
        PROVE  /\ <<dir, g>> \in DOMAIN disk /\ <<dir, g>> \in DOMAIN disk'
               /\ disk'[<<dir, g>>] = disk[<<dir, g>>]
    <2>1. <<dir, g>> \in DOMAIN disk
      BY <1>4 DEF FilesOf, TypeOK
    <2>2. <<dir, g>> # new
      BY <1>3, <1>4
    <2> QED BY <1>1, <2>1, <2>2
  <1>5. Lasting(l)
    <2>1. ASSUME NEW g \in FilesOf(dir) PROVE StoreNo(dir, g) <= tasks[l].no
      <3>1. CASE g = MetadataFile
        <4>1. \E x \in DOMAIN disk : x[1] = dir /\ x[2] = g
          BY <2>1 DEF FilesOf
        <4>2. <<dir, g>> \in DOMAIN disk
          BY <4>1 DEF TypeOK
        <4>3. disk[<<dir, g>>].no = 0 /\ tasks[l].no \in Nat
          BY <3>1, <4>2 DEF MetadataIsOld, TypeOK, Task
        <4> QED BY <4>3 DEF StoreNo
      <3>2. CASE g # MetadataFile
        <4>1. <<dir, g>> \in DOMAIN disk' /\ disk'[<<dir, g>>] = disk[<<dir, g>>]
          BY <1>4, <2>1, <3>2
        <4>2. g \in FilesOf(dir)'
          <5>1. \E x \in DOMAIN disk' : x[1] = dir /\ x[2] = g
            BY <4>1
          <5> QED BY <5>1 DEF FilesOf
        <4> QED BY <1>2, <4>1, <4>2 DEF StoreNo
      <3> QED BY <3>1, <3>2
    <2> QED BY <2>1 DEF Lasting, At
  <1>6. tasks[l].result = ResultOf[tasks[l].data] /\ \A g \in Written(l) : Own(l, g)
    BY <1>5 DEF StoredIsOwn
  <1>7. \A g \in Written(l) : g # MetadataFile
    <2>1. At(l, "stored") /\ tasks[l].data \in AllData
      BY <1>5 DEF Lasting, TypeOK, At, AllData
    <2>2. \A g \in RefinedFiles(tasks[l].result) : g # MetadataFile
      BY <1>6, <2>1, RefinedKinds, Kinds
    <2> QED BY <2>1, <2>2, Kinds DEF Written, At
  <1>8. Written(l)' = Written(l)
    BY DEF Written
  <1>9. ASSUME NEW g \in Written(l) PROVE Own(l, g)'
    <2>1. Own(l, g) /\ g # MetadataFile
      BY <1>6, <1>7
    <2>2. g \in FilesOf(dir)
      <3>1. \E x \in DOMAIN disk : x[1] = dir /\ x[2] = g
        BY <2>1 DEF Own
      <3> QED BY <3>1 DEF FilesOf
    <2>3. <<dir, g>> \in DOMAIN disk' /\ disk'[<<dir, g>>] = disk[<<dir, g>>]
      BY <1>4, <2>1, <2>2
    <2>4. Body(l, g)' = Body(l, g)
      BY DEF Body
    <2> QED BY <2>1, <2>3, <2>4 DEF Own
  <1> QED BY <1>6, <1>8, <1>9

\* A store's list gets shorter.
LEMMA ListsAreKept ==
  ASSUME ListsAreRight,
         \A k \in Listings :
           /\ tasks'[k].at = tasks[k].at /\ tasks'[k].data = tasks[k].data
           /\ tasks'[k].result = tasks[k].result /\ tasks'[k].todo \subseteq tasks[k].todo
  PROVE  ListsAreRight'
  <1> SUFFICES ASSUME NEW k \in Listings
               PROVE  /\ tasks'[k].at = "raw" => tasks'[k].todo \subseteq RawFiles
                      /\ tasks'[k].at = "refined" =>
                           /\ tasks'[k].result = ResultOf[tasks'[k].data]
                           /\ tasks'[k].todo \subseteq RefinedFiles(tasks[k].result)'
       BY DEF ListsAreRight, At
  <1>1. RefinedFiles(tasks[k].result)' = RefinedFiles(tasks[k].result)
    BY DEF RefinedFiles
  <1> QED BY <1>1 DEF ListsAreRight, At

\* The disk stays, and so do the records of the stores that hold sm.mu or have
\* ended in success: what these wrote is still theirs.
LEMMA QuietKeepsOwn ==
  ASSUME WrittenIsOwn, StoredIsOwn, UNCHANGED disk,
         \A l \in Listings :
           tasks'[l].at \in Storing \union {"stored"} =>
             \/ UNCHANGED <<tasks[l], cleaned>> /\ (main' = "exiting" <=> main = "exiting")
             \/ /\ tasks'[l].at = "raw" /\ tasks'[l].todo = RawFiles
  PROVE  WrittenIsOwn' /\ StoredIsOwn'
  <1>1. ASSUME NEW l \in Listings, tasks'[l].at \in Storing
        PROVE  (\A f \in Written(l) : Own(l, f))'
    <2>1. CASE UNCHANGED tasks[l]
      BY <1>1, <2>1, OwnIsKept DEF WrittenIsOwn
    <2>2. CASE tasks'[l].at = "raw" /\ tasks'[l].todo = RawFiles
      BY <2>2 DEF Written
    <2> QED BY <1>1, <2>1, <2>2
  <1>2. ASSUME NEW l \in Listings, Lasting(l)'
        PROVE  (tasks[l].result = ResultOf[tasks[l].data] /\ \A f \in Written(l) : Own(l, f))'
    <2>1. UNCHANGED <<tasks[l], cleaned>> /\ (main' = "exiting" <=> main = "exiting")
      BY <1>2 DEF Lasting, At, Storing
    <2>2. Lasting(l)
      BY <1>2, <2>1 DEF Lasting, At, FilesOf, StoreNo
    <2> QED BY <2>1, <2>2, OwnIsKept DEF StoredIsOwn
  <1> QED BY <1>1, <1>2 DEF WrittenIsOwn, StoredIsOwn

\* One step of a store keeps the invariant.
LEMMA InvStore ==
  ASSUME TypeOK, Inv, NEW l \in Listings, StoreStep(l)
  PROVE  Inv'
  <1>0. /\ tasks \in [Listings -> Task] /\ None \notin Listings
        /\ begun \in Nat /\ \A k \in Listings : tasks[k].no \in Nat
    BY StorageAssumption DEF TypeOK, Task
  <1>1. CASE StoreCollectionEvent(l)
    <2>1. /\ smu = None /\ begun' = begun + 1 /\ UNCHANGED <<main, disk, cleaned>>
          /\ \A k \in Listings \ {l} : tasks'[k] = tasks[k]
          /\ tasks'[l].at = "raw" /\ tasks'[l].no = begun + 1 /\ tasks'[l].todo = RawFiles
      BY <1>0, <1>1 DEF StoreCollectionEvent, Task
    <2>2. \A k \in Listings : tasks[k].at \notin Storing
      BY <1>0, <2>1 DEF TypeOK
    <2>3. HolderIsLatest'
      BY <1>0, <2>1, <2>2 DEF Inv, HolderIsLatest
    <2>4. ListsAreRight'
      BY <2>1 DEF Inv, ListsAreRight, At
    <2>5. WrittenIsOwn' /\ StoredIsOwn'
      BY <2>1, QuietKeepsOwn DEF Inv
    <2> QED BY <2>1, <2>3, <2>4, <2>5, OrderIsKept DEF Inv
  <1>2. CASE writeJSONFile(l)
    <2>1. PICK f \in NextFiles(l) :
            /\ Put(getEventDirectory(l), f, [of |-> l, no |-> tasks[l].no, body |-> Body(l, f)])
            /\ tasks' = [tasks EXCEPT ![l].todo = @ \ {f}]
      BY <1>2 DEF writeJSONFile
    <2>2. UNCHANGED <<main, smu, begun, cleaned>> /\ tasks[l].at \in Storing
      BY <1>2 DEF writeJSONFile, Storing, At
    <2>3. /\ \A k \in Listings \ {l} : tasks'[k] = tasks[k]
          /\ tasks'[l] = [tasks[l] EXCEPT !.todo = @ \ {f}]
      BY <1>0, <2>1
    <2>4. /\ tasks'[l].at = tasks[l].at /\ tasks'[l].no = tasks[l].no
          /\ tasks'[l].data = tasks[l].data /\ tasks'[l].result = tasks[l].result
          /\ tasks'[l].todo = tasks[l].todo \ {f}
      BY <1>0, <2>3 DEF Task
    <2>5. HolderIsLatest'
      BY <2>2, <2>3, <2>4 DEF Inv, HolderIsLatest
    <2>6. ListsAreRight'
      <3>1. \A k \in Listings :
              /\ tasks'[k].at = tasks[k].at /\ tasks'[k].data = tasks[k].data
              /\ tasks'[k].result = tasks[k].result /\ tasks'[k].todo \subseteq tasks[k].todo
        BY <2>3, <2>4
      <3> QED BY <3>1, ListsAreKept DEF Inv
    <2>7. f \in Files /\ f.kind # "metadata"
      <3>1. f \in tasks[l].todo
        BY <2>1, Zenon DEF NextFiles
      <3>2. f \in Files
        BY <1>0, <3>1 DEF Task
      <3>3. CASE At(l, "raw")
        <4>1. f \in RawFiles
          BY <3>1, <3>3 DEF Inv, ListsAreRight
        <4> QED BY <3>2, <4>1, Kinds
      <3>4. CASE At(l, "refined")
        <4>1. tasks[l].data \in AllData
          BY <3>4 DEF TypeOK, At, AllData
        <4> QED BY <3>1, <3>2, <3>4, <4>1, RefinedKinds, Kinds DEF Inv, ListsAreRight
      <3> QED BY <2>2, <3>2, <3>3, <3>4 DEF Storing, At
    <2>8. WrittenIsOwn'
      <3>1. (\A g \in Written(l) : Own(l, g))'
        BY <2>1, <2>2, WriteKeepsOwn
      <3>2. \A k \in Listings : tasks'[k].at \in Storing => k = l
        BY <2>2, <2>3, OneHolder
      <3> QED BY <3>1, <3>2 DEF WrittenIsOwn
    <2>9. StoredIsOwn'
      <3> SUFFICES ASSUME NEW k \in Listings, Lasting(k)'
                   PROVE  (tasks[k].result = ResultOf[tasks[k].data]
                           /\ \A g \in Written(k) : Own(k, g))'
        BY DEF StoredIsOwn
      <3>1. k # l
        BY <2>2, <2>4 DEF Lasting, At, Storing
      <3>2. tasks[l].no \in Nat /\ tasks[l].no > tasks[k].no
        BY <1>0, <2>2, <3>1 DEF Inv, HolderIsLatest
      <3>3. UNCHANGED <<tasks[k], main, cleaned>>
        BY <2>2, <2>3, <3>1
      <3> DEFINE entry == [of |-> l, no |-> tasks[l].no, body |-> Body(l, f)]
      <3>4. entry.no = tasks[l].no /\ Put(getEventDirectory(l), f, entry)
        BY <2>1
      <3> HIDE DEF entry
      <3> QED BY <2>7, <3>2, <3>3, <3>4, WriteKeepsStored DEF Inv
    <2>10. MetadataIsOld'
      <3> SUFFICES ASSUME NEW x \in DOMAIN disk', x[2] = MetadataFile PROVE disk'[x].no = 0
        BY DEF MetadataIsOld
      <3>1. x # <<getEventDirectory(l), f>>
        BY <2>7, Kinds
      <3> DEFINE dir == getEventDirectory(l)
      <3>2. x # <<dir, f>>
        BY <3>1
      <3>3. /\ DOMAIN disk' = DOMAIN disk \union {<<dir, f>>}
            /\ \A y \in DOMAIN disk : y # <<dir, f>> => disk'[y] = disk[y]
        BY <2>1 DEF Put
      <3> HIDE DEF dir
      <3>4. x \in DOMAIN disk /\ disk'[x] = disk[x]
        BY <3>2, <3>3
      <3> QED BY <3>4 DEF Inv, MetadataIsOld
    <2>11. FilesAreInStepOrder'
      BY <2>1, <2>2, WriteKeepsOrder
    <2> QED BY <2>5, <2>6, <2>8, <2>9, <2>10, <2>11 DEF Inv
  <1>3. CASE PumpsFileFails(l)
    <2>1. PICK f \in NextFiles(l) : f.kind = "pumps" /\ tasks' = [tasks EXCEPT ![l].todo = @ \ {f}]
      BY <1>3 DEF PumpsFileFails
    <2>2. UNCHANGED <<main, disk, begun, cleaned>> /\ tasks[l].at = "refined"
      BY <1>3 DEF PumpsFileFails, At
    <2>3. /\ \A k \in Listings \ {l} : tasks'[k] = tasks[k]
          /\ tasks'[l] = [tasks[l] EXCEPT !.todo = @ \ {f}]
      BY <1>0, <2>1
    <2>4. /\ tasks'[l].at = tasks[l].at /\ tasks'[l].no = tasks[l].no
          /\ tasks'[l].data = tasks[l].data /\ tasks'[l].result = tasks[l].result
          /\ tasks'[l].todo = tasks[l].todo \ {f}
      BY <1>0, <2>3 DEF Task
    <2>5. HolderIsLatest'
      BY <2>2, <2>3, <2>4 DEF Inv, HolderIsLatest
    <2>6. ListsAreRight'
      <3>1. \A k \in Listings :
              /\ tasks'[k].at = tasks[k].at /\ tasks'[k].data = tasks[k].data
              /\ tasks'[k].result = tasks[k].result /\ tasks'[k].todo \subseteq tasks[k].todo
        BY <2>3, <2>4
      <3> QED BY <3>1, ListsAreKept DEF Inv
    <2>7. WrittenIsOwn'
      <3>1. Written(l)' = Written(l)
        BY <2>1, <2>2, <2>4 DEF Written
      <3>2. ASSUME NEW g \in Written(l) PROVE Own(l, g)'
        <4>1. Own(l, g)
          BY <2>2 DEF Inv, WrittenIsOwn, Storing
        <4>2. Body(l, g)' = Body(l, g)
          BY <2>4 DEF Body
        <4> QED BY <2>2, <2>4, <4>1, <4>2 DEF Own
      <3>3. \A k \in Listings : tasks'[k].at \in Storing => k = l
        BY <2>2, <2>3, OneHolder DEF Storing
      <3> QED BY <3>1, <3>2, <3>3 DEF WrittenIsOwn
    <2>8. StoredIsOwn'
      <3> SUFFICES ASSUME NEW k \in Listings, Lasting(k)'
                   PROVE  (tasks[k].result = ResultOf[tasks[k].data]
                           /\ \A g \in Written(k) : Own(k, g))'
        BY DEF StoredIsOwn
      <3>1. k # l
        BY <2>2, <2>4 DEF Lasting, At
      <3>2. UNCHANGED <<tasks[k], main, cleaned, disk>>
        BY <2>2, <2>3, <3>1
      <3>3. Lasting(k)
        BY <3>2 DEF Lasting, At, FilesOf, StoreNo
      <3> QED BY <3>2, <3>3, OwnIsKept DEF Inv, StoredIsOwn
    <2> QED BY <2>2, <2>5, <2>6, <2>7, <2>8, OrderIsKept DEF Inv
  <1>4. CASE performPumpAnalysis(l)
    <2> DEFINE result == ResultOf[tasks[l].data]
    <2>1. /\ tasks[l].at = "raw" /\ tasks[l].todo = {}
          /\ tasks' = [tasks EXCEPT ![l].at = "refined", ![l].result = result,
                                    ![l].todo = RefinedFiles(result)]
          /\ UNCHANGED <<main, disk, begun, cleaned>>
      BY <1>4 DEF performPumpAnalysis, At
    <2> HIDE DEF result
    <2>2. /\ \A k \in Listings \ {l} : tasks'[k] = tasks[k]
          /\ tasks'[l] = [tasks[l] EXCEPT !.at = "refined", !.result = result,
                                          !.todo = RefinedFiles(result)]
      BY <1>0, <2>1
    <2>3. /\ tasks'[l].at = "refined" /\ tasks'[l].no = tasks[l].no
          /\ tasks'[l].data = tasks[l].data /\ tasks'[l].result = result
          /\ tasks'[l].todo = RefinedFiles(result)
      BY <1>0, <2>2 DEF Task
    <2>4. HolderIsLatest'
      <3>1. tasks[l].at \in Storing /\ UNCHANGED begun
        BY <2>1 DEF Storing
      <3>2. \A k \in Listings : tasks'[k].no = tasks[k].no
        BY <2>2, <2>3
      <3>3. \A k \in Listings \ {l} : tasks'[k].at = tasks[k].at
        BY <2>2
      <3> QED BY <3>1, <3>2, <3>3 DEF Inv, HolderIsLatest
    <2>5. ListsAreRight'
      <3>1. tasks'[l].result = ResultOf[tasks'[l].data]
        BY <2>3 DEF result
      <3>2. ASSUME NEW k \in Listings, k # l
            PROVE  RefinedFiles(tasks[k].result)' = RefinedFiles(tasks[k].result)
        BY <2>2, <3>2 DEF RefinedFiles
      <3>3. RefinedFiles(tasks[l].result)' = RefinedFiles(result)
        BY <2>3 DEF RefinedFiles
      <3>4. ASSUME NEW k \in Listings
            PROVE  /\ tasks'[k].at = "raw" => tasks'[k].todo \subseteq RawFiles
                   /\ tasks'[k].at = "refined" =>
                        /\ tasks'[k].result = ResultOf[tasks'[k].data]
                        /\ tasks'[k].todo \subseteq RefinedFiles(tasks[k].result)'
        <4>1. CASE k = l
          BY <2>3, <3>1, <3>3, <4>1
        <4>2. CASE k # l
          BY <2>2, <3>2, <4>2 DEF Inv, ListsAreRight, At
        <4> QED BY <4>1, <4>2
      <3> QED BY <3>4 DEF ListsAreRight, At
    <2>6. WrittenIsOwn'
      <3>1. Written(l) = RawFiles /\ Written(l)' = RawFiles
        BY <2>1, <2>3 DEF Written
      <3>2. ASSUME NEW g \in RawFiles PROVE Own(l, g)'
        <4>1. Own(l, g)
          BY <2>1, <3>1 DEF Inv, WrittenIsOwn, Storing
        <4>2. g.kind = "raw"
          BY Kinds
        <4>3. Body(l, g)' = Body(l, g)
          BY <2>3, <4>2 DEF Body
        <4> QED BY <2>1, <2>3, <4>1, <4>3 DEF Own
      <3>3. \A k \in Listings : tasks'[k].at \in Storing => k = l
        BY <2>1, <2>2, OneHolder DEF Storing
      <3> QED BY <3>1, <3>2, <3>3 DEF WrittenIsOwn
    <2>7. StoredIsOwn'
      <3> SUFFICES ASSUME NEW k \in Listings, Lasting(k)'
                   PROVE  (tasks[k].result = ResultOf[tasks[k].data]
                           /\ \A g \in Written(k) : Own(k, g))'
        BY DEF StoredIsOwn
      <3>1. k # l
        BY <2>3 DEF Lasting, At
      <3>2. UNCHANGED <<tasks[k], main, cleaned, disk>>
        BY <2>1, <2>2, <3>1
      <3>3. Lasting(k)
        BY <3>2 DEF Lasting, At, FilesOf, StoreNo
      <3> QED BY <3>2, <3>3, OwnIsKept DEF Inv, StoredIsOwn
    <2> QED BY <2>1, <2>4, <2>5, <2>6, <2>7, OrderIsKept DEF Inv
  <1>5. ASSUME At(l, "refined"), StoreEnds(l, "stored", tasks[l].todo)
        PROVE  Inv'
    <2>1. /\ tasks[l].at = "refined"
          /\ tasks' = [tasks EXCEPT ![l].at = "stored", ![l].todo = tasks[l].todo]
          /\ UNCHANGED <<main, disk, begun, cleaned>>
      BY <1>5 DEF StoreEnds, At
    <2>2. /\ \A k \in Listings \ {l} : tasks'[k] = tasks[k]
          /\ tasks'[l].at = "stored" /\ tasks'[l].no = tasks[l].no
          /\ tasks'[l].data = tasks[l].data /\ tasks'[l].result = tasks[l].result
          /\ tasks'[l].todo = tasks[l].todo
      BY <1>0, <2>1 DEF Task
    <2>3. HolderIsLatest'
      <3>1. /\ tasks'[l].at \notin Storing
            /\ \A k \in Listings : tasks'[k].no = tasks[k].no
            /\ \A k \in Listings : tasks'[k].at \in Storing => tasks[k].at \in Storing
        BY <2>1, <2>2 DEF Storing
      <3> QED BY <2>1, <3>1 DEF Inv, HolderIsLatest
    <2>4. ListsAreRight'
      <3>1. ASSUME NEW k \in Listings, k # l
            PROVE  RefinedFiles(tasks[k].result)' = RefinedFiles(tasks[k].result)
        BY <2>2, <3>1 DEF RefinedFiles
      <3> SUFFICES ASSUME NEW k \in Listings
                   PROVE  /\ At(k, "raw")' => tasks'[k].todo \subseteq RawFiles
                          /\ At(k, "refined")' =>
                               /\ tasks'[k].result = ResultOf[tasks'[k].data]
                               /\ tasks'[k].todo \subseteq RefinedFiles(tasks[k].result)'
        BY DEF ListsAreRight
      <3>2. CASE k = l
        BY <2>1, <2>2, <3>2 DEF At
      <3>3. CASE k # l
        <4>1. tasks'[k] = tasks[k]
          BY <2>2, <3>3
        <4> QED BY <3>1, <3>3, <4>1 DEF Inv, ListsAreRight, At
      <3> QED BY <3>2, <3>3
    <2>5. WrittenIsOwn'
      <3>1. \A k \in Listings : tasks'[k].at \notin Storing
        BY <2>1, <2>2, OneHolder DEF Storing
      <3> QED BY <3>1 DEF WrittenIsOwn
    <2>6. StoredIsOwn'
      <3> SUFFICES ASSUME NEW k \in Listings, Lasting(k)'
                   PROVE  (tasks[k].result = ResultOf[tasks[k].data]
                           /\ \A g \in Written(k) : Own(k, g))'
        BY DEF StoredIsOwn
      <3>1. CASE k # l
        <4>1. UNCHANGED <<tasks[k], main, cleaned, disk>>
          BY <2>1, <2>2, <3>1
        <4>2. Lasting(k)
          BY <4>1 DEF Lasting, At, FilesOf, StoreNo
        <4> QED BY <4>1, <4>2, OwnIsKept DEF Inv, StoredIsOwn
      <3>2. CASE k = l
        <4>1. Written(l)' = Written(l)
          BY <2>1, <2>2 DEF Written
        <4>2. ASSUME NEW g \in Written(l) PROVE Own(l, g)'
          <5>1. Own(l, g)
            BY <2>1 DEF Inv, WrittenIsOwn, Storing
          <5>2. Body(l, g)' = Body(l, g)
            BY <2>2 DEF Body
          <5> QED BY <2>1, <2>2, <5>1, <5>2 DEF Own
        <4>3. tasks'[l].result = ResultOf[tasks'[l].data]
          BY <2>1, <2>2 DEF Inv, ListsAreRight, At
        <4> QED BY <3>2, <4>1, <4>2, <4>3
      <3> QED BY <3>1, <3>2
    <2> QED BY <2>1, <2>3, <2>4, <2>5, <2>6, OrderIsKept DEF Inv
  <1>6. ASSUME StoreEnds(l, "failed", {})
        PROVE  Inv'
    <2>1. /\ \A k \in Listings \ {l} : tasks'[k] = tasks[k]
          /\ tasks'[l].at = "failed" /\ tasks'[l].no = tasks[l].no
          /\ UNCHANGED <<main, disk, begun, cleaned>>
      BY <1>0, <1>6 DEF StoreEnds, Task
    <2>2. HolderIsLatest'
      BY <2>1 DEF Inv, HolderIsLatest, Storing
    <2>3. ListsAreRight'
      BY <2>1 DEF Inv, ListsAreRight, At
    <2>4. WrittenIsOwn' /\ StoredIsOwn'
      BY <2>1, QuietKeepsOwn DEF Inv, Storing
    <2> QED BY <2>1, <2>2, <2>3, <2>4, OrderIsKept DEF Inv
  <1>7. CASE StoreRawFails(l)
    BY <1>6, <1>7 DEF StoreRawFails
  <1>8. CASE RefinedFails(l)
    BY <1>5, <1>8 DEF RefinedFails
  <1>9. CASE Stored(l)
    BY <1>5, <1>9 DEF Stored
  <1> QED BY <1>1, <1>2, <1>3, <1>4, <1>7, <1>8, <1>9 DEF StoreStep

\* The retention is longer than the clock of the clean-up says.
LEMMA ExpiredIsOld ==
  ASSUME NEW l \in Listings, NEW now \in CleanTimes, Expired(getEventDirectory(l), now)
  PROVE  TriggerOf[l] + RetentionDays * Day < now
  <1> DEFINE kept == RetentionDays * Day
  <1>1. /\ TriggerOf[l] \in Nat /\ now \in Nat /\ ZoneOffset \in Nat
        /\ RetentionDays \in Nat /\ Day \in Nat
    BY StorageAssumption
  <1>2. kept \in Nat
    BY <1>1
  <1>3. TriggerOf[l] + ZoneOffset < now - kept
    BY DEF Expired, getEventDirectory
  <1> HIDE DEF kept
  <1>4. TriggerOf[l] + kept < now
    BY <1>1, <1>2, <1>3
  <1> QED BY <1>4 DEF kept

\* The clean-up removes whole directories, all of them old.
LEMMA CleanUpFacts ==
  ASSUME TypeOK, CloseStorage
  PROVE  /\ DOMAIN disk' \subseteq DOMAIN disk
         /\ \A x \in DOMAIN disk' : disk'[x] = disk[x]
         /\ \A x \in DOMAIN disk : \A l \in Listings :
              /\ x[1] = getEventDirectory(l)
              /\ cleaned' <= TriggerOf[l] + RetentionDays * Day
              => x \in DOMAIN disk'
         /\ \A x \in DOMAIN disk \ DOMAIN disk' :
              TriggerOf[disk[x].of] + RetentionDays * Day < cleaned'
         /\ cleaned' \in Nat
  <1>1. PICK now \in CleanTimes, removed \in SUBSET {d \in Directories : Expired(d, cleaned')} :
          /\ cleaned' = now
          /\ disk' = [x \in {y \in DOMAIN disk : y[1] \notin removed} |-> disk[x]]
    BY DEF CloseStorage
  <1>2. DOMAIN disk' \subseteq DOMAIN disk /\ \A x \in DOMAIN disk' : disk'[x] = disk[x]
    BY <1>1
  <1>3. ASSUME NEW x \in DOMAIN disk \ DOMAIN disk', NEW l \in Listings,
               x[1] = getEventDirectory(l)
        PROVE  TriggerOf[l] + RetentionDays * Day < cleaned'
    <2>1. x[1] \in removed
      BY <1>1
    <2>2. Expired(getEventDirectory(l), cleaned')
      BY <1>3, <2>1
    <2> QED BY <1>1, <2>2, ExpiredIsOld
  <1>4. cleaned' \in Nat
    BY <1>1, StorageAssumption
  <1>5. \A l \in Listings : TriggerOf[l] + RetentionDays * Day \in Nat
    <2> DEFINE kept == RetentionDays * Day
    <2>1. RetentionDays \in Nat /\ Day \in Nat /\ \A l \in Listings : TriggerOf[l] \in Nat
      BY StorageAssumption
    <2>2. kept \in Nat
      BY <2>1
    <2> HIDE DEF kept
    <2>3. \A l \in Listings : TriggerOf[l] + kept \in Nat
      BY <2>1, <2>2
    <2> QED BY <2>3 DEF kept
  <1>6. ASSUME NEW x \in DOMAIN disk, NEW l \in Listings, x[1] = getEventDirectory(l),
               cleaned' <= TriggerOf[l] + RetentionDays * Day
        PROVE  x \in DOMAIN disk'
    <2> DEFINE end == TriggerOf[l] + RetentionDays * Day
    <2>1. x \notin DOMAIN disk' => end < cleaned'
      BY <1>3, <1>6
    <2>2. end \in Nat /\ cleaned' <= end
      BY <1>5, <1>6
    <2> HIDE DEF end
    <2> QED BY <1>4, <2>1, <2>2
  <1>7. ASSUME NEW x \in DOMAIN disk \ DOMAIN disk'
        PROVE  TriggerOf[disk[x].of] + RetentionDays * Day < cleaned'
    <2>1. disk[x].of \in Listings /\ x[1] = getEventDirectory(disk[x].of)
      BY DEF TypeOK
    <2> QED BY <1>3, <2>1
  <1> QED BY <1>2, <1>4, <1>6, <1>7

\* The clean-up leaves what a younger store has written.
LEMMA InvClose ==
  ASSUME TypeOK, Inv, CloseStorage
  PROVE  Inv'
  <1>1. /\ main = "stopping" /\ smu = None /\ UNCHANGED <<tasks, begun>>
    BY DEF CloseStorage
  <1>2. /\ DOMAIN disk' \subseteq DOMAIN disk
        /\ \A x \in DOMAIN disk' : disk'[x] = disk[x]
        /\ cleaned' \in Nat
    BY CleanUpFacts
  <1>3. HolderIsLatest'
    BY <1>1 DEF Inv, HolderIsLatest
  <1>4. ListsAreRight'
    <2>1. \A k \in Listings :
            /\ tasks'[k].at = tasks[k].at /\ tasks'[k].data = tasks[k].data
            /\ tasks'[k].result = tasks[k].result /\ tasks'[k].todo \subseteq tasks[k].todo
      BY <1>1
    <2> QED BY <2>1, ListsAreKept DEF Inv
  <1>5. WrittenIsOwn'
    <2>1. \A l \in Listings : tasks'[l].at \notin Storing
      BY <1>1, StorageAssumption DEF TypeOK
    <2> QED BY <2>1 DEF WrittenIsOwn
  <1>6. MetadataIsOld'
    BY <1>2 DEF Inv, MetadataIsOld
  <1>7. FilesAreInStepOrder'
    <2> SUFFICES ASSUME NEW x \in DOMAIN disk', NEW y \in DOMAIN disk',
                        x[1] = y[1], x[2].kind # "metadata", y[2].kind # "metadata",
                        x[2].kind \notin {"pump_events", "pumps"}, Rank(x[2]) < Rank(y[2])
                 PROVE  disk'[x].no >= disk'[y].no
      BY DEF FilesAreInStepOrder, Rank
    <2>1. x \in DOMAIN disk /\ y \in DOMAIN disk /\ disk'[x] = disk[x] /\ disk'[y] = disk[y]
      BY <1>2
    <2> QED BY <2>1 DEF Inv, FilesAreInStepOrder
  <1>8. StoredIsOwn'
    <2> SUFFICES ASSUME NEW l \in Listings, Lasting(l)'
                 PROVE  (tasks[l].result = ResultOf[tasks[l].data]
                         /\ \A g \in Written(l) : Own(l, g))'
      BY DEF StoredIsOwn
    <2> DEFINE dir == getEventDirectory(l)
    <2>1. main' = "exiting"
      BY DEF CloseStorage
    <2>2. cleaned' <= TriggerOf[l] + RetentionDays * Day
      BY <2>1 DEF Lasting
    <2>3. \A x \in DOMAIN disk : x[1] = dir => x \in DOMAIN disk'
      BY <2>2, CleanUpFacts
    <2>4. Lasting(l)
      <3>1. ASSUME NEW f \in FilesOf(dir) PROVE StoreNo(dir, f) <= tasks[l].no
        <4>1. <<dir, f>> \in DOMAIN disk
          BY <3>1 DEF FilesOf, TypeOK
        <4>2. <<dir, f>> \in DOMAIN disk' /\ disk'[<<dir, f>>] = disk[<<dir, f>>]
          BY <1>2, <2>3, <4>1
        <4>3. f \in FilesOf(dir)'
          <5>1. \E x \in DOMAIN disk' : x[1] = dir /\ x[2] = f
            BY <4>2
          <5> QED BY <5>1 DEF FilesOf
        <4>4. StoreNo(dir, f)' <= tasks[l].no
          BY <1>1, <4>3 DEF Lasting
        <4> QED BY <4>2, <4>4 DEF StoreNo
      <3>2. At(l, "stored") /\ main # "exiting"
        BY <1>1 DEF Lasting, At
      <3> QED BY <3>1, <3>2 DEF Lasting
    <2>5. tasks[l].result = ResultOf[tasks[l].data] /\ \A g \in Written(l) : Own(l, g)
      BY <2>4 DEF Inv, StoredIsOwn
    <2>6. Written(l)' = Written(l)
      BY <1>1 DEF Written
    <2>7. ASSUME NEW g \in Written(l) PROVE Own(l, g)'
      <3>1. Own(l, g)
        BY <2>5
      <3>2. <<dir, g>> \in DOMAIN disk' /\ disk'[<<dir, g>>] = disk[<<dir, g>>]
        BY <1>2, <2>3, <3>1 DEF Own
      <3>3. Body(l, g)' = Body(l, g)
        BY <1>1 DEF Body
      <3> QED BY <1>1, <3>1, <3>2, <3>3 DEF Own
    <2> QED BY <1>1, <2>5, <2>6, <2>7
  <1> QED BY <1>3, <1>4, <1>5, <1>6, <1>7, <1>8 DEF Inv

\* The metadata is a file of its own.
LEMMA InvMetadata ==
  ASSUME TypeOK, Inv, StoreListingEvent,
         Put(getEventDirectory(poll.of), MetadataFile,
             [of |-> poll.of, no |-> 0, body |-> TriggerOf[poll.of]])
  PROVE  Inv'
  <1> DEFINE new   == <<getEventDirectory(poll.of), MetadataFile>>
             entry == [of |-> poll.of, no |-> 0, body |-> TriggerOf[poll.of]]
  <1>1. /\ smu = None /\ poll.of \in Listings
        /\ UNCHANGED <<main, tasks, begun, cleaned>>
    BY DEF StoreListingEvent, TypeOK
  <1>2. /\ DOMAIN disk' = DOMAIN disk \union {new}
        /\ disk'[new] = entry
        /\ \A x \in DOMAIN disk : x # new => disk'[x] = disk[x]
    BY DEF Put
  <1>3. HolderIsLatest'
    BY <1>1 DEF Inv, HolderIsLatest
  <1>4. ListsAreRight'
    <2>1. \A k \in Listings :
            /\ tasks'[k].at = tasks[k].at /\ tasks'[k].data = tasks[k].data
            /\ tasks'[k].result = tasks[k].result /\ tasks'[k].todo \subseteq tasks[k].todo
      BY <1>1
    <2> QED BY <2>1, ListsAreKept DEF Inv
  <1>5. WrittenIsOwn'
    <2>1. \A l \in Listings : tasks'[l].at \notin Storing
      BY <1>1, StorageAssumption DEF TypeOK
    <2> QED BY <2>1 DEF WrittenIsOwn
  <1>6. entry.no = 0
    OBVIOUS
  <1>7. new[2] = MetadataFile
    OBVIOUS
  <1>8. MetadataIsOld'
    <2> HIDE DEF new, entry
    <2> QED BY <1>2, <1>6 DEF Inv, MetadataIsOld
  <1>9. FilesAreInStepOrder'
    <2> SUFFICES ASSUME NEW x \in DOMAIN disk', NEW y \in DOMAIN disk',
                        x[1] = y[1], x[2].kind # "metadata", y[2].kind # "metadata",
                        x[2].kind \notin {"pump_events", "pumps"}, Rank(x[2]) < Rank(y[2])
                 PROVE  disk'[x].no >= disk'[y].no
      BY DEF FilesAreInStepOrder, Rank
    <2>1. x # new /\ y # new
      BY <1>7, Kinds
    <2> HIDE DEF new, entry
    <2>2. x \in DOMAIN disk /\ y \in DOMAIN disk /\ disk'[x] = disk[x] /\ disk'[y] = disk[y]
      BY <1>2, <2>1
    <2> QED BY <2>2 DEF Inv, FilesAreInStepOrder
  <1>10. StoredIsOwn'
    <2> SUFFICES ASSUME NEW l \in Listings, Lasting(l)'
                 PROVE  (tasks[l].result = ResultOf[tasks[l].data]
                         /\ \A g \in Written(l) : Own(l, g))'
      BY DEF StoredIsOwn
    <2>1. MetadataFile \in Files
      BY DEF Files
    <2>2. entry.no \in Nat /\ Put(getEventDirectory(poll.of), MetadataFile, entry)
      OBVIOUS
    <2> HIDE DEF entry
    <2>3. UNCHANGED <<tasks[l], main, cleaned>>
      BY <1>1
    <2> QED BY <1>1, <2>1, <2>2, <2>3, WriteKeepsStored DEF Inv
  <1> QED BY <1>3, <1>4, <1>5, <1>8, <1>9, <1>10 DEF Inv

\* Every step keeps the invariant.
LEMMA InvNext ==
  ASSUME TypeOK, Inv, [Next]_vars
  PROVE  Inv'
  <1>0. /\ tasks \in [Listings -> Task] /\ None \notin Listings
        /\ begun \in Nat /\ \A k \in Listings : tasks[k].no \in Nat
    BY StorageAssumption DEF TypeOK, Task
  <1>1. ASSUME UNCHANGED <<tasks, disk, begun, cleaned>>, main' = "exiting" <=> main = "exiting"
        PROVE  Inv'
    <2>1. HolderIsLatest'
      BY <1>1 DEF Inv, HolderIsLatest
    <2>2. ListsAreRight'
      <3>1. \A k \in Listings :
              /\ tasks'[k].at = tasks[k].at /\ tasks'[k].data = tasks[k].data
              /\ tasks'[k].result = tasks[k].result /\ tasks'[k].todo \subseteq tasks[k].todo
        BY <1>1
      <3> QED BY <3>1, ListsAreKept DEF Inv
    <2>3. WrittenIsOwn' /\ StoredIsOwn'
      BY <1>1, QuietKeepsOwn DEF Inv
    <2> QED BY <1>1, <2>1, <2>2, <2>3, OrderIsKept DEF Inv
  <1>2. CASE UNCHANGED vars
    BY <1>1, <1>2 DEF vars
  <1>3. CASE PollBegin
    BY <1>1, <1>3 DEF PollBegin
  <1>4. CASE PollEnd
    BY <1>1, <1>4 DEF PollEnd
  <1>5. ASSUME NEW l \in Listings, HandOver(l)
        PROVE  Inv'
    <2>1. /\ \A k \in Listings \ {l} : tasks'[k] = tasks[k]
          /\ tasks'[l].at = "spawned" /\ tasks'[l].no = 0
          /\ tasks[l].at = "none"
          /\ UNCHANGED <<main, disk, begun, cleaned>>
      BY <1>0, <1>5 DEF HandOver, At
    <2>2. HolderIsLatest'
      <3> SUFFICES ASSUME NEW k \in Listings
                   PROVE  /\ tasks'[k].no <= begun
                          /\ tasks'[k].at \in Storing =>
                               /\ tasks'[k].no = begun
                               /\ \A j \in Listings \ {k} : tasks'[j].no < begun
        BY <2>1 DEF HolderIsLatest
      <3>1. CASE k = l
        BY <1>0, <2>1, <3>1 DEF Storing
      <3>2. CASE k # l
        <4>1. tasks'[k] = tasks[k]
          BY <2>1, <3>2
        <4>2. tasks[k].no <= begun
          BY DEF Inv, HolderIsLatest
        <4>3. ASSUME tasks[k].at \in Storing
              PROVE  tasks[k].no = begun /\ \A j \in Listings \ {k} : tasks'[j].no < begun
          <5>1. tasks[k].no = begun /\ \A j \in Listings \ {k} : tasks[j].no < begun
            BY <4>3 DEF Inv, HolderIsLatest
          <5>2. 0 < begun
            BY <1>0, <3>2, <5>1
          <5> QED BY <2>1, <5>1, <5>2
        <4> QED BY <4>1, <4>2, <4>3
      <3> QED BY <3>1, <3>2
    <2>3. ListsAreRight'
      <3>1. ASSUME NEW k \in Listings, k # l
            PROVE  RefinedFiles(tasks[k].result)' = RefinedFiles(tasks[k].result)
        BY <2>1, <3>1 DEF RefinedFiles
      <3> QED BY <2>1, <3>1 DEF Inv, ListsAreRight, At
    <2>4. WrittenIsOwn' /\ StoredIsOwn'
      <3>1. \A k \in Listings : tasks'[k].at \in Storing \union {"stored"} => UNCHANGED tasks[k]
        BY <2>1 DEF Storing
      <3> QED BY <2>1, <3>1, QuietKeepsOwn DEF Inv
    <2> QED BY <2>1, <2>2, <2>3, <2>4, OrderIsKept DEF Inv
  <1>6. ASSUME NEW l \in Listings, StoreStep(l)
        PROVE  Inv'
    BY <1>6, InvStore
  <1>7. CASE StoreListingEvent
    <2>1. CASE UNCHANGED disk
      BY <1>1, <1>7, <2>1 DEF StoreListingEvent
    <2>2. CASE Put(getEventDirectory(poll.of), MetadataFile,
                   [of |-> poll.of, no |-> 0, body |-> TriggerOf[poll.of]])
      BY <1>7, <2>2, InvMetadata
    <2> QED BY <1>7, <2>1, <2>2 DEF StoreListingEvent
  <1>8. CASE StopMonitor
    BY <1>1, <1>8 DEF StopMonitor
  <1>9. CASE CloseStorage
    BY <1>9, InvClose
  <1>10. CASE ProcessEnds
    <2>1. /\ \A k \in Listings : tasks'[k] = NoTask
          /\ UNCHANGED <<disk, begun>>
      BY <1>10 DEF ProcessEnds
    <2>2. HolderIsLatest'
      BY <1>0, <2>1 DEF HolderIsLatest, NoTask, Storing
    <2>3. ListsAreRight'
      BY <2>1 DEF ListsAreRight, NoTask, At
    <2>4. WrittenIsOwn' /\ StoredIsOwn'
      BY <2>1, QuietKeepsOwn DEF Inv, NoTask, Storing
    <2> QED BY <2>1, <2>2, <2>3, <2>4, OrderIsKept DEF Inv
  <1>11. CASE Start
    BY <1>1, <1>11 DEF Start
  <1> QED
    BY <1>2, <1>3, <1>4, <1>5, <1>6, <1>7, <1>8, <1>9, <1>10, <1>11 DEF Next

-----------------------------------------------------------------------------
(* The theorems *)

\* What lasts of a store is the whole of it.
LEMMA WholeFromInv ==
  ASSUME TypeOK, Inv
  PROVE  StoredIsWhole
  <1> SUFFICES ASSUME NEW l \in Listings, Lasting(l)
               PROVE  LET dir == getEventDirectory(l)
                          body(f)    == disk[<<dir, f>>].body
                          leftOut(f) == f \in tasks[l].todo
                      IN  /\ RawFiles \subseteq FilesOf(dir)
                          /\ LET result == AnalyzePumps(
                                             [m \in Markets |-> body(File("raw", m))])
                             IN  /\ \A m \in Markets : body(File("raw", m)) = tasks[l].data[m]
                                 /\ ~leftOut(AnalysisFile) =>
                                      /\ AnalysisFile \in FilesOf(dir)
                                      /\ body(AnalysisFile) = result
                                 /\ ~leftOut(SummaryFile) =>
                                      /\ SummaryFile \in FilesOf(dir)
                                      /\ body(SummaryFile) = result.summary
                                 /\ ~leftOut(EventsFile) /\ result.pumps # <<>> =>
                                      /\ EventsFile \in FilesOf(dir)
                                      /\ body(EventsFile) = result.pumps
    BY DEF StoredIsWhole, Lasting
  <1> DEFINE dir     == getEventDirectory(l)
             body(f) == disk[<<dir, f>>].body
             data    == tasks[l].data
             result  == tasks[l].result
             todo    == tasks[l].todo
  <1>1. data \in Collections[l] /\ data \in AllData /\ data \in [Markets -> SUBSET Trades]
    BY StorageAssumption DEF Lasting, TypeOK, At, AllData
  <1>2. result = ResultOf[data] /\ \A f \in Written(l) : Own(l, f)
    BY DEF Inv, StoredIsOwn
  <1>3. /\ RawFiles \subseteq Written(l)
        /\ AnalysisFile \notin todo => AnalysisFile \in Written(l)
        /\ SummaryFile \notin todo => SummaryFile \in Written(l)
        /\ EventsFile \notin todo /\ result.pumps # <<>> => EventsFile \in Written(l)
    <2>1. tasks[l].at = "stored"
      BY DEF Lasting, At
    <2>2. /\ AnalysisFile \in RefinedFiles(result) /\ SummaryFile \in RefinedFiles(result)
          /\ result.pumps # <<>> => EventsFile \in RefinedFiles(result)
      BY <1>1, <1>2, RefinedKinds
    <2> HIDE DEF result
    <2> QED BY <2>1, <2>2, Kinds DEF Written, result
  <1>4. ASSUME NEW f \in Written(l)
        PROVE  f \in FilesOf(dir) /\ body(f) = Body(l, f)
    <2>1. Own(l, f)
      BY <1>2
    <2>2. \E x \in DOMAIN disk : x[1] = dir /\ x[2] = f
      BY <2>1 DEF Own
    <2> QED BY <2>1, <2>2 DEF Own, FilesOf
  <1>5. \A m \in Markets : body(File("raw", m)) = data[m]
    <2> SUFFICES ASSUME NEW m \in Markets PROVE body(File("raw", m)) = data[m]
      OBVIOUS
    <2>1. File("raw", m) \in RawFiles /\ File("raw", m).kind = "raw" /\ File("raw", m).market = m
      BY DEF RawFiles, File
    <2>2. Body(l, File("raw", m)) = data[m]
      BY <2>1 DEF Body
    <2>3. File("raw", m) \in Written(l)
      BY <1>3, <2>1
    <2> QED BY <1>4, <2>2, <2>3
  <1>6. [m \in Markets |-> body(File("raw", m))] = data
    <2> HIDE DEF body, data
    <2> QED BY <1>1, <1>5
  <1>7. AnalyzePumps([m \in Markets |-> body(File("raw", m))]) = result
    <2>1. ResultOf[data] = AnalyzePumps(data)
      BY <1>1 DEF ResultOf
    <2> HIDE DEF body, data, result
    <2> QED BY <1>2, <1>6, <2>1
  <1>8. /\ Body(l, AnalysisFile) = result /\ Body(l, EventsFile) = result.pumps
        /\ Body(l, SummaryFile) = result.summary
    BY Kinds DEF Body
  <1>9. RawFiles \subseteq FilesOf(dir)
    BY <1>3, <1>4
  <1>10. AnalysisFile \notin todo => AnalysisFile \in FilesOf(dir) /\ body(AnalysisFile) = result
    <2> HIDE DEF body, dir, result, todo
    <2> QED BY <1>3, <1>4, <1>8
  <1>11. SummaryFile \notin todo =>
           SummaryFile \in FilesOf(dir) /\ body(SummaryFile) = result.summary
    <2> HIDE DEF body, dir, result, todo
    <2> QED BY <1>3, <1>4, <1>8
  <1>12. EventsFile \notin todo /\ result.pumps # <<>> =>
           EventsFile \in FilesOf(dir) /\ body(EventsFile) = result.pumps
    <2> HIDE DEF body, dir, result, todo
    <2> QED BY <1>3, <1>4, <1>8
  <1> HIDE DEF body, dir, data, result, todo
  <1>13. LET r == AnalyzePumps([m \in Markets |-> body(File("raw", m))])
         IN  /\ \A m \in Markets : body(File("raw", m)) = data[m]
             /\ AnalysisFile \notin todo =>
                  AnalysisFile \in FilesOf(dir) /\ body(AnalysisFile) = r
             /\ SummaryFile \notin todo =>
                  SummaryFile \in FilesOf(dir) /\ body(SummaryFile) = r.summary
             /\ EventsFile \notin todo /\ r.pumps # <<>> =>
                  EventsFile \in FilesOf(dir) /\ body(EventsFile) = r.pumps
    BY <1>5, <1>7, <1>10, <1>11, <1>12
  <1> QED BY <1>9, <1>13 DEF body, dir, data, todo

\* A step removes no file of a younger notice.
LEMMA RetentionStep ==
  ASSUME TypeOK, [Next]_vars
  PROVE  \A x \in DOMAIN disk \ DOMAIN disk' :
           TriggerOf[disk[x].of] + RetentionDays * Day < cleaned'
  <1>1. CASE CloseStorage
    BY <1>1, CleanUpFacts
  <1>2. ASSUME NEW dir, NEW f, NEW entry, Put(dir, f, entry)
        PROVE  DOMAIN disk \ DOMAIN disk' = {}
    BY <1>2, PutFacts
  <1>3. CASE UNCHANGED disk
    BY <1>3
  <1>4. CASE StoreListingEvent
    BY <1>2, <1>3, <1>4 DEF StoreListingEvent
  <1>5. ASSUME NEW l \in Listings, StoreStep(l)
        PROVE  DOMAIN disk \ DOMAIN disk' = {}
    <2>1. CASE writeJSONFile(l)
      BY <1>2, <2>1 DEF writeJSONFile
    <2>2. CASE UNCHANGED disk
      BY <2>2
    <2> QED
      BY <1>5, <2>1, <2>2 DEF StoreStep, StoreCollectionEvent, PumpsFileFails,
         performPumpAnalysis, Stored, StoreRawFails, RefinedFails, StoreEnds
  <1> QED
    BY <1>1, <1>3, <1>4, <1>5 DEF Next, vars, PollBegin, PollEnd, HandOver, StopMonitor,
       ProcessEnds, Start

\* The invariant, with the types it rests on, holds in every state.
LEMMA Invariance == Spec => [](TypeOK /\ Inv)
  <1>1. Init => TypeOK /\ Inv
    BY TypeInit, InvInit
  <1>2. TypeOK /\ Inv /\ [Next]_vars => (TypeOK /\ Inv)'
    BY TypeNext, InvNext
  <1> QED BY <1>1, <1>2, PTL DEF Spec

\* Every variable of the storage keeps to its values, sm.mu is held by exactly the
\* store that is between its first and its last file, and a directory holds only
\* files of the notices it is named after.
THEOREM TypeCorrect == Spec => []TypeOK
  <1> QED BY Invariance, PTL

\* Over any crashes, failed writes and repeated stores, a file of a directory is
\* never newer than one that every store writes before it: storeRawData, then
\* performPumpAnalysis, then storeRefinedData, under sm.mu.
THEOREM StepOrderTheorem == Spec => []FilesAreInStepOrder
  <1>1. TypeOK /\ Inv => FilesAreInStepOrder
    BY DEF Inv
  <1> QED BY <1>1, Invariance, PTL

\* What StoreCollectionEvent reports as a success has its raw data on the disk
\* whole, and of the analysis of these data whatever a failed write did not leave
\* out, until a later store writes into the directory or CleanupOldData finds it
\* old. (It reports a failed analysis as a success.)
THEOREM StoredTheorem == Spec => []StoredIsWhole
  <1>1. TypeOK /\ Inv => StoredIsWhole
    BY WholeFromInv
  <1> QED BY <1>1, Invariance, PTL

\* CleanupOldData, which reads a time of Upbit's zone as UTC, is late and never
\* early, for any offset ahead of UTC: it removes no file before its time.
THEOREM RetentionTheorem == Spec => RetentionIsRespected
  <1>1. TypeOK /\ [Next]_vars =>
          [\A x \in DOMAIN disk \ DOMAIN disk' :
             TriggerOf[disk[x].of] + RetentionDays * Day < cleaned']_disk
    BY RetentionStep
  <1> QED BY <1>1, TypeCorrect, PTL DEF Spec, RetentionIsRespected

LEMMA GivenCollections == \A collected \in Analyzed : Collection(collected)
  BY AnalyzerAssumption DEF Collection, AnalyzedMarkets

LEMMA AnalyzedData ==
  ASSUME TypeOK, NEW l \in Listings, At(l, "refined")
  PROVE  Collection(tasks[l].data)
<1>1. tasks[l].data \in Collections[l]
  BY DEF TypeOK, At
<1> QED
  BY <1>1, StorageAssumption DEF Collection, AnalyzedMarkets

\* Every trade that is analyzed is in exactly one window, and the windows are the
\* seconds that have trades, in the order of time: for any collections, any
\* timestamps and any size of a window.
THEOREM PartitionTheorem == Spec => []WindowsArePartition
<1>1. EveryCollectionHasWindows
  BY GivenCollections, CollectionHasWindows DEF EveryCollectionHasWindows
<1>2. ASSUME TypeOK PROVE WindowsArePartition
  BY <1>1, <1>2, AnalyzedData, CollectionHasWindows DEF WindowsArePartition
<1> QED
  BY <1>2, TypeCorrect, PTL

\* No rise within a second that has enough trades and no price of zero is missing
\* in what a store writes, and no second is there whose prices are all close
\* together: for any collections, prices and thresholds.
THEOREM RisesTheorem == Spec => []RisesAreReported
<1>1. EveryRiseIsFound
  BY GivenCollections, CollectionHasItsRises DEF EveryRiseIsFound
<1>2. ASSUME TypeOK, Inv PROVE RisesAreReported
  <2>1. \A l \in Listings : At(l, "refined") => tasks[l].result = AnalyzePumps(tasks[l].data)
    <3>1. TAKE l \in Listings
    <3>2. HAVE At(l, "refined")
    <3>3. tasks[l].result = ResultOf[tasks[l].data]
      BY <1>2, <3>2 DEF Inv, ListsAreRight
    <3>4. tasks[l].data \in AllData
      BY <1>2, <3>2 DEF TypeOK, At, AllData
    <3> QED
      BY <3>3, <3>4 DEF ResultOf
  <2> QED
    BY <1>1, <1>2, <2>1, AnalyzedData, CollectionHasItsRises DEF RisesAreReported
<1> QED
  BY <1>2, Invariance, PTL
=============================================================================
