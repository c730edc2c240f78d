---------------------------- MODULE Orders_proofs ----------------------------
(***************************************************************************)
(* Least and greatest elements of sets of natural numbers, on which the    *)
(* range of a merge and the next offset of a restarted writer rest; folds  *)
(* of the community modules as walks from one value to the next; sorting   *)
(* by a key, and picking the elements at some positions of a sequence; and *)
(* sequences laid end to end.                                              *)
(***************************************************************************)
EXTENDS Orders, SequencesExt, FiniteSetTheorems, SequenceTheorems, WellFoundedInduction, TLAPS

NatLess == {pair \in Nat \X Nat : pair[1] < pair[2]}

\* Every set of naturals that is not empty has a least element.
LEMMA LeastNatural ==
  ASSUME NEW S \in SUBSET Nat, S # {}
  PROVE  \E lo \in S : \A n \in S : lo <= n
<1>1. IsWellFoundedOn(NatLess, Nat)
  BY NatLessThanWellFounded DEF OpToRel, NatLess
<1>2. PICK lo \in S : \A n \in S : ~(<<n, lo>> \in NatLess)
  BY <1>1, WFMin
<1>3. ASSUME NEW n \in S PROVE lo <= n
  <2>1. \A k, m \in Nat : k < m => <<k, m>> \in NatLess
    BY DEF NatLess
  <2>2. ~(n < lo)
    BY <1>2, <2>1
  <2>3. QED BY <2>2
<1>4. QED BY <1>3

\* One that is bounded has a greatest element too.
LEMMA GreatestNatural ==
  ASSUME NEW S \in SUBSET Nat, S # {}, NEW b \in Nat, \A n \in S : n < b
  PROVE  \E hi \in S : \A n \in S : n <= hi
<1> DEFINE T == {b - n : n \in S}
<1>1. \A n \in S : n \in Nat /\ b - n \in Nat
  OBVIOUS
<1>2. T \in SUBSET Nat /\ T # {}
  BY <1>1
<1>3. PICK lo \in T : \A m \in T : lo <= m
  BY <1>2, LeastNatural
<1>4. PICK hi \in S : lo = b - hi
  BY <1>3
<1>5. \A n \in S : b - hi <= b - n
  BY <1>3, <1>4
<1>6. \A n \in S : n <= hi
  BY <1>1, <1>5
<1>7. QED BY <1>6
-----------------------------------------------------------------------------
(* Induction, stated for sets so that it can be used. *)

\* A set that has zero and with every number the next has all up to a bound.
LEMMA UpTo ==
  ASSUME NEW S, NEW n \in Nat, 0 \in S,
         \A k \in 0 .. n - 1 : k \in S => k + 1 \in S
  PROVE  \A k \in 0 .. n : k \in S
<1> DEFINE Gap == {k \in 0 .. n : k \notin S}
<1>1. Gap = {}
  <2> SUFFICES ASSUME Gap # {} PROVE FALSE
    OBVIOUS
  <2>1. PICK k \in Gap : \A m \in Gap : k <= m
    <3>1. Gap \in SUBSET Nat
      OBVIOUS
    <3> HIDE DEF Gap
    <3>2. QED BY <3>1, LeastNatural
  <2>2. k \in Nat /\ k # 0 /\ k <= n /\ k \notin S
    OBVIOUS
  <2>3. k - 1 \in 0 .. n - 1 /\ ~(k <= k - 1) /\ (k - 1) + 1 = k /\ k - 1 \in 0 .. n
    BY <2>2
  <2>4. k - 1 \in S
    BY <2>1, <2>3
  <2>5. k \in S
    BY <2>3, <2>4
  <2>6. QED BY <2>2, <2>5
<1>2. QED BY <1>1

\* Two walks that start together and stay together whenever they were, agree.
LEMMA WalksTogether ==
  ASSUME NEW v, NEW w, NEW n \in Nat, v[0] = w[0],
         \A k \in 1 .. n : v[k - 1] = w[k - 1] => v[k] = w[k]
  PROVE  \A k \in 0 .. n : v[k] = w[k]
<1> DEFINE S == {k \in 0 .. n : v[k] = w[k]}
<1>1. 0 \in S
  OBVIOUS
<1>2. ASSUME NEW k \in 0 .. n - 1, k \in S PROVE k + 1 \in S
  <2>1. k + 1 \in 1 .. n /\ (k + 1) - 1 = k /\ k + 1 \in 0 .. n
    OBVIOUS
  <2>2. QED BY <1>2, <2>1
<1>3. \A k \in 0 .. n : k \in S
  <2> HIDE DEF S
  <2>1. QED BY <1>1, <1>2, UpTo
<1>4. QED BY <1>3

Together(v, w, n) ==
  v[0] = w[0] /\ \A k \in 1 .. n : v[k - 1] = w[k - 1] => v[k] = w[k]

\* Two walks that take the same steps end at the same place.
LEMMA EndTogether ==
  ASSUME NEW v, NEW w, NEW n \in Nat, Together(v, w, n)
  PROVE  v[n] = w[n]
<1>1. v[0] = w[0] /\ \A k \in 1 .. n : v[k - 1] = w[k - 1] => v[k] = w[k]
  BY DEF Together
<1>2. \A k \in 0 .. n : v[k] = w[k]
  BY <1>1, WalksTogether
<1>3. QED BY <1>2

\* The recursion over sets of positions that a fold is defined by has a solution,
\* when every step leads from values of a type to values of it.
Descends(g, base, step, n) ==
  /\ g[{}] = base
  /\ \A P \in SUBSET (1 .. n), top \in 1 .. n :
       top \in P /\ (\A i \in P : i <= top) => g[P] = step[top][g[P \ {top}]]

\* Such a solution exists.
LEMMA FoldExists ==
  ASSUME NEW X, NEW base \in X, NEW n \in Nat, NEW step \in [1 .. n -> [X -> X]]
  PROVE  \E g \in [SUBSET (1 .. n) -> X] : Descends(g, base, step, n)
<1> DEFINE Good(m) == \E g \in [SUBSET (1 .. m) -> X] : Descends(g, base, step, m)
           S == {m \in 0 .. n : Good(m)}
<1>1. Good(0)
  <2> DEFINE g == [P \in SUBSET (1 .. 0) |-> base]
  <2>1. g \in [SUBSET (1 .. 0) -> X]
    OBVIOUS
  <2>2. Descends(g, base, step, 0)
    BY DEF Descends
  <2>3. QED BY <2>1, <2>2
<1>2. ASSUME NEW m \in 0 .. n - 1, Good(m) PROVE Good(m + 1)
  <2>1. PICK g \in [SUBSET (1 .. m) -> X] : Descends(g, base, step, m)
    BY <1>2
  <2> DEFINE Under(P) == P \cap (1 .. m)
             h == [P \in SUBSET (1 .. m + 1) |->
                     IF m + 1 \in P THEN step[m + 1][g[P \cap (1 .. m)]] ELSE g[P \cap (1 .. m)]]
  <2>2. \A P \in SUBSET (1 .. m + 1) : Under(P) \in SUBSET (1 .. m) /\ g[Under(P)] \in X
    OBVIOUS
  <2>3. m + 1 \in 1 .. n
    OBVIOUS
  <2>4. \A x \in X : step[m + 1][x] \in X
    BY <2>3
  <2>5. h \in [SUBSET (1 .. m + 1) -> X]
    BY <2>2, <2>4
  <2>6. h[{}] = base
    <3>1. {} \in SUBSET (1 .. m + 1) /\ {} \cap (1 .. m) = {}
      OBVIOUS
    <3>2. QED BY <2>1, <3>1 DEF Descends
  <2>7. ASSUME NEW P \in SUBSET (1 .. m + 1), NEW top \in 1 .. m + 1,
               top \in P, \A i \in P : i <= top
        PROVE  h[P] = step[top][h[P \ {top}]]
    <3>1. P \ {top} \in SUBSET (1 .. m + 1)
      OBVIOUS
    <3>2. CASE top = m + 1
      <4>1. /\ m + 1 \notin P \ {top} /\ (P \ {top}) \cap (1 .. m) = P \cap (1 .. m)
        BY <3>2
      <4>2. h[P \ {top}] = g[P \cap (1 .. m)]
        BY <3>1, <4>1
      <4>3. h[P] = step[m + 1][g[P \cap (1 .. m)]]
        BY <2>7, <3>2
      <4>4. QED BY <3>2, <4>2, <4>3
    <3>3. CASE top # m + 1
      <4>1. top \in 1 .. m /\ m + 1 \notin P /\ m + 1 \notin P \ {top}
        BY <2>7, <3>3
      <4>2. P \in SUBSET (1 .. m) /\ P \ {top} \in SUBSET (1 .. m)
        BY <4>1
      <4>3. P \cap (1 .. m) = P /\ (P \ {top}) \cap (1 .. m) = P \ {top}
        BY <4>2
      <4>4. h[P] = g[P] /\ h[P \ {top}] = g[P \ {top}]
        BY <3>1, <4>1, <4>3
      <4>5. g[P] = step[top][g[P \ {top}]]
        BY <2>1, <2>7, <4>1, <4>2 DEF Descends
      <4>6. QED BY <4>4, <4>5
    <3>4. QED BY <3>2, <3>3
  <2> HIDE DEF h
  <2>8. Descends(h, base, step, m + 1)
    BY <2>6, <2>7 DEF Descends
  <2>9. QED BY <2>5, <2>8
<1>3. 0 \in S /\ \A m \in 0 .. n - 1 : m \in S => m + 1 \in S
  <2> HIDE DEF Good
  <2>1. QED BY <1>1, <1>2
<1>4. n \in S
  <2> HIDE DEF S
  <2>1. \A m \in 0 .. n : m \in S
    BY <1>3, UpTo
  <2>2. QED BY <2>1
<1>5. QED BY <1>4

\* The greatest of some positions is one of them, and none is beyond it.
LEMMA GreatestPosition ==
  ASSUME NEW n \in Nat, NEW P \in SUBSET (1 .. n), P # {}
  PROVE  Max(P) \in P /\ \A i \in P : i <= Max(P)
<1>1. P \in SUBSET Nat /\ n + 1 \in Nat /\ \A i \in P : i \in Nat /\ i < n + 1
  OBVIOUS
<1>2. \E top \in P : \A i \in P : i <= top
  BY <1>1, GreatestNatural
<1>3. \E top \in P : \A i \in P : top >= i
  BY <1>1, <1>2
<1>4. Max(P) \in P /\ \A i \in P : Max(P) >= i
  BY <1>3 DEF Max
<1>5. QED BY <1>1, <1>4

\* Folds take positions from the greatest down.
Unwinds(g, base, step, n) ==
  /\ g[{}] = base
  /\ \A P \in SUBSET (1 .. n) : P # {} =>
       /\ Max(P) \in 1 .. n /\ P \ {Max(P)} \in SUBSET (1 .. n)
       /\ g[P] = step[Max(P)][g[P \ {Max(P)}]]

\* And in the terms of the community modules.
LEMMA FoldSolved ==
  ASSUME NEW X, NEW base \in X, NEW n \in Nat, NEW step \in [1 .. n -> [X -> X]]
  PROVE  \E g \in [SUBSET (1 .. n) -> X] : Unwinds(g, base, step, n)
<1>1. PICK g \in [SUBSET (1 .. n) -> X] : Descends(g, base, step, n)
  BY FoldExists
<1>2. ASSUME NEW P \in SUBSET (1 .. n), P # {}
      PROVE  /\ Max(P) \in 1 .. n /\ P \ {Max(P)} \in SUBSET (1 .. n)
             /\ g[P] = step[Max(P)][g[P \ {Max(P)}]]
  <2>1. Max(P) \in P /\ \A i \in P : i <= Max(P)
    BY <1>2, GreatestPosition
  <2>2. QED BY <1>1, <2>1 DEF Descends
<1>3. QED BY <1>1, <1>2 DEF Descends, Unwinds

UnwindsIn(X, fold, base, step, n) ==
  /\ fold[{}] = base
  /\ \A P \in SUBSET (1 .. n) :
       P # {} /\ fold[P \ {Max(P)}] \in X => fold[P] = step[Max(P)][fold[P \ {Max(P)}]]

IsWalk(w, base, step, n) ==
  w[0] = base /\ \A k \in 1 .. n : w[k] = step[k][w[k - 1]]

WalksTo(X, end, base, step, n) ==
  \E w \in [0 .. n -> X] : IsWalk(w, base, step, n) /\ w[n] = end

\* So a fold is where a walk along the sequence ends.
LEMMA FoldWalk ==
  ASSUME NEW X, NEW base \in X, NEW n \in Nat, NEW step \in [1 .. n -> [X -> X]],
         NEW fold, UnwindsIn(X, fold, base, step, n)
  PROVE  WalksTo(X, fold[1 .. n], base, step, n)
<1>1. ASSUME NEW k \in 1 .. n, fold[1 .. k - 1] \in X
      PROVE  fold[1 .. k] = step[k][fold[1 .. k - 1]]
  <2>1. 1 .. k \in SUBSET (1 .. n) /\ k \in 1 .. k
    OBVIOUS
  <2>2. Max(1 .. k) \in 1 .. k /\ \A i \in 1 .. k : i <= Max(1 .. k)
    BY <2>1, GreatestPosition
  <2>3. Max(1 .. k) = k
    BY <2>1, <2>2
  <2>4. (1 .. k) \ {k} = 1 .. k - 1
    OBVIOUS
  <2>5. QED BY <1>1, <2>1, <2>3, <2>4 DEF UnwindsIn
<1>2. \A k \in 0 .. n : fold[1 .. k] \in X
  <2> DEFINE S == {k \in 0 .. n : fold[1 .. k] \in X}
  <2>1. 0 \in S
    <3>1. 1 .. 0 = {}
      OBVIOUS
    <3>2. QED BY <3>1 DEF UnwindsIn
  <2>2. ASSUME NEW k \in 0 .. n - 1, k \in S PROVE k + 1 \in S
    <3>1. k + 1 \in 1 .. n /\ (k + 1) - 1 = k /\ k + 1 \in 0 .. n
      OBVIOUS
    <3>2. fold[1 .. k + 1] = step[k + 1][fold[1 .. k]]
      BY <1>1, <2>2, <3>1
    <3>3. QED BY <2>2, <3>1, <3>2
  <2>3. \A k \in 0 .. n : k \in S
    <3> HIDE DEF S
    <3>1. QED BY <2>1, <2>2, UpTo
  <2>4. QED BY <2>3
<1> DEFINE w == [k \in 0 .. n |-> fold[1 .. k]]
<1>3. w \in [0 .. n -> X]
  BY <1>2
<1>4. w[0] = base
  <2>1. 1 .. 0 = {}
    OBVIOUS
  <2>2. QED BY <2>1 DEF UnwindsIn
<1>5. \A k \in 1 .. n : w[k] = step[k][w[k - 1]]
  <2>1. \A k \in 1 .. n : k - 1 \in 0 .. n /\ k \in 0 .. n
    OBVIOUS
  <2>2. QED BY <1>1, <1>2, <2>1
<1>6. w[n] = fold[1 .. n]
  OBVIOUS
<1> HIDE DEF w
<1>7. QED BY <1>3, <1>4, <1>5, <1>6 DEF IsWalk, WalksTo
-----------------------------------------------------------------------------
(* Sorting and selecting. *)

\* A key by which a finite set can be sorted.
IsKey(key) ==
  /\ IsFiniteSet(DOMAIN key)
  /\ \A x \in DOMAIN key : key[x] \in Int
  /\ \A x, y \in DOMAIN key : key[x] = key[y] => x = y

\* A sequence that has every element, by increasing key.
Sorts(f, m, key) ==
  /\ f \in [1 .. m -> DOMAIN key]
  /\ \A i, j \in 1 .. m : i < j => key[f[i]] < key[f[j]]
  /\ \A x \in DOMAIN key : \E i \in 1 .. m : f[i] = x

\* Ranks count from 0, grow with the key and so tell elements apart.
LEMMA RankIs ==
  ASSUME NEW key, IsKey(key), NEW x \in DOMAIN key
  PROVE  /\ Cardinality(DOMAIN key) \in Nat
         /\ Rank(key, x) \in 0 .. Cardinality(DOMAIN key) - 1
         /\ \A y \in DOMAIN key : key[x] < key[y] => Rank(key, x) < Rank(key, y)
<1> DEFINE D == DOMAIN key
           Under(y) == {z \in D : key[z] < key[y]}
<1>1. ASSUME NEW y \in D
      PROVE  /\ IsFiniteSet(D) /\ Under(y) \in SUBSET D /\ y \notin Under(y)
             /\ IsFiniteSet(Under(y))
             /\ Cardinality(Under(y)) \in Nat /\ Cardinality(D) \in Nat
             /\ Rank(key, y) = Cardinality(Under(y))
  <2>1. IsFiniteSet(D) /\ Under(y) \in SUBSET D /\ y \notin Under(y)
    BY DEF IsKey
  <2>2. IsFiniteSet(Under(y))
    BY <2>1, FS_Subset
  <2>3. QED BY <2>1, <2>2, FS_CardinalityType DEF Rank
<1> HIDE DEF Under
<1>2. ASSUME NEW S, NEW T, IsFiniteSet(T), S \in SUBSET T, S # T
      PROVE  Cardinality(S) < Cardinality(T)
  <2>1. Cardinality(S) <= Cardinality(T) /\ Cardinality(S) # Cardinality(T)
    BY <1>2, FS_Subset
  <2>2. IsFiniteSet(S)
    BY <1>2, FS_Subset
  <2>3. Cardinality(S) \in Nat /\ Cardinality(T) \in Nat
    BY <1>2, <2>2, FS_CardinalityType
  <2>4. QED BY <2>1, <2>3
<1>3. Cardinality(Under(x)) < Cardinality(D)
  <2>1. IsFiniteSet(D) /\ Under(x) \in SUBSET D /\ Under(x) # D
    BY <1>1
  <2>2. QED BY <1>2, <2>1
<1>4. ASSUME NEW y \in D, key[x] < key[y] PROVE Rank(key, x) < Rank(key, y)
  <2>1. x \in Under(y) /\ x \notin Under(x)
    BY <1>1, <1>4 DEF Under
  <2>2. Under(x) \in SUBSET Under(y)
    BY <1>4 DEF Under, IsKey
  <2>3. Cardinality(Under(x)) < Cardinality(Under(y))
    BY <1>1, <1>2, <2>1, <2>2
  <2>4. QED BY <1>1, <2>3
<1>5. QED BY <1>1, <1>3, <1>4

\* Different elements have different ranks.
LEMMA RankTells ==
  ASSUME NEW key, IsKey(key), NEW x \in DOMAIN key, NEW y \in DOMAIN key,
         Rank(key, x) = Rank(key, y)
  PROVE  x = y
<1>1. ~(key[x] < key[y]) /\ ~(key[y] < key[x])
  <2>1. key[x] < key[y] => Rank(key, x) < Rank(key, y)
    BY RankIs
  <2>2. key[y] < key[x] => Rank(key, y) < Rank(key, x)
    BY RankIs
  <2>3. Rank(key, x) \in Int
    BY RankIs
  <2>4. QED BY <2>1, <2>2, <2>3
<1>2. key[x] \in Int /\ key[y] \in Int
  BY DEF IsKey
<1>3. key[x] = key[y]
  BY <1>1, <1>2
<1>4. QED BY <1>3 DEF IsKey

\* Sorting yields every element, in order.
LEMMA SortedSorts ==
  ASSUME NEW key, IsKey(key)
  PROVE  /\ Cardinality(DOMAIN key) \in Nat
         /\ Sorts(Sorted(key), Cardinality(DOMAIN key), key)
<1> DEFINE D == DOMAIN key
           n == Cardinality(D)
           rank == [x \in D |-> Rank(key, x)]
<1>1. IsFiniteSet(D) /\ n \in Nat
  BY FS_CardinalityType DEF IsKey
<1>2. rank \in Injection(D, 0 .. n - 1)
  <2>1. rank \in [D -> 0 .. n - 1]
    BY RankIs
  <2>2. \A x, y \in D : rank[x] = rank[y] => x = y
    BY RankTells
  <2>3. QED BY <2>1, <2>2 DEF Injection, IsInjective
<1>3. Cardinality(0 .. n - 1) = n
  <2>1. 0 \in Int /\ n - 1 \in Int
    BY <1>1
  <2>2. Cardinality(0 .. n - 1) = IF 0 > n - 1 THEN 0 ELSE (n - 1) - 0 + 1
    BY <2>1, FS_Interval
  <2>3. QED BY <1>1, <2>2
<1>4. rank \in Surjection(D, 0 .. n - 1)
  <2>1. ASSUME NEW S, NEW T, NEW f \in Injection(S, T), IsFiniteSet(S), IsFiniteSet(T),
               Cardinality(S) = Cardinality(T)
        PROVE  f \in Surjection(S, T)
    BY <2>1, FS_Injection
  <2>2. IsFiniteSet(0 .. n - 1)
    <3>1. 0 \in Int /\ n - 1 \in Int
      BY <1>1
    <3>2. QED BY <3>1, FS_Interval
  <2> HIDE DEF rank
  <2>3. IsFiniteSet(D) /\ Cardinality(D) = Cardinality(0 .. n - 1)
    BY <1>1, <1>3
  <2>4. QED BY Zenon, <1>2, <2>1, <2>2, <2>3
<1>5. ASSUME NEW k \in 1 .. n PROVE Sorted(key)[k] \in D /\ Rank(key, Sorted(key)[k]) = k - 1
  <2>1. k - 1 \in 0 .. n - 1
    BY <1>1
  <2>2. \E x \in D : Rank(key, x) = k - 1
    BY <1>4, <2>1 DEF Surjection
  <2>3. Sorted(key)[k] = CHOOSE x \in D : Rank(key, x) = k - 1
    BY DEF Sorted
  <2>4. QED BY <2>2, <2>3
<1>6. Sorted(key) \in [1 .. n -> D]
  <2>1. Sorted(key) = [k \in 1 .. n |-> CHOOSE x \in D : Rank(key, x) = k - 1]
    BY DEF Sorted
  <2>2. QED BY <1>5, <2>1
<1> HIDE DEF n
<1>7. ASSUME NEW i \in 1 .. n, NEW j \in 1 .. n, i < j
      PROVE  key[Sorted(key)[i]] < key[Sorted(key)[j]]
  <2> DEFINE x == Sorted(key)[i]
             y == Sorted(key)[j]
  <2>1. x \in D /\ y \in D /\ Rank(key, x) = i - 1 /\ Rank(key, y) = j - 1
    BY <1>5
  <2> HIDE DEF x, y
  <2>2. x # y /\ ~(Rank(key, y) < Rank(key, x))
    BY <1>7, <2>1
  <2>3. ~(key[y] < key[x]) /\ key[x] \in Int /\ key[y] \in Int
    BY <2>1, <2>2, RankIs DEF IsKey
  <2>4. key[x] # key[y]
    BY <2>1, <2>2 DEF IsKey
  <2>5. key[x] < key[y]
    BY <2>3, <2>4
  <2>6. QED BY <2>5 DEF x, y
<1>8. ASSUME NEW x \in D PROVE \E i \in 1 .. n : Sorted(key)[i] = x
  <2>1. Rank(key, x) \in 0 .. n - 1
    BY RankIs DEF n
  <2>2. Rank(key, x) + 1 \in 1 .. n /\ (Rank(key, x) + 1) - 1 = Rank(key, x)
    BY <1>1, <2>1 DEF n
  <2>3. /\ Sorted(key)[Rank(key, x) + 1] \in D
        /\ Rank(key, Sorted(key)[Rank(key, x) + 1]) = Rank(key, x)
    BY <1>5, <2>2
  <2>4. Sorted(key)[Rank(key, x) + 1] = x
    BY <2>3, RankTells
  <2>5. QED BY <2>2, <2>4
<1>9. QED BY <1>1, <1>6, <1>7, <1>8 DEF Sorts, n

\* The first n positions are the one set of n elements that a walk from 1 counts.
LEMMA CountsTo ==
  ASSUME NEW n \in Nat, NEW T, NEW f \in [1 .. n -> T],
         \A i, j \in 1 .. n : f[i] = f[j] => i = j,
         \A x \in T : \E i \in 1 .. n : f[i] = x
  PROVE  IsFiniteSet(T) /\ Cardinality(T) = n
<1>1. f \in Bijection(1 .. n, T)
  BY DEF Bijection, Injection, Surjection, IsInjective
<1>2. ExistsBijection(1 .. n, T)
  BY <1>1 DEF ExistsBijection
<1>3. QED BY <1>2, FS_CountingElements, FS_NatBijection

\* What stands in place i has rank i - 1, in any sequence that sorts.
LEMMA RankOfPlace ==
  ASSUME NEW key, IsKey(key), NEW m \in Nat, NEW f, Sorts(f, m, key)
  PROVE  m = Cardinality(DOMAIN key) /\ \A i \in 1 .. m : Rank(key, f[i]) = i - 1
<1> DEFINE D == DOMAIN key
<1>1. ASSUME NEW i \in 1 .. m, NEW j \in 1 .. m PROVE f[i] = f[j] => i = j
  <2>1. f[i] \in D /\ f[j] \in D /\ key[f[i]] \in Int /\ key[f[j]] \in Int
    BY DEF Sorts, IsKey
  <2>2. (i < j => key[f[i]] < key[f[j]]) /\ (j < i => key[f[j]] < key[f[i]])
    BY DEF Sorts
  <2>3. i < j => f[i] # f[j]
    BY <2>1, <2>2
  <2>4. j < i => f[i] # f[j]
    BY <2>1, <2>2
  <2>5. QED BY <2>3, <2>4
<1>2. Cardinality(D) = m
  <2>1. f \in [1 .. m -> D] /\ \A x \in D : \E i \in 1 .. m : f[i] = x
    BY DEF Sorts
  <2>2. QED BY <1>1, <2>1, CountsTo
<1>3. ASSUME NEW i \in 1 .. m PROVE Rank(key, f[i]) = i - 1
  <2> DEFINE U == {y \in D : key[y] < key[f[i]]}
             g == [j \in 1 .. i - 1 |-> f[j]]
  <2>1. \A j \in 1 .. i - 1 : j \in 1 .. m /\ f[j] \in U
    BY DEF Sorts
  <2>2. g \in [1 .. i - 1 -> U]
    BY <2>1
  <2>3. \A j, k \in 1 .. i - 1 : g[j] = g[k] => j = k
    BY <1>1, <2>1
  <2>4. ASSUME NEW y \in U PROVE \E j \in 1 .. i - 1 : g[j] = y
    <3>1. PICK j \in 1 .. m : f[j] = y
      BY DEF Sorts
    <3>2. key[y] \in Int /\ key[f[i]] \in Int /\ key[y] < key[f[i]]
      BY DEF Sorts, IsKey
    <3>3. ~(i < j)
      BY <3>1, <3>2 DEF Sorts
    <3>4. i # j
      BY <3>1, <3>2
    <3>5. j \in 1 .. i - 1
      BY <3>3, <3>4
    <3>6. QED BY <3>1, <3>5
  <2>5. i - 1 \in Nat
    OBVIOUS
  <2> HIDE DEF U, g
  <2>6. Cardinality(U) = i - 1
    BY <2>2, <2>3, <2>4, <2>5, CountsTo
  <2>7. QED BY <2>6 DEF U, Rank
<1>4. QED BY <1>2, <1>3

\* There is one way to sort.
LEMMA SortsAlike ==
  ASSUME NEW key, IsKey(key), NEW m \in Nat, NEW f, Sorts(f, m, key)
  PROVE  m = Cardinality(DOMAIN key) /\ f = Sorted(key)
<1> DEFINE n == Cardinality(DOMAIN key)
<1>1. n \in Nat /\ Sorts(Sorted(key), n, key)
  BY SortedSorts
<1> HIDE DEF n
<1>2. m = n /\ \A i \in 1 .. m : Rank(key, f[i]) = i - 1
  BY RankOfPlace DEF n
<1>3. \A i \in 1 .. n : Rank(key, Sorted(key)[i]) = i - 1
  BY <1>1, RankOfPlace
<1>4. \A i \in 1 .. n : f[i] \in DOMAIN key /\ Sorted(key)[i] \in DOMAIN key
  BY <1>1, <1>2 DEF Sorts
<1>5. \A i \in 1 .. n : f[i] = Sorted(key)[i]
  BY <1>2, <1>3, <1>4, RankTells
<1>6. f \in [1 .. n -> DOMAIN key] /\ Sorted(key) \in [1 .. n -> DOMAIN key]
  BY <1>1, <1>2 DEF Sorts
<1> DEFINE g == Sorted(key)
<1>7. /\ f = [i \in 1 .. n |-> f[i]]
      /\ g = [i \in 1 .. n |-> g[i]]
      /\ \A i \in 1 .. n : f[i] = g[i]
  <2> HIDE DEF g
  <2>1. f \in [1 .. n -> DOMAIN key]
    BY <1>6
  <2>2. g \in [1 .. n -> DOMAIN key]
    BY <1>6 DEF g
  <2>3. \A i \in 1 .. n : f[i] = g[i]
    BY <1>5 DEF g
  <2>4. QED BY <2>1, <2>2, <2>3
<1>8. f = g
  <2> HIDE DEF g
  <2>1. QED BY <1>7
<1>9. QED BY <1>2, <1>8 DEF n
-----------------------------------------------------------------------------
(* Positions. *)

\* All of a set of numbers, increasing.
Lists(f, m, at) ==
  /\ f \in [1 .. m -> at]
  /\ \A i, j \in 1 .. m : i < j => f[i] < f[j]
  /\ \A x \in at : \E i \in 1 .. m : f[i] = x

\* Numbers are listed in one way.
LEMMA InOrderLists ==
  ASSUME NEW at \in SUBSET Int, IsFiniteSet(at)
  PROVE  /\ Cardinality(at) \in Nat
         /\ Lists(InOrder(at), Cardinality(at), at)
         /\ \A m \in Nat : \A f : Lists(f, m, at) => m = Cardinality(at) /\ f = InOrder(at)
<1> DEFINE key == [i \in at |-> i]
<1>1. IsKey(key) /\ DOMAIN key = at
  BY DEF IsKey
<1>2. \A m, f : Lists(f, m, at) <=> Sorts(f, m, key)
  <2> SUFFICES ASSUME NEW m, NEW f PROVE Lists(f, m, at) <=> Sorts(f, m, key)
    OBVIOUS
  <2>1. ASSUME f \in [1 .. m -> at]
        PROVE  \A i \in 1 .. m : key[f[i]] = f[i]
    BY <2>1
  <2>2. QED BY <2>1 DEF Lists, Sorts
<1> HIDE DEF key
<1>3. Cardinality(at) \in Nat /\ Sorts(Sorted(key), Cardinality(at), key)
  BY <1>1, SortedSorts
<1>4. \A m \in Nat : \A f : Sorts(f, m, key) => m = Cardinality(at) /\ f = Sorted(key)
  BY <1>1, SortsAlike
<1>5. InOrder(at) = Sorted(key)
  BY DEF InOrder, key
<1>6. QED BY <1>2, <1>3, <1>4, <1>5

\* What was picked, and from where.
LEMMA PickedIs ==
  ASSUME NEW seq, NEW at \in SUBSET Int, IsFiniteSet(at)
  PROVE  /\ Cardinality(at) \in Nat
         /\ DOMAIN Picked(seq, at) = 1 .. Cardinality(at)
         /\ Picked(seq, at) = [k \in 1 .. Cardinality(at) |-> seq[InOrder(at)[k]]]
         /\ \A k \in 1 .. Cardinality(at) : InOrder(at)[k] \in at
         /\ \A i \in at : \E k \in 1 .. Cardinality(at) : InOrder(at)[k] = i
<1>1. Cardinality(at) \in Nat /\ Lists(InOrder(at), Cardinality(at), at)
  BY InOrderLists
<1>2. Picked(seq, at) = [k \in 1 .. Cardinality(at) |-> seq[InOrder(at)[k]]]
  BY DEF Picked, InOrder
<1>3. QED BY <1>1, <1>2 DEF Lists

\* To pick from what was picked is to pick from the whole.
LEMMA PickedTwice ==
  ASSUME NEW seq, NEW at \in SUBSET Int, IsFiniteSet(at),
         NEW among \in SUBSET (1 .. Cardinality(at)),
         NEW both, both = {InOrder(at)[k] : k \in among}
  PROVE  Picked(Picked(seq, at), among) = Picked(seq, both)
<1> DEFINE n == Cardinality(at)
           m == Cardinality(among)
           f == [k \in 1 .. m |-> InOrder(at)[InOrder(among)[k]]]
<1>1. /\ n \in Nat /\ Lists(InOrder(at), n, at)
      /\ Picked(seq, at) = [k \in 1 .. n |-> seq[InOrder(at)[k]]]
  BY InOrderLists, PickedIs
<1>2. among \in SUBSET Int /\ IsFiniteSet(among)
  <2>1. IsFiniteSet(1 .. n) /\ 1 .. n \in SUBSET Int
    BY <1>1, FS_Interval
  <2>2. QED BY <2>1, FS_Subset
<1>3. m \in Nat /\ Lists(InOrder(among), m, among)
  BY <1>2, InOrderLists
<1>4. among \in SUBSET (1 .. n)
  OBVIOUS
<1>5. Picked(Picked(seq, at), among) = [k \in 1 .. m |-> Picked(seq, at)[InOrder(among)[k]]]
  BY <1>2, PickedIs
<1>6. both \in SUBSET at
  BY <1>1, <1>4 DEF Lists
<1> HIDE DEF n, m
<1>7. Lists(f, m, both)
  <2>1. \A k \in 1 .. m : InOrder(among)[k] \in among /\ InOrder(among)[k] \in 1 .. n
    BY <1>3, <1>4 DEF Lists
  <2>2. f \in [1 .. m -> both]
    BY <2>1
  <2>3. ASSUME NEW i \in 1 .. m, NEW j \in 1 .. m, i < j PROVE f[i] < f[j]
    <3>1. InOrder(among)[i] < InOrder(among)[j]
      BY <1>3, <2>3 DEF Lists
    <3>2. InOrder(at)[InOrder(among)[i]] < InOrder(at)[InOrder(among)[j]]
      BY <1>1, <2>1, <3>1 DEF Lists
    <3>3. QED BY <3>2
  <2>4. ASSUME NEW x \in both PROVE \E i \in 1 .. m : f[i] = x
    <3>1. PICK k \in among : x = InOrder(at)[k]
      OBVIOUS
    <3>2. PICK i \in 1 .. m : InOrder(among)[i] = k
      BY <1>3 DEF Lists
    <3>3. QED BY <3>1, <3>2
  <2> HIDE DEF f
  <2>5. QED BY <2>2, <2>3, <2>4 DEF Lists
<1> HIDE DEF f
<1>8. m = Cardinality(both) /\ f = InOrder(both)
  <2>1. both \in SUBSET Int /\ IsFiniteSet(both)
    BY <1>6, FS_Subset
  <2>2. QED BY <1>3, <1>7, <2>1, InOrderLists
<1>9. Picked(seq, both) = [k \in 1 .. m |-> seq[f[k]]]
  <2>1. both \in SUBSET Int /\ IsFiniteSet(both)
    BY <1>6, FS_Subset
  <2>2. Picked(seq, both) = [k \in 1 .. Cardinality(both) |-> seq[InOrder(both)[k]]]
    BY <2>1, PickedIs
  <2>3. QED BY Zenon, <1>8, <2>2
<1>10. ASSUME NEW k \in 1 .. m PROVE Picked(seq, at)[InOrder(among)[k]] = seq[f[k]]
  <2>1. InOrder(among)[k] \in 1 .. n
    BY <1>3, <1>4 DEF Lists
  <2>2. QED BY <1>1, <2>1 DEF f
<1>11. QED BY <1>5, <1>9, <1>10

\* Where every step leads from values of a type to values of it, there is a walk.
LEMMA WalkExists ==
  ASSUME NEW X, NEW base \in X, NEW n \in Nat, NEW step \in [1 .. n -> [X -> X]]
  PROVE  \E w \in [0 .. n -> X] : IsWalk(w, base, step, n)
<1>1. PICK g \in [SUBSET (1 .. n) -> X] : Unwinds(g, base, step, n)
  BY FoldSolved
<1>2. UnwindsIn(X, g, base, step, n)
  BY <1>1 DEF Unwinds, UnwindsIn
<1>3. WalksTo(X, g[1 .. n], base, step, n)
  BY <1>2, FoldWalk
<1>4. QED BY <1>3 DEF WalksTo
-----------------------------------------------------------------------------
(* Sequences. *)

\* Sequences are functions on their positions.
LEMMA LenIs ==
  ASSUME NEW S, NEW n \in Nat, NEW s \in [1 .. n -> S]
  PROVE  s \in Seq(S) /\ Len(s) = n
<1>1. s \in Seq(S)
  BY SeqDef
<1>2. Len(s) \in Nat /\ DOMAIN s = 1 .. Len(s)
  BY <1>1, LenProperties
<1>3. DOMAIN s = 1 .. n
  OBVIOUS
<1>4. Len(s) = n
  BY <1>2, <1>3
<1>5. QED BY <1>1, <1>4

\* Positions are finitely many numbers.
LEMMA SomePositions ==
  ASSUME NEW n \in Nat, NEW at \in SUBSET (1 .. n)
  PROVE  at \in SUBSET Int /\ IsFiniteSet(at)
<1>1. IsFiniteSet(1 .. n) /\ 1 .. n \in SUBSET Int
  BY FS_Interval
<1>2. QED BY <1>1, FS_Subset

\* As many elements are picked as there are positions.
LEMMA PickedLen ==
  ASSUME NEW n \in Nat, NEW at \in SUBSET (1 .. n), NEW seq
  PROVE  /\ Cardinality(at) \in Nat /\ Len(Picked(seq, at)) = Cardinality(at)
         /\ DOMAIN Picked(seq, at) = 1 .. Cardinality(at)
<1> DEFINE m == Cardinality(at)
           p == Picked(seq, at)
<1>1. at \in SUBSET Int /\ IsFiniteSet(at)
  BY SomePositions
<1>2. m \in Nat /\ p = [k \in 1 .. m |-> seq[InOrder(at)[k]]]
  BY <1>1, PickedIs
<1> HIDE DEF m, p
<1>3. p \in [1 .. m -> {p[k] : k \in 1 .. m}]
  BY <1>2
<1>4. Len(p) = m
  BY <1>2, <1>3, LenIs
<1>5. QED BY <1>2, <1>4 DEF m, p

\* A sequence with one more element.
LEMMA AppendIs ==
  ASSUME NEW S, NEW seq \in Seq(S), NEW s \in S
  PROVE  /\ Append(seq, s) \in Seq(S) /\ Len(Append(seq, s)) = Len(seq) + 1
         /\ \A i \in 1 .. Len(seq) : Append(seq, s)[i] = seq[i]
         /\ Append(seq, s)[Len(seq) + 1] = s
OBVIOUS

\* Two sequences one after the other.
Concatenates(x, y, xy) ==
  /\ Len(x) \in Nat /\ Len(y) \in Nat /\ Len(xy) = Len(x) + Len(y)
  /\ \A i \in 1 .. Len(x) : xy[i] = x[i]
  /\ \A i \in 1 .. Len(y) : xy[Len(x) + i] = y[i]

\* One sequence after another.
LEMMA ConcatIs ==
  ASSUME NEW S, NEW x \in Seq(S), NEW y \in Seq(S), NEW xy, xy = x \o y
  PROVE  Concatenates(x, y, xy)
<1>1. /\ Len(x) \in Nat /\ Len(y) \in Nat /\ Len(x \o y) = Len(x) + Len(y)
      /\ \A i \in 1 .. Len(x) : (x \o y)[i] = x[i]
      /\ \A i \in 1 .. Len(y) : (x \o y)[Len(x) + i] = y[i]
  OBVIOUS
<1>2. Concatenates(x, y, x \o y)
  BY <1>1 DEF Concatenates
<1>3. QED BY <1>2

\* The walk along sequences that appends each of them.
Joins(w, seqs, n) == w[0] = <<>> /\ \A k \in 1 .. n : w[k] = w[k - 1] \o seqs[k]

\* Flattening adds one sequence after another.
LEMMA FlattenWalks ==
  ASSUME NEW S, NEW n \in Nat, NEW seqs \in [1 .. n -> Seq(S)]
  PROVE  \E w \in [0 .. n -> Seq(S)] : Joins(w, seqs, n) /\ FlattenSeq(seqs) = w[n]
<1> DEFINE step == [i \in 1 .. n |-> [x \in Seq(S) |-> x \o seqs[i]]]
<1>1. Len(seqs) = n /\ (n = 0 => seqs = <<>>)
  OBVIOUS
<1>2. PICK w \in [0 .. n -> Seq(S)] : IsWalk(w, <<>>, step, n)
  <2>1. <<>> \in Seq(S) /\ step \in [1 .. n -> [Seq(S) -> Seq(S)]]
    OBVIOUS
  <2> HIDE DEF step
  <2>2. QED BY <2>1, WalkExists
<1>3. w[0] = <<>> /\ \A k \in 1 .. n : w[k] = w[k - 1] \o seqs[k]
  <2>1. \A k \in 1 .. n : w[k - 1] \in Seq(S)
    OBVIOUS
  <2>2. QED BY <1>2, <2>1 DEF IsWalk
<1>4. Joins(w, seqs, n)
  BY <1>3 DEF Joins
<1>5. CASE n = 0
  BY <1>1, <1>3, <1>4, <1>5 DEF FlattenSeq
<1>6. CASE n # 0
  <2> DEFINE f == [i \in 1 .. n |-> w[i]]
             flatten == CHOOSE g : g = [i \in 1 .. n |->
               IF i = 1 THEN seqs[i] ELSE g[i - 1] \o seqs[i]]
  <2>1. f = [i \in 1 .. n |-> IF i = 1 THEN seqs[i] ELSE f[i - 1] \o seqs[i]]
    <3>1. ASSUME NEW i \in 1 .. n, i = 1 PROVE w[i] = seqs[i]
      <4>1. w[i] = w[0] \o seqs[i] /\ seqs[i] \in Seq(S)
        <5>1. i - 1 = 0
          BY <3>1
        <5>2. QED BY <1>3, <5>1
      <4>2. QED BY <1>3, <4>1
    <3>2. ASSUME NEW i \in 1 .. n, i # 1 PROVE w[i] = f[i - 1] \o seqs[i]
      <4>1. i - 1 \in 1 .. n
        BY <3>2
      <4>2. f[i - 1] = w[i - 1]
        BY <4>1
      <4>3. QED BY <1>3, <4>2
    <3>3. QED BY <3>1, <3>2
  <2> HIDE DEF f
  <2>2. flatten = [i \in 1 .. n |-> IF i = 1 THEN seqs[i] ELSE flatten[i - 1] \o seqs[i]]
    BY <2>1
  <2> HIDE DEF flatten
  <2> DEFINE v == [k \in 0 .. n |-> IF k = 0 THEN <<>> ELSE flatten[k]]
  <2>3. \A k \in 1 .. n : v[k - 1] = w[k - 1] => v[k] = w[k]
    <3> SUFFICES ASSUME NEW k \in 1 .. n, v[k - 1] = w[k - 1] PROVE v[k] = w[k]
      OBVIOUS
    <3>1. CASE k = 1
      <4>1. flatten[k] = seqs[k] /\ seqs[k] \in Seq(S)
        BY <2>2, <3>1
      <4>2. w[k] = w[0] \o seqs[k]
        <5>1. k - 1 = 0
          BY <3>1
        <5>2. QED BY <1>3, <5>1
      <4>3. v[k] = flatten[k]
        BY <3>1
      <4>4. QED BY <1>3, <4>1, <4>2, <4>3
    <3>2. CASE k # 1
      <4>1. flatten[k] = flatten[k - 1] \o seqs[k]
        BY <2>2, <3>2
      <4>2. v[k - 1] = flatten[k - 1] /\ v[k] = flatten[k]
        BY <3>2
      <4>3. QED BY <1>3, <4>1, <4>2
    <3>3. QED BY <3>1, <3>2
  <2>4. v[0] = w[0]
    BY <1>3
  <2> HIDE DEF v
  <2>5. v[n] = w[n]
    <3> DEFINE T == {k \in 0 .. n : v[k] = w[k]}
    <3>1. 0 \in T
      BY <2>4
    <3>2. ASSUME NEW i \in 0 .. n - 1, i \in T PROVE i + 1 \in T
      <4>1. i + 1 \in 1 .. n /\ (i + 1) - 1 = i /\ i + 1 \in 0 .. n
        OBVIOUS
      <4>2. QED BY <2>3, <3>2, <4>1
    <3>3. n \in T
      <4> HIDE DEF T
      <4>1. \A k \in 0 .. n : k \in T
        BY <3>1, <3>2, UpTo
      <4>2. n \in 0 .. n
        OBVIOUS
      <4>3. QED BY <4>1, <4>2
    <3>4. QED BY <3>3
  <2>6. v[n] = flatten[n]
    BY <1>6 DEF v
  <2>7. FlattenSeq(seqs) = flatten[n]
    BY <1>1, <1>6 DEF FlattenSeq, flatten
  <2>8. QED BY <1>4, <2>5, <2>6, <2>7
<1>7. QED BY <1>5, <1>6

\* What is in sequences one after the other.
LEMMA FlattenHasAll ==
  ASSUME NEW S, NEW n \in Nat, NEW seqs \in [1 .. n -> Seq(S)]
  PROVE  /\ FlattenSeq(seqs) \in Seq(S)
         /\ \A x : x \in Range(FlattenSeq(seqs)) <=> \E k \in 1 .. n : x \in Range(seqs[k])
<1>1. PICK w \in [0 .. n -> Seq(S)] : Joins(w, seqs, n) /\ FlattenSeq(seqs) = w[n]
  BY FlattenWalks
<1>2. w[0] = <<>> /\ \A k \in 1 .. n : w[k] = w[k - 1] \o seqs[k]
  BY <1>1 DEF Joins
<1> DEFINE Good(k) == \A x : x \in Range(w[k]) <=> \E j \in 1 .. k : x \in Range(seqs[j])
           T == {k \in 0 .. n : Good(k)}
<1>3. 0 \in T
  BY <1>2 DEF Range
<1>4. ASSUME NEW i \in 0 .. n - 1, i \in T PROVE i + 1 \in T
  <2> DEFINE k == i + 1
  <2>1. k \in 1 .. n /\ k - 1 = i /\ k \in 0 .. n /\ i \in 0 .. n
    OBVIOUS
  <2>2. w[i] \in Seq(S) /\ seqs[k] \in Seq(S) /\ w[k] = w[i] \o seqs[k]
    <3>1. w[k] = w[k - 1] \o seqs[k]
      BY <1>2, <2>1
    <3>2. QED BY <2>1, <3>1
  <2>3. Good(i)
    BY <1>4
  <2> HIDE DEF k
  <2>4. \A x : x \in Range(w[k]) <=> x \in Range(w[i]) \/ x \in Range(seqs[k])
    <3>1. \A x, y \in Seq(S) : Range(x \o y) = Range(x) \cup Range(y)
      <4> SUFFICES ASSUME NEW x \in Seq(S), NEW y \in Seq(S)
                   PROVE  Range(x \o y) = Range(x) \cup Range(y)
        OBVIOUS
      <4>1. /\ DOMAIN (x \o y) = 1 .. Len(x) + Len(y)
            /\ DOMAIN x = 1 .. Len(x) /\ DOMAIN y = 1 .. Len(y)
            /\ Len(x) \in Nat /\ Len(y) \in Nat
            /\ \A j \in 1 .. Len(x) : (x \o y)[j] = x[j]
            /\ \A j \in 1 .. Len(y) : (x \o y)[Len(x) + j] = y[j]
        OBVIOUS
      <4> DEFINE xy == x \o y
                 m == Len(x)
                 l == Len(y)
      <4> HIDE DEF xy, m, l
      <4>2. /\ DOMAIN xy = 1 .. m + l /\ DOMAIN x = 1 .. m /\ DOMAIN y = 1 .. l
            /\ m \in Nat /\ l \in Nat
            /\ \A j \in 1 .. m : xy[j] = x[j]
            /\ \A j \in 1 .. l : xy[m + j] = y[j]
        BY <4>1 DEF xy, m, l
      <4>3. ASSUME NEW j \in 1 .. m + l
            PROVE  xy[j] \in {x[u] : u \in 1 .. m} \cup {y[u] : u \in 1 .. l}
        <5>1. CASE j <= m
          BY <4>2, <5>1
        <5>2. CASE m < j
          <6>1. j - m \in 1 .. l /\ m + (j - m) = j
            BY <4>2, <5>2
          <6>2. QED BY <4>2, <6>1
        <5>3. QED BY <4>2, <5>1, <5>2
      <4>4. ASSUME NEW u \in 1 .. m PROVE u \in 1 .. m + l /\ xy[u] = x[u]
        BY <4>2
      <4>5. ASSUME NEW u \in 1 .. l PROVE m + u \in 1 .. m + l /\ xy[m + u] = y[u]
        BY <4>2
      <4>6. {xy[j] : j \in 1 .. m + l} = {x[u] : u \in 1 .. m} \cup {y[u] : u \in 1 .. l}
        <5>1. \A j \in 1 .. m + l : xy[j] \in {x[u] : u \in 1 .. m} \cup {y[u] : u \in 1 .. l}
          BY <4>3
        <5>2. \A u \in 1 .. m : x[u] \in {xy[j] : j \in 1 .. m + l}
          BY <4>4
        <5>3. \A u \in 1 .. l : y[u] \in {xy[j] : j \in 1 .. m + l}
          BY <4>5
        <5> DEFINE XY == 1 .. m + l
                   XS == 1 .. m
                   YS == 1 .. l
        <5>4. /\ \A j \in XY : xy[j] \in {x[u] : u \in XS} \cup {y[u] : u \in YS}
              /\ \A u \in XS : x[u] \in {xy[j] : j \in XY}
              /\ \A u \in YS : y[u] \in {xy[j] : j \in XY}
          BY <5>1, <5>2, <5>3
        <5> HIDE DEF XY, XS, YS
        <5>5. {xy[j] : j \in XY} = {x[u] : u \in XS} \cup {y[u] : u \in YS}
          BY <5>4
        <5>6. QED BY <5>5 DEF XY, XS, YS
      <4>7. Range(xy) = Range(x) \cup Range(y)
        BY <4>2, <4>6 DEF Range
      <4>8. QED BY <4>7 DEF xy
    <3>2. QED BY <2>2, <3>1
  <2>5. \A j : j \in 1 .. k <=> j \in 1 .. i \/ j = k
    BY <2>1
  <2>6. Good(k)
    BY <2>3, <2>4, <2>5
  <2>7. QED BY <2>1, <2>6 DEF k
<1>5. Good(n)
  <2>1. \A k \in 0 .. n : k \in T
    <3> HIDE DEF T
    <3>1. QED BY <1>3, <1>4, UpTo
  <2>2. n \in 0 .. n
    OBVIOUS
  <2>3. QED BY <2>1, <2>2
<1>6. QED BY <1>1, <1>5

\* Where sequences start that are laid end to end.
StartsAt(o, seqs, n) ==
  /\ o \in [0 .. n -> Nat] /\ o[0] = 0
  /\ \A k \in 1 .. n : o[k] = o[k - 1] + Len(seqs[k])

\* Each of them has a start.
LEMMA StartsExist ==
  ASSUME NEW n \in Nat, NEW seqs, \A k \in 1 .. n : Len(seqs[k]) \in Nat
  PROVE  \E o : StartsAt(o, seqs, n)
<1> DEFINE step == [i \in 1 .. n |-> [x \in Nat |-> x + Len(seqs[i])]]
<1>1. 0 \in Nat /\ step \in [1 .. n -> [Nat -> Nat]]
  OBVIOUS
<1> HIDE DEF step
<1>2. PICK o \in [0 .. n -> Nat] : IsWalk(o, 0, step, n)
  BY <1>1, WalkExists
<1>3. \A k \in 1 .. n : o[k] = o[k - 1] + Len(seqs[k])
  <2>1. \A k \in 1 .. n : o[k - 1] \in Nat
    BY <1>2
  <2>2. QED BY <1>2, <2>1 DEF IsWalk, step
<1>4. StartsAt(o, seqs, n)
  BY <1>2, <1>3 DEF StartsAt, IsWalk
<1>5. QED BY <1>4

StartsTo(some, k, end) == \E u : StartsAt(u, some, k) /\ u[k] = end

\* The first of them start where they all do.
LEMMA StartsShort ==
  ASSUME NEW n \in Nat, NEW seqs, NEW o, StartsAt(o, seqs, n), NEW k \in 0 .. n,
         NEW some, \A i \in 1 .. k : some[i] = seqs[i]
  PROVE  StartsTo(some, k, o[k])
<1> DEFINE u == [i \in 0 .. k |-> o[i]]
<1>1. \A i \in 0 .. k : i \in 0 .. n /\ u[i] = o[i] /\ o[i] \in Nat
  BY DEF StartsAt
<1>2. \A i \in 1 .. k : i \in 1 .. n /\ i - 1 \in 0 .. k
  OBVIOUS
<1>3. u \in [0 .. k -> Nat]
  BY <1>1
<1>4. 0 \in 0 .. k /\ k \in 0 .. k /\ \A i \in 1 .. k : i \in 0 .. k
  OBVIOUS
<1> HIDE DEF u
<1>5. u[0] = 0 /\ \A i \in 1 .. k : u[i] = u[i - 1] + Len(some[i])
  BY <1>1, <1>2, <1>4 DEF StartsAt
<1>6. StartsAt(u, some, k) /\ u[k] = o[k]
  BY <1>1, <1>3, <1>4, <1>5 DEF StartsAt
<1>7. QED BY <1>6 DEF StartsTo
-----------------------------------------------------------------------------
(* Orders that are given by what comes before an element. *)

TotalOrder(S, under) ==
  /\ IsFiniteSet(S) /\ under \in [S -> SUBSET S]
  /\ \A x \in S : x \notin under[x]
  /\ \A x, y, z \in S : x \in under[y] /\ y \in under[z] => x \in under[z]
  /\ \A x, y \in S : x = y \/ x \in under[y] \/ y \in under[x]

CountsUnder(S, under) == [x \in S |-> Cardinality(under[x])]

\* Counting what comes before makes a key of the order.
LEMMA CountsAreKey ==
  ASSUME NEW S, NEW under, TotalOrder(S, under), NEW key, key = CountsUnder(S, under)
  PROVE  /\ IsKey(key) /\ DOMAIN key = S
         /\ \A x, y \in S : x \in under[y] <=> key[x] < key[y]
<1>1. \A x \in S : under[x] \in SUBSET S /\ IsFiniteSet(under[x]) /\ Cardinality(under[x]) \in Nat
  BY FS_Subset, FS_CardinalityType DEF TotalOrder
<1>2. DOMAIN key = S /\ \A x \in S : key[x] = Cardinality(under[x])
  BY DEF CountsUnder
<1>3. ASSUME NEW x \in S, NEW y \in S, x \in under[y] PROVE key[x] < key[y]
  <2> DEFINE T == under[x]
             U == under[y]
  <2>1. T \subseteq U /\ T # U
    BY <1>1, <1>3 DEF TotalOrder
  <2>2. IsFiniteSet(T) /\ IsFiniteSet(U) /\ key[x] = Cardinality(T) /\ key[y] = Cardinality(U)
    BY <1>1, <1>2
  <2> HIDE DEF T, U
  <2>3. Cardinality(T) \in Nat /\ Cardinality(U) \in Nat
    BY <2>2, FS_CardinalityType
  <2>4. Cardinality(T) <= Cardinality(U) /\ (Cardinality(T) = Cardinality(U) => T = U)
    BY <2>1, <2>2, FS_Subset
  <2>5. QED BY <2>1, <2>2, <2>3, <2>4
<1>4. \A x \in S : key[x] \in Int
  BY <1>1, <1>2
<1>5. ASSUME NEW x \in S, NEW y \in S, key[x] < key[y] PROVE x \in under[y]
  <2> DEFINE p == key[x]
             q == key[y]
  <2>1. p \in Int /\ q \in Int /\ p < q
    BY <1>4, <1>5
  <2> HIDE DEF p, q
  <2>2. p # q /\ ~(q < p)
    BY <2>1
  <2>3. x # y /\ ~(y \in under[x])
    BY <1>3, <2>2 DEF p, q
  <2>4. QED BY <2>3 DEF TotalOrder
<1>6. ASSUME NEW x \in S, NEW y \in S, key[x] = key[y] PROVE x = y
  <2> DEFINE p == key[x]
             q == key[y]
  <2>1. p \in Int /\ q \in Int /\ p = q
    BY <1>4, <1>6
  <2> HIDE DEF p, q
  <2>2. ~(p < q) /\ ~(q < p)
    BY <2>1
  <2>3. ~(x \in under[y]) /\ ~(y \in under[x])
    BY <1>3, <2>2 DEF p, q
  <2>4. QED BY <2>3 DEF TotalOrder
<1>7. IsKey(key)
  BY <1>2, <1>4, <1>6 DEF IsKey, TotalOrder
<1>8. QED BY <1>2, <1>3, <1>5, <1>7

\* All of a set, each element once and after those before it.
InRank(f, n, S, under) ==
  /\ n \in Nat /\ f \in [1 .. n -> S]
  /\ \A i, j \in 1 .. n : i < j => f[i] \in under[f[j]]
  /\ \A x \in S : \E i \in 1 .. n : f[i] = x

\* Sorting by such an order puts the set in it.
LEMMA SortedIsOrdered ==
  ASSUME NEW S, NEW under, TotalOrder(S, under), NEW f, f = Sorted(CountsUnder(S, under))
  PROVE  InRank(f, Cardinality(S), S, under)
<1> DEFINE key == CountsUnder(S, under)
           n == Cardinality(S)
<1>1. /\ IsKey(key) /\ DOMAIN key = S
      /\ \A x, y \in S : x \in under[y] <=> key[x] < key[y]
  BY CountsAreKey
<1>2. f = Sorted(key)
  OBVIOUS
<1> HIDE DEF key
<1>3. n \in Nat /\ Sorts(f, n, key)
  BY <1>1, <1>2, SortedSorts
<1> HIDE DEF n
<1>4. InRank(f, n, S, under)
  BY <1>1, <1>3 DEF Sorts, InRank
<1>5. QED BY <1>4 DEF n

\* What orders a set is its sorting, and what stands in place i has i - 1 before it.
LEMMA OrderedOnce ==
  ASSUME NEW S, NEW under, TotalOrder(S, under), NEW g, NEW m, InRank(g, m, S, under)
  PROVE  /\ m = Cardinality(S) /\ g = Sorted(CountsUnder(S, under))
         /\ \A i \in 1 .. m : Cardinality(under[g[i]]) = i - 1
         /\ \A i, j \in 1 .. m : g[i] \in under[g[j]] <=> i < j
<1> DEFINE key == CountsUnder(S, under)
<1>1. /\ IsKey(key) /\ DOMAIN key = S
      /\ \A x, y \in S : x \in under[y] <=> key[x] < key[y]
  BY CountsAreKey
<1>2. \A x \in S : key[x] = Cardinality(under[x])
  BY DEF CountsUnder
<1> HIDE DEF key
<1>3. m \in Nat /\ Sorts(g, m, key)
  BY <1>1 DEF Sorts, InRank
<1>4. m = Cardinality(S) /\ g = Sorted(key) /\ \A i \in 1 .. m : Rank(key, g[i]) = i - 1
  BY <1>1, <1>3, SortsAlike, RankOfPlace
<1>5. ASSUME NEW x \in S PROVE Rank(key, x) = Cardinality(under[x])
  <2>1. {y \in DOMAIN key : key[y] < key[x]} = under[x]
    BY <1>1 DEF TotalOrder
  <2>2. QED BY <2>1 DEF Rank
<1>6. \A i \in 1 .. m : Cardinality(under[g[i]]) = i - 1
  BY <1>4, <1>5 DEF InRank
<1>7. ASSUME NEW i \in 1 .. m, NEW j \in 1 .. m, g[i] \in under[g[j]] PROVE i < j
  <2>1. g[i] \in S /\ g[j] \in S /\ m \in Nat
    BY DEF InRank
  <2>2. CASE i = j
    BY <1>7, <2>1, <2>2 DEF TotalOrder
  <2>3. CASE j < i
    <3>1. g[j] \in under[g[i]]
      BY <2>3 DEF InRank
    <3>2. g[i] \in under[g[i]]
      BY <1>7, <2>1, <3>1 DEF TotalOrder
    <3>3. QED BY <2>1, <3>2 DEF TotalOrder
  <2>4. QED BY <2>1, <2>2, <2>3
<1>8. \A i, j \in 1 .. m : g[i] \in under[g[j]] <=> i < j
  BY <1>7 DEF InRank
<1>9. QED BY <1>4, <1>6, <1>8 DEF key

\* Of part of a set, with all that comes first in the whole, the same comes first.
LEMMA FirstOfPart ==
  ASSUME NEW S, NEW under, TotalOrder(S, under), NEW f, NEW n, InRank(f, n, S, under),
         NEW T \in SUBSET S, NEW below, TotalOrder(T, below),
         \A x \in T : below[x] = under[x] \cap T,
         NEW g, NEW m, InRank(g, m, T, below),
         NEW k \in Nat, \A i \in 1 .. n : i <= k => f[i] \in T
  PROVE  \A i \in 1 .. n : i <= k => i <= m /\ g[i] = f[i]
<1>0. n \in Nat /\ m \in Nat /\ f \in [1 .. n -> S] /\ g \in [1 .. m -> T]
  BY DEF InRank
<1>1. SUFFICES ASSUME NEW i \in 1 .. n, i <= k PROVE i <= m /\ g[i] = f[i]
  OBVIOUS
<1>2. f[i] \in T
  BY <1>1
<1>3. under[f[i]] \subseteq T
  <2>1. SUFFICES ASSUME NEW x \in under[f[i]] PROVE x \in T
    OBVIOUS
  <2>2. x \in S /\ f[i] \in S
    BY <1>2 DEF TotalOrder
  <2>3. PICK j \in 1 .. n : f[j] = x
    BY <2>2 DEF InRank
  <2>4. j < i
    BY <2>1, <2>3, OrderedOnce
  <2>5. QED BY <1>0, <1>1, <2>3, <2>4
<1>4. below[f[i]] = under[f[i]]
  BY <1>2, <1>3
<1>5. Cardinality(below[f[i]]) = i - 1
  BY <1>4, OrderedOnce
<1>6. PICK j \in 1 .. m : g[j] = f[i]
  BY <1>2 DEF InRank
<1>7. Cardinality(below[g[j]]) = j - 1
  BY OrderedOnce
<1>8. j = i
  BY <1>0, <1>5, <1>6, <1>7
<1>9. QED BY <1>0, <1>6, <1>8

\* An order carried over by a map that keeps it.
LEMMA OrderedAlong ==
  ASSUME NEW S, NEW under, NEW f, NEW n, InRank(f, n, S, under),
         NEW T, NEW below, NEW move \in [S -> T],
         \A x, y \in S : x \in under[y] => move[x] \in below[move[y]],
         \A z \in T : \E x \in S : move[x] = z
  PROVE  InRank([i \in 1 .. n |-> move[f[i]]], n, T, below)
<1>1. n \in Nat /\ f \in [1 .. n -> S] /\ \A i, j \in 1 .. n : i < j => f[i] \in under[f[j]]
  BY DEF InRank
<1> DEFINE g == [i \in 1 .. n |-> move[f[i]]]
<1>2. g \in [1 .. n -> T]
  BY <1>1
<1>3. \A i, j \in 1 .. n : i < j => g[i] \in below[g[j]]
  BY <1>1
<1>4. \A z \in T : \E i \in 1 .. n : g[i] = z
  BY DEF InRank
<1>5. QED BY <1>1, <1>2, <1>3, <1>4 DEF InRank
=============================================================================
