-------------------------- MODULE Postings_proofs --------------------------
(***************************************************************************)
(* Posting lists of every length: what the codecs write they read back,    *)
(* and what the walks over two lists combine is what a set operation       *)
(* would.  From the bottom up: digits, varints, gaps, packed bits, blocks, *)
(* the skip index, the search in it, and the walks.  What is written one   *)
(* after the other stands in the whole from some position on, which is how *)
(* a reader finds it.                                                      *)
(***************************************************************************)
EXTENDS MCFormats, Orders_proofs

-----------------------------------------------------------------------------
(* Where parts stand. *)

EndToEndAt(whole, seqs, n, o) ==
  /\ Len(whole) = o[n]
  /\ \A t \in 1 .. n : \A i \in 1 .. Len(seqs[t]) :
       o[t - 1] + i <= o[n] /\ whole[o[t - 1] + i] = seqs[t][i]

\* Sequences end to end: every one stands from its start on.
LEMMA PartsStand ==
  ASSUME NEW S, NEW n \in Nat, NEW seqs \in [1 .. n -> Seq(S)], NEW o, StartsAt(o, seqs, n)
  PROVE  FlattenSeq(seqs) \in Seq(S) /\ EndToEndAt(FlattenSeq(seqs), seqs, n, o)
<1>1. /\ n \in Nat
      /\ \A t \in 1 .. n : DOMAIN seqs[t] = 1 .. Len(seqs[t]) /\ Len(seqs[t]) \in Nat
  <2>1. \A t \in 1 .. n : seqs[t] \in Seq(S)
    OBVIOUS
  <2>2. QED BY <2>1
<1>2. seqs \in [1 .. n -> Seq(S)]
  OBVIOUS
<1>3. PICK w \in [0 .. n -> Seq(S)] : Joins(w, seqs, n) /\ FlattenSeq(seqs) = w[n]
  BY <1>1, <1>2, FlattenWalks
<1>4. /\ w[0] = <<>> /\ \A k \in 1 .. n : w[k] = w[k - 1] \o seqs[k]
      /\ o[0] = 0 /\ \A k \in 1 .. n : o[k] = o[k - 1] + Len(seqs[k])
      /\ \A k \in 0 .. n : o[k] \in Nat
  BY <1>3 DEF Joins, StartsAt
<1> DEFINE Good(k) == /\ Len(w[k]) = o[k]
                      /\ \A t \in 1 .. k : \A i \in 1 .. Len(seqs[t]) :
                           /\ o[t - 1] + i <= o[k] /\ w[k][o[t - 1] + i] = seqs[t][i]
           T == {k \in 0 .. n : Good(k)}
<1>5. 0 \in T
  <2>1. Len(w[0]) = 0
    BY <1>4
  <2>2. QED BY <1>1, <1>4, <2>1
<1>6. ASSUME NEW j \in 0 .. n - 1, j \in T PROVE j + 1 \in T
  <2> DEFINE k == j + 1
  <2>1. k \in 1 .. n /\ k - 1 = j /\ k \in 0 .. n /\ j \in 0 .. n /\ j \in Nat
    BY <1>1
  <2>2. \A t : t \in 1 .. k <=> t \in 1 .. j \/ t = k
    BY <2>1
  <2>3. Good(j)
    BY <1>6
  <2> HIDE DEF k
  <2>4. /\ w[k] = w[j] \o seqs[k] /\ w[j] \in Seq(S) /\ seqs[k] \in Seq(S)
        /\ o[k] = o[j] + Len(seqs[k]) /\ o[j] \in Nat /\ o[k] \in Nat
    BY <1>2, <1>4, <2>1
  <2> DEFINE before == w[j]
             part == seqs[k]
             after == w[k]
             m == Len(part)
  <2>5. /\ Len(before) = o[j] /\ Len(after) = o[j] + m /\ m \in Nat
        /\ \A i \in 1 .. o[j] : after[i] = before[i]
        /\ \A i \in 1 .. m : after[o[j] + i] = part[i]
    <3> DEFINE l == o[j]
    <3>1. /\ before \in Seq(S) /\ part \in Seq(S) /\ after = before \o part /\ Len(before) = l
      BY <2>3, <2>4
    <3> HIDE DEF before, part, after, l
    <3>2. Concatenates(before, part, after)
      BY Zenon, <3>1, ConcatIs
    <3>3. /\ Len(before) = l /\ Len(after) = l + m /\ m \in Nat
          /\ \A i \in 1 .. l : after[i] = before[i]
          /\ \A i \in 1 .. m : after[l + i] = part[i]
      BY <3>1, <3>2 DEF Concatenates
    <3>4. QED BY <3>3 DEF l
  <2>6. Len(after) = o[k]
    BY <2>4, <2>5
  <2>7. ASSUME NEW t \in 1 .. k, NEW i \in 1 .. Len(seqs[t])
        PROVE  o[t - 1] + i <= o[k] /\ after[o[t - 1] + i] = seqs[t][i]
    <3>1. CASE t \in 1 .. j
      <4>1. o[t - 1] + i <= o[j] /\ before[o[t - 1] + i] = seqs[t][i]
        BY <2>3, <3>1
      <4>2. t - 1 \in 0 .. n /\ o[t - 1] \in Nat /\ i \in Nat \ {0}
        <5>1. t \in 1 .. n /\ t - 1 \in 0 .. n
          BY <1>1, <3>1
        <5>2. Len(seqs[t]) \in Nat
          BY <1>1, <5>1
        <5>3. QED BY <1>4, <5>1, <5>2
      <4>3. o[t - 1] + i \in 1 .. o[j]
        <5> DEFINE x == o[t - 1]
                   l == o[j]
        <5>1. x \in Nat /\ i \in Nat \ {0} /\ l \in Nat /\ x + i <= l
          BY <2>4, <4>1, <4>2
        <5> HIDE DEF x, l
        <5>2. x + i \in 1 .. l
          BY <5>1
        <5>3. QED BY <5>2 DEF x, l
      <4>4. after[o[t - 1] + i] = before[o[t - 1] + i]
        BY <2>5, <4>3
      <4>5. o[j] <= o[k]
        BY <2>4, <2>5
      <4>6. o[t - 1] + i <= o[k]
        BY <2>4, <4>3, <4>5
      <4>7. QED BY <4>1, <4>4, <4>6
    <3>2. CASE t = k
      <4>1. t - 1 = j /\ i \in 1 .. m
        BY <2>1, <3>2
      <4>2. o[j] + i <= o[k]
        BY <2>4, <2>5, <4>1
      <4>3. QED BY <2>5, <3>2, <4>1, <4>2
    <3>3. QED BY <2>2, <3>1, <3>2
  <2>8. Good(k)
    BY <2>6, <2>7
  <2>9. QED BY <2>1, <2>8 DEF k
<1>7. Good(n)
  <2>1. \A k \in 0 .. n : k \in T
    <3> HIDE DEF T
    <3>1. QED BY <1>1, <1>5, <1>6, UpTo
  <2>2. n \in 0 .. n
    BY <1>1
  <2>3. QED BY <2>1, <2>2
<1>8. n \in 0 .. n /\ w[n] \in Seq(S)
  BY <1>1
<1>9. QED BY <1>3, <1>7, <1>8 DEF EndToEndAt

\* Starts grow.
LEMMA StartsGrow ==
  ASSUME NEW n \in Nat, NEW seqs, NEW o, StartsAt(o, seqs, n),
         \A t \in 1 .. n : Len(seqs[t]) \in Nat
  PROVE  \A k \in 0 .. n : \A t \in 0 .. k : o[t] <= o[k]
<1> DEFINE T == {k \in 0 .. n : \A t \in 0 .. k : o[t] <= o[k]}
<1>1. 0 \in T
  BY DEF StartsAt
<1>2. ASSUME NEW j \in 0 .. n - 1, j \in T PROVE j + 1 \in T
  <2> DEFINE k == j + 1
  <2>1. k \in 1 .. n /\ k - 1 = j /\ k \in 0 .. n /\ j \in 0 .. n
    OBVIOUS
  <2>2. o[k] = o[j] + Len(seqs[k]) /\ Len(seqs[k]) \in Nat /\ o[j] \in Nat /\ o[k] \in Nat
    BY <2>1 DEF StartsAt
  <2>3. o[j] <= o[k]
    BY <2>2
  <2>4. \A t \in 0 .. k : t = k \/ t \in 0 .. j
    BY <2>1
  <2> HIDE DEF k
  <2>5. ASSUME NEW t \in 0 .. k PROVE o[t] <= o[k]
    <3>1. CASE t = k
      BY <2>2, <3>1
    <3>2. CASE t \in 0 .. j
      <4>1. o[t] <= o[j]
        BY <1>2, <3>2
      <4>2. o[t] \in Nat
        <5>1. t \in 0 .. n
          BY <2>1
        <5>2. QED BY <5>1 DEF StartsAt
      <4>3. QED BY <2>2, <2>3, <4>1, <4>2
    <3>3. QED BY <2>4, <3>1, <3>2
  <2>6. QED BY <2>1, <2>5 DEF k
<1>3. \A k \in 0 .. n : k \in T
  <2> HIDE DEF T
  <2>1. QED BY <1>1, <1>2, UpTo
<1>4. QED BY <1>3

\* A part stands in data from a position on.
Stands(part, data, pos) ==
  /\ pos \in Nat \ {0} /\ Len(part) \in Nat /\ Len(data) \in Nat
  /\ pos + Len(part) <= Len(data) + 1
  /\ \A i \in 1 .. Len(part) : data[pos + i - 1] = part[i]

\* Everything stands in itself.
LEMMA StandsWhole ==
  ASSUME NEW S, NEW s \in Seq(S)
  PROVE  Stands(s, s, 1)
<1>1. Len(s) \in Nat /\ \A i \in 1 .. Len(s) : 1 + i - 1 = i
  OBVIOUS
<1>2. QED BY <1>1 DEF Stands

\* What stands in a part stands in the whole.
LEMMA StandsWithin ==
  ASSUME NEW x, NEW y, NEW z, NEW p, NEW q, Stands(x, y, p), Stands(y, z, q)
  PROVE  Stands(x, z, q + p - 1)
<1> DEFINE l == Len(x)
           m == Len(y)
           n == Len(z)
<1>1. /\ p \in Nat \ {0} /\ q \in Nat \ {0} /\ l \in Nat /\ m \in Nat /\ n \in Nat
      /\ p + l <= m + 1 /\ q + m <= n + 1
      /\ \A i \in 1 .. l : y[p + i - 1] = x[i]
      /\ \A i \in 1 .. m : z[q + i - 1] = y[i]
  BY DEF Stands
<1> HIDE DEF l, m, n
<1>2. q + p - 1 \in Nat \ {0} /\ (q + p - 1) + l <= n + 1
  BY <1>1
<1>3. ASSUME NEW i \in 1 .. l PROVE z[(q + p - 1) + i - 1] = x[i]
  <2>1. p + i - 1 \in 1 .. m
    BY <1>1
  <2>2. q + (p + i - 1) - 1 = (q + p - 1) + i - 1
    BY <1>1
  <2>3. z[q + (p + i - 1) - 1] = y[p + i - 1]
    BY <1>1, <2>1
  <2>4. y[p + i - 1] = x[i]
    BY <1>1
  <2>5. QED BY <2>2, <2>3, <2>4
<1>4. QED BY <1>1, <1>2, <1>3 DEF Stands, l, m, n

\* Of two sequences one after the other, each stands where it was put.
LEMMA StandsConcat ==
  ASSUME NEW S, NEW x \in Seq(S), NEW y \in Seq(S), NEW data, NEW pos,
         Stands(x \o y, data, pos)
  PROVE  /\ Len(x) \in Nat /\ Len(y) \in Nat /\ Len(x \o y) = Len(x) + Len(y)
         /\ Stands(x, data, pos) /\ Stands(y, data, pos + Len(x))
<1> DEFINE xy == x \o y
           m == Len(x)
           l == Len(y)
<1>1. Concatenates(x, y, xy)
  BY ConcatIs
<1>2. /\ m \in Nat /\ l \in Nat /\ Len(xy) = m + l
      /\ \A i \in 1 .. m : xy[i] = x[i]
      /\ \A i \in 1 .. l : xy[m + i] = y[i]
  BY <1>1 DEF Concatenates
<1> HIDE DEF xy
<1>3. Stands(x, xy, 1)
  <2>1. \A i \in 1 .. m : 1 + i - 1 = i
    BY <1>2
  <2> HIDE DEF m, l
  <2>2. 1 \in Nat \ {0} /\ 1 + m <= m + l + 1 /\ m + l \in Nat
    BY <1>2
  <2>3. QED BY <1>2, <2>1, <2>2 DEF Stands, m
<1>4. Stands(y, xy, 1 + m)
  <2> HIDE DEF m, l
  <2>1. \A i \in 1 .. l : 1 + m + i - 1 = m + i
    BY <1>2
  <2>2. 1 + m \in Nat \ {0} /\ 1 + m + l <= Len(xy) + 1 /\ Len(xy) \in Nat /\ l \in Nat
    BY <1>2
  <2>3. \A i \in 1 .. l : xy[1 + m + i - 1] = y[i]
    BY <1>2, <2>1
  <2>4. QED BY <2>2, <2>3 DEF Stands, l
<1>5. Stands(xy, data, pos) /\ pos \in Nat
  BY DEF xy, Stands
<1>6. Stands(x, data, pos + 1 - 1) /\ Stands(y, data, pos + (1 + m) - 1)
  <2> HIDE DEF m, l
  <2>1. QED BY <1>3, <1>4, <1>5, StandsWithin
<1>7. pos + 1 - 1 = pos /\ pos + (1 + m) - 1 = pos + m
  BY <1>2, <1>5
<1>8. QED BY <1>2, <1>6, <1>7 DEF xy

\* A sequence that others were laid into end to end.
Laid(whole, seqs, n, o) ==
  /\ StartsAt(o, seqs, n) /\ Len(whole) = o[n]
  /\ \A t \in 1 .. n : Stands(seqs[t], whole, 1 + o[t - 1])

\* Flattening lays them so.
LEMMA FlattenIsLaid ==
  ASSUME NEW S, NEW n \in Nat, NEW seqs \in [1 .. n -> Seq(S)]
  PROVE  FlattenSeq(seqs) \in Seq(S) /\ \E o : Laid(FlattenSeq(seqs), seqs, n, o)
<1>1. \A t \in 1 .. n : Len(seqs[t]) \in Nat
  <2>1. \A t \in 1 .. n : seqs[t] \in Seq(S)
    OBVIOUS
  <2>2. QED BY <2>1
<1>2. PICK o : StartsAt(o, seqs, n)
  BY <1>1, StartsExist
<1> DEFINE whole == FlattenSeq(seqs)
<1>3. /\ whole \in Seq(S) /\ Len(whole) = o[n]
      /\ \A t \in 1 .. n : \A i \in 1 .. Len(seqs[t]) :
           o[t - 1] + i <= o[n] /\ whole[o[t - 1] + i] = seqs[t][i]
  <2>1. FlattenSeq(seqs) \in Seq(S) /\ EndToEndAt(FlattenSeq(seqs), seqs, n, o)
    BY <1>2, PartsStand
  <2>2. QED BY <2>1 DEF EndToEndAt
<1> HIDE DEF whole
<1>4. ASSUME NEW t \in 1 .. n PROVE Stands(seqs[t], whole, 1 + o[t - 1])
  <2> DEFINE l == Len(seqs[t])
             s == o[t - 1]
  <2>1. l \in Nat /\ t - 1 \in 0 .. n /\ t \in 0 .. n /\ n \in 0 .. n
    BY <1>1
  <2>2. s \in Nat /\ o[t] = s + l /\ o[n] \in Nat
    BY <1>2, <2>1 DEF StartsAt
  <2>3. o[t] <= o[n]
    BY <1>1, <1>2, <2>1, StartsGrow
  <2>4. \A i \in 1 .. l : whole[s + i] = seqs[t][i]
    BY <1>3
  <2> HIDE DEF l, s
  <2>5. \A i \in 1 .. l : 1 + s + i - 1 = s + i
    BY <2>1, <2>2
  <2>6. 1 + s \in Nat \ {0} /\ 1 + s + l <= Len(whole) + 1 /\ Len(whole) \in Nat
    BY <1>3, <2>1, <2>2, <2>3
  <2>7. Stands(seqs[t], whole, 1 + s)
    BY <2>1, <2>4, <2>5, <2>6 DEF Stands, l
  <2>8. QED BY <2>7 DEF s
<1>5. Laid(whole, seqs, n, o)
  BY <1>2, <1>3, <1>4 DEF Laid
<1>6. QED BY <1>3, <1>5 DEF whole

\* What stands somewhere is what a slice takes from there.
LEMMA SliceStands ==
  ASSUME NEW S, NEW part \in Seq(S), NEW data, NEW pos, Stands(part, data, pos)
  PROVE  Slice(data, pos, Len(part)) = part
<1> DEFINE n == Len(part)
<1>1. n \in Nat /\ part = [i \in 1 .. n |-> part[i]] /\ pos \in Nat
  BY DEF Stands
<1> HIDE DEF n
<1>2. Slice(data, pos, n) = [i \in 1 .. (pos + n - 1 - pos + 1) |-> data[i + pos - 1]]
  BY <1>1 DEF Slice, SubSeq
<1>3. pos + n - 1 - pos + 1 = n
  BY <1>1
<1>4. \A i \in 1 .. n : data[i + pos - 1] = part[i]
  <2>1. \A i \in 1 .. n : i + pos - 1 = pos + i - 1
    BY <1>1
  <2>2. QED BY <2>1 DEF Stands, n
<1>5. Slice(data, pos, n) = [i \in 1 .. n |-> part[i]]
  BY <1>2, <1>3, <1>4
<1>6. QED BY <1>1, <1>5 DEF n

\* And a slice of a sequence stands where it was taken.
LEMMA SliceIs ==
  ASSUME NEW S, NEW seq \in Seq(S), NEW pos \in Nat \ {0}, NEW count \in Nat,
         pos + count <= Len(seq) + 1
  PROVE  /\ Slice(seq, pos, count) \in Seq(S) /\ Len(Slice(seq, pos, count)) = count
         /\ Slice(seq, pos, count) = [i \in 1 .. count |-> seq[pos + i - 1]]
         /\ Stands(Slice(seq, pos, count), seq, pos)
<1> DEFINE s == Slice(seq, pos, count)
<1>1. s = [i \in 1 .. count |-> seq[pos + i - 1]]
  <2>1. s = [i \in 1 .. (pos + count - 1 - pos + 1) |-> seq[i + pos - 1]]
    BY DEF Slice, SubSeq
  <2>2. pos + count - 1 - pos + 1 = count
    OBVIOUS
  <2>3. \A i \in 1 .. count : i + pos - 1 = pos + i - 1
    OBVIOUS
  <2>4. QED BY <2>1, <2>2, <2>3
<1>2. \A i \in 1 .. count : pos + i - 1 \in 1 .. Len(seq)
  OBVIOUS
<1> HIDE DEF s
<1>3. s \in [1 .. count -> S]
  BY <1>1, <1>2
<1>4. s \in Seq(S) /\ Len(s) = count
  BY <1>3, LenIs
<1>5. Stands(s, seq, pos)
  BY <1>1, <1>4 DEF Stands
<1>6. QED BY <1>1, <1>4, <1>5 DEF s
-----------------------------------------------------------------------------
(* Numbers and their digits. *)

Bases == {2, 128}

Quotient(v, base) == v \div base
Remainder(v, base) == v % base

\* Shifting by a digit.
LEMMA Division ==
  ASSUME NEW base \in Nat, base \in Bases, NEW v \in Nat
  PROVE  /\ Quotient(v, base) \in Nat /\ Remainder(v, base) \in 0 .. base - 1
         /\ v = base * Quotient(v, base) + Remainder(v, base)
         /\ Quotient(v, base) <= v /\ (v # 0 => Quotient(v, base) < v)
<1>1. CASE base = 2
  BY <1>1 DEF Quotient, Remainder
<1>2. CASE base = 128
  BY <1>2 DEF Quotient, Remainder
<1>3. QED BY <1>1, <1>2 DEF Bases

\* A digit added at the end is the one that shifting takes off.
LEMMA Multiplication ==
  ASSUME NEW base \in Nat, base \in Bases, NEW v \in Nat, NEW d \in 0 .. base - 1
  PROVE  /\ base * v + d \in Nat
         /\ Quotient(base * v + d, base) = v /\ Remainder(base * v + d, base) = d
<1>1. CASE base = 2
  BY <1>1 DEF Quotient, Remainder
<1>2. CASE base = 128
  BY <1>2 DEF Quotient, Remainder
<1>3. QED BY <1>1, <1>2 DEF Bases

\* Shifting keeps the order.
LEMMA DivisionGrows ==
  ASSUME NEW base \in Nat, base \in Bases, NEW v \in Nat, NEW w \in Nat, v <= w
  PROVE  Quotient(v, base) <= Quotient(w, base)
<1>1. CASE base = 2
  BY <1>1 DEF Quotient, Remainder
<1>2. CASE base = 128
  BY <1>2 DEF Quotient, Remainder
<1>3. QED BY <1>1, <1>2 DEF Bases

Shifts(q, value, base) ==
  /\ q \in [Nat -> Nat] /\ q[0] = value
  /\ \A k \in Nat : q[k + 1] = Quotient(q[k], base)

\* What Shifted() defines is defined.
LEMMA ShiftedIs ==
  ASSUME NEW base \in Nat, base \in Bases, NEW value \in Nat
  PROVE  Shifts(Shifted(value, base), value, base)
<1> DEFINE step(n) == [i \in 1 .. n |-> [x \in Nat |-> Quotient(x, base)]]
           W(n) == CHOOSE w \in [0 .. n -> Nat] : IsWalk(w, value, step(n), n)
           f == [k \in Nat |-> W(k)[k]]
<1>1. \A x \in Nat : Quotient(x, base) \in Nat
  BY Division
<1>2. ASSUME NEW n \in Nat
      PROVE  /\ W(n) \in [0 .. n -> Nat] /\ W(n)[0] = value
             /\ \A k \in 1 .. n : W(n)[k] = Quotient(W(n)[k - 1], base)
  <2>1. \E w \in [0 .. n -> Nat] : IsWalk(w, value, step(n), n)
    <3>1. step(n) \in [1 .. n -> [Nat -> Nat]]
      BY <1>1
    <3> HIDE DEF step
    <3>2. QED BY <3>1, WalkExists
  <2> DEFINE w == W(n)
  <2>2. w \in [0 .. n -> Nat] /\ IsWalk(w, value, step(n), n)
    <3> HIDE DEF step
    <3>1. QED BY <2>1
  <2> HIDE DEF w
  <2>3. \A k \in 1 .. n : w[k - 1] \in Nat
    BY <2>2
  <2>4. w[0] = value /\ \A k \in 1 .. n : w[k] = Quotient(w[k - 1], base)
    BY <2>2, <2>3 DEF IsWalk
  <2>5. QED BY <2>2, <2>4 DEF w
<1> HIDE DEF W
<1>3. f \in [Nat -> Nat] /\ f[0] = value
  <2>1. \A k \in Nat : W(k)[k] \in Nat
    <3> SUFFICES ASSUME NEW k \in Nat PROVE W(k)[k] \in Nat
      OBVIOUS
    <3>1. W(k) \in [0 .. k -> Nat] /\ k \in 0 .. k
      BY <1>2
    <3>2. QED BY <3>1
  <2>2. W(0)[0] = value
    BY <1>2
  <2>3. QED BY <2>1, <2>2
<1>4. ASSUME NEW k \in Nat PROVE f[k + 1] = Quotient(f[k], base)
  <2>1. /\ k + 1 \in Nat /\ k + 1 \in 1 .. k + 1 /\ (k + 1) - 1 = k
        /\ \A i \in 1 .. k : i \in 1 .. k + 1
    OBVIOUS
  <2> DEFINE v == W(k + 1)
             w == W(k)
  <2>2. /\ v[0] = value /\ \A i \in 1 .. k + 1 : v[i] = Quotient(v[i - 1], base)
    BY <1>2, <2>1
  <2>3. /\ w[0] = value /\ \A i \in 1 .. k : w[i] = Quotient(w[i - 1], base)
    BY <1>2
  <2> HIDE DEF v, w
  <2>4. Together(v, w, k)
    BY <2>1, <2>2, <2>3 DEF Together
  <2>5. v[k] = w[k]
    BY <2>4, EndTogether
  <2>6. v[k + 1] = Quotient(w[k], base)
    BY <2>1, <2>2, <2>5
  <2>7. f[k + 1] = v[k + 1] /\ f[k] = w[k]
    BY <2>1 DEF v, w
  <2>8. QED BY <2>6, <2>7
<1> DEFINE rest(k) == IF k = 0 THEN value ELSE Quotient(f[k - 1], base)
<1>5. \A k \in Nat : f[k] = rest(k)
  <2> SUFFICES ASSUME NEW k \in Nat PROVE f[k] = rest(k)
    OBVIOUS
  <2>1. CASE k = 0
    BY <1>3, <2>1
  <2>2. CASE k # 0
    <3>1. k - 1 \in Nat /\ (k - 1) + 1 = k
      BY <2>2
    <3>2. f[(k - 1) + 1] = Quotient(f[k - 1], base)
      BY <1>4, <3>1
    <3>3. QED BY <2>2, <3>1, <3>2
  <2>3. QED BY <2>1, <2>2
<1> DEFINE Q == CHOOSE shifted :
             shifted = [k \in Nat |-> IF k = 0 THEN value ELSE Quotient(shifted[k - 1], base)]
<1> HIDE DEF f
<1>6. f = [k \in Nat |-> IF k = 0 THEN value ELSE Quotient(f[k - 1], base)]
  <2>1. f = [k \in Nat |-> f[k]]
    BY <1>3
  <2>2. QED BY <1>5, <2>1
<1>7. Q = [k \in Nat |-> IF k = 0 THEN value ELSE Quotient(Q[k - 1], base)]
  BY <1>6
<1>8. Shifted(value, base) = Q
  BY DEF Shifted, Quotient
<1> HIDE DEF Q
<1>9. Q[0] = value
  BY <1>7
<1>10. \A k \in Nat : Q[k + 1] = Quotient(Q[k], base)
  <2> SUFFICES ASSUME NEW k \in Nat PROVE Q[k + 1] = Quotient(Q[k], base)
    OBVIOUS
  <2>1. k + 1 \in Nat /\ k + 1 # 0 /\ (k + 1) - 1 = k
    OBVIOUS
  <2>2. Q[k + 1] = Quotient(Q[(k + 1) - 1], base)
    BY <1>7, <2>1
  <2>3. QED BY <2>1, <2>2
<1>11. \A k \in Nat : Q[k] \in Nat
  <2> SUFFICES ASSUME NEW m \in Nat PROVE Q[m] \in Nat
    OBVIOUS
  <2> DEFINE T == {k \in 0 .. m : Q[k] \in Nat}
  <2>1. 0 \in T
    BY <1>9
  <2>2. ASSUME NEW k \in 0 .. m - 1, k \in T PROVE k + 1 \in T
    <3>1. k \in Nat /\ k + 1 \in 0 .. m /\ Q[k] \in Nat
      BY <2>2
    <3>2. Q[k + 1] = Quotient(Q[k], base)
      BY <1>10, <3>1
    <3>3. Q[k + 1] \in Nat
      BY <1>1, <3>1, <3>2
    <3>4. QED BY <3>1, <3>3
  <2>3. m \in T
    <3> HIDE DEF T
    <3>1. \A k \in 0 .. m : k \in T
      BY <2>1, <2>2, UpTo
    <3>2. QED BY <3>1
  <2>4. QED BY <2>3
<1>12. Q \in [Nat -> Nat]
  BY <1>7, <1>11
<1>13. Shifts(Q, value, base)
  BY <1>9, <1>10, <1>12 DEF Shifts
<1>14. QED BY <1>8, <1>13

\* Every number has a first shift that leaves nothing.
LEMMA DigitsIs ==
  ASSUME NEW base \in Nat, base \in Bases, NEW value \in Nat
  PROVE  Digits(value, base) \in Nat \ {0} /\ Shifted(value, base)[Digits(value, base)] = 0
<1> DEFINE q == Shifted(value, base)
           S == {k \in 1 .. value + 1 : q[k] = 0}
<1>1. q \in [Nat -> Nat] /\ q[0] = value /\ \A k \in Nat : q[k + 1] = Quotient(q[k], base)
  <2>1. Shifts(q, value, base)
    BY ShiftedIs
  <2> HIDE DEF q
  <2>2. QED BY <2>1 DEF Shifts
<1> HIDE DEF q
<1>2. \A k \in 0 .. value : q[k] <= value - k
  <2> DEFINE T == {k \in 0 .. value : q[k] <= value - k}
  <2>1. 0 \in T
    BY <1>1
  <2>2. ASSUME NEW k \in 0 .. value - 1, k \in T PROVE k + 1 \in T
    <3>1. k \in Nat /\ k + 1 \in 0 .. value /\ q[k] \in Nat /\ q[k + 1] \in Nat /\ q[k] <= value - k
      BY <1>1, <2>2
    <3>2. q[k + 1] = Quotient(q[k], base)
      BY <1>1, <3>1
    <3>3. q[k + 1] <= q[k] /\ (q[k] # 0 => q[k + 1] < q[k])
      BY <3>1, <3>2, Division
    <3>4. q[k + 1] <= value - (k + 1)
      BY <3>1, <3>3
    <3>5. QED BY <3>1, <3>4
  <2>3. \A k \in 0 .. value : k \in T
    <3> HIDE DEF T
    <3>1. QED BY <2>1, <2>2, UpTo
  <2>4. QED BY <2>3
<1>3. q[value + 1] = 0
  <2>1. q[value] <= 0 /\ q[value] \in Nat /\ q[value + 1] \in Nat
    BY <1>1, <1>2
  <2>2. q[value + 1] <= q[value]
    BY <1>1, <2>1, Division
  <2>3. QED BY <2>1, <2>2
<1>4. S \in SUBSET Nat /\ S # {}
  BY <1>3
<1>5. PICK n \in S : \A k \in S : n <= k
  <2> HIDE DEF S
  <2>1. QED BY <1>4, LeastNatural
<1>6. n \in 1 .. value + 1 /\ q[n] = 0 /\ (n = 1 \/ q[n - 1] # 0)
  <2>1. ASSUME n # 1 PROVE n - 1 \notin S /\ n - 1 \in 1 .. value + 1
    BY <1>5, <2>1
  <2>2. QED BY <1>5, <2>1
<1>7. Digits(value, base) = CHOOSE k \in 1 .. value + 1 : q[k] = 0 /\ (k = 1 \/ q[k - 1] # 0)
  BY DEF Digits, q
<1>8. Digits(value, base) \in 1 .. value + 1 /\ q[Digits(value, base)] = 0
  BY <1>6, <1>7
<1>9. QED BY <1>8 DEF q

\* The walk along digits that a number is the end of.
Counts(w, digits, base, n) ==
  /\ w \in [0 .. n -> Nat] /\ w[0] = 0
  /\ \A k \in 1 .. n : w[k] = base * w[k - 1] + digits[k]

\* Number() is where it ends.
LEMMA NumberIs ==
  ASSUME NEW base \in Nat, base \in Bases, NEW n \in Nat, NEW digits \in [1 .. n -> Nat]
  PROVE  \E w : Counts(w, digits, base, n) /\ w[n] = Number(digits, base)
<1> DEFINE step == [i \in 1 .. n |-> [x \in Nat |-> base * x + digits[i]]]
           Solves(f) == f = [s \in SUBSET DOMAIN digits |->
             IF s = {} THEN 0 ELSE base * f[s \ {Max(s)}] + digits[Max(s)]]
           Iter == CHOOSE iter : Solves(iter)
<1>1. 0 \in Nat /\ step \in [1 .. n -> [Nat -> Nat]]
  <2>1. \A i \in 1 .. n : \A x \in Nat : base * x + digits[i] \in Nat
    OBVIOUS
  <2>2. QED BY <2>1
<1> HIDE DEF step
<1>2. PICK g \in [SUBSET (1 .. n) -> Nat] : Unwinds(g, 0, step, n)
  BY <1>1, FoldSolved
<1>3. Solves(g)
  <2>1. DOMAIN digits = 1 .. n /\ g = [s \in SUBSET (1 .. n) |-> g[s]] /\ g[{}] = 0
    BY <1>2 DEF Unwinds
  <2>2. ASSUME NEW s \in SUBSET (1 .. n), s # {}
        PROVE  g[s] = base * g[s \ {Max(s)}] + digits[Max(s)]
    <3>1. /\ Max(s) \in 1 .. n /\ s \ {Max(s)} \in SUBSET (1 .. n)
          /\ g[s] = step[Max(s)][g[s \ {Max(s)}]]
      BY <1>2, <2>2 DEF Unwinds
    <3>2. g[s \ {Max(s)}] \in Nat
      BY <1>2, <3>1
    <3>3. QED BY <3>1, <3>2 DEF step
  <2>3. QED BY <2>1, <2>2
<1>4. Iter = [s \in SUBSET DOMAIN digits |->
             IF s = {} THEN 0 ELSE base * Iter[s \ {Max(s)}] + digits[Max(s)]]
  <2>1. Solves(Iter)
    <3> HIDE DEF Solves
    <3>1. QED BY <1>3
  <2>2. QED BY <2>1
<1>5. Number(digits, base) = Iter[DOMAIN digits]
  BY Zenon DEF Number, FoldLeft, MapThenFoldSet
<1> HIDE DEF Iter
<1>6. UnwindsIn(Nat, Iter, 0, step, n)
  <2>1. Iter[{}] = 0
    BY <1>4
  <2>2. ASSUME NEW P \in SUBSET (1 .. n), P # {}, Iter[P \ {Max(P)}] \in Nat
        PROVE  Iter[P] = step[Max(P)][Iter[P \ {Max(P)}]]
    <3>1. Max(P) \in 1 .. n
      BY <1>2, <2>2 DEF Unwinds
    <3>2. Iter[P] = base * Iter[P \ {Max(P)}] + digits[Max(P)]
      <4>1. DOMAIN digits = 1 .. n
        OBVIOUS
      <4>2. QED BY <1>4, <2>2, <4>1
    <3>3. QED BY <2>2, <3>1, <3>2 DEF step
  <2>3. QED BY <2>1, <2>2 DEF UnwindsIn
<1>7. WalksTo(Nat, Iter[1 .. n], 0, step, n)
  <2> DEFINE nothing == 0
  <2>1. nothing \in Nat /\ step \in [1 .. n -> [Nat -> Nat]] /\ UnwindsIn(Nat, Iter, nothing, step, n)
    BY <1>1, <1>6
  <2> HIDE DEF nothing, Solves
  <2>2. WalksTo(Nat, Iter[1 .. n], nothing, step, n)
    BY <2>1, FoldWalk
  <2>3. QED BY <2>2 DEF nothing
<1>8. PICK w \in [0 .. n -> Nat] : IsWalk(w, 0, step, n) /\ w[n] = Iter[1 .. n]
  BY <1>7 DEF WalksTo
<1>9. w[0] = 0 /\ \A k \in 1 .. n : w[k] = base * w[k - 1] + digits[k]
  <2>1. \A k \in 1 .. n : w[k - 1] \in Nat
    BY <1>8
  <2>2. QED BY <1>8, <2>1 DEF step, IsWalk
<1>10. Counts(w, digits, base, n)
  BY <1>8, <1>9 DEF Counts
<1>11. w[n] = Number(digits, base)
  BY <1>5, <1>8
<1>12. QED BY <1>10, <1>11

\* The number with the digits of a number is that number.
LEMMA NumberOfDigits ==
  ASSUME NEW base \in Nat, base \in Bases, NEW value \in Nat, NEW n \in Nat,
         Shifted(value, base)[n] = 0, NEW digits \in [1 .. n -> Nat],
         \A k \in 1 .. n : digits[k] = Remainder(Shifted(value, base)[n - k], base)
  PROVE  Number(digits, base) = value
<1> DEFINE q == Shifted(value, base)
<1>1. q \in [Nat -> Nat] /\ q[0] = value /\ \A k \in Nat : q[k + 1] = Quotient(q[k], base)
  <2>1. Shifts(q, value, base)
    BY ShiftedIs
  <2> HIDE DEF q
  <2>2. QED BY <2>1 DEF Shifts
<1>2. q[n] = 0 /\ \A k \in 1 .. n : digits[k] = Remainder(q[n - k], base)
  OBVIOUS
<1> HIDE DEF q
<1>3. PICK w : Counts(w, digits, base, n) /\ w[n] = Number(digits, base)
  BY NumberIs
<1> DEFINE v == [k \in 0 .. n |-> q[n - k]]
<1>4. Together(w, v, n)
  <2>1. w[0] = v[0]
    <3>1. v[0] = q[n]
      BY <1>1
    <3>2. QED BY <1>2, <1>3, <3>1 DEF Counts
  <2>2. ASSUME NEW k \in 1 .. n, w[k - 1] = v[k - 1] PROVE w[k] = v[k]
    <3>1. /\ n - k \in Nat /\ (n - k) + 1 = n - (k - 1)
          /\ k - 1 \in 0 .. n /\ k \in 0 .. n
      OBVIOUS
    <3>2. v[k - 1] = q[n - (k - 1)] /\ v[k] = q[n - k]
      BY <3>1
    <3> DEFINE x == q[n - k]
    <3>3. q[(n - k) + 1] = Quotient(x, base) /\ x \in Nat
      <4> DEFINE d == n - k
      <4>1. d \in Nat
        BY <3>1
      <4> HIDE DEF d
      <4>2. q[d + 1] = Quotient(q[d], base) /\ q[d] \in Nat
        BY <1>1, <4>1
      <4>3. QED BY <4>2 DEF d
    <3>4. w[k] = base * w[k - 1] + digits[k] /\ digits[k] = Remainder(x, base)
      BY <1>2, <1>3 DEF Counts
    <3>5. w[k - 1] = Quotient(x, base)
      <4>1. q[n - (k - 1)] = q[(n - k) + 1]
        BY <3>1
      <4>2. QED BY <2>2, <3>2, <3>3, <4>1
    <3> HIDE DEF x
    <3>6. w[k] = base * Quotient(x, base) + Remainder(x, base)
      BY <3>4, <3>5
    <3>7. w[k] = x
      BY <3>3, <3>6, Division
    <3>8. QED BY <3>2, <3>7 DEF x
  <2> HIDE DEF v
  <2>3. QED BY <2>1, <2>2 DEF Together
<1>5. v[n] = value
  BY <1>1
<1>6. w[n] = v[n]
  <2> HIDE DEF v
  <2>1. QED BY <1>4, EndTogether
<1>7. QED BY <1>3, <1>5, <1>6

\* And the digits of the number with some digits are those.
LEMMA DigitsOfNumber ==
  ASSUME NEW base \in Nat, base \in Bases, NEW n \in Nat, NEW digits \in [1 .. n -> 0 .. base - 1]
  PROVE  /\ Number(digits, base) \in Nat
         /\ \A k \in 1 .. n :
              Remainder(Shifted(Number(digits, base), base)[n - k], base) = digits[k]
<1>1. digits \in [1 .. n -> Nat] /\ \A k \in 1 .. n : digits[k] \in 0 .. base - 1
  BY \A d \in 0 .. base - 1 : d \in Nat
<1>2. PICK w : Counts(w, digits, base, n) /\ w[n] = Number(digits, base)
  BY <1>1, NumberIs
<1>3. /\ w \in [0 .. n -> Nat] /\ w[0] = 0
      /\ \A k \in 1 .. n : w[k] = base * w[k - 1] + digits[k]
  BY <1>2 DEF Counts
<1> DEFINE value == Number(digits, base)
           q == Shifted(value, base)
<1>4. value \in Nat
  BY <1>2, <1>3
<1> HIDE DEF value
<1>5. q \in [Nat -> Nat] /\ q[0] = value /\ \A k \in Nat : q[k + 1] = Quotient(q[k], base)
  <2>1. Shifts(q, value, base)
    BY <1>4, ShiftedIs
  <2> HIDE DEF q
  <2>2. QED BY <2>1 DEF Shifts
<1> HIDE DEF q
<1> DEFINE T == {i \in 0 .. n : q[i] = w[n - i]}
<1>6. 0 \in T
  <2>1. n - 0 = n /\ 0 \in 0 .. n
    OBVIOUS
  <2>2. q[0] = w[n]
    BY <1>2, <1>5 DEF value
  <2>3. QED BY <2>1, <2>2
<1>7. ASSUME NEW i \in 0 .. n - 1, i \in T PROVE i + 1 \in T
  <2> DEFINE k == n - i
  <2>1. i \in Nat /\ k \in 1 .. n /\ k - 1 = n - (i + 1) /\ i + 1 \in 0 .. n /\ k - 1 \in 0 .. n
    BY <1>7
  <2>2. q[i] = w[k]
    BY <1>7
  <2> HIDE DEF k
  <2>3. w[k] = base * w[k - 1] + digits[k] /\ w[k - 1] \in Nat
    BY <1>3, <2>1
  <2>4. Quotient(w[k], base) = w[k - 1]
    <3> DEFINE x == w[k - 1]
               d == digits[k]
    <3>1. x \in Nat /\ d \in 0 .. base - 1 /\ w[k] = base * x + d
      BY <1>1, <2>1, <2>3
    <3> HIDE DEF x, d
    <3>2. Quotient(base * x + d, base) = x
      BY <3>1, Multiplication
    <3>3. QED BY <3>1, <3>2 DEF x
  <2>5. q[i + 1] = w[k - 1]
    BY <1>5, <2>1, <2>2, <2>4
  <2>6. QED BY <2>1, <2>5
<1>8. \A i \in 0 .. n : i \in T
  <2> HIDE DEF T
  <2>1. QED BY <1>6, <1>7, UpTo
<1>9. ASSUME NEW k \in 1 .. n PROVE Remainder(q[n - k], base) = digits[k]
  <2>1. n - k \in 0 .. n /\ n - (n - k) = k /\ k - 1 \in 0 .. n
    OBVIOUS
  <2>2. q[n - k] = w[k]
    BY <1>8, <2>1
  <2> DEFINE x == w[k - 1]
             d == digits[k]
  <2>3. x \in Nat /\ d \in 0 .. base - 1 /\ w[k] = base * x + d
    BY <1>1, <1>3, <2>1
  <2> HIDE DEF x, d
  <2>4. Remainder(base * x + d, base) = d
    BY <2>3, Multiplication
  <2>5. Remainder(q[n - k], base) = d
    BY <2>2, <2>3, <2>4
  <2>6. QED BY <2>5 DEF d
<1>10. QED BY <1>4, <1>9 DEF q, value

\* What leaves nothing of a number leaves nothing of a smaller one.
LEMMA SmallerIsShorter ==
  ASSUME NEW base \in Nat, base \in Bases, NEW v \in Nat, NEW w \in Nat, v <= w, NEW n \in Nat,
         Shifted(w, base)[n] = 0
  PROVE  Shifted(v, base)[n] = 0
<1> DEFINE p == Shifted(v, base)
           q == Shifted(w, base)
           T == {k \in 0 .. n : p[k] <= q[k]}
<1>1. p \in [Nat -> Nat] /\ p[0] = v /\ \A k \in Nat : p[k + 1] = Quotient(p[k], base)
  <2>1. Shifts(p, v, base)
    BY ShiftedIs
  <2> HIDE DEF p
  <2>2. QED BY <2>1 DEF Shifts
<1>2. q \in [Nat -> Nat] /\ q[0] = w /\ \A k \in Nat : q[k + 1] = Quotient(q[k], base)
  <2>1. Shifts(q, w, base)
    BY ShiftedIs
  <2> HIDE DEF q
  <2>2. QED BY <2>1 DEF Shifts
<1> HIDE DEF p, q
<1>3. 0 \in T
  BY <1>1, <1>2
<1>4. ASSUME NEW k \in 0 .. n - 1, k \in T PROVE k + 1 \in T
  <2>1. k \in Nat /\ k + 1 \in 0 .. n /\ p[k] \in Nat /\ q[k] \in Nat /\ p[k] <= q[k]
    BY <1>1, <1>2, <1>4
  <2>2. Quotient(p[k], base) <= Quotient(q[k], base)
    BY <2>1, DivisionGrows
  <2>3. p[k + 1] <= q[k + 1]
    BY <1>1, <1>2, <2>1, <2>2
  <2>4. QED BY <2>1, <2>3
<1>5. \A k \in 0 .. n : k \in T
  <2> HIDE DEF T
  <2>1. QED BY <1>3, <1>4, UpTo
<1>6. p[n] <= q[n] /\ p[n] \in Nat
  BY <1>1, <1>5
<1>7. q[n] = 0
  BY DEF q
<1>8. QED BY <1>6, <1>7 DEF p
-----------------------------------------------------------------------------
(* Varints. *)

\* The bytes of a varint: n digits, and 128 on all but the last.
VarintBytes(enc, n, q, low) ==
  /\ n \in Nat \ {0} /\ q \in [Nat -> Nat] /\ q[n] = 0
  /\ enc \in Seq(Nat) /\ Len(enc) = n
  /\ low \in [1 .. n -> 0 .. 127] /\ \A k \in 1 .. n : low[k] = Remainder(q[k - 1], 128)
  /\ enc[n] = low[n]
  /\ \A k \in 1 .. n - 1 : enc[k] = low[k] + 128

VarintHas(value, enc) ==
  \E low : VarintBytes(enc, Digits(value, 128), Shifted(value, 128), low)

\* encode_varint() writes these.
LEMMA VarintIs ==
  ASSUME NEW value \in Nat
  PROVE  VarintHas(value, EncodeVarint(value))
<1> DEFINE base == 128
           enc == EncodeVarint(value)
           n == Digits(value, 128)
           q == Shifted(value, 128)
           low == [k \in 1 .. n |-> Remainder(q[k - 1], 128)]
<1>1. base \in Nat /\ base \in Bases
  BY DEF Bases
<1>2. n \in Nat \ {0} /\ q[n] = 0 /\ q \in [Nat -> Nat]
  <2>1. Shifts(q, value, base)
    BY <1>1, ShiftedIs
  <2>2. Digits(value, base) \in Nat \ {0} /\ Shifted(value, base)[Digits(value, base)] = 0
    <3> HIDE DEF base
    <3>1. QED BY <1>1, DigitsIs
  <2>3. QED BY <2>1, <2>2 DEF Shifts
<1>3. enc = [k \in 1 .. n |-> Remainder(q[k - 1], 128) + (IF k < n THEN 128 ELSE 0)]
  BY DEF EncodeVarint, Remainder
<1> HIDE DEF n, q
<1>4. low \in [1 .. n -> 0 .. 127]
  <2> SUFFICES ASSUME NEW k \in 1 .. n PROVE Remainder(q[k - 1], 128) \in 0 .. 127
    OBVIOUS
  <2> DEFINE x == q[k - 1]
  <2>1. k - 1 \in Nat /\ x \in Nat
    BY <1>2
  <2> HIDE DEF x, base
  <2>2. Remainder(x, base) \in 0 .. base - 1
    BY <1>1, <2>1, Division
  <2>3. QED BY <2>2 DEF x, base
<1> HIDE DEF enc
<1>5. enc = [k \in 1 .. n |-> low[k] + (IF k < n THEN 128 ELSE 0)]
  BY <1>3
<1>6. \A k \in 1 .. n : low[k] = Remainder(q[k - 1], 128)
  OBVIOUS
<1> HIDE DEF low
<1>7. \A k \in 1 .. n : low[k] + (IF k < n THEN 128 ELSE 0) \in Nat
  <2> SUFFICES ASSUME NEW k \in 1 .. n PROVE low[k] + (IF k < n THEN 128 ELSE 0) \in Nat
    OBVIOUS
  <2> DEFINE x == low[k]
  <2>1. x \in 0 .. 127
    BY <1>4
  <2> HIDE DEF x
  <2>2. x + 128 \in Nat /\ x + 0 \in Nat
    BY <2>1
  <2>3. QED BY <2>2 DEF x
<1>8. enc \in [1 .. n -> Nat] /\ n \in Nat
  BY <1>2, <1>5, <1>7
<1>9. enc \in Seq(Nat) /\ Len(enc) = n
  BY <1>8, LenIs
<1>10. enc[n] = low[n] /\ \A k \in 1 .. n - 1 : enc[k] = low[k] + 128
  <2>1. n \in 1 .. n /\ ~(n < n) /\ low[n] \in 0 .. 127
    BY <1>2, <1>4
  <2>2. \A k \in 1 .. n - 1 : k \in 1 .. n /\ k < n
    BY <1>2
  <2>3. enc[n] = low[n] + 0
    BY <1>5, <2>1
  <2>4. low[n] + 0 = low[n]
    BY <2>1
  <2>5. \A k \in 1 .. n - 1 : enc[k] = low[k] + 128
    BY <1>5, <2>2
  <2>6. QED BY <2>3, <2>4, <2>5
<1>11. VarintBytes(enc, n, q, low)
  BY <1>2, <1>4, <1>6, <1>9, <1>10 DEF VarintBytes
<1>12. QED BY <1>11 DEF VarintHas, n, q, enc

\* A varint is read where it stands, whatever surrounds it.
LEMMA VarintReads ==
  ASSUME NEW value \in Nat, NEW data, NEW pos, Stands(EncodeVarint(value), data, pos)
  PROVE  /\ DecodeVarint(data, pos).value = value
         /\ DecodeVarint(data, pos).next = pos + Len(EncodeVarint(value))
<1> DEFINE n == Digits(value, 128)
           q == Shifted(value, 128)
           enc == EncodeVarint(value)
           l == pos + n - 1
           Ends(k) == data[k] < 128 /\ \A j \in pos .. k - 1 : data[j] >= 128
           last == CHOOSE k \in pos .. Len(data) : Ends(k)
<1>1. PICK low : VarintBytes(enc, n, q, low)
  BY VarintIs DEF VarintHas
<1> HIDE DEF n, q
<1>2. /\ n \in Nat \ {0} /\ q[n] = 0 /\ q \in [Nat -> Nat] /\ Len(enc) = n
      /\ low \in [1 .. n -> 0 .. 127] /\ \A k \in 1 .. n : low[k] = Remainder(q[k - 1], 128)
      /\ enc[n] = low[n] /\ \A k \in 1 .. n - 1 : enc[k] = low[k] + 128
  BY <1>1 DEF VarintBytes
<1>3. /\ pos \in Nat \ {0} /\ Len(data) \in Nat /\ pos + n <= Len(data) + 1
      /\ \A i \in 1 .. n : data[pos + i - 1] = enc[i]
  BY <1>2 DEF Stands
<1> HIDE DEF enc
<1>4. l \in pos .. Len(data) /\ l + 1 = pos + n /\ l - pos + 1 = n
  BY <1>2, <1>3
<1>5. data[l] < 128 /\ data[l] \in Nat
  <2>1. n \in 1 .. n
    BY <1>2
  <2>2. data[l] = enc[n]
    BY <1>3, <2>1
  <2> DEFINE x == low[n]
  <2>3. x \in 0 .. 127 /\ data[l] = x
    BY <1>2, <2>1, <2>2
  <2> HIDE DEF x, l
  <2>4. QED BY <2>3
<1>6. ASSUME NEW j \in pos .. l - 1 PROVE data[j] >= 128 /\ data[j] \in Nat
  <2> DEFINE i == j - pos + 1
  <2>1. i \in 1 .. n /\ i \in 1 .. n - 1 /\ pos + i - 1 = j
    BY <1>2, <1>3
  <2> HIDE DEF i
  <2>2. data[j] = enc[i]
    BY <1>3, <2>1
  <2>3. enc[i] = low[i] + 128 /\ low[i] \in 0 .. 127
    BY <1>2, <2>1
  <2>4. QED BY <2>2, <2>3
<1> HIDE DEF l
<1>7. Ends(l)
  BY <1>5, <1>6
<1>8. ASSUME NEW k \in pos .. Len(data), Ends(k) PROVE k = l
  <2>1. ~(k < l)
    <3> SUFFICES ASSUME k < l PROVE FALSE
      OBVIOUS
    <3>1. k \in pos .. l - 1
      BY <1>3, <1>4
    <3>2. data[k] >= 128 /\ data[k] \in Nat /\ data[k] < 128
      BY <1>6, <1>8, <3>1
    <3>3. QED BY <3>2
  <2>2. ~(l < k)
    <3> SUFFICES ASSUME l < k PROVE FALSE
      OBVIOUS
    <3>1. l \in pos .. k - 1
      BY <1>3, <1>4
    <3>2. data[l] >= 128
      BY <1>8, <3>1
    <3>3. QED BY <1>5, <3>2
  <2>3. QED BY <1>3, <1>4, <2>1, <2>2
<1> HIDE DEF Ends
<1>9. last = l
  <2>1. last \in pos .. Len(data) /\ Ends(last)
    BY <1>4, <1>7
  <2> HIDE DEF last
  <2>2. QED BY <1>8, <2>1
<1> DEFINE digits(t) == [j \in 1 .. t - pos + 1 |-> data[t + 1 - j] % 128]
<1>10. /\ DecodeVarint(data, pos).value = Number(digits(last), 128)
       /\ DecodeVarint(data, pos).next = last + 1
  BY DEF DecodeVarint, Ends
<1> HIDE DEF last
<1>11. digits(l) = [j \in 1 .. n |-> low[n - j + 1]]
  <2>1. ASSUME NEW j \in 1 .. n PROVE data[l + 1 - j] % 128 = low[n - j + 1]
    <3> DEFINE i == n - j + 1
    <3>1. i \in 1 .. n /\ pos + i - 1 = l + 1 - j /\ (i \in 1 .. n - 1 \/ i = n)
      BY <1>2, <1>3, <1>4
    <3> HIDE DEF i
    <3> DEFINE r == low[i]
    <3>2. data[l + 1 - j] = enc[i]
      BY <1>3, <3>1
    <3>3. r \in 0 .. 127 /\ (enc[i] = r + 128 \/ enc[i] = r)
      BY <1>2, <3>1
    <3> HIDE DEF r
    <3>4. enc[i] % 128 = r
      BY <3>3
    <3>5. QED BY <3>2, <3>4 DEF r, i
  <2>2. QED BY <1>4, <2>1
<1>12. Number(digits(l), 128) = value
  <2> DEFINE base == 128
             d == [j \in 1 .. n |-> low[n - j + 1]]
  <2>1. base \in Nat /\ base \in Bases /\ Shifted(value, base)[n] = 0 /\ n \in Nat
    BY <1>2 DEF Bases, q
  <2>2. ASSUME NEW j \in 1 .. n
        PROVE  low[n - j + 1] \in Nat /\ low[n - j + 1] = Remainder(q[n - j], 128)
    <3> DEFINE i == n - j + 1
    <3>1. i \in 1 .. n /\ i - 1 = n - j
      BY <1>2
    <3> HIDE DEF i
    <3>2. low[i] \in 0 .. 127 /\ low[i] = Remainder(q[i - 1], 128)
      BY <1>2, <3>1
    <3>3. QED BY <3>1, <3>2 DEF i
  <2>3. d \in [1 .. n -> Nat]
    BY <2>2
  <2>4. \A j \in 1 .. n : d[j] = Remainder(Shifted(value, base)[n - j], base)
    BY <2>2 DEF q
  <2> HIDE DEF d, base
  <2>5. Number(d, base) = value
    BY <2>1, <2>3, <2>4, NumberOfDigits
  <2>6. digits(l) = d
    BY <1>11 DEF d
  <2>7. QED BY <2>5, <2>6 DEF base
<1>13. QED BY <1>2, <1>4, <1>9, <1>10, <1>12 DEF enc
-----------------------------------------------------------------------------
(* Folds whose steps do not depend on the position. *)

\* Without its greatest position, a set of positions has one fewer.
LEMMA CountsDown ==
  ASSUME NEW n \in Nat, NEW P \in SUBSET (1 .. n), P # {}
  PROVE  /\ Cardinality(P) \in 1 .. n /\ P \ {Max(P)} \in SUBSET (1 .. n)
         /\ Cardinality(P \ {Max(P)}) = Cardinality(P) - 1
<1>1. Max(P) \in P
  BY GreatestPosition
<1>2. IsFiniteSet(1 .. n) /\ Cardinality(1 .. n) = n
  <2>1. 1 \in Int /\ n \in Int
    OBVIOUS
  <2>2. Cardinality(1 .. n) = IF 1 > n THEN 0 ELSE n - 1 + 1
    BY <2>1, FS_Interval
  <2>3. IsFiniteSet(1 .. n)
    BY <2>1, FS_Interval
  <2>4. QED BY <2>2, <2>3
<1>3. IsFiniteSet(P) /\ Cardinality(P) \in Nat /\ Cardinality(P) <= n
  <2>1. IsFiniteSet(P) /\ Cardinality(P) <= Cardinality(1 .. n)
    BY <1>2, FS_Subset
  <2>2. QED BY <1>2, <2>1, FS_CardinalityType
<1>4. Cardinality(P) # 0
  BY <1>3, FS_EmptySet
<1>5. Cardinality(P \ {Max(P)}) = Cardinality(P) - 1
  BY <1>1, <1>3, FS_RemoveElement
<1>6. P \ {Max(P)} \in SUBSET (1 .. n)
  OBVIOUS
<1> DEFINE m == Cardinality(P)
<1>7. m \in 1 .. n
  <2>1. m \in Nat /\ m <= n /\ m # 0
    BY <1>3, <1>4
  <2> HIDE DEF m
  <2>2. QED BY <2>1
<1>8. QED BY <1>5, <1>6, <1>7

Steady(fold, st, n) ==
  /\ fold[{}] = st[0]
  /\ \A k \in 1 .. n : \A P \in SUBSET (1 .. n) :
       P # {} /\ fold[P \ {Max(P)}] = st[k - 1] => fold[P] = st[k]

\* Such a fold goes where its steps lead from the start.
LEMMA GoesAlong ==
  ASSUME NEW n \in Nat, NEW fold, NEW st, Steady(fold, st, n)
  PROVE  fold[1 .. n] = st[n]
<1> DEFINE w == [k \in 0 .. n |-> fold[1 .. k]]
<1>1. w[0] = st[0]
  <2>1. 1 .. 0 = {}
    OBVIOUS
  <2>2. QED BY <2>1 DEF Steady
<1>2. ASSUME NEW k \in 1 .. n, w[k - 1] = st[k - 1] PROVE w[k] = st[k]
  <2>1. 1 .. k \in SUBSET (1 .. n) /\ 1 .. k # {} /\ k - 1 \in 0 .. n /\ k \in 0 .. n
    <3>1. 1 \in 1 .. k /\ \A i \in 1 .. k : i \in 1 .. n
      OBVIOUS
    <3>2. k - 1 \in 0 .. n /\ k \in 0 .. n
      OBVIOUS
    <3>3. QED BY <3>1, <3>2
  <2>2. Max(1 .. k) \in 1 .. k /\ \A i \in 1 .. k : i <= Max(1 .. k)
    BY <2>1, GreatestPosition
  <2>3. Max(1 .. k) = k
    BY <2>1, <2>2
  <2>4. (1 .. k) \ {k} = 1 .. k - 1
    OBVIOUS
  <2>5. fold[(1 .. k) \ {Max(1 .. k)}] = st[k - 1]
    BY <1>2, <2>1, <2>3, <2>4
  <2>6. fold[1 .. k] = st[k]
    BY <2>1, <2>5 DEF Steady
  <2>7. QED BY <2>1, <2>6
<1>3. w[n] = fold[1 .. n]
  OBVIOUS
<1> HIDE DEF w
<1>4. Together(w, st, n)
  BY <1>1, <1>2 DEF Together
<1>5. QED BY <1>3, <1>4, EndTogether
-----------------------------------------------------------------------------
(* Several varints. *)

First(values, k) == [i \in 1 .. k |-> values[i]]

\* One more.
LEMMA FirstGrows ==
  ASSUME NEW S, NEW n \in Nat, NEW values \in [1 .. n -> S], NEW k \in 1 .. n
  PROVE  Append(First(values, k - 1), values[k]) = First(values, k)
<1> DEFINE m == k - 1
           f == First(values, m)
<1>1. m \in Nat /\ m + 1 = k /\ \A i \in 1 .. k : i \in 1 .. n
  OBVIOUS
<1>2. f \in [1 .. m -> S]
  BY <1>1 DEF First
<1>3. f \in Seq(S) /\ Len(f) = m
  BY <1>1, <1>2, LenIs
<1> DEFINE g == Append(f, values[k])
           h == First(values, k)
<1>4. \A i \in 1 .. m : f[i] = values[i]
  BY DEF First
<1> HIDE DEF f, m
<1>5. /\ g \in Seq(S) /\ Len(g) = k /\ \A i \in 1 .. m : g[i] = values[i]
      /\ g[k] = values[k]
  <2>1. values[k] \in S
    BY <1>1
  <2>2. /\ Append(f, values[k]) \in Seq(S) /\ Len(Append(f, values[k])) = Len(f) + 1
        /\ \A i \in 1 .. Len(f) : Append(f, values[k])[i] = f[i]
        /\ Append(f, values[k])[Len(f) + 1] = values[k]
    BY <1>3, <2>1, AppendIs
  <2>3. QED BY <1>1, <1>3, <1>4, <2>2
<1> HIDE DEF g
<1>6. g = [i \in 1 .. k |-> g[i]]
  BY <1>5
<1>7. \A i \in 1 .. k : g[i] = values[i]
  <2>1. \A i \in 1 .. k : i \in 1 .. m \/ i = k
    BY <1>1
  <2>2. QED BY <1>5, <2>1
<1>8. h = [i \in 1 .. k |-> values[i]]
  BY DEF First
<1>9. g = h
  BY <1>6, <1>7, <1>8
<1>10. QED BY <1>9 DEF g, f, m

\* The bytes of some varints.
LEMMA VarintsAre ==
  ASSUME NEW n \in Nat, NEW values \in [1 .. n -> Nat]
  PROVE  /\ EncodeVarints(values) \in Seq(Nat)
         /\ \E o : Laid(EncodeVarints(values), [i \in 1 .. n |-> EncodeVarint(values[i])], n, o)
<1> DEFINE encs == [i \in 1 .. n |-> EncodeVarint(values[i])]
<1>1. encs \in [1 .. n -> Seq(Nat)]
  BY VarintIs DEF VarintHas, VarintBytes
<1>2. EncodeVarints(values) = FlattenSeq(encs)
  BY DEF EncodeVarints
<1> HIDE DEF encs
<1>3. FlattenSeq(encs) \in Seq(Nat) /\ \E o : Laid(FlattenSeq(encs), encs, n, o)
  BY <1>1, FlattenIsLaid
<1>4. QED BY <1>2, <1>3 DEF encs

\* They are read one after the other from where they stand.
LEMMA VarintsRead ==
  ASSUME NEW n \in Nat, NEW values \in [1 .. n -> Nat], NEW data, NEW pos,
         Stands(EncodeVarints(values), data, pos)
  PROVE  /\ DecodeVarints(data, n, pos).values = values
         /\ DecodeVarints(data, n, pos).next = pos + Len(EncodeVarints(values))
<1> DEFINE encs == [i \in 1 .. n |-> EncodeVarint(values[i])]
           whole == EncodeVarints(values)
<1>1. PICK o : Laid(whole, encs, n, o)
  BY VarintsAre
<1>2. /\ o \in [0 .. n -> Nat] /\ o[0] = 0 /\ Len(whole) = o[n]
      /\ \A k \in 1 .. n : o[k] = o[k - 1] + Len(encs[k])
      /\ \A k \in 1 .. n : Stands(encs[k], whole, 1 + o[k - 1])
  BY <1>1 DEF Laid, StartsAt
<1>3. pos \in Nat \ {0} /\ Stands(whole, data, pos)
  BY DEF Stands
<1> HIDE DEF whole
<1> DEFINE next(read) == [values |-> Append(read.values, DecodeVarint(data, read.next).value),
                          next |-> DecodeVarint(data, read.next).next]
           st == [k \in 0 .. n |-> [values |-> First(values, k), next |-> pos + o[k]]]
<1>4. ASSUME NEW k \in 1 .. n PROVE next(st[k - 1]) = st[k]
  <2>1. k - 1 \in 0 .. n /\ k \in 0 .. n /\ o[k - 1] \in Nat /\ values[k] \in Nat
    BY <1>2
  <2> DEFINE s == o[k - 1]
  <2>2. encs[k] = EncodeVarint(values[k])
    OBVIOUS
  <2> HIDE DEF encs, s
  <2>3. Stands(encs[k], data, pos + s)
    <3>1. Stands(encs[k], whole, 1 + s)
      BY <1>2 DEF s
    <3>2. Stands(encs[k], data, pos + (1 + s) - 1)
      BY <1>3, <3>1, StandsWithin
    <3>3. pos + (1 + s) - 1 = pos + s
      BY <1>3, <2>1 DEF s
    <3>4. QED BY <3>2, <3>3
  <2>4. /\ DecodeVarint(data, pos + s).value = values[k]
        /\ DecodeVarint(data, pos + s).next = pos + s + Len(encs[k])
    BY <2>1, <2>2, <2>3, VarintReads
  <2>5. Append(First(values, k - 1), values[k]) = First(values, k)
    BY FirstGrows
  <2>6. st[k - 1].values = First(values, k - 1) /\ st[k - 1].next = pos + s
    BY <2>1 DEF s
  <2>7. pos + s + Len(encs[k]) = pos + o[k]
    <3>1. o[k] = s + Len(encs[k]) /\ o[k] \in Nat
      BY <1>2, <2>1 DEF s
    <3>2. Len(encs[k]) \in Nat
      BY <2>3 DEF Stands
    <3>3. QED BY <1>3, <2>1, <3>1, <3>2 DEF s
  <2>8. next(st[k - 1]) = [values |-> First(values, k), next |-> pos + o[k]]
    <3> HIDE DEF st
    <3>1. QED BY <2>4, <2>5, <2>6, <2>7
  <2>9. QED BY <2>1, <2>8
<1>5. st[0] = [values |-> <<>>, next |-> pos]
  <2>1. First(values, 0) = <<>> /\ pos + o[0] = pos
    BY <1>2, <1>3 DEF First
  <2>2. QED BY <2>1
<1>6. st[n].values = values /\ st[n].next = pos + Len(whole)
  <2>1. First(values, n) = values
    BY DEF First
  <2>2. QED BY <1>2, <2>1
<1> DEFINE Solves(f) == f = [s \in SUBSET (1 .. n) |->
             IF s = {} THEN [values |-> <<>>, next |-> pos] ELSE next(f[s \ {Max(s)}])]
           Iter == CHOOSE iter : Solves(iter)
           g == [P \in SUBSET (1 .. n) |-> st[Cardinality(P)]]
<1> HIDE DEF st, encs
<1>7. Solves(g)
  <2>1. g[{}] = [values |-> <<>>, next |-> pos]
    BY <1>5, FS_EmptySet
  <2>2. ASSUME NEW s \in SUBSET (1 .. n), s # {} PROVE g[s] = next(g[s \ {Max(s)}])
    <3>1. /\ Cardinality(s) \in 1 .. n /\ s \ {Max(s)} \in SUBSET (1 .. n)
          /\ Cardinality(s \ {Max(s)}) = Cardinality(s) - 1
      BY <2>2, CountsDown
    <3>2. g[s \ {Max(s)}] = st[Cardinality(s) - 1] /\ g[s] = st[Cardinality(s)]
      BY <3>1
    <3> HIDE DEF g, next
    <3>3. QED BY <1>4, <3>1, <3>2
  <2>3. g = [s \in SUBSET (1 .. n) |-> g[s]]
    OBVIOUS
  <2> HIDE DEF g, next
  <2>4. QED BY <2>1, <2>2, <2>3
<1>8. DecodeVarints(data, n, pos) = Iter[1 .. n]
  <2>1. DOMAIN [i \in 1 .. n |-> i] = 1 .. n
    OBVIOUS
  <2>2. QED BY Zenon, <2>1 DEF DecodeVarints, FoldLeft, MapThenFoldSet
<1> HIDE DEF g
<1>9. Solves(Iter)
  <2> HIDE DEF Solves
  <2>1. QED BY <1>7
<1> HIDE DEF Iter
<1>10. Iter[{}] = st[0]
  BY <1>5, <1>9
<1>11. ASSUME NEW k \in 1 .. n, NEW P \in SUBSET (1 .. n), P # {}, Iter[P \ {Max(P)}] = st[k - 1]
       PROVE  Iter[P] = st[k]
  <2>1. Iter[P] = next(Iter[P \ {Max(P)}])
    BY <1>9, <1>11
  <2> HIDE DEF next
  <2>2. QED BY <1>4, <1>11, <2>1
<1>12. Iter[1 .. n] = st[n]
  <2> HIDE DEF Solves
  <2>1. Steady(Iter, st, n)
    BY <1>10, <1>11 DEF Steady
  <2>2. QED BY <2>1, GoesAlong
<1>13. QED BY <1>6, <1>8, <1>12 DEF whole
-----------------------------------------------------------------------------
(* Sums and gaps. *)

Sums(t, seq, n) ==
  /\ t \in [0 .. n -> Int] /\ t[0] = 0
  /\ \A k \in 1 .. n : t[k] = t[k - 1] + seq[k]

\* SumOf() sums.
LEMMA SumIs ==
  ASSUME NEW n \in Nat, NEW seq \in [1 .. n -> Int], NEW t, Sums(t, seq, n)
  PROVE  SumOf(seq) = t[n]
<1> DEFINE step == [i \in 1 .. n |-> [x \in Int |-> x + seq[i]]]
           Solves(f) == f = [s \in SUBSET DOMAIN seq |->
             IF s = {} THEN 0 ELSE f[s \ {Max(s)}] + seq[Max(s)]]
           Iter == CHOOSE iter : Solves(iter)
<1>1. 0 \in Int /\ step \in [1 .. n -> [Int -> Int]] /\ DOMAIN seq = 1 .. n
  OBVIOUS
<1> HIDE DEF step
<1>2. PICK g \in [SUBSET (1 .. n) -> Int] : Unwinds(g, 0, step, n)
  BY <1>1, FoldSolved
<1>3. Solves(g)
  BY <1>1, <1>2 DEF Unwinds, step
<1>4. Solves(Iter)
  <2> HIDE DEF Solves
  <2>1. QED BY <1>3
<1>5. SumOf(seq) = Iter[DOMAIN seq]
  BY Zenon DEF SumOf, FoldLeft, MapThenFoldSet
<1> HIDE DEF Iter
<1>6. UnwindsIn(Int, Iter, 0, step, n)
  BY <1>1, <1>2, <1>4 DEF step, Unwinds, UnwindsIn
<1>7. WalksTo(Int, Iter[1 .. n], 0, step, n)
  <2> HIDE DEF Solves
  <2>1. QED BY <1>1, <1>6, FoldWalk
<1>8. PICK w \in [0 .. n -> Int] : IsWalk(w, 0, step, n) /\ w[n] = Iter[1 .. n]
  BY <1>7 DEF WalksTo
<1>9. w[0] = 0 /\ \A k \in 1 .. n : w[k] = w[k - 1] + seq[k]
  <2>1. \A k \in 1 .. n : w[k - 1] \in Int
    BY <1>8
  <2>2. QED BY <1>8, <2>1 DEF step, IsWalk
<1>10. t[0] = 0 /\ \A k \in 1 .. n : t[k] = t[k - 1] + seq[k]
  BY DEF Sums
<1>11. w[n] = t[n]
  <2>1. Together(w, t, n)
    BY <1>9, <1>10 DEF Together
  <2>2. QED BY <2>1, EndTogether
<1>12. QED BY <1>1, <1>5, <1>8, <1>11

\* The first elements of a sequence.
LEMMA FirstIs ==
  ASSUME NEW n \in Nat, NEW S, NEW seq \in [1 .. n -> S], NEW k \in 0 .. n
  PROVE  SubSeq(seq, 1, k) = First(seq, k) /\ First(seq, k) \in [1 .. k -> S]
<1>1. SubSeq(seq, 1, k) = [i \in 1 .. (k - 1 + 1) |-> seq[i + 1 - 1]]
  BY DEF SubSeq
<1>2. k - 1 + 1 = k /\ \A i \in 1 .. k : i + 1 - 1 = i /\ i \in 1 .. n
  OBVIOUS
<1>3. SubSeq(seq, 1, k) = [i \in 1 .. k |-> seq[i]]
  BY <1>1, <1>2
<1>4. QED BY <1>2, <1>3 DEF First

\* Sums of the first ones.
LEMMA SumOfFirst ==
  ASSUME NEW n \in Nat, NEW seq \in [1 .. n -> Int], NEW t, Sums(t, seq, n), NEW k \in 0 .. n
  PROVE  SumOf(SubSeq(seq, 1, k)) = t[k]
<1> DEFINE some == First(seq, k)
           u == [i \in 0 .. k |-> t[i]]
<1>1. SubSeq(seq, 1, k) = some /\ some \in [1 .. k -> Int] /\ k \in Nat
  <2>1. k \in Nat
    OBVIOUS
  <2> HIDE DEF some
  <2>2. SubSeq(seq, 1, k) = First(seq, k) /\ First(seq, k) \in [1 .. k -> Int]
    BY Zenon, FirstIs
  <2>3. QED BY <2>1, <2>2 DEF some
<1>2. \A i \in 1 .. k : some[i] = seq[i] /\ i \in 1 .. n /\ i \in 0 .. k /\ i - 1 \in 0 .. k
  BY DEF First
<1>3. /\ u \in [0 .. k -> Int] /\ u[0] = 0 /\ u[k] = t[k]
      /\ \A i \in 1 .. k : u[i] = t[i] /\ u[i - 1] = t[i - 1]
  BY <1>2 DEF Sums
<1> HIDE DEF u, some
<1>4. Sums(u, some, k)
  <2>1. \A i \in 1 .. k : u[i] = u[i - 1] + some[i]
    BY <1>2, <1>3 DEF Sums
  <2>2. QED BY <1>3, <2>1 DEF Sums
<1>5. SumOf(some) = u[k]
  BY <1>1, <1>4, SumIs
<1>6. QED BY <1>1, <1>3, <1>5

\* Ascending numbers.
IsList(ids, n) ==
  /\ n \in Nat /\ ids \in [1 .. n -> Nat]
  /\ \A i, j \in 1 .. n : i < j => ids[i] < ids[j]

\* The gaps of a list, and their sums.
LEMMA DeltasAre ==
  ASSUME NEW ids, NEW n, IsList(ids, n)
  PROVE  DeltaEncode(ids) \in [1 .. n -> Nat] /\ DeltaDecode(DeltaEncode(ids)) = ids
<1> DEFINE gaps == DeltaEncode(ids)
           t == [k \in 0 .. n |-> IF k = 0 THEN 0 ELSE ids[k]]
<1>1. n \in Nat /\ ids \in [1 .. n -> Nat]
  BY DEF IsList
<1>2. gaps = [i \in 1 .. n |-> IF i = 1 THEN ids[1] ELSE ids[i] - ids[i - 1]]
  BY <1>1 DEF DeltaEncode
<1>3. ASSUME NEW k \in 1 .. n
      PROVE  gaps[k] \in Nat /\ t[k] = t[k - 1] + gaps[k]
  <2>1. ids[k] \in Nat /\ k \in 0 .. n /\ k - 1 \in 0 .. n
    BY <1>1
  <2> HIDE DEF gaps
  <2>2. CASE k = 1
    <3>1. gaps[k] = ids[k] /\ t[k - 1] = 0 /\ t[k] = ids[k]
      BY <1>2, <2>1, <2>2
    <3>2. QED BY <2>1, <3>1
  <2>3. CASE k # 1
    <3>1. k - 1 \in 1 .. n /\ k - 1 < k
      <4>1. k \in 1 .. n /\ n \in Nat
        BY <1>1
      <4>2. QED BY <2>3, <4>1
    <3>2. ids[k - 1] \in Nat /\ ids[k - 1] < ids[k]
      BY <1>1, <3>1 DEF IsList
    <3>3. gaps[k] = ids[k] - ids[k - 1] /\ t[k - 1] = ids[k - 1] /\ t[k] = ids[k]
      BY <1>2, <2>1, <2>3, <3>1
    <3>4. QED BY <2>1, <3>2, <3>3
  <2>4. QED BY <2>2, <2>3
<1>4. t \in [0 .. n -> Int] /\ t[0] = 0
  BY <1>1
<1> HIDE DEF gaps, t
<1>5. gaps \in [1 .. n -> Nat]
  BY <1>2, <1>3
<1>6. Sums(t, gaps, n)
  BY <1>3, <1>4 DEF Sums
<1>7. \A k \in 1 .. n : SumOf(SubSeq(gaps, 1, k)) = ids[k]
  <2> SUFFICES ASSUME NEW k \in 1 .. n PROVE SumOf(SubSeq(gaps, 1, k)) = ids[k]
    OBVIOUS
  <2>1. k \in 0 .. n /\ gaps \in [1 .. n -> Int]
    BY <1>5
  <2>2. SumOf(SubSeq(gaps, 1, k)) = t[k]
    BY <1>1, <1>6, <2>1, SumOfFirst
  <2>3. QED BY <2>1, <2>2 DEF t
<1>8. DeltaDecode(gaps) = [i \in 1 .. n |-> SumOf(SubSeq(gaps, 1, i))]
  BY <1>5 DEF DeltaDecode
<1>9. DeltaDecode(gaps) = ids
  BY <1>1, <1>7, <1>8
<1>10. QED BY <1>5, <1>9 DEF gaps
-----------------------------------------------------------------------------
(* Bits. *)

\* The bits of a number.
LEMMA BitsAre ==
  ASSUME NEW value \in Nat, NEW bits \in Nat
  PROVE  /\ BitsOf(value, bits) \in [1 .. bits -> 0 .. 1]
         /\ BitsOf(value, bits) = [k \in 1 .. bits |-> Remainder(Shifted(value, 2)[bits - k], 2)]
<1> DEFINE base == 2
           q == Shifted(value, 2)
<1>1. base \in Nat /\ base \in Bases
  BY DEF Bases
<1>2. q \in [Nat -> Nat]
  <2>1. Shifts(q, value, base)
    BY <1>1, ShiftedIs
  <2> HIDE DEF q
  <2>2. QED BY <2>1 DEF Shifts
<1>3. BitsOf(value, bits) = [k \in 1 .. bits |-> Remainder(q[bits - k], 2)]
  BY DEF BitsOf, Remainder
<1> HIDE DEF q
<1>4. ASSUME NEW k \in 1 .. bits PROVE Remainder(q[bits - k], 2) \in 0 .. 1
  <2> DEFINE x == q[bits - k]
  <2>1. bits - k \in Nat
    OBVIOUS
  <2>2. x \in Nat
    BY <1>2, <2>1
  <2> HIDE DEF x, base
  <2>3. Remainder(x, base) \in 0 .. base - 1
    BY <1>1, <2>2, Division
  <2>4. QED BY <2>3 DEF x, base
<1>5. QED BY <1>3, <1>4 DEF q

\* As many bits as a number has spell it.
LEMMA BitsSpell ==
  ASSUME NEW value \in Nat, NEW bits \in Nat, Shifted(value, 2)[bits] = 0
  PROVE  ValueOf(BitsOf(value, bits)) = value
<1> DEFINE base == 2
           digits == BitsOf(value, bits)
<1>1. base \in Nat /\ base \in Bases /\ Shifted(value, base)[bits] = 0
  BY DEF Bases
<1>2. /\ digits \in [1 .. bits -> 0 .. 1]
      /\ digits = [k \in 1 .. bits |-> Remainder(Shifted(value, base)[bits - k], base)]
  BY BitsAre
<1> HIDE DEF digits, base
<1>3. digits \in [1 .. bits -> Nat]
  BY <1>2, \A b \in 0 .. 1 : b \in Nat
<1>4. \A k \in 1 .. bits : digits[k] = Remainder(Shifted(value, base)[bits - k], base)
  BY <1>2
<1>5. Number(digits, base) = value
  BY <1>1, <1>3, <1>4, NumberOfDigits
<1>6. QED BY <1>5 DEF ValueOf, digits, base

\* And some bits are those of the number they spell.
LEMMA SpelledBits ==
  ASSUME NEW n \in Nat, NEW digits \in [1 .. n -> 0 .. 1]
  PROVE  ValueOf(digits) \in Nat /\ BitsOf(ValueOf(digits), n) = digits
<1> DEFINE base == 2
           value == ValueOf(digits)
<1>1. base \in Nat /\ base \in Bases /\ digits \in [1 .. n -> 0 .. base - 1]
  BY DEF Bases
<1>2. value = Number(digits, base)
  BY DEF ValueOf
<1> HIDE DEF value, base
<1>3. /\ value \in Nat
      /\ \A k \in 1 .. n : Remainder(Shifted(value, base)[n - k], base) = digits[k]
  BY <1>1, <1>2, DigitsOfNumber
<1>4. BitsOf(value, n) = [k \in 1 .. n |-> Remainder(Shifted(value, base)[n - k], base)]
  BY <1>3, BitsAre DEF base
<1>5. BitsOf(value, n) = digits
  BY <1>3, <1>4
<1>6. QED BY <1>3, <1>5 DEF value

\* The largest of some numbers.
LEMMA LargestIs ==
  ASSUME NEW n \in Nat, NEW seq \in [1 .. n -> Nat]
  PROVE  Largest(seq) \in Nat /\ \A i \in 1 .. n : seq[i] <= Largest(seq)
<1> DEFINE step == [i \in 1 .. n |-> [x \in Nat |-> IF seq[i] > x THEN seq[i] ELSE x]]
           Solves(f) == f = [s \in SUBSET DOMAIN seq |->
             IF s = {} THEN 0
             ELSE IF seq[Max(s)] > f[s \ {Max(s)}] THEN seq[Max(s)] ELSE f[s \ {Max(s)}]]
           Iter == CHOOSE iter : Solves(iter)
<1>1. 0 \in Nat /\ step \in [1 .. n -> [Nat -> Nat]] /\ DOMAIN seq = 1 .. n
  OBVIOUS
<1> HIDE DEF step
<1>2. PICK g \in [SUBSET (1 .. n) -> Nat] : Unwinds(g, 0, step, n)
  BY <1>1, FoldSolved
<1>3. Solves(g)
  BY <1>1, <1>2 DEF Unwinds, step
<1>4. Solves(Iter)
  <2> HIDE DEF Solves
  <2>1. QED BY <1>3
<1>5. Largest(seq) = Iter[DOMAIN seq]
  BY Zenon DEF Largest, FoldLeft, MapThenFoldSet
<1> HIDE DEF Iter
<1>6. UnwindsIn(Nat, Iter, 0, step, n)
  BY <1>1, <1>2, <1>4 DEF step, Unwinds, UnwindsIn
<1>7. WalksTo(Nat, Iter[1 .. n], 0, step, n)
  <2> HIDE DEF Solves
  <2>1. QED BY <1>1, <1>6, FoldWalk
<1>8. PICK w \in [0 .. n -> Nat] : IsWalk(w, 0, step, n) /\ w[n] = Iter[1 .. n]
  BY <1>7 DEF WalksTo
<1>9. \A k \in 1 .. n : w[k] = IF seq[k] > w[k - 1] THEN seq[k] ELSE w[k - 1]
  <2>1. \A k \in 1 .. n : w[k - 1] \in Nat
    BY <1>8
  <2>2. QED BY <1>8, <2>1 DEF step, IsWalk
<1> DEFINE T == {k \in 0 .. n : \A i \in 1 .. k : seq[i] <= w[k]}
<1>10. 0 \in T
  OBVIOUS
<1>11. ASSUME NEW k \in 0 .. n - 1, k \in T PROVE k + 1 \in T
  <2>1. k + 1 \in 1 .. n /\ (k + 1) - 1 = k /\ k + 1 \in 0 .. n
    OBVIOUS
  <2>2. w[k] \in Nat /\ seq[k + 1] \in Nat /\ w[k + 1] \in Nat
    BY <1>8, <2>1
  <2>3. w[k] <= w[k + 1] /\ seq[k + 1] <= w[k + 1]
    <3> DEFINE x == w[k]
               y == w[k + 1]
               z == seq[k + 1]
    <3>1. y = IF z > x THEN z ELSE x
      BY <1>9, <2>1
    <3>2. x \in Nat /\ y \in Nat /\ z \in Nat
      BY <2>2
    <3> HIDE DEF x, y, z
    <3>3. x <= y /\ z <= y
      BY <3>1, <3>2
    <3>4. QED BY <3>3 DEF x, y, z
  <2>4. ASSUME NEW i \in 1 .. k + 1 PROVE seq[i] <= w[k + 1]
    <3>1. CASE i = k + 1
      BY <2>3, <3>1
    <3>2. CASE i # k + 1
      <4>1. i \in 1 .. k /\ i \in 1 .. n
        BY <3>2
      <4>2. seq[i] <= w[k] /\ seq[i] \in Nat
        BY <1>11, <4>1
      <4>3. QED BY <2>2, <2>3, <4>2
    <3>3. QED BY <3>1, <3>2
  <2>5. QED BY <2>1, <2>4
<1>12. n \in T
  <2> HIDE DEF T
  <2>1. \A k \in 0 .. n : k \in T
    BY <1>10, <1>11, UpTo
  <2>2. QED BY <2>1
<1>13. Largest(seq) = w[n] /\ w[n] \in Nat
  BY <1>1, <1>5, <1>8
<1>14. QED BY <1>12, <1>13

\* The width for some numbers is enough for each.
LEMMA WidthFits ==
  ASSUME NEW n \in Nat, NEW seq \in [1 .. n -> Nat]
  PROVE  /\ WidthFor(seq) \in Nat \ {0}
         /\ \A i \in 1 .. n : Shifted(seq[i], 2)[WidthFor(seq)] = 0
<1> DEFINE base == 2
           most == Largest(seq)
           bits == Digits(most, base)
<1>1. base \in Nat /\ base \in Bases
  BY DEF Bases
<1>2. most \in Nat /\ \A i \in 1 .. n : seq[i] <= most
  BY LargestIs
<1> HIDE DEF most, base
<1>3. bits \in Nat \ {0} /\ Shifted(most, base)[bits] = 0
  BY <1>1, <1>2, DigitsIs
<1>4. WidthFor(seq) = bits
  BY DEF WidthFor, most, base
<1> HIDE DEF bits
<1>5. ASSUME NEW i \in 1 .. n PROVE Shifted(seq[i], base)[bits] = 0
  <2> DEFINE v == seq[i]
  <2>1. v \in Nat /\ v <= most
    BY <1>2
  <2> HIDE DEF v
  <2>2. Shifted(v, base)[bits] = 0
    BY <1>1, <1>2, <1>3, <2>1, SmallerIsShorter
  <2>3. QED BY <2>2 DEF v
<1>6. QED BY <1>3, <1>4, <1>5 DEF base
-----------------------------------------------------------------------------
(* Packed values. *)

SameLength(seqs, n, size) == \A t \in 1 .. n : Len(seqs[t]) = size
EvenlySpaced(o, n, size) == \A k \in 0 .. n : o[k] = k * size

\* Starts of sequences of one length.
LEMMA EvenStarts ==
  ASSUME NEW n \in Nat, NEW seqs, NEW o, StartsAt(o, seqs, n), NEW size \in Nat,
         SameLength(seqs, n, size)
  PROVE  EvenlySpaced(o, n, size)
<1> DEFINE T == {k \in 0 .. n : o[k] = k * size}
<1>1. 0 \in T
  BY DEF StartsAt
<1>2. ASSUME NEW k \in 0 .. n - 1, k \in T PROVE k + 1 \in T
  <2>1. k + 1 \in 1 .. n /\ (k + 1) - 1 = k /\ k + 1 \in 0 .. n /\ k \in Nat
    OBVIOUS
  <2>2. o[k + 1] = o[k] + size /\ o[k] = k * size
    BY <1>2, <2>1 DEF StartsAt, SameLength
  <2>3. k * size + size = (k + 1) * size
    BY <2>1
  <2>4. QED BY <2>1, <2>2, <2>3
<1>3. \A k \in 0 .. n : k \in T
  <2> HIDE DEF T
  <2>1. QED BY <1>1, <1>2, UpTo
<1>4. QED BY <1>3 DEF EvenlySpaced

\* Whole bytes are as many as are needed.
LEMMA SizeIs ==
  ASSUME NEW count \in Nat, NEW bits \in Nat
  PROVE  PackedSize(count, bits) \in Nat /\ count * bits <= 8 * PackedSize(count, bits)
<1> DEFINE x == count * bits
<1>1. x \in Nat
  OBVIOUS
<1> HIDE DEF x
<1>2. (x + 7) \div 8 \in Nat /\ x <= 8 * ((x + 7) \div 8)
  BY <1>1
<1>3. QED BY <1>2 DEF PackedSize, x

Spread(seq, n, bits) == [i \in 1 .. n |-> BitsOf(seq[i], bits)]

\* What values become in so many bits.
LEMMA SpreadIs ==
  ASSUME NEW n \in Nat, NEW seq \in [1 .. n -> Nat], NEW bits \in Nat
  PROVE  /\ Spread(seq, n, bits) \in [1 .. n -> Seq(0 .. 1)]
         /\ \A i \in 1 .. n : Len(Spread(seq, n, bits)[i]) = bits
<1>1. ASSUME NEW i \in 1 .. n PROVE BitsOf(seq[i], bits) \in Seq(0 .. 1) /\ Len(BitsOf(seq[i], bits)) = bits
  <2> DEFINE b == BitsOf(seq[i], bits)
  <2>1. b \in [1 .. bits -> 0 .. 1]
    <3>1. seq[i] \in Nat
      OBVIOUS
    <3>2. QED BY <3>1, BitsAre
  <2> HIDE DEF b
  <2>2. b \in Seq(0 .. 1) /\ Len(b) = bits
    BY <2>1, LenIs
  <2>3. QED BY <2>2 DEF b
<1>2. QED BY <1>1 DEF Spread

\* The stream of such bits.
Streams(stream, seq, n, bits) ==
  /\ stream \in Seq(0 .. 1) /\ Len(stream) = n * bits
  /\ \A i \in 1 .. n : Stands(BitsOf(seq[i], bits), stream, 1 + (i - 1) * bits)

\* Values one after the other are such a stream.
LEMMA StreamIs ==
  ASSUME NEW n \in Nat, NEW seq \in [1 .. n -> Nat], NEW bits \in Nat
  PROVE  Streams(FlattenSeq(Spread(seq, n, bits)), seq, n, bits)
<1> DEFINE parts == Spread(seq, n, bits)
           stream == FlattenSeq(parts)
<1>1. parts \in [1 .. n -> Seq(0 .. 1)] /\ \A i \in 1 .. n : Len(parts[i]) = bits
  BY SpreadIs
<1>2. \A i \in 1 .. n : parts[i] = BitsOf(seq[i], bits)
  BY DEF Spread
<1> HIDE DEF parts
<1>3. stream \in Seq(0 .. 1) /\ \E o : Laid(stream, parts, n, o)
  BY <1>1, FlattenIsLaid
<1> HIDE DEF stream
<1>4. PICK o : Laid(stream, parts, n, o)
  BY <1>3
<1>5. /\ StartsAt(o, parts, n) /\ Len(stream) = o[n]
      /\ \A t \in 1 .. n : Stands(parts[t], stream, 1 + o[t - 1])
  BY <1>4 DEF Laid
<1>6. \A k \in 0 .. n : o[k] = k * bits
  <2>1. SameLength(parts, n, bits)
    BY <1>1 DEF SameLength
  <2>2. EvenlySpaced(o, n, bits)
    BY <1>5, <2>1, EvenStarts
  <2>3. QED BY <2>2 DEF EvenlySpaced
<1>7. Len(stream) = n * bits
  BY <1>5, <1>6
<1>8. ASSUME NEW i \in 1 .. n PROVE Stands(BitsOf(seq[i], bits), stream, 1 + (i - 1) * bits)
  <2>1. i - 1 \in 0 .. n
    OBVIOUS
  <2>2. o[i - 1] = (i - 1) * bits
    BY <1>6, <2>1
  <2>3. QED BY <1>2, <1>5, <2>2
<1>9. QED BY <1>3, <1>7, <1>8 DEF Streams, stream, parts

BytesFrom(stream, size) == [k \in 1 .. size |-> ValueOf(Slice(stream, 8 * k - 7, 8))]
BitsFrom(data, size) == FlattenSeq([k \in 1 .. size |-> BitsOf(data[k], 8)])

\* The bytes of a stream, filled up, are those bits again.
LEMMA BytesAreBits ==
  ASSUME NEW size \in Nat, NEW padded \in Seq(0 .. 1), Len(padded) = 8 * size,
         NEW data, data = BytesFrom(padded, size)
  PROVE  data \in [1 .. size -> Nat] /\ BitsFrom(data, size) = padded
<1>1. ASSUME NEW k \in 1 .. size
      PROVE  /\ data[k] \in Nat /\ BitsOf(data[k], 8) = Slice(padded, 8 * k - 7, 8)
             /\ Slice(padded, 8 * k - 7, 8) = [i \in 1 .. 8 |-> padded[(8 * k - 7) + i - 1]]
  <2> DEFINE pos == 8 * k - 7
             s == Slice(padded, pos, 8)
             n == 8
  <2>1. pos \in Nat \ {0} /\ pos + n <= Len(padded) + 1 /\ n \in Nat
    OBVIOUS
  <2>2. /\ s \in Seq(0 .. 1) /\ Len(s) = n
        /\ s = [i \in 1 .. n |-> padded[pos + i - 1]]
    <3> HIDE DEF pos, n
    <3>1. /\ Slice(padded, pos, n) \in Seq(0 .. 1) /\ Len(Slice(padded, pos, n)) = n
          /\ Slice(padded, pos, n) = [i \in 1 .. n |-> padded[pos + i - 1]]
      BY <2>1, SliceIs
    <3>2. QED BY <3>1 DEF n
  <2> HIDE DEF s, pos
  <2>3. s \in [1 .. n -> 0 .. 1]
    BY <2>2
  <2>4. ValueOf(s) \in Nat /\ BitsOf(ValueOf(s), n) = s
    <3> HIDE DEF n
    <3>1. QED BY <2>1, <2>3, SpelledBits
  <2>5. data[k] = ValueOf(s)
    BY DEF s, pos, BytesFrom
  <2>6. QED BY <2>2, <2>4, <2>5 DEF s, pos
<1>2. data \in [1 .. size -> Nat]
  BY <1>1 DEF BytesFrom
<1> DEFINE eight == 8
           stream == FlattenSeq(Spread(data, size, eight))
<1>3. Streams(stream, data, size, eight)
  <2>1. eight \in Nat
    OBVIOUS
  <2> HIDE DEF eight
  <2>2. QED BY <1>2, <2>1, StreamIs
<1> HIDE DEF stream
<1>4. /\ stream \in Seq(0 .. 1) /\ Len(stream) = Len(padded)
      /\ \A i \in 1 .. size : Stands(BitsOf(data[i], 8), stream, 1 + (i - 1) * 8)
  BY <1>3 DEF Streams
<1>5. ASSUME NEW x \in 1 .. 8 * size PROVE stream[x] = padded[x]
  <2> DEFINE k == (x - 1) \div 8 + 1
             i == x - 8 * (k - 1)
  <2>1. k \in 1 .. size /\ i \in 1 .. 8 /\ (8 * k - 7) + i - 1 = x /\ 1 + (k - 1) * 8 + i - 1 = x
    OBVIOUS
  <2> HIDE DEF k, i
  <2> DEFINE b == BitsOf(data[k], 8)
             pos == 1 + (k - 1) * 8
  <2>2. b = [j \in 1 .. 8 |-> padded[(8 * k - 7) + j - 1]]
    BY <1>1, <2>1
  <2>3. Stands(b, stream, pos)
    BY <1>4, <2>1
  <2>4. Len(b) = 8
    <3> DEFINE n == 8
    <3>1. b \in [1 .. n -> {b[j] : j \in 1 .. n}] /\ n \in Nat
      BY <2>2
    <3> HIDE DEF b, n
    <3>2. Len(b) = n
      BY <3>1, LenIs
    <3>3. QED BY <3>2 DEF n
  <2>5. pos + i - 1 = x
    BY <2>1
  <2> HIDE DEF b, pos
  <2>6. stream[x] = b[i]
    BY <2>1, <2>3, <2>4, <2>5 DEF Stands
  <2>7. b[i] = padded[x]
    BY <2>1, <2>2
  <2>8. QED BY <2>6, <2>7
<1>6. stream = padded
  <2>1. stream = [x \in 1 .. 8 * size |-> stream[x]] /\ padded = [x \in 1 .. 8 * size |-> padded[x]]
    BY <1>4
  <2>2. QED BY <1>5, <2>1
<1>7. BitsFrom(data, size) = padded
  BY <1>6 DEF stream, Spread, BitsFrom
<1>8. QED BY <1>2, <1>7

\* Packed values are unpacked again.
LEMMA PackUnpacks ==
  ASSUME NEW n \in Nat, NEW seq \in [1 .. n -> Nat], NEW bits \in Nat,
         \A i \in 1 .. n : Shifted(seq[i], 2)[bits] = 0
  PROVE  /\ Pack(seq, bits) \in Seq(Nat) /\ Len(Pack(seq, bits)) = PackedSize(n, bits)
         /\ Unpack(Pack(seq, bits), n, bits) = seq
<1> DEFINE stream == FlattenSeq(Spread(seq, n, bits))
           size == PackedSize(n, bits)
           zeros == [i \in 1 .. 8 * size - Len(stream) |-> 0]
           padded == stream \o zeros
           data == Pack(seq, bits)
<1>1. /\ stream \in Seq(0 .. 1) /\ Len(stream) = n * bits
      /\ \A i \in 1 .. n : Stands(BitsOf(seq[i], bits), stream, 1 + (i - 1) * bits)
  <2>1. Streams(stream, seq, n, bits)
    BY StreamIs
  <2> HIDE DEF stream
  <2>2. QED BY <2>1 DEF Streams
<1>2. size \in Nat /\ n * bits <= 8 * size
  BY SizeIs
<1>3. data = BytesFrom(padded, size)
  <2>1. DOMAIN seq = 1 .. n /\ Len(seq) = n
    OBVIOUS
  <2>2. [i \in DOMAIN seq |-> BitsOf(seq[i], bits)] = Spread(seq, n, bits)
    BY <2>1 DEF Spread
  <2>3. QED BY <2>1, <2>2 DEF Pack, BytesFrom
<1> HIDE DEF stream, size, data
<1>4. padded \in Seq(0 .. 1) /\ Len(padded) = 8 * size /\ Stands(stream, padded, 1)
  <2> DEFINE m == 8 * size - Len(stream)
  <2>1. n * bits \in Nat
    OBVIOUS
  <2>2. m \in Nat /\ Len(stream) \in Nat /\ Len(stream) + m = 8 * size
    BY <1>1, <1>2, <2>1
  <2>3. zeros \in [1 .. m -> 0 .. 1]
    OBVIOUS
  <2> HIDE DEF zeros, m
  <2>4. zeros \in Seq(0 .. 1) /\ Len(zeros) = m
    BY <2>2, <2>3, LenIs
  <2>5. Concatenates(stream, zeros, padded)
    BY <1>1, <2>4, ConcatIs
  <2>6. padded \in Seq(0 .. 1)
    BY <1>1, <2>4
  <2>7. Stands(padded, padded, 1)
    BY <2>6, StandsWhole
  <2>8. Stands(stream, padded, 1)
    BY <1>1, <2>4, <2>7, StandsConcat
  <2>9. QED BY <2>2, <2>4, <2>5, <2>6, <2>8 DEF Concatenates
<1> HIDE DEF padded
<1>5. data \in [1 .. size -> Nat] /\ BitsFrom(data, size) = padded
  BY <1>2, <1>3, <1>4, BytesAreBits
<1>6. data \in Seq(Nat) /\ Len(data) = size
  BY <1>2, <1>5, LenIs
<1>7. Unpack(data, n, bits) = [i \in 1 .. n |-> ValueOf(Slice(padded, (i - 1) * bits + 1, bits))]
  <2>1. DOMAIN data = 1 .. size
    BY <1>5
  <2>2. QED BY <1>5, <2>1 DEF Unpack, BitsFrom
<1>8. ASSUME NEW i \in 1 .. n PROVE ValueOf(Slice(padded, (i - 1) * bits + 1, bits)) = seq[i]
  <2> DEFINE pos == (i - 1) * bits + 1
             b == BitsOf(seq[i], bits)
  <2>1. pos \in Nat /\ 1 + (i - 1) * bits = pos /\ 1 + pos - 1 = pos
    <3>1. (i - 1) * bits \in Nat
      <4>1. i - 1 \in Nat
        OBVIOUS
      <4>2. QED BY <4>1
    <3>2. QED BY <3>1
  <2>2. Stands(b, stream, pos)
    BY <1>1, <2>1
  <2>3. b \in [1 .. bits -> 0 .. 1]
    <3>1. seq[i] \in Nat
      OBVIOUS
    <3>2. QED BY <3>1, BitsAre
  <2> HIDE DEF pos, b
  <2>4. b \in Seq(0 .. 1) /\ Len(b) = bits
    BY <2>3, LenIs
  <2>5. Stands(b, padded, pos)
    <3>1. Stands(b, padded, 1 + pos - 1)
      BY <1>4, <2>2, StandsWithin
    <3>2. QED BY <2>1, <3>1
  <2>6. Slice(padded, pos, Len(b)) = b
    BY <2>4, <2>5, SliceStands
  <2>7. ValueOf(b) = seq[i]
    <3> DEFINE v == seq[i]
    <3>1. v \in Nat /\ Shifted(v, 2)[bits] = 0
      OBVIOUS
    <3> HIDE DEF v
    <3>2. ValueOf(BitsOf(v, bits)) = v
      BY <3>1, BitsSpell
    <3>3. QED BY <3>2 DEF v, b
  <2>8. QED BY <2>4, <2>6, <2>7 DEF pos
<1>9. Unpack(data, n, bits) = seq
  BY <1>7, <1>8
<1>10. QED BY <1>6, <1>9 DEF data, size
-----------------------------------------------------------------------------
(* A block. *)

Gaps(ids, before) ==
  [i \in DOMAIN ids |-> ids[i] - (IF i = 1 THEN before ELSE ids[i - 1])]

Regained(ids, gaps, before, size) ==
  \A i \in 1 .. size : before + SumOf(SubSeq(gaps, 1, i)) = ids[i]

\* Gaps from a number on add up to the ids again.
LEMMA GapsAre ==
  ASSUME NEW size \in Nat, NEW ids, IsList(ids, size), NEW before \in Nat,
         size # 0 => before <= ids[1]
  PROVE  /\ Gaps(ids, before) \in [1 .. size -> Nat]
         /\ Regained(ids, Gaps(ids, before), before, size)
<1> DEFINE gaps == Gaps(ids, before)
           t == [k \in 0 .. size |-> IF k = 0 THEN 0 ELSE ids[k] - before]
<1>1. ids \in [1 .. size -> Nat]
  BY DEF IsList
<1>2. gaps = [i \in 1 .. size |-> ids[i] - (IF i = 1 THEN before ELSE ids[i - 1])]
  BY <1>1 DEF Gaps
<1>3. ASSUME NEW k \in 1 .. size
      PROVE  gaps[k] \in Nat /\ t[k] = t[k - 1] + gaps[k] /\ t[k] \in Int
  <2>1. ids[k] \in Nat /\ k \in 0 .. size /\ k - 1 \in 0 .. size /\ size # 0
    BY <1>1
  <2> HIDE DEF gaps
  <2>2. CASE k = 1
    <3>1. gaps[k] = ids[k] - before /\ t[k - 1] = 0 /\ t[k] = ids[k] - before /\ before <= ids[k]
      BY <1>2, <2>1, <2>2
    <3>2. QED BY <2>1, <3>1
  <2>3. CASE k # 1
    <3>1. k - 1 \in 1 .. size /\ k - 1 < k
      BY <2>3
    <3>2. ids[k - 1] \in Nat /\ ids[k - 1] < ids[k]
      BY <1>1, <3>1 DEF IsList
    <3>3. gaps[k] = ids[k] - ids[k - 1] /\ t[k - 1] = ids[k - 1] - before /\ t[k] = ids[k] - before
      BY <1>2, <2>1, <2>3, <3>1
    <3>4. QED BY <2>1, <3>2, <3>3
  <2>4. QED BY <2>2, <2>3
<1>4. t[0] = 0 /\ 0 \in Int /\ t = [k \in 0 .. size |-> t[k]]
  OBVIOUS
<1>5. t \in [0 .. size -> Int]
  <2>1. \A k \in 0 .. size : k = 0 \/ k \in 1 .. size
    OBVIOUS
  <2> HIDE DEF t
  <2>2. QED BY <1>3, <1>4, <2>1
<1>6. \A k \in 1 .. size : t[k] = ids[k] - before
  OBVIOUS
<1> HIDE DEF gaps, t
<1>7. gaps \in [1 .. size -> Nat]
  BY <1>2, <1>3
<1>8. Sums(t, gaps, size)
  BY <1>3, <1>4, <1>5 DEF Sums
<1>9. ASSUME NEW k \in 1 .. size PROVE before + SumOf(SubSeq(gaps, 1, k)) = ids[k]
  <2>1. k \in 0 .. size /\ gaps \in [1 .. size -> Int] /\ ids[k] \in Nat
    BY <1>1, <1>7
  <2>2. SumOf(SubSeq(gaps, 1, k)) = t[k]
    BY <1>8, <2>1, SumOfFirst
  <2>3. t[k] = ids[k] - before
    BY <1>6
  <2>4. QED BY <2>1, <2>2, <2>3
<1>10. QED BY <1>7, <1>9 DEF gaps, Regained

\* A block and its entry in the skip index.
Written(block, gaps, freqs, size, wide, wider, length, step) ==
  /\ wide \in Nat /\ wider \in Nat /\ length \in Nat /\ step \in Nat
  /\ Pack(gaps, wide) \in Seq(Nat) /\ Len(Pack(gaps, wide)) = PackedSize(size, wide)
  /\ Unpack(Pack(gaps, wide), size, wide) = gaps
  /\ Pack(freqs, wider) \in Seq(Nat) /\ Len(Pack(freqs, wider)) = PackedSize(size, wider)
  /\ Unpack(Pack(freqs, wider), size, wider) = freqs
  /\ block.data = Pack(gaps, wide) \o Pack(freqs, wider)
  /\ block.data \in Seq(Nat) /\ Len(block.data) = length
  /\ block.skip = EncodeVarint(step) \o EncodeVarint(length) \o <<wide, wider>>
  /\ block.skip \in Seq(Nat)

\* Values at their own width.
LEMMA PackedAtWidth ==
  ASSUME NEW size \in Nat, NEW seq \in [1 .. size -> Nat], NEW wide, wide = WidthFor(seq)
  PROVE  /\ wide \in Nat
         /\ Pack(seq, wide) \in Seq(Nat) /\ Len(Pack(seq, wide)) = PackedSize(size, wide)
         /\ Unpack(Pack(seq, wide), size, wide) = seq
<1>1. wide \in Nat /\ \A i \in 1 .. size : Shifted(seq[i], 2)[wide] = 0
  BY WidthFits
<1>2. QED BY <1>1, PackUnpacks

\* encode_block() writes these.
LEMMA BlockIs ==
  ASSUME NEW size \in Nat \ {0}, NEW ids, IsList(ids, size), NEW freqs \in [1 .. size -> Nat],
         NEW before \in Nat, before <= ids[1],
         NEW block, block = EncodeBlock(ids, freqs, before)
  PROVE  Written(block, Gaps(ids, before), freqs, size, WidthFor(Gaps(ids, before)),
                 WidthFor(freqs), Len(block.data), ids[size] - before)
<1> DEFINE gaps == Gaps(ids, before)
           wide == WidthFor(gaps)
           wider == WidthFor(freqs)
           length == Len(block.data)
           step == ids[size] - before
<1>1. size \in Nat /\ gaps \in [1 .. size -> Nat]
  BY GapsAre
<1>2. block = [data |-> Pack(gaps, wide) \o Pack(freqs, wider),
               skip |-> EncodeVarint(ids[Len(ids)] - before)
                          \o EncodeVarint(Len(Pack(gaps, wide) \o Pack(freqs, wider)))
                          \o <<wide, wider>>]
  BY DEF EncodeBlock, Gaps
<1> HIDE DEF gaps
<1>3. /\ wide \in Nat
      /\ Pack(gaps, wide) \in Seq(Nat) /\ Len(Pack(gaps, wide)) = PackedSize(size, wide)
      /\ Unpack(Pack(gaps, wide), size, wide) = gaps
  <2> HIDE DEF wide
  <2>1. wide = WidthFor(gaps)
    BY DEF wide
  <2>2. QED BY <1>1, <2>1, PackedAtWidth
<1>4. /\ wider \in Nat
      /\ Pack(freqs, wider) \in Seq(Nat) /\ Len(Pack(freqs, wider)) = PackedSize(size, wider)
      /\ Unpack(Pack(freqs, wider), size, wider) = freqs
  <2> HIDE DEF wider
  <2>1. wider = WidthFor(freqs)
    BY DEF wider
  <2>2. QED BY <1>1, <2>1, PackedAtWidth
<1> HIDE DEF wide, wider
<1>5. block.data = Pack(gaps, wide) \o Pack(freqs, wider) /\ block.data \in Seq(Nat) /\ length \in Nat
  <2> DEFINE raw == Pack(gaps, wide) \o Pack(freqs, wider)
             skip == EncodeVarint(ids[Len(ids)] - before) \o EncodeVarint(Len(raw))
                       \o <<wide, wider>>
  <2>1. block = [data |-> raw, skip |-> skip]
    BY Zenon, <1>2
  <2>2. raw \in Seq(Nat)
    <3> DEFINE x == Pack(gaps, wide)
               y == Pack(freqs, wider)
    <3>1. x \in Seq(Nat) /\ y \in Seq(Nat)
      BY <1>3, <1>4
    <3> HIDE DEF x, y
    <3>2. x \o y \in Seq(Nat)
      BY ONLY <3>1
    <3>3. QED BY <3>2 DEF x, y
  <2> HIDE DEF raw, skip
  <2>3. block.data = raw
    BY ONLY <2>1
  <2>4. Len(raw) \in Nat
    BY ONLY <2>2
  <2>5. QED BY <2>2, <2>3, <2>4 DEF raw
<1>6. step \in Nat /\ Len(ids) = size
  <2>1. ids \in [1 .. size -> Nat] /\ 1 \in 1 .. size /\ size \in 1 .. size
    BY DEF IsList
  <2>2. ids[1] <= ids[size] /\ ids[1] \in Nat /\ ids[size] \in Nat
    <3>1. 1 = size \/ 1 < size
      BY <1>1
    <3>2. ids[1] \in Nat /\ ids[size] \in Nat
      BY <2>1
    <3>3. 1 < size => ids[1] < ids[size]
      BY <2>1 DEF IsList
    <3>4. QED BY <3>1, <3>2, <3>3
  <2>3. Len(ids) = size
    BY <1>1, <2>1, LenIs
  <2>4. QED BY <2>2, <2>3
<1>7. block.skip = EncodeVarint(step) \o EncodeVarint(length) \o <<wide, wider>>
  <2> DEFINE raw == Pack(gaps, wide) \o Pack(freqs, wider)
  <2>1. /\ block.data = raw
        /\ block.skip = EncodeVarint(ids[Len(ids)] - before) \o EncodeVarint(Len(raw))
                          \o <<wide, wider>>
    <3> DEFINE skip == EncodeVarint(ids[Len(ids)] - before) \o EncodeVarint(Len(raw))
                          \o <<wide, wider>>
    <3>1. block = [data |-> raw, skip |-> skip]
      BY Zenon, <1>2
    <3> HIDE DEF raw, skip
    <3>2. block.data = raw /\ block.skip = skip
      BY ONLY <3>1
    <3>3. QED BY Zenon, <3>2 DEF skip
  <2> HIDE DEF raw
  <2>2. Len(raw) = length /\ ids[Len(ids)] - before = step
    BY <1>6, <2>1
  <2> HIDE DEF step, length
  <2>3. QED BY Zenon, <2>1, <2>2
<1> HIDE DEF step, length
<1>8. block.skip \in Seq(Nat)
  <2>1. EncodeVarint(step) \in Seq(Nat) /\ EncodeVarint(length) \in Seq(Nat)
    BY <1>5, <1>6, VarintIs DEF VarintHas, VarintBytes
  <2>2. <<wide, wider>> \in Seq(Nat)
    BY <1>3, <1>4
  <2>3. QED BY <1>7, <2>1, <2>2
<1>9. Len(block.data) = length
  BY DEF length
<1>10. Written(block, gaps, freqs, size, wide, wider, length, step)
  BY <1>3, <1>4, <1>5, <1>6, <1>7, <1>8, <1>9 DEF Written
<1>11. QED BY <1>10 DEF gaps, wide, wider, length, step

\* Two varints, one after the other.
LEMMA PairIs ==
  ASSUME NEW d \in Nat, NEW l \in Nat
  PROVE  /\ <<d, l>> \in [1 .. 2 -> Nat]
         /\ EncodeVarint(d) \in Seq(Nat) /\ EncodeVarint(l) \in Seq(Nat)
         /\ EncodeVarints(<<d, l>>) = EncodeVarint(d) \o EncodeVarint(l)
<1> DEFINE x == EncodeVarint(d)
           y == EncodeVarint(l)
           encs == [i \in 1 .. 2 |-> EncodeVarint(<<d, l>>[i])]
           n == 2
<1>1. <<d, l>> \in [1 .. 2 -> Nat] /\ DOMAIN <<d, l>> = 1 .. 2
  OBVIOUS
<1>2. x \in Seq(Nat) /\ y \in Seq(Nat)
  BY VarintIs DEF VarintHas, VarintBytes
<1>3. encs[1] = x /\ encs[2] = y
  OBVIOUS
<1>4. EncodeVarints(<<d, l>>) = FlattenSeq(encs)
  BY <1>1 DEF EncodeVarints
<1>5. n \in Nat /\ encs \in [1 .. n -> Seq(Nat)]
  <2> HIDE DEF x, y
  <2>1. \A i \in 1 .. 2 : i = 1 \/ i = 2
    OBVIOUS
  <2>2. \A i \in 1 .. 2 : encs[i] \in Seq(Nat)
    BY <1>2, <1>3, <2>1
  <2>3. QED BY <2>2
<1> HIDE DEF encs, x, y
<1>6. PICK w \in [0 .. n -> Seq(Nat)] : Joins(w, encs, n) /\ FlattenSeq(encs) = w[n]
  <2> HIDE DEF n
  <2>1. QED BY <1>5, FlattenWalks
<1>7. w[0] = <<>> /\ w[1] = w[0] \o encs[1] /\ w[2] = w[1] \o encs[2]
  <2>1. 1 \in 1 .. n /\ 2 \in 1 .. n /\ 1 - 1 = 0 /\ 2 - 1 = 1
    OBVIOUS
  <2> HIDE DEF n
  <2>2. w[0] = <<>> /\ w[1] = w[1 - 1] \o encs[1] /\ w[2] = w[2 - 1] \o encs[2]
    BY <1>6, <2>1 DEF Joins
  <2>3. QED BY <2>1, <2>2
<1>8. <<>> \o x = x
  BY <1>2
<1>9. FlattenSeq(encs) = x \o y
  BY <1>3, <1>6, <1>7, <1>8
<1>10. QED BY <1>1, <1>2, <1>4, <1>9 DEF x, y

\* An entry of the skip index, and what reading it adds.
SkipEntry(skip, d, l, wide, wider) == skip = EncodeVarint(d) \o EncodeVarint(l) \o <<wide, wider>>

Entered(open, d, l, wide, wider, size) ==
  [last |-> Append(open.last, d + (IF open.last = <<>> THEN 0 ELSE Last(open.last))),
   length |-> Append(open.length, l),
   bits |-> Append(open.bits, <<wide, wider>>),
   next |-> open.next + size]

\* An entry of the skip index is read where it stands.
LEMMA SkipReads ==
  ASSUME NEW data, NEW open, NEW d \in Nat, NEW l \in Nat, NEW wide \in Nat, NEW wider \in Nat,
         NEW skip, SkipEntry(skip, d, l, wide, wider), Stands(skip, data, open.next)
  PROVE  ReadSkip(open, data) = Entered(open, d, l, wide, wider, Len(skip))
<1> DEFINE x == EncodeVarint(d) \o EncodeVarint(l)
           y == <<wide, wider>>
           pos == open.next
           values == <<d, l>>
           pair == DecodeVarints(data, 2, pos)
           n == 2
<1>1. /\ x \in Seq(Nat) /\ y \in Seq(Nat) /\ Len(y) = 2 /\ skip = x \o y
      /\ EncodeVarints(values) = x /\ values \in [1 .. n -> Nat] /\ n \in Nat
      /\ y[1] = wide /\ y[2] = wider
  BY PairIs DEF SkipEntry
<1> HIDE DEF x, y, pos, values
<1>2. /\ Stands(x, data, pos) /\ Stands(y, data, pos + Len(x))
      /\ Len(skip) = Len(x) + 2 /\ Len(x) \in Nat
  <2>1. Stands(x \o y, data, pos)
    BY <1>1 DEF pos
  <2>2. QED BY <1>1, <2>1, StandsConcat
<1>3. pair.values = values /\ pair.next = pos + Len(x)
  <2> HIDE DEF n
  <2>1. Stands(EncodeVarints(values), data, pos)
    BY <1>1, <1>2
  <2>2. n \in Nat /\ values \in [1 .. n -> Nat]
    BY <1>1
  <2>3. /\ DecodeVarints(data, n, pos).values = values
        /\ DecodeVarints(data, n, pos).next = pos + Len(EncodeVarints(values))
    BY ONLY <2>1, <2>2, VarintsRead
  <2>4. QED BY <1>1, <2>3 DEF n
<1>4. pair.values[1] = d /\ pair.values[2] = l
  BY <1>3 DEF values
<1> DEFINE p == pos + Len(x)
<1>5. pos \in Nat /\ p \in Nat
  BY <1>2 DEF Stands
<1>6. data[p] = wide /\ data[p + 1] = wider
  <2>1. p + 1 - 1 = p /\ p + 2 - 1 = p + 1 /\ 1 \in 1 .. 2 /\ 2 \in 1 .. 2
    BY <1>5
  <2> HIDE DEF p
  <2>2. data[p + 1 - 1] = y[1] /\ data[p + 2 - 1] = y[2]
    BY <1>1, <1>2, <2>1 DEF Stands, p
  <2>3. QED BY <1>1, <2>1, <2>2
<1>7. p + 2 = pos + Len(skip)
  <2> DEFINE k == Len(x)
             m == Len(skip)
  <2>1. m = k + 2 /\ k \in Nat /\ p = pos + k
    BY <1>2
  <2> HIDE DEF k, m, p
  <2>2. p + 2 = pos + m
    BY <1>5, <2>1
  <2>3. QED BY <2>2 DEF m
<1> HIDE DEF p, pair
<1>8. pair.next = p
  BY <1>3 DEF p
<1>9. ReadSkip(open, data) =
        [last |-> Append(open.last, pair.values[1]
                           + (IF open.last = <<>> THEN 0 ELSE Last(open.last))),
         length |-> Append(open.length, pair.values[2]),
         bits |-> Append(open.bits, <<data[pair.next], data[pair.next + 1]>>),
         next |-> pair.next + 2]
  BY DEF ReadSkip, pair, pos
<1>10. QED BY <1>4, <1>6, <1>7, <1>8, <1>9 DEF pos, Entered
-----------------------------------------------------------------------------
(* A list in blocks. *)

\* Where blocks end: the last one with the list.
Cuts(at, m, n) ==
  /\ m \in Nat /\ n \in Nat /\ at \in [0 .. m -> Nat] /\ at[0] = 0 /\ at[m] = n
  /\ \A b \in 1 .. m : at[b - 1] < at[b] /\ at[b] <= n

\* Blocks as long as they may be.
FullBlocks(at, m, n) ==
  \A b \in 1 .. m : /\ (b - 1) * BlockSize = at[b - 1]
                    /\ Smaller(BlockSize, n - at[b - 1]) = at[b] - at[b - 1]

CountOf(n, size) == (n + size - 1) \div size

CutEvery(n, size) ==
  [b \in 0 .. CountOf(n, size) |-> IF b < CountOf(n, size) THEN b * size ELSE n]

EvenAt(at, m, n, size) ==
  \A b \in 1 .. m : /\ (b - 1) * size = at[b - 1]
                    /\ Smaller(size, n - at[b - 1]) = at[b] - at[b - 1]

\* Cutting every so many elements.
LEMMA EveryCut ==
  ASSUME NEW n \in Nat \ {0}, NEW size \in Nat \ {0}
  PROVE  /\ CountOf(n, size) \in Nat \ {0}
         /\ Cuts(CutEvery(n, size), CountOf(n, size), n)
         /\ EvenAt(CutEvery(n, size), CountOf(n, size), n, size)
<1> DEFINE m == CountOf(n, size)
           at == CutEvery(n, size)
<1>1. size \in Nat \ {0}
  OBVIOUS
<1>2. m \in Nat /\ m * size <= n + size - 1 /\ n + size - 1 < m * size + size
  <2> DEFINE s == n + size - 1
  <2>1. s \in Nat
    BY <1>1
  <2>2. m = s \div size
    BY DEF CountOf
  <2> HIDE DEF s, m
  <2>3. s \div size \in Nat /\ (s \div size) * size <= s /\ s < (s \div size) * size + size
    BY <1>1, <2>1
  <2>4. QED BY <2>2, <2>3 DEF s
<1>3. m # 0 /\ m \in Nat \ {0} /\ (m - 1) * size < n /\ n <= m * size
  <2> HIDE DEF m
  <2>1. m # 0
    BY <1>1, <1>2
  <2>2. (m - 1) * size = m * size - size /\ m * size \in Nat
    BY <1>1, <1>2
  <2>3. QED BY <1>1, <1>2, <2>1, <2>2
<1>4. at = [b \in 0 .. m |-> IF b < m THEN b * size ELSE n]
  BY DEF CutEvery
<1> HIDE DEF m, at
<1>5. ASSUME NEW b \in 0 .. m - 1
      PROVE  at[b] = b * size /\ b * size \in Nat /\ b * size < n
  <2>1. b \in 0 .. m /\ b < m /\ b \in Nat
    BY <1>3
  <2>2. at[b] = b * size
    BY <1>4, <2>1
  <2>3. b * size \in Nat /\ b * size <= (m - 1) * size
    BY <1>1, <1>3, <2>1
  <2>4. (m - 1) * size \in Int
    BY <1>1, <1>3
  <2>5. QED BY <1>3, <2>2, <2>3, <2>4
<1>6. at[m] = n
  BY <1>3, <1>4
<1>7. at \in [0 .. m -> Nat] /\ at[0] = 0
  <2>1. \A b \in 0 .. m : b = m \/ b \in 0 .. m - 1
    BY <1>3
  <2>2. \A b \in 0 .. m : at[b] \in Nat
    BY <1>5, <1>6, <2>1
  <2>3. 0 \in 0 .. m - 1 /\ 0 * size = 0
    BY <1>1, <1>3
  <2>4. at[0] = 0
    BY <1>5, <2>3
  <2>5. QED BY <1>4, <2>2, <2>4
<1>8. ASSUME NEW b \in 1 .. m
      PROVE  /\ at[b - 1] < at[b] /\ at[b] <= n /\ (b - 1) * size = at[b - 1]
             /\ Smaller(size, n - at[b - 1]) = at[b] - at[b - 1]
  <2>1. b - 1 \in 0 .. m - 1 /\ b \in Nat /\ b <= m
    BY <1>3
  <2>2. at[b - 1] = (b - 1) * size /\ (b - 1) * size \in Nat /\ (b - 1) * size < n
    BY <1>5, <2>1
  <2>3. b * size = (b - 1) * size + size
    BY <1>1, <2>1
  <2>4. CASE b = m
    <3>1. n <= (b - 1) * size + size
      BY <1>3, <2>3, <2>4
    <3>2. n - at[b - 1] <= size
      BY <1>1, <2>2, <3>1
    <3>3. Smaller(size, n - at[b - 1]) = n - at[b - 1]
      BY <1>1, <2>2, <3>2 DEF Smaller
    <3>4. at[b] = n
      BY <1>6, <2>4
    <3>5. QED BY <2>2, <3>3, <3>4
  <2>5. CASE b # m
    <3>1. b \in 0 .. m - 1
      BY <1>3, <2>1, <2>5
    <3>2. at[b] = b * size /\ b * size < n
      BY <1>5, <3>1
    <3>3. size <= n - at[b - 1] /\ at[b] - at[b - 1] = size
      BY <1>1, <2>2, <2>3, <3>2
    <3>4. Smaller(size, n - at[b - 1]) = size
      BY <3>3 DEF Smaller
    <3>5. QED BY <1>1, <2>2, <2>3, <3>2, <3>3, <3>4
  <2>6. QED BY <2>4, <2>5
<1>9. Cuts(at, m, n)
  BY <1>3, <1>6, <1>7, <1>8 DEF Cuts
<1>10. EvenAt(at, m, n, size)
  BY <1>8 DEF EvenAt
<1>11. QED BY <1>3, <1>9, <1>10 DEF m, at

BlocksFor(n) == (n + BlockSize - 1) \div BlockSize

CutEvenly(n) == [b \in 0 .. BlocksFor(n) |-> IF b < BlocksFor(n) THEN b * BlockSize ELSE n]

\* encode_blocked() cuts so.
LEMMA EvenCuts ==
  ASSUME NEW n \in Nat \ {0}
  PROVE  /\ BlocksFor(n) \in Nat \ {0}
         /\ Cuts(CutEvenly(n), BlocksFor(n), n)
         /\ FullBlocks(CutEvenly(n), BlocksFor(n), n)
<1> DEFINE size == BlockSize
<1>1. size \in Nat \ {0}
  BY PostingsAssumption
<1>2. /\ CountOf(n, size) \in Nat \ {0}
      /\ Cuts(CutEvery(n, size), CountOf(n, size), n)
      /\ EvenAt(CutEvery(n, size), CountOf(n, size), n, size)
  <2> HIDE DEF size
  <2>1. QED BY <1>1, EveryCut
<1>3. BlocksFor(n) = CountOf(n, size)
  BY DEF BlocksFor, CountOf
<1>4. CutEvenly(n) = CutEvery(n, size)
  BY Zenon, <1>3 DEF CutEvenly, CutEvery
<1>5. FullBlocks(CutEvenly(n), BlocksFor(n), n)
  BY Zenon, <1>2, <1>3, <1>4 DEF FullBlocks, EvenAt
<1>6. QED BY <1>2, <1>3, <1>4, <1>5

\* What a block has of a sequence.
Part(seq, at, b) == [i \in 1 .. at[b] - at[b - 1] |-> seq[at[b - 1] + i]]

SlicedAt(seq, at, b) == Slice(seq, at[b - 1] + 1, at[b] - at[b - 1])

IsPart(seq, at, b, n, S) ==
  /\ at[b] - at[b - 1] \in Nat \ {0} /\ at[b - 1] \in Nat /\ at[b] \in Nat /\ n \in Nat
  /\ Part(seq, at, b) \in [1 .. at[b] - at[b - 1] -> S]
  /\ SlicedAt(seq, at, b) = Part(seq, at, b)

\* It is a slice.
LEMMA PartOf ==
  ASSUME NEW S, NEW at, NEW m, NEW n, Cuts(at, m, n), NEW seq \in [1 .. n -> S], NEW b \in 1 .. m
  PROVE  IsPart(seq, at, b, n, S)
<1> DEFINE from == at[b - 1]
           size == at[b] - at[b - 1]
<1>1. from \in Nat /\ at[b] \in Nat /\ size \in Nat \ {0} /\ from + size <= n /\ n \in Nat
  <2>1. b - 1 \in 0 .. m /\ b \in 0 .. m
    BY DEF Cuts
  <2>2. at[b - 1] \in Nat /\ at[b] \in Nat
    BY <2>1 DEF Cuts
  <2>3. at[b - 1] < at[b] /\ at[b] <= n /\ n \in Nat
    BY DEF Cuts
  <2>4. QED BY <2>2, <2>3
<1>2. Part(seq, at, b) = [i \in 1 .. size |-> seq[from + i]]
  BY DEF Part
<1> HIDE DEF from, size
<1>3. Part(seq, at, b) \in [1 .. size -> S]
  <2>1. \A i \in 1 .. size : from + i \in 1 .. n
    BY <1>1
  <2>2. \A i \in 1 .. size : seq[from + i] \in S
    BY <2>1
  <2>3. QED BY <1>2, <2>2
<1>4. Slice(seq, from + 1, size) = Part(seq, at, b)
  <2> DEFINE pos == from + 1
             s == Slice(seq, pos, size)
  <2>1. seq \in Seq(S) /\ Len(seq) = n
    BY <1>1, LenIs
  <2>2. pos \in Nat \ {0} /\ size \in Nat /\ pos + size <= Len(seq) + 1
    BY <1>1, <2>1
  <2>3. \A i \in 1 .. size : pos + i - 1 = from + i
    BY <1>1
  <2> HIDE DEF pos
  <2>4. s \in Seq(S) /\ Len(s) = size /\ Stands(s, seq, pos)
    BY <2>1, <2>2, SliceIs
  <2> HIDE DEF s
  <2>5. s \in [1 .. size -> S]
    BY <2>4
  <2>6. \A i \in 1 .. size : s[i] = seq[from + i]
    BY <2>3, <2>4 DEF Stands
  <2>7. s = Part(seq, at, b)
    BY <1>2, <2>5, <2>6
  <2>8. QED BY <2>7 DEF pos, s
<1>5. SlicedAt(seq, at, b) = Part(seq, at, b)
  BY <1>4 DEF SlicedAt, from, size
<1>6. QED BY <1>1, <1>3, <1>5 DEF from, size, IsPart

LEMMA PartIs ==
  ASSUME NEW at, NEW m, NEW n, Cuts(at, m, n), NEW seq \in [1 .. n -> Nat], NEW b \in 1 .. m
  PROVE  /\ at[b] - at[b - 1] \in Nat \ {0} /\ at[b - 1] \in Nat /\ at[b] \in Nat /\ n \in Nat
         /\ Part(seq, at, b) \in [1 .. at[b] - at[b - 1] -> Nat]
         /\ SlicedAt(seq, at, b) = Part(seq, at, b)
<1>1. IsPart(seq, at, b, n, Nat)
  BY Zenon, PartOf
<1>2. QED BY <1>1 DEF IsPart

\* The last id before a block.
PriorTo(ids, at, b) == IF b = 1 THEN 0 ELSE ids[at[b - 1]]

\* A block of a list is one, beyond the id before it.
LEMMA PartIsList ==
  ASSUME NEW at, NEW m, NEW n, Cuts(at, m, n), NEW ids, IsList(ids, n), NEW b \in 1 .. m
  PROVE  /\ IsList(Part(ids, at, b), at[b] - at[b - 1])
         /\ PriorTo(ids, at, b) \in Nat
         /\ PriorTo(ids, at, b) <= Part(ids, at, b)[1]
         /\ Part(ids, at, b)[at[b] - at[b - 1]] = ids[at[b]]
<1> DEFINE from == at[b - 1]
           size == at[b] - at[b - 1]
           part == Part(ids, at, b)
<1>1. /\ size \in Nat \ {0} /\ from \in Nat /\ at[b] \in Nat /\ n \in Nat
      /\ part \in [1 .. size -> Nat]
  BY PartIs DEF IsList
<1>2. from + size = at[b] /\ at[b] <= n
  BY <1>1 DEF Cuts
<1>3. \A i \in 1 .. size : part[i] = ids[from + i]
  BY DEF Part
<1>4. b # 1 => from # 0 /\ from \in 1 .. n
  <2> SUFFICES ASSUME b # 1 PROVE from # 0 /\ from \in 1 .. n
    OBVIOUS
  <2>1. b - 1 \in 1 .. m /\ b - 1 - 1 \in 0 .. m
    BY DEF Cuts
  <2>2. at[b - 1 - 1] < at[b - 1] /\ at[b - 1] <= n /\ at[b - 1 - 1] \in Nat
    BY <2>1 DEF Cuts
  <2>3. QED BY <1>1, <2>2
<1> HIDE DEF from, size, part
<1>5. \A i \in 1 .. size : from + i \in 1 .. n
  BY <1>1, <1>2
<1>6. IsList(part, size)
  <2>1. ASSUME NEW i \in 1 .. size, NEW j \in 1 .. size, i < j PROVE part[i] < part[j]
    <3>1. from + i \in 1 .. n /\ from + j \in 1 .. n /\ from + i < from + j
      BY <1>1, <1>5, <2>1
    <3>2. ids[from + i] < ids[from + j]
      BY <3>1 DEF IsList
    <3>3. QED BY <1>3, <3>2
  <2>2. QED BY <1>1, <2>1 DEF IsList
<1>7. 1 \in 1 .. size /\ size \in 1 .. size
  BY <1>1
<1>8. PriorTo(ids, at, b) \in Nat /\ PriorTo(ids, at, b) <= part[1]
  <2>1. part[1] \in Nat
    BY <1>1, <1>7
  <2>2. CASE b = 1
    BY <2>1, <2>2 DEF PriorTo
  <2>3. CASE b # 1
    <3>1. from \in 1 .. n /\ from + 1 \in 1 .. n /\ from < from + 1
      BY <1>1, <1>4, <1>5, <1>7, <2>3
    <3>2. ids[from] < ids[from + 1] /\ ids[from] \in Nat
      BY <3>1 DEF IsList
    <3>3. PriorTo(ids, at, b) = ids[from] /\ part[1] = ids[from + 1]
      BY <1>3, <1>7, <2>3 DEF PriorTo, from
    <3>4. QED BY <2>1, <3>2, <3>3
  <2>4. QED BY <2>2, <2>3
<1>9. part[size] = ids[at[b]]
  BY <1>2, <1>3, <1>7
<1>10. QED BY <1>6, <1>8, <1>9 DEF size, part

\* The blocks of a list, as they are written.
BlocksOf(ids, freqs, at, m) ==
  [b \in 1 .. m |-> EncodeBlock(Part(ids, at, b), Part(freqs, at, b), PriorTo(ids, at, b))]

LastsOf(ids, at, k) == [b \in 1 .. k |-> ids[at[b]]]
LengthsOf(blocks, k) == [b \in 1 .. k |-> Len(blocks[b].data)]
WidthsOf(ids, freqs, at, k) ==
  [b \in 1 .. k |-> <<WidthFor(Gaps(Part(ids, at, b), PriorTo(ids, at, b))),
                      WidthFor(Part(freqs, at, b))>>]

WrittenAt(block, ids, freqs, at, b) ==
  Written(block, Gaps(Part(ids, at, b), PriorTo(ids, at, b)), Part(freqs, at, b),
          at[b] - at[b - 1], WidthFor(Gaps(Part(ids, at, b), PriorTo(ids, at, b))),
          WidthFor(Part(freqs, at, b)), Len(block.data), ids[at[b]] - PriorTo(ids, at, b))

\* Each as encode_block() writes them.
LEMMA BlocksAre ==
  ASSUME NEW at, NEW m, NEW n, Cuts(at, m, n), NEW ids, IsList(ids, n),
         NEW freqs \in [1 .. n -> Nat], NEW b \in 1 .. m
  PROVE  WrittenAt(BlocksOf(ids, freqs, at, m)[b], ids, freqs, at, b)
<1> DEFINE size == at[b] - at[b - 1]
           part == Part(ids, at, b)
           counts == Part(freqs, at, b)
           before == PriorTo(ids, at, b)
           block == BlocksOf(ids, freqs, at, m)[b]
<1>1. block = EncodeBlock(part, counts, before)
  BY DEF BlocksOf
<1>2. size \in Nat \ {0} /\ counts \in [1 .. size -> Nat]
  BY PartIs
<1>3. IsList(part, size) /\ before \in Nat /\ before <= part[1] /\ part[size] = ids[at[b]]
  BY PartIsList
<1> HIDE DEF size, part, counts, before, block
<1>4. Written(block, Gaps(part, before), counts, size, WidthFor(Gaps(part, before)),
              WidthFor(counts), Len(block.data), part[size] - before)
  BY <1>1, <1>2, <1>3, BlockIs
<1>5. QED BY <1>3, <1>4 DEF WrittenAt, size, part, counts, before, block
SkipsOf(blocks, m) == [b \in 1 .. m |-> blocks[b].skip]
DataOf(blocks, m) == [b \in 1 .. m |-> blocks[b].data]

LargeBytes(n, m, blocks) ==
  EncodeVarint(n) \o EncodeVarint(m)
    \o FlattenSeq(SkipsOf(blocks, m)) \o FlattenSeq(DataOf(blocks, m))

\* encode_blocked() of a list that is not small.
LEMMA LargeIs ==
  ASSUME NEW n \in Nat \ {0}, n > SmallList, NEW ids, IsList(ids, n),
         NEW freqs \in [1 .. n -> Nat], NEW m, m = BlocksFor(n), NEW at, at = CutEvenly(n),
         NEW blocks, blocks = BlocksOf(ids, freqs, at, m)
  PROVE  EncodeBlocked(ids, freqs) = LargeBytes(n, m, blocks)
<1> DEFINE blk == [b \in 1 .. m |->
             EncodeBlock(Slice(ids, (b - 1) * BlockSize + 1,
                               Smaller(BlockSize, n - (b - 1) * BlockSize)),
                         Slice(freqs, (b - 1) * BlockSize + 1,
                               Smaller(BlockSize, n - (b - 1) * BlockSize)),
                         IF b = 1 THEN 0 ELSE ids[(b - 1) * BlockSize])]
<1>1. ids \in [1 .. n -> Nat] /\ Len(ids) = n /\ m = (Len(ids) + BlockSize - 1) \div BlockSize
  <2>1. ids \in [1 .. n -> Nat]
    BY DEF IsList
  <2>2. Len(ids) = n
    BY <2>1, LenIs
  <2>3. QED BY <2>1, <2>2 DEF BlocksFor
<1>2. Cuts(at, m, n) /\ FullBlocks(at, m, n)
  BY EvenCuts
<1>3. ASSUME NEW b \in 1 .. m PROVE blk[b] = blocks[b]
  <2> DEFINE from == (b - 1) * BlockSize
             size == Smaller(BlockSize, n - (b - 1) * BlockSize)
  <2>1. from = at[b - 1] /\ size = at[b] - at[b - 1]
    BY <1>2 DEF FullBlocks
  <2>2. /\ Slice(ids, at[b - 1] + 1, at[b] - at[b - 1]) = Part(ids, at, b)
        /\ Slice(freqs, at[b - 1] + 1, at[b] - at[b - 1]) = Part(freqs, at, b)
    <3>1. ids \in [1 .. n -> Nat] /\ freqs \in [1 .. n -> Nat] /\ Cuts(at, m, n) /\ b \in 1 .. m
      BY <1>1, <1>2
    <3>2. SlicedAt(ids, at, b) = Part(ids, at, b)
      BY <3>1, PartIs
    <3>3. SlicedAt(freqs, at, b) = Part(freqs, at, b)
      BY <3>1, PartIs
    <3>4. QED BY <3>2, <3>3 DEF SlicedAt
  <2>3. blk[b] = EncodeBlock(Slice(ids, from + 1, size), Slice(freqs, from + 1, size),
                             IF b = 1 THEN 0 ELSE ids[from])
    OBVIOUS
  <2> HIDE DEF from, size, blk
  <2>4. Slice(ids, from + 1, size) = Part(ids, at, b) /\ Slice(freqs, from + 1, size) = Part(freqs, at, b)
    BY Zenon, <2>1, <2>2
  <2>5. (IF b = 1 THEN 0 ELSE ids[from]) = PriorTo(ids, at, b)
    BY <2>1 DEF PriorTo
  <2>6. blk[b] = EncodeBlock(Part(ids, at, b), Part(freqs, at, b), PriorTo(ids, at, b))
    BY Zenon, <2>3, <2>4, <2>5
  <2>7. QED BY <2>6 DEF BlocksOf
<1>4. blk = blocks
  <2>1. blk = [b \in 1 .. m |-> blk[b]] /\ blocks = [b \in 1 .. m |-> blocks[b]]
    BY DEF BlocksOf
  <2> HIDE DEF blk
  <2>2. QED BY <1>3, <2>1
<1>5. ~(n <= SmallList)
  BY PostingsAssumption
<1>6. EncodeBlocked(ids, freqs) =
        IF n <= SmallList
        THEN EncodeVarint(n) \o EncodeVarints(DeltaEncode(ids)) \o EncodeVarints(freqs)
        ELSE EncodeVarint(n) \o EncodeVarint(m)
               \o FlattenSeq([b \in 1 .. m |-> blk[b].skip])
               \o FlattenSeq([b \in 1 .. m |-> blk[b].data])
  BY Zenon, <1>1 DEF EncodeBlocked
<1> HIDE DEF blk
<1>7. EncodeBlocked(ids, freqs) =
        EncodeVarint(n) \o EncodeVarint(m)
          \o FlattenSeq([b \in 1 .. m |-> blocks[b].skip])
          \o FlattenSeq([b \in 1 .. m |-> blocks[b].data])
  BY Zenon, <1>4, <1>5, <1>6
<1>8. QED BY Zenon, <1>7 DEF LargeBytes, SkipsOf, DataOf
-----------------------------------------------------------------------------
(* Opening a list in blocks. *)

\* What comes before an element: nothing before the first.
LEMMA PriorIs ==
  ASSUME NEW m \in Nat, NEW seq \in [1 .. m -> Nat], NEW k \in 1 .. m
  PROVE  (IF First(seq, k - 1) = <<>> THEN 0 ELSE Last(First(seq, k - 1)))
           = (IF k = 1 THEN 0 ELSE seq[k - 1])
<1> DEFINE j == k - 1
           f == First(seq, j)
<1>1. j \in Nat /\ \A i \in 1 .. j : i \in 1 .. m
  OBVIOUS
<1>2. f = [i \in 1 .. j |-> seq[i]] /\ f \in [1 .. j -> Nat]
  BY <1>1 DEF First
<1> HIDE DEF j, f
<1>3. f \in Seq(Nat) /\ Len(f) = j
  BY <1>1, <1>2, LenIs
<1>4. CASE k = 1
  <2>1. j = 0
    BY <1>4 DEF j
  <2>2. f = <<>>
    BY <1>3, <2>1
  <2>3. QED BY <1>4, <2>2 DEF f, j
<1>5. CASE k # 1
  <2>1. j # 0 /\ j \in 1 .. j
    BY <1>1, <1>5 DEF j
  <2>2. f # <<>>
    <3>1. Len(<<>>) = 0
      OBVIOUS
    <3>2. QED BY <1>3, <2>1, <3>1
  <2>3. Last(f) = seq[j]
    <3>1. f[j] = seq[j]
      BY <1>2, <2>1
    <3>2. Last(f) = f[Len(f)]
      BY DEF Last
    <3>3. QED BY <1>3, <3>1, <3>2
  <2>4. QED BY <1>5, <2>2, <2>3 DEF f, j
<1>6. QED BY <1>4, <1>5

Entries(lasts, lengths, widths, m) ==
  /\ m \in Nat /\ lasts \in [1 .. m -> Nat] /\ lengths \in [1 .. m -> Nat]
  /\ widths \in [1 .. m -> Nat \X Nat]

Indexed(lasts, lengths, widths, k, pos) ==
  [last |-> First(lasts, k), length |-> First(lengths, k), bits |-> First(widths, k), next |-> pos]

PriorOf(lasts, k) == IF k = 1 THEN 0 ELSE lasts[k - 1]

SkipIs(skip, lasts, lengths, widths, k) ==
  /\ PriorOf(lasts, k) \in 0 .. lasts[k]
  /\ skip = EncodeVarint(lasts[k] - PriorOf(lasts, k)) \o EncodeVarint(lengths[k]) \o widths[k]

\* One entry of the skip index after others.
LEMMA IndexStep ==
  ASSUME NEW m, NEW lasts, NEW lengths, NEW widths, Entries(lasts, lengths, widths, m),
         NEW k \in 1 .. m, NEW data, NEW pos,
         NEW skip, SkipIs(skip, lasts, lengths, widths, k), Stands(skip, data, pos),
         NEW open, open = Indexed(lasts, lengths, widths, k - 1, pos)
  PROVE  ReadSkip(open, data) = Indexed(lasts, lengths, widths, k, pos + Len(skip))
<1> DEFINE before == PriorOf(lasts, k)
<1> HIDE DEF before
<1>a. /\ m \in Nat /\ lasts \in [1 .. m -> Nat] /\ lengths \in [1 .. m -> Nat]
      /\ widths \in [1 .. m -> Nat \X Nat]
  BY DEF Entries
<1>0. /\ before \in Nat /\ before <= lasts[k] /\ before = (IF k = 1 THEN 0 ELSE lasts[k - 1])
      /\ skip = EncodeVarint(lasts[k] - before) \o EncodeVarint(lengths[k]) \o widths[k]
  <2>1. /\ before \in 0 .. lasts[k]
        /\ skip = EncodeVarint(lasts[k] - before) \o EncodeVarint(lengths[k]) \o widths[k]
    BY DEF SkipIs, before
  <2>2. before = (IF k = 1 THEN 0 ELSE lasts[k - 1])
    BY DEF PriorOf, before
  <2>3. lasts[k] \in Nat
    BY <1>a
  <2>4. before \in Nat /\ before <= lasts[k]
    BY <2>1, <2>3
  <2>5. QED BY <2>1, <2>2, <2>4
<1>1. PICK w \in Nat, x \in Nat : widths[k] = <<w, x>>
  <2>1. widths[k] \in Nat \X Nat
    BY <1>a
  <2>2. QED BY ONLY <2>1
<1> DEFINE d == lasts[k] - before
           l == lengths[k]
<1>2. d \in Nat /\ l \in Nat /\ d + before = lasts[k] /\ lasts[k] \in Nat
  <2>1. lasts[k] \in Nat /\ lengths[k] \in Nat
    BY <1>a
  <2> DEFINE v == lasts[k]
  <2>2. v \in Nat /\ before \in Nat /\ before <= v
    BY <1>0, <2>1
  <2> HIDE DEF v
  <2>3. v - before \in Nat /\ v - before + before = v
    BY ONLY <2>2
  <2>4. QED BY <2>1, <2>3 DEF v
<1>3. SkipEntry(skip, d, l, w, x)
  BY <1>0, <1>1 DEF SkipEntry
<1>4. /\ open.last = First(lasts, k - 1) /\ open.length = First(lengths, k - 1)
      /\ open.bits = First(widths, k - 1) /\ open.next = pos
  BY DEF Indexed
<1>5. (IF open.last = <<>> THEN 0 ELSE Last(open.last)) = before
  <2>1. (IF First(lasts, k - 1) = <<>> THEN 0 ELSE Last(First(lasts, k - 1)))
          = (IF k = 1 THEN 0 ELSE lasts[k - 1])
    BY <1>a, PriorIs
  <2>2. QED BY <1>0, <1>4, <2>1
<1> HIDE DEF d, l
<1>6. ReadSkip(open, data) = Entered(open, d, l, w, x, Len(skip))
  <2>1. Stands(skip, data, open.next)
    BY <1>4
  <2>2. d \in Nat /\ l \in Nat /\ w \in Nat /\ x \in Nat
    BY <1>2
  <2>3. QED BY ONLY <1>3, <2>1, <2>2, SkipReads
<1>7. Append(First(lasts, k - 1), lasts[k]) = First(lasts, k)
  BY <1>a, FirstGrows
<1>8. Append(First(lengths, k - 1), l) = First(lengths, k)
  BY <1>a, FirstGrows DEF l
<1>9. Append(First(widths, k - 1), <<w, x>>) = First(widths, k)
  BY <1>1, <1>a, FirstGrows
<1>10. d + (IF open.last = <<>> THEN 0 ELSE Last(open.last)) = lasts[k]
  BY <1>2, <1>5
<1>11. QED BY <1>4, <1>6, <1>7, <1>8, <1>9, <1>10 DEF Entered, Indexed

Indices(index, data, m, pos) ==
  index = FoldLeft(LAMBDA open, b : ReadSkip(open, data),
                   [last |-> <<>>, length |-> <<>>, bits |-> <<>>, next |-> pos],
                   [b \in 1 .. m |-> b])

\* The skip index of a list, entry by entry.
SkipsAre(skips, lasts, lengths, widths, m) ==
  \A k \in 1 .. m : SkipIs(skips[k], lasts, lengths, widths, k)

\* It is read as it was written.
LEMMA IndexReads ==
  ASSUME NEW m \in Nat, NEW lasts, NEW lengths, NEW widths, Entries(lasts, lengths, widths, m),
         NEW skips \in [1 .. m -> Seq(Nat)],
         SkipsAre(skips, lasts, lengths, widths, m), NEW data, NEW pos,
         Stands(FlattenSeq(skips), data, pos),
         NEW index, Indices(index, data, m, pos)
  PROVE  index = Indexed(lasts, lengths, widths, m, pos + Len(FlattenSeq(skips)))
<1> DEFINE whole == FlattenSeq(skips)
           empty == [last |-> <<>>, length |-> <<>>, bits |-> <<>>, next |-> pos]
<1>1. PICK o : Laid(whole, skips, m, o)
  BY FlattenIsLaid
<1>2. /\ o \in [0 .. m -> Nat] /\ o[0] = 0 /\ Len(whole) = o[m]
      /\ \A k \in 1 .. m : o[k] = o[k - 1] + Len(skips[k])
      /\ \A k \in 1 .. m : Stands(skips[k], whole, 1 + o[k - 1])
  BY <1>1 DEF Laid, StartsAt
<1>3. pos \in Nat \ {0} /\ Stands(whole, data, pos)
  BY DEF Stands
<1> HIDE DEF whole
<1> DEFINE next(open) == ReadSkip(open, data)
           st == [k \in 0 .. m |-> Indexed(lasts, lengths, widths, k, pos + o[k])]
<1>4. ASSUME NEW k \in 1 .. m PROVE next(st[k - 1]) = st[k]
  <2> DEFINE s == o[k - 1]
             skip == skips[k]
             open == Indexed(lasts, lengths, widths, k - 1, pos + s)
  <2>1. k - 1 \in 0 .. m /\ k \in 0 .. m /\ o[k - 1] \in Nat /\ s \in Nat
    BY <1>2
  <2>2. SkipIs(skip, lasts, lengths, widths, k)
    BY DEF SkipsAre
  <2>5. st[k - 1] = open /\ st[k] = Indexed(lasts, lengths, widths, k, pos + o[k])
    BY <2>1
  <2>6. skip = skips[k] /\ s = o[k - 1] /\ open = Indexed(lasts, lengths, widths, k - 1, pos + s)
    OBVIOUS
  <2> HIDE DEF s, skip, open, st
  <2>7. Stands(skip, data, pos + s)
    <3>1. Stands(skip, whole, 1 + s)
      BY <1>2, <2>6
    <3>2. Stands(skip, data, pos + (1 + s) - 1)
      BY <1>3, <3>1, StandsWithin
    <3>3. pos + (1 + s) - 1 = pos + s
      BY <1>3, <2>1
    <3>4. QED BY <3>2, <3>3
  <2> DEFINE p == pos + s
  <2> HIDE DEF p
  <2>9. ReadSkip(open, data) = Indexed(lasts, lengths, widths, k, p + Len(skip))
    <3>1. Stands(skip, data, p) /\ open = Indexed(lasts, lengths, widths, k - 1, p)
      BY <2>6, <2>7 DEF p
    <3>2. QED BY <2>2, <3>1, IndexStep
  <2>10. p + Len(skip) = pos + o[k]
    <3>1. o[k] = s + Len(skip) /\ o[k] \in Nat
      BY <1>2, <2>1, <2>6
    <3>2. Len(skip) \in Nat
      BY <2>7 DEF Stands
    <3>3. QED BY <1>3, <2>1, <3>1, <3>2 DEF p
  <2>11. QED BY <2>5, <2>9, <2>10
<1>5. st[0] = empty
  <2>1. First(lasts, 0) = <<>> /\ First(lengths, 0) = <<>> /\ First(widths, 0) = <<>>
    BY DEF First
  <2>2. pos + o[0] = pos
    BY <1>2, <1>3
  <2>3. st[0] = Indexed(lasts, lengths, widths, 0, pos + o[0])
    OBVIOUS
  <2> HIDE DEF st
  <2>4. QED BY <2>1, <2>2, <2>3 DEF Indexed
<1>6. st[m] = Indexed(lasts, lengths, widths, m, pos + Len(whole))
  BY <1>2
<1> DEFINE Solves(f) == f = [s \in SUBSET (1 .. m) |->
             IF s = {} THEN empty ELSE next(f[s \ {Max(s)}])]
           Iter == CHOOSE iter : Solves(iter)
           g == [P \in SUBSET (1 .. m) |-> st[Cardinality(P)]]
<1> HIDE DEF st
<1>7. Solves(g)
  <2> HIDE DEF empty
  <2>1. g[{}] = empty
    BY <1>5, FS_EmptySet
  <2>2. ASSUME NEW s \in SUBSET (1 .. m), s # {} PROVE g[s] = next(g[s \ {Max(s)}])
    <3>1. /\ Cardinality(s) \in 1 .. m /\ s \ {Max(s)} \in SUBSET (1 .. m)
          /\ Cardinality(s \ {Max(s)}) = Cardinality(s) - 1
      BY <2>2, CountsDown
    <3>2. g[s \ {Max(s)}] = st[Cardinality(s) - 1] /\ g[s] = st[Cardinality(s)]
      BY <3>1
    <3> HIDE DEF g, next
    <3>3. QED BY <1>4, <3>1, <3>2
  <2>3. g = [s \in SUBSET (1 .. m) |-> g[s]]
    OBVIOUS
  <2> HIDE DEF g, next
  <2>4. QED BY <2>1, <2>2, <2>3
<1>8. index = Iter[1 .. m]
  <2>1. DOMAIN [b \in 1 .. m |-> b] = 1 .. m
    OBVIOUS
  <2>2. QED BY Zenon, <2>1 DEF Indices, FoldLeft, MapThenFoldSet
<1> HIDE DEF g
<1>9. Solves(Iter)
  <2> HIDE DEF Solves
  <2>1. QED BY <1>7
<1> HIDE DEF Iter
<1>10. Iter[{}] = st[0]
  <2> HIDE DEF next, empty
  <2>1. QED BY <1>5, <1>9
<1>11. ASSUME NEW k \in 1 .. m, NEW P \in SUBSET (1 .. m), P # {}, Iter[P \ {Max(P)}] = st[k - 1]
       PROVE  Iter[P] = st[k]
  <2> HIDE DEF next, empty
  <2>1. Iter[P] = next(Iter[P \ {Max(P)}])
    BY <1>9, <1>11
  <2>2. QED BY <1>4, <1>11, <2>1
<1>12. Iter[1 .. m] = st[m]
  <2> HIDE DEF Solves
  <2>1. Steady(Iter, st, m)
    BY <1>10, <1>11 DEF Steady
  <2>2. QED BY <2>1, GoesAlong
<1>13. QED BY <1>6, <1>8, <1>12 DEF whole

\* The three ways a list is opened.
NothingOpened == [count |-> 0, last |-> <<>>, small |-> TRUE, ids |-> <<>>, freqs |-> <<>>]

SmallOpened(data) ==
  LET count == DecodeVarint(data, 1)
      gaps == DecodeVarints(data, count.value, count.next)
      ids == DeltaDecode(gaps.values)
  IN [count |-> count.value, last |-> <<Last(ids)>>, small |-> TRUE, ids |-> ids,
      freqs |-> DecodeVarints(data, count.value, gaps.next).values]

LargeOpened(data) ==
  LET count == DecodeVarint(data, 1)
      blocks == DecodeVarint(data, count.next)
      index == FoldLeft(LAMBDA open, b : ReadSkip(open, data),
                        [last |-> <<>>, length |-> <<>>, bits |-> <<>>, next |-> blocks.next],
                        [b \in 1 .. blocks.value |-> b])
  IN [count |-> count.value, last |-> index.last, small |-> FALSE,
      length |-> index.length, bits |-> index.bits,
      data |-> SubSeq(data, index.next, Len(data))]

\* The number of documents says which.
LEMMA OpensAs ==
  ASSUME NEW data, DecodeVarint(data, 1).value \in Nat
  PROVE  /\ DecodeVarint(data, 1).value = 0 => OpenPostings(data) = NothingOpened
         /\ DecodeVarint(data, 1).value \in 1 .. SmallList => OpenPostings(data) = SmallOpened(data)
         /\ DecodeVarint(data, 1).value > SmallList => OpenPostings(data) = LargeOpened(data)
<1> DEFINE value == DecodeVarint(data, 1).value
           small == value \in 1 .. SmallList
           none == NothingOpened
           few == SmallOpened(data)
           many == LargeOpened(data)
<1>1. OpenPostings(data) = CASE value = 0 -> none [] small -> few [] OTHER -> many
  BY Zenon DEF OpenPostings, NothingOpened, SmallOpened, LargeOpened
<1>2. SmallList \in Nat /\ value \in Nat
  BY PostingsAssumption
<1> HIDE DEF value, none, few, many
<1>3. (value = 0 => ~small) /\ (value > SmallList => value # 0 /\ ~small)
  BY <1>2
<1>4. value = 0 => OpenPostings(data) = none
  <2> HIDE DEF small
  <2>1. QED BY <1>1, <1>3
<1>5. small => OpenPostings(data) = few
  <2> HIDE DEF small
  <2>1. QED BY <1>1, <1>3
<1>6. value > SmallList => OpenPostings(data) = many
  <2> HIDE DEF small
  <2>1. QED BY <1>1, <1>3
<1>7. QED BY <1>4, <1>5, <1>6 DEF value, small, none, few, many

\* What the blocks of a list are for its skip index.
LEMMA BlocksIndexed ==
  ASSUME NEW at, NEW m, NEW n, Cuts(at, m, n), NEW ids, IsList(ids, n),
         NEW freqs \in [1 .. n -> Nat], NEW blocks, blocks = BlocksOf(ids, freqs, at, m)
  PROVE  /\ Entries(LastsOf(ids, at, m), LengthsOf(blocks, m), WidthsOf(ids, freqs, at, m), m)
         /\ SkipsOf(blocks, m) \in [1 .. m -> Seq(Nat)]
         /\ DataOf(blocks, m) \in [1 .. m -> Seq(Nat)]
         /\ SkipsAre(SkipsOf(blocks, m), LastsOf(ids, at, m), LengthsOf(blocks, m),
                     WidthsOf(ids, freqs, at, m), m)
<1> DEFINE lasts == LastsOf(ids, at, m)
           lengths == LengthsOf(blocks, m)
           widths == WidthsOf(ids, freqs, at, m)
           skips == SkipsOf(blocks, m)
           datas == DataOf(blocks, m)
           wide(b) == WidthFor(Gaps(Part(ids, at, b), PriorTo(ids, at, b)))
           wider(b) == WidthFor(Part(freqs, at, b))
<1>1. m \in Nat /\ n \in Nat /\ at \in [0 .. m -> Nat] /\ ids \in [1 .. n -> Nat]
  BY DEF Cuts, IsList
<1>2. ASSUME NEW b \in 1 .. m
      PROVE  /\ blocks[b].skip \in Seq(Nat) /\ blocks[b].data \in Seq(Nat)
             /\ Len(blocks[b].data) \in Nat /\ wide(b) \in Nat /\ wider(b) \in Nat
             /\ blocks[b].skip = EncodeVarint(ids[at[b]] - PriorTo(ids, at, b))
                                   \o EncodeVarint(Len(blocks[b].data)) \o <<wide(b), wider(b)>>
  <2>1. WrittenAt(blocks[b], ids, freqs, at, b)
    BY BlocksAre
  <2>2. QED BY <2>1 DEF WrittenAt, Written
<1>3. ASSUME NEW b \in 1 .. m
      PROVE  /\ ids[at[b]] \in Nat /\ PriorTo(ids, at, b) \in 0 .. ids[at[b]]
             /\ PriorOf(lasts, b) = PriorTo(ids, at, b)
  <2> DEFINE size == at[b] - at[b - 1]
             part == Part(ids, at, b)
  <2>1. /\ IsList(part, size) /\ PriorTo(ids, at, b) \in Nat
        /\ PriorTo(ids, at, b) <= part[1] /\ part[size] = ids[at[b]]
    BY PartIsList
  <2>2. size \in Nat \ {0}
    BY <1>1, PartIs
  <2> HIDE DEF size, part
  <2>3. /\ part \in [1 .. size -> Nat] /\ 1 \in 1 .. size /\ size \in 1 .. size
        /\ (1 < size => part[1] < part[size])
    BY <2>1, <2>2 DEF IsList
  <2>4. part[1] \in Nat /\ part[size] \in Nat /\ part[1] <= part[size]
    <3>1. 1 = size \/ 1 < size
      BY <2>2
    <3>2. part[1] \in Nat /\ part[size] \in Nat
      BY <2>3
    <3>3. QED BY <2>3, <3>1, <3>2
  <2>5. ids[at[b]] \in Nat /\ PriorTo(ids, at, b) \in 0 .. ids[at[b]]
    BY <2>1, <2>4
  <2>6. PriorOf(lasts, b) = PriorTo(ids, at, b)
    <3>1. b # 1 => b - 1 \in 1 .. m
      BY <1>1
    <3>2. b # 1 => lasts[b - 1] = ids[at[b - 1]]
      BY <3>1 DEF LastsOf
    <3>3. QED BY <3>2 DEF PriorOf, PriorTo
  <2>7. QED BY <2>5, <2>6
<1>4. \A b \in 1 .. m : lasts[b] = ids[at[b]] /\ lengths[b] = Len(blocks[b].data)
                        /\ widths[b] = <<wide(b), wider(b)>> /\ skips[b] = blocks[b].skip
  BY DEF LastsOf, LengthsOf, WidthsOf, SkipsOf
<1>5. lasts = [b \in 1 .. m |-> ids[at[b]]]
  BY DEF LastsOf
<1>6. lengths = [b \in 1 .. m |-> Len(blocks[b].data)]
  BY DEF LengthsOf
<1>7. widths = [b \in 1 .. m |-> <<wide(b), wider(b)>>]
  BY DEF WidthsOf
<1>8. skips = [b \in 1 .. m |-> blocks[b].skip] /\ datas = [b \in 1 .. m |-> blocks[b].data]
  BY DEF SkipsOf, DataOf
<1> HIDE DEF lasts, lengths, widths, skips, datas, wide, wider
<1>9. lasts \in [1 .. m -> Nat]
  BY <1>3, <1>5
<1>10. lengths \in [1 .. m -> Nat]
  BY <1>2, <1>6
<1>11. widths \in [1 .. m -> Nat \X Nat]
  BY <1>2, <1>7
<1>12. skips \in [1 .. m -> Seq(Nat)] /\ datas \in [1 .. m -> Seq(Nat)]
  BY <1>2, <1>8
<1>13. ASSUME NEW b \in 1 .. m PROVE SkipIs(skips[b], lasts, lengths, widths, b)
  <2>1. PriorOf(lasts, b) \in 0 .. lasts[b]
    BY <1>3, <1>4
  <2>2. skips[b] = EncodeVarint(lasts[b] - PriorOf(lasts, b)) \o EncodeVarint(lengths[b]) \o widths[b]
    <3>1. lasts[b] - PriorOf(lasts, b) = ids[at[b]] - PriorTo(ids, at, b)
      BY <1>3, <1>4
    <3>2. /\ lengths[b] = Len(blocks[b].data) /\ widths[b] = <<wide(b), wider(b)>>
          /\ skips[b] = blocks[b].skip
      BY <1>4
    <3>3. blocks[b].skip = EncodeVarint(ids[at[b]] - PriorTo(ids, at, b))
                                   \o EncodeVarint(Len(blocks[b].data)) \o <<wide(b), wider(b)>>
      BY <1>2
    <3>4. QED BY Zenon, <3>1, <3>2, <3>3
  <2>3. QED BY <2>1, <2>2 DEF SkipIs
<1>14. Entries(lasts, lengths, widths, m)
  BY <1>1, <1>9, <1>10, <1>11 DEF Entries
<1>15. SkipsAre(skips, lasts, lengths, widths, m)
  BY <1>13 DEF SkipsAre
<1>16. QED BY <1>12, <1>14, <1>15 DEF lasts, lengths, widths, skips, datas

\* Bytes in four parts.
InFour(u, v, x, y, data) ==
  /\ Stands(u, data, 1) /\ Stands(v, data, 1 + Len(u))
  /\ Stands(x, data, 1 + Len(u) + Len(v))
  /\ SubSeq(data, 1 + Len(u) + Len(v) + Len(x), Len(data)) = y

LEMMA FourParts ==
  ASSUME NEW S, NEW u \in Seq(S), NEW v \in Seq(S), NEW x \in Seq(S), NEW y \in Seq(S),
         NEW data, data = u \o v \o x \o y
  PROVE  InFour(u, v, x, y, data)
<1> DEFINE uv == u \o v
           uvx == uv \o x
<1>1. uv \in Seq(S) /\ uvx \in Seq(S) /\ data \in Seq(S) /\ data = uvx \o y /\ uvx = uv \o x
  OBVIOUS
<1>2. uv = u \o v
  OBVIOUS
<1> HIDE DEF uv, uvx
<1>3. Stands(uvx \o y, data, 1)
  BY <1>1, StandsWhole
<1>4. Stands(uvx, data, 1) /\ Stands(y, data, 1 + Len(uvx)) /\ Len(data) = Len(uvx) + Len(y)
  BY <1>1, <1>3, StandsConcat
<1>5. Stands(uv, data, 1) /\ Stands(x, data, 1 + Len(uv)) /\ Len(uvx) = Len(uv) + Len(x)
  BY <1>1, <1>4, StandsConcat
<1>6. Stands(u, data, 1) /\ Stands(v, data, 1 + Len(u)) /\ Len(uv) = Len(u) + Len(v)
  BY <1>2, <1>5, StandsConcat
<1> DEFINE p == 1 + Len(uvx)
           e == Len(data)
<1>7. Len(u) \in Nat /\ Len(v) \in Nat /\ Len(x) \in Nat /\ Len(y) \in Nat
  OBVIOUS
<1>8. /\ 1 + Len(uv) = 1 + Len(u) + Len(v) /\ p = 1 + Len(u) + Len(v) + Len(x)
      /\ p + Len(y) - 1 = e
  BY <1>4, <1>5, <1>6, <1>7
<1>9. Slice(data, p, Len(y)) = y
  BY <1>4, SliceStands
<1> HIDE DEF p, e
<1>10. SubSeq(data, p, e) = y
  BY <1>8, <1>9 DEF Slice
<1>11. QED BY <1>1, <1>5, <1>6, <1>8, <1>10 DEF e, InFour

\* What a list that is not small is when it is open.
InBlocks(p, ids, freqs, n, m, at, blocks) ==
  /\ p.count = n /\ ~p.small /\ p.last = LastsOf(ids, at, m)
  /\ p.length = LengthsOf(blocks, m) /\ p.bits = WidthsOf(ids, freqs, at, m)
  /\ p.data = FlattenSeq(DataOf(blocks, m))

LEMMA LargeOpens ==
  ASSUME NEW n \in Nat \ {0}, n > SmallList, NEW ids, IsList(ids, n),
         NEW freqs \in [1 .. n -> Nat], NEW m, m = BlocksFor(n), NEW at, at = CutEvenly(n),
         NEW blocks, blocks = BlocksOf(ids, freqs, at, m)
  PROVE  InBlocks(OpenPostings(EncodeBlocked(ids, freqs)), ids, freqs, n, m, at, blocks)
<1> DEFINE u == EncodeVarint(n)
           v == EncodeVarint(m)
           skips == SkipsOf(blocks, m)
           datas == DataOf(blocks, m)
           x == FlattenSeq(skips)
           y == FlattenSeq(datas)
           data == EncodeBlocked(ids, freqs)
           lasts == LastsOf(ids, at, m)
           lengths == LengthsOf(blocks, m)
           widths == WidthsOf(ids, freqs, at, m)
           pos == 1 + Len(u) + Len(v)
<1>1. Cuts(at, m, n) /\ m \in Nat
  BY EvenCuts
<1>2. data = u \o v \o x \o y
  <2>1. data = LargeBytes(n, m, blocks)
    BY LargeIs
  <2>2. QED BY Zenon, <2>1 DEF LargeBytes
<1>3. /\ Entries(lasts, lengths, widths, m) /\ SkipsAre(skips, lasts, lengths, widths, m)
      /\ skips \in [1 .. m -> Seq(Nat)] /\ datas \in [1 .. m -> Seq(Nat)]
  BY <1>1, BlocksIndexed
<1> HIDE DEF skips, datas, lasts, lengths, widths, data
<1>4. x \in Seq(Nat) /\ y \in Seq(Nat)
  BY <1>1, <1>3, FlattenHasAll
<1>5. u \in Seq(Nat) /\ v \in Seq(Nat)
  BY <1>1, VarintIs DEF VarintHas, VarintBytes
<1>6. DecodeVarint(data, 1).value = n /\ DecodeVarint(data, 1).next = 1 + Len(u)
  <2> DEFINE one == 1
  <2>1. Stands(u, data, one)
    <3> HIDE DEF u, v, x, y
    <3>1. InFour(u, v, x, y, data)
      BY <1>2, <1>4, <1>5, FourParts
    <3>2. QED BY <3>1 DEF InFour
  <2> HIDE DEF one
  <2>2. DecodeVarint(data, one).value = n /\ DecodeVarint(data, one).next = one + Len(u)
    BY <2>1, VarintReads
  <2>3. QED BY <2>2 DEF one
<1>7. Stands(v, data, 1 + Len(u)) /\ Stands(x, data, pos) /\ SubSeq(data, pos + Len(x), Len(data)) = y
  <2> HIDE DEF u, v, x, y
  <2>1. InFour(u, v, x, y, data)
    BY <1>2, <1>4, <1>5, FourParts
  <2>2. QED BY <2>1 DEF InFour
<1> DEFINE q == 1 + Len(u)
<1> HIDE DEF q
<1>8. DecodeVarint(data, q).value = m /\ DecodeVarint(data, q).next = q + Len(v)
  BY <1>1, <1>7, VarintReads DEF q
<1> HIDE DEF u, v, x, y
<1> DEFINE index == FoldLeft(LAMBDA open, b : ReadSkip(open, data),
                        [last |-> <<>>, length |-> <<>>, bits |-> <<>>, next |-> pos],
                        [b \in 1 .. m |-> b])
<1>9. index = Indexed(lasts, lengths, widths, m, pos + Len(x))
  <2>1. Indices(index, data, m, pos)
    BY Zenon DEF Indices
  <2> HIDE DEF index, pos
  <2>2. Stands(FlattenSeq(skips), data, pos)
    BY <1>7 DEF x
  <2>3. index = Indexed(lasts, lengths, widths, m, pos + Len(FlattenSeq(skips)))
    BY ONLY <1>1, <1>3, <2>1, <2>2, IndexReads
  <2>4. QED BY <2>3 DEF x
<1>10. OpenPostings(data) = LargeOpened(data)
  BY <1>6, OpensAs
<1>11. LargeOpened(data) =
         [count |-> n, last |-> index.last, small |-> FALSE, length |-> index.length,
          bits |-> index.bits, data |-> SubSeq(data, index.next, Len(data))]
  BY Zenon, <1>6, <1>8 DEF LargeOpened, q
<1> DEFINE next == pos + Len(x)
<1> HIDE DEF index, next
<1>12. index.last = lasts /\ index.length = lengths /\ index.bits = widths /\ index.next = next
  <2>1. /\ First(lasts, m) = lasts /\ First(lengths, m) = lengths /\ First(widths, m) = widths
    BY <1>3 DEF Entries, First
  <2>2. QED BY <1>9, <2>1 DEF Indexed, next
<1>13. SubSeq(data, next, Len(data)) = y
  BY <1>7 DEF next
<1> DEFINE p == OpenPostings(data)
<1>14. p = [count |-> n, last |-> lasts, small |-> FALSE, length |-> lengths,
            bits |-> widths, data |-> y]
  BY <1>10, <1>11, <1>12, <1>13
<1> HIDE DEF p
<1>15. /\ p.count = n /\ ~p.small /\ p.last = lasts /\ p.length = lengths /\ p.bits = widths
       /\ p.data = y
  BY <1>14
<1>16. QED BY <1>15 DEF p, InBlocks, lasts, lengths, widths, y, datas, data
-----------------------------------------------------------------------------
(* Reading a block. *)

\* What one sequence before another takes.
LEMMA HalvesAre ==
  ASSUME NEW S, NEW x \in Seq(S), NEW y \in Seq(S), NEW raw, raw = x \o y, NEW size, size = Len(x)
  PROVE  SubSeq(raw, 1, size) = x /\ SubSeq(raw, size + 1, Len(raw)) = y
<1>1. raw \in Seq(S) /\ Len(x) \in Nat /\ Len(y) \in Nat
  OBVIOUS
<1>2. Stands(x \o y, raw, 1)
  BY <1>1, StandsWhole
<1>3. Stands(x, raw, 1) /\ Stands(y, raw, 1 + Len(x)) /\ Len(raw) = Len(x) + Len(y)
  BY <1>1, <1>2, StandsConcat
<1> DEFINE one == 1
           p == 1 + Len(x)
<1>4. one + size - 1 = size /\ p + Len(y) - 1 = Len(raw) /\ p = size + 1
  BY <1>1, <1>3
<1> HIDE DEF one, p
<1>5. Slice(raw, one, Len(x)) = x
  BY <1>3, SliceStands DEF one
<1>6. Slice(raw, p, Len(y)) = y
  BY <1>3, SliceStands DEF p
<1>7. SubSeq(raw, one, size) = x
  BY <1>4, <1>5 DEF Slice
<1>8. SubSeq(raw, p, Len(raw)) = y
  BY <1>4, <1>6 DEF Slice
<1>9. QED BY <1>4, <1>7, <1>8 DEF one

\* The bytes of a block are found.
LEMMA RawIs ==
  ASSUME NEW m \in Nat, NEW datas \in [1 .. m -> Seq(Nat)], NEW lengths,
         lengths = [k \in 1 .. m |-> Len(datas[k])], NEW b \in 1 .. m
  PROVE  Slice(FlattenSeq(datas), 1 + SumOf(SubSeq(lengths, 1, b - 1)), lengths[b]) = datas[b]
<1> DEFINE y == FlattenSeq(datas)
<1>1. PICK o : Laid(y, datas, m, o)
  BY FlattenIsLaid
<1> HIDE DEF y
<1>2. /\ o \in [0 .. m -> Nat] /\ o[0] = 0 /\ \A k \in 1 .. m : o[k] = o[k - 1] + Len(datas[k])
      /\ Stands(datas[b], y, 1 + o[b - 1])
  BY <1>1 DEF Laid, StartsAt
<1>3. \A k \in 1 .. m : lengths[k] = Len(datas[k]) /\ Len(datas[k]) \in Nat
  <2>1. \A k \in 1 .. m : datas[k] \in Seq(Nat)
    OBVIOUS
  <2>2. QED BY <2>1
<1>4. lengths \in [1 .. m -> Int]
  <2>1. lengths = [k \in 1 .. m |-> lengths[k]]
    OBVIOUS
  <2>2. QED BY <1>3, <2>1
<1>5. Sums(o, lengths, m)
  <2>1. o \in [0 .. m -> Int]
    BY <1>2
  <2>2. QED BY <1>2, <1>3, <2>1 DEF Sums
<1>6. SumOf(SubSeq(lengths, 1, b - 1)) = o[b - 1]
  <2>1. b - 1 \in 0 .. m
    OBVIOUS
  <2>2. QED BY <1>4, <1>5, <2>1, SumOfFirst
<1>7. Slice(y, 1 + o[b - 1], Len(datas[b])) = datas[b]
  <2> DEFINE part == datas[b]
             pos == 1 + o[b - 1]
  <2>1. part \in Seq(Nat) /\ Stands(part, y, pos)
    BY <1>2
  <2> HIDE DEF part, pos
  <2>2. Slice(y, pos, Len(part)) = part
    BY <2>1, SliceStands
  <2>3. QED BY <2>2 DEF part, pos
<1>8. QED BY <1>3, <1>6, <1>7 DEF y

Opened(p, b, ids, freqs) == DecodeBlock(p, b).ids = ids /\ DecodeBlock(p, b).freqs = freqs

\* decode_block() reads what encode_block() wrote.
LEMMA BlockReads ==
  ASSUME NEW at, NEW m, NEW n, Cuts(at, m, n), FullBlocks(at, m, n),
         NEW ids, IsList(ids, n), NEW freqs \in [1 .. n -> Nat],
         NEW blocks, blocks = BlocksOf(ids, freqs, at, m),
         NEW p, InBlocks(p, ids, freqs, n, m, at, blocks), NEW b \in 1 .. m
  PROVE  Opened(p, b, Part(ids, at, b), Part(freqs, at, b))
<1> DEFINE size == at[b] - at[b - 1]
           part == Part(ids, at, b)
           counts == Part(freqs, at, b)
           before == PriorTo(ids, at, b)
           gaps == Gaps(part, before)
           wide == WidthFor(gaps)
           wider == WidthFor(counts)
           x == Pack(gaps, wide)
           y == Pack(counts, wider)
           lengths == LengthsOf(blocks, m)
           datas == DataOf(blocks, m)
<1>1. m \in Nat /\ n \in Nat /\ size \in Nat \ {0}
  BY PartIs DEF Cuts, IsList
<1>2. Smaller(BlockSize, p.count - (b - 1) * BlockSize) = size
  BY DEF InBlocks, FullBlocks
<1>3. /\ IsList(part, size) /\ before \in Nat /\ before <= part[1]
      /\ counts \in [1 .. size -> Nat]
  BY PartIsList, PartIs
<1>4. Regained(part, gaps, before, size)
  <2> HIDE DEF part, before, size
  <2>1. QED BY <1>1, <1>3, GapsAre
<1>5. /\ x \in Seq(Nat) /\ Len(x) = PackedSize(size, wide) /\ Unpack(x, size, wide) = gaps
      /\ y \in Seq(Nat) /\ Unpack(y, size, wider) = counts
      /\ blocks[b].data = x \o y
  <2>1. WrittenAt(blocks[b], ids, freqs, at, b)
    BY BlocksAre
  <2>2. QED BY <2>1 DEF WrittenAt, Written
<1>6. p.bits[b][1] = wide /\ p.bits[b][2] = wider
  BY DEF InBlocks, WidthsOf
<1>7. (IF b = 1 THEN 0 ELSE p.last[b - 1]) = before
  <2>1. b # 1 => b - 1 \in 1 .. m
    BY <1>1
  <2>2. b # 1 => p.last[b - 1] = ids[at[b - 1]]
    BY <2>1 DEF InBlocks, LastsOf
  <2>3. QED BY <2>2 DEF PriorTo
<1>8. datas \in [1 .. m -> Seq(Nat)] /\ datas[b] = blocks[b].data
  <2>1. datas[b] = blocks[b].data
    BY DEF DataOf
  <2> HIDE DEF datas
  <2>2. datas \in [1 .. m -> Seq(Nat)]
    BY BlocksIndexed DEF datas
  <2>3. QED BY <2>1, <2>2
<1>9. lengths = [k \in 1 .. m |-> Len(datas[k])] /\ p.length = lengths /\ p.data = FlattenSeq(datas)
  BY DEF InBlocks, LengthsOf, DataOf
<1> HIDE DEF size, part, counts, before, gaps, wide, wider, x, y, lengths, datas
<1> DEFINE raw == Slice(p.data, 1 + SumOf(SubSeq(p.length, 1, b - 1)), p.length[b])
           packed == PackedSize(size, wide)
<1>10. raw = x \o y
  <2>1. Slice(FlattenSeq(datas), 1 + SumOf(SubSeq(lengths, 1, b - 1)), lengths[b]) = datas[b]
    <3>1. m \in Nat /\ b \in 1 .. m /\ datas \in [1 .. m -> Seq(Nat)]
      BY <1>1, <1>8
    <3>2. lengths = [k \in 1 .. m |-> Len(datas[k])]
      BY <1>9
    <3>3. QED BY ONLY <3>1, <3>2, RawIs
  <2>2. QED BY <1>5, <1>8, <1>9, <2>1
<1> HIDE DEF raw, packed
<1>11. SubSeq(raw, 1, packed) = x /\ SubSeq(raw, packed + 1, Len(raw)) = y
  <2>1. packed = Len(x)
    BY <1>5 DEF packed
  <2>2. QED BY <1>5, <1>10, <2>1, HalvesAre
<1>12. DecodeBlock(p, b) =
         IF p.small THEN [ids |-> p.ids, freqs |-> p.freqs]
         ELSE [ids |-> [i \in 1 .. size |->
                          (IF b = 1 THEN 0 ELSE p.last[b - 1])
                            + SumOf(SubSeq(Unpack(SubSeq(raw, 1, packed), size, p.bits[b][1]), 1, i))],
               freqs |-> Unpack(SubSeq(raw, packed + 1, Len(raw)), size, p.bits[b][2])]
  BY Zenon, <1>2, <1>6 DEF DecodeBlock, raw, packed
<1>13. ~p.small
  BY DEF InBlocks
<1> DEFINE listed == [i \in 1 .. size |-> before + SumOf(SubSeq(gaps, 1, i))]
<1>14. DecodeBlock(p, b) = [ids |-> listed, freqs |-> counts]
  BY Zenon, <1>5, <1>6, <1>7, <1>11, <1>12, <1>13
<1>15. listed = part
  <2>1. part \in [1 .. size -> Nat]
    BY <1>3 DEF IsList
  <2>2. \A i \in 1 .. size : before + SumOf(SubSeq(gaps, 1, i)) = part[i]
    BY <1>4 DEF Regained
  <2>3. QED BY <2>1, <2>2
<1> HIDE DEF listed
<1>16. QED BY <1>14, <1>15 DEF Opened, part, counts
-----------------------------------------------------------------------------
(* What an open list has. *)

Opens(p, ids, freqs, n, m, at) ==
  /\ Cuts(at, m, n) /\ p.last = LastsOf(ids, at, m)
  /\ \A b \in 1 .. m : Opened(p, b, Part(ids, at, b), Part(freqs, at, b))

LEMMA OpensLarge ==
  ASSUME NEW n \in Nat \ {0}, n > SmallList, NEW ids, IsList(ids, n), NEW freqs \in [1 .. n -> Nat],
         NEW p, p = OpenPostings(EncodeBlocked(ids, freqs))
  PROVE  Opens(p, ids, freqs, n, BlocksFor(n), CutEvenly(n))
<1> DEFINE m == BlocksFor(n)
           at == CutEvenly(n)
           blocks == BlocksOf(ids, freqs, at, m)
<1>1. Cuts(at, m, n) /\ FullBlocks(at, m, n)
  BY EvenCuts
<1>2. m = BlocksFor(n) /\ at = CutEvenly(n) /\ blocks = BlocksOf(ids, freqs, at, m)
  OBVIOUS
<1> HIDE DEF m, at, blocks
<1>3. InBlocks(p, ids, freqs, n, m, at, blocks)
  BY <1>2, LargeOpens
<1>4. \A b \in 1 .. m : Opened(p, b, Part(ids, at, b), Part(freqs, at, b))
  BY <1>1, <1>2, <1>3, BlockReads
<1>5. Opens(p, ids, freqs, n, m, at)
  BY <1>1, <1>3, <1>4 DEF Opens, InBlocks
<1>6. QED BY <1>5 DEF m, at

SmallReads(data, ids, freqs, n) ==
  /\ DecodeVarint(data, 1).value = n
  /\ DecodeVarints(data, n, DecodeVarint(data, 1).next).values = DeltaEncode(ids)
  /\ DecodeVarints(data, n, DecodeVarints(data, n, DecodeVarint(data, 1).next).next).values = freqs

\* A small list has its varints one after the other.
LEMMA SmallBytes ==
  ASSUME NEW n \in Nat, n <= SmallList, NEW ids, IsList(ids, n), NEW freqs \in [1 .. n -> Nat],
         NEW data, data = EncodeBlocked(ids, freqs)
  PROVE  SmallReads(data, ids, freqs, n)
<1> DEFINE u == EncodeVarint(n)
           gaps == DeltaEncode(ids)
           v == EncodeVarints(gaps)
           x == EncodeVarints(freqs)
           one == 1
<1>1. ids \in [1 .. n -> Nat] /\ Len(ids) = n
  <2>1. ids \in [1 .. n -> Nat]
    BY DEF IsList
  <2>2. QED BY <2>1, LenIs
<1>2. data = u \o v \o x
  <2>1. Len(ids) <= SmallList =>
          EncodeBlocked(ids, freqs) = EncodeVarint(Len(ids)) \o v \o x
    BY Zenon DEF EncodeBlocked
  <2>2. EncodeVarint(Len(ids)) = u
    BY <1>1
  <2> HIDE DEF u, v, x
  <2>3. QED BY <1>1, <2>1, <2>2
<1>3. gaps \in [1 .. n -> Nat]
  BY DeltasAre
<1>4. u \in Seq(Nat) /\ v \in Seq(Nat) /\ x \in Seq(Nat)
  <2> HIDE DEF gaps
  <2>1. QED BY <1>3, VarintIs, VarintsAre DEF VarintHas, VarintBytes
<1>5. u \o v \in Seq(Nat) /\ data \in Seq(Nat)
  BY <1>2, <1>4
<1>6. Stands(u, data, one) /\ Stands(v, data, one + Len(u)) /\ Stands(x, data, one + Len(u) + Len(v))
  <2> DEFINE w == u \o v
  <2>1. w = u \o v /\ w \in Seq(Nat) /\ data = w \o x
    BY <1>2, <1>5
  <2> HIDE DEF w, u, v, x
  <2>2. Stands(w \o x, data, 1)
    BY <1>5, <2>1, StandsWhole
  <2>3. Stands(w, data, 1) /\ Stands(x, data, 1 + Len(w))
    BY <1>4, <2>1, <2>2, StandsConcat
  <2>4. Stands(u, data, 1) /\ Stands(v, data, 1 + Len(u)) /\ Len(w) = Len(u) + Len(v)
    BY <1>4, <2>1, <2>3, StandsConcat
  <2>5. 1 + Len(w) = 1 + Len(u) + Len(v)
    BY <1>4, <2>4
  <2>6. QED BY <2>3, <2>4, <2>5
<1> HIDE DEF one
<1>7. DecodeVarint(data, one).value = n /\ DecodeVarint(data, one).next = one + Len(u)
  BY <1>6, VarintReads
<1> DEFINE p == one + Len(u)
<1> HIDE DEF gaps, u, p
<1>8. DecodeVarints(data, n, p).values = gaps /\ DecodeVarints(data, n, p).next = p + Len(v)
  <2>1. Stands(EncodeVarints(gaps), data, p)
    BY <1>6 DEF p
  <2>2. QED BY <1>3, <2>1, VarintsRead
<1> DEFINE q == p + Len(v)
<1> HIDE DEF v, q
<1>9. DecodeVarints(data, n, q).values = freqs
  <2>1. Stands(EncodeVarints(freqs), data, q)
    BY <1>6 DEF p, q
  <2>2. QED BY <2>1, VarintsRead
<1>10. DecodeVarint(data, one).next = p /\ DecodeVarints(data, n, p).next = q
  BY <1>7, <1>8 DEF p, q
<1>11. QED BY <1>7, <1>8, <1>9, <1>10 DEF one, gaps, SmallReads

LEMMA OpensSmall ==
  ASSUME NEW n \in Nat \ {0}, n <= SmallList, NEW ids, IsList(ids, n), NEW freqs \in [1 .. n -> Nat],
         NEW p, p = OpenPostings(EncodeBlocked(ids, freqs))
  PROVE  Opens(p, ids, freqs, n, 1, [b \in 0 .. 1 |-> IF b = 0 THEN 0 ELSE n])
<1> DEFINE data == EncodeBlocked(ids, freqs)
           at == [b \in 0 .. 1 |-> IF b = 0 THEN 0 ELSE n]
<1>1. ids \in [1 .. n -> Nat] /\ Len(ids) = n /\ SmallList \in Nat
  <2>1. ids \in [1 .. n -> Nat]
    BY DEF IsList
  <2>2. QED BY <2>1, LenIs, PostingsAssumption
<1>2. DeltaDecode(DeltaEncode(ids)) = ids
  BY DeltasAre
<1> DEFINE gaps == DecodeVarints(data, n, DecodeVarint(data, 1).next)
<1>3. /\ DecodeVarint(data, 1).value = n /\ gaps.values = DeltaEncode(ids)
      /\ DecodeVarints(data, n, gaps.next).values = freqs
  <2>1. data = EncodeBlocked(ids, freqs)
    OBVIOUS
  <2> HIDE DEF data
  <2>2. SmallReads(data, ids, freqs, n)
    BY <2>1, SmallBytes
  <2>3. QED BY <2>2 DEF SmallReads
<1> HIDE DEF data
<1>4. OpenPostings(data) = SmallOpened(data)
  <2>1. DecodeVarint(data, 1).value \in 1 .. SmallList /\ DecodeVarint(data, 1).value \in Nat
    BY <1>1, <1>3
  <2>2. QED BY ONLY <2>1, OpensAs
<1>5. SmallOpened(data) =
        [count |-> n, last |-> <<Last(DeltaDecode(gaps.values))>>, small |-> TRUE,
         ids |-> DeltaDecode(gaps.values), freqs |-> DecodeVarints(data, n, gaps.next).values]
  BY Zenon, <1>3 DEF SmallOpened
<1> HIDE DEF gaps
<1>6. p.last = <<Last(ids)>> /\ p.small /\ p.ids = ids /\ p.freqs = freqs
  BY <1>2, <1>3, <1>4, <1>5 DEF data
<1>7. Opened(p, 1, ids, freqs)
  <2>1. DecodeBlock(p, 1) = [ids |-> p.ids, freqs |-> p.freqs]
    BY Zenon, <1>6 DEF DecodeBlock
  <2>2. QED BY <1>6, <2>1 DEF Opened
<1>8. at[0] = 0 /\ at[1] = n /\ at \in [0 .. 1 -> Nat] /\ 1 - 1 = 0
  OBVIOUS
<1> HIDE DEF at
<1>9. Cuts(at, 1, n)
  <2>1. \A b \in 1 .. 1 : b = 1
    OBVIOUS
  <2>2. QED BY <1>8, <2>1 DEF Cuts
<1>10. Part(ids, at, 1) = ids /\ Part(freqs, at, 1) = freqs
  <2>1. at[1] - at[1 - 1] = n /\ at[1 - 1] = 0
    BY <1>8
  <2>2. \A i \in 1 .. n : 0 + i = i
    OBVIOUS
  <2>3. /\ Part(ids, at, 1) = [i \in 1 .. n |-> ids[0 + i]]
        /\ Part(freqs, at, 1) = [i \in 1 .. n |-> freqs[0 + i]]
    BY <2>1 DEF Part
  <2>4. QED BY <1>1, <2>2, <2>3
<1>11. p.last = LastsOf(ids, at, 1)
  <2>1. Last(ids) = ids[n]
    BY <1>1 DEF Last
  <2>2. LastsOf(ids, at, 1) = [b \in 1 .. 1 |-> ids[at[b]]]
    BY DEF LastsOf
  <2>3. [b \in 1 .. 1 |-> ids[at[b]]] = <<ids[at[1]]>>
    OBVIOUS
  <2>4. QED BY <1>6, <1>8, <2>1, <2>2, <2>3
<1>12. \A b \in 1 .. 1 : Opened(p, b, Part(ids, at, b), Part(freqs, at, b))
  <2>1. \A b \in 1 .. 1 : b = 1
    OBVIOUS
  <2>2. QED BY <1>7, <1>10, <2>1
<1>13. Opens(p, ids, freqs, n, 1, at)
  BY <1>9, <1>11, <1>12 DEF Opens
<1>14. QED BY <1>13 DEF at

LEMMA OpensEmpty ==
  ASSUME NEW ids, IsList(ids, 0), NEW freqs \in [1 .. 0 -> Nat],
         NEW p, p = OpenPostings(EncodeBlocked(ids, freqs))
  PROVE  Opens(p, ids, freqs, 0, 0, [b \in 0 .. 0 |-> 0])
<1> DEFINE data == EncodeBlocked(ids, freqs)
           at == [b \in 0 .. 0 |-> 0]
<1>0. PICK none \in Nat : none = 0
  OBVIOUS
<1>1. DecodeVarint(data, 1).value = none
  <2>1. none \in Nat /\ none <= SmallList /\ IsList(ids, none) /\ freqs \in [1 .. none -> Nat]
    BY <1>0, PostingsAssumption
  <2>2. data = EncodeBlocked(ids, freqs)
    OBVIOUS
  <2> HIDE DEF data
  <2>3. SmallReads(data, ids, freqs, none)
    BY <2>1, <2>2, SmallBytes
  <2>4. QED BY <2>3 DEF SmallReads
<1> HIDE DEF data
<1>2. OpenPostings(data) = NothingOpened
  BY <1>0, <1>1, OpensAs
<1>3. p.last = <<>>
  BY <1>2 DEF NothingOpened, data
<1>4. at[0] = 0 /\ at \in [0 .. 0 -> Nat] /\ \A b \in 1 .. 0 : FALSE
  OBVIOUS
<1> HIDE DEF at
<1>5. Cuts(at, 0, 0)
  BY <1>4 DEF Cuts
<1>6. LastsOf(ids, at, 0) = <<>>
  BY DEF LastsOf
<1>7. Opens(p, ids, freqs, 0, 0, at)
  BY <1>3, <1>4, <1>5, <1>6 DEF Opens
<1>8. QED BY <1>7 DEF at

\* A list opened from its bytes has it all, cut into blocks somewhere.
LEMMA ListOpens ==
  ASSUME NEW n \in Nat, NEW ids, IsList(ids, n), NEW freqs \in [1 .. n -> Nat]
  PROVE  \E m, at : Opens(OpenPostings(EncodeBlocked(ids, freqs)), ids, freqs, n, m, at)
<1> DEFINE p == OpenPostings(EncodeBlocked(ids, freqs))
<1>1. p = OpenPostings(EncodeBlocked(ids, freqs)) /\ SmallList \in Nat
  BY PostingsAssumption
<1> HIDE DEF p
<1>2. CASE n = 0
  <2>1. Opens(p, ids, freqs, 0, 0, [b \in 0 .. 0 |-> 0])
    BY <1>1, <1>2, OpensEmpty
  <2>2. QED BY <1>2, <2>1 DEF p
<1>3. CASE n # 0 /\ n <= SmallList
  <2>1. Opens(p, ids, freqs, n, 1, [b \in 0 .. 1 |-> IF b = 0 THEN 0 ELSE n])
    BY <1>1, <1>3, OpensSmall
  <2>2. QED BY <2>1 DEF p
<1>4. CASE n # 0 /\ n > SmallList
  <2>1. Opens(p, ids, freqs, n, BlocksFor(n), CutEvenly(n))
    BY <1>1, <1>4, OpensLarge
  <2>2. QED BY <2>1 DEF p
<1>5. QED BY <1>1, <1>2, <1>3, <1>4

\* Every position lies in a block.
LEMMA Covers ==
  ASSUME NEW at, NEW m, NEW n, Cuts(at, m, n), NEW i \in 1 .. n
  PROVE  \E b \in 1 .. m : at[b - 1] < i /\ i <= at[b]
<1> DEFINE S == {b \in 1 .. m : i <= at[b]}
<1>1. m \in Nat /\ n \in Nat /\ at \in [0 .. m -> Nat] /\ at[0] = 0 /\ at[m] = n
  BY DEF Cuts
<1>2. m \in S
  <2>1. m # 0
    BY <1>1
  <2>2. QED BY <1>1, <2>1
<1>3. S \in SUBSET Nat /\ S # {}
  BY <1>2
<1>4. PICK b \in S : \A d \in S : b <= d
  <2> HIDE DEF S
  <2>1. QED BY <1>3, LeastNatural
<1>5. b \in 1 .. m /\ i <= at[b]
  OBVIOUS
<1>6. at[b - 1] < i
  <2>1. b - 1 \in 0 .. m /\ at[b - 1] \in Nat
    BY <1>1, <1>5
  <2>2. CASE b = 1
    BY <1>1, <2>2
  <2>3. CASE b # 1
    <3>1. b - 1 \in 1 .. m /\ ~(b <= b - 1)
      BY <1>1, <1>5, <2>3
    <3>2. b - 1 \notin S
      BY <1>4, <3>1
    <3>3. ~(i <= at[b - 1])
      BY <3>1, <3>2
    <3>4. QED BY <2>1, <3>3
  <2>4. QED BY <2>2, <2>3
<1>7. QED BY <1>5, <1>6

Parts(seq, at, m) == [b \in 1 .. m |-> Part(seq, at, b)]

\* The blocks of a sequence are all of it.
LEMMA PartsTogether ==
  ASSUME NEW S, NEW at, NEW m, NEW n, Cuts(at, m, n), NEW seq \in [1 .. n -> S]
  PROVE  FlattenSeq(Parts(seq, at, m)) = seq
<1> DEFINE parts == Parts(seq, at, m)
           whole == FlattenSeq(parts)
<1>1. m \in Nat /\ n \in Nat /\ at \in [0 .. m -> Nat] /\ at[0] = 0 /\ at[m] = n
  BY DEF Cuts
<1>2. ASSUME NEW b \in 1 .. m
      PROVE  parts[b] \in Seq(S) /\ Len(parts[b]) = at[b] - at[b - 1]
             /\ at[b] - at[b - 1] \in Nat /\ at[b] \in Nat /\ at[b - 1] \in Nat
             /\ parts[b] = Part(seq, at, b)
  <2> DEFINE size == at[b] - at[b - 1]
  <2>1. parts[b] = Part(seq, at, b)
    BY DEF Parts
  <2>2. /\ size \in Nat \ {0} /\ at[b] \in Nat /\ at[b - 1] \in Nat
        /\ Part(seq, at, b) \in [1 .. size -> S]
    <3>1. IsPart(seq, at, b, n, S)
      BY Zenon, PartOf
    <3>2. QED BY <3>1 DEF IsPart
  <2> HIDE DEF parts, size
  <2>3. parts[b] \in Seq(S) /\ Len(parts[b]) = size
    BY <2>1, <2>2, LenIs
  <2>4. QED BY <2>1, <2>2, <2>3 DEF size
<1>3. parts = [b \in 1 .. m |-> parts[b]]
  BY DEF Parts
<1> HIDE DEF parts
<1>4. parts \in [1 .. m -> Seq(S)]
  BY <1>2, <1>3
<1>5. PICK o : Laid(whole, parts, m, o)
  BY <1>1, <1>4, FlattenIsLaid
<1>6. whole \in Seq(S)
  BY <1>1, <1>4, FlattenIsLaid
<1> HIDE DEF whole
<1>7. /\ o \in [0 .. m -> Nat] /\ o[0] = 0 /\ \A k \in 1 .. m : o[k] = o[k - 1] + Len(parts[k])
      /\ Len(whole) = o[m] /\ \A k \in 1 .. m : Stands(parts[k], whole, 1 + o[k - 1])
  BY <1>5 DEF Laid, StartsAt
<1>8. ASSUME NEW k \in 1 .. m, o[k - 1] = at[k - 1] PROVE o[k] = at[k]
  <2>1. o[k] = o[k - 1] + Len(parts[k]) /\ Len(parts[k]) = at[k] - at[k - 1]
    BY <1>2, <1>7
  <2>2. at[k] \in Nat /\ at[k - 1] \in Nat
    BY <1>2
  <2>3. QED BY <1>8, <2>1, <2>2
<1>9. \A k \in 0 .. m : o[k] = at[k]
  <2>1. o[0] = at[0]
    BY <1>1, <1>7
  <2>2. \A k \in 1 .. m : o[k - 1] = at[k - 1] => o[k] = at[k]
    BY <1>8
  <2>3. m \in Nat
    BY <1>1
  <2>4. QED BY ONLY <2>1, <2>2, <2>3, WalksTogether
<1>10. Len(whole) = n
  BY <1>1, <1>7, <1>9
<1>11. ASSUME NEW i \in 1 .. n PROVE whole[i] = seq[i]
  <2>1. PICK b \in 1 .. m : at[b - 1] < i /\ i <= at[b]
    BY Covers
  <2> DEFINE from == at[b - 1]
             j == i - from
             size == Len(parts[b])
  <2>2. from \in Nat /\ size = at[b] - from /\ at[b] \in Nat /\ o[b - 1] = from
    <3>1. b - 1 \in 0 .. m
      BY <1>1
    <3>2. QED BY <1>2, <1>9, <3>1
  <2>3. j \in 1 .. size /\ 1 + from + j - 1 = i /\ from + j = i
    <3> HIDE DEF size
    <3>1. from < i /\ i <= at[b] /\ i \in Nat
      BY <1>1, <2>1
    <3> HIDE DEF from
    <3>2. QED BY <2>2, <3>1
  <2>4. Stands(parts[b], whole, 1 + from)
    BY <1>7, <2>2
  <2> HIDE DEF from, j, size
  <2>5. whole[1 + from + j - 1] = parts[b][j]
    BY <2>3, <2>4 DEF Stands, size
  <2>6. parts[b][j] = seq[from + j]
    <3>1. j \in 1 .. at[b] - at[b - 1]
      BY <2>2, <2>3 DEF from
    <3>2. Part(seq, at, b)[j] = seq[at[b - 1] + j]
      BY <3>1 DEF Part
    <3>3. QED BY <1>2, <3>2 DEF from
  <2>7. QED BY <2>3, <2>5, <2>6
<1>12. whole \in [1 .. n -> S]
  BY <1>6, <1>10
<1>13. whole = seq
  <2>1. seq = [i \in 1 .. n |-> seq[i]] /\ whole = [i \in 1 .. n |-> whole[i]]
    BY <1>12
  <2>2. QED BY <1>11, <2>1
<1>14. QED BY <1>13 DEF whole, parts

\* All of a list is read.
LEMMA AllIsRead ==
  ASSUME NEW ids, NEW n, IsList(ids, n), NEW freqs \in [1 .. n -> Nat], NEW m, NEW at,
         NEW p, Opens(p, ids, freqs, n, m, at)
  PROVE  DocIds(p) = ids /\ Freqs(p) = freqs /\ DOMAIN p.last = 1 .. m /\ Len(p.last) = m
<1>1. Cuts(at, m, n) /\ ids \in [1 .. n -> Nat] /\ m \in Nat
  BY DEF Opens, Cuts, IsList
<1>2. DOMAIN p.last = 1 .. m /\ p.last \in [1 .. m -> Range(p.last)]
  <2>1. p.last = [b \in 1 .. m |-> ids[at[b]]]
    BY DEF Opens, LastsOf
  <2>2. QED BY <2>1 DEF Range
<1>3. Len(p.last) = m
  BY <1>1, <1>2, LenIs
<1>4. \A b \in 1 .. m : DecodeBlock(p, b).ids = Part(ids, at, b) /\ DecodeBlock(p, b).freqs = Part(freqs, at, b)
  BY DEF Opens, Opened
<1>5. [b \in DOMAIN p.last |-> DecodeBlock(p, b).ids] = Parts(ids, at, m)
  BY <1>2, <1>4 DEF Parts
<1>6. [b \in DOMAIN p.last |-> DecodeBlock(p, b).freqs] = Parts(freqs, at, m)
  BY <1>2, <1>4 DEF Parts
<1>7. FlattenSeq(Parts(ids, at, m)) = ids /\ FlattenSeq(Parts(freqs, at, m)) = freqs
  BY <1>1, PartsTogether
<1>8. QED BY <1>2, <1>3, <1>5, <1>6, <1>7 DEF DocIds, Freqs
-----------------------------------------------------------------------------
(* Searching. *)

\* How many elements of an ascending sequence are less than something.
LEMMA LessAreFirst ==
  ASSUME NEW m \in Nat, NEW f \in [1 .. m -> Int], \A i, j \in 1 .. m : i < j => f[i] < f[j],
         NEW t \in Int
  PROVE  /\ Cardinality({i \in 1 .. m : f[i] < t}) \in 0 .. m
         /\ \A i \in 1 .. m : f[i] < t <=> i < 1 + Cardinality({j \in 1 .. m : f[j] < t})
<1> DEFINE S == {i \in 1 .. m : f[i] < t}
<1>1. \E k \in 0 .. m : \A i \in 1 .. m : f[i] < t <=> i <= k
  <2>1. CASE S = {}
    <3>1. 0 \in 0 .. m /\ \A i \in 1 .. m : ~(f[i] < t) /\ ~(i <= 0)
      BY <2>1
    <3>2. QED BY <3>1
  <2>2. CASE S # {}
    <3>1. S \in SUBSET Nat /\ m + 1 \in Nat /\ \A i \in S : i < m + 1
      OBVIOUS
    <3>2. PICK hi \in S : \A i \in S : i <= hi
      <4> HIDE DEF S
      <4>1. QED BY <2>2, <3>1, GreatestNatural
    <3>3. hi \in 1 .. m /\ f[hi] < t /\ f[hi] \in Int
      OBVIOUS
    <3>4. ASSUME NEW i \in 1 .. m PROVE f[i] < t <=> i <= hi
      <4>1. f[i] \in Int
        OBVIOUS
      <4>2. f[i] < t => i <= hi
        BY <3>2
      <4>3. i <= hi => f[i] < t
        <5>1. i = hi \/ i < hi \/ ~(i <= hi)
          BY <3>3
        <5>2. i < hi => f[i] < f[hi]
          BY <3>3
        <5>3. QED BY <3>3, <4>1, <5>1, <5>2
      <4>4. QED BY <4>2, <4>3
    <3>5. hi \in 0 .. m
      BY <3>3
    <3>6. QED BY <3>4, <3>5
  <2>3. QED BY <2>1, <2>2
<1>2. PICK k \in 0 .. m : \A i \in 1 .. m : f[i] < t <=> i <= k
  BY <1>1
<1>3. S = 1 .. k
  BY <1>2
<1>4. Cardinality(S) = k
  <2>1. Cardinality(1 .. k) = IF 1 > k THEN 0 ELSE k - 1 + 1
    BY FS_Interval
  <2>2. k = IF 1 > k THEN 0 ELSE k - 1 + 1
    OBVIOUS
  <2> HIDE DEF S
  <2>3. QED BY Zenon, <1>3, <2>1, <2>2
<1> HIDE DEF S
<1>5. Cardinality(S) \in 0 .. m /\ \A i \in 1 .. m : f[i] < t <=> i < 1 + Cardinality(S)
  <2>1. \A i \in 1 .. m : i <= k <=> i < 1 + k
    OBVIOUS
  <2>2. QED BY <1>2, <1>4, <2>1
<1>6. QED BY <1>5 DEF S

\* Up to where a list is less than something.
Reaches(ids, n, t, s) == s \in 1 .. n + 1 /\ \A i \in 1 .. n : ids[i] < t <=> i < s

\* searchsorted() finds where a list has a document.
LEMMA SearchIs ==
  ASSUME NEW ids, NEW n, IsList(ids, n), NEW t \in Int
  PROVE  /\ Reaches(ids, n, t, SearchSorted(ids, t))
         /\ Holds(ids, t) <=> \E i \in 1 .. n : ids[i] = t
         /\ \A i \in 1 .. n : ids[i] = t => SearchSorted(ids, t) = i
<1> DEFINE s == SearchSorted(ids, t)
<1>1. n \in Nat /\ ids \in [1 .. n -> Nat] /\ \A i, j \in 1 .. n : i < j => ids[i] < ids[j]
  BY DEF IsList
<1>2. ids \in [1 .. n -> Int] /\ DOMAIN ids = 1 .. n /\ Len(ids) = n
  <2>1. Len(ids) = n
    BY <1>1, LenIs
  <2>2. QED BY <1>1, <2>1
<1>3. s \in 1 .. n + 1 /\ \A i \in 1 .. n : ids[i] < t <=> i < s
  <2> DEFINE d == Cardinality({i \in 1 .. n : ids[i] < t})
  <2>1. d \in 0 .. n /\ \A i \in 1 .. n : ids[i] < t <=> i < 1 + d
    <3>1. \A i, j \in 1 .. n : i < j => ids[i] < ids[j]
      BY <1>1
    <3>2. QED BY <1>1, <1>2, <3>1, LessAreFirst
  <2>2. s = 1 + d
    BY <1>2 DEF SearchSorted
  <2> HIDE DEF s, d
  <2>3. QED BY <1>1, <2>1, <2>2
<1> HIDE DEF s
<1>4. ASSUME NEW i \in 1 .. n, ids[i] = t PROVE s = i
  <2>1. ~(i < s)
    BY <1>1, <1>3, <1>4
  <2>2. CASE s < i
    <3>1. s \in 1 .. n
      BY <1>1, <1>3, <2>2
    <3>2. ids[s] < ids[i]
      BY <1>1, <2>2, <3>1
    <3>3. s < s
      BY <1>3, <1>4, <3>1, <3>2
    <3>4. QED BY <1>1, <1>3, <3>3
  <2>3. QED BY <1>1, <1>3, <2>1, <2>2
<1>5. Holds(ids, t) <=> \E i \in 1 .. n : ids[i] = t
  <2>1. Holds(ids, t) <=> s <= n /\ ids[s] = t
    BY <1>2 DEF Holds, s
  <2>2. s <= n /\ ids[s] = t => \E i \in 1 .. n : ids[i] = t
    BY <1>1, <1>3
  <2>3. ASSUME NEW i \in 1 .. n, ids[i] = t PROVE s <= n /\ ids[s] = t
    BY <1>1, <1>4, <2>3
  <2>4. QED BY <2>1, <2>2, <2>3
<1>6. Reaches(ids, n, t, s)
  BY <1>3 DEF Reaches
<1>7. QED BY <1>4, <1>5, <1>6 DEF s

UpwardsIn(at, m) == \A b, d \in 0 .. m : b < d => at[b] < at[d]

\* Cuts are ever further on.
LEMMA CutsGrow ==
  ASSUME NEW at, NEW m, NEW n, Cuts(at, m, n)
  PROVE  UpwardsIn(at, m)
<1>1. m \in Nat /\ at \in [0 .. m -> Nat] /\ \A b \in 1 .. m : at[b - 1] < at[b]
  BY DEF Cuts
<1> SUFFICES ASSUME NEW b \in 0 .. m, NEW d \in 0 .. m, b < d PROVE at[b] < at[d]
  BY DEF UpwardsIn
<1> DEFINE S == {k \in 0 .. m : b < k => at[b] < at[k]}
<1>2. 0 \in S
  BY <1>1
<1>3. ASSUME NEW k \in 0 .. m - 1, k \in S PROVE k + 1 \in S
  <2>1. k \in 0 .. m /\ k + 1 \in 1 .. m /\ k + 1 \in 0 .. m /\ k + 1 - 1 = k
    BY <1>1
  <2>2. at[k] < at[k + 1]
    BY <1>1, <2>1
  <2>3. at[k] \in Nat /\ at[k + 1] \in Nat /\ at[b] \in Nat
    BY <1>1, <2>1
  <2>4. CASE b < k
    <3>1. at[b] < at[k]
      BY <1>3, <2>4
    <3>2. at[b] < at[k + 1]
      BY <2>2, <2>3, <3>1
    <3>3. QED BY <2>1, <3>2
  <2>5. CASE ~(b < k)
    <3>1. b < k + 1 => b = k
      BY <1>1, <2>1, <2>5
    <3>2. b < k + 1 => at[b] < at[k + 1]
      BY <2>2, <3>1
    <3>3. QED BY <2>1, <3>2
  <2>6. QED BY <2>4, <2>5
<1> HIDE DEF S
<1>4. \A k \in 0 .. m : k \in S
  BY <1>1, <1>2, <1>3, UpTo
<1>5. d \in S
  BY <1>4
<1>6. QED BY <1>5 DEF S

\* What freq_in() and intersect_skipping() look for.
Found(p, doc) ==
  BlockContaining(p, doc) <= Len(p.last)
    /\ Holds(DecodeBlock(p, BlockContaining(p, doc)).ids, doc)

\* The one block that could hold a document does, if the list does.
LEMMA FoundIs ==
  ASSUME NEW ids, NEW n, IsList(ids, n), NEW freqs \in [1 .. n -> Nat], NEW m, NEW at,
         NEW p, Opens(p, ids, freqs, n, m, at), NEW doc \in Int
  PROVE  /\ Found(p, doc) <=> \E i \in 1 .. n : ids[i] = doc
         /\ \A i \in 1 .. n : ids[i] = doc => FreqIn(p, doc) = freqs[i]
<1> DEFINE lasts == p.last
           b == BlockContaining(p, doc)
<1>1. /\ Cuts(at, m, n) /\ m \in Nat /\ n \in Nat /\ at \in [0 .. m -> Nat] /\ at[m] = n
      /\ ids \in [1 .. n -> Nat] /\ \A i, j \in 1 .. n : i < j => ids[i] < ids[j]
  BY DEF Opens, Cuts, IsList
<1>2. DOMAIN lasts = 1 .. m /\ Len(lasts) = m
  BY AllIsRead
<1>3. lasts = [d \in 1 .. m |-> ids[at[d]]]
  BY DEF Opens, LastsOf
<1> HIDE DEF lasts
<1>4. ASSUME NEW d \in 1 .. m
      PROVE  /\ at[d] \in 1 .. n /\ at[d - 1] \in 0 .. n /\ at[d - 1] < at[d] /\ lasts[d] = ids[at[d]]
  <2>1. d - 1 \in 0 .. m /\ d \in 0 .. m
    BY <1>1
  <2>2. at[d] \in Nat /\ at[d - 1] \in Nat /\ at[d - 1] < at[d] /\ at[d] <= n
    BY <1>1, <2>1 DEF Cuts
  <2>3. QED BY <1>1, <1>3, <2>2
<1>5. lasts \in [1 .. m -> Int]
  BY <1>1, <1>3, <1>4
<1>6. \A d, e \in 1 .. m : d < e => lasts[d] < lasts[e]
  <2> SUFFICES ASSUME NEW d \in 1 .. m, NEW e \in 1 .. m, d < e PROVE lasts[d] < lasts[e]
    OBVIOUS
  <2>1. at[d] < at[e]
    <3>1. UpwardsIn(at, m)
      BY <1>1, CutsGrow
    <3>2. QED BY <3>1 DEF UpwardsIn
  <2>2. QED BY <1>1, <1>4, <2>1
<1>7. b \in 1 .. m + 1 /\ \A d \in 1 .. m : lasts[d] < doc <=> d < b
  <2> DEFINE k == Cardinality({d \in 1 .. m : lasts[d] < doc})
  <2>1. k \in 0 .. m /\ \A d \in 1 .. m : lasts[d] < doc <=> d < 1 + k
    BY <1>1, <1>5, <1>6, LessAreFirst
  <2>2. b = 1 + k
    BY <1>2 DEF BlockContaining, lasts
  <2> HIDE DEF b, k
  <2>3. QED BY <1>1, <2>1, <2>2
<1> HIDE DEF b
<1> DEFINE from == at[b - 1]
           size == at[b] - at[b - 1]
           part == Part(ids, at, b)
           counts == Part(freqs, at, b)
<1>8. ASSUME b \in 1 .. m
      PROVE  /\ IsList(part, size) /\ size \in Nat /\ from \in 0 .. n /\ from + size = at[b]
             /\ at[b] <= n
             /\ \A j \in 1 .. size : part[j] = ids[from + j] /\ counts[j] = freqs[from + j]
             /\ DecodeBlock(p, b).ids = part /\ DecodeBlock(p, b).freqs = counts
  <2>1. IsList(part, size)
    BY <1>1, <1>8, PartIsList
  <2>2. at[b] \in 1 .. n /\ from \in 0 .. n /\ from < at[b]
    BY <1>4, <1>8
  <2>3. size \in Nat /\ from + size = at[b] /\ at[b] <= n
    BY <1>1, <2>2
  <2>4. \A j \in 1 .. size : part[j] = ids[from + j] /\ counts[j] = freqs[from + j]
    BY DEF Part
  <2>5. DecodeBlock(p, b).ids = part /\ DecodeBlock(p, b).freqs = counts
    BY <1>8 DEF Opens, Opened
  <2>6. QED BY <2>1, <2>2, <2>3, <2>4, <2>5
<1> HIDE DEF from, size, part, counts
<1>9. ASSUME NEW i \in 1 .. n, ids[i] = doc
      PROVE  Found(p, doc) /\ FreqIn(p, doc) = freqs[i]
  <2>1. PICK d \in 1 .. m : at[d - 1] < i /\ i <= at[d]
    BY <1>1, Covers
  <2>2. ~(d < b)
    <3>1. at[d] \in 1 .. n /\ lasts[d] = ids[at[d]]
      BY <1>4
    <3>2. ids[i] <= ids[at[d]]
      <4>1. i = at[d] \/ i < at[d]
        BY <1>1, <2>1, <3>1
      <4>2. ids[i] \in Nat /\ ids[at[d]] \in Nat
        BY <1>1, <3>1
      <4>3. QED BY <1>1, <3>1, <4>1, <4>2
    <3>3. ids[i] \in Nat /\ ids[at[d]] \in Nat
      BY <1>1, <3>1
    <3>4. ~(lasts[d] < doc)
      BY <1>9, <3>1, <3>2, <3>3
    <3>5. QED BY <1>7, <3>4
  <2>3. d # 1 => d - 1 < b
    <3> SUFFICES ASSUME d # 1 PROVE d - 1 < b
      OBVIOUS
    <3>1. d - 1 \in 1 .. m
      BY <1>1
    <3>2. at[d - 1] \in 1 .. n /\ lasts[d - 1] = ids[at[d - 1]]
      BY <1>4, <3>1
    <3>3. ids[at[d - 1]] < ids[i]
      BY <1>1, <2>1, <3>2
    <3>4. lasts[d - 1] < doc
      BY <1>9, <3>2, <3>3
    <3>5. QED BY <1>7, <3>1, <3>4
  <2>4. b = d /\ b \in 1 .. m
    BY <1>1, <1>7, <2>2, <2>3
  <2> DEFINE j == i - from
  <2>5. j \in 1 .. size /\ from + j = i
    <3>1. from < i /\ i <= at[b]
      BY <2>1, <2>4 DEF from
    <3>2. from \in Nat /\ size \in Nat /\ from + size = at[b] /\ i \in Nat
      BY <1>1, <1>8, <2>4
    <3>3. QED BY <3>1, <3>2
  <2> HIDE DEF j
  <2>6. part[j] = doc /\ counts[j] = freqs[i]
    BY <1>8, <1>9, <2>4, <2>5
  <2>7. Holds(part, doc) /\ SearchSorted(part, doc) = j
    BY <1>8, <2>4, <2>5, <2>6, SearchIs
  <2>8. b <= Len(lasts)
    BY <1>2, <2>4
  <2>9. Found(p, doc)
    BY <1>8, <2>4, <2>7, <2>8 DEF Found, b, lasts
  <2>10. FreqIn(p, doc) = freqs[i]
    <3>1. FreqIn(p, doc) =
            IF b <= Len(lasts) /\ Holds(DecodeBlock(p, b).ids, doc)
            THEN DecodeBlock(p, b).freqs[SearchSorted(DecodeBlock(p, b).ids, doc)] ELSE 0
      BY Zenon DEF FreqIn, b, lasts
    <3>2. QED BY <1>8, <2>4, <2>6, <2>7, <2>8, <3>1
  <2>11. QED BY <2>9, <2>10
<1>10. ASSUME Found(p, doc) PROVE \E i \in 1 .. n : ids[i] = doc
  <2>1. b <= Len(lasts) /\ Holds(DecodeBlock(p, b).ids, doc)
    BY <1>10 DEF Found, b, lasts
  <2>2. b \in 1 .. m
    BY <1>1, <1>2, <1>7, <2>1
  <2>3. Holds(part, doc) /\ IsList(part, size)
    BY <1>8, <2>1, <2>2
  <2>4. PICK j \in 1 .. size : part[j] = doc
    BY <2>3, SearchIs
  <2>5. ids[from + j] = doc /\ from + j \in 1 .. n
    <3>1. ids[from + j] = doc
      BY <1>8, <2>2, <2>4
    <3>2. from \in Nat /\ size \in Nat /\ from + size <= n
      BY <1>1, <1>8, <2>2
    <3>3. from + j \in 1 .. n
      BY <1>1, <3>2
    <3>4. QED BY <3>1, <3>3
  <2>6. QED BY <2>5
<1>11. QED BY <1>9, <1>10

\* A posting list is read back as it was written, whole or a document at a time,
\* whatever the length of its blocks: encode_blocked() and BlockedPostings.
THEOREM PostingListsReadBack ==
  ASSUME NEW n \in Nat, NEW ids, IsList(ids, n), NEW freqs \in [1 .. n -> Nat]
  PROVE  ListReadsBack(ids, freqs)
<1> DEFINE p == OpenPostings(EncodeBlocked(ids, freqs))
<1>1. PICK m, at : Opens(p, ids, freqs, n, m, at)
  BY ListOpens
<1>2. ids \in [1 .. n -> Nat] /\ DOMAIN ids = 1 .. n
  BY DEF IsList
<1>3. p = OpenPostings(EncodeBlocked(ids, freqs))
  OBVIOUS
<1> HIDE DEF p
<1>4. DocIds(p) = ids /\ Freqs(p) = freqs
  BY <1>1, AllIsRead
<1>5. ASSUME NEW doc \in Int
      PROVE  FreqIn(p, doc) = IF Holds(ids, doc) THEN freqs[SearchSorted(ids, doc)] ELSE 0
  <2>1. CASE \E i \in 1 .. n : ids[i] = doc
    <3>1. PICK i \in 1 .. n : ids[i] = doc
      BY <2>1
    <3>2. FreqIn(p, doc) = freqs[i]
      BY <1>1, <3>1, FoundIs
    <3>3. Holds(ids, doc) /\ SearchSorted(ids, doc) = i
      BY <3>1, SearchIs
    <3>4. QED BY <3>2, <3>3
  <2>2. CASE ~\E i \in 1 .. n : ids[i] = doc
    <3>1. ~Found(p, doc)
      BY <1>1, <2>2, FoundIs
    <3>2. FreqIn(p, doc) = 0
      BY Zenon, <3>1 DEF FreqIn, Found
    <3>3. ~Holds(ids, doc)
      BY <2>2, SearchIs
    <3>4. QED BY <3>2, <3>3
  <2>3. QED BY <2>1, <2>2
<1>6. ASSUME NEW doc \in UNION {{id - 1, id, id + 1} : id \in Range(ids)} PROVE doc \in Int
  <2>1. PICK id \in Range(ids) : doc \in {id - 1, id, id + 1}
    OBVIOUS
  <2>2. id \in Nat
    BY <1>2, <2>1 DEF Range
  <2>3. QED BY <2>1, <2>2
<1>7. QED BY <1>3, <1>4, <1>5, <1>6 DEF ListReadsBack
-----------------------------------------------------------------------------
(* Merge walks. *)

Merged == [i : Nat, j : Nat, out : Seq(Nat)]

\* One step.
Onward(w, u, v, n, m, both) ==
  CASE w.i > n \/ w.j > m -> w
    [] w.i <= n /\ w.j <= m /\ u[w.i] = v[w.j] ->
         [i |-> w.i + 1, j |-> w.j + 1, out |-> Append(w.out, u[w.i])]
    [] w.i <= n /\ w.j <= m /\ u[w.i] < v[w.j] ->
         [w EXCEPT !.i = @ + 1, !.out = IF both THEN Append(@, u[w.i]) ELSE @]
    [] OTHER ->
         [w EXCEPT !.j = @ + 1, !.out = IF both THEN Append(@, v[w.j]) ELSE @]

\* What the walk has passed in a list, and that it is less than all ahead.
Passed(seq, n, i, x) == \E k \in 1 .. n : k < i /\ seq[k] = x

Apart(u, v, n, m, i, j) ==
  /\ \A k \in 1 .. n : \A l \in 1 .. m : k < i /\ ~(l < j) => u[k] < v[l]
  /\ \A k \in 1 .. n : \A l \in 1 .. m : ~(k < i) /\ l < j => v[l] < u[k]

\* What it has kept: what it passed in either list, or in both.
Kept(u, v, n, m, i, j, both, x) ==
  IF both THEN Passed(u, n, i, x) \/ Passed(v, m, j, x)
  ELSE Passed(u, n, i, x) /\ Passed(v, m, j, x)

KeptIn(out, u, v, n, m, i, j, both) ==
  \A x : x \in Range(out) <=> Kept(u, v, n, m, i, j, both, x)

Midway(i, j, out, u, v, n, m, both) ==
  /\ i \in 1 .. n + 1 /\ j \in 1 .. m + 1 /\ Apart(u, v, n, m, i, j)
  /\ IsList(out, Len(out)) /\ KeptIn(out, u, v, n, m, i, j, both)

\* A list grows by what is more than all it has.
LEMMA ListGrows ==
  ASSUME NEW out, IsList(out, Len(out)), NEW x \in Nat, \A y \in Range(out) : y < x
  PROVE  /\ IsList(Append(out, x), Len(Append(out, x))) /\ Append(out, x) \in Seq(Nat)
         /\ Range(Append(out, x)) = Range(out) \cup {x}
<1> DEFINE n == Len(out)
           more == Append(out, x)
<1>1. n \in Nat /\ out \in [1 .. n -> Nat] /\ \A i, j \in 1 .. n : i < j => out[i] < out[j]
  BY DEF IsList
<1>2. out \in Seq(Nat)
  BY <1>1, LenIs
<1>3. /\ more \in Seq(Nat) /\ Len(more) = n + 1 /\ \A i \in 1 .. n : more[i] = out[i]
      /\ more[n + 1] = x
  BY <1>2, AppendIs
<1> HIDE DEF n, more
<1>4. more \in [1 .. n + 1 -> Nat] /\ \A i \in 1 .. n + 1 : i \in 1 .. n \/ i = n + 1
  BY <1>1, <1>3
<1>5. \A i \in 1 .. n : out[i] \in Range(out)
  BY <1>1 DEF Range
<1>6. ASSUME NEW i \in 1 .. n + 1, NEW j \in 1 .. n + 1, i < j PROVE more[i] < more[j]
  <2>1. i \in 1 .. n
    BY <1>1, <1>6
  <2>2. CASE j \in 1 .. n
    BY <1>1, <1>3, <1>6, <2>1, <2>2
  <2>3. CASE j = n + 1
    BY <1>3, <1>5, <2>1, <2>3
  <2>4. QED BY <1>4, <2>2, <2>3
<1>7. IsList(more, Len(more))
  BY <1>1, <1>3, <1>4, <1>6 DEF IsList
<1>8. Range(more) = Range(out) \cup {x}
  <2>1. Range(more) = {more[i] : i \in 1 .. n + 1} /\ Range(out) = {out[i] : i \in 1 .. n}
    BY <1>1, <1>4 DEF Range
  <2>2. n + 1 \in 1 .. n + 1 /\ \A i \in 1 .. n : i \in 1 .. n + 1
    BY <1>1
  <2>3. QED BY <1>3, <1>4, <2>1, <2>2
<1>9. QED BY <1>3, <1>7, <1>8 DEF more

\* One more element passed.
LEMMA PassedGrows ==
  ASSUME NEW seq, NEW n \in Nat, NEW i \in 1 .. n, NEW x
  PROVE  Passed(seq, n, i + 1, x) <=> Passed(seq, n, i, x) \/ x = seq[i]
<1>1. \A k \in 1 .. n : k < i + 1 <=> k < i \/ k = i
  OBVIOUS
<1>2. QED BY <1>1 DEF Passed

\* All kept is less than what comes next.
LEMMA KeptIsLess ==
  ASSUME NEW u, NEW v, NEW n, NEW m, IsList(u, n), IsList(v, m), NEW both \in BOOLEAN,
         NEW i, NEW j, NEW out, Midway(i, j, out, u, v, n, m, both), i <= n, j <= m
  PROVE  /\ i \in 1 .. n /\ j \in 1 .. m /\ u[i] \in Nat /\ v[j] \in Nat
         /\ \A y \in Range(out) : y < u[i] /\ y < v[j]
<1>1. /\ n \in Nat /\ u \in [1 .. n -> Nat] /\ \A k, l \in 1 .. n : k < l => u[k] < u[l]
      /\ m \in Nat /\ v \in [1 .. m -> Nat] /\ \A k, l \in 1 .. m : k < l => v[k] < v[l]
  BY DEF IsList
<1>2. i \in 1 .. n /\ j \in 1 .. m
  BY <1>1 DEF Midway
<1>3. ASSUME NEW y, Passed(u, n, i, y) PROVE y < u[i] /\ y < v[j]
  <2>1. PICK k \in 1 .. n : k < i /\ u[k] = y
    BY <1>3 DEF Passed
  <2>2. u[k] < u[i]
    BY <1>1, <1>2, <2>1
  <2>3. u[k] < v[j]
    BY <1>2, <2>1 DEF Midway, Apart
  <2>4. QED BY <2>1, <2>2, <2>3
<1>4. ASSUME NEW y, Passed(v, m, j, y) PROVE y < u[i] /\ y < v[j]
  <2>1. PICK k \in 1 .. m : k < j /\ v[k] = y
    BY <1>4 DEF Passed
  <2>2. v[k] < v[j]
    BY <1>1, <1>2, <2>1
  <2>3. v[k] < u[i]
    BY <1>2, <2>1 DEF Midway, Apart
  <2>4. QED BY <2>1, <2>2, <2>3
<1>5. ASSUME NEW y \in Range(out) PROVE y < u[i] /\ y < v[j]
  <2>1. Kept(u, v, n, m, i, j, both, y)
    BY DEF Midway, KeptIn
  <2>2. Passed(u, n, i, y) \/ Passed(v, m, j, y)
    BY <2>1 DEF Kept
  <2>3. QED BY <1>3, <1>4, <2>2
<1>6. QED BY <1>1, <1>2, <1>5

\* Both lists have the next document.
LEMMA StepsInBoth ==
  ASSUME NEW u, NEW v, NEW n, NEW m, IsList(u, n), IsList(v, m), NEW both \in BOOLEAN,
         NEW i, NEW j, NEW out, Midway(i, j, out, u, v, n, m, both), i <= n, j <= m, u[i] = v[j]
  PROVE  Midway(i + 1, j + 1, Append(out, u[i]), u, v, n, m, both)
<1>1. /\ n \in Nat /\ u \in [1 .. n -> Nat] /\ \A k, l \in 1 .. n : k < l => u[k] < u[l]
      /\ m \in Nat /\ v \in [1 .. m -> Nat] /\ \A k, l \in 1 .. m : k < l => v[k] < v[l]
  BY DEF IsList
<1>2. /\ i \in 1 .. n /\ j \in 1 .. m /\ u[i] \in Nat /\ v[j] \in Nat
      /\ \A y \in Range(out) : y < u[i] /\ y < v[j]
  BY KeptIsLess
<1> DEFINE e == u[i]
           more == Append(out, e)
<1>3. IsList(more, Len(more)) /\ Range(more) = Range(out) \cup {e}
  <2> HIDE DEF e
  <2>1. e \in Nat /\ IsList(out, Len(out)) /\ \A y \in Range(out) : y < e
    BY <1>2 DEF e, Midway
  <2>2. QED BY <2>1, ListGrows
<1>4. i + 1 \in 1 .. n + 1 /\ j + 1 \in 1 .. m + 1
  BY <1>1, <1>2
<1>5. Apart(u, v, n, m, i + 1, j + 1)
  <2>1. ASSUME NEW k \in 1 .. n, NEW l \in 1 .. m, k < i + 1, ~(l < j + 1) PROVE u[k] < v[l]
    <3>1. (k = i \/ k < i) /\ j < l
      BY <1>1, <1>2, <2>1
    <3>2. v[j] < v[l] /\ v[l] \in Nat /\ u[k] \in Nat
      BY <1>1, <1>2, <3>1
    <3>3. k < i => u[k] < u[i]
      BY <1>1, <1>2
    <3>4. QED BY <1>2, <3>1, <3>2, <3>3
  <2>2. ASSUME NEW k \in 1 .. n, NEW l \in 1 .. m, ~(k < i + 1), l < j + 1 PROVE v[l] < u[k]
    <3>1. (l = j \/ l < j) /\ i < k
      BY <1>1, <1>2, <2>2
    <3>2. u[i] < u[k] /\ v[l] \in Nat /\ u[k] \in Nat
      BY <1>1, <1>2, <3>1
    <3>3. l < j => v[l] < v[j]
      BY <1>1, <1>2
    <3>4. QED BY <1>2, <3>1, <3>2, <3>3
  <2>3. QED BY <2>1, <2>2 DEF Apart
<1> HIDE DEF e, more
<1>6. KeptIn(more, u, v, n, m, i + 1, j + 1, both)
  <2> SUFFICES ASSUME NEW x
               PROVE  x \in Range(more) <=> Kept(u, v, n, m, i + 1, j + 1, both, x)
    BY DEF KeptIn
  <2>1. x \in Range(more) <=> Kept(u, v, n, m, i, j, both, x) \/ x = e
    BY <1>3 DEF Midway, KeptIn
  <2>2. Passed(u, n, i + 1, x) <=> Passed(u, n, i, x) \/ x = e
    BY <1>1, <1>2, PassedGrows DEF e
  <2>3. Passed(v, m, j + 1, x) <=> Passed(v, m, j, x) \/ x = e
    BY <1>1, <1>2, PassedGrows DEF e
  <2>4. QED BY <2>1, <2>2, <2>3 DEF Kept
<1>7. QED BY <1>3, <1>4, <1>5, <1>6 DEF Midway, e, more

\* Only the first has it.
LEMMA StepsInFirst ==
  ASSUME NEW u, NEW v, NEW n, NEW m, IsList(u, n), IsList(v, m), NEW both \in BOOLEAN,
         NEW i, NEW j, NEW out, Midway(i, j, out, u, v, n, m, both), i <= n, j <= m, u[i] < v[j]
  PROVE  Midway(i + 1, j, IF both THEN Append(out, u[i]) ELSE out, u, v, n, m, both)
<1>1. /\ n \in Nat /\ u \in [1 .. n -> Nat] /\ \A k, l \in 1 .. n : k < l => u[k] < u[l]
      /\ m \in Nat /\ v \in [1 .. m -> Nat] /\ \A k, l \in 1 .. m : k < l => v[k] < v[l]
  BY DEF IsList
<1>2. /\ i \in 1 .. n /\ j \in 1 .. m /\ u[i] \in Nat /\ v[j] \in Nat
      /\ \A y \in Range(out) : y < u[i] /\ y < v[j]
  BY KeptIsLess
<1> DEFINE e == u[i]
           more == Append(out, e)
<1>3. IsList(more, Len(more)) /\ Range(more) = Range(out) \cup {e}
  <2> HIDE DEF e
  <2>1. e \in Nat /\ IsList(out, Len(out)) /\ \A y \in Range(out) : y < e
    BY <1>2 DEF e, Midway
  <2>2. QED BY <2>1, ListGrows
<1>4. i + 1 \in 1 .. n + 1 /\ j \in 1 .. m + 1
  BY <1>1, <1>2
<1>5. Apart(u, v, n, m, i + 1, j)
  <2>1. ASSUME NEW k \in 1 .. n, NEW l \in 1 .. m, k < i + 1, ~(l < j) PROVE u[k] < v[l]
    <3>1. (k = i \/ k < i) /\ (j = l \/ j < l)
      BY <1>1, <1>2, <2>1
    <3>2. (j < l => v[j] < v[l]) /\ v[l] \in Nat /\ u[k] \in Nat
      BY <1>1, <1>2
    <3>3. k < i => u[k] < u[i]
      BY <1>1, <1>2
    <3>4. QED BY <1>2, <3>1, <3>2, <3>3
  <2>2. ASSUME NEW k \in 1 .. n, NEW l \in 1 .. m, ~(k < i + 1), l < j PROVE v[l] < u[k]
    <3>1. ~(k < i)
      BY <1>1, <1>2, <2>2
    <3>2. QED BY <2>2, <3>1 DEF Midway, Apart
  <2>3. QED BY <2>1, <2>2 DEF Apart
<1>6. ~Passed(v, m, j, e)
  <2>1. ASSUME NEW l \in 1 .. m, l < j PROVE v[l] # u[i]
    <3>1. v[l] < u[i]
      BY <1>1, <1>2, <2>1 DEF Midway, Apart
    <3>2. v[l] \in Nat
      BY <1>1
    <3>3. QED BY <1>2, <3>1, <3>2
  <2>2. QED BY <2>1 DEF Passed
<1> HIDE DEF e, more
<1>7. ASSUME NEW x
      PROVE  /\ both => (x \in Range(more) <=> Kept(u, v, n, m, i + 1, j, both, x))
             /\ ~both => (x \in Range(out) <=> Kept(u, v, n, m, i + 1, j, both, x))
  <2>1. /\ x \in Range(more) <=> Kept(u, v, n, m, i, j, both, x) \/ x = e
        /\ x \in Range(out) <=> Kept(u, v, n, m, i, j, both, x)
    BY <1>3 DEF Midway, KeptIn
  <2>2. Passed(u, n, i + 1, x) <=> Passed(u, n, i, x) \/ x = e
    BY <1>1, <1>2, PassedGrows DEF e
  <2>3. x = e => ~Passed(v, m, j, x)
    BY <1>6
  <2>4. QED BY <2>1, <2>2, <2>3 DEF Kept
<1>8. CASE both
  <2>1. KeptIn(more, u, v, n, m, i + 1, j, both)
    BY <1>7, <1>8 DEF KeptIn
  <2>2. Midway(i + 1, j, more, u, v, n, m, both)
    BY <1>3, <1>4, <1>5, <2>1 DEF Midway
  <2>3. QED BY <1>8, <2>2 DEF e, more
<1>9. CASE ~both
  <2>1. KeptIn(out, u, v, n, m, i + 1, j, both)
    BY <1>7, <1>9 DEF KeptIn
  <2>2. Midway(i + 1, j, out, u, v, n, m, both)
    BY <1>4, <1>5, <2>1 DEF Midway
  <2>3. QED BY <1>9, <2>2
<1>10. QED BY <1>8, <1>9

\* The lists are alike to the walk.
LEMMA MidwayTurned ==
  ASSUME NEW u, NEW v, NEW n, NEW m, NEW both \in BOOLEAN, NEW i, NEW j, NEW out,
         Midway(i, j, out, u, v, n, m, both)
  PROVE  Midway(j, i, out, v, u, m, n, both)
<1>1. Apart(v, u, m, n, j, i)
  BY DEF Midway, Apart
<1>2. \A x : Kept(u, v, n, m, i, j, both, x) <=> Kept(v, u, m, n, j, i, both, x)
  BY DEF Kept
<1>3. KeptIn(out, v, u, m, n, j, i, both)
  BY <1>2 DEF Midway, KeptIn
<1>4. QED BY <1>1, <1>3 DEF Midway

\* Only the second has it.
LEMMA StepsInSecond ==
  ASSUME NEW u, NEW v, NEW n, NEW m, IsList(u, n), IsList(v, m), NEW both \in BOOLEAN,
         NEW i, NEW j, NEW out, Midway(i, j, out, u, v, n, m, both), i <= n, j <= m, v[j] < u[i]
  PROVE  Midway(i, j + 1, IF both THEN Append(out, v[j]) ELSE out, u, v, n, m, both)
<1> DEFINE more == IF both THEN Append(out, v[j]) ELSE out
<1>1. Midway(j, i, out, v, u, m, n, both)
  BY MidwayTurned
<1>2. Midway(j + 1, i, more, v, u, m, n, both)
  BY <1>1, StepsInFirst
<1> HIDE DEF more
<1>3. Midway(i, j + 1, more, u, v, n, m, both)
  BY <1>2, MidwayTurned
<1>4. QED BY <1>3 DEF more

WalkStates(u, v, n, m, both) == {w \in Merged : Midway(w.i, w.j, w.out, u, v, n, m, both)}

\* A step leads from such a state to another, and on until a list ends.
LEMMA WalkStep ==
  ASSUME NEW u, NEW v, NEW n, NEW m, IsList(u, n), IsList(v, m), NEW both \in BOOLEAN,
         NEW w \in WalkStates(u, v, n, m, both), NEW x, x = Onward(w, u, v, n, m, both)
  PROVE  /\ x \in WalkStates(u, v, n, m, both)
         /\ w.i = n + 1 \/ w.j = m + 1 => x = w
         /\ w.i = n + 1 \/ w.j = m + 1 \/ x.i + x.j >= w.i + w.j + 1
<1>1. /\ n \in Nat /\ u \in [1 .. n -> Nat] /\ m \in Nat /\ v \in [1 .. m -> Nat]
      /\ w \in Merged /\ Midway(w.i, w.j, w.out, u, v, n, m, both)
  BY DEF IsList, WalkStates
<1>2. w.i \in 1 .. n + 1 /\ w.j \in 1 .. m + 1 /\ w.i \in Nat /\ w.j \in Nat /\ w.out \in Seq(Nat)
  BY <1>1 DEF Midway, Merged
<1> DEFINE i == w.i
           j == w.j
           out == w.out
<1>3. w = [i |-> i, j |-> j, out |-> out]
  BY <1>1 DEF Merged
<1>4. CASE i > n \/ j > m
  <2>1. i = n + 1 \/ j = m + 1
    BY <1>1, <1>2, <1>4
  <2>2. x = w
    BY <1>1, <1>2, <1>4 DEF Onward
  <2>3. QED BY <2>1, <2>2
<1>5. CASE i <= n /\ j <= m
  <2>1. /\ i \in 1 .. n /\ j \in 1 .. m /\ ~(i > n \/ j > m) /\ i # n + 1 /\ j # m + 1
        /\ i \in Nat /\ j \in Nat
    BY <1>1, <1>2, <1>5
  <2>2. u[i] \in Nat /\ v[j] \in Nat
    BY <1>1, <2>1
  <2> DEFINE s == u[i]
             t == v[j]
             left == IF both THEN Append(out, s) ELSE out
             right == IF both THEN Append(out, t) ELSE out
  <2>3. /\ Append(out, s) \in Seq(Nat) /\ left \in Seq(Nat) /\ right \in Seq(Nat)
    BY <1>2, <2>2
  <2>4. CASE s = t
    <3>1. x = [i |-> i + 1, j |-> j + 1, out |-> Append(out, s)]
      BY <1>5, <2>1, <2>2, <2>4 DEF Onward
    <3>2. Midway(i + 1, j + 1, Append(out, s), u, v, n, m, both)
      BY <1>1, <1>5, <2>4, StepsInBoth
    <3> HIDE DEF i, j, out, s
    <3>3. x \in Merged
      BY <2>1, <2>3, <3>1 DEF Merged
    <3>4. x.i = i + 1 /\ x.j = j + 1 /\ x.out = Append(out, s)
      BY <3>1
    <3>5. x \in WalkStates(u, v, n, m, both)
      BY <3>2, <3>3, <3>4 DEF WalkStates
    <3>6. x.i + x.j >= i + j + 1
      BY <2>1, <3>4
    <3>7. QED BY <2>1, <3>5, <3>6 DEF i, j
  <2>5. CASE s < t
    <3>1. s # t
      BY <2>2, <2>5
    <3>2. x = [w EXCEPT !.i = @ + 1, !.out = IF both THEN Append(@, s) ELSE @]
      BY <1>5, <2>1, <2>5, <3>1 DEF Onward
    <3>3. x = [i |-> i + 1, j |-> j, out |-> left]
      BY <1>3, <3>2
    <3>4. Midway(i + 1, j, left, u, v, n, m, both)
      BY <1>1, <1>5, <2>5, StepsInFirst
    <3> HIDE DEF i, j, out, s, left
    <3>5. x \in Merged
      BY <2>1, <2>3, <3>3 DEF Merged
    <3>6. x.i = i + 1 /\ x.j = j /\ x.out = left
      BY <3>3
    <3>7. x \in WalkStates(u, v, n, m, both)
      BY <3>4, <3>5, <3>6 DEF WalkStates
    <3>8. x.i + x.j >= i + j + 1
      BY <2>1, <3>6
    <3>9. QED BY <2>1, <3>7, <3>8 DEF i, j
  <2>6. CASE t < s
    <3>1. s # t /\ ~(s < t)
      BY <2>2, <2>6
    <3>2. x = [w EXCEPT !.j = @ + 1, !.out = IF both THEN Append(@, t) ELSE @]
      BY <1>5, <2>1, <3>1 DEF Onward
    <3>3. x = [i |-> i, j |-> j + 1, out |-> right]
      BY <1>3, <3>2
    <3>4. Midway(i, j + 1, right, u, v, n, m, both)
      BY <1>1, <1>5, <2>6, StepsInSecond
    <3> HIDE DEF i, j, out, t, right
    <3>5. x \in Merged
      BY <2>1, <2>3, <3>3 DEF Merged
    <3>6. x.i = i /\ x.j = j + 1 /\ x.out = right
      BY <3>3
    <3>7. x \in WalkStates(u, v, n, m, both)
      BY <3>4, <3>5, <3>6 DEF WalkStates
    <3>8. x.i + x.j >= i + j + 1
      BY <2>1, <3>6
    <3>9. QED BY <2>1, <3>7, <3>8 DEF i, j
  <2>7. QED
    <3> HIDE DEF s, t
    <3>1. s = t \/ s < t \/ t < s
      BY <2>2 DEF s, t
    <3>2. QED BY <2>4, <2>5, <2>6, <3>1
<1>6. QED BY <1>1, <1>2, <1>4, <1>5

WalkStart == [i |-> 1, j |-> 1, out |-> <<>>]

\* The walk starts as it should.
LEMMA WalkStarts ==
  ASSUME NEW u, NEW v, NEW n, NEW m, IsList(u, n), IsList(v, m), NEW both \in BOOLEAN
  PROVE  WalkStart \in WalkStates(u, v, n, m, both)
<1>1. n \in Nat /\ m \in Nat
  BY DEF IsList
<1>2. \A x : ~Passed(u, n, 1, x) /\ ~Passed(v, m, 1, x)
  BY DEF Passed
<1>3. Range(<<>>) = {} /\ Len(<<>>) = 0 /\ <<>> \in Seq(Nat)
  BY DEF Range
<1>4. KeptIn(<<>>, u, v, n, m, 1, 1, both)
  BY <1>2, <1>3 DEF KeptIn, Kept
<1>5. Apart(u, v, n, m, 1, 1)
  BY DEF Apart
<1>6. IsList(<<>>, Len(<<>>))
  BY <1>3 DEF IsList
<1>7. Midway(1, 1, <<>>, u, v, n, m, both)
  BY <1>1, <1>4, <1>5, <1>6 DEF Midway
<1>8. WalkStart \in Merged
  BY <1>3 DEF WalkStart, Merged
<1>9. WalkStart.i = 1 /\ WalkStart.j = 1 /\ WalkStart.out = <<>>
  BY DEF WalkStart
<1>10. QED BY <1>7, <1>8, <1>9 DEF WalkStates

WalkOver(w, n, m) == w.i = n + 1 \/ w.j = m + 1

\* Where steps lead from the start.
LEMMA StepsLead ==
  ASSUME NEW u, NEW v, NEW n, NEW m, IsList(u, n), IsList(v, m), NEW both \in BOOLEAN
  PROVE  \E st : /\ st \in [0 .. n + m -> WalkStates(u, v, n, m, both)] /\ st[0] = WalkStart
                 /\ \A k \in 1 .. n + m : st[k] = Onward(st[k - 1], u, v, n, m, both)
                 /\ WalkOver(st[n + m], n, m)
<1> DEFINE X == WalkStates(u, v, n, m, both)
           len == n + m
           next(w) == Onward(w, u, v, n, m, both)
           step == [k \in 1 .. len |-> [w \in X |-> next(w)]]
<1>1. n \in Nat /\ m \in Nat /\ len \in Nat
  BY DEF IsList
<1>2. \A w \in X : /\ next(w) \in X
                   /\ WalkOver(w, n, m) => next(w) = w
                   /\ WalkOver(w, n, m) \/ next(w).i + next(w).j >= w.i + w.j + 1
  BY WalkStep DEF WalkOver
<1>3. \A w \in X : w.i \in 1 .. n + 1 /\ w.j \in 1 .. m + 1
  BY DEF WalkStates, Midway
<1>4. WalkStart \in X /\ WalkStart.i = 1 /\ WalkStart.j = 1
  BY WalkStarts DEF WalkStart
<1> HIDE DEF X, len, next
<1>5. step \in [1 .. len -> [X -> X]]
  BY <1>2
<1>6. PICK st \in [0 .. len -> X] : IsWalk(st, WalkStart, step, len)
  <2> HIDE DEF step
  <2>1. QED BY <1>1, <1>4, <1>5, WalkExists
<1>7. st[0] = WalkStart
  BY <1>6 DEF IsWalk
<1>8. ASSUME NEW k \in 1 .. len PROVE k - 1 \in 0 .. len /\ st[k - 1] \in X /\ st[k] = next(st[k - 1])
  <2>1. k - 1 \in 0 .. len
    BY <1>1
  <2>2. st[k] = step[k][st[k - 1]]
    BY <1>6 DEF IsWalk
  <2>3. QED BY <2>1, <2>2
<1> HIDE DEF step
<1> DEFINE S == {k \in 0 .. len : WalkOver(st[k], n, m) \/ st[k].i + st[k].j >= k + 2}
<1>9. 0 \in S
  BY <1>1, <1>4, <1>7
<1>10. ASSUME NEW k \in 0 .. len - 1, k \in S PROVE k + 1 \in S
  <2>1. k + 1 \in 1 .. len /\ k + 1 - 1 = k /\ k \in 0 .. len /\ k + 1 \in 0 .. len
    BY <1>1
  <2> DEFINE w == st[k]
             x == st[k + 1]
  <2>2. w \in X /\ x = next(w) /\ x \in X
    BY <1>2, <1>8, <2>1
  <2>3. WalkOver(w, n, m) \/ w.i + w.j >= k + 2
    BY <1>10
  <2> HIDE DEF w, x
  <2>4. CASE WalkOver(w, n, m)
    <3>1. WalkOver(x, n, m)
      BY <1>2, <2>2, <2>4
    <3>2. QED BY <2>1, <3>1 DEF x
  <2>5. CASE ~WalkOver(w, n, m)
    <3>1. x.i + x.j >= w.i + w.j + 1 /\ w.i + w.j >= k + 2
      BY <1>2, <2>2, <2>3, <2>5
    <3>2. w.i \in Nat /\ w.j \in Nat /\ x.i \in Nat /\ x.j \in Nat
      BY <1>1, <1>3, <2>2
    <3>3. x.i + x.j >= k + 1 + 2
      BY <2>1, <3>1, <3>2
    <3>4. QED BY <2>1, <3>3 DEF x
  <2>6. QED BY <2>4, <2>5
<1>11. len \in S
  <2> HIDE DEF S
  <2>1. \A k \in 0 .. len : k \in S
    BY <1>1, <1>9, <1>10, UpTo
  <2>2. QED BY <1>1, <2>1
<1>12. WalkOver(st[len], n, m)
  <2>1. st[len] \in X
    BY <1>1
  <2> DEFINE w == st[len]
  <2>2. WalkOver(w, n, m) \/ w.i + w.j >= len + 2
    BY <1>11
  <2> HIDE DEF w
  <2>3. w.i \in 1 .. n + 1 /\ w.j \in 1 .. m + 1
    BY <1>3, <2>1 DEF w
  <2>4. w.i + w.j >= len + 2 => w.i = n + 1
    BY <1>1, <2>3 DEF len
  <2>5. QED BY <2>2, <2>4 DEF WalkOver, w
<1>13. QED BY <1>6, <1>7, <1>8, <1>12 DEF len, X, next

\* The walk as a fold.
Walked(u, v, n, m, both) ==
  LET walked[s \in SUBSET (1 .. n + m)] ==
        IF s = {} THEN WalkStart ELSE Onward(walked[s \ {Max(s)}], u, v, n, m, both)
  IN walked[1 .. n + m]

LEMMA WalkFolds ==
  ASSUME NEW u, NEW v, NEW both
  PROVE  Walk(u, v, both) = Walked(u, v, Len(u), Len(v), both)
<1>1. DOMAIN [k \in 1 .. Len(u) + Len(v) |-> k] = 1 .. Len(u) + Len(v)
  OBVIOUS
<1>2. QED BY Zenon, <1>1 DEF Walk, Walked, FoldLeft, MapThenFoldSet, Onward, WalkStart

\* The walk ends with a list, having kept what it should.
LEMMA WalkEnds ==
  ASSUME NEW u, NEW v, NEW n, NEW m, IsList(u, n), IsList(v, m), NEW both \in BOOLEAN,
         NEW w, w = Walk(u, v, both)
  PROVE  w \in Merged /\ Midway(w.i, w.j, w.out, u, v, n, m, both) /\ WalkOver(w, n, m)
<1> DEFINE len == n + m
           next(x) == Onward(x, u, v, n, m, both)
<1>1. n \in Nat /\ m \in Nat /\ len \in Nat /\ Len(u) = n /\ Len(v) = m
  <2>1. n \in Nat /\ m \in Nat /\ u \in [1 .. n -> Nat] /\ v \in [1 .. m -> Nat]
    BY DEF IsList
  <2>2. QED BY <2>1, LenIs
<1>2. PICK st : /\ st \in [0 .. len -> WalkStates(u, v, n, m, both)] /\ st[0] = WalkStart
                /\ \A k \in 1 .. len : st[k] = next(st[k - 1])
                /\ WalkOver(st[len], n, m)
  BY StepsLead
<1> DEFINE Solves(f) == f = [s \in SUBSET (1 .. len) |->
             IF s = {} THEN WalkStart ELSE next(f[s \ {Max(s)}])]
           Iter == CHOOSE iter : Solves(iter)
           g == [P \in SUBSET (1 .. len) |-> st[Cardinality(P)]]
<1>3. Solves(g)
  <2>1. g[{}] = WalkStart
    BY <1>2, FS_EmptySet
  <2>2. ASSUME NEW s \in SUBSET (1 .. len), s # {} PROVE g[s] = next(g[s \ {Max(s)}])
    <3> HIDE DEF len
    <3>1. /\ Cardinality(s) \in 1 .. len /\ s \ {Max(s)} \in SUBSET (1 .. len)
          /\ Cardinality(s \ {Max(s)}) = Cardinality(s) - 1
      BY <1>1, <2>2, CountsDown
    <3>2. g[s \ {Max(s)}] = st[Cardinality(s) - 1] /\ g[s] = st[Cardinality(s)]
      BY <3>1
    <3> HIDE DEF g, next
    <3>3. QED BY <1>2, <3>1, <3>2
  <2>3. g = [s \in SUBSET (1 .. len) |-> g[s]]
    OBVIOUS
  <2> HIDE DEF g, next, len
  <2>4. QED BY <2>1, <2>2, <2>3
<1>4. w = Iter[1 .. len]
  <2>1. w = Walked(u, v, n, m, both)
    BY <1>1, WalkFolds
  <2>2. QED BY Zenon, <2>1 DEF Walked
<1> HIDE DEF g
<1>5. Solves(Iter)
  <2> HIDE DEF Solves
  <2>1. QED BY <1>3
<1> HIDE DEF Iter, len
<1>6. Iter[{}] = st[0]
  <2> HIDE DEF next
  <2>1. QED BY <1>2, <1>5
<1>7. ASSUME NEW k \in 1 .. len, NEW P \in SUBSET (1 .. len), P # {}, Iter[P \ {Max(P)}] = st[k - 1]
      PROVE  Iter[P] = st[k]
  <2> HIDE DEF next
  <2>1. Iter[P] = next(Iter[P \ {Max(P)}])
    BY <1>5, <1>7
  <2>2. QED BY <1>2, <1>7, <2>1
<1>8. Iter[1 .. len] = st[len]
  <2> HIDE DEF Solves
  <2>1. Steady(Iter, st, len)
    BY <1>6, <1>7 DEF Steady
  <2>2. QED BY <1>1, <2>1, GoesAlong
<1>9. w = st[len] /\ st[len] \in WalkStates(u, v, n, m, both)
  BY <1>1, <1>2, <1>4, <1>8
<1>10. QED BY <1>2, <1>9 DEF WalkStates
-----------------------------------------------------------------------------
(* Union and intersection. *)

\* What a list has.
Items(seq, n, x) == \E k \in 1 .. n : seq[k] = x

LEMMA ItemsAre ==
  ASSUME NEW ids, NEW n, IsList(ids, n)
  PROVE  /\ Len(ids) = n /\ DOMAIN ids = 1 .. n /\ n \in Nat /\ ids \in Seq(Nat)
         /\ \A x : x \in Range(ids) <=> Items(ids, n, x)
         /\ \A x \in Range(ids) : x \in Nat
         /\ Ascending(ids)
<1>1. n \in Nat /\ ids \in [1 .. n -> Nat] /\ \A i, j \in 1 .. n : i < j => ids[i] < ids[j]
  BY DEF IsList
<1>2. Len(ids) = n /\ DOMAIN ids = 1 .. n /\ ids \in Seq(Nat)
  BY <1>1, LenIs
<1>3. \A x : x \in Range(ids) <=> Items(ids, n, x)
  BY <1>2 DEF Range, Items
<1>4. \A x \in Range(ids) : x \in Nat
  BY <1>1, <1>2 DEF Range
<1>5. Ascending(ids)
  BY <1>1, <1>2 DEF Ascending
<1>6. QED BY <1>1, <1>2, <1>3, <1>4, <1>5

\* Lists one after the other.
LEMMA ListsJoin ==
  ASSUME NEW x, NEW y, IsList(x, Len(x)), IsList(y, Len(y)),
         \A p \in Range(x) : \A q \in Range(y) : p < q,
         NEW xy, xy = x \o y
  PROVE  IsList(xy, Len(xy)) /\ Range(xy) = Range(x) \cup Range(y)
<1> DEFINE k == Len(x)
           l == Len(y)
<1>1. /\ k \in Nat /\ x \in [1 .. k -> Nat] /\ \A i, j \in 1 .. k : i < j => x[i] < x[j]
      /\ l \in Nat /\ y \in [1 .. l -> Nat] /\ \A i, j \in 1 .. l : i < j => y[i] < y[j]
  BY DEF IsList
<1>2. x \in Seq(Nat) /\ y \in Seq(Nat) /\ xy \in Seq(Nat)
  <2>1. x \in Seq(Nat) /\ y \in Seq(Nat)
    BY <1>1, LenIs
  <2>2. QED BY <2>1
<1>3. /\ Len(xy) = k + l /\ \A i \in 1 .. k : xy[i] = x[i]
      /\ \A i \in 1 .. l : xy[k + i] = y[i]
  BY <1>2, ConcatIs DEF Concatenates
<1> HIDE DEF k, l
<1>4. xy \in [1 .. k + l -> Nat] /\ k + l \in Nat
  <2> DEFINE t == k + l
  <2>1. Len(xy) = t /\ t \in Nat
    BY <1>1, <1>3
  <2> HIDE DEF t
  <2>2. xy \in [1 .. t -> Nat]
    BY <1>2, <2>1, LenProperties
  <2>3. QED BY <2>1, <2>2 DEF t
<1>5. ASSUME NEW i \in 1 .. k + l
      PROVE  i \in 1 .. k \/ (i - k \in 1 .. l /\ k + (i - k) = i)
  BY <1>1
<1>6. (\A i \in 1 .. k : x[i] \in Range(x)) /\ (\A i \in 1 .. l : y[i] \in Range(y))
  BY <1>1 DEF Range
<1>7. ASSUME NEW i \in 1 .. k + l, NEW j \in 1 .. k + l, i < j PROVE xy[i] < xy[j]
  <2>1. CASE j \in 1 .. k
    <3>1. i \in 1 .. k
      BY <1>1, <1>7, <2>1
    <3>2. QED BY <1>1, <1>3, <1>7, <2>1, <3>1
  <2>2. CASE j - k \in 1 .. l /\ k + (j - k) = j
    <3> DEFINE e == j - k
    <3>1. e \in 1 .. l /\ xy[j] = y[e]
      BY <1>3, <2>2
    <3>2. CASE i \in 1 .. k
      <4> HIDE DEF e
      <4>1. QED BY <1>3, <1>6, <3>1, <3>2
    <3>3. CASE i - k \in 1 .. l /\ k + (i - k) = i
      <4> DEFINE f == i - k
      <4>1. f \in 1 .. l /\ xy[i] = y[f] /\ f < e
        BY <1>1, <1>3, <1>7, <3>3
      <4> HIDE DEF e, f
      <4>2. QED BY <1>1, <3>1, <4>1
    <3>4. QED BY <1>5, <3>2, <3>3
  <2>3. QED BY <1>5, <2>1, <2>2
<1>8. IsList(xy, Len(xy))
  <2>1. IsList(xy, k + l)
    BY <1>4, <1>7 DEF IsList
  <2>2. QED BY <1>3, <2>1
<1>9. Range(xy) = Range(x) \cup Range(y)
  <2>1. /\ Range(xy) = {xy[i] : i \in 1 .. k + l} /\ Range(x) = {x[i] : i \in 1 .. k}
        /\ Range(y) = {y[i] : i \in 1 .. l}
    BY <1>1, <1>4 DEF Range
  <2>2. \A i \in 1 .. k : i \in 1 .. k + l
    BY <1>1
  <2>3. \A i \in 1 .. l : k + i \in 1 .. k + l
    BY <1>1
  <2>4. ASSUME NEW i \in 1 .. k + l PROVE xy[i] \in Range(x) \cup Range(y)
    BY <1>3, <1>5, <1>6
  <2>5. ASSUME NEW z \in Range(xy) PROVE z \in Range(x) \cup Range(y)
    <3>1. PICK i \in 1 .. k + l : z = xy[i]
      BY <2>1
    <3>2. QED BY <2>4, <3>1
  <2>6. ASSUME NEW z \in Range(x) PROVE z \in Range(xy)
    <3>1. PICK i \in 1 .. k : z = x[i]
      BY <2>1
    <3>2. i \in 1 .. k + l /\ xy[i] = z
      BY <1>3, <2>2, <3>1
    <3>3. QED BY <2>1, <3>2
  <2>7. ASSUME NEW z \in Range(y) PROVE z \in Range(xy)
    <3>1. PICK i \in 1 .. l : z = y[i]
      BY <2>1
    <3>2. k + i \in 1 .. k + l /\ xy[k + i] = z
      BY <1>3, <2>3, <3>1
    <3>3. QED BY <2>1, <3>2
  <2>8. QED BY <2>5, <2>6, <2>7
<1>10. QED BY <1>8, <1>9

Ahead(seq, n, i, x) == \E k \in 1 .. n : ~(k < i) /\ seq[k] = x

\* The rest of a list.
LEMMA RestIs ==
  ASSUME NEW ids, NEW n, IsList(ids, n), NEW i \in 1 .. n + 1, NEW rest, rest = SubSeq(ids, i, n)
  PROVE  IsList(rest, Len(rest)) /\ \A x : x \in Range(rest) <=> Ahead(ids, n, i, x)
<1>1. n \in Nat /\ ids \in [1 .. n -> Nat] /\ \A k, l \in 1 .. n : k < l => ids[k] < ids[l]
  BY DEF IsList
<1> DEFINE count == n + 1 - i
<1>2. count \in Nat /\ i \in Nat \ {0} /\ i + count = n + 1 /\ i + count - 1 = n
  BY <1>1
<1>3. ids \in Seq(Nat) /\ Len(ids) = n
  BY <1>1, LenIs
<1> HIDE DEF count
<1>4. rest \in Seq(Nat) /\ Len(rest) = count /\ Stands(rest, ids, i)
  <2>1. Slice(ids, i, count) = rest
    BY <1>2 DEF Slice
  <2>2. i + count <= Len(ids) + 1
    BY <1>1, <1>2, <1>3
  <2>3. ids \in Seq(Nat) /\ i \in Nat \ {0} /\ count \in Nat
    BY <1>2, <1>3
  <2> DEFINE s == Slice(ids, i, count)
  <2>4. s \in Seq(Nat) /\ Len(s) = count /\ Stands(s, ids, i)
    BY ONLY <2>2, <2>3, SliceIs
  <2> HIDE DEF s
  <2>5. s = rest
    BY <2>1 DEF s
  <2>6. QED BY <2>4, <2>5
<1>5. rest \in [1 .. count -> Nat] /\ \A k \in 1 .. count : rest[k] = ids[i + k - 1]
  <2>1. \A k \in 1 .. count : rest[k] = ids[i + k - 1]
    BY <1>4 DEF Stands
  <2>2. rest \in [1 .. Len(rest) -> Nat]
    BY <1>4, LenProperties
  <2>3. QED BY <1>4, <2>1, <2>2
<1>6. \A k \in 1 .. count : i + k - 1 \in 1 .. n /\ ~(i + k - 1 < i)
  BY <1>1, <1>2
<1>7. ASSUME NEW k \in 1 .. count, NEW l \in 1 .. count, k < l PROVE rest[k] < rest[l]
  <2>1. i + k - 1 < i + l - 1
    BY <1>2, <1>7
  <2>2. QED BY <1>1, <1>5, <1>6, <2>1
<1>8. IsList(rest, Len(rest))
  BY <1>2, <1>4, <1>5, <1>7 DEF IsList
<1>9. ASSUME NEW x PROVE x \in Range(rest) <=> Ahead(ids, n, i, x)
  <2>1. x \in Range(rest) <=> \E k \in 1 .. count : rest[k] = x
    BY <1>5 DEF Range
  <2>2. ASSUME NEW k \in 1 .. count, rest[k] = x PROVE Ahead(ids, n, i, x)
    BY <1>5, <1>6, <2>2 DEF Ahead
  <2>3. ASSUME NEW l \in 1 .. n, ~(l < i), ids[l] = x PROVE \E k \in 1 .. count : rest[k] = x
    <3> DEFINE k == l - i + 1
    <3>1. k \in 1 .. count /\ i + k - 1 = l
      BY <1>1, <1>2, <2>3
    <3> HIDE DEF k
    <3>2. QED BY <1>5, <2>3, <3>1
  <2>4. QED BY <2>1, <2>2, <2>3 DEF Ahead
<1>10. QED BY <1>8, <1>9

\* All that is in a list was passed or is ahead.
LEMMA AllAreSomewhere ==
  ASSUME NEW seq, NEW n \in Nat, NEW i \in 1 .. n + 1, NEW x
  PROVE  /\ Items(seq, n, x) <=> Passed(seq, n, i, x) \/ Ahead(seq, n, i, x)
         /\ i = n + 1 => ~Ahead(seq, n, i, x)
<1>1. i = n + 1 => \A k \in 1 .. n : k < i
  OBVIOUS
<1>2. QED BY <1>1 DEF Items, Passed, Ahead

\* What was passed in either list is less than all that is ahead.
LEMMA PassedAreLess ==
  ASSUME NEW u, NEW v, NEW n, NEW m, IsList(u, n), IsList(v, m), NEW both \in BOOLEAN,
         NEW i, NEW j, NEW out, Midway(i, j, out, u, v, n, m, both), NEW x, NEW y
  PROVE  (Passed(u, n, i, x) \/ Passed(v, m, j, x)) /\ (Ahead(u, n, i, y) \/ Ahead(v, m, j, y)) => x < y
<1>1. /\ n \in Nat /\ u \in [1 .. n -> Nat] /\ \A k, l \in 1 .. n : k < l => u[k] < u[l]
      /\ m \in Nat /\ v \in [1 .. m -> Nat] /\ \A k, l \in 1 .. m : k < l => v[k] < v[l]
  BY DEF IsList
<1>2. i \in 1 .. n + 1 /\ j \in 1 .. m + 1 /\ Apart(u, v, n, m, i, j)
  BY DEF Midway
<1>3. ASSUME Passed(u, n, i, x), Ahead(u, n, i, y) PROVE x < y
  <2>1. PICK k \in 1 .. n : k < i /\ u[k] = x
    BY <1>3 DEF Passed
  <2>2. PICK l \in 1 .. n : ~(l < i) /\ u[l] = y
    BY <1>3 DEF Ahead
  <2>3. k < l
    BY <1>1, <1>2, <2>1, <2>2
  <2>4. QED BY <1>1, <2>1, <2>2, <2>3
<1>4. ASSUME Passed(v, m, j, x), Ahead(v, m, j, y) PROVE x < y
  <2>1. PICK k \in 1 .. m : k < j /\ v[k] = x
    BY <1>4 DEF Passed
  <2>2. PICK l \in 1 .. m : ~(l < j) /\ v[l] = y
    BY <1>4 DEF Ahead
  <2>3. k < l
    BY <1>1, <1>2, <2>1, <2>2
  <2>4. QED BY <1>1, <2>1, <2>2, <2>3
<1>5. Passed(u, n, i, x) /\ Ahead(v, m, j, y) => x < y
  BY <1>2 DEF Apart, Passed, Ahead
<1>6. Passed(v, m, j, x) /\ Ahead(u, n, i, y) => x < y
  BY <1>2 DEF Apart, Passed, Ahead
<1>7. QED BY <1>3, <1>4, <1>5, <1>6

\* intersect() is the intersection.
LEMMA IntersectIs ==
  ASSUME NEW u, NEW v, NEW n, NEW m, IsList(u, n), IsList(v, m), NEW s,
         s = Intersect(u, v)
  PROVE  /\ IsList(s, Len(s))
         /\ \A x : x \in Range(s) <=> Items(u, n, x) /\ Items(v, m, x)
<1>1. PICK off \in BOOLEAN : off = FALSE
  OBVIOUS
<1> DEFINE w == Walk(u, v, off)
<1>2. w \in Merged /\ Midway(w.i, w.j, w.out, u, v, n, m, off) /\ WalkOver(w, n, m)
  BY WalkEnds
<1>3. s = w.out
  BY Zenon, <1>1 DEF Intersect
<1> HIDE DEF w
<1> DEFINE i == w.i
           j == w.j
<1>4. /\ Midway(i, j, s, u, v, n, m, off) /\ i \in 1 .. n + 1 /\ j \in 1 .. m + 1
      /\ i = n + 1 \/ j = m + 1
      /\ n \in Nat /\ m \in Nat
  BY <1>2, <1>3 DEF WalkOver, Midway, IsList
<1> HIDE DEF i, j
<1>5. IsList(s, Len(s))
  BY <1>4 DEF Midway
<1>6. ASSUME NEW x PROVE x \in Range(s) <=> Items(u, n, x) /\ Items(v, m, x)
  <2>1. x \in Range(s) <=> Passed(u, n, i, x) /\ Passed(v, m, j, x)
    BY <1>1, <1>4 DEF Midway, KeptIn, Kept
  <2>2. /\ Items(u, n, x) <=> Passed(u, n, i, x) \/ Ahead(u, n, i, x)
        /\ i = n + 1 => ~Ahead(u, n, i, x)
    BY <1>4, AllAreSomewhere
  <2>3. /\ Items(v, m, x) <=> Passed(v, m, j, x) \/ Ahead(v, m, j, x)
        /\ j = m + 1 => ~Ahead(v, m, j, x)
    BY <1>4, AllAreSomewhere
  <2>4. (Passed(u, n, i, x) \/ Passed(v, m, j, x)) /\ (Ahead(u, n, i, x) \/ Ahead(v, m, j, x)) => x < x
    BY <1>4, PassedAreLess
  <2>5. Items(u, n, x) => ~(x < x)
    BY DEF Items, IsList
  <2>6. QED BY <1>4, <2>1, <2>2, <2>3, <2>4, <2>5
<1>7. QED BY <1>5, <1>6

\* union() is the union.
LEMMA UnionIs ==
  ASSUME NEW u, NEW v, NEW n, NEW m, IsList(u, n), IsList(v, m), NEW s, s = Union(u, v)
  PROVE  /\ IsList(s, Len(s))
         /\ \A x : x \in Range(s) <=> Items(u, n, x) \/ Items(v, m, x)
<1>1. PICK on \in BOOLEAN : on = TRUE
  OBVIOUS
<1> DEFINE w == Walk(u, v, on)
           out == w.out
           i == w.i
           j == w.j
           ofU == SubSeq(u, i, n)
           ofV == SubSeq(v, j, m)
           most == out \o ofU
<1>2. w \in Merged /\ Midway(w.i, w.j, w.out, u, v, n, m, on) /\ WalkOver(w, n, m)
  BY WalkEnds
<1>3. Len(u) = n /\ Len(v) = m /\ n \in Nat /\ m \in Nat
  BY ItemsAre
<1>4. s = out \o ofU \o ofV
  <2>1. s = w.out \o SubSeq(u, w.i, Len(u)) \o SubSeq(v, w.j, Len(v))
    BY Zenon, <1>1 DEF Union
  <2>2. QED BY Zenon, <1>3, <2>1
<1> HIDE DEF w
<1>5. /\ Midway(i, j, out, u, v, n, m, on) /\ i \in 1 .. n + 1 /\ j \in 1 .. m + 1
      /\ i = n + 1 \/ j = m + 1
  BY <1>2 DEF WalkOver, Midway
<1> HIDE DEF i, j, out, ofU, ofV
<1>6. /\ IsList(out, Len(out))
      /\ \A x : x \in Range(out) <=> Passed(u, n, i, x) \/ Passed(v, m, j, x)
  BY <1>1, <1>5 DEF Midway, KeptIn, Kept
<1>7. IsList(ofU, Len(ofU)) /\ \A x : x \in Range(ofU) <=> Ahead(u, n, i, x)
  BY <1>5, RestIs DEF ofU
<1>8. IsList(ofV, Len(ofV)) /\ \A x : x \in Range(ofV) <=> Ahead(v, m, j, x)
  BY <1>5, RestIs DEF ofV
<1>9. \A x, y : (Passed(u, n, i, x) \/ Passed(v, m, j, x)) /\ (Ahead(u, n, i, y) \/ Ahead(v, m, j, y)) => x < y
  BY <1>5, PassedAreLess
<1>10. \A x : (i = n + 1 => ~Ahead(u, n, i, x)) /\ (j = m + 1 => ~Ahead(v, m, j, x))
  BY <1>3, <1>5, AllAreSomewhere
<1>11. IsList(most, Len(most)) /\ Range(most) = Range(out) \cup Range(ofU)
  <2>1. \A p \in Range(out) : \A q \in Range(ofU) : p < q
    BY <1>6, <1>7, <1>9
  <2>2. QED BY <1>6, <1>7, <2>1, ListsJoin
<1> HIDE DEF most
<1>12. IsList(s, Len(s)) /\ Range(s) = Range(most) \cup Range(ofV)
  <2>1. \A p \in Range(most) : \A q \in Range(ofV) : p < q
    BY <1>5, <1>6, <1>7, <1>8, <1>9, <1>10, <1>11
  <2>2. s = most \o ofV
    BY <1>4 DEF most
  <2>3. QED BY <1>8, <1>11, <2>1, <2>2, ListsJoin
<1>13. ASSUME NEW x PROVE x \in Range(s) <=> Items(u, n, x) \/ Items(v, m, x)
  <2>1. /\ Items(u, n, x) <=> Passed(u, n, i, x) \/ Ahead(u, n, i, x)
        /\ Items(v, m, x) <=> Passed(v, m, j, x) \/ Ahead(v, m, j, x)
    BY <1>3, <1>5, AllAreSomewhere
  <2>2. QED BY <1>6, <1>7, <1>8, <1>11, <1>12, <2>1
<1>14. QED BY <1>12, <1>13
-----------------------------------------------------------------------------
(* Skipping. *)

\* What two lists share, at whose places in the first.
Shares(u, v, n, m) == {x \in Range(u) : Items(v, m, x)}
SharedAt(u, v, n, m) == {i \in 1 .. n : Items(v, m, u[i])}

\* Picking what is shared lists it.
LEMMA PickedShares ==
  ASSUME NEW u, NEW v, NEW n, NEW m, IsList(u, n), NEW at, at = SharedAt(u, v, n, m),
         NEW x, x = Shares(u, v, n, m), NEW s, s = Picked(u, at)
  PROVE  /\ Cardinality(at) \in Nat /\ Lists(s, Cardinality(at), x)
         /\ x \in SUBSET Int /\ IsFiniteSet(x)
<1> DEFINE k == Cardinality(at)
           o == InOrder(at)
<1>1. n \in Nat /\ u \in [1 .. n -> Nat] /\ \A i, j \in 1 .. n : i < j => u[i] < u[j]
  BY DEF IsList
<1>2. at \in SUBSET (1 .. n)
  BY DEF SharedAt
<1>3. at \in SUBSET Int /\ IsFiniteSet(at)
  BY <1>1, <1>2, SomePositions
<1>4. k \in Nat /\ Lists(o, k, at) /\ s = [i \in 1 .. k |-> u[o[i]]]
  <2>1. k \in Nat /\ Lists(o, k, at)
    BY <1>3, InOrderLists
  <2>2. s = [i \in 1 .. k |-> u[o[i]]]
    BY <1>3, PickedIs
  <2>3. QED BY <2>1, <2>2
<1> HIDE DEF k, o
<1>5. ASSUME NEW i \in 1 .. k
      PROVE  o[i] \in at /\ o[i] \in 1 .. n /\ s[i] = u[o[i]] /\ s[i] \in x /\ s[i] \in Nat
  <2>1. o[i] \in at /\ o[i] \in 1 .. n /\ s[i] = u[o[i]]
    BY <1>2, <1>4 DEF Lists
  <2>2. Items(v, m, u[o[i]])
    BY <2>1 DEF SharedAt
  <2>3. u[o[i]] \in Range(u) /\ u[o[i]] \in Nat
    BY <1>1, <2>1 DEF Range
  <2>4. QED BY <2>1, <2>2, <2>3 DEF Shares
<1>6. s \in [1 .. k -> x]
  BY <1>4, <1>5
<1>7. ASSUME NEW i \in 1 .. k, NEW j \in 1 .. k, i < j PROVE s[i] < s[j]
  <2>1. o[i] < o[j]
    BY <1>4, <1>7 DEF Lists
  <2>2. QED BY <1>1, <1>5, <2>1
<1>8. ASSUME NEW y \in x PROVE \E i \in 1 .. k : s[i] = y
  <2>1. y \in Range(u) /\ Items(v, m, y)
    BY DEF Shares
  <2>2. PICK p \in 1 .. n : u[p] = y
    BY <1>1, <2>1 DEF Range
  <2>3. p \in at
    BY <2>1, <2>2 DEF SharedAt
  <2>4. PICK i \in 1 .. k : o[i] = p
    BY <1>4, <2>3 DEF Lists
  <2>5. QED BY <1>5, <2>2, <2>4
<1>9. Lists(s, k, x)
  BY <1>6, <1>7, <1>8 DEF Lists
<1>10. IsFiniteSet(x)
  <2>1. ASSUME NEW i \in 1 .. k, NEW j \in 1 .. k, s[i] = s[j] PROVE i = j
    <3>1. i \in Nat /\ j \in Nat /\ s[i] \in Nat /\ s[j] \in Nat
      BY <1>4, <1>5
    <3>2. (i < j => s[i] < s[j]) /\ (j < i => s[j] < s[i])
      BY <1>7
    <3>3. QED BY <2>1, <3>1, <3>2
  <2>2. QED BY <1>4, <1>6, <1>8, <2>1, CountsTo
<1>11. x \in SUBSET Int
  BY <1>1 DEF Shares, Range
<1>12. QED BY <1>4, <1>9, <1>10, <1>11 DEF k

\* intersect_skipping() finds what intersect() does.
LEMMA SkippingIs ==
  ASSUME NEW u, NEW v, NEW n, NEW m, IsList(u, n), IsList(v, m), NEW freqs \in [1 .. m -> Nat],
         NEW p, p = OpenPostings(EncodeBlocked(v, freqs))
  PROVE  IntersectSkipping(u, p) = Intersect(u, v)
<1> DEFINE at == SharedAt(u, v, n, m)
           x == Shares(u, v, n, m)
           s == Picked(u, at)
           w == Intersect(u, v)
<1>1. n \in Nat /\ u \in [1 .. n -> Nat] /\ DOMAIN u = 1 .. n /\ m \in Nat
  BY DEF IsList
<1>2. PICK blocks, cuts : Opens(p, v, freqs, m, blocks, cuts)
  BY <1>1, ListOpens
<1>3. at = {i \in DOMAIN u : Found(p, u[i])}
  <2>1. ASSUME NEW i \in 1 .. n PROVE Found(p, u[i]) <=> Items(v, m, u[i])
    <3> DEFINE doc == u[i]
    <3>1. doc \in Int
      BY <1>1
    <3> HIDE DEF doc
    <3>2. Found(p, doc) <=> \E k \in 1 .. m : v[k] = doc
      BY <1>2, <3>1, FoundIs
    <3>3. QED BY <3>2 DEF Items, doc
  <2>2. QED BY <1>1, <2>1 DEF SharedAt
<1>4. IntersectSkipping(u, p) = s
  BY Zenon, <1>3 DEF IntersectSkipping, Found
<1>5. Cardinality(at) \in Nat /\ Lists(s, Cardinality(at), x) /\ x \in SUBSET Int /\ IsFiniteSet(x)
  BY PickedShares
<1> HIDE DEF at, x, s, w
<1>6. IsList(w, Len(w)) /\ \A y : y \in Range(w) <=> Items(u, n, y) /\ Items(v, m, y)
  BY IntersectIs DEF w
<1>7. Lists(w, Len(w), x) /\ Len(w) \in Nat
  <2> DEFINE l == Len(w)
  <2>1. l \in Nat /\ w \in [1 .. l -> Nat] /\ \A i, j \in 1 .. l : i < j => w[i] < w[j]
    BY <1>6 DEF IsList
  <2> HIDE DEF l
  <2>2. \A y : y \in Range(w) <=> \E i \in 1 .. l : w[i] = y
    BY <2>1 DEF Range
  <2>3. \A y : y \in Range(u) <=> Items(u, n, y)
    BY ItemsAre
  <2>4. \A y : y \in x <=> y \in Range(w)
    BY <1>6, <2>3 DEF x, Shares
  <2>5. w \in [1 .. l -> x]
    BY <2>1, <2>2, <2>4
  <2>6. \A y \in x : \E i \in 1 .. l : w[i] = y
    BY <2>2, <2>4
  <2>7. Lists(w, l, x)
    BY <2>1, <2>5, <2>6 DEF Lists
  <2>8. QED BY <2>1, <2>7 DEF l
<1>8. s = InOrder(x) /\ w = InOrder(x)
  BY <1>5, <1>7, InOrderLists
<1>9. QED BY <1>4, <1>8 DEF w

\* Combining posting lists is combining the sets of their documents, in order,
\* and skipping through the blocks of one finds what walking both does: union(),
\* intersect() and intersect_skipping(), for any lists and any block length.
THEOREM CombiningIsOnSets ==
  ASSUME NEW u, NEW v, NEW n, NEW m, IsList(u, n), IsList(v, m), NEW freqs \in [1 .. m -> Nat]
  PROVE  CombinedAsSets(u, v, freqs)
<1> DEFINE either == Union(u, v)
           shared == Intersect(u, v)
<1>1. /\ IsList(either, Len(either))
      /\ \A x : x \in Range(either) <=> Items(u, n, x) \/ Items(v, m, x)
  BY UnionIs
<1>2. /\ IsList(shared, Len(shared))
      /\ \A x : x \in Range(shared) <=> Items(u, n, x) /\ Items(v, m, x)
  BY IntersectIs
<1>3. IntersectSkipping(u, OpenPostings(EncodeBlocked(v, freqs))) = shared
  BY SkippingIs
<1> HIDE DEF either, shared
<1>4. /\ \A x : x \in Range(u) <=> Items(u, n, x)
      /\ \A x : x \in Range(v) <=> Items(v, m, x)
  BY ItemsAre
<1>5. Ascending(either) /\ Ascending(shared)
  BY <1>1, <1>2, ItemsAre
<1>6. Range(either) = Range(u) \cup Range(v)
  BY <1>1, <1>4
<1>7. Range(shared) = Range(u) \cap Range(v)
  BY <1>2, <1>4
<1>8. QED BY <1>3, <1>5, <1>6, <1>7 DEF CombinedAsSets, either, shared
-----------------------------------------------------------------------------
(* Every input of the run. *)

\* Numbers in order are a list.
LEMMA InOrderIsList ==
  ASSUME NEW S \in SUBSET Nat, IsFiniteSet(S)
  PROVE  IsList(InOrder(S), Cardinality(S))
<1> DEFINE k == Cardinality(S)
           o == InOrder(S)
<1>1. k \in Nat /\ Lists(o, k, S)
  <2>1. S \in SUBSET Int
    OBVIOUS
  <2>2. QED BY <2>1, InOrderLists
<1> HIDE DEF k, o
<1>2. o \in [1 .. k -> Nat] /\ \A i, j \in 1 .. k : i < j => o[i] < o[j]
  BY <1>1 DEF Lists
<1>3. IsList(o, k)
  BY <1>1, <1>2 DEF IsList
<1>4. QED BY <1>3 DEF k, o

\* The lists are what ProbeLists makes of two sets.
ListsProbe ==
  probe.kind = "lists" =>
    /\ \E S \in SUBSET IdsFrom : probe.a = InOrder(S)
    /\ \E S \in SUBSET IdsFrom : probe.b = InOrder(S)
    /\ probe.freqs \in [1 .. Cardinality(IdsFrom) -> Nat]

LEMMA ListsAlways == Spec => []ListsProbe
<1>1. Init => ListsProbe
  BY DEF Init, ListsProbe
<1>2. ListsProbe /\ [Next]_probe => ListsProbe'
  <2> SUFFICES ASSUME ListsProbe, [Next]_probe PROVE ListsProbe'
    OBVIOUS
  <2>1. CASE ProbeLists
    <3>1. PICK A \in SUBSET IdsFrom, B \in SUBSET IdsFrom, step \in {0, 3} :
            probe' = [kind |-> "lists", a |-> InOrder(A), b |-> InOrder(B),
                      freqs |-> [k \in 1 .. Cardinality(IdsFrom) |-> 1 + step * k]]
      BY <2>1 DEF ProbeLists
    <3>2. \A k \in 1 .. Cardinality(IdsFrom) : 1 + step * k \in Nat
      OBVIOUS
    <3> DEFINE n == Cardinality(IdsFrom)
               f == [k \in 1 .. n |-> 1 + step * k]
    <3>3. f \in [1 .. n -> Nat]
      BY <3>2
    <3> HIDE DEF f, n
    <3>4. probe'.a = InOrder(A) /\ probe'.b = InOrder(B) /\ probe'.freqs = f
      BY <3>1 DEF f, n
    <3>5. QED BY <3>3, <3>4 DEF ListsProbe, n
  <2>2. CASE ProbeDocuments
    BY <2>2 DEF ProbeDocuments, ListsProbe
  <2>3. CASE ProbePlan
    BY <2>3 DEF ProbePlan, ListsProbe
  <2>4. CASE ProbeUnion
    BY <2>4 DEF ProbeUnion, ListsProbe
  <2>5. CASE ProbeRows
    BY <2>5 DEF ProbeRows, ListsProbe
  <2>6. CASE ProbeModel
    BY <2>6 DEF ProbeModel, ListsProbe
  <2>7. CASE WriteThem
    BY <2>7 DEF WriteThem, ListsProbe
  <2>8. CASE OpenThem
    BY <2>8 DEF OpenThem, ListsProbe
  <2>9. CASE ReadThem
    BY <2>9 DEF ReadThem, ListsProbe
  <2>10. CASE Ask
    BY <2>10 DEF Ask, ListsProbe
  <2>11. CASE UNCHANGED probe
    BY <2>11 DEF ListsProbe
  <2>12. QED BY <2>1, <2>2, <2>3, <2>4, <2>5, <2>6, <2>7, <2>8, <2>9, <2>10, <2>11 DEF Next
<1>3. QED BY <1>1, <1>2, PTL DEF Spec

\* No posting list loses a document or invents one, written and read back or
\* combined with another, for every set of document ids: encode_blocked(),
\* BlockedPostings, union(), intersect() and intersect_skipping().
THEOREM PostingListsAreFaithful == Spec => []ListsAreFaithful
<1>1. ListsProbe => ListsAreFaithful
  <2> SUFFICES ASSUME ListsProbe, probe.kind = "lists" PROVE ListsAreFaithful
    BY DEF ListsAreFaithful
  <2> DEFINE all == Cardinality(IdsFrom)
             u == probe.a
             v == probe.b
             freqs == probe.freqs
  <2>1. PICK A \in SUBSET IdsFrom : u = InOrder(A)
    BY DEF ListsProbe
  <2>2. PICK B \in SUBSET IdsFrom : v = InOrder(B)
    BY DEF ListsProbe
  <2>3. freqs \in [1 .. all -> Nat]
    BY DEF ListsProbe
  <2> HIDE DEF all, u, v, freqs
  <2>4. IdsFrom \in SUBSET Nat /\ IsFiniteSet(IdsFrom)
    <3> DEFINE top == Int32Max
    <3>1. IdsFrom \subseteq 0 .. top /\ IsFiniteSet(IdsFrom)
      BY ListsAssumption
    <3> HIDE DEF top
    <3>2. QED BY <3>1
  <2>5. all \in Nat
    BY <2>4, FS_CardinalityType DEF all
  <2>6. ASSUME NEW S \in SUBSET IdsFrom, NEW ids, ids = InOrder(S)
        PROVE  /\ IsList(ids, Len(ids)) /\ Len(ids) \in Nat
               /\ SubSeq(freqs, 1, Len(ids)) \in [1 .. Len(ids) -> Nat]
    <3> DEFINE k == Cardinality(S)
    <3>1. IsFiniteSet(S) /\ k \in Nat /\ k <= all
      BY <2>4, FS_Subset, FS_CardinalityType DEF all
    <3>2. IsList(ids, k)
      BY <2>4, <2>6, <3>1, InOrderIsList
    <3> HIDE DEF k
    <3>3. Len(ids) = k
      BY <3>2, ItemsAre
    <3>4. k \in 0 .. all
      BY <2>5, <3>1
    <3>5. SubSeq(freqs, 1, k) \in [1 .. k -> Nat]
      <4>1. SubSeq(freqs, 1, k) = First(freqs, k) /\ First(freqs, k) \in [1 .. k -> Nat]
        BY ONLY <2>3, <2>5, <3>4, FirstIs
      <4> HIDE DEF u, v
      <4>2. QED BY Zenon, <4>1
    <3>6. QED BY <3>1, <3>2, <3>3, <3>5
  <2>7. /\ IsList(u, Len(u)) /\ Len(u) \in Nat
        /\ SubSeq(freqs, 1, Len(u)) \in [1 .. Len(u) -> Nat]
    BY <2>1, <2>6
  <2>8. /\ IsList(v, Len(v)) /\ Len(v) \in Nat
        /\ SubSeq(freqs, 1, Len(v)) \in [1 .. Len(v) -> Nat]
    BY <2>2, <2>6
  <2>9. ListReadsBack(u, SubSeq(freqs, 1, Len(u)))
    BY <2>7, PostingListsReadBack
  <2>10. CombinedAsSets(u, v, SubSeq(freqs, 1, Len(v)))
    BY <2>7, <2>8, CombiningIsOnSets
  <2>11. QED BY <2>9, <2>10 DEF ListsAreFaithful, u, v, freqs
<1>2. QED BY <1>1, ListsAlways, PTL
=============================================================================
