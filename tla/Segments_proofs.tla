--------------------------- MODULE Segments_proofs ---------------------------
(***************************************************************************)
(* Segments of any number of documents and terms: the Bloom filter and the *)
(* blocks of the term dictionary, each alone, then the whole object: what  *)
(* is written is read back by ranges, a merge of segments is the segment   *)
(* of all their documents, and part of a segment is not taken for one.     *)
(* A query of an index finds what a scan of its documents does.            *)
(***************************************************************************)
EXTENDS Postings_proofs

-----------------------------------------------------------------------------
(* The Bloom filter. *)

\* A filter is some whole bytes, one at least.
LEMMA BloomIsBytes ==
  ASSUME NEW n \in Nat
  PROVE  \E m \in Nat \ {0} : BloomBits(n) = 8 * m /\ BloomBits(n) \div 8 = m
<1>1. CASE n = 0
  <2>1. BloomBits(n) = 8 * 1 /\ BloomBits(n) \div 8 = 1
    BY <1>1 DEF BloomBits
  <2>2. QED BY <2>1
<1>2. CASE n # 0
  <2> DEFINE bits == (n * 958506 + 99999) \div 100000
             m == (bits + 7) \div 8
  <2>1. bits \in Nat \ {0}
    BY <1>2
  <2>2. BloomBits(n) = 8 * m
    BY <1>2 DEF BloomBits
  <2> HIDE DEF bits
  <2>3. m \in Nat \ {0}
    BY <2>1
  <2> HIDE DEF m
  <2>4. (8 * m) \div 8 = m
    BY <2>3
  <2>5. QED BY <2>2, <2>3, <2>4
<1>3. QED BY <1>1, <1>2

\* Positions are within the filter.
LEMMA PositionsWithin ==
  ASSUME NEW term, Digest[term] \in Nat \X Nat, NEW bits \in Nat \ {0}, NEW hashes
  PROVE  Positions(term, bits, hashes) \subseteq 0 .. bits - 1
<1> SUFFICES ASSUME NEW i \in 0 .. hashes - 1
             PROVE  (Digest[term][1] + i * Digest[term][2]) % bits \in 0 .. bits - 1
  BY DEF Positions
<1>1. \A p \in Int : p % bits \in 0 .. bits - 1
  OBVIOUS
<1> DEFINE p == Digest[term][1] + i * Digest[term][2]
<1>2. p \in Int
  OBVIOUS
<1> HIDE DEF p
<1>3. p % bits \in 0 .. bits - 1
  BY <1>1, <1>2
<1>4. QED BY <1>3 DEF p

\* The bit of a byte that stands for a position.
LEMMA ByteHolds ==
  ASSUME NEW set, NEW w \in Nat \ {0}, NEW x \in Nat, x \div 8 + 1 = w,
         NEW value, value = ValueOf([k \in 1 .. 8 |-> IF 8 * w - k \in set THEN 1 ELSE 0])
  PROVE  Shifted(value, 2)[x % 8] % 2 = IF x \in set THEN 1 ELSE 0
<1> DEFINE n == 8
           k == 8 - (x % 8)
           digits == [j \in 1 .. n |-> IF 8 * w - j \in set THEN 1 ELSE 0]
           q == Shifted(value, 2)
<1>1. k \in 1 .. n /\ n - k = x % 8 /\ 8 * w - k = x /\ n \in Nat
  OBVIOUS
<1>2. digits \in [1 .. n -> 0 .. 1]
  OBVIOUS
<1>3. digits[k] = IF x \in set THEN 1 ELSE 0
  BY <1>1
<1>4. value = ValueOf(digits)
  OBVIOUS
<1> HIDE DEF digits, k, n
<1>5. value \in Nat /\ BitsOf(value, n) = digits
  BY <1>1, <1>2, <1>4, SpelledBits
<1>6. BitsOf(value, n) = [j \in 1 .. n |-> Remainder(q[n - j], 2)]
  BY <1>1, <1>5, BitsAre
<1> HIDE DEF q
<1>7. digits[k] = Remainder(q[n - k], 2)
  BY <1>1, <1>5, <1>6
<1>8. QED BY <1>1, <1>3, <1>7 DEF Remainder, q

\* A filter, once written and read, never denies a term it was made from: with
\* the postings' offsets the one part of a segment whose slip no answer would
\* show but by documents that are missing ("a wrong 'no'").  Nothing is asked of
\* the hashes but that they are numbers.
THEOREM BloomNeverWrongNo ==
  ASSUME NEW terms, IsFiniteSet(terms), \A t \in terms : Digest[t] \in Nat \X Nat,
         NEW term \in terms
  PROVE  MayContain(EncodeBloom(terms), term)
<1> DEFINE bits == BloomBits(Cardinality(terms))
           hashes == BloomHashes(Cardinality(terms))
           set == UNION {Positions(t, bits, hashes) : t \in terms}
           word(w) == ValueOf([k \in 1 .. 8 |-> IF 8 * w - k \in set THEN 1 ELSE 0])
           size == bits \div 8
           words == [w \in 1 .. size |-> word(w)]
           head == <<bits, hashes>>
           bloom == EncodeBloom(terms)
<1>1. Cardinality(terms) \in Nat
  BY FS_CardinalityType
<1>2. PICK m \in Nat \ {0} : bits = 8 * m /\ size = m
  <2> DEFINE n == Cardinality(terms)
  <2> HIDE DEF n
  <2>1. \E m \in Nat \ {0} : BloomBits(n) = 8 * m /\ BloomBits(n) \div 8 = m
    BY <1>1, BloomIsBytes DEF n
  <2>2. QED BY <2>1 DEF n
<1>3. bloom = head \o words
  BY DEF EncodeBloom
<1>4. Positions(term, bits, hashes) \subseteq set
  OBVIOUS
<1> HIDE DEF bits, hashes, set, bloom, size
<1>5. bits \in Nat \ {0}
  BY <1>2
<1>6. Positions(term, bits, hashes) \subseteq 0 .. bits - 1
  BY <1>5, PositionsWithin
<1>7. /\ bloom[1] = bits /\ bloom[2] = hashes
      /\ \A w \in 1 .. m : bloom[2 + w] = word(w)
  <2> DEFINE S == {word(w) : w \in 1 .. m} \cup {bits, hashes}
  <2> HIDE DEF word
  <2>1. words \in Seq(S) /\ Len(words) = m
    <3>1. words \in [1 .. m -> S]
      BY <1>2
    <3> HIDE DEF words, S
    <3>2. QED BY <1>2, <3>1, LenIs
  <2>2. head \in Seq(S) /\ Len(head) = 2 /\ head[1] = bits /\ head[2] = hashes
    OBVIOUS
  <2>3. \A w \in 1 .. m : words[w] = word(w)
    BY <1>2
  <2> HIDE DEF words, head, S
  <2>4. Concatenates(head, words, bloom)
    BY <1>3, <2>1, <2>2, ConcatIs
  <2>5. /\ bloom[1] = head[1] /\ bloom[2] = head[2]
        /\ \A w \in 1 .. m : bloom[2 + w] = words[w]
    BY <2>1, <2>2, <2>4 DEF Concatenates
  <2>6. QED BY <2>2, <2>3, <2>5
<1> HIDE DEF words, head
<1>8. SUFFICES ASSUME NEW x \in Positions(term, bits, hashes)
               PROVE  Shifted(bloom[3 + (x \div 8)], 2)[x % 8] % 2 = 1
  BY <1>7 DEF MayContain, bloom
<1> DEFINE w == x \div 8 + 1
<1>9. x \in Nat /\ x \in set /\ w \in 1 .. m /\ 2 + w = 3 + (x \div 8)
  BY <1>2, <1>4, <1>6
<1>10. bloom[3 + (x \div 8)] = word(w)
  <2> HIDE DEF word, w
  <2>1. QED BY <1>7, <1>9
<1> DEFINE value == bloom[3 + (x \div 8)]
<1>11. value = ValueOf([k \in 1 .. 8 |-> IF 8 * w - k \in set THEN 1 ELSE 0])
  BY <1>10
<1>12. w \in Nat \ {0} /\ x \div 8 + 1 = w
  BY <1>9
<1> HIDE DEF w, value
<1>13. Shifted(value, 2)[x % 8] % 2 = IF x \in set THEN 1 ELSE 0
  BY <1>9, <1>11, <1>12, ByteHolds
<1>14. QED BY <1>9, <1>13 DEF value
-----------------------------------------------------------------------------
(* The term dictionary. *)

\* The first and the remaining elements make up the sequence.
LEMMA CutInTwo ==
  ASSUME NEW S, NEW u \in Seq(S), NEW s \in 0 .. Len(u)
  PROVE  /\ SubSeq(u, 1, s) \in Seq(S) /\ Len(SubSeq(u, 1, s)) = s
         /\ SubSeq(u, s + 1, Len(u)) \in Seq(S) /\ Len(SubSeq(u, s + 1, Len(u))) = Len(u) - s
         /\ SubSeq(u, 1, s) \o SubSeq(u, s + 1, Len(u)) = u
<1> DEFINE n == Len(u)
           x == SubSeq(u, 1, s)
           y == SubSeq(u, s + 1, n)
           xy == x \o y
<1>1. n \in Nat /\ s \in Nat /\ s <= n /\ u \in [1 .. n -> S]
  OBVIOUS
<1>2. x \in [1 .. s -> S] /\ \A i \in 1 .. s : x[i] = u[i]
  <2>1. x = [i \in 1 .. (s - 1 + 1) |-> u[i + 1 - 1]]
    BY DEF SubSeq
  <2> HIDE DEF n, x
  <2>2. s - 1 + 1 = s /\ \A i \in 1 .. s : i + 1 - 1 = i /\ i \in 1 .. n
    BY <1>1
  <2>3. QED BY <1>1, <2>1, <2>2
<1>3. y \in [1 .. n - s -> S] /\ \A i \in 1 .. n - s : y[i] = u[s + i]
  <2>1. y = [i \in 1 .. (n - (s + 1) + 1) |-> u[i + (s + 1) - 1]]
    BY DEF SubSeq
  <2> HIDE DEF n, y
  <2>2. n - (s + 1) + 1 = n - s /\ \A i \in 1 .. n - s : i + (s + 1) - 1 = s + i /\ s + i \in 1 .. n
    BY <1>1
  <2>3. QED BY <1>1, <2>1, <2>2
<1> HIDE DEF n, x, y
<1>4. x \in Seq(S) /\ Len(x) = s
  BY <1>1, <1>2, LenIs
<1>5. y \in Seq(S) /\ Len(y) = n - s
  <2>1. n - s \in Nat
    BY <1>1
  <2>2. QED BY <1>3, <2>1, LenIs
<1>6. Concatenates(x, y, xy) /\ xy \in Seq(S)
  <2>1. Concatenates(x, y, xy)
    BY <1>4, <1>5, ConcatIs
  <2>2. xy \in Seq(S)
    BY <1>4, <1>5
  <2>3. QED BY <2>1, <2>2
<1> HIDE DEF xy
<1>7. xy = [i \in 1 .. n |-> xy[i]]
  <2>1. Len(xy) = n
    BY <1>1, <1>4, <1>5, <1>6 DEF Concatenates
  <2>2. QED BY <1>6, <2>1
<1>8. ASSUME NEW i \in 1 .. n PROVE xy[i] = u[i]
  <2>1. CASE i <= s
    <3>1. i \in 1 .. s
      BY <1>1, <2>1
    <3>2. QED BY <1>2, <1>4, <1>6, <3>1 DEF Concatenates
  <2>2. CASE s < i
    <3>1. i - s \in 1 .. n - s /\ s + (i - s) = i
      BY <1>1, <2>2
    <3>2. QED BY <1>3, <1>4, <1>5, <1>6, <3>1 DEF Concatenates
  <2>3. QED BY <1>1, <2>1, <2>2
<1>9. xy = u
  BY <1>1, <1>7, <1>8
<1>10. QED BY <1>1, <1>4, <1>5, <1>9 DEF n, x, y, xy

\* Two terms share what they share.
LEMMA SharedIs ==
  ASSUME NEW S, NEW u \in Seq(S), NEW b \in Seq(S)
  PROVE  /\ Shared(u, b) \in 0 .. Len(u) /\ Shared(u, b) \in 0 .. Len(b)
         /\ SubSeq(u, 1, Shared(u, b)) = SubSeq(b, 1, Shared(u, b))
         /\ Shared(u, b) < Len(u) /\ Shared(u, b) < Len(b) =>
              u[Shared(u, b) + 1] # b[Shared(u, b) + 1]
<1> DEFINE m == Smaller(Len(u), Len(b))
           Same(k) == SubSeq(u, 1, k) = SubSeq(b, 1, k)
           T == {k \in 0 .. m : Same(k)}
           Ends(k) == Same(k) /\ (k < m => u[k + 1] # b[k + 1])
<1>1. /\ m \in Nat /\ m <= Len(u) /\ m <= Len(b) /\ Len(u) \in Nat /\ Len(b) \in Nat
      /\ (m = Len(u) \/ m = Len(b))
  BY DEF Smaller
<1>2. u \in [1 .. Len(u) -> S] /\ b \in [1 .. Len(b) -> S]
  OBVIOUS
<1> HIDE DEF m
<1>3. ASSUME NEW k \in 0 .. m
      PROVE  /\ SubSeq(u, 1, k) = First(u, k) /\ SubSeq(b, 1, k) = First(b, k)
  <2> DEFINE n == Len(u)
             l == Len(b)
  <2>0. u \in [1 .. n -> S] /\ b \in [1 .. l -> S]
    BY Zenon, <1>2
  <2>00. m \in Nat /\ m <= n /\ m <= l /\ n \in Nat /\ l \in Nat
    BY Zenon, <1>1
  <2> HIDE DEF n, l
  <2>01. k \in 0 .. n /\ k \in 0 .. l
    BY <2>00
  <2>1. /\ k \in 0 .. n /\ k \in 0 .. l /\ n \in Nat /\ l \in Nat
        /\ u \in [1 .. n -> S] /\ b \in [1 .. l -> S]
    BY Zenon, <2>0, <2>00, <2>01
  <2>2. SubSeq(u, 1, k) = First(u, k) /\ First(u, k) \in [1 .. k -> S]
    BY Zenon, <2>1, FirstIs
  <2>3. SubSeq(b, 1, k) = First(b, k) /\ First(b, k) \in [1 .. k -> S]
    BY Zenon, <2>1, FirstIs
  <2>4. QED BY <2>2, <2>3
<1>4. 0 \in T
  <2>1. 0 \in 0 .. m /\ First(u, 0) = First(b, 0)
    BY <1>1 DEF First
  <2>2. QED BY <1>3, <2>1
<1>5. PICK k \in T : \A j \in T : j <= k
  <2>1. T \in SUBSET Nat /\ m + 1 \in Nat /\ \A j \in T : j < m + 1
    BY <1>1
  <2> HIDE DEF T
  <2>2. QED BY <1>4, <2>1, GreatestNatural
<1>6. Ends(k)
  <2>1. SUFFICES ASSUME k < m, u[k + 1] = b[k + 1] PROVE FALSE
    BY <1>5
  <2>2. k + 1 \in 0 .. m /\ k \in Nat
    BY <1>1, <1>5, <2>1
  <2>3. First(u, k) = First(b, k)
    BY <1>3, <1>5
  <2>4. \A i \in 1 .. k + 1 : u[i] = b[i]
    <3>1. \A i \in 1 .. k + 1 : i \in 1 .. k \/ i = k + 1
      BY <2>2
    <3>2. \A i \in 1 .. k : First(u, k)[i] = u[i] /\ First(b, k)[i] = b[i]
      BY DEF First
    <3>3. QED BY <2>1, <2>3, <3>1, <3>2
  <2>5. First(u, k + 1) = First(b, k + 1)
    BY <2>4 DEF First
  <2>6. k + 1 \in T
    BY <1>3, <2>2, <2>5
  <2> HIDE DEF T
  <2>7. QED BY <1>5, <2>2, <2>6
<1> DEFINE shared == CHOOSE j \in 0 .. m : Ends(j)
<1>7. Shared(u, b) = shared
  BY DEF Shared, m
<1>8. shared \in 0 .. m /\ Ends(shared)
  <2>1. k \in 0 .. m
    BY <1>5
  <2> HIDE DEF Ends
  <2>2. QED BY <1>6, <2>1
<1> HIDE DEF shared
<1>9. shared \in 0 .. Len(u) /\ shared \in 0 .. Len(b)
  BY <1>1, <1>8
<1>10. shared < Len(u) /\ shared < Len(b) => shared < m
  BY <1>1
<1>11. QED BY <1>7, <1>8, <1>9, <1>10

\* An entry of the dictionary, and a run of them as write_segment() makes it:
\* no postings start before the ones before them end.
DictEntry == [term : Seq(Nat), df : Nat, offset : Nat, length : Nat]

RunOfEntries(entries, n) ==
  /\ n \in Nat \ {0} /\ entries \in [1 .. n -> DictEntry]
  /\ \A k \in 2 .. n : entries[k - 1].offset + entries[k - 1].length <= entries[k].offset

TermBefore(entries, k) == IF k = 1 THEN <<>> ELSE entries[k - 1].term
ExpectedAt(entries, k) ==
  IF k = 1 THEN entries[k].offset ELSE entries[k - 1].offset + entries[k - 1].length

\* The bytes of an entry, after a term and where its postings are expected.
EntryIs(bytes, e, before, expected) ==
  LET shared == Shared(before, e.term)
      suffix == SubSeq(e.term, shared + 1, Len(e.term))
  IN bytes = EncodeVarints(<<shared, Len(suffix)>>) \o suffix
               \o EncodeVarints(<<e.df, e.offset - expected, e.length>>)

\* Wherever they stand, they read as that entry.
EntryIsRead(bytes, e, before, expected) ==
  \A data, pos, sofar : Stands(bytes, data, pos) =>
    DecodeDictEntry([next |-> pos, term |-> before, expected |-> expected, entries |-> sofar], data)
      = [next |-> pos + Len(bytes), term |-> e.term, expected |-> e.offset + e.length,
         entries |-> sofar \cup {e}]

\* The bytes of an entry are bytes, and read as that entry.
LEMMA EntryReads ==
  ASSUME NEW e \in DictEntry, NEW before \in Seq(Nat), NEW expected \in Nat, expected <= e.offset,
         NEW bytes, EntryIs(bytes, e, before, expected)
  PROVE  bytes \in Seq(Nat) /\ EntryIsRead(bytes, e, before, expected)
<1> DEFINE shared == Shared(before, e.term)
           suffix == SubSeq(e.term, shared + 1, Len(e.term))
           rest == Len(suffix)
           gap == e.offset - expected
           two == <<shared, rest>>
           three == <<e.df, gap, e.length>>
           A == EncodeVarints(two)
           C == EncodeVarints(three)
<1>1. /\ e.term \in Seq(Nat) /\ e.df \in Nat /\ e.offset \in Nat /\ e.length \in Nat
      /\ e = [term |-> e.term, df |-> e.df, offset |-> e.offset, length |-> e.length]
  BY DEF DictEntry
<1>2. /\ shared \in 0 .. Len(e.term)
      /\ SubSeq(before, 1, shared) = SubSeq(e.term, 1, shared)
  <2> DEFINE term == e.term
  <2>1. term \in Seq(Nat)
    BY <1>1
  <2> HIDE DEF term
  <2>2. /\ Shared(before, term) \in 0 .. Len(term)
        /\ SubSeq(before, 1, Shared(before, term)) = SubSeq(term, 1, Shared(before, term))
    BY <2>1, SharedIs
  <2>3. QED BY <2>2 DEF term
<1>3. bytes = (A \o suffix) \o C
  BY DEF EntryIs
<1> HIDE DEF shared
<1>4. /\ suffix \in Seq(Nat) /\ rest \in Nat
      /\ SubSeq(e.term, 1, shared) \o suffix = e.term
  <2> DEFINE term == e.term
  <2>1. term \in Seq(Nat) /\ shared \in 0 .. Len(term)
    BY <1>1, <1>2
  <2> HIDE DEF term
  <2>2. /\ SubSeq(term, shared + 1, Len(term)) \in Seq(Nat)
        /\ SubSeq(term, 1, shared) \o SubSeq(term, shared + 1, Len(term)) = term
    BY <2>1, CutInTwo
  <2>3. Len(SubSeq(term, shared + 1, Len(term))) \in Nat
    BY <2>2
  <2>4. QED BY <2>2, <2>3 DEF term
<1> HIDE DEF suffix
<1>5. shared \in Nat /\ gap \in Nat /\ expected + gap = e.offset
  <2>1. shared \in Nat
    <3>1. Len(e.term) \in Nat
      BY <1>1
    <3>2. QED BY <1>2, <3>1
  <2> DEFINE v == e.offset
  <2>2. v \in Nat /\ expected <= v
    BY <1>1
  <2> HIDE DEF v
  <2>3. v - expected \in Nat /\ expected + (v - expected) = v
    BY <2>2
  <2>4. QED BY <2>1, <2>3 DEF v
<1> HIDE DEF gap, rest
<1>6. two \in [1 .. 2 -> Nat] /\ two[1] = shared /\ two[2] = rest
  BY <1>4, <1>5
<1>7. three \in [1 .. 3 -> Nat] /\ three[1] = e.df /\ three[2] = gap /\ three[3] = e.length
  BY <1>1, <1>5
<1> HIDE DEF two, three
<1>8. A \in Seq(Nat) /\ C \in Seq(Nat)
  <2> DEFINE n == 2
             m == 3
  <2>1. n \in Nat /\ m \in Nat /\ two \in [1 .. n -> Nat] /\ three \in [1 .. m -> Nat]
    BY <1>6, <1>7
  <2> HIDE DEF n, m
  <2>2. QED BY <2>1, VarintsAre
<1> HIDE DEF A, C
<1>9. A \o suffix \in Seq(Nat) /\ bytes \in Seq(Nat)
  BY <1>3, <1>4, <1>8
<1>10. ASSUME NEW data, NEW pos, NEW sofar, Stands(bytes, data, pos)
       PROVE  DecodeDictEntry([next |-> pos, term |-> before, expected |-> expected, entries |-> sofar], data)
                = [next |-> pos + Len(bytes), term |-> e.term, expected |-> e.offset + e.length,
                   entries |-> sofar \cup {e}]
  <2> DEFINE read == [next |-> pos, term |-> before, expected |-> expected, entries |-> sofar]
             head == DecodeVarints(data, 2, pos)
             p == pos + Len(A)
             q == p + rest
             tail == DecodeVarints(data, 3, q)
  <2>1. /\ Len(A) \in Nat /\ Len(C) \in Nat /\ Stands(A \o suffix, data, pos)
        /\ Len(A \o suffix) = Len(A) + rest
        /\ Stands(C, data, pos + Len(A \o suffix)) /\ Len(bytes) = Len(A) + rest + Len(C)
    <3> DEFINE AB == A \o suffix
    <3>1. AB \in Seq(Nat) /\ Stands(AB \o C, data, pos)
      BY <1>3, <1>9, <1>10
    <3> HIDE DEF AB
    <3>2. /\ Len(AB) \in Nat /\ Len(C) \in Nat /\ Len(AB \o C) = Len(AB) + Len(C)
          /\ Stands(AB, data, pos) /\ Stands(C, data, pos + Len(AB))
      BY <1>8, <3>1, StandsConcat
    <3>3. Len(A) \in Nat /\ Len(AB) = Len(A) + rest
      BY <1>4, <1>8 DEF AB, rest
    <3>4. QED BY <1>3, <3>2, <3>3 DEF AB
  <2>2. Stands(A, data, pos) /\ Stands(suffix, data, p)
    BY <1>4, <1>8, <2>1, StandsConcat
  <2>3. pos \in Nat
    BY <1>10 DEF Stands
  <2>4. Stands(C, data, q) /\ q + Len(C) = pos + Len(bytes)
    <3>1. q = pos + Len(A \o suffix) /\ q + Len(C) = pos + Len(bytes)
      BY <1>4, <2>1, <2>3
    <3>2. QED BY <2>1, <3>1
  <2>5. head.values = two /\ head.next = p
    <3> DEFINE n == 2
    <3>1. n \in Nat /\ two \in [1 .. n -> Nat]
      BY <1>6
    <3>2. Stands(EncodeVarints(two), data, pos)
      BY <2>2 DEF A
    <3> HIDE DEF n
    <3>3. /\ DecodeVarints(data, n, pos).values = two
          /\ DecodeVarints(data, n, pos).next = pos + Len(EncodeVarints(two))
      BY <3>1, <3>2, VarintsRead
    <3>4. QED BY <3>3 DEF n, A
  <2>6. tail.values = three /\ tail.next = q + Len(C)
    <3> DEFINE n == 3
    <3>1. n \in Nat /\ three \in [1 .. n -> Nat]
      BY <1>7
    <3> HIDE DEF q
    <3>2. Stands(EncodeVarints(three), data, q)
      BY <2>4 DEF C
    <3> HIDE DEF n
    <3>3. /\ DecodeVarints(data, n, q).values = three
          /\ DecodeVarints(data, n, q).next = q + Len(EncodeVarints(three))
      BY <3>1, <3>2, VarintsRead
    <3>4. QED BY <3>3 DEF n, C
  <2>7. Slice(data, p, rest) = suffix
    <3> HIDE DEF p
    <3>1. QED BY <1>4, <2>2, SliceStands DEF rest
  <2>8. read.next = pos /\ read.term = before /\ read.expected = expected /\ read.entries = sofar
    OBVIOUS
  <2> HIDE DEF read, p, q
  <2>9. DecodeDictEntry(read, data)
          = WithEntry(read, SubSeq(before, 1, shared) \o suffix, tail)
    <3>1. /\ head.values[1] = shared /\ head.values[2] = rest
      BY <1>6, <2>5
    <3>2. head.next + head.values[2] = q
      BY <2>5, <3>1 DEF q
    <3>3. DecodeDictEntry(read, data)
            = WithEntry(read, SubSeq(before, 1, head.values[1])
                                \o Slice(data, head.next, head.values[2]),
                        DecodeVarints(data, 3, head.next + head.values[2]))
      BY <2>8 DEF DecodeDictEntry
    <3> HIDE DEF head
    <3>4. QED BY <2>5, <2>7, <3>1, <3>2, <3>3
  <2>10. SubSeq(before, 1, shared) \o suffix = e.term
    BY <1>2, <1>4
  <2> HIDE DEF tail
  <2>11. WithEntry(read, e.term, tail)
           = [next |-> tail.next, term |-> e.term, expected |-> e.offset + e.length,
              entries |-> sofar \cup {e}]
    <3>1. tail.values[1] = e.df /\ tail.values[2] = gap /\ tail.values[3] = e.length
      BY <1>7, <2>6
    <3>2. read.expected + tail.values[2] = e.offset
      BY <1>5, <2>8, <3>1
    <3>3. [term |-> e.term, df |-> tail.values[1], offset |-> read.expected + tail.values[2],
           length |-> tail.values[3]] = e
      BY <1>1, <3>1, <3>2
    <3>4. QED BY <2>8, <3>1, <3>2, <3>3 DEF WithEntry
  <2>12. QED BY <2>4, <2>6, <2>9, <2>10, <2>11 DEF read
<1>11. EntryIsRead(bytes, e, before, expected)
  BY <1>10 DEF EntryIsRead
<1>12. QED BY <1>9, <1>11

\* The entries of a run, one after the other.
EntriesAre(seqs, entries, n) ==
  \A k \in 1 .. n : EntryIs(seqs[k], entries[k], TermBefore(entries, k), ExpectedAt(entries, k))

\* What an entry is read after.
LEMMA BeforeEntry ==
  ASSUME NEW n, NEW entries, RunOfEntries(entries, n), NEW k \in 1 .. n
  PROVE  /\ entries[k] \in DictEntry /\ entries[k].offset \in Nat /\ entries[k].length \in Nat
         /\ TermBefore(entries, k) \in Seq(Nat)
         /\ ExpectedAt(entries, k) \in Nat /\ ExpectedAt(entries, k) <= entries[k].offset
<1>1. n \in Nat /\ \A j \in 1 .. n : entries[j] \in DictEntry
  BY DEF RunOfEntries
<1>2. \A j \in 1 .. n : /\ entries[j].term \in Seq(Nat)
                        /\ entries[j].offset \in Nat /\ entries[j].length \in Nat
  BY <1>1 DEF DictEntry
<1>3. CASE k = 1
  <2>1. <<>> \in Seq(Nat)
    OBVIOUS
  <2>2. ExpectedAt(entries, k) = entries[k].offset /\ TermBefore(entries, k) = <<>>
    BY <1>3 DEF ExpectedAt, TermBefore
  <2>3. QED BY <1>1, <1>2, <2>1, <2>2
<1>4. CASE k # 1
  <2>1. k - 1 \in 1 .. n /\ k \in 2 .. n
    BY <1>1, <1>4
  <2>2. entries[k - 1].offset + entries[k - 1].length <= entries[k].offset
    BY <2>1 DEF RunOfEntries
  <2>3. /\ ExpectedAt(entries, k) = entries[k - 1].offset + entries[k - 1].length
        /\ TermBefore(entries, k) = entries[k - 1].term
    BY <1>4 DEF ExpectedAt, TermBefore
  <2>4. QED BY <1>1, <1>2, <2>1, <2>2, <2>3
<1>5. QED BY <1>3, <1>4

\* A run read up to an entry.
ReadUpTo(entries, k, pos) ==
  [next |-> pos,
   term |-> IF k = 0 THEN <<>> ELSE entries[k].term,
   expected |-> IF k = 0 THEN entries[1].offset ELSE entries[k].offset + entries[k].length,
   entries |-> {entries[j] : j \in 1 .. k}]

\* One more entry.
LEMMA RunStep ==
  ASSUME NEW n, NEW entries, RunOfEntries(entries, n), NEW k \in 1 .. n,
         NEW bytes, EntryIs(bytes, entries[k], TermBefore(entries, k), ExpectedAt(entries, k)),
         NEW data, NEW pos, Stands(bytes, data, pos)
  PROVE  DecodeDictEntry(ReadUpTo(entries, k - 1, pos), data)
           = ReadUpTo(entries, k, pos + Len(bytes))
<1> DEFINE e == entries[k]
           before == TermBefore(entries, k)
           expected == ExpectedAt(entries, k)
           sofar == {entries[j] : j \in 1 .. k - 1}
<1>1. e \in DictEntry /\ before \in Seq(Nat) /\ expected \in Nat /\ expected <= e.offset
  BY BeforeEntry
<1>2. EntryIs(bytes, e, before, expected)
  OBVIOUS
<1>3. n \in Nat /\ k \in Nat /\ k # 0
  BY DEF RunOfEntries
<1>4. ReadUpTo(entries, k - 1, pos)
        = [next |-> pos, term |-> before, expected |-> expected, entries |-> sofar]
  <2>1. k - 1 = 0 <=> k = 1
    BY <1>3
  <2>2. (IF k - 1 = 0 THEN <<>> ELSE entries[k - 1].term) = before
    BY <2>1 DEF TermBefore
  <2>3. (IF k - 1 = 0 THEN entries[1].offset ELSE entries[k - 1].offset + entries[k - 1].length)
          = expected
    BY <2>1 DEF ExpectedAt
  <2> HIDE DEF before, expected
  <2>4. QED BY <2>2, <2>3 DEF ReadUpTo
<1>5. ReadUpTo(entries, k, pos + Len(bytes))
        = [next |-> pos + Len(bytes), term |-> e.term, expected |-> e.offset + e.length,
           entries |-> sofar \cup {e}]
  <2>1. \A j : j \in 1 .. k <=> j \in 1 .. k - 1 \/ j = k
    BY <1>3
  <2>2. {entries[j] : j \in 1 .. k} = sofar \cup {e}
    BY <2>1
  <2> HIDE DEF sofar
  <2>3. QED BY <1>3, <2>2 DEF ReadUpTo
<1> HIDE DEF e, before, expected, sofar
<1>6. DecodeDictEntry([next |-> pos, term |-> before, expected |-> expected, entries |-> sofar], data)
        = [next |-> pos + Len(bytes), term |-> e.term, expected |-> e.offset + e.length,
           entries |-> sofar \cup {e}]
  <2>1. EntryIsRead(bytes, e, before, expected)
    BY <1>1, <1>2, EntryReads
  <2>2. QED BY <2>1 DEF EntryIsRead
<1>7. QED BY <1>4, <1>5, <1>6

RunFrom(run, data, n, pos, expected) ==
  run = FoldLeft(LAMBDA read, k : DecodeDictEntry(read, data),
                 [next |-> pos, term |-> <<>>, expected |-> expected, entries |-> {}],
                 [k \in 1 .. n |-> k])

\* All entries of a run.
LEMMA RunReads ==
  ASSUME NEW n, NEW entries, RunOfEntries(entries, n),
         NEW seqs \in [1 .. n -> Seq(Nat)], EntriesAre(seqs, entries, n),
         NEW data, NEW pos, Stands(FlattenSeq(seqs), data, pos),
         NEW run, RunFrom(run, data, n, pos, entries[1].offset)
  PROVE  run.entries = {entries[k] : k \in 1 .. n}
<1> DEFINE whole == FlattenSeq(seqs)
           empty == [next |-> pos, term |-> <<>>, expected |-> entries[1].offset, entries |-> {}]
<1>0. n \in Nat /\ n # 0
  BY DEF RunOfEntries
<1>1. PICK o : Laid(whole, seqs, n, o)
  BY <1>0, FlattenIsLaid
<1>2. /\ o \in [0 .. n -> Nat] /\ o[0] = 0
      /\ \A k \in 1 .. n : o[k] = o[k - 1] + Len(seqs[k])
      /\ \A k \in 1 .. n : Stands(seqs[k], whole, 1 + o[k - 1])
  BY <1>1 DEF Laid, StartsAt
<1>3. pos \in Nat \ {0} /\ Stands(whole, data, pos)
  BY DEF Stands
<1> HIDE DEF whole
<1> DEFINE next(read) == DecodeDictEntry(read, data)
           st == [k \in 0 .. n |-> ReadUpTo(entries, k, pos + o[k])]
<1>4. ASSUME NEW k \in 1 .. n PROVE next(st[k - 1]) = st[k]
  <2> DEFINE s == o[k - 1]
             p == pos + s
             bytes == seqs[k]
  <2>1. k - 1 \in 0 .. n /\ k \in 0 .. n /\ s \in Nat
    BY <1>0, <1>2
  <2>2. st[k - 1] = ReadUpTo(entries, k - 1, p) /\ st[k] = ReadUpTo(entries, k, pos + o[k])
    BY <2>1
  <2>3. EntryIs(bytes, entries[k], TermBefore(entries, k), ExpectedAt(entries, k))
    BY DEF EntriesAre
  <2>4. Stands(bytes, whole, 1 + s) /\ o[k] = s + Len(bytes) /\ o[k] \in Nat
    BY <1>2, <2>1
  <2> HIDE DEF s, bytes, st
  <2>5. Stands(bytes, data, p)
    <3>1. Stands(bytes, data, pos + (1 + s) - 1)
      BY <1>3, <2>4, StandsWithin
    <3>2. pos + (1 + s) - 1 = p
      BY <1>3, <2>1
    <3>3. QED BY <3>1, <3>2
  <2>6. p + Len(bytes) = pos + o[k]
    <3>1. Len(bytes) \in Nat
      BY <2>5 DEF Stands
    <3>2. QED BY <1>3, <2>1, <2>4, <3>1
  <2> HIDE DEF p
  <2>7. DecodeDictEntry(ReadUpTo(entries, k - 1, p), data) = ReadUpTo(entries, k, p + Len(bytes))
    BY <2>3, <2>5, RunStep
  <2>8. QED BY <2>2, <2>6, <2>7
<1>5. st[0] = empty
  <2>1. st[0] = ReadUpTo(entries, 0, pos + o[0])
    BY <1>0
  <2>2. pos + o[0] = pos
    BY <1>2, <1>3
  <2>3. {entries[j] : j \in 1 .. 0} = {}
    OBVIOUS
  <2> HIDE DEF st
  <2>4. QED BY <2>1, <2>2, <2>3 DEF ReadUpTo
<1>6. st[n].entries = {entries[k] : k \in 1 .. n}
  <2>1. st[n] = ReadUpTo(entries, n, pos + o[n])
    BY <1>0
  <2> HIDE DEF st
  <2>2. QED BY <2>1 DEF ReadUpTo
<1> DEFINE Solves(f) == f = [s \in SUBSET (1 .. n) |->
             IF s = {} THEN empty ELSE next(f[s \ {Max(s)}])]
           Iter == CHOOSE iter : Solves(iter)
           g == [P \in SUBSET (1 .. n) |-> st[Cardinality(P)]]
<1> HIDE DEF st
<1>7. Solves(g)
  <2> HIDE DEF empty
  <2>1. g[{}] = empty
    BY <1>5, FS_EmptySet
  <2>2. ASSUME NEW s \in SUBSET (1 .. n), s # {} PROVE g[s] = next(g[s \ {Max(s)}])
    <3>1. /\ Cardinality(s) \in 1 .. n /\ s \ {Max(s)} \in SUBSET (1 .. n)
          /\ Cardinality(s \ {Max(s)}) = Cardinality(s) - 1
      BY <1>0, <2>2, CountsDown
    <3>2. g[s \ {Max(s)}] = st[Cardinality(s) - 1] /\ g[s] = st[Cardinality(s)]
      BY <3>1
    <3> HIDE DEF g, next
    <3>3. QED BY <1>4, <3>1, <3>2
  <2>3. g = [s \in SUBSET (1 .. n) |-> g[s]]
    OBVIOUS
  <2> HIDE DEF g, next
  <2>4. QED BY <2>1, <2>2, <2>3
<1>8. run = Iter[1 .. n]
  <2>1. DOMAIN [k \in 1 .. n |-> k] = 1 .. n
    OBVIOUS
  <2>2. QED BY Zenon, <2>1 DEF RunFrom, FoldLeft, MapThenFoldSet
<1> HIDE DEF g
<1>9. Solves(Iter)
  <2> HIDE DEF Solves
  <2>1. QED BY <1>7
<1> HIDE DEF Iter
<1>10. Iter[{}] = st[0]
  <2> HIDE DEF next, empty
  <2>1. QED BY <1>5, <1>9
<1>11. ASSUME NEW k \in 1 .. n, NEW P \in SUBSET (1 .. n), P # {}, Iter[P \ {Max(P)}] = st[k - 1]
       PROVE  Iter[P] = st[k]
  <2> HIDE DEF next, empty
  <2>1. Iter[P] = next(Iter[P \ {Max(P)}])
    BY <1>9, <1>11
  <2>2. QED BY <1>4, <1>11, <2>1
<1>12. Iter[1 .. n] = st[n]
  <2> HIDE DEF Solves
  <2>1. Steady(Iter, st, n)
    BY <1>10, <1>11 DEF Steady
  <2>2. QED BY <1>0, <2>1, GoesAlong
<1>13. QED BY <1>6, <1>8, <1>12

\* A block of the dictionary, read alone, has every entry it was written with and
\* no other, whatever prefixes its terms share and whatever gaps lie between
\* their postings; so a term it holds is found with its own entry, and a term it
\* does not hold is not taken for one that shares its beginning.
THEOREM DictionaryReadsBack ==
  ASSUME NEW n, NEW entries, RunOfEntries(entries, n),
         \A i, j \in 1 .. n : entries[i].term = entries[j].term => i = j
  PROVE  LET read == DecodeDictBlock(EncodeDictBlock(entries)) IN
         /\ read = {entries[k] : k \in 1 .. n}
         /\ \A k \in 1 .. n : Named(read, entries[k].term) = entries[k]
         /\ \A term : (\A k \in 1 .. n : entries[k].term # term) => Named(read, term) = Nothing
<1> DEFINE bytes(k) ==
             LET e == entries[k]
                 previous == IF k = 1 THEN <<>> ELSE entries[k - 1].term
                 expected == IF k = 1 THEN e.offset
                             ELSE entries[k - 1].offset + entries[k - 1].length
                 shared == Shared(previous, e.term)
                 suffix == SubSeq(e.term, shared + 1, Len(e.term))
             IN EncodeVarints(<<shared, Len(suffix)>>) \o suffix
                  \o EncodeVarints(<<e.df, e.offset - expected, e.length>>)
           seqs == [k \in 1 .. n |-> bytes(k)]
           start == entries[1].offset
           two == <<n, start>>
           H == EncodeVarints(two)
           whole == FlattenSeq(seqs)
           data == EncodeDictBlock(entries)
           read == DecodeDictBlock(data)
<1>1. n \in Nat \ {0} /\ DOMAIN entries = 1 .. n /\ entries \in [1 .. n -> DictEntry]
  BY DEF RunOfEntries
<1>2. Len(entries) = n
  BY <1>1, LenIs
<1>3. data = H \o whole
  BY <1>1, <1>2 DEF EncodeDictBlock
<1>4. \A k \in 1 .. n : EntryIs(bytes(k), entries[k], TermBefore(entries, k), ExpectedAt(entries, k))
  BY DEF EntryIs, TermBefore, ExpectedAt
<1> HIDE DEF bytes
<1>5. seqs \in [1 .. n -> Seq(Nat)] /\ EntriesAre(seqs, entries, n)
  <2>1. ASSUME NEW k \in 1 .. n PROVE bytes(k) \in Seq(Nat)
    <3> DEFINE e == entries[k]
               before == TermBefore(entries, k)
               expected == ExpectedAt(entries, k)
               b == bytes(k)
    <3>1. /\ e \in DictEntry /\ before \in Seq(Nat) /\ expected \in Nat /\ expected <= e.offset
          /\ EntryIs(b, e, before, expected)
      BY <1>4, BeforeEntry
    <3> HIDE DEF e, before, expected, b
    <3>2. b \in Seq(Nat)
      BY <3>1, EntryReads
    <3>3. QED BY <3>2 DEF b
  <2>2. QED BY <1>4, <2>1 DEF EntriesAre
<1> HIDE DEF seqs, data
<1>6. whole \in Seq(Nat)
  BY <1>1, <1>5, FlattenIsLaid
<1>7. start \in Nat
  <2>1. 1 \in 1 .. n
    BY <1>1
  <2>2. QED BY <2>1, BeforeEntry
<1>8. two \in [1 .. 2 -> Nat] /\ two[1] = n /\ two[2] = start
  BY <1>1, <1>7
<1> HIDE DEF two, start
<1> DEFINE w == 2
<1>9. w \in Nat /\ two \in [1 .. w -> Nat]
  BY <1>8
<1> HIDE DEF w, whole
<1>10. H \in Seq(Nat)
  BY <1>9, VarintsAre
<1> DEFINE pos == 1 + Len(H)
           head == DecodeVarints(data, 2, 1)
<1>11. Stands(H, data, 1) /\ Stands(whole, data, pos)
  <2> HIDE DEF H
  <2>1. data \in Seq(Nat)
    BY <1>3, <1>6, <1>10
  <2>2. Stands(H \o whole, data, 1)
    BY <1>3, <2>1, StandsWhole
  <2>3. QED BY <1>6, <1>10, <2>2, StandsConcat
<1>12. head.values = two /\ head.next = pos
  <2>1. /\ DecodeVarints(data, w, 1).values = two
        /\ DecodeVarints(data, w, 1).next = 1 + Len(EncodeVarints(two))
    BY <1>9, <1>11, VarintsRead
  <2>2. QED BY <2>1 DEF w
<1> DEFINE run == FoldLeft(LAMBDA so, k : DecodeDictEntry(so, data),
                           [next |-> pos, term |-> <<>>, expected |-> start, entries |-> {}],
                           [k \in 1 .. n |-> k])
<1>13. read = run.entries
  <2>1. head.values[1] = n /\ head.values[2] = start /\ head.next = pos
    BY <1>8, <1>12
  <2>2. read = FoldLeft(LAMBDA so, k : DecodeDictEntry(so, data),
                        [next |-> head.next, term |-> <<>>, expected |-> head.values[2], entries |-> {}],
                        [k \in 1 .. head.values[1] |-> k]).entries
    BY DEF DecodeDictBlock
  <2> HIDE DEF head, pos, read
  <2>3. QED BY <2>1, <2>2
<1> HIDE DEF pos
<1>14. run.entries = {entries[k] : k \in 1 .. n}
  <2>1. RunFrom(run, data, n, pos, start)
    BY DEF RunFrom
  <2>2. Stands(FlattenSeq(seqs), data, pos)
    BY <1>11 DEF whole
  <2> HIDE DEF run
  <2>3. QED BY <1>5, <2>1, <2>2, RunReads DEF start
<1> HIDE DEF run, read
<1>15. read = {entries[k] : k \in 1 .. n}
  BY <1>13, <1>14
<1>16. ASSUME NEW k \in 1 .. n PROVE Named(read, entries[k].term) = entries[k]
  <2> DEFINE term == entries[k].term
             found == CHOOSE e \in read : e.term = term
  <2>1. entries[k] \in read /\ entries[k].term = term
    BY <1>15
  <2>2. found \in read /\ found.term = term
    BY <2>1
  <2>3. Named(read, term) = found
    BY <2>1 DEF Named
  <2> HIDE DEF found
  <2>4. PICK j \in 1 .. n : found = entries[j]
    BY <1>15, <2>2
  <2>5. j = k
    BY <2>2, <2>4
  <2>6. QED BY <2>3, <2>4, <2>5
<1>17. ASSUME NEW term, \A k \in 1 .. n : entries[k].term # term
       PROVE  Named(read, term) = Nothing
  BY <1>15, <1>17 DEF Named
<1>18. QED BY <1>15, <1>16, <1>17 DEF read, data
-----------------------------------------------------------------------------
(* The order of terms. *)

Word == Seq(Nat)

Alike(u, b, k) == \A i \in 1 .. k : u[i] = b[i]

\* Prefixes are compared element by element.
LEMMA PrefixIs ==
  ASSUME NEW u \in Word, NEW b \in Word, NEW k \in Nat, k <= Len(u), k <= Len(b)
  PROVE  SubSeq(u, 1, k) = SubSeq(b, 1, k) <=> Alike(u, b, k)
<1> DEFINE n == Len(u)
           m == Len(b)
<1>1. /\ n \in Nat /\ m \in Nat /\ u \in [1 .. n -> Nat] /\ b \in [1 .. m -> Nat]
      /\ k \in 0 .. n /\ k \in 0 .. m
  BY DEF Word
<1> HIDE DEF n, m
<1>2. SubSeq(u, 1, k) = First(u, k) /\ First(u, k) \in [1 .. k -> Nat]
  BY Zenon, <1>1, FirstIs
<1>3. SubSeq(b, 1, k) = First(b, k) /\ First(b, k) \in [1 .. k -> Nat]
  BY Zenon, <1>1, FirstIs
<1>4. ASSUME Alike(u, b, k) PROVE First(u, k) = First(b, k)
  BY <1>4 DEF First, Alike
<1>5. ASSUME First(u, k) = First(b, k) PROVE Alike(u, b, k)
  <2>1. \A i \in 1 .. k : First(u, k)[i] = u[i] /\ First(b, k)[i] = b[i]
    BY DEF First
  <2>2. QED BY <1>5, <2>1 DEF Alike
<1>6. QED BY <1>2, <1>3, <1>4, <1>5

\* What decides that a term comes before another.
Decides(u, b, k) ==
  /\ k \in Nat /\ k <= Len(u) /\ k < Len(b) /\ Alike(u, b, k)
  /\ k < Len(u) => u[k + 1] < b[k + 1]

LEMMA BeforeIs ==
  ASSUME NEW u \in Word, NEW b \in Word
  PROVE  Before(u, b) <=> \E k : Decides(u, b, k)
<1>1. /\ Len(u) \in Nat /\ Len(b) \in Nat
      /\ \A k : k \in 0 .. Smaller(Len(u), Len(b)) <=> k \in Nat /\ k <= Len(u) /\ k <= Len(b)
  BY DEF Word, Smaller
<1>2. ASSUME NEW k \in Nat, k <= Len(u), k <= Len(b)
      PROVE  SubSeq(u, 1, k) = SubSeq(b, 1, k) <=> Alike(u, b, k)
  BY <1>2, PrefixIs
<1>3. \A k \in Nat : k < Len(b) => k <= Len(b)
  BY <1>1
<1>4. QED BY <1>1, <1>2, <1>3 DEF Before, Decides

\* No term comes before itself.
LEMMA NotBeforeItself ==
  ASSUME NEW u \in Word
  PROVE  ~Before(u, u)
<1>1. SUFFICES ASSUME NEW k, Decides(u, u, k) PROVE FALSE
  BY BeforeIs
<1>2. k \in Nat /\ k < Len(u) /\ u[k + 1] < u[k + 1]
  BY <1>1 DEF Decides
<1>3. Len(u) \in Nat /\ u \in [1 .. Len(u) -> Nat]
  BY DEF Word
<1>4. k + 1 \in 1 .. Len(u)
  BY <1>2, <1>3
<1>5. u[k + 1] \in Nat
  BY <1>3, <1>4
<1>6. QED BY <1>2, <1>5

\* The order is transitive.
LEMMA BeforeAll ==
  ASSUME NEW u \in Word, NEW b \in Word, NEW d \in Word, Before(u, b), Before(b, d)
  PROVE  Before(u, d)
<1>1. PICK k : Decides(u, b, k)
  BY BeforeIs
<1>2. PICK l : Decides(b, d, l)
  BY BeforeIs
<1> DEFINE p == Len(u)
           q == Len(b)
           r == Len(d)
           x == IF k <= l THEN k ELSE l
<1>3. /\ p \in Nat /\ q \in Nat /\ r \in Nat
      /\ u \in [1 .. p -> Nat] /\ b \in [1 .. q -> Nat] /\ d \in [1 .. r -> Nat]
  BY DEF Word
<1>4. /\ k \in Nat /\ k <= p /\ k < q /\ \A i \in 1 .. k : u[i] = b[i]
      /\ (k < p => u[k + 1] < b[k + 1])
  BY <1>1 DEF Decides, Alike
<1>5. /\ l \in Nat /\ l <= q /\ l < r /\ \A i \in 1 .. l : b[i] = d[i]
      /\ (l < q => b[l + 1] < d[l + 1])
  BY <1>2 DEF Decides, Alike
<1> HIDE DEF p, q, r
<1>6. x \in Nat /\ x <= p /\ x < r /\ \A i \in 1 .. x : i \in 1 .. k /\ i \in 1 .. l
  BY <1>3, <1>4, <1>5
<1>7. \A i \in 1 .. x : u[i] = d[i]
  BY <1>4, <1>5, <1>6
<1>8. x < p => u[x + 1] < d[x + 1]
  <2> SUFFICES ASSUME x < p PROVE u[x + 1] < d[x + 1]
    OBVIOUS
  <2>1. CASE k < l
    <3>1. x = k /\ k + 1 \in 1 .. l
      BY <1>4, <1>5, <2>1
    <3>2. QED BY <1>4, <1>5, <3>1
  <2>2. CASE k = l
    <3>1. x = k /\ k < q /\ k + 1 \in 1 .. p /\ k + 1 \in 1 .. q /\ k + 1 \in 1 .. r
      BY <1>3, <1>4, <1>5, <2>2
    <3>2. u[k + 1] \in Nat /\ b[k + 1] \in Nat /\ d[k + 1] \in Nat
      BY <1>3, <3>1
    <3>3. u[k + 1] < b[k + 1] /\ b[k + 1] < d[k + 1]
      BY <1>4, <1>5, <2>2, <3>1
    <3>4. QED BY <3>1, <3>2, <3>3
  <2>3. CASE l < k
    <3>1. x = l /\ l + 1 \in 1 .. k /\ l < q
      BY <1>3, <1>4, <1>5, <2>3
    <3>2. QED BY <1>4, <1>5, <3>1
  <2>4. QED BY <1>4, <1>5, <2>1, <2>2, <2>3
<1>9. Decides(u, d, x)
  BY <1>6, <1>7, <1>8 DEF Decides, Alike, p, r
<1>10. QED BY <1>9, BeforeIs

\* And of two terms one comes first.
LEMMA BeforeOrAfter ==
  ASSUME NEW u \in Word, NEW b \in Word
  PROVE  u = b \/ Before(u, b) \/ Before(b, u)
<1> DEFINE k == Shared(u, b)
           p == Len(u)
           q == Len(b)
<1>1. k \in 0 .. p /\ k \in 0 .. q /\ (k < p /\ k < q => u[k + 1] # b[k + 1])
  BY SharedIs DEF Word
<1>2. p \in Nat /\ q \in Nat /\ u \in [1 .. p -> Nat] /\ b \in [1 .. q -> Nat]
  BY DEF Word
<1>3. Alike(u, b, k)
  <2>1. SubSeq(u, 1, k) = SubSeq(b, 1, k)
    BY SharedIs DEF Word
  <2> HIDE DEF k
  <2>2. k \in Nat /\ k <= Len(u) /\ k <= Len(b)
    BY <1>1, <1>2
  <2>3. QED BY <2>1, <2>2, PrefixIs
<1> HIDE DEF k
<1>4. Alike(b, u, k)
  BY <1>3 DEF Alike
<1>5. CASE k < p /\ k < q
  <2>1. k + 1 \in 1 .. p /\ k + 1 \in 1 .. q /\ k \in Nat
    BY <1>1, <1>2, <1>5
  <2>2. u[k + 1] \in Nat /\ b[k + 1] \in Nat /\ u[k + 1] # b[k + 1]
    BY <1>1, <1>2, <1>5, <2>1
  <2>3. u[k + 1] < b[k + 1] \/ b[k + 1] < u[k + 1]
    BY <2>2
  <2>4. Decides(u, b, k) \/ Decides(b, u, k)
    BY <1>1, <1>2, <1>3, <1>4, <1>5, <2>1, <2>3 DEF Decides
  <2>5. QED BY <2>4, BeforeIs
<1>6. CASE k = p /\ k < q
  <2>1. Decides(u, b, k)
    BY <1>1, <1>2, <1>3, <1>6 DEF Decides
  <2>2. QED BY <2>1, BeforeIs
<1>7. CASE k < p /\ k = q
  <2>1. Decides(b, u, k)
    BY <1>1, <1>2, <1>4, <1>7 DEF Decides
  <2>2. QED BY <2>1, BeforeIs
<1>8. CASE k = p /\ k = q
  <2> HIDE DEF p, q
  <2>1. \A i \in 1 .. p : u[i] = b[i]
    BY <1>3, <1>8 DEF Alike
  <2>2. u = [i \in 1 .. p |-> u[i]] /\ b = [i \in 1 .. p |-> b[i]]
    BY <1>2, <1>8
  <2>3. u = b
    BY <2>1, <2>2
  <2>4. QED BY <2>3
<1>9. \/ k < p /\ k < q
      \/ k = p /\ k < q
      \/ k < p /\ k = q
      \/ k = p /\ k = q
  <2> HIDE DEF p, q
  <2>1. QED BY <1>1, <1>2
<1>10. QED BY Zenon, <1>5, <1>6, <1>7, <1>8, <1>9

\* Some terms in order: all of them, each once.
TermList(terms, f, n) ==
  /\ n \in Nat /\ f \in [1 .. n -> terms]
  /\ \A i, j \in 1 .. n : i < j => Before(f[i], f[j])
  /\ \A t \in terms : \E i \in 1 .. n : f[i] = t

LEMMA TermsAreSorted ==
  ASSUME NEW terms \in SUBSET Word, IsFiniteSet(terms)
  PROVE  TermList(terms, SortedTerms(terms), Cardinality(terms))
<1> DEFINE Under(t) == {u \in terms : Before(u, t)}
           key == [t \in terms |-> Cardinality(Under(t))]
           n == Cardinality(terms)
           f == SortedTerms(terms)
<1>1. \A t \in terms : Under(t) \in SUBSET terms /\ IsFiniteSet(Under(t)) /\ key[t] \in Nat
  BY FS_Subset, FS_CardinalityType
<1>2. ASSUME NEW t \in terms, NEW u \in terms, Before(t, u) PROVE key[t] < key[u]
  <2>1. Under(t) \subseteq Under(u)
    BY <1>2, BeforeAll
  <2>2. t \in Under(u) /\ t \notin Under(t)
    BY <1>2, NotBeforeItself
  <2> DEFINE T == Under(t)
             U == Under(u)
  <2>3. /\ IsFiniteSet(T) /\ IsFiniteSet(U) /\ T \subseteq U /\ T # U
        /\ key[t] = Cardinality(T) /\ key[u] = Cardinality(U)
    BY <1>1, <2>1, <2>2
  <2> HIDE DEF T, U, key
  <2>4. Cardinality(T) < Cardinality(U)
    <3>1. Cardinality(T) \in Nat /\ Cardinality(U) \in Nat
      BY <2>3, FS_CardinalityType
    <3>2. Cardinality(T) <= Cardinality(U) /\ (Cardinality(T) = Cardinality(U) => T = U)
      BY <2>3, FS_Subset
    <3>3. QED BY <2>3, <3>1, <3>2
  <2>5. QED BY <2>3, <2>4
<1>3. IsKey(key) /\ DOMAIN key = terms
  <2>1. ASSUME NEW t \in terms, NEW u \in terms, key[t] = key[u] PROVE t = u
    <3>1. ~(key[t] < key[u]) /\ ~(key[u] < key[t])
      <4> DEFINE x == key[t]
                 y == key[u]
      <4>1. x \in Nat /\ y \in Nat /\ x = y
        BY <1>1, <2>1
      <4> HIDE DEF x, y
      <4>2. ~(x < y) /\ ~(y < x)
        BY <4>1
      <4>3. QED BY <4>2 DEF x, y
    <3> HIDE DEF key
    <3>2. ~Before(t, u) /\ ~Before(u, t)
      BY <1>2, <3>1
    <3>3. QED BY <3>2, BeforeOrAfter
  <2>2. DOMAIN key = terms /\ \A t \in terms : key[t] \in Int
    BY <1>1
  <2> HIDE DEF key
  <2>3. QED BY <2>1, <2>2 DEF IsKey
<1>4. f = Sorted(key)
  BY DEF SortedTerms, SortedBy
<1> HIDE DEF key, f
<1>5. n \in Nat /\ Sorts(f, n, key)
  BY <1>3, <1>4, SortedSorts
<1>6. ASSUME NEW i \in 1 .. n, NEW j \in 1 .. n, i < j PROVE Before(f[i], f[j])
  <2>1. f[i] \in terms /\ f[j] \in terms /\ key[f[i]] < key[f[j]]
    BY <1>3, <1>5, <1>6 DEF Sorts
  <2>2. key[f[i]] \in Int /\ key[f[j]] \in Int
    BY <1>3, <2>1 DEF IsKey
  <2>3. f[i] # f[j]
    BY <2>1, <2>2
  <2>4. ~Before(f[j], f[i])
    <3>1. ~(key[f[j]] < key[f[i]])
      BY <2>1, <2>2
    <3>2. QED BY <1>2, <2>1, <3>1
  <2>5. QED BY <2>1, <2>3, <2>4, BeforeOrAfter
<1>7. QED BY <1>3, <1>5, <1>6 DEF TermList, Sorts, f, n
-----------------------------------------------------------------------------
(* Sequences cut into pieces of a size. *)

\* Pieces of seq, each from where the one before ended.
Pieces(pieces, seq, at, m, n, size) ==
  /\ Cuts(at, m, n) /\ pieces = Parts(seq, at, m)
  /\ \A k \in 1 .. m : at[k - 1] = (k - 1) * size

LEMMA ChunksAre ==
  ASSUME NEW S, NEW n \in Nat, NEW seq \in [1 .. n -> S], NEW size \in Nat \ {0}
  PROVE  \E m, at : Pieces(Chunks(seq, size), seq, at, m, n, size)
<1> DEFINE m == CountOf(n, size)
           at == CutEvery(n, size)
           chunks == Chunks(seq, size)
<1>1. Len(seq) = n
  BY LenIs
<1>2. chunks = [k \in 1 .. m |->
                  Slice(seq, (k - 1) * size + 1, Smaller(size, n - (k - 1) * size))]
  BY Zenon, <1>1 DEF Chunks, CountOf
<1>3. CASE n = 0
  <2>1. m = 0
    <3>1. (n + size - 1) = size - 1 /\ size - 1 \in 0 .. size - 1
      BY <1>3
    <3>2. \A x \in 0 .. size - 1 : x \div size = 0
      OBVIOUS
    <3>3. (n + size - 1) \div size = 0
      BY <3>1, <3>2
    <3>4. QED BY <3>3 DEF CountOf
  <2>2. at = [b \in 0 .. 0 |-> IF b < 0 THEN b * size ELSE 0]
    BY <1>3, <2>1 DEF CutEvery
  <2>3. at \in [0 .. 0 -> Nat] /\ at[0] = 0
    BY <2>2
  <2> HIDE DEF m, at, chunks
  <2>4. Cuts(at, 0, 0)
    BY <2>3 DEF Cuts
  <2>5. chunks = Parts(seq, at, 0)
    BY <1>2, <2>1 DEF Parts
  <2>6. Pieces(chunks, seq, at, 0, n, size)
    BY <1>3, <2>4, <2>5 DEF Pieces
  <2>7. QED BY <2>6 DEF chunks
<1>4. CASE n # 0
  <2>1. Cuts(at, m, n) /\ EvenAt(at, m, n, size)
    BY <1>4, EveryCut
  <2> HIDE DEF m, at, chunks
  <2>2. ASSUME NEW k \in 1 .. m
        PROVE  /\ at[k - 1] = (k - 1) * size
               /\ Slice(seq, (k - 1) * size + 1, Smaller(size, n - (k - 1) * size)) = Part(seq, at, k)
    <3>1. (k - 1) * size = at[k - 1] /\ Smaller(size, n - at[k - 1]) = at[k] - at[k - 1]
      BY <2>1 DEF EvenAt
    <3>2. IsPart(seq, at, k, n, S)
      BY Zenon, <2>1, PartOf
    <3>3. Slice(seq, at[k - 1] + 1, at[k] - at[k - 1]) = Part(seq, at, k)
      BY <3>2 DEF SlicedAt, IsPart
    <3>4. QED BY Zenon, <3>1, <3>3
  <2>3. chunks = Parts(seq, at, m)
    BY <1>2, <2>2 DEF Parts
  <2>4. Pieces(chunks, seq, at, m, n, size)
    BY <2>1, <2>2, <2>3 DEF Pieces
  <2>5. QED BY <2>4 DEF chunks
<1>5. QED BY <1>3, <1>4

\* What a piece is.
IsPiece(piece, seq, from, to, n, S) ==
  /\ from \in Nat /\ to \in Nat /\ to <= n /\ n \in Nat
  /\ Len(piece) = to - from /\ Len(piece) \in Nat \ {0}
  /\ piece \in [1 .. Len(piece) -> S] /\ piece \in Seq(S)
  /\ \A i \in 1 .. Len(piece) : from + i \in 1 .. n /\ piece[i] = seq[from + i]

LEMMA PieceIs ==
  ASSUME NEW S, NEW n, NEW seq \in [1 .. n -> S], NEW size, NEW pieces, NEW m, NEW at,
         Pieces(pieces, seq, at, m, n, size), NEW k \in 1 .. m
  PROVE  IsPiece(pieces[k], seq, at[k - 1], at[k], n, S)
<1> DEFINE from == at[k - 1]
           count == at[k] - at[k - 1]
           part == Part(seq, at, k)
<1>1. Cuts(at, m, n) /\ pieces[k] = part /\ IsPart(seq, at, k, n, S)
  <2>1. Cuts(at, m, n) /\ pieces[k] = part
    BY DEF Pieces, Parts
  <2>2. IsPart(seq, at, k, n, S)
    BY Zenon, <2>1, PartOf
  <2>3. QED BY <2>1, <2>2
<1>2. /\ count \in Nat \ {0} /\ from \in Nat /\ at[k] \in Nat /\ n \in Nat
      /\ part \in [1 .. count -> S]
  BY <1>1 DEF IsPart
<1>3. at[k] <= n /\ from + count = at[k]
  <2>1. at[k] <= n
    BY <1>1 DEF Cuts
  <2>2. QED BY <1>2, <2>1
<1>4. \A i \in 1 .. count : part[i] = seq[from + i]
  BY DEF Part
<1> HIDE DEF from, part
<1>5. part \in Seq(S) /\ Len(part) = count
  <2> HIDE DEF count
  <2>1. QED BY <1>2, LenIs
<1>6. \A i \in 1 .. count : from + i \in 1 .. n
  <2> HIDE DEF count
  <2>1. QED BY <1>2, <1>3
<1>7. QED BY <1>1, <1>2, <1>3, <1>4, <1>5, <1>6 DEF from, IsPiece

\* Cuts in order: a position is beyond the start of its piece and of those
\* before it only.
LEMMA CutBefore ==
  ASSUME NEW at, NEW m, NEW n, Cuts(at, m, n), NEW i \in 1 .. n
  PROVE  \E b \in 1 .. m : /\ at[b - 1] < i /\ i <= at[b]
                           /\ \A k \in 1 .. m : at[k - 1] < i <=> k <= b
<1>1. PICK b \in 1 .. m : at[b - 1] < i /\ i <= at[b]
  BY Covers
<1>2. m \in Nat /\ n \in Nat /\ at \in [0 .. m -> Nat]
  BY DEF Cuts
<1>3. ASSUME NEW k \in 1 .. m PROVE at[k - 1] < i <=> k <= b
  <2>1. k - 1 \in 0 .. m /\ b - 1 \in 0 .. m /\ b \in 0 .. m
    BY <1>2
  <2>2. at[k - 1] \in Nat /\ at[b - 1] \in Nat /\ at[b] \in Nat
    BY <1>2, <2>1
  <2>3. CASE k <= b
    <3>1. k - 1 = b - 1 \/ k - 1 < b - 1
      BY <1>2, <2>3
    <3>2. at[k - 1] <= at[b - 1]
      <4>1. k - 1 < b - 1 => at[k - 1] < at[b - 1]
        BY <2>1, CutsGrow DEF UpwardsIn
      <4>2. QED BY <2>2, <3>1, <4>1
    <3>3. QED BY <1>1, <2>2, <2>3, <3>2
  <2>4. CASE ~(k <= b)
    <3>1. b = k - 1 \/ b < k - 1
      BY <1>2, <2>4
    <3>2. at[b] <= at[k - 1]
      <4>1. b < k - 1 => at[b] < at[k - 1]
        BY <2>1, CutsGrow DEF UpwardsIn
      <4>2. QED BY <2>2, <3>1, <4>1
    <3>3. QED BY <1>1, <2>2, <2>4, <3>2
  <2>5. QED BY <2>3, <2>4
<1>4. QED BY <1>1, <1>3

\* As many as there are up to a number.
LEMMA CountUpTo ==
  ASSUME NEW m \in Nat, NEW b \in 0 .. m, NEW T \in SUBSET (1 .. m), \A k \in 1 .. m : k \in T <=> k <= b
  PROVE  Cardinality(T) = b
<1>1. T = 1 .. b
  <2>1. \A k : k \in 1 .. b <=> k \in 1 .. m /\ k <= b
    OBVIOUS
  <2>2. \A k : k \in T <=> k \in 1 .. b
    BY <2>1
  <2>3. QED BY Zenon, <2>2
<1>2. b \in Nat /\ Cardinality(1 .. b) = b
  <2>1. b \in Nat /\ 1 \in Int /\ b \in Int
    OBVIOUS
  <2>2. Cardinality(1 .. b) = IF 1 > b THEN 0 ELSE b - 1 + 1
    BY <2>1, FS_Interval
  <2>3. QED BY <2>1, <2>2
<1>3. QED BY <1>1, <1>2
-----------------------------------------------------------------------------
(* Ranges of an object. *)

\* A part is what a range of its length gets from where it stands.
LEMMA RangeGets ==
  ASSUME NEW S, NEW part \in Seq(S), NEW object, NEW offset \in Nat,
         Stands(part, object, offset + 1)
  PROVE  GetRange(object, offset, Len(part)) = part
<1> DEFINE n == Len(part)
           pos == offset + 1
<1>1. n \in Nat /\ pos + n - 1 = offset + n
  OBVIOUS
<1>2. Slice(object, pos, n) = part
  <2> HIDE DEF pos
  <2>1. QED BY SliceStands DEF pos
<1>3. GetRange(object, offset, n) = Slice(object, pos, n)
  <2> HIDE DEF n
  <2>1. QED BY <1>1 DEF GetRange, Slice
<1>4. QED BY <1>2, <1>3

\* Where the pieces of a whole start.
LEMMA OffsetsAre ==
  ASSUME NEW S, NEW n \in Nat, NEW seqs \in [1 .. n -> Seq(S)],
         NEW o, StartsAt(o, seqs, n), NEW base \in Nat
  PROVE  \A k \in 1 .. n : Offsets(seqs, base)[k] = base + o[k - 1] /\ o[k - 1] \in Nat
<1> SUFFICES ASSUME NEW k \in 1 .. n
             PROVE  Offsets(seqs, base)[k] = base + o[k - 1] /\ o[k - 1] \in Nat
  OBVIOUS
<1> DEFINE m == k - 1
           sizes == [j \in 1 .. m |-> Len(seqs[j])]
           u == [i \in 0 .. m |-> o[i]]
<1>1. m \in Nat /\ m \in 0 .. n /\ m \in 0 .. m /\ 0 \in 0 .. m
  OBVIOUS
<1>2. Offsets(seqs, base)[k] = base + SumOf(sizes)
  BY DEF Offsets
<1>3. /\ \A i \in 0 .. n : o[i] \in Nat
      /\ o[0] = 0 /\ \A j \in 1 .. n : o[j] = o[j - 1] + Len(seqs[j])
  BY DEF StartsAt
<1>4. \A j \in 1 .. m : j \in 1 .. n /\ j \in 0 .. m /\ j - 1 \in 0 .. m
  BY <1>1
<1>5. \A i \in 0 .. m : i \in 0 .. n /\ u[i] = o[i]
  BY <1>1
<1>6. sizes \in [1 .. m -> Int] /\ \A j \in 1 .. m : sizes[j] = Len(seqs[j])
  <2>1. \A j \in 1 .. m : seqs[j] \in Seq(S)
    BY <1>4
  <2>2. \A j \in 1 .. m : Len(seqs[j]) \in Int
    BY <2>1
  <2> HIDE DEF m
  <2>3. QED BY <2>2
<1>7. u \in [0 .. m -> Int]
  BY <1>3, <1>5
<1> HIDE DEF u, sizes, m
<1>8. Sums(u, sizes, m)
  <2>1. u[0] = 0
    BY <1>1, <1>3, <1>5
  <2>2. \A j \in 1 .. m : u[j] = u[j - 1] + sizes[j]
    BY <1>3, <1>4, <1>5, <1>6
  <2>3. QED BY <1>7, <2>1, <2>2 DEF Sums
<1>9. SumOf(sizes) = u[m]
  BY <1>1, <1>6, <1>8, SumIs
<1>10. u[m] = o[m] /\ o[m] \in Nat
  BY <1>1, <1>3, <1>5
<1>11. QED BY <1>2, <1>9, <1>10 DEF m

\* The pieces of a whole are what ranges of it get.
Ranged(pieces, m, object, base) ==
  \A k \in 1 .. m : /\ Offsets(pieces, base)[k] \in Nat /\ Len(pieces[k]) \in Nat
                    /\ GetRange(object, Offsets(pieces, base)[k], Len(pieces[k])) = pieces[k]

LEMMA PiecesRanged ==
  ASSUME NEW S, NEW m \in Nat, NEW pieces \in [1 .. m -> Seq(S)], NEW object, NEW base \in Nat,
         Stands(FlattenSeq(pieces), object, base + 1)
  PROVE  Ranged(pieces, m, object, base)
<1> DEFINE whole == FlattenSeq(pieces)
<1>1. PICK o : Laid(whole, pieces, m, o)
  BY FlattenIsLaid
<1>2. StartsAt(o, pieces, m) /\ \A k \in 1 .. m : Stands(pieces[k], whole, 1 + o[k - 1])
  BY <1>1 DEF Laid
<1>3. Stands(whole, object, base + 1)
  OBVIOUS
<1> HIDE DEF whole
<1>0. \A k \in 1 .. m : Offsets(pieces, base)[k] = base + o[k - 1] /\ o[k - 1] \in Nat
  BY Zenon, <1>2, OffsetsAre
<1>4. ASSUME NEW k \in 1 .. m
      PROVE  /\ Offsets(pieces, base)[k] \in Nat /\ Len(pieces[k]) \in Nat
             /\ GetRange(object, Offsets(pieces, base)[k], Len(pieces[k])) = pieces[k]
  <2> DEFINE at == o[k - 1]
             offset == Offsets(pieces, base)[k]
             part == pieces[k]
  <2>1. offset = base + at /\ at \in Nat
    BY <1>0
  <2>2. Stands(part, whole, 1 + at) /\ part \in Seq(S)
    BY <1>2
  <2> HIDE DEF at, offset, part
  <2>3. Stands(part, object, (base + 1) + (1 + at) - 1)
    BY <1>3, <2>2, StandsWithin
  <2>4. (base + 1) + (1 + at) - 1 = offset + 1 /\ offset \in Nat
    BY <2>1
  <2>5. Stands(part, object, offset + 1)
    BY <2>3, <2>4
  <2>6. GetRange(object, offset, Len(part)) = part
    BY <2>2, <2>4, <2>5, RangeGets
  <2>7. Len(part) \in Nat
    BY <2>5 DEF Stands
  <2>8. QED BY <2>4, <2>6, <2>7 DEF offset, part
<1>5. QED BY <1>4 DEF Ranged
-----------------------------------------------------------------------------
(* The footer. *)

\* An object as write_segment() lays it out, up to where its footer says so.
EndsAs(object, at, index, body, hot) ==
  /\ object[at + 1] = Magic /\ object[at + FooterSize] = Magic /\ object[at + 2] = Version
  /\ object[at + 3] = Len(body) /\ object[at + 4] = Len(hot)
  /\ object[at + 5] = Len(index.docs) /\ object[at + 8] = SumOf(index.lengths)
  /\ <<object[at + 9], object[at + 10]>> = TimeRange(index.docs)

LaidOut(object, index, body, hot) ==
  /\ Stands(body, object, 1) /\ Stands(hot, object, Len(body) + 1)
  /\ Len(object) = Len(body) + Len(hot) + FooterSize
  /\ EndsAs(object, Len(body) + Len(hot), index, body, hot)

\* There are two times in a range.
LEMMA TwoTimes ==
  ASSUME NEW docs
  PROVE  \E from, to : TimeRange(docs) = <<from, to>>
<1> DEFINE times == {docs[i].ts : i \in {j \in DOMAIN docs : docs[j].ts # NoTime}}
<1>1. TimeRange(docs) = IF times = {} THEN <<0, 0>>
                        ELSE <<CHOOSE t \in times : \A u \in times : t <= u,
                               CHOOSE t \in times : \A u \in times : u <= t>>
  BY DEF TimeRange
<1> HIDE DEF times
<1>2. QED BY Zenon, <1>1

\* The cells of a sequence after another, and what stands in the first.
LEMMA ThenIs ==
  ASSUME NEW S, NEW x \in Seq(S), NEW y \in Seq(S), NEW xy, xy = x \o y
  PROVE  xy \in Seq(S) /\ Concatenates(x, y, xy) /\ Stands(x, xy, 1) /\ Stands(y, xy, Len(x) + 1)
<1>1. xy \in Seq(S)
  BY ConcatProperties
<1>2. Concatenates(x, y, xy)
  BY ConcatIs
<1>3. Stands(x \o y, xy, 1)
  BY <1>1, StandsWhole
<1>4. Len(x) \in Nat /\ Stands(x, xy, 1) /\ Stands(y, xy, 1 + Len(x))
  BY <1>3, StandsConcat
<1>5. 1 + Len(x) = Len(x) + 1
  BY <1>4
<1>6. QED BY <1>1, <1>2, <1>4, <1>5

LEMMA FooterIs ==
  ASSUME NEW S, NEW body \in Seq(S), NEW hot \in Seq(S), NEW index
  PROVE  LaidOut(WithFooter(index, body, hot), index, body, hot)
<1> DEFINE b == Len(body)
           h == Len(hot)
           d == Len(index.docs)
           terms == Cardinality(DOMAIN index.lists)
           postings == MapThenSumSet(LAMBDA t : Len(index.lists[t].ids), DOMAIN index.lists)
           length == SumOf(index.lengths)
           F == <<Magic, Version, b, h, d, terms, postings, length>>
           times == TimeRange(index.docs)
           one == <<Magic>>
           x == body \o hot
           y == x \o F
           z == y \o times
           object == WithFooter(index, body, hot)
<1>1. PICK from, to : times = <<from, to>>
  BY TwoTimes
<1>2. object = z \o one
  BY DEF WithFooter
<1> DEFINE A == S \cup {Magic, Version, b, h, d, terms, postings, length, from, to}
<1>3. b \in Nat /\ h \in Nat
  OBVIOUS
<1>4. body \in Seq(A) /\ hot \in Seq(A)
  <2>1. S \subseteq A
    OBVIOUS
  <2> HIDE DEF A
  <2>2. QED BY <2>1
<1> HIDE DEF b, h, d, terms, postings, length, times
<1>5. /\ F \in Seq(A) /\ Len(F) = 8
      /\ F[1] = Magic /\ F[2] = Version /\ F[3] = b /\ F[4] = h /\ F[5] = d /\ F[8] = length
      /\ times \in Seq(A) /\ Len(times) = 2 /\ times = <<times[1], times[2]>>
      /\ one \in Seq(A) /\ Len(one) = 1 /\ one[1] = Magic
  BY <1>1
<1> HIDE DEF F, one, A, object, x, y, z
<1>6. x \in Seq(A) /\ Concatenates(body, hot, x) /\ Stands(body, x, 1) /\ Stands(hot, x, b + 1)
  BY <1>4, ThenIs DEF x, b
<1>7. y \in Seq(A) /\ Concatenates(x, F, y) /\ Stands(x, y, 1)
  BY <1>5, <1>6, ThenIs DEF y
<1>8. z \in Seq(A) /\ Concatenates(y, times, z) /\ Stands(y, z, 1)
  BY <1>5, <1>7, ThenIs DEF z
<1>9. Concatenates(z, one, object) /\ Stands(z, object, 1)
  BY <1>2, <1>5, <1>8, ThenIs
<1>10. Stands(x, object, 1)
  <2>1. 1 + 1 - 1 = 1
    OBVIOUS
  <2>2. Stands(x, z, 1 + 1 - 1)
    BY <1>7, <1>8, StandsWithin
  <2>3. Stands(x, object, 1 + 1 - 1)
    BY <1>9, <2>1, <2>2, StandsWithin
  <2>4. QED BY <2>1, <2>3
<1>11. Stands(body, object, 1) /\ Stands(hot, object, b + 1)
  <2>1. 1 + 1 - 1 = 1 /\ 1 + (b + 1) - 1 = b + 1
    BY <1>3
  <2>2. Stands(body, object, 1 + 1 - 1) /\ Stands(hot, object, 1 + (b + 1) - 1)
    BY <1>6, <1>10, StandsWithin
  <2>3. QED BY <2>1, <2>2
<1>12. Len(x) = b + h
  BY <1>6 DEF Concatenates, b, h
<1>13. Len(y) = b + h + 8 /\ \A i \in 1 .. 8 : y[b + h + i] = F[i]
  BY <1>3, <1>5, <1>7, <1>12 DEF Concatenates
<1>14. /\ Len(z) = b + h + 10 /\ \A i \in 1 .. b + h + 8 : z[i] = y[i]
       /\ z[b + h + 9] = times[1] /\ z[b + h + 10] = times[2]
  <2>1. /\ Len(z) = b + h + 8 + 2 /\ \A i \in 1 .. b + h + 8 : z[i] = y[i]
        /\ \A i \in 1 .. 2 : z[b + h + 8 + i] = times[i]
    BY <1>5, <1>8, <1>13 DEF Concatenates
  <2>2. b + h + 8 + 2 = b + h + 10 /\ b + h + 8 + 1 = b + h + 9
    BY <1>3
  <2>3. QED BY <2>1, <2>2
<1>15. /\ Len(object) = b + h + 11 /\ \A i \in 1 .. b + h + 10 : object[i] = z[i]
       /\ object[b + h + 10 + 1] = Magic
  <2>1. /\ Len(object) = b + h + 10 + 1 /\ \A i \in 1 .. b + h + 10 : object[i] = z[i]
        /\ \A i \in 1 .. 1 : object[b + h + 10 + i] = one[i]
    BY <1>5, <1>9, <1>14 DEF Concatenates
  <2>2. b + h + 10 + 1 = b + h + 11
    BY <1>3
  <2>3. QED BY <1>5, <2>1, <2>2
<1>16. ASSUME NEW i \in 1 .. 8 PROVE object[b + h + i] = F[i]
  <2>1. b + h + i \in 1 .. b + h + 8 /\ b + h + i \in 1 .. b + h + 10
    BY <1>3
  <2>2. object[b + h + i] = z[b + h + i] /\ z[b + h + i] = y[b + h + i]
    BY <1>14, <1>15, <2>1
  <2>3. QED BY <1>13, <2>2
<1>17. b + h + 10 + 1 = b + h + 11
  BY <1>3
<1>18. EndsAs(object, b + h, index, body, hot)
  <2>1. /\ object[b + h + 1] = Magic /\ object[b + h + 2] = Version
        /\ object[b + h + 3] = b /\ object[b + h + 4] = h /\ object[b + h + 5] = d
        /\ object[b + h + 8] = length
    BY <1>5, <1>16
  <2>2. object[b + h + 11] = Magic
    BY <1>15, <1>17
  <2>3. object[b + h + 9] = times[1] /\ object[b + h + 10] = times[2]
    <3>1. b + h + 9 \in 1 .. b + h + 10 /\ b + h + 10 \in 1 .. b + h + 10
      BY <1>3
    <3>2. QED BY <1>14, <1>15, <3>1
  <2>4. <<object[b + h + 9], object[b + h + 10]>> = times
    BY <1>5, <2>3
  <2>5. QED BY <2>1, <2>2, <2>4 DEF EndsAs, FooterSize, b, h, d, length, times
<1>19. QED BY <1>11, <1>15, <1>18 DEF LaidOut, FooterSize, b, h, object

\* What a footer says of an index.
FooterSays(footer, index) ==
  /\ footer.numDocs = Len(index.docs) /\ footer.totalLength = SumOf(index.lengths)
  /\ <<footer.minTs, footer.maxTs>> = TimeRange(index.docs)

\* Such an object is opened, and its hotcache read.
LEMMA OpensThus ==
  ASSUME NEW S, NEW object, NEW index, NEW body, NEW hot \in Seq(S), LaidOut(object, index, body, hot)
  PROVE  /\ OpenSegment(object).object = object
         /\ FooterSays(OpenSegment(object).footer, index)
         /\ OpenSegment(object).hot = DecodeHotcache(hot)
<1> DEFINE b == Len(body)
           h == Len(hot)
           d == Len(index.docs)
           length == SumOf(index.lengths)
           times == TimeRange(index.docs)
           all == Len(object)
           tail == TailOf(object, FooterSize)
           footer == UnpackFooter(tail)
           reader == OpenSegment(object)
<1>1. /\ Stands(body, object, 1) /\ Stands(hot, object, b + 1) /\ all = b + h + 11
      /\ object[b + h + 1] = Magic /\ object[b + h + 11] = Magic /\ object[b + h + 2] = Version
      /\ object[b + h + 3] = b /\ object[b + h + 4] = h /\ object[b + h + 5] = d
      /\ object[b + h + 8] = length /\ <<object[b + h + 9], object[b + h + 10]>> = times
  BY DEF LaidOut, EndsAs, FooterSize
<1>2. b \in Nat /\ h \in Nat
  BY <1>1 DEF Stands
<1>3. tail = [i \in 1 .. 11 |-> object[b + h + i]]
  <2> DEFINE from == 1 + (IF all > 11 THEN all - 11 ELSE 0)
  <2>1. tail = SubSeq(object, from, all)
    BY DEF TailOf, FooterSize
  <2> HIDE DEF b, h, all
  <2>2. from = b + h + 1
    BY <1>1, <1>2
  <2>0. from \in Int /\ all \in Int
    BY <1>1, <1>2, <2>2
  <2> HIDE DEF from, tail
  <2>3. tail = [i \in 1 .. all - from + 1 |-> object[i + from - 1]]
    BY <2>0, <2>1 DEF SubSeq
  <2>4. all - from + 1 = 11 /\ \A i \in 1 .. 11 : i + from - 1 = b + h + i
    BY <1>1, <1>2, <2>2
  <2>5. QED BY <2>3, <2>4
<1> HIDE DEF tail, b, h, d, all, length, times
<1>4. /\ tail[1] = Magic /\ tail[11] = Magic /\ tail[2] = Version
      /\ tail[3] = b /\ tail[4] = h /\ tail[5] = d /\ tail[8] = length
      /\ <<tail[9], tail[10]>> = times
  BY <1>1, <1>3
<1>5. Len(tail) = 11
  <2> DEFINE A == {object[b + h + i] : i \in 1 .. 11}
             n == 11
  <2>1. tail \in [1 .. n -> A] /\ n \in Nat
    BY <1>3
  <2> HIDE DEF A, n
  <2>2. Len(tail) = n
    BY <2>1, LenIs
  <2>3. QED BY <2>2 DEF n
<1>6. ~NoFooter(tail)
  BY <1>4, <1>5 DEF NoFooter, FooterSize
<1>7. /\ footer.hotcache.offset = b /\ footer.hotcache.length = h /\ footer.numDocs = d
      /\ footer.totalLength = length /\ <<footer.minTs, footer.maxTs>> = times
  BY <1>4 DEF UnpackFooter
<1>8. reader = [object |-> object, footer |-> footer,
                hot |-> DecodeHotcache(GetRange(object, footer.hotcache.offset,
                                                footer.hotcache.length))]
  BY Zenon, <1>6 DEF OpenSegment, tail
<1> HIDE DEF footer, reader
<1>9. GetRange(object, b, h) = hot
  BY <1>1, <1>2, RangeGets DEF h
<1>10. QED BY <1>7, <1>8, <1>9 DEF reader, d, length, times, FooterSays
-----------------------------------------------------------------------------
(* The hotcache. *)

TermBlock == [first : Seq(Nat), offset : Nat, length : Nat]
DocBlock == [first : Nat, offset : Nat, length : Nat]

\* The cells of a block of terms, and of one of documents.
TermCells(block) == <<Len(block.first)>> \o block.first \o <<block.offset, block.length>>
DocCells(block) == <<block.first, block.offset, block.length>>

TermCellsOf(blocks, n) == [k \in 1 .. n |-> TermCells(blocks[k])]
DocCellsOf(blocks, n) == [k \in 1 .. n |-> DocCells(blocks[k])]

\* A block of terms read after others.
BlocksUpTo(blocks, k, pos) == [next |-> pos, blocks |-> First(blocks, k)]

LEMMA TermBlockReads ==
  ASSUME NEW n \in Nat, NEW blocks \in [1 .. n -> TermBlock], NEW k \in 1 .. n,
         NEW cells, cells = TermCells(blocks[k]), NEW data, NEW pos, Stands(cells, data, pos)
  PROVE  /\ cells \in Seq(Nat)
         /\ ReadTermBlock(BlocksUpTo(blocks, k - 1, pos), data) = BlocksUpTo(blocks, k, pos + Len(cells))
<1> DEFINE block == blocks[k]
           first == block.first
           offset == block.offset
           length == block.length
           size == Len(first)
           one == <<size>>
           two == <<offset, length>>
           x == one \o first
           q == pos + 1
           r == q + size
<1>1. /\ block \in TermBlock /\ first \in Seq(Nat) /\ offset \in Nat /\ length \in Nat
      /\ block = [first |-> first, offset |-> offset, length |-> length]
  BY DEF TermBlock
<1>2. cells = x \o two
  BY DEF TermCells
<1>3. size \in Nat
  BY <1>1
<1> HIDE DEF first, offset, length, size, block
<1>4. /\ one \in Seq(Nat) /\ Len(one) = 1 /\ one[1] = size
      /\ two \in Seq(Nat) /\ Len(two) = 2 /\ two[1] = offset /\ two[2] = length
  BY <1>1, <1>3
<1> HIDE DEF one, two, x
<1>5. x \in Seq(Nat) /\ Concatenates(one, first, x)
  BY <1>1, <1>4, ThenIs DEF x
<1>6. cells \in Seq(Nat) /\ Concatenates(x, two, cells)
  BY <1>2, <1>4, <1>5, ThenIs
<1>7. Len(x) = 1 + size /\ Len(cells) = size + 3
  <2>1. Len(x) = 1 + size
    BY <1>4, <1>5 DEF Concatenates, size
  <2>2. Len(cells) = Len(x) + 2
    BY <1>4, <1>6 DEF Concatenates
  <2>3. QED BY <1>3, <2>1, <2>2
<1>8. pos \in Nat \ {0}
  BY DEF Stands
<1>9. Stands(x, data, pos) /\ Stands(two, data, pos + Len(x))
  BY <1>2, <1>4, <1>5, StandsConcat
<1>10. Stands(one, data, pos) /\ Stands(first, data, pos + Len(one))
  BY <1>1, <1>4, <1>9, StandsConcat DEF x
<1>11. pos + Len(x) = r /\ pos + Len(one) = q /\ q \in Nat \ {0} /\ r \in Nat \ {0}
  BY <1>3, <1>4, <1>7, <1>8
<1>12. data[pos] = size
  <2>1. data[pos + 1 - 1] = one[1]
    <3>1. 1 \in 1 .. Len(one)
      BY <1>4
    <3>2. QED BY <1>10, <3>1 DEF Stands
  <2>2. pos + 1 - 1 = pos
    BY <1>8
  <2>3. QED BY <1>4, <2>1, <2>2
<1>13. Slice(data, q, size) = first
  <2>1. Stands(first, data, q)
    BY <1>10, <1>11
  <2> HIDE DEF q
  <2>2. Slice(data, q, Len(first)) = first
    BY <1>1, <2>1, SliceStands
  <2>3. QED BY <2>2 DEF size
<1>14. data[r] = offset /\ data[r + 1] = length
  <2>1. Stands(two, data, r)
    BY <1>9, <1>11
  <2> HIDE DEF r
  <2>2. 1 \in 1 .. Len(two) /\ 2 \in 1 .. Len(two)
    BY <1>4
  <2>3. data[r + 1 - 1] = two[1] /\ data[r + 2 - 1] = two[2]
    BY <2>1, <2>2 DEF Stands
  <2>4. r + 1 - 1 = r /\ r + 2 - 1 = r + 1
    BY <1>11
  <2>5. QED BY <1>4, <2>3, <2>4
<1>15. pos + size + 1 = r /\ pos + size + 2 = r + 1 /\ pos + size + 3 = pos + Len(cells)
  BY <1>3, <1>7, <1>8
<1> HIDE DEF q, r
<1> DEFINE read == BlocksUpTo(blocks, k - 1, pos)
           more == [first |-> Slice(data, pos + 1, data[pos]),
                    offset |-> data[pos + data[pos] + 1], length |-> data[pos + data[pos] + 2]]
<1>16. read.next = pos /\ read.blocks = First(blocks, k - 1)
  BY DEF BlocksUpTo
<1>17. ReadTermBlock(read, data)
         = [next |-> pos + data[pos] + 3, blocks |-> Append(First(blocks, k - 1), more)]
  <2> HIDE DEF read
  <2>1. QED BY <1>16 DEF ReadTermBlock
<1>18. more = block
  BY <1>1, <1>12, <1>13, <1>14, <1>15 DEF q
<1>19. Append(First(blocks, k - 1), block) = First(blocks, k)
  BY Zenon, FirstGrows DEF block
<1> HIDE DEF read, more
<1>20. QED BY <1>6, <1>12, <1>15, <1>17, <1>18, <1>19 DEF BlocksUpTo, read

TermRun(run, data, n) ==
  run = FoldLeft(LAMBDA read, k : ReadTermBlock(read, data),
                 [next |-> 2, blocks |-> <<>>], [k \in 1 .. n |-> k])

\* All blocks of terms.
LEMMA TermBlocksRead ==
  ASSUME NEW n \in Nat, NEW blocks \in [1 .. n -> TermBlock],
         NEW data, Stands(FlattenSeq(TermCellsOf(blocks, n)), data, 2),
         NEW run, TermRun(run, data, n)
  PROVE  /\ FlattenSeq(TermCellsOf(blocks, n)) \in Seq(Nat)
         /\ run = [next |-> 2 + Len(FlattenSeq(TermCellsOf(blocks, n))), blocks |-> blocks]
<1> DEFINE seqs == TermCellsOf(blocks, n)
           whole == FlattenSeq(seqs)
           pos == 2
           empty == [next |-> pos, blocks |-> <<>>]
<1>0. \A k \in 1 .. n : seqs[k] = TermCells(blocks[k])
  BY DEF TermCellsOf
<1>a. seqs \in [1 .. n -> Seq(Nat)]
  <2>1. ASSUME NEW k \in 1 .. n PROVE TermCells(blocks[k]) \in Seq(Nat)
    <3> DEFINE block == blocks[k]
    <3>1. block \in TermBlock
      OBVIOUS
    <3> HIDE DEF block
    <3>2. block.first \in Seq(Nat) /\ block.offset \in Nat /\ block.length \in Nat
      BY <3>1 DEF TermBlock
    <3> DEFINE first == block.first
               l == Len(first)
    <3>3. l \in Nat /\ <<l>> \in Seq(Nat) /\ <<block.offset, block.length>> \in Seq(Nat)
      BY <3>2
    <3> HIDE DEF l
    <3>4. <<l>> \o first \o <<block.offset, block.length>> \in Seq(Nat)
      BY <3>2, <3>3, ConcatProperties
    <3>5. QED BY <3>4 DEF TermCells, block, l
  <2>2. QED BY <2>1 DEF TermCellsOf
<1> HIDE DEF seqs
<1>1. PICK o : Laid(whole, seqs, n, o)
  BY Zenon, <1>a, FlattenIsLaid
<1>b. whole \in Seq(Nat)
  BY Zenon, <1>a, FlattenIsLaid
<1>2. /\ o \in [0 .. n -> Nat] /\ o[0] = 0 /\ Len(whole) = o[n]
      /\ \A k \in 1 .. n : o[k] = o[k - 1] + Len(seqs[k])
      /\ \A k \in 1 .. n : Stands(seqs[k], whole, 1 + o[k - 1])
  BY <1>1 DEF Laid, StartsAt
<1>3. pos \in Nat \ {0} /\ Stands(whole, data, pos)
  BY DEF seqs
<1> HIDE DEF whole, pos
<1> DEFINE next(read) == ReadTermBlock(read, data)
           st == [k \in 0 .. n |-> BlocksUpTo(blocks, k, pos + o[k])]
<1>4. ASSUME NEW k \in 1 .. n PROVE next(st[k - 1]) = st[k]
  <2> DEFINE s == o[k - 1]
             p == pos + s
             cells == seqs[k]
  <2>1. k - 1 \in 0 .. n /\ k \in 0 .. n /\ s \in Nat
    BY <1>2
  <2>2. st[k - 1] = BlocksUpTo(blocks, k - 1, p) /\ st[k] = BlocksUpTo(blocks, k, pos + o[k])
    BY <2>1
  <2>3. Stands(cells, whole, 1 + s) /\ o[k] = s + Len(cells) /\ o[k] \in Nat
        /\ cells = TermCells(blocks[k])
    BY <1>0, <1>2, <2>1
  <2> HIDE DEF s, cells, st
  <2>4. Stands(cells, data, p)
    <3>1. Stands(cells, data, pos + (1 + s) - 1)
      BY <1>3, <2>3, StandsWithin
    <3>2. pos + (1 + s) - 1 = p
      BY <1>3, <2>1
    <3>3. QED BY <3>1, <3>2
  <2>5. p + Len(cells) = pos + o[k]
    <3>1. Len(cells) \in Nat
      BY <2>4 DEF Stands
    <3>2. QED BY <1>3, <2>1, <2>3, <3>1
  <2> HIDE DEF p
  <2>6. ReadTermBlock(BlocksUpTo(blocks, k - 1, p), data) = BlocksUpTo(blocks, k, p + Len(cells))
    BY <2>3, <2>4, TermBlockReads
  <2>7. QED BY <2>2, <2>5, <2>6
<1>5. st[0] = empty
  <2>1. First(blocks, 0) = <<>>
    BY DEF First
  <2>2. pos + o[0] = pos
    BY <1>2, <1>3
  <2>3. st[0] = BlocksUpTo(blocks, 0, pos + o[0])
    OBVIOUS
  <2> HIDE DEF st
  <2>4. QED BY <2>1, <2>2, <2>3 DEF BlocksUpTo
<1>6. st[n] = [next |-> pos + Len(whole), blocks |-> blocks]
  <2>1. First(blocks, n) = blocks
    BY DEF First
  <2>2. st[n] = BlocksUpTo(blocks, n, pos + o[n])
    OBVIOUS
  <2> HIDE DEF st
  <2>3. QED BY <1>2, <2>1, <2>2 DEF BlocksUpTo
<1> DEFINE Solves(f) == f = [s \in SUBSET (1 .. n) |->
             IF s = {} THEN empty ELSE next(f[s \ {Max(s)}])]
           Iter == CHOOSE iter : Solves(iter)
           g == [P \in SUBSET (1 .. n) |-> st[Cardinality(P)]]
<1> HIDE DEF st
<1>7. Solves(g)
  <2> HIDE DEF empty
  <2>1. g[{}] = empty
    BY <1>5, FS_EmptySet
  <2>2. ASSUME NEW s \in SUBSET (1 .. n), s # {} PROVE g[s] = next(g[s \ {Max(s)}])
    <3>1. /\ Cardinality(s) \in 1 .. n /\ s \ {Max(s)} \in SUBSET (1 .. n)
          /\ Cardinality(s \ {Max(s)}) = Cardinality(s) - 1
      BY <2>2, CountsDown
    <3>2. g[s \ {Max(s)}] = st[Cardinality(s) - 1] /\ g[s] = st[Cardinality(s)]
      BY <3>1
    <3> HIDE DEF g, next
    <3>3. QED BY <1>4, <3>1, <3>2
  <2>3. g = [s \in SUBSET (1 .. n) |-> g[s]]
    OBVIOUS
  <2> HIDE DEF g, next
  <2>4. QED BY <2>1, <2>2, <2>3
<1>8. run = Iter[1 .. n]
  <2>1. DOMAIN [k \in 1 .. n |-> k] = 1 .. n
    OBVIOUS
  <2>2. QED BY Zenon, <2>1 DEF TermRun, FoldLeft, MapThenFoldSet, pos
<1> HIDE DEF g
<1>9. Solves(Iter)
  <2> HIDE DEF Solves
  <2>1. QED BY <1>7
<1> HIDE DEF Iter
<1>10. Iter[{}] = st[0]
  <2> HIDE DEF next, empty
  <2>1. QED BY <1>5, <1>9
<1>11. ASSUME NEW k \in 1 .. n, NEW P \in SUBSET (1 .. n), P # {}, Iter[P \ {Max(P)}] = st[k - 1]
       PROVE  Iter[P] = st[k]
  <2> HIDE DEF next, empty
  <2>1. Iter[P] = next(Iter[P \ {Max(P)}])
    BY <1>9, <1>11
  <2>2. QED BY <1>4, <1>11, <2>1
<1>12. Iter[1 .. n] = st[n]
  <2> HIDE DEF Solves
  <2>1. Steady(Iter, st, n)
    BY <1>10, <1>11 DEF Steady
  <2>2. QED BY <2>1, GoesAlong
<1>13. QED BY <1>b, <1>6, <1>8, <1>12 DEF whole, seqs, pos

DocsStand(data, pos, blocks, n) ==
  \A k \in 1 .. n : /\ data[pos + 3 * k - 3] = blocks[k].first
                    /\ data[pos + 3 * k - 2] = blocks[k].offset
                    /\ data[pos + 3 * k - 1] = blocks[k].length

\* A block of documents is three cells in a row.
LEMMA DocBlocksRead ==
  ASSUME NEW n \in Nat, NEW blocks \in [1 .. n -> DocBlock],
         NEW data, NEW pos, Stands(FlattenSeq(DocCellsOf(blocks, n)), data, pos)
  PROVE  /\ FlattenSeq(DocCellsOf(blocks, n)) \in Seq(Nat)
         /\ Len(FlattenSeq(DocCellsOf(blocks, n))) = 3 * n
         /\ DocsStand(data, pos, blocks, n)
<1> DEFINE seqs == DocCellsOf(blocks, n)
           whole == FlattenSeq(seqs)
           size == 3
<1>1. ASSUME NEW k \in 1 .. n
      PROVE  /\ seqs[k] \in Seq(Nat) /\ Len(seqs[k]) = size /\ seqs[k][1] = blocks[k].first
             /\ seqs[k][2] = blocks[k].offset /\ seqs[k][3] = blocks[k].length
  <2>1. seqs[k] = <<blocks[k].first, blocks[k].offset, blocks[k].length>>
    BY DEF DocCellsOf, DocCells
  <2>2. blocks[k].first \in Nat /\ blocks[k].offset \in Nat /\ blocks[k].length \in Nat
    BY DEF DocBlock
  <2> HIDE DEF seqs
  <2>3. QED BY <2>1, <2>2
<1>2. seqs \in [1 .. n -> Seq(Nat)]
  <2>1. seqs = [k \in 1 .. n |-> seqs[k]]
    BY DEF DocCellsOf
  <2> HIDE DEF seqs
  <2>2. QED BY <1>1, <2>1
<1>3. Stands(whole, data, pos)
  OBVIOUS
<1> HIDE DEF seqs
<1>4. PICK o : Laid(whole, seqs, n, o)
  BY Zenon, <1>2, FlattenIsLaid
<1>5. whole \in Seq(Nat)
  BY Zenon, <1>2, FlattenIsLaid
<1> HIDE DEF whole, size
<1>6. \A k \in 0 .. n : o[k] = k * size
  <2>1. StartsAt(o, seqs, n)
    BY <1>4 DEF Laid
  <2>2. SameLength(seqs, n, size) /\ size \in Nat
    BY <1>1 DEF SameLength, size
  <2>3. EvenlySpaced(o, n, size)
    BY <2>1, <2>2, EvenStarts
  <2>4. QED BY <2>3 DEF EvenlySpaced
<1>7. Len(whole) = 3 * n
  <2>1. Len(whole) = o[n] /\ o[n] = n * 3
    BY <1>4, <1>6 DEF Laid, size
  <2>2. QED BY <2>1
<1>8. pos \in Nat
  BY <1>3 DEF Stands
<1>9. ASSUME NEW k \in 1 .. n
      PROVE  /\ data[pos + 3 * k - 3] = blocks[k].first
             /\ data[pos + 3 * k - 2] = blocks[k].offset
             /\ data[pos + 3 * k - 1] = blocks[k].length
  <2> DEFINE cells == seqs[k]
             s == o[k - 1]
             p == pos + (1 + s) - 1
  <2>1. s = 3 * k - 3
    <3>1. k - 1 \in 0 .. n /\ (k - 1) * 3 = 3 * k - 3
      OBVIOUS
    <3>2. s = (k - 1) * 3
      BY <1>6, <3>1 DEF size
    <3>3. QED BY <3>1, <3>2
  <2>2. Stands(cells, whole, 1 + s)
    BY <1>4 DEF Laid
  <2> HIDE DEF cells, s
  <2>3. Stands(cells, data, p)
    BY <1>3, <2>2, StandsWithin
  <2>4. p + 1 - 1 = pos + 3 * k - 3 /\ p + 2 - 1 = pos + 3 * k - 2 /\ p + 3 - 1 = pos + 3 * k - 1
    BY <1>8, <2>1
  <2>5. 1 \in 1 .. Len(cells) /\ 2 \in 1 .. Len(cells) /\ 3 \in 1 .. Len(cells)
    BY <1>1 DEF cells, size
  <2> HIDE DEF p
  <2>6. /\ data[p + 1 - 1] = cells[1] /\ data[p + 2 - 1] = cells[2] /\ data[p + 3 - 1] = cells[3]
    BY <2>3, <2>5 DEF Stands
  <2>7. QED BY <1>1, <2>4, <2>6 DEF cells
<1>10. QED BY <1>5, <1>7, <1>9 DEF whole, seqs, DocsStand

\* The one cell of a number.
LEMMA CellStands ==
  ASSUME NEW x, NEW data, NEW pos, Stands(<<x>>, data, pos)
  PROVE  data[pos] = x /\ pos \in Nat \ {0}
<1> DEFINE one == <<x>>
<1>1. one[1] = x /\ Len(one) = 1
  OBVIOUS
<1> HIDE DEF one
<1>2. Stands(one, data, pos)
  BY DEF one
<1>3. pos \in Nat \ {0} /\ data[pos + 1 - 1] = one[1]
  BY <1>1, <1>2 DEF Stands
<1>4. pos + 1 - 1 = pos
  BY <1>3
<1>5. QED BY <1>1, <1>3, <1>4

\* The hotcache is read as it was written.
LEMMA HotcacheReads ==
  ASSUME NEW m \in Nat, NEW terms \in [1 .. m -> TermBlock],
         NEW d \in Nat, NEW docs \in [1 .. d -> DocBlock],
         NEW lengths \in Seq(Nat), NEW bloom \in Seq(Nat)
  PROVE  /\ EncodeHotcache(terms, docs, lengths, bloom) \in Seq(Nat)
         /\ DecodeHotcache(EncodeHotcache(terms, docs, lengths, bloom))
              = [termBlocks |-> terms, docBlocks |-> docs, lengths |-> lengths, bloom |-> bloom]
<1> DEFINE T == FlattenSeq(TermCellsOf(terms, m))
           D == FlattenSeq(DocCellsOf(docs, d))
           l == Len(lengths)
           data == EncodeHotcache(terms, docs, lengths, bloom)
           x1 == <<m>> \o T
           x2 == x1 \o <<d>>
           x3 == x2 \o D
           x4 == x3 \o <<l>>
           x5 == x4 \o lengths
<1>1. Len(terms) = m /\ Len(docs) = d /\ l \in Nat
  BY LenIs
<1>2. data = x5 \o bloom
  <2>1. DOMAIN terms = 1 .. m /\ DOMAIN docs = 1 .. d
    OBVIOUS
  <2>2. QED BY <1>1, <2>1 DEF EncodeHotcache, TermCellsOf, DocCellsOf, TermCells, DocCells
<1>3. T \in Seq(Nat) /\ D \in Seq(Nat)
  <2>1. \A k \in 1 .. m : TermCells(terms[k]) \in Seq(Nat)
    <3> SUFFICES ASSUME NEW k \in 1 .. m PROVE TermCells(terms[k]) \in Seq(Nat)
      OBVIOUS
    <3>1. terms[k].first \in Seq(Nat) /\ terms[k].offset \in Nat /\ terms[k].length \in Nat
      BY DEF TermBlock
    <3> DEFINE first == terms[k].first
               n == Len(first)
    <3>2. n \in Nat /\ <<n>> \in Seq(Nat) /\ <<terms[k].offset, terms[k].length>> \in Seq(Nat)
      BY <3>1
    <3> HIDE DEF n
    <3>3. <<n>> \o first \o <<terms[k].offset, terms[k].length>> \in Seq(Nat)
      BY <3>1, <3>2, ConcatProperties
    <3>4. QED BY <3>3 DEF TermCells, n
  <2>2. \A k \in 1 .. d : DocCells(docs[k]) \in Seq(Nat)
    <3> SUFFICES ASSUME NEW k \in 1 .. d PROVE DocCells(docs[k]) \in Seq(Nat)
      OBVIOUS
    <3>1. docs[k].first \in Nat /\ docs[k].offset \in Nat /\ docs[k].length \in Nat
      BY DEF DocBlock
    <3>2. QED BY <3>1 DEF DocCells
  <2>3. TermCellsOf(terms, m) \in [1 .. m -> Seq(Nat)] /\ DocCellsOf(docs, d) \in [1 .. d -> Seq(Nat)]
    BY <2>1, <2>2 DEF TermCellsOf, DocCellsOf
  <2>4. T \in Seq(Nat)
    BY Zenon, <2>3, FlattenIsLaid
  <2>5. D \in Seq(Nat)
    BY Zenon, <2>3, FlattenIsLaid
  <2>6. QED BY <2>4, <2>5
<1>4. <<m>> \in Seq(Nat) /\ <<d>> \in Seq(Nat) /\ <<l>> \in Seq(Nat)
      /\ Len(<<m>>) = 1 /\ Len(<<d>>) = 1 /\ Len(<<l>>) = 1
  BY <1>1
<1> HIDE DEF T, D, l, data, x1, x2, x3, x4, x5
<1>5. /\ x1 \in Seq(Nat) /\ x2 \in Seq(Nat) /\ x3 \in Seq(Nat) /\ x4 \in Seq(Nat)
      /\ x5 \in Seq(Nat) /\ data \in Seq(Nat)
  <2>1. x1 \in Seq(Nat)
    BY <1>3, <1>4, ConcatProperties DEF x1
  <2>2. x2 \in Seq(Nat)
    BY <1>4, <2>1, ConcatProperties DEF x2
  <2>3. x3 \in Seq(Nat)
    BY <1>3, <2>2, ConcatProperties DEF x3
  <2>4. x4 \in Seq(Nat)
    BY <1>4, <2>3, ConcatProperties DEF x4
  <2>5. x5 \in Seq(Nat)
    BY <2>4, ConcatProperties DEF x5
  <2>6. QED BY <1>2, <2>1, <2>2, <2>3, <2>4, <2>5, ConcatProperties
<1>6. /\ Stands(x5, data, 1) /\ Stands(bloom, data, 1 + Len(x5))
      /\ Len(data) = Len(x5) + Len(bloom) /\ Len(bloom) \in Nat
  <2>1. Stands(x5 \o bloom, data, 1)
    BY <1>2, <1>5, StandsWhole
  <2>2. QED BY <1>2, <1>5, <2>1, StandsConcat
<1>7. Stands(x4, data, 1) /\ Stands(lengths, data, 1 + Len(x4)) /\ Len(x5) = Len(x4) + l
  BY <1>5, <1>6, StandsConcat DEF x5, l
<1>8. Stands(x3, data, 1) /\ Stands(<<l>>, data, 1 + Len(x3)) /\ Len(x4) = Len(x3) + 1
  BY <1>4, <1>5, <1>7, StandsConcat DEF x4
<1>9. Stands(x2, data, 1) /\ Stands(D, data, 1 + Len(x2)) /\ Len(x3) = Len(x2) + Len(D)
  BY <1>3, <1>5, <1>8, StandsConcat DEF x3
<1>10. Stands(x1, data, 1) /\ Stands(<<d>>, data, 1 + Len(x1)) /\ Len(x2) = Len(x1) + 1
  BY <1>4, <1>5, <1>9, StandsConcat DEF x2
<1>11. Stands(<<m>>, data, 1) /\ Stands(T, data, 1 + 1) /\ Len(x1) = 1 + Len(T) /\ Len(T) \in Nat
  BY <1>3, <1>4, <1>10, StandsConcat DEF x1
<1> DEFINE run == FoldLeft(LAMBDA read, k : ReadTermBlock(read, data),
                           [next |-> 2, blocks |-> <<>>], [k \in 1 .. m |-> k])
           q == 2 + Len(T)
           sizes == q + 3 * d + 1
<1>12. data[1] = m
  BY <1>11, CellStands
<1>13. run = [next |-> q, blocks |-> terms]
  <2>1. TermRun(run, data, m)
    BY DEF TermRun
  <2>2. Stands(FlattenSeq(TermCellsOf(terms, m)), data, 2)
    BY <1>11 DEF T
  <2> HIDE DEF run
  <2>3. QED BY <2>1, <2>2, TermBlocksRead DEF T
<1>14. q \in Nat /\ 1 + Len(x1) = q /\ 1 + Len(x2) = q + 1
  BY <1>10, <1>11
<1>15. data[q] = d
  <2> HIDE DEF q
  <2>1. QED BY <1>10, <1>14, CellStands
<1>16. Len(D) = 3 * d /\ DocsStand(data, q + 1, docs, d)
  <2> DEFINE p == q + 1
  <2>1. Stands(FlattenSeq(DocCellsOf(docs, d)), data, p)
    BY <1>9, <1>14 DEF D
  <2> HIDE DEF p, q
  <2>2. Len(D) = 3 * d /\ DocsStand(data, p, docs, d)
    BY <2>1, DocBlocksRead DEF D
  <2>3. QED BY <2>2 DEF p
<1> HIDE DEF q
<1>17. 1 + Len(x3) = sizes /\ 1 + Len(x4) = sizes + 1 /\ sizes \in Nat
  <2> DEFINE y2 == Len(x2)
             y3 == Len(x3)
             y4 == Len(x4)
             y == Len(D)
  <2>1. y2 \in Nat /\ y3 \in Nat /\ 3 * d \in Nat
    BY <1>5
  <2>2. 1 + y2 = q + 1 /\ y = 3 * d /\ y3 = y2 + y /\ y4 = y3 + 1
    BY <1>8, <1>9, <1>14, <1>16
  <2> HIDE DEF y, y2, y3, y4
  <2>3. 1 + y3 = sizes /\ 1 + y4 = sizes + 1 /\ sizes \in Nat
    BY <1>14, <2>1, <2>2
  <2>4. QED BY <2>3 DEF y3, y4
<1>18. data[sizes] = l
  <2> HIDE DEF sizes
  <2>1. QED BY <1>8, <1>17, CellStands
<1>19. Slice(data, sizes + 1, l) = lengths
  <2> DEFINE p == sizes + 1
  <2>1. Stands(lengths, data, p)
    BY <1>7, <1>17
  <2> HIDE DEF p
  <2>2. Slice(data, p, Len(lengths)) = lengths
    BY <2>1, SliceStands
  <2>3. QED BY <2>2 DEF p, l
<1>20. SubSeq(data, sizes + l + 1, Len(data)) = bloom
  <2> DEFINE p == sizes + l + 1
  <2> HIDE DEF sizes
  <2>1. p = 1 + Len(x5) /\ p + Len(bloom) - 1 = Len(data) /\ p \in Nat
    <3> DEFINE y4 == Len(x4)
               y5 == Len(x5)
               y == Len(bloom)
               z == Len(data)
    <3>1. /\ y4 \in Nat /\ y \in Nat /\ l \in Nat /\ y5 = y4 + l /\ z = y5 + y
          /\ 1 + y4 = sizes + 1 /\ sizes \in Nat
      BY <1>1, <1>5, <1>6, <1>7, <1>17
    <3> HIDE DEF y4, y5, y, z
    <3>2. p = 1 + y5 /\ p + y - 1 = z /\ p \in Nat
      BY <3>1
    <3>3. QED BY <3>2 DEF y5, y, z
  <2> HIDE DEF p
  <2>2. Slice(data, p, Len(bloom)) = bloom
    BY <1>6, <2>1, SliceStands
  <2>3. SubSeq(data, p, Len(data)) = bloom
    BY <2>1, <2>2 DEF Slice
  <2>4. QED BY <2>3 DEF p
<1> DEFINE block(k) == LET at == q + 3 * k - 2 IN
             [first |-> data[at], offset |-> data[at + 1], length |-> data[at + 2]]
           blocks == [k \in 1 .. d |-> block(k)]
<1>21. blocks = docs
  <2>1. ASSUME NEW k \in 1 .. d PROVE block(k) = docs[k]
    <3>1. /\ (q + 1) + 3 * k - 3 = q + 3 * k - 2 /\ (q + 1) + 3 * k - 2 = (q + 3 * k - 2) + 1
          /\ (q + 1) + 3 * k - 1 = (q + 3 * k - 2) + 2
      BY <1>14
    <3>2. docs[k] = [first |-> docs[k].first, offset |-> docs[k].offset, length |-> docs[k].length]
      BY DEF DocBlock
    <3>3. /\ data[(q + 1) + 3 * k - 3] = docs[k].first
          /\ data[(q + 1) + 3 * k - 2] = docs[k].offset
          /\ data[(q + 1) + 3 * k - 1] = docs[k].length
      BY <1>16 DEF DocsStand
    <3>4. QED BY <3>1, <3>2, <3>3
  <2> HIDE DEF block
  <2>2. QED BY <2>1
<1>22. Len(blocks) = d
  BY <1>1, <1>21
<1> HIDE DEF sizes, run
<1>23. DecodeHotcache(data)
         = [termBlocks |-> terms, docBlocks |-> blocks, lengths |-> Slice(data, sizes + 1, l),
            bloom |-> SubSeq(data, sizes + l + 1, Len(data))]
  <2>1. run.next = q /\ run.blocks = terms
    BY <1>13
  <2>2. [k \in 1 .. data[run.next] |->
           LET at == run.next + 3 * k - 2 IN
           [first |-> data[at], offset |-> data[at + 1], length |-> data[at + 2]]] = blocks
    BY <1>15, <2>1
  <2>3. run.next + 3 * Len(blocks) + 1 = sizes
    BY <1>22, <2>1 DEF sizes
  <2> HIDE DEF blocks
  <2>4. DecodeHotcache(data)
          = [termBlocks |-> run.blocks, docBlocks |-> blocks,
             lengths |-> Slice(data, sizes + 1, data[sizes]),
             bloom |-> SubSeq(data, sizes + data[sizes] + 1, Len(data))]
    BY Zenon, <1>12, <2>2, <2>3 DEF DecodeHotcache, run
  <2>5. QED BY <1>18, <2>1, <2>4
<1> HIDE DEF blocks
<1>24. QED BY <1>5, <1>19, <1>20, <1>21, <1>23 DEF data
-----------------------------------------------------------------------------
(* What the parts are made of. *)

\* The bytes of a posting list.
LEMMA ListIsBytes ==
  ASSUME NEW n \in Nat, NEW ids, IsList(ids, n), NEW freqs \in [1 .. n -> Nat]
  PROVE  EncodeBlocked(ids, freqs) \in Seq(Nat)
<1>1. Len(ids) = n /\ SmallList \in Nat /\ BlockSize \in Nat \ {0}
  BY ItemsAre, PostingsAssumption
<1>2. CASE n <= SmallList
  <2> DEFINE u == EncodeVarint(n)
             gaps == DeltaEncode(ids)
             v == EncodeVarints(gaps)
             x == EncodeVarints(freqs)
  <2>1. gaps \in [1 .. n -> Nat]
    BY DeltasAre
  <2>2. u \in Seq(Nat) /\ v \in Seq(Nat) /\ x \in Seq(Nat)
    <3> HIDE DEF gaps
    <3>1. QED BY <2>1, VarintIs, VarintsAre DEF VarintHas, VarintBytes
  <2>3. Len(ids) <= SmallList => EncodeBlocked(ids, freqs) = EncodeVarint(Len(ids)) \o v \o x
    BY Zenon DEF EncodeBlocked
  <2> HIDE DEF u, v, x
  <2>4. u \o v \o x \in Seq(Nat)
    BY <2>2, ConcatProperties
  <2>5. QED BY <1>1, <1>2, <2>3, <2>4 DEF u
<1>3. CASE ~(n <= SmallList)
  <2> DEFINE m == BlocksFor(n)
             at == CutEvenly(n)
             blocks == BlocksOf(ids, freqs, at, m)
             x == FlattenSeq(SkipsOf(blocks, m))
             y == FlattenSeq(DataOf(blocks, m))
             u == EncodeVarint(n)
             v == EncodeVarint(m)
  <2>1. n \in Nat \ {0} /\ n > SmallList
    BY <1>1, <1>3
  <2>2. Cuts(at, m, n) /\ m \in Nat
    BY <2>1, EvenCuts
  <2>3. EncodeBlocked(ids, freqs) = LargeBytes(n, m, blocks)
    BY <2>1, LargeIs
  <2>4. SkipsOf(blocks, m) \in [1 .. m -> Seq(Nat)] /\ DataOf(blocks, m) \in [1 .. m -> Seq(Nat)]
    BY <2>2, BlocksIndexed
  <2>5. x \in Seq(Nat)
    <3> HIDE DEF m, blocks
    <3>1. QED BY Zenon, <2>2, <2>4, FlattenIsLaid
  <2>6. y \in Seq(Nat)
    <3> HIDE DEF m, blocks
    <3>1. QED BY Zenon, <2>2, <2>4, FlattenIsLaid
  <2>7. u \in Seq(Nat) /\ v \in Seq(Nat)
    <3> HIDE DEF m
    <3>1. QED BY <2>2, VarintIs DEF VarintHas, VarintBytes
  <2> HIDE DEF u, v, x, y
  <2>8. u \o v \o x \o y \in Seq(Nat)
    BY <2>5, <2>6, <2>7, ConcatProperties
  <2>9. LargeBytes(n, m, blocks) = u \o v \o x \o y
    BY Zenon DEF LargeBytes, u, v, x, y
  <2>10. QED BY <2>3, <2>8, <2>9
<1>4. QED BY <1>2, <1>3

\* The cells of a filter.
LEMMA BloomIsCells ==
  ASSUME NEW terms, IsFiniteSet(terms)
  PROVE  EncodeBloom(terms) \in Seq(Nat)
<1> DEFINE n == Cardinality(terms)
           bits == BloomBits(n)
           hashes == BloomHashes(n)
           set == UNION {Positions(t, bits, hashes) : t \in terms}
           word(w) == ValueOf([k \in 1 .. 8 |-> IF 8 * w - k \in set THEN 1 ELSE 0])
           size == bits \div 8
           words == [w \in 1 .. size |-> word(w)]
           head == <<bits, hashes>>
<1>1. n \in Nat
  BY FS_CardinalityType
<1> HIDE DEF n
<1>2. bits \in Nat /\ size \in Nat
  <2>1. \E m \in Nat \ {0} : BloomBits(n) = 8 * m /\ BloomBits(n) \div 8 = m
    BY <1>1, BloomIsBytes
  <2>2. QED BY <2>1
<1>3. hashes \in Nat
  <2>1. CASE n = 0
    BY <2>1 DEF BloomHashes
  <2>2. CASE n # 0
    <3> DEFINE x == BloomBits(n) * 693147 + n * 500000
               y == n * 1000000
               h == x \div y
    <3>1. x \in Int /\ y \in Nat \ {0}
      BY <1>1, <1>2, <2>2
    <3>2. hashes = IF h < 1 THEN 1 ELSE h
      BY <2>2 DEF BloomHashes
    <3> HIDE DEF x, y
    <3>3. h \in Int
      BY <3>1
    <3> HIDE DEF h, hashes
    <3>4. QED BY <3>2, <3>3
  <2>3. QED BY <2>1, <2>2
<1>4. ASSUME NEW w PROVE word(w) \in Nat
  <2> DEFINE d == 8
             digits == [k \in 1 .. d |-> IF 8 * w - k \in set THEN 1 ELSE 0]
  <2> HIDE DEF set
  <2>1. digits \in [1 .. d -> 0 .. 1] /\ d \in Nat
    OBVIOUS
  <2>2. word(w) = ValueOf(digits)
    OBVIOUS
  <2> HIDE DEF d, digits, word
  <2>3. ValueOf(digits) \in Nat
    BY <2>1, SpelledBits
  <2>4. QED BY <2>2, <2>3
<1> HIDE DEF word, hashes, bits, size
<1>5. words \in Seq(Nat) /\ head \in Seq(Nat)
  <2>1. words \in [1 .. size -> Nat]
    BY <1>4
  <2>2. words \in Seq(Nat)
    <3> HIDE DEF words
    <3>1. QED BY <1>2, <2>1, LenIs
  <2>3. QED BY <1>2, <1>3, <2>2
<1>6. EncodeBloom(terms) = head \o words
  BY DEF EncodeBloom, n, bits, hashes, word, size
<1> HIDE DEF head, words
<1>7. QED BY <1>5, <1>6, ConcatProperties

\* The bytes of a block of the dictionary.
LEMMA DictIsBytes ==
  ASSUME NEW n, NEW entries, RunOfEntries(entries, n)
  PROVE  EncodeDictBlock(entries) \in Seq(Nat)
<1> DEFINE bytes(k) ==
             LET e == entries[k]
                 previous == IF k = 1 THEN <<>> ELSE entries[k - 1].term
                 expected == IF k = 1 THEN e.offset
                             ELSE entries[k - 1].offset + entries[k - 1].length
                 shared == Shared(previous, e.term)
                 suffix == SubSeq(e.term, shared + 1, Len(e.term))
             IN EncodeVarints(<<shared, Len(suffix)>>) \o suffix
                  \o EncodeVarints(<<e.df, e.offset - expected, e.length>>)
           seqs == [k \in 1 .. n |-> bytes(k)]
           start == entries[1].offset
           two == <<n, start>>
           H == EncodeVarints(two)
           whole == FlattenSeq(seqs)
<1>1. n \in Nat \ {0} /\ DOMAIN entries = 1 .. n /\ entries \in [1 .. n -> DictEntry]
  BY DEF RunOfEntries
<1>2. Len(entries) = n
  BY <1>1, LenIs
<1>3. EncodeDictBlock(entries) = H \o whole
  BY <1>1, <1>2 DEF EncodeDictBlock
<1>4. \A k \in 1 .. n : EntryIs(bytes(k), entries[k], TermBefore(entries, k), ExpectedAt(entries, k))
  BY DEF EntryIs, TermBefore, ExpectedAt
<1> HIDE DEF bytes
<1>5. seqs \in [1 .. n -> Seq(Nat)]
  <2>1. ASSUME NEW k \in 1 .. n PROVE bytes(k) \in Seq(Nat)
    <3> DEFINE e == entries[k]
               before == TermBefore(entries, k)
               expected == ExpectedAt(entries, k)
               b == bytes(k)
    <3>1. /\ e \in DictEntry /\ before \in Seq(Nat) /\ expected \in Nat /\ expected <= e.offset
          /\ EntryIs(b, e, before, expected)
      BY <1>4, BeforeEntry
    <3> HIDE DEF e, before, expected, b
    <3>2. b \in Seq(Nat)
      BY <3>1, EntryReads
    <3>3. QED BY <3>2 DEF b
  <2>2. QED BY <2>1
<1> HIDE DEF seqs
<1>6. whole \in Seq(Nat)
  BY <1>1, <1>5, FlattenIsLaid
<1>7. start \in Nat
  <2>1. 1 \in 1 .. n
    BY <1>1
  <2>2. QED BY <2>1, BeforeEntry
<1> DEFINE w == 2
<1>8. w \in Nat /\ two \in [1 .. w -> Nat]
  BY <1>1, <1>7
<1> HIDE DEF w, whole, two
<1>9. H \in Seq(Nat)
  BY <1>8, VarintsAre
<1> HIDE DEF H
<1>10. QED BY <1>3, <1>6, <1>9, ConcatProperties
-----------------------------------------------------------------------------
(* An index and the parts of its segment. *)

\* A posting list of an index.
ListFits(list) == \E w \in Nat : IsList(list.ids, w) /\ list.freqs \in [1 .. w -> Nat]

\* An index of n documents, of whatever kind.
IndexFits(index, n, D) ==
  /\ n \in Nat /\ index.docs \in [1 .. n -> D] /\ index.lengths \in [1 .. n -> Nat]
  /\ DOMAIN index.lists \in SUBSET Word /\ IsFiniteSet(DOMAIN index.lists)
  /\ \A t \in DOMAIN index.lists : Digest[t] \in Nat \X Nat /\ ListFits(index.lists[t])

TermsOf(index) == SortedTerms(DOMAIN index.lists)
PostingsOf(index) == PostingsPart(index, TermsOf(index))
EntriesOf(index) == EntriesFor(index, TermsOf(index), PostingsOf(index))
DocDataOf(index) == DocPart(index.docs)
DictOf(index) == DictPart(EntriesOf(index))

BodyOf(index) ==
  FlattenSeq(PostingsOf(index)) \o FlattenSeq(DocDataOf(index)) \o FlattenSeq(DictOf(index))

HotOf(index) ==
  HotcachePart(index, EntriesOf(index), Len(FlattenSeq(PostingsOf(index))), DocDataOf(index),
               Len(FlattenSeq(PostingsOf(index))) + Len(FlattenSeq(DocDataOf(index))), DictOf(index))

LEMMA WrittenAs ==
  ASSUME NEW index
  PROVE  WriteSegment(index) = WithFooter(index, BodyOf(index), HotOf(index))
BY DEF WriteSegment, WithTerms, WithEntries, Assembled, BodyOf, HotOf, DocDataOf, DictOf, EntriesOf,
       PostingsOf, TermsOf

\* The postings of the terms in order.
LEMMA PostingsAreBytes ==
  ASSUME NEW index, NEW n, NEW D, IndexFits(index, n, D), NEW w, w = Cardinality(DOMAIN index.lists)
  PROVE  /\ w \in Nat /\ TermList(DOMAIN index.lists, TermsOf(index), w)
         /\ PostingsOf(index) \in [1 .. w -> Seq(Nat)]
<1> DEFINE words == DOMAIN index.lists
           f == TermsOf(index)
<1>1. TermList(words, f, w)
  BY TermsAreSorted DEF IndexFits, TermsOf
<1>2. w \in Nat /\ f \in [1 .. w -> words]
  BY <1>1 DEF TermList
<1>3. PostingsOf(index) = [k \in 1 .. w |-> EncodeBlocked(index.lists[f[k]].ids, index.lists[f[k]].freqs)]
  BY <1>2 DEF PostingsOf, PostingsPart
<1>4. ASSUME NEW k \in 1 .. w
      PROVE  EncodeBlocked(index.lists[f[k]].ids, index.lists[f[k]].freqs) \in Seq(Nat)
  <2>1. ListFits(index.lists[f[k]])
    BY <1>2 DEF IndexFits
  <2> DEFINE list == index.lists[f[k]]
  <2> HIDE DEF list
  <2>2. PICK l \in Nat : IsList(list.ids, l) /\ list.freqs \in [1 .. l -> Nat]
    BY <2>1 DEF ListFits, list
  <2>3. QED BY <2>2, ListIsBytes DEF list
<1>5. QED BY <1>1, <1>2, <1>3, <1>4

\* Some entries in the order of their postings, in which a range gets them.
EntriesFit(entries, index, w) ==
  /\ entries \in [1 .. w -> DictEntry]
  /\ \A k \in 2 .. w : entries[k - 1].offset + entries[k - 1].length <= entries[k].offset
  /\ \A k \in 1 .. w : /\ entries[k].term = TermsOf(index)[k]
                       /\ entries[k].df = Len(index.lists[TermsOf(index)[k]].ids)
                       /\ entries[k].offset = Offsets(PostingsOf(index), 0)[k]
                       /\ entries[k].length = Len(PostingsOf(index)[k])

LEMMA EntriesInOrder ==
  ASSUME NEW index, NEW n, NEW D, IndexFits(index, n, D), NEW w, w = Cardinality(DOMAIN index.lists)
  PROVE  EntriesFit(EntriesOf(index), index, w)
<1> DEFINE words == DOMAIN index.lists
           f == TermsOf(index)
           p == PostingsOf(index)
           entries == EntriesOf(index)
           offsets == Offsets(p, 0)
<1>1. w \in Nat /\ f \in [1 .. w -> words] /\ words \in SUBSET Word /\ p \in [1 .. w -> Seq(Nat)]
  BY PostingsAreBytes DEF TermList, IndexFits
<1>2. PICK o : StartsAt(o, p, w)
  <2>1. \A k \in 1 .. w : Len(p[k]) \in Nat
    <3>1. \A k \in 1 .. w : p[k] \in Seq(Nat)
      BY <1>1
    <3>2. QED BY <3>1
  <2> HIDE DEF p
  <2>2. QED BY <1>1, <2>1, StartsExist
<1>3. \A k \in 1 .. w : offsets[k] = o[k - 1] /\ o[k - 1] \in Nat
  <2> HIDE DEF p
  <2>1. 0 \in Nat
    OBVIOUS
  <2>2. \A k \in 1 .. w : Offsets(p, 0)[k] = 0 + o[k - 1] /\ o[k - 1] \in Nat
    BY Zenon, <1>1, <1>2, <2>1, OffsetsAre
  <2>3. QED BY <2>2
<1>4. entries = [k \in 1 .. w |-> [term |-> f[k], df |-> Len(index.lists[f[k]].ids),
                                   offset |-> offsets[k], length |-> Len(p[k])]]
  BY <1>1 DEF EntriesOf, EntriesFor
<1> HIDE DEF f, p, entries, offsets
<1>5. ASSUME NEW k \in 1 .. w
      PROVE  /\ entries[k] = [term |-> f[k], df |-> Len(index.lists[f[k]].ids),
                              offset |-> offsets[k], length |-> Len(p[k])]
             /\ entries[k] \in DictEntry
  <2>1. f[k] \in Word /\ f[k] \in words
    BY <1>1
  <2>2. Len(index.lists[f[k]].ids) \in Nat
    <3>1. ListFits(index.lists[f[k]])
      BY <2>1 DEF IndexFits
    <3> DEFINE list == index.lists[f[k]]
    <3> HIDE DEF list
    <3>2. PICK l \in Nat : IsList(list.ids, l)
      BY <3>1 DEF ListFits, list
    <3>3. Len(list.ids) = l
      BY <3>2, ItemsAre
    <3>4. QED BY <3>3 DEF list
  <2>3. offsets[k] \in Nat
    BY <1>3
  <2>4. Len(p[k]) \in Nat
    <3>1. p[k] \in Seq(Nat)
      BY <1>1
    <3>2. QED BY <3>1
  <2>5. entries[k] = [term |-> f[k], df |-> Len(index.lists[f[k]].ids),
                      offset |-> offsets[k], length |-> Len(p[k])]
    BY <1>4
  <2>6. QED BY <2>1, <2>2, <2>3, <2>4, <2>5 DEF DictEntry, Word
<1>6. ASSUME NEW k \in 2 .. w
      PROVE  entries[k - 1].offset + entries[k - 1].length <= entries[k].offset
  <2>1. k \in 1 .. w /\ k - 1 \in 1 .. w
    BY <1>1
  <2>2. /\ entries[k].offset = o[k - 1] /\ entries[k - 1].offset = o[(k - 1) - 1]
        /\ entries[k - 1].length = Len(p[k - 1])
    <3>1. \A j \in 1 .. w : entries[j].offset = offsets[j] /\ entries[j].length = Len(p[j])
      <4>1. SUFFICES ASSUME NEW j \in 1 .. w
                     PROVE  entries[j].offset = offsets[j] /\ entries[j].length = Len(p[j])
        OBVIOUS
      <4>2. entries[j] = [term |-> f[j], df |-> Len(index.lists[f[j]].ids),
                          offset |-> offsets[j], length |-> Len(p[j])]
        BY <1>5
      <4>3. QED BY <4>2
    <3>2. QED BY <1>3, <2>1, <3>1
  <2>3. o[k - 1] = o[(k - 1) - 1] + Len(p[k - 1])
    BY <1>2, <2>1 DEF StartsAt
  <2>4. o[k - 1] \in Nat
    BY <1>3, <2>1
  <2>5. QED BY <2>2, <2>3, <2>4
<1>7. entries \in [1 .. w -> DictEntry]
  BY <1>4, <1>5
<1>8. \A k \in 1 .. w : /\ entries[k].term = f[k] /\ entries[k].df = Len(index.lists[f[k]].ids)
                        /\ entries[k].offset = offsets[k] /\ entries[k].length = Len(p[k])
  <2>1. SUFFICES ASSUME NEW k \in 1 .. w
                 PROVE  /\ entries[k].term = f[k] /\ entries[k].df = Len(index.lists[f[k]].ids)
                        /\ entries[k].offset = offsets[k] /\ entries[k].length = Len(p[k])
    OBVIOUS
  <2>2. entries[k] = [term |-> f[k], df |-> Len(index.lists[f[k]].ids),
                      offset |-> offsets[k], length |-> Len(p[k])]
    BY <1>5
  <2>3. QED BY <2>2
<1>9. EntriesFit(entries, index, w)
  BY <1>6, <1>7, <1>8 DEF EntriesFit, f, p, offsets
<1>10. QED BY <1>9 DEF entries

\* A piece of the entries is a run of its own.
LEMMA PieceIsRun ==
  ASSUME NEW entries, NEW index, NEW w, EntriesFit(entries, index, w),
         NEW pieces, NEW m, NEW at, NEW size, Pieces(pieces, entries, at, m, w, size), NEW b \in 1 .. m
  PROVE  RunOfEntries(pieces[b], Len(pieces[b]))
<1> DEFINE part == pieces[b]
           l == Len(part)
           from == at[b - 1]
<1>1. entries \in [1 .. w -> DictEntry]
  BY DEF EntriesFit
<1>2. /\ from \in Nat /\ at[b] \in Nat /\ at[b] <= w /\ w \in Nat
      /\ l = at[b] - from /\ l \in Nat \ {0} /\ part \in [1 .. l -> DictEntry]
      /\ \A i \in 1 .. l : from + i \in 1 .. w /\ part[i] = entries[from + i]
  <2>1. IsPiece(part, entries, from, at[b], w, DictEntry)
    BY Zenon, <1>1, PieceIs
  <2>2. QED BY <2>1 DEF IsPiece
<1> HIDE DEF part, l, from
<1>3. ASSUME NEW i \in 2 .. l PROVE part[i - 1].offset + part[i - 1].length <= part[i].offset
  <2>1. i \in 1 .. l /\ i - 1 \in 1 .. l /\ from + (i - 1) = (from + i) - 1
    BY <1>2
  <2>2. part[i] = entries[from + i] /\ part[i - 1] = entries[(from + i) - 1]
    <3>1. part[i - 1] = entries[from + (i - 1)]
      BY <1>2, <2>1
    <3>2. QED BY <1>2, <2>1, <3>1
  <2>3. from + i \in 2 .. w
    BY <1>2, <2>1
  <2>4. QED BY <2>2, <2>3 DEF EntriesFit
<1>4. QED BY <1>2, <1>3 DEF RunOfEntries, part, l
\* A block of documents, inflated, is what was deflated.
LEMMA DeflateReads ==
  ASSUME NEW S, NEW docs \in Seq(S)
  PROVE  Deflate(docs) \in Seq(Nat \cup S) /\ Inflate(Deflate(docs)) = docs
<1> DEFINE l == Len(docs)
           A == Nat \cup S
           data == Deflate(docs)
           one == <<l>>
<1>1. l \in Nat
  OBVIOUS
<1>2. one \in Seq(A) /\ Len(one) = 1 /\ one[1] = l
  BY <1>1
<1>3. docs \in Seq(A)
  <2>1. S \subseteq A
    OBVIOUS
  <2> HIDE DEF A
  <2>2. QED BY <2>1
<1>4. data = one \o docs
  BY DEF Deflate
<1> HIDE DEF l, A, data, one
<1>5. data \in Seq(A) /\ Stands(one, data, 1) /\ Stands(docs, data, 1 + 1)
  BY <1>2, <1>3, <1>4, ThenIs
<1>6. data[1] = l
  BY <1>2, <1>5 DEF Stands
<1>7. GetRange(data, 1, l) = docs
  BY <1>3, <1>5, RangeGets DEF l
<1>8. Inflate(data) = docs
  <2>1. 1 + 1 = 2 /\ 1 + l = l + 1
    BY <1>1
  <2>2. QED BY Zenon, <1>6, <1>7, <2>1 DEF Inflate, GetRange
<1>9. QED BY <1>5, <1>8 DEF data, A

\* The documents in blocks.
DocsCut(index, pieces, at, m, n, D) ==
  /\ Pieces(pieces, index.docs, at, m, n, DocsPerBlock)
  /\ DocDataOf(index) = [k \in 1 .. m |-> Deflate(pieces[k])]
  /\ DocDataOf(index) \in [1 .. m -> Seq(Nat \cup D)]

LEMMA DocsInBlocks ==
  ASSUME NEW index, NEW n, NEW D, IndexFits(index, n, D)
  PROVE  \E pieces, at, m : DocsCut(index, pieces, at, m, n, D)
<1> DEFINE docs == index.docs
           pieces == Chunks(docs, DocsPerBlock)
<1>1. n \in Nat /\ docs \in [1 .. n -> D] /\ DocsPerBlock \in Nat \ {0}
  BY SegmentAssumption DEF IndexFits
<1>2. PICK m, at : Pieces(pieces, docs, at, m, n, DocsPerBlock)
  <2> HIDE DEF docs
  <2>1. QED BY <1>1, ChunksAre
<1>3. DOMAIN pieces = 1 .. m
  BY <1>2 DEF Pieces, Parts
<1>4. DocDataOf(index) = [k \in 1 .. m |-> Deflate(pieces[k])]
  BY <1>3 DEF DocDataOf, DocPart
<1> HIDE DEF pieces, docs
<1>5. ASSUME NEW k \in 1 .. m PROVE Deflate(pieces[k]) \in Seq(Nat \cup D)
  <2>1. IsPiece(pieces[k], docs, at[k - 1], at[k], n, D)
    BY Zenon, <1>1, <1>2, PieceIs
  <2>2. QED BY <2>1, DeflateReads DEF IsPiece
<1>6. DocDataOf(index) \in [1 .. m -> Seq(Nat \cup D)]
  BY <1>4, <1>5
<1>7. DocsCut(index, pieces, at, m, n, D)
  BY <1>2, <1>4, <1>6 DEF DocsCut, docs
<1>8. QED BY <1>7

\* The entries in blocks.
EntriesCut(index, pieces, at, m, w) ==
  /\ Pieces(pieces, EntriesOf(index), at, m, w, TermsPerBlock)
  /\ DictOf(index) = [k \in 1 .. m |-> EncodeDictBlock(pieces[k])]
  /\ DictOf(index) \in [1 .. m -> Seq(Nat)]

LEMMA EntriesInBlocks ==
  ASSUME NEW index, NEW n, NEW D, IndexFits(index, n, D), NEW w, w = Cardinality(DOMAIN index.lists)
  PROVE  \E pieces, at, m : EntriesCut(index, pieces, at, m, w)
<1> DEFINE entries == EntriesOf(index)
           pieces == Chunks(entries, TermsPerBlock)
<1>1. w \in Nat /\ EntriesFit(entries, index, w) /\ TermsPerBlock \in Nat \ {0}
  BY PostingsAreBytes, EntriesInOrder, SegmentAssumption
<1>2. entries \in [1 .. w -> DictEntry]
  BY <1>1 DEF EntriesFit
<1> HIDE DEF entries
<1>3. PICK m, at : Pieces(pieces, entries, at, m, w, TermsPerBlock)
  BY <1>1, <1>2, ChunksAre
<1>4. DOMAIN pieces = 1 .. m
  BY <1>3 DEF Pieces, Parts
<1>5. DictOf(index) = [k \in 1 .. m |-> EncodeDictBlock(pieces[k])]
  BY <1>4 DEF DictOf, DictPart, entries
<1> HIDE DEF pieces
<1>6. ASSUME NEW k \in 1 .. m PROVE EncodeDictBlock(pieces[k]) \in Seq(Nat)
  <2>1. RunOfEntries(pieces[k], Len(pieces[k]))
    BY Zenon, <1>1, <1>3, PieceIsRun
  <2>2. QED BY <2>1, DictIsBytes
<1>7. DictOf(index) \in [1 .. m -> Seq(Nat)]
  BY <1>5, <1>6
<1>8. EntriesCut(index, pieces, at, m, w)
  BY <1>3, <1>5, <1>7 DEF EntriesCut, entries
<1>9. QED BY <1>8
-----------------------------------------------------------------------------
(* A segment as it is opened. *)

\* What the reader knows without reading a block.
HeadStands(reader, index, n, w) ==
  /\ reader.footer.numDocs = n /\ FooterSays(reader.footer, index)
  /\ reader.hot.lengths = index.lengths
  /\ reader.hot.bloom = EncodeBloom(DOMAIN index.lists)
  /\ Ranged(PostingsOf(index), w, reader.object, 0)

\* Its blocks of terms: the first term of each, and where they are.
TermsStand(reader, index, pieces, at, m) ==
  /\ reader.hot.termBlocks \in [1 .. m -> TermBlock]
  /\ \A k \in 1 .. m :
       /\ reader.hot.termBlocks[k].first = EntriesOf(index)[at[k - 1] + 1].term
       /\ GetRange(reader.object, reader.hot.termBlocks[k].offset, reader.hot.termBlocks[k].length)
            = EncodeDictBlock(pieces[k])

\* Its blocks of documents: the first id of each, and where they are.
BlocksStand(reader, pieces, at, m) ==
  /\ reader.hot.docBlocks \in [1 .. m -> DocBlock]
  /\ \A k \in 1 .. m :
       /\ reader.hot.docBlocks[k].first = at[k - 1]
       /\ GetRange(reader.object, reader.hot.docBlocks[k].offset, reader.hot.docBlocks[k].length)
            = Deflate(pieces[k])

\* The first entry of each block.
FirstsAre(index, at, m, w) ==
  \A k \in 1 .. m : /\ at[k - 1] = (k - 1) * TermsPerBlock /\ at[k - 1] + 1 \in 1 .. w
                    /\ EntriesOf(index)[at[k - 1] + 1].term \in Seq(Nat)

LEMMA FirstEntries ==
  ASSUME NEW index, NEW w, EntriesFit(EntriesOf(index), index, w),
         NEW pieces, NEW at, NEW m, EntriesCut(index, pieces, at, m, w)
  PROVE  FirstsAre(index, at, m, w)
<1> DEFINE entries == EntriesOf(index)
<1>1. Cuts(at, m, w) /\ entries \in [1 .. w -> DictEntry]
  BY DEF EntriesCut, Pieces, EntriesFit
<1> HIDE DEF entries
<1>2. ASSUME NEW k \in 1 .. m
      PROVE  at[k - 1] + 1 \in 1 .. w /\ entries[at[k - 1] + 1].term \in Seq(Nat)
  <2> DEFINE from == at[k - 1]
  <2>1. w \in Nat /\ from \in Nat /\ at[k] \in Nat /\ from < at[k] /\ at[k] <= w
    <3>1. m \in Nat /\ k \in 0 .. m /\ k - 1 \in 0 .. m
      BY <1>1 DEF Cuts
    <3>2. QED BY <1>1, <3>1 DEF Cuts
  <2> HIDE DEF from
  <2>2. from + 1 \in 1 .. w
    BY <2>1
  <2>3. entries[from + 1] \in DictEntry
    BY <1>1, <2>2
  <2>4. entries[from + 1].term \in Seq(Nat)
    BY <2>3 DEF DictEntry
  <2>5. QED BY <2>2, <2>4 DEF from
<1>3. \A k \in 1 .. m : at[k - 1] = (k - 1) * TermsPerBlock
  BY DEF EntriesCut, Pieces
<1>4. QED BY <1>2, <1>3 DEF FirstsAre, entries

\* The hotcache of an index, once its parts have places.
TermBlocksOf(index, m, base) ==
  [k \in 1 .. m |-> [first |-> EntriesOf(index)[(k - 1) * TermsPerBlock + 1].term,
                     offset |-> Offsets(DictOf(index), base)[k], length |-> Len(DictOf(index)[k])]]

DocBlocksOf(index, d, base) ==
  [k \in 1 .. d |-> [first |-> (k - 1) * DocsPerBlock,
                     offset |-> Offsets(DocDataOf(index), base)[k], length |-> Len(DocDataOf(index)[k])]]

\* The bodies of a segment's parts, one after the other.
PartsOf(index, w, m, d, A) ==
  /\ PostingsOf(index) \in [1 .. w -> Seq(A)] /\ w \in Nat
  /\ DocDataOf(index) \in [1 .. d -> Seq(A)] /\ d \in Nat
  /\ DictOf(index) \in [1 .. m -> Seq(A)] /\ m \in Nat

DocsFollow(index) == Len(FlattenSeq(PostingsOf(index)))
DictFollows(index) == DocsFollow(index) + Len(FlattenSeq(DocDataOf(index)))

LEMMA BodyHolds ==
  ASSUME NEW index, NEW w, NEW m, NEW d, NEW A, PartsOf(index, w, m, d, A)
  PROVE  /\ BodyOf(index) \in Seq(A) /\ DocsFollow(index) \in Nat /\ DictFollows(index) \in Nat
         /\ Stands(FlattenSeq(PostingsOf(index)), BodyOf(index), 1)
         /\ Stands(FlattenSeq(DocDataOf(index)), BodyOf(index), DocsFollow(index) + 1)
         /\ Stands(FlattenSeq(DictOf(index)), BodyOf(index), DictFollows(index) + 1)
<1> DEFINE P == FlattenSeq(PostingsOf(index))
           Q == FlattenSeq(DocDataOf(index))
           R == FlattenSeq(DictOf(index))
           PQ == P \o Q
           body == BodyOf(index)
<1>1. P \in Seq(A) /\ Q \in Seq(A) /\ R \in Seq(A)
  BY FlattenIsLaid DEF PartsOf
<1>2. body = PQ \o R
  BY DEF BodyOf
<1>3. DocsFollow(index) = Len(P) /\ DictFollows(index) = Len(P) + Len(Q)
  BY DEF DocsFollow, DictFollows
<1> HIDE DEF P, Q, R, PQ, body
<1>4. Len(P) \in Nat /\ Len(Q) \in Nat
  BY <1>1
<1>5. PQ \in Seq(A) /\ Concatenates(P, Q, PQ) /\ Stands(P, PQ, 1) /\ Stands(Q, PQ, Len(P) + 1)
  BY <1>1, ThenIs DEF PQ
<1>6. Len(PQ) = Len(P) + Len(Q)
  BY <1>5 DEF Concatenates
<1>7. body \in Seq(A) /\ Stands(PQ, body, 1) /\ Stands(R, body, Len(PQ) + 1)
  BY <1>1, <1>2, <1>5, ThenIs
<1>8. Stands(P, body, 1 + 1 - 1) /\ Stands(Q, body, 1 + (Len(P) + 1) - 1)
  BY <1>5, <1>7, StandsWithin
<1>9. 1 + 1 - 1 = 1 /\ 1 + (Len(P) + 1) - 1 = Len(P) + 1 /\ Len(P) + Len(Q) \in Nat
  BY <1>4
<1>10. Stands(P, body, 1) /\ Stands(Q, body, Len(P) + 1)
  BY <1>8, <1>9
<1>11. QED BY <1>3, <1>4, <1>6, <1>7, <1>9, <1>10 DEF P, Q, R, body

\* So that ranges get them.
PartsRanged(index, w, m, d, object) ==
  /\ Ranged(PostingsOf(index), w, object, 0)
  /\ Ranged(DocDataOf(index), d, object, DocsFollow(index))
  /\ Ranged(DictOf(index), m, object, DictFollows(index))

LEMMA BodyRanged ==
  ASSUME NEW index, NEW w, NEW m, NEW d, NEW A, PartsOf(index, w, m, d, A),
         NEW object, Stands(BodyOf(index), object, 1)
  PROVE  PartsRanged(index, w, m, d, object)
<1> DEFINE P == FlattenSeq(PostingsOf(index))
           Q == FlattenSeq(DocDataOf(index))
           R == FlattenSeq(DictOf(index))
           body == BodyOf(index)
           p == DocsFollow(index)
           q == DictFollows(index)
<1>1. /\ p \in Nat /\ q \in Nat
      /\ Stands(P, body, 1) /\ Stands(Q, body, p + 1) /\ Stands(R, body, q + 1)
  BY BodyHolds
<1> HIDE DEF P, Q, R, body, p, q
<1>2. Stands(P, object, 1 + 1 - 1) /\ Stands(Q, object, 1 + (p + 1) - 1) /\ Stands(R, object, 1 + (q + 1) - 1)
  BY <1>1, StandsWithin DEF body
<1>3. 1 + 1 - 1 = 0 + 1 /\ 1 + (p + 1) - 1 = p + 1 /\ 1 + (q + 1) - 1 = q + 1 /\ 0 \in Nat
  BY <1>1
<1>4. Stands(P, object, 0 + 1) /\ Stands(Q, object, p + 1) /\ Stands(R, object, q + 1)
  BY <1>2, <1>3
<1>5. Ranged(PostingsOf(index), w, object, 0)
  BY <1>3, <1>4, PiecesRanged DEF PartsOf, P
<1>6. Ranged(DocDataOf(index), d, object, p)
  BY <1>1, <1>4, PiecesRanged DEF PartsOf, Q
<1>7. Ranged(DictOf(index), m, object, q)
  BY <1>1, <1>4, PiecesRanged DEF PartsOf, R
<1>8. QED BY <1>5, <1>6, <1>7 DEF PartsRanged, p, q

\* The parts of any index are such.
LEMMA PartsAreOf ==
  ASSUME NEW index, NEW n, NEW D, IndexFits(index, n, D), NEW w, w = Cardinality(DOMAIN index.lists),
         NEW terms, NEW at, NEW m, EntriesCut(index, terms, at, m, w),
         NEW docs, NEW cut, NEW d, DocsCut(index, docs, cut, d, n, D)
  PROVE  PartsOf(index, w, m, d, Nat \cup D)
<1> DEFINE A == Nat \cup D
<1>1. w \in Nat /\ PostingsOf(index) \in [1 .. w -> Seq(Nat)]
  BY PostingsAreBytes
<1>2. DictOf(index) \in [1 .. m -> Seq(Nat)] /\ m \in Nat
  BY DEF EntriesCut, Pieces, Cuts
<1>3. DocDataOf(index) \in [1 .. d -> Seq(A)] /\ d \in Nat
  BY DEF DocsCut, Pieces, Cuts
<1>4. Seq(Nat) \subseteq Seq(A)
  <2>1. Nat \subseteq A
    OBVIOUS
  <2> HIDE DEF A
  <2>2. QED BY <2>1
<1> HIDE DEF A
<1>5. PartsOf(index, w, m, d, A)
  BY <1>1, <1>2, <1>3, <1>4 DEF PartsOf
<1>6. QED BY <1>5 DEF A

\* The hotcache of an index is read as it was written.
LEMMA HotcacheOf ==
  ASSUME NEW index, NEW n, NEW D, IndexFits(index, n, D), NEW w, w = Cardinality(DOMAIN index.lists),
         NEW terms, NEW at, NEW m, EntriesCut(index, terms, at, m, w),
         NEW docs, NEW cut, NEW d, DocsCut(index, docs, cut, d, n, D)
  PROVE  /\ TermBlocksOf(index, m, DictFollows(index)) \in [1 .. m -> TermBlock]
         /\ DocBlocksOf(index, d, DocsFollow(index)) \in [1 .. d -> DocBlock]
         /\ HotOf(index) \in Seq(Nat)
         /\ DecodeHotcache(HotOf(index)) =
              [termBlocks |-> TermBlocksOf(index, m, DictFollows(index)),
               docBlocks |-> DocBlocksOf(index, d, DocsFollow(index)),
               lengths |-> index.lengths, bloom |-> EncodeBloom(DOMAIN index.lists)]
<1> DEFINE A == Nat \cup D
           p == DocsFollow(index)
           q == DictFollows(index)
           tb == TermBlocksOf(index, m, q)
           db == DocBlocksOf(index, d, p)
           dict == DictOf(index)
           data == DocDataOf(index)
           body == BodyOf(index)
           lengths == index.lengths
           bloom == EncodeBloom(DOMAIN index.lists)
<1>0. EntriesFit(EntriesOf(index), index, w)
  BY EntriesInOrder
<1>00. FirstsAre(index, at, m, w)
  BY Zenon, <1>0, FirstEntries
<1>1. PartsOf(index, w, m, d, A)
  BY PartsAreOf
<1>2. m \in Nat /\ d \in Nat /\ DOMAIN dict = 1 .. m /\ DOMAIN data = 1 .. d
  BY <1>1 DEF PartsOf
<1>3. PartsRanged(index, w, m, d, body)
  <2> HIDE DEF A
  <2>1. body \in Seq(A)
    BY <1>1, BodyHolds
  <2>2. Stands(body, body, 1)
    BY <2>1, StandsWhole
  <2>3. QED BY <1>1, <2>2, BodyRanged
<1>4. tb \in [1 .. m -> TermBlock]
  <2>1. SUFFICES ASSUME NEW k \in 1 .. m
                 PROVE  [first |-> EntriesOf(index)[(k - 1) * TermsPerBlock + 1].term,
                         offset |-> Offsets(dict, q)[k], length |-> Len(dict[k])] \in TermBlock
    BY DEF TermBlocksOf
  <2>2. /\ at[k - 1] = (k - 1) * TermsPerBlock /\ at[k - 1] + 1 \in 1 .. w
        /\ EntriesOf(index)[at[k - 1] + 1].term \in Seq(Nat)
    BY <1>00 DEF FirstsAre
  <2>3. Offsets(dict, q)[k] \in Nat /\ Len(dict[k]) \in Nat
    BY <1>3 DEF PartsRanged, Ranged
  <2>4. QED BY <2>2, <2>3 DEF TermBlock
<1>5. db \in [1 .. d -> DocBlock]
  <2>1. SUFFICES ASSUME NEW k \in 1 .. d
                 PROVE  [first |-> (k - 1) * DocsPerBlock,
                         offset |-> Offsets(data, p)[k], length |-> Len(data[k])] \in DocBlock
    BY DEF DocBlocksOf
  <2>2. cut[k - 1] = (k - 1) * DocsPerBlock /\ cut[k - 1] \in Nat
    BY DEF DocsCut, Pieces, Cuts
  <2>3. Offsets(data, p)[k] \in Nat /\ Len(data[k]) \in Nat
    BY <1>3 DEF PartsRanged, Ranged
  <2>4. QED BY <2>2, <2>3 DEF DocBlock
<1>6. lengths \in Seq(Nat)
  BY DEF IndexFits
<1>7. bloom \in Seq(Nat)
  BY BloomIsCells DEF IndexFits
<1>8. HotOf(index) = EncodeHotcache(tb, db, lengths, bloom)
  BY <1>2 DEF HotOf, HotcachePart, DocsFollow, DictFollows, TermBlocksOf, DocBlocksOf
<1> HIDE DEF tb, db, lengths, bloom, p, q
<1>9. /\ EncodeHotcache(tb, db, lengths, bloom) \in Seq(Nat)
      /\ DecodeHotcache(EncodeHotcache(tb, db, lengths, bloom))
           = [termBlocks |-> tb, docBlocks |-> db, lengths |-> lengths, bloom |-> bloom]
  BY <1>2, <1>4, <1>5, <1>6, <1>7, HotcacheReads
<1>10. QED BY <1>4, <1>5, <1>8, <1>9 DEF tb, db, lengths, bloom, p, q

\* So a segment is opened as the index it was written from.
LEMMA SegmentReads ==
  ASSUME NEW index, NEW n, NEW D, IndexFits(index, n, D), NEW w, w = Cardinality(DOMAIN index.lists),
         NEW terms, NEW at, NEW m, EntriesCut(index, terms, at, m, w),
         NEW docs, NEW cut, NEW d, DocsCut(index, docs, cut, d, n, D),
         NEW reader, reader = OpenSegment(WriteSegment(index))
  PROVE  /\ HeadStands(reader, index, n, w)
         /\ TermsStand(reader, index, terms, at, m)
         /\ BlocksStand(reader, docs, cut, d)
         /\ LaidOut(WriteSegment(index), index, BodyOf(index), HotOf(index))
         /\ BodyOf(index) \in Seq(Nat \cup D) /\ HotOf(index) \in Seq(Nat)
<1> DEFINE A == Nat \cup D
           object == WriteSegment(index)
           body == BodyOf(index)
           hot == HotOf(index)
           p == DocsFollow(index)
           q == DictFollows(index)
           tb == TermBlocksOf(index, m, q)
           db == DocBlocksOf(index, d, p)
<1>0. EntriesFit(EntriesOf(index), index, w)
  BY EntriesInOrder
<1>00. FirstsAre(index, at, m, w)
  BY Zenon, <1>0, FirstEntries
<1>1. PartsOf(index, w, m, d, A)
  BY PartsAreOf
<1>2. /\ tb \in [1 .. m -> TermBlock] /\ db \in [1 .. d -> DocBlock] /\ hot \in Seq(Nat)
      /\ DecodeHotcache(hot) = [termBlocks |-> tb, docBlocks |-> db,
                                lengths |-> index.lengths, bloom |-> EncodeBloom(DOMAIN index.lists)]
  BY HotcacheOf
<1>3. body \in Seq(A)
  <2> HIDE DEF A
  <2>1. QED BY <1>1, BodyHolds
<1>4. hot \in Seq(A)
  <2>1. Nat \subseteq A
    OBVIOUS
  <2> HIDE DEF A, hot
  <2>2. QED BY <1>2, <2>1
<1>5. LaidOut(object, index, body, hot)
  <2>1. object = WithFooter(index, body, hot)
    BY WrittenAs
  <2> HIDE DEF A, object, body, hot
  <2>2. QED BY Zenon, <1>3, <1>4, <2>1, FooterIs
<1>6. /\ reader.object = object /\ FooterSays(reader.footer, index)
      /\ reader.hot = DecodeHotcache(hot)
  <2> HIDE DEF A, object, body, hot
  <2>1. reader = OpenSegment(object)
    BY DEF object
  <2>2. QED BY <1>2, <1>5, <2>1, OpensThus
<1>7. Len(index.docs) = n
  BY DEF IndexFits
<1>8. PartsRanged(index, w, m, d, object)
  <2>1. Stands(body, object, 1)
    BY <1>5 DEF LaidOut
  <2> HIDE DEF A, object
  <2>2. QED BY <1>1, <2>1, BodyRanged
<1>9. HeadStands(reader, index, n, w)
  BY <1>2, <1>6, <1>7, <1>8 DEF HeadStands, PartsRanged, FooterSays
<1>10. TermsStand(reader, index, terms, at, m)
  <2>1. reader.hot.termBlocks = tb
    BY <1>2, <1>6
  <2>2. ASSUME NEW k \in 1 .. m
        PROVE  /\ tb[k].first = EntriesOf(index)[at[k - 1] + 1].term
               /\ GetRange(object, tb[k].offset, tb[k].length) = EncodeDictBlock(terms[k])
    <3>1. /\ at[k - 1] = (k - 1) * TermsPerBlock /\ at[k - 1] + 1 \in 1 .. w
          /\ EntriesOf(index)[at[k - 1] + 1].term \in Seq(Nat)
      BY <1>00 DEF FirstsAre
    <3>2. tb[k] = [first |-> EntriesOf(index)[(k - 1) * TermsPerBlock + 1].term,
                   offset |-> Offsets(DictOf(index), q)[k], length |-> Len(DictOf(index)[k])]
      BY DEF TermBlocksOf
    <3>3. GetRange(object, Offsets(DictOf(index), q)[k], Len(DictOf(index)[k])) = DictOf(index)[k]
      BY <1>8 DEF PartsRanged, Ranged
    <3>4. DictOf(index)[k] = EncodeDictBlock(terms[k])
      BY DEF EntriesCut
    <3>5. tb[k].first = EntriesOf(index)[at[k - 1] + 1].term
      BY <3>1, <3>2
    <3>6. tb[k].offset = Offsets(DictOf(index), q)[k] /\ tb[k].length = Len(DictOf(index)[k])
      BY <3>2
    <3>7. QED BY Zenon, <3>3, <3>4, <3>5, <3>6
  <2> HIDE DEF tb, object
  <2>3. QED BY <1>2, <1>6, <2>1, <2>2 DEF TermsStand
<1>11. BlocksStand(reader, docs, cut, d)
  <2>1. reader.hot.docBlocks = db
    BY <1>2, <1>6
  <2>2. ASSUME NEW k \in 1 .. d
        PROVE  /\ db[k].first = cut[k - 1]
               /\ GetRange(object, db[k].offset, db[k].length) = Deflate(docs[k])
    <3>1. cut[k - 1] = (k - 1) * DocsPerBlock
      BY DEF DocsCut, Pieces
    <3>2. db[k] = [first |-> (k - 1) * DocsPerBlock,
                   offset |-> Offsets(DocDataOf(index), p)[k], length |-> Len(DocDataOf(index)[k])]
      BY DEF DocBlocksOf
    <3>3. GetRange(object, Offsets(DocDataOf(index), p)[k], Len(DocDataOf(index)[k])) = DocDataOf(index)[k]
      BY <1>8 DEF PartsRanged, Ranged
    <3>4. DocDataOf(index)[k] = Deflate(docs[k])
      BY DEF DocsCut
    <3>5. db[k].first = cut[k - 1]
      BY <3>1, <3>2
    <3>6. db[k].offset = Offsets(DocDataOf(index), p)[k] /\ db[k].length = Len(DocDataOf(index)[k])
      BY <3>2
    <3>7. QED BY Zenon, <3>3, <3>4, <3>5, <3>6
  <2> HIDE DEF db, object
  <2>3. QED BY <1>2, <1>6, <2>1, <2>2 DEF BlocksStand
<1>12. QED BY <1>2, <1>3, <1>5, <1>9, <1>10, <1>11
-----------------------------------------------------------------------------
(* Looking up a term. *)

\* The terms of an index follow one another, and are told apart.
InTermOrder(f, w) ==
  \A i, j \in 1 .. w : /\ ~Before(f[i], f[j]) <=> j <= i
                       /\ f[i] = f[j] => i = j

LEMMA TermsInOrder ==
  ASSUME NEW words \in SUBSET Word, NEW f, NEW w, TermList(words, f, w)
  PROVE  InTermOrder(f, w)
<1>1. w \in Nat /\ \A i \in 1 .. w : f[i] \in Word
  BY DEF TermList
<1>2. \A i, j \in 1 .. w : i < j => Before(f[i], f[j])
  BY DEF TermList
<1>3. ASSUME NEW i \in 1 .. w, NEW j \in 1 .. w, i < j PROVE Before(f[i], f[j]) /\ ~Before(f[j], f[i])
  <2>1. Before(f[i], f[j])
    BY <1>2, <1>3
  <2>2. ASSUME Before(f[j], f[i]) PROVE FALSE
    <3>1. Before(f[i], f[i])
      BY <1>1, <2>1, <2>2, BeforeAll
    <3>2. QED BY <1>1, <3>1, NotBeforeItself
  <2>3. QED BY <2>1, <2>2
<1>4. ASSUME NEW i \in 1 .. w PROVE ~Before(f[i], f[i])
  BY <1>1, NotBeforeItself
<1>5. ASSUME NEW i \in 1 .. w, NEW j \in 1 .. w
      PROVE  (~Before(f[i], f[j]) <=> j <= i) /\ (f[i] = f[j] => i = j)
  <2>1. i \in Int /\ j \in Int
    BY <1>1
  <2>2. CASE i < j
    <3>1. Before(f[i], f[j])
      BY <1>3, <2>2
    <3>2. f[i] # f[j]
      BY <1>4, <3>1
    <3>3. QED BY <2>1, <2>2, <3>1, <3>2
  <2>3. CASE j < i
    <3>1. Before(f[j], f[i]) /\ ~Before(f[i], f[j])
      BY <1>3, <2>3
    <3>2. f[i] # f[j]
      BY <3>1
    <3>3. QED BY <2>1, <2>3, <3>1, <3>2
  <2>4. CASE i = j
    BY <1>4, <2>1, <2>4
  <2>5. QED BY <2>1, <2>2, <2>3, <2>4
<1>6. QED BY <1>5 DEF InTermOrder

\* A block of the dictionary has its own entries, and those only.
FoundIn(reader, index, at, k, w) ==
  LET found(term) == EntryIn(reader, reader.hot.termBlocks[k], term) IN
  /\ \A j \in 1 .. w : at[k - 1] < j /\ j <= at[k] =>
       found(EntriesOf(index)[j].term) = EntriesOf(index)[j]
  /\ \A term : (\A j \in 1 .. w : EntriesOf(index)[j].term # term) => found(term) = Nothing

LEMMA EntriesAreFound ==
  ASSUME NEW index, NEW w, EntriesFit(EntriesOf(index), index, w), InTermOrder(TermsOf(index), w),
         NEW terms, NEW at, NEW m, EntriesCut(index, terms, at, m, w),
         NEW reader, TermsStand(reader, index, terms, at, m), NEW k \in 1 .. m
  PROVE  FoundIn(reader, index, at, k, w)
<1> DEFINE entries == EntriesOf(index)
           piece == terms[k]
           l == Len(piece)
           from == at[k - 1]
           to == at[k]
           read == DecodeDictBlock(EncodeDictBlock(piece))
           block == reader.hot.termBlocks[k]
<1>1. /\ entries \in [1 .. w -> DictEntry]
      /\ \A j \in 1 .. w : entries[j].term = TermsOf(index)[j]
  BY DEF EntriesFit
<1>2. Pieces(terms, entries, at, m, w, TermsPerBlock)
  BY DEF EntriesCut
<1>3. IsPiece(piece, entries, from, to, w, DictEntry)
  BY Zenon, <1>1, <1>2, PieceIs
<1>4. RunOfEntries(piece, l)
  BY Zenon, <1>2, PieceIsRun
<1>5. /\ from \in Nat /\ to \in Nat /\ to <= w /\ w \in Nat /\ l = to - from /\ l \in Nat
      /\ \A i \in 1 .. l : from + i \in 1 .. w /\ piece[i] = entries[from + i]
  BY <1>3 DEF IsPiece
<1>6. GetRange(reader.object, block.offset, block.length) = EncodeDictBlock(piece)
  BY DEF TermsStand
<1>7. \A term : EntryIn(reader, block, term) = Named(read, term)
  BY <1>6 DEF EntryIn
<1> HIDE DEF entries, piece, l, from, to
<1>8. ASSUME NEW i \in 1 .. l, NEW j \in 1 .. l, piece[i].term = piece[j].term PROVE i = j
  <2>1. from + i \in 1 .. w /\ from + j \in 1 .. w
    BY <1>5
  <2>2. TermsOf(index)[from + i] = TermsOf(index)[from + j]
    BY <1>1, <1>5, <1>8, <2>1
  <2>3. from + i = from + j
    BY <2>1, <2>2 DEF InTermOrder
  <2>4. QED BY <1>5, <2>3
<1>9. /\ \A i \in 1 .. l : Named(read, piece[i].term) = piece[i]
      /\ \A term : (\A i \in 1 .. l : piece[i].term # term) => Named(read, term) = Nothing
  BY <1>4, <1>8, DictionaryReadsBack
<1> HIDE DEF read, block
<1>10. ASSUME NEW j \in 1 .. w, from < j, j <= to
       PROVE  EntryIn(reader, block, entries[j].term) = entries[j]
  <2>1. j - from \in 1 .. l /\ from + (j - from) = j
    BY <1>5, <1>10
  <2>2. piece[j - from] = entries[j]
    BY <1>5, <2>1
  <2>3. QED BY <1>7, <1>9, <2>1, <2>2
<1>11. ASSUME NEW term, \A j \in 1 .. w : entries[j].term # term
       PROVE  EntryIn(reader, block, term) = Nothing
  <2>1. \A i \in 1 .. l : piece[i].term # term
    BY <1>5, <1>11
  <2>2. QED BY <1>7, <1>9, <2>1
<1>12. QED BY <1>10, <1>11 DEF FoundIn, entries, from, to, block

\* A term of the index is found with its entry: the filter lets it pass, and the
\* block that the sparse index leads to is the one it is in.
LEMMA TermIsFound ==
  ASSUME NEW index, NEW n, NEW D, IndexFits(index, n, D), NEW w, w = Cardinality(DOMAIN index.lists),
         NEW terms, NEW at, NEW m, EntriesCut(index, terms, at, m, w),
         NEW reader, HeadStands(reader, index, n, w), TermsStand(reader, index, terms, at, m),
         NEW i \in 1 .. w
  PROVE  Entry(reader, TermsOf(index)[i]) = EntriesOf(index)[i]
<1> DEFINE f == TermsOf(index)
           entries == EntriesOf(index)
           blocks == reader.hot.termBlocks
           words == DOMAIN index.lists
           T == {k \in DOMAIN blocks : ~Before(f[i], blocks[k].first)}
<1>1. words \in SUBSET Word /\ IsFiniteSet(words) /\ \A t \in words : Digest[t] \in Nat \X Nat
  BY DEF IndexFits
<1>2. w \in Nat /\ TermList(words, f, w)
  BY PostingsAreBytes
<1>3. EntriesFit(entries, index, w)
  BY EntriesInOrder
<1>4. InTermOrder(f, w)
  BY <1>1, <1>2, TermsInOrder
<1>5. MayContain(reader.hot.bloom, f[i])
  <2>1. f[i] \in words
    BY <1>2 DEF TermList
  <2>2. MayContain(EncodeBloom(words), f[i])
    BY <1>1, <2>1, BloomNeverWrongNo
  <2>3. QED BY <2>2 DEF HeadStands
<1>6. Cuts(at, m, w)
  BY DEF EntriesCut, Pieces
<1>7. PICK b \in 1 .. m : /\ at[b - 1] < i /\ i <= at[b]
                          /\ \A k \in 1 .. m : at[k - 1] < i <=> k <= b
  BY <1>6, CutBefore
<1>8. m \in Nat
  BY <1>6 DEF Cuts
<1>9. DOMAIN blocks = 1 .. m
  BY DEF TermsStand
<1>10. FirstsAre(index, at, m, w)
  BY Zenon, <1>3, FirstEntries
<1> HIDE DEF f, words
<1>11. ASSUME NEW k \in 1 .. m PROVE k \in T <=> k <= b
  <2> DEFINE j == at[k - 1] + 1
  <2>1. blocks[k].first = entries[j].term
    BY DEF TermsStand
  <2>2. j \in 1 .. w
    BY <1>10 DEF FirstsAre
  <2>3. entries[j].term = f[j]
    BY <1>3, <2>2 DEF EntriesFit, f
  <2>4. k \in T <=> ~Before(f[i], f[j])
    BY <1>9, <2>1, <2>3
  <2>5. at[k - 1] \in Nat
    BY <1>6, <1>8 DEF Cuts
  <2>6. j <= i <=> at[k - 1] < i
    BY <2>5, <1>2
  <2> HIDE DEF j, T
  <2>7. ~Before(f[i], f[j]) <=> j <= i
    BY <1>4, <2>2 DEF InTermOrder
  <2>8. QED BY <1>7, <2>4, <2>6, <2>7
<1>12. Cardinality(T) = b
  <2>1. T \in SUBSET (1 .. m) /\ b \in 0 .. m
    BY <1>8, <1>9
  <2> HIDE DEF T
  <2>2. QED BY <1>8, <1>11, <2>1, CountUpTo
<1>13. Entry(reader, f[i]) = EntryIn(reader, blocks[b], f[i])
  <2>1. b # 0
    BY <1>8
  <2>2. QED BY Zenon, <1>5, <1>12, <2>1 DEF Entry
<1>14. FoundIn(reader, index, at, b, w)
  BY <1>3, <1>4, EntriesAreFound DEF f
<1>15. EntryIn(reader, blocks[b], entries[i].term) = entries[i]
  BY <1>7, <1>14 DEF FoundIn
<1>16. entries[i].term = f[i]
  BY <1>3 DEF EntriesFit, f
<1>17. QED BY <1>13, <1>15, <1>16 DEF f, entries

\* And a term that the index lacks is not found.
LEMMA AbsentIsNothing ==
  ASSUME NEW index, NEW n, NEW D, IndexFits(index, n, D), NEW w, w = Cardinality(DOMAIN index.lists),
         NEW terms, NEW at, NEW m, EntriesCut(index, terms, at, m, w),
         NEW reader, TermsStand(reader, index, terms, at, m),
         NEW term, term \notin DOMAIN index.lists
  PROVE  Entry(reader, term) = Nothing
<1> DEFINE f == TermsOf(index)
           entries == EntriesOf(index)
           blocks == reader.hot.termBlocks
           words == DOMAIN index.lists
           T == {k \in DOMAIN blocks : ~Before(term, blocks[k].first)}
           b == Cardinality(T)
<1>1. w \in Nat /\ TermList(words, f, w) /\ words \in SUBSET Word
  BY PostingsAreBytes DEF IndexFits
<1>2. EntriesFit(entries, index, w)
  BY EntriesInOrder
<1>3. InTermOrder(f, w)
  BY <1>1, TermsInOrder
<1>4. \A j \in 1 .. w : entries[j].term # term
  <2>1. \A j \in 1 .. w : entries[j].term = f[j] /\ f[j] \in words
    BY <1>1, <1>2 DEF EntriesFit, TermList
  <2>2. QED BY <2>1
<1>5. m \in Nat /\ DOMAIN blocks = 1 .. m
  BY DEF EntriesCut, Pieces, Cuts, TermsStand
<1>6. b \in 0 .. m
  <2>1. T \subseteq 1 .. m
    BY <1>5
  <2>2. IsFiniteSet(1 .. m) /\ Cardinality(1 .. m) = m
    BY <1>5, FS_Interval
  <2> HIDE DEF T
  <2>3. IsFiniteSet(T) /\ Cardinality(T) <= Cardinality(1 .. m)
    BY Zenon, <2>1, <2>2, FS_Subset
  <2>4. b \in Nat
    BY <2>3, FS_CardinalityType
  <2>5. QED BY <1>5, <2>2, <2>3, <2>4
<1> HIDE DEF f, entries, words
<1>7. CASE ~MayContain(reader.hot.bloom, term) \/ b = 0
  BY Zenon, <1>7 DEF Entry
<1>8. CASE ~(~MayContain(reader.hot.bloom, term) \/ b = 0)
  <2>1. Entry(reader, term) = EntryIn(reader, blocks[b], term)
    BY Zenon, <1>8 DEF Entry
  <2>2. b \in 1 .. m
    <3> HIDE DEF b
    <3>1. QED BY <1>5, <1>6, <1>8
  <2> HIDE DEF b
  <2>3. FoundIn(reader, index, at, b, w)
    BY <1>2, <1>3, <2>2, EntriesAreFound DEF f, entries
  <2>4. QED BY <1>4, <2>1, <2>3 DEF FoundIn, entries
<1>9. QED BY Zenon, <1>7, <1>8
-----------------------------------------------------------------------------
(* Reading a segment back. *)

\* The postings of a term.
PostingsRead(reader, index, t) ==
  /\ Entry(reader, t) # Nothing
  /\ ReadPostings(reader, t) = OpenPostings(EncodeBlocked(index.lists[t].ids, index.lists[t].freqs))
  /\ DocIds(ReadPostings(reader, t)) = index.lists[t].ids
  /\ Freqs(ReadPostings(reader, t)) = index.lists[t].freqs
  /\ DocumentFrequency(reader, t) = Len(index.lists[t].ids)

LEMMA PostingsAreRead ==
  ASSUME NEW index, NEW n, NEW D, IndexFits(index, n, D), NEW w, w = Cardinality(DOMAIN index.lists),
         NEW terms, NEW at, NEW m, EntriesCut(index, terms, at, m, w),
         NEW reader, HeadStands(reader, index, n, w), TermsStand(reader, index, terms, at, m),
         NEW t \in DOMAIN index.lists
  PROVE  PostingsRead(reader, index, t)
<1> DEFINE f == TermsOf(index)
           p == PostingsOf(index)
           list == index.lists[t]
<1>1. w \in Nat /\ TermList(DOMAIN index.lists, f, w) /\ p \in [1 .. w -> Seq(Nat)]
  BY PostingsAreBytes
<1>2. PICK i \in 1 .. w : f[i] = t
  BY <1>1 DEF TermList
<1> DEFINE e == EntriesOf(index)[i]
<1>3. Entry(reader, t) = e
  BY <1>2, TermIsFound
<1>4. /\ e \in DictEntry /\ e.df = Len(list.ids)
      /\ e.offset = Offsets(p, 0)[i] /\ e.length = Len(p[i])
  BY <1>2, EntriesInOrder DEF EntriesFit
<1>5. e # Nothing
  BY <1>4, NothingAssumption DEF DictEntry
<1>6. p[i] = EncodeBlocked(list.ids, list.freqs)
  <2>1. i \in DOMAIN f
    BY <1>1 DEF TermList
  <2>2. QED BY <1>2, <2>1 DEF PostingsOf, PostingsPart
<1> HIDE DEF e, p, f, list
<1>7. GetRange(reader.object, e.offset, e.length) = EncodeBlocked(list.ids, list.freqs)
  <2>1. GetRange(reader.object, Offsets(p, 0)[i], Len(p[i])) = p[i]
    BY DEF HeadStands, Ranged, p
  <2>2. QED BY <1>4, <1>6, <2>1
<1>8. ReadPostings(reader, t) = OpenPostings(EncodeBlocked(list.ids, list.freqs))
  BY <1>3, <1>5, <1>7 DEF ReadPostings, PostingsAt
<1>9. PICK l \in Nat : IsList(list.ids, l) /\ list.freqs \in [1 .. l -> Nat]
  BY DEF IndexFits, ListFits, list
<1>10. ListReadsBack(list.ids, list.freqs)
  BY <1>9, PostingListsReadBack
<1>11. /\ DocIds(ReadPostings(reader, t)) = list.ids
       /\ Freqs(ReadPostings(reader, t)) = list.freqs
  BY <1>8, <1>10 DEF ListReadsBack
<1>12. DocumentFrequency(reader, t) = Len(list.ids)
  BY <1>3, <1>4, <1>5 DEF DocumentFrequency
<1>13. QED BY <1>3, <1>5, <1>8, <1>11, <1>12 DEF PostingsRead, list

\* A document, by its id.
LEMMA DocumentsAreRead ==
  ASSUME NEW index, NEW n, NEW D, IndexFits(index, n, D), NEW w,
         NEW docs, NEW cut, NEW d, DocsCut(index, docs, cut, d, n, D),
         NEW reader, HeadStands(reader, index, n, w), BlocksStand(reader, docs, cut, d),
         NEW i \in 1 .. n
  PROVE  ReadDocument(reader, i - 1) = index.docs[i]
<1> DEFINE blocks == reader.hot.docBlocks
           id == i - 1
           T == {k \in DOMAIN blocks : blocks[k].first <= id}
<1>1. n \in Nat /\ index.docs \in [1 .. n -> D]
  BY DEF IndexFits
<1>2. Pieces(docs, index.docs, cut, d, n, DocsPerBlock) /\ Cuts(cut, d, n)
  BY DEF DocsCut, Pieces
<1>3. PICK b \in 1 .. d : /\ cut[b - 1] < i /\ i <= cut[b]
                          /\ \A k \in 1 .. d : cut[k - 1] < i <=> k <= b
  BY <1>2, CutBefore
<1>4. d \in Nat /\ DOMAIN blocks = 1 .. d
  BY <1>2 DEF Cuts, BlocksStand
<1>5. ASSUME NEW k \in 1 .. d PROVE k \in T <=> k <= b
  <2>1. blocks[k].first = cut[k - 1]
    BY DEF BlocksStand
  <2>2. cut[k - 1] \in Nat
    BY <1>2, <1>4 DEF Cuts
  <2>3. cut[k - 1] <= id <=> cut[k - 1] < i
    BY <1>1, <2>2
  <2>4. k \in T <=> cut[k - 1] < i
    BY <1>4, <2>1, <2>3
  <2>5. QED BY <1>3, <2>4
<1>6. Cardinality(T) = b
  <2>1. T \in SUBSET (1 .. d) /\ b \in 0 .. d
    BY <1>4
  <2> HIDE DEF T
  <2>2. QED BY <1>4, <1>5, <2>1, CountUpTo
<1> DEFINE piece == docs[b]
           from == cut[b - 1]
           to == cut[b]
<1>7. IsPiece(piece, index.docs, from, to, n, D)
  BY Zenon, <1>1, <1>2, PieceIs
<1>8. /\ blocks[b].first = from
      /\ GetRange(reader.object, blocks[b].offset, blocks[b].length) = Deflate(piece)
  BY DEF BlocksStand
<1>9. Inflate(Deflate(piece)) = piece
  BY <1>7, DeflateReads DEF IsPiece
<1>10. id \in 0 .. reader.footer.numDocs - 1
  BY <1>1 DEF HeadStands
<1>11. ReadDocument(reader, id) =
         Inflate(GetRange(reader.object, blocks[b].offset, blocks[b].length))[id - blocks[b].first + 1]
  BY Zenon, <1>6, <1>10 DEF ReadDocument
<1>12. ReadDocument(reader, id) = piece[i - from]
  <2>1. from \in Nat
    BY <1>7 DEF IsPiece
  <2> HIDE DEF from
  <2>2. id - from + 1 = i - from
    BY <1>1, <2>1
  <2> HIDE DEF id
  <2>3. QED BY <1>8, <1>9, <1>11, <2>2
<1>13. piece[i - from] = index.docs[i]
  <2>1. /\ from \in Nat /\ to \in Nat /\ Len(piece) = to - from
        /\ \A j \in 1 .. Len(piece) : piece[j] = index.docs[from + j]
    BY <1>7 DEF IsPiece
  <2>2. i \in Nat /\ from < i /\ i <= to
    BY <1>1, <1>3
  <2> HIDE DEF piece, from, to
  <2>3. i - from \in 1 .. Len(piece) /\ from + (i - from) = i
    BY <2>1, <2>2
  <2>4. QED BY <2>1, <2>3
<1>14. QED BY <1>12, <1>13

\* All of an index.
AllIsThere(reader, index, n) ==
  /\ reader.footer.numDocs = n /\ FooterSays(reader.footer, index)
  /\ reader.hot.lengths = index.lengths
  /\ \A t \in DOMAIN index.lists : PostingsRead(reader, index, t)
  /\ \A t : t \notin DOMAIN index.lists => Entry(reader, t) = Nothing
  /\ \A i \in 1 .. n : ReadDocument(reader, i - 1) = index.docs[i]

LEMMA SegmentIsRead ==
  ASSUME NEW index, NEW n, NEW D, IndexFits(index, n, D)
  PROVE  AllIsThere(OpenSegment(WriteSegment(index)), index, n)
<1> DEFINE w == Cardinality(DOMAIN index.lists)
           reader == OpenSegment(WriteSegment(index))
<1> HIDE DEF w, reader
<1>0. w = Cardinality(DOMAIN index.lists) /\ reader = OpenSegment(WriteSegment(index))
  BY DEF w, reader
<1>1. PICK terms, at, m : EntriesCut(index, terms, at, m, w)
  BY <1>0, EntriesInBlocks
<1>2. PICK docs, cut, d : DocsCut(index, docs, cut, d, n, D)
  BY DocsInBlocks
<1>3. /\ HeadStands(reader, index, n, w)
      /\ TermsStand(reader, index, terms, at, m)
      /\ BlocksStand(reader, docs, cut, d)
  BY <1>0, <1>1, <1>2, SegmentReads
<1>4. \A t \in DOMAIN index.lists : PostingsRead(reader, index, t)
  BY <1>0, <1>1, <1>3, PostingsAreRead
<1>5. \A t : t \notin DOMAIN index.lists => Entry(reader, t) = Nothing
  BY <1>0, <1>1, <1>3, AbsentIsNothing
<1>6. \A i \in 1 .. n : ReadDocument(reader, i - 1) = index.docs[i]
  BY <1>2, <1>3, DocumentsAreRead
<1>7. AllIsThere(reader, index, n)
  BY <1>3, <1>4, <1>5, <1>6 DEF AllIsThere, HeadStands
<1>8. QED BY <1>0, <1>7
-----------------------------------------------------------------------------
(* The index of some documents. *)

\* What a function on a finite set takes is finite.
LEMMA RangeIsFinite ==
  ASSUME NEW S, IsFiniteSet(S), NEW T, NEW f \in [S -> T]
  PROVE  IsFiniteSet(Range(f))
<1>1. f \in Surjection(S, Range(f))
  BY DEF Surjection, Range
<1>2. QED BY <1>1, FS_Surjection

\* A document of words that have a hash, or are dropped.
DocFits(doc) == doc.fields \in Seq(Seq(Dropped \cup DOMAIN Digest))

\* The terms of a text are among its words.
LEMMA TermsOfText ==
  ASSUME NEW words \in Seq(Dropped \cup DOMAIN Digest)
  PROVE  Tokenize(words) \in Seq(DOMAIN Digest)
<1> DEFINE n == Len(words)
           kept == {k \in DOMAIN words : words[k] \notin Dropped}
           m == Cardinality(kept)
           A == DOMAIN Digest
<1>1. n \in Nat /\ DOMAIN words = 1 .. n /\ words \in [1 .. n -> Dropped \cup A]
  OBVIOUS
<1>2. kept \in SUBSET (1 .. n)
  BY <1>1
<1>3. \A k \in kept : words[k] \in A
  BY <1>1
<1> HIDE DEF kept, n
<1>4. kept \in SUBSET Int /\ IsFiniteSet(kept)
  BY <1>1, <1>2, SomePositions
<1>5. /\ m \in Nat /\ Picked(words, kept) = [k \in 1 .. m |-> words[InOrder(kept)[k]]]
      /\ \A k \in 1 .. m : InOrder(kept)[k] \in kept
  BY <1>4, PickedIs
<1> HIDE DEF m, A
<1>6. Picked(words, kept) \in [1 .. m -> A]
  BY <1>3, <1>5
<1>7. Picked(words, kept) \in Seq(A)
  BY <1>5, <1>6, LenIs
<1>8. QED BY <1>7 DEF Tokenize, kept, A

\* Those of a document are those of its texts.
LEMMA TermsOfDoc ==
  ASSUME NEW doc, DocFits(doc)
  PROVE  /\ Terms(doc) \in Seq(DOMAIN Digest) /\ Len(Terms(doc)) \in Nat
         /\ IsFiniteSet(Range(Terms(doc))) /\ Range(Terms(doc)) \subseteq DOMAIN Digest
         /\ \A t : Frequency(doc, t) \in Nat
<1> DEFINE A == DOMAIN Digest
           fields == doc.fields
           n == Len(fields)
           terms == Terms(doc)
           l == Len(terms)
           texts == [f \in DOMAIN fields |-> Tokenize(fields[f])]
<1>1. n \in Nat /\ DOMAIN fields = 1 .. n /\ \A f \in 1 .. n : fields[f] \in Seq(Dropped \cup A)
  BY DEF DocFits
<1>2. \A f \in 1 .. n : Tokenize(fields[f]) \in Seq(A)
  BY <1>1, TermsOfText
<1> HIDE DEF fields, n, A
<1>3. texts \in [1 .. n -> Seq(A)]
  BY <1>1, <1>2
<1>4. terms = FlattenSeq(texts)
  BY DEF Terms, fields
<1> HIDE DEF texts
<1>5. terms \in Seq(A)
  BY <1>1, <1>3, <1>4, FlattenIsLaid
<1> HIDE DEF terms
<1>6. l \in Nat /\ DOMAIN terms = 1 .. l /\ terms \in [1 .. l -> A]
  BY <1>5
<1> HIDE DEF l
<1>7. IsFiniteSet(1 .. l)
  BY <1>6, FS_Interval
<1>8. IsFiniteSet(Range(terms)) /\ Range(terms) \subseteq A
  <2>1. IsFiniteSet(Range(terms))
    BY <1>6, <1>7, RangeIsFinite
  <2>2. QED BY <1>6, <2>1 DEF Range
<1>9. ASSUME NEW t PROVE Frequency(doc, t) \in Nat
  <2> DEFINE at == {k \in DOMAIN terms : terms[k] = t}
  <2>1. at \subseteq 1 .. l
    BY <1>6
  <2>2. Frequency(doc, t) = Cardinality(at)
    BY DEF Frequency, terms
  <2> HIDE DEF at
  <2>3. Cardinality(at) \in Nat
    BY <1>7, <2>1, FS_Subset, FS_CardinalityType
  <2>4. QED BY <2>2, <2>3
<1>10. QED BY <1>5, <1>6, <1>8, <1>9 DEF terms, l, A

\* And those of some documents are finitely many.
LEMMA TermsOfAll ==
  ASSUME NEW n \in Nat, NEW D, NEW docs \in [1 .. n -> D], \A doc \in D : DocFits(doc)
  PROVE  IsFiniteSet(TermsIn(docs)) /\ TermsIn(docs) \subseteq DOMAIN Digest
<1> DEFINE g == [i \in 1 .. n |-> Range(Terms(docs[i]))]
<1>1. \A i \in 1 .. n : IsFiniteSet(g[i]) /\ g[i] \subseteq DOMAIN Digest
  <2> SUFFICES ASSUME NEW i \in 1 .. n PROVE IsFiniteSet(g[i]) /\ g[i] \subseteq DOMAIN Digest
    OBVIOUS
  <2>1. DocFits(docs[i])
    OBVIOUS
  <2>2. QED BY <2>1, TermsOfDoc
<1>2. TermsIn(docs) = UNION Range(g)
  <2>1. TermsIn(docs) = UNION {Range(Terms(docs[i])) : i \in 1 .. n}
    BY DEF TermsIn
  <2>2. DOMAIN g = 1 .. n /\ \A i \in 1 .. n : g[i] = Range(Terms(docs[i]))
    OBVIOUS
  <2> HIDE DEF g
  <2>3. {g[i] : i \in DOMAIN g} = {Range(Terms(docs[i])) : i \in 1 .. n}
    BY <2>2
  <2>4. Range(g) = {g[i] : i \in DOMAIN g}
    BY DEF Range
  <2>5. QED BY <2>1, <2>3, <2>4
<1>3. IsFiniteSet(Range(g))
  <2>1. g \in [1 .. n -> SUBSET DOMAIN Digest]
    BY <1>1
  <2>2. IsFiniteSet(1 .. n)
    BY FS_Interval
  <2> HIDE DEF g
  <2>3. QED BY <2>1, <2>2, RangeIsFinite
<1>4. \A T \in Range(g) : IsFiniteSet(T) /\ T \subseteq DOMAIN Digest
  <2>1. DOMAIN g = 1 .. n
    OBVIOUS
  <2> HIDE DEF g
  <2>2. QED BY <1>1, <2>1 DEF Range
<1> HIDE DEF g
<1>5. IsFiniteSet(UNION Range(g))
  BY <1>3, <1>4, FS_UNION
<1>6. QED BY <1>2, <1>4, <1>5

\* An index of documents in memory is an index.
LEMMA MemoryFits ==
  ASSUME NEW n \in Nat, NEW D, NEW docs \in [1 .. n -> D], \A doc \in D : DocFits(doc)
  PROVE  IndexFits(MemoryIndex(docs), n, D) /\ DOMAIN MemoryIndex(docs).lists = TermsIn(docs)
<1> DEFINE index == MemoryIndex(docs)
           holding(t) == {i \in DOMAIN docs : Frequency(docs[i], t) > 0}
           set(t) == {i - 1 : i \in holding(t)}
           ids(t) == InOrder(set(t))
           freqs(t) == [k \in DOMAIN ids(t) |-> Frequency(docs[ids(t)[k] + 1], t)]
           words == TermsIn(docs)
           lengths == [i \in DOMAIN docs |-> Len(Terms(docs[i]))]
           lists == [t \in words |-> [ids |-> ids(t), freqs |-> freqs(t)]]
<1>1. index.docs = docs /\ index.lengths = lengths /\ index.lists = lists
  BY DEF MemoryIndex
<1>2. DOMAIN docs = 1 .. n /\ \A i \in 1 .. n : DocFits(docs[i])
  OBVIOUS
<1>3. lengths \in [1 .. n -> Nat]
  <2>1. \A i \in 1 .. n : Len(Terms(docs[i])) \in Nat
    BY <1>2, TermsOfDoc
  <2>2. QED BY <1>2, <2>1
<1>4. IsFiniteSet(words) /\ words \subseteq DOMAIN Digest
  BY TermsOfAll
<1>5. words \in SUBSET Word /\ \A t \in words : Digest[t] \in Nat \X Nat
  BY <1>4, DigestAssumption DEF Word
<1>6. ASSUME NEW t \in words PROVE ListFits(lists[t])
  <2> DEFINE S == set(t)
             u == ids(t)
             v == freqs(t)
             w == Cardinality(S)
  <2>1. S \in SUBSET (0 .. n - 1)
    BY <1>2
  <2>2. S \in SUBSET Nat /\ S \in SUBSET Int
    BY <2>1
  <2>3. lists[t].ids = u /\ lists[t].freqs = v
    OBVIOUS
  <2>4. u = InOrder(S) /\ v = [k \in DOMAIN u |-> Frequency(docs[u[k] + 1], t)]
    OBVIOUS
  <2> HIDE DEF S, u, v, w, lists
  <2>5. IsFiniteSet(S) /\ w \in Nat
    <3>1. IsFiniteSet(0 .. n - 1)
      BY FS_Interval
    <3>2. QED BY <2>1, <3>1, FS_Subset, FS_CardinalityType DEF w
  <2>6. IsList(u, w)
    BY <2>2, <2>4, <2>5, InOrderIsList DEF w
  <2>7. u \in [1 .. w -> S]
    BY <2>2, <2>4, <2>5, InOrderLists DEF Lists, w
  <2>8. \A k \in 1 .. w : Frequency(docs[u[k] + 1], t) \in Nat
    <3>1. SUFFICES ASSUME NEW k \in 1 .. w PROVE Frequency(docs[u[k] + 1], t) \in Nat
      OBVIOUS
    <3>2. u[k] \in 0 .. n - 1
      BY <2>1, <2>7
    <3>3. u[k] + 1 \in 1 .. n
      BY <3>2
    <3>4. DocFits(docs[u[k] + 1])
      BY <1>2, <3>3
    <3>5. QED BY <3>4, TermsOfDoc
  <2>9. v \in [1 .. w -> Nat]
    BY <2>4, <2>7, <2>8
  <2>10. QED BY <2>3, <2>5, <2>6, <2>9 DEF ListFits
<1>7. DOMAIN lists = words
  OBVIOUS
<1> HIDE DEF lists, lengths, words, index
<1>8. IndexFits(index, n, D)
  BY <1>1, <1>3, <1>4, <1>5, <1>6, <1>7 DEF IndexFits
<1>9. QED BY <1>1, <1>7, <1>8 DEF index, words

\* So the segment of some documents has them all.
LEMMA DocsAreRead ==
  ASSUME NEW n \in Nat, NEW D, NEW docs \in [1 .. n -> D], \A doc \in D : DocFits(doc)
  PROVE  AllIsThere(OpenSegment(WriteSegment(MemoryIndex(docs))), MemoryIndex(docs), n)
<1>1. IndexFits(MemoryIndex(docs), n, D)
  BY MemoryFits
<1>2. QED BY <1>1, SegmentIsRead

LEMMA SegmentReadsBack ==
  ASSUME NEW n \in Nat, NEW D, NEW docs \in [1 .. n -> D], \A doc \in D : DocFits(doc)
  PROVE  ReadsBack(docs, OpenSegment(WriteSegment(MemoryIndex(docs))))
<1> DEFINE index == MemoryIndex(docs)
           reader == OpenSegment(WriteSegment(index))
           df(t) == IF t \in DOMAIN index.lists THEN Len(index.lists[t].ids) ELSE 0
           same(t) ==
             IF t \notin DOMAIN index.lists THEN ReadPostings(reader, t) = Nothing
             ELSE /\ Entry(reader, t) # Nothing
                  /\ DocIds(ReadPostings(reader, t)) = index.lists[t].ids
                  /\ Freqs(ReadPostings(reader, t)) = index.lists[t].freqs
<1>1. AllIsThere(reader, index, n)
  BY DocsAreRead
<1>2. index.docs = docs
  BY DEF MemoryIndex
<1>3. DOMAIN docs = 1 .. n /\ Len(docs) = n
  BY LenIs
<1> HIDE DEF index, reader
<1>4. ASSUME NEW t PROVE same(t) /\ DocumentFrequency(reader, t) = df(t)
  <2>1. CASE t \in DOMAIN index.lists
    <3>1. PostingsRead(reader, index, t)
      BY <1>1, <2>1 DEF AllIsThere
    <3>2. QED BY <2>1, <3>1 DEF PostingsRead
  <2>2. CASE t \notin DOMAIN index.lists
    <3>1. Entry(reader, t) = Nothing
      BY <1>1, <2>2 DEF AllIsThere
    <3>2. ReadPostings(reader, t) = Nothing
      BY <3>1 DEF ReadPostings, PostingsAt
    <3>3. DocumentFrequency(reader, t) = 0
      BY <3>1 DEF DocumentFrequency
    <3>4. QED BY <2>2, <3>2, <3>3
  <2>3. QED BY <2>1, <2>2
<1>5. \A i \in DOMAIN docs :
        ReadDocument(reader, i - 1) = docs[i] /\ reader.hot.lengths[i] = index.lengths[i]
  BY <1>1, <1>2, <1>3 DEF AllIsThere
<1>6. reader.footer.numDocs = Len(docs)
  BY <1>1, <1>3 DEF AllIsThere
<1>7. ReadsBack(docs, reader)
  <2>1. \A t \in DOMAIN Digest : same(t) /\ DocumentFrequency(reader, t) = df(t)
    BY <1>4
  <2>2. QED BY Zenon, <1>5, <1>6, <2>1 DEF ReadsBack, index
<1>8. QED BY <1>7 DEF reader, index

\* A merge reads the documents of its sources in order, and writes the segment
\* that they would have been written to at once.
LEMMA MergedIsWhole ==
  ASSUME NEW n \in Nat, NEW D, NEW docs \in [1 .. n -> D], \A doc \in D : DocFits(doc),
         NEW size \in Nat \ {0}, NEW readers,
         readers = [k \in DOMAIN BatchIngest(docs, size) |-> OpenSegment(BatchIngest(docs, size)[k].object)]
  PROVE  MergedObject(readers) = WriteSegment(MemoryIndex(docs))
<1> DEFINE part == Chunks(docs, size)
           got == [k \in DOMAIN readers |->
                     [i \in 1 .. readers[k].footer.numDocs |-> ReadDocument(readers[k], i - 1)]]
<1>1. PICK m, at : Pieces(part, docs, at, m, n, size)
  BY ChunksAre
<1>2. Cuts(at, m, n) /\ part = Parts(docs, at, m)
  BY <1>1 DEF Pieces
<1>3. DOMAIN part = 1 .. m
  BY <1>2 DEF Parts
<1>4. readers = [k \in 1 .. m |-> OpenSegment(WriteSegment(MemoryIndex(part[k])))]
  BY <1>3 DEF BatchIngest
<1> HIDE DEF part
<1>5. ASSUME NEW k \in 1 .. m
      PROVE  [i \in 1 .. readers[k].footer.numDocs |-> ReadDocument(readers[k], i - 1)] = part[k]
  <2> DEFINE piece == part[k]
             l == Len(piece)
             reader == readers[k]
  <2>1. IsPiece(piece, docs, at[k - 1], at[k], n, D)
    BY Zenon, <1>1, PieceIs
  <2>2. l \in Nat /\ piece \in [1 .. l -> D]
    BY <2>1 DEF IsPiece
  <2>3. reader = OpenSegment(WriteSegment(MemoryIndex(piece)))
    BY <1>4
  <2> HIDE DEF piece, l, reader
  <2>4. AllIsThere(reader, MemoryIndex(piece), l)
    BY <2>2, <2>3, DocsAreRead
  <2>5. MemoryIndex(piece).docs = piece
    BY DEF MemoryIndex
  <2>6. reader.footer.numDocs = l /\ \A i \in 1 .. l : ReadDocument(reader, i - 1) = piece[i]
    BY <2>4, <2>5 DEF AllIsThere
  <2>7. [i \in 1 .. reader.footer.numDocs |-> ReadDocument(reader, i - 1)] = piece
    BY <2>2, <2>6
  <2>8. QED BY <2>7 DEF piece, reader
<1>6. got = part
  <2>1. DOMAIN readers = 1 .. m /\ part = [k \in 1 .. m |-> part[k]]
    BY <1>2, <1>4 DEF Parts
  <2> HIDE <1>4
  <2>2. QED BY <1>5, <2>1
<1>7. FlattenSeq(part) = docs
  BY <1>2, PartsTogether
<1>8. QED BY <1>6, <1>7 DEF MergedObject

\* A part of an object has no footer: its last cells begin among those of the
\* body or the hotcache, where no magic is.
LEMMA TornHasNoFooter ==
  ASSUME NEW S, Magic \notin S, NEW body \in Seq(S), NEW hot \in Seq(S), NEW index, NEW object,
         LaidOut(object, index, body, hot), NEW l \in 0 .. Len(object) - 1
  PROVE  OpenSegment(SubSeq(object, 1, l)) = Nothing
<1> DEFINE b == Len(body)
           h == Len(hot)
           x == SubSeq(object, 1, l)
           tail == TailOf(x, FooterSize)
<1>1. /\ b \in Nat /\ h \in Nat /\ Len(object) = b + h + 11 /\ l \in Nat
      /\ Stands(body, object, 1) /\ Stands(hot, object, b + 1)
  BY DEF LaidOut, FooterSize
<1>2. ASSUME NEW j \in 1 .. b + h PROVE object[j] # Magic
  <2>1. CASE j <= b
    <3>1. object[1 + j - 1] = body[j] /\ 1 + j - 1 = j /\ j \in 1 .. b
      BY <1>1, <2>1 DEF Stands
    <3>2. body[j] \in S
      BY <3>1
    <3>3. QED BY <3>1, <3>2
  <2>2. CASE j > b
    <3>1. j - b \in 1 .. h /\ (b + 1) + (j - b) - 1 = j
      BY <1>1, <2>2
    <3>2. object[(b + 1) + (j - b) - 1] = hot[j - b]
      BY <1>1, <3>1 DEF Stands
    <3>3. hot[j - b] \in S
      BY <3>1
    <3>4. QED BY <3>1, <3>2, <3>3
  <2>3. QED BY <1>1, <2>1, <2>2
<1> HIDE DEF b, h
<1>3. x = [i \in 1 .. l |-> object[i]]
  <2>1. x = [i \in 1 .. l - 1 + 1 |-> object[i + 1 - 1]]
    BY <1>1 DEF SubSeq
  <2>2. l - 1 + 1 = l /\ \A i \in 1 .. l : i + 1 - 1 = i
    BY <1>1
  <2>3. QED BY <2>1, <2>2
<1>4. Len(x) = l
  <2> DEFINE A == {object[i] : i \in 1 .. l}
  <2>1. x \in [1 .. l -> A]
    BY <1>3
  <2> HIDE DEF A, x
  <2>2. QED BY <1>1, <2>1, LenIs
<1> DEFINE from == 1 + (IF l > 11 THEN l - 11 ELSE 0)
<1>5. tail = SubSeq(x, from, l)
  <2> HIDE DEF x
  <2>1. QED BY <1>4 DEF TailOf, FooterSize
<1>6. from \in Int /\ from >= 1 /\ from <= l + 1
  BY <1>1
<1> HIDE DEF x, tail
<1>7. tail = [i \in 1 .. l - from + 1 |-> x[i + from - 1]]
  <2> HIDE DEF from
  <2>1. QED BY <1>1, <1>5, <1>6 DEF SubSeq
<1>8. CASE l < 11
  <2>1. from = 1
    BY <1>1, <1>8
  <2>2. l - 1 + 1 = l
    BY <1>1
  <2> DEFINE A == {x[i + from - 1] : i \in 1 .. l}
  <2>3. tail \in [1 .. l -> A]
    BY <1>7, <2>1, <2>2
  <2> HIDE DEF A
  <2>4. Len(tail) = l
    BY <1>1, <2>3, LenIs
  <2>5. NoFooter(tail)
    BY <1>8, <2>4 DEF NoFooter, FooterSize
  <2>6. QED BY Zenon, <2>5 DEF OpenSegment, tail, x
<1>9. CASE ~(l < 11)
  <2>1. from = l - 10
    BY <1>1, <1>9
  <2>2. l - from + 1 >= 1 /\ from \in 1 .. l /\ from \in 1 .. b + h
    BY <1>1, <1>9, <2>1
  <2> HIDE DEF from
  <2>3. 1 \in 1 .. l - from + 1 /\ 1 + from - 1 = from
    BY <1>1, <1>6, <2>2
  <2>4. tail[1] = x[from]
    BY <1>7, <2>3
  <2>5. tail[1] # Magic
    BY <1>2, <1>3, <2>2, <2>4
  <2>6. NoFooter(tail)
    BY <2>5 DEF NoFooter
  <2>7. QED BY Zenon, <2>6 DEF OpenSegment, tail, x
<1>10. QED BY <1>8, <1>9 DEF x

LEMMA TornSegment ==
  ASSUME NEW n \in Nat, NEW D, NEW docs \in [1 .. n -> D], \A doc \in D : DocFits(doc),
         Magic \notin Nat \cup D
  PROVE  TornIsRefused(WriteSegment(MemoryIndex(docs)))
<1> DEFINE index == MemoryIndex(docs)
           w == Cardinality(DOMAIN index.lists)
           object == WriteSegment(index)
           A == Nat \cup D
           reader == OpenSegment(WriteSegment(index))
<1>1. IndexFits(index, n, D)
  BY MemoryFits
<1> HIDE DEF index, w, reader
<1>0. w = Cardinality(DOMAIN index.lists) /\ reader = OpenSegment(WriteSegment(index))
  BY DEF w, reader
<1>2. PICK terms, at, m : EntriesCut(index, terms, at, m, w)
  BY <1>0, <1>1, EntriesInBlocks
<1>3. PICK pieces, cut, d : DocsCut(index, pieces, cut, d, n, D)
  BY <1>1, DocsInBlocks
<1>4. /\ LaidOut(object, index, BodyOf(index), HotOf(index))
      /\ BodyOf(index) \in Seq(A) /\ HotOf(index) \in Seq(Nat)
  BY <1>0, <1>1, <1>2, <1>3, SegmentReads
<1>5. HotOf(index) \in Seq(A)
  <2>1. Nat \subseteq A
    OBVIOUS
  <2> HIDE DEF A
  <2>2. QED BY <1>4, <2>1
<1>6. Magic \notin A
  OBVIOUS
<1> HIDE DEF A, object
<1>7. \A l \in 0 .. Len(object) - 1 : OpenSegment(SubSeq(object, 1, l)) = Nothing
  BY <1>4, <1>5, <1>6, TornHasNoFooter
<1>8. QED BY <1>7 DEF TornIsRefused, object, index
-----------------------------------------------------------------------------
(* Every input of the run. *)

\* The documents are some of those there are; what is written and opened is
\* theirs.
Opening(parts) == [k \in DOMAIN parts |-> OpenSegment(parts[k].object)]

SegmentsProbe ==
  /\ probe.kind \in {"documents", "written", "opened"} =>
       \E n \in Nat : probe.docs \in [1 .. n -> DocsFrom]
  /\ probe.kind = "documents" => probe.perSegment \in {1, 2}
  /\ probe.kind = "written" =>
       /\ probe.object = WriteSegment(MemoryIndex(probe.docs))
       /\ \E size \in {1, 2} : probe.parts = BatchIngest(probe.docs, size)
  /\ probe.kind = "opened" =>
       /\ probe.object = WriteSegment(MemoryIndex(probe.docs))
       /\ probe.reader = OpenSegment(probe.object)
       /\ \E size \in {1, 2} : probe.readers = Opening(BatchIngest(probe.docs, size))

LEMMA SegmentsAlways == Spec => []SegmentsProbe
<1>1. Init => SegmentsProbe
  BY DEF Init, SegmentsProbe
<1>2. SegmentsProbe /\ [Next]_probe => SegmentsProbe'
  <2> SUFFICES ASSUME SegmentsProbe, [Next]_probe PROVE SegmentsProbe'
    OBVIOUS
  <2>1. CASE ProbeLists
    BY <2>1 DEF ProbeLists, SegmentsProbe
  <2>2. CASE ProbeDocuments
    <3>1. PICK docs \in SeqsUpTo(DocsFrom, MaxIndexed), size \in {1, 2} :
            probe' = [kind |-> "documents", docs |-> docs, perSegment |-> size]
      BY <2>2 DEF ProbeDocuments
    <3>2. PICK n \in 0 .. MaxIndexed : docs \in [1 .. n -> DocsFrom]
      BY DEF SeqsUpTo
    <3>3. n \in Nat
      BY BoundsAssumption
    <3>4. probe'.kind = "documents" /\ probe'.docs = docs /\ probe'.perSegment \in {1, 2}
      BY <3>1
    <3>5. QED BY <3>2, <3>3, <3>4 DEF SegmentsProbe
  <2>3. CASE ProbePlan
    BY <2>3 DEF ProbePlan, SegmentsProbe
  <2>4. CASE ProbeUnion
    BY <2>4 DEF ProbeUnion, SegmentsProbe
  <2>5. CASE ProbeRows
    BY <2>5 DEF ProbeRows, SegmentsProbe
  <2>6. CASE ProbeModel
    BY <2>6 DEF ProbeModel, SegmentsProbe
  <2>7. CASE WriteThem
    <3>1. /\ probe.kind = "documents" /\ probe'.kind = "written" /\ probe'.docs = probe.docs
          /\ probe'.object = WriteSegment(MemoryIndex(probe.docs))
          /\ probe'.parts = BatchIngest(probe.docs, probe.perSegment)
      BY <2>7 DEF WriteThem
    <3>2. QED BY <3>1 DEF SegmentsProbe
  <2>8. CASE OpenThem
    <3>1. /\ probe.kind = "written" /\ probe'.kind = "opened" /\ probe'.docs = probe.docs
          /\ probe'.object = probe.object /\ probe'.reader = OpenSegment(probe.object)
          /\ probe'.readers = Opening(probe.parts)
      BY <2>8 DEF OpenThem, Opening
    <3>2. QED BY <3>1 DEF SegmentsProbe
  <2>9. CASE ReadThem
    BY <2>9 DEF ReadThem, SegmentsProbe
  <2>10. CASE Ask
    BY <2>10 DEF Ask, SegmentsProbe
  <2>11. CASE UNCHANGED probe
    BY <2>11 DEF SegmentsProbe
  <2>12. QED BY <2>1, <2>2, <2>3, <2>4, <2>5, <2>6, <2>7, <2>8, <2>9, <2>10, <2>11 DEF Next
<1>3. QED BY <1>1, <1>2, PTL DEF Spec

\* For any documents, however many and of whatever words, and any size of the
\* blocks: a segment opened from storage answers for every term and every document
\* as the index it was written from; a merge of segments is cell for cell the
\* segment of all their documents; and a part of one is never opened as a segment
\* (write_segment(), SegmentReader, merge_group()).
THEOREM WhatIsWrittenIsRead == Spec => []SegmentsAreFaithful
<1>1. SegmentsProbe => SegmentsAreFaithful
  <2> SUFFICES ASSUME SegmentsProbe, probe.kind = "opened" PROVE SegmentsAreFaithful
    BY DEF SegmentsAreFaithful
  <2> DEFINE docs == probe.docs
  <2>1. PICK n \in Nat : docs \in [1 .. n -> DocsFrom]
    BY DEF SegmentsProbe
  <2>2. /\ probe.object = WriteSegment(MemoryIndex(docs))
        /\ probe.reader = OpenSegment(probe.object)
    BY DEF SegmentsProbe
  <2>3. PICK size \in {1, 2} : probe.readers = Opening(BatchIngest(docs, size))
    BY DEF SegmentsProbe
  <2>4. size \in Nat \ {0}
    OBVIOUS
  <2>5. (\A doc \in DocsFrom : DocFits(doc)) /\ Magic \notin Nat \cup DocsFrom
    BY DocsAssumption DEF DocFits
  <2> HIDE DEF docs
  <2>6. ReadsBack(docs, probe.reader)
    BY <2>1, <2>2, <2>5, SegmentReadsBack
  <2>7. MergedObject(probe.readers) = probe.object
    BY <2>1, <2>2, <2>3, <2>4, <2>5, MergedIsWhole DEF Opening
  <2>8. TornIsRefused(probe.object)
    BY <2>1, <2>2, <2>5, TornSegment
  <2>9. QED BY <2>6, <2>7, <2>8 DEF SegmentsAreFaithful, docs
<1>2. QED BY <1>1, SegmentsAlways, PTL
-----------------------------------------------------------------------------
(* The indexes of some documents, in memory and on disk. *)

\* The posting list of a term has the documents it is in, and how often.
Posts(list, docs, n, t) ==
  /\ IsList(list.ids, Len(list.ids)) /\ list.freqs \in [1 .. Len(list.ids) -> Nat]
  /\ \A x : x \in Range(list.ids) <=> \E i \in 1 .. n : Frequency(docs[i], t) > 0 /\ x = i - 1
  /\ \A k \in 1 .. Len(list.ids) : list.freqs[k] = Frequency(docs[list.ids[k] + 1], t)

\* If it is of a segment, it is kept opened.
OpenedRight(list) ==
  list.open = Nothing \/ list.open = OpenPostings(EncodeBlocked(list.ids, list.freqs))

Indexes(index, docs, n) ==
  /\ DOMAIN index.lists = TermsIn(docs)
  /\ \A t \in TermsIn(docs) : Posts(index.lists[t], docs, n, t) /\ OpenedRight(index.lists[t])
  /\ index.lengths = [i \in 1 .. n |-> Len(Terms(docs[i]))] /\ index.total = SumOf(index.lengths)

LEMMA MemoryPosts ==
  ASSUME NEW n \in Nat, NEW D, NEW docs \in [1 .. n -> D], \A doc \in D : DocFits(doc),
         NEW t \in TermsIn(docs)
  PROVE  Posts(MemoryIndex(docs).lists[t], docs, n, t)
<1> DEFINE holding == {i \in DOMAIN docs : Frequency(docs[i], t) > 0}
           S == {i - 1 : i \in holding}
           u == InOrder(S)
           v == [k \in DOMAIN u |-> Frequency(docs[u[k] + 1], t)]
           list == MemoryIndex(docs).lists[t]
           w == Cardinality(S)
<1>1. list.ids = u /\ list.freqs = v
  BY DEF MemoryIndex
<1>2. IndexFits(MemoryIndex(docs), n, D) /\ t \in DOMAIN MemoryIndex(docs).lists
  BY MemoryFits
<1>3. ListFits(list)
  BY <1>2 DEF IndexFits
<1>4. PICK l \in Nat : IsList(u, l) /\ v \in [1 .. l -> Nat]
  BY <1>1, <1>3 DEF ListFits
<1>5. Len(u) = l
  BY <1>4, ItemsAre
<1>6. S \in SUBSET (0 .. n - 1)
  OBVIOUS
<1>7. S \in SUBSET Int /\ IsFiniteSet(S)
  <2> HIDE DEF S
  <2>1. IsFiniteSet(0 .. n - 1)
    BY FS_Interval
  <2>2. S \in SUBSET Int
    <3>1. \A x \in 0 .. n - 1 : x \in Int
      OBVIOUS
    <3>2. QED BY <1>6, <3>1
  <2>3. QED BY <1>6, <2>1, <2>2, FS_Subset
<1>8. ASSUME NEW x PROVE x \in Range(u) <=> x \in S
  <2> HIDE DEF S
  <2>1. w \in Nat /\ Lists(u, w, S)
    BY <1>7, InOrderLists
  <2> HIDE DEF u, w
  <2>2. DOMAIN u = 1 .. w
    BY <2>1 DEF Lists
  <2>3. QED BY <2>1, <2>2 DEF Lists, Range
<1>9. \A x : x \in S <=> \E i \in 1 .. n : Frequency(docs[i], t) > 0 /\ x = i - 1
  OBVIOUS
<1>10. \A k \in 1 .. l : v[k] = Frequency(docs[u[k] + 1], t)
  <2> HIDE DEF u, S
  <2>1. DOMAIN u = 1 .. l
    BY <1>4 DEF IsList
  <2>2. QED BY <2>1
<1> HIDE DEF u, v, list, S
<1>11. QED BY <1>1, <1>4, <1>5, <1>8, <1>9, <1>10 DEF Posts, list

LEMMA MemoryIndexes ==
  ASSUME NEW n \in Nat, NEW D, NEW docs \in [1 .. n -> D], \A doc \in D : DocFits(doc)
  PROVE  Indexes(InMemory(docs), docs, n)
<1> DEFINE index == MemoryIndex(docs)
           memory == InMemory(docs)
<1>1. DOMAIN index.lists = TermsIn(docs)
  BY MemoryFits
<1>2. index.lengths = [i \in 1 .. n |-> Len(Terms(docs[i]))]
  <2>1. DOMAIN docs = 1 .. n
    OBVIOUS
  <2>2. QED BY <2>1 DEF MemoryIndex
<1>3. \A t \in TermsIn(docs) : Posts(index.lists[t], docs, n, t)
  BY MemoryPosts
<1> HIDE DEF index
<1>4. memory = [lists |-> [t \in DOMAIN index.lists |->
                  [ids |-> index.lists[t].ids, freqs |-> index.lists[t].freqs, open |-> Nothing]],
                lengths |-> index.lengths, total |-> SumOf(index.lengths)]
  BY DEF InMemory, index
<1> HIDE DEF memory
<1>5. DOMAIN memory.lists = TermsIn(docs)
  BY <1>1, <1>4
<1>6. ASSUME NEW t \in TermsIn(docs)
      PROVE  Posts(memory.lists[t], docs, n, t) /\ OpenedRight(memory.lists[t])
  <2>1. memory.lists[t] = [ids |-> index.lists[t].ids, freqs |-> index.lists[t].freqs, open |-> Nothing]
    BY <1>1, <1>4
  <2>2. Posts(index.lists[t], docs, n, t)
    BY <1>3
  <2>3. Posts(memory.lists[t], docs, n, t)
    BY <2>1, <2>2 DEF Posts
  <2>4. QED BY <2>1, <2>3 DEF OpenedRight
<1>7. memory.lengths = index.lengths /\ memory.total = SumOf(index.lengths)
  BY <1>4
<1>8. Indexes(memory, docs, n)
  BY <1>2, <1>5, <1>6, <1>7 DEF Indexes
<1>9. QED BY <1>8 DEF memory

LEMMA DiskIndexes ==
  ASSUME NEW n \in Nat, NEW D, NEW docs \in [1 .. n -> D], \A doc \in D : DocFits(doc),
         NEW reader, reader = OpenSegment(WriteSegment(MemoryIndex(docs)))
  PROVE  Indexes(OnDisk(reader), docs, n)
<1> DEFINE index == MemoryIndex(docs)
           disk == OnDisk(reader)
           words == {u \in DOMAIN Digest : Entry(reader, u) # Nothing}
<1>1. DOMAIN index.lists = TermsIn(docs) /\ TermsIn(docs) \subseteq DOMAIN Digest
  BY MemoryFits, TermsOfAll
<1>2. index.lengths = [i \in 1 .. n |-> Len(Terms(docs[i]))]
  <2>1. DOMAIN docs = 1 .. n
    OBVIOUS
  <2>2. QED BY <2>1 DEF MemoryIndex
<1>3. \A t \in TermsIn(docs) : Posts(index.lists[t], docs, n, t)
  BY MemoryPosts
<1>4. AllIsThere(reader, index, n)
  BY DocsAreRead
<1> HIDE DEF index
<1>5. words = TermsIn(docs)
  BY <1>1, <1>4 DEF AllIsThere, PostingsRead
<1> HIDE DEF words
<1>6. disk = [lists |-> [t \in words |-> Decoded(ReadPostings(reader, t))],
              lengths |-> reader.hot.lengths, total |-> reader.footer.totalLength]
  BY DEF OnDisk, words
<1> HIDE DEF disk
<1>7. disk.lengths = index.lengths /\ disk.total = SumOf(index.lengths)
  BY <1>4, <1>6 DEF AllIsThere, FooterSays
<1>8. ASSUME NEW t \in TermsIn(docs)
      PROVE  Posts(disk.lists[t], docs, n, t) /\ OpenedRight(disk.lists[t])
  <2> DEFINE list == index.lists[t]
             open == OpenPostings(EncodeBlocked(list.ids, list.freqs))
  <2>1. disk.lists[t] = Decoded(ReadPostings(reader, t))
    BY <1>5, <1>6
  <2>2. PostingsRead(reader, index, t)
    BY <1>1, <1>4 DEF AllIsThere
  <2>3. /\ ReadPostings(reader, t) = open
        /\ DocIds(ReadPostings(reader, t)) = list.ids /\ Freqs(ReadPostings(reader, t)) = list.freqs
    BY <2>2 DEF PostingsRead
  <2>4. Posts(list, docs, n, t)
    BY <1>3
  <2> HIDE DEF list, open
  <2>5. disk.lists[t] = [ids |-> list.ids, freqs |-> list.freqs, open |-> open]
    BY <2>1, <2>3 DEF Decoded
  <2>6. Posts(disk.lists[t], docs, n, t)
    BY <2>4, <2>5 DEF Posts
  <2>7. OpenedRight(disk.lists[t])
    BY <2>5 DEF OpenedRight, open
  <2>8. QED BY <2>6, <2>7
<1>9. DOMAIN disk.lists = TermsIn(docs)
  BY <1>5, <1>6
<1>10. QED BY <1>2, <1>7, <1>8, <1>9 DEF Indexes, disk
-----------------------------------------------------------------------------
(* What a query asks for, and which documents have it. *)

\* The words of a text that are not dropped.
LEMMA TokensAre ==
  ASSUME NEW S, NEW words \in Seq(S)
  PROVE  Range(Tokenize(words)) = Range(words) \ Dropped
<1> DEFINE n == Len(words)
           kept == {k \in DOMAIN words : words[k] \notin Dropped}
           m == Cardinality(kept)
<1>1. n \in Nat /\ DOMAIN words = 1 .. n
  OBVIOUS
<1>2. kept \in SUBSET (1 .. n)
  BY <1>1
<1>3. \A k \in 1 .. n : k \in kept <=> words[k] \notin Dropped
  BY <1>1
<1> HIDE DEF kept, n
<1>4. kept \in SUBSET Int /\ IsFiniteSet(kept)
  BY <1>1, <1>2, SomePositions
<1> DEFINE o == InOrder(kept)
           p == Picked(words, kept)
<1>5. /\ m \in Nat /\ DOMAIN p = 1 .. m /\ p = [k \in 1 .. m |-> words[o[k]]]
      /\ \A k \in 1 .. m : o[k] \in kept
      /\ \A i \in kept : \E k \in 1 .. m : o[k] = i
  BY <1>4, PickedIs
<1>6. Tokenize(words) = p
  BY DEF Tokenize, kept
<1> HIDE DEF o, p, m
<1>7. ASSUME NEW t \in Range(p) PROVE t \in Range(words) \ Dropped
  <2>1. PICK k \in 1 .. m : p[k] = t
    BY <1>5, <1>7 DEF Range
  <2>2. o[k] \in kept /\ t = words[o[k]]
    BY <1>5, <2>1
  <2>3. o[k] \in 1 .. n
    BY <1>2, <2>2
  <2>4. QED BY <1>1, <1>3, <2>2, <2>3 DEF Range
<1>8. ASSUME NEW t \in Range(words) \ Dropped PROVE t \in Range(p)
  <2>1. PICK i \in 1 .. n : words[i] = t
    BY <1>1, <1>8 DEF Range
  <2>2. i \in kept
    BY <1>3, <1>8, <2>1
  <2>3. PICK k \in 1 .. m : o[k] = i
    BY <1>5, <2>2
  <2>4. p[k] = t
    BY <1>5, <2>1, <2>3
  <2>5. QED BY <1>5, <2>4 DEF Range
<1>9. QED BY <1>6, <1>7, <1>8

\* A document has a term if one of its texts does, and then at least once.
LEMMA FrequencyIs ==
  ASSUME NEW doc, DocFits(doc), NEW t
  PROVE  /\ Frequency(doc, t) \in 0 .. Len(Terms(doc))
         /\ Frequency(doc, t) > 0 <=> t \in Range(Terms(doc))
<1> DEFINE terms == Terms(doc)
           l == Len(terms)
           at == {k \in DOMAIN terms : terms[k] = t}
<1>1. terms \in Seq(DOMAIN Digest)
  BY TermsOfDoc
<1> HIDE DEF terms
<1>2. l \in Nat /\ DOMAIN terms = 1 .. l
  BY <1>1
<1>3. Frequency(doc, t) = Cardinality(at)
  BY DEF Frequency, terms
<1>4. at \subseteq 1 .. l /\ (at # {} <=> t \in Range(terms))
  BY <1>2 DEF Range
<1> HIDE DEF at, l
<1>5. IsFiniteSet(1 .. l) /\ Cardinality(1 .. l) = l
  BY <1>2, FS_Interval
<1>6. IsFiniteSet(at) /\ Cardinality(at) \in Nat /\ Cardinality(at) <= l
  BY <1>4, <1>5, FS_Subset, FS_CardinalityType
<1>7. Cardinality(at) = 0 <=> at = {}
  BY <1>6, FS_EmptySet
<1> DEFINE count == Frequency(doc, t)
<1> HIDE DEF count
<1>8. count \in 0 .. l /\ (count > 0 <=> count # 0) /\ (count = 0 <=> at = {})
  BY <1>2, <1>3, <1>6, <1>7 DEF count
<1>9. count \in 0 .. l /\ (count > 0 <=> t \in Range(terms))
  BY <1>4, <1>8
<1>10. QED BY <1>9 DEF terms, l, count

\* The terms of a document are the words of its texts that are not dropped.
LEMMA TermsAreWords ==
  ASSUME NEW doc, DocFits(doc)
  PROVE  Range(Terms(doc)) = (UNION {Range(doc.fields[f]) : f \in DOMAIN doc.fields}) \ Dropped
<1> DEFINE A == DOMAIN Digest
           fields == doc.fields
           n == Len(fields)
           texts == [f \in DOMAIN fields |-> Tokenize(fields[f])]
<1>1. n \in Nat /\ DOMAIN fields = 1 .. n /\ \A f \in 1 .. n : fields[f] \in Seq(Dropped \cup A)
  BY DEF DocFits
<1>2. \A f \in 1 .. n : Tokenize(fields[f]) \in Seq(A)
  BY <1>1, TermsOfText
<1>3. \A f \in 1 .. n : Range(Tokenize(fields[f])) = Range(fields[f]) \ Dropped
  BY <1>1, TokensAre
<1>4. Terms(doc) = FlattenSeq(texts)
  BY DEF Terms
<1> HIDE DEF fields, n, A
<1>5. texts \in [1 .. n -> Seq(A)] /\ \A f \in 1 .. n : texts[f] = Tokenize(fields[f])
  BY <1>1, <1>2
<1> HIDE DEF texts
<1>6. \A x : x \in Range(FlattenSeq(texts)) <=> \E f \in 1 .. n : x \in Range(texts[f])
  BY <1>1, <1>5, FlattenHasAll
<1>7. ASSUME NEW x
      PROVE  x \in Range(Terms(doc)) <=> x \in (UNION {Range(fields[f]) : f \in DOMAIN fields}) \ Dropped
  BY <1>1, <1>3, <1>4, <1>5, <1>6
<1>8. QED BY <1>7 DEF fields

\* The terms asked for.
Wanted(query) == Range(Tokenize(query))

Has(doc, t) == Frequency(doc, t) > 0

HasWhat(doc, query, mode) ==
  IF mode = "and" THEN Wanted(query) # {} /\ \A t \in Wanted(query) : Has(doc, t)
  ELSE \E t \in Wanted(query) : Has(doc, t)

LEMMA MatchIs ==
  ASSUME NEW doc, DocFits(doc), NEW query \in Seq(Dropped \cup DOMAIN Digest), NEW mode
  PROVE  Matches(doc, query, mode) <=> HasWhat(doc, query, mode)
<1> DEFINE W == Wanted(query)
           H == UNION {Range(doc.fields[f]) : f \in DOMAIN doc.fields}
<1>1. W \cap Dropped = {}
  BY TokensAre DEF Wanted
<1>2. \A t : Has(doc, t) <=> t \in H /\ t \notin Dropped
  <2>1. \A t : Has(doc, t) <=> t \in Range(Terms(doc))
    BY FrequencyIs DEF Has
  <2>2. QED BY <2>1, TermsAreWords
<1>3. Matches(doc, query, mode) <=>
        (IF mode = "and" THEN W # {} /\ W \subseteq H ELSE W \cap H # {})
  BY DEF Matches, Wanted
<1> HIDE DEF W, H
<1>4. (W \subseteq H) <=> \A t \in W : Has(doc, t)
  BY <1>1, <1>2
<1>5. (W \cap H # {}) <=> \E t \in W : Has(doc, t)
  BY <1>1, <1>2
<1>6. QED BY <1>3, <1>4, <1>5 DEF HasWhat, W
-----------------------------------------------------------------------------
(* Combining several lists. *)

\* Lists of documents, whatever their length.
IdLists == {s \in Seq(Nat) : IsList(s, Len(s))}

LEMMA IdListsAre ==
  ASSUME NEW s, NEW n, IsList(s, n)
  PROVE  s \in IdLists /\ Len(s) = n
<1>1. n \in Nat /\ s \in [1 .. n -> Nat]
  BY DEF IsList
<1>2. s \in Seq(Nat) /\ Len(s) = n
  BY <1>1, LenIs
<1>3. QED BY <1>2 DEF IdLists

LEMMA UnionStays ==
  ASSUME NEW u \in IdLists, NEW v \in IdLists
  PROVE  /\ Union(u, v) \in IdLists
         /\ \A x : x \in Range(Union(u, v)) <=> x \in Range(u) \/ x \in Range(v)
<1>1. IsList(u, Len(u)) /\ IsList(v, Len(v))
  BY DEF IdLists
<1> DEFINE s == Union(u, v)
           n == Len(u)
           m == Len(v)
<1>2. u \in [1 .. n -> Nat] /\ v \in [1 .. m -> Nat]
  BY <1>1 DEF IsList
<1> HIDE DEF s
<1>3. /\ IsList(s, Len(s))
      /\ \A x : x \in Range(s) <=> Items(u, n, x) \/ Items(v, m, x)
  <2> HIDE DEF n, m
  <2>1. s = Union(u, v)
    BY DEF s
  <2>2. IsList(u, n) /\ IsList(v, m)
    BY <1>1 DEF n, m
  <2>3. QED BY <2>1, <2>2, UnionIs
<1>4. \A x : (Items(u, n, x) <=> x \in Range(u)) /\ (Items(v, m, x) <=> x \in Range(v))
  BY <1>2 DEF Items, Range
<1>5. s \in IdLists
  BY <1>3, IdListsAre
<1>6. QED BY <1>3, <1>4, <1>5 DEF s

LEMMA IntersectStays ==
  ASSUME NEW u \in IdLists, NEW v \in IdLists
  PROVE  /\ Intersect(u, v) \in IdLists
         /\ \A x : x \in Range(Intersect(u, v)) <=> x \in Range(u) /\ x \in Range(v)
<1>1. IsList(u, Len(u)) /\ IsList(v, Len(v))
  BY DEF IdLists
<1> DEFINE s == Intersect(u, v)
           n == Len(u)
           m == Len(v)
<1>2. u \in [1 .. n -> Nat] /\ v \in [1 .. m -> Nat]
  BY <1>1 DEF IsList
<1> HIDE DEF s
<1>3. /\ IsList(s, Len(s))
      /\ \A x : x \in Range(s) <=> Items(u, n, x) /\ Items(v, m, x)
  <2> HIDE DEF n, m
  <2>1. s = Intersect(u, v)
    BY DEF s
  <2>2. IsList(u, n) /\ IsList(v, m)
    BY <1>1 DEF n, m
  <2>3. QED BY <2>1, <2>2, IntersectIs
<1>4. \A x : (Items(u, n, x) <=> x \in Range(u)) /\ (Items(v, m, x) <=> x \in Range(v))
  BY <1>2 DEF Items, Range
<1>5. s \in IdLists
  BY <1>3, IdListsAre
<1>6. QED BY <1>3, <1>4, <1>5 DEF s

\* Posting lists, opened where they are of a segment.
OpenedList(list) ==
  /\ list.ids \in IdLists /\ list.freqs \in [1 .. Len(list.ids) -> Nat] /\ OpenedRight(list)

\* The union of lists has what any of them has.
LEMMA UnionAllIs ==
  ASSUME NEW n \in Nat, NEW lists, DOMAIN lists = 1 .. n,
         \A k \in 1 .. n : lists[k].ids \in IdLists,
         NEW all, all = UnionAll(lists)
  PROVE  /\ all \in IdLists
         /\ \A x : x \in Range(all) <=> \E k \in 1 .. n : x \in Range(lists[k].ids)
<1> DEFINE X == IdLists
           step == [i \in 1 .. n |-> [s \in X |-> Union(s, lists[i].ids)]]
           Solves(f) == f = [s \in SUBSET DOMAIN lists |->
             IF s = {} THEN <<>> ELSE Union(f[s \ {Max(s)}], lists[Max(s)].ids)]
           Iter == CHOOSE iter : Solves(iter)
<1>1. <<>> \in X /\ step \in [1 .. n -> [X -> X]]
  <2>1. \A i \in 1 .. n : \A s \in X : Union(s, lists[i].ids) \in X
    BY UnionStays
  <2>2. IsList(<<>>, 0)
    BY DEF IsList
  <2>3. <<>> \in X
    BY <2>2, IdListsAre
  <2> HIDE DEF X
  <2>4. QED BY <2>1, <2>3
<1> HIDE DEF step, X
<1>2. PICK g \in [SUBSET (1 .. n) -> X] : Unwinds(g, <<>>, step, n)
  BY <1>1, FoldSolved
<1>3. Solves(g)
  BY <1>2 DEF Unwinds, step
<1>4. Solves(Iter)
  <2> HIDE DEF Solves
  <2>1. QED BY <1>3
<1>5. all = Iter[DOMAIN lists]
  BY Zenon DEF UnionAll, FoldLeft, MapThenFoldSet
<1> HIDE DEF Iter
<1>6. UnwindsIn(X, Iter, <<>>, step, n)
  BY <1>2, <1>4 DEF step, Unwinds, UnwindsIn
<1>7. WalksTo(X, Iter[1 .. n], <<>>, step, n)
  <2> HIDE DEF Solves
  <2>1. QED BY <1>1, <1>6, FoldWalk
<1>8. PICK w \in [0 .. n -> X] : IsWalk(w, <<>>, step, n) /\ w[n] = Iter[1 .. n]
  BY <1>7 DEF WalksTo
<1>9. w[0] = <<>> /\ \A k \in 1 .. n : w[k] = Union(w[k - 1], lists[k].ids)
  <2>1. \A k \in 1 .. n : w[k - 1] \in X
    BY <1>8
  <2>2. QED BY <1>8, <2>1 DEF step, IsWalk
<1> DEFINE Good(k) == \A x : x \in Range(w[k]) <=> \E j \in 1 .. k : x \in Range(lists[j].ids)
           T == {k \in 0 .. n : Good(k)}
<1>10. 0 \in T
  <2>1. Range(<<>>) = {}
    BY DEF Range
  <2>2. QED BY <1>9, <2>1
<1>11. ASSUME NEW k \in 0 .. n - 1, k \in T PROVE k + 1 \in T
  <2>1. k + 1 \in 1 .. n /\ k + 1 \in 0 .. n /\ (k + 1) - 1 = k /\ k \in 0 .. n
    OBVIOUS
  <2>2. w[k] \in X /\ lists[k + 1].ids \in X
    BY <1>8, <2>1 DEF X
  <2>3. w[k + 1] = Union(w[k], lists[k + 1].ids)
    BY <1>9, <2>1
  <2>4. \A x : x \in Range(w[k + 1]) <=> x \in Range(w[k]) \/ x \in Range(lists[k + 1].ids)
    BY <2>2, <2>3, UnionStays DEF X
  <2>5. Good(k)
    BY <1>11
  <2>6. ASSUME NEW x
        PROVE  x \in Range(w[k + 1]) <=> \E j \in 1 .. k + 1 : x \in Range(lists[j].ids)
    <3>1. \A j \in 1 .. k + 1 : j \in 1 .. k \/ j = k + 1
      BY <2>1
    <3>2. \A j \in 1 .. k : j \in 1 .. k + 1
      BY <2>1
    <3>3. k + 1 \in 1 .. k + 1
      BY <2>1
    <3>4. QED BY <2>4, <2>5, <3>1, <3>2, <3>3
  <2>7. QED BY <2>1, <2>6
<1>12. n \in T
  <2> HIDE DEF T
  <2>1. \A k \in 0 .. n : k \in T
    BY <1>10, <1>11, UpTo
  <2>2. QED BY <2>1
<1>13. all = w[n] /\ w[n] \in X
  BY <1>5, <1>8
<1>14. QED BY <1>12, <1>13 DEF X

\* Skipping through a list finds what walking it does.
Narrowed(lists, result, i) ==
  IF /\ lists[i].open # Nothing /\ result # <<>>
     /\ Len(lists[i].ids) >= Len(result) * SkipRatio
  THEN IntersectSkipping(result, lists[i].open)
  ELSE Intersect(result, lists[i].ids)

LEMMA NarrowedIs ==
  ASSUME NEW lists, NEW i, OpenedList(lists[i]), NEW result \in IdLists
  PROVE  Narrowed(lists, result, i) = Intersect(result, lists[i].ids)
<1> DEFINE v == lists[i].ids
           m == Len(v)
           freqs == lists[i].freqs
           open == lists[i].open
<1>1. v \in IdLists /\ freqs \in [1 .. m -> Nat]
  BY DEF OpenedList
<1>2. open = Nothing \/ open = OpenPostings(EncodeBlocked(v, freqs))
  BY DEF OpenedList, OpenedRight
<1>3. Narrowed(lists, result, i) = Intersect(result, v)
        \/ (open # Nothing /\ Narrowed(lists, result, i) = IntersectSkipping(result, open))
  BY DEF Narrowed
<1> HIDE DEF v, m, freqs, open
<1>4. ASSUME open # Nothing PROVE IntersectSkipping(result, open) = Intersect(result, v)
  <2>1. IsList(result, Len(result)) /\ IsList(v, m)
    BY <1>1 DEF IdLists, m
  <2>2. open = OpenPostings(EncodeBlocked(v, freqs))
    BY <1>2, <1>4
  <2>3. QED BY <1>1, <2>1, <2>2, SkippingIs
<1>5. QED BY <1>3, <1>4 DEF v

\* The order lists are taken in has each of them.
Shorter(lists, i, j) ==
  \/ Len(lists[i].ids) < Len(lists[j].ids)
  \/ Len(lists[i].ids) = Len(lists[j].ids) /\ i < j

ShortestFirst(lists) == SortedBy(DOMAIN lists, LAMBDA i, j : Shorter(lists, i, j))

LEMMA ShortestFirstIs ==
  ASSUME NEW n \in Nat, NEW lists, DOMAIN lists = 1 .. n,
         \A k \in 1 .. n : Len(lists[k].ids) \in Nat
  PROVE  /\ ShortestFirst(lists) \in [1 .. n -> 1 .. n]
         /\ \A k \in 1 .. n : \E i \in 1 .. n : ShortestFirst(lists)[i] = k
<1> DEFINE S == 1 .. n
           size == [k \in S |-> Len(lists[k].ids)]
           under == [j \in S |-> {i \in S : Shorter(lists, i, j)}]
           f == ShortestFirst(lists)
<1>1. IsFiniteSet(S) /\ Cardinality(S) = n
  BY FS_Interval
<1>2. size \in [S -> Nat]
  OBVIOUS
<1>3. \A i, j \in S : i \in under[j] <=> size[i] < size[j] \/ (size[i] = size[j] /\ i < j)
  BY DEF Shorter
<1>4. under \in [S -> SUBSET S] /\ S \subseteq Nat
  OBVIOUS
<1>5. f = Sorted(CountsUnder(S, under))
  <2>1. CountsUnder(S, under) = [j \in S |-> Cardinality({i \in S : Shorter(lists, i, j)})]
    BY DEF CountsUnder
  <2>2. f = Sorted([j \in S |-> Cardinality({i \in S : Shorter(lists, i, j)})])
    BY DEF ShortestFirst, SortedBy
  <2>3. QED BY <2>1, <2>2
<1> HIDE DEF under, size, f
<1>6. TotalOrder(S, under)
  <2> HIDE DEF S
  <2>1. \A x \in S : x \notin under[x]
    BY <1>2, <1>3, <1>4
  <2>2. ASSUME NEW x \in S, NEW y \in S, NEW z \in S, x \in under[y], y \in under[z]
        PROVE  x \in under[z]
    <3>1. size[x] \in Nat /\ size[y] \in Nat /\ size[z] \in Nat /\ x \in Nat /\ y \in Nat /\ z \in Nat
      BY <1>2, <1>4
    <3>2. /\ size[x] < size[y] \/ (size[x] = size[y] /\ x < y)
          /\ size[y] < size[z] \/ (size[y] = size[z] /\ y < z)
      BY <1>3, <2>2
    <3>3. size[x] < size[z] \/ (size[x] = size[z] /\ x < z)
      BY <3>1, <3>2
    <3>4. QED BY <1>3, <3>3
  <2>3. ASSUME NEW x \in S, NEW y \in S PROVE x = y \/ x \in under[y] \/ y \in under[x]
    <3>1. size[x] \in Nat /\ size[y] \in Nat /\ x \in Nat /\ y \in Nat
      BY <1>2, <1>4
    <3>2. \/ x = y
          \/ size[x] < size[y] \/ (size[x] = size[y] /\ x < y)
          \/ size[y] < size[x] \/ (size[y] = size[x] /\ y < x)
      BY <3>1
    <3>3. QED BY <1>3, <3>2
  <2>4. QED BY <1>1, <1>4, <2>1, <2>2, <2>3 DEF TotalOrder
<1>7. InRank(f, n, S, under)
  <2> HIDE DEF S
  <2>1. QED BY <1>1, <1>5, <1>6, SortedIsOrdered
<1>8. f \in [1 .. n -> S] /\ \A x \in S : \E i \in 1 .. n : f[i] = x
  BY <1>7 DEF InRank
<1>9. QED BY <1>8 DEF f

\* The intersection of lists has what all of them have.
LEMMA IntersectAllIs ==
  ASSUME NEW n \in Nat \ {0}, NEW lists, DOMAIN lists = 1 .. n,
         \A k \in 1 .. n : OpenedList(lists[k]),
         NEW all, all = IntersectAll(lists)
  PROVE  /\ all \in IdLists
         /\ \A x : x \in Range(all) <=> \A k \in 1 .. n : x \in Range(lists[k].ids)
<1> DEFINE X == IdLists
           o == ShortestFirst(lists)
           rest == Tail(o)
           m == n - 1
           base == lists[o[1]].ids
           step == [i \in 1 .. m |-> [s \in X |-> Narrowed(lists, s, rest[i])]]
           Solves(f) == f = [s \in SUBSET DOMAIN rest |->
             IF s = {} THEN base ELSE Narrowed(lists, f[s \ {Max(s)}], rest[Max(s)])]
           Iter == CHOOSE iter : Solves(iter)
<1>1. \A k \in 1 .. n : lists[k].ids \in X /\ Len(lists[k].ids) \in Nat
  BY DEF OpenedList, IdLists, IsList
<1>2. o \in [1 .. n -> 1 .. n] /\ \A k \in 1 .. n : \E i \in 1 .. n : o[i] = k
  BY <1>1, ShortestFirstIs
<1>3. all = FoldLeft(LAMBDA s, i : Narrowed(lists, s, i), base, rest)
  BY DEF IntersectAll, Narrowed, ShortestFirst, Shorter
<1> HIDE DEF o
<1>4. m \in Nat /\ DOMAIN rest = 1 .. m /\ \A i \in 1 .. m : i + 1 \in 1 .. n /\ rest[i] = o[i + 1]
  <2>1. Len(o) = n /\ o # <<>> /\ o \in Seq(1 .. n)
    BY <1>2, LenIs
  <2>2. QED BY <1>2, <2>1
<1>5. \A i \in 1 .. m : rest[i] \in 1 .. n
  BY <1>2, <1>4
<1>6. base \in X
  <2>1. 1 \in 1 .. n
    OBVIOUS
  <2>2. o[1] \in 1 .. n
    BY <1>2, <2>1
  <2> HIDE DEF X
  <2>3. QED BY <1>1, <2>2
<1> HIDE DEF rest, base, m
<1>7. \A i \in 1 .. m : \A s \in X : Narrowed(lists, s, rest[i]) = Intersect(s, lists[rest[i]].ids)
  BY <1>5, NarrowedIs
<1>8. step \in [1 .. m -> [X -> X]]
  <2>1. \A i \in 1 .. m : \A s \in X : Narrowed(lists, s, rest[i]) \in X
    BY <1>1, <1>5, <1>7, IntersectStays
  <2> HIDE DEF X
  <2>2. QED BY <2>1
<1> HIDE DEF step, X
<1>9. PICK g \in [SUBSET (1 .. m) -> X] : Unwinds(g, base, step, m)
  BY <1>4, <1>6, <1>8, FoldSolved
<1>10. Solves(g)
  BY <1>4, <1>9 DEF Unwinds, step
<1>11. Solves(Iter)
  <2> HIDE DEF Solves
  <2>1. QED BY <1>10
<1>12. all = Iter[DOMAIN rest]
  BY Zenon, <1>3 DEF FoldLeft, MapThenFoldSet
<1> HIDE DEF Iter
<1>13. UnwindsIn(X, Iter, base, step, m)
  BY <1>4, <1>9, <1>11 DEF step, Unwinds, UnwindsIn
<1>14. WalksTo(X, Iter[1 .. m], base, step, m)
  <2> HIDE DEF Solves
  <2>1. QED BY <1>4, <1>6, <1>8, <1>13, FoldWalk
<1>15. PICK w \in [0 .. m -> X] : IsWalk(w, base, step, m) /\ w[m] = Iter[1 .. m]
  BY <1>14 DEF WalksTo
<1>16. w[0] = base /\ \A k \in 1 .. m : w[k] = Intersect(w[k - 1], lists[rest[k]].ids)
  <2>1. \A k \in 1 .. m : w[k - 1] \in X
    BY <1>4, <1>15
  <2>2. \A k \in 1 .. m : w[k] = Narrowed(lists, w[k - 1], rest[k])
    BY <1>15, <2>1 DEF step, IsWalk
  <2>3. QED BY <1>7, <1>15, <2>1, <2>2 DEF IsWalk
<1> DEFINE Good(k) == \A x : x \in Range(w[k]) <=> \A j \in 1 .. k + 1 : x \in Range(lists[o[j]].ids)
           T == {k \in 0 .. m : Good(k)}
<1>17. 0 \in T
  BY <1>4, <1>16 DEF base
<1>18. ASSUME NEW k \in 0 .. m - 1, k \in T PROVE k + 1 \in T
  <2>1. k + 1 \in 1 .. m /\ k + 1 \in 0 .. m /\ (k + 1) - 1 = k /\ k \in 0 .. m /\ m \in Nat
    BY <1>4
  <2>2. w[k] \in X /\ rest[k + 1] = o[(k + 1) + 1] /\ lists[rest[k + 1]].ids \in X
    BY <1>1, <1>4, <1>5, <1>15, <2>1
  <2>3. w[k + 1] = Intersect(w[k], lists[o[(k + 1) + 1]].ids)
    BY <1>16, <2>1, <2>2
  <2>4. \A x : x \in Range(w[k + 1]) <=> x \in Range(w[k]) /\ x \in Range(lists[o[(k + 1) + 1]].ids)
    BY <2>2, <2>3, IntersectStays DEF X
  <2>5. Good(k)
    BY <1>18
  <2>6. ASSUME NEW x
        PROVE  x \in Range(w[k + 1]) <=> \A j \in 1 .. (k + 1) + 1 : x \in Range(lists[o[j]].ids)
    <3>1. \A j \in 1 .. (k + 1) + 1 : j \in 1 .. k + 1 \/ j = (k + 1) + 1
      BY <2>1
    <3>2. \A j \in 1 .. k + 1 : j \in 1 .. (k + 1) + 1
      BY <2>1
    <3>3. (k + 1) + 1 \in 1 .. (k + 1) + 1
      BY <2>1
    <3>4. QED BY <2>4, <2>5, <3>1, <3>2, <3>3
  <2>7. QED BY <2>1, <2>6
<1>19. m \in T
  <2> HIDE DEF T
  <2>1. \A k \in 0 .. m : k \in T
    BY <1>4, <1>17, <1>18, UpTo
  <2>2. QED BY <1>4, <2>1
<1>20. all = w[m] /\ w[m] \in X
  BY <1>4, <1>12, <1>15
<1>21. m + 1 = n
  BY <1>4 DEF m
<1>22. \A x : x \in Range(all) <=> \A j \in 1 .. n : x \in Range(lists[o[j]].ids)
  <2>1. Good(m)
    BY <1>19
  <2>2. QED BY <1>20, <1>21, <2>1
<1>23. \A x : (\A j \in 1 .. n : x \in Range(lists[o[j]].ids))
                <=> \A k \in 1 .. n : x \in Range(lists[k].ids)
  BY <1>2
<1>24. QED BY <1>20, <1>22, <1>23 DEF X
-----------------------------------------------------------------------------
(* Sums of small numbers. *)

LEMMA SumsExist ==
  ASSUME NEW n \in Nat, NEW seq \in [1 .. n -> Int]
  PROVE  \E t \in [0 .. n -> Int] : Sums(t, seq, n) /\ SumOf(seq) = t[n]
<1> DEFINE step == [i \in 1 .. n |-> [x \in Int |-> x + seq[i]]]
<1>1. 0 \in Int /\ step \in [1 .. n -> [Int -> Int]]
  OBVIOUS
<1> HIDE DEF step
<1>2. PICK t \in [0 .. n -> Int] : IsWalk(t, 0, step, n)
  BY <1>1, WalkExists
<1>3. t[0] = 0 /\ \A k \in 1 .. n : t[k] = t[k - 1] + seq[k]
  <2>1. \A k \in 1 .. n : t[k - 1] \in Int
    BY <1>2
  <2>2. QED BY <1>2, <2>1 DEF step, IsWalk
<1>4. Sums(t, seq, n)
  BY <1>2, <1>3 DEF Sums
<1>5. SumOf(seq) = t[n]
  BY <1>4, SumIs
<1>6. QED BY <1>4, <1>5

LEMMA SumIsNumber ==
  ASSUME NEW n \in Nat, NEW seq \in [1 .. n -> Int]
  PROVE  SumOf(seq) \in Int
<1>1. PICK t \in [0 .. n -> Int] : SumOf(seq) = t[n]
  BY SumsExist
<1>2. QED BY <1>1

LEMMA SumIsBounded ==
  ASSUME NEW b \in Nat, NEW n \in Nat, NEW seq \in [1 .. n -> 0 .. b]
  PROVE  SumOf(seq) \in 0 .. n * b /\ \A k \in 1 .. n : seq[k] <= SumOf(seq)
<1>1. seq \in [1 .. n -> Int]
  OBVIOUS
<1>2. PICK t \in [0 .. n -> Int] : Sums(t, seq, n) /\ SumOf(seq) = t[n]
  BY <1>1, SumsExist
<1> DEFINE Good(k) == t[k] \in 0 .. k * b /\ \A j \in 1 .. k : seq[j] <= t[k]
           T == {k \in 0 .. n : Good(k)}
<1>3. 0 \in T
  BY <1>2 DEF Sums
<1>4. ASSUME NEW k \in 0 .. n - 1, k \in T PROVE k + 1 \in T
  <2>1. k + 1 \in 1 .. n /\ k + 1 \in 0 .. n /\ (k + 1) - 1 = k /\ k \in Nat
    OBVIOUS
  <2>2. t[k + 1] = t[k] + seq[k + 1] /\ seq[k + 1] \in 0 .. b
    BY <1>2, <2>1 DEF Sums
  <2>3. t[k] \in 0 .. k * b /\ \A j \in 1 .. k : seq[j] <= t[k]
    BY <1>4
  <2>4. k * b \in Nat /\ (k + 1) * b = k * b + b
    BY <2>1
  <2>5. t[k + 1] \in 0 .. (k + 1) * b
    <3> DEFINE x == k * b
               y == (k + 1) * b
    <3>1. x \in Nat /\ y = x + b /\ t[k] \in 0 .. x
      BY <2>3, <2>4
    <3> HIDE DEF x, y
    <3>2. t[k + 1] \in 0 .. y
      BY <2>2, <3>1
    <3>3. QED BY <3>2 DEF y
  <2>6. ASSUME NEW j \in 1 .. k + 1 PROVE seq[j] <= t[k + 1]
    <3>1. t[k] \in Nat
      BY <2>3, <2>4
    <3>2. CASE j = k + 1
      BY <2>2, <3>1, <3>2
    <3>3. CASE j \in 1 .. k
      <4>1. seq[j] <= t[k] /\ seq[j] \in Int
        BY <1>1, <2>1, <2>3, <3>3
      <4>2. QED BY <2>2, <3>1, <4>1
    <3>4. QED BY <2>1, <3>2, <3>3
  <2>7. QED BY <2>1, <2>5, <2>6
<1>5. n \in T
  <2> HIDE DEF T
  <2>1. \A k \in 0 .. n : k \in T
    BY <1>3, <1>4, UpTo
  <2>2. QED BY <2>1
<1>6. QED BY <1>2, <1>5
-----------------------------------------------------------------------------
(* Evaluating a query. *)

\* The documents a scan finds.
Scan(docs, query, mode) == {i - 1 : i \in {j \in DOMAIN docs : Matches(docs[j], query, mode)}}

\* A list in an index is one of the documents that have the term.
ListOf(list, docs, n, t) ==
  /\ OpenedList(list)
  /\ \A x : x \in Range(list.ids) <=> \E i \in 1 .. n : Has(docs[i], t) /\ x = i - 1
  /\ \A i \in 1 .. n : Holds(list.ids, i - 1) <=> Has(docs[i], t)
  /\ \A i \in 1 .. n : Has(docs[i], t) =>
       list.freqs[SearchSorted(list.ids, i - 1)] = Frequency(docs[i], t)

LEMMA ListHolds ==
  ASSUME NEW n \in Nat, NEW docs, NEW index, Indexes(index, docs, n), NEW t \in TermsIn(docs)
  PROVE  ListOf(index.lists[t], docs, n, t)
<1> DEFINE list == index.lists[t]
           ids == list.ids
           freqs == list.freqs
           l == Len(ids)
<1>1. Posts(list, docs, n, t) /\ OpenedRight(list)
  BY DEF Indexes
<1> HIDE DEF list
<1>2. /\ IsList(ids, l) /\ freqs \in [1 .. l -> Nat]
      /\ \A x : x \in Range(ids) <=> \E i \in 1 .. n : Has(docs[i], t) /\ x = i - 1
      /\ \A k \in 1 .. l : freqs[k] = Frequency(docs[ids[k] + 1], t)
  BY <1>1 DEF Posts, Has
<1>3. OpenedList(list)
  BY <1>1, <1>2, IdListsAre DEF OpenedList
<1> HIDE DEF ids, freqs, l
<1>4. ids \in [1 .. l -> Nat]
  BY <1>2 DEF IsList
<1>5. ASSUME NEW i \in 1 .. n
      PROVE  /\ Holds(ids, i - 1) <=> Has(docs[i], t)
             /\ Has(docs[i], t) => freqs[SearchSorted(ids, i - 1)] = Frequency(docs[i], t)
  <2> DEFINE d == i - 1
             at == SearchSorted(ids, d)
  <2>1. d \in Int /\ d + 1 = i /\ \A j \in 1 .. n : d = j - 1 => i = j
    OBVIOUS
  <2> HIDE DEF d
  <2>2. /\ Holds(ids, d) <=> \E k \in 1 .. l : ids[k] = d
        /\ \A k \in 1 .. l : ids[k] = d => at = k
    BY <1>2, <2>1, SearchIs
  <2> HIDE DEF at
  <2>3. d \in Range(ids) <=> \E k \in 1 .. l : ids[k] = d
    BY <1>4 DEF Range
  <2>4. d \in Range(ids) <=> Has(docs[i], t)
    <3>1. d \in Range(ids) <=> \E j \in 1 .. n : Has(docs[j], t) /\ d = j - 1
      BY <1>2
    <3>2. d = i - 1
      BY DEF d
    <3>3. QED BY <2>1, <3>1, <3>2
  <2>5. ASSUME Has(docs[i], t) PROVE freqs[at] = Frequency(docs[i], t)
    <3>1. PICK k \in 1 .. l : ids[k] = d
      BY <2>3, <2>4, <2>5
    <3>2. at = k
      BY <2>2, <3>1
    <3>3. freqs[k] = Frequency(docs[d + 1], t)
      BY <1>2, <3>1
    <3>4. QED BY <2>1, <3>2, <3>3
  <2>6. QED BY <2>2, <2>3, <2>4, <2>5 DEF d, at
<1>6. QED BY <1>2, <1>3, <1>5 DEF ListOf, ids, freqs, list

\* Which terms are in some document.
LEMMA TermsInIs ==
  ASSUME NEW n \in Nat, NEW D, NEW docs \in [1 .. n -> D], \A doc \in D : DocFits(doc), NEW t
  PROVE  t \in TermsIn(docs) <=> \E i \in 1 .. n : Has(docs[i], t)
<1>1. \A i \in 1 .. n : Has(docs[i], t) <=> t \in Range(Terms(docs[i]))
  BY FrequencyIs DEF Has
<1>2. t \in TermsIn(docs) <=> \E i \in 1 .. n : t \in Range(Terms(docs[i]))
  BY DEF TermsIn
<1>3. QED BY <1>1, <1>2

\* The terms looked up: all that are wanted and there, in order; none if all must
\* be there and one is not.
FoundTerms(docs, query) == Wanted(query) \cap TermsIn(docs)

LooksUp(terms, docs, query, mode) ==
  LET found == FoundTerms(docs, query) IN
  IF mode = "and" /\ found # Wanted(query) THEN terms = <<>>
  ELSE \E m \in Nat : /\ TermList(found, terms, m) /\ m = Cardinality(found)
                      /\ terms = <<>> <=> found = {}

LEMMA TermsLookedUp ==
  ASSUME NEW n \in Nat, NEW D, NEW docs \in [1 .. n -> D], \A doc \in D : DocFits(doc),
         NEW index, Indexes(index, docs, n), NEW query, NEW mode
  PROVE  LooksUp(PostingsFor(index, query, mode = "and"), docs, query, mode)
<1> DEFINE found == FoundTerms(docs, query)
           terms == PostingsFor(index, query, mode = "and")
           m == Cardinality(found)
<1>1. terms = IF mode = "and" /\ found # Wanted(query) THEN <<>> ELSE SortedTerms(found)
  <2>1. DOMAIN index.lists = TermsIn(docs)
    BY DEF Indexes
  <2>2. QED BY <2>1 DEF PostingsFor, FoundTerms, Wanted
<1>2. found \in SUBSET Word /\ IsFiniteSet(found)
  <2>1. IsFiniteSet(TermsIn(docs)) /\ TermsIn(docs) \subseteq DOMAIN Digest
    BY TermsOfAll
  <2>2. found \subseteq TermsIn(docs)
    BY DEF FoundTerms
  <2> HIDE DEF found
  <2>3. QED BY <2>1, <2>2, FS_Subset, DigestAssumption DEF Word
<1> HIDE DEF found, terms
<1>3. CASE mode = "and" /\ found # Wanted(query)
  BY <1>1, <1>3 DEF LooksUp, found, terms
<1>4. CASE ~(mode = "and" /\ found # Wanted(query))
  <2>1. TermList(found, SortedTerms(found), m)
    BY <1>2, TermsAreSorted
  <2>2. terms = SortedTerms(found)
    BY <1>1, <1>4
  <2>3. TermList(found, terms, m) /\ m \in Nat
    BY <2>1, <2>2 DEF TermList
  <2> HIDE DEF m
  <2>4. terms = <<>> <=> found = {}
    BY <2>3 DEF TermList
  <2>5. QED BY <1>4, <2>3, <2>4 DEF LooksUp, found, terms, m
<1>5. QED BY <1>3, <1>4

\* What a list of terms has.
LooksUpAll(terms, docs, query, m) ==
  /\ terms \in [1 .. m -> FoundTerms(docs, query)]
  /\ \A t \in FoundTerms(docs, query) : \E k \in 1 .. m : terms[k] = t

ListsFor(index, terms) == [k \in DOMAIN terms |-> index.lists[terms[k]]]

CandidatesFor(index, terms, mode) ==
  IF mode = "and" THEN IntersectAll(ListsFor(index, terms)) ELSE UnionAll(ListsFor(index, terms))

\* The documents found are those that a scan finds.
CandidatesRight(index, docs, query, mode, terms) ==
  /\ CandidatesFor(index, terms, mode) \in IdLists
  /\ Range(CandidatesFor(index, terms, mode)) = Scan(docs, query, mode)

LEMMA CandidatesAre ==
  ASSUME NEW n \in Nat, NEW D, NEW docs \in [1 .. n -> D], \A doc \in D : DocFits(doc),
         NEW index, Indexes(index, docs, n),
         NEW query \in Seq(Dropped \cup DOMAIN Digest), NEW mode,
         NEW terms, NEW m \in Nat \ {0}, LooksUpAll(terms, docs, query, m),
         mode = "and" => FoundTerms(docs, query) = Wanted(query)
  PROVE  CandidatesRight(index, docs, query, mode, terms)
<1> DEFINE lists == ListsFor(index, terms)
           got == CandidatesFor(index, terms, mode)
           found == FoundTerms(docs, query)
<1>1. DOMAIN terms = 1 .. m /\ DOMAIN lists = 1 .. m /\ \A k \in 1 .. m : lists[k] = index.lists[terms[k]]
  BY DEF LooksUpAll, ListsFor
<1>2. \A k \in 1 .. m : terms[k] \in found /\ terms[k] \in TermsIn(docs)
  BY DEF LooksUpAll, FoundTerms
<1>3. \A t \in found : \E k \in 1 .. m : terms[k] = t
  BY DEF LooksUpAll
<1>4. ASSUME NEW k \in 1 .. m
      PROVE  /\ OpenedList(lists[k])
             /\ \A x : x \in Range(lists[k].ids) <=> \E i \in 1 .. n : Has(docs[i], terms[k]) /\ x = i - 1
  <2>1. terms[k] \in TermsIn(docs) /\ lists[k] = index.lists[terms[k]]
    BY <1>1, <1>2
  <2>2. ListOf(index.lists[terms[k]], docs, n, terms[k])
    BY <2>1, ListHolds
  <2> HIDE DEF lists
  <2>3. ListOf(lists[k], docs, n, terms[k])
    BY <2>1, <2>2
  <2>4. QED BY <2>3 DEF ListOf
<1> HIDE DEF lists
<1>5. \A k \in 1 .. m : lists[k].ids \in IdLists
  BY <1>4 DEF OpenedList
<1>6. \A i \in 1 .. n : Matches(docs[i], query, mode) <=> HasWhat(docs[i], query, mode)
  BY MatchIs
<1>7. \A i, j \in 1 .. n : i - 1 = j - 1 => i = j
  OBVIOUS
<1>8. \A x : x \in Scan(docs, query, mode) <=> \E i \in 1 .. n : HasWhat(docs[i], query, mode) /\ x = i - 1
  BY <1>6 DEF Scan
<1>9. CASE mode = "and"
  <2>1. got = IntersectAll(lists)
    BY <1>9 DEF CandidatesFor, lists
  <2> HIDE DEF got
  <2>2. /\ got \in IdLists
        /\ \A x : x \in Range(got) <=> \A k \in 1 .. m : x \in Range(lists[k].ids)
    BY <1>1, <1>4, <2>1, IntersectAllIs
  <2>3. \A i \in 1 .. n : HasWhat(docs[i], query, mode) <=> \A k \in 1 .. m : Has(docs[i], terms[k])
    <3>1. found = Wanted(query)
      BY <1>9
    <3> HIDE DEF found
    <3>2. 1 \in 1 .. m
      OBVIOUS
    <3>3. Wanted(query) # {}
      BY <1>2, <3>1, <3>2
    <3>4. \A i \in 1 .. n : (\A t \in found : Has(docs[i], t)) <=> \A k \in 1 .. m : Has(docs[i], terms[k])
      BY <1>2, <1>3
    <3>5. QED BY <1>9, <3>1, <3>3, <3>4 DEF HasWhat
  <2>4. ASSUME NEW x PROVE x \in Range(got) <=> \E i \in 1 .. n : HasWhat(docs[i], query, mode) /\ x = i - 1
    <3>1. ASSUME x \in Range(got) PROVE \E i \in 1 .. n : HasWhat(docs[i], query, mode) /\ x = i - 1
      <4>1. 1 \in 1 .. m
        OBVIOUS
      <4>2. PICK i \in 1 .. n : x = i - 1
        BY <1>4, <2>2, <3>1, <4>1
      <4>3. ASSUME NEW k \in 1 .. m PROVE Has(docs[i], terms[k])
        <5>1. PICK j \in 1 .. n : Has(docs[j], terms[k]) /\ x = j - 1
          BY <1>4, <2>2, <3>1
        <5>2. j = i
          BY <1>7, <4>2, <5>1
        <5>3. QED BY <5>1, <5>2
      <4>4. QED BY <2>3, <4>2, <4>3
    <3>2. ASSUME NEW i \in 1 .. n, HasWhat(docs[i], query, mode), x = i - 1 PROVE x \in Range(got)
      BY <1>4, <2>2, <2>3, <3>2
    <3>3. QED BY <3>1, <3>2
  <2>5. Range(got) = Scan(docs, query, mode)
    BY <1>8, <2>4
  <2>6. QED BY <2>2, <2>5 DEF CandidatesRight, got
<1>10. CASE mode # "and"
  <2>1. got = UnionAll(lists)
    BY <1>10 DEF CandidatesFor, lists
  <2> HIDE DEF got
  <2>2. /\ got \in IdLists
        /\ \A x : x \in Range(got) <=> \E k \in 1 .. m : x \in Range(lists[k].ids)
    BY <1>1, <1>5, <2>1, UnionAllIs
  <2>3. \A i \in 1 .. n : HasWhat(docs[i], query, mode) <=> \E k \in 1 .. m : Has(docs[i], terms[k])
    <3>1. ASSUME NEW i \in 1 .. n, NEW t \in Wanted(query), Has(docs[i], t) PROVE t \in found
      BY <3>1, TermsInIs DEF FoundTerms
    <3>2. found \subseteq Wanted(query)
      BY DEF FoundTerms
    <3> HIDE DEF found
    <3>3. \A i \in 1 .. n : (\E t \in Wanted(query) : Has(docs[i], t)) <=> \E k \in 1 .. m : Has(docs[i], terms[k])
      BY <1>2, <1>3, <3>1, <3>2
    <3>4. QED BY <1>10, <3>3 DEF HasWhat
  <2>4. ASSUME NEW x PROVE x \in Range(got) <=> \E i \in 1 .. n : HasWhat(docs[i], query, mode) /\ x = i - 1
    <3>1. ASSUME x \in Range(got) PROVE \E i \in 1 .. n : HasWhat(docs[i], query, mode) /\ x = i - 1
      <4>1. PICK k \in 1 .. m : x \in Range(lists[k].ids)
        BY <2>2, <3>1
      <4>2. PICK i \in 1 .. n : Has(docs[i], terms[k]) /\ x = i - 1
        BY <1>4, <4>1
      <4>3. QED BY <2>3, <4>2
    <3>2. ASSUME NEW i \in 1 .. n, HasWhat(docs[i], query, mode), x = i - 1 PROVE x \in Range(got)
      <4>1. PICK k \in 1 .. m : Has(docs[i], terms[k])
        BY <2>3, <3>2
      <4>2. x \in Range(lists[k].ids)
        BY <1>4, <3>2, <4>1
      <4>3. QED BY <2>2, <4>2
    <3>3. QED BY <3>1, <3>2
  <2>5. Range(got) = Scan(docs, query, mode)
    BY <1>8, <2>4
  <2>6. QED BY <2>2, <2>5 DEF CandidatesRight, got
<1>11. QED BY <1>9, <1>10

\* If none are looked up a scan finds none.
LEMMA NoneToFind ==
  ASSUME NEW n \in Nat, NEW D, NEW docs \in [1 .. n -> D], \A doc \in D : DocFits(doc),
         NEW query \in Seq(Dropped \cup DOMAIN Digest), NEW mode,
         \/ mode = "and" /\ FoundTerms(docs, query) # Wanted(query)
         \/ FoundTerms(docs, query) = {}
  PROVE  Scan(docs, query, mode) = {}
<1> DEFINE found == FoundTerms(docs, query)
<1>1. ASSUME NEW i \in 1 .. n, NEW t \in Wanted(query), Has(docs[i], t) PROVE t \in found
  BY <1>1, TermsInIs DEF FoundTerms
<1>2. found \subseteq Wanted(query)
  BY DEF FoundTerms
<1>3. (mode = "and" /\ found # Wanted(query)) \/ found = {}
  OBVIOUS
<1> HIDE DEF found
<1>4. ASSUME NEW i \in 1 .. n PROVE ~HasWhat(docs[i], query, mode)
  BY <1>1, <1>2, <1>3 DEF HasWhat
<1>5. \A i \in 1 .. n : ~Matches(docs[i], query, mode)
  BY <1>4, MatchIs
<1>6. QED BY <1>5 DEF Scan
-----------------------------------------------------------------------------
(* Ranking. *)

\* A list has as many documents as its length says.
LEMMA ListCounts ==
  ASSUME NEW list \in IdLists
  PROVE  IsFiniteSet(Range(list)) /\ Cardinality(Range(list)) = Len(list) /\ Len(list) \in Nat
<1> DEFINE l == Len(list)
<1>1. l \in Nat /\ list \in [1 .. l -> Nat] /\ \A i, j \in 1 .. l : i < j => list[i] < list[j]
  BY DEF IdLists, IsList
<1> HIDE DEF l
<1>2. \A i, j \in 1 .. l : list[i] = list[j] => i = j
  <2> SUFFICES ASSUME NEW i \in 1 .. l, NEW j \in 1 .. l, list[i] = list[j] PROVE i = j
    OBVIOUS
  <2>1. list[i] \in Nat /\ list[j] \in Nat /\ ~(list[i] < list[j]) /\ ~(list[j] < list[i])
    BY <1>1
  <2>2. QED BY <1>1, <2>1
<1>3. list \in Bijection(1 .. l, Range(list))
  BY <1>1, <1>2 DEF Bijection, Injection, Surjection, Range, IsInjective
<1>4. IsFiniteSet(1 .. l) /\ Cardinality(1 .. l) = l
  <2>1. l \in Nat
    BY <1>1
  <2>2. QED BY ONLY <2>1, FS_Interval
<1>5. IsFiniteSet(Range(list)) /\ Cardinality(Range(list)) = Cardinality(1 .. l)
  BY <1>3, <1>4, FS_Bijection DEF ExistsBijection
<1>6. QED BY <1>1, <1>4, <1>5 DEF l

\* Hits to be ranked: a document each, and its score.
HitsFit(H) ==
  /\ IsFiniteSet(H)
  /\ \A h \in H : h.doc \in Nat /\ h.score \in Int
  /\ \A g, h \in H : g.doc = h.doc => g = h

BetterIn(H) == [h \in H |-> {g \in H : Better(g, h)}]

LEMMA RankedIs ==
  ASSUME NEW H, HitsFit(H)
  PROVE  TotalOrder(H, BetterIn(H)) /\ InRank(Ranked(H), Cardinality(H), H, BetterIn(H))
<1> DEFINE under == BetterIn(H)
<1>1. /\ \A h \in H : h.doc \in Nat /\ h.score \in Int
      /\ \A g, h \in H : g.doc = h.doc => g = h
      /\ IsFiniteSet(H)
  BY DEF HitsFit
<1>2. under \in [H -> SUBSET H] /\ \A g, h \in H : g \in under[h] <=> Better(g, h)
  BY DEF BetterIn
<1>3. Ranked(H) = Sorted(CountsUnder(H, under))
  <2>1. CountsUnder(H, under) = [h \in H |-> Cardinality({g \in H : Better(g, h)})]
    BY DEF CountsUnder, BetterIn
  <2>2. Ranked(H) = Sorted([h \in H |-> Cardinality({g \in H : Better(g, h)})])
    BY DEF Ranked, SortedBy
  <2>3. QED BY <2>1, <2>2
<1> HIDE DEF under
<1>4. \A g, h \in H : g \in under[h] <=>
        g.score > h.score \/ (g.score = h.score /\ g.doc < h.doc)
  BY <1>2 DEF Better
<1>5. TotalOrder(H, under)
  <2>1. \A x \in H : x \notin under[x]
    BY <1>1, <1>4
  <2>2. ASSUME NEW x \in H, NEW y \in H, NEW z \in H, x \in under[y], y \in under[z]
        PROVE  x \in under[z]
    <3>1. /\ x.score \in Int /\ y.score \in Int /\ z.score \in Int
          /\ x.doc \in Nat /\ y.doc \in Nat /\ z.doc \in Nat
      BY <1>1
    <3>2. /\ x.score > y.score \/ (x.score = y.score /\ x.doc < y.doc)
          /\ y.score > z.score \/ (y.score = z.score /\ y.doc < z.doc)
      BY <1>4, <2>2
    <3>3. x.score > z.score \/ (x.score = z.score /\ x.doc < z.doc)
      BY <3>1, <3>2
    <3>4. QED BY <1>4, <3>3
  <2>3. ASSUME NEW x \in H, NEW y \in H PROVE x = y \/ x \in under[y] \/ y \in under[x]
    <3>1. x.score \in Int /\ y.score \in Int /\ x.doc \in Nat /\ y.doc \in Nat
      BY <1>1
    <3>2. \/ x.doc = y.doc
          \/ x.score > y.score \/ (x.score = y.score /\ x.doc < y.doc)
          \/ y.score > x.score \/ (y.score = x.score /\ y.doc < x.doc)
      BY <3>1
    <3>3. QED BY <1>1, <1>4, <3>2
  <2>4. QED BY <1>1, <1>2, <2>1, <2>2, <2>3 DEF TotalOrder
<1>6. QED BY <1>3, <1>5, SortedIsOrdered DEF under

\* What a search ranks.
HitsOf(index, docs, query, mode, corpus) ==
  {[doc |-> d, score |-> Score(index, PostingsFor(index, query, mode = "and"), d, corpus)] :
     d \in Scan(docs, query, mode)}

\* A search finds what a scan does, and ranks it.
SearchGives(result, H, scan, top, n) ==
  /\ result = [hits |-> FirstOf(Ranked(H), top), total |-> Cardinality(H)]
  /\ HitsFit(H) /\ Cardinality(H) \in 0 .. n /\ {h.doc : h \in H} = scan

LEMMA SearchRanks ==
  ASSUME NEW n \in Nat, NEW D, NEW docs \in [1 .. n -> D], \A doc \in D : DocFits(doc),
         NEW index, Indexes(index, docs, n),
         NEW query \in Seq(Dropped \cup DOMAIN Digest), NEW mode, NEW corpus, NEW top \in Nat,
         NEW H, H = HitsOf(index, docs, query, mode, corpus), \A h \in H : h.score \in Int
  PROVE  SearchGives(Search(index, query, top, mode, corpus), H, Scan(docs, query, mode), top, n)
<1> DEFINE terms == PostingsFor(index, query, mode = "and")
           found == FoundTerms(docs, query)
           scan == Scan(docs, query, mode)
           result == Search(index, query, top, mode, corpus)
           HitFor(d) == [doc |-> d, score |-> Score(index, terms, d, corpus)]
<1>1. LooksUp(terms, docs, query, mode)
  BY TermsLookedUp
<1>2. H = {HitFor(d) : d \in scan}
  BY DEF HitsOf
<1>3. \A x : x \in scan => x \in Nat /\ x \in 0 .. n - 1
  BY DEF Scan
<1>4. \E list \in IdLists :
        /\ Range(list) = scan
        /\ result = IF terms = <<>> THEN [hits |-> <<>>, total |-> 0]
                    ELSE [hits |-> FirstOf(Ranked(H), top), total |-> Len(list)]
        /\ terms = <<>> => scan = {}
  <2>1. CASE terms = <<>>
    <3>1. (mode = "and" /\ found # Wanted(query)) \/ found = {}
      BY <1>1, <2>1 DEF LooksUp
    <3>2. scan = {}
      BY <3>1, NoneToFind
    <3>3. result = [hits |-> <<>>, total |-> 0]
      BY <2>1 DEF Search
    <3>4. IsList(<<>>, 0)
      BY DEF IsList
    <3>5. <<>> \in IdLists /\ Range(<<>>) = {}
      BY <3>4, IdListsAre DEF Range
    <3> HIDE DEF result, scan
    <3>6. QED BY <2>1, <3>2, <3>3, <3>5
  <2>2. CASE terms # <<>>
    <3>1. /\ mode = "and" => found = Wanted(query)
          /\ found # {}
          /\ TermList(found, terms, Cardinality(found)) /\ Cardinality(found) \in Nat
      BY <1>1, <2>2 DEF LooksUp
    <3> DEFINE m == Cardinality(found)
    <3> HIDE DEF m
    <3>2. m \in Nat \ {0} /\ LooksUpAll(terms, docs, query, m)
      BY <3>1 DEF LooksUpAll, TermList, m
    <3> DEFINE list == CandidatesFor(index, terms, mode)
    <3>3. list \in IdLists /\ Range(list) = scan
      <4> HIDE DEF terms
      <4>1. mode = "and" => FoundTerms(docs, query) = Wanted(query)
        BY <3>1
      <4>2. CandidatesRight(index, docs, query, mode, terms)
        BY <3>2, <4>1, CandidatesAre
      <4>3. QED BY <4>2 DEF CandidatesRight
    <3>4. result = [hits |-> FirstOf(Ranked({HitFor(d) : d \in Range(list)}), top), total |-> Len(list)]
      BY <2>2 DEF Search, CandidatesFor, ListsFor
    <3> HIDE DEF terms, list, scan, result
    <3>5. {HitFor(d) : d \in Range(list)} = H
      BY <1>2, <3>3
    <3>6. result = [hits |-> FirstOf(Ranked(H), top), total |-> Len(list)]
      BY <3>4, <3>5
    <3>7. QED BY <2>2, <3>3, <3>6
  <2>3. QED BY <2>1, <2>2
<1> HIDE DEF terms, scan, result
<1>5. PICK list \in IdLists :
        /\ Range(list) = scan
        /\ result = IF terms = <<>> THEN [hits |-> <<>>, total |-> 0]
                    ELSE [hits |-> FirstOf(Ranked(H), top), total |-> Len(list)]
        /\ terms = <<>> => scan = {}
  BY <1>4
<1>6. IsFiniteSet(scan) /\ Cardinality(scan) = Len(list)
  BY <1>5, ListCounts
<1>7. IsFiniteSet(H) /\ Cardinality(H) = Cardinality(scan)
  <2> DEFINE f == [d \in scan |-> HitFor(d)]
  <2>1. f \in Bijection(scan, H)
    BY <1>2 DEF Bijection, Injection, Surjection, IsInjective
  <2> HIDE DEF f
  <2>2. QED BY <1>6, <2>1, FS_Bijection DEF ExistsBijection
<1>8. HitsFit(H)
  <2>1. \A h \in H : h.doc \in Nat
    BY <1>2, <1>3
  <2>2. \A g, h \in H : g.doc = h.doc => g = h
    BY <1>2
  <2>3. QED BY <1>7, <2>1, <2>2 DEF HitsFit
<1>9. Cardinality(scan) \in 0 .. n
  <2>1. scan \subseteq 0 .. n - 1
    BY <1>3
  <2>2. IsFiniteSet(0 .. n - 1) /\ Cardinality(0 .. n - 1) = n
    BY FS_Interval
  <2>3. Cardinality(scan) <= n /\ Cardinality(scan) \in Nat
    BY <1>6, <2>1, <2>2, FS_Subset, FS_CardinalityType
  <2>4. QED BY <2>3
<1>10. {h.doc : h \in H} = scan
  <2>1. \A d \in scan : HitFor(d) \in H /\ HitFor(d).doc = d
    BY <1>2
  <2>2. \A h \in H : h.doc \in scan
    BY <1>2
  <2> HIDE DEF HitFor
  <2>3. QED BY <2>1, <2>2
<1>11. result = [hits |-> FirstOf(Ranked(H), top), total |-> Cardinality(H)]
  <2>1. CASE terms # <<>>
    BY <1>5, <1>6, <1>7, <2>1
  <2>2. CASE terms = <<>>
    <3>1. H = {} /\ Cardinality(H) = 0
      BY <1>2, <1>5, <2>2, FS_EmptySet
    <3>2. InRank(Ranked(H), 0, H, BetterIn(H))
      BY <1>8, <3>1, RankedIs
    <3>3. Ranked(H) = <<>>
      BY <3>2 DEF InRank
    <3>4. FirstOf(<<>>, top) = <<>>
      BY DEF FirstOf, Smaller
    <3>5. QED BY <1>5, <2>2, <3>1, <3>3, <3>4
  <2>3. QED BY <2>1, <2>2
<1>12. QED BY <1>7, <1>8, <1>9, <1>10, <1>11 DEF SearchGives, result, scan
-----------------------------------------------------------------------------
(* Scores. *)

\* What a term gives to a document's score.
Gives(doc, t, corpus) ==
  IF ~Has(doc, t) THEN 0
  ELSE TermScore(Frequency(doc, t), Len(Terms(doc)), corpus.total, corpus.docs, corpus.df[t])

\* The score is the sum of what the terms looked up give.
LEMMA ScoreIs ==
  ASSUME NEW n \in Nat, NEW docs, NEW index, Indexes(index, docs, n), NEW corpus,
         NEW m \in Nat, NEW terms \in [1 .. m -> TermsIn(docs)], NEW i \in 1 .. n
  PROVE  Score(index, terms, i - 1, corpus) = SumOf([k \in 1 .. m |-> Gives(docs[i], terms[k], corpus)])
<1> DEFINE d == i - 1
           list(k) == index.lists[terms[k]]
           part(k) == IF ~Holds(list(k).ids, d) THEN 0
                      ELSE TermScore(list(k).freqs[SearchSorted(list(k).ids, d)], index.lengths[d + 1],
                                     corpus.total, corpus.docs, corpus.df[terms[k]])
<1>1. Score(index, terms, d, corpus) = SumOf([k \in DOMAIN terms |-> part(k)])
  BY DEF Score
<1>2. DOMAIN terms = 1 .. m
  OBVIOUS
<1>3. d + 1 = i /\ index.lengths[i] = Len(Terms(docs[i]))
  BY DEF Indexes
<1>4. ASSUME NEW k \in 1 .. m PROVE part(k) = Gives(docs[i], terms[k], corpus)
  <2> DEFINE t == terms[k]
  <2>1. t \in TermsIn(docs)
    OBVIOUS
  <2> HIDE DEF t
  <2>2. ListOf(index.lists[t], docs, n, t)
    BY <2>1, ListHolds
  <2>3. /\ Holds(index.lists[t].ids, i - 1) <=> Has(docs[i], t)
        /\ Has(docs[i], t) =>
             index.lists[t].freqs[SearchSorted(index.lists[t].ids, i - 1)] = Frequency(docs[i], t)
    BY <2>2 DEF ListOf
  <2> DEFINE other == IF ~Holds(index.lists[t].ids, d) THEN 0
                      ELSE TermScore(index.lists[t].freqs[SearchSorted(index.lists[t].ids, d)],
                                     index.lengths[d + 1], corpus.total, corpus.docs, corpus.df[t])
  <2>4. other = Gives(docs[i], t, corpus)
    <3>1. CASE Has(docs[i], t)
      BY Zenon, <1>3, <2>3, <3>1 DEF Gives
    <3>2. CASE ~Has(docs[i], t)
      BY Zenon, <2>3, <3>2 DEF Gives
    <3>3. QED BY <3>1, <3>2
  <2>5. part(k) = other
    BY DEF t
  <2>6. QED BY Zenon, <2>4, <2>5 DEF t
<1> HIDE DEF part, d
<1>5. [k \in DOMAIN terms |-> part(k)] = [k \in 1 .. m |-> Gives(docs[i], terms[k], corpus)]
  BY <1>2, <1>4
<1>6. QED BY <1>1, <1>5 DEF d

\* Statistics that can be: those of some documents indexed.
StatsFit(corpus, t) ==
  /\ corpus.total \in 1 .. MaxIndexed * MaxTerms
  /\ corpus.docs \in 1 .. MaxIndexed /\ corpus.df[t] \in 1 .. MaxIndexed

LEMMA GivesNumber ==
  ASSUME NEW doc \in DocsFrom, NEW t, NEW corpus, StatsFit(corpus, t)
  PROVE  Gives(doc, t, corpus) \in Int
<1>1. CASE ~Has(doc, t)
  BY <1>1 DEF Gives
<1>2. CASE Has(doc, t)
  <2> DEFINE f == Frequency(doc, t)
             l == Len(Terms(doc))
  <2>1. DocFits(doc)
    BY DocsAssumption DEF DocFits
  <2>2. f \in 0 .. l /\ f > 0 /\ l \in Nat
    BY <1>2, <2>1, FrequencyIs, TermsOfDoc DEF Has
  <2>3. l <= MaxTerms /\ MaxTerms \in Nat
    BY ScoresAssumption
  <2>4. Gives(doc, t, corpus) = TermScore(f, l, corpus.total, corpus.docs, corpus.df[t])
    BY <1>2 DEF Gives
  <2> HIDE DEF f, l
  <2>5. f \in 1 .. MaxTerms /\ l \in 1 .. MaxTerms
    BY <2>2, <2>3
  <2>6. TermScore(f, l, corpus.total, corpus.docs, corpus.df[t]) \in Int
    BY <2>5, ScoresAssumption DEF StatsFit
  <2>7. QED BY <2>4, <2>6
<1>3. QED BY <1>1, <1>2

\* The lengths of documents and their sum.
LEMMA LengthsFit ==
  ASSUME NEW n \in Nat, n <= MaxIndexed, NEW docs \in [1 .. n -> DocsFrom],
         NEW lengths, lengths = [i \in 1 .. n |-> Len(Terms(docs[i]))]
  PROVE  /\ lengths \in [1 .. n -> 0 .. MaxTerms]
         /\ SumOf(lengths) \in 0 .. MaxIndexed * MaxTerms
         /\ \A i \in 1 .. n : lengths[i] <= SumOf(lengths)
<1>1. ASSUME NEW i \in 1 .. n PROVE Len(Terms(docs[i])) \in 0 .. MaxTerms
  <2>1. docs[i] \in DocsFrom
    OBVIOUS
  <2>2. DocFits(docs[i])
    BY <2>1, DocsAssumption DEF DocFits
  <2>3. Len(Terms(docs[i])) \in Nat
    BY <2>2, TermsOfDoc
  <2>4. Len(Terms(docs[i])) <= MaxTerms /\ MaxTerms \in Nat
    BY <2>1, ScoresAssumption
  <2>5. QED BY <2>3, <2>4
<1>2. lengths \in [1 .. n -> 0 .. MaxTerms]
  BY <1>1
<1>3. MaxTerms \in Nat /\ MaxIndexed \in Nat
  BY ScoresAssumption, BoundsAssumption
<1>4. SumOf(lengths) \in 0 .. n * MaxTerms /\ \A i \in 1 .. n : lengths[i] <= SumOf(lengths)
  BY <1>2, <1>3, SumIsBounded
<1>5. n * MaxTerms <= MaxIndexed * MaxTerms /\ n * MaxTerms \in Nat /\ MaxIndexed * MaxTerms \in Nat
  BY <1>3
<1> DEFINE x == n * MaxTerms
           y == MaxIndexed * MaxTerms
<1> HIDE DEF x, y
<1>6. SumOf(lengths) \in 0 .. y
  <2>1. SumOf(lengths) \in 0 .. x /\ x <= y /\ x \in Nat /\ y \in Nat
    BY <1>4, <1>5 DEF x, y
  <2>2. QED BY <2>1
<1>7. QED BY <1>2, <1>4, <1>6 DEF y

\* What an index knows of itself is such.
LEMMA OwnStatsFit ==
  ASSUME NEW n \in Nat, n <= MaxIndexed, NEW docs \in [1 .. n -> DocsFrom],
         NEW index, Indexes(index, docs, n), NEW t \in TermsIn(docs)
  PROVE  StatsFit(OwnStats(index), t)
<1> DEFINE stats == OwnStats(index)
           lengths == index.lengths
           ids == index.lists[t].ids
<1>1. /\ stats.docs = Len(lengths) /\ stats.total = index.total
      /\ stats.df[t] = Len(ids)
  BY DEF OwnStats, Indexes
<1>2. lengths = [i \in 1 .. n |-> Len(Terms(docs[i]))] /\ index.total = SumOf(lengths)
  BY DEF Indexes
<1>3. \A doc \in DocsFrom : DocFits(doc)
  BY DocsAssumption DEF DocFits
<1>4. PICK i \in 1 .. n : Has(docs[i], t)
  BY <1>3, TermsInIs
<1> HIDE DEF stats, lengths
<1>5. /\ lengths \in [1 .. n -> 0 .. MaxTerms]
      /\ SumOf(lengths) \in 0 .. MaxIndexed * MaxTerms
      /\ \A j \in 1 .. n : lengths[j] <= SumOf(lengths)
  BY <1>2, LengthsFit
<1>6. Len(lengths) = n
  BY <1>5, LenIs
<1>7. lengths[i] \in Nat \ {0}
  <2>1. DocFits(docs[i])
    BY <1>3
  <2>2. Frequency(docs[i], t) \in 0 .. Len(Terms(docs[i])) /\ Len(Terms(docs[i])) \in Nat
    BY <2>1, FrequencyIs, TermsOfDoc
  <2>3. Frequency(docs[i], t) > 0
    BY <1>4 DEF Has
  <2>4. lengths[i] = Len(Terms(docs[i]))
    BY <1>2
  <2>5. QED BY <2>2, <2>3, <2>4
<1>8. stats.total \in 1 .. MaxIndexed * MaxTerms
  <2> DEFINE y == MaxIndexed * MaxTerms
             total == SumOf(lengths)
  <2>1. total \in 0 .. y /\ lengths[i] <= total /\ stats.total = total
    BY <1>1, <1>2, <1>5
  <2> HIDE DEF y, total
  <2>2. stats.total \in 1 .. y
    BY <1>7, <2>1
  <2>3. QED BY <2>2 DEF y
<1>9. stats.docs \in 1 .. MaxIndexed
  <2>1. MaxIndexed \in Nat
    BY BoundsAssumption
  <2>2. QED BY <1>1, <1>6, <2>1
<1>10. stats.df[t] \in 1 .. MaxIndexed
  <2>1. ListOf(index.lists[t], docs, n, t)
    BY ListHolds
  <2>2. /\ ids \in IdLists
        /\ \A x : x \in Range(ids) <=> \E j \in 1 .. n : Has(docs[j], t) /\ x = j - 1
    BY <2>1 DEF ListOf, OpenedList
  <2> HIDE DEF ids
  <2>3. IsFiniteSet(Range(ids)) /\ Cardinality(Range(ids)) = Len(ids) /\ Len(ids) \in Nat
    BY <2>2, ListCounts
  <2>4. Range(ids) \subseteq 0 .. n - 1 /\ Range(ids) # {}
    <3>1. \A j \in 1 .. n : j - 1 \in 0 .. n - 1
      OBVIOUS
    <3>2. Range(ids) \subseteq 0 .. n - 1
      BY <2>2, <3>1
    <3>3. i - 1 \in Range(ids)
      BY <1>4, <2>2
    <3>4. QED BY <3>2, <3>3
  <2>5. IsFiniteSet(0 .. n - 1) /\ Cardinality(0 .. n - 1) = n
    BY FS_Interval
  <2>6. Len(ids) <= n /\ Len(ids) # 0
    BY <2>3, <2>4, <2>5, FS_Subset, FS_EmptySet
  <2>7. MaxIndexed \in Nat
    BY BoundsAssumption
  <2>8. QED BY <1>1, <2>3, <2>6, <2>7 DEF ids
<1>11. QED BY <1>8, <1>9, <1>10 DEF StatsFit, stats
-----------------------------------------------------------------------------
(* The queries checked. *)

\* An index, in memory or on disk, finds what a scan of its documents does.
LEMMA IndexFinds ==
  ASSUME NEW n \in Nat, n <= MaxIndexed, NEW docs \in [1 .. n -> DocsFrom],
         NEW index, Indexes(index, docs, n),
         NEW query \in Seq(Dropped \cup DOMAIN Digest), NEW mode
  PROVE  SearchIsScan(docs, index, query, mode)
<1> DEFINE corpus == OwnStats(index)
           terms == PostingsFor(index, query, mode = "and")
           H == HitsOf(index, docs, query, mode, corpus)
           scan == Scan(docs, query, mode)
           result == Search(index, query, Len(docs), mode, corpus)
<1>1. \A doc \in DocsFrom : DocFits(doc)
  BY DocsAssumption DEF DocFits
<1>2. Len(docs) = n
  BY LenIs
<1>3. ASSUME NEW h \in H PROVE h.score \in Int
  <2>1. PICK d \in scan : h = [doc |-> d, score |-> Score(index, terms, d, corpus)]
    BY DEF HitsOf
  <2>2. PICK i \in 1 .. n : d = i - 1
    BY DEF Scan
  <2>3. LooksUp(terms, docs, query, mode)
    BY <1>1, TermsLookedUp
  <2> HIDE DEF terms
  <2>4. PICK m \in Nat : terms \in [1 .. m -> TermsIn(docs)]
    <3>1. CASE terms = <<>>
      <4>1. terms \in [1 .. 0 -> TermsIn(docs)]
        BY <3>1
      <4>2. QED BY <4>1
    <3>2. CASE terms # <<>>
      <4>1. PICK m \in Nat : TermList(FoundTerms(docs, query), terms, m)
        BY <2>3, <3>2 DEF LooksUp
      <4>2. terms \in [1 .. m -> FoundTerms(docs, query)] /\ FoundTerms(docs, query) \subseteq TermsIn(docs)
        BY <4>1 DEF TermList, FoundTerms
      <4>3. QED BY <4>2
    <3>3. QED BY <3>1, <3>2
  <2> DEFINE gives == [k \in 1 .. m |-> Gives(docs[i], terms[k], corpus)]
  <2>5. gives \in [1 .. m -> Int]
    <3>1. ASSUME NEW k \in 1 .. m PROVE Gives(docs[i], terms[k], corpus) \in Int
      <4>1. StatsFit(corpus, terms[k])
        BY <2>4, OwnStatsFit
      <4>2. docs[i] \in DocsFrom
        OBVIOUS
      <4> HIDE DEF corpus
      <4>3. QED BY <4>1, <4>2, GivesNumber
    <3> HIDE DEF corpus
    <3>2. QED BY <3>1
  <2>6. Score(index, terms, i - 1, corpus) = SumOf(gives)
    <3> HIDE DEF corpus
    <3>1. QED BY <2>4, ScoreIs
  <2> HIDE DEF gives
  <2>7. SumOf(gives) \in Int
    BY <2>4, <2>5, SumIsNumber
  <2> HIDE DEF corpus
  <2>8. QED BY <2>1, <2>2, <2>6, <2>7
<1> HIDE DEF corpus
<1>4. SearchGives(result, H, scan, n, n)
  <2>1. H = HitsOf(index, docs, query, mode, corpus) /\ \A h \in H : h.score \in Int
    BY <1>3
  <2> HIDE DEF H
  <2>2. QED BY <1>1, <1>2, <2>1, SearchRanks
<1> HIDE DEF H, scan, result
<1>5. /\ result = [hits |-> FirstOf(Ranked(H), n), total |-> Cardinality(H)]
      /\ HitsFit(H) /\ Cardinality(H) \in 0 .. n /\ {h.doc : h \in H} = scan
  BY <1>4 DEF SearchGives
<1> DEFINE l == Cardinality(H)
           f == Ranked(H)
<1>6. InRank(f, l, H, BetterIn(H))
  BY <1>5, RankedIs
<1> HIDE DEF l, f
<1>7. l \in 0 .. n /\ f \in [1 .. l -> H] /\ \A h \in H : \E i \in 1 .. l : f[i] = h
  BY <1>5, <1>6 DEF InRank, l
<1>8. FirstOf(f, n) = f
  <2>1. l \in Nat
    BY <1>7
  <2>2. Len(f) = l /\ f \in Seq(H)
    BY <1>7, <2>1, LenIs
  <2>3. Smaller(n, Len(f)) = l
    BY <1>7, <2>2 DEF Smaller
  <2>4. SubSeq(f, 1, l) = f
    <3>1. l \in 0 .. l
      BY <2>1
    <3>2. f \in [1 .. l -> H]
      BY <1>7
    <3>3. SubSeq(f, 1, l) = First(f, l) /\ First(f, l) \in [1 .. l -> H]
      BY ONLY <2>1, <3>1, <3>2, FirstIs
    <3>4. QED BY <3>2, <3>3 DEF First
  <2>5. QED BY <2>3, <2>4 DEF FirstOf
<1>9. result.hits = f /\ result.total = l /\ Len(f) = l
  <2>1. l \in Nat
    BY <1>7
  <2>2. QED BY <1>5, <1>7, <1>8, <2>1, LenIs DEF l, f
<1>10. Range(f) = H
  BY <1>7 DEF Range
<1>11. {h.doc : h \in Range(result.hits)} = scan /\ Len(result.hits) = result.total
  BY <1>5, <1>9, <1>10
<1>12. QED BY Zenon, <1>11 DEF SearchIsScan, Scan, result, scan, corpus

\* The segments that are live after a batch ingest.
LiveOf(parts) == [k \in DOMAIN parts |-> LiveSegment(parts[k].key, OpenSegment(parts[k].object))]

\* Documents are the ones to index, and the indexes are of them.
QueriesProbe ==
  /\ probe.kind \in {"documents", "written", "opened", "read", "query"} =>
       \E n \in 0 .. MaxIndexed : probe.docs \in [1 .. n -> DocsFrom]
  /\ probe.kind = "documents" => probe.perSegment \in {1, 2}
  /\ probe.kind = "written" =>
       /\ probe.object = WriteSegment(MemoryIndex(probe.docs))
       /\ \E size \in {1, 2} : probe.parts = BatchIngest(probe.docs, size)
  /\ probe.kind = "opened" =>
       /\ probe.reader = OpenSegment(WriteSegment(MemoryIndex(probe.docs)))
       /\ \E size \in {1, 2} :
            [k \in DOMAIN probe.keys |-> LiveSegment(probe.keys[k], probe.readers[k])]
              = LiveOf(BatchIngest(probe.docs, size))
  /\ probe.kind \in {"read", "query"} =>
       /\ probe.memory = InMemory(probe.docs)
       /\ probe.disk = OnDisk(OpenSegment(WriteSegment(MemoryIndex(probe.docs))))
       /\ \E size \in {1, 2} : probe.segments = LiveOf(BatchIngest(probe.docs, size))
  /\ probe.kind = "query" => probe.query \in Asked /\ probe.mode \in {"and", "or"}

LEMMA QueriesAlways == Spec => []QueriesProbe
<1>1. Init => QueriesProbe
  BY DEF Init, QueriesProbe
<1>2. QueriesProbe /\ [Next]_probe => QueriesProbe'
  <2> SUFFICES ASSUME QueriesProbe, [Next]_probe PROVE QueriesProbe'
    OBVIOUS
  <2>1. CASE ProbeLists
    BY <2>1 DEF ProbeLists, QueriesProbe
  <2>2. CASE ProbeDocuments
    <3>1. PICK docs \in SeqsUpTo(DocsFrom, MaxIndexed), size \in {1, 2} :
            probe' = [kind |-> "documents", docs |-> docs, perSegment |-> size]
      BY <2>2 DEF ProbeDocuments
    <3>2. PICK n \in 0 .. MaxIndexed : docs \in [1 .. n -> DocsFrom]
      BY DEF SeqsUpTo
    <3>3. probe'.kind = "documents" /\ probe'.docs = docs /\ probe'.perSegment \in {1, 2}
      BY <3>1
    <3>4. QED BY <3>2, <3>3 DEF QueriesProbe
  <2>3. CASE ProbePlan
    BY <2>3 DEF ProbePlan, QueriesProbe
  <2>4. CASE ProbeUnion
    BY <2>4 DEF ProbeUnion, QueriesProbe
  <2>5. CASE ProbeRows
    BY <2>5 DEF ProbeRows, QueriesProbe
  <2>6. CASE ProbeModel
    BY <2>6 DEF ProbeModel, QueriesProbe
  <2>7. CASE WriteThem
    <3>1. /\ probe.kind = "documents" /\ probe'.kind = "written" /\ probe'.docs = probe.docs
          /\ probe'.object = WriteSegment(MemoryIndex(probe.docs))
          /\ probe'.parts = BatchIngest(probe.docs, probe.perSegment)
      BY <2>7 DEF WriteThem
    <3>2. QED BY <3>1 DEF QueriesProbe
  <2>8. CASE OpenThem
    <3>1. /\ probe.kind = "written" /\ probe'.kind = "opened" /\ probe'.docs = probe.docs
          /\ probe'.reader = OpenSegment(probe.object)
          /\ probe'.keys = [k \in DOMAIN probe.parts |-> probe.parts[k].key]
          /\ probe'.readers = [k \in DOMAIN probe.parts |-> OpenSegment(probe.parts[k].object)]
      BY <2>8 DEF OpenThem
    <3>2. [k \in DOMAIN probe'.keys |-> LiveSegment(probe'.keys[k], probe'.readers[k])]
            = LiveOf(probe.parts)
      BY <3>1 DEF LiveOf
    <3>3. QED BY <3>1, <3>2 DEF QueriesProbe
  <2>9. CASE ReadThem
    <3>1. /\ probe.kind = "opened" /\ probe'.kind = "read" /\ probe'.docs = probe.docs
          /\ probe'.memory = InMemory(probe.docs) /\ probe'.disk = OnDisk(probe.reader)
          /\ probe'.segments = [k \in DOMAIN probe.keys |->
                                  LiveSegment(probe.keys[k], probe.readers[k])]
      BY <2>9 DEF ReadThem
    <3>2. QED BY <3>1 DEF QueriesProbe
  <2>10. CASE Ask
    <3>1. PICK query \in Asked, mode \in {"and", "or"} :
            probe' = [kind |-> "query", docs |-> probe.docs, memory |-> probe.memory,
                      disk |-> probe.disk, segments |-> probe.segments,
                      query |-> query, mode |-> mode]
      BY <2>10 DEF Ask
    <3>2. /\ probe.kind = "read" /\ probe'.kind = "query" /\ probe'.docs = probe.docs
          /\ probe'.memory = probe.memory /\ probe'.disk = probe.disk
          /\ probe'.segments = probe.segments /\ probe'.query \in Asked /\ probe'.mode \in {"and", "or"}
      BY <2>10, <3>1 DEF Ask
    <3>3. QED BY <3>2 DEF QueriesProbe
  <2>11. CASE UNCHANGED probe
    BY <2>11 DEF QueriesProbe
  <2>12. QED BY <2>1, <2>2, <2>3, <2>4, <2>5, <2>6, <2>7, <2>8, <2>9, <2>10, <2>11 DEF Next
<1>3. QED BY <1>1, <1>2, PTL DEF Spec

\* For any documents and any query of words that are dropped or have a hash, all
\* of its terms required or any: an index finds exactly the documents that a scan
\* would, each once, in memory and opened from storage alike; whichever lists are
\* walked, and whichever are skipped through (SearchableIndex.search()).
THEOREM SearchIsRight == Spec => []SearchFindsWhatAScanFinds
<1>1. QueriesProbe => SearchFindsWhatAScanFinds
  <2> SUFFICES ASSUME QueriesProbe, probe.kind = "query" PROVE SearchFindsWhatAScanFinds
    BY DEF SearchFindsWhatAScanFinds
  <2> DEFINE docs == probe.docs
  <2>1. PICK n \in 0 .. MaxIndexed : docs \in [1 .. n -> DocsFrom]
    BY DEF QueriesProbe
  <2>2. n \in Nat /\ n <= MaxIndexed
    BY BoundsAssumption
  <2>3. /\ probe.memory = InMemory(docs)
        /\ probe.disk = OnDisk(OpenSegment(WriteSegment(MemoryIndex(docs))))
    BY DEF QueriesProbe
  <2>4. \A doc \in DocsFrom : DocFits(doc)
    BY DocsAssumption DEF DocFits
  <2>5. probe.query \in Seq(Dropped \cup DOMAIN Digest)
    BY ScoresAssumption DEF QueriesProbe
  <2> HIDE DEF docs
  <2>6. Indexes(probe.memory, docs, n) /\ Indexes(probe.disk, docs, n)
    BY <2>1, <2>2, <2>3, <2>4, MemoryIndexes, DiskIndexes
  <2>7. /\ SearchIsScan(docs, probe.memory, probe.query, probe.mode)
        /\ SearchIsScan(docs, probe.disk, probe.query, probe.mode)
    BY <2>1, <2>2, <2>5, <2>6, IndexFinds
  <2>8. QED BY <2>7 DEF SearchFindsWhatAScanFinds, docs
<1>2. QED BY <1>1, QueriesAlways, PTL
=============================================================================
