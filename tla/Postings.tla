------------------------------ MODULE Postings ------------------------------
(***************************************************************************)
(* Posting lists: how they are written (src/aether/index/codec.py,         *)
(* bitpack.py, blocked.py), read back a block at a time, and combined      *)
(* (postings.py, blocked.intersect_skipping).                              *)
(*                                                                         *)
(* A byte is a number below 256, and a posting list a pair of sequences:   *)
(* ascending document ids and their frequencies.  Reading past the end of  *)
(* the bytes, where the code raises, is an error in TLC too.  The block    *)
(* cache is left out: a block never changes.                               *)
(***************************************************************************)
EXTENDS Integers, SequencesExt, Orders

CONSTANTS
  BlockSize,  \* bitpack.BLOCK_SIZE
  SmallList   \* blocked.SMALL_LIST

ASSUME PostingsAssumption == BlockSize \in Nat \ {0} /\ SmallList \in Nat

Ascending(ids) == \A i, j \in DOMAIN ids : i < j => ids[i] < ids[j]

SumOf(seq) == FoldLeft(+, 0, seq)
Largest(seq) == FoldLeft(LAMBDA m, v : IF v > m THEN v ELSE m, 0, seq)

\* The first count elements from position pos on.
Slice(seq, pos, count) == SubSeq(seq, pos, pos + count - 1)
-----------------------------------------------------------------------------
(* codec.py *)

\* A number shifted right by ever more digits, and how many it has, at least one.
Shifted(value, base) ==
  LET shifted[k \in Nat] == IF k = 0 THEN value ELSE shifted[k - 1] \div base IN shifted

Digits(value, base) == CHOOSE n \in 1 .. value + 1 :
  Shifted(value, base)[n] = 0 /\ (n = 1 \/ Shifted(value, base)[n - 1] # 0)

\* The number with some digits, the highest first.
Number(digits, base) == FoldLeft(LAMBDA value, d : base * value + d, 0, digits)

\* encode_varint(): seven bits a byte, the lowest first; the eighth says that
\* more follow.
EncodeVarint(value) ==
  LET n == Digits(value, 128) IN
  [k \in 1 .. n |-> (Shifted(value, 128)[k - 1] % 128) + (IF k < n THEN 128 ELSE 0)]

EncodeVarints(values) == FlattenSeq([i \in DOMAIN values |-> EncodeVarint(values[i])])

\* decode_varint(): the value at a position, and the position after it.
DecodeVarint(data, pos) ==
  LET last == CHOOSE k \in pos .. Len(data) :
                data[k] < 128 /\ \A j \in pos .. k - 1 : data[j] >= 128
  IN [value |-> Number([j \in 1 .. last - pos + 1 |-> data[last + 1 - j] % 128], 128),
      next |-> last + 1]

\* decode_varints()
DecodeVarints(data, count, pos) ==
  FoldLeft(LAMBDA read, i :
             LET one == DecodeVarint(data, read.next) IN
             [values |-> Append(read.values, one.value), next |-> one.next],
           [values |-> <<>>, next |-> pos], [i \in 1 .. count |-> i])

\* delta_encode() and delta_decode(): gaps for values, the first from zero.
DeltaEncode(values) ==
  [i \in DOMAIN values |-> IF i = 1 THEN values[1] ELSE values[i] - values[i - 1]]

DeltaDecode(gaps) == [i \in DOMAIN gaps |-> SumOf(SubSeq(gaps, 1, i))]
-----------------------------------------------------------------------------
(* bitpack.py *)

\* width_for(): as many bits as the largest value needs, at least one.
WidthFor(values) == Digits(Largest(values), 2)

PackedSize(count, bits) == (count * bits + 7) \div 8

\* A value in so many bits, the highest first.
BitsOf(value, bits) == [k \in 1 .. bits |-> Shifted(value, 2)[bits - k] % 2]
ValueOf(bits) == Number(bits, 2)

\* pack(): the values back to back, and zeros up to a whole byte.
Pack(values, bits) ==
  LET stream == FlattenSeq([i \in DOMAIN values |-> BitsOf(values[i], bits)])
      size == PackedSize(Len(values), bits)
      padded == stream \o [i \in 1 .. 8 * size - Len(stream) |-> 0]
  IN [k \in 1 .. size |-> ValueOf(Slice(padded, 8 * k - 7, 8))]

\* unpack()
Unpack(data, count, bits) ==
  LET stream == FlattenSeq([k \in DOMAIN data |-> BitsOf(data[k], 8)]) IN
  [i \in 1 .. count |-> ValueOf(Slice(stream, (i - 1) * bits + 1, bits))]
-----------------------------------------------------------------------------
(* blocked.py: writing and opening a list *)

Smaller(a, b) == IF a <= b THEN a ELSE b

\* A block of a long list: gaps and frequencies at their own widths.
EncodeBlock(ids, freqs, before) ==
  LET gaps == [i \in DOMAIN ids |-> ids[i] - (IF i = 1 THEN before ELSE ids[i - 1])]
      data == Pack(gaps, WidthFor(gaps)) \o Pack(freqs, WidthFor(freqs))
  IN [data |-> data,
      skip |-> EncodeVarint(ids[Len(ids)] - before) \o EncodeVarint(Len(data))
                 \o <<WidthFor(gaps), WidthFor(freqs)>>]

\* encode_blocked()
EncodeBlocked(ids, freqs) ==
  LET count == Len(ids)
      blocks == (count + BlockSize - 1) \div BlockSize
      block == [b \in 1 .. blocks |->
        LET from == (b - 1) * BlockSize
            size == Smaller(BlockSize, count - from)
        IN EncodeBlock(Slice(ids, from + 1, size), Slice(freqs, from + 1, size),
                       IF b = 1 THEN 0 ELSE ids[from])]
  IN IF count <= SmallList
     THEN EncodeVarint(count) \o EncodeVarints(DeltaEncode(ids)) \o EncodeVarints(freqs)
     ELSE EncodeVarint(count) \o EncodeVarint(blocks)
            \o FlattenSeq([b \in 1 .. blocks |-> block[b].skip])
            \o FlattenSeq([b \in 1 .. blocks |-> block[b].data])

\* BlockedPostings(data): one entry of the skip index.
ReadSkip(open, data) ==
  LET pair == DecodeVarints(data, 2, open.next) IN
  [last |-> Append(open.last, pair.values[1] + (IF open.last = <<>> THEN 0 ELSE Last(open.last))),
   length |-> Append(open.length, pair.values[2]),
   bits |-> Append(open.bits, <<data[pair.next], data[pair.next + 1]>>),
   next |-> pair.next + 2]

\* BlockedPostings(data): small lists are decoded at once, as one block; of the
\* others only the skip index is.
OpenPostings(data) ==
  LET count == DecodeVarint(data, 1)
      gaps == DecodeVarints(data, count.value, count.next)
      ids == DeltaDecode(gaps.values)
      blocks == DecodeVarint(data, count.next)
      index == FoldLeft(LAMBDA open, b : ReadSkip(open, data),
                        [last |-> <<>>, length |-> <<>>, bits |-> <<>>, next |-> blocks.next],
                        [b \in 1 .. blocks.value |-> b])
  IN CASE count.value = 0 -> [count |-> 0, last |-> <<>>, small |-> TRUE,
                              ids |-> <<>>, freqs |-> <<>>]
       [] count.value \in 1 .. SmallList ->
            [count |-> count.value, last |-> <<Last(ids)>>, small |-> TRUE, ids |-> ids,
             freqs |-> DecodeVarints(data, count.value, gaps.next).values]
       [] OTHER -> [count |-> count.value, last |-> index.last, small |-> FALSE,
                    length |-> index.length, bits |-> index.bits,
                    data |-> SubSeq(data, index.next, Len(data))]

\* block_containing(): the first block that does not end before the target.
BlockContaining(p, target) ==
  1 + Cardinality({b \in DOMAIN p.last : p.last[b] < target})

\* decode_block()
DecodeBlock(p, b) ==
  LET n == Smaller(BlockSize, p.count - (b - 1) * BlockSize)
      raw == Slice(p.data, 1 + SumOf(SubSeq(p.length, 1, b - 1)), p.length[b])
      size == PackedSize(n, p.bits[b][1])
      gaps == Unpack(SubSeq(raw, 1, size), n, p.bits[b][1])
      base == IF b = 1 THEN 0 ELSE p.last[b - 1]
  IN IF p.small THEN [ids |-> p.ids, freqs |-> p.freqs]
     ELSE [ids |-> [i \in 1 .. n |-> base + SumOf(SubSeq(gaps, 1, i))],
           freqs |-> Unpack(SubSeq(raw, size + 1, Len(raw)), n, p.bits[b][2])]

DocIds(p) == FlattenSeq([b \in DOMAIN p.last |-> DecodeBlock(p, b).ids])
Freqs(p) == FlattenSeq([b \in DOMAIN p.last |-> DecodeBlock(p, b).freqs])

\* Where a sorted sequence has an element, or would have it.
SearchSorted(ids, target) == 1 + Cardinality({i \in DOMAIN ids : ids[i] < target})
Holds(ids, target) ==
  SearchSorted(ids, target) <= Len(ids) /\ ids[SearchSorted(ids, target)] = target

\* freq_in()
FreqIn(p, doc) ==
  LET b == BlockContaining(p, doc) IN
  IF b <= Len(p.last) /\ Holds(DecodeBlock(p, b).ids, doc)
  THEN DecodeBlock(p, b).freqs[SearchSorted(DecodeBlock(p, b).ids, doc)] ELSE 0
-----------------------------------------------------------------------------
(* Combining lists *)

\* Slip: a candidate equal to the last id of a block is sought in the next one.
IntersectSkippingPast(candidates, p) ==
  LET found(c) ==
        LET b == 1 + Cardinality({k \in DOMAIN p.last : p.last[k] <= c}) IN
        b <= Len(p.last) /\ Holds(DecodeBlock(p, b).ids, c)
  IN Picked(candidates, {i \in DOMAIN candidates : found(candidates[i])})

\* intersect_skipping(): each candidate is sought in the one block that could
\* hold it; the first beyond the last block ends the walk.
IntersectSkipping(candidates, p) ==
  LET found(c) ==
        LET b == BlockContaining(p, c) IN b <= Len(p.last) /\ Holds(DecodeBlock(p, b).ids, c)
  IN Picked(candidates, {i \in DOMAIN candidates : found(candidates[i])})

\* One step of a merge walk over two ascending lists: i and j are the positions
\* reached, and both keeps what is in one list only.
Walk(a, b, both) ==
  LET step(w, k) ==
        CASE w.i > Len(a) \/ w.j > Len(b) -> w
          [] w.i <= Len(a) /\ w.j <= Len(b) /\ a[w.i] = b[w.j] ->
               [i |-> w.i + 1, j |-> w.j + 1, out |-> Append(w.out, a[w.i])]
          [] w.i <= Len(a) /\ w.j <= Len(b) /\ a[w.i] < b[w.j] ->
               [w EXCEPT !.i = @ + 1, !.out = IF both THEN Append(@, a[w.i]) ELSE @]
          [] OTHER ->
               [w EXCEPT !.j = @ + 1, !.out = IF both THEN Append(@, b[w.j]) ELSE @]
  IN FoldLeft(step, [i |-> 1, j |-> 1, out |-> <<>>], [k \in 1 .. Len(a) + Len(b) |-> k])

\* intersect()
Intersect(a, b) == Walk(a, b, FALSE).out

\* union()
Union(a, b) ==
  LET end == Walk(a, b, TRUE) IN
  end.out \o SubSeq(a, end.i, Len(a)) \o SubSeq(b, end.j, Len(b))
-----------------------------------------------------------------------------
\* A list read back from its bytes has the ids and frequencies it was written
\* with, whole or one document at a time, whether it is small, fills its blocks
\* or leaves the last one short.
ListReadsBack(ids, freqs) ==
  LET open == OpenPostings(EncodeBlocked(ids, freqs)) IN
  /\ DocIds(open) = ids /\ Freqs(open) = freqs
  /\ \A doc \in UNION {{id - 1, id, id + 1} : id \in Range(ids)} :
       FreqIn(open, doc) = IF Holds(ids, doc) THEN freqs[SearchSorted(ids, doc)] ELSE 0

\* Combining two lists is combining the sets of their documents, in order, and
\* skipping through the blocks of one finds what walking both does.
CombinedAsSets(a, b, freqs) ==
  /\ Ascending(Union(a, b)) /\ Range(Union(a, b)) = Range(a) \cup Range(b)
  /\ Ascending(Intersect(a, b)) /\ Range(Intersect(a, b)) = Range(a) \cap Range(b)
  /\ IntersectSkipping(a, OpenPostings(EncodeBlocked(b, freqs))) = Intersect(a, b)
=============================================================================
