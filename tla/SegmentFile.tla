----------------------------- MODULE SegmentFile -----------------------------
(***************************************************************************)
(* A segment: an index in one immutable object, written front to back and  *)
(* read back to front by ranges (src/aether/index/segment.py, bloom.py),   *)
(* and the in-memory index it is written from (memory.py).                 *)
(*                                                                         *)
(* The object is a sequence of cells.  Postings and the term dictionary    *)
(* are bytes; a number of fixed width, and a document in a deflated block, *)
(* are one cell each.  Offsets count from 0, as in the code.  A term is a  *)
(* sequence of characters, themselves numbers below 128.                   *)
(***************************************************************************)
EXTENDS Postings

CONSTANTS
  TermsPerBlock, DocsPerBlock,
  Dropped,    \* the words not indexed, STOPWORDS and single characters
  Magic,      \* SEGMENT_MAGIC
  Version,    \* SEGMENT_VERSION
  Digest,     \* of each term, the two halves of its hash
  NoTime,     \* a document without a timestamp
  Nothing     \* None, and what an unreadable object yields

ASSUME SegmentAssumption == {TermsPerBlock, DocsPerBlock} \subseteq Nat \ {0}

\* Terms are characters, and their hashes numbers.
ASSUME DigestAssumption ==
  \A t \in DOMAIN Digest : t \in Seq(Nat) /\ Digest[t] \in Nat \X Nat

\* None is no entry of a dictionary.
ASSUME NothingAssumption ==
  Nothing \notin [term : Seq(Nat), df : Nat, offset : Nat, length : Nat]

GetRange(object, offset, length) == SubSeq(object, offset + 1, offset + length)

\* get_suffix(): the last cells, or all there are.
TailOf(object, length) ==
  SubSeq(object, 1 + (IF Len(object) > length THEN Len(object) - length ELSE 0), Len(object))

\* Where each piece starts when pieces are laid end to end from base.
Offsets(pieces, base) ==
  [k \in DOMAIN pieces |-> base + SumOf([j \in 1 .. k - 1 |-> Len(pieces[j])])]

\* A sequence cut into pieces of a size, the last one shorter.
Chunks(seq, size) ==
  [k \in 1 .. (Len(seq) + size - 1) \div size |->
     Slice(seq, (k - 1) * size + 1, Smaller(size, Len(seq) - (k - 1) * size))]

\* The order of terms.
Before(a, b) ==
  \E k \in 0 .. Smaller(Len(a), Len(b)) :
    /\ SubSeq(a, 1, k) = SubSeq(b, 1, k)
    /\ k < Len(b)
    /\ k < Len(a) => a[k + 1] < b[k + 1]

SortedTerms(terms) == SortedBy(terms, Before)
-----------------------------------------------------------------------------
(* analyzer.py and memory.py: documents are [ts, fields], each text field *)
(* a sequence of words, empty when the event lacks it.                     *)

\* tokenize(), once a text is in lower case and in words.
Tokenize(words) == Picked(words, {k \in DOMAIN words : words[k] \notin Dropped})

\* analyze_document(): the terms of all text fields, in one list.
Terms(doc) == FlattenSeq([f \in DOMAIN doc.fields |-> Tokenize(doc.fields[f])])

Frequency(doc, term) == Cardinality({k \in DOMAIN Terms(doc) : Terms(doc)[k] = term})

TermsIn(docs) == UNION {Range(Terms(docs[i])) : i \in DOMAIN docs}

\* MemoryIndex after add_all(docs); document ids count from 0.
MemoryIndex(docs) ==
  LET holding(t) == {i \in DOMAIN docs : Frequency(docs[i], t) > 0}
      ids(t) == InOrder({i - 1 : i \in holding(t)})
  IN [docs |-> docs,
      lengths |-> [i \in DOMAIN docs |-> Len(Terms(docs[i]))],
      lists |-> [t \in TermsIn(docs) |->
        [ids |-> ids(t),
         freqs |-> [k \in DOMAIN ids(t) |-> Frequency(docs[ids(t)[k] + 1], t)]]]]
-----------------------------------------------------------------------------
(* bloom.py *)

\* optimal_size() at one false answer in a hundred.
BloomBits(n) ==
  IF n = 0 THEN 8
  ELSE LET bits == (n * 958506 + 99999) \div 100000 IN 8 * ((bits + 7) \div 8)

BloomHashes(n) ==
  IF n = 0 THEN 1
  ELSE LET h == (BloomBits(n) * 693147 + n * 500000) \div (n * 1000000) IN
       IF h < 1 THEN 1 ELSE h

Positions(term, bits, hashes) ==
  {(Digest[term][1] + i * Digest[term][2]) % bits : i \in 0 .. hashes - 1}

\* for_terms(), to_bytes(): the header and the words.
EncodeBloom(terms) ==
  LET bits == BloomBits(Cardinality(terms))
      hashes == BloomHashes(Cardinality(terms))
      set == UNION {Positions(t, bits, hashes) : t \in terms}
  IN <<bits, hashes>> \o
     [w \in 1 .. bits \div 8 |-> ValueOf([k \in 1 .. 8 |-> IF 8 * w - k \in set THEN 1 ELSE 0])]

\* from_bytes() and __contains__()
MayContain(bloom, term) ==
  \A x \in Positions(term, bloom[1], bloom[2]) :
    Shifted(bloom[3 + (x \div 8)], 2)[x % 8] % 2 = 1
-----------------------------------------------------------------------------
(* The term dictionary. *)

\* How many leading characters two terms share.
Shared(a, b) ==
  CHOOSE k \in 0 .. Smaller(Len(a), Len(b)) :
    /\ SubSeq(a, 1, k) = SubSeq(b, 1, k)
    /\ k < Smaller(Len(a), Len(b)) => a[k + 1] # b[k + 1]

\* _encode_dict_block(): each term by what it does not share with the one before
\* it in the block, its postings' offset by the distance from where the ones
\* before end.
EncodeDictBlock(entries) ==
  LET entry(k) ==
        LET e == entries[k]
            previous == IF k = 1 THEN <<>> ELSE entries[k - 1].term
            expected == IF k = 1 THEN e.offset
                        ELSE entries[k - 1].offset + entries[k - 1].length
            shared == Shared(previous, e.term)
            suffix == SubSeq(e.term, shared + 1, Len(e.term))
        IN EncodeVarints(<<shared, Len(suffix)>>) \o suffix
             \o EncodeVarints(<<e.df, e.offset - expected, e.length>>)
  IN EncodeVarints(<<Len(entries), entries[1].offset>>)
       \o FlattenSeq([k \in DOMAIN entries |-> entry(k)])

\* An entry read: its term, and df, the gap before its postings and their length.
WithEntry(read, term, tail) ==
  LET offset == read.expected + tail.values[2] IN
  [next |-> tail.next, term |-> term, expected |-> offset + tail.values[3],
   entries |-> read.entries \cup
     {[term |-> term, df |-> tail.values[1], offset |-> offset, length |-> tail.values[3]]}]

\* Slip: the suffix is taken for the whole term.
DecodeWithoutPrefix(read, data) ==
  LET head == DecodeVarints(data, 2, read.next) IN
  WithEntry(read, Slice(data, head.next, head.values[2]),
            DecodeVarints(data, 3, head.next + head.values[2]))

\* _decode_dict_block(), one entry.
DecodeDictEntry(read, data) ==
  LET head == DecodeVarints(data, 2, read.next) IN
  WithEntry(read, SubSeq(read.term, 1, head.values[1]) \o Slice(data, head.next, head.values[2]),
            DecodeVarints(data, 3, head.next + head.values[2]))

\* _decode_dict_block()
DecodeDictBlock(data) ==
  LET head == DecodeVarints(data, 2, 1) IN
  FoldLeft(LAMBDA read, k : DecodeDictEntry(read, data),
           [next |-> head.next, term |-> <<>>, expected |-> head.values[2], entries |-> {}],
           [k \in 1 .. head.values[1] |-> k]).entries
-----------------------------------------------------------------------------
(* The hotcache and the footer. *)

\* _encode_hotcache()
EncodeHotcache(termBlocks, docBlocks, lengths, bloom) ==
  <<Len(termBlocks)>>
    \o FlattenSeq([k \in DOMAIN termBlocks |->
         <<Len(termBlocks[k].first)>> \o termBlocks[k].first
           \o <<termBlocks[k].offset, termBlocks[k].length>>])
    \o <<Len(docBlocks)>>
    \o FlattenSeq([k \in DOMAIN docBlocks |->
         <<docBlocks[k].first, docBlocks[k].offset, docBlocks[k].length>>])
    \o <<Len(lengths)>> \o lengths \o bloom

\* _decode_hotcache(), a block of terms more,
ReadTermBlock(read, data) ==
  LET n == data[read.next] IN
  [next |-> read.next + n + 3,
   blocks |-> Append(read.blocks,
     [first |-> Slice(data, read.next + 1, n),
      offset |-> data[read.next + n + 1], length |-> data[read.next + n + 2]])]

\* and all of it.
DecodeHotcache(data) ==
  LET terms == FoldLeft(LAMBDA read, k : ReadTermBlock(read, data),
                        [next |-> 2, blocks |-> <<>>], [k \in 1 .. data[1] |-> k])
      docs == [k \in 1 .. data[terms.next] |->
                 LET at == terms.next + 3 * k - 2 IN
                 [first |-> data[at], offset |-> data[at + 1], length |-> data[at + 2]]]
      sizes == terms.next + 3 * Len(docs) + 1
  IN [termBlocks |-> terms.blocks, docBlocks |-> docs,
      lengths |-> Slice(data, sizes + 1, data[sizes]),
      bloom |-> SubSeq(data, sizes + data[sizes] + 1, Len(data))]

\* The places of the other parts, which no reader looks up, are left out.
FooterSize == 11

\* Footer.unpack() on the last cells of an object: what it refuses, and yields.
NoFooter(tail) ==
  \/ Len(tail) < FooterSize
  \/ tail[1] # Magic \/ tail[FooterSize] # Magic
  \/ tail[2] # Version

UnpackFooter(tail) ==
  [hotcache |-> [offset |-> tail[3], length |-> tail[4]],
   numDocs |-> tail[5], numTerms |-> tail[6], numPostings |-> tail[7],
   totalLength |-> tail[8], minTs |-> tail[9], maxTs |-> tail[10]]
-----------------------------------------------------------------------------
(* Writing a segment. *)

\* The smallest and largest timestamp, 0 when no document has one.
TimeRange(docs) ==
  LET times == {docs[i].ts : i \in {j \in DOMAIN docs : docs[j].ts # NoTime}} IN
  IF times = {} THEN <<0, 0>>
  ELSE <<CHOOSE t \in times : \A u \in times : t <= u,
         CHOOSE t \in times : \A u \in times : u <= t>>

\* A deflated block of documents.
Deflate(docs) == <<Len(docs)>> \o docs
Inflate(data) == SubSeq(data, 2, data[1] + 1)

\* write_segment(), its parts in order, each with the offsets of those before:
\* 1. the postings of every term, end to end from 0;
PostingsPart(index, terms) ==
  [k \in DOMAIN terms |->
     EncodeBlocked(index.lists[terms[k]].ids, index.lists[terms[k]].freqs)]

EntriesFor(index, terms, postings) ==
  [k \in DOMAIN terms |->
     [term |-> terms[k], df |-> Len(index.lists[terms[k]].ids),
      offset |-> Offsets(postings, 0)[k], length |-> Len(postings[k])]]

\* 2. the documents;
DocPart(docs) ==
  [k \in DOMAIN Chunks(docs, DocsPerBlock) |-> Deflate(Chunks(docs, DocsPerBlock)[k])]

\* 3. the term dictionary;
DictPart(entries) ==
  [k \in DOMAIN Chunks(entries, TermsPerBlock) |->
     EncodeDictBlock(Chunks(entries, TermsPerBlock)[k])]

\* 4. the hotcache;
HotcachePart(index, entries, docstore, docData, dictionary, termData) ==
  EncodeHotcache(
    [k \in DOMAIN termData |->
       [first |-> entries[(k - 1) * TermsPerBlock + 1].term,
        offset |-> Offsets(termData, dictionary)[k], length |-> Len(termData[k])]],
    [k \in DOMAIN docData |->
       [first |-> (k - 1) * DocsPerBlock, offset |-> Offsets(docData, docstore)[k],
        length |-> Len(docData[k])]],
    index.lengths, EncodeBloom(DOMAIN index.lists))

\* 5. the footer.
WithFooter(index, body, hotcache) ==
  body \o hotcache \o
    <<Magic, Version, Len(body), Len(hotcache), Len(index.docs),
      Cardinality(DOMAIN index.lists),
      MapThenSumSet(LAMBDA t : Len(index.lists[t].ids), DOMAIN index.lists),
      SumOf(index.lengths)>>
    \o TimeRange(index.docs) \o <<Magic>>

Assembled(index, entries, postings, docData, termData) ==
  WithFooter(index, postings \o FlattenSeq(docData) \o FlattenSeq(termData),
    HotcachePart(index, entries, Len(postings), docData,
                 Len(postings) + Len(FlattenSeq(docData)), termData))

WithEntries(index, entries, postings) ==
  Assembled(index, entries, FlattenSeq(postings), DocPart(index.docs), DictPart(entries))

WithTerms(index, terms, postings) ==
  WithEntries(index, EntriesFor(index, terms, postings), postings)

WriteSegment(index) ==
  LET terms == SortedTerms(DOMAIN index.lists)
  IN WithTerms(index, terms, PostingsPart(index, terms))
-----------------------------------------------------------------------------
(* Reading one. *)

\* SegmentReader(): the footer from the tail, then the hotcache.
OpenSegment(object) ==
  LET tail == TailOf(object, FooterSize)
      footer == UnpackFooter(tail)
  IN IF NoFooter(tail) THEN Nothing
     ELSE [object |-> object, footer |-> footer,
           hot |-> DecodeHotcache(GetRange(object, footer.hotcache.offset,
                                           footer.hotcache.length))]

\* _dict_block(), and the term among its entries.
Named(entries, term) ==
  IF \E e \in entries : e.term = term THEN CHOOSE e \in entries : e.term = term ELSE Nothing

EntryIn(reader, at, term) ==
  Named(DecodeDictBlock(GetRange(reader.object, at.offset, at.length)), term)

\* _entry(): bloom filter, sparse index, one dictionary block.
Entry(reader, term) ==
  LET block == Cardinality({k \in DOMAIN reader.hot.termBlocks :
                              ~Before(term, reader.hot.termBlocks[k].first)})
  IN IF ~MayContain(reader.hot.bloom, term) \/ block = 0 THEN Nothing
     ELSE EntryIn(reader, reader.hot.termBlocks[block], term)

\* postings(), df() and document()
PostingsAt(reader, entry) ==
  IF entry = Nothing THEN Nothing
  ELSE OpenPostings(GetRange(reader.object, entry.offset, entry.length))

ReadPostings(reader, term) == PostingsAt(reader, Entry(reader, term))

DocumentFrequency(reader, term) ==
  LET e == Entry(reader, term) IN IF e = Nothing THEN 0 ELSE e.df

ReadDocument(reader, id) ==
  LET block == Cardinality({k \in DOMAIN reader.hot.docBlocks :
                              reader.hot.docBlocks[k].first <= id})
      at == reader.hot.docBlocks[block]
  IN IF id \notin 0 .. reader.footer.numDocs - 1 THEN Nothing
     ELSE Inflate(GetRange(reader.object, at.offset, at.length))[id - at.first + 1]
=============================================================================
