------------------------------ MODULE Queries ------------------------------
(***************************************************************************)
(* Answering a query: within one index (src/aether/index/base.py), and     *)
(* over the live segments (coordinator.py).                                *)
(*                                                                         *)
(* An index is its posting lists, its documents' lengths and their sum; an *)
(* opened list is kept beside the ids of a segment's.  A query is a        *)
(* sequence of words.  What BM25 gives for a term's frequency, the         *)
(* document's length, the sum of lengths, the number of documents and the  *)
(* document frequency is a parameter: only its being a function of these   *)
(* matters here.                                                           *)
(***************************************************************************)
EXTENDS SegmentFile

CONSTANTS
  SkipRatio,                                 \* SearchableIndex.SKIP_RATIO
  TermScore(_, _, _, _, _)  \* frequency, length, total length, documents, df

\* The two kinds of SearchableIndex.
InMemory(docs) ==
  LET index == MemoryIndex(docs) IN
  [lists |-> [t \in DOMAIN index.lists |->
     [ids |-> index.lists[t].ids, freqs |-> index.lists[t].freqs, open |-> Nothing]],
   lengths |-> index.lengths, total |-> SumOf(index.lengths)]

Decoded(open) == [ids |-> DocIds(open), freqs |-> Freqs(open), open |-> open]

OnDisk(reader) ==
  [lists |-> [t \in {u \in DOMAIN Digest : Entry(reader, u) # Nothing} |->
                Decoded(ReadPostings(reader, t))],
   lengths |-> reader.hot.lengths, total |-> reader.footer.totalLength]
-----------------------------------------------------------------------------
(* base.py *)

\* Slip: absent terms are passed over, all required or not.
PostingsForPresent(index, query, requireAll) ==
  SortedTerms(Range(Tokenize(query)) \cap DOMAIN index.lists)

\* _postings_for(): the terms found, in order; none if all are required and one
\* is absent.
PostingsFor(index, query, requireAll) ==
  LET wanted == Range(Tokenize(query))
      found == wanted \cap DOMAIN index.lists
  IN IF requireAll /\ found # wanted THEN <<>> ELSE SortedTerms(found)

\* _intersect_all(): shortest list first, skipping through much longer ones.
IntersectAll(lists) ==
  LET shorter(i, j) == \/ Len(lists[i].ids) < Len(lists[j].ids)
                       \/ Len(lists[i].ids) = Len(lists[j].ids) /\ i < j
      order == SortedBy(DOMAIN lists, shorter)
      narrow(result, i) ==
        IF /\ lists[i].open # Nothing /\ result # <<>>
           /\ Len(lists[i].ids) >= Len(result) * SkipRatio
        THEN IntersectSkipping(result, lists[i].open)
        ELSE Intersect(result, lists[i].ids)
  IN FoldLeft(narrow, lists[order[1]].ids, Tail(order))

\* _union_all()
UnionAll(lists) == FoldLeft(LAMBDA result, l : Union(result, l.ids), <<>>, lists)

\* _accumulate(), one document: what each list it is in contributes.
Score(index, terms, doc, corpus) ==
  LET list(k) == index.lists[terms[k]]
      at(k) == SearchSorted(list(k).ids, doc)
  IN SumOf([k \in DOMAIN terms |->
       IF ~Holds(list(k).ids, doc) THEN 0
       ELSE TermScore(list(k).freqs[at(k)], index.lengths[doc + 1], corpus.total,
                      corpus.docs, corpus.df[terms[k]])])

\* What an index knows of itself.
OwnStats(index) ==
  [docs |-> Len(index.lengths), total |-> index.total,
   df |-> [t \in DOMAIN index.lists |-> Len(index.lists[t].ids)]]

\* Best first, and by document where scores are equal.
Better(x, y) ==
  \/ x.score > y.score
  \/ x.score = y.score /\ x.doc < y.doc

Ranked(hits) == SortedBy(hits, Better)

FirstOf(seq, n) == SubSeq(seq, 1, Smaller(n, Len(seq)))

\* search()
Search(index, query, top, mode, corpus) ==
  LET terms == PostingsFor(index, query, mode = "and")
      lists == [k \in DOMAIN terms |-> index.lists[terms[k]]]
      candidates == IF mode = "and" THEN IntersectAll(lists) ELSE UnionAll(lists)
      hits == {[doc |-> d, score |-> Score(index, terms, d, corpus)] : d \in Range(candidates)}
  IN IF terms = <<>> THEN [hits |-> <<>>, total |-> 0]
     ELSE [hits |-> FirstOf(Ranked(hits), top), total |-> Len(candidates)]
-----------------------------------------------------------------------------
(* coordinator.py: the live segments are a sequence of [key, index, minTs, *)
(* maxTs].                                                                 *)

\* SegmentMeta.overlaps()
Overlaps(s, from, to) == s.maxTs >= from /\ s.minTs <= to

\* candidates()
Candidates(segments, from, to) ==
  Picked(segments, {k \in DOMAIN segments : Overlaps(segments[k], from, to)})

\* A window with neither end given.
AnyTime == <<0, 1000>>

\* _gather_corpus_stats()
CorpusStats(segments, query) ==
  LET sum(of(_)) == SumOf([k \in DOMAIN segments |-> of(segments[k].index)]) IN
  [docs |-> sum(LAMBDA x : Len(x.lengths)), total |-> sum(LAMBDA x : x.total),
   df |-> [t \in Range(Tokenize(query)) |->
     sum(LAMBDA x : IF t \in DOMAIN x.lists THEN Len(x.lists[t].ids) ELSE 0)]]

\* Best first; by segment, then by document, where scores are equal.
BetterGlobally(x, y) ==
  \/ x.score > y.score
  \/ x.score = y.score /\ x.segment < y.segment
  \/ x.score = y.score /\ x.segment = y.segment /\ x.doc < y.doc

RankedGlobally(hits) == SortedBy(hits, BetterGlobally)

\* Slip: each segment is asked for a page only, wherever the page starts.
PageDepth(top, offset) == top

\* What each segment is asked for, when the page starts at offset.
Depth(top, offset) == offset + top

\* The page of the hits of all segments asked.
PageOf(asked, found, depth, offset) ==
  LET merged == UNION {{[segment |-> asked[k].key, doc |-> hit.doc, score |-> hit.score] :
                         hit \in Range(found[k].hits)} : k \in DOMAIN asked}
  IN [hits |-> SubSeq(RankedGlobally(merged), offset + 1,
                      Smaller(depth, Cardinality(merged))),
      total |-> SumOf([k \in DOMAIN found |-> found[k].total])]

\* Coordinator.search()
SearchAll(segments, query, top, offset, mode, window, globalStats) ==
  LET surviving == Candidates(segments, window[1], window[2])
      depth == Depth(top, offset)
      found == [k \in DOMAIN surviving |->
        Search(surviving[k].index, query, depth, mode,
               IF globalStats THEN CorpusStats(surviving, query)
               ELSE OwnStats(surviving[k].index))]
  IN PageOf(surviving, found, depth, offset)
-----------------------------------------------------------------------------
(* index/ingest.py and compactor.py *)

\* ingest(): an object for every so many documents, named after the first.
BatchIngest(docs, perSegment) ==
  LET part == Chunks(docs, perSegment) IN
  [k \in DOMAIN part |->
     [key |-> (k - 1) * perSegment, object |-> WriteSegment(MemoryIndex(part[k]))]]

\* What the manifest and a reader of it know of a segment.
LiveSegment(key, reader) ==
  [key |-> key, index |-> OnDisk(reader),
   minTs |-> reader.footer.minTs, maxTs |-> reader.footer.maxTs]

\* merge_group(): the documents of the sources in order, indexed again.
MergedObject(readers) ==
  WriteSegment(MemoryIndex(FlattenSeq(
    [k \in DOMAIN readers |->
       [i \in 1 .. readers[k].footer.numDocs |-> ReadDocument(readers[k], i - 1)]])))
-----------------------------------------------------------------------------
(* What queries promise, for the documents indexed. *)

Matches(doc, query, mode) ==
  LET wanted == Range(Tokenize(query))
      has == UNION {Range(doc.fields[f]) : f \in DOMAIN doc.fields}
  IN IF mode = "and" THEN wanted # {} /\ wanted \subseteq has ELSE wanted \cap has # {}

\* An object read back from storage answers as the index it was written from,
\* term by term and document by document: no term is denied by the bloom filter
\* or sought in the wrong block, and no document fetched from another's place.
ReadsBack(docs, reader) ==
  LET index == MemoryIndex(docs)
      same(t) ==
        IF t \notin DOMAIN index.lists THEN ReadPostings(reader, t) = Nothing
        ELSE /\ Entry(reader, t) # Nothing
             /\ DocIds(ReadPostings(reader, t)) = index.lists[t].ids
             /\ Freqs(ReadPostings(reader, t)) = index.lists[t].freqs
  IN /\ \A t \in DOMAIN Digest :
          /\ same(t)
          /\ DocumentFrequency(reader, t) =
               IF t \in DOMAIN index.lists THEN Len(index.lists[t].ids) ELSE 0
     /\ \A i \in DOMAIN docs :
          ReadDocument(reader, i - 1) = docs[i] /\ reader.hot.lengths[i] = index.lengths[i]
     /\ reader.footer.numDocs = Len(docs)

\* A write that stopped part way leaves nothing that opens as a segment.
TornIsRefused(object) ==
  \A n \in 0 .. Len(object) - 1 : OpenSegment(SubSeq(object, 1, n)) = Nothing

\* A query over an index of some documents finds exactly the documents a scan
\* would.
SearchIsScan(docs, index, query, mode) ==
  LET result == Search(index, query, Len(docs), mode, OwnStats(index)) IN
  /\ {h.doc : h \in Range(result.hits)} =
       {i - 1 : i \in {j \in DOMAIN docs : Matches(docs[j], query, mode)}}
  /\ Len(result.hits) = result.total

SamePages(whole, pages) ==
  LET hits == FlattenSeq([k \in DOMAIN pages |-> pages[k].hits])
  IN /\ [k \in DOMAIN hits |->
           [doc |-> hits[k].segment + hits[k].doc, score |-> hits[k].score]] = whole.hits
     /\ \A k \in DOMAIN pages : pages[k].total = whole.total

\* With collection-wide statistics the cut into segments does not show: paged
\* through, the segments yield the documents of one index of them all, with the
\* same scores and in the same order.
CutDoesNotShow(segments, docs, index, page, query, mode) ==
  SamePages(Search(index, query, Len(docs), mode, OwnStats(index)),
            [k \in DOMAIN docs |->
               SearchAll(segments, query, page, (k - 1) * page, mode, AnyTime, TRUE)])

\* Passing over segments by their time range misses no document of the window.
PruningMissesNothing(segments, docs, query, mode, from, to) ==
  LET found == SearchAll(segments, query, Len(docs), 0, mode, <<from, to>>, FALSE).hits
  IN \A i \in DOMAIN docs :
       Matches(docs[i], query, mode) /\ docs[i].ts \in from .. to =>
         \E k \in DOMAIN found : found[k].segment + found[k].doc = i - 1
=============================================================================
