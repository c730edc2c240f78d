------------------------------ MODULE MCFormats ------------------------------
(***************************************************************************)
(* The pure parts of the program on bounded inputs: every state but the    *)
(* first holds one input, and the invariants say what the code makes of    *)
(* it.                                                                     *)
(***************************************************************************)
EXTENDS Queries, Datasets, Planning, Ensembles, TLC

CONSTANTS
  IdsFrom, DocsFrom, MaxIndexed, MaxTerms, Asked,
  Sizes, MaxSegments, MergeFactors, Ceilings,
  RowsFrom, MaxRows, SliceSessionsUpTo, ScanLimits,
  TreesFrom, MaxTrees, Seen, MaxScored

\* Sequences are bounded in length, segments have sizes, and a merge takes two at
\* least: plan_compaction() refuses any other factor.
ASSUME BoundsAssumption == {MaxIndexed, MaxSegments, MaxRows, MaxTrees, MaxScored} \subseteq Nat
ASSUME PlansAssumption ==
  /\ Sizes \subseteq Nat /\ Ceilings \subseteq Nat /\ MergeFactors \subseteq Nat \ {0, 1}
  /\ SizeTierRatio \in Nat

\* Document ids and frequencies fit the 32 bits bitpack takes them for, and the
\* 31 that TLC has.
Int32Max == 2147483647

ASSUME ListsAssumption ==
  IdsFrom \subseteq 0 .. Int32Max /\ IsFiniteSet(IdsFrom) /\ Cardinality(IdsFrom) < Int32Max \div 3

\* Texts are words that are dropped or have a hash; neither a number nor a document
\* is taken for the magic of a footer; a time is a number where there is one.
ASSUME DocsAssumption ==
  /\ \A doc \in DocsFrom :
       /\ doc.fields \in Seq(Seq(Dropped \cup DOMAIN Digest))
       /\ doc.ts = NoTime \/ doc.ts \in AnyTime[1] .. AnyTime[2]
  /\ Magic \notin Nat \cup DocsFrom
  /\ NoTime \notin Int

\* So are queries, and scores are numbers for all that can be counted.
ASSUME ScoresAssumption ==
  /\ Asked \subseteq Seq(Dropped \cup DOMAIN Digest)
  /\ MaxTerms \in Nat /\ \A doc \in DocsFrom : Len(Terms(doc)) <= MaxTerms
  /\ \A freq, length \in 1 .. MaxTerms, total \in 1 .. MaxIndexed * MaxTerms,
        number, df \in 1 .. MaxIndexed :
       TermScore(freq, length, total, number, df) \in Int

\* Times and prices are numbers where they are there at all.
ASSUME RowsAssumption ==
  /\ ScanLimits \subseteq Nat
  /\ \A row \in RowsFrom :
       row.ts \in Int \cup {Unreadable} /\ row.price \in Int \cup {NoPrice}

\* A tree has a root, and the children of a node come after it, as scikit-learn
\* lays trees out.
ASSUME TreesAssumption ==
  \A tree \in TreesFrom :
    /\ tree \in Seq(Range(tree)) /\ tree # <<>>
    /\ \A n \in DOMAIN tree :
         /\ tree[n].value \in Int
         /\ tree[n].leaf \/ {tree[n].left, tree[n].right} \subseteq n .. Len(tree) - 1

VARIABLE probe

SeqsUpTo(S, n) == UNION {[1 .. k -> S] : k \in 0 .. n}

Init == probe = [kind |-> "none"]

\* Two lists of documents, and frequencies that grow or stay.
ProbeLists ==
  \E A, B \in SUBSET IdsFrom, step \in {0, 3} :
    probe' = [kind |-> "lists", a |-> InOrder(A), b |-> InOrder(B),
              freqs |-> [k \in 1 .. Cardinality(IdsFrom) |-> 1 + step * k]]

\* Documents, to be indexed as one segment and as segments of a size.
ProbeDocuments ==
  \E docs \in SeqsUpTo(DocsFrom, MaxIndexed), perSegment \in {1, 2} :
    probe' = [kind |-> "documents", docs |-> docs, perSegment |-> perSegment]

WriteThem ==
  /\ probe.kind = "documents"
  /\ probe' = [kind |-> "written", docs |-> probe.docs,
               object |-> WriteSegment(MemoryIndex(probe.docs)),
               parts |-> BatchIngest(probe.docs, probe.perSegment)]

OpenThem ==
  /\ probe.kind = "written"
  /\ probe' = [kind |-> "opened", docs |-> probe.docs, object |-> probe.object,
               reader |-> OpenSegment(probe.object),
               keys |-> [k \in DOMAIN probe.parts |-> probe.parts[k].key],
               readers |-> [k \in DOMAIN probe.parts |-> OpenSegment(probe.parts[k].object)]]

ReadThem ==
  /\ probe.kind = "opened"
  /\ probe' = [kind |-> "read", docs |-> probe.docs,
               memory |-> InMemory(probe.docs), disk |-> OnDisk(probe.reader),
               segments |-> [k \in DOMAIN probe.keys |->
                               LiveSegment(probe.keys[k], probe.readers[k])]]

Ask ==
  /\ probe.kind = "read"
  /\ \E query \in Asked, mode \in {"and", "or"} :
       probe' = [kind |-> "query", docs |-> probe.docs, memory |-> probe.memory,
                 disk |-> probe.disk, segments |-> probe.segments,
                 query |-> query, mode |-> mode]

\* Segments of the given sizes, end to end.
EndToEnd(dir, sizes) ==
  {[dir |-> dir, first |-> 2 * k, last |-> 2 * k + 1, bytes |-> sizes[k]] : k \in DOMAIN sizes}

ProbePlan ==
  \E sizes \in SeqsUpTo(Sizes, MaxSegments), mergeFactor \in MergeFactors, ceiling \in Ceilings :
    probe' = [kind |-> "plan", segments |-> EndToEnd("p0", sizes),
              mergeFactor |-> mergeFactor, ceiling |-> ceiling]

ProbeUnion ==
  \E m, n \in SeqsUpTo(Sizes, 2) :
    probe' = [kind |-> "union", manifests |-> <<EndToEnd("p0", m), EndToEnd("p1", n)>>]

ProbeRows ==
  \E rows \in SeqsUpTo(RowsFrom, MaxRows), wanted \in SliceSessionsUpTo, scan \in ScanLimits :
    probe' = [kind |-> "rows", rows |-> rows, wanted |-> wanted, scan |-> scan]

ProbeModel ==
  \E trees \in SeqsUpTo(TreesFrom, MaxTrees), rows \in SeqsUpTo([1 .. 2 -> Seen], MaxScored) :
    probe' = [kind |-> "model", trees |-> trees, rows |-> rows]

Next ==
  \/ /\ probe.kind = "none"
     /\ \/ ProbeLists
        \/ ProbeDocuments
        \/ ProbePlan
        \/ ProbeUnion
        \/ ProbeRows
        \/ ProbeModel
  \/ WriteThem
  \/ OpenThem
  \/ ReadThem
  \/ Ask

Spec == Init /\ [][Next]_probe
-----------------------------------------------------------------------------
\* Posting lists are read back as written, and combined as the sets they stand
\* for: the switch from varints to blocks, a short last block and the skip index
\* lose no document and invent none.
ListsAreFaithful ==
  probe.kind = "lists" =>
    /\ ListReadsBack(probe.a, SubSeq(probe.freqs, 1, Len(probe.a)))
    /\ CombinedAsSets(probe.a, probe.b, SubSeq(probe.freqs, 1, Len(probe.b)))

\* A segment read from storage by ranges is the index that was written; a merge
\* of segments is byte for byte the segment of all their documents; and part of a
\* segment is not taken for one.
SegmentsAreFaithful ==
  probe.kind = "opened" =>
    /\ ReadsBack(probe.docs, probe.reader)
    /\ MergedObject(probe.readers) = probe.object
    /\ TornIsRefused(probe.object)

\* A query finds exactly the documents a scan would, in memory and on disk.
SearchFindsWhatAScanFinds ==
  probe.kind = "query" =>
    /\ SearchIsScan(probe.docs, probe.disk, probe.query, probe.mode)
    /\ SearchIsScan(probe.docs, probe.memory, probe.query, probe.mode)

\* Cutting an index into segments, asking each for its best, ranking globally
\* and paging through the result shows in no answer; nor does a time window
\* hide a document that lies in it.
SegmentationDoesNotShow ==
  probe.kind = "query" =>
    /\ \A page \in {1, 2} :
         CutDoesNotShow(probe.segments, probe.docs, probe.memory, page, probe.query, probe.mode)
    /\ \A from \in 1 .. 3 : \A to \in from .. 3 :
         PruningMissesNothing(probe.segments, probe.docs, probe.query, probe.mode, from, to)

\* Merges as planned take neighbours, within the ceiling, and keep every offset.
MergesTakeNeighbours ==
  probe.kind = "plan" => PlansAreRuns(probe.segments, probe.mergeFactor, probe.ceiling)

\* Partitions whose offsets coincide do not evict each other from the live set.
PartitionsStayApart ==
  probe.kind = "union" => UnionKeepsEverySegment(probe.manifests)

\* The training set is what the log says: labels, what was known at the time,
\* the split and slices of the log.
TrainingSetIsSound ==
  probe.kind = "rows" =>
    LET events == IterEvents(probe.rows, NoLimit) IN
    /\ LabelsLookAhead(events)
    /\ SplitIsClean(Dataset(events), 7, 10)
    /\ SliceKeepsLabels(probe.rows, probe.wanted, probe.scan)


\* The two ways of scoring a session with the exported model agree with the
\* trees it was exported from.
ScoresAgree ==
  probe.kind = "model" => WalksAgree(probe.trees, 5, probe.rows)
-----------------------------------------------------------------------------
(* Values for the constants. *)

a == <<1>>
ab == <<1, 2>>
abb == <<1, 2, 2>>
c == <<3>>
the == <<4, 5>>

DroppedWords == {the}

SomeIds == {0, 1, 128, 200, 16384}

\* The halves of the terms' hashes, such that some terms share positions.
DigestOf == a :> <<3, 5>> @@ ab :> <<11, 7>> @@ abb :> <<4, 9>> @@ c :> <<19, 5>>

Doc(ts, title, brand) == [ts |-> ts, fields |-> <<title, brand>>]

SomeDocs ==
  {Doc(1, <<a, the, ab>>, <<>>), Doc(3, <<abb, a>>, <<a>>), Doc(2, <<ab>>, <<c>>),
   Doc(NoTime, <<the>>, <<>>), Doc(1, <<c, c>>, <<ab>>)}

SomeQueries == {<<a>>, <<ab, a>>, <<the, c>>, <<abb, c, c>>, <<the>>}

\* More for rarer terms and for shorter documents.
Weight(freq, length, total, docs, df) ==
  (freq * 60 * (docs + 1 - df) * total) \div (docs * (length + freq))

Row(columns, session, ts, type, product, price) ==
  [columns |-> columns, session |-> session, ts |-> ts, type |-> type,
   product |-> product, price |-> price]

SomeRows ==
  {Row("all", "s", 1, "add_to_cart", "x", 2), Row("all", "s", 2, "purchase", "x", 2),
   Row("all", "s", 2, "remove_from_cart", "x", NoPrice), Row("all", "t", 2, "add_to_cart", "y", 1),
   Row("all", "s", 3, "add_to_cart", "y", NoPrice),
   Row("all", "t", 3, "purchase", NoProduct, NoPrice), Row("few", "s", 1, "view", "x", 2),
   Row("all", "t", Unreadable, "purchase", "y", 1),
   Row("all", NoSession, 1, "add_to_cart", NoProduct, 1)}

Node(feature, threshold, left, right, missingLeft) ==
  [feature |-> feature, threshold |-> threshold, left |-> left, right |-> right,
   leaf |-> FALSE, value |-> 0, missingLeft |-> missingLeft]
Leaf(value) ==
  [feature |-> 1, threshold |-> 0, left |-> 0, right |-> 0, leaf |-> TRUE,
   value |-> value, missingLeft |-> FALSE]

SomeTrees ==
  {<<Leaf(1)>>,
   <<Node(1, 1, 1, 2, TRUE), Leaf(10), Leaf(20)>>,
   <<Node(2, 0, 1, 4, FALSE), Node(1, 2, 2, 3, FALSE), Leaf(100), Leaf(200), Leaf(300)>>}
=============================================================================
