----------------------------- MODULE Manifests -----------------------------
(***************************************************************************)
(* The live set of an index: which segments a query may read               *)
(* (src/aether/index/manifest.py).                                         *)
(*                                                                         *)
(* A segment is named by the range of source offsets it covers, so the     *)
(* record [first, last] stands for the SegmentMeta and for its object key  *)
(* (partition.segment_key derives the key from the two offsets alone).     *)
(* Byte sizes, document counts and timestamps are not needed here.  The    *)
(* code keeps the segments in a list; nothing reads their order before     *)
(* sorting them, so a set is enough.                                       *)
(***************************************************************************)
EXTENDS Naturals

\* The segment whose key says offsets first..last.
Segment(first, last) == [first |-> first, last |-> last]

Segments == [first : Nat, last : Nat]

\* The documents a segment sealed from the log holds: one per offset.
Documents(s) == s.first .. s.last

Manifest == [segments : SUBSET Segments, generation : Nat]

\* What an absent manifest object reads as.
EmptyManifest == [segments |-> {}, generation |-> 0]

\* SegmentMeta.covers: do the two ranges intersect?
Covers(s, first, last) == s.first <= last /\ first <= s.last

\* Slip: the new manifest keeps the generation of the old one.
SameGeneration(m, live) == [segments |-> live, generation |-> m.generation]

\* A manifest naming another live set, one generation later.
WithSegments(m, live) == [segments |-> live, generation |-> m.generation + 1]

\* Slip: eviction by key, not by range.
KeptByKey(m, s) == {t \in m.segments : t # s}

\* Slip: only what lies wholly inside the new range is evicted.
KeptUnlessInside(m, s) ==
  {t \in m.segments : ~(s.first <= t.first /\ t.last <= s.last)}

\* The segments of m that publishing s leaves listed: neither under the key
\* of s nor covering any of its range.
Kept(m, s) == {t \in m.segments : t # s /\ ~Covers(t, s.first, s.last)}

\* Add a segment, evicting everything its range supersedes.
Publish(m, s) == WithSegments(m, Kept(m, s) \cup {s})

\* The documents a query against the manifest can find.
Searchable(m) == UNION {Documents(s) : s \in m.segments}

\* The segments of the manifest that hold the document at offset o: a query
\* counts the document once for each of them.
Holders(m, o) == {s \in m.segments : o \in Documents(s)}
=============================================================================
