--------------------------- MODULE Manifests_proofs ---------------------------
(***************************************************************************)
(* Lemmas about the manifest operators, on which the theorems about every   *)
(* writer of a manifest rest.                                              *)
(***************************************************************************)
EXTENDS Manifests, Integers, FiniteSetTheorems, TLAPS

\* Publishing a segment yields a manifest.
LEMMA PublishType ==
  ASSUME NEW m \in Manifest, NEW s \in Segments
  PROVE  Publish(m, s) \in Manifest
BY DEF Publish, WithSegments, Kept, Manifest

\* The live set after publishing.
LEMMA PublishSegments ==
  ASSUME NEW m \in Manifest, NEW s \in Segments
  PROVE  Publish(m, s).segments = Kept(m, s) \cup {s}
BY DEF Publish, WithSegments

-----------------------------------------------------------------------------
(* Live sets without a document listed twice. *)

Disjoint(live) ==
  \A s, t \in live : s # t => Documents(s) \cap Documents(t) = {}

\* Ranges that do not intersect hold no document in common.
LEMMA NotCoveredDisjoint ==
  ASSUME NEW s \in Segments, NEW t \in Segments, ~Covers(t, s.first, s.last)
  PROVE  Documents(s) \cap Documents(t) = {}
BY DEF Segments, Covers, Documents

\* Publishing keeps the live set disjoint whatever the set and the segment.
LEMMA PublishDisjoint ==
  ASSUME NEW m \in Manifest, NEW s \in Segments, Disjoint(m.segments)
  PROVE  Disjoint(Publish(m, s).segments)
<1>1. m.segments \subseteq Segments
  BY DEF Manifest
<1>2. ASSUME NEW t \in Kept(m, s)
      PROVE  /\ Documents(s) \cap Documents(t) = {}
             /\ Documents(t) \cap Documents(s) = {}
             /\ t \in m.segments
  <2>1. t \in Segments /\ ~Covers(t, s.first, s.last)
    BY <1>1 DEF Kept
  <2>2. Documents(s) \cap Documents(t) = {}
    BY <2>1, NotCoveredDisjoint
  <2>3. QED
    BY <2>2 DEF Kept
<1>3. QED
  BY <1>2, PublishSegments DEF Disjoint

-----------------------------------------------------------------------------
(* What can be found. *)

\* The document at offset o can be found exactly when a listed segment holds it.
LEMMA SearchableHolder ==
  ASSUME NEW m, NEW o
  PROVE  o \in Searchable(m) <=> \E t \in m.segments : o \in Documents(t)
BY DEF Searchable
=============================================================================
