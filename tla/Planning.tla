------------------------------ MODULE Planning ------------------------------
(***************************************************************************)
(* What to merge (src/aether/index/compactor.py), and the live set of      *)
(* several partitions (src/aether/index/manifest.py).                      *)
(*                                                                         *)
(* A live segment is [dir, first, last, bytes]: the directory of its key,  *)
(* its offset range, of which the rest of the key is made, and its size.   *)
(* Segments without offsets, of manifests older than the code, are left    *)
(* out, and with them the order among equal first offsets.                 *)
(***************************************************************************)
EXTENDS Integers, SequencesExt, Orders

CONSTANT SizeTierRatio    \* compactor.SIZE_TIER_RATIO

ByOffset(segments) == Sorted([s \in segments |-> s.first])
BySize(segments) ==
  SetToSortSeq(segments, LAMBDA s, t : \/ s.bytes < t.bytes
                                       \/ s.bytes = t.bytes /\ s.first < t.first)

SameKey(s, t) == s.dir = t.dir /\ s.first = t.first /\ s.last = t.last

TotalBytes(run) == FoldLeft(LAMBDA sum, s : sum + s.bytes, 0, run)

\* A newcomer may be at most so much larger than the largest of a run, and at
\* most so much smaller than the smallest.
SameTier(run, s) ==
  /\ \E t \in Range(run) : s.bytes <= t.bytes * SizeTierRatio
  /\ \E t \in Range(run) : s.bytes * SizeTierRatio >= t.bytes

\* close_run()
CloseRun(plan, mergeFactor) ==
  [groups |-> IF Len(plan.run) >= mergeFactor THEN Append(plan.groups, plan.run)
              ELSE plan.groups,
   run |-> <<>>]

\* One segment of the walk.
Extend(plan, s, mergeFactor, maxBytes) ==
  LET fits == SameTier(plan.run, s) /\ TotalBytes(plan.run) + s.bytes <= maxBytes
      open == IF plan.run = <<>> \/ fits THEN plan ELSE CloseRun(plan, mergeFactor)
      grown == [open EXCEPT !.run = Append(@, s)]
  IN IF Len(grown.run) = mergeFactor THEN CloseRun(grown, mergeFactor) ELSE grown

\* Slip: segments are walked in order of size, as tiers suggest.
PlanBySize(segments, mergeFactor, maxBytes) ==
  CloseRun(FoldLeft(LAMBDA plan, s : Extend(plan, s, mergeFactor, maxBytes),
                    [groups |-> <<>>, run |-> <<>>], BySize(segments)),
           mergeFactor).groups

\* plan_compaction()
PlanCompaction(segments, mergeFactor, maxBytes) ==
  CloseRun(FoldLeft(LAMBDA plan, s : Extend(plan, s, mergeFactor, maxBytes),
                    [groups |-> <<>>, run |-> <<>>], ByOffset(segments)),
           mergeFactor).groups

\* merged_key(): a group becomes one segment over its whole range.  Its size is
\* taken to be the sum of its sources'; the code records what was written.
MergedFrom(group) ==
  [dir |-> Head(group).dir, first |-> Head(group).first, last |-> Last(group).last,
   bytes |-> TotalBytes(group)]

\* compact(): one manifest update for each group, which unlists the sources and
\* whatever has the key of the merged segment.
Compacted(segments, mergeFactor, maxBytes) ==
  FoldLeft(LAMBDA live, group :
             {s \in live \ Range(group) : ~SameKey(s, MergedFrom(group))} \cup {MergedFrom(group)},
           segments, PlanCompaction(segments, mergeFactor, maxBytes))

\* Slip: the manifests are joined the way one is published into.
UnionByPublishing(manifests) ==
  FoldLeft(LAMBDA live, s : {t \in live : t.last < s.first \/ s.last < t.first} \cup {s},
           {}, FlattenSeq([k \in DOMAIN manifests |-> ByOffset(manifests[k])]))

\* union_manifests(): a key's first segment stays.
UnionManifests(manifests) ==
  FoldLeft(LAMBDA seen, s : IF \E t \in seen : SameKey(s, t) THEN seen ELSE seen \cup {s},
           {}, FlattenSeq([k \in DOMAIN manifests |-> ByOffset(manifests[k])]))
-----------------------------------------------------------------------------
OffsetsOf(s) == {<<s.dir, o>> : o \in s.first .. s.last}

\* Every offset of some segments is in one of others, and in no two.
SameOffsetsOnce(before, after) ==
  /\ UNION {OffsetsOf(s) : s \in after} = UNION {OffsetsOf(s) : s \in before}
  /\ \A s, t \in after : s # t => OffsetsOf(s) \cap OffsetsOf(t) = {}

\* Merges as planned keep every offset once, rewrite no more than the ceiling
\* at a time, and take neighbours only: no other segment lies between them.
PlansAreRuns(segments, mergeFactor, maxBytes) ==
  LET groups == PlanCompaction(segments, mergeFactor, maxBytes) IN
  /\ SameOffsetsOnce(segments, Compacted(segments, mergeFactor, maxBytes))
  /\ \A k \in DOMAIN groups :
       /\ Len(groups[k]) = mergeFactor
       /\ TotalBytes(groups[k]) <= maxBytes
       /\ \A s \in segments : s.first \in Head(groups[k]).first .. Last(groups[k]).last
                              => s \in Range(groups[k])
       /\ \A i \in 2 .. mergeFactor : \E j \in 1 .. i - 1 :
            /\ groups[k][i].bytes <= groups[k][j].bytes * SizeTierRatio
            /\ \E h \in 1 .. i - 1 : groups[k][i].bytes * SizeTierRatio >= groups[k][h].bytes

\* The union over partitions has every segment of each, though their offsets
\* coincide.
UnionKeepsEverySegment(manifests) ==
  SameOffsetsOnce(UNION Range(manifests), UnionManifests(manifests))
=============================================================================
