--------------------------- MODULE IndexLifecycle ---------------------------
(***************************************************************************)
(* A partition's segments after they are sealed: small ones are merged by  *)
(* the compactor (src/aether/index/compactor.py), unlisted ones are        *)
(* deleted by the collector (src/aether/index/gc.py), and queries read     *)
(* them meanwhile.  All of it shares one store and one manifest with the   *)
(* indexer of PartitionIndexing, which this module composes with them.     *)
(*                                                                         *)
(* Compactor and collector are commands (src/aether/index/compact.py) run  *)
(* one after the other by hand or on a schedule.  Nothing in the code      *)
(* keeps them apart from the indexer; discipline is that of whoever         *)
(* runs them, and the runs show which discipline each property needs.      *)
(*                                                                         *)
(* Segment sizes are abstracted: which runs of MergeFactor segments form   *)
(* a tier, hence a merge, is a choice.  Object age is abstracted to one    *)
(* bit per object, set when everything stored has outlived grace_seconds.  *)
(***************************************************************************)
EXTENDS PartitionIndexing

CONSTANTS
  MergeFactor,          \* segments per merge
  Disciplines           \* "any": maintenance runs beside the indexer;
                        \* "quiet": only while no consumer is at work;
                        \* "settled": moreover all that is listed is committed

ASSUME MaintenanceAssumption ==
  /\ MergeFactor \in Nat /\ MergeFactor >= 2
  /\ Disciplines \subseteq {"any", "quiet", "settled"}

VARIABLES
  discipline, \* when whoever runs maintenance runs it
  contents,  \* the store: the documents in each stored segment
  aged,      \* the store: objects older than grace_seconds
  cphase,    \* the compactor: "off", "planned", "merged", "reread"
  todo,      \* the compactor: planned segments not yet passed
  group,     \* the compactor: the run being merged
  live,      \* the compactor: the manifest read before the commit
  gphase,    \* the collector: "off", "listed", "doomed"
  listed,    \* the collector: keys some manifest referenced
  old,       \* the collector: objects older than grace_seconds at its start
  doomed,    \* the collector: the object about to be deleted
  querying,  \* the reader: queries read, or may still plan, from qview
  qview      \* the reader: the manifest in its cache

compactorVars == <<cphase, todo, group, live>>
collectorVars == <<gphase, listed, old, doomed>>
readerVars == <<querying, qview>>
lvars == <<vars, discipline, contents, aged, compactorVars, collectorVars, readerVars>>

LTypeOK ==
  /\ TypeOK /\ discipline \in Disciplines
  /\ contents \in [objects -> SUBSET Nat] /\ aged \subseteq objects
  /\ cphase \in {"off", "planned", "merged", "reread"}
  /\ todo \subseteq Segments /\ group \subseteq Segments /\ live \in Manifest
  /\ gphase \in {"off", "listed", "doomed"}
  /\ listed \subseteq Segments /\ old \subseteq Segments /\ doomed \subseteq Segments
  /\ querying \in BOOLEAN /\ qview \in Manifest

LInit ==
  /\ Init /\ discipline \in Disciplines
  /\ contents = [s \in {} |-> {}] /\ aged = {}
  /\ cphase = "off" /\ todo = {} /\ group = {} /\ live = EmptyManifest
  /\ gphase = "off" /\ listed = {} /\ old = {} /\ doomed = {}
  /\ querying = FALSE /\ qview = EmptyManifest
-----------------------------------------------------------------------------
(* The indexer, with the object contents and ages it changes. *)

\* Putting an object stores its contents and makes it young again.
Put(key, docs) ==
  /\ objects' = objects \cup {key}
  /\ contents' = [s \in objects \cup {key} |-> IF s = key THEN docs ELSE contents[s]]
  /\ aged' = aged \ {key} /\ old' = old \ {key}

MaintenanceOff == cphase = "off" /\ gphase = "off"

IndexerPut(c) ==
  /\ PutSegment(c) /\ Put(Sealed(c), Documents(Sealed(c)))
  /\ UNCHANGED <<compactorVars, gphase, listed, doomed, readerVars>>

IndexerStep(c) ==
  /\ Step(c)
  /\ ~(phase[c] = "sealing" /\ phase'[c] = "publishing")
  /\ phase'[c] = "assigned" /\ phase[c] = "idle" /\ discipline # "any" => MaintenanceOff
  /\ UNCHANGED <<contents, aged, compactorVars, collectorVars, readerVars>>

Producer ==
  /\ Produce
  /\ UNCHANGED <<contents, aged, compactorVars, collectorVars, readerVars>>

\* The grace period passes for everything stored.  It is far longer than a
\* flush, a merge or refresh_seconds and a query, so none of them is under way.
GracePasses ==
  /\ \A c \in Consumers : phase[c] # "publishing"
  /\ cphase \notin {"merged", "reread"} /\ ~querying
  /\ aged' = objects
  /\ UNCHANGED <<vars, contents, compactorVars, collectorVars, readerVars>>
-----------------------------------------------------------------------------
(* The compactor. *)

MayMaintain ==
  /\ discipline # "any" => \A c \in Consumers : phase[c] = "idle"
  /\ discipline = "settled" => \A s \in manifest.segments : s.last < committed

\* Runs of MergeFactor segments that are neighbours in offset order.
Runs(segments) ==
  {run \in SUBSET segments :
     /\ Cardinality(run) = MergeFactor
     /\ \A t \in segments \ run :
          \/ \A s \in run : t.first < s.first
          \/ \A s \in run : t.first > s.first}

\* Slip: the merged range starts one offset early.
MergedOneEarly(run) ==
  Segment((CHOOSE lo \in {s.first : s \in run} : \A s \in run : lo <= s.first) - 1,
          (CHOOSE t \in run : \A s \in run : s.first <= t.first).last)

\* The range of a merge: from the first offset of the first segment to the
\* last offset of the last; it names the merged object too.
Merged(run) ==
  Segment(CHOOSE lo \in {s.first : s \in run} : \A s \in run : lo <= s.first,
          (CHOOSE t \in run : \A s \in run : s.first <= t.first).last)

\* compact(): plan every merge from one reading of the manifest.
Plan ==
  /\ MaintenanceOff /\ MayMaintain /\ Runs(manifest.segments) # {}
  /\ cphase' = "planned" /\ todo' = manifest.segments
  /\ UNCHANGED <<vars, contents, aged, group, live, collectorVars, readerVars>>

\* Slip: the documents of one source are not read.
MergeSkipsOne ==
  /\ cphase = "planned"
  /\ \E run \in Runs(todo) : \E skipped \in run :
       /\ run \subseteq objects
       /\ group' = run
       /\ todo' = {s \in todo : \A t \in run : s.first > t.first}
       /\ Put(Merged(run), UNION {contents[s] : s \in run \ {skipped}})
  /\ cphase' = "merged"
  /\ UNCHANGED <<brokerVars, manifest, consumerVars, faults, live,
                 gphase, listed, doomed, readerVars>>

\* merge_group(): read the documents of the next run and put the merged object.
MergeSources ==
  /\ cphase = "planned"
  /\ \E run \in Runs(todo) :
       /\ run \subseteq objects
       /\ group' = run
       /\ todo' = {s \in todo : \A t \in run : s.first > t.first}
       /\ Put(Merged(run), UNION {contents[s] : s \in run})
  /\ cphase' = "merged"
  /\ UNCHANGED <<brokerVars, manifest, consumerVars, faults, live,
                 gphase, listed, doomed, readerVars>>

\* merge_group(): open the merged object, then read the manifest afresh.
Reread ==
  /\ cphase = "merged" /\ Merged(group) \in objects
  /\ live' = manifest /\ cphase' = "reread"
  /\ UNCHANGED <<vars, contents, aged, todo, group, collectorVars, readerVars>>

\* Slip: the sources stay listed.
WriteMergedKeepsSources ==
  /\ cphase = "reread"
  /\ manifest' = WithSegments(live, live.segments \cup {Merged(group)})
  /\ cphase' = "planned" /\ group' = {} /\ live' = EmptyManifest
  /\ UNCHANGED <<brokerVars, objects, consumerVars, faults, contents, aged, todo,
                 collectorVars, readerVars>>

\* merge_group(), the commit: the merged segment replaces its sources in the
\* manifest just read.  The sources stay in the store.
WriteMerged ==
  /\ cphase = "reread"
  /\ manifest' = WithSegments(live, (live.segments \ group) \cup {Merged(group)})
  /\ cphase' = "planned" /\ group' = {} /\ live' = EmptyManifest
  /\ UNCHANGED <<brokerVars, objects, consumerVars, faults, contents, aged, todo,
                 collectorVars, readerVars>>

\* compact() returns: no further run is a tier, or a source cannot be read.
CompactEnds ==
  /\ cphase = "planned"
  /\ cphase' = "off" /\ todo' = {}
  /\ UNCHANGED <<vars, contents, aged, group, live, collectorVars, readerVars>>

\* The command dies in the middle of a merge.
CompactorCrash ==
  /\ cphase \in {"merged", "reread"} /\ Disturb("crash")
  /\ cphase' = "off" /\ todo' = {} /\ group' = {} /\ live' = EmptyManifest
  /\ UNCHANGED <<brokerVars, storeVars, consumerVars, contents, aged,
                 collectorVars, readerVars>>
-----------------------------------------------------------------------------
(* The collector. *)

\* Slip: the manifest is not found, so nothing counts as referenced.
CollectMissesManifest ==
  /\ MaintenanceOff /\ MayMaintain
  /\ gphase' = "listed" /\ listed' = {} /\ old' = aged
  /\ UNCHANGED <<vars, contents, aged, compactorVars, doomed, readerVars>>

\* collect(): note the time and read the manifest, then list the store.
CollectBegins ==
  /\ MaintenanceOff /\ MayMaintain
  /\ gphase' = "listed" /\ listed' = manifest.segments /\ old' = aged
  /\ UNCHANGED <<vars, contents, aged, compactorVars, doomed, readerVars>>

\* collect(), one object of the listing: it is unreferenced and its last
\* modification lies more than grace_seconds before the noted time.
Inspect ==
  /\ gphase = "listed"
  /\ \E s \in (objects \ listed) \cap old : doomed' = {s}
  /\ gphase' = "doomed"
  /\ UNCHANGED <<vars, contents, aged, compactorVars, listed, old, readerVars>>

\* collect(): delete it.
Delete ==
  /\ gphase = "doomed"
  /\ objects' = objects \ doomed
  /\ contents' = [s \in objects \ doomed |-> contents[s]]
  /\ aged' = aged \ doomed /\ old' = old \ doomed
  /\ gphase' = "listed" /\ doomed' = {}
  /\ UNCHANGED <<brokerVars, manifest, consumerVars, faults, compactorVars, listed,
                 readerVars>>

\* collect() returns, or the command dies between two objects.
CollectEnds ==
  /\ gphase = "listed"
  /\ gphase' = "off" /\ listed' = {} /\ old' = {}
  /\ UNCHANGED <<vars, contents, aged, compactorVars, doomed, readerVars>>
-----------------------------------------------------------------------------
(* A reader: a coordinator caches the manifest, and queries plan their      *)
(* reads from it until refresh_seconds have passed.                         *)

\* Coordinator.refresh()
Refresh ==
  /\ ~querying
  /\ querying' = TRUE /\ qview' = manifest
  /\ UNCHANGED <<vars, contents, aged, compactorVars, collectorVars>>

\* refresh_seconds have passed and the last query that planned from the cached
\* manifest is answered: the next one refreshes first.
CacheExpires ==
  /\ querying
  /\ querying' = FALSE /\ qview' = EmptyManifest
  /\ UNCHANGED <<vars, contents, aged, compactorVars, collectorVars>>

LStep ==
  \/ Producer \/ \E c \in Consumers : IndexerPut(c) \/ IndexerStep(c)
  \/ GracePasses
  \/ Plan \/ MergeSources \/ Reread \/ WriteMerged \/ CompactEnds \/ CompactorCrash
  \/ CollectBegins \/ Inspect \/ Delete \/ CollectEnds
  \/ Refresh \/ CacheExpires

LNext == LStep /\ UNCHANGED discipline

LSpec == LInit /\ [][LNext]_lvars
-----------------------------------------------------------------------------
(* What the parts promise together. *)

Readable(m) == m.segments \cap objects

\* The documents a search finds.
Found == UNION {contents[s] : s \in Readable(manifest)}

\* No document is found twice, whatever has been merged, superseded or
\* deleted: two listed objects never hold the same document.
FoundOnce ==
  \A s, t \in Readable(manifest) : s # t => contents[s] \cap contents[t] = {}

\* Every acknowledged document is found in an object that is still stored.
AcknowledgedIsFound == 0 .. committed - 1 \subseteq Found

\* So it is if nothing uncommitted is merged, whatever crashes in between.
SettledIsFound == discipline = "settled" => AcknowledgedIsFound

\* Maintenance rearranges segments and never changes what a search finds: only
\* the indexer's own steps do.
MaintenanceIsInvisible == [][UNCHANGED consumerVars => Found' = Found]_lvars

\* compactor.py: the manifest is read again before the commit, "so a segment
\* published while this ran is not dropped".
MergeUnlistsOnlySources ==
  [][cphase = "reread" /\ cphase' = "planned" =>
       manifest.segments \ group \subseteq manifest'.segments]_lvars

\* state.py: "a stale manifest is never wrong, only behind: it names segments
\* that all still exist".
QueriesFindSegments == querying => qview.segments \subseteq objects
=============================================================================
