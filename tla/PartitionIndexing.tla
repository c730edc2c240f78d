-------------------------- MODULE PartitionIndexing --------------------------
(***************************************************************************)
(* One Kafka partition turned into searchable segments                     *)
(* (src/aether/stream/indexer.py, src/aether/stream/partition.py).         *)
(*                                                                         *)
(* Consumers of one group take turns owning the partition.  The owner      *)
(* buffers messages, seals the buffer into a segment, lists the segment in *)
(* the partition's manifest and only then commits the offset: three        *)
(* requests to three places, with a crash, a handover or an eviction from  *)
(* the group possible between any two of them.                             *)
(*                                                                         *)
(* The state of a consumer is that of its run() loop and of the            *)
(* PartitionIndexer it holds for this partition; partitions share neither  *)
(* objects nor manifest nor offsets, so one partition is enough.           *)
(***************************************************************************)
EXTENDS Manifests, FiniteSets

CONSTANTS
  Consumers,  \* processes running the indexer in one consumer group
  NoOwner,    \* the partition is assigned to nobody
  MaxDocs,    \* FlushPolicy.max_docs
  IdleFlush,  \* whether FlushPolicy.max_idle_seconds is set
  MaxOffset,  \* bound: messages the producer appends
  MaxFaults   \* bound: how often each kind of disturbance happens

Fault == {"crash", "revoke", "stop", "expel"}

ASSUME ConsumersAssumption == NoOwner \notin Consumers
ASSUME PolicyAssumption == MaxDocs \in Nat \ {0} /\ IdleFlush \in BOOLEAN
ASSUME BoundsAssumption == MaxOffset \in Nat /\ MaxFaults \in [Fault -> Nat]

VARIABLES
  hw,         \* the broker: messages in the partition, offsets 0 .. hw - 1
  committed,  \* the broker: the group's committed offset
  owner,      \* the broker: the consumer the partition is assigned to
  objects,    \* the store: segments that have been put
  manifest,   \* the store: manifests/p<n>/current.json
  phase,      \* where each consumer is in its loop
  first,      \* first buffered offset (equal to next when nothing is buffered)
  next,       \* the next offset the consumer will be given
  view,       \* PartitionIndexer._manifest, read once at assignment
  closing,    \* the loop has ended and the rest of the buffer is being sealed
  faults      \* bookkeeping: disturbances so far

brokerVars == <<hw, committed, owner>>
storeVars == <<objects, manifest>>
consumerVars == <<phase, first, next, view, closing>>
vars == <<brokerVars, storeVars, consumerVars, faults>>

Phase == {"idle",        \* holds no indexer for the partition
          "assigned",    \* in on_assign, manifest not read yet
          "polling",     \* in consumer.poll
          "sealing",     \* in flush(), before the segment is put
          "publishing",  \* in flush(), before the manifest is put
          "committing"}  \* before consumer.commit returns

TypeOK ==
  /\ hw \in Nat /\ committed \in Nat /\ owner \in Consumers \cup {NoOwner}
  /\ objects \subseteq Segments /\ manifest \in Manifest
  /\ phase \in [Consumers -> Phase]
  /\ first \in [Consumers -> Nat] /\ next \in [Consumers -> Nat]
  /\ view \in [Consumers -> Manifest]
  /\ closing \in [Consumers -> BOOLEAN]
  /\ faults \in [Fault -> Nat]

Init ==
  /\ hw = 0 /\ committed = 0 /\ owner = NoOwner
  /\ objects = {} /\ manifest = EmptyManifest
  /\ phase = [c \in Consumers |-> "idle"]
  /\ first = [c \in Consumers |-> 0] /\ next = [c \in Consumers |-> 0]
  /\ view = [c \in Consumers |-> EmptyManifest]
  /\ closing = [c \in Consumers |-> FALSE]
  /\ faults = [f \in Fault |-> 0]
-----------------------------------------------------------------------------
Buffered(c) == next[c] - first[c]

\* Slip: the range starts one offset early.
SealedOneEarly(c) == Segment(first[c] - 1, next[c] - 1)

\* The segment the buffered documents seal into: its key is their range.
Sealed(c) == Segment(first[c], next[c] - 1)

Disturb(f) ==
  /\ faults[f] < MaxFaults[f]
  /\ faults' = [faults EXCEPT ![f] = @ + 1]

\* The consumer drops its indexer, and the partition with it if it was its own.
Leave(c) ==
  /\ phase' = [phase EXCEPT ![c] = "idle"]
  /\ first' = [first EXCEPT ![c] = 0] /\ next' = [next EXCEPT ![c] = 0]
  /\ view' = [view EXCEPT ![c] = EmptyManifest]
  /\ closing' = [closing EXCEPT ![c] = FALSE]
  /\ owner' = IF owner = c THEN NoOwner ELSE owner
  /\ UNCHANGED <<hw, committed, storeVars>>

\* A producer appends a message to the partition.
Produce ==
  /\ hw < MaxOffset
  /\ hw' = hw + 1
  /\ UNCHANGED <<committed, owner, storeVars, consumerVars, faults>>

\* Slip: consumption resumes at the earliest offset although one is committed.
AssignFromEarliest(c) ==
  /\ owner = NoOwner /\ phase[c] = "idle"
  /\ owner' = c
  /\ phase' = [phase EXCEPT ![c] = "assigned"]
  /\ UNCHANGED <<hw, committed, storeVars, first, next, view, closing, faults>>

\* The broker hands the partition over.  Consumption resumes at the committed
\* offset, or at the earliest one when the group has none.
Assign(c) ==
  /\ owner = NoOwner /\ phase[c] = "idle"
  /\ owner' = c
  /\ phase' = [phase EXCEPT ![c] = "assigned"]
  /\ first' = [first EXCEPT ![c] = committed]
  /\ next' = [next EXCEPT ![c] = committed]
  /\ UNCHANGED <<hw, committed, storeVars, view, closing, faults>>

\* Slip: the indexer starts from an empty manifest instead of the stored one.
ReadNothing(c) ==
  /\ phase[c] = "assigned"
  /\ phase' = [phase EXCEPT ![c] = "polling"]
  /\ UNCHANGED <<brokerVars, storeVars, first, next, view, closing, faults>>

\* on_assign builds the PartitionIndexer, which reads the manifest this once.
ReadManifest(c) ==
  /\ phase[c] = "assigned"
  /\ view' = [view EXCEPT ![c] = manifest]
  /\ phase' = [phase EXCEPT ![c] = "polling"]
  /\ UNCHANGED <<brokerVars, storeVars, first, next, closing, faults>>

\* Slip: a full buffer is noticed one message late.
PollOneOver(c) ==
  /\ phase[c] = "polling" /\ next[c] < hw
  /\ next' = [next EXCEPT ![c] = @ + 1]
  /\ phase' = [phase EXCEPT
                 ![c] = IF Buffered(c) + 1 > MaxDocs THEN "sealing" ELSE "polling"]
  /\ UNCHANGED <<brokerVars, storeVars, first, view, closing, faults>>

\* poll() returns the next message; the buffer is full or polling goes on.
\* Fetching is not fenced by the group: an evicted consumer is served as well.
Poll(c) ==
  /\ phase[c] = "polling" /\ next[c] < hw
  /\ next' = [next EXCEPT ![c] = @ + 1]
  /\ phase' = [phase EXCEPT
                 ![c] = IF Buffered(c) + 1 >= MaxDocs THEN "sealing" ELSE "polling"]
  /\ UNCHANGED <<brokerVars, storeVars, first, view, closing, faults>>

\* Slip: the timer is looked at only when the buffer is full.
TimerNeedsFullBuffer(c) ==
  /\ IdleFlush /\ phase[c] = "polling" /\ Buffered(c) >= MaxDocs
  /\ phase' = [phase EXCEPT ![c] = "sealing"]
  /\ UNCHANGED <<brokerVars, storeVars, first, next, view, closing, faults>>

\* should_flush() finds the timer expired, on a message or on a quiet topic.
TimerFires(c) ==
  /\ IdleFlush /\ phase[c] = "polling" /\ Buffered(c) > 0
  /\ phase' = [phase EXCEPT ![c] = "sealing"]
  /\ UNCHANGED <<brokerVars, storeVars, first, next, view, closing, faults>>

\* The loop ends (a signal, max_events, idle_timeout): seal what is left, or
\* close the consumer at once when nothing is.
EndLoop(c) ==
  /\ phase[c] = "polling" /\ Disturb("stop")
  /\ \/ /\ Buffered(c) > 0
        /\ phase' = [phase EXCEPT ![c] = "sealing"]
        /\ closing' = [closing EXCEPT ![c] = TRUE]
        /\ UNCHANGED <<brokerVars, storeVars, first, next, view>>
     \/ Buffered(c) = 0 /\ Leave(c)

\* flush(), first request: the segment object.
PutSegment(c) ==
  /\ phase[c] = "sealing"
  /\ objects' = objects \cup {Sealed(c)}
  /\ phase' = [phase EXCEPT ![c] = "publishing"]
  /\ UNCHANGED <<brokerVars, manifest, first, next, view, closing, faults>>

\* Slip: the manifest is put before the segment.
ManifestFirst(c) ==
  /\ phase[c] \in {"sealing", "publishing"}
  /\ view' = [view EXCEPT ![c] = Publish(@, Sealed(c))]
  /\ manifest' = view'[c]
  /\ first' = [first EXCEPT ![c] = next[c]]
  /\ phase' = [phase EXCEPT ![c] = "committing"]
  /\ UNCHANGED <<brokerVars, objects, next, closing, faults>>

\* flush(), second request: the manifest, from the copy in memory.  The footer
\* of the segment is read back first, so the object must be there.  The buffer
\* is emptied once the request has returned.
PutManifest(c) ==
  /\ phase[c] = "publishing" /\ Sealed(c) \in objects
  /\ view' = [view EXCEPT ![c] = Publish(@, Sealed(c))]
  /\ manifest' = view'[c]
  /\ first' = [first EXCEPT ![c] = next[c]]
  /\ phase' = [phase EXCEPT ![c] = "committing"]
  /\ UNCHANGED <<brokerVars, objects, next, closing, faults>>

\* Slip: the last indexed offset is committed, not the one after it.
CommitLast(c) ==
  /\ phase[c] = "committing" /\ owner = c
  /\ committed' = next[c] - 1
  /\ phase' = [phase EXCEPT ![c] = "polling"]
  /\ UNCHANGED <<hw, owner, storeVars, first, next, view, closing, faults>>

\* _commit(), synchronous: accepted from the owner.  After the last flush of a
\* loop that has ended the consumer is closed.
Commit(c) ==
  /\ phase[c] = "committing" /\ owner = c
  /\ committed' = next[c]
  /\ IF closing[c]
     THEN /\ phase' = [phase EXCEPT ![c] = "idle"]
          /\ first' = [first EXCEPT ![c] = 0] /\ next' = [next EXCEPT ![c] = 0]
          /\ view' = [view EXCEPT ![c] = EmptyManifest]
          /\ closing' = [closing EXCEPT ![c] = FALSE]
          /\ owner' = NoOwner
     ELSE /\ phase' = [phase EXCEPT ![c] = "polling"]
          /\ UNCHANGED <<first, next, view, closing, owner>>
  /\ UNCHANGED <<hw, storeVars, faults>>

\* The broker refuses the commit of a consumer it evicted; the exception ends
\* run() and closes the consumer.
CommitRefused(c) ==
  /\ phase[c] = "committing" /\ owner # c
  /\ Leave(c) /\ UNCHANGED faults

\* A rebalance takes the partition away inside poll(): _on_revoke discards the
\* buffer.
Revoke(c) ==
  /\ owner = c /\ phase[c] = "polling"
  /\ Disturb("revoke") /\ Leave(c)

\* An evicted consumer learns of it in poll() and discards its buffer likewise.
NoticeEviction(c) ==
  /\ owner # c /\ phase[c] = "polling"
  /\ Leave(c) /\ UNCHANGED faults

\* The process dies, or an exception ends it: memory is gone, the store stays.
Crash(c) ==
  /\ phase[c] # "idle"
  /\ Disturb("crash") /\ Leave(c)

\* The broker evicts a consumer that is too slow to poll while it goes on
\* working: a zombie.
Expel(c) ==
  /\ owner = c /\ Disturb("expel")
  /\ owner' = NoOwner
  /\ UNCHANGED <<hw, committed, storeVars, consumerVars>>

Step(c) ==
  \/ Assign(c) \/ ReadManifest(c) \/ Poll(c) \/ TimerFires(c) \/ EndLoop(c)
  \/ PutSegment(c) \/ PutManifest(c) \/ Commit(c) \/ CommitRefused(c)
  \/ Revoke(c) \/ NoticeEviction(c) \/ Crash(c) \/ Expel(c)

Next == Produce \/ \E c \in Consumers : Step(c)

Spec == Init /\ [][Next]_vars

\* What a live process and a live broker do sooner or later.  Nothing is
\* assumed of the producer, of the disturbances or of the timer.
Progress(c) ==
  /\ WF_vars(ReadManifest(c)) /\ WF_vars(Poll(c))
  /\ WF_vars(PutSegment(c)) /\ WF_vars(PutManifest(c))
  /\ WF_vars(Commit(c)) /\ WF_vars(CommitRefused(c))
  /\ WF_vars(NoticeEviction(c))

FairSpec ==
  /\ Spec
  /\ WF_vars(\E c \in Consumers : Assign(c))
  /\ \A c \in Consumers : Progress(c)
-----------------------------------------------------------------------------
(* What the code promises. *)

\* No document is counted twice: two listed segments never share an offset,
\* whatever was replayed, by whom, and however stale the manifest it started
\* from (Manifest.publish evicts by range).
NoDocumentTwice ==
  \A s, t \in manifest.segments : s # t => Documents(s) \cap Documents(t) = {}

\* Every document below the committed offset is searchable: the broker will
\* not deliver it again, so an index without it has lost it for good.
AcknowledgedIsSearchable == 0 .. committed - 1 \subseteq Searchable(manifest)

\* The manifest names only segments that are completely stored, so a query
\* that reads it finds every object (segment put before manifest put).
ListedIsStored == manifest.segments \subseteq objects

\* Listed segments never straddle the committed offset.  Replay restarts at
\* that offset, and evicting a segment that begins below it would take
\* acknowledged documents out of the index.
NoneStraddlesCommitted ==
  \A s \in manifest.segments : s.last < committed \/ s.first >= committed

\* Every manifest write raises the stored generation, so that an older state
\* is never stored over a newer one (Manifest.with_segments).
GenerationRises ==
  [][manifest' # manifest => manifest'.generation > manifest.generation]_vars

\* Replaying produces the same segments: publishing never evicts a segment
\* other than the identical one (partition.py, FlushPolicy.deterministic).
ReplayRewritesIdentically == [][manifest.segments \subseteq manifest'.segments]_vars

\* Committed offsets only move forward, across handovers and crashes: a group
\* that goes backwards indexes again what it has acknowledged.
CommittedOnlyAdvances == [][committed' >= committed]_vars

\* Every message with max_docs - 1 others behind it is eventually indexed and
\* acknowledged, once crashes, handovers and stops let up: no timer is needed.
FullAreAcknowledged ==
  \A o \in 0 .. MaxOffset - 1 : (hw >= o + MaxDocs) ~> (committed > o)

\* With a timer that is looked at every so often, so is the last message of a
\* quiet topic.
EventuallyAcknowledged ==
  (\A c \in Consumers : WF_vars(TimerFires(c))) =>
    \A o \in 0 .. MaxOffset - 1 : (hw > o) ~> (committed > o)
-----------------------------------------------------------------------------
(* Why it holds while consumers are not evicted at work: the inductive     *)
(* invariant, in parts.                                                    *)

\* Exactly the consumer at work owns the partition, and once it has read the
\* manifest nobody else has changed it.
SingleWriter ==
  \A c \in Consumers :
    /\ phase[c] # "idle" <=> owner = c
    /\ phase[c] \notin {"idle", "assigned"} => view[c] = manifest

\* The buffer starts at the committed offset until a flush has emptied it, and
\* never runs ahead of the log.
BufferAtCommitted ==
  \A c \in Consumers :
    /\ phase[c] \notin {"idle", "committing"} => first[c] = committed
    /\ next[c] <= hw

\* Between the manifest and the commit the buffer is empty, all that is listed
\* lies below the offset about to be committed, and everything below it is.
ReadyToCommit ==
  \A c \in Consumers :
    phase[c] = "committing" =>
      /\ committed < next[c] /\ first[c] = next[c]
      /\ 0 .. next[c] - 1 \subseteq Searchable(manifest)
      /\ \A s \in manifest.segments : s.last < next[c]

\* A listed segment is acknowledged whole or begins at the committed offset,
\* where the replay that may supersede it begins as well.
Aligned ==
  /\ committed <= hw
  /\ \A s \in manifest.segments :
       /\ s.first <= s.last /\ s.last < hw
       /\ s.last < committed \/ s.first = committed

WriterInv ==
  /\ SingleWriter /\ BufferAtCommitted /\ ReadyToCommit /\ Aligned
  /\ AcknowledgedIsSearchable
-----------------------------------------------------------------------------
\* How often a search that matches everything returns the document at each
\* offset: once for every listed segment that holds it.
Hits == [o \in 0 .. MaxOffset - 1 |-> Cardinality(Holders(manifest, o))]

Abstract == INSTANCE ExactlyOnceIndex
              WITH log <- hw, acked <- committed, hits <- Hits

\* The partition's index is at every moment a prefix of the log that reaches
\* the committed offset, each document in it once, and indexing moves it only
\* between such prefixes: PartitionIndexing implements ExactlyOnceIndex.
ImplementsExactlyOnce == Abstract!Spec
=============================================================================
