------------------------ MODULE IndexLifecycle_proofs ------------------------
(***************************************************************************)
(* Theorems about the index, for every set of consumers, every flush       *)
(* policy, every merge factor, every log length and every number of        *)
(* disturbances: first about PartitionIndexing, the indexer alone, then    *)
(* about IndexLifecycle, the indexer with maintenance and queries.         *)
(*                                                                         *)
(* Nothing in the code keeps maintenance and indexer apart, so most of the *)
(* latter assume what whoever schedules the commands must see to: "any" is *)
(* not among the disciplines.                                              *)
(***************************************************************************)
EXTENDS IndexLifecycle, Manifests_proofs, Orders_proofs

USE ConsumersAssumption, PolicyAssumption, BoundsAssumption
-----------------------------------------------------------------------------
(* The indexer. *)

\* What a buffer seals into is a segment.
LEMMA SealedType ==
  ASSUME TypeOK, NEW c \in Consumers, first[c] < next[c]
  PROVE  Sealed(c) \in Segments
BY DEF TypeOK, Sealed, Segment, Segments

-----------------------------------------------------------------------------
(* Type correctness. *)

\* A buffer that is being sealed is never empty.
BufferInv ==
  \A c \in Consumers :
    /\ first[c] <= next[c]
    /\ phase[c] \in {"sealing", "publishing"} => first[c] < next[c]

\* Every step keeps the types.
LEMMA TypeStep ==
  ASSUME TypeOK, BufferInv, [Next]_vars
  PROVE  TypeOK' /\ BufferInv'
<1> USE DEF BufferInv
<1>0. EmptyManifest \in Manifest
  BY DEF EmptyManifest, Manifest
<1>1. CASE Produce
  BY <1>1 DEF Produce, TypeOK, storeVars, consumerVars
<1>2. ASSUME NEW c \in Consumers, Assign(c) PROVE TypeOK' /\ BufferInv'
  BY <1>2 DEF Assign, TypeOK, storeVars, Phase
<1>3. ASSUME NEW c \in Consumers, ReadManifest(c) PROVE TypeOK' /\ BufferInv'
  BY <1>3 DEF ReadManifest, TypeOK, storeVars, brokerVars, Phase
<1>4. ASSUME NEW c \in Consumers, Poll(c) PROVE TypeOK' /\ BufferInv'
  BY <1>4 DEF Poll, TypeOK, storeVars, brokerVars, Phase, Buffered
<1>5. ASSUME NEW c \in Consumers, TimerFires(c) PROVE TypeOK' /\ BufferInv'
  BY <1>5 DEF TimerFires, TypeOK, storeVars, brokerVars, Phase, Buffered
<1>6. ASSUME NEW c \in Consumers, Leave(c), faults' \in [Fault -> Nat]
      PROVE  TypeOK' /\ BufferInv'
  BY <1>0, <1>6 DEF Leave, TypeOK, storeVars, Phase
<1>7. ASSUME NEW f \in Fault, Disturb(f) PROVE faults' \in [Fault -> Nat]
  BY <1>7 DEF Disturb, TypeOK
<1>8. ASSUME NEW c \in Consumers, EndLoop(c) PROVE TypeOK' /\ BufferInv'
  <2>1. faults' \in [Fault -> Nat]
    BY <1>7, <1>8 DEF EndLoop, Fault
  <2>2. CASE Buffered(c) = 0 /\ Leave(c)
    BY <1>6, <2>1, <2>2
  <2>3. ASSUME Buffered(c) > 0,
               phase' = [phase EXCEPT ![c] = "sealing"],
               closing' = [closing EXCEPT ![c] = TRUE],
               UNCHANGED <<brokerVars, storeVars, first, next, view>>
        PROVE  TypeOK' /\ BufferInv'
    <3>1. TypeOK'
      BY <2>1, <2>3 DEF TypeOK, storeVars, brokerVars, Phase
    <3>2. BufferInv'
      BY <2>3 DEF TypeOK, Buffered
    <3>3. QED BY <3>1, <3>2
  <2>4. QED BY <1>8, <2>2, <2>3 DEF EndLoop
<1>9. ASSUME NEW c \in Consumers, PutSegment(c) PROVE TypeOK' /\ BufferInv'
  BY <1>9, SealedType DEF PutSegment, TypeOK, brokerVars, Phase
<1>10. ASSUME NEW c \in Consumers, PutManifest(c) PROVE TypeOK' /\ BufferInv'
  <2>1. Publish(view[c], Sealed(c)) \in Manifest
    BY <1>10, SealedType, PublishType DEF PutManifest, TypeOK
  <2>2. QED
    BY <1>10, <2>1 DEF PutManifest, TypeOK, brokerVars, Phase
<1>11. ASSUME NEW c \in Consumers, Commit(c) PROVE TypeOK' /\ BufferInv'
  <2>1. CASE closing[c]
    <3>1. /\ phase' = [phase EXCEPT ![c] = "idle"]
          /\ first' = [first EXCEPT ![c] = 0] /\ next' = [next EXCEPT ![c] = 0]
          /\ view' = [view EXCEPT ![c] = EmptyManifest]
          /\ closing' = [closing EXCEPT ![c] = FALSE]
          /\ owner' = NoOwner
      BY <1>11, <2>1 DEF Commit
    <3>2. /\ committed' = next[c]
          /\ UNCHANGED <<hw, storeVars, faults>>
      BY <1>11 DEF Commit
    <3>3. TypeOK'
      BY <1>0, <3>1, <3>2 DEF TypeOK, storeVars, Phase
    <3>4. BufferInv'
      BY <3>1 DEF TypeOK
    <3>5. QED BY <3>3, <3>4
  <2>2. CASE ~closing[c]
    <3>1. UNCHANGED <<first, next, view, closing, owner>>
      BY <1>11, <2>2 DEF Commit
    <3>2. QED
      BY <1>11, <3>1 DEF Commit, TypeOK, storeVars, Phase
  <2>3. QED BY <2>1, <2>2
<1>12. ASSUME NEW c \in Consumers,
              CommitRefused(c) \/ NoticeEviction(c) \/ Revoke(c) \/ Crash(c)
       PROVE  TypeOK' /\ BufferInv'
  <2>1. Leave(c)
    BY <1>12 DEF CommitRefused, NoticeEviction, Revoke, Crash
  <2>2. faults' \in [Fault -> Nat]
    BY <1>7, <1>12 DEF CommitRefused, NoticeEviction, Revoke, Crash, Fault, TypeOK
  <2>3. QED BY <1>6, <2>1, <2>2
<1>13. ASSUME NEW c \in Consumers, Expel(c) PROVE TypeOK' /\ BufferInv'
  <2>1. faults' \in [Fault -> Nat]
    BY <1>7, <1>13 DEF Expel, Fault
  <2>2. QED
    BY <1>13, <2>1 DEF Expel, TypeOK, storeVars, consumerVars
<1>14. CASE UNCHANGED vars
  BY <1>14 DEF vars, TypeOK, brokerVars, storeVars, consumerVars
<1>15. QED
  BY <1>1, <1>2, <1>3, <1>4, <1>5, <1>8, <1>9, <1>10, <1>11, <1>12, <1>13, <1>14
     DEF Next, Step

\* The state variables keep their types: in particular no segment with a
\* negative or empty range is ever named.
THEOREM TypeCorrect == Spec => [](TypeOK /\ BufferInv)
<1>1. Init => TypeOK /\ BufferInv
  BY DEF Init, TypeOK, BufferInv, Manifest, EmptyManifest, Phase, Segments
<1>2. TypeOK /\ BufferInv /\ [Next]_vars => (TypeOK /\ BufferInv)'
  BY TypeStep
<1>3. QED BY <1>1, <1>2, PTL DEF Spec
-----------------------------------------------------------------------------
(* Every document is listed once, zombies included. *)

\* The stored manifest and every consumer's copy, however stale, are disjoint:
\* the copies matter because any of them may be published from.
DisjointInv ==
  /\ Disjoint(manifest.segments)
  /\ \A c \in Consumers : Disjoint(view[c].segments)

\* Every step keeps the live sets disjoint.
LEMMA DisjointStep ==
  ASSUME TypeOK, BufferInv, DisjointInv, [Next]_vars
  PROVE  DisjointInv'
<1>1. CASE UNCHANGED <<manifest, view>>
  BY <1>1 DEF DisjointInv
<1>2. Disjoint(EmptyManifest.segments)
  BY DEF Disjoint, EmptyManifest
<1>3. ASSUME NEW c \in Consumers, UNCHANGED manifest,
             view' = [view EXCEPT ![c] = EmptyManifest]
      PROVE  DisjointInv'
  BY <1>2, <1>3 DEF DisjointInv, TypeOK
<1>4. ASSUME NEW c \in Consumers, ReadManifest(c) PROVE DisjointInv'
  BY <1>4 DEF ReadManifest, DisjointInv, TypeOK, storeVars
<1>5. ASSUME NEW c \in Consumers, PutManifest(c) PROVE DisjointInv'
  <2>1. Sealed(c) \in Segments
    BY <1>5, SealedType DEF PutManifest, BufferInv
  <2>2. Disjoint(Publish(view[c], Sealed(c)).segments)
    BY <2>1, PublishDisjoint DEF DisjointInv, TypeOK
  <2>3. QED
    BY <1>5, <2>2 DEF PutManifest, DisjointInv, TypeOK
<1>6. ASSUME NEW c \in Consumers, Leave(c) PROVE DisjointInv'
  BY <1>3, <1>6 DEF Leave, storeVars
<1>7. ASSUME NEW c \in Consumers, Commit(c) PROVE DisjointInv'
  BY <1>1, <1>3, <1>7 DEF Commit, storeVars
<1>8. ASSUME NEW c \in Consumers, EndLoop(c) PROVE DisjointInv'
  BY <1>1, <1>6, <1>8 DEF EndLoop, storeVars
<1>9. ASSUME NEW c \in Consumers,
             CommitRefused(c) \/ NoticeEviction(c) \/ Revoke(c) \/ Crash(c)
      PROVE  DisjointInv'
  BY <1>6, <1>9 DEF CommitRefused, NoticeEviction, Revoke, Crash
<1>10. ASSUME NEW c \in Consumers,
              \/ Assign(c) \/ Poll(c) \/ TimerFires(c) \/ PutSegment(c) \/ Expel(c)
       PROVE  DisjointInv'
  BY <1>1, <1>10
     DEF Assign, Poll, TimerFires, PutSegment, Expel, storeVars, consumerVars
<1>11. CASE Produce
  BY <1>1, <1>11 DEF Produce, storeVars, consumerVars
<1>12. CASE UNCHANGED vars
  BY <1>1, <1>12 DEF vars, storeVars, consumerVars
<1>13. QED
  BY <1>4, <1>5, <1>7, <1>8, <1>9, <1>10, <1>11, <1>12 DEF Next, Step

\* The live sets stay disjoint.
LEMMA DisjointAlways == Spec => []DisjointInv
<1>1. Init => DisjointInv
  BY DEF Init, DisjointInv, Disjoint, EmptyManifest
<1>2. TypeOK /\ BufferInv /\ DisjointInv /\ [Next]_vars => DisjointInv'
  BY DisjointStep
<1>3. QED
  BY <1>1, <1>2, TypeCorrect, PTL DEF Spec

\* No document is ever listed twice, for any number of consumers, crashes,
\* handovers and evicted consumers that go on writing.
THEOREM NeverTwice == Spec => []NoDocumentTwice
<1>1. DisjointInv => NoDocumentTwice
  BY DEF DisjointInv, Disjoint, NoDocumentTwice
<1>2. QED
  BY <1>1, DisjointAlways, PTL
-----------------------------------------------------------------------------
(* What is listed is stored, zombies included. *)

\* The copies matter here as well: a stale one may be published from.
StoredInv ==
  /\ manifest.segments \subseteq objects
  /\ \A c \in Consumers : view[c].segments \subseteq objects

\* Every step keeps what is listed stored.
LEMMA StoredStep ==
  ASSUME TypeOK, BufferInv, StoredInv, [Next]_vars
  PROVE  StoredInv'
<1>1. ASSUME objects \subseteq objects', UNCHANGED <<manifest, view>>
      PROVE  StoredInv'
  BY <1>1 DEF StoredInv
<1>2. ASSUME NEW c \in Consumers, UNCHANGED storeVars,
             view' = [view EXCEPT ![c] = EmptyManifest]
      PROVE  StoredInv'
  BY <1>2 DEF StoredInv, TypeOK, storeVars, EmptyManifest
<1>3. ASSUME NEW c \in Consumers, ReadManifest(c) PROVE StoredInv'
  BY <1>3 DEF ReadManifest, StoredInv, TypeOK, storeVars
<1>4. ASSUME NEW c \in Consumers, PutManifest(c) PROVE StoredInv'
  <2>1. Sealed(c) \in Segments /\ Sealed(c) \in objects
    BY <1>4, SealedType DEF PutManifest, BufferInv
  <2>2. Publish(view[c], Sealed(c)).segments \subseteq objects
    BY <2>1, PublishSegments DEF StoredInv, TypeOK, Kept
  <2>3. QED
    BY <1>4, <2>2 DEF PutManifest, StoredInv, TypeOK
<1>5. ASSUME NEW c \in Consumers, Leave(c) PROVE StoredInv'
  BY <1>2, <1>5 DEF Leave
<1>6. ASSUME NEW c \in Consumers, Commit(c) PROVE StoredInv'
  BY <1>1, <1>2, <1>6 DEF Commit, storeVars
<1>7. ASSUME NEW c \in Consumers, EndLoop(c) PROVE StoredInv'
  BY <1>1, <1>5, <1>7 DEF EndLoop, storeVars
<1>8. ASSUME NEW c \in Consumers,
             CommitRefused(c) \/ NoticeEviction(c) \/ Revoke(c) \/ Crash(c)
      PROVE  StoredInv'
  BY <1>5, <1>8 DEF CommitRefused, NoticeEviction, Revoke, Crash
<1>9. ASSUME NEW c \in Consumers,
             Assign(c) \/ Poll(c) \/ TimerFires(c) \/ PutSegment(c) \/ Expel(c)
      PROVE  StoredInv'
  BY <1>1, <1>9
     DEF Assign, Poll, TimerFires, PutSegment, Expel, storeVars, consumerVars
<1>10. CASE Produce \/ UNCHANGED vars
  BY <1>1, <1>10 DEF Produce, vars, storeVars, consumerVars
<1>11. QED
  BY <1>3, <1>4, <1>6, <1>7, <1>8, <1>9, <1>10 DEF Next, Step

\* A query that reads the manifest finds every segment it names, whoever wrote
\* it and from however stale a copy: segments are put before they are listed
\* and indexers delete none.
THEOREM NothingDangles == Spec => []ListedIsStored
<1>1. Init => StoredInv
  BY DEF Init, StoredInv, EmptyManifest
<1>2. TypeOK /\ BufferInv /\ StoredInv /\ [Next]_vars => StoredInv'
  BY StoredStep
<1>3. StoredInv => ListedIsStored
  BY DEF StoredInv, ListedIsStored
<1>4. QED
  BY <1>1, <1>2, <1>3, TypeCorrect, PTL DEF Spec
-----------------------------------------------------------------------------
(* Nothing acknowledged is lost, as long as no consumer is evicted at work. *)

\* Publishing the buffer of the one writer keeps exactly the acknowledged
\* segments beside it: an earlier attempt at the same range begins at the
\* committed offset too and is superseded, whatever its length.
LEMMA PublishAtCommitted ==
  ASSUME NEW m \in Manifest, NEW from \in Nat, NEW to \in Nat, from < to,
         0 .. from - 1 \subseteq Searchable(m),
         \A t \in m.segments :
           t.first <= t.last /\ (t.last < from \/ t.first = from)
  PROVE  /\ \A t \in Kept(m, Segment(from, to - 1)) : t \in m.segments /\ t.last < from
         /\ 0 .. to - 1 \subseteq Searchable(Publish(m, Segment(from, to - 1)))
<1> DEFINE s == Segment(from, to - 1)
<1>1. s \in Segments /\ s.first = from /\ s.last = to - 1
  BY DEF Segment, Segments
<1>2. m.segments \subseteq Segments
  BY DEF Manifest
<1>3. ASSUME NEW t \in Kept(m, s) PROVE t \in m.segments /\ t.last < from
  BY <1>1, <1>2, <1>3 DEF Kept, Covers, Segments
<1>4. ASSUME NEW t \in m.segments, t.last < from PROVE t \in Kept(m, s)
  BY <1>1, <1>2, <1>4 DEF Kept, Covers, Segments
<1>5. ASSUME NEW o \in 0 .. to - 1 PROVE o \in Searchable(Publish(m, s))
  <2>1. CASE o < from
    <3>1. PICK t \in m.segments : o \in Documents(t)
      BY <2>1, SearchableHolder
    <3>2. t.last < from
      BY <1>2, <2>1, <3>1 DEF Documents, Segments
    <3>3. t \in Publish(m, s).segments
      BY <1>1, <1>4, <3>2, PublishSegments
    <3>4. QED
      BY <3>1, <3>3, SearchableHolder
  <2>2. CASE o >= from
    <3>1. o \in Documents(s) /\ s \in Publish(m, s).segments
      BY <1>1, <2>2, PublishSegments DEF Documents
    <3>2. QED
      BY <3>1, SearchableHolder
  <2>3. QED BY <2>1, <2>2
<1>6. QED BY <1>3, <1>5

\* Initially nothing is listed and nothing acknowledged.
LEMMA WriterInit == Init => WriterInv
BY DEF Init, WriterInv, SingleWriter, BufferAtCommitted, ReadyToCommit, Aligned,
       AcknowledgedIsSearchable, EmptyManifest

\* A consumer that leaves takes nothing from the store or the broker with it.
LEMMA WriterLeave ==
  ASSUME TypeOK, WriterInv, NEW c \in Consumers, phase[c] # "idle", Leave(c)
  PROVE  WriterInv'
<1> USE DEF WriterInv, Leave, storeVars, TypeOK
<1>1. \A d \in Consumers : phase'[d] = "idle"
  BY DEF SingleWriter
<1>2. owner' = NoOwner
  BY DEF SingleWriter
<1>3. SingleWriter'
  BY <1>1, <1>2 DEF SingleWriter
<1>4. BufferAtCommitted'
  BY <1>1 DEF BufferAtCommitted
<1>5. ReadyToCommit'
  BY <1>1 DEF ReadyToCommit
<1>6. Aligned' /\ AcknowledgedIsSearchable'
  BY DEF Aligned, AcknowledgedIsSearchable
<1>7. QED BY <1>3, <1>4, <1>5, <1>6

\* The manifest write of the one writer: the heart of the argument.
LEMMA WriterPutManifest ==
  ASSUME TypeOK, BufferInv, WriterInv, NEW c \in Consumers, PutManifest(c)
  PROVE  WriterInv'
<1> DEFINE s == Sealed(c)
<1>1. /\ view[c] = manifest /\ owner = c
      /\ first[c] = committed /\ committed < next[c] /\ next[c] <= hw
  BY DEF PutManifest, WriterInv, SingleWriter, BufferAtCommitted, BufferInv
<1>2. /\ manifest' = Publish(manifest, s) /\ view' = [view EXCEPT ![c] = manifest']
      /\ UNCHANGED <<hw, committed, owner, next>>
      /\ phase' = [phase EXCEPT ![c] = "committing"]
  BY <1>1 DEF PutManifest, brokerVars, TypeOK
<1>3. /\ \A t \in Kept(manifest, s) : t \in manifest.segments /\ t.last < committed
      /\ 0 .. next[c] - 1 \subseteq Searchable(manifest')
  BY <1>1, <1>2, PublishAtCommitted
     DEF TypeOK, WriterInv, Aligned, AcknowledgedIsSearchable, Sealed
<1>4. manifest'.segments = Kept(manifest, s) \cup {s}
  BY <1>2, PublishSegments, SealedType, <1>1 DEF TypeOK
<1>5. s.first = committed /\ s.last = next[c] - 1
  BY <1>1 DEF Sealed, Segment
<1>6. manifest.segments \subseteq Segments
  BY DEF TypeOK, Manifest
<1>7. SingleWriter'
  BY <1>1, <1>2 DEF SingleWriter, WriterInv, TypeOK
<1>8. BufferAtCommitted'
  BY <1>1, <1>2 DEF PutManifest, BufferAtCommitted, WriterInv, TypeOK
<1>9. Aligned'
  BY <1>1, <1>2, <1>3, <1>4, <1>5 DEF Aligned, WriterInv, TypeOK
<1>10. AcknowledgedIsSearchable'
  BY <1>1, <1>2, <1>3 DEF AcknowledgedIsSearchable, TypeOK
<1>11. \A t \in manifest'.segments : t.last < next[c]
  BY <1>1, <1>3, <1>4, <1>5, <1>6 DEF TypeOK, Segments
<1>12. \A d \in Consumers : phase'[d] = "committing" => d = c
  BY <1>1, <1>2 DEF SingleWriter, WriterInv, TypeOK
<1>13. ReadyToCommit'
  BY <1>1, <1>2, <1>3, <1>11, <1>12 DEF ReadyToCommit, PutManifest, TypeOK
<1>14. QED
  BY <1>7, <1>8, <1>9, <1>10, <1>13 DEF WriterInv

\* The commit moves the acknowledged offset to where the listing already ends.
LEMMA WriterCommit ==
  ASSUME TypeOK, WriterInv, NEW c \in Consumers, Commit(c)
  PROVE  WriterInv'
<1>1. /\ phase[c] = "committing" /\ owner = c /\ committed' = next[c]
      /\ UNCHANGED <<hw, manifest>>
  BY DEF Commit, storeVars
<1>2. /\ next[c] <= hw /\ view[c] = manifest /\ committed < next[c]
      /\ 0 .. next[c] - 1 \subseteq Searchable(manifest)
      /\ \A t \in manifest.segments : t.last < next[c]
  BY <1>1 DEF WriterInv, BufferAtCommitted, ReadyToCommit, SingleWriter
<1>3. Aligned' /\ AcknowledgedIsSearchable'
  BY <1>1, <1>2 DEF WriterInv, Aligned, AcknowledgedIsSearchable
<1>4. \A d \in Consumers : d # c => phase[d] = "idle"
  BY <1>1 DEF WriterInv, SingleWriter
<1>5. CASE closing[c]
  <2>1. /\ phase' = [phase EXCEPT ![c] = "idle"]
        /\ next' = [next EXCEPT ![c] = 0] /\ owner' = NoOwner
    BY <1>5 DEF Commit
  <2>2. \A d \in Consumers : phase'[d] = "idle"
    BY <1>4, <2>1 DEF TypeOK
  <2>3. SingleWriter'
    BY <2>1, <2>2 DEF SingleWriter
  <2>4. BufferAtCommitted' /\ ReadyToCommit'
    BY <1>1, <2>1, <2>2 DEF BufferAtCommitted, ReadyToCommit, WriterInv, TypeOK
  <2>5. QED BY <1>3, <2>3, <2>4 DEF WriterInv
<1>6. CASE ~closing[c]
  <2>1. /\ phase' = [phase EXCEPT ![c] = "polling"]
        /\ UNCHANGED <<first, next, view, owner>>
    BY <1>6 DEF Commit
  <2>2. SingleWriter'
    BY <1>1, <1>2, <2>1 DEF SingleWriter, WriterInv, TypeOK
  <2>3. first[c] = next[c]
    BY <1>1 DEF WriterInv, ReadyToCommit
  <2>4. BufferAtCommitted' /\ ReadyToCommit'
    BY <1>1, <1>4, <2>1, <2>3 DEF BufferAtCommitted, ReadyToCommit, WriterInv, TypeOK
  <2>5. QED BY <1>3, <2>2, <2>4 DEF WriterInv
<1>7. QED BY <1>5, <1>6

\* Every other step leaves the store and the committed offset alone.
LEMMA WriterStep ==
  ASSUME TypeOK, BufferInv, WriterInv, NEW c \in Consumers, Step(c), ~Expel(c)
  PROVE  WriterInv'
<1> USE DEF WriterInv, TypeOK, storeVars, brokerVars
<1>1. CASE Assign(c)
  BY <1>1 DEF Assign, SingleWriter, BufferAtCommitted, ReadyToCommit, Aligned,
              AcknowledgedIsSearchable
<1>2. CASE ReadManifest(c)
  BY <1>2 DEF ReadManifest, SingleWriter, BufferAtCommitted, ReadyToCommit, Aligned,
              AcknowledgedIsSearchable
<1>3. CASE Poll(c)
  BY <1>3 DEF Poll, SingleWriter, BufferAtCommitted, ReadyToCommit, Aligned,
              AcknowledgedIsSearchable
<1>4. CASE TimerFires(c)
  BY <1>4 DEF TimerFires, SingleWriter, BufferAtCommitted, ReadyToCommit, Aligned,
              AcknowledgedIsSearchable
<1>5. CASE EndLoop(c)
  <2>1. CASE Leave(c)
    BY <1>5, <2>1, WriterLeave DEF EndLoop
  <2>2. CASE ~Leave(c)
    <3>1. /\ phase[c] = "polling" /\ phase' = [phase EXCEPT ![c] = "sealing"]
          /\ UNCHANGED <<hw, committed, owner, objects, manifest, first, next, view>>
      BY <1>5, <2>2 DEF EndLoop
    <3>2. QED
      BY <3>1 DEF SingleWriter, BufferAtCommitted, ReadyToCommit, Aligned,
                  AcknowledgedIsSearchable
  <2>3. QED BY <2>1, <2>2
<1>6. CASE PutSegment(c)
  BY <1>6 DEF PutSegment, SingleWriter, BufferAtCommitted, ReadyToCommit, Aligned,
              AcknowledgedIsSearchable
<1>7. CASE PutManifest(c)
  BY <1>7, WriterPutManifest
<1>8. CASE Commit(c)
  BY <1>8, WriterCommit
<1>9. CASE CommitRefused(c) \/ NoticeEviction(c) \/ Revoke(c) \/ Crash(c)
  BY <1>9, WriterLeave DEF CommitRefused, NoticeEviction, Revoke, Crash
<1>10. QED
  BY <1>1, <1>2, <1>3, <1>4, <1>5, <1>6, <1>7, <1>8, <1>9 DEF Step

\* Without evictions every step keeps the invariant of the one writer.
LEMMA WriterNext ==
  ASSUME MaxFaults["expel"] = 0, TypeOK, BufferInv, WriterInv, [Next]_vars
  PROVE  WriterInv'
<1>1. CASE Produce
  BY <1>1 DEF Produce, WriterInv, SingleWriter, BufferAtCommitted, ReadyToCommit,
              Aligned, AcknowledgedIsSearchable, TypeOK, storeVars, consumerVars,
              Manifest, Segments
<1>2. ASSUME NEW c \in Consumers, Step(c) PROVE WriterInv'
  <2>1. ~Expel(c)
    BY DEF Expel, Disturb, TypeOK, Fault
  <2>2. QED BY <1>2, <2>1, WriterStep
<1>3. CASE UNCHANGED vars
  BY <1>3 DEF vars, WriterInv, SingleWriter, BufferAtCommitted, ReadyToCommit,
              Aligned, AcknowledgedIsSearchable, storeVars, brokerVars, consumerVars
<1>4. QED BY <1>1, <1>2, <1>3 DEF Next

\* While no consumer is evicted at work, the invariant of the one writer holds.
LEMMA WriterAlways ==
  ASSUME MaxFaults["expel"] = 0
  PROVE  Spec => [](TypeOK /\ BufferInv /\ WriterInv)
<1>1. TypeOK /\ BufferInv /\ WriterInv /\ [Next]_vars => WriterInv'
  BY WriterNext
<1>2. QED
  BY <1>1, WriterInit, TypeCorrect, PTL DEF Spec

\* Every acknowledged document is searchable in every state, across crashes
\* between any two requests, handovers, stops and replays of any length.
THEOREM NothingAcknowledgedIsLost ==
  ASSUME MaxFaults["expel"] = 0
  PROVE  Spec => []AcknowledgedIsSearchable
<1>1. WriterInv => AcknowledgedIsSearchable
  BY DEF WriterInv
<1>2. QED BY <1>1, WriterAlways, PTL

\* No listed segment straddles the committed offset, so the replay that starts
\* there never supersedes acknowledged documents.
THEOREM NeverStraddles ==
  ASSUME MaxFaults["expel"] = 0
  PROVE  Spec => []NoneStraddlesCommitted
<1>1. TypeOK /\ WriterInv => NoneStraddlesCommitted
  BY DEF WriterInv, Aligned, NoneStraddlesCommitted, TypeOK, Manifest, Segments
<1>2. QED BY <1>1, WriterAlways, PTL

\* Every write of the manifest stores a later generation than the one there.
THEOREM GenerationAlwaysRises ==
  ASSUME MaxFaults["expel"] = 0
  PROVE  Spec => GenerationRises
<1>1. TypeOK /\ WriterInv /\ [Next]_vars =>
        [manifest' # manifest => manifest'.generation > manifest.generation]_vars
  <2> SUFFICES ASSUME TypeOK, WriterInv, Next, manifest' # manifest
               PROVE  manifest'.generation > manifest.generation
    BY DEF vars, storeVars
  <2>1. PICK c \in Consumers : PutManifest(c)
    BY DEF Next, Step, Produce, Assign, ReadManifest, Poll, TimerFires, EndLoop, PutSegment,
           Commit, CommitRefused, Revoke, NoticeEviction, Crash, Expel, Leave, storeVars
  <2>2. manifest' = Publish(manifest, Sealed(c))
    BY <2>1 DEF PutManifest, WriterInv, SingleWriter, TypeOK
  <2>3. manifest'.generation = manifest.generation + 1
    BY <2>2 DEF Publish, WithSegments
  <2>4. QED
    BY <2>3 DEF TypeOK, Manifest
<1>2. QED
  BY <1>1, WriterAlways, PTL DEF Spec, GenerationRises

-----------------------------------------------------------------------------
(* The deterministic policy: replaying writes the same segments. *)

\* With neither a timer nor a clean stop every buffer is sealed when it is full,
\* so every listed segment is as long as a full buffer.
FullInv ==
  /\ \A c \in Consumers :
       /\ phase[c] = "assigned" => next[c] = first[c]
       /\ phase[c] = "polling" => next[c] < first[c] + MaxDocs
       /\ phase[c] \in {"sealing", "publishing"} => next[c] = first[c] + MaxDocs
  /\ \A s \in manifest.segments : s.last = s.first + MaxDocs - 1

\* Publishing a full buffer evicts at most the identical segment.
LEMMA PublishFull ==
  ASSUME TypeOK, BufferInv, WriterInv, FullInv, NEW c \in Consumers, PutManifest(c)
  PROVE  /\ manifest.segments \subseteq manifest'.segments
         /\ \A s \in manifest'.segments : s.last = s.first + MaxDocs - 1
<1>1. /\ view[c] = manifest /\ first[c] = committed
      /\ next[c] = committed + MaxDocs /\ phase[c] = "publishing"
  BY DEF PutManifest, WriterInv, SingleWriter, BufferAtCommitted, FullInv
<1>2. /\ Sealed(c) = Segment(committed, committed + MaxDocs - 1)
      /\ Sealed(c) \in Segments
  BY <1>1, SealedType DEF Sealed, BufferInv, TypeOK
<1>3. manifest'.segments = Kept(manifest, Sealed(c)) \cup {Sealed(c)}
  BY <1>1, <1>2, PublishSegments DEF PutManifest, TypeOK
<1>4. ASSUME NEW t \in manifest.segments PROVE t \in manifest'.segments
  <2>1. t \in Segments /\ t.last = t.first + MaxDocs - 1
    BY DEF TypeOK, Manifest, FullInv
  <2>2. CASE t.first = committed
    BY <1>2, <1>3, <2>1, <2>2 DEF Segment, Segments, TypeOK
  <2>3. CASE t.last < committed
    BY <1>2, <1>3, <2>1, <2>3 DEF Kept, Covers, Segment, Segments, TypeOK
  <2>4. QED BY <2>2, <2>3 DEF WriterInv, Aligned
<1>5. ASSUME NEW t \in manifest'.segments PROVE t.last = t.first + MaxDocs - 1
  BY <1>2, <1>3 DEF Kept, FullInv, Segment
<1>6. QED BY <1>4, <1>5

\* Every step keeps buffers and segments full.
LEMMA FullStep ==
  ASSUME IdleFlush = FALSE, MaxFaults["stop"] = 0,
         TypeOK, BufferInv, WriterInv, FullInv, [Next]_vars
  PROVE  FullInv'
<1> USE DEF FullInv, TypeOK, storeVars, brokerVars
<1>1. ASSUME NEW c \in Consumers, Leave(c) PROVE FullInv'
  BY <1>1 DEF Leave
<1>2. ASSUME NEW c \in Consumers, PutManifest(c) PROVE FullInv'
  <2>1. \A s \in manifest'.segments : s.last = s.first + MaxDocs - 1
    BY <1>2, PublishFull
  <2>2. QED
    BY <1>2, <2>1 DEF PutManifest
<1>3. ASSUME NEW c \in Consumers, Commit(c) PROVE FullInv'
  <2>1. first[c] = next[c] /\ manifest' = manifest
    BY <1>3 DEF Commit, WriterInv, ReadyToCommit
  <2>2. CASE closing[c]
    <3>1. /\ phase' = [phase EXCEPT ![c] = "idle"]
          /\ first' = [first EXCEPT ![c] = 0] /\ next' = [next EXCEPT ![c] = 0]
      BY <1>3, <2>2 DEF Commit
    <3>2. QED BY <2>1, <3>1
  <2>3. CASE ~closing[c]
    <3>1. phase' = [phase EXCEPT ![c] = "polling"] /\ UNCHANGED <<first, next>>
      BY <1>3, <2>3 DEF Commit
    <3>2. QED BY <2>1, <3>1
  <2>4. QED BY <2>2, <2>3
<1>4. ASSUME NEW c \in Consumers, Poll(c) PROVE FullInv'
  BY <1>4 DEF Poll, Buffered
<1>5. ASSUME NEW c \in Consumers, Assign(c) PROVE FullInv'
  BY <1>5 DEF Assign
<1>6. ASSUME NEW c \in Consumers, ReadManifest(c) \/ PutSegment(c) \/ Expel(c)
      PROVE  FullInv'
  BY <1>6 DEF ReadManifest, PutSegment, Expel, consumerVars
<1>7. ASSUME NEW c \in Consumers PROVE ~TimerFires(c) /\ ~EndLoop(c)
  BY DEF TimerFires, EndLoop, Disturb, Fault
<1>8. ASSUME NEW c \in Consumers,
             CommitRefused(c) \/ NoticeEviction(c) \/ Revoke(c) \/ Crash(c)
      PROVE  FullInv'
  BY <1>1, <1>8 DEF CommitRefused, NoticeEviction, Revoke, Crash
<1>9. CASE Produce \/ UNCHANGED vars
  BY <1>9 DEF Produce, vars, consumerVars
<1>10. QED
  BY <1>2, <1>3, <1>4, <1>5, <1>6, <1>7, <1>8, <1>9 DEF Next, Step

\* FlushPolicy.deterministic: with max_docs alone, and nobody stopped cleanly or
\* evicted at work, a replay rewrites the very segments it repeats, so that no
\* publication ever takes another segment out of the manifest.
THEOREM ReplayIsIdentical ==
  ASSUME IdleFlush = FALSE, MaxFaults["stop"] = 0, MaxFaults["expel"] = 0
  PROVE  Spec => ReplayRewritesIdentically
<1>1. Init => FullInv
  BY DEF Init, FullInv, EmptyManifest
<1>2. TypeOK /\ BufferInv /\ WriterInv /\ FullInv /\ [Next]_vars => FullInv'
  BY FullStep
<1>3. TypeOK /\ BufferInv /\ WriterInv /\ FullInv /\ [Next]_vars
        => [manifest.segments \subseteq manifest'.segments]_vars
  <2> SUFFICES ASSUME TypeOK, BufferInv, WriterInv, FullInv, Next
               PROVE  manifest.segments \subseteq manifest'.segments
    OBVIOUS
  <2>1. CASE manifest' = manifest
    BY <2>1
  <2>2. CASE manifest' # manifest
    <3>1. PICK c \in Consumers : PutManifest(c)
      BY <2>2 DEF Next, Step, Produce, Assign, ReadManifest, Poll, TimerFires, EndLoop,
         PutSegment, Commit, CommitRefused, Revoke, NoticeEviction, Crash, Expel, Leave,
         storeVars
    <3>2. QED BY <3>1, PublishFull
  <2>3. QED BY <2>1, <2>2
<1>4. QED
  BY <1>1, <1>2, <1>3, WriterAlways, PTL DEF Spec, ReplayRewritesIdentically

-----------------------------------------------------------------------------
(* The committed offset never moves back, zombies included. *)

\* The owner is at work and stands at or past the committed offset.
OwnerAhead ==
  \A c \in Consumers : owner = c => phase[c] # "idle" /\ committed <= next[c]

\* Committed offsets only advance, evicted consumers notwithstanding: the
\* broker accepts a commit from the owner alone, and the owner started there.
THEOREM CommittedNeverGoesBack == Spec => CommittedOnlyAdvances
<1>1. Init => OwnerAhead
  BY DEF Init, OwnerAhead
<1>2. TypeOK /\ OwnerAhead /\ [Next]_vars => OwnerAhead'
  <2> SUFFICES ASSUME TypeOK, OwnerAhead, [Next]_vars
               PROVE  OwnerAhead'
    OBVIOUS
  <2> USE DEF OwnerAhead, TypeOK
  <2>1. ASSUME NEW c \in Consumers, Leave(c) PROVE OwnerAhead'
    BY <2>1 DEF Leave
  <2>2. ASSUME NEW c \in Consumers, Commit(c) PROVE OwnerAhead'
    <3>1. owner' \in {c, NoOwner} /\ committed' = next[c]
      BY <2>2 DEF Commit
    <3>2. CASE owner' = NoOwner
      BY <3>2
    <3>3. CASE owner' = c
      <4>1. ~closing[c]
        BY <2>2, <3>3 DEF Commit
      <4>2. phase' = [phase EXCEPT ![c] = "polling"] /\ next' = next
        BY <2>2, <4>1 DEF Commit
      <4>3. QED
        BY <3>1, <3>3, <4>2
    <3>4. QED BY <3>1, <3>2, <3>3
  <2>3. ASSUME NEW c \in Consumers, EndLoop(c) PROVE OwnerAhead'
    <3>1. CASE Leave(c)
      BY <2>1, <3>1
    <3>2. CASE ~Leave(c)
      <4>1. /\ phase' = [phase EXCEPT ![c] = "sealing"]
            /\ UNCHANGED <<owner, committed, next>>
        BY <2>3, <3>2 DEF EndLoop, brokerVars
      <4>2. QED BY <4>1
    <3>3. QED BY <3>1, <3>2
  <2>4. ASSUME NEW c \in Consumers,
               CommitRefused(c) \/ NoticeEviction(c) \/ Revoke(c) \/ Crash(c)
        PROVE  OwnerAhead'
    BY <2>1, <2>4 DEF CommitRefused, NoticeEviction, Revoke, Crash
  <2>5. ASSUME NEW c \in Consumers,
               \/ Assign(c) \/ ReadManifest(c) \/ Poll(c) \/ TimerFires(c)
               \/ PutSegment(c) \/ PutManifest(c)
        PROVE  OwnerAhead'
    BY <2>5 DEF Assign, ReadManifest, Poll, TimerFires, PutSegment, PutManifest, brokerVars
  <2>6. ASSUME NEW c \in Consumers, Expel(c) PROVE OwnerAhead'
    BY <2>6 DEF Expel, consumerVars
  <2>7. CASE Produce \/ UNCHANGED vars
    BY <2>7 DEF Produce, vars, brokerVars, consumerVars
  <2>8. QED
    BY <2>2, <2>3, <2>4, <2>5, <2>6, <2>7 DEF Next, Step
<1>3. TypeOK /\ OwnerAhead /\ [Next]_vars => [committed' >= committed]_vars
  <2> SUFFICES ASSUME TypeOK, OwnerAhead, Next, committed' # committed
               PROVE  committed' >= committed
    BY DEF vars, brokerVars, TypeOK
  <2>1. PICK c \in Consumers : Commit(c)
    BY DEF Next, Step, Produce, Assign, ReadManifest, Poll, TimerFires, EndLoop, PutSegment,
           PutManifest, CommitRefused, Revoke, NoticeEviction, Crash, Expel, Leave, brokerVars
  <2>2. QED
    BY <2>1 DEF Commit, OwnerAhead, TypeOK
<1>4. QED
  BY <1>1, <1>2, <1>3, TypeCorrect, PTL DEF Spec, CommittedOnlyAdvances

-----------------------------------------------------------------------------
(* The partition's index implements ExactlyOnceIndex. *)

\* A disjoint live set over the first n documents returns each of them once.
LEMMA HitsOfPrefix ==
  ASSUME TypeOK, Disjoint(manifest.segments), NEW n \in Nat,
         Searchable(manifest) = 0 .. n - 1
  PROVE  Hits = Abstract!Prefix(n)
<1>1. ASSUME NEW o \in 0 .. MaxOffset - 1
      PROVE  Cardinality(Holders(manifest, o)) = IF o < n THEN 1 ELSE 0
  <2>1. CASE o < n
    <3>1. o \in Searchable(manifest)
      BY <2>1
    <3>2. PICK t \in manifest.segments : o \in Documents(t)
      BY <3>1, SearchableHolder
    <3>3. Holders(manifest, o) = {t}
      BY <3>2 DEF Holders, Disjoint
    <3>4. QED
      BY <2>1, <3>3, FS_Singleton
  <2>2. CASE ~(o < n)
    <3>1. o \notin Searchable(manifest)
      BY <2>2
    <3>2. Holders(manifest, o) = {}
      BY <3>1, SearchableHolder DEF Holders
    <3>3. QED
      BY <2>2, <3>2, FS_EmptySet
  <2>3. QED BY <2>1, <2>2
<1>2. QED
  BY <1>1 DEF Hits, Abstract!Prefix, Abstract!Offsets

\* What is searchable is a prefix of the log that reaches the committed offset.
PrefixInv == \E n \in committed .. hw : Hits = Abstract!Prefix(n)

\* Before a commit it is the prefix about to be acknowledged.
CommitInv ==
  \A c \in Consumers : phase[c] = "committing" => Hits = Abstract!Prefix(next[c])

\* A single writer's index is a prefix of the log, as its segments lie apart.
LEMMA PrefixAlways ==
  ASSUME TypeOK, WriterInv, DisjointInv
  PROVE  PrefixInv
<1>1. manifest.segments \subseteq Segments
  BY DEF TypeOK, Manifest
<1>2. \E n \in committed .. hw : Searchable(manifest) = 0 .. n - 1
  <2>1. 0 .. committed - 1 \subseteq Searchable(manifest)
    BY DEF WriterInv, AcknowledgedIsSearchable
  <2>2. CASE \A t \in manifest.segments : t.last < committed
    <3>1. \A o \in Searchable(manifest) : o \in 0 .. committed - 1
      BY <1>1, <2>2, SearchableHolder DEF Documents, Segments, TypeOK
    <3>2. Searchable(manifest) = 0 .. committed - 1
      BY <2>1, <3>1
    <3>3. committed \in committed .. hw
      BY DEF WriterInv, Aligned, TypeOK
    <3>4. QED BY <3>2, <3>3
  <2>3. ASSUME NEW s \in manifest.segments, ~(s.last < committed)
        PROVE  \E n \in committed .. hw : Searchable(manifest) = 0 .. n - 1
    <3>1. s.first = committed /\ s.last >= committed /\ s.last < hw /\ s \in Segments
      BY <1>1, <2>3 DEF WriterInv, Aligned, Segments, TypeOK
    <3>2. ASSUME NEW t \in manifest.segments, t # s PROVE t.last < committed
      <4>1. CASE t.first = committed
        <5>1. t.last >= committed /\ t \in Segments
          BY <1>1, <4>1 DEF WriterInv, Aligned, Segments
        <5>2. committed \in Documents(s) \cap Documents(t)
          BY <3>1, <4>1, <5>1 DEF Documents, TypeOK, Segments
        <5>3. QED
          BY <3>2, <5>2 DEF DisjointInv, Disjoint
      <4>2. QED BY <4>1 DEF WriterInv, Aligned
    <3>3. \A o \in Searchable(manifest) : o \in 0 .. s.last
      <4>1. ASSUME NEW o \in Searchable(manifest) PROVE o \in 0 .. s.last
        <5>1. PICK t \in manifest.segments : o \in Documents(t)
          BY SearchableHolder
        <5>2. t \in Segments /\ (t = s \/ t.last < committed)
          BY <1>1, <3>2
        <5>3. QED
          BY <3>1, <5>1, <5>2 DEF Documents, Segments, TypeOK
      <4>2. QED BY <4>1
    <3>4. \A o \in 0 .. s.last : o \in Searchable(manifest)
      <4>1. ASSUME NEW o \in 0 .. s.last PROVE o \in Searchable(manifest)
        <5>1. CASE o < committed
          BY <2>1, <5>1 DEF TypeOK
        <5>2. CASE ~(o < committed)
          <6>1. o \in Documents(s)
            BY <3>1, <5>2 DEF Documents, TypeOK, Segments
          <6>2. QED BY <6>1, SearchableHolder
        <5>3. QED BY <5>1, <5>2
      <4>2. QED BY <4>1
    <3>5. s.last + 1 \in committed .. hw /\ (s.last + 1) - 1 = s.last
      BY <3>1 DEF TypeOK, Segments
    <3>6. Searchable(manifest) = 0 .. s.last
      BY <3>3, <3>4
    <3>7. QED BY <3>5, <3>6
  <2>4. QED BY <2>2, <2>3
<1>3. PICK n \in committed .. hw : Searchable(manifest) = 0 .. n - 1
  BY <1>2
<1>4. n \in Nat
  BY <1>3 DEF TypeOK
<1>5. QED
  BY <1>3, <1>4, HitsOfPrefix DEF PrefixInv, DisjointInv

\* What is listed before a commit ends where the commit will.
LEMMA CommitPrefix ==
  ASSUME TypeOK, WriterInv, DisjointInv
  PROVE  CommitInv
<1> SUFFICES ASSUME NEW c \in Consumers, phase[c] = "committing"
             PROVE  Hits = Abstract!Prefix(next[c])
  BY DEF CommitInv
<1>1. /\ 0 .. next[c] - 1 \subseteq Searchable(manifest)
      /\ \A t \in manifest.segments : t.last < next[c]
  BY DEF WriterInv, ReadyToCommit
<1>2. \A o \in Searchable(manifest) : o \in 0 .. next[c] - 1
  <2>1. manifest.segments \subseteq Segments
    BY DEF TypeOK, Manifest
  <2>2. QED
    BY <1>1, <2>1, SearchableHolder DEF Documents, Segments, TypeOK
<1>3. Searchable(manifest) = 0 .. next[c] - 1
  BY <1>1, <1>2
<1>4. QED
  BY <1>3, HitsOfPrefix DEF TypeOK, DisjointInv

\* Every step of the system is a step of the abstract index, or changes
\* nothing it shows.
LEMMA StepImplements ==
  ASSUME TypeOK, WriterInv, CommitInv, PrefixInv', [Next]_vars
  PROVE  [Abstract!Next]_(Abstract!vars)
<1> USE DEF Abstract!Next, Abstract!vars
<1>1. CASE Produce
  <2>1. Hits' = Hits
    BY <1>1 DEF Produce, Hits, storeVars
  <2>2. QED
    BY <1>1, <2>1 DEF Produce, Abstract!Append
<1>2. ASSUME NEW c \in Consumers, Commit(c) PROVE Abstract!Acknowledge
  <2>1. Hits' = Hits /\ hw' = hw
    BY <1>2 DEF Commit, Hits, storeVars
  <2>2. /\ Hits = Abstract!Prefix(next[c]) /\ committed' = next[c]
        /\ next[c] \in committed .. hw
    BY <1>2 DEF Commit, CommitInv, WriterInv, ReadyToCommit, BufferAtCommitted, TypeOK
  <2>3. QED
    BY <2>1, <2>2 DEF Abstract!Acknowledge
<1>3. ASSUME UNCHANGED <<hw, committed>> PROVE Abstract!Reindex
  BY <1>3 DEF PrefixInv, Abstract!Reindex
<1>4. ASSUME NEW c \in Consumers, Step(c), ~Commit(c) PROVE UNCHANGED <<hw, committed>>
  BY <1>4 DEF Step, Assign, ReadManifest, Poll, TimerFires, EndLoop, PutSegment, PutManifest,
              CommitRefused, Revoke, NoticeEviction, Crash, Expel, Leave, brokerVars
<1>5. CASE UNCHANGED vars
  BY <1>3, <1>5 DEF vars, brokerVars
<1>6. QED
  BY <1>1, <1>2, <1>3, <1>4, <1>5 DEF Next

\* The index starts empty.
LEMMA InitImplements == Init => Abstract!Init
<1> SUFFICES ASSUME Init PROVE Abstract!Init
  OBVIOUS
<1>1. \A o \in 0 .. MaxOffset - 1 : Cardinality(Holders(manifest, o)) = 0
  <2>1. \A o \in 0 .. MaxOffset - 1 : Holders(manifest, o) = {}
    BY DEF Init, EmptyManifest, Holders
  <2>2. QED BY <2>1, FS_EmptySet
<1>2. Hits = Abstract!Prefix(0)
  BY <1>1 DEF Hits, Abstract!Prefix, Abstract!Offsets
<1>3. QED
  BY <1>2 DEF Init, Abstract!Init

\* PartitionIndexing implements ExactlyOnceIndex: whoever searches the
\* partition sees a prefix of the log, each document once, that never falls
\* short of what has been acknowledged.
THEOREM ExactlyOnce ==
  ASSUME MaxFaults["expel"] = 0
  PROVE  Spec => ImplementsExactlyOnce
<1>1. TypeOK /\ WriterInv /\ DisjointInv => PrefixInv /\ CommitInv
  BY PrefixAlways, CommitPrefix
<1>2. TypeOK /\ WriterInv /\ CommitInv /\ PrefixInv' /\ [Next]_vars
        => [Abstract!Next]_(Abstract!vars)
  BY StepImplements
<1>3. QED
  BY <1>1, <1>2, InitImplements, WriterAlways, DisjointAlways, PTL
     DEF Spec, ImplementsExactlyOnce, Abstract!Spec
-----------------------------------------------------------------------------
(* Maintenance and queries. *)

USE MaintenanceAssumption

(* Lemmas about merging. *)

\* Listed ranges are not empty and lie below the end of the log.
WithinLog(segs, end) == \A s \in segs : s.first <= s.last /\ s.last < end

\* No segment of the live set reaches beyond the end of the log.
BelowEnd(segs, end) == \A s \in segs : s.first < end /\ s.last < end

\* A run of segments below some bound has a first and a last one, and the merge
\* is named after them.
LEMMA MergedEnds ==
  ASSUME NEW run \in SUBSET Segments, run # {}, NEW end \in Nat, BelowEnd(run, end)
  PROVE  \E s, t \in run :
           /\ Merged(run) = Segment(s.first, t.last)
           /\ \A r \in run : s.first <= r.first /\ r.first <= t.first
<1> DEFINE firsts == {s.first : s \in run}
<1>1. firsts \in SUBSET Nat /\ firsts # {}
  BY DEF Segments
<1>2. \A n \in firsts : n < end
  BY DEF BelowEnd
<1>3. \E l \in firsts : \A n \in firsts : l <= n
  BY <1>1, LeastNatural
<1>4. \E h \in firsts : \A n \in firsts : n <= h
  BY <1>1, <1>2, GreatestNatural
<1> DEFINE lo == CHOOSE l \in {s.first : s \in run} : \A s \in run : l <= s.first
           t == CHOOSE h \in run : \A s \in run : s.first <= h.first
<1>5. lo \in firsts /\ \A s \in run : lo <= s.first
  BY <1>3
<1>6. t \in run /\ \A s \in run : s.first <= t.first
  BY <1>4
<1>7. PICK s \in run : s.first = lo
  BY <1>5
<1>8. Merged(run) = Segment(s.first, t.last)
  BY <1>7 DEF Merged
<1>9. \A r \in run : s.first <= r.first /\ r.first <= t.first
  BY <1>5, <1>6, <1>7
<1>10. QED BY <1>6, <1>8, <1>9

\* A run of at least two segments has two different ones.
LEMMA RunHasTwo ==
  ASSUME NEW segs, NEW run \in Runs(segs)
  PROVE  run \subseteq segs /\ run # {} /\ \A s \in run : \E t \in run : t # s
<1>1. run \subseteq segs /\ Cardinality(run) >= 2
  BY DEF Runs
<1>2. run # {}
  BY <1>1, FS_EmptySet
<1>3. ASSUME NEW s \in run, \A t \in run : t = s PROVE FALSE
  <2>1. run = {s}
    BY <1>3
  <2>2. Cardinality({s}) = 1
    BY FS_Singleton, Zenon
  <2>3. Cardinality(run) = 1
    BY <2>1, <2>2
  <2> DEFINE size == Cardinality(run)
  <2>4. size = 1 /\ size >= 2
    BY <1>1, <2>3
  <2> HIDE DEF size
  <2>5. QED BY <2>4
<1>4. QED BY <1>1, <1>2, <1>3

\* Neighbours in a disjoint live set merge into a range that contains each of
\* them, meets no other listed segment and is not listed itself.
LEMMA MergedRange ==
  ASSUME NEW segs \in SUBSET Segments, NEW end \in Nat, WithinLog(segs, end),
         Disjoint(segs), NEW run \in Runs(segs)
  PROVE  /\ Merged(run) \in Segments
         /\ Merged(run).first <= Merged(run).last /\ Merged(run).last < end
         /\ \E s \in run : Merged(run).first = s.first
         /\ \E s \in run : Merged(run).last = s.last
         /\ \A s \in run : Documents(s) \subseteq Documents(Merged(run))
         /\ \A t \in segs \ run : Documents(t) \cap Documents(Merged(run)) = {}
         /\ Merged(run) \notin segs
<1>1. run \subseteq segs /\ run # {} /\ \A s \in run : \E t \in run : t # s
  BY RunHasTwo
<1>2. BelowEnd(run, end)
  BY <1>1 DEF WithinLog, BelowEnd, Segments
<1>3. PICK lo, hi \in run :
        /\ Merged(run) = Segment(lo.first, hi.last)
        /\ \A r \in run : lo.first <= r.first /\ r.first <= hi.first
  BY <1>1, <1>2, MergedEnds
<1>4. Merged(run).first = lo.first /\ Merged(run).last = hi.last
  BY <1>3 DEF Segment
<1>5. lo \in Segments /\ hi \in Segments /\ lo.first <= hi.first /\ hi.first <= hi.last
      /\ hi.last < end
  BY <1>1, <1>3 DEF WithinLog
<1>6. Merged(run) \in Segments
  BY <1>3, <1>5 DEF Segment, Segments
\* Two segments that share no document lie one after the other.
<1>7. ASSUME NEW s \in segs, NEW t \in segs, s # t, s.first <= t.first
      PROVE  s.last < t.first
  <2>1. s \in Segments /\ t \in Segments /\ t.first <= t.last
    BY DEF WithinLog
  <2>2. t.first \in Documents(t)
    BY <2>1 DEF Documents, Segments
  <2>3. t.first \notin Documents(s)
    BY <1>7, <2>2 DEF Disjoint
  <2>4. QED
    BY <1>7, <2>1, <2>3 DEF Documents, Segments
<1>8. ASSUME NEW s \in run PROVE lo.first <= s.first /\ s.last <= hi.last
  <2>1. s \in Segments /\ lo.first <= s.first /\ s.first <= hi.first
    BY <1>1, <1>3
  <2>2. CASE s = hi
    BY <2>1, <2>2, <1>5 DEF Segments
  <2>3. CASE s # hi
    BY <1>1, <1>5, <1>7, <2>1, <2>3 DEF Segments
  <2>4. QED BY <2>2, <2>3
<1>9. ASSUME NEW s \in run PROVE Documents(s) \subseteq Documents(Merged(run))
  <2>1. s \in Segments
    BY <1>1
  <2>2. QED
    BY <1>4, <1>5, <1>8, <2>1 DEF Documents, Segments
<1>10. ASSUME NEW t \in segs \ run PROVE Documents(t) \cap Documents(Merged(run)) = {}
  <2>1. t \in Segments
    OBVIOUS
  <2>2. CASE \A s \in run : t.first < s.first
    <3>1. t.last < lo.first
      BY <1>1, <1>5, <1>7, <2>1, <2>2 DEF Segments
    <3>2. QED
      BY <1>4, <1>5, <2>1, <3>1 DEF Documents, Segments
  <2>3. CASE \A s \in run : t.first > s.first
    <3>1. hi.last < t.first
      BY <1>1, <1>5, <1>7, <2>1, <2>3 DEF Segments
    <3>2. QED
      BY <1>4, <1>5, <2>1, <3>1 DEF Documents, Segments
  <2>4. QED BY <2>2, <2>3 DEF Runs
<1>11. Merged(run) \notin segs
  <2> SUFFICES ASSUME Merged(run) \in segs PROVE FALSE
    OBVIOUS
  <2>1. PICK s \in run : s # Merged(run)
    BY <1>1
  <2>2. s.first \in Documents(s)
    BY <1>1 DEF Documents, WithinLog, Segments
  <2>3. s.first \in Documents(Merged(run))
    BY <1>9, <2>2
  <2>4. QED
    BY <1>1, <2>1, <2>2, <2>3 DEF Disjoint
<1>12. /\ \E s \in run : Merged(run).first = s.first
       /\ \E s \in run : Merged(run).last = s.last
       /\ Merged(run).first <= Merged(run).last /\ Merged(run).last < end
  BY <1>3, <1>4, <1>5 DEF Segments
<1>13. QED
  BY <1>6, <1>9, <1>10, <1>11, <1>12
-----------------------------------------------------------------------------
(* Type correctness, whatever the discipline. *)

\* No offset, listed, planned or buffered, lies beyond the end of the log, and a
\* run under merge has members.
RangesInv ==
  /\ committed <= hw
  /\ \A c \in Consumers : next[c] <= hw /\ WithinLog(view[c].segments, hw)
  /\ WithinLog(manifest.segments, hw) /\ WithinLog(live.segments, hw)
  /\ WithinLog(todo, hw) /\ WithinLog(group, hw)
  /\ cphase \in {"merged", "reread"} => group # {}

\* The name of a merge is a segment within the log.
LEMMA MergedType ==
  ASSUME NEW run \in SUBSET Segments, run # {}, NEW end \in Nat, WithinLog(run, end)
  PROVE  /\ Merged(run) \in Segments
         /\ Merged(run).first <= Merged(run).last /\ Merged(run).last < end
<1>1. BelowEnd(run, end)
  BY DEF WithinLog, BelowEnd, Segments
<1>2. PICK s, t \in run :
        Merged(run) = Segment(s.first, t.last) /\ \A r \in run : s.first <= r.first
  BY <1>1, MergedEnds
<1>3. s \in Segments /\ t \in Segments /\ s.first <= t.first /\ t.first <= t.last
      /\ t.last < end
  BY <1>2 DEF WithinLog
<1>4. QED
  BY <1>2, <1>3 DEF Segment, Segments

\* The steps of producer and consumers are those of PartitionIndexing.
LEMMA IndexerSteps ==
  ASSUME NEW c \in Consumers, IndexerPut(c) \/ IndexerStep(c)
  PROVE  [Next]_vars
BY DEF IndexerPut, IndexerStep, Next, Step

\* Only putting a segment changes what is stored.
LEMMA IndexerKeepsObjects ==
  ASSUME TypeOK, NEW c \in Consumers, IndexerStep(c)
  PROVE  objects' = objects
<1>1. ~PutSegment(c)
  BY DEF IndexerStep, PutSegment, TypeOK
<1>2. QED
  BY <1>1 DEF IndexerStep, Step, Assign, ReadManifest, Poll, TimerFires, EndLoop,
     PutManifest, Commit, CommitRefused, Revoke, NoticeEviction, Crash, Expel, Leave,
     storeVars

\* Publishing what was buffered stays within the log.
LEMMA PublishWithin ==
  ASSUME TypeOK, BufferInv, NEW c \in Consumers, PutManifest(c), next[c] <= hw,
         WithinLog(view[c].segments, hw)
  PROVE  WithinLog(Publish(view[c], Sealed(c)).segments, hw)
<1>1. first[c] < next[c]
  BY DEF BufferInv, PutManifest
<1>2. /\ Sealed(c) \in Segments
      /\ Sealed(c).first <= Sealed(c).last /\ Sealed(c).last < hw
  BY <1>1, SealedType DEF Sealed, Segment, TypeOK
<1>3. Publish(view[c], Sealed(c)).segments = Kept(view[c], Sealed(c)) \cup {Sealed(c)}
  BY <1>2, PublishSegments DEF TypeOK
<1>4. QED
  BY <1>2, <1>3 DEF WithinLog, Kept

\* Steps of the indexer keep offsets within the log.
LEMMA IndexerRanges ==
  ASSUME TypeOK, BufferInv, RangesInv, [Next]_vars,
         UNCHANGED <<todo, group, live, cphase>>,
         todo \subseteq Segments, group \subseteq Segments, live \in Manifest
  PROVE  RangesInv'
<1>1. hw' \in Nat /\ hw' >= hw
  <2>1. TypeOK'
    BY TypeStep
  <2>2. hw' = hw \/ hw' = hw + 1
    BY DEF Next, Step, Produce, Assign, ReadManifest, Poll, TimerFires, EndLoop,
       PutSegment, PutManifest, Commit, CommitRefused, Revoke, NoticeEviction, Crash,
       Expel, Leave, vars, brokerVars
  <2>3. QED BY <2>1, <2>2 DEF TypeOK
<1>2. \A S \in SUBSET Segments : WithinLog(S, hw) => WithinLog(S, hw')
  BY <1>1 DEF WithinLog, Segments, TypeOK
<1>3. WithinLog(live'.segments, hw') /\ WithinLog(todo', hw') /\ WithinLog(group', hw')
  BY <1>2 DEF RangesInv, Manifest
<1>4. /\ \A c \in Consumers : WithinLog(view[c].segments, hw')
      /\ WithinLog(manifest.segments, hw')
  BY <1>2 DEF RangesInv, TypeOK, Manifest
<1>5. WithinLog(EmptyManifest.segments, hw')
  BY DEF WithinLog, EmptyManifest
<1> DEFINE Within ==
      /\ committed' <= hw'
      /\ \A d \in Consumers : next'[d] <= hw' /\ WithinLog(view'[d].segments, hw')
      /\ WithinLog(manifest'.segments, hw')
<1>6. SUFFICES Within
  BY <1>3 DEF RangesInv
<1> USE DEF TypeOK, RangesInv
<1>7. ASSUME NEW c \in Consumers, Leave(c)
      PROVE  Within
  BY <1>4, <1>5, <1>7 DEF Leave, storeVars
<1>8. ASSUME NEW c \in Consumers, Commit(c)
      PROVE  Within
  <2>1. committed' = next[c] /\ UNCHANGED <<hw, manifest>>
    BY <1>8 DEF Commit, storeVars
  <2>2. \/ UNCHANGED <<next, view>>
        \/ /\ next' = [next EXCEPT ![c] = 0]
           /\ view' = [view EXCEPT ![c] = EmptyManifest]
    BY <1>8 DEF Commit
  <2>3. QED BY <1>4, <1>5, <2>1, <2>2
<1>9. ASSUME NEW c \in Consumers, PutManifest(c)
      PROVE  Within
  <2>1. WithinLog(Publish(view[c], Sealed(c)).segments, hw)
    BY <1>9, PublishWithin
  <2>2. QED
    BY <1>4, <1>9, <2>1 DEF PutManifest, brokerVars
<1>10. ASSUME NEW c \in Consumers,
              \/ Assign(c) \/ ReadManifest(c) \/ Poll(c) \/ TimerFires(c) \/ PutSegment(c)
              \/ Expel(c)
      PROVE  Within
  BY <1>4, <1>10 DEF Assign, ReadManifest, Poll, TimerFires, PutSegment, Expel,
     brokerVars, storeVars, consumerVars
<1>11. ASSUME NEW c \in Consumers, EndLoop(c)
      PROVE  Within
  <2>1. CASE Leave(c)
    BY <1>7, <2>1
  <2>2. CASE ~Leave(c)
    <3>1. UNCHANGED <<hw, committed, next, view, manifest>>
      BY <1>11, <2>2 DEF EndLoop, brokerVars, storeVars
    <3>2. QED BY <1>4, <3>1
  <2>3. QED BY <2>1, <2>2
<1>12. CASE Produce \/ UNCHANGED vars
  BY <1>1, <1>4, <1>12 DEF Produce, vars, brokerVars, storeVars, consumerVars
<1>13. QED
  BY <1>7, <1>8, <1>9, <1>10, <1>11, <1>12
     DEF Next, Step, CommitRefused, Revoke, NoticeEviction, Crash

\* Storing an object keeps the types of the store.
LEMMA PutType ==
  ASSUME contents \in [objects -> SUBSET Nat], aged \subseteq objects,
         objects \subseteq Segments, old \subseteq Segments,
         NEW key \in Segments, NEW docs \in SUBSET Nat, Put(key, docs)
  PROVE  /\ contents' \in [objects' -> SUBSET Nat] /\ aged' \subseteq objects'
         /\ objects' \subseteq Segments /\ old' \subseteq Segments
BY DEF Put

\* What a merge reads is a set of documents.
LEMMA MergedDocumentsType ==
  ASSUME contents \in [objects -> SUBSET Nat], NEW run, run \subseteq objects
  PROVE  UNION {contents[s] : s \in run} \in SUBSET Nat
OBVIOUS

\* Every step keeps the types, and the ranges they rest on.
LEMMA LTypeStep ==
  ASSUME LTypeOK, BufferInv, RangesInv, [LNext]_lvars
  PROVE  LTypeOK' /\ BufferInv' /\ RangesInv'
<1> USE DEF LTypeOK
<1>1. \A m \in Manifest : m.segments \subseteq Segments
  BY DEF Manifest
<1>2. EmptyManifest \in Manifest /\ WithinLog(EmptyManifest.segments, hw)
      /\ \A end : WithinLog({}, end)
  BY DEF EmptyManifest, Manifest, WithinLog
\* Steps of the indexer.
<1>3. ASSUME [Next]_vars, UNCHANGED <<discipline, compactorVars, gphase, listed, doomed, readerVars>>,
             contents' \in [objects' -> SUBSET Nat], aged' \subseteq objects',
             old' \subseteq Segments
      PROVE  LTypeOK' /\ BufferInv' /\ RangesInv'
  <2>1. TypeOK' /\ BufferInv'
    BY <1>3, TypeStep
  <2>2. RangesInv'
    BY <1>3, IndexerRanges DEF compactorVars
  <2>3. QED
    BY <1>3, <2>1, <2>2 DEF compactorVars, readerVars
<1>4. ASSUME NEW c \in Consumers, IndexerPut(c), UNCHANGED discipline
      PROVE  LTypeOK' /\ BufferInv' /\ RangesInv'
  <2>1. Sealed(c) \in Segments /\ Documents(Sealed(c)) \in SUBSET Nat
    BY <1>4, SealedType DEF IndexerPut, PutSegment, BufferInv, Documents, Segments
  <2>2. contents' \in [objects' -> SUBSET Nat] /\ aged' \subseteq objects'
        /\ old' \subseteq Segments
    BY <1>4, <2>1, PutType DEF IndexerPut, TypeOK
  <2>3. QED
    BY <1>3, <1>4, <2>2, IndexerSteps DEF IndexerPut
<1>5. ASSUME NEW c \in Consumers, IndexerStep(c), UNCHANGED discipline
      PROVE  LTypeOK' /\ BufferInv' /\ RangesInv'
  <2>1. objects' = objects
    BY <1>5, IndexerKeepsObjects
  <2>2. QED
    BY <1>3, <1>5, <2>1, IndexerSteps DEF IndexerStep, collectorVars
<1>6. ASSUME Producer, UNCHANGED discipline PROVE LTypeOK' /\ BufferInv' /\ RangesInv'
  BY <1>3, <1>6 DEF Producer, Produce, Next, storeVars, collectorVars
\* Steps that change neither the log nor the consumers.
<1>7. ASSUME UNCHANGED <<brokerVars, consumerVars>>, faults' \in [Fault -> Nat],
             objects' \subseteq Segments, manifest' \in Manifest,
             WithinLog(manifest'.segments, hw), WithinLog(live'.segments, hw),
             WithinLog(todo', hw), WithinLog(group', hw),
             cphase' \in {"merged", "reread"} => group' # {}
      PROVE  TypeOK' /\ BufferInv' /\ RangesInv'
  BY <1>7 DEF TypeOK, BufferInv, RangesInv, brokerVars, consumerVars
<1> DEFINE Rest == LTypeOK' /\ BufferInv' /\ RangesInv'
<1>8. ASSUME UNCHANGED <<vars, discipline, contents, compactorVars>>,
             aged' \subseteq objects, gphase' \in {"off", "listed", "doomed"},
             listed' \subseteq Segments, old' \subseteq Segments, doomed' \subseteq Segments,
             querying' \in BOOLEAN, qview' \in Manifest
      PROVE  Rest
  <2>1. TypeOK' /\ BufferInv' /\ RangesInv'
    BY <1>7, <1>8 DEF vars, brokerVars, storeVars, consumerVars, compactorVars, TypeOK, RangesInv
  <2>2. QED
    BY <1>8, <2>1 DEF vars, storeVars, compactorVars
<1>9. ASSUME GracePasses \/ CollectBegins \/ Inspect \/ CollectEnds \/ Refresh \/ CacheExpires,
             UNCHANGED discipline
      PROVE  Rest
  BY <1>1, <1>2, <1>8, <1>9
     DEF GracePasses, CollectBegins, Inspect, CollectEnds, Refresh, CacheExpires,
         collectorVars, readerVars, TypeOK
<1>10. ASSUME Plan \/ Reread \/ CompactEnds, UNCHANGED discipline
       PROVE  Rest
  <2>1. UNCHANGED <<vars, contents, aged, collectorVars, readerVars>>
    BY <1>10 DEF Plan, Reread, CompactEnds
  <2>2. /\ WithinLog(live'.segments, hw) /\ WithinLog(todo', hw) /\ WithinLog(group', hw)
        /\ cphase' \in {"merged", "reread"} => group' # {}
        /\ cphase' \in {"off", "planned", "merged", "reread"}
        /\ todo' \subseteq Segments /\ group' \subseteq Segments /\ live' \in Manifest
    BY <1>1, <1>2, <1>10 DEF Plan, Reread, CompactEnds, RangesInv, TypeOK
  <2>3. TypeOK' /\ BufferInv' /\ RangesInv'
    BY <1>7, <2>1, <2>2 DEF vars, brokerVars, storeVars, consumerVars, TypeOK, RangesInv
  <2>4. QED
    BY <1>10, <2>1, <2>2, <2>3 DEF vars, storeVars, collectorVars, readerVars
<1>11. ASSUME MergeSources, UNCHANGED discipline PROVE Rest
  <2>1. PICK run \in Runs(todo) :
          /\ run \subseteq objects /\ group' = run
          /\ todo' = {s \in todo : \A t \in run : s.first > t.first}
          /\ Put(Merged(run), UNION {contents[s] : s \in run})
    BY <1>11 DEF MergeSources
  <2>2. run \subseteq todo /\ run # {}
    BY RunHasTwo
  <2>3. Merged(run) \in Segments
    BY <2>2, MergedType DEF RangesInv, WithinLog, TypeOK
  <2>4. UNION {contents[s] : s \in run} \in SUBSET Nat
    BY <2>1, MergedDocumentsType
  <2>5. /\ contents' \in [objects' -> SUBSET Nat] /\ aged' \subseteq objects'
        /\ objects' \subseteq Segments /\ old' \subseteq Segments
    BY <2>1, <2>3, <2>4, PutType DEF TypeOK
  <2>6. TypeOK' /\ BufferInv' /\ RangesInv'
    BY <1>7, <1>11, <2>1, <2>2, <2>5 DEF MergeSources, RangesInv, WithinLog, TypeOK
  <2>7. QED
    BY <1>11, <2>1, <2>2, <2>5, <2>6 DEF MergeSources, readerVars
<1>12. ASSUME WriteMerged, UNCHANGED discipline PROVE Rest
  <2>1. /\ cphase = "reread" /\ group # {}
        /\ manifest' = WithSegments(live, (live.segments \ group) \cup {Merged(group)})
    BY <1>12 DEF WriteMerged, RangesInv
  <2>2. /\ Merged(group) \in Segments
        /\ Merged(group).first <= Merged(group).last /\ Merged(group).last < hw
    BY <2>1, MergedType DEF RangesInv, TypeOK
  <2>3. manifest' \in Manifest
    BY <2>1, <2>2 DEF WithSegments, Manifest
  <2>4. WithinLog(manifest'.segments, hw)
    BY <2>1, <2>2 DEF WithSegments, RangesInv, WithinLog
  <2>5. TypeOK' /\ BufferInv' /\ RangesInv'
    BY <1>2, <1>7, <1>12, <2>3, <2>4 DEF WriteMerged, RangesInv, TypeOK
  <2>6. QED
    BY <1>2, <1>12, <2>5 DEF WriteMerged, collectorVars, readerVars
<1>13. ASSUME CompactorCrash, UNCHANGED discipline PROVE Rest
  <2>1. faults' \in [Fault -> Nat]
    BY <1>13 DEF CompactorCrash, Disturb, TypeOK, Fault
  <2>2. TypeOK' /\ BufferInv' /\ RangesInv'
    BY <1>2, <1>7, <1>13, <2>1 DEF CompactorCrash, storeVars, RangesInv, TypeOK
  <2>3. QED
    BY <1>2, <1>13, <2>2 DEF CompactorCrash, storeVars, collectorVars, readerVars
<1>14. ASSUME Delete, UNCHANGED discipline PROVE Rest
  <2>1. TypeOK' /\ BufferInv' /\ RangesInv'
    BY <1>7, <1>14 DEF Delete, compactorVars, RangesInv, TypeOK
  <2>2. QED
    BY <1>14, <2>1 DEF Delete, compactorVars, readerVars
<1>15. CASE UNCHANGED lvars
  BY <1>8, <1>15 DEF lvars, collectorVars, readerVars
<1>16. QED
  BY <1>4, <1>5, <1>6, <1>9, <1>10, <1>11, <1>12, <1>13, <1>14, <1>15 DEF LNext, LStep

\* Every variable keeps its type, under any discipline: in particular a merge
\* always has a first and a last member to be named after.
THEOREM LTypeCorrect == LSpec => [](LTypeOK /\ BufferInv /\ RangesInv)
<1>1. LInit => LTypeOK /\ BufferInv /\ RangesInv
  <2> SUFFICES ASSUME LInit PROVE LTypeOK /\ BufferInv /\ RangesInv
    OBVIOUS
  <2>1. EmptyManifest \in Manifest /\ EmptyManifest.segments = {}
    BY DEF EmptyManifest, Manifest
  <2>2. TypeOK /\ BufferInv
    BY <2>1 DEF LInit, Init, TypeOK, BufferInv, Phase
  <2>3. RangesInv
    BY <2>1 DEF LInit, Init, RangesInv, WithinLog
  <2>4. LTypeOK
    BY <2>1, <2>2 DEF LInit, Init, LTypeOK
  <2>5. QED BY <2>2, <2>3, <2>4
<1>2. LTypeOK /\ BufferInv /\ RangesInv /\ [LNext]_lvars
        => (LTypeOK /\ BufferInv /\ RangesInv)'
  BY LTypeStep
<1>3. QED
  BY <1>1, <1>2, PTL DEF LSpec
-----------------------------------------------------------------------------
(* Maintenance kept apart from the indexer. *)

\* Compactor and collector take turns, and while either is at work every consumer
\* is idle; an idle consumer holds no copy of the manifest.
ApartInv ==
  /\ discipline # "any"
  /\ cphase = "off" \/ gphase = "off"
  /\ MaintenanceOff \/ \A c \in Consumers : phase[c] = "idle"
  /\ \A c \in Consumers : phase[c] = "idle" => view[c] = EmptyManifest

\* The compactor works through the listed segments in offset order: what it has
\* passed lies before what is left, and the run under merge is listed still, its
\* members neighbours, while the merged object already holds their documents.
MergeInv ==
  /\ cphase # "off" =>
       /\ todo \subseteq manifest.segments
       /\ \A s \in todo : \A t \in manifest.segments \ todo : t.first < s.first
  /\ cphase \in {"merged", "reread"} =>
       /\ group \in Runs(manifest.segments) /\ group \cap todo = {}
       /\ Merged(group) \in objects
       /\ contents[Merged(group)] = UNION {contents[s] : s \in group}
  /\ cphase = "reread" => live = manifest

\* What the collector takes for referenced is what is listed.
CollectInv ==
  /\ gphase # "off" => listed = manifest.segments
  /\ gphase = "doomed" => doomed \cap manifest.segments = {}

LifeInv == ApartInv /\ DisjointInv /\ StoredInv /\ MergeInv /\ CollectInv

\* No object holds a document from outside the range that names it.
ContentsInv == \A s \in objects : contents[s] \subseteq Documents(s)

\* If nothing uncommitted is merged, every object holds all of its range, and
\* the invariant of the one writer survives maintenance.
SettledInv ==
  discipline = "settled" =>
    /\ WriterInv
    /\ \A s \in objects : contents[s] = Documents(s)
    /\ cphase # "off" => \A s \in manifest.segments : s.last < committed

\* While maintenance is under way the indexer does nothing to store or consumers.
LEMMA StillMeanwhile ==
  ASSUME LTypeOK, ApartInv, ~MaintenanceOff, NEW c \in Consumers
  PROVE  /\ ~IndexerPut(c)
         /\ IndexerStep(c) => UNCHANGED <<hw, committed, storeVars, consumerVars>>
<1>1. phase[c] = "idle"
  BY DEF ApartInv
<1>2. ~IndexerPut(c)
  BY <1>1 DEF IndexerPut, PutSegment
<1>3. ASSUME IndexerStep(c) PROVE ~Assign(c)
  BY <1>1, <1>3 DEF IndexerStep, Assign, ApartInv, LTypeOK, TypeOK
<1>4. ASSUME IndexerStep(c) PROVE Expel(c)
  BY <1>1, <1>3, <1>4 DEF IndexerStep, Step, ReadManifest, Poll, TimerFires, EndLoop,
     PutSegment, PutManifest, Commit, CommitRefused, Revoke, NoticeEviction, Crash
<1>5. QED
  BY <1>2, <1>4 DEF Expel

\* A consumer that goes idle drops its copy of the manifest.
LEMMA IdleViews ==
  ASSUME TypeOK, [Next]_vars,
         \A c \in Consumers : phase[c] = "idle" => view[c] = EmptyManifest
  PROVE  \A c \in Consumers : phase'[c] = "idle" => view'[c] = EmptyManifest
<1> USE DEF TypeOK
<1>1. ASSUME NEW c \in Consumers, Commit(c)
      PROVE  \A d \in Consumers : phase'[d] = "idle" => view'[d] = EmptyManifest
  <2>1. CASE closing[c]
    <3>1. /\ phase' = [phase EXCEPT ![c] = "idle"]
          /\ view' = [view EXCEPT ![c] = EmptyManifest]
      BY <1>1, <2>1 DEF Commit
    <3>2. QED BY <3>1
  <2>2. CASE ~closing[c]
    <3>1. phase' = [phase EXCEPT ![c] = "polling"] /\ view' = view
      BY <1>1, <2>2 DEF Commit
    <3>2. QED BY <3>1
  <2>3. QED BY <2>1, <2>2
<1>2. ASSUME NEW c \in Consumers, Leave(c)
      PROVE  \A d \in Consumers : phase'[d] = "idle" => view'[d] = EmptyManifest
  BY <1>2 DEF Leave
<1>3. ASSUME NEW c \in Consumers, EndLoop(c)
      PROVE  \A d \in Consumers : phase'[d] = "idle" => view'[d] = EmptyManifest
  <2>1. CASE ~Leave(c)
    <3>1. phase' = [phase EXCEPT ![c] = "sealing"] /\ view' = view
      BY <1>3, <2>1 DEF EndLoop
    <3>2. QED BY <3>1
  <2>2. QED BY <1>2, <2>1
<1>4. ASSUME NEW c \in Consumers,
             \/ Assign(c) \/ ReadManifest(c) \/ Poll(c) \/ TimerFires(c)
             \/ PutSegment(c) \/ PutManifest(c) \/ Expel(c)
      PROVE  \A d \in Consumers : phase'[d] = "idle" => view'[d] = EmptyManifest
  BY <1>4 DEF Assign, ReadManifest, Poll, TimerFires, PutSegment, PutManifest, Expel,
     consumerVars
<1>5. CASE Produce \/ UNCHANGED vars
  BY <1>5 DEF Produce, vars, consumerVars
<1>6. QED
  BY <1>1, <1>2, <1>3, <1>4, <1>5
     DEF Next, Step, CommitRefused, Revoke, NoticeEviction, Crash

\* Steps of producer and consumers keep maintenance's picture of the store true:
\* none of them happens while maintenance has one.
LEMMA LifeIndexer ==
  ASSUME LTypeOK, BufferInv, LifeInv, UNCHANGED discipline,
         Producer \/ \E c \in Consumers : IndexerPut(c) \/ IndexerStep(c)
  PROVE  LifeInv'
<1> USE DEF LifeInv
<1>1. CASE MaintenanceOff
  <2>1. [Next]_vars /\ UNCHANGED <<cphase, gphase>>
    BY IndexerSteps
       DEF Producer, Next, IndexerPut, IndexerStep, compactorVars, collectorVars
  <2>2. ApartInv'
    BY <1>1, <2>1, IdleViews DEF ApartInv, MaintenanceOff, LTypeOK
  <2>3. DisjointInv' /\ StoredInv'
    BY <2>1, DisjointStep, StoredStep DEF LTypeOK
  <2>4. MergeInv' /\ CollectInv'
    BY <1>1, <2>1 DEF MergeInv, CollectInv, MaintenanceOff
  <2>5. QED BY <2>2, <2>3, <2>4
<1>2. CASE ~MaintenanceOff
  <2>1. UNCHANGED <<storeVars, consumerVars, contents, compactorVars, collectorVars, readerVars>>
    BY <1>2, StillMeanwhile DEF Producer, Produce, IndexerStep
  <2>2. QED
    BY <2>1 DEF ApartInv, MaintenanceOff, DisjointInv, StoredInv, MergeInv, CollectInv,
       storeVars, consumerVars, compactorVars, collectorVars, readerVars
<1>3. QED BY <1>1, <1>2

\* The compactor's next run has neighbours for members in the whole live set, not
\* only in what it has left to do.
LEMMA RunOfListed ==
  ASSUME LTypeOK, MergeInv, cphase # "off", NEW run \in Runs(todo)
  PROVE  run \in Runs(manifest.segments)
<1>1. run \subseteq todo /\ todo \subseteq manifest.segments
  BY DEF MergeInv, Runs
<1>2. ASSUME NEW t \in manifest.segments \ run
      PROVE  (\A s \in run : t.first < s.first) \/ (\A s \in run : t.first > s.first)
  <2>1. CASE t \in todo
    BY <2>1 DEF Runs
  <2>2. CASE t \notin todo
    BY <1>1, <2>2 DEF MergeInv
  <2>3. QED BY <2>1, <2>2
<1>3. QED
  BY <1>1, <1>2 DEF Runs

\* Putting a merged object disturbs no listed one.
LEMMA LifeMergeSources ==
  ASSUME LTypeOK, RangesInv, LifeInv, MergeSources, UNCHANGED discipline
  PROVE  LifeInv'
<1> USE DEF LifeInv
<1>1. PICK run \in Runs(todo) :
        /\ run \subseteq objects /\ group' = run
        /\ todo' = {s \in todo : \A t \in run : s.first > t.first}
        /\ Put(Merged(run), UNION {contents[s] : s \in run})
  BY DEF MergeSources
<1>2. /\ cphase = "planned" /\ cphase' = "merged"
      /\ UNCHANGED <<manifest, consumerVars, discipline, gphase>>
  BY DEF MergeSources
<1>3. run \in Runs(manifest.segments)
  BY <1>2, RunOfListed
<1>4. run \subseteq todo /\ run # {} /\ todo \subseteq manifest.segments
  BY <1>2, RunHasTwo DEF MergeInv
<1>5. manifest.segments \subseteq Segments
  BY DEF LTypeOK, TypeOK, Manifest
<1>6. Merged(run) \notin manifest.segments
  BY <1>3, <1>5, MergedRange DEF RangesInv, DisjointInv, LTypeOK, TypeOK
<1>7. /\ objects' = objects \cup {Merged(run)}
      /\ contents'[Merged(run)] = UNION {contents[s] : s \in run}
      /\ \A s \in run : contents'[s] = contents[s]
  BY <1>1, <1>4, <1>6 DEF Put
<1>8. ApartInv' /\ DisjointInv' /\ StoredInv' /\ CollectInv'
  BY <1>2, <1>7 DEF ApartInv, MaintenanceOff, DisjointInv, StoredInv, CollectInv, consumerVars
<1>9. \A s \in todo' : \A t \in manifest.segments \ todo' : t.first < s.first
  <2> SUFFICES ASSUME NEW s \in todo', NEW t \in manifest.segments \ todo'
               PROVE  t.first < s.first
    OBVIOUS
  <2>1. s \in todo /\ s \in Segments /\ t \in Segments
    BY <1>1, <1>4, <1>5
  <2>2. CASE t \notin todo
    BY <1>2, <2>1, <2>2 DEF MergeInv
  <2>3. CASE t \in run
    BY <1>1, <2>3
  <2>4. CASE t \in todo \ run
    <3>1. \A r \in run : t.first < r.first
      BY <1>1, <2>4 DEF Runs
    <3>2. PICK r \in run : TRUE
      BY <1>4
    <3>3. t.first < r.first /\ r.first < s.first /\ r \in Segments
      BY <1>1, <1>4, <1>5, <3>1
    <3>4. QED
      BY <2>1, <3>3 DEF Segments
  <2>5. QED BY <2>2, <2>3, <2>4
<1>10. group' \cap todo' = {}
  BY <1>1, <1>4, <1>5 DEF Segments
<1>11. MergeInv'
  BY <1>1, <1>2, <1>3, <1>4, <1>7, <1>9, <1>10 DEF MergeInv
<1>12. QED BY <1>8, <1>11

\* The compactor's commit replaces a run of neighbours by its range: the listed
\* ranges stay apart and everything listed stays stored.
LEMMA LifeWriteMerged ==
  ASSUME LTypeOK, RangesInv, LifeInv, WriteMerged, UNCHANGED discipline
  PROVE  LifeInv'
<1> USE DEF LifeInv
<1> DEFINE segments == manifest.segments
           merged == Merged(group)
<1>1. /\ cphase = "reread" /\ live = manifest /\ group \in Runs(segments)
      /\ merged \in objects /\ group \cap todo = {}
      /\ gphase = "off" /\ \A c \in Consumers : phase[c] = "idle"
  BY DEF WriteMerged, MergeInv, ApartInv, MaintenanceOff
<1>2. /\ manifest' = WithSegments(manifest, (segments \ group) \cup {merged})
      /\ cphase' = "planned"
      /\ UNCHANGED <<objects, consumerVars, discipline, todo, gphase>>
  BY <1>1 DEF WriteMerged, collectorVars
<1>3. manifest'.segments = (segments \ group) \cup {merged}
  BY <1>2 DEF WithSegments
<1>4. segments \subseteq Segments /\ group \subseteq segments /\ group # {}
  BY <1>1, RunHasTwo DEF LTypeOK, TypeOK, Manifest
<1>5. /\ \A t \in segments \ group : Documents(t) \cap Documents(merged) = {}
      /\ \E s \in group : merged.first = s.first
      /\ merged \in Segments
  BY <1>1, <1>4, MergedRange DEF RangesInv, DisjointInv, LTypeOK, TypeOK
<1>6. ApartInv'
  BY <1>1, <1>2 DEF ApartInv, MaintenanceOff, consumerVars
<1>7. DisjointInv'
  BY <1>2, <1>3, <1>5 DEF DisjointInv, Disjoint, consumerVars
<1>8. StoredInv'
  BY <1>1, <1>2, <1>3 DEF StoredInv, consumerVars
<1>9. MergeInv'
  <2>1. todo \subseteq segments /\ \A s \in todo : \A t \in segments \ todo : t.first < s.first
    BY <1>1 DEF MergeInv
  <2>2. todo \subseteq manifest'.segments
    BY <1>1, <1>3, <2>1
  <2>3. ASSUME NEW s \in todo, NEW t \in manifest'.segments \ todo
        PROVE  t.first < s.first
    <3>1. CASE t \in segments
      BY <2>1, <3>1
    <3>2. CASE t = merged
      BY <1>1, <1>4, <1>5, <2>1, <3>2
    <3>3. QED BY <1>3, <3>1, <3>2
  <2>4. QED
    BY <1>2, <2>2, <2>3 DEF MergeInv
<1>10. CollectInv'
  BY <1>1, <1>2 DEF CollectInv
<1>11. QED BY <1>6, <1>7, <1>8, <1>9, <1>10

\* The collector deletes nothing that is listed, or held by a consumer.
LEMMA LifeDelete ==
  ASSUME LTypeOK, LifeInv, Delete, UNCHANGED discipline
  PROVE  LifeInv'
<1> USE DEF LifeInv
<1>1. /\ gphase = "doomed" /\ gphase' = "listed" /\ objects' = objects \ doomed
      /\ UNCHANGED <<manifest, consumerVars, discipline, cphase, todo, listed, querying>>
  BY DEF Delete, compactorVars, readerVars
<1>2. cphase = "off" /\ \A c \in Consumers : view[c] = EmptyManifest
  BY <1>1 DEF ApartInv, MaintenanceOff
<1>3. StoredInv'
  BY <1>1, <1>2 DEF StoredInv, CollectInv, consumerVars, EmptyManifest
<1>4. QED
  BY <1>1, <1>2, <1>3
     DEF ApartInv, MaintenanceOff, DisjointInv, MergeInv, CollectInv, consumerVars

\* Every step of the lifecycle keeps the invariant.
LEMMA LifeStep ==
  ASSUME LTypeOK, BufferInv, RangesInv, LifeInv, [LNext]_lvars
  PROVE  LifeInv'
<1> USE DEF LifeInv
<1>1. ASSUME UNCHANGED <<storeVars, consumerVars, discipline, contents>>,
             ApartInv', MergeInv', CollectInv'
      PROVE  LifeInv'
  BY <1>1 DEF DisjointInv, StoredInv, storeVars, consumerVars
<1>2. ASSUME Plan \/ Reread \/ CompactEnds \/ CompactorCrash, UNCHANGED discipline
      PROVE  LifeInv'
  <2>1. UNCHANGED <<storeVars, consumerVars, contents, gphase, listed, doomed, querying>>
    BY <1>2 DEF Plan, Reread, CompactEnds, CompactorCrash, vars, collectorVars, readerVars
  <2>2. ApartInv'
    BY <1>2, <2>1 DEF ApartInv, Plan, Reread, CompactEnds, CompactorCrash, MaintenanceOff,
       MayMaintain, consumerVars
  <2>3. CollectInv'
    BY <2>1 DEF CollectInv, storeVars
  <2>4. MergeInv'
    BY <1>2, <2>1
       DEF MergeInv, Plan, Reread, CompactEnds, CompactorCrash, vars, storeVars
  <2>5. QED BY <1>1, <1>2, <2>1, <2>2, <2>3, <2>4
<1>3. ASSUME CollectBegins \/ Inspect \/ CollectEnds, UNCHANGED discipline
      PROVE  LifeInv'
  <2>1. UNCHANGED <<storeVars, consumerVars, contents, compactorVars, querying>>
    BY <1>3 DEF CollectBegins, Inspect, CollectEnds, vars, readerVars
  <2>2. ApartInv'
    BY <1>3, <2>1 DEF ApartInv, CollectBegins, Inspect, CollectEnds, MaintenanceOff,
       MayMaintain, consumerVars, compactorVars
  <2>3. CollectInv'
    BY <1>3, <2>1 DEF CollectInv, CollectBegins, Inspect, CollectEnds, storeVars, vars
  <2>4. MergeInv'
    BY <2>1 DEF MergeInv, storeVars, compactorVars
  <2>5. QED BY <1>1, <1>3, <2>1, <2>2, <2>3, <2>4
<1>4. ASSUME GracePasses \/ Refresh \/ CacheExpires \/ UNCHANGED lvars, UNCHANGED discipline
      PROVE  LifeInv'
  <2>1. UNCHANGED <<storeVars, consumerVars, contents, compactorVars, gphase, listed, doomed>>
    BY <1>4 DEF GracePasses, Refresh, CacheExpires, lvars, vars, collectorVars
  <2>2. ApartInv' /\ MergeInv'
    BY <1>4, <2>1 DEF ApartInv, MergeInv, MaintenanceOff, consumerVars, storeVars, compactorVars
  <2>3. CollectInv'
    BY <1>4, <2>1 DEF CollectInv, GracePasses, Refresh, CacheExpires, lvars, readerVars, storeVars
  <2>4. QED BY <1>1, <1>4, <2>1, <2>2, <2>3
<1>5. CASE UNCHANGED lvars
  BY <1>4, <1>5 DEF lvars
<1>6. QED
  BY <1>2, <1>3, <1>4, <1>5, LifeIndexer, LifeMergeSources, LifeWriteMerged, LifeDelete
     DEF LNext, LStep

\* While maintenance is kept apart from the indexer, the invariant holds.
LEMMA LifeAlways ==
  ASSUME "any" \notin Disciplines
  PROVE  LSpec => [](LTypeOK /\ BufferInv /\ RangesInv /\ LifeInv)
<1>1. LInit => LifeInv
  BY DEF LInit, Init, LifeInv, ApartInv, MaintenanceOff, DisjointInv, Disjoint, StoredInv,
         MergeInv, CollectInv, EmptyManifest
<1>2. LTypeOK /\ BufferInv /\ RangesInv /\ LifeInv /\ [LNext]_lvars => LifeInv'
  BY LifeStep
<1>3. QED
  BY <1>1, <1>2, LTypeCorrect, PTL DEF LSpec
-----------------------------------------------------------------------------
(* What is listed is stored. *)

\* Only three steps touch what is stored.
LEMMA StoreSteps ==
  ASSUME LTypeOK, [LNext]_lvars
  PROVE  \/ UNCHANGED <<objects, contents>>
         \/ \E c \in Consumers : IndexerPut(c)
         \/ MergeSources
         \/ Delete
<1>1. ASSUME NEW c \in Consumers, IndexerStep(c) PROVE UNCHANGED <<objects, contents>>
  BY <1>1, IndexerKeepsObjects DEF IndexerStep, LTypeOK
<1>2. QED
  BY <1>1 DEF LNext, LStep, Producer, Produce, GracePasses, Plan, Reread, WriteMerged,
     CompactEnds, CompactorCrash, CollectBegins, Inspect, CollectEnds, Refresh,
     CacheExpires, lvars, vars, storeVars

\* Only a publication and the compactor's commit change the manifest.
LEMMA ManifestSteps ==
  ASSUME [LNext]_lvars
  PROVE  \/ UNCHANGED manifest
         \/ \E c \in Consumers : PutManifest(c)
         \/ WriteMerged
<1>1. ASSUME NEW c \in Consumers, Step(c), ~PutManifest(c) PROVE UNCHANGED manifest
  BY <1>1 DEF Step, Assign, ReadManifest, Poll, TimerFires, EndLoop, PutSegment, Commit,
     CommitRefused, Revoke, NoticeEviction, Crash, Expel, Leave, storeVars
<1>2. QED
  BY <1>1 DEF LNext, LStep, IndexerPut, IndexerStep, PutSegment, Producer, Produce,
     GracePasses, Plan, MergeSources, Reread, CompactEnds, CompactorCrash, CollectBegins,
     Inspect, Delete, CollectEnds, Refresh, CacheExpires, lvars, vars, storeVars

\* What the manifest names stays stored through merges, deletions and their
\* crashes, provided nobody runs them beside the indexer.
THEOREM MaintenanceKeepsListed ==
  ASSUME "any" \notin Disciplines
  PROVE  LSpec => []ListedIsStored
<1>1. LifeInv => ListedIsStored
  BY DEF LifeInv, StoredInv, ListedIsStored
<1>2. QED
  BY <1>1, LifeAlways, PTL

-----------------------------------------------------------------------------
(* What a search finds. *)

\* A search reads what is listed, which is stored, from contents that stay
\* within the range of the object's name.
LEMMA FoundListed ==
  ASSUME LifeInv
  PROVE  Readable(manifest) = manifest.segments
BY DEF LifeInv, StoredInv, Readable

\* Storing an object leaves what the others hold alone.
LEMMA PutContents ==
  ASSUME NEW key, NEW docs, Put(key, docs)
  PROVE  /\ objects' = objects \cup {key} /\ contents'[key] = docs
         /\ \A s \in objects : s # key => contents'[s] = contents[s]
BY DEF Put

\* Every step keeps the documents of an object within its range: an indexer seals
\* exactly its range, and a merge covers the ranges of its sources.
LEMMA ContentsStep ==
  ASSUME LTypeOK, BufferInv, RangesInv, LifeInv, ContentsInv, [LNext]_lvars
  PROVE  ContentsInv'
<1> USE DEF ContentsInv
<1>1. ASSUME NEW key, NEW docs, Put(key, docs), docs \subseteq Documents(key)
      PROVE  ContentsInv'
  BY <1>1, PutContents
<1>2. ASSUME NEW c \in Consumers, IndexerPut(c) PROVE ContentsInv'
  BY <1>1, <1>2 DEF IndexerPut
<1>3. CASE MergeSources
  <2>1. PICK run \in Runs(todo) :
          run \subseteq objects /\ Put(Merged(run), UNION {contents[s] : s \in run})
    BY <1>3 DEF MergeSources
  <2>2. run \in Runs(manifest.segments)
    BY <1>3, RunOfListed DEF MergeSources, LifeInv
  <2>3. \A s \in run : Documents(s) \subseteq Documents(Merged(run))
    BY <2>2, MergedRange DEF RangesInv, LifeInv, DisjointInv, LTypeOK, TypeOK, Manifest
  <2>4. UNION {contents[s] : s \in run} \subseteq Documents(Merged(run))
    BY <2>1, <2>3
  <2>5. QED BY <1>1, <2>1, <2>4
<1>4. CASE Delete
  BY <1>4 DEF Delete
<1>5. CASE UNCHANGED <<objects, contents>>
  BY <1>5
<1>6. QED
  BY <1>2, <1>3, <1>4, <1>5, StoreSteps

\* No object ever holds a document from outside its range.
LEMMA ContentsAlways ==
  ASSUME "any" \notin Disciplines
  PROVE  LSpec => []ContentsInv
<1>1. LInit => ContentsInv
  BY DEF LInit, Init, ContentsInv
<1>2. LTypeOK /\ BufferInv /\ RangesInv /\ LifeInv /\ ContentsInv /\ [LNext]_lvars
        => ContentsInv'
  BY ContentsStep
<1>3. QED
  BY <1>1, <1>2, LifeAlways, PTL DEF LSpec

\* No search returns a document twice, although the sources of a merge stay in
\* the store beside the merged object that repeats them.
THEOREM NothingFoundTwice ==
  ASSUME "any" \notin Disciplines
  PROVE  LSpec => []FoundOnce
<1>1. LifeInv /\ ContentsInv => FoundOnce
  <2> SUFFICES ASSUME LifeInv, ContentsInv,
                      NEW s \in Readable(manifest), NEW t \in Readable(manifest), s # t
               PROVE  contents[s] \cap contents[t] = {}
    BY DEF FoundOnce
  <2>1. Documents(s) \cap Documents(t) = {}
    BY FoundListed DEF LifeInv, DisjointInv, Disjoint
  <2>2. contents[s] \subseteq Documents(s) /\ contents[t] \subseteq Documents(t)
    BY DEF ContentsInv, Readable
  <2>3. QED BY <2>1, <2>2
<1>2. QED
  BY <1>1, LifeAlways, ContentsAlways, PTL

\* A step that leaves the listed objects alone leaves what is found alone.
LEMMA SameFound ==
  ASSUME LifeInv, LifeInv', UNCHANGED manifest,
         \A s \in manifest.segments : contents'[s] = contents[s]
  PROVE  Found' = Found
<1>1. Readable(manifest) = manifest.segments
  BY FoundListed
<1>2. Readable(manifest)' = manifest.segments
  BY DEF LifeInv, StoredInv, Readable
<1>3. QED BY <1>1, <1>2 DEF Found

\* A search finds the same documents before and after every step of compactor and
\* collector: while the merged object lies unlisted beside its sources, when it
\* takes their place in the manifest, and as the sources are deleted.
THEOREM MaintenanceUnseen ==
  ASSUME "any" \notin Disciplines
  PROVE  LSpec => MaintenanceIsInvisible
<1>1. LTypeOK /\ RangesInv /\ LifeInv /\ LifeInv' /\ [LNext]_lvars
        => [UNCHANGED consumerVars => Found' = Found]_lvars
  <2> SUFFICES ASSUME LTypeOK, RangesInv, LifeInv, LifeInv', LNext, UNCHANGED consumerVars
               PROVE  Found' = Found
    OBVIOUS
  <2>1. ASSUME NEW c \in Consumers PROVE ~PutManifest(c) /\ ~IndexerPut(c)
    BY DEF PutManifest, IndexerPut, PutSegment, consumerVars, LTypeOK, TypeOK
  <2>2. CASE WriteMerged
    <3>1. /\ cphase = "reread" /\ live = manifest /\ group \in Runs(manifest.segments)
          /\ contents[Merged(group)] = UNION {contents[s] : s \in group}
      BY <2>2 DEF WriteMerged, LifeInv, MergeInv
    <3>2. /\ manifest'.segments = (manifest.segments \ group) \cup {Merged(group)}
          /\ contents' = contents
      BY <2>2, <3>1 DEF WriteMerged, WithSegments
    <3>3. group \subseteq manifest.segments
      BY <3>1 DEF Runs
    <3>4. Found = UNION {contents[s] : s \in manifest.segments}
      BY FoundListed DEF Found
    <3>5. Readable(manifest)' = manifest'.segments
      BY DEF LifeInv, StoredInv, Readable
    <3>6. Found' = UNION {contents[s] : s \in manifest'.segments}
      BY <3>2, <3>5 DEF Found
    <3>7. QED BY <3>1, <3>2, <3>3, <3>4, <3>6
  <2>3. CASE UNCHANGED manifest
    <3>1. CASE MergeSources
      <4>1. PICK run \in Runs(todo) :
              run \subseteq objects /\ Put(Merged(run), UNION {contents[s] : s \in run})
        BY <3>1 DEF MergeSources
      <4>2. run \in Runs(manifest.segments)
        BY <3>1, RunOfListed DEF MergeSources, LifeInv
      <4>3. Merged(run) \notin manifest.segments
        BY <4>2, MergedRange DEF RangesInv, LifeInv, DisjointInv, LTypeOK, TypeOK, Manifest
      <4>4. \A s \in manifest.segments : contents'[s] = contents[s]
        BY <4>1, <4>3, PutContents DEF LifeInv, StoredInv
      <4>5. QED BY <2>3, <4>4, SameFound
    <3>2. CASE Delete
      <4>1. \A s \in manifest.segments : s \in objects \ doomed
        BY <3>2 DEF Delete, LifeInv, StoredInv, CollectInv
      <4>2. \A s \in manifest.segments : contents'[s] = contents[s]
        BY <3>2, <4>1 DEF Delete
      <4>3. QED BY <2>3, <4>2, SameFound
    <3>3. CASE UNCHANGED <<objects, contents>>
      BY <2>3, <3>3, SameFound
    <3>4. QED
      BY <2>1, <3>1, <3>2, <3>3, StoreSteps
  <2>4. QED
    BY <2>1, <2>2, <2>3, ManifestSteps
<1>2. QED
  BY <1>1, LifeAlways, PTL DEF LSpec, MaintenanceIsInvisible
-----------------------------------------------------------------------------
(* Maintenance that touches only what is committed. *)

\* The invariant of the one writer looks only at the broker, the manifest and the
\* consumers.
LEMMA WriterUntouched ==
  ASSUME WriterInv, UNCHANGED <<brokerVars, manifest, consumerVars>>
  PROVE  WriterInv'
BY DEF WriterInv, SingleWriter, BufferAtCommitted, ReadyToCommit, Aligned,
       AcknowledgedIsSearchable, brokerVars, consumerVars

\* A run of acknowledged neighbours merges into exactly the documents of its
\* members: every acknowledged document is listed, and none outside the run lies
\* between them.
LEMMA MergedIsWhole ==
  ASSUME LTypeOK, RangesInv, DisjointInv, AcknowledgedIsSearchable,
         NEW run \in Runs(manifest.segments), \A s \in run : s.last < committed
  PROVE  UNION {Documents(s) : s \in run} = Documents(Merged(run))
<1> DEFINE segments == manifest.segments
           merged == Merged(run)
<1>1. /\ merged \in Segments
      /\ \E s \in run : merged.last = s.last
      /\ \A s \in run : Documents(s) \subseteq Documents(merged)
      /\ \A t \in segments \ run : Documents(t) \cap Documents(merged) = {}
  BY MergedRange DEF RangesInv, DisjointInv, LTypeOK, TypeOK, Manifest
<1>2. ASSUME NEW o \in Documents(merged) PROVE \E s \in run : o \in Documents(s)
  <2>1. o \in Nat /\ o <= merged.last /\ merged.last \in Nat /\ merged.last < committed
    BY <1>1 DEF Documents, Segments
  <2>2. o \in 0 .. committed - 1
    BY <2>1 DEF LTypeOK, TypeOK
  <2>3. PICK t \in segments : o \in Documents(t)
    BY <2>2, SearchableHolder DEF AcknowledgedIsSearchable
  <2>4. t \in run
    BY <1>1, <2>3
  <2>5. QED BY <2>3, <2>4
<1>3. QED BY <1>1, <1>2

\* The compactor's commit keeps every acknowledged document listed.
LEMMA WriterWriteMerged ==
  ASSUME LTypeOK, RangesInv, LifeInv, WriterInv, WriteMerged,
         \A s \in manifest.segments : s.last < committed
  PROVE  WriterInv' /\ \A s \in manifest'.segments : s.last < committed
<1> USE DEF LifeInv
<1> DEFINE merged == Merged(group)
<1>1. /\ cphase = "reread" /\ live = manifest /\ group \in Runs(manifest.segments)
      /\ \A c \in Consumers : phase[c] = "idle"
  BY DEF WriteMerged, MergeInv, ApartInv, MaintenanceOff
<1>2. /\ manifest'.segments = (manifest.segments \ group) \cup {merged}
      /\ UNCHANGED <<brokerVars, consumerVars>>
  BY <1>1 DEF WriteMerged, WithSegments
<1>3. /\ merged.first <= merged.last /\ merged.last < hw
      /\ \E s \in group : merged.last = s.last
      /\ \A s \in group : Documents(s) \subseteq Documents(merged)
  BY <1>1, MergedRange DEF RangesInv, DisjointInv, LTypeOK, TypeOK, Manifest
<1>4. group \subseteq manifest.segments
  BY <1>1 DEF Runs
<1>5. \A s \in manifest'.segments : s.last < committed
  BY <1>2, <1>3, <1>4
<1>6. ASSUME NEW o \in Searchable(manifest) PROVE o \in Searchable(manifest')
  <2>1. PICK s \in manifest.segments : o \in Documents(s)
    BY SearchableHolder
  <2>2. PICK t \in manifest'.segments : o \in Documents(t)
    BY <1>2, <1>3, <2>1
  <2>3. QED BY <2>2, SearchableHolder
<1>7. AcknowledgedIsSearchable'
  BY <1>2, <1>6 DEF WriterInv, AcknowledgedIsSearchable, brokerVars
<1>8. Aligned'
  BY <1>2, <1>3, <1>4, <1>5 DEF WriterInv, Aligned, brokerVars
<1>9. SingleWriter' /\ BufferAtCommitted' /\ ReadyToCommit'
  BY <1>1, <1>2 DEF WriterInv, SingleWriter, BufferAtCommitted, ReadyToCommit, brokerVars,
     consumerVars
<1>10. QED BY <1>5, <1>7, <1>8, <1>9 DEF WriterInv

\* Every step keeps objects whole and what is under merge acknowledged.
LEMMA SettledStep ==
  ASSUME MaxFaults["expel"] = 0, LTypeOK, BufferInv, RangesInv, LifeInv, SettledInv,
         [LNext]_lvars
  PROVE  SettledInv'
<1> SUFFICES ASSUME discipline = "settled", discipline' = discipline
             PROVE  SettledInv'
  BY DEF SettledInv, LNext, lvars
<1> DEFINE Whole == \A s \in objects : contents[s] = Documents(s)
           Acknowledged == cphase # "off" => \A s \in manifest.segments : s.last < committed
<1>1. WriterInv /\ Whole /\ Acknowledged
  BY DEF SettledInv
<1> SUFFICES WriterInv' /\ Whole' /\ Acknowledged'
  BY DEF SettledInv
<1> HIDE DEF Whole, Acknowledged
<1>2. ASSUME UNCHANGED <<objects, contents>> PROVE Whole'
  BY <1>1, <1>2 DEF Whole
<1>3. ASSUME NEW key, NEW docs, Put(key, docs), docs = Documents(key) PROVE Whole'
  BY <1>1, <1>3, PutContents DEF Whole
<1>4. ASSUME \/ Producer \/ \E c \in Consumers : IndexerPut(c) \/ IndexerStep(c)
      PROVE  WriterInv' /\ Whole' /\ Acknowledged'
  <2>1. [Next]_vars /\ UNCHANGED cphase
    BY <1>4, IndexerSteps
       DEF Producer, Next, IndexerPut, IndexerStep, compactorVars
  <2>2. WriterInv'
    BY <1>1, <2>1, WriterNext DEF LTypeOK
  <2>3. Whole'
    <3>1. ASSUME NEW c \in Consumers, IndexerPut(c) PROVE Whole'
      BY <1>3, <3>1 DEF IndexerPut
    <3>2. ASSUME NEW c \in Consumers, IndexerStep(c) PROVE Whole'
      BY <1>2, <3>2, IndexerKeepsObjects DEF IndexerStep, LTypeOK
    <3>3. CASE Producer
      BY <1>2, <3>3 DEF Producer, Produce, storeVars
    <3>4. QED BY <1>4, <3>1, <3>2, <3>3
  <2>4. ASSUME MaintenanceOff PROVE Acknowledged'
    BY <2>1, <2>4 DEF Acknowledged, MaintenanceOff
  <2>5. ASSUME ~MaintenanceOff PROVE Acknowledged'
    <3>1. UNCHANGED <<committed, manifest>>
      BY <1>4, <2>5, StillMeanwhile DEF Producer, Produce, storeVars, LifeInv
    <3>2. QED BY <1>1, <2>1, <3>1 DEF Acknowledged
  <2>6. QED BY <2>2, <2>3, <2>4, <2>5
<1>5. ASSUME UNCHANGED <<brokerVars, manifest, consumerVars>>, cphase' = "off" \/ cphase # "off"
      PROVE  WriterInv' /\ Acknowledged'
  BY <1>1, <1>5, WriterUntouched DEF Acknowledged, brokerVars
<1>6. CASE MergeSources
  <2>1. PICK run \in Runs(todo) :
          run \subseteq objects /\ Put(Merged(run), UNION {contents[s] : s \in run})
    BY <1>6 DEF MergeSources
  <2>2. run \in Runs(manifest.segments) /\ cphase # "off"
    BY <1>6, RunOfListed DEF MergeSources, LifeInv
  <2>3. \A s \in run : s.last < committed
    BY <1>1, <2>2 DEF Acknowledged, Runs
  <2>4. UNION {Documents(s) : s \in run} = Documents(Merged(run))
    BY <1>1, <2>2, <2>3, MergedIsWhole DEF LifeInv, WriterInv
  <2>5. UNION {contents[s] : s \in run} = UNION {Documents(s) : s \in run}
    BY <1>1, <2>1 DEF Whole
  <2>6. Whole'
    BY <1>3, <2>1, <2>4, <2>5
  <2>7. QED BY <1>5, <1>6, <2>6 DEF MergeSources
<1>7. CASE WriteMerged
  <2>1. \A s \in manifest.segments : s.last < committed
    BY <1>1, <1>7 DEF WriteMerged, Acknowledged
  <2>2. WriterInv' /\ (\A s \in manifest'.segments : s.last < committed)
    BY <1>1, <1>7, <2>1, WriterWriteMerged
  <2>3. committed' = committed /\ UNCHANGED <<objects, contents>>
    BY <1>7 DEF WriteMerged, brokerVars
  <2>4. QED BY <1>2, <2>2, <2>3 DEF Acknowledged
<1>8. CASE Delete
  <2>1. Whole'
    BY <1>1, <1>8 DEF Whole, Delete
  <2>2. cphase' = cphase /\ UNCHANGED <<brokerVars, manifest, consumerVars>>
    BY <1>8 DEF Delete, compactorVars
  <2>3. QED BY <1>1, <2>1, <2>2, WriterUntouched DEF Acknowledged, brokerVars
<1>9. CASE Plan
  <2>1. /\ UNCHANGED <<brokerVars, objects, contents, manifest, consumerVars>>
        /\ \A s \in manifest.segments : s.last < committed
    BY <1>9 DEF Plan, MayMaintain, vars, storeVars
  <2>2. WriterInv' /\ Whole'
    BY <1>1, <1>2, <2>1, WriterUntouched
  <2>3. QED BY <2>1, <2>2 DEF Acknowledged, brokerVars
<1>10. CASE Reread \/ CompactEnds \/ CompactorCrash
  BY <1>2, <1>5, <1>10 DEF Reread, CompactEnds, CompactorCrash, vars, storeVars
<1>11. CASE \/ GracePasses \/ CollectBegins \/ Inspect \/ CollectEnds
            \/ Refresh \/ CacheExpires \/ UNCHANGED lvars
  <2>1. UNCHANGED <<vars, contents, cphase>>
    BY <1>11 DEF GracePasses, CollectBegins, Inspect, CollectEnds, Refresh, CacheExpires,
       lvars, compactorVars
  <2>2. UNCHANGED <<brokerVars, manifest, objects, consumerVars>>
    BY <2>1 DEF vars, storeVars
  <2>3. QED BY <1>1, <1>2, <2>1, <2>2, WriterUntouched DEF Acknowledged, brokerVars
<1>12. QED
  BY <1>4, <1>6, <1>7, <1>8, <1>9, <1>10, <1>11 DEF LNext, LStep

\* The indexer's invariant holds with maintenance beside it, in every state.
LEMMA SettledAlways ==
  ASSUME "any" \notin Disciplines, MaxFaults["expel"] = 0
  PROVE  LSpec => []SettledInv
<1>1. LInit => SettledInv
  BY WriterInit DEF LInit, Init, SettledInv
<1>2. LTypeOK /\ BufferInv /\ RangesInv /\ LifeInv /\ SettledInv /\ [LNext]_lvars
        => SettledInv'
  BY SettledStep
<1>3. QED
  BY <1>1, <1>2, LifeAlways, PTL DEF LSpec

\* If only what is committed is merged, every acknowledged document stays found
\* through every merge, deletion, crash and restart.
THEOREM SettledNeverLoses ==
  ASSUME "any" \notin Disciplines, MaxFaults["expel"] = 0
  PROVE  LSpec => []SettledIsFound
<1>1. LifeInv /\ SettledInv => SettledIsFound
  <2> SUFFICES ASSUME LifeInv, SettledInv, discipline = "settled",
                      NEW o \in 0 .. committed - 1
               PROVE  o \in Found
    BY DEF SettledIsFound, AcknowledgedIsFound
  <2>1. o \in Searchable(manifest)
    BY DEF SettledInv, WriterInv, AcknowledgedIsSearchable
  <2>2. PICK s \in manifest.segments : o \in Documents(s)
    BY <2>1, SearchableHolder
  <2>3. s \in objects /\ o \in contents[s]
    BY <2>2 DEF LifeInv, StoredInv, SettledInv
  <2>4. QED
    BY <2>2, <2>3 DEF Found, Readable
<1>2. QED
  BY <1>1, LifeAlways, SettledAlways, PTL

\* Compactor and collector included, the partition still implements
\* ExactlyOnceIndex if only what is committed is merged: a merge is a reindexing
\* that moves nothing.
THEOREM MaintainedExactlyOnce ==
  ASSUME Disciplines = {"settled"}, MaxFaults["expel"] = 0
  PROVE  LSpec => ImplementsExactlyOnce
<1>1. LTypeOK /\ LifeInv /\ SettledInv => TypeOK /\ WriterInv /\ DisjointInv
  BY DEF LTypeOK, LifeInv, SettledInv
<1>2. TypeOK /\ WriterInv /\ DisjointInv => PrefixInv /\ CommitInv
  BY PrefixAlways, CommitPrefix
<1>3. TypeOK /\ WriterInv /\ CommitInv /\ PrefixInv' /\ [LNext]_lvars
        => [Abstract!Next]_(Abstract!vars)
  <2> SUFFICES ASSUME TypeOK, WriterInv, CommitInv, PrefixInv', [LNext]_lvars
               PROVE  [Abstract!Next]_(Abstract!vars)
    OBVIOUS
  <2>1. CASE [Next]_vars
    BY <2>1, StepImplements
  <2>2. CASE UNCHANGED brokerVars
    BY <2>2 DEF brokerVars, PrefixInv, Abstract!Next, Abstract!Reindex
  <2>3. [Next]_vars \/ UNCHANGED brokerVars
    <3>1. CASE \E c \in Consumers : IndexerPut(c) \/ IndexerStep(c)
      BY <3>1, IndexerSteps
    <3>2. CASE Producer
      BY <3>2 DEF Producer, Next
    <3>3. CASE \/ GracePasses \/ Plan \/ MergeSources \/ Reread \/ WriteMerged
               \/ CompactEnds \/ CompactorCrash
      BY <3>3 DEF GracePasses, Plan, MergeSources, Reread, WriteMerged, CompactEnds,
         CompactorCrash, vars
    <3>4. CASE \/ CollectBegins \/ Inspect \/ Delete \/ CollectEnds
               \/ Refresh \/ CacheExpires \/ UNCHANGED lvars
      BY <3>4 DEF CollectBegins, Inspect, Delete, CollectEnds, Refresh, CacheExpires,
         lvars, vars
    <3>5. QED BY <3>1, <3>2, <3>3, <3>4 DEF LNext, LStep
  <2>4. QED BY <2>1, <2>2, <2>3
<1>4. LInit => Abstract!Init
  BY InitImplements DEF LInit
<1>5. LSpec => [](LTypeOK /\ BufferInv /\ RangesInv /\ LifeInv)
  BY LifeAlways
<1>6. LSpec => []SettledInv
  BY SettledAlways
<1>7. QED
  BY <1>1, <1>2, <1>3, <1>4, <1>5, <1>6, PTL DEF LSpec, ImplementsExactlyOnce, Abstract!Spec
=============================================================================
