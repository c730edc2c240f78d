-------------------------- MODULE LiveService_proofs --------------------------
(***************************************************************************)
(* Theorems about LiveService, for every number of threads, every feed,    *)
(* every batch and segment size and every number of disturbances: first    *)
(* the shape of its state, then what one instance never loses, whatever    *)
(* fails, and last what it repeats and what it skips.  With two instances  *)
(* it does lose (rollout_loses).                                           *)
(***************************************************************************)
EXTENDS LiveService, Manifests_proofs, Orders_proofs, SequenceTheorems

USE ServiceAssumption
-----------------------------------------------------------------------------
(* Lemmas about the operators. *)

\* The bounds are numbers.
LEMMA BoundsAre ==
  /\ FeedLength \in Nat /\ MaxAttempts \in Nat /\ MaxStreams \in Nat /\ MaxFaults \in Nat
  /\ ChunkEvents \in Nat \ {0} /\ Batch \in Nat \ {0} /\ SegmentDocs \in Nat \ {0}
OBVIOUS

\* Consecutive positions of the feed are a batch of events.
LEMMA FeedBatch ==
  ASSUME NEW n \in Nat, NEW from \in Nat, from + n <= FeedLength
  PROVE  [k \in 1 .. n |-> from + k - 1] \in Seq(Event)
<1>1. \A k \in 1 .. n : from + k - 1 \in Event
  BY DEF Event
<1>2. QED
  BY <1>1, SeqDef

\* The smaller of two numbers.
LEMMA MinOfTwo ==
  ASSUME NEW a \in Int, NEW b \in Int
  PROVE  Min({a, b}) \in {a, b} /\ Min({a, b}) <= a /\ Min({a, b}) <= b
<1>1. \E x \in {a, b} : \A y \in {a, b} : x <= y
  OBVIOUS
<1>2. QED
  BY <1>1 DEF Min

\* What is left of a chunk lies within the feed.
LEMMA ChunkWithinFeed ==
  ASSUME NEW i \in Instances, feed[i].next \in 0 .. FeedLength
  PROVE  InChunk(i) \in 0 .. FeedLength - feed[i].next
<1> DEFINE left == FeedLength - feed[i].next
           chunk == (ChunkEvents - (feed[i].next % ChunkEvents)) % ChunkEvents
<1>1. left \in Nat /\ chunk \in Int
  OBVIOUS
<1>2. InChunk(i) = Min({left, chunk})
  BY DEF InChunk
<1> HIDE DEF left, chunk
<1>3. Min({left, chunk}) \in {left, chunk} /\ Min({left, chunk}) <= left
  <2>1. left \in Int
    BY <1>1
  <2>2. QED
    BY <1>1, <2>1, MinOfTwo, Zenon
<1>4. chunk >= 0
  BY DEF chunk
<1>5. QED
  BY <1>1, <1>2, <1>3, <1>4 DEF left

\* A live set with an end: every one that is ever built up segment by segment.
Bounded(segs) == IsFiniteSet(segs) /\ \E end \in Nat : \A s \in segs : s.last < end

\* Publishing keeps a live set finite, with an end.
LEMMA BoundedPublish ==
  ASSUME NEW m \in Manifest, NEW s \in Segments, Bounded(m.segments)
  PROVE  Bounded(Publish(m, s).segments)
<1>1. Publish(m, s).segments = Kept(m, s) \cup {s} /\ Kept(m, s) \subseteq m.segments
  BY PublishSegments DEF Kept
<1>2. IsFiniteSet(Publish(m, s).segments)
  BY <1>1, FS_Subset, FS_AddElement DEF Bounded
<1>3. PICK end \in Nat : \A t \in m.segments : t.last < end
  BY DEF Bounded
<1>4. m.segments \subseteq Segments
  BY DEF Manifest
<1> DEFINE beyond == IF s.last < end THEN end ELSE s.last + 1
<1>5. beyond \in Nat /\ \A t \in Publish(m, s).segments : t.last < beyond
  BY <1>1, <1>3, <1>4 DEF Segments
<1>6. QED BY <1>2, <1>5 DEF Bounded

\* The offset after the last one listed.
AfterLast(m) == 1 + Max({-1} \cup {s.last : s \in m.segments})

\* The offset after the last one is beyond every segment, and right behind one.
LEMMA AfterLastBeyond ==
  ASSUME NEW m \in Manifest, Bounded(m.segments)
  PROVE  /\ AfterLast(m) \in Nat /\ \A s \in m.segments : s.last < AfterLast(m)
         /\ AfterLast(m) = 0 \/ \E s \in m.segments : AfterLast(m) = s.last + 1
<1> DEFINE lasts == {s.last : s \in m.segments}
           none == -1
<1>0. none \in Int /\ none < 0 /\ 1 + none = 0
  OBVIOUS
<1>1. lasts \in SUBSET Nat /\ \A s \in m.segments : s.last \in lasts
  BY DEF Manifest, Segments
<1>2. PICK end \in Nat : \A n \in lasts : n < end
  BY DEF Bounded
<1>3. AfterLast(m) = 1 + Max({none} \cup lasts)
  BY DEF AfterLast
<1> HIDE DEF lasts, none
<1>4. \E hi \in {none} \cup lasts : \A n \in {none} \cup lasts : hi >= n
  <2>1. CASE lasts = {}
    BY <1>0, <2>1
  <2>2. CASE lasts # {}
    <3>1. PICK hi \in lasts : \A n \in lasts : n <= hi
      BY <1>1, <1>2, <2>2, GreatestNatural
    <3>2. QED BY <1>0, <1>1, <3>1
  <2>3. QED BY <2>1, <2>2
<1> DEFINE top == Max({none} \cup lasts)
<1>5. top \in {none} \cup lasts /\ \A n \in {none} \cup lasts : top >= n
  BY <1>4 DEF Max
<1> HIDE DEF top
<1>6. top \in Int /\ top >= none
  BY <1>0, <1>1, <1>5
<1>7. 1 + top \in Nat
  BY <1>0, <1>6
<1>8. ASSUME NEW s \in m.segments PROVE s.last < 1 + top
  <2>1. s.last \in Nat /\ top >= s.last
    BY <1>1, <1>5
  <2>2. QED BY <1>6, <2>1
<1>9. 1 + top = 0 \/ \E s \in m.segments : 1 + top = s.last + 1
  <2>1. CASE top = none
    BY <1>0, <2>1
  <2>2. CASE top \in lasts
    <3>1. PICK s \in m.segments : top = s.last
      BY <2>2 DEF lasts
    <3>2. 1 + top = top + 1
      BY <1>6
    <3>3. QED BY <3>1, <3>2
  <2>3. QED BY <1>5, <2>1, <2>2
<1>10. QED
  BY <1>3, <1>7, <1>8, <1>9 DEF top

\* A manifest's documents can be counted.
LEMMA DocumentCountType ==
  ASSUME NEW m \in Manifest, Bounded(m.segments)
  PROVE  DocumentCount(m) \in Nat /\ IsFiniteSet(Entries(m))
<1>1. PICK end \in Nat : \A s \in m.segments : s.last < end
  BY DEF Bounded
<1>2. IsFiniteSet(0 .. end) /\ IsFiniteSet(m.segments)
  BY FS_Interval DEF Bounded
<1>3. IsFiniteSet(m.segments \X (0 .. end))
  BY <1>2, FS_Product
<1>4. Entries(m) \subseteq m.segments \X (0 .. end)
  <2> SUFFICES ASSUME NEW s \in m.segments, NEW o \in Documents(s)
               PROVE  o \in 0 .. end
    BY DEF Entries
  <2>1. QED
    BY <1>1 DEF Documents, Manifest, Segments
<1>5. QED
  BY <1>3, <1>4, FS_Subset, FS_CardinalityType DEF DocumentCount
-----------------------------------------------------------------------------
(* Type correctness, with the shape it rests on: who holds the lock, which   *)
(* requests need an ingestor, and that whatever is named is stored.         *)

Job == {"none", "post", "search", "stream", "last"}
Holder == Threads \cup {NoThread}

\* What a segment object may hold, and the readers a coordinator may keep.
Data == UNION {[D -> Event] : D \in SUBSET Nat}
Readers == UNION {[S -> Data] : S \in SUBSET Segments}

IngestorType == [open : BOOLEAN, view : Manifest, start : Nat, buffer : Seq(Event),
                 holder : Holder]
FeedType == [next : 0 .. FeedLength, dry : BOOLEAN]
IndexType == [cached : Manifest, readers : Readers, degraded : BOOLEAN, fresh : BOOLEAN,
              checker : Holder]
RequestType == [at : Where, job : Job, batch : Seq(Event), seen : Manifest,
                due : SUBSET Posted, found : SUBSET Event]

Types ==
  /\ manifest \in Manifest /\ DOMAIN objects \subseteq Segments
  /\ \A s \in DOMAIN objects : objects[s] \in [Documents(s) -> Event]
  /\ up \in [Instances -> {"down", "loading", "serving"}]
  /\ ingestor \in [Instances -> IngestorType] /\ feed \in [Instances -> FeedType]
  /\ coordinator \in [Instances -> IndexType] /\ request \in [Threads -> RequestType]
  /\ acked \in [Instances -> SUBSET Posted]
  /\ attempts \in [Posted -> 0 .. MaxAttempts] /\ streams \in 0 .. MaxStreams
  /\ faults \in 0 .. MaxFaults

\* A live set that is stored.
Stored(segs) == segs \subseteq DOMAIN objects

StoreInv == Stored(manifest.segments) /\ Bounded(manifest.segments)

IngestorInv(i) ==
  LET g == ingestor[i] IN
  /\ Stored(g.view.segments) /\ Bounded(g.view.segments)
  /\ g.open => up[i] = "serving"
  /\ ~g.open => g = NoIngestor
  /\ g.holder # NoThread => Serves[g.holder] = i /\ g.buffer # <<>>

\* The places where a request works on the ingestor, and where it holds its lock.
Writing == {"taking", "adding", "sealing", "publishing"}
Locked == {"sealing", "publishing"}
Writers == {"post", "stream", "last"}

RequestInv(t) ==
  LET r == request[t]
      i == Serves[t]
  IN /\ r.at # "idle" => up[i] = "serving"
     /\ r.at \in Writing => r.job \in Writers
     /\ r.job \in Writers => ingestor[i].open
     /\ r.at \in Locked <=> ingestor[i].holder = t
     /\ r.job = "post" => \E e \in Posted : r.batch = <<e>>
     /\ Stored(r.seen.segments)
     /\ r.at = "publishing" => Sealed(i) \in DOMAIN objects

ShapeInv ==
  /\ StoreInv
  /\ \A i \in Instances : IngestorInv(i) /\ Stored(coordinator[i].cached.segments)
  /\ \A t \in Threads : RequestInv(t)

\* The typed records say no less than the type invariant the runs check.
LEMMA TypesImply == Types => TypeOK
BY DEF Types, TypeOK, IngestorType, FeedType, IndexType, RequestType, Holder

\* The values instances and threads begin with have their types.
LEMMA IdleType ==
  /\ EmptyManifest \in Manifest /\ EmptyManifest.segments = {} /\ Bounded({})
  /\ NoIngestor \in IngestorType /\ NoFeed \in FeedType /\ NoIndex \in IndexType
  /\ Idle \in RequestType
<1>1. EmptyManifest \in Manifest /\ EmptyManifest.segments = {}
  BY DEF EmptyManifest, Manifest
<1>2. <<>> \in Seq(Event)
  BY EmptySeq
<1>3. [s \in {} |-> {}] \in Readers
  <2>1. [s \in {} |-> {}] \in [{} -> Data] /\ {} \in SUBSET Segments
    OBVIOUS
  <2>2. QED BY <2>1 DEF Readers
<1>4. Bounded({})
  BY FS_EmptySet DEF Bounded
<1>5. QED
  BY <1>1, <1>2, <1>3, <1>4
     DEF NoIngestor, IngestorType, NoFeed, FeedType, NoIndex, IndexType, Idle, RequestType,
         Holder, Where, Job

\* The service begins well typed, with nothing stored and nobody at work.
LEMMA ShapeInit == Init => Types /\ ShapeInv
<1> SUFFICES ASSUME Init PROVE Types /\ ShapeInv
  OBVIOUS
<1>1. Types
  BY IdleType DEF Init, Types
<1>2. ShapeInv
  BY IdleType
     DEF Init, ShapeInv, StoreInv, IngestorInv, RequestInv, Stored, NoIngestor, NoIndex, Idle,
         Writing, Locked, Writers
<1>3. QED BY <1>1, <1>2

\* What a thread does at the ingestor disturbs no other request: the lock keeps
\* the others from sealing and publishing meanwhile.
LEMMA OthersKeepShape ==
  ASSUME Types, ShapeInv, NEW t \in Threads, NEW u \in Threads, u # t,
         request'[u] = request[u], UNCHANGED up, DOMAIN objects \subseteq DOMAIN objects',
         \/ ingestor'[Serves[u]] = ingestor[Serves[u]]
         \/ /\ ingestor[Serves[u]].holder \in {NoThread, t}
            /\ ingestor'[Serves[u]].holder \in {NoThread, t}
            /\ ingestor'[Serves[u]].open = ingestor[Serves[u]].open
  PROVE  RequestInv(u)'
<1> DEFINE i == Serves[u]
<1>1. RequestInv(u) /\ u # NoThread
  BY DEF ShapeInv
<1>2. request[u].at \in Locked => ingestor[i].holder = u
  BY <1>1 DEF RequestInv
<1>3. /\ ingestor'[i].open = ingestor[i].open
      /\ ingestor'[i].holder = u <=> ingestor[i].holder = u
      /\ ingestor[i].holder = u => Sealed(i)' = Sealed(i)
  BY <1>1 DEF Sealed
<1>4. Stored(request[u].seen.segments)'
  BY <1>1 DEF RequestInv, Stored
<1>5. QED
  BY <1>1, <1>2, <1>3, <1>4 DEF RequestInv, Locked

\* A request that moves on beside the ingestor and the store.
LEMMA RequestMoves ==
  ASSUME Types, ShapeInv, NEW t \in Threads, NEW r \in RequestType,
         request' = [request EXCEPT ![t] = r],
         UNCHANGED <<storeVars, up, ingestor>>,
         r.at # "idle" => up[Serves[t]] = "serving",
         r.at \in Writing => r.job \in Writers,
         r.job \in Writers => ingestor[Serves[t]].open,
         request[t].at \notin Locked, r.at \notin Locked,
         r.job = "post" => \E e \in Posted : r.batch = <<e>>,
         Stored(r.seen.segments)
  PROVE  (request \in [Threads -> RequestType] /\ \A u \in Threads : RequestInv(u))'
<1>1. request' \in [Threads -> RequestType] /\ request'[t] = r
      /\ \A u \in Threads : u # t => request'[u] = request[u]
  BY DEF Types
<1>2. ASSUME NEW u \in Threads, u # t PROVE RequestInv(u)'
  BY <1>1, <1>2, OthersKeepShape DEF storeVars
<1>3. ingestor[Serves[t]].holder # t
  BY DEF ShapeInv, RequestInv
<1>4. RequestInv(t)'
  BY <1>1, <1>3 DEF RequestInv, Locked, Stored, storeVars
<1>5. QED BY <1>1, <1>2, <1>4

\* Instances whose records stay, or change in a cache that is stored, keep their
\* part of the shape.
LEMMA InstancesKeepShape ==
  ASSUME ShapeInv, UNCHANGED <<up, ingestor>>, DOMAIN objects \subseteq DOMAIN objects',
         \A i \in Instances :
           \/ coordinator'[i].cached = coordinator[i].cached
           \/ Stored(coordinator'[i].cached.segments)
  PROVE  \A i \in Instances : IngestorInv(i)' /\ Stored(coordinator[i].cached.segments)'
BY DEF ShapeInv, IngestorInv, Stored

\* Steps of requests beside the ingestor.
LEMMA RequestSteps ==
  ASSUME Types, ShapeInv, NEW t \in Threads,
         \/ StartStream(t) \/ EndStream(t) \/ AskSize(t) \/ ReadManifest(t)
         \/ PlanSearch(t) \/ Respond(t)
         \/ \E e \in Posted : Post(t, e)
  PROVE  Types' /\ ShapeInv'
<1> DEFINE i == Serves[t]
           q == request[t]
           Moved == (request \in [Threads -> RequestType] /\ \A u \in Threads : RequestInv(u))'
<1>1. q \in RequestType /\ i \in Instances /\ RequestInv(t)
  BY DEF Types, ShapeInv
<1>2. Stored(manifest.segments) /\ Stored(EmptyManifest.segments) /\ manifest \in Manifest
      /\ Stored(coordinator[i].cached.segments) /\ coordinator[i].cached \in Manifest
      /\ Stored(q.seen.segments)
  BY <1>1, IdleType DEF Types, ShapeInv, StoreInv, Stored, IndexType, RequestInv
<1>3. UNCHANGED <<storeVars, instanceVars, acked, faults>>
  BY DEF Post, StartStream, EndStream, AskSize, ReadManifest, PlanSearch, Respond, countVars
<1>4. attempts' \in [Posted -> 0 .. MaxAttempts] /\ streams' \in 0 .. MaxStreams
  <2>1. ASSUME NEW e \in Posted, Post(t, e) PROVE attempts' \in [Posted -> 0 .. MaxAttempts]
    <3>1. attempts[e] \in 0 .. MaxAttempts /\ attempts[e] < MaxAttempts
      BY <2>1 DEF Post, Types
    <3>2. attempts[e] + 1 \in 0 .. MaxAttempts
      BY <3>1, BoundsAre
    <3>3. QED BY <2>1, <3>2 DEF Post, Types
  <2>2. ASSUME StartStream(t) PROVE streams' \in 0 .. MaxStreams
    BY <2>2 DEF StartStream, Types
  <2>3. ~StartStream(t) => streams' = streams
    BY DEF Post, EndStream, AskSize, ReadManifest, PlanSearch, Respond, countVars
  <2>4. (\E e \in Posted : Post(t, e)) \/ attempts' = attempts
    BY DEF StartStream, EndStream, AskSize, ReadManifest, PlanSearch, Respond, countVars
  <2>5. QED BY <2>1, <2>2, <2>3, <2>4 DEF Types
<1>5. UNCHANGED <<storeVars, up, ingestor>>
  BY <1>3 DEF instanceVars
<1>6. ASSUME NEW e \in Posted, Post(t, e) PROVE Moved
  <2> DEFINE r == [Idle EXCEPT !.at = "adding", !.job = "post", !.batch = <<e>>]
  <2>0. <<e>> \in Seq(Event)
    BY DEF Event
  <2>1. r \in RequestType /\ r.batch = <<e>> /\ r.at = "adding" /\ r.job = "post"
        /\ r.seen = EmptyManifest
    BY <2>0, IdleType DEF Idle, RequestType, Where, Job
  <2>2. q.at = "idle" /\ up[i] = "serving" /\ ingestor[i].open
    BY <1>6 DEF Post, Begin, At
  <2>3. request' = [request EXCEPT ![t] = r]
    BY <1>6 DEF Post
  <2> HIDE DEF r
  <2>4. QED
    BY <1>2, <1>5, <2>1, <2>2, <2>3, RequestMoves DEF Locked, Writers
<1>7. ASSUME StartStream(t) PROVE Moved
  <2> DEFINE r == [Idle EXCEPT !.at = "taking", !.job = "stream"]
  <2>1. r \in RequestType /\ r.at = "taking" /\ r.job = "stream" /\ r.seen = EmptyManifest
    BY IdleType DEF Idle, RequestType, Where, Job
  <2>2. q.at = "idle" /\ up[i] = "serving" /\ ingestor[i].open
    BY <1>7 DEF StartStream, Begin, At
  <2>3. request' = [request EXCEPT ![t] = r]
    BY <1>7 DEF StartStream
  <2> HIDE DEF r
  <2>4. QED
    BY <1>2, <1>5, <2>1, <2>2, <2>3, RequestMoves DEF Locked, Writers
<1>8. ASSUME EndStream(t) PROVE Moved
  <2> DEFINE r == [Idle EXCEPT !.at = "adding", !.job = "last",
                               !.batch = [k \in 1 .. 0 |-> feed[i].next + k - 1]]
  <2>1. r.batch \in Seq(Event)
    BY FeedBatch DEF Idle, Types, FeedType
  <2>2. r \in RequestType /\ r.at = "adding" /\ r.job = "last" /\ r.seen = EmptyManifest
    BY <2>1, IdleType DEF Idle, RequestType, Where, Job
  <2>3. q.at = "taking"
    BY <1>8 DEF EndStream, At
  <2>4. request' = [request EXCEPT ![t] = r]
    BY <1>8 DEF EndStream, Hand
  <2> HIDE DEF r
  <2>5. QED
    BY <1>1, <1>2, <1>5, <2>2, <2>3, <2>4, RequestMoves DEF RequestInv, Locked, Writing, Writers
<1>9. ASSUME AskSize(t) \/ ReadManifest(t) \/ PlanSearch(t) PROVE Moved
  <2>1. PICK m \in Manifest, place \in {"installing", "reading", "opening"} :
          /\ m \in {manifest, coordinator[i].cached}
          /\ request' = [request EXCEPT ![t].seen = m, ![t].at = place]
    BY <1>2, <1>9 DEF AskSize, ReadManifest, PlanSearch
  <2> DEFINE r == [[q EXCEPT !.seen = m] EXCEPT !.at = place]
  <2>2. r \in RequestType /\ r.at = place /\ r.seen = m /\ r.job = q.job /\ r.batch = q.batch
    BY <1>1 DEF RequestType, Where
  <2>3. request' = [request EXCEPT ![t] = r]
    BY <2>1 DEF Types
  <2>4. q.at \in {"sizing", "reading", "planning"}
    BY <1>9 DEF AskSize, ReadManifest, PlanSearch, At
  <2> HIDE DEF r
  <2>5. r.at \notin Locked /\ q.at \notin Locked /\ r.at \notin Writing
    BY <2>2, <2>4 DEF Locked, Writing
  <2>6. up[i] = "serving" /\ (r.job = "post" => \E e \in Posted : r.batch = <<e>>)
        /\ (r.job \in Writers => ingestor[i].open)
    BY <1>1, <2>2, <2>4 DEF RequestInv
  <2>7. Stored(r.seen.segments)
    BY <1>2, <2>1, <2>2
  <2>8. QED
    BY <1>5, <2>2, <2>3, <2>5, <2>6, <2>7, RequestMoves
<1>10. ASSUME Respond(t) PROVE Moved
  <2>1. q.at = "opening" /\ request' = [request EXCEPT ![t] = Idle]
    BY <1>10 DEF Respond, Answered, At
  <2>2. Idle \in RequestType /\ Idle.at = "idle" /\ Idle.job = "none"
        /\ Idle.seen = EmptyManifest
    BY IdleType DEF Idle
  <2>3. QED
    BY <1>1, <1>2, <1>5, <2>1, <2>2, RequestMoves DEF Locked, Writing, Writers
<1>11. Moved
  BY <1>6, <1>7, <1>8, <1>9, <1>10
<1>12. Types'
  BY <1>3, <1>4, <1>11 DEF Types, storeVars, instanceVars
<1>13. ShapeInv'
  BY <1>3, <1>11, InstancesKeepShape DEF ShapeInv, StoreInv, Stored, storeVars, instanceVars
<1>14. QED BY <1>12, <1>13
-----------------------------------------------------------------------------
\* A stored object is data, and data holds events.
LEMMA DataHoldsEvents ==
  /\ Types => \A s \in DOMAIN objects : objects[s] \in Data
  /\ \A d \in Data : Range(d) \subseteq Event
<1>1. ASSUME Types, NEW s \in DOMAIN objects PROVE objects[s] \in Data
  <2>1. Documents(s) \in SUBSET Nat
    BY <1>1 DEF Types, Documents, Segments
  <2>2. objects[s] \in [Documents(s) -> Event]
    BY <1>1 DEF Types
  <2>3. QED BY <2>1, <2>2 DEF Data
<1>2. ASSUME NEW d \in Data PROVE Range(d) \subseteq Event
  <2>1. PICK D \in SUBSET Nat : d \in [D -> Event]
    BY DEF Data
  <2>2. \A o \in DOMAIN d : d[o] \in Event
    BY <2>1
  <2>3. QED BY <2>2 DEF Range
<1>3. QED BY <1>1, <1>2

\* What it takes to be a coordinator's readers.
LEMMA ReadersAre ==
  /\ \A f \in Readers : DOMAIN f \subseteq Segments /\ \A s \in DOMAIN f : f[s] \in Data
  /\ \A S \in SUBSET Segments : \A f \in [S -> Data] : f \in Readers
BY DEF Readers

\* Keeping the readers of some segments keeps readers.
LEMMA RestrictedReaders ==
  ASSUME NEW f \in Readers, NEW S
  PROVE  Restrict(f, DOMAIN f \cap S) \in Readers
<1> DEFINE D == DOMAIN f \cap S
<1>1. D \in SUBSET Segments /\ \A s \in D : f[s] \in Data
  BY ReadersAre
<1>2. Restrict(f, D) = [s \in D |-> f[s]]
  BY DEF Restrict
<1> HIDE DEF D
<1>3. [s \in D |-> f[s]] \in [D -> Data]
  BY <1>1
<1>4. [s \in D |-> f[s]] \in Readers
  BY <1>1, <1>3, ReadersAre
<1>5. QED BY <1>2, <1>4 DEF D

\* Releasing the refresh flag is all that Checked does.
LEMMA CheckedType ==
  ASSUME NEW t, NEW c \in IndexType
  PROVE  /\ Checked(t, c) \in IndexType
         /\ Checked(t, c).cached = c.cached /\ Checked(t, c).readers = c.readers
BY DEF Checked, IndexType, Holder

\* A request that raises goes idle or on to its last flush.
LEMMA RaiseMoves ==
  ASSUME Types, ShapeInv, NEW t \in Threads, Raise(t),
         UNCHANGED <<storeVars, up, ingestor>>,
         request[t].at \notin {"idle"} \cup Locked
  PROVE  (request \in [Threads -> RequestType] /\ \A u \in Threads : RequestInv(u))'
<1> DEFINE last == [Idle EXCEPT !.at = "adding", !.job = "last"]
           r == IF request[t].job = "stream" THEN last ELSE Idle
<1>1. RequestInv(t) /\ Stored(EmptyManifest.segments)
  BY IdleType DEF ShapeInv, Stored
<1>2. /\ last \in RequestType /\ last.at = "adding" /\ last.job = "last"
      /\ last.seen = EmptyManifest
      /\ Idle \in RequestType /\ Idle.at = "idle" /\ Idle.job = "none"
      /\ Idle.seen = EmptyManifest
  BY IdleType DEF Idle, RequestType, Where, Job
<1>3. request' = [request EXCEPT ![t] = r]
  BY DEF Raise
<1> HIDE DEF last
<1>4. /\ r \in RequestType /\ r.at \in {"idle", "adding"} /\ r.job \in {"none", "last"}
      /\ r.seen = EmptyManifest
      /\ r.at = "adding" => r.job = "last"
      /\ r.job = "last" => request[t].job = "stream"
  BY <1>2
<1> HIDE DEF r
<1>5. r.at # "idle" => up[Serves[t]] = "serving"
  BY <1>1 DEF RequestInv
<1>6. r.job \in Writers => ingestor[Serves[t]].open
  BY <1>1, <1>4 DEF RequestInv, Writers
<1>7. r.at \in Writing => r.job \in Writers
  BY <1>4 DEF Writing, Writers
<1>8. r.at \notin Locked /\ r.job # "post" /\ Stored(r.seen.segments)
  BY <1>1, <1>4 DEF Locked
<1>9. QED BY <1>3, <1>4, <1>5, <1>6, <1>7, <1>8, RequestMoves

\* What is left to show once a coordinator has changed.
LEMMA CoordinatorMoves ==
  ASSUME Types, ShapeInv, NEW t \in Threads, NEW c \in IndexType,
         coordinator' = [coordinator EXCEPT ![Serves[t]] = c],
         Stored(c.cached.segments),
         UNCHANGED <<storeVars, up, ingestor, feed, attempts, streams>>,
         faults' \in 0 .. MaxFaults, acked' \in [Instances -> SUBSET Posted],
         (request \in [Threads -> RequestType] /\ \A u \in Threads : RequestInv(u))'
  PROVE  Types' /\ ShapeInv'
<1>1. coordinator' \in [Instances -> IndexType]
  BY DEF Types
<1>2. Types'
  BY <1>1 DEF Types, storeVars
<1>3. \A i \in Instances : \/ coordinator'[i].cached = coordinator[i].cached
                           \/ Stored(coordinator'[i].cached.segments)
  BY DEF Types, Stored, storeVars
<1>4. ShapeInv'
  BY <1>3, InstancesKeepShape DEF ShapeInv, StoreInv, Stored, storeVars
<1>5. QED BY <1>2, <1>4

\* Steps of requests at the coordinator.
LEMMA CoordinatorSteps ==
  ASSUME Types, ShapeInv, NEW t \in Threads,
         \/ Search(t) \/ Install(t) \/ Rebuild(t) \/ OpenReader(t)
         \/ ReadFails(t) \/ ReadTorn(t) \/ RebuildFails(t) \/ OpenFails(t)
  PROVE  Types' /\ ShapeInv'
<1> DEFINE i == Serves[t]
           q == request[t]
           c == coordinator[i]
           Moved == (request \in [Threads -> RequestType] /\ \A u \in Threads : RequestInv(u))'
<1>1. q \in RequestType /\ i \in Instances /\ c \in IndexType /\ RequestInv(t)
      /\ acked \in [Instances -> SUBSET Posted]
  BY DEF Types, ShapeInv
<1>2. Stored(c.cached.segments) /\ Stored(q.seen.segments) /\ Stored(EmptyManifest.segments)
  BY <1>1, IdleType DEF ShapeInv, RequestInv, Stored
<1>3. /\ UNCHANGED <<storeVars, up, ingestor, feed, attempts, streams>>
      /\ faults' \in 0 .. MaxFaults
  <2>1. UNCHANGED <<storeVars, up, ingestor, feed, attempts, streams>>
    BY DEF Search, Install, Rebuild, OpenReader, ReadFails, ReadTorn, RebuildFails, OpenFails,
           RefreshFails, countVars, instanceVars
  <2>2. Disturbance \/ faults' = faults
    BY DEF Search, Install, Rebuild, OpenReader, ReadFails, ReadTorn, RebuildFails, OpenFails,
           countVars
  <2>3. QED BY <2>1, <2>2, BoundsAre DEF Types, Disturbance
<1>4. ASSUME NEW place \in Where \ (Writing \cup {"idle"}), q.at \notin {"idle"} \cup Locked,
             NEW found \in SUBSET Event,
             request' = [request EXCEPT ![t] = [[q EXCEPT !.found = found] EXCEPT !.at = place]]
      PROVE  Moved
  <2> DEFINE r == [[q EXCEPT !.found = found] EXCEPT !.at = place]
  <2>1. /\ r \in RequestType /\ r.at = place /\ r.seen = q.seen
        /\ r.job = q.job /\ r.batch = q.batch
    BY <1>1 DEF RequestType
  <2>2. request' = [request EXCEPT ![t] = r]
    BY <1>4
  <2> HIDE DEF r
  <2>3. r.at \notin Locked /\ r.at \notin Writing /\ q.at \notin Locked
    BY <1>4, <2>1 DEF Locked, Writing
  <2>4. /\ up[i] = "serving" /\ (r.job = "post" => \E e \in Posted : r.batch = <<e>>)
        /\ (r.job \in Writers => ingestor[i].open)
    BY <1>1, <1>4, <2>1 DEF RequestInv
  <2>5. Stored(r.seen.segments)
    BY <1>2, <2>1
  <2>6. QED
    BY <1>3, <2>1, <2>2, <2>3, <2>4, <2>5, RequestMoves
<1>5. ASSUME NEW place \in Where \ (Writing \cup {"idle"}), q.at \notin {"idle"} \cup Locked,
             Go(t, place)
      PROVE  Moved
  <2>1. q.found \in SUBSET Event /\ [q EXCEPT !.found = q.found] = q
    BY <1>1 DEF RequestType
  <2>2. request' = [request EXCEPT ![t] = [[q EXCEPT !.found = q.found] EXCEPT !.at = place]]
    BY <1>5, <2>1 DEF Go, Types
  <2>3. QED BY <1>4, <1>5, <2>1, <2>2
<1>6. CASE Search(t)
  <2> DEFINE stale == ~c.fresh /\ c.checker = NoThread
             place == IF stale THEN "sizing" ELSE "planning"
             r == [Idle EXCEPT !.at = place, !.job = "search", !.due = acked[i]]
             n == [c EXCEPT !.checker = IF stale THEN t ELSE @]
  <2>1. place \in {"sizing", "planning"}
    OBVIOUS
  <2>2. acked[i] \in SUBSET Posted /\ n \in IndexType /\ n.cached = c.cached
    BY <1>1 DEF IndexType, Holder
  <2>3. coordinator' = [coordinator EXCEPT ![i] = n] /\ request' = [request EXCEPT ![t] = r]
    BY <1>6 DEF Search, Types
  <2>4. q.at = "idle" /\ up[i] = "serving" /\ acked' = acked
    BY <1>6 DEF Search, Begin, At
  <2> HIDE DEF place, n
  <2>5. r \in RequestType /\ r.at = place /\ r.job = "search" /\ r.seen = EmptyManifest
    BY <2>1, <2>2, IdleType DEF Idle, RequestType, Where, Job
  <2> HIDE DEF r
  <2>6. Moved
    BY <1>2, <1>3, <2>1, <2>3, <2>4, <2>5, RequestMoves DEF Locked, Writing, Writers
  <2>7. QED
    BY <1>1, <1>2, <1>3, <2>2, <2>3, <2>4, <2>6, CoordinatorMoves
<1>7. CASE Install(t)
  <2> DEFINE n == [c EXCEPT !.cached = q.seen]
  <2>1. n \in IndexType /\ n.cached = q.seen
    BY <1>1 DEF IndexType, RequestType
  <2>2. coordinator' = [coordinator EXCEPT ![i] = n] /\ acked' = acked
    BY <1>7 DEF Install, Types
  <2>3. q.at = "installing" /\ Go(t, "rebuilding")
    BY <1>7 DEF Install, At
  <2>4. Moved
    BY <1>5, <2>3 DEF Where, Writing, Locked
  <2> HIDE DEF n
  <2>5. QED
    BY <1>1, <1>2, <1>3, <2>1, <2>2, <2>4, CoordinatorMoves
<1>8. CASE OpenReader(t)
  <2>1. PICK s \in q.seen.segments :
          LET opened == [r \in DOMAIN c.readers \cup {s} |->
                           IF r \in DOMAIN c.readers THEN c.readers[r] ELSE objects[r]]
          IN /\ coordinator' = [coordinator EXCEPT ![i].readers = opened]
             /\ request' = [request EXCEPT ![t].seen.segments = @ \ {s},
                                           ![t].found = @ \cup Range(opened[s])]
    BY <1>8 DEF OpenReader
  <2> DEFINE S == DOMAIN c.readers \cup {s}
             opened == [r \in S |-> IF r \in DOMAIN c.readers THEN c.readers[r] ELSE objects[r]]
             n == [c EXCEPT !.readers = opened]
             found == q.found \cup Range(opened[s])
             left == [q.seen EXCEPT !.segments = @ \ {s}]
             r == [[q EXCEPT !.seen = left] EXCEPT !.found = found]
  <2>2. c.readers \in Readers /\ q.seen \in Manifest
    BY <1>1 DEF IndexType, RequestType
  <2>3. S \in SUBSET Segments /\ s \in DOMAIN objects
    BY <1>2, <2>2, ReadersAre DEF Manifest, Stored
  <2>4. ASSUME NEW x \in S PROVE opened[x] \in Data
    BY <2>2, <2>3, DataHoldsEvents, ReadersAre
  <2>5. coordinator' = [coordinator EXCEPT ![i] = n] /\ acked' = acked
    BY <1>8, <2>1 DEF OpenReader, Types
  <2>6. q.at = "opening"
    BY <1>8 DEF OpenReader, At
  <2>7. left \in Manifest /\ left.segments \subseteq q.seen.segments
    BY <2>2 DEF Manifest
  <2>8. opened \in [S -> Data] /\ opened[s] \in Data
    BY <2>4
  <2>9. request' = [request EXCEPT ![t] = r]
    <3> HIDE DEF opened
    <3>1. request' = [request EXCEPT ![t].seen.segments = @ \ {s},
                                     ![t].found = @ \cup Range(opened[s])]
      BY <2>1 DEF opened
    <3>2. QED BY <1>1, <3>1 DEF Types, RequestType
  <2> HIDE DEF opened, left
  <2>10. opened \in Readers
    BY <2>3, <2>8, ReadersAre
  <2>11. n \in IndexType /\ n.cached = c.cached
    BY <1>1, <2>10 DEF IndexType
  <2>12. found \in SUBSET Event
    BY <1>1, <2>8, DataHoldsEvents DEF RequestType
  <2> HIDE DEF n, found
  <2>13. /\ r \in RequestType /\ r.seen = left /\ r.at = q.at
         /\ r.job = q.job /\ r.batch = q.batch
    BY <1>1, <2>7, <2>12 DEF RequestType
  <2> HIDE DEF r
  <2>14. r.at \notin Locked /\ r.at \notin Writing /\ q.at \notin Locked
    BY <2>6, <2>13 DEF Locked, Writing
  <2>15. /\ up[i] = "serving" /\ (r.job = "post" => \E e \in Posted : r.batch = <<e>>)
         /\ (r.job \in Writers => ingestor[i].open)
    BY <1>1, <2>6, <2>13 DEF RequestInv
  <2>16. Stored(r.seen.segments)
    BY <1>2, <2>7, <2>13 DEF Stored
  <2>17. Moved
    BY <1>3, <2>9, <2>13, <2>14, <2>15, <2>16, RequestMoves
  <2>18. QED
    BY <1>1, <1>2, <1>3, <2>5, <2>11, <2>17, CoordinatorMoves
<1>9. CASE Rebuild(t)
  <2> DEFINE kept == Restrict(c.readers, DOMAIN c.readers \cap c.cached.segments)
             d == [c EXCEPT !.readers = kept]
             n == Checked(t, d)
             r == CASE q.job = "search" -> [q EXCEPT !.at = "planning"]
                    [] q.job = "stream" -> [Idle EXCEPT !.at = "taking", !.job = "stream"]
                    [] OTHER -> Idle
  <2>1. kept \in Readers
    BY <1>1, RestrictedReaders DEF IndexType
  <2>2. d \in IndexType /\ d.cached = c.cached
    BY <1>1, <2>1 DEF IndexType
  <2>3. n \in IndexType /\ n.cached = c.cached
    BY <2>2, CheckedType
  <2>4. coordinator' = [coordinator EXCEPT ![i] = n]
    BY <1>9, Zenon DEF Rebuild
  <2>5. q.at = "rebuilding" /\ request' = [request EXCEPT ![t] = r]
    BY <1>9 DEF Rebuild, Proceed, At, Types
  <2>6. acked' \in [Instances -> SUBSET Posted]
    <3>1. acked' = IF q.job = "post"
                   THEN [acked EXCEPT ![i] = @ \cup Range(q.batch)] ELSE acked
      BY <1>9 DEF Rebuild, Proceed
    <3>2. ASSUME q.job = "post" PROVE Range(q.batch) \subseteq Posted
      <4>1. PICK e \in Posted : q.batch = <<e>>
        BY <1>1, <3>2 DEF RequestInv
      <4>2. QED BY <4>1 DEF Range
    <3>3. QED BY <1>1, <3>1, <3>2
  <2>7. CASE q.job = "search"
    <3>1. Go(t, "planning")
      BY <2>5, <2>7 DEF Go, Types
    <3>2. Moved
      BY <1>5, <2>5, <3>1 DEF Where, Writing, Locked
    <3> HIDE DEF n
    <3>3. QED BY <1>1, <1>2, <1>3, <2>3, <2>4, <2>6, <3>2, CoordinatorMoves
  <2>8. CASE q.job # "search"
    <3> DEFINE next == [Idle EXCEPT !.at = "taking", !.job = "stream"]
    <3>1. /\ next \in RequestType /\ next.at = "taking" /\ next.job = "stream"
          /\ next.seen = EmptyManifest
          /\ Idle \in RequestType /\ Idle.at = "idle" /\ Idle.job = "none"
          /\ Idle.seen = EmptyManifest
      BY IdleType DEF Idle, RequestType, Where, Job
    <3>2. r = IF q.job = "stream" THEN next ELSE Idle
      BY <2>8
    <3> HIDE DEF next, r
    <3>3. /\ r \in RequestType /\ r.seen = EmptyManifest /\ r.at \in {"idle", "taking"}
          /\ r.job \in {"none", "stream"} /\ (r.job = "stream" => q.job = "stream")
          /\ (r.at = "taking" => r.job = "stream")
      BY <3>1, <3>2
    <3>4. /\ up[i] = "serving" /\ (r.job \in Writers => ingestor[i].open)
          /\ (r.at \in Writing => r.job \in Writers)
      BY <1>1, <2>5, <3>3 DEF RequestInv, Writers, Writing
    <3>5. r.at \notin Locked /\ q.at \notin Locked /\ r.job # "post" /\ Stored(r.seen.segments)
      BY <1>2, <2>5, <3>3 DEF Locked
    <3>6. Moved
      BY <1>3, <2>5, <3>3, <3>4, <3>5, RequestMoves
    <3> HIDE DEF n
    <3>7. QED BY <1>1, <1>2, <1>3, <2>3, <2>4, <2>6, <3>6, CoordinatorMoves
  <2>9. QED BY <2>7, <2>8
<1>10. CASE ReadFails(t) \/ ReadTorn(t) \/ RebuildFails(t)
  <2>1. q.at \in {"sizing", "reading", "rebuilding"} /\ RefreshFails(t)
    BY <1>10 DEF ReadFails, ReadTorn, RebuildFails, At
  <2>2. Checked(t, c) \in IndexType /\ Checked(t, c).cached = c.cached
    BY <1>1, CheckedType
  <2>3. coordinator' = [coordinator EXCEPT ![i] = Checked(t, c)] /\ acked' = acked
    BY <2>1 DEF RefreshFails, Types
  <2>4. Moved
    <3>1. CASE q.job = "search"
      BY <1>5, <2>1, <3>1 DEF RefreshFails, Where, Writing, Locked
    <3>2. CASE q.job # "search"
      <4>1. Raise(t) /\ q.at \notin {"idle"} \cup Locked
        BY <2>1, <3>2 DEF RefreshFails, Locked
      <4>2. QED BY <1>3, <4>1, RaiseMoves
    <3>3. QED BY <3>1, <3>2
  <2>5. QED
    BY <1>1, <1>2, <1>3, <2>2, <2>3, <2>4, CoordinatorMoves
<1>11. CASE OpenFails(t)
  <2>1. Raise(t) /\ q.at \notin {"idle"} \cup Locked
    BY <1>11 DEF OpenFails, At, Locked
  <2>2. Moved
    BY <1>3, <2>1, RaiseMoves
  <2>3. coordinator' = [coordinator EXCEPT ![i] = c] /\ acked' = acked
    BY <1>11 DEF OpenFails, Types, instanceVars
  <2>4. QED
    BY <1>1, <1>2, <1>3, <2>2, <2>3, CoordinatorMoves
<1>12. QED
  BY <1>6, <1>7, <1>8, <1>9, <1>10, <1>11

\* What Take and TakeFails take is there to be taken.
LEMMA TakenWithinFeed ==
  ASSUME NEW i \in Instances, feed[i].next \in 0 .. FeedLength
  PROVE  Min({Batch, IF feed[i].dry THEN InChunk(i) ELSE FeedLength - feed[i].next})
           \in 0 .. FeedLength - feed[i].next
<1> DEFINE left == FeedLength - feed[i].next
           part == InChunk(i)
           there == IF feed[i].dry THEN part ELSE left
<1>1. left \in Nat /\ part \in 0 .. left
  BY ChunkWithinFeed
<1> HIDE DEF left, part
<1>2. there \in Int /\ there \in 0 .. left /\ Batch \in Int /\ Batch > 0
  BY <1>1, BoundsAre
<1> HIDE DEF there
<1>3. Min({Batch, there}) \in {Batch, there} /\ Min({Batch, there}) <= there
  BY <1>2, MinOfTwo, Zenon
<1>4. Min({Batch, there}) \in 0 .. left
  BY <1>1, <1>2, <1>3
<1>5. QED BY <1>4 DEF there, left, part

\* Steps of a stream at the feed.
LEMMA FeedSteps ==
  ASSUME Types, ShapeInv, NEW t \in Threads, Take(t) \/ TakeFails(t)
  PROVE  Types' /\ ShapeInv'
<1> DEFINE i == Serves[t]
           q == request[t]
           g == feed[i]
<1>1. q \in RequestType /\ i \in Instances /\ g \in FeedType /\ RequestInv(t)
      /\ g.next \in 0 .. FeedLength /\ faults \in 0 .. MaxFaults
  BY DEF Types, ShapeInv, FeedType
<1>2. PICK n \in 0 .. FeedLength - g.next :
        feed' \in [Instances -> FeedType] /\ Hand(t, n)
  <2>1. CASE Take(t)
    <3> DEFINE n == Min({Batch, IF g.dry THEN InChunk(i) ELSE FeedLength - g.next})
    <3>1. n \in 0 .. FeedLength - g.next
      BY <1>1, TakenWithinFeed
    <3>2. feed' = [feed EXCEPT ![i].next = @ + n] /\ Hand(t, n)
      BY <2>1 DEF Take
    <3> HIDE DEF n
    <3>3. g.next + n \in 0 .. FeedLength
      BY <1>1, <3>1, BoundsAre
    <3>4. feed \in [Instances -> FeedType] /\ i \in Instances
      BY <1>1 DEF Types
    <3>5. feed' \in [Instances -> FeedType]
      <4> HIDE DEF i
      <4>1. QED BY <3>2, <3>3, <3>4 DEF FeedType
    <3>6. QED BY <3>1, <3>2, <3>5
  <2>2. CASE TakeFails(t)
    <3> DEFINE n == InChunk(i)
    <3>1. n \in 0 .. FeedLength - g.next
      BY <1>1, ChunkWithinFeed
    <3>2. feed' = [feed EXCEPT ![i].next = @ + n, ![i].dry = TRUE] /\ Hand(t, n)
      BY <2>2 DEF TakeFails
    <3> HIDE DEF n
    <3>3. g.next + n \in 0 .. FeedLength
      BY <1>1, <3>1, BoundsAre
    <3>4. feed \in [Instances -> FeedType] /\ i \in Instances
      BY <1>1 DEF Types
    <3>5. feed' \in [Instances -> FeedType]
      <4> HIDE DEF i
      <4>1. QED BY <3>2, <3>3, <3>4 DEF FeedType
    <3>6. QED BY <3>1, <3>2, <3>5
  <2>3. QED BY <2>1, <2>2
<1>3. UNCHANGED <<storeVars, up, ingestor, coordinator, acked, attempts, streams>>
      /\ q.at = "taking"
  BY DEF Take, TakeFails, countVars, At
<1>4. faults' \in 0 .. MaxFaults
  <2>1. faults' = faults \/ Disturbance
    BY DEF Take, TakeFails, countVars
  <2>2. QED BY <1>1, <2>1, BoundsAre DEF Disturbance
<1> DEFINE batch == [k \in 1 .. n |-> g.next + k - 1]
           job == IF n = 0 THEN "last" ELSE "stream"
           r == [Idle EXCEPT !.at = "adding", !.job = job, !.batch = batch]
<1>5. n \in Nat /\ g.next \in Nat /\ g.next + n <= FeedLength
  BY <1>1, <1>2, BoundsAre
<1>6. batch \in Seq(Event)
  BY <1>5, FeedBatch
<1>7. job \in {"last", "stream"}
  OBVIOUS
<1>8. request' = [request EXCEPT ![t] = r]
  BY <1>2 DEF Hand
<1> HIDE DEF batch, job
<1>9. r \in RequestType /\ r.at = "adding" /\ r.job \in {"last", "stream"}
      /\ r.seen = EmptyManifest
  BY <1>6, <1>7, IdleType DEF Idle, RequestType, Where, Job
<1> HIDE DEF r
<1>10. up[i] = "serving" /\ ingestor[i].open
  BY <1>1, <1>3 DEF RequestInv, Writing
<1>11. r.at \notin Locked /\ q.at \notin Locked /\ r.job \in Writers /\ Stored(r.seen.segments)
  BY <1>3, <1>9, IdleType DEF Locked, Writers, Stored
<1>12. (request \in [Threads -> RequestType] /\ \A u \in Threads : RequestInv(u))'
  BY <1>3, <1>8, <1>9, <1>10, <1>11, RequestMoves
<1>13. Types'
  BY <1>2, <1>3, <1>4, <1>12 DEF Types, storeVars
<1>14. ShapeInv'
  BY <1>3, <1>12, InstancesKeepShape DEF ShapeInv, StoreInv, Stored, storeVars
<1>15. QED BY <1>13, <1>14

\* A buffer that holds something seals into a segment with its contents.
LEMMA SealedType ==
  ASSUME Types, NEW i \in Instances, ingestor[i].buffer # <<>>
  PROVE  /\ Sealed(i) \in Segments
         /\ Sealed(i).first = ingestor[i].start
         /\ Sealed(i).last = ingestor[i].start + Len(ingestor[i].buffer) - 1
         /\ Sealed(i).first <= Sealed(i).last
         /\ Contents(i) \in [Documents(Sealed(i)) -> Event]
<1> DEFINE start == ingestor[i].start
           buffer == ingestor[i].buffer
           size == Len(buffer)
<1>1. start \in Nat /\ buffer \in Seq(Event) /\ buffer # <<>>
  BY DEF Types, IngestorType
<1>2. size \in Nat /\ size >= 1
  BY <1>1, EmptySeq, LenProperties
<1>3. \A k \in 1 .. size : buffer[k] \in Event
  BY <1>1, ElementOfSeq
<1>4. Sealed(i) = [first |-> start, last |-> start + size - 1]
  BY DEF Sealed, Segment
<1> HIDE DEF size, start, buffer
<1>5. Sealed(i) \in Segments /\ Sealed(i).first <= Sealed(i).last
      /\ Sealed(i).first = start /\ Sealed(i).last = start + size - 1
  BY <1>1, <1>2, <1>4 DEF Segments
<1>6. ASSUME NEW o \in Documents(Sealed(i)) PROVE buffer[o - start + 1] \in Event
  <2>1. o - start + 1 \in 1 .. size
    BY <1>1, <1>2, <1>5 DEF Documents
  <2>2. QED BY <1>3, <2>1
<1>7. Contents(i) = [o \in Documents(Sealed(i)) |-> buffer[o - start + 1]]
  BY DEF Contents, start, buffer
<1>8. Contents(i) \in [Documents(Sealed(i)) -> Event]
  BY <1>6, <1>7
<1>9. QED BY <1>5, <1>8 DEF size, start, buffer

\* Storing a segment adds its object, in its type.
LEMMA StoreSegmentType ==
  ASSUME Types, NEW i \in Instances, ingestor[i].buffer # <<>>, StoreSegment(i)
  PROVE  /\ DOMAIN objects' = DOMAIN objects \cup {Sealed(i)}
         /\ DOMAIN objects' \subseteq Segments
         /\ \A s \in DOMAIN objects' : objects'[s] \in [Documents(s) -> Event]
<1>1. DOMAIN objects' = DOMAIN objects \cup {Sealed(i)}
  BY DEF StoreSegment
<1>2. Sealed(i) \in Segments /\ Contents(i) \in [Documents(Sealed(i)) -> Event]
  BY SealedType
<1>3. \A s \in DOMAIN objects' : objects'[s] = IF s = Sealed(i) THEN Contents(i) ELSE objects[s]
  BY DEF StoreSegment
<1>4. ASSUME NEW s \in DOMAIN objects' PROVE objects'[s] \in [Documents(s) -> Event]
  <2>1. CASE s = Sealed(i)
    BY <1>2, <1>3, <2>1
  <2>2. CASE s # Sealed(i)
    BY <1>1, <1>3, <2>2 DEF Types
  <2>3. QED BY <2>1, <2>2
<1>5. QED
  BY <1>1, <1>2, <1>4 DEF Types

\* A request that works on its open ingestor, with the lock free or its own.
LEMMA IngestorMoves ==
  ASSUME Types, ShapeInv, NEW t \in Threads, NEW r \in RequestType, NEW g \in IngestorType,
         request' = [request EXCEPT ![t] = r],
         ingestor' = [ingestor EXCEPT ![Serves[t]] = g],
         UNCHANGED <<up, coordinator>>,
         DOMAIN objects \subseteq DOMAIN objects', StoreInv',
         up[Serves[t]] = "serving", ingestor[Serves[t]].open, g.open,
         ingestor[Serves[t]].holder \in {NoThread, t},
         g.holder = IF r.at \in Locked THEN t ELSE NoThread,
         r.at \in Locked => g.buffer # <<>>,
         g.view.segments \subseteq DOMAIN objects', Bounded(g.view.segments),
         r.at \in Writing => r.job \in Writers,
         r.job = "post" => \E e \in Posted : r.batch = <<e>>,
         r.seen.segments \subseteq DOMAIN objects',
         r.at = "publishing" =>
           Segment(g.start, g.start + Len(g.buffer) - 1) \in DOMAIN objects'
  PROVE  /\ request' \in [Threads -> RequestType] /\ ingestor' \in [Instances -> IngestorType]
         /\ ShapeInv'
<1> DEFINE i == Serves[t]
<1>1. /\ i \in Instances /\ t # NoThread
      /\ request' \in [Threads -> RequestType] /\ ingestor' \in [Instances -> IngestorType]
      /\ request'[t] = r /\ ingestor'[i] = g
      /\ \A u \in Threads : u # t => request'[u] = request[u]
      /\ \A j \in Instances : j # i => ingestor'[j] = ingestor[j]
  BY DEF Types
<1>2. ASSUME NEW u \in Threads, u # t PROVE RequestInv(u)'
  <2>1. CASE Serves[u] = i
    <3>1. g.holder \in {NoThread, t}
      OBVIOUS
    <3>2. QED
      BY <1>1, <1>2, <2>1, <3>1, OthersKeepShape
  <2>2. CASE Serves[u] # i
    <3>1. ingestor'[Serves[u]] = ingestor[Serves[u]]
      BY <1>1, <2>2
    <3>2. QED
      BY <1>1, <1>2, <3>1, OthersKeepShape
  <2>3. QED BY <2>1, <2>2
<1>3. RequestInv(t)'
  BY <1>1 DEF RequestInv, Sealed, Stored
<1>4. ASSUME NEW j \in Instances PROVE IngestorInv(j)'
  <2>1. CASE j = i
    <3>1. g.holder # NoThread => g.holder = t /\ g.buffer # <<>>
      OBVIOUS
    <3>2. QED BY <1>1, <2>1, <3>1 DEF IngestorInv, Stored
  <2>2. CASE j # i
    <3>1. IngestorInv(j)
      BY DEF ShapeInv
    <3>2. QED BY <1>1, <2>2, <3>1 DEF IngestorInv, Stored
  <2>3. QED BY <2>1, <2>2
<1>5. \A j \in Instances : Stored(coordinator[j].cached.segments)'
  BY DEF ShapeInv, Stored
<1>6. QED BY <1>1, <1>2, <1>3, <1>4, <1>5 DEF ShapeInv

\* The fields an ingestor and a request keep their types in.
LEMMA IngestorFields ==
  ASSUME NEW g \in IngestorType, NEW view \in Manifest, NEW start \in Nat,
         NEW buffer \in Seq(Event), NEW holder \in Holder
  PROVE  /\ [g EXCEPT !.buffer = buffer, !.holder = holder] \in IngestorType
         /\ [g EXCEPT !.view = view, !.holder = holder] \in IngestorType
         /\ [g EXCEPT !.holder = holder] \in IngestorType
         /\ [g EXCEPT !.view = view, !.start = start, !.buffer = buffer, !.holder = holder]
              \in IngestorType
BY DEF IngestorType

\* A request that raises in the ingestor goes idle or on to its last flush.
LEMMA RaiseInIngestor ==
  ASSUME Types, ShapeInv, NEW t \in Threads, Raise(t),
         request[t].at \in Writing
  PROVE  \E r \in RequestType :
           /\ request' = [request EXCEPT ![t] = r]
           /\ r.at \in {"idle", "adding"} /\ r.job \in {"none", "last"}
           /\ r.at = "adding" => r.job = "last"
           /\ r.seen = EmptyManifest
<1> DEFINE last == [Idle EXCEPT !.at = "adding", !.job = "last"]
           r == IF request[t].job = "stream" THEN last ELSE Idle
<1>1. /\ last \in RequestType /\ last.at = "adding" /\ last.job = "last"
      /\ last.seen = EmptyManifest
      /\ Idle \in RequestType /\ Idle.at = "idle" /\ Idle.job = "none"
      /\ Idle.seen = EmptyManifest
  BY IdleType DEF Idle, RequestType, Where, Job
<1>2. request' = [request EXCEPT ![t] = r]
  BY DEF Raise
<1> HIDE DEF last
<1>3. /\ r \in RequestType /\ r.at \in {"idle", "adding"} /\ r.job \in {"none", "last"}
      /\ r.at = "adding" => r.job = "last"
      /\ r.seen = EmptyManifest
  BY <1>1
<1> HIDE DEF r
<1>4. QED BY <1>2, <1>3

\* What a request at work on its ingestor can rely on.
LEMMA AtTheIngestor ==
  ASSUME Types, ShapeInv, NEW t \in Threads, request[t].at \in Writing
  PROVE  /\ up[Serves[t]] = "serving" /\ ingestor[Serves[t]].open
         /\ ingestor[Serves[t]] \in IngestorType
         /\ Stored(ingestor[Serves[t]].view.segments)
         /\ Bounded(ingestor[Serves[t]].view.segments)
         /\ request[t].at \in Locked => /\ ingestor[Serves[t]].holder = t
                                        /\ ingestor[Serves[t]].buffer # <<>>
                                        /\ Sealed(Serves[t]) \in Segments
<1>1. RequestInv(t) /\ IngestorInv(Serves[t]) /\ ingestor[Serves[t]] \in IngestorType
      /\ t # NoThread
  BY DEF ShapeInv, Types
<1>2. QED
  BY <1>1, SealedType DEF RequestInv, IngestorInv, Writing, Writers, Locked

\* Publishing what is stored keeps a live set stored.
LEMMA StoredPublish ==
  ASSUME NEW m \in Manifest, NEW s \in Segments, Stored(m.segments), s \in DOMAIN objects
  PROVE  Stored(Publish(m, s).segments)
BY PublishSegments DEF Stored, Kept

\* Steps of a request at its ingestor.
LEMMA WriterSteps ==
  ASSUME Types, ShapeInv, NEW t \in Threads,
         Add(t) \/ PutSegment(t) \/ PutManifest(t) \/ PutFails(t)
  PROVE  Types' /\ ShapeInv'
<1> DEFINE i == Serves[t]
           q == request[t]
           g == ingestor[i]
           Moved == /\ request' \in [Threads -> RequestType]
                    /\ ingestor' \in [Instances -> IngestorType]
                    /\ ShapeInv'
<1>1. q \in RequestType /\ i \in Instances /\ g \in IngestorType
      /\ RequestInv(t) /\ StoreInv /\ g.view \in Manifest /\ q.batch \in Seq(Event)
  BY DEF Types, ShapeInv, RequestType, IngestorType
<1>2. q.at \in Writing
  BY DEF Add, PutSegment, PutManifest, PutFails, At, Writing
<1>3. /\ up[i] = "serving" /\ g.open
      /\ Stored(g.view.segments) /\ Bounded(g.view.segments)
      /\ q.at \in Locked => g.holder = t /\ g.buffer # <<>> /\ Sealed(i) \in Segments
  BY <1>2, AtTheIngestor
<1>4. UNCHANGED <<up, feed, coordinator, acked, attempts, streams>>
  BY DEF Add, PutSegment, PutManifest, PutFails, instanceVars, countVars
<1>5. UNCHANGED <<up, coordinator>>
  BY <1>4
<1>6. q.at \in Locked /\ g.view \in Manifest =>
        /\ Publish(g.view, Sealed(i)) \in Manifest
        /\ Bounded(Publish(g.view, Sealed(i)).segments)
  BY <1>3, PublishType, BoundedPublish
<1>7. Stored(q.seen.segments) /\ Stored(EmptyManifest.segments)
  BY <1>1, IdleType DEF RequestInv, Stored
<1>8. ASSUME Add(t) PROVE Moved /\ UNCHANGED <<objects, manifest, faults>>
  <2> DEFINE grown == g.buffer \o q.batch
             seals == grown # <<>> /\ (q.job # "stream" \/ Len(grown) >= SegmentDocs)
             holder == IF seals THEN t ELSE NoThread
             h == [g EXCEPT !.buffer = grown, !.holder = holder]
             toSeal == [q EXCEPT !.at = "sealing"]
             toTake == [q EXCEPT !.at = "taking", !.batch = <<>>]
             r == IF seals THEN toSeal ELSE IF q.job = "stream" THEN toTake ELSE Idle
  <2>1. grown \in Seq(Event)
    BY <1>1, ConcatProperties DEF IngestorType
  <2>2. g.holder = NoThread /\ q.at = "adding" /\ UNCHANGED <<objects, manifest, faults>>
    BY <1>8 DEF Add, At, storeVars, countVars
  <2>3. ingestor' = [ingestor EXCEPT ![i] = h]
    BY <1>8, <1>1 DEF Add, Types
  <2>4. request' = [request EXCEPT ![t] = r]
    BY <1>8 DEF Add
  <2>5. <<>> \in Seq(Event)
    BY EmptySeq
  <2>6. /\ toSeal \in RequestType /\ toSeal.at = "sealing" /\ toSeal.job = q.job
        /\ toSeal.batch = q.batch /\ toSeal.seen = q.seen
        /\ toTake \in RequestType /\ toTake.at = "taking" /\ toTake.job = q.job
        /\ toTake.seen = q.seen
        /\ Idle \in RequestType /\ Idle.at = "idle" /\ Idle.job = "none"
        /\ Idle.seen = EmptyManifest
    BY <1>1, <2>5, IdleType DEF RequestType, Where, Idle
  <2> HIDE DEF grown
  <2>7. seals \in BOOLEAN /\ (seals => grown # <<>>) /\ holder \in Holder
    BY DEF Holder
  <2> HIDE DEF seals, toSeal, toTake
  <2>8. /\ r \in RequestType /\ r.at \in {"sealing", "taking", "idle"}
        /\ r.at = "sealing" <=> seals
        /\ r.at = "taking" => r.job = "stream"
        /\ r.at = "sealing" => r.job = q.job /\ r.batch = q.batch
        /\ r.seen \in {q.seen, EmptyManifest}
        /\ r.job = "post" => q.job = "post" /\ r.batch = q.batch
    BY <2>6
  <2>9. h \in IngestorType /\ h.open = g.open /\ h.view = g.view /\ h.buffer = grown
        /\ h.holder = holder
    BY <1>1, <2>1, <2>7, IngestorFields DEF IngestorType
  <2>10. h.holder = IF r.at \in Locked THEN t ELSE NoThread
    BY <2>8, <2>9 DEF Locked
  <2> HIDE DEF h, r, holder
  <2>11. r.at \in Writing => r.job \in Writers
    BY <1>1, <1>2, <2>8 DEF RequestInv, Writing, Writers
  <2>12. r.job = "post" => \E e \in Posted : r.batch = <<e>>
    BY <1>1, <2>8 DEF RequestInv
  <2>13. StoreInv' /\ DOMAIN objects \subseteq DOMAIN objects'
         /\ h.view.segments \subseteq DOMAIN objects' /\ r.seen.segments \subseteq DOMAIN objects'
    BY <1>1, <1>3, <1>7, <2>2, <2>8, <2>9 DEF StoreInv, Stored
  <2>14. h.open /\ Bounded(h.view.segments) /\ g.holder \in {NoThread, t}
         /\ (r.at \in Locked => h.buffer # <<>>) /\ r.at # "publishing"
    BY <1>3, <2>2, <2>7, <2>8, <2>9 DEF Locked
  <2>15. Moved
    BY <1>3, <1>5, <2>3, <2>4, <2>8, <2>9, <2>10, <2>11, <2>12, <2>13, <2>14, IngestorMoves
  <2>16. QED BY <2>2, <2>15
<1>9. ASSUME PutSegment(t) PROVE Moved /\ StoreSegment(i) /\ UNCHANGED <<manifest, faults>>
  <2> DEFINE r == [q EXCEPT !.at = "publishing"]
  <2>1. q.at = "sealing" /\ StoreSegment(i) /\ UNCHANGED <<manifest, faults, ingestor>>
    BY <1>9 DEF PutSegment, At, instanceVars, countVars
  <2>2. request' = [request EXCEPT ![t] = r]
    BY <1>9 DEF PutSegment, Go, Types
  <2>3. r \in RequestType /\ r.at = "publishing" /\ r.job = q.job /\ r.batch = q.batch
        /\ r.seen = q.seen
    BY <1>1 DEF RequestType, Where
  <2>4. ingestor' = [ingestor EXCEPT ![i] = g]
    BY <2>1 DEF Types
  <2> HIDE DEF r
  <2>5. g.holder = t /\ g.buffer # <<>>
    BY <1>3, <2>1 DEF Locked
  <2>6. DOMAIN objects' = DOMAIN objects \cup {Sealed(i)}
    BY <1>1, <2>1, <2>5, StoreSegmentType
  <2>7. StoreInv' /\ DOMAIN objects \subseteq DOMAIN objects'
        /\ g.view.segments \subseteq DOMAIN objects' /\ r.seen.segments \subseteq DOMAIN objects'
        /\ Segment(g.start, g.start + Len(g.buffer) - 1) \in DOMAIN objects'
    BY <1>1, <1>3, <1>7, <2>1, <2>3, <2>6 DEF StoreInv, Stored, Sealed
  <2>8. (r.at \in Writing => r.job \in Writers)
        /\ (r.job = "post" => \E e \in Posted : r.batch = <<e>>)
        /\ g.holder = IF r.at \in Locked THEN t ELSE NoThread
    BY <1>1, <1>2, <2>3, <2>5 DEF RequestInv, Locked
  <2>9. Moved
    BY <1>1, <1>3, <1>5, <2>2, <2>3, <2>4, <2>5, <2>7, <2>8, IngestorMoves
  <2>10. QED BY <2>1, <2>9
<1>10. ASSUME PutManifest(t)
       PROVE  Moved /\ manifest' \in Manifest /\ UNCHANGED <<objects, faults>>
  <2> DEFINE view == Publish(g.view, Sealed(i))
             start == Sealed(i).last + 1
             h == [g EXCEPT !.view = view, !.start = start, !.buffer = <<>>,
                            !.holder = NoThread]
             r == [q EXCEPT !.at = "sizing"]
  <2>1. q.at = "publishing" /\ UNCHANGED <<objects, faults>>
    BY <1>10 DEF PutManifest, At, countVars
  <2>2. g.holder = t /\ Sealed(i) \in Segments /\ Sealed(i) \in DOMAIN objects
    BY <1>1, <1>3, <2>1 DEF Locked, RequestInv
  <2>3. view \in Manifest /\ Bounded(view.segments) /\ Stored(view.segments)
        /\ start \in Nat
    BY <1>1, <1>3, <1>6, <2>1, <2>2, StoredPublish DEF Locked, Segments
  <2>4. <<>> \in Seq(Event) /\ NoThread \in Holder
    BY EmptySeq DEF Holder
  <2>5. ingestor' = [ingestor EXCEPT ![i] = h]
    BY <1>1, <1>10 DEF PutManifest, Types
  <2> HIDE DEF view, start
  <2>6. h \in IngestorType /\ h.open = g.open /\ h.view = view /\ h.holder = NoThread
    BY <1>1, <2>3, <2>4, IngestorFields DEF IngestorType
  <2>7. manifest' = view
    <3>1. manifest' = ingestor'[i].view
      BY <1>10 DEF PutManifest
    <3> HIDE DEF h
    <3>2. QED BY <1>1, <2>5, <2>6, <3>1 DEF Types
  <2>8. request' = [request EXCEPT ![t] = r]
    BY <1>10 DEF PutManifest, Go, Types
  <2>9. r \in RequestType /\ r.at = "sizing" /\ r.job = q.job /\ r.batch = q.batch
        /\ r.seen = q.seen
    BY <1>1 DEF RequestType, Where
  <2> HIDE DEF h, r
  <2>10. StoreInv' /\ DOMAIN objects \subseteq DOMAIN objects'
         /\ h.view.segments \subseteq DOMAIN objects' /\ r.seen.segments \subseteq DOMAIN objects'
    BY <1>7, <2>1, <2>3, <2>6, <2>7, <2>9 DEF StoreInv, Stored
  <2>11. h.open /\ Bounded(h.view.segments) /\ r.at \notin Writing /\ r.at \notin Locked
         /\ (r.job = "post" => \E e \in Posted : r.batch = <<e>>)
    BY <1>1, <1>3, <2>3, <2>6, <2>9 DEF RequestInv, Locked, Writing
  <2>12. Moved
    BY <1>3, <1>5, <2>2, <2>5, <2>6, <2>8, <2>9, <2>10, <2>11, IngestorMoves
  <2>13. QED BY <2>1, <2>3, <2>7, <2>12
<1>11. ASSUME PutFails(t)
       PROVE  /\ Moved /\ manifest' \in Manifest /\ Disturbance
              /\ UNCHANGED objects \/ StoreSegment(i)
  <2>1. Raise(t) /\ Disturbance /\ q.at \in Locked
    BY <1>11 DEF PutFails, At, Locked
  <2>2. PICK r \in RequestType :
          /\ request' = [request EXCEPT ![t] = r]
          /\ r.at \in {"idle", "adding"} /\ r.job \in {"none", "last"}
          /\ r.at = "adding" => r.job = "last"
          /\ r.seen = EmptyManifest
    BY <1>2, <2>1, RaiseInIngestor
  <2>3. g.holder = t /\ g.buffer # <<>> /\ Sealed(i) \in Segments
    BY <1>3, <2>1
  <2>4. /\ r.at \in Writing => r.job \in Writers
        /\ r.at \notin Locked /\ r.job # "post"
    BY <2>2 DEF Writing, Writers, Locked
  <2>5. NoThread \in Holder
    BY DEF Holder
  <2>6. CASE q.at = "sealing"
    <3> DEFINE h == [g EXCEPT !.holder = NoThread]
    <3>1. ingestor' = [ingestor EXCEPT ![i] = h] /\ UNCHANGED manifest
          /\ (UNCHANGED objects \/ StoreSegment(i))
      BY <1>1, <1>11, <2>6 DEF PutFails, At, Types
    <3>2. h \in IngestorType /\ h.open = g.open /\ h.view = g.view /\ h.holder = NoThread
      BY <1>1, <2>5, IngestorFields DEF IngestorType
    <3> HIDE DEF h
    <3>3. DOMAIN objects \subseteq DOMAIN objects'
      BY <1>1, <2>3, <3>1, StoreSegmentType
    <3>4. StoreInv' /\ h.view.segments \subseteq DOMAIN objects' /\ r.seen.segments \subseteq DOMAIN objects'
          /\ Bounded(h.view.segments)
      BY <1>1, <1>3, <1>7, <2>2, <3>1, <3>2, <3>3 DEF StoreInv, Stored
    <3>5. Moved
      BY <1>3, <1>5, <2>2, <2>3, <2>4, <3>1, <3>2, <3>3, <3>4, IngestorMoves DEF Locked
    <3>6. QED BY <2>1, <2>3, <3>1, <3>5 DEF Types
  <2>7. CASE q.at = "publishing"
    <3> DEFINE view == Publish(g.view, Sealed(i))
               h == [g EXCEPT !.view = view, !.holder = NoThread]
    <3>1. ingestor' = [ingestor EXCEPT ![i] = h] /\ UNCHANGED objects
          /\ (UNCHANGED manifest \/ manifest' = ingestor'[i].view)
      BY <1>1, <1>11, <2>7 DEF PutFails, At, Types
    <3>2. Sealed(i) \in DOMAIN objects
      BY <1>1, <2>7 DEF RequestInv
    <3>3. view \in Manifest /\ Bounded(view.segments) /\ Stored(view.segments)
      BY <1>1, <1>3, <1>6, <2>1, <2>3, <3>2, StoredPublish
    <3> HIDE DEF view
    <3>4. h \in IngestorType /\ h.open = g.open /\ h.view = view /\ h.holder = NoThread
      BY <1>1, <2>5, <3>3, IngestorFields DEF IngestorType
    <3> HIDE DEF h
    <3>5. manifest' \in {manifest, view}
      BY <1>1, <3>1, <3>4 DEF Types
    <3>6. DOMAIN objects \subseteq DOMAIN objects'
      BY <3>1
    <3>7. StoreInv' /\ h.view.segments \subseteq DOMAIN objects' /\ r.seen.segments \subseteq DOMAIN objects'
          /\ Bounded(h.view.segments)
      BY <1>1, <1>7, <2>2, <3>1, <3>3, <3>4, <3>5 DEF StoreInv, Stored
    <3>8. Moved
      BY <1>3, <1>5, <2>2, <2>3, <2>4, <3>1, <3>4, <3>6, <3>7, IngestorMoves DEF Locked
    <3>9. QED BY <2>1, <3>1, <3>3, <3>5, <3>8 DEF Types
  <2>8. QED BY <2>1, <2>6, <2>7 DEF Locked
<1>12. Moved
  BY <1>8, <1>9, <1>10, <1>11
<1>13. manifest' \in Manifest /\ faults' \in 0 .. MaxFaults
  <2>1. manifest' \in Manifest
    BY <1>8, <1>9, <1>10, <1>11 DEF Types
  <2>2. faults' = faults \/ Disturbance
    BY <1>8, <1>9, <1>10, <1>11
  <2>3. faults \in 0 .. MaxFaults
    BY DEF Types
  <2>4. QED BY <2>1, <2>2, <2>3, BoundsAre DEF Disturbance
<1>14. DOMAIN objects' \subseteq Segments
       /\ \A s \in DOMAIN objects' : objects'[s] \in [Documents(s) -> Event]
  <2>1. UNCHANGED objects \/ (StoreSegment(i) /\ q.at \in Locked)
    BY <1>8, <1>9, <1>10, <1>11 DEF PutSegment, PutFails, At, Locked
  <2>2. CASE UNCHANGED objects
    BY <2>2 DEF Types
  <2>3. CASE StoreSegment(i) /\ q.at \in Locked
    BY <1>1, <1>3, <2>3, StoreSegmentType
  <2>4. QED BY <2>1, <2>2, <2>3
<1>15. Types'
  BY <1>4, <1>12, <1>13, <1>14 DEF Types
<1>16. QED BY <1>12, <1>15

\* Where the feed resumes lies within it.
LEMMA ResumeWithinFeed ==
  ASSUME NEW m \in Manifest, Bounded(m.segments)
  PROVE  Min({FeedLength, (DocumentCount(m) \div ChunkEvents) * ChunkEvents}) \in 0 .. FeedLength
<1> DEFINE chunks == DocumentCount(m) \div ChunkEvents
           from == chunks * ChunkEvents
<1>1. DocumentCount(m) \in Nat /\ ChunkEvents \in Nat \ {0} /\ FeedLength \in Nat
  BY DocumentCountType, BoundsAre
<1>2. chunks \in Nat
  BY <1>1
<1> HIDE DEF chunks
<1>3. from \in Nat
  BY <1>1, <1>2
<1> HIDE DEF from
<1>4. FeedLength \in Int /\ from \in Int
  BY <1>1, <1>3
<1>5. Min({FeedLength, from}) \in {FeedLength, from} /\ Min({FeedLength, from}) <= FeedLength
  BY <1>4, MinOfTwo, Zenon
<1>6. Min({FeedLength, from}) \in 0 .. FeedLength
  BY <1>1, <1>3, <1>5
<1>7. QED BY <1>6 DEF from, chunks

\* An instance changes while its requests, if there are any, are undisturbed.
LEMMA InstanceMoves ==
  ASSUME Types, ShapeInv, NEW i \in Instances,
         NEW place \in {"down", "loading", "serving"}, NEW g \in IngestorType,
         NEW f \in FeedType, NEW c \in IndexType,
         up' = [up EXCEPT ![i] = place], ingestor' = [ingestor EXCEPT ![i] = g],
         feed' = [feed EXCEPT ![i] = f], coordinator' = [coordinator EXCEPT ![i] = c],
         UNCHANGED <<objects, manifest, request, acked, attempts, streams>>,
         faults' \in 0 .. MaxFaults,
         up[i] = "serving" => place = "serving" /\ g = ingestor[i],
         up[i] # "serving" => g.holder = NoThread,
         Stored(g.view.segments), Bounded(g.view.segments), Stored(c.cached.segments),
         g.open => place = "serving", ~g.open => g = NoIngestor
  PROVE  Types' /\ ShapeInv'
<1>1. /\ up'[i] = place /\ ingestor'[i] = g /\ coordinator'[i] = c
      /\ \A j \in Instances : j # i => /\ up'[j] = up[j] /\ ingestor'[j] = ingestor[j]
                                       /\ coordinator'[j] = coordinator[j]
  BY DEF Types
<1>2. Types'
  BY DEF Types
<1>3. ASSUME NEW j \in Instances
      PROVE  IngestorInv(j)' /\ Stored(coordinator[j].cached.segments)'
  <2>1. IngestorInv(j) /\ Stored(coordinator[j].cached.segments)
    BY DEF ShapeInv
  <2>2. CASE j # i
    BY <1>1, <2>1, <2>2 DEF IngestorInv, Stored
  <2>3. CASE j = i
    <3>1. g.holder # NoThread => Serves[g.holder] = i /\ g.buffer # <<>>
      BY <2>1, <2>3 DEF IngestorInv
    <3>2. QED BY <1>1, <2>3, <3>1 DEF IngestorInv, Stored
  <2>4. QED BY <2>2, <2>3
<1>4. ASSUME NEW t \in Threads PROVE RequestInv(t)'
  <2>1. RequestInv(t) /\ Serves[t] \in Instances /\ t # NoThread /\ IngestorInv(i)
    BY DEF ShapeInv
  <2>2. CASE Serves[t] # i \/ up[i] = "serving"
    <3>1. ingestor'[Serves[t]] = ingestor[Serves[t]] /\ up'[Serves[t]] = up[Serves[t]]
      BY <1>1, <2>1, <2>2
    <3>2. QED BY <2>1, <3>1 DEF RequestInv, Stored, Sealed
  <2>3. CASE Serves[t] = i /\ up[i] # "serving"
    <3>1. request[t].at = "idle" /\ request[t].job \notin Writers
      BY <2>1, <2>3 DEF RequestInv, IngestorInv
    <3>2. g.holder # t
      BY <2>1, <2>3
    <3>3. QED BY <1>1, <2>1, <2>3, <3>1, <3>2 DEF RequestInv, Stored, Locked, Writing
  <2>4. QED BY <2>2, <2>3
<1>5. QED BY <1>2, <1>3, <1>4 DEF ShapeInv, StoreInv, Stored

\* An instance loads the index, opens its ingestor, or ages.
LEMMA InstanceSteps ==
  ASSUME Types, ShapeInv, NEW i \in Instances,
         \/ LoadIndex(i) \/ LoadIndexFails(i) \/ OpenForWriting(i) \/ OpenForWritingFails(i)
         \/ Expire(i)
  PROVE  Types' /\ ShapeInv'
<1> DEFINE g == ingestor[i]
           f == feed[i]
           c == coordinator[i]
<1>1. StoreInv /\ manifest \in Manifest /\ g \in IngestorType /\ c \in IndexType
      /\ f \in FeedType /\ faults \in 0 .. MaxFaults
      /\ Stored(c.cached.segments) /\ IngestorInv(i)
  BY DEF Types, ShapeInv
<1>2. UNCHANGED <<objects, manifest, request, acked, attempts, streams>>
  BY DEF LoadIndex, LoadIndexFails, OpenForWriting, OpenForWritingFails, Expire,
         storeVars, countVars
<1>3. faults' \in 0 .. MaxFaults
  <2>1. faults' = faults \/ Disturbance
    BY DEF LoadIndex, LoadIndexFails, OpenForWriting, OpenForWritingFails, Expire, countVars
  <2>2. QED BY <1>1, <2>1, BoundsAre DEF Disturbance
<1>4. /\ Stored(g.view.segments) /\ Bounded(g.view.segments)
      /\ g.open => up[i] = "serving"
      /\ ~g.open => g = NoIngestor
      /\ NoIngestor.holder = NoThread /\ up[i] \in {"down", "loading", "serving"}
  BY <1>1 DEF IngestorInv, NoIngestor, Types
<1>5. /\ [ingestor EXCEPT ![i] = g] = ingestor /\ [feed EXCEPT ![i] = f] = feed
      /\ [coordinator EXCEPT ![i] = c] = coordinator /\ [up EXCEPT ![i] = up[i]] = up
  BY DEF Types
<1>6. CASE LoadIndex(i)
  <2> DEFINE n == [NoIndex EXCEPT !.cached = manifest, !.degraded = FALSE, !.fresh = TRUE]
  <2>1. n \in IndexType /\ n.cached = manifest
    BY <1>1, IdleType DEF NoIndex, IndexType
  <2>2. /\ up[i] = "down" /\ up' = [up EXCEPT ![i] = "loading"]
        /\ coordinator' = [coordinator EXCEPT ![i] = n] /\ UNCHANGED <<ingestor, feed>>
    BY <1>6 DEF LoadIndex
  <2> HIDE DEF n
  <2>3. ingestor' = [ingestor EXCEPT ![i] = g] /\ feed' = [feed EXCEPT ![i] = f]
    BY <1>5, <2>2
  <2>4. Stored(n.cached.segments)
    BY <1>1, <2>1 DEF StoreInv
  <2>5. QED
    BY <1>1, <1>2, <1>3, <1>4, <2>1, <2>2, <2>3, <2>4, InstanceMoves
<1>7. CASE LoadIndexFails(i) \/ OpenForWritingFails(i)
  <2>1. PICK place \in {"loading", "serving"} :
          up[i] # "serving" /\ up' = [up EXCEPT ![i] = place]
    BY <1>7 DEF LoadIndexFails, OpenForWritingFails
  <2>2. UNCHANGED <<ingestor, feed, coordinator>>
    BY <1>7 DEF LoadIndexFails, OpenForWritingFails
  <2>3. /\ ingestor' = [ingestor EXCEPT ![i] = g] /\ feed' = [feed EXCEPT ![i] = f]
        /\ coordinator' = [coordinator EXCEPT ![i] = c]
    BY <1>5, <2>2
  <2>4. QED
    BY <1>1, <1>2, <1>3, <1>4, <2>1, <2>3, InstanceMoves
<1>8. CASE OpenForWriting(i)
  <2> DEFINE start == AfterLast(manifest)
             next == Min({FeedLength, (DocumentCount(manifest) \div ChunkEvents) * ChunkEvents})
             h == [NoIngestor EXCEPT !.open = TRUE, !.view = manifest, !.start = start]
             n == [f EXCEPT !.next = next]
  <2>1. start \in Nat
    BY <1>1, AfterLastBeyond DEF StoreInv
  <2>2. next \in 0 .. FeedLength
    BY <1>1, ResumeWithinFeed DEF StoreInv
  <2>3. /\ up[i] = "loading" /\ up' = [up EXCEPT ![i] = "serving"]
        /\ ingestor' = [ingestor EXCEPT ![i] = h] /\ UNCHANGED coordinator
    BY <1>8 DEF OpenForWriting, AfterLast
  <2>4. feed' = [feed EXCEPT ![i] = n]
    BY <1>8 DEF OpenForWriting, Types
  <2> HIDE DEF start, next
  <2>5. h \in IngestorType /\ h.open /\ h.view = manifest /\ h.holder = NoThread
    BY <1>1, <2>1, IdleType DEF NoIngestor, IngestorType
  <2>6. n \in FeedType
    BY <1>1, <2>2 DEF FeedType
  <2>7. coordinator' = [coordinator EXCEPT ![i] = c]
    BY <1>5, <2>3
  <2>8. Stored(h.view.segments) /\ Bounded(h.view.segments)
    BY <1>1, <2>5 DEF StoreInv
  <2> HIDE DEF h, n
  <2>9. QED
    BY <1>1, <1>2, <1>3, <2>3, <2>4, <2>5, <2>6, <2>7, <2>8, InstanceMoves
<1>9. CASE Expire(i)
  <2> DEFINE n == [c EXCEPT !.fresh = FALSE]
  <2>1. n \in IndexType /\ n.cached = c.cached
    BY <1>1 DEF IndexType
  <2>2. /\ up[i] = "serving" /\ coordinator' = [coordinator EXCEPT ![i] = n]
        /\ UNCHANGED <<up, ingestor, feed>>
    BY <1>9 DEF Expire, Types
  <2> HIDE DEF n
  <2>3. /\ ingestor' = [ingestor EXCEPT ![i] = g] /\ feed' = [feed EXCEPT ![i] = f]
        /\ up' = [up EXCEPT ![i] = "serving"]
    BY <1>5, <2>2
  <2>4. QED
    BY <1>1, <1>2, <1>3, <1>4, <2>1, <2>2, <2>3, InstanceMoves
<1>10. QED BY <1>6, <1>7, <1>8, <1>9

\* An instance dies with its requests.
LEMMA CrashKeepsShape ==
  ASSUME Types, ShapeInv, NEW i \in Instances, Crash(i)
  PROVE  Types' /\ ShapeInv'
<1>1. /\ up' = [up EXCEPT ![i] = "down"]
      /\ ingestor' = [ingestor EXCEPT ![i] = NoIngestor] /\ feed' = [feed EXCEPT ![i] = NoFeed]
      /\ coordinator' = [coordinator EXCEPT ![i] = NoIndex]
      /\ request' = [t \in Threads |-> IF Serves[t] = i THEN Idle ELSE request[t]]
      /\ UNCHANGED <<objects, manifest, acked, attempts, streams>>
  BY DEF Crash, storeVars
<1>2. faults' \in 0 .. MaxFaults
  BY BoundsAre DEF Crash, Disturbance, Types
<1>3. Types'
  BY <1>1, <1>2, IdleType DEF Types
<1>4. /\ up'[i] = "down" /\ ingestor'[i] = NoIngestor /\ coordinator'[i] = NoIndex
      /\ \A j \in Instances : j # i => /\ up'[j] = up[j] /\ ingestor'[j] = ingestor[j]
                                       /\ coordinator'[j] = coordinator[j]
  BY <1>1 DEF Types
<1>5. ASSUME NEW j \in Instances
      PROVE  IngestorInv(j)' /\ Stored(coordinator[j].cached.segments)'
  <2>1. CASE j # i
    BY <1>1, <1>4, <2>1 DEF ShapeInv, IngestorInv, Stored
  <2>2. CASE j = i
    <3>1. /\ NoIngestor.view = EmptyManifest /\ ~NoIngestor.open
          /\ NoIngestor.holder = NoThread /\ NoIndex.cached = EmptyManifest
      BY DEF NoIngestor, NoIndex
    <3>2. Stored(EmptyManifest.segments)' /\ Bounded(EmptyManifest.segments)
      BY IdleType DEF Stored
    <3>3. QED BY <1>4, <2>2, <3>1, <3>2 DEF IngestorInv, Stored
  <2>3. QED BY <2>1, <2>2
<1>6. ASSUME NEW t \in Threads PROVE RequestInv(t)'
  <2>1. RequestInv(t) /\ Serves[t] \in Instances /\ t # NoThread
    BY DEF ShapeInv
  <2>2. CASE Serves[t] # i
    BY <1>1, <1>4, <2>1, <2>2 DEF RequestInv, Stored, Sealed
  <2>3. CASE Serves[t] = i
    <3>1. request'[t] = Idle /\ ingestor'[i].holder = NoThread
      BY <1>1, <1>4, <2>3 DEF NoIngestor
    <3>2. Idle.at = "idle" /\ Idle.job = "none" /\ Idle.seen = EmptyManifest
      BY DEF Idle
    <3>3. QED
      BY <2>1, <2>3, <3>1, <3>2, IdleType DEF RequestInv, Stored, Writing, Locked, Writers
  <2>4. QED BY <2>2, <2>3
<1>7. QED BY <1>1, <1>3, <1>5, <1>6 DEF ShapeInv, StoreInv, Stored

\* Every step keeps the types and the shape.
LEMMA ShapeStep == Types /\ ShapeInv /\ [Next]_vars => (Types /\ ShapeInv)'
<1> SUFFICES ASSUME Types, ShapeInv, [Next]_vars PROVE Types' /\ ShapeInv'
  OBVIOUS
<1>1. ASSUME NEW t \in Threads,
             \/ Serve(t) \/ Search(t) \/ StartStream(t) \/ EndStream(t)
             \/ \E e \in Posted : Post(t, e)
             \/ TakeFails(t) \/ PutFails(t) \/ ReadFails(t) \/ OpenFails(t)
      PROVE  Types' /\ ShapeInv'
  <2>1. CASE \/ StartStream(t) \/ EndStream(t) \/ AskSize(t) \/ ReadManifest(t)
             \/ PlanSearch(t) \/ Respond(t)
             \/ \E e \in Posted : Post(t, e)
    BY <2>1, RequestSteps
  <2>2. CASE \/ Search(t) \/ Install(t) \/ Rebuild(t) \/ OpenReader(t)
             \/ ReadFails(t) \/ ReadTorn(t) \/ RebuildFails(t) \/ OpenFails(t)
    BY <2>2, CoordinatorSteps
  <2>3. CASE Take(t) \/ TakeFails(t)
    BY <2>3, FeedSteps
  <2>4. CASE Add(t) \/ PutSegment(t) \/ PutManifest(t) \/ PutFails(t)
    BY <2>4, WriterSteps
  <2>5. QED BY <1>1, <2>1, <2>2, <2>3, <2>4 DEF Serve
<1>2. ASSUME NEW i \in Instances,
             \/ LoadIndex(i) \/ LoadIndexFails(i) \/ OpenForWriting(i) \/ OpenForWritingFails(i)
             \/ Crash(i) \/ Expire(i)
      PROVE  Types' /\ ShapeInv'
  BY <1>2, InstanceSteps, CrashKeepsShape
<1>3. CASE UNCHANGED vars
  BY <1>3 DEF vars, storeVars, instanceVars, countVars, Types, ShapeInv, StoreInv, IngestorInv,
              RequestInv, Stored, Sealed
<1>4. QED BY <1>1, <1>2, <1>3 DEF Next

\* The types and the shape hold throughout.
LEMMA ShapeAlways == Spec => [](Types /\ ShapeInv)
BY ShapeInit, ShapeStep, PTL DEF Spec

\* Whatever the requests, faults and restarts, and however many instances write
\* at once, every variable keeps its type, a request is inside flush()
\* exactly while it holds its instance's lock, what any manifest names, stored,
\* held by an ingestor, cached or in a request's hands, is stored, and so is the
\* segment a flush is about to publish.
THEOREM ServiceTypeCorrect == Spec => [](TypeOK /\ ShapeInv)
BY ShapeAlways, TypesImply, PTL
-----------------------------------------------------------------------------
(* What one instance never loses. *)

\* A revision replaces an old one only after that one has stopped.
Alone == \A i, j \in Instances : i = j
-----------------------------------------------------------------------------
(* What the process knows of the store, and why it stays true.              *)

\* The segments some part of the instance may still read or list.
Known(i) ==
  manifest.segments \cup ingestor[i].view.segments \cup coordinator[i].cached.segments
    \cup DOMAIN coordinator[i].readers \cup UNION {request[t].seen.segments : t \in Threads}

\* A known segment lies before the buffer, or holds what the buffer begins with:
\* a flush whose answer was lost has published it.
Settled(i, s) == s.last < ingestor[i].start
Pending(i, s) ==
  /\ s.first = ingestor[i].start /\ s.last < ingestor[i].start + Len(ingestor[i].buffer)
  /\ objects[s] = [o \in Documents(s) |-> ingestor[i].buffer[o - ingestor[i].start + 1]]

KnownInv(i) ==
  /\ Stored(Known(i))
  /\ ~ingestor[i].open => Known(i) \subseteq manifest.segments
  /\ ingestor[i].open => \A s \in Known(i) : Settled(i, s) \/ Pending(i, s)

\* The manifest in memory and the stored one differ in the buffer's range only.
MatchInv(i) ==
  ingestor[i].open =>
    \A s : Settled(i, s) => (s \in manifest.segments <=> s \in ingestor[i].view.segments)

TrueReaders(i) ==
  \A s \in DOMAIN coordinator[i].readers : coordinator[i].readers[s] = objects[s]

\* The object that is about to be published holds the buffer.
PublishInv(t) ==
  At(t, "publishing") => objects[Sealed(Serves[t])] = Contents(Serves[t])

\* A posted event is in the buffer while it is flushed, and indexed from then on.
PostInv(t) ==
  request[t].job = "post" =>
    /\ request[t].at \in Locked =>
         Range(request[t].batch) \subseteq Range(ingestor[Serves[t]].buffer)
    /\ request[t].at \notin Writing \cup {"idle"} => Range(request[t].batch) \subseteq Indexed

DurableInv ==
  /\ \A i \in Instances : /\ KnownInv(i) /\ MatchInv(i) /\ TrueReaders(i)
                          /\ acked[i] \subseteq Indexed
  /\ \A t \in Threads : PublishInv(t) /\ PostInv(t)

\* What objects f hold of a manifest's segments, by segment and offset.
Listed(f, m) == {f[x[1]][x[2]] : x \in Entries(m)}

\* Membership in what is listed, segment by segment.
LEMMA ListedIs ==
  ASSUME NEW f, NEW m, NEW e
  PROVE  e \in Listed(f, m) <=> \E s \in m.segments : \E o \in Documents(s) : e = f[s][o]
<1>1. ASSUME NEW s \in m.segments, NEW o \in Documents(s)
      PROVE  \E x \in Entries(m) : x[1] = s /\ x[2] = o
  <2>1. <<s, o>> \in Entries(m)
    BY DEF Entries
  <2>2. QED BY <2>1
<1>2. ASSUME NEW x \in Entries(m)
      PROVE  x[1] \in m.segments /\ x[2] \in Documents(x[1])
  BY DEF Entries
<1>3. ASSUME NEW s \in m.segments, NEW o \in Documents(s), e = f[s][o]
      PROVE  e \in Listed(f, m)
  <2>1. PICK x \in Entries(m) : x[1] = s /\ x[2] = o
    BY <1>1
  <2>2. QED BY <1>3, <2>1 DEF Listed
<1>4. ASSUME e \in Listed(f, m)
      PROVE  \E s \in m.segments : \E o \in Documents(s) : e = f[s][o]
  BY <1>2, <1>4 DEF Listed
<1>5. QED BY <1>3, <1>4

\* What is indexed, now and after a step.
LEMMA IndexedIs ==
  ASSUME NEW e
  PROVE  /\ e \in Indexed <=>
              \E s \in manifest.segments : \E o \in Documents(s) : e = objects[s][o]
         /\ e \in Indexed' <=>
              \E s \in manifest'.segments : \E o \in Documents(s) : e = objects'[s][o]
<1>1. Indexed = Listed(objects, manifest) /\ Indexed' = Listed(objects', manifest')
  BY DEF Indexed, Entries, Listed
<1>2. QED BY <1>1, ListedIs

\* Objects that are listed and not rewritten stay indexed.
LEMMA IndexedKept ==
  ASSUME UNCHANGED manifest, \A s \in manifest.segments : objects'[s] = objects[s]
  PROVE  Indexed' = Indexed
<1>1. ASSUME NEW x \in Entries(manifest) PROVE x[1] \in manifest.segments
  BY DEF Entries
<1>2. \A x \in Entries(manifest) : objects'[x[1]][x[2]] = objects[x[1]][x[2]]
  BY <1>1
<1>3. Entries(manifest)' = Entries(manifest)
  BY DEF Entries
<1>4. QED BY <1>2, <1>3 DEF Indexed

\* Storing the sealed segment changes no object that anything knows of: at worst
\* it writes again what a failed flush had written.
LEMMA KnownUntouched ==
  ASSUME Types, NEW i \in Instances, KnownInv(i), ingestor[i].open,
         ingestor[i].buffer # <<>>, StoreSegment(i)
  PROVE  \A s \in Known(i) : s \in DOMAIN objects' /\ objects'[s] = objects[s]
<1> SUFFICES ASSUME NEW s \in Known(i)
             PROVE  s \in DOMAIN objects' /\ objects'[s] = objects[s]
  OBVIOUS
<1>1. s \in DOMAIN objects /\ (Settled(i, s) \/ Pending(i, s))
  BY DEF KnownInv, Stored
<1>2. /\ DOMAIN objects' = DOMAIN objects \cup {Sealed(i)}
      /\ objects'[s] = IF s = Sealed(i) THEN Contents(i) ELSE objects[s]
  BY <1>1 DEF StoreSegment
<1>3. ASSUME s = Sealed(i) PROVE objects[s] = Contents(i)
  <2>1. Sealed(i).last >= ingestor[i].start
    BY SealedType DEF Types, IngestorType, Segments
  <2>2. Sealed(i).last \in Nat /\ ingestor[i].start \in Nat
    BY SealedType DEF Types, IngestorType, Segments
  <2>3. ~Settled(i, s)
    BY <1>3, <2>1, <2>2 DEF Settled
  <2>4. QED BY <1>1, <1>3, <2>3 DEF Pending, Contents
<1>4. QED BY <1>1, <1>2, <1>3

\* Nothing has been acknowledged and nothing is listed.
LEMMA DurableInit == Init => DurableInv
<1> SUFFICES ASSUME Init PROVE DurableInv
  OBVIOUS
<1>1. EmptyManifest.segments = {} /\ NoIngestor.view = EmptyManifest /\ ~NoIngestor.open
      /\ NoIndex.cached = EmptyManifest /\ DOMAIN NoIndex.readers = {}
      /\ Idle.seen = EmptyManifest /\ Idle.at = "idle" /\ Idle.job = "none"
  BY DEF EmptyManifest, NoIngestor, NoIndex, Idle
<1>2. ASSUME NEW i \in Instances
      PROVE  KnownInv(i) /\ MatchInv(i) /\ TrueReaders(i) /\ acked[i] \subseteq Indexed
  <2>1. Known(i) = {}
    BY <1>1 DEF Init, Known
  <2>2. QED BY <1>1, <2>1 DEF Init, KnownInv, MatchInv, TrueReaders, Stored
<1>3. ASSUME NEW t \in Threads PROVE PublishInv(t) /\ PostInv(t)
  BY <1>1 DEF Init, PublishInv, PostInv, At
<1>4. QED BY <1>2, <1>3 DEF DurableInv
-----------------------------------------------------------------------------
(* Steps beside the ingestor and the store.                                 *)

\* What such a step may do to the request of a thread.
Carries(u) ==
  \/ request'[u] = request[u]
  \/ /\ request'[u].at \notin Locked
     /\ request'[u].job = "post" =>
          \/ request'[u].at = "adding"
          \/ /\ request[u].job = "post" /\ request'[u].batch = request[u].batch
             /\ request[u].at \notin Writing \cup {"idle"}

\* Steps that leave the store and the ingestor alone.
LEMMA BesideKeeps ==
  ASSUME Types, ShapeInv, DurableInv, NEW i \in Instances, \A j \in Instances : j = i,
         UNCHANGED <<objects, manifest, ingestor>>,
         \A u \in Threads : Carries(u) /\ request'[u].seen.segments \subseteq Known(i),
         coordinator'[i].cached.segments \subseteq Known(i),
         DOMAIN coordinator'[i].readers \subseteq Known(i), TrueReaders(i)',
         \/ acked'[i] = acked[i]
         \/ \E u \in Threads : /\ request[u].job = "post"
                               /\ request[u].at \notin Writing \cup {"idle"}
                               /\ acked'[i] = acked[i] \cup Range(request[u].batch)
  PROVE  DurableInv'
<1>1. KnownInv(i) /\ MatchInv(i) /\ acked[i] \subseteq Indexed
      /\ \A t \in Threads : PublishInv(t) /\ PostInv(t) /\ Serves[t] = i
  BY DEF DurableInv
<1>2. Known(i)' \subseteq Known(i)
  BY DEF Known
<1>3. Indexed' = Indexed
  BY IndexedKept
<1>4. KnownInv(i)'
  <2>1. Stored(Known(i))'
    BY <1>1, <1>2 DEF KnownInv, Stored
  <2>2. ~ingestor[i].open => Known(i)' \subseteq manifest.segments
    BY <1>1, <1>2 DEF KnownInv
  <2>3. ingestor[i].open => \A s \in Known(i)' : Settled(i, s)' \/ Pending(i, s)'
    BY <1>1, <1>2 DEF KnownInv, Settled, Pending
  <2>4. QED BY <2>1, <2>2, <2>3 DEF KnownInv
<1>5. MatchInv(i)'
  BY <1>1 DEF MatchInv, Settled
<1>6. acked'[i] \subseteq Indexed'
  BY <1>1, <1>3 DEF PostInv
<1>7. ASSUME NEW t \in Threads PROVE PublishInv(t)' /\ PostInv(t)'
  <2>1. PublishInv(t)'
    <3>1. CASE request'[t] = request[t]
      <4>1. Sealed(i)' = Sealed(i) /\ Contents(i)' = Contents(i)
        BY DEF Sealed, Contents
      <4>2. QED BY <1>1, <3>1, <4>1 DEF PublishInv, At
    <3>2. CASE request'[t].at \notin Locked
      BY <3>2 DEF PublishInv, At, Locked
    <3>3. QED BY <3>1, <3>2 DEF Carries
  <2>2. PostInv(t)'
    BY <1>1, <1>3 DEF PostInv, Carries, Writing, Locked
  <2>3. QED BY <2>1, <2>2
<1>8. QED BY <1>4, <1>5, <1>6, <1>7 DEF DurableInv

\* A request's own manifest, the cached one and the stored one are known.
LEMMA KnownParts ==
  ASSUME NEW i, NEW t \in Threads
  PROVE  /\ manifest.segments \subseteq Known(i) /\ request[t].seen.segments \subseteq Known(i)
         /\ ingestor[i].view.segments \subseteq Known(i)
         /\ coordinator[i].cached.segments \subseteq Known(i)
         /\ DOMAIN coordinator[i].readers \subseteq Known(i)
BY DEF Known

\* A step of one thread beside the ingestor leaves the others' requests alone.
LEMMA OneThreadBeside ==
  ASSUME Types, ShapeInv, DurableInv, NEW i \in Instances, \A j \in Instances : j = i,
         NEW t \in Threads, NEW r, request' = [request EXCEPT ![t] = r],
         UNCHANGED <<objects, manifest, ingestor>>,
         r.at \notin Locked, r.seen.segments \subseteq Known(i),
         r.job = "post" => \/ r.at = "adding"
                           \/ /\ request[t].job = "post" /\ r.batch = request[t].batch
                              /\ request[t].at \notin Writing \cup {"idle"},
         coordinator'[i].cached.segments \subseteq Known(i),
         DOMAIN coordinator'[i].readers \subseteq Known(i), TrueReaders(i)',
         \/ acked'[i] = acked[i]
         \/ /\ request[t].job = "post" /\ request[t].at \notin Writing \cup {"idle"}
            /\ acked'[i] = acked[i] \cup Range(request[t].batch)
  PROVE  DurableInv'
<1>1. request'[t] = r /\ \A u \in Threads : u # t => request'[u] = request[u]
  BY DEF Types
<1>2. ASSUME NEW u \in Threads
      PROVE  Carries(u) /\ request'[u].seen.segments \subseteq Known(i)
  BY <1>1, KnownParts DEF Carries
<1>3. QED BY <1>2, BesideKeeps

\* What is cached and read stays what it is.
LEMMA SameCoordinator ==
  ASSUME DurableInv, NEW i \in Instances, NEW t \in Threads, UNCHANGED objects,
         coordinator'[i].cached = coordinator[i].cached,
         coordinator'[i].readers = coordinator[i].readers
  PROVE  /\ coordinator'[i].cached.segments \subseteq Known(i)
         /\ DOMAIN coordinator'[i].readers \subseteq Known(i)
         /\ TrueReaders(i)'
BY KnownParts DEF DurableInv, TrueReaders

\* Requests and streams beside the ingestor and the coordinator.
LEMMA RequestsKeepData ==
  ASSUME Types, ShapeInv, DurableInv, NEW i \in Instances, \A j \in Instances : j = i,
         NEW t \in Threads,
         \/ StartStream(t) \/ EndStream(t) \/ AskSize(t) \/ ReadManifest(t)
         \/ PlanSearch(t) \/ Respond(t) \/ Take(t) \/ TakeFails(t)
         \/ \E e \in Posted : Post(t, e)
  PROVE  DurableInv'
<1> DEFINE q == request[t]
<1>1. UNCHANGED <<objects, manifest, ingestor, coordinator, acked>> /\ Serves[t] = i
  BY DEF Post, StartStream, EndStream, AskSize, ReadManifest, PlanSearch, Respond, Take,
         TakeFails, storeVars, instanceVars
<1>2. /\ EmptyManifest.segments = {} /\ Idle.seen = EmptyManifest /\ Idle.at = "idle"
      /\ Idle.job = "none" /\ q \in RequestType
  BY IdleType DEF Idle, Types
<1>3. /\ coordinator'[i].cached.segments \subseteq Known(i)
      /\ DOMAIN coordinator'[i].readers \subseteq Known(i)
      /\ TrueReaders(i)'
  BY <1>1, SameCoordinator
<1>4. CASE \/ StartStream(t) \/ EndStream(t) \/ Respond(t) \/ Take(t) \/ TakeFails(t)
           \/ \E e \in Posted : Post(t, e)
  <2>1. \E r : /\ request' = [request EXCEPT ![t] = r]
               /\ r.at \in {"idle", "taking", "adding"} /\ r.seen = EmptyManifest
               /\ r.job = "post" => r.at = "adding"
    <3>1. ASSUME NEW n, Hand(t, n)
          PROVE  \E r : /\ request' = [request EXCEPT ![t] = r]
                        /\ r.at \in {"idle", "taking", "adding"} /\ r.seen = EmptyManifest
                        /\ r.job = "post" => r.at = "adding"
      <4> DEFINE batch == [k \in 1 .. n |-> feed[i].next + k - 1]
                 job == IF n = 0 THEN "last" ELSE "stream"
                 r == [Idle EXCEPT !.at = "adding", !.job = job, !.batch = batch]
      <4>1. request' = [request EXCEPT ![t] = r]
        BY <1>1, <3>1 DEF Hand
      <4> HIDE DEF batch, job
      <4>2. r.at = "adding" /\ r.seen = EmptyManifest
        BY DEF Idle
      <4> HIDE DEF r
      <4>3. QED BY <4>1, <4>2
    <3>2. CASE EndStream(t) \/ Take(t) \/ TakeFails(t)
      <4>1. \E n : Hand(t, n)
        BY <3>2 DEF EndStream, Take, TakeFails
      <4>2. QED BY <3>1, <4>1
    <3>3. CASE StartStream(t)
      <4> DEFINE r == [Idle EXCEPT !.at = "taking", !.job = "stream"]
      <4>1. r.at = "taking" /\ r.seen = EmptyManifest /\ r.job = "stream"
        BY DEF Idle
      <4>2. request' = [request EXCEPT ![t] = r]
        BY <3>3 DEF StartStream
      <4> HIDE DEF r
      <4>3. QED BY <4>1, <4>2
    <3>4. CASE Respond(t)
      BY <1>2, <3>4 DEF Respond
    <3>5. ASSUME NEW e \in Posted, Post(t, e)
          PROVE  \E r : /\ request' = [request EXCEPT ![t] = r]
                        /\ r.at \in {"idle", "taking", "adding"} /\ r.seen = EmptyManifest
                        /\ r.job = "post" => r.at = "adding"
      <4> DEFINE r == [Idle EXCEPT !.at = "adding", !.job = "post", !.batch = <<e>>]
      <4>1. r.at = "adding" /\ r.seen = EmptyManifest
        BY DEF Idle
      <4>2. request' = [request EXCEPT ![t] = r]
        BY <3>5 DEF Post
      <4> HIDE DEF r
      <4>3. QED BY <4>1, <4>2
    <3>6. QED BY <1>4, <3>2, <3>3, <3>4, <3>5
  <2>2. PICK r : /\ request' = [request EXCEPT ![t] = r]
                 /\ r.at \in {"idle", "taking", "adding"} /\ r.seen = EmptyManifest
                 /\ r.job = "post" => r.at = "adding"
    BY <2>1
  <2>3. r.at \notin Locked /\ r.seen.segments \subseteq Known(i)
    BY <1>2, <2>2 DEF Locked
  <2>4. QED BY <1>1, <1>3, <2>2, <2>3, OneThreadBeside
<1>5. CASE AskSize(t) \/ ReadManifest(t) \/ PlanSearch(t)
  <2>1. PICK m \in {manifest, coordinator[i].cached},
             place \in {"installing", "reading", "opening"} :
          request' = [request EXCEPT ![t].seen = m, ![t].at = place]
    BY <1>1, <1>5 DEF AskSize, ReadManifest, PlanSearch
  <2> DEFINE r == [[q EXCEPT !.seen = m] EXCEPT !.at = place]
  <2>2. r.at = place /\ r.seen = m /\ r.job = q.job /\ r.batch = q.batch
    BY <1>2 DEF RequestType
  <2>3. request' = [request EXCEPT ![t] = r]
    BY <2>1 DEF Types
  <2>4. q.at \in {"sizing", "reading", "planning"}
    BY <1>5 DEF AskSize, ReadManifest, PlanSearch, At
  <2> HIDE DEF r
  <2>5. r.at \notin Locked /\ q.at \notin Writing \cup {"idle"}
        /\ r.seen.segments \subseteq Known(i)
    BY <2>1, <2>2, <2>4, KnownParts DEF Locked, Writing
  <2>6. QED BY <1>1, <1>3, <2>2, <2>3, <2>5, OneThreadBeside
<1>6. QED BY <1>4, <1>5

\* A request that raises carries no event any more.
LEMMA RaisedCarries ==
  ASSUME NEW t \in Threads, Raise(t)
  PROVE  \E r : /\ request' = [request EXCEPT ![t] = r]
                /\ r.at \in {"idle", "adding"} /\ r.job \in {"none", "last"}
                /\ r.seen.segments = {}
<1> DEFINE last == [Idle EXCEPT !.at = "adding", !.job = "last"]
           r == IF request[t].job = "stream" THEN last ELSE Idle
<1>1. /\ last.at = "adding" /\ last.job = "last" /\ last.seen.segments = {}
      /\ Idle.at = "idle" /\ Idle.job = "none" /\ Idle.seen.segments = {}
  BY DEF Idle, EmptyManifest
<1>2. request' = [request EXCEPT ![t] = r]
  BY DEF Raise
<1> HIDE DEF last
<1>3. r.at \in {"idle", "adding"} /\ r.job \in {"none", "last"} /\ r.seen.segments = {}
  BY <1>1
<1> HIDE DEF r
<1>4. QED BY <1>2, <1>3

\* Refreshes and searches at the coordinator.
LEMMA CoordinatorKeepsData ==
  ASSUME Types, ShapeInv, DurableInv, NEW i \in Instances, \A j \in Instances : j = i,
         NEW t \in Threads,
         \/ Search(t) \/ Install(t) \/ Rebuild(t) \/ OpenReader(t)
         \/ ReadFails(t) \/ ReadTorn(t) \/ RebuildFails(t) \/ OpenFails(t)
  PROVE  DurableInv'
<1> DEFINE q == request[t]
           c == coordinator[i]
<1>1. UNCHANGED <<objects, manifest, ingestor>> /\ Serves[t] = i
  BY DEF Search, Install, Rebuild, OpenReader, ReadFails, ReadTorn, RebuildFails, RefreshFails,
         OpenFails, storeVars, instanceVars
<1>2. /\ Idle.seen.segments = {} /\ Idle.at = "idle" /\ Idle.job = "none"
      /\ q \in RequestType /\ c \in IndexType /\ TrueReaders(i)
      /\ acked \in [Instances -> SUBSET Posted]
  BY DEF Idle, EmptyManifest, Types, DurableInv
<1>3. CASE Search(t)
  <2> DEFINE stale == ~c.fresh /\ c.checker = NoThread
             place == IF stale THEN "sizing" ELSE "planning"
             due == acked[i]
             r == [Idle EXCEPT !.at = place, !.job = "search", !.due = due]
             n == [c EXCEPT !.checker = IF stale THEN t ELSE @]
  <2>1. place \in {"sizing", "planning"}
    OBVIOUS
  <2>2. n.cached = c.cached /\ n.readers = c.readers
    BY <1>2 DEF IndexType
  <2>3. /\ coordinator' = [coordinator EXCEPT ![i] = n] /\ acked' = acked
        /\ request' = [request EXCEPT ![t] = r]
    BY <1>1, <1>3 DEF Search, Types
  <2> HIDE DEF place, n, due
  <2>4. r.at = place /\ r.job = "search" /\ r.seen.segments = {}
    BY <1>2 DEF Idle
  <2> HIDE DEF r
  <2>5. coordinator'[i] = n
    BY <2>3 DEF Types
  <2>6. /\ coordinator'[i].cached.segments \subseteq Known(i)
        /\ DOMAIN coordinator'[i].readers \subseteq Known(i)
        /\ TrueReaders(i)'
    BY <1>1, <2>2, <2>5, SameCoordinator
  <2>7. r.at \notin Locked
    BY <2>1, <2>4 DEF Locked
  <2>8. QED BY <1>1, <2>3, <2>4, <2>6, <2>7, OneThreadBeside
<1>4. CASE Install(t)
  <2> DEFINE r == [q EXCEPT !.at = "rebuilding"]
  <2>1. /\ q.at = "installing" /\ acked' = acked
        /\ coordinator'[i].cached = q.seen /\ coordinator'[i].readers = c.readers
        /\ request' = [request EXCEPT ![t] = r]
    BY <1>1, <1>2, <1>4 DEF Install, At, Go, Types, IndexType
  <2>2. r.at = "rebuilding" /\ r.job = q.job /\ r.batch = q.batch /\ r.seen = q.seen
    BY <1>2 DEF RequestType
  <2> HIDE DEF r
  <2>3. /\ coordinator'[i].cached.segments \subseteq Known(i)
        /\ DOMAIN coordinator'[i].readers \subseteq Known(i) /\ TrueReaders(i)'
        /\ r.seen.segments \subseteq Known(i)
    BY <1>1, <1>2, <2>1, <2>2, KnownParts DEF TrueReaders
  <2>4. r.at \notin Locked /\ q.at \notin Writing \cup {"idle"}
    BY <2>1, <2>2 DEF Locked, Writing
  <2>5. QED BY <1>1, <2>1, <2>2, <2>3, <2>4, OneThreadBeside
<1>5. CASE OpenReader(t)
  <2>1. PICK s \in q.seen.segments :
          LET opened == [r \in DOMAIN c.readers \cup {s} |->
                           IF r \in DOMAIN c.readers THEN c.readers[r] ELSE objects[r]]
          IN /\ coordinator' = [coordinator EXCEPT ![i].readers = opened]
             /\ request' = [request EXCEPT ![t].seen.segments = @ \ {s},
                                           ![t].found = @ \cup Range(opened[s])]
    BY <1>1, <1>5 DEF OpenReader
  <2> DEFINE S == DOMAIN c.readers \cup {s}
             opened == [r \in S |-> IF r \in DOMAIN c.readers THEN c.readers[r] ELSE objects[r]]
             found == q.found \cup Range(opened[s])
             left == [q.seen EXCEPT !.segments = @ \ {s}]
             r == [[q EXCEPT !.seen = left] EXCEPT !.found = found]
  <2>2. \A x \in S : opened[x] = objects[x]
    BY <1>2 DEF TrueReaders
  <2>3. /\ q.at = "opening" /\ acked' = acked
        /\ coordinator' = [coordinator EXCEPT ![i].readers = opened]
    BY <1>1, <1>5, <2>1 DEF OpenReader, At
  <2>4. DOMAIN opened = S /\ S \subseteq Known(i)
    BY KnownParts
  <2>5. left.segments \subseteq q.seen.segments
    BY <1>2 DEF RequestType, Manifest
  <2> HIDE DEF opened
  <2>6. request' = [request EXCEPT ![t].seen.segments = @ \ {s},
                                   ![t].found = @ \cup Range(opened[s])]
    BY <2>1 DEF opened
  <2>7. request' = [request EXCEPT ![t] = r]
    BY <1>2, <2>6 DEF Types, RequestType
  <2> HIDE DEF found, left
  <2>8. r.at = q.at /\ r.job = q.job /\ r.batch = q.batch /\ r.seen = left
    BY <1>2 DEF RequestType
  <2>9. coordinator'[i].cached = c.cached /\ coordinator'[i].readers = opened
    BY <1>2, <2>3 DEF Types, IndexType
  <2> HIDE DEF r, S
  <2>10. /\ coordinator'[i].cached.segments \subseteq Known(i)
         /\ DOMAIN coordinator'[i].readers \subseteq Known(i) /\ TrueReaders(i)'
         /\ r.seen.segments \subseteq Known(i)
    BY <1>1, <2>2, <2>4, <2>5, <2>8, <2>9, KnownParts DEF TrueReaders
  <2>11. r.at \notin Locked /\ q.at \notin Writing \cup {"idle"}
    BY <2>3, <2>8 DEF Locked, Writing
  <2>12. QED BY <1>1, <2>3, <2>7, <2>8, <2>10, <2>11, OneThreadBeside
<1>6. CASE Rebuild(t)
  <2> DEFINE kept == Restrict(c.readers, DOMAIN c.readers \cap c.cached.segments)
             d == [c EXCEPT !.readers = kept]
             toPlan == [q EXCEPT !.at = "planning"]
             toTake == [Idle EXCEPT !.at = "taking", !.job = "stream"]
             r == CASE q.job = "search" -> toPlan
                    [] q.job = "stream" -> toTake
                    [] OTHER -> Idle
  <2>1. kept \in Readers
    BY <1>2, RestrictedReaders DEF IndexType
  <2>2. DOMAIN kept \subseteq DOMAIN c.readers /\ \A s \in DOMAIN kept : kept[s] = c.readers[s]
    BY DEF Restrict
  <2> HIDE DEF kept
  <2>3. d \in IndexType /\ d.cached = c.cached /\ d.readers = kept
    BY <1>2, <2>1 DEF IndexType
  <2>4. coordinator' = [coordinator EXCEPT ![i] = Checked(t, d)]
    BY <1>1, <1>6, Zenon DEF Rebuild, kept
  <2>5. coordinator'[i].cached = c.cached /\ coordinator'[i].readers = kept
    <3> HIDE DEF d
    <3>1. Checked(t, d).cached = d.cached /\ Checked(t, d).readers = d.readers
      BY <2>3, CheckedType
    <3>2. coordinator'[i] = Checked(t, d)
      BY <2>4 DEF Types
    <3>3. QED BY <2>3, <3>1, <3>2
  <2>6. q.at = "rebuilding" /\ request' = [request EXCEPT ![t] = r]
    BY <1>6 DEF Rebuild, Proceed, At, Types
  <2>7. acked'[i] = IF q.job = "post" THEN acked[i] \cup Range(q.batch) ELSE acked[i]
    BY <1>1, <1>2, <1>6 DEF Rebuild, Proceed
  <2>8. /\ toPlan.at = "planning" /\ toPlan.job = q.job /\ toPlan.seen = q.seen
        /\ toTake.at = "taking" /\ toTake.job = "stream" /\ toTake.seen.segments = {}
    BY <1>2 DEF Idle, RequestType
  <2> HIDE DEF toPlan, toTake
  <2>9. /\ r.at \in {"planning", "taking", "idle"} /\ r.job # "post"
        /\ r.seen = q.seen \/ r.seen.segments = {}
    BY <1>2, <2>8
  <2> HIDE DEF r
  <2>10. r.at \notin Locked /\ r.seen.segments \subseteq Known(i)
         /\ q.at \notin Writing \cup {"idle"}
    BY <2>6, <2>9, KnownParts DEF Locked, Writing
  <2>11. /\ coordinator'[i].cached.segments \subseteq Known(i)
         /\ DOMAIN coordinator'[i].readers \subseteq Known(i) /\ TrueReaders(i)'
    BY <1>1, <1>2, <2>2, <2>5, KnownParts DEF TrueReaders
  <2>12. QED BY <1>1, <2>6, <2>7, <2>9, <2>10, <2>11, OneThreadBeside
<1>7. CASE ReadFails(t) \/ ReadTorn(t) \/ RebuildFails(t)
  <2>1. q.at \in {"sizing", "reading", "rebuilding"} /\ RefreshFails(t)
    BY <1>7 DEF ReadFails, ReadTorn, RebuildFails, At
  <2>2. coordinator'[i] = Checked(t, c) /\ acked' = acked
    BY <1>1, <2>1 DEF RefreshFails, Types
  <2>3. coordinator'[i].cached = c.cached /\ coordinator'[i].readers = c.readers
    BY <1>2, <2>2, CheckedType
  <2>4. /\ coordinator'[i].cached.segments \subseteq Known(i)
        /\ DOMAIN coordinator'[i].readers \subseteq Known(i) /\ TrueReaders(i)'
    BY <1>1, <2>3, SameCoordinator
  <2>5. CASE q.job = "search"
    <3> DEFINE r == [q EXCEPT !.at = "planning"]
    <3>1. request' = [request EXCEPT ![t] = r]
      BY <2>1, <2>5 DEF RefreshFails, Go, Types
    <3>2. r.at = "planning" /\ r.job = "search" /\ r.seen = q.seen
      BY <1>2, <2>5 DEF RequestType
    <3> HIDE DEF r
    <3>3. r.at \notin Locked /\ r.seen.segments \subseteq Known(i)
      BY <3>2, KnownParts DEF Locked
    <3>4. QED BY <1>1, <2>2, <2>4, <3>1, <3>2, <3>3, OneThreadBeside
  <2>6. CASE q.job # "search"
    <3>1. PICK r : /\ request' = [request EXCEPT ![t] = r]
                   /\ r.at \in {"idle", "adding"} /\ r.job \in {"none", "last"}
                   /\ r.seen.segments = {}
      BY <2>1, <2>6, RaisedCarries DEF RefreshFails
    <3>2. r.at \notin Locked /\ r.job # "post" /\ r.seen.segments \subseteq Known(i)
      BY <3>1 DEF Locked
    <3>3. QED BY <1>1, <2>2, <2>4, <3>1, <3>2, OneThreadBeside
  <2>7. QED BY <2>5, <2>6
<1>8. CASE OpenFails(t)
  <2>1. Raise(t) /\ acked' = acked /\ coordinator' = coordinator
    BY <1>8 DEF OpenFails, instanceVars
  <2>2. /\ coordinator'[i].cached.segments \subseteq Known(i)
        /\ DOMAIN coordinator'[i].readers \subseteq Known(i) /\ TrueReaders(i)'
    BY <1>1, <2>1, SameCoordinator
  <2>3. PICK r : /\ request' = [request EXCEPT ![t] = r]
                 /\ r.at \in {"idle", "adding"} /\ r.job \in {"none", "last"}
                 /\ r.seen.segments = {}
    BY <2>1, RaisedCarries
  <2>4. r.at \notin Locked /\ r.job # "post" /\ r.seen.segments \subseteq Known(i)
    BY <2>3 DEF Locked
  <2>5. QED BY <1>1, <2>1, <2>2, <2>3, <2>4, OneThreadBeside
<1>9. QED BY <1>3, <1>4, <1>5, <1>6, <1>7, <1>8
-----------------------------------------------------------------------------
(* An instance starts, ages and dies.                                       *)

\* With no request under way there is nothing that requests need to carry.
LEMMA IdleCarryNothing ==
  ASSUME \A t \in Threads : request[t].at = "idle"
  PROVE  \A t \in Threads : PublishInv(t) /\ PostInv(t)
BY DEF PublishInv, PostInv, At, Locked

\* The instance loads the index, fails to, or the manifest ages.
LEMMA InstancesKeepData ==
  ASSUME Types, ShapeInv, DurableInv, NEW i \in Instances, \A j \in Instances : j = i,
         LoadIndex(i) \/ LoadIndexFails(i) \/ OpenForWritingFails(i) \/ Expire(i)
  PROVE  DurableInv'
<1> DEFINE c == coordinator[i]
<1>1. UNCHANGED <<objects, manifest, ingestor, request, acked>>
  BY DEF LoadIndex, LoadIndexFails, OpenForWritingFails, Expire, storeVars
<1>2. ASSUME NEW u \in Threads
      PROVE  Carries(u) /\ request'[u].seen.segments \subseteq Known(i)
  BY <1>1, KnownParts DEF Carries
<1>3. /\ coordinator'[i].cached.segments \subseteq Known(i)
      /\ DOMAIN coordinator'[i].readers \subseteq Known(i) /\ TrueReaders(i)'
  <2>1. CASE LoadIndex(i)
    <3> DEFINE n == [NoIndex EXCEPT !.cached = manifest, !.degraded = FALSE, !.fresh = TRUE]
    <3>1. coordinator'[i] = n
      BY <2>1 DEF LoadIndex, Types
    <3>2. n.cached = manifest /\ DOMAIN n.readers = {}
      BY DEF NoIndex
    <3> HIDE DEF n
    <3>3. QED BY <3>1, <3>2 DEF TrueReaders, Known
  <2>2. CASE LoadIndexFails(i) \/ OpenForWritingFails(i) \/ Expire(i)
    <3>1. coordinator'[i].cached = c.cached /\ coordinator'[i].readers = c.readers
      BY <2>2 DEF LoadIndexFails, OpenForWritingFails, Expire, Types, IndexType
    <3>2. TrueReaders(i)
      BY DEF DurableInv
    <3>3. QED BY <1>1, <3>1, <3>2 DEF TrueReaders, Known
  <2>3. QED BY <2>1, <2>2
<1>4. QED BY <1>1, <1>2, <1>3, BesideKeeps

\* A restarted writer continues behind everything its process knows of.
LEMMA OpenKeepsData ==
  ASSUME Types, ShapeInv, DurableInv, NEW i \in Instances, \A j \in Instances : j = i,
         OpenForWriting(i)
  PROVE  DurableInv'
<1> DEFINE start == AfterLast(manifest)
           g == [NoIngestor EXCEPT !.open = TRUE, !.view = manifest, !.start = start]
<1>1. up[i] = "loading" /\ UNCHANGED <<objects, manifest, coordinator, request, acked>>
  BY DEF OpenForWriting, storeVars
<1>2. ingestor'[i] = g
  BY DEF OpenForWriting, AfterLast, Types
<1>3. start \in Nat /\ \A s \in manifest.segments : s.last < start
  BY AfterLastBeyond DEF Types, ShapeInv, StoreInv
<1> HIDE DEF start
<1>4. ingestor'[i].open /\ ingestor'[i].view = manifest /\ ingestor'[i].start = start
  BY <1>2 DEF NoIngestor
<1>5. ~ingestor[i].open
  BY <1>1 DEF ShapeInv, IngestorInv
<1>6. Known(i) \subseteq manifest.segments /\ Stored(manifest.segments)
  BY <1>5 DEF DurableInv, KnownInv, ShapeInv, StoreInv
<1>7. Known(i)' \subseteq manifest.segments
  BY <1>1, <1>4, <1>6 DEF Known
<1>8. \A s \in manifest.segments : Settled(i, s)'
  BY <1>3, <1>4 DEF Settled
<1>9. KnownInv(i)'
  BY <1>1, <1>4, <1>6, <1>7, <1>8 DEF KnownInv, Stored
<1>10. MatchInv(i)'
  BY <1>1, <1>4 DEF MatchInv
<1>11. TrueReaders(i)' /\ acked'[i] \subseteq Indexed'
  <2>1. Indexed' = Indexed
    BY <1>1, IndexedKept
  <2>2. QED BY <1>1, <2>1 DEF DurableInv, TrueReaders
<1>12. \A t \in Threads : request'[t].at = "idle"
  BY <1>1 DEF ShapeInv, RequestInv
<1>13. \A t \in Threads : PublishInv(t)' /\ PostInv(t)'
  BY <1>12 DEF PublishInv, PostInv, At, Locked
<1>14. QED BY <1>9, <1>10, <1>11, <1>13 DEF DurableInv

\* A crash leaves the store, and nothing else that could be out of step with it.
LEMMA CrashKeepsData ==
  ASSUME Types, ShapeInv, DurableInv, NEW i \in Instances, \A j \in Instances : j = i,
         Crash(i)
  PROVE  DurableInv'
<1>1. /\ UNCHANGED <<objects, manifest, acked>>
      /\ ingestor'[i] = NoIngestor /\ coordinator'[i] = NoIndex
      /\ \A t \in Threads : request'[t] = Idle
  BY DEF Crash, storeVars, Types
<1>2. EmptyManifest.segments = {} /\ NoIngestor.view = EmptyManifest /\ ~NoIngestor.open
      /\ NoIndex.cached = EmptyManifest /\ DOMAIN NoIndex.readers = {}
      /\ Idle.seen = EmptyManifest /\ Idle.at = "idle"
  BY DEF EmptyManifest, NoIngestor, NoIndex, Idle
<1>3. Known(i)' \subseteq manifest.segments
  BY <1>1, <1>2 DEF Known
<1>4. KnownInv(i)' /\ MatchInv(i)' /\ TrueReaders(i)'
  BY <1>1, <1>2, <1>3
     DEF KnownInv, MatchInv, TrueReaders, Stored, ShapeInv, StoreInv
<1>5. acked'[i] \subseteq Indexed'
  <2>1. Indexed' = Indexed
    BY <1>1, IndexedKept
  <2>2. QED BY <1>1, <2>1 DEF DurableInv
<1>6. \A t \in Threads : PublishInv(t)' /\ PostInv(t)'
  BY <1>1, <1>2 DEF PublishInv, PostInv, At, Locked
<1>7. QED BY <1>4, <1>5, <1>6 DEF DurableInv
-----------------------------------------------------------------------------
(* The ingestor at work.                                                    *)

\* A buffer that grows keeps its beginning.
LEMMA Grown ==
  ASSUME NEW old \in Seq(Event), NEW more \in Seq(Event)
  PROVE  /\ old \o more \in Seq(Event) /\ Len(old \o more) = Len(old) + Len(more)
         /\ \A k \in 1 .. Len(old) : (old \o more)[k] = old[k]
         /\ Range(old) \subseteq Range(old \o more) /\ Range(more) \subseteq Range(old \o more)
<1> DEFINE all == old \o more
<1>1. /\ all \in Seq(Event) /\ Len(all) = Len(old) + Len(more)
      /\ Len(old) \in Nat /\ Len(more) \in Nat
      /\ \A k \in 1 .. Len(old) + Len(more) :
           all[k] = IF k <= Len(old) THEN old[k] ELSE more[k - Len(old)]
  BY ConcatProperties, LenProperties
<1>2. DOMAIN old = 1 .. Len(old) /\ DOMAIN more = 1 .. Len(more) /\ DOMAIN all = 1 .. Len(all)
  BY <1>1, LenProperties
<1> HIDE DEF all
<1>3. \A k \in 1 .. Len(old) : k \in 1 .. Len(all) /\ all[k] = old[k]
  BY <1>1
<1>4. \A k \in 1 .. Len(more) :
        k + Len(old) \in 1 .. Len(all) /\ all[k + Len(old)] = more[k]
  <2> SUFFICES ASSUME NEW k \in 1 .. Len(more)
               PROVE  k + Len(old) \in 1 .. Len(all) /\ all[k + Len(old)] = more[k]
    OBVIOUS
  <2> DEFINE a == Len(old)
             b == Len(more)
  <2>1. a \in Nat /\ b \in Nat /\ k \in 1 .. b
    BY <1>1
  <2>2. \A n \in 1 .. a + b : all[n] = IF n <= a THEN old[n] ELSE more[n - a]
    BY <1>1
  <2>3. Len(all) = a + b
    BY <1>1
  <2> HIDE DEF a, b
  <2>4. k + a \in 1 .. a + b /\ ~(k + a <= a) /\ (k + a) - a = k
    BY <2>1
  <2>5. QED BY <2>2, <2>3, <2>4 DEF a, b
<1>5. Range(old) \subseteq Range(all) /\ Range(more) \subseteq Range(all)
  BY <1>2, <1>3, <1>4 DEF Range
<1>6. QED BY <1>1, <1>3, <1>5 DEF all

\* Numbering and buffering a batch.
LEMMA AddKeepsData ==
  ASSUME Types, ShapeInv, DurableInv, NEW i \in Instances, \A j \in Instances : j = i,
         NEW t \in Threads, Add(t)
  PROVE  DurableInv'
<1> DEFINE g == ingestor[i]
           q == request[t]
           grown == g.buffer \o q.batch
           seals == grown # <<>> /\ (q.job # "stream" \/ Len(grown) >= SegmentDocs)
           h == ingestor'[i]
<1>1. UNCHANGED <<objects, manifest, coordinator, acked>> /\ Serves[t] = i
      /\ q.at = "adding" /\ g.holder = NoThread
  BY DEF Add, storeVars, At
<1>2. g \in IngestorType /\ g.buffer \in Seq(Event) /\ g.start \in Nat
      /\ q \in RequestType /\ q.batch \in Seq(Event) /\ g.open
  BY <1>1, AtTheIngestor DEF Types, IngestorType, RequestType, Writing
<1>3. h.view = g.view /\ h.start = g.start /\ h.open = g.open /\ h.buffer = grown
  BY <1>1, <1>2 DEF Add, Types, IngestorType
<1>4. \A u \in Threads : u # t => request'[u] = request[u]
  BY DEF Add, Types
<1>5. /\ request'[t].seen.segments \in {q.seen.segments, {}}
      /\ request'[t].at \in {"sealing", "taking", "idle"}
      /\ request'[t].job = "post" =>
           request'[t].at = "sealing" /\ q.job = "post" /\ request'[t].batch = q.batch
  <2> DEFINE toSeal == [q EXCEPT !.at = "sealing"]
             toTake == [q EXCEPT !.at = "taking", !.batch = <<>>]
             r == IF seals THEN toSeal ELSE IF q.job = "stream" THEN toTake ELSE Idle
  <2>1. request'[t] = r
    BY <1>1 DEF Add, Types
  <2>2. /\ toSeal.at = "sealing" /\ toSeal.seen = q.seen /\ toSeal.job = q.job
        /\ toSeal.batch = q.batch
        /\ toTake.at = "taking" /\ toTake.seen = q.seen /\ toTake.job = q.job
        /\ Idle.at = "idle" /\ Idle.job = "none" /\ Idle.seen.segments = {}
    BY <1>2 DEF RequestType, Idle, EmptyManifest
  <2> HIDE DEF toSeal, toTake, seals
  <2>3. QED BY <2>1, <2>2
<1>6. /\ grown \in Seq(Event) /\ Len(grown) = Len(g.buffer) + Len(q.batch)
      /\ \A k \in 1 .. Len(g.buffer) : grown[k] = g.buffer[k]
      /\ Range(g.buffer) \subseteq Range(grown) /\ Range(q.batch) \subseteq Range(grown)
      /\ Len(g.buffer) \in Nat /\ Len(q.batch) \in Nat
  BY <1>2, Grown, LenProperties
<1> HIDE DEF grown, seals
<1>7. KnownInv(i) /\ MatchInv(i) /\ TrueReaders(i) /\ acked[i] \subseteq Indexed
      /\ \A u \in Threads : PublishInv(u) /\ PostInv(u) /\ RequestInv(u) /\ u # NoThread
  BY DEF DurableInv, ShapeInv
<1>8. Known(i)' \subseteq Known(i)
  <2>1. \A u \in Threads : request'[u].seen.segments \subseteq Known(i)
    BY <1>4, <1>5, KnownParts
  <2>2. QED BY <1>1, <1>3, <2>1 DEF Known
<1>9. \A s : Settled(i, s)' <=> Settled(i, s)
  BY <1>3 DEF Settled
<1>10. ASSUME NEW s \in Known(i), Pending(i, s) PROVE Pending(i, s)'
  <2>1. s \in Segments
    BY <1>7 DEF KnownInv, Stored, Types
  <2>2. s.first = g.start /\ s.last < g.start + Len(g.buffer) /\ s.last \in Nat
        /\ objects[s] = [o \in Documents(s) |-> g.buffer[o - g.start + 1]]
    BY <1>10, <2>1 DEF Pending, Segments
  <2> DEFINE start == g.start
             size == Len(g.buffer)
  <2>3. s.last < start + Len(grown)
    <3> DEFINE more == Len(q.batch)
               all == Len(grown)
    <3>1. s.last \in Nat /\ start \in Nat /\ size \in Nat /\ more \in Nat /\ all = size + more
          /\ s.last < start + size
      BY <1>2, <1>6, <2>2
    <3> HIDE DEF start, size, more, all
    <3>2. s.last < start + all
      BY <3>1
    <3>3. QED BY <3>2 DEF all
  <2>4. ASSUME NEW o \in Documents(s) PROVE grown[o - g.start + 1] = g.buffer[o - g.start + 1]
    <3>1. o - g.start + 1 \in 1 .. Len(g.buffer)
      <4>1. s.last \in Nat /\ start \in Nat /\ size \in Nat /\ s.last < start + size
            /\ s.first = start /\ o \in s.first .. s.last
        BY <1>2, <1>6, <2>2 DEF Documents
      <4> HIDE DEF start, size
      <4>2. o - start + 1 \in 1 .. size
        BY <4>1
      <4>3. QED BY <4>2 DEF start, size
    <3>2. QED BY <1>6, <3>1
  <2>5. [o \in Documents(s) |-> g.buffer[o - g.start + 1]]
          = [o \in Documents(s) |-> grown[o - g.start + 1]]
    BY <2>4
  <2>6. QED BY <1>1, <1>3, <2>2, <2>3, <2>5 DEF Pending
<1>11. KnownInv(i)'
  BY <1>1, <1>2, <1>3, <1>7, <1>8, <1>9, <1>10 DEF KnownInv, Stored
<1>12. MatchInv(i)'
  BY <1>1, <1>2, <1>3, <1>7, <1>9 DEF MatchInv
<1>13. Indexed' = Indexed
  BY <1>1, IndexedKept
<1>14. TrueReaders(i)' /\ acked'[i] \subseteq Indexed'
  BY <1>1, <1>7, <1>13 DEF TrueReaders
<1>15. ASSUME NEW u \in Threads PROVE PublishInv(u)' /\ PostInv(u)'
  <2>1. CASE u = t
    BY <1>3, <1>1, <1>5, <1>6, <2>1 DEF PublishInv, PostInv, At, Writing, Locked
  <2>2. CASE u # t
    <3>1. request[u].at \notin Locked /\ request'[u] = request[u]
      BY <1>1, <1>4, <1>7, <2>2 DEF RequestInv
    <3>2. QED BY <1>7, <1>13, <3>1 DEF PublishInv, PostInv, At, Locked
  <2>3. QED BY <2>1, <2>2
<1>16. QED BY <1>11, <1>12, <1>14, <1>15 DEF DurableInv

\* With the lock held, no other request is sealing or publishing.
LEMMA LockExcludes ==
  ASSUME Types, ShapeInv, NEW i \in Instances, \A j \in Instances : j = i,
         NEW t \in Threads, request[t].at \in Locked, NEW u \in Threads, u # t
  PROVE  request[u].at \notin Locked
BY DEF ShapeInv, RequestInv

\* A segment is put, or may have been, and the buffer is kept.
LEMMA StoreKeepsData ==
  ASSUME Types, ShapeInv, DurableInv, NEW i \in Instances, \A j \in Instances : j = i,
         NEW t \in Threads, request[t].at = "sealing",
         UNCHANGED objects \/ StoreSegment(i), UNCHANGED <<manifest, coordinator, acked>>,
         ingestor'[i].open = ingestor[i].open, ingestor'[i].view = ingestor[i].view,
         ingestor'[i].start = ingestor[i].start, ingestor'[i].buffer = ingestor[i].buffer,
         NEW r, request' = [request EXCEPT ![t] = r],
         r.seen.segments \subseteq Known(i),
         \/ r.at \notin Locked /\ r.job # "post"
         \/ r.at = "publishing" /\ StoreSegment(i) /\ r.job = request[t].job
            /\ r.batch = request[t].batch
  PROVE  DurableInv' /\ Indexed \subseteq Indexed'
<1> DEFINE g == ingestor[i]
<1>1. /\ request'[t] = r /\ \A u \in Threads : u # t => request'[u] = request[u]
      /\ \A u \in Threads : Serves[u] = i /\ PublishInv(u) /\ PostInv(u)
      /\ KnownInv(i) /\ MatchInv(i) /\ TrueReaders(i) /\ acked[i] \subseteq Indexed
  BY DEF Types, DurableInv
<1>2. g.open /\ g.buffer # <<>> /\ Sealed(i) \in Segments
  BY <1>1, AtTheIngestor DEF Writing, Locked
<1>3. \A s \in Known(i) : s \in DOMAIN objects' /\ objects'[s] = objects[s]
  BY <1>1, <1>2, KnownUntouched DEF KnownInv, Stored
<1>4. Known(i)' \subseteq Known(i)
  <2>1. \A u \in Threads : request'[u].seen.segments \subseteq Known(i)
    BY <1>1, KnownParts
  <2>2. QED BY <2>1 DEF Known
<1>5. \A s \in Known(i) : (Settled(i, s) => Settled(i, s)') /\ (Pending(i, s) => Pending(i, s)')
  BY <1>3 DEF Settled, Pending
<1>6. KnownInv(i)'
  BY <1>1, <1>2, <1>3, <1>4, <1>5 DEF KnownInv, Stored
<1>7. MatchInv(i)'
  BY <1>1 DEF MatchInv, Settled
<1>8. TrueReaders(i)'
  BY <1>1, <1>3, KnownParts DEF TrueReaders
<1>9. Indexed' = Indexed
  <2>1. manifest.segments \subseteq Known(i)
    BY KnownParts
  <2>2. QED BY <1>3, <2>1, IndexedKept
<1>10. Sealed(i)' = Sealed(i) /\ Contents(i)' = Contents(i)
  <2>1. Sealed(i)' = Sealed(i)
    BY DEF Sealed
  <2>2. QED BY <2>1 DEF Contents
<1>11. ASSUME NEW u \in Threads PROVE PublishInv(u)' /\ PostInv(u)'
  <2>1. CASE u # t
    <3>1. request'[u] = request[u] /\ request[u].at \notin Locked
      BY <1>1, <2>1, LockExcludes DEF Locked
    <3>2. QED BY <1>1, <1>9, <3>1 DEF PublishInv, PostInv, At, Locked
  <2>2. CASE u = t /\ r.at \notin Locked /\ r.job # "post"
    BY <1>1, <2>2 DEF PublishInv, PostInv, At, Locked
  <2>3. CASE u = t /\ r.at = "publishing" /\ StoreSegment(i) /\ r.job = request[t].job
             /\ r.batch = request[t].batch
    <3>1. objects'[Sealed(i)] = Contents(i)
      BY <2>3 DEF StoreSegment
    <3>2. PublishInv(t)'
      BY <1>1, <1>10, <3>1 DEF PublishInv
    <3>3. PostInv(t)'
      BY <1>1, <2>3 DEF PostInv, Locked, Writing
    <3>4. QED BY <2>3, <3>2, <3>3
  <2>4. QED BY <2>1, <2>2, <2>3
<1>12. QED BY <1>1, <1>6, <1>7, <1>8, <1>9, <1>11 DEF DurableInv

\* The live set that publishing the buffer makes: what was settled, and the buffer.
LEMMA PublishedSet ==
  ASSUME Types, NEW i \in Instances, KnownInv(i), ingestor[i].open, ingestor[i].buffer # <<>>
  PROVE  Publish(ingestor[i].view, Sealed(i)).segments
           = {s \in ingestor[i].view.segments : Settled(i, s)} \cup {Sealed(i)}
<1> DEFINE view == ingestor[i].view
           sealed == Sealed(i)
           start == ingestor[i].start
<1>1. view \in Manifest /\ view.segments \subseteq Segments /\ view.segments \subseteq Known(i)
  BY DEF Types, IngestorType, Manifest, Known
<1>2. sealed \in Segments /\ sealed.first = start /\ sealed.first <= sealed.last
  BY SealedType
<1>3. start \in Nat /\ sealed.last \in Nat
  BY <1>2 DEF Types, IngestorType, Segments
<1>4. ASSUME NEW s \in view.segments
      PROVE  Settled(i, s) <=> s # sealed /\ ~Covers(s, sealed.first, sealed.last)
  <2>1. s.first \in Nat /\ s.last \in Nat /\ (Settled(i, s) \/ s.first = start)
    BY <1>1 DEF KnownInv, Segments, Pending
  <2>2. Settled(i, s) <=> s.last < start
    BY DEF Settled
  <2> HIDE DEF start, sealed
  <2>3. QED BY <1>2, <1>3, <2>1, <2>2 DEF Covers
<1>5. Publish(view, sealed).segments = Kept(view, sealed) \cup {sealed}
  BY <1>1, <1>2, PublishSegments
<1>6. QED BY <1>4, <1>5 DEF Kept

\* Everything indexed is still found in that live set, and so is the buffer.
LEMMA PublishedHolds ==
  ASSUME Types, NEW i \in Instances, KnownInv(i), MatchInv(i), ingestor[i].open,
         ingestor[i].buffer # <<>>, objects[Sealed(i)] = Contents(i), UNCHANGED objects,
         manifest' = Publish(ingestor[i].view, Sealed(i))
  PROVE  Indexed \subseteq Indexed' /\ Range(ingestor[i].buffer) \subseteq Indexed'
<1> DEFINE buffer == ingestor[i].buffer
           start == ingestor[i].start
           size == Len(buffer)
<1>1. /\ Sealed(i) \in Segments /\ Sealed(i).first = start
      /\ Sealed(i).last = start + size - 1
      /\ start \in Nat /\ size \in Nat /\ DOMAIN buffer = 1 .. size
  BY SealedType, LenProperties DEF Types, IngestorType
<1>2. /\ Sealed(i) \in manifest'.segments
      /\ \A s \in ingestor[i].view.segments : Settled(i, s) => s \in manifest'.segments
  BY PublishedSet
<1>3. ASSUME NEW k \in 1 .. size
      PROVE  /\ start + k - 1 \in Documents(Sealed(i))
             /\ objects'[Sealed(i)][start + k - 1] = buffer[k]
  <2> HIDE DEF buffer, start, size
  <2>1. start + k - 1 \in Documents(Sealed(i)) /\ (start + k - 1) - start + 1 = k
    BY <1>1 DEF Documents
  <2>2. Contents(i)[start + k - 1] = buffer[(start + k - 1) - start + 1]
    BY <2>1 DEF Contents, buffer, start
  <2>3. QED BY <2>1, <2>2
<1>4. ASSUME NEW e \in Range(buffer) PROVE e \in Indexed'
  <2>1. PICK k \in 1 .. size : e = buffer[k]
    BY <1>1 DEF Range
  <2>2. QED BY <1>2, <1>3, <2>1, IndexedIs
<1>5. ASSUME NEW e \in Indexed PROVE e \in Indexed'
  <2>1. PICK s \in manifest.segments : \E o \in Documents(s) : e = objects[s][o]
    BY IndexedIs
  <2>0. PICK o \in Documents(s) : e = objects[s][o]
    BY <2>1
  <2>2. s \in Known(i) /\ s \in Segments
    BY DEF Known, Types, Manifest
  <2>3. CASE Settled(i, s)
    <3>1. s \in manifest'.segments
      BY <1>2, <2>3 DEF MatchInv
    <3>2. QED BY <2>0, <3>1, IndexedIs
  <2>4. CASE Pending(i, s)
    <3>1. s.first = start /\ s.last < start + size /\ objects[s][o] = buffer[o - start + 1]
      BY <2>0, <2>4 DEF Pending
    <3>2. s.last \in Nat /\ o \in start .. s.last
      BY <2>2, <3>1 DEF Segments, Documents
    <3> HIDE DEF buffer, start, size
    <3>3. o - start + 1 \in 1 .. size
      BY <1>1, <3>1, <3>2
    <3>4. e \in Range(buffer)
      BY <1>1, <2>0, <3>1, <3>3 DEF Range
    <3>5. QED BY <1>4, <3>4
  <2>5. QED BY <2>2, <2>3, <2>4 DEF KnownInv
<1>6. QED BY <1>4, <1>5

\* The manifest is put: the buffer is settled, and indexed.
LEMMA PutManifestKeepsData ==
  ASSUME Types, ShapeInv, DurableInv, NEW i \in Instances, \A j \in Instances : j = i,
         NEW t \in Threads, PutManifest(t)
  PROVE  DurableInv' /\ Indexed \subseteq Indexed'
<1> DEFINE g == ingestor[i]
           h == ingestor'[i]
           sealed == Sealed(i)
<1>1. /\ UNCHANGED <<objects, coordinator, acked>> /\ request[t].at = "publishing"
      /\ \A u \in Threads : Serves[u] = i /\ PublishInv(u) /\ PostInv(u)
      /\ KnownInv(i) /\ MatchInv(i) /\ TrueReaders(i) /\ acked[i] \subseteq Indexed
  BY DEF PutManifest, At, DurableInv
<1>2. /\ g.open /\ g.buffer # <<>> /\ sealed \in Segments /\ g \in IngestorType
      /\ sealed \in DOMAIN objects /\ objects[sealed] = Contents(i)
  BY <1>1, AtTheIngestor DEF Writing, Locked, PublishInv, At, ShapeInv, RequestInv
<1>3. /\ h.open /\ h.view = Publish(g.view, sealed) /\ h.start = sealed.last + 1
      /\ manifest' = Publish(g.view, sealed)
  BY <1>1, <1>2 DEF PutManifest, Types, IngestorType
<1>4. /\ request'[t].at = "sizing" /\ request'[t].job = request[t].job
      /\ request'[t].batch = request[t].batch /\ request'[t].seen = request[t].seen
      /\ \A u \in Threads : u # t => request'[u] = request[u]
  BY DEF PutManifest, Go, Types, RequestType
<1>5. Indexed \subseteq Indexed' /\ Range(g.buffer) \subseteq Indexed'
  BY <1>1, <1>2, <1>3, PublishedHolds
<1>6. h.view.segments = {s \in g.view.segments : Settled(i, s)} \cup {sealed}
  BY <1>1, <1>2, <1>3, PublishedSet
<1>7. Known(i)' \subseteq Known(i) \cup {sealed}
  <2>1. \A u \in Threads : request'[u].seen.segments \subseteq Known(i)
    BY <1>4, KnownParts
  <2>2. manifest'.segments \subseteq Known(i) \cup {sealed}
    BY <1>3, <1>6, KnownParts
  <2>3. QED BY <1>1, <1>3, <2>1, <2>2, KnownParts DEF Known
<1>8. ASSUME NEW s \in Known(i) \cup {sealed} PROVE Settled(i, s)'
  <2>1. s \in Segments /\ (s = sealed \/ Settled(i, s) \/ Pending(i, s))
    BY <1>1, <1>2 DEF KnownInv, Stored, Types
  <2> DEFINE start == g.start
             size == Len(g.buffer)
             last == s.last
  <2>2. /\ start \in Nat /\ size \in Nat /\ size >= 1 /\ last \in Nat
        /\ sealed.last = start + size - 1
        /\ s = sealed \/ last < start \/ last < start + size
    <3>1. g.buffer \in Seq(Event) /\ g.start \in Nat
      BY <1>2 DEF IngestorType
    <3>2. Len(g.buffer) \in Nat /\ Len(g.buffer) >= 1
      BY <1>2, <3>1, EmptySeq, LenProperties
    <3>3. sealed.last = start + size - 1
      BY <1>2, SealedType
    <3>4. QED BY <2>1, <3>1, <3>2, <3>3 DEF Settled, Pending, Segments
  <2>3. last < h.start
    <3> DEFINE past == sealed.last
    <3>1. s = sealed => last = past
      OBVIOUS
    <3>2. past = start + size - 1 /\ h.start = past + 1
      BY <1>3, <2>2
    <3> HIDE DEF start, size, last, past
    <3>3. QED BY <2>2, <3>1, <3>2
  <2>4. QED BY <2>3 DEF Settled
<1>9. KnownInv(i)'
  BY <1>1, <1>2, <1>3, <1>7, <1>8 DEF KnownInv, Stored
<1>10. MatchInv(i)'
  BY <1>3 DEF MatchInv
<1>11. TrueReaders(i)' /\ acked'[i] \subseteq Indexed'
  BY <1>1, <1>5 DEF TrueReaders
<1>12. ASSUME NEW u \in Threads PROVE PublishInv(u)' /\ PostInv(u)'
  <2>1. CASE u = t
    <3>1. PublishInv(t)'
      BY <1>4 DEF PublishInv, At
    <3>2. PostInv(t)'
      BY <1>1, <1>4, <1>5 DEF PostInv, Locked, Writing
    <3>3. QED BY <2>1, <3>1, <3>2
  <2>2. CASE u # t
    <3>1. request'[u] = request[u] /\ request[u].at \notin Locked
      BY <1>1, <1>4, <2>2, LockExcludes DEF Locked
    <3>2. QED BY <1>1, <1>5, <3>1 DEF PublishInv, PostInv, At, Locked
  <2>3. QED BY <2>1, <2>2
<1>13. QED BY <1>5, <1>9, <1>10, <1>11, <1>12 DEF DurableInv

\* The manifest is refused, or put with its answer lost: the buffer is pending.
LEMMA PutManifestFailsKeepsData ==
  ASSUME Types, ShapeInv, DurableInv, NEW i \in Instances, \A j \in Instances : j = i,
         NEW t \in Threads, PutFails(t), request[t].at = "publishing"
  PROVE  DurableInv' /\ Indexed \subseteq Indexed'
<1> DEFINE g == ingestor[i]
           h == ingestor'[i]
           sealed == Sealed(i)
<1>1. /\ UNCHANGED <<objects, coordinator, acked>>
      /\ \A u \in Threads : Serves[u] = i /\ PublishInv(u) /\ PostInv(u)
      /\ KnownInv(i) /\ MatchInv(i) /\ TrueReaders(i) /\ acked[i] \subseteq Indexed
  BY DEF PutFails, At, DurableInv
<1>2. /\ g.open /\ g.buffer # <<>> /\ sealed \in Segments /\ g \in IngestorType
      /\ sealed \in DOMAIN objects /\ objects[sealed] = Contents(i)
  BY <1>1, AtTheIngestor DEF Writing, Locked, PublishInv, At, ShapeInv, RequestInv
<1>3. /\ h.open = g.open /\ h.view = Publish(g.view, sealed) /\ h.start = g.start
      /\ h.buffer = g.buffer /\ manifest' \in {manifest, Publish(g.view, sealed)}
  <2>1. /\ ingestor' = [ingestor EXCEPT
             ![i].view = Publish(@, Sealed(i)), ![i].holder = NoThread]
        /\ UNCHANGED manifest \/ manifest' = h.view
    BY <1>1 DEF PutFails, At
  <2>2. QED BY <1>2, <2>1 DEF Types, IngestorType
<1>4. PICK r : /\ request' = [request EXCEPT ![t] = r]
               /\ r.at \in {"idle", "adding"} /\ r.job \in {"none", "last"}
               /\ r.seen.segments = {}
  BY RaisedCarries DEF PutFails
<1>5. request'[t] = r /\ \A u \in Threads : u # t => request'[u] = request[u]
  BY <1>4 DEF Types
<1>6. Indexed \subseteq Indexed'
  <2>1. CASE manifest' = manifest
    BY <1>1, <2>1, IndexedKept
  <2>2. CASE manifest' = Publish(g.view, sealed)
    BY <1>1, <1>2, <2>2, PublishedHolds
  <2>3. QED BY <1>3, <2>1, <2>2
<1>7. h.view.segments = {s \in g.view.segments : Settled(i, s)} \cup {sealed}
  BY <1>1, <1>2, <1>3, PublishedSet
<1>8. Known(i)' \subseteq Known(i) \cup {sealed}
  <2>1. \A u \in Threads : request'[u].seen.segments \subseteq Known(i)
    BY <1>4, <1>5, KnownParts
  <2>2. manifest'.segments \subseteq Known(i) \cup {sealed}
    BY <1>3, <1>7, KnownParts
  <2>3. QED BY <1>1, <1>3, <1>7, <2>1, <2>2, KnownParts DEF Known
<1>9. \A s : (Settled(i, s)' <=> Settled(i, s)) /\ (Pending(i, s) => Pending(i, s)')
  BY <1>1, <1>3 DEF Settled, Pending
<1>10. sealed.first = g.start /\ sealed.last = g.start + Len(g.buffer) - 1
       /\ g.start \in Nat /\ Len(g.buffer) \in Nat /\ Len(g.buffer) >= 1
  BY <1>2, SealedType, EmptySeq, LenProperties DEF IngestorType
<1>11. Pending(i, sealed) /\ ~Settled(i, sealed)
  <2> DEFINE start == g.start
             size == Len(g.buffer)
             last == sealed.last
  <2>1. last < start + size /\ ~(last < start)
    <3>1. last = start + size - 1 /\ start \in Nat /\ size \in Nat /\ size >= 1
      BY <1>10
    <3> HIDE DEF last, start, size
    <3>2. QED BY <3>1
  <2>2. QED BY <1>2, <1>10, <2>1 DEF Pending, Settled, Contents
<1>12. KnownInv(i)'
  BY <1>1, <1>2, <1>3, <1>8, <1>9, <1>11 DEF KnownInv, Stored
<1>13. MatchInv(i)'
  <2>1. \A s : Settled(i, s) => (s \in h.view.segments <=> s \in g.view.segments)
    BY <1>7, <1>11
  <2>2. QED BY <1>1, <1>2, <1>3, <1>9, <2>1 DEF MatchInv
<1>14. TrueReaders(i)' /\ acked'[i] \subseteq Indexed'
  BY <1>1, <1>6 DEF TrueReaders
<1>15. ASSUME NEW u \in Threads PROVE PublishInv(u)' /\ PostInv(u)'
  <2>1. CASE u = t
    BY <1>4, <1>5, <2>1 DEF PublishInv, PostInv, At
  <2>2. CASE u # t
    <3>1. request'[u] = request[u] /\ request[u].at \notin Locked
      BY <1>5, <2>2, LockExcludes DEF Locked
    <3>2. QED BY <1>1, <1>6, <3>1 DEF PublishInv, PostInv, At, Locked
  <2>3. QED BY <2>1, <2>2
<1>16. QED BY <1>6, <1>12, <1>13, <1>14, <1>15 DEF DurableInv

\* Sealing, done or failed.
LEMMA SealingKeepsData ==
  ASSUME Types, ShapeInv, DurableInv, NEW i \in Instances, \A j \in Instances : j = i,
         NEW t \in Threads, PutSegment(t) \/ (PutFails(t) /\ request[t].at = "sealing")
  PROVE  DurableInv' /\ Indexed \subseteq Indexed'
<1>1. Serves[t] = i /\ request[t].at = "sealing" /\ request[t] \in RequestType
      /\ ingestor[i] \in IngestorType
  BY DEF PutSegment, At, Types
<1>2. CASE PutSegment(t)
  <2> DEFINE r == [request[t] EXCEPT !.at = "publishing"]
  <2>1. StoreSegment(i) /\ UNCHANGED <<manifest, ingestor, coordinator, acked>>
        /\ request' = [request EXCEPT ![t] = r]
    BY <1>1, <1>2 DEF PutSegment, Go, instanceVars, Types
  <2>2. r.at = "publishing" /\ r.job = request[t].job /\ r.batch = request[t].batch
        /\ r.seen = request[t].seen
    BY <1>1 DEF RequestType
  <2> HIDE DEF r
  <2>3. r.seen.segments \subseteq Known(i)
    BY <2>2, KnownParts
  <2>4. QED BY <1>1, <2>1, <2>2, <2>3, StoreKeepsData
<1>3. CASE PutFails(t)
  <2>1. /\ UNCHANGED objects \/ StoreSegment(i)
        /\ ingestor' = [ingestor EXCEPT ![i].holder = NoThread]
        /\ UNCHANGED <<manifest, coordinator, acked>> /\ Raise(t)
    BY <1>1, <1>3 DEF PutFails, At
  <2>2. PICK r : /\ request' = [request EXCEPT ![t] = r]
                 /\ r.at \in {"idle", "adding"} /\ r.job \in {"none", "last"}
                 /\ r.seen.segments = {}
    BY <2>1, RaisedCarries
  <2>3. /\ ingestor'[i].open = ingestor[i].open /\ ingestor'[i].view = ingestor[i].view
        /\ ingestor'[i].start = ingestor[i].start /\ ingestor'[i].buffer = ingestor[i].buffer
    BY <1>1, <2>1 DEF Types, IngestorType
  <2>4. r.at \notin Locked /\ r.job # "post" /\ r.seen.segments \subseteq Known(i)
    BY <2>2 DEF Locked
  <2>5. QED BY <1>1, <2>1, <2>2, <2>3, <2>4, StoreKeepsData
<1>4. QED BY <1>2, <1>3
-----------------------------------------------------------------------------
(* The theorems.                                                            *)

\* Every step of a single instance keeps the data, and what is indexed.
LEMMA DataStep ==
  ASSUME Alone, Types, ShapeInv, DurableInv, [Next]_vars
  PROVE  DurableInv' /\ Indexed \subseteq Indexed'
<1>1. ASSUME NEW t \in Threads,
             \/ Serve(t) \/ Search(t) \/ StartStream(t) \/ EndStream(t)
             \/ \E e \in Posted : Post(t, e)
             \/ TakeFails(t) \/ PutFails(t) \/ ReadFails(t) \/ OpenFails(t)
      PROVE  DurableInv' /\ Indexed \subseteq Indexed'
  <2>1. PICK i \in Instances : \A j \in Instances : j = i
    BY DEF Alone
  <2>2. CASE \/ StartStream(t) \/ EndStream(t) \/ AskSize(t) \/ ReadManifest(t)
             \/ PlanSearch(t) \/ Respond(t) \/ Take(t) \/ TakeFails(t)
             \/ \E e \in Posted : Post(t, e)
    <3>1. UNCHANGED <<objects, manifest>>
      BY <2>2 DEF Post, StartStream, EndStream, AskSize, ReadManifest, PlanSearch, Respond,
                  Take, TakeFails, storeVars
    <3>2. Indexed' = Indexed
      BY <3>1, IndexedKept
    <3>3. QED BY <2>1, <2>2, <3>2, RequestsKeepData
  <2>3. CASE \/ Search(t) \/ Install(t) \/ Rebuild(t) \/ OpenReader(t)
             \/ ReadFails(t) \/ ReadTorn(t) \/ RebuildFails(t) \/ OpenFails(t)
    <3>1. UNCHANGED <<objects, manifest>>
      BY <2>3 DEF Search, Install, Rebuild, OpenReader, ReadFails, ReadTorn, RebuildFails,
                  RefreshFails, OpenFails, storeVars
    <3>2. Indexed' = Indexed
      BY <3>1, IndexedKept
    <3>3. QED BY <2>1, <2>3, <3>2, CoordinatorKeepsData
  <2>4. CASE Add(t)
    <3>1. Indexed' = Indexed
      BY <2>4, IndexedKept DEF Add, storeVars
    <3>2. QED BY <2>1, <2>4, <3>1, AddKeepsData
  <2>5. CASE PutSegment(t)
    BY <2>1, <2>5, SealingKeepsData
  <2>6. CASE PutManifest(t)
    BY <2>1, <2>6, PutManifestKeepsData
  <2>7. CASE PutFails(t)
    <3>1. request[t].at \in {"sealing", "publishing"}
      BY <2>7 DEF PutFails, At
    <3>2. QED BY <2>1, <2>7, <3>1, SealingKeepsData, PutManifestFailsKeepsData
  <2>8. QED BY <1>1, <2>2, <2>3, <2>4, <2>5, <2>6, <2>7 DEF Serve
<1>2. ASSUME NEW i \in Instances,
             \/ LoadIndex(i) \/ LoadIndexFails(i) \/ OpenForWriting(i) \/ OpenForWritingFails(i)
             \/ Crash(i) \/ Expire(i)
      PROVE  DurableInv' /\ Indexed \subseteq Indexed'
  <2>1. \A j \in Instances : j = i
    BY DEF Alone
  <2>2. UNCHANGED <<objects, manifest>>
    BY <1>2 DEF LoadIndex, LoadIndexFails, OpenForWriting, OpenForWritingFails, Crash, Expire,
                storeVars
  <2>3. Indexed' = Indexed
    BY <2>2, IndexedKept
  <2>4. DurableInv'
    BY <1>2, <2>1, InstancesKeepData, OpenKeepsData, CrashKeepsData
  <2>5. QED BY <2>3, <2>4
<1>3. CASE UNCHANGED vars
  <2>1. UNCHANGED <<objects, manifest, ingestor, coordinator, request, acked>>
    BY <1>3 DEF vars, storeVars, instanceVars
  <2>2. Indexed' = Indexed
    BY <2>1, IndexedKept
  <2>3. ASSUME NEW i \in Instances PROVE DurableInv'
    <3>1. \A j \in Instances : j = i
      BY DEF Alone
    <3>2. \A u \in Threads : Carries(u) /\ request'[u].seen.segments \subseteq Known(i)
      BY <2>1, KnownParts DEF Carries
    <3>3. /\ coordinator'[i].cached.segments \subseteq Known(i)
          /\ DOMAIN coordinator'[i].readers \subseteq Known(i) /\ TrueReaders(i)'
      BY <2>1 DEF Known, DurableInv, TrueReaders
    <3>4. QED BY <2>1, <3>1, <3>2, <3>3, BesideKeeps
  <2>4. CASE Instances = {}
    BY <2>2, <2>4 DEF DurableInv
  <2>5. QED BY <2>2, <2>3, <2>4
<1>4. QED BY <1>1, <1>2, <1>3 DEF Next

\* The invariant, for a single instance.
LEMMA DurableAlways == ASSUME Alone PROVE Spec => [](Types /\ ShapeInv /\ DurableInv)
<1>1. Types /\ ShapeInv /\ DurableInv /\ [Next]_vars => (Types /\ ShapeInv /\ DurableInv)'
  BY ShapeStep, DataStep
<1>2. Init => Types /\ ShapeInv /\ DurableInv
  BY ShapeInit, DurableInit
<1>3. QED BY <1>1, <1>2, PTL DEF Spec

\* One instance's answer to a post is kept: whatever fails or restarts, and however
\* often, the event is in a listed and stored segment from then on.
THEOREM AcknowledgedSurvives == ASSUME Alone PROVE Spec => []AcknowledgedIsDurable
<1>1. DurableInv => AcknowledgedIsDurable
  BY DEF DurableInv, AcknowledgedIsDurable
<1>2. QED BY <1>1, DurableAlways, PTL

\* One instance's open readers are never out of date, so refresh() may keep them:
\* no segment is written again with other contents once something knows of it.
THEOREM ReadersAreTrue == ASSUME Alone PROVE Spec => []ReadersStayTrue
<1>1. DurableInv => ReadersStayTrue
  BY DEF DurableInv, ReadersStayTrue, TrueReaders
<1>2. QED BY <1>1, DurableAlways, PTL

\* Nothing that one instance has indexed ever leaves the index, through restarts,
\* failed and repeated flushes.
THEOREM IndexedForGood == ASSUME Alone PROVE Spec => IndexedStays
<1>1. Types /\ ShapeInv /\ DurableInv /\ [Next]_vars => [Indexed \subseteq Indexed']_vars
  BY DataStep
<1>2. QED BY <1>1, DurableAlways, PTL DEF Spec, IndexedStays
-----------------------------------------------------------------------------
(* What one instance repeats and what it skips.  It lists an event at most *)
(* as often as its client posted it, although every failed flush is        *)
(* repeated: the offsets that hold the event, listed or buffered, are      *)
(* counted.  Its feed, which resumes from the number of documents, skips   *)
(* no more than there are documents too many: a position of the feed is    *)
(* never beyond the offset that holds it.                                  *)

FeedEvents == 0 .. FeedLength - 1

\* The offsets at which an event is listed or buffered.
ListedAt(e) ==
  {n \in Nat : \E s \in manifest.segments : n \in Documents(s) /\ objects[s][n] = e}
BufferedAt(i, e) ==
  {n \in Nat : \E k \in 1 .. Len(ingestor[i].buffer) :
     n = ingestor[i].start + k - 1 /\ ingestor[i].buffer[k] = e}
HeldAt(i, e) == ListedAt(e) \cup BufferedAt(i, e)

\* A client's latest attempt, still to be numbered.
Offers(t, e) == request[t].job = "post" /\ request[t].batch = <<e>> /\ At(t, "adding")
Offered(e) == \E t \in Threads : Offers(t, e)

CountInv(i) ==
  \A e \in Posted :
    Cardinality(HeldAt(i, e)) + (IF Offered(e) THEN 1 ELSE 0) <= attempts[e]

\* A client posts an event again only when its last attempt has ended.
OneAttempt ==
  \A t, u \in Threads :
    /\ request[t].job = "post" /\ request[u].job = "post"
    /\ request[t].batch = request[u].batch
    => t = u

\* What is not posted comes from the feed.
FromFeed(t) == request[t].job # "post" => Range(request[t].batch) \subseteq FeedEvents

CopyInv ==
  /\ Disjoint(manifest.segments)
  /\ \A i \in Instances : Disjoint(ingestor[i].view.segments) /\ CountInv(i)
  /\ \A t \in Threads : FromFeed(t)
  /\ OneAttempt

\* The offsets of an event can be counted.
LEMMA HeldFinite ==
  ASSUME Types, ShapeInv, NEW i \in Instances, NEW e
  PROVE  IsFiniteSet(HeldAt(i, e)) /\ Cardinality(HeldAt(i, e)) \in Nat
<1>1. PICK end \in Nat : \A s \in manifest.segments : s.last < end
  BY DEF ShapeInv, StoreInv, Bounded
<1> DEFINE start == ingestor[i].start
           size == Len(ingestor[i].buffer)
           top == end + start + size
<1>2. start \in Nat /\ size \in Nat
  BY LenProperties DEF Types, IngestorType
<1>3. ASSUME NEW n \in ListedAt(e) PROVE n <= top
  <2>1. PICK s \in manifest.segments : n \in Documents(s)
    BY DEF ListedAt
  <2>2. s.first \in Nat /\ s.last \in Nat /\ s.last < end /\ n \in s.first .. s.last
    BY <1>1, <2>1 DEF Types, Manifest, Segments, Documents
  <2> HIDE DEF start, size
  <2>3. QED BY <1>2, <2>2
<1>4. ASSUME NEW n \in BufferedAt(i, e) PROVE n <= top
  <2>1. PICK k \in 1 .. size : n = start + k - 1
    BY DEF BufferedAt
  <2> HIDE DEF start, size
  <2>2. QED BY <1>2, <2>1
<1>5. HeldAt(i, e) \in SUBSET Nat /\ \A n \in HeldAt(i, e) : n <= top
  BY <1>3, <1>4 DEF HeldAt, ListedAt, BufferedAt
<1>6. top \in Nat
  <2> HIDE DEF start, size
  <2>1. QED BY <1>2
<1> HIDE DEF top
<1>7. QED BY <1>5, <1>6, FS_BoundedSetOfNaturals, FS_CardinalityType

\* An event is listed as often as it is held at a listed offset.
LEMMA CopiesByOffset ==
  ASSUME Types, ShapeInv, NEW i \in Instances, Disjoint(manifest.segments), NEW e
  PROVE  /\ Cardinality(Copies(manifest, e)) \in Nat
         /\ Cardinality(Copies(manifest, e)) <= Cardinality(HeldAt(i, e))
<1> DEFINE C == Copies(manifest, e)
           H == HeldAt(i, e)
           f == [x \in C |-> x[2]]
<1>1. ASSUME NEW x \in C
      PROVE  /\ x = <<x[1], x[2]>> /\ x[1] \in manifest.segments /\ x[2] \in Documents(x[1])
             /\ objects[x[1]][x[2]] = e
  BY DEF Copies, Entries
<1>2. ASSUME NEW x \in C PROVE x[2] \in H
  <2>1. x[1].first \in Nat /\ x[1].last \in Nat
    BY <1>1 DEF Types, Manifest, Segments
  <2>2. x[2] \in Nat
    BY <1>1, <2>1 DEF Documents
  <2>3. QED BY <1>1, <2>2 DEF HeldAt, ListedAt
<1>3. ASSUME NEW x \in C, NEW y \in C, x[2] = y[2] PROVE x = y
  <2>1. x[1] = y[1]
    BY <1>1, <1>3 DEF Disjoint
  <2>2. QED BY <1>1, <1>3, <2>1
<1> HIDE DEF C, H
<1>4. f \in [C -> H] /\ \A x, y \in C : f[x] = f[y] => x = y
  BY <1>2, <1>3
<1>5. f \in Injection(C, H)
  BY <1>4 DEF Injection, IsInjective
<1>6. IsFiniteSet(H)
  BY HeldFinite DEF H
<1> HIDE DEF f
<1>7. IsFiniteSet(C) /\ Cardinality(C) <= Cardinality(H)
  BY <1>5, <1>6, FS_Injection
<1>8. QED BY <1>7, FS_CardinalityType DEF C, H

\* No copies, no attempts.
LEMMA CopyInit == Init => CopyInv
<1> SUFFICES ASSUME Init PROVE CopyInv
  OBVIOUS
<1>1. /\ EmptyManifest.segments = {} /\ NoIngestor.view = EmptyManifest
      /\ NoIngestor.buffer = <<>> /\ Idle.job = "none" /\ Idle.batch = <<>>
  BY DEF EmptyManifest, NoIngestor, Idle
<1>2. Range(<<>>) = {} /\ Len(<<>>) = 0
  BY EmptySeq DEF Range
<1>3. ASSUME NEW i \in Instances PROVE Disjoint(ingestor[i].view.segments) /\ CountInv(i)
  <2>1. ingestor[i].view.segments = {} /\ manifest.segments = {} /\ ingestor[i].buffer = <<>>
    BY <1>1 DEF Init
  <2>2. \A e : HeldAt(i, e) = {}
    BY <1>2, <2>1 DEF HeldAt, ListedAt, BufferedAt
  <2>3. \A e : ~Offered(e)
    BY <1>1 DEF Init, Offered, Offers
  <2>4. \A e \in Posted : attempts[e] = 0
    BY DEF Init
  <2>5. CountInv(i)
    BY <2>2, <2>3, <2>4, FS_EmptySet DEF CountInv
  <2>6. QED BY <2>1, <2>5 DEF Disjoint
<1>4. Disjoint(manifest.segments) /\ OneAttempt /\ \A t \in Threads : FromFeed(t)
  BY <1>1, <1>2 DEF Init, Disjoint, OneAttempt, FromFeed
<1>5. QED BY <1>3, <1>4 DEF CopyInv

\* A thread serves a stream.
Streaming(t) == request[t].job \in {"stream", "last"} \/ At(t, "taking")

\* What a request may do without an event being offered; events to add come
\* from taking, and only a stream takes.
Moves(u) ==
  /\ \/ request'[u].job # "post" /\ Range(request'[u].batch) \subseteq FeedEvents
     \/ /\ request'[u].job = request[u].job /\ request'[u].batch = request[u].batch
        /\ request'[u].at = "adding" => request[u].at = "adding"
  /\ request'[u].at = "adding" =>
       At(u, "taking") \/ At(u, "adding") \/ request'[u].batch = <<>>
  /\ Streaming(u)' => Streaming(u) \/ "stream" \in Does[u]

\* A step that offers nothing and holds no event anywhere else keeps the count.
LEMMA QuietKeepsCount ==
  ASSUME Types, ShapeInv, CopyInv, NEW i \in Instances, \A j \in Instances : j = i,
         UNCHANGED attempts, \A u \in Threads : Moves(u),
         \A e \in Posted : HeldAt(i, e)' \subseteq HeldAt(i, e),
         Disjoint(manifest'.segments), Disjoint(ingestor'[i].view.segments)
  PROVE  CopyInv'
<1>1. ASSUME NEW e \in Posted
      PROVE  Cardinality(HeldAt(i, e))' + (IF Offered(e)' THEN 1 ELSE 0) <= attempts'[e]
  <2> DEFINE n == Cardinality(HeldAt(i, e))
             m == Cardinality(HeldAt(i, e)')
  <2>1. IsFiniteSet(HeldAt(i, e)) /\ n \in Nat
    BY HeldFinite
  <2>2. HeldAt(i, e)' \in SUBSET HeldAt(i, e)
    OBVIOUS
  <2>3. m <= n /\ IsFiniteSet(HeldAt(i, e)')
    BY <2>1, <2>2, FS_Subset
  <2>4. m \in Nat
    BY <2>3, FS_CardinalityType
  <2>5. Offered(e)' => Offered(e)
    BY DEF Moves, Offered, Offers, At
  <2>6. n + (IF Offered(e) THEN 1 ELSE 0) <= attempts[e] /\ attempts[e] \in Nat
    BY BoundsAre DEF CopyInv, CountInv, Types
  <2> HIDE DEF n, m
  <2>7. m + (IF Offered(e)' THEN 1 ELSE 0) <= attempts[e]
    BY <2>1, <2>3, <2>4, <2>5, <2>6
  <2>8. QED BY <2>7 DEF m
<1>2. CountInv(i)'
  BY <1>1 DEF CountInv
<1>3. \A t \in Threads : FromFeed(t)'
  BY DEF CopyInv, FromFeed, Moves
<1>4. OneAttempt'
  <2>1. \A t \in Threads : request'[t].job = "post" =>
          request[t].job = "post" /\ request'[t].batch = request[t].batch
    BY DEF Moves
  <2>2. QED BY <2>1 DEF CopyInv, OneAttempt
<1>5. QED BY <1>2, <1>3, <1>4 DEF CopyInv
-----------------------------------------------------------------------------
(* Requests: only a post offers an event.                                   *)

\* A batch from the feed holds events of the feed.
LEMMA FeedRange ==
  ASSUME NEW n \in Nat, NEW from \in Nat, from + n <= FeedLength
  PROVE  Range([k \in 1 .. n |-> from + k - 1]) \subseteq FeedEvents
<1>1. \A k \in 1 .. n : from + k - 1 \in FeedEvents
  BY DEF FeedEvents
<1>2. QED BY <1>1 DEF Range

\* Requests built from an idle one hold nothing.
LEMMA IdleHoldsNothing ==
  /\ Idle.batch = <<>> /\ Idle.job = "none" /\ Idle.at = "idle"
  /\ Range(<<>>) \subseteq FeedEvents
<1>1. Range(<<>>) = {}
  BY DEF Range
<1>2. QED BY <1>1 DEF Idle

\* Whatever it does but post, a thread offers no event.
LEMMA RequestsMove ==
  ASSUME Types, ShapeInv, NEW t \in Threads,
         \/ Serve(t) \/ Search(t) \/ StartStream(t) \/ EndStream(t)
         \/ TakeFails(t) \/ PutFails(t) \/ ReadFails(t) \/ OpenFails(t)
  PROVE  \A u \in Threads : Moves(u)
<1> DEFINE i == Serves[t]
           q == request[t]
           Quiet(r) ==
             /\ \/ r.job # "post" /\ Range(r.batch) \subseteq FeedEvents
                \/ /\ r.job = q.job /\ r.batch = q.batch
                   /\ r.at = "adding" => q.at = "adding"
             /\ r.at = "adding" => q.at \in {"taking", "adding"} \/ r.batch = <<>>
             /\ r.job \in {"stream", "last"} \/ r.at = "taking" =>
                  q.job \in {"stream", "last"} \/ q.at = "taking" \/ "stream" \in Does[t]
<1>1. q \in RequestType /\ Quiet(Idle)
  BY IdleHoldsNothing DEF Types
<1>2. ASSUME NEW r, Quiet(r), request' = [request EXCEPT ![t] = r]
      PROVE  \A u \in Threads : Moves(u)
  BY <1>2 DEF Moves, Streaming, At, Types
<1>3. ASSUME NEW place, place \notin {"adding", "taking"}, Go(t, place)
      PROVE  \A u \in Threads : Moves(u)
  <2> DEFINE r == [q EXCEPT !.at = place]
  <2>1. r.job = q.job /\ r.batch = q.batch /\ r.at = place
    BY <1>1 DEF RequestType
  <2>2. request' = [request EXCEPT ![t] = r]
    BY <1>3 DEF Go, Types
  <2> HIDE DEF r
  <2>3. QED BY <1>2, <1>3, <2>1, <2>2
<1>4. ASSUME Raise(t) PROVE \A u \in Threads : Moves(u)
  <2> DEFINE last == [Idle EXCEPT !.at = "adding", !.job = "last"]
             r == IF q.job = "stream" THEN last ELSE Idle
  <2>1. last.job = "last" /\ last.batch = <<>> /\ last.at = "adding"
    BY DEF Idle
  <2>2. request' = [request EXCEPT ![t] = r]
    BY <1>4 DEF Raise
  <2> HIDE DEF last
  <2>3. q.job = "stream" => Quiet(last)
    BY <2>1, IdleHoldsNothing
  <2>4. Quiet(r)
    BY <1>1, <2>3
  <2> HIDE DEF r
  <2>5. QED BY <1>2, <2>2, <2>4
<1>5. ASSUME NEW n \in Nat, feed[i].next + n <= FeedLength, Hand(t, n), q.at = "taking"
      PROVE  \A u \in Threads : Moves(u)
  <2> DEFINE batch == [k \in 1 .. n |-> feed[i].next + k - 1]
             job == IF n = 0 THEN "last" ELSE "stream"
             r == [Idle EXCEPT !.at = "adding", !.job = job, !.batch = batch]
  <2>1. request' = [request EXCEPT ![t] = r]
    BY <1>5 DEF Hand
  <2>2. feed[i].next \in Nat
    BY BoundsAre DEF Types, FeedType
  <2>3. Range(batch) \subseteq FeedEvents
    BY <1>5, <2>2, FeedRange
  <2>4. job # "post"
    OBVIOUS
  <2> HIDE DEF batch, job
  <2>5. r.batch = batch /\ r.job = job /\ r.at = "adding"
    BY DEF Idle
  <2> HIDE DEF r
  <2>6. QED BY <1>2, <1>5, <2>1, <2>3, <2>4, <2>5
<1>6. feed[i].next \in 0 .. FeedLength
  BY DEF Types, FeedType
<1>7. CASE Take(t) \/ TakeFails(t) \/ EndStream(t)
  <2>1. PICK n \in 0 .. FeedLength - feed[i].next : Hand(t, n)
    <3>1. CASE Take(t)
      <4> DEFINE n == Min({Batch, IF feed[i].dry THEN InChunk(i) ELSE FeedLength - feed[i].next})
      <4>1. n \in 0 .. FeedLength - feed[i].next
        BY <1>6, TakenWithinFeed
      <4>2. Hand(t, n)
        BY <3>1 DEF Take
      <4> HIDE DEF n
      <4>3. QED BY <4>1, <4>2
    <3>2. CASE TakeFails(t)
      BY <1>6, <3>2, ChunkWithinFeed DEF TakeFails
    <3>3. CASE EndStream(t)
      BY <1>6, <3>3, BoundsAre DEF EndStream
    <3>4. QED BY <1>7, <3>1, <3>2, <3>3
  <2>2. n \in Nat /\ feed[i].next + n <= FeedLength /\ q.at = "taking"
    BY <1>6, <1>7, <2>1, BoundsAre DEF Take, TakeFails, EndStream, At
  <2>3. QED BY <1>5, <2>1, <2>2
<1>8. CASE StartStream(t)
  <2> DEFINE r == [Idle EXCEPT !.at = "taking", !.job = "stream"]
  <2>1. r.batch = <<>> /\ r.job = "stream" /\ r.at = "taking"
    BY DEF Idle
  <2>2. request' = [request EXCEPT ![t] = r] /\ "stream" \in Does[t]
    BY <1>8 DEF StartStream, Begin
  <2> HIDE DEF r
  <2>3. QED BY <1>2, <2>1, <2>2, IdleHoldsNothing
<1>9. CASE Search(t)
  <2> DEFINE stale == ~coordinator[i].fresh /\ coordinator[i].checker = NoThread
             place == IF stale THEN "sizing" ELSE "planning"
             due == acked[i]
             r == [Idle EXCEPT !.at = place, !.job = "search", !.due = due]
  <2>1. request' = [request EXCEPT ![t] = r]
    BY <1>9 DEF Search
  <2>2. place \in {"sizing", "planning"}
    OBVIOUS
  <2> HIDE DEF place, due
  <2>3. r.batch = <<>> /\ r.job = "search" /\ r.at = place
    BY DEF Idle
  <2> HIDE DEF r
  <2>4. QED BY <1>2, <2>1, <2>2, <2>3, IdleHoldsNothing
<1>10. CASE Respond(t)
  BY <1>1, <1>2, <1>10 DEF Respond
<1>11. CASE PutSegment(t) \/ PutManifest(t) \/ Install(t)
  <2>1. \E place \in {"publishing", "sizing", "rebuilding"} : Go(t, place)
    BY <1>11 DEF PutSegment, PutManifest, Install
  <2>2. QED BY <1>3, <2>1
<1>12. CASE ReadFails(t) \/ ReadTorn(t) \/ RebuildFails(t) \/ OpenFails(t)
  <2>1. Go(t, "planning") \/ Raise(t)
    BY <1>12 DEF ReadFails, ReadTorn, RebuildFails, RefreshFails, OpenFails
  <2>2. QED BY <1>3, <1>4, <2>1
<1>13. CASE PutFails(t)
  BY <1>4, <1>13 DEF PutFails
<1>14. CASE AskSize(t) \/ ReadManifest(t) \/ PlanSearch(t)
  <2>1. PICK m \in {manifest, coordinator[i].cached},
             place \in {"installing", "reading", "opening"} :
          request' = [request EXCEPT ![t].seen = m, ![t].at = place]
    BY <1>14 DEF AskSize, ReadManifest, PlanSearch
  <2> DEFINE r == [[q EXCEPT !.seen = m] EXCEPT !.at = place]
  <2>2. r.job = q.job /\ r.batch = q.batch /\ r.at = place
    BY <1>1 DEF RequestType
  <2>3. request' = [request EXCEPT ![t] = r]
    BY <2>1 DEF Types
  <2> HIDE DEF r
  <2>4. QED BY <1>2, <2>1, <2>2, <2>3
<1>15. CASE OpenReader(t)
  <2>1. PICK s, events :
          request' = [request EXCEPT ![t].seen.segments = @ \ {s}, ![t].found = @ \cup events]
    BY <1>15, Zenon DEF OpenReader
  <2> DEFINE left == [q.seen EXCEPT !.segments = @ \ {s}]
             r == [[q EXCEPT !.seen = left] EXCEPT !.found = @ \cup events]
  <2>2. r.job = q.job /\ r.batch = q.batch /\ r.at = q.at
    BY <1>1 DEF RequestType
  <2>3. request' = [request EXCEPT ![t] = r]
    BY <1>1, <2>1 DEF Types, RequestType
  <2>4. q.at = "opening"
    BY <1>15 DEF OpenReader, At
  <2> HIDE DEF r
  <2>5. QED BY <1>2, <2>2, <2>3, <2>4
<1>16. CASE Rebuild(t)
  <2> DEFINE toPlan == [q EXCEPT !.at = "planning"]
             toTake == [Idle EXCEPT !.at = "taking", !.job = "stream"]
             r == CASE q.job = "search" -> toPlan
                    [] q.job = "stream" -> toTake
                    [] OTHER -> Idle
  <2>1. request' = [request EXCEPT ![t] = r]
    BY <1>16 DEF Rebuild, Proceed, Types
  <2>2. /\ toPlan.at = "planning" /\ toPlan.job = q.job /\ toPlan.batch = q.batch
        /\ toTake.job = "stream" /\ toTake.batch = <<>> /\ toTake.at = "taking"
    BY <1>1 DEF Idle, RequestType
  <2> HIDE DEF toPlan, toTake
  <2>3. Quiet(toPlan) /\ (q.job = "stream" => Quiet(toTake))
    BY <2>2, IdleHoldsNothing
  <2>4. r \in {toPlan, Idle} \/ (q.job = "stream" /\ r = toTake)
    OBVIOUS
  <2> HIDE DEF r
  <2>5. Quiet(r)
    BY <1>1, <2>3, <2>4
  <2>6. QED BY <1>2, <2>1, <2>5
<1>17. CASE Add(t)
  <2> DEFINE grown == ingestor[i].buffer \o q.batch
             seals == grown # <<>> /\ (q.job # "stream" \/ Len(grown) >= SegmentDocs)
             toSeal == [q EXCEPT !.at = "sealing"]
             toTake == [q EXCEPT !.at = "taking", !.batch = <<>>]
             r == IF seals THEN toSeal ELSE IF q.job = "stream" THEN toTake ELSE Idle
  <2>1. request' = [request EXCEPT ![t] = r]
    BY <1>17 DEF Add, Types
  <2>2. /\ toSeal.at = "sealing" /\ toSeal.job = q.job /\ toSeal.batch = q.batch
        /\ toTake.job = q.job /\ toTake.batch = <<>>
    BY <1>1 DEF RequestType
  <2> HIDE DEF toSeal, toTake, seals
  <2>3. Quiet(toSeal) /\ (q.job = "stream" => Quiet(toTake))
    BY <2>2, IdleHoldsNothing
  <2>4. Quiet(r)
    BY <1>1, <2>3
  <2> HIDE DEF r
  <2>5. QED BY <1>2, <2>1, <2>4
<1>18. QED
  BY <1>7, <1>8, <1>9, <1>10, <1>11, <1>12, <1>13, <1>14, <1>15, <1>16, <1>17 DEF Serve
-----------------------------------------------------------------------------
(* Where an event is held.                                                  *)

\* Listed objects that stay, under a buffer that stays or goes, hold no event at
\* another offset.
LEMMA HeldStays ==
  ASSUME NEW i, UNCHANGED manifest, \A s \in manifest.segments : objects'[s] = objects[s],
         \/ /\ ingestor'[i].buffer = ingestor[i].buffer
            /\ ingestor'[i].start = ingestor[i].start
         \/ ingestor'[i].buffer = <<>>
  PROVE  \A e : HeldAt(i, e)' \subseteq HeldAt(i, e)
<1>1. ASSUME NEW e PROVE ListedAt(e)' \subseteq ListedAt(e)
  BY DEF ListedAt
<1>2. ASSUME NEW e PROVE BufferedAt(i, e)' \subseteq BufferedAt(i, e)
  <2>1. CASE /\ ingestor'[i].buffer = ingestor[i].buffer
             /\ ingestor'[i].start = ingestor[i].start
    BY <2>1 DEF BufferedAt
  <2>2. CASE ingestor'[i].buffer = <<>>
    <3>1. 1 .. Len(<<>>) = {}
      BY EmptySeq
    <3>2. QED BY <2>2, <3>1 DEF BufferedAt
  <2>3. QED BY <2>1, <2>2
<1>3. QED BY <1>1, <1>2 DEF HeldAt

\* Publishing the buffer lists its events where they were buffered.
LEMMA HeldPublished ==
  ASSUME Types, NEW i \in Instances, KnownInv(i), MatchInv(i), ingestor[i].open,
         ingestor[i].buffer # <<>>, objects[Sealed(i)] = Contents(i), UNCHANGED objects,
         manifest' \in {manifest, Publish(ingestor[i].view, Sealed(i))},
         \/ /\ ingestor'[i].buffer = ingestor[i].buffer
            /\ ingestor'[i].start = ingestor[i].start
         \/ ingestor'[i].buffer = <<>>
  PROVE  \A e : HeldAt(i, e)' \subseteq HeldAt(i, e)
<1>1. CASE manifest' = manifest
  BY <1>1, HeldStays
<1>2. CASE manifest' = Publish(ingestor[i].view, Sealed(i))
  <2> DEFINE buffer == ingestor[i].buffer
             start == ingestor[i].start
             size == Len(buffer)
             sealed == Sealed(i)
  <2>1. /\ sealed \in Segments /\ sealed.first = start /\ sealed.last = start + size - 1
        /\ start \in Nat /\ size \in Nat
    BY SealedType, LenProperties DEF Types, IngestorType
  <2>2. ASSUME NEW s \in manifest'.segments PROVE s \in manifest.segments \/ s = sealed
    BY <1>2, PublishedSet DEF MatchInv
  <2>3. ASSUME NEW e, NEW n \in ListedAt(e)' PROVE n \in HeldAt(i, e)
    <3>1. n \in Nat
      BY DEF ListedAt
    <3>2. PICK s \in manifest'.segments : n \in Documents(s) /\ objects[s][n] = e
      BY DEF ListedAt
    <3>3. CASE s \in manifest.segments
      BY <3>1, <3>2, <3>3 DEF HeldAt, ListedAt
    <3>4. CASE s = sealed
      <4>1. n \in Documents(sealed) /\ Contents(i)[n] = e
        BY <3>2, <3>4
      <4>2. buffer[n - start + 1] = e
        BY <4>1 DEF Contents
      <4>3. n - start + 1 \in 1 .. size /\ n = start + (n - start + 1) - 1
        <5>1. n \in sealed.first .. sealed.last
          BY <4>1 DEF Documents
        <5> HIDE DEF sealed, start, size
        <5>2. QED BY <2>1, <3>1, <5>1
      <4>4. n \in BufferedAt(i, e)
        BY <3>1, <4>2, <4>3 DEF BufferedAt
      <4>5. QED BY <4>4 DEF HeldAt
    <3>5. QED BY <2>2, <3>3, <3>4
  <2>4. ASSUME NEW e, NEW n \in BufferedAt(i, e)' PROVE n \in HeldAt(i, e)
    <3>1. CASE ingestor'[i].buffer = <<>>
      <4>1. 1 .. Len(<<>>) = {}
        BY EmptySeq
      <4>2. QED BY <3>1, <4>1 DEF BufferedAt
    <3>2. CASE ingestor'[i].buffer = ingestor[i].buffer /\ ingestor'[i].start = ingestor[i].start
      BY <3>2 DEF BufferedAt, HeldAt
    <3>3. QED BY <3>1, <3>2
  <2>5. QED BY <2>3, <2>4 DEF HeldAt
<1>3. QED BY <1>1, <1>2

\* Numbering an event takes one more offset, for that event only.
LEMMA HeldAdded ==
  ASSUME Types, NEW i \in Instances, NEW batch \in Seq(Event), UNCHANGED <<objects, manifest>>,
         ingestor'[i].buffer = ingestor[i].buffer \o batch,
         ingestor'[i].start = ingestor[i].start
  PROVE  /\ \A e : e \notin Range(batch) => HeldAt(i, e)' \subseteq HeldAt(i, e)
         /\ \A e : batch = <<e>> =>
              HeldAt(i, e)'
                \subseteq HeldAt(i, e) \cup {ingestor[i].start + Len(ingestor[i].buffer)}
         /\ \A e : \A n \in HeldAt(i, e)' :
              \/ n \in HeldAt(i, e)
              \/ \E j \in 1 .. Len(batch) :
                   /\ batch[j] = e
                   /\ n = ingestor[i].start + Len(ingestor[i].buffer) + j - 1
<1> DEFINE buffer == ingestor[i].buffer
           start == ingestor[i].start
           size == Len(buffer)
           more == Len(batch)
           grown == buffer \o batch
<1>1. /\ start \in Nat /\ buffer \in Seq(Event) /\ size \in Nat /\ more \in Nat
      /\ DOMAIN batch = 1 .. more
      /\ Len(grown) = size + more
      /\ \A k \in 1 .. size + more :
           grown[k] = IF k <= size THEN buffer[k] ELSE batch[k - size]
  BY ConcatProperties, LenProperties DEF Types, IngestorType
<1> HIDE DEF grown
<1>2. ASSUME NEW e, NEW n \in BufferedAt(i, e)'
      PROVE  \/ n \in BufferedAt(i, e)
             \/ \E j \in 1 .. more : batch[j] = e /\ n = start + size + j - 1
  <2>1. n \in Nat /\ \E k \in 1 .. Len(grown) : n = start + k - 1 /\ grown[k] = e
    BY DEF BufferedAt, grown
  <2>2. PICK k \in 1 .. size + more : n = start + k - 1 /\ grown[k] = e
    BY <1>1, <2>1
  <2>3. CASE k <= size
    <3>1. k \in 1 .. size /\ buffer[k] = e
      <4>1. grown[k] = buffer[k]
        BY <1>1, <2>2, <2>3
      <4> HIDE DEF size, more
      <4>2. QED BY <1>1, <2>2, <2>3, <4>1
    <3>2. QED BY <2>1, <2>2, <3>1 DEF BufferedAt
  <2>4. CASE ~(k <= size)
    <3>1. grown[k] = batch[k - size]
      BY <1>1, <2>2, <2>4
    <3> HIDE DEF size, more, start
    <3>2. k - size \in 1 .. more /\ n = start + size + (k - size) - 1
      BY <1>1, <2>2, <2>4
    <3>3. QED BY <2>2, <3>1, <3>2
  <2>5. QED BY <2>3, <2>4
<1>3. \A e : ListedAt(e)' = ListedAt(e)
  BY DEF ListedAt
<1>4. ASSUME NEW e, e \notin Range(batch) PROVE HeldAt(i, e)' \subseteq HeldAt(i, e)
  <2>1. \A j \in 1 .. more : batch[j] # e
    BY <1>1, <1>4 DEF Range
  <2>2. \A n \in BufferedAt(i, e)' : n \in BufferedAt(i, e)
    BY <1>2, <2>1
  <2>3. QED BY <1>3, <2>2 DEF HeldAt
<1>5. ASSUME NEW e, batch = <<e>>
      PROVE  HeldAt(i, e)' \subseteq HeldAt(i, e) \cup {start + size}
  <2>1. more = 1
    BY <1>5
  <2>2. \A n \in BufferedAt(i, e)' : n \in BufferedAt(i, e) \/ n = start + size
    <3> SUFFICES ASSUME NEW n \in BufferedAt(i, e)', n \notin BufferedAt(i, e)
                 PROVE  n = start + size
      OBVIOUS
    <3>1. PICK j \in 1 .. more : n = start + size + j - 1
      BY <1>2
    <3> HIDE DEF size, more, start
    <3>2. QED BY <1>1, <2>1, <3>1
  <2>3. QED BY <1>3, <2>2 DEF HeldAt
<1>6. ASSUME NEW e, NEW n \in HeldAt(i, e)'
      PROVE  \/ n \in HeldAt(i, e)
             \/ \E j \in 1 .. more : batch[j] = e /\ n = start + size + j - 1
  BY <1>2, <1>3 DEF HeldAt
<1>7. QED BY <1>4, <1>5, <1>6
-----------------------------------------------------------------------------
(* Steps.                                                                   *)

\* A client's attempt is counted before it is offered.
LEMMA PostKeepsCount ==
  ASSUME Types, ShapeInv, CopyInv, NEW i \in Instances, \A j \in Instances : j = i,
         NEW t \in Threads, NEW e \in Posted, Post(t, e)
  PROVE  CopyInv'
<1> DEFINE r == [Idle EXCEPT !.at = "adding", !.job = "post", !.batch = <<e>>]
<1>1. /\ UNCHANGED <<objects, manifest, ingestor>> /\ attempts' = [attempts EXCEPT ![e] = @ + 1]
      /\ \A u \in Threads : request[u].job # "post" \/ request[u].batch # <<e>>
  BY DEF Post, storeVars, instanceVars
<1>2. request'[t] = r /\ \A u \in Threads : u # t => request'[u] = request[u]
  BY DEF Post, Types
<1>3. r.job = "post" /\ r.batch = <<e>>
  BY DEF Idle
<1> HIDE DEF r
<1>4. \A d : HeldAt(i, d)' = HeldAt(i, d)
  BY <1>1 DEF HeldAt, ListedAt, BufferedAt
<1>5. ASSUME NEW d \in Posted
      PROVE  Cardinality(HeldAt(i, d)') + (IF Offered(d)' THEN 1 ELSE 0) <= attempts'[d]
  <2> DEFINE n == Cardinality(HeldAt(i, d))
  <2>1. n \in Nat /\ attempts[d] \in Nat /\ n + (IF Offered(d) THEN 1 ELSE 0) <= attempts[d]
    BY HeldFinite, BoundsAre DEF Types, CopyInv, CountInv
  <2>2. Cardinality(HeldAt(i, d)') = n
    BY <1>4
  <2> HIDE DEF n
  <2>3. CASE d = e
    <3>1. ~Offered(d)
      BY <1>1, <2>3 DEF Offered, Offers
    <3>2. attempts'[d] = attempts[d] + 1
      BY <1>1, <2>3 DEF Types
    <3>3. QED BY <2>1, <2>2, <3>1, <3>2
  <2>4. CASE d # e
    <3>1. Offered(d)' => Offered(d)
      <4>1. r.batch # <<d>>
        BY <1>3, <2>4
      <4>2. QED BY <1>2, <4>1 DEF Offered, Offers, At
    <3>2. attempts'[d] = attempts[d]
      BY <1>1, <2>4 DEF Types
    <3>3. QED BY <2>1, <2>2, <3>1, <3>2
  <2>5. QED BY <2>3, <2>4
<1>6. CountInv(i)'
  BY <1>5 DEF CountInv
<1>7. \A u \in Threads : FromFeed(u)'
  BY <1>2, <1>3 DEF CopyInv, FromFeed
<1>8. OneAttempt'
  BY <1>1, <1>2, <1>3 DEF CopyInv, OneAttempt
<1>9. QED BY <1>1, <1>6, <1>7, <1>8 DEF CopyInv

\* An event that is offered is numbered once, and is offered no more.
LEMMA AddKeepsCount ==
  ASSUME Types, ShapeInv, CopyInv, NEW i \in Instances, \A j \in Instances : j = i,
         NEW t \in Threads, Add(t)
  PROVE  CopyInv'
<1> DEFINE q == request[t]
           g == ingestor[i]
           h == ingestor'[i]
<1>1. UNCHANGED <<objects, manifest, attempts>> /\ Serves[t] = i /\ q.at = "adding"
  BY DEF Add, storeVars, countVars, At
<1>2. q \in RequestType /\ q.batch \in Seq(Event) /\ g \in IngestorType
  BY DEF Types, RequestType
<1>3. h.view = g.view /\ h.start = g.start /\ h.buffer = g.buffer \o q.batch
  BY <1>1, <1>2 DEF Add, Types, IngestorType
<1>4. \A u \in Threads : Moves(u)
  BY RequestsMove DEF Serve
<1>5. /\ \A e : e \notin Range(q.batch) => HeldAt(i, e)' \subseteq HeldAt(i, e)
      /\ \A e : q.batch = <<e>> =>
           HeldAt(i, e)' \subseteq HeldAt(i, e) \cup {g.start + Len(g.buffer)}
  BY <1>1, <1>2, <1>3, HeldAdded
<1>6. Disjoint(manifest'.segments) /\ Disjoint(h.view.segments)
  BY <1>1, <1>3 DEF CopyInv
<1>7. CASE q.job # "post"
  <2>1. \A e \in Posted : e \notin Range(q.batch)
    BY <1>7 DEF CopyInv, FromFeed, FeedEvents
  <2>2. QED BY <1>1, <1>4, <1>5, <1>6, <2>1, QuietKeepsCount
<1>8. CASE q.job = "post"
  <2>1. PICK e \in Posted : q.batch = <<e>>
    BY <1>8 DEF ShapeInv, RequestInv
  <2>2. Range(q.batch) = {e}
    BY <2>1 DEF Range
  <2>3. \A u \in Threads : u # t => request'[u] = request[u]
    BY DEF Add, Types
  <2>4. request'[t].at # "adding"
    <3> DEFINE grown == g.buffer \o q.batch
               seals == grown # <<>> /\ (q.job # "stream" \/ Len(grown) >= SegmentDocs)
               toSeal == [q EXCEPT !.at = "sealing"]
    <3>1. request'[t] = IF seals THEN toSeal ELSE Idle
      BY <1>1, <1>8 DEF Add, Types
    <3>2. toSeal.at = "sealing" /\ Idle.at = "idle"
      BY <1>2 DEF RequestType, Idle
    <3> HIDE DEF seals, toSeal
    <3>3. QED BY <3>1, <3>2
  <2>5. Offered(e) /\ ~Offered(e)'
    <3>1. Offers(t, e)
      BY <1>1, <1>8, <2>1 DEF Offers, At
    <3>2. ASSUME NEW u \in Threads, Offers(u, e)' PROVE FALSE
      <4>1. u # t
        BY <2>4, <3>2 DEF Offers, At
      <4>2. request[u].job = "post" /\ request[u].batch = q.batch
        BY <2>1, <2>3, <3>2, <4>1 DEF Offers
      <4>3. QED BY <1>8, <4>1, <4>2 DEF CopyInv, OneAttempt
    <3>3. QED BY <3>1, <3>2 DEF Offered
  <2>6. ASSUME NEW d \in Posted
        PROVE  Cardinality(HeldAt(i, d)') + (IF Offered(d)' THEN 1 ELSE 0) <= attempts'[d]
    <3> DEFINE n == Cardinality(HeldAt(i, d))
               m == Cardinality(HeldAt(i, d)')
               next == g.start + Len(g.buffer)
    <3>1. /\ IsFiniteSet(HeldAt(i, d)) /\ n \in Nat /\ attempts[d] \in Nat
          /\ n + (IF Offered(d) THEN 1 ELSE 0) <= attempts[d]
      BY HeldFinite, BoundsAre DEF Types, CopyInv, CountInv
    <3>2. CASE d = e
      <4> DEFINE H == HeldAt(i, d) \cup {next}
      <4>1. HeldAt(i, d)' \in SUBSET H
        BY <1>5, <2>1, <3>2
      <4>2. IsFiniteSet(H) /\ Cardinality(H) <= n + 1
        <5> HIDE DEF next
        <5>1. IsFiniteSet(H) /\ Cardinality(H) = IF next \in HeldAt(i, d) THEN n ELSE n + 1
          BY <3>1, FS_AddElement
        <5> HIDE DEF H, n
        <5>2. QED BY <3>1, <5>1
      <4> HIDE DEF H
      <4>3. IsFiniteSet(HeldAt(i, d)') /\ m <= Cardinality(H)
        BY <4>1, <4>2, FS_Subset
      <4>4. m \in Nat /\ Cardinality(H) \in Nat
        BY <4>2, <4>3, FS_CardinalityType
      <4> HIDE DEF m, n
      <4>5. m <= attempts[d]
        BY <2>5, <3>1, <3>2, <4>2, <4>3, <4>4
      <4>6. QED BY <1>1, <2>5, <3>2, <4>4, <4>5 DEF m
    <3>3. CASE d # e
      <4>1. HeldAt(i, d)' \in SUBSET HeldAt(i, d)
        BY <1>5, <2>2, <3>3
      <4>2. IsFiniteSet(HeldAt(i, d)') /\ m <= n
        BY <3>1, <4>1, FS_Subset
      <4>3. m \in Nat
        BY <4>2, FS_CardinalityType
      <4>4. Offered(d)' => Offered(d)
        BY <1>4 DEF Moves, Offered, Offers, At
      <4> HIDE DEF m, n
      <4>5. m + (IF Offered(d)' THEN 1 ELSE 0) <= attempts[d]
        BY <3>1, <4>2, <4>3, <4>4
      <4>6. QED BY <1>1, <4>5 DEF m
    <3>4. QED BY <3>2, <3>3
  <2>7. CountInv(i)'
    BY <2>6 DEF CountInv
  <2>8. \A u \in Threads : FromFeed(u)'
    BY <1>4 DEF CopyInv, FromFeed, Moves
  <2>9. OneAttempt'
    <3>1. \A u \in Threads : request'[u].job = "post" =>
            request[u].job = "post" /\ request'[u].batch = request[u].batch
      BY <1>4 DEF Moves
    <3>2. QED BY <3>1 DEF CopyInv, OneAttempt
  <2>10. QED BY <1>6, <2>7, <2>8, <2>9 DEF CopyInv
<1>9. QED BY <1>7, <1>8

\* Steps that only move requests and coordinators, or that leave the writer idle.
LEMMA BesideKeepsCount ==
  ASSUME Types, ShapeInv, CopyInv, NEW i \in Instances, \A j \in Instances : j = i,
         UNCHANGED <<objects, manifest, attempts>>, \A u \in Threads : Moves(u),
         \/ ingestor'[i] = ingestor[i]
         \/ ingestor'[i].buffer = <<>> /\ Disjoint(ingestor'[i].view.segments)
  PROVE  CopyInv'
<1>1. \A e \in Posted : HeldAt(i, e)' \subseteq HeldAt(i, e)
  BY HeldStays
<1>2. Disjoint(manifest'.segments) /\ Disjoint(ingestor'[i].view.segments)
  BY DEF CopyInv
<1>3. QED BY <1>1, <1>2, QuietKeepsCount

\* Flushing, done or failed.
LEMMA FlushKeepsCount ==
  ASSUME Types, ShapeInv, DurableInv, CopyInv, NEW i \in Instances, \A j \in Instances : j = i,
         NEW t \in Threads, PutSegment(t) \/ PutManifest(t) \/ PutFails(t)
  PROVE  CopyInv'
<1> DEFINE g == ingestor[i]
           h == ingestor'[i]
<1>1. /\ Serves[t] = i /\ g \in IngestorType /\ KnownInv(i) /\ MatchInv(i)
      /\ request[t].at \in Locked /\ UNCHANGED attempts
      /\ g.view \in Manifest
  BY DEF PutSegment, PutManifest, PutFails, At, Locked, Types, IngestorType, DurableInv, countVars
<1>2. g.open /\ g.buffer # <<>> /\ Sealed(i) \in Segments
  BY <1>1, AtTheIngestor DEF Writing, Locked
<1>3. \A u \in Threads : Moves(u)
  BY RequestsMove DEF Serve
<1>4. Disjoint(g.view.segments) /\ Disjoint(manifest.segments)
      /\ Disjoint(Publish(g.view, Sealed(i)).segments)
  BY <1>1, <1>2, PublishDisjoint DEF CopyInv
<1>5. CASE request[t].at = "sealing"
  <2>1. /\ UNCHANGED manifest /\ (UNCHANGED objects \/ StoreSegment(i))
        /\ h.view = g.view /\ h.start = g.start /\ h.buffer = g.buffer
    BY <1>1, <1>5
       DEF PutSegment, PutManifest, PutFails, At, Types, IngestorType, instanceVars
  <2>2. \A s \in manifest.segments : objects'[s] = objects[s]
    <3>1. manifest.segments \subseteq Known(i)
      BY DEF Known
    <3>2. QED BY <1>1, <1>2, <2>1, <3>1, KnownUntouched
  <2>3. \A e \in Posted : HeldAt(i, e)' \subseteq HeldAt(i, e)
    BY <2>1, <2>2, HeldStays
  <2>4. Disjoint(manifest'.segments) /\ Disjoint(h.view.segments)
    BY <1>4, <2>1
  <2>5. QED BY <1>1, <1>3, <2>3, <2>4, QuietKeepsCount
<1>6. CASE request[t].at = "publishing"
  <2>1. objects[Sealed(i)] = Contents(i)
    BY <1>1, <1>6 DEF DurableInv, PublishInv, At
  <2>2. /\ UNCHANGED objects /\ manifest' \in {manifest, Publish(g.view, Sealed(i))}
        /\ h.view = Publish(g.view, Sealed(i))
        /\ (h.buffer = g.buffer /\ h.start = g.start) \/ h.buffer = <<>>
    <3>1. CASE PutManifest(t)
      BY <1>1, <3>1 DEF PutManifest, Types, IngestorType
    <3>2. CASE PutFails(t)
      <4>1. /\ UNCHANGED objects /\ (UNCHANGED manifest \/ manifest' = h.view)
            /\ ingestor' = [ingestor EXCEPT
                 ![i].view = Publish(@, Sealed(i)), ![i].holder = NoThread]
        BY <1>1, <1>6, <3>2 DEF PutFails, At
      <4>2. QED BY <1>1, <4>1 DEF Types, IngestorType
    <3>3. QED BY <1>6, <3>1, <3>2 DEF PutSegment, At
  <2>3. \A e \in Posted : HeldAt(i, e)' \subseteq HeldAt(i, e)
    BY <1>1, <1>2, <2>1, <2>2, HeldPublished
  <2>4. Disjoint(manifest'.segments) /\ Disjoint(h.view.segments)
    BY <1>4, <2>2
  <2>5. QED BY <1>1, <1>3, <2>3, <2>4, QuietKeepsCount
<1>7. QED BY <1>1, <1>5, <1>6 DEF Locked

\* Every step of a single instance keeps the count.
LEMMA CopyStep ==
  ASSUME Alone, Types, ShapeInv, DurableInv, CopyInv, [Next]_vars
  PROVE  CopyInv'
<1>1. ASSUME NEW t \in Threads,
             \/ Serve(t) \/ Search(t) \/ StartStream(t) \/ EndStream(t)
             \/ \E e \in Posted : Post(t, e)
             \/ TakeFails(t) \/ PutFails(t) \/ ReadFails(t) \/ OpenFails(t)
      PROVE  CopyInv'
  <2>1. PICK i \in Instances : \A j \in Instances : j = i
    BY DEF Alone
  <2>2. CASE \E e \in Posted : Post(t, e)
    BY <2>1, <2>2, PostKeepsCount
  <2>3. CASE Add(t)
    BY <2>1, <2>3, AddKeepsCount
  <2>4. CASE PutSegment(t) \/ PutManifest(t) \/ PutFails(t)
    BY <2>1, <2>4, FlushKeepsCount
  <2>5. CASE \/ Take(t) \/ AskSize(t) \/ ReadManifest(t) \/ ReadTorn(t) \/ Install(t)
             \/ Rebuild(t) \/ RebuildFails(t) \/ PlanSearch(t) \/ OpenReader(t) \/ Respond(t)
             \/ ReadFails(t) \/ OpenFails(t)
             \/ Search(t) \/ StartStream(t) \/ EndStream(t) \/ TakeFails(t)
    <3>1. UNCHANGED <<objects, manifest, ingestor, attempts>>
      BY <2>5 DEF Take, AskSize, ReadManifest, ReadTorn, Install, Rebuild, RebuildFails,
                  RefreshFails, PlanSearch, OpenReader, Respond, Search, StartStream,
                  ReadFails, OpenFails, EndStream, TakeFails, storeVars, instanceVars, countVars
    <3>2. \A u \in Threads : Moves(u)
      BY <2>5, RequestsMove DEF Serve
    <3>3. QED BY <2>1, <3>1, <3>2, BesideKeepsCount
  <2>6. QED BY <1>1, <2>2, <2>3, <2>4, <2>5 DEF Serve
<1>2. ASSUME NEW i \in Instances,
             \/ LoadIndex(i) \/ LoadIndexFails(i) \/ OpenForWriting(i) \/ OpenForWritingFails(i)
             \/ Crash(i) \/ Expire(i)
      PROVE  CopyInv'
  <2>1. \A j \in Instances : j = i
    BY DEF Alone
  <2>2. UNCHANGED <<objects, manifest, attempts>>
    BY <1>2 DEF LoadIndex, LoadIndexFails, OpenForWriting, OpenForWritingFails, Crash, Expire,
                storeVars, countVars
  <2>3. \A u \in Threads : Moves(u)
    <3>1. \A u \in Threads : request'[u] = Idle \/ request'[u] = request[u]
      BY <1>2 DEF LoadIndex, LoadIndexFails, OpenForWriting, OpenForWritingFails, Crash, Expire
    <3>2. QED BY <3>1, IdleHoldsNothing DEF Moves, Streaming, At
  <2>4. \/ ingestor'[i] = ingestor[i]
        \/ ingestor'[i].buffer = <<>> /\ Disjoint(ingestor'[i].view.segments)
    <3>1. CASE OpenForWriting(i)
      <4> DEFINE start == 1 + Max({-1} \cup {s.last : s \in manifest.segments})
                 g == [NoIngestor EXCEPT !.open = TRUE, !.view = manifest, !.start = start]
      <4>1. ingestor'[i] = g
        BY <3>1 DEF OpenForWriting, Types
      <4> HIDE DEF start
      <4>2. g.buffer = <<>> /\ g.view = manifest
        BY DEF NoIngestor
      <4>3. QED BY <4>1, <4>2 DEF CopyInv
    <3>2. CASE Crash(i)
      <4>1. ingestor'[i] = NoIngestor /\ NoIngestor.buffer = <<>>
            /\ NoIngestor.view.segments = {}
        BY <3>2 DEF Crash, Types, NoIngestor, EmptyManifest
      <4>2. QED BY <4>1 DEF Disjoint
    <3>3. CASE LoadIndex(i) \/ LoadIndexFails(i) \/ OpenForWritingFails(i) \/ Expire(i)
      BY <3>3 DEF LoadIndex, LoadIndexFails, OpenForWritingFails, Expire
    <3>4. QED BY <1>2, <3>1, <3>2, <3>3
  <2>5. QED BY <2>1, <2>2, <2>3, <2>4, BesideKeepsCount
<1>3. CASE UNCHANGED vars
  <2>1. UNCHANGED <<objects, manifest, ingestor, request, attempts>>
    BY <1>3 DEF vars, storeVars, instanceVars, countVars
  <2>2. ASSUME NEW i \in Instances PROVE CopyInv'
    <3>1. \A j \in Instances : j = i
      BY DEF Alone
    <3>2. QED BY <2>1, <3>1, BesideKeepsCount DEF Moves, Streaming, At
  <2>3. CASE Instances = {}
    BY <2>1, <2>3 DEF CopyInv, FromFeed, OneAttempt
  <2>4. QED BY <2>2, <2>3
<1>4. QED BY <1>1, <1>2, <1>3 DEF Next

\* One instance lists a posted event no more often than its client posted it:
\* sealing again what a failed flush may have stored never makes a second copy.
\* The offsets that list it, hold it in the buffer, or are about to be given to
\* it, are no more than the attempts either.
THEOREM CopiesAreRetries ==
  ASSUME Alone
  PROVE  Spec => [](NoCopyWithoutRetry /\ \A i \in Instances : CountInv(i))
<1> DEFINE Inv == Types /\ ShapeInv /\ DurableInv
           Void == Instances = {} => manifest.segments = {}
<1>1. Inv /\ CopyInv /\ [Next]_vars => CopyInv'
  BY CopyStep
<1>2. Init => Void
  BY DEF Init, EmptyManifest
<1>3. Void /\ [Next]_vars => Void'
  <2> SUFFICES ASSUME Void, [Next]_vars, Instances = {} PROVE manifest'.segments = {}
    OBVIOUS
  <2>1. Threads = {}
    OBVIOUS
  <2>2. QED BY <2>1 DEF Next, vars, storeVars
<1>4. Inv /\ CopyInv /\ Void => NoCopyWithoutRetry
  <2> SUFFICES ASSUME Inv, CopyInv, Void, NEW e \in Posted
               PROVE  Cardinality(Copies(manifest, e)) <= attempts[e]
    BY DEF NoCopyWithoutRetry
  <2>1. attempts[e] \in Nat
    BY BoundsAre DEF Types
  <2>2. ASSUME NEW i \in Instances
        PROVE  Cardinality(Copies(manifest, e)) <= attempts[e]
    <3> DEFINE n == Cardinality(HeldAt(i, e))
               m == Cardinality(Copies(manifest, e))
    <3>1. n \in Nat /\ n + (IF Offered(e) THEN 1 ELSE 0) <= attempts[e]
      BY HeldFinite DEF CopyInv, CountInv
    <3>2. m \in Nat /\ m <= n
      BY CopiesByOffset DEF CopyInv
    <3> HIDE DEF m, n
    <3>3. m <= attempts[e]
      BY <2>1, <3>1, <3>2
    <3>4. QED BY <3>3 DEF m
  <2>3. CASE Instances = {}
    <3>1. Copies(manifest, e) = {}
      BY <2>3 DEF Copies, Entries
    <3>2. QED BY <2>1, <3>1, FS_EmptySet
  <2>4. QED BY <2>2, <2>3
<1>5. CopyInv => \A i \in Instances : CountInv(i)
  BY DEF CopyInv
<1>6. QED BY CopyInit, DurableAlways, <1>1, <1>2, <1>3, <1>4, <1>5, PTL DEF Spec
-----------------------------------------------------------------------------
(* What the feed passes over.  The offsets of the live partition are the     *)
(* documents that were counted, so they measure how far the feed has come.   *)

\* One thread at most serves streams.
OneStream ==
  \A t, u \in Threads : "stream" \in Does[t] /\ "stream" \in Does[u] => t = u

\* An event of the feed never has an offset below its position: the feed is not
\* ahead of the numbering.
EarlyInv(i) == \A e \in FeedEvents : \A n \in HeldAt(i, e) : e <= n

\* What is listed begins at offset zero and has no gaps.
GaplessInv(i) ==
  /\ \A s \in manifest.segments : 0 .. s.last \subseteq Searchable(manifest)
  /\ ingestor[i].open => 0 .. ingestor[i].start - 1 \subseteq Searchable(manifest)

\* Positions handed out beyond what is listed are buffered or in a request's hands.
AccountedInv(i) ==
  ingestor[i].open =>
    \A n \in ingestor[i].start .. feed[i].next - 1 :
      \/ n \in Range(ingestor[i].buffer)
      \/ \E t \in Threads : At(t, "adding") /\ n \in Range(request[t].batch)

\* Events in hand will get offsets no lower than their positions.
InTime(t) ==
  At(t, "adding") /\ request[t].job # "post" =>
    \A k \in 1 .. Len(request[t].batch) :
      request[t].batch[k]
        <= ingestor[Serves[t]].start + Len(ingestor[Serves[t]].buffer) + k - 1

FeedInv ==
  /\ \A i \in Instances : EarlyInv(i) /\ GaplessInv(i) /\ AccountedInv(i)
  /\ \A t \in Threads : InTime(t) /\ (Streaming(t) => "stream" \in Does[t])

\* Nothing is handed out before an instance is open.
LEMMA FeedInit == Init => FeedInv
<1> SUFFICES ASSUME Init PROVE FeedInv
  OBVIOUS
<1>1. /\ EmptyManifest.segments = {} /\ NoIngestor.buffer = <<>> /\ ~NoIngestor.open
      /\ Idle.job = "none" /\ Idle.at = "idle"
  BY DEF EmptyManifest, NoIngestor, Idle
<1>2. ASSUME NEW i \in Instances
      PROVE  EarlyInv(i) /\ GaplessInv(i) /\ AccountedInv(i)
  <2>1. /\ ingestor[i].buffer = <<>> /\ ~ingestor[i].open /\ manifest.segments = {}
        /\ 1 .. Len(<<>>) = {}
    BY <1>1, EmptySeq DEF Init
  <2>2. \A e : HeldAt(i, e) = {}
    BY <2>1 DEF HeldAt, ListedAt, BufferedAt
  <2>3. QED BY <2>1, <2>2 DEF EarlyInv, GaplessInv, AccountedInv
<1>3. ASSUME NEW t \in Threads PROVE InTime(t) /\ ~Streaming(t)
  BY <1>1 DEF Init, InTime, Streaming, At
<1>4. QED BY <1>2, <1>3 DEF FeedInv

\* What is held in the buffer, by its place there.
LEMMA BufferIsHeld ==
  ASSUME Types, NEW i \in Instances, NEW k \in 1 .. Len(ingestor[i].buffer)
  PROVE  /\ ingestor[i].start + k - 1 \in Nat
         /\ ingestor[i].start + k - 1 \in HeldAt(i, ingestor[i].buffer[k])
<1> DEFINE start == ingestor[i].start
<1>1. start \in Nat /\ k \in Nat /\ k >= 1
  BY DEF Types, IngestorType
<1>2. start + k - 1 \in Nat
  <2> HIDE DEF start
  <2>1. QED BY <1>1
<1>3. start + k - 1 \in BufferedAt(i, ingestor[i].buffer[k])
  BY <1>2 DEF BufferedAt
<1>4. QED BY <1>2, <1>3 DEF HeldAt

\* A buffered event of the feed has a position below the next offset.
LEMMA BufferedIsEarly ==
  ASSUME Types, NEW i \in Instances, EarlyInv(i),
         NEW n \in FeedEvents, n \in Range(ingestor[i].buffer)
  PROVE  n < ingestor[i].start + Len(ingestor[i].buffer)
<1> DEFINE start == ingestor[i].start
           size == Len(ingestor[i].buffer)
<1>1. start \in Nat /\ size \in Nat /\ DOMAIN ingestor[i].buffer = 1 .. size
  BY LenProperties DEF Types, IngestorType
<1>2. PICK k \in 1 .. size : ingestor[i].buffer[k] = n
  BY <1>1 DEF Range
<1>3. n <= start + k - 1
  BY <1>2, BufferIsHeld DEF EarlyInv
<1> HIDE DEF start, size
<1>4. n \in Nat
  BY BoundsAre DEF FeedEvents
<1>5. n < start + size
  BY <1>1, <1>2, <1>3, <1>4
<1>6. QED BY <1>5 DEF start, size

\* A request that takes no part in the feed.
Rests(u) ==
  /\ At(u, "adding") => request'[u] = request[u]
  /\ request'[u].at = "adding" =>
       \/ request'[u] = request[u]
       \/ request'[u].job = "post"
       \/ request'[u].batch = <<>>

\* Steps that neither hand out events nor number nor publish any.
LEMMA QuietKeepsFeed ==
  ASSUME Types, ShapeInv, FeedInv, NEW i \in Instances, \A j \in Instances : j = i,
         UNCHANGED manifest, \A e : HeldAt(i, e)' \subseteq HeldAt(i, e),
         \A u \in Threads : Streaming(u)' => Streaming(u) \/ "stream" \in Does[u],
         \/ /\ ingestor'[i].open = ingestor[i].open
            /\ ingestor'[i].start = ingestor[i].start
            /\ ingestor'[i].buffer = ingestor[i].buffer
            /\ feed'[i].next = feed[i].next
            /\ \A u \in Threads : Rests(u)
         \/ ~ingestor'[i].open /\ \A u \in Threads : request'[u].at # "adding"
  PROVE  FeedInv'
<1>1. EarlyInv(i)'
  BY DEF FeedInv, EarlyInv
<1>2. GaplessInv(i)'
  BY DEF FeedInv, GaplessInv
<1>3. AccountedInv(i)'
  <2>1. CASE ~ingestor'[i].open
    BY <2>1 DEF AccountedInv
  <2>2. CASE ingestor'[i].open
    <3>1. \A u \in Threads : At(u, "adding") => request'[u] = request[u]
      BY <2>2 DEF Rests
    <3>2. QED BY <2>2, <3>1 DEF FeedInv, AccountedInv, At
  <2>3. QED BY <2>1, <2>2
<1>4. ASSUME NEW t \in Threads PROVE InTime(t)' /\ (Streaming(t) => "stream" \in Does[t])'
  <2>1. InTime(t)'
    <3>1. CASE request'[t].at # "adding"
      BY <3>1 DEF InTime, At
    <3>2. CASE request'[t].at = "adding" /\ request'[t].batch = <<>>
      <4>1. 1 .. Len(<<>>) = {}
        BY EmptySeq
      <4>2. QED BY <3>2, <4>1 DEF InTime
    <3>3. CASE request'[t].at = "adding" /\ request'[t].job = "post"
      BY <3>3 DEF InTime
    <3>4. CASE request'[t].at = "adding" /\ request'[t] = request[t]
      <4>1. Serves[t] = i
        OBVIOUS
      <4>2. QED BY <3>4, <4>1 DEF FeedInv, InTime, At
    <3>5. QED BY <3>1, <3>2, <3>3, <3>4 DEF Rests
  <2>2. QED BY <2>1 DEF FeedInv
<1>5. QED BY <1>1, <1>2, <1>3, <1>4 DEF FeedInv

\* A stream that takes gets the next positions, within the feed.
LEMMA TakesNext ==
  ASSUME Types, NEW t \in Threads, Take(t) \/ TakeFails(t)
  PROVE  \E n \in 0 .. FeedLength - feed[Serves[t]].next :
           /\ feed'[Serves[t]].next = feed[Serves[t]].next + n
           /\ Hand(t, n)
<1> DEFINE i == Serves[t]
<1>1. feed[i].next \in 0 .. FeedLength /\ feed \in [Instances -> FeedType] /\ i \in Instances
  BY DEF Types, FeedType
<1>2. CASE Take(t)
  <2> DEFINE n == Min({Batch, IF feed[i].dry THEN InChunk(i) ELSE FeedLength - feed[i].next})
  <2>1. n \in 0 .. FeedLength - feed[i].next
    BY <1>1, TakenWithinFeed
  <2>2. feed' = [feed EXCEPT ![i].next = @ + n] /\ Hand(t, n)
    BY <1>2 DEF Take
  <2> HIDE DEF n
  <2>3. feed'[i].next = feed[i].next + n
    BY <1>1, <2>2 DEF FeedType
  <2>4. QED BY <2>1, <2>2, <2>3
<1>3. CASE TakeFails(t)
  <2> DEFINE n == InChunk(i)
  <2>1. n \in 0 .. FeedLength - feed[i].next
    BY <1>1, ChunkWithinFeed
  <2>2. feed' = [feed EXCEPT ![i].next = @ + n, ![i].dry = TRUE] /\ Hand(t, n)
    BY <1>3 DEF TakeFails
  <2> HIDE DEF n
  <2>3. feed'[i].next = feed[i].next + n
    BY <1>1, <2>2 DEF FeedType
  <2>4. QED BY <2>1, <2>2, <2>3
<1>4. QED BY <1>2, <1>3

\* While the only stream takes, no event of the feed is in a request's hands.
LEMMA NoneInHand ==
  ASSUME OneStream, Types, ShapeInv, FeedInv, NEW t \in Threads, At(t, "taking"),
         NEW u \in Threads, At(u, "adding"), NEW n \in Range(request[u].batch)
  PROVE  n \notin FeedEvents
<1>1. u # t /\ "stream" \in Does[t]
  BY DEF At, FeedInv, Streaming
<1>2. ~Streaming(u)
  BY <1>1 DEF FeedInv, OneStream
<1>3. request[u].job = "post"
  BY <1>2 DEF ShapeInv, RequestInv, At, Writing, Writers, Streaming
<1>4. PICK e \in Posted : request[u].batch = <<e>>
  BY <1>3 DEF ShapeInv, RequestInv
<1>5. n = e
  BY <1>4 DEF Range
<1>6. QED BY <1>5 DEF FeedEvents

\* A stream takes events no further on than the numbering.
LEMMA TakeKeepsFeed ==
  ASSUME OneStream, Types, ShapeInv, FeedInv,
         NEW i \in Instances, \A j \in Instances : j = i,
         NEW t \in Threads, Take(t) \/ TakeFails(t)
  PROVE  FeedInv'
<1> DEFINE g == ingestor[i]
           start == g.start
           size == Len(g.buffer)
           next == feed[i].next
<1>1. /\ At(t, "taking") /\ Serves[t] = i
      /\ UNCHANGED <<objects, manifest, ingestor>>
  BY DEF Take, TakeFails, storeVars
<1>2. g.open /\ start \in Nat /\ size \in Nat /\ next \in 0 .. FeedLength
  <2>1. g.open
    BY <1>1, AtTheIngestor DEF At, Writing
  <2>2. QED BY <2>1, LenProperties DEF Types, IngestorType, FeedType
<1>3. PICK m \in 0 .. FeedLength - next : feed'[i].next = next + m /\ Hand(t, m)
  BY <1>1, TakesNext
<1> DEFINE batch == [k \in 1 .. m |-> next + k - 1]
           job == IF m = 0 THEN "last" ELSE "stream"
           r == [Idle EXCEPT !.at = "adding", !.job = job, !.batch = batch]
<1>4. request'[t] = r /\ \A u \in Threads : u # t => request'[u] = request[u]
  BY <1>1, <1>3 DEF Hand, Types
<1>5. /\ m \in Nat /\ m <= FeedLength - next /\ batch \in Seq(Event) /\ Len(batch) = m
      /\ \A k \in 1 .. m : batch[k] = next + k - 1
  <2> HIDE DEF next
  <2>1. m \in Nat /\ m <= FeedLength - next /\ next \in Nat /\ next + m <= FeedLength
    BY <1>2, <1>3, BoundsAre
  <2>2. batch \in Seq(Event)
    BY <2>1, FeedBatch
  <2>3. DOMAIN batch = 1 .. m
    OBVIOUS
  <2>4. Len(batch) = m
    <3> HIDE DEF batch
    <3>1. QED BY <2>1, <2>2, <2>3, LenProperties
  <2>5. QED BY <2>1, <2>2, <2>4
<1>6. r.at = "adding" /\ r.batch = batch
  <2> HIDE DEF batch, job
  <2>1. QED BY DEF Idle
<1> HIDE DEF r, batch
<1>7. \A n \in start .. next - 1 : n \in Range(g.buffer)
  <2> SUFFICES ASSUME NEW n \in start .. next - 1 PROVE n \in Range(g.buffer)
    OBVIOUS
  <2>1. n \in FeedEvents
    BY <1>2, BoundsAre DEF FeedEvents
  <2>2. n \in Range(g.buffer) \/ \E u \in Threads : At(u, "adding") /\ n \in Range(request[u].batch)
    BY <1>2 DEF FeedInv, AccountedInv
  <2>3. QED BY <1>1, <2>1, <2>2, NoneInHand
<1>8. next <= start + size
  <2> SUFFICES ASSUME ~(next <= start + size) PROVE FALSE
    OBVIOUS
  <2> DEFINE n == start + size
  <2>1. n \in start .. next - 1 /\ n \in FeedEvents
    <3> HIDE DEF start, size, next
    <3>1. n \in Nat /\ n >= start /\ n <= next - 1 /\ next <= FeedLength /\ FeedLength \in Nat
      BY <1>2, BoundsAre
    <3>2. QED BY <1>2, <3>1 DEF FeedEvents
  <2>2. n < start + size
    BY <1>7, <2>1, BufferedIsEarly DEF FeedInv
  <2>3. QED BY <1>2, <2>2
<1>9. EarlyInv(i)' /\ GaplessInv(i)'
  <2>1. \A e : HeldAt(i, e)' = HeldAt(i, e)
    BY <1>1 DEF HeldAt, ListedAt, BufferedAt
  <2>2. QED BY <1>1, <2>1 DEF FeedInv, EarlyInv, GaplessInv
<1>10. AccountedInv(i)'
  <2> SUFFICES ASSUME NEW n \in start .. (next + m) - 1
               PROVE  n \in Range(g.buffer) \/ n \in Range(batch)
    BY <1>1, <1>3, <1>4, <1>6 DEF AccountedInv, At
  <2>1. CASE n < next
    <3>1. n \in start .. next - 1
      BY <1>2, <1>5, <2>1
    <3>2. QED BY <1>7, <3>1
  <2>2. CASE ~(n < next)
    <3> DEFINE k == n - next + 1
    <3>1. k \in 1 .. m /\ next + k - 1 = n
      <4> HIDE DEF start, next
      <4>1. QED BY <1>2, <1>5, <2>2
    <3>2. batch[k] = n
      BY <1>5, <3>1
    <3>3. k \in DOMAIN batch
      BY <1>5, <3>1
    <3>4. QED BY <3>2, <3>3 DEF Range
  <2>3. QED BY <2>1, <2>2
<1>11. ASSUME NEW u \in Threads PROVE InTime(u)' /\ (Streaming(u) => "stream" \in Does[u])'
  <2>1. CASE u # t
    <3>1. request'[u] = request[u] /\ Serves[u] = i
      BY <1>4, <2>1
    <3>2. QED BY <1>1, <3>1 DEF FeedInv, InTime, Streaming, At
  <2>2. CASE u = t
    <3>1. "stream" \in Does[u]
      BY <1>1, <2>2 DEF FeedInv, Streaming
    <3>2. ASSUME NEW k \in 1 .. m PROVE batch[k] <= start + size + k - 1
      <4>1. batch[k] = next + k - 1
        BY <1>5
      <4> HIDE DEF start, size, next
      <4>2. QED BY <1>2, <1>8, <4>1
    <3>3. InTime(u)'
      BY <1>1, <1>4, <1>5, <1>6, <2>2, <3>2 DEF InTime
    <3>4. QED BY <3>1, <3>3
  <2>3. QED BY <2>1, <2>2
<1>12. QED BY <1>9, <1>10, <1>11 DEF FeedInv

\* Numbering events keeps them in time: others in hand get later offsets still.
LEMMA AddKeepsFeed ==
  ASSUME Types, ShapeInv, CopyInv, FeedInv,
         NEW i \in Instances, \A j \in Instances : j = i, NEW t \in Threads, Add(t)
  PROVE  FeedInv'
<1> DEFINE q == request[t]
           g == ingestor[i]
           h == ingestor'[i]
           start == g.start
           size == Len(g.buffer)
           more == Len(q.batch)
           grown == g.buffer \o q.batch
<1>1. UNCHANGED <<objects, manifest, feed>> /\ Serves[t] = i /\ q.at = "adding"
  BY DEF Add, storeVars, At
<1>2. q \in RequestType /\ q.batch \in Seq(Event) /\ g \in IngestorType
  BY DEF Types, RequestType
<1>3. h.open = g.open /\ h.start = g.start /\ h.buffer = grown
  BY <1>1, <1>2 DEF Add, Types, IngestorType
<1>4. /\ start \in Nat /\ g.buffer \in Seq(Event) /\ size \in Nat /\ more \in Nat
      /\ DOMAIN q.batch = 1 .. more /\ DOMAIN g.buffer = 1 .. size
      /\ DOMAIN grown = 1 .. size + more /\ Len(grown) = size + more
      /\ \A k \in 1 .. size + more :
           grown[k] = IF k <= size THEN g.buffer[k] ELSE q.batch[k - size]
  <2>1. start \in Nat /\ g.buffer \in Seq(Event)
    BY <1>2 DEF IngestorType
  <2>2. grown \in Seq(Event) /\ Len(grown) = size + more
        /\ \A k \in 1 .. size + more :
             grown[k] = IF k <= size THEN g.buffer[k] ELSE q.batch[k - size]
    <3>1. ASSUME NEW b \in Seq(Event), NEW c \in Seq(Event)
          PROVE  /\ b \o c \in Seq(Event) /\ Len(b \o c) = Len(b) + Len(c)
                 /\ \A k \in 1 .. Len(b) + Len(c) :
                      (b \o c)[k] = IF k <= Len(b) THEN b[k] ELSE c[k - Len(b)]
      BY ConcatProperties
    <3>2. QED BY <1>2, <2>1, <3>1, Zenon
  <2> HIDE DEF grown
  <2>3. /\ size \in Nat /\ more \in Nat /\ DOMAIN grown = 1 .. Len(grown)
        /\ DOMAIN q.batch = 1 .. more /\ DOMAIN g.buffer = 1 .. size
    BY <1>2, <2>1, <2>2, LenProperties
  <2>4. QED BY <2>1, <2>2, <2>3
<1>5. \A u \in Threads : u # t => request'[u] = request[u]
  BY DEF Add, Types
<1>6. request'[t].at # "adding" /\ (Streaming(t)' => Streaming(t) \/ "stream" \in Does[t])
  <2> DEFINE seals == grown # <<>> /\ (q.job # "stream" \/ Len(grown) >= SegmentDocs)
             toSeal == [q EXCEPT !.at = "sealing"]
             toTake == [q EXCEPT !.at = "taking", !.batch = <<>>]
  <2>1. request'[t] = IF seals THEN toSeal ELSE IF q.job = "stream" THEN toTake ELSE Idle
    BY <1>1 DEF Add, Types
  <2>2. toSeal.at = "sealing" /\ toTake.at = "taking" /\ Idle.at = "idle"
    BY <1>2 DEF RequestType, Idle
  <2> HIDE DEF seals, toSeal, toTake
  <2>3. Moves(t)
    BY RequestsMove DEF Serve
  <2>4. QED BY <2>1, <2>2, <2>3 DEF Moves
<1>7. EarlyInv(i)'
  <2> SUFFICES ASSUME NEW e \in FeedEvents, NEW n \in HeldAt(i, e)' PROVE e <= n
    BY DEF EarlyInv
  <2>1. \/ n \in HeldAt(i, e)
        \/ \E j \in 1 .. more : q.batch[j] = e /\ n = start + size + j - 1
    <3>1. \A d : \A o \in HeldAt(i, d)' :
            \/ o \in HeldAt(i, d)
            \/ \E j \in 1 .. more : q.batch[j] = d /\ o = start + size + j - 1
      <4>1. /\ UNCHANGED <<objects, manifest>> /\ q.batch \in Seq(Event)
            /\ ingestor'[i].buffer = ingestor[i].buffer \o q.batch
            /\ ingestor'[i].start = ingestor[i].start
        BY <1>1, <1>2, <1>3
      <4>2. QED BY <4>1, HeldAdded, Zenon
    <3>2. QED BY <3>1
  <2>2. CASE n \in HeldAt(i, e)
    BY <2>2 DEF FeedInv, EarlyInv
  <2>3. CASE \E j \in 1 .. more : q.batch[j] = e /\ n = start + size + j - 1
    <3>1. PICK j \in 1 .. more : q.batch[j] = e /\ n = start + size + j - 1
      BY <2>3
    <3>2. q.job # "post"
      <4>1. SUFFICES ASSUME q.job = "post" PROVE FALSE
        OBVIOUS
      <4>2. PICK d \in Posted : q.batch = <<d>>
        BY <4>1 DEF ShapeInv, RequestInv
      <4>3. more = 1 /\ q.batch[1] = d
        BY <4>2
      <4>4. j = 1
        BY <4>3
      <4>5. QED BY <3>1, <4>3, <4>4 DEF FeedEvents
    <3>3. QED BY <1>1, <3>1, <3>2 DEF FeedInv, InTime, At
  <2>4. QED BY <2>1, <2>2, <2>3
<1>8. GaplessInv(i)'
  BY <1>1, <1>3 DEF FeedInv, GaplessInv
<1>9. Range(g.buffer) \cup Range(q.batch) \subseteq Range(grown)
  <2>1. ASSUME NEW k \in 1 .. size PROVE g.buffer[k] \in Range(grown)
    <3>1. k \in 1 .. size + more /\ k <= size
      <4> HIDE DEF size, more
      <4>1. QED BY <1>4
    <3>2. grown[k] = g.buffer[k]
      BY <1>4, <3>1
    <3>3. QED BY <1>4, <3>1, <3>2 DEF Range
  <2>2. ASSUME NEW k \in 1 .. more PROVE q.batch[k] \in Range(grown)
    <3> DEFINE at == size + k
    <3>1. at \in 1 .. size + more /\ ~(at <= size) /\ at - size = k
      <4> HIDE DEF size, more
      <4>1. QED BY <1>4
    <3>2. grown[at] = q.batch[k]
      BY <1>4, <3>1
    <3> HIDE DEF at
    <3>3. QED BY <1>4, <3>1, <3>2 DEF Range
  <2>3. QED BY <1>4, <2>1, <2>2 DEF Range
<1>10. AccountedInv(i)'
  <2> SUFFICES ASSUME g.open, NEW n \in start .. feed[i].next - 1
               PROVE  \/ n \in Range(grown)
                      \/ \E u \in Threads : At(u, "adding")' /\ n \in Range(request'[u].batch)
    BY <1>1, <1>3 DEF AccountedInv
  <2>1. \/ n \in Range(g.buffer)
        \/ \E u \in Threads : At(u, "adding") /\ n \in Range(request[u].batch)
    BY DEF FeedInv, AccountedInv
  <2>2. CASE n \in Range(g.buffer)
    BY <1>9, <2>2
  <2>3. ASSUME NEW u \in Threads, At(u, "adding"), n \in Range(request[u].batch)
        PROVE  \/ n \in Range(grown)
               \/ At(u, "adding")' /\ n \in Range(request'[u].batch)
    <3>1. CASE u = t
      BY <1>9, <2>3, <3>1
    <3>2. CASE u # t
      BY <1>5, <2>3, <3>2 DEF At
    <3>3. QED BY <3>1, <3>2
  <2>4. QED BY <2>1, <2>2, <2>3
<1>11. ASSUME NEW u \in Threads PROVE InTime(u)' /\ (Streaming(u) => "stream" \in Does[u])'
  <2>1. CASE u = t
    BY <1>6, <2>1 DEF FeedInv, InTime, At
  <2>2. CASE u # t
    <3>1. request'[u] = request[u] /\ Serves[u] = i
      BY <1>5, <2>2
    <3>2. InTime(u)'
      <4> SUFFICES ASSUME At(u, "adding"), request[u].job # "post",
                          NEW k \in 1 .. Len(request[u].batch)
                   PROVE  request[u].batch[k] <= start + (size + more) + k - 1
        BY <1>3, <1>4, <3>1 DEF InTime, At
      <4> DEFINE e == request[u].batch[k]
                 end == start + size + k - 1
      <4>1. e <= end
        BY <3>1 DEF FeedInv, InTime
      <4>2. e \in Nat
        <5>1. request[u].batch \in Seq(Event)
          BY DEF Types, RequestType
        <5>2. k \in DOMAIN request[u].batch
          BY <5>1, LenProperties
        <5>3. e \in FeedEvents
          BY <5>2 DEF CopyInv, FromFeed, Range
        <5>4. QED BY <5>3, BoundsAre DEF FeedEvents
      <4>3. k \in Int
        OBVIOUS
      <4> HIDE DEF e, start, size, more
      <4>4. e <= start + (size + more) + k - 1
        BY <1>4, <4>1, <4>2, <4>3
      <4>5. QED BY <4>4 DEF e, start, size, more
    <3>3. QED BY <3>1, <3>2 DEF FeedInv, Streaming, At
  <2>3. QED BY <2>1, <2>2
<1>12. QED BY <1>7, <1>8, <1>10, <1>11 DEF FeedInv

\* The live set that publishing makes has no gap up to the end of the buffer.
LEMMA PublishedIsGapless ==
  ASSUME Types, NEW i \in Instances, KnownInv(i), MatchInv(i), GaplessInv(i),
         ingestor[i].open, ingestor[i].buffer # <<>>,
         manifest' = Publish(ingestor[i].view, Sealed(i))
  PROVE  /\ 0 .. Sealed(i).last \subseteq Searchable(manifest')
         /\ \A s \in manifest'.segments : s.last \in Nat /\ s.last <= Sealed(i).last
<1> DEFINE view == ingestor[i].view
           sealed == Sealed(i)
           start == ingestor[i].start
<1>1. /\ sealed \in Segments /\ sealed.first = start /\ sealed.first <= sealed.last
      /\ start \in Nat /\ sealed.last \in Nat
  BY SealedType DEF Types, IngestorType, Segments
<1>2. manifest'.segments = {s \in view.segments : Settled(i, s)} \cup {sealed}
  BY PublishedSet
<1>3. ASSUME NEW o \in 0 .. sealed.last PROVE o \in Searchable(manifest')
  <2>1. CASE o < start
    <3>1. o \in 0 .. start - 1
      <4> HIDE DEF start, sealed
      <4>1. QED BY <1>1, <2>1
    <3>2. o \in Searchable(manifest)
      BY <3>1 DEF GaplessInv
    <3>3. PICK s \in manifest.segments : o \in Documents(s)
      BY <3>2 DEF Searchable
    <3>4. s \in Segments /\ (Settled(i, s) \/ Pending(i, s))
      BY DEF KnownInv, Known, Types, Manifest
    <3>5. ~Pending(i, s)
      <4>1. SUFFICES ASSUME s.first = start PROVE FALSE
        BY DEF Pending
      <4>2. s.first \in Nat /\ s.last \in Nat /\ o >= s.first
        BY <3>3, <3>4 DEF Documents, Segments
      <4> HIDE DEF start
      <4>3. QED BY <1>1, <2>1, <4>1, <4>2
    <3>6. s \in manifest'.segments
      BY <1>2, <3>4, <3>5 DEF MatchInv
    <3>7. QED BY <3>3, <3>6 DEF Searchable
  <2>2. CASE ~(o < start)
    <3>1. o \in Documents(sealed)
      <4>1. o \in sealed.first .. sealed.last
        <5> HIDE DEF start, sealed
        <5>1. QED BY <1>1, <2>2
      <4>2. QED BY <4>1 DEF Documents
    <3>2. QED BY <1>2, <3>1 DEF Searchable
  <2>3. QED BY <2>1, <2>2
<1>4. ASSUME NEW s \in manifest'.segments PROVE s.last \in Nat /\ s.last <= sealed.last
  <2>1. CASE s = sealed
    BY <1>1, <2>1
  <2>2. CASE s \in view.segments /\ Settled(i, s)
    <3>1. s.last \in Nat /\ s.last < start
      BY <2>2 DEF Settled, Types, IngestorType, Manifest, Segments
    <3> HIDE DEF start, sealed
    <3>2. QED BY <1>1, <3>1
  <2>3. QED BY <1>2, <2>1, <2>2
<1>5. QED BY <1>3, <1>4

\* A thread away from the feed rests, and so do the others.
LEMMA OthersRest ==
  ASSUME Types, ShapeInv, NEW t \in Threads, Moves(t),
         ~At(t, "taking"), ~At(t, "adding"),
         \A u \in Threads : u # t => request'[u] = request[u]
  PROVE  \A u \in Threads :
           Rests(u) /\ (Streaming(u)' => Streaming(u) \/ "stream" \in Does[u])
BY DEF Moves, Rests, Streaming, At

\* Flushing, done or failed: what is published is what was accounted for.
LEMMA FlushKeepsFeed ==
  ASSUME Types, ShapeInv, DurableInv, FeedInv,
         NEW i \in Instances, \A j \in Instances : j = i,
         NEW t \in Threads, PutSegment(t) \/ PutManifest(t) \/ PutFails(t)
  PROVE  FeedInv'
<1> DEFINE g == ingestor[i]
           h == ingestor'[i]
           sealed == Sealed(i)
<1>1. /\ Serves[t] = i /\ g \in IngestorType /\ KnownInv(i) /\ MatchInv(i)
      /\ request[t].at \in Locked /\ UNCHANGED feed
      /\ g.view \in Manifest
  BY DEF PutSegment, PutManifest, PutFails, At, Locked, Types, IngestorType, DurableInv,
         instanceVars
<1>2. g.open /\ g.buffer # <<>> /\ sealed \in Segments
  BY <1>1, AtTheIngestor DEF Writing, Locked
<1>3. \A u \in Threads : u # t => request'[u] = request[u]
  BY DEF PutSegment, PutManifest, PutFails, Go, Raise, Types
<1>4. \A u \in Threads : Rests(u) /\ (Streaming(u)' => Streaming(u) \/ "stream" \in Does[u])
  <2>1. Moves(t)
    BY RequestsMove DEF Serve
  <2>2. ~At(t, "taking") /\ ~At(t, "adding")
    BY <1>1 DEF At, Locked
  <2>3. QED BY <1>3, <2>1, <2>2, OthersRest
<1>5. CASE request[t].at = "sealing"
  <2>1. /\ UNCHANGED manifest /\ (UNCHANGED objects \/ StoreSegment(i))
        /\ h.open = g.open /\ h.start = g.start /\ h.buffer = g.buffer
    BY <1>1, <1>5
       DEF PutSegment, PutManifest, PutFails, At, Types, IngestorType, instanceVars
  <2>2. \A s \in manifest.segments : objects'[s] = objects[s]
    <3>1. manifest.segments \subseteq Known(i)
      BY DEF Known
    <3>2. QED BY <1>1, <1>2, <2>1, <3>1, KnownUntouched
  <2>3. \A e : HeldAt(i, e)' \subseteq HeldAt(i, e)
    BY <2>1, <2>2, HeldStays
  <2>4. QED BY <1>1, <1>4, <2>1, <2>3, QuietKeepsFeed
<1>6. CASE request[t].at = "publishing"
  <2> DEFINE start == g.start
             size == Len(g.buffer)
  <2>1. objects[sealed] = Contents(i)
    BY <1>1, <1>6 DEF DurableInv, PublishInv, At
  <2>2. /\ UNCHANGED objects /\ h.open = g.open
        /\ \/ /\ manifest' \in {manifest, Publish(g.view, sealed)}
              /\ h.buffer = g.buffer /\ h.start = g.start
           \/ /\ manifest' = Publish(g.view, sealed)
              /\ h.buffer = <<>> /\ h.start = sealed.last + 1
    <3>1. CASE PutManifest(t)
      BY <1>1, <3>1 DEF PutManifest, Types, IngestorType
    <3>2. CASE PutFails(t)
      <4>1. /\ UNCHANGED objects /\ (UNCHANGED manifest \/ manifest' = h.view)
            /\ ingestor' = [ingestor EXCEPT
                 ![i].view = Publish(@, Sealed(i)), ![i].holder = NoThread]
        BY <1>1, <1>6, <3>2 DEF PutFails, At
      <4>2. QED BY <1>1, <4>1 DEF Types, IngestorType
    <3>3. QED BY <1>6, <3>1, <3>2 DEF PutSegment, At
  <2>3. \A e : HeldAt(i, e)' \subseteq HeldAt(i, e)
    BY <1>1, <1>2, <2>1, <2>2, HeldPublished
  <2>4. CASE UNCHANGED manifest /\ h.buffer = g.buffer /\ h.start = g.start
    BY <1>1, <1>4, <2>2, <2>3, <2>4, QuietKeepsFeed
  <2>5. CASE manifest' = Publish(g.view, sealed)
    <3>1. /\ 0 .. sealed.last \subseteq Searchable(manifest')
          /\ \A s \in manifest'.segments : s.last \in Nat /\ s.last <= sealed.last
      BY <1>1, <1>2, <2>5, PublishedIsGapless DEF FeedInv
    <3>2. /\ sealed.last = start + size - 1 /\ start \in Nat /\ size \in Nat
          /\ sealed.last \in Nat /\ start <= sealed.last
      BY <1>1, <1>2, SealedType, LenProperties DEF IngestorType, Segments
    <3>3. h.start \in Nat /\ h.start - 1 <= sealed.last /\ h.start >= start
          /\ h.start + Len(h.buffer) = start + size
      <4>1. CASE h.buffer = g.buffer /\ h.start = g.start
        <5>1. h.start = start /\ Len(h.buffer) = size
          BY <4>1
        <5> HIDE DEF h, start, size, sealed
        <5>2. QED BY <3>2, <5>1
      <4>2. CASE h.buffer = <<>> /\ h.start = sealed.last + 1
        <5>1. Len(h.buffer) = 0
          BY <4>2, EmptySeq
        <5> HIDE DEF h, start, size, sealed
        <5>2. QED BY <3>2, <4>2, <5>1
      <4>3. QED BY <2>2, <4>1, <4>2
    <3>4. EarlyInv(i)'
      BY <2>3 DEF FeedInv, EarlyInv
    <3>5. GaplessInv(i)'
      <4>1. ASSUME NEW n \in Int, n <= sealed.last
            PROVE  0 .. n \subseteq Searchable(manifest')
        <5>1. 0 .. n \subseteq 0 .. sealed.last
          <6> HIDE DEF sealed
          <6>1. QED BY <3>2, <4>1
        <5>2. QED BY <3>1, <5>1
      <4>2. \A s \in manifest'.segments : 0 .. s.last \subseteq Searchable(manifest')
        BY <3>1, <4>1
      <4>3. 0 .. h.start - 1 \subseteq Searchable(manifest')
        BY <3>3, <4>1
      <4>4. QED BY <4>2, <4>3 DEF GaplessInv
    <3>6. AccountedInv(i)'
      <4> SUFFICES ASSUME NEW n \in h.start .. feed[i].next - 1
                   PROVE  \/ n \in Range(h.buffer)
                          \/ \E u \in Threads : At(u, "adding")' /\ n \in Range(request'[u].batch)
        BY <1>1 DEF AccountedInv
      <4>1. n \in start .. feed[i].next - 1 /\ n \in FeedEvents
        <5>1. feed[i].next \in 0 .. FeedLength
          BY DEF Types, FeedType
        <5> HIDE DEF h, start
        <5>2. QED BY <3>2, <3>3, <5>1, BoundsAre DEF FeedEvents
      <4>2. \/ n \in Range(g.buffer)
            \/ \E u \in Threads : At(u, "adding") /\ n \in Range(request[u].batch)
        BY <1>2, <4>1 DEF FeedInv, AccountedInv
      <4>3. CASE \E u \in Threads : At(u, "adding") /\ n \in Range(request[u].batch)
        BY <1>4, <4>3 DEF Rests, At
      <4>4. CASE n \in Range(g.buffer) /\ h.buffer = g.buffer
        BY <4>4
      <4>5. CASE n \in Range(g.buffer) /\ h.start = sealed.last + 1
        <5>1. n < start + size
          BY <4>1, <4>5, BufferedIsEarly DEF FeedInv
        <5>2. n >= h.start /\ n \in Int
          OBVIOUS
        <5> HIDE DEF h, start, size, sealed
        <5>3. QED BY <3>2, <4>5, <5>1, <5>2
      <4>6. QED BY <2>2, <4>2, <4>3, <4>4, <4>5
    <3>7. ASSUME NEW u \in Threads PROVE InTime(u)' /\ (Streaming(u) => "stream" \in Does[u])'
      <4>1. Serves[u] = i
        OBVIOUS
      <4>2. InTime(u)'
        <5>1. CASE request'[u] = request[u]
          BY <3>3, <4>1, <5>1 DEF FeedInv, InTime, At
        <5>2. CASE request'[u].at = "adding" /\ request'[u].batch = <<>>
          <6>1. 1 .. Len(<<>>) = {}
            BY EmptySeq
          <6>2. QED BY <5>2, <6>1 DEF InTime
        <5>3. CASE request'[u].at # "adding" \/ request'[u].job = "post"
          BY <5>3 DEF InTime, At
        <5>4. QED BY <1>4, <5>1, <5>2, <5>3 DEF Rests
      <4>3. QED BY <1>4, <4>2 DEF FeedInv
    <3>8. QED BY <3>4, <3>5, <3>6, <3>7 DEF FeedInv
  <2>6. QED BY <2>2, <2>4, <2>5
<1>7. QED BY <1>1, <1>5, <1>6 DEF Locked

\* What a manifest lists, by segment and offset.
LEMMA EntryIs ==
  ASSUME NEW m \in Manifest, NEW x \in Entries(m)
  PROVE  /\ x = <<x[1], x[2]>> /\ x[1] \in m.segments /\ x[2] \in Documents(x[1])
         /\ x[2] \in Nat /\ x[2] <= x[1].last
<1>1. x = <<x[1], x[2]>> /\ x[1] \in m.segments /\ x[2] \in Documents(x[1])
  BY DEF Entries
<1>2. x[1].first \in Nat /\ x[1].last \in Nat
  BY <1>1 DEF Manifest, Segments
<1>3. QED BY <1>1, <1>2 DEF Documents

\* A live set without a document listed twice counts no more documents than there
\* are offsets before its end.
LEMMA CountedByOffset ==
  ASSUME NEW m \in Manifest, Bounded(m.segments), Disjoint(m.segments)
  PROVE  DocumentCount(m) <= AfterLast(m)
<1> DEFINE E == Entries(m)
           end == AfterLast(m)
           f == [x \in E |-> x[2]]
<1>1. end \in Nat /\ \A s \in m.segments : s.last < end
  BY AfterLastBeyond
<1>2. ASSUME NEW x \in E PROVE x[2] \in 0 .. end - 1
  <2>1. x[2] \in Nat /\ x[2] <= x[1].last /\ x[1].last < end /\ x[1].last \in Nat
    BY <1>1, EntryIs DEF Manifest, Segments
  <2> HIDE DEF end
  <2>2. QED BY <1>1, <2>1
<1>3. ASSUME NEW x \in E, NEW y \in E, x[2] = y[2] PROVE x = y
  <2>1. x = <<x[1], x[2]>> /\ y = <<y[1], y[2]>>
    BY EntryIs
  <2>2. x[1] = y[1]
    BY <1>3, EntryIs DEF Disjoint
  <2>3. QED BY <1>3, <2>1, <2>2
<1> HIDE DEF E, end
<1>4. f \in [E -> 0 .. end - 1] /\ \A x, y \in E : f[x] = f[y] => x = y
  BY <1>2, <1>3
<1>5. f \in Injection(E, 0 .. end - 1)
  BY <1>4 DEF Injection, IsInjective
<1> HIDE DEF f
<1>6. IsFiniteSet(0 .. end - 1) /\ Cardinality(0 .. end - 1) = end
  <2>1. 0 \in Int /\ end - 1 \in Int /\ (IF 0 > end - 1 THEN 0 ELSE (end - 1) - 0 + 1) = end
    BY <1>1
  <2>2. QED BY <2>1, FS_Interval
<1>7. Cardinality(E) <= end
  BY <1>5, <1>6, FS_Injection
<1>8. QED BY <1>7 DEF DocumentCount, E, end

\* Offsets that are listed number no more than the documents.
LEMMA ListedAreCounted ==
  ASSUME NEW m \in Manifest, Bounded(m.segments), NEW S \in SUBSET Searchable(m)
  PROVE  IsFiniteSet(S) /\ Cardinality(S) \in Nat /\ Cardinality(S) <= DocumentCount(m)
<1> DEFINE E == Entries(m)
           T == Searchable(m)
           f == [x \in E |-> x[2]]
<1>1. IsFiniteSet(E) /\ Cardinality(E) \in Nat /\ DocumentCount(m) = Cardinality(E)
  BY DocumentCountType DEF DocumentCount
<1>2. ASSUME NEW x \in E PROVE x[2] \in T
  BY EntryIs DEF Searchable
<1>3. ASSUME NEW o \in T PROVE \E x \in E : x[2] = o
  <2>1. PICK s \in m.segments : o \in Documents(s)
    BY DEF Searchable
  <2>2. <<s, o>> \in E
    BY <2>1 DEF Entries
  <2>3. QED BY <2>2
<1> HIDE DEF E, T
<1>4. f \in [E -> T] /\ \A o \in T : \E x \in E : f[x] = o
  BY <1>2, <1>3
<1>5. f \in Surjection(E, T)
  BY <1>4 DEF Surjection
<1> HIDE DEF f
<1>6. IsFiniteSet(T) /\ Cardinality(T) <= Cardinality(E)
  BY <1>1, <1>5, FS_Surjection
<1>7. IsFiniteSet(S) /\ Cardinality(S) <= Cardinality(T)
  BY <1>6, FS_Subset DEF T
<1>8. Cardinality(S) \in Nat /\ Cardinality(T) \in Nat
  BY <1>6, <1>7, FS_CardinalityType
<1>9. QED BY <1>1, <1>6, <1>7, <1>8

\* A restarted instance resumes the feed no further on than the numbering.
LEMMA OpenKeepsFeed ==
  ASSUME Types, ShapeInv, CopyInv, FeedInv,
         NEW i \in Instances, \A j \in Instances : j = i, OpenForWriting(i)
  PROVE  FeedInv'
<1> DEFINE h == ingestor'[i]
           start == AfterLast(manifest)
           count == DocumentCount(manifest)
           from == (count \div ChunkEvents) * ChunkEvents
           next == Min({FeedLength, from})
<1>1. UNCHANGED <<objects, manifest, request>> /\ up[i] = "loading"
  BY DEF OpenForWriting, storeVars
<1>2. h.open /\ h.buffer = <<>> /\ h.start = start /\ feed'[i].next = next
  <2> DEFINE g == [NoIngestor EXCEPT !.open = TRUE, !.view = manifest, !.start = start]
  <2>1. ingestor'[i] = g /\ feed'[i].next = next
    BY DEF OpenForWriting, AfterLast, Types, FeedType
  <2> HIDE DEF start, next
  <2>2. g.open /\ g.buffer = <<>> /\ g.start = start
    BY DEF NoIngestor
  <2>3. QED BY <2>1, <2>2
<1>3. manifest \in Manifest /\ Bounded(manifest.segments) /\ Disjoint(manifest.segments)
  BY DEF Types, ShapeInv, StoreInv, CopyInv
<1>4. /\ start \in Nat /\ count \in Nat /\ count <= start
      /\ start = 0 \/ \E s \in manifest.segments : start = s.last + 1
  BY <1>3, AfterLastBeyond, CountedByOffset, DocumentCountType
<1>5. next \in Int /\ next <= start
  <2> HIDE DEF start, count
  <2>1. from \in Int /\ from <= count
    <3> DEFINE chunks == count \div ChunkEvents
    <3>1. chunks \in Nat /\ chunks * ChunkEvents <= count
      BY <1>4, BoundsAre
    <3> HIDE DEF chunks
    <3>2. chunks * ChunkEvents \in Int
      BY <3>1, BoundsAre
    <3>3. QED BY <3>1, <3>2 DEF chunks
  <2> HIDE DEF from
  <2>2. FeedLength \in Int
    BY BoundsAre
  <2>3. next \in {FeedLength, from} /\ next <= from
    BY <2>1, <2>2, MinOfTwo, Zenon
  <2> HIDE DEF next
  <2>4. QED BY <1>4, <2>1, <2>2, <2>3
<1>6. \A u \in Threads : ~At(u, "adding")
  BY <1>1 DEF ShapeInv, RequestInv, At
<1>7. EarlyInv(i)'
  <2>1. \A e : HeldAt(i, e)' \subseteq HeldAt(i, e)
    BY <1>1, <1>2, HeldStays
  <2>2. QED BY <2>1 DEF FeedInv, EarlyInv
<1>8. GaplessInv(i)'
  <2>1. \A s \in manifest.segments : 0 .. s.last \subseteq Searchable(manifest)
    BY DEF FeedInv, GaplessInv
  <2>2. 0 .. start - 1 \subseteq Searchable(manifest)
    <3>1. CASE start = 0
      <4>1. 0 .. start - 1 = {}
        BY <3>1
      <4>2. QED BY <4>1
    <3>2. CASE \E s \in manifest.segments : start = s.last + 1
      <4>1. PICK s \in manifest.segments : start = s.last + 1
        BY <3>2
      <4>2. s.last \in Nat
        BY DEF Types, Manifest, Segments
      <4>3. start - 1 = s.last
        BY <4>1, <4>2
      <4> HIDE DEF start
      <4>4. QED BY <2>1, <4>3
    <3>3. QED BY <1>4, <3>1, <3>2
  <2>3. QED BY <1>1, <1>2, <2>1, <2>2 DEF GaplessInv
<1>9. AccountedInv(i)'
  <2>1. h.start .. feed'[i].next - 1 = {}
    <3> HIDE DEF start, next
    <3>1. QED BY <1>2, <1>4, <1>5
  <2>2. QED BY <2>1 DEF AccountedInv
<1>10. \A u \in Threads : InTime(u)' /\ (Streaming(u) => "stream" \in Does[u])'
  BY <1>1, <1>6 DEF FeedInv, InTime, Streaming, At
<1>11. QED BY <1>7, <1>8, <1>9, <1>10 DEF FeedInv

\* Every step of a single instance with a single stream keeps the feed in time.
LEMMA FeedStep ==
  ASSUME Alone, OneStream, Types, ShapeInv, DurableInv, CopyInv, FeedInv, [Next]_vars
  PROVE  FeedInv'
<1>1. ASSUME NEW t \in Threads,
             \/ Serve(t) \/ Search(t) \/ StartStream(t) \/ EndStream(t)
             \/ \E e \in Posted : Post(t, e)
             \/ TakeFails(t) \/ PutFails(t) \/ ReadFails(t) \/ OpenFails(t)
      PROVE  FeedInv'
  <2> DEFINE i == Serves[t]
             q == request[t]
  <2>1. \A j \in Instances : j = i
    BY DEF Alone
  <2>2. CASE Take(t) \/ TakeFails(t)
    BY <2>1, <2>2, TakeKeepsFeed
  <2>3. CASE Add(t)
    BY <2>1, <2>3, AddKeepsFeed
  <2>4. CASE PutSegment(t) \/ PutManifest(t) \/ PutFails(t)
    BY <2>1, <2>4, FlushKeepsFeed
  <2>5. CASE \/ AskSize(t) \/ ReadManifest(t) \/ ReadTorn(t) \/ Install(t)
             \/ Rebuild(t) \/ RebuildFails(t) \/ PlanSearch(t) \/ OpenReader(t) \/ Respond(t)
             \/ ReadFails(t) \/ OpenFails(t)
             \/ Search(t) \/ StartStream(t) \/ EndStream(t) \/ \E e \in Posted : Post(t, e)
    <3>1. /\ UNCHANGED <<objects, manifest, ingestor, feed>>
          /\ \A u \in Threads : u # t => request'[u] = request[u]
      BY <2>5 DEF AskSize, ReadManifest, ReadTorn, Install, Rebuild, RebuildFails, RefreshFails,
                  PlanSearch, OpenReader, Respond, Search, StartStream, EndStream, Post, Go,
                  ReadFails, OpenFails,
                  Raise, Hand, Proceed, storeVars, instanceVars, Types
    <3>2. Rests(t) /\ (Streaming(t)' => Streaming(t) \/ "stream" \in Does[t])
      <4>1. CASE \E e \in Posted : Post(t, e)
        <5>1. PICK e \in Posted : Post(t, e)
          BY <4>1
        <5> DEFINE r == [Idle EXCEPT !.at = "adding", !.job = "post", !.batch = <<e>>]
        <5>2. request'[t] = r /\ q.at = "idle"
          BY <5>1 DEF Post, Begin, At, Types
        <5>3. r.job = "post" /\ r.at = "adding"
          BY DEF Idle
        <5> HIDE DEF r
        <5>4. QED BY <5>2, <5>3 DEF Rests, Streaming, At
      <4>2. CASE EndStream(t)
        <5> DEFINE batch == [k \in 1 .. 0 |-> feed[i].next + k - 1]
                   r == [Idle EXCEPT !.at = "adding", !.job = "last", !.batch = batch]
        <5>1. request'[t] = r /\ q.at = "taking"
          BY <4>2 DEF EndStream, Hand, At, Types
        <5>2. batch = <<>>
          OBVIOUS
        <5> HIDE DEF batch
        <5>3. r.batch = <<>>
          BY <5>2 DEF Idle
        <5> HIDE DEF r
        <5>4. QED BY <5>1, <5>3 DEF Rests, Streaming, At
      <4>3. CASE \/ AskSize(t) \/ ReadManifest(t) \/ ReadTorn(t) \/ Install(t)
                 \/ Rebuild(t) \/ RebuildFails(t) \/ PlanSearch(t) \/ OpenReader(t) \/ Respond(t)
                 \/ ReadFails(t) \/ OpenFails(t) \/ Search(t) \/ StartStream(t)
        <5>1. Moves(t)
          BY <4>3, RequestsMove DEF Serve
        <5>2. ~At(t, "taking") /\ ~At(t, "adding")
          BY <4>3 DEF AskSize, ReadManifest, ReadTorn, Install, Rebuild, RebuildFails, PlanSearch,
                      OpenReader, Respond, Answered, ReadFails, OpenFails, Search,
                      StartStream, Begin, At
        <5>3. QED BY <3>1, <5>1, <5>2, OthersRest
      <4>4. QED BY <2>5, <4>1, <4>2, <4>3
    <3>3. \A u \in Threads : Rests(u) /\ (Streaming(u)' => Streaming(u) \/ "stream" \in Does[u])
      BY <3>1, <3>2 DEF Rests, Streaming, At
    <3>4. \A e : HeldAt(i, e)' \subseteq HeldAt(i, e)
      BY <3>1, HeldStays
    <3>5. QED BY <2>1, <3>1, <3>3, <3>4, QuietKeepsFeed
  <2>6. QED BY <1>1, <2>2, <2>3, <2>4, <2>5 DEF Serve
<1>2. ASSUME NEW i \in Instances,
             \/ LoadIndex(i) \/ LoadIndexFails(i) \/ OpenForWriting(i) \/ OpenForWritingFails(i)
             \/ Crash(i) \/ Expire(i)
      PROVE  FeedInv'
  <2>1. \A j \in Instances : j = i
    BY DEF Alone
  <2>2. CASE OpenForWriting(i)
    BY <2>1, <2>2, OpenKeepsFeed
  <2>3. CASE Crash(i)
    <3>1. UNCHANGED <<objects, manifest>> /\ ingestor'[i] = NoIngestor
          /\ \A u \in Threads : request'[u] = Idle
      BY <2>1, <2>3 DEF Crash, storeVars, Types
    <3>2. /\ NoIngestor.buffer = <<>> /\ ~NoIngestor.open /\ Idle.at = "idle" /\ Idle.job = "none"
      BY DEF NoIngestor, Idle
    <3>3. \A e : HeldAt(i, e)' \subseteq HeldAt(i, e)
      BY <3>1, <3>2, HeldStays
    <3>4. QED BY <2>1, <3>1, <3>2, <3>3, QuietKeepsFeed DEF Streaming, At
  <2>4. CASE LoadIndex(i) \/ LoadIndexFails(i) \/ OpenForWritingFails(i) \/ Expire(i)
    <3>1. UNCHANGED <<objects, manifest, ingestor, feed, request>>
      BY <2>4 DEF LoadIndex, LoadIndexFails, OpenForWritingFails, Expire, storeVars
    <3>2. \A e : HeldAt(i, e)' \subseteq HeldAt(i, e)
      BY <3>1, HeldStays
    <3>3. QED BY <2>1, <3>1, <3>2, QuietKeepsFeed DEF Rests, Streaming, At
  <2>5. QED BY <1>2, <2>2, <2>3, <2>4
<1>3. CASE UNCHANGED vars
  <2>1. UNCHANGED <<objects, manifest, ingestor, feed, request>>
    BY <1>3 DEF vars, storeVars, instanceVars
  <2>2. ASSUME NEW i \in Instances PROVE FeedInv'
    <3>1. \A j \in Instances : j = i
      BY DEF Alone
    <3>2. \A e : HeldAt(i, e)' \subseteq HeldAt(i, e)
      BY <2>1, HeldStays
    <3>3. QED BY <2>1, <3>1, <3>2, QuietKeepsFeed DEF Rests, Streaming, At
  <2>3. CASE Instances = {}
    BY <2>3 DEF FeedInv
  <2>4. QED BY <2>2, <2>3
<1>4. QED BY <1>1, <1>2, <1>3 DEF Next

\* What was passed over and what is indexed of the feed are different offsets,
\* all of them listed: nothing is passed over but for a document too many.
LEMMA PassedIsSurplus ==
  ASSUME Types, ShapeInv, FeedInv, NEW i \in Instances, ingestor[i].open
  PROVE  Cardinality(Passed(i))
           <= DocumentCount(manifest) - Cardinality(Indexed \cap 0 .. FeedLength - 1)
<1> DEFINE P == Passed(i)
           F == Indexed \cap 0 .. FeedLength - 1
           S == Searchable(manifest)
           start == ingestor[i].start
           next == feed[i].next
<1>1. start \in Nat /\ next \in 0 .. FeedLength /\ FeedLength \in Nat
  BY BoundsAre DEF Types, IngestorType, FeedType
<1>2. ASSUME NEW n \in P PROVE n \in S
  <2>1. /\ n \in 0 .. next - 1 /\ n \notin Range(ingestor[i].buffer)
        /\ \A t \in Threads : n \notin Range(request[t].batch)
    BY DEF Passed
  <2>2. n \notin start .. next - 1
    BY <2>1 DEF FeedInv, AccountedInv
  <2>3. n \in 0 .. start - 1
    <3> HIDE DEF start, next
    <3>1. QED BY <1>1, <2>1, <2>2
  <2>4. QED BY <2>3 DEF FeedInv, GaplessInv
<1>3. ASSUME NEW n \in F PROVE n \in S
  <2>1. n \in Indexed
    OBVIOUS
  <2>2. PICK s \in manifest.segments : \E o \in Documents(s) : n = objects[s][o]
    BY <2>1, IndexedIs
  <2>3. PICK o \in Documents(s) : n = objects[s][o]
    BY <2>2
  <2>4. s.first \in Nat /\ s.last \in Nat /\ o \in s.first .. s.last
    BY DEF Types, Manifest, Segments, Documents
  <2>5. o \in Nat /\ o <= s.last
    BY <2>4
  <2>6. n \in FeedEvents /\ o \in HeldAt(i, n)
    BY <2>3, <2>5 DEF FeedEvents, HeldAt, ListedAt
  <2>7. n <= o
    BY <2>6 DEF FeedInv, EarlyInv
  <2>8. n \in 0 .. s.last
    BY <1>1, <2>4, <2>5, <2>6, <2>7 DEF FeedEvents
  <2>9. QED BY <2>8 DEF FeedInv, GaplessInv
<1>4. P \cap F = {}
  BY DEF Passed
<1> HIDE DEF P, F
<1>5. /\ P \in SUBSET S /\ F \in SUBSET S /\ P \cup F \in SUBSET S
  BY <1>2, <1>3
<1>6. manifest \in Manifest /\ Bounded(manifest.segments)
  BY DEF Types, ShapeInv, StoreInv
<1>7. /\ IsFiniteSet(P) /\ Cardinality(P) \in Nat
      /\ IsFiniteSet(F) /\ Cardinality(F) \in Nat
      /\ Cardinality(P \cup F) \in Nat /\ Cardinality(P \cup F) <= DocumentCount(manifest)
      /\ DocumentCount(manifest) \in Nat
  BY <1>5, <1>6, ListedAreCounted, DocumentCountType
<1>8. Cardinality(P \cup F) = Cardinality(P) + Cardinality(F)
  <2>1. Cardinality(P \cup F) = Cardinality(P) + Cardinality(F) - Cardinality(P \cap F)
    BY <1>7, FS_Union
  <2>2. Cardinality(P \cap F) = 0
    BY <1>4, FS_EmptySet
  <2>3. QED BY <1>7, <2>1, <2>2
<1>9. Cardinality(P) <= DocumentCount(manifest) - Cardinality(F)
  BY <1>7, <1>8
<1>10. QED BY <1>9 DEF P, F

\* One instance with one stream at a time passes over no more events of the feed
\* than the index holds documents too many, however often it dies, whatever it
\* posts, and whatever the sizes of chunks, batches and segments.
THEOREM FeedLosesLittle ==
  ASSUME Alone, OneStream PROVE Spec => []FeedLosesAtMostSurplus
<1> DEFINE Inv == Types /\ ShapeInv /\ DurableInv
<1>1. Inv /\ CopyInv /\ [Next]_vars => CopyInv'
  BY CopyStep
<1>2. Inv /\ CopyInv /\ FeedInv /\ [Next]_vars => FeedInv'
  BY FeedStep
<1>3. Inv /\ FeedInv => FeedLosesAtMostSurplus
  BY PassedIsSurplus DEF FeedLosesAtMostSurplus
<1>4. QED BY CopyInit, FeedInit, DurableAlways, <1>1, <1>2, <1>3, PTL DEF Spec
=============================================================================
