----------------------------- MODULE LiveService -----------------------------
(***************************************************************************)
(* The hosted service: search, posted events and the streamed feed         *)
(* (src/aether/service/app.py, state.py, ingest.py, feed.py) over the      *)
(* query coordinator's cache (src/aether/index/coordinator.py).            *)
(*                                                                         *)
(* Requests run on threads of an instance.  They share the ingestor, under *)
(* its lock, and the coordinator, under no lock: its cached manifest and   *)
(* its readers are two assignments, made by whichever request refreshes.   *)
(* Several instances exist only while a new revision replaces an old one.  *)
(*                                                                         *)
(* The manifest is that of the live partition, which only the service      *)
(* writes; the other partitions' part of the union never changes here.     *)
(* Events have identities and nothing else: posted ones are model values,  *)
(* those of the feed are its positions.                                    *)
(***************************************************************************)
EXTENDS Manifests, Sequences, FiniteSetsExt, Functions

CONSTANTS
  Instances, Threads,
  Serves,        \* the instance a thread belongs to
  Does,          \* the requests a thread is given: "post", "search", "stream"
  Posted,        \* events clients post
  NoThread,
  FeedLength,    \* events in the feed, at positions 0 .. FeedLength - 1
  ChunkEvents,   \* feed.CHUNK_EVENTS
  Batch,         \* events a stream takes at a time
  SegmentDocs,   \* ingest.LIVE_SEGMENT_DOCS
  MaxAttempts,   \* bound: how often a client posts one event
  MaxStreams,    \* bound: stream requests
  MaxFaults      \* bound: crashes, failed reads and failed writes together

\* A posted event is told from those of the feed by its identity.
ASSUME ServiceAssumption ==
  /\ Serves \in [Threads -> Instances]
  /\ Does \in [Threads -> SUBSET {"post", "search", "stream"}]
  /\ NoThread \notin Threads
  /\ {FeedLength, MaxAttempts, MaxStreams, MaxFaults} \subseteq Nat
  /\ {ChunkEvents, Batch, SegmentDocs} \subseteq Nat \ {0}
  /\ Posted \cap 0 .. FeedLength - 1 = {}

VARIABLES
  objects,      \* the store: the events in each segment object, by offset
  manifest,     \* the store: the live partition's manifest
  up,           \* of each instance: "down", "loading" or "serving"
  ingestor,     \* of each instance: LiveIngestor and its PartitionIndexer
  feed,         \* of each instance: Feed
  coordinator,  \* of each instance: Coordinator and the refresh state around it
  request,      \* of each thread: the request it serves
  acked,        \* of each instance: posted events it answered with 200
  attempts,     \* bookkeeping: how often each event was posted
  streams,      \* bookkeeping: streams begun
  faults        \* bookkeeping: disturbances so far

storeVars == <<objects, manifest>>
instanceVars == <<up, ingestor, feed, coordinator>>
countVars == <<attempts, streams, faults>>
vars == <<storeVars, instanceVars, request, acked, countVars>>

Event == Posted \cup 0 .. FeedLength - 1

\* open: the ingestor exists; view: the indexer's manifest; start: the offset
\* of the first buffered event; holder: the thread inside the lock.
NoIngestor == [open |-> FALSE, view |-> EmptyManifest, start |-> 0,
               buffer |-> <<>>, holder |-> NoThread]

\* next: the position handed out next; dry: a chunk could not be read.
NoFeed == [next |-> 0, dry |-> FALSE]

\* cached, readers: the manifest and what each opened segment held; degraded:
\* index_error is set; fresh: refresh_seconds have not passed; checker: the
\* thread that holds _refreshing.
NoIndex == [cached |-> EmptyManifest, readers |-> [s \in {} |-> {}],
            degraded |-> TRUE, fresh |-> FALSE, checker |-> NoThread]

\* job: "post", "search", "stream", or "last" for the flush that ends a stream;
\* batch: events to add; seen: the manifest read, or what a search has left to
\* open of it; due, found: of a search, the events acknowledged here before it
\* began and those it found.
Idle == [at |-> "idle", job |-> "none", batch |-> <<>>, seen |-> EmptyManifest,
         due |-> {}, found |-> {}]

Where == {"idle", "taking", "adding", "sealing", "publishing",
          "sizing", "reading", "installing", "rebuilding",
          "planning", "opening"}

TypeOK ==
  /\ manifest \in Manifest /\ DOMAIN objects \subseteq Segments
  /\ \A s \in DOMAIN objects : objects[s] \in [Documents(s) -> Event]
  /\ up \in [Instances -> {"down", "loading", "serving"}]
  /\ \A i \in Instances :
       /\ ingestor[i].view \in Manifest /\ ingestor[i].start \in Nat
       /\ ingestor[i].buffer \in Seq(Event)
       /\ ingestor[i].holder \in Threads \cup {NoThread}
       /\ feed[i] \in [next : 0 .. FeedLength, dry : BOOLEAN]
       /\ coordinator[i].cached \in Manifest
       /\ coordinator[i].checker \in Threads \cup {NoThread}
  /\ \A t \in Threads : request[t].at \in Where /\ request[t].seen \in Manifest
  /\ acked \in [Instances -> SUBSET Posted]
  /\ attempts \in [Posted -> 0 .. MaxAttempts] /\ streams \in 0 .. MaxStreams
  /\ faults \in 0 .. MaxFaults

Init ==
  /\ objects = [s \in {} |-> {}] /\ manifest = EmptyManifest
  /\ up = [i \in Instances |-> "down"]
  /\ ingestor = [i \in Instances |-> NoIngestor]
  /\ feed = [i \in Instances |-> NoFeed]
  /\ coordinator = [i \in Instances |-> NoIndex]
  /\ request = [t \in Threads |-> Idle]
  /\ acked = [i \in Instances |-> {}]
  /\ attempts = [e \in Posted |-> 0] /\ streams = 0
  /\ faults = 0
-----------------------------------------------------------------------------
Disturbance == faults < MaxFaults /\ faults' = faults + 1

At(t, place) == request[t].at = place
Go(t, place) == request' = [request EXCEPT ![t].at = place]

\* The segment an instance's buffer seals into, and its contents.
Sealed(i) == Segment(ingestor[i].start,
                     ingestor[i].start + Len(ingestor[i].buffer) - 1)
Contents(i) ==
  [o \in Documents(Sealed(i)) |-> ingestor[i].buffer[o - ingestor[i].start + 1]]

\* The events a manifest lists, each with the segment and offset that hold it.
Entries(m) == UNION {{<<s, o>> : o \in Documents(s)} : s \in m.segments}

\* Manifest.docs, the sum of what the segments hold.
DocumentCount(m) == Cardinality(Entries(m))
Copies(m, e) == {x \in Entries(m) : objects[x[1]][x[2]] = e}
Indexed == {objects[x[1]][x[2]] : x \in Entries(manifest)}
-----------------------------------------------------------------------------
(* An instance starts and dies. *)

\* load(), the index: the coordinator's first refresh.
LoadIndex(i) ==
  /\ up[i] = "down"
  /\ up' = [up EXCEPT ![i] = "loading"]
  /\ coordinator' = [coordinator EXCEPT ![i] =
       [NoIndex EXCEPT !.cached = manifest, !.degraded = FALSE, !.fresh = TRUE]]
  /\ UNCHANGED <<storeVars, ingestor, feed, request, acked, countVars>>

\* load(), the index: the read fails and index_error stays for good.
LoadIndexFails(i) ==
  /\ up[i] = "down" /\ Disturbance
  /\ up' = [up EXCEPT ![i] = "loading"]
  /\ UNCHANGED <<storeVars, ingestor, feed, coordinator, request, acked,
                 attempts, streams>>

\* Slip: the numbering restarts with the process.
OpenFromZero(i) ==
  /\ up[i] = "loading"
  /\ up' = [up EXCEPT ![i] = "serving"]
  /\ ingestor' = [ingestor EXCEPT ![i] =
                    [NoIngestor EXCEPT !.open = TRUE, !.view = manifest]]
  /\ UNCHANGED <<storeVars, feed, coordinator, request, acked, countVars>>

\* Slip: the feed resumes one chunk further on.
OpenOneChunkOn(i) ==
  /\ up[i] = "loading"
  /\ up' = [up EXCEPT ![i] = "serving"]
  /\ ingestor' = [ingestor EXCEPT ![i] =
       [NoIngestor EXCEPT
          !.open = TRUE, !.view = manifest,
          !.start = 1 + Max({-1} \cup {s.last : s \in manifest.segments})]]
  /\ feed' = [feed EXCEPT ![i].next =
       Min({FeedLength,
            ((DocumentCount(manifest) + ChunkEvents - 1) \div ChunkEvents) * ChunkEvents})]
  /\ UNCHANGED <<storeVars, coordinator, request, acked, countVars>>

\* _open_for_writing(): the numbering continues from the manifest, and the feed
\* resumes at the chunk the number of documents in the manifest falls into.
OpenForWriting(i) ==
  /\ up[i] = "loading"
  /\ up' = [up EXCEPT ![i] = "serving"]
  /\ ingestor' = [ingestor EXCEPT ![i] =
       [NoIngestor EXCEPT
          !.open = TRUE, !.view = manifest,
          !.start = 1 + Max({-1} \cup {s.last : s \in manifest.segments})]]
  /\ feed' = [feed EXCEPT ![i].next =
       Min({FeedLength, (DocumentCount(manifest) \div ChunkEvents) * ChunkEvents})]
  /\ UNCHANGED <<storeVars, coordinator, request, acked, countVars>>

\* _open_for_writing() fails: the instance serves read-only.
OpenForWritingFails(i) ==
  /\ up[i] = "loading" /\ Disturbance
  /\ up' = [up EXCEPT ![i] = "serving"]
  /\ UNCHANGED <<storeVars, ingestor, feed, coordinator, request, acked,
                 attempts, streams>>

\* The instance dies, or is scaled to zero, with what it had in memory.
Crash(i) ==
  /\ up[i] # "down" /\ Disturbance
  /\ up' = [up EXCEPT ![i] = "down"]
  /\ ingestor' = [ingestor EXCEPT ![i] = NoIngestor]
  /\ feed' = [feed EXCEPT ![i] = NoFeed]
  /\ coordinator' = [coordinator EXCEPT ![i] = NoIndex]
  /\ request' = [t \in Threads |-> IF Serves[t] = i THEN Idle ELSE request[t]]
  /\ UNCHANGED <<storeVars, acked, attempts, streams>>

\* refresh_seconds pass.
Expire(i) ==
  /\ up[i] = "serving" /\ coordinator[i].fresh
  /\ coordinator' = [coordinator EXCEPT ![i].fresh = FALSE]
  /\ UNCHANGED <<storeVars, up, ingestor, feed, request, acked, countVars>>
-----------------------------------------------------------------------------
(* Requests that write: POST /api/events and GET /api/stream. *)

Begin(t, kind) ==
  /\ kind \in Does[t] /\ At(t, "idle") /\ up[Serves[t]] = "serving"
  /\ kind = "search" \/ ingestor[Serves[t]].open

\* A client posts an event, again if it was not told that it succeeded.
Post(t, e) ==
  /\ Begin(t, "post") /\ attempts[e] < MaxAttempts
  /\ \A i \in Instances : e \notin acked[i]
  /\ \A u \in Threads : request[u].job # "post" \/ request[u].batch # <<e>>
  /\ attempts' = [attempts EXCEPT ![e] = @ + 1]
  /\ request' = [request EXCEPT ![t] =
                   [Idle EXCEPT !.at = "adding", !.job = "post", !.batch = <<e>>]]
  /\ UNCHANGED <<storeVars, instanceVars, acked, streams, faults>>

StartStream(t) ==
  /\ Begin(t, "stream") /\ streams < MaxStreams
  /\ streams' = streams + 1
  /\ request' = [request EXCEPT ![t] = [Idle EXCEPT !.at = "taking", !.job = "stream"]]
  /\ UNCHANGED <<storeVars, instanceVars, acked, attempts, faults>>

\* The events of the current chunk that are still in Feed._buffer.
InChunk(i) ==
  Min({FeedLength - feed[i].next,
       (ChunkEvents - (feed[i].next % ChunkEvents)) % ChunkEvents})

\* Go on to add the next n events of the feed, or to the stream's last flush.
Hand(t, n) ==
  LET i == Serves[t] IN
  request' = [request EXCEPT ![t] =
    [Idle EXCEPT !.at = "adding", !.job = IF n = 0 THEN "last" ELSE "stream",
                 !.batch = [k \in 1 .. n |-> feed[i].next + k - 1]]]

\* Slip: the last batch is not cut at the end of the feed.
TakeFullBatch(t) ==
  LET i == Serves[t] IN
  /\ At(t, "taking")
  /\ feed' = [feed EXCEPT ![i].next = @ + Batch]
  /\ Hand(t, Batch)
  /\ UNCHANGED <<storeVars, up, ingestor, coordinator, acked, countVars>>

\* Feed.take(): up to Batch events, loading chunks as needed.
Take(t) ==
  LET i == Serves[t]
      n == Min({Batch, IF feed[i].dry THEN InChunk(i) ELSE FeedLength - feed[i].next})
  IN /\ At(t, "taking")
     /\ feed' = [feed EXCEPT ![i].next = @ + n]
     /\ Hand(t, n)
     /\ UNCHANGED <<storeVars, up, ingestor, coordinator, acked, countVars>>

\* Feed.take(): any failure to read a chunk is taken for the end of the feed.
TakeFails(t) ==
  LET i == Serves[t]
      n == InChunk(i)
  IN /\ At(t, "taking") /\ n < Batch /\ ~feed[i].dry /\ Disturbance
     /\ feed' = [feed EXCEPT ![i].next = @ + n, ![i].dry = TRUE]
     /\ Hand(t, n)
     /\ UNCHANGED <<storeVars, up, ingestor, coordinator, acked, attempts, streams>>

\* The stream's time is over or its client has gone.  A client gone before the
\* first batch leaves no flush behind: no stream has begun then.
EndStream(t) ==
  /\ At(t, "taking")
  /\ Hand(t, 0)
  /\ UNCHANGED <<storeVars, instanceVars, acked, countVars>>

\* LiveIngestor.add(), inside the lock: number the events and buffer them; a
\* post and a stream's last call seal whatever is buffered.
Add(t) ==
  LET i == Serves[t]
      grown == ingestor[i].buffer \o request[t].batch
      seals == grown # <<>> /\ (request[t].job # "stream" \/ Len(grown) >= SegmentDocs)
  IN /\ At(t, "adding") /\ ingestor[i].holder = NoThread
     /\ ingestor' = [ingestor EXCEPT
          ![i].buffer = grown, ![i].holder = IF seals THEN t ELSE NoThread]
     /\ request' = [request EXCEPT ![t] =
          IF seals THEN [@ EXCEPT !.at = "sealing"]
          ELSE IF @.job = "stream" THEN [@ EXCEPT !.at = "taking", !.batch = <<>>]
          ELSE Idle]
     /\ UNCHANGED <<storeVars, up, feed, coordinator, acked, countVars>>

StoreSegment(i) ==
  objects' = [s \in DOMAIN objects \cup {Sealed(i)} |->
                IF s = Sealed(i) THEN Contents(i) ELSE objects[s]]

\* Slip: the buffer is emptied before the manifest is stored.
ForgetsAtOnce(t) ==
  LET i == Serves[t] IN
  /\ At(t, "sealing")
  /\ StoreSegment(i)
  /\ ingestor' = [ingestor EXCEPT
       ![i].view = Publish(@, Sealed(i)), ![i].start = Sealed(i).last + 1,
       ![i].buffer = <<>>, ![i].holder = NoThread]
  /\ Go(t, "sizing")
  /\ UNCHANGED <<manifest, up, feed, coordinator, acked, countVars>>

\* flush(), first request: the segment.
PutSegment(t) ==
  /\ At(t, "sealing")
  /\ StoreSegment(Serves[t]) /\ Go(t, "publishing")
  /\ UNCHANGED <<manifest, instanceVars, acked, countVars>>

\* flush(), second request: the manifest.  The buffer is emptied, the lock
\* released, and the request goes on to refresh the coordinator.
PutManifest(t) ==
  LET i == Serves[t] IN
  /\ At(t, "publishing")
  /\ ingestor' = [ingestor EXCEPT
       ![i].view = Publish(@, Sealed(i)), ![i].start = Sealed(i).last + 1,
       ![i].buffer = <<>>, ![i].holder = NoThread]
  /\ manifest' = ingestor'[i].view
  /\ Go(t, "sizing")
  /\ UNCHANGED <<objects, up, feed, coordinator, acked, countVars>>

\* An exception leaves a request: a stream still makes its last flush.
Raise(t) ==
  request' = [request EXCEPT ![t] =
    IF @.job = "stream" THEN [Idle EXCEPT !.at = "adding", !.job = "last"] ELSE Idle]

\* Slip: the lock is not released on the way out.
PutFailsHoldingLock(t) ==
  /\ At(t, "sealing") /\ Disturbance
  /\ Raise(t)
  /\ UNCHANGED <<storeVars, instanceVars, acked, attempts, streams>>

\* A put is refused, or it is done and its answer lost.  The buffer is kept;
\* the manifest in memory already names the segment.
PutFails(t) ==
  LET i == Serves[t] IN
  /\ Disturbance
  /\ \/ /\ At(t, "sealing")
        /\ UNCHANGED objects \/ StoreSegment(i)
        /\ ingestor' = [ingestor EXCEPT ![i].holder = NoThread]
        /\ UNCHANGED manifest
     \/ /\ At(t, "publishing")
        /\ ingestor' = [ingestor EXCEPT
             ![i].view = Publish(@, Sealed(i)), ![i].holder = NoThread]
        /\ UNCHANGED manifest \/ manifest' = ingestor'[i].view
        /\ UNCHANGED objects
  /\ Raise(t)
  /\ UNCHANGED <<up, feed, coordinator, acked, attempts, streams>>
-----------------------------------------------------------------------------
(* Coordinator.refresh(), called by every request. *)

\* What follows a refresh; a search has released _refreshing by then.
Proceed(t) ==
  LET i == Serves[t] IN
  /\ request' = [request EXCEPT ![t] =
       CASE @.job = "search" -> [@ EXCEPT !.at = "planning"]
         [] @.job = "stream" -> [Idle EXCEPT !.at = "taking", !.job = "stream"]
         [] OTHER -> Idle]
  /\ acked' = IF request[t].job = "post"
              THEN [acked EXCEPT ![i] = @ \cup Range(request[t].batch)] ELSE acked

\* refresh_if_stale() counts a failed refresh like a successful one.
Checked(t, c) ==
  IF c.checker = t THEN [c EXCEPT !.fresh = TRUE, !.checker = NoThread] ELSE c

\* read_manifest(), first request: its size.  No manifest is an empty one.
AskSize(t) ==
  /\ At(t, "sizing")
  /\ request' = [request EXCEPT
       ![t].seen = manifest,
       ![t].at = IF manifest = EmptyManifest THEN "installing" ELSE "reading"]
  /\ UNCHANGED <<storeVars, instanceVars, acked, countVars>>

\* read_manifest(), second request: that many bytes.  They are all of it unless
\* a manifest with as many entries or more was written in between.
ReadManifest(t) ==
  /\ At(t, "reading")
  /\ Cardinality(manifest.segments) <= Cardinality(request[t].seen.segments)
  /\ request' = [request EXCEPT ![t].seen = manifest, ![t].at = "installing"]
  /\ UNCHANGED <<storeVars, instanceVars, acked, countVars>>

\* What a refresh that raises leads to: a search goes on with what it has, a
\* post is answered with an error although its event is durable.
RefreshFails(t) ==
  /\ IF request[t].job = "search" THEN Go(t, "planning") ELSE Raise(t)
  /\ coordinator' = [coordinator EXCEPT ![Serves[t]] = Checked(t, @)]
  /\ UNCHANGED <<storeVars, up, ingestor, feed, acked, attempts, streams>>

\* Either request of read_manifest() fails at the store.
ReadFails(t) ==
  /\ At(t, "sizing") \/ At(t, "reading")
  /\ Disturbance /\ RefreshFails(t)

\* The bytes read are the beginning of a longer manifest and no JSON.
ReadTorn(t) ==
  /\ At(t, "reading") /\ manifest # request[t].seen
  /\ Cardinality(manifest.segments) >= Cardinality(request[t].seen.segments)
  /\ RefreshFails(t) /\ UNCHANGED faults

\* Slip: a live set already installed is not replaced.
InstallOnce(t) ==
  LET i == Serves[t] IN
  /\ At(t, "installing")
  /\ coordinator' = [coordinator EXCEPT
       ![i].cached = IF @ = EmptyManifest THEN request[t].seen ELSE @]
  /\ Go(t, "rebuilding")
  /\ UNCHANGED <<storeVars, up, ingestor, feed, acked, countVars>>

\* refresh(), first assignment: whatever this request read, however long ago.
Install(t) ==
  /\ At(t, "installing")
  /\ coordinator' = [coordinator EXCEPT ![Serves[t]].cached = request[t].seen]
  /\ Go(t, "rebuilding")
  /\ UNCHANGED <<storeVars, up, ingestor, feed, acked, countVars>>

\* refresh(), second assignment: the readers of segments still listed.
Rebuild(t) ==
  LET i == Serves[t]
      c == coordinator[i]
      kept == Restrict(c.readers, DOMAIN c.readers \cap c.cached.segments)
  IN /\ At(t, "rebuilding")
     /\ coordinator' = [coordinator EXCEPT ![i] = Checked(t, [c EXCEPT !.readers = kept])]
     /\ Proceed(t)
     /\ UNCHANGED <<storeVars, up, ingestor, feed, countVars>>

\* Segments a search has yet to open.
Unopened(t) == request[t].seen.segments \ DOMAIN coordinator[Serves[t]].readers

\* refresh() iterates over the readers while a search adds one to them.
RebuildFails(t) ==
  LET i == Serves[t] IN
  /\ At(t, "rebuilding") /\ DOMAIN coordinator[i].readers # {}
  /\ \E u \in Threads \ {t} : Serves[u] = i /\ At(u, "opening") /\ Unopened(u) # {}
  /\ RefreshFails(t) /\ UNCHANGED faults
-----------------------------------------------------------------------------
(* GET /api/search. *)

\* refuse while the index could not be loaded; refresh if the manifest is old
\* and no other request is at it.
Search(t) ==
  LET i == Serves[t]
      stale == ~coordinator[i].fresh /\ coordinator[i].checker = NoThread
  IN /\ Begin(t, "search") /\ ~coordinator[i].degraded
     /\ request' = [request EXCEPT ![t] =
          [Idle EXCEPT !.at = IF stale THEN "sizing" ELSE "planning",
                       !.job = "search", !.due = acked[i]]]
     /\ coordinator' = [coordinator EXCEPT ![i].checker = IF stale THEN t ELSE @]
     /\ UNCHANGED <<storeVars, up, ingestor, feed, acked, countVars>>

\* Coordinator.candidates(): the cached manifest's segments.
PlanSearch(t) ==
  /\ At(t, "planning")
  /\ request' = [request EXCEPT ![t].seen = coordinator[Serves[t]].cached,
                                ![t].at = "opening"]
  /\ UNCHANGED <<storeVars, instanceVars, acked, countVars>>

\* search_one() on the next candidate, in whatever order the pool runs them,
\* through a reader opened at most once.
OpenReader(t) ==
  LET i == Serves[t]
      readers == coordinator[i].readers
  IN /\ At(t, "opening")
     /\ \E s \in request[t].seen.segments :
          LET opened == [r \in DOMAIN readers \cup {s} |->
                           IF r \in DOMAIN readers THEN readers[r] ELSE objects[r]]
          IN /\ coordinator' = [coordinator EXCEPT ![i].readers = opened]
             /\ request' = [request EXCEPT ![t].seen.segments = @ \ {s},
                                           ![t].found = @ \cup Range(opened[s])]
     /\ UNCHANGED <<storeVars, up, ingestor, feed, acked, countVars>>

\* A candidate cannot be opened or read, or a document not fetched: the search
\* is answered with an error, and what it has opened stays open.
OpenFails(t) ==
  /\ At(t, "opening") /\ Disturbance
  /\ Raise(t)
  /\ UNCHANGED <<storeVars, instanceVars, acked, attempts, streams>>

\* Every candidate has been searched, and the answer is put together.
Answered(t) == At(t, "opening") /\ request[t].seen.segments = {}

Respond(t) ==
  /\ Answered(t)
  /\ request' = [request EXCEPT ![t] = Idle]
  /\ UNCHANGED <<storeVars, instanceVars, acked, countVars>>

\* What a request under way does next, disturbances aside.
Serve(t) ==
  \/ Take(t) \/ Add(t) \/ PutSegment(t) \/ PutManifest(t)
  \/ AskSize(t) \/ ReadManifest(t) \/ ReadTorn(t) \/ Install(t)
  \/ Rebuild(t) \/ RebuildFails(t)
  \/ PlanSearch(t) \/ OpenReader(t) \/ Respond(t)

Next ==
  \/ \E t \in Threads :
       \/ Serve(t) \/ Search(t) \/ StartStream(t) \/ EndStream(t)
       \/ \E e \in Posted : Post(t, e)
       \/ TakeFails(t) \/ PutFails(t) \/ ReadFails(t) \/ OpenFails(t)
  \/ \E i \in Instances :
       \/ LoadIndex(i) \/ LoadIndexFails(i) \/ OpenForWriting(i) \/ OpenForWritingFails(i)
       \/ Crash(i) \/ Expire(i)

Spec == Init /\ [][Next]_vars

\* Requests under way are served, instances are started, time passes and
\* queries keep arriving; nothing is assumed of posts and streams.
FairSpec ==
  /\ Spec
  /\ \A t \in Threads : WF_vars(Serve(t)) /\ WF_vars(Search(t))
  /\ \A i \in Instances :
       WF_vars(LoadIndex(i)) /\ WF_vars(OpenForWriting(i)) /\ WF_vars(Expire(i))
-----------------------------------------------------------------------------
(* What the service promises. *)

\* An event answered with 200 is in a listed, stored segment from then on,
\* whatever fails or restarts afterwards (ingest.py: "the documents survive").
AcknowledgedIsDurable == \A i \in Instances : acked[i] \subseteq Indexed

\* Nothing indexed ever leaves the index: a restarted writer continues the
\* numbering, and a retried flush seals at least what the failed one did.
IndexedStays == [][Indexed \subseteq Indexed']_vars

\* Copies of an event come from its client's retries only: sealing again what a
\* failed flush may have stored never lists an event twice.
NoCopyWithoutRetry ==
  \A e \in Posted : Cardinality(Copies(manifest, e)) <= attempts[e]

\* A reader is never out of date: no segment is rewritten with other contents
\* once it has been opened, which is why refresh() may keep readers.
ReadersStayTrue ==
  \A i \in Instances : \A s \in DOMAIN coordinator[i].readers :
    coordinator[i].readers[s] = objects[s]

\* However refreshes overlap, tear or fail, the cached manifest is the stored
\* one in the end, unless the first load failed.
EventuallyCurrent ==
  \A i \in Instances :
    <>[](coordinator[i].degraded \/ coordinator[i].cached = manifest)

\* No request waits for ever, whatever failed inside a lock.
EveryRequestEnds == \A t \in Threads : ~At(t, "idle") ~> At(t, "idle")

\* Positions the feed has handed out: in the index, buffered, or in a request's
\* hands, unless they were passed over or lost with a process.
Passed(i) ==
  {n \in 0 .. feed[i].next - 1 :
     /\ n \notin Indexed \cup Range(ingestor[i].buffer)
     /\ \A t \in Threads : n \notin Range(request[t].batch)}

\* While at most one stream is open at a time, the feed passes over no more
\* events than the manifest has documents beyond one copy of each of the feed's:
\* posts and repetitions.
FeedLosesAtMostSurplus ==
  \A i \in Instances : up[i] = "serving" /\ ingestor[i].open =>
    Cardinality(Passed(i)) <=
      DocumentCount(manifest) - Cardinality(Indexed \cap 0 .. FeedLength - 1)

\* app.py: "a caller that posts an event and then searches for it will find it".
PostedIsFound ==
  \A t \in Threads : Answered(t) => request[t].due \subseteq request[t].found
=============================================================================
