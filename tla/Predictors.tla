----------------------------- MODULE Predictors -----------------------------
(***************************************************************************)
(* The replicas that score live sessions                                   *)
(* (src/aether/stream/predictor.py).  Events of a session all go to one    *)
(* partition, a partition has one owner, and the owner keeps its sessions  *)
(* in memory.  Offsets are committed on their own, by the consumer library *)
(* and not by the code: a message counts as read once poll() returned it.  *)
(*                                                                         *)
(* The log is given: a reader that has not come to an event yet behaves as *)
(* if it had not been produced.  Within a partition time does not run      *)
(* backwards, as the producer replays events in order; between partitions  *)
(* it may differ by any amount.  What the model makes of a session and the *)
(* statistics are left out.  A hung replica, expelled from its group, is   *)
(* left out too.                                                           *)
(***************************************************************************)
EXTENDS Sessions

CONSTANTS
  Replicas, NoReplica, Nothing,
  Logs,          \* what the partitions may hold, a function from partitions
  Timeout,       \* session_timeout
  SweepEvery,    \* SWEEP_EVERY
  MaxFaults      \* bound: revocations, stops and crashes together

Partitions == UNION {DOMAIN log : log \in Logs}
Events == UNION {UNION {Range(log[p]) : p \in DOMAIN log} : log \in Logs}

ASSUME PredictorsAssumption ==
  /\ \A log \in Logs : DOMAIN log = Partitions /\ \A p \in Partitions : log[p] \in Seq(Events)
  /\ \A e \in Events : e.ts \in Nat
  /\ NoReplica \notin Replicas
  /\ Nothing \notin [partition : Partitions, event : Events]
  /\ Timeout \in Nat /\ SweepEvery \in Nat \ {0} /\ MaxFaults \in Nat

\* What the producer makes of a topic: keyed by session, and replayed in order.
ASSUME TopicAssumption ==
  \A log \in Logs :
    /\ \A p, q \in Partitions : \A i \in DOMAIN log[p], j \in DOMAIN log[q] :
         log[p][i].session = log[q][j].session => p = q
    /\ \A p \in Partitions : \A i, j \in DOMAIN log[p] :
         i <= j => log[p][i].ts <= log[p][j].ts

VARIABLES
  log,         \* the topic, a sequence of events for each partition
  committed,   \* the group's committed offset of each partition
  owner,       \* the replica each partition is assigned to
  position,    \* its owner's next offset in each partition
  up,          \* the replicas that run
  pending,     \* of each replica: the message poll() returned, to be handled
  sessions,    \* of each replica: session -> state
  partitions,  \* of each replica: session -> partition
  watermarks,  \* of each replica: partition -> newest ts
  consumed,    \* of each replica: events handled, modulo SweepEvery
  predicted,   \* the last prediction published for each session
  start,       \* bookkeeping: the offset each owner took its partition over at
  taken,       \* bookkeeping: how often each partition was taken over
  faults       \* bookkeeping: disturbances so far

groupVars == <<committed, owner, position>>
replicaVars == <<pending, sessions, partitions, watermarks, consumed>>
boundVars == <<start, taken, faults>>
vars == <<log, groupVars, up, replicaVars, predicted, boundVars>>

AllSessions == UNION {SessionsIn(log[p]) : p \in Partitions}

Empty == [x \in {} |-> 0]

\* The entries of a dict under some keys, and the dict with one entry set.
Only(f, keys) == [x \in DOMAIN f \cap keys |-> f[x]]
Put(f, key, value) == [x \in DOMAIN f \cup {key} |-> IF x = key THEN value ELSE f[x]]

TypeOK ==
  /\ log \in Logs /\ up \subseteq Replicas
  /\ owner \in [Partitions -> up \cup {NoReplica}]
  /\ \A p \in Partitions :
       /\ committed[p] \in 0 .. position[p] /\ position[p] \in 0 .. Len(log[p])
       /\ start[p] \in 0 .. committed[p]
  /\ \A r \in Replicas :
       /\ DOMAIN partitions[r] = DOMAIN sessions[r]
       /\ \A s \in DOMAIN sessions[r] : partitions[r][s] \in DOMAIN watermarks[r]
       /\ consumed[r] \in 0 .. SweepEvery - 1
       /\ pending[r] = Nothing \/ owner[pending[r].partition] = r
  /\ DOMAIN predicted \subseteq AllSessions
  /\ taken \in [Partitions -> 0 .. 1 + MaxFaults]
  /\ faults \in 0 .. MaxFaults

Init ==
  /\ log \in Logs
  /\ committed = [p \in Partitions |-> 0] /\ position = committed /\ start = committed
  /\ owner = [p \in Partitions |-> NoReplica]
  /\ up = Replicas
  /\ pending = [r \in Replicas |-> Nothing]
  /\ sessions = [r \in Replicas |-> Empty] /\ partitions = sessions
  /\ watermarks = sessions
  /\ consumed = [r \in Replicas |-> 0]
  /\ predicted = Empty
  /\ taken = committed /\ faults = 0
-----------------------------------------------------------------------------
(* The group, external to the code. *)

Assign(p, r) ==
  /\ owner[p] = NoReplica /\ r \in up
  /\ owner' = [owner EXCEPT ![p] = r]
  /\ position' = [position EXCEPT ![p] = committed[p]]
  /\ start' = [start EXCEPT ![p] = committed[p]]
  /\ taken' = [taken EXCEPT ![p] = @ + 1]
  /\ UNCHANGED <<log, committed, up, replicaVars, predicted, faults>>

\* poll() returns the next message of an assigned partition.
Poll(p) ==
  LET r == owner[p] IN
  /\ r # NoReplica /\ pending[r] = Nothing /\ position[p] < Len(log[p])
  /\ pending' = [pending EXCEPT ![r] =
                   [partition |-> p, event |-> log[p][position[p] + 1]]]
  /\ position' = [position EXCEPT ![p] = @ + 1]
  /\ UNCHANGED <<log, committed, owner, up, sessions, partitions, watermarks,
                 consumed, predicted, boundVars>>

\* enable.auto.commit: what was polled counts as read, handled or not.
AutoCommit(p) ==
  /\ owner[p] # NoReplica /\ committed[p] < position[p]
  /\ committed' = [committed EXCEPT ![p] = position[p]]
  /\ UNCHANGED <<log, owner, position, up, replicaVars, predicted, boundVars>>
-----------------------------------------------------------------------------
(* A replica. *)

\* Slip: one watermark for all partitions.
SweptGlobally(held, of, marks) ==
  {s \in DOMAIN held :
     IsExpired(held[s], CHOOSE m \in Range(marks) : \A n \in Range(marks) : n <= m, Timeout)}

\* Slip: nothing is swept.
NeverSwept(held, of, marks) == {}

\* sweep(): the sessions that are over, by the progress of their partition.
Swept(held, of, marks) == {s \in DOMAIN held : IsExpired(held[s], marks[of[s]], Timeout)}

\* handle(), and every SweepEvery events sweep().
Handle(r) ==
  LET p == pending[r].partition
      e == pending[r].event
      state == Update(IF e.session \in DOMAIN sessions[r]
                      THEN sessions[r][e.session] ELSE NewSession, e)
      held == Put(sessions[r], e.session, state)
      of == Put(partitions[r], e.session, p)
      marks == Put(watermarks[r], p,
                   Larger(e.ts, IF p \in DOMAIN watermarks[r] THEN watermarks[r][p] ELSE 0))
      sweeps == (consumed[r] + 1) % SweepEvery = 0
      kept == DOMAIN held \ (IF sweeps THEN Swept(held, of, marks) ELSE {})
  IN /\ pending[r] # Nothing
     /\ pending' = [pending EXCEPT ![r] = Nothing]
     /\ sessions' = [sessions EXCEPT ![r] = Only(held, kept)]
     /\ partitions' = [partitions EXCEPT ![r] = Only(of, kept)]
     /\ watermarks' = [watermarks EXCEPT ![r] = marks]
     /\ consumed' = [consumed EXCEPT ![r] = (@ + 1) % SweepEvery]
     /\ predicted' = IF ~Scores(state) THEN predicted
                     ELSE Put(predicted, e.session,
                              [reading |-> taken[p], says |-> Prediction(state)])
     /\ UNCHANGED <<log, groupVars, up, boundVars>>

\* Slip: the sessions of a revoked partition are kept.
KeepPartitions(r, revoked) ==
  /\ watermarks' = [watermarks EXCEPT ![r] = Only(@, DOMAIN @ \ revoked)]
  /\ UNCHANGED <<sessions, partitions>>

\* drop_partitions().
DropPartitions(r, revoked) ==
  LET kept == {s \in DOMAIN partitions[r] : partitions[r][s] \notin revoked} IN
  /\ sessions' = [sessions EXCEPT ![r] = Only(@, kept)]
  /\ partitions' = [partitions EXCEPT ![r] = Only(@, kept)]
  /\ watermarks' = [watermarks EXCEPT ![r] = Only(@, DOMAIN @ \ revoked)]

Disturbance == faults < MaxFaults /\ faults' = faults + 1

\* on_revoke(), called from poll().  The library commits what was read, if it
\* still can.
Revoke(p) ==
  LET r == owner[p] IN
  /\ Disturbance
  /\ r # NoReplica /\ pending[r] = Nothing
  /\ DropPartitions(r, {p})
  /\ owner' = [owner EXCEPT ![p] = NoReplica]
  /\ \/ committed' = [committed EXCEPT ![p] = position[p]]
     \/ UNCHANGED committed
  /\ UNCHANGED <<log, position, up, pending, consumed, predicted, start, taken>>

\* What the death of a replica's process does.
Gone(r) ==
  /\ up' = up \ {r}
  /\ owner' = [p \in Partitions |-> IF owner[p] = r THEN NoReplica ELSE owner[p]]
  /\ pending' = [pending EXCEPT ![r] = Nothing]
  /\ sessions' = [sessions EXCEPT ![r] = Empty]
  /\ partitions' = [partitions EXCEPT ![r] = Empty]
  /\ watermarks' = [watermarks EXCEPT ![r] = Empty]
  /\ consumed' = [consumed EXCEPT ![r] = 0]
  /\ UNCHANGED <<log, position, predicted, start, taken>>

\* stop(): the loop ends between two messages and close() commits.
Stop(r) ==
  /\ r \in up /\ pending[r] = Nothing /\ Disturbance /\ Gone(r)
  /\ committed' = [p \in Partitions |-> IF owner[p] = r THEN position[p] ELSE committed[p]]

Crash(r) ==
  /\ r \in up /\ Disturbance /\ Gone(r)
  /\ UNCHANGED committed

Start(r) ==
  /\ r \notin up
  /\ up' = up \cup {r}
  /\ UNCHANGED <<log, groupVars, replicaVars, predicted, boundVars>>

Next ==
  \/ \E p \in Partitions :
       Poll(p) \/ AutoCommit(p) \/ Revoke(p) \/ \E r \in Replicas : Assign(p, r)
  \/ \E r \in Replicas : Handle(r) \/ Stop(r) \/ Crash(r) \/ Start(r)

Spec == Init /\ [][Next]_vars
-----------------------------------------------------------------------------
(* What a replica may rely on. *)

\* How many events of a partition its owner has handled.
Done(r, p) ==
  position[p] - (IF pending[r] # Nothing /\ pending[r].partition = p THEN 1 ELSE 0)

\* A session's state after each number of events, those up to some offset ignored.
StateOf(s, events, from) ==
  LET after[n \in 0 .. Len(events)] ==
        IF n <= from THEN NewSession
        ELSE IF events[n].session = s THEN Update(after[n - 1], events[n])
        ELSE after[n - 1]
  IN after

\* Where a session starts afresh for a reader that has begun at some offset:
\* with its first event, or after a pause in which it was swept.
Fresh(s, events, since) ==
  {n \in since .. Len(events) - 1 :
     /\ events[n + 1].session = s
     /\ \A m \in since + 1 .. n :
          events[m].session = s => events[n + 1].ts - events[m].ts > Timeout}

\* A session's state at its partition's owner is that of every event since the
\* owner took the partition over, or since a pause that ended the session: never
\* of a fragment, and never of what another owner or an earlier reading saw.
SessionsAreWhole ==
  \A r \in Replicas : \A s \in DOMAIN sessions[r] :
    LET p == partitions[r][s] IN
    \E from \in Fresh(s, log[p], start[p]) :
      sessions[r][s] = StateOf(s, log[p], from)[Done(r, p)]

\* predictor.py: whoever inherits a partition rebuilds its sessions' state from
\* its own reading of the log.
InheritedIsRebuilt ==
  \A r \in Replicas : \A s \in DOMAIN sessions[r] :
    LET p == partitions[r][s] IN
    \E from \in Fresh(s, log[p], 0) :
      sessions[r][s] = StateOf(s, log[p], from)[Done(r, p)]

\* No two replicas hold parts of one session: only a partition's owner holds
\* sessions, and those are of that partition.
OneHolder ==
  \A r \in Replicas : \A s \in DOMAIN sessions[r] :
    /\ owner[partitions[r][s]] = r
    /\ s \in SessionsIn(log[partitions[r][s]])

\* In the predictions of one reading of a partition, a session's event count
\* never goes back, unless it paused long enough to be swept.
CountsNeverGoBack ==
  [][\A s \in DOMAIN predicted :
       LET before == predicted[s]
           after == predicted'[s]
       IN before # after /\ before.reading = after.reading
            /\ after.says.ts - before.says.ts <= Timeout
          => before.says.events < after.says.events]_vars

\* Memory is bounded by the sessions in flight, as far as the replica can tell:
\* sessions last seen longer ago than the timeout at a sweep are gone after it.
ExpiredAreSwept ==
  [][\A r \in Replicas : consumed'[r] # consumed[r] /\ consumed'[r] = 0 =>
       \A s \in DOMAIN sessions'[r] :
         LET p == partitions'[r][s] IN
         \A i \in 1 .. position'[p] - (IF pending'[r] = Nothing THEN 0 ELSE 1) :
           i > start'[p] => log[p][i].ts - sessions'[r][s].last <= Timeout]_vars
=============================================================================
