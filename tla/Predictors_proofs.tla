--------------------------- MODULE Predictors_proofs ---------------------------
(***************************************************************************)
(* What replicas may rely on, for any topic, any number of replicas and    *)
(* any disturbances.  Ownership decides who holds a session; watermarks    *)
(* never pass what has been read, and sessions never pass watermarks.      *)
(***************************************************************************)
EXTENDS Predictors, Orders_proofs, SequenceTheorems

USE PredictorsAssumption
-----------------------------------------------------------------------------
ShapeInv ==
  /\ log \in Logs /\ up \subseteq Replicas
  /\ owner \in [Partitions -> up \cup {NoReplica}]
  /\ committed \in [Partitions -> Nat] /\ position \in [Partitions -> Nat]
  /\ start \in [Partitions -> Nat] /\ taken \in [Partitions -> Nat]
  /\ \A p \in Partitions :
       /\ start[p] <= committed[p] /\ committed[p] <= position[p]
       /\ position[p] <= Len(log[p])
       /\ taken[p] <= faults + (IF owner[p] = NoReplica THEN 0 ELSE 1)
  /\ consumed \in [Replicas -> 0 .. SweepEvery - 1]
  /\ DOMAIN pending = Replicas /\ DOMAIN sessions = Replicas
  /\ DOMAIN partitions = Replicas /\ DOMAIN watermarks = Replicas
  /\ DOMAIN predicted \subseteq AllSessions
  /\ faults \in 0 .. MaxFaults

\* What was polled and not handled yet is the last event of a partition read.
PendingInv ==
  \A r \in Replicas : pending[r] # Nothing =>
    \E p \in Partitions :
      /\ owner[p] = r /\ start[p] < position[p]
      /\ pending[r] = [partition |-> p, event |-> log[p][position[p]]]

\* A replica keeps sessions and watermarks of its own partitions, and has seen
\* no session later than its partition's watermark.
HoldInv ==
  \A r \in Replicas :
    /\ \A p \in DOMAIN watermarks[r] :
         p \in Partitions /\ owner[p] = r /\ watermarks[r][p] \in Nat
    /\ DOMAIN partitions[r] = DOMAIN sessions[r]
    /\ \A s \in DOMAIN sessions[r] :
         /\ partitions[r][s] \in DOMAIN watermarks[r]
         /\ s \in SessionsIn(log[partitions[r][s]])
         /\ {"last", "events"} \subseteq DOMAIN sessions[r][s]
         /\ sessions[r][s].events \in Nat /\ sessions[r][s].last \in Nat
         /\ sessions[r][s].last <= watermarks[r][partitions[r][s]]

Handled(r, p, i) ==
  \/ i < position[p]
  \/ i = position[p] /\ (pending[r] = Nothing \/ pending[r].partition # p)

\* A watermark is no earlier than any event handled since the takeover.
MarkInv ==
  \A r \in Replicas, p \in Partitions : owner[p] = r =>
    \A i \in DOMAIN log[p] : start[p] < i /\ Handled(r, p, i) =>
      p \in DOMAIN watermarks[r] /\ log[p][i].ts <= watermarks[r][p]

Inv == ShapeInv /\ PendingInv /\ HoldInv /\ MarkInv

\* A replica has handled its pending event: what it holds from then on.
After(r, e, state, s) == IF s = e.session THEN state ELSE sessions[r][s]
Home(r, p, e, s) == IF s = e.session THEN p ELSE partitions[r][s]

Updated(r, e, state) ==
  state = Update(IF e.session \in DOMAIN sessions[r]
                 THEN sessions[r][e.session] ELSE NewSession, e)

Handling(r, p, e, state) ==
  /\ p \in Partitions /\ owner[p] = r /\ start[p] < position[p]
  /\ position[p] \in DOMAIN log[p] /\ e = log[p][position[p]] /\ e \in Events
  /\ pending[r] # Nothing /\ pending[r].partition = p /\ pending'[r] = Nothing
  /\ \A q \in Replicas \ {r} :
       /\ pending'[q] = pending[q] /\ sessions'[q] = sessions[q]
       /\ partitions'[q] = partitions[q] /\ watermarks'[q] = watermarks[q]
       /\ consumed'[q] = consumed[q]
  /\ Updated(r, e, state)
  /\ {"last", "events"} \subseteq DOMAIN state /\ state.last = e.ts
  /\ state.events = 1 + IF e.session \in DOMAIN sessions[r]
                        THEN sessions[r][e.session].events ELSE 0
  /\ DOMAIN watermarks'[r] = DOMAIN watermarks[r] \cup {p}
  /\ \A q \in DOMAIN watermarks[r] \ {p} : watermarks'[r][q] = watermarks[r][q]
  /\ watermarks'[r][p] = Larger(e.ts, IF p \in DOMAIN watermarks[r] THEN watermarks[r][p] ELSE 0)
  /\ DOMAIN partitions'[r] = DOMAIN sessions'[r]
  /\ DOMAIN sessions'[r] \subseteq DOMAIN sessions[r] \cup {e.session}
  /\ \A s \in DOMAIN sessions'[r] :
       sessions'[r][s] = After(r, e, state, s) /\ partitions'[r][s] = Home(r, p, e, s)
  /\ \A s \in DOMAIN sessions[r] \cup {e.session} :
       s \notin DOMAIN sessions'[r] <=>
         /\ consumed'[r] = 0
         /\ watermarks'[r][Home(r, p, e, s)] - After(r, e, state, s).last > Timeout
  /\ predicted' = IF ~Scores(state) THEN predicted
                  ELSE Put(predicted, e.session,
                           [reading |-> taken[p], says |-> Prediction(state)])
  /\ UNCHANGED <<log, groupVars, up, boundVars>>

\* The logs are sequences of events with timestamps.
LEMMA LogsAre ==
  ASSUME NEW l \in Logs, NEW p \in Partitions
  PROVE  /\ l[p] \in Seq(Events) /\ Len(l[p]) \in Nat /\ DOMAIN l[p] = 1 .. Len(l[p])
         /\ \A i \in DOMAIN l[p] : l[p][i] \in Events /\ l[p][i].ts \in Nat
<1>1. l[p] \in Seq(Events)
  OBVIOUS
<1>2. Len(l[p]) \in Nat /\ DOMAIN l[p] = 1 .. Len(l[p])
  BY <1>1, LenProperties
<1>3. \A i \in 1 .. Len(l[p]) : l[p][i] \in Events
  BY <1>1, ElementOfSeq
<1>4. QED BY <1>1, <1>2, <1>3

\* An update counts one event more and notes its time.
LEMMA UpdateOf ==
  ASSUME NEW state, NEW e, {"last", "events"} \subseteq DOMAIN state
  PROVE  /\ {"last", "events"} \subseteq DOMAIN Update(state, e)
         /\ Update(state, e).last = e.ts
         /\ Update(state, e).events = state.events + 1
BY DEF Update

\* A new session has counted nothing.
LEMMA NewIs == {"last", "events"} \subseteq DOMAIN NewSession /\ NewSession.events = 0
BY DEF NewSession

\* A step of Handle in those terms.
LEMMA HandleIs ==
  ASSUME Inv, NEW r \in Replicas, Handle(r)
  PROVE  \E p, e, state : Handling(r, p, e, state)
<1>1. PICK p \in Partitions :
        /\ owner[p] = r /\ start[p] < position[p]
        /\ pending[r] = [partition |-> p, event |-> log[p][position[p]]]
  BY DEF Inv, PendingInv, Handle
<1> DEFINE e == log[p][position[p]]
           old == IF e.session \in DOMAIN sessions[r] THEN sessions[r][e.session] ELSE NewSession
           state == Update(old, e)
           held == Put(sessions[r], e.session, state)
           of == Put(partitions[r], e.session, p)
           mark == Larger(e.ts, IF p \in DOMAIN watermarks[r] THEN watermarks[r][p] ELSE 0)
           marks == Put(watermarks[r], p, mark)
           sweeps == (consumed[r] + 1) % SweepEvery = 0
           kept == DOMAIN held \ (IF sweeps THEN Swept(held, of, marks) ELSE {})
<1>2. pending[r].partition = p /\ pending[r].event = e
  BY <1>1
<1>3. /\ pending[r] # Nothing /\ pending' = [pending EXCEPT ![r] = Nothing]
      /\ sessions' = [sessions EXCEPT ![r] = Only(held, kept)]
      /\ partitions' = [partitions EXCEPT ![r] = Only(of, kept)]
      /\ watermarks' = [watermarks EXCEPT ![r] = marks]
      /\ consumed' = [consumed EXCEPT ![r] = (@ + 1) % SweepEvery]
      /\ predicted' = IF ~Scores(state) THEN predicted
                      ELSE Put(predicted, e.session,
                               [reading |-> taken[p], says |-> Prediction(state)])
      /\ UNCHANGED <<log, groupVars, up, boundVars>>
  BY <1>2 DEF Handle
<1>4. position[p] \in DOMAIN log[p] /\ e \in Events
  <2>1. start[p] \in Nat /\ position[p] \in Nat /\ position[p] <= Len(log[p])
    BY DEF Inv, ShapeInv
  <2>2. position[p] \in 1 .. Len(log[p])
    BY <1>1, <2>1, LogsAre DEF Inv, ShapeInv
  <2>3. QED BY <2>2, LogsAre DEF Inv, ShapeInv
<1> DEFINE count == IF e.session \in DOMAIN sessions[r]
                    THEN sessions[r][e.session].events ELSE 0
<1>5. {"last", "events"} \subseteq DOMAIN old /\ old.events = count /\ count \in Nat
  BY NewIs DEF Inv, HoldInv
<1> HIDE DEF old, count
<1>6. {"last", "events"} \subseteq DOMAIN state /\ state.last = e.ts /\ state.events = 1 + count
  <2>1. state.events = old.events + 1
    BY <1>5, UpdateOf
  <2>2. QED BY <1>5, <2>1, UpdateOf
<1>7. /\ DOMAIN pending = Replicas /\ DOMAIN sessions = Replicas
      /\ DOMAIN partitions = Replicas /\ DOMAIN watermarks = Replicas
      /\ consumed \in [Replicas -> 0 .. SweepEvery - 1]
      /\ DOMAIN partitions[r] = DOMAIN sessions[r]
  BY DEF Inv, ShapeInv, HoldInv
<1> HIDE DEF e
<1>0. Updated(r, e, state)
  BY DEF old, Updated
<1> HIDE DEF state, mark
<1>8. /\ DOMAIN held = DOMAIN sessions[r] \cup {e.session} /\ DOMAIN of = DOMAIN held
      /\ \A s \in DOMAIN held :
           held[s] = After(r, e, state, s) /\ of[s] = Home(r, p, e, s)
  BY <1>7 DEF Put, After, Home
<1>9. DOMAIN marks = DOMAIN watermarks[r] \cup {p} /\ marks[p] = mark
      /\ \A q \in DOMAIN watermarks[r] \ {p} : marks[q] = watermarks[r][q]
  BY DEF Put
<1>10. \A s \in DOMAIN held : s \in Swept(held, of, marks) <=> marks[of[s]] - held[s].last > Timeout
  BY DEF Swept, IsExpired
<1> HIDE DEF held, of, marks
<1>11. sessions'[r] = Only(held, kept) /\ partitions'[r] = Only(of, kept)
       /\ watermarks'[r] = marks /\ pending'[r] = Nothing
       /\ consumed'[r] = (consumed[r] + 1) % SweepEvery
  BY <1>3, <1>7
<1>12. sweeps <=> consumed'[r] = 0
  BY <1>11
<1>13. /\ DOMAIN sessions'[r] = kept /\ DOMAIN partitions'[r] = kept /\ kept \subseteq DOMAIN held
       /\ \A s \in kept : sessions'[r][s] = held[s] /\ partitions'[r][s] = of[s]
  BY <1>8, <1>11 DEF Only
<1>14. \A s \in DOMAIN held : s \notin kept <=> sweeps /\ s \in Swept(held, of, marks)
  OBVIOUS
<1>15. \A q \in Replicas \ {r} :
         /\ pending'[q] = pending[q] /\ sessions'[q] = sessions[q]
         /\ partitions'[q] = partitions[q] /\ watermarks'[q] = watermarks[q]
         /\ consumed'[q] = consumed[q]
  BY <1>3, <1>7
<1> HIDE DEF sweeps, kept
<1>16. \A s \in DOMAIN sessions[r] \cup {e.session} :
         s \notin DOMAIN sessions'[r] <=>
           /\ consumed'[r] = 0
           /\ watermarks'[r][Home(r, p, e, s)] - After(r, e, state, s).last > Timeout
  BY <1>8, <1>10, <1>11, <1>12, <1>13, <1>14
<1>17. Handling(r, p, e, state)
  BY <1>0, <1>1, <1>2, <1>3, <1>4, <1>6, <1>8, <1>9, <1>11, <1>13, <1>15, <1>16 DEF Handling, e, mark, count
<1>18. QED BY <1>17
-----------------------------------------------------------------------------
\* A new group holds nothing.
LEMMA InvInit == Init => Inv
<1> SUFFICES ASSUME Init PROVE Inv
  OBVIOUS
<1>1. ShapeInv
  <2>1. \A p \in Partitions : Len(log[p]) \in Nat
    BY LogsAre DEF Init
  <2>2. DOMAIN Empty = {}
    BY DEF Empty
  <2>3. 0 \in 0 .. SweepEvery - 1
    OBVIOUS
  <2>4. QED BY <2>1, <2>2, <2>3 DEF Init, ShapeInv
<1>2. PendingInv
  BY DEF Init, PendingInv
<1>3. HoldInv
  BY DEF Init, HoldInv, Empty
<1>4. MarkInv
  BY DEF Init, MarkInv
<1>5. QED BY <1>1, <1>2, <1>3, <1>4 DEF Inv

\* A partition is taken over where the group has committed.
LEMMA AssignKeeps ==
  ASSUME Inv, NEW p \in Partitions, NEW r \in Replicas, Assign(p, r)
  PROVE  Inv'
<1> USE DEF Inv
<1>1. /\ owner[p] = NoReplica /\ r \in up /\ r # NoReplica
      /\ owner' = [owner EXCEPT ![p] = r]
      /\ position' = [position EXCEPT ![p] = committed[p]]
      /\ start' = [start EXCEPT ![p] = committed[p]]
      /\ taken' = [taken EXCEPT ![p] = @ + 1]
      /\ UNCHANGED <<log, committed, up, pending, sessions, partitions, watermarks, consumed,
                     predicted, faults>>
  BY DEF Assign, replicaVars
<1>2. \A q \in Partitions : owner[q] \in Replicas =>
        q # p /\ owner'[q] = owner[q] /\ position'[q] = position[q] /\ start'[q] = start[q]
  BY <1>1 DEF ShapeInv
<1>3. ShapeInv'
  <2>1. /\ committed' \in [Partitions -> Nat] /\ position' \in [Partitions -> Nat]
        /\ start' \in [Partitions -> Nat] /\ taken' \in [Partitions -> Nat]
        /\ owner' \in [Partitions -> up \cup {NoReplica}]
    BY <1>1 DEF ShapeInv
  <2>2. \A q \in Partitions : committed[q] <= Len(log[q])
    BY LogsAre DEF ShapeInv
  <2>3. \A q \in Partitions : start'[q] <= committed'[q] /\ committed'[q] <= position'[q]
                              /\ position'[q] <= Len(log[q])
    BY <1>1, <2>2 DEF ShapeInv
  <2>4. \A q \in Partitions : taken'[q] <= faults' + (IF owner'[q] = NoReplica THEN 0 ELSE 1)
    BY <1>1 DEF ShapeInv
  <2>5. QED BY <1>1, <2>1, <2>3, <2>4 DEF ShapeInv, AllSessions
<1>4. PendingInv'
  <2> SUFFICES ASSUME NEW s \in Replicas, pending'[s] # Nothing
               PROVE  \E q \in Partitions :
                        /\ owner'[q] = s /\ start'[q] < position'[q]
                        /\ pending'[s] = [partition |-> q, event |-> log'[q][position'[q]]]
    BY DEF PendingInv
  <2>1. PICK q \in Partitions :
          /\ owner[q] = s /\ start[q] < position[q]
          /\ pending[s] = [partition |-> q, event |-> log[q][position[q]]]
    BY <1>1 DEF PendingInv
  <2>2. QED BY <1>1, <1>2, <2>1
<1>5. HoldInv'
  BY <1>1, <1>2 DEF HoldInv
<1>6. MarkInv'
  <2> SUFFICES ASSUME NEW s \in Replicas, NEW q \in Partitions, owner'[q] = s,
                      NEW i \in DOMAIN log[q], start'[q] < i, Handled(s, q, i)'
               PROVE  q \in DOMAIN watermarks[s] /\ log[q][i].ts <= watermarks[s][q]
    BY <1>1 DEF MarkInv
  <2>1. CASE q = p
    <3>1. start'[p] = position'[p] /\ position'[p] \in Nat
      BY <1>1 DEF ShapeInv
    <3>2. i \in Nat
      <4>1. log \in Logs
        BY DEF ShapeInv
      <4>2. DOMAIN log[q] = 1 .. Len(log[q]) /\ Len(log[q]) \in Nat
        BY <4>1, LogsAre
      <4>3. QED BY <4>2
    <3>3. QED BY <2>1, <3>1, <3>2 DEF Handled
  <2>2. CASE q # p
    BY <1>1, <2>2 DEF MarkInv, Handled, ShapeInv
  <2>3. QED BY <2>1, <2>2
<1>7. QED BY <1>3, <1>4, <1>5, <1>6

\* A message is read, and pending.
LEMMA PollKeeps ==
  ASSUME Inv, NEW p \in Partitions, Poll(p)
  PROVE  Inv'
<1> USE DEF Inv
<1> DEFINE r == owner[p]
<1>1. /\ r \in Replicas /\ pending[r] = Nothing /\ position[p] < Len(log[p])
      /\ pending' = [pending EXCEPT ![r] =
                       [partition |-> p, event |-> log[p][position[p] + 1]]]
      /\ position' = [position EXCEPT ![p] = @ + 1]
      /\ UNCHANGED <<log, committed, owner, up, sessions, partitions, watermarks,
                     consumed, predicted, start, taken, faults>>
  BY DEF Poll, boundVars, ShapeInv
<1>2. /\ position[p] \in Nat /\ position'[p] = position[p] + 1 /\ start[p] <= position[p]
      /\ start[p] \in Nat /\ Len(log[p]) \in Nat /\ position'[p] \in DOMAIN log[p]
  BY <1>1, LogsAre DEF ShapeInv
<1>3. ShapeInv'
  <2>1. \A q \in Partitions : start'[q] <= committed'[q] /\ committed'[q] <= position'[q]
                              /\ position'[q] <= Len(log'[q])
    BY <1>1, <1>2 DEF ShapeInv
  <2>2. QED BY <1>1, <2>1 DEF ShapeInv, AllSessions
<1>4. pending'[r] = [partition |-> p, event |-> log[p][position'[p]]]
      /\ pending'[r] # Nothing /\ pending'[r].partition = p
  <2>1. log[p][position'[p]] \in Events
    BY <1>2, LogsAre DEF ShapeInv
  <2>2. QED BY <1>1, <1>2, <2>1 DEF ShapeInv
<1>5. PendingInv'
  <2> SUFFICES ASSUME NEW s \in Replicas, pending'[s] # Nothing
               PROVE  \E q \in Partitions :
                        /\ owner'[q] = s /\ start'[q] < position'[q]
                        /\ pending'[s] = [partition |-> q, event |-> log'[q][position'[q]]]
    BY DEF PendingInv
  <2>1. CASE s = r
    <3>1. start'[p] < position'[p]
      BY <1>1, <1>2
    <3>2. owner'[p] = s /\ log' = log
      BY <1>1, <2>1
    <3>3. pending'[s] = [partition |-> p, event |-> log'[p][position'[p]]]
      BY <1>4, <2>1, <3>2
    <3> HIDE DEF r
    <3>4. QED BY <3>1, <3>2, <3>3
  <2>2. CASE s # r
    <3>1. pending'[s] = pending[s]
      BY <1>1, <2>2 DEF ShapeInv
    <3>2. PICK q \in Partitions :
            /\ owner[q] = s /\ start[q] < position[q]
            /\ pending[s] = [partition |-> q, event |-> log[q][position[q]]]
      BY <3>1 DEF PendingInv
    <3>3. position'[q] = position[q]
      BY <1>1, <2>2, <3>2 DEF ShapeInv
    <3>4. QED BY <1>1, <3>1, <3>2, <3>3
  <2>3. QED BY <2>1, <2>2
<1>6. HoldInv'
  BY <1>1 DEF HoldInv
<1>7. MarkInv'
  <2> SUFFICES ASSUME NEW s \in Replicas, NEW q \in Partitions, owner[q] = s,
                      NEW i \in DOMAIN log[q], start[q] < i, Handled(s, q, i)'
               PROVE  q \in DOMAIN watermarks[s] /\ log[q][i].ts <= watermarks[s][q]
    BY <1>1 DEF MarkInv
  <2>1. i \in Nat
    BY LogsAre DEF ShapeInv
  <2>2. Handled(s, q, i)
    <3>1. CASE q = p
      BY <1>1, <1>2, <1>4, <2>1, <3>1 DEF Handled
    <3>2. CASE q # p /\ s = r
      BY <1>1, <3>2 DEF Handled, ShapeInv
    <3>3. CASE q # p /\ s # r
      BY <1>1, <3>3 DEF Handled, ShapeInv
    <3>4. QED BY <3>1, <3>2, <3>3
  <2>3. QED BY <2>2 DEF MarkInv
<1>8. QED BY <1>3, <1>5, <1>6, <1>7

\* What was read is committed.
LEMMA AutoCommitKeeps ==
  ASSUME Inv, NEW p \in Partitions, AutoCommit(p)
  PROVE  Inv'
<1>1. ShapeInv'
  BY DEF Inv, AutoCommit, ShapeInv, AllSessions, replicaVars, boundVars
<1>2. PendingInv' /\ HoldInv' /\ MarkInv'
  BY DEF Inv, AutoCommit, PendingInv, HoldInv, MarkInv, Handled, replicaVars, boundVars
<1>3. QED BY <1>1, <1>2 DEF Inv

\* A process starts with nothing.
LEMMA StartKeeps ==
  ASSUME Inv, NEW r \in Replicas, Start(r)
  PROVE  Inv'
<1>1. ShapeInv'
  BY DEF Inv, Start, ShapeInv, AllSessions, groupVars, replicaVars, boundVars
<1>2. PendingInv' /\ HoldInv' /\ MarkInv'
  BY DEF Inv, Start, PendingInv, HoldInv, MarkInv, Handled, groupVars, replicaVars, boundVars
<1>3. QED BY <1>1, <1>2 DEF Inv

\* A partition goes, and all that was held of it.
LEMMA RevokeKeeps ==
  ASSUME Inv, NEW p \in Partitions, Revoke(p)
  PROVE  Inv'
<1> USE DEF Inv
<1> DEFINE r == owner[p]
           kept == {s \in DOMAIN partitions[r] : partitions[r][s] \notin {p}}
<1>1. /\ r \in Replicas /\ r # NoReplica /\ pending[r] = Nothing
      /\ faults < MaxFaults /\ faults' = faults + 1
      /\ sessions' = [sessions EXCEPT ![r] = Only(@, kept)]
      /\ partitions' = [partitions EXCEPT ![r] = Only(@, kept)]
      /\ watermarks' = [watermarks EXCEPT ![r] = Only(@, DOMAIN @ \ {p})]
      /\ owner' = [owner EXCEPT ![p] = NoReplica]
      /\ committed' = [committed EXCEPT ![p] = position[p]] \/ UNCHANGED committed
      /\ UNCHANGED <<log, position, up, pending, consumed, predicted, start, taken>>
  BY DEF Revoke, Disturbance, DropPartitions, ShapeInv
<1>2. ShapeInv'
  <2>1. ASSUME NEW q \in Partitions
        PROVE  start'[q] <= committed'[q] /\ committed'[q] <= position'[q]
    <3>1. start[q] <= committed[q] /\ committed[q] <= position[q] /\ start[q] <= position[q]
      BY DEF ShapeInv
    <3>2. committed'[q] \in {committed[q], position[q]}
      BY <1>1 DEF ShapeInv
    <3>3. QED BY <1>1, <3>1, <3>2 DEF ShapeInv
  <2>2. \A q \in Partitions :
          taken'[q] <= faults' + (IF owner'[q] = NoReplica THEN 0 ELSE 1)
    BY <1>1 DEF ShapeInv
  <2>3. committed' \in [Partitions -> Nat]
    BY <1>1 DEF ShapeInv
  <2>4. owner' \in [Partitions -> up \cup {NoReplica}]
    BY <1>1 DEF ShapeInv
  <2>5. QED BY <1>1, <2>1, <2>2, <2>3, <2>4 DEF ShapeInv, AllSessions
<1>3. \A q \in Partitions \ {p} : owner'[q] = owner[q]
  BY <1>1 DEF ShapeInv
<1>4. PendingInv'
  <2> SUFFICES ASSUME NEW s \in Replicas, pending'[s] # Nothing
               PROVE  \E q \in Partitions :
                        /\ owner'[q] = s /\ start'[q] < position'[q]
                        /\ pending'[s] = [partition |-> q, event |-> log'[q][position'[q]]]
    BY DEF PendingInv
  <2>1. PICK q \in Partitions :
          /\ owner[q] = s /\ start[q] < position[q]
          /\ pending[s] = [partition |-> q, event |-> log[q][position[q]]]
    BY <1>1 DEF PendingInv
  <2>2. q # p
    BY <1>1, <2>1
  <2>3. QED BY <1>1, <1>3, <2>1, <2>2
<1>5. \A s \in Replicas \ {r} : sessions'[s] = sessions[s] /\ partitions'[s] = partitions[s]
                                /\ watermarks'[s] = watermarks[s]
  BY <1>1 DEF ShapeInv
<1>6. /\ DOMAIN watermarks'[r] = DOMAIN watermarks[r] \ {p}
      /\ \A q \in DOMAIN watermarks'[r] : watermarks'[r][q] = watermarks[r][q]
      /\ DOMAIN sessions'[r] = kept /\ DOMAIN partitions'[r] = kept
      /\ \A s \in kept : sessions'[r][s] = sessions[r][s] /\ partitions'[r][s] = partitions[r][s]
  BY <1>1 DEF ShapeInv, HoldInv, Only
<1>7. HoldInv'
  <2> SUFFICES ASSUME NEW s \in Replicas PROVE
        (/\ \A q \in DOMAIN watermarks[s] :
              q \in Partitions /\ owner[q] = s /\ watermarks[s][q] \in Nat
         /\ DOMAIN partitions[s] = DOMAIN sessions[s]
         /\ \A x \in DOMAIN sessions[s] :
              /\ partitions[s][x] \in DOMAIN watermarks[s]
              /\ x \in SessionsIn(log[partitions[s][x]])
              /\ {"last", "events"} \subseteq DOMAIN sessions[s][x]
              /\ sessions[s][x].events \in Nat /\ sessions[s][x].last \in Nat
              /\ sessions[s][x].last <= watermarks[s][partitions[s][x]])'
    BY DEF HoldInv
  <2>1. CASE s = r
    <3>1. \A q \in DOMAIN watermarks'[r] :
            q \in Partitions /\ owner'[q] = r /\ watermarks'[r][q] \in Nat
      <4>1. \A q \in DOMAIN watermarks[r] :
              q \in Partitions /\ owner[q] = r /\ watermarks[r][q] \in Nat
        BY <1>1 DEF HoldInv
      <4> HIDE DEF r
      <4>2. QED BY <1>3, <1>6, <4>1
    <3>2. \A x \in kept : x \in DOMAIN sessions[r] /\ partitions[r][x] # p
      BY <1>1 DEF HoldInv
    <3>3. \A x \in kept :
            /\ partitions[r][x] \in DOMAIN watermarks'[r]
            /\ watermarks'[r][partitions[r][x]] = watermarks[r][partitions[r][x]]
      BY <1>1, <1>6, <3>2 DEF HoldInv
    <3>4. \A x \in DOMAIN sessions[r] :
            /\ x \in SessionsIn(log[partitions[r][x]])
            /\ {"last", "events"} \subseteq DOMAIN sessions[r][x]
            /\ sessions[r][x].events \in Nat /\ sessions[r][x].last \in Nat
            /\ sessions[r][x].last <= watermarks[r][partitions[r][x]]
      BY <1>1 DEF HoldInv
    <3>5. log' = log
      BY <1>1
    <3> HIDE DEF kept, r
    <3>6. QED BY <1>6, <2>1, <3>1, <3>2, <3>3, <3>4, <3>5
  <2>2. CASE s # r
    <3>1. \A q \in DOMAIN watermarks[s] : q # p
      BY <2>2 DEF HoldInv
    <3>2. QED BY <1>1, <1>3, <1>5, <2>2, <3>1 DEF HoldInv
  <2>3. QED BY <2>1, <2>2
<1>8. MarkInv'
  <2> SUFFICES ASSUME NEW s \in Replicas, NEW q \in Partitions, owner'[q] = s,
                      NEW i \in DOMAIN log[q], start[q] < i, Handled(s, q, i)'
               PROVE  q \in DOMAIN watermarks'[s] /\ log[q][i].ts <= watermarks'[s][q]
    BY <1>1 DEF MarkInv
  <2>1. q # p /\ owner[q] = s
    BY <1>1 DEF ShapeInv
  <2>2. q \in DOMAIN watermarks[s] /\ log[q][i].ts <= watermarks[s][q]
    BY <1>1, <2>1 DEF MarkInv, Handled
  <2>3. QED BY <1>5, <1>6, <2>1, <2>2
<1>9. QED BY <1>2, <1>4, <1>7, <1>8

\* The death of a process, whatever of its offsets has been committed.
LEMMA GoneKeeps ==
  ASSUME Inv, NEW r \in Replicas, Gone(r), Disturbance,
         \/ UNCHANGED committed
         \/ committed' = [p \in Partitions |-> IF owner[p] = r THEN position[p] ELSE committed[p]]
  PROVE  Inv'
<1> USE DEF Inv
<1>1. ShapeInv'
  <2>1. ASSUME NEW q \in Partitions
        PROVE  /\ start'[q] <= committed'[q] /\ committed'[q] <= position'[q]
               /\ position'[q] <= Len(log'[q])
    <3>1. start[q] <= committed[q] /\ committed[q] <= position[q] /\ start[q] <= position[q]
      BY DEF ShapeInv
    <3>2. committed'[q] \in {committed[q], position[q]}
      OBVIOUS
    <3>3. QED BY <3>1, <3>2 DEF ShapeInv, Gone
  <2>2. \A q \in Partitions :
          taken'[q] <= faults' + (IF owner'[q] = NoReplica THEN 0 ELSE 1)
    BY DEF ShapeInv, Gone, Disturbance
  <2>3. committed' \in [Partitions -> Nat]
    BY DEF ShapeInv
  <2>4. owner' \in [Partitions -> up' \cup {NoReplica}] /\ up' \subseteq Replicas
    BY DEF ShapeInv, Gone
  <2>5. consumed' \in [Replicas -> 0 .. SweepEvery - 1] /\ faults' \in 0 .. MaxFaults
    BY DEF ShapeInv, Gone, Disturbance
  <2>6. QED BY <2>1, <2>2, <2>3, <2>4, <2>5 DEF ShapeInv, AllSessions, Gone
<1>2. \A p \in Partitions : owner'[p] \in Replicas => owner'[p] = owner[p] /\ owner[p] # r
  BY DEF Gone
<1>3. \A s \in Replicas, p \in Partitions : s # r /\ owner[p] = s => owner'[p] = s
  BY DEF Gone
<1>4. /\ pending'[r] = Nothing /\ sessions'[r] = Empty /\ partitions'[r] = Empty
      /\ watermarks'[r] = Empty /\ DOMAIN Empty = {}
      /\ \A s \in Replicas \ {r} :
           /\ pending'[s] = pending[s] /\ sessions'[s] = sessions[s]
           /\ partitions'[s] = partitions[s] /\ watermarks'[s] = watermarks[s]
      /\ UNCHANGED <<log, position, start>>
  BY DEF ShapeInv, Gone, Empty
<1>5. PendingInv'
  BY <1>3, <1>4 DEF PendingInv
<1>6. HoldInv'
  BY <1>3, <1>4 DEF HoldInv
<1>7. MarkInv'
  BY <1>2, <1>4 DEF MarkInv, Handled
<1>8. QED BY <1>1, <1>5, <1>6, <1>7

\* The pending message is handled.
LEMMA HandleKeeps ==
  ASSUME Inv, NEW r \in Replicas, Handle(r)
  PROVE  Inv'
<1>1. PICK p, e, state : Handling(r, p, e, state)
  BY HandleIs
<1>2. /\ p \in Partitions /\ owner[p] = r /\ start[p] < position[p]
      /\ position[p] \in DOMAIN log[p] /\ e = log[p][position[p]] /\ e.ts \in Nat
      /\ UNCHANGED <<log, committed, owner, position, up, start, taken, faults>>
  BY <1>1, LogsAre DEF Handling, groupVars, boundVars, Inv, ShapeInv
<1>3. \A q \in Replicas \ {r} :
        /\ pending'[q] = pending[q] /\ sessions'[q] = sessions[q]
        /\ partitions'[q] = partitions[q] /\ watermarks'[q] = watermarks[q]
        /\ consumed'[q] = consumed[q]
  BY <1>1 DEF Handling
<1>4. /\ DOMAIN watermarks'[r] = DOMAIN watermarks[r] \cup {p}
      /\ watermarks'[r][p] \in Nat /\ e.ts <= watermarks'[r][p]
      /\ \A q \in DOMAIN watermarks[r] :
           /\ watermarks[r][q] \in Nat /\ watermarks'[r][q] \in Nat
           /\ watermarks[r][q] <= watermarks'[r][q]
  <2>1. \A q \in DOMAIN watermarks[r] : watermarks[r][q] \in Nat
    BY DEF Inv, HoldInv
  <2>2. watermarks'[r][p] = Larger(e.ts, IF p \in DOMAIN watermarks[r] THEN watermarks[r][p] ELSE 0)
    BY <1>1 DEF Handling
  <2>3. watermarks'[r][p] \in Nat /\ e.ts <= watermarks'[r][p]
        /\ (p \in DOMAIN watermarks[r] => watermarks[r][p] <= watermarks'[r][p])
    BY <1>2, <2>1, <2>2 DEF Larger
  <2>4. \A q \in DOMAIN watermarks[r] \ {p} : watermarks'[r][q] = watermarks[r][q]
    BY <1>1 DEF Handling
  <2>5. DOMAIN watermarks'[r] = DOMAIN watermarks[r] \cup {p}
    BY <1>1 DEF Handling
  <2>6. ASSUME NEW q \in DOMAIN watermarks[r]
        PROVE  /\ watermarks[r][q] \in Nat /\ watermarks'[r][q] \in Nat
               /\ watermarks[r][q] <= watermarks'[r][q]
    BY <2>1, <2>3, <2>4
  <2>7. QED BY <2>3, <2>5, <2>6
<1>5. ShapeInv'
  <2>1. Handle(r)
    OBVIOUS
  <2>2. /\ DOMAIN pending' = Replicas /\ DOMAIN sessions' = Replicas
        /\ DOMAIN partitions' = Replicas /\ DOMAIN watermarks' = Replicas
        /\ consumed' \in [Replicas -> 0 .. SweepEvery - 1]
    <3>1. consumed' = [consumed EXCEPT ![r] = (@ + 1) % SweepEvery]
      BY DEF Handle
    <3>2. (consumed[r] + 1) % SweepEvery \in 0 .. SweepEvery - 1
      BY DEF Inv, ShapeInv
    <3>3. QED BY <3>1, <3>2 DEF Handle, Inv, ShapeInv
  <2>3. DOMAIN predicted' \subseteq AllSessions
    <3>1. e.session \in AllSessions
      BY <1>2 DEF AllSessions, SessionsIn
    <3>2. DOMAIN predicted' \subseteq DOMAIN predicted \cup {e.session}
      BY <1>1 DEF Handling, Put
    <3>3. QED BY <3>1, <3>2 DEF Inv, ShapeInv
  <2>4. QED BY <1>2, <2>2, <2>3 DEF Inv, ShapeInv, AllSessions
<1>6. PendingInv'
  <2> SUFFICES ASSUME NEW s \in Replicas, pending'[s] # Nothing
               PROVE  \E q \in Partitions :
                        /\ owner'[q] = s /\ start'[q] < position'[q]
                        /\ pending'[s] = [partition |-> q, event |-> log'[q][position'[q]]]
    BY DEF PendingInv
  <2>1. s # r
    BY <1>1 DEF Handling
  <2>2. pending'[s] = pending[s]
    BY <1>3, <2>1
  <2>3. PICK q \in Partitions :
          /\ owner[q] = s /\ start[q] < position[q]
          /\ pending[s] = [partition |-> q, event |-> log[q][position[q]]]
    BY <2>2 DEF Inv, PendingInv
  <2>4. QED BY <1>2, <2>2, <2>3
<1>7. HoldInv'
  <2>1. ASSUME NEW s \in Replicas, NEW q \in DOMAIN watermarks'[s]
        PROVE  q \in Partitions /\ owner'[q] = s /\ watermarks'[s][q] \in Nat
    BY <1>2, <1>3, <1>4 DEF Inv, HoldInv
  <2>2. ASSUME NEW s \in Replicas PROVE DOMAIN partitions'[s] = DOMAIN sessions'[s]
    BY <1>1, <1>3 DEF Inv, HoldInv, Handling
  <2>3. ASSUME NEW s \in Replicas, NEW x \in DOMAIN sessions'[s]
        PROVE  /\ partitions'[s][x] \in DOMAIN watermarks'[s]
               /\ x \in SessionsIn(log[partitions'[s][x]])
               /\ {"last", "events"} \subseteq DOMAIN sessions'[s][x]
               /\ sessions'[s][x].events \in Nat /\ sessions'[s][x].last \in Nat
               /\ sessions'[s][x].last <= watermarks'[s][partitions'[s][x]]
    <3>1. CASE s # r
      BY <1>3, <3>1 DEF Inv, HoldInv
    <3>2. CASE s = r /\ x = e.session
      <4>1. sessions'[s][x] = state /\ partitions'[s][x] = p
        BY <1>1, <3>2 DEF Handling, After, Home
      <4>2. /\ {"last", "events"} \subseteq DOMAIN state /\ state.last = e.ts
            /\ state.events = 1 + IF e.session \in DOMAIN sessions[r]
                                  THEN sessions[r][e.session].events ELSE 0
        BY <1>1 DEF Handling
      <4>3. state.events \in Nat
        BY <4>2 DEF Inv, HoldInv
      <4>4. x \in SessionsIn(log[p])
        BY <1>2, <3>2 DEF SessionsIn
      <4>5. QED BY <1>2, <1>4, <3>2, <4>1, <4>2, <4>3, <4>4
    <3>3. CASE s = r /\ x # e.session
      <4>1. x \in DOMAIN sessions[r] /\ sessions'[r][x] = sessions[r][x]
            /\ partitions'[r][x] = partitions[r][x]
        BY <1>1, <3>3 DEF Handling, After, Home
      <4> DEFINE q == partitions[r][x]
                 last == sessions[r][x].last
      <4>2. /\ q \in DOMAIN watermarks[r] /\ x \in SessionsIn(log[q])
            /\ {"last", "events"} \subseteq DOMAIN sessions[r][x]
            /\ sessions[r][x].events \in Nat /\ last \in Nat /\ last <= watermarks[r][q]
        BY <4>1 DEF Inv, HoldInv
      <4> HIDE DEF q, last
      <4>3. last <= watermarks'[r][q] /\ q \in DOMAIN watermarks'[r]
        BY <1>4, <4>2
      <4>4. QED BY <3>3, <4>1, <4>2, <4>3 DEF q, last
    <3>4. QED BY <3>1, <3>2, <3>3
  <2>4. QED BY <1>2, <2>1, <2>2, <2>3 DEF HoldInv
<1>8. MarkInv'
  <2> SUFFICES ASSUME NEW s \in Replicas, NEW q \in Partitions, owner[q] = s,
                      NEW i \in DOMAIN log[q], start[q] < i, Handled(s, q, i)'
               PROVE  q \in DOMAIN watermarks'[s] /\ log[q][i].ts <= watermarks'[s][q]
    BY <1>2 DEF MarkInv
  <2>1. CASE Handled(s, q, i)
    <3>1. q \in DOMAIN watermarks[s] /\ log[q][i].ts <= watermarks[s][q]
      BY <2>1 DEF Inv, MarkInv
    <3>2. log[q][i].ts \in Nat
      BY LogsAre DEF Inv, ShapeInv
    <3>3. QED BY <1>3, <1>4, <3>1, <3>2
  <2>2. CASE ~Handled(s, q, i)
    <3>1. i = position[q] /\ pending[s] # Nothing /\ pending[s].partition = q
          /\ (pending'[s] = Nothing \/ pending'[s].partition # q)
      <4>1. position' = position
        BY <1>2
      <4>2. \/ i < position[q]
            \/ i = position[q] /\ (pending'[s] = Nothing \/ pending'[s].partition # q)
        BY <4>1 DEF Handled
      <4>3. QED BY <2>2, <4>2 DEF Handled
    <3>2. s = r /\ q = p /\ i = position[p]
      BY <1>1, <1>3, <3>1 DEF Handling
    <3>3. QED BY <1>2, <1>4, <3>2
  <2>3. QED BY <2>1, <2>2
<1>9. QED BY <1>5, <1>6, <1>7, <1>8 DEF Inv

\* A step of nobody.
LEMMA StutterKeeps ==
  ASSUME Inv, UNCHANGED vars
  PROVE  Inv'
<1>1. ShapeInv'
  BY DEF Inv, ShapeInv, AllSessions, vars, groupVars, replicaVars, boundVars
<1>2. PendingInv' /\ HoldInv' /\ MarkInv'
  BY DEF Inv, PendingInv, HoldInv, MarkInv, Handled, vars, groupVars, replicaVars, boundVars
<1>3. QED BY <1>1, <1>2 DEF Inv

\* Every step keeps the invariant.
LEMMA InvStep == Inv /\ [Next]_vars => Inv'
<1> SUFFICES ASSUME Inv, [Next]_vars PROVE Inv'
  OBVIOUS
<1>1. ASSUME NEW p \in Partitions,
             Poll(p) \/ AutoCommit(p) \/ Revoke(p) \/ \E r \in Replicas : Assign(p, r)
      PROVE  Inv'
  BY <1>1, PollKeeps, AutoCommitKeeps, RevokeKeeps, AssignKeeps
<1>2. ASSUME NEW r \in Replicas, Handle(r) \/ Stop(r) \/ Crash(r) \/ Start(r)
      PROVE  Inv'
  BY <1>2, HandleKeeps, GoneKeeps, StartKeeps DEF Stop, Crash
<1>3. CASE UNCHANGED vars
  BY <1>3, StutterKeeps
<1>4. QED BY <1>1, <1>2, <1>3 DEF Next

\* It holds in every state.
LEMMA InvAlways == Spec => []Inv
BY InvInit, InvStep, PTL DEF Spec
-----------------------------------------------------------------------------
\* Offsets, ownership and sessions keep their shape: no offset passes the end of
\* a log, and a message is only handled by its partition's owner.
THEOREM PredictorsTypeCorrect == Spec => []TypeOK
<1>1. Inv => TypeOK
  <2> SUFFICES ASSUME Inv PROVE TypeOK
    OBVIOUS
  <2>1. \A p \in Partitions :
          /\ committed[p] \in 0 .. position[p] /\ position[p] \in 0 .. Len(log[p])
          /\ start[p] \in 0 .. committed[p]
    <3>1. \A p \in Partitions : Len(log[p]) \in Nat
      BY LogsAre DEF Inv, ShapeInv
    <3>2. QED BY <3>1 DEF Inv, ShapeInv
  <2>2. \A r \in Replicas :
          /\ DOMAIN partitions[r] = DOMAIN sessions[r]
          /\ \A s \in DOMAIN sessions[r] : partitions[r][s] \in DOMAIN watermarks[r]
          /\ consumed[r] \in 0 .. SweepEvery - 1
    BY DEF Inv, ShapeInv, HoldInv
  <2>3. ASSUME NEW r \in Replicas, pending[r] # Nothing
        PROVE  owner[pending[r].partition] = r
    <3>1. PICK p \in Partitions :
            owner[p] = r /\ pending[r] = [partition |-> p, event |-> log[p][position[p]]]
      BY <2>3 DEF Inv, PendingInv
    <3>2. QED BY <3>1
  <2>4. taken \in [Partitions -> 0 .. 1 + MaxFaults]
    <3>1. ASSUME NEW p \in Partitions PROVE taken[p] \in 0 .. 1 + MaxFaults
      <4>1. taken[p] \in Nat /\ faults \in 0 .. MaxFaults
            /\ taken[p] <= faults + (IF owner[p] = NoReplica THEN 0 ELSE 1)
        BY DEF Inv, ShapeInv
      <4>2. QED BY <4>1
    <3>2. QED BY <3>1 DEF Inv, ShapeInv
  <2>5. QED BY <2>1, <2>2, <2>3, <2>4 DEF TypeOK, Inv, ShapeInv
<1>2. QED BY <1>1, InvAlways, PTL

\* A session is in the memory of its partition's owner or of no replica: whoever
\* lost the partition has forgotten it, so no two score halves of one session.
THEOREM OneHolderAlways == Spec => []OneHolder
<1>1. Inv => OneHolder
  BY DEF Inv, HoldInv, OneHolder
<1>2. QED BY <1>1, InvAlways, PTL

\* After a sweep no session is left that, by any event its owner has handled
\* since the takeover, has been quiet for longer than the timeout.
THEOREM SweepsAreComplete == Spec => ExpiredAreSwept
<1> DEFINE Sweeping ==
      \A r \in Replicas : consumed'[r] # consumed[r] /\ consumed'[r] = 0 =>
        \A s \in DOMAIN sessions'[r] :
          LET p == partitions'[r][s] IN
          \A i \in 1 .. position'[p] - (IF pending'[r] = Nothing THEN 0 ELSE 1) :
            i > start'[p] => log[p][i].ts - sessions'[r][s].last <= Timeout
<1>1. ASSUME Inv, Inv', [Next]_vars PROVE Sweeping
  <2> SUFFICES ASSUME NEW r \in Replicas, consumed'[r] # consumed[r], consumed'[r] = 0,
                      NEW s \in DOMAIN sessions'[r],
                      NEW i \in 1 .. position'[partitions'[r][s]]
                                     - (IF pending'[r] = Nothing THEN 0 ELSE 1),
                      i > start'[partitions'[r][s]]
               PROVE  log[partitions'[r][s]][i].ts - sessions'[r][s].last <= Timeout
    OBVIOUS
  <2>1. CASE Handle(r)
    <3>1. PICK p, e, state : Handling(r, p, e, state)
      BY <1>1, <2>1, HandleIs
    <3>2. PICK q \in Partitions : q = partitions'[r][s] /\ q \in DOMAIN watermarks'[r]
      BY <1>1 DEF Inv, HoldInv
    <3> DEFINE last == sessions'[r][s].last
               mark == watermarks'[r][q]
    <3>3. pending'[r] = Nothing /\ log' = log
      BY <3>1 DEF Handling
    <3>4. /\ q \in DOMAIN watermarks'[r] /\ q \in Partitions /\ owner'[q] = r
          /\ last \in Nat /\ mark \in Nat
      BY <1>1, <3>2 DEF Inv, HoldInv
    <3>5. position'[q] \in Nat /\ position'[q] <= Len(log[q]) /\ Len(log[q]) \in Nat
          /\ log \in Logs /\ DOMAIN log[q] = 1 .. Len(log[q])
      BY <1>1, <3>3, <3>4, LogsAre DEF Inv, ShapeInv
    <3>6. i \in DOMAIN log[q] /\ start'[q] < i /\ (i < position'[q] \/ i = position'[q])
      <4>1. i \in 1 .. position'[q] - 0
        BY <3>3, <3>2
      <4>2. start'[q] \in Nat /\ i > start'[q]
        BY <1>1, <3>2 DEF Inv, ShapeInv
      <4>3. QED BY <3>5, <4>1, <4>2
    <3>7. log[q][i].ts <= mark /\ log[q][i].ts \in Nat
      <4>1. Handled(r, q, i)'
        BY <3>3, <3>6 DEF Handled
      <4>2. log'[q][i].ts <= mark
        BY <1>1, <3>3, <3>4, <3>6, <4>1 DEF Inv, MarkInv
      <4>3. QED BY <3>3, <3>4, <3>5, <3>6, <4>2, LogsAre
    <3>8. mark - last <= Timeout
      <4>1. s \in DOMAIN sessions[r] \cup {e.session}
            /\ sessions'[r][s] = After(r, e, state, s) /\ partitions'[r][s] = Home(r, p, e, s)
        BY <3>1 DEF Handling
      <4>2. ~(watermarks'[r][Home(r, p, e, s)] - After(r, e, state, s).last > Timeout)
        BY <3>1, <4>1 DEF Handling
      <4>3. ~(mark - last > Timeout)
        BY <3>2, <4>1, <4>2
      <4> HIDE DEF mark, last
      <4>4. QED BY <3>4, <4>3
    <3> HIDE DEF mark, last
    <3>9. log[q][i].ts - last <= Timeout
      BY <3>4, <3>7, <3>8
    <3>10. QED BY <3>9, <3>2 DEF last
  <2>2. CASE Gone(r)
    BY <1>1, <2>2 DEF Gone, Empty, Inv, ShapeInv
  <2>3. CASE ~Handle(r) /\ ~Gone(r)
    <3>1. consumed \in [Replicas -> 0 .. SweepEvery - 1]
      BY <1>1 DEF Inv, ShapeInv
    <3>2. CASE \E x \in Replicas \ {r} : Handle(x)
      BY <3>1, <3>2 DEF Handle
    <3>3. CASE \E x \in Replicas \ {r} : Gone(x)
      BY <3>1, <3>3 DEF Gone
    <3>4. CASE UNCHANGED consumed
      BY <3>4
    <3>5. \/ \E x \in Replicas \ {r} : Handle(x) \/ Gone(x)
          \/ UNCHANGED consumed
      BY <1>1, <2>3 DEF Next, Assign, Poll, AutoCommit, Revoke, Stop, Crash, Start,
                        vars, replicaVars
    <3>6. QED BY <3>2, <3>3, <3>4, <3>5
  <2>4. QED BY <2>1, <2>2, <2>3
<1>2. QED BY <1>1, InvAlways, PTL DEF Spec, ExpiredAreSwept
-----------------------------------------------------------------------------
\* A watermark is no later than any event still to be handled.
OrderInv ==
  \A r \in Replicas, p \in Partitions : owner[p] = r /\ p \in DOMAIN watermarks[r] =>
    \A i \in DOMAIN log[p] : ~Handled(r, p, i) => watermarks[r][p] <= log[p][i].ts

\* A session goes on from a prediction, or it has been quiet for too long.
Follows(r, p, s) ==
  \/ /\ s \in DOMAIN sessions[r]
     /\ predicted[s].says.events <= sessions[r][s].events
     /\ predicted[s].says.ts <= sessions[r][s].last
  \/ p \in DOMAIN watermarks[r] /\ watermarks[r][p] - predicted[s].says.ts > Timeout

\* What was predicted in this reading of a partition.
PredictedInv ==
  \A s \in DOMAIN predicted, p \in Partitions : s \in SessionsIn(log[p]) =>
    /\ predicted[s].reading \in Nat /\ predicted[s].reading <= taken[p]
    /\ predicted[s].says.ts \in Nat /\ predicted[s].says.events \in Nat
    /\ predicted[s].reading = taken[p] => \A r \in Replicas : owner[p] = r => Follows(r, p, s)

\* The events of a session are all in one partition.
LEMMA OneHome ==
  ASSUME NEW l \in Logs, NEW p \in Partitions, NEW q \in Partitions, NEW s,
         s \in SessionsIn(l[p]), s \in SessionsIn(l[q])
  PROVE  p = q
<1>1. PICK i \in DOMAIN l[p] : l[p][i].session = s
  BY DEF SessionsIn
<1>2. PICK j \in DOMAIN l[q] : l[q][j].session = s
  BY DEF SessionsIn
<1>3. QED BY <1>1, <1>2, TopicAssumption

\* Nothing is predicted yet.
LEMMA PredictedInit == Init => OrderInv /\ PredictedInv
BY DEF Init, OrderInv, PredictedInv, Empty

\* Steps that leave sessions, watermarks and predictions alone.
LEMMA PredictedBeside ==
  ASSUME Inv, OrderInv, PredictedInv,
         \/ \E p \in Partitions :
              Poll(p) \/ AutoCommit(p) \/ \E r \in Replicas : Assign(p, r)
         \/ \E r \in Replicas : Start(r)
         \/ UNCHANGED vars
  PROVE  OrderInv' /\ PredictedInv'
<1>1. UNCHANGED <<log, sessions, watermarks, predicted>>
  BY DEF Poll, AutoCommit, Assign, Start, vars, replicaVars
<1>2. ASSUME NEW p \in Partitions,
             ~\E q \in Partitions, r \in Replicas : Assign(q, r) /\ q = p
      PROVE  owner'[p] = owner[p] /\ taken'[p] = taken[p]
  BY <1>2 DEF Poll, AutoCommit, Assign, Start, vars, groupVars, boundVars, Inv, ShapeInv
<1>3. ASSUME NEW p \in Partitions, NEW r \in Replicas, Assign(p, r)
      PROVE  taken'[p] = taken[p] + 1 /\ owner[p] = NoReplica
  BY <1>3 DEF Assign, Inv, ShapeInv
<1>4. OrderInv'
  <2> SUFFICES ASSUME NEW r \in Replicas, NEW p \in Partitions, owner'[p] = r,
                      p \in DOMAIN watermarks[r],
                      NEW i \in DOMAIN log[p], ~Handled(r, p, i)'
               PROVE  watermarks[r][p] <= log[p][i].ts
    BY <1>1 DEF OrderInv
  <2>1. owner[p] = r
    BY DEF Inv, HoldInv
  <2>2. i \in Nat /\ position[p] \in Nat
    BY LogsAre DEF Inv, ShapeInv
  <2>3. ~Handled(r, p, i)
    <3>1. CASE \E q \in Partitions : Poll(q)
      <4>1. PICK q \in Partitions : Poll(q)
        BY <3>1
      <4>2. CASE q = p
        BY <2>1, <2>2, <4>1, <4>2 DEF Poll, Handled, Inv, ShapeInv
      <4>3. CASE q # p
        <5>1. position'[p] = position[p]
          BY <4>1, <4>3 DEF Poll, Inv, ShapeInv
        <5>2. pending'[r] = pending[r] \/ pending'[r].partition # p
          <6>1. pending' = [pending EXCEPT ![owner[q]] =
                              [partition |-> q, event |-> log[q][position[q] + 1]]]
            BY <4>1 DEF Poll
          <6>2. pending'[r] = pending[r]
                \/ pending'[r] = [partition |-> q, event |-> log[q][position[q] + 1]]
            BY <6>1 DEF Inv, ShapeInv
          <6>3. QED BY <4>3, <6>2
        <5>3. QED BY <5>1, <5>2 DEF Handled
      <4>4. QED BY <4>2, <4>3
    <3>2. CASE \E q \in Partitions, x \in Replicas : Assign(q, x)
      <4>1. position'[p] = position[p] /\ pending' = pending
        BY <2>1, <3>2 DEF Assign, replicaVars, Inv, ShapeInv
      <4>2. QED BY <4>1 DEF Handled
    <3>3. CASE UNCHANGED <<position, pending>>
      BY <3>3 DEF Handled
    <3>4. QED BY <3>1, <3>2, <3>3 DEF AutoCommit, Start, vars, groupVars, replicaVars
  <2>4. QED BY <2>1, <2>3 DEF OrderInv
<1>5. PredictedInv'
  <2> SUFFICES ASSUME NEW s \in DOMAIN predicted, NEW p \in Partitions,
                      s \in SessionsIn(log[p])
               PROVE  /\ predicted[s].reading \in Nat /\ predicted[s].reading <= taken'[p]
                      /\ predicted[s].says.ts \in Nat /\ predicted[s].says.events \in Nat
                      /\ predicted[s].reading = taken'[p] =>
                           \A r \in Replicas : owner'[p] = r => Follows(r, p, s)'
    BY <1>1 DEF PredictedInv
  <2>1. /\ predicted[s].reading \in Nat /\ predicted[s].reading <= taken[p]
        /\ predicted[s].says.ts \in Nat /\ predicted[s].says.events \in Nat
        /\ predicted[s].reading = taken[p] =>
             \A r \in Replicas : owner[p] = r => Follows(r, p, s)
    BY DEF PredictedInv
  <2>2. taken[p] \in Nat
    BY DEF Inv, ShapeInv
  <2>3. \A r : Follows(r, p, s)' <=> Follows(r, p, s)
    BY <1>1 DEF Follows
  <2>4. CASE \E r \in Replicas : Assign(p, r)
    BY <1>3, <2>1, <2>2, <2>4
  <2>5. CASE ~\E q \in Partitions, r \in Replicas : Assign(q, r) /\ q = p
    BY <1>2, <2>1, <2>3, <2>5
  <2>6. QED BY <2>4, <2>5
<1>6. QED BY <1>4, <1>5

Forgets == (\E p \in Partitions : Revoke(p)) \/ \E r \in Replicas : Gone(r)

StillOwned(r, p) ==
  /\ owner[p] = r
  /\ p \in DOMAIN watermarks'[r] <=> p \in DOMAIN watermarks[r]
  /\ p \in DOMAIN watermarks[r] => watermarks'[r][p] = watermarks[r][p]
  /\ \A s \in DOMAIN sessions[r] : partitions[r][s] = p =>
       s \in DOMAIN sessions'[r] /\ sessions'[r][s] = sessions[r][s]
  /\ DOMAIN sessions'[r] \subseteq DOMAIN sessions[r]
  /\ pending'[r] = pending[r]

\* A partition that keeps its owner keeps what the owner holds of it when some
\* partition is revoked or a process dies.
LEMMA OwnedStays ==
  ASSUME Inv, NEW p \in Partitions, NEW r \in Replicas, owner'[p] = r,
         Forgets
  PROVE  StillOwned(r, p)
<1>1. CASE \E q \in Partitions : Revoke(q)
  <2>1. PICK q \in Partitions : Revoke(q)
    BY <1>1
  <2>2. q # p /\ owner[p] = r
    BY <2>1 DEF Revoke, Inv, ShapeInv
  <2>3. pending' = pending
    BY <2>1 DEF Revoke
  <2>4. CASE owner[q] = r
    <3> DEFINE kept == {s \in DOMAIN partitions[r] : partitions[r][s] \notin {q}}
    <3>1. /\ sessions' = [sessions EXCEPT ![r] = Only(@, kept)]
          /\ watermarks' = [watermarks EXCEPT ![r] = Only(@, DOMAIN @ \ {q})]
      BY <2>1, <2>4 DEF Revoke, DropPartitions
    <3>2. DOMAIN partitions[r] = DOMAIN sessions[r]
      BY DEF Inv, HoldInv
    <3>3. sessions'[r] = Only(sessions[r], kept)
          /\ watermarks'[r] = Only(watermarks[r], DOMAIN watermarks[r] \ {q})
      BY <3>1 DEF Inv, ShapeInv
    <3>4. \A s \in DOMAIN sessions[r] : partitions[r][s] = p => s \in kept
      BY <2>2, <3>2
    <3> HIDE DEF kept
    <3>5. \A s \in DOMAIN sessions[r] : partitions[r][s] = p =>
                s \in DOMAIN sessions'[r] /\ sessions'[r][s] = sessions[r][s]
      BY <3>3, <3>4 DEF Only
    <3>6. QED BY <2>2, <2>3, <3>3, <3>5 DEF Only, StillOwned
  <2>5. CASE owner[q] # r
    <3>1. sessions'[r] = sessions[r] /\ watermarks'[r] = watermarks[r]
      BY <2>1, <2>5 DEF Revoke, DropPartitions, Inv, ShapeInv
    <3>2. QED BY <2>2, <2>3, <3>1 DEF StillOwned
  <2>6. QED BY <2>4, <2>5
<1>2. CASE \E x \in Replicas : Gone(x)
  <2>1. PICK x \in Replicas : Gone(x)
    BY <1>2
  <2>2. x # r /\ owner[p] = r
    BY <2>1 DEF Gone
  <2>3. sessions'[r] = sessions[r] /\ watermarks'[r] = watermarks[r] /\ pending'[r] = pending[r]
    BY <2>1, <2>2 DEF Gone, Inv, ShapeInv
  <2>4. QED BY <2>2, <2>3 DEF StillOwned
<1>3. QED BY <1>1, <1>2 DEF Forgets

\* Steps in which a partition loses its owner and the owner forgets it.
LEMMA PredictedForgets ==
  ASSUME Inv, OrderInv, PredictedInv, Forgets
  PROVE  OrderInv' /\ PredictedInv'
<1>1. UNCHANGED <<log, position, predicted, taken>>
  BY DEF Forgets, Revoke, Gone
<1>2. ASSUME NEW p \in Partitions, NEW r \in Replicas, owner'[p] = r
      PROVE  StillOwned(r, p)
  BY <1>2, OwnedStays
<1>3. OrderInv'
  <2> SUFFICES ASSUME NEW r \in Replicas, NEW p \in Partitions, owner'[p] = r,
                      p \in DOMAIN watermarks'[r],
                      NEW i \in DOMAIN log[p], ~Handled(r, p, i)'
               PROVE  watermarks'[r][p] <= log[p][i].ts
    BY <1>1 DEF OrderInv
  <2>1. ~Handled(r, p, i)
    BY <1>1, <1>2 DEF Handled, StillOwned
  <2>2. QED BY <1>2, <2>1 DEF OrderInv, StillOwned
<1>4. PredictedInv'
  <2> SUFFICES ASSUME NEW s \in DOMAIN predicted, NEW p \in Partitions,
                      s \in SessionsIn(log[p])
               PROVE  /\ predicted[s].reading \in Nat /\ predicted[s].reading <= taken[p]
                      /\ predicted[s].says.ts \in Nat /\ predicted[s].says.events \in Nat
                      /\ predicted[s].reading = taken[p] =>
                           \A r \in Replicas : owner'[p] = r => Follows(r, p, s)'
    BY <1>1 DEF PredictedInv
  <2>1. ASSUME NEW r \in Replicas, owner'[p] = r, Follows(r, p, s)
        PROVE  Follows(r, p, s)'
    <3>1. ASSUME s \in DOMAIN sessions[r] PROVE partitions[r][s] = p
      <4>1. partitions[r][s] \in Partitions /\ s \in SessionsIn(log[partitions[r][s]])
        BY <3>1 DEF Inv, HoldInv
      <4>2. QED BY <4>1, OneHome DEF Inv, ShapeInv
    <3>2. CASE /\ s \in DOMAIN sessions[r]
               /\ predicted[s].says.events <= sessions[r][s].events
               /\ predicted[s].says.ts <= sessions[r][s].last
      <4>1. partitions[r][s] = p
        BY <3>1, <3>2
      <4>2. \A y \in DOMAIN sessions[r] : partitions[r][y] = p =>
              y \in DOMAIN sessions'[r] /\ sessions'[r][y] = sessions[r][y]
        BY <1>2, <2>1 DEF StillOwned
      <4>3. QED BY <1>1, <3>2, <4>1, <4>2 DEF Follows
    <3>3. CASE p \in DOMAIN watermarks[r] /\ watermarks[r][p] - predicted[s].says.ts > Timeout
      <4>1. p \in DOMAIN watermarks'[r] /\ watermarks'[r][p] = watermarks[r][p]
        BY <1>2, <2>1, <3>3 DEF StillOwned
      <4>2. QED BY <1>1, <3>3, <4>1 DEF Follows
    <3>4. QED BY <2>1, <3>2, <3>3 DEF Follows
  <2>2. QED BY <1>2, <2>1 DEF PredictedInv, StillOwned
<1>5. QED BY <1>3, <1>4

\* Handling an event extends what was predicted of its session, unless the
\* session had been quiet for too long.
LEMMA HandleExtends ==
  ASSUME Inv, OrderInv, PredictedInv, NEW r \in Replicas, NEW p, NEW e, NEW state,
         Handling(r, p, e, state)
  PROVE  /\ p \in Partitions /\ owner[p] = r /\ e.session \in SessionsIn(log[p])
         /\ e.ts \in Nat /\ state.events \in Nat /\ watermarks'[r][p] \in Nat
         /\ e.ts <= watermarks'[r][p]
         /\ p \in DOMAIN watermarks[r] => watermarks[r][p] <= e.ts /\ watermarks[r][p] \in Nat
         /\ \A i \in DOMAIN log[p] : position[p] <= i => watermarks'[r][p] <= log[p][i].ts
         /\ e.session \in DOMAIN predicted /\ predicted[e.session].reading = taken[p] =>
              \/ predicted[e.session].says.events < state.events
              \/ e.ts - predicted[e.session].says.ts > Timeout
<1> DEFINE x == e.session
<1>1. /\ p \in Partitions /\ owner[p] = r /\ position[p] \in DOMAIN log[p]
      /\ e = log[p][position[p]] /\ pending[r] # Nothing /\ pending[r].partition = p
      /\ state.events = 1 + IF x \in DOMAIN sessions[r] THEN sessions[r][x].events ELSE 0
      /\ watermarks'[r][p] = Larger(e.ts, IF p \in DOMAIN watermarks[r] THEN watermarks[r][p] ELSE 0)
  BY DEF Handling
<1>2. log \in Logs /\ e.ts \in Nat /\ \A i \in DOMAIN log[p] : i \in Nat /\ log[p][i].ts \in Nat
  BY <1>1, LogsAre DEF Inv, ShapeInv
<1>3. x \in SessionsIn(log[p])
  BY <1>1 DEF SessionsIn
<1>4. ~Handled(r, p, position[p])
  BY <1>1, <1>2 DEF Handled
<1>5. p \in DOMAIN watermarks[r] => watermarks[r][p] <= e.ts /\ watermarks[r][p] \in Nat
  BY <1>1, <1>4 DEF OrderInv, Inv, HoldInv
<1>6. watermarks'[r][p] = e.ts
  BY <1>1, <1>2, <1>5 DEF Larger
<1>7. \A i \in DOMAIN log[p] : position[p] <= i => e.ts <= log[p][i].ts
  BY <1>1, <1>2, TopicAssumption
<1>8. \A y \in DOMAIN sessions[r] : sessions[r][y].events \in Nat
  BY DEF Inv, HoldInv
<1>9. state.events \in Nat
  BY <1>1, <1>8
<1>10. ASSUME x \in DOMAIN predicted, predicted[x].reading = taken[p]
       PROVE  \/ predicted[x].says.events < state.events
              \/ e.ts - predicted[x].says.ts > Timeout
  <2>1. Follows(r, p, x) /\ predicted[x].says.events \in Nat /\ predicted[x].says.ts \in Nat
    BY <1>1, <1>3, <1>10 DEF PredictedInv
  <2>2. CASE x \in DOMAIN sessions[r] /\ predicted[x].says.events <= sessions[r][x].events
    BY <1>1, <1>8, <2>1, <2>2
  <2>3. CASE p \in DOMAIN watermarks[r] /\ watermarks[r][p] - predicted[x].says.ts > Timeout
    BY <1>2, <1>5, <2>1, <2>3
  <2>4. QED BY <2>1, <2>2, <2>3 DEF Follows
<1>11. QED BY <1>1, <1>2, <1>3, <1>5, <1>6, <1>7, <1>9, <1>10

\* Handling an event: the watermark stays behind what is left to read, and the
\* session's new state goes on from what was predicted of it.
LEMMA PredictedHandle ==
  ASSUME Inv, OrderInv, PredictedInv, NEW r \in Replicas, Handle(r)
  PROVE  OrderInv' /\ PredictedInv'
<1>1. PICK p, e, state : Handling(r, p, e, state)
  BY HandleIs
<1>2. /\ p \in Partitions /\ owner[p] = r /\ e.session \in SessionsIn(log[p])
      /\ e.ts \in Nat /\ state.events \in Nat /\ watermarks'[r][p] \in Nat
      /\ p \in DOMAIN watermarks[r] => watermarks[r][p] <= e.ts /\ watermarks[r][p] \in Nat
      /\ e.ts <= watermarks'[r][p]
      /\ \A i \in DOMAIN log[p] : position[p] <= i => watermarks'[r][p] <= log[p][i].ts
  BY <1>1, HandleExtends
<1>3. UNCHANGED <<log, owner, position, taken>> /\ state.last = e.ts
  BY <1>1 DEF Handling, groupVars, boundVars
<1>4. /\ \A q \in Replicas \ {r} :
           /\ pending'[q] = pending[q] /\ sessions'[q] = sessions[q]
           /\ watermarks'[q] = watermarks[q]
      /\ \A q \in DOMAIN watermarks[r] \ {p} : watermarks'[r][q] = watermarks[r][q]
      /\ DOMAIN watermarks'[r] = DOMAIN watermarks[r] \cup {p}
      /\ pending[r].partition = p /\ pending'[r] = Nothing
  BY <1>1 DEF Handling
<1>5. OrderInv'
  <2> SUFFICES ASSUME NEW s \in Replicas, NEW q \in Partitions, owner[q] = s,
                      q \in DOMAIN watermarks'[s],
                      NEW i \in DOMAIN log[q], ~Handled(s, q, i)'
               PROVE  watermarks'[s][q] <= log[q][i].ts
    BY <1>3 DEF OrderInv
  <2>1. i \in Nat /\ position[q] \in Nat
    BY LogsAre DEF Inv, ShapeInv
  <2>2. CASE q = p
    <3>1. position[p] <= i
      BY <1>3, <2>1, <2>2 DEF Handled
    <3>2. QED BY <1>2, <2>2, <3>1
  <2>3. CASE q # p
    <3>1. ~Handled(s, q, i)
      BY <1>3, <1>4, <2>3 DEF Handled
    <3>2. q \in DOMAIN watermarks[s] /\ watermarks'[s][q] = watermarks[s][q]
      BY <1>4, <2>3
    <3>3. QED BY <3>1, <3>2 DEF OrderInv
  <2>4. QED BY <2>2, <2>3
\* A session known after the event is followed, in memory or by the watermark.
<1>6. ASSUME NEW s \in DOMAIN sessions[r] \cup {e.session}, NEW q \in Partitions,
             s \in SessionsIn(log[q]), NEW ts \in Nat, NEW events \in Nat,
             events <= After(r, e, state, s).events, ts <= After(r, e, state, s).last
      PROVE  \/ /\ s \in DOMAIN sessions'[r]
                /\ events <= sessions'[r][s].events /\ ts <= sessions'[r][s].last
             \/ q \in DOMAIN watermarks'[r] /\ watermarks'[r][q] - ts > Timeout
  <2>1. CASE s \in DOMAIN sessions'[r]
    BY <1>1, <1>6, <2>1 DEF Handling
  <2>2. CASE s \notin DOMAIN sessions'[r]
    <3> DEFINE last == After(r, e, state, s).last
               mark == watermarks'[r][q]
    <3>1. watermarks'[r][Home(r, p, e, s)] - last > Timeout
      BY <1>1, <2>2 DEF Handling
    <3>2. /\ Home(r, p, e, s) = q /\ q \in DOMAIN watermarks'[r] /\ last \in Nat
          /\ mark \in Nat
      <4>1. Inv'
        BY HandleKeeps
      <4>2. CASE s = e.session
        BY <1>2, <1>3, <1>4, <1>6, <4>2, OneHome DEF Home, After, Inv, ShapeInv
      <4>3. CASE s # e.session
        <5>1. /\ s \in DOMAIN sessions[r] /\ Home(r, p, e, s) = partitions[r][s]
              /\ After(r, e, state, s) = sessions[r][s]
          BY <4>3 DEF Home, After
        <5>2. /\ partitions[r][s] \in DOMAIN watermarks[r] /\ partitions[r][s] \in Partitions
              /\ s \in SessionsIn(log[partitions[r][s]]) /\ sessions[r][s].last \in Nat
          BY <5>1 DEF Inv, HoldInv
        <5>3. partitions[r][s] = q
          BY <1>6, <5>2, OneHome DEF Inv, ShapeInv
        <5>4. mark \in Nat
          BY <1>4, <4>1, <5>2, <5>3 DEF Inv, HoldInv
        <5>5. QED BY <1>4, <5>1, <5>2, <5>3, <5>4
      <4>4. QED BY <4>2, <4>3
    <3>3. mark - last > Timeout /\ ts <= last
      BY <1>6, <3>1, <3>2
    <3> HIDE DEF mark, last
    <3>4. mark - ts > Timeout
      BY <3>2, <3>3
    <3>5. QED BY <3>2, <3>4 DEF mark
  <2>3. QED BY <2>1, <2>2
<1>7. PredictedInv'
  <2> SUFFICES ASSUME NEW s \in DOMAIN predicted', NEW q \in Partitions,
                      s \in SessionsIn(log[q])
               PROVE  /\ predicted'[s].reading \in Nat /\ predicted'[s].reading <= taken[q]
                      /\ predicted'[s].says.ts \in Nat /\ predicted'[s].says.events \in Nat
                      /\ predicted'[s].reading = taken[q] =>
                           \A x \in Replicas : owner[q] = x => Follows(x, q, s)'
    BY <1>3 DEF PredictedInv
  <2>1. CASE s \in DOMAIN predicted /\ predicted'[s] = predicted[s]
    <3>1. /\ predicted[s].reading \in Nat /\ predicted[s].reading <= taken[q]
          /\ predicted[s].says.ts \in Nat /\ predicted[s].says.events \in Nat
          /\ predicted[s].reading = taken[q] =>
               \A x \in Replicas : owner[q] = x => Follows(x, q, s)
      BY <2>1 DEF PredictedInv
    <3>2. ASSUME NEW x \in Replicas, owner[q] = x, Follows(x, q, s)
          PROVE  Follows(x, q, s)'
      <4>1. CASE x # r
        BY <1>4, <2>1, <3>2, <4>1 DEF Follows
      <4>2. CASE x = r /\ q \in DOMAIN watermarks[r]
                 /\ watermarks[r][q] - predicted[s].says.ts > Timeout
        <5>1. q \in DOMAIN watermarks'[r] /\ watermarks[r][q] <= watermarks'[r][q]
              /\ watermarks[r][q] \in Nat /\ watermarks'[r][q] \in Nat
          <6>1. q \in DOMAIN watermarks'[r] /\ watermarks[r][q] \in Nat
            BY <1>4, <4>2 DEF Inv, HoldInv
          <6>2. CASE q = p
            BY <1>2, <4>2, <6>1, <6>2
          <6>3. CASE q # p
            BY <1>4, <4>2, <6>1, <6>3
          <6>4. QED BY <6>1, <6>2, <6>3
        <5>2. watermarks'[r][q] - predicted[s].says.ts > Timeout
          BY <3>1, <4>2, <5>1
        <5>3. QED BY <2>1, <4>2, <5>1, <5>2 DEF Follows
      <4>3. CASE /\ x = r /\ s \in DOMAIN sessions[r]
                 /\ predicted[s].says.events <= sessions[r][s].events
                 /\ predicted[s].says.ts <= sessions[r][s].last
        <5>1. predicted[s].says.events <= After(r, e, state, s).events
              /\ predicted[s].says.ts <= After(r, e, state, s).last
          <6>1. CASE s # e.session
            BY <4>3, <6>1 DEF After
          <6>2. CASE s = e.session
            <7>1. state.events = sessions[r][s].events + 1
              <8>1. state.events = 1 + sessions[r][s].events
                BY <1>1, <4>3, <6>2 DEF Handling
              <8>2. sessions[r][s].events \in Nat
                BY <4>3 DEF Inv, HoldInv
              <8>3. QED BY <8>1, <8>2
            <7>2. /\ sessions[r][s].events \in Nat /\ sessions[r][s].last \in Nat
                  /\ partitions[r][s] \in DOMAIN watermarks[r]
                  /\ partitions[r][s] \in Partitions
                  /\ s \in SessionsIn(log[partitions[r][s]])
                  /\ sessions[r][s].last <= watermarks[r][partitions[r][s]]
              BY <4>3 DEF Inv, HoldInv
            <7>3. partitions[r][s] = p
              BY <1>2, <6>2, <7>2, OneHome DEF Inv, ShapeInv
            <7>4. sessions[r][s].last <= e.ts
              BY <1>2, <7>2, <7>3
            <7>5. QED BY <1>2, <1>3, <3>1, <4>3, <6>2, <7>1, <7>2, <7>4 DEF After
          <6>3. QED BY <6>1, <6>2
        <5>2. QED BY <1>6, <2>1, <3>1, <4>3, <5>1 DEF Follows
      <4>4. QED BY <3>2, <4>1, <4>2, <4>3 DEF Follows
    <3>3. QED BY <2>1, <3>1, <3>2
  <2>2. CASE ~(s \in DOMAIN predicted /\ predicted'[s] = predicted[s])
    <3>1. /\ s = e.session
          /\ predicted'[s] = [reading |-> taken[p], says |-> Prediction(state)]
      BY <1>1, <2>2 DEF Handling, Put
    <3>2. p = q
      BY <1>2, <3>1, OneHome DEF Inv, ShapeInv
    <3>3. predicted'[s].reading = taken[p] /\ predicted'[s].says.ts = e.ts
          /\ predicted'[s].says.events = state.events
      BY <1>3, <3>1 DEF Prediction
    <3>4. taken[p] \in Nat
      BY <1>2 DEF Inv, ShapeInv
    <3>5. After(r, e, state, s).events = state.events /\ After(r, e, state, s).last = e.ts
      BY <1>3, <3>1 DEF After
    <3>6. Follows(r, q, s)'
      BY <1>2, <1>6, <3>1, <3>2, <3>3, <3>5 DEF Follows
    <3>7. QED BY <1>2, <3>2, <3>3, <3>4, <3>6
  <2>3. QED BY <2>1, <2>2
<1>8. QED BY <1>5, <1>7

\* Within one reading of a partition, the predictions of a session count up,
\* unless the session paused for longer than the timeout.
THEOREM CountsOnlyRise == Spec => CountsNeverGoBack
<1> DEFINE Whole == Inv /\ OrderInv /\ PredictedInv
           Rising ==
             \A s \in DOMAIN predicted :
               LET before == predicted[s]
                   after == predicted'[s]
               IN before # after /\ before.reading = after.reading
                    /\ after.says.ts - before.says.ts <= Timeout
                  => before.says.events < after.says.events
<1>1. Init => Whole
  BY InvInit, PredictedInit
<1>2. Whole /\ [Next]_vars => Whole'
  <2> SUFFICES ASSUME Whole, [Next]_vars PROVE OrderInv' /\ PredictedInv'
    BY InvStep
  <2>1. CASE \E p \in Partitions :
               Poll(p) \/ AutoCommit(p) \/ \E r \in Replicas : Assign(p, r)
    BY <2>1, PredictedBeside
  <2>2. CASE (\E r \in Replicas : Start(r)) \/ UNCHANGED vars
    BY <2>2, PredictedBeside
  <2>3. CASE (\E p \in Partitions : Revoke(p)) \/ \E r \in Replicas : Stop(r) \/ Crash(r)
    BY <2>3, PredictedForgets DEF Forgets, Stop, Crash
  <2>4. CASE \E r \in Replicas : Handle(r)
    BY <2>4, PredictedHandle
  <2>5. QED BY <2>1, <2>2, <2>3, <2>4 DEF Next
<1>3. Whole /\ [Next]_vars => Rising
  <2> SUFFICES ASSUME Whole, [Next]_vars, NEW s \in DOMAIN predicted,
                      predicted[s] # predicted'[s],
                      predicted[s].reading = predicted'[s].reading,
                      predicted'[s].says.ts - predicted[s].says.ts <= Timeout
               PROVE  predicted[s].says.events < predicted'[s].says.events
    OBVIOUS
  <2>1. PICK r \in Replicas : Handle(r)
    BY DEF Next, Poll, AutoCommit, Assign, Revoke, Start, Stop, Crash, Gone, vars
  <2>2. PICK p, e, state : Handling(r, p, e, state)
    BY <2>1, HandleIs
  <2>3. /\ s = e.session /\ state.last = e.ts
        /\ predicted'[s] = [reading |-> taken[p], says |-> Prediction(state)]
    BY <2>2 DEF Handling, Put
  <2>4. predicted[s].reading = taken[p] /\ predicted'[s].says.ts = e.ts
        /\ predicted'[s].says.events = state.events
    BY <2>3 DEF Prediction
  <2>5. \/ predicted[s].says.events < state.events
        \/ e.ts - predicted[s].says.ts > Timeout
    BY <2>2, <2>3, <2>4, HandleExtends
  <2>6. predicted[s].says.ts \in Nat /\ e.ts \in Nat
    BY <2>2, <2>3, HandleExtends DEF PredictedInv
  <2>7. ~(e.ts - predicted[s].says.ts > Timeout)
    BY <2>4, <2>6
  <2>8. QED BY <2>4, <2>5, <2>7
<1>4. QED BY <1>1, <1>2, <1>3, PTL DEF Spec, CountsNeverGoBack
-----------------------------------------------------------------------------
\* One number of events further in StateOf.
StepOf(f, s, events, from, n) ==
  IF n <= from THEN NewSession
  ELSE IF events[n].session = s THEN Update(f[n - 1], events[n]) ELSE f[n - 1]

Solves(f, s, events, from, size) == f = [n \in 0 .. size |-> StepOf(f, s, events, from, n)]

\* The recursion that StateOf stands for has a solution of every length.
LEMMA StatesExist ==
  ASSUME NEW s, NEW events, NEW from \in Nat, NEW size \in Nat
  PROVE  \E f : Solves(f, s, events, from, size)
<1> DEFINE Solved(k) == \E f : Solves(f, s, events, from, k)
           Open == {k \in Nat : ~Solved(k)}
<1>1. Solved(0)
  <2> DEFINE f == [n \in 0 .. 0 |-> NewSession]
  <2>1. f = [n \in 0 .. 0 |-> StepOf(f, s, events, from, n)]
    BY DEF StepOf
  <2>2. QED BY <2>1 DEF Solves
<1>2. ASSUME NEW k \in Nat, Solved(k) PROVE Solved(k + 1)
  <2>1. PICK g : g = [n \in 0 .. k |-> StepOf(g, s, events, from, n)]
    BY <1>2 DEF Solves
  <2> DEFINE f == [n \in 0 .. k + 1 |-> IF n <= k THEN g[n]
                                        ELSE StepOf(g, s, events, from, k + 1)]
  <2>2. ASSUME NEW n \in 0 .. k + 1
        PROVE  f[n] = StepOf(f, s, events, from, n)
    <3>1. ASSUME n > from PROVE n - 1 \in 0 .. k /\ f[n - 1] = g[n - 1]
      BY <3>1
    <3>2. StepOf(f, s, events, from, n) = StepOf(g, s, events, from, n)
      BY <3>1 DEF StepOf
    <3>3. CASE n <= k
      <4>1. n \in 0 .. k
        BY <3>3
      <4>2. g[n] = StepOf(g, s, events, from, n)
        BY <2>1, <4>1
      <4>3. QED BY <3>2, <3>3, <4>2
    <3>4. CASE n = k + 1
      BY <3>2, <3>4
    <3>5. QED BY <3>3, <3>4
  <2>3. f = [n \in 0 .. k + 1 |-> f[n]]
    OBVIOUS
  <2> HIDE DEF f
  <2>4. f = [n \in 0 .. k + 1 |-> StepOf(f, s, events, from, n)]
    BY <2>2, <2>3, Zenon
  <2>5. QED BY <2>4 DEF Solves
<1> HIDE DEF Solved
<1>3. Open = {}
  <2> SUFFICES ASSUME Open # {} PROVE FALSE
    OBVIOUS
  <2>1. PICK k \in Open : \A n \in Open : k <= n
    <3>1. Open \in SUBSET Nat
      OBVIOUS
    <3> HIDE DEF Open
    <3>2. QED BY <3>1, LeastNatural
  <2>2. k \in Nat /\ k # 0
    BY <1>1
  <2>3. k - 1 \in Nat /\ ~(k <= k - 1) /\ (k - 1) + 1 = k
    BY <2>2
  <2>4. Solved(k - 1)
    BY <2>1, <2>3
  <2>5. Solved(k)
    BY <1>2, <2>3, <2>4
  <2>6. QED BY <2>5
<1>4. QED BY <1>3 DEF Solved

\* StateOf is the fold it looks like.
LEMMA StateOfIs ==
  ASSUME NEW s, NEW events, NEW from \in Nat, Len(events) \in Nat, NEW n \in 0 .. Len(events)
  PROVE  /\ n <= from => StateOf(s, events, from)[n] = NewSession
         /\ n > from => StateOf(s, events, from)[n] =
              IF events[n].session = s
              THEN Update(StateOf(s, events, from)[n - 1], events[n])
              ELSE StateOf(s, events, from)[n - 1]
<1> DEFINE N == Len(events)
           F == StateOf(s, events, from)
<1>1. \E f : f = [k \in 0 .. N |->
             IF k <= from THEN NewSession
             ELSE IF events[k].session = s THEN Update(f[k - 1], events[k]) ELSE f[k - 1]]
  <2>1. PICK f : Solves(f, s, events, from, N)
    BY StatesExist
  <2>2. f = [k \in 0 .. N |->
             IF k <= from THEN NewSession
             ELSE IF events[k].session = s THEN Update(f[k - 1], events[k]) ELSE f[k - 1]]
    BY <2>1, Zenon DEF StepOf, Solves
  <2>3. QED BY <2>2
<1>2. F = [k \in 0 .. N |->
             IF k <= from THEN NewSession
             ELSE IF events[k].session = s THEN Update(F[k - 1], events[k]) ELSE F[k - 1]]
  BY <1>1 DEF StateOf
<1> HIDE DEF F
<1>3. F[n] = IF n <= from THEN NewSession
             ELSE IF events[n].session = s THEN Update(F[n - 1], events[n]) ELSE F[n - 1]
  BY <1>2
<1>4. QED BY <1>3 DEF F
-----------------------------------------------------------------------------
\* A state is whole when it is that of a session's events up to some offset,
\* since a fresh start after an earlier offset, and has seen the last of them.
WholeAt(s, events, since, n, state) ==
  /\ \E from \in Fresh(s, events, since) :
       from < n /\ state = StateOf(s, events, from)[n]
  /\ \A m \in since + 1 .. n : events[m].session = s => events[m].ts <= state.last

\* A session is over when every event of it is further back than the timeout.
OverAt(s, events, since, n, marks, p) ==
  \A m \in since + 1 .. n : events[m].session = s =>
    p \in DOMAIN marks /\ marks[p] - events[m].ts > Timeout

Ordered(events) ==
  /\ Len(events) \in Nat
  /\ \A m \in 1 .. Len(events) : events[m].ts \in Nat
  /\ \A m, n \in 1 .. Len(events) : m <= n => events[m].ts <= events[n].ts

\* The producer's logs are in order.
LEMMA OrderedLogs ==
  ASSUME NEW l \in Logs, NEW p \in Partitions
  PROVE  Ordered(l[p])
BY LogsAre, TopicAssumption DEF Ordered

\* Reading one event more keeps a state whole.
LEMMA WholeGrows ==
  ASSUME NEW s, NEW events, Ordered(events), NEW since \in Nat, NEW n \in Nat,
         n + 1 <= Len(events), NEW state, WholeAt(s, events, since, n, state)
  PROVE  WholeAt(s, events, since, n + 1,
                 IF events[n + 1].session = s THEN Update(state, events[n + 1]) ELSE state)
<1> DEFINE next == IF events[n + 1].session = s THEN Update(state, events[n + 1]) ELSE state
<1>1. PICK from \in Fresh(s, events, since) :
        from < n /\ state = StateOf(s, events, from)[n]
  BY DEF WholeAt
<1>2. from \in Nat /\ Len(events) \in Nat /\ n + 1 \in 0 .. Len(events)
      /\ from < n + 1 /\ (n + 1) - 1 = n
  BY <1>1 DEF Fresh, Ordered
<1>3. next = StateOf(s, events, from)[n + 1]
  <2>1. n + 1 > from
    BY <1>2
  <2> DEFINE k == n + 1
  <2>2. StateOf(s, events, from)[k] =
              IF events[k].session = s
              THEN Update(StateOf(s, events, from)[k - 1], events[k])
              ELSE StateOf(s, events, from)[k - 1]
    <3>1. k \in 0 .. Len(events) /\ k > from
      BY <1>2, <2>1
    <3> HIDE DEF k
    <3>2. QED BY <1>2, <3>1, StateOfIs
  <2>3. QED BY <1>1, <1>2, <2>2
<1>4. ASSUME NEW m \in since + 1 .. n + 1, events[m].session = s
      PROVE  events[m].ts <= next.last
  <2>1. CASE events[n + 1].session = s
    <3>1. next.last = events[n + 1].ts
      BY <2>1 DEF Update
    <3>2. events[m].ts <= events[n + 1].ts
      BY <1>2 DEF Ordered
    <3>3. QED BY <3>1, <3>2
  <2>2. CASE events[n + 1].session # s
    <3>1. m \in since + 1 .. n
      BY <1>4, <2>2
    <3>2. QED BY <1>4, <2>2, <3>1 DEF WholeAt
  <2>3. QED BY <2>1, <2>2
<1> HIDE DEF next
<1>5. WholeAt(s, events, since, n + 1, next)
  BY <1>1, <1>2, <1>3, <1>4 DEF WholeAt
<1>6. QED BY <1>5 DEF next

\* The event that brings a session back, or is its first, makes it whole.
LEMMA WholeBegins ==
  ASSUME NEW s, NEW events, Ordered(events), NEW since \in Nat, NEW n \in Nat,
         since <= n, n + 1 <= Len(events), events[n + 1].session = s,
         NEW marks, NEW p, OverAt(s, events, since, n, marks, p),
         p \in DOMAIN marks => marks[p] \in Nat /\ marks[p] <= events[n + 1].ts
  PROVE  WholeAt(s, events, since, n + 1, Update(NewSession, events[n + 1]))
<1>1. n \in Fresh(s, events, since)
  <2>1. ASSUME NEW m \in since + 1 .. n, events[m].session = s
        PROVE  events[n + 1].ts - events[m].ts > Timeout
    <3>1. p \in DOMAIN marks /\ marks[p] - events[m].ts > Timeout
      BY <2>1 DEF OverAt
    <3>2. events[m].ts \in Nat /\ events[n + 1].ts \in Nat
      BY DEF Ordered
    <3>3. marks[p] \in Nat /\ marks[p] <= events[n + 1].ts
      BY <3>1
    <3> DEFINE mark == marks[p]
               now == events[n + 1].ts
               ts == events[m].ts
    <3>4. mark \in Nat /\ now \in Nat /\ ts \in Nat /\ mark <= now /\ mark - ts > Timeout
      BY <3>1, <3>2, <3>3
    <3> HIDE DEF mark, now, ts
    <3>5. now - ts > Timeout
      BY <3>4
    <3>6. QED BY <3>5 DEF now, ts
  <2>2. n \in since .. Len(events) - 1
    BY DEF Ordered
  <2>3. QED BY <2>1, <2>2 DEF Fresh
<1>2. StateOf(s, events, n)[n] = NewSession
      /\ StateOf(s, events, n)[n + 1] = Update(NewSession, events[n + 1])
  <2>1. StateOf(s, events, n)[n] = NewSession
    <3>1. n \in 0 .. Len(events) /\ n <= n /\ Len(events) \in Nat
      BY DEF Ordered
    <3>2. QED BY <3>1, StateOfIs
  <2> DEFINE k == n + 1
  <2>2. StateOf(s, events, n)[k] = Update(StateOf(s, events, n)[k - 1], events[k])
    <3>1. k \in 0 .. Len(events) /\ k > n /\ Len(events) \in Nat /\ events[k].session = s
      BY DEF Ordered
    <3> HIDE DEF k
    <3>2. QED BY <3>1, StateOfIs
  <2>3. k - 1 = n
    OBVIOUS
  <2>4. QED BY <2>1, <2>2, <2>3
<1>3. Update(NewSession, events[n + 1]).last = events[n + 1].ts
  BY DEF Update
<1>4. \A m \in since + 1 .. n + 1 : events[m].ts <= events[n + 1].ts
  BY DEF Ordered
<1>5. n < n + 1
  OBVIOUS
<1>6. QED BY <1>1, <1>2, <1>3, <1>4, <1>5 DEF WholeAt

\* A whole session that a watermark has left behind is over.
LEMMA WholeEnds ==
  ASSUME NEW s, NEW events, Ordered(events), NEW since \in Nat, NEW n \in Nat,
         n <= Len(events), NEW state, WholeAt(s, events, since, n, state),
         NEW marks, NEW p \in DOMAIN marks, marks[p] \in Nat, state.last \in Nat,
         marks[p] - state.last > Timeout
  PROVE  OverAt(s, events, since, n, marks, p)
<1> SUFFICES ASSUME NEW m \in since + 1 .. n, events[m].session = s
             PROVE  marks[p] - events[m].ts > Timeout
  BY DEF OverAt
<1> DEFINE mark == marks[p]
           last == state.last
           ts == events[m].ts
<1>1. mark \in Nat /\ last \in Nat /\ ts \in Nat /\ ts <= last /\ mark - last > Timeout
  BY DEF WholeAt, Ordered
<1> HIDE DEF mark, last, ts
<1>2. mark - ts > Timeout
  BY <1>1
<1>3. QED BY <1>2 DEF mark, ts

\* A session that is over stays so, whatever is read of others.
LEMMA OverGrows ==
  ASSUME NEW s, NEW events, Ordered(events), NEW since \in Nat, NEW n \in Nat,
         NEW k \in {n, n + 1}, k <= Len(events), k # n => events[k].session # s,
         NEW marks, NEW p, OverAt(s, events, since, n, marks, p), NEW later,
         p \in DOMAIN marks => /\ p \in DOMAIN later /\ marks[p] \in Nat /\ later[p] \in Nat
                               /\ marks[p] <= later[p]
  PROVE  OverAt(s, events, since, k, later, p)
<1> SUFFICES ASSUME NEW m \in since + 1 .. k, events[m].session = s
             PROVE  p \in DOMAIN later /\ later[p] - events[m].ts > Timeout
  BY DEF OverAt
<1>1. m \in since + 1 .. n
  OBVIOUS
<1>2. p \in DOMAIN marks /\ marks[p] - events[m].ts > Timeout
  BY <1>1 DEF OverAt
<1> DEFINE mark == marks[p]
           now == later[p]
           ts == events[m].ts
<1>3. mark \in Nat /\ now \in Nat /\ ts \in Nat /\ mark <= now /\ mark - ts > Timeout
  BY <1>2 DEF Ordered
<1> HIDE DEF mark, now, ts
<1>4. now - ts > Timeout
  BY <1>3
<1>5. QED BY <1>2, <1>4 DEF now, ts

\* A partition's sessions, as its owner has read it so far, are whole or over.
SessionWhole(r, p, s) ==
  IF s \in DOMAIN sessions[r]
  THEN WholeAt(s, log[p], start[p], Done(r, p), sessions[r][s])
  ELSE OverAt(s, log[p], start[p], Done(r, p), watermarks[r], p)

WholeInv ==
  \A r \in Replicas, p \in Partitions : owner[p] = r =>
    \A s \in SessionsIn(log[p]) : SessionWhole(r, p, s)

\* A session held by a partition's owner is held as one of that partition.
LEMMA HeldAtHome ==
  ASSUME Inv, NEW r \in Replicas, NEW p \in Partitions, NEW s \in DOMAIN sessions[r],
         s \in SessionsIn(log[p])
  PROVE  partitions[r][s] = p /\ owner[p] = r /\ p \in DOMAIN watermarks[r]
         /\ watermarks[r][p] \in Nat /\ sessions[r][s].last \in Nat
         /\ sessions[r][s].last <= watermarks[r][p]
<1>1. /\ partitions[r][s] \in DOMAIN watermarks[r] /\ partitions[r][s] \in Partitions
      /\ s \in SessionsIn(log[partitions[r][s]])
  BY DEF Inv, HoldInv
<1>2. partitions[r][s] = p
  BY <1>1, OneHome DEF Inv, ShapeInv
<1>3. QED BY <1>1, <1>2 DEF Inv, HoldInv

\* An owner has handled all that it has read, but for what is pending.
LEMMA DoneIs ==
  ASSUME Inv, NEW r \in Replicas, NEW p \in Partitions, owner[p] = r
  PROVE  Done(r, p) \in Nat /\ Done(r, p) <= position[p] /\ position[p] <= Len(log[p])
         /\ start[p] \in Nat /\ start[p] <= Done(r, p)
<1>1. position[p] \in Nat /\ start[p] \in Nat /\ start[p] <= position[p]
      /\ position[p] <= Len(log[p])
  BY DEF Inv, ShapeInv
<1>2. ASSUME pending[r] # Nothing, pending[r].partition = p
      PROVE  start[p] < position[p]
  <2>1. PICK q \in Partitions :
          /\ start[q] < position[q]
          /\ pending[r] = [partition |-> q, event |-> log[q][position[q]]]
    BY <1>2 DEF Inv, PendingInv
  <2>2. QED BY <1>2, <2>1
<1>3. QED BY <1>1, <1>2 DEF Done

\* Nobody owns anything yet.
LEMMA WholeInit == Init => WholeInv
BY DEF Init, WholeInv

\* Steps that leave sessions and watermarks alone.
LEMMA WholeBeside ==
  ASSUME Inv, WholeInv,
         \/ \E p \in Partitions :
              Poll(p) \/ AutoCommit(p) \/ \E r \in Replicas : Assign(p, r)
         \/ \E r \in Replicas : Start(r)
         \/ UNCHANGED vars
  PROVE  WholeInv'
<1> SUFFICES ASSUME NEW r \in Replicas, NEW p \in Partitions, owner'[p] = r,
                    NEW s \in SessionsIn(log'[p])
             PROVE  SessionWhole(r, p, s)'
  BY DEF WholeInv
<1>1. UNCHANGED <<log, sessions, watermarks>>
  BY DEF Poll, AutoCommit, Assign, Start, vars, replicaVars
<1>2. CASE Assign(p, r)
  <2>1. start'[p] = position'[p] /\ position'[p] \in Nat /\ owner[p] = NoReplica
    BY <1>2 DEF Assign, Inv, ShapeInv
  <2>2. s \notin DOMAIN sessions[r]
    BY <1>1, <2>1, HeldAtHome
  <2>3. start'[p] + 1 .. Done(r, p)' = {}
    <3>1. Done(r, p)' = position'[p] \/ Done(r, p)' = position'[p] - 1
      BY <2>1 DEF Done
    <3>2. QED BY <2>1, <3>1
  <2>4. QED BY <1>1, <2>2, <2>3 DEF SessionWhole, OverAt
<1>3. CASE ~Assign(p, r)
  <2>1. owner[p] = r /\ start'[p] = start[p]
    BY <1>3 DEF Poll, AutoCommit, Assign, Start, vars, groupVars, boundVars, Inv, ShapeInv
  <2>2. Done(r, p)' = Done(r, p)
    <3>1. CASE Poll(p)
      <4>1. /\ position' = [position EXCEPT ![p] = @ + 1] /\ pending[r] = Nothing
            /\ pending' = [pending EXCEPT ![r] =
                             [partition |-> p, event |-> log[p][position[p] + 1]]]
            /\ position[p] < Len(log[p])
        BY <2>1, <3>1 DEF Poll
      <4>2. position[p] \in Nat /\ position'[p] = position[p] + 1
        BY <4>1 DEF Inv, ShapeInv
      <4>3. position[p] + 1 \in DOMAIN log[p]
        BY <4>1, <4>2, LogsAre DEF Inv, ShapeInv
      <4>4. log[p][position[p] + 1] \in Events
        BY <4>3, LogsAre DEF Inv, ShapeInv
      <4>5. pending'[r] # Nothing /\ pending'[r].partition = p
        BY <4>1, <4>4 DEF Inv, ShapeInv
      <4>6. QED BY <4>1, <4>2, <4>5 DEF Done
    <3>2. CASE \E q \in Partitions \ {p} : Poll(q)
      <4>1. PICK q \in Partitions \ {p} : Poll(q)
        BY <3>2
      <4>2. position'[p] = position[p]
        BY <4>1 DEF Poll, Inv, ShapeInv
      <4>3. pending'[r] = pending[r] \/ (pending[r] = Nothing /\ pending'[r].partition # p)
        <5>1. /\ pending[owner[q]] = Nothing
              /\ pending' = [pending EXCEPT ![owner[q]] =
                               [partition |-> q, event |-> log[q][position[q] + 1]]]
          BY <4>1 DEF Poll
        <5>2. \/ pending'[r] = pending[r]
              \/ /\ pending[r] = Nothing
                 /\ pending'[r] = [partition |-> q, event |-> log[q][position[q] + 1]]
          BY <5>1 DEF Inv, ShapeInv
        <5>3. QED BY <5>2
      <4>4. QED BY <4>2, <4>3 DEF Done
    <3>3. CASE \E q \in Partitions, x \in Replicas : Assign(q, x)
      <4>1. position'[p] = position[p] /\ pending' = pending
        BY <2>1, <3>3 DEF Assign, replicaVars, Inv, ShapeInv
      <4>2. QED BY <4>1 DEF Done
    <3>4. CASE UNCHANGED <<position, pending>>
      BY <3>4 DEF Done
    <3>5. QED BY <3>1, <3>2, <3>3, <3>4 DEF AutoCommit, Start, vars, groupVars, replicaVars
  <2>3. SessionWhole(r, p, s)
    BY <1>1, <2>1 DEF WholeInv
  <2>4. QED BY <1>1, <2>1, <2>2, <2>3 DEF SessionWhole
<1>4. QED BY <1>2, <1>3

\* Steps in which a partition loses its owner and the owner forgets it.
LEMMA WholeForgets ==
  ASSUME Inv, WholeInv, Forgets
  PROVE  WholeInv'
<1> SUFFICES ASSUME NEW r \in Replicas, NEW p \in Partitions, owner'[p] = r,
                    NEW s \in SessionsIn(log'[p])
             PROVE  SessionWhole(r, p, s)'
  BY DEF WholeInv
<1>1. UNCHANGED <<log, position, start>>
  BY DEF Forgets, Revoke, Gone
<1>2. StillOwned(r, p)
  BY OwnedStays
<1>3. SessionWhole(r, p, s)
  BY <1>1, <1>2 DEF WholeInv, StillOwned
<1>4. Done(r, p)' = Done(r, p)
  BY <1>1, <1>2 DEF Done, StillOwned
<1>5. CASE s \in DOMAIN sessions[r]
  <2>1. partitions[r][s] = p
    BY <1>1, <1>5, HeldAtHome
  <2>2. s \in DOMAIN sessions'[r] /\ sessions'[r][s] = sessions[r][s]
    BY <1>2, <1>5, <2>1 DEF StillOwned
  <2>3. QED BY <1>1, <1>3, <1>4, <1>5, <2>2 DEF SessionWhole
<1>6. CASE s \notin DOMAIN sessions[r]
  <2>1. s \notin DOMAIN sessions'[r]
    BY <1>2, <1>6 DEF StillOwned
  <2>2. OverAt(s, log[p], start[p], Done(r, p), watermarks[r], p)
    BY <1>3, <1>6 DEF SessionWhole
  <2>3. OverAt(s, log[p], start[p], Done(r, p), watermarks'[r], p)
    BY <1>2, <2>2 DEF OverAt, StillOwned
  <2>4. QED BY <1>1, <1>4, <2>1, <2>3 DEF SessionWhole
<1>7. QED BY <1>5, <1>6

\* Handling an event: its session goes on or starts afresh, the others of its
\* partition are a step further, and a sweep only takes what is over.
LEMMA WholeHandle ==
  ASSUME Inv, OrderInv, PredictedInv, WholeInv, NEW r \in Replicas, Handle(r)
  PROVE  WholeInv'
<1>1. PICK p, e, state : Handling(r, p, e, state)
  BY HandleIs
<1>2. /\ p \in Partitions /\ owner[p] = r /\ e.session \in SessionsIn(log[p])
      /\ e.ts \in Nat /\ watermarks'[r][p] \in Nat /\ e.ts <= watermarks'[r][p]
      /\ p \in DOMAIN watermarks[r] => watermarks[r][p] <= e.ts /\ watermarks[r][p] \in Nat
  BY <1>1, HandleExtends
<1>3. /\ UNCHANGED <<log, owner, position, start>>
      /\ position[p] \in DOMAIN log[p] /\ e = log[p][position[p]] /\ start[p] < position[p]
      /\ pending[r] # Nothing /\ pending[r].partition = p /\ pending'[r] = Nothing
      /\ log \in Logs /\ position[p] \in Nat /\ Updated(r, e, state)
  BY <1>1 DEF Handling, groupVars, boundVars, Inv, ShapeInv
<1>4. /\ \A q \in Replicas \ {r} :
           /\ pending'[q] = pending[q] /\ sessions'[q] = sessions[q]
           /\ watermarks'[q] = watermarks[q]
      /\ \A q \in DOMAIN watermarks[r] \ {p} : watermarks'[r][q] = watermarks[r][q]
      /\ DOMAIN watermarks'[r] = DOMAIN watermarks[r] \cup {p}
  BY <1>1 DEF Handling
<1> SUFFICES ASSUME NEW x \in Replicas, NEW q \in Partitions, owner[q] = x,
                    NEW s \in SessionsIn(log[q])
             PROVE  SessionWhole(x, q, s)'
  BY <1>3 DEF WholeInv
<1>5. SessionWhole(x, q, s)
  BY DEF WholeInv
<1>6. CASE x # r
  <2>1. Done(x, q)' = Done(x, q)
    BY <1>3, <1>4, <1>6 DEF Done
  <2>2. QED BY <1>3, <1>4, <1>5, <1>6, <2>1 DEF SessionWhole
<1>7. CASE x = r
  <2> DEFINE n == Done(r, q)
             k == IF q = p THEN n + 1 ELSE n
             known == s \in DOMAIN sessions[r] \/ s = e.session
  <2>1. /\ n \in Nat /\ k = position[q] /\ k <= Len(log[q]) /\ k \in Nat
        /\ start[q] \in Nat /\ start[q] <= n /\ Ordered(log[q])
    <3>1. n = IF q = p THEN position[p] - 1 ELSE position[q]
      <4>1. CASE q = p
        BY <1>3, <4>1 DEF Done
      <4>2. CASE q # p
        <5>1. n = position[q] - 0 /\ position[q] \in Nat
          BY <1>3, <4>2 DEF Done, Inv, ShapeInv
        <5>2. QED BY <4>2, <5>1
      <4>3. QED BY <4>1, <4>2
    <3>2. n \in Nat /\ start[q] <= n /\ start[q] \in Nat /\ position[q] <= Len(log[q])
      BY <1>7, DoneIs
    <3>3. QED BY <1>3, <3>1, <3>2, OrderedLogs DEF Inv, ShapeInv
  <2>2. Done(r, q)' = k
    <3>1. Done(r, q)' = position[q] - 0
      BY <1>3 DEF Done
    <3>2. QED BY <2>1, <3>1
  <2>3. q = p => k = n + 1 /\ k = position[p] /\ log[p][k] = e
    BY <1>3, <2>1
  <2>4. q # p => k = n
    OBVIOUS
  <2>5. s = e.session => q = p
    BY <1>2, <1>3, OneHome
  <2>6. CASE known
    <3>1. WholeAt(s, log[q], start[q], k, After(r, e, state, s))
      <4>1. CASE q # p
        <5>1. s # e.session /\ s \in DOMAIN sessions[r]
          BY <2>5, <2>6, <4>1
        <5>2. WholeAt(s, log[q], start[q], n, sessions[r][s])
          BY <1>5, <1>7, <5>1 DEF SessionWhole
        <5>3. QED BY <2>4, <4>1, <5>1, <5>2 DEF After
      <4>2. CASE q = p /\ s \in DOMAIN sessions[r]
        <5>1. WholeAt(s, log[p], start[p], n, sessions[r][s])
          BY <1>5, <1>7, <4>2 DEF SessionWhole
        <5> HIDE DEF n
        <5>2. WholeAt(s, log[p], start[p], n + 1,
                      IF log[p][n + 1].session = s
                      THEN Update(sessions[r][s], log[p][n + 1]) ELSE sessions[r][s])
          BY <2>1, <4>2, <5>1, WholeGrows
        <5>3. After(r, e, state, s) =
                IF e.session = s THEN Update(sessions[r][s], e) ELSE sessions[r][s]
          BY <1>3, <4>2 DEF After, Updated
        <5>4. log[p][n + 1] = e /\ k = n + 1
          BY <2>3, <4>2
        <5> HIDE DEF k
        <5>5. QED BY <4>2, <5>2, <5>3, <5>4
      <4>3. CASE q = p /\ s \notin DOMAIN sessions[r]
        <5>1. s = e.session /\ OverAt(s, log[p], start[p], n, watermarks[r], p)
          BY <1>5, <1>7, <2>6, <4>3 DEF SessionWhole
        <5>2. log[p][n + 1] = e /\ k = n + 1
          BY <2>3, <4>3
        <5>3. After(r, e, state, s) = Update(NewSession, e)
          BY <1>3, <4>3, <5>1 DEF After, Updated
        <5>4. n + 1 <= Len(log[p]) /\ start[p] <= n /\ n \in Nat /\ start[p] \in Nat
              /\ Ordered(log[p])
          BY <2>1, <4>3, <5>2
        <5> HIDE DEF n, k
        <5>5. WholeAt(s, log[p], start[p], n + 1, Update(NewSession, log[p][n + 1]))
          BY <1>2, <5>1, <5>2, <5>4, WholeBegins
        <5>6. QED BY <4>3, <5>2, <5>3, <5>5
      <4>4. QED BY <4>1, <4>2, <4>3
    <3>2. CASE s \in DOMAIN sessions'[r]
      <4>1. sessions'[r][s] = After(r, e, state, s)
        BY <1>1, <3>2 DEF Handling
      <4> HIDE DEF k
      <4>2. QED BY <1>3, <1>7, <2>2, <3>1, <3>2, <4>1 DEF SessionWhole
    <3>3. CASE s \notin DOMAIN sessions'[r]
      <4>1. watermarks'[r][Home(r, p, e, s)] - After(r, e, state, s).last > Timeout
        BY <1>1, <2>6, <3>3 DEF Handling
      <4>2. Home(r, p, e, s) = q /\ q \in DOMAIN watermarks'[r]
            /\ watermarks'[r][q] \in Nat /\ After(r, e, state, s).last \in Nat
        <5>1. CASE s = e.session
          <6>1. q = p /\ Home(r, p, e, s) = p /\ After(r, e, state, s) = state
            BY <2>5, <5>1 DEF Home, After
          <6>2. state.last = e.ts
            BY <1>1 DEF Handling
          <6>3. QED BY <1>2, <1>4, <6>1, <6>2
        <5>2. CASE s # e.session
          <6>1. s \in DOMAIN sessions[r] /\ Home(r, p, e, s) = partitions[r][s]
                /\ After(r, e, state, s) = sessions[r][s]
            BY <2>6, <5>2 DEF Home, After
          <6>2. partitions[r][s] = q /\ q \in DOMAIN watermarks[r]
                /\ watermarks[r][q] \in Nat /\ sessions[r][s].last \in Nat
            BY <6>1, HeldAtHome
          <6>3. QED BY <1>2, <1>4, <6>1, <6>2
        <5>3. QED BY <5>1, <5>2
      <4> HIDE DEF k, known
      <4>3. OverAt(s, log[q], start[q], k, watermarks'[r], q)
        BY <2>1, <3>1, <4>1, <4>2, WholeEnds
      <4>4. QED BY <1>3, <1>7, <2>2, <3>3, <4>3 DEF SessionWhole
    <3>4. QED BY <3>2, <3>3
  <2>7. CASE ~known
    <3>1. s \notin DOMAIN sessions'[r]
      BY <1>1, <2>7 DEF Handling
    <3>2. OverAt(s, log[q], start[q], n, watermarks[r], q)
      BY <1>5, <1>7, <2>7 DEF SessionWhole
    <3>3. q \in DOMAIN watermarks[r] =>
            /\ q \in DOMAIN watermarks'[r] /\ watermarks[r][q] \in Nat
            /\ watermarks'[r][q] \in Nat /\ watermarks[r][q] <= watermarks'[r][q]
      <4>1. q \in DOMAIN watermarks[r] => watermarks[r][q] \in Nat
        BY DEF Inv, HoldInv
      <4>2. CASE q = p
        BY <1>2, <1>4, <4>2
      <4>3. CASE q # p
        BY <1>4, <4>1, <4>3
      <4>4. QED BY <4>2, <4>3
    <3>4. k \in {n, n + 1} /\ (k # n => log[q][k].session # s)
      BY <2>3, <2>7
    <3> HIDE DEF n, k
    <3>5. OverAt(s, log[q], start[q], k, watermarks'[r], q)
      BY <2>1, <3>2, <3>3, <3>4, OverGrows
    <3>6. QED BY <1>3, <1>7, <2>2, <3>1, <3>5 DEF SessionWhole
  <2>8. QED BY <2>6, <2>7
<1>8. QED BY <1>6, <1>7

\* A replica's state of a session is never that of a fragment: it is that of all
\* its events since the takeover, or since a pause after which it was swept.
THEOREM SessionsAlwaysWhole == Spec => []SessionsAreWhole
<1> DEFINE All == Inv /\ OrderInv /\ PredictedInv /\ WholeInv
<1>1. Init => All
  BY InvInit, PredictedInit, WholeInit
<1>2. All /\ [Next]_vars => All'
  <2> SUFFICES ASSUME All, [Next]_vars PROVE OrderInv' /\ PredictedInv' /\ WholeInv'
    BY InvStep
  <2>1. CASE \E p \in Partitions :
               Poll(p) \/ AutoCommit(p) \/ \E r \in Replicas : Assign(p, r)
    BY <2>1, PredictedBeside, WholeBeside
  <2>2. CASE (\E r \in Replicas : Start(r)) \/ UNCHANGED vars
    BY <2>2, PredictedBeside, WholeBeside
  <2>3. CASE (\E p \in Partitions : Revoke(p)) \/ \E r \in Replicas : Stop(r) \/ Crash(r)
    BY <2>3, PredictedForgets, WholeForgets DEF Forgets, Stop, Crash
  <2>4. CASE \E r \in Replicas : Handle(r)
    BY <2>4, PredictedHandle, WholeHandle
  <2>5. QED BY <2>1, <2>2, <2>3, <2>4 DEF Next
<1>3. All => SessionsAreWhole
  <2> SUFFICES ASSUME All, NEW r \in Replicas, NEW s \in DOMAIN sessions[r]
               PROVE  \E from \in Fresh(s, log[partitions[r][s]], start[partitions[r][s]]) :
                        sessions[r][s] =
                          StateOf(s, log[partitions[r][s]], from)[Done(r, partitions[r][s])]
    BY DEF SessionsAreWhole
  <2>1. PICK p \in Partitions : p = partitions[r][s] /\ owner[p] = r /\ s \in SessionsIn(log[p])
    BY DEF Inv, HoldInv
  <2>2. WholeAt(s, log[p], start[p], Done(r, p), sessions[r][s])
    BY <2>1 DEF WholeInv, SessionWhole
  <2>3. QED BY <2>1, <2>2 DEF WholeAt
<1>4. QED BY <1>1, <1>2, <1>3, PTL DEF Spec
=============================================================================
