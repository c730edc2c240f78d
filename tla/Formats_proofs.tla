--------------------------- MODULE Formats_proofs ---------------------------
(***************************************************************************)
(* What the pure parts compute, for inputs of every size: the training     *)
(* set, merge plans, the union of partitions and the scores of a model.    *)
(* A fold is a walk w over 0 .. n, so that what holds along it is shown    *)
(* by induction on the positions.                                          *)
(***************************************************************************)
EXTENDS MCFormats, Orders_proofs

-----------------------------------------------------------------------------
(* Reading events and slicing files. *)

\* The positions of the readable rows of a session, and the events they become.
OwnRows(rows, session) ==
  {i \in DOMAIN rows : Readable(rows[i]) /\ rows[i].session = session}
OwnEvents(rows, session) ==
  [k \in 1 .. Cardinality(OwnRows(rows, session)) |->
     Event(Picked(rows, OwnRows(rows, session))[k])]

ReadSessions(rows) == {rows[i].session : i \in {j \in DOMAIN rows : Readable(rows[j])}}

\* The events of a session are its readable rows, and no others.
LEMMA EventsAreRows ==
  ASSUME NEW n \in Nat, NEW rows, DOMAIN rows = 1 .. n
  PROVE  /\ \A s : EventsOf(s, IterEvents(rows, NoLimit)) = OwnEvents(rows, s)
         /\ SessionsIn(IterEvents(rows, NoLimit)) = ReadSessions(rows)
<1> DEFINE ok == {i \in DOMAIN rows : Readable(rows[i])}
           good == Picked(rows, ok)
           m == Cardinality(ok)
           events == IterEvents(rows, NoLimit)
<1>1. ok \in SUBSET (1 .. n) /\ ok \in SUBSET Int /\ IsFiniteSet(ok)
  BY SomePositions
<1>2. /\ m \in Nat /\ Len(good) = m /\ good = [k \in 1 .. m |-> rows[InOrder(ok)[k]]]
      /\ \A k \in 1 .. m : InOrder(ok)[k] \in ok
      /\ \A i \in ok : \E k \in 1 .. m : InOrder(ok)[k] = i
  BY <1>1, PickedIs, PickedLen
<1>3. events = [i \in 1 .. m |-> Event(good[i])]
  <2>1. events = [i \in 1 .. (IF Len(good) > Len(good) THEN Len(good) ELSE Len(good)) |->
                    Event(good[i])]
    BY DEF IterEvents
  <2> HIDE DEF ok, good, m, events
  <2>2. QED BY <1>2, <2>1
<1> HIDE DEF good, m, events
<1>4. \A i \in 1 .. m : events[i].session = rows[InOrder(ok)[i]].session
  BY <1>2, <1>3 DEF Event
<1>5. ASSUME NEW s PROVE EventsOf(s, events) = OwnEvents(rows, s)
  <2> DEFINE B == {i \in DOMAIN events : events[i].session = s}
             own == OwnRows(rows, s)
  <2>1. B \in SUBSET (1 .. m) /\ B \in SUBSET Int /\ IsFiniteSet(B)
    <3>1. B \in SUBSET (1 .. m)
      BY <1>3
    <3>2. QED BY <1>2, <3>1, SomePositions
  <2>2. own = {InOrder(ok)[k] : k \in B}
    <3>1. \A k : k \in B <=> k \in 1 .. m /\ rows[InOrder(ok)[k]].session = s
      BY <1>3, <1>4
    <3>2. own = {i \in ok : rows[i].session = s}
      BY DEF OwnRows
    <3> HIDE DEF B, ok, own
    <3>3. QED BY <1>2, <3>1, <3>2
  <2> HIDE DEF B
  <2>3. Picked(good, B) = Picked(rows, own)
    <3>1. B \in SUBSET (1 .. Cardinality(ok))
      BY <2>1 DEF m
    <3> HIDE DEF ok, own
    <3>2. Picked(Picked(rows, ok), B) = Picked(rows, own)
      BY <1>1, <2>2, <3>1, PickedTwice
    <3>3. QED BY <3>2 DEF good, ok
  <2>4. EventsOf(s, events) = [k \in 1 .. Cardinality(B) |-> events[InOrder(B)[k]]]
    BY <2>1, PickedIs DEF EventsOf, B
  <2>5. /\ Picked(good, B) = [k \in 1 .. Cardinality(B) |-> good[InOrder(B)[k]]]
        /\ \A k \in 1 .. Cardinality(B) : InOrder(B)[k] \in B
    BY <2>1, PickedIs
  <2>6. \A k \in 1 .. Cardinality(B) : events[InOrder(B)[k]] = Event(Picked(good, B)[k])
    BY <1>3, <2>1, <2>5
  <2>7. EventsOf(s, events) = [k \in 1 .. Cardinality(B) |-> Event(Picked(good, B)[k])]
    BY <2>4, <2>6
  <2>8. Cardinality(B) = Cardinality(own)
    <3>1. own \in SUBSET (1 .. n)
      BY DEF OwnRows
    <3>2. /\ Cardinality(own) \in Nat /\ Cardinality(B) \in Nat
          /\ DOMAIN Picked(rows, own) = 1 .. Cardinality(own)
          /\ DOMAIN Picked(good, B) = 1 .. Cardinality(B)
      BY <1>2, <2>1, <3>1, PickedLen
    <3> HIDE DEF own
    <3>3. 1 .. Cardinality(own) = 1 .. Cardinality(B)
      BY <2>3, <3>2
    <3>4. QED BY <3>2, <3>3
  <2>0. QED BY <2>3, <2>7, <2>8 DEF OwnEvents
<1>6. SessionsIn(events) = {rows[i].session : i \in ok}
  <2> HIDE DEF ok
  <2>1. SessionsIn(events) = {rows[InOrder(ok)[i]].session : i \in 1 .. m}
    <3>1. DOMAIN events = 1 .. m
      BY <1>3
    <3>2. SessionsIn(events) = {events[i].session : i \in 1 .. m}
      BY <3>1 DEF SessionsIn
    <3>3. QED BY <1>4, <3>2
  <2>2. QED BY <1>2, <2>1
<1>7. QED BY <1>5, <1>6 DEF events, ReadSessions

\* What a session contributes to the training data.
RowsOf(session, events) ==
  {[session |-> session, start |-> InTimeOrder(events)[1].ts, index |-> x.index,
    state |-> x.state, abandoned |-> x.abandoned] : x \in ExamplesOf(InTimeOrder(events))}

\* The training rows, session by session.
LEMMA DatasetIs ==
  ASSUME NEW events
  PROVE  Dataset(events) = UNION {RowsOf(s, EventsOf(s, events)) : s \in SessionsIn(events)}
BY DEF Dataset, RowsOf

\* A slice has all rows of the sessions it selects.
LEMMA SliceOwns ==
  ASSUME NEW n \in Nat, NEW rows, DOMAIN rows = 1 .. n, NEW selected, NEW sliced,
         sliced = Picked(rows, {i \in DOMAIN rows : SessionOf(rows[i]) \in selected})
  PROVE  /\ \E m \in Nat : DOMAIN sliced = 1 .. m
         /\ \A s \in selected : OwnEvents(sliced, s) = OwnEvents(rows, s)
         /\ SessionsIn(IterEvents(sliced, NoLimit)) =
              SessionsIn(IterEvents(rows, NoLimit)) \cap selected
<1> DEFINE kept == {i \in DOMAIN rows : SessionOf(rows[i]) \in selected}
           m == Cardinality(kept)
<1>1. kept \in SUBSET (1 .. n) /\ kept \in SUBSET Int /\ IsFiniteSet(kept)
  BY SomePositions
<1>2. /\ m \in Nat /\ DOMAIN sliced = 1 .. m
      /\ sliced = [k \in 1 .. m |-> rows[InOrder(kept)[k]]]
      /\ \A k \in 1 .. m : InOrder(kept)[k] \in kept
      /\ \A i \in kept : \E k \in 1 .. m : InOrder(kept)[k] = i
  BY <1>1, PickedIs
<1>3. \A i \in 1 .. n : Readable(rows[i]) => SessionOf(rows[i]) = rows[i].session
  BY DEF Readable, SessionOf
<1> HIDE DEF m
<1>4. ASSUME NEW s \in selected PROVE OwnEvents(sliced, s) = OwnEvents(rows, s)
  <2> DEFINE mine == OwnRows(sliced, s)
             own == OwnRows(rows, s)
  <2>1. mine \in SUBSET (1 .. Cardinality(kept))
    BY <1>2 DEF OwnRows, m
  <2>2. own \in SUBSET (1 .. n)
    BY DEF OwnRows
  <2>3. own = {InOrder(kept)[k] : k \in mine}
    <3>1. \A k : k \in mine <=> /\ k \in 1 .. m
                                /\ Readable(rows[InOrder(kept)[k]])
                                /\ rows[InOrder(kept)[k]].session = s
      BY <1>2 DEF OwnRows
    <3>2. own = {i \in kept : Readable(rows[i]) /\ rows[i].session = s}
      BY <1>3 DEF OwnRows
    <3> HIDE DEF mine, kept, own
    <3>3. QED BY <1>2, <3>1, <3>2
  <2> HIDE DEF mine, own
  <2>4. Picked(sliced, mine) = Picked(rows, own)
    <3>1. sliced = Picked(rows, kept)
      OBVIOUS
    <3> HIDE DEF kept
    <3>2. Picked(Picked(rows, kept), mine) = Picked(rows, own)
      BY <1>1, <2>1, <2>3, PickedTwice
    <3>3. QED BY <3>1, <3>2
  <2>5. Cardinality(mine) = Cardinality(own)
    <3>1. /\ Cardinality(own) \in Nat /\ Cardinality(mine) \in Nat
          /\ DOMAIN Picked(rows, own) = 1 .. Cardinality(own)
          /\ DOMAIN Picked(sliced, mine) = 1 .. Cardinality(mine)
      BY <1>2, <2>1, <2>2, PickedLen DEF m
    <3>2. 1 .. Cardinality(own) = 1 .. Cardinality(mine)
      BY <2>4, <3>1
    <3>3. QED BY <3>1, <3>2
  <2>6. /\ OwnEvents(sliced, s) = [k \in 1 .. Cardinality(mine) |-> Event(Picked(sliced, mine)[k])]
        /\ OwnEvents(rows, s) = [k \in 1 .. Cardinality(own) |-> Event(Picked(rows, own)[k])]
    BY DEF OwnEvents, mine, own
  <2>7. QED BY <2>4, <2>5, <2>6
<1>5. SessionsIn(IterEvents(sliced, NoLimit)) =
        SessionsIn(IterEvents(rows, NoLimit)) \cap selected
  <2> HIDE DEF kept
  <2>1. SessionsIn(IterEvents(rows, NoLimit)) = ReadSessions(rows)
    BY EventsAreRows
  <2>0. SessionsIn(IterEvents(sliced, NoLimit)) = ReadSessions(sliced)
    BY <1>2, EventsAreRows
  <2>2. \A s : s \in SessionsIn(IterEvents(sliced, NoLimit)) <=>
                 \E i \in kept : Readable(rows[i]) /\ rows[i].session = s
    <3>1. \A k \in 1 .. m : sliced[k] = rows[InOrder(kept)[k]]
      BY <1>2
    <3>2. \A s : s \in ReadSessions(sliced) <=>
                   \E k \in 1 .. m : Readable(sliced[k]) /\ sliced[k].session = s
      BY <1>2 DEF ReadSessions
    <3>3. ASSUME NEW s
          PROVE  (\E k \in 1 .. m : Readable(sliced[k]) /\ sliced[k].session = s) <=>
                   \E i \in kept : Readable(rows[i]) /\ rows[i].session = s
      <4>1. ASSUME NEW k \in 1 .. m, Readable(sliced[k]), sliced[k].session = s
            PROVE  \E i \in kept : Readable(rows[i]) /\ rows[i].session = s
        <5>1. InOrder(kept)[k] \in kept
          BY <1>2
        <5>2. Readable(rows[InOrder(kept)[k]]) /\ rows[InOrder(kept)[k]].session = s
          BY <3>1, <4>1
        <5>3. QED BY <5>1, <5>2
      <4>2. ASSUME NEW i \in kept, Readable(rows[i]), rows[i].session = s
            PROVE  \E k \in 1 .. m : Readable(sliced[k]) /\ sliced[k].session = s
        <5>1. PICK k \in 1 .. m : InOrder(kept)[k] = i
          BY <1>2
        <5>2. sliced[k] = rows[i]
          BY <3>1, <5>1
        <5>3. QED BY <4>2, <5>2
      <4>3. QED BY <4>1, <4>2
    <3>4. QED BY <2>0, <3>2, <3>3
  <2>3. \A s : s \in SessionsIn(IterEvents(rows, NoLimit)) <=>
                 \E i \in 1 .. n : Readable(rows[i]) /\ rows[i].session = s
    BY <2>1 DEF ReadSessions
  <2>4. \A i \in kept : i \in 1 .. n /\ SessionOf(rows[i]) \in selected
    BY DEF kept
  <2>5. \A i \in 1 .. n : SessionOf(rows[i]) \in selected => i \in kept
    BY DEF kept
  <2>6. QED BY <1>3, <2>2, <2>3, <2>4, <2>5
<1>6. QED BY <1>2, <1>4, <1>5

\* A slice that is not cut short labels its sessions as the whole file does.
LEMMA SliceKeeps ==
  ASSUME NEW S, NEW rows \in Seq(S), NEW wanted, NEW scanLimit \in Int
  PROVE  SliceKeepsLabels(rows, wanted, scanLimit)
<1> DEFINE selected == SelectSessions(rows, wanted, scanLimit)
           sliced == Picked(rows, {i \in DOMAIN rows : SessionOf(rows[i]) \in selected})
           events == IterEvents(rows, NoLimit)
           those == IterEvents(sliced, NoLimit)
<1>1. Len(rows) \in Nat /\ DOMAIN rows = 1 .. Len(rows) /\ SubSeq(rows, 1, Len(rows)) = rows
  BY LenProperties, SubSeqFull
<1>2. SliceSessions(rows, wanted, scanLimit).truncated = (Len(rows) > scanLimit)
  BY DEF SliceSessions
<1>3. ~(Len(rows) > scanLimit) =>
        /\ SliceSessions(rows, wanted, scanLimit).rows = sliced
        /\ SliceSessions(rows, wanted, scanLimit).selected = selected
  BY <1>1 DEF SliceSessions
<1> HIDE DEF selected
<1>4. /\ \E m \in Nat : DOMAIN sliced = 1 .. m
      /\ \A s \in selected : OwnEvents(sliced, s) = OwnEvents(rows, s)
      /\ SessionsIn(those) = SessionsIn(events) \cap selected
  BY <1>1, SliceOwns
<1> HIDE DEF sliced, events, those
<1>5. \A s \in selected : EventsOf(s, those) = EventsOf(s, events)
  <2>1. PICK m \in Nat : DOMAIN sliced = 1 .. m
    BY <1>4
  <2>2. \A s : EventsOf(s, those) = OwnEvents(sliced, s)
    BY <2>1, EventsAreRows DEF those
  <2>3. \A s : EventsOf(s, events) = OwnEvents(rows, s)
    BY <1>1, EventsAreRows DEF events
  <2>4. QED BY <1>4, <2>2, <2>3
<1>6. Dataset(those) = {x \in Dataset(events) : x.session \in selected}
  <2>1. /\ Dataset(those) = UNION {RowsOf(s, EventsOf(s, those)) : s \in SessionsIn(those)}
        /\ Dataset(events) = UNION {RowsOf(s, EventsOf(s, events)) : s \in SessionsIn(events)}
    BY DatasetIs
  <2>2. \A s, own : \A x \in RowsOf(s, own) : x.session = s
    BY DEF RowsOf
  <2>3. \A x : x \in Dataset(those) <=>
                 \E s \in SessionsIn(events) : s \in selected /\ x \in RowsOf(s, EventsOf(s, events))
    <3>1. \A x : x \in Dataset(those) <=>
                 \E s \in SessionsIn(those) : x \in RowsOf(s, EventsOf(s, those))
      BY <2>1
    <3>2. QED BY <1>4, <1>5, <3>1
  <2>4. \A x : x \in Dataset(events) <=>
                 \E s \in SessionsIn(events) : x \in RowsOf(s, EventsOf(s, events))
    BY <2>1
  <2>5. QED BY <2>2, <2>3, <2>4
<1>7. QED BY <1>2, <1>3, <1>6 DEF SliceKeepsLabels, those, events
-----------------------------------------------------------------------------
(* Sessions in order of time. *)

Preceding(events, i, j) ==
  \/ events[i].ts < events[j].ts
  \/ events[i].ts = events[j].ts /\ i < j

\* Every event once, each after those that come before it.
Rearranges(order, n, events) ==
  /\ order \in [1 .. n -> 1 .. n]
  /\ \A i \in 1 .. n : \E k \in 1 .. n : order[k] = i
  /\ \A k, l \in 1 .. n : k < l => Preceding(events, order[k], order[l])

\* Grouping sorts the events of a session by time, and leaves those of one moment
\* as they came.
LEMMA GroupingSorts ==
  ASSUME NEW n \in Nat, NEW events, DOMAIN events = 1 .. n,
         \A i \in 1 .. n : events[i].ts \in Int
  PROVE  \E order : /\ Rearranges(order, n, events)
                    /\ InTimeOrder(events) = [k \in 1 .. n |-> events[order[k]]]
<1> DEFINE key == [i \in DOMAIN events |-> Cardinality(Earlier(events, i))]
<1>1. ASSUME NEW i \in 1 .. n
      PROVE  /\ Earlier(events, i) \in SUBSET (1 .. n) /\ IsFiniteSet(Earlier(events, i))
             /\ Cardinality(Earlier(events, i)) \in Nat
             /\ \A j : j \in Earlier(events, i) <=> j \in 1 .. n /\ Preceding(events, j, i)
  <2>1. Earlier(events, i) \in SUBSET (1 .. n)
    BY DEF Earlier
  <2>2. IsFiniteSet(Earlier(events, i))
    BY <2>1, SomePositions
  <2>3. QED BY <2>1, <2>2, FS_CardinalityType DEF Earlier, Preceding
<1>2. ASSUME NEW i \in 1 .. n, NEW j \in 1 .. n, Preceding(events, i, j)
      PROVE  Cardinality(Earlier(events, i)) < Cardinality(Earlier(events, j))
  <2> DEFINE A == Earlier(events, i)
             B == Earlier(events, j)
  <2>1. \A k \in 1 .. n : Preceding(events, k, i) => Preceding(events, k, j)
    BY <1>2 DEF Preceding
  <2>2. ~Preceding(events, i, i)
    BY DEF Preceding
  <2>3. A \in SUBSET B /\ A # B
    BY <1>1, <1>2, <2>1, <2>2
  <2>4. IsFiniteSet(B) /\ Cardinality(A) \in Nat /\ Cardinality(B) \in Nat
    BY <1>1
  <2> HIDE DEF A, B
  <2>5. Cardinality(A) <= Cardinality(B) /\ Cardinality(A) # Cardinality(B)
    BY <2>3, <2>4, FS_Subset
  <2>6. Cardinality(A) < Cardinality(B)
    BY <2>4, <2>5
  <2>7. QED BY <2>6 DEF A, B
<1>3. \A i, j \in 1 .. n : i # j => Preceding(events, i, j) \/ Preceding(events, j, i)
  BY DEF Preceding
<1>4. DOMAIN key = 1 .. n /\ \A i \in 1 .. n : key[i] = Cardinality(Earlier(events, i))
  OBVIOUS
<1>5. IsKey(key)
  <2> HIDE DEF key
  <2>1. IsFiniteSet(DOMAIN key)
    <3>1. 1 \in Int /\ n \in Int
      OBVIOUS
    <3>2. IsFiniteSet(1 .. n)
      BY <3>1, FS_Interval
    <3>3. QED BY <1>4, <3>2
  <2>2. \A i \in 1 .. n : key[i] \in Int
    BY <1>1, <1>4
  <2>3. ASSUME NEW i \in 1 .. n, NEW j \in 1 .. n, key[i] = key[j] PROVE i = j
    <3>1. ~(key[i] < key[j]) /\ ~(key[j] < key[i])
      BY <2>2, <2>3
    <3>2. ~Preceding(events, i, j) /\ ~Preceding(events, j, i)
      BY <1>2, <1>4, <3>1
    <3>3. QED BY <1>3, <3>2
  <2>4. QED BY <1>4, <2>1, <2>2, <2>3 DEF IsKey
<1>6. InTimeOrder(events) = [k \in 1 .. n |-> events[Sorted(key)[k]]]
  BY DEF InTimeOrder
<1> HIDE DEF key
<1>7. Sorts(Sorted(key), n, key)
  <2>1. 1 \in Int /\ n \in Int
    OBVIOUS
  <2>2. Cardinality(1 .. n) = IF 1 > n THEN 0 ELSE n - 1 + 1
    BY <2>1, FS_Interval
  <2>3. Cardinality(DOMAIN key) = n
    BY <1>4, <2>2
  <2>4. Sorts(Sorted(key), Cardinality(DOMAIN key), key)
    BY <1>5, SortedSorts
  <2>5. QED BY <2>3, <2>4
<1> DEFINE order == Sorted(key)
<1>8. Rearranges(order, n, events)
  <2> HIDE DEF order
  <2>1. /\ order \in [1 .. n -> 1 .. n]
        /\ \A i \in 1 .. n : \E k \in 1 .. n : order[k] = i
        /\ \A k, l \in 1 .. n : k < l => key[order[k]] < key[order[l]]
    BY <1>4, <1>7 DEF Sorts, order
  <2>2. ASSUME NEW k \in 1 .. n, NEW l \in 1 .. n, k < l
        PROVE  Preceding(events, order[k], order[l])
    <3>1. order[k] \in 1 .. n /\ order[l] \in 1 .. n /\ key[order[k]] < key[order[l]]
      BY <2>1, <2>2
    <3>2. key[order[k]] \in Int /\ key[order[l]] \in Int
      BY <1>1, <1>4, <3>1
    <3>3. ~(key[order[l]] < key[order[k]]) /\ order[k] # order[l]
      BY <3>1, <3>2
    <3>4. ~Preceding(events, order[l], order[k])
      BY <1>2, <1>4, <3>1, <3>3
    <3>5. QED BY <1>3, <3>1, <3>3, <3>4
  <2>3. QED BY <2>1, <2>2 DEF Rearranges
<1>9. QED BY <1>6, <1>8

\* A session's events, in order of time, are events of the log.
LEMMA OwnAre ==
  ASSUME NEW n \in Nat, NEW events, DOMAIN events = 1 .. n,
         \A i \in 1 .. n : events[i].ts \in Int, NEW s
  PROVE  \E m \in Nat :
           /\ DOMAIN InTimeOrder(EventsOf(s, events)) = 1 .. m
           /\ InTimeOrder(EventsOf(s, events)) =
                [k \in 1 .. m |-> InTimeOrder(EventsOf(s, events))[k]]
           /\ s \in SessionsIn(events) => m >= 1
           /\ \A k \in 1 .. m : \E i \in 1 .. n :
                InTimeOrder(EventsOf(s, events))[k] = events[i]
<1> DEFINE at == {i \in DOMAIN events : events[i].session = s}
           own == EventsOf(s, events)
           m == Cardinality(at)
<1>1. at \in SUBSET (1 .. n) /\ at \in SUBSET Int /\ IsFiniteSet(at)
  BY SomePositions
<1>2. /\ m \in Nat /\ own = [k \in 1 .. m |-> events[InOrder(at)[k]]]
      /\ \A k \in 1 .. m : InOrder(at)[k] \in at
      /\ \A i \in at : \E k \in 1 .. m : InOrder(at)[k] = i
  <2>1. own = Picked(events, at)
    BY DEF EventsOf
  <2> HIDE DEF at, own
  <2>2. QED BY <1>1, <2>1, PickedIs
<1>3. s \in SessionsIn(events) => m >= 1
  <2>1. s \in SessionsIn(events) => \E i : i \in at
    BY DEF SessionsIn
  <2> HIDE DEF at, own, m
  <2>2. QED BY <1>2, <2>1
<1> HIDE DEF own, m
<1>4. DOMAIN own = 1 .. m /\ \A k \in 1 .. m : own[k].ts \in Int /\ \E i \in 1 .. n : own[k] = events[i]
  BY <1>1, <1>2
<1>5. PICK order : Rearranges(order, m, own) /\ InTimeOrder(own) = [k \in 1 .. m |-> own[order[k]]]
  <2>1. m \in Nat
    BY <1>2
  <2>2. DOMAIN own = 1 .. m
    BY <1>4
  <2>3. \A k \in 1 .. m : own[k].ts \in Int
    BY <1>4
  <2>4. QED BY <2>1, <2>2, <2>3, GroupingSorts
<1>6. \A k \in 1 .. m : order[k] \in 1 .. m /\ InTimeOrder(own)[k] = own[order[k]]
  BY <1>5 DEF Rearranges
<1>7. \A k \in 1 .. m : \E i \in 1 .. n : InTimeOrder(own)[k] = events[i]
  BY <1>4, <1>6
<1>8. DOMAIN InTimeOrder(own) = 1 .. m /\ InTimeOrder(own) = [k \in 1 .. m |-> InTimeOrder(own)[k]]
  BY <1>5
<1>9. QED BY <1>2, <1>3, <1>7, <1>8 DEF own

\* Rows of one session start together, and there are finitely many starts.
LEMMA StartsAre ==
  ASSUME NEW n \in Nat, NEW events, DOMAIN events = 1 .. n,
         \A i \in 1 .. n : events[i].ts \in Int
  PROVE  /\ IsFiniteSet({x.start : x \in Dataset(events)})
         /\ \A x \in Dataset(events) : x.start \in Int
         /\ \A x, y \in Dataset(events) : x.session = y.session => x.start = y.start
<1> DEFINE T == {x.start : x \in Dataset(events)}
           first(s) == InTimeOrder(EventsOf(s, events))[1].ts
           ts == [i \in 1 .. n |-> events[i].ts]
           all == {ts[i] : i \in 1 .. n}
<1>1. ASSUME NEW x \in Dataset(events)
      PROVE  x.session \in SessionsIn(events) /\ x.start = first(x.session)
  <2>1. PICK s \in SessionsIn(events) : x \in RowsOf(s, EventsOf(s, events))
    <3>1. x \in UNION {RowsOf(s, EventsOf(s, events)) : s \in SessionsIn(events)}
      BY DatasetIs
    <3>2. QED BY <3>1
  <2>2. x.session = s /\ x.start = first(s)
    BY <2>1 DEF RowsOf
  <2>3. QED BY <2>2
<1>2. ASSUME NEW s \in SessionsIn(events) PROVE \E i \in 1 .. n : first(s) = events[i].ts
  <2> DEFINE own == InTimeOrder(EventsOf(s, events))
  <2>1. PICK m \in Nat : m >= 1 /\ \A k \in 1 .. m : \E i \in 1 .. n : own[k] = events[i]
    BY OwnAre
  <2>2. 1 \in 1 .. m
    BY <2>1
  <2> HIDE DEF own
  <2>3. \E i \in 1 .. n : own[1] = events[i]
    BY <2>1, <2>2
  <2>4. QED BY <2>3 DEF own
<1> HIDE DEF first
<1>3. T \in SUBSET all
  BY <1>1, <1>2
<1>4. IsFiniteSet(all)
  <2>1. ts \in Surjection(1 .. n, all)
    BY DEF Surjection
  <2>2. IsFiniteSet(1 .. n)
    BY FS_Interval
  <2> HIDE DEF ts, all
  <2>3. QED BY <2>1, <2>2, FS_Surjection
<1>5. IsFiniteSet(T)
  <2> HIDE DEF T, all
  <2>1. QED BY <1>3, <1>4, FS_Subset
<1>6. QED BY <1>1, <1>2, <1>5

\* A share of a number is no more than it.
LEMMA ShareIs ==
  ASSUME NEW len \in Nat, len >= 1, NEW num \in Nat, NEW den \in Nat \ {0}, num <= den
  PROVE  Larger(1, (len * num) \div den) \in 1 .. len
<1> DEFINE q == (len * num) \div den
<1>1. len * num \in Nat /\ len * num <= len * den
  OBVIOUS
<1>2. q \in Int /\ q * den <= len * num
  BY <1>1
<1> HIDE DEF q
<1>3. q <= len
  <2>1. SUFFICES ASSUME q >= len + 1 PROVE FALSE
    BY <1>2
  <2>2. q * den >= (len + 1) * den
    BY <1>2, <2>1
  <2>3. (len + 1) * den = len * den + den
    OBVIOUS
  <2>4. q * den \in Int /\ len * den \in Int /\ len * num \in Int
    BY <1>1, <1>2
  <2>5. QED BY <1>1, <1>2, <2>2, <2>3, <2>4
<1>4. QED BY <1>2, <1>3 DEF Larger, q

\* The split by time, for any rows whose sessions have one start each.
LEMMA SplitsCleanly ==
  ASSUME NEW rows, IsFiniteSet({x.start : x \in rows}), \A x \in rows : x.start \in Int,
         \A x, y \in rows : x.session = y.session => x.start = y.start,
         NEW num \in Nat, NEW den \in Nat \ {0}, num <= den
  PROVE  SplitIsClean(rows, num, den)
<1> DEFINE T == {x.start : x \in rows}
           len == Len(InOrder(T))
           cut == InOrder(T)[Larger(1, (len * num) \div den)]
<1>1. TrainingRows(rows, num, den) = {r \in rows : r.start <= cut}
  BY DEF TrainingRows, InOrder
<1>2. T \in SUBSET Int /\ IsFiniteSet(T)
  OBVIOUS
<1> HIDE DEF T
<1>3. len = Cardinality(T) /\ len \in Nat /\ Lists(InOrder(T), len, T)
  <2> DEFINE m == Cardinality(T)
  <2>1. m \in Nat /\ Lists(InOrder(T), m, T)
    BY <1>2, InOrderLists
  <2> HIDE DEF m
  <2>2. InOrder(T) \in [1 .. m -> T]
    BY <2>1 DEF Lists
  <2>3. len = m
    BY <2>1, <2>2, LenIs
  <2>4. QED BY <2>1, <2>3 DEF m
<1> HIDE DEF len
<1>4. CASE rows = {}
  BY <1>1, <1>4 DEF SplitIsClean
<1>5. CASE rows # {}
  <2>1. len >= 1
    <3>1. PICK t : t \in T
      BY <1>5 DEF T
    <3>2. \E k \in 1 .. len : InOrder(T)[k] = t
      BY <1>3, <3>1 DEF Lists
    <3>3. QED BY <1>3, <3>2
  <2>2. cut \in T
    <3>1. Larger(1, (len * num) \div den) \in 1 .. len
      BY <1>3, <2>1, ShareIs
    <3>2. InOrder(T) \in [1 .. len -> T]
      BY <1>3 DEF Lists
    <3>3. QED BY <3>1, <3>2
  <2> HIDE DEF cut
  <2>3. PICK r \in rows : r.start = cut
    BY <2>2 DEF T
  <2>4. r \in TrainingRows(rows, num, den)
    BY <1>1, <2>3
  <2>5. ASSUME NEW x \in TrainingRows(rows, num, den),
               NEW y \in rows \ TrainingRows(rows, num, den)
        PROVE  x.session # y.session /\ x.start < y.start
    <3>1. x \in rows /\ y \in rows /\ x.start <= cut /\ ~(y.start <= cut)
      BY <1>1
    <3>2. cut \in Int /\ x.start \in Int /\ y.start \in Int
      BY <2>3, <3>1
    <3>3. x.start < y.start
      BY <3>1, <3>2
    <3>4. QED BY <3>1, <3>2, <3>3
  <2>6. QED BY <2>4, <2>5 DEF SplitIsClean
<1>6. QED BY <1>4, <1>5
-----------------------------------------------------------------------------
(* The state of a session, event by event. *)

Running == [sum : Int, count : Nat, max : Int]

\* What the states of sessions with some products are.
States(products) ==
  [first : Int, last : Int, events : Nat, count : [Types -> Nat], cycle : Nat,
   cart : UNION {[D -> Int] : D \in SUBSET products}, products : SUBSET products,
   prices : Running, gaps : Running]

IsEvent(products, e) ==
  /\ e.ts \in Int /\ e.type \in Types
  /\ e.product \in products \cup {NoProduct}
  /\ e.price \in Int \cup {NoPrice}

\* A running figure stays one.
LEMMA NotedIs ==
  ASSUME NEW r \in Running, NEW v \in Int
  PROVE  Noted(r, v) \in Running
BY DEF Noted, Running, Larger

\* A new session is a session, and has no purchase to await.
LEMMA NewIs == \A products : NewSession \in States(products) /\ NewSession.cycle = 0
<1> SUFFICES ASSUME NEW products PROVE NewSession \in States(products) /\ NewSession.cycle = 0
  OBVIOUS
<1>1. [p \in {} |-> 0] \in UNION {[D -> Int] : D \in SUBSET products}
  <2>1. [p \in {} |-> 0] \in [{} -> Int] /\ {} \in SUBSET products
    OBVIOUS
  <2>2. QED BY <2>1
<1>2. [type \in Types |-> 0] \in [Types -> Nat]
  OBVIOUS
<1>3. [sum |-> 0, count |-> 0, max |-> 0] \in Running
  BY DEF Running
<1>4. {} \in SUBSET products
  OBVIOUS
<1> DEFINE Carts == UNION {[D -> Int] : D \in SUBSET products}
           none == [p \in {} |-> 0]
           zero == [type \in Types |-> 0]
           still == [sum |-> 0, count |-> 0, max |-> 0]
<1>5. /\ NewSession = [first |-> 0, last |-> 0, events |-> 0, count |-> zero, cycle |-> 0,
                       cart |-> none, products |-> {}, prices |-> still, gaps |-> still]
      /\ States(products) =
           [first : Int, last : Int, events : Nat, count : [Types -> Nat], cycle : Nat,
            cart : Carts, products : SUBSET products, prices : Running, gaps : Running]
  BY DEF NewSession, States
<1>6. none \in Carts /\ zero \in [Types -> Nat] /\ still \in Running
  BY <1>1, <1>2, <1>3
<1> HIDE DEF Carts, none, zero, still
<1>7. QED BY <1>4, <1>5, <1>6

\* A cart stays a cart of the log's products.
LEMMA CartIs ==
  ASSUME NEW products, NEW state \in States(products), NEW e, IsEvent(products, e)
  PROVE  CartAfter(state, e) \in UNION {[D -> Int] : D \in SUBSET products}
<1> DEFINE Carts == UNION {[D -> Int] : D \in SUBSET products}
<1>1. PICK D \in SUBSET products : state.cart \in [D -> Int]
  BY DEF States
<1>2. \A A : A \in SUBSET products => [A -> Int] \in SUBSET Carts
  OBVIOUS
<1>3. CASE e.type = "purchase"
  <2>1. [p \in {} |-> 0] \in [{} -> Int]
    OBVIOUS
  <2>2. QED BY <1>2, <1>3, <2>1 DEF CartAfter
<1>4. CASE e.product # NoProduct /\ e.type = "remove_from_cart"
  <2>1. Without(state.cart, e.product) \in [D \ {e.product} -> Int]
    BY <1>1 DEF Without
  <2>2. Without(state.cart, e.product) \in Carts
    BY <1>2, <2>1
  <2>3. QED BY <1>4, <2>2 DEF CartAfter
<1>5. CASE e.product # NoProduct /\ e.type = "add_to_cart" /\ e.price # NoPrice
  <2>1. e.product \in products /\ e.price \in Int
    BY <1>5 DEF IsEvent
  <2>2. With(state.cart, e.product, e.price) \in [D \cup {e.product} -> Int]
    BY <1>1, <2>1 DEF With
  <2>3. With(state.cart, e.product, e.price) \in Carts
    BY <1>2, <2>1, <2>2
  <2>4. QED BY <1>5, <2>3 DEF CartAfter
<1>6. CASE ~(e.type = "purchase") /\ ~(e.product # NoProduct /\ e.type = "remove_from_cart")
           /\ ~(e.product # NoProduct /\ e.type = "add_to_cart" /\ e.price # NoPrice)
  <2>1. state.cart \in Carts
    BY <1>1
  <2>2. CartAfter(state, e) = state.cart
    BY <1>6 DEF CartAfter
  <2>3. QED BY <2>1, <2>2
<1>7. QED BY <1>3, <1>4, <1>5, <1>6

\* An update keeps the shape of a state.
LEMMA UpdateIs ==
  ASSUME NEW products, NEW state \in States(products), NEW e, IsEvent(products, e)
  PROVE  Update(state, e) \in States(products) /\ Update(state, e).cycle = CycleAfter(state, e)
<1> DEFINE first == IF state.events = 0 THEN e.ts ELSE state.first
           gaps == IF state.events = 0 THEN state.gaps
                   ELSE Noted(state.gaps, Larger(0, e.ts - state.last))
           events == state.events + 1
           count == [state.count EXCEPT ![e.type] = @ + 1]
           cycle == CycleAfter(state, e)
           cart == CartAfter(state, e)
           seen == IF e.product = NoProduct THEN state.products
                   ELSE state.products \cup {e.product}
           prices == IF e.price = NoPrice THEN state.prices ELSE Noted(state.prices, e.price)
<1>1. Update(state, e) =
        [first |-> first, last |-> e.ts, events |-> events, count |-> count, cycle |-> cycle,
         cart |-> cart, products |-> seen, prices |-> prices, gaps |-> gaps]
  <2>1. Update(state, e) =
          [state EXCEPT !.first = first, !.gaps = gaps, !.last = e.ts, !.events = events,
             !.count = count, !.cycle = cycle, !.cart = cart, !.products = seen,
             !.prices = prices]
    BY DEF Update
  <2> HIDE DEF first, gaps, events, count, cycle, cart, seen, prices
  <2>2. DOMAIN state = {"first", "last", "events", "count", "cycle", "cart", "products",
                        "prices", "gaps"}
    BY DEF States
  <2>3. QED BY <2>1, <2>2
<1>2. /\ state.first \in Int /\ state.last \in Int /\ state.events \in Nat
      /\ state.count \in [Types -> Nat] /\ state.cycle \in Nat
      /\ state.products \in SUBSET products /\ state.prices \in Running /\ state.gaps \in Running
  BY DEF States
<1>3. first \in Int /\ e.ts \in Int /\ events \in Nat
  BY <1>2 DEF IsEvent
<1>4. count \in [Types -> Nat]
  BY <1>2 DEF IsEvent
<1>5. cycle \in Nat
  BY <1>2 DEF CycleAfter
<1>6. cart \in UNION {[D -> Int] : D \in SUBSET products}
  BY CartIs
<1>7. seen \in SUBSET products
  BY <1>2 DEF IsEvent
<1>8. prices \in Running
  <2>1. e.price # NoPrice => e.price \in Int
    BY DEF IsEvent
  <2>2. QED BY <1>2, <2>1, NotedIs
<1>9. gaps \in Running
  <2>1. Larger(0, e.ts - state.last) \in Int
    BY <1>2, <1>3 DEF Larger
  <2>2. QED BY <1>2, <2>1, NotedIs
<1> HIDE DEF first, gaps, events, count, cycle, cart, seen, prices
<1>10. Update(state, e) \in States(products)
  BY <1>1, <1>3, <1>4, <1>5, <1>6, <1>7, <1>8, <1>9 DEF States
<1>11. Update(state, e).cycle = cycle
  BY <1>1
<1>12. QED BY <1>10, <1>11 DEF cycle

Log(n, products, events) ==
  DOMAIN events = 1 .. n /\ \A i \in 1 .. n : IsEvent(products, events[i])

StateWalk(w, n, products, events) ==
  /\ w \in [0 .. n -> States(products)]
  /\ w[0] = NewSession
  /\ \A k \in 1 .. n : w[k] = Update(w[k - 1], events[k])

\* The state after some events is where updating event by event leads.
LEMMA StateIsWalked ==
  ASSUME NEW n \in Nat, NEW products, NEW events, Log(n, products, events)
  PROVE  \E w : StateWalk(w, n, products, events) /\ w[n] = StateAfter(events)
<1> DEFINE X == States(products)
           step == [i \in 1 .. n |-> [x \in X |-> Update(x, events[i])]]
           Iter == CHOOSE iter : iter = [s \in SUBSET DOMAIN events |->
             IF s = {} THEN NewSession ELSE Update(iter[s \ {Max(s)}], events[Max(s)])]
<1>0. DOMAIN events = 1 .. n /\ \A i \in 1 .. n : IsEvent(products, events[i])
  BY DEF Log
<1>1. NewSession \in X /\ step \in [1 .. n -> [X -> X]]
  <2>1. \A i \in 1 .. n : \A x \in X : Update(x, events[i]) \in X
    BY <1>0, UpdateIs
  <2> HIDE DEF X
  <2>2. step \in [1 .. n -> [X -> X]]
    BY <2>1
  <2>3. QED BY <2>2, NewIs DEF X
<1> HIDE DEF step, X
<1>2. PICK g \in [SUBSET (1 .. n) -> X] : Unwinds(g, NewSession, step, n)
  BY <1>1, FoldSolved
<1>3. g = [s \in SUBSET DOMAIN events |->
             IF s = {} THEN NewSession ELSE Update(g[s \ {Max(s)}], events[Max(s)])]
  BY <1>0, <1>2 DEF Unwinds, step
<1>4. Iter = [s \in SUBSET DOMAIN events |->
             IF s = {} THEN NewSession ELSE Update(Iter[s \ {Max(s)}], events[Max(s)])]
  BY <1>3
<1>5. StateAfter(events) = Iter[DOMAIN events]
  BY Zenon DEF StateAfter, FoldLeft, MapThenFoldSet
<1> HIDE DEF Iter
<1>6. UnwindsIn(X, Iter, NewSession, step, n)
  BY <1>0, <1>2, <1>4 DEF step, Unwinds, UnwindsIn
<1>7. WalksTo(X, Iter[1 .. n], NewSession, step, n)
  BY <1>1, <1>6, FoldWalk
<1>8. PICK w \in [0 .. n -> X] : IsWalk(w, NewSession, step, n) /\ w[n] = Iter[1 .. n]
  BY <1>7 DEF WalksTo
<1>9. \A k \in 1 .. n : w[k] = Update(w[k - 1], events[k])
  <2>1. \A k \in 1 .. n : w[k - 1] \in X
    BY <1>8
  <2>2. QED BY <1>8, <2>1 DEF step, IsWalk
<1>10. StateWalk(w, n, products, events)
  BY <1>8, <1>9 DEF StateWalk, IsWalk, X
<1>11. QED BY <1>0, <1>5, <1>8, <1>10

\* The beginning of a log.
LEMMA Opening ==
  ASSUME NEW n \in Nat, NEW products, NEW events, Log(n, products, events), NEW k \in 0 .. n
  PROVE  /\ Log(k, products, SubSeq(events, 1, k))
         /\ \A i \in 1 .. k : SubSeq(events, 1, k)[i] = events[i]
<1> DEFINE S == {events[i] : i \in 1 .. k}
           opening == SubSeq(events, 1, k)
<1>1. 1 \in Int /\ k \in Int /\ \A i \in 1 .. k : events[i] \in S
  OBVIOUS
<1>2. /\ opening \in Seq(S)
      /\ Len(opening) = IF 1 <= k THEN k - 1 + 1 ELSE 0
      /\ \A i \in 1 .. k - 1 + 1 : opening[i] = events[1 + i - 1]
  <2> HIDE DEF S
  <2>1. QED BY <1>1, SubSeqProperties
<1>3. DOMAIN opening = 1 .. Len(opening)
  BY <1>2, LenProperties
<1> HIDE DEF opening
<1>4. DOMAIN opening = 1 .. k
  BY <1>2, <1>3
<1>5. \A i \in 1 .. k : opening[i] = events[i] /\ i \in 1 .. n
  <2>1. \A i \in 1 .. k : i \in 1 .. k - 1 + 1 /\ 1 + i - 1 = i /\ i \in 1 .. n
    OBVIOUS
  <2>2. QED BY <1>2, <2>1
<1>6. Log(k, products, opening)
  BY <1>4, <1>5 DEF Log
<1>7. QED BY <1>5, <1>6 DEF opening

\* On the way it passes the states after the beginnings of the log.
LEMMA StatesOnTheWay ==
  ASSUME NEW n \in Nat, NEW products, NEW events, Log(n, products, events)
  PROVE  \E w : /\ StateWalk(w, n, products, events)
                /\ \A k \in 0 .. n : w[k] = StateAfter(SubSeq(events, 1, k))
<1>1. PICK w : StateWalk(w, n, products, events)
  BY StateIsWalked
<1>2. ASSUME NEW k \in 0 .. n PROVE w[k] = StateAfter(SubSeq(events, 1, k))
  <2> DEFINE opening == SubSeq(events, 1, k)
  <2>1. Log(k, products, opening) /\ \A i \in 1 .. k : opening[i] = events[i]
    BY Opening
  <2> HIDE DEF opening
  <2>2. k \in Nat
    OBVIOUS
  <2>3. PICK v : StateWalk(v, k, products, opening) /\ v[k] = StateAfter(opening)
    BY <2>1, <2>2, StateIsWalked
  <2>4. v[0] = w[0] /\ \A i \in 1 .. k : v[i - 1] = w[i - 1] => v[i] = w[i]
    <3>1. v[0] = NewSession /\ w[0] = NewSession
      BY <1>1, <2>3 DEF StateWalk
    <3>2. \A i \in 1 .. k : i \in 1 .. n
      OBVIOUS
    <3>3. \A i \in 1 .. k : v[i] = Update(v[i - 1], events[i]) /\ w[i] = Update(w[i - 1], events[i])
      BY <1>1, <2>1, <2>3, <3>2 DEF StateWalk
    <3>4. QED BY <3>1, <3>3
  <2>5. \A i \in 0 .. k : v[i] = w[i]
    BY <2>2, <2>4, WalksTogether
  <2>6. v[k] = w[k]
    BY <2>2, <2>5
  <2>7. QED BY <2>3, <2>6 DEF opening
<1>3. QED BY <1>1, <1>2
-----------------------------------------------------------------------------
(* Labels. *)

\* An example awaiting its label, and one that has it.
Example(index, state) == [index |-> index, state |-> state]
Labelled(index, state, abandoned) ==
  [index |-> index, state |-> state, abandoned |-> abandoned]

Sold(index, state) == Labelled(index, state, FALSE)
Left(index, state) == Labelled(index, state, TRUE)

Turned(pending, abandoned) == {Labelled(x.index, x.state, abandoned) : x \in pending}
Sells(pending) == {Sold(x.index, x.state) : x \in pending}
Leaves(pending) == {Left(x.index, x.state) : x \in pending}

\* A label turns the pending examples into sold or left ones.
LEMMA TurnedIs ==
  ASSUME NEW pending
  PROVE  Turned(pending, ~TRUE) = Sells(pending) /\ Turned(pending, ~FALSE) = Leaves(pending)
<1>1. (~TRUE) = FALSE /\ (~FALSE) = TRUE
  OBVIOUS
<1>2. Turned(pending, FALSE) = Sells(pending)
  BY Zenon DEF Turned, Sells, Sold
<1>3. Turned(pending, TRUE) = Leaves(pending)
  BY Zenon DEF Turned, Leaves, Left
<1>4. QED BY Zenon, <1>1, <1>2, <1>3

Passes(products) ==
  [out : SUBSET [index : Nat, state : States(products), abandoned : BOOLEAN],
   pending : SUBSET [index : Nat, state : States(products)],
   state : States(products), index : Nat]

NewPass == [out |-> {}, pending |-> {}, state |-> NewSession, index |-> 0]

\* Closing gives every pending example its label.
LEMMA CloseIs ==
  ASSUME NEW products, NEW pass \in Passes(products), NEW converted \in BOOLEAN
  PROVE  /\ Close(pass, converted) \in Passes(products)
         /\ Close(pass, converted).pending = {}
         /\ Close(pass, converted).out =
              pass.out \cup Turned(pass.pending, ~converted)
         /\ Close(pass, converted).state = pass.state
         /\ Close(pass, converted).index = pass.index
<1> DEFINE done == {Labelled(x.index, x.state, ~converted) : x \in pass.pending}
           out == pass.out \cup done
           E == [index : Nat, state : States(products), abandoned : BOOLEAN]
<1>1. Close(pass, converted) = [pass EXCEPT !.out = out, !.pending = {}]
  BY DEF Close, Labelled
<1>2. /\ pass.out \in SUBSET E /\ pass.pending \in SUBSET [index : Nat, state : States(products)]
      /\ pass.state \in States(products) /\ pass.index \in Nat
      /\ DOMAIN pass = {"out", "pending", "state", "index"}
      /\ pass = [f \in DOMAIN pass |-> pass[f]]
  BY DEF Passes
<1>3. done \in SUBSET E
  <2>1. ASSUME NEW x \in pass.pending PROVE Labelled(x.index, x.state, ~converted) \in E
    <3>1. x.index \in Nat /\ x.state \in States(products)
      BY <1>2
    <3>2. (~converted) \in BOOLEAN
      OBVIOUS
    <3> DEFINE c0 == ~converted
    <3> HIDE DEF c0
    <3>3. c0 \in BOOLEAN
      BY <3>2 DEF c0
    <3>4. Labelled(x.index, x.state, c0) \in E
      BY <3>1, <3>3 DEF Labelled
    <3>5. QED BY <3>4 DEF c0
  <2> HIDE DEF E
  <2>2. QED BY <2>1
<1>4. out \in SUBSET E
  BY <1>2, <1>3
<1> HIDE DEF out, E
<1>5. Close(pass, converted) =
        [out |-> out, pending |-> {}, state |-> pass.state, index |-> pass.index]
  BY <1>1, <1>2
<1>6. {} \in SUBSET [index : Nat, state : States(products)]
  OBVIOUS
<1>7. Close(pass, converted) \in Passes(products)
  BY <1>2, <1>4, <1>5, <1>6 DEF Passes, E
<1>8. QED BY <1>5, <1>7 DEF out, Turned

\* What one event of the pass does: a purchase labels what is pending, any other
\* event that leaves the cart filled is one more to label.
Examines(pass, e, next) ==
  /\ next.state = Update(pass.state, e) /\ next.index = pass.index + 1
  /\ e.type = "purchase" =>
       next.pending = {} /\ next.out = pass.out \cup Sells(pass.pending)
  /\ e.type # "purchase" =>
       /\ next.out = pass.out
       /\ next.pending = pass.pending \cup
            (IF Update(pass.state, e).cycle > 0
             THEN {Example(pass.index, Update(pass.state, e))} ELSE {})

\* What one event does to the pass over a session.
LEMMA ExamineIs ==
  ASSUME NEW products, NEW pass \in Passes(products), NEW e, IsEvent(products, e)
  PROVE  /\ ExamineEvent(pass, e) \in Passes(products)
         /\ Examines(pass, e, ExamineEvent(pass, e))
<1> DEFINE state == Update(pass.state, e)
           seen == [out |-> pass.out, pending |-> pass.pending, state |-> state,
                    index |-> pass.index + 1]
           more == [out |-> pass.out, pending |-> pass.pending \cup {Example(pass.index, state)},
                    state |-> state, index |-> pass.index + 1]
           E == [index : Nat, state : States(products), abandoned : BOOLEAN]
           W == [index : Nat, state : States(products)]
<1>1. /\ pass.out \in SUBSET E /\ pass.pending \in SUBSET W
      /\ pass.state \in States(products) /\ pass.index \in Nat
      /\ pass = [out |-> pass.out, pending |-> pass.pending, state |-> pass.state,
                 index |-> pass.index]
  BY DEF Passes
<1>2. state \in States(products) /\ state.cycle \in Nat
  <2>1. state \in States(products)
    BY <1>1, UpdateIs
  <2>2. QED BY <2>1 DEF States
<1>3. ExamineEvent(pass, e) =
        CASE e.type = "purchase" -> Close([pass EXCEPT !.state = state, !.index = @ + 1], TRUE)
          [] e.type # "purchase" /\ HasOpenCart(state) ->
               [[pass EXCEPT !.state = state, !.index = @ + 1] EXCEPT
                  !.pending = @ \cup {Example(pass.index, state)}]
          [] OTHER -> [pass EXCEPT !.state = state, !.index = @ + 1]
  BY DEF ExamineEvent, Example
<1> HIDE DEF state
<1>4. [pass EXCEPT !.state = state, !.index = @ + 1] = seen
  <2> DEFINE next == pass.index + 1
  <2>1. seen = [out |-> pass.out, pending |-> pass.pending, state |-> state, index |-> next]
    OBVIOUS
  <2>2. DOMAIN pass = {"out", "pending", "state", "index"}
    BY <1>1
  <2> HIDE DEF next, seen
  <2>3. ASSUME NEW r, r = [pass EXCEPT !.state = state, !.index = next]
        PROVE  /\ r = [f \in DOMAIN r |-> r[f]]
               /\ DOMAIN r = {"out", "pending", "state", "index"}
               /\ r.out = pass.out /\ r.pending = pass.pending
               /\ r.state = state /\ r.index = next
    BY <2>2, <2>3
  <2>4. ASSUME NEW r, r = [f \in DOMAIN r |-> r[f]],
               DOMAIN r = {"out", "pending", "state", "index"},
               r.out = pass.out, r.pending = pass.pending, r.state = state, r.index = next
        PROVE  r = seen
    BY <2>1, <2>4
  <2>5. [pass EXCEPT !.state = state, !.index = next] = seen
    BY <2>3, <2>4
  <2>6. QED BY <2>5 DEF next
<1>5. [[pass EXCEPT !.state = state, !.index = @ + 1] EXCEPT
         !.pending = @ \cup {Example(pass.index, state)}] = more
  <2>1. [seen EXCEPT !.pending = @ \cup {Example(pass.index, state)}] = more
    OBVIOUS
  <2>2. QED BY <1>4, <2>1
<1>6. Example(pass.index, state) \in W
  BY <1>1, <1>2 DEF Example
<1>7. seen \in Passes(products) /\ more \in Passes(products)
  BY <1>1, <1>2, <1>6 DEF Passes
<1>8. CASE e.type = "purchase"
  <2>1. ExamineEvent(pass, e) = Close(seen, TRUE)
    BY <1>3, <1>4, <1>8
  <2>2. seen.out = pass.out /\ seen.pending = pass.pending /\ seen.state = state
        /\ seen.index = pass.index + 1
    OBVIOUS
  <2>3. /\ Close(seen, TRUE) \in Passes(products)
        /\ Close(seen, TRUE).pending = {}
        /\ Close(seen, TRUE).out =
             seen.out \cup Turned(seen.pending, ~TRUE)
        /\ Close(seen, TRUE).state = seen.state
        /\ Close(seen, TRUE).index = seen.index
    <3> HIDE DEF seen
    <3>1. QED BY <1>7, CloseIs
  <2>4. Turned(seen.pending, ~TRUE) = Sells(seen.pending)
    BY TurnedIs
  <2> HIDE DEF seen
  <2>5. QED BY <1>8, <2>1, <2>2, <2>3, <2>4 DEF state, Examines
<1>9. CASE e.type # "purchase" /\ state.cycle > 0
  <2>1. ExamineEvent(pass, e) = more
    BY <1>3, <1>5, <1>9 DEF HasOpenCart
  <2>2. more.out = pass.out /\ more.pending = pass.pending \cup {Example(pass.index, state)}
        /\ more.state = state /\ more.index = pass.index + 1
    OBVIOUS
  <2> HIDE DEF more
  <2>3. QED BY <1>7, <1>9, <2>1, <2>2 DEF state, Examines
<1>10. CASE e.type # "purchase" /\ ~(state.cycle > 0)
  <2>1. ExamineEvent(pass, e) = seen
    BY <1>3, <1>4, <1>10 DEF HasOpenCart
  <2>2. seen.out = pass.out /\ seen.pending = pass.pending \cup {}
        /\ seen.state = state /\ seen.index = pass.index + 1
    OBVIOUS
  <2> HIDE DEF seen
  <2>3. QED BY <1>7, <1>10, <2>1, <2>2 DEF state, Examines
<1>11. QED BY <1>8, <1>9, <1>10

PassWalk(u, n, products, events) ==
  /\ u \in [0 .. n -> Passes(products)]
  /\ u[0] = NewPass
  /\ \A k \in 1 .. n : u[k] = ExamineEvent(u[k - 1], events[k])

\* The pass over a session, event by event.
LEMMA PassIsWalked ==
  ASSUME NEW n \in Nat, NEW products, NEW events, Log(n, products, events)
  PROVE  \E u : PassWalk(u, n, products, events) /\ u[n] = FoldLeft(ExamineEvent, NewPass, events)
<1> DEFINE X == Passes(products)
           step == [i \in 1 .. n |-> [x \in X |-> ExamineEvent(x, events[i])]]
           Iter == CHOOSE iter : iter = [s \in SUBSET DOMAIN events |->
             IF s = {} THEN NewPass ELSE ExamineEvent(iter[s \ {Max(s)}], events[Max(s)])]
<1>0. DOMAIN events = 1 .. n /\ \A i \in 1 .. n : IsEvent(products, events[i])
  BY DEF Log
<1>1. NewPass \in X /\ step \in [1 .. n -> [X -> X]]
  <2>1. \A i \in 1 .. n : \A x \in X : ExamineEvent(x, events[i]) \in X
    BY <1>0, ExamineIs
  <2>2. NewPass \in X
    <3>1. {} \in SUBSET [index : Nat, state : States(products), abandoned : BOOLEAN]
      OBVIOUS
    <3>2. {} \in SUBSET [index : Nat, state : States(products)]
      OBVIOUS
    <3>3. QED BY <3>1, <3>2, NewIs DEF NewPass, Passes
  <2> HIDE DEF X
  <2>3. step \in [1 .. n -> [X -> X]]
    BY <2>1
  <2>4. QED BY <2>2, <2>3
<1> HIDE DEF step, X
<1>2. PICK g \in [SUBSET (1 .. n) -> X] : Unwinds(g, NewPass, step, n)
  BY <1>1, FoldSolved
<1>3. g = [s \in SUBSET DOMAIN events |->
             IF s = {} THEN NewPass ELSE ExamineEvent(g[s \ {Max(s)}], events[Max(s)])]
  BY <1>0, <1>2 DEF Unwinds, step
<1>4. Iter = [s \in SUBSET DOMAIN events |->
             IF s = {} THEN NewPass ELSE ExamineEvent(Iter[s \ {Max(s)}], events[Max(s)])]
  BY <1>3
<1>5. FoldLeft(ExamineEvent, NewPass, events) = Iter[DOMAIN events]
  BY Zenon DEF FoldLeft, MapThenFoldSet
<1> HIDE DEF Iter
<1>6. UnwindsIn(X, Iter, NewPass, step, n)
  BY <1>0, <1>2, <1>4 DEF step, Unwinds, UnwindsIn
<1>7. WalksTo(X, Iter[1 .. n], NewPass, step, n)
  BY <1>1, <1>6, FoldWalk
<1>8. PICK u \in [0 .. n -> X] : IsWalk(u, NewPass, step, n) /\ u[n] = Iter[1 .. n]
  BY <1>7 DEF WalksTo
<1>9. \A k \in 1 .. n : u[k] = ExamineEvent(u[k - 1], events[k])
  <2>1. \A k \in 1 .. n : u[k - 1] \in X
    BY <1>8
  <2>2. QED BY <1>8, <2>1 DEF step, IsWalk
<1>10. PassWalk(u, n, products, events)
  BY <1>8, <1>9 DEF PassWalk, IsWalk, X
<1>11. QED BY <1>0, <1>5, <1>8, <1>10

\* The purchases up to an event, the adds since the last of them, and the events
\* that leave something in a cart filled since.
Bought(own, i) == {j \in DOMAIN own : own[j].type = "purchase" /\ j <= i}
Filled(own, i) ==
  {j \in 1 .. i : /\ own[j].type = "add_to_cart" /\ own[j].product # NoProduct
                  /\ \A b \in Bought(own, i) : b < j}
Moments(own) == {i \in DOMAIN own : own[i].type # "purchase" /\ Filled(own, i) # {}}

\* The moments up to one, those with and those without a purchase since.
Settled(own, k) == {i \in Moments(own) : i <= k /\ Bought(own, i) # Bought(own, k)}
Awaiting(own, k) == {i \in Moments(own) : i <= k /\ Bought(own, i) = Bought(own, k)}

\* An event that is no purchase changes nothing but what it adds itself.
LEMMA NoPurchase ==
  ASSUME NEW n \in Nat, NEW own, DOMAIN own = 1 .. n, NEW k \in 1 .. n, own[k].type # "purchase"
  PROVE  /\ Bought(own, k) = Bought(own, k - 1)
         /\ Filled(own, k) = Filled(own, k - 1) \cup
              (IF own[k].type = "add_to_cart" /\ own[k].product # NoProduct THEN {k} ELSE {})
         /\ Settled(own, k) = Settled(own, k - 1)
         /\ Awaiting(own, k) = Awaiting(own, k - 1) \cup (IF Filled(own, k) # {} THEN {k} ELSE {})
<1>1. \A j \in 1 .. n : (j <= k <=> j <= k - 1 \/ j = k) /\ (j \in 1 .. k <=> j \in 1 .. k - 1 \/ j = k)
  OBVIOUS
<1>2. Bought(own, k) = Bought(own, k - 1)
  BY <1>1 DEF Bought
<1>3. \A b \in Bought(own, k) : b < k
  <2>1. \A b \in Bought(own, k) : b \in 1 .. n /\ b <= k /\ own[b].type = "purchase"
    BY DEF Bought
  <2>2. QED BY <2>1
<1>4. Filled(own, k) = Filled(own, k - 1) \cup
        (IF own[k].type = "add_to_cart" /\ own[k].product # NoProduct THEN {k} ELSE {})
  <2>1. \A j : j \in 1 .. k <=> j \in 1 .. k - 1 \/ j = k
    OBVIOUS
  <2>2. \A j : j \in Filled(own, k) <=>
               /\ j \in 1 .. k /\ own[j].type = "add_to_cart" /\ own[j].product # NoProduct
               /\ \A b \in Bought(own, k) : b < j
    BY DEF Filled
  <2>3. \A j : j \in Filled(own, k - 1) <=>
               /\ j \in 1 .. k - 1 /\ own[j].type = "add_to_cart" /\ own[j].product # NoProduct
               /\ \A b \in Bought(own, k) : b < j
    BY <1>2 DEF Filled
  <2>4. QED BY <1>3, <2>1, <2>2, <2>3
<1>5. k \in Moments(own) <=> Filled(own, k) # {}
  BY DEF Moments
<1>6. \A i \in Moments(own) : i \in 1 .. n
  BY DEF Moments
<1>7. Settled(own, k) = Settled(own, k - 1)
  BY <1>1, <1>2, <1>6 DEF Settled
<1>8. Awaiting(own, k) = Awaiting(own, k - 1) \cup (IF Filled(own, k) # {} THEN {k} ELSE {})
  <2>1. \A i : i \in Awaiting(own, k) <=>
               i \in Moments(own) /\ (i <= k - 1 \/ i = k) /\ Bought(own, i) = Bought(own, k)
    BY <1>1, <1>6 DEF Awaiting
  <2>2. \A i : i \in Awaiting(own, k - 1) <=>
               i \in Moments(own) /\ i <= k - 1 /\ Bought(own, i) = Bought(own, k)
    BY <1>2 DEF Awaiting
  <2>3. QED BY <1>5, <2>1, <2>2
<1>9. QED BY <1>2, <1>4, <1>7, <1>8

\* A purchase settles what awaits its label and empties the cart.
LEMMA APurchase ==
  ASSUME NEW n \in Nat, NEW own, DOMAIN own = 1 .. n, NEW k \in 1 .. n, own[k].type = "purchase"
  PROVE  /\ Filled(own, k) = {} /\ Awaiting(own, k) = {}
         /\ Settled(own, k) = Settled(own, k - 1) \cup Awaiting(own, k - 1)
<1>1. \A j \in 1 .. n : (j <= k <=> j <= k - 1 \/ j = k)
  OBVIOUS
<1>2. k \in Bought(own, k)
  BY DEF Bought
<1>3. Filled(own, k) = {}
  <2>1. \A j \in 1 .. k : ~(k < j)
    OBVIOUS
  <2>2. QED BY <1>2, <2>1 DEF Filled
<1>4. \A i \in Moments(own) : i \in 1 .. n /\ i # k
  BY DEF Moments
<1>5. \A i \in 1 .. n : i <= k - 1 => Bought(own, i) # Bought(own, k)
  <2>1. \A i \in 1 .. n : i <= k - 1 => ~(k <= i)
    OBVIOUS
  <2>2. \A i : k \in Bought(own, i) => k <= i
    BY DEF Bought
  <2>3. QED BY <1>2, <2>1, <2>2
<1>6. \A i \in Moments(own) : i <= k => i <= k - 1
  BY <1>1, <1>4
<1>7. \A i \in Moments(own) : i <= k - 1 => i <= k
  BY <1>1, <1>4
<1>8. Awaiting(own, k) = {}
  BY <1>4, <1>5, <1>6 DEF Awaiting
<1>9. Settled(own, k) = Settled(own, k - 1) \cup Awaiting(own, k - 1)
  BY <1>4, <1>5, <1>6, <1>7 DEF Settled, Awaiting
<1>10. QED BY <1>3, <1>8, <1>9

\* The examples of some moments, before and after they got a label.
Open(w, at) == {Example(i - 1, w[i]) : i \in at}
GivenSold(w, at) == {Sold(i - 1, w[i]) : i \in at}
GivenLeft(w, at) == {Left(i - 1, w[i]) : i \in at}

\* Pending examples, moment by moment.
LEMMA OpenIs ==
  ASSUME NEW w, NEW at, NEW more
  PROVE  /\ Open(w, at \cup more) = Open(w, at) \cup Open(w, more)
         /\ Open(w, {}) = {}
         /\ \A i : Open(w, {i}) = {Example(i - 1, w[i])}
BY DEF Open

\* Labelled examples, moment by moment.
LEMMA GivenIs ==
  ASSUME NEW w, NEW at, NEW more
  PROVE  /\ Sells(Open(w, at)) = GivenSold(w, at)
         /\ Leaves(Open(w, at)) = GivenLeft(w, at)
         /\ GivenSold(w, at \cup more) = GivenSold(w, at) \cup GivenSold(w, more)
         /\ GivenSold(w, {}) = {}
<1>1. \A i : Example(i - 1, w[i]).index = i - 1 /\ Example(i - 1, w[i]).state = w[i]
  BY DEF Example
<1>2. \A y : y \in Open(w, at) <=> \E i \in at : y = Example(i - 1, w[i])
  BY DEF Open
<1>3. Sells(Open(w, at)) = GivenSold(w, at)
  BY <1>1, <1>2 DEF Sells, GivenSold
<1>4. Leaves(Open(w, at)) = GivenLeft(w, at)
  BY <1>1, <1>2 DEF Leaves, GivenLeft
<1>5. QED BY <1>3, <1>4 DEF GivenSold

\* How far the pass has come after k events.
Passed(u, w, own, k) ==
  /\ u[k].index = k /\ u[k].state = w[k]
  /\ w[k].cycle > 0 <=> Filled(own, k) # {}
  /\ u[k].pending = Open(w, Awaiting(own, k))
  /\ u[k].out = GivenSold(w, Settled(own, k))

\* Preceding the first event nothing is pending and nothing labelled.
LEMMA PassedInit ==
  ASSUME NEW n \in Nat, NEW products, NEW own, Log(n, products, own), NEW u, NEW w,
         PassWalk(u, n, products, own), StateWalk(w, n, products, own)
  PROVE  Passed(u, w, own, 0)
<1>1. Filled(own, 0) = {}
  BY DEF Filled
<1>2. \A i \in Moments(own) : ~(i <= 0)
  <2>1. \A i \in Moments(own) : i \in 1 .. n
    BY DEF Moments, Log
  <2>2. QED BY <2>1
<1>3. Awaiting(own, 0) = {} /\ Settled(own, 0) = {}
  BY <1>2 DEF Awaiting, Settled
<1>4. u[0] = NewPass /\ w[0] = NewSession /\ w[0].cycle = 0
  BY NewIs DEF PassWalk, StateWalk
<1>5. u[0].index = 0 /\ u[0].state = w[0] /\ u[0].pending = {} /\ u[0].out = {}
  BY <1>4 DEF NewPass
<1>6. u[0].pending = Open(w, Awaiting(own, 0)) /\ u[0].out = GivenSold(w, Settled(own, 0))
  BY <1>3, <1>5, OpenIs, GivenIs
<1>7. (w[0].cycle > 0) <=> (Filled(own, 0) # {})
  BY <1>1, <1>4
<1>8. QED BY <1>5, <1>6, <1>7 DEF Passed

\* An event settles what awaits it, and opens one example at most.
LEMMA PassedStep ==
  ASSUME NEW n \in Nat, NEW products, NEW own, Log(n, products, own), NEW u, NEW w,
         PassWalk(u, n, products, own), StateWalk(w, n, products, own),
         NEW k \in 1 .. n, Passed(u, w, own, k - 1)
  PROVE  Passed(u, w, own, k)
<1> DEFINE e == own[k]
           before == u[k - 1]
           after == u[k]
<1>1. /\ DOMAIN own = 1 .. n /\ IsEvent(products, e)
      /\ before \in Passes(products) /\ after = ExamineEvent(before, e)
      /\ w[k - 1] \in States(products) /\ w[k] = Update(w[k - 1], e)
  BY DEF Log, PassWalk, StateWalk
<1>2. /\ before.index = k - 1 /\ before.state = w[k - 1]
      /\ w[k - 1].cycle > 0 <=> Filled(own, k - 1) # {}
      /\ before.pending = Open(w, Awaiting(own, k - 1))
      /\ before.out = GivenSold(w, Settled(own, k - 1))
  BY DEF Passed
<1> HIDE DEF before, after
<1>0. Examines(before, e, after) /\ Update(before.state, e) = w[k]
  <2>1. Examines(before, e, ExamineEvent(before, e))
    BY <1>1, ExamineIs
  <2>2. QED BY <1>1, <1>2, <2>1
<1>3. after.index = k /\ after.state = w[k]
  <2>1. after.state = Update(before.state, e) /\ after.index = before.index + 1
    BY <1>0 DEF Examines
  <2>2. QED BY <1>0, <1>2, <2>1
<1>4. w[k].cycle = CycleAfter(w[k - 1], e) /\ w[k - 1].cycle \in Nat
  <2>1. w[k].cycle = CycleAfter(w[k - 1], e)
    BY <1>1, UpdateIs
  <2>2. w[k - 1].cycle \in Nat
    BY <1>1 DEF States
  <2>3. QED BY <2>1, <2>2
<1>5. CASE e.type = "purchase"
  <2>1. /\ Filled(own, k) = {} /\ Awaiting(own, k) = {}
        /\ Settled(own, k) = Settled(own, k - 1) \cup Awaiting(own, k - 1)
    BY <1>1, <1>5, APurchase
  <2>2. w[k].cycle = 0
    BY <1>4, <1>5 DEF CycleAfter
  <2>3. after.pending = {} /\ after.out = before.out \cup Sells(before.pending)
    BY <1>0, <1>5 DEF Examines
  <2>4. Sells(before.pending) = GivenSold(w, Awaiting(own, k - 1))
    <3>1. Sells(Open(w, Awaiting(own, k - 1))) = GivenSold(w, Awaiting(own, k - 1))
      BY GivenIs
    <3>2. QED BY <1>2, <3>1
  <2>5. after.out = GivenSold(w, Settled(own, k))
    <3>1. GivenSold(w, Settled(own, k - 1) \cup Awaiting(own, k - 1)) =
            GivenSold(w, Settled(own, k - 1)) \cup GivenSold(w, Awaiting(own, k - 1))
      BY DEF GivenSold
    <3>2. QED BY <1>2, <2>1, <2>3, <2>4, <3>1
  <2>6. after.pending = Open(w, Awaiting(own, k))
    BY <2>1, <2>3, OpenIs, GivenIs
  <2>7. w[k].cycle > 0 <=> Filled(own, k) # {}
    BY <2>1, <2>2
  <2>8. QED BY <1>3, <2>5, <2>6, <2>7 DEF Passed, after
<1>6. CASE e.type # "purchase"
  <2>1. /\ Filled(own, k) = Filled(own, k - 1) \cup
             (IF e.type = "add_to_cart" /\ e.product # NoProduct THEN {k} ELSE {})
        /\ Settled(own, k) = Settled(own, k - 1)
        /\ Awaiting(own, k) = Awaiting(own, k - 1) \cup (IF Filled(own, k) # {} THEN {k} ELSE {})
    BY <1>1, <1>6, NoPurchase
  <2>2. w[k].cycle = IF e.type = "add_to_cart" /\ e.product # NoProduct
                     THEN w[k - 1].cycle + 1 ELSE w[k - 1].cycle
    BY <1>4, <1>6 DEF CycleAfter
  <2>3. w[k].cycle > 0 <=> Filled(own, k) # {}
    BY <1>2, <1>4, <2>1, <2>2
  <2>4. /\ after.out = before.out
        /\ after.pending = before.pending \cup
             (IF w[k].cycle > 0 THEN {Example(k - 1, w[k])} ELSE {})
    <3>1. before.index = k - 1
      BY <1>2
    <3>2. QED BY <1>0, <1>6, <3>1 DEF Examines
  <2>5. after.pending = Open(w, Awaiting(own, k))
    <3>1. Filled(own, k) # {} => after.pending = Open(w, Awaiting(own, k - 1)) \cup Open(w, {k})
      BY <1>2, <2>3, <2>4, OpenIs, GivenIs
    <3>2. Filled(own, k) = {} => after.pending = Open(w, Awaiting(own, k - 1)) \cup {}
      BY <1>2, <2>3, <2>4
    <3>3. Open(w, Awaiting(own, k - 1) \cup {k}) = Open(w, Awaiting(own, k - 1)) \cup Open(w, {k})
      BY OpenIs
    <3>4. QED BY <2>1, <3>1, <3>2, <3>3
  <2>6. after.out = GivenSold(w, Settled(own, k))
    BY <1>2, <2>1, <2>4
  <2>7. QED BY <1>3, <2>3, <2>5, <2>6 DEF Passed, after
<1>7. QED BY <1>5, <1>6

\* The examples of a session are its moments, labelled by what follows them.
LEMMA ExamplesAre ==
  ASSUME NEW n \in Nat, NEW products, NEW own, Log(n, products, own)
  PROVE  ExamplesOf(own) =
           {Labelled(i - 1, StateAfter(SubSeq(own, 1, i)), Bought(own, n) = Bought(own, i)) :
              i \in Moments(own)}
<1>1. PICK w : StateWalk(w, n, products, own) /\ \A k \in 0 .. n : w[k] = StateAfter(SubSeq(own, 1, k))
  BY StatesOnTheWay
<1>2. PICK u : PassWalk(u, n, products, own) /\ u[n] = FoldLeft(ExamineEvent, NewPass, own)
  BY PassIsWalked
<1>3. Passed(u, w, own, n)
  <2> DEFINE S == {k \in 0 .. n : Passed(u, w, own, k)}
  <2>1. 0 \in S
    BY <1>1, <1>2, PassedInit
  <2>2. ASSUME NEW k \in 0 .. n - 1, k \in S PROVE k + 1 \in S
    <3>1. k + 1 \in 1 .. n /\ (k + 1) - 1 = k /\ k + 1 \in 0 .. n
      OBVIOUS
    <3>2. Passed(u, w, own, (k + 1) - 1)
      BY <2>2, <3>1
    <3>3. Passed(u, w, own, k + 1)
      BY <1>1, <1>2, <3>1, <3>2, PassedStep
    <3>4. QED BY <3>1, <3>3
  <2>3. n \in 0 .. n
    OBVIOUS
  <2>4. n \in S
    <3> HIDE DEF S
    <3>1. \A k \in 0 .. n : k \in S
      BY <2>1, <2>2, UpTo
    <3>2. QED BY <2>3, <3>1
  <2>5. QED BY <2>4
<1>4. Moments(own) \in SUBSET (1 .. n)
  BY DEF Moments, Log
<1> DEFINE end == u[n]
           labelled(i) == Labelled(i - 1, w[i], Bought(own, n) = Bought(own, i))
<1>5. /\ end.pending = Open(w, Awaiting(own, n))
      /\ end.out = GivenSold(w, Settled(own, n))
  BY <1>3 DEF Passed
<1>6. end \in Passes(products)
  BY <1>2 DEF PassWalk
<1> HIDE DEF end
<1>7. Close(end, FALSE).out = {labelled(i) : i \in Moments(own)}
  <2>1. Close(end, FALSE).out = end.out \cup Turned(end.pending, ~FALSE)
    BY <1>6, CloseIs
  <2>2. Turned(end.pending, ~FALSE) = GivenLeft(w, Awaiting(own, n))
    <3>1. Leaves(Open(w, Awaiting(own, n))) = GivenLeft(w, Awaiting(own, n))
      BY GivenIs
    <3>2. Turned(end.pending, ~FALSE) = Leaves(end.pending)
      BY TurnedIs
    <3>3. QED BY <1>5, <3>1, <3>2
  <2>3. \A i \in Moments(own) : i <= n
    BY <1>4
  <2>4. \A i \in Awaiting(own, n) : i \in Moments(own) /\ labelled(i) = Labelled(i - 1, w[i], TRUE)
    <3>1. \A i \in Awaiting(own, n) : i \in Moments(own) /\ Bought(own, n) = Bought(own, i)
      BY DEF Awaiting
    <3>2. QED BY <3>1
  <2>5. \A i \in Settled(own, n) : i \in Moments(own) /\ labelled(i) = Labelled(i - 1, w[i], FALSE)
    <3>1. \A i \in Settled(own, n) :
            i \in Moments(own) /\ (Bought(own, n) = Bought(own, i)) = FALSE
      BY DEF Settled
    <3>2. QED BY <3>1
  <2>6. \A i \in Moments(own) : i \in Awaiting(own, n) \/ i \in Settled(own, n)
    BY <2>3 DEF Awaiting, Settled
  <2> HIDE DEF labelled
  <2>7. QED BY <1>5, <2>1, <2>2, <2>4, <2>5, <2>6 DEF GivenSold, GivenLeft, Sold, Left
<1>8. ASSUME NEW i \in Moments(own)
      PROVE  labelled(i) = Labelled(i - 1, StateAfter(SubSeq(own, 1, i)), Bought(own, n) = Bought(own, i))
  <2>1. i \in 0 .. n
    BY <1>4
  <2>2. w[i] = StateAfter(SubSeq(own, 1, i))
    BY <1>1, <2>1
  <2>3. QED BY <2>2
<1>9. (\A i \in DOMAIN own : own[i].type # "add_to_cart") => Moments(own) = {}
  <2>1. \A i \in DOMAIN own : \A j \in 1 .. i : j \in DOMAIN own
    BY DEF Log
  <2>2. QED BY <2>1 DEF Moments, Filled
<1>10. ExamplesOf(own) = IF \A i \in DOMAIN own : own[i].type # "add_to_cart" THEN {}
                         ELSE Close(end, FALSE).out
  BY <1>2 DEF ExamplesOf, NewPass, end
<1> HIDE DEF labelled
<1>11. ExamplesOf(own) = {labelled(i) : i \in Moments(own)}
  BY <1>7, <1>9, <1>10
<1>12. QED BY <1>8, <1>11

\* The training data of a log.
LEMMA LabelsAreRight ==
  ASSUME NEW n \in Nat, NEW products, NEW events, Log(n, products, events)
  PROVE  LabelsLookAhead(events)
<1>1. SUFFICES ASSUME NEW s \in SessionsIn(events)
               PROVE  LET own == InTimeOrder(EventsOf(s, events)) IN
                      {x \in Dataset(events) : x.session = s} =
                        {[session |-> s, start |-> own[1].ts, index |-> i - 1,
                          state |-> StateAfter(SubSeq(own, 1, i)),
                          abandoned |-> Bought(own, Len(own)) = Bought(own, i)] : i \in Moments(own)}
  BY DEF LabelsLookAhead, Bought, Filled, Moments
<1> DEFINE own == InTimeOrder(EventsOf(s, events))
           row(x) == [session |-> s, start |-> own[1].ts, index |-> x.index,
                      state |-> x.state, abandoned |-> x.abandoned]
           example(i) == Labelled(i - 1, StateAfter(SubSeq(own, 1, i)),
                                  Bought(own, Len(own)) = Bought(own, i))
<1>2. PICK m \in Nat : /\ DOMAIN own = 1 .. m /\ own = [k \in 1 .. m |-> own[k]]
                       /\ \A k \in 1 .. m : \E i \in 1 .. n : own[k] = events[i]
  <2>1. DOMAIN events = 1 .. n /\ \A i \in 1 .. n : events[i].ts \in Int
    BY DEF Log, IsEvent
  <2>2. QED BY <2>1, OwnAre
<1>3. {x \in Dataset(events) : x.session = s} = {row(x) : x \in ExamplesOf(own)}
  <2>1. Dataset(events) = UNION {RowsOf(t, EventsOf(t, events)) : t \in SessionsIn(events)}
    BY DatasetIs
  <2>2. \A t, those : \A x \in RowsOf(t, those) : x.session = t
    BY DEF RowsOf
  <2>3. {x \in Dataset(events) : x.session = s} = RowsOf(s, EventsOf(s, events))
    <3>1. \A x : x \in Dataset(events) <=>
                 \E t \in SessionsIn(events) : x \in RowsOf(t, EventsOf(t, events))
      BY <2>1
    <3>2. QED BY <2>2, <3>1
  <2>4. RowsOf(s, EventsOf(s, events)) = {row(x) : x \in ExamplesOf(own)}
    BY DEF RowsOf
  <2>5. QED BY <2>3, <2>4
<1> HIDE DEF own
<1>4. Log(m, products, own)
  BY <1>2 DEF Log
<1>5. Len(own) = m
  <2> DEFINE S == {own[k] : k \in 1 .. m}
  <2>1. own \in [1 .. m -> S]
    BY <1>2
  <2> HIDE DEF S
  <2>2. QED BY <2>1, LenIs
<1>6. ExamplesOf(own) = {example(i) : i \in Moments(own)}
  BY <1>4, <1>5, ExamplesAre
<1>7. \A i : row(example(i)) =
               [session |-> s, start |-> own[1].ts, index |-> i - 1,
                state |-> StateAfter(SubSeq(own, 1, i)),
                abandoned |-> Bought(own, Len(own)) = Bought(own, i)]
  BY DEF Labelled
<1>8. {row(x) : x \in ExamplesOf(own)} = {row(example(i)) : i \in Moments(own)}
  <2> HIDE DEF row, example
  <2>1. QED BY <1>6
<1> DEFINE said(i) == [session |-> s, start |-> own[1].ts, index |-> i - 1,
                       state |-> StateAfter(SubSeq(own, 1, i)),
                       abandoned |-> Bought(own, Len(own)) = Bought(own, i)]
<1>9. {row(example(i)) : i \in Moments(own)} = {said(i) : i \in Moments(own)}
  <2> HIDE DEF row, example
  <2>1. \A i : row(example(i)) = said(i)
    BY <1>7
  <2> HIDE DEF said
  <2>2. QED BY <2>1
<1>10. {x \in Dataset(events) : x.session = s} = {said(i) : i \in Moments(own)}
  <2> HIDE DEF row, example, said
  <2>1. QED BY <1>3, <1>8, <1>9
<1>11. QED BY Zenon, <1>10 DEF own

\* The readable rows of a file make a log.
LEMMA RowsMakeLog ==
  ASSUME NEW n \in Nat, NEW rows, DOMAIN rows = 1 .. n,
         \A i \in 1 .. n : /\ rows[i].ts \in Int \cup {Unreadable}
                           /\ rows[i].price \in Int \cup {NoPrice}
  PROVE  \E m \in Nat : \E products : Log(m, products, IterEvents(rows, NoLimit))
<1> DEFINE ok == {i \in DOMAIN rows : Readable(rows[i])}
           good == Picked(rows, ok)
           m == Cardinality(ok)
           events == IterEvents(rows, NoLimit)
           products == {rows[i].product : i \in 1 .. n}
<1>1. ok \in SUBSET (1 .. n) /\ ok \in SUBSET Int /\ IsFiniteSet(ok)
  BY SomePositions
<1>2. /\ m \in Nat /\ Len(good) = m /\ good = [k \in 1 .. m |-> rows[InOrder(ok)[k]]]
      /\ \A k \in 1 .. m : InOrder(ok)[k] \in ok
  BY <1>1, PickedIs, PickedLen
<1>3. events = [i \in 1 .. m |-> Event(good[i])]
  <2>1. events = [i \in 1 .. (IF Len(good) > Len(good) THEN Len(good) ELSE Len(good)) |->
                    Event(good[i])]
    BY DEF IterEvents
  <2> HIDE DEF ok, good, m, events
  <2>2. QED BY <1>2, <2>1
<1>4. \A i \in ok : i \in 1 .. n /\ Readable(rows[i])
  OBVIOUS
<1> HIDE DEF good, m, events, ok
<1>5. \A i \in ok : IsEvent(products, Event(rows[i]))
  <2> SUFFICES ASSUME NEW i \in ok PROVE IsEvent(products, Event(rows[i]))
    OBVIOUS
  <2>1. i \in 1 .. n /\ rows[i].type \in Types /\ rows[i].ts # Unreadable
    BY <1>4 DEF Readable
  <2>2. rows[i].ts \in Int /\ rows[i].price \in Int \cup {NoPrice} /\ rows[i].product \in products
    BY <2>1
  <2>3. /\ Event(rows[i]).ts = rows[i].ts /\ Event(rows[i]).type = rows[i].type
        /\ Event(rows[i]).product = rows[i].product /\ Event(rows[i]).price = rows[i].price
    BY DEF Event
  <2>4. QED BY <2>1, <2>2, <2>3 DEF IsEvent
<1> HIDE DEF products
<1>6. Log(m, products, events)
  BY <1>2, <1>3, <1>5 DEF Log
<1>7. QED BY <1>2, <1>6 DEF events

\* The training set of a file.
LEMMA TrainingIsSound ==
  ASSUME NEW S, NEW rows \in Seq(S), NEW wanted, NEW scan \in Int,
         \A row \in S : row.ts \in Int \cup {Unreadable} /\ row.price \in Int \cup {NoPrice}
  PROVE  /\ LabelsLookAhead(IterEvents(rows, NoLimit))
         /\ SplitIsClean(Dataset(IterEvents(rows, NoLimit)), 7, 10)
         /\ SliceKeepsLabels(rows, wanted, scan)
<1> DEFINE events == IterEvents(rows, NoLimit)
<1>1. /\ Len(rows) \in Nat /\ DOMAIN rows = 1 .. Len(rows)
      /\ \A i \in 1 .. Len(rows) : rows[i] \in S
  BY LenProperties
<1>2. PICK m, products : m \in Nat /\ Log(m, products, events)
  BY <1>1, RowsMakeLog
<1> HIDE DEF events
<1>3. LabelsLookAhead(events)
  BY <1>2, LabelsAreRight
<1>4. SplitIsClean(Dataset(events), 7, 10)
  <2>1. /\ m \in Nat
        /\ DOMAIN events = 1 .. m /\ \A i \in 1 .. m : events[i].ts \in Int
    BY <1>2 DEF Log, IsEvent
  <2> DEFINE data == Dataset(events)
  <2>2. /\ IsFiniteSet({x.start : x \in data})
        /\ \A x \in data : x.start \in Int
        /\ \A x, y \in data : x.session = y.session => x.start = y.start
    BY <2>1, StartsAre
  <2> HIDE DEF data
  <2>3. SplitIsClean(data, 7, 10)
    BY <2>2, SplitsCleanly
  <2>4. QED BY <2>3 DEF data
<1>5. SliceKeepsLabels(rows, wanted, scan)
  BY SliceKeeps
<1>6. QED BY <1>3, <1>4, <1>5 DEF events
-----------------------------------------------------------------------------
(* Every input of the runs. *)

\* What an input is.
RowsProbe == probe.kind = "rows" => probe.rows \in Seq(RowsFrom) /\ probe.scan \in ScanLimits
PlanProbe ==
  probe.kind = "plan" =>
    /\ probe.mergeFactor \in MergeFactors /\ probe.ceiling \in Ceilings
    /\ \E sizes \in SeqsUpTo(Sizes, MaxSegments) : probe.segments = EndToEnd("p0", sizes)
UnionProbe ==
  probe.kind = "union" =>
    \E m, n \in SeqsUpTo(Sizes, 2) : probe.manifests = <<EndToEnd("p0", m), EndToEnd("p1", n)>>
ModelProbe ==
  probe.kind = "model" =>
    /\ probe.trees \in SeqsUpTo(TreesFrom, MaxTrees)
    /\ probe.rows \in SeqsUpTo([1 .. 2 -> Seen], MaxScored)

Probes == RowsProbe /\ PlanProbe /\ UnionProbe /\ ModelProbe

\* What is up to n long is a sequence.
LEMMA SeqsAre ==
  ASSUME NEW S, NEW n \in Nat
  PROVE  SeqsUpTo(S, n) \in SUBSET Seq(S)
<1>1. \A k \in 0 .. n : k \in Nat /\ [1 .. k -> S] \in SUBSET Seq(S)
  BY SeqDef
<1>2. QED BY <1>1 DEF SeqsUpTo

\* A probe that says it holds an input holds one.
LEMMA ProbesAlways == Spec => []Probes
<1> USE DEF RowsProbe, PlanProbe, UnionProbe, ModelProbe
<1>1. Init => Probes
  BY DEF Init, Probes
<1>2. ASSUME Probes, [Next]_probe PROVE Probes'
  <2>1. CASE ProbeLists
    <3>1. PICK x, y, z : probe' = [kind |-> "lists", a |-> x, b |-> y, freqs |-> z]
      BY Zenon, <2>1 DEF ProbeLists
    <3>2. QED BY <3>1 DEF Probes
  <2>2. CASE ProbeDocuments
    BY <2>2 DEF ProbeDocuments, Probes
  <2>3. CASE ProbePlan
    BY <2>3 DEF ProbePlan, Probes
  <2>4. CASE ProbeUnion
    BY <2>4 DEF ProbeUnion, Probes
  <2>5. CASE ProbeRows
    BY <2>5, SeqsAre, BoundsAssumption DEF ProbeRows, Probes
  <2>6. CASE ProbeModel
    BY <2>6 DEF ProbeModel, Probes
  <2>7. CASE WriteThem
    BY <2>7 DEF WriteThem, Probes
  <2>8. CASE OpenThem
    BY <2>8 DEF OpenThem, Probes
  <2>9. CASE ReadThem
    BY <2>9 DEF ReadThem, Probes
  <2>10. CASE Ask
    BY <2>10 DEF Ask, Probes
  <2>11. CASE UNCHANGED probe
    BY <1>2, <2>11 DEF Probes
  <2>12. QED BY <1>2, <2>1, <2>2, <2>3, <2>4, <2>5, <2>6, <2>7, <2>8, <2>9, <2>10, <2>11 DEF Next
<1>3. QED BY <1>1, <1>2, PTL DEF Spec

\* The training set is what the log says, for every log: labels look ahead to the
\* next purchase and nothing else, states hold what was known at the time, the
\* split tests on sessions that start after all it learned from, and a slice that
\* does not warn of truncation labels its sessions as the whole file does.
THEOREM TrainingDataIsSound == Spec => []TrainingSetIsSound
<1>1. Probes => TrainingSetIsSound
  <2> SUFFICES ASSUME Probes, probe.kind = "rows" PROVE TrainingSetIsSound
    BY DEF TrainingSetIsSound
  <2>1. /\ probe.rows \in Seq(RowsFrom) /\ probe.scan \in Int
        /\ \A row \in RowsFrom :
             row.ts \in Int \cup {Unreadable} /\ row.price \in Int \cup {NoPrice}
    <3>1. probe.rows \in Seq(RowsFrom) /\ probe.scan \in ScanLimits
      BY DEF Probes, RowsProbe
    <3>2. ScanLimits \subseteq Int
      BY RowsAssumption
    <3>3. QED BY <3>1, <3>2, RowsAssumption
  <2>2. /\ LabelsLookAhead(IterEvents(probe.rows, NoLimit))
        /\ SplitIsClean(Dataset(IterEvents(probe.rows, NoLimit)), 7, 10)
        /\ SliceKeepsLabels(probe.rows, probe.wanted, probe.scan)
    BY <2>1, TrainingIsSound
  <2>3. QED BY <2>2 DEF TrainingSetIsSound
<1>2. QED BY <1>1, ProbesAlways, PTL
-----------------------------------------------------------------------------
(* Segments in a line. *)

\* Segments of one directory that follow each other without a gap.
Tiling(segs, d) ==
  /\ IsFiniteSet(segs)
  /\ \A s \in segs : /\ s.dir = d /\ s.first \in Int /\ s.last \in Int /\ s.first <= s.last
                     /\ s.bytes \in Nat
  /\ \A s, t \in segs : s # t => s.last < t.first \/ t.last < s.first
  /\ \A s, t \in segs : s.last < t.first => \E u \in segs : u.first = s.last + 1

InLine(order, n, segs, d) ==
  /\ order \in [1 .. n -> segs]
  /\ \A s \in segs : \E i \in 1 .. n : order[i] = s
  /\ \A i, j \in 1 .. n : i < j => order[i].last < order[j].first
  /\ \A i \in 1 .. n : i + 1 \in 1 .. n => order[i + 1].first = order[i].last + 1
  /\ \A i \in 1 .. n :
       /\ order[i].dir = d /\ order[i].first \in Int /\ order[i].last \in Int
       /\ order[i].first <= order[i].last /\ order[i].bytes \in Nat

\* By offset they stand in a line.
LEMMA ByOffsetIs ==
  ASSUME NEW segs, NEW d, Tiling(segs, d)
  PROVE  \E n \in Nat : InLine(ByOffset(segs), n, segs, d)
<1> DEFINE key == [s \in segs |-> s.first]
           order == ByOffset(segs)
           n == Cardinality(DOMAIN key)
<1>1. /\ \A s \in segs : /\ s.dir = d /\ s.first \in Int /\ s.last \in Int
                         /\ s.first <= s.last /\ s.bytes \in Nat
      /\ \A s, t \in segs : s # t => s.last < t.first \/ t.last < s.first
  BY DEF Tiling
<1>2. IsKey(key)
  <2>1. DOMAIN key = segs /\ \A s \in segs : key[s] = s.first
    OBVIOUS
  <2>2. IsFiniteSet(segs)
    BY DEF Tiling
  <2> HIDE DEF key
  <2>3. \A s, t \in segs : s.first = t.first => s = t
    BY <1>1
  <2>4. QED BY <1>1, <2>1, <2>2, <2>3 DEF IsKey
<1>3. n \in Nat /\ Sorts(order, n, key)
  <2>1. order = Sorted(key)
    BY DEF ByOffset
  <2> HIDE DEF key, order
  <2>2. QED BY <1>2, <2>1, SortedSorts
<1>4. DOMAIN key = segs /\ \A s \in segs : key[s] = s.first
  OBVIOUS
<1> HIDE DEF key, order, n
<1>5. /\ order \in [1 .. n -> segs]
      /\ \A s \in segs : \E i \in 1 .. n : order[i] = s
      /\ \A i \in 1 .. n : order[i] \in segs
  BY <1>3, <1>4 DEF Sorts
<1>6. \A i, j \in 1 .. n : i < j => order[i].first < order[j].first
  BY <1>3, <1>4, <1>5 DEF Sorts
<1>7. ASSUME NEW i \in 1 .. n, NEW j \in 1 .. n, i < j
      PROVE  order[i].last < order[j].first
  <2> DEFINE s == order[i]
             t == order[j]
  <2>1. s \in segs /\ t \in segs /\ s.first < t.first
    BY <1>5, <1>6, <1>7
  <2> HIDE DEF s, t
  <2>2. s # t /\ s.first \in Int /\ t.first \in Int /\ s.last \in Int /\ t.last \in Int
        /\ s.first <= s.last /\ t.first <= t.last
    BY <1>1, <2>1
  <2>3. s.last < t.first \/ t.last < s.first
    BY <1>1, <2>1, <2>2
  <2>4. s.last < t.first
    BY <2>1, <2>2, <2>3
  <2>5. QED BY <2>4 DEF s, t
<1>8. ASSUME NEW i \in 1 .. n, i + 1 \in 1 .. n
      PROVE  order[i + 1].first = order[i].last + 1
  <2>1. i < i + 1 /\ order[i].last < order[i + 1].first
    BY <1>7, <1>8
  <2>2. PICK u \in segs : u.first = order[i].last + 1
    BY <1>5, <1>8, <2>1 DEF Tiling
  <2>3. PICK j \in 1 .. n : order[j] = u
    BY <1>5
  <2>4. /\ order[i].first \in Int /\ order[i].last \in Int /\ order[i].first <= order[i].last
        /\ order[i + 1].first \in Int
    BY <1>1, <1>5, <1>8
  <2>5. ~(j < i) /\ j # i
    <3>1. j < i => order[j].first < order[i].first
      BY <1>6
    <3>2. QED BY <2>2, <2>3, <2>4, <3>1
  <2>6. ~(i + 1 < j)
    <3>1. i + 1 < j => order[i + 1].first < order[j].first
      BY <1>6, <1>8
    <3>2. QED BY <2>1, <2>2, <2>3, <2>4, <3>1
  <2>7. j = i + 1
    BY <1>3, <2>5, <2>6
  <2>8. QED BY <2>2, <2>3, <2>7
<1>9. InLine(order, n, segs, d)
  BY <1>1, <1>5, <1>7, <1>8 DEF InLine
<1>10. QED BY <1>3, <1>9 DEF order
-----------------------------------------------------------------------------
(* How large a run is. *)

BytesWalk(w, n, run) ==
  /\ w \in [0 .. n -> Nat] /\ w[0] = 0 /\ TotalBytes(run) = w[n]
  /\ \A k \in 1 .. n : w[k] = w[k - 1] + run[k].bytes

\* The bytes of a run, segment by segment.
LEMMA BytesWalked ==
  ASSUME NEW n \in Nat, NEW run, DOMAIN run = 1 .. n, \A k \in 1 .. n : run[k].bytes \in Nat
  PROVE  \E w : BytesWalk(w, n, run)
<1> DEFINE step == [i \in 1 .. n |-> [x \in Nat |-> x + run[i].bytes]]
           Iter == CHOOSE iter : iter = [s \in SUBSET DOMAIN run |->
             IF s = {} THEN 0 ELSE iter[s \ {Max(s)}] + run[Max(s)].bytes]
<1>1. 0 \in Nat /\ step \in [1 .. n -> [Nat -> Nat]]
  OBVIOUS
<1> HIDE DEF step
<1>2. PICK g \in [SUBSET (1 .. n) -> Nat] : Unwinds(g, 0, step, n)
  BY <1>1, FoldSolved
<1>3. g = [s \in SUBSET DOMAIN run |->
             IF s = {} THEN 0 ELSE g[s \ {Max(s)}] + run[Max(s)].bytes]
  BY <1>2 DEF Unwinds, step
<1>4. Iter = [s \in SUBSET DOMAIN run |->
             IF s = {} THEN 0 ELSE Iter[s \ {Max(s)}] + run[Max(s)].bytes]
  BY <1>3
<1>5. TotalBytes(run) = Iter[DOMAIN run]
  BY Zenon DEF TotalBytes, FoldLeft, MapThenFoldSet
<1> HIDE DEF Iter
<1>6. UnwindsIn(Nat, Iter, 0, step, n)
  BY <1>2, <1>4 DEF step, Unwinds, UnwindsIn
<1>7. WalksTo(Nat, Iter[1 .. n], 0, step, n)
  BY <1>1, <1>6, FoldWalk
<1>8. PICK w \in [0 .. n -> Nat] : IsWalk(w, 0, step, n) /\ w[n] = Iter[1 .. n]
  BY <1>7 DEF WalksTo
<1>9. w[0] = 0 /\ \A k \in 1 .. n : w[k] = w[k - 1] + run[k].bytes
  <2>1. \A k \in 1 .. n : w[k - 1] \in Nat
    BY <1>8
  <2>2. QED BY <1>8, <2>1 DEF step, IsWalk
<1>10. BytesWalk(w, n, run)
  BY <1>5, <1>8, <1>9 DEF BytesWalk
<1>11. QED BY <1>10

\* A run grows by the size of what joins it.
LEMMA BytesAre ==
  ASSUME NEW S, \A s \in S : s.bytes \in Nat, NEW run \in Seq(S), NEW s \in S
  PROVE  /\ TotalBytes(run) \in Nat
         /\ TotalBytes(Append(run, s)) = TotalBytes(run) + s.bytes
<1> DEFINE n == Len(run)
           more == Append(run, s)
<1>1. /\ n \in Nat /\ DOMAIN run = 1 .. n /\ \A k \in 1 .. n : run[k] \in S
  BY LenProperties
<1>2. /\ DOMAIN more = 1 .. n + 1
      /\ \A k \in 1 .. n : more[k] = run[k]
      /\ more[n + 1] = s
  OBVIOUS
<1> HIDE DEF n, more
<1>3. PICK v : BytesWalk(v, n, run)
  BY <1>1, BytesWalked
<1>4. \A k \in 1 .. n + 1 : more[k].bytes \in Nat
  <2>1. \A k \in 1 .. n + 1 : k \in 1 .. n \/ k = n + 1
    BY <1>1
  <2>2. QED BY <1>1, <1>2, <2>1
<1>5. PICK w : BytesWalk(w, n + 1, more)
  <2>1. n + 1 \in Nat
    BY <1>1
  <2>2. QED BY <1>2, <1>4, <2>1, BytesWalked
<1>6. v[n] = w[n]
  <2>1. \A k \in 1 .. n : v[k - 1] = w[k - 1] => v[k] = w[k]
    <3>1. \A k \in 1 .. n : k \in 1 .. n + 1
      BY <1>1
    <3>2. QED BY <1>2, <1>3, <1>5, <3>1 DEF BytesWalk
  <2>2. \A k \in 0 .. n : v[k] = w[k]
    <3>1. v[0] = w[0]
      BY <1>3, <1>5 DEF BytesWalk
    <3>2. n \in Nat
      BY <1>1
    <3>3. QED BY <2>1, <3>1, <3>2, WalksTogether
  <2>3. QED BY <1>1, <2>2
<1>7. w[n + 1] = w[n] + s.bytes
  <2>1. n + 1 \in 1 .. n + 1 /\ (n + 1) - 1 = n
    BY <1>1
  <2>2. QED BY <1>2, <1>5, <2>1 DEF BytesWalk
<1>8. v[n] \in Nat /\ TotalBytes(run) = v[n] /\ TotalBytes(more) = w[n + 1]
  BY <1>1, <1>3, <1>5 DEF BytesWalk
<1>9. QED BY <1>6, <1>7, <1>8 DEF more
-----------------------------------------------------------------------------
(* The walk that plans. *)

Plans(segs) == [groups : Seq(Seq(segs)), run : Seq(segs)]
NoPlan == [groups |-> <<>>, run |-> <<>>]

Fits(run, s, ceiling) == SameTier(run, s) /\ TotalBytes(run) + s.bytes <= ceiling

\* A run that is closed becomes a group if it is long enough.
LEMMA CloseRunIs ==
  ASSUME NEW segs, NEW plan \in Plans(segs), NEW mergeFactor
  PROVE  /\ CloseRun(plan, mergeFactor) \in Plans(segs)
         /\ CloseRun(plan, mergeFactor).run = <<>>
         /\ CloseRun(plan, mergeFactor).groups =
              IF Len(plan.run) >= mergeFactor THEN Append(plan.groups, plan.run) ELSE plan.groups
<1>1. plan.groups \in Seq(Seq(segs)) /\ plan.run \in Seq(segs)
  BY DEF Plans
<1>2. Append(plan.groups, plan.run) \in Seq(Seq(segs)) /\ <<>> \in Seq(segs)
  BY <1>1, AppendIs, EmptySeq
<1>3. QED BY <1>1, <1>2 DEF CloseRun, Plans

\* A run with one more segment.
Grown(plan, s) == [plan EXCEPT !.run = Append(@, s)]

\* A run that grows has the segment last.
LEMMA GrownIs ==
  ASSUME NEW segs, NEW plan \in Plans(segs), NEW s \in segs
  PROVE  /\ Grown(plan, s) \in Plans(segs) /\ Grown(plan, s).groups = plan.groups
         /\ Grown(plan, s).run = Append(plan.run, s)
<1>1. plan.groups \in Seq(Seq(segs)) /\ plan.run \in Seq(segs) /\ Append(plan.run, s) \in Seq(segs)
  BY AppendIs DEF Plans
<1>2. QED BY <1>1 DEF Grown, Plans

\* One segment joins the run, or starts one, and completes a group.
Extends(plan, s, mergeFactor, ceiling, next) ==
  LET run == IF plan.run = <<>> \/ Fits(plan.run, s, ceiling) THEN Append(plan.run, s)
             ELSE Append(<<>>, s)
  IN IF Len(run) = mergeFactor THEN next.run = <<>> /\ next.groups = Append(plan.groups, run)
     ELSE next.run = run /\ next.groups = plan.groups

\* What one segment does to a plan.
LEMMA ExtendIs ==
  ASSUME NEW segs, NEW plan \in Plans(segs), NEW s \in segs, NEW mergeFactor \in Nat, NEW ceiling
  PROVE  /\ Extend(plan, s, mergeFactor, ceiling) \in Plans(segs)
         /\ Len(plan.run) < mergeFactor =>
              Extends(plan, s, mergeFactor, ceiling, Extend(plan, s, mergeFactor, ceiling))
<1> DEFINE closed == CloseRun(plan, mergeFactor)
           opened == IF plan.run = <<>> \/ Fits(plan.run, s, ceiling) THEN plan ELSE closed
           grown == Grown(opened, s)
           next == IF Len(grown.run) = mergeFactor THEN CloseRun(grown, mergeFactor) ELSE grown
<1>1. Extend(plan, s, mergeFactor, ceiling) = next
  BY DEF Extend, Fits, Grown
<1>2. /\ closed \in Plans(segs) /\ closed.run = <<>>
      /\ closed.groups = IF Len(plan.run) >= mergeFactor THEN Append(plan.groups, plan.run)
                         ELSE plan.groups
  BY CloseRunIs
<1> HIDE DEF closed
<1>3. opened \in Plans(segs)
  BY <1>2
<1> HIDE DEF opened
<1>4. /\ grown \in Plans(segs) /\ grown.groups = opened.groups
      /\ grown.run = Append(opened.run, s)
  BY <1>3, GrownIs
<1> HIDE DEF grown
<1>5. /\ CloseRun(grown, mergeFactor) \in Plans(segs)
      /\ CloseRun(grown, mergeFactor).run = <<>>
      /\ Len(grown.run) = mergeFactor =>
           CloseRun(grown, mergeFactor).groups = Append(grown.groups, grown.run)
  <2>1. /\ CloseRun(grown, mergeFactor) \in Plans(segs)
        /\ CloseRun(grown, mergeFactor).run = <<>>
        /\ CloseRun(grown, mergeFactor).groups =
             IF Len(grown.run) >= mergeFactor THEN Append(grown.groups, grown.run)
             ELSE grown.groups
    BY <1>4, CloseRunIs
  <2>2. Len(grown.run) = mergeFactor => Len(grown.run) >= mergeFactor
    OBVIOUS
  <2>3. QED BY <2>1, <2>2
<1>6. next \in Plans(segs)
  BY <1>4, <1>5
<1>7. ASSUME Len(plan.run) < mergeFactor
      PROVE  Extends(plan, s, mergeFactor, ceiling, next)
  <2>1. Len(plan.run) \in Nat
    BY LenProperties DEF Plans
  <2>2. opened.groups = plan.groups
    BY <1>2, <1>7, <2>1 DEF opened
  <2>3. opened.run = IF plan.run = <<>> \/ Fits(plan.run, s, ceiling) THEN plan.run ELSE <<>>
    BY <1>2 DEF opened
  <2>4. grown.run = IF plan.run = <<>> \/ Fits(plan.run, s, ceiling) THEN Append(plan.run, s)
                    ELSE Append(<<>>, s)
    BY <1>4, <2>3
  <2>5. Len(grown.run) = mergeFactor => next.run = <<>> /\ next.groups = Append(plan.groups, grown.run)
    BY <1>4, <1>5, <2>2
  <2>6. Len(grown.run) # mergeFactor => next.run = grown.run /\ next.groups = plan.groups
    BY <1>4, <2>2
  <2> HIDE DEF next
  <2>7. QED BY <2>4, <2>5, <2>6 DEF Extends
<1>8. QED BY <1>1, <1>6, <1>7

PlanWalk(p, n, order, segs, mergeFactor, ceiling) ==
  /\ p \in [0 .. n -> Plans(segs)]
  /\ p[0] = NoPlan
  /\ \A k \in 1 .. n : p[k] = Extend(p[k - 1], order[k], mergeFactor, ceiling)

\* The plan is where this walk ends, but for the run that is open then.
LEMMA PlanIsWalked ==
  ASSUME NEW segs, NEW n \in Nat, ByOffset(segs) \in [1 .. n -> segs],
         NEW mergeFactor \in Nat, NEW ceiling
  PROVE  \E p : /\ PlanWalk(p, n, ByOffset(segs), segs, mergeFactor, ceiling)
                /\ PlanCompaction(segs, mergeFactor, ceiling) = CloseRun(p[n], mergeFactor).groups
<1> DEFINE X == Plans(segs)
           order == ByOffset(segs)
           step == [i \in 1 .. n |-> [x \in X |-> Extend(x, order[i], mergeFactor, ceiling)]]
           Iter == CHOOSE iter : iter = [s \in SUBSET DOMAIN order |->
             IF s = {} THEN NoPlan
             ELSE Extend(iter[s \ {Max(s)}], order[Max(s)], mergeFactor, ceiling)]
<1>1. NoPlan \in X /\ step \in [1 .. n -> [X -> X]]
  <2>1. \A i \in 1 .. n : \A x \in X : Extend(x, order[i], mergeFactor, ceiling) \in X
    BY ExtendIs
  <2>2. NoPlan \in X
    BY EmptySeq DEF NoPlan, Plans
  <2> HIDE DEF X, order
  <2>3. step \in [1 .. n -> [X -> X]]
    BY <2>1
  <2>4. QED BY <2>2, <2>3
<1>2. DOMAIN order = 1 .. n
  OBVIOUS
<1>3. PlanCompaction(segs, mergeFactor, ceiling) =
        CloseRun(FoldLeft(LAMBDA plan, s : Extend(plan, s, mergeFactor, ceiling), NoPlan, order),
                 mergeFactor).groups
  BY DEF PlanCompaction, NoPlan
<1> HIDE DEF step, X, order
<1>4. PICK g \in [SUBSET (1 .. n) -> X] : Unwinds(g, NoPlan, step, n)
  BY <1>1, FoldSolved
<1>5. g = [s \in SUBSET DOMAIN order |->
             IF s = {} THEN NoPlan
             ELSE Extend(g[s \ {Max(s)}], order[Max(s)], mergeFactor, ceiling)]
  BY <1>2, <1>4 DEF Unwinds, step
<1>6. Iter = [s \in SUBSET DOMAIN order |->
             IF s = {} THEN NoPlan
             ELSE Extend(Iter[s \ {Max(s)}], order[Max(s)], mergeFactor, ceiling)]
  BY <1>5
<1>7. FoldLeft(LAMBDA plan, s : Extend(plan, s, mergeFactor, ceiling), NoPlan, order) =
        Iter[DOMAIN order]
  BY Zenon DEF FoldLeft, MapThenFoldSet
<1> HIDE DEF Iter
<1>8. UnwindsIn(X, Iter, NoPlan, step, n)
  BY <1>2, <1>4, <1>6 DEF step, Unwinds, UnwindsIn
<1>9. WalksTo(X, Iter[1 .. n], NoPlan, step, n)
  BY <1>1, <1>8, FoldWalk
<1>10. PICK p \in [0 .. n -> X] : IsWalk(p, NoPlan, step, n) /\ p[n] = Iter[1 .. n]
  BY <1>9 DEF WalksTo
<1>11. \A k \in 1 .. n : p[k] = Extend(p[k - 1], order[k], mergeFactor, ceiling)
  <2>1. \A k \in 1 .. n : p[k - 1] \in X
    BY <1>10
  <2>2. QED BY <1>10, <2>1 DEF step, IsWalk
<1>12. PlanWalk(p, n, order, segs, mergeFactor, ceiling)
  BY <1>10, <1>11 DEF PlanWalk, IsWalk, X
<1>13. PlanCompaction(segs, mergeFactor, ceiling) = CloseRun(p[n], mergeFactor).groups
  BY <1>2, <1>3, <1>7, <1>10
<1>14. QED BY <1>12, <1>13 DEF order

\* A run or group is a stretch of the line, of one tier, and within the ceiling
\* as soon as it has two segments.
Stands(run, order, from) == \A i \in 1 .. Len(run) : run[i] = order[from + i]
Tiered(run) ==
  \A i \in 2 .. Len(run) : \E j \in 1 .. i - 1 :
    /\ run[i].bytes <= run[j].bytes * SizeTierRatio
    /\ \E h \in 1 .. i - 1 : run[i].bytes * SizeTierRatio >= run[h].bytes
Modest(run, ceiling) == Tiered(run) /\ (Len(run) >= 2 => TotalBytes(run) <= ceiling)

\* What joins a run keeps it so.
LEMMA JoinKeeps ==
  ASSUME NEW segs, \A s \in segs : s.bytes \in Nat, NEW order, NEW from \in Nat,
         NEW run \in Seq(segs), NEW s \in segs, s = order[from + Len(run) + 1],
         Stands(run, order, from), NEW ceiling, Modest(run, ceiling),
         run = <<>> \/ Fits(run, s, ceiling)
  PROVE  /\ Append(run, s) \in Seq(segs) /\ Len(Append(run, s)) = Len(run) + 1
         /\ Stands(Append(run, s), order, from) /\ Modest(Append(run, s), ceiling)
<1> DEFINE n == Len(run)
           more == Append(run, s)
<1>1. /\ n \in Nat /\ DOMAIN run = 1 .. n
      /\ more \in Seq(segs) /\ Len(more) = n + 1
      /\ \A i \in 1 .. n : more[i] = run[i]
      /\ more[n + 1] = s
  BY LenProperties, AppendIs
<1>2. TotalBytes(more) = TotalBytes(run) + s.bytes
  BY BytesAre
<1>3. run = <<>> <=> n = 0
  OBVIOUS
<1> HIDE DEF n, more
<1>4. \A i \in 1 .. n + 1 : i \in 1 .. n \/ i = n + 1
  BY <1>1
<1>5. Stands(more, order, from)
  <2>1. \A i \in 1 .. n : run[i] = order[from + i]
    BY DEF Stands, n
  <2>2. more[n + 1] = order[from + (n + 1)]
    <3>1. from + (n + 1) = from + n + 1
      BY <1>1
    <3>2. s = order[from + n + 1]
      BY DEF n
    <3>3. QED BY <1>1, <3>1, <3>2
  <2>3. QED BY <1>1, <1>4, <2>1, <2>2 DEF Stands
<1>6. Tiered(more)
  <2> SUFFICES ASSUME NEW i \in 2 .. n + 1
               PROVE  \E j \in 1 .. i - 1 :
                        /\ more[i].bytes <= more[j].bytes * SizeTierRatio
                        /\ \E h \in 1 .. i - 1 : more[i].bytes * SizeTierRatio >= more[h].bytes
    BY <1>1 DEF Tiered
  <2>1. \A j \in 1 .. i - 1 : j \in 1 .. n /\ more[j] = run[j]
    BY <1>1
  <2>2. CASE i \in 2 .. n
    <3>1. \E j \in 1 .. i - 1 :
            /\ run[i].bytes <= run[j].bytes * SizeTierRatio
            /\ \E h \in 1 .. i - 1 : run[i].bytes * SizeTierRatio >= run[h].bytes
      BY <2>2 DEF Modest, Tiered, n
    <3>2. more[i] = run[i]
      BY <1>1, <2>2
    <3>3. QED BY <2>1, <3>1, <3>2
  <2>3. CASE i = n + 1
    <3>1. Fits(run, s, ceiling)
      BY <1>1, <1>3, <2>3
    <3>2. PICK t \in Range(run) : s.bytes <= t.bytes * SizeTierRatio
      BY <3>1 DEF Fits, SameTier
    <3>3. PICK u \in Range(run) : s.bytes * SizeTierRatio >= u.bytes
      BY <3>1 DEF Fits, SameTier
    <3>4. PICK j \in 1 .. n : t = run[j]
      BY <1>1, <3>2 DEF Range
    <3>5. PICK h \in 1 .. n : u = run[h]
      BY <1>1, <3>3 DEF Range
    <3>6. j \in 1 .. i - 1 /\ h \in 1 .. i - 1 /\ more[i] = s /\ more[j] = t /\ more[h] = u
      BY <1>1, <2>3, <3>4, <3>5
    <3>7. QED BY <3>2, <3>3, <3>6
  <2>4. QED BY <1>1, <2>2, <2>3
<1>7. Len(more) >= 2 => TotalBytes(more) <= ceiling
  <2>1. Len(more) >= 2 => Fits(run, s, ceiling)
    BY <1>1, <1>3
  <2>2. QED BY <1>2, <2>1 DEF Fits
<1>8. QED BY <1>1, <1>5, <1>6, <1>7 DEF Modest, n, more

\* Groups stand in the line one after the other, up to a place.
Placed(groups, at, order, end, mergeFactor, ceiling) ==
  /\ \A g \in 1 .. Len(groups) :
       /\ at[g] \in Nat /\ at[g] + mergeFactor <= end
       /\ Len(groups[g]) = mergeFactor /\ Stands(groups[g], order, at[g])
       /\ Modest(groups[g], ceiling)
  /\ \A g, h \in 1 .. Len(groups) : g < h => at[g] + mergeFactor <= at[h]

\* After k segments: the open run is the stretch that ends there, the groups stand
\* before it.
OpenAt(plan, order, k, from, mergeFactor, ceiling) ==
  /\ from \in 0 .. k /\ Len(plan.run) = k - from /\ Len(plan.run) < mergeFactor
  /\ Stands(plan.run, order, from) /\ Modest(plan.run, ceiling)
  /\ \E at : Placed(plan.groups, at, order, from, mergeFactor, ceiling)
Planned(plan, order, k, mergeFactor, ceiling) ==
  \E from : OpenAt(plan, order, k, from, mergeFactor, ceiling)

\* No segments stand anywhere.
LEMMA EmptyStands ==
  ASSUME NEW order, NEW from, NEW ceiling
  PROVE  Len(<<>>) = 0 /\ Stands(<<>>, order, from) /\ Modest(<<>>, ceiling)
<1>1. Len(<<>>) = 0
  BY EmptySeq
<1>2. QED BY <1>1 DEF Stands, Modest, Tiered

\* One segment stands at its place.
LEMMA AloneStands ==
  ASSUME NEW s, NEW order, NEW from \in Nat, s = order[from + 1], NEW ceiling
  PROVE  /\ Len(Append(<<>>, s)) = 1
         /\ Stands(Append(<<>>, s), order, from) /\ Modest(Append(<<>>, s), ceiling)
<1> DEFINE run == Append(<<>>, s)
<1>1. Len(run) = 1 /\ run[1] = s
  OBVIOUS
<1> HIDE DEF run
<1>2. Stands(run, order, from)
  BY <1>1 DEF Stands
<1>3. Modest(run, ceiling)
  BY <1>1 DEF Modest, Tiered
<1>4. QED BY <1>1, <1>2, <1>3 DEF run

\* The walk begins with nothing planned.
LEMMA NoPlanIsPlanned ==
  ASSUME NEW order, NEW mergeFactor \in Nat \ {0, 1}, NEW ceiling
  PROVE  Planned(NoPlan, order, 0, mergeFactor, ceiling)
<1>1. NoPlan.run = <<>> /\ NoPlan.groups = <<>>
  BY DEF NoPlan
<1>2. Len(NoPlan.run) = 0 /\ Stands(NoPlan.run, order, 0) /\ Modest(NoPlan.run, ceiling)
  BY <1>1, EmptyStands
<1>3. Placed(NoPlan.groups, <<>>, order, 0, mergeFactor, ceiling)
  <2>1. Len(NoPlan.groups) = 0
    BY <1>1, EmptySeq
  <2>2. QED BY <2>1 DEF Placed
<1>4. 0 \in 0 .. 0 /\ 0 = 0 - 0 /\ 0 < mergeFactor
  OBVIOUS
<1>5. OpenAt(NoPlan, order, 0, 0, mergeFactor, ceiling)
  BY <1>2, <1>3, <1>4 DEF OpenAt
<1>6. QED BY <1>5 DEF Planned

\* Groups stay where they are when there is more room behind them.
LEMMA PlacedStays ==
  ASSUME NEW groups, NEW at, NEW order, NEW end \in Nat, NEW later \in Nat, end <= later,
         NEW mergeFactor \in Nat, NEW ceiling, Placed(groups, at, order, end, mergeFactor, ceiling)
  PROVE  Placed(groups, at, order, later, mergeFactor, ceiling)
BY DEF Placed

\* A new group stands behind the others.
LEMMA PlacedBehind ==
  ASSUME NEW S, NEW groups \in Seq(Seq(S)), NEW at, NEW order, NEW from \in Nat,
         NEW mergeFactor \in Nat, NEW ceiling, Placed(groups, at, order, from, mergeFactor, ceiling),
         NEW run \in Seq(S), Len(run) = mergeFactor, Stands(run, order, from), Modest(run, ceiling)
  PROVE  \E where : Placed(Append(groups, run), where, order, from + mergeFactor, mergeFactor, ceiling)
<1> DEFINE n == Len(groups)
           more == Append(groups, run)
           where == [g \in 1 .. n + 1 |-> IF g <= n THEN at[g] ELSE from]
<1>1. /\ n \in Nat /\ Len(more) = n + 1
      /\ \A g \in 1 .. n : more[g] = groups[g]
      /\ more[n + 1] = run
  BY LenProperties, AppendIs
<1>2. \A g \in 1 .. n :
        /\ at[g] \in Nat /\ at[g] + mergeFactor <= from
        /\ Len(groups[g]) = mergeFactor /\ Stands(groups[g], order, at[g])
        /\ Modest(groups[g], ceiling)
  BY DEF Placed
<1>3. \A g, h \in 1 .. n : g < h => at[g] + mergeFactor <= at[h]
  BY DEF Placed
<1>4. (\A g \in 1 .. n : where[g] = at[g]) /\ where[n + 1] = from
  BY <1>1
<1> HIDE DEF n, more, where
<1>5. \A g \in 1 .. n + 1 : g \in 1 .. n \/ g = n + 1
  BY <1>1
<1>6. ASSUME NEW g \in 1 .. n + 1
      PROVE  /\ where[g] \in Nat /\ where[g] + mergeFactor <= from + mergeFactor
             /\ Len(more[g]) = mergeFactor /\ Stands(more[g], order, where[g])
             /\ Modest(more[g], ceiling)
  <2>1. CASE g \in 1 .. n
    BY <1>1, <1>2, <1>4, <2>1
  <2>2. CASE g = n + 1
    BY <1>1, <1>4, <2>2
  <2>3. QED BY <1>5, <2>1, <2>2
<1>7. ASSUME NEW g \in 1 .. n + 1, NEW h \in 1 .. n + 1, g < h
      PROVE  where[g] + mergeFactor <= where[h]
  <2>1. g \in 1 .. n
    BY <1>1, <1>7
  <2>2. CASE h \in 1 .. n
    BY <1>3, <1>4, <1>7, <2>1, <2>2
  <2>3. CASE h = n + 1
    BY <1>2, <1>4, <2>1, <2>3
  <2>4. QED BY <1>5, <2>2, <2>3
<1>8. Placed(more, where, order, from + mergeFactor, mergeFactor, ceiling)
  BY <1>1, <1>6, <1>7 DEF Placed
<1>9. QED BY <1>8 DEF more

\* One segment more.
LEMMA PlannedStep ==
  ASSUME NEW segs, \A s \in segs : s.bytes \in Nat, NEW order, NEW k \in Nat \ {0},
         order[k] \in segs, NEW mergeFactor \in Nat \ {0, 1}, NEW ceiling,
         NEW plan \in Plans(segs), Planned(plan, order, k - 1, mergeFactor, ceiling),
         NEW next, Extends(plan, order[k], mergeFactor, ceiling, next)
  PROVE  Planned(next, order, k, mergeFactor, ceiling)
<1> DEFINE s == order[k]
           joins == plan.run = <<>> \/ Fits(plan.run, s, ceiling)
<1>1. /\ plan.run \in Seq(segs) /\ plan.groups \in Seq(Seq(segs)) /\ <<>> \in Seq(segs)
      /\ s \in segs /\ Len(plan.run) \in Nat
  BY LenProperties, EmptySeq DEF Plans
<1>2. PICK from : OpenAt(plan, order, k - 1, from, mergeFactor, ceiling)
  BY DEF Planned
<1>3. /\ from \in Nat /\ from <= k - 1 /\ Len(plan.run) = (k - 1) - from
      /\ Len(plan.run) < mergeFactor
      /\ Stands(plan.run, order, from) /\ Modest(plan.run, ceiling)
  BY <1>2 DEF OpenAt
<1>4. PICK at : Placed(plan.groups, at, order, from, mergeFactor, ceiling)
  BY <1>2 DEF OpenAt
<1>5. CASE joins
  <2> DEFINE run == Append(plan.run, s)
  <2>1. from + Len(plan.run) + 1 = k
    BY <1>3
  <2>2. /\ run \in Seq(segs) /\ Len(run) = Len(plan.run) + 1
        /\ Stands(run, order, from) /\ Modest(run, ceiling)
    BY <1>1, <1>3, <1>5, <2>1, JoinKeeps
  <2>3. IF Len(run) = mergeFactor THEN next.run = <<>> /\ next.groups = Append(plan.groups, run)
        ELSE next.run = run /\ next.groups = plan.groups
    BY <1>5 DEF Extends
  <2> HIDE DEF run
  <2>4. CASE Len(run) = mergeFactor
    <3>1. \E where : Placed(Append(plan.groups, run), where, order, from + mergeFactor,
                            mergeFactor, ceiling)
      BY <1>1, <1>3, <1>4, <2>2, <2>4, PlacedBehind
    <3>2. from + mergeFactor = k /\ k \in 0 .. k /\ 0 = k - k /\ 0 < mergeFactor
      <4>1. from + (Len(plan.run) + 1) = k
        BY <1>3
      <4>2. from + mergeFactor = k
        BY <2>2, <2>4, <4>1
      <4>3. QED BY <4>2
    <3>3. next.run = <<>> /\ next.groups = Append(plan.groups, run)
      BY <2>3, <2>4
    <3>4. Len(next.run) = 0 /\ Stands(next.run, order, k) /\ Modest(next.run, ceiling)
      BY <3>3, EmptyStands
    <3>5. \E where : Placed(next.groups, where, order, k, mergeFactor, ceiling)
      BY <3>1, <3>2, <3>3
    <3>6. OpenAt(next, order, k, k, mergeFactor, ceiling)
      BY <3>2, <3>4, <3>5 DEF OpenAt
    <3>7. QED BY <3>6 DEF Planned
  <2>5. CASE Len(run) # mergeFactor
    <3>1. next.run = run /\ next.groups = plan.groups
      BY <2>3, <2>5
    <3>2. Len(run) = k - from /\ Len(run) < mergeFactor /\ from \in 0 .. k
      BY <1>1, <1>3, <2>2, <2>5
    <3>3. OpenAt(next, order, k, from, mergeFactor, ceiling)
      BY <1>4, <2>2, <3>1, <3>2 DEF OpenAt
    <3>4. QED BY <3>3 DEF Planned
  <2>6. QED BY <2>4, <2>5
<1>6. CASE ~joins
  <2> DEFINE run == Append(<<>>, s)
  <2>1. k - 1 \in Nat /\ (k - 1) + 1 = k
    OBVIOUS
  <2>3. Len(run) = 1 /\ Stands(run, order, k - 1) /\ Modest(run, ceiling)
    BY <2>1, AloneStands
  <2>4. Len(run) = 1 /\ Len(run) = k - (k - 1) /\ Len(run) < mergeFactor
    BY <2>3
  <2>5. next.run = run /\ next.groups = plan.groups
    <3>1. IF Len(run) = mergeFactor THEN next.run = <<>> /\ next.groups = Append(plan.groups, run)
          ELSE next.run = run /\ next.groups = plan.groups
      BY <1>6 DEF Extends
    <3>2. QED BY <2>4, <3>1
  <2> HIDE DEF run
  <2>6. Placed(next.groups, at, order, k - 1, mergeFactor, ceiling)
    BY <1>3, <1>4, <2>1, <2>5, PlacedStays
  <2>7. k - 1 \in 0 .. k
    OBVIOUS
  <2>8. OpenAt(next, order, k, k - 1, mergeFactor, ceiling)
    BY <2>3, <2>4, <2>5, <2>6, <2>7 DEF OpenAt
  <2>9. QED BY <2>8 DEF Planned
<1>7. QED BY <1>5, <1>6

GroupsStand(groups, order, n, segs, mergeFactor, ceiling) ==
  /\ groups \in Seq(Seq(segs))
  /\ \E at : Placed(groups, at, order, n, mergeFactor, ceiling)

\* The plan of a whole line: a run that is open at its end is dropped.
LEMMA PlanStands ==
  ASSUME NEW segs, NEW n \in Nat, NEW d, InLine(ByOffset(segs), n, segs, d),
         NEW mergeFactor \in Nat \ {0, 1}, NEW ceiling
  PROVE  GroupsStand(PlanCompaction(segs, mergeFactor, ceiling), ByOffset(segs), n, segs,
                     mergeFactor, ceiling)
<1> DEFINE order == ByOffset(segs)
<1>1. /\ order \in [1 .. n -> segs] /\ \A s \in segs : s.bytes \in Nat
      /\ \A k \in 1 .. n : order[k] \in segs
  BY DEF InLine
<1>2. PICK p : /\ PlanWalk(p, n, order, segs, mergeFactor, ceiling)
               /\ PlanCompaction(segs, mergeFactor, ceiling) = CloseRun(p[n], mergeFactor).groups
  BY <1>1, PlanIsWalked
<1> HIDE DEF order
<1>3. /\ p \in [0 .. n -> Plans(segs)] /\ p[0] = NoPlan
      /\ \A k \in 1 .. n : p[k] = Extend(p[k - 1], order[k], mergeFactor, ceiling)
  BY <1>2 DEF PlanWalk
<1> DEFINE S == {k \in 0 .. n : Planned(p[k], order, k, mergeFactor, ceiling)}
<1>4. 0 \in S
  BY <1>3, NoPlanIsPlanned
<1>5. ASSUME NEW j \in 0 .. n - 1, j \in S PROVE j + 1 \in S
  <2> DEFINE k == j + 1
  <2>1. k \in 1 .. n /\ k - 1 = j /\ k \in Nat \ {0} /\ k \in 0 .. n /\ j \in 0 .. n
    OBVIOUS
  <2>2. Planned(p[k - 1], order, k - 1, mergeFactor, ceiling)
    BY <1>5, <2>1
  <2> HIDE DEF k
  <2>3. p[k - 1] \in Plans(segs) /\ order[k] \in segs
    BY <1>1, <1>3, <2>1
  <2>4. Len(p[k - 1].run) < mergeFactor
    BY <2>2 DEF Planned, OpenAt
  <2>5. Extends(p[k - 1], order[k], mergeFactor, ceiling, p[k])
    <3>1. p[k] = Extend(p[k - 1], order[k], mergeFactor, ceiling)
      BY <1>3, <2>1
    <3>2. QED BY <2>3, <2>4, <3>1, ExtendIs
  <2>6. Planned(p[k], order, k, mergeFactor, ceiling)
    BY <1>1, <2>1, <2>2, <2>3, <2>5, PlannedStep
  <2>7. QED BY <2>1, <2>6 DEF k
<1>6. Planned(p[n], order, n, mergeFactor, ceiling)
  <2>1. \A k \in 0 .. n : k \in S
    <3> HIDE DEF S
    <3>1. QED BY <1>4, <1>5, UpTo
  <2>2. QED BY <2>1
<1>7. PICK from : OpenAt(p[n], order, n, from, mergeFactor, ceiling)
  BY <1>6 DEF Planned
<1>8. PICK at : Placed(p[n].groups, at, order, from, mergeFactor, ceiling)
  BY <1>7 DEF OpenAt
<1>9. Placed(p[n].groups, at, order, n, mergeFactor, ceiling)
  <2>1. from \in Nat /\ from <= n
    BY <1>7 DEF OpenAt
  <2>2. QED BY <1>8, <2>1, PlacedStays
<1>10. p[n] \in Plans(segs) /\ Len(p[n].run) < mergeFactor /\ Len(p[n].run) \in Nat
  <2>1. p[n] \in Plans(segs)
    BY <1>3
  <2>2. p[n].run \in Seq(segs)
    BY <2>1 DEF Plans
  <2>3. QED BY <1>7, <2>1, <2>2, LenProperties DEF OpenAt
<1>11. PlanCompaction(segs, mergeFactor, ceiling) = p[n].groups
  BY <1>2, <1>10, CloseRunIs
<1>12. p[n].groups \in Seq(Seq(segs))
  BY <1>10 DEF Plans
<1>13. QED BY <1>9, <1>11, <1>12 DEF GroupsStand, order
-----------------------------------------------------------------------------
(* The merges of a plan. *)

\* One manifest update.
Remaining(live, group) ==
  {s \in live \ Range(group) : ~SameKey(s, MergedFrom(group))} \cup {MergedFrom(group)}

MergeWalk(live, n, segs, groups) ==
  /\ live[0] = segs
  /\ \A g \in 1 .. n : live[g] = Remaining(live[g - 1], groups[g])

\* The live set at the end is where this walk ends.
LEMMA CompactedIsWalked ==
  ASSUME NEW segs, NEW mergeFactor, NEW ceiling, NEW groups, NEW n \in Nat,
         groups = PlanCompaction(segs, mergeFactor, ceiling), DOMAIN groups = 1 .. n
  PROVE  \E live : /\ MergeWalk(live, n, segs, groups)
                   /\ Compacted(segs, mergeFactor, ceiling) = live[n]
<1> DEFINE X == SUBSET (segs \cup {MergedFrom(groups[g]) : g \in 1 .. n})
           step == [i \in 1 .. n |-> [x \in X |-> Remaining(x, groups[i])]]
           Iter == CHOOSE iter : iter = [s \in SUBSET DOMAIN groups |->
             IF s = {} THEN segs ELSE Remaining(iter[s \ {Max(s)}], groups[Max(s)])]
<1>1. segs \in X /\ step \in [1 .. n -> [X -> X]]
  <2>1. \A i \in 1 .. n : \A x \in X : Remaining(x, groups[i]) \in X
    BY DEF Remaining
  <2>2. segs \in X
    OBVIOUS
  <2> HIDE DEF X
  <2>3. step \in [1 .. n -> [X -> X]]
    BY <2>1
  <2>4. QED BY <2>2, <2>3
<1>2. Compacted(segs, mergeFactor, ceiling) =
        FoldLeft(LAMBDA live, group : Remaining(live, group), segs, groups)
  BY DEF Compacted, Remaining
<1> HIDE DEF step, X
<1>4. PICK g \in [SUBSET (1 .. n) -> X] : Unwinds(g, segs, step, n)
  BY <1>1, FoldSolved
<1>5. g = [s \in SUBSET DOMAIN groups |->
             IF s = {} THEN segs ELSE Remaining(g[s \ {Max(s)}], groups[Max(s)])]
  BY <1>4 DEF Unwinds, step
<1>6. Iter = [s \in SUBSET DOMAIN groups |->
             IF s = {} THEN segs ELSE Remaining(Iter[s \ {Max(s)}], groups[Max(s)])]
  BY <1>5
<1>7. FoldLeft(LAMBDA live, group : Remaining(live, group), segs, groups) = Iter[DOMAIN groups]
  BY Zenon DEF FoldLeft, MapThenFoldSet
<1> HIDE DEF Iter
<1>8. UnwindsIn(X, Iter, segs, step, n)
  BY <1>4, <1>6 DEF step, Unwinds, UnwindsIn
<1>9. WalksTo(X, Iter[1 .. n], segs, step, n)
  BY <1>1, <1>8, FoldWalk
<1>10. PICK w \in [0 .. n -> X] : IsWalk(w, segs, step, n) /\ w[n] = Iter[1 .. n]
  BY <1>9 DEF WalksTo
<1>11. \A k \in 1 .. n : w[k] = Remaining(w[k - 1], groups[k])
  <2>1. \A k \in 1 .. n : w[k - 1] \in X
    BY <1>10
  <2>2. QED BY <1>10, <2>1 DEF step, IsWalk
<1>12. MergeWalk(w, n, segs, groups)
  BY <1>10, <1>11 DEF MergeWalk, IsWalk
<1>13. Compacted(segs, mergeFactor, ceiling) = w[n]
  BY <1>2, <1>7, <1>10
<1>14. QED BY <1>12, <1>13

\* A segment over the places from lo to hi of the line.
Over(s, order, d, lo, hi) ==
  /\ s.dir = d /\ s.first = order[lo].first /\ s.last = order[hi].last

Apart(s, t) == s.last < t.first \/ t.last < s.first

\* Segments that cover the line once, and of which the members of the groups
\* that are still to be merged are some.
Covers(live, order, n, d, groups, g) ==
  /\ \A s \in live : \E lo, hi \in 1 .. n : lo <= hi /\ Over(s, order, d, lo, hi)
  /\ \A i \in 1 .. n : \E s \in live : s.first <= order[i].first /\ order[i].last <= s.last
  /\ \A s, t \in live : s # t => Apart(s, t)
  /\ \A h \in 1 .. Len(groups) : g < h => Range(groups[h]) \subseteq live

\* Where a group stands, and what it is merged into.
Spans(group, order, d, lo, hi) ==
  /\ Range(group) = {order[i] : i \in lo .. hi}
  /\ Over(MergedFrom(group), order, d, lo, hi)

\* A group is a stretch of the line, and so is what it is merged into.
LEMMA GroupIs ==
  ASSUME NEW segs, NEW n \in Nat, NEW d, NEW order, InLine(order, n, segs, d),
         NEW mergeFactor \in Nat \ {0, 1}, NEW at \in Nat, at + mergeFactor <= n,
         NEW group \in Seq(segs), Len(group) = mergeFactor, Stands(group, order, at)
  PROVE  Spans(group, order, d, at + 1, at + mergeFactor)
<1>1. DOMAIN group = 1 .. mergeFactor /\ \A i \in 1 .. mergeFactor : group[i] = order[at + i]
  BY LenProperties DEF Stands
<1>2. Range(group) = {order[i] : i \in at + 1 .. at + mergeFactor}
  <2>1. ASSUME NEW i \in 1 .. mergeFactor
        PROVE  \E j \in at + 1 .. at + mergeFactor : group[i] = order[j]
    <3>1. at + i \in at + 1 .. at + mergeFactor
      OBVIOUS
    <3>2. QED BY <1>1, <3>1
  <2>2. ASSUME NEW j \in at + 1 .. at + mergeFactor
        PROVE  \E i \in 1 .. mergeFactor : group[i] = order[j]
    <3>1. j - at \in 1 .. mergeFactor /\ at + (j - at) = j
      OBVIOUS
    <3>2. QED BY <1>1, <3>1
  <2>3. Range(group) = {group[i] : i \in 1 .. mergeFactor}
    BY <1>1 DEF Range
  <2> DEFINE P == 1 .. mergeFactor
             Q == at + 1 .. at + mergeFactor
  <2>4. /\ \A i \in P : \E j \in Q : group[i] = order[j]
        /\ \A j \in Q : \E i \in P : group[i] = order[j]
        /\ Range(group) = {group[i] : i \in P}
    BY <2>1, <2>2, <2>3
  <2> HIDE DEF P, Q
  <2>5. Range(group) = {order[j] : j \in Q}
    BY <2>4
  <2>6. QED BY <2>5 DEF Q
<1>3. Head(group) = group[1] /\ Last(group) = group[mergeFactor]
  BY <1>1 DEF Last, Head
<1>4. /\ 1 \in 1 .. mergeFactor /\ mergeFactor \in 1 .. mergeFactor /\ at + 1 \in 1 .. n
  OBVIOUS
<1>5. Over(MergedFrom(group), order, d, at + 1, at + mergeFactor)
  <2>1. Head(group) = order[at + 1] /\ Last(group) = order[at + mergeFactor]
    BY <1>1, <1>3, <1>4
  <2>2. order[at + 1].dir = d
    BY <1>4 DEF InLine
  <2>3. QED BY <2>1, <2>2 DEF Over, MergedFrom
<1>6. QED BY <1>2, <1>5 DEF Spans

\* Along the line offsets grow.
LEMMA LineGrows ==
  ASSUME NEW segs, NEW n, NEW d, NEW order, InLine(order, n, segs, d)
  PROVE  \A i, j \in 1 .. n :
           /\ order[i].first \in Int /\ order[i].last \in Int /\ order[i].first <= order[i].last
           /\ i <= j => order[i].first <= order[j].first /\ order[i].last <= order[j].last
           /\ i < j <=> order[i].last < order[j].first
           /\ i = j <=> order[i].first = order[j].first
<1> SUFFICES ASSUME NEW i \in 1 .. n, NEW j \in 1 .. n
             PROVE  /\ order[i].first \in Int /\ order[i].last \in Int
                    /\ order[i].first <= order[i].last
                    /\ i <= j => order[i].first <= order[j].first /\ order[i].last <= order[j].last
                    /\ i < j <=> order[i].last < order[j].first
                    /\ i = j <=> order[i].first = order[j].first
  OBVIOUS
<1>1. /\ order[i].first \in Int /\ order[i].last \in Int /\ order[i].first <= order[i].last
      /\ order[j].first \in Int /\ order[j].last \in Int /\ order[j].first <= order[j].last
  BY DEF InLine
<1>2. i < j => order[i].last < order[j].first
  BY DEF InLine
<1>3. j < i => order[j].last < order[i].first
  BY DEF InLine
<1>4. i \in Int /\ j \in Int
  OBVIOUS
<1>5. CASE i < j
  BY <1>1, <1>2, <1>4, <1>5
<1>6. CASE i = j
  BY <1>1, <1>4, <1>6
<1>7. CASE j < i
  BY <1>1, <1>3, <1>4, <1>7
<1>8. QED BY <1>4, <1>5, <1>6, <1>7

\* Groups stand apart, so the members of a later one outlive the merge of this one.
LEMMA LaterOutlive ==
  ASSUME NEW segs, NEW n \in Nat, NEW d, NEW order, InLine(order, n, segs, d),
         NEW mergeFactor \in Nat \ {0, 1}, NEW ceiling, NEW groups \in Seq(Seq(segs)), NEW at,
         Placed(groups, at, order, n, mergeFactor, ceiling), NEW live,
         NEW g \in 1 .. Len(groups), NEW h \in 1 .. Len(groups), g < h,
         Range(groups[h]) \subseteq live
  PROVE  Range(groups[h]) \subseteq Remaining(live, groups[g])
<1> DEFINE merged == MergedFrom(groups[g])
<1>1. /\ groups[g] \in Seq(segs) /\ groups[h] \in Seq(segs)
      /\ at[g] \in Nat /\ at[g] + mergeFactor <= n /\ at[h] \in Nat /\ at[h] + mergeFactor <= n
      /\ Len(groups[g]) = mergeFactor /\ Stands(groups[g], order, at[g])
      /\ Len(groups[h]) = mergeFactor /\ Stands(groups[h], order, at[h])
      /\ at[g] + mergeFactor <= at[h]
  BY LenProperties DEF Placed
<1>5. /\ Spans(groups[g], order, d, at[g] + 1, at[g] + mergeFactor)
      /\ Spans(groups[h], order, d, at[h] + 1, at[h] + mergeFactor)
  BY <1>1, GroupIs
<1>2. /\ Range(groups[g]) = {order[i] : i \in at[g] + 1 .. at[g] + mergeFactor}
      /\ Range(groups[h]) = {order[i] : i \in at[h] + 1 .. at[h] + mergeFactor}
      /\ Over(merged, order, d, at[g] + 1, at[g] + mergeFactor)
  BY <1>5 DEF Spans
<1>6. /\ at[g] \in Nat /\ at[g] + mergeFactor <= n /\ at[h] \in Nat
      /\ at[h] + mergeFactor <= n /\ at[g] + mergeFactor <= at[h]
  BY <1>1
<1> HIDE DEF merged
<1>3. ASSUME NEW s \in Range(groups[h])
      PROVE  s \notin Range(groups[g]) /\ ~SameKey(s, merged)
  <2>1. PICK j \in at[h] + 1 .. at[h] + mergeFactor : s = order[j]
    BY <1>2
  <2>2. j \in 1 .. n /\ at[g] + 1 \in 1 .. n
    <3> DEFINE x == at[g]
               y == at[h]
    <3>1. /\ x \in Nat /\ x + mergeFactor <= n /\ y \in Nat /\ y + mergeFactor <= n
          /\ j \in y + 1 .. y + mergeFactor
      BY <1>6
    <3> HIDE DEF x, y
    <3>2. j \in 1 .. n /\ x + 1 \in 1 .. n
      BY <3>1
    <3>3. QED BY <3>2 DEF x
  <2>3. ASSUME NEW i \in at[g] + 1 .. at[g] + mergeFactor
        PROVE  s.first # order[i].first
    <3> DEFINE x == at[g]
               y == at[h]
    <3>1. /\ x \in Nat /\ x + mergeFactor <= n /\ y \in Nat /\ x + mergeFactor <= y
          /\ j \in y + 1 .. y + mergeFactor /\ i \in x + 1 .. x + mergeFactor
      BY <1>6
    <3> HIDE DEF x, y
    <3>2. i \in 1 .. n /\ i # j
      BY <3>1
    <3>3. QED BY <2>1, <2>2, <3>2, LineGrows
  <2>4. s \notin Range(groups[g])
    BY <1>2, <2>3
  <2>5. s.first # merged.first
    <3>1. at[g] + 1 \in at[g] + 1 .. at[g] + mergeFactor
      BY <1>1
    <3>2. QED BY <1>2, <2>3, <3>1 DEF Over
  <2>6. QED BY <2>4, <2>5 DEF SameKey
<1>4. QED BY <1>3 DEF Remaining, merged

\* A merge covers what its sources covered, and overlaps nothing that stays.
LEMMA MergeCovers ==
  ASSUME NEW segs, NEW n \in Nat, NEW d, NEW order, InLine(order, n, segs, d),
         NEW mergeFactor \in Nat \ {0, 1}, NEW ceiling, NEW groups \in Seq(Seq(segs)), NEW at,
         Placed(groups, at, order, n, mergeFactor, ceiling), NEW live,
         NEW g \in 1 .. Len(groups), Covers(live, order, n, d, groups, g - 1)
  PROVE  Covers(Remaining(live, groups[g]), order, n, d, groups, g)
<1> DEFINE merged == MergedFrom(groups[g])
           lo == at[g] + 1
           hi == at[g] + mergeFactor
           after == Remaining(live, groups[g])
<1>1. /\ groups[g] \in Seq(segs)
      /\ at[g] \in Nat /\ at[g] + mergeFactor <= n
      /\ Len(groups[g]) = mergeFactor /\ Stands(groups[g], order, at[g])
  BY LenProperties DEF Placed
<1>11. Spans(groups[g], order, d, lo, hi)
  BY <1>1, GroupIs
<1>12. lo \in 1 .. n /\ hi \in 1 .. n /\ lo <= hi
  <2>1. at[g] \in Nat /\ at[g] + mergeFactor <= n
    BY <1>1
  <2>2. QED BY <2>1
<1>2. /\ Range(groups[g]) = {order[i] : i \in lo .. hi}
      /\ Over(merged, order, d, lo, hi)
      /\ lo \in 1 .. n /\ hi \in 1 .. n /\ lo <= hi
  BY <1>11, <1>12 DEF Spans
<1>3. /\ \A s \in after : \/ s = merged
                          \/ s \in live /\ s \notin Range(groups[g]) /\ ~SameKey(s, merged)
      /\ \A s \in live : s \in Range(groups[g]) \/ SameKey(s, merged) \/ s \in after
      /\ merged \in after
  BY DEF Remaining
<1>4. /\ \A s \in live : \E i, j \in 1 .. n : i <= j /\ Over(s, order, d, i, j)
      /\ \A i \in 1 .. n : \E s \in live : s.first <= order[i].first /\ order[i].last <= s.last
      /\ \A s, t \in live : s # t => Apart(s, t)
      /\ Range(groups[g]) \subseteq live
  <2>1. g - 1 < g
    OBVIOUS
  <2>2. QED BY <2>1 DEF Covers
<1>5. \A h \in 1 .. Len(groups) : g < h => Range(groups[h]) \subseteq after
  <2> SUFFICES ASSUME NEW h \in 1 .. Len(groups), g < h PROVE Range(groups[h]) \subseteq after
    OBVIOUS
  <2>1. g - 1 < h
    OBVIOUS
  <2>2. Range(groups[h]) \subseteq live
    BY <2>1 DEF Covers
  <2>3. QED BY <2>2, LaterOutlive
<1> HIDE DEF merged, lo, hi, after
<1>6. \A s \in after : \E i, j \in 1 .. n : i <= j /\ Over(s, order, d, i, j)
  BY <1>2, <1>3, <1>4
<1>7. ASSUME NEW i \in 1 .. n
      PROVE  \E s \in after : s.first <= order[i].first /\ order[i].last <= s.last
  <2>1. PICK s \in live : s.first <= order[i].first /\ order[i].last <= s.last
    BY <1>4
  <2>2. CASE s \in Range(groups[g])
    <3>1. PICK j \in lo .. hi : s = order[j]
      BY <1>2, <2>2
    <3>2. /\ j \in 1 .. n /\ order[lo].first <= order[j].first /\ order[j].last <= order[hi].last
          /\ order[lo].first \in Int /\ order[hi].last \in Int /\ order[j].first \in Int
          /\ order[j].last \in Int /\ order[i].first \in Int /\ order[i].last \in Int
      <4>1. j \in 1 .. n /\ lo <= j /\ j <= hi
        BY <1>2, <3>1
      <4>2. QED BY <1>2, <4>1, LineGrows
    <3>3. merged.first <= order[i].first /\ order[i].last <= merged.last
      <4>1. merged.first = order[lo].first /\ merged.last = order[hi].last
        BY <1>2 DEF Over
      <4>2. order[j].first <= order[i].first /\ order[i].last <= order[j].last
        BY <2>1, <3>1
      <4>3. order[lo].first <= order[i].first
        BY <3>2, <4>2
      <4>4. order[i].last <= order[hi].last
        BY <3>2, <4>2
      <4>5. QED BY <4>1, <4>3, <4>4
    <3>4. QED BY <1>3, <3>3
  <2>3. CASE SameKey(s, merged)
    BY <1>3, <2>1, <2>3 DEF SameKey
  <2>4. QED BY <1>3, <2>1, <2>2, <2>3
<1>8. ASSUME NEW s \in after, s # merged PROVE Apart(s, merged) /\ Apart(merged, s)
  <2>1. s \in live /\ s \notin Range(groups[g])
    BY <1>3, <1>8
  <2>2. PICK i \in 1 .. n, j \in 1 .. n : i <= j /\ Over(s, order, d, i, j)
    BY <1>4, <2>1
  <2>3. ASSUME NEW k \in 1 .. n, lo <= k, k <= hi, i <= k, k <= j PROVE FALSE
    <3>1. order[k] \in Range(groups[g])
      <4>1. k \in lo .. hi
        BY <1>2, <2>3
      <4>2. QED BY <1>2, <4>1
    <3>2. order[k] \in live /\ order[k] # s
      BY <1>4, <2>1, <3>1
    <3>3. Apart(s, order[k])
      BY <1>4, <2>1, <3>2
    <3>4. s.first <= order[k].first /\ order[k].last <= s.last
          /\ order[k].first \in Int /\ order[k].last \in Int /\ order[k].first <= order[k].last
          /\ s.first \in Int /\ s.last \in Int
      BY <2>2, <2>3, LineGrows DEF Over
    <3>5. QED BY <3>3, <3>4 DEF Apart
  <2>4. hi < i \/ j < lo
    <3>1. lo \in Int /\ hi \in Int /\ i \in Int /\ j \in Int /\ i <= j /\ lo <= hi
      BY <1>2, <2>2
    <3>2. ~(lo <= i /\ i <= hi)
      BY <2>2, <2>3
    <3>3. ~(i <= lo /\ lo <= j)
      <4>1. lo \in 1 .. n /\ lo <= lo /\ lo <= hi
        BY <3>1, <1>2
      <4>2. QED BY <2>3, <4>1
    <3>4. QED BY <3>1, <3>2, <3>3
  <2>5. (hi < i => order[hi].last < order[i].first) /\ (j < lo => order[j].last < order[lo].first)
    BY <1>2, <2>2, LineGrows
  <2>6. QED BY <1>2, <2>2, <2>4, <2>5 DEF Apart, Over
<1>9. ASSUME NEW s \in after, NEW t \in after, s # t PROVE Apart(s, t)
  <2>1. CASE s = merged
    BY <1>8, <1>9, <2>1
  <2>2. CASE t = merged
    BY <1>8, <1>9, <2>2
  <2>3. CASE s # merged /\ t # merged
    BY <1>3, <1>4, <1>9, <2>3
  <2>4. QED BY <2>1, <2>2, <2>3
<1>10. QED BY <1>5, <1>6, <1>7, <1>9 DEF Covers, after

\* A line covers itself.
LEMMA LineCovers ==
  ASSUME NEW segs, NEW n \in Nat, NEW d, NEW order, InLine(order, n, segs, d),
         NEW groups \in Seq(Seq(segs))
  PROVE  Covers(segs, order, n, d, groups, 0)
<1>1. \A s \in segs : \E i \in 1 .. n : order[i] = s
  BY DEF InLine
<1>2. \A s \in segs : \E lo, hi \in 1 .. n : lo <= hi /\ Over(s, order, d, lo, hi)
  <2> SUFFICES ASSUME NEW s \in segs
               PROVE  \E lo, hi \in 1 .. n : lo <= hi /\ Over(s, order, d, lo, hi)
    OBVIOUS
  <2>1. PICK i \in 1 .. n : order[i] = s
    BY <1>1
  <2>2. i <= i /\ Over(s, order, d, i, i)
    BY <2>1 DEF InLine, Over
  <2>3. QED BY <2>2
<1>3. \A i \in 1 .. n : \E s \in segs : s.first <= order[i].first /\ order[i].last <= s.last
  <2>1. \A i \in 1 .. n : /\ order[i] \in segs /\ order[i].first <= order[i].first
                         /\ order[i].last <= order[i].last
    <3>1. \A i \in 1 .. n : order[i] \in segs /\ order[i].first \in Int /\ order[i].last \in Int
      BY DEF InLine
    <3>2. QED BY <3>1
  <2>2. QED BY <2>1
<1>4. \A s, t \in segs : s # t => Apart(s, t)
  <2> SUFFICES ASSUME NEW s \in segs, NEW t \in segs, s # t PROVE Apart(s, t)
    OBVIOUS
  <2>1. PICK i \in 1 .. n : order[i] = s
    BY <1>1
  <2>2. PICK j \in 1 .. n : order[j] = t
    BY <1>1
  <2>3. i < j \/ j < i
    BY <2>1, <2>2
  <2>4. QED BY <2>1, <2>2, <2>3, LineGrows DEF Apart
<1>5. \A h \in 1 .. Len(groups) : Range(groups[h]) \subseteq segs
  <2> SUFFICES ASSUME NEW h \in 1 .. Len(groups) PROVE Range(groups[h]) \subseteq segs
    OBVIOUS
  <2>1. groups[h] \in Seq(segs)
    BY LenProperties
  <2>2. QED BY <2>1, LenProperties DEF Range
<1>6. QED BY <1>2, <1>3, <1>4, <1>5 DEF Covers

\* Between two places of the line there is no gap.
LEMMA NoGap ==
  ASSUME NEW segs, NEW n \in Nat, NEW d, NEW order, InLine(order, n, segs, d),
         NEW lo \in 1 .. n, NEW hi \in 1 .. n, NEW o \in Int,
         order[lo].first <= o, o <= order[hi].last
  PROVE  \E i \in 1 .. n : order[i].first <= o /\ o <= order[i].last
<1> DEFINE S == {i \in 1 .. n : order[i].first <= o}
<1>1. PICK i \in S : \A j \in S : j <= i
  <2>1. S \in SUBSET Nat /\ lo \in S /\ n + 1 \in Nat /\ \A j \in S : j < n + 1
    OBVIOUS
  <2> HIDE DEF S
  <2>2. QED BY <2>1, GreatestNatural
<1>2. i \in 1 .. n /\ order[i].first <= o
  OBVIOUS
<1>3. \A j \in 1 .. n : order[j].first <= o => j <= i
  BY <1>1
<1> HIDE DEF S
<1>4. ASSUME o > order[i].last PROVE FALSE
  <2>1. /\ order[i].last \in Int /\ order[hi].last \in Int
        /\ (hi <= i => order[hi].last <= order[i].last)
    BY <1>2, LineGrows
  <2>2. i < hi
    BY <1>2, <1>4, <2>1
  <2>3. i + 1 \in 1 .. n
    BY <1>2, <2>2
  <2>4. order[i + 1].first = order[i].last + 1
    BY <1>2, <2>3 DEF InLine
  <2>5. order[i + 1].first <= o
    BY <1>4, <2>1, <2>4
  <2>6. i + 1 <= i
    BY <1>3, <2>3, <2>5
  <2>7. QED BY <1>2, <2>6
<1>5. order[i].last \in Int
  BY <1>2, LineGrows
<1>6. QED BY <1>2, <1>4, <1>5

\* What covers a line holds its offsets, each once.
LEMMA CoversOnce ==
  ASSUME NEW segs, NEW n \in Nat, NEW d, NEW order, InLine(order, n, segs, d),
         NEW live, NEW groups, NEW g, Covers(live, order, n, d, groups, g)
  PROVE  SameOffsetsOnce(segs, live)
<1>1. /\ \A s \in live : \E lo, hi \in 1 .. n : lo <= hi /\ Over(s, order, d, lo, hi)
      /\ \A i \in 1 .. n : \E s \in live : s.first <= order[i].first /\ order[i].last <= s.last
      /\ \A s, t \in live : s # t => Apart(s, t)
  BY DEF Covers
<1>2. /\ \A i \in 1 .. n : order[i] \in segs /\ order[i].dir = d
      /\ \A s \in segs : \E i \in 1 .. n : order[i] = s
  BY DEF InLine
<1>3. ASSUME NEW s \in live PROVE s.dir = d /\ s.first \in Int /\ s.last \in Int
  <2>1. PICK lo \in 1 .. n, hi \in 1 .. n : Over(s, order, d, lo, hi)
    BY <1>1
  <2>2. QED BY <2>1, LineGrows DEF Over
<1>4. ASSUME NEW s \in live, NEW x \in OffsetsOf(s) PROVE \E t \in segs : x \in OffsetsOf(t)
  <2>1. PICK lo \in 1 .. n, hi \in 1 .. n : lo <= hi /\ Over(s, order, d, lo, hi)
    BY <1>1
  <2>2. PICK o \in s.first .. s.last : x = <<s.dir, o>>
    BY DEF OffsetsOf
  <2>3. o \in Int /\ order[lo].first <= o /\ o <= order[hi].last
    BY <1>3, <2>1, <2>2 DEF Over
  <2>4. PICK i \in 1 .. n : order[i].first <= o /\ o <= order[i].last
    BY <2>3, NoGap
  <2>5. order[i].first \in Int /\ order[i].last \in Int
    BY LineGrows
  <2>6. o \in order[i].first .. order[i].last /\ s.dir = order[i].dir
    BY <1>2, <1>3, <2>3, <2>4, <2>5
  <2>7. x \in OffsetsOf(order[i])
    BY <2>2, <2>6 DEF OffsetsOf
  <2>8. QED BY <1>2, <2>7
<1>5. ASSUME NEW t \in segs, NEW x \in OffsetsOf(t) PROVE \E s \in live : x \in OffsetsOf(s)
  <2>1. PICK i \in 1 .. n : order[i] = t
    BY <1>2
  <2>2. PICK s \in live : s.first <= order[i].first /\ order[i].last <= s.last
    BY <1>1
  <2>3. PICK o \in t.first .. t.last : x = <<t.dir, o>>
    BY DEF OffsetsOf
  <2>4. order[i].first \in Int /\ order[i].last \in Int /\ s.first \in Int /\ s.last \in Int
        /\ s.dir = t.dir
    BY <1>2, <1>3, <2>1, LineGrows
  <2>5. o \in s.first .. s.last
    BY <2>1, <2>2, <2>3, <2>4
  <2>6. x \in OffsetsOf(s)
    BY <2>3, <2>4, <2>5 DEF OffsetsOf
  <2>7. QED BY <2>6
<1>6. UNION {OffsetsOf(s) : s \in live} = UNION {OffsetsOf(s) : s \in segs}
  BY <1>4, <1>5
<1>7. ASSUME NEW s \in live, NEW t \in live, s # t PROVE OffsetsOf(s) \cap OffsetsOf(t) = {}
  <2>1. Apart(s, t) /\ s.first \in Int /\ s.last \in Int /\ t.first \in Int /\ t.last \in Int
    BY <1>1, <1>3, <1>7
  <2>2. ASSUME NEW o \in s.first .. s.last, NEW q \in t.first .. t.last PROVE o # q
    BY <2>1 DEF Apart
  <2>3. QED BY <2>2 DEF OffsetsOf
<1>8. QED BY <1>6, <1>7 DEF SameOffsetsOnce

\* After any number of merges of a plan every offset is there once.
LEMMA CompactedCovers ==
  ASSUME NEW segs, NEW n \in Nat, NEW d, InLine(ByOffset(segs), n, segs, d),
         NEW mergeFactor \in Nat \ {0, 1}, NEW ceiling
  PROVE  SameOffsetsOnce(segs, Compacted(segs, mergeFactor, ceiling))
<1> DEFINE order == ByOffset(segs)
           groups == PlanCompaction(segs, mergeFactor, ceiling)
           m == Len(groups)
<1>1. GroupsStand(groups, order, n, segs, mergeFactor, ceiling)
  BY PlanStands
<1>2. groups \in Seq(Seq(segs)) /\ DOMAIN groups = 1 .. m /\ m \in Nat
  BY <1>1, LenProperties DEF GroupsStand
<1>3. PICK at : Placed(groups, at, order, n, mergeFactor, ceiling)
  BY <1>1 DEF GroupsStand
<1>4. PICK live : /\ MergeWalk(live, m, segs, groups)
                  /\ Compacted(segs, mergeFactor, ceiling) = live[m]
  BY <1>2, CompactedIsWalked
<1>5. InLine(order, n, segs, d)
  OBVIOUS
<1>6. m = Len(groups)
  OBVIOUS
<1> HIDE DEF order, groups, m
<1> DEFINE S == {g \in 0 .. m : Covers(live[g], order, n, d, groups, g)}
<1>7. 0 \in S
  <2>1. live[0] = segs
    BY <1>4 DEF MergeWalk
  <2>2. QED BY <1>2, <1>5, <2>1, LineCovers
<1>8. ASSUME NEW j \in 0 .. m - 1, j \in S PROVE j + 1 \in S
  <2> DEFINE g == j + 1
  <2>1. g \in 1 .. m /\ g - 1 = j /\ g \in 0 .. m
    BY <1>2
  <2>2. Covers(live[g - 1], order, n, d, groups, g - 1)
    BY <1>8, <2>1
  <2> HIDE DEF g
  <2>3. live[g] = Remaining(live[g - 1], groups[g])
    BY <1>4, <2>1 DEF MergeWalk
  <2>4. g \in 1 .. Len(groups)
    BY <1>6, <2>1
  <2>5. Covers(live[g], order, n, d, groups, g)
    BY <1>2, <1>3, <1>5, <2>2, <2>3, <2>4, MergeCovers
  <2>6. QED BY <2>1, <2>5 DEF g
<1>9. Covers(live[m], order, n, d, groups, m)
  <2>1. \A g \in 0 .. m : g \in S
    <3> HIDE DEF S
    <3>1. QED BY <1>2, <1>7, <1>8, UpTo
  <2>2. m \in 0 .. m
    BY <1>2
  <2>3. QED BY <2>1, <2>2
<1>10. QED BY <1>4, <1>5, <1>9, CoversOnce

\* Plans for a line of segments.
LEMMA PlansStand ==
  ASSUME NEW segs, NEW d, Tiling(segs, d), NEW mergeFactor \in Nat \ {0, 1}, NEW ceiling
  PROVE  PlansAreRuns(segs, mergeFactor, ceiling)
<1> DEFINE order == ByOffset(segs)
           groups == PlanCompaction(segs, mergeFactor, ceiling)
<1>1. PICK n \in Nat : InLine(order, n, segs, d)
  BY ByOffsetIs
<1>2. SameOffsetsOnce(segs, Compacted(segs, mergeFactor, ceiling))
  BY <1>1, CompactedCovers
<1>3. GroupsStand(groups, order, n, segs, mergeFactor, ceiling)
  BY <1>1, PlanStands
<1> HIDE DEF order, groups
<1>4. groups \in Seq(Seq(segs)) /\ DOMAIN groups = 1 .. Len(groups)
  BY <1>3, LenProperties DEF GroupsStand
<1>5. PICK at : Placed(groups, at, order, n, mergeFactor, ceiling)
  BY <1>3 DEF GroupsStand
<1>6. ASSUME NEW k \in DOMAIN groups
      PROVE  /\ Len(groups[k]) = mergeFactor /\ TotalBytes(groups[k]) <= ceiling
             /\ Tiered(groups[k])
             /\ \A s \in segs : s.first \in Head(groups[k]).first .. Last(groups[k]).last
                                => s \in Range(groups[k])
  <2>1. /\ at[k] \in Nat /\ at[k] + mergeFactor <= n
        /\ Len(groups[k]) = mergeFactor /\ Stands(groups[k], order, at[k])
        /\ Modest(groups[k], ceiling)
    BY <1>4, <1>5 DEF Placed
  <2>2. groups[k] \in Seq(segs)
    BY <1>4
  <2>3. Spans(groups[k], order, d, at[k] + 1, at[k] + mergeFactor)
    BY <1>1, <2>1, <2>2, GroupIs
  <2> DEFINE lo == at[k] + 1
             hi == at[k] + mergeFactor
  <2>4. lo \in 1 .. n /\ hi \in 1 .. n
    <3>1. at[k] \in Nat /\ at[k] + mergeFactor <= n
      BY <2>1
    <3>2. QED BY <3>1
  <2>5. /\ Head(groups[k]).first = order[lo].first /\ Last(groups[k]).last = order[hi].last
        /\ Range(groups[k]) = {order[i] : i \in lo .. hi}
    BY <2>3 DEF Spans, Over, MergedFrom
  <2> HIDE DEF lo, hi
  <2>6. ASSUME NEW s \in segs, s.first \in order[lo].first .. order[hi].last
        PROVE  s \in Range(groups[k])
    <3>1. PICK i \in 1 .. n : order[i] = s
      BY <1>1 DEF InLine
    <3>2. /\ order[i].first \in Int /\ order[lo].first \in Int /\ order[hi].last \in Int
          /\ i < lo <=> order[i].last < order[lo].first
          /\ hi < i <=> order[hi].last < order[i].first
          /\ order[i].last \in Int /\ order[i].first <= order[i].last
          /\ i <= lo => order[i].first <= order[lo].first
          /\ i = lo <=> order[i].first = order[lo].first
      BY <1>1, <2>4, LineGrows
    <3>3. ~(hi < i)
      BY <2>6, <3>1, <3>2
    <3>4. ~(i < lo)
      BY <2>6, <2>4, <3>1, <3>2
    <3>5. i \in lo .. hi
      BY <2>4, <3>3, <3>4
    <3>6. QED BY <2>5, <3>1, <3>5
  <2>7. TotalBytes(groups[k]) <= ceiling
    BY <2>1 DEF Modest
  <2>8. QED BY <2>1, <2>5, <2>6, <2>7 DEF Modest
<1>7. ASSUME NEW k \in DOMAIN groups, NEW i \in 2 .. mergeFactor
      PROVE  \E j \in 1 .. i - 1 :
               /\ groups[k][i].bytes <= groups[k][j].bytes * SizeTierRatio
               /\ \E h \in 1 .. i - 1 : groups[k][i].bytes * SizeTierRatio >= groups[k][h].bytes
  BY <1>6 DEF Tiered
<1>8. QED BY <1>2, <1>6, <1>7 DEF PlansAreRuns, groups

\* Segments end to end are a line.
LEMMA EndToEndTiles ==
  ASSUME NEW d, NEW m \in Nat, NEW sizes \in [1 .. m -> Sizes]
  PROVE  Tiling(EndToEnd(d, sizes), d)
<1> DEFINE seg(k) == [dir |-> d, first |-> 2 * k, last |-> 2 * k + 1, bytes |-> sizes[k]]
           segs == EndToEnd(d, sizes)
           f == [k \in 1 .. m |-> seg(k)]
<1>1. /\ \A s \in segs : \E k \in 1 .. m : s = seg(k)
      /\ \A k \in 1 .. m : seg(k) \in segs
  BY DEF EndToEnd
<1>2. \A k \in 1 .. m : /\ seg(k).dir = d /\ seg(k).first = 2 * k /\ seg(k).last = 2 * k + 1
                       /\ seg(k).bytes \in Nat
  BY PlansAssumption
<1>3. IsFiniteSet(segs)
  <2>1. f \in Surjection(1 .. m, segs)
    BY <1>1 DEF Surjection
  <2>2. IsFiniteSet(1 .. m)
    BY FS_Interval
  <2>3. QED BY <2>1, <2>2, FS_Surjection
<1> HIDE DEF seg, segs
<1>4. \A s \in segs : /\ s.dir = d /\ s.first \in Int /\ s.last \in Int /\ s.first <= s.last
                      /\ s.bytes \in Nat
  <2> SUFFICES ASSUME NEW s \in segs
               PROVE  /\ s.dir = d /\ s.first \in Int /\ s.last \in Int /\ s.first <= s.last
                      /\ s.bytes \in Nat
    OBVIOUS
  <2>1. PICK k \in 1 .. m : s = seg(k)
    BY <1>1
  <2>2. 2 * k \in Int /\ 2 * k + 1 \in Int /\ 2 * k <= 2 * k + 1
    OBVIOUS
  <2>3. QED BY <1>2, <2>1, <2>2
<1>5. ASSUME NEW s \in segs, NEW t \in segs, s # t
      PROVE  s.last < t.first \/ t.last < s.first
  <2>1. PICK k \in 1 .. m : s = seg(k)
    BY <1>1
  <2>2. PICK j \in 1 .. m : t = seg(j)
    BY <1>1
  <2>3. k < j \/ j < k
    BY <1>5, <2>1, <2>2
  <2>4. 2 * k + 1 < 2 * j \/ 2 * j + 1 < 2 * k
    BY <2>3
  <2>5. QED BY <1>2, <2>1, <2>2, <2>4
<1>6. ASSUME NEW s \in segs, NEW t \in segs, s.last < t.first
      PROVE  \E u \in segs : u.first = s.last + 1
  <2>1. PICK k \in 1 .. m : s = seg(k)
    BY <1>1
  <2>2. PICK j \in 1 .. m : t = seg(j)
    BY <1>1
  <2>3. 2 * k + 1 < 2 * j
    BY <1>2, <1>6, <2>1, <2>2
  <2>4. k + 1 \in 1 .. m /\ 2 * (k + 1) = (2 * k + 1) + 1
    BY <2>3
  <2>5. seg(k + 1) \in segs /\ seg(k + 1).first = s.last + 1
    BY <1>1, <1>2, <2>1, <2>4
  <2>6. QED BY <2>5
<1>7. Tiling(segs, d)
  BY <1>3, <1>4, <1>5, <1>6 DEF Tiling
<1>8. QED BY <1>7 DEF segs

\* Merges as planned lose no offset and list none twice, for segments of any sizes,
\* any merge factor and any ceiling; each takes as many segments as it should, that
\* follow each other in the log with no other between them, of sizes within the
\* ratio, and rewrites no more than the ceiling.
THEOREM MergesAreOfNeighbours == Spec => []MergesTakeNeighbours
<1>1. Probes => MergesTakeNeighbours
  <2> SUFFICES ASSUME Probes, probe.kind = "plan"
               PROVE  PlansAreRuns(probe.segments, probe.mergeFactor, probe.ceiling)
    BY DEF MergesTakeNeighbours
  <2>1. probe.mergeFactor \in Nat \ {0, 1}
    BY PlansAssumption DEF Probes, PlanProbe
  <2>2. PICK sizes \in SeqsUpTo(Sizes, MaxSegments) : probe.segments = EndToEnd("p0", sizes)
    BY DEF Probes, PlanProbe
  <2>3. PICK m \in 0 .. MaxSegments : sizes \in [1 .. m -> Sizes]
    BY <2>2 DEF SeqsUpTo
  <2>4. m \in Nat
    BY BoundsAssumption
  <2>5. Tiling(EndToEnd("p0", sizes), "p0")
    BY <2>3, <2>4, EndToEndTiles
  <2>6. QED BY <2>1, <2>2, <2>5, PlansStand
<1>2. QED BY <1>1, ProbesAlways, PTL
-----------------------------------------------------------------------------
(* The live set of several partitions. *)

\* One segment of the union: a key's first one stays.
Joined(seen, s) == IF \E t \in seen : SameKey(s, t) THEN seen ELSE seen \cup {s}

UnionWalk(seen, n, segs) ==
  seen[0] = {} /\ \A k \in 1 .. n : seen[k] = Joined(seen[k - 1], segs[k])

LinesOf(manifests) == [k \in DOMAIN manifests |-> ByOffset(manifests[k])]

UnionEnds(manifests, n, segs) ==
  \E seen : UnionWalk(seen, n, segs) /\ UnionManifests(manifests) = seen[n]

\* The union is where this walk along all lines ends.
LEMMA UnionIsWalked ==
  ASSUME NEW S, NEW manifests, NEW segs, NEW n \in Nat, segs \in [1 .. n -> S],
         segs = FlattenSeq(LinesOf(manifests))
  PROVE  UnionEnds(manifests, n, segs)
<1> DEFINE X == SUBSET S
           step == [i \in 1 .. n |-> [x \in X |-> Joined(x, segs[i])]]
           Iter == CHOOSE iter : iter = [s \in SUBSET DOMAIN segs |->
             IF s = {} THEN {} ELSE Joined(iter[s \ {Max(s)}], segs[Max(s)])]
<1>1. {} \in X /\ step \in [1 .. n -> [X -> X]]
  <2>1. \A i \in 1 .. n : \A x \in X : Joined(x, segs[i]) \in X
    BY DEF Joined
  <2>2. {} \in X
    OBVIOUS
  <2> HIDE DEF X
  <2>3. step \in [1 .. n -> [X -> X]]
    BY <2>1
  <2>4. QED BY <2>2, <2>3
<1>2. DOMAIN segs = 1 .. n
  OBVIOUS
<1>3. UnionManifests(manifests) = FoldLeft(LAMBDA seen, s : Joined(seen, s), {}, segs)
  BY DEF UnionManifests, Joined, LinesOf
<1> HIDE DEF step, X
<1>4. PICK g \in [SUBSET (1 .. n) -> X] : Unwinds(g, {}, step, n)
  BY <1>1, FoldSolved
<1>5. g = [s \in SUBSET DOMAIN segs |->
             IF s = {} THEN {} ELSE Joined(g[s \ {Max(s)}], segs[Max(s)])]
  BY <1>2, <1>4 DEF Unwinds, step
<1>6. Iter = [s \in SUBSET DOMAIN segs |->
             IF s = {} THEN {} ELSE Joined(Iter[s \ {Max(s)}], segs[Max(s)])]
  BY <1>5
<1>7. FoldLeft(LAMBDA seen, s : Joined(seen, s), {}, segs) = Iter[DOMAIN segs]
  BY Zenon DEF FoldLeft, MapThenFoldSet
<1> HIDE DEF Iter
<1>8. UnwindsIn(X, Iter, {}, step, n)
  BY <1>2, <1>4, <1>6 DEF step, Unwinds, UnwindsIn
<1>9. WalksTo(X, Iter[1 .. n], {}, step, n)
  BY <1>1, <1>8, FoldWalk
<1>10. PICK w \in [0 .. n -> X] : IsWalk(w, {}, step, n) /\ w[n] = Iter[1 .. n]
  BY <1>9 DEF WalksTo
<1>11. \A k \in 1 .. n : w[k] = Joined(w[k - 1], segs[k])
  <2>1. \A k \in 1 .. n : w[k - 1] \in X
    BY <1>10
  <2>2. QED BY <1>10, <2>1 DEF step, IsWalk
<1>12. UnionWalk(w, n, segs)
  BY <1>10, <1>11 DEF UnionWalk, IsWalk
<1>13. UnionManifests(manifests) = w[n]
  BY <1>2, <1>3, <1>7, <1>10
<1>14. QED BY <1>12, <1>13 DEF UnionEnds

\* Where no two segments have the same key, the union has them all.
LEMMA UnionHasAll ==
  ASSUME NEW n \in Nat, NEW segs, NEW seen, UnionWalk(seen, n, segs),
         \A i, j \in 1 .. n : SameKey(segs[i], segs[j]) => segs[i] = segs[j]
  PROVE  seen[n] = {segs[i] : i \in 1 .. n}
<1> DEFINE First(k) == {segs[i] : i \in 1 .. k}
           T == {k \in 0 .. n : seen[k] = First(k)}
<1>1. 0 \in T
  BY DEF UnionWalk
<1>2. ASSUME NEW i \in 0 .. n - 1, i \in T PROVE i + 1 \in T
  <2> DEFINE k == i + 1
  <2>1. /\ k \in 1 .. n /\ k - 1 = i /\ k \in 0 .. n
        /\ \A j : j \in 1 .. k <=> j \in 1 .. i \/ j = k
        /\ \A j : j \in 1 .. i => j \in 1 .. n
    OBVIOUS
  <2>2. seen[i] = First(i) /\ seen[k] = Joined(seen[i], segs[k])
    BY <1>2, <2>1 DEF UnionWalk
  <2> HIDE DEF k
  <2>3. First(k) = First(i) \cup {segs[k]}
    BY <2>1
  <2>4. (\E t \in First(i) : SameKey(segs[k], t)) => segs[k] \in First(i)
    BY <2>1
  <2> HIDE DEF First
  <2>5. seen[k] = First(k)
    BY <2>2, <2>3, <2>4 DEF Joined
  <2>6. QED BY <2>1, <2>5 DEF k
<1>3. \A k \in 0 .. n : k \in T
  <2> HIDE DEF T
  <2>1. QED BY <1>1, <1>2, UpTo
<1>4. n \in 0 .. n
  OBVIOUS
<1>5. QED BY <1>3, <1>4

\* Partitions are told apart by their directories.
LEMMA UnionKeeps ==
  ASSUME NEW dirs, NEW m \in Nat, NEW manifests, DOMAIN manifests = 1 .. m,
         \A k \in 1 .. m : Tiling(manifests[k], dirs[k]),
         \A k, j \in 1 .. m : dirs[k] = dirs[j] => k = j
  PROVE  UnionKeepsEverySegment(manifests)
<1> DEFINE all == UNION Range(manifests)
           seqs == LinesOf(manifests)
           segs == FlattenSeq(seqs)
           n == Len(segs)
<1>1. \A x : x \in all <=> \E k \in 1 .. m : x \in manifests[k]
  BY DEF Range
<1>2. ASSUME NEW k \in 1 .. m
      PROVE  /\ seqs[k] \in Seq(manifests[k])
             /\ \A x : x \in Range(seqs[k]) <=> x \in manifests[k]
  <2>1. PICK l \in Nat : InLine(ByOffset(manifests[k]), l, manifests[k], dirs[k])
    BY ByOffsetIs
  <2>2. seqs[k] = ByOffset(manifests[k])
    BY DEF LinesOf
  <2> HIDE DEF seqs
  <2>3. /\ seqs[k] \in [1 .. l -> manifests[k]]
        /\ \A s \in manifests[k] : \E i \in 1 .. l : seqs[k][i] = s
    BY <2>1, <2>2 DEF InLine
  <2>4. seqs[k] \in Seq(manifests[k])
    BY <2>3, SeqDef
  <2>5. \A x : x \in Range(seqs[k]) <=> x \in manifests[k]
    <3> DEFINE f == seqs[k]
               M == manifests[k]
    <3>1. f \in [1 .. l -> M] /\ \A s \in M : \E i \in 1 .. l : f[i] = s
      BY <2>3
    <3> HIDE DEF f, M
    <3>2. \A x : x \in Range(f) <=> x \in M
      BY <3>1 DEF Range
    <3>3. QED BY <3>2 DEF f, M
  <2>6. QED BY <2>4, <2>5
<1> HIDE DEF all
<1>3. seqs \in [1 .. m -> Seq(all)]
  <2>1. \A k \in 1 .. m : manifests[k] \subseteq all
    BY <1>1
  <2>2. \A k \in 1 .. m : seqs[k] \in Seq(all)
    <3> SUFFICES ASSUME NEW k \in 1 .. m PROVE seqs[k] \in Seq(all)
      OBVIOUS
    <3>1. seqs[k] \in Seq(manifests[k]) /\ manifests[k] \subseteq all
      BY <1>2, <2>1
    <3> HIDE DEF seqs
    <3>2. QED BY <3>1
  <2>3. seqs = [k \in 1 .. m |-> seqs[k]]
    BY DEF LinesOf
  <2> HIDE DEF seqs
  <2>4. QED BY <2>2, <2>3
<1>4. segs = FlattenSeq(LinesOf(manifests))
  OBVIOUS
<1> HIDE DEF seqs
<1>5. segs \in Seq(all) /\ \A x : x \in Range(segs) <=> x \in all
  <2>1. /\ segs \in Seq(all)
        /\ \A x : x \in Range(segs) <=> \E k \in 1 .. m : x \in Range(seqs[k])
    BY <1>3, FlattenHasAll
  <2>2. QED BY <1>1, <1>2, <2>1
<1> HIDE DEF segs
<1>6. n \in Nat /\ segs \in [1 .. n -> all]
  BY <1>5, LenProperties
<1>7. {segs[i] : i \in 1 .. n} = all
  BY <1>5, <1>6 DEF Range
<1> HIDE DEF n
<1>8. ASSUME NEW s \in all, NEW t \in all, s # t
      PROVE  ~SameKey(s, t) /\ OffsetsOf(s) \cap OffsetsOf(t) = {}
  <2>1. PICK k \in 1 .. m : s \in manifests[k]
    BY <1>1
  <2>2. PICK j \in 1 .. m : t \in manifests[j]
    BY <1>1
  <2>3. /\ s.dir = dirs[k] /\ t.dir = dirs[j]
        /\ s.first \in Int /\ s.last \in Int /\ s.first <= s.last
        /\ t.first \in Int /\ t.last \in Int /\ t.first <= t.last
    BY <2>1, <2>2 DEF Tiling
  <2>4. CASE k # j
    <3>1. s.dir # t.dir
      BY <2>3, <2>4
    <3>2. QED BY <3>1 DEF SameKey, OffsetsOf
  <2>5. CASE k = j
    <3>1. s.last < t.first \/ t.last < s.first
      BY <1>8, <2>1, <2>2, <2>5 DEF Tiling
    <3>2. s.first # t.first
      BY <2>3, <3>1
    <3>3. ASSUME NEW o \in s.first .. s.last, NEW q \in t.first .. t.last PROVE o # q
      BY <2>3, <3>1
    <3>4. QED BY <3>2, <3>3 DEF SameKey, OffsetsOf
  <2>6. QED BY <2>4, <2>5
<1>9. UnionManifests(manifests) = all
  <2>5. UnionEnds(manifests, n, segs)
    BY <1>4, <1>6, UnionIsWalked
  <2>1. PICK seen : UnionWalk(seen, n, segs) /\ UnionManifests(manifests) = seen[n]
    BY <2>5 DEF UnionEnds
  <2>2. \A i, j \in 1 .. n : SameKey(segs[i], segs[j]) => segs[i] = segs[j]
    BY <1>6, <1>8
  <2>3. seen[n] = {segs[i] : i \in 1 .. n}
    BY <1>6, <2>1, <2>2, UnionHasAll
  <2>4. QED BY <1>7, <2>1, <2>3
<1>10. SameOffsetsOnce(all, all)
  BY <1>8 DEF SameOffsetsOnce
<1>11. QED BY <1>9, <1>10 DEF UnionKeepsEverySegment, all

\* The live set of two partitions has every segment of each, whatever sizes they
\* have: partitions number their offsets alike, and directories tell them apart.
THEOREM PartitionsKeepApart == Spec => []PartitionsStayApart
<1>1. Probes => PartitionsStayApart
  <2> SUFFICES ASSUME Probes, probe.kind = "union"
               PROVE  UnionKeepsEverySegment(probe.manifests)
    BY DEF PartitionsStayApart
  <2>1. PICK x \in SeqsUpTo(Sizes, 2), y \in SeqsUpTo(Sizes, 2) :
          probe.manifests = <<EndToEnd("p0", x), EndToEnd("p1", y)>>
    BY DEF Probes, UnionProbe
  <2>2. PICK k \in 0 .. 2 : x \in [1 .. k -> Sizes]
    BY DEF SeqsUpTo
  <2>3. PICK j \in 0 .. 2 : y \in [1 .. j -> Sizes]
    BY DEF SeqsUpTo
  <2>4. Tiling(EndToEnd("p0", x), "p0") /\ Tiling(EndToEnd("p1", y), "p1")
    <3>1. k \in Nat /\ j \in Nat
      OBVIOUS
    <3>2. QED BY <2>2, <2>3, <3>1, EndToEndTiles
  <2> DEFINE dirs == <<"p0", "p1">>
             manifests == probe.manifests
             first == EndToEnd("p0", x)
             second == EndToEnd("p1", y)
  <2>5. DOMAIN manifests = 1 .. 2 /\ manifests[1] = first /\ manifests[2] = second
    <3> HIDE DEF first, second
    <3>1. manifests = <<first, second>>
      BY <2>1 DEF first, second
    <3> HIDE DEF manifests
    <3>2. QED BY <3>1
  <2>6. dirs[1] = "p0" /\ dirs[2] = "p1"
    OBVIOUS
  <2>7. \A i \in 1 .. 2 : i = 1 \/ i = 2
    OBVIOUS
  <2>8. Tiling(first, "p0") /\ Tiling(second, "p1")
    BY <2>4
  <2> HIDE DEF dirs, manifests, first, second
  <2>9. \A i \in 1 .. 2 : Tiling(manifests[i], dirs[i])
    BY <2>5, <2>6, <2>7, <2>8
  <2>10. \A i, l \in 1 .. 2 : dirs[i] = dirs[l] => i = l
    BY <2>6, <2>7
  <2>11. UnionKeepsEverySegment(manifests)
    BY <2>5, <2>9, <2>10, UnionKeeps
  <2>12. QED BY <2>11 DEF manifests
<1>2. QED BY <1>1, ProbesAlways, PTL
-----------------------------------------------------------------------------
(* Down a tree. *)

IsTree(tree) ==
  /\ tree \in Seq(Range(tree)) /\ Len(tree) \in Nat \ {0} /\ DOMAIN tree = 1 .. Len(tree)
  /\ \A n \in 1 .. Len(tree) :
       /\ tree[n].value \in Int
       /\ tree[n].leaf \/ (tree[n].left \in n .. Len(tree) - 1 /\ tree[n].right \in n .. Len(tree) - 1)

Moved(tree, row, n) == IF tree[n + 1].leaf THEN n ELSE Child(tree[n + 1], row)

IsPath(p, tree, row) ==
  /\ p \in [0 .. Len(tree) -> 0 .. Len(tree) - 1] /\ p[0] = 0
  /\ \A k \in 1 .. Len(tree) : p[k] = Moved(tree, row, p[k - 1])

\* A step stays in the tree, and goes on unless it is at a leaf.
LEMMA MovedIs ==
  ASSUME NEW tree, IsTree(tree), NEW row, NEW n \in 0 .. Len(tree) - 1
  PROVE  /\ Moved(tree, row, n) \in 0 .. Len(tree) - 1
         /\ tree[n + 1].leaf => Moved(tree, row, n) = n
         /\ ~tree[n + 1].leaf => Moved(tree, row, n) = Child(tree[n + 1], row)
                                 /\ Moved(tree, row, n) > n
<1>1. n + 1 \in 1 .. Len(tree) /\ Len(tree) \in Nat
  BY DEF IsTree
<1>2. CASE tree[n + 1].leaf
  BY <1>2 DEF Moved
<1>3. CASE ~tree[n + 1].leaf
  <2>1. /\ tree[n + 1].left \in n + 1 .. Len(tree) - 1
        /\ tree[n + 1].right \in n + 1 .. Len(tree) - 1
    BY <1>1, <1>3 DEF IsTree
  <2>2. Child(tree[n + 1], row) \in n + 1 .. Len(tree) - 1
    BY <2>1 DEF Child
  <2>3. Moved(tree, row, n) = Child(tree[n + 1], row)
    BY <1>3 DEF Moved
  <2>4. QED BY <1>1, <1>3, <2>2, <2>3
<1>4. QED BY <1>2, <1>3

\* There is a path down every tree.
LEMMA PathExists ==
  ASSUME NEW tree, IsTree(tree), NEW row
  PROVE  \E p : IsPath(p, tree, row)
<1> DEFINE m == Len(tree)
           X == 0 .. m - 1
           step == [i \in 1 .. m |-> [x \in X |-> Moved(tree, row, x)]]
<1>1. m \in Nat /\ 0 \in X
  BY DEF IsTree
<1>2. \A x \in X : Moved(tree, row, x) \in X
  BY MovedIs
<1> HIDE DEF m, X
<1>3. step \in [1 .. m -> [X -> X]]
  BY <1>2
<1> HIDE DEF step
<1>4. PICK p \in [0 .. m -> X] : IsWalk(p, 0, step, m)
  BY <1>1, <1>3, WalkExists
<1>5. \A k \in 1 .. m : p[k] = Moved(tree, row, p[k - 1])
  <2>1. \A k \in 1 .. m : p[k - 1] \in X
    BY <1>1, <1>4
  <2>2. QED BY <1>4, <2>1 DEF IsWalk, step
<1>6. IsPath(p, tree, row)
  BY <1>4, <1>5 DEF IsPath, IsWalk, m, X
<1>7. QED BY <1>6

\* A path ends at a leaf, and passes no other.
LEMMA PathEnds ==
  ASSUME NEW tree, IsTree(tree), NEW row, NEW p, IsPath(p, tree, row)
  PROVE  /\ tree[p[Len(tree)] + 1].leaf
         /\ \A k \in 0 .. Len(tree) : tree[p[k] + 1].leaf => p[k] = p[Len(tree)]
<1> DEFINE m == Len(tree)
<1>1. m \in Nat \ {0}
  BY DEF IsTree
<1>2. /\ \A k \in 0 .. m : p[k] \in 0 .. m - 1
      /\ p[0] = 0 /\ \A k \in 1 .. m : p[k] = Moved(tree, row, p[k - 1])
  BY DEF IsPath
<1>3. ASSUME NEW i \in 0 .. m - 1
      PROVE  /\ tree[p[i] + 1].leaf => p[i + 1] = p[i]
             /\ ~tree[p[i] + 1].leaf => p[i + 1] > p[i]
  <2>1. i \in 0 .. m /\ i + 1 \in 1 .. m /\ (i + 1) - 1 = i
    BY <1>1
  <2>2. p[i] \in 0 .. m - 1 /\ p[i + 1] = Moved(tree, row, p[i])
    BY <1>2, <2>1
  <2>3. QED BY <2>2, MovedIs
<1> HIDE DEF m
<1> DEFINE S == {k \in 0 .. m : tree[p[k] + 1].leaf \/ p[k] >= k}
<1>4. m \in S
  <2>1. 0 \in S
    BY <1>1, <1>2
  <2>2. ASSUME NEW i \in 0 .. m - 1, i \in S PROVE i + 1 \in S
    <3>1. i + 1 \in 0 .. m /\ i \in 0 .. m /\ p[i] \in Int /\ p[i + 1] \in Int
      BY <1>1, <1>2
    <3>2. CASE tree[p[i] + 1].leaf
      BY <1>3, <3>1, <3>2
    <3>3. CASE ~tree[p[i] + 1].leaf
      BY <1>3, <2>2, <3>1, <3>3
    <3>4. QED BY <3>2, <3>3
  <2>3. \A k \in 0 .. m : k \in S
    <3> HIDE DEF S
    <3>1. QED BY <1>1, <2>1, <2>2, UpTo
  <2>4. m \in 0 .. m
    BY <1>1
  <2>5. QED BY <2>3, <2>4
<1>5. tree[p[m] + 1].leaf
  <2>1. p[m] \in 0 .. m - 1
    BY <1>1, <1>2
  <2>2. QED BY <1>1, <1>4, <2>1
<1>6. ASSUME NEW k \in 0 .. m, tree[p[k] + 1].leaf PROVE p[k] = p[m]
  <2> DEFINE T == {j \in 0 .. m : k <= j => p[j] = p[k]}
  <2>1. 0 \in T
    BY <1>1
  <2>2. ASSUME NEW i \in 0 .. m - 1, i \in T PROVE i + 1 \in T
    <3>1. i + 1 \in 0 .. m
      BY <1>1
    <3>2. CASE k <= i
      BY <1>3, <1>6, <2>2, <3>1, <3>2
    <3>3. CASE k = i + 1
      BY <3>1, <3>3
    <3>4. CASE i + 1 < k
      BY <3>1, <3>4
    <3>5. QED BY <3>2, <3>3, <3>4
  <2>3. \A j \in 0 .. m : j \in T
    <3> HIDE DEF T
    <3>1. QED BY <1>1, <2>1, <2>2, UpTo
  <2>4. m \in 0 .. m /\ k <= m
    BY <1>1
  <2>5. QED BY <2>3, <2>4
<1>7. QED BY <1>5, <1>6 DEF m

\* What LeafOf() asks of the nodes a row reaches.
Reaches(S, tree, row) ==
  /\ 0 \in S
  /\ \A n \in S : ~tree[n + 1].leaf => Child(tree[n + 1], row) \in S
  /\ Cardinality({n \in S : tree[n + 1].leaf}) = 1
  /\ \A n \in S \ {0} : \E m \in S : ~tree[m + 1].leaf /\ Child(tree[m + 1], row) = n

\* A path reaches such nodes, and whatever nodes are such have its end as their leaf.
LEMMA LeafIs ==
  ASSUME NEW tree, IsTree(tree), NEW row, NEW p, IsPath(p, tree, row)
  PROVE  LeafOf(tree, row) = p[Len(tree)]
<1> DEFINE m == Len(tree)
           end == p[m]
           nodes == 0 .. m - 1
           on == {p[k] : k \in 0 .. m}
<1>1. m \in Nat \ {0}
  BY DEF IsTree
<1>2. /\ \A k \in 0 .. m : p[k] \in nodes
      /\ p[0] = 0 /\ \A k \in 1 .. m : p[k] = Moved(tree, row, p[k - 1])
  BY DEF IsPath
<1>3. tree[end + 1].leaf /\ \A k \in 0 .. m : tree[p[k] + 1].leaf => p[k] = end
  BY PathEnds
<1>4. ASSUME NEW i \in 0 .. m - 1
      PROVE  /\ i + 1 \in 0 .. m
             /\ tree[p[i] + 1].leaf => p[i + 1] = p[i]
             /\ ~tree[p[i] + 1].leaf => p[i + 1] = Child(tree[p[i] + 1], row)
  <2>1. i \in 0 .. m /\ i + 1 \in 1 .. m /\ (i + 1) - 1 = i /\ i + 1 \in 0 .. m
    BY <1>1
  <2>2. p[i] \in nodes /\ p[i + 1] = Moved(tree, row, p[i])
    BY <1>2, <2>1
  <2>3. QED BY <2>1, <2>2, MovedIs
<1>5. m \in 0 .. m /\ end \in nodes /\ 0 \in 0 .. m
  BY <1>1, <1>2
<1> HIDE DEF m, end
<1>6. Reaches(on, tree, row)
  <2>1. 0 \in on
    BY <1>2, <1>5
  <2>2. ASSUME NEW n \in on, ~tree[n + 1].leaf PROVE Child(tree[n + 1], row) \in on
    <3>1. PICK k \in 0 .. m : n = p[k]
      OBVIOUS
    <3>2. k # m
      BY <1>3, <2>2, <3>1 DEF end
    <3>3. k \in 0 .. m - 1
      BY <1>1, <3>2
    <3>4. QED BY <1>4, <2>2, <3>1, <3>3
  <2>3. {n \in on : tree[n + 1].leaf} = {end}
    <3>1. end \in on
      BY <1>5 DEF end
    <3>2. QED BY <1>3, <3>1
  <2>4. Cardinality({end}) = 1
    BY FS_Singleton
  <2>5. ASSUME NEW n \in on \ {0}
        PROVE  \E q \in on : ~tree[q + 1].leaf /\ Child(tree[q + 1], row) = n
    <3> DEFINE K == {k \in 0 .. m : p[k] = n}
    <3>1. PICK k \in K : \A j \in K : k <= j
      <4>1. K \in SUBSET Nat /\ K # {}
        OBVIOUS
      <4> HIDE DEF K
      <4>2. QED BY <4>1, LeastNatural
    <3>2. k \in 0 .. m /\ p[k] = n /\ k # 0
      BY <1>2
    <3> DEFINE i == k - 1
    <3>3. i \in 0 .. m - 1 /\ i + 1 = k /\ i \in 0 .. m
      BY <1>1, <3>2
    <3>4. p[i] # n
      BY <3>1, <3>3
    <3> HIDE DEF i, K
    <3>5. ~tree[p[i] + 1].leaf /\ Child(tree[p[i] + 1], row) = n
      BY <1>4, <3>2, <3>3, <3>4
    <3>6. p[i] \in on
      BY <3>3
    <3>7. QED BY <3>5, <3>6
  <2> HIDE DEF on
  <2>6. QED BY <2>1, <2>2, <2>3, <2>4, <2>5 DEF Reaches
<1>7. on \in SUBSET nodes
  BY <1>2
<1> DEFINE reached == CHOOSE S \in SUBSET nodes : Reaches(S, tree, row)
<1>8. reached \in SUBSET nodes /\ Reaches(reached, tree, row)
  <2> HIDE DEF on, nodes
  <2>1. QED BY <1>6, <1>7
<1>9. LeafOf(tree, row) = CHOOSE n \in reached : tree[n + 1].leaf
  BY DEF LeafOf, Reaches, m
<1> HIDE DEF reached, on
<1>10. end \in reached
  <2> DEFINE T == {k \in 0 .. m : p[k] \in reached}
  <2>1. 0 \in T
    BY <1>2, <1>5, <1>8 DEF Reaches
  <2>2. ASSUME NEW i \in 0 .. m - 1, i \in T PROVE i + 1 \in T
    <3>1. p[i] \in reached /\ i + 1 \in 0 .. m
      BY <1>4, <2>2
    <3>2. CASE tree[p[i] + 1].leaf
      BY <1>4, <3>1, <3>2
    <3>3. CASE ~tree[p[i] + 1].leaf
      BY <1>4, <1>8, <3>1, <3>3 DEF Reaches
    <3>4. QED BY <3>2, <3>3
  <2>3. \A k \in 0 .. m : k \in T
    <3> HIDE DEF T
    <3>1. QED BY <1>1, <2>1, <2>2, UpTo
  <2>4. QED BY <1>5, <2>3 DEF end
<1>11. ASSUME NEW n \in reached, tree[n + 1].leaf PROVE n = end
  <2> DEFINE leaves == {q \in reached : tree[q + 1].leaf}
  <2>1. Cardinality(leaves) = 1
    BY <1>8 DEF Reaches
  <2>2. IsFiniteSet(leaves)
    <3>1. IsFiniteSet(nodes)
      BY <1>1, FS_Interval
    <3>2. leaves \in SUBSET nodes
      BY <1>8
    <3>3. QED BY <3>1, <3>2, FS_Subset
  <2>3. n \in leaves /\ end \in leaves
    BY <1>3, <1>10, <1>11
  <2> HIDE DEF leaves
  <2>4. \E x : leaves = {x}
    BY <2>1, <2>2, FS_Singleton
  <2>5. QED BY <2>3, <2>4
<1>12. LeafOf(tree, row) = end
  BY <1>3, <1>9, <1>10, <1>11
<1>13. QED BY <1>12 DEF end, m
-----------------------------------------------------------------------------
(* Trees end to end. *)

\* The sum of the lengths of some trees.
LEMMA LengthsAdd ==
  ASSUME NEW n \in Nat, NEW some, DOMAIN some = 1 .. n, \A k \in 1 .. n : Len(some[k]) \in Nat,
         NEW o, StartsAt(o, some, n)
  PROVE  FoldLeft(LAMBDA sum, tree : sum + Len(tree), 0, some) = o[n]
<1> DEFINE step == [i \in 1 .. n |-> [x \in Nat |-> x + Len(some[i])]]
           Iter == CHOOSE iter : iter = [s \in SUBSET DOMAIN some |->
             IF s = {} THEN 0 ELSE iter[s \ {Max(s)}] + Len(some[Max(s)])]
<1>1. 0 \in Nat /\ step \in [1 .. n -> [Nat -> Nat]]
  OBVIOUS
<1> HIDE DEF step
<1>2. PICK g \in [SUBSET (1 .. n) -> Nat] : Unwinds(g, 0, step, n)
  BY <1>1, FoldSolved
<1>3. g = [s \in SUBSET DOMAIN some |->
             IF s = {} THEN 0 ELSE g[s \ {Max(s)}] + Len(some[Max(s)])]
  BY <1>2 DEF Unwinds, step
<1>4. Iter = [s \in SUBSET DOMAIN some |->
             IF s = {} THEN 0 ELSE Iter[s \ {Max(s)}] + Len(some[Max(s)])]
  BY <1>3
<1>5. FoldLeft(LAMBDA sum, tree : sum + Len(tree), 0, some) = Iter[DOMAIN some]
  BY Zenon DEF FoldLeft, MapThenFoldSet
<1> HIDE DEF Iter
<1>6. UnwindsIn(Nat, Iter, 0, step, n)
  BY <1>2, <1>4 DEF step, Unwinds, UnwindsIn
<1>7. WalksTo(Nat, Iter[1 .. n], 0, step, n)
  BY <1>1, <1>6, FoldWalk
<1>8. PICK w \in [0 .. n -> Nat] : IsWalk(w, 0, step, n) /\ w[n] = Iter[1 .. n]
  BY <1>7 DEF WalksTo
<1>9. w[0] = 0 /\ \A k \in 1 .. n : w[k] = w[k - 1] + Len(some[k])
  <2>1. \A k \in 1 .. n : w[k - 1] \in Nat
    BY <1>8
  <2>2. QED BY <1>8, <2>1 DEF step, IsWalk
<1>10. o[0] = 0 /\ \A k \in 1 .. n : o[k] = o[k - 1] + Len(some[k])
  BY DEF StartsAt
<1>11. w[n] = o[n]
  <2>1. Together(w, o, n)
    BY <1>9, <1>10 DEF Together
  <2>2. QED BY <2>1, EndTogether
<1>12. Iter[DOMAIN some] = o[n]
  BY <1>8, <1>11
<1>13. QED BY Zenon, <1>5, <1>12

\* What export_estimator() makes: every tree's nodes stand from its start on.
LaidOut(model, trees, n, o) ==
  /\ StartsAt(o, trees, n)
  /\ DOMAIN model.offsets = 1 .. n + 1 /\ Len(model.offsets) = n + 1
  /\ \A t \in 1 .. n + 1 : model.offsets[t] = o[t - 1]
  /\ \A t \in 1 .. n : \A i \in 1 .. Len(trees[t]) : model.nodes[o[t - 1] + i] = trees[t][i]

Forest(trees, n) ==
  /\ n \in Nat /\ trees = [t \in 1 .. n |-> trees[t]]
  /\ DOMAIN trees = 1 .. n /\ Len(trees) = n /\ \A t \in 1 .. n : IsTree(trees[t])

\* Nodes of trees one after the other.
LEMMA NodesStand ==
  ASSUME NEW trees, NEW n, Forest(trees, n), NEW o, StartsAt(o, trees, n)
  PROVE  \A t \in 1 .. n : \A i \in 1 .. Len(trees[t]) : FlattenSeq(trees)[o[t - 1] + i] = trees[t][i]
<1>1. /\ n \in Nat /\ DOMAIN trees = 1 .. n
      /\ \A t \in 1 .. n : DOMAIN trees[t] = 1 .. Len(trees[t]) /\ Len(trees[t]) \in Nat
  BY DEF Forest, IsTree
<1> DEFINE S == UNION {Range(trees[t]) : t \in 1 .. n}
<1>2. trees \in [1 .. n -> Seq(S)]
  <2>1. ASSUME NEW t \in 1 .. n PROVE trees[t] \in Seq(S)
    <3> DEFINE tree == trees[t]
               m == Len(tree)
    <3>1. \A i \in 1 .. m : tree[i] \in S
      BY <1>1 DEF Range
    <3>2. DOMAIN tree = 1 .. m /\ m \in Nat
      BY <1>1
    <3>3. tree \in Seq(Range(tree))
      BY DEF Forest, IsTree
    <3> HIDE DEF S, tree, m
    <3>4. tree \in [1 .. m -> S]
      BY <3>1, <3>2, <3>3
    <3>5. tree \in Seq(S)
      BY <3>2, <3>4, SeqDef
    <3>6. QED BY <3>5 DEF tree
  <2>2. trees = [t \in 1 .. n |-> trees[t]]
    BY DEF Forest
  <2> HIDE DEF S
  <2>3. QED BY <2>1, <2>2
<1> HIDE DEF S
<1>3. PICK w \in [0 .. n -> Seq(S)] : Joins(w, trees, n) /\ FlattenSeq(trees) = w[n]
  BY <1>1, <1>2, FlattenWalks
<1>4. /\ w[0] = <<>> /\ \A k \in 1 .. n : w[k] = w[k - 1] \o trees[k]
      /\ o[0] = 0 /\ \A k \in 1 .. n : o[k] = o[k - 1] + Len(trees[k])
      /\ \A k \in 0 .. n : o[k] \in Nat
  BY <1>3 DEF Joins, StartsAt
<1> DEFINE Good(k) == /\ Len(w[k]) = o[k]
                      /\ \A t \in 1 .. k : \A i \in 1 .. Len(trees[t]) :
                           /\ o[t - 1] + i <= o[k] /\ w[k][o[t - 1] + i] = trees[t][i]
           T == {k \in 0 .. n : Good(k)}
<1>5. 0 \in T
  <2>1. Len(w[0]) = 0
    BY <1>4
  <2>2. QED BY <1>1, <1>4, <2>1
<1>6. ASSUME NEW j \in 0 .. n - 1, j \in T PROVE j + 1 \in T
  <2> DEFINE k == j + 1
  <2>1. k \in 1 .. n /\ k - 1 = j /\ k \in 0 .. n /\ j \in 0 .. n /\ j \in Nat
    BY <1>1
  <2>2. \A t : t \in 1 .. k <=> t \in 1 .. j \/ t = k
    BY <2>1
  <2>3. Good(j)
    BY <1>6
  <2> HIDE DEF k
  <2>4. /\ w[k] = w[j] \o trees[k] /\ w[j] \in Seq(S) /\ trees[k] \in Seq(S)
        /\ o[k] = o[j] + Len(trees[k]) /\ o[j] \in Nat /\ o[k] \in Nat
    BY <1>2, <1>4, <2>1
  <2> DEFINE before == w[j]
             tree == trees[k]
             after == w[k]
             m == Len(tree)
  <2>5. /\ Len(before) = o[j] /\ Len(after) = o[j] + m /\ m \in Nat
        /\ \A i \in 1 .. o[j] : after[i] = before[i]
        /\ \A i \in 1 .. m : after[o[j] + i] = tree[i]
    <3> DEFINE l == o[j]
    <3>1. /\ before \in Seq(S) /\ tree \in Seq(S) /\ after = before \o tree /\ Len(before) = l
      BY <2>3, <2>4
    <3> HIDE DEF before, tree, after, l
    <3>2. Concatenates(before, tree, after)
      BY Zenon, <3>1, ConcatIs
    <3>3. /\ Len(before) = l /\ Len(after) = l + m /\ m \in Nat
          /\ \A i \in 1 .. l : after[i] = before[i]
          /\ \A i \in 1 .. m : after[l + i] = tree[i]
      BY <3>1, <3>2 DEF Concatenates
    <3>4. QED BY <3>3 DEF l
  <2>6. Len(after) = o[k]
    BY <2>4, <2>5
  <2>7. ASSUME NEW t \in 1 .. k, NEW i \in 1 .. Len(trees[t])
        PROVE  o[t - 1] + i <= o[k] /\ after[o[t - 1] + i] = trees[t][i]
    <3>1. CASE t \in 1 .. j
      <4>1. o[t - 1] + i <= o[j] /\ before[o[t - 1] + i] = trees[t][i]
        BY <2>3, <3>1
      <4>2. t - 1 \in 0 .. n /\ o[t - 1] \in Nat /\ i \in Nat \ {0}
        <5>1. t \in 1 .. n /\ t - 1 \in 0 .. n
          BY <1>1, <3>1
        <5>2. Len(trees[t]) \in Nat
          BY <1>1, <5>1
        <5>3. QED BY <1>4, <5>1, <5>2
      <4>3. o[t - 1] + i \in 1 .. o[j]
        BY <2>4, <4>1, <4>2
      <4>4. after[o[t - 1] + i] = before[o[t - 1] + i]
        BY <2>5, <4>3
      <4>5. o[j] <= o[k]
        BY <2>4, <2>5
      <4>6. o[t - 1] + i <= o[k]
        BY <2>4, <4>3, <4>5
      <4>7. QED BY <4>1, <4>4, <4>6
    <3>2. CASE t = k
      <4>1. t - 1 = j /\ i \in 1 .. m
        BY <2>1, <3>2
      <4>2. o[j] + i <= o[k]
        BY <2>4, <2>5, <4>1
      <4>3. QED BY <2>5, <3>2, <4>1, <4>2
    <3>3. QED BY <2>2, <3>1, <3>2
  <2>8. Good(k)
    BY <2>6, <2>7
  <2>9. QED BY <2>1, <2>8 DEF k
<1>7. Good(n)
  <2>1. \A k \in 0 .. n : k \in T
    <3> HIDE DEF T
    <3>1. QED BY <1>1, <1>5, <1>6, UpTo
  <2>2. n \in 0 .. n
    BY <1>1
  <2>3. QED BY <2>1, <2>2
<1>8. QED BY <1>3, <1>7

\* export_estimator() lays the trees end to end, each where its offset says.
LEMMA FlattenLays ==
  ASSUME NEW trees, NEW n, Forest(trees, n)
  PROVE  \E o : LaidOut(Flatten(trees), trees, n, o)
<1> DEFINE lengths(t) == FoldLeft(LAMBDA sum, tree : sum + Len(tree), 0, SubSeq(trees, 1, t - 1))
           model == Flatten(trees)
<1>1. /\ n \in Nat /\ DOMAIN trees = 1 .. n /\ Len(trees) = n
      /\ \A k \in 1 .. n : Len(trees[k]) \in Nat
  BY DEF Forest, IsTree
<1>2. PICK o : StartsAt(o, trees, n)
  BY <1>1, StartsExist
<1>3. model.nodes = FlattenSeq(trees) /\ model.offsets = [t \in 1 .. n + 1 |-> lengths(t)]
  BY <1>1 DEF Flatten
<1>4. ASSUME NEW t \in 1 .. n + 1 PROVE lengths(t) = o[t - 1]
  <2> DEFINE some == SubSeq(trees, 1, t - 1)
             k == t - 1
  <2>1. k \in 0 .. n /\ k \in Nat
    BY <1>1
  <2>2. DOMAIN some = 1 .. k /\ \A i \in 1 .. k : some[i] = trees[i]
    <3>1. some = [i \in 1 .. (k - 1 + 1) |-> trees[i + 1 - 1]]
      BY <2>1 DEF SubSeq
    <3>2. k - 1 + 1 = k /\ \A i \in 1 .. k : i + 1 - 1 = i
      BY <2>1
    <3>3. QED BY <3>1, <3>2
  <2>3. lengths(t) = FoldLeft(LAMBDA sum, tree : sum + Len(tree), 0, some)
    OBVIOUS
  <2> HIDE DEF some, lengths
  <2>4. PICK u : StartsAt(u, some, k) /\ u[k] = o[k]
    <3> HIDE DEF k
    <3>1. StartsTo(some, k, o[k])
      BY <1>1, <1>2, <2>1, <2>2, StartsShort
    <3>2. QED BY <3>1 DEF StartsTo
  <2>5. \A i \in 1 .. k : Len(some[i]) \in Nat
    <3>1. \A i \in 1 .. k : i \in 1 .. n
      BY <1>1, <2>1
    <3>2. QED BY <1>1, <2>2, <3>1
  <2> HIDE DEF k
  <2>6. FoldLeft(LAMBDA sum, tree : sum + Len(tree), 0, some) = u[k]
    BY <2>1, <2>2, <2>4, <2>5, LengthsAdd
  <2>7. QED BY <2>3, <2>4, <2>6 DEF k
<1> HIDE DEF lengths, model
<1>5. DOMAIN model.offsets = 1 .. n + 1 /\ Len(model.offsets) = n + 1
  <2>1. n + 1 \in Nat
    BY <1>1
  <2>2. QED BY <1>3, <2>1
<1>6. \A t \in 1 .. n + 1 : model.offsets[t] = o[t - 1]
  BY <1>3, <1>4
<1>7. \A t \in 1 .. n : \A i \in 1 .. Len(trees[t]) : model.nodes[o[t - 1] + i] = trees[t][i]
  BY <1>2, <1>3, NodesStand
<1>8. LaidOut(model, trees, n, o)
  BY <1>2, <1>5, <1>6, <1>7 DEF LaidOut
<1>9. QED BY <1>8 DEF model
-----------------------------------------------------------------------------
(* What trees say of a row. *)

Said(trees, row, t) == trees[t][LeafOf(trees[t], row) + 1].value

Totals(u, trees, row, n, b) ==
  /\ u \in [0 .. n -> Int] /\ u[0] = b
  /\ \A t \in 1 .. n : u[t] = u[t - 1] + Said(trees, row, t)

\* A row ends up at a node of the tree, which says a number.
LEMMA SaidIs ==
  ASSUME NEW trees, NEW n, Forest(trees, n), NEW row, NEW t \in 1 .. n
  PROVE  LeafOf(trees[t], row) \in 0 .. Len(trees[t]) - 1 /\ Said(trees, row, t) \in Int
<1> DEFINE tree == trees[t]
<1>1. IsTree(tree)
  BY DEF Forest
<1> HIDE DEF tree
<1>2. PICK p : IsPath(p, tree, row)
  BY <1>1, PathExists
<1>3. LeafOf(tree, row) = p[Len(tree)]
  BY <1>1, <1>2, LeafIs
<1>4. Len(tree) \in Nat \ {0} /\ Len(tree) \in 0 .. Len(tree)
  BY <1>1 DEF IsTree
<1>5. LeafOf(tree, row) \in 0 .. Len(tree) - 1
  BY <1>2, <1>3, <1>4 DEF IsPath
<1>6. LeafOf(tree, row) + 1 \in 1 .. Len(tree)
  BY <1>4, <1>5
<1>7. tree[LeafOf(tree, row) + 1].value \in Int
  BY <1>1, <1>6 DEF IsTree
<1>8. QED BY <1>5, <1>7 DEF Said, tree

\* What the trees up to each one say.
LEMMA TotalsExist ==
  ASSUME NEW trees, NEW n, Forest(trees, n), NEW row, NEW b \in Int
  PROVE  \E u : Totals(u, trees, row, n, b)
<1> DEFINE step == [i \in 1 .. n |-> [x \in Int |-> x + Said(trees, row, i)]]
<1>1. n \in Nat /\ \A t \in 1 .. n : Said(trees, row, t) \in Int
  BY SaidIs DEF Forest
<1>2. step \in [1 .. n -> [Int -> Int]]
  BY <1>1
<1> HIDE DEF step
<1>3. PICK u \in [0 .. n -> Int] : IsWalk(u, b, step, n)
  BY <1>1, <1>2, WalkExists
<1>4. \A t \in 1 .. n : u[t] = u[t - 1] + Said(trees, row, t)
  <2>1. \A t \in 1 .. n : u[t - 1] \in Int
    BY <1>1, <1>3
  <2>2. QED BY <1>3, <2>1 DEF IsWalk, step
<1>5. Totals(u, trees, row, n, b)
  BY <1>3, <1>4 DEF Totals, IsWalk
<1>6. QED BY <1>5

\* The reference: what all trees say.
SaidByAll(trees, row, b) ==
  FoldLeft(LAMBDA total, tree : total + tree[LeafOf(tree, row) + 1].value, b, trees)

\* The reference adds up what each tree says.
LEMMA SaidAdds ==
  ASSUME NEW trees, NEW n, Forest(trees, n), NEW row, NEW b \in Int,
         NEW u, Totals(u, trees, row, n, b)
  PROVE  SaidByAll(trees, row, b) = u[n]
<1> DEFINE step == [i \in 1 .. n |-> [x \in Int |-> x + Said(trees, row, i)]]
           Iter == CHOOSE iter : iter = [s \in SUBSET DOMAIN trees |->
             IF s = {} THEN b
             ELSE iter[s \ {Max(s)}] + trees[Max(s)][LeafOf(trees[Max(s)], row) + 1].value]
<1>1. n \in Nat /\ DOMAIN trees = 1 .. n /\ \A t \in 1 .. n : Said(trees, row, t) \in Int
  BY SaidIs DEF Forest
<1>2. step \in [1 .. n -> [Int -> Int]]
  BY <1>1
<1> HIDE DEF step
<1>3. PICK g \in [SUBSET (1 .. n) -> Int] : Unwinds(g, b, step, n)
  BY <1>1, <1>2, FoldSolved
<1>4. g = [s \in SUBSET DOMAIN trees |->
             IF s = {} THEN b
             ELSE g[s \ {Max(s)}] + trees[Max(s)][LeafOf(trees[Max(s)], row) + 1].value]
  BY <1>1, <1>3 DEF Unwinds, step, Said
<1>5. Iter = [s \in SUBSET DOMAIN trees |->
             IF s = {} THEN b
             ELSE Iter[s \ {Max(s)}] + trees[Max(s)][LeafOf(trees[Max(s)], row) + 1].value]
  BY <1>4
<1>6. SaidByAll(trees, row, b) = Iter[DOMAIN trees]
  BY Zenon DEF SaidByAll, FoldLeft, MapThenFoldSet
<1> HIDE DEF Iter
<1>7. UnwindsIn(Int, Iter, b, step, n)
  BY <1>1, <1>3, <1>5 DEF step, Unwinds, UnwindsIn, Said
<1>8. WalksTo(Int, Iter[1 .. n], b, step, n)
  BY <1>1, <1>2, <1>7, FoldWalk
<1>9. PICK w \in [0 .. n -> Int] : IsWalk(w, b, step, n) /\ w[n] = Iter[1 .. n]
  BY <1>8 DEF WalksTo
<1>10. w[0] = b /\ \A k \in 1 .. n : w[k] = w[k - 1] + Said(trees, row, k)
  <2>1. \A k \in 1 .. n : w[k - 1] \in Int
    BY <1>1, <1>9
  <2>2. QED BY <1>9, <2>1 DEF step, IsWalk
<1>11. Together(w, u, n)
  BY <1>10 DEF Together, Totals
<1>12. w[n] = u[n]
  BY <1>1, <1>11, EndTogether
<1>13. QED BY <1>1, <1>6, <1>9, <1>12
-----------------------------------------------------------------------------
(* A session on its own. *)

\* A step of _raw_one(), over positions in all nodes.
Went(model, base, row, node) ==
  IF model.nodes[node + 1].leaf THEN node ELSE base + Child(model.nodes[node + 1], row)

LeafAt(model, row, t) ==
  FoldLeft(LAMBDA node, k : Went(model, model.offsets[t], row, node), model.offsets[t],
           [k \in 1 .. model.offsets[t + 1] - model.offsets[t] |-> k])

\* It walks the path down the tree, shifted by the tree's start.
LEMMA LeafAtIs ==
  ASSUME NEW model, NEW trees, NEW n, Forest(trees, n), NEW o, LaidOut(model, trees, n, o),
         NEW row, NEW t \in 1 .. n
  PROVE  LeafAt(model, row, t) = o[t - 1] + LeafOf(trees[t], row)
<1> DEFINE tree == trees[t]
           m == Len(tree)
           base == model.offsets[t]
           X == base .. base + m - 1
           seq == [k \in 1 .. model.offsets[t + 1] - model.offsets[t] |-> k]
           step == [i \in 1 .. m |-> [x \in X |-> Went(model, base, row, x)]]
           Iter == CHOOSE iter : iter = [s \in SUBSET DOMAIN seq |->
             IF s = {} THEN base ELSE Went(model, base, row, iter[s \ {Max(s)}])]
<1>1. IsTree(tree) /\ m \in Nat \ {0} /\ n \in Nat
  BY DEF Forest, IsTree
<1>2. base \in Nat /\ base = o[t - 1] /\ DOMAIN seq = 1 .. m
  <2>1. /\ t - 1 \in 0 .. n /\ t \in 1 .. n + 1 /\ t + 1 \in 1 .. n + 1
        /\ (t + 1) - 1 = t
    BY <1>1
  <2>2. base = o[t - 1] /\ model.offsets[t + 1] = o[t]
    BY <2>1 DEF LaidOut
  <2>3. o[t - 1] \in Nat /\ o[t] = o[t - 1] + m
    BY <2>1 DEF LaidOut, StartsAt
  <2>4. model.offsets[t + 1] - base = m
    BY <1>1, <2>2, <2>3
  <2>5. QED BY <2>2, <2>3, <2>4
<1>4. \A i \in 1 .. m : model.nodes[base + i] = tree[i]
  BY <1>2 DEF LaidOut
<1>5. LeafAt(model, row, t) = FoldLeft(LAMBDA node, k : Went(model, base, row, node), base, seq)
  BY DEF LeafAt
<1> HIDE DEF tree, m, base
<1>6. ASSUME NEW x \in 0 .. m - 1
      PROVE  Went(model, base, row, base + x) = base + Moved(tree, row, x)
  <2>1. x + 1 \in 1 .. m /\ (base + x) + 1 = base + (x + 1)
    BY <1>1, <1>2
  <2>2. model.nodes[(base + x) + 1] = tree[x + 1]
    BY <1>4, <2>1
  <2>3. QED BY <2>2 DEF Went, Moved
<1>7. \A x \in 0 .. m - 1 : Moved(tree, row, x) \in 0 .. m - 1
  BY <1>1, MovedIs DEF m
<1>8. \A x \in X : Went(model, base, row, x) \in X
  <2> SUFFICES ASSUME NEW x \in X PROVE Went(model, base, row, x) \in X
    OBVIOUS
  <2> DEFINE y == x - base
  <2>1. y \in 0 .. m - 1 /\ base + y = x
    BY <1>1, <1>2
  <2> HIDE DEF y, X
  <2>2. Went(model, base, row, x) = base + Moved(tree, row, y) /\ Moved(tree, row, y) \in 0 .. m - 1
    BY <1>6, <1>7, <2>1
  <2>3. QED BY <1>1, <1>2, <2>2 DEF X
<1>9. base \in X /\ m \in Nat
  BY <1>1, <1>2
<1>10. DOMAIN seq = 1 .. m
  BY <1>2
<1> HIDE DEF X, seq
<1>11. step \in [1 .. m -> [X -> X]]
  BY <1>8
<1> HIDE DEF step
<1>12. PICK g \in [SUBSET (1 .. m) -> X] : Unwinds(g, base, step, m)
  BY <1>9, <1>11, FoldSolved
<1>13. g = [s \in SUBSET DOMAIN seq |->
             IF s = {} THEN base ELSE Went(model, base, row, g[s \ {Max(s)}])]
  BY <1>10, <1>12 DEF Unwinds, step
<1>14. Iter = [s \in SUBSET DOMAIN seq |->
             IF s = {} THEN base ELSE Went(model, base, row, Iter[s \ {Max(s)}])]
  BY <1>13
<1>15. FoldLeft(LAMBDA node, k : Went(model, base, row, node), base, seq) = Iter[DOMAIN seq]
  BY Zenon DEF FoldLeft, MapThenFoldSet
<1> HIDE DEF Iter
<1>16. UnwindsIn(X, Iter, base, step, m)
  BY <1>10, <1>12, <1>14 DEF step, Unwinds, UnwindsIn
<1>17. WalksTo(X, Iter[1 .. m], base, step, m)
  BY <1>9, <1>11, <1>16, FoldWalk
<1>18. PICK q \in [0 .. m -> X] : IsWalk(q, base, step, m) /\ q[m] = Iter[1 .. m]
  BY <1>17 DEF WalksTo
<1>19. q[0] = base /\ \A k \in 1 .. m : q[k] = Went(model, base, row, q[k - 1])
  <2>1. \A k \in 1 .. m : q[k - 1] \in X
    BY <1>9, <1>18
  <2>2. QED BY <1>18, <2>1 DEF step, IsWalk
<1>20. PICK p : IsPath(p, tree, row)
  BY <1>1, PathExists
<1> DEFINE v == [k \in 0 .. m |-> base + p[k]]
<1>21. /\ \A k \in 0 .. m : p[k] \in 0 .. m - 1
       /\ p[0] = 0 /\ \A k \in 1 .. m : p[k] = Moved(tree, row, p[k - 1])
  BY <1>20 DEF IsPath, m
<1>22. Together(v, q, m)
  <2>1. v[0] = q[0]
    BY <1>2, <1>9, <1>19, <1>21
  <2>2. ASSUME NEW k \in 1 .. m, v[k - 1] = q[k - 1] PROVE v[k] = q[k]
    <3>1. k - 1 \in 0 .. m /\ k \in 0 .. m
      BY <1>9
    <3>2. q[k] = Went(model, base, row, base + p[k - 1])
      BY <1>19, <2>2, <3>1
    <3>3. Went(model, base, row, base + p[k - 1]) = base + Moved(tree, row, p[k - 1])
      BY <1>6, <1>21, <3>1
    <3>4. QED BY <1>21, <3>1, <3>2, <3>3
  <2> HIDE DEF v
  <2>3. QED BY <2>1, <2>2 DEF Together
<1>23. q[m] = base + p[m]
  <2>1. v[m] = base + p[m]
    BY <1>9
  <2> HIDE DEF v
  <2>2. v[m] = q[m]
    BY <1>9, <1>22, EndTogether
  <2>3. QED BY <2>1, <2>2
<1>24. LeafOf(tree, row) = p[m]
  BY <1>1, <1>20, LeafIs DEF m
<1>25. Iter[DOMAIN seq] = base + LeafOf(tree, row)
  BY <1>10, <1>18, <1>23, <1>24
<1>26. LeafAt(model, row, t) = base + LeafOf(tree, row)
  BY Zenon, <1>5, <1>15, <1>25
<1>27. QED BY <1>2, <1>26 DEF tree

RawOneFold(model, b, row) ==
  FoldLeft(LAMBDA total, t : total + model.nodes[LeafAt(model, row, t) + 1].value, b,
           [t \in 1 .. Len(model.offsets) - 1 |-> t])

\* What _raw_one() adds up is what the trees say.
LEMMA RawOneAdds ==
  ASSUME NEW model, NEW trees, NEW n, Forest(trees, n), NEW o, LaidOut(model, trees, n, o),
         NEW row, NEW b \in Int, NEW u, Totals(u, trees, row, n, b)
  PROVE  RawOneFold(model, b, row) = u[n]
<1> DEFINE seq == [t \in 1 .. Len(model.offsets) - 1 |-> t]
           value(t) == model.nodes[LeafAt(model, row, t) + 1].value
           step == [i \in 1 .. n |-> [x \in Int |-> x + value(i)]]
           Iter == CHOOSE iter : iter = [s \in SUBSET DOMAIN seq |->
             IF s = {} THEN b ELSE iter[s \ {Max(s)}] + value(seq[Max(s)])]
<1>1. n \in Nat
  BY DEF Forest
<1>2. DOMAIN seq = 1 .. n /\ \A t \in 1 .. n : seq[t] = t
  <2>1. Len(model.offsets) - 1 = n
    BY <1>1 DEF LaidOut
  <2>2. QED BY <2>1
<1>3. ASSUME NEW t \in 1 .. n PROVE value(t) = Said(trees, row, t) /\ value(t) \in Int
  <2> DEFINE leaf == LeafOf(trees[t], row)
  <2>1. LeafAt(model, row, t) = o[t - 1] + leaf
    BY LeafAtIs
  <2>2. leaf \in 0 .. Len(trees[t]) - 1 /\ Said(trees, row, t) \in Int
    BY SaidIs
  <2>3. o[t - 1] \in Nat /\ Len(trees[t]) \in Nat
    <3>1. t - 1 \in 0 .. n
      BY <1>1
    <3>2. IsTree(trees[t])
      BY DEF Forest
    <3>3. QED BY <3>1, <3>2 DEF LaidOut, StartsAt, IsTree
  <2> HIDE DEF leaf
  <2>4. leaf + 1 \in 1 .. Len(trees[t]) /\ (o[t - 1] + leaf) + 1 = o[t - 1] + (leaf + 1)
    BY <2>2, <2>3
  <2>5. model.nodes[o[t - 1] + (leaf + 1)] = trees[t][leaf + 1]
    BY <2>4 DEF LaidOut
  <2>6. value(t) = trees[t][leaf + 1].value
    BY <2>1, <2>4, <2>5
  <2>7. QED BY <2>2, <2>6 DEF Said, leaf
<1>4. RawOneFold(model, b, row) = FoldLeft(LAMBDA total, t : total + value(t), b, seq)
  BY DEF RawOneFold
<1>18. \A t \in 1 .. n : value(seq[t]) = value(t)
  BY <1>2
<1> HIDE DEF seq, value
<1>5. step \in [1 .. n -> [Int -> Int]]
  BY <1>3
<1> HIDE DEF step
<1>6. PICK g \in [SUBSET (1 .. n) -> Int] : Unwinds(g, b, step, n)
  BY <1>1, <1>5, FoldSolved
<1>7. g = [s \in SUBSET DOMAIN seq |->
             IF s = {} THEN b ELSE g[s \ {Max(s)}] + value(seq[Max(s)])]
  <2>1. ASSUME NEW s \in SUBSET DOMAIN seq, s # {}
        PROVE  g[s] = g[s \ {Max(s)}] + value(seq[Max(s)])
    <3>1. Max(s) \in 1 .. n /\ s \ {Max(s)} \in SUBSET (1 .. n)
          /\ g[s] = step[Max(s)][g[s \ {Max(s)}]]
      BY <1>2, <1>6, <2>1 DEF Unwinds
    <3>2. value(seq[Max(s)]) = value(Max(s))
      BY <1>18, <3>1
    <3>3. g[s] = g[s \ {Max(s)}] + value(Max(s))
      BY <3>1 DEF step
    <3>4. QED BY <3>2, <3>3
  <2>2. g[{}] = b
    BY <1>6 DEF Unwinds
  <2>3. QED BY <1>2, <2>1, <2>2
<1>8. Iter = [s \in SUBSET DOMAIN seq |->
             IF s = {} THEN b ELSE Iter[s \ {Max(s)}] + value(seq[Max(s)])]
  BY <1>7
<1>9. FoldLeft(LAMBDA total, t : total + value(t), b, seq) = Iter[DOMAIN seq]
  BY Zenon DEF FoldLeft, MapThenFoldSet
<1> HIDE DEF Iter
<1>10. UnwindsIn(Int, Iter, b, step, n)
  <2>1. ASSUME NEW P \in SUBSET (1 .. n), P # {}, Iter[P \ {Max(P)}] \in Int
        PROVE  Iter[P] = step[Max(P)][Iter[P \ {Max(P)}]]
    <3>1. Max(P) \in 1 .. n
      BY <1>6, <2>1 DEF Unwinds
    <3>2. value(seq[Max(P)]) = value(Max(P))
      BY <1>18, <3>1
    <3>3. Iter[P] = Iter[P \ {Max(P)}] + value(seq[Max(P)])
      BY <1>2, <1>8, <2>1
    <3>4. step[Max(P)][Iter[P \ {Max(P)}]] = Iter[P \ {Max(P)}] + value(Max(P))
      BY <2>1, <3>1 DEF step
    <3>5. QED BY <3>2, <3>3, <3>4
  <2>2. Iter[{}] = b
    BY <1>8
  <2>3. QED BY <2>1, <2>2 DEF UnwindsIn
<1>11. WalksTo(Int, Iter[1 .. n], b, step, n)
  BY <1>1, <1>5, <1>10, FoldWalk
<1>12. PICK w \in [0 .. n -> Int] : IsWalk(w, b, step, n) /\ w[n] = Iter[1 .. n]
  BY <1>11 DEF WalksTo
<1>13. w[0] = b /\ \A k \in 1 .. n : w[k] = w[k - 1] + Said(trees, row, k)
  <2>1. \A k \in 1 .. n : w[k - 1] \in Int
    BY <1>1, <1>12
  <2>2. QED BY <1>3, <1>12, <2>1 DEF step, IsWalk
<1>14. Together(w, u, n)
  BY <1>13 DEF Together, Totals
<1>15. w[n] = u[n]
  BY <1>1, <1>14, EndTogether
<1>16. Iter[DOMAIN seq] = u[n]
  BY <1>2, <1>12, <1>15
<1>17. QED BY Zenon, <1>4, <1>9, <1>16
-----------------------------------------------------------------------------
(* Many sessions at once. *)

\* One level of _raw().
Leveled(tree, rows, at) ==
  [r \in DOMAIN rows |-> IF tree[at[r] + 1].leaf THEN at[r] ELSE Child(tree[at[r] + 1], rows[r])]

Down(tree, rows) ==
  FoldLeft(LAMBDA at, k : Leveled(tree, rows, at), [r \in DOMAIN rows |-> 0],
           [k \in 1 .. Len(tree) |-> k])

\* Each row goes down its own path, and waits at its leaf for the others.
LEMMA DownIs ==
  ASSUME NEW tree, IsTree(tree), NEW rows, NEW r \in DOMAIN rows
  PROVE  Down(tree, rows)[r] = LeafOf(tree, rows[r])
<1> DEFINE m == Len(tree)
           D == DOMAIN rows
           X == [D -> 0 .. m - 1]
           top == [i \in D |-> 0]
           seq == [k \in 1 .. m |-> k]
           step == [i \in 1 .. m |-> [x \in X |-> Leveled(tree, rows, x)]]
           Iter == CHOOSE iter : iter = [s \in SUBSET DOMAIN seq |->
             IF s = {} THEN top ELSE Leveled(tree, rows, iter[s \ {Max(s)}])]
<1>1. m \in Nat \ {0} /\ m \in Nat /\ DOMAIN seq = 1 .. m
  BY DEF IsTree
<1>2. Down(tree, rows) = FoldLeft(LAMBDA at, k : Leveled(tree, rows, at), top, seq)
  BY DEF Down
<1>3. top \in X
  BY <1>1
<1>4. ASSUME NEW x \in X
      PROVE  /\ Leveled(tree, rows, x) \in X
             /\ \A i \in D : Leveled(tree, rows, x)[i] = Moved(tree, rows[i], x[i])
  <2>1. \A i \in D : x[i] \in 0 .. m - 1
    OBVIOUS
  <2>2. \A i \in D : Moved(tree, rows[i], x[i]) \in 0 .. m - 1
    BY <2>1, MovedIs
  <2>3. Leveled(tree, rows, x) = [i \in D |-> Moved(tree, rows[i], x[i])]
    BY DEF Leveled, Moved
  <2> HIDE DEF m, D
  <2>4. QED BY <2>2, <2>3
<1>5. \A x \in X : Leveled(tree, rows, x) \in X
  BY <1>4
<1>6. \A i \in D : top[i] = 0
  OBVIOUS
<1> HIDE DEF X, seq, top
<1>7. step \in [1 .. m -> [X -> X]]
  BY <1>5
<1> HIDE DEF step, m
<1>8. PICK g \in [SUBSET (1 .. m) -> X] : Unwinds(g, top, step, m)
  BY <1>1, <1>3, <1>7, FoldSolved
<1>9. g = [s \in SUBSET DOMAIN seq |->
             IF s = {} THEN top ELSE Leveled(tree, rows, g[s \ {Max(s)}])]
  BY <1>1, <1>8 DEF Unwinds, step
<1>10. Iter = [s \in SUBSET DOMAIN seq |->
             IF s = {} THEN top ELSE Leveled(tree, rows, Iter[s \ {Max(s)}])]
  BY <1>9
<1>11. FoldLeft(LAMBDA at, k : Leveled(tree, rows, at), top, seq) = Iter[DOMAIN seq]
  BY Zenon DEF FoldLeft, MapThenFoldSet
<1> HIDE DEF Iter
<1>12. UnwindsIn(X, Iter, top, step, m)
  BY <1>1, <1>8, <1>10 DEF step, Unwinds, UnwindsIn
<1>13. WalksTo(X, Iter[1 .. m], top, step, m)
  BY <1>1, <1>3, <1>7, <1>12, FoldWalk
<1>14. PICK w \in [0 .. m -> X] : IsWalk(w, top, step, m) /\ w[m] = Iter[1 .. m]
  BY <1>13 DEF WalksTo
<1>15. /\ w[0] = top
       /\ \A k \in 1 .. m : w[k][r] = Moved(tree, rows[r], w[k - 1][r])
  <2>1. \A k \in 1 .. m : w[k - 1] \in X
    BY <1>1, <1>14
  <2>2. \A k \in 1 .. m : w[k] = Leveled(tree, rows, w[k - 1])
    BY <1>14, <2>1 DEF step, IsWalk
  <2>3. w[0] = top
    BY <1>14 DEF IsWalk
  <2>4. QED BY <1>4, <2>1, <2>2, <2>3
<1>16. PICK p : IsPath(p, tree, rows[r])
  BY PathExists
<1> DEFINE v == [k \in 0 .. m |-> w[k][r]]
<1>17. Together(v, p, m)
  <2>1. v[0] = p[0]
    BY <1>1, <1>6, <1>15, <1>16 DEF IsPath
  <2>2. ASSUME NEW k \in 1 .. m, v[k - 1] = p[k - 1] PROVE v[k] = p[k]
    <3>1. k - 1 \in 0 .. m /\ k \in 0 .. m
      BY <1>1
    <3>2. v[k] = w[k][r] /\ v[k - 1] = w[k - 1][r]
      BY <3>1
    <3> HIDE DEF v
    <3>3. p[k] = Moved(tree, rows[r], p[k - 1])
      BY <1>16 DEF IsPath, m
    <3>4. QED BY <1>15, <2>2, <3>2, <3>3
  <2> HIDE DEF v
  <2>3. QED BY <2>1, <2>2 DEF Together
<1>18. w[m][r] = p[m]
  <2>1. v[m] = w[m][r]
    BY <1>1
  <2> HIDE DEF v
  <2>2. v[m] = p[m]
    BY <1>1, <1>17, EndTogether
  <2>3. QED BY <2>1, <2>2
<1>19. p[m] = LeafOf(tree, rows[r])
  BY <1>16, LeafIs DEF m
<1>20. Down(tree, rows) = w[m]
  <2>1. Iter[DOMAIN seq] = w[m]
    BY <1>1, <1>14
  <2>2. QED BY Zenon, <1>2, <1>11, <2>1
<1>21. QED BY <1>18, <1>19, <1>20

TreeAt(model, t) == SubSeq(model.nodes, model.offsets[t] + 1, model.offsets[t + 1])

\* A tree is cut out of all nodes as it was laid out.
LEMMA TreeAtIs ==
  ASSUME NEW model, NEW trees, NEW n, Forest(trees, n), NEW o, LaidOut(model, trees, n, o),
         NEW t \in 1 .. n
  PROVE  TreeAt(model, t) = trees[t]
<1> DEFINE tree == trees[t]
           m == Len(tree)
           base == o[t - 1]
<1>1. n \in Nat /\ IsTree(tree)
  BY DEF Forest
<1>2. m \in Nat /\ tree \in Seq(Range(tree))
  BY <1>1 DEF IsTree
<1>3. /\ t - 1 \in 0 .. n /\ t \in 1 .. n + 1 /\ t + 1 \in 1 .. n + 1
      /\ (t + 1) - 1 = t
  BY <1>1
<1>4. model.offsets[t] = base /\ model.offsets[t + 1] = base + m /\ base \in Nat
  BY <1>3 DEF LaidOut, StartsAt
<1>5. \A i \in 1 .. m : model.nodes[base + i] = tree[i]
  BY DEF LaidOut
<1>6. TreeAt(model, t) = SubSeq(model.nodes, base + 1, base + m)
  BY <1>4 DEF TreeAt
<1> HIDE DEF base, m, tree
<1>7. SubSeq(model.nodes, base + 1, base + m) =
        [i \in 1 .. (base + m - (base + 1) + 1) |-> model.nodes[i + (base + 1) - 1]]
  BY <1>2, <1>4 DEF SubSeq
<1>8. base + m - (base + 1) + 1 = m /\ \A i \in 1 .. m : i + (base + 1) - 1 = base + i
  BY <1>2, <1>4
<1>9. SubSeq(model.nodes, base + 1, base + m) = [i \in 1 .. m |-> tree[i]]
  BY <1>5, <1>7, <1>8
<1>10. tree = [i \in 1 .. m |-> tree[i]]
  BY <1>2 DEF m
<1>11. QED BY <1>6, <1>9, <1>10 DEF tree

\* What a tree adds to each row.
Added(model, rows, t) ==
  [r \in DOMAIN rows |-> TreeAt(model, t)[Down(TreeAt(model, t), rows)[r] + 1].value]

\* A tree adds to a row what it says of it.
LEMMA AddedIs ==
  ASSUME NEW model, NEW trees, NEW n, Forest(trees, n), NEW o, LaidOut(model, trees, n, o),
         NEW t \in 1 .. n, NEW rows, NEW r \in DOMAIN rows
  PROVE  Added(model, rows, t)[r] = Said(trees, rows[r], t)
<1>1. TreeAt(model, t) = trees[t]
  BY TreeAtIs
<1>2. Down(trees[t], rows)[r] = LeafOf(trees[t], rows[r])
  BY DownIs DEF Forest
<1>3. Added(model, rows, t)[r] = TreeAt(model, t)[Down(TreeAt(model, t), rows)[r] + 1].value
  BY DEF Added
<1>4. QED BY <1>1, <1>2, <1>3 DEF Said

More(raw, model, rows, t) == [r \in DOMAIN rows |-> raw[r] + Added(model, rows, t)[r]]

RawFold(model, b, rows) ==
  FoldLeft(LAMBDA raw, t : More(raw, model, rows, t), [r \in DOMAIN rows |-> b],
           [t \in 1 .. Len(model.offsets) - 1 |-> t])

\* The totals of every row, and what is made of them.
AllTotals(u, trees, rows, n, b) == \A r \in DOMAIN rows : Totals(u[r], trees, rows[r], n, b)
Sums(u, rows, n) == [r \in DOMAIN rows |-> u[r][n]]

\* What _raw() adds up for a row is what the trees say of it.
LEMMA RawAdds ==
  ASSUME NEW model, NEW trees, NEW n, Forest(trees, n), NEW o, LaidOut(model, trees, n, o),
         NEW rows, NEW b \in Int,
         NEW u, AllTotals(u, trees, rows, n, b)
  PROVE  RawFold(model, b, rows) = Sums(u, rows, n)
<1> DEFINE D == DOMAIN rows
           X == [D -> Int]
           first == [i \in D |-> b]
           seq == [t \in 1 .. Len(model.offsets) - 1 |-> t]
           step == [i \in 1 .. n |-> [x \in X |-> More(x, model, rows, i)]]
           Iter == CHOOSE iter : iter = [s \in SUBSET DOMAIN seq |->
             IF s = {} THEN first ELSE More(iter[s \ {Max(s)}], model, rows, seq[Max(s)])]
<1>1. n \in Nat
  BY DEF Forest
<1>2. DOMAIN seq = 1 .. n /\ \A t \in 1 .. n : seq[t] = t
  <2>1. Len(model.offsets) - 1 = n
    BY <1>1 DEF LaidOut
  <2>2. QED BY <2>1
<1>3. ASSUME NEW t \in 1 .. n, NEW x \in X
      PROVE  /\ More(x, model, rows, t) \in X
             /\ \A r \in D : More(x, model, rows, t)[r] = x[r] + Said(trees, rows[r], t)
  <2>1. ASSUME NEW i \in DOMAIN rows
        PROVE  Added(model, rows, t)[i] = Said(trees, rows[i], t)
    <3> HIDE DEF X, first, seq, step, Iter
    <3>1. QED BY AddedIs
  <2>2. \A i \in D : Said(trees, rows[i], t) \in Int
    BY SaidIs
  <2>3. More(x, model, rows, t) = [i \in D |-> x[i] + Said(trees, rows[i], t)]
    BY <2>1 DEF More
  <2>4. \A i \in D : x[i] \in Int
    OBVIOUS
  <2> HIDE DEF D
  <2>5. QED BY <2>2, <2>3, <2>4
<1>4. RawFold(model, b, rows) = FoldLeft(LAMBDA raw, t : More(raw, model, rows, t), first, seq)
  BY DEF RawFold
<1>5. first \in X /\ \A r \in D : first[r] = b
  OBVIOUS
<1>6. \A x \in X : \A t \in 1 .. n : More(x, model, rows, seq[t]) = More(x, model, rows, t)
  BY <1>2
<1>7. \A x \in X : x = [r \in D |-> x[r]]
  OBVIOUS
<1>8. \A t \in 1 .. n : \A x \in X : More(x, model, rows, t) \in X
  BY <1>3
<1> HIDE DEF X, seq, first, D
<1>9. step \in [1 .. n -> [X -> X]]
  BY <1>8
<1> HIDE DEF step
<1>10. PICK g \in [SUBSET (1 .. n) -> X] : Unwinds(g, first, step, n)
  BY <1>1, <1>5, <1>9, FoldSolved
<1>11. g = [s \in SUBSET DOMAIN seq |->
             IF s = {} THEN first ELSE More(g[s \ {Max(s)}], model, rows, seq[Max(s)])]
  <2>1. ASSUME NEW s \in SUBSET DOMAIN seq, s # {}
        PROVE  g[s] = More(g[s \ {Max(s)}], model, rows, seq[Max(s)])
    <3>1. /\ Max(s) \in 1 .. n /\ s \ {Max(s)} \in SUBSET (1 .. n)
          /\ g[s] = step[Max(s)][g[s \ {Max(s)}]]
      BY <1>2, <1>10, <2>1 DEF Unwinds
    <3>2. g[s \ {Max(s)}] \in X
      BY <1>10, <3>1
    <3>3. g[s] = More(g[s \ {Max(s)}], model, rows, Max(s))
      BY <3>1, <3>2 DEF step
    <3>4. QED BY <1>6, <3>1, <3>2, <3>3
  <2>2. g[{}] = first
    BY <1>10 DEF Unwinds
  <2>3. QED BY <1>2, <2>1, <2>2
<1>12. Iter = [s \in SUBSET DOMAIN seq |->
             IF s = {} THEN first ELSE More(Iter[s \ {Max(s)}], model, rows, seq[Max(s)])]
  BY <1>11
<1>13. FoldLeft(LAMBDA raw, t : More(raw, model, rows, t), first, seq) = Iter[DOMAIN seq]
  BY Zenon DEF FoldLeft, MapThenFoldSet
<1> HIDE DEF Iter
<1>14. UnwindsIn(X, Iter, first, step, n)
  <2>1. ASSUME NEW P \in SUBSET (1 .. n), P # {}, Iter[P \ {Max(P)}] \in X
        PROVE  Iter[P] = step[Max(P)][Iter[P \ {Max(P)}]]
    <3>1. Max(P) \in 1 .. n
      BY <1>10, <2>1 DEF Unwinds
    <3>2. Iter[P] = More(Iter[P \ {Max(P)}], model, rows, seq[Max(P)])
      BY <1>2, <1>12, <2>1
    <3>3. step[Max(P)][Iter[P \ {Max(P)}]] = More(Iter[P \ {Max(P)}], model, rows, Max(P))
      BY <2>1, <3>1 DEF step
    <3>4. QED BY <1>6, <2>1, <3>1, <3>2, <3>3
  <2>2. Iter[{}] = first
    BY <1>12
  <2>3. QED BY <2>1, <2>2 DEF UnwindsIn
<1>15. WalksTo(X, Iter[1 .. n], first, step, n)
  BY <1>1, <1>5, <1>9, <1>14, FoldWalk
<1>16. PICK w \in [0 .. n -> X] : IsWalk(w, first, step, n) /\ w[n] = Iter[1 .. n]
  BY <1>15 DEF WalksTo
<1>17. w[0] = first /\ \A r \in D : \A k \in 1 .. n : w[k][r] = w[k - 1][r] + Said(trees, rows[r], k)
  <2>1. \A k \in 1 .. n : w[k - 1] \in X
    BY <1>1, <1>16
  <2>2. \A k \in 1 .. n : w[k] = More(w[k - 1], model, rows, k)
    BY <1>16, <2>1 DEF step, IsWalk
  <2>3. w[0] = first
    BY <1>16 DEF IsWalk
  <2>4. QED BY <1>3, <2>1, <2>2, <2>3
<1>18. ASSUME NEW r \in D PROVE w[n][r] = u[r][n]
  <2> DEFINE v == [k \in 0 .. n |-> w[k][r]]
             y == u[r]
  <2>1. Totals(y, trees, rows[r], n, b)
    BY DEF D, AllTotals
  <2> HIDE DEF y
  <2>2. v[0] = y[0]
    BY <1>1, <1>5, <1>17, <2>1 DEF Totals
  <2>3. ASSUME NEW k \in 1 .. n, v[k - 1] = y[k - 1] PROVE v[k] = y[k]
    <3>1. k - 1 \in 0 .. n /\ k \in 0 .. n
      BY <1>1
    <3>2. v[k] = w[k][r] /\ v[k - 1] = w[k - 1][r]
      BY <3>1
    <3> HIDE DEF v
    <3>3. y[k] = y[k - 1] + Said(trees, rows[r], k)
      BY <2>1 DEF Totals
    <3>4. QED BY <1>17, <2>3, <3>2, <3>3
  <2>4. v[n] = w[n][r]
    BY <1>1
  <2> HIDE DEF v
  <2>5. Together(v, y, n)
    BY <2>2, <2>3 DEF Together
  <2>6. v[n] = y[n]
    BY <1>1, <2>5, EndTogether
  <2>7. QED BY <2>4, <2>6 DEF y
<1>19. w[n] = [r \in D |-> u[r][n]]
  <2>1. w[n] = [r \in D |-> w[n][r]]
    BY <1>1, <1>7, <1>16
  <2>2. QED BY <1>18, <2>1
<1>20. RawFold(model, b, rows) = w[n]
  <2>1. Iter[DOMAIN seq] = w[n]
    BY <1>2, <1>16
  <2>2. QED BY Zenon, <1>4, <1>13, <2>1
<1>21. QED BY <1>19, <1>20 DEF D, Sums

RawOf(model, b, rows) ==
  IF Len(rows) = 1 THEN <<RawOneFold(model, b, rows[1])>> ELSE RawFold(model, b, rows)

\* The two walks are those of the model.
LEMMA WalksAre ==
  ASSUME NEW model, NEW b, NEW rows
  PROVE  /\ \A row : RawOne(model, b, row) = RawOneFold(model, b, row)
         /\ Raw(model, b, rows) = RawOf(model, b, rows)
<1>1. \A row : RawOne(model, b, row) = RawOneFold(model, b, row)
  BY DEF RawOne, RawOneFold, LeafAt, Went
<1>2. Raw(model, b, rows) = IF Len(rows) = 1 THEN <<RawOne(model, b, rows[1])>>
                            ELSE RawFold(model, b, rows)
  BY Zenon DEF Raw, RawFold, More, Added, Down, Leveled, TreeAt
<1>3. QED BY <1>1, <1>2 DEF RawOf

\* A session scored by itself and the same one scored among others get what the
\* trees say of it.
LEMMA ForestsAgree ==
  ASSUME NEW trees, NEW n, Forest(trees, n), NEW rows, rows \in Seq(Range(rows)),
         NEW b \in Int
  PROVE  WalksAgree(trees, b, rows)
<1> DEFINE model == Flatten(trees)
           u == [r \in DOMAIN rows |-> CHOOSE v : Totals(v, trees, rows[r], n, b)]
<1>1. PICK o : LaidOut(model, trees, n, o)
  BY FlattenLays
<1>2. AllTotals(u, trees, rows, n, b)
  <2>1. ASSUME NEW r \in DOMAIN rows PROVE Totals(u[r], trees, rows[r], n, b)
    <3>1. \E v : Totals(v, trees, rows[r], n, b)
      BY TotalsExist
    <3>2. QED BY <3>1
  <2>2. QED BY <2>1 DEF AllTotals
<1> HIDE DEF model, u
<1>3. ASSUME NEW r \in DOMAIN rows
      PROVE  /\ SaidByAll(trees, rows[r], b) = u[r][n]
             /\ RawOneFold(model, b, rows[r]) = u[r][n]
  <2>1. Totals(u[r], trees, rows[r], n, b)
    BY <1>2 DEF AllTotals
  <2>2. SaidByAll(trees, rows[r], b) = u[r][n]
    BY <2>1, SaidAdds
  <2>3. RawOneFold(model, b, rows[r]) = u[r][n]
    BY <1>1, <2>1, RawOneAdds
  <2>4. QED BY <2>2, <2>3
<1>4. RawFold(model, b, rows) = [r \in DOMAIN rows |-> u[r][n]]
  <2>1. RawFold(model, b, rows) = Sums(u, rows, n)
    BY <1>1, <1>2, RawAdds
  <2>2. QED BY <2>1 DEF Sums
<1>5. RawOf(model, b, rows) = [r \in DOMAIN rows |-> u[r][n]]
  <2>1. CASE Len(rows) = 1
    <3>1. DOMAIN rows = 1 .. 1
      BY <2>1
    <3>2. RawOneFold(model, b, rows[1]) = u[1][n]
      BY <1>3, <3>1
    <3>3. RawOf(model, b, rows) = <<u[1][n]>>
      BY <2>1, <3>2 DEF RawOf
    <3>4. <<u[1][n]>> = [r \in 1 .. 1 |-> u[r][n]]
      OBVIOUS
    <3>5. QED BY <3>1, <3>3, <3>4
  <2>2. CASE Len(rows) # 1
    BY <1>4, <2>2 DEF RawOf
  <2>3. QED BY <2>1, <2>2
<1>6. \A r \in DOMAIN rows : RawOne(model, b, rows[r]) = SaidByAll(trees, rows[r], b)
  BY <1>3, WalksAre
<1>7. Raw(model, b, rows) = [r \in DOMAIN rows |-> SaidByAll(trees, rows[r], b)]
  BY <1>3, <1>5, WalksAre
<1>8. QED BY Zenon, <1>6, <1>7 DEF WalksAgree, SaidByAll, model
-----------------------------------------------------------------------------
\* The trees a model is made of are trees.
LEMMA TreesAre ==
  ASSUME NEW tree \in TreesFrom
  PROVE  IsTree(tree)
BY TreesAssumption DEF IsTree

\* THEOREM: both ways of scoring sessions with an exported model, _raw_one() for
\* a single one and _raw() level by level for many, agree with the trees the
\* model was exported from, whatever the trees, the thresholds and the missing values.
THEOREM ScoresAreOfTrees == Spec => []ScoresAgree
<1>1. Probes => ScoresAgree
  <2> SUFFICES ASSUME Probes, probe.kind = "model"
               PROVE  WalksAgree(probe.trees, 5, probe.rows)
    BY DEF ScoresAgree
  <2>1. /\ probe.trees \in SeqsUpTo(TreesFrom, MaxTrees)
        /\ probe.rows \in SeqsUpTo([1 .. 2 -> Seen], MaxScored)
    BY DEF Probes, ModelProbe
  <2>2. PICK n \in 0 .. MaxTrees : probe.trees \in [1 .. n -> TreesFrom]
    BY <2>1 DEF SeqsUpTo
  <2>3. PICK k \in 0 .. MaxScored : probe.rows \in [1 .. k -> [1 .. 2 -> Seen]]
    BY <2>1 DEF SeqsUpTo
  <2> DEFINE trees == probe.trees
             rows == probe.rows
             Values == [1 .. 2 -> Seen]
  <2>4. n \in Nat /\ k \in Nat
    BY <2>2, <2>3, BoundsAssumption
  <2>5. trees \in [1 .. n -> TreesFrom] /\ rows \in [1 .. k -> Values]
    BY <2>2, <2>3
  <2> HIDE DEF trees, rows, Values
  <2>6. Forest(trees, n)
    <3>1. trees = [t \in 1 .. n |-> trees[t]] /\ DOMAIN trees = 1 .. n
      BY <2>5
    <3>2. Len(trees) = n
      <4>1. trees \in Seq(TreesFrom)
        BY <2>4, <2>5, SeqDef
      <4>2. QED BY <2>4, <3>1, <4>1
    <3>3. \A t \in 1 .. n : IsTree(trees[t])
      BY <2>5, TreesAre
    <3>4. QED BY <2>4, <3>1, <3>2, <3>3 DEF Forest
  <2>7. rows \in Seq(Range(rows))
    <3>1. rows \in [1 .. k -> Range(rows)]
      BY <2>5 DEF Range
    <3>2. QED BY <2>4, <3>1, SeqDef
  <2>8. WalksAgree(trees, 5, rows)
    BY <2>6, <2>7, ForestsAgree
  <2>9. QED BY <2>8 DEF trees, rows
<1>2. QED BY <1>1, ProbesAlways, PTL
=============================================================================
