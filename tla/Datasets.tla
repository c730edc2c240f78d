------------------------------ MODULE Datasets ------------------------------
(***************************************************************************)
(* From a clickstream file to training data: reading events from a CSV     *)
(* (src/aether/data/rees46.py), cutting a small file of whole sessions out *)
(* of a large one (data/slice.py), and labelling and splitting sessions    *)
(* (src/aether/ml/dataset.py).                                             *)
(*                                                                         *)
(* A row is an event but for what may be wrong with it: it may have the    *)
(* wrong number of columns, an unknown type or an unreadable time.  Titles *)
(* and counters are left out.                                              *)
(***************************************************************************)
EXTENDS Sessions

CONSTANTS
  NoSession,    \* an empty session column
  Unreadable,   \* a time or a type the loader does not know
  NoLimit

\* The rows that become events.
Readable(row) ==
  row.columns = "all" /\ row.type \in Types \ {"click", "search"} /\ row.ts # Unreadable

Event(row) ==
  [session |-> row.session, ts |-> row.ts, type |-> row.type, product |-> row.product,
   price |-> row.price]

\* iter_events(): the readable rows, so many at most, and one whatever the limit.
IterEvents(rows, limit) ==
  LET good == Picked(rows, {i \in DOMAIN rows : Readable(rows[i])})
      wanted == IF limit = NoLimit THEN Len(good) ELSE Larger(1, limit)
  IN [i \in 1 .. (IF wanted > Len(good) THEN Len(good) ELSE wanted) |-> Event(good[i])]

\* A row that ends before its session column names none.
SessionOf(row) == IF row.columns = "few" THEN NoSession ELSE row.session

\* _SELECTION_FRACTION
SelectionFraction == 5

\* _select_sessions(): those first seen in the opening part of the window.
SelectSessions(rows, wanted, scanLimit) ==
  LET opening == Larger(1, scanLimit \div SelectionFraction)
      step(sessions, i) ==
        IF i > opening \/ Cardinality(sessions) >= wanted \/ SessionOf(rows[i]) = NoSession
        THEN sessions ELSE sessions \cup {SessionOf(rows[i])}
  IN FoldLeft(step, {}, [i \in DOMAIN rows |-> i])

\* slice_sessions()
SliceSessions(rows, wanted, scanLimit) ==
  LET selected == SelectSessions(rows, wanted, scanLimit)
      window == SubSeq(rows, 1, IF Len(rows) > scanLimit THEN scanLimit ELSE Len(rows))
  IN [rows |-> Picked(window, {i \in DOMAIN window : SessionOf(window[i]) \in selected}),
      selected |-> selected, truncated |-> Len(rows) > scanLimit]
-----------------------------------------------------------------------------
(* dataset.py *)

\* The events that come before one in order of time, those of one moment as
\* they came.
Earlier(events, i) ==
  {j \in DOMAIN events : \/ events[j].ts < events[i].ts
                         \/ events[j].ts = events[i].ts /\ j < i}

\* group_by_session(), one session: its events in order of time.
InTimeOrder(events) ==
  LET order == Sorted([i \in DOMAIN events |-> Cardinality(Earlier(events, i))])
  IN [k \in DOMAIN events |-> events[order[k]]]

\* Examples of the open cart get their label when it is bought, or else at the
\* end of the session.
Close(pass, converted) ==
  [pass EXCEPT
     !.out = @ \cup {[index |-> x.index, state |-> x.state, abandoned |-> ~converted] :
                       x \in pass.pending},
     !.pending = {}]

\* examples_from_session(), one event.  index counts from 0.
ExamineEvent(pass, e) ==
  LET state == Update(pass.state, e)
      seen == [pass EXCEPT !.state = state, !.index = @ + 1]
  IN CASE e.type = "purchase" -> Close(seen, TRUE)
       [] e.type # "purchase" /\ HasOpenCart(state) ->
            [seen EXCEPT !.pending = @ \cup {[index |-> pass.index, state |-> state]}]
       [] OTHER -> seen

\* Slip: every example of a session that bought something counts as converted.
LabelledBySession(events) ==
  LET end == FoldLeft(ExamineEvent,
               [out |-> {}, pending |-> {}, state |-> NewSession, index |-> 0], events)
  IN {[x EXCEPT !.abandoned = ~Converted(end.state)] : x \in Close(end, FALSE).out}

\* examples_from_session().
ExamplesOf(events) ==
  IF \A i \in DOMAIN events : events[i].type # "add_to_cart" THEN {}
  ELSE Close(FoldLeft(ExamineEvent,
                      [out |-> {}, pending |-> {}, state |-> NewSession, index |-> 0],
                      events), FALSE).out

\* build_dataset(): the rows of every session, and where each session starts.
Dataset(events) ==
  UNION {LET own == InTimeOrder(EventsOf(s, events)) IN
         {[session |-> s, start |-> own[1].ts, index |-> x.index,
           state |-> x.state, abandoned |-> x.abandoned] : x \in ExamplesOf(own)} :
         s \in SessionsIn(events)}

\* time_split(): the training rows are those of the sessions that start no
\* later than the cut; train_fraction is numerator / denominator.  The division is
\* exact here; int(len * 0.7) in floating point is one less for some lengths.
TrainingRows(rows, numerator, denominator) ==
  LET starts == Sorted([t \in {r.start : r \in rows} |-> t])
      cutoff == starts[Larger(1, (Len(starts) * numerator) \div denominator)]
  IN {r \in rows : r.start <= cutoff}
-----------------------------------------------------------------------------
\* A training example is a moment with something bought or abandoned to come:
\* every event but a purchase that has an add to the cart at or before it and
\* after the last purchase, whatever was removed from the cart meanwhile.  It is
\* labelled by whether a purchase follows, earlier and later carts of the session
\* notwithstanding; what it is learned from is what was known then.
LabelsLookAhead(events) ==
  \A s \in SessionsIn(events) :
    LET own == InTimeOrder(EventsOf(s, events))
        bought(i) == {j \in DOMAIN own : own[j].type = "purchase" /\ j <= i}
        filled(i) == {j \in 1 .. i : /\ own[j].type = "add_to_cart" /\ own[j].product # NoProduct
                                     /\ \A b \in bought(i) : b < j}
        moments == {i \in DOMAIN own : own[i].type # "purchase" /\ filled(i) # {}}
    IN {x \in Dataset(events) : x.session = s} =
         {[session |-> s, start |-> own[1].ts, index |-> i - 1,
           state |-> StateAfter(SubSeq(own, 1, i)),
           abandoned |-> bought(Len(own)) = bought(i)] : i \in moments}

\* Taking products out of a cart settles nothing: a log and the same log with its
\* removals turned into views have the same examples with the same labels.  So a
\* cart from which everything was removed is an example all the same, which the
\* words of has_open_cart (ml/session.py:165-168) would leave out: "A session with
\* nothing in a cart is neither a positive nor a negative example".
RemovalsSettleNothing(events) ==
  LET viewed == [i \in DOMAIN events |->
                   IF events[i].type = "remove_from_cart"
                   THEN [events[i] EXCEPT !.type = "view"] ELSE events[i]]
      labels(rows) == {[session |-> x.session, index |-> x.index, abandoned |-> x.abandoned] :
                         x \in rows}
  IN labels(Dataset(events)) = labels(Dataset(viewed))

\* The model is tested on sessions it has seen no event of, all of which start
\* after every session it learned from.
SplitIsClean(rows, numerator, denominator) ==
  LET train == TrainingRows(rows, numerator, denominator)
      test == rows \ train
  IN /\ \A x \in train, y \in test : x.session # y.session /\ x.start < y.start
     /\ rows # {} => train # {}

\* A slice that does not warn of truncation labels its sessions as the whole
\* file does: no purchase is cut off, no abandonment made up.
SliceKeepsLabels(rows, wanted, scanLimit) ==
  LET slice == SliceSessions(rows, wanted, scanLimit) IN
  ~slice.truncated =>
    Dataset(IterEvents(slice.rows, NoLimit)) =
      {x \in Dataset(IterEvents(rows, NoLimit)) : x.session \in slice.selected}
=============================================================================
