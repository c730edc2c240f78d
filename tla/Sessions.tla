------------------------------ MODULE Sessions ------------------------------
(***************************************************************************)
(* What is known of one shopping session so far                            *)
(* (src/aether/ml/session.py), and what the predictor says of it           *)
(* (Predictor.handle).                                                     *)
(*                                                                         *)
(* An event is [session, ts, type, product, price].  Devices, users,       *)
(* categories and brands are left out: nothing here depends on them.       *)
(***************************************************************************)
EXTENDS Integers, SequencesExt, Orders

CONSTANTS NoProduct, NoPrice

Types == {"view", "click", "search", "add_to_cart", "remove_from_cart", "purchase"}

Larger(a, b) == IF a >= b THEN a ELSE b

\* SessionState before its first event.
NewSession ==
  [first |-> 0, last |-> 0, events |-> 0, count |-> [type \in Types |-> 0],
   cycle |-> 0, cart |-> [p \in {} |-> 0], products |-> {},
   prices |-> [sum |-> 0, count |-> 0, max |-> 0],
   gaps |-> [sum |-> 0, count |-> 0, max |-> 0]]

\* Running sum, count and maximum.
Noted(running, value) ==
  [sum |-> running.sum + value, count |-> running.count + 1,
   max |-> Larger(running.max, value)]

Without(cart, product) == [p \in DOMAIN cart \ {product} |-> cart[p]]
With(cart, product, price) ==
  [p \in DOMAIN cart \cup {product} |-> IF p = product THEN price ELSE cart[p]]

\* The cart and the adds since the last purchase, after an event.
CartAfter(state, e) ==
  CASE e.type = "purchase" -> [p \in {} |-> 0]
    [] e.product # NoProduct /\ e.type = "remove_from_cart" ->
         Without(state.cart, e.product)
    [] e.product # NoProduct /\ e.type = "add_to_cart" /\ e.price # NoPrice ->
         With(state.cart, e.product, e.price)
    [] OTHER -> state.cart

CycleAfter(state, e) ==
  CASE e.type = "purchase" -> 0
    [] e.type = "add_to_cart" /\ e.product # NoProduct -> state.cycle + 1
    [] OTHER -> state.cycle

\* Slip: a purchase starts the session anew.
UpdateEndsSession(state, e) ==
  IF e.type = "purchase" THEN NewSession
  ELSE [state EXCEPT
          !.first = IF state.events = 0 THEN e.ts ELSE @,
          !.last = e.ts, !.events = @ + 1, !.count[e.type] = @ + 1,
          !.cycle = CycleAfter(state, e), !.cart = CartAfter(state, e)]

\* SessionState.update().
Update(state, e) ==
  [state EXCEPT
     !.first = IF state.events = 0 THEN e.ts ELSE @,
     !.gaps = IF state.events = 0 THEN @ ELSE Noted(@, Larger(0, e.ts - state.last)),
     !.last = e.ts, !.events = @ + 1, !.count[e.type] = @ + 1,
     !.cycle = CycleAfter(state, e), !.cart = CartAfter(state, e),
     !.products = IF e.product = NoProduct THEN @ ELSE @ \cup {e.product},
     !.prices = IF e.price = NoPrice THEN @ ELSE Noted(@, e.price)]

\* The state after a sequence of events of one session.
StateAfter(events) == FoldLeft(Update, NewSession, events)


HasOpenCart(state) == state.cycle > 0
Converted(state) == state.count["purchase"] > 0
CartSize(state) == Cardinality(DOMAIN state.cart)
CartValue(state) == MapThenSumSet(LAMBDA p : state.cart[p], DOMAIN state.cart)
Duration(state) == state.last - state.first
IsExpired(state, now, timeout) == now - state.last > timeout

\* MIN_EVENTS_TO_SCORE.
MinEventsToScore == 2

\* Predictor.handle() scores a session that could abandon something.
Scores(state) == HasOpenCart(state) /\ state.events >= MinEventsToScore

\* Prediction, but for what the model makes of the state.
Prediction(state) ==
  [ts |-> state.last, events |-> state.events,
   size |-> CartSize(state), value |-> CartValue(state)]

EventsOf(session, events) ==
  Picked(events, {i \in DOMAIN events : events[i].session = session})
SessionsIn(events) == {events[i].session : i \in DOMAIN events}
=============================================================================
