---------------------------- MODULE MCPredictors ----------------------------
(***************************************************************************)
(* Instances of Predictors for TLC.                                        *)
(***************************************************************************)
EXTENDS Predictors, TLC

CONSTANTS a, b, c, p1, p2, x

Symmetry == Permutations(Replicas)

Event(session, ts, type) ==
  [session |-> session, ts |-> ts, type |-> type, product |-> x, price |-> 1]

\* Two sessions on the first partition, either of which may pause, and one on
\* the second, which is behind or level.
TwoAndOne ==
  {(p1 :> <<Event(a, 0, "add_to_cart"), Event(s, t, type), Event(a, u, "add_to_cart")>>) @@
   (p2 :> <<Event(c, 0, "view"), Event(c, 0, "add_to_cart")>>) :
     s \in {a, b}, t \in {0, 2}, u \in {2, 4}, type \in {"remove_from_cart", "purchase"}}

\* One session long enough for two carts, while the other partition is ahead.
TwoCarts ==
  {(p1 :> <<Event(b, 4, "view")>>) @@
   (p2 :> <<Event(c, 0, "add_to_cart"), Event(c, 0, "view"), Event(c, 1, "purchase"),
            Event(c, 1, "add_to_cart"), Event(c, 1, "view")>>)}

BothLogs == TwoAndOne \cup TwoCarts
=============================================================================
