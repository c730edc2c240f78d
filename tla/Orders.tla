------------------------------- MODULE Orders -------------------------------
(***************************************************************************)
(* Sorting and selecting as Python's sorted() and a loop with a condition  *)
(* do it.  Both are defined by ranks, which is what the proofs reason      *)
(* with: the element in place k is the one with k - 1 others before it.    *)
(***************************************************************************)
EXTENDS Integers, FiniteSets

Rank(key, x) == Cardinality({y \in DOMAIN key : key[y] < key[x]})

\* What an injective key is defined for, by increasing key.
Sorted(key) ==
  [k \in 1 .. Cardinality(DOMAIN key) |-> CHOOSE x \in DOMAIN key : Rank(key, x) = k - 1]

\* A set in an order given for its elements.
SortedBy(set, Precedes(_, _)) ==
  Sorted([x \in set |-> Cardinality({y \in set : Precedes(y, x)})])

\* Numbers from the least on.
InOrder(at) == Sorted([i \in at |-> i])

\* The elements of a sequence at some of its positions, in their order.
Picked(seq, at) ==
  LET order == InOrder(at) IN [k \in 1 .. Cardinality(at) |-> seq[order[k]]]
=============================================================================
