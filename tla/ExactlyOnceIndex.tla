-------------------------- MODULE ExactlyOnceIndex --------------------------
(***************************************************************************)
(* What indexing one partition promises to whoever searches it: the index  *)
(* holds a prefix of the log that reaches at least to the acknowledged     *)
(* offset, and every document of that prefix exactly once.  How far beyond *)
(* the acknowledged offset the prefix reaches may change either way: work  *)
(* that was not acknowledged can be redone with other boundaries.          *)
(***************************************************************************)
EXTENDS Naturals

CONSTANT MaxOffset  \* bound: messages in the log

VARIABLES
  log,    \* messages appended so far
  acked,  \* messages acknowledged as indexed
  hits    \* how often a search that matches everything returns each document

vars == <<log, acked, hits>>

Offsets == 0 .. MaxOffset - 1

\* The index that holds the first n documents once each.
Prefix(n) == [o \in Offsets |-> IF o < n THEN 1 ELSE 0]

Init == log = 0 /\ acked = 0 /\ hits = Prefix(0)

Append ==
  /\ log < MaxOffset
  /\ log' = log + 1
  /\ UNCHANGED <<acked, hits>>

\* The index is brought to another prefix, never below what is acknowledged.
Reindex ==
  /\ \E n \in acked .. log : hits' = Prefix(n)
  /\ UNCHANGED <<log, acked>>

\* Only what is searchable is acknowledged.
Acknowledge ==
  /\ \E n \in acked .. log : hits = Prefix(n) /\ acked' = n
  /\ UNCHANGED <<log, hits>>

Next == Append \/ Reindex \/ Acknowledge

Spec == Init /\ [][Next]_vars
=============================================================================
