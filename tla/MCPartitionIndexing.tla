------------------------ MODULE MCPartitionIndexing ------------------------
(***************************************************************************)
(* Instances of PartitionIndexing for TLC.                                 *)
(***************************************************************************)
EXTENDS PartitionIndexing

Faults(crash, revoke, stop, expel) ==
  [crash |-> crash, revoke |-> revoke, stop |-> stop, expel |-> expel]

\* Everything that can happen to a consumer, once each.  A consumer evicted while
\* it works is harmless as long as nobody takes over before it has noticed: with
\* one consumer nobody does, with two somebody may.
OneOfEach == Faults(1, 1, 1, 1)
=============================================================================
