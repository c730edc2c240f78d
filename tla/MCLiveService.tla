---------------------------- MODULE MCLiveService ----------------------------
(***************************************************************************)
(* Instances of LiveService for TLC.                                       *)
(***************************************************************************)
EXTENDS LiveService

CONSTANTS t1, t2, i1, i2

\* Both threads in one instance, or one in the old revision and one in the new.
OneInstance == [t \in Threads |-> i1]
Rollout == [t \in Threads |-> IF t = t1 THEN i1 ELSE i2]

\* One thread posts, the other streams and searches.
Mixed == [t \in Threads |-> IF t = t1 THEN {"post"} ELSE {"stream", "search"}]
PostsAndSearches == [t \in Threads |-> {"post", "search"}]
PostsOnly == [t \in Threads |-> {"post"}]
=============================================================================
