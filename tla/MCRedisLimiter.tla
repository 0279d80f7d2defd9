--------------------------- MODULE MCRedisLimiter ---------------------------
(* Instances of RedisLimiter for TLC. *)
EXTENDS RedisLimiter, TLC

CONSTANTS r1, r2, k1, i1, i2, i3, i4

\* Requests, and members of the sorted sets, may be renamed.
Renamings == Permutations(Requests) \cup Permutations(Ids)
=============================================================================
