--------------------------- MODULE MCLocalLimiter ---------------------------
(* Instances of LocalLimiter for TLC. *)
EXTENDS LocalLimiter, TLC

CONSTANTS r1, r2, k1, w1, w2, w3

\* Requests, and window objects, may be renamed.
Renamings == Permutations(Requests) \cup Permutations(Windows)
=============================================================================
