----------------------- MODULE MCConfigDistribution -----------------------
(* Instances of ConfigDistribution for TLC. *)
EXTENDS ConfigDistribution, TLC

CONSTANTS a, b, x, s1, s2, d1, d2

\* All revisions in one scope, or b in a scope of its own.
OneScope  == [v \in Revisions |-> s1]
TwoScopes == [v \in Revisions |-> IF v = b THEN s2 ELSE s1]
=============================================================================
