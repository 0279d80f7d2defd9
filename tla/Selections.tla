------------------------------ MODULE Selections ------------------------------
(***************************************************************************)
(* What RouteMatch and PluginChain share: the value of an absent pointer,  *)
(* the elements of a list that are at some of its places, and the          *)
(* credentials of a snapshot.  Lists of a snapshot are filtered by         *)
(* choosing places of them, so that what is chosen can be reasoned about   *)
(* place by place.                                                         *)
(***************************************************************************)
EXTENDS Integers, SequencesExt

CONSTANT Nil              \* no upstream, no consumer, no cookie, no key

\* The n-th of a set of places.
Nth(S, n) == CHOOSE k \in S : Cardinality({l \in S : l <= k}) = n

\* The elements of a list at these places, in the order of the list.
Pick(s, S) == [n \in 1..Cardinality(S) |-> s[Nth(S, n)]]

\* GetCredentialByKey reads a map: of several credentials with one key, which the
\* table allows, the one that was added last.  None, or one of them.
GetCredentialByKey(s, key) ==
  LET same == {k \in DOMAIN s.credentials : s.credentials[k].key = key}
  IN  {s.credentials[k] : k \in {k \in same : \A l \in same : l <= k}}
=============================================================================
