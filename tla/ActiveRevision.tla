--------------------------- MODULE ActiveRevision ---------------------------
(***************************************************************************)
(* What the control plane promises about publishing: in every scope (a     *)
(* tenant, or the absence of one) at most one configuration revision is    *)
(* active, and publishing or rolling back replaces it in one step.  Once a *)
(* scope has an active revision it always has one.                         *)
(*                                                                         *)
(* RevisionPublish is the detailed specification that implements this one; *)
(* ConfigDistribution puts the data planes on top of it.                   *)
(***************************************************************************)
CONSTANTS
  Scopes,      \* the scopes the promise is made for
  Revisions,   \* identifiers of rows of config_revisions
  ScopeOf,     \* ScopeOf[v] is the tenant_id column of revision v
  NoRevision   \* no active revision

VARIABLE current   \* current[s] is the active revision of scope s

Published == {v \in Revisions : ScopeOf[v] \in Scopes}

TypeOK == current \in [Scopes -> Published \cup {NoRevision}]

Init == current = [s \in Scopes |-> NoRevision]

\* A publish or a rollback of revision v takes effect.
Switch(v) == current' = [current EXCEPT ![ScopeOf[v]] = v]

Next == \E v \in Published : Switch(v)

Spec == Init /\ [][Next]_current
=============================================================================
