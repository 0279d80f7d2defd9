------------------------- MODULE MCRevisionPublish -------------------------
(* Instances of RevisionPublish for TLC. *)
EXTENDS RevisionPublish, TLC

CONSTANTS r1, r2, i1, i2, a, b, g, h, t1

\* One request in each of two processes, or two in one process.
TwoProcesses == (r1 :> i1) @@ (r2 :> i2)
OneProcess   == (r1 :> i1) @@ (r2 :> i1)

\* Two revisions of a tenant, two of no tenant.
MCTenantOf == [v \in Revisions |-> IF v \in {a, b} THEN t1 ELSE NoTenant]

\* Renamings of requests, processes and revisions that keep InstanceOf and TenantOf.
Renamings ==
  {p \in Permutations(Requests \cup Instances \cup Revisions) :
     /\ \A r \in Requests : p[r] \in Requests /\ p[InstanceOf[r]] = InstanceOf[p[r]]
     /\ \A v \in Revisions : p[v] \in Revisions /\ TenantOf[p[v]] = TenantOf[v]}
=============================================================================
