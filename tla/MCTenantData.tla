---------------------------- MODULE MCTenantData ----------------------------
(* Small instances of TenantData. *)
EXTENDS TenantData, TLC

Symmetry == Permutations(Ids) \cup Permutations(Tenants \ {System})
            \cup Permutations(Names) \cup Permutations(Requests)
=============================================================================
