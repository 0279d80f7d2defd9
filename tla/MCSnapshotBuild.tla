--------------------------- MODULE MCSnapshotBuild ---------------------------
(* SnapshotBuild from tables that hold a configuration already. *)
EXTENDS SnapshotBuild, TLC

CONSTANTS t1, u1, g1, s1, s2, r1, p1, n1, n2

To(m) == [c \in Parents |-> IF c \in DOMAIN m THEN m[c] ELSE Nil]
R(kind, t, n, m) == [kind |-> kind, tenant |-> t, name |-> n, on |-> TRUE, ref |-> To(m)]

(* Two services of an upstream, a route and a policy that leads from the one *)
(* to the other; all of the one tenant.                                      *)
Full == u1 :> R("upstream", t1, n1, <<>>) @@ g1 :> R("target", t1, n1, [upstream |-> u1])
     @@ s1 :> R("service", t1, n1, [upstream |-> u1])
     @@ s2 :> R("service", t1, n2, [upstream |-> u1])
     @@ r1 :> R("route", t1, Nil, [service |-> s1])
     @@ p1 :> R("policy", t1, n1, [route |-> r1, service |-> s2])

MCInit ==
    /\ rows = [i \in Ids |-> IF i \in DOMAIN Full THEN Full[i] ELSE Nothing]
    /\ audit = [i \in Ids |-> IF i \in DOMAIN Full
                  THEN [action |-> "create", by |-> t1, new |-> Full[i]] ELSE Nothing]
    /\ req = [q \in Requests |-> Idle]
    /\ edits = 0
    /\ pub = NoRequest
    /\ touched = {}
    /\ crowded = FALSE

MCSpec == MCInit /\ [][Next]_vars
=============================================================================
