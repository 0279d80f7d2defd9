--------------------------- MODULE MCControlAccess ---------------------------
(* ControlAccess for TLC. *)
EXTENDS ControlAccess

CONSTANT Editor

MCRoles == {TenantAdmin, Editor}
MCPerms == {<<"revisions", "publish">>}

(* One call for the permission, by the path that is not its name, and one    *)
(* that needs none.                                                          *)
MCCalls ==
    {[resource |-> "revisions", op |-> "create-and-publish", method |-> "POST"],
     [resource |-> "monitoring", op |-> "metrics", method |-> "GET"]}

(* The database is empty, or an earlier run has left its rows. *)
MCInit ==
    /\ stage = [c \in Planes |-> "down"]
    /\ tenant \in BOOLEAN
    /\ row \in {[a \in Admins |-> IF a = Root THEN s ELSE "absent"] : s \in {"absent", "on"}}
    /\ rolesOf = [a \in Admins |-> {}]
    /\ permsOf = [r \in Roles |-> {}]
    /\ login = NoLogin /\ tokens = {} /\ answer = NoAnswer /\ faults = 0

(* Bounds: while another administrator has a row, Root has one too and all   *)
(* control planes serve; the permissions of Editor alone change.             *)
Alone == \A a \in Admins \ {Root} : row[a] = "absent"

Bounds ==
    /\ (stage' # stage \/ row'[Root] # row[Root]) => Alone
    /\ ~Alone' => row[Root] = "on" /\ \A c \in Planes : stage[c] = "serving"
    /\ rolesOf'[Root] = {} /\ permsOf'[TenantAdmin] = {}

MCSpec == MCInit /\ [][Next]_vars /\ Fairness
=============================================================================
