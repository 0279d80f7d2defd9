---------------------------- MODULE ControlAccess ----------------------------
(***************************************************************************)
(* Who may use the API of the control plane: the start of a control plane, *)
(* which makes the first tenant and the first administrator                *)
(* (internal/app/control/app.go), the login that reads what an             *)
(* administrator may do and freezes it in a token                          *)
(* (internal/control/api/handler/login.go, internal/control/auth), and the *)
(* middlewares that compare each request with its token.                   *)
(*                                                                         *)
(* Several control planes share a database whose rows the repositories of  *)
(* administrators and roles change at any time.  Passwords are right.      *)
(***************************************************************************)
EXTENDS Naturals, FiniteSets

CONSTANTS
    Planes,         \* control planes
    Admins, Root,   \* administrators; Root is the one called "admin"
    Roles,          \* names of the roles of the tenant
    SuperAdmin, TenantAdmin,    \* the names the middleware knows
    Perms,          \* <<resource, action>> of the table of permissions
    Calls,          \* requests: [resource, op, method]
    Lifetime,       \* of a token, in ticks (24 hours)
    MaxTokens,      \* bounds: tokens that clients keep at a time,
    MaxFaults       \* starts that fail and processes that crash

ASSUME AccessAssumption ==
    /\ Root \in Admins
    /\ TenantAdmin \in Roles /\ SuperAdmin \notin Roles
    /\ Lifetime \in Nat /\ MaxTokens \in Nat /\ MaxFaults \in Nat

VARIABLES
    stage,      \* how far the start of each control plane is
    tenant,     \* is there a row for the system tenant?
    row,        \* the row of each administrator: "absent", "on" or "off"
    rolesOf,    \* admin_roles
    permsOf,    \* role_permissions
    login,      \* the login in progress: logins do not touch one another
    tokens,     \* the tokens clients hold
    answer,     \* the answer of the step just taken
    faults      \* failed starts and crashes so far

db == <<tenant, row, rolesOf, permsOf>>
vars == <<stage, db, login, tokens, answer, faults>>

NoLogin == [at |-> "none"]
NoAnswer == [code |-> 0]

Granted(a) == UNION {permsOf[r] : r \in rolesOf[a]}
Holds(a) == Granted(a) \cup (rolesOf[a] \cap {TenantAdmin})    \* what is looked at

Init ==
    /\ stage = [c \in Planes |-> "down"]
    /\ tenant = FALSE
    /\ row = [a \in Admins |-> "absent"]
    /\ rolesOf = [a \in Admins |-> {}]
    /\ permsOf = [r \in Roles |-> {}]
    /\ login = NoLogin /\ tokens = {} /\ answer = NoAnswer /\ faults = 0

Fault == faults < MaxFaults /\ faults' = faults + 1

-----------------------------------------------------------------------------
(* The start.  The first two statements are ensureDefaultTenant, the others  *)
(* ensureDefaultAdmin; a start that fails ends the process, and whoever runs *)
(* it starts it again.                                                       *)

Reach(c, from, to) ==
    /\ stage[c] = from
    /\ stage' = [stage EXCEPT ![c] = to]
    /\ UNCHANGED <<login, tokens, rolesOf, permsOf>>
    /\ answer' = NoAnswer

Start(c) == Reach(c, "down", "tenant") /\ UNCHANGED <<tenant, row, faults>>

FindTenant(c) ==
    /\ Reach(c, "tenant", IF tenant THEN "admin" ELSE "newTenant")
    /\ UNCHANGED <<tenant, row, faults>>

(* A tenant that another start has created meanwhile will do. *)
CreateTenant(c) ==
    Reach(c, "newTenant", "admin") /\ tenant' = TRUE /\ UNCHANGED <<row, faults>>

(* A mutant: the lookup is skipped, so that every start inserts. *)
AlwaysCreate(c) == Reach(c, "admin", "newAdmin") /\ UNCHANGED <<tenant, row, faults>>

(* Any error of the lookup, not only "not found", leads to the INSERT. *)
FindAdmin(c) ==
    \/ /\ Reach(c, "admin", IF row[Root] # "absent" THEN "serving" ELSE "newAdmin")
       /\ UNCHANGED <<tenant, row, faults>>
    \/ Reach(c, "admin", "newAdmin") /\ Fault /\ UNCHANGED <<tenant, row>>

(* The name of an administrator is unique: here ErrAlreadyExists is fatal. *)
CreateRoot(c) ==
    /\ Reach(c, "newAdmin", IF row[Root] = "absent" THEN "serving" ELSE "down")
    /\ row' = [row EXCEPT ![Root] = IF @ = "absent" THEN "on" ELSE @]
    /\ UNCHANGED <<tenant, faults>>

(* A statement of the start fails, or the process crashes; a login that it   *)
(* worked on is lost.                                                        *)
Crash(c) ==
    /\ stage[c] # "down" /\ Fault
    /\ stage' = [stage EXCEPT ![c] = "down"]
    /\ login' \in {login, NoLogin}
    /\ answer' = NoAnswer
    /\ UNCHANGED <<db, tokens>>

StartUp(c) ==
    Start(c) \/ FindTenant(c) \/ CreateTenant(c) \/ FindAdmin(c) \/ CreateRoot(c)

-----------------------------------------------------------------------------
(* The rows of administrators and roles.  had collects, while a login is in  *)
(* progress, whatever its administrator holds at some moment of it.          *)

Changed ==
    /\ \/ login = NoLogin /\ UNCHANGED login
       \/ \E a \in Admins :
            /\ login # NoLogin /\ login.admin = a
            /\ login' = [login EXCEPT !.had = @ \cup Holds(a)']
    /\ answer' = NoAnswer
    /\ UNCHANGED <<stage, tenant, tokens, faults>>

CreateAdmin(a) ==
    /\ a # Root /\ tenant /\ row[a] = "absent"
    /\ row' = [row EXCEPT ![a] = "on"]
    /\ UNCHANGED <<rolesOf, permsOf>> /\ Changed

UpdateAdmin(a) ==
    /\ row[a] # "absent"
    /\ \E e \in {"on", "off"} : row' = [row EXCEPT ![a] = e]
    /\ UNCHANGED <<rolesOf, permsOf>> /\ Changed

DeleteAdmin(a) ==
    /\ row[a] # "absent"
    /\ row' = [row EXCEPT ![a] = "absent"]
    /\ rolesOf' = [rolesOf EXCEPT ![a] = {}]
    /\ UNCHANGED permsOf /\ Changed

AssignToAdmin(a, r) ==
    /\ row[a] # "absent"
    /\ rolesOf' = [rolesOf EXCEPT ![a] = @ \cup {r}]
    /\ UNCHANGED <<row, permsOf>> /\ Changed

RevokeFromAdmin(a, r) ==
    /\ r \in rolesOf[a]
    /\ rolesOf' = [rolesOf EXCEPT ![a] = @ \ {r}]
    /\ UNCHANGED <<row, permsOf>> /\ Changed

AssignPermission(r, p) ==
    /\ permsOf' = [permsOf EXCEPT ![r] = @ \cup {p}]
    /\ UNCHANGED <<row, rolesOf>> /\ Changed

RevokePermission(r, p) ==
    /\ p \in permsOf[r]
    /\ permsOf' = [permsOf EXCEPT ![r] = @ \ {p}]
    /\ UNCHANGED <<row, rolesOf>> /\ Changed

-----------------------------------------------------------------------------
(* The login: each query is a statement of its own, and may fail.            *)

Step(next) == login' = next /\ answer' = NoAnswer /\ UNCHANGED <<stage, db>>

IsSuperAdmin(a) == a = Root     \* no tenant

GetByUsername(a) ==
    /\ \E c \in Planes : stage[c] = "serving"
    /\ login = NoLogin
    /\ row[a] = "on"
    /\ Step([admin |-> a, perms |-> {}, had |-> Holds(a),
             at |-> IF IsSuperAdmin(a) THEN "token" ELSE "row",
             roles |-> IF IsSuperAdmin(a) THEN {SuperAdmin} ELSE {}])
    /\ UNCHANGED <<tokens, faults>>

(* An error of the lookup by id leaves the token without roles. *)
GetByID ==
    /\ login.at = "row"
    /\ \/ Step([login EXCEPT !.at = IF row[login.admin] = "absent" THEN "token" ELSE "roles"])
       \/ Step([login EXCEPT !.at = "token"])
    /\ UNCHANGED <<tokens, faults>>

QueryRoles ==
    /\ login.at = "roles"
    /\ \/ Step([login EXCEPT !.at = "perms", !.roles = rolesOf[login.admin]])
       \/ Step([login EXCEPT !.at = "token"])
    /\ UNCHANGED <<tokens, faults>>

(* A mutant: the query forgets WHERE ar.admin_id. *)
QueryAllPermissions ==
    /\ login.at = "perms"
    /\ Step([login EXCEPT !.at = "token", !.perms = UNION {permsOf[r] : r \in Roles}])
    /\ UNCHANGED <<tokens, faults>>

(* The permissions come from the roles of this moment, not from those that   *)
(* QueryRoles has returned.                                                  *)
QueryPermissions ==
    /\ login.at = "perms"
    /\ \/ Step([login EXCEPT !.at = "token", !.perms = Granted(login.admin)])
       \/ Step([login EXCEPT !.at = "token"])
    /\ UNCHANGED <<tokens, faults>>

GenerateToken ==
    /\ login.at = "token" /\ Cardinality(tokens) < MaxTokens
    /\ tokens' = tokens \cup {[admin |-> login.admin, roles |-> login.roles,
                               perms |-> login.perms, had |-> login.had, age |-> 0]}
    /\ Step(NoLogin) /\ UNCHANGED faults

(* Clients lose tokens, and time passes. *)
Forget == \E t \in tokens :
    tokens' = tokens \ {t} /\ Step(login) /\ UNCHANGED faults

Tick ==
    /\ tokens # {}
    /\ tokens' = {[t EXCEPT !.age = IF @ > Lifetime THEN @ ELSE @ + 1] : t \in tokens}
    /\ Step(login) /\ UNCHANGED faults

-----------------------------------------------------------------------------
(* A request with its token.                                                 *)

Named == {"services", "routes", "upstreams", "targets", "consumers", "plugins",
          "revisions", "traffic-policies", "audit-logs"}

NoPermission == <<>>

(* The paths that name their operation, whatever the method. *)
getRequiredPermission(q) ==
    IF q.resource \notin Named THEN NoPermission
    ELSE IF q.resource = "revisions" /\ q.op \in {"publish", "create-and-publish"}
         THEN <<"revisions", "publish">>
    ELSE IF q.resource = "revisions" /\ q.op = "rollback" THEN <<"revisions", "rollback">>
    ELSE IF q.resource = "revisions" /\ q.op \in {"validate", "active"} THEN <<"revisions", "read">>
    ELSE IF q.resource = "revisions" /\ q.op = "snapshot" THEN <<"revisions", "create">>
    ELSE IF q.resource = "plugins" /\ q.op = "global" THEN <<"plugins", "read">>
    ELSE <<q.resource, CASE q.method = "POST" -> "create"
                         [] q.method = "PUT" -> "update"
                         [] q.method = "DELETE" -> "delete"
                         [] OTHER -> "read">>

HasRole(t, r) == t.roles \cap {r, SuperAdmin} # {}
HasPermission(t, p) == HasRole(t, SuperAdmin) \/ p \in t.perms

Allows(t, p) ==
    \/ HasRole(t, SuperAdmin) \/ HasRole(t, TenantAdmin)
    \/ p = NoPermission
    \/ HasPermission(t, p)

(* A mutant: the time of expiry is not looked at. *)
ValidateSignature(t) == t.roles \subseteq Roles \cup {SuperAdmin}

ValidateToken(t) == t.age <= Lifetime

dynamicPermission(t, p) == IF Allows(t, p) THEN 200 ELSE 403

Request(c, t, q) ==
    /\ stage[c] = "serving"
    /\ answer' = [admin |-> t.admin, need |-> getRequiredPermission(q), had |-> t.had,
                  code |-> IF ValidateToken(t)
                           THEN dynamicPermission(t, getRequiredPermission(q)) ELSE 401]
    /\ UNCHANGED <<stage, db, login, tokens, faults>>

-----------------------------------------------------------------------------

Database ==
    \/ \E a \in Admins :
        \/ CreateAdmin(a) \/ UpdateAdmin(a) \/ DeleteAdmin(a)
        \/ \E r \in Roles : AssignToAdmin(a, r) \/ RevokeFromAdmin(a, r)
    \/ \E r \in Roles, p \in Perms : AssignPermission(r, p) \/ RevokePermission(r, p)

Next ==
    \/ \E c \in Planes : StartUp(c) \/ Crash(c)
    \/ Database
    \/ \E a \in Admins : GetByUsername(a)
    \/ GetByID \/ QueryRoles \/ QueryPermissions \/ GenerateToken
    \/ Forget \/ Tick
    \/ \E c \in Planes, t \in tokens, q \in Calls : Request(c, t, q)

(* Time passes, and a start goes on and is made again when it has failed. *)
Fairness == WF_vars(Tick) /\ \A c \in Planes : WF_vars(StartUp(c))

Spec == Init /\ [][Next]_vars /\ Fairness

-----------------------------------------------------------------------------
(* Properties. *)

(* A request is served for a permission only if its administrator had no     *)
(* tenant, or held the permission or the role tenant_admin at some moment of *)
(* the login that issued its token, whatever changed between the queries of  *)
(* that login (admin_repo.go:177-231, app.go:380-412).                       *)
ServedAsHeld ==
    answer.code = 200 /\ answer.need # NoPermission =>
        IsSuperAdmin(answer.admin) \/ answer.had \cap {answer.need, TenantAdmin} # {}

Serves(a, p) == answer.code = 200 /\ answer.admin = a /\ answer.need = p

(* What is taken away for good is in the end no longer served, although no   *)
(* token is looked up in the database: tokens expire and logins read the     *)
(* tables (auth.go:87-96, login.go:44-131).  That goes for a permission, and *)
(* for all of them when the administrator is disabled or deleted.            *)
RevokedInTheEnd ==
    \A a \in Admins, p \in Perms :
        (<>[](row[a] # "on") \/ <>[](~IsSuperAdmin(a) /\ Holds(a) \cap {p, TenantAdmin} = {}))
            => <>[]~Serves(a, p)

(* Every control plane serves in the end, in whatever order they start       *)
(* together on an empty database, though the INSERT of the administrator     *)
(* that comes second fails the start (app.go:161-226).                       *)
EveryoneServes == \A c \in Planes : <>[](stage[c] = "serving")
=============================================================================
