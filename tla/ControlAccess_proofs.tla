------------------------- MODULE ControlAccess_proofs -------------------------
(***************************************************************************)
(* What a token allows, for any number of control planes, administrators,  *)
(* roles and permissions, and whatever changes between the queries of a    *)
(* login.                                                                  *)
(*                                                                         *)
(* ServedAsHeld speaks of the answer to a request, which comes long after  *)
(* the login.  What connects the two is carried by the token: it names no  *)
(* permission and no role that the login has not seen its administrator    *)
(* hold.  That again rests on the queries that are still to come: until    *)
(* the last of them the login has seen all that its administrator holds.   *)
(***************************************************************************)
EXTENDS ControlAccess, TLAPS

Login == [admin: Admins, at: {"row", "roles", "perms", "token"},
          perms: SUBSET Perms, roles: SUBSET (Roles \cup {SuperAdmin}),
          had: SUBSET (Perms \cup Roles)]

Token == [admin: Admins, perms: SUBSET Perms, roles: SUBSET (Roles \cup {SuperAdmin}),
          had: SUBSET (Perms \cup Roles), age: Nat]

AccessTypeOK ==
    /\ rolesOf \in [Admins -> SUBSET Roles]
    /\ permsOf \in [Roles -> SUBSET Perms]
    /\ login \in Login \cup {NoLogin}
    /\ tokens \subseteq Token

(* What a login, or the token that it ends in, grants. *)
GrantsHeld(x) ==
    /\ x.perms \subseteq x.had
    /\ TenantAdmin \in x.roles => TenantAdmin \in x.had
    /\ SuperAdmin \in x.roles => IsSuperAdmin(x.admin)

LoginInv == login # NoLogin =>
    /\ GrantsHeld(login)
    /\ login.at # "token" => Holds(login.admin) \subseteq login.had

TokensInv == \A t \in tokens : GrantsHeld(t)

AccessInv == AccessTypeOK /\ LoginInv /\ TokensInv /\ ServedAsHeld

-----------------------------------------------------------------------------
\* No start of a control plane, and no crash, adds to what is granted.
LEMMA StartKeeps ==
  ASSUME AccessInv, NEW c \in Planes, StartUp(c) \/ Crash(c)
  PROVE  AccessInv'
<1>1. /\ UNCHANGED <<rolesOf, permsOf, tokens>> /\ answer' = NoAnswer
      /\ login' \in {login, NoLogin}
  BY DEF StartUp, Start, FindTenant, CreateTenant, FindAdmin, CreateRoot, Crash, Reach, db
<1>2. AccessTypeOK' BY <1>1 DEF AccessInv, AccessTypeOK
<1>3. LoginInv' BY <1>1 DEF AccessInv, LoginInv, GrantsHeld, Holds, Granted, IsSuperAdmin
<1>4. TokensInv' BY <1>1 DEF AccessInv, TokensInv, GrantsHeld, IsSuperAdmin
<1>5. ServedAsHeld' BY <1>1 DEF ServedAsHeld, NoAnswer
<1>q. QED BY <1>2, <1>3, <1>4, <1>5 DEF AccessInv

\* A change of the tables: a login in progress sees what its administrator then holds.
LEMMA DatabaseKeeps ==
  ASSUME AccessInv, Database
  PROVE  AccessInv'
<1>1. Changed /\ rolesOf' \in [Admins -> SUBSET Roles] /\ permsOf' \in [Roles -> SUBSET Perms]
  BY DEF AccessInv, AccessTypeOK, Database, CreateAdmin, UpdateAdmin, DeleteAdmin, AssignToAdmin,
         RevokeFromAdmin, AssignPermission, RevokePermission
<1>2. answer' = NoAnswer /\ tokens' = tokens BY <1>1 DEF Changed
<1>3. ASSUME login = NoLogin, UNCHANGED login PROVE AccessTypeOK' /\ LoginInv'
  BY <1>1, <1>2, <1>3 DEF AccessInv, AccessTypeOK, LoginInv
<1>4. ASSUME NEW a \in Admins, login # NoLogin, login.admin = a,
             login' = [login EXCEPT !.had = @ \cup Holds(a)']
      PROVE  AccessTypeOK' /\ LoginInv'
  <2>1. login \in Login BY <1>4 DEF AccessInv, AccessTypeOK
  <2>2. PICK held \in SUBSET (Perms \cup Roles) : held = Holds(a)'
    BY <1>1, ZenonT(60) DEF Holds, Granted
  <2>3. login' = [login EXCEPT !.had = @ \cup held] BY <1>4, <2>2, Zenon
  <2>4. /\ login' \in Login /\ login'.admin = a /\ login'.at = login.at
        /\ login'.perms = login.perms /\ login'.roles = login.roles
        /\ login'.had = login.had \cup held
    BY <1>4, <2>1, <2>3 DEF Login
  <2>5. held = Holds(login.admin)' BY <2>2, <2>4 DEF Holds, Granted
  <2>6. GrantsHeld(login)' BY <1>4, <2>4 DEF AccessInv, LoginInv, GrantsHeld, IsSuperAdmin
  <2>7. AccessTypeOK' BY <1>1, <1>2, <2>4 DEF AccessInv, AccessTypeOK
  <2>8. LoginInv' BY <2>4, <2>5, <2>6 DEF LoginInv
  <2>q. QED BY <2>7, <2>8
<1>5. AccessTypeOK' /\ LoginInv' BY <1>1, <1>3, <1>4, Zenon DEF Changed
<1>6. TokensInv' BY <1>2 DEF AccessInv, TokensInv, GrantsHeld, IsSuperAdmin
<1>7. ServedAsHeld' BY <1>2 DEF ServedAsHeld, NoAnswer
<1>q. QED BY <1>5, <1>6, <1>7 DEF AccessInv

\* A login begins with the row of its administrator, who may have no tenant.
LEMMA BeginKeeps ==
  ASSUME AccessInv, NEW a \in Admins, GetByUsername(a)
  PROVE  AccessInv'
<1> DEFINE x == [admin |-> a, perms |-> {}, had |-> Holds(a),
                 at |-> IF IsSuperAdmin(a) THEN "token" ELSE "row",
                 roles |-> IF IsSuperAdmin(a) THEN {SuperAdmin} ELSE {}]
<1>1. login' = x /\ answer' = NoAnswer /\ UNCHANGED <<rolesOf, permsOf, tokens>>
  BY DEF GetByUsername, Step, db
<1>2. Holds(a) \subseteq Perms \cup Roles BY DEF AccessInv, AccessTypeOK, Holds, Granted
<1>3. x \in Login /\ x.had = Holds(a) /\ x.admin = a BY <1>2 DEF Login
<1>4. GrantsHeld(x) BY AccessAssumption DEF GrantsHeld, AccessAssumption
<1> HIDE DEF x
<1>5. AccessTypeOK' BY <1>1, <1>3 DEF AccessInv, AccessTypeOK
<1>6. LoginInv' BY <1>1, <1>3, <1>4 DEF LoginInv, GrantsHeld, Holds, Granted, IsSuperAdmin
<1>7. TokensInv' BY <1>1 DEF AccessInv, TokensInv, GrantsHeld, IsSuperAdmin
<1>8. ServedAsHeld' BY <1>1 DEF ServedAsHeld, NoAnswer
<1>q. QED BY <1>5, <1>6, <1>7, <1>8 DEF AccessInv

\* Each query adds at most what its administrator holds at that moment.
LEMMA QueryKeeps ==
  ASSUME AccessInv, GetByID \/ QueryRoles \/ QueryPermissions
  PROVE  AccessInv'
<1>1. login \in Login /\ login # NoLogin
  BY DEF AccessInv, AccessTypeOK, GetByID, QueryRoles, QueryPermissions, NoLogin
<1>2. login.at # "token" /\ Holds(login.admin) \subseteq login.had
  BY <1>1 DEF AccessInv, LoginInv, GetByID, QueryRoles, QueryPermissions
<1>3. PICK at \in {"row", "roles", "perms", "token"}, p \in {login.perms, Granted(login.admin)},
           r \in {login.roles, rolesOf[login.admin]} :
        login' = [login EXCEPT !.at = at, !.roles = r, !.perms = p]
  <2>1. CASE GetByID
    <3>1. login' = [login EXCEPT !.at = "token"] \/ login' = [login EXCEPT !.at = "roles"]
      BY <2>1 DEF GetByID, Step
    <3>2. \A at : [login EXCEPT !.at = at] = [login EXCEPT !.at = at, !.roles = login.roles, !.perms = login.perms]
      BY <1>1 DEF Login
    <3>q. QED BY <3>1, <3>2
  <2>2. CASE QueryRoles
    <3>1. \/ login' = [login EXCEPT !.at = "perms", !.roles = rolesOf[login.admin]]
          \/ login' = [login EXCEPT !.at = "token"]
      BY <2>2 DEF QueryRoles, Step
    <3>2. \A at, r : /\ [login EXCEPT !.at = at, !.roles = r] = [login EXCEPT !.at = at, !.roles = r, !.perms = login.perms]
                     /\ [login EXCEPT !.at = at] = [login EXCEPT !.at = at, !.roles = login.roles, !.perms = login.perms]
      BY <1>1 DEF Login
    <3>q. QED BY <3>1, <3>2, ZenonT(60)
  <2>3. CASE QueryPermissions
    <3>1. \/ login' = [login EXCEPT !.at = "token", !.perms = Granted(login.admin)]
          \/ login' = [login EXCEPT !.at = "token"]
      BY <2>3, Zenon DEF QueryPermissions, Step
    <3>2. \A at, p : /\ [login EXCEPT !.at = at, !.perms = p] = [login EXCEPT !.at = at, !.roles = login.roles, !.perms = p]
                     /\ [login EXCEPT !.at = at] = [login EXCEPT !.at = at, !.roles = login.roles, !.perms = login.perms]
      BY <1>1 DEF Login
    <3>q. QED BY <3>1, <3>2
  <2>q. QED BY <2>1, <2>2, <2>3
<1>4. /\ answer' = NoAnswer /\ UNCHANGED <<rolesOf, permsOf, tokens>>
  BY DEF GetByID, QueryRoles, QueryPermissions, Step, db
<1>5. /\ Granted(login.admin) \subseteq Perms /\ Granted(login.admin) \subseteq login.had
      /\ rolesOf[login.admin] \subseteq Roles
      /\ TenantAdmin \in rolesOf[login.admin] => TenantAdmin \in login.had
      /\ SuperAdmin \notin rolesOf[login.admin]
  BY <1>1, <1>2, AccessAssumption DEF AccessInv, AccessTypeOK, Holds, Granted, Login, AccessAssumption
<1>6. /\ login' \in Login /\ login'.admin = login.admin /\ login'.had = login.had
      /\ login'.perms = p /\ login'.roles = r
  BY <1>1, <1>3, <1>5 DEF Login
<1>7. GrantsHeld(login)' BY <1>1, <1>5, <1>6 DEF AccessInv, LoginInv, GrantsHeld, IsSuperAdmin
<1>8. LoginInv' BY <1>2, <1>4, <1>6, <1>7 DEF LoginInv, Holds, Granted
<1>9. AccessTypeOK' BY <1>4, <1>6 DEF AccessInv, AccessTypeOK
<1>10. TokensInv' BY <1>4 DEF AccessInv, TokensInv, GrantsHeld, IsSuperAdmin
<1>11. ServedAsHeld' BY <1>4 DEF ServedAsHeld, NoAnswer
<1>q. QED BY <1>8, <1>9, <1>10, <1>11 DEF AccessInv

\* A token is what the login has gathered, and ages without becoming more.
LEMMA TokenKeeps ==
  ASSUME AccessInv, GenerateToken \/ Forget \/ Tick
  PROVE  AccessInv'
<1>1. answer' = NoAnswer /\ UNCHANGED <<rolesOf, permsOf>> /\ login' \in {login, NoLogin}
  BY DEF GenerateToken, Forget, Tick, Step, db
<1>2. ASSUME NEW t \in tokens' PROVE t \in Token /\ GrantsHeld(t)
  <2>1. CASE GenerateToken
    <3>1. login \in Login /\ login # NoLogin
      BY <2>1 DEF AccessInv, AccessTypeOK, GenerateToken, NoLogin
    <3>2. CASE t \in tokens BY <3>2 DEF AccessInv, AccessTypeOK, TokensInv
    <3>3. CASE t = [admin |-> login.admin, roles |-> login.roles, perms |-> login.perms,
                    had |-> login.had, age |-> 0]
      BY <3>1, <3>3 DEF AccessInv, LoginInv, GrantsHeld, Login, Token
    <3>q. QED BY <2>1, <3>2, <3>3 DEF GenerateToken
  <2>2. CASE Forget BY <2>2 DEF Forget, AccessInv, AccessTypeOK, TokensInv
  <2>3. CASE Tick
    <3>1. PICK x \in tokens : t = [x EXCEPT !.age = IF @ > Lifetime THEN @ ELSE @ + 1]
      BY <2>3 DEF Tick
    <3>2. x \in Token /\ GrantsHeld(x) BY DEF AccessInv, AccessTypeOK, TokensInv
    <3>q. QED BY <3>1, <3>2 DEF Token, GrantsHeld
  <2>q. QED BY <2>1, <2>2, <2>3
<1>3. AccessTypeOK' BY <1>1, <1>2 DEF AccessInv, AccessTypeOK
<1>4. LoginInv' BY <1>1 DEF AccessInv, LoginInv, GrantsHeld, Holds, Granted, IsSuperAdmin
<1>5. TokensInv' BY <1>2 DEF TokensInv, GrantsHeld, IsSuperAdmin
<1>6. ServedAsHeld' BY <1>1 DEF ServedAsHeld, NoAnswer
<1>q. QED BY <1>3, <1>4, <1>5, <1>6 DEF AccessInv

\* A request is answered by what its token grants.
LEMMA RequestKeeps ==
  ASSUME AccessInv, NEW c \in Planes, NEW t \in tokens, NEW q \in Calls, Request(c, t, q)
  PROVE  AccessInv'
<1> DEFINE p == getRequiredPermission(q)
<1>1. /\ answer'.admin = t.admin /\ answer'.need = p /\ answer'.had = t.had
      /\ answer'.code = IF ValidateToken(t) THEN dynamicPermission(t, p) ELSE 401
      /\ UNCHANGED <<rolesOf, permsOf, login, tokens>>
  BY DEF Request, db
<1> HIDE DEF p
<1>2. GrantsHeld(t) BY DEF AccessInv, TokensInv
<1>3. answer'.code = 200 /\ p # NoPermission => IsSuperAdmin(t.admin) \/ t.had \cap {p, TenantAdmin} # {}
  BY <1>1, <1>2 DEF dynamicPermission, Allows, HasPermission, HasRole, GrantsHeld
<1>4. ServedAsHeld' BY <1>1, <1>3 DEF ServedAsHeld, IsSuperAdmin
<1>5. AccessTypeOK' /\ LoginInv' /\ TokensInv'
  BY <1>1 DEF AccessInv, AccessTypeOK, LoginInv, TokensInv, GrantsHeld, Holds, Granted, IsSuperAdmin
<1>q. QED BY <1>4, <1>5 DEF AccessInv

-----------------------------------------------------------------------------
\* A token grants what the login that issued it has seen its administrator hold.
THEOREM AccessInvariant == Spec => []AccessInv
<1>1. Init => AccessInv
  BY DEF Init, AccessInv, AccessTypeOK, LoginInv, TokensInv, ServedAsHeld, NoAnswer
<1>2. AccessInv /\ [Next]_vars => AccessInv'
  <2> SUFFICES ASSUME AccessInv, [Next]_vars PROVE AccessInv' OBVIOUS
  <2>1. CASE \E c \in Planes : StartUp(c) \/ Crash(c) BY <2>1, StartKeeps
  <2>2. CASE Database BY <2>2, DatabaseKeeps
  <2>3. CASE \E a \in Admins : GetByUsername(a) BY <2>3, BeginKeeps
  <2>4. CASE GetByID \/ QueryRoles \/ QueryPermissions BY <2>4, QueryKeeps
  <2>5. CASE GenerateToken \/ Forget \/ Tick BY <2>5, TokenKeeps
  <2>6. CASE \E c \in Planes, t \in tokens, q \in Calls : Request(c, t, q) BY <2>6, RequestKeeps
  <2>7. CASE UNCHANGED vars
    BY <2>7 DEF vars, db, AccessInv, AccessTypeOK, LoginInv, TokensInv, ServedAsHeld, GrantsHeld,
               Holds, Granted, IsSuperAdmin
  <2>q. QED BY <2>1, <2>2, <2>3, <2>4, <2>5, <2>6, <2>7 DEF Next
<1>q. QED BY <1>1, <1>2, PTL DEF Spec

\* No request is served for a permission that its administrator did not hold at any moment of
\* the login (login.go:44-131, auth.go, middleware/permission.go).
THEOREM ServedAsHeldHolds == Spec => []ServedAsHeld
<1>1. AccessInv => ServedAsHeld BY DEF AccessInv
<1>q. QED BY <1>1, AccessInvariant, PTL
=============================================================================
