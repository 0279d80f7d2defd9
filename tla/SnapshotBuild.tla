---------------------------- MODULE SnapshotBuild ----------------------------
(***************************************************************************)
(* How a revision is made of the tables of a tenant, or for a super admin  *)
(* of the tables of all: CreateRevision                                    *)
(* (internal/control/publisher/publisher.go) lets the validator            *)
(* (internal/control/validator) read every table and check its rows, and   *)
(* then reads every table again for the snapshot.  Each read is a          *)
(* statement of its own, and requests go on to write rows in between.      *)
(*                                                                         *)
(* No service has a host of its own, so that it needs an upstream          *)
(* (docs/USER_GUIDE.md:626), no policy is a fallback, and what Validate of *)
(* a row checks without other rows was checked when it was written.        *)
(***************************************************************************)
EXTENDS TenantData, FiniteSets

CONSTANT PageSize       \* rows of a page: 50, whatever page of 1000 is asked for

ASSUME PageAssumption == PageSize \in Nat \ {0}
ASSUME IdsAssumption == IsFiniteSet(Ids)

VARIABLES
    pub,        \* the request that makes a revision
    touched,    \* the rows that changed since it began
    crowded     \* some table did not fit into a page since it began

vars == <<dataVars, pub, touched, crowded>>

(* The stages: four tables to validate, the same four to copy, the INSERT.   *)
(* todo holds what is listed and not handled yet, Nothing before the listing. *)
Stage == <<"service", "route", "upstream", "policy",
           "service", "route", "upstream", "policy", "store">>

Item(i) == [id |-> i, row |-> rows[i], targets |-> {}]
NoSnapshot == [k \in {"service", "route", "upstream", "policy"} |-> {}]
NoRequest == [stage |-> 0]

Init == DataInit /\ pub = NoRequest /\ touched = {} /\ crowded = FALSE

-----------------------------------------------------------------------------
(* List: page 1 of the rows of the tenant, for a super admin of the rows of  *)
(* all tenants.  Which rows a page holds when there are more depends on the  *)
(* clocks that set created_at.                                               *)

Visible(kind, t) == {i \in Live : rows[i].kind = kind /\ Sees(t, i)}

Pages(all) ==
    {S \in SUBSET all : Cardinality(S) =
        IF Cardinality(all) < PageSize THEN Cardinality(all) ELSE PageSize}

ListServices(t)  == Pages(Visible("service", t))
ListRoutes(t)    == Pages(Visible("route", t))
ListUpstreams(t) == Pages(Visible("upstream", t))
ListPolicies(t)  == Pages(Visible("policy", t))
ListTargets(t, u) == {i \in Visible("target", t) : rows[i].ref["upstream"] = u}

(* What the request sees of each table fits into a page. *)
Fits(t) ==
    \A kind \in {"service", "route", "upstream", "policy"} :
        Cardinality(Visible(kind, t)) <= PageSize

Data ==
    /\ DataNext
    /\ UNCHANGED pub
    /\ touched' = IF pub = NoRequest THEN {}
                  ELSE touched \cup {i \in Ids : rows'[i] # rows[i]}
    /\ crowded' = (pub # NoRequest /\ (crowded \/ ~Fits(pub.tenant)'))

-----------------------------------------------------------------------------
(* Validation. *)

ValidateService(t, x) ==
    x.row.ref["upstream"] # Nil /\ getUpstream(t, x.row.ref["upstream"])

ValidateRoute(t, x) == getService(t, x.row.ref["service"])

ValidateUpstream(t, x) == \E i \in ListTargets(t, x.id) : rows[i].on

(* A mutant: a policy may lead back to the service of its route. *)
ValidatePolicyLoop(t, x) ==
    getRoute(t, x.row.ref["route"]) /\ getService(t, x.row.ref["service"])

ValidatePolicy(t, x) ==
    LET rt == x.row.ref["route"]
        target == x.row.ref["service"]
    IN  /\ getRoute(t, rt)
        /\ getService(t, target)
        /\ target # rows[rt].ref["service"]

Valid(kind, t, x) ==
    CASE kind = "service" -> ValidateService(t, x)
      [] kind = "route" -> ValidateRoute(t, x)
      [] kind = "upstream" -> ValidateUpstream(t, x)
      [] kind = "policy" -> ValidatePolicy(t, x)

List(kind, t) ==
    CASE kind = "service" -> ListServices(t)
      [] kind = "route" -> ListRoutes(t)
      [] kind = "upstream" -> ListUpstreams(t)
      [] kind = "policy" -> ListPolicies(t)

Continue(p, todo) ==
    IF todo = {} THEN [p EXCEPT !.stage = @ + 1, !.todo = Nothing]
                 ELSE [p EXCEPT !.todo = todo]

CreateRevision(t) ==
    /\ pub = NoRequest
    /\ pub' = [stage |-> 1, tenant |-> t, todo |-> Nothing, snap |-> NoSnapshot]
    /\ touched' = {}
    /\ crowded' = ~Fits(t)
    /\ UNCHANGED dataVars

ListRows(kind) ==
    /\ pub.todo = Nothing
    /\ \E S \in List(kind, pub.tenant) : pub' = Continue(pub, {Item(i) : i \in S})

(* One invalid row, and there is no revision. *)
ValidateAll ==
    /\ pub.stage \in 1..4
    /\ LET kind == Stage[pub.stage] IN
          \/ ListRows(kind)
          \/ /\ pub.todo # Nothing
             /\ \E x \in pub.todo : IF Valid(kind, pub.tenant, x)
                                    THEN pub' = Continue(pub, pub.todo \ {x})
                                    ELSE pub' = NoRequest
    /\ UNCHANGED <<dataVars, touched, crowded>>

-----------------------------------------------------------------------------
(* The snapshot: enabled services and routes, upstreams with their enabled  *)
(* targets, all policies.  The upstream of a service is not copied.         *)

Shipped(kind, S) ==
    LET items == {Item(i) : i \in S} IN
    CASE kind = "service" -> {[x EXCEPT !.row = Detached(@, @.ref["upstream"])] :
                                 x \in {y \in items : y.row.on}}
      [] kind = "route" -> {x \in items : x.row.on}
      [] kind = "policy" -> items

Add(p, kind, items) == [p EXCEPT !.snap[kind] = @ \cup items]

CreateSnapshot ==
    /\ pub.stage \in 5..8
    /\ LET kind == Stage[pub.stage] IN
          \/ kind = "upstream" /\ ListRows(kind)
          \/ /\ kind = "upstream"
             /\ pub.todo # Nothing
             /\ \E x \in pub.todo :
                   LET on == {i \in ListTargets(pub.tenant, x.id) : rows[i].on}
                   IN  pub' = Continue(Add(pub, kind, {[x EXCEPT !.targets = on]}), pub.todo \ {x})
          \/ /\ kind # "upstream"
             /\ \E S \in List(kind, pub.tenant) :
                   pub' = Continue(Add(pub, kind, Shipped(kind, S)), {})
    /\ UNCHANGED <<dataVars, touched, crowded>>

(* The INSERT into config_revisions, where RevisionPublish goes on. *)
Store ==
    /\ pub.stage = 9
    /\ pub' = NoRequest
    /\ UNCHANGED <<dataVars, touched, crowded>>

(* A statement fails, or the process dies: no revision. *)
Fail ==
    /\ pub # NoRequest
    /\ pub' = NoRequest
    /\ UNCHANGED <<dataVars, touched, crowded>>

Next ==
    \/ Data
    \/ \E t \in Tenants : CreateRevision(t)
    \/ ValidateAll
    \/ CreateSnapshot
    \/ Store
    \/ Fail

Spec == Init /\ [][Next]_vars

-----------------------------------------------------------------------------
(* Properties. *)

In(kind, i) == \E x \in pub.snap[kind] : x.id = i

Same(kind) == Visible(kind, pub.tenant) \ touched
SameIn(kind) == {x \in pub.snap[kind] : x.id \notin touched}

(* A revision about to be stored, of tables that fit into a page, is whole  *)
(* as far as no request changed it meanwhile, whatever else was changed: of *)
(* the rows that the publishing admin sees, what a row of the revision      *)
(* refers to is one, and is in it or was disabled; no policy leads back to  *)
(* the service of its route; every enabled service, route and target, and   *)
(* every upstream in use, is in it; and if nothing at all was changed every *)
(* upstream has a target.  A super admin sees the rows of all tenants.      *)
SnapshotWhole ==
    pub.stage = 9 /\ ~crowded =>
        /\ \A x \in SameIn("route") \cup SameIn("policy") :
              \A i \in {x.row.ref[c] : c \in Foreign[x.row.kind]} \ touched :
                  /\ Sees(pub.tenant, i)
                  /\ rows[i].on => In(rows[i].kind, i)
        /\ \A x \in SameIn("policy") :
              LET rt == x.row.ref["route"] IN
              rt \notin touched => x.row.ref["service"] # rows[rt].ref["service"]
        /\ \A i \in Same("service") \cup Same("route") : rows[i].on => In(rows[i].kind, i)
        /\ \A i \in Same("service") :
              LET u == rows[i].ref["upstream"] IN u \notin touched => In("upstream", u)
        /\ \A i \in Same("target") :
              LET u == rows[i].ref["upstream"] IN
              rows[i].on /\ u \in Same("upstream") =>
                  \E x \in pub.snap["upstream"] : x.id = u /\ i \in x.targets
        /\ \A x \in pub.snap["upstream"] : x.targets # {} \/ touched # {}

(* docs/USER_GUIDE.md:322 shows a request that is forwarded to a target of  *)
(* the upstream of the route's service: a service of the revision names the *)
(* upstream that it has in the tables.                                      *)
UpstreamShipped ==
    pub.stage = 9 =>
        \A x \in SameIn("service") : x.row.ref["upstream"] = rows[x.id].ref["upstream"]
=============================================================================
