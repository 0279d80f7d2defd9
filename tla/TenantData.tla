----------------------------- MODULE TenantData -----------------------------
(***************************************************************************)
(* The tables of the control plane that hold the configuration of the      *)
(* tenants (internal/control/repository), and the handlers of the admin    *)
(* API that write them (internal/control/api/handler): upstreams with      *)
(* targets, services, routes, consumers, plugins and traffic policies.     *)
(*                                                                         *)
(* One function holds the rows of all tables: an id is a UUID, which no    *)
(* two rows share and which is never used again.  A column that refers to  *)
(* another table is named for the kind of row it points at: for a policy,  *)
(* "service" is target_service_id.  Columns no property tells apart are    *)
(* left out; name stands for the address of a target and for the priority  *)
(* of a policy.                                                            *)
(*                                                                         *)
(* A super admin has no tenant: its requests carry the nil UUID, which the *)
(* repositories take for every tenant where they read, update or delete,   *)
(* and for the tenant System, a row that ensureDefaultTenant makes, where  *)
(* they create and where they write the audit log.                         *)
(*                                                                         *)
(* A transaction runs READ COMMITTED and reads without locking, so the     *)
(* read of a transaction and its write are two steps.  A write, the audit  *)
(* row and the commit are one: the row lock of the write keeps every other *)
(* write of the row out until the commit.                                  *)
(***************************************************************************)
EXTENDS Naturals

CONSTANTS
    Tenants,    \* tenant ids
    System,     \* the tenant of the super admins: the nil UUID
    Ids,        \* the UUIDs that rows may get
    Names,      \* names, addresses and priorities
    Requests,   \* requests in flight that update or delete a row
    Kinds,      \* the kinds of rows that requests write
    Enabled,    \* the values that requests give to the column enabled
    MaxEdits,   \* bound on the updates and deletes that are begun
    Nil,        \* NULL
    Nothing     \* no row, and no entry of the audit log

Parents == {"upstream", "service", "route", "consumer"}

(* The columns of a kind of row that refer to a row of another table. *)
Foreign == [upstream |-> {}, consumer |-> {}, service |-> {"upstream"},
            target |-> {"upstream"}, route |-> {"service"},
            plugin |-> Parents \ {"upstream"}, policy |-> {"route", "service"}]

Row == [kind: DOMAIN Foreign, tenant: Tenants, name: Names \cup {Nil},
        on: BOOLEAN, ref: [Parents -> Ids \cup {Nil}]]

Entry == [action: {"create", "update", "delete"}, by: Tenants, new: Row \cup {Nothing}]

Idle == [step |-> "idle"]
Merged == [step: {"merged"}, op: {"update"}, tenant: Tenants, id: Ids, row: Row]
InTx == [step: {"read"}, op: {"update", "delete"}, tenant: Tenants, id: Ids,
         row: Row, old: Row]

ASSUME DataAssumption ==
    /\ System \in Tenants
    /\ Nil \notin Ids \cup Names
    /\ Nothing \notin Row \cup Entry
    /\ Kinds \subseteq DOMAIN Foreign
    /\ Enabled \subseteq BOOLEAN
    /\ MaxEdits \in Nat

VARIABLES
    rows,       \* the row with an id
    audit,      \* the last entry of audit_logs about an id
    req,        \* what the requests in flight have read so far
    edits       \* how many updates and deletes were begun

dataVars == <<rows, audit, req, edits>>

DataInit ==
    /\ rows = [i \in Ids |-> Nothing]
    /\ audit = [i \in Ids |-> Nothing]
    /\ req = [q \in Requests |-> Idle]
    /\ edits = 0

-----------------------------------------------------------------------------
(* What PostgreSQL does for the schema. *)

Live == {i \in Ids : rows[i] # Nothing}

(* Two rows that a UNIQUE constraint keeps apart; names are unique over all *)
(* tenants, priorities within a route.                                      *)
Clash(r, s) ==
    /\ r.kind = s.kind
    /\ r.name = s.name
    /\ r.name # Nil
    /\ \/ r.kind \in Parents
       \/ r.kind = "policy" /\ r.ref["route"] = s.ref["route"]

(* What an INSERT or UPDATE of the row i has to satisfy. *)
Accepted(i, r) ==
    /\ \A c \in Parents : r.ref[c] # Nil =>
          /\ r.ref[c] \in Live
          /\ rows[r.ref[c]].kind = c
    /\ \A j \in Live \ {i} : ~Clash(r, rows[j])

(* ON DELETE CASCADE: every reference but upstream_id of a service. *)
Dependents(S) ==
    {j \in Live : rows[j].kind # "service" /\ \E c \in Parents : rows[j].ref[c] \in S}

(* A mutant: the rows that refer to a dependent row stay. *)
CascadeOnce(i) == {i} \cup Dependents({i})

(* No chain of references that cascade is longer than two. *)
Cascade(i) == {i} \cup Dependents({i}) \cup Dependents(Dependents({i}))

(* ON DELETE SET NULL. *)
Detached(r, i) ==
    IF r.kind = "service" /\ r.ref["upstream"] = i
    THEN [r EXCEPT !.ref = [@ EXCEPT !["upstream"] = Nil]]
    ELSE r

-----------------------------------------------------------------------------
(* The audit log: its row is inserted by the transaction it reports.  The   *)
(* old value it shows is what the transaction read, req[q].old.             *)

insertLog(i, action, t, new) ==
    audit' = [audit EXCEPT ![i] = [action |-> action, by |-> t, new |-> new]]

logCreate(i, r) == insertLog(i, "create", r.tenant, r)
(* A mutant: the old row is logged as the new one. *)
logUpdateOld(r) == insertLog(r.id, "update", r.tenant, r.old)

logUpdate(r) == insertLog(r.id, "update", r.tenant, r.row)
logDelete(r) == insertLog(r.id, "delete", r.tenant, Nothing)

-----------------------------------------------------------------------------
(* The rows that the handlers make of a request: which columns may refer to *)
(* another row, and which have to.  The row exists when the request names   *)
(* it; otherwise the constraints refuse the request at once.                *)

OfKind(c) == {i \in Live : rows[i].kind = c}

Refs(may, must) ==
    {[c \in Parents |-> IF c \in may \cup must THEN f[c] ELSE Nil] :
        f \in {g \in [may \cup must -> Live \cup {Nil}] : \A c \in may \cup must :
                  g[c] \in OfKind(c) \/ (g[c] = Nil /\ c \notin must)}}

Make(kind, t, names, on, refs) ==
    [kind: {kind}, tenant: {t}, name: names, on: on, ref: refs]

NewUpstream(t) == Make("upstream", t, Names, {TRUE}, Refs({}, {}))
NewTarget(t)   == Make("target", t, Names, Enabled, Refs({}, {"upstream"}))
NewService(t)  == Make("service", t, Names, Enabled, Refs({"upstream"}, {}))
NewRoute(t)    == Make("route", t, Names \cup {Nil}, Enabled, Refs({}, {"service"}))
NewConsumer(t) == Make("consumer", t, Names, {TRUE}, Refs({}, {}))
NewPlugin(t)   == Make("plugin", t, Names, {TRUE}, Refs({"service", "route", "consumer"}, {}))
NewPolicy(t)   == Make("policy", t, Names, {TRUE}, Refs({}, {"service", "route"}))

(* createWithAudit: what the constraints refuse leaves nothing behind. *)
Insert(kind, i, new) ==
    /\ kind \in Kinds
    /\ audit[i] = Nothing
    /\ \E r \in new :
          /\ Accepted(i, r)
          /\ rows' = [rows EXCEPT ![i] = r]
          /\ logCreate(i, r)
    /\ UNCHANGED <<req, edits>>

CreateUpstream(t, i) == Insert("upstream", i, NewUpstream(t))
CreateTarget(t, i)   == Insert("target", i, NewTarget(t))
CreateService(t, i)  == Insert("service", i, NewService(t))
CreateRoute(t, i)    == Insert("route", i, NewRoute(t))
CreateConsumer(t, i) == Insert("consumer", i, NewConsumer(t))
CreatePlugin(t, i)   == Insert("plugin", i, NewPlugin(t))
CreatePolicy(t, i)   == Insert("policy", i, NewPolicy(t))

-----------------------------------------------------------------------------
(* getByID: a request sees the rows of its tenant, a super admin all.       *)

Sees(t, i) == t = System \/ rows[i].tenant = t

(* A mutant: the query names the tenant for nobody. *)
FoundAnywhere(kind, t, i) == i \in Live /\ rows[i].kind = kind

Found(kind, t, i) == i \in Live /\ rows[i].kind = kind /\ Sees(t, i)

getUpstream(t, i) == Found("upstream", t, i)
getTarget(t, i)   == Found("target", t, i)
getService(t, i)  == Found("service", t, i)
getRoute(t, i)    == Found("route", t, i)
getConsumer(t, i) == Found("consumer", t, i)
getPlugin(t, i)   == Found("plugin", t, i)
getPolicy(t, i)   == Found("policy", t, i)

-----------------------------------------------------------------------------
(* Update.  The handler reads the row, lays the fields of the request over  *)
(* it, and hands the whole row, of the tenant it had, to the repository.    *)

Merge(q, t, i, new) ==
    /\ rows[i].kind \in Kinds
    /\ req[q] = Idle
    /\ edits < MaxEdits
    /\ edits' = edits + 1
    /\ \E r \in new : req' = [req EXCEPT ![q] =
            [step |-> "merged", op |-> "update", tenant |-> t, id |-> i, row |-> r]]
    /\ UNCHANGED <<rows, audit>>

MergeUpstream(q, t, i) == getUpstream(t, i) /\ Merge(q, t, i, NewUpstream(rows[i].tenant))
MergeTarget(q, t, i)   == getTarget(t, i) /\ Merge(q, t, i,
                              {r \in NewTarget(rows[i].tenant) : r.ref = rows[i].ref})
MergeService(q, t, i)  == getService(t, i) /\ Merge(q, t, i, NewService(rows[i].tenant))
MergeRoute(q, t, i)    == getRoute(t, i) /\ Merge(q, t, i, NewRoute(rows[i].tenant))
MergeConsumer(q, t, i) == getConsumer(t, i) /\ Merge(q, t, i, NewConsumer(rows[i].tenant))
MergePlugin(q, t, i)   == getPlugin(t, i) /\ Merge(q, t, i, NewPlugin(rows[i].tenant))
MergePolicy(q, t, i)   == getPolicy(t, i) /\ Merge(q, t, i, NewPolicy(rows[i].tenant))

End(q) == req' = [req EXCEPT ![q] = Idle]

(* The transaction first reads the row again, for the audit log. *)
ReadOld(q, op, t, i, r) ==
    /\ req' = [req EXCEPT ![q] = [step |-> "read", op |-> op, tenant |-> t,
                                  id |-> i, row |-> r, old |-> rows[i]]]
    /\ UNCHANGED <<rows, audit>>

(* Then it writes all columns but the tenant, and commits. *)
WriteRow(r) ==
    /\ Accepted(r.id, r.row)
    /\ rows' = [rows EXCEPT ![r.id] = r.row]
    /\ logUpdate(r)

(* The row is gone, or a constraint refuses: the transaction rolls back. *)
RollBack(q) ==
    /\ End(q)
    /\ UNCHANGED <<rows, audit>>

Update(q, kind) ==
    LET r == req[q]
        found == Found(kind, r.tenant, r.id)
    IN  /\ r.op = "update"
        /\ r.row.kind = kind
        /\ \/ r.step = "merged" /\ found /\ ReadOld(q, "update", r.tenant, r.id, r.row)
           \/ r.step = "read" /\ found /\ WriteRow(r) /\ End(q)
           \/ r.step = "read" /\ ~Accepted(r.id, r.row) /\ RollBack(q)
           \/ ~found /\ RollBack(q)
        /\ UNCHANGED edits

UpdateUpstream(q) == req[q] # Idle /\ Update(q, "upstream")
UpdateTarget(q)   == req[q] # Idle /\ Update(q, "target")
UpdateService(q)  == req[q] # Idle /\ Update(q, "service")
UpdateRoute(q)    == req[q] # Idle /\ Update(q, "route")
UpdateConsumer(q) == req[q] # Idle /\ Update(q, "consumer")
UpdatePlugin(q)   == req[q] # Idle /\ Update(q, "plugin")
UpdatePolicy(q)   == req[q] # Idle /\ Update(q, "policy")

-----------------------------------------------------------------------------
(* Delete: a transaction that reads the row for the audit log and deletes it. *)

DeleteRow(r) ==
    /\ rows' = [i \in Ids |-> IF i \in Live \ Cascade(r.id)
                              THEN Detached(rows[i], r.id) ELSE Nothing]
    /\ logDelete(r)

Delete(q, kind) ==
    LET r == req[q]
        found == Found(kind, r.tenant, r.id)
    IN  /\ r.op = "delete"
        /\ r.row.kind = kind
        /\ \/ found /\ DeleteRow(r) /\ End(q)
           \/ ~found /\ RollBack(q)
        /\ UNCHANGED edits

Remove(q, kind, t, i, found) ==
    \/ /\ found
       /\ kind \in Kinds
       /\ req[q] = Idle
       /\ edits < MaxEdits
       /\ edits' = edits + 1
       /\ ReadOld(q, "delete", t, i, rows[i])
    \/ /\ req[q] # Idle
       /\ <<req[q].tenant, req[q].id>> = <<t, i>>
       /\ Delete(q, kind)

DeleteUpstream(q, t, i) == Remove(q, "upstream", t, i, getUpstream(t, i))
DeleteTarget(q, t, i)   == Remove(q, "target", t, i, getTarget(t, i))
DeleteService(q, t, i)  == Remove(q, "service", t, i, getService(t, i))
DeleteRoute(q, t, i)    == Remove(q, "route", t, i, getRoute(t, i))
DeleteConsumer(q, t, i) == Remove(q, "consumer", t, i, getConsumer(t, i))
DeletePlugin(q, t, i)   == Remove(q, "plugin", t, i, getPlugin(t, i))
DeletePolicy(q, t, i)   == Remove(q, "policy", t, i, getPolicy(t, i))

-----------------------------------------------------------------------------
UpstreamNext(q, t, i) == CreateUpstream(t, i) \/ MergeUpstream(q, t, i) \/ UpdateUpstream(q) \/ DeleteUpstream(q, t, i)
TargetNext(q, t, i) == CreateTarget(t, i) \/ MergeTarget(q, t, i) \/ UpdateTarget(q) \/ DeleteTarget(q, t, i)
ServiceNext(q, t, i) == CreateService(t, i) \/ MergeService(q, t, i) \/ UpdateService(q) \/ DeleteService(q, t, i)
RouteNext(q, t, i) == CreateRoute(t, i) \/ MergeRoute(q, t, i) \/ UpdateRoute(q) \/ DeleteRoute(q, t, i)
ConsumerNext(q, t, i) == CreateConsumer(t, i) \/ MergeConsumer(q, t, i) \/ UpdateConsumer(q) \/ DeleteConsumer(q, t, i)
PluginNext(q, t, i) == CreatePlugin(t, i) \/ MergePlugin(q, t, i) \/ UpdatePlugin(q) \/ DeletePlugin(q, t, i)
PolicyNext(q, t, i) == CreatePolicy(t, i) \/ MergePolicy(q, t, i) \/ UpdatePolicy(q) \/ DeletePolicy(q, t, i)

DataNext == \E q \in Requests, t \in Tenants, i \in Ids :
    \/ UpstreamNext(q, t, i) \/ TargetNext(q, t, i) \/ ServiceNext(q, t, i)
    \/ RouteNext(q, t, i) \/ ConsumerNext(q, t, i) \/ PluginNext(q, t, i)
    \/ PolicyNext(q, t, i)

DataSpec == DataInit /\ [][DataNext]_dataVars

-----------------------------------------------------------------------------
(* Properties. *)

DataTypeOK ==
    /\ rows \in [Ids -> Row \cup {Nothing}]
    /\ audit \in [Ids -> Entry \cup {Nothing}]
    /\ req \in [Requests -> {Idle} \cup Merged \cup InTx]
    /\ edits \in 0..MaxEdits

(* Whatever requests of all tenants overlap: a row refers only to rows that *)
(* exist and have the kind its column names, it has the references its kind *)
(* cannot be without, and no two rows have the key of each other.  That is  *)
(* so because the deletes cascade over every chain of references.           *)
RefersTo(r) ==
    /\ \A c \in Parents : r.ref[c] # Nil =>
          /\ c \in Foreign[r.kind]
          /\ r.ref[c] \in Live
          /\ rows[r.ref[c]].kind = c
    /\ \A c \in Foreign[r.kind] : r.ref[c] = Nil => r.kind \in {"service", "plugin"}

Integrity ==
    \A i \in Live :
        /\ RefersTo(rows[i])
        /\ \A j \in Live \ {i} : ~Clash(rows[i], rows[j])

(* The audit log accounts for the tables: the last entry about a row that   *)
(* exists is the write that made it what it is, but for the upstream that   *)
(* the deletion of an upstream took from a service; and it names the tenant *)
(* of the row, or that of the super admins.                                 *)
AuditAccounts ==
    \A i \in Live :
        /\ audit[i] # Nothing
        /\ audit[i].action \in {"create", "update"}
        /\ audit[i].by \in {rows[i].tenant, System}
        /\ \/ rows[i] = audit[i].new
           \/ rows[i] = Detached(audit[i].new, audit[i].new.ref["upstream"])

(* Not so: what a super admin does to a row of a tenant is logged for the   *)
(* tenant System, whose entries List does not show to the tenant            *)
(* (audit_repo.go:127-131, 175-185).                                        *)
AuditNamesTenant == \A i \in Live : audit[i].by = rows[i].tenant

(* A request changes or removes rows of its own tenant only, those of a     *)
(* super admin rows of all tenants, and none changes the tenant of a row;   *)
(* and they report them, but for the rows that refer to a row that they     *)
(* delete: a row that changes without an entry of its own refers, at most   *)
(* over one other row, to a row whose deletion is reported in the same step. *)
ChangesAccounted ==
    [][\A i \in Live : rows'[i] # rows[i] =>
          /\ rows'[i] # Nothing => rows'[i].tenant = rows[i].tenant
          /\ \/ audit'[i] # audit[i] /\ audit'[i].by \in {rows[i].tenant, System}
             \/ \E j \in Live :
                   /\ audit'[j] # audit[j]
                   /\ audit'[j].action = "delete"
                   /\ \/ j \in {rows[i].ref[c] : c \in Parents}
                      \/ \E k \in Live : k \in {rows[i].ref[c] : c \in Parents}
                                         /\ j \in {rows[k].ref[c] : c \in Parents}]_dataVars

(* docs/USER_GUIDE.md:527 promises the state before an operation in the     *)
(* audit log: what a transaction reports as the old value is the row that   *)
(* it changes or deletes.                                                   *)
AuditShowsBefore ==
    [][\A q \in Requests :
          req[q] # Idle /\ audit' # audit /\ req'[q] = Idle
          => req[q].old = rows[req[q].id]]_dataVars
=============================================================================
