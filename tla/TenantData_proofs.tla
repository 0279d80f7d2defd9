-------------------------- MODULE TenantData_proofs --------------------------
(***************************************************************************)
(* What holds of the tables for any number of tenants, rows and requests.  *)
(*                                                                         *)
(* Integrity is not inductive: an update writes a row that it merged long  *)
(* before, so the rows that requests carry must be well formed too.  That  *)
(* a deletion leaves no dangling reference is a matter of depth: nothing   *)
(* refers to a row more than two references away from the deleted one but  *)
(* a service, whose reference is set to NULL.  For the audit log a service *)
(* that lost its upstream needs a further fact: the upstream is gone for   *)
(* good, since no id is used twice.                                        *)
(***************************************************************************)
EXTENDS SnapshotBuild, FiniteSetTheorems, TLAPS

(* The references of a row, as far as its kind alone says. *)
WellFormed(r) ==
    /\ \A c \in Parents : r.ref[c] # Nil => c \in Foreign[r.kind]
    /\ \A c \in Foreign[r.kind] : r.ref[c] = Nil => r.kind \in {"service", "plugin"}

RowsOf(kind, t) == {r \in Row : r.kind = kind /\ r.tenant = t /\ WellFormed(r)}

(* Who acts for tenant t may see what is of tenant u. *)
May(t, u) == t \in {u, System}

(* The row that a request carries is of a tenant it may act for, and of the *)
(* tenant of the row that it is about, as long as there is one: what was    *)
(* once found has an entry in the audit log, so its id is not given again.  *)
Carried(r) ==
    /\ May(r.tenant, r.row.tenant)
    /\ WellFormed(r.row)
    /\ audit[r.id] # Nothing
    /\ r.id \in Live => rows[r.id].tenant = r.row.tenant

ReqInv == \A q \in Requests : req[q] # Idle => Carried(req[q])

(* A row that is not what its last entry says has lost its upstream. *)
Bereft(i) ==
    /\ rows[i] = Detached(audit[i].new, audit[i].new.ref["upstream"])
    /\ audit[i].new.ref["upstream"] \in Ids \ Live
    /\ audit[audit[i].new.ref["upstream"]] # Nothing

AuditInv == \A i \in Live :
    /\ audit[i] # Nothing
    /\ audit[i].action \in {"create", "update"}
    /\ May(audit[i].by, rows[i].tenant)
    /\ audit[i].new # Nothing
    /\ rows[i] = audit[i].new \/ Bereft(i)

DataInv == DataTypeOK /\ Integrity /\ ReqInv /\ AuditInv

-----------------------------------------------------------------------------
(* Facts about the schema. *)

\* The kinds of rows and the columns of each.
LEMMA SchemaFacts ==
  /\ Parents = {"upstream", "service", "route", "consumer"}
  /\ DOMAIN Foreign = {"upstream", "consumer", "service", "target", "route", "plugin", "policy"}
  /\ Foreign["upstream"] = {} /\ Foreign["consumer"] = {}
  /\ Foreign["service"] = {"upstream"} /\ Foreign["target"] = {"upstream"}
  /\ Foreign["route"] = {"service"} /\ Foreign["plugin"] = {"service", "route", "consumer"}
  /\ Foreign["policy"] = {"route", "service"}
BY DEF Parents, Foreign

\* What ON DELETE SET NULL does to a row.
LEMMA DetachedFacts ==
  ASSUME NEW r \in Row, NEW i \in Ids, NEW d, d = Detached(r, i)
  PROVE  /\ d \in Row /\ d # Nothing
         /\ d.kind = r.kind /\ d.tenant = r.tenant /\ d.name = r.name
         /\ \A c \in Parents : d.ref[c] = IF c = "upstream" /\ r.kind = "service" /\ r.ref[c] = i
                                         THEN Nil ELSE r.ref[c]
         /\ ~(r.kind = "service" /\ r.ref["upstream"] = i) => d = r
BY DataAssumption DEF Detached, Row, DataAssumption, Parents

\* A row keeps being well formed when its upstream is taken away.
LEMMA DetachedWellFormed ==
  ASSUME NEW r \in Row, NEW i \in Ids, WellFormed(r)
  PROVE  WellFormed(Detached(r, i))
<1> DEFINE d == Detached(r, i)
<1>1. /\ d.kind = r.kind
      /\ \A c \in Parents : d.ref[c] = IF c = "upstream" /\ r.kind = "service" /\ r.ref[c] = i
                                      THEN Nil ELSE r.ref[c]
  BY DetachedFacts
<1> HIDE DEF d
<1>2. /\ \A c \in Parents : d.ref[c] # Nil => c \in Foreign[d.kind]
      /\ \A c \in Foreign[d.kind] : c \in Parents
  BY <1>1, SchemaFacts DEF WellFormed, Row
<1>3. \A c \in Foreign[d.kind] : d.ref[c] = Nil => d.kind \in {"service", "plugin"}
  BY <1>1, <1>2 DEF WellFormed
<1>4. WellFormed(d) BY <1>2, <1>3 DEF WellFormed
<1>q. QED BY <1>4 DEF d

\* What makes a new row well formed.
LEMMA MakeWellFormed ==
  ASSUME NEW kind \in DOMAIN Foreign, NEW t \in Tenants, NEW names \in SUBSET (Names \cup {Nil}),
         NEW on \in SUBSET BOOLEAN, NEW may, NEW must, DataTypeOK,
         may \cup must = Foreign[kind],
         kind \in {"service", "plugin"} \/ must = Foreign[kind]
  PROVE  Make(kind, t, names, on, Refs(may, must)) \subseteq RowsOf(kind, t)
<1>1. SUFFICES ASSUME NEW r \in Make(kind, t, names, on, Refs(may, must)) PROVE r \in RowsOf(kind, t)
  OBVIOUS
<1>2. /\ r.kind = kind /\ r.tenant = t /\ r.name \in Names \cup {Nil} /\ r.on \in BOOLEAN
      /\ r.ref \in Refs(may, must)
      /\ r = [kind |-> r.kind, tenant |-> r.tenant, name |-> r.name, on |-> r.on, ref |-> r.ref]
  BY <1>1 DEF Make
<1>3. PICK f \in [may \cup must -> Live \cup {Nil}] :
        /\ r.ref = [c \in Parents |-> IF c \in may \cup must THEN f[c] ELSE Nil]
        /\ \A c \in may \cup must : f[c] \in OfKind(c) \/ (f[c] = Nil /\ c \notin must)
  BY <1>2 DEF Refs
<1>4. Foreign[kind] \subseteq Parents BY SchemaFacts
<1>5. r.ref \in [Parents -> Ids \cup {Nil}] BY <1>3 DEF Live
<1>6. r \in Row BY <1>2, <1>5 DEF Row
<1>7. \A c \in Parents : r.ref[c] # Nil => c \in Foreign[kind] BY <1>3
<1>8. \A c \in Foreign[kind] : r.ref[c] = Nil => kind \in {"service", "plugin"}
  BY <1>3, <1>4, DataAssumption DEF DataAssumption, OfKind, Live
<1>q. QED BY <1>2, <1>6, <1>7, <1>8 DEF RowsOf, WellFormed

\* Every row a handler makes is one of its kind and of the tenant of the request.
LEMMA NewRows ==
  ASSUME NEW t \in Tenants, DataTypeOK
  PROVE  /\ NewUpstream(t) \subseteq RowsOf("upstream", t)
         /\ NewTarget(t) \subseteq RowsOf("target", t)
         /\ NewService(t) \subseteq RowsOf("service", t)
         /\ NewRoute(t) \subseteq RowsOf("route", t)
         /\ NewConsumer(t) \subseteq RowsOf("consumer", t)
         /\ NewPlugin(t) \subseteq RowsOf("plugin", t)
         /\ NewPolicy(t) \subseteq RowsOf("policy", t)
<1> USE SchemaFacts
<1>1. /\ {TRUE} \in SUBSET BOOLEAN /\ Enabled \in SUBSET BOOLEAN
      /\ Names \in SUBSET (Names \cup {Nil}) /\ Names \cup {Nil} \in SUBSET (Names \cup {Nil})
      /\ {} \cup {} = {} /\ {} \cup {"service"} = {"service"} /\ {} \cup {"upstream"} = {"upstream"}
      /\ {"upstream"} \cup {} = {"upstream"}
      /\ {"service", "route", "consumer"} \cup {} = {"service", "route", "consumer"}
      /\ {} \cup {"service", "route"} = {"service", "route"} /\ {"route", "service"} = {"service", "route"}
  BY DataAssumption DEF DataAssumption
<1>2. NewUpstream(t) \subseteq RowsOf("upstream", t) BY <1>1, MakeWellFormed DEF NewUpstream
<1>3. NewTarget(t) \subseteq RowsOf("target", t) BY <1>1, MakeWellFormed DEF NewTarget
<1>4. NewService(t) \subseteq RowsOf("service", t) BY <1>1, MakeWellFormed DEF NewService
<1>5. NewRoute(t) \subseteq RowsOf("route", t) BY <1>1, MakeWellFormed DEF NewRoute
<1>6. NewConsumer(t) \subseteq RowsOf("consumer", t) BY <1>1, MakeWellFormed DEF NewConsumer
<1>7. NewPlugin(t) \subseteq RowsOf("plugin", t) BY <1>1, MakeWellFormed DEF NewPlugin
<1>8. NewPolicy(t) \subseteq RowsOf("policy", t) BY <1>1, MakeWellFormed DEF NewPolicy
<1>q. QED BY <1>2, <1>3, <1>4, <1>5, <1>6, <1>7, <1>8

\* A step that is not a matter of the kind of row: new is what the handler may make, of the
\* tenant of the request for a new row, and of the tenant of the row for an update.
StepOn(q, t, i, kind) ==
    \E u \in Tenants : \E new \in SUBSET RowsOf(kind, u) :
        \/ Insert(kind, i, new)
        \/ Found(kind, t, i) /\ u = rows[i].tenant /\ Merge(q, t, i, new)
        \/ req[q] # Idle /\ Update(q, kind)
        \/ Remove(q, kind, t, i, Found(kind, t, i))

\* What the handlers of one kind do is such a step.
LEMMA KindSteps ==
  ASSUME DataTypeOK, NEW q \in Requests, NEW t \in Tenants, NEW i \in Ids,
         NEW kind \in DOMAIN Foreign, NEW new, NEW merged,
         new \subseteq RowsOf(kind, t),
         rows[i].tenant \in Tenants => merged \subseteq RowsOf(kind, rows[i].tenant),
         \/ Insert(kind, i, new)
         \/ Found(kind, t, i) /\ Merge(q, t, i, merged)
         \/ req[q] # Idle /\ Update(q, kind)
         \/ Remove(q, kind, t, i, Found(kind, t, i))
  PROVE  StepOn(q, t, i, kind)
<1>1. CASE Found(kind, t, i) /\ Merge(q, t, i, merged)
  <2>1. rows[i].tenant \in Tenants BY <1>1, DataAssumption DEF Found, Live, DataTypeOK, Row
  <2>q. QED BY <1>1, <2>1 DEF StepOn
<1>2. CASE ~(Found(kind, t, i) /\ Merge(q, t, i, merged))
  BY <1>2 DEF StepOn
<1>q. QED BY <1>1, <1>2

\* The steps, told apart by what they do rather than by the kind of row.
LEMMA DataCases ==
  ASSUME DataTypeOK, DataNext
  PROVE  \E q \in Requests, t \in Tenants, i \in Ids, kind \in DOMAIN Foreign :
           StepOn(q, t, i, kind)
<1>1. PICK q \in Requests, t \in Tenants, i \in Ids :
        \/ UpstreamNext(q, t, i) \/ TargetNext(q, t, i) \/ ServiceNext(q, t, i)
        \/ RouteNext(q, t, i) \/ ConsumerNext(q, t, i) \/ PluginNext(q, t, i)
        \/ PolicyNext(q, t, i)
  BY DEF DataNext
<1>2. SUFFICES \E kind \in DOMAIN Foreign : StepOn(q, t, i, kind) OBVIOUS
<1>3. CASE UpstreamNext(q, t, i)
  <2> DEFINE new == NewUpstream(t)
             merged == NewUpstream(rows[i].tenant)
  <2>1. new \subseteq RowsOf("upstream", t) /\ "upstream" \in DOMAIN Foreign BY NewRows, SchemaFacts
  <2>2. rows[i].tenant \in Tenants => merged \subseteq RowsOf("upstream", rows[i].tenant)
    BY NewRows
  <2>3. \/ Insert("upstream", i, new)
        \/ Found("upstream", t, i) /\ Merge(q, t, i, merged)
        \/ req[q] # Idle /\ Update(q, "upstream")
        \/ Remove(q, "upstream", t, i, Found("upstream", t, i))
    BY <1>3, Zenon DEF UpstreamNext, CreateUpstream, MergeUpstream, UpdateUpstream, DeleteUpstream, getUpstream
  <2> HIDE DEF new, merged
  <2>4. StepOn(q, t, i, "upstream") BY <2>1, <2>2, <2>3, KindSteps
  <2>q. QED BY <2>1, <2>4
<1>4. CASE TargetNext(q, t, i)
  <2> DEFINE new == NewTarget(t)
             merged == {r \in NewTarget(rows[i].tenant) : r.ref = rows[i].ref}
  <2>1. new \subseteq RowsOf("target", t) /\ "target" \in DOMAIN Foreign BY NewRows, SchemaFacts
  <2>2. rows[i].tenant \in Tenants => merged \subseteq RowsOf("target", rows[i].tenant)
    BY NewRows
  <2>3. \/ Insert("target", i, new)
        \/ Found("target", t, i) /\ Merge(q, t, i, merged)
        \/ req[q] # Idle /\ Update(q, "target")
        \/ Remove(q, "target", t, i, Found("target", t, i))
    BY <1>4, Zenon DEF TargetNext, CreateTarget, MergeTarget, UpdateTarget, DeleteTarget, getTarget
  <2> HIDE DEF new, merged
  <2>4. StepOn(q, t, i, "target") BY <2>1, <2>2, <2>3, KindSteps
  <2>q. QED BY <2>1, <2>4
<1>5. CASE ServiceNext(q, t, i)
  <2> DEFINE new == NewService(t)
             merged == NewService(rows[i].tenant)
  <2>1. new \subseteq RowsOf("service", t) /\ "service" \in DOMAIN Foreign BY NewRows, SchemaFacts
  <2>2. rows[i].tenant \in Tenants => merged \subseteq RowsOf("service", rows[i].tenant)
    BY NewRows
  <2>3. \/ Insert("service", i, new)
        \/ Found("service", t, i) /\ Merge(q, t, i, merged)
        \/ req[q] # Idle /\ Update(q, "service")
        \/ Remove(q, "service", t, i, Found("service", t, i))
    BY <1>5, Zenon DEF ServiceNext, CreateService, MergeService, UpdateService, DeleteService, getService
  <2> HIDE DEF new, merged
  <2>4. StepOn(q, t, i, "service") BY <2>1, <2>2, <2>3, KindSteps
  <2>q. QED BY <2>1, <2>4
<1>6. CASE RouteNext(q, t, i)
  <2> DEFINE new == NewRoute(t)
             merged == NewRoute(rows[i].tenant)
  <2>1. new \subseteq RowsOf("route", t) /\ "route" \in DOMAIN Foreign BY NewRows, SchemaFacts
  <2>2. rows[i].tenant \in Tenants => merged \subseteq RowsOf("route", rows[i].tenant)
    BY NewRows
  <2>3. \/ Insert("route", i, new)
        \/ Found("route", t, i) /\ Merge(q, t, i, merged)
        \/ req[q] # Idle /\ Update(q, "route")
        \/ Remove(q, "route", t, i, Found("route", t, i))
    BY <1>6, Zenon DEF RouteNext, CreateRoute, MergeRoute, UpdateRoute, DeleteRoute, getRoute
  <2> HIDE DEF new, merged
  <2>4. StepOn(q, t, i, "route") BY <2>1, <2>2, <2>3, KindSteps
  <2>q. QED BY <2>1, <2>4
<1>7. CASE ConsumerNext(q, t, i)
  <2> DEFINE new == NewConsumer(t)
             merged == NewConsumer(rows[i].tenant)
  <2>1. new \subseteq RowsOf("consumer", t) /\ "consumer" \in DOMAIN Foreign BY NewRows, SchemaFacts
  <2>2. rows[i].tenant \in Tenants => merged \subseteq RowsOf("consumer", rows[i].tenant)
    BY NewRows
  <2>3. \/ Insert("consumer", i, new)
        \/ Found("consumer", t, i) /\ Merge(q, t, i, merged)
        \/ req[q] # Idle /\ Update(q, "consumer")
        \/ Remove(q, "consumer", t, i, Found("consumer", t, i))
    BY <1>7, Zenon DEF ConsumerNext, CreateConsumer, MergeConsumer, UpdateConsumer, DeleteConsumer, getConsumer
  <2> HIDE DEF new, merged
  <2>4. StepOn(q, t, i, "consumer") BY <2>1, <2>2, <2>3, KindSteps
  <2>q. QED BY <2>1, <2>4
<1>8. CASE PluginNext(q, t, i)
  <2> DEFINE new == NewPlugin(t)
             merged == NewPlugin(rows[i].tenant)
  <2>1. new \subseteq RowsOf("plugin", t) /\ "plugin" \in DOMAIN Foreign BY NewRows, SchemaFacts
  <2>2. rows[i].tenant \in Tenants => merged \subseteq RowsOf("plugin", rows[i].tenant)
    BY NewRows
  <2>3. \/ Insert("plugin", i, new)
        \/ Found("plugin", t, i) /\ Merge(q, t, i, merged)
        \/ req[q] # Idle /\ Update(q, "plugin")
        \/ Remove(q, "plugin", t, i, Found("plugin", t, i))
    BY <1>8, Zenon DEF PluginNext, CreatePlugin, MergePlugin, UpdatePlugin, DeletePlugin, getPlugin
  <2> HIDE DEF new, merged
  <2>4. StepOn(q, t, i, "plugin") BY <2>1, <2>2, <2>3, KindSteps
  <2>q. QED BY <2>1, <2>4
<1>9. CASE PolicyNext(q, t, i)
  <2> DEFINE new == NewPolicy(t)
             merged == NewPolicy(rows[i].tenant)
  <2>1. new \subseteq RowsOf("policy", t) /\ "policy" \in DOMAIN Foreign BY NewRows, SchemaFacts
  <2>2. rows[i].tenant \in Tenants => merged \subseteq RowsOf("policy", rows[i].tenant)
    BY NewRows
  <2>3. \/ Insert("policy", i, new)
        \/ Found("policy", t, i) /\ Merge(q, t, i, merged)
        \/ req[q] # Idle /\ Update(q, "policy")
        \/ Remove(q, "policy", t, i, Found("policy", t, i))
    BY <1>9, Zenon DEF PolicyNext, CreatePolicy, MergePolicy, UpdatePolicy, DeletePolicy, getPolicy
  <2> HIDE DEF new, merged
  <2>4. StepOn(q, t, i, "policy") BY <2>1, <2>2, <2>3, KindSteps
  <2>q. QED BY <2>1, <2>4
<1>q. QED BY <1>1, <1>3, <1>4, <1>5, <1>6, <1>7, <1>8, <1>9

-----------------------------------------------------------------------------
(* The invariant. *)

\* The row that changes is one the audit log speaks of, or refers to one.
Reported(i) ==
    \/ audit'[i] # audit[i] /\ audit'[i].by \in {rows[i].tenant, System}
    \/ \E j \in Live :
          /\ audit'[j] # audit[j]
          /\ audit'[j].action = "delete"
          /\ \/ j \in {rows[i].ref[c] : c \in Parents}
             \/ \E k \in Live : k \in {rows[i].ref[c] : c \in Parents}
                                /\ j \in {rows[k].ref[c] : c \in Parents}

\* A row keeps its tenant for as long as it exists.
KeepsTenant(i) == rows'[i] # Nothing => rows'[i].tenant = rows[i].tenant
Accounted(i) == rows'[i] # rows[i] => KeepsTenant(i) /\ Reported(i)

\* The tables are empty at first.
LEMMA InitData == DataInit => DataInv
<1> SUFFICES ASSUME DataInit PROVE DataInv OBVIOUS
<1>1. DataTypeOK BY DataAssumption DEF DataInit, DataTypeOK, DataAssumption
<1>2. Live = {} BY DEF DataInit, Live
<1>3. Integrity /\ AuditInv BY <1>2 DEF Integrity, AuditInv
<1>4. ReqInv BY DEF DataInit, ReqInv
<1>q. QED BY <1>1, <1>3, <1>4 DEF DataInv

\* What is live is a row.
LEMMA LiveRows ==
  ASSUME DataTypeOK
  PROVE  /\ Live \subseteq Ids
         /\ \A i \in Live : rows[i] \in Row
         /\ \A i \in Ids : rows[i] \in Row => i \in Live
BY DataAssumption DEF DataTypeOK, Live, DataAssumption

\* A write that the constraints accept of a row of its kind keeps the references whole and
\* the keys apart; an id that is written again keeps its kind.
LEMMA WriteKeeps ==
  ASSUME DataTypeOK, Integrity, NEW i \in Ids, NEW r \in Row, WellFormed(r), Accepted(i, r),
         i \in Live => rows[i].kind = r.kind,
         rows' = [rows EXCEPT ![i] = r]
  PROVE  rows' \in [Ids -> Row \cup {Nothing}] /\ Live' = Live \cup {i} /\ Integrity'
<1>1. rows' \in [Ids -> Row \cup {Nothing}] BY DEF DataTypeOK
<1>2. /\ rows'[i] = r /\ \A j \in Ids \ {i} : rows'[j] = rows[j]
      /\ \A j \in Live : rows'[j].kind = rows[j].kind
  BY DEF DataTypeOK, Live
<1>3. Live' = Live \cup {i} BY <1>2, DataAssumption DEF Live, DataAssumption
<1>4. ASSUME NEW j \in Live' PROVE RefersTo(rows[j])'
  <2>1. CASE j = i
    <3>1. \A c \in Parents : r.ref[c] # Nil =>
            c \in Foreign[r.kind] /\ r.ref[c] \in Live' /\ rows'[r.ref[c]].kind = c
      BY <1>2, <1>3 DEF WellFormed, Accepted
    <3>q. QED BY <2>1, <3>1, <1>2 DEF RefersTo, WellFormed
  <2>2. CASE j # i
    <3>1. j \in Live /\ rows'[j] = rows[j] BY <1>2, <1>3, <2>2 DEF Live
    <3>2. RefersTo(rows[j]) BY <3>1 DEF Integrity
    <3>q. QED BY <3>1, <3>2, <1>2, <1>3 DEF RefersTo
  <2>q. QED BY <2>1, <2>2
<1>5. ASSUME NEW j \in Live', NEW k \in Live' \ {j} PROVE ~Clash(rows'[j], rows'[k])
  <2>1. CASE j = i
    BY <1>2, <1>3, <2>1 DEF Accepted, Live
  <2>2. CASE k = i
    <3>1. ~Clash(r, rows[j]) /\ rows'[j] = rows[j] BY <1>2, <1>3, <2>2 DEF Accepted, Live
    <3>q. QED BY <1>2, <2>2, <3>1 DEF Clash
  <2>3. CASE j # i /\ k # i
    BY <1>2, <1>3, <2>3 DEF Integrity, Live
  <2>q. QED BY <2>1, <2>2, <2>3
<1>6. Integrity' BY <1>4, <1>5 DEF Integrity, Clash
<1>q. QED BY <1>1, <1>3, <1>6

\* Creating a row.
LEMMA InsertStep ==
  ASSUME DataInv, NEW kind \in DOMAIN Foreign, NEW t \in Tenants, NEW i \in Ids,
         NEW new \in SUBSET RowsOf(kind, t), Insert(kind, i, new)
  PROVE  DataInv' /\ \A j \in Live : rows'[j] = rows[j]
<1> USE DEF DataInv
<1>1. PICK r \in new : Accepted(i, r) /\ rows' = [rows EXCEPT ![i] = r] /\ logCreate(i, r)
  BY DEF Insert
<1>2. r \in Row /\ r.kind = kind /\ r.tenant = t /\ WellFormed(r) BY DEF RowsOf
<1>3. i \notin Live /\ req' = req /\ edits' = edits BY DEF Insert, AuditInv
<1>4. rows' \in [Ids -> Row \cup {Nothing}] /\ Live' = Live \cup {i} /\ Integrity'
  BY <1>1, <1>2, <1>3, WriteKeeps
<1>5. /\ audit' = [audit EXCEPT ![i] = [action |-> "create", by |-> t, new |-> r]]
      /\ [action |-> "create", by |-> t, new |-> r] \in Entry
  BY <1>1, <1>2 DEF logCreate, insertLog, Entry
<1>6. DataTypeOK' BY <1>3, <1>4, <1>5 DEF DataTypeOK
<1>8. \A j \in Live : rows'[j] = rows[j] /\ audit'[j] = audit[j] BY <1>1, <1>3, <1>5 DEF DataTypeOK, Live
<1>7. ASSUME NEW p \in Requests, req'[p] # Idle PROVE Carried(req[p])'
  <2>1. req'[p] = req[p] /\ Carried(req[p]) BY <1>3, <1>7 DEF ReqInv
  <2>2. req[p].id # i /\ req[p].id \in Ids
    BY <2>1, <1>3, <1>7 DEF Carried, Insert, DataTypeOK, Merged, InTx
  <2>3. audit'[req[p].id] = audit[req[p].id] BY <2>2, <1>5 DEF DataTypeOK
  <2>4. req[p].id \in Live' => req[p].id \in Live BY <2>2, <1>4
  <2>q. QED BY <2>1, <2>3, <2>4, <1>8 DEF Carried
<1>9. ASSUME NEW j \in Live'
      PROVE  /\ audit'[j] # Nothing /\ audit'[j].action \in {"create", "update"}
             /\ May(audit'[j].by, rows'[j].tenant) /\ audit'[j].new # Nothing
             /\ rows'[j] = audit'[j].new \/ Bereft(j)'
  <2>1. CASE j = i
    <3>1. rows'[i] = r /\ audit'[i] = [action |-> "create", by |-> t, new |-> r]
      BY <1>1, <1>5 DEF DataTypeOK
    <3>2. audit'[i].by = rows'[i].tenant /\ audit'[i].new = rows'[i] /\ audit'[i] \in Entry
      BY <3>1, <1>2, <1>5
    <3>q. QED BY <2>1, <3>1, <3>2, <1>2, DataAssumption DEF DataAssumption, May
  <2>2. CASE j # i
    <3>1. j \in Live BY <1>4, <2>2
    <3>2. ASSUME Bereft(j) PROVE Bereft(j)'
      <4>1. audit[j].new.ref["upstream"] # i BY <3>2 DEF Insert, Bereft
      <4>2. audit'[audit[j].new.ref["upstream"]] = audit[audit[j].new.ref["upstream"]]
        BY <3>2, <4>1, <1>5 DEF DataTypeOK, Bereft
      <4>q. QED BY <3>1, <3>2, <4>1, <4>2, <1>4, <1>8 DEF Bereft, Detached
    <3>q. QED BY <3>1, <3>2, <1>8 DEF AuditInv
  <2>q. QED BY <2>1, <2>2
<1>q. QED BY <1>4, <1>6, <1>7, <1>8, <1>9 DEF AuditInv, ReqInv

\* A step that only moves a request on.
LEMMA ReqStep ==
  ASSUME DataInv, NEW q \in Requests, NEW v, v \in {Idle} \cup Merged \cup InTx,
         v # Idle => Carried(v),
         req' = [req EXCEPT ![q] = v], edits' \in 0..MaxEdits, UNCHANGED <<rows, audit>>
  PROVE  DataInv' /\ rows' = rows
<1> USE DEF DataInv
<1>1. DataTypeOK' BY DEF DataTypeOK
<1>2. ReqInv' BY DEF ReqInv, DataTypeOK, Carried, Live
<1>3. Integrity' BY DEF Integrity, RefersTo, Live, Clash
<1>4. AuditInv' BY DEF AuditInv, Bereft, Detached, Live
<1>q. QED BY <1>1, <1>2, <1>3, <1>4

\* A handler merges a request into the row it has read.
LEMMA MergeStep ==
  ASSUME DataInv, NEW kind \in DOMAIN Foreign, NEW t \in Tenants, NEW i \in Ids, NEW q \in Requests,
         Found(kind, t, i), NEW u, u = rows[i].tenant,
         NEW new \in SUBSET RowsOf(kind, u), Merge(q, t, i, new)
  PROVE  DataInv' /\ rows' = rows
<1> USE DEF DataInv
<1>1. PICK r \in new : req' = [req EXCEPT ![q] =
            [step |-> "merged", op |-> "update", tenant |-> t, id |-> i, row |-> r]]
  BY DEF Merge
<1> DEFINE v == [step |-> "merged", op |-> "update", tenant |-> t, id |-> i, row |-> r]
<1>2. r \in Row /\ r.tenant = u /\ WellFormed(r) BY DEF RowsOf
<1>3. UNCHANGED <<rows, audit>> /\ edits < MaxEdits /\ edits' = edits + 1 BY DEF Merge
<1>4. v \in Merged BY <1>2 DEF Merged
<1>5. v.tenant = t /\ v.id = i /\ v.row = r OBVIOUS
<1>6. req' = [req EXCEPT ![q] = v] BY <1>1
<1> HIDE DEF v
<1>7. Carried(v) BY <1>2, <1>5 DEF Carried, May, Found, Sees, AuditInv
<1>8. edits' \in 0..MaxEdits BY <1>3, DataAssumption DEF DataTypeOK, DataAssumption
<1>q. QED BY <1>3, <1>4, <1>6, <1>7, <1>8, ReqStep

\* A transaction reads the row that it will change or delete.
LEMMA ReadStep ==
  ASSUME DataInv, NEW q \in Requests, NEW op \in {"update", "delete"}, NEW t \in Tenants,
         NEW i \in Live, NEW r \in Row, May(t, r.tenant), WellFormed(r),
         rows[i].tenant = r.tenant, edits' \in 0..MaxEdits,
         ReadOld(q, op, t, i, r)
  PROVE  DataInv' /\ rows' = rows
<1> DEFINE v == [step |-> "read", op |-> op, tenant |-> t, id |-> i, row |-> r, old |-> rows[i]]
<1>1. v \in InTx BY LiveRows DEF InTx, DataInv
<1>2. v.tenant = t /\ v.row = r /\ v.id = i OBVIOUS
<1>3. req' = [req EXCEPT ![q] = v] /\ UNCHANGED <<rows, audit>> BY DEF ReadOld
<1> HIDE DEF v
<1>4. Carried(v) BY <1>2 DEF Carried, DataInv, AuditInv
<1>q. QED BY <1>1, <1>3, <1>4, ReqStep

\* What a request in flight carries.
LEMMA ReqFacts ==
  ASSUME DataInv, NEW q \in Requests, req[q] # Idle
  PROVE  /\ req[q].tenant \in Tenants /\ req[q].id \in Ids /\ req[q].row \in Row
         /\ Carried(req[q]) /\ req[q].op \in {"update", "delete"}
BY DEF DataInv, DataTypeOK, ReqInv, Merged, InTx

\* The other requests still carry what they did after a write that takes from no row its
\* tenant or its entry.
LEMMA CarriedOn ==
  ASSUME DataInv, NEW q \in Requests, req' = [req EXCEPT ![q] = Idle],
         Live' \subseteq Live, \A i \in Live' : rows'[i].tenant = rows[i].tenant,
         \A i \in Ids : audit[i] # Nothing => audit'[i] # Nothing
  PROVE  ReqInv'
<1> SUFFICES ASSUME NEW p \in Requests, req'[p] # Idle PROVE Carried(req[p])' BY DEF ReqInv
<1>1. p # q /\ req'[p] = req[p] BY DEF DataInv, DataTypeOK
<1>2. Carried(req[p]) /\ req[p].id \in Ids BY <1>1, ReqFacts
<1>q. QED BY <1>1, <1>2 DEF Carried

\* The write of an update.
LEMMA WriteStep ==
  ASSUME DataInv, NEW q \in Requests, NEW kind \in DOMAIN Foreign, req[q] # Idle,
         req[q].row.kind = kind, Found(kind, req[q].tenant, req[q].id),
         WriteRow(req[q]), End(q), edits' = edits
  PROVE  DataInv' /\ \A j \in Live : Accounted(j)
<1> USE DEF DataInv
<1> DEFINE i == req[q].id
           r == req[q].row
           t == req[q].tenant
           e == [action |-> "update", by |-> t, new |-> r]
<1>1. t \in Tenants /\ i \in Ids /\ r \in Row /\ Carried(req[q]) /\ r.kind = kind
  BY ReqFacts
<1>2. /\ i \in Live /\ rows[i].kind = kind /\ rows[i].tenant = r.tenant
      /\ WellFormed(r) /\ May(t, r.tenant)
  BY <1>1 DEF Found, Carried
<1>3. Accepted(i, r) /\ rows' = [rows EXCEPT ![i] = r] /\ audit' = [audit EXCEPT ![i] = e]
  BY DEF WriteRow, logUpdate, insertLog
<1>4. req' = [req EXCEPT ![q] = Idle] BY DEF End
<1>5. e \in Entry /\ e.action = "update" /\ e.by = t /\ e.new = r BY <1>1 DEF Entry
<1> HIDE DEF i, r, t, e
<1>6. rows' \in [Ids -> Row \cup {Nothing}] /\ Live' = Live /\ Integrity'
  BY <1>1, <1>2, <1>3, WriteKeeps, ZenonT(60)
<1>7. DataTypeOK' BY <1>3, <1>4, <1>5, <1>6 DEF DataTypeOK
<1>9. rows'[i] = r /\ audit'[i] = e
      /\ \A j \in Ids \ {i} : rows'[j] = rows[j] /\ audit'[j] = audit[j]
  BY <1>1, <1>3 DEF DataTypeOK
<1>12. e # Nothing BY <1>5, DataAssumption DEF DataAssumption
<1>13. \A j \in Live : rows'[j].tenant = rows[j].tenant BY <1>2, <1>9, LiveRows
<1>8. ReqInv'
  <2>1. \A j \in Ids : audit[j] # Nothing => audit'[j] # Nothing BY <1>9, <1>12
  <2>q. QED BY <2>1, <1>4, <1>6, <1>13, CarriedOn
<1>10. ASSUME NEW j \in Live'
       PROVE  /\ audit'[j] # Nothing /\ audit'[j].action \in {"create", "update"}
              /\ May(audit'[j].by, rows'[j].tenant) /\ audit'[j].new # Nothing
              /\ rows'[j] = audit'[j].new \/ Bereft(j)'
  <2>1. CASE j = i
    BY <2>1, <1>1, <1>2, <1>5, <1>9, <1>12, DataAssumption DEF DataAssumption
  <2>2. CASE j # i
    <3>1. j \in Live /\ rows'[j] = rows[j] /\ audit'[j] = audit[j] BY <1>6, <1>9, <2>2 DEF Live
    <3>2. ASSUME Bereft(j) PROVE Bereft(j)'
      BY <1>2, <1>6, <1>9, <3>1, <3>2 DEF Bereft, Detached
    <3>q. QED BY <3>1, <3>2 DEF AuditInv
  <2>q. QED BY <2>1, <2>2
<1>11. ASSUME NEW j \in Live, rows'[j] # rows[j] PROVE Reported(j)
  <2>1. j = i BY <1>9, <1>11 DEF Live
  <2>2. ASSUME audit[i] = e PROVE FALSE
    <3>1. audit[i].new = r BY <2>2, <1>5
    <3>2. Bereft(i) BY <3>1, <2>1, <1>2, <1>9, <1>11 DEF AuditInv
    <3>3. r.ref["upstream"] \in Ids \ Live BY <3>1, <3>2 DEF Bereft
    <3>4. r.ref["upstream"] # Nil BY <3>3, DataAssumption DEF DataAssumption
    <3>q. QED BY <1>3, <3>3, <3>4, SchemaFacts DEF Accepted
  <2>q. QED BY <2>1, <2>2, <1>2, <1>5, <1>9 DEF Reported, May
<1>q. QED BY <1>6, <1>7, <1>8, <1>10, <1>11, <1>13 DEF AuditInv, Accounted, KeepsTenant

\* Any step of an update.
LEMMA UpdateStep ==
  ASSUME DataInv, NEW q \in Requests, NEW kind \in DOMAIN Foreign, req[q] # Idle, Update(q, kind)
  PROVE  DataInv' /\ \A j \in Live : Accounted(j)
<1> DEFINE r == req[q]
<1>1. /\ r.tenant \in Tenants /\ r.id \in Ids /\ r.row \in Row
      /\ Carried(r)
  BY ReqFacts
<1>2. edits' = edits /\ edits \in 0..MaxEdits BY DEF Update, DataInv, DataTypeOK
<1>3. CASE Found(kind, r.tenant, r.id) /\ ReadOld(q, "update", r.tenant, r.id, r.row)
  <2>1. /\ r.id \in Live /\ May(r.tenant, r.row.tenant) /\ WellFormed(r.row)
        /\ rows[r.id].tenant = r.row.tenant
    BY <1>1, <1>3 DEF Found, Carried
  <2>2. DataInv' /\ rows' = rows BY <1>1, <1>2, <1>3, <2>1, ReadStep
  <2>q. QED BY <2>2 DEF Accounted
<1>4. CASE Found(kind, r.tenant, r.id) /\ WriteRow(r) /\ End(q)
  BY <1>2, <1>4, WriteStep DEF Update
<1>5. CASE RollBack(q)
  BY <1>2, <1>5, ReqStep DEF RollBack, End, Accounted
<1>q. QED BY <1>3, <1>4, <1>5 DEF Update

-----------------------------------------------------------------------------
(* Deletion. *)

\* Among the rows that stay, only services refer to a row that goes, and only to the row
\* whose deletion was asked for: a chain of references that cascade ends after two.
LEMMA Depth ==
  ASSUME DataTypeOK, Integrity, NEW d \in Live, NEW m \in Live \ Cascade(d), NEW c \in Parents,
         rows[m].ref[c] \in Cascade(d)
  PROVE  rows[m].ref[c] = d /\ rows[m].kind = "service" /\ c = "upstream"
<1> DEFINE k == rows[m].ref[c]
           D1 == Dependents({d})
           D2 == Dependents(D1)
<1>1. Cascade(d) = {d} \cup D1 \cup D2 /\ Cascade(d) \subseteq Live /\ Live \subseteq Ids
  BY LiveRows DEF Cascade, Dependents
<1>2. Nil \notin Ids BY DataAssumption DEF DataAssumption
<1>3. c \in Foreign[rows[m].kind] /\ k \in Live /\ rows[k].kind = c
  BY <1>1, <1>2, ZenonT(60) DEF Integrity, RefersTo
<1>4. \A S : k \in Dependents(S) =>
        /\ rows[k].kind # "service"
        /\ \E b \in Parents : rows[k].ref[b] \in S
  BY DEF Dependents
<1>5. \A b \in Parents : rows[k].ref[b] # Nil =>
        b \in Foreign[c] /\ rows[k].ref[b] \in Live /\ rows[rows[k].ref[b]].kind = b
  BY <1>3 DEF Integrity, RefersTo
<1>6. D1 \subseteq Ids /\ \A l \in D1 : rows[l].kind # "service" BY <1>1 DEF Dependents
<1>7. \A S : rows[m].kind # "service" /\ k \in S => m \in Dependents(S) BY DEF Dependents
<1> HIDE DEF k
<1>8. CASE rows[m].kind = "service"
  <2>1. c = "upstream" /\ Foreign[c] = {} BY <1>3, <1>8, SchemaFacts
  <2>2. k \notin D1 /\ k \notin D2 BY <2>1, <1>1, <1>2, <1>4, <1>5, <1>6
  <2>q. QED BY <1>1, <1>8, <2>1, <2>2 DEF k
<1>9. CASE rows[m].kind # "service"
  <2>1. k # d /\ k \notin D1 BY <1>1, <1>7, <1>9
  <2>2. ASSUME k \in D2 PROVE FALSE
    <3>1. c # "service" /\ \E b \in Parents : rows[k].ref[b] \in D1 BY <2>2, <1>3, <1>4
    <3>2. \E b \in Foreign[c] : rows[k].ref[b] \in D1 /\ b # "service"
      BY <3>1, <1>2, <1>5, <1>6
    <3>q. QED BY <3>1, <3>2, SchemaFacts
  <2>q. QED BY <1>1, <2>1, <2>2 DEF k
<1>q. QED BY <1>8, <1>9

\* The deletion of a row leaves the references whole and the keys apart.
LEMMA CascadeKeeps ==
  ASSUME DataTypeOK, Integrity, NEW d \in Live,
         rows' = [i \in Ids |-> IF i \in Live \ Cascade(d) THEN Detached(rows[i], d) ELSE Nothing]
  PROVE  /\ rows' \in [Ids -> Row \cup {Nothing}]
         /\ Live' = Live \ Cascade(d)
         /\ Integrity'
<1>1. Live \subseteq Ids /\ d \in Ids /\ \A i \in Live : rows[i] \in Row BY LiveRows
<1>2. \A i \in Live : LET r == Detached(rows[i], d) IN
        /\ r \in Row /\ r # Nothing
        /\ r.kind = rows[i].kind /\ r.name = rows[i].name
        /\ \A c \in Parents : r.ref[c] =
             IF c = "upstream" /\ rows[i].kind = "service" /\ rows[i].ref[c] = d
             THEN Nil ELSE rows[i].ref[c]
  BY <1>1, DetachedFacts
<1>3. rows' \in [Ids -> Row \cup {Nothing}] BY <1>2
<1>4. Live' = Live \ Cascade(d) BY <1>1, <1>2 DEF Live
<1>5. \A i \in Live' : i \in Live /\ rows'[i] = Detached(rows[i], d) BY <1>1, <1>4
<1>6. ASSUME NEW i \in Live'
      PROVE  rows'[i].kind = rows[i].kind /\ rows'[i].name = rows[i].name
             /\ rows'[i].ref["route"] = rows[i].ref["route"]
  <2>1. i \in Live /\ rows'[i] = Detached(rows[i], d) /\ rows[i] \in Row /\ "route" \in Parents
    BY <1>1, <1>5, SchemaFacts
  <2>2. rows'[i].ref["route"] = rows[i].ref["route"] BY <2>1, <1>1, DetachedFacts
  <2>q. QED BY <2>1, <2>2, <1>1, DetachedFacts
<1>7. ASSUME NEW m \in Live' PROVE RefersTo(rows[m])'
  <2>1. m \in Live \ Cascade(d) /\ rows'[m] = Detached(rows[m], d) BY <1>4, <1>5
  <2>2. RefersTo(rows[m]) /\ WellFormed(rows[m]) BY <2>1 DEF Integrity, RefersTo, WellFormed
  <2>3. WellFormed(rows'[m]) BY <1>1, <2>1, <2>2, DetachedWellFormed
  <2>4. ASSUME NEW c \in Parents, rows'[m].ref[c] # Nil
        PROVE  rows'[m].ref[c] \in Live' /\ rows'[rows'[m].ref[c]].kind = c
    <3>1. rows'[m].ref[c] = rows[m].ref[c] /\ ~(c = "upstream" /\ rows[m].kind = "service" /\ rows[m].ref[c] = d)
      BY <1>2, <2>1, <2>4
    <3>2. rows[m].ref[c] \in Live /\ rows[rows[m].ref[c]].kind = c
      BY <2>2, <2>4, <3>1 DEF RefersTo
    <3>3. rows[m].ref[c] \notin Cascade(d) BY <2>1, <3>1, Depth
    <3>4. rows[m].ref[c] \in Live' BY <1>4, <3>2, <3>3
    <3>q. QED BY <1>6, <3>1, <3>2, <3>4
  <2>q. QED BY <2>3, <2>4 DEF RefersTo, WellFormed
<1>8. ASSUME NEW j \in Live', NEW k \in Live' \ {j} PROVE ~Clash(rows'[j], rows'[k])
  <2>1. ~Clash(rows[j], rows[k]) BY <1>5 DEF Integrity
  <2>2. /\ rows'[j].kind = rows[j].kind /\ rows'[k].kind = rows[k].kind
        /\ rows'[j].name = rows[j].name /\ rows'[k].name = rows[k].name
        /\ rows'[j].ref["route"] = rows[j].ref["route"]
        /\ rows'[k].ref["route"] = rows[k].ref["route"]
    BY <1>6
  <2>q. QED BY <2>1, <2>2 DEF Clash
<1>9. Integrity' BY <1>7, <1>8 DEF Integrity, Clash
<1>q. QED BY <1>3, <1>4, <1>9

\* The write of a deletion.
LEMMA DeleteStep ==
  ASSUME DataInv, NEW q \in Requests, NEW kind \in DOMAIN Foreign, req[q] # Idle,
         Found(kind, req[q].tenant, req[q].id), DeleteRow(req[q]), End(q), edits' = edits
  PROVE  DataInv' /\ \A j \in Live : Accounted(j)
<1> USE DEF DataInv
<1> DEFINE d == req[q].id
           t == req[q].tenant
           e == [action |-> "delete", by |-> t, new |-> Nothing]
<1>1. t \in Tenants /\ d \in Live /\ May(t, rows[d].tenant)
  BY ReqFacts DEF Found, Sees, May
<1>2. /\ rows' = [i \in Ids |-> IF i \in Live \ Cascade(d) THEN Detached(rows[i], d) ELSE Nothing]
      /\ audit' = [audit EXCEPT ![d] = e]
  BY DEF DeleteRow, logDelete, insertLog
<1>3. req' = [req EXCEPT ![q] = Idle] BY DEF End
<1>4. e \in Entry /\ e # Nothing /\ e.action = "delete" /\ e.by = t
  BY <1>1, DataAssumption DEF Entry, DataAssumption
<1> HIDE DEF d, t, e
<1>5. rows' \in [Ids -> Row \cup {Nothing}] /\ Live' = Live \ Cascade(d) /\ Integrity'
  BY <1>1, <1>2, CascadeKeeps
<1>6. DataTypeOK' BY <1>2, <1>3, <1>4, <1>5 DEF DataTypeOK
<1>8. /\ Live \subseteq Ids /\ d \in Cascade(d) /\ \A j \in Live : rows[j] \in Row
      /\ audit'[d] = e /\ \A j \in Ids \ {d} : audit'[j] = audit[j]
  BY <1>1, <1>2, LiveRows DEF DataTypeOK, Cascade
<1>9. \A j \in Live \ Cascade(d) : rows'[j] = Detached(rows[j], d) BY <1>2, <1>8
<1>12. \A j \in Live' : rows'[j].tenant = rows[j].tenant
  BY <1>1, <1>5, <1>8, <1>9, DetachedFacts
<1>7. ReqInv'
  <2>1. \A j \in Ids : audit[j] # Nothing => audit'[j] # Nothing BY <1>4, <1>8
  <2>q. QED BY <2>1, <1>3, <1>5, <1>12, CarriedOn
<1>10. ASSUME NEW j \in Live'
       PROVE  /\ audit'[j] # Nothing /\ audit'[j].action \in {"create", "update"}
              /\ May(audit'[j].by, rows'[j].tenant) /\ audit'[j].new # Nothing
              /\ rows'[j] = audit'[j].new \/ Bereft(j)'
  <2> DEFINE new == audit[j].new
             u == new.ref["upstream"]
  <2>1. /\ j \in Live \ Cascade(d) /\ j # d /\ audit'[j] = audit[j]
        /\ rows'[j] = Detached(rows[j], d) /\ rows'[j].tenant = rows[j].tenant
    BY <1>1, <1>5, <1>8, <1>9, DetachedFacts
  <2>2. /\ audit[j] # Nothing /\ audit[j].action \in {"create", "update"}
        /\ May(audit[j].by, rows[j].tenant) /\ new # Nothing /\ new \in Row
        /\ rows[j] = new \/ Bereft(j)
    BY <2>1, <1>8 DEF AuditInv, DataTypeOK, Entry
  <2> HIDE DEF new
  <2>3. CASE rows'[j] = rows[j]
    <3>1. ASSUME Bereft(j) PROVE Bereft(j)'
      <4>1. rows[j] = Detached(new, u) /\ u \in Ids \ Live /\ audit[u] # Nothing
        BY <3>1 DEF Bereft, new
      <4>2. u \in Ids \ Live' /\ audit'[u] # Nothing BY <4>1, <1>4, <1>5, <1>8
      <4>q. QED BY <4>1, <4>2, <2>1, <2>3 DEF Bereft, new, Detached
    <3>q. QED BY <3>1, <2>1, <2>2, <2>3 DEF new
  <2>4. CASE rows'[j] # rows[j]
    <3>1. rows[j].kind = "service" /\ rows[j].ref["upstream"] = d
      BY <2>1, <2>4, <1>1, <1>8, DetachedFacts
    <3>2. ~Bereft(j)
      <4>1. SUFFICES ASSUME Bereft(j) PROVE FALSE OBVIOUS
      <4>2. rows[j] = Detached(new, u) /\ u \in Ids BY <4>1 DEF Bereft, new
      <4>3. rows[j].kind = new.kind BY <4>2, <2>2, DetachedFacts
      <4>4. rows[j].ref["upstream"] = Nil
        BY <4>2, <4>3, <3>1, <2>2, DetachedFacts, SchemaFacts
      <4>q. QED BY <4>4, <3>1, <1>1, <1>8, DataAssumption DEF DataAssumption
    <3>3. rows[j] = new /\ u = d BY <3>1, <3>2, <2>2
    <3>4. Bereft(j)' BY <3>3, <2>1, <1>1, <1>4, <1>5, <1>8 DEF Bereft, Detached, new
    <3>q. QED BY <3>4, <2>1, <2>2 DEF new
  <2>q. QED BY <2>3, <2>4
<1>11. ASSUME NEW j \in Live, rows'[j] # rows[j] PROVE Reported(j)
  <2>1. audit'[d] # audit[d] /\ audit'[d].action = "delete" /\ May(audit'[d].by, rows[d].tenant)
    BY <1>1, <1>4, <1>8 DEF AuditInv
  <2>2. CASE j = d BY <2>1, <2>2 DEF Reported, May
  <2>3. CASE j \in Dependents({d})
    BY <2>1, <2>3, <1>1 DEF Reported, Dependents
  <2>4. CASE j \in Dependents(Dependents({d}))
    <3>1. PICK c \in Parents : rows[j].ref[c] \in Dependents({d}) BY <2>4 DEF Dependents
    <3>2. rows[j].ref[c] \in Live /\ \E b \in Parents : rows[rows[j].ref[c]].ref[b] = d
      BY <3>1 DEF Dependents
    <3>q. QED BY <2>1, <3>2, <1>1 DEF Reported
  <2>5. CASE j \in Live \ Cascade(d)
    <3>1. rows[j].ref["upstream"] = d BY <2>5, <1>1, <1>8, <1>9, <1>11, DetachedFacts
    <3>q. QED BY <2>1, <3>1, <1>1, SchemaFacts DEF Reported
  <2>q. QED BY <2>2, <2>3, <2>4, <2>5 DEF Cascade
<1>13. \A j \in Live : KeepsTenant(j) BY <1>8, <1>12 DEF KeepsTenant, Live
<1>q. QED BY <1>5, <1>6, <1>7, <1>10, <1>11, <1>13 DEF AuditInv, Accounted

\* Any step of a deletion.
LEMMA RemoveStep ==
  ASSUME DataInv, NEW q \in Requests, NEW kind \in DOMAIN Foreign, NEW t \in Tenants, NEW i \in Ids,
         Remove(q, kind, t, i, Found(kind, t, i))
  PROVE  DataInv' /\ \A j \in Live : Accounted(j)
<1>1. CASE /\ Found(kind, t, i) /\ edits < MaxEdits /\ edits' = edits + 1
           /\ ReadOld(q, "delete", t, i, rows[i])
  <2>1. i \in Live /\ rows[i] \in Row /\ May(t, rows[i].tenant)
    BY <1>1, LiveRows DEF Found, Sees, May, DataInv
  <2>2. WellFormed(rows[i]) BY <2>1 DEF DataInv, Integrity, RefersTo, WellFormed
  <2>3. edits' \in 0..MaxEdits
    BY <1>1, DataAssumption DEF DataInv, DataTypeOK, DataAssumption
  <2>4. DataInv' /\ rows' = rows BY <1>1, <2>1, <2>2, <2>3, ReadStep
  <2>q. QED BY <2>4 DEF Accounted
<1>2. CASE req[q] # Idle /\ Delete(q, kind)
  <2>1. edits' = edits /\ edits \in 0..MaxEdits BY <1>2 DEF Delete, DataInv, DataTypeOK
  <2>2. CASE Found(kind, req[q].tenant, req[q].id) /\ DeleteRow(req[q]) /\ End(q)
    BY <1>2, <2>1, <2>2, DeleteStep
  <2>3. CASE RollBack(q) BY <2>1, <2>3, ReqStep DEF RollBack, End, Accounted
  <2>q. QED BY <1>2, <2>2, <2>3 DEF Delete
<1>q. QED BY <1>1, <1>2 DEF Remove

\* Every step keeps the invariant and reports what it changes.
LEMMA DataStep ==
  ASSUME DataInv, [DataNext]_dataVars
  PROVE  DataInv' /\ \A j \in Live : Accounted(j)
<1>1. CASE DataNext
  <2>1. PICK q \in Requests, t \in Tenants, i \in Ids, kind \in DOMAIN Foreign :
          StepOn(q, t, i, kind)
    BY <1>1, DataCases DEF DataInv
  <2>2. ASSUME NEW u \in Tenants, NEW new \in SUBSET RowsOf(kind, u), Insert(kind, i, new)
        PROVE  DataInv' /\ \A j \in Live : Accounted(j)
    BY <2>2, InsertStep DEF Accounted
  <2>3. ASSUME NEW u \in Tenants, NEW new \in SUBSET RowsOf(kind, u),
               Found(kind, t, i), u = rows[i].tenant, Merge(q, t, i, new)
        PROVE  DataInv' /\ \A j \in Live : Accounted(j)
    BY <2>3, MergeStep DEF Accounted
  <2>4. CASE req[q] # Idle /\ Update(q, kind) BY <2>4, UpdateStep
  <2>5. CASE Remove(q, kind, t, i, Found(kind, t, i)) BY <2>5, RemoveStep
  <2>q. QED BY <2>1, <2>2, <2>3, <2>4, <2>5 DEF StepOn
<1>2. CASE UNCHANGED dataVars
  <2>1. rows' = rows /\ audit' = audit /\ req' = req /\ edits' = edits BY <1>2 DEF dataVars
  <2>2. DataTypeOK' BY <2>1 DEF DataInv, DataTypeOK
  <2>3. ReqInv' BY <2>1 DEF DataInv, ReqInv, Carried, Live
  <2>4. Integrity' BY <2>1 DEF DataInv, Integrity, RefersTo, Live, Clash
  <2>5. AuditInv' BY <2>1 DEF DataInv, AuditInv, Bereft, Detached, Live
  <2>q. QED BY <2>1, <2>2, <2>3, <2>4, <2>5 DEF DataInv, Accounted
<1>q. QED BY <1>1, <1>2

-----------------------------------------------------------------------------
(* The theorems. *)

\* The invariant that the others follow from.
THEOREM DataInvariant == DataSpec => []DataInv
<1>1. DataInit => DataInv BY InitData
<1>2. DataInv /\ [DataNext]_dataVars => DataInv' BY DataStep
<1>q. QED BY <1>1, <1>2, PTL DEF DataSpec

\* Every variable keeps its type: a request carries a whole row, an entry of the audit log
\* one of the tenants and a row (repository/*.go, createWithAudit and its like).
THEOREM DataTypeCorrect == DataSpec => []DataTypeOK
<1>1. DataInv => DataTypeOK BY DEF DataInv
<1>q. QED BY <1>1, DataInvariant, PTL

\* Whatever requests overlap, no reference dangles, none is of the wrong kind, and no two rows
\* share a key: the foreign keys and unique constraints of migrations/0001 and later.
THEOREM IntegrityHolds == DataSpec => []Integrity
<1>1. DataInv => Integrity BY DEF DataInv
<1>q. QED BY <1>1, DataInvariant, PTL

\* The last entry of the audit log about a row that exists tells what the row is, but for an
\* upstream it has lost, and names its tenant or, when a super admin wrote it, System.
THEOREM AuditAccountsHolds == DataSpec => []AuditAccounts
<1>1. DataInv => AuditAccounts BY DEF DataInv, AuditInv, AuditAccounts, Bereft, May
<1>q. QED BY <1>1, DataInvariant, PTL

\* A row never changes its tenant, and it changes only with an entry of its tenant or of a super
\* admin, or because a row at most two references away is deleted with an entry.
THEOREM ChangesAccountedHolds == DataSpec => ChangesAccounted
<1>1. DataInv /\ [DataNext]_dataVars =>
        [\A i \in Live : rows'[i] # rows[i] =>
          /\ rows'[i] # Nothing => rows'[i].tenant = rows[i].tenant
          /\ \/ audit'[i] # audit[i] /\ audit'[i].by \in {rows[i].tenant, System}
             \/ \E j \in Live :
                   /\ audit'[j] # audit[j]
                   /\ audit'[j].action = "delete"
                   /\ \/ j \in {rows[i].ref[c] : c \in Parents}
                      \/ \E k \in Live : k \in {rows[i].ref[c] : c \in Parents}
                                         /\ j \in {rows[k].ref[c] : c \in Parents}]_dataVars
  BY DataStep DEF Accounted, KeepsTenant, Reported
<1>q. QED BY <1>1, DataInvariant, PTL DEF DataSpec, ChangesAccounted

-----------------------------------------------------------------------------
(***************************************************************************)
(* That a snapshot misses no row, for any tables, any number of tenants    *)
(* and any requests that change the tables while it is read.               *)
(*                                                                         *)
(* SnapshotWhole speaks of the moment before the snapshot is created: of   *)
(* the rows that were not changed since its reading began, it holds those  *)
(* that are switched on.  What makes it true happened many steps before    *)
(* and one row at a time, so BuildInv says of every stage that was left,   *)
(* what it found of each row of its table (Checked, Copied), of the stage  *)
(* that is under way, that each row is done or still to come (TodoInv),    *)
(* and of the rows that were read, that only a changed one differs from    *)
(* the table (Current).                                                    *)
(***************************************************************************)

(* A request that makes a revision, as a record. *)
PubShape ==
    /\ pub.stage \in 1..9
    /\ pub.tenant \in Tenants
    /\ pub = [stage |-> pub.stage, tenant |-> pub.tenant, todo |-> pub.todo, snap |-> pub.snap]
    /\ pub.snap = [k \in {"service", "route", "upstream", "policy"} |-> pub.snap[k]]

(* What validation found of a row that was not changed since, in terms of   *)
(* the tables as they are now.                                              *)
Checked(kind, i) ==
    LET r == rows[i].ref
        t == pub.tenant
    IN  /\ kind = "service" =>
              r["upstream"] # Nil /\ (r["upstream"] \notin touched => getUpstream(t, r["upstream"]))
        /\ kind = "route" => (r["service"] \notin touched => getService(t, r["service"]))
        /\ kind = "upstream" => (touched = {} => \E j \in ListTargets(t, i) : rows[j].on)
        /\ kind = "policy" =>
              /\ r["service"] \notin touched => getService(t, r["service"])
              /\ r["route"] \notin touched =>
                    getRoute(t, r["route"]) /\ r["service"] # rows[r["route"]].ref["service"]

(* What copying left in the snapshot of such a row. *)
Copied(kind, i) ==
    /\ kind \in {"service", "route"} /\ rows[i].on => In(kind, i)
    /\ kind = "policy" => In(kind, i)
    /\ kind = "upstream" =>
          /\ In(kind, i)
          /\ \A j \in Same("target") : rows[j].on /\ rows[j].ref["upstream"] = i =>
                \E x \in pub.snap["upstream"] : x.id = i /\ j \in x.targets

(* A row that was read is the row of the tables, unless it was changed. *)
Current(kind, x) ==
    /\ x = [id |-> x.id, row |-> x.row, targets |-> x.targets]
    /\ x.id \notin touched => x.id \in Visible(kind, pub.tenant) /\ x.row = rows[x.id]

Listed(i) == \E x \in pub.todo : x.id = i

StagesInv ==
    /\ \A n \in 1..4 : n < pub.stage => \A i \in Same(Stage[n]) : Checked(Stage[n], i)
    /\ \A n \in 5..8 : n < pub.stage => \A i \in Same(Stage[n]) : Copied(Stage[n], i)

TodoInv ==
    LET kind == Stage[pub.stage] IN
    pub.todo # Nothing /\ pub.stage # 9 =>
        /\ \A x \in pub.todo : Current(kind, x)
        /\ pub.stage \in 1..4 => \A i \in Same(kind) : Listed(i) \/ Checked(kind, i)
        /\ pub.stage \in 5..8 => \A i \in Same(kind) : Listed(i) \/ Copied(kind, i)

SnapInv ==
    /\ \A k \in {"route", "policy"} : \A x \in pub.snap[k] : Current(k, x)
    /\ \A x \in pub.snap["upstream"] : x.targets # {} \/ touched # {}

BuildInv ==
    pub # NoRequest =>
        /\ PubShape
        /\ ~crowded => Fits(pub.tenant) /\ StagesInv /\ TodoInv /\ SnapInv

Tables == {"service", "route", "upstream", "policy"}

-----------------------------------------------------------------------------
(* Facts about the stages and the pages. *)

\* Which table each stage is about.
LEMMA StageFacts ==
  /\ Stage[1] = "service" /\ Stage[2] = "route" /\ Stage[3] = "upstream" /\ Stage[4] = "policy"
  /\ Stage[5] = "service" /\ Stage[6] = "route" /\ Stage[7] = "upstream" /\ Stage[8] = "policy"
  /\ \A n \in 1..8 : Stage[n] \in Tables
BY DEF Stage, Tables

\* A page is the whole table when the table fits.
LEMMA WholePage ==
  ASSUME NEW t, NEW kind \in Tables, Fits(t), NEW S \in List(kind, t)
  PROVE  S = Visible(kind, t)
<1> DEFINE all == Visible(kind, t)
<1>1. IsFiniteSet(all)
  <2>1. all \subseteq Ids BY DEF Visible, Live, Sees
  <2>q. QED BY <2>1, FS_Subset, IdsAssumption DEF IdsAssumption
<1>2. S \in Pages(all)
  BY DEF List, ListServices, ListRoutes, ListUpstreams, ListPolicies, Tables
<1>3. Cardinality(all) <= PageSize BY DEF Fits, Tables
<1>4. Cardinality(all) \in Nat /\ PageSize \in Nat
  BY <1>1, FS_CardinalityType, PageAssumption DEF PageAssumption
<1> HIDE DEF all
<1>5. S \in SUBSET all /\ Cardinality(S) = Cardinality(all)
  BY <1>2, <1>3, <1>4 DEF Pages
<1>6. S = all BY <1>1, <1>5, FS_Subset
<1>q. QED BY <1>6 DEF all

\* A row that no request changes stays what it is.
LEMMA Untouched ==
  ASSUME touched' = touched \cup {i \in Ids : rows'[i] # rows[i]}, pub' = pub
  PROVE  /\ \A i \in Ids : i \notin touched' => rows'[i] = rows[i] /\ (i \in Live <=> i \in Live')
         /\ \A i : i \notin touched' => i \notin touched
         /\ \A kind, t : \A i : i \notin touched' => (i \in Visible(kind, t) <=> i \in Visible(kind, t)')
         /\ touched' = {} => touched = {}
BY DEF Live, Visible, Sees

\* A lookup of a row that no request changes keeps its result.
LEMMA FoundKept ==
  ASSUME touched' = touched \cup {i \in Ids : rows'[i] # rows[i]}, pub' = pub,
         NEW kind, NEW t, NEW i, i \notin touched', Found(kind, t, i)
  PROVE  Found(kind, t, i)' /\ i \in Ids
BY DEF Found, Live, Sees

\* What validation found holds on.
LEMMA CheckedKept ==
  ASSUME touched' = touched \cup {i \in Ids : rows'[i] # rows[i]}, pub' = pub,
         NEW kind \in Tables, NEW i \in Same(kind)', Checked(kind, i)
  PROVE  i \in Same(kind) /\ Checked(kind, i)'
<1>1. i \in Same(kind) BY Untouched DEF Same
<1>2. i \in Ids /\ i \notin touched' /\ rows'[i] = rows[i] BY Untouched, <1>1 DEF Same, Visible, Live, Sees
<1>3. PICK t : t = pub.tenant /\ t = pub'.tenant OBVIOUS
<1>4. PICK u, v, w : /\ rows[i].ref["upstream"] = u /\ rows[i].ref["service"] = v /\ rows[i].ref["route"] = w
  OBVIOUS
<1>5. rows'[i].ref["upstream"] = u /\ rows'[i].ref["service"] = v /\ rows'[i].ref["route"] = w
  BY <1>2, <1>4
<1>6. CASE kind = "service"
  <2>1. u # Nil /\ (u \notin touched => Found("upstream", t, u))
    BY <1>3, <1>4, <1>6 DEF Checked, getUpstream
  <2>2. u \notin touched' => Found("upstream", t, u)' BY <2>1, FoundKept, Untouched
  <2>q. QED BY <1>1, <1>3, <1>5, <1>6, <2>1, <2>2 DEF Checked, getUpstream
<1>7. CASE kind = "route"
  <2>1. v \notin touched => Found("service", t, v)
    BY <1>3, <1>4, <1>7 DEF Checked, getService
  <2>2. v \notin touched' => Found("service", t, v)' BY <2>1, FoundKept, Untouched
  <2>q. QED BY <1>1, <1>3, <1>5, <1>7, <2>2 DEF Checked, getService
<1>8. CASE kind = "upstream"
  <2>1. touched' = {} => touched = {} /\ \A j \in Ids : rows'[j] = rows[j] BY Untouched
  <2>2. touched' = {} => ListTargets(t, i)' = ListTargets(t, i)
    BY <2>1 DEF ListTargets, Visible, Live, Sees
  <2>3. ListTargets(t, i) \subseteq Ids BY DEF ListTargets, Visible, Live, Sees
  <2>4. touched = {} => \E j \in ListTargets(t, i) : rows[j].on BY <1>3, <1>8 DEF Checked
  <2>5. touched' = {} => \E j \in ListTargets(t, i)' : rows'[j].on BY <2>1, <2>2, <2>3, <2>4
  <2>q. QED BY <1>1, <1>3, <1>8, <2>5 DEF Checked
<1>9. CASE kind = "policy"
  <2>1. /\ v \notin touched => Found("service", t, v)
        /\ w \notin touched => Found("route", t, w) /\ v # rows[w].ref["service"]
    BY <1>3, <1>4, <1>9 DEF Checked, getService, getRoute
  <2>2. v \notin touched' => Found("service", t, v)' BY <2>1, FoundKept, Untouched
  <2>3. w \notin touched' => Found("route", t, w)' /\ w \in Ids BY <2>1, FoundKept, Untouched
  <2>4. w \notin touched' => v # rows'[w].ref["service"] BY <2>1, <2>3, Untouched
  <2>q. QED BY <1>1, <1>3, <1>5, <1>9, <2>2, <2>3, <2>4 DEF Checked, getService, getRoute
<1>q. QED BY <1>1, <1>6, <1>7, <1>8, <1>9 DEF Tables

\* What is copied stays copied.
LEMMA CopiedKept ==
  ASSUME touched' = touched \cup {i \in Ids : rows'[i] # rows[i]}, pub' = pub,
         NEW kind \in Tables, NEW i \in Same(kind)', Copied(kind, i)
  PROVE  i \in Same(kind) /\ Copied(kind, i)'
<1>1. i \in Same(kind) BY Untouched DEF Same
<1>2. i \in Ids /\ i \notin touched' /\ rows'[i] = rows[i] BY Untouched, <1>1 DEF Same, Visible, Live, Sees
<1>3. \A j \in Same("target")' : j \in Same("target") /\ rows'[j] = rows[j]
  BY Untouched DEF Same, Visible, Live, Sees
<1>q. QED BY <1>1, <1>2, <1>3 DEF Copied, In

\* What is read stays current.
LEMMA CurrentKept ==
  ASSUME touched' = touched \cup {i \in Ids : rows'[i] # rows[i]}, pub' = pub,
         NEW kind, NEW x, Current(kind, x)
  PROVE  Current(kind, x)'
BY Untouched DEF Current, Visible, Live, Sees

-----------------------------------------------------------------------------
(* The steps. *)

\* Whatever a request to the tables does, what was collected so far stands.
LEMMA DataKeeps ==
  ASSUME BuildInv, Data
  PROVE  BuildInv'
<1>1. SUFFICES ASSUME pub # NoRequest PROVE BuildInv'
  BY DEF Data, BuildInv
<1>2. /\ pub' = pub
      /\ touched' = touched \cup {i \in Ids : rows'[i] # rows[i]}
      /\ ~crowded' => ~crowded /\ Fits(pub.tenant)'
  BY <1>1 DEF Data
<1>3. PubShape' BY <1>1, <1>2 DEF BuildInv, PubShape
<1>4. SUFFICES ASSUME ~crowded' PROVE StagesInv' /\ TodoInv' /\ SnapInv'
  BY <1>2, <1>3 DEF BuildInv
<1>5. StagesInv /\ TodoInv /\ SnapInv /\ PubShape BY <1>1, <1>2, <1>4 DEF BuildInv
<1>6. \A kind \in Tables : \A i \in Same(kind)' :
        /\ i \in Same(kind)
        /\ Checked(kind, i) => Checked(kind, i)'
        /\ Copied(kind, i) => Copied(kind, i)'
  BY <1>2, CheckedKept, CopiedKept, Untouched DEF Same
<1>7. StagesInv'
  <2>1. \A n \in 1..4 : n < pub.stage => \A i \in Same(Stage[n])' : Checked(Stage[n], i)'
    BY <1>5, <1>6, StageFacts DEF StagesInv
  <2>2. \A n \in 5..8 : n < pub.stage => \A i \in Same(Stage[n])' : Copied(Stage[n], i)'
    BY <1>5, <1>6, StageFacts DEF StagesInv
  <2>q. QED BY <1>2, <2>1, <2>2 DEF StagesInv, Stage
<1>8. TodoInv'
  <2>1. SUFFICES ASSUME pub.todo # Nothing, pub.stage # 9 PROVE TodoInv'
    BY <1>2 DEF TodoInv
  <2>2. PICK kind : kind = Stage[pub.stage] OBVIOUS
  <2>3. kind \in Tables /\ kind = Stage'[pub'.stage] BY <1>2, <1>5, <2>1, <2>2, StageFacts DEF PubShape, Stage
  <2>4. \A x \in pub.todo : Current(kind, x)'
    BY <1>2, <1>5, <2>1, <2>2, CurrentKept DEF TodoInv
  <2>5. pub.stage \in 1..4 => \A i \in Same(kind)' : Listed(i) \/ Checked(kind, i)'
    BY <1>5, <1>6, <2>1, <2>2, <2>3 DEF TodoInv
  <2>6. pub.stage \in 5..8 => \A i \in Same(kind)' : Listed(i) \/ Copied(kind, i)'
    BY <1>5, <1>6, <2>1, <2>2, <2>3 DEF TodoInv
  <2>7. \A i : Listed(i)' <=> Listed(i) BY <1>2 DEF Listed
  <2>q. QED BY <1>2, <2>3, <2>4, <2>5, <2>6, <2>7 DEF TodoInv
<1>9. SnapInv'
  <2>1. \A k \in {"route", "policy"} : \A x \in pub.snap[k] : Current(k, x)'
    BY <1>2, <1>5, CurrentKept DEF SnapInv
  <2>q. QED BY <1>2, <1>5, <2>1 DEF SnapInv
<1>q. QED BY <1>7, <1>8, <1>9

\* Going on with what is left to do, or to the next stage.
LEMMA Advance ==
  ASSUME BuildInv, pub # NoRequest, pub.stage \in 1..8, UNCHANGED <<dataVars, touched, crowded>>,
         NEW p, p.stage = pub.stage, p.tenant = pub.tenant,
         p = [stage |-> p.stage, tenant |-> p.tenant, todo |-> p.todo, snap |-> p.snap],
         p.snap = [k \in Tables |-> p.snap[k]],
         \A k \in Tables : pub.snap[k] \subseteq p.snap[k],
         NEW todo, pub' = Continue(p, todo),
         NEW kind, kind = Stage[pub.stage],
         ~crowded => /\ SnapInv'
                     /\ \A x \in todo : Current(kind, x)
                     /\ pub.stage \in 1..4 => \A i \in Same(kind) :
                            (\E x \in todo : x.id = i) \/ Checked(kind, i)
                     /\ pub.stage \in 5..8 => \A i \in Same(kind) :
                            (\E x \in todo : x.id = i) \/ Copied(kind, i)'
  PROVE  BuildInv'
<1>1. /\ rows' = rows /\ touched' = touched /\ crowded' = crowded
      /\ pub'.tenant = pub.tenant /\ pub'.snap = p.snap
      /\ pub' = [stage |-> pub'.stage, tenant |-> pub'.tenant, todo |-> pub'.todo, snap |-> pub'.snap]
  BY DEF dataVars, Continue
<1>2. /\ todo = {} => pub'.stage = pub.stage + 1 /\ pub'.todo = Nothing
      /\ todo # {} => pub'.stage = pub.stage /\ pub'.todo = todo
  BY DEF Continue
<1>3. PubShape' BY <1>1, <1>2 DEF PubShape, BuildInv, Tables
<1>4. SUFFICES ASSUME ~crowded PROVE Fits(pub.tenant)' /\ StagesInv' /\ TodoInv'
  BY <1>1, <1>3 DEF BuildInv
<1>5. Fits(pub.tenant)'
  <2>1. Fits(pub.tenant) BY <1>4 DEF BuildInv
  <2>2. Fits(pub.tenant)' <=> Fits(pub.tenant) BY <1>1 DEF Fits, Visible, Live, Sees
  <2>q. QED BY <2>1, <2>2
<1>6. StagesInv /\ TodoInv BY <1>4 DEF BuildInv
<1>7. \A k, i : /\ i \in Same(k)' <=> i \in Same(k)
                /\ Checked(k, i)' <=> Checked(k, i)
  BY <1>1 DEF Same, Visible, Live, Checked, Found, getUpstream, getService, getRoute, ListTargets, Sees
<1>8. \A k \in Tables : \A i : Copied(k, i) => Copied(k, i)'
  <2>1. \A k \in Tables : pub.snap[k] \subseteq pub'.snap[k] BY <1>1
  <2>2. \A k \in Tables : \A i : In(k, i) => In(k, i)' BY <2>1 DEF In
  <2>q. QED BY <1>1, <1>7, <2>1, <2>2 DEF Copied, Tables
<1>9. \A k, x : Current(k, x)' <=> Current(k, x) BY <1>1 DEF Current, Visible, Live, Sees
<1>10. CASE todo = {}
  <2>1. \A n \in 1..4 : n < pub'.stage => \A i \in Same(Stage[n])' : Checked(Stage[n], i)'
    BY <1>2, <1>4, <1>6, <1>7, <1>10 DEF StagesInv
  <2>2. \A n \in 5..8 : n < pub'.stage => \A i \in Same(Stage[n])' : Copied(Stage[n], i)'
    BY <1>2, <1>4, <1>6, <1>7, <1>8, <1>10, StageFacts DEF StagesInv
  <2>q. QED BY <2>1, <2>2, <1>2, <1>5, <1>10 DEF StagesInv, TodoInv, Stage
<1>11. CASE todo # {}
  <2>1. \A n \in 1..4 : n < pub'.stage => \A i \in Same(Stage[n])' : Checked(Stage[n], i)'
    BY <1>2, <1>6, <1>7, <1>11 DEF StagesInv
  <2>2. \A n \in 5..8 : n < pub'.stage => \A i \in Same(Stage[n])' : Copied(Stage[n], i)'
    BY <1>2, <1>6, <1>7, <1>8, <1>11, StageFacts DEF StagesInv
  <2>3. \A i : Listed(i)' <=> \E x \in todo : x.id = i BY <1>2, <1>11 DEF Listed
  <2>4. kind = Stage'[pub'.stage] BY <1>2, <1>11 DEF Stage
  <2>5. TodoInv' BY <1>2, <1>4, <1>7, <1>9, <1>11, <2>3, <2>4 DEF TodoInv
  <2>q. QED BY <2>1, <2>2, <2>5, <1>5 DEF StagesInv, Stage
<1>q. QED BY <1>10, <1>11

\* The snapshot stays as it is while rows are validated or listed.
LEMMA SnapSame ==
  ASSUME SnapInv, UNCHANGED <<dataVars, touched, crowded>>, pub'.tenant = pub.tenant, pub'.snap = pub.snap
  PROVE  SnapInv'
BY DEF SnapInv, Current, Visible, Live, dataVars, Sees

\* A listing has every row of the table.
LEMMA ListKeeps ==
  ASSUME BuildInv, pub # NoRequest, pub.stage \in 1..8, ListRows(Stage[pub.stage]),
         UNCHANGED <<dataVars, touched, crowded>>
  PROVE  BuildInv'
<1>1. PICK kind : kind = Stage[pub.stage] OBVIOUS
<1>2. kind \in Tables BY <1>1, StageFacts
<1>3. PICK S \in List(kind, pub.tenant) : pub' = Continue(pub, {Item(i) : i \in S})
  BY <1>1 DEF ListRows
<1>4. PICK todo : todo = {Item(i) : i \in S} OBVIOUS
<1>5. PubShape BY DEF BuildInv
<1>6. pub'.tenant = pub.tenant /\ pub'.snap = pub.snap
  BY <1>3, <1>5 DEF Continue, PubShape
<1>7. ASSUME ~crowded
      PROVE  /\ SnapInv'
             /\ \A x \in todo : Current(kind, x)
             /\ \A i \in Same(kind) : \E x \in todo : x.id = i
  <2>1. S = Visible(kind, pub.tenant) BY <1>2, <1>3, <1>7, WholePage DEF BuildInv
  <2>2. SnapInv' BY <1>6, <1>7, SnapSame DEF BuildInv
  <2>3. \A i : Item(i) = [id |-> i, row |-> rows[i], targets |-> {}] BY DEF Item
  <2>4. \A x \in todo : /\ x.id \in S /\ x.row = rows[x.id]
                        /\ x = [id |-> x.id, row |-> x.row, targets |-> x.targets]
    BY <1>4, <2>3
  <2>5. \A i \in S : \E x \in todo : x.id = i BY <1>4, <2>3
  <2>q. QED BY <2>1, <2>2, <2>4, <2>5 DEF Current, Same
<1>8. PICK p : p = pub OBVIOUS
<1>9. /\ p.stage = pub.stage /\ p.tenant = pub.tenant
      /\ p = [stage |-> p.stage, tenant |-> p.tenant, todo |-> p.todo, snap |-> p.snap]
      /\ p.snap = [k \in Tables |-> p.snap[k]]
      /\ \A k \in Tables : pub.snap[k] \subseteq p.snap[k]
      /\ pub' = Continue(p, todo)
  BY <1>3, <1>4, <1>5, <1>8, Zenon DEF PubShape, Tables
<1>10. ~crowded => /\ SnapInv'
                   /\ \A x \in todo : Current(kind, x)
                   /\ pub.stage \in 1..4 => \A i \in Same(kind) :
                          (\E x \in todo : x.id = i) \/ Checked(kind, i)
                   /\ pub.stage \in 5..8 => \A i \in Same(kind) :
                          (\E x \in todo : x.id = i) \/ Copied(kind, i)'
  BY <1>7
<1>11. pub # NoRequest /\ pub.stage \in 1..8 /\ UNCHANGED <<dataVars, touched, crowded>> OBVIOUS
<1>q. QED BY <1>1, <1>9, <1>10, <1>11, Advance

\* One row more is validated.
LEMMA ValidateStep ==
  ASSUME BuildInv, ValidateAll
  PROVE  BuildInv'
<1>1. pub # NoRequest /\ pub.stage \in 1..4 /\ UNCHANGED <<dataVars, touched, crowded>>
  BY DEF ValidateAll, NoRequest
<1>2. CASE ListRows(Stage[pub.stage]) BY <1>1, <1>2, ListKeeps
<1>3. CASE pub' = NoRequest BY <1>3 DEF BuildInv
<1>4. ASSUME NEW x \in pub.todo, pub.todo # Nothing, Valid(Stage[pub.stage], pub.tenant, x),
             pub' = Continue(pub, pub.todo \ {x})
      PROVE  BuildInv'
  <2>1. PICK kind : kind = Stage[pub.stage] OBVIOUS
  <2>2. kind \in Tables BY <1>1, <2>1, StageFacts
  <2>3. PICK todo : todo = pub.todo \ {x} OBVIOUS
  <2>4. PubShape BY <1>1 DEF BuildInv
  <2>5. pub'.tenant = pub.tenant /\ pub'.snap = pub.snap
    BY <1>4, <2>4 DEF Continue, PubShape
  <2>6. ASSUME ~crowded
        PROVE  /\ SnapInv'
               /\ \A y \in todo : Current(kind, y)
               /\ \A i \in Same(kind) : (\E y \in todo : y.id = i) \/ Checked(kind, i)
    <3>1. SnapInv' BY <1>1, <2>5, <2>6, SnapSame DEF BuildInv
    <3>2. /\ \A y \in pub.todo : Current(kind, y)
          /\ \A i \in Same(kind) : (\E y \in pub.todo : y.id = i) \/ Checked(kind, i)
      BY <1>1, <1>4, <2>1, <2>6 DEF BuildInv, TodoInv, Listed
    <3>3. ASSUME x.id \in Same(kind) PROVE Checked(kind, x.id)
      <4>1. x.row = rows[x.id] BY <3>2, <3>3 DEF Current, Same
      <4>2. Valid(kind, pub.tenant, x) BY <1>4, <2>1
      <4>3. CASE kind = "service"
        BY <4>1, <4>2, <4>3 DEF Valid, ValidateService, Checked
      <4>4. CASE kind = "route"
        BY <4>1, <4>2, <4>4 DEF Valid, ValidateRoute, Checked
      <4>5. CASE kind = "upstream"
        BY <4>1, <4>2, <4>5 DEF Valid, ValidateUpstream, Checked
      <4>6. CASE kind = "policy"
        BY <4>1, <4>2, <4>6 DEF Valid, ValidatePolicy, Checked
      <4>q. QED BY <2>2, <4>3, <4>4, <4>5, <4>6 DEF Tables
    <3>q. QED BY <2>3, <3>1, <3>2, <3>3
  <2>7. PICK p : p = pub OBVIOUS
  <2>8. /\ p.stage = pub.stage /\ p.tenant = pub.tenant
        /\ p = [stage |-> p.stage, tenant |-> p.tenant, todo |-> p.todo, snap |-> p.snap]
        /\ p.snap = [k \in Tables |-> p.snap[k]]
        /\ \A k \in Tables : pub.snap[k] \subseteq p.snap[k]
        /\ pub' = Continue(p, todo)
    BY <1>4, <2>3, <2>4, <2>7, Zenon DEF PubShape, Tables
  <2>9. ~crowded => /\ SnapInv'
                    /\ \A y \in todo : Current(kind, y)
                    /\ pub.stage \in 1..4 => \A i \in Same(kind) :
                           (\E y \in todo : y.id = i) \/ Checked(kind, i)
                    /\ pub.stage \in 5..8 => \A i \in Same(kind) :
                           (\E y \in todo : y.id = i) \/ Copied(kind, i)'
    BY <1>1, <2>6
  <2>q. QED BY <1>1, <2>1, <2>8, <2>9, Advance
<1>q. QED BY <1>1, <1>2, <1>3, <1>4 DEF ValidateAll

\* A snapshot with more items in one table, as a record.
LEMMA AddFacts ==
  ASSUME PubShape, NEW kind \in Tables, NEW items, NEW p, p = Add(pub, kind, items)
  PROVE  /\ p.stage = pub.stage /\ p.tenant = pub.tenant
         /\ p = [stage |-> p.stage, tenant |-> p.tenant, todo |-> p.todo, snap |-> p.snap]
         /\ p.snap = [k \in Tables |-> p.snap[k]]
         /\ \A k \in Tables : p.snap[k] = IF k = kind THEN pub.snap[k] \cup items ELSE pub.snap[k]
         /\ \A k \in Tables : pub.snap[k] \subseteq p.snap[k]
<1>1. PICK s : s = pub.snap OBVIOUS
<1>2. s = [k \in Tables |-> s[k]] BY <1>1 DEF PubShape, Tables
<1>3. PICK u : u = [s EXCEPT ![kind] = @ \cup items] OBVIOUS
<1>4. /\ u = [k \in Tables |-> u[k]]
      /\ \A k \in Tables : u[k] = IF k = kind THEN s[k] \cup items ELSE s[k]
  BY <1>2, <1>3
<1>5. p = [stage |-> pub.stage, tenant |-> pub.tenant, todo |-> pub.todo, snap |-> u]
  BY <1>1, <1>2, <1>3 DEF PubShape, Add
<1>q. QED BY <1>1, <1>4, <1>5

\* What a copying step leaves, for either kind of one.
LEMMA CopyKeeps ==
  ASSUME BuildInv, pub.stage \in 5..8, UNCHANGED <<dataVars, touched, crowded>>,
         NEW kind \in Tables, kind = Stage[pub.stage], NEW items, NEW todo,
         pub' = Continue(Add(pub, kind, items), todo),
         ~crowded => /\ \A x \in todo : Current(kind, x)
                     /\ kind \in {"route", "policy"} => \A x \in items : Current(kind, x)
                     /\ kind = "upstream" => \A x \in items : x.targets # {} \/ touched # {}
                     /\ \A i \in Same(kind) : (\E x \in todo : x.id = i) \/ Copied(kind, i)'
  PROVE  BuildInv'
<1>1. pub # NoRequest /\ pub.stage \in 1..8 BY DEF NoRequest
<1>2. PubShape BY <1>1 DEF BuildInv
<1>3. PICK p : p = Add(pub, kind, items) OBVIOUS
<1>4. /\ p.stage = pub.stage /\ p.tenant = pub.tenant
      /\ p = [stage |-> p.stage, tenant |-> p.tenant, todo |-> p.todo, snap |-> p.snap]
      /\ p.snap = [k \in Tables |-> p.snap[k]]
      /\ \A k \in Tables : p.snap[k] = IF k = kind THEN pub.snap[k] \cup items ELSE pub.snap[k]
      /\ \A k \in Tables : pub.snap[k] \subseteq p.snap[k]
  BY <1>2, <1>3, AddFacts
<1>5. pub' = Continue(p, todo) BY <1>3
<1>6. pub'.snap = p.snap /\ pub'.tenant = pub.tenant BY <1>4, <1>5 DEF Continue
<1>7. ASSUME ~crowded PROVE SnapInv'
  <2>1. SnapInv BY <1>1, <1>7 DEF BuildInv
  <2>2. \A k, x : Current(k, x)' <=> Current(k, x) BY <1>6 DEF Current, Visible, Live, dataVars, Sees
  <2>3. \A k \in {"route", "policy"} : \A x \in p.snap[k] : Current(k, x)
    BY <1>4, <1>7, <2>1 DEF SnapInv, Tables
  <2>4. \A x \in p.snap["upstream"] : x.targets # {} \/ touched # {}
    BY <1>4, <1>7, <2>1 DEF SnapInv, Tables
  <2>q. QED BY <1>6, <2>2, <2>3, <2>4 DEF SnapInv
<1>8. ~crowded => /\ SnapInv'
                  /\ \A x \in todo : Current(kind, x)
                  /\ pub.stage \in 1..4 => \A i \in Same(kind) :
                         (\E x \in todo : x.id = i) \/ Checked(kind, i)
                  /\ pub.stage \in 5..8 => \A i \in Same(kind) :
                         (\E x \in todo : x.id = i) \/ Copied(kind, i)'
  BY <1>7
<1>q. QED BY <1>1, <1>4, <1>5, <1>8, Advance

\* One upstream more is copied with its targets.
LEMMA CopyUpstream ==
  ASSUME BuildInv, pub.stage \in 5..8, UNCHANGED <<dataVars, touched, crowded>>,
         Stage[pub.stage] = "upstream", pub.todo # Nothing, NEW x \in pub.todo, NEW on,
         on = {i \in ListTargets(pub.tenant, x.id) : rows[i].on},
         pub' = Continue(Add(pub, "upstream", {[x EXCEPT !.targets = on]}), pub.todo \ {x})
  PROVE  BuildInv'
<1>1. pub # NoRequest /\ pub.stage = 7
  BY StageFacts DEF NoRequest, Stage
<1>2. PubShape BY <1>1 DEF BuildInv
<1>3. PICK new, items, todo : new = [x EXCEPT !.targets = on] /\ items = {new} /\ todo = pub.todo \ {x}
  OBVIOUS
<1>4. pub' = Continue(Add(pub, "upstream", items), todo) BY <1>3
<1>5. ASSUME ~crowded
      PROVE  /\ \A y \in todo : Current("upstream", y)
             /\ \A y \in items : y.targets # {} \/ touched # {}
             /\ \A i \in Same("upstream") : (\E y \in todo : y.id = i) \/ Copied("upstream", i)'
  <2>1. /\ \A y \in pub.todo : Current("upstream", y)
        /\ \A i \in Same("upstream") : (\E y \in pub.todo : y.id = i) \/ Copied("upstream", i)
        /\ \A i \in Same("upstream") : Checked("upstream", i)
    BY <1>1, <1>5, StageFacts DEF BuildInv, TodoInv, StagesInv, Listed
  <2>2. new.id = x.id /\ new.targets = on BY <1>3, <2>1 DEF Current
  <2>3. touched = {} => on # {}
    BY <2>1 DEF Current, Checked, Same
  <2>4. pub'.snap["upstream"] = pub.snap["upstream"] \cup {new} /\ pub'.tenant = pub.tenant
    <3>1. PICK p : p = Add(pub, "upstream", items) OBVIOUS
    <3>2. "upstream" \in Tables BY DEF Tables
    <3>3. /\ p.stage = pub.stage /\ p.tenant = pub.tenant
          /\ p = [stage |-> p.stage, tenant |-> p.tenant, todo |-> p.todo, snap |-> p.snap]
          /\ p.snap = [k \in Tables |-> p.snap[k]]
          /\ \A k \in Tables : p.snap[k] = IF k = "upstream" THEN pub.snap[k] \cup items ELSE pub.snap[k]
          /\ \A k \in Tables : pub.snap[k] \subseteq p.snap[k]
      BY <1>2, <3>1, <3>2, AddFacts
    <3>q. QED BY <1>3, <1>4, <3>1, <3>2, <3>3 DEF Continue
  <2>5. rows' = rows /\ touched' = touched /\ Live' = Live /\ Same("target")' = Same("target")
    BY <2>4 DEF dataVars, Live, Same, Visible, Sees
  <2>6. ASSUME NEW i, Copied("upstream", i) PROVE Copied("upstream", i)'
    BY <2>4, <2>5, <2>6 DEF Copied, In
  <2>7. ASSUME x.id \in Same("upstream") PROVE Copied("upstream", x.id)'
    <3>1. new \in pub'.snap["upstream"] BY <2>4
    <3>2. In("upstream", x.id)' BY <2>2, <3>1 DEF In
    <3>3. \A j \in Same("target") : rows[j].on /\ rows[j].ref["upstream"] = x.id => j \in on
      BY DEF ListTargets, Same
    <3>q. QED BY <2>2, <2>5, <3>1, <3>2, <3>3 DEF Copied
  <2>q. QED BY <1>3, <2>1, <2>2, <2>3, <2>6, <2>7
<1>q. QED BY <1>4, <1>5, CopyKeeps DEF Tables

\* A table other than that of the upstreams is copied at once.
LEMMA CopyTable ==
  ASSUME BuildInv, pub.stage \in 5..8, UNCHANGED <<dataVars, touched, crowded>>,
         NEW kind, kind = Stage[pub.stage], kind # "upstream", NEW S \in List(kind, pub.tenant),
         pub' = Continue(Add(pub, kind, Shipped(kind, S)), {})
  PROVE  BuildInv'
<1>1. pub # NoRequest /\ kind \in {"service", "route", "policy"}
  BY StageFacts DEF NoRequest, Stage
<1>2. PubShape BY <1>1 DEF BuildInv
<1>3. PICK items : items = Shipped(kind, S) OBVIOUS
<1>4. ASSUME ~crowded
      PROVE  /\ kind \in {"route", "policy"} => \A x \in items : Current(kind, x)
             /\ \A i \in Same(kind) : Copied(kind, i)'
  <2>1. S = Visible(kind, pub.tenant)
    BY <1>1, <1>4, WholePage DEF BuildInv, Tables
  <2>2. \A i : Item(i) = [id |-> i, row |-> rows[i], targets |-> {}] BY DEF Item
  <2>3. PICK all : all = {Item(i) : i \in S} OBVIOUS
  <2>4. \A x \in all : /\ x.id \in S /\ x.row = rows[x.id]
                       /\ x = [id |-> x.id, row |-> x.row, targets |-> x.targets]
    BY <2>2, <2>3
  <2>5. \A i \in S : \E x \in all : x.id = i /\ x.row = rows[i] BY <2>2, <2>3
  <2>6. pub'.snap[kind] = pub.snap[kind] \cup items /\ pub'.tenant = pub.tenant
    <3>1. PICK p : p = Add(pub, kind, items) OBVIOUS
    <3>2. kind \in Tables BY <1>1 DEF Tables
    <3>3. /\ p.stage = pub.stage /\ p.tenant = pub.tenant
          /\ p = [stage |-> p.stage, tenant |-> p.tenant, todo |-> p.todo, snap |-> p.snap]
          /\ p.snap = [k \in Tables |-> p.snap[k]]
          /\ \A k \in Tables : p.snap[k] = IF k = kind THEN pub.snap[k] \cup items ELSE pub.snap[k]
          /\ \A k \in Tables : pub.snap[k] \subseteq p.snap[k]
      BY <1>2, <3>1, <3>2, AddFacts
    <3>q. QED BY <1>3, <3>1, <3>2, <3>3 DEF Continue
  <2>7. rows' = rows /\ touched' = touched /\ Live' = Live /\ Same(kind)' = Same(kind)
    BY <2>6 DEF dataVars, Live, Same, Visible, Sees
  <2>8. CASE kind = "service"
    <3>1. items = {[x EXCEPT !.row = Detached(@, @.ref["upstream"])] : x \in {y \in all : y.row.on}}
      BY <1>3, <2>3, <2>8 DEF Shipped
    <3>2. ASSUME NEW i \in S, rows[i].on PROVE \E x \in items : x.id = i
      <4>1. PICK x \in all : x.id = i /\ x.row = rows[i] BY <2>5, <3>2
      <4>2. [x EXCEPT !.row = Detached(@, @.ref["upstream"])].id = i BY <2>4, <4>1
      <4>q. QED BY <3>1, <3>2, <4>1, <4>2
    <3>q. QED BY <2>1, <2>6, <2>7, <2>8, <3>2 DEF Copied, In, Same
  <2>9. CASE kind = "route"
    <3>1. items = {x \in all : x.row.on} BY <1>3, <2>3, <2>9 DEF Shipped
    <3>2. \A i \in S : rows[i].on => \E x \in items : x.id = i BY <2>5, <3>1
    <3>3. \A i \in Same(kind) : Copied(kind, i)'
      BY <2>1, <2>6, <2>7, <2>9, <3>2 DEF Copied, In, Same
    <3>q. QED BY <2>1, <2>4, <2>9, <3>1, <3>3 DEF Current
  <2>10. CASE kind = "policy"
    <3>1. items = all BY <1>3, <2>3, <2>10 DEF Shipped
    <3>2. \A i \in S : \E x \in items : x.id = i BY <2>5, <3>1
    <3>3. \A i \in Same(kind) : Copied(kind, i)'
      BY <2>1, <2>6, <2>7, <2>10, <3>2 DEF Copied, In, Same
    <3>q. QED BY <2>1, <2>4, <2>10, <3>1, <3>3 DEF Current
  <2>q. QED BY <1>1, <2>8, <2>9, <2>10
<1>q. QED BY <1>1, <1>3, <1>4, CopyKeeps DEF Tables

\* Every step keeps what the request has collected so far.
LEMMA BuildStep == BuildInv /\ [Next]_vars => BuildInv'
<1>1. CASE BuildInv /\ Data BY <1>1, DataKeeps
<1>2. ASSUME BuildInv, NEW t \in Tenants, CreateRevision(t) PROVE BuildInv'
  <2>1. /\ pub' = [stage |-> 1, tenant |-> t, todo |-> Nothing, snap |-> NoSnapshot]
        /\ crowded' = ~Fits(t) /\ rows' = rows
    BY <1>2 DEF CreateRevision, dataVars
  <2>2. PubShape' BY <2>1 DEF PubShape, NoSnapshot
  <2>3. ~crowded' => Fits(pub.tenant)' BY <2>1 DEF Fits, Visible, Live, Sees
  <2>4. pub'.snap["route"] = {} /\ pub'.snap["policy"] = {} /\ pub'.snap["upstream"] = {}
    BY <2>1 DEF NoSnapshot
  <2>5. StagesInv' /\ TodoInv' /\ SnapInv' BY <2>1, <2>4 DEF StagesInv, TodoInv, SnapInv
  <2>q. QED BY <2>2, <2>3, <2>5 DEF BuildInv
<1>3. CASE BuildInv /\ ValidateAll BY <1>3, ValidateStep
<1>4. ASSUME BuildInv, CreateSnapshot PROVE BuildInv'
  <2>1. pub.stage \in 5..8 /\ pub # NoRequest /\ UNCHANGED <<dataVars, touched, crowded>>
    BY <1>4 DEF CreateSnapshot, NoRequest
  <2>2. PICK kind : kind = Stage[pub.stage] OBVIOUS
  <2>3. CASE ListRows(kind) BY <1>4, <2>1, <2>2, <2>3, ListKeeps
  <2>4. ASSUME kind = "upstream", pub.todo # Nothing, NEW x \in pub.todo, NEW on,
               on = {i \in ListTargets(pub.tenant, x.id) : rows[i].on},
               pub' = Continue(Add(pub, "upstream", {[x EXCEPT !.targets = on]}), pub.todo \ {x})
        PROVE  BuildInv'
    BY <1>4, <2>1, <2>2, <2>4, CopyUpstream
  <2>5. ASSUME kind # "upstream", NEW S \in List(kind, pub.tenant),
               pub' = Continue(Add(pub, kind, Shipped(kind, S)), {})
        PROVE  BuildInv'
    BY <1>4, <2>1, <2>2, <2>5, CopyTable
  <2>q. QED BY <1>4, <2>2, <2>3, <2>4, <2>5 DEF CreateSnapshot
<1>5. CASE BuildInv /\ (Store \/ Fail) BY <1>5 DEF Store, Fail, BuildInv
<1>6. CASE BuildInv /\ UNCHANGED vars
  <2>1. rows' = rows /\ pub' = pub /\ touched' = touched /\ crowded' = crowded
    BY <1>6 DEF vars, dataVars
  <2>2. Live' = Live /\ Stage' = Stage BY <2>1 DEF Live, Stage
  <2>3. PubShape' <=> PubShape BY <2>1 DEF PubShape
  <2>4. Fits(pub.tenant)' <=> Fits(pub.tenant) BY <2>1, <2>2 DEF Fits, Visible, Sees
  <2>5. \A k, i : (i \in Same(k)' <=> i \in Same(k)) /\ (Checked(k, i)' <=> Checked(k, i))
    BY <2>1, <2>2 DEF Same, Visible, Checked, Found, getUpstream, getService, getRoute, ListTargets, Sees
  <2>6. \A k, i : Copied(k, i)' <=> Copied(k, i) BY <2>1, <2>5 DEF Copied, In
  <2>7. \A k, x : Current(k, x)' <=> Current(k, x) BY <2>1, <2>2 DEF Current, Visible, Sees
  <2>8. StagesInv' <=> StagesInv BY <2>1, <2>2, <2>5, <2>6 DEF StagesInv
  <2>9. TodoInv' <=> TodoInv BY <2>1, <2>2, <2>5, <2>6, <2>7 DEF TodoInv, Listed
  <2>10. SnapInv' <=> SnapInv BY <2>1, <2>7 DEF SnapInv
  <2>q. QED BY <1>6, <2>1, <2>3, <2>4, <2>8, <2>9, <2>10 DEF BuildInv
<1>q. QED BY <1>1, <1>2, <1>3, <1>4, <1>5, <1>6 DEF Next

-----------------------------------------------------------------------------
(* The theorems. *)

\* What a request that makes a revision has collected so far.
THEOREM BuildInvariant == Spec => []BuildInv
<1>1. Init => BuildInv BY DEF Init, BuildInv
<1>2. BuildInv /\ [Next]_vars => BuildInv' BY BuildStep
<1>q. QED BY <1>1, <1>2, PTL DEF Spec

\* A revision about to be stored is whole as far as no request changed it meanwhile.
THEOREM SnapshotWholeHolds == Spec => []SnapshotWhole
<1>1. BuildInv => SnapshotWhole
  <2>1. SUFFICES ASSUME BuildInv, pub.stage = 9, ~crowded PROVE SnapshotWhole
    BY DEF SnapshotWhole
  <2>2. StagesInv /\ SnapInv BY <2>1 DEF BuildInv, NoRequest
  <2>3. /\ \A i \in Same("service") : Checked("service", i) /\ Copied("service", i)
        /\ \A i \in Same("route") : Checked("route", i) /\ Copied("route", i)
        /\ \A i \in Same("upstream") : Copied("upstream", i)
        /\ \A i \in Same("policy") : Checked("policy", i)
    BY <2>1, <2>2, StageFacts DEF StagesInv
  <2>4. ASSUME NEW x \in SameIn("route") \cup SameIn("policy"),
               NEW i \in {x.row.ref[c] : c \in Foreign[x.row.kind]} \ touched
        PROVE  Sees(pub.tenant, i) /\ (rows[i].on => In(rows[i].kind, i))
    <3>1. \/ x.id \in Same("route") /\ x.row = rows[x.id]
          \/ x.id \in Same("policy") /\ x.row = rows[x.id]
      BY <2>2, <2>4 DEF SnapInv, SameIn, Current, Same
    <3>2. \/ Found("service", pub.tenant, i) \/ Found("route", pub.tenant, i)
      <4>1. CASE x.id \in Same("route") /\ x.row = rows[x.id]
        <5>1. i = rows[x.id].ref["service"] BY <2>4, <4>1 DEF Same, Visible, Foreign, Sees
        <5>q. QED BY <2>3, <2>4, <4>1, <5>1 DEF Checked, getService
      <4>2. CASE x.id \in Same("policy") /\ x.row = rows[x.id]
        <5>1. i = rows[x.id].ref["service"] \/ i = rows[x.id].ref["route"]
          BY <2>4, <4>2 DEF Same, Visible, Foreign, Sees
        <5>q. QED BY <2>3, <2>4, <4>2, <5>1 DEF Checked, getService, getRoute
      <4>q. QED BY <3>1, <4>1, <4>2
    <3>3. i \in Same("service") \/ i \in Same("route") BY <2>4, <3>2 DEF Same, Visible, Found, Sees
    <3>q. QED BY <2>3, <3>3 DEF Copied, Same, Visible, Sees
  <2>5. ASSUME NEW x \in SameIn("policy"), x.row.ref["route"] \notin touched
        PROVE  x.row.ref["service"] # rows[x.row.ref["route"]].ref["service"]
    <3>1. x.id \in Same("policy") /\ x.row = rows[x.id]
      BY <2>2, <2>5 DEF SnapInv, SameIn, Current, Same
    <3>q. QED BY <2>3, <2>5, <3>1 DEF Checked
  <2>6. \A i \in Same("service") \cup Same("route") : rows[i].on => In(rows[i].kind, i)
    BY <2>3 DEF Copied, Same, Visible, Sees
  <2>7. ASSUME NEW i \in Same("service"), rows[i].ref["upstream"] \notin touched
        PROVE  In("upstream", rows[i].ref["upstream"])
    <3>1. rows[i].ref["upstream"] \in Same("upstream")
      BY <2>3, <2>7 DEF Checked, getUpstream, Found, Same, Visible, Sees
    <3>q. QED BY <2>3, <3>1 DEF Copied
  <2>8. ASSUME NEW i \in Same("target"), rows[i].on, rows[i].ref["upstream"] \in Same("upstream")
        PROVE  \E x \in pub.snap["upstream"] : x.id = rows[i].ref["upstream"] /\ i \in x.targets
    BY <2>3, <2>8 DEF Copied
  <2>9. \A x \in pub.snap["upstream"] : x.targets # {} \/ touched # {} BY <2>2 DEF SnapInv
  <2>q. QED BY <2>4, <2>5, <2>6, <2>7, <2>8, <2>9 DEF SnapshotWhole
<1>q. QED BY <1>1, BuildInvariant, PTL
=============================================================================
