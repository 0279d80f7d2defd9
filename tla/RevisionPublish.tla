-------------------------- MODULE RevisionPublish --------------------------
(***************************************************************************)
(* Publishing and rolling back configuration revisions from several        *)
(* control-plane instances that share one PostgreSQL database.             *)
(*                                                                         *)
(* A request runs ConfigPublisher.Publish or Rollback.  Both end in        *)
(* ActivateWithLock: up to MaxTries attempts to take the row of            *)
(* distributed_locks for the revision's tenant, then Activate, one READ    *)
(* COMMITTED transaction of two UPDATEs, then the release of the lock.     *)
(* The lock is a lease: it expires TTL ticks after it was taken or         *)
(* refreshed, and the transaction is not aborted when that happens.        *)
(*                                                                         *)
(* config_revisions is modelled by the set "active" of committed rows with *)
(* is_active = TRUE and, per open transaction, the rows it has switched    *)
(* off and on.  A row another open transaction has written is locked.      *)
(***************************************************************************)
EXTENDS Integers, FiniteSets

CONSTANTS
  Instances,    \* control-plane processes; an instance id is a lock holder
  Requests,     \* handler goroutines
  InstanceOf,   \* InstanceOf[r] is the process that serves request r
  Revisions,
  Tenants,      \* tenants with a row of their own
  NoTenant,     \* uuid.Nil in a context, NULL in the tenant_id column
  TenantOf,     \* TenantOf[v] is the tenant_id of revision v
  NoRevision,
  NoInstance,   \* no row in distributed_locks
  NoRequest,
  TTL,          \* ticks a lock lives without a refresh (30 s)
  RefreshEvery, \* ticks between two refreshes (TTL / 2)
  MaxTries,     \* attempts of ActivateWithLock (3)
  MayStall,     \* TRUE: a process may stall, and a refresh may fail, for longer
                \* than the lock lives
  Operations,   \* bounds on the calls made: "publish", "rollback"
  Contexts      \* and the tenants in their contexts

ScopeSet == Tenants \cup {NoTenant}

ASSUME ConstantsAssumption ==
  /\ InstanceOf \in [Requests -> Instances]
  /\ TenantOf \in [Revisions -> ScopeSet]
  /\ NoTenant \notin Tenants
  /\ NoRevision \notin Revisions
  /\ NoInstance \notin Instances
  /\ NoRequest \notin Requests
  /\ TTL \in Nat /\ RefreshEvery \in Nat \ {0} /\ RefreshEvery < TTL
  /\ MaxTries \in Nat \ {0}
  /\ MayStall \in BOOLEAN
  /\ Operations \subseteq {"publish", "rollback"}
  /\ Contexts \subseteq ScopeSet

VARIABLES
  rows,     \* revisions that have been inserted
  active,   \* committed rows with is_active = TRUE
  holder,   \* holder[k]: holder_id of the lock row with key k
  owner,    \* owner[k]: the request that took it (a history variable)
  ttl,      \* ttl[k]: ticks until expires_at; 0 once it has passed
  pc,       \* where a request is
  kind, ctx, rev,   \* its operation, the tenant in its context, its revision
  cur,      \* what Rollback read as the current active revision
  tries,    \* lock attempts made
  result,   \* what it returns
  scanned,  \* rows matched by the first UPDATE's snapshot
  off, on,  \* uncommitted writes of its transaction
  age,      \* ticks since its refresh ticker last fired
  seen      \* its revision was active at some moment of the call (history)

vars == <<rows, active, holder, owner, ttl, pc, kind, ctx, rev, cur, tries,
          result, scanned, off, on, age, seen>>

lockVars == <<holder, owner, ttl>>
callVars == <<kind, ctx, rev, cur, tries>>
txVars   == <<scanned, off, on>>

Maybe(S) == S \cup {NoRevision}

PCs == {"idle", "getActive", "getByID", "locate", "tryLock",
        "scan", "deactivate", "activate", "commit", "release", "reply"}

Results == {"none", "ok", "notfound", "concurrency", "error", "panic"}

InTx(r)    == pc[r] \in {"scan", "deactivate", "activate", "commit"}
Holding(r) == InTx(r) \/ pc[r] = "release"

TypeOK ==
  /\ rows \in SUBSET Revisions
  /\ active \in SUBSET Revisions
  /\ holder \in [ScopeSet -> Instances \cup {NoInstance}]
  /\ owner \in [ScopeSet -> Requests \cup {NoRequest}]
  /\ ttl \in [ScopeSet -> 0..TTL]
  /\ pc \in [Requests -> PCs]
  /\ kind \in [Requests -> {"publish", "rollback"}]
  /\ ctx \in [Requests -> ScopeSet]
  /\ rev \in [Requests -> Maybe(Revisions)]
  /\ cur \in [Requests -> Maybe(Revisions)]
  /\ tries \in [Requests -> 0..MaxTries]
  /\ result \in [Requests -> Results]
  /\ scanned \in [Requests -> SUBSET Revisions]
  /\ off \in [Requests -> SUBSET Revisions]
  /\ on \in [Requests -> Maybe(Revisions)]
  /\ age \in [Requests -> 0..RefreshEvery]
  /\ seen \in [Requests -> BOOLEAN]

Init ==
  /\ rows = {} /\ active = {}
  /\ holder = [k \in ScopeSet |-> NoInstance]
  /\ owner = [k \in ScopeSet |-> NoRequest]
  /\ ttl = [k \in ScopeSet |-> 0]
  /\ pc = [r \in Requests |-> "idle"]
  /\ kind = [r \in Requests |-> "publish"]
  /\ ctx = [r \in Requests |-> NoTenant]
  /\ rev = [r \in Requests |-> NoRevision]
  /\ cur = [r \in Requests |-> NoRevision]
  /\ tries = [r \in Requests |-> 0]
  /\ result = [r \in Requests |-> "none"]
  /\ scanned = [r \in Requests |-> {}]
  /\ off = [r \in Requests |-> {}]
  /\ on = [r \in Requests |-> NoRevision]
  /\ age = [r \in Requests |-> 0]
  /\ seen = [r \in Requests |-> FALSE]

\* The lock key of a revision: its own tenant, not the one in the context.
LockKey(r) == TenantOf[rev[r]]

\* Rows a context sees: all of them when it carries no tenant.
Visible(t, v) == t = NoTenant \/ TenantOf[v] = t

GoTo(r, label) == pc' = [pc EXCEPT ![r] = label]

\* The function returns res; the handler has yet to write the response.
Finish(r, res) == GoTo(r, "reply") /\ result' = [result EXCEPT ![r] = res]

\* The goroutines in S are gone, and with them their local variables.
End(S) ==
  /\ pc' = [r \in Requests |-> IF r \in S THEN "idle" ELSE pc[r]]
  /\ kind' = [r \in Requests |-> IF r \in S THEN "publish" ELSE kind[r]]
  /\ ctx' = [r \in Requests |-> IF r \in S THEN NoTenant ELSE ctx[r]]
  /\ rev' = [r \in Requests |-> IF r \in S THEN NoRevision ELSE rev[r]]
  /\ cur' = [r \in Requests |-> IF r \in S THEN NoRevision ELSE cur[r]]
  /\ tries' = [r \in Requests |-> IF r \in S THEN 0 ELSE tries[r]]
  /\ result' = [r \in Requests |-> IF r \in S THEN "none" ELSE result[r]]
  /\ age' = [r \in Requests |-> IF r \in S THEN 0 ELSE age[r]]

\* Rollback logs currentActive.ID when ActivateWithLock fails with an error
\* that is not about concurrency, and currentActive is nil when the context
\* sees no active revision.
Reported(r, res) ==
  IF res \in {"error", "notfound"} /\ kind[r] = "rollback" /\ cur[r] = NoRevision
  THEN "panic" ELSE res

-----------------------------------------------------------------------------
(* Requests before the lock.                                               *)

\* CreateRevision ends in an INSERT of an inactive row.
CreateRevision(v) ==
  /\ v \notin rows
  /\ rows' = rows \cup {v}
  /\ UNCHANGED <<active, lockVars, pc, callVars, result, txVars, age>>

Start(r, op, t, v) ==
  /\ pc[r] = "idle"
  /\ GoTo(r, IF op = "publish" THEN "getByID" ELSE "getActive")
  /\ kind' = [kind EXCEPT ![r] = op]
  /\ ctx' = [ctx EXCEPT ![r] = t]
  /\ rev' = [rev EXCEPT ![r] = v]
  /\ UNCHANGED <<rows, active, lockVars, cur, tries, result, txVars, age>>

\* LIMIT 1 without ORDER BY: any visible active row.
GetActive(r) ==
  /\ pc[r] = "getActive"
  /\ \/ \E v \in active : Visible(ctx[r], v) /\ cur' = [cur EXCEPT ![r] = v]
     \/ /\ \A v \in active : ~Visible(ctx[r], v)
        /\ cur' = [cur EXCEPT ![r] = NoRevision]
  /\ GoTo(r, "getByID")
  /\ UNCHANGED <<rows, active, lockVars, kind, ctx, rev, tries, result, txVars, age>>

GetByID(r) ==
  /\ pc[r] = "getByID"
  /\ LET found == rev[r] \in rows /\ Visible(ctx[r], rev[r])
         current == IF kind[r] = "publish" THEN rev[r] \in active ELSE cur[r] = rev[r]
     IN \/ ~found /\ Finish(r, "notfound")
        \/ found /\ current /\ Finish(r, "ok")
        \/ found /\ ~current /\ GoTo(r, "locate") /\ UNCHANGED result
  /\ UNCHANGED <<rows, active, lockVars, callVars, txVars, age>>

\* ActivateWithLock reads the row again; rows are never deleted.
Locate(r) ==
  /\ pc[r] = "locate"
  /\ \/ rev[r] \in active /\ Finish(r, "ok")
     \/ rev[r] \notin active /\ GoTo(r, "tryLock") /\ UNCHANGED result
  /\ UNCHANGED <<rows, active, lockVars, callVars, txVars, age>>

\* Mutants of LockFree: the upsert without its WHERE clause, a row that counts as
\* expired one tick early, a row that never expires.
LockFreeForAny(k)   == k \in ScopeSet
LockFreeEarly(k)    == holder[k] = NoInstance \/ ttl[k] <= 1
LockFreeNoExpiry(k) == holder[k] = NoInstance

LockFree(k) == holder[k] = NoInstance \/ ttl[k] = 0

WriteLock(r) ==
  /\ holder' = [holder EXCEPT ![LockKey(r)] = InstanceOf[r]]
  /\ owner' = [owner EXCEPT ![LockKey(r)] = r]
  /\ ttl' = [ttl EXCEPT ![LockKey(r)] = TTL]

\* INSERT ... ON CONFLICT DO UPDATE ... WHERE expires_at < NOW().  The row of a
\* live lock is left alone even when its holder is this very instance.
Acquire(r) ==
  /\ pc[r] = "tryLock" /\ LockFree(LockKey(r))
  /\ WriteLock(r)
  /\ age' = [age EXCEPT ![r] = 0]
  /\ GoTo(r, "scan")
  /\ UNCHANGED <<rows, active, callVars, result, txVars>>

\* A mutant of LockHeld: attempts are not counted.
LockHeldForever(r) ==
  /\ pc[r] = "tryLock" /\ ~LockFree(LockKey(r))
  /\ UNCHANGED <<rows, active, lockVars, pc, callVars, result, txVars, age>>

\* ErrLockAlreadyHeld: sleep and try again, MaxTries times in all.
LockHeld(r) ==
  /\ pc[r] = "tryLock" /\ ~LockFree(LockKey(r))
  /\ IF tries[r] + 1 = MaxTries
     THEN Finish(r, "concurrency")
     ELSE UNCHANGED <<pc, result>>
  /\ tries' = [tries EXCEPT ![r] = @ + 1]
  /\ UNCHANGED <<rows, active, lockVars, kind, ctx, rev, cur, txVars, age>>

\* The INSERT was applied and its answer lost: no release is deferred yet.
AcquireUnanswered(r) ==
  /\ pc[r] = "tryLock" /\ LockFree(LockKey(r))
  /\ WriteLock(r)
  /\ Finish(r, Reported(r, "error"))
  /\ UNCHANGED <<rows, active, callVars, txVars, age>>

-----------------------------------------------------------------------------
(* Activate: one READ COMMITTED transaction.                               *)

Writes(q) == off[q] \cup ({on[q]} \ {NoRevision})

LockedByOther(r, v) == \E q \in Requests \ {r} : v \in Writes(q)

\* Rows of the context's tenant; the condition of both UPDATEs.
InScope(r, v) == TenantOf[v] = ctx[r]

\* The first UPDATE fixes its snapshot: the rows that are active now.
Scan(r) ==
  /\ pc[r] = "scan"
  /\ scanned' = [scanned EXCEPT ![r] = {v \in active : InScope(r, v)}]
  /\ GoTo(r, "deactivate")
  /\ UNCHANGED <<rows, active, lockVars, callVars, result, off, on, age>>

\* Mutant of Deactivate: the two UPDATEs are not one transaction.
DeactivateAutocommit(r) ==
  /\ pc[r] = "deactivate"
  /\ active' = active \ scanned[r]
  /\ scanned' = [scanned EXCEPT ![r] = {}]
  /\ GoTo(r, "activate")
  /\ UNCHANGED <<rows, lockVars, callVars, result, off, on, age>>

\* It waits for rows another transaction has written, then re-evaluates its
\* condition on them; rows activated since the snapshot are not seen.
Deactivate(r) ==
  /\ pc[r] = "deactivate"
  /\ \A v \in scanned[r] : ~LockedByOther(r, v)
  /\ off' = [off EXCEPT ![r] = scanned[r] \cap active]
  /\ scanned' = [scanned EXCEPT ![r] = {}]
  /\ GoTo(r, "activate")
  /\ UNCHANGED <<rows, active, lockVars, callVars, result, on, age>>

\* Mutant of RollbackTx: WithLock drops the error of the critical section.
RollbackTxSilent(r, res) ==
  /\ off' = [off EXCEPT ![r] = {}]
  /\ on' = [on EXCEPT ![r] = NoRevision]
  /\ scanned' = [scanned EXCEPT ![r] = {}]
  /\ result' = [result EXCEPT ![r] = IF res = "error" THEN "ok" ELSE res]
  /\ GoTo(r, "release")

\* The transaction is rolled back; the error is returned through WithLock.
RollbackTx(r, res) ==
  /\ off' = [off EXCEPT ![r] = {}]
  /\ on' = [on EXCEPT ![r] = NoRevision]
  /\ scanned' = [scanned EXCEPT ![r] = {}]
  /\ result' = [result EXCEPT ![r] = Reported(r, res)]
  /\ GoTo(r, "release")

\* Mutant of StillActive: no unique index.
StillActiveUnchecked(r) == r \notin Requests

\* Another row of the tenant stays active after this transaction's first UPDATE.
StillActive(r) == \E v \in active \ off[r] : v # rev[r] /\ InScope(r, v)

\* Mutant of IndexReady: the index does not wait for transactions in flight.
IndexReadyNow(r) == r \in Requests

\* The unique index on (tenant_id, is_active) waits for every transaction that
\* has an entry of the same tenant in flight; NULL tenants are not in conflict.
IndexReady(r) ==
  ctx[r] = NoTenant \/ \A q \in Requests \ {r} : \A v \in Writes(q) : ~InScope(r, v)

\* The second UPDATE.  No row matches: ErrNotFound.  Otherwise the unique index
\* (or, for NULL, the trigger, which sees only committed rows) may refuse it;
\* that error is not mapped to ErrRevisionPublishConflict, only Commit's is.
Activate(r) ==
  /\ pc[r] = "activate"
  /\ \/ /\ ~InScope(r, rev[r])
        /\ RollbackTx(r, "notfound")
     \/ /\ InScope(r, rev[r])
        /\ ~LockedByOther(r, rev[r]) /\ IndexReady(r)
        /\ IF StillActive(r)
           THEN RollbackTx(r, "error")
           ELSE /\ on' = [on EXCEPT ![r] = rev[r]]
                /\ GoTo(r, "commit")
                /\ UNCHANGED <<scanned, off, result>>
  /\ UNCHANGED <<rows, active, lockVars, callVars, age>>

\* The answer to COMMIT may be lost after the commit took effect.
Commit(r) ==
  /\ pc[r] = "commit"
  /\ active' = (active \ off[r]) \cup {on[r]}
  /\ off' = [off EXCEPT ![r] = {}]
  /\ on' = [on EXCEPT ![r] = NoRevision]
  /\ scanned' = [scanned EXCEPT ![r] = {}]
  /\ \E res \in {"ok", "error"} : result' = [result EXCEPT ![r] = Reported(r, res)]
  /\ GoTo(r, "release")
  /\ UNCHANGED <<rows, lockVars, callVars, age>>

\* DELETE ... WHERE lock_key AND holder_id; its error is ignored.
Release(r) ==
  /\ pc[r] = "release"
  /\ \/ /\ holder[LockKey(r)] = InstanceOf[r]
        /\ holder' = [holder EXCEPT ![LockKey(r)] = NoInstance]
        /\ owner' = [owner EXCEPT ![LockKey(r)] = NoRequest]
        /\ ttl' = [ttl EXCEPT ![LockKey(r)] = 0]
     \/ UNCHANGED lockVars   \* no row of this instance, or the DELETE failed
  /\ GoTo(r, "reply")
  /\ age' = [age EXCEPT ![r] = 0]
  /\ UNCHANGED <<rows, active, callVars, result, txVars>>

Reply(r) ==
  /\ pc[r] = "reply"
  /\ End({r})
  /\ UNCHANGED <<rows, active, lockVars, txVars>>

-----------------------------------------------------------------------------
(* Failures, crashes and time.                                             *)

\* A query fails or the client's context ends.
Fail(r) ==
  \/ /\ pc[r] \in {"getActive", "getByID"}
     /\ Finish(r, "error")
     /\ UNCHANGED <<rows, active, lockVars, callVars, txVars, age>>
  \/ /\ pc[r] \in {"locate", "tryLock"}
     /\ Finish(r, Reported(r, "error"))
     /\ UNCHANGED <<rows, active, lockVars, callVars, txVars, age>>
  \/ /\ InTx(r)
     /\ RollbackTx(r, "error")
     /\ UNCHANGED <<rows, active, lockVars, callVars, age>>

\* A process dies: its transactions roll back, its lock rows stay.
Crash(i) ==
  LET dead == {r \in Requests : InstanceOf[r] = i /\ pc[r] # "idle"}
  IN /\ dead # {}
     /\ End(dead)
     /\ scanned' = [r \in Requests |-> IF r \in dead THEN {} ELSE scanned[r]]
     /\ off' = [r \in Requests |-> IF r \in dead THEN {} ELSE off[r]]
     /\ on' = [r \in Requests |-> IF r \in dead THEN NoRevision ELSE on[r]]
     /\ UNCHANGED <<rows, active, lockVars>>

\* Mutant of Refresh: expires_at is not moved forward.
RefreshInVain(r) ==
  /\ InTx(r) /\ age[r] = RefreshEvery
  /\ age' = [age EXCEPT ![r] = 0]
  /\ UNCHANGED <<rows, active, lockVars, pc, callVars, result, txVars>>

\* The refresh goroutine: UPDATE ... WHERE holder_id AND expires_at > NOW().
\* It stops when the critical section returns, and its errors are ignored.
Refresh(r) ==
  /\ InTx(r) /\ age[r] = RefreshEvery
  /\ age' = [age EXCEPT ![r] = 0]
  /\ \/ /\ holder[LockKey(r)] = InstanceOf[r] /\ ttl[LockKey(r)] > 0
        /\ ttl' = [ttl EXCEPT ![LockKey(r)] = TTL]
     \/ /\ MayStall \/ ~(holder[LockKey(r)] = InstanceOf[r] /\ ttl[LockKey(r)] > 0)
        /\ UNCHANGED ttl
  /\ UNCHANGED <<rows, active, holder, owner, pc, callVars, result, txVars>>

\* Time passes.  Unless processes may stall, a refresh that is due, and the
\* release that follows a critical section, are made before the next tick.
Tick ==
  /\ \E k \in ScopeSet : ttl[k] > 0
  /\ MayStall \/ \A r \in Requests : Holding(r) => age[r] < RefreshEvery
  /\ ttl' = [k \in ScopeSet |-> IF ttl[k] > 0 THEN ttl[k] - 1 ELSE 0]
  /\ age' = [r \in Requests |->
               IF Holding(r) /\ age[r] < RefreshEvery THEN age[r] + 1 ELSE age[r]]
  /\ UNCHANGED <<rows, active, holder, owner, pc, callVars, result, txVars>>

-----------------------------------------------------------------------------
Serve(r) ==
  \/ GetActive(r) \/ GetByID(r) \/ Locate(r)
  \/ Acquire(r) \/ LockHeld(r)
  \/ Scan(r) \/ Deactivate(r) \/ Activate(r) \/ Commit(r)
  \/ Release(r) \/ Reply(r)

Step ==
  \/ \E v \in Revisions : CreateRevision(v)
  \/ \E r \in Requests, op \in Operations, t \in Contexts, v \in Revisions :
        Start(r, op, t, v)
  \/ \E r \in Requests : Serve(r) \/ AcquireUnanswered(r) \/ Fail(r) \/ Refresh(r)
  \/ \E i \in Instances : Crash(i)
  \/ Tick

\* History: was the revision of a running call active before or after this step?
Observe ==
  seen' = [r \in Requests |->
             /\ pc'[r] # "idle"
             /\ \/ seen[r]
                \/ rev'[r] \in active'
                \/ rev'[r] \in active]

Next == Step /\ Observe

Spec == Init /\ [][Next]_vars

\* A goroutine that can take its next step takes it, a transaction that waits
\* for row locks gets them in its turn (PostgreSQL queues the waiters), and
\* time passes.
Fairness ==
  /\ \A r \in Requests : WF_vars(Serve(r) /\ Observe)
  /\ \A r \in Requests : SF_vars((Deactivate(r) \/ Activate(r)) /\ Observe)
  /\ \A r \in Requests : WF_vars(Refresh(r) /\ Observe)
  /\ WF_vars(Tick /\ Observe)

FairSpec == Spec /\ Fairness

-----------------------------------------------------------------------------
(* The inductive invariants the proofs rest on.                            *)

\* A call has a revision, and attempts left while it tries for the lock.
CallInv ==
  \A r \in Requests :
    /\ pc[r] # "idle" => rev[r] \in Revisions
    /\ pc[r] \in {"idle", "getActive", "getByID", "locate"} => tries[r] = 0
    /\ pc[r] = "tryLock" => tries[r] < MaxTries

\* What a transaction has read and written, by how far it has come.
TxInv ==
  \A r \in Requests :
    /\ on[r] = IF pc[r] = "commit" THEN rev[r] ELSE NoRevision
    /\ pc[r] # "deactivate" => scanned[r] = {}
    /\ pc[r] \notin {"activate", "commit"} => off[r] = {}
    /\ \A v \in scanned[r] \cup off[r] : InScope(r, v)
    /\ pc[r] = "commit" => InScope(r, rev[r])

\* What the unique index adds: a transaction about to commit for a tenant has
\* switched off every other active row of it, and it is the only such one.
IndexInv ==
  \A r \in Requests : pc[r] = "commit" /\ ctx[r] \in Tenants =>
    /\ \A v \in active : InScope(r, v) => v = rev[r] \/ v \in off[r]
    /\ \A q \in Requests : pc[q] = "commit" /\ ctx[q] = ctx[r] => q = r

\* What the lock adds while nobody stalls: the row of a holder is its own, and
\* has at least as long to live as its next refresh is away.
LeaseInv ==
  \A r \in Requests : Holding(r) =>
    /\ owner[LockKey(r)] = r
    /\ holder[LockKey(r)] = InstanceOf[r]
    /\ ttl[LockKey(r)] + age[r] >= TTL

\* So the active rows of the scope it has locked are those its transaction read.
LockedScopeInv ==
  \A r \in Requests : Holding(r) /\ LockKey(r) = ctx[r] =>
    /\ pc[r] = "deactivate" => \A v \in active : InScope(r, v) => v \in scanned[r]
    /\ pc[r] \in {"activate", "commit"} =>
         \A v \in active : InScope(r, v) => v \in off[r]

\* Whatever a call has read or done that lets it report success has made "seen" true.
SeenInv ==
  \A r \in Requests :
    /\ pc[r] = "idle" => result[r] = "none" /\ cur[r] = NoRevision
    /\ rev[r] \in active \cup {cur[r]} /\ pc[r] # "idle" => seen[r]
    /\ result[r] = "ok" => seen[r]

-----------------------------------------------------------------------------
(* What must hold.                                                         *)

\* The active revisions of a scope.
ActiveIn(s) == {v \in active : TenantOf[v] = s}

\* The active revision of a scope is unique.
SingleActiveIn(scopes) ==
  \A v, w \in active :
    TenantOf[v] = TenantOf[w] /\ TenantOf[v] \in scopes => v = w

\* A tenant never has two active revisions, however requests, stalled lock
\* holders, crashes and lost answers interleave: the unique index alone keeps it.
SingleActivePerTenant == SingleActiveIn(Tenants)

\* SingleActivePerTenant and SuccessWasActive, strengthened until every step
\* preserves them: type correctness, what calls and open transactions have done so
\* far, what the unique index guarantees to a transaction that is about to commit,
\* and what a call knows.
PublishInv ==
  TypeOK /\ CallInv /\ TxInv /\ IndexInv /\ SingleActivePerTenant /\ SeenInv

\* With no tenant (NULL) there is never more than one active revision either.
\* Only the lock keeps this: the trigger sees committed rows alone.
SingleActiveNoTenant == SingleActiveIn({NoTenant})

\* MutualExclusion and SingleActiveNoTenant, strengthened until every step
\* preserves them: the lease of a holder outlives its next refresh, and nobody
\* else changes the active rows of the scope it has locked.
PromptInv == LeaseInv /\ LockedScopeInv /\ SingleActiveNoTenant

\* Two requests that publish under the same lock key are never both between
\* taking the lock and giving it back.
MutualExclusion ==
  \A q, r \in Requests : Holding(q) /\ Holding(r) /\ LockKey(q) = LockKey(r) => q = r

\* A caller that is told "published" or "rolled back" (200 OK) has had its
\* revision active at some moment of its call, though it may have been replaced
\* since: neither a stale read of is_active nor a retry invents a success.
SuccessWasActive ==
  \A r \in Requests : result[r] = "ok" => seen[r]

\* Once a scope has an active revision no step leaves it without one: the
\* deactivation is never committed without the activation.
ActiveNeverLost == [][\A s \in ScopeSet : ActiveIn(s) # {} => ActiveIn(s)' # {}]_vars

\* A request deletes only the lock row it wrote itself.
ReleasesOwnLock ==
  [][\A r \in Requests :
       Release(r) => owner[LockKey(r)] \in {r, owner'[LockKey(r)]}]_vars

\* Whoever holds a lock row, live holder or dead process, it is free again later.
LockComesFree == \A k \in ScopeSet : []<>LockFree(k)

\* Every call returns: waits for locks, rows and index entries all end.
CallsReturn == \A r \in Requests : pc[r] # "idle" ~> pc[r] = "idle"

\* Rollback tolerates the absence of an active revision (ErrNoActiveRevision)
\* and returns a result or an error: it never dereferences a nil revision.
RollbackReturns == \A r \in Requests : result[r] # "panic"

\* The active revision of a scope, as the abstract specification sees it: with two
\* of them the scope would have lost its revision, which no abstract step does.
OneOf(S) == IF \E v \in S : S = {v} THEN CHOOSE v \in S : TRUE ELSE NoRevision
CurrentOf(s) == OneOf(ActiveIn(s))

\* For tenants, publishing is one atomic switch whatever happens to the lock.
PerTenant == INSTANCE ActiveRevision
  WITH Scopes <- Tenants, ScopeOf <- TenantOf,
       current <- [s \in Tenants |-> CurrentOf(s)]

ImplementsPerTenant == PerTenant!Spec

\* While no process stalls longer than the lock lives, also for no tenant.
EveryScope == INSTANCE ActiveRevision
  WITH Scopes <- ScopeSet, ScopeOf <- TenantOf,
       current <- [s \in ScopeSet |-> CurrentOf(s)]

ImplementsEveryScope == EveryScope!Spec
=============================================================================
