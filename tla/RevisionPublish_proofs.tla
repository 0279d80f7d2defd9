----------------------- MODULE RevisionPublish_proofs -----------------------
(***************************************************************************)
(* Theorems about RevisionPublish, for every number of processes,          *)
(* requests, tenants and revisions.                                        *)
(***************************************************************************)
EXTENDS RevisionPublish, TLAPS

\* The initial state satisfies the inductive invariant.
LEMMA InitPublishInv == Init => PublishInv
  BY ConstantsAssumption
  DEF Init, PublishInv, TypeOK, CallInv, TxInv, IndexInv, SingleActivePerTenant,
      SingleActiveIn, ConstantsAssumption, ScopeSet, PCs, Results, Maybe, InScope, SeenInv

\* The ends of the ranges that TypeOK uses.
LEMMA Ranges ==
  /\ 0 \in 0..TTL /\ TTL \in 0..TTL /\ 0 \in 0..RefreshEvery /\ 0 \in 0..MaxTries
  /\ \A n \in 0..TTL : n > 0 => n - 1 \in 0..TTL
  /\ \A n \in 0..RefreshEvery : n < RefreshEvery => n + 1 \in 0..RefreshEvery
  /\ \A n \in 0..MaxTries : n < MaxTries => n + 1 \in 0..MaxTries
  BY ConstantsAssumption DEF ConstantsAssumption

\* Taking a lock row, and giving an answer, keep the types.
LEMMA WriteLockType ==
  ASSUME TypeOK, NEW r \in Requests, WriteLock(r)
  PROVE  /\ holder' \in [ScopeSet -> Instances \cup {NoInstance}]
         /\ owner' \in [ScopeSet -> Requests \cup {NoRequest}]
         /\ ttl' \in [ScopeSet -> 0..TTL]
<1>1. InstanceOf[r] \in Instances BY ConstantsAssumption DEF ConstantsAssumption
<1>q. QED BY <1>1, Ranges DEF WriteLock, TypeOK

\* What Rollback turns an error into is a result.
LEMMA ReportedType ==
  ASSUME NEW r, NEW res \in Results PROVE Reported(r, res) \in Results
  BY DEF Reported, Results

\* Giving an answer keeps the types.
LEMMA FinishType ==
  ASSUME TypeOK, NEW r \in Requests, NEW res \in Results, Finish(r, res)
  PROVE  pc' \in [Requests -> PCs] /\ result' \in [Requests -> Results]
  BY DEF Finish, GoTo, TypeOK, PCs

\* Rolling a transaction back keeps the types.
LEMMA RollbackTxType ==
  ASSUME TypeOK, NEW r \in Requests, NEW res \in Results, RollbackTx(r, res)
  PROVE  /\ pc' \in [Requests -> PCs] /\ result' \in [Requests -> Results]
         /\ scanned' \in [Requests -> SUBSET Revisions]
         /\ off' \in [Requests -> SUBSET Revisions]
         /\ on' \in [Requests -> Maybe(Revisions)]
  BY ReportedType DEF RollbackTx, GoTo, TypeOK, PCs, Maybe

\* Type correctness: every variable keeps the type TypeOK gives it.
LEMMA NextTypeOK ==
  ASSUME TypeOK, CallInv, TxInv, Next
  PROVE  TypeOK'
<1> USE ConstantsAssumption DEF ConstantsAssumption, TypeOK, Maybe, lockVars, callVars,
        txVars, GoTo, PCs
<1>s. seen' \in [Requests -> BOOLEAN] BY DEF Next, Observe
<1>0. Step BY DEF Next
<1>1. ASSUME NEW v \in Revisions, CreateRevision(v) PROVE TypeOK'
  BY <1>1, <1>s DEF CreateRevision
<1>2. ASSUME NEW r \in Requests, NEW op \in {"publish", "rollback"}, NEW t \in ScopeSet,
             NEW v \in Revisions, Start(r, op, t, v)
      PROVE  TypeOK'
  BY <1>2, <1>s DEF Start
<1>3. ASSUME NEW r \in Requests, GetActive(r) PROVE TypeOK'
<2>1. cur' \in [Requests -> Maybe(Revisions)] BY <1>3 DEF GetActive
<2>q. QED BY <1>3, <1>s, <2>1 DEF GetActive
<1>4. ASSUME NEW r \in Requests, GetByID(r) PROVE TypeOK'
  BY <1>4, <1>s DEF GetByID, Finish, Results
<1>5. ASSUME NEW r \in Requests, Locate(r) PROVE TypeOK'
  BY <1>5, <1>s DEF Locate, Finish, Results
<1>6. ASSUME NEW r \in Requests, Acquire(r) PROVE TypeOK'
  BY <1>6, <1>s, WriteLockType, Ranges DEF Acquire
<1>7. ASSUME NEW r \in Requests, LockHeld(r) PROVE TypeOK'
<2>1. tries' \in [Requests -> 0..MaxTries] BY <1>7, Ranges DEF LockHeld, CallInv
<2>2. pc' \in [Requests -> PCs] /\ result' \in [Requests -> Results]
  BY <1>7, FinishType DEF LockHeld, Results
<2>q. QED BY <1>7, <1>s, <2>1, <2>2 DEF LockHeld
<1>8. ASSUME NEW r \in Requests, AcquireUnanswered(r) PROVE TypeOK'
<2>1. pc' \in [Requests -> PCs] /\ result' \in [Requests -> Results]
  BY <1>8, FinishType, ReportedType, SMTT(60) DEF AcquireUnanswered, Results
<2>q. QED BY <1>8, <1>s, <2>1, WriteLockType DEF AcquireUnanswered
<1>9. ASSUME NEW r \in Requests, Scan(r) PROVE TypeOK'
  BY <1>9, <1>s DEF Scan
<1>10. ASSUME NEW r \in Requests, Deactivate(r) PROVE TypeOK'
  BY <1>10, <1>s DEF Deactivate
<1>11. ASSUME NEW r \in Requests, Activate(r) PROVE TypeOK'
<2>1. CASE \E res \in Results : RollbackTx(r, res)
  BY <1>11, <1>s, <2>1, RollbackTxType DEF Activate
<2>2. CASE on' = [on EXCEPT ![r] = rev[r]] /\ GoTo(r, "commit")
            /\ UNCHANGED <<scanned, off, result>>
  BY <1>11, <1>s, <2>2 DEF Activate
<2>q. QED BY <1>11, <2>1, <2>2 DEF Activate, Results
<1>12. ASSUME NEW r \in Requests, Commit(r) PROVE TypeOK'
<2>1. active' \in SUBSET Revisions BY <1>12 DEF Commit, TxInv, CallInv
<2>2. result' \in [Requests -> Results] BY <1>12, ReportedType DEF Commit, Results
<2>3. pc' \in [Requests -> PCs] BY <1>12 DEF Commit
<2>4. /\ scanned' \in [Requests -> SUBSET Revisions]
      /\ off' \in [Requests -> SUBSET Revisions]
      /\ on' \in [Requests -> Maybe(Revisions)]
  BY <1>12 DEF Commit
<2>q. QED BY <1>12, <1>s, <2>1, <2>2, <2>3, <2>4 DEF Commit
<1>13. ASSUME NEW r \in Requests, Release(r) PROVE TypeOK'
<2>1. /\ holder' \in [ScopeSet -> Instances \cup {NoInstance}]
      /\ owner' \in [ScopeSet -> Requests \cup {NoRequest}]
      /\ ttl' \in [ScopeSet -> 0..TTL]
  BY <1>13, Ranges, SMTT(60) DEF Release
<2>2. pc' \in [Requests -> PCs] /\ age' \in [Requests -> 0..RefreshEvery]
  BY <1>13, Ranges DEF Release
<2>q. QED BY <1>13, <1>s, <2>1, <2>2 DEF Release
<1>14. ASSUME NEW r \in Requests, Reply(r) PROVE TypeOK'
  BY <1>14, <1>s DEF Reply, End, ScopeSet, Results
<1>15. ASSUME NEW r \in Requests, Fail(r) PROVE TypeOK'
  BY <1>15, <1>s, SMTT(60) DEF Fail, RollbackTx, Finish, Reported, Results
<1>16. ASSUME NEW r \in Requests, Refresh(r) PROVE TypeOK'
<2>1. age' \in [Requests -> 0..RefreshEvery] BY <1>16, Ranges DEF Refresh
<2>2. ttl' \in [ScopeSet -> 0..TTL] BY <1>16, Ranges DEF Refresh
<2>q. QED BY <1>16, <1>s, <2>1, <2>2 DEF Refresh
<1>17. ASSUME NEW i \in Instances, Crash(i) PROVE TypeOK'
  BY <1>17, <1>s DEF Crash, End, ScopeSet, Results
<1>18. ASSUME Tick PROVE TypeOK'
<2>1. age' \in [Requests -> 0..RefreshEvery] BY <1>18, Ranges DEF Tick
<2>2. ttl' \in [ScopeSet -> 0..TTL] BY <1>18, Ranges DEF Tick
<2>q. QED BY <1>18, <1>s, <2>1, <2>2 DEF Tick
<1> HIDE DEF TypeOK
<1>q. QED
  BY <1>0, <1>1, <1>2, <1>3, <1>4, <1>5, <1>6, <1>7, <1>8, <1>9, <1>10, <1>11, <1>12,
     <1>13, <1>14, <1>15, <1>16, <1>17, <1>18 DEF Step, Serve

\* A call keeps its revision and stops after MaxTries attempts.
LEMMA NextCallInv ==
  ASSUME TypeOK, CallInv, Next
  PROVE  CallInv'
<1> USE ConstantsAssumption DEF ConstantsAssumption, TypeOK, CallInv, Maybe, lockVars, callVars, GoTo
<1>0. Step BY DEF Next
<1>1. ASSUME NEW v \in Revisions, CreateRevision(v) PROVE CallInv'
  BY <1>1 DEF CreateRevision
<1>2. ASSUME NEW r \in Requests, NEW op \in {"publish", "rollback"}, NEW t \in ScopeSet,
             NEW v \in Revisions, Start(r, op, t, v)
      PROVE CallInv'
  BY <1>2 DEF Start
<1>3. ASSUME NEW r \in Requests, GetActive(r) PROVE CallInv'
  BY <1>3 DEF GetActive
<1>4. ASSUME NEW r \in Requests, GetByID(r) PROVE CallInv'
  BY <1>4 DEF GetByID, Finish
<1>5. ASSUME NEW r \in Requests, Locate(r) PROVE CallInv'
  BY <1>5 DEF Locate, Finish
<1>6. ASSUME NEW r \in Requests, Acquire(r) PROVE CallInv'
  BY <1>6 DEF Acquire
<1>7. ASSUME NEW r \in Requests, LockHeld(r) PROVE CallInv'
  <2>1. CASE tries[r] + 1 = MaxTries BY <1>7, <2>1 DEF LockHeld, Finish
  <2>2. CASE tries[r] + 1 # MaxTries
    <3>1. pc[r] = "tryLock" BY <1>7 DEF LockHeld
    <3>2. tries[r] \in 0..MaxTries /\ tries[r] < MaxTries BY <3>1
    <3>3. \A n \in 0..MaxTries : n < MaxTries /\ n + 1 # MaxTries => n + 1 < MaxTries
      OBVIOUS
    <3>4. tries[r] + 1 < MaxTries BY <2>2, <3>2, <3>3
    <3>q. QED BY <1>7, <2>2, <3>4 DEF LockHeld
  <2>q. QED BY <2>1, <2>2
<1>8. ASSUME NEW r \in Requests, AcquireUnanswered(r) PROVE CallInv'
  BY <1>8 DEF AcquireUnanswered, Finish
<1>9. ASSUME NEW r \in Requests, Scan(r) PROVE CallInv'
  BY <1>9 DEF Scan
<1>10. ASSUME NEW r \in Requests, Deactivate(r) PROVE CallInv'
  BY <1>10 DEF Deactivate
<1>11. ASSUME NEW r \in Requests, Activate(r) PROVE CallInv'
  BY <1>11 DEF Activate, RollbackTx
<1>12. ASSUME NEW r \in Requests, Commit(r) PROVE CallInv'
  BY <1>12 DEF Commit
<1>13. ASSUME NEW r \in Requests, Release(r) PROVE CallInv'
  BY <1>13 DEF Release
<1>14. ASSUME NEW r \in Requests, Reply(r) PROVE CallInv'
  BY <1>14 DEF Reply, End
<1>15. ASSUME NEW r \in Requests, Fail(r) PROVE CallInv'
  BY <1>15 DEF Fail, Finish, RollbackTx, InTx
<1>16. ASSUME NEW r \in Requests, Refresh(r) PROVE CallInv'
  BY <1>16 DEF Refresh
<1>17. ASSUME NEW i \in Instances, Crash(i) PROVE CallInv'
  BY <1>17 DEF Crash, End
<1>18. ASSUME Tick PROVE CallInv'
  BY <1>18 DEF Tick
<1> HIDE DEF TypeOK, CallInv
<1>q. QED
  BY <1>0, <1>1, <1>2, <1>3, <1>4, <1>5, <1>6, <1>7, <1>8, <1>9, <1>10,
     <1>11, <1>12, <1>13, <1>14, <1>15, <1>16, <1>17, <1>18 DEF Step, Serve

\* What a transaction has read and written belongs to the tenant of its context.
LEMMA NextTxInv ==
  ASSUME TypeOK, CallInv, TxInv, Next
  PROVE  TxInv'
<1> USE ConstantsAssumption DEF ConstantsAssumption, TypeOK, TxInv, CallInv, InScope, Maybe, lockVars, callVars, txVars, GoTo
<1>0. Step BY DEF Next
<1>1. ASSUME NEW v \in Revisions, CreateRevision(v) PROVE TxInv'
  BY <1>1 DEF CreateRevision
<1>2. ASSUME NEW r \in Requests, NEW op \in {"publish", "rollback"}, NEW t \in ScopeSet,
             NEW v \in Revisions, Start(r, op, t, v)
      PROVE TxInv'
  BY <1>2 DEF Start
<1>3. ASSUME NEW r \in Requests, GetActive(r) PROVE TxInv'
  BY <1>3 DEF GetActive
<1>4. ASSUME NEW r \in Requests, GetByID(r) PROVE TxInv'
  BY <1>4 DEF GetByID, Finish
<1>5. ASSUME NEW r \in Requests, Locate(r) PROVE TxInv'
  BY <1>5 DEF Locate, Finish
<1>6. ASSUME NEW r \in Requests, Acquire(r) PROVE TxInv'
  BY <1>6 DEF Acquire
<1>7. ASSUME NEW r \in Requests, LockHeld(r) PROVE TxInv'
  BY <1>7 DEF LockHeld, Finish
<1>8. ASSUME NEW r \in Requests, AcquireUnanswered(r) PROVE TxInv'
  BY <1>8 DEF AcquireUnanswered, Finish
<1>9. ASSUME NEW r \in Requests, Scan(r) PROVE TxInv'
  BY <1>9 DEF Scan
<1>10. ASSUME NEW r \in Requests, Deactivate(r) PROVE TxInv'
  BY <1>10 DEF Deactivate
<1>11. ASSUME NEW r \in Requests, Activate(r) PROVE TxInv'
  BY <1>11 DEF Activate, RollbackTx
<1>12. ASSUME NEW r \in Requests, Commit(r) PROVE TxInv'
  BY <1>12 DEF Commit
<1>13. ASSUME NEW r \in Requests, Release(r) PROVE TxInv'
  BY <1>13 DEF Release
<1>14. ASSUME NEW r \in Requests, Reply(r) PROVE TxInv'
  BY <1>14 DEF Reply, End
<1>15. ASSUME NEW r \in Requests, Fail(r) PROVE TxInv'
  BY <1>15 DEF Fail, Finish, RollbackTx, InTx
<1>16. ASSUME NEW r \in Requests, Refresh(r) PROVE TxInv'
  BY <1>16 DEF Refresh
<1>17. ASSUME NEW i \in Instances, Crash(i) PROVE TxInv'
  BY <1>17 DEF Crash, End
<1>18. ASSUME Tick PROVE TxInv'
  BY <1>18 DEF Tick
<1> HIDE DEF TypeOK, TxInv
<1>q. QED
  BY <1>0, <1>1, <1>2, <1>3, <1>4, <1>5, <1>6, <1>7, <1>8, <1>9, <1>10,
     <1>11, <1>12, <1>13, <1>14, <1>15, <1>16, <1>17, <1>18 DEF Step, Serve

\* The unique index lets one transaction of a tenant reach its commit, and only
\* after every other active row of the tenant is switched off.
LEMMA NextIndexInv ==
  ASSUME TypeOK, CallInv, TxInv, IndexInv, SingleActivePerTenant, Next
  PROVE  IndexInv' /\ SingleActivePerTenant'
<1> USE ConstantsAssumption DEF ConstantsAssumption, TypeOK, IndexInv, SingleActivePerTenant, SingleActiveIn,
       InScope, Maybe, lockVars, callVars, txVars, GoTo
<1>0. Step BY DEF Next
<1>1. ASSUME NEW v \in Revisions, CreateRevision(v) PROVE IndexInv' /\ SingleActivePerTenant'
  BY <1>1 DEF CreateRevision
<1>2. ASSUME NEW r \in Requests, NEW op \in {"publish", "rollback"}, NEW t \in ScopeSet,
             NEW v \in Revisions, Start(r, op, t, v)
      PROVE IndexInv' /\ SingleActivePerTenant'
  BY <1>2 DEF Start
<1>3. ASSUME NEW r \in Requests, GetActive(r) PROVE IndexInv' /\ SingleActivePerTenant'
  BY <1>3 DEF GetActive
<1>4. ASSUME NEW r \in Requests, GetByID(r) PROVE IndexInv' /\ SingleActivePerTenant'
  BY <1>4 DEF GetByID, Finish
<1>5. ASSUME NEW r \in Requests, Locate(r) PROVE IndexInv' /\ SingleActivePerTenant'
  BY <1>5 DEF Locate, Finish
<1>6. ASSUME NEW r \in Requests, Acquire(r) PROVE IndexInv' /\ SingleActivePerTenant'
  BY <1>6 DEF Acquire
<1>7. ASSUME NEW r \in Requests, LockHeld(r) PROVE IndexInv' /\ SingleActivePerTenant'
  BY <1>7 DEF LockHeld, Finish
<1>8. ASSUME NEW r \in Requests, AcquireUnanswered(r) PROVE IndexInv' /\ SingleActivePerTenant'
  BY <1>8 DEF AcquireUnanswered, Finish
<1>9. ASSUME NEW r \in Requests, Scan(r) PROVE IndexInv' /\ SingleActivePerTenant'
  BY <1>9 DEF Scan
<1>10. ASSUME NEW r \in Requests, Deactivate(r) PROVE IndexInv' /\ SingleActivePerTenant'
  BY <1>10 DEF Deactivate
<1>11. ASSUME NEW r \in Requests, Activate(r) PROVE IndexInv' /\ SingleActivePerTenant'
<2>1. CASE \E res \in Results : RollbackTx(r, res)
  BY <1>11, <2>1 DEF Activate, RollbackTx
<2>2. CASE /\ InScope(r, rev[r]) /\ IndexReady(r) /\ ~StillActive(r)
           /\ on' = [on EXCEPT ![r] = rev[r]] /\ GoTo(r, "commit")
           /\ UNCHANGED <<scanned, off, result>>
  <3>1. \A v \in active : InScope(r, v) => v = rev[r] \/ v \in off[r]
    BY <2>2 DEF StillActive
  <3>2. \A q \in Requests \ {r} :
          pc[q] = "commit" /\ ctx[r] \in Tenants => ctx[q] # ctx[r]
    <4> SUFFICES ASSUME NEW q \in Requests \ {r}, pc[q] = "commit", ctx[r] \in Tenants
                 PROVE  ctx[q] # ctx[r]
      OBVIOUS
    <4>1. on[q] = rev[q] /\ rev[q] \in Revisions BY DEF TxInv, CallInv
    <4>2. ~InScope(r, rev[q]) BY <2>2, <4>1 DEF IndexReady, Writes
    <4>3. InScope(q, rev[q]) BY DEF TxInv
    <4>q. QED BY <4>2, <4>3
  <3>q. QED BY <1>11, <2>2, <3>1, <3>2 DEF Activate
<2>q. QED BY <1>11, <2>1, <2>2 DEF Activate, Results
<1>12. ASSUME NEW r \in Requests, Commit(r) PROVE IndexInv' /\ SingleActivePerTenant'
<2>1. /\ pc[r] = "commit" /\ active' = (active \ off[r]) \cup {rev[r]}
      /\ rev[r] \in Revisions /\ TenantOf[rev[r]] = ctx[r]
  BY <1>12 DEF Commit, TxInv, CallInv
<2>2. \A q \in Requests \ {r} :
        /\ pc'[q] = pc[q] /\ off'[q] = off[q] /\ rev'[q] = rev[q] /\ ctx'[q] = ctx[q]
  BY <1>12 DEF Commit
<2>3. pc'[r] # "commit" BY <1>12 DEF Commit
<2>4. SingleActivePerTenant'
  <3> SUFFICES ASSUME NEW v \in active', NEW w \in active',
                      TenantOf[v] = TenantOf[w], TenantOf[v] \in Tenants
               PROVE  v = w
    OBVIOUS
  <3>1. CASE TenantOf[v] = ctx[r] BY <2>1, <3>1
  <3>2. CASE TenantOf[v] # ctx[r] BY <2>1, <3>2
  <3>q. QED BY <3>1, <3>2
<2>5. IndexInv'
  <3> SUFFICES ASSUME NEW q \in Requests, pc'[q] = "commit", ctx'[q] \in Tenants
               PROVE  /\ \A v \in active' : TenantOf[v] = ctx'[q] => v = rev'[q] \/ v \in off'[q]
                      /\ \A s \in Requests : pc'[s] = "commit" /\ ctx'[s] = ctx'[q] => s = q
    OBVIOUS
  <3>1. q # r /\ ctx[q] # ctx[r] BY <2>1, <2>2, <2>3
  <3>q. QED BY <2>1, <2>2, <2>3, <3>1
<2>q. QED BY <2>4, <2>5
<1>13. ASSUME NEW r \in Requests, Release(r) PROVE IndexInv' /\ SingleActivePerTenant'
  BY <1>13 DEF Release
<1>14. ASSUME NEW r \in Requests, Reply(r) PROVE IndexInv' /\ SingleActivePerTenant'
  BY <1>14 DEF Reply, End
<1>15. ASSUME NEW r \in Requests, Fail(r) PROVE IndexInv' /\ SingleActivePerTenant'
  BY <1>15 DEF Fail, Finish, RollbackTx, InTx
<1>16. ASSUME NEW r \in Requests, Refresh(r) PROVE IndexInv' /\ SingleActivePerTenant'
  BY <1>16 DEF Refresh
<1>17. ASSUME NEW i \in Instances, Crash(i) PROVE IndexInv' /\ SingleActivePerTenant'
  BY <1>17 DEF Crash, End
<1>18. ASSUME Tick PROVE IndexInv' /\ SingleActivePerTenant'
  BY <1>18 DEF Tick
<1> HIDE DEF TypeOK, IndexInv, SingleActivePerTenant
<1>q. QED
  BY <1>0, <1>1, <1>2, <1>3, <1>4, <1>5, <1>6, <1>7, <1>8, <1>9, <1>10,
     <1>11, <1>12, <1>13, <1>14, <1>15, <1>16, <1>17, <1>18 DEF Step, Serve

\* A call reports success only of a revision it has seen active or activated.
LEMMA NextSeenInv ==
  ASSUME TypeOK, CallInv, TxInv, SeenInv, Next
  PROVE  SeenInv'
<1> USE ConstantsAssumption DEF ConstantsAssumption, TypeOK, CallInv, SeenInv, Observe, Maybe, lockVars,
       callVars, txVars, GoTo
<1>0. Step BY DEF Next
<1>w. Observe BY DEF Next
<1>1. ASSUME NEW v \in Revisions, CreateRevision(v) PROVE SeenInv'
  BY <1>1, <1>w DEF CreateRevision
<1>2. ASSUME NEW r \in Requests, NEW op \in {"publish", "rollback"}, NEW t \in ScopeSet,
             NEW v \in Revisions, Start(r, op, t, v)
      PROVE SeenInv'
  BY <1>2, <1>w DEF Start
<1>3. ASSUME NEW r \in Requests, GetActive(r) PROVE SeenInv'
<2>1. \A q \in Requests : q # r => cur'[q] = cur[q] /\ pc'[q] = pc[q] BY <1>3 DEF GetActive
<2>2. pc'[r] # "idle" /\ rev[r] \in Revisions BY <1>3 DEF GetActive
<2>3. cur'[r] \in active \cup {NoRevision} BY <1>3 DEF GetActive
<2>4. rev' = rev /\ active' = active /\ result' = result BY <1>3 DEF GetActive
<2>q. QED BY <1>3, <1>w, <2>1, <2>2, <2>3, <2>4
<1>4. ASSUME NEW r \in Requests, GetByID(r) PROVE SeenInv'
  BY <1>4, <1>w DEF GetByID, Finish
<1>5. ASSUME NEW r \in Requests, Locate(r) PROVE SeenInv'
  BY <1>5, <1>w DEF Locate, Finish
<1>6. ASSUME NEW r \in Requests, Acquire(r) PROVE SeenInv'
  BY <1>6, <1>w DEF Acquire
<1>7. ASSUME NEW r \in Requests, LockHeld(r) PROVE SeenInv'
  BY <1>7, <1>w DEF LockHeld, Finish
<1>8. ASSUME NEW r \in Requests, AcquireUnanswered(r) PROVE SeenInv'
  BY <1>8, <1>w DEF AcquireUnanswered, Finish, Reported
<1>9. ASSUME NEW r \in Requests, Scan(r) PROVE SeenInv'
  BY <1>9, <1>w DEF Scan
<1>10. ASSUME NEW r \in Requests, Deactivate(r) PROVE SeenInv'
  BY <1>10, <1>w DEF Deactivate
<1>11. ASSUME NEW r \in Requests, Activate(r) PROVE SeenInv'
  BY <1>11, <1>w DEF Activate, RollbackTx, Reported
<1>12. ASSUME NEW r \in Requests, Commit(r) PROVE SeenInv'
  BY <1>12, <1>w DEF Commit, Reported, TxInv
<1>13. ASSUME NEW r \in Requests, Release(r) PROVE SeenInv'
  BY <1>13, <1>w DEF Release
<1>14. ASSUME NEW r \in Requests, Reply(r) PROVE SeenInv'
  BY <1>14, <1>w DEF Reply, End
<1>15. ASSUME NEW r \in Requests, Fail(r) PROVE SeenInv'
  BY <1>15, <1>w DEF Fail, Finish, RollbackTx, Reported, InTx
<1>16. ASSUME NEW r \in Requests, Refresh(r) PROVE SeenInv'
  BY <1>16, <1>w DEF Refresh
<1>17. ASSUME NEW i \in Instances, Crash(i) PROVE SeenInv'
  BY <1>17, <1>w DEF Crash, End
<1>18. ASSUME Tick PROVE SeenInv'
  BY <1>18, <1>w DEF Tick
<1> HIDE DEF TypeOK, SeenInv
<1>q. QED
  BY <1>0, <1>1, <1>2, <1>3, <1>4, <1>5, <1>6, <1>7, <1>8, <1>9, <1>10,
     <1>11, <1>12, <1>13, <1>14, <1>15, <1>16, <1>17, <1>18 DEF Step, Serve

\* Type correctness, the call, transaction and index invariants hold in every
\* behaviour.
THEOREM PublishInvariant == Spec => []PublishInv
<1>1. PublishInv /\ [Next]_vars => PublishInv'
  <2>1. CASE Next
    BY <2>1, NextTypeOK, NextCallInv, NextTxInv, NextIndexInv, NextSeenInv DEF PublishInv
  <2>2. CASE UNCHANGED vars
    BY <2>2 DEF vars, lockVars, PublishInv, TypeOK, CallInv, TxInv, IndexInv, InScope,
                SingleActivePerTenant, SingleActiveIn, SeenInv
  <2>q. QED BY <2>1, <2>2
<1>q. QED BY InitPublishInv, <1>1, PTL DEF Spec

\* Every variable keeps its type, in every behaviour.
THEOREM TypeCorrect == Spec => []TypeOK
<1>1. PublishInv => TypeOK BY DEF PublishInv
<1>q. QED BY PublishInvariant, <1>1, PTL

\* A tenant never has two active revisions, for every number of processes and
\* requests and however long any of them stalls.
THEOREM TenantHasOneActive == Spec => []SingleActivePerTenant
<1>1. PublishInv => SingleActivePerTenant BY DEF PublishInv
<1>q. QED BY PublishInvariant, <1>1, PTL

\* A caller told of success has had its revision active during its call.
THEOREM SuccessIsReal == Spec => []SuccessWasActive
<1>1. PublishInv => SuccessWasActive BY DEF PublishInv, SeenInv, SuccessWasActive
<1>q. QED BY PublishInvariant, <1>1, PTL

-----------------------------------------------------------------------------
(* What a step does to the active revisions.                               *)

\* Only a commit changes which revisions are active.
LEMMA OnlyCommitSwitches ==
  ASSUME [Next]_vars PROVE UNCHANGED active \/ \E r \in Requests : Commit(r)
  BY DEF Next, Step, Serve, vars, CreateRevision, Start, GetActive, GetByID, Locate,
         Acquire, LockHeld, AcquireUnanswered, Scan, Deactivate, Activate, Release,
         Reply, Fail, Refresh, Crash, Tick

\* A commit makes its revision active, the only one of a tenant, and leaves all
\* other scopes as they are.
LEMMA CommitEffect ==
  ASSUME PublishInv, NEW r \in Requests, Commit(r)
  PROVE  /\ rev[r] \in Revisions /\ TenantOf[rev[r]] = ctx[r] /\ rev[r] \in active'
         /\ ctx[r] \in Tenants => \A v \in active' : TenantOf[v] = ctx[r] => v = rev[r]
         /\ \A v : TenantOf[v] # ctx[r] => (v \in active' <=> v \in active)
<1>1. /\ pc[r] = "commit" /\ active' = (active \ off[r]) \cup {rev[r]}
      /\ rev[r] \in Revisions /\ TenantOf[rev[r]] = ctx[r]
      /\ \A v \in off[r] : TenantOf[v] = ctx[r]
  BY DEF Commit, PublishInv, TxInv, CallInv, InScope
<1>2. ctx[r] \in Tenants => \A v \in active : TenantOf[v] = ctx[r] => v = rev[r] \/ v \in off[r]
  BY <1>1 DEF PublishInv, IndexInv, InScope
<1>q. QED BY <1>1, <1>2

\* No step leaves a scope that has an active revision without one.
THEOREM NeverWithoutActive == Spec => ActiveNeverLost
<1> DEFINE Kept == \A s \in ScopeSet : ActiveIn(s) # {} => ActiveIn(s)' # {}
<1>1. PublishInv /\ [Next]_vars => [Kept]_vars
  <2> SUFFICES ASSUME PublishInv, [Next]_vars PROVE Kept
    OBVIOUS
  <2>1. CASE UNCHANGED active BY <2>1 DEF ActiveIn
  <2>2. CASE \E r \in Requests : Commit(r) BY <2>2, CommitEffect DEF ActiveIn
  <2>q. QED BY <2>1, <2>2, OnlyCommitSwitches
<1>q. QED BY PublishInvariant, <1>1, PTL DEF Spec, ActiveNeverLost

-----------------------------------------------------------------------------
(* Refinement.                                                             *)

\* A function that differs from another at one point is its update there.
LEMMA FunctionUpdate ==
  ASSUME NEW S, NEW f, NEW g, NEW k \in S, NEW v,
         f = [s \in S |-> f[s]], g = [s \in S |-> g[s]],
         g[k] = v, \A s \in S \ {k} : g[s] = f[s]
  PROVE  g = [f EXCEPT ![k] = v]
  OBVIOUS

\* For the tenants, RevisionPublish implements ActiveRevision: a commit is a
\* Switch, every other step a stutter.
THEOREM PerTenantRefinement == Spec => ImplementsPerTenant
<1> DEFINE curr == [s \in Tenants |-> CurrentOf(s)]
<1>1. Init => PerTenant!Init
  BY DEF Init, PerTenant!Init, CurrentOf, ActiveIn, OneOf
<1>2. PublishInv /\ [Next]_vars => [PerTenant!Next]_curr
  <2> SUFFICES ASSUME PublishInv, [Next]_vars PROVE PerTenant!Next \/ curr' = curr
    OBVIOUS
  <2>1. CASE UNCHANGED active
    BY <2>1 DEF CurrentOf, ActiveIn
  <2>2. ASSUME NEW r \in Requests, Commit(r) PROVE PerTenant!Next \/ curr' = curr
    <3> DEFINE v == rev[r]
    <3>1. ASSUME NEW s \in Tenants \ {ctx[r]} PROVE curr'[s] = curr[s]
      <4>1. {w \in active' : TenantOf[w] = s} = {w \in active : TenantOf[w] = s}
        BY <2>2, CommitEffect
      <4>q. QED BY <4>1 DEF CurrentOf, ActiveIn
    <3>2. CASE ctx[r] \in Tenants
      <4>1. {w \in active' : TenantOf[w] = ctx[r]} = {v} BY <2>2, <3>2, CommitEffect
      <4>2. curr'[ctx[r]] = v BY <3>2, <4>1 DEF CurrentOf, ActiveIn, OneOf
      <4>3. v \in PerTenant!Published BY <2>2, <3>2, CommitEffect DEF PerTenant!Published
      <4>4. TenantOf[v] = ctx[r] BY <2>2, CommitEffect
      <4>5. curr' = [curr EXCEPT ![ctx[r]] = v]
        <5>1. curr = [s \in Tenants |-> curr[s]] /\ curr' = [s \in Tenants |-> curr'[s]]
          OBVIOUS
        <5> HIDE DEF curr
        <5>q. QED BY <3>1, <3>2, <4>2, <5>1, FunctionUpdate
      <4>q. QED BY <4>3, <4>4, <4>5 DEF PerTenant!Next, PerTenant!Switch
    <3>3. CASE ctx[r] \notin Tenants BY <3>1, <3>3
    <3>q. QED BY <3>2, <3>3
  <2>q. QED BY <2>1, <2>2, OnlyCommitSwitches
<1>q. QED BY PublishInvariant, <1>1, <1>2, PTL DEF Spec, ImplementsPerTenant, PerTenant!Spec

-----------------------------------------------------------------------------
(* The lock, when no process stalls for longer than it lives.              *)

\* A request past idle has its lock key among the scopes.
LEMMA KeyIsScope ==
  ASSUME TypeOK, CallInv, NEW r \in Requests, pc[r] # "idle"
  PROVE  LockKey(r) \in ScopeSet
  BY ConstantsAssumption DEF ConstantsAssumption, CallInv, LockKey

\* A lock that is free is held by nobody: the row of a holder is alive.
LEMMA FreeMeansUnheld ==
  ASSUME TypeOK, CallInv, LeaseInv, NEW q \in Requests, Holding(q)
  PROVE  ~LockFree(LockKey(q))
<1>1. pc[q] # "idle" BY DEF Holding, InTx
<1>2. LockKey(q) \in ScopeSet BY <1>1, KeyIsScope
<1>3. /\ holder[LockKey(q)] = InstanceOf[q]
      /\ ttl[LockKey(q)] + age[q] >= TTL
  BY DEF LeaseInv
<1>4. ttl[LockKey(q)] \in 0..TTL /\ age[q] \in 0..RefreshEvery BY <1>2 DEF TypeOK
<1>5. ttl[LockKey(q)] > 0
  BY <1>3, <1>4, ConstantsAssumption DEF ConstantsAssumption
<1>6. holder[LockKey(q)] # NoInstance
  BY <1>3, ConstantsAssumption DEF ConstantsAssumption
<1>q. QED BY <1>5, <1>6 DEF LockFree

\* Whoever takes a free lock becomes the owner of a fresh row, and disturbs no
\* holder.
LEMMA TakeLock ==
  ASSUME TypeOK, CallInv, LeaseInv, NEW r \in Requests, pc[r] = "tryLock",
         LockFree(LockKey(r)), WriteLock(r)
  PROVE  /\ \A q \in Requests : Holding(q) => q # r /\ LockKey(q) # LockKey(r)
         /\ owner'[LockKey(r)] = r /\ holder'[LockKey(r)] = InstanceOf[r]
         /\ ttl'[LockKey(r)] = TTL
         /\ \A k \in ScopeSet \ {LockKey(r)} :
              owner'[k] = owner[k] /\ holder'[k] = holder[k] /\ ttl'[k] = ttl[k]
<1>1. \A q \in Requests : Holding(q) => q # r /\ LockKey(q) # LockKey(r)
  BY FreeMeansUnheld
<1>2. LockKey(r) \in ScopeSet BY KeyIsScope
<1>q. QED BY <1>1, <1>2 DEF WriteLock, TypeOK

\* The refresh comes before the lock row expires, and nobody else's upsert or
\* DELETE touches a live row.
LEMMA NextLeaseInv ==
  ASSUME ~MayStall, TypeOK, CallInv, LeaseInv, Next
  PROVE  LeaseInv'
<1> USE ConstantsAssumption DEF ConstantsAssumption, TypeOK, CallInv, LeaseInv, Holding, InTx, LockKey, ScopeSet, Maybe,
       lockVars, callVars, txVars, GoTo
<1>0. Step BY DEF Next
<1>1. ASSUME NEW v \in Revisions, CreateRevision(v) PROVE LeaseInv'
  BY <1>1 DEF CreateRevision
<1>2. ASSUME NEW r \in Requests, NEW op \in {"publish", "rollback"}, NEW t \in ScopeSet,
             NEW v \in Revisions, Start(r, op, t, v)
      PROVE LeaseInv'
  BY <1>2 DEF Start
<1>3. ASSUME NEW r \in Requests, GetActive(r) PROVE LeaseInv'
  BY <1>3 DEF GetActive
<1>4. ASSUME NEW r \in Requests, GetByID(r) PROVE LeaseInv'
  BY <1>4 DEF GetByID, Finish
<1>5. ASSUME NEW r \in Requests, Locate(r) PROVE LeaseInv'
  BY <1>5 DEF Locate, Finish
<1>6. ASSUME NEW r \in Requests, Acquire(r) PROVE LeaseInv'
<2>1. TTL + 0 >= TTL /\ TTL \in Nat BY <1>6
<2>2. \A q \in Requests : pc[q] # "idle" => LockKey(q) \in ScopeSet BY KeyIsScope
<2>q. QED BY <1>6, <2>1, <2>2, TakeLock DEF Acquire
<1>7. ASSUME NEW r \in Requests, LockHeld(r) PROVE LeaseInv'
  BY <1>7 DEF LockHeld, Finish
<1>8. ASSUME NEW r \in Requests, AcquireUnanswered(r) PROVE LeaseInv'
<2>1. \A q \in Requests : pc[q] # "idle" => LockKey(q) \in ScopeSet BY KeyIsScope
<2>q. QED BY <1>8, <2>1, TakeLock DEF AcquireUnanswered, Finish
<1>9. ASSUME NEW r \in Requests, Scan(r) PROVE LeaseInv'
  BY <1>9 DEF Scan
<1>10. ASSUME NEW r \in Requests, Deactivate(r) PROVE LeaseInv'
  BY <1>10 DEF Deactivate
<1>11. ASSUME NEW r \in Requests, Activate(r) PROVE LeaseInv'
  BY <1>11 DEF Activate, RollbackTx
<1>12. ASSUME NEW r \in Requests, Commit(r) PROVE LeaseInv'
  BY <1>12 DEF Commit
<1>13. ASSUME NEW r \in Requests, Release(r) PROVE LeaseInv'
  BY <1>13 DEF Release
<1>14. ASSUME NEW r \in Requests, Reply(r) PROVE LeaseInv'
  BY <1>14 DEF Reply, End
<1>15. ASSUME NEW r \in Requests, Fail(r) PROVE LeaseInv'
  BY <1>15 DEF Fail, Finish, RollbackTx, InTx
<1>16. ASSUME NEW r \in Requests, Refresh(r) PROVE LeaseInv'
  BY <1>16 DEF Refresh, InTx
<1>17. ASSUME NEW i \in Instances, Crash(i) PROVE LeaseInv'
  BY <1>17 DEF Crash, End
<1>18. ASSUME Tick PROVE LeaseInv'
  BY <1>18 DEF Tick
<1> HIDE DEF TypeOK, LeaseInv
<1>q. QED
  BY <1>0, <1>1, <1>2, <1>3, <1>4, <1>5, <1>6, <1>7, <1>8, <1>9, <1>10,
     <1>11, <1>12, <1>13, <1>14, <1>15, <1>16, <1>17, <1>18 DEF Step, Serve

\* Nobody else changes the active rows of the scope a holder has locked.
LEMMA NextLockedScope ==
  ASSUME TypeOK, CallInv, TxInv, LeaseInv, LockedScopeInv, SingleActiveNoTenant, Next
  PROVE  LockedScopeInv' /\ SingleActiveNoTenant'
<1> USE ConstantsAssumption DEF ConstantsAssumption, TypeOK, CallInv, LockedScopeInv, SingleActiveNoTenant,
       SingleActiveIn, InScope, Holding, InTx, LockKey, Maybe, lockVars, callVars, txVars, GoTo
<1>0. Step BY DEF Next
<1>1. ASSUME NEW v \in Revisions, CreateRevision(v) PROVE LockedScopeInv' /\ SingleActiveNoTenant'
  BY <1>1 DEF CreateRevision
<1>2. ASSUME NEW r \in Requests, NEW op \in {"publish", "rollback"}, NEW t \in ScopeSet,
             NEW v \in Revisions, Start(r, op, t, v)
      PROVE LockedScopeInv' /\ SingleActiveNoTenant'
  BY <1>2 DEF Start
<1>3. ASSUME NEW r \in Requests, GetActive(r) PROVE LockedScopeInv' /\ SingleActiveNoTenant'
  BY <1>3 DEF GetActive
<1>4. ASSUME NEW r \in Requests, GetByID(r) PROVE LockedScopeInv' /\ SingleActiveNoTenant'
  BY <1>4 DEF GetByID, Finish
<1>5. ASSUME NEW r \in Requests, Locate(r) PROVE LockedScopeInv' /\ SingleActiveNoTenant'
  BY <1>5 DEF Locate, Finish
<1>6. ASSUME NEW r \in Requests, Acquire(r) PROVE LockedScopeInv' /\ SingleActiveNoTenant'
  BY <1>6 DEF Acquire
<1>7. ASSUME NEW r \in Requests, LockHeld(r) PROVE LockedScopeInv' /\ SingleActiveNoTenant'
  BY <1>7 DEF LockHeld, Finish
<1>8. ASSUME NEW r \in Requests, AcquireUnanswered(r) PROVE LockedScopeInv' /\ SingleActiveNoTenant'
  BY <1>8 DEF AcquireUnanswered, Finish
<1>9. ASSUME NEW r \in Requests, Scan(r) PROVE LockedScopeInv' /\ SingleActiveNoTenant'
  BY <1>9 DEF Scan
<1>10. ASSUME NEW r \in Requests, Deactivate(r) PROVE LockedScopeInv' /\ SingleActiveNoTenant'
  BY <1>10 DEF Deactivate
<1>11. ASSUME NEW r \in Requests, Activate(r) PROVE LockedScopeInv' /\ SingleActiveNoTenant'
  BY <1>11 DEF Activate, RollbackTx
<1>12. ASSUME NEW r \in Requests, Commit(r) PROVE LockedScopeInv' /\ SingleActiveNoTenant'
<2>1. /\ pc[r] = "commit" /\ active' = (active \ off[r]) \cup {rev[r]}
      /\ rev[r] \in Revisions /\ TenantOf[rev[r]] = ctx[r]
      /\ \A v \in off[r] : TenantOf[v] = ctx[r]
  BY <1>12 DEF Commit, TxInv
<2>2. \A v \in active : TenantOf[v] = ctx[r] => v \in off[r] BY <2>1
<2>3. \A q \in Requests \ {r} :
        /\ pc'[q] = pc[q] /\ off'[q] = off[q] /\ rev'[q] = rev[q] /\ ctx'[q] = ctx[q]
        /\ scanned'[q] = scanned[q]
  BY <1>12 DEF Commit
<2>4. pc'[r] = "release" BY <1>12 DEF Commit
<2>5. \A q \in Requests \ {r} : Holding(q) => TenantOf[rev[q]] # ctx[r]
  BY <2>1 DEF LeaseInv
<2>6. LockedScopeInv'
  <3> SUFFICES ASSUME NEW q \in Requests, Holding(q)', LockKey(q)' = ctx'[q]
               PROVE  /\ pc'[q] = "deactivate" =>
                           \A v \in active' : TenantOf[v] = ctx'[q] => v \in scanned'[q]
                      /\ pc'[q] \in {"activate", "commit"} =>
                           \A v \in active' : TenantOf[v] = ctx'[q] => v \in off'[q]
    OBVIOUS
  <3>1. CASE q = r BY <3>1, <2>4
  <3>2. CASE q # r
    <4>1. Holding(q) /\ LockKey(q) = ctx[q] BY <2>3, <3>2
    <4>2. \A v \in active' : TenantOf[v] = ctx[q] => v \in active
      BY <2>1, <2>5, <3>2, <4>1
    <4>q. QED BY <2>3, <3>2, <4>1, <4>2
  <3>q. QED BY <3>1, <3>2
<2>7. SingleActiveNoTenant'
  <3> SUFFICES ASSUME NEW v \in active', NEW w \in active',
                      TenantOf[v] = NoTenant, TenantOf[w] = NoTenant
               PROVE  v = w
    OBVIOUS
  <3>q. QED BY <2>1, <2>2
<2>q. QED BY <2>6, <2>7
<1>13. ASSUME NEW r \in Requests, Release(r) PROVE LockedScopeInv' /\ SingleActiveNoTenant'
  BY <1>13 DEF Release
<1>14. ASSUME NEW r \in Requests, Reply(r) PROVE LockedScopeInv' /\ SingleActiveNoTenant'
  BY <1>14 DEF Reply, End
<1>15. ASSUME NEW r \in Requests, Fail(r) PROVE LockedScopeInv' /\ SingleActiveNoTenant'
  BY <1>15 DEF Fail, Finish, RollbackTx
<1>16. ASSUME NEW r \in Requests, Refresh(r) PROVE LockedScopeInv' /\ SingleActiveNoTenant'
  BY <1>16 DEF Refresh
<1>17. ASSUME NEW i \in Instances, Crash(i) PROVE LockedScopeInv' /\ SingleActiveNoTenant'
  BY <1>17 DEF Crash, End
<1>18. ASSUME Tick PROVE LockedScopeInv' /\ SingleActiveNoTenant'
  BY <1>18 DEF Tick
<1> HIDE DEF TypeOK, LockedScopeInv, SingleActiveNoTenant
<1>q. QED
  BY <1>0, <1>1, <1>2, <1>3, <1>4, <1>5, <1>6, <1>7, <1>8, <1>9, <1>10,
     <1>11, <1>12, <1>13, <1>14, <1>15, <1>16, <1>17, <1>18 DEF Step, Serve

\* The initial state satisfies the invariant of the lock.
LEMMA InitPromptInv == Init => PromptInv
  BY DEF Init, PromptInv, LeaseInv, LockedScopeInv, SingleActiveNoTenant, SingleActiveIn,
         Holding, InTx

\* The lock invariants hold in every behaviour in which nobody stalls.
THEOREM PromptInvariant ==
  ASSUME ~MayStall PROVE Spec => [](PublishInv /\ PromptInv)
<1>1. PublishInv /\ PromptInv /\ [Next]_vars => PromptInv'
  <2>1. CASE Next
    BY <2>1, NextLeaseInv, NextLockedScope DEF PublishInv, PromptInv
  <2>2. CASE UNCHANGED vars
    BY <2>2 DEF vars, lockVars, callVars, txVars, PromptInv, LeaseInv, LockedScopeInv,
                SingleActiveNoTenant, SingleActiveIn, Holding, InTx, LockKey, InScope
  <2>q. QED BY <2>1, <2>2
<1>q. QED BY InitPromptInv, PublishInvariant, <1>1, PTL DEF Spec

\* No two requests are inside the critical section of one lock key.
THEOREM LockExcludes ==
  ASSUME ~MayStall PROVE Spec => []MutualExclusion
<1>1. PromptInv => MutualExclusion BY DEF PromptInv, LeaseInv, MutualExclusion
<1>q. QED BY PromptInvariant, <1>1, PTL

\* With no tenant there is one active revision at most.
THEOREM NoTenantHasOneActive ==
  ASSUME ~MayStall PROVE Spec => []SingleActiveNoTenant
<1>1. PromptInv => SingleActiveNoTenant BY DEF PromptInv
<1>q. QED BY PromptInvariant, <1>1, PTL

\* A release deletes the row its own request wrote.
THEOREM ReleasesOnlyItsLock ==
  ASSUME ~MayStall PROVE Spec => ReleasesOwnLock
<1> DEFINE Own == \A r \in Requests :
                    Release(r) => owner[LockKey(r)] \in {r, owner'[LockKey(r)]}
<1>1. PromptInv => Own BY DEF PromptInv, LeaseInv, Release, Holding
<1>q. QED BY PromptInvariant, <1>1, PTL DEF Spec, ReleasesOwnLock

\* While nobody stalls a commit leaves one active revision in any scope.
LEMMA PromptCommitEffect ==
  ASSUME PublishInv, PromptInv, NEW r \in Requests, Commit(r)
  PROVE  {w \in active' : TenantOf[w] = ctx[r]} = {rev[r]}
<1>1. /\ pc[r] = "commit" /\ active' = (active \ off[r]) \cup {rev[r]}
      /\ TenantOf[rev[r]] = ctx[r]
  BY DEF Commit, PublishInv, TxInv, InScope
<1>2. \A v \in active : TenantOf[v] = ctx[r] => v \in off[r]
  BY <1>1 DEF PromptInv, LockedScopeInv, Holding, InTx, LockKey, InScope
<1>q. QED BY <1>1, <1>2

\* While nobody stalls, RevisionPublish implements ActiveRevision for the tenants
\* and for the absence of one.
THEOREM EveryScopeRefinement ==
  ASSUME ~MayStall PROVE Spec => ImplementsEveryScope
<1> DEFINE curr == [s \in ScopeSet |-> CurrentOf(s)]
<1>1. Init => EveryScope!Init
  BY DEF Init, EveryScope!Init, CurrentOf, ActiveIn, OneOf
<1>2. PublishInv /\ PromptInv /\ [Next]_vars => [EveryScope!Next]_curr
  <2> SUFFICES ASSUME PublishInv, PromptInv, [Next]_vars
               PROVE  EveryScope!Next \/ curr' = curr
    OBVIOUS
  <2>1. CASE UNCHANGED active
    BY <2>1 DEF CurrentOf, ActiveIn
  <2>2. ASSUME NEW r \in Requests, Commit(r) PROVE EveryScope!Next
    <3> DEFINE v == rev[r]
    <3>1. ctx[r] \in ScopeSet BY DEF PublishInv, TypeOK
    <3>2. ASSUME NEW s \in ScopeSet \ {ctx[r]} PROVE curr'[s] = curr[s]
      <4>1. {w \in active' : TenantOf[w] = s} = {w \in active : TenantOf[w] = s}
        BY <2>2, CommitEffect
      <4>q. QED BY <4>1 DEF CurrentOf, ActiveIn
    <3>3. curr'[ctx[r]] = v
      <4>1. {w \in active' : TenantOf[w] = ctx[r]} = {v} BY <2>2, PromptCommitEffect
      <4>q. QED BY <3>1, <4>1 DEF CurrentOf, ActiveIn, OneOf
    <3>4. v \in EveryScope!Published BY <2>2, <3>1, CommitEffect DEF EveryScope!Published
    <3>5. TenantOf[v] = ctx[r] BY <2>2, CommitEffect
    <3>6. curr' = [curr EXCEPT ![ctx[r]] = v]
      <4>1. curr = [s \in ScopeSet |-> curr[s]] /\ curr' = [s \in ScopeSet |-> curr'[s]]
        OBVIOUS
      <4> HIDE DEF curr
      <4>q. QED BY <3>1, <3>2, <3>3, <4>1, FunctionUpdate
    <3>q. QED BY <3>4, <3>5, <3>6 DEF EveryScope!Next, EveryScope!Switch
  <2>q. QED BY <2>1, <2>2, OnlyCommitSwitches
<1>q. QED BY PromptInvariant, <1>1, <1>2, PTL DEF Spec, ImplementsEveryScope, EveryScope!Spec
=============================================================================
