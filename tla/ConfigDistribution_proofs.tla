--------------------- MODULE ConfigDistribution_proofs ---------------------
(***************************************************************************)
(* Theorems about ConfigDistribution, for every number of data planes,     *)
(* scopes, revisions and switches.                                         *)
(***************************************************************************)
EXTENDS ConfigDistribution, TLAPS

\* The initial state satisfies BuildInv.
LEMMA InitBuildInv == Init => BuildInv
  BY ConstantsAssumption
  DEF ConstantsAssumption, Init, BuildInv, TypeOK, HandOverInv, NeverServesBroken, CP!Init,
      CP!TypeOK, CP!Published, PCs, Applying, Indices, None, Idle, RevisionAt, Protocols

\* Positions in the log, and what is at them, stay valid when the log grows.
LEMMA LogGrows ==
  ASSUME log \in Seq(Revisions), NEW v \in Revisions, log' = Append(log, v)
  PROVE  /\ log' \in Seq(Revisions) /\ Len(log') = Len(log) + 1
         /\ Indices \subseteq Indices' /\ Len(log) + 1 \in Indices'
         /\ \A i \in Indices : RevisionAt(i)' = RevisionAt(i)
  BY DEF Indices, RevisionAt, None

\* Every step keeps every variable within its type.
LEMMA NextTypeOK ==
  ASSUME TypeOK, Next
  PROVE  TypeOK'
<1> USE ConstantsAssumption DEF ConstantsAssumption, TypeOK, CP!TypeOK, CP!Published, CP!Switch,
       PCs, Applying, Indices, None, Idle, Protocols, cpVars, dpVars, Up, GoTo
<1>1. ASSUME NEW v \in Revisions, Switch(v) PROVE TypeOK'
<2>1. /\ log' \in Seq(Revisions) /\ Indices \subseteq Indices' /\ Len(log) + 1 \in Indices'
      /\ UNCHANGED <<pc, dpVars>>
  <3> HIDE DEF Indices
  <3>q. QED BY <1>1, LogGrows DEF Switch
<2>2. current' \in [Scopes -> CP!Published \cup {NoRevision}] BY <1>1 DEF Switch
<2>3. latest' \in [Scopes -> Indices']
  <3> HIDE DEF Indices
  <3>q. QED BY <1>1, <2>1 DEF Switch
<2>4. /\ got' \in [DataPlanes -> Indices'] /\ snap' \in [DataPlanes -> Indices']
      /\ id' \in [DataPlanes -> Indices']
      /\ live' \in [DataPlanes -> [Protocols -> Indices']]
      /\ asked' \in [DataPlanes -> Indices' \cup {Idle}]
      /\ report' \in [DataPlanes -> [id : Indices', snap : Indices']]
  <3> HIDE DEF Indices
  <3>q. QED BY <2>1
<2>q. QED BY <2>1, <2>2, <2>3, <2>4
<1>2. ASSUME NEW d \in DataPlanes, Boot(d) PROVE TypeOK'
  BY <1>2 DEF Boot
<1>3. ASSUME NEW d \in DataPlanes, Poll(d) PROVE TypeOK'
  BY <1>3 DEF Poll
<1>4. ASSUME NEW d \in DataPlanes, Answer(d) PROVE TypeOK'
  BY <1>4 DEF Answer
<1>5. ASSUME NEW d \in DataPlanes, FetchFails(d) PROVE TypeOK'
  BY <1>5, SMTT(60) DEF FetchFails
<1>6. ASSUME NEW d \in DataPlanes, Skip(d) PROVE TypeOK'
  BY <1>6, SMTT(60) DEF Skip
<1>7. ASSUME NEW d \in DataPlanes, TakeUp(d) PROVE TypeOK'
  BY <1>7 DEF TakeUp, RevisionAt
<1>8. ASSUME NEW d \in DataPlanes, Reject(d) PROVE TypeOK'
<2>1. pc' \in [DataPlanes -> PCs] /\ got' \in [DataPlanes -> Indices] BY <1>8 DEF Reject
<2>2. \A e \in DataPlanes : e # d => pc'[e] = pc[e] /\ got'[e] = got[e] BY <1>8 DEF Reject
<2>3. got'[d] = None /\ pc'[d] \in {"down", "idle"} BY <1>8 DEF Reject
<2>q. QED BY <1>8, <2>1, <2>2, <2>3 DEF Reject
<1>9. ASSUME NEW d \in DataPlanes, StoreSnapshot(d) PROVE TypeOK'
  BY <1>9 DEF StoreSnapshot
<1>10. ASSUME NEW d \in DataPlanes, StoreID(d) PROVE TypeOK'
  BY <1>10 DEF StoreID
<1>11. ASSUME NEW d \in DataPlanes, SwapHTTP(d) PROVE TypeOK'
  BY <1>11 DEF SwapHTTP, Swap
<1>12. ASSUME NEW d \in DataPlanes, SwapWebSocket(d) PROVE TypeOK'
  BY <1>12 DEF SwapWebSocket, Swap
<1>13. ASSUME NEW d \in DataPlanes, SwapGRPC(d) PROVE TypeOK'
<2>1. pc' \in [DataPlanes -> PCs] /\ got' \in [DataPlanes -> Indices] BY <1>13 DEF SwapGRPC, Swap
<2>2. \A e \in DataPlanes : e # d => pc'[e] = pc[e] /\ got'[e] = got[e] BY <1>13 DEF SwapGRPC, Swap
<2>3. got'[d] = None /\ pc'[d] \in {"down", "idle"} BY <1>13 DEF SwapGRPC, Swap
<2>4. live' \in [DataPlanes -> [Protocols -> Indices]] BY <1>13 DEF SwapGRPC, Swap
<2>q. QED BY <1>13, <2>1, <2>2, <2>3, <2>4 DEF SwapGRPC, Swap
<1>14. ASSUME NEW d \in DataPlanes, AskRevision(d) PROVE TypeOK'
  BY <1>14 DEF AskRevision
<1>15. ASSUME NEW d \in DataPlanes, AnswerRevision(d) PROVE TypeOK'
  BY <1>15 DEF AnswerRevision
<1>16. ASSUME NEW d \in DataPlanes, Exit(d) PROVE TypeOK'
<2>1. pc' \in [DataPlanes -> PCs] /\ got' \in [DataPlanes -> Indices] BY <1>16 DEF Exit
<2>2. \A e \in DataPlanes : e # d => pc'[e] = pc[e] /\ got'[e] = got[e] BY <1>16 DEF Exit
<2>3. got'[d] = None /\ pc'[d] \in {"down", "idle"} BY <1>16 DEF Exit
<2>4. /\ snap' \in [DataPlanes -> Indices] /\ id' \in [DataPlanes -> Indices]
      /\ live' \in [DataPlanes -> [Protocols -> Indices]]
  BY <1>16 DEF Exit
<2>5. /\ asked' \in [DataPlanes -> Indices \cup {Idle}]
      /\ report' \in [DataPlanes -> [id : Indices, snap : Indices]]
  BY <1>16 DEF Exit
<2>q. QED BY <1>16, <2>1, <2>2, <2>3, <2>4, <2>5, ZenonT(60) DEF Exit
<1> HIDE DEF TypeOK
<1>q. QED
  BY <1>1, <1>2, <1>3, <1>4, <1>5, <1>6, <1>7, <1>8, <1>9,
     <1>10, <1>11, <1>12, <1>13, <1>14, <1>15, <1>16 DEF Next, Consume

\* A broken revision fails at Build, before anything is stored.
LEMMA NextBuild ==
  ASSUME BuildInv, Next
  PROVE  HandOverInv' /\ NeverServesBroken'
<1> USE ConstantsAssumption DEF ConstantsAssumption, BuildInv, TypeOK, HandOverInv, NeverServesBroken,
       Applying, None, Protocols, cpVars, dpVars, GoTo
<1>1. ASSUME NEW v \in Revisions, Switch(v) PROVE HandOverInv' /\ NeverServesBroken'
<2>1. /\ \A i \in Indices : RevisionAt(i)' = RevisionAt(i)
      /\ UNCHANGED <<pc, got, snap, live>>
  BY <1>1, LogGrows DEF Switch
<2>q. QED BY <2>1
<1>2. ASSUME NEW d \in DataPlanes, Boot(d) PROVE HandOverInv' /\ NeverServesBroken'
  BY <1>2 DEF Boot, RevisionAt
<1>3. ASSUME NEW d \in DataPlanes, Poll(d) PROVE HandOverInv' /\ NeverServesBroken'
  BY <1>3 DEF Poll, RevisionAt
<1>4. ASSUME NEW d \in DataPlanes, Answer(d) PROVE HandOverInv' /\ NeverServesBroken'
  BY <1>4 DEF Answer, RevisionAt
<1>5. ASSUME NEW d \in DataPlanes, FetchFails(d) PROVE HandOverInv' /\ NeverServesBroken'
  BY <1>5 DEF FetchFails, RevisionAt
<1>6. ASSUME NEW d \in DataPlanes, Skip(d) PROVE HandOverInv' /\ NeverServesBroken'
  BY <1>6 DEF Skip, RevisionAt
<1>7. ASSUME NEW d \in DataPlanes, TakeUp(d) PROVE HandOverInv' /\ NeverServesBroken'
  BY <1>7 DEF TakeUp, RevisionAt
<1>8. ASSUME NEW d \in DataPlanes, Reject(d) PROVE HandOverInv' /\ NeverServesBroken'
  BY <1>8 DEF Reject, RevisionAt
<1>9. ASSUME NEW d \in DataPlanes, StoreSnapshot(d) PROVE HandOverInv' /\ NeverServesBroken'
  BY <1>9 DEF StoreSnapshot, RevisionAt
<1>10. ASSUME NEW d \in DataPlanes, StoreID(d) PROVE HandOverInv' /\ NeverServesBroken'
  BY <1>10 DEF StoreID, RevisionAt
<1>11. ASSUME NEW d \in DataPlanes, SwapHTTP(d) PROVE HandOverInv' /\ NeverServesBroken'
  BY <1>11 DEF SwapHTTP, Swap, RevisionAt
<1>12. ASSUME NEW d \in DataPlanes, SwapWebSocket(d) PROVE HandOverInv' /\ NeverServesBroken'
  BY <1>12 DEF SwapWebSocket, Swap, RevisionAt
<1>13. ASSUME NEW d \in DataPlanes, SwapGRPC(d) PROVE HandOverInv' /\ NeverServesBroken'
  BY <1>13 DEF SwapGRPC, Swap, RevisionAt
<1>14. ASSUME NEW d \in DataPlanes, AskRevision(d) PROVE HandOverInv' /\ NeverServesBroken'
  BY <1>14 DEF AskRevision, RevisionAt
<1>15. ASSUME NEW d \in DataPlanes, AnswerRevision(d) PROVE HandOverInv' /\ NeverServesBroken'
  BY <1>15 DEF AnswerRevision, RevisionAt
<1>16. ASSUME NEW d \in DataPlanes, Exit(d) PROVE HandOverInv' /\ NeverServesBroken'
  BY <1>16 DEF Exit, RevisionAt
<1> HIDE DEF BuildInv, HandOverInv, NeverServesBroken
<1>q. QED
  BY <1>1, <1>2, <1>3, <1>4, <1>5, <1>6, <1>7, <1>8, <1>9,
     <1>10, <1>11, <1>12, <1>13, <1>14, <1>15, <1>16 DEF Next, Consume

\* BuildInv holds in every behaviour.
THEOREM BuildInvariant == Spec => []BuildInv
<1>1. BuildInv /\ [Next]_vars => BuildInv'
  <2>1. CASE Next BY <2>1, NextTypeOK, NextBuild DEF BuildInv
  <2>2. CASE UNCHANGED vars
    BY <2>2 DEF vars, BuildInv, TypeOK, HandOverInv, NeverServesBroken, Indices, RevisionAt,
                CP!TypeOK
  <2>q. QED BY <2>1, <2>2
<1>q. QED BY InitBuildInv, <1>1, PTL DEF Spec

\* Every variable keeps its type, in every behaviour.
THEOREM TypeCorrect == Spec => []TypeOK
<1>1. BuildInv => TypeOK BY DEF BuildInv
<1>q. QED BY BuildInvariant, <1>1, PTL

\* No request is ever routed by a revision that the data plane cannot build.
THEOREM BrokenNeverServed == Spec => []NeverServesBroken
<1>1. BuildInv => NeverServesBroken BY DEF BuildInv
<1>q. QED BY BuildInvariant, <1>1, PTL

\* A data plane that has a configuration keeps one while it runs.
THEOREM NeverWithoutConfig == Spec => ConfigKept
<1> DEFINE Kept == \A d \in DataPlanes, p \in Protocols :
                     live[d][p] # None /\ pc'[d] # "down" => live'[d][p] # None
<1>1. BuildInv /\ [Next]_vars => [Kept]_vars
  <2> SUFFICES ASSUME BuildInv, Next PROVE Kept
    OBVIOUS
  <2>1. ASSUME NEW d \in DataPlanes, NEW p \in Protocols, NEW from \in Applying, NEW to,
               Swap(d, p, from, to)
        PROVE  Kept
    BY <2>1 DEF Swap, BuildInv, TypeOK
  <2>2. ASSUME NEW d \in DataPlanes, Exit(d) PROVE Kept
    BY <2>2 DEF Exit, GoTo, BuildInv, TypeOK
  <2>3. CASE UNCHANGED live BY <2>3
  <2>q. QED
    BY <2>1, <2>2, <2>3
    DEF Next, Consume, Switch, Boot, Poll, Answer, FetchFails, Skip, TakeUp, Reject,
        StoreSnapshot, StoreID, SwapHTTP, SwapWebSocket, SwapGRPC, AskRevision,
        AnswerRevision, dpVars, Protocols, Applying
<1>q. QED BY BuildInvariant, <1>1, PTL DEF Spec, ConfigKept

-----------------------------------------------------------------------------
(* With a single scope: freshness.                                         *)

\* The initial state satisfies FreshInv.
LEMMA InitFreshInv == Init => FreshInv
  BY DEF Init, FreshInv, OrderInv, ReportNotStale, None, Idle, Protocols

\* Answers come in the order of the switches, and nothing overtakes them.
LEMMA NextFreshInv ==
  ASSUME NEW scope, Scopes = {scope}, BuildInv, FreshInv, Next
  PROVE  FreshInv'
<1> USE ConstantsAssumption DEF ConstantsAssumption, BuildInv, TypeOK, HandOverInv, FreshInv, OrderInv, ReportNotStale,
       Applying, Indices, None, Idle, Protocols, cpVars, dpVars, GoTo
<1>1. ASSUME NEW v \in Revisions, Switch(v) PROVE FreshInv'
  BY <1>1 DEF Switch
<1>2. ASSUME NEW d \in DataPlanes, Boot(d) PROVE FreshInv'
  BY <1>2 DEF Boot
<1>3. ASSUME NEW d \in DataPlanes, Poll(d) PROVE FreshInv'
  BY <1>3 DEF Poll
<1>4. ASSUME NEW d \in DataPlanes, Answer(d) PROVE FreshInv'
<2>1. got'[d] # None => got'[d] = Len(log) BY <1>4 DEF Answer
<2>2. \A e \in DataPlanes : e # d => got'[e] = got[e] BY <1>4 DEF Answer
<2>3. UNCHANGED <<cpVars, snap, id, live, asked, report>> BY <1>4 DEF Answer
<2>4. \A e \in DataPlanes : snap[e] <= Len(log) OBVIOUS
<2>5. OrderInv' BY <2>1, <2>2, <2>3, <2>4
<2>6. ReportNotStale' BY <2>3
<2>q. QED BY <2>5, <2>6
<1>5. ASSUME NEW d \in DataPlanes, FetchFails(d) PROVE FreshInv'
  BY <1>5 DEF FetchFails
<1>6. ASSUME NEW d \in DataPlanes, Skip(d) PROVE FreshInv'
  BY <1>6 DEF Skip
<1>7. ASSUME NEW d \in DataPlanes, TakeUp(d) PROVE FreshInv'
  BY <1>7 DEF TakeUp
<1>8. ASSUME NEW d \in DataPlanes, Reject(d) PROVE FreshInv'
  BY <1>8 DEF Reject
<1>9. ASSUME NEW d \in DataPlanes, StoreSnapshot(d) PROVE FreshInv'
<2>1. \A e \in DataPlanes :
        /\ snap[e] \in Int /\ got[e] \in Int /\ id[e] \in Int /\ asked[e] \in Int
        /\ \A p \in Protocols : live[e][p] \in Int
  <3>1. Len(log) \in Nat OBVIOUS
  <3>2. \A i \in Indices \cup {Idle} : i \in Int BY <3>1
  <3> HIDE DEF Indices, Idle, Protocols, OrderInv, FreshInv, HandOverInv
  <3>q. QED BY <3>2
<2>2. snap'[d] = got[d] /\ got[d] >= snap[d] BY <1>9 DEF StoreSnapshot
<2>3. \A e \in DataPlanes : e # d => snap'[e] = snap[e] BY <1>9 DEF StoreSnapshot
<2>4. UNCHANGED <<cpVars, got, id, live, asked, report>> BY <1>9 DEF StoreSnapshot
<2>5. \A e \in DataPlanes : got[e] # None => got[e] >= snap'[e]
  <3> SUFFICES ASSUME NEW e \in DataPlanes, got[e] # None PROVE got[e] >= snap'[e]
    OBVIOUS
  <3>1. CASE e = d BY <2>1, <2>2, <3>1
  <3>2. CASE e # d BY <2>3, <3>2
  <3>q. QED BY <3>1, <3>2
<2>6. OrderInv'
  <3>1. ASSUME NEW e \in DataPlanes
        PROVE  /\ id[e] <= snap'[e] /\ asked[e] <= snap'[e]
               /\ \A p \in Protocols : live[e][p] <= snap'[e]
    <4>1. id[e] <= snap[e] /\ asked[e] <= snap[e] /\ \A p \in Protocols : live[e][p] <= snap[e]
      OBVIOUS
    <4>2. snap'[e] \in Int /\ snap[e] <= snap'[e]
      <5> HIDE DEF BuildInv, FreshInv, TypeOK, OrderInv
      <5>q. QED BY <2>1, <2>2, <2>3
    <4> HIDE DEF BuildInv, FreshInv, TypeOK, OrderInv, Protocols
    <4>q. QED BY <2>1, <4>1, <4>2
  <3>q. QED BY <2>4, <2>5, <3>1
<2>7. ReportNotStale' BY <2>4
<2>q. QED BY <2>6, <2>7
<1>10. ASSUME NEW d \in DataPlanes, StoreID(d) PROVE FreshInv'
  BY <1>10 DEF StoreID
<1>11. ASSUME NEW d \in DataPlanes, SwapHTTP(d) PROVE FreshInv'
  BY <1>11 DEF SwapHTTP, Swap
<1>12. ASSUME NEW d \in DataPlanes, SwapWebSocket(d) PROVE FreshInv'
  BY <1>12 DEF SwapWebSocket, Swap
<1>13. ASSUME NEW d \in DataPlanes, SwapGRPC(d) PROVE FreshInv'
  BY <1>13 DEF SwapGRPC, Swap
<1>14. ASSUME NEW d \in DataPlanes, AskRevision(d) PROVE FreshInv'
  BY <1>14 DEF AskRevision
<1>15. ASSUME NEW d \in DataPlanes, AnswerRevision(d) PROVE FreshInv'
  BY <1>15 DEF AnswerRevision
<1>16. ASSUME NEW d \in DataPlanes, Exit(d) PROVE FreshInv'
  BY <1>16 DEF Exit
<1> HIDE DEF BuildInv, FreshInv
<1>q. QED
  BY <1>1, <1>2, <1>3, <1>4, <1>5, <1>6, <1>7, <1>8, <1>9,
     <1>10, <1>11, <1>12, <1>13, <1>14, <1>15, <1>16 DEF Next, Consume

\* With one scope the invariant above holds in every behaviour.
THEOREM FreshInvariant ==
  ASSUME NEW scope, Scopes = {scope} PROVE Spec => [](BuildInv /\ FreshInv)
<1>1. BuildInv /\ FreshInv /\ [Next]_vars => FreshInv'
  <2>1. CASE Next BY <2>1, NextFreshInv
  <2>2. CASE UNCHANGED vars
    BY <2>2 DEF vars, FreshInv, OrderInv, ReportNotStale
  <2>q. QED BY <2>1, <2>2
<1>q. QED BY InitFreshInv, BuildInvariant, <1>1, PTL DEF Spec

\* GET /revision never shows a snapshot older than the id it names.
THEOREM ReportsAreFresh ==
  ASSUME NEW scope, Scopes = {scope} PROVE Spec => []ReportNotStale
<1>1. FreshInv => ReportNotStale BY DEF FreshInv
<1>q. QED BY FreshInvariant, <1>1, PTL

\* A proxy never goes back behind a revision it has routed by.
THEOREM AppliesInOrder ==
  ASSUME NEW scope, Scopes = {scope} PROVE Spec => AppliedInOrder
<1> DEFINE Forward == \A d \in DataPlanes, p \in Protocols :
                        pc'[d] # "down" => live'[d][p] >= live[d][p]
<1>1. BuildInv /\ FreshInv /\ [Next]_vars => [Forward]_vars
  <2> SUFFICES ASSUME BuildInv, FreshInv, Next PROVE Forward
    OBVIOUS
  <2>1. ASSUME NEW d \in DataPlanes, NEW p \in Protocols, NEW from \in Applying \ {"build"},
               NEW to, Swap(d, p, from, to)
        PROVE  Forward
    BY <2>1 DEF Swap, BuildInv, TypeOK, HandOverInv, FreshInv, OrderInv, Indices
  <2>2. ASSUME NEW d \in DataPlanes, Exit(d) PROVE Forward
    BY <2>2 DEF Exit, GoTo, BuildInv, TypeOK, Indices
  <2>3. CASE UNCHANGED live BY <2>3 DEF BuildInv, TypeOK, Indices
  <2>q. QED
    BY <2>1, <2>2, <2>3
    DEF Next, Consume, Switch, Boot, Poll, Answer, FetchFails, Skip, TakeUp, Reject,
        StoreSnapshot, StoreID, SwapHTTP, SwapWebSocket, SwapGRPC, AskRevision,
        AnswerRevision, dpVars, Protocols, Applying
<1>q. QED BY FreshInvariant, <1>1, PTL DEF Spec, AppliedInOrder
=============================================================================
