------------------------ MODULE RedisLimiter_proofs ------------------------
(***************************************************************************)
(* Theorems about RedisLimiter, for every number of requests and keys,     *)
(* every limit and window, and however late a script may be.               *)
(***************************************************************************)
EXTENDS RedisLimiter, FiniteSetTheorems, TLAPS

\* The initial state satisfies the inductive invariant.
LEMMA InitLimitInv == Init => LimitInv
<1> SUFFICES ASSUME Init PROVE LimitInv OBVIOUS
<1> USE ConstantsAssumption DEF ConstantsAssumption, Init
<1>1. TypeOK BY DEF TypeOK
<1>2. SizeInv BY FS_EmptySet DEF SizeInv
<1>3. CallInv BY DEF CallInv
<1>4. EntryInv /\ CountedInv BY DEF EntryInv, CountedInv, Recent, Late
<1>5. FallenInv BY FS_EmptySet DEF FallenInv
<1>q. QED BY <1>1, <1>2, <1>3, <1>4, <1>5 DEF LimitInv

\* What the script keeps is part of the set it finds, and has everything recent.
LEMMA KeptIsCounted ==
  ASSUME LimitInv, NEW r \in Requests, pc[r] = "script"
  PROVE  /\ key[r] \in Keys /\ Kept(r) \subseteq zset[key[r]]
         /\ \A e \in Recent(key[r]) : e \in Kept(r) /\ e.id # id[r]
<1> USE ConstantsAssumption DEF ConstantsAssumption, LimitInv
<1>1. key[r] \in Keys /\ now[r] \in Nat /\ clock \in Nat /\ expires[key[r]] \in Nat
  BY DEF TypeOK
<1>2. Kept(r) \subseteq zset[key[r]] BY DEF Kept, Stored
<1>3. ASSUME NEW e \in Recent(key[r]) PROVE e \in Kept(r) /\ e.id # id[r]
  <2>1. e \in zset[key[r]] /\ e.id # id[r] BY <1>1, <1>3 DEF CountedInv
  <2>2. e.score \in Nat /\ e.at \in Nat BY <1>1, <2>1 DEF TypeOK, Entry
  <2>3. e.at <= e.score + MaxDelay /\ e.at + Window <= expires[key[r]] + MaxDelay
    BY <1>1, <2>1 DEF EntryInv
  <2>4. e.at + Window > clock + MaxDelay BY <1>3 DEF Recent, Late
  <2>5. now[r] <= clock BY DEF CallInv
  <2>6. clock <= expires[key[r]] /\ e.score > now[r] - Window
    BY <1>1, <2>2, <2>3, <2>4, <2>5
  <2>q. QED BY <1>1, <2>1, <2>6 DEF Kept, Stored
<1>q. QED BY <1>1, <1>2, <1>3

\* A run of the script keeps the set a set of entries that is not larger than the limit
\* and whose key lives long enough, and drops nothing recent.
LEMMA ScriptKeeps ==
  ASSUME LimitInv, NEW r \in Requests, pc[r] = "script", RunScript(r), clock' = clock
  PROVE  /\ zset' \in [Keys -> SUBSET Entry] /\ expires' \in [Keys -> Nat]
         /\ SizeInv' /\ EntryInv'
         /\ \A k \in Keys : \A e \in Recent(k) : e \in zset'[k]
         /\ ~Full(r) => Added(r) \in zset'[key[r]]
<1> USE ConstantsAssumption DEF ConstantsAssumption, LimitInv
<1> DEFINE k == key[r]
<1>1. k \in Keys /\ now[r] \in Nat /\ clock \in Nat BY DEF TypeOK
<1>2. Kept(r) \subseteq zset[k] /\ \A e \in Recent(k) : e \in Kept(r) /\ e.id # id[r]
  BY KeptIsCounted
<1>3. id[r] \in Ids /\ now[r] <= clock /\ clock <= now[r] + MaxDelay BY DEF CallInv
<1>4. Added(r) \in Entry BY <1>1, <1>3 DEF Added, Entry
<1>5. With(r) \subseteq zset[k] \cup {Added(r)} BY <1>2 DEF With
<1>6. /\ zset' \in [Keys -> SUBSET Entry] /\ expires' \in [Keys -> Nat]
      /\ \A j \in Keys \ {k} : zset'[j] = zset[j] /\ expires'[j] = expires[j]
      /\ Full(r) => zset'[k] = Kept(r) /\ expires'[k] = expires[k]
      /\ ~Full(r) => zset'[k] = With(r) /\ expires'[k] = now[r] + Window
  BY <1>1, <1>2, <1>4, <1>5 DEF RunScript, TypeOK
<1>7. IsFiniteSet(zset[k]) /\ Cardinality(zset[k]) <= Limit BY <1>1 DEF SizeInv
<1>8. /\ IsFiniteSet(Kept(r)) /\ Cardinality(Kept(r)) \in Nat
      /\ Cardinality(Kept(r)) <= Limit
  BY <1>2, <1>7, FS_Subset, FS_CardinalityType
<1>9. ~Full(r) => IsFiniteSet(With(r)) /\ Cardinality(With(r)) <= Limit
  <2> DEFINE Others == {e \in Kept(r) : e.id # id[r]}
  <2>1. /\ IsFiniteSet(Others) /\ Cardinality(Others) \in Nat
        /\ Cardinality(Others) <= Cardinality(Kept(r))
    BY <1>8, FS_Subset, FS_CardinalityType
  <2>2. /\ IsFiniteSet(Others \cup {Added(r)})
        /\ Cardinality(Others \cup {Added(r)}) <= Cardinality(Others) + 1
    <3> HIDE DEF Others
    <3>1. /\ IsFiniteSet(Others \cup {Added(r)})
          /\ Cardinality(Others \cup {Added(r)}) =
               IF Added(r) \in Others THEN Cardinality(Others) ELSE Cardinality(Others) + 1
      BY <2>1, FS_AddElement, Zenon
    <3>q. QED BY <2>1, <3>1
  <2>3. IsFiniteSet(With(r)) /\ Cardinality(With(r)) \in Nat
        /\ Cardinality(With(r)) <= Cardinality(Others) + 1
    BY <2>2, FS_CardinalityType DEF With
  <2>q. QED BY <1>8, <2>1, <2>3 DEF Full
<1>10. SizeInv'
  <2> SUFFICES ASSUME NEW j \in Keys
               PROVE  IsFiniteSet(zset'[j]) /\ Cardinality(zset'[j]) <= Limit
    BY DEF SizeInv
  <2>1. CASE j # k BY <2>1, <1>6 DEF SizeInv
  <2>2. CASE j = k BY <2>2, <1>6, <1>8, <1>9
  <2>q. QED BY <2>1, <2>2
<1>11. EntryInv'
  <2> SUFFICES ASSUME NEW j \in Keys, NEW e \in zset'[j]
               PROVE  /\ e.at <= clock /\ e.at <= e.score + MaxDelay
                      /\ e.at + Window <= expires'[j] + MaxDelay
    BY DEF EntryInv
  <2>1. CASE j # k \/ Full(r)
    BY <2>1, <1>2, <1>6 DEF EntryInv
  <2>2. CASE j = k /\ ~Full(r) /\ e = Added(r)
    BY <2>2, <1>1, <1>3, <1>6 DEF Added
  <2>3. CASE j = k /\ ~Full(r) /\ e # Added(r)
    <3>1. e \in zset[k] BY <2>3, <1>5, <1>6
    <3>2. e.at \in Nat /\ e.score \in Nat BY <3>1, <1>1 DEF TypeOK, Entry
    <3>3. e.at <= clock /\ e.at <= e.score + MaxDelay BY <3>1, <1>1 DEF EntryInv
    <3>q. QED BY <2>3, <3>2, <3>3, <1>1, <1>3, <1>6
  <2>q. QED BY <2>1, <2>2, <2>3
<1>12. \A j \in Keys : \A e \in Recent(j) : e \in zset'[j]
  <2> SUFFICES ASSUME NEW j \in Keys, NEW e \in Recent(j) PROVE e \in zset'[j] OBVIOUS
  <2>1. CASE j # k BY <2>1, <1>6 DEF CountedInv
  <2>2. CASE j = k BY <2>2, <1>2, <1>6 DEF With
  <2>q. QED BY <2>1, <2>2
<1>13. ~Full(r) => Added(r) \in zset'[k] BY <1>6 DEF With
<1>q. QED BY <1>6, <1>10, <1>11, <1>12, <1>13

\* A call that returns leaves the invariant of the calls.
LEMMA ReturnKeeps ==
  ASSUME LimitInv, NEW r \in Requests, Return(r), clock' = clock
  PROVE  /\ pc' \in [Requests -> {"idle", "clock", "script"}]
         /\ id' \in [Requests -> Ids \cup {NoId}] /\ now' \in [Requests -> Nat]
         /\ CallInv'
         /\ \A q \in Requests : id'[q] = NoId \/ id'[q] = id[q]
<1> USE DEF LimitInv, Return, GoTo
<1>1. /\ pc' \in [Requests -> {"idle", "clock", "script"}]
      /\ id' \in [Requests -> Ids \cup {NoId}] /\ now' \in [Requests -> Nat]
  BY DEF TypeOK
<1>2. CallInv' BY DEF CallInv, TypeOK
<1>3. \A q \in Requests : id'[q] = NoId \/ id'[q] = id[q] BY DEF TypeOK
<1>q. QED BY <1>1, <1>2, <1>3

\* Members are not NoId.
LEMMA MembersAreIds ==
  ASSUME LimitInv, NEW k \in Keys, NEW e \in Recent(k)
  PROVE  e.id \in Ids /\ e.id # NoId
  BY ConstantsAssumption DEF ConstantsAssumption, LimitInv, TypeOK, Recent, Late, Entry

\* A request that falls back adds at most one pass to what is remembered.
LEMMA FallBackKeeps ==
  ASSUME LimitInv, NEW r \in Requests, FallBack(r)
  PROVE  fallen' \in [Keys -> SUBSET LocalPass] /\ FallenInv'
<1> USE ConstantsAssumption DEF ConstantsAssumption, LimitInv
<1>1. key[r] \in Keys /\ fallen \in [Keys -> SUBSET LocalPass] /\ clock \in Nat
  BY DEF TypeOK
<1>2. CASE fallen' = fallen BY <1>1, <1>2 DEF FallenInv
<1>3. CASE /\ NextFallen(key[r]).nth < MaxFallen
           /\ fallen' = [fallen EXCEPT ![key[r]] = @ \cup {NextFallen(key[r])}]
  <2>1. IsFiniteSet(fallen[key[r]]) BY <1>1 DEF FallenInv
  <2>2. IsFiniteSet(FallenNow(key[r])) BY <2>1, FS_Subset DEF FallenNow
  <2>3. Cardinality(FallenNow(key[r])) \in Nat BY <2>2, FS_CardinalityType
  <2>4. NextFallen(key[r]) \in LocalPass BY <1>1, <1>3, <2>3 DEF NextFallen, LocalPass
  <2>5. IsFiniteSet(fallen[key[r]] \cup {NextFallen(key[r])}) BY <2>1, FS_AddElement
  <2>q. QED BY <1>1, <1>3, <2>4, <2>5 DEF FallenInv
<1>q. QED BY <1>2, <1>3 DEF FallBack

\* Every step preserves the inductive invariant.
LEMMA NextLimitInv == LimitInv /\ [Next]_vars => LimitInv'
<1> SUFFICES ASSUME LimitInv, [Next]_vars PROVE LimitInv' OBVIOUS
<1> USE ConstantsAssumption DEF ConstantsAssumption
<1>t. TypeOK BY DEF LimitInv
<1>1. ASSUME NEW r \in Requests, NEW k \in Keys, Arrive(r, k) PROVE LimitInv'
  <2> USE <1>1 DEF Arrive, GoTo
  <2>1. TypeOK' BY <1>t DEF TypeOK
  <2>2. CallInv' BY <1>t DEF LimitInv, CallInv, TypeOK
  <2>3. SizeInv' /\ EntryInv' /\ CountedInv'
    BY DEF LimitInv, SizeInv, EntryInv, CountedInv, Recent, Late
  <2>4. FallenInv' BY DEF LimitInv, FallenInv
  <2>q. QED BY <2>1, <2>2, <2>3, <2>4 DEF LimitInv
<1>2. ASSUME NEW r \in Requests, ReadClock(r) PROVE LimitInv'
  <2> USE <1>2 DEF ReadClock, GoTo
  <2>1. PICK i \in Ids : Unused(i) /\ id' = [id EXCEPT ![r] = i] OBVIOUS
  <2>2. TypeOK' BY <1>t, <2>1 DEF TypeOK
  <2>3. CallInv' BY <1>t, <2>1 DEF LimitInv, CallInv, TypeOK, Unused
  <2>4. SizeInv' /\ EntryInv' BY DEF LimitInv, SizeInv, EntryInv
  <2>5. CountedInv' BY <1>t, <2>1 DEF LimitInv, CountedInv, Recent, Late, TypeOK, Unused
  <2>6. FallenInv' BY DEF LimitInv, FallenInv
  <2>q. QED BY <2>2, <2>3, <2>4, <2>5, <2>6 DEF LimitInv
<1>3. ASSUME NEW r \in Requests, Answer(r) PROVE LimitInv'
  <2>0. /\ pc[r] = "script" /\ RunScript(r) /\ Return(r)
        /\ clock' = clock /\ key' = key /\ fallen' = fallen
    BY <1>3 DEF Answer
  <2>1. /\ zset' \in [Keys -> SUBSET Entry] /\ expires' \in [Keys -> Nat]
        /\ SizeInv' /\ EntryInv'
        /\ \A k \in Keys : \A e \in Recent(k) : e \in zset'[k]
        /\ ~Full(r) => Added(r) \in zset'[key[r]]
    BY <2>0, ScriptKeeps
  <2>2. /\ pc' \in [Requests -> {"idle", "clock", "script"}]
        /\ id' \in [Requests -> Ids \cup {NoId}] /\ now' \in [Requests -> Nat]
        /\ CallInv'
        /\ \A q \in Requests : id'[q] = NoId \/ id'[q] = id[q]
    BY <2>0, ReturnKeeps
  <2>3. key[r] \in Keys /\ id[r] \in Ids /\ Added(r) \in Entry
    BY <2>0, <1>t DEF LimitInv, CallInv, TypeOK, Added, Entry
  <2>4. /\ passed' \in [Keys -> SUBSET Entry]
        /\ \A k \in Keys : \A e \in passed'[k] :
             e \in passed[k] \/ (k = key[r] /\ ~Full(r) /\ e = Added(r))
    BY <1>3, <1>t, <2>3 DEF Answer, TypeOK
  <2>5. TypeOK' BY <1>t, <2>0, <2>1, <2>2, <2>4 DEF TypeOK
  <2>6. CountedInv'
    <3> SUFFICES ASSUME NEW k \in Keys, NEW e \in Recent(k)'
                 PROVE  e \in zset'[k] /\ \A q \in Requests : id'[q] # e.id
      BY DEF CountedInv
    <3>1. CASE e \in passed[k]
      <4>1. e \in Recent(k) BY <3>1, <2>0 DEF Recent, Late
      <4>q. QED BY <4>1, <2>1, <2>2, MembersAreIds DEF LimitInv, CountedInv
    <3>2. CASE k = key[r] /\ ~Full(r) /\ e = Added(r)
      <4>1. e \in zset'[k] /\ e.id = id[r] BY <3>2, <2>1 DEF Added
      <4>2. \A q \in Requests : id'[q] # id[r]
        BY <1>t, <2>0, <2>3 DEF LimitInv, CallInv, Return, TypeOK
      <4>q. QED BY <4>1, <4>2
    <3>q. QED BY <3>1, <3>2, <2>4 DEF Recent, Late
  <2>7. FallenInv' BY <2>0 DEF LimitInv, FallenInv
  <2>q. QED BY <2>1, <2>2, <2>5, <2>6, <2>7 DEF LimitInv
<1>4. ASSUME NEW r \in Requests, AnswerLost(r) PROVE LimitInv'
  <2>0. /\ pc[r] = "script" /\ RunScript(r)
        /\ UNCHANGED <<clock, pc, key, id, now, passed, fallen>>
    BY <1>4 DEF AnswerLost
  <2>1. /\ zset' \in [Keys -> SUBSET Entry] /\ expires' \in [Keys -> Nat]
        /\ SizeInv' /\ EntryInv'
        /\ \A k \in Keys : \A e \in Recent(k) : e \in zset'[k]
    BY <2>0, ScriptKeeps
  <2>2. TypeOK' BY <1>t, <2>0, <2>1 DEF TypeOK
  <2>3. CallInv' BY <2>0 DEF LimitInv, CallInv
  <2>4. CountedInv' BY <2>0, <2>1 DEF LimitInv, CountedInv, Recent, Late
  <2>5. FallenInv' BY <2>0 DEF LimitInv, FallenInv
  <2>q. QED BY <2>1, <2>2, <2>3, <2>4, <2>5 DEF LimitInv
<1>5. ASSUME NEW r \in Requests, FallBack(r) PROVE LimitInv'
  <2>0. Return(r) /\ UNCHANGED <<clock, zset, expires, key, passed>> BY <1>5 DEF FallBack
  <2>1. /\ pc' \in [Requests -> {"idle", "clock", "script"}]
        /\ id' \in [Requests -> Ids \cup {NoId}] /\ now' \in [Requests -> Nat]
        /\ CallInv'
        /\ \A q \in Requests : id'[q] = NoId \/ id'[q] = id[q]
    BY <2>0, ReturnKeeps
  <2>5. fallen' \in [Keys -> SUBSET LocalPass] /\ FallenInv'
    BY <1>5, FallBackKeeps
  <2>2. TypeOK' BY <1>t, <2>0, <2>1, <2>5 DEF TypeOK
  <2>3. SizeInv' /\ EntryInv' BY <2>0 DEF LimitInv, SizeInv, EntryInv
  <2>4. CountedInv'
    BY <2>0, <2>1, MembersAreIds DEF LimitInv, CountedInv, Recent, Late
  <2>q. QED BY <2>1, <2>2, <2>3, <2>4, <2>5 DEF LimitInv
<1>6. ASSUME Tick PROVE LimitInv'
  <2> USE <1>6 DEF Tick
  <2>1. TypeOK' BY <1>t DEF TypeOK, Lasting
  <2>6. FallenInv' BY <1>t, FS_Subset DEF LimitInv, FallenInv, TypeOK, Lasting
  <2>2. SizeInv' BY DEF LimitInv, SizeInv
  <2>3. CallInv' BY <1>t DEF LimitInv, CallInv, TypeOK
  <2>4. EntryInv'
    <3> SUFFICES ASSUME NEW k \in Keys, NEW e \in zset[k]
                 PROVE  /\ e.at <= clock + 1 /\ e.at <= e.score + MaxDelay
                        /\ e.at + Window <= expires[k] + MaxDelay
      BY DEF EntryInv
    <3>1. e.at \in Nat /\ clock \in Nat BY <1>t DEF TypeOK, Entry
    <3>q. QED BY <3>1 DEF LimitInv, EntryInv
  <2>5. CountedInv'
    <3> SUFFICES ASSUME NEW k \in Keys, NEW e \in Recent(k)'
                 PROVE  e \in zset[k] /\ \A q \in Requests : id[q] # e.id
      BY DEF CountedInv
    <3>1. e \in passed[k] /\ e.at + Window > clock + 1 + MaxDelay
      BY <1>t DEF Recent, Late, Lasting, TypeOK
    <3>2. e.at \in Nat /\ clock \in Nat BY <1>t, <3>1 DEF TypeOK, Entry
    <3>3. e \in Recent(k) BY <3>1, <3>2 DEF Recent, Late
    <3>q. QED BY <3>3 DEF LimitInv, CountedInv
  <2>q. QED BY <2>1, <2>2, <2>3, <2>4, <2>5, <2>6 DEF LimitInv
<1>7. CASE UNCHANGED vars
  BY <1>7 DEF vars, LimitInv, TypeOK, SizeInv, CallInv, EntryInv, CountedInv, Recent, Late, FallenInv
<1>q. QED BY <1>1, <1>2, <1>3, <1>4, <1>5, <1>6, <1>7 DEF Next

-----------------------------------------------------------------------------
\* The inductive invariant of RedisLimiter.Allow: the sorted set holds at most Limit
\* members, and all that passed too lately for any script to have dropped them.
THEOREM LimitInvariant == Spec => []LimitInv
  BY InitLimitInv, NextLimitInv, PTL DEF Spec

\* What Redis let pass lately is part of a set that is not larger than the limit, and
\* the rest is what fell back.
LEMMA RecentBounded == LimitInv => SharedLimit
<1> SUFFICES ASSUME LimitInv, NEW k \in Keys
             PROVE  Cardinality(Recent(k) \cup RecentFallen(k))
                      <= Limit + Cardinality(RecentFallen(k))
  BY DEF SharedLimit
<1>1. IsFiniteSet(zset[k]) /\ Cardinality(zset[k]) <= Limit BY DEF LimitInv, SizeInv
<1>2. Recent(k) \subseteq zset[k] BY DEF LimitInv, CountedInv
<1>3. /\ IsFiniteSet(Recent(k))
      /\ Cardinality(Recent(k)) \in Nat /\ Cardinality(zset[k]) \in Nat
      /\ Cardinality(Recent(k)) <= Cardinality(zset[k])
  BY <1>1, <1>2, FS_Subset, FS_CardinalityType
<1>4. IsFiniteSet(RecentFallen(k)) /\ Cardinality(RecentFallen(k)) \in Nat
  BY FS_Subset, FS_CardinalityType DEF LimitInv, FallenInv, RecentFallen, Late
<1>5. /\ Cardinality(Recent(k) \cap RecentFallen(k)) \in Nat
      /\ Cardinality(Recent(k) \cup RecentFallen(k)) =
           Cardinality(Recent(k)) + Cardinality(RecentFallen(k))
             - Cardinality(Recent(k) \cap RecentFallen(k))
  BY <1>3, <1>4, FS_Union, FS_Intersection, FS_CardinalityType
<1>q. QED BY <1>1, <1>3, <1>4, <1>5, ConstantsAssumption DEF ConstantsAssumption

\* Of all requests of a key that the data planes let pass in any Window ticks less
\* MaxDelay, at most Limit were not let pass by a local limiter after Redis gave no
\* answer: although RedisLimiter.Allow reads the clock before the script runs, and
\* whatever answers are lost.
THEOREM LimitIsShared == Spec => []SharedLimit
  BY LimitInvariant, RecentBounded, PTL
=============================================================================
