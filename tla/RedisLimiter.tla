---------------------------- MODULE RedisLimiter ----------------------------
(***************************************************************************)
(* The rate limit that several data planes share: RedisLimiter keeps the   *)
(* requests of a key in a sorted set, and a script that Redis runs as one  *)
(* step drops the old ones, counts, and adds the new one.                  *)
(*                                                                         *)
(* The script gets the time from the data plane, which reads its clock     *)
(* before it calls Redis, so scripts run in another order than the times   *)
(* they record.  A request that gets no answer asks the LocalLimiter of    *)
(* its data plane, which knows nothing of what others let pass: it decides *)
(* either way here, and LocalLimiter.tla bounds what it lets pass.         *)
(***************************************************************************)
EXTENDS Integers, FiniteSets

CONSTANTS
  Requests,    \* goroutines of all data planes
  Keys,        \* what LimitKeyGenerator makes of consumers, routes, addresses
  Limit, Window,   \* of the plugin's configuration; times are in ticks
  MaxDelay,    \* bound: ticks from reading the clock to the script's run
  Ids, NoId,   \* members of the sorted sets (nanoseconds)
  MaxFallen,   \* bound: what local limiters let pass of a key in one tick
  MaxTime      \* bound: the clock

ASSUME ConstantsAssumption ==
  /\ Limit \in Nat \ {0} /\ Window \in Nat /\ MaxDelay \in Nat
  /\ MaxFallen \in Nat /\ MaxTime \in Nat
  /\ NoId \notin Ids

VARIABLES
  clock,
  zset,       \* zset[k]: the sorted set of key k
  expires,    \* expires[k]: when Redis drops it (PEXPIREAT)
  pc, key, id, now,   \* a request: where it is, its key, its member, the time it read
  passed,     \* passed[k]: the members of requests that Redis let pass (history)
  fallen      \* fallen[k]: what local limiters let pass instead (history)

vars == <<clock, zset, expires, pc, key, id, now, passed, fallen>>

Entry == [id : Ids, score : Nat, at : Nat]   \* "at" is when it was added (history)

\* A request that a local limiter let pass: when, and as which of those of the tick.
LocalPass == [nth : 0..MaxFallen, at : Nat]

TypeOK ==
  /\ clock \in Nat
  /\ zset \in [Keys -> SUBSET Entry] /\ expires \in [Keys -> Nat]
  /\ pc \in [Requests -> {"idle", "clock", "script"}]
  /\ key \in [Requests -> Keys]
  /\ id \in [Requests -> Ids \cup {NoId}]
  /\ now \in [Requests -> Nat]
  /\ passed \in [Keys -> SUBSET Entry]
  /\ fallen \in [Keys -> SUBSET LocalPass]

Init ==
  /\ clock = 0
  /\ zset = [k \in Keys |-> {}] /\ expires = [k \in Keys |-> 0]
  /\ pc = [r \in Requests |-> "idle"]
  /\ key \in [Requests -> Keys]
  /\ id = [r \in Requests |-> NoId]
  /\ now = [r \in Requests |-> 0]
  /\ passed = [k \in Keys |-> {}] /\ fallen = [k \in Keys |-> {}]

GoTo(r, label) == pc' = [pc EXCEPT ![r] = label]

\* OnRequest makes a key and calls Allow.
Arrive(r, k) ==
  /\ pc[r] = "idle"
  /\ key' = [key EXCEPT ![r] = k]
  /\ GoTo(r, "clock")
  /\ UNCHANGED <<clock, zset, expires, id, now, passed, fallen>>

\* No other call and no entry has this member: nanoseconds differ.
Unused(i) ==
  /\ \A r \in Requests : id[r] # i
  /\ \A k \in Keys : \A e \in zset[k] : e.id # i

ReadClock(r) ==
  /\ pc[r] = "clock"
  /\ GoTo(r, "script")
  /\ now' = [now EXCEPT ![r] = clock]
  /\ \E i \in Ids : Unused(i) /\ id' = [id EXCEPT ![r] = i]
  /\ UNCHANGED <<clock, zset, expires, key, passed, fallen>>

\* Redis drops a key whose time has passed.
Stored(k) == IF clock > expires[k] THEN {} ELSE zset[k]

\* ZREMRANGEBYSCORE: what is left of the set.
Kept(r) == {e \in Stored(key[r]) : e.score > now[r] - Window}

Full(r) == Cardinality(Kept(r)) >= Limit

Added(r) == [id |-> id[r], score |-> now[r], at |-> clock]

\* ZADD replaces an entry that has its member.
With(r) == {e \in Kept(r) : e.id # id[r]} \cup {Added(r)}

\* Mutant of RunScript: the time to live of the key is set when it is created and
\* never moved.
RunScriptExpiresOnce(r) ==
  /\ zset' = [zset EXCEPT ![key[r]] = IF Full(r) THEN Kept(r) ELSE With(r)]
  /\ expires' = [expires EXCEPT ![key[r]] = IF Kept(r) # {} THEN @ ELSE now[r] + Window]

\* The script: nothing is added to a full set.
RunScript(r) ==
  /\ zset' = [zset EXCEPT ![key[r]] = IF Full(r) THEN Kept(r) ELSE With(r)]
  /\ expires' = [expires EXCEPT ![key[r]] = IF Full(r) THEN @ ELSE now[r] + Window]

\* The call returns, and its variables are gone.
Return(r) ==
  /\ GoTo(r, "idle")
  /\ id' = [id EXCEPT ![r] = NoId]
  /\ now' = [now EXCEPT ![r] = 0]

\* The answer of the script decides.
Answer(r) ==
  /\ pc[r] = "script"
  /\ RunScript(r)
  /\ passed' = [passed EXCEPT ![key[r]] = IF Full(r) THEN @ ELSE @ \cup {Added(r)}]
  /\ Return(r)
  /\ UNCHANGED <<clock, key, fallen>>

\* The script runs, its answer is lost, and the client runs it again.
AnswerLost(r) ==
  /\ pc[r] = "script"
  /\ RunScript(r)
  /\ UNCHANGED <<clock, pc, key, id, now, passed, fallen>>

\* What local limiters let pass of a key in this tick, and the next of it.
FallenNow(k) == {e \in fallen[k] : e.at = clock}
NextFallen(k) == [nth |-> Cardinality(FallenNow(k)), at |-> clock]

\* Redis cannot be reached (any more): the local limiter lets the request pass, or not.
FallBack(r) ==
  /\ pc[r] = "script"
  /\ \/ /\ NextFallen(key[r]).nth < MaxFallen
        /\ fallen' = [fallen EXCEPT ![key[r]] = @ \cup {NextFallen(key[r])}]
     \/ fallen' = fallen
  /\ Return(r)
  /\ UNCHANGED <<clock, zset, expires, key, passed>>

\* The history keeps what is at most a window old.
Lasting(S) == {e \in S : e.at + Window > clock + 1}

\* Time passes, but no script is later than MaxDelay.
Tick ==
  /\ clock < MaxTime
  /\ \A r \in Requests : pc[r] = "script" => clock < now[r] + MaxDelay
  /\ clock' = clock + 1
  /\ passed' = [k \in Keys |-> Lasting(passed[k])]
  /\ fallen' = [k \in Keys |-> Lasting(fallen[k])]
  /\ UNCHANGED <<zset, expires, pc, key, id, now>>

Next ==
  \/ \E r \in Requests, k \in Keys : Arrive(r, k)
  \/ \E r \in Requests : ReadClock(r) \/ Answer(r) \/ AnswerLost(r) \/ FallBack(r)
  \/ Tick

Spec == Init /\ [][Next]_vars

-----------------------------------------------------------------------------
(* The parts of the inductive invariant the proof rests on.                *)

\* A sorted set is never larger than the limit.
SizeInv == \A k \in Keys : IsFiniteSet(zset[k]) /\ Cardinality(zset[k]) <= Limit

\* A call has a member of its own, and a time that is not longer ago than MaxDelay.
CallInv ==
  \A r \in Requests :
    /\ pc[r] = "script" => id[r] \in Ids /\ now[r] <= clock /\ clock <= now[r] + MaxDelay
    /\ pc[r] # "script" => id[r] = NoId
    /\ \A q \in Requests : q # r /\ id[q] = id[r] => id[r] = NoId

\* An entry records a time at most MaxDelay older than its addition, and its key
\* lives as long as no script that counts it can come.
EntryInv ==
  \A k \in Keys : \A e \in zset[k] :
    /\ e.at <= clock /\ e.at <= e.score + MaxDelay
    /\ e.at + Window <= expires[k] + MaxDelay

\* What happened so lately that no script may have dropped it.
Late(S) == {e \in S : e.at + Window > clock + MaxDelay}

\* What Redis, and what local limiters, let pass lately.
Recent(k) == Late(passed[k])
RecentFallen(k) == Late(fallen[k])

\* Only so many passes of local limiters are remembered.
FallenInv == \A k \in Keys : IsFiniteSet(fallen[k])

\* What passed lately is still counted, and no call runs under its member.
CountedInv ==
  \A k \in Keys : \A e \in Recent(k) : e \in zset[k] /\ \A r \in Requests : id[r] # e.id

-----------------------------------------------------------------------------
(* What must hold.                                                         *)

\* Of all requests of a key that the data planes let pass in any Window ticks, less the
\* time a script may be late, at most Limit were not let pass by a local limiter whose
\* request had no answer of Redis: so at most Limit pass altogether while none falls
\* back, whatever is run again, lost, or recorded in another order than it was run.
\* What falls back comes on top (docs/USER_GUIDE.md:556).
SharedLimit ==
  \A k \in Keys : Cardinality(Recent(k) \cup RecentFallen(k))
                    <= Limit + Cardinality(RecentFallen(k))

\* Not so, once requests fall back: the limit bounds what all data planes let pass.
LimitOverAll == \A k \in Keys : Cardinality(Recent(k) \cup RecentFallen(k)) <= Limit

\* SharedLimit, strengthened until every step preserves it.
LimitInv == TypeOK /\ SizeInv /\ CallInv /\ EntryInv /\ CountedInv /\ FallenInv
=============================================================================
