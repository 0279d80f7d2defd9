---------------------------- MODULE LocalLimiter ----------------------------
(***************************************************************************)
(* The rate limit of one data plane: LocalLimiter keeps a fixed window per *)
(* key.  It decides when the policy is "local", when no Redis client was   *)
(* injected, and when Redis does not answer.                               *)
(*                                                                         *)
(* Allow looks the window of its key up under the lock of the map, reads   *)
(* the clock, creates the window under the lock of the map if there was    *)
(* none, and counts under the lock of the window.  Nothing is held from    *)
(* one to the next.                                                        *)
(***************************************************************************)
EXTENDS Integers, FiniteSets

CONSTANTS
  Requests,    \* goroutines of the data plane
  Keys,        \* what LimitKeyGenerator makes of consumers, routes, addresses
  Limit, Window,   \* of the plugin's configuration; times are in ticks
  MaxDelay,    \* bound: ticks from reading the clock to counting
  Grace,       \* ticks cleanup leaves a window that has ended (a minute)
  Windows, NoWindow,   \* localWindow objects
  MaxTime      \* bound: the clock

ASSUME ConstantsAssumption ==
  /\ Limit \in Nat \ {0} /\ Window \in Nat /\ MaxDelay \in Nat
  /\ Grace \in Nat /\ MaxTime \in Nat /\ IsFiniteSet(Requests)
  /\ NoWindow \notin Windows

VARIABLES
  clock,
  windows,   \* the map of the limiter
  heap,      \* the localWindow objects
  pc, key, now,   \* a request: where it is, its key, the time it has read
  win,       \* the window it has looked up or created
  passed     \* passed[k]: the requests of key k that were let pass (history)

vars == <<clock, windows, heap, pc, key, now, win, passed>>

Object == [end : Nat, requests : 0..Limit]
Blank == [end |-> 0, requests |-> 0]

\* A request that was let pass: when, and as which of those of the same tick.
Pass == [at : Nat, nth : Nat]

TypeOK ==
  /\ clock \in Nat
  /\ windows \in [Keys -> Windows \cup {NoWindow}]
  /\ heap \in [Windows -> Object]
  /\ pc \in [Requests -> {"idle", "lookup", "clock", "create", "count"}]
  /\ key \in [Requests -> Keys]
  /\ now \in [Requests -> Nat]
  /\ win \in [Requests -> Windows \cup {NoWindow}]
  /\ passed \in [Keys -> SUBSET Pass]

Init ==
  /\ clock = 0
  /\ windows = [k \in Keys |-> NoWindow]
  /\ heap = [w \in Windows |-> Blank]
  /\ pc = [r \in Requests |-> "idle"]
  /\ key \in [Requests -> Keys]
  /\ now = [r \in Requests |-> 0]
  /\ win = [r \in Requests |-> NoWindow]
  /\ passed = [k \in Keys |-> {}]

GoTo(r, label) == pc' = [pc EXCEPT ![r] = label]

\* OnRequest makes a key and calls Allow.
Arrive(r, k) ==
  /\ pc[r] = "idle"
  /\ key' = [key EXCEPT ![r] = k]
  /\ GoTo(r, "lookup")
  /\ UNCHANGED <<clock, windows, heap, now, win, passed>>

Lookup(r) ==
  /\ pc[r] = "lookup"
  /\ win' = [win EXCEPT ![r] = windows[key[r]]]
  /\ GoTo(r, "clock")
  /\ UNCHANGED <<clock, windows, heap, key, now, passed>>

ReadClock(r) ==
  /\ pc[r] = "clock"
  /\ now' = [now EXCEPT ![r] = clock]
  /\ GoTo(r, IF win[r] = NoWindow THEN "create" ELSE "count")
  /\ UNCHANGED <<clock, windows, heap, key, win, passed>>

\* A window is garbage when neither the map nor a request refers to it.
Referenced(w, map, refs) ==
  (\E k \in Keys : map[k] = w) \/ (\E r \in Requests : refs[r] = w)

Collected(objects, map, refs) ==
  [w \in Windows |-> IF Referenced(w, map, refs) THEN objects[w] ELSE Blank]

New(r) == [end |-> now[r] + Window, requests |-> 0]

\* The map is not looked at again: a window created meanwhile is replaced.
Create(r) ==
  /\ pc[r] = "create"
  /\ \E w \in Windows :
       /\ ~Referenced(w, windows, win)
       /\ win' = [win EXCEPT ![r] = w]
       /\ windows' = [windows EXCEPT ![key[r]] = w]
       /\ heap' = Collected([heap EXCEPT ![w] = New(r)], windows', win')
  /\ GoTo(r, "count")
  /\ UNCHANGED <<clock, key, now, passed>>

\* Mutants of Begun: the end is moved and the count is not, and the other way round.
BegunFull(r) ==
  IF now[r] > heap[win[r]].end THEN [heap[win[r]] EXCEPT !.end = now[r] + Window]
                               ELSE heap[win[r]]

BegunEnded(r) ==
  IF now[r] > heap[win[r]].end THEN [heap[win[r]] EXCEPT !.requests = 0]
                               ELSE heap[win[r]]

\* The window of a request, begun anew if it had ended when the time was read.
Begun(r) == IF now[r] > heap[win[r]].end THEN New(r) ELSE heap[win[r]]

\* The passes of one tick, and the next one.
During(k, time) == {p \in passed[k] : p.at = time}
NextPass(k) == [at |-> clock, nth |-> Cardinality(During(k, clock))]

\* Allow's end: what is left of the window decides.
Count(r) ==
  LET window == Begun(r)
      allowed == window.requests < Limit
      counted == IF allowed THEN [window EXCEPT !.requests = @ + 1] ELSE window
  IN
  /\ pc[r] = "count"
  /\ win' = [win EXCEPT ![r] = NoWindow]
  /\ heap' = Collected([heap EXCEPT ![win[r]] = counted], windows, win')
  /\ passed' = [passed EXCEPT ![key[r]] = IF allowed THEN @ \cup {NextPass(key[r])} ELSE @]
  /\ GoTo(r, "idle")
  /\ now' = [now EXCEPT ![r] = 0]
  /\ UNCHANGED <<clock, windows, key>>

\* cleanup holds the lock of the map for the whole round.
Cleanup ==
  /\ windows' = [k \in Keys |->
       IF windows[k] # NoWindow /\ clock > heap[windows[k]].end + Grace
       THEN NoWindow ELSE windows[k]]
  /\ heap' = Collected(heap, windows', win)
  /\ UNCHANGED <<clock, pc, key, now, win, passed>>

\* What passed at a time or later.
Since(k, time) == {p \in passed[k] : p.at >= time}

\* Time passes, but no request is later than MaxDelay.  The history keeps what a
\* request may still be refused for.
Tick ==
  /\ clock < MaxTime
  /\ \A r \in Requests : pc[r] \in {"create", "count"} => clock < now[r] + MaxDelay
  /\ clock' = clock + 1
  /\ passed' = [k \in Keys |-> Since(k, clock + 1 - Window - MaxDelay)]
  /\ UNCHANGED <<windows, heap, pc, key, now, win>>

Allow(r) == Lookup(r) \/ ReadClock(r) \/ Create(r) \/ Count(r)

Next ==
  \/ \E r \in Requests : Allow(r) \/ \E k \in Keys : Arrive(r, k)
  \/ Cleanup
  \/ Tick

Spec == Init /\ [][Next]_vars

-----------------------------------------------------------------------------
(* What must hold.                                                         *)

\* In Window ticks, less the time a request may be late, twice the limit passes at
\* most, the end of one fixed window and the start of the next; and as much again for
\* each further request that runs at the same time, as it may replace the window that
\* counts by one of its own.
BurstBound ==
  \A k \in Keys :
    Cardinality(Since(k, clock - Window + MaxDelay + 1)) <= 2 * Cardinality(Requests) * Limit

\* A request is only refused if the limit has passed since a window began that had not
\* ended when it came, whatever windows were replaced, dropped or begun anew meanwhile.
RefusedWhenFull ==
  [][\A r \in Requests : Count(r) /\ passed' = passed =>
       Cardinality(Since(key[r], clock - Window - MaxDelay)) >= Limit]_vars

\* TestRateLimitPlugin_Concurrent: of the requests that come at once, for a key that
\* has no window yet, exactly Limit pass.
FirstWindow == clock = 0 => \A k \in Keys : Cardinality(passed[k]) <= Limit
=============================================================================
