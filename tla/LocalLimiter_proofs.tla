------------------------ MODULE LocalLimiter_proofs ------------------------
(***************************************************************************)
(* Theorems about LocalLimiter, for every finite set of requests and every *)
(* number of keys and windows, every limit, and however long a request may *)
(* be between its reading of the clock and its count.                      *)
(*                                                                         *)
(* That nobody is refused too early rests on what a window has counted.    *)
(* That no more than so much passes rests on a budget: what has passed of  *)
(* a key since a time, together with what may still pass in the windows    *)
(* that are about, never grows, as long as less than a window has gone by. *)
(***************************************************************************)
EXTENDS LocalLimiter, FiniteSetTheorems, TLAPS

Stale(r, k) == key[r] = k /\ win[r] = NoWindow /\ pc[r] \in {"clock", "create"}

\* A window belongs to one key, and a request holds one of the key it came with.
OwnInv ==
    /\ \A r \in Requests :
         /\ win[r] # NoWindow => pc[r] \in {"clock", "count"}
         /\ pc[r] = "count" => win[r] # NoWindow
    /\ \A k, l \in Keys : windows[k] # NoWindow /\ windows[k] = windows[l] => k = l
    /\ \A k \in Keys, r \in Requests : windows[k] # NoWindow /\ windows[k] = win[r] => key[r] = k
    /\ \A r, s \in Requests : win[r] # NoWindow /\ win[r] = win[s] => key[r] = key[s]

\* No time is of the future, and those that requests have read are of the last MaxDelay ticks.
TimeInv ==
    /\ \A r \in Requests : pc[r] \in {"create", "count"} => now[r] <= clock /\ clock <= now[r] + MaxDelay
    /\ \A w \in Windows : heap[w].end <= clock + Window
    /\ \A k \in Keys : \A p \in passed[k] : p.at <= clock

\* The passes of one tick are numbered.
PassInv == \A k \in Keys :
    /\ IsFiniteSet(passed[k])
    /\ \A p \in passed[k] : p.nth < Cardinality(During(k, p.at))

HeapInv == TypeOK /\ OwnInv /\ TimeInv /\ PassInv

Of(w, k) == windows[k] = w \/ \E r \in Requests : key[r] = k /\ win[r] = w

\* A window that a request may still be in time for has counted only what passed since it began.
CountedInv == \A k \in Keys, w \in Windows :
    Of(w, k) /\ heap[w].end + MaxDelay >= clock =>
      heap[w].requests <= Cardinality(Since(k, heap[w].end - Window))

\* The window of the map has counted a request, or the one that created it is about to.
FirstInv == \A k \in Keys :
    windows[k] # NoWindow =>
      \/ heap[windows[k]].requests > 0
      \/ \E r \in Requests : pc[r] = "count" /\ win[r] = windows[k] /\ heap[windows[k]].end = now[r] + Window

\* Left(r, k): r holds a window of k that is not in the map any more.
Left(r, k) == key[r] = k /\ win[r] \notin {NoWindow, windows[k]}

\* One request, the last that created a window, has looked at the map since.
CurrentInv == \A k \in Keys :
    windows[k] # NoWindow => \E r \in Requests : ~Stale(r, k) /\ ~Left(r, k)

-----------------------------------------------------------------------------
(* Numbers and sets. *)

Many == Cardinality(Requests)
Fewer == IF Many < Limit THEN Many ELSE Limit

\* The constants are numbers, and Fewer is the smaller of two of them.
LEMMA Numbers ==
  /\ Many \in Nat /\ Limit \in Nat /\ Limit >= 1 /\ Window \in Nat /\ MaxDelay \in Nat /\ Grace \in Nat
  /\ IsFiniteSet(Requests) /\ NoWindow \notin Windows
  /\ Fewer \in Nat /\ Fewer <= Many /\ Fewer <= Limit /\ Fewer \in {Many, Limit}
<1>1. Many \in Nat BY ConstantsAssumption, FS_CardinalityType DEF ConstantsAssumption, Many
<1>q. QED BY <1>1, ConstantsAssumption DEF ConstantsAssumption, Fewer

\* Objects of the heap.
LEMMA Objects ==
  ASSUME HeapInv
  PROVE  /\ Blank \in Object /\ Blank.end = 0 /\ Blank.requests = 0
         /\ \A w \in Windows : heap[w] \in Object /\ heap[w].end \in Nat /\ heap[w].requests \in 0..Limit
         /\ \A r \in Requests : New(r) \in Object /\ New(r).end = now[r] + Window /\ New(r).requests = 0
BY Numbers DEF HeapInv, TypeOK, Blank, Object, New

\* What is collected was not referred to.
LEMMA CollectedFacts ==
  ASSUME NEW objects, NEW map, NEW refs, NEW w \in Windows, NEW h, h = Collected(objects, map, refs)
  PROVE  /\ h[w] \in {objects[w], Blank}
         /\ Referenced(w, map, refs) => h[w] = objects[w]
BY DEF Collected

\* The window that a request puts into the map.
Puts(r, w) ==
  /\ pc[r] = "create" /\ win[r] = NoWindow
  /\ ~Referenced(w, windows, win)
  /\ win' = [win EXCEPT ![r] = w] /\ windows' = [windows EXCEPT ![key[r]] = w]
  /\ pc' = [pc EXCEPT ![r] = "count"]
  /\ heap' \in [Windows -> Object] /\ heap'[w] = New(r)
  /\ \A v \in Windows \ {w} : heap'[v] \in {heap[v], Blank}
  /\ \A v \in Windows \ {w} : Referenced(v, windows', win') => heap'[v] = heap[v]
  /\ UNCHANGED <<clock, key, now, passed>>

\* A creation puts one new window into the map, and the request holds it.
LEMMA CreateFacts ==
  ASSUME HeapInv, NEW r \in Requests, Create(r)
  PROVE  \E w \in Windows : Puts(r, w)
<1>1. PICK w \in Windows :
        /\ ~Referenced(w, windows, win)
        /\ win' = [win EXCEPT ![r] = w] /\ windows' = [windows EXCEPT ![key[r]] = w]
        /\ heap' = Collected([heap EXCEPT ![w] = New(r)], windows', win')
  BY DEF Create
<1>2. PICK objects : objects = [heap EXCEPT ![w] = New(r)] OBVIOUS
<1>3. objects[w] = New(r) /\ \A v \in Windows \ {w} : objects[v] = heap[v]
  BY <1>2 DEF HeapInv, TypeOK
<1>4. Referenced(w, windows', win')
  <2>1. win'[r] = w BY <1>1 DEF HeapInv, TypeOK
  <2>q. QED BY <2>1 DEF Referenced
<1>5. heap'[w] = New(r)
  <2>1. heap' = Collected(objects, windows', win') BY <1>1, <1>2
  <2>2. heap'[w] = objects[w] BY <2>1, <1>4, CollectedFacts
  <2>q. QED BY <2>2, <1>3
<1>6. ASSUME NEW v \in Windows \ {w}
      PROVE  heap'[v] \in {heap[v], Blank} /\ (Referenced(v, windows', win') => heap'[v] = heap[v])
  <2>1. objects[v] = heap[v] BY <1>3
  <2>2. heap' = Collected(objects, windows', win') BY <1>1, <1>2
  <2>q. QED BY <2>1, <2>2, CollectedFacts
<1>7. heap' \in [Windows -> Object]
  <2>1. \A v \in Windows : heap'[v] \in Object BY <1>5, <1>6, Objects
  <2>2. heap' = [v \in Windows |-> heap'[v]] BY <1>1 DEF Collected
  <2>q. QED BY <2>1, <2>2
<1>8. pc[r] = "create" /\ win[r] = NoWindow /\ pc' = [pc EXCEPT ![r] = "count"]
      /\ UNCHANGED <<clock, key, now, passed>>
  BY DEF Create, GoTo, HeapInv, OwnInv
<1>9. Puts(r, w) BY <1>1, <1>5, <1>6, <1>7, <1>8 DEF Puts
<1>q. QED BY <1>9

\* The window that a request counts in: b when it is found, begun anew if it was over,
\* and c when it has been counted.
CountsIn(r, w, b, c) ==
  /\ pc[r] = "count" /\ win[r] = w
  /\ b = IF now[r] > heap[w].end THEN New(r) ELSE heap[w]
  /\ c.end = b.end /\ c.requests = IF b.requests < Limit THEN b.requests + 1 ELSE b.requests
  /\ win' = [win EXCEPT ![r] = NoWindow]
  /\ pc' = [pc EXCEPT ![r] = "idle"] /\ now' = [now EXCEPT ![r] = 0]
  /\ heap' \in [Windows -> Object]
  /\ heap'[w] \in {c, Blank}
  /\ Referenced(w, windows, win') => heap'[w] = c
  /\ \A v \in Windows \ {w} : heap'[v] \in {heap[v], Blank}
  /\ \A v \in Windows \ {w} : Referenced(v, windows, win') => heap'[v] = heap[v]
  /\ passed' = [passed EXCEPT ![key[r]] =
                  IF b.requests < Limit THEN @ \cup {NextPass(key[r])} ELSE @]
  /\ UNCHANGED <<clock, windows, key>>

\* A count lets the request pass or not, in the window it holds, begun anew if it was
\* over.
LEMMA CountFacts ==
  ASSUME HeapInv, NEW r \in Requests, Count(r)
  PROVE  \E w \in Windows, b \in Object, c \in Object : CountsIn(r, w, b, c)
<1>1. PICK w \in Windows : w = win[r] BY DEF HeapInv, TypeOK, OwnInv, Count
<1>2. PICK b \in Object : b = Begun(r) /\ b = IF now[r] > heap[w].end THEN New(r) ELSE heap[w]
  BY <1>1, Objects DEF Begun
<1>3. PICK c : c = IF b.requests < Limit THEN [b EXCEPT !.requests = @ + 1] ELSE b OBVIOUS
<1>4. c \in Object /\ c.end = b.end /\ c.requests = IF b.requests < Limit THEN b.requests + 1 ELSE b.requests
  BY <1>2, <1>3, Numbers DEF Object
<1>5. heap' = Collected([heap EXCEPT ![w] = c], windows, win') BY <1>1, <1>2, <1>3 DEF Count
<1>6. PICK objects : objects = [heap EXCEPT ![w] = c] OBVIOUS
<1>7. objects[w] = c /\ \A v \in Windows \ {w} : objects[v] = heap[v]
  BY <1>6 DEF HeapInv, TypeOK
<1>8. /\ heap'[w] \in {c, Blank} /\ (Referenced(w, windows, win') => heap'[w] = c)
      /\ \A v \in Windows \ {w} : heap'[v] \in {heap[v], Blank}
      /\ \A v \in Windows \ {w} : Referenced(v, windows, win') => heap'[v] = heap[v]
  <2>1. heap' = Collected(objects, windows, win') BY <1>5, <1>6
  <2>2. heap'[w] \in {objects[w], Blank} /\ (Referenced(w, windows, win') => heap'[w] = objects[w])
    BY <2>1, CollectedFacts
  <2>3. ASSUME NEW v \in Windows \ {w}
        PROVE  heap'[v] \in {heap[v], Blank} /\ (Referenced(v, windows, win') => heap'[v] = heap[v])
    <3>1. objects[v] = heap[v] BY <1>7
    <3>q. QED BY <2>1, <3>1, CollectedFacts
  <2>q. QED BY <1>7, <2>2, <2>3
<1>9. heap' \in [Windows -> Object]
  <2>1. \A v \in Windows : heap'[v] \in Object BY <1>4, <1>8, Objects
  <2>2. heap' = [v \in Windows |-> heap'[v]] BY <1>5 DEF Collected
  <2>q. QED BY <2>1, <2>2
<1>10. /\ pc[r] = "count" /\ win' = [win EXCEPT ![r] = NoWindow]
       /\ pc' = [pc EXCEPT ![r] = "idle"] /\ now' = [now EXCEPT ![r] = 0]
       /\ UNCHANGED <<clock, windows, key>>
  BY DEF Count, GoTo
<1>11. passed' = [passed EXCEPT ![key[r]] =
                           IF b.requests < Limit THEN @ \cup {NextPass(key[r])} ELSE @]
  BY <1>2 DEF Count
<1>12. CountsIn(r, w, b, c) BY <1>1, <1>2, <1>4, <1>8, <1>9, <1>10, <1>11 DEF CountsIn
<1>q. QED BY <1>4, <1>12

\* Cleanup drops windows that are over from the map, and disturbs no object a request
\* holds.
LEMMA CleanupFacts ==
  ASSUME HeapInv, Cleanup
  PROVE  /\ windows' \in [Keys -> Windows \cup {NoWindow}]
         /\ \A k \in Keys :
              \/ windows'[k] = windows[k]
              \/ windows'[k] = NoWindow /\ windows[k] # NoWindow /\ clock > heap[windows[k]].end
         /\ heap' \in [Windows -> Object]
         /\ \A v \in Windows : heap'[v] \in {heap[v], Blank}
         /\ \A v \in Windows : Referenced(v, windows', win) => heap'[v] = heap[v]
         /\ UNCHANGED <<clock, pc, key, now, win, passed>>
<1>1. windows' = [k \in Keys |->
       IF windows[k] # NoWindow /\ clock > heap[windows[k]].end + Grace
       THEN NoWindow ELSE windows[k]]
  BY DEF Cleanup
<1>2. windows' \in [Keys -> Windows \cup {NoWindow}] BY <1>1 DEF HeapInv, TypeOK
<1>3. ASSUME NEW k \in Keys
      PROVE  \/ windows'[k] = windows[k]
             \/ windows'[k] = NoWindow /\ windows[k] # NoWindow /\ clock > heap[windows[k]].end
  <2>1. CASE windows[k] # NoWindow /\ clock > heap[windows[k]].end + Grace
    <3>1. windows[k] \in Windows /\ clock \in Nat BY <2>1 DEF HeapInv, TypeOK
    <3>2. clock > heap[windows[k]].end BY <2>1, <3>1, Objects, Numbers
    <3>q. QED BY <1>1, <2>1, <3>2
  <2>2. CASE ~(windows[k] # NoWindow /\ clock > heap[windows[k]].end + Grace) BY <1>1, <2>2
  <2>q. QED BY <2>1, <2>2
<1>4. heap' = Collected(heap, windows', win) /\ UNCHANGED <<clock, pc, key, now, win, passed>>
  BY DEF Cleanup
<1>5. ASSUME NEW v \in Windows
      PROVE  heap'[v] \in {heap[v], Blank} /\ (Referenced(v, windows', win) => heap'[v] = heap[v])
  BY <1>4, CollectedFacts
<1>6. heap' \in [Windows -> Object]
  <2>1. \A v \in Windows : heap'[v] \in Object BY <1>5, Objects
  <2>2. heap' = [v \in Windows |-> heap'[v]] BY <1>4 DEF Collected
  <2>q. QED BY <2>1, <2>2
<1>q. QED
  <2>1. \A k \in Keys :
          \/ windows'[k] = windows[k]
          \/ windows'[k] = NoWindow /\ windows[k] # NoWindow /\ clock > heap[windows[k]].end
    BY <1>3
  <2>2. /\ \A v \in Windows : heap'[v] \in {heap[v], Blank}
        /\ \A v \in Windows : Referenced(v, windows', win) => heap'[v] = heap[v]
    BY <1>5
  <2>q. QED BY <1>2, <1>4, <1>6, <2>1, <2>2

-----------------------------------------------------------------------------
(* Passes. *)

\* A pass is counted once, as a new one.
LEMMA PassAdded ==
  ASSUME HeapInv, NEW k \in Keys, passed'[k] = passed[k] \cup {NextPass(k)}
  PROVE  /\ NextPass(k) \in Pass /\ NextPass(k).at = clock /\ NextPass(k) \notin passed[k]
         /\ IsFiniteSet(passed'[k])
         /\ \A p \in passed'[k] : p.nth < Cardinality(During(k, p.at)')
         /\ \A u \in Int : u <= clock => Cardinality(Since(k, u)') = Cardinality(Since(k, u)) + 1
<1> DEFINE n == NextPass(k)
<1>1. IsFiniteSet(passed[k]) /\ passed[k] \in SUBSET Pass /\ clock \in Nat BY DEF HeapInv, PassInv, TypeOK
<1>2. \A t : IsFiniteSet(During(k, t)) /\ Cardinality(During(k, t)) \in Nat
  BY <1>1, FS_Subset, FS_CardinalityType DEF During
<1>3. n \in Pass /\ n.at = clock /\ n.nth = Cardinality(During(k, clock)) BY <1>1, <1>2 DEF NextPass, Pass
<1>4. n \notin passed[k] BY <1>2, <1>3 DEF HeapInv, PassInv
<1> HIDE DEF n
<1>5. passed'[k] = passed[k] \cup {n} BY DEF n
<1>6. IsFiniteSet(passed'[k]) BY <1>1, <1>5, FS_AddElement
<1>7. ASSUME NEW S \in SUBSET passed[k]
      PROVE  IsFiniteSet(S) /\ Cardinality(S) \in Nat /\ Cardinality(S \cup {n}) = Cardinality(S) + 1
  BY <1>1, <1>4, FS_Subset, FS_AddElement, FS_CardinalityType
<1>8. ASSUME NEW p \in passed'[k] PROVE p.nth < Cardinality(During(k, p.at)')
  <2>1. PICK t : t = p.at OBVIOUS
  <2>2. During(k, p.at)' = During(k, t)' BY <2>1
  <2>3. CASE t = clock
    <3>1. During(k, t)' = During(k, t) \cup {n} BY <1>3, <1>5, <2>3 DEF During
    <3>2. During(k, t) \in SUBSET passed[k] BY DEF During
    <3>3. Cardinality(During(k, t)') = Cardinality(During(k, t)) + 1 BY <1>7, <3>1, <3>2
    <3>4. Cardinality(During(k, t)) \in Nat BY <1>2
    <3>5. CASE p = n
      <4>1. p.nth = Cardinality(During(k, t)) BY <1>3, <2>3, <3>5
      <4>q. QED BY <2>2, <3>3, <3>4, <4>1
    <3>6. CASE p # n
      <4>1. p \in passed[k] BY <1>5, <3>6
      <4>2. p.nth < Cardinality(During(k, t)) BY <2>1, <4>1 DEF HeapInv, PassInv
      <4>3. p.nth \in Nat BY <1>1, <4>1 DEF Pass
      <4>q. QED BY <2>2, <3>3, <3>4, <4>2, <4>3
    <3>q. QED BY <3>5, <3>6
  <2>4. CASE t # clock
    <3>1. p # n /\ p \in passed[k] BY <1>3, <1>5, <2>1, <2>4
    <3>2. During(k, t)' = During(k, t) BY <1>3, <1>5, <2>4 DEF During
    <3>3. p.nth < Cardinality(During(k, t)) BY <2>1, <3>1 DEF HeapInv, PassInv
    <3>q. QED BY <2>2, <3>2, <3>3
  <2>q. QED BY <2>3, <2>4
<1>9. ASSUME NEW u \in Int, u <= clock
      PROVE  Cardinality(Since(k, u)') = Cardinality(Since(k, u)) + 1
  <2>1. Since(k, u)' = Since(k, u) \cup {n} /\ Since(k, u) \in SUBSET passed[k]
    BY <1>3, <1>5, <1>9 DEF Since
  <2>q. QED BY <1>7, <2>1
<1>q. QED BY <1>3, <1>4, <1>6, <1>8, <1>9 DEF n

\* The history is shortened by what no horizon reaches.
LEMMA PassDropped ==
  ASSUME HeapInv, NEW k \in Keys, NEW c \in Int, passed'[k] = Since(k, c)
  PROVE  /\ IsFiniteSet(passed'[k]) /\ passed'[k] \in SUBSET passed[k]
         /\ \A p \in passed'[k] : p.nth < Cardinality(During(k, p.at)')
         /\ \A u \in Int : u >= c => Since(k, u)' = Since(k, u)
<1>1. IsFiniteSet(passed[k]) /\ passed[k] \in SUBSET Pass BY DEF HeapInv, PassInv, TypeOK
<1>2. passed'[k] \in SUBSET passed[k] BY DEF Since
<1>3. IsFiniteSet(passed'[k]) BY <1>1, <1>2, FS_Subset
<1>4. ASSUME NEW p \in passed'[k] PROVE p.nth < Cardinality(During(k, p.at)')
  <2>1. During(k, p.at)' = During(k, p.at) BY <1>2 DEF During, Since
  <2>q. QED BY <1>2, <2>1 DEF HeapInv, PassInv
<1>5. ASSUME NEW u \in Int, u >= c PROVE Since(k, u)' = Since(k, u)
  <2>1. \A p \in passed[k] : p.at \in Nat BY <1>1 DEF Pass
  <2>2. \A p \in passed[k] : p.at >= u => p.at >= c BY <1>5, <2>1
  <2>q. QED BY <2>2 DEF Since
<1>q. QED BY <1>2, <1>3, <1>4, <1>5

\* How many passed is a number.
LEMMA SinceFacts ==
  ASSUME HeapInv, NEW k \in Keys, NEW u
  PROVE  IsFiniteSet(Since(k, u)) /\ Cardinality(Since(k, u)) \in Nat
<1>1. IsFiniteSet(passed[k]) /\ Since(k, u) \subseteq passed[k] BY DEF HeapInv, PassInv, Since
<1>q. QED BY <1>1, FS_Subset, FS_CardinalityType

-----------------------------------------------------------------------------
(* Windows and times. *)

\* A request that comes keeps HeapInv: it holds no window yet.
LEMMA ArriveHeap ==
  ASSUME HeapInv, NEW r \in Requests, NEW k \in Keys, Arrive(r, k)
  PROVE  HeapInv'
<1>1. /\ pc[r] = "idle" /\ win[r] = NoWindow
      /\ key' = [key EXCEPT ![r] = k] /\ pc' = [pc EXCEPT ![r] = "lookup"]
      /\ UNCHANGED <<clock, windows, heap, now, win, passed>>
  BY DEF Arrive, GoTo, HeapInv, OwnInv
<1>2. TypeOK' BY <1>1 DEF HeapInv, TypeOK
<1>3. OwnInv' BY <1>1 DEF HeapInv, TypeOK, OwnInv
<1>4. TimeInv' BY <1>1 DEF HeapInv, TypeOK, TimeInv
<1>5. PassInv' BY <1>1 DEF HeapInv, PassInv, During
<1>q. QED BY <1>2, <1>3, <1>4, <1>5 DEF HeapInv

\* A request takes the window of its own key out of the map.
LEMMA LookupHeap ==
  ASSUME HeapInv, NEW r \in Requests, Lookup(r)
  PROVE  HeapInv'
<1>1. /\ pc[r] = "lookup" /\ key[r] \in Keys
      /\ win' = [win EXCEPT ![r] = windows[key[r]]] /\ pc' = [pc EXCEPT ![r] = "clock"]
      /\ UNCHANGED <<clock, windows, heap, key, now, passed>>
  BY DEF Lookup, GoTo, HeapInv, TypeOK
<1>2. TypeOK' BY <1>1 DEF HeapInv, TypeOK
<1>3. win'[r] = windows[key[r]] /\ \A s \in Requests \ {r} : win'[s] = win[s] /\ pc'[s] = pc[s]
  BY <1>1 DEF HeapInv, TypeOK
<1>4. OwnInv'
  <2>1. \A k, l \in Keys : windows'[k] # NoWindow /\ windows'[k] = windows'[l] => k = l
    BY <1>1 DEF HeapInv, OwnInv
  <2>2. \A k \in Keys, s \in Requests : windows'[k] # NoWindow /\ windows'[k] = win'[s] => key'[s] = k
    BY <1>1, <1>3 DEF HeapInv, OwnInv
  <2>3. \A s, q \in Requests : win'[s] # NoWindow /\ win'[s] = win'[q] => key'[s] = key'[q]
    BY <1>1, <1>3 DEF HeapInv, OwnInv
  <2>4. pc'[r] = "clock" BY <1>1 DEF HeapInv, TypeOK
  <2>5. \A s \in Requests : /\ win'[s] # NoWindow => pc'[s] \in {"clock", "count"}
                            /\ pc'[s] = "count" => win'[s] # NoWindow
    BY <1>3, <2>4 DEF HeapInv, OwnInv
  <2>q. QED BY <2>1, <2>2, <2>3, <2>5 DEF OwnInv
<1>5. TimeInv' BY <1>1 DEF HeapInv, TypeOK, TimeInv
<1>6. PassInv' BY <1>1 DEF HeapInv, PassInv, During
<1>q. QED BY <1>2, <1>4, <1>5, <1>6 DEF HeapInv

\* The clock that a request reads is of this tick.
LEMMA ReadClockHeap ==
  ASSUME HeapInv, NEW r \in Requests, ReadClock(r)
  PROVE  HeapInv'
<1>1. /\ pc[r] = "clock" /\ now' = [now EXCEPT ![r] = clock]
      /\ pc' = [pc EXCEPT ![r] = IF win[r] = NoWindow THEN "create" ELSE "count"]
      /\ UNCHANGED <<clock, windows, heap, key, win, passed>>
  BY DEF ReadClock, GoTo
<1>2. TypeOK' BY <1>1 DEF HeapInv, TypeOK
<1>3. OwnInv' BY <1>1 DEF HeapInv, TypeOK, OwnInv
<1>4. clock <= clock + MaxDelay BY Numbers DEF HeapInv, TypeOK
<1>5. TimeInv'
  <2>1. now'[r] = clock /\ \A s \in Requests \ {r} : now'[s] = now[s] /\ pc'[s] = pc[s]
    BY <1>1 DEF HeapInv, TypeOK
  <2>2. clock <= clock BY DEF HeapInv, TypeOK
  <2>q. QED BY <1>1, <1>4, <2>1, <2>2 DEF HeapInv, TimeInv
<1>6. PassInv' BY <1>1 DEF HeapInv, PassInv, During
<1>q. QED BY <1>2, <1>3, <1>5, <1>6 DEF HeapInv

\* The window that a request creates is of its own key and nobody else holds it.
LEMMA CreateHeap ==
  ASSUME HeapInv, NEW r \in Requests, Create(r)
  PROVE  HeapInv'
<1>0. PICK w \in Windows : Puts(r, w) BY CreateFacts
<1>1. /\ pc[r] = "create" /\ win[r] = NoWindow
      /\ ~Referenced(w, windows, win)
      /\ win' = [win EXCEPT ![r] = w] /\ windows' = [windows EXCEPT ![key[r]] = w]
      /\ pc' = [pc EXCEPT ![r] = "count"]
      /\ heap' \in [Windows -> Object] /\ heap'[w] = New(r)
      /\ \A v \in Windows \ {w} : heap'[v] \in {heap[v], Blank}
      /\ UNCHANGED <<clock, key, now, passed>>
  BY <1>0 DEF Puts
<1>2. key[r] \in Keys BY DEF HeapInv, TypeOK
<1>3. TypeOK' BY <1>1, <1>2 DEF HeapInv, TypeOK
<1>4. /\ win'[r] = w /\ \A s \in Requests \ {r} : win'[s] = win[s] /\ pc'[s] = pc[s]
      /\ windows'[key[r]] = w /\ \A k \in Keys \ {key[r]} : windows'[k] = windows[k]
      /\ pc'[r] = "count"
  BY <1>1, <1>2 DEF HeapInv, TypeOK
<1>5. (\A k \in Keys : windows[k] # w) /\ \A s \in Requests : win[s] # w BY <1>1 DEF Referenced
<1>6. OwnInv'
  <2>1. \A k, l \in Keys : windows'[k] # NoWindow /\ windows'[k] = windows'[l] => k = l
    BY <1>4, <1>5 DEF HeapInv, OwnInv
  <2>2. \A k \in Keys, s \in Requests : windows'[k] # NoWindow /\ windows'[k] = win'[s] => key'[s] = k
    BY <1>1, <1>4, <1>5 DEF HeapInv, OwnInv
  <2>3. \A s, q \in Requests : win'[s] # NoWindow /\ win'[s] = win'[q] => key'[s] = key'[q]
    BY <1>1, <1>4, <1>5 DEF HeapInv, OwnInv
  <2>4. w # NoWindow BY Numbers
  <2>5. \A s \in Requests : /\ win'[s] # NoWindow => pc'[s] \in {"clock", "count"}
                            /\ pc'[s] = "count" => win'[s] # NoWindow
    BY <1>4, <2>4 DEF HeapInv, OwnInv
  <2>q. QED BY <2>1, <2>2, <2>3, <2>5 DEF OwnInv
<1>7. TimeInv'
  <2>1. now[r] \in Nat /\ clock \in Nat /\ now[r] <= clock BY <1>1 DEF HeapInv, TypeOK, TimeInv
  <2>2. New(r).end <= clock + Window BY <2>1, Objects, Numbers
  <2>3. Blank.end <= clock + Window BY <2>1, Objects, Numbers
  <2>4. \A v \in Windows : heap[v].end <= clock + Window BY DEF HeapInv, TimeInv
  <2>5. \A v \in Windows : heap'[v].end <= clock + Window BY <1>1, <2>2, <2>3, <2>4
  <2>6. \A s \in Requests : pc'[s] \in {"create", "count"} => pc[s] \in {"create", "count"}
    BY <1>1, <1>4
  <2>q. QED BY <1>1, <2>5, <2>6 DEF HeapInv, TimeInv
<1>8. PassInv' BY <1>1 DEF HeapInv, PassInv, During
<1>q. QED BY <1>3, <1>6, <1>7, <1>8 DEF HeapInv

\* A count gives its window back, begins it no later than now, and numbers its pass.
LEMMA CountHeap ==
  ASSUME HeapInv, NEW r \in Requests, Count(r)
  PROVE  HeapInv'
<1>0. PICK w \in Windows, b \in Object, c \in Object : CountsIn(r, w, b, c) BY CountFacts
<1>1. /\ pc[r] = "count" /\ win[r] = w
      /\ b = IF now[r] > heap[w].end THEN New(r) ELSE heap[w]
      /\ c.end = b.end
      /\ win' = [win EXCEPT ![r] = NoWindow]
      /\ pc' = [pc EXCEPT ![r] = "idle"] /\ now' = [now EXCEPT ![r] = 0]
      /\ heap' \in [Windows -> Object]
      /\ heap'[w] \in {c, Blank}
      /\ \A v \in Windows \ {w} : heap'[v] \in {heap[v], Blank}
      /\ passed' = [passed EXCEPT ![key[r]] =
                      IF b.requests < Limit THEN @ \cup {NextPass(key[r])} ELSE @]
      /\ UNCHANGED <<clock, windows, key>>
  BY <1>0 DEF CountsIn
<1>2. key[r] \in Keys /\ passed \in [Keys -> SUBSET Pass] /\ clock \in Nat BY DEF HeapInv, TypeOK
<1>3. /\ win'[r] = NoWindow /\ \A s \in Requests \ {r} : win'[s] = win[s] /\ pc'[s] = pc[s] /\ now'[s] = now[s]
      /\ pc'[r] = "idle"
  BY <1>1 DEF HeapInv, TypeOK
<1>4. /\ \A k \in Keys \ {key[r]} : passed'[k] = passed[k]
      /\ passed'[key[r]] = passed[key[r]] \/ passed'[key[r]] = passed[key[r]] \cup {NextPass(key[r])}
      /\ passed' = [k \in Keys |-> passed'[k]]
  BY <1>1, <1>2
<1>5. ASSUME NEW k \in Keys
      PROVE  /\ passed'[k] \in SUBSET Pass /\ IsFiniteSet(passed'[k])
             /\ \A p \in passed'[k] : p.at <= clock
             /\ \A p \in passed'[k] : p.nth < Cardinality(During(k, p.at)')
  <2>1. CASE passed'[k] = passed[k]
    <3>1. \A t : During(k, t)' = During(k, t) BY <2>1 DEF During
    <3>q. QED BY <1>2, <2>1, <3>1 DEF HeapInv, PassInv, TimeInv
  <2>2. CASE passed'[k] = passed[k] \cup {NextPass(k)}
    <3>1. NextPass(k) \in Pass /\ NextPass(k).at = clock BY <2>2, PassAdded
    <3>2. IsFiniteSet(passed'[k]) BY <2>2, PassAdded
    <3>3. \A p \in passed'[k] : p.nth < Cardinality(During(k, p.at)') BY <2>2, PassAdded
    <3>4. \A p \in passed'[k] : p.at <= clock BY <1>2, <2>2, <3>1 DEF HeapInv, TimeInv
    <3>q. QED BY <1>2, <2>2, <3>1, <3>2, <3>3, <3>4
  <2>q. QED BY <1>4, <2>1, <2>2
<1>6. TypeOK'
  <2>1. passed' \in [Keys -> SUBSET Pass] BY <1>4, <1>5
  <2>q. QED BY <1>1, <2>1 DEF HeapInv, TypeOK
<1>7. OwnInv' BY <1>1, <1>3 DEF HeapInv, OwnInv
<1>8. TimeInv'
  <2>1. now[r] \in Nat /\ now[r] <= clock BY <1>1 DEF HeapInv, TypeOK, TimeInv
  <2>2. New(r).end <= clock + Window BY <1>2, <2>1, Objects, Numbers
  <2>3. Blank.end <= clock + Window BY <1>2, Objects, Numbers
  <2>4. \A v \in Windows : heap[v].end <= clock + Window BY DEF HeapInv, TimeInv
  <2>5. c.end <= clock + Window BY <1>1, <2>2, <2>4
  <2>6. \A v \in Windows : heap'[v].end <= clock + Window BY <1>1, <2>3, <2>4, <2>5
  <2>7. \A s \in Requests : pc'[s] \in {"create", "count"} => s # r BY <1>3
  <2>q. QED BY <1>1, <1>3, <1>5, <2>6, <2>7 DEF HeapInv, TimeInv
<1>9. PassInv' BY <1>5 DEF PassInv
<1>q. QED BY <1>6, <1>7, <1>8, <1>9 DEF HeapInv

\* Dropping windows leaves those that are held with their owners.
LEMMA CleanupHeap ==
  ASSUME HeapInv, Cleanup
  PROVE  HeapInv'
<1>1. /\ windows' \in [Keys -> Windows \cup {NoWindow}]
      /\ \A k \in Keys : windows'[k] = windows[k] \/ windows'[k] = NoWindow
      /\ heap' \in [Windows -> Object]
      /\ \A v \in Windows : heap'[v] \in {heap[v], Blank}
      /\ UNCHANGED <<clock, pc, key, now, win, passed>>
  BY CleanupFacts
<1>2. TypeOK' BY <1>1 DEF HeapInv, TypeOK
<1>3. OwnInv' BY <1>1 DEF HeapInv, OwnInv
<1>4. TimeInv'
  <2>1. Blank.end <= clock + Window BY Objects, Numbers DEF HeapInv, TypeOK
  <2>2. \A v \in Windows : heap'[v].end <= clock + Window BY <1>1, <2>1 DEF HeapInv, TimeInv
  <2>q. QED BY <1>1, <2>2 DEF HeapInv, TimeInv
<1>5. PassInv' BY <1>1 DEF HeapInv, PassInv, During
<1>q. QED BY <1>2, <1>3, <1>4, <1>5 DEF HeapInv

\* A tick makes no request later than MaxDelay, and forgets whole ticks of passes.
LEMMA TickHeap ==
  ASSUME HeapInv, Tick
  PROVE  HeapInv'
<1>1. /\ \A r \in Requests : pc[r] \in {"create", "count"} => clock < now[r] + MaxDelay
      /\ clock' = clock + 1
      /\ passed' = [k \in Keys |-> Since(k, clock + 1 - Window - MaxDelay)]
      /\ UNCHANGED <<windows, heap, pc, key, now, win>>
  BY DEF Tick
<1>2. clock \in Nat /\ clock' \in Nat BY <1>1 DEF HeapInv, TypeOK
<1>3. clock + 1 - Window - MaxDelay \in Int BY <1>2, Numbers
<1>4. ASSUME NEW k \in Keys
      PROVE  /\ IsFiniteSet(passed'[k]) /\ passed'[k] \in SUBSET passed[k]
             /\ \A p \in passed'[k] : p.nth < Cardinality(During(k, p.at)')
  <2>1. passed'[k] = Since(k, clock + 1 - Window - MaxDelay) BY <1>1
  <2>2. PICK c \in Int : c = clock + 1 - Window - MaxDelay BY <1>3
  <2>3. passed'[k] = Since(k, c) BY <2>1, <2>2
  <2>q. QED BY <2>3, PassDropped
<1>5. TypeOK'
  <2>1. passed' \in [Keys -> SUBSET Pass] BY <1>1, <1>4 DEF HeapInv, TypeOK
  <2>q. QED BY <1>1, <1>2, <2>1 DEF HeapInv, TypeOK
<1>6. OwnInv' BY <1>1 DEF HeapInv, OwnInv
<1>7. TimeInv'
  <2>1. \A w \in Windows : heap[w].end <= clock + Window /\ heap[w].end \in Nat BY Objects DEF HeapInv, TimeInv
  <2>2. \A w \in Windows : heap[w].end <= clock' + Window BY <1>1, <1>2, <2>1, Numbers
  <2>3. ASSUME NEW r \in Requests, pc[r] \in {"create", "count"}
        PROVE  now[r] <= clock' /\ clock' <= now[r] + MaxDelay
    <3>1. now[r] \in Nat /\ now[r] <= clock /\ clock < now[r] + MaxDelay
      BY <1>1, <2>3 DEF HeapInv, TypeOK, TimeInv
    <3>q. QED BY <1>1, <1>2, <3>1, Numbers
  <2>4. ASSUME NEW k \in Keys, NEW p \in passed'[k] PROVE p.at <= clock'
    <3>1. p \in passed[k] /\ p.at \in Nat /\ p.at <= clock BY <1>4 DEF HeapInv, TypeOK, TimeInv, Pass
    <3>q. QED BY <1>1, <1>2, <3>1
  <2>q. QED BY <1>1, <2>2, <2>3, <2>4 DEF TimeInv
<1>8. PassInv' BY <1>4 DEF PassInv
<1>q. QED BY <1>5, <1>6, <1>7, <1>8 DEF HeapInv

-----------------------------------------------------------------------------
(* What a window has counted. *)

\* A step that counts nothing.
LEMMA CountedKept ==
  ASSUME HeapInv, CountedInv, HeapInv', clock' = clock, passed' = passed,
         NEW k \in Keys, NEW w \in Windows, heap'[w] \in {heap[w], Blank}, Of(w, k)' => Of(w, k)
  PROVE  (Of(w, k) /\ heap[w].end + MaxDelay >= clock =>
            heap[w].requests <= Cardinality(Since(k, heap[w].end - Window)))'
<1>1. PICK u : u = heap'[w].end - Window OBVIOUS
<1>2. Since(k, heap[w].end - Window)' = Since(k, u)' BY <1>1
<1>3. Since(k, u)' = Since(k, u) BY DEF Since
<1>4. Cardinality(Since(k, u)) \in Nat BY SinceFacts
<1>5. CASE heap'[w] = Blank
  <2>1. heap'[w].requests = 0 BY <1>5, Objects
  <2>q. QED BY <1>2, <1>3, <1>4, <2>1
<1>6. CASE heap'[w] = heap[w] BY <1>1, <1>2, <1>3, <1>6 DEF CountedInv
<1>q. QED BY <1>5, <1>6

\* What a window counts passes, so that a count is never ahead of the passes.
LEMMA CountCounted ==
  ASSUME HeapInv, CountedInv, HeapInv', NEW r \in Requests, Count(r)
  PROVE  CountedInv'
<1>0. PICK w \in Windows, b \in Object, c \in Object : CountsIn(r, w, b, c) BY CountFacts
<1>1. /\ pc[r] = "count" /\ win[r] = w
      /\ b = IF now[r] > heap[w].end THEN New(r) ELSE heap[w]
      /\ c.end = b.end /\ c.requests = IF b.requests < Limit THEN b.requests + 1 ELSE b.requests
      /\ win' = [win EXCEPT ![r] = NoWindow]
      /\ heap'[w] \in {c, Blank}
      /\ \A v \in Windows \ {w} : heap'[v] \in {heap[v], Blank}
      /\ passed' = [passed EXCEPT ![key[r]] =
                      IF b.requests < Limit THEN @ \cup {NextPass(key[r])} ELSE @]
      /\ UNCHANGED <<clock, windows, key>>
  BY <1>0 DEF CountsIn
<1>2. key[r] \in Keys /\ passed \in [Keys -> SUBSET Pass] /\ clock \in Nat /\ now[r] \in Nat
  BY DEF HeapInv, TypeOK
<1>3. now[r] <= clock /\ clock <= now[r] + MaxDelay /\ heap[w].end <= clock + Window /\ heap[w].end \in Nat
  BY <1>1, Objects DEF HeapInv, TimeInv
<1>4. \A k \in Keys, v \in Windows : Of(v, k)' => Of(v, k)
  <2>1. win'[r] \notin Windows /\ \A s \in Requests \ {r} : win'[s] = win[s]
    BY <1>1, Numbers DEF HeapInv, TypeOK
  <2>q. QED BY <1>1, <2>1 DEF Of
<1>5. \A k \in Keys : Of(w, k) => key[r] = k
  <2>1. w # NoWindow BY Numbers
  <2>q. QED BY <1>1, <2>1 DEF Of, HeapInv, OwnInv
<1>6. ASSUME NEW k \in Keys, NEW u \in Int, u <= clock
      PROVE  /\ Cardinality(Since(k, u)) \in Nat /\ Cardinality(Since(k, u)') \in Nat
             /\ Cardinality(Since(k, u)') >= Cardinality(Since(k, u))
             /\ k = key[r] /\ b.requests < Limit => Cardinality(Since(k, u)') = Cardinality(Since(k, u)) + 1
  <2>1. Cardinality(Since(k, u)) \in Nat BY SinceFacts
  <2>2. CASE k = key[r] /\ b.requests < Limit
    <3>1. passed'[k] = passed[k] \cup {NextPass(k)} BY <1>1, <1>2, <2>2
    <3>2. Cardinality(Since(k, u)') = Cardinality(Since(k, u)) + 1 BY <1>6, <3>1, PassAdded
    <3>q. QED BY <2>1, <3>2
  <2>3. CASE ~(k = key[r] /\ b.requests < Limit)
    <3>1. passed'[k] = passed[k] BY <1>1, <1>2, <2>3
    <3>2. Since(k, u)' = Since(k, u) BY <3>1 DEF Since
    <3>q. QED BY <2>1, <2>3, <3>2
  <2>q. QED BY <2>2, <2>3
<1>7. ASSUME NEW k \in Keys, NEW v \in Windows, Of(v, k)', heap'[v].end + MaxDelay >= clock
      PROVE  heap'[v].requests <= Cardinality(Since(k, heap[v].end - Window)')
  <2>1. Of(v, k) BY <1>4, <1>7
  <2>2. heap'[v] \in Object /\ heap'[v].end <= clock + Window BY <1>1 DEF HeapInv, TypeOK, TimeInv
  <2>3. PICK u \in Int : u = heap'[v].end - Window BY <2>2, Numbers DEF Object
  <2>4. u <= clock BY <1>2, <2>2, <2>3, Numbers DEF Object
  <2>5. Since(k, heap[v].end - Window)' = Since(k, u)' BY <2>3
  <2>6. /\ Cardinality(Since(k, u)) \in Nat /\ Cardinality(Since(k, u)') \in Nat
        /\ Cardinality(Since(k, u)') >= Cardinality(Since(k, u))
    BY <1>6, <2>4
  <2>7. Blank.requests = 0 BY Objects
  <2>8. CASE heap'[v] = Blank BY <2>5, <2>6, <2>7, <2>8
  <2>9. CASE v # w /\ heap'[v] = heap[v]
    <3>1. heap[v].requests <= Cardinality(Since(k, u)) BY <1>7, <2>1, <2>3, <2>9 DEF CountedInv
    <3>2. heap[v].requests \in Nat BY Objects, Numbers
    <3>q. QED BY <2>5, <2>6, <2>9, <3>1, <3>2
  <2>10. CASE v = w /\ heap'[v] = c
    <3>1. k = key[r] BY <1>5, <2>1, <2>10
    <3>2. b.requests < Limit => Cardinality(Since(k, u)') = Cardinality(Since(k, u)) + 1
      BY <1>6, <2>4, <3>1
    <3>3. CASE now[r] > heap[w].end
      <4>1. b.requests = 0 BY <1>1, <3>3, Objects
      <4>2. c.requests = 1 BY <1>1, <4>1, Numbers
      <4>q. QED BY <2>5, <2>6, <2>10, <3>2, <4>1, <4>2, Numbers
    <3>4. CASE ~(now[r] > heap[w].end)
      <4>1. b = heap[w] BY <1>1, <3>4
      <4>2. heap[w].end + MaxDelay >= clock BY <1>2, <1>3, <3>4, Numbers
      <4>3. u = heap[w].end - Window BY <1>1, <2>3, <2>10, <4>1
      <4>4. b.requests <= Cardinality(Since(k, u)) /\ b.requests \in Nat
        BY <2>1, <2>10, <4>1, <4>2, <4>3, Objects, Numbers DEF CountedInv
      <4>q. QED BY <1>1, <2>5, <2>6, <2>10, <3>2, <4>4, Numbers
    <3>q. QED BY <3>3, <3>4
  <2>q. QED BY <1>1, <2>8, <2>9, <2>10
<1>q. QED BY <1>1, <1>7 DEF CountedInv

\* What a tick forgets passed before any window began that a request may still be in
\* time for.
LEMMA TickCounted ==
  ASSUME HeapInv, CountedInv, HeapInv', Tick
  PROVE  CountedInv'
<1>1. /\ clock' = clock + 1
      /\ passed' = [k \in Keys |-> Since(k, clock + 1 - Window - MaxDelay)]
      /\ UNCHANGED <<windows, heap, pc, key, now, win>>
  BY DEF Tick
<1>2. clock \in Nat BY DEF HeapInv, TypeOK
<1>3. PICK e \in Int : e = clock + 1 - Window - MaxDelay BY <1>2, Numbers
<1>4. ASSUME NEW k \in Keys, NEW w \in Windows, Of(w, k)', heap[w].end + MaxDelay >= clock + 1
      PROVE  heap[w].requests <= Cardinality(Since(k, heap[w].end - Window)')
  <2>1. Of(w, k) BY <1>1, <1>4 DEF Of
  <2>2. heap[w].end \in Nat BY Objects
  <2>3. PICK u \in Int : u = heap[w].end - Window BY <2>2, Numbers
  <2>4. u >= e BY <1>2, <1>3, <1>4, <2>2, <2>3, Numbers
  <2>5. passed'[k] = Since(k, e) BY <1>1, <1>3
  <2>6. Since(k, u)' = Since(k, u) BY <2>4, <2>5, PassDropped
  <2>7. Since(k, heap[w].end - Window)' = Since(k, u)' BY <1>1, <2>3
  <2>8. heap[w].end + MaxDelay >= clock BY <1>2, <1>4, <2>2, Numbers
  <2>q. QED BY <2>1, <2>3, <2>6, <2>7, <2>8 DEF CountedInv
<1>5. ASSUME NEW k \in Keys, NEW w \in Windows
      PROVE  (Of(w, k) /\ heap[w].end + MaxDelay >= clock =>
                heap[w].requests <= Cardinality(Since(k, heap[w].end - Window)))'
  BY <1>1, <1>4
<1>q. QED BY <1>5 DEF CountedInv

\* Which requests hold the window of the map, and which have counted in it.
LEMMA CreateOthers ==
  ASSUME HeapInv, NEW r \in Requests, Create(r)
  PROVE  /\ \A k \in Keys, v \in Windows : Of(v, k)' => Of(v, k) \/ v = win'[r]
         /\ win'[r] \in Windows /\ heap'[win'[r]] = New(r) /\ pc'[r] = "count" /\ now'[r] = now[r]
         /\ windows'[key[r]] = win'[r] /\ key' = key
         /\ \A k \in Keys \ {key[r]} :
              /\ windows'[k] = windows[k]
              /\ windows[k] # NoWindow => heap'[windows[k]] = heap[windows[k]]
         /\ \A s \in Requests \ {r} :
              pc'[s] = pc[s] /\ now'[s] = now[s] /\ win'[s] = win[s] /\ win[s] # win'[r]
         /\ \A s \in Requests \ {r} : win[s] # NoWindow => heap'[win[s]] = heap[win[s]]
<1>0. PICK w \in Windows : Puts(r, w) BY CreateFacts
<1>1. /\ ~Referenced(w, windows, win)
      /\ win' = [win EXCEPT ![r] = w] /\ windows' = [windows EXCEPT ![key[r]] = w]
      /\ pc' = [pc EXCEPT ![r] = "count"]
      /\ heap'[w] = New(r)
      /\ \A v \in Windows \ {w} : Referenced(v, windows', win') => heap'[v] = heap[v]
      /\ UNCHANGED <<clock, key, now, passed>>
  BY <1>0 DEF Puts
<1>2. key[r] \in Keys BY DEF HeapInv, TypeOK
<1>3. /\ win'[r] = w /\ \A s \in Requests \ {r} : win'[s] = win[s] /\ pc'[s] = pc[s]
      /\ windows'[key[r]] = w /\ \A k \in Keys \ {key[r]} : windows'[k] = windows[k]
      /\ pc'[r] = "count"
  BY <1>1, <1>2 DEF HeapInv, TypeOK
<1>4. (\A k \in Keys : windows[k] # w) /\ \A s \in Requests : win[s] # w BY <1>1 DEF Referenced
<1>5. ASSUME NEW k \in Keys \ {key[r]}, windows[k] # NoWindow
      PROVE  heap'[windows[k]] = heap[windows[k]]
  <2>1. windows[k] \in Windows \ {w} BY <1>4, <1>5 DEF HeapInv, TypeOK
  <2>2. Referenced(windows[k], windows', win') BY <1>3 DEF Referenced
  <2>q. QED BY <1>1, <2>1, <2>2
<1>6. \A k \in Keys, v \in Windows : Of(v, k)' => Of(v, k) \/ v = w BY <1>1, <1>3 DEF Of
<1>7. ASSUME NEW s \in Requests \ {r}, win[s] # NoWindow PROVE heap'[win[s]] = heap[win[s]]
  <2>1. win[s] \in Windows \ {w} BY <1>4, <1>7 DEF HeapInv, TypeOK
  <2>2. Referenced(win[s], windows', win') BY <1>3 DEF Referenced
  <2>q. QED BY <1>1, <2>1, <2>2
<1>q. QED BY <1>1, <1>3, <1>4, <1>5, <1>6, <1>7

\* CountedInv is kept by every step.
LEMMA CountedStep ==
  ASSUME HeapInv, CountedInv, HeapInv', [Next]_vars
  PROVE  CountedInv'
<1>1. ASSUME clock' = clock, passed' = passed,
             \A w \in Windows : heap'[w] \in {heap[w], Blank},
             \A k \in Keys, w \in Windows : Of(w, k)' => Of(w, k)
      PROVE  CountedInv'
  <2>1. ASSUME NEW k \in Keys, NEW w \in Windows
        PROVE (Of(w, k) /\ heap[w].end + MaxDelay >= clock =>
                 heap[w].requests <= Cardinality(Since(k, heap[w].end - Window)))'
    <3>1. heap'[w] \in {heap[w], Blank} /\ (Of(w, k)' => Of(w, k)) BY <1>1
    <3>q. QED BY <1>1, <3>1, CountedKept
  <2>q. QED BY <2>1 DEF CountedInv
<1>2. ASSUME NEW r \in Requests, NEW k \in Keys, Arrive(r, k) PROVE CountedInv'
  <2>1. /\ win[r] = NoWindow /\ key' = [key EXCEPT ![r] = k]
        /\ UNCHANGED <<clock, windows, heap, win, passed>>
    BY <1>2 DEF Arrive, HeapInv, OwnInv
  <2>2. \A l \in Keys, w \in Windows : Of(w, l)' => Of(w, l) BY <2>1, Numbers DEF Of, HeapInv, TypeOK
  <2>q. QED BY <1>1, <2>1, <2>2
<1>3. ASSUME NEW r \in Requests, Lookup(r) PROVE CountedInv'
  <2>1. /\ key[r] \in Keys /\ win' = [win EXCEPT ![r] = windows[key[r]]]
        /\ UNCHANGED <<clock, windows, heap, key, passed>>
    BY <1>3 DEF Lookup, HeapInv, TypeOK
  <2>2. \A l \in Keys, w \in Windows : Of(w, l)' => Of(w, l) BY <2>1 DEF Of, HeapInv, TypeOK
  <2>q. QED BY <1>1, <2>1, <2>2
<1>4. ASSUME NEW r \in Requests, ReadClock(r) PROVE CountedInv'
  <2>1. UNCHANGED <<clock, windows, heap, key, win, passed>> BY <1>4 DEF ReadClock
  <2>q. QED BY <1>1, <2>1 DEF Of
<1>5. ASSUME NEW r \in Requests, Create(r) PROVE CountedInv'
  <2>1. clock' = clock /\ passed' = passed BY <1>5 DEF Create
  <2>2. \A w \in Windows : heap'[w] \in {heap[w], Blank} \/ w = win'[r]
    <3>0. PICK w \in Windows : Puts(r, w) BY <1>5, CreateFacts
    <3>1. /\ win' = [win EXCEPT ![r] = w] /\ \A v \in Windows \ {w} : heap'[v] \in {heap[v], Blank}
      BY <3>0 DEF Puts
    <3>q. QED BY <3>1 DEF HeapInv, TypeOK
  <2>3. ASSUME NEW k \in Keys, NEW w \in Windows
        PROVE (Of(w, k) /\ heap[w].end + MaxDelay >= clock =>
                 heap[w].requests <= Cardinality(Since(k, heap[w].end - Window)))'
    <3>1. CASE w = win'[r]
      <4>1. heap'[w].requests = 0 BY <1>5, <3>1, CreateOthers, Objects
      <4>2. PICK u : u = heap'[w].end - Window OBVIOUS
      <4>3. Since(k, u)' = Since(k, u) BY <2>1 DEF Since
      <4>4. Cardinality(Since(k, u)) \in Nat BY SinceFacts
      <4>q. QED BY <4>1, <4>2, <4>3, <4>4
    <3>2. CASE w # win'[r]
      <4>1. heap'[w] \in {heap[w], Blank} /\ (Of(w, k)' => Of(w, k)) BY <1>5, <2>2, <3>2, CreateOthers
      <4>q. QED BY <2>1, <4>1, CountedKept
    <3>q. QED BY <3>1, <3>2
  <2>q. QED BY <2>3 DEF CountedInv
<1>6. ASSUME Cleanup PROVE CountedInv'
  <2>1. /\ \A k \in Keys : windows'[k] \in {windows[k], NoWindow}
        /\ \A v \in Windows : heap'[v] \in {heap[v], Blank}
        /\ UNCHANGED <<clock, pc, key, now, win, passed>>
    BY <1>6, CleanupFacts
  <2>2. \A l \in Keys, w \in Windows : Of(w, l)' => Of(w, l) BY <2>1, Numbers DEF Of
  <2>q. QED BY <1>1, <2>1, <2>2
<1>7. CASE UNCHANGED vars
  <2>1. UNCHANGED <<clock, windows, heap, key, win, passed>> BY <1>7 DEF vars
  <2>q. QED BY <1>1, <2>1 DEF Of
<1>q. QED BY <1>2, <1>3, <1>4, <1>5, <1>6, <1>7, CountCounted, TickCounted DEF Next, Allow

\* A window of the map keeps the request that counts in it first, until that has
\* counted.
LEMMA FirstStep ==
  ASSUME HeapInv, FirstInv, HeapInv', [Next]_vars
  PROVE  FirstInv'
<1>1. ASSUME UNCHANGED <<windows, heap>>,
             \A s \in Requests : pc[s] = "count" => pc'[s] = "count" /\ win'[s] = win[s] /\ now'[s] = now[s]
      PROVE  FirstInv'
  BY <1>1 DEF FirstInv
<1>2. ASSUME NEW r \in Requests, NEW k \in Keys, Arrive(r, k) PROVE FirstInv'
  <2>1. /\ UNCHANGED <<windows, heap, now, win>> /\ pc[r] # "count"
        /\ \A s \in Requests \ {r} : pc'[s] = pc[s]
    BY <1>2 DEF Arrive, GoTo, HeapInv, TypeOK
  <2>q. QED BY <1>1, <2>1
<1>3. ASSUME NEW r \in Requests, Lookup(r) PROVE FirstInv'
  <2>1. /\ UNCHANGED <<windows, heap, now>> /\ pc[r] # "count"
        /\ \A s \in Requests \ {r} : pc'[s] = pc[s] /\ win'[s] = win[s]
    BY <1>3 DEF Lookup, GoTo, HeapInv, TypeOK
  <2>q. QED BY <1>1, <2>1
<1>4. ASSUME NEW r \in Requests, ReadClock(r) PROVE FirstInv'
  <2>1. /\ UNCHANGED <<windows, heap, win>> /\ pc[r] # "count"
        /\ \A s \in Requests \ {r} : pc'[s] = pc[s] /\ now'[s] = now[s]
    BY <1>4 DEF ReadClock, GoTo, HeapInv, TypeOK
  <2>q. QED BY <1>1, <2>1
<1>5. ASSUME NEW r \in Requests, Create(r) PROVE FirstInv'
  <2>1. /\ pc[r] = "create" /\ pc'[r] = "count" /\ now'[r] = now[r]
        /\ windows'[key[r]] = win'[r] /\ heap'[win'[r]].end = now[r] + Window
    BY <1>5, CreateOthers, Objects DEF Create
  <2>2. ASSUME NEW k \in Keys, windows'[k] # NoWindow
        PROVE  \/ heap'[windows'[k]].requests > 0
               \/ \E s \in Requests : /\ pc'[s] = "count" /\ win'[s] = windows'[k]
                                      /\ heap'[windows'[k]].end = now'[s] + Window
    <3>1. CASE k = key[r] BY <2>1, <3>1
    <3>2. CASE k # key[r]
      <4>1. windows'[k] = windows[k] /\ heap'[windows[k]] = heap[windows[k]]
        BY <1>5, <2>2, <3>2, CreateOthers
      <4>2. \A s \in Requests : pc[s] = "count" => pc'[s] = "count" /\ win'[s] = win[s] /\ now'[s] = now[s]
        BY <1>5, <2>1, CreateOthers
      <4>q. QED BY <2>2, <4>1, <4>2 DEF FirstInv
    <3>q. QED BY <3>1, <3>2
  <2>q. QED BY <2>2 DEF FirstInv
<1>6. ASSUME NEW r \in Requests, Count(r) PROVE FirstInv'
  <2>0. PICK w \in Windows, b \in Object, c \in Object : CountsIn(r, w, b, c) BY <1>6, CountFacts
  <2>1. /\ pc[r] = "count" /\ win[r] = w
        /\ b = IF now[r] > heap[w].end THEN New(r) ELSE heap[w]
        /\ c.end = b.end /\ c.requests = IF b.requests < Limit THEN b.requests + 1 ELSE b.requests
        /\ win' = [win EXCEPT ![r] = NoWindow]
        /\ pc' = [pc EXCEPT ![r] = "idle"] /\ now' = [now EXCEPT ![r] = 0]
        /\ heap' \in [Windows -> Object]
        /\ heap'[w] \in {c, Blank}
        /\ Referenced(w, windows, win') => heap'[w] = c
        /\ \A v \in Windows \ {w} : heap'[v] \in {heap[v], Blank}
        /\ \A v \in Windows \ {w} : Referenced(v, windows, win') => heap'[v] = heap[v]
        /\ passed' = [passed EXCEPT ![key[r]] =
                        IF b.requests < Limit THEN @ \cup {NextPass(key[r])} ELSE @]
        /\ UNCHANGED <<clock, windows, key>>
    BY <2>0 DEF CountsIn
  <2>2. c.requests > 0
    <3>1. b.requests \in Nat BY Numbers DEF Object
    <3>q. QED BY <2>1, <3>1, Numbers
  <2>3. \A s \in Requests \ {r} : pc'[s] = pc[s] /\ win'[s] = win[s] /\ now'[s] = now[s]
    BY <2>1 DEF HeapInv, TypeOK
  <2>4. ASSUME NEW k \in Keys, windows'[k] # NoWindow
        PROVE  \/ heap'[windows'[k]].requests > 0
               \/ \E s \in Requests : /\ pc'[s] = "count" /\ win'[s] = windows'[k]
                                      /\ heap'[windows'[k]].end = now'[s] + Window
    <3>1. PICK v \in Windows : v = windows[k] /\ v = windows'[k] BY <2>1, <2>4 DEF HeapInv, TypeOK
    <3>2. Referenced(v, windows, win') BY <3>1 DEF Referenced
    <3>3. CASE v = w BY <2>1, <2>2, <3>1, <3>2, <3>3
    <3>4. CASE v # w
      <4>1. heap'[v] = heap[v] BY <2>1, <3>2, <3>4
      <4>2. \/ heap[v].requests > 0
            \/ \E s \in Requests : pc[s] = "count" /\ win[s] = v /\ heap[v].end = now[s] + Window
        BY <2>1, <2>4, <3>1 DEF FirstInv
      <4>q. QED BY <2>1, <2>3, <3>1, <3>4, <4>1, <4>2
    <3>q. QED BY <3>3, <3>4
  <2>q. QED BY <2>4 DEF FirstInv
<1>7. ASSUME Cleanup PROVE FirstInv'
  <2>1. /\ \A k \in Keys : windows'[k] \in {windows[k], NoWindow}
        /\ \A v \in Windows : Referenced(v, windows', win) => heap'[v] = heap[v]
        /\ UNCHANGED <<clock, pc, key, now, win, passed>>
    BY <1>7, CleanupFacts
  <2>2. ASSUME NEW k \in Keys, windows'[k] # NoWindow
        PROVE  windows'[k] = windows[k] /\ heap'[windows[k]] = heap[windows[k]]
    <3>1. windows'[k] = windows[k] /\ windows[k] \in Windows BY <2>1, <2>2 DEF HeapInv, TypeOK
    <3>2. Referenced(windows[k], windows', win) BY <3>1 DEF Referenced
    <3>q. QED BY <2>1, <3>1, <3>2
  <2>q. QED BY <2>1, <2>2 DEF FirstInv
<1>8. ASSUME Tick PROVE FirstInv' BY <1>1, <1>8 DEF Tick
<1>9. CASE UNCHANGED vars BY <1>1, <1>9 DEF vars
<1>q. QED BY <1>2, <1>3, <1>4, <1>5, <1>6, <1>7, <1>8, <1>9 DEF Next, Allow

\* A request that has just looked at the map, or counted, is a witness for every key.
LEMMA CurrentStep ==
  ASSUME HeapInv, CurrentInv, HeapInv', [Next]_vars
  PROVE  CurrentInv'
<1>1. ASSUME NEW r \in Requests,
             \A k \in Keys : windows'[k] # NoWindow => ~Stale(r, k)' /\ ~Left(r, k)'
      PROVE  CurrentInv'
  BY <1>1 DEF CurrentInv
<1>2. ASSUME \A k \in Keys : windows'[k] \in {windows[k], NoWindow}, UNCHANGED <<key, win>>,
             \A s \in Requests, k \in Keys : Stale(s, k)' => Stale(s, k)
      PROVE  CurrentInv'
  BY <1>2 DEF CurrentInv, Left
<1>3. ASSUME NEW r \in Requests, NEW k \in Keys, Arrive(r, k) PROVE CurrentInv'
  <2>1. pc'[r] = "lookup" /\ win'[r] = NoWindow BY <1>3 DEF Arrive, GoTo, HeapInv, OwnInv, TypeOK
  <2>q. QED BY <1>1, <2>1 DEF Stale, Left
<1>4. ASSUME NEW r \in Requests, Lookup(r) PROVE CurrentInv'
  <2>1. win'[r] = windows[key[r]] /\ windows' = windows /\ key' = key BY <1>4 DEF Lookup, HeapInv, TypeOK
  <2>q. QED BY <1>1, <2>1 DEF Stale, Left
<1>5. ASSUME NEW r \in Requests, ReadClock(r) PROVE CurrentInv'
  <2>1. UNCHANGED <<windows, key, win>> /\ pc[r] = "clock" /\ \A s \in Requests \ {r} : pc'[s] = pc[s]
    BY <1>5 DEF ReadClock, GoTo, HeapInv, TypeOK
  <2>2. \A s \in Requests, k \in Keys : Stale(s, k)' => Stale(s, k) BY <2>1 DEF Stale
  <2>q. QED BY <1>2, <2>1, <2>2
<1>6. ASSUME NEW r \in Requests, Create(r) PROVE CurrentInv'
  <2>1. pc'[r] = "count" /\ win'[r] \in Windows /\ windows'[key[r]] = win'[r] /\ key' = key
    BY <1>6, CreateOthers
  <2>q. QED BY <1>1, <2>1 DEF Stale, Left
<1>7. ASSUME NEW r \in Requests, Count(r) PROVE CurrentInv'
  <2>1. pc'[r] = "idle" /\ win'[r] = NoWindow BY <1>7 DEF Count, GoTo, HeapInv, TypeOK
  <2>q. QED BY <1>1, <2>1 DEF Stale, Left
<1>8. ASSUME Cleanup PROVE CurrentInv'
  <2>1. (\A k \in Keys : windows'[k] \in {windows[k], NoWindow}) /\ UNCHANGED <<pc, key, win>>
    BY <1>8, CleanupFacts
  <2>2. \A s \in Requests, k \in Keys : Stale(s, k)' => Stale(s, k) BY <2>1 DEF Stale
  <2>q. QED BY <1>2, <2>1, <2>2
<1>9. CASE Tick \/ UNCHANGED vars
  <2>1. UNCHANGED <<windows, pc, key, win>> BY <1>9 DEF Tick, vars
  <2>2. \A s \in Requests, k \in Keys : Stale(s, k)' => Stale(s, k) BY <2>1 DEF Stale
  <2>q. QED BY <1>2, <2>1, <2>2
<1>q. QED BY <1>3, <1>4, <1>5, <1>6, <1>7, <1>8, <1>9 DEF Next, Allow

-----------------------------------------------------------------------------
(* The invariant, and who is refused. *)

LimiterInv == HeapInv /\ CountedInv /\ FirstInv /\ CurrentInv

\* The initial state satisfies the invariant.
LEMMA InitLimiter == Init => LimiterInv
<1> SUFFICES ASSUME Init PROVE LimiterInv OBVIOUS
<1>1. Blank \in Object /\ Blank.end = 0 /\ Blank.requests = 0 BY Numbers DEF Blank, Object
<1>2. TypeOK BY <1>1 DEF Init, TypeOK
<1>3. OwnInv BY DEF Init, OwnInv
<1>4. TimeInv BY <1>1, Numbers DEF Init, TimeInv
<1>5. PassInv BY FS_EmptySet DEF Init, PassInv
<1>6. HeapInv BY <1>2, <1>3, <1>4, <1>5 DEF HeapInv
<1>7. CountedInv
  <2>1. \A w \in Windows : heap[w].requests = 0 BY <1>1 DEF Init
  <2>2. \A k \in Keys : \A u : Cardinality(Since(k, u)) \in Nat BY <1>6, SinceFacts
  <2>q. QED BY <2>1, <2>2 DEF CountedInv
<1>8. FirstInv /\ CurrentInv BY DEF Init, FirstInv, CurrentInv
<1>q. QED BY <1>6, <1>7, <1>8 DEF LimiterInv

\* HeapInv is kept by every step.
LEMMA HeapStep ==
  ASSUME HeapInv, [Next]_vars
  PROVE  HeapInv'
<1>1. CASE UNCHANGED vars
  BY <1>1 DEF vars, HeapInv, TypeOK, OwnInv, TimeInv, PassInv, During
<1>q. QED
  BY <1>1, ArriveHeap, LookupHeap, ReadClockHeap, CreateHeap, CountHeap, CleanupHeap, TickHeap DEF Next, Allow

\* The invariant is kept by every step.
LEMMA LimiterStep ==
  ASSUME LimiterInv, [Next]_vars
  PROVE  LimiterInv'
<1>1. HeapInv /\ CountedInv /\ FirstInv /\ CurrentInv BY DEF LimiterInv
<1>2. HeapInv' BY <1>1, HeapStep
<1>3. CountedInv' BY <1>1, <1>2, CountedStep
<1>4. FirstInv' BY <1>1, <1>2, FirstStep
<1>5. CurrentInv' BY <1>1, <1>2, CurrentStep
<1>q. QED BY <1>2, <1>3, <1>4, <1>5 DEF LimiterInv

\* Windows belong to one key and were never ahead of what passed: the invariant that
\* the other theorems rest on, kept by Lookup, Create, Count, cleanup and the clock.
THEOREM LimiterInvariant == Spec => []LimiterInv
<1>1. LimiterInv /\ [Next]_vars => LimiterInv' BY LimiterStep
<1>q. QED BY <1>1, InitLimiter, PTL DEF Spec

\* A window that refuses has counted the limit, and each of those passes was recent.
LEMMA RefuseStep ==
  ASSUME LimiterInv, NEW r \in Requests, Count(r), passed' = passed
  PROVE  Cardinality(Since(key[r], clock - Window - MaxDelay)) >= Limit
<1>0. HeapInv /\ CountedInv BY DEF LimiterInv
<1>1. PICK w \in Windows, b \in Object, c \in Object : CountsIn(r, w, b, c) BY <1>0, CountFacts
<1>2. /\ pc[r] = "count" /\ win[r] = w
      /\ b = IF now[r] > heap[w].end THEN New(r) ELSE heap[w]
      /\ passed' = [passed EXCEPT ![key[r]] =
                      IF b.requests < Limit THEN @ \cup {NextPass(key[r])} ELSE @]
  BY <1>1 DEF CountsIn
<1>3. PICK k \in Keys : k = key[r] BY <1>0 DEF HeapInv, TypeOK
<1>4. clock \in Nat /\ now[r] \in Nat /\ clock <= now[r] + MaxDelay /\ heap[w].end \in Nat /\ heap[w].requests \in Nat
  BY <1>0, <1>2, Objects, Numbers DEF HeapInv, TypeOK, TimeInv
<1>5. b.requests \in Nat /\ ~(b.requests < Limit)
  <2>1. ASSUME b.requests < Limit PROVE FALSE
    <3>1. passed'[k] = passed[k] \cup {NextPass(k)} BY <1>0, <1>2, <1>3, <2>1 DEF HeapInv, TypeOK
    <3>2. NextPass(k) \notin passed[k] BY <1>0, <3>1, PassAdded
    <3>q. QED BY <3>1, <3>2
  <2>q. QED BY <2>1, Numbers DEF Object
<1>6. ~(now[r] > heap[w].end) BY <1>0, <1>2, <1>5, Objects, Numbers
<1>7. heap[w].requests >= Limit /\ heap[w].end + MaxDelay >= clock BY <1>2, <1>4, <1>5, <1>6, Numbers
<1>8. heap[w].requests <= Cardinality(Since(k, heap[w].end - Window))
  BY <1>0, <1>2, <1>3, <1>7 DEF CountedInv, Of
<1>9. Since(k, heap[w].end - Window) \subseteq Since(k, clock - Window - MaxDelay)
  <2>1. heap[w].end - Window >= clock - Window - MaxDelay BY <1>4, <1>7, Numbers
  <2>2. \A p \in passed[k] : p.at \in Nat BY <1>0 DEF HeapInv, TypeOK, Pass
  <2>q. QED BY <1>4, <2>1, <2>2, Numbers DEF Since
<1>10. Cardinality(Since(k, heap[w].end - Window)) <= Cardinality(Since(k, clock - Window - MaxDelay))
  BY <1>0, <1>9, SinceFacts, FS_Subset
<1>11. /\ Cardinality(Since(k, heap[w].end - Window)) \in Nat
       /\ Cardinality(Since(k, clock - Window - MaxDelay)) \in Nat
  BY <1>0, SinceFacts
<1>q. QED BY <1>3, <1>4, <1>7, <1>8, <1>10, <1>11, Numbers

\* LocalLimiter.Allow refuses a request only if the limit has passed since a window began
\* that had not ended when it came.
THEOREM RefusedWhenFullHolds == Spec => RefusedWhenFull
<1>1. ASSUME LimiterInv, [Next]_vars
      PROVE  [\A r \in Requests : Count(r) /\ passed' = passed =>
                Cardinality(Since(key[r], clock - Window - MaxDelay)) >= Limit]_vars
  BY <1>1, RefuseStep
<1>q. QED BY <1>1, LimiterInvariant, PTL DEF Spec, RefusedWhenFull

-----------------------------------------------------------------------------
(* What may still pass in windows that are not in the map any more: one pass for *)
(* each request that holds one, or what is left of the window, whichever is less. *)

\* Held(l, f): the windows f[r] of the requests r of l; Holders(l, f, A): those that hold none of A.
Held(l, f) == {f[r] : r \in l}
Holders(l, f, A) == {r \in l : f[r] \notin A}

\* An object that does not end before Near ticks have passed after u is not begun anew in them.
Late(object, u) == object.end >= u + Window - MaxDelay

\* The places that are left in the windows A: a late one lasts, another may be begun anew.
Places(object, u) ==
  {j \in 1..(2 * Limit) :
     IF Late(object, u) THEN object.requests < j /\ j <= Limit
                        ELSE j <= Limit \/ Limit + object.requests < j}
Room(h, A, u) == {x \in A \X (1..(2 * Limit)) : x[2] \in Places(h[x[1]], u)}

Fits(h, f, l, u, n) == \E A \in SUBSET Held(l, f) :
  n + Cardinality(Holders(l, f, A)) + Cardinality(Room(h, A, u)) <= 2 * (Many * Limit)

\* The sets that a budget counts are finite.
LEMMA Sizes ==
  ASSUME NEW l \in SUBSET Requests, NEW f, NEW A \in SUBSET Held(l, f), NEW h, NEW u
  PROVE  /\ IsFiniteSet(Holders(l, f, A)) /\ Cardinality(Holders(l, f, A)) \in Nat
         /\ IsFiniteSet(Room(h, A, u)) /\ Cardinality(Room(h, A, u)) \in Nat
<1>1. IsFiniteSet(l) BY Numbers, FS_Subset
<1>2. IsFiniteSet(Holders(l, f, A)) BY <1>1, FS_Subset DEF Holders
<1>3. IsFiniteSet(Held(l, f))
  <2>1. PICK g : g = [r \in l |-> f[r]] OBVIOUS
  <2>2. g \in Surjection(l, Held(l, f)) BY <2>1 DEF Surjection, Held
  <2>q. QED BY <1>1, <2>2, FS_Surjection
<1>4. IsFiniteSet(A) BY <1>3, FS_Subset
<1>5. 2 * Limit \in Int BY Numbers
<1>6. IsFiniteSet(1..(2 * Limit)) BY <1>5, FS_Interval
<1>7. IsFiniteSet(A \X (1..(2 * Limit))) BY <1>4, <1>6, FS_Product
<1>8. IsFiniteSet(Room(h, A, u)) BY <1>7, FS_Subset DEF Room
<1>q. QED BY <1>2, <1>8, FS_CardinalityType

\* The places of one window.
LEMMA PlacesBound ==
  ASSUME NEW object \in Object, NEW u \in Int
  PROVE  /\ IsFiniteSet(Places(object, u)) /\ Cardinality(Places(object, u)) \in Nat
         /\ Cardinality(Places(object, u)) <=
              IF Late(object, u) THEN Limit - object.requests ELSE 2 * Limit - object.requests
<1>1. object.requests \in Nat /\ object.requests <= Limit /\ Limit \in Nat BY Numbers DEF Object
<1>2. PICK q \in Nat : q = object.requests BY <1>1
<1>3. CASE Late(object, u)
  <2>1. Places(object, u) = (q + 1)..Limit BY <1>1, <1>2, <1>3 DEF Places
  <2>2. IsFiniteSet((q + 1)..Limit) /\ Cardinality((q + 1)..Limit) = IF q + 1 > Limit THEN 0 ELSE Limit - (q + 1) + 1
    <3>1. q + 1 \in Int /\ Limit \in Int BY <1>1
    <3>q. QED BY <3>1, FS_Interval
  <2>q. QED BY <1>1, <1>2, <1>3, <2>1, <2>2
<1>4. CASE ~Late(object, u)
  <2>1. Places(object, u) = (1..Limit) \cup ((Limit + q + 1)..(2 * Limit))
    BY <1>1, <1>2, <1>4 DEF Places
  <2>2. IsFiniteSet(1..Limit) /\ Cardinality(1..Limit) = Limit
    <3>1. 1 \in Int /\ Limit \in Int /\ ~(1 > Limit) BY <1>1, Numbers
    <3>2. IsFiniteSet(1..Limit) /\ Cardinality(1..Limit) = IF 1 > Limit THEN 0 ELSE Limit - 1 + 1
      BY <3>1, FS_Interval
    <3>q. QED BY <1>1, <3>1, <3>2
  <2>3. /\ IsFiniteSet((Limit + q + 1)..(2 * Limit))
        /\ Cardinality((Limit + q + 1)..(2 * Limit)) = Limit - q
    <3>1. PICK a \in Int, b \in Int : a = Limit + q + 1 /\ b = 2 * Limit BY <1>1
    <3>2. IsFiniteSet(a..b) /\ Cardinality(a..b) = IF a > b THEN 0 ELSE b - a + 1 BY FS_Interval
    <3>q. QED BY <1>1, <1>2, <3>1, <3>2, SMTT(60)
  <2>4. PICK a, b : a = 1..Limit /\ b = (Limit + q + 1)..(2 * Limit) OBVIOUS
  <2>5. a \cap b = {} BY <1>1, <2>4
  <2>6. IsFiniteSet(a \cup b) /\ Cardinality(a \cup b) = Cardinality(a) + Cardinality(b) - Cardinality(a \cap b)
    BY <2>2, <2>3, <2>4, FS_Union
  <2>7. Cardinality(a \cap b) = 0 BY <2>5, FS_EmptySet
  <2>8. IsFiniteSet(Places(object, u)) /\ Cardinality(Places(object, u)) = Limit + (Limit - q) - 0
    BY <2>1, <2>2, <2>3, <2>4, <2>6, <2>7
  <2>q. QED BY <1>1, <1>2, <1>4, <2>8
<1>q. QED BY <1>3, <1>4

\* The room of one window is as large as its places.
LEMMA RoomOfOne ==
  ASSUME NEW h, NEW w, h[w] \in Object, NEW u \in Int
  PROVE  /\ IsFiniteSet(Room(h, {w}, u)) /\ Cardinality(Room(h, {w}, u)) \in Nat
         /\ Cardinality(Room(h, {w}, u)) <=
              IF Late(h[w], u) THEN Limit - h[w].requests ELSE 2 * Limit - h[w].requests
<1>1. PICK o \in Object : o = h[w] OBVIOUS
<1>2. PICK P : P = Places(o, u) OBVIOUS
<1>3. PICK R : R = Room(h, {w}, u) OBVIOUS
<1>4. \A x \in R : x = <<w, x[2]>> /\ x[2] \in P BY <1>1, <1>2, <1>3 DEF Room
<1>5. PICK g : g = [x \in R |-> x[2]] OBVIOUS
<1>6. g \in Injection(R, P)
  <2>1. g \in [R -> P] BY <1>4, <1>5
  <2>2. \A x, y \in R : g[x] = g[y] => x = y BY <1>4, <1>5
  <2>q. QED BY <2>1, <2>2 DEF Injection, IsInjective
<1>7. IsFiniteSet(P) /\ Cardinality(P) \in Nat /\
      Cardinality(P) <= IF Late(o, u) THEN Limit - o.requests ELSE 2 * Limit - o.requests
  BY <1>2, PlacesBound
<1>8. IsFiniteSet(R) /\ Cardinality(R) <= Cardinality(P) BY <1>6, <1>7, FS_Injection
<1>9. Cardinality(R) \in Nat BY <1>8, FS_CardinalityType
<1>10. o.requests \in Nat /\ Limit \in Nat BY Numbers DEF Object
<1>q. QED BY <1>1, <1>3, <1>7, <1>8, <1>9, <1>10

-----------------------------------------------------------------------------
(* What steps leave of it. *)

\* A budget lasts while the windows in it stay as they are and no more is spent.
LEMMA FitsKept ==
  ASSUME NEW l \in SUBSET Requests, NEW f, NEW f2, NEW h, NEW h2, NEW u, NEW n \in Int, NEW m \in Int,
         Fits(h, f, l, u, n), m <= n,
         \A r \in l : f2[r] = f[r] /\ h2[f[r]] = h[f[r]]
  PROVE  Fits(h2, f2, l, u, m)
<1>1. PICK A \in SUBSET Held(l, f) :
        n + Cardinality(Holders(l, f, A)) + Cardinality(Room(h, A, u)) <= 2 * (Many * Limit)
  BY DEF Fits
<1>2. A \in SUBSET Held(l, f2) /\ Holders(l, f2, A) = Holders(l, f, A) BY DEF Held, Holders
<1>3. \A w \in A : h2[w] = h[w] BY DEF Held
<1>4. Room(h2, A, u) = Room(h, A, u) BY <1>3 DEF Room
<1>5. Cardinality(Holders(l, f, A)) \in Nat /\ Cardinality(Room(h, A, u)) \in Nat BY Sizes
<1>6. Many * Limit \in Nat BY Numbers
<1>7. PICK x \in Nat, y \in Nat, z \in Nat :
        x = Cardinality(Holders(l, f, A)) /\ y = Cardinality(Room(h, A, u)) /\ z = Many * Limit
  BY <1>5, <1>6
<1>8. m + x + y <= 2 * z BY <1>1, <1>7
<1>9. m + Cardinality(Holders(l, f2, A)) + Cardinality(Room(h2, A, u)) <= 2 * (Many * Limit)
  BY <1>2, <1>4, <1>7, <1>8
<1>q. QED BY <1>2, <1>9 DEF Fits

\* A pass in a window takes a place of it.
LEMMA PlaceTaken ==
  ASSUME NEW o \in Object, NEW c \in Object, NEW u \in Int,
         \/ c.end = o.end /\ o.requests < Limit /\ c.requests = o.requests + 1
         \/ ~Late(o, u) /\ Late(c, u) /\ c.requests = 1
  PROVE  Places(c, u) \subseteq Places(o, u) /\ Places(c, u) # Places(o, u)
<1>1. o.requests \in Nat /\ o.requests <= Limit /\ Limit \in Nat /\ Limit >= 1 BY Numbers DEF Object
<1>2. CASE c.end = o.end /\ o.requests < Limit /\ c.requests = o.requests + 1
  <2>1. Late(c, u) <=> Late(o, u) BY <1>2 DEF Late
  <2>2. Places(c, u) \subseteq Places(o, u) BY <1>1, <1>2, <2>1 DEF Places
  <2>3. CASE Late(o, u)
    <3>1. o.requests + 1 \in Places(o, u) BY <1>1, <1>2, <2>3 DEF Places
    <3>2. o.requests + 1 \notin Places(c, u) BY <1>1, <1>2, <2>1, <2>3 DEF Places
    <3>q. QED BY <2>2, <3>1, <3>2
  <2>4. CASE ~Late(o, u)
    <3>1. Limit + o.requests + 1 \in Places(o, u) BY <1>1, <1>2, <2>4 DEF Places
    <3>2. Limit + o.requests + 1 \notin Places(c, u) BY <1>1, <1>2, <2>1, <2>4 DEF Places
    <3>q. QED BY <2>2, <3>1, <3>2
  <2>q. QED BY <2>3, <2>4
<1>3. CASE ~Late(o, u) /\ Late(c, u) /\ c.requests = 1
  <2>1. Places(c, u) \subseteq Places(o, u) BY <1>1, <1>3 DEF Places
  <2>2. 1 \in Places(o, u) BY <1>1, <1>3 DEF Places
  <2>3. 1 \notin Places(c, u) BY <1>1, <1>3 DEF Places
  <2>q. QED BY <2>1, <2>2, <2>3
<1>q. QED BY <1>2, <1>3

\* A request r has counted in a window that it held, and holds it no more.
Taken(l, f, f2, h, h2, u, n, m, r, c) ==
  /\ Fits(h, f, l, u, n)
  /\ \A q \in l \ {r} : f2[q] = f[q] /\ h2[f[q]] = IF f[q] = f[r] THEN c ELSE h[f[q]]
  /\ Places(c, u) \subseteq Places(h[f[r]], u)
  /\ \/ m <= n
     \/ m <= n + 1 /\ Places(c, u) # Places(h[f[r]], u)

\* A budget lasts if a pass takes one of the places it reserved: the one of the request
\* itself, or one of its window.
LEMMA FitsTaken ==
  ASSUME NEW l \in SUBSET Requests, NEW f, NEW f2, NEW h, NEW h2, NEW u, NEW n \in Int, NEW m \in Int,
         NEW r \in l, NEW c, Taken(l, f, f2, h, h2, u, n, m, r, c)
  PROVE  Fits(h2, f2, l \ {r}, u, m)
<1>0. /\ Fits(h, f, l, u, n)
      /\ \A q \in l \ {r} : f2[q] = f[q] /\ h2[f[q]] = IF f[q] = f[r] THEN c ELSE h[f[q]]
      /\ Places(c, u) \subseteq Places(h[f[r]], u)
      /\ \/ m <= n
         \/ m <= n + 1 /\ Places(c, u) # Places(h[f[r]], u)
  BY DEF Taken
<1>1. PICK A \in SUBSET Held(l, f) :
        n + Cardinality(Holders(l, f, A)) + Cardinality(Room(h, A, u)) <= 2 * (Many * Limit)
  BY <1>0 DEF Fits
<1>2. PICK k \in SUBSET Requests : k = l \ {r} OBVIOUS
<1>3. PICK B \in SUBSET Held(k, f2) : B = A \cap Held(k, f2) OBVIOUS
<1>4. Holders(k, f2, B) \subseteq Holders(l, f, A) \ {r}
  <2>1. \A q \in k : f2[q] \in Held(k, f2) BY DEF Held
  <2>q. QED BY <1>0, <1>2, <1>3, <2>1 DEF Holders
<1>5. \A w \in B : w \in A /\ Places(h2[w], u) \subseteq Places(h[w], u)
  <2>1. ASSUME NEW w \in B PROVE w \in A /\ Places(h2[w], u) \subseteq Places(h[w], u)
    <3>1. PICK q \in k : w = f2[q] BY <1>3 DEF Held
    <3>2. w = f[q] /\ h2[w] = IF w = f[r] THEN c ELSE h[w] BY <1>0, <1>2, <3>1
    <3>q. QED BY <1>0, <1>3, <3>2
  <2>q. QED BY <2>1
<1>6. Room(h2, B, u) \subseteq Room(h, A, u) BY <1>5 DEF Room
<1>7. PICK H, H2, R, R2 : H = Holders(l, f, A) /\ H2 = Holders(k, f2, B) /\ R = Room(h, A, u) /\ R2 = Room(h2, B, u)
  OBVIOUS
<1>8. /\ IsFiniteSet(H) /\ Cardinality(H) \in Nat /\ IsFiniteSet(R) /\ Cardinality(R) \in Nat
      /\ Cardinality(H2) \in Nat /\ Cardinality(R2) \in Nat
  BY <1>7, Sizes
<1>9. /\ H2 \subseteq H \ {r} /\ Cardinality(H2) <= Cardinality(H)
      /\ R2 \subseteq R /\ Cardinality(R2) <= Cardinality(R)
  BY <1>4, <1>6, <1>7, <1>8, FS_Subset
<1>10. m + Cardinality(H2) + Cardinality(R2) <= n + Cardinality(H) + Cardinality(R)
  <2>1. CASE m <= n BY <1>8, <1>9, <2>1
  <2>2. CASE m <= n + 1 /\ f[r] \notin A
    <3>1. r \in H BY <1>7, <2>2 DEF Holders
    <3>2. IsFiniteSet(H \ {r}) /\ Cardinality(H \ {r}) = Cardinality(H) - 1 BY <1>8, <3>1, FS_RemoveElement
    <3>3. Cardinality(H2) <= Cardinality(H \ {r}) BY <1>9, <3>2, FS_Subset
    <3>q. QED BY <1>8, <1>9, <2>2, <3>2, <3>3
  <2>3. CASE m <= n + 1 /\ Places(c, u) # Places(h[f[r]], u) /\ f[r] \in A
    <3>1. PICK j : j \in Places(h[f[r]], u) /\ j \notin Places(c, u) BY <1>0, <2>3
    <3>2. PICK t : t = <<f[r], j>> OBVIOUS
    <3>3. t \in R
      <4>1. j \in 1..(2 * Limit) BY <3>1 DEF Places
      <4>q. QED BY <1>7, <2>3, <3>1, <3>2, <4>1 DEF Room
    <3>4. t \notin R2
      <4>1. ASSUME t \in R2 PROVE FALSE
        <5>1. f[r] \in B /\ j \in Places(h2[f[r]], u) BY <1>7, <3>2, <4>1 DEF Room
        <5>2. PICK q \in k : f[r] = f2[q] BY <1>3, <5>1 DEF Held
        <5>3. h2[f[r]] = c BY <1>0, <1>2, <5>2
        <5>q. QED BY <3>1, <5>1, <5>3
      <4>q. QED BY <4>1
    <3>5. IsFiniteSet(R \ {t}) /\ Cardinality(R \ {t}) = Cardinality(R) - 1 BY <1>8, <3>3, FS_RemoveElement
    <3>6. R2 \in SUBSET (R \ {t}) BY <1>9, <3>4
    <3>7. Cardinality(R2) <= Cardinality(R \ {t}) BY <3>5, <3>6, FS_Subset
    <3>q. QED BY <1>8, <1>9, <2>3, <3>5, <3>7
  <2>q. QED BY <1>0, <2>1, <2>2, <2>3
<1>11. Many * Limit \in Nat BY Numbers
<1>12. m + Cardinality(H2) + Cardinality(R2) <= 2 * (Many * Limit)
  <2>1. PICK z \in Nat : z = Many * Limit BY <1>11
  <2>q. QED BY <1>1, <1>7, <1>8, <1>10, <2>1
<1>q. QED BY <1>2, <1>3, <1>7, <1>12 DEF Fits

\* The map has lost a window w, which those of k that are not of l hold.
Released(l, k, f, f2, h, h2, w, u, n, m) ==
  /\ Fits(h, f, l, u, n) /\ l \subseteq k /\ h[w] \in Object
  /\ \A q \in k : f2[q] = f[q] /\ h2[f[q]] = h[f[q]]
  /\ \A q \in k \ l : f[q] = w
  /\ m + (Limit - h[w].requests) + (IF Late(h[w], u) THEN 0 ELSE Fewer) <= n

\* A budget lasts if a window leaves the map: what was reserved for the map pays for
\* its holders.
LEMMA FitsReleased ==
  ASSUME NEW l \in SUBSET Requests, NEW k \in SUBSET Requests, NEW f, NEW f2, NEW h, NEW h2, NEW w,
         NEW u \in Int, NEW n \in Int, NEW m \in Int, Released(l, k, f, f2, h, h2, w, u, n, m)
  PROVE  Fits(h2, f2, k, u, m)
<1>0. /\ Fits(h, f, l, u, n) /\ l \subseteq k /\ h[w] \in Object
      /\ \A q \in k : f2[q] = f[q] /\ h2[f[q]] = h[f[q]]
      /\ \A q \in k \ l : f[q] = w
      /\ m + (Limit - h[w].requests) + (IF Late(h[w], u) THEN 0 ELSE Fewer) <= n
  BY DEF Released
<1>1. PICK A \in SUBSET Held(l, f) :
        n + Cardinality(Holders(l, f, A)) + Cardinality(Room(h, A, u)) <= 2 * (Many * Limit)
  BY <1>0 DEF Fits
<1>2. PICK H, R : H = Holders(l, f, A) /\ R = Room(h, A, u) OBVIOUS
<1>3. IsFiniteSet(H) /\ Cardinality(H) \in Nat /\ IsFiniteSet(R) /\ Cardinality(R) \in Nat BY <1>2, Sizes
<1>4. PICK z \in Nat : z = Many * Limit BY Numbers
<1>5. PICK o \in Object : o = h[w] BY <1>0
<1>6. o.requests \in Nat /\ o.requests <= Limit /\ Limit \in Nat /\ Many \in Nat BY Numbers DEF Object
<1>7. ASSUME ~Late(o, u), Fewer = Many PROVE Fits(h2, f2, k, u, m)
  <2>1. A \in SUBSET Held(k, f2) BY <1>0 DEF Held
  <2>2. PICK H2, R2 : H2 = Holders(k, f2, A) /\ R2 = Room(h2, A, u) OBVIOUS
  <2>3. \A v \in A : h2[v] = h[v] BY <1>0 DEF Held
  <2>4. R2 = R BY <1>2, <2>2, <2>3 DEF Room
  <2>5. H2 \subseteq H \cup Requests BY <1>0, <2>2 DEF Holders
  <2>6. IsFiniteSet(H \cup Requests) /\ Cardinality(H \cup Requests) <= Cardinality(H) + Many
    <3>1. IsFiniteSet(H \cup Requests) /\ Cardinality(H \cup Requests) =
            Cardinality(H) + Cardinality(Requests) - Cardinality(H \cap Requests)
      BY <1>3, Numbers, FS_Union
    <3>2. Cardinality(H \cap Requests) \in Nat BY <1>3, FS_Intersection, FS_CardinalityType
    <3>q. QED BY <1>3, <1>6, <3>1, <3>2 DEF Many
  <2>7. Cardinality(H2) <= Cardinality(H \cup Requests) BY <2>5, <2>6, FS_Subset
  <2>8. Cardinality(H2) \in Nat BY <2>1, <2>2, Sizes
  <2>9. Cardinality(H \cup Requests) \in Nat BY <2>6, FS_CardinalityType
  <2>10. Cardinality(H2) <= Cardinality(H) + Many BY <1>3, <1>6, <2>6, <2>7, <2>8, <2>9
  <2>11. m + (Limit - o.requests) + Many <= n BY <1>0, <1>5, <1>7
  <2>12. n + Cardinality(H) + Cardinality(R) <= 2 * z BY <1>1, <1>2, <1>4
  <2>13. m + Cardinality(H2) + Cardinality(R) <= 2 * z BY <1>3, <1>6, <2>8, <2>10, <2>11, <2>12
  <2>q. QED BY <1>4, <2>1, <2>2, <2>4, <2>13 DEF Fits
<1>8. ASSUME Late(o, u) \/ Fewer = Limit PROVE Fits(h2, f2, k, u, m)
  <2>1. PICK B \in SUBSET Held(k, f2) : B = (A \cup {w}) \cap Held(k, f2) OBVIOUS
  <2>2. PICK H2, R2, W : H2 = Holders(k, f2, B) /\ R2 = Room(h2, B, u) /\ W = Room(h, {w}, u) OBVIOUS
  <2>3. H2 \subseteq H
    <3>1. ASSUME NEW q \in H2 PROVE q \in H
      <4>1. q \in k /\ f2[q] \notin B /\ f2[q] = f[q] BY <1>0, <2>2 DEF Holders
      <4>2. f2[q] \in Held(k, f2) BY <4>1 DEF Held
      <4>3. f[q] \notin A /\ f[q] # w BY <2>1, <4>1, <4>2
      <4>q. QED BY <1>0, <1>2, <4>1, <4>3 DEF Holders
    <3>q. QED BY <3>1
  <2>4. \A v \in B : h2[v] = h[v] BY <1>0, <2>1 DEF Held
  <2>5. R2 \subseteq R \cup W BY <1>2, <2>1, <2>2, <2>4 DEF Room
  <2>6. /\ IsFiniteSet(W) /\ Cardinality(W) \in Nat
        /\ Cardinality(W) <= IF Late(o, u) THEN Limit - o.requests ELSE 2 * Limit - o.requests
    BY <1>5, <2>2, RoomOfOne
  <2>7. IsFiniteSet(R \cup W) /\ Cardinality(R \cup W) <= Cardinality(R) + Cardinality(W)
    <3>1. IsFiniteSet(R \cup W) /\ Cardinality(R \cup W) = Cardinality(R) + Cardinality(W) - Cardinality(R \cap W)
      BY <1>3, <2>6, FS_Union
    <3>2. Cardinality(R \cap W) \in Nat BY <1>3, FS_Intersection, FS_CardinalityType
    <3>q. QED BY <1>3, <2>6, <3>1, <3>2
  <2>8. Cardinality(H2) \in Nat /\ Cardinality(R2) \in Nat BY <2>1, <2>2, Sizes
  <2>9. Cardinality(H2) <= Cardinality(H) BY <1>3, <2>3, FS_Subset
  <2>10. Cardinality(R \cup W) \in Nat BY <2>7, FS_CardinalityType
  <2>11. Cardinality(R2) <= Cardinality(R \cup W) BY <2>5, <2>7, FS_Subset
  <2>12. Cardinality(R2) <= Cardinality(R) + Cardinality(W) BY <1>3, <2>6, <2>7, <2>8, <2>10, <2>11
  <2>13. m + Cardinality(W) <= n
    <3>1. CASE Late(o, u)
      <4>1. m + (Limit - o.requests) + 0 <= n BY <1>0, <1>5, <3>1
      <4>q. QED BY <1>6, <2>6, <3>1, <4>1
    <3>2. CASE ~Late(o, u)
      <4>1. m + (Limit - o.requests) + Limit <= n BY <1>0, <1>5, <1>8, <3>2
      <4>q. QED BY <1>6, <2>6, <3>2, <4>1
    <3>q. QED BY <3>1, <3>2
  <2>14. n + Cardinality(H) + Cardinality(R) <= 2 * z BY <1>1, <1>2, <1>4
  <2>15. m + Cardinality(H2) + Cardinality(R2) <= 2 * z BY <1>3, <2>6, <2>8, <2>9, <2>12, <2>13, <2>14
  <2>q. QED BY <1>4, <2>1, <2>2, <2>15 DEF Fits
<1>q. QED BY <1>7, <1>8, Numbers

-----------------------------------------------------------------------------
(* The budget of a key: what passed, and what may still pass, is twice the limit for *)
(* each request at most. *)

Stales(k) == {r \in Requests : Stale(r, k)}
Lefts(k) == {r \in Requests : Left(r, k)}

\* What may pass in the window w of the map, and in those that stale requests put in its place.
Coming(h, w, stale, u) ==
  IF w = NoWindow THEN Many * Limit
  ELSE Limit - h[w].requests + IF Late(h[w], u) THEN stale * Limit ELSE Many * Limit + Fewer

Spent(k, u) == Cardinality(Since(k, u)) + Coming(heap, windows[k], Cardinality(Stales(k)), u)
Budget(k, u) == Fits(heap, win, Lefts(k), u, Spent(k, u))

BudgetInv == \A k \in Keys, u \in Int :
    u <= clock /\ clock - u < Window - MaxDelay => Budget(k, u)

\* What may still pass in the map is a number.
LEMMA ComingType ==
  ASSUME NEW h, NEW w, w # NoWindow => h[w] \in Object, NEW stale \in Nat, NEW u
  PROVE  Coming(h, w, stale, u) \in Nat
<1>1. Many * Limit \in Nat /\ stale * Limit \in Nat BY Numbers
<1>2. CASE w = NoWindow BY <1>1, <1>2 DEF Coming
<1>3. CASE w # NoWindow
  <2>1. h[w].requests \in Nat /\ h[w].requests <= Limit BY <1>3, Numbers DEF Object
  <2>2. PICK x \in Nat : x = IF Late(h[w], u) THEN stale * Limit ELSE Many * Limit + Fewer BY <1>1, Numbers
  <2>3. Coming(h, w, stale, u) = Limit - h[w].requests + x BY <1>3, <2>2 DEF Coming
  <2>q. QED BY <2>1, <2>2, <2>3, Numbers
<1>q. QED BY <1>2, <1>3

\* What a budget is made of is finite.
LEMMA BudgetTypes ==
  ASSUME HeapInv, NEW k \in Keys, NEW u
  PROVE  /\ Stales(k) \in SUBSET Requests /\ Lefts(k) \in SUBSET Requests
         /\ IsFiniteSet(Stales(k)) /\ Cardinality(Stales(k)) \in Nat
         /\ IsFiniteSet(Lefts(k)) /\ Cardinality(Lefts(k)) \in Nat
         /\ windows[k] \in Windows \cup {NoWindow} /\ (windows[k] # NoWindow => heap[windows[k]] \in Object)
         /\ Coming(heap, windows[k], Cardinality(Stales(k)), u) \in Nat
         /\ Cardinality(Since(k, u)) \in Nat /\ Spent(k, u) \in Nat
<1>1. Stales(k) \in SUBSET Requests /\ Lefts(k) \in SUBSET Requests BY DEF Stales, Lefts
<1>2. /\ IsFiniteSet(Stales(k)) /\ Cardinality(Stales(k)) \in Nat
      /\ IsFiniteSet(Lefts(k)) /\ Cardinality(Lefts(k)) \in Nat
  BY <1>1, Numbers, FS_Subset, FS_CardinalityType
<1>3. windows[k] \in Windows \cup {NoWindow} /\ (windows[k] # NoWindow => heap[windows[k]] \in Object)
  BY DEF HeapInv, TypeOK
<1>4. Coming(heap, windows[k], Cardinality(Stales(k)), u) \in Nat BY <1>2, <1>3, ComingType
<1>5. Cardinality(Since(k, u)) \in Nat BY SinceFacts
<1>6. Spent(k, u) \in Nat BY <1>4, <1>5 DEF Spent
<1>q. QED BY <1>1, <1>2, <1>3, <1>4, <1>5, <1>6

\* A dropped window that is held is one of the key of its holder.
LEMMA LeftFacts ==
  ASSUME HeapInv, NEW k \in Keys, NEW r \in Lefts(k)
  PROVE  /\ r \in Requests /\ key[r] = k /\ win[r] \in Windows /\ win[r] # windows[k]
         /\ Of(win[r], k) /\ heap[win[r]] \in Object /\ pc[r] \in {"clock", "count"}
<1>1. r \in Requests /\ key[r] = k /\ win[r] \in Windows /\ win[r] # NoWindow /\ win[r] # windows[k]
  BY DEF Lefts, Left, HeapInv, TypeOK
<1>q. QED BY <1>1 DEF HeapInv, TypeOK, OwnInv, Of

\* A step after which the requests that hold dropped windows are the same.
LEMMA SameLefts ==
  ASSUME HeapInv, HeapInv', NEW k \in Keys, NEW u \in Int, Budget(k, u), Lefts(k)' = Lefts(k),
         \A r \in Lefts(k) : win'[r] = win[r] /\ heap'[win[r]] = heap[win[r]],
         Spent(k, u)' <= Spent(k, u), Spent(k, u)' \in Int
  PROVE  Budget(k, u)'
<1>1. PICK n \in Int, m \in Int : n = Spent(k, u) /\ m = Spent(k, u)' BY BudgetTypes
<1>2. PICK l \in SUBSET Requests : l = Lefts(k) BY BudgetTypes
<1>3. Fits(heap, win, l, u, n) BY <1>1, <1>2 DEF Budget
<1>4. \A r \in l : win'[r] = win[r] /\ heap'[win[r]] = heap[win[r]] BY <1>2
<1>5. Fits(heap', win', l, u, m) BY <1>1, <1>3, <1>4, FitsKept
<1>q. QED BY <1>1, <1>2, <1>5 DEF Budget

\* A step that does not concern a key.
LEMMA Unaffected ==
  ASSUME HeapInv, HeapInv', NEW k \in Keys, NEW u \in Int, Budget(k, u),
         windows'[k] = windows[k], Lefts(k)' = Lefts(k), Since(k, u)' = Since(k, u),
         windows[k] # NoWindow => Stales(k)' = Stales(k) /\ heap'[windows[k]] = heap[windows[k]],
         \A r \in Lefts(k) : win'[r] = win[r] /\ heap'[win[r]] = heap[win[r]]
  PROVE  Budget(k, u)'
<1>1. Coming(heap', windows'[k], Cardinality(Stales(k)'), u) = Coming(heap, windows[k], Cardinality(Stales(k)), u)
  <2>1. CASE windows[k] = NoWindow BY <2>1 DEF Coming
  <2>2. CASE windows[k] # NoWindow
    <3>1. Stales(k)' = Stales(k) /\ heap'[windows[k]] = heap[windows[k]] BY <2>2
    <3>q. QED BY <2>2, <3>1 DEF Coming
  <2>q. QED BY <2>1, <2>2
<1>2. Spent(k, u)' = Spent(k, u) BY <1>1 DEF Spent
<1>3. Spent(k, u) \in Nat BY BudgetTypes
<1>4. Spent(k, u)' <= Spent(k, u) /\ Spent(k, u)' \in Int BY <1>2, <1>3
<1>q. QED BY <1>4, SameLefts

\* A request that comes changes no budget.
LEMMA ArriveBudget ==
  ASSUME HeapInv, HeapInv', NEW k \in Keys, NEW u \in Int, Budget(k, u),
         NEW r \in Requests, NEW l \in Keys, Arrive(r, l)
  PROVE  Budget(k, u)'
<1>1. /\ UNCHANGED <<windows, heap, win, passed>> /\ win[r] = NoWindow /\ pc[r] = "idle" /\ pc'[r] = "lookup"
      /\ \A s \in Requests \ {r} : pc'[s] = pc[s] /\ key'[s] = key[s]
  BY DEF Arrive, GoTo, HeapInv, OwnInv, TypeOK
<1>2. Lefts(k)' = Lefts(k) BY <1>1 DEF Lefts, Left
<1>3. Stales(k)' = Stales(k) BY <1>1 DEF Stales, Stale
<1>4. Since(k, u)' = Since(k, u) BY <1>1 DEF Since
<1>q. QED BY <1>1, <1>2, <1>3, <1>4, Unaffected

\* Nor does a lookup: the window of the map is none of those that were dropped.
LEMMA LookupBudget ==
  ASSUME HeapInv, HeapInv', NEW k \in Keys, NEW u \in Int, Budget(k, u),
         NEW r \in Requests, Lookup(r)
  PROVE  Budget(k, u)'
<1>1. /\ UNCHANGED <<windows, heap, key, passed>> /\ pc[r] = "lookup" /\ pc'[r] = "clock"
      /\ win[r] = NoWindow /\ win'[r] = windows[key[r]]
      /\ \A s \in Requests \ {r} : pc'[s] = pc[s] /\ win'[s] = win[s]
  BY DEF Lookup, GoTo, HeapInv, OwnInv, TypeOK
<1>2. ASSUME NEW s \in Requests PROVE Left(s, k)' <=> Left(s, k) BY <1>1 DEF Left
<1>3. Lefts(k)' = Lefts(k) BY <1>2 DEF Lefts
<1>4. ASSUME windows[k] # NoWindow PROVE Stales(k)' = Stales(k)
  <2>1. \A s \in Requests : Stale(s, k)' <=> Stale(s, k) BY <1>1, <1>4 DEF Stale
  <2>q. QED BY <2>1 DEF Stales
<1>5. Since(k, u)' = Since(k, u) BY <1>1 DEF Since
<1>6. \A s \in Lefts(k) : win'[s] = win[s] BY <1>1 DEF Lefts, Left
<1>q. QED BY <1>1, <1>3, <1>4, <1>5, <1>6, Unaffected

\* Nor does reading the clock.
LEMMA ReadClockBudget ==
  ASSUME HeapInv, HeapInv', NEW k \in Keys, NEW u \in Int, Budget(k, u),
         NEW r \in Requests, ReadClock(r)
  PROVE  Budget(k, u)'
<1>1. /\ UNCHANGED <<windows, heap, key, win, passed>> /\ pc[r] = "clock"
      /\ pc'[r] = IF win[r] = NoWindow THEN "create" ELSE "count"
      /\ \A s \in Requests \ {r} : pc'[s] = pc[s]
  BY DEF ReadClock, GoTo, HeapInv, TypeOK
<1>2. Lefts(k)' = Lefts(k) BY <1>1 DEF Lefts, Left
<1>3. \A s \in Requests : Stale(s, k)' <=> Stale(s, k) BY <1>1 DEF Stale
<1>4. Stales(k)' = Stales(k) BY <1>3 DEF Stales
<1>5. Since(k, u)' = Since(k, u) BY <1>1 DEF Since
<1>q. QED BY <1>1, <1>2, <1>4, <1>5, Unaffected

\* Products grow with their factors.
LEMMA Times ==
  ASSUME NEW a \in Nat, NEW b \in Nat, NEW c \in Nat, a <= b
  PROVE  a * c \in Nat /\ b * c \in Nat /\ a * c <= b * c /\ (a + 1) * c = a * c + c
OBVIOUS

\* Requests that are not among some.
LEMMA Without ==
  ASSUME NEW S \in SUBSET Requests, NEW r \in Requests, r \notin S
  PROVE  Cardinality(S) + 1 <= Many
<1>1. IsFiniteSet(S) /\ Cardinality(S) \in Nat BY Numbers, FS_Subset, FS_CardinalityType
<1>2. IsFiniteSet(S \cup {r}) /\ Cardinality(S \cup {r}) = Cardinality(S) + 1 BY <1>1, FS_AddElement
<1>3. S \cup {r} \in SUBSET Requests OBVIOUS
<1>4. Cardinality(S \cup {r}) <= Cardinality(Requests) BY <1>3, Numbers, FS_Subset
<1>q. QED BY <1>2, <1>4 DEF Many

\* Creating a window for another key changes nothing.
LEMMA CreateOther ==
  ASSUME HeapInv, HeapInv', NEW k \in Keys, NEW u \in Int, Budget(k, u),
         NEW r \in Requests, Create(r), key[r] # k
  PROVE  Budget(k, u)'
<1>1. /\ UNCHANGED <<key, passed>> /\ windows'[k] = windows[k]
      /\ \A s \in Requests \ {r} : pc'[s] = pc[s] /\ win'[s] = win[s]
      /\ windows[k] # NoWindow => heap'[windows[k]] = heap[windows[k]]
      /\ \A s \in Requests \ {r} : win[s] # NoWindow => heap'[win[s]] = heap[win[s]]
  <2>1. UNCHANGED <<key, passed>> BY DEF Create
  <2>2. \A s \in Requests \ {r} : pc'[s] = pc[s] /\ win'[s] = win[s] BY CreateOthers
  <2>3. windows'[k] = windows[k] /\ (windows[k] # NoWindow => heap'[windows[k]] = heap[windows[k]])
    BY CreateOthers
  <2>4. \A s \in Requests \ {r} : win[s] # NoWindow => heap'[win[s]] = heap[win[s]] BY CreateOthers
  <2>q. QED BY <2>1, <2>2, <2>3, <2>4
<1>2. \A s \in Requests : (Stale(s, k)' <=> Stale(s, k)) /\ (Left(s, k)' <=> Left(s, k))
  BY <1>1 DEF Stale, Left
<1>3. Lefts(k)' = Lefts(k) /\ Stales(k)' = Stales(k) BY <1>2 DEF Lefts, Stales
<1>4. Since(k, u)' = Since(k, u) BY <1>1 DEF Since
<1>5. \A s \in Lefts(k) : win'[s] = win[s] /\ heap'[win[s]] = heap[win[s]]
  BY <1>1 DEF Lefts, Left
<1>q. QED BY <1>1, <1>3, <1>4, <1>5, Unaffected

\* The request that creates a window was stale, and is not any more: what was reserved
\* for it is spent on the window.
LEMMA CreateBudget ==
  ASSUME HeapInv, HeapInv', NEW k \in Keys, NEW u \in Int, Budget(k, u), u <= clock,
         NEW r \in Requests, Create(r), key[r] = k
  PROVE  Budget(k, u)'
<1>1. /\ UNCHANGED <<key, passed>> /\ pc[r] = "create" /\ win[r] = NoWindow
      /\ win'[r] \in Windows /\ heap'[win'[r]] = New(r) /\ pc'[r] = "count" /\ windows'[k] = win'[r]
  <2>1. win[r] = NoWindow BY DEF Create, HeapInv, OwnInv
  <2>q. QED BY <2>1, CreateOthers DEF Create
<1>2. \A s \in Requests \ {r} : pc'[s] = pc[s] /\ win'[s] = win[s] /\ win[s] # win'[r]
  BY CreateOthers
<1>3. \A s \in Requests \ {r} : win[s] # NoWindow => heap'[win[s]] = heap[win[s]]
  BY CreateOthers
<1>4. Late(New(r), u)
  <2>1. now[r] \in Nat /\ clock \in Nat /\ clock <= now[r] + MaxDelay BY <1>1 DEF HeapInv, TypeOK, TimeInv
  <2>q. QED BY <2>1, Objects, Numbers DEF Late
<1>5. PICK St \in SUBSET Requests : St = Stales(k) /\ IsFiniteSet(St) /\ Cardinality(St) \in Nat BY BudgetTypes
<1>6. Stales(k)' = St \ {r}
  <2>1. \A s \in Requests : Stale(s, k)' <=> Stale(s, k) /\ s # r BY <1>1, <1>2 DEF Stale
  <2>q. QED BY <1>5, <2>1 DEF Stales
<1>7. r \in St BY <1>1, <1>5 DEF Stales, Stale
<1>8. Cardinality(Stales(k)') = Cardinality(St) - 1 /\ Cardinality(Stales(k)') \in Nat
  <2>1. IsFiniteSet(St \ {r}) /\ Cardinality(St \ {r}) = Cardinality(St) - 1 BY <1>5, <1>7, FS_RemoveElement
  <2>2. Cardinality(St \ {r}) \in Nat BY <2>1, FS_CardinalityType
  <2>q. QED BY <1>6, <2>1, <2>2
<1>9. Cardinality(St) <= Many BY <1>5, Numbers, FS_Subset DEF Many
<1>10. /\ Many * Limit \in Nat /\ Cardinality(St) * Limit \in Nat
       /\ Cardinality(St) * Limit <= Many * Limit
       /\ Cardinality(St) * Limit = Cardinality(Stales(k)') * Limit + Limit
  <2>1. PICK a \in Nat, b \in Nat : a = Cardinality(St) /\ b = Cardinality(Stales(k)') /\ b + 1 = a
    BY <1>5, <1>8
  <2>2. (b + 1) * Limit = b * Limit + Limit BY <2>1, Numbers, Times
  <2>3. a * Limit \in Nat /\ Many * Limit \in Nat /\ a * Limit <= Many * Limit BY <1>9, <2>1, Numbers, Times
  <2>q. QED BY <2>1, <2>2, <2>3
<1>11. Coming(heap', windows'[k], Cardinality(Stales(k)'), u) = Cardinality(St) * Limit
  <2>1. New(r).requests = 0 /\ windows'[k] # NoWindow BY <1>1, Objects, Numbers
  <2>2. Coming(heap', windows'[k], Cardinality(Stales(k)'), u) = Limit - 0 + Cardinality(Stales(k)') * Limit
    BY <1>1, <1>4, <2>1 DEF Coming
  <2>3. Cardinality(Stales(k)') * Limit \in Nat BY <1>8, Numbers
  <2>q. QED BY <1>10, <2>2, <2>3, Numbers
<1>12. PICK s \in Nat : s = Cardinality(Since(k, u)) /\ s = Cardinality(Since(k, u)')
  <2>1. Since(k, u)' = Since(k, u) BY <1>1 DEF Since
  <2>q. QED BY <2>1, BudgetTypes
<1>13. Spent(k, u)' = s + Cardinality(St) * Limit BY <1>11, <1>12 DEF Spent
<1>14. CASE windows[k] = NoWindow
  <2>1. Spent(k, u) = s + Many * Limit BY <1>12, <1>14 DEF Spent, Coming
  <2>2. Spent(k, u)' <= Spent(k, u) /\ Spent(k, u)' \in Int BY <1>10, <1>13, <2>1
  <2>3. \A q \in Requests : Left(q, k)' <=> Left(q, k) BY <1>1, <1>2, <1>14 DEF Left
  <2>4. Lefts(k)' = Lefts(k) BY <2>3 DEF Lefts
  <2>5. \A q \in Lefts(k) : win'[q] = win[q] /\ heap'[win[q]] = heap[win[q]]
    BY <1>1, <1>2, <1>3 DEF Lefts, Left
  <2>q. QED BY <2>2, <2>4, <2>5, SameLefts
<1>15. CASE windows[k] # NoWindow
  <2>1. PICK w : w = windows[k] /\ w \in Windows /\ heap[w] \in Object BY <1>15, BudgetTypes
  <2>2. PICK l \in SUBSET Requests, j \in SUBSET Requests : l = Lefts(k) /\ j = Lefts(k)' BY DEF Lefts
  <2>3. \A q \in j : q # r /\ key[q] = k /\ win'[q] = win[q] /\ win[q] # NoWindow
    BY <1>1, <1>2, <2>2 DEF Lefts, Left
  <2>4. l \subseteq j
    <3>1. \A q \in l : Left(q, k)' BY <1>1, <1>2, <2>2 DEF Lefts, Left
    <3>q. QED BY <2>2, <3>1 DEF Lefts
  <2>5. \A q \in j \ l : win[q] = w BY <2>1, <2>2, <2>3 DEF Lefts, Left
  <2>6. \A q \in j : win'[q] = win[q] /\ heap'[win[q]] = heap[win[q]] BY <1>3, <2>3
  <2>7. PICK n \in Int, m \in Int : n = Spent(k, u) /\ m = s + Cardinality(St) * Limit
    BY <1>10, BudgetTypes
  <2>8. n = s + (Limit - heap[w].requests
                  + IF Late(heap[w], u) THEN Cardinality(St) * Limit ELSE Many * Limit + Fewer)
    BY <1>5, <1>12, <1>15, <2>1, <2>7 DEF Spent, Coming
  <2>9. heap[w].requests \in Nat BY <2>1, Numbers DEF Object
  <2>10. m + (Limit - heap[w].requests) + (IF Late(heap[w], u) THEN 0 ELSE Fewer) <= n
    <3>1. CASE Late(heap[w], u) BY <1>10, <2>7, <2>8, <2>9, <3>1, Numbers
    <3>2. CASE ~Late(heap[w], u) BY <1>10, <2>7, <2>8, <2>9, <3>2, Numbers
    <3>q. QED BY <3>1, <3>2
  <2>11. Fits(heap, win, l, u, n) BY <2>2, <2>7 DEF Budget
  <2>12. Fits(heap', win', j, u, m)
    <3>1. PICK h, h2, f, f2 : h = heap /\ h2 = heap' /\ f = win /\ f2 = win' OBVIOUS
    <3>2. Fits(h, f, l, u, n) /\ h[w] \in Object BY <2>1, <2>11, <3>1
    <3>3. (\A q \in j : f2[q] = f[q] /\ h2[f[q]] = h[f[q]]) /\ \A q \in j \ l : f[q] = w
      BY <2>5, <2>6, <3>1
    <3>4. m + (Limit - h[w].requests) + (IF Late(h[w], u) THEN 0 ELSE Fewer) <= n BY <2>10, <3>1
    <3>5. Released(l, j, f, f2, h, h2, w, u, n, m) BY <2>4, <3>2, <3>3, <3>4 DEF Released
    <3>6. Fits(h2, f2, j, u, m) BY <3>5, FitsReleased
    <3>q. QED BY <3>1, <3>6
  <2>q. QED BY <1>13, <2>2, <2>7, <2>12 DEF Budget
<1>q. QED BY <1>14, <1>15

\* A window that cleanup drops was over: what was reserved for beginning it anew pays
\* for the next one.
LEMMA CleanupBudget ==
  ASSUME HeapInv, HeapInv', NEW k \in Keys, NEW u \in Int, Budget(k, u),
         u <= clock, clock - u < Window - MaxDelay, Cleanup
  PROVE  Budget(k, u)'
<1>1. UNCHANGED <<clock, pc, key, now, win, passed>> BY CleanupFacts
<1>2. \A v \in Windows : Referenced(v, windows', win) => heap'[v] = heap[v] BY CleanupFacts
<1>3. Since(k, u)' = Since(k, u) BY <1>1 DEF Since
<1>4. Stales(k)' = Stales(k) BY <1>1 DEF Stales, Stale
<1>5. ASSUME NEW s \in Requests, win[s] # NoWindow PROVE heap'[win[s]] = heap[win[s]]
  <2>1. win[s] \in Windows BY <1>5 DEF HeapInv, TypeOK
  <2>2. Referenced(win[s], windows', win) BY DEF Referenced
  <2>q. QED BY <1>2, <2>1, <2>2
<1>6. CASE windows'[k] = windows[k]
  <2>1. Lefts(k)' = Lefts(k) BY <1>1, <1>6 DEF Lefts, Left
  <2>2. \A s \in Lefts(k) : win'[s] = win[s] /\ heap'[win[s]] = heap[win[s]] BY <1>1, <1>5 DEF Lefts, Left
  <2>3. ASSUME windows[k] # NoWindow PROVE heap'[windows[k]] = heap[windows[k]]
    <3>1. windows[k] \in Windows BY <2>3, BudgetTypes
    <3>2. Referenced(windows[k], windows', win) BY <1>6 DEF Referenced
    <3>q. QED BY <1>2, <3>1, <3>2
  <2>q. QED BY <1>3, <1>4, <1>6, <2>1, <2>2, <2>3, Unaffected
<1>7. CASE windows'[k] = NoWindow /\ windows[k] # NoWindow /\ clock > heap[windows[k]].end
  <2>1. PICK w : w = windows[k] /\ w \in Windows /\ heap[w] \in Object BY <1>7, BudgetTypes
  <2>2. ~Late(heap[w], u)
    <3>1. heap[w].end \in Nat /\ clock \in Nat BY <2>1 DEF Object, HeapInv, TypeOK
    <3>q. QED BY <1>7, <2>1, <3>1, Numbers DEF Late
  <2>3. PICK l \in SUBSET Requests, j \in SUBSET Requests : l = Lefts(k) /\ j = Lefts(k)' BY DEF Lefts
  <2>4. l \subseteq j
    <3>1. \A q \in l : Left(q, k)' BY <1>1, <1>7, <2>3 DEF Lefts, Left
    <3>q. QED BY <2>3, <3>1 DEF Lefts
  <2>5. \A q \in j : win'[q] = win[q] /\ heap'[win[q]] = heap[win[q]]
    <3>1. \A q \in j : win[q] # NoWindow BY <1>1, <2>3 DEF Lefts, Left
    <3>q. QED BY <1>1, <1>5, <3>1
  <2>6. \A q \in j \ l : win[q] = w BY <1>1, <2>1, <2>3 DEF Lefts, Left
  <2>7. PICK s \in Nat : s = Cardinality(Since(k, u)) BY BudgetTypes
  <2>8. Many * Limit \in Nat BY Numbers
  <2>9. PICK n \in Int, m \in Int : n = Spent(k, u) /\ m = s + Many * Limit BY <2>8, BudgetTypes
  <2>10. n = s + (Limit - heap[w].requests + (Many * Limit + Fewer))
    BY <1>7, <2>1, <2>2, <2>7, <2>9 DEF Spent, Coming
  <2>11. Spent(k, u)' = m BY <1>3, <1>7, <2>7, <2>9 DEF Spent, Coming
  <2>12. heap[w].requests \in Nat BY <2>1, Numbers DEF Object
  <2>13. m + (Limit - heap[w].requests) + (IF Late(heap[w], u) THEN 0 ELSE Fewer) <= n
    BY <2>2, <2>8, <2>9, <2>10, <2>12, Numbers
  <2>14. Fits(heap, win, l, u, n) BY <2>3, <2>9 DEF Budget
  <2>15. Fits(heap', win', j, u, m)
    <3>1. PICK h, h2, f, f2 : h = heap /\ h2 = heap' /\ f = win /\ f2 = win' OBVIOUS
    <3>2. Fits(h, f, l, u, n) /\ h[w] \in Object BY <2>1, <2>14, <3>1
    <3>3. (\A q \in j : f2[q] = f[q] /\ h2[f[q]] = h[f[q]]) /\ \A q \in j \ l : f[q] = w
      BY <2>5, <2>6, <3>1
    <3>4. m + (Limit - h[w].requests) + (IF Late(h[w], u) THEN 0 ELSE Fewer) <= n BY <2>13, <3>1
    <3>5. Released(l, j, f, f2, h, h2, w, u, n, m) BY <2>4, <3>2, <3>3, <3>4 DEF Released
    <3>6. Fits(h2, f2, j, u, m) BY <3>5, FitsReleased
    <3>q. QED BY <3>1, <3>6
  <2>q. QED BY <2>3, <2>11, <2>15 DEF Budget
<1>8. \/ windows'[k] = windows[k]
      \/ windows'[k] = NoWindow /\ windows[k] # NoWindow /\ clock > heap[windows[k]].end
  BY CleanupFacts
<1>q. QED BY <1>6, <1>7, <1>8

\* A count for another key changes nothing.
LEMMA CountOther ==
  ASSUME HeapInv, HeapInv', NEW k \in Keys, NEW u \in Int, Budget(k, u),
         NEW r \in Requests, Count(r), key[r] # k
  PROVE  Budget(k, u)'
<1>0. PICK w \in Windows, b \in Object, c \in Object : CountsIn(r, w, b, c) BY CountFacts
<1>1. /\ pc[r] = "count" /\ win[r] = w
      /\ win' = [win EXCEPT ![r] = NoWindow] /\ pc' = [pc EXCEPT ![r] = "idle"]
      /\ \A v \in Windows \ {w} : Referenced(v, windows, win') => heap'[v] = heap[v]
      /\ passed' = [passed EXCEPT ![key[r]] =
                      IF b.requests < Limit THEN @ \cup {NextPass(key[r])} ELSE @]
      /\ UNCHANGED <<clock, windows, key>>
  BY <1>0 DEF CountsIn
<1>2. \A s \in Requests \ {r} : win'[s] = win[s] /\ pc'[s] = pc[s] BY <1>1 DEF HeapInv, TypeOK
<1>3. passed'[k] = passed[k] BY <1>1 DEF HeapInv, TypeOK
<1>4. Since(k, u)' = Since(k, u) BY <1>3 DEF Since
<1>5. \A s \in Requests : (Stale(s, k)' <=> Stale(s, k)) /\ (Left(s, k)' <=> Left(s, k))
  BY <1>1, <1>2 DEF Stale, Left
<1>6. Lefts(k)' = Lefts(k) /\ Stales(k)' = Stales(k) BY <1>5 DEF Lefts, Stales
<1>7. ASSUME windows[k] # NoWindow PROVE heap'[windows[k]] = heap[windows[k]]
  <2>1. windows[k] # w BY <1>1, <1>7 DEF HeapInv, OwnInv
  <2>2. windows[k] \in Windows BY <1>7, BudgetTypes
  <2>3. Referenced(windows[k], windows, win') BY DEF Referenced
  <2>q. QED BY <1>1, <2>1, <2>2, <2>3
<1>8. ASSUME NEW s \in Lefts(k) PROVE win'[s] = win[s] /\ heap'[win[s]] = heap[win[s]]
  <2>1. s \in Requests /\ key[s] = k /\ win[s] \in Windows BY <1>8, LeftFacts
  <2>2. win'[s] = win[s] BY <1>2, <2>1
  <2>3. win[s] # w
    <3>1. ASSUME win[s] = w PROVE FALSE
      <4>1. win[s] # NoWindow /\ win[s] = win[r] BY <1>1, <3>1, Numbers
      <4>q. QED BY <2>1, <4>1 DEF HeapInv, OwnInv
    <3>q. QED BY <3>1
  <2>4. Referenced(win[s], windows, win') BY <2>1, <2>2 DEF Referenced
  <2>q. QED BY <1>1, <2>1, <2>2, <2>3, <2>4
<1>q. QED BY <1>1, <1>4, <1>6, <1>7, <1>8, Unaffected

\* What a request finds and leaves in the window that it counts in.
Counts(o, b, c, time) ==
  /\ b = IF time > o.end THEN [end |-> time + Window, requests |-> 0] ELSE o
  /\ c.end = b.end
  /\ c.requests = IF b.requests < Limit THEN b.requests + 1 ELSE b.requests

\* Either nothing is counted, or the count goes up, or the window was over and is late now.
LEMMA CountCases ==
  ASSUME NEW o \in Object, NEW b \in Object, NEW c \in Object, NEW time \in Nat, Counts(o, b, c, time),
         NEW u \in Int, NEW n \in Nat, u <= n, n - u < Window - MaxDelay, time <= n, n <= time + MaxDelay
  PROVE  \/ ~(b.requests < Limit) /\ c.end = o.end /\ c.requests = o.requests
         \/ b.requests < Limit /\ c.end = o.end /\ o.requests < Limit /\ c.requests = o.requests + 1
         \/ b.requests < Limit /\ ~Late(o, u) /\ Late(c, u) /\ c.requests = 1
<1>1. o.end \in Nat /\ o.requests \in Nat BY Numbers DEF Object
<1>2. CASE time > o.end
  <2>1. b = [end |-> time + Window, requests |-> 0] BY <1>2 DEF Counts
  <2>2. b.requests = 0 /\ b.end = time + Window BY <2>1
  <2>3. c.requests = 1 /\ c.end = time + Window /\ b.requests < Limit BY <2>2, Numbers DEF Counts
  <2>4. Late(c, u) BY <2>3, Numbers DEF Late
  <2>5. ~Late(o, u) BY <1>1, <1>2, Numbers DEF Late
  <2>q. QED BY <2>3, <2>4, <2>5
<1>3. CASE ~(time > o.end)
  <2>1. b = o BY <1>3 DEF Counts
  <2>q. QED BY <2>1 DEF Counts
<1>q. QED BY <1>2, <1>3

\* One more has passed, if it was counted.
LEMMA CountSince ==
  ASSUME HeapInv, NEW r \in Requests, NEW k \in Keys, key[r] = k, NEW b,
         passed' = [passed EXCEPT ![key[r]] = IF b.requests < Limit THEN @ \cup {NextPass(key[r])} ELSE @],
         NEW u \in Int, u <= clock
  PROVE  /\ b.requests < Limit => Cardinality(Since(k, u)') = Cardinality(Since(k, u)) + 1
         /\ ~(b.requests < Limit) => Cardinality(Since(k, u)') = Cardinality(Since(k, u))
<1>1. passed'[k] = IF b.requests < Limit THEN passed[k] \cup {NextPass(k)} ELSE passed[k]
  BY DEF HeapInv, TypeOK
<1>2. ASSUME b.requests < Limit PROVE Cardinality(Since(k, u)') = Cardinality(Since(k, u)) + 1
  <2>1. passed'[k] = passed[k] \cup {NextPass(k)} BY <1>1, <1>2
  <2>q. QED BY <2>1, PassAdded
<1>3. ASSUME ~(b.requests < Limit) PROVE Cardinality(Since(k, u)') = Cardinality(Since(k, u))
  <2>1. passed'[k] = passed[k] BY <1>1, <1>3
  <2>2. Since(k, u)' = Since(k, u) BY <2>1 DEF Since
  <2>q. QED BY <2>2
<1>q. QED BY <1>2, <1>3

\* A pass takes a place of the window of the map, or of one that was dropped, or the
\* one reserved for its request.
LEMMA CountBudget ==
  ASSUME HeapInv, HeapInv', NEW k \in Keys, NEW u \in Int, Budget(k, u),
         u <= clock, clock - u < Window - MaxDelay,
         NEW r \in Requests, Count(r), key[r] = k
  PROVE  Budget(k, u)'
<1>0. PICK w \in Windows, b \in Object, c \in Object : CountsIn(r, w, b, c) BY CountFacts
<1>1. /\ pc[r] = "count" /\ win[r] = w
      /\ b = IF now[r] > heap[w].end THEN New(r) ELSE heap[w]
      /\ c.end = b.end /\ c.requests = IF b.requests < Limit THEN b.requests + 1 ELSE b.requests
      /\ win' = [win EXCEPT ![r] = NoWindow]
      /\ pc' = [pc EXCEPT ![r] = "idle"] /\ now' = [now EXCEPT ![r] = 0]
      /\ heap' \in [Windows -> Object]
      /\ heap'[w] \in {c, Blank}
      /\ Referenced(w, windows, win') => heap'[w] = c
      /\ \A v \in Windows \ {w} : heap'[v] \in {heap[v], Blank}
      /\ \A v \in Windows \ {w} : Referenced(v, windows, win') => heap'[v] = heap[v]
      /\ passed' = [passed EXCEPT ![key[r]] =
                      IF b.requests < Limit THEN @ \cup {NextPass(key[r])} ELSE @]
      /\ UNCHANGED <<clock, windows, key>>
  BY <1>0 DEF CountsIn
<1>2. /\ win'[r] = NoWindow /\ pc'[r] = "idle" /\ w # NoWindow
      /\ \A s \in Requests \ {r} : win'[s] = win[s] /\ pc'[s] = pc[s]
  BY <1>1, Numbers DEF HeapInv, TypeOK
<1>3. PICK o \in Object : o = heap[w] BY DEF HeapInv, TypeOK
<1>4. PICK time \in Nat, n \in Nat : time = now[r] /\ n = clock BY DEF HeapInv, TypeOK
<1>5. time <= n /\ n <= time + MaxDelay /\ u <= n /\ n - u < Window - MaxDelay
  BY <1>1, <1>4 DEF HeapInv, TimeInv
<1>6. Counts(o, b, c, time) BY <1>1, <1>3, <1>4 DEF Counts, New
<1>7. \/ ~(b.requests < Limit) /\ c.end = o.end /\ c.requests = o.requests
      \/ b.requests < Limit /\ c.end = o.end /\ o.requests < Limit /\ c.requests = o.requests + 1
      \/ b.requests < Limit /\ ~Late(o, u) /\ Late(c, u) /\ c.requests = 1
  BY <1>5, <1>6, CountCases
<1>8. PICK s \in Nat, d \in 0..1 :
        /\ s = Cardinality(Since(k, u)) /\ s + d = Cardinality(Since(k, u)')
        /\ d = IF b.requests < Limit THEN 1 ELSE 0
  <2>1. PICK s \in Nat : s = Cardinality(Since(k, u)) BY BudgetTypes
  <2>2. b.requests < Limit => Cardinality(Since(k, u)') = s + 1 BY <1>1, <2>1, CountSince
  <2>3. ~(b.requests < Limit) => Cardinality(Since(k, u)') = s BY <1>1, <2>1, CountSince
  <2>q. QED BY <2>1, <2>2, <2>3
<1>9. PICK St \in SUBSET Requests :
        St = Stales(k) /\ St = Stales(k)' /\ r \notin St /\ IsFiniteSet(St) /\ Cardinality(St) \in Nat
  <2>1. \A q \in Requests : Stale(q, k)' <=> Stale(q, k) BY <1>1, <1>2 DEF Stale
  <2>2. Stales(k)' = Stales(k) BY <2>1 DEF Stales
  <2>3. r \notin Stales(k) BY <1>1 DEF Stales, Stale
  <2>q. QED BY <2>2, <2>3, BudgetTypes
<1>10. \A q \in Requests \ {r}, v \in Windows : win[q] = v => heap'[v] = IF v = w THEN c ELSE heap[v]
  <2>1. \A q \in Requests \ {r} : Referenced(win[q], windows, win') BY <1>2 DEF Referenced
  <2>q. QED BY <1>1, <2>1
<1>11. windows[k] # NoWindow => heap'[windows[k]] = IF windows[k] = w THEN c ELSE heap[windows[k]]
  <2>1. Referenced(windows[k], windows, win') BY DEF Referenced
  <2>q. QED BY <1>1, <2>1, BudgetTypes
<1>12. CASE windows[k] = w
  <2>1. Lefts(k)' = Lefts(k)
    <3>1. \A q \in Requests : Left(q, k)' <=> Left(q, k) BY <1>1, <1>2, <1>12 DEF Left
    <3>q. QED BY <3>1 DEF Lefts
  <2>2. ASSUME NEW q \in Lefts(k) PROVE win'[q] = win[q] /\ heap'[win[q]] = heap[win[q]]
    <3>1. q \in Requests /\ win[q] \in Windows /\ win[q] # w BY <1>12, <2>2, LeftFacts
    <3>2. q # r BY <1>1, <3>1
    <3>q. QED BY <1>2, <1>10, <3>1, <3>2
  <2>3. heap'[w] = c BY <1>2, <1>11, <1>12
  <2>4. PICK x \in Nat, y \in Nat : x = Cardinality(St) * Limit /\ y = Many * Limit /\ x + Limit <= y
    <3>1. Cardinality(St) + 1 <= Many BY <1>9, Without
    <3>2. /\ (Cardinality(St) + 1) * Limit <= Many * Limit /\ Many * Limit \in Nat
          /\ (Cardinality(St) + 1) * Limit = Cardinality(St) * Limit + Limit
          /\ Cardinality(St) * Limit \in Nat
      <4>1. PICK a \in Nat : a = Cardinality(St) BY <1>9
      <4>2. a + 1 \in Nat /\ a + 1 <= Many /\ Many \in Nat /\ Limit \in Nat BY <3>1, <4>1, Numbers
      <4>3. (a + 1) * Limit <= Many * Limit /\ Many * Limit \in Nat BY <4>2, Times
      <4>4. a <= a + 1 BY <4>1
      <4>5. a * Limit \in Nat /\ (a + 1) * Limit = a * Limit + Limit BY <4>2, <4>4, Times
      <4>q. QED BY <4>1, <4>3, <4>5
    <3>q. QED BY <3>2
  <2>5. Spent(k, u) = s + (Limit - o.requests + IF Late(o, u) THEN x ELSE y + Fewer)
    BY <1>2, <1>3, <1>8, <1>9, <1>12, <2>4 DEF Spent, Coming
  <2>6. Spent(k, u)' = s + d + (Limit - c.requests + IF Late(c, u) THEN x ELSE y + Fewer)
    BY <1>1, <1>2, <1>8, <1>9, <1>12, <2>3, <2>4 DEF Spent, Coming
  <2>7. o.requests \in Nat /\ o.requests <= Limit /\ c.requests \in Nat /\ c.requests <= Limit
        /\ b.requests \in Nat
    BY Numbers DEF Object
  <2>8. Spent(k, u)' <= Spent(k, u) /\ Spent(k, u)' \in Int
    <3>1. CASE c.end = o.end /\ c.requests = o.requests + d
      <4>1. Late(c, u) <=> Late(o, u) BY <3>1 DEF Late
      <4>2. CASE Late(o, u) BY <1>8, <2>4, <2>5, <2>6, <2>7, <3>1, <4>1, <4>2, Numbers
      <4>3. CASE ~Late(o, u) BY <1>8, <2>4, <2>5, <2>6, <2>7, <3>1, <4>1, <4>3, Numbers
      <4>q. QED BY <4>2, <4>3
    <3>2. CASE d = 1 /\ ~Late(o, u) /\ Late(c, u) /\ c.requests = 1
      <4>1. Spent(k, u)' = s + 1 + (Limit - 1 + x) BY <2>6, <3>2
      <4>2. Spent(k, u) = s + (Limit - o.requests + (y + Fewer)) BY <2>5, <3>2
      <4>q. QED BY <2>4, <2>7, <4>1, <4>2, Numbers
    <3>q. QED BY <1>7, <1>8, <2>7, <3>1, <3>2
  <2>q. QED BY <2>1, <2>2, <2>8, SameLefts
<1>13. CASE windows[k] # w
  <2>1. PICK l \in SUBSET Requests : l = Lefts(k) BY BudgetTypes
  <2>2. r \in l BY <1>1, <1>2, <1>13, <2>1 DEF Lefts, Left
  <2>3. Lefts(k)' = l \ {r}
    <3>1. \A q \in Requests : Left(q, k)' <=> Left(q, k) /\ q # r BY <1>1, <1>2 DEF Left
    <3>q. QED BY <2>1, <3>1 DEF Lefts
  <2>4. PICK h, h2, f, f2 : h = heap /\ h2 = heap' /\ f = win /\ f2 = win' OBVIOUS
  <2>5. PICK g \in Nat : g = Coming(heap, windows[k], Cardinality(Stales(k)), u) BY BudgetTypes
  <2>6. Coming(heap', windows'[k], Cardinality(Stales(k)'), u) = g
    <3>1. windows'[k] = windows[k] /\ (windows[k] # NoWindow => heap'[windows[k]] = heap[windows[k]])
      BY <1>1, <1>11, <1>13
    <3>q. QED BY <1>9, <2>5, <3>1 DEF Coming
  <2>7. Spent(k, u) = s + g /\ Spent(k, u)' = s + d + g BY <1>8, <2>5, <2>6 DEF Spent
  <2>8. Fits(h, f, l, u, s + g) BY <2>1, <2>4, <2>7 DEF Budget
  <2>9. ASSUME NEW q \in l \ {r} PROVE f2[q] = f[q] /\ h2[f[q]] = IF f[q] = f[r] THEN c ELSE h[f[q]]
    <3>1. q \in Requests /\ win[q] \in Windows BY <2>1, <2>9, LeftFacts
    <3>q. QED BY <1>1, <1>2, <1>10, <2>4, <2>9, <3>1
  <2>10. /\ Places(c, u) \subseteq Places(o, u)
         /\ \/ s + d + g <= s + g
            \/ s + d + g <= s + g + 1 /\ Places(c, u) # Places(o, u)
    <3>1. CASE ~(b.requests < Limit) /\ c.end = o.end /\ c.requests = o.requests
      <4>1. Places(c, u) = Places(o, u) BY <3>1 DEF Places, Late
      <4>2. d = 0 BY <1>8, <3>1
      <4>q. QED BY <4>1, <4>2
    <3>2. CASE \/ c.end = o.end /\ o.requests < Limit /\ c.requests = o.requests + 1
               \/ ~Late(o, u) /\ Late(c, u) /\ c.requests = 1
      <4>1. Places(c, u) \subseteq Places(o, u) /\ Places(c, u) # Places(o, u) BY <3>2, PlaceTaken
      <4>q. QED BY <4>1
    <3>q. QED BY <1>7, <3>1, <3>2
  <2>11. PICK n1 \in Int, m1 \in Int : n1 = s + g /\ m1 = s + d + g OBVIOUS
  <2>12. Taken(l, f, f2, h, h2, u, n1, m1, r, c)
    <3>1. h[f[r]] = o BY <1>1, <1>3, <2>4
    <3>2. Fits(h, f, l, u, n1) BY <2>8, <2>11
    <3>3. \/ m1 <= n1
          \/ m1 <= n1 + 1 /\ Places(c, u) # Places(h[f[r]], u)
      BY <2>10, <2>11, <3>1
    <3>4. Places(c, u) \subseteq Places(h[f[r]], u) BY <2>10, <3>1
    <3>q. QED BY <2>9, <3>2, <3>3, <3>4 DEF Taken
  <2>13. Fits(h2, f2, l \ {r}, u, m1) BY <2>2, <2>12, FitsTaken
  <2>q. QED BY <2>3, <2>4, <2>7, <2>11, <2>13 DEF Budget
<1>q. QED BY <1>12, <1>13

\* What may pass in the ticks from the next one on.
LEMMA Algebra ==
  ASSUME NEW n \in Nat, NEW x \in Nat, n >= 1, x >= 1
  PROVE  n - 1 + (x - 1) + (IF n < x THEN n ELSE x) <= n * x
<1>1. CASE n < x
  <2>1. PICK a \in Nat, b \in Nat : n = a + 1 /\ x = b + 2 BY <1>1
  <2>2. n * x = a * b + 2 * a + b + 2 /\ a * b \in Nat BY <2>1
  <2>q. QED BY <1>1, <2>1, <2>2
<1>2. CASE ~(n < x) /\ n >= 2
  <2>1. PICK a \in Nat, b \in Nat : n = a + 2 /\ x = b + 1 BY <1>2
  <2>2. n * x = a * b + a + 2 * b + 2 /\ a * b \in Nat BY <2>1
  <2>q. QED BY <1>2, <2>1, <2>2
<1>3. CASE n = 1 /\ x = 1 BY <1>3
<1>q. QED BY <1>1, <1>2, <1>3

\* At a time that is new, what is spent is one window and one pass for each request
\* that holds another.
LEMMA FreshBudget ==
  ASSUME LimiterInv, NEW k \in Keys, MaxDelay < Window,
         \A r \in Requests : pc[r] \in {"create", "count"} => clock < now[r] + MaxDelay
  PROVE  Coming(heap, windows[k], Cardinality(Stales(k)), clock + 1) + Cardinality(Lefts(k)) <= 2 * (Many * Limit)
<1>1. HeapInv /\ FirstInv /\ CurrentInv BY DEF LimiterInv
<1>2. PICK St \in SUBSET Requests, l \in SUBSET Requests :
        /\ St = Stales(k) /\ IsFiniteSet(St) /\ Cardinality(St) \in Nat
        /\ l = Lefts(k) /\ IsFiniteSet(l) /\ Cardinality(l) \in Nat
  BY <1>1, BudgetTypes
<1>3. PICK a \in Nat, b \in Nat, y \in Nat : a = Cardinality(St) /\ b = Cardinality(l) /\ y = Many * Limit
  BY <1>2, Numbers
<1>4. b <= Many BY <1>2, <1>3, Numbers, FS_Subset DEF Many
<1>5. Many <= y
  <2>1. Many * 1 <= Many * Limit
    <3>1. 1 * Many <= Limit * Many BY Numbers, Times
    <3>q. QED BY <3>1, Numbers
  <2>q. QED BY <1>3, <2>1, Numbers
<1>6. CASE windows[k] = NoWindow
  <2>1. Coming(heap, windows[k], Cardinality(Stales(k)), clock + 1) = y BY <1>3, <1>6 DEF Coming
  <2>q. QED BY <1>2, <1>3, <1>4, <1>5, <2>1, Numbers
<1>7. CASE windows[k] # NoWindow
  <2>1. PICK o \in Object : o = heap[windows[k]] BY <1>1, <1>7, BudgetTypes
  <2>2. o.requests \in Nat /\ o.requests <= Limit /\ o.end \in Nat BY Numbers DEF Object
  <2>3. PICK r \in Requests : r \notin St /\ r \notin l BY <1>1, <1>2, <1>7 DEF CurrentInv, Stales, Lefts
  <2>4. a + b + 1 <= Many
    <3>1. St \cap l = {}
      <4>1. \A q \in Requests : ~(Stale(q, k) /\ Left(q, k)) BY DEF Stale, Left
      <4>q. QED BY <1>2, <4>1 DEF Stales, Lefts
    <3>2. Cardinality(St \cup l) = a + b
      <4>1. Cardinality(St \cup l) = Cardinality(St) + Cardinality(l) - Cardinality(St \cap l)
        BY <1>2, FS_Union
      <4>2. Cardinality(St \cap l) = 0 BY <3>1, FS_EmptySet
      <4>q. QED BY <1>3, <4>1, <4>2
    <3>3. St \cup l \in SUBSET Requests /\ r \notin St \cup l BY <2>3
    <3>4. Cardinality(St \cup l) + 1 <= Many BY <3>3, Without
    <3>q. QED BY <3>2, <3>4
  <2>5. CASE Late(o, clock + 1)
    <3>1. Coming(heap, windows[k], Cardinality(Stales(k)), clock + 1) = Limit - o.requests + a * Limit
      BY <1>2, <1>3, <1>7, <2>1, <2>5 DEF Coming
    <3>2. a * Limit \in Nat /\ a * Limit + Limit <= y
      <4>1. a + 1 \in Nat /\ a + 1 <= Many /\ Many \in Nat /\ Limit \in Nat BY <2>4, Numbers
      <4>2. (a + 1) * Limit <= Many * Limit BY <4>1, Times
      <4>3. a <= a + 1 OBVIOUS
      <4>4. a * Limit \in Nat /\ (a + 1) * Limit = a * Limit + Limit BY <4>1, <4>3, Times
      <4>q. QED BY <1>3, <4>2, <4>4
    <3>q. QED BY <1>2, <1>3, <1>4, <1>5, <2>2, <3>1, <3>2, Numbers
  <2>6. CASE ~Late(o, clock + 1)
    <3>1. o.requests >= 1
      <4>1. ASSUME o.requests = 0 PROVE FALSE
        <5>1. PICK q \in Requests : pc[q] = "count" /\ o.end = now[q] + Window
          BY <1>1, <1>7, <2>1, <4>1 DEF FirstInv
        <5>2. now[q] \in Nat /\ clock \in Nat /\ clock < now[q] + MaxDelay BY <1>1, <5>1 DEF HeapInv, TypeOK
        <5>q. QED BY <2>6, <5>1, <5>2, Numbers DEF Late
      <4>q. QED BY <2>2, <4>1
    <3>2. Coming(heap, windows[k], Cardinality(Stales(k)), clock + 1) = Limit - o.requests + (y + Fewer)
      BY <1>3, <1>7, <2>1, <2>6 DEF Coming
    <3>3. Many >= 1 /\ Limit >= 1 /\ Many \in Nat /\ Limit \in Nat BY <2>4, Numbers
    <3>4. Many - 1 + (Limit - 1) + Fewer <= y BY <1>3, <3>3, Algebra DEF Fewer
    <3>q. QED BY <1>2, <1>3, <2>2, <2>4, <3>1, <3>2, <3>3, <3>4, Numbers
  <2>q. QED BY <2>5, <2>6
<1>q. QED BY <1>6, <1>7

\* Without a choice of windows, each request that holds one counts for one.
LEMMA FitsFresh ==
  ASSUME NEW l \in SUBSET Requests, NEW f, NEW h, NEW u, NEW n, n + Cardinality(l) <= 2 * (Many * Limit), n \in Int
  PROVE  Fits(h, f, l, u, n)
<1>1. {} \in SUBSET Held(l, f) OBVIOUS
<1>2. Holders(l, f, {}) = l /\ Room(h, {}, u) = {} BY DEF Holders, Room
<1>3. Cardinality({}) = 0 BY FS_EmptySet
<1>4. Cardinality(l) \in Nat BY Numbers, FS_Subset, FS_CardinalityType
<1>5. n + Cardinality(Holders(l, f, {})) + Cardinality(Room(h, {}, u)) <= 2 * (Many * Limit)
  <2>1. PICK x \in Nat : x = Cardinality(l) BY <1>4
  <2>2. n + x + 0 = n + x OBVIOUS
  <2>q. QED BY <1>2, <1>3, <2>1, <2>2
<1>q. QED BY <1>1, <1>5 DEF Fits

\* A tick adds a time, which has seen no pass.
LEMMA TickBudget ==
  ASSUME LimiterInv, LimiterInv', BudgetInv, NEW k \in Keys, NEW u \in Int,
         u <= clock + 1, clock + 1 - u < Window - MaxDelay, Tick
  PROVE  Budget(k, u)'
<1>1. /\ \A r \in Requests : pc[r] \in {"create", "count"} => clock < now[r] + MaxDelay
      /\ passed' = [j \in Keys |-> Since(j, clock + 1 - Window - MaxDelay)]
      /\ UNCHANGED <<windows, heap, pc, key, now, win>>
  BY DEF Tick
<1>2. HeapInv /\ HeapInv' BY DEF LimiterInv
<1>3. clock \in Nat BY <1>2 DEF HeapInv, TypeOK
<1>4. PICK c \in Int : c = clock + 1 - Window - MaxDelay BY <1>3, Numbers
<1>5. passed'[k] = Since(k, c) BY <1>1, <1>4
<1>6. Lefts(k)' = Lefts(k) /\ Stales(k)' = Stales(k) BY <1>1 DEF Lefts, Left, Stales, Stale
<1>7. CASE u <= clock
  <2>1. clock - u < Window - MaxDelay BY <1>3, Numbers
  <2>2. Budget(k, u) BY <1>7, <2>1 DEF BudgetInv
  <2>3. u >= c BY <1>3, <1>4, Numbers
  <2>4. Since(k, u)' = Since(k, u) BY <1>2, <1>5, <2>3, PassDropped
  <2>q. QED BY <1>1, <1>2, <1>6, <2>2, <2>4, Unaffected
<1>8. CASE u = clock + 1
  <2>1. MaxDelay < Window BY <1>3, <1>8, Numbers
  <2>2. Cardinality(Since(k, u)') = 0
    <3>1. \A p \in passed'[k] : p \in passed[k] BY <1>5 DEF Since
    <3>2. \A p \in passed[k] : p.at \in Nat /\ p.at <= clock BY <1>2 DEF HeapInv, TypeOK, TimeInv, Pass
    <3>3. \A p \in passed'[k] : ~(p.at >= u) BY <1>3, <1>8, <3>1, <3>2
    <3>4. Since(k, u)' = {} BY <3>3 DEF Since
    <3>q. QED BY <3>4, FS_EmptySet
  <2>3. PICK n \in Nat : n = Coming(heap, windows[k], Cardinality(Stales(k)), u) BY <1>2, BudgetTypes
  <2>4. Coming(heap', windows'[k], Cardinality(Stales(k)'), u) = n BY <1>1, <1>6, <2>3
  <2>5. Spent(k, u)' = n BY <2>2, <2>3, <2>4 DEF Spent
  <2>6. PICK l \in SUBSET Requests : l = Lefts(k) BY <1>2, BudgetTypes
  <2>7. n + Cardinality(l) <= 2 * (Many * Limit) BY <1>1, <1>8, <2>1, <2>3, <2>6, FreshBudget
  <2>8. Fits(heap', win', l, u, n) BY <2>7, FitsFresh
  <2>q. QED BY <1>6, <2>5, <2>6, <2>8 DEF Budget
<1>q. QED BY <1>3, <1>7, <1>8

\* Before the first request nothing is spent.
LEMMA InitBudget == Init => BudgetInv
<1> SUFFICES ASSUME Init, NEW k \in Keys, NEW u \in Int PROVE Budget(k, u)
  BY DEF BudgetInv
<1>1. LimiterInv BY InitLimiter
<1>2. HeapInv BY <1>1 DEF LimiterInv
<1>3. windows[k] = NoWindow /\ passed[k] = {} /\ \A r \in Requests : win[r] = NoWindow BY DEF Init
<1>4. Lefts(k) = {} BY <1>3 DEF Lefts, Left
<1>5. Since(k, u) = {} BY <1>3 DEF Since
<1>6. PICK y \in Nat : y = Many * Limit BY Numbers
<1>7. Spent(k, u) = y BY <1>3, <1>5, <1>6, FS_EmptySet DEF Spent, Coming
<1>8. y + Cardinality(Lefts(k)) <= 2 * (Many * Limit) BY <1>4, <1>6, FS_EmptySet
<1>9. PICK l \in SUBSET Requests, n \in Int : l = Lefts(k) /\ n = y BY <1>4
<1>10. Fits(heap, win, l, u, n) BY <1>8, <1>9, FitsFresh
<1>q. QED BY <1>7, <1>9, <1>10 DEF Budget

\* BudgetInv is kept by every step.
LEMMA BudgetStep ==
  ASSUME LimiterInv, LimiterInv', BudgetInv, [Next]_vars
  PROVE  BudgetInv'
<1>1. HeapInv /\ HeapInv' BY DEF LimiterInv
<1>2. ASSUME clock' = clock,
             \A k \in Keys, u \in Int :
               Budget(k, u) /\ u <= clock /\ clock - u < Window - MaxDelay => Budget(k, u)'
      PROVE  BudgetInv'
  BY <1>2 DEF BudgetInv
<1>3. ASSUME NEW r \in Requests, NEW l \in Keys, Arrive(r, l) PROVE BudgetInv'
  <2>1. clock' = clock BY <1>3 DEF Arrive
  <2>2. \A k \in Keys, u \in Int : Budget(k, u) => Budget(k, u)' BY <1>1, <1>3, ArriveBudget
  <2>q. QED BY <1>2, <2>1, <2>2
<1>4. ASSUME NEW r \in Requests, Lookup(r) PROVE BudgetInv'
  <2>1. clock' = clock BY <1>4 DEF Lookup
  <2>2. \A k \in Keys, u \in Int : Budget(k, u) => Budget(k, u)' BY <1>1, <1>4, LookupBudget
  <2>q. QED BY <1>2, <2>1, <2>2
<1>5. ASSUME NEW r \in Requests, ReadClock(r) PROVE BudgetInv'
  <2>1. clock' = clock BY <1>5 DEF ReadClock
  <2>2. \A k \in Keys, u \in Int : Budget(k, u) => Budget(k, u)' BY <1>1, <1>5, ReadClockBudget
  <2>q. QED BY <1>2, <2>1, <2>2
<1>6. ASSUME NEW r \in Requests, Create(r) PROVE BudgetInv'
  <2>1. clock' = clock BY <1>6 DEF Create
  <2>2. \A k \in Keys, u \in Int : Budget(k, u) /\ u <= clock => Budget(k, u)'
    BY <1>1, <1>6, CreateOther, CreateBudget
  <2>q. QED BY <1>2, <2>1, <2>2
<1>7. ASSUME NEW r \in Requests, Count(r) PROVE BudgetInv'
  <2>1. clock' = clock BY <1>7 DEF Count
  <2>2. \A k \in Keys, u \in Int :
          Budget(k, u) /\ u <= clock /\ clock - u < Window - MaxDelay => Budget(k, u)'
    BY <1>1, <1>7, CountOther, CountBudget
  <2>q. QED BY <1>2, <2>1, <2>2
<1>8. ASSUME Cleanup PROVE BudgetInv'
  <2>1. clock' = clock BY <1>8 DEF Cleanup
  <2>2. \A k \in Keys, u \in Int :
          Budget(k, u) /\ u <= clock /\ clock - u < Window - MaxDelay => Budget(k, u)'
    BY <1>1, <1>8, CleanupBudget
  <2>q. QED BY <1>2, <2>1, <2>2
<1>9. ASSUME Tick PROVE BudgetInv'
  <2>1. clock' = clock + 1 /\ clock \in Nat BY <1>1, <1>9 DEF Tick, HeapInv, TypeOK
  <2>2. ASSUME NEW k \in Keys, NEW u \in Int, u <= clock', clock' - u < Window - MaxDelay
        PROVE  Budget(k, u)'
    <3>1. u <= clock + 1 /\ clock + 1 - u < Window - MaxDelay BY <2>1, <2>2
    <3>q. QED BY <1>9, <3>1, TickBudget
  <2>q. QED BY <2>2 DEF BudgetInv
<1>10. CASE UNCHANGED vars
  <2>1. UNCHANGED <<clock, windows, heap, pc, key, now, win, passed>> BY <1>10 DEF vars
  <2>2. \A k \in Keys, u \in Int : Budget(k, u)' <=> Budget(k, u)
    BY <2>1 DEF Budget, Spent, Since, Stales, Stale, Lefts, Left
  <2>q. QED BY <1>2, <2>1, <2>2
<1>q. QED BY <1>3, <1>4, <1>5, <1>6, <1>7, <1>8, <1>9, <1>10 DEF Next, Allow

\* What has passed of a key since any time of the last window, and what may still pass
\* in the windows that requests and the map hold, is within twice the limit per request.
THEOREM BudgetInvariant == Spec => [](LimiterInv /\ BudgetInv)
<1>1. Init => LimiterInv /\ BudgetInv BY InitLimiter, InitBudget
<1>2. LimiterInv /\ BudgetInv /\ [Next]_vars => (LimiterInv /\ BudgetInv)'
  <2> SUFFICES ASSUME LimiterInv, BudgetInv, [Next]_vars PROVE LimiterInv' /\ BudgetInv' OBVIOUS
  <2>1. LimiterInv' BY LimiterStep
  <2>2. BudgetInv' BY <2>1, BudgetStep
  <2>q. QED BY <2>1, <2>2
<1>q. QED BY <1>1, <1>2, PTL DEF Spec

\* The budget of the time that BurstBound speaks of is the bound.
LEMMA BudgetBound ==
  ASSUME LimiterInv, BudgetInv
  PROVE  BurstBound
<1>1. HeapInv BY DEF LimiterInv
<1>2. clock \in Nat BY <1>1 DEF HeapInv, TypeOK
<1>3. PICK u \in Int : u = clock - Window + MaxDelay + 1 BY <1>2, Numbers
<1>4. PICK y \in Nat : y = Many * Limit BY Numbers
<1>5. 2 * Cardinality(Requests) * Limit = 2 * y
  <2>1. PICK a \in Nat, b \in Nat : a = Cardinality(Requests) /\ b = Limit BY Numbers DEF Many
  <2>2. 2 * a * b = 2 * (a * b) OBVIOUS
  <2>q. QED BY <1>4, <2>1, <2>2 DEF Many
<1>6. ASSUME NEW k \in Keys PROVE Cardinality(Since(k, u)) <= 2 * y
  <2>1. CASE u <= clock
    <3>1. clock - u < Window - MaxDelay BY <1>2, <1>3, Numbers
    <3>2. PICK l \in SUBSET Requests, n \in Int, s \in Nat, g \in Nat :
            /\ l = Lefts(k) /\ n = Spent(k, u) /\ s = Cardinality(Since(k, u)) /\ n = s + g
      BY <1>1, BudgetTypes DEF Spent
    <3>3. Fits(heap, win, l, u, n) BY <2>1, <3>1, <3>2 DEF BudgetInv, Budget
    <3>4. PICK A \in SUBSET Held(l, win) :
            n + Cardinality(Holders(l, win, A)) + Cardinality(Room(heap, A, u)) <= 2 * (Many * Limit)
      BY <3>3 DEF Fits
    <3>5. PICK x \in Nat, z \in Nat : x = Cardinality(Holders(l, win, A)) /\ z = Cardinality(Room(heap, A, u))
      BY Sizes
    <3>q. QED BY <1>4, <3>2, <3>4, <3>5
  <2>2. CASE u > clock
    <3>1. \A p \in passed[k] : p.at \in Nat /\ p.at <= clock BY <1>1 DEF HeapInv, TypeOK, TimeInv, Pass
    <3>2. Since(k, u) = {} BY <1>2, <2>2, <3>1 DEF Since
    <3>q. QED BY <3>2, FS_EmptySet
  <2>q. QED BY <1>2, <2>1, <2>2
<1>q. QED BY <1>3, <1>5, <1>6 DEF BurstBound

\* However many requests race to create a window of LocalLimiter, find it over or hold one
\* that was replaced or cleaned up, less than a window lets twice the limit pass for each.
THEOREM BurstBoundHolds == Spec => []BurstBound
<1>1. LimiterInv /\ BudgetInv => BurstBound BY BudgetBound
<1>q. QED BY <1>1, BudgetInvariant, PTL
=============================================================================
