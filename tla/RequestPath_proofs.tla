-------------------------- MODULE RequestPath_proofs --------------------------
(***************************************************************************)
(* Proofs about RequestPath, for any snapshots and requests that are well  *)
(* formed.  PathInv says, conjunct by conjunct, what is known on the way:  *)
(* RecInv how often the request has been recorded, RouteInv which routes   *)
(* and policies did not apply, ChainInv that the chain holds the plugins   *)
(* in force and that what ran stood for its name, OnceInv that a name to   *)
(* come has not run in this phase, SeenInv that a plugin in force ran or   *)
(* is to come, KnownInv and KeysInv what is known of the consumer.  Each   *)
(* has a lemma that a step keeps it; before them come the lemmas about the *)
(* lists and places that RouteMatch and PluginChain choose from.           *)
(***************************************************************************)
EXTENDS RequestPath, FiniteSetTheorems, SequenceTheorems, TLAPS

-----------------------------------------------------------------------------
(* Places of a list, in their order. *)

\* There is one element of S of each rank, which grows with w.
Ranked(S, w) ==
  /\ Cardinality(S) \in Nat
  /\ \A x \in S : Cardinality({y \in S : w[y] <= w[x]}) \in 1..Cardinality(S)
  /\ \A n \in 1..Cardinality(S) : \E x \in S : Cardinality({y \in S : w[y] <= w[x]}) = n
  /\ \A x, y \in S : Cardinality({z \in S : w[z] <= w[x]}) = Cardinality({z \in S : w[z] <= w[y]})
                        => x = y
  /\ \A x, y \in S : w[x] <= w[y] =>
        Cardinality({z \in S : w[z] <= w[x]}) <= Cardinality({z \in S : w[z] <= w[y]})

\* So it is in a finite set that distinct integers order.
LEMMA Ranks ==
  ASSUME NEW S, IsFiniteSet(S), NEW w \in [S -> Int], \A x, y \in S : w[x] = w[y] => x = y
  PROVE  Ranked(S, w)
<1> DEFINE below(x) == {y \in S : w[y] <= w[x]}
           N == Cardinality(S)
           f == [x \in S |-> Cardinality(below(x))]
<1>1. N \in Nat BY FS_CardinalityType
<1>2. ASSUME NEW x \in S PROVE f[x] \in 1..N /\ IsFiniteSet(below(x)) /\ f[x] = Cardinality(below(x))
  <2>1. below(x) \subseteq S /\ x \in below(x) OBVIOUS
  <2>2. IsFiniteSet(below(x)) /\ Cardinality(below(x)) <= N BY <2>1, FS_Subset
  <2>3. Cardinality(below(x)) \in Nat BY <2>2, FS_CardinalityType
  <2>4. Cardinality(below(x)) # 0 BY <2>1, <2>2, FS_EmptySet
  <2>5. f[x] = Cardinality(below(x)) OBVIOUS
  <2> HIDE DEF f, N, below
  <2>q. QED BY <1>1, <2>2, <2>3, <2>4, <2>5
<1>3. ASSUME NEW x \in S, NEW y \in S, w[x] <= w[y]
      PROVE  f[x] <= f[y] /\ (f[x] = f[y] => x = y)
  <2>0. \A z \in S : w[z] \in Int OBVIOUS
  <2>1. below(x) \subseteq below(y) BY <1>3, <2>0
  <2>2. /\ Cardinality(below(x)) <= Cardinality(below(y))
        /\ Cardinality(below(y)) = Cardinality(below(x)) => below(y) = below(x)
    BY <1>2, <2>1, FS_Subset
  <2>3. below(y) = below(x) => y \in below(x) OBVIOUS
  <2>4. y \in below(x) => x = y BY <1>3, <2>0
  <2>q. QED BY <1>2, <2>2, <2>3, <2>4
<1>4. \A x, y \in S : f[x] = f[y] => x = y
  <2> SUFFICES ASSUME NEW x \in S, NEW y \in S, f[x] = f[y] PROVE x = y OBVIOUS
  <2>1. w[x] <= w[y] \/ w[y] <= w[x] OBVIOUS
  <2> HIDE DEF f
  <2>q. QED BY <2>1, <1>3
<1>5. f \in Injection(S, 1..N)
  <2>1. f \in [S -> 1..N] BY <1>2
  <2> HIDE DEF f
  <2>q. QED BY <1>4, <2>1 DEF Injection, IsInjective
<1>6. f \in Surjection(S, 1..N)
  <2>1. IsFiniteSet(1..N) /\ Cardinality(1..N) = N BY <1>1, FS_Interval
  <2> HIDE DEF f, N
  <2>2. Cardinality(S) = Cardinality(1..N) BY <2>1 DEF N
  <2>q. QED BY <1>5, <2>1, <2>2, FS_Injection
<1>7. \A n \in 1..N : \E x \in S : f[x] = n
  <2> HIDE DEF f, N
  <2>q. QED BY <1>6 DEF Surjection
<1>q. QED BY <1>1, <1>2, <1>3, <1>4, <1>7, ZenonT(60) DEF Ranked

\* Nth takes them in their order.
LEMMA NthFacts ==
  ASSUME NEW S \in SUBSET Int, IsFiniteSet(S)
  PROVE  /\ Cardinality(S) \in Nat
         /\ \A n \in 1..Cardinality(S) : Nth(S, n) \in S
         /\ \A k \in S : \E n \in 1..Cardinality(S) : Nth(S, n) = k
         /\ \A n, m \in 1..Cardinality(S) : n < m => Nth(S, n) < Nth(S, m)
<1> DEFINE w == [k \in S |-> k]
           rank(k) == Cardinality({l \in S : l <= k})
<1>1. w \in [S -> Int] /\ \A k, l \in S : w[k] = w[l] => k = l OBVIOUS
<1>2. \A k \in S : {l \in S : w[l] <= w[k]} = {l \in S : l <= k} OBVIOUS
<1>3. /\ Cardinality(S) \in Nat
      /\ \A k \in S : Cardinality({l \in S : w[l] <= w[k]}) \in 1..Cardinality(S)
      /\ \A n \in 1..Cardinality(S) : \E k \in S : Cardinality({l \in S : w[l] <= w[k]}) = n
      /\ \A x, y \in S : Cardinality({z \in S : w[z] <= w[x]}) = Cardinality({z \in S : w[z] <= w[y]})
                              => x = y
      /\ \A x, y \in S : w[x] <= w[y] =>
              Cardinality({z \in S : w[z] <= w[x]}) <= Cardinality({z \in S : w[z] <= w[y]})
  <2> HIDE DEF w
  <2>1. Ranked(S, w) BY <1>1, Ranks
  <2>q. QED BY <2>1 DEF Ranked
<1>4. /\ \A k \in S : rank(k) \in 1..Cardinality(S)
      /\ \A n \in 1..Cardinality(S) : \E k \in S : rank(k) = n
      /\ \A k, l \in S : rank(k) = rank(l) => k = l
      /\ \A k, l \in S : k <= l => rank(k) <= rank(l)
  BY <1>2, <1>3
<1>5. \A n : Nth(S, n) = CHOOSE k \in S : rank(k) = n BY DEF Nth
<1> HIDE DEF rank
<1>6. \A n \in 1..Cardinality(S) : Nth(S, n) \in S /\ rank(Nth(S, n)) = n BY <1>4, <1>5
<1>7. \A k \in S : Nth(S, rank(k)) = k BY <1>4, <1>6
<1>8. \A n, m \in 1..Cardinality(S) : n < m => Nth(S, n) < Nth(S, m)
  <2>1. SUFFICES ASSUME NEW n \in 1..Cardinality(S), NEW m \in 1..Cardinality(S),
                        ~(Nth(S, n) < Nth(S, m)) PROVE ~(n < m)
    OBVIOUS
  <2>2. Nth(S, n) \in Int /\ Nth(S, m) \in Int BY <1>6
  <2>3. Nth(S, m) <= Nth(S, n) BY <2>1, <2>2
  <2>4. rank(Nth(S, m)) <= rank(Nth(S, n)) BY <1>4, <1>6, <2>3
  <2>q. QED BY <1>3, <1>6, <2>4
<1>q. QED BY <1>3, <1>4, <1>6, <1>7, <1>8

\* The least and the greatest place.
LEMMA MinMax ==
  ASSUME NEW S \in SUBSET Int, IsFiniteSet(S), S # {}
  PROVE  /\ Min(S) \in S /\ \A k \in S : Min(S) <= k
         /\ Max(S) \in S /\ \A k \in S : k <= Max(S)
<1> DEFINE N == Cardinality(S)
<1>1. /\ N \in Nat
      /\ \A n \in 1..N : Nth(S, n) \in S
      /\ \A k \in S : \E n \in 1..N : Nth(S, n) = k
      /\ \A n, m \in 1..N : n < m => Nth(S, n) < Nth(S, m)
  BY NthFacts
<1>2. N # 0 BY FS_EmptySet
<1> HIDE DEF N
<1>3. 1 \in 1..N /\ N \in 1..N BY <1>1, <1>2
<1>4. \A k \in S : Nth(S, 1) <= k /\ k <= Nth(S, N)
  <2>1. SUFFICES ASSUME NEW n \in 1..N PROVE Nth(S, 1) <= Nth(S, n) /\ Nth(S, n) <= Nth(S, N)
    BY <1>1
  <2>2. (n = 1 \/ 1 < n) /\ (n = N \/ n < N) BY <1>1
  <2>3. Nth(S, 1) \in Int /\ Nth(S, n) \in Int /\ Nth(S, N) \in Int BY <1>1, <1>3
  <2>q. QED BY <1>1, <1>3, <2>2, <2>3
<1>5. Nth(S, 1) \in S /\ Nth(S, N) \in S BY <1>1, <1>3
<1>6. \A k \in S : Nth(S, N) >= k BY <1>4, <1>5
<1>7. Min(S) \in S /\ \A k \in S : Min(S) <= k BY <1>4, <1>5 DEF Min
<1>8. Max(S) \in S /\ \A k \in S : Max(S) >= k BY <1>5, <1>6 DEF Max
<1>9. \A k \in S : k <= Max(S) BY <1>8
<1>q. QED BY <1>7, <1>8, <1>9

\* Places of a list are finitely many.
LEMMA Places ==
  ASSUME NEW X, NEW s \in Seq(X), NEW S \in SUBSET DOMAIN s
  PROVE  /\ S \in SUBSET Int /\ IsFiniteSet(S)
         /\ \A k \in S : k \in 1..Len(s) /\ s[k] \in X
<1>1. DOMAIN s = 1..Len(s) /\ Len(s) \in Nat /\ \A k \in 1..Len(s) : s[k] \in X OBVIOUS
<1>2. IsFiniteSet(DOMAIN s) BY <1>1, FS_Interval
<1>q. QED BY <1>1, <1>2, FS_Subset

\* Of each name there is one first place.
LEMMA FirstFacts ==
  ASSUME NEW s, NEW S \in SUBSET Int, IsFiniteSet(S)
  PROVE  /\ FirstPlaces(s, S) \in SUBSET S /\ IsFiniteSet(FirstPlaces(s, S))
         /\ \A k \in S : \E j \in FirstPlaces(s, S) : s[j].name = s[k].name
         /\ \A j, k \in FirstPlaces(s, S) : s[j].name = s[k].name => j = k
<1>1. FirstPlaces(s, S) \in SUBSET S BY DEF FirstPlaces
<1>2. ASSUME NEW k \in S PROVE \E j \in FirstPlaces(s, S) : s[j].name = s[k].name
  <2> DEFINE same == {l \in S : s[l].name = s[k].name}
  <2>1. k \in same /\ same \in SUBSET S OBVIOUS
  <2>2. IsFiniteSet(same) BY <2>1, FS_Subset
  <2>3. Min(same) \in same /\ \A l \in same : Min(same) <= l BY <2>1, <2>2, MinMax
  <2>4. \A l \in same : ~(l < Min(same))
    <3>1. PICK m \in Int : m = Min(same) BY <2>1, <2>3
    <3>2. \A l \in same : l \in Int /\ m <= l BY <2>3, <3>1
    <3>3. \A l \in Int : m <= l => ~(l < m) BY <3>1
    <3>q. QED BY <3>1, <3>2, <3>3
  <2>q. QED BY <2>3, <2>4 DEF FirstPlaces
<1>3. ASSUME NEW j \in FirstPlaces(s, S), NEW k \in FirstPlaces(s, S), s[j].name = s[k].name
      PROVE  j = k
  <2>1. j \in S /\ k \in S /\ ~(j < k) /\ ~(k < j) BY <1>3 DEF FirstPlaces
  <2>q. QED BY <2>1
<1>q. QED BY <1>1, <1>2, <1>3, FS_Subset

-----------------------------------------------------------------------------
(* The lists of plugins. *)

\* The names of a list are those of its elements, each once.
LEMMA NamesFacts ==
  ASSUME NEW X, NEW s \in Seq(X)
  PROVE  /\ NamesOf(s) \in Seq({p.name : p \in X})
         /\ \A k \in DOMAIN s : \E n \in DOMAIN NamesOf(s) : NamesOf(s)[n] = s[k].name
         /\ \A n, m \in DOMAIN NamesOf(s) : NamesOf(s)[n] = NamesOf(s)[m] => n = m
<1> DEFINE F == FirstPlaces(s, DOMAIN s)
           N == Cardinality(F)
<1>1. DOMAIN s \in SUBSET Int /\ IsFiniteSet(DOMAIN s) /\ \A k \in DOMAIN s : s[k] \in X BY Places
<1>2. /\ F \in SUBSET DOMAIN s /\ IsFiniteSet(F)
      /\ \A k \in DOMAIN s : \E j \in F : s[j].name = s[k].name
      /\ \A j, k \in F : s[j].name = s[k].name => j = k
  BY <1>1, FirstFacts
<1>3. /\ N \in Nat
      /\ \A n \in 1..N : Nth(F, n) \in F
      /\ \A k \in F : \E n \in 1..N : Nth(F, n) = k
      /\ \A n, m \in 1..N : n < m => Nth(F, n) < Nth(F, m)
  BY <1>1, <1>2, NthFacts
<1>4. NamesOf(s) = [n \in 1..N |-> s[Nth(F, n)].name] BY DEF NamesOf, Pick
<1> HIDE DEF F, N
<1>5. \A n \in 1..N : Nth(F, n) \in DOMAIN s /\ NamesOf(s)[n] = s[Nth(F, n)].name BY <1>2, <1>3, <1>4
<1>6. NamesOf(s) \in Seq({p.name : p \in X}) BY <1>1, <1>3, <1>4, <1>5
<1>7. DOMAIN NamesOf(s) = 1..N BY <1>4
<1>8. \A n, m \in 1..N : NamesOf(s)[n] = NamesOf(s)[m] => n = m
  <2>1. SUFFICES ASSUME NEW n \in 1..N, NEW m \in 1..N, n # m PROVE NamesOf(s)[n] # NamesOf(s)[m]
    OBVIOUS
  <2>2. Nth(F, n) # Nth(F, m)
    <3>1. n < m \/ m < n BY <2>1, <1>3
    <3>2. Nth(F, n) \in Int /\ Nth(F, m) \in Int BY <1>1, <1>5
    <3>q. QED BY <1>3, <3>1, <3>2
  <2>q. QED BY <1>2, <1>3, <1>5, <2>2
<1>9. \A k \in DOMAIN s : \E n \in 1..N : NamesOf(s)[n] = s[k].name BY <1>2, <1>3, <1>5
<1>q. QED BY <1>6, <1>7, <1>8, <1>9

LEMMA ScopeFacts == \A p : ScopeOf(p) \in 0..3
BY DEF ScopeOf, Global, Service, Route, Consumer

\* What is stored for an owner is of the owner.
LEMMA StoredFacts ==
  ASSUME NEW X, NEW s, s.plugins \in Seq(X), NEW scope, NEW owner
  PROVE  /\ Stored(s, scope, owner) \in Seq(X)
         /\ \A p \in ToSet(Stored(s, scope, owner)) :
              p \in X /\ ScopeOf(p) = scope /\ OwnerOf(p) = owner
<1> DEFINE ps == s.plugins
           mine == {k \in DOMAIN ps : ScopeOf(ps[k]) = scope /\ OwnerOf(ps[k]) = owner}
           F == FirstPlaces(ps, mine)
           N == Cardinality(F)
           latest(k) == Max({l \in mine : ps[l].name = ps[k].name})
<1>1. mine \in SUBSET Int /\ IsFiniteSet(mine) /\ \A k \in mine : ps[k] \in X BY Places
<1>2. F \in SUBSET mine /\ IsFiniteSet(F) BY <1>1, FirstFacts
<1>3. N \in Nat /\ \A n \in 1..N : Nth(F, n) \in F BY <1>1, <1>2, NthFacts
<1>4. ASSUME NEW k \in mine PROVE latest(k) \in mine
  <2> DEFINE same == {l \in mine : ps[l].name = ps[k].name}
  <2>1. same \in SUBSET mine /\ k \in same OBVIOUS
  <2>2. same \in SUBSET Int /\ IsFiniteSet(same) /\ same # {} BY <1>1, <2>1, FS_Subset
  <2>3. Max(same) \in same BY <2>2, MinMax
  <2>q. QED BY <2>1, <2>3
<1>5. Stored(s, scope, owner) = [n \in 1..N |-> ps[latest(Nth(F, n))]] BY DEF Stored
<1>6. \A k \in mine : ScopeOf(ps[k]) = scope /\ OwnerOf(ps[k]) = owner OBVIOUS
<1> HIDE DEF mine, F, N, latest, ps
<1>7. \A n \in 1..N : latest(Nth(F, n)) \in mine BY <1>2, <1>3, <1>4
<1>8. Stored(s, scope, owner) \in Seq(X)
  <2>1. \A n \in 1..N : ps[latest(Nth(F, n))] \in X BY <1>1, <1>7
  <2>2. Stored(s, scope, owner) \in [1..N -> X] BY <1>5, <2>1
  <2>q. QED BY <1>3, <2>2
<1>9. DOMAIN Stored(s, scope, owner) = 1..N
      /\ \A n \in 1..N : Stored(s, scope, owner)[n] = ps[latest(Nth(F, n))]
  BY <1>5
<1>q. QED BY <1>1, <1>6, <1>7, <1>8, <1>9 DEF ToSet

\* What stands for a name is of that name, matches, and is of the narrowest scope.
LEMMA EntryFacts ==
  ASSUME NEW X, Nil \notin X, NEW c \in Seq(X), NEW name, NEW service, NEW route, NEW by,
         NEW e, e = EntryFor(c, name, service, route, by)
  PROVE  /\ e = Nil => \A p \in ToSet(c) : p.name = name => ~isPluginMatch(p, service, route, by)
         /\ e # Nil => /\ e \in ToSet(c) /\ e.name = name /\ isPluginMatch(e, service, route, by)
                       /\ \A p \in ToSet(c) : p.name = name /\ isPluginMatch(p, service, route, by)
                            => ScopeOf(p) <= ScopeOf(e)
<1> DEFINE match == {k \in DOMAIN c : c[k].name = name /\ isPluginMatch(c[k], service, route, by)}
           narrowest == {k \in match : \A l \in match : ScopeOf(c[l]) <= ScopeOf(c[k])}
           scopes == {ScopeOf(c[k]) : k \in match}
<1>1. e = IF match = {} THEN Nil ELSE c[Min(narrowest)] BY DEF EntryFor
<1>2. CASE match = {} BY <1>1, <1>2 DEF ToSet
<1>3. CASE match # {}
  <2>1. /\ match \in SUBSET Int /\ IsFiniteSet(match) /\ \A k \in match : c[k] \in X
    BY Places
  <2>2. scopes \in SUBSET Int /\ IsFiniteSet(scopes) /\ scopes # {}
    <3>1. scopes \subseteq 0..3 BY ScopeFacts
    <3>2. IsFiniteSet(0..3) /\ 0..3 \subseteq Int
      <4>1. PICK i \in Int, j \in Int : i = 0 /\ j = 3 OBVIOUS
      <4>2. IsFiniteSet(i..j) BY FS_Interval
      <4>q. QED BY <4>1, <4>2
    <3> HIDE DEF match
    <3>3. scopes # {} BY <1>3
    <3> HIDE DEF scopes
    <3>q. QED BY <3>1, <3>2, <3>3, FS_Subset
  <2>3. Max(scopes) \in scopes /\ \A k \in scopes : k <= Max(scopes)
    <3> HIDE DEF scopes
    <3>q. QED BY <2>2, MinMax
  <2>4. narrowest # {} /\ narrowest \in SUBSET match
    <3>1. PICK k \in match : ScopeOf(c[k]) = Max(scopes) BY <2>3
    <3>2. \A l \in match : ScopeOf(c[l]) <= ScopeOf(c[k]) BY <2>3, <3>1
    <3>q. QED BY <3>1, <3>2
  <2>5. Min(narrowest) \in narrowest
    <3> HIDE DEF narrowest, match
    <3>1. narrowest \in SUBSET Int /\ IsFiniteSet(narrowest) BY <2>1, <2>4, FS_Subset
    <3>q. QED BY <2>4, <3>1, MinMax
  <2>6. e = c[Min(narrowest)] /\ e # Nil
    <3>1. Min(narrowest) \in match BY <2>4, <2>5
    <3> HIDE DEF narrowest, match
    <3>q. QED BY <1>1, <1>3, <2>1, <3>1
  <2>q. QED BY <2>5, <2>6 DEF ToSet
<1>q. QED BY <1>2, <1>3

\* The same entry stands for a name whoever asks, unless a consumer's does.
LEMMA EntrySame ==
  ASSUME NEW X, Nil \notin X, NEW c \in Seq(X), NEW name, NEW service, NEW route, NEW by1, NEW by2,
         EntryFor(c, name, service, route, by1) # Nil, EntryFor(c, name, service, route, by2) # Nil,
         ScopeOf(EntryFor(c, name, service, route, by1)) # Consumer,
         ScopeOf(EntryFor(c, name, service, route, by2)) # Consumer
  PROVE  EntryFor(c, name, service, route, by1) = EntryFor(c, name, service, route, by2)
<1> DEFINE match(by) == {k \in DOMAIN c : c[k].name = name /\ isPluginMatch(c[k], service, route, by)}
           narrowest(by) == {k \in match(by) : \A l \in match(by) : ScopeOf(c[l]) <= ScopeOf(c[k])}
<1>1. \A by : EntryFor(c, name, service, route, by)
                = IF match(by) = {} THEN Nil ELSE c[Min(narrowest(by))]
  BY DEF EntryFor
<1>2. ASSUME NEW by, EntryFor(c, name, service, route, by) # Nil,
             ScopeOf(EntryFor(c, name, service, route, by)) # Consumer
      PROVE  \A k \in match(by) : ScopeOf(c[k]) # Consumer
  <2>1. PICK e : e = EntryFor(c, name, service, route, by) OBVIOUS
  <2>2. \A p \in ToSet(c) : p.name = name /\ isPluginMatch(p, service, route, by)
          => ScopeOf(p) <= ScopeOf(e)
    BY <1>2, <2>1, EntryFacts
  <2>3. \A k \in match(by) : ScopeOf(c[k]) <= ScopeOf(e) BY <2>2 DEF ToSet
  <2>4. PICK n \in 0..3 : n = ScopeOf(e) /\ n # 3 BY <1>2, <2>1, ScopeFacts DEF Consumer
  <2>5. ~(3 <= n) BY <2>4
  <2> HIDE DEF match
  <2>q. QED BY <2>3, <2>4, <2>5 DEF Consumer
<1>3. \A k : ScopeOf(c[k]) # Consumer =>
          (isPluginMatch(c[k], service, route, by1) <=> isPluginMatch(c[k], service, route, by2))
  BY DEF isPluginMatch
<1>4. match(by1) = match(by2) BY <1>2, <1>3
<1>5. narrowest(by1) = narrowest(by2) BY <1>4
<1> HIDE DEF match, narrowest
<1>q. QED BY <1>1, <1>4, <1>5

\* An injective list of a finite set has all its elements.
LEMMA AllListed ==
  ASSUME NEW S, IsFiniteSet(S), NEW f \in SetToSeqs(S)
  PROVE  f \in Seq(S) /\ ToSet(f) = S
<1> DEFINE N == Cardinality(S)
<1>1. f \in [1..N -> S] /\ \A i, j \in 1..N : i # j => f[i] # f[j] BY DEF SetToSeqs
<1>2. N \in Nat BY FS_CardinalityType
<1>3. IsFiniteSet(1..N) /\ Cardinality(1..N) = N BY <1>2, FS_Interval
<1>4. f \in Injection(1..N, S)
  <2> HIDE DEF N
  <2>q. QED BY <1>1 DEF Injection, IsInjective
<1>5. f \in Surjection(1..N, S)
  <2>1. PICK T : T = 1..N OBVIOUS
  <2>2. f \in Injection(T, S) /\ Cardinality(T) = Cardinality(S) BY <1>3, <1>4, <2>1
  <2>3. f \in Surjection(T, S) BY <2>2, FS_Injection
  <2>q. QED BY <2>1, <2>3
<1> HIDE DEF N
<1>6. f \in Seq(S) BY <1>1, <1>2
<1>7. DOMAIN f = 1..N BY <1>1
<1>8. \A x \in S : \E n \in 1..N : f[n] = x BY <1>5 DEF Surjection
<1>q. QED BY <1>1, <1>6, <1>7, <1>8 DEF ToSet

\* A list after another has the elements of both.
LEMMA Concatenated ==
  ASSUME NEW X, NEW a \in Seq(X), NEW b \in Seq(X)
  PROVE  a \o b \in Seq(X) /\ ToSet(a \o b) = ToSet(a) \cup ToSet(b)
<1> DEFINE c == a \o b
<1>1. /\ c \in Seq(X) /\ Len(c) = Len(a) + Len(b) /\ Len(a) \in Nat /\ Len(b) \in Nat
      /\ \A k \in 1..Len(a) : c[k] = a[k]
      /\ \A k \in 1..Len(b) : c[Len(a) + k] = b[k]
  OBVIOUS
<1> HIDE DEF c
<1>2. DOMAIN a = 1..Len(a) /\ DOMAIN b = 1..Len(b) /\ DOMAIN c = 1..Len(c) BY <1>1
<1>3. PICK n \in Nat, m \in Nat : n = Len(a) /\ m = Len(b) BY <1>1
<1>4. /\ \A k \in 1..n : k \in DOMAIN c /\ c[k] = a[k]
      /\ \A k \in 1..m : n + k \in DOMAIN c /\ c[n + k] = b[k]
  BY <1>1, <1>2, <1>3
<1>5. \A k \in DOMAIN c : k \in 1..n \/ \E j \in 1..m : k = n + j
  <2>1. \A k \in 1..(n + m) : k \in 1..n \/ (k - n \in 1..m /\ k = n + (k - n)) OBVIOUS
  <2>q. QED BY <1>1, <1>2, <1>3, <2>1
<1>6. \A x : x \in ToSet(a) <=> \E k \in 1..n : x = a[k] BY <1>2, <1>3 DEF ToSet
<1>7. \A x : x \in ToSet(b) <=> \E k \in 1..m : x = b[k] BY <1>2, <1>3 DEF ToSet
<1>8. \A x : x \in ToSet(c) <=> \E k \in DOMAIN c : x = c[k] BY DEF ToSet
<1>9. ASSUME NEW x \in ToSet(c) PROVE x \in ToSet(a) \cup ToSet(b)
  <2>1. PICK k \in DOMAIN c : x = c[k] BY <1>8
  <2>2. CASE k \in 1..n BY <1>4, <1>6, <2>1, <2>2
  <2>3. CASE \E j \in 1..m : k = n + j
    <3>1. PICK j \in 1..m : k = n + j BY <2>3
    <3>q. QED BY <1>4, <1>7, <2>1, <3>1
  <2>q. QED BY <1>5, <2>2, <2>3
<1>10. \A x \in ToSet(a) : x \in ToSet(c) BY <1>4, <1>6, <1>8
<1>11. \A x \in ToSet(b) : x \in ToSet(c) BY <1>4, <1>7, <1>8
<1>12. ToSet(c) = ToSet(a) \cup ToSet(b) BY <1>9, <1>10, <1>11
<1>q. QED BY <1>1, <1>12 DEF c

\* What the chain of a request has that matches is what is in force.
Stock(s, service, route, by) ==
  {p \in ToSet(Stored(s, Global, Nil)) \union ToSet(Stored(s, Service, service))
         \union ToSet(Stored(s, Route, route))
         \union (IF by = Nil THEN {} ELSE ToSet(Stored(s, Consumer, by))) : p.enabled}

LEMMA ChainHolds ==
  ASSUME NEW X, Nil \notin X, NEW s, s.plugins \in Seq(X), X = ToSet(s.plugins),
         NEW service, NEW route, NEW all \in GetAllConsumerPlugins(s),
         NEW c, c = BuildChainForRequest(s, service, route, all)
  PROVE  /\ c \in Seq(X)
         /\ \A by : {p \in ToSet(c) : isPluginMatch(p, service, route, by)} = Stock(s, service, route, by)
<1> DEFINE owners == {p.consumer : p \in X} \ {Nil}
           U == UNION {ToSet(Stored(s, Consumer, o)) : o \in owners}
           g == Stored(s, Global, Nil)
           v == Stored(s, Service, service)
           r == Stored(s, Route, route)
<1>1. \A scope, owner : /\ Stored(s, scope, owner) \in Seq(X)
                        /\ \A p \in ToSet(Stored(s, scope, owner)) :
                             p \in X /\ ScopeOf(p) = scope /\ OwnerOf(p) = owner
  BY StoredFacts
<1>2. IsFiniteSet(U) /\ U \subseteq X
  <2>1. U \subseteq X BY <1>1
  <2>2. X = {s.plugins[k] : k \in DOMAIN s.plugins} BY DEF ToSet
  <2>3. IsFiniteSet(X)
    <3>1. IsFiniteSet(1..Len(s.plugins)) BY FS_Interval
    <3>2. s.plugins \in Surjection(1..Len(s.plugins), X) BY <2>2 DEF Surjection
    <3>q. QED BY <3>1, <3>2, FS_Surjection
  <2>q. QED BY <2>1, <2>3, FS_Subset
<1>3. all \in SetToSeqs(U) BY DEF GetAllConsumerPlugins
<1>4. all \in Seq(U) /\ ToSet(all) = U
  <2> HIDE DEF U
  <2>q. QED BY <1>2, <1>3, AllListed
<1>5. all \in Seq(X) BY <1>2, <1>4
<1>6. c = g \o v \o r \o all BY DEF BuildChainForRequest
<1>7. g \in Seq(X) /\ v \in Seq(X) /\ r \in Seq(X) BY <1>1
<1>8. c \in Seq(X) /\ ToSet(c) = ToSet(g) \cup ToSet(v) \cup ToSet(r) \cup ToSet(all)
  <2> HIDE DEF g, v, r
  <2>1. g \o v \in Seq(X) /\ ToSet(g \o v) = ToSet(g) \cup ToSet(v) BY <1>7, Concatenated
  <2>2. PICK c1 \in Seq(X) : c1 = g \o v BY <2>1
  <2>3. c1 \o r \in Seq(X) /\ ToSet(c1 \o r) = ToSet(c1) \cup ToSet(r) BY <1>7, Concatenated
  <2>4. PICK c2 \in Seq(X) : c2 = c1 \o r BY <2>3
  <2>5. c2 \o all \in Seq(X) /\ ToSet(c2 \o all) = ToSet(c2) \cup ToSet(all) BY <1>5, Concatenated
  <2>6. c = c2 \o all BY <1>6, <2>2, <2>4
  <2>q. QED BY <2>1, <2>2, <2>3, <2>4, <2>5, <2>6
<1>9. ASSUME NEW by
      PROVE  {p \in ToSet(c) : isPluginMatch(p, service, route, by)} = Stock(s, service, route, by)
  <2>1. /\ \A p \in ToSet(g) : ScopeOf(p) = Global
        /\ \A p \in ToSet(v) : ScopeOf(p) = Service /\ p.service = service
        /\ \A p \in ToSet(r) : ScopeOf(p) = Route /\ p.route = route
        /\ \A o : \A p \in ToSet(Stored(s, Consumer, o)) : p \in X /\ ScopeOf(p) = Consumer /\ p.consumer = o
    BY <1>1 DEF OwnerOf, Global, Service, Route, Consumer
  <2>2. \A p \in U : ScopeOf(p) = Consumer /\ p \in ToSet(Stored(s, Consumer, p.consumer)) BY <2>1
  <2>3. by # Nil => \A p \in ToSet(Stored(s, Consumer, by)) : p \in U /\ p.consumer = by
    <3>1. SUFFICES ASSUME by # Nil, NEW p \in ToSet(Stored(s, Consumer, by))
                   PROVE p \in U /\ p.consumer = by
      OBVIOUS
    <3>2. p.consumer = by /\ p \in X BY <2>1, <3>1
    <3>3. by \in owners BY <3>1, <3>2
    <3>q. QED BY <3>2, <3>3
  <2> HIDE DEF g, v, r, U
  <2>4. Stock(s, service, route, by) =
          {p \in (ToSet(g) \cup ToSet(v) \cup ToSet(r)) \cup
                 (IF by = Nil THEN {} ELSE ToSet(Stored(s, Consumer, by))) : p.enabled}
    BY DEF Stock, g, v, r
  <2>5. \A p \in ToSet(g) : isPluginMatch(p, service, route, by) <=> p.enabled
    BY <2>1 DEF isPluginMatch, Global, Service, Route, Consumer
  <2>6. \A p \in ToSet(v) : isPluginMatch(p, service, route, by) <=> p.enabled
    BY <2>1 DEF isPluginMatch, Global, Service, Route, Consumer
  <2>7. \A p \in ToSet(r) : isPluginMatch(p, service, route, by) <=> p.enabled
    BY <2>1 DEF isPluginMatch, Global, Service, Route, Consumer
  <2>8. \A p \in U : isPluginMatch(p, service, route, by) <=> p.enabled /\ by # Nil /\ p.consumer = by
    BY <2>2 DEF isPluginMatch, Global, Service, Route, Consumer
  <2>9. by # Nil => \A p : p \in ToSet(Stored(s, Consumer, by)) <=> p \in U /\ p.consumer = by
    BY <2>2, <2>3
  <2>q. QED BY <1>4, <1>8, <2>4, <2>5, <2>6, <2>7, <2>8, <2>9
<1>q. QED BY <1>8, <1>9

-----------------------------------------------------------------------------
(* The lists of routes and of policies. *)

\* What is before an element that is taken is taken before it.
InOrder(taken, list) ==
  \A n \in 1..Len(taken) : taken[n].enabled /\ \E k \in DOMAIN list :
    /\ taken[n] = list[k]
    /\ \A l \in 1..(k - 1) : list[l].enabled => \E m \in 1..(n - 1) : taken[m] = list[l]

\* The matchers are the enabled routes, in their order.
LEMMA MatchersFacts ==
  ASSUME NEW s, s.routes \in Seq(ToSet(s.routes)), NEW M, M = routeMatchers(s)
  PROVE  /\ M \in Seq(ToSet(s.routes))
         /\ InOrder(M, s.routes)
         /\ \A k \in DOMAIN s.routes : s.routes[k].enabled => \E n \in 1..Len(M) : M[n] = s.routes[k]
<1> DEFINE rs == s.routes
           S == {k \in DOMAIN rs : rs[k].enabled}
           N == Cardinality(S)
<1>0. DOMAIN rs = 1..Len(rs) /\ Len(rs) \in Nat OBVIOUS
<1>1. S \in SUBSET Int /\ IsFiniteSet(S) /\ \A k \in S : k \in 1..Len(rs) /\ rs[k] \in ToSet(rs) BY Places
<1>2. /\ N \in Nat
      /\ \A n \in 1..N : Nth(S, n) \in S
      /\ \A k \in S : \E n \in 1..N : Nth(S, n) = k
      /\ \A n, m \in 1..N : n < m => Nth(S, n) < Nth(S, m)
  BY <1>1, NthFacts
<1>3. M = [n \in 1..N |-> rs[Nth(S, n)]] BY DEF routeMatchers, Pick
<1>4. \A k : k \in S <=> k \in DOMAIN rs /\ rs[k].enabled OBVIOUS
<1> HIDE DEF S, N, rs
<1>5. M \in Seq(ToSet(rs)) /\ Len(M) = N
  <2>1. \A n \in 1..N : rs[Nth(S, n)] \in ToSet(rs) BY <1>1, <1>2
  <2>2. M \in [1..N -> ToSet(rs)] BY <1>3, <2>1
  <2>q. QED BY <1>2, <2>2
<1>6. \A n \in 1..N : M[n] = rs[Nth(S, n)] BY <1>3
<1>7. ASSUME NEW n \in 1..N
      PROVE  M[n].enabled /\ \E k \in DOMAIN rs :
              /\ M[n] = rs[k]
              /\ \A l \in 1..(k - 1) : rs[l].enabled => \E m \in 1..(n - 1) : M[m] = rs[l]
  <2>1. PICK k : k = Nth(S, n) OBVIOUS
  <2>2. k \in S /\ M[n] = rs[k] /\ k \in 1..Len(rs) BY <1>1, <1>2, <1>6, <2>1
  <2>3. ASSUME NEW l \in 1..(k - 1), rs[l].enabled PROVE \E m \in 1..(n - 1) : M[m] = rs[l]
    <3>1. l \in 1..Len(rs) /\ l < k BY <1>0, <2>2
    <3>2. l \in S BY <1>0, <1>4, <2>3, <3>1
    <3>3. PICK m \in 1..N : Nth(S, m) = l BY <1>2, <3>2
    <3>4. ~(n < m) /\ n # m
      <4>1. n < m => k < l BY <1>2, <2>1, <3>3
      <4>2. n = m => k = l BY <2>1, <3>3
      <4>q. QED BY <2>2, <3>1, <4>1, <4>2
    <3>5. m \in 1..(n - 1) BY <1>2, <3>4
    <3>q. QED BY <1>6, <3>3, <3>5
  <2>q. QED BY <1>0, <1>4, <2>2, <2>3
<1>8. ASSUME NEW k \in DOMAIN rs, rs[k].enabled PROVE \E n \in 1..N : M[n] = rs[k]
  BY <1>2, <1>4, <1>6, <1>8
<1>9. InOrder(M, rs) BY <1>5, <1>7 DEF InOrder
<1>q. QED BY <1>5, <1>8, <1>9 DEF rs

\* Each policy of a route is in the list of the route, at the place of its rank.
LEMMA PoliciesFacts ==
  ASSUME Wellformed(snap, req)
  PROVE  /\ Len(Policies) \in Nat /\ DOMAIN Policies = 1..Len(Policies)
         /\ \A n \in 1..Len(Policies) : Policies[n] \in Mine /\ Rank(Policies[n]) = n
         /\ \A p \in Mine : Rank(p) \in 1..Len(Policies) /\ Policies[Rank(p)] = p
         /\ \A p, q \in Mine : p.priority < q.priority => Rank(p) < Rank(q)
<1> DEFINE S == Mine
           w == [p \in S |-> p.priority]
           N == Cardinality(S)
           rank(p) == Cardinality({q \in S : w[q] <= w[p]})
<1>1. S = {p \in snap.policies : p.route = Here.id} BY DEF Mine
<1>2. /\ IsFiniteSet(S) /\ \A p \in S : p.priority \in Int
      /\ \A p, q \in S : p.priority = q.priority => p = q
  <2>1. S \in SUBSET snap.policies /\ \A p \in S : p.route = Here.id BY <1>1
  <2> HIDE DEF S
  <2>q. QED BY <2>1, FS_Subset DEF Wellformed
<1>3. Policies = [n \in 1..N |-> CHOOSE p \in S : Cardinality({q \in S : q.priority <= p.priority}) = n]
  BY DEF Policies, trafficPoliciesByRoute, Mine
<1>4. \A p : Rank(p) = Cardinality({q \in S : q.priority <= p.priority}) BY DEF Rank
<1> HIDE DEF S
<1>5. w \in [S -> Int] /\ \A p, q \in S : w[p] = w[q] => p = q BY <1>2
<1>6. \A p \in S : {q \in S : w[q] <= w[p]} = {q \in S : q.priority <= p.priority} OBVIOUS
<1>7. \A p \in S : w[p] = p.priority OBVIOUS
<1> HIDE DEF w
<1>8. /\ Cardinality(S) \in Nat
      /\ \A x \in S : Cardinality({y \in S : w[y] <= w[x]}) \in 1..Cardinality(S)
      /\ \A n \in 1..Cardinality(S) : \E x \in S : Cardinality({y \in S : w[y] <= w[x]}) = n
      /\ \A x, y \in S : Cardinality({z \in S : w[z] <= w[x]}) = Cardinality({z \in S : w[z] <= w[y]})
                           => x = y
      /\ \A x, y \in S : w[x] <= w[y] =>
           Cardinality({z \in S : w[z] <= w[x]}) <= Cardinality({z \in S : w[z] <= w[y]})
  <2>1. IsFiniteSet(S) BY <1>2
  <2>2. Ranked(S, w) BY <2>1, <1>5, Ranks
  <2>q. QED BY <2>2 DEF Ranked
<1>9. \A p \in S : Rank(p) = rank(p) BY <1>4, <1>6
<1>a. /\ N \in Nat
      /\ \A p \in S : rank(p) \in 1..N
      /\ \A n \in 1..N : \E p \in S : rank(p) = n
      /\ \A p, q \in S : rank(p) = rank(q) => p = q
      /\ \A p, q \in S : w[p] <= w[q] => rank(p) <= rank(q)
  BY <1>8
<1> HIDE DEF rank, N
<1>10. /\ N \in Nat
       /\ \A p \in S : Rank(p) \in 1..N
       /\ \A n \in 1..N : \E p \in S : Rank(p) = n
       /\ \A p, q \in S : Rank(p) = Rank(q) => p = q
       /\ \A p, q \in S : p.priority <= q.priority => Rank(p) <= Rank(q)
  BY <1>7, <1>9, <1>a
<1>11. Policies = [n \in 1..N |-> CHOOSE p \in S : Rank(p) = n] BY <1>3, <1>4 DEF N
<1>12. DOMAIN Policies = 1..N /\ Len(Policies) = N BY <1>10, <1>11
<1>13. \A n \in 1..N : Policies[n] \in S /\ Rank(Policies[n]) = n BY <1>10, <1>11
<1>14. \A p \in S : Policies[Rank(p)] = p BY <1>10, <1>13
<1>15. \A p, q \in S : p.priority < q.priority => Rank(p) < Rank(q)
  <2> SUFFICES ASSUME NEW p \in S, NEW q \in S, p.priority < q.priority PROVE Rank(p) < Rank(q)
    OBVIOUS
  <2>1. p.priority <= q.priority /\ p.priority # q.priority BY <1>2
  <2>2. Rank(p) <= Rank(q) /\ Rank(p) # Rank(q) BY <1>10, <2>1
  <2>q. QED BY <1>10, <2>2
<1>q. QED BY <1>10, <1>12, <1>13, <1>14, <1>15 DEF S

-----------------------------------------------------------------------------
(* The invariant. *)

\* How many calls of recordRequest there were, by what comes next.
RecInv ==
  /\ attempt \in Nat /\ recorded \in Nat
  /\ pc \in {"route", "policy", "chain", "request", "refuse", "short"} => attempt = 0 /\ recorded = 0
  /\ pc = "send" => recorded = attempt
  /\ pc \in {"wait", "response", "error"} => attempt > 0 /\ recorded = attempt - 1
  /\ pc \in {"copy", "answered"} => attempt > 0 /\ recorded = attempt
  /\ RecordedPerAttempt
  /\ attempt > 0 => HasBalancer \/ snap.services[effective].host

\* 404 is an answer of the routing alone.
StatusInv ==
  /\ pc \in {"response", "copy", "answered"} => status \in Statuses
  /\ pc \in {"refuse", "short"} => refusal \in {200, 401, 429, 500}

Missing == pc = "done" /\ status = 404

Passed(n) ==
  /\ Policies[n].enabled
  /\ matchTrafficPolicy(Policies[n], snap, req, Original, drawn[n])
  /\ TargetOf(Policies[n]) \in DOMAIN snap.services

\* The routes before the one that is looked at do not serve, and the policies
\* before the one that is looked at do not apply.
RouteInv ==
  LET M == routeMatchers(snap) IN
  /\ routeAt \in 1..(Len(M) + 1)
  /\ \A k \in 1..(routeAt - 1) : ~Serves(M[k])
  /\ pc = "route" => policyAt = 1 /\ hit = Nil /\ drawn = <<>>
  /\ Missing => routeAt = Len(M) + 1
  /\ pc # "route" /\ ~Missing =>
       /\ routeAt <= Len(M) /\ Serves(Here)
       /\ drawn \in Seq(ToSet(drawn)) /\ policyAt = Len(drawn) + 1 /\ Len(drawn) <= Len(Policies)
       /\ hit = Nil =>
            /\ effective = Original
            /\ pc # "policy" => Len(drawn) = Len(Policies)
            /\ \A n \in 1..Len(drawn) : ~Passed(n)
       /\ hit # Nil =>
            /\ pc # "policy" /\ Len(drawn) > 0
            /\ hit = Policies[Len(drawn)] /\ effective = TargetOf(hit) /\ Passed(Len(drawn))
            /\ \A n \in 1..(Len(drawn) - 1) : ~Passed(n)

\* The chain has what is in force, whoever the request comes from.
ChainOk ==
  /\ chain \in Seq(ToSet(snap.plugins))
  /\ \A by : {p \in ToSet(chain) : isPluginMatch(p, effective, Here.id, by)} = InForce(by)

EntryOf(name, by) == EntryFor(chain, name, effective, Here.id, by)

Chained == {"request", "refuse", "short", "send", "wait", "response", "copy", "error", "answered"}

\* What ran stood for its name, and nothing runs before there is a chain.
ChainInv ==
  /\ (ran = <<>> /\ attempt = 0) \/ ChainOk
  /\ pc \in {"route", "policy", "chain"} => ran = <<>>
  /\ pc \in Chained => ChainOk
  /\ ran \in Seq(ToSet(ran))
  /\ \A k \in 1..Len(ran) :
       ran[k].entry # Nil /\ ran[k].entry = EntryOf(ran[k].entry.name, ran[k].by)

Phases == {"request", "refuse", "response", "error"}
PhaseOf(next) ==
  IF next = "request" THEN "OnRequest" ELSE IF next = "response" THEN "OnResponse" ELSE "OnError"

To(k) == <<ran[k].phase, ran[k].attempt, ran[k].entry.name>>

\* A name that is still to come has not run in this phase.
OnceInv ==
  /\ \A k \in 1..Len(ran) : ran[k].attempt \in 0..attempt
  /\ \A k, l \in 1..Len(ran) : k < l => To(k) # To(l)
  /\ pc \in Phases =>
       /\ todo \in Seq(ToSet(todo))
       /\ \A n, m \in 1..Len(todo) : todo[n] = todo[m] => n = m
       /\ \A k \in 1..Len(ran), n \in 1..Len(todo) : To(k) # <<PhaseOf(pc), attempt, todo[n]>>
  /\ pc = "request" => \A k \in 1..Len(ran) : ran[k].phase = "OnRequest"
  /\ pc = "wait" => \A k \in 1..Len(ran) : ran[k].attempt # attempt
  /\ pc = "response" => \A k \in 1..Len(ran) : ran[k].attempt = attempt => ran[k].phase # "OnError"

Seen(name) == \E k \in 1..Len(ran) : ran[k].phase = "OnRequest" /\ ran[k].entry.name = name

\* A plugin in force has run or is still to come.
SeenInv ==
  /\ pc \in {"route", "policy", "chain", "request", "send"} \/ attempt > 0 => refusal = Nil
  /\ pc = "request" => \A p \in InForce(Nil) :
       Seen(p.name) \/ \E n \in 1..Len(todo) : todo[n] = p.name
  /\ pc = "send" \/ attempt > 0 => \A p \in InForce(Nil) : Seen(p.name)

\* Who is known stays known, and becomes known before the request is sent.
KnownInv ==
  \A k \in 1..Len(ran) :
    /\ ran[k].phase = "OnRequest" => ran[k].by = Nil \/ consumer # Nil
    /\ ran[k].phase # "OnRequest" => ran[k].by = consumer

\* Whom key-auth knows has a key of the request.
Recognised ==
  \/ consumer = Nil
  \/ \E k \in 1..Len(ran) : ran[k].entry.name = "jwt-auth"
  \/ \E place \in DOMAIN req.keys :
       /\ req.keys[place] # Nil
       /\ \E c \in GetCredentialByKey(snap, req.keys[place]) : c.consumer = consumer

\* Keys are hidden, never changed.
KeysInv ==
  /\ keys = [place \in DOMAIN req.keys |-> keys[place]]
  /\ \A place \in DOMAIN req.keys : keys[place] \in {req.keys[place], Nil}
  /\ pc \in {"route", "policy", "chain"} => consumer = Nil
  /\ Recognised

PathInv ==
  /\ Wellformed(snap, req)
  /\ RecInv /\ StatusInv /\ RouteInv /\ ChainInv /\ OnceInv /\ SeenInv /\ KnownInv /\ KeysInv

-----------------------------------------------------------------------------
(* The steps. *)

\* What a plugin does with a request.
LEMMA OutFacts ==
  ASSUME NEW entry, NEW out \in OnRequest(entry)
  PROVE  /\ out.next \in {"request", "refuse", "short"}
         /\ out.next = "request" => out.refusal = Nil
         /\ out.next # "request" => out.refusal \in {200, 401, 429, 500}
         /\ \/ out.consumer = consumer
            \/ entry.name = "key-auth" /\ out.consumer \in KeyAuth(snap, entry, keys)
            \/ entry.name = "jwt-auth" /\ out.consumer \in JWTAuth(snap, keys)
         /\ out.keys \in {keys, hideKeys(entry, keys), hideToken(keys)}
<1>1. \A c, k : /\ Goes(c, k).next = "request" /\ Goes(c, k).refusal = Nil
                /\ Goes(c, k).consumer = c /\ Goes(c, k).keys = k
  BY DEF Goes
<1>2. \A code, next : /\ Ends(code, next).next = next /\ Ends(code, next).refusal = code
                      /\ Ends(code, next).consumer = consumer /\ Ends(code, next).keys = keys
  BY DEF Ends
<1>3. ASSUME NEW who, NEW hidden, NEW o \in Authenticated(entry, who, hidden)
      PROVE  \/ \E c \in who : o = Goes(c, hidden) \/ o = Goes(c, keys)
             \/ o = Goes(consumer, keys) \/ o = Ends(401, "refuse")
  BY <1>3 DEF Authenticated, Refuses
<1>4. CASE entry.name = "key-auth"
  <2>1. out \in Authenticated(entry, KeyAuth(snap, entry, keys), hideKeys(entry, keys))
    BY <1>4 DEF OnRequest, KeyAuthOnRequest
  <2>2. \/ \E c \in KeyAuth(snap, entry, keys) : out = Goes(c, hideKeys(entry, keys)) \/ out = Goes(c, keys)
        \/ out = Goes(consumer, keys) \/ out = Ends(401, "refuse")
    BY <1>3, <2>1
  <2>q. QED BY <1>1, <1>2, <1>4, <2>2
<1>5. CASE entry.name = "jwt-auth"
  <2>1. out = Goes(consumer, keys) \/ out \in Authenticated(entry, JWTAuth(snap, keys), hideToken(keys))
    BY <1>5 DEF OnRequest, JWTAuthOnRequest
  <2>2. \/ \E c \in JWTAuth(snap, keys) : out = Goes(c, hideToken(keys)) \/ out = Goes(c, keys)
        \/ out = Goes(consumer, keys) \/ out = Ends(401, "refuse")
    BY <1>3, <2>1
  <2>q. QED BY <1>1, <1>2, <1>5, <2>2
<1>6. CASE entry.name \notin {"key-auth", "jwt-auth"}
  <2>1. out \in {Goes(consumer, keys), Ends(429, "refuse"), Ends(500, "refuse"), Ends(200, "short")}
    BY <1>6 DEF OnRequest, Refuses
  <2>q. QED BY <1>1, <1>2, <2>1
<1>q. QED BY <1>4, <1>5, <1>6

\* A list that grows by one.
LEMMA Appended ==
  ASSUME NEW s, s \in Seq(ToSet(s)), NEW e, NEW t, t = Append(s, e)
  PROVE  /\ t \in Seq(ToSet(t)) /\ Len(s) \in Nat /\ Len(t) = Len(s) + 1
         /\ \A k \in 1..Len(s) : t[k] = s[k]
         /\ t[Len(t)] = e
<1> DEFINE X == ToSet(s) \cup {e}
<1>1. s \in Seq(X)
  <2>1. \A k \in DOMAIN s : s[k] \in X OBVIOUS
  <2>2. \E n \in Nat : DOMAIN s = 1..n /\ Len(s) = n OBVIOUS
  <2>q. QED BY <2>1, <2>2, SeqDef
<1>2. e \in X OBVIOUS
<1> HIDE DEF X
<1>3. /\ t \in Seq(X) /\ Len(s) \in Nat /\ Len(t) = Len(s) + 1
      /\ \A k \in 1..Len(s) : t[k] = s[k]
      /\ t[Len(s) + 1] = e
  BY <1>1, <1>2
<1>4. t \in Seq(ToSet(t))
  <2>1. PICK n \in Nat : n = Len(t) /\ t \in [1..n -> X] BY <1>3, LenProperties
  <2>2. PICK T : T = ToSet(t) OBVIOUS
  <2>3. t \in [1..n -> T] BY <2>1, <2>2 DEF ToSet
  <2>4. t \in Seq(T) BY <2>3, SeqDef, Zenon
  <2>q. QED BY <2>2, <2>4
<1>q. QED BY <1>3, <1>4

\* What does not depend on how far a request is.
LEMMA Fixed ==
  ASSUME snap' = snap, req' = req
  PROVE  /\ \A x : Serves(x)' <=> Serves(x)
         /\ Wellformed(snap, req) => Wellformed(snap, req)'
         /\ routeAt' = routeAt => /\ Here' = Here /\ Original' = Original
                                  /\ Policies' = Policies /\ Mine' = Mine
         /\ routeAt' = routeAt /\ effective' = effective =>
              /\ HasBalancer' <=> HasBalancer
              /\ \A by : InForce(by)' = InForce(by)
              /\ chain' = chain => (ChainOk' <=> ChainOk)
              /\ chain' = chain => \A name, by : EntryOf(name, by)' = EntryOf(name, by)
<1>1. \A x : Serves(x)' <=> Serves(x) BY DEF Serves
<1>2. Wellformed(snap, req) => Wellformed(snap, req)' BY DEF Wellformed
<1>3. routeAt' = routeAt => Here' = Here BY DEF Here
<1>4. routeAt' = routeAt => Original' = Original /\ Policies' = Policies /\ Mine' = Mine
  BY <1>3 DEF Original, Policies, Mine
<1>5. ASSUME routeAt' = routeAt, effective' = effective
      PROVE  /\ HasBalancer' <=> HasBalancer
             /\ \A by : InForce(by)' = InForce(by)
             /\ chain' = chain => (ChainOk' <=> ChainOk)
             /\ chain' = chain => \A name, by : EntryOf(name, by)' = EntryOf(name, by)
  <2>1. HasBalancer' <=> HasBalancer BY <1>5 DEF HasBalancer
  <2>2. \A by : InForce(by)' = InForce(by) BY <1>3, <1>5 DEF InForce
  <2>3. chain' = chain => (ChainOk' <=> ChainOk) BY <1>3, <1>5, <2>2 DEF ChainOk
  <2>4. chain' = chain => \A name, by : EntryOf(name, by)' = EntryOf(name, by)
    BY <1>3, <1>5 DEF EntryOf
  <2>q. QED BY <2>1, <2>2, <2>3, <2>4
<1>q. QED BY <1>1, <1>2, <1>3, <1>4, <1>5

\* Each step records what it should.
LEMMA RecStep == PathInv /\ [Next]_vars => RecInv'
<1> SUFFICES ASSUME PathInv, [Next]_vars PROVE RecInv' OBVIOUS
<1>1. RecInv BY DEF PathInv
<1>2. attempt \in Nat /\ recorded \in Nat BY <1>1 DEF RecInv
<1>3. CASE SkipRoute \/ TakeRoute \/ NotFound \/ TryPolicy \/ NoPolicyLeft \/ BuildChain
  BY <1>1, <1>2, <1>3
     DEF RecInv, RecordedPerAttempt, SkipRoute, TakeRoute, NotFound, TryPolicy, NoPolicyLeft, BuildChain
<1>4. CASE RunOnRequest
  <2>1. pc = "request" /\ pc' \in {"request", "refuse", "short"} BY <1>4, OutFacts DEF RunOnRequest
  <2>2. UNCHANGED <<attempt, recorded>> BY <1>4 DEF RunOnRequest
  <2>q. QED BY <1>1, <1>2, <2>1, <2>2 DEF RecInv, RecordedPerAttempt
<1>5. CASE EndOnRequest \/ ShortCircuited \/ RunOnErrorRefused \/ Refuse \/ NoTarget
  BY <1>1, <1>2, <1>5 DEF RecInv, RecordedPerAttempt, EndOnRequest, ShortCircuited, RunOnErrorRefused,
                          RunPhase, Refuse, NoTarget
<1>6. CASE Send \/ UpstreamAnswers \/ RunOnResponse \/ modifyResponse \/ BodyEnds \/ RunOnError \/ errorHandler \/ Retry \/ Answer
  <2>1. HasBalancer' <=> HasBalancer
    BY <1>6, Fixed DEF Send, UpstreamAnswers, RunOnResponse, modifyResponse, BodyEnds, RunOnError, errorHandler, Retry, Answer, routing
  <2>2. snap' = snap /\ effective' = effective
    BY <1>6 DEF Send, UpstreamAnswers, RunOnResponse, modifyResponse, BodyEnds, RunOnError, errorHandler, Retry, Answer, routing
  <2>3. CASE Send BY <1>1, <1>2, <2>1, <2>2, <2>3 DEF RecInv, RecordedPerAttempt, Send
  <2>10. CASE UpstreamAnswers BY <1>1, <1>2, <2>1, <2>2, <2>10 DEF RecInv, RecordedPerAttempt, UpstreamAnswers
  <2>11. CASE BodyEnds BY <1>1, <1>2, <2>1, <2>2, <2>11 DEF RecInv, RecordedPerAttempt, BodyEnds
  <2>4. CASE RunOnResponse
    BY <1>1, <1>2, <2>1, <2>2, <2>4 DEF RecInv, RecordedPerAttempt, RunOnResponse, RunPhase
  <2>5. CASE modifyResponse BY <1>1, <1>2, <2>1, <2>2, <2>5 DEF RecInv, RecordedPerAttempt, modifyResponse
  <2>6. CASE RunOnError BY <1>1, <1>2, <2>1, <2>2, <2>6 DEF RecInv, RecordedPerAttempt, RunOnError, RunPhase
  <2>7. CASE errorHandler BY <1>1, <1>2, <2>1, <2>2, <2>7 DEF RecInv, RecordedPerAttempt, errorHandler
  <2>8. CASE Retry BY <1>1, <1>2, <2>1, <2>2, <2>8 DEF RecInv, RecordedPerAttempt, Retry
  <2>9. CASE Answer BY <1>1, <1>2, <2>1, <2>2, <2>9 DEF RecInv, RecordedPerAttempt, Answer
  <2>q. QED BY <1>6, <2>3, <2>4, <2>5, <2>6, <2>7, <2>8, <2>9, <2>10, <2>11
<1>7. CASE Done \/ UNCHANGED vars
  <2>1. HasBalancer' <=> HasBalancer BY <1>7, Fixed DEF Done, vars, routing
  <2>q. QED BY <1>1, <1>7, <2>1 DEF RecInv, RecordedPerAttempt, Done, vars, routing
<1>q. QED BY <1>3, <1>4, <1>5, <1>6, <1>7 DEF Next, ServeHTTP

\* An answer is one of the known ones.
LEMMA StatusStep == PathInv /\ [Next]_vars => StatusInv'
<1> SUFFICES ASSUME PathInv, [Next]_vars PROVE StatusInv' OBVIOUS
<1>1. StatusInv BY DEF PathInv
<1>2. CASE SkipRoute \/ TakeRoute \/ NotFound \/ TryPolicy \/ NoPolicyLeft \/ BuildChain
  BY <1>1, <1>2 DEF StatusInv, SkipRoute, TakeRoute, NotFound, TryPolicy, NoPolicyLeft, BuildChain
<1>3. CASE RunOnRequest
  <2>1. /\ pc' = "request" \/ (pc' \in {"refuse", "short"} /\ refusal' \in {200, 401, 429, 500})
        /\ UNCHANGED status
    BY <1>3, OutFacts DEF RunOnRequest
  <2>q. QED BY <2>1 DEF StatusInv
<1>4. CASE EndOnRequest \/ ShortCircuited \/ RunOnErrorRefused \/ Refuse \/ NoTarget
  BY <1>1, <1>4 DEF StatusInv, EndOnRequest, ShortCircuited, RunOnErrorRefused, RunPhase, Refuse, NoTarget
<1>5. CASE Send \/ UpstreamAnswers \/ RunOnResponse \/ modifyResponse \/ BodyEnds
  BY <1>1, <1>5 DEF StatusInv, Send, UpstreamAnswers, RunOnResponse, RunPhase, modifyResponse, BodyEnds
<1>6. CASE RunOnError \/ errorHandler \/ Retry \/ Answer
  BY <1>1, <1>6 DEF StatusInv, Statuses, RunOnError, RunPhase, errorHandler, Retry, Answer
<1>7. CASE Done \/ UNCHANGED vars BY <1>1, <1>7 DEF StatusInv, Done, vars, plugins
<1>q. QED BY <1>2, <1>3, <1>4, <1>5, <1>6, <1>7 DEF Next, ServeHTTP

\* Once a request is routed, nothing changes the decision.
LEMMA RouteKept ==
  ASSUME PathInv, UNCHANGED <<snap, req, routing>>,
         \/ pc' = pc /\ (Missing' <=> Missing)
         \/ pc \notin {"route", "policy"} /\ ~Missing /\ pc' \notin {"route", "policy"} /\ ~Missing'
  PROVE  RouteInv'
<1>1. RouteInv BY DEF PathInv
<1>2. UNCHANGED <<snap, req, routeAt, policyAt, effective, hit, drawn>> BY DEF routing
<1>3. /\ \A x : Serves(x)' <=> Serves(x)
      /\ Here' = Here /\ Original' = Original /\ Policies' = Policies
  BY <1>2, Fixed
<1>4. \A n : Passed(n)' <=> Passed(n) BY <1>2, <1>3 DEF Passed
<1>q. QED BY <1>1, <1>2, <1>3, <1>4 DEF RouteInv

\* The next route, and the next policy of it.
LEMMA RouteStep == PathInv /\ [Next]_vars => RouteInv'
<1> SUFFICES ASSUME PathInv, [Next]_vars PROVE RouteInv' OBVIOUS
<1>1. RouteInv /\ StatusInv /\ Wellformed(snap, req) BY DEF PathInv
<1>2. PICK M : M = routeMatchers(snap) OBVIOUS
<1>3. M \in Seq(ToSet(snap.routes)) /\ Len(M) \in Nat /\ \A n \in 1..Len(M) : M[n].enabled
  BY <1>1, <1>2, MatchersFacts DEF Wellformed, InOrder
<1>4. Here = M[routeAt] /\ Original = M[routeAt].service BY <1>2 DEF Here, Original
<1>5. /\ Len(Policies) \in Nat /\ \A n \in 1..Len(Policies) : Policies[n] \in Mine
  BY <1>1, PoliciesFacts
<1>6. CASE SkipRoute
  <2>1. /\ pc = "route" /\ pc' = pc /\ status' = status /\ routeAt <= Len(M) /\ routeAt' = routeAt + 1
        /\ snap' = snap /\ req' = req /\ UNCHANGED <<policyAt, effective, hit, drawn>>
        /\ ~Serves(M[routeAt])
    BY <1>2, <1>4, <1>6 DEF SkipRoute, Serves
  <2>2. routeMatchers(snap)' = M /\ \A x : Serves(x)' <=> Serves(x) BY <1>2, <2>1, Fixed
  <2>3. routeAt \in 1..Len(M) /\ \A k \in 1..(routeAt - 1) : ~Serves(M[k])
    BY <1>1, <1>2, <1>3, <2>1 DEF RouteInv
  <2>4. \A k \in 1..(routeAt' - 1) : ~Serves(M[k])
    <3>1. \A k \in 1..(routeAt' - 1) : k \in 1..(routeAt - 1) \/ k = routeAt BY <2>1, <2>3
    <3>q. QED BY <2>1, <2>3, <3>1
  <2>5. routeAt' \in 1..(Len(M) + 1) BY <1>3, <2>1, <2>3
  <2>6. policyAt' = 1 /\ hit' = Nil /\ drawn' = <<>> BY <1>1, <2>1 DEF RouteInv
  <2>7. pc' = "route" /\ ~Missing' BY <2>1 DEF Missing
  <2>q. QED BY <2>2, <2>4, <2>5, <2>6, <2>7 DEF RouteInv
<1>7. CASE TakeRoute
  <2>1. /\ pc = "route" /\ pc' = "policy" /\ routeAt <= Len(M) /\ routeAt' = routeAt
        /\ snap' = snap /\ req' = req /\ effective' = Original /\ UNCHANGED <<policyAt, hit, drawn>>
    BY <1>2, <1>7 DEF TakeRoute
  <2>2. /\ routeMatchers(snap)' = M /\ \A x : Serves(x)' <=> Serves(x)
        /\ Here' = Here /\ Original' = Original /\ Policies' = Policies
    BY <1>2, <2>1, Fixed
  <2>3. routeAt \in 1..Len(M) /\ \A k \in 1..(routeAt - 1) : ~Serves(M[k])
    BY <1>1, <1>2, <1>3, <2>1 DEF RouteInv
  <2>4. Serves(Here) BY <1>3, <1>4, <1>7, <2>3 DEF TakeRoute, Serves, Original
  <2>5. policyAt' = 1 /\ hit' = Nil /\ drawn' = <<>> BY <1>1, <2>1 DEF RouteInv
  <2>6. drawn' \in Seq(ToSet(drawn')) /\ Len(drawn') = 0 BY <2>5
  <2>7. ~Missing' BY <2>1 DEF Missing
  <2>q. QED BY <1>3, <1>5, <2>1, <2>2, <2>3, <2>4, <2>5, <2>6, <2>7 DEF RouteInv
<1>8. CASE NotFound
  <2>1. /\ pc = "route" /\ Missing' /\ pc' = "done" /\ routeAt > Len(M) /\ snap' = snap /\ req' = req
        /\ routeAt' = routeAt
    BY <1>2, <1>8 DEF NotFound, Missing, routing
  <2>2. /\ routeMatchers(snap)' = M /\ \A x : Serves(x)' <=> Serves(x) BY <1>2, <2>1, Fixed
  <2>3. routeAt = Len(M) + 1 /\ \A k \in 1..(routeAt - 1) : ~Serves(M[k])
    BY <1>1, <1>2, <1>3, <2>1 DEF RouteInv
  <2>q. QED BY <1>3, <2>1, <2>2, <2>3 DEF RouteInv
<1>9. CASE TryPolicy
  <2>1. PICK draws : LET p == Policies[policyAt]
                         chosen == /\ p.enabled
                                   /\ matchTrafficPolicy(p, snap, req, Original, draws)
                                   /\ TargetOf(p) \in DOMAIN snap.services
                     IN  /\ drawn' = Append(drawn, draws)
                         /\ effective' = IF chosen THEN TargetOf(p) ELSE effective
                         /\ hit' = IF chosen THEN p ELSE hit
                         /\ policyAt' = policyAt + 1
                         /\ pc' = IF chosen THEN "chain" ELSE "policy"
    BY <1>9 DEF TryPolicy
  <2>2. /\ pc = "policy" /\ policyAt <= Len(Policies) /\ snap' = snap /\ req' = req /\ routeAt' = routeAt
        /\ pc' \in {"chain", "policy"} /\ ~Missing /\ ~Missing'
    BY <1>9, <2>1 DEF TryPolicy, Missing
  <2>3. /\ routeMatchers(snap)' = M /\ \A x : Serves(x)' <=> Serves(x)
        /\ Here' = Here /\ Original' = Original /\ Policies' = Policies
    BY <1>2, <2>2, Fixed
  <2>4. /\ routeAt \in 1..(Len(M) + 1) /\ routeAt <= Len(M) /\ Serves(Here)
        /\ \A k \in 1..(routeAt - 1) : ~Serves(M[k])
        /\ drawn \in Seq(ToSet(drawn)) /\ policyAt = Len(drawn) + 1
        /\ hit = Nil /\ effective = Original /\ \A n \in 1..Len(drawn) : ~Passed(n)
    BY <1>1, <1>2, <2>2 DEF RouteInv
  <2>5. /\ drawn' \in Seq(ToSet(drawn')) /\ Len(drawn) \in Nat /\ Len(drawn') = Len(drawn) + 1
        /\ \A n \in 1..Len(drawn) : drawn'[n] = drawn[n]
        /\ drawn'[Len(drawn')] = draws
    <3>1. PICK d : d = drawn OBVIOUS
    <3>2. PICK u : u = drawn' OBVIOUS
    <3>3. d \in Seq(ToSet(d)) BY <2>4, <3>1
    <3>4. u = Append(d, draws) BY <2>1, <3>1, <3>2
    <3>5. u \in Seq(ToSet(u)) BY <3>3, <3>4, Appended, Zenon
    <3>6. Len(d) \in Nat /\ Len(u) = Len(d) + 1 BY <3>3, <3>4, Appended
    <3>7. \A n \in 1..Len(d) : u[n] = d[n] BY <3>3, <3>4, Appended
    <3>8. u[Len(u)] = draws BY <3>3, <3>4, Appended
    <3>q. QED BY <3>1, <3>2, <3>5, <3>6, <3>7, <3>8
  <2>6. PICK at \in 1..Len(Policies) : at = policyAt /\ at = Len(drawn') /\ at \in Nat /\ policyAt' = at + 1
    BY <1>5, <2>1, <2>2, <2>4, <2>5
  <2>7. \A n \in 1..(at - 1) : ~Passed(n)'
    <3>1. \A n \in 1..(at - 1) : n \in 1..Len(drawn) BY <2>5, <2>6
    <3>q. QED BY <2>2, <2>3, <2>4, <2>5, <3>1 DEF Passed
  <2>8. Policies[at] # Nil BY <1>1, <1>5, <2>6 DEF Wellformed, Mine
  <2>9. CASE pc' = "chain"
    <3>1. Passed(at)' /\ hit' = Policies[at] /\ effective' = TargetOf(hit')
      BY <2>1, <2>2, <2>3, <2>5, <2>6, <2>9 DEF Passed
    <3>q. QED BY <1>3, <2>2, <2>3, <2>4, <2>5, <2>6, <2>7, <2>8, <2>9, <3>1 DEF RouteInv
  <2>10. CASE pc' = "policy"
    <3>1. ~Passed(at)' /\ hit' = Nil /\ effective' = Original
      BY <2>1, <2>2, <2>3, <2>4, <2>5, <2>6, <2>10 DEF Passed
    <3>2. \A n \in 1..at : n \in 1..(at - 1) \/ n = at BY <2>6
    <3>q. QED BY <1>3, <2>2, <2>3, <2>4, <2>5, <2>6, <2>7, <2>10, <3>1, <3>2 DEF RouteInv
  <2>q. QED BY <2>2, <2>9, <2>10
<1>10. CASE NoPolicyLeft
  <2>1. /\ pc = "policy" /\ pc' = "chain" /\ policyAt > Len(Policies) /\ snap' = snap /\ req' = req
        /\ UNCHANGED <<routeAt, policyAt, effective, hit, drawn>> /\ ~Missing /\ ~Missing'
    BY <1>10 DEF NoPolicyLeft, routing, Missing
  <2>2. /\ routeMatchers(snap)' = M /\ \A x : Serves(x)' <=> Serves(x)
        /\ Here' = Here /\ Original' = Original /\ Policies' = Policies
    BY <1>2, <2>1, Fixed
  <2>3. \A n : Passed(n)' <=> Passed(n) BY <2>1, <2>2 DEF Passed
  <2>4. Len(drawn) \in Nat /\ policyAt = Len(drawn) + 1 /\ Len(drawn) <= Len(Policies)
    BY <1>1, <2>1 DEF RouteInv
  <2>5. Len(drawn) = Len(Policies) BY <1>5, <2>1, <2>4
  <2>q. QED BY <1>1, <1>2, <2>1, <2>2, <2>3, <2>5 DEF RouteInv
<1>11. CASE BuildChain \/ EndOnRequest \/ ShortCircuited \/ RunOnErrorRefused \/ Refuse \/ NoTarget
  <2>1. UNCHANGED <<snap, req, routing>>
    BY <1>11 DEF BuildChain, EndOnRequest, ShortCircuited, RunOnErrorRefused, Refuse, NoTarget
  <2>2. pc \notin {"route", "policy"} /\ ~Missing /\ pc' \notin {"route", "policy"} /\ ~Missing'
    BY <1>1, <1>11 DEF BuildChain, EndOnRequest, ShortCircuited, RunOnErrorRefused, RunPhase, Refuse,
                       NoTarget, Missing, StatusInv
  <2>q. QED BY <2>1, <2>2, RouteKept
<1>12. CASE RunOnRequest
  <2>1. UNCHANGED <<snap, req, routing>> /\ pc = "request" /\ pc' \in {"request", "refuse", "short"}
    BY <1>12, OutFacts DEF RunOnRequest
  <2>q. QED BY <2>1, RouteKept DEF Missing
<1>13. CASE Send \/ UpstreamAnswers \/ RunOnResponse \/ modifyResponse \/ BodyEnds \/ RunOnError \/ errorHandler \/ Retry \/ Answer
  <2>1. UNCHANGED <<snap, req, routing>>
    BY <1>13 DEF Send, UpstreamAnswers, RunOnResponse, modifyResponse, BodyEnds, RunOnError, errorHandler, Retry, Answer
  <2>2. pc \notin {"route", "policy"} /\ ~Missing /\ pc' \notin {"route", "policy"} /\ ~Missing'
    BY <1>1, <1>13 DEF Send, UpstreamAnswers, RunOnResponse, modifyResponse, BodyEnds, RunOnError, errorHandler, Retry, Answer,
                       RunPhase, Missing, StatusInv, Statuses
  <2>q. QED BY <2>1, <2>2, RouteKept
<1>14. CASE Done \/ UNCHANGED vars
  BY <1>14, RouteKept DEF Done, vars, Missing
<1>q. QED BY <1>6, <1>7, <1>8, <1>9, <1>10, <1>11, <1>12, <1>13, <1>14 DEF Next, ServeHTTP

\* What is a list of some set is a list of its own elements.
LEMMA Listed ==
  ASSUME NEW X, NEW s \in Seq(X)
  PROVE  s \in Seq(ToSet(s))
<1>1. PICK n \in Nat : n = Len(s) /\ s \in [1..n -> X] BY LenProperties
<1>2. PICK T : T = ToSet(s) OBVIOUS
<1>3. s \in [1..n -> T] BY <1>1, <1>2 DEF ToSet
<1>4. s \in Seq(T) BY <1>3, SeqDef, ZenonT(60)
<1>q. QED BY <1>2, <1>4

\* What ran is never forgotten.
LEMMA RanGrows ==
  ASSUME ran \in Seq(ToSet(ran)), NEW e, ran' = Append(ran, e)
  PROVE  /\ ran' \in Seq(ToSet(ran')) /\ Len(ran) \in Nat /\ Len(ran') = Len(ran) + 1
         /\ \A k \in 1..Len(ran) : ran'[k] = ran[k] /\ k \in 1..Len(ran')
         /\ ran'[Len(ran) + 1] = e
         /\ \A k \in 1..Len(ran') : k \in 1..Len(ran) \/ k = Len(ran) + 1
<1>1. PICK d : d = ran OBVIOUS
<1>2. PICK u : u = ran' OBVIOUS
<1>3. d \in Seq(ToSet(d)) BY <1>1
<1>4. u = Append(d, e) BY <1>1, <1>2
<1>5. u \in Seq(ToSet(u)) BY <1>3, <1>4, Appended, Zenon
<1>6. Len(d) \in Nat /\ Len(u) = Len(d) + 1 BY <1>3, <1>4, Appended
<1>7. \A k \in 1..Len(d) : u[k] = d[k] BY <1>3, <1>4, Appended
<1>8. u[Len(u)] = e BY <1>3, <1>4, Appended
<1>9. \A k \in 1..Len(u) : k \in 1..Len(d) \/ k = Len(d) + 1 BY <1>6
<1>10. \A k \in 1..Len(d) : k \in 1..Len(u) BY <1>6
<1>q. QED BY <1>1, <1>2, <1>5, <1>6, <1>7, <1>8, <1>9, <1>10

Step(e) == [phase |-> PhaseOf(pc), attempt |-> attempt, entry |-> e, by |-> consumer]

NoneRan ==
  /\ Entry(Head(todo)) = Nil
  /\ pc' = pc /\ todo' = Tail(todo) /\ ran' = ran /\ UNCHANGED <<consumer, keys, refusal>>

OneRan(e) ==
  /\ ran' = Append(ran, Step(e))
  /\ pc = "request" => \E out \in OnRequest(e) :
       consumer' = out.consumer /\ keys' = out.keys /\ refusal' = out.refusal /\ pc' = out.next
  /\ \/ pc' = pc /\ todo' \in {Tail(todo), <<>>}
     \/ pc' = "short"
     \/ /\ (pc = "request" /\ pc' = "refuse") \/ (pc = "response" /\ pc' = "error")
        /\ todo' = BackwardNames(chain)
  /\ pc' = "request" => todo' = Tail(todo)

\* A plugin that runs is the one that stands for the next name.
LEMMA Runs ==
  ASSUME PathInv, RunOnRequest \/ RunOnErrorRefused \/ RunOnResponse \/ RunOnError
  PROVE  /\ UNCHANGED <<snap, req, routing, chain, attempt>> /\ pc \in Phases /\ todo # <<>>
         /\ pc # "request" => UNCHANGED <<consumer, keys, refusal>>
         /\ NoneRan \/ \E e : e = Entry(Head(todo)) /\ e # Nil /\ OneRan(e)
<1>1. CASE RunOnRequest
  <2>1. /\ UNCHANGED <<snap, req, routing, chain, attempt>> /\ pc = "request" /\ todo # <<>>
    BY <1>1 DEF RunOnRequest
  <2>2. PICK e : e = Entry(Head(todo)) OBVIOUS
  <2>3. CASE e = Nil
    <3>1. UNCHANGED <<pc, consumer, keys, ran, refusal>> /\ todo' = Tail(todo)
      BY <1>1, <2>2, <2>3 DEF RunOnRequest
    <3>q. QED BY <2>1, <2>2, <2>3, <3>1 DEF Phases, NoneRan
  <2>4. CASE e # Nil
    <3>1. PICK out \in OnRequest(e) :
               /\ ran' = Ran("OnRequest", e)
               /\ consumer' = out.consumer /\ keys' = out.keys /\ refusal' = out.refusal
               /\ pc' = out.next
               /\ todo' = IF pc' = "refuse" THEN BackwardNames(chain) ELSE Tail(todo)
      BY <1>1, <2>2, <2>4 DEF RunOnRequest
    <3>2. ran' = Append(ran, Step(e)) BY <2>1, <3>1 DEF Ran, Step, PhaseOf
    <3>3. pc' \in {"request", "refuse", "short"} BY <3>1, OutFacts
    <3>4. pc = "request" => \E o \in OnRequest(e) :
            consumer' = o.consumer /\ keys' = o.keys /\ refusal' = o.refusal /\ pc' = o.next
      BY <3>1
    <3>5. \/ pc' = pc /\ todo' \in {Tail(todo), <<>>}
          \/ pc' = "short"
          \/ pc = "request" /\ pc' = "refuse" /\ todo' = BackwardNames(chain)
      BY <2>1, <3>1, <3>3
    <3>6. pc' = "request" => todo' = Tail(todo) BY <3>1
    <3>7. OneRan(e) BY <2>1, <3>2, <3>4, <3>5, <3>6 DEF OneRan
    <3>q. QED BY <2>1, <2>2, <2>4, <3>7 DEF Phases
  <2>q. QED BY <2>3, <2>4
<1>2. ASSUME NEW phase, NEW after, NEW failed, RunPhase(phase, after, failed), todo # <<>>,
             pc \in Phases, pc # "request", phase = PhaseOf(pc),
             UNCHANGED <<snap, req, routing, chain, attempt, consumer, keys, refusal>>,
             \/ failed = pc /\ after = <<>>
             \/ pc = "response" /\ failed = "error" /\ after = BackwardNames(chain)
      PROVE  /\ UNCHANGED <<snap, req, routing, chain, attempt>> /\ pc \in Phases /\ todo # <<>>
             /\ pc # "request" => UNCHANGED <<consumer, keys, refusal>>
             /\ NoneRan \/ \E e : e = Entry(Head(todo)) /\ e # Nil /\ OneRan(e)
  <2>1. PICK e : e = Entry(Head(todo)) OBVIOUS
  <2>2. CASE e = Nil
    <3>1. pc' = pc /\ todo' = Tail(todo) /\ ran' = ran BY <1>2, <2>1, <2>2 DEF RunPhase
    <3>q. QED BY <1>2, <2>1, <2>2, <3>1 DEF NoneRan
  <2>3. CASE e # Nil
    <3>1. /\ ran' = Ran(phase, e)
          /\ (todo' = Tail(todo) /\ pc' = pc) \/ (todo' = after /\ pc' = failed)
      BY <1>2, <2>1, <2>3 DEF RunPhase
    <3>2. ran' = Append(ran, Step(e)) BY <1>2, <3>1 DEF Ran, Step
    <3>3. \/ pc' = pc /\ todo' \in {Tail(todo), <<>>}
          \/ pc = "response" /\ pc' = "error" /\ todo' = BackwardNames(chain)
      BY <1>2, <3>1
    <3>4. pc' # "request" BY <1>2, <3>3
    <3>5. OneRan(e) BY <1>2, <3>2, <3>3, <3>4 DEF OneRan
    <3>q. QED BY <1>2, <2>1, <2>3, <3>5
  <2>q. QED BY <2>2, <2>3
<1>3. CASE RunOnErrorRefused BY <1>2, <1>3 DEF RunOnErrorRefused, Phases, PhaseOf
<1>4. CASE RunOnResponse BY <1>2, <1>4 DEF RunOnResponse, Phases, PhaseOf
<1>5. CASE RunOnError BY <1>2, <1>5 DEF RunOnError, Phases, PhaseOf
<1>q. QED BY <1>1, <1>3, <1>4, <1>5

\* The entry of a name is of that name.
LEMMA EntryNamed ==
  ASSUME PathInv, pc \in Phases, NEW name, NEW e, e = Entry(name), e # Nil
  PROVE  /\ e.name = name /\ e = EntryOf(e.name, consumer)
         /\ e \in ToSet(chain) /\ isPluginMatch(e, effective, Here.id, consumer)
<1>1. PICK X : X = ToSet(snap.plugins) OBVIOUS
<1>2. chain \in Seq(X) /\ Nil \notin X BY <1>1 DEF PathInv, ChainInv, ChainOk, Chained, Phases, Wellformed
<1>3. PICK c : c = chain OBVIOUS
<1>4. PICK route, service, by : route = Here.id /\ service = effective /\ by = consumer OBVIOUS
<1>5. e = EntryFor(c, name, service, route, by) BY <1>3, <1>4 DEF Entry
<1>6. e \in ToSet(c) /\ e.name = name /\ isPluginMatch(e, service, route, by)
  BY <1>2, <1>3, <1>5, EntryFacts
<1>q. QED BY <1>3, <1>4, <1>5, <1>6 DEF EntryOf

\* The chain is what it was, and what runs stands for its name.
LEMMA ChainStep == PathInv /\ [Next]_vars => ChainInv'
<1> SUFFICES ASSUME PathInv, [Next]_vars PROVE ChainInv' OBVIOUS
<1>1. ChainInv /\ RecInv /\ Wellformed(snap, req) BY DEF PathInv
<1>2. CASE SkipRoute \/ TakeRoute \/ NotFound \/ TryPolicy \/ NoPolicyLeft
  <2>1. /\ pc \in {"route", "policy"} /\ pc' \in {"route", "policy", "chain", "done"}
        /\ ran' = ran /\ attempt' = attempt
    BY <1>2 DEF SkipRoute, TakeRoute, NotFound, TryPolicy, NoPolicyLeft, plugins
  <2>2. ran' = <<>> /\ attempt' = 0 BY <1>1, <2>1 DEF ChainInv, RecInv
  <2>3. ran' \in Seq(ToSet(ran')) /\ Len(ran') = 0 BY <2>2
  <2>q. QED BY <2>1, <2>2, <2>3 DEF ChainInv, Chained
<1>3. CASE BuildChain
  <2>1. PICK all \in GetAllConsumerPlugins(snap) :
               LET built == BuildChainForRequest(snap, effective, Here.id, all)
               IN  IF CanBuild(built)
                     THEN /\ chain' = built /\ todo' = ForwardNames(built)
                          /\ pc' = "request"
                          /\ UNCHANGED <<recorded, status>>
                     ELSE /\ pc' = "done" /\ status' = 500 /\ recorded' = recorded + 1
                          /\ UNCHANGED <<chain, todo>>
    BY <1>3 DEF BuildChain
  <2>2. /\ pc = "chain" /\ UNCHANGED <<snap, req, routeAt, effective, ran, attempt>>
    BY <1>3 DEF BuildChain, routing
  <2>3. ran' = <<>> /\ attempt' = 0 BY <1>1, <2>2 DEF ChainInv, RecInv
  <2>4. ran' \in Seq(ToSet(ran')) /\ Len(ran') = 0 BY <2>3
  <2>5. CASE pc' = "done" BY <2>3, <2>4, <2>5 DEF ChainInv, Chained
  <2>6. CASE pc' # "done"
    <3>1. PICK s, X, service, route, c : /\ s = snap /\ X = ToSet(snap.plugins) /\ service = effective
                                         /\ route = Here.id
                                         /\ c = BuildChainForRequest(s, service, route, all)
      OBVIOUS
    <3>2. chain' = c /\ pc' = "request" BY <2>1, <2>6, <3>1
    <3>3. s.plugins \in Seq(X) /\ Nil \notin X /\ X = ToSet(s.plugins) BY <1>1, <3>1 DEF Wellformed
    <3>4. all \in GetAllConsumerPlugins(s) BY <3>1
    <3>5. /\ c \in Seq(X)
          /\ \A by : {p \in ToSet(c) : isPluginMatch(p, service, route, by)} = Stock(s, service, route, by)
      BY <3>1, <3>3, <3>4, ChainHolds
    <3>6. \A by : InForce(by) = Stock(s, service, route, by) BY <3>1 DEF InForce, Stock
    <3>7. /\ Here' = Here /\ \A by : InForce(by)' = InForce(by) BY <2>2, Fixed
    <3>8. ChainOk' BY <2>2, <3>1, <3>2, <3>5, <3>6, <3>7 DEF ChainOk
    <3>q. QED BY <2>3, <2>4, <3>2, <3>8 DEF ChainInv, Chained
  <2>q. QED BY <2>5, <2>6
<1>4. ASSUME UNCHANGED <<snap, req, routing, chain>>, ran' = ran,
             \/ pc' = pc /\ attempt' = attempt
             \/ pc \in Chained /\ pc' \notin {"route", "policy", "chain"}
      PROVE  ChainInv'
  <2>1. /\ ChainOk' <=> ChainOk
        /\ \A name, by : EntryOf(name, by)' = EntryOf(name, by)
    BY <1>4, Fixed DEF routing
  <2>q. QED BY <1>1, <1>4, <2>1 DEF ChainInv
<1>5. CASE RunOnRequest \/ RunOnErrorRefused \/ RunOnResponse \/ RunOnError
  <2>1. UNCHANGED <<snap, req, routing, chain, attempt>> /\ pc \in Phases BY <1>5, Runs
  <2>2. CASE NoneRan BY <1>4, <2>1, <2>2 DEF NoneRan
  <2>3. CASE ~NoneRan
    <3>1. PICK e : e = Entry(Head(todo)) /\ e # Nil /\ OneRan(e) BY <1>5, <2>3, Runs
    <3>2. /\ ChainOk' <=> ChainOk
          /\ \A name, by : EntryOf(name, by)' = EntryOf(name, by)
      BY <2>1, Fixed DEF routing
    <3>3. e = EntryOf(e.name, consumer) BY <2>1, <3>1, EntryNamed
    <3>4. ran' = Append(ran, Step(e)) /\ ran \in Seq(ToSet(ran)) BY <1>1, <3>1 DEF OneRan, ChainInv
    <3>5. /\ ran' \in Seq(ToSet(ran')) /\ Len(ran) \in Nat /\ Len(ran') = Len(ran) + 1
          /\ \A k \in 1..Len(ran) : ran'[k] = ran[k]
          /\ ran'[Len(ran) + 1] = Step(e)
          /\ \A k \in 1..Len(ran') : k \in 1..Len(ran) \/ k = Len(ran) + 1
      BY <3>4, RanGrows
    <3>6. pc' \in {"request", "refuse", "short", "response", "error"} BY <2>1, <3>1 DEF OneRan, Phases
    <3>7. ChainOk BY <1>1, <2>1 DEF ChainInv, Chained, Phases
    <3>8. Step(e).entry = e /\ Step(e).by = consumer BY DEF Step
    <3>9. ASSUME NEW k \in 1..Len(ran')
          PROVE  ran'[k].entry # Nil /\ ran'[k].entry = EntryOf(ran'[k].entry.name, ran'[k].by)
      <4>1. CASE k \in 1..Len(ran) BY <1>1, <3>5, <4>1 DEF ChainInv
      <4>2. CASE k = Len(ran) + 1 BY <3>1, <3>3, <3>5, <3>8, <4>2
      <4>q. QED BY <3>5, <3>9, <4>1, <4>2
    <3>q. QED BY <3>2, <3>5, <3>6, <3>7, <3>9 DEF ChainInv, Chained
  <2>q. QED BY <2>2, <2>3
<1>6. CASE EndOnRequest \/ ShortCircuited \/ Refuse \/ NoTarget
  BY <1>4, <1>6 DEF Chained, EndOnRequest, ShortCircuited, Refuse, NoTarget, plugins
<1>7. CASE Send \/ UpstreamAnswers \/ modifyResponse \/ BodyEnds \/ errorHandler \/ Retry \/ Answer
  BY <1>4, <1>7 DEF Chained, Send, UpstreamAnswers, modifyResponse, BodyEnds, errorHandler, Retry, Answer, plugins
<1>8. CASE Done \/ UNCHANGED vars BY <1>4, <1>8 DEF Done, vars, plugins
<1>q. QED BY <1>2, <1>3, <1>5, <1>6, <1>7, <1>8 DEF Next, ServeHTTP

\* A list of names with none twice.
Distinct(names) == names \in Seq(ToSet(names)) /\ \A n, m \in 1..Len(names) : names[n] = names[m] => n = m

LEMMA NamesDistinct ==
  ASSUME NEW X, NEW c \in Seq(X)
  PROVE  Distinct(ForwardNames(c)) /\ Distinct(BackwardNames(c))
<1>1. ASSUME NEW s \in Seq(X) PROVE Distinct(NamesOf(s))
  <2>1. PICK t, Y : t = NamesOf(s) /\ Y = {p.name : p \in X} OBVIOUS
  <2>2. t \in Seq(Y) /\ \A n, m \in DOMAIN t : t[n] = t[m] => n = m BY <2>1, NamesFacts
  <2>3. t \in Seq(ToSet(t)) BY <2>2, Listed
  <2>4. DOMAIN t = 1..Len(t) BY <2>2
  <2>q. QED BY <2>1, <2>2, <2>3, <2>4 DEF Distinct
<1>2. Reverse(c) \in Seq(X)
  <2>1. Len(c) \in Nat /\ \A i \in 1..Len(c) : Len(c) - i + 1 \in 1..Len(c) OBVIOUS
  <2>2. \A i \in 1..Len(c) : c[Len(c) - i + 1] \in X BY <2>1
  <2>q. QED BY <2>1, <2>2 DEF Reverse
<1>q. QED BY <1>1, <1>2 DEF ForwardNames, BackwardNames

\* The rest of such a list.
LEMMA RestFacts ==
  ASSUME NEW t, Distinct(t), t # <<>>, NEW r, r = Tail(t)
  PROVE  /\ Distinct(r) /\ Len(t) \in Nat /\ Len(r) = Len(t) - 1 /\ Head(t) = t[1] /\ 1 \in 1..Len(t)
         /\ \A n \in 1..Len(r) : r[n] = t[n + 1] /\ n + 1 \in 1..Len(t)
         /\ \A n \in 1..Len(r) : r[n] # Head(t)
         /\ \A n \in 1..Len(t) : n = 1 \/ (n - 1 \in 1..Len(r) /\ r[n - 1] = t[n])
<1>1. PICK X : X = ToSet(t) OBVIOUS
<1>2. t \in Seq(X) /\ \A n, m \in 1..Len(t) : t[n] = t[m] => n = m BY <1>1 DEF Distinct
<1>3. /\ r \in Seq(X) /\ Len(t) \in Nat /\ Len(r) = Len(t) - 1 /\ Head(t) = t[1] /\ 1 \in 1..Len(t)
      /\ \A n \in 1..Len(r) : r[n] = t[n + 1]
  BY <1>2
<1>4. \A n \in 1..Len(r) : n + 1 \in 1..Len(t) /\ n + 1 # 1 BY <1>3
<1>5. \A n, m \in 1..Len(r) : r[n] = r[m] => n = m
  <2> SUFFICES ASSUME NEW n \in 1..Len(r), NEW m \in 1..Len(r), r[n] = r[m] PROVE n = m OBVIOUS
  <2>1. n + 1 = m + 1 BY <1>2, <1>3, <1>4
  <2>q. QED BY <2>1
<1>6. r \in Seq(ToSet(r)) BY <1>3, Listed
<1>7. Distinct(r) BY <1>5, <1>6 DEF Distinct
<1>8. \A n \in 1..Len(r) : r[n] # Head(t) BY <1>2, <1>3, <1>4
<1>9. \A n \in 1..Len(t) : n = 1 \/ (n - 1 \in 1..Len(r) /\ r[n - 1] = t[n])
  <2> SUFFICES ASSUME NEW n \in 1..Len(t), n # 1 PROVE n - 1 \in 1..Len(r) /\ r[n - 1] = t[n] OBVIOUS
  <2>1. n - 1 \in 1..Len(r) /\ (n - 1) + 1 = n BY <1>3
  <2>q. QED BY <1>3, <2>1
<1>q. QED BY <1>3, <1>4, <1>7, <1>8, <1>9


\* No plugin runs twice in a phase.
LEMMA OnceStep == PathInv /\ [Next]_vars => OnceInv'
<1> SUFFICES ASSUME PathInv, [Next]_vars PROVE OnceInv' OBVIOUS
<1>1. OnceInv /\ ChainInv /\ RecInv BY DEF PathInv
<1>2. attempt \in Nat BY <1>1 DEF RecInv
<1>3. pc \in Chained => chain \in Seq(ToSet(snap.plugins))
  BY <1>1 DEF ChainInv, ChainOk
<1>4. CASE SkipRoute \/ TakeRoute \/ NotFound \/ TryPolicy \/ NoPolicyLeft
  <2>1. /\ pc \in {"route", "policy"} /\ pc' \in {"route", "policy", "chain", "done"}
        /\ ran' = ran /\ attempt' = attempt
    BY <1>4 DEF SkipRoute, TakeRoute, NotFound, TryPolicy, NoPolicyLeft, plugins
  <2>2. ran' = <<>> BY <1>1, <2>1 DEF ChainInv
  <2>3. Len(ran') = 0 BY <2>2
  <2>q. QED BY <2>1, <2>3 DEF OnceInv, Phases
<1>5. CASE BuildChain
  <2>1. pc = "chain" /\ ran' = ran /\ pc' \in {"request", "done"} BY <1>5 DEF BuildChain
  <2>2. ran' = <<>> BY <1>1, <2>1 DEF ChainInv
  <2>3. Len(ran') = 0 BY <2>2
  <2>4. pc' = "request" => todo' = ForwardNames(chain') /\ ChainInv'
    BY <1>5, ChainStep DEF BuildChain
  <2>5. pc' = "request" => chain' \in Seq(ToSet(snap'.plugins)) BY <2>4 DEF ChainInv, Chained, ChainOk
  <2>6. pc' = "request" => Distinct(todo')
    <3>1. PICK c, X, t : c = chain' /\ X = ToSet(snap'.plugins) /\ t = todo' OBVIOUS
    <3>2. pc' = "request" => c \in Seq(X) /\ t = ForwardNames(c) BY <2>4, <2>5, <3>1
    <3>3. pc' = "request" => Distinct(t) BY <3>2, NamesDistinct
    <3>q. QED BY <3>1, <3>3
  <2>q. QED BY <2>1, <2>3, <2>6 DEF OnceInv, Phases, Distinct
<1>6. CASE RunOnRequest \/ RunOnErrorRefused \/ RunOnResponse \/ RunOnError
  <2>1. attempt' = attempt /\ pc \in Phases /\ todo # <<>> BY <1>6, Runs
  <2>2. Distinct(todo) /\ \A k \in 1..Len(ran), n \in 1..Len(todo) : To(k) # <<PhaseOf(pc), attempt, todo[n]>>
    BY <1>1, <2>1 DEF OnceInv, Distinct
  <2>3. PICK r : r = Tail(todo) OBVIOUS
  <2>4. /\ Distinct(r) /\ Head(todo) = todo[1] /\ 1 \in 1..Len(todo)
        /\ \A n \in 1..Len(r) : r[n] = todo[n + 1] /\ n + 1 \in 1..Len(todo)
        /\ \A n \in 1..Len(r) : r[n] # Head(todo)
    <3>1. PICK t : t = todo OBVIOUS
    <3>2. Distinct(t) /\ t # <<>> /\ r = Tail(t) BY <2>1, <2>2, <2>3, <3>1
    <3>3. Distinct(r) BY <3>2, RestFacts, Zenon
    <3>4. Head(t) = t[1] /\ 1 \in 1..Len(t) BY <3>2, RestFacts
    <3>5. \A n \in 1..Len(r) : r[n] = t[n + 1] /\ n + 1 \in 1..Len(t) BY <3>2, RestFacts
    <3>6. \A n \in 1..Len(r) : r[n] # Head(t) BY <3>2, RestFacts
    <3>q. QED BY <3>1, <3>3, <3>4, <3>5, <3>6
  <2>5. CASE NoneRan
    <3>1. pc' = pc /\ todo' = r /\ ran' = ran BY <2>3, <2>5 DEF NoneRan
    <3>2. \A k : To(k)' = To(k) BY <3>1 DEF To
    <3>3. \A k \in 1..Len(ran), n \in 1..Len(r) : To(k) # <<PhaseOf(pc), attempt, r[n]>> BY <2>2, <2>4
    <3>q. QED BY <1>1, <2>1, <2>4, <3>1, <3>2, <3>3 DEF OnceInv, Distinct, PhaseOf
  <2>6. CASE ~NoneRan
    <3>1. PICK e : e = Entry(Head(todo)) /\ e # Nil /\ OneRan(e) BY <1>6, <2>6, Runs
    <3>2. e.name = Head(todo) BY <2>1, <3>1, EntryNamed
    <3>3. ran' = Append(ran, Step(e)) /\ ran \in Seq(ToSet(ran)) BY <1>1, <3>1 DEF OneRan, ChainInv
    <3>4. PICK last : last = Len(ran) + 1 OBVIOUS
    <3>5. /\ Len(ran) \in Nat /\ Len(ran') = last
          /\ \A k \in 1..Len(ran) : ran'[k] = ran[k]
          /\ ran'[last] = Step(e)
          /\ \A k \in 1..Len(ran') : k \in 1..Len(ran) \/ k = last
      BY <3>3, <3>4, RanGrows
    <3>6. /\ Step(e).phase = PhaseOf(pc) /\ Step(e).attempt = attempt /\ Step(e).entry = e
      BY DEF Step
    <3>7. \A k \in 1..Len(ran) : ran'[k] = ran[k] /\ To(k)' = To(k) BY <3>5 DEF To
    <3>8. \A k : k = last => To(k)' = <<PhaseOf(pc), attempt, Head(todo)>> BY <3>2, <3>5, <3>6 DEF To
    <3>9. \A k \in 1..Len(ran') : ran'[k].attempt \in 0..attempt'
      BY <1>1, <1>2, <2>1, <3>5, <3>6 DEF OnceInv
    <3>10. \A k, l \in 1..Len(ran') : k < l => To(k)' # To(l)'
      <4> SUFFICES ASSUME NEW k \in 1..Len(ran'), NEW l \in 1..Len(ran'), k < l PROVE To(k)' # To(l)'
        OBVIOUS
      <4>1. k \in 1..Len(ran) BY <3>4, <3>5
      <4>2. CASE l \in 1..Len(ran) BY <1>1, <3>7, <4>1, <4>2 DEF OnceInv
      <4>3. CASE l = last BY <2>2, <2>4, <3>7, <3>8, <4>1, <4>3
      <4>q. QED BY <3>5, <4>2, <4>3
    <3>11. pc' = "request" => \A k \in 1..Len(ran') : ran'[k].phase = "OnRequest"
      <4>1. pc' = "request" => pc = "request" BY <3>1 DEF OneRan
      <4>q. QED BY <1>1, <3>5, <3>6, <4>1 DEF OnceInv, PhaseOf
    <3>12. pc' = "response" => \A k \in 1..Len(ran') : ran'[k].attempt = attempt' => ran'[k].phase # "OnError"
      <4>1. pc' = "response" => pc = "response" BY <3>1 DEF OneRan
      <4>q. QED BY <1>1, <2>1, <3>5, <3>6, <4>1 DEF OnceInv, PhaseOf
    <3>13. ASSUME pc' \in Phases
           PROVE  /\ Distinct(todo')
                  /\ \A k \in 1..Len(ran'), n \in 1..Len(todo') : To(k)' # <<PhaseOf(pc'), attempt', todo'[n]>>
      <4>1. CASE todo' = <<>>
        <5>1. Len(todo') = 0 /\ todo' \in Seq(ToSet(todo')) BY <4>1
        <5>q. QED BY <5>1 DEF Distinct
      <4>2. CASE pc' = pc /\ todo' = Tail(todo)
        <5>1. todo' = r BY <2>3, <4>2
        <5>2. ASSUME NEW k \in 1..Len(ran'), NEW n \in 1..Len(r)
              PROVE  To(k)' # <<PhaseOf(pc), attempt, r[n]>>
          <6>1. CASE k \in 1..Len(ran) BY <2>2, <2>4, <3>7, <6>1
          <6>2. CASE k = last BY <2>4, <3>8, <6>2
          <6>q. QED BY <3>5, <6>1, <6>2
        <5>q. QED BY <2>1, <2>4, <4>2, <5>1, <5>2
      <4>3. CASE /\ (pc = "request" /\ pc' = "refuse") \/ (pc = "response" /\ pc' = "error")
                 /\ todo' = BackwardNames(chain)
        <5>1. Distinct(BackwardNames(chain))
          <6>1. PICK c, X : c = chain /\ X = ToSet(snap.plugins) OBVIOUS
          <6>2. c \in Seq(X) BY <1>3, <2>1, <6>1 DEF Phases, Chained
          <6>3. Distinct(BackwardNames(c)) BY <6>2, NamesDistinct
          <6>q. QED BY <6>1, <6>3
        <5>2. PhaseOf(pc') = "OnError" /\ PhaseOf(pc) # "OnError" BY <4>3 DEF PhaseOf
        <5>3. \A k \in 1..Len(ran') : ran'[k].attempt = attempt => ran'[k].phase # "OnError"
          BY <1>1, <3>5, <3>6, <4>3, <5>2 DEF OnceInv
        <5>4. \A k, x : To(k)' = <<PhaseOf(pc'), attempt, x>> =>
                ran'[k].attempt = attempt /\ ran'[k].phase = "OnError"
          BY <5>2 DEF To
        <5>q. QED BY <2>1, <4>3, <5>1, <5>3, <5>4
      <4>q. QED BY <3>1, <3>13, <4>1, <4>2, <4>3 DEF OneRan, Phases
    <3>14. pc' # "wait" BY <2>1, <3>1 DEF OneRan, Phases
    <3>q. QED BY <3>9, <3>10, <3>11, <3>12, <3>13, <3>14 DEF OnceInv, Distinct
  <2>q. QED BY <2>5, <2>6
<1>7. CASE EndOnRequest \/ ShortCircuited \/ Refuse \/ NoTarget
  <2>1. ran' = ran /\ attempt' = attempt /\ pc' \notin Phases \cup {"wait"}
    BY <1>7 DEF EndOnRequest, ShortCircuited, Refuse, NoTarget, plugins, Phases
  <2>2. \A k : To(k)' = To(k) BY <2>1 DEF To
  <2>q. QED BY <1>1, <2>1, <2>2 DEF OnceInv, Phases
<1>8. CASE modifyResponse \/ BodyEnds \/ errorHandler \/ Retry \/ Answer
  <2>1. ran' = ran /\ attempt' = attempt /\ pc' \notin Phases \cup {"wait"}
    BY <1>8 DEF modifyResponse, BodyEnds, errorHandler, Retry, Answer, plugins, Phases
  <2>2. \A k : To(k)' = To(k) BY <2>1 DEF To
  <2>q. QED BY <1>1, <2>1, <2>2 DEF OnceInv, Phases
<1>9. CASE Send
  <2>1. ran' = ran /\ attempt' = attempt + 1 /\ pc' = "wait" BY <1>9 DEF Send, plugins
  <2>2. \A k : To(k)' = To(k) BY <2>1 DEF To
  <2>3. \A k \in 1..Len(ran) : ran[k].attempt \in 0..attempt' /\ ran[k].attempt # attempt'
    BY <1>1, <1>2, <2>1 DEF OnceInv
  <2>q. QED BY <1>1, <2>1, <2>2, <2>3 DEF OnceInv, Phases
<1>11. CASE UpstreamAnswers
  <2>1. /\ pc = "wait" /\ ran' = ran /\ attempt' = attempt /\ pc' \in {"response", "error"}
        /\ todo' = BackwardNames(chain)
    BY <1>11 DEF UpstreamAnswers
  <2>2. \A k : To(k)' = To(k) BY <2>1 DEF To
  <2>3. Distinct(BackwardNames(chain))
    <3>1. PICK c, X : c = chain /\ X = ToSet(snap.plugins) OBVIOUS
    <3>2. c \in Seq(X) BY <1>3, <2>1, <3>1 DEF Chained
    <3>3. Distinct(BackwardNames(c)) BY <3>2, NamesDistinct
    <3>q. QED BY <3>1, <3>3
  <2>4. \A k \in 1..Len(ran) : ran[k].attempt # attempt BY <1>1, <2>1 DEF OnceInv
  <2>5. \A x : \A k \in 1..Len(ran) : To(k) # <<PhaseOf(pc'), attempt, x>> BY <2>4 DEF To
  <2>q. QED BY <1>1, <2>1, <2>2, <2>3, <2>4, <2>5 DEF OnceInv, Distinct
<1>10. CASE Done \/ UNCHANGED vars
  <2>1. UNCHANGED <<ran, attempt, pc, todo>> BY <1>10 DEF Done, vars, plugins
  <2>2. \A k : To(k)' = To(k) BY <2>1 DEF To
  <2>q. QED BY <1>1, <2>1, <2>2 DEF OnceInv, PhaseOf
<1>q. QED BY <1>4, <1>5, <1>6, <1>7, <1>8, <1>9, <1>10, <1>11 DEF Next, ServeHTTP

\* What is in force for no one in particular is in force for everyone, and is in
\* the chain.
LEMMA ForAll ==
  ASSUME ChainOk, NEW p \in InForce(Nil)
  PROVE  p \in ToSet(chain) /\ \A by : isPluginMatch(p, effective, Here.id, by)
<1>1. p \in ToSet(chain) /\ isPluginMatch(p, effective, Here.id, Nil) BY DEF ChainOk
<1>2. \A by : isPluginMatch(p, effective, Here.id, by) BY <1>1 DEF isPluginMatch
<1>q. QED BY <1>1, <1>2

\* A plugin in force sees the request before it is sent.
LEMMA SeenStep == PathInv /\ [Next]_vars => SeenInv'
<1> SUFFICES ASSUME PathInv, [Next]_vars PROVE SeenInv' OBVIOUS
<1>1. SeenInv /\ ChainInv /\ RecInv /\ OnceInv BY DEF PathInv
<1>2. attempt \in Nat BY <1>1 DEF RecInv
<1>3. CASE SkipRoute \/ TakeRoute \/ NotFound \/ TryPolicy \/ NoPolicyLeft
  <2>1. /\ pc \in {"route", "policy"} /\ pc' \in {"route", "policy", "chain", "done"}
        /\ refusal' = refusal /\ attempt' = attempt
    BY <1>3 DEF SkipRoute, TakeRoute, NotFound, TryPolicy, NoPolicyLeft, plugins
  <2>2. attempt = 0 /\ refusal = Nil BY <1>1, <2>1 DEF RecInv, SeenInv
  <2>q. QED BY <2>1, <2>2 DEF SeenInv
<1>4. CASE BuildChain
  <2>1. /\ pc = "chain" /\ pc' \in {"request", "done"} /\ refusal' = refusal /\ attempt' = attempt
        /\ UNCHANGED <<snap, req, routing>>
    BY <1>4 DEF BuildChain
  <2>2. attempt = 0 /\ refusal = Nil BY <1>1, <2>1 DEF RecInv, SeenInv
  <2>3. pc' = "request" => todo' = ForwardNames(chain') /\ ChainOk'
    BY <1>4, ChainStep DEF BuildChain, ChainInv, Chained
  <2>4. pc' = "request" => \A p \in InForce(Nil)' : \E n \in 1..Len(todo') : todo'[n] = p.name
    <3> SUFFICES ASSUME pc' = "request" PROVE \A p \in InForce(Nil)' : \E n \in 1..Len(todo') : todo'[n] = p.name
      OBVIOUS
    <3>1. PICK c, X, t : c = chain' /\ X = ToSet(snap'.plugins) /\ t = todo' OBVIOUS
    <3>2. c \in Seq(X) /\ t = NamesOf(c) BY <2>3, <3>1 DEF ChainOk, ForwardNames
    <3>3. t \in Seq({p.name : p \in X}) /\ \A k \in DOMAIN c : \E n \in DOMAIN t : t[n] = c[k].name
      BY <3>2, NamesFacts
    <3>4. PICK Y : t \in Seq(Y) BY <3>3
    <3>5. DOMAIN t = 1..Len(t) BY <3>4
    <3>6. \A p \in ToSet(c) : \E n \in 1..Len(t) : t[n] = p.name BY <3>3, <3>5 DEF ToSet
    <3>7. \A p \in InForce(Nil)' : p \in ToSet(c) BY <2>3, <3>1 DEF ChainOk
    <3>q. QED BY <3>1, <3>6, <3>7
  <2>q. QED BY <2>1, <2>2, <2>4 DEF SeenInv
<1>5. CASE RunOnRequest \/ RunOnErrorRefused \/ RunOnResponse \/ RunOnError
  <2>1. /\ attempt' = attempt /\ pc \in Phases /\ todo # <<>> /\ UNCHANGED <<snap, req, routing, chain>>
        /\ pc # "request" => UNCHANGED refusal
    BY <1>5, Runs
  <2>2. \A by : InForce(by)' = InForce(by) BY <2>1, Fixed DEF routing
  <2>3. Distinct(todo) BY <1>1, <2>1 DEF OnceInv, Distinct
  <2>4. ChainOk BY <1>1, <2>1 DEF ChainInv, Chained, Phases
  <2>5. PICK r : r = Tail(todo) OBVIOUS
  <2>6. Head(todo) = todo[1] /\ \A n \in 1..Len(todo) : n = 1 \/ (n - 1 \in 1..Len(r) /\ r[n - 1] = todo[n])
    <3>1. PICK t : t = todo OBVIOUS
    <3>2. Distinct(t) /\ t # <<>> /\ r = Tail(t) BY <2>1, <2>3, <2>5, <3>1
    <3>3. Head(t) = t[1] BY <3>2, RestFacts
    <3>4. \A n \in 1..Len(t) : n = 1 \/ (n - 1 \in 1..Len(r) /\ r[n - 1] = t[n]) BY <3>2, RestFacts
    <3>q. QED BY <3>1, <3>3, <3>4
  <2>7. CASE NoneRan
    <3>1. pc' = pc /\ todo' = r /\ ran' = ran /\ refusal' = refusal BY <2>5, <2>7 DEF NoneRan
    <3>2. \A name : Seen(name)' <=> Seen(name) BY <3>1 DEF Seen
    <3>3. \A p \in InForce(Nil) : p.name # Head(todo)
      <4>1. PICK c, X : c = chain /\ X = ToSet(snap.plugins) OBVIOUS
      <4>2. c \in Seq(X) /\ Nil \notin X BY <2>4, <4>1 DEF ChainOk, PathInv, Wellformed
      <4>3. PICK name, service, route, by : name = Head(todo) /\ service = effective /\ route = Here.id /\ by = consumer
        OBVIOUS
      <4>4. Nil = EntryFor(c, name, service, route, by) BY <2>7, <4>1, <4>3 DEF NoneRan, Entry
      <4>5. \A p \in ToSet(c) : p.name = name => ~isPluginMatch(p, service, route, by)
        BY <4>2, <4>4, EntryFacts
      <4>q. QED BY <2>4, <4>1, <4>3, <4>5, ForAll
    <3>4. pc = "request" => \A p \in InForce(Nil) :
            Seen(p.name) \/ \E n \in 1..Len(r) : r[n] = p.name
      BY <1>1, <2>6, <3>3 DEF SeenInv
    <3>q. QED BY <1>1, <2>1, <2>2, <3>1, <3>2, <3>4 DEF SeenInv
  <2>8. CASE ~NoneRan
    <3>1. PICK e : e = Entry(Head(todo)) /\ e # Nil /\ OneRan(e) BY <1>5, <2>8, Runs
    <3>2. e.name = Head(todo) BY <2>1, <3>1, EntryNamed
    <3>3. ran' = Append(ran, Step(e)) /\ ran \in Seq(ToSet(ran)) BY <1>1, <3>1 DEF OneRan, ChainInv
    <3>4. PICK last : last = Len(ran) + 1 OBVIOUS
    <3>5. /\ Len(ran) \in Nat /\ Len(ran') = last
          /\ \A k \in 1..Len(ran) : ran'[k] = ran[k] /\ k \in 1..Len(ran')
          /\ ran'[last] = Step(e)
      BY <3>3, <3>4, RanGrows
    <3>6. last \in 1..Len(ran') BY <3>4, <3>5
    <3>7. \A name : Seen(name) => Seen(name)' BY <3>5 DEF Seen
    <3>8. pc = "request" => Seen(e.name)' BY <3>5, <3>6 DEF Seen, Step, PhaseOf
    <3>9. CASE pc' = "request"
      <4>1. pc = "request" /\ todo' = r BY <2>5, <3>1, <3>9 DEF OneRan
      <4>2. refusal' = Nil BY <3>1, <3>9, <4>1, OutFacts DEF OneRan
      <4>3. attempt = 0 BY <1>1, <4>1 DEF RecInv
      <4>4. \A p \in InForce(Nil) : Seen(p.name)' \/ \E n \in 1..Len(r) : r[n] = p.name
        BY <1>1, <2>6, <3>2, <3>7, <3>8, <4>1 DEF SeenInv
      <4>q. QED BY <2>1, <2>2, <3>9, <4>1, <4>2, <4>3, <4>4 DEF SeenInv
    <3>10. CASE pc' # "request"
      <4>1. pc' \in {"refuse", "short", "response", "error"} BY <2>1, <3>1, <3>10 DEF OneRan, Phases
      <4>2. pc = "request" => attempt = 0 BY <1>1 DEF RecInv
      <4>3. attempt > 0 => refusal' = Nil BY <1>1, <1>2, <2>1, <4>2 DEF SeenInv
      <4>q. QED BY <1>1, <2>1, <2>2, <3>7, <4>1, <4>3 DEF SeenInv
    <3>q. QED BY <3>9, <3>10
  <2>q. QED BY <2>7, <2>8
<1>6. CASE EndOnRequest
  <2>1. /\ pc = "request" /\ pc' = "send" /\ todo = <<>> /\ UNCHANGED <<snap, req, routing, plugins, attempt>>
    BY <1>6 DEF EndOnRequest
  <2>2. Len(todo) = 0 BY <2>1
  <2>3. \A p \in InForce(Nil) : Seen(p.name) BY <1>1, <2>1, <2>2 DEF SeenInv
  <2>4. \A by : InForce(by)' = InForce(by) BY <2>1, Fixed DEF routing
  <2>5. \A name : Seen(name)' <=> Seen(name) BY <2>1 DEF Seen, plugins
  <2>6. refusal' = Nil BY <1>1, <2>1 DEF SeenInv, plugins
  <2>q. QED BY <2>1, <2>3, <2>4, <2>5, <2>6 DEF SeenInv
<1>7. CASE \/ ShortCircuited \/ Refuse \/ NoTarget \/ Send \/ UpstreamAnswers \/ modifyResponse
          \/ BodyEnds \/ errorHandler \/ Retry \/ Answer
  <2>1. /\ UNCHANGED <<snap, req, routing, ran, refusal>> /\ attempt' \in Nat
        /\ pc' \in {"done", "aborted", "wait", "copy", "response", "error", "answered", "send"}
        /\ attempt' > 0 \/ pc' = "send" => pc = "send" \/ attempt > 0
    BY <1>1, <1>2, <1>7 DEF ShortCircuited, Refuse, NoTarget, Send, UpstreamAnswers, modifyResponse, BodyEnds,
                            errorHandler, Retry, Answer, plugins, RecInv
  <2>2. \A by : InForce(by)' = InForce(by) BY <2>1, Fixed DEF routing
  <2>3. \A name : Seen(name)' <=> Seen(name) BY <2>1 DEF Seen
  <2>q. QED BY <1>1, <2>1, <2>2, <2>3 DEF SeenInv
<1>8. CASE Done \/ UNCHANGED vars
  <2>1. UNCHANGED vars BY <1>8 DEF Done
  <2>2. \A by : InForce(by)' = InForce(by) BY <2>1, Fixed DEF routing, vars
  <2>3. \A name : Seen(name)' <=> Seen(name) BY <2>1 DEF Seen, plugins, vars
  <2>q. QED BY <1>1, <2>1, <2>2, <2>3 DEF SeenInv, vars, plugins
<1>q. QED BY <1>3, <1>4, <1>5, <1>6, <1>7, <1>8 DEF Next, ServeHTTP

\* A credential that is found is one of the table; there is one of a key at most.
LEMMA CredentialFacts ==
  ASSUME NEW s, s.credentials \in Seq(ToSet(s.credentials)), NEW key
  PROVE  /\ GetCredentialByKey(s, key) \subseteq ToSet(s.credentials)
         /\ \A c, d \in GetCredentialByKey(s, key) : c = d
<1> DEFINE same == {k \in DOMAIN s.credentials : s.credentials[k].key = key}
           last == {k \in same : \A l \in same : l <= k}
<1>1. GetCredentialByKey(s, key) = {s.credentials[k] : k \in last} BY DEF GetCredentialByKey
<1>2. \A k \in last : k \in DOMAIN s.credentials /\ k \in Int OBVIOUS
<1>3. \A k, l \in last : k <= l /\ l <= k OBVIOUS
<1> HIDE DEF last
<1>4. \A k, l \in last : k = l BY <1>2, <1>3
<1>q. QED BY <1>1, <1>2, <1>4 DEF ToSet

\* The places the policies know are a list.
LEMMA KeyPlacesFacts == KeyPlaces \in Seq(ToSet(KeyPlaces))
<1>1. PICK a, b, c, d, e, f, g : KeyPlaces = <<a, b, c, d, e, f, g>> BY DEF KeyPlaces
<1>2. PICK s, Q : s = <<a, b, c, d, e, f, g>> /\ Q = {a, b, c, d, e, f, g} OBVIOUS
<1>3. s \in Seq(Q) BY <1>2
<1>4. s \in Seq(ToSet(s)) BY <1>3, Listed
<1>q. QED BY <1>1, <1>2, <1>4

\* A key that key-auth finds is in one of the places it is configured with.
LEMMA ExtractFacts ==
  ASSUME NEW entry, entry.names \in Seq(ToSet(entry.names)), NEW key, key = extractKey(entry, keys), key # Nil
  PROVE  \E place \in KeyAuthPlaces(entry) \cup {"Bearer "} : key = keys[place]
<1>1. PICK t : t = entry.names OBVIOUS
<1>2. t \in Seq(ToSet(t)) BY <1>1
<1>3. \A n \in DOMAIN t : /\ t[n].header \in KeyAuthPlaces(entry)
                          /\ t[n].prefixed \in KeyAuthPlaces(entry)
                          /\ t[n].query \in KeyAuthPlaces(entry)
  BY <1>1 DEF KeyAuthPlaces, ToSet
<1>4. \A S \in SUBSET DOMAIN t : S # {} => Min(S) \in DOMAIN t
  <2> SUFFICES ASSUME NEW S \in SUBSET DOMAIN t, S # {} PROVE Min(S) \in DOMAIN t OBVIOUS
  <2>1. S \in SUBSET Int /\ IsFiniteSet(S) BY <1>2, Places
  <2>q. QED BY <2>1, MinMax
<1>5. PICK headers, queries :
        /\ headers = {n \in DOMAIN t : entry.inHeader /\ InHeader(t[n], keys) # Nil}
        /\ queries = {n \in DOMAIN t : entry.inQuery /\ keys[t[n].query] # Nil}
  OBVIOUS
<1>6. headers \in SUBSET DOMAIN t /\ queries \in SUBSET DOMAIN t BY <1>5
<1>7. key = IF keys["Bearer "] # Nil THEN keys["Bearer "]
            ELSE IF headers # {} THEN InHeader(t[Min(headers)], keys)
            ELSE IF queries # {} THEN keys[t[Min(queries)].query]
            ELSE Nil
  BY <1>1, <1>5 DEF extractKey
<1>8. \A name : InHeader(name, keys) = keys[name.header] \/ InHeader(name, keys) = keys[name.prefixed]
  BY DEF InHeader
<1>9. headers # {} => Min(headers) \in DOMAIN t BY <1>4, <1>6
<1>10. queries # {} => Min(queries) \in DOMAIN t BY <1>4, <1>6
<1>q. QED BY <1>3, <1>7, <1>8, <1>9, <1>10

LEMMA FirstOfSeven ==
  ASSUME NEW s, NEW a, NEW b, NEW c, NEW d, NEW e, NEW f, NEW g, s = <<a, b, c, d, e, f, g>>
  PROVE  a \in ToSet(s)
<1>1. PICK t : t = <<a, b, c, d, e, f, g>> OBVIOUS
<1>2. t[1] = a /\ 1 \in DOMAIN t BY <1>1
<1>3. a \in ToSet(t) BY <1>2 DEF ToSet
<1>4. t = s BY <1>1
<1>q. QED BY <1>3, <1>4

\* Whom key-auth recognises has the credential of a key the request carries.
LEMMA KeyAuthFacts ==
  ASSUME Wellformed(snap, req), NEW entry \in ToSet(snap.plugins), NEW c \in KeyAuth(snap, entry, keys)
  PROVE  /\ c # Nil
         /\ \E place \in DOMAIN req.keys :
              keys[place] # Nil /\ \E d \in GetCredentialByKey(snap, keys[place]) : d.consumer = c
<1>1. PICK key : key = extractKey(entry, keys) OBVIOUS
<1>2. PICK d \in GetCredentialByKey(snap, key) : d.consumer = c /\ key # Nil BY <1>1 DEF KeyAuth, GetByKey
<1>3. d \in ToSet(snap.credentials) BY <1>2, CredentialFacts DEF Wellformed
<1>4. c # Nil BY <1>2, <1>3 DEF Wellformed
<1>5. entry.names \in Seq(ToSet(entry.names)) /\ KeyAuthPlaces(entry) \subseteq DOMAIN req.keys
  BY DEF Wellformed
<1>6. PICK place \in KeyAuthPlaces(entry) \cup {"Bearer "} : key = keys[place]
  BY <1>1, <1>2, <1>5, ExtractFacts
<1>7. "Bearer " \in DOMAIN req.keys
  <2>1. PICK b : b = "Bearer " OBVIOUS
  <2>2. PICK x2, x3, x4, x5, x6, x7 : KeyPlaces = <<b, x2, x3, x4, x5, x6, x7>> BY <2>1 DEF KeyPlaces
  <2>3. b \in ToSet(KeyPlaces) BY <2>2, FirstOfSeven
  <2>q. QED BY <2>1, <2>3 DEF Wellformed
<1>q. QED BY <1>2, <1>4, <1>5, <1>6, <1>7

\* Whom jwt-auth recognises has a credential.
LEMMA JWTAuthFacts ==
  ASSUME Wellformed(snap, req), NEW c \in JWTAuth(snap, keys)
  PROVE  c # Nil
<1>1. PICK key, d : d \in GetCredentialByKey(snap, key) /\ d.consumer = c BY DEF JWTAuth, GetByKey
<1>2. d \in ToSet(snap.credentials) BY <1>1, CredentialFacts DEF Wellformed
<1>q. QED BY <1>1, <1>2 DEF Wellformed

\* The step of a plugin, seen from the list of those that ran.
LEMMA Known ==
  ASSUME PathInv, [Next]_vars
  PROVE  \/ ran' = ran /\ consumer' = consumer /\ keys' = keys
         \/ \E e \in ToSet(snap.plugins) :
                   /\ ran' = Append(ran, Step(e)) /\ pc \in Phases /\ pc' \in Phases \cup {"short"}
                   /\ pc # "request" => consumer' = consumer /\ keys' = keys
                   /\ pc = "request" => \E out \in OnRequest(e) : consumer' = out.consumer /\ keys' = out.keys
<1>1. CASE RunOnRequest \/ RunOnErrorRefused \/ RunOnResponse \/ RunOnError
  <2>1. pc \in Phases /\ (pc # "request" => UNCHANGED <<consumer, keys, refusal>>) BY <1>1, Runs
  <2>2. CASE NoneRan BY <2>2 DEF NoneRan
  <2>3. CASE ~NoneRan
    <3>1. PICK e : e = Entry(Head(todo)) /\ e # Nil /\ OneRan(e) BY <1>1, <2>3, Runs
    <3>2. pc' \in Phases \cup {"short"} BY <2>1, <3>1 DEF OneRan, Phases
    <3>3. /\ ran' = Append(ran, Step(e))
          /\ pc = "request" => \E out \in OnRequest(e) : consumer' = out.consumer /\ keys' = out.keys
      BY <3>1 DEF OneRan
    <3>4. e \in ToSet(snap.plugins)
      <4>1. e \in ToSet(chain) BY <2>1, <3>1, EntryNamed
      <4>2. PICK c, X : c = chain /\ X = ToSet(snap.plugins) OBVIOUS
      <4>3. c \in Seq(X) BY <2>1, <4>2 DEF PathInv, ChainInv, ChainOk, Chained, Phases
      <4>q. QED BY <4>1, <4>2, <4>3 DEF ToSet
    <3>q. QED BY <2>1, <3>2, <3>3, <3>4
  <2>q. QED BY <2>2, <2>3
<1>2. CASE SkipRoute \/ TakeRoute \/ NotFound \/ TryPolicy \/ NoPolicyLeft \/ BuildChain
  BY <1>2 DEF SkipRoute, TakeRoute, NotFound, TryPolicy, NoPolicyLeft, BuildChain, plugins
<1>3. CASE EndOnRequest \/ ShortCircuited \/ Refuse \/ NoTarget \/ Send \/ UpstreamAnswers \/ BodyEnds
  BY <1>3 DEF EndOnRequest, ShortCircuited, Refuse, NoTarget, Send, UpstreamAnswers, BodyEnds, plugins
<1>4. CASE modifyResponse \/ errorHandler \/ Retry \/ Answer \/ Done \/ UNCHANGED vars
  BY <1>4 DEF modifyResponse, errorHandler, Retry, Answer, Done, vars, plugins
<1>q. QED BY <1>1, <1>2, <1>3, <1>4 DEF Next, ServeHTTP

\* Who is known stays known.
LEMMA KnownStep == PathInv /\ [Next]_vars => KnownInv'
<1> SUFFICES ASSUME PathInv, [Next]_vars PROVE KnownInv' OBVIOUS
<1>1. KnownInv /\ OnceInv /\ ChainInv /\ Wellformed(snap, req) BY DEF PathInv
<1>2. CASE ran' = ran /\ consumer' = consumer BY <1>1, <1>2 DEF KnownInv
<1>3. ASSUME NEW e \in ToSet(snap.plugins), ran' = Append(ran, Step(e)), pc \in Phases, pc # "request" => consumer' = consumer,
             pc = "request" => \E out \in OnRequest(e) : consumer' = out.consumer /\ keys' = out.keys
      PROVE  KnownInv'
  <2>1. ran \in Seq(ToSet(ran)) BY <1>1 DEF ChainInv
  <2>2. PICK last : last = Len(ran) + 1 OBVIOUS
  <2>3. /\ \A k \in 1..Len(ran) : ran'[k] = ran[k] /\ k \in 1..Len(ran')
        /\ ran'[last] = Step(e)
        /\ \A k \in 1..Len(ran') : k \in 1..Len(ran) \/ k = last
    BY <1>3, <2>1, <2>2, RanGrows
  <2>4. Step(e).phase = PhaseOf(pc) /\ Step(e).by = consumer BY DEF Step
  <2>5. consumer # Nil => consumer' # Nil
    <3>1. CASE pc = "request"
      <4>1. PICK out \in OnRequest(e) : consumer' = out.consumer BY <1>3, <3>1
      <4>2. out.consumer = consumer \/ out.consumer \in KeyAuth(snap, e, keys) \/ out.consumer \in JWTAuth(snap, keys)
        BY OutFacts
      <4>q. QED BY <1>1, <4>1, <4>2, KeyAuthFacts, JWTAuthFacts
    <3>q. QED BY <1>3, <3>1
  <2>6. CASE pc = "request"
    <3>1. \A k \in 1..Len(ran) : ran[k].phase = "OnRequest" BY <1>1, <2>6 DEF OnceInv
    <3>2. PhaseOf(pc) = "OnRequest" BY <2>6 DEF PhaseOf
    <3>q. QED BY <1>1, <2>3, <2>4, <2>5, <3>1, <3>2 DEF KnownInv
  <2>7. CASE pc # "request"
    <3>1. PhaseOf(pc) # "OnRequest" BY <2>7 DEF PhaseOf
    <3>q. QED BY <1>1, <1>3, <2>3, <2>4, <2>7, <3>1 DEF KnownInv
  <2>q. QED BY <2>6, <2>7
<1>q. QED BY <1>2, <1>3, Known

\* The snapshot and the request are what they were.
LEMMA Kept ==
  ASSUME [Next]_vars, PathInv
  PROVE  snap' = snap /\ req' = req
<1>1. CASE RunOnRequest \/ RunOnErrorRefused \/ RunOnResponse \/ RunOnError BY <1>1, Runs
<1>2. CASE SkipRoute \/ TakeRoute \/ NotFound \/ TryPolicy \/ NoPolicyLeft \/ BuildChain
  BY <1>2 DEF SkipRoute, TakeRoute, NotFound, TryPolicy, NoPolicyLeft, BuildChain
<1>3. CASE EndOnRequest \/ ShortCircuited \/ Refuse \/ NoTarget \/ Send \/ UpstreamAnswers \/ modifyResponse \/ BodyEnds
  BY <1>3 DEF EndOnRequest, ShortCircuited, Refuse, NoTarget, Send, UpstreamAnswers, modifyResponse, BodyEnds
<1>4. CASE errorHandler \/ Retry \/ Answer \/ Done \/ UNCHANGED vars
  BY <1>4 DEF errorHandler, Retry, Answer, Done, vars
<1>q. QED BY <1>1, <1>2, <1>3, <1>4 DEF Next, ServeHTTP

\* Keys are hidden, never changed.
LEMMA KeysStep == PathInv /\ [Next]_vars => KeysInv'
<1> SUFFICES ASSUME PathInv, [Next]_vars PROVE KeysInv' OBVIOUS
<1>1. KeysInv /\ ChainInv /\ Wellformed(snap, req) BY DEF PathInv
<1>2. snap' = snap /\ req' = req BY Kept
<1>3. CASE ran' = ran /\ consumer' = consumer /\ keys' = keys
  <2>1. pc' \in {"route", "policy", "chain"} => pc \in {"route", "policy", "chain"}
    <3>1. CASE RunOnRequest \/ RunOnErrorRefused \/ RunOnResponse \/ RunOnError
      <4>1. CASE NoneRan BY <3>1, <4>1, Runs DEF NoneRan, Phases
      <4>2. CASE ~NoneRan BY <3>1, <4>2, Runs DEF OneRan, Phases
      <4>q. QED BY <4>1, <4>2
    <3>2. CASE SkipRoute \/ TakeRoute \/ NotFound \/ TryPolicy \/ NoPolicyLeft \/ BuildChain
      BY <3>2 DEF SkipRoute, TakeRoute, NotFound, TryPolicy, NoPolicyLeft, BuildChain
    <3>3. CASE EndOnRequest \/ ShortCircuited \/ Refuse \/ NoTarget \/ Send \/ UpstreamAnswers \/ modifyResponse \/ BodyEnds
      BY <3>3 DEF EndOnRequest, ShortCircuited, Refuse, NoTarget, Send, UpstreamAnswers, modifyResponse, BodyEnds
    <3>4. CASE errorHandler \/ Retry \/ Answer \/ Done \/ UNCHANGED vars
      BY <3>4 DEF errorHandler, Retry, Answer, Done, vars
    <3>q. QED BY <3>1, <3>2, <3>3, <3>4 DEF Next, ServeHTTP
  <2>q. QED BY <1>1, <1>2, <1>3, <2>1 DEF KeysInv, Recognised
<1>4. ASSUME NEW e \in ToSet(snap.plugins), ran' = Append(ran, Step(e)), pc' \in Phases \cup {"short"},
             pc # "request" => consumer' = consumer /\ keys' = keys,
             pc = "request" => \E out \in OnRequest(e) : consumer' = out.consumer /\ keys' = out.keys
      PROVE  KeysInv'
  <2>1. ran \in Seq(ToSet(ran)) BY <1>1 DEF ChainInv
  <2>2. PICK last : last = Len(ran) + 1 OBVIOUS
  <2>3. /\ \A k \in 1..Len(ran) : ran'[k] = ran[k] /\ k \in 1..Len(ran')
        /\ ran'[last] = Step(e) /\ Len(ran') = last /\ Len(ran) \in Nat
    BY <1>4, <2>1, <2>2, RanGrows
  <2>4. last \in 1..Len(ran') /\ ran'[last].entry = e BY <2>2, <2>3 DEF Step
  <2>5. /\ keys' \in {keys, hideKeys(e, keys), hideToken(keys)}
        /\ \/ consumer' = consumer
           \/ e.name = "key-auth" /\ consumer' \in KeyAuth(snap, e, keys)
           \/ e.name = "jwt-auth" /\ consumer' \in JWTAuth(snap, keys)
    <3>1. CASE pc # "request" BY <1>4, <3>1
    <3>2. CASE pc = "request"
      <4>1. PICK out \in OnRequest(e) : consumer' = out.consumer /\ keys' = out.keys BY <1>4, <3>2
      <4>q. QED BY <4>1, OutFacts
    <3>q. QED BY <3>1, <3>2
  <2>6. /\ keys' = [place \in DOMAIN req.keys |-> keys'[place]]
        /\ \A place \in DOMAIN req.keys : keys'[place] \in {req.keys[place], Nil}
    BY <1>1, <2>5 DEF KeysInv, hideKeys, hideToken
  <2>7. \/ consumer' = Nil
        \/ \E k \in 1..Len(ran') : ran'[k].entry.name = "jwt-auth"
        \/ \E place \in DOMAIN req.keys :
             /\ req.keys[place] # Nil
             /\ \E c \in GetCredentialByKey(snap, req.keys[place]) : c.consumer = consumer'
    <3>1. CASE consumer' = consumer BY <1>1, <2>3, <3>1 DEF KeysInv, Recognised
    <3>2. CASE e.name = "jwt-auth" BY <2>4, <3>2
    <3>3. CASE consumer' \in KeyAuth(snap, e, keys)
      <4>1. PICK place \in DOMAIN req.keys :
               keys[place] # Nil /\ \E d \in GetCredentialByKey(snap, keys[place]) : d.consumer = consumer'
        BY <1>1, <3>3, KeyAuthFacts
      <4>2. keys[place] = req.keys[place] BY <1>1, <4>1 DEF KeysInv
      <4>q. QED BY <4>1, <4>2
    <3>q. QED BY <2>5, <3>1, <3>2, <3>3
  <2>8. pc' \notin {"route", "policy", "chain"} BY <1>4 DEF Phases
  <2>9. keys' = [place \in DOMAIN req'.keys |-> keys'[place]] BY <1>2, <2>6
  <2>10. \A place \in DOMAIN req'.keys : keys'[place] \in {req'.keys[place], Nil} BY <1>2, <2>6
  <2>11. Recognised' BY <1>2, <2>7 DEF Recognised
  <2>q. QED BY <2>8, <2>9, <2>10, <2>11 DEF KeysInv
<1>q. QED BY <1>3, <1>4, Known

LEMMA PathStep == PathInv /\ [Next]_vars => PathInv'
<1> SUFFICES ASSUME PathInv, [Next]_vars PROVE PathInv' OBVIOUS
<1>1. snap' = snap /\ req' = req BY Kept
<1>2. Wellformed(snap, req)' BY <1>1, Fixed DEF PathInv
<1>q. QED BY <1>2, RecStep, StatusStep, RouteStep, ChainStep, OnceStep, SeenStep, KnownStep, KeysStep DEF PathInv

LEMMA PathInit == Init => PathInv
<1> SUFFICES ASSUME Init PROVE PathInv OBVIOUS
<1>1. Wellformed(snap, req)
  <2>1. PICK sc \in Scenarios : snap = sc[1] /\ req = sc[2] BY DEF Init
  <2>2. Wellformed(sc[1], sc[2]) BY ScenariosAssumption
  <2>q. QED BY <2>1, <2>2
<1>2. ran = <<>> /\ drawn = <<>> /\ ran \in Seq(ToSet(ran)) /\ Len(ran) = 0 BY DEF Init
<1>3. RecInv /\ StatusInv BY DEF Init, RecInv, StatusInv, RecordedPerAttempt
<1>4. RouteInv
  <2>1. PICK M : M = routeMatchers(snap) OBVIOUS
  <2>2. M \in Seq(ToSet(snap.routes)) BY <1>1, <2>1, MatchersFacts DEF Wellformed
  <2>3. Len(M) \in Nat /\ routeAt = 1 BY <2>2 DEF Init
  <2>4. routeAt \in 1..(Len(M) + 1) /\ \A k \in 1..(routeAt - 1) : FALSE BY <2>3
  <2>q. QED BY <2>1, <2>4 DEF Init, RouteInv, Missing
<1>5. ChainInv /\ OnceInv /\ SeenInv /\ KnownInv
  BY <1>2 DEF Init, ChainInv, Chained, OnceInv, SeenInv, KnownInv, Phases
<1>6. KeysInv BY <1>1 DEF Init, KeysInv, Recognised, Wellformed
<1>q. QED BY <1>1, <1>3, <1>4, <1>5, <1>6 DEF PathInv

-----------------------------------------------------------------------------
(* The theorems. *)

\* Everything that is known of a request on its way, for any snapshot and any
\* request: how far MatchRoute, the chain and the retries of serveWithRetry are,
\* and what has been decided and done before (proxy.go, snapshot.go, chain.go).
THEOREM PathInvariant == Spec => []PathInv
BY PathInit, PathStep, PTL DEF Spec

\* recordRequest runs once for each attempt, or once when there is none, however
\* plugins fail and attempts are repeated (proxy.go).
THEOREM RecordedHolds == Spec => []RecordedPerAttempt
<1>1. PathInv => RecordedPerAttempt BY DEF PathInv, RecInv
<1>q. QED BY <1>1, PathInvariant, PTL

\* The first route that serves and the first of its policies that applies decide,
\* for route lists and policies of any length (snapshot.go, MatchRoute).
THEOREM RoutedHolds == Spec => []RoutedRight
<1>1. ASSUME PathInv PROVE RoutedRight
  <2>1. RouteInv /\ Wellformed(snap, req) BY <1>1 DEF PathInv
  <2>2. PICK M : M = routeMatchers(snap) OBVIOUS
  <2>3. /\ M \in Seq(ToSet(snap.routes))
        /\ \A n \in 1..Len(M) : M[n].enabled /\ \E k \in DOMAIN snap.routes :
             /\ M[n] = snap.routes[k]
             /\ \A l \in 1..(k - 1) : snap.routes[l].enabled => \E m \in 1..(n - 1) : M[m] = snap.routes[l]
        /\ \A k \in DOMAIN snap.routes : snap.routes[k].enabled => \E n \in 1..Len(M) : M[n] = snap.routes[k]
    <3>1. PICK s : s = snap OBVIOUS
    <3>2. s.routes \in Seq(ToSet(s.routes)) /\ M = routeMatchers(s) BY <2>1, <2>2, <3>1 DEF Wellformed
    <3>3. M \in Seq(ToSet(s.routes)) BY <3>2, MatchersFacts
    <3>4. InOrder(M, s.routes) BY <3>2, MatchersFacts, Zenon
    <3>5. \A k \in DOMAIN s.routes : s.routes[k].enabled => \E n \in 1..Len(M) : M[n] = s.routes[k]
      BY <3>2, MatchersFacts
    <3>q. QED BY <3>1, <3>3, <3>4, <3>5 DEF InOrder
  <2>4. Len(M) \in Nat BY <2>3
  <2>5. /\ routeAt \in 1..(Len(M) + 1)
        /\ \A k \in 1..(routeAt - 1) : ~Serves(M[k])
        /\ Missing => routeAt = Len(M) + 1
        /\ pc # "route" /\ ~Missing => routeAt <= Len(M) /\ Serves(Here)
    BY <2>1, <2>2 DEF RouteInv
  <2>6. Missing => \A route \in ToSet(snap.routes) : ~Serves(route)
    <3> SUFFICES ASSUME Missing, NEW k \in DOMAIN snap.routes PROVE ~Serves(snap.routes[k]) BY DEF ToSet
    <3>1. snap.routes[k].enabled => \E n \in 1..Len(M) : M[n] = snap.routes[k] BY <2>3
    <3>2. \A n \in 1..Len(M) : ~Serves(M[n]) BY <2>4, <2>5
    <3>3. Serves(snap.routes[k]) => snap.routes[k].enabled BY DEF Serves
    <3>q. QED BY <3>1, <3>2, <3>3
  <2>7. ASSUME Routed
        PROVE  /\ \E k \in DOMAIN snap.routes :
                    /\ Here = snap.routes[k] /\ Serves(Here)
                    /\ \A l \in 1..(k - 1) : ~Serves(snap.routes[l])
               /\ IF hit = Nil
                    THEN effective = Original /\ \A p \in Mine : LookedAt(p) /\ ~Applied(p)
                    ELSE /\ hit \in Mine /\ Applied(hit) /\ effective = TargetOf(hit)
                         /\ \A p \in Mine : p.priority < hit.priority => LookedAt(p) /\ ~Applied(p)
    <3>1. pc # "route" /\ pc # "policy" /\ ~Missing BY <2>7 DEF Routed, Missing
    <3>2. routeAt \in 1..Len(M) /\ Serves(Here) /\ Here = M[routeAt]
      BY <2>2, <2>4, <2>5, <3>1 DEF Here
    <3>3. PICK k \in DOMAIN snap.routes :
               /\ Here = snap.routes[k]
               /\ \A l \in 1..(k - 1) : snap.routes[l].enabled => \E m \in 1..(routeAt - 1) : M[m] = snap.routes[l]
      BY <2>3, <3>2
    <3>4. \A l \in 1..(k - 1) : ~Serves(snap.routes[l]) BY <2>5, <3>3 DEF Serves
    <3>5. /\ Len(Policies) \in Nat /\ DOMAIN Policies = 1..Len(Policies)
          /\ \A n \in 1..Len(Policies) : Policies[n] \in Mine /\ Rank(Policies[n]) = n
          /\ \A p \in Mine : Rank(p) \in 1..Len(Policies) /\ Policies[Rank(p)] = p
          /\ \A p, q \in Mine : p.priority < q.priority => Rank(p) < Rank(q)
      BY <2>1, PoliciesFacts
    <3>6. /\ drawn \in Seq(ToSet(drawn)) /\ Len(drawn) <= Len(Policies)
          /\ hit = Nil =>
               /\ effective = Original /\ Len(drawn) = Len(Policies)
               /\ \A n \in 1..Len(drawn) : ~Passed(n)
          /\ hit # Nil =>
               /\ Len(drawn) > 0
               /\ hit = Policies[Len(drawn)] /\ effective = TargetOf(hit) /\ Passed(Len(drawn))
               /\ \A n \in 1..(Len(drawn) - 1) : ~Passed(n)
      BY <2>1, <3>1 DEF RouteInv
    <3>7. PICK N \in Nat : N = Len(drawn) /\ DOMAIN drawn = 1..N BY <3>6, LenProperties
    <3>8. \A p \in Mine : Applied(p) <=> Rank(p) \in 1..N /\ Passed(Rank(p))
      BY <3>5, <3>7 DEF Applied, LookedAt, Passed
    <3>9. \A p : LookedAt(p) <=> Rank(p) \in 1..N BY <3>7 DEF LookedAt
    <3>10. CASE hit = Nil BY <3>2, <3>3, <3>4, <3>5, <3>6, <3>7, <3>8, <3>9, <3>10
    <3>11. CASE hit # Nil
      <4>0. N > 0 /\ N <= Len(Policies) /\ hit = Policies[N] /\ Passed(N) BY <3>6, <3>7, <3>11
      <4>1. N \in 1..Len(Policies) /\ N \in 1..N BY <3>5, <4>0
      <4>2. hit \in Mine /\ Rank(hit) = N BY <3>5, <4>0, <4>1
      <4>3. Applied(hit) /\ effective = TargetOf(hit) BY <3>6, <3>8, <3>11, <4>0, <4>1, <4>2
      <4>4. ASSUME NEW p \in Mine, p.priority < hit.priority PROVE LookedAt(p) /\ ~Applied(p)
        <5>1. Rank(p) < N /\ Rank(p) \in 1..Len(Policies) BY <3>5, <4>2, <4>4
        <5>2. Rank(p) \in 1..N /\ Rank(p) \in 1..(N - 1) BY <5>1
        <5>q. QED BY <3>6, <3>7, <3>8, <3>9, <3>11, <5>2
      <4>q. QED BY <3>2, <3>3, <3>4, <3>11, <4>2, <4>3, <4>4
    <3>q. QED BY <3>10, <3>11
  <2>q. QED BY <2>6, <2>7 DEF RoutedRight, Missing
<1>q. QED BY <1>1, PathInvariant, PTL

\* In each phase of each attempt a plugin runs at most once, and with the
\* narrowest configuration in force (chain.go).
THEOREM NarrowestHolds == Spec => []NarrowestRan
<1>1. ASSUME PathInv PROVE NarrowestRan
  <2>1. ChainInv /\ OnceInv /\ Wellformed(snap, req) BY <1>1 DEF PathInv
  <2>2. PICK X : X = ToSet(ran) OBVIOUS
  <2>3. DOMAIN ran = 1..Len(ran) /\ Len(ran) \in Nat
    <3>1. ran \in Seq(X) BY <2>1, <2>2 DEF ChainInv
    <3>q. QED BY <3>1
  <2>4. ASSUME NEW k \in 1..Len(ran)
        PROVE  /\ ran[k].entry \in InForce(ran[k].by)
               /\ \A p \in InForce(ran[k].by) :
                    p.name = ran[k].entry.name => ScopeOf(p) <= ScopeOf(ran[k].entry)
    <3>1. ran # <<>> BY <2>3
    <3>2. ChainOk BY <2>1, <3>1 DEF ChainInv
    <3>3. PICK c, Y : c = chain /\ Y = ToSet(snap.plugins) OBVIOUS
    <3>4. c \in Seq(Y) /\ Nil \notin Y BY <2>1, <3>2, <3>3 DEF ChainOk, Wellformed
    <3>5. PICK e, by, name : e = ran[k].entry /\ by = ran[k].by /\ name = e.name OBVIOUS
    <3>6. PICK service, route : service = effective /\ route = Here.id OBVIOUS
    <3>7. e # Nil /\ e = EntryFor(c, name, service, route, by)
      BY <2>1, <3>3, <3>5, <3>6 DEF ChainInv, EntryOf
    <3>8. /\ e \in ToSet(c) /\ isPluginMatch(e, service, route, by)
          /\ \A p \in ToSet(c) : p.name = name /\ isPluginMatch(p, service, route, by)
               => ScopeOf(p) <= ScopeOf(e)
      BY <3>4, <3>7, EntryFacts
    <3>9. {p \in ToSet(c) : isPluginMatch(p, service, route, by)} = InForce(by)
      BY <3>2, <3>3, <3>6 DEF ChainOk
    <3>10. e \in InForce(by) /\ \A p \in InForce(by) : p.name = name => ScopeOf(p) <= ScopeOf(e)
      BY <3>8, <3>9
    <3>q. QED BY <3>5, <3>10
  <2>5. ASSUME NEW k \in 1..Len(ran), NEW l \in 1..(k - 1)
        PROVE  <<ran[l].phase, ran[l].attempt, ran[l].entry.name>> #
               <<ran[k].phase, ran[k].attempt, ran[k].entry.name>>
    <3>1. l \in 1..Len(ran) /\ l < k BY <2>3
    <3>2. To(l) # To(k) BY <2>1, <3>1 DEF OnceInv
    <3>q. QED BY <3>2 DEF To
  <2>q. QED BY <2>3, <2>4, <2>5 DEF NarrowestRan
<1>q. QED BY <1>1, PathInvariant, PTL

\* No attempt begins before every plugin in force has seen the request and none
\* has refused it (proxy.go, ServeHTTP).
THEOREM NothingSkippedHolds == Spec => []NothingSkipped
<1>1. ASSUME PathInv PROVE NothingSkipped
  <2>1. ChainInv /\ SeenInv BY <1>1 DEF PathInv
  <2>2. PICK X : X = ToSet(ran) OBVIOUS
  <2>3. DOMAIN ran = 1..Len(ran)
    <3>1. ran \in Seq(X) BY <2>1, <2>2 DEF ChainInv
    <3>q. QED BY <3>1
  <2>q. QED BY <2>1, <2>3 DEF NothingSkipped, SeenInv, Seen
<1>q. QED BY <1>1, PathInvariant, PTL

\* A response goes through the configuration that saw the request, unless a
\* consumer who became known in between has one, or had one taken from him
\* (chain.go, ExecuteOnResponse).
THEOREM SameHolds == Spec => []SameUnlessConsumer
<1>1. ASSUME PathInv PROVE SameUnlessConsumer
  <2>1. ChainInv /\ KnownInv /\ Wellformed(snap, req) BY <1>1 DEF PathInv
  <2>2. PICK X : X = ToSet(ran) OBVIOUS
  <2>3. DOMAIN ran = 1..Len(ran) /\ Len(ran) \in Nat
    <3>1. ran \in Seq(X) BY <2>1, <2>2 DEF ChainInv
    <3>q. QED BY <3>1
  <2>4. ASSUME NEW k \in 1..Len(ran), NEW l \in 1..Len(ran),
               ran[k].phase = "OnRequest", ran[l].phase # "OnRequest",
               ran[k].entry.name = ran[l].entry.name
        PROVE  \/ ran[k].entry = ran[l].entry
               \/ /\ ran[l].by \notin {Nil, ran[k].by}
                  /\ \E e \in {ran[k].entry, ran[l].entry} : ScopeOf(e) = Consumer
    <3>1. ran # <<>> BY <2>3
    <3>2. ChainOk BY <2>1, <3>1 DEF ChainInv
    <3>3. PICK c, Y : c = chain /\ Y = ToSet(snap.plugins) OBVIOUS
    <3>4. c \in Seq(Y) /\ Nil \notin Y BY <2>1, <3>2, <3>3 DEF ChainOk, Wellformed
    <3>5. PICK name, by1, by2 : name = ran[k].entry.name /\ by1 = ran[k].by /\ by2 = ran[l].by OBVIOUS
    <3>6. PICK service, route : service = effective /\ route = Here.id OBVIOUS
    <3>7. PICK e, f : e = ran[k].entry /\ f = ran[l].entry OBVIOUS
    <3>8. /\ e # Nil /\ e = EntryFor(c, name, service, route, by1)
          /\ f # Nil /\ f = EntryFor(c, name, service, route, by2)
      BY <2>1, <2>4, <3>3, <3>5, <3>6, <3>7 DEF ChainInv, EntryOf
    <3>9. ScopeOf(e) # Consumer /\ ScopeOf(f) # Consumer => e = f BY <3>4, <3>8, EntrySame
    <3>10. (by1 = Nil \/ consumer # Nil) /\ by2 = consumer BY <2>1, <2>4, <3>5 DEF KnownInv
    <3>11. by1 = by2 => e = f BY <3>8
    <3>12. e = f \/ (by2 \notin {Nil, by1} /\ \E x \in {e, f} : ScopeOf(x) = Consumer)
      BY <3>9, <3>10, <3>11
    <3>q. QED BY <3>5, <3>7, <3>12
  <2>q. QED BY <2>3, <2>4 DEF SameUnlessConsumer
<1>q. QED BY <1>1, PathInvariant, PTL

\* With one key in the request, in a place the policies know, they see the consumer
\* that key-auth then recognises, whatever key names and places it is configured
\* with (snapshot.go, getConsumerIDFromRequest; key_auth.go).
THEOREM ConsumerHolds == Spec => []ConsumerAgrees
<1>1. ASSUME PathInv PROVE ConsumerAgrees
  <2>1. KeysInv /\ ChainInv /\ Wellformed(snap, req) BY <1>1 DEF PathInv
  <2>2. PICK X : X = ToSet(ran) OBVIOUS
  <2>3. DOMAIN ran = 1..Len(ran)
    <3>1. ran \in Seq(X) BY <2>1, <2>2 DEF ChainInv
    <3>q. QED BY <3>1
  <2>4. PICK given : given = {place \in DOMAIN req.keys : req.keys[place] # Nil} OBVIOUS
  <2>5. SUFFICES ASSUME consumer # Nil, Cardinality(given) = 1,
                        \E x \in ToSet(KeyPlaces) : req.keys[x] # Nil,
                        \A k \in DOMAIN ran : ran[k].entry.name # "jwt-auth"
                 PROVE  getConsumerIDFromRequest(snap, req) = consumer
    BY <2>4 DEF ConsumerAgrees, Single
  <2>6. PICK place \in DOMAIN req.keys :
             /\ req.keys[place] # Nil
             /\ \E c \in GetCredentialByKey(snap, req.keys[place]) : c.consumer = consumer
    BY <2>1, <2>3, <2>5 DEF KeysInv, Recognised
  <2>7. PICK c \in GetCredentialByKey(snap, req.keys[place]) : c.consumer = consumer BY <2>6
  <2>8. PICK s : s = KeyPlaces OBVIOUS
  <2>9. ToSet(s) \subseteq DOMAIN req.keys BY <2>1, <2>8 DEF Wellformed
  <2>10. \A x \in given : x = place
    <3>1. IsFiniteSet(given) BY <2>1, <2>4, FS_Subset DEF Wellformed
    <3>2. PICK x : given = {x} BY <2>5, <3>1, FS_Singleton
    <3>3. place \in given BY <2>4, <2>6
    <3>q. QED BY <3>2, <3>3
  <2>18. place \in ToSet(s)
    <3>1. PICK x \in ToSet(s) : req.keys[x] # Nil BY <2>5, <2>8
    <3>2. x \in given BY <2>4, <2>9, <3>1
    <3>q. QED BY <2>10, <3>1, <3>2
  <2>11. PICK known : known = {k \in DOMAIN s : /\ req.keys[s[k]] # Nil
                                                /\ GetCredentialByKey(snap, req.keys[s[k]]) # {}}
    OBVIOUS
  <2>12. known # {}
    <3>1. PICK k \in DOMAIN s : s[k] = place BY <2>18 DEF ToSet
    <3>q. QED BY <2>6, <2>7, <2>11, <3>1
  <2>13. Min(known) \in known
    <3>1. s \in Seq(ToSet(s)) BY <2>8, KeyPlacesFacts
    <3>2. known \in SUBSET DOMAIN s BY <2>11
    <3>3. known \in SUBSET Int /\ IsFiniteSet(known) BY <3>1, <3>2, Places
    <3>q. QED BY <2>12, <3>3, MinMax
  <2>14. s[Min(known)] = place
    <3>1. Min(known) \in DOMAIN s /\ req.keys[s[Min(known)]] # Nil BY <2>11, <2>13
    <3>2. s[Min(known)] \in ToSet(s) BY <3>1 DEF ToSet
    <3>q. QED BY <2>4, <2>9, <2>10, <3>1, <3>2
  <2>15. getConsumerIDFromRequest(snap, req) =
           (CHOOSE d \in GetCredentialByKey(snap, req.keys[place]) : TRUE).consumer
    BY <2>8, <2>11, <2>12, <2>14 DEF getConsumerIDFromRequest
  <2>16. \A d \in GetCredentialByKey(snap, req.keys[place]) : d = c
    BY <2>1, CredentialFacts DEF Wellformed
  <2>17. (CHOOSE d \in GetCredentialByKey(snap, req.keys[place]) : TRUE) = c BY <2>7, <2>16
  <2>q. QED BY <2>7, <2>15, <2>17
<1>q. QED BY <1>1, PathInvariant, PTL
=============================================================================
