------------------------------ MODULE RouteMatch ------------------------------
(***************************************************************************)
(* How the data plane decides, from one snapshot and one request, which    *)
(* route the request belongs to and which service it goes to: the route    *)
(* matchers and the conditions of the traffic policies                     *)
(* (src/internal/data/snapshot/snapshot.go).  The module has no state; a   *)
(* request walks through it in RequestPath.                                *)
(*                                                                         *)
(* A string is a sequence of tokens: 0..9 are digits, 10 and more letters  *)
(* in lower case, -10 and less the same letters in upper case; Star and    *)
(* Bracket are the characters '*' and '['.  The empty sequence is the      *)
(* empty string, which is also what a header, a query parameter or a       *)
(* cookie that the request does not have reads as.                         *)
(***************************************************************************)
EXTENDS Selections

Star == 1000
Bracket == 1001

\* strings.EqualFold: upper-case letters are the negative tokens.
Fold(v) == [k \in DOMAIN v |-> IF v[k] < 0 THEN -v[k] ELSE v[k]]

\* strings.Contains.
Within(pattern, v) ==
  \E k \in 0..(Len(v) - Len(pattern)) : SubSeq(v, k + 1, k + Len(pattern)) = pattern

IsNumber(v) == Len(v) = 1 /\ v[1] \in 0..9

-----------------------------------------------------------------------------
(* Values of headers, parameters, cookies and paths *)

compareNumeric(v, pattern, op) ==
  /\ IsNumber(v) /\ IsNumber(pattern)
  /\ \/ op = "greater_than" /\ v[1] > pattern[1]
     \/ op = "greater_equal" /\ v[1] >= pattern[1]
     \/ op = "less_than" /\ v[1] < pattern[1]
     \/ op = "less_equal" /\ v[1] <= pattern[1]

Relational == {"greater_than", "greater_equal", "less_than", "less_equal"}

Textual == {"prefix", "suffix", "contains", "regex", "not_exact", "not_contains"}

\* A pattern that does not compile matches nothing; a regular expression of
\* plain characters is searched for.  An operator the code does not know (only
\* a condition of a compound policy can have one) compares for equality.
MatchValue(v, pattern, op) ==
  \/ op = "prefix" /\ IsPrefix(pattern, v)
  \/ op = "suffix" /\ IsSuffix(pattern, v)
  \/ op = "contains" /\ Within(pattern, v)
  \/ op = "regex" /\ ~Contains(pattern, Bracket) /\ Within(pattern, v)
  \/ op = "not_exact" /\ v # pattern
  \/ op = "not_contains" /\ ~Within(pattern, v)
  \/ op \in Relational /\ compareNumeric(v, pattern, op)
  \/ op \notin Textual \union Relational /\ v = pattern

-----------------------------------------------------------------------------
(* Routes *)

\* A path with '*' matches as a whole, '*' standing for any text (one '*' per
\* path here); one with another special character matches only itself; a
\* literal one matches every path that it begins.
pathToRegexp(pattern, path) ==
  IF Contains(pattern, Star)
    THEN \E k \in DOMAIN pattern :
           /\ pattern[k] = Star
           /\ IsPrefix(SubSeq(pattern, 1, k - 1), path)
           /\ IsSuffix(SubSeq(pattern, k + 1, Len(pattern)), path)
           /\ Len(path) >= Len(pattern) - 1
    ELSE path = pattern

PathFits(pattern, path) ==
  IF \E c \in {Star, Bracket} : Contains(pattern, c)
    THEN pathToRegexp(pattern, path)
    ELSE IsPrefix(pattern, path)

\* RouteMatcher.Match: every kind of condition the route has must hold; a
\* method is compared exactly and the value of a header without case.  A host
\* stands for all its spellings, with and without a port.
Match(route, r) ==
  /\ route.methods = {} \/ r.method \in route.methods
  /\ route.hosts = {} \/ r.host \in route.hosts
  /\ route.paths = {} \/ \E p \in route.paths : PathFits(p, r.path)
  /\ \A k \in DOMAIN route.headers :
       \E v \in route.headers[k], rv \in r.headers[k] : Fold(v) = Fold(rv)

\* Build: a matcher for every enabled route, in the order of the snapshot.
routeMatchers(s) == Pick(s.routes, {k \in DOMAIN s.routes : s.routes[k].enabled})

\* Mutant: the policies in the opposite order.
trafficPoliciesDescending(s, id) ==
  SetToSortSeq({p \in s.policies : p.route = id}, LAMBDA p, q : p.priority > q.priority)

\* Build: the policies of a route, in the order of their priorities.
trafficPoliciesByRoute(s, id) ==
  LET mine == {p \in s.policies : p.route = id}
  IN  [n \in 1..Cardinality(mine) |->
         CHOOSE p \in mine : Cardinality({q \in mine : q.priority <= p.priority}) = n]

-----------------------------------------------------------------------------
(* Who asks: addresses, consumers and tags *)

\* The first of X-Forwarded-For, X-Real-IP and the peer address.
extractClientIP(r) ==
  IF r.forwarded # Nil THEN r.forwarded ELSE IF r.realIP # Nil THEN r.realIP ELSE r.remote

\* Where a key is looked for, in this order: after the bearer token the headers of
\* defaultKeyNames, and then the query parameters of all of them.
KeyPlaces == <<"Bearer ", "apikey", "X-API-Key", "X-apikey", "?apikey", "?X-API-Key", "?X-apikey">>

\* Mutant: the loop over the query parameters is left out.
getConsumerIDFromHeaders(s, r) ==
  LET known == {k \in 1..4 : /\ r.keys[KeyPlaces[k]] # Nil
                             /\ GetCredentialByKey(s, r.keys[KeyPlaces[k]]) # {}}
  IN  IF known = {} THEN Nil
      ELSE (CHOOSE c \in GetCredentialByKey(s, r.keys[KeyPlaces[Min(known)]]) : TRUE).consumer

\* getConsumerIDFromRequest: the consumer of the first key the snapshot knows; a
\* credential that is disabled, or is not of the key-auth type, counts as well.
getConsumerIDFromRequest(s, r) ==
  LET known == {k \in DOMAIN KeyPlaces :
                  /\ r.keys[KeyPlaces[k]] # Nil
                  /\ GetCredentialByKey(s, r.keys[KeyPlaces[k]]) # {}}
  IN  IF known = {} THEN Nil
      ELSE (CHOOSE c \in GetCredentialByKey(s, r.keys[KeyPlaces[Min(known)]]) : TRUE).consumer

\* GetCredentialsByConsumer, and the tags of all of them one after the other.
ConsumerTags(s, consumer) ==
  FlattenSeq([k \in DOMAIN s.credentials |->
    IF s.credentials[k].consumer = consumer THEN s.credentials[k].tags ELSE <<>>])

\* getServiceIDFromRequest, getRouteIDFromRequest: the matchers are tried anew.
\* The first that matches is taken even when its service is not in the
\* snapshot, where MatchRoute goes on.
FirstMatching(s, r) == SelectSeq(routeMatchers(s), LAMBDA route : Match(route, r))

SourceTags(source, s, r) ==
  LET first == FirstMatching(s, r)
  IN  CASE source = "consumer" /\ getConsumerIDFromRequest(s, r) # Nil ->
             ConsumerTags(s, getConsumerIDFromRequest(s, r))
        [] source = "service" /\ first # <<>> /\ first[1].service \in DOMAIN s.services ->
             s.services[first[1].service].tags
        [] source = "route" /\ first # <<>> -> first[1].tags
        [] OTHER -> <<>>

\* "exact" compares the lengths and looks up the tags of the source.
MatchTags(tags, mode, source, s, r) ==
  LET has == SourceTags(source, s, r)
  IN  /\ has # <<>>
      /\ \/ mode \in {"any", ""} /\ ToSet(tags) \intersect ToSet(has) # {}
         \/ mode = "all" /\ ToSet(tags) \subseteq ToSet(has)
         \/ mode = "exact" /\ Len(tags) = Len(has) /\ ToSet(has) \subseteq ToSet(tags)

MatchConsumer(c, s, r) ==
  LET consumer == getConsumerIDFromRequest(s, r)
      has == ToSet(ConsumerTags(s, consumer))
  IN  /\ consumer # Nil
      /\ \/ consumer \in c.consumers
         \/ c.mode \in {"any", ""} /\ ToSet(c.tags) \intersect has # {}
         \/ c.mode = "all" /\ c.tags # <<>> /\ has # {} /\ ToSet(c.tags) \subseteq has

-----------------------------------------------------------------------------
(* The conditions of a policy, one operator per type *)

MatchHeader(c, r) ==
  c.value # <<>> /\ \E v \in r.headers[c.header] : MatchValue(v, c.value, c.op)

WeightMatches(c, draw) == c.percentage \in 1..100 /\ draw < c.percentage

\* A parameter the request does not have is compared as the empty string.
QueryMatches(c, r) == c.value # <<>> /\ MatchValue(r.query[c.key], c.value, c.op)

\* A condition without a value asks only for the cookie.
CookieMatches(c, r) ==
  r.cookies[c.name] # Nil /\ (c.value = <<>> \/ MatchValue(r.cookies[c.name], c.value, c.op))

\* The addresses of the list and of the networks; what is not an address is in
\* neither, so a negated condition holds for it.
IPMatches(c, r) == (extractClientIP(r) \in c.addresses) # c.negate

PathMatches(c, r) == c.pattern # <<>> /\ MatchValue(r.path, c.pattern, c.op)

\* A method is a verb and how it is spelt; here the spelling does not matter.
MethodMatches(c, r) ==
  c.methods # {} /\ (r.method.verb \in {m.verb : m \in c.methods}) # c.negate

TagMatches(c, s, r) == c.tags # <<>> /\ MatchTags(c.tags, c.mode, c.source, s, r)

\* matchSingleCondition.  Validate accepts "compound" and "fallback" as types of
\* a nested condition; here they are unknown and do not hold.
matchSingleCondition(c, s, r, draw) ==
  \/ c.type = "header" /\ MatchHeader(c, r)
  \/ c.type = "weight" /\ WeightMatches(c, draw)
  \/ c.type = "query" /\ QueryMatches(c, r)
  \/ c.type = "cookie" /\ CookieMatches(c, r)
  \/ c.type = "ip" /\ IPMatches(c, r)
  \/ c.type = "path" /\ PathMatches(c, r)
  \/ c.type = "method" /\ MethodMatches(c, r)
  \/ c.type = "tag" /\ TagMatches(c, s, r)
  \/ c.type = "consumer" /\ MatchConsumer(c, s, r)

\* All conditions are evaluated, each weight with a draw of its own.
matchCompoundConditions(c, s, r, draws) ==
  LET holds == {k \in DOMAIN c.conditions : matchSingleCondition(c.conditions[k], s, r, draws[k])}
  IN  \/ c.operator = "and" /\ holds = DOMAIN c.conditions
      \/ c.operator = "or" /\ holds # {}

\* The enabled targets: UpdateTargetHealth has no caller, so that no target has
\* a record in the snapshot, and one without a record counts as healthy.
CountHealthyTargets(s, upstream) ==
  IF upstream \in DOMAIN s.targets THEN s.targets[upstream] ELSE 0

\* A fallback without an upstream always applies.
FallbackMatches(c, s, service) ==
  LET upstream == s.services[service].upstream
      required == IF c.minHealthy > 0 THEN c.minHealthy ELSE 1
  IN  upstream = Nil \/ CountHealthyTargets(s, upstream) < required

\* matchTrafficPolicy; a single condition takes the first draw.
matchTrafficPolicy(p, s, r, service, draws) ==
  CASE p.match.type = "compound" -> matchCompoundConditions(p.match, s, r, draws)
    [] p.match.type = "fallback" -> FallbackMatches(p.match, s, service)
    [] OTHER -> matchSingleCondition(p.match, s, r, draws[1])

\* The service a policy sends to: a fallback names its own.
TargetOf(p) == IF p.match.type = "fallback" THEN p.match.fallback ELSE p.target

\* A value condition may be without an operator.
isValidMatchOperator(op) == op \in Textual \union Relational \union {"exact"}

\* Validate: what a policy that is stored has been checked for.  The conditions
\* of a compound policy are checked for their type only.
Types == {"header", "weight", "query", "cookie", "ip", "path", "method", "tag", "consumer",
          "compound", "fallback"}

Validate(p) ==
  LET c == p.match
  IN  /\ p.route # Nil /\ p.priority >= 0
      /\ p.target # Nil \/ c.type = "fallback"
      /\ c.type \in Types
      /\ c.type \in {"header", "query"} => c.value # <<>>
      /\ c.type = "path" => c.pattern # <<>>
      /\ c.type \in {"header", "query", "cookie", "path"} =>
           c.op = "" \/ isValidMatchOperator(c.op)
      /\ c.type = "weight" => c.percentage \in 1..100
      /\ c.type = "ip" => c.addresses # {}
      /\ c.type = "method" => c.methods # {}
      /\ c.type = "tag" => c.tags # <<>>
      /\ c.type = "consumer" => c.consumers # {} \/ c.tags # <<>>
      /\ c.type = "compound" =>
           /\ c.operator \in {"and", "or"} /\ c.conditions # <<>>
           /\ \A k \in DOMAIN c.conditions : c.conditions[k].type \in Types
      /\ c.type = "fallback" => c.fallback # Nil
=============================================================================
