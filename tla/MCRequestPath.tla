----------------------------- MODULE MCRequestPath -----------------------------
(***************************************************************************)
(* Five families of scenarios: every condition against every request;      *)
(* pairs of policies of one route; lists of routes; sequences of plugins;  *)
(* and requests that two plugins recognise as different consumers.         *)
(***************************************************************************)
EXTENDS RequestPath, TLC

CONSTANTS s1, s2, s3, u1, r1, r2, c1, c2, k1, k2, k3, k4, t1, t2, t3, t4, ip1, ip2, garbage

a == 10
b == 11
CapitalA == -10

-----------------------------------------------------------------------------
(* Requests *)

\* A key name: of a header, of the header with "X-" in front, of a parameter.
Name(header, prefixed, query) == [header |-> header, prefixed |-> prefixed, query |-> query]

apikey == Name("apikey", "X-apikey", "?apikey")
XAPIKey == Name("X-API-Key", "X-X-API-Key", "?X-API-Key")
access == Name("access", "X-access", "?access")

NoKeys ==
  [place \in ToSet(KeyPlaces) \union {"token", "?token"}
            \union UNION {{n.header, n.prefixed, n.query} : n \in {apikey, XAPIKey, access}} |-> Nil]

Plain ==
  [method |-> Upper("POST"), host |-> "h", path |-> <<a, b>>,
   headers |-> [x |-> {}, y |-> {}], query |-> [q |-> <<>>], cookies |-> [c |-> Nil],
   forwarded |-> Nil, realIP |-> Nil, remote |-> ip1, keys |-> NoKeys]

With(place, key) == [Plain EXCEPT !.keys[place] = key]
Get == [Plain EXCEPT !.method = Upper("GET")]

RequestPool ==
  {Plain, Get, [Plain EXCEPT !.method = [verb |-> "GET", upper |-> FALSE]],
   [Plain EXCEPT !.path = <<b>>], [Plain EXCEPT !.path = <<a, a, b>>],
   [Plain EXCEPT !.headers.x = {<<a, b>>}, !.headers.y = {<<CapitalA>>}],
   [Plain EXCEPT !.headers.x = {<<CapitalA>>, <<b>>}],
   [Plain EXCEPT !.headers.x = {<<5>>}], [Plain EXCEPT !.headers.x = {<<4>>}],
   [Plain EXCEPT !.query.q = <<a>>], [Plain EXCEPT !.query.q = <<3>>],
   [Plain EXCEPT !.cookies.c = <<>>], [Plain EXCEPT !.cookies.c = <<b, a>>],
   [Plain EXCEPT !.forwarded = ip2], [Plain EXCEPT !.realIP = garbage]}
  \union {With(place, key) : place \in {"Bearer ", "X-API-Key", "X-apikey"}, key \in {k1, k2}}
  \union {[With("apikey", k1) EXCEPT !.keys["Bearer "] = k2], With("?apikey", k3)}

-----------------------------------------------------------------------------
(* Snapshots *)

Credential(key, owner, kind, tags, on) ==
  [key |-> key, consumer |-> owner, type |-> kind, tags |-> tags, enabled |-> on, secret |-> key]

Credentials ==
  <<Credential(k1, c2, "key-auth", <<>>, TRUE), Credential(k1, c1, "key-auth", <<a>>, TRUE),
    Credential(k2, c2, "key-auth", <<a, b>>, TRUE),
    Credential(k3, c1, "jwt-auth", <<a>>, TRUE), Credential(k4, c2, "jwt-auth", <<>>, TRUE)>>

RouteRow(id, service) ==
  [id |-> id, service |-> service, enabled |-> TRUE, methods |-> {}, hosts |-> {"h"}, paths |-> {},
   headers |-> <<>>, tags |-> <<a>>]

ServiceRow(upstream) == [upstream |-> upstream, tags |-> <<a, b>>, host |-> upstream = Nil]

Base ==
  [routes |-> <<RouteRow(r1, s1)>>,
   services |-> s1 :> ServiceRow(u1) @@ s2 :> ServiceRow(Nil),
   targets |-> u1 :> 2, credentials |-> Credentials, policies |-> {}, plugins |-> <<>>]

Policy(priority, match, target) ==
  [route |-> r1, priority |-> priority, match |-> match, target |-> target, enabled |-> TRUE]

-----------------------------------------------------------------------------
(* The conditions *)

Operators == Textual \union Relational \union {"exact", ""}

Header(v, op) == [type |-> "header", header |-> "x", value |-> v, op |-> op]
Weight(n) == [type |-> "weight", percentage |-> n]
Query(v, op) == [type |-> "query", key |-> "q", value |-> v, op |-> op]
Cookie(v, op) == [type |-> "cookie", name |-> "c", value |-> v, op |-> op]
Addresses(set, negate) == [type |-> "ip", addresses |-> set, negate |-> negate]
Path(v, op) == [type |-> "path", pattern |-> v, op |-> op]
Method(set, negate) == [type |-> "method", methods |-> set, negate |-> negate]
Tag(tags, mode, source) == [type |-> "tag", tags |-> tags, mode |-> mode, source |-> source]
OfConsumer(set, tags, mode) == [type |-> "consumer", consumers |-> set, tags |-> tags, mode |-> mode]
Compound(op, conditions) == [type |-> "compound", operator |-> op, conditions |-> conditions]
Fallback(n, target) == [type |-> "fallback", minHealthy |-> n, fallback |-> target]

Modes == {"any", "all", "exact", ""}

Conditions ==
  {Header(v, op) : v \in {<<a>>, <<4>>}, op \in Operators}
  \union {Header(<<Bracket>>, "regex"), Weight(1), Weight(100)}
  \union {Query(v, op) : v \in {<<a>>, <<3>>}, op \in {"", "not_exact", "less_equal"}}
  \union {Cookie(v, op) : v \in {<<>>, <<a>>}, op \in {"suffix", "not_contains"}}
  \union {Addresses({ip2}, n) : n \in BOOLEAN}
  \union {Path(<<a>>, op) : op \in {"prefix", "contains"}}
  \union {Method({[verb |-> "GET", upper |-> FALSE]}, n) : n \in BOOLEAN}
  \union {Tag(tags, m, src) : tags \in {<<a>>, <<a, b>>}, m \in Modes,
                             src \in {"consumer", "service", "route", ""}}
  \union {OfConsumer({c2}, <<>>, "")} \union {OfConsumer({}, <<a, b>>, m) : m \in Modes}
  \union {Fallback(n, s2) : n \in {0, 3}}

Few == {Header(<<a>>, "prefix"), Weight(50), Query(<<a>>, "not_exact"), OfConsumer({c1}, <<>>, "")}

Nested == Few \union {Header(<<>>, ""), Header(<<a>>, "like"), Fallback(3, s2)}

Pairs == {Compound(op, <<x, y>>) : op \in {"and", "or"}, x \in Few, y \in Nested}

Each(match) == [Base EXCEPT !.policies = {Policy(1, match, s2)}]

ByCondition ==
  {Each(c) : c \in {c \in Conditions \union Pairs : Validate(Policy(1, c, s2))}} \X RequestPool

\* Two policies, either of them disabled, with a target that may be missing.
ByPolicies ==
  ({[Base EXCEPT !.policies = {[Policy(2, x, s2) EXCEPT !.enabled = on], Policy(1, y, target)}] :
     x \in Few, y \in Few \union {Fallback(3, s3)}, on \in BOOLEAN, target \in {s2, s3}}
  \union {[Each(Fallback(1, target)) EXCEPT !.targets = u1 :> 0] : target \in {s2, s3}})
  \X {Plain, With("X-API-Key", k1), [Plain EXCEPT !.headers.x = {<<a, b>>}]}

RouteKinds ==
  {[RouteRow(r1, s1) EXCEPT !.paths = {p}] :
     p \in {<<a>>, <<b>>, <<a, Star>>, <<Star, b>>, <<a, Bracket>>}}
  \union {[RouteRow(r1, s1) EXCEPT !.methods = {Upper("GET")}],
          [RouteRow(r1, s1) EXCEPT !.headers = [y |-> {<<a>>}]],
          [RouteRow(r1, s1) EXCEPT !.enabled = FALSE]}

\* A first route whose service may be missing, and a second one.
ByRoutes ==
  {[Base EXCEPT !.routes = <<[x EXCEPT !.id = r2, !.service = service, !.tags = <<b>>], y>>,
                !.policies = {Policy(1, Tag(<<a>>, "any", "route"), s2)}] :
     x \in RouteKinds, y \in RouteKinds, service \in {s2, s3}}
  \X {Plain, Get, [Plain EXCEPT !.path = <<b>>], [Plain EXCEPT !.host = "other"],
      [Plain EXCEPT !.path = <<a, a, b>>, !.headers.y = {<<CapitalA>>}]}

-----------------------------------------------------------------------------
(* The plugins *)

Plugin(name, owner) ==
  [name |-> name, route |-> Nil, service |-> Nil, consumer |-> Nil, enabled |-> TRUE,
   anonymous |-> FALSE, hide |-> TRUE, preflight |-> FALSE,
   names |-> <<apikey>>, inHeader |-> TRUE, inQuery |-> TRUE] @@ owner

Of(field, owner) == [Plugin("none", <<>>) EXCEPT ![field] = owner]

PluginPool ==
  LET key == [Of("route", Nil) EXCEPT !.name = "key-auth"]
      jwt == [Of("route", Nil) EXCEPT !.name = "jwt-auth"]
      custom(p) == [p EXCEPT !.name = "custom"]
  IN  <<key, [key EXCEPT !.route = r1, !.anonymous = TRUE], jwt,
        [Of("route", Nil) EXCEPT !.name = "rate-limit"],
        custom(Of("route", Nil)), custom(Of("service", s1)), custom(Of("service", s2)),
        custom(Of("consumer", c1)), custom([Of("route", r1) EXCEPT !.enabled = FALSE]),
        [Of("service", s1) EXCEPT !.name = "unknown"]>>

\* Three of them, in the order of the pool or in the opposite one.
PluginLists(before(_, _)) ==
  LET at == DOMAIN PluginPool
  IN  {[Base EXCEPT !.plugins = <<PluginPool[p[1]], PluginPool[p[2]], PluginPool[p[3]]>>,
                    !.policies = {Policy(1, Header(<<b>>, ""), s2)}] :
         p \in {p \in at \X at \X at : before(p[1], p[2]) /\ before(p[2], p[3])}}

ByPlugins ==
  PluginLists(<)
    \X {[With("Bearer ", t1) EXCEPT !.method = Upper("GET")],
        [With("Bearer ", t2) EXCEPT !.method = Upper("OPTIONS"), !.headers.x = {<<b>>}],
        [With("Bearer ", t3) EXCEPT !.keys["apikey"] = k2]}
  \union PluginLists(>) \X {With("X-apikey", k1)}

\* A request that two plugins recognise as different consumers.
ByConsumers ==
  LET at == DOMAIN PluginPool
      custom == {k \in at : PluginPool[k].name = "custom"}
  IN  {[Base EXCEPT !.plugins = <<PluginPool[1], PluginPool[p[1]], PluginPool[p[2]], PluginPool[3]>>] :
         p \in {p \in custom \X custom : p[1] < p[2]}}
      \X {[With("apikey", k1) EXCEPT !.keys["token"] = t4]}

\* Key-auth with other key names, or looking in one kind of place only, and a
\* request with one key; a global plugin of another configuration may run first.
ByKeyNames ==
  LET key == [Plugin("key-auth", <<>>) EXCEPT !.route = r1]
      wide == [Plugin("key-auth", <<>>) EXCEPT !.anonymous = TRUE, !.hide = FALSE]
  IN  {[Base EXCEPT !.plugins = <<wide, [key EXCEPT !.names = names, !.inHeader = h, !.inQuery = q]>>] :
         names \in {<<apikey>>, <<XAPIKey>>, <<access, apikey>>}, h \in BOOLEAN, q \in BOOLEAN}
      \X {With(place, k1) : place \in DOMAIN NoKeys \ {"token", "?token"}}

AllScenarios ==
  ByCondition \union ByPolicies \union ByRoutes \union ByPlugins \union ByConsumers \union ByKeyNames

Token(key, signer, current) == [key |-> key, signer |-> signer, current |-> current, hasExp |-> TRUE]

JWTs == t1 :> Token(k3, k3, TRUE) @@ t2 :> Token(k3, k3, FALSE) @@ t3 :> Token(k3, k1, TRUE)
  @@ t4 :> Token(k4, k4, TRUE)
=============================================================================
