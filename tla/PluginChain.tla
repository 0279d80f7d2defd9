------------------------------ MODULE PluginChain ------------------------------
(***************************************************************************)
(* The plugins of a request: the store of a snapshot, the chain built from *)
(* it, which entry of a chain stands for a name, and what the              *)
(* authentication plugins decide (src/internal/data/plugin).  The module   *)
(* has no state; RequestPath runs the chain plugin by plugin.              *)
(***************************************************************************)
EXTENDS Selections

CONSTANTS
  Registry,               \* the names that have a factory
  Tokens                  \* the JWTs: what is in a token, by the text of it

Global == 0
Service == 1
Route == 2
Consumer == 3

-----------------------------------------------------------------------------
(* The store of a snapshot *)

\* AddPlugin: the narrowest owner a plugin names is its scope.
ScopeOf(p) ==
  CASE p.consumer # Nil -> Consumer
    [] p.consumer = Nil /\ p.route # Nil -> Route
    [] p.consumer = Nil /\ p.route = Nil /\ p.service # Nil -> Service
    [] OTHER -> Global

OwnerOf(p) ==
  CASE ScopeOf(p) = Consumer -> p.consumer
    [] ScopeOf(p) = Route -> p.route
    [] ScopeOf(p) = Service -> p.service
    [] OTHER -> Nil

\* The places, among some of a list, where a name occurs first.
FirstPlaces(plugins, places) ==
  {k \in places : \A l \in places : l < k => plugins[l].name # plugins[k].name}

\* The names of a list of plugins, in the order in which each occurs first.
NamesOf(plugins) ==
  LET named == Pick(plugins, FirstPlaces(plugins, DOMAIN plugins))
  IN  [n \in DOMAIN named |-> named[n].name]

\* GetGlobal, GetForService, GetForRoute: a later plugin of the same name has
\* taken the place of the earlier one.
Stored(s, scope, owner) ==
  LET mine == {k \in DOMAIN s.plugins :
                 ScopeOf(s.plugins[k]) = scope /\ OwnerOf(s.plugins[k]) = owner}
      first == FirstPlaces(s.plugins, mine)
      latest(k) == Max({l \in mine : s.plugins[l].name = s.plugins[k].name})
  IN  [n \in 1..Cardinality(first) |-> s.plugins[latest(Nth(first, n))]]

\* GetAllConsumerPlugins walks two maps: the plugins of every consumer, in any order.
GetAllConsumerPlugins(s) ==
  SetToSeqs(UNION {ToSet(Stored(s, Consumer, c)) : c \in {p.consumer : p \in ToSet(s.plugins)} \ {Nil}})

-----------------------------------------------------------------------------
(* The chain *)

\* BuildChainForRequest: an instance of every plugin stored for the request, those
\* of all consumers included, by scope.  Enabled or not, each is instantiated.
BuildChainForRequest(s, service, route, ofConsumers) ==
  Stored(s, Global, Nil) \o Stored(s, Service, service) \o Stored(s, Route, route) \o ofConsumers

CanBuild(chain) == \A p \in ToSet(chain) : p.name \in Registry

isPluginMatch(p, service, route, consumer) ==
  /\ p.enabled
  /\ \/ ScopeOf(p) = Global
     \/ ScopeOf(p) = Service /\ p.service = service
     \/ ScopeOf(p) = Route /\ p.route = route
     \/ ScopeOf(p) = Consumer /\ consumer # Nil /\ p.consumer = consumer

\* Mutant: the first entry that matches.
EntryForFirst(chain, name, service, route, consumer) ==
  LET match == SelectSeq(chain, LAMBDA p : p.name = name /\ isPluginMatch(p, service, route, consumer))
  IN  IF match = <<>> THEN Nil ELSE match[1]

\* Mutant: the entry of the narrowest scope, if it matches.
EntryForNarrowest(chain, name, service, route, consumer) ==
  LET same == SelectSeq(chain, LAMBDA p : p.name = name)
      narrowest == SelectSeq(same, LAMBDA p : \A q \in ToSet(same) : ScopeOf(q) <= ScopeOf(p))[1]
  IN  IF isPluginMatch(narrowest, service, route, consumer) THEN narrowest ELSE Nil

\* The entry that stands for a name: of those that match, with the consumer known
\* at that moment, the first of the narrowest scope; Nil when none matches.
EntryFor(chain, name, service, route, consumer) ==
  LET match == {k \in DOMAIN chain :
                  chain[k].name = name /\ isPluginMatch(chain[k], service, route, consumer)}
      narrowest == {k \in match : \A l \in match : ScopeOf(chain[l]) <= ScopeOf(chain[k])}
  IN  IF match = {} THEN Nil ELSE chain[Min(narrowest)]

\* ExecuteOnRequest takes the names from the front; ExecuteOnResponse and
\* ExecuteOnError from the back.
ForwardNames(chain) == NamesOf(chain)
BackwardNames(chain) == NamesOf(Reverse(chain))

-----------------------------------------------------------------------------
(* The authentication plugins *)

\* The credential fetcher of a request asks the snapshot.
GetByKey(s, key) == GetCredentialByKey(s, key)

\* KeyAuthConfig: the key names a plugin is configured with (entry.names, a list),
\* each with its three places: the header of that name, the header with "X-" in
\* front of it, and the query parameter.
KeyAuthPlaces(entry) ==
  UNION {{name.header, name.prefixed, name.query} : name \in ToSet(entry.names)}

InHeader(name, keys) ==
  IF keys[name.header] # Nil THEN keys[name.header] ELSE keys[name.prefixed]

\* KeyAuthPlugin.extractKey: a bearer token, or else the first of the names that
\* a header has, or else the first that is in the query.
extractKey(entry, keys) ==
  LET headers == {n \in DOMAIN entry.names : entry.inHeader /\ InHeader(entry.names[n], keys) # Nil}
      queries == {n \in DOMAIN entry.names : entry.inQuery /\ keys[entry.names[n].query] # Nil}
  IN  IF keys["Bearer "] # Nil THEN keys["Bearer "]
      ELSE IF headers # {} THEN InHeader(entry.names[Min(headers)], keys)
      ELSE IF queries # {} THEN keys[entry.names[Min(queries)].query]
      ELSE Nil

extractToken(keys) ==
  LET given == SelectSeq(<<"Bearer ", "token", "?token">>, LAMBDA place : keys[place] # Nil)
  IN  IF given = <<>> THEN Nil ELSE keys[given[1]]

\* The consumers a plugin may recognise: at most one; none is a refusal, or a
\* request that goes on without a consumer when the plugin allows anonymous ones.
KeyAuth(s, entry, keys) ==
  {c.consumer : c \in {d \in GetByKey(s, extractKey(entry, keys)) :
     extractKey(entry, keys) # Nil /\ d.enabled /\ d.type = "key-auth"}}

\* The checks of JWTAuthPlugin.OnRequest: the format, the times, the credential
\* named by the key claim, its secret and the claims that have to be there.
verifySignature(token, credential) == token.signer = credential.secret

JWTAuth(s, keys) ==
  LET text == extractToken(keys)
      named == IF text \in DOMAIN Tokens THEN GetByKey(s, Tokens[text].key) ELSE {}
  IN  {c.consumer : c \in {d \in named :
         /\ Tokens[text].current
         /\ d.enabled /\ d.type = "jwt-auth"
         /\ verifySignature(Tokens[text], d)
         /\ Tokens[text].hasExp}}

\* hideCredentials: what a later plugin and the upstream no longer see.
hideKeys(entry, keys) ==
  [place \in DOMAIN keys |-> IF place \in KeyAuthPlaces(entry) THEN Nil ELSE keys[place]]

hideToken(keys) == [keys EXCEPT !["Bearer "] = Nil, !["?token"] = Nil]
=============================================================================
