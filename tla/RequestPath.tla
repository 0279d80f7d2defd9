------------------------------ MODULE RequestPath ------------------------------
(***************************************************************************)
(* One request on its way through a data plane: Proxy.ServeHTTP and        *)
(* serveWithRetry (src/internal/data/proxy/proxy.go) with the routing of   *)
(* RouteMatch and the plugins of PluginChain.  The snapshot is loaded once *)
(* and does not change; the request is any of Requests.                    *)
(*                                                                         *)
(* A plugin named in Fallible may return an error in each of its three     *)
(* phases; the rate limiter may refuse (how it decides is in LocalLimiter  *)
(* and RedisLimiter).  An attempt may end in any of Statuses or without an *)
(* answer, and its body may break off; or nothing ever comes, since no     *)
(* timeout is set anywhere (the choice of the target is in TargetHealth).  *)
(***************************************************************************)
EXTENDS RouteMatch, PluginChain

CONSTANTS
  Fallible,               \* the names whose plugins may fail
  Scenarios,              \* pairs of a snapshot and a request
  Draws                   \* the values rand.Intn(100) is sampled at

\* Lists are finite and hold no absent element; a credential has a consumer
\* (NOT NULL), and no two policies of a route have one priority (UNIQUE); a
\* request has a key, or none, in each of the places that are looked at.
Wellformed(s, r) ==
  /\ s.routes \in Seq(ToSet(s.routes))
  /\ s.plugins \in Seq(ToSet(s.plugins)) /\ Nil \notin ToSet(s.plugins)
  /\ \A p \in ToSet(s.plugins) :
       p.names \in Seq(ToSet(p.names)) /\ KeyAuthPlaces(p) \subseteq DOMAIN r.keys
  /\ s.credentials \in Seq(ToSet(s.credentials))
  /\ \A c \in ToSet(s.credentials) : c.consumer # Nil
  /\ IsFiniteSet(s.policies) /\ Nil \notin s.policies
  /\ \A p, q \in s.policies :
       p.priority \in Int /\ (p.route = q.route /\ p.priority = q.priority => p = q)
  /\ r.keys = [place \in DOMAIN r.keys |-> r.keys[place]]
  /\ IsFiniteSet(DOMAIN r.keys) /\ ToSet(KeyPlaces) \subseteq DOMAIN r.keys

ASSUME ScenariosAssumption == \A sc \in Scenarios : Wellformed(sc[1], sc[2])

VARIABLES
  snap, req,              \* the snapshot that is loaded, the request
  pc,                     \* what the request does next
  routeAt, policyAt,      \* the matcher and the policy MatchRoute looks at
  effective,              \* the service the request goes to
  hit,                    \* the policy that decided so, or Nil
  drawn,                  \* what was drawn for each policy looked at
  chain,                  \* the plugins of the request
  todo,                   \* the names whose plugin has not run in this phase
  consumer,               \* PluginContext.ConsumerID
  keys,                   \* the credentials the request still carries
  ran,                    \* the plugins that ran: phase, attempt, entry, consumer
  refusal,                \* the status a plugin refused with, or Nil
  attempt,                \* the attempts that began
  recorded,               \* the calls of recordRequest
  status                  \* the answer, or Nil

routing == <<routeAt, policyAt, effective, hit, drawn>>
plugins == <<chain, todo, consumer, keys, ran, refusal>>
vars == <<snap, req, pc, routing, plugins, attempt, recorded, status>>

Statuses == {200, 500, 502}
RetryableStatuses == {502, 503, 504}
Upper(verb) == [verb |-> verb, upper |-> TRUE]
RetryableMethods == {Upper("GET"), Upper("HEAD")}
MaxRetries == 2

Here == routeMatchers(snap)[routeAt]          \* the route that is looked at
Original == Here.service

Init ==
  /\ \E sc \in Scenarios : snap = sc[1] /\ req = sc[2]
  /\ pc = "route" /\ routeAt = 1 /\ policyAt = 1
  /\ effective = Nil /\ hit = Nil /\ drawn = <<>>
  /\ chain = <<>> /\ todo = <<>> /\ consumer = Nil /\ keys = req.keys
  /\ ran = <<>> /\ refusal = Nil
  /\ attempt = 0 /\ recorded = 0 /\ status = Nil

-----------------------------------------------------------------------------
(* MatchRoute *)

\* A route that does not match, or whose service is not in the snapshot, is
\* passed over.
SkipRoute ==
  /\ pc = "route" /\ routeAt <= Len(routeMatchers(snap))
  /\ ~Match(Here, req) \/ Original \notin DOMAIN snap.services
  /\ routeAt' = routeAt + 1
  /\ UNCHANGED <<snap, req, pc, policyAt, effective, hit, drawn, plugins, attempt, recorded, status>>

TakeRoute ==
  /\ pc = "route" /\ routeAt <= Len(routeMatchers(snap))
  /\ Match(Here, req) /\ Original \in DOMAIN snap.services
  /\ effective' = Original
  /\ pc' = "policy"
  /\ UNCHANGED <<snap, req, routeAt, policyAt, hit, drawn, plugins, attempt, recorded, status>>

NotFound ==
  /\ pc = "route" /\ routeAt > Len(routeMatchers(snap))
  /\ pc' = "done" /\ status' = 404 /\ recorded' = recorded + 1
  /\ UNCHANGED <<snap, req, routing, plugins, attempt>>

Policies == trafficPoliciesByRoute(snap, Here.id)

\* The conditions of a policy that draw a number.
Weights(c) ==
  IF c.type = "compound" THEN {k \in DOMAIN c.conditions : c.conditions[k].type = "weight"}
  ELSE {k \in {1} : c.type = "weight"}

\* One policy: the first that is enabled, holds and has a target in the
\* snapshot decides; any other is passed over.
TryPolicy ==
  /\ pc = "policy" /\ policyAt <= Len(Policies)
  /\ \E draws \in [Weights(Policies[policyAt].match) -> Draws] :
       LET p == Policies[policyAt]
           chosen == /\ p.enabled
                     /\ matchTrafficPolicy(p, snap, req, Original, draws)
                     /\ TargetOf(p) \in DOMAIN snap.services
       IN  /\ drawn' = Append(drawn, draws)
           /\ effective' = IF chosen THEN TargetOf(p) ELSE effective
           /\ hit' = IF chosen THEN p ELSE hit
           /\ policyAt' = policyAt + 1
           /\ pc' = IF chosen THEN "chain" ELSE "policy"
  /\ UNCHANGED <<snap, req, routeAt, plugins, attempt, recorded, status>>

NoPolicyLeft ==
  /\ pc = "policy" /\ policyAt > Len(Policies)
  /\ pc' = "chain"
  /\ UNCHANGED <<snap, req, routing, plugins, attempt, recorded, status>>

-----------------------------------------------------------------------------
(* The plugins *)

\* The chain is built with the effective service, as the plugin context is.
BuildChain ==
  /\ pc = "chain"
  /\ \E ofConsumers \in GetAllConsumerPlugins(snap) :
       LET built == BuildChainForRequest(snap, effective, Here.id, ofConsumers)
       IN  IF CanBuild(built)
             THEN /\ chain' = built /\ todo' = ForwardNames(built)
                  /\ pc' = "request"
                  /\ UNCHANGED <<recorded, status>>
             ELSE /\ pc' = "done" /\ status' = 500 /\ recorded' = recorded + 1
                  /\ UNCHANGED <<chain, todo>>
  /\ UNCHANGED <<snap, req, routing, consumer, keys, ran, refusal, attempt>>

Entry(name) == EntryFor(chain, name, effective, Here.id, consumer)

Ran(phase, entry) == Append(ran, [phase |-> phase, attempt |-> attempt, entry |-> entry, by |-> consumer])

\* What OnRequest of a plugin may do: go on, having recognised a consumer or not
\* and hidden credentials or not; refuse with an error; or answer itself and
\* short-circuit the request.
Goes(c, k) == [consumer |-> c, keys |-> k, refusal |-> Nil, next |-> "request"]
Ends(code, next) == [consumer |-> consumer, keys |-> keys, refusal |-> code, next |-> next]
Refuses(code) == Ends(code, "refuse")

Authenticated(entry, recognised, hidden) ==
  IF recognised # {}
    THEN {Goes(c, IF entry.hide THEN hidden ELSE keys) : c \in recognised}
    ELSE IF entry.anonymous THEN {Goes(consumer, keys)} ELSE {Refuses(401)}

KeyAuthOnRequest(entry) ==
  Authenticated(entry, KeyAuth(snap, entry, keys), hideKeys(entry, keys))

JWTAuthOnRequest(entry) ==
  IF req.method = Upper("OPTIONS") /\ ~entry.preflight
    THEN {Goes(consumer, keys)}
    ELSE Authenticated(entry, JWTAuth(snap, keys), hideToken(keys))

OnRequest(entry) ==
  CASE entry.name = "key-auth" -> KeyAuthOnRequest(entry)
    [] entry.name = "jwt-auth" -> JWTAuthOnRequest(entry)
    [] entry.name = "rate-limit" -> {Goes(consumer, keys), Refuses(429)}
    [] OTHER -> {Goes(consumer, keys)} \union
         (IF entry.name \in Fallible THEN {Refuses(500), Ends(200, "short")} ELSE {})

\* ExecuteOnRequest: the plugin of the next name.  A refusal is an error: the
\* chain stops, and the error phase follows.
RunOnRequest ==
  /\ pc = "request" /\ todo # <<>>
  /\ LET entry == Entry(Head(todo))
     IN  IF entry = Nil
           THEN /\ todo' = Tail(todo)
                /\ UNCHANGED <<pc, consumer, keys, ran, refusal>>
           ELSE \E out \in OnRequest(entry) :
                  /\ ran' = Ran("OnRequest", entry)
                  /\ consumer' = out.consumer /\ keys' = out.keys /\ refusal' = out.refusal
                  /\ pc' = out.next
                  /\ todo' = IF pc' = "refuse" THEN BackwardNames(chain) ELSE Tail(todo)
  /\ UNCHANGED <<snap, req, routing, chain, attempt, recorded, status>>

\* ExecuteOnResponse and ExecuteOnError: the plugin of the next name, which is
\* looked up anew; an error of it ends the phase.  What comes next is for the
\* caller to say.
RunPhase(phase, after, failed) ==
  LET entry == Entry(Head(todo))
      rest == Tail(todo)
  IN  \/ /\ entry = Nil
         /\ todo' = rest
         /\ ran' = ran
         /\ pc' = pc
      \/ /\ entry # Nil
         /\ ran' = Ran(phase, entry)
         /\ \/ todo' = rest /\ pc' = pc
            \/ entry.name \in Fallible /\ todo' = after /\ pc' = failed

\* OnError after a refusal; the result of the phase is dropped, and the client
\* gets what the plugin wrote, or an error of its own.
RunOnErrorRefused ==
  /\ pc = "refuse" /\ todo # <<>>
  /\ RunPhase("OnError", <<>>, "refuse")
  /\ UNCHANGED <<snap, req, routing, chain, consumer, keys, refusal, attempt, recorded, status>>

\* A rate limit is told from other errors for the counters only.
Refuse ==
  /\ pc = "refuse" /\ todo = <<>>
  /\ pc' = "done" /\ status' = refusal /\ recorded' = recorded + 1
  /\ UNCHANGED <<snap, req, routing, plugins, attempt>>

ShortCircuited ==
  /\ pc = "short"
  /\ pc' = "done" /\ status' = refusal /\ recorded' = recorded + 1
  /\ UNCHANGED <<snap, req, routing, plugins, attempt>>

EndOnRequest ==
  /\ pc = "request" /\ todo = <<>>
  /\ pc' = "send"
  /\ UNCHANGED <<snap, req, routing, plugins, attempt, recorded, status>>

-----------------------------------------------------------------------------
(* serveWithRetry *)

HasBalancer == CountHealthyTargets(snap, snap.services[effective].upstream) > 0

NoTarget ==
  /\ pc = "send"
  /\ ~HasBalancer /\ ~snap.services[effective].host
  /\ pc' = "done" /\ status' = 503 /\ recorded' = recorded + 1
  /\ UNCHANGED <<snap, req, routing, plugins, attempt>>

\* Mutant: every attempt begins with a new plugin context.
SendAnew ==
  /\ pc = "send"
  /\ HasBalancer \/ snap.services[effective].host
  /\ attempt' = attempt + 1 /\ consumer' = Nil
  /\ pc' = "wait"
  /\ UNCHANGED <<snap, req, routing, chain, todo, keys, ran, refusal, recorded, status>>

Send ==
  /\ pc = "send"
  /\ HasBalancer \/ snap.services[effective].host
  /\ attempt' = attempt + 1
  /\ pc' = "wait"
  /\ UNCHANGED <<snap, req, routing, plugins, recorded, status>>

\* The upstream answers and modifyResponse runs, or the connection fails and
\* errorHandler does (a client that gives up ends the attempt as well).
UpstreamAnswers ==
  /\ pc = "wait"
  /\ todo' = BackwardNames(chain)
  /\ \/ \E code \in Statuses : status' = code /\ pc' = "response"
     \/ status' = Nil /\ pc' = "error"
  /\ UNCHANGED <<snap, req, routing, chain, consumer, keys, ran, refusal, attempt, recorded>>

\* An error of a plugin makes an error of the response.
RunOnResponse ==
  /\ pc = "response" /\ todo # <<>>
  /\ RunPhase("OnResponse", BackwardNames(chain), "error")
  /\ UNCHANGED <<snap, req, routing, chain, consumer, keys, refusal, attempt, recorded, status>>

modifyResponse ==
  /\ pc = "response" /\ todo = <<>>
  /\ recorded' = recorded + 1
  /\ pc' = "copy"
  /\ UNCHANGED <<snap, req, routing, plugins, attempt, status>>

\* The reverse proxy has copied the whole body into the recovery writer; or the
\* body breaks off, and the handler is aborted before anything is written.
BodyEnds ==
  /\ pc = "copy"
  /\ \/ pc' = "answered" /\ status' = status
     \/ pc' = "aborted" /\ status' = Nil
  /\ UNCHANGED <<snap, req, routing, plugins, attempt, recorded>>

RunOnError ==
  /\ pc = "error" /\ todo # <<>>
  /\ RunPhase("OnError", <<>>, "error")
  /\ UNCHANGED <<snap, req, routing, chain, consumer, keys, refusal, attempt, recorded, status>>

errorHandler ==
  /\ pc = "error" /\ todo = <<>>
  /\ status' = 502 /\ recorded' = recorded + 1
  /\ pc' = "answered"
  /\ UNCHANGED <<snap, req, routing, plugins, attempt>>

shouldRetry ==
  /\ status \in RetryableStatuses
  /\ req.method \in RetryableMethods
  /\ attempt <= MaxRetries


Retry ==
  /\ pc = "answered" /\ shouldRetry
  /\ pc' = "send" /\ status' = Nil
  /\ UNCHANGED <<snap, req, routing, plugins, attempt, recorded>>

\* Mutant: the answer is recorded as well, as it is for a WebSocket.
AnswerRecords ==
  /\ pc = "answered" /\ ~shouldRetry
  /\ pc' = "done" /\ recorded' = recorded + 1
  /\ UNCHANGED <<snap, req, routing, plugins, attempt, status>>

Answer ==
  /\ pc = "answered" /\ ~shouldRetry
  /\ pc' = "done"
  /\ UNCHANGED <<snap, req, routing, plugins, attempt, recorded, status>>

Done == pc \in {"done", "aborted"} /\ UNCHANGED vars

ServeHTTP ==
  \/ SkipRoute \/ TakeRoute \/ NotFound \/ TryPolicy \/ NoPolicyLeft
  \/ BuildChain \/ RunOnRequest \/ EndOnRequest \/ ShortCircuited
  \/ RunOnErrorRefused \/ Refuse
  \/ NoTarget \/ Send \/ RunOnResponse \/ modifyResponse \/ RunOnError \/ errorHandler
  \/ Retry \/ Answer

Next == ServeHTTP \/ UpstreamAnswers \/ BodyEnds \/ Done

\* The goroutine of the request runs on; the upstream need not do anything, and
\* neither the reverse proxy nor the server of the data plane has a timeout.
Spec == Init /\ [][Next]_vars /\ WF_vars(ServeHTTP)

-----------------------------------------------------------------------------
(* Properties *)

Routed == pc \notin {"route", "policy"} /\ ~(pc = "done" /\ status = 404)

\* The policies of the route, and whether one applied with what was drawn for it.
Mine == {p \in snap.policies : p.route = Here.id}
Rank(p) == Cardinality({q \in Mine : q.priority <= p.priority})
LookedAt(p) == Rank(p) \in DOMAIN drawn
Applied(p) ==
  /\ LookedAt(p) /\ p.enabled
  /\ TargetOf(p) \in DOMAIN snap.services
  /\ matchTrafficPolicy(p, snap, req, Original, drawn[Rank(p)])

Serves(route) == route.enabled /\ route.service \in DOMAIN snap.services /\ Match(route, req)

\* A request goes where the snapshot says (snapshot.go, MatchRoute): its route is
\* the first enabled one of the list that matches and has a service, and of the
\* policies of that route the applicable one of the lowest priority decides, or
\* none applies; there is no route only when no enabled one matches.
RoutedRight ==
  /\ pc = "done" /\ status = 404 => \A route \in ToSet(snap.routes) : ~Serves(route)
  /\ Routed =>
       /\ \E k \in DOMAIN snap.routes :
            /\ Here = snap.routes[k] /\ Serves(Here)
            /\ \A l \in 1..(k - 1) : ~Serves(snap.routes[l])
       /\ IF hit = Nil
            THEN effective = Original /\ \A p \in Mine : LookedAt(p) /\ ~Applied(p)
            ELSE /\ hit \in Mine /\ Applied(hit) /\ effective = TargetOf(hit)
                 /\ \A p \in Mine : p.priority < hit.priority => LookedAt(p) /\ ~Applied(p)

\* The consumer a policy was chosen for is the one the request is then
\* authenticated as (snapshot.go, getConsumerIDFromRequest; key_auth.go,
\* OnRequest), whatever key names and places the plugins are configured with, when
\* the request carries a single key, in a place the policies know.
Single == Cardinality({place \in DOMAIN req.keys : req.keys[place] # Nil}) = 1

ConsumerAgrees ==
  /\ consumer # Nil /\ Single
  /\ \E place \in ToSet(KeyPlaces) : req.keys[place] # Nil
  /\ \A k \in DOMAIN ran : ran[k].entry.name # "jwt-auth"
  => getConsumerIDFromRequest(snap, req) = consumer

\* The same of a key in any place, which the code does not keep: key_names of
\* key-auth may be others than the ones the policies look for (key_auth.go:59-69,
\* snapshot.go:1342).
ConsumerAgreesAnywhere ==
  /\ consumer # Nil /\ Single
  /\ \A k \in DOMAIN ran : ran[k].entry.name # "jwt-auth"
  => getConsumerIDFromRequest(snap, req) = consumer

\* The plugins in force for a request by which a consumer is known.
InForce(by) ==
  {p \in ToSet(Stored(snap, Global, Nil)) \union ToSet(Stored(snap, Service, effective))
         \union ToSet(Stored(snap, Route, Here.id))
         \union (IF by = Nil THEN {} ELSE ToSet(Stored(snap, Consumer, by))) : p.enabled}

\* In no phase of an attempt does a plugin run twice, and what runs is the
\* configuration of the narrowest scope in force at that moment (chain.go,
\* ExecuteOnRequest, ExecuteOnResponse, ExecuteOnError).
NarrowestRan ==
  \A k \in DOMAIN ran :
    /\ ran[k].entry \in InForce(ran[k].by)
    /\ \A p \in InForce(ran[k].by) :
         p.name = ran[k].entry.name => ScopeOf(p) <= ScopeOf(ran[k].entry)
    /\ \A l \in 1..(k - 1) :
         <<ran[l].phase, ran[l].attempt, ran[l].entry.name>> #
         <<ran[k].phase, ran[k].attempt, ran[k].entry.name>>

\* Nothing is sent before every plugin in force has seen the request and none
\* has refused it (proxy.go, ServeHTTP).
NothingSkipped ==
  attempt > 0 =>
    /\ refusal = Nil
    /\ \A p \in InForce(Nil) : \E k \in DOMAIN ran :
         ran[k].phase = "OnRequest" /\ ran[k].entry.name = p.name

\* The response goes through the configuration that saw the request, unless
\* another consumer became known in between and a configuration of a consumer
\* takes the place of a wider one, or gives it back; that a consumer is known
\* is never forgotten (chain.go, ExecuteOnResponse).
SameUnlessConsumer ==
  \A k, l \in DOMAIN ran :
    /\ ran[k].phase = "OnRequest" /\ ran[l].phase # "OnRequest"
    /\ ran[k].entry.name = ran[l].entry.name
    => \/ ran[k].entry = ran[l].entry
       \/ /\ ran[l].by \notin {Nil, ran[k].by}
          /\ \E e \in {ran[k].entry, ran[l].entry} : ScopeOf(e) = Consumer

\* A request is recorded once for each attempt, and once when there is none
\* (proxy.go, recordRequest): an attempt that both answers and fails, in a
\* plugin, is not counted twice, nor lost when the body of its answer breaks off.
RecordedPerAttempt ==
  pc \in {"done", "aborted"} => recorded = IF attempt = 0 THEN 1 ELSE attempt


\* docs/MILESTONE11_TRAFFIC_SPLIT_DESIGN.md:37 and :279: a plugin of a service
\* belongs to the service of the route, wherever a policy sends the request.
ServiceScopeOfRoute ==
  \A k \in DOMAIN ran : ScopeOf(ran[k].entry) = Service => ran[k].entry.service = Original

\* docs/TAD.md:277: the configuration of a consumer overrides the wider ones of
\* the same name, whoever has run when the consumer becomes known.
ConsumerOverrides ==
  attempt > 0 =>
    \A k \in DOMAIN ran : \A p \in InForce(consumer) :
      p.name = ran[k].entry.name => ScopeOf(p) <= ScopeOf(ran[k].entry)
=============================================================================
