------------------------- MODULE ConfigDistribution -------------------------
(***************************************************************************)
(* How a published revision reaches the requests: the data planes poll the *)
(* control plane for the active revision, build it, and hand it to their   *)
(* HTTP, WebSocket and gRPC proxies.                                       *)
(*                                                                         *)
(* The control plane is ActiveRevision, which RevisionPublish implements.  *)
(* Every publish or rollback is appended to "log"; a data plane is         *)
(* described by positions in the log (0: no configuration), so that an     *)
(* older configuration can be told from a newer one.                       *)
(***************************************************************************)
EXTENDS Integers, Sequences

CONSTANTS
  DataPlanes,
  Scopes, Revisions, ScopeOf, NoRevision,   \* as in ActiveRevision
  Broken,       \* revisions whose snapshot buildConfigSnapshot or Build rejects
  MaxSwitches   \* bound: publishes and rollbacks

ASSUME ConstantsAssumption ==
  /\ Broken \subseteq Revisions
  /\ ScopeOf \in [Revisions -> Scopes]
  /\ NoRevision \notin Revisions
  /\ MaxSwitches \in Nat

VARIABLES
  current,   \* the active revision of every scope (ActiveRevision)
  log,       \* the switches made so far (history)
  latest,    \* latest[s] is the position of the last switch of scope s (history)
  pc,        \* where the consumer's goroutine is
  got,       \* the revision in the answer it has received
  snap, id,  \* currentSnapshot and currentRevisionID of the consumer
  live,      \* live[d][p]: the pointer of protocol p, which a request loads once
  asked,     \* what a running GET /revision has read as currentRevisionID
  report     \* the revision id and the snapshot of the last answer to it

vars == <<current, log, latest, pc, got, snap, id, live, asked, report>>
cpVars == <<current, log, latest>>
dpVars == <<got, snap, id, live, asked, report>>

CP == INSTANCE ActiveRevision

Protocols == {"http", "websocket", "grpc"}
None == 0
Idle == -1   \* no GET /revision is running
Indices == 0..Len(log)
RevisionAt(i) == IF i = None THEN NoRevision ELSE log[i]

PCs == {"down", "idle", "sent", "answered", "build", "storeID", "swap",
        "swapWebSocket", "swapGRPC"}
Applying == {"build", "storeID", "swap", "swapWebSocket", "swapGRPC"}

TypeOK ==
  /\ CP!TypeOK
  /\ log \in Seq(Revisions)
  /\ latest \in [Scopes -> Indices]
  /\ pc \in [DataPlanes -> PCs]
  /\ got \in [DataPlanes -> Indices]
  /\ snap \in [DataPlanes -> Indices] /\ id \in [DataPlanes -> Indices]
  /\ live \in [DataPlanes -> [Protocols -> Indices]]
  /\ asked \in [DataPlanes -> Indices \cup {Idle}]
  /\ report \in [DataPlanes -> [id : Indices, snap : Indices]]
  /\ \A d \in DataPlanes : (got[d] # None) => pc[d] \notin {"down", "idle", "sent"}
  /\ \A d \in DataPlanes : pc[d] \in Applying => got[d] # None

Init ==
  /\ CP!Init
  /\ log = << >>
  /\ latest = [s \in Scopes |-> None]
  /\ pc = [d \in DataPlanes |-> "down"]
  /\ got = [d \in DataPlanes |-> None]
  /\ snap = [d \in DataPlanes |-> None] /\ id = [d \in DataPlanes |-> None]
  /\ live = [d \in DataPlanes |-> [p \in Protocols |-> None]]
  /\ asked = [d \in DataPlanes |-> Idle]
  /\ report = [d \in DataPlanes |-> [id |-> None, snap |-> None]]

Up(d) == pc[d] # "down"

GoTo(d, label) == pc' = [pc EXCEPT ![d] = label]

-----------------------------------------------------------------------------
\* A publish or a rollback takes effect at the control plane.
Switch(v) ==
  /\ Len(log) < MaxSwitches
  /\ CP!Switch(v)
  /\ log' = Append(log, v)
  /\ latest' = [latest EXCEPT ![ScopeOf[v]] = Len(log) + 1]
  /\ UNCHANGED <<pc, dpVars>>

\* A data plane starts: Start fetches once, before the poll loop and the server.
Boot(d) ==
  /\ pc[d] = "down"
  /\ GoTo(d, "sent")
  /\ UNCHANGED <<cpVars, dpVars>>

\* The ticker fires, or TriggerUpdate was called: the next fetch.  There is one
\* loop, so fetches never overlap.
Poll(d) ==
  /\ pc[d] = "idle"
  /\ GoTo(d, "sent")
  /\ UNCHANGED <<cpVars, dpVars>>

\* Mutant of Answer: the revision is read from a replica that lags behind.
AnswerStale(d) ==
  /\ pc[d] = "sent"
  /\ \E i \in Indices : got' = [got EXCEPT ![d] = i]
  /\ GoTo(d, "answered")
  /\ UNCHANGED <<cpVars, snap, id, live, asked, report>>

\* The control plane reads the active revision, of whichever scope the database
\* returns first, or answers 404 when no scope has one.
Answer(d) ==
  /\ pc[d] = "sent"
  /\ LET found == {s \in Scopes : current[s] # NoRevision}
     IN \/ found = {} /\ got' = [got EXCEPT ![d] = None]
        \/ \E s \in found : got' = [got EXCEPT ![d] = latest[s]]
  /\ GoTo(d, "answered")
  /\ UNCHANGED <<cpVars, snap, id, live, asked, report>>

\* Mutant of FetchFails: the error ends the poll loop.
FetchFailsForGood(d) ==
  /\ pc[d] \in {"sent", "answered"}
  /\ got' = [got EXCEPT ![d] = None]
  /\ GoTo(d, "stopped")
  /\ UNCHANGED <<cpVars, snap, id, live, asked, report>>

\* No answer, an error status or an undecodable body: the configuration stays.
FetchFails(d) ==
  /\ pc[d] \in {"sent", "answered"}
  /\ got' = [got EXCEPT ![d] = None]
  /\ GoTo(d, "idle")
  /\ UNCHANGED <<cpVars, snap, id, live, asked, report>>

\* 404, or the revision it already has: nothing to do.
Skip(d) ==
  /\ pc[d] = "answered"
  /\ RevisionAt(got[d]) \in {NoRevision, RevisionAt(id[d])}
  /\ got' = [got EXCEPT ![d] = None]
  /\ GoTo(d, "idle")
  /\ UNCHANGED <<cpVars, snap, id, live, asked, report>>

\* Mutant of TakeUp: the id is stored before the snapshot.
TakeUpWithID(d) ==
  /\ pc[d] = "answered"
  /\ RevisionAt(got[d]) \notin {NoRevision, RevisionAt(id[d])}
  /\ id' = [id EXCEPT ![d] = got[d]]
  /\ GoTo(d, "build")
  /\ UNCHANGED <<cpVars, got, snap, live, asked, report>>

TakeUp(d) ==
  /\ pc[d] = "answered"
  /\ RevisionAt(got[d]) \notin {NoRevision, RevisionAt(id[d])}
  /\ GoTo(d, "build")
  /\ UNCHANGED <<cpVars, dpVars>>

\* Mutant of Reject: the proxies are handed an empty configuration.
RejectClears(d) ==
  /\ pc[d] = "build" /\ RevisionAt(got[d]) \in Broken
  /\ got' = [got EXCEPT ![d] = None]
  /\ live' = [live EXCEPT ![d] = [p \in Protocols |-> None]]
  /\ GoTo(d, "idle")
  /\ UNCHANGED <<cpVars, snap, id, asked, report>>

\* Build fails: the old configuration stays.  validateSnapshot only warns.
Reject(d) ==
  /\ pc[d] = "build" /\ RevisionAt(got[d]) \in Broken
  /\ got' = [got EXCEPT ![d] = None]
  /\ GoTo(d, "idle")
  /\ UNCHANGED <<cpVars, snap, id, live, asked, report>>

\* Mutant of StoreSnapshot: the error of Build is ignored.
StoreSnapshotUnbuilt(d) ==
  /\ pc[d] = "build"
  /\ snap' = [snap EXCEPT ![d] = got[d]]
  /\ GoTo(d, "storeID")
  /\ UNCHANGED <<cpVars, got, id, live, asked, report>>

StoreSnapshot(d) ==
  /\ pc[d] = "build" /\ RevisionAt(got[d]) \notin Broken
  /\ snap' = [snap EXCEPT ![d] = got[d]]
  /\ GoTo(d, "storeID")
  /\ UNCHANGED <<cpVars, got, id, live, asked, report>>

StoreID(d) ==
  /\ pc[d] = "storeID"
  /\ id' = [id EXCEPT ![d] = got[d]]
  /\ GoTo(d, "swap")
  /\ UNCHANGED <<cpVars, got, snap, live, asked, report>>

\* Proxy.UpdateSnapshot: three atomic pointers, one after the other.
Swap(d, p, from, to) ==
  /\ pc[d] = from
  /\ live' = [live EXCEPT ![d][p] = got[d]]
  /\ GoTo(d, to)
  /\ UNCHANGED <<cpVars, snap, id, asked, report>>

SwapHTTP(d)      == Swap(d, "http", "swap", "swapWebSocket") /\ UNCHANGED got
SwapWebSocket(d) == Swap(d, "websocket", "swapWebSocket", "swapGRPC") /\ UNCHANGED got
SwapGRPC(d)      == Swap(d, "grpc", "swapGRPC", "idle") /\ got' = [got EXCEPT ![d] = None]

-----------------------------------------------------------------------------
\* GET /revision reads the id, and then the snapshot it takes the counts from.
AskRevision(d) ==
  /\ Up(d) /\ asked[d] = Idle
  /\ asked' = [asked EXCEPT ![d] = id[d]]
  /\ UNCHANGED <<cpVars, pc, got, snap, id, live, report>>

AnswerRevision(d) ==
  /\ Up(d) /\ asked[d] # Idle
  /\ report' = [report EXCEPT ![d] = [id |-> asked[d], snap |-> snap[d]]]
  /\ asked' = [asked EXCEPT ![d] = Idle]
  /\ UNCHANGED <<cpVars, pc, got, snap, id, live>>

\* The process ends, by a crash or after Stop; nothing of a data plane is stored.
Exit(d) ==
  /\ Up(d)
  /\ GoTo(d, "down")
  /\ got' = [got EXCEPT ![d] = None]
  /\ snap' = [snap EXCEPT ![d] = None]
  /\ id' = [id EXCEPT ![d] = None]
  /\ live' = [live EXCEPT ![d] = [p \in Protocols |-> None]]
  /\ asked' = [asked EXCEPT ![d] = Idle]
  /\ report' = [report EXCEPT ![d] = [id |-> None, snap |-> None]]
  /\ UNCHANGED cpVars

\* The consumer goroutine past the select.
Consume(d) ==
  \/ Skip(d) \/ TakeUp(d) \/ Reject(d)
  \/ StoreSnapshot(d) \/ StoreID(d)
  \/ SwapHTTP(d) \/ SwapWebSocket(d) \/ SwapGRPC(d)

Next ==
  \/ \E v \in Revisions : Switch(v)
  \/ \E d \in DataPlanes :
       \/ Boot(d) \/ Poll(d) \/ Answer(d) \/ FetchFails(d) \/ Consume(d)
       \/ AskRevision(d) \/ AnswerRevision(d) \/ Exit(d)

Spec == Init /\ [][Next]_vars

\* A running goroutine goes on, the ticker fires again, and fetches do not fail
\* for ever: an answer that is possible again and again is received some time.
Fairness ==
  \A d \in DataPlanes :
    /\ WF_vars(Boot(d)) /\ WF_vars(Poll(d)) /\ SF_vars(Answer(d))
    /\ SF_vars(Consume(d))

FairSpec == Spec /\ Fairness

-----------------------------------------------------------------------------
(* The inductive invariants the proofs rest on.                            *)

\* What is being handed to the proxies is the snapshot that was stored.
HandOverInv ==
  \A d \in DataPlanes : pc[d] \in Applying \ {"build"} => snap[d] = got[d]

\* With a single scope nothing a data plane holds is newer than its snapshot, nor
\* its snapshot newer than the answer it works on.
OrderInv ==
  /\ \A s \in Scopes : latest[s] = Len(log)
  /\ \A d \in DataPlanes :
       /\ got[d] # None => got[d] >= snap[d]
       /\ id[d] <= snap[d] /\ asked[d] <= snap[d]
       /\ \A p \in Protocols : live[d][p] <= snap[d]

-----------------------------------------------------------------------------
(* What must hold.                                                         *)

\* Requests are only ever routed by a revision the data plane could build: a
\* broken one, or the part of one, is never stored or handed to a proxy.
NeverServesBroken ==
  \A d \in DataPlanes :
    /\ RevisionAt(snap[d]) \notin Broken
    /\ \A p \in Protocols : RevisionAt(live[d][p]) \notin Broken

\* NeverServesBroken, strengthened until every step preserves it.
BuildInv == TypeOK /\ HandOverInv /\ NeverServesBroken

\* A running data plane keeps a configuration once it has one: failed fetches,
\* 404 answers and broken revisions leave the old one in place.
ConfigKept ==
  [][\A d \in DataPlanes, p \in Protocols :
       live[d][p] # None /\ pc'[d] # "down" => live'[d][p] # None]_vars

\* With a single scope no data plane goes back: what a proxy routes by is never
\* replaced by a revision that an earlier switch activated, since fetches do not
\* overlap and every answer is read from the database after the previous one.
AppliedInOrder ==
  [][\A d \in DataPlanes, p \in Protocols :
       pc'[d] # "down" => live'[d][p] >= live[d][p]]_vars

\* GET /revision never counts the services of an older configuration than the one
\* it names: the snapshot is stored before the id, and read after it.
ReportNotStale ==
  \A d \in DataPlanes : report[d].snap >= report[d].id

\* ReportNotStale and AppliedInOrder, strengthened until every step preserves them.
FreshInv == OrderInv /\ ReportNotStale

\* Once the control plane stays with a revision that can be built, a data plane
\* that stays up ends up routing every protocol by it.
Converges ==
  \A d \in DataPlanes, s \in Scopes, v \in Revisions \ Broken :
    <>[](current[s] = v /\ Up(d)) =>
      <>[](\A p \in Protocols : RevisionAt(live[d][p]) = v)
=============================================================================
