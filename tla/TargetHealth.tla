---------------------------- MODULE TargetHealth ----------------------------
(***************************************************************************)
(* Passive and active health checks, the circuit breaker and the retries   *)
(* of one upstream: how the proxy's goroutines choose a target, and how    *)
(* they and the active checker record what it answered.                    *)
(*                                                                         *)
(* HealthManager's mutex guards its maps only: a TargetHealth is read and  *)
(* written by every goroutine without a lock, one field at a time.  So a   *)
(* goroutine is described by "todo", the operations it has yet to do, and  *)
(* each step does the first of them, one write or one comparison, and may  *)
(* put more in front of the rest.                                          *)
(*                                                                         *)
(* A target works for requests and probes alike (up), although a probe     *)
(* asks for HTTPPath, by https when certificates are verified, and counts  *)
(* a 2xx only: where they differ, the checks eject and recover by what     *)
(* answers the probe.                                                      *)
(***************************************************************************)
EXTENDS Integers, Sequences

CONSTANTS
  NTargets,           \* the targets of the upstream, in the balancer's order
  Flaky,              \* those that may break down
  Workers, Probes,    \* goroutines that serve requests, and checkTarget's
  Registered,         \* TRUE: RegisterUpstream was called for the upstream
  ActiveCheck,        \* ActiveCheck.Enabled
  HealthPlugin,       \* TRUE: the health-check plugin is in the chain as well
  UnhealthyThreshold, HealthyThreshold, FailureThreshold,
  HalfOpenSuccessThreshold,
  RecoveryTime, Interval,   \* in ticks
  Methods,            \* bound on the requests: "GET" (or HEAD), "POST" (or any other)
  MaxAttempts         \* attempts of one request (3)

Targets == 1..NTargets
Goroutines == Workers \cup Probes

ASSUME ConstantsAssumption ==
  /\ NTargets \in Nat \ {0} /\ Flaky \subseteq Targets
  /\ Workers \cap Probes = {}
  /\ Registered \in BOOLEAN /\ ActiveCheck \in BOOLEAN /\ HealthPlugin \in BOOLEAN
  /\ UnhealthyThreshold \in Nat \ {0} /\ HealthyThreshold \in Nat \ {0}
  /\ FailureThreshold \in Nat \ {0} /\ HalfOpenSuccessThreshold \in Nat \ {0}
  /\ RecoveryTime \in Nat \ {0} /\ Interval \in Nat \ {0}
  /\ Methods \subseteq {"GET", "POST"}
  /\ MaxAttempts \in Nat \ {0}

VARIABLES
  errors, successes,   \* ConsecutiveErrors and ConsecutiveSuccesses
  status, circuit,     \* Status and CircuitState
  since,               \* ticks since LastStateChangeAt
  quiet,               \* ticks since LastCheckedAt
  openFor,             \* ticks since the circuit was last set to open (history)
  up,                  \* whether the target works (environment)
  cursor,              \* the balancer's next index
  todo,                \* what a goroutine has yet to do
  target,              \* the target it is asking, calling or recording
  refused,             \* targets that were refused in this selection, in order
  method, sent         \* a request's method, and how often it was sent

healthVars == <<errors, successes, status, circuit, since, quiet, openFor>>
callVars == <<target, refused, method, sent>>
vars == <<healthVars, up, cursor, todo, callVars>>

AtMost(bound, n) == IF n < bound THEN n ELSE bound

\* Counters and clocks are capped where no comparison can tell values apart.
ErrorCap   == IF UnhealthyThreshold > FailureThreshold THEN UnhealthyThreshold
                                                       ELSE FailureThreshold
SuccessCap == IF HealthyThreshold > HalfOpenSuccessThreshold THEN HealthyThreshold
                                                   ELSE HalfOpenSuccessThreshold

Ops == {"next", "askCircuit", "askStatus", "recoverState", "recoverTime", "halfOpen",
        "refuse", "call", "clearErrors", "countSuccess", "passiveSuccess",
        "breakerSuccess", "clearSuccesses", "countError", "passiveError",
        "breakerError", "close", "open", "heal", "sicken", "stamp", "retry", "probe"}

TypeOK ==
  /\ errors \in [Targets -> 0..ErrorCap] /\ successes \in [Targets -> 0..SuccessCap]
  /\ status \in [Targets -> {"healthy", "unhealthy"}]
  /\ circuit \in [Targets -> {"closed", "open", "half-open"}]
  /\ since \in [Targets -> 0..RecoveryTime] /\ openFor \in [Targets -> 0..RecoveryTime]
  /\ quiet \in [Targets -> 0..Interval]
  /\ up \in [Targets -> BOOLEAN]
  /\ cursor \in Targets
  /\ todo \in [Goroutines -> Seq(Ops)]
  /\ target \in [Goroutines -> Targets]
  /\ refused \in [Goroutines -> Seq(Targets)]
  /\ method \in [Goroutines -> {"GET", "POST"}]
  /\ sent \in [Goroutines -> 0..MaxAttempts]

\* NewTargetHealth; its times are zero, that is, long ago.
Init ==
  /\ errors = [t \in Targets |-> 0] /\ successes = [t \in Targets |-> 0]
  /\ status = [t \in Targets |-> "healthy"] /\ circuit = [t \in Targets |-> "closed"]
  /\ since = [t \in Targets |-> RecoveryTime] /\ openFor = [t \in Targets |-> RecoveryTime]
  /\ quiet = [t \in Targets |-> Interval]
  /\ up = [t \in Targets |-> TRUE]
  /\ cursor = 1
  /\ todo = [g \in Goroutines |-> << >>]
  /\ target = [g \in Goroutines |-> 1]
  /\ refused = [g \in Goroutines |-> << >>]
  /\ method = [g \in Goroutines |-> "GET"]
  /\ sent = [g \in Goroutines |-> 0]

Idle(g) == todo[g] = << >>

At(g, op) == ~Idle(g) /\ Head(todo[g]) = op

\* The first operation is done, the operations in more come next.
Then(g, more) == todo' = [todo EXCEPT ![g] = more \o Tail(@)]

ThenIf(g, condition, more) == Then(g, IF condition THEN more ELSE << >>)

\* Mutant of RecordError: the thresholds are compared before the error is counted.
RecordErrorLate == <<"clearSuccesses", "passiveError", "breakerError", "countError">>

\* HealthManager.RecordSuccess and RecordError; the plugin calls them once more.
RecordSuccess == <<"clearErrors", "countSuccess", "passiveSuccess", "breakerSuccess">>
RecordError   == <<"clearSuccesses", "countError", "passiveError", "breakerError">>
Recorded(ok) == IF ok THEN RecordSuccess ELSE RecordError

RecordedInChain(ok) == IF HealthPlugin THEN Recorded(ok) \o Recorded(ok) ELSE Recorded(ok)

-----------------------------------------------------------------------------
(* TargetHealth: one field at a time.                                      *)

ClearErrors(g) ==
  /\ At(g, "clearErrors")
  /\ errors' = [errors EXCEPT ![target[g]] = 0]
  /\ Then(g, << >>)
  /\ UNCHANGED <<successes, status, circuit, since, quiet, openFor, up, cursor, callVars>>

ClearSuccesses(g) ==
  /\ At(g, "clearSuccesses")
  /\ successes' = [successes EXCEPT ![target[g]] = 0]
  /\ Then(g, << >>)
  /\ UNCHANGED <<errors, status, circuit, since, quiet, openFor, up, cursor, callVars>>

CountSuccess(g) ==
  /\ At(g, "countSuccess")
  /\ successes' = [successes EXCEPT ![target[g]] = AtMost(SuccessCap, @ + 1)]
  /\ quiet' = [quiet EXCEPT ![target[g]] = 0]
  /\ Then(g, << >>)
  /\ UNCHANGED <<errors, status, circuit, since, openFor, up, cursor, callVars>>

CountError(g) ==
  /\ At(g, "countError")
  /\ errors' = [errors EXCEPT ![target[g]] = AtMost(ErrorCap, @ + 1)]
  /\ quiet' = [quiet EXCEPT ![target[g]] = 0]
  /\ Then(g, << >>)
  /\ UNCHANGED <<successes, status, circuit, since, openFor, up, cursor, callVars>>

\* SetStatus and SetCircuitState: the time of the change is written after it.
\* Comparing and writing are one step here: between the two, another goroutine
\* could at most write the same value, and the time would be written twice.
SetStatus(g, op, value) ==
  /\ At(g, op)
  /\ status' = [status EXCEPT ![target[g]] = value]
  /\ ThenIf(g, status[target[g]] # value, <<"stamp">>)
  /\ UNCHANGED <<errors, successes, circuit, since, quiet, openFor, up, cursor, callVars>>

Heal(g)   == SetStatus(g, "heal", "healthy")
Sicken(g) == SetStatus(g, "sicken", "unhealthy")

\* Mutant of SetCircuitState: the time of the change is not written.
SetCircuitStateOnly(g, op, value) ==
  /\ At(g, op)
  /\ circuit' = [circuit EXCEPT ![target[g]] = value]
  /\ openFor' = [openFor EXCEPT ![target[g]] = IF value = "open" THEN 0 ELSE @]
  /\ Then(g, << >>)
  /\ UNCHANGED <<errors, successes, status, since, quiet, up, cursor, callVars>>

SetCircuitState(g, op, value) ==
  /\ At(g, op)
  /\ circuit' = [circuit EXCEPT ![target[g]] = value]
  /\ openFor' = [openFor EXCEPT ![target[g]] = IF value = "open" THEN 0 ELSE @]
  /\ ThenIf(g, circuit[target[g]] # value, <<"stamp">>)
  /\ UNCHANGED <<errors, successes, status, since, quiet, up, cursor, callVars>>

Close(g)    == SetCircuitState(g, "close", "closed")
Open(g)     == SetCircuitState(g, "open", "open")
HalfOpen(g) == SetCircuitState(g, "halfOpen", "half-open")

Stamp(g) ==
  /\ At(g, "stamp")
  /\ since' = [since EXCEPT ![target[g]] = 0]
  /\ Then(g, << >>)
  /\ UNCHANGED <<errors, successes, status, circuit, quiet, openFor, up, cursor, callVars>>

-----------------------------------------------------------------------------
(* What is decided by the fields.                                          *)

\* A step that only reads, and goes on with more if the condition holds.
Decide(g, op, condition, more) ==
  /\ At(g, op)
  /\ ThenIf(g, condition, more)
  /\ UNCHANGED <<healthVars, up, cursor, callVars>>

PassiveSuccess(g) ==
  Decide(g, "passiveSuccess",
         /\ Registered /\ successes[target[g]] >= HealthyThreshold
         /\ status[target[g]] = "unhealthy", <<"heal">>)

BreakerSuccess(g) ==
  Decide(g, "breakerSuccess",
         /\ Registered /\ circuit[target[g]] = "half-open"
         /\ successes[target[g]] >= HalfOpenSuccessThreshold, <<"close", "heal">>)

PassiveError(g) ==
  Decide(g, "passiveError",
         Registered /\ errors[target[g]] >= UnhealthyThreshold, <<"sicken">>)

BreakerError(g) ==
  Decide(g, "breakerError",
         /\ Registered
         /\ \/ circuit[target[g]] = "half-open"
            \/ circuit[target[g]] = "closed" /\ errors[target[g]] >= FailureThreshold,
         <<"open">>)

\* ShouldAllowRequest reads the circuit, then the status, and asks
\* CheckCircuitRecovery about an open circuit.
AskCircuit(g) ==
  /\ At(g, "askCircuit")
  /\ Then(g, IF circuit[target[g]] = "open" THEN <<"recoverState">> ELSE <<"askStatus">>)
  /\ UNCHANGED <<healthVars, up, cursor, callVars>>

AskStatus(g) ==
  /\ At(g, "askStatus")
  /\ Then(g, IF status[target[g]] = "unhealthy" THEN <<"refuse">> ELSE <<"call">>)
  /\ UNCHANGED <<healthVars, up, cursor, callVars>>

RecoverState(g) ==
  /\ At(g, "recoverState")
  /\ Then(g, IF Registered /\ circuit[target[g]] = "open" THEN <<"recoverTime">>
                                                          ELSE <<"refuse">>)
  /\ UNCHANGED <<healthVars, up, cursor, callVars>>

\* LastStateChangeAt is several words long: while it is being written, what is
\* read is anything.
BeingStamped(t) == \E g \in Goroutines : At(g, "stamp") /\ target[g] = t

RecoverTime(g) ==
  /\ At(g, "recoverTime")
  /\ \/ /\ since[target[g]] >= RecoveryTime \/ BeingStamped(target[g])
        /\ Then(g, <<"halfOpen", "clearErrors", "clearSuccesses", "call">>)
     \/ /\ since[target[g]] < RecoveryTime \/ BeingStamped(target[g])
        /\ Then(g, <<"refuse">>)
  /\ UNCHANGED <<healthVars, up, cursor, callVars>>

-----------------------------------------------------------------------------
(* A request: ServeHTTP, serveWithRetry, selectHealthyTarget.              *)

Arrive(w, m) ==
  /\ Idle(w)
  /\ todo' = [todo EXCEPT ![w] = <<"next">>]
  /\ method' = [method EXCEPT ![w] = m]
  /\ sent' = [sent EXCEPT ![w] = 0]
  /\ UNCHANGED <<healthVars, up, cursor, target, refused>>

\* The primary target is the next one of the balancer, which counts round.
Following(t) == IF t = NTargets THEN 1 ELSE t + 1

PickPrimary(w) ==
  /\ At(w, "next")
  /\ cursor' = Following(cursor)
  /\ target' = [target EXCEPT ![w] = cursor]
  /\ refused' = [refused EXCEPT ![w] = << >>]
  /\ Then(w, <<"askCircuit">>)
  /\ UNCHANGED <<healthVars, up, method, sent>>

Refused(w, t) == \E i \in 1..Len(refused[w]) : refused[w][i] = t

\* Targets that have not been asked yet in this selection.
Untried(w) == {t \in Targets : ~Refused(w, t)} \ {target[w]}

\* Mutant of Refuse: no other target is asked.
RefuseAtOnce(w) ==
  /\ At(w, "refuse")
  /\ refused' = [refused EXCEPT ![w] = Append(@, target[w])]
  /\ target' = [target EXCEPT ![w] = refused'[w][1]]
  /\ Then(w, <<"call">>)
  /\ UNCHANGED <<healthVars, up, cursor, method, sent>>

\* The other targets are asked in their order; if all refuse, the primary target,
\* which was asked first, is called nevertheless.
Refuse(w) ==
  /\ At(w, "refuse")
  /\ refused' = [refused EXCEPT ![w] = Append(@, target[w])]
  /\ \/ /\ Untried(w) = {}
        /\ target' = [target EXCEPT ![w] = refused'[w][1]]
        /\ Then(w, <<"call">>)
     \/ \E t \in Untried(w) :
          /\ \A u \in Untried(w) : t <= u
          /\ target' = [target EXCEPT ![w] = t]
          /\ Then(w, <<"askCircuit">>)
  /\ UNCHANGED <<healthVars, up, cursor, method, sent>>

\* The reverse proxy has the answer: success, 500, or an error that may be tried
\* again (502, 503, 504; a transport error becomes 502).
Call(w) ==
  /\ At(w, "call")
  /\ sent' = [sent EXCEPT ![w] = @ + 1]
  /\ \/ up[target[w]] /\ Then(w, RecordedInChain(TRUE))
     \/ ~up[target[w]] /\ Then(w, RecordedInChain(FALSE))
     \/ ~up[target[w]] /\ Then(w, Append(RecordedInChain(FALSE), "retry"))
  /\ UNCHANGED <<healthVars, up, cursor, target, refused, method>>

\* A mutant of Retry: any method is tried again.
RetryAnyMethod(w) == Decide(w, "retry", sent[w] < MaxAttempts, <<"next">>)

\* After a backoff the target is selected anew.
Retry(w) == Decide(w, "retry", sent[w] < MaxAttempts /\ method[w] = "GET", <<"next">>)

-----------------------------------------------------------------------------
(* The active checker, time, and the targets themselves.                   *)

\* Mutant of Check: targets that were taken out are not checked any more.
CheckHealthy(p, t) ==
  /\ Idle(p)
  /\ Registered /\ ActiveCheck /\ quiet[t] >= Interval /\ status[t] = "healthy"
  /\ todo' = [todo EXCEPT ![p] = <<"probe">>]
  /\ target' = [target EXCEPT ![p] = t]
  /\ UNCHANGED <<healthVars, up, cursor, refused, method, sent>>

\* checkAllTargets starts a check of a target that nothing was recorded of for
\* Interval; it does not know of a check that is still running.
Check(p, t) ==
  /\ Idle(p)
  /\ Registered /\ ActiveCheck /\ quiet[t] >= Interval
  /\ todo' = [todo EXCEPT ![p] = <<"probe">>]
  /\ target' = [target EXCEPT ![p] = t]
  /\ UNCHANGED <<healthVars, up, cursor, refused, method, sent>>

\* Mutant of ProbeAnswered: any answer is a success, whatever its status.
ProbeAnsweredBlindly(p) ==
  /\ At(p, "probe")
  /\ Then(p, Recorded(TRUE))
  /\ UNCHANGED <<healthVars, up, cursor, callVars>>

ProbeAnswered(p) ==
  /\ At(p, "probe")
  /\ Then(p, Recorded(up[target[p]]))
  /\ UNCHANGED <<healthVars, up, cursor, callVars>>

Tick ==
  /\ since' = [t \in Targets |-> AtMost(RecoveryTime, since[t] + 1)]
  /\ openFor' = [t \in Targets |-> AtMost(RecoveryTime, openFor[t] + 1)]
  /\ quiet' = [t \in Targets |-> AtMost(Interval, quiet[t] + 1)]
  /\ <<since, openFor, quiet>>' # <<since, openFor, quiet>>
  /\ UNCHANGED <<errors, successes, status, circuit, up, cursor, todo, callVars>>

Break(t) ==
  /\ t \in Flaky /\ up[t]
  /\ up' = [up EXCEPT ![t] = FALSE]
  /\ UNCHANGED <<healthVars, cursor, todo, callVars>>

Repair(t) ==
  /\ ~up[t]
  /\ up' = [up EXCEPT ![t] = TRUE]
  /\ UNCHANGED <<healthVars, cursor, todo, callVars>>

-----------------------------------------------------------------------------
Record(g) ==
  \/ ClearErrors(g) \/ CountSuccess(g) \/ PassiveSuccess(g) \/ BreakerSuccess(g)
  \/ ClearSuccesses(g) \/ CountError(g) \/ PassiveError(g) \/ BreakerError(g)
  \/ Close(g) \/ Open(g) \/ HalfOpen(g) \/ Heal(g) \/ Sicken(g) \/ Stamp(g)

Select(g) ==
  \/ PickPrimary(g) \/ AskCircuit(g) \/ AskStatus(g)
  \/ RecoverState(g) \/ RecoverTime(g) \/ Refuse(g)

Run(g) == Select(g) \/ Call(g) \/ Retry(g) \/ ProbeAnswered(g) \/ Record(g)

Next ==
  \/ \E g \in Goroutines : Run(g)
  \/ \E w \in Workers, m \in Methods : Arrive(w, m)
  \/ \E p \in Probes, t \in Targets : Check(p, t)
  \/ Tick
  \/ \E t \in Targets : Break(t) \/ Repair(t)

Spec == Init /\ [][Next]_vars

\* Goroutines run, time passes, requests keep coming, and the checker, which
\* starts a goroutine for each target that is due, passes no target over for ever.
Fairness ==
  /\ \A g \in Goroutines : WF_vars(Run(g))
  /\ \A w \in Workers : WF_vars(\E m \in Methods : Arrive(w, m))
  /\ \A t \in Targets : SF_vars(\E p \in Probes : Check(p, t))
  /\ WF_vars(Tick)

FairSpec == Spec /\ Fairness

-----------------------------------------------------------------------------
(* What must hold.                                                         *)

\* Nobody is asking or recording the target, or about to.
Settled(t) == \A g \in Goroutines : Idle(g) \/ target[g] # t \/ At(g, "next")

\* Once everything about a target is recorded its state agrees with its counters:
\* as many errors as the threshold make it unhealthy and do not leave its circuit
\* closed; as many successes make it healthy and do not leave its circuit half-open.
StateFollowsCounters ==
  Registered => \A t \in Targets : Settled(t) =>
    /\ errors[t] >= UnhealthyThreshold => status[t] = "unhealthy"
    /\ errors[t] >= FailureThreshold => circuit[t] # "closed"
    /\ successes[t] >= HealthyThreshold => status[t] = "healthy"
    /\ successes[t] >= HalfOpenSuccessThreshold => circuit[t] # "half-open"

\* An open circuit stays open for RecoveryTime, and then becomes half-open first.
OpenLasts ==
  [][\A t \in Targets : circuit[t] = "open" /\ circuit'[t] # "open" =>
       circuit'[t] = "half-open" /\ openFor[t] >= RecoveryTime]_vars

\* A request goes to a target that refused it only after every target refused it.
RefusedOnlyWithoutChoice ==
  \A w \in Workers : At(w, "call") /\ Refused(w, target[w]) =>
    \A t \in Targets : Refused(w, t)

\* A request that may have an effect is sent to a target at most once.
SentOnce == \A w \in Workers : method[w] = "POST" => sent[w] <= 1

\* A target that breaks down for good is taken out.
Ejected ==
  \A t \in Targets :
    <>[]~up[t] => <>[](status[t] = "unhealthy" \/ circuit[t] # "closed")

\* A target whose probe and traffic work again gets requests again.
Recovers ==
  \A t \in Targets : <>[]up[t] => []<>(\E w \in Workers : At(w, "call") /\ target[w] = t)
=============================================================================
