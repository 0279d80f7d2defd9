-------------------------- MODULE TargetHealth_proofs --------------------------
(***************************************************************************)
(* How often a request is sent and to which target, and what becomes of    *)
(* the records of the targets, for any number of targets, of requests and  *)
(* of checks at a time.                                                    *)
(*                                                                         *)
(* A goroutine is a list of operations that are still to be done. How      *)
(* often and where a request is sent depends on what can lead to a call:   *)
(* there is at most one such operation on a list, and it is the last, so   *)
(* whatever is recorded is recorded before a target is called or selected  *)
(* again. This holds whatever the fields that are shared are read as.      *)
(*                                                                         *)
(* Whether the records are right does depend on it. The state of a target  *)
(* follows its counters where no success and no error of it are recorded   *)
(* at the same time (Unmixed), and an open circuit lasts where no two      *)
(* goroutines are busy with one target (Apart). Otherwise a status that    *)
(* was decided from an error is written after a later success was          *)
(* compared, or a time is read before it is written. One goroutine         *)
(* satisfies both.                                                         *)
(***************************************************************************)
EXTENDS TargetHealth, SequenceTheorems, TLAPS

Asking == {"askCircuit", "askStatus", "recoverState", "recoverTime", "refuse"}
Ahead  == Asking \cup {"next", "call"}      \* a call is still to come
LastOnly == Ahead \cup {"retry"}
Quiet == Ops \ LastOnly

Has(g, ops) == \E k \in 1..Len(todo[g]) : todo[g][k] \in ops

ListInv == \A g \in Goroutines : \A k \in 1..(Len(todo[g]) - 1) : todo[g][k] \notin LastOnly

SendInv == \A g \in Goroutines :
    /\ Has(g, Ahead) => sent[g] < MaxAttempts /\ (method[g] = "POST" => sent[g] = 0)
    /\ method[g] = "POST" => sent[g] <= 1

ChoiceInv == \A g \in Goroutines :
    /\ Has(g, Asking) => ~Refused(g, target[g])
    /\ Has(g, {"call"}) => ~Refused(g, target[g]) \/ \A t \in Targets : Refused(g, t)

HealthInv == TypeOK /\ ListInv /\ SendInv /\ ChoiceInv

-----------------------------------------------------------------------------
(* Lists of operations. *)

\* What is recorded is a list that calls nothing.
LEMMA RecordedFacts ==
  ASSUME NEW ok \in BOOLEAN
  PROVE  Recorded(ok) \in Seq(Quiet) /\ RecordedInChain(ok) \in Seq(Quiet)
<1>1. RecordSuccess \in Seq(Quiet) BY DEF RecordSuccess, Quiet, Ops, LastOnly, Ahead, Asking
<1>2. RecordError \in Seq(Quiet) BY DEF RecordError, Quiet, Ops, LastOnly, Ahead, Asking
<1>3. Recorded(ok) \in Seq(Quiet) BY <1>1, <1>2 DEF Recorded
<1> HIDE DEF Quiet
<1>q. QED BY <1>3 DEF RecordedInChain

\* The list after a step.
LEMMA ThenFacts ==
  ASSUME NEW g \in Goroutines, todo \in [Goroutines -> Seq(Ops)], ~Idle(g),
         NEW more \in Seq(Ops), Then(g, more)
  PROVE  /\ todo' \in [Goroutines -> Seq(Ops)]
         /\ \A h \in Goroutines \ {g} : todo'[h] = todo[h]
         /\ todo'[g] = more \o Tail(todo[g])
         /\ Len(todo'[g]) = Len(more) + Len(todo[g]) - 1
         /\ \A k \in 1..Len(more) : todo'[g][k] = more[k]
         /\ \A k \in (Len(more) + 1)..Len(todo'[g]) :
              /\ k - Len(more) + 1 \in 2..Len(todo[g])
              /\ todo'[g][k] = todo[g][k - Len(more) + 1]
<1> DEFINE s == todo[g]
<1>1. s \in Seq(Ops) /\ s # << >> BY DEF Idle
<1> HIDE DEF s
<1>2. Tail(s) \in Seq(Ops) /\ Len(Tail(s)) = Len(s) - 1 /\ Len(s) \in Nat \ {0}
      /\ \A k \in 1..Len(Tail(s)) : Tail(s)[k] = s[k + 1]
  BY <1>1
<1>3. more \o Tail(s) \in Seq(Ops) /\ Len(more \o Tail(s)) = Len(more) + Len(s) - 1 BY <1>2
<1>4. todo' = [todo EXCEPT ![g] = more \o Tail(s)] BY DEF Then, s
<1>5. todo'[g] = more \o Tail(s) BY <1>4
<1>6. \A k \in 1..Len(more) : todo'[g][k] = more[k] BY <1>2, <1>5
<1>7. ASSUME NEW k \in (Len(more) + 1)..Len(todo'[g])
      PROVE  k - Len(more) + 1 \in 2..Len(s) /\ todo'[g][k] = s[k - Len(more) + 1]
  <2>1. Len(more) \in Nat /\ k \in Int /\ k - Len(more) \in 1..Len(Tail(s)) BY <1>2, <1>3, <1>5
  <2>2. todo'[g][k] = Tail(s)[k - Len(more)] BY <2>1, <1>2, <1>3, <1>5
  <2>q. QED BY <2>1, <2>2, <1>2
<1>q. QED BY <1>3, <1>4, <1>5, <1>6, <1>7 DEF s

\* A step that records leaves what can lead to a call where it is.
LEMMA QuietThen ==
  ASSUME HealthInv, NEW g \in Goroutines, ~Idle(g), Head(todo[g]) \notin LastOnly,
         NEW more \in Seq(Quiet), Then(g, more), UNCHANGED callVars
  PROVE  todo' \in [Goroutines -> Seq(Ops)] /\ ListInv' /\ SendInv' /\ ChoiceInv'
<1>1. more \in Seq(Ops) /\ \A k \in 1..Len(more) : more[k] \notin LastOnly BY DEF Quiet
<1>2. /\ todo' \in [Goroutines -> Seq(Ops)]
      /\ \A h \in Goroutines \ {g} : todo'[h] = todo[h]
      /\ Len(todo'[g]) = Len(more) + Len(todo[g]) - 1
      /\ \A k \in 1..Len(more) : todo'[g][k] = more[k]
      /\ \A k \in (Len(more) + 1)..Len(todo'[g]) :
           /\ k - Len(more) + 1 \in 2..Len(todo[g])
           /\ todo'[g][k] = todo[g][k - Len(more) + 1]
  BY <1>1, ThenFacts DEF HealthInv, TypeOK
<1>3. Len(more) \in Nat /\ Len(todo[g]) \in Nat BY <1>1, SMTT(60) DEF HealthInv, TypeOK
<1>4. ListInv'
  <2>1. SUFFICES ASSUME NEW k \in 1..(Len(todo'[g]) - 1) PROVE todo'[g][k] \notin LastOnly
    BY <1>2 DEF HealthInv, ListInv
  <2>2. CASE k \in 1..Len(more) BY <1>1, <1>2, <2>2
  <2>3. CASE k \in (Len(more) + 1)..Len(todo'[g])
    <3>1. k - Len(more) + 1 \in 1..(Len(todo[g]) - 1) BY <1>2, <1>3, <2>3
    <3>q. QED BY <3>1, <1>2, <2>3 DEF HealthInv, ListInv
  <2>q. QED BY <1>2, <1>3, <2>2, <2>3
<1>5. \A A \in SUBSET LastOnly : \A h \in Goroutines : Has(h, A)' => Has(h, A)
  <2>1. SUFFICES ASSUME NEW A \in SUBSET LastOnly, NEW k \in 1..Len(todo'[g]), todo'[g][k] \in A
                 PROVE  Has(g, A)
    BY <1>2 DEF Has
  <2>2. k \in (Len(more) + 1)..Len(todo'[g]) BY <1>1, <1>2, <1>3, <2>1
  <2>3. k - Len(more) + 1 \in 2..Len(todo[g]) /\ todo[g][k - Len(more) + 1] \in A BY <1>2, <2>1, <2>2
  <2>4. \A j \in 2..Len(todo[g]) : j \in 1..Len(todo[g]) BY <1>3
  <2>q. QED BY <2>3, <2>4 DEF Has
<1>6. Ahead \in SUBSET LastOnly /\ Asking \in SUBSET LastOnly /\ {"call"} \in SUBSET LastOnly
  BY DEF LastOnly, Ahead
<1>7. SendInv' BY <1>5, <1>6 DEF HealthInv, SendInv, callVars
<1>8. ChoiceInv' BY <1>5, <1>6 DEF HealthInv, ChoiceInv, callVars, Refused
<1>q. QED BY <1>2, <1>4, <1>7, <1>8

\* A step that selects, calls or retries ends the list, and begins it anew.
LEMMA LastThen ==
  ASSUME HealthInv, NEW g \in Goroutines, ~Idle(g), Head(todo[g]) \in LastOnly,
         NEW more \in Seq(Ops), Then(g, more),
         \A k \in 1..(Len(more) - 1) : more[k] \notin LastOnly
  PROVE  /\ todo' \in [Goroutines -> Seq(Ops)] /\ ListInv'
         /\ todo'[g] = more /\ \A h \in Goroutines \ {g} : todo'[h] = todo[h]
<1> DEFINE s == todo[g]
<1>1. s \in Seq(Ops) /\ s # << >> /\ s[1] \in LastOnly BY DEF HealthInv, TypeOK, Idle
<1>2. Tail(s) = << >>
  <2>1. \A k \in 1..(Len(s) - 1) : s[k] \notin LastOnly BY DEF HealthInv, ListInv
  <2> HIDE DEF s
  <2>2. Len(s) \in Nat \ {0} BY <1>1, EmptySeq
  <2>3. Len(s) = 1
    <3>1. PICK n \in Nat \ {0} : n = Len(s) BY <2>2
    <3>2. n # 1 => 1 \in 1..(n - 1) OBVIOUS
    <3>q. QED BY <3>1, <3>2, <1>1, <2>1
  <2>4. Tail(s) \in Seq(Ops) /\ Len(Tail(s)) = 0 BY <1>1, <2>3
  <2>q. QED BY <2>4, EmptySeq
<1>3. more \o Tail(s) = more BY <1>2, ConcatEmptySeq
<1>4. /\ todo' \in [Goroutines -> Seq(Ops)] /\ todo'[g] = more
      /\ \A h \in Goroutines \ {g} : todo'[h] = todo[h]
  BY <1>3, ThenFacts DEF HealthInv, TypeOK
<1>5. ListInv' BY <1>4 DEF HealthInv, ListInv
<1>q. QED BY <1>4, <1>5

-----------------------------------------------------------------------------
(* The actions. *)

\* The state of the targets keeps its type.
FieldsOK ==
    /\ errors \in [Targets -> 0..ErrorCap] /\ successes \in [Targets -> 0..SuccessCap]
    /\ status \in [Targets -> {"healthy", "unhealthy"}]
    /\ circuit \in [Targets -> {"closed", "open", "half-open"}]
    /\ since \in [Targets -> 0..RecoveryTime] /\ openFor \in [Targets -> 0..RecoveryTime]
    /\ quiet \in [Targets -> 0..Interval]

\* A count that is capped stays within its cap, and so does a cleared one.
LEMMA Caps ==
  /\ 0 \in 0..ErrorCap /\ \A n \in 0..ErrorCap : AtMost(ErrorCap, n + 1) \in 0..ErrorCap
  /\ 0 \in 0..SuccessCap /\ \A n \in 0..SuccessCap : AtMost(SuccessCap, n + 1) \in 0..SuccessCap
  /\ 0 \in 0..RecoveryTime /\ \A n \in 0..RecoveryTime : AtMost(RecoveryTime, n + 1) \in 0..RecoveryTime
  /\ 0 \in 0..Interval /\ \A n \in 0..Interval : AtMost(Interval, n + 1) \in 0..Interval
<1>1. ErrorCap \in Nat /\ SuccessCap \in Nat /\ RecoveryTime \in Nat /\ Interval \in Nat
  BY ConstantsAssumption DEF ConstantsAssumption, ErrorCap, SuccessCap
<1>2. ASSUME NEW cap \in Nat
      PROVE  0 \in 0..cap /\ \A n \in 0..cap : AtMost(cap, n + 1) \in 0..cap
  BY DEF AtMost
<1>q. QED BY <1>1, <1>2

\* Whatever records: a field changes, and what follows calls nothing.
LEMMA RecordStep ==
  ASSUME HealthInv, NEW g \in Goroutines, Record(g) \/ ProbeAnswered(g)
  PROVE  HealthInv'
<1>1. PICK more \in Seq(Quiet) :
        Then(g, more) /\ ~Idle(g) /\ Head(todo[g]) \notin LastOnly
  <2> USE DEF LastOnly, Ahead, Asking, At
  <2>0. /\ << >> \in Seq(Quiet) /\ <<"stamp">> \in Seq(Quiet) /\ <<"heal">> \in Seq(Quiet)
        /\ <<"sicken">> \in Seq(Quiet) /\ <<"open">> \in Seq(Quiet) /\ <<"close", "heal">> \in Seq(Quiet)
    BY DEF Quiet, Ops
  <2>1. CASE ClearErrors(g) \/ ClearSuccesses(g) \/ CountSuccess(g) \/ CountError(g) \/ Stamp(g)
    BY <2>0, <2>1 DEF ClearErrors, ClearSuccesses, CountSuccess, CountError, Stamp
  <2>2. CASE Close(g) \/ Open(g) \/ HalfOpen(g) \/ Heal(g) \/ Sicken(g)
    BY <2>0, <2>2 DEF Close, Open, HalfOpen, Heal, Sicken, SetCircuitState, SetStatus, ThenIf
  <2>3. CASE PassiveSuccess(g) \/ BreakerSuccess(g) \/ PassiveError(g) \/ BreakerError(g)
    BY <2>0, <2>3 DEF PassiveSuccess, BreakerSuccess, PassiveError, BreakerError, Decide, ThenIf
  <2>4. CASE ProbeAnswered(g)
    <3>1. target[g] \in Targets /\ up[target[g]] \in BOOLEAN BY DEF HealthInv, TypeOK
    <3>q. QED BY <2>4, <3>1, RecordedFacts DEF ProbeAnswered
  <2>q. QED BY <2>1, <2>2, <2>3, <2>4 DEF Record
<1>2. target[g] \in Targets /\ FieldsOK BY DEF HealthInv, TypeOK, FieldsOK
<1>3. UNCHANGED callVars /\ UNCHANGED <<up, cursor>> /\ FieldsOK'
  <2> USE <1>2, Caps DEF FieldsOK, healthVars
  <2>1. CASE ClearErrors(g) BY <2>1 DEF ClearErrors
  <2>2. CASE ClearSuccesses(g) BY <2>2 DEF ClearSuccesses
  <2>3. CASE CountSuccess(g) BY <2>3 DEF CountSuccess
  <2>4. CASE CountError(g) BY <2>4 DEF CountError
  <2>5. CASE Stamp(g) BY <2>5 DEF Stamp
  <2>6. CASE Close(g) \/ Open(g) \/ HalfOpen(g)
    <3>1. PICK op \in Ops, value \in {"closed", "open", "half-open"} : SetCircuitState(g, op, value)
      BY <2>6 DEF Close, Open, HalfOpen, Ops
    <3>2. openFor' \in [Targets -> 0..RecoveryTime] BY <3>1 DEF SetCircuitState
    <3>3. circuit' \in [Targets -> {"closed", "open", "half-open"}] BY <3>1 DEF SetCircuitState
    <3>q. QED BY <3>1, <3>2, <3>3 DEF SetCircuitState
  <2>7. CASE Heal(g) \/ Sicken(g) BY <2>7 DEF Heal, Sicken, SetStatus
  <2>8. CASE PassiveSuccess(g) \/ BreakerSuccess(g) \/ PassiveError(g) \/ BreakerError(g)
    BY <2>8 DEF PassiveSuccess, BreakerSuccess, PassiveError, BreakerError, Decide
  <2>9. CASE ProbeAnswered(g) BY <2>9 DEF ProbeAnswered
  <2>q. QED BY <2>1, <2>2, <2>3, <2>4, <2>5, <2>6, <2>7, <2>8, <2>9 DEF Record
<1>4. todo' \in [Goroutines -> Seq(Ops)] /\ ListInv' /\ SendInv' /\ ChoiceInv'
  BY <1>1, <1>3, QuietThen
<1>5. TypeOK' BY <1>3, <1>4 DEF HealthInv, TypeOK, FieldsOK, callVars
<1>q. QED BY <1>4, <1>5 DEF HealthInv

\* What is not about a goroutine does not touch what it has yet to do.
LEMMA RestStep ==
  ASSUME HealthInv, Tick \/ (\E t \in Targets : Break(t) \/ Repair(t)) \/ UNCHANGED vars
  PROVE  HealthInv'
<1>1. UNCHANGED <<todo, target, refused, method, sent, cursor>>
  BY DEF Tick, Break, Repair, vars, callVars
<1>2. FieldsOK' /\ up' \in [Targets -> BOOLEAN]
  <2>0. FieldsOK /\ up \in [Targets -> BOOLEAN] BY DEF HealthInv, TypeOK, FieldsOK
  <2> USE <2>0, Caps DEF FieldsOK, healthVars
  <2>1. CASE Tick BY <2>1 DEF Tick
  <2>2. CASE \E t \in Targets : Break(t) \/ Repair(t) BY <2>2 DEF Break, Repair
  <2>3. CASE UNCHANGED vars BY <2>3 DEF vars
  <2>q. QED BY <2>1, <2>2, <2>3
<1>3. TypeOK' BY <1>1, <1>2 DEF HealthInv, TypeOK, FieldsOK
<1>4. ListInv' /\ SendInv' /\ ChoiceInv'
  BY <1>1 DEF HealthInv, ListInv, SendInv, ChoiceInv, Has, Refused
<1>q. QED BY <1>3, <1>4 DEF HealthInv

\* What stands on a list.
LEMMA HeadIsOn ==
  ASSUME todo \in [Goroutines -> Seq(Ops)], NEW g \in Goroutines, NEW op, At(g, op),
         NEW ops, op \in ops
  PROVE  ~Idle(g) /\ Head(todo[g]) = op /\ Has(g, ops)
<1> DEFINE s == todo[g]
<1>1. s \in Seq(Ops) /\ s # << >> /\ Head(s) = op BY DEF At, Idle
<1> HIDE DEF s
<1>2. Len(s) \in Nat \ {0} /\ s[1] = op BY <1>1, EmptySeq
<1>3. 1 \in 1..Len(s) BY <1>2
<1>q. QED BY <1>1, <1>2, <1>3 DEF Has, s, Idle

\* A list of one operation.
LEMMA OneOp ==
  ASSUME NEW op \in Ops
  PROVE  <<op>> \in Seq(Ops) /\ \A k \in 1..(Len(<<op>>) - 1) : FALSE
<1>1. <<op>> \in Seq(Ops) /\ Len(<<op>>) = 1 OBVIOUS
<1>2. 1..(1 - 1) = {} OBVIOUS
<1>q. QED BY <1>1, <1>2

\* The rest of the selection: a target that has not refused is asked on, or called, or refuses.
LEMMA AskStep ==
  ASSUME HealthInv, NEW g \in Goroutines, AskCircuit(g) \/ AskStatus(g) \/ RecoverState(g) \/ RecoverTime(g)
  PROVE  HealthInv'
<1>1. PICK op \in Asking : At(g, op) BY DEF AskCircuit, AskStatus, RecoverState, RecoverTime, Asking
<1>2. ~Idle(g) /\ Head(todo[g]) \in LastOnly /\ Has(g, Asking) /\ Has(g, Ahead)
  BY <1>1, HeadIsOn DEF HealthInv, TypeOK, LastOnly, Ahead
<1>3. UNCHANGED <<healthVars, up, cursor, callVars>>
  BY DEF AskCircuit, AskStatus, RecoverState, RecoverTime
<1>4. PICK more \in Seq(Ops) :
        Then(g, more) /\ \A k \in 1..(Len(more) - 1) : more[k] \notin LastOnly
  <2>1. {"askStatus", "recoverState", "recoverTime", "refuse", "call"} \subseteq Ops BY DEF Ops
  <2>2. CASE \E next \in {"askStatus", "recoverState", "recoverTime", "refuse", "call"} : Then(g, <<next>>)
    BY <2>1, <2>2, OneOp
  <2>3. CASE Then(g, <<"halfOpen", "clearErrors", "clearSuccesses", "call">>)
    <3> DEFINE m == <<"halfOpen", "clearErrors", "clearSuccesses", "call">>
    <3>1. m \in Seq(Ops) /\ Len(m) = 4 BY DEF Ops
    <3>2. 1..(4 - 1) = {1, 2, 3} OBVIOUS
    <3>3. \A k \in {1, 2, 3} : m[k] \notin LastOnly BY DEF LastOnly, Ahead, Asking
    <3>q. QED BY <2>3, <3>1, <3>2, <3>3
  <2>q. QED BY <2>2, <2>3 DEF AskCircuit, AskStatus, RecoverState, RecoverTime
<1>5. /\ todo' \in [Goroutines -> Seq(Ops)] /\ ListInv'
      /\ \A h \in Goroutines \ {g} : todo'[h] = todo[h]
  BY <1>2, <1>4, LastThen
<1>6. TypeOK' BY <1>3, <1>5 DEF HealthInv, TypeOK, healthVars, callVars
<1>7. SendInv' BY <1>2, <1>3, <1>5 DEF HealthInv, SendInv, Has, callVars
<1>8. ~Refused(g, target[g]) BY <1>2 DEF HealthInv, ChoiceInv
<1>9. ChoiceInv' BY <1>3, <1>5, <1>8 DEF HealthInv, ChoiceInv, Has, Refused, callVars
<1>q. QED BY <1>5, <1>6, <1>7, <1>9 DEF HealthInv

\* The selection begins with the balancer's target.
LEMMA PickStep ==
  ASSUME HealthInv, NEW g \in Goroutines, PickPrimary(g)
  PROVE  HealthInv'
<1>1. ~Idle(g) /\ Head(todo[g]) \in LastOnly /\ Has(g, Ahead)
  BY HeadIsOn DEF HealthInv, TypeOK, PickPrimary, LastOnly, Ahead
<1>2. <<"askCircuit">> \in Seq(Ops) /\ \A k \in 1..(Len(<<"askCircuit">>) - 1) : <<"askCircuit">>[k] \notin LastOnly
  BY DEF Ops
<1>3. /\ todo' \in [Goroutines -> Seq(Ops)] /\ ListInv' /\ todo'[g] = <<"askCircuit">>
      /\ \A h \in Goroutines \ {g} : todo'[h] = todo[h]
  BY <1>1, <1>2, LastThen DEF PickPrimary
<1>4. /\ target' = [target EXCEPT ![g] = cursor] /\ refused' = [refused EXCEPT ![g] = << >>]
      /\ cursor' \in Targets /\ UNCHANGED <<healthVars, up, method, sent>>
  BY ConstantsAssumption DEF PickPrimary, HealthInv, TypeOK, Targets, Following, ConstantsAssumption
<1>5. TypeOK'
  <2>1. cursor \in Targets /\ << >> \in Seq(Targets) BY DEF HealthInv, TypeOK
  <2>2. target' \in [Goroutines -> Targets] BY <1>4, <2>1 DEF HealthInv, TypeOK
  <2>3. refused' \in [Goroutines -> Seq(Targets)]
    <3>1. refused \in [Goroutines -> Seq(Targets)] BY DEF HealthInv, TypeOK
    <3>q. QED BY <1>4, <2>1, <3>1
  <2>q. QED BY <1>3, <1>4, <2>2, <2>3 DEF HealthInv, TypeOK, healthVars
<1>6. SendInv' BY <1>1, <1>3, <1>4 DEF HealthInv, SendInv, Has
<1>7. /\ ~Refused(g, target[g])'
      /\ \A h \in Goroutines \ {g} : target'[h] = target[h] /\ refused'[h] = refused[h]
  BY <1>4 DEF HealthInv, TypeOK, Refused
<1>8. ChoiceInv' BY <1>3, <1>7 DEF HealthInv, ChoiceInv, Has, Refused
<1>q. QED BY <1>3, <1>5, <1>6, <1>8 DEF HealthInv

\* A refusal: the next target that has not been asked, or all have refused.
LEMMA RefuseStep ==
  ASSUME HealthInv, NEW g \in Goroutines, Refuse(g)
  PROVE  HealthInv'
<1>1. ~Idle(g) /\ Head(todo[g]) \in LastOnly /\ Has(g, Ahead)
  BY HeadIsOn DEF HealthInv, TypeOK, Refuse, LastOnly, Ahead, Asking
<1>2. PICK op \in {"call", "askCircuit"}, t \in Targets :
        /\ Then(g, <<op>>) /\ target' = [target EXCEPT ![g] = t]
        /\ \/ op = "call" /\ Untried(g) = {}
           \/ op = "askCircuit" /\ t \in Untried(g)
  <2>1. refused[g] \in Seq(Targets) /\ target[g] \in Targets /\ refused \in [Goroutines -> Seq(Targets)]
    BY DEF HealthInv, TypeOK
  <2>2. refused'[g] = Append(refused[g], target[g]) BY <2>1 DEF Refuse
  <2>3. refused'[g][1] \in Targets BY <2>1, <2>2
  <2>4. Untried(g) \subseteq Targets BY DEF Untried
  <2>q. QED BY <2>3, <2>4 DEF Refuse
<1>3. <<op>> \in Seq(Ops) /\ \A k \in 1..(Len(<<op>>) - 1) : <<op>>[k] \notin LastOnly
  BY DEF Ops
<1>4. /\ todo' \in [Goroutines -> Seq(Ops)] /\ ListInv' /\ todo'[g] = <<op>>
      /\ \A h \in Goroutines \ {g} : todo'[h] = todo[h]
  BY <1>1, <1>2, <1>3, LastThen
<1>5. /\ refused' = [refused EXCEPT ![g] = Append(@, target[g])]
      /\ UNCHANGED <<healthVars, up, cursor, method, sent>>
  BY DEF Refuse
<1>6. refused[g] \in Seq(Targets) /\ target[g] \in Targets BY DEF HealthInv, TypeOK
<1>7. TypeOK'
  <2>1. target' \in [Goroutines -> Targets] BY <1>2 DEF HealthInv, TypeOK
  <2>2. refused' \in [Goroutines -> Seq(Targets)]
    <3>1. refused \in [Goroutines -> Seq(Targets)] /\ Append(refused[g], target[g]) \in Seq(Targets)
      BY <1>6 DEF HealthInv, TypeOK
    <3>q. QED BY <1>5, <3>1
  <2>q. QED BY <1>4, <1>5, <2>1, <2>2 DEF HealthInv, TypeOK, healthVars
<1>8. SendInv' BY <1>1, <1>4, <1>5 DEF HealthInv, SendInv, Has
<1>9. /\ target'[g] = t /\ \A u \in Targets : Refused(g, u)' <=> Refused(g, u) \/ u = target[g]
      /\ \A h \in Goroutines \ {g} : target'[h] = target[h] /\ refused'[h] = refused[h]
  <2>1. target'[g] = t /\ \A h \in Goroutines \ {g} : target'[h] = target[h] /\ refused'[h] = refused[h]
    BY <1>2, <1>5 DEF HealthInv, TypeOK
  <2>2. refused'[g] = Append(refused[g], target[g]) BY <1>5 DEF HealthInv, TypeOK
  <2>3. \A u \in Targets : Refused(g, u)' <=> Refused(g, u) \/ u = target[g]
    <3> DEFINE s == refused[g]
               x == target[g]
    <3>1. s \in Seq(Targets) /\ x \in Targets BY <1>6
    <3>2. refused'[g] = Append(s, x) BY <2>2
    <3>3. SUFFICES ASSUME NEW u
                   PROVE  (\E i \in 1..Len(Append(s, x)) : Append(s, x)[i] = u)
                             <=> (\E i \in 1..Len(s) : s[i] = u) \/ u = x
      BY <3>2 DEF Refused
    <3> HIDE DEF s, x
    <3>4. /\ Len(s) \in Nat /\ Len(Append(s, x)) = Len(s) + 1
          /\ Append(s, x)[Len(s) + 1] = x /\ \A i \in 1..Len(s) : Append(s, x)[i] = s[i]
      BY <3>1
    <3>q. QED BY <3>4
  <2>q. QED BY <2>1, <2>3
<1>12. ASSUME \/ ~Refused(g, target[g])'
              \/ (\A u \in Targets : Refused(g, u)') /\ ~Has(g, Asking)'
       PROVE  ChoiceInv'
  <2>1. ASSUME NEW h \in Goroutines \ {g}
        PROVE  /\ Has(h, Asking)' => ~Refused(h, target[h])'
               /\ Has(h, {"call"})' => ~Refused(h, target[h])' \/ \A u \in Targets : Refused(h, u)'
    <3>1. todo'[h] = todo[h] /\ target'[h] = target[h] /\ refused'[h] = refused[h] BY <1>4, <1>9
    <3>2. \A ops : Has(h, ops)' <=> Has(h, ops) BY <3>1 DEF Has
    <3>3. \A u : Refused(h, u)' <=> Refused(h, u) BY <3>1 DEF Refused
    <3>4. Refused(h, target[h])' <=> Refused(h, target[h]) BY <3>1 DEF Refused
    <3>5. /\ Has(h, Asking) => ~Refused(h, target[h])
          /\ Has(h, {"call"}) => ~Refused(h, target[h]) \/ \A u \in Targets : Refused(h, u)
      BY DEF HealthInv, ChoiceInv
    <3>q. QED BY <3>2, <3>3, <3>4, <3>5
  <2>q. QED BY <1>12, <2>1 DEF ChoiceInv
<1>10. CASE op = "call" /\ Untried(g) = {}
  <2>1. \A u \in Targets : Refused(g, u)' BY <1>9, <1>10 DEF Untried
  <2>2. ~Has(g, Asking)' BY <1>4, <1>10 DEF Has, Asking
  <2>3. ChoiceInv' BY <2>1, <2>2, <1>12
  <2>q. QED BY <2>3, <1>4, <1>7, <1>8 DEF HealthInv
<1>11. CASE op = "askCircuit" /\ t \in Untried(g)
  <2>1. ~Refused(g, target[g])' BY <1>9, <1>11 DEF Untried, Refused
  <2>2. ChoiceInv' BY <2>1, <1>12
  <2>q. QED BY <2>2, <1>4, <1>7, <1>8 DEF HealthInv
<1>q. QED BY <1>2, <1>10, <1>11

\* A call, which is the first of a request that must not be sent twice.
LEMMA CallStep ==
  ASSUME HealthInv, NEW g \in Goroutines, Call(g)
  PROVE  HealthInv'
<1>1. ~Idle(g) /\ Head(todo[g]) \in LastOnly /\ Has(g, Ahead)
  BY HeadIsOn DEF HealthInv, TypeOK, Call, LastOnly, Ahead
<1>2. PICK more \in Seq(Ops) :
        /\ Then(g, more)
        /\ \A k \in 1..(Len(more) - 1) : more[k] \notin LastOnly
        /\ \A k \in 1..Len(more) : more[k] \notin Ahead
  <2>1. \A ok \in BOOLEAN : RecordedInChain(ok) \in Seq(Quiet) BY RecordedFacts
  <2>2. \A m \in Seq(Quiet) :
          /\ m \in Seq(Ops) /\ \A k \in 1..Len(m) : m[k] \notin LastOnly /\ m[k] \notin Ahead
          /\ \A k \in 1..(Len(m) - 1) : k \in 1..Len(m)
    BY DEF Quiet, LastOnly
  <2>3. \A m \in Seq(Quiet) :
          /\ Append(m, "retry") \in Seq(Ops)
          /\ \A k \in 1..(Len(Append(m, "retry")) - 1) : Append(m, "retry")[k] \notin LastOnly
          /\ \A k \in 1..Len(Append(m, "retry")) : Append(m, "retry")[k] \notin Ahead
    <3>1. SUFFICES ASSUME NEW m \in Seq(Quiet)
                   PROVE  /\ Append(m, "retry") \in Seq(Ops)
                          /\ \A k \in 1..(Len(Append(m, "retry")) - 1) : Append(m, "retry")[k] \notin LastOnly
                          /\ \A k \in 1..Len(Append(m, "retry")) : Append(m, "retry")[k] \notin Ahead
      OBVIOUS
    <3>2. "retry" \in Ops /\ "retry" \notin Ahead BY DEF Ops, Ahead, Asking
    <3>3. /\ Len(m) \in Nat /\ Len(Append(m, "retry")) = Len(m) + 1
          /\ Append(m, "retry")[Len(m) + 1] = "retry"
          /\ \A k \in 1..Len(m) : Append(m, "retry")[k] = m[k]
      OBVIOUS
    <3>4. Append(m, "retry") \in Seq(Ops) BY <2>2, <3>2
    <3>q. QED BY <2>2, <3>2, <3>3, <3>4
  <2>q. QED BY <2>1, <2>2, <2>3 DEF Call
<1>3. /\ todo' \in [Goroutines -> Seq(Ops)] /\ ListInv' /\ todo'[g] = more
      /\ \A h \in Goroutines \ {g} : todo'[h] = todo[h]
  BY <1>1, <1>2, LastThen
<1>4. ~Has(g, Ahead)' /\ ~Has(g, Asking)' /\ ~Has(g, {"call"})'
  BY <1>2, <1>3 DEF Has, Ahead
<1>5. sent' = [sent EXCEPT ![g] = @ + 1] /\ UNCHANGED <<healthVars, up, cursor, target, refused, method>>
  BY DEF Call
<1>6. sent[g] \in 0..MaxAttempts /\ sent[g] < MaxAttempts /\ (method[g] = "POST" => sent[g] = 0)
  BY <1>1 DEF HealthInv, TypeOK, SendInv
<1>7. \A n \in 0..MaxAttempts : n < MaxAttempts => n + 1 \in 0..MaxAttempts
  BY ConstantsAssumption DEF ConstantsAssumption
<1>8. TypeOK' BY <1>3, <1>5, <1>6, <1>7 DEF HealthInv, TypeOK, healthVars
<1>9. SendInv'
  <2>1. method[g] = "POST" => sent'[g] <= 1
    <3>1. sent \in [Goroutines -> 0..MaxAttempts] BY DEF HealthInv, TypeOK
    <3>2. method[g] = "POST" => sent'[g] = 0 + 1 BY <1>5, <1>6, <3>1
    <3>q. QED BY <3>2
  <2>2. \A h \in Goroutines \ {g} : sent'[h] = sent[h] /\ (Has(h, Ahead)' <=> Has(h, Ahead))
    BY <1>3, <1>5 DEF HealthInv, TypeOK, Has
  <2>q. QED BY <1>4, <1>5, <2>1, <2>2 DEF HealthInv, SendInv
<1>10. ChoiceInv' BY <1>3, <1>4, <1>5 DEF HealthInv, ChoiceInv, Has, Refused
<1>q. QED BY <1>3, <1>8, <1>9, <1>10 DEF HealthInv

\* Another attempt, for a GET that has attempts left.
LEMMA RetryStep ==
  ASSUME HealthInv, NEW g \in Goroutines, Retry(g)
  PROVE  HealthInv'
<1>1. ~Idle(g) /\ Head(todo[g]) \in LastOnly
  BY HeadIsOn DEF HealthInv, TypeOK, Retry, Decide, LastOnly
<1>2. PICK more \in {<<"next">>, << >>} :
        Then(g, more) /\ (more = <<"next">> => sent[g] < MaxAttempts /\ method[g] = "GET")
  BY DEF Retry, Decide, ThenIf
<1>3. more \in Seq(Ops) /\ \A k \in 1..(Len(more) - 1) : more[k] \notin LastOnly
  <2>1. CASE more = <<"next">> BY <2>1, OneOp DEF Ops
  <2>2. CASE more = << >>
    <3>1. more \in Seq(Ops) /\ Len(more) = 0 BY <2>2
    <3>2. 1..(0 - 1) = {} OBVIOUS
    <3>q. QED BY <3>1, <3>2
  <2>q. QED BY <2>1, <2>2
<1>4. /\ todo' \in [Goroutines -> Seq(Ops)] /\ ListInv' /\ todo'[g] = more
      /\ \A h \in Goroutines \ {g} : todo'[h] = todo[h]
  BY <1>1, <1>2, <1>3, LastThen
<1>5. UNCHANGED <<healthVars, up, cursor, callVars>> BY DEF Retry, Decide
<1>6. Has(g, Ahead)' => sent[g] < MaxAttempts /\ method[g] = "GET" BY <1>2, <1>4 DEF Has
<1>7. ~Has(g, Asking)' /\ ~Has(g, {"call"})' BY <1>4 DEF Has, Asking
<1>8. TypeOK' BY <1>4, <1>5 DEF HealthInv, TypeOK, healthVars, callVars
<1>9. SendInv' BY <1>4, <1>5, <1>6 DEF HealthInv, SendInv, Has, callVars
<1>10. ChoiceInv' BY <1>4, <1>5, <1>7 DEF HealthInv, ChoiceInv, Has, Refused, callVars
<1>q. QED BY <1>4, <1>8, <1>9, <1>10 DEF HealthInv

\* A request or a check begins where nothing is to be done.
LEMMA BeginStep ==
  ASSUME HealthInv,
         \/ \E w \in Workers, m \in Methods : Arrive(w, m)
         \/ \E p \in Probes, t \in Targets : Check(p, t)
  PROVE  HealthInv'
<1>1. CASE \E w \in Workers, m \in Methods : Arrive(w, m)
  <2>1. PICK w \in Workers, m \in Methods : Arrive(w, m) BY <1>1
  <2>2. /\ w \in Goroutines /\ m \in {"GET", "POST"} /\ <<"next">> \in Seq(Ops)
        /\ 0 \in 0..MaxAttempts /\ 0 < MaxAttempts
    BY ConstantsAssumption DEF ConstantsAssumption, Goroutines, Ops
  <2>3. /\ todo' = [todo EXCEPT ![w] = <<"next">>] /\ method' = [method EXCEPT ![w] = m]
        /\ sent' = [sent EXCEPT ![w] = 0] /\ UNCHANGED <<healthVars, up, cursor, target, refused>>
    BY <2>1 DEF Arrive
  <2>4. TypeOK' BY <2>2, <2>3 DEF HealthInv, TypeOK, healthVars
  <2>5. todo'[w] = <<"next">> /\ sent'[w] = 0
        /\ \A h \in Goroutines \ {w} : todo'[h] = todo[h] /\ sent'[h] = sent[h] /\ method'[h] = method[h]
    BY <2>2, <2>3 DEF HealthInv, TypeOK
  <2>6. ListInv' BY <2>5, OneOp DEF HealthInv, ListInv, Ops
  <2>7. SendInv' BY <2>2, <2>5 DEF HealthInv, SendInv, Has
  <2>8. ~Has(w, Asking)' /\ ~Has(w, {"call"})' BY <2>5 DEF Has, Asking
  <2>9. ChoiceInv' BY <2>3, <2>5, <2>8 DEF HealthInv, ChoiceInv, Has, Refused
  <2>q. QED BY <2>4, <2>6, <2>7, <2>9 DEF HealthInv
<1>2. CASE \E p \in Probes, t \in Targets : Check(p, t)
  <2>1. PICK p \in Probes, t \in Targets : Check(p, t) BY <1>2
  <2>2. p \in Goroutines /\ <<"probe">> \in Seq(Ops) BY DEF Goroutines, Ops
  <2>3. /\ todo' = [todo EXCEPT ![p] = <<"probe">>] /\ target' = [target EXCEPT ![p] = t]
        /\ UNCHANGED <<healthVars, up, cursor, refused, method, sent>>
    BY <2>1 DEF Check
  <2>4. TypeOK' BY <2>2, <2>3 DEF HealthInv, TypeOK, healthVars
  <2>5. todo'[p] = <<"probe">>
        /\ \A h \in Goroutines \ {p} : todo'[h] = todo[h] /\ target'[h] = target[h]
    BY <2>2, <2>3 DEF HealthInv, TypeOK
  <2>6. ListInv' BY <2>5, OneOp DEF HealthInv, ListInv, Ops
  <2>7. ~Has(p, Ahead)' /\ ~Has(p, Asking)' /\ ~Has(p, {"call"})'
    BY <2>5 DEF Has, Asking, Ahead
  <2>8. SendInv' BY <2>3, <2>5, <2>7 DEF HealthInv, SendInv, Has
  <2>9. ChoiceInv' BY <2>3, <2>5, <2>7 DEF HealthInv, ChoiceInv, Has, Refused
  <2>q. QED BY <2>4, <2>6, <2>8, <2>9 DEF HealthInv
<1>q. QED BY <1>1, <1>2

-----------------------------------------------------------------------------
(* The theorems. *)

\* The invariant that the others follow from.
THEOREM HealthInvariant == Spec => []HealthInv
<1>1. Init => HealthInv
  <2>1. SUFFICES ASSUME Init PROVE HealthInv OBVIOUS
  <2>2. TypeOK
    <3>1. 0 \in 0..ErrorCap /\ 0 \in 0..SuccessCap /\ RecoveryTime \in 0..RecoveryTime
          /\ Interval \in 0..Interval /\ 0 \in 0..MaxAttempts /\ 1 \in Targets
      BY Caps, ConstantsAssumption DEF ConstantsAssumption, Targets
    <3>q. QED BY <2>1, <3>1 DEF Init, TypeOK
  <2>3. \A g \in Goroutines : todo[g] = << >> /\ method[g] = "GET" BY <2>1 DEF Init
  <2>4. \A g \in Goroutines : \A ops : ~Has(g, ops) BY <2>3 DEF Has
  <2>q. QED BY <2>2, <2>3, <2>4 DEF HealthInv, ListInv, SendInv, ChoiceInv
<1>2. HealthInv /\ [Next]_vars => HealthInv'
  BY RecordStep, RestStep, AskStep, PickStep, RefuseStep, CallStep, RetryStep, BeginStep
  DEF Next, Run, Select
<1>q. QED BY <1>1, <1>2, PTL DEF Spec

\* Every field, list and counter keeps its type; no request is sent more than MaxAttempts times.
THEOREM TypeCorrect == Spec => []TypeOK
<1>1. HealthInv => TypeOK BY DEF HealthInv
<1>q. QED BY <1>1, HealthInvariant, PTL

\* A request that may have an effect is sent to a target at most once (proxy.go, shouldRetry).
THEOREM SentOnceHolds == Spec => []SentOnce
<1>1. HealthInv => SentOnce BY DEF HealthInv, SendInv, SentOnce, Goroutines
<1>q. QED BY <1>1, HealthInvariant, PTL

\* A target that refused is called only after every target refused (proxy.go, selectHealthyTarget),
\* whatever other goroutines do to the records meanwhile.
THEOREM RefusedOnlyWithoutChoiceHolds == Spec => []RefusedOnlyWithoutChoice
<1>1. ASSUME HealthInv, NEW w \in Workers, At(w, "call"), Refused(w, target[w])
      PROVE  \A t \in Targets : Refused(w, t)
  <2>1. w \in Goroutines BY DEF Goroutines
  <2>2. Has(w, {"call"}) BY <1>1, <2>1, HeadIsOn DEF HealthInv, TypeOK
  <2>q. QED BY <1>1, <2>1, <2>2 DEF HealthInv, ChoiceInv
<1>2. HealthInv => RefusedOnlyWithoutChoice BY <1>1 DEF RefusedOnlyWithoutChoice
<1>q. QED BY <1>2, HealthInvariant, PTL
-----------------------------------------------------------------------------
(* State and counters. *)

On(list, ops) == \E k \in 1..Len(list) : list[k] \in ops

FollowedBy(list, op, ops) ==
  \A k \in 1..Len(list) : list[k] = op => \E l \in (k + 1)..Len(list) : list[l] \in ops

\* Something of ops is done before the next operation clear.
Fresh(list, ops, clear) ==
  \E k \in 1..Len(list) : list[k] \in ops /\ \A l \in 1..(k - 1) : list[l] # clear

Successful == {"countSuccess", "passiveSuccess", "breakerSuccess", "heal", "close"}
Failing    == {"countError", "passiveError", "breakerError", "sicken", "open"}

\* A success and an error of one target are not being recorded at the same time.
Unmixed == \A g, h \in Goroutines : target[g] = target[h] /\ Has(g, Successful) => ~Has(h, Failing)

\* What is counted is compared afterwards; a half-open circuit starts without successes.
Ordered(list) ==
  /\ FollowedBy(list, "countError", {"passiveError"}) /\ FollowedBy(list, "countError", {"breakerError"})
  /\ FollowedBy(list, "countSuccess", {"passiveSuccess"}) /\ FollowedBy(list, "countSuccess", {"breakerSuccess"})
  /\ FollowedBy(list, "halfOpen", {"clearSuccesses"})

OrderInv == \A g \in Goroutines : Ordered(todo[g])

\* A goroutine that records does one or the other, and one that probes nothing else.
PureInv == \A g \in Goroutines :
    /\ ~Has(g, Successful) \/ ~Has(g, Failing)
    /\ Has(g, {"probe"}) => Len(todo[g]) = 1

Deciding == {"passiveSuccess", "breakerSuccess", "heal", "close"}
Spoiling == {"passiveError", "sicken"}

\* Who may make a target healthy has cleared its errors, who may make it unhealthy its successes.
ClearedInv == \A g \in Goroutines :
    /\ Fresh(todo[g], Deciding, "clearErrors") => errors[target[g]] = 0
    /\ Fresh(todo[g], Spoiling, "clearSuccesses") => successes[target[g]] = 0

Pending(t, ops) == \E g \in Goroutines : target[g] = t /\ Has(g, ops)

\* Where state and counters disagree, somebody is about to look at them.
Agree(t) ==
    /\ errors[t] >= UnhealthyThreshold => status[t] = "unhealthy" \/ Pending(t, Spoiling)
    /\ errors[t] >= FailureThreshold => circuit[t] # "closed" \/ Pending(t, {"breakerError", "open"})
    /\ successes[t] >= HealthyThreshold => status[t] = "healthy" \/ Pending(t, {"passiveSuccess", "heal"})
    /\ successes[t] >= HalfOpenSuccessThreshold =>
         circuit[t] # "half-open" \/ Pending(t, {"breakerSuccess", "close", "clearSuccesses"})

AgreeInv == \A t \in Targets : Agree(t)

CountersInv == OrderInv /\ PureInv /\ ClearedInv /\ (Registered => AgreeInv)

Busy(g) == ~Idle(g) /\ ~At(g, "next")

\* No two goroutines ask, call or record one target at the same time.
Apart == \A g, h \in Goroutines : Busy(g) /\ Busy(h) /\ target[g] = target[h] => g = h

FrontOnly == {"open", "close", "halfOpen", "recoverTime"}

\* No operation that writes the state of a circuit waits behind another.
FrontInv == \A g \in Goroutines : \A k \in 2..Len(todo[g]) : todo[g][k] \notin FrontOnly

\* The time of the change is as old as the circuit is open, or is being written; and what was
\* decided of a circuit is still what it was decided from.
OpenInv ==
    /\ FrontInv
    /\ \A t \in Targets : circuit[t] = "open" => since[t] <= openFor[t] \/ BeingStamped(t)
    /\ \A g \in Goroutines :
         /\ At(g, "open") => circuit[target[g]] # "open"
         /\ At(g, "close") => circuit[target[g]] = "half-open"
         /\ At(g, "recoverTime") => circuit[target[g]] = "open"
         /\ At(g, "halfOpen") => circuit[target[g]] = "open" /\ openFor[target[g]] >= RecoveryTime

-----------------------------------------------------------------------------
(* Lists that are put in front of others, and lists that are gone on with. *)

\* What is on a joined list is on one of the two, in their order.
LEMMA Joined ==
  ASSUME NEW a \in Seq(Ops), NEW b \in Seq(Ops)
  PROVE  /\ a \o b \in Seq(Ops)
         /\ \A ops : On(a \o b, ops) <=> On(a, ops) \/ On(b, ops)
         /\ Ordered(a) /\ Ordered(b) => Ordered(a \o b)
         /\ \A ops, clear : Fresh(a \o b, ops, clear) =>
              Fresh(a, ops, clear) \/ (~On(a, {clear}) /\ Fresh(b, ops, clear))
<1> DEFINE c == a \o b
<1>1. PICK m \in Nat, n \in Nat : m = Len(a) /\ n = Len(b) OBVIOUS
<1>2. /\ c \in Seq(Ops) /\ Len(c) = m + n
      /\ \A k \in 1..m : c[k] = a[k]
      /\ \A k \in 1..n : c[m + k] = b[k]
  BY <1>1
<1> HIDE DEF c
<1>4. ASSUME NEW j \in 1..n PROVE \E k \in 1..(m + n) : k = m + j /\ c[k] = b[j]
  <2>1. PICK k \in 1..(m + n) : k = m + j BY <1>1
  <2>2. c[m + j] = b[j] BY <1>2
  <2>3. c[k] = b[j] BY ONLY <2>1, <2>2
  <2>q. QED BY <2>1, <2>3
<1>3. ASSUME NEW k \in 1..(m + n), k \notin 1..m PROVE \E j \in 1..n : k = m + j /\ c[k] = b[j]
  <2>1. k - m \in 1..n /\ k = m + (k - m) BY <1>1, <1>3
  <2>2. PICK j \in 1..n : k = m + j BY <2>1
  <2>q. QED BY <1>4, <2>2
<1>5. \A k \in 1..m : k \in 1..(m + n) BY <1>1
<1>6. ASSUME NEW ops PROVE On(c, ops) <=> On(a, ops) \/ On(b, ops)
  <2>1. On(c, ops) <=> \E k \in 1..(m + n) : c[k] \in ops BY <1>2 DEF On
  <2>2. On(a, ops) <=> \E k \in 1..m : a[k] \in ops BY <1>1 DEF On
  <2>3. On(b, ops) <=> \E k \in 1..n : b[k] \in ops BY <1>1 DEF On
  <2>4. ASSUME NEW k \in 1..(m + n), c[k] \in ops PROVE On(a, ops) \/ On(b, ops)
    <3>1. CASE k \in 1..m BY <1>2, <2>2, <2>4, <3>1
    <3>2. CASE k \notin 1..m
      <4>1. PICK j \in 1..n : k = m + j /\ c[k] = b[j] BY <1>3, <3>2
      <4>q. QED BY <2>3, <2>4, <4>1
    <3>q. QED BY <3>1, <3>2
  <2>5. On(a, ops) => On(c, ops) BY <1>2, <1>5, <2>1, <2>2
  <2>6. On(b, ops) => On(c, ops) BY <1>4, <2>1, <2>3
  <2>q. QED BY <2>1, <2>4, <2>5, <2>6
<1>7. ASSUME NEW op, NEW ops, FollowedBy(a, op, ops), FollowedBy(b, op, ops)
      PROVE  FollowedBy(c, op, ops)
  <2>1. SUFFICES ASSUME NEW k \in 1..(m + n), c[k] = op
                 PROVE  \E l \in (k + 1)..(m + n) : c[l] \in ops
    BY <1>2 DEF FollowedBy
  <2>2. CASE k \in 1..m
    <3>1. PICK l \in (k + 1)..m : a[l] \in ops BY <1>1, <1>2, <1>7, <2>1, <2>2 DEF FollowedBy
    <3>2. l \in 1..m /\ l \in (k + 1)..(m + n) BY <1>1
    <3>q. QED BY <3>1, <3>2, <1>2
  <2>3. CASE k \notin 1..m
    <3>1. PICK j \in 1..n : k = m + j /\ c[k] = b[j] BY <1>3, <2>3
    <3>2. b[j] = op BY <2>1, <3>1
    <3>3. PICK l \in (j + 1)..n : b[l] \in ops BY <1>1, <1>7, <3>2 DEF FollowedBy
    <3>4. PICK i \in 1..(m + n) : i = m + l /\ c[i] = b[l]
      <4>1. l \in 1..n BY <1>1
      <4>q. QED BY <1>4, <4>1
    <3>5. c[i] \in ops /\ i \in (k + 1)..(m + n) BY <1>1, <3>1, <3>3, <3>4
    <3>q. QED BY <3>5
  <2>q. QED BY <2>2, <2>3
<1>8. ASSUME NEW ops, NEW clear, Fresh(c, ops, clear)
      PROVE  Fresh(a, ops, clear) \/ (~On(a, {clear}) /\ Fresh(b, ops, clear))
  <2>1. PICK k \in 1..(m + n) : c[k] \in ops /\ \A l \in 1..(k - 1) : c[l] # clear
    BY <1>2, <1>8 DEF Fresh
  <2>2. CASE k \in 1..m
    <3>1. PICK q \in 1..m : q = k BY <2>2
    <3>2. \A l \in 1..(q - 1) : l \in 1..m BY <1>1
    <3>3. \A l \in 1..(q - 1) : a[l] # clear BY <1>2, <2>1, <3>1, <3>2
    <3>q. QED BY <1>1, <1>2, <2>1, <3>1, <3>3 DEF Fresh
  <2>3. CASE k \notin 1..m
    <3>1. PICK j \in 1..n : k = m + j /\ c[k] = b[j] BY <1>3, <2>3
    <3>2. b[j] \in ops BY <2>1, <3>1
    <3>3. \A l \in 1..m : l \in 1..(k - 1) BY <1>1, <3>1
    <3>5. ~On(a, {clear}) BY <1>1, <1>2, <2>1, <3>3 DEF On
    <3>6. ASSUME NEW l \in 1..(j - 1) PROVE b[l] # clear
      <4>1. l \in 1..n BY <1>1
      <4>2. PICK i \in 1..(m + n) : i = m + l /\ c[i] = b[l] BY <1>4, <4>1
      <4>3. i \in 1..(k - 1) BY <1>1, <3>1, <4>2
      <4>q. QED BY <2>1, <4>2, <4>3
    <3>q. QED BY <1>1, <3>2, <3>5, <3>6 DEF Fresh
  <2>q. QED BY <2>2, <2>3
<1>9. Ordered(a) /\ Ordered(b) => Ordered(c) BY <1>7 DEF Ordered
<1>q. QED BY <1>2, <1>6, <1>8, <1>9 DEF c

\* A list is its first operation and the rest.
LEMMA Rest ==
  ASSUME NEW s \in Seq(Ops), s # << >>
  PROVE  /\ Tail(s) \in Seq(Ops)
         /\ \A ops : On(s, ops) <=> Head(s) \in ops \/ On(Tail(s), ops)
         /\ \A ops, clear : Fresh(Tail(s), ops, clear) => Fresh(s, ops, clear) \/ Head(s) = clear
         /\ \A op, ops : FollowedBy(s, op, ops) =>
              FollowedBy(Tail(s), op, ops) /\ (Head(s) = op => On(Tail(s), ops))
<1> DEFINE u == Tail(s)
<1>1. PICK n \in Nat : Len(s) = n + 1
  <2>1. Len(s) \in Nat /\ Len(s) # 0 BY EmptySeq
  <2>2. PICK l \in Nat : l = Len(s) /\ l # 0 BY <2>1
  <2>3. l - 1 \in Nat /\ l = (l - 1) + 1 BY <2>2
  <2>q. QED BY <2>2, <2>3
<1>2. /\ u \in Seq(Ops) /\ Len(u) = n /\ Head(s) = s[1]
      /\ \A k \in 1..n : u[k] = s[k + 1]
  BY <1>1
<1> HIDE DEF u
<1>3. \A k \in 1..n : k + 1 \in 1..(n + 1) BY <1>1
<1>4. \A k \in 1..(n + 1) : k = 1 \/ (k - 1 \in 1..n /\ u[k - 1] = s[k])
  <2>1. ASSUME NEW k \in 1..(n + 1), k # 1 PROVE k - 1 \in 1..n /\ (k - 1) + 1 = k BY <1>1, <2>1
  <2>q. QED BY <2>1, <1>2
<1>5. 1 \in 1..(n + 1) BY <1>1
<1>6. \A ops : On(s, ops) <=> Head(s) \in ops \/ On(u, ops) BY <1>1, <1>2, <1>3, <1>4, <1>5 DEF On
<1>7. ASSUME NEW ops, NEW clear, Fresh(u, ops, clear), Head(s) # clear
      PROVE  Fresh(s, ops, clear)
  <2>1. PICK k \in 1..n : u[k] \in ops /\ \A l \in 1..(k - 1) : u[l] # clear BY <1>2, <1>7 DEF Fresh
  <2>2. ASSUME NEW l \in 1..((k + 1) - 1) PROVE s[l] # clear
    <3>1. l \in 1..(n + 1) /\ (l # 1 => l - 1 \in 1..(k - 1)) BY <1>1, <2>1
    <3>q. QED BY <1>2, <1>4, <1>7, <2>1, <3>1
  <2>q. QED BY <1>1, <1>2, <1>3, <2>1, <2>2 DEF Fresh
<1>8. ASSUME NEW op, NEW ops, FollowedBy(s, op, ops)
      PROVE  FollowedBy(u, op, ops) /\ (Head(s) = op => On(u, ops))
  <2>1. ASSUME NEW k \in 1..n, u[k] = op PROVE \E l \in (k + 1)..n : u[l] \in ops
    <3>1. k + 1 \in 1..(n + 1) /\ s[k + 1] = op BY <1>2, <1>3, <2>1
    <3>2. PICK l \in ((k + 1) + 1)..(n + 1) : s[l] \in ops BY <1>1, <1>8, <3>1 DEF FollowedBy
    <3>3. l \in 1..(n + 1) /\ l # 1 /\ l - 1 \in (k + 1)..n BY <1>1
    <3>q. QED BY <1>4, <3>2, <3>3
  <2>2. ASSUME Head(s) = op PROVE On(u, ops)
    <3>1. PICK l \in (1 + 1)..(n + 1) : s[l] \in ops BY <1>1, <1>2, <1>5, <1>8, <2>2 DEF FollowedBy
    <3>2. l \in 1..(n + 1) /\ l # 1 BY <1>1
    <3>q. QED BY <1>2, <1>4, <3>1, <3>2 DEF On
  <2>q. QED BY <1>2, <2>1, <2>2 DEF FollowedBy
<1>q. QED BY <1>2, <1>6, <1>7, <1>8 DEF u

\* A list of one operation.
LEMMA Single ==
  ASSUME NEW op \in Ops
  PROVE  /\ \A ops : On(<<op>>, ops) <=> op \in ops
         /\ \A ops, clear : Fresh(<<op>>, ops, clear) => op \in ops
         /\ op \notin {"countError", "countSuccess", "halfOpen"} => Ordered(<<op>>)
<1>1. PICK s : s = <<op>> OBVIOUS
<1>2. Len(s) = 1 /\ s[1] = op BY <1>1
<1>3. 1..1 = {1} OBVIOUS
<1>4. \A ops : On(s, ops) <=> op \in ops BY <1>2, <1>3 DEF On
<1>5. \A ops, clear : Fresh(s, ops, clear) => op \in ops BY <1>2, <1>3 DEF Fresh
<1>6. op \notin {"countError", "countSuccess", "halfOpen"} => Ordered(s)
  BY <1>2, <1>3 DEF Ordered, FollowedBy
<1>q. QED BY <1>1, <1>4, <1>5, <1>6

\* There is nothing on the empty list.
LEMMA Nothing ==
  /\ \A ops : ~On(<< >>, ops)
  /\ \A ops, clear : ~Fresh(<< >>, ops, clear)
  /\ Ordered(<< >>)
<1>1. Len(<< >>) = 0 OBVIOUS
<1>2. 1..0 = {} OBVIOUS
<1>q. QED BY <1>1, <1>2 DEF On, Fresh, Ordered, FollowedBy

-----------------------------------------------------------------------------
(* What each step does to the list of a goroutine. *)

\* What is recorded compares what it has counted, and clears the other counter first.
LEMMA RecordedLists ==
  ASSUME NEW ok \in BOOLEAN, NEW r \in {Recorded(ok), RecordedInChain(ok)}
  PROVE  /\ r \in Seq(Ops) /\ Ordered(r) /\ ~On(r, {"probe"}) /\ ~On(r, FrontOnly)
         /\ ~On(r, Failing) \/ ~On(r, Successful)
         /\ ~Fresh(r, Deciding, "clearErrors") /\ ~Fresh(r, Spoiling, "clearSuccesses")
<1> DEFINE Fine(l) == /\ l \in Seq(Ops) /\ Ordered(l) /\ ~On(l, {"probe"}) /\ ~On(l, FrontOnly)
                      /\ ~Fresh(l, Deciding, "clearErrors") /\ ~Fresh(l, Spoiling, "clearSuccesses")
<1>0. 1..4 = {1, 2, 3, 4} /\ 3 \in (2 + 1)..4 /\ 4 \in (2 + 1)..4 /\ 1 \in 1..(3 - 1) /\ 1 \in 1..(4 - 1)
  OBVIOUS
<1>1. Fine(RecordSuccess) /\ ~On(RecordSuccess, Failing)
  <2>1. PICK l : l = RecordSuccess OBVIOUS
  <2>2. /\ Len(l) = 4 /\ l[1] = "clearErrors" /\ l[2] = "countSuccess"
        /\ l[3] = "passiveSuccess" /\ l[4] = "breakerSuccess"
    BY <2>1 DEF RecordSuccess
  <2>3. l \in Seq(Ops) BY <2>1 DEF RecordSuccess, Ops
  <2>4. ~On(l, {"probe"}) /\ ~On(l, FrontOnly) /\ ~On(l, Failing)
    BY <1>0, <2>2 DEF On, FrontOnly, Failing
  <2>5. Ordered(l) BY <1>0, <2>2 DEF Ordered, FollowedBy
  <2>6. ~Fresh(l, Deciding, "clearErrors") /\ ~Fresh(l, Spoiling, "clearSuccesses")
    BY <1>0, <2>2 DEF Fresh, Deciding, Spoiling
  <2>q. QED BY <2>1, <2>3, <2>4, <2>5, <2>6
<1>2. Fine(RecordError) /\ ~On(RecordError, Successful)
  <2>1. PICK l : l = RecordError OBVIOUS
  <2>2. /\ Len(l) = 4 /\ l[1] = "clearSuccesses" /\ l[2] = "countError"
        /\ l[3] = "passiveError" /\ l[4] = "breakerError"
    BY <2>1 DEF RecordError
  <2>3. l \in Seq(Ops) BY <2>1 DEF RecordError, Ops
  <2>4. ~On(l, {"probe"}) /\ ~On(l, FrontOnly) /\ ~On(l, Successful)
    BY <1>0, <2>2 DEF On, FrontOnly, Successful
  <2>5. Ordered(l) BY <1>0, <2>2 DEF Ordered, FollowedBy
  <2>6. ~Fresh(l, Deciding, "clearErrors") /\ ~Fresh(l, Spoiling, "clearSuccesses")
    BY <1>0, <2>2 DEF Fresh, Deciding, Spoiling
  <2>q. QED BY <2>1, <2>3, <2>4, <2>5, <2>6
<1>3. ASSUME NEW l, Fine(l) PROVE Fine(l \o l) /\ \A ops : ~On(l, ops) => ~On(l \o l, ops)
  BY <1>3, Joined
<1>4. PICK l : Fine(l) /\ l = Recorded(ok) /\ (~On(l, Failing) \/ ~On(l, Successful))
  BY <1>1, <1>2 DEF Recorded
<1>5. r = l \/ r = l \o l BY <1>4 DEF RecordedInChain
<1>q. QED BY <1>3, <1>4, <1>5

\* Where a list is gone on with, more comes before the rest.
LEMMA Continued ==
  ASSUME HealthInv, NEW g \in Goroutines, ~Idle(g), NEW more \in Seq(Ops), Then(g, more)
  PROVE  /\ \A h \in Goroutines \ {g} : todo'[h] = todo[h]
         /\ \A ops : Has(g, ops) <=> Head(todo[g]) \in ops \/ On(Tail(todo[g]), ops)
         /\ \A ops : Has(g, ops)' <=> On(more, ops) \/ On(Tail(todo[g]), ops)
         /\ Ordered(more) /\ Ordered(todo[g]) => Ordered(todo'[g])
         /\ \A ops, clear : Fresh(todo'[g], ops, clear) =>
              \/ Fresh(more, ops, clear)
              \/ ~On(more, {clear}) /\ Fresh(Tail(todo[g]), ops, clear)
         /\ \A ops, clear : Fresh(Tail(todo[g]), ops, clear) =>
              Fresh(todo[g], ops, clear) \/ Head(todo[g]) = clear
<1>1. PICK s \in Seq(Ops) : s = todo[g] /\ s # << >> BY DEF HealthInv, TypeOK, Idle
<1>2. PICK u \in Seq(Ops) : u = Tail(s) BY <1>1, Rest
<1>3. /\ \A ops : On(s, ops) <=> Head(s) \in ops \/ On(u, ops)
      /\ \A ops, clear : Fresh(u, ops, clear) => Fresh(s, ops, clear) \/ Head(s) = clear
      /\ \A op, ops : FollowedBy(s, op, ops) => FollowedBy(u, op, ops)
  BY <1>1, <1>2, Rest
<1>4. PICK n \in Seq(Ops) : n = more \o u BY Joined
<1>5. /\ \A ops : On(n, ops) <=> On(more, ops) \/ On(u, ops)
      /\ Ordered(more) /\ Ordered(u) => Ordered(n)
      /\ \A ops, clear : Fresh(n, ops, clear) =>
           Fresh(more, ops, clear) \/ (~On(more, {clear}) /\ Fresh(u, ops, clear))
  BY <1>4, Joined
<1>6. todo'[g] = n /\ \A h \in Goroutines \ {g} : todo'[h] = todo[h]
  BY <1>1, <1>2, <1>4, ThenFacts DEF HealthInv, TypeOK
<1>7. Ordered(s) => Ordered(u) BY <1>3 DEF Ordered
<1>8. \A ops : Has(g, ops) <=> On(s, ops) BY <1>1 DEF Has, On
<1>9. \A ops : Has(g, ops)' <=> On(n, ops) BY <1>6 DEF Has, On
<1>q. QED BY <1>1, <1>2, <1>3, <1>5, <1>6, <1>7, <1>8, <1>9

\* What stands first on a list is done before anything is cleared.
LEMMA First ==
  ASSUME HealthInv, NEW g \in Goroutines, NEW op, At(g, op), NEW ops, op \in ops, NEW clear
  PROVE  Fresh(todo[g], ops, clear)
<1>1. PICK s \in Seq(Ops) : s = todo[g] /\ s # << >> /\ Head(s) = op
  BY DEF HealthInv, TypeOK, At, Idle
<1>2. Len(s) \in Nat \ {0} /\ s[1] = op BY <1>1, EmptySeq
<1>3. 1 \in 1..Len(s) /\ 1..(1 - 1) = {} BY <1>2
<1>q. QED BY <1>1, <1>2, <1>3 DEF Fresh

\* What is fresh is on the list.
LEMMA FreshIsOn ==
  ASSUME NEW g, NEW ops, NEW clear, Fresh(todo[g], ops, clear)
  PROVE  Has(g, ops)
BY DEF Fresh, Has

\* A goroutine that has come to the end of its list does anything; one that records goes on
\* recording the same, and changes no target.
Alone == LastOnly \cup {"probe"}

Move(g, more) ==
  /\ ~Idle(g) /\ Then(g, more) /\ Ordered(more) /\ ~On(more, {"probe"})
  /\ ~On(more, Failing) \/ ~On(more, Successful)
  /\ \/ Head(todo[g]) \in Alone
     \/ /\ Head(todo[g]) \notin Alone /\ UNCHANGED callVars
        /\ On(more, Successful) => Head(todo[g]) \in Successful
        /\ On(more, Failing) => Head(todo[g]) \in Failing
  /\ Fresh(more, Deciding, "clearErrors") => Head(todo[g]) \in Deciding
  /\ Fresh(more, Spoiling, "clearSuccesses") => Head(todo[g]) \in Spoiling
  /\ UNCHANGED <<method, sent>> \/ Head(todo[g]) = "call"
  /\ \A h \in Goroutines \ {g} : target'[h] = target[h]

\* The short lists.
LEMMA ShortLists ==
  /\ \A op \in {"next", "askCircuit", "askStatus", "recoverState", "recoverTime", "refuse", "call", "stamp"} :
       /\ <<op>> \in Seq(Ops) /\ Ordered(<<op>>) /\ \A ops : On(<<op>>, ops) <=> op \in ops
       /\ \A ops, clear : Fresh(<<op>>, ops, clear) => op \in ops
  /\ \A op \in {"heal", "sicken", "open"} :
       /\ <<op>> \in Seq(Ops) /\ Ordered(<<op>>) /\ \A ops : On(<<op>>, ops) <=> op \in ops
       /\ \A ops, clear : Fresh(<<op>>, ops, clear) => op \in ops
  /\ <<"close", "heal">> \in Seq(Ops) /\ Ordered(<<"close", "heal">>)
  /\ \A ops : On(<<"close", "heal">>, ops) <=> "close" \in ops \/ "heal" \in ops
  /\ \A ops, clear : Fresh(<<"close", "heal">>, ops, clear) => "close" \in ops \/ "heal" \in ops
<1>1. \A op \in {"next", "askCircuit", "askStatus", "recoverState", "recoverTime", "refuse", "call", "stamp",
                 "heal", "sicken", "open", "close"} :
        op \in Ops /\ op \notin {"countError", "countSuccess", "halfOpen"}
  BY DEF Ops
<1>2. \A op \in Ops : <<op>> \in Seq(Ops) OBVIOUS
<1>3. PICK l : l = <<"close", "heal">> OBVIOUS
<1>4. Len(l) = 2 /\ l[1] = "close" /\ l[2] = "heal" /\ l \in Seq(Ops) BY <1>3 DEF Ops
<1>5. 1..2 = {1, 2} OBVIOUS
<1>6. Ordered(l) BY <1>4, <1>5 DEF Ordered, FollowedBy
<1>7. \A ops : On(l, ops) <=> "close" \in ops \/ "heal" \in ops BY <1>4, <1>5 DEF On
<1>8. \A ops, clear : Fresh(l, ops, clear) => "close" \in ops \/ "heal" \in ops BY <1>4, <1>5 DEF Fresh
<1>q. QED BY <1>1, <1>2, <1>3, <1>4, <1>6, <1>7, <1>8, Single

\* The list of a recovery: the circuit is half-open before its counters are cleared.
LEMMA RecoveryList ==
  ASSUME NEW r, r = <<"halfOpen", "clearErrors", "clearSuccesses", "call">>
  PROVE  /\ r \in Seq(Ops) /\ Ordered(r) /\ ~On(r, {"probe"}) /\ ~On(r, Successful)
         /\ ~Fresh(r, Deciding, "clearErrors") /\ ~Fresh(r, Spoiling, "clearSuccesses")
<1>1. /\ Len(r) = 4 /\ r[1] = "halfOpen" /\ r[2] = "clearErrors" /\ r[3] = "clearSuccesses" /\ r[4] = "call"
      /\ r \in Seq(Ops)
  BY DEF Ops
<1>2. 1..4 = {1, 2, 3, 4} /\ 3 \in (1 + 1)..4 OBVIOUS
<1>3. ~On(r, {"probe"}) /\ ~On(r, Successful) BY <1>1, <1>2 DEF On, Successful
<1>4. Ordered(r) BY <1>1, <1>2 DEF Ordered, FollowedBy
<1>5. ~Fresh(r, Deciding, "clearErrors") /\ ~Fresh(r, Spoiling, "clearSuccesses")
  BY <1>1, <1>2 DEF Fresh, Deciding, Spoiling
<1>q. QED BY <1>1, <1>3, <1>4, <1>5

\* Every step of a goroutine is such a move.
LEMMA Moves ==
  ASSUME HealthInv, NEW g \in Goroutines, Run(g)
  PROVE  \E more \in Seq(Ops) : Move(g, more)
<1> USE DEF At
<1>0. << >> \in Seq(Ops) OBVIOUS
<1>1. CASE ClearErrors(g) \/ ClearSuccesses(g) \/ CountSuccess(g) \/ CountError(g) \/ Stamp(g)
  <2>1. /\ Then(g, << >>) /\ UNCHANGED callVars /\ ~Idle(g)
        /\ Head(todo[g]) \in {"clearErrors", "clearSuccesses", "countSuccess", "countError", "stamp"}
    BY <1>1 DEF ClearErrors, ClearSuccesses, CountSuccess, CountError, Stamp
  <2>q. QED BY <1>0, <2>1, Nothing DEF Move, Alone, LastOnly, Ahead, Asking, callVars
<1>2. CASE Close(g) \/ Open(g) \/ HalfOpen(g) \/ Heal(g) \/ Sicken(g)
  <2>1. /\ Then(g, << >>) \/ Then(g, <<"stamp">>)
        /\ UNCHANGED callVars /\ ~Idle(g)
        /\ Head(todo[g]) \in {"close", "open", "halfOpen", "heal", "sicken"}
    BY <1>2 DEF Close, Open, HalfOpen, Heal, Sicken, SetCircuitState, SetStatus, ThenIf
  <2>q. QED BY <1>0, <2>1, Nothing, ShortLists
            DEF Move, Alone, LastOnly, Ahead, Asking, callVars, Successful, Failing, Deciding, Spoiling
<1>3. CASE PassiveSuccess(g) \/ BreakerSuccess(g) \/ PassiveError(g) \/ BreakerError(g)
  <2>1. PICK more \in {<< >>, <<"heal">>, <<"sicken">>, <<"open">>, <<"close", "heal">>} :
          /\ Then(g, more) /\ UNCHANGED callVars /\ ~Idle(g)
          /\ Head(todo[g]) \in {"passiveSuccess", "breakerSuccess", "passiveError", "breakerError"}
          /\ more \in {<<"heal">>, <<"close", "heal">>} => Head(todo[g]) \in {"passiveSuccess", "breakerSuccess"}
          /\ more = <<"sicken">> => Head(todo[g]) = "passiveError"
          /\ more = <<"open">> => Head(todo[g]) = "breakerError"
    BY <1>3 DEF PassiveSuccess, BreakerSuccess, PassiveError, BreakerError, Decide, ThenIf
  <2>2. CASE more = << >>
    BY <1>0, <2>1, <2>2, Nothing DEF Move, Alone, LastOnly, Ahead, Asking, callVars
  <2>3. CASE more # << >>
    BY <2>1, <2>3, ShortLists
    DEF Move, Alone, LastOnly, Ahead, Asking, callVars, Successful, Failing, Deciding, Spoiling
  <2>q. QED BY <2>2, <2>3
<1>4. CASE AskCircuit(g) \/ AskStatus(g) \/ RecoverState(g) \/ RecoverTime(g)
  <2>1. /\ Head(todo[g]) \in Alone /\ ~Idle(g) /\ UNCHANGED callVars
        /\ \/ \E op \in {"askStatus", "recoverState", "recoverTime", "refuse", "call"} : Then(g, <<op>>)
           \/ Then(g, <<"halfOpen", "clearErrors", "clearSuccesses", "call">>)
    BY <1>4 DEF AskCircuit, AskStatus, RecoverState, RecoverTime, Alone, LastOnly, Ahead, Asking
  <2>2. CASE \E op \in {"askStatus", "recoverState", "recoverTime", "refuse", "call"} : Then(g, <<op>>)
    BY <2>1, <2>2, ShortLists DEF Move, callVars, Successful, Failing, Deciding, Spoiling
  <2>3. CASE Then(g, <<"halfOpen", "clearErrors", "clearSuccesses", "call">>)
    BY <2>1, <2>3, RecoveryList DEF Move, callVars
  <2>q. QED BY <2>1, <2>2, <2>3
<1>5. CASE PickPrimary(g) \/ Refuse(g) \/ Retry(g)
  <2>1. /\ Head(todo[g]) \in Alone /\ ~Idle(g) /\ UNCHANGED <<method, sent>>
        /\ Then(g, << >>) \/ \E op \in {"next", "askCircuit", "call"} : Then(g, <<op>>)
    BY <1>5 DEF PickPrimary, Refuse, Retry, Decide, ThenIf, callVars, Alone, LastOnly, Ahead, Asking
  <2>2. \A h \in Goroutines \ {g} : target'[h] = target[h]
    BY <1>5 DEF PickPrimary, Refuse, Retry, Decide, callVars, HealthInv, TypeOK
  <2>q. QED BY <1>0, <2>1, <2>2, Nothing, ShortLists DEF Move, Successful, Failing, Deciding, Spoiling
<1>6. CASE Call(g)
  <2>1. /\ Head(todo[g]) \in Alone /\ ~Idle(g) /\ Head(todo[g]) = "call" /\ target' = target
        /\ \/ \E ok \in BOOLEAN : Then(g, RecordedInChain(ok))
           \/ Then(g, Append(RecordedInChain(FALSE), "retry"))
    BY <1>6 DEF Call, Alone, LastOnly, Ahead
  <2>2. CASE \E ok \in BOOLEAN : Then(g, RecordedInChain(ok))
    BY <2>1, <2>2, RecordedLists DEF Move
  <2>3. CASE Then(g, Append(RecordedInChain(FALSE), "retry"))
    <3>1. PICK r \in Seq(Ops) :
            /\ r = RecordedInChain(FALSE) /\ Ordered(r) /\ ~On(r, {"probe"})
            /\ ~On(r, Failing) \/ ~On(r, Successful)
            /\ ~Fresh(r, Deciding, "clearErrors") /\ ~Fresh(r, Spoiling, "clearSuccesses")
      BY RecordedLists
    <3>2. /\ <<"retry">> \in Seq(Ops) /\ Ordered(<<"retry">>) /\ \A ops : On(<<"retry">>, ops) <=> "retry" \in ops
          /\ \A ops, clear : Fresh(<<"retry">>, ops, clear) => "retry" \in ops
      BY Single DEF Ops
    <3>3. PICK n \in Seq(Ops) : n = r \o <<"retry">> BY <3>2, Joined
    <3>4. /\ \A ops : On(n, ops) <=> On(r, ops) \/ "retry" \in ops
          /\ Ordered(n)
          /\ \A ops, clear : Fresh(n, ops, clear) => Fresh(r, ops, clear) \/ "retry" \in ops
      BY <3>1, <3>2, <3>3, Joined
    <3>6. /\ Ordered(n) /\ ~On(n, {"probe"})
          /\ ~On(n, Failing) \/ ~On(n, Successful)
          /\ ~Fresh(n, Deciding, "clearErrors") /\ ~Fresh(n, Spoiling, "clearSuccesses")
      BY <3>1, <3>4 DEF Failing, Successful, Deciding, Spoiling
    <3>5. Append(r, "retry") = n BY <3>1, <3>3, AppendIsConcat DEF Ops
    <3>q. QED BY <2>1, <2>3, <3>1, <3>5, <3>6 DEF Move
  <2>q. QED BY <2>1, <2>2, <2>3
<1>7. CASE ProbeAnswered(g)
  <2>1. /\ Head(todo[g]) \in Alone /\ ~Idle(g) /\ UNCHANGED callVars
        /\ \E ok \in BOOLEAN : Then(g, Recorded(ok))
    BY <1>7 DEF ProbeAnswered, Alone, Recorded
  <2>q. QED BY <2>1, RecordedLists DEF Move, callVars
<1>q. QED BY <1>1, <1>2, <1>3, <1>4, <1>5, <1>6, <1>7 DEF Run, Record, Select

\* Where the list is one operation long, nothing comes after it.
LEMMA NothingElse ==
  ASSUME HealthInv, PureInv, NEW g \in Goroutines, ~Idle(g),
         Head(todo[g]) \in Alone \/ Has(g, {"probe"})
  PROVE  /\ \A ops : ~On(Tail(todo[g]), ops)
         /\ \A ops, clear : ~Fresh(Tail(todo[g]), ops, clear)
<1>1. PICK s \in Seq(Ops) : s = todo[g] /\ s # << >> BY DEF HealthInv, TypeOK, Idle
<1>2. PICK n \in Nat : n = Len(s) BY <1>1
<1>3. n # 0 /\ Head(s) = s[1] BY <1>1, <1>2, EmptySeq
<1>4. ASSUME Head(s) \in LastOnly PROVE n = 1
  <2>1. \A k \in 1..(n - 1) : s[k] \notin LastOnly BY <1>1, <1>2 DEF HealthInv, ListInv
  <2>2. n # 1 => 1 \in 1..(n - 1) BY <1>3
  <2>q. QED BY <1>3, <1>4, <2>1, <2>2
<1>5. ASSUME Head(s) = "probe" \/ Has(g, {"probe"}) PROVE n = 1
  <2>1. 1 \in 1..n BY <1>3
  <2>2. Has(g, {"probe"}) BY <1>1, <1>2, <1>3, <1>5, <2>1 DEF Has
  <2>q. QED BY <1>1, <1>2, <2>2 DEF PureInv
<1>6. Len(s) = 1 BY <1>1, <1>2, <1>4, <1>5 DEF Alone
<1>7. Tail(s) \in Seq(Ops) /\ Len(Tail(s)) = 0
  <2>1. Tail(s) \in Seq(Ops) BY <1>1, Rest
  <2>2. Len(Tail(s)) = Len(s) - 1 BY <1>6
  <2>q. QED BY <1>6, <2>1, <2>2
<1>8. Tail(s) = << >> BY <1>7, EmptySeq
<1>q. QED BY <1>1, <1>8, Nothing

\* The lists stay ordered and pure, whoever else runs.
LEMMA ListsStep ==
  ASSUME HealthInv, OrderInv, PureInv, [Next]_vars
  PROVE  OrderInv' /\ PureInv'
<1>1. ASSUME NEW g \in Goroutines, Run(g) PROVE OrderInv' /\ PureInv'
  <2>1. PICK more \in Seq(Ops) : Move(g, more) BY <1>1, Moves
  <2>2. ~Idle(g) /\ Then(g, more) BY <2>1 DEF Move
  <2>3. /\ \A h \in Goroutines \ {g} : todo'[h] = todo[h]
        /\ \A ops : Has(g, ops) <=> Head(todo[g]) \in ops \/ On(Tail(todo[g]), ops)
        /\ \A ops : Has(g, ops)' <=> On(more, ops) \/ On(Tail(todo[g]), ops)
        /\ Ordered(more) /\ Ordered(todo[g]) => Ordered(todo'[g])
    BY <2>2, Continued
  <2>4. OrderInv' BY <2>1, <2>3 DEF OrderInv, Move
  <2>5. ~Has(g, {"probe"})'
    <3>1. ~On(Tail(todo[g]), {"probe"}) BY <2>2, <2>3, NothingElse
    <3>q. QED BY <2>1, <2>3, <3>1 DEF Move
  <2>6. ~Has(g, Successful)' \/ ~Has(g, Failing)'
    <3>1. CASE Head(todo[g]) \in Alone
      <4>1. \A ops : ~On(Tail(todo[g]), ops) BY <2>2, <3>1, NothingElse
      <4>q. QED BY <2>1, <2>3, <4>1 DEF Move
    <3>2. CASE Head(todo[g]) \notin Alone
      <4>1. Has(g, Successful)' => Has(g, Successful) BY <2>1, <2>3, <3>2 DEF Move
      <4>2. Has(g, Failing)' => Has(g, Failing) BY <2>1, <2>3, <3>2 DEF Move
      <4>q. QED BY <4>1, <4>2 DEF PureInv
    <3>q. QED BY <3>1, <3>2
  <2>7. ASSUME NEW h \in Goroutines \ {g}
        PROVE  /\ ~Has(h, Successful)' \/ ~Has(h, Failing)'
               /\ Has(h, {"probe"})' => Len(todo'[h]) = 1
    BY <2>3 DEF PureInv, Has
  <2>q. QED BY <2>4, <2>5, <2>6, <2>7 DEF PureInv
<1>2. ASSUME NEW g \in Goroutines, NEW op \in {"next", "probe"}, todo' = [todo EXCEPT ![g] = <<op>>]
      PROVE  OrderInv' /\ PureInv'
  <2>1. todo'[g] = <<op>> /\ \A h \in Goroutines \ {g} : todo'[h] = todo[h]
    BY <1>2 DEF HealthInv, TypeOK
  <2>2. op \in Ops /\ op \notin {"countError", "countSuccess", "halfOpen"} /\ op \notin Successful
    BY DEF Ops, Successful
  <2>3. Ordered(<<op>>) /\ ~On(<<op>>, Successful) /\ Len(<<op>>) = 1 BY <2>2, Single
  <2>4. ~Has(g, Successful)' BY <2>1, <2>3 DEF Has, On
  <2>q. QED BY <2>1, <2>3, <2>4 DEF OrderInv, PureInv, Has
<1>3. CASE UNCHANGED todo BY <1>3 DEF OrderInv, PureInv, Has
<1>q. QED
  <2>1. CASE \E w \in Workers, m \in Methods : Arrive(w, m) BY <1>2, <2>1 DEF Arrive, Goroutines
  <2>2. CASE \E p \in Probes, t \in Targets : Check(p, t) BY <1>2, <2>2 DEF Check, Goroutines
  <2>3. CASE Tick \/ (\E t \in Targets : Break(t) \/ Repair(t)) \/ UNCHANGED vars
    BY <1>3, <2>3 DEF Tick, Break, Repair, vars
  <2>q. QED BY <1>1, <2>1, <2>2, <2>3 DEF Next

\* Counters are counted up by the goroutine that counts, and cleared by any.
LEMMA Counters ==
  ASSUME HealthInv, NEW g \in Goroutines, Run(g)
  PROVE  /\ \A t \in Targets : errors'[t] \in {errors[t], 0} \/ (t = target[g] /\ At(g, "countError"))
         /\ \A t \in Targets : successes'[t] \in {successes[t], 0} \/ (t = target[g] /\ At(g, "countSuccess"))
         /\ At(g, "clearErrors") => errors'[target[g]] = 0
         /\ At(g, "clearSuccesses") => successes'[target[g]] = 0
<1> USE DEF HealthInv, TypeOK
<1>1. CASE ClearErrors(g) BY <1>1 DEF ClearErrors, At
<1>2. CASE ClearSuccesses(g) BY <1>2 DEF ClearSuccesses, At
<1>3. CASE CountError(g) BY <1>3 DEF CountError, At
<1>4. CASE CountSuccess(g) BY <1>4 DEF CountSuccess, At
<1>5. CASE Stamp(g) \/ Close(g) \/ Open(g) \/ HalfOpen(g) \/ Heal(g) \/ Sicken(g)
  BY <1>5 DEF Stamp, Close, Open, HalfOpen, Heal, Sicken, SetCircuitState, SetStatus, At
<1>6. CASE PassiveSuccess(g) \/ BreakerSuccess(g) \/ PassiveError(g) \/ BreakerError(g)
  BY <1>6 DEF PassiveSuccess, BreakerSuccess, PassiveError, BreakerError, Decide, healthVars, At
<1>7. CASE AskCircuit(g) \/ AskStatus(g) \/ RecoverState(g) \/ RecoverTime(g) \/ ProbeAnswered(g)
  BY <1>7 DEF AskCircuit, AskStatus, RecoverState, RecoverTime, ProbeAnswered, healthVars, At
<1>8. CASE PickPrimary(g) \/ Refuse(g) \/ Retry(g) \/ Call(g)
  BY <1>8 DEF PickPrimary, Refuse, Retry, Call, Decide, healthVars, At
<1>q. QED BY <1>1, <1>2, <1>3, <1>4, <1>5, <1>6, <1>7, <1>8 DEF Run, Record, Select

\* Who decides has counted: nobody who is about to call the target healthy counts errors, and
\* while it is, nobody else does.
LEMMA Unmixing ==
  ASSUME HealthInv, PureInv, Unmixed, NEW g \in Goroutines, NEW h \in Goroutines, target[g] = target[h]
  PROVE  /\ Fresh(todo[h], Deciding, "clearErrors") => ~At(g, "countError")
         /\ Fresh(todo[h], Spoiling, "clearSuccesses") => ~At(g, "countSuccess")
<1>1. ASSUME Fresh(todo[h], Deciding, "clearErrors"), At(g, "countError") PROVE FALSE
  <2>1. Has(h, Successful) BY <1>1, FreshIsOn, ZenonT(60) DEF Has, Deciding, Successful
  <2>2. Has(g, Failing) BY <1>1, HeadIsOn DEF Failing, HealthInv, TypeOK
  <2>q. QED BY <2>1, <2>2 DEF Unmixed
<1>2. ASSUME Fresh(todo[h], Spoiling, "clearSuccesses"), At(g, "countSuccess") PROVE FALSE
  <2>1. Has(h, Failing) BY <1>2, FreshIsOn DEF Has, Spoiling, Failing
  <2>2. Has(g, Successful) BY <1>2, HeadIsOn DEF Successful, HealthInv, TypeOK
  <2>q. QED BY <2>1, <2>2 DEF Unmixed
<1>q. QED BY <1>1, <1>2

\* What a goroutine has cleared stays cleared until it decides.
LEMMA ClearedStep ==
  ASSUME HealthInv, PureInv, ClearedInv, Unmixed, [Next]_vars
  PROVE  ClearedInv'
<1>0. target \in [Goroutines -> Targets] BY DEF HealthInv, TypeOK
<1>1. ASSUME NEW g \in Goroutines, Run(g) PROVE ClearedInv'
  <2>1. PICK more \in Seq(Ops) : Move(g, more) BY <1>1, Moves
  <2>2. ~Idle(g) /\ Then(g, more) BY <2>1 DEF Move
  <2>3. /\ \A h \in Goroutines \ {g} : todo'[h] = todo[h] /\ target'[h] = target[h]
        /\ \A ops, clear : Fresh(todo'[g], ops, clear) =>
              \/ Fresh(more, ops, clear)
              \/ ~On(more, {clear}) /\ Fresh(Tail(todo[g]), ops, clear)
        /\ \A ops, clear : Fresh(Tail(todo[g]), ops, clear) =>
              Fresh(todo[g], ops, clear) \/ Head(todo[g]) = clear
    <3>1. \A h \in Goroutines \ {g} : target'[h] = target[h] BY <2>1 DEF Move
    <3>2. \A h \in Goroutines \ {g} : todo'[h] = todo[h] BY <2>2, Continued
    <3>3. \A ops, clear : Fresh(todo'[g], ops, clear) =>
              \/ Fresh(more, ops, clear)
              \/ ~On(more, {clear}) /\ Fresh(Tail(todo[g]), ops, clear)
      BY <2>2, Continued
    <3>4. \A ops, clear : Fresh(Tail(todo[g]), ops, clear) =>
              Fresh(todo[g], ops, clear) \/ Head(todo[g]) = clear
      BY <2>2, Continued
    <3>q. QED BY <3>1, <3>2, <3>3, <3>4
  <2>4. /\ \A t \in Targets : errors'[t] \in {errors[t], 0} \/ (t = target[g] /\ At(g, "countError"))
        /\ \A t \in Targets : successes'[t] \in {successes[t], 0} \/ (t = target[g] /\ At(g, "countSuccess"))
        /\ At(g, "clearErrors") => errors'[target[g]] = 0
        /\ At(g, "clearSuccesses") => successes'[target[g]] = 0
    BY <1>1, Counters
  <2>5. ASSUME NEW h \in Goroutines \ {g}
        PROVE  /\ Fresh(todo'[h], Deciding, "clearErrors") => errors'[target'[h]] = 0
               /\ Fresh(todo'[h], Spoiling, "clearSuccesses") => successes'[target'[h]] = 0
    <3>1. todo'[h] = todo[h] /\ target'[h] = target[h] /\ target[h] \in Targets BY <1>0, <2>3
    <3>2. ASSUME Fresh(todo[h], Deciding, "clearErrors") PROVE errors'[target[h]] = 0
      <4>1. errors[target[h]] = 0 BY <3>2 DEF ClearedInv
      <4>2. ~(target[h] = target[g] /\ At(g, "countError")) BY <3>2, Unmixing
      <4>q. QED BY <2>4, <3>1, <4>1, <4>2
    <3>3. ASSUME Fresh(todo[h], Spoiling, "clearSuccesses") PROVE successes'[target[h]] = 0
      <4>1. successes[target[h]] = 0 BY <3>3 DEF ClearedInv
      <4>2. ~(target[h] = target[g] /\ At(g, "countSuccess")) BY <3>3, Unmixing
      <4>q. QED BY <2>4, <3>1, <4>1, <4>2
    <3>q. QED BY <3>1, <3>2, <3>3
  <2>6. Head(todo[g]) \in Deciding \union Spoiling => Head(todo[g]) \notin Alone
    BY DEF Deciding, Spoiling, Alone, LastOnly, Ahead, Asking
  <2>7. ASSUME NEW ops \in {Deciding, Spoiling}, NEW clear,
               Fresh(more, ops, clear) => Head(todo[g]) \in ops, Fresh(todo'[g], ops, clear)
        PROVE  target'[g] = target[g] /\ (Fresh(todo[g], ops, clear) \/ At(g, clear))
    <3>1. CASE Fresh(more, ops, clear)
      <4>1. Head(todo[g]) \in ops /\ Head(todo[g]) \notin Alone BY <2>6, <2>7, <3>1
      <4>2. target' = target BY <2>1, <4>1 DEF Move, callVars
      <4>3. Fresh(todo[g], ops, clear) BY <2>2, <4>1, First DEF At
      <4>q. QED BY <4>2, <4>3
    <3>2. CASE Fresh(Tail(todo[g]), ops, clear)
      <4>1. Head(todo[g]) \notin Alone BY <2>2, <3>2, NothingElse
      <4>2. target' = target BY <2>1, <4>1 DEF Move, callVars
      <4>q. QED BY <2>2, <2>3, <3>2, <4>2 DEF At
    <3>q. QED BY <2>3, <2>7, <3>1, <3>2
  <2>8. ASSUME Fresh(todo'[g], Deciding, "clearErrors") PROVE errors'[target'[g]] = 0
    <3>1. Fresh(more, Deciding, "clearErrors") => Head(todo[g]) \in Deciding BY <2>1 DEF Move
    <3>2. target'[g] = target[g] /\ (Fresh(todo[g], Deciding, "clearErrors") \/ At(g, "clearErrors"))
      BY <2>7, <2>8, <3>1
    <3>3. Fresh(todo[g], Deciding, "clearErrors") => ~At(g, "countError") BY Unmixing
    <3>q. QED BY <1>0, <2>4, <3>2, <3>3 DEF ClearedInv
  <2>9. ASSUME Fresh(todo'[g], Spoiling, "clearSuccesses") PROVE successes'[target'[g]] = 0
    <3>1. Fresh(more, Spoiling, "clearSuccesses") => Head(todo[g]) \in Spoiling BY <2>1 DEF Move
    <3>2. target'[g] = target[g] /\ (Fresh(todo[g], Spoiling, "clearSuccesses") \/ At(g, "clearSuccesses"))
      BY <2>7, <2>9, <3>1
    <3>3. Fresh(todo[g], Spoiling, "clearSuccesses") => ~At(g, "countSuccess") BY Unmixing
    <3>q. QED BY <1>0, <2>4, <3>2, <3>3 DEF ClearedInv
  <2>q. QED BY <2>5, <2>8, <2>9 DEF ClearedInv
<1>2. ASSUME NEW g \in Goroutines, NEW op \in {"next", "probe"}, todo' = [todo EXCEPT ![g] = <<op>>],
             \A h \in Goroutines \ {g} : target'[h] = target[h], UNCHANGED healthVars
      PROVE  ClearedInv'
  <2>1. todo'[g] = <<op>> /\ \A h \in Goroutines \ {g} : todo'[h] = todo[h]
    BY <1>2 DEF HealthInv, TypeOK
  <2>2. op \in Ops /\ op \notin Deciding /\ op \notin Spoiling BY DEF Ops, Deciding, Spoiling
  <2>3. ~Fresh(<<op>>, Deciding, "clearErrors") /\ ~Fresh(<<op>>, Spoiling, "clearSuccesses")
    BY <2>2, Single
  <2>q. QED BY <1>2, <2>1, <2>3 DEF ClearedInv, healthVars
<1>3. CASE UNCHANGED <<errors, successes, todo, target>> BY <1>3 DEF ClearedInv
<1>q. QED
  <2>1. ASSUME NEW w \in Workers, NEW m \in Methods, Arrive(w, m) PROVE ClearedInv'
    BY <1>2, <2>1 DEF Arrive, Goroutines
  <2>2. ASSUME NEW p \in Probes, NEW t \in Targets, Check(p, t) PROVE ClearedInv'
    <3>1. target' = [target EXCEPT ![p] = t] BY <2>2 DEF Check
    <3>2. \A h \in Goroutines \ {p} : target'[h] = target[h] BY <1>0, <3>1
    <3>q. QED BY <1>2, <2>2, <3>2 DEF Check, Goroutines
  <2>3. CASE Tick \/ (\E t \in Targets : Break(t) \/ Repair(t)) \/ UNCHANGED vars
    BY <1>3, <2>3 DEF Tick, Break, Repair, vars, healthVars, callVars
  <2>q. QED BY <1>1, <2>1, <2>2, <2>3 DEF Next

\* What somebody has yet to do stays to be done, unless it is what is done next.
LEMMA PendingKept ==
  ASSUME HealthInv, PureInv, NEW g \in Goroutines, Run(g), NEW t \in Targets, NEW ops, Pending(t, ops),
         t # target[g] \/ Head(todo[g]) \notin ops
  PROVE  Pending(t, ops)'
<1>1. PICK more \in Seq(Ops) : Move(g, more) BY Moves
<1>2. ~Idle(g) /\ Then(g, more) /\ \A h \in Goroutines \ {g} : target'[h] = target[h] BY <1>1 DEF Move
<1>3. /\ \A h \in Goroutines \ {g} : todo'[h] = todo[h]
      /\ Has(g, ops) <=> Head(todo[g]) \in ops \/ On(Tail(todo[g]), ops)
      /\ Has(g, ops)' <=> On(more, ops) \/ On(Tail(todo[g]), ops)
  BY <1>2, Continued
<1>4. PICK h \in Goroutines : target[h] = t /\ Has(h, ops) BY DEF Pending
<1>5. CASE h # g BY <1>2, <1>3, <1>4, <1>5 DEF Pending, Has
<1>6. CASE h = g
  <2>1. On(Tail(todo[g]), ops) BY <1>3, <1>4, <1>6
  <2>2. Head(todo[g]) \notin Alone BY <1>2, <2>1, NothingElse
  <2>3. target' = target BY <1>1, <2>2 DEF Move, callVars
  <2>q. QED BY <1>3, <1>4, <1>6, <2>1, <2>3 DEF Pending
<1>q. QED BY <1>5, <1>6

\* What is put on a list, and what follows there, is yet to be done.
LEMMA NowPending ==
  ASSUME HealthInv, NEW g \in Goroutines, ~Idle(g), NEW more \in Seq(Ops), Then(g, more),
         target' = target, NEW ops, On(more, ops) \/ On(Tail(todo[g]), ops),
         NEW t, t = target[g]
  PROVE  Pending(t, ops)'
<1>1. Has(g, ops)' BY Continued
<1>q. QED BY <1>1 DEF Pending

\* What is counted is compared later, by the same goroutine.
LEMMA ComparedLater ==
  ASSUME HealthInv, OrderInv, NEW g \in Goroutines
  PROVE  /\ At(g, "countError") => On(Tail(todo[g]), {"passiveError"}) /\ On(Tail(todo[g]), {"breakerError"})
         /\ At(g, "countSuccess") => On(Tail(todo[g]), {"passiveSuccess"}) /\ On(Tail(todo[g]), {"breakerSuccess"})
         /\ At(g, "halfOpen") => On(Tail(todo[g]), {"clearSuccesses"})
<1>1. SUFFICES ASSUME ~Idle(g) PROVE
         /\ At(g, "countError") => On(Tail(todo[g]), {"passiveError"}) /\ On(Tail(todo[g]), {"breakerError"})
         /\ At(g, "countSuccess") => On(Tail(todo[g]), {"passiveSuccess"}) /\ On(Tail(todo[g]), {"breakerSuccess"})
         /\ At(g, "halfOpen") => On(Tail(todo[g]), {"clearSuccesses"})
  BY DEF At
<1>2. PICK s \in Seq(Ops) : s = todo[g] /\ s # << >> BY <1>1 DEF HealthInv, TypeOK, Idle
<1>3. \A op, ops : FollowedBy(s, op, ops) /\ Head(s) = op => On(Tail(s), ops) BY <1>2, Rest
<1>4. Ordered(s) BY <1>2 DEF OrderInv
<1>q. QED BY <1>2, <1>3, <1>4 DEF Ordered, At

\* A goroutine changes the record of its target only.
LEMMA OtherRecords ==
  ASSUME HealthInv, NEW g \in Goroutines, Run(g), NEW t \in Targets, t # target[g]
  PROVE  /\ errors'[t] = errors[t] /\ successes'[t] = successes[t]
         /\ status'[t] = status[t] /\ circuit'[t] = circuit[t]
         /\ since'[t] = since[t] /\ openFor'[t] = openFor[t]
<1> USE DEF HealthInv, TypeOK
<1>1. CASE ClearErrors(g) BY <1>1 DEF ClearErrors
<1>2. CASE ClearSuccesses(g) BY <1>2 DEF ClearSuccesses
<1>3. CASE CountError(g) BY <1>3 DEF CountError
<1>4. CASE CountSuccess(g) BY <1>4 DEF CountSuccess
<1>5. CASE Stamp(g) BY <1>5 DEF Stamp
<1>6. CASE Close(g) \/ Open(g) \/ HalfOpen(g) BY <1>6, SMTT(60) DEF Close, Open, HalfOpen, SetCircuitState
<1>7. CASE Heal(g) \/ Sicken(g) BY <1>7 DEF Heal, Sicken, SetStatus
<1>8. CASE PassiveSuccess(g) \/ BreakerSuccess(g) \/ PassiveError(g) \/ BreakerError(g)
  BY <1>8 DEF PassiveSuccess, BreakerSuccess, PassiveError, BreakerError, Decide, healthVars
<1>9. CASE AskCircuit(g) \/ AskStatus(g) \/ RecoverState(g) \/ RecoverTime(g) \/ ProbeAnswered(g)
  BY <1>9 DEF AskCircuit, AskStatus, RecoverState, RecoverTime, ProbeAnswered, healthVars
<1>10. CASE PickPrimary(g) \/ Refuse(g) \/ Retry(g) \/ Call(g)
  BY <1>10 DEF PickPrimary, Refuse, Retry, Call, Decide, healthVars
<1>q. QED BY <1>1, <1>2, <1>3, <1>4, <1>5, <1>6, <1>7, <1>8, <1>9, <1>10 DEF Run, Record, Select

\* A step that makes state and counters of a target disagree leaves somebody to look at them.
LEMMA AgreeStep ==
  ASSUME HealthInv, OrderInv, PureInv, ClearedInv, AgreeInv, Registered,
         NEW g \in Goroutines, Run(g), NEW t \in Targets
  PROVE  Agree(t)'
<1>1. Agree(t) BY DEF AgreeInv
<1>2. /\ UnhealthyThreshold \in Nat \ {0} /\ FailureThreshold \in Nat \ {0}
      /\ HealthyThreshold \in Nat \ {0} /\ HalfOpenSuccessThreshold \in Nat \ {0}
  BY ConstantsAssumption DEF ConstantsAssumption
<1>3. \A ops : Pending(t, ops) /\ (t # target[g] \/ Head(todo[g]) \notin ops) => Pending(t, ops)'
  BY PendingKept
<1>4. CASE t # target[g]
  <2>1. \A ops : Pending(t, ops) => Pending(t, ops)' BY <1>3, <1>4
  <2>q. QED BY <1>1, <1>4, <2>1, OtherRecords DEF Agree
<1>5. CASE t = target[g]
  <2> DEFINE A1 == errors'[t] >= UnhealthyThreshold => status'[t] = "unhealthy" \/ Pending(t, Spoiling)'
             A2 == errors'[t] >= FailureThreshold => circuit'[t] # "closed" \/ Pending(t, {"breakerError", "open"})'
             A3 == successes'[t] >= HealthyThreshold => status'[t] = "healthy" \/ Pending(t, {"passiveSuccess", "heal"})'
             A4 == successes'[t] >= HalfOpenSuccessThreshold =>
                     circuit'[t] # "half-open" \/ Pending(t, {"breakerSuccess", "close", "clearSuccesses"})'
  <2>1. errors'[t] = errors[t] /\ status'[t] = status[t] /\ Head(todo[g]) \notin Spoiling => A1
    BY <1>1, <1>3 DEF Agree
  <2>2. errors'[t] = errors[t] /\ circuit'[t] = circuit[t] /\ Head(todo[g]) \notin {"breakerError", "open"} => A2
    BY <1>1, <1>3 DEF Agree
  <2>3. successes'[t] = successes[t] /\ status'[t] = status[t] /\ Head(todo[g]) \notin {"passiveSuccess", "heal"} => A3
    BY <1>1, <1>3 DEF Agree
  <2>4. /\ successes'[t] = successes[t] /\ circuit'[t] = circuit[t]
        /\ Head(todo[g]) \notin {"breakerSuccess", "close", "clearSuccesses"}
        => A4
    BY <1>1, <1>3 DEF Agree
  <2>5. A1 /\ A2 /\ A3 /\ A4 => Agree(t)' BY DEF Agree
  <2>6. errors'[t] = 0 => A1 /\ A2 BY <1>2
  <2>7. successes'[t] = 0 => A3 /\ A4 BY <1>2
  <2>8. << >> \in Seq(Ops) OBVIOUS
  <2>9. ASSUME NEW more \in Seq(Ops), ~Idle(g), Then(g, more), UNCHANGED callVars,
               NEW ops, On(more, ops) \/ On(Tail(todo[g]), ops)
        PROVE  Pending(t, ops)'
    BY <1>5, <2>9, NowPending DEF callVars
  <2>0. /\ <<"heal">> \in Seq(Ops) /\ On(<<"heal">>, {"passiveSuccess", "heal"})
        /\ <<"sicken">> \in Seq(Ops) /\ On(<<"sicken">>, Spoiling)
        /\ <<"open">> \in Seq(Ops) /\ On(<<"open">>, {"breakerError", "open"})
        /\ <<"close", "heal">> \in Seq(Ops)
        /\ On(<<"close", "heal">>, {"breakerSuccess", "close", "clearSuccesses"})
    BY ShortLists DEF Spoiling
  <2> HIDE DEF A1, A2, A3, A4
  <2> USE <1>5
  <2>10. CASE ClearErrors(g)
    <3>1. errors'[t] = 0 /\ UNCHANGED <<successes, status, circuit>> /\ Head(todo[g]) = "clearErrors"
      BY <2>10 DEF ClearErrors, At, HealthInv, TypeOK
    <3>q. QED BY <2>3, <2>4, <2>5, <2>6, <3>1
  <2>11. CASE ClearSuccesses(g)
    <3>1. successes'[t] = 0 /\ UNCHANGED <<errors, status, circuit>> /\ Head(todo[g]) = "clearSuccesses"
      BY <2>11 DEF ClearSuccesses, At, HealthInv, TypeOK
    <3>q. QED BY <2>1, <2>2, <2>5, <2>7, <3>1 DEF Spoiling
  <2>12. CASE CountError(g)
    <3>1. /\ UNCHANGED <<successes, status, circuit>> /\ At(g, "countError") /\ Then(g, << >>)
          /\ UNCHANGED callVars
      BY <2>12 DEF CountError
    <3>2. ~Idle(g) /\ Head(todo[g]) = "countError" BY <3>1 DEF At
    <3>3. On(Tail(todo[g]), Spoiling) /\ On(Tail(todo[g]), {"breakerError", "open"})
      BY <3>1, ComparedLater DEF On, Spoiling
    <3>4. Pending(t, Spoiling)' /\ Pending(t, {"breakerError", "open"})' BY <2>8, <2>9, <3>1, <3>2, <3>3
    <3>5. A1 /\ A2 BY <3>4 DEF A1, A2
    <3>q. QED BY <2>3, <2>4, <2>5, <3>1, <3>2, <3>5
  <2>13. CASE CountSuccess(g)
    <3>1. /\ UNCHANGED <<errors, status, circuit>> /\ At(g, "countSuccess") /\ Then(g, << >>)
          /\ UNCHANGED callVars
      BY <2>13 DEF CountSuccess
    <3>2. ~Idle(g) /\ Head(todo[g]) = "countSuccess" BY <3>1 DEF At
    <3>3. /\ On(Tail(todo[g]), {"passiveSuccess", "heal"})
          /\ On(Tail(todo[g]), {"breakerSuccess", "close", "clearSuccesses"})
      BY <3>1, ComparedLater DEF On
    <3>4. Pending(t, {"passiveSuccess", "heal"})' /\ Pending(t, {"breakerSuccess", "close", "clearSuccesses"})'
      BY <2>8, <2>9, <3>1, <3>2, <3>3
    <3>5. A3 /\ A4 BY <3>4 DEF A3, A4
    <3>q. QED BY <2>1, <2>2, <2>5, <3>1, <3>2, <3>5 DEF Spoiling
  <2>14. CASE PassiveSuccess(g)
    <3>1. /\ UNCHANGED <<errors, successes, status, circuit>> /\ Head(todo[g]) = "passiveSuccess" /\ ~Idle(g)
          /\ UNCHANGED callVars
          /\ IF successes[t] >= HealthyThreshold /\ status[t] = "unhealthy"
             THEN Then(g, <<"heal">>) ELSE TRUE
      BY <2>14 DEF PassiveSuccess, Decide, ThenIf, healthVars, At
    <3>2. A3
      <4>1. CASE successes[t] >= HealthyThreshold /\ status[t] = "unhealthy"
        <5>1. Pending(t, {"passiveSuccess", "heal"})' BY <2>0, <2>9, <3>1, <4>1
        <5>q. QED BY <5>1 DEF A3
      <4>2. CASE ~(successes[t] >= HealthyThreshold /\ status[t] = "unhealthy")
        BY <3>1, <4>2 DEF A3, HealthInv, TypeOK
      <4>q. QED BY <4>1, <4>2
    <3>q. QED BY <2>1, <2>2, <2>4, <2>5, <3>1, <3>2 DEF Spoiling
  <2>15. CASE BreakerSuccess(g)
    <3>1. /\ UNCHANGED <<errors, successes, status, circuit>> /\ Head(todo[g]) = "breakerSuccess" /\ ~Idle(g)
          /\ UNCHANGED callVars
          /\ IF circuit[t] = "half-open" /\ successes[t] >= HalfOpenSuccessThreshold
             THEN Then(g, <<"close", "heal">>) ELSE TRUE
      BY <2>15 DEF BreakerSuccess, Decide, ThenIf, healthVars, At
    <3>2. A4
      <4>1. CASE circuit[t] = "half-open" /\ successes[t] >= HalfOpenSuccessThreshold
        <5>1. Pending(t, {"breakerSuccess", "close", "clearSuccesses"})' BY <2>0, <2>9, <3>1, <4>1
        <5>q. QED BY <5>1 DEF A4
      <4>2. CASE ~(circuit[t] = "half-open" /\ successes[t] >= HalfOpenSuccessThreshold)
        BY <3>1, <4>2 DEF A4
      <4>q. QED BY <4>1, <4>2
    <3>q. QED BY <2>1, <2>2, <2>3, <2>5, <3>1, <3>2 DEF Spoiling
  <2>16. CASE PassiveError(g)
    <3>1. /\ UNCHANGED <<errors, successes, status, circuit>> /\ Head(todo[g]) = "passiveError" /\ ~Idle(g)
          /\ UNCHANGED callVars
          /\ IF errors[t] >= UnhealthyThreshold THEN Then(g, <<"sicken">>) ELSE TRUE
      BY <2>16 DEF PassiveError, Decide, ThenIf, healthVars, At
    <3>2. A1
      <4>1. CASE errors[t] >= UnhealthyThreshold
        <5>1. Pending(t, Spoiling)' BY <2>0, <2>9, <3>1, <4>1
        <5>q. QED BY <5>1 DEF A1
      <4>2. CASE ~(errors[t] >= UnhealthyThreshold) BY <3>1, <4>2 DEF A1
      <4>q. QED BY <4>1, <4>2
    <3>q. QED BY <2>2, <2>3, <2>4, <2>5, <3>1, <3>2
  <2>17. CASE BreakerError(g)
    <3>1. /\ UNCHANGED <<errors, successes, status, circuit>> /\ Head(todo[g]) = "breakerError" /\ ~Idle(g)
          /\ UNCHANGED callVars
          /\ IF circuit[t] = "half-open" \/ (circuit[t] = "closed" /\ errors[t] >= FailureThreshold)
             THEN Then(g, <<"open">>) ELSE TRUE
      BY <2>17 DEF BreakerError, Decide, ThenIf, healthVars, At
    <3>2. A2
      <4>1. CASE circuit[t] = "closed" /\ errors[t] >= FailureThreshold
        <5>1. Pending(t, {"breakerError", "open"})' BY <2>0, <2>9, <3>1, <4>1
        <5>q. QED BY <5>1 DEF A2
      <4>2. CASE ~(circuit[t] = "closed" /\ errors[t] >= FailureThreshold) BY <3>1, <4>2 DEF A2
      <4>q. QED BY <4>1, <4>2
    <3>q. QED BY <2>1, <2>3, <2>4, <2>5, <3>1, <3>2 DEF Spoiling
  <2>18. CASE Close(g)
    <3>1. /\ UNCHANGED <<errors, successes, status>> /\ circuit'[t] = "closed" /\ At(g, "close")
      BY <2>18 DEF Close, SetCircuitState, HealthInv, TypeOK
    <3>2. errors[t] = 0
      <4>1. Fresh(todo[g], Deciding, "clearErrors") BY <3>1, First DEF Deciding
      <4>q. QED BY <4>1 DEF ClearedInv
    <3>3. A4 BY <3>1 DEF A4
    <3>q. QED BY <2>3, <2>5, <2>6, <3>1, <3>2, <3>3 DEF At
  <2>19. CASE Open(g)
    <3>1. /\ UNCHANGED <<errors, successes, status>> /\ circuit'[t] = "open" /\ Head(todo[g]) = "open"
      BY <2>19 DEF Open, SetCircuitState, HealthInv, TypeOK, At
    <3>2. A2 /\ A4 BY <3>1 DEF A2, A4
    <3>q. QED BY <2>1, <2>3, <2>5, <3>1, <3>2 DEF Spoiling
  <2>20. CASE HalfOpen(g)
    <3>1. /\ UNCHANGED <<errors, successes, status>> /\ circuit'[t] = "half-open" /\ At(g, "halfOpen")
          /\ UNCHANGED callVars
          /\ Then(g, << >>) \/ Then(g, <<"stamp">>)
      BY <2>20 DEF HalfOpen, SetCircuitState, ThenIf, HealthInv, TypeOK
    <3>2. On(Tail(todo[g]), {"breakerSuccess", "close", "clearSuccesses"}) BY <3>1, ComparedLater DEF On
    <3>3. ~Idle(g) /\ Head(todo[g]) = "halfOpen" /\ <<"stamp">> \in Seq(Ops) BY <3>1, ShortLists DEF At
    <3>4. Pending(t, {"breakerSuccess", "close", "clearSuccesses"})' BY <2>8, <2>9, <3>1, <3>2, <3>3
    <3>5. A2 /\ A4 BY <3>1, <3>4 DEF A2, A4
    <3>q. QED BY <2>1, <2>3, <2>5, <3>1, <3>3, <3>5 DEF Spoiling
  <2>21. CASE Heal(g)
    <3>1. /\ UNCHANGED <<errors, successes, circuit>> /\ status'[t] = "healthy" /\ At(g, "heal")
      BY <2>21 DEF Heal, SetStatus, HealthInv, TypeOK
    <3>2. errors[t] = 0
      <4>1. Fresh(todo[g], Deciding, "clearErrors") BY <3>1, First DEF Deciding
      <4>q. QED BY <4>1 DEF ClearedInv
    <3>3. A3 BY <3>1 DEF A3
    <3>q. QED BY <2>4, <2>5, <2>6, <3>1, <3>2, <3>3 DEF At
  <2>22. CASE Sicken(g)
    <3>1. /\ UNCHANGED <<errors, successes, circuit>> /\ status'[t] = "unhealthy" /\ At(g, "sicken")
      BY <2>22 DEF Sicken, SetStatus, HealthInv, TypeOK
    <3>2. successes[t] = 0
      <4>1. Fresh(todo[g], Spoiling, "clearSuccesses") BY <3>1, First DEF Spoiling
      <4>q. QED BY <4>1 DEF ClearedInv
    <3>3. A1 BY <3>1 DEF A1
    <3>q. QED BY <2>2, <2>5, <2>7, <3>1, <3>2, <3>3 DEF At
  <2>23. ASSUME UNCHANGED <<errors, successes, status, circuit>>,
                Head(todo[g]) \in Alone \union {"stamp"}
         PROVE  Agree(t)'
    <3>1. Head(todo[g]) \notin Spoiling \union {"breakerError", "open", "passiveSuccess", "heal",
                                                "breakerSuccess", "close", "clearSuccesses"}
      BY <2>23 DEF Alone, LastOnly, Ahead, Asking, Spoiling
    <3>q. QED BY <2>1, <2>2, <2>3, <2>4, <2>5, <2>23, <3>1
  <2>24. CASE Stamp(g) BY <2>23, <2>24 DEF Stamp, At
  <2>25. CASE Select(g)
    BY <2>23, <2>25 DEF Select, PickPrimary, AskCircuit, AskStatus, RecoverState, RecoverTime, Refuse,
                        At, Alone, LastOnly, Ahead, Asking, healthVars
  <2>26. CASE Call(g) \/ Retry(g) \/ ProbeAnswered(g)
    BY <2>23, <2>26 DEF Call, Retry, ProbeAnswered, Decide, At, Alone, LastOnly, Ahead, healthVars
  <2>q. QED BY <2>10, <2>11, <2>12, <2>13, <2>14, <2>15, <2>16, <2>17, <2>18, <2>19, <2>20, <2>21, <2>22,
               <2>24, <2>25, <2>26 DEF Run, Record
<1>q. QED BY <1>4, <1>5

-----------------------------------------------------------------------------
(* How long a circuit stays open. *)

\* What can only come first on a list does so because it was just decided.
LEMMA FrontThen ==
  ASSUME HealthInv, FrontInv, NEW g \in Goroutines, ~Idle(g), NEW more \in Seq(Ops), Then(g, more),
         \A k \in 2..Len(more) : more[k] \notin FrontOnly
  PROVE  /\ FrontInv'
         /\ \A op \in FrontOnly : At(g, op)' => more # << >> /\ more[1] = op
<1>1. /\ todo' \in [Goroutines -> Seq(Ops)]
      /\ \A h \in Goroutines \ {g} : todo'[h] = todo[h]
      /\ Len(todo'[g]) = Len(more) + Len(todo[g]) - 1
      /\ \A k \in 1..Len(more) : todo'[g][k] = more[k]
      /\ \A k \in (Len(more) + 1)..Len(todo'[g]) :
           /\ k - Len(more) + 1 \in 2..Len(todo[g])
           /\ todo'[g][k] = todo[g][k - Len(more) + 1]
  BY ThenFacts DEF HealthInv, TypeOK
<1>2. PICK m \in Nat, n \in Nat : m = Len(more) /\ n = Len(todo'[g]) BY <1>1
<1>3. ASSUME NEW k \in 1..n, k > m PROVE todo'[g][k] \notin FrontOnly
  <2>1. k \in (m + 1)..n BY <1>2, <1>3
  <2>2. k - Len(more) + 1 \in 2..Len(todo[g]) /\ todo'[g][k] = todo[g][k - Len(more) + 1]
    BY <1>1, <1>2, <2>1
  <2>q. QED BY <2>2 DEF FrontInv
<1>4. ASSUME NEW k \in 2..n PROVE todo'[g][k] \notin FrontOnly
  <2>1. CASE k > m
    <3>1. k \in 1..n BY <1>2
    <3>q. QED BY <1>3, <2>1, <3>1
  <2>2. CASE ~(k > m)
    <3>1. k \in 1..m /\ k \in 2..m BY <1>2, <2>2
    <3>q. QED BY <1>1, <1>2, <3>1
  <2>q. QED BY <2>1, <2>2
<1>5. FrontInv' BY <1>1, <1>2, <1>4 DEF FrontInv
<1>6. ASSUME NEW op \in FrontOnly, At(g, op)' PROVE more # << >> /\ more[1] = op
  <2>1. todo'[g] \in Seq(Ops) /\ todo'[g] # << >> /\ Head(todo'[g]) = op
    BY <1>1, <1>6 DEF At, Idle
  <2>2. n # 0 /\ todo'[g][1] = op BY <1>2, <2>1, EmptySeq
  <2>3. 1 \in 1..n BY <1>2, <2>2
  <2>4. ~(1 > m) BY <1>3, <2>2, <2>3
  <2>5. 1 \in 1..m BY <1>2, <2>4
  <2>q. QED BY <1>1, <1>2, <2>2, <2>5, EmptySeq
<1>q. QED BY <1>5, <1>6

\* A circuit is opened, closed, or half-opened after it was looked at, and no operation that does
\* so waits behind another.
LEMMA FrontStep ==
  ASSUME HealthInv, FrontInv, NEW g \in Goroutines, Run(g)
  PROVE  /\ FrontInv'
         /\ At(g, "open")' => UNCHANGED <<healthVars, target>> /\ circuit[target[g]] # "open"
         /\ At(g, "close")' => UNCHANGED <<healthVars, target>> /\ circuit[target[g]] = "half-open"
         /\ At(g, "recoverTime")' => UNCHANGED <<healthVars, target>> /\ circuit[target[g]] = "open"
         /\ At(g, "halfOpen")' => /\ UNCHANGED <<healthVars, target>> /\ At(g, "recoverTime")
                                  /\ since[target[g]] >= RecoveryTime \/ BeingStamped(target[g])
<1> DEFINE Quietly(more) == more \in Seq(Ops) /\ Then(g, more) /\ ~Idle(g) /\ \A k \in 1..Len(more) : more[k] \notin FrontOnly
<1>0. {"open", "close", "recoverTime", "halfOpen"} = FrontOnly BY DEF FrontOnly
<1>1. ASSUME NEW more, Quietly(more)
      PROVE  FrontInv' /\ \A op \in FrontOnly : ~At(g, op)'
  <2>1. Len(more) \in Nat BY <1>1
  <2>2. \A k \in 2..Len(more) : k \in 1..Len(more) BY <2>1
  <2>3. more # << >> => 1 \in 1..Len(more) BY <1>1, <2>1, EmptySeq
  <2>q. QED BY <1>1, <2>2, <2>3, FrontThen
<1>2. ASSUME NEW op \in Ops, Then(g, <<op>>), ~Idle(g)
      PROVE  FrontInv' /\ \A x \in FrontOnly : At(g, x)' => x = op
  <2>1. PICK l \in Seq(Ops) : l = <<op>> BY OneOp
  <2>2. Len(l) = 1 /\ l[1] = op BY <2>1
  <2>3. \A k \in 2..1 : l[k] \notin FrontOnly OBVIOUS
  <2>q. QED BY <1>2, <2>1, <2>2, <2>3, FrontThen
<1>3. Then(g, << >>) /\ ~Idle(g) => \E more : Quietly(more)
  <2>1. << >> \in Seq(Ops) /\ Len(<< >>) = 0 OBVIOUS
  <2>2. 1..0 = {} OBVIOUS
  <2>q. QED BY <2>1, <2>2
<1>4. \A op \in Ops \ FrontOnly : Then(g, <<op>>) /\ ~Idle(g) => \E more : Quietly(more)
  <2>1. SUFFICES ASSUME NEW op \in Ops \ FrontOnly, Then(g, <<op>>), ~Idle(g)
                 PROVE  \E more : Quietly(more)
    OBVIOUS
  <2>2. PICK l \in Seq(Ops) : l = <<op>> BY OneOp
  <2>3. Len(l) = 1 /\ l[1] = op BY <2>2
  <2>4. \A k \in 1..1 : k = 1 OBVIOUS
  <2>q. QED BY <2>1, <2>2, <2>3, <2>4
<1>5. /\ {"stamp", "heal", "sicken", "askCircuit", "askStatus", "refuse", "call", "next"} \subseteq Ops \ FrontOnly
      /\ {"open", "recoverTime", "recoverState"} \subseteq Ops /\ "recoverState" \notin FrontOnly
  BY DEF Ops, FrontOnly
<1> HIDE DEF Quietly
<1>6. CASE ClearErrors(g) \/ ClearSuccesses(g) \/ CountSuccess(g) \/ CountError(g) \/ Stamp(g)
  <2>1. Then(g, << >>) /\ ~Idle(g)
    BY <1>6 DEF ClearErrors, ClearSuccesses, CountSuccess, CountError, Stamp, At
  <2>q. QED BY <1>0, <1>1, <1>3, <2>1
<1>7. CASE Close(g) \/ Open(g) \/ HalfOpen(g) \/ Heal(g) \/ Sicken(g)
  <2>1. (Then(g, << >>) \/ Then(g, <<"stamp">>)) /\ ~Idle(g)
    BY <1>7 DEF Close, Open, HalfOpen, Heal, Sicken, SetCircuitState, SetStatus, ThenIf, At
  <2>q. QED BY <1>0, <1>1, <1>3, <1>4, <1>5, <2>1
<1>8. CASE PassiveSuccess(g) \/ PassiveError(g)
  <2>1. (Then(g, << >>) \/ Then(g, <<"heal">>) \/ Then(g, <<"sicken">>)) /\ ~Idle(g)
    BY <1>8 DEF PassiveSuccess, PassiveError, Decide, ThenIf, At
  <2>q. QED BY <1>0, <1>1, <1>3, <1>4, <1>5, <2>1
<1>9. CASE BreakerError(g)
  <2>1. /\ UNCHANGED <<healthVars, target>> /\ ~Idle(g)
        /\ Then(g, << >>) \/ (circuit[target[g]] # "open" /\ Then(g, <<"open">>))
    BY <1>9 DEF BreakerError, Decide, ThenIf, callVars, At
  <2>2. CASE Then(g, << >>) BY <1>0, <1>1, <1>3, <2>1, <2>2
  <2>3. CASE circuit[target[g]] # "open" /\ Then(g, <<"open">>) BY <1>0, <1>2, <1>5, <2>1, <2>3
  <2>q. QED BY <2>1, <2>2, <2>3
<1>10. CASE BreakerSuccess(g)
  <2>1. /\ UNCHANGED <<healthVars, target>> /\ ~Idle(g)
        /\ Then(g, << >>) \/ (circuit[target[g]] = "half-open" /\ Then(g, <<"close", "heal">>))
    BY <1>10 DEF BreakerSuccess, Decide, ThenIf, callVars, At
  <2>2. CASE Then(g, << >>) BY <1>0, <1>1, <1>3, <2>1, <2>2
  <2>3. CASE circuit[target[g]] = "half-open" /\ Then(g, <<"close", "heal">>)
    <3>1. PICK l \in Seq(Ops) : l = <<"close", "heal">> BY ShortLists
    <3>2. Len(l) = 2 /\ l[1] = "close" /\ l[2] = "heal" BY <3>1
    <3>3. 2..2 = {2} OBVIOUS
    <3>4. \A k \in 2..Len(l) : l[k] \notin FrontOnly BY <3>2, <3>3 DEF FrontOnly
    <3>5. FrontInv' /\ \A op \in FrontOnly : At(g, op)' => op = "close" BY <2>1, <2>3, <3>1, <3>2, <3>4, FrontThen
    <3>q. QED BY <1>0, <2>1, <2>3, <3>5
  <2>q. QED BY <2>1, <2>2, <2>3
<1>11. CASE PickPrimary(g) \/ Refuse(g) \/ AskStatus(g) \/ AskCircuit(g) \/ Retry(g)
  <2>1. (Then(g, << >>) \/ \E op \in Ops \ FrontOnly : Then(g, <<op>>)) /\ ~Idle(g)
    BY <1>5, <1>11 DEF PickPrimary, Refuse, AskStatus, AskCircuit, Retry, Decide, ThenIf, At
  <2>q. QED BY <1>0, <1>1, <1>3, <1>4, <2>1
<1>12. CASE RecoverState(g)
  <2>1. /\ UNCHANGED <<healthVars, target>> /\ ~Idle(g)
        /\ Then(g, <<"refuse">>) \/ (circuit[target[g]] = "open" /\ Then(g, <<"recoverTime">>))
    BY <1>12 DEF RecoverState, callVars, At
  <2>2. CASE Then(g, <<"refuse">>) BY <1>0, <1>1, <1>4, <1>5, <2>1, <2>2
  <2>3. CASE circuit[target[g]] = "open" /\ Then(g, <<"recoverTime">>) BY <1>0, <1>2, <1>5, <2>1, <2>3
  <2>q. QED BY <2>1, <2>2, <2>3
<1>13. CASE RecoverTime(g)
  <2>1. /\ UNCHANGED <<healthVars, target>> /\ ~Idle(g) /\ At(g, "recoverTime")
        /\ \/ Then(g, <<"refuse">>)
           \/ /\ since[target[g]] >= RecoveryTime \/ BeingStamped(target[g])
              /\ Then(g, <<"halfOpen", "clearErrors", "clearSuccesses", "call">>)
    BY <1>13 DEF RecoverTime, callVars, At
  <2>2. CASE Then(g, <<"refuse">>) BY <1>0, <1>1, <1>4, <1>5, <2>1, <2>2
  <2>3. CASE /\ since[target[g]] >= RecoveryTime \/ BeingStamped(target[g])
             /\ Then(g, <<"halfOpen", "clearErrors", "clearSuccesses", "call">>)
    <3>1. PICK l : l = <<"halfOpen", "clearErrors", "clearSuccesses", "call">> OBVIOUS
    <3>2. l \in Seq(Ops) BY <3>1, RecoveryList
    <3>3. Len(l) = 4 /\ l[1] = "halfOpen" /\ l[2] = "clearErrors" /\ l[3] = "clearSuccesses" /\ l[4] = "call"
      BY <3>1
    <3>4. 2..4 = {2, 3, 4} OBVIOUS
    <3>5. \A k \in 2..Len(l) : l[k] \notin FrontOnly BY <3>3, <3>4 DEF FrontOnly
    <3>6. FrontInv' /\ \A op \in FrontOnly : At(g, op)' => op = "halfOpen"
      BY <2>1, <2>3, <3>1, <3>2, <3>3, <3>5, FrontThen
    <3>q. QED BY <1>0, <2>1, <2>3, <3>6
  <2>q. QED BY <2>1, <2>2, <2>3
<1>14. CASE Call(g) \/ ProbeAnswered(g)
  <2>1. PICK more \in Seq(Ops) : Then(g, more) /\ ~Idle(g) /\ ~On(more, FrontOnly)
    <3>1. \A ok \in BOOLEAN : \A r \in {Recorded(ok), RecordedInChain(ok)} : r \in Seq(Ops) /\ ~On(r, FrontOnly)
      BY RecordedLists
    <3>2. CASE Call(g) /\ Then(g, Append(RecordedInChain(FALSE), "retry"))
      <4>1. PICK r \in Seq(Ops) : r = RecordedInChain(FALSE) /\ ~On(r, FrontOnly) BY <3>1
      <4>2. "retry" \in Ops /\ "retry" \notin FrontOnly BY DEF Ops, FrontOnly
      <4>5. <<"retry">> \in Seq(Ops) /\ ~On(<<"retry">>, FrontOnly) BY <4>2, Single, OneOp
      <4>3. PICK n \in Seq(Ops) : n = r \o <<"retry">> /\ ~On(n, FrontOnly) BY <4>1, <4>5, Joined
      <4>4. Append(r, "retry") = n BY <4>1, <4>2, <4>3, AppendIsConcat
      <4>q. QED BY <3>2, <4>1, <4>3, <4>4 DEF Call, At
    <3>3. CASE Call(g) /\ ~Then(g, Append(RecordedInChain(FALSE), "retry")) BY <3>1, <3>3 DEF Call, At
    <3>4. CASE ProbeAnswered(g) BY <3>1, <3>4 DEF ProbeAnswered, At, Recorded
    <3>q. QED BY <1>14, <3>2, <3>3, <3>4
  <2>2. Quietly(more) BY <2>1 DEF Quietly, On
  <2>q. QED BY <1>0, <1>1, <2>2
<1>q. QED BY <1>6, <1>7, <1>8, <1>9, <1>10, <1>11, <1>12, <1>13, <1>14 DEF Run, Record, Select

\* The lock-free fields of a target change only as the goroutine that is at it says.
LEMMA CircuitFacts ==
  ASSUME HealthInv, NEW g \in Goroutines, Run(g), NEW t \in Targets
  PROVE  \/ circuit'[t] = circuit[t] /\ openFor'[t] = openFor[t] /\ since'[t] = since[t] /\ ~At(g, "stamp")
         \/ t # target[g] /\ circuit'[t] = circuit[t] /\ openFor'[t] = openFor[t] /\ since'[t] = since[t]
         \/ Stamp(g) /\ t = target[g] /\ circuit'[t] = circuit[t] /\ openFor'[t] = openFor[t] /\ since'[t] = 0
         \/ Close(g) /\ t = target[g] /\ circuit'[t] = "closed" /\ openFor'[t] = openFor[t]
         \/ HalfOpen(g) /\ t = target[g] /\ circuit'[t] = "half-open" /\ openFor'[t] = openFor[t]
         \/ Open(g) /\ t = target[g] /\ circuit'[t] = "open"
<1>1. CASE t # target[g] BY <1>1, OtherRecords
<1>2. CASE t = target[g]
  <2> USE DEF HealthInv, TypeOK
  <2>1. CASE Stamp(g) BY <1>2, <2>1 DEF Stamp
  <2>2. CASE Close(g) BY <1>2, <2>2 DEF Close, SetCircuitState
  <2>3. CASE Open(g) BY <1>2, <2>3 DEF Open, SetCircuitState
  <2>4. CASE HalfOpen(g) BY <1>2, <2>4 DEF HalfOpen, SetCircuitState
  <2>5. CASE ClearErrors(g) \/ ClearSuccesses(g) \/ CountSuccess(g) \/ CountError(g)
    BY <2>5 DEF ClearErrors, ClearSuccesses, CountSuccess, CountError, At
  <2>6. CASE Heal(g) \/ Sicken(g) BY <2>6 DEF Heal, Sicken, SetStatus, At
  <2>7. CASE PassiveSuccess(g) \/ BreakerSuccess(g) \/ PassiveError(g) \/ BreakerError(g)
    BY <2>7 DEF PassiveSuccess, BreakerSuccess, PassiveError, BreakerError, Decide, At, healthVars
  <2>8. CASE AskCircuit(g) \/ AskStatus(g) \/ RecoverState(g) \/ RecoverTime(g) \/ ProbeAnswered(g)
    BY <2>8 DEF AskCircuit, AskStatus, RecoverState, RecoverTime, ProbeAnswered, At, healthVars
  <2>9. CASE PickPrimary(g) \/ Refuse(g) \/ Retry(g) \/ Call(g)
    BY <2>9 DEF PickPrimary, Refuse, Retry, Call, Decide, At, healthVars
  <2>q. QED BY <2>1, <2>2, <2>3, <2>4, <2>5, <2>6, <2>7, <2>8, <2>9 DEF Run, Record, Select
<1>q. QED BY <1>1, <1>2

\* Nobody takes a circuit that another decides of, so its times stay true.
LEMMA OpenStep ==
  ASSUME HealthInv, HealthInv', OpenInv, Apart, [Next]_vars
  PROVE  OpenInv'
<1> DEFINE Decided(g) ==
      /\ At(g, "open") => circuit[target[g]] # "open"
      /\ At(g, "close") => circuit[target[g]] = "half-open"
      /\ At(g, "recoverTime") => circuit[target[g]] = "open"
      /\ At(g, "halfOpen") => circuit[target[g]] = "open" /\ openFor[target[g]] >= RecoveryTime
<1>0. /\ target \in [Goroutines -> Targets] /\ openFor \in [Targets -> 0..RecoveryTime]
      /\ since \in [Targets -> 0..RecoveryTime] /\ RecoveryTime \in Nat \ {0}
      /\ \A g \in Goroutines : Decided(g)
      /\ \A t \in Targets : circuit[t] = "open" => since[t] <= openFor[t] \/ BeingStamped(t)
      /\ openFor' \in [Targets -> 0..RecoveryTime]
  BY ConstantsAssumption DEF ConstantsAssumption, HealthInv, TypeOK, OpenInv
<1>1. ASSUME NEW g \in Goroutines, Run(g) PROVE OpenInv'
  <2>1. PICK more \in Seq(Ops) : Move(g, more) BY <1>1, Moves
  <2>2. ~Idle(g) /\ Then(g, more) /\ \A h \in Goroutines \ {g} : target'[h] = target[h] BY <2>1 DEF Move
  <2>3. \A h \in Goroutines \ {g} : todo'[h] = todo[h] BY <2>2, Continued
  <2>4. FrontInv' BY <1>1, FrontStep DEF OpenInv
  <2>5. ASSUME NEW t \in Targets, BeingStamped(t), ~(At(g, "stamp") /\ target[g] = t)
        PROVE  BeingStamped(t)'
    <3>1. PICK h \in Goroutines : At(h, "stamp") /\ target[h] = t BY <2>5 DEF BeingStamped
    <3>2. h # g BY <2>5, <3>1
    <3>3. At(h, "stamp")' /\ target'[h] = t BY <2>2, <2>3, <3>1, <3>2 DEF At, Idle
    <3>q. QED BY <3>3 DEF BeingStamped
  <2>6. ASSUME NEW t \in Targets, circuit'[t] = "open"
        PROVE  since'[t] <= openFor'[t] \/ BeingStamped(t)'
    <3>1. openFor'[t] \in Nat BY <1>0
    <3>2. CASE Stamp(g) /\ t = target[g] /\ since'[t] = 0 BY <3>1, <3>2
    <3>3. CASE Open(g) /\ t = target[g]
      <4>1. At(g, "open") /\ circuit[t] # "open" BY <1>0, <3>3 DEF Open, SetCircuitState
      <4>2. Then(g, <<"stamp">>) /\ target' = target
        BY <3>3, <4>1 DEF Open, SetCircuitState, ThenIf, callVars
      <4>3. <<"stamp">> \in Seq(Ops) /\ Len(<<"stamp">>) = 1 /\ <<"stamp">>[1] = "stamp" BY ShortLists
      <4>4. todo'[g] \in Seq(Ops) /\ Len(todo'[g]) >= 1 /\ todo'[g][1] = "stamp"
        <5>1. /\ todo' \in [Goroutines -> Seq(Ops)]
              /\ Len(todo'[g]) = Len(<<"stamp">>) + Len(todo[g]) - 1
              /\ \A k \in 1..Len(<<"stamp">>) : todo'[g][k] = <<"stamp">>[k]
          BY <2>2, <4>2, <4>3, ThenFacts DEF HealthInv, TypeOK
        <5>2. Len(todo[g]) \in Nat \ {0}
          <6>1. todo[g] \in Seq(Ops) /\ todo[g] # << >> BY <2>2 DEF HealthInv, TypeOK, Idle
          <6>q. QED BY <6>1, EmptySeq
        <5>q. QED BY <4>3, <5>1, <5>2
      <4>5. At(g, "stamp")' BY <4>4, EmptySeq DEF At, Idle
      <4>q. QED BY <3>3, <4>2, <4>5 DEF BeingStamped
    <3>4. CASE /\ circuit'[t] = circuit[t] /\ openFor'[t] = openFor[t] /\ since'[t] = since[t]
               /\ ~(At(g, "stamp") /\ target[g] = t)
      BY <1>0, <2>5, <2>6, <3>4
    <3>q. QED BY <1>1, <2>6, <3>2, <3>3, <3>4, CircuitFacts
  <2>7. ASSUME NEW h \in Goroutines \ {g}, NEW op \in FrontOnly, At(h, op)
        PROVE  circuit'[target[h]] = circuit[target[h]] /\ openFor'[target[h]] = openFor[target[h]]
    <3>1. Busy(h) /\ target[h] \in Targets BY <1>0, <2>7 DEF At, Busy, FrontOnly
    <3>2. ASSUME Close(g) \/ HalfOpen(g) \/ Open(g) PROVE target[h] # target[g]
      <4>1. Busy(g) BY <3>2 DEF Close, HalfOpen, Open, SetCircuitState, Busy, At
      <4>q. QED BY <2>7, <3>1, <4>1 DEF Apart
    <3>q. QED BY <1>1, <3>1, <3>2, CircuitFacts
  <2>8. ASSUME NEW h \in Goroutines \ {g} PROVE Decided(h)'
    <3>1. todo'[h] = todo[h] /\ target'[h] = target[h] BY <2>2, <2>3
    <3>2. \A op \in FrontOnly : At(h, op)' => At(h, op) BY <3>1 DEF At, Idle
    <3>q. QED BY <1>0, <2>7, <3>1, <3>2 DEF FrontOnly
  <2>9. Decided(g)'
    <3>1. ASSUME At(g, "halfOpen")' PROVE circuit'[target'[g]] = "open" /\ openFor'[target'[g]] >= RecoveryTime
      <4>1. /\ UNCHANGED <<healthVars, target>> /\ At(g, "recoverTime")
            /\ since[target[g]] >= RecoveryTime \/ BeingStamped(target[g])
        BY <1>1, <3>1, FrontStep DEF OpenInv
      <4>2. ~BeingStamped(target[g])
        <5>1. SUFFICES ASSUME NEW h \in Goroutines, At(h, "stamp"), target[h] = target[g] PROVE FALSE
          BY DEF BeingStamped
        <5>2. Busy(h) /\ Busy(g) BY <4>1, <5>1 DEF At, Busy
        <5>3. h = g BY <5>1, <5>2 DEF Apart
        <5>q. QED BY <4>1, <5>1, <5>3 DEF At
      <4>3. circuit[target[g]] = "open" /\ target[g] \in Targets BY <1>0, <4>1
      <4>4. since[target[g]] <= openFor[target[g]] BY <1>0, <4>2, <4>3
      <4>q. QED BY <1>0, <4>1, <4>2, <4>3, <4>4 DEF healthVars
    <3>q. QED BY <1>1, <3>1, FrontStep DEF OpenInv, healthVars
  <2>q. QED BY <2>4, <2>6, <2>8, <2>9 DEF OpenInv
<1>2. ASSUME NEW g \in Goroutines, NEW op \in {"next", "probe"}, todo' = [todo EXCEPT ![g] = <<op>>], Idle(g),
             \A h \in Goroutines \ {g} : target'[h] = target[h], UNCHANGED healthVars
      PROVE  OpenInv'
  <2>1. todo'[g] = <<op>> /\ \A h \in Goroutines \ {g} : todo'[h] = todo[h]
    BY <1>2 DEF HealthInv, TypeOK
  <2>2. Head(<<op>>) = op /\ Len(<<op>>) = 1 /\ 2..1 = {} OBVIOUS
  <2>3. FrontInv' BY <2>1, <2>2 DEF OpenInv, FrontInv
  <2>4. \A x \in FrontOnly : ~At(g, x)' BY <2>1, <2>2 DEF At, FrontOnly
  <2>5. \A h \in Goroutines \ {g} : \A x : At(h, x)' <=> At(h, x) BY <2>1 DEF At, Idle
  <2>6. \A t : BeingStamped(t) => BeingStamped(t)' BY <1>2, <2>5 DEF BeingStamped, At
  <2>7. \A h \in Goroutines : Decided(h)' BY <1>0, <1>2, <2>4, <2>5 DEF FrontOnly, healthVars
  <2>q. QED BY <1>0, <1>2, <2>3, <2>6, <2>7 DEF OpenInv, healthVars
<1>3. CASE UNCHANGED <<circuit, since, openFor, todo, target>>
  BY <1>0, <1>3 DEF OpenInv, FrontInv, At, Idle, BeingStamped
<1>4. CASE Tick
  <2>1. UNCHANGED <<circuit, todo, target>> BY <1>4 DEF Tick, callVars
  <2>2. \A t \in Targets : /\ since'[t] = AtMost(RecoveryTime, since[t] + 1)
                           /\ openFor'[t] = AtMost(RecoveryTime, openFor[t] + 1)
    BY <1>4 DEF Tick
  <2>3. \A t \in Targets : /\ since[t] <= openFor[t] => since'[t] <= openFor'[t]
                           /\ openFor[t] >= RecoveryTime => openFor'[t] >= RecoveryTime
    BY <1>0, <2>2 DEF AtMost
  <2>4. \A h \in Goroutines : \A x : At(h, x)' <=> At(h, x) BY <2>1 DEF At, Idle
  <2>5. \A t : BeingStamped(t)' <=> BeingStamped(t) BY <2>1, <2>4 DEF BeingStamped
  <2>6. FrontInv' BY <2>1 DEF OpenInv, FrontInv
  <2>7. \A h \in Goroutines : Decided(h)' BY <1>0, <2>1, <2>3, <2>4
  <2>q. QED BY <1>0, <2>1, <2>3, <2>5, <2>6, <2>7 DEF OpenInv
<1>q. QED
  <2>1. ASSUME NEW w \in Workers, NEW m \in Methods, Arrive(w, m) PROVE OpenInv'
    BY <1>2, <2>1 DEF Arrive, Goroutines
  <2>2. ASSUME NEW p \in Probes, NEW t \in Targets, Check(p, t) PROVE OpenInv'
    <3>1. target' = [target EXCEPT ![p] = t] BY <2>2 DEF Check
    <3>2. \A h \in Goroutines \ {p} : target'[h] = target[h] BY <1>0, <3>1
    <3>q. QED BY <1>2, <2>2, <3>2 DEF Check, Goroutines
  <2>3. CASE (\E t \in Targets : Break(t) \/ Repair(t)) \/ UNCHANGED vars
    BY <1>3, <2>3 DEF Break, Repair, vars, healthVars, callVars
  <2>q. QED BY <1>1, <1>4, <2>1, <2>2, <2>3 DEF Next

\* What else can happen leaves a record as it is, or starts a list.
LEMMA CountersStep ==
  ASSUME HealthInv, CountersInv, Unmixed, [Next]_vars
  PROVE  CountersInv'
<1>1. OrderInv' /\ PureInv' BY ListsStep DEF CountersInv
<1>2. ClearedInv' BY ClearedStep DEF CountersInv
<1>3. ASSUME Registered, NEW t \in Targets PROVE Agree(t)'
  <2>0. Agree(t) BY <1>3 DEF CountersInv, AgreeInv
  <2>1. ASSUME NEW g \in Goroutines, Run(g) PROVE Agree(t)'
    BY <1>3, <2>1, AgreeStep DEF CountersInv
  <2>2. ASSUME UNCHANGED <<errors, successes, status, circuit>>,
               NEW g \in Goroutines, Idle(g),
               \A h \in Goroutines \ {g} : todo'[h] = todo[h] /\ target'[h] = target[h]
        PROVE  Agree(t)'
    <3>1. \A ops : ~Has(g, ops) BY <2>2 DEF Idle, Has
    <3>2. \A ops : Pending(t, ops) => Pending(t, ops)' BY <2>2, <3>1 DEF Pending, Has
    <3>q. QED BY <2>0, <2>2, <3>2 DEF Agree
  <2>3. ASSUME NEW w \in Workers, NEW m \in Methods, Arrive(w, m) PROVE Agree(t)'
    <3>1. /\ UNCHANGED <<errors, successes, status, circuit>> /\ w \in Goroutines /\ Idle(w)
          /\ \A h \in Goroutines \ {w} : todo'[h] = todo[h] /\ target'[h] = target[h]
      BY <2>3 DEF Arrive, healthVars, Goroutines, HealthInv, TypeOK
    <3>q. QED BY <2>2, <3>1
  <2>4. ASSUME NEW p \in Probes, NEW u \in Targets, Check(p, u) PROVE Agree(t)'
    <3>1. /\ UNCHANGED <<errors, successes, status, circuit>> /\ p \in Goroutines /\ Idle(p)
          /\ \A h \in Goroutines \ {p} : todo'[h] = todo[h] /\ target'[h] = target[h]
      BY <2>4 DEF Check, healthVars, Goroutines, HealthInv, TypeOK
    <3>q. QED BY <2>2, <3>1
  <2>5. CASE Tick \/ (\E u \in Targets : Break(u) \/ Repair(u)) \/ UNCHANGED vars
    <3>1. UNCHANGED <<errors, successes, status, circuit, todo, target>>
      BY <2>5 DEF Tick, Break, Repair, vars, healthVars, callVars
    <3>2. \A ops : Pending(t, ops) => Pending(t, ops)' BY <3>1 DEF Pending, Has
    <3>q. QED BY <2>0, <3>1, <3>2 DEF Agree
  <2>q. QED BY <2>1, <2>3, <2>4, <2>5 DEF Next
<1>q. QED BY <1>1, <1>2, <1>3 DEF CountersInv, AgreeInv

\* Nobody who is settled has anything to do that is about the target.
LEMMA SettledHasNothing ==
  ASSUME HealthInv, PureInv, NEW t, Settled(t), NEW ops, "next" \notin ops
  PROVE  ~Pending(t, ops)
<1>1. SUFFICES ASSUME NEW g \in Goroutines, target[g] = t, Has(g, ops) PROVE FALSE
  BY DEF Pending
<1>2. ~Idle(g) BY <1>1 DEF Has, Idle
<1>3. Head(todo[g]) = "next" BY <1>1, <1>2 DEF Settled, At
<1>4. ~On(Tail(todo[g]), ops) BY <1>2, <1>3, NothingElse DEF Alone, LastOnly, Ahead
<1>5. todo[g] \in Seq(Ops) /\ todo[g] # << >> BY <1>2 DEF HealthInv, TypeOK, Idle
<1>6. On(todo[g], ops) <=> Head(todo[g]) \in ops \/ On(Tail(todo[g]), ops) BY <1>5, Rest
<1>q. QED BY <1>1, <1>3, <1>4, <1>6 DEF Has, On

\* In the beginning nothing is to be done and nothing is counted.
LEMMA CountersInit ==
  ASSUME Init PROVE CountersInv /\ OpenInv
<1>1. \A g \in Goroutines : todo[g] = << >> /\ Idle(g) BY DEF Init, Idle
<1>2. \A g \in Goroutines : Ordered(todo[g]) /\ \A ops : ~Has(g, ops) BY <1>1, Nothing DEF Has
<1>3. \A g \in Goroutines : \A ops, clear : ~Fresh(todo[g], ops, clear) BY <1>1, Nothing
<1>4. OrderInv /\ PureInv /\ ClearedInv BY <1>2, <1>3 DEF OrderInv, PureInv, ClearedInv
<1>5. \A t \in Targets : errors[t] = 0 /\ successes[t] = 0 /\ circuit[t] = "closed" BY DEF Init
<1>6. AgreeInv BY <1>5, ConstantsAssumption DEF AgreeInv, Agree, ConstantsAssumption
<1>7. FrontInv
  <2>1. \A g \in Goroutines : Len(todo[g]) = 0 BY <1>1
  <2>2. 2..0 = {} OBVIOUS
  <2>q. QED BY <2>1, <2>2 DEF FrontInv
<1>q. QED BY <1>1, <1>4, <1>5, <1>6, <1>7 DEF CountersInv, OpenInv, At

\* For any goroutines: what is counted is compared afterwards, and no goroutine records a success
\* and an error at a time.
THEOREM ListsInvariant == Spec => [](OrderInv /\ PureInv)
<1>1. Init => OrderInv /\ PureInv BY CountersInit DEF CountersInv
<1>2. HealthInv /\ OrderInv /\ PureInv /\ [Next]_vars => (OrderInv /\ PureInv)' BY ListsStep
<1>q. QED BY <1>1, <1>2, HealthInvariant, PTL DEF Spec

\* Where nobody is about to look at state and counters, they agree.
LEMMA SettledAgrees ==
  ASSUME HealthInv, CountersInv PROVE StateFollowsCounters
<1>1. SUFFICES ASSUME Registered, NEW t \in Targets, Settled(t)
               PROVE  /\ errors[t] >= UnhealthyThreshold => status[t] = "unhealthy"
                      /\ errors[t] >= FailureThreshold => circuit[t] # "closed"
                      /\ successes[t] >= HealthyThreshold => status[t] = "healthy"
                      /\ successes[t] >= HalfOpenSuccessThreshold => circuit[t] # "half-open"
  BY DEF StateFollowsCounters
<1>2. Agree(t) /\ PureInv BY <1>1 DEF CountersInv, AgreeInv
<1>3. ~Pending(t, Spoiling) BY <1>1, <1>2, SettledHasNothing DEF Spoiling
<1>4. ~Pending(t, {"breakerError", "open"}) BY <1>1, <1>2, SettledHasNothing
<1>5. ~Pending(t, {"passiveSuccess", "heal"}) BY <1>1, <1>2, SettledHasNothing
<1>6. ~Pending(t, {"breakerSuccess", "close", "clearSuccesses"}) BY <1>1, <1>2, SettledHasNothing
<1>q. QED BY <1>2, <1>3, <1>4, <1>5, <1>6 DEF Agree

\* Once everything about a target is recorded its state agrees with its counters, as long as no
\* success and no error of one target are recorded at the same time (manager.go, RecordSuccess
\* and RecordError).
THEOREM StateFollowsCountersHolds == Spec /\ []Unmixed => []StateFollowsCounters
<1>1. Init => CountersInv BY CountersInit
<1>2. HealthInv /\ CountersInv /\ Unmixed /\ [Next]_vars => CountersInv' BY CountersStep
<1>3. HealthInv /\ CountersInv => StateFollowsCounters BY SettledAgrees
<1>q. QED BY <1>1, <1>2, <1>3, HealthInvariant, PTL DEF Spec

\* One goroutine never does that.
THEOREM StateFollowsCountersAlone ==
  ASSUME NEW g0, Goroutines = {g0}
  PROVE  Spec => []StateFollowsCounters
<1>1. PureInv => Unmixed BY DEF PureInv, Unmixed
<1>q. QED BY <1>1, ListsInvariant, StateFollowsCountersHolds, PTL

\* An open circuit is left by the step to half-open only, when it is old enough.
LEMMA LeftOpen ==
  ASSUME HealthInv, OpenInv, [Next]_vars, NEW t \in Targets, circuit[t] = "open", circuit'[t] # "open"
  PROVE  circuit'[t] = "half-open" /\ openFor[t] >= RecoveryTime
<1>1. ASSUME NEW g \in Goroutines, Run(g)
      PROVE  circuit'[t] = "half-open" /\ openFor[t] >= RecoveryTime
  <2>1. \/ Close(g) /\ t = target[g] /\ circuit'[t] = "closed"
        \/ HalfOpen(g) /\ t = target[g] /\ circuit'[t] = "half-open"
    BY <1>1, CircuitFacts
  <2>2. ~Close(g) \/ t # target[g] BY DEF Close, SetCircuitState, OpenInv
  <2>3. HalfOpen(g) /\ t = target[g] => openFor[t] >= RecoveryTime
    BY DEF HalfOpen, SetCircuitState, OpenInv
  <2>q. QED BY <2>1, <2>2, <2>3
<1>2. circuit' = circuit \/ \E g \in Goroutines : Run(g)
  BY DEF Next, vars, Arrive, Check, Tick, Break, Repair, healthVars
<1>q. QED BY <1>1, <1>2

\* An open circuit stays open for RecoveryTime and then becomes half-open first, as long as no two
\* goroutines ask, call or record one target at the same time (manager.go, SetCircuitState and
\* CheckCircuitRecovery).
THEOREM OpenLastsHolds == Spec /\ []Apart => OpenLasts
<1>1. Init => OpenInv BY CountersInit
<1>2. HealthInv /\ HealthInv' /\ OpenInv /\ Apart /\ [Next]_vars => OpenInv' BY OpenStep
<1>3. HealthInv /\ OpenInv /\ [Next]_vars =>
        [\A t \in Targets : circuit[t] = "open" /\ circuit'[t] # "open" =>
           circuit'[t] = "half-open" /\ openFor[t] >= RecoveryTime]_vars
  BY LeftOpen
<1>q. QED BY <1>1, <1>2, <1>3, HealthInvariant, PTL DEF Spec, OpenLasts

\* One goroutine never does that.
THEOREM OpenLastsAlone ==
  ASSUME NEW g0, Goroutines = {g0}
  PROVE  Spec => OpenLasts
<1>1. Apart BY DEF Apart
<1>q. QED BY <1>1, OpenLastsHolds, PTL

=============================================================================
