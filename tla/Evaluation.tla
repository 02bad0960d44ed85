----------------------------- MODULE Evaluation -----------------------------
(***************************************************************************)
(* The second half of the event generator: the evaluation manager turns    *)
(* the policies into arrays of triggers, the evaluators compare the        *)
(* metrics of the apps with them and raise alarms with the scaling engine, *)
(* through a circuit breaker for each app.                                 *)
(*                                                                         *)
(* All apps share the rules Rules here.  That the metrics of the last      *)
(* breach duration all breach a rule is the variable "breached".  Times    *)
(* are ages and remainders in ticks, so that the clock has no bound.  The  *)
(* scaling engine is the one of ScalingEngine with each request in one     *)
(* step, which AppExclusion allows.                                        *)
(***************************************************************************)
EXTENDS Adjustment, Sequences

CONSTANTS
  Apps, Evaluators,
  Rules,         \* the scaling rules, in order: [type, adjustment]
  ChannelSize,   \* of triggerChan
  CoolDown,      \* of every rule, in ticks
  ConsecutiveFailureCount, BackOffInitialInterval, BackOffMaxInterval,
  InstanceMin, InstanceMax,
  Breaches,      \* the values that "breached" takes
  None

ASSUME EvaluationAssumption ==
  /\ {ChannelSize, CoolDown, ConsecutiveFailureCount} \subseteq Nat \ {0}
  /\ BackOffInitialInterval \in Nat /\ BackOffMaxInterval \in Nat
  /\ BackOffInitialInterval <= BackOffMaxInterval
  /\ InstanceMin \in Nat /\ InstanceMax \in Nat /\ InstanceMin <= InstanceMax

ASSUME RulesAssumption ==
  \A i \in DOMAIN Rules : /\ Rules[i].adjustment.unit \in AdjustmentUnit
                          /\ Rules[i].adjustment.value \in Int

VARIABLES
  policies,      \* the apps with a policy, as AppManager has them
  breached,      \* the pairs of app and rule that the metrics breach
  manager,       \* the manager's round: the rules to collect, the arrays to send
  triggerChan,   \* the arrays sent and not yet received
  evaluator,     \* each evaluator
  breakers,      \* the circuit breakers
  cooldownExpired, \* what remains of each app's cooldown, as the manager knows it
  instances,     \* Cloud Controller: the size of each app
  row,           \* scaling engine: what remains of each cooldown in its table
  late,          \* triggers at the scaling engine whose sender has given up
  trouble        \* history: each app's failed alarms in a row, and the age of the last

managerVars == <<manager, triggerChan>>
engineVars  == <<instances, row, late>>
vars == <<policies, breached, manager, triggerChan, evaluator, breakers,
          cooldownExpired, instances, row, late, trouble>>

Idle    == [at |-> "idle"]
Closed == [failures |-> 0, tripped |-> FALSE, since |-> 0, next |-> BackOffInitialInterval]
NoTrouble == [failures |-> 0, age |-> 0]

Least(x, y) == IF x < y THEN x ELSE y

Init ==
  /\ policies \in SUBSET Apps
  /\ breached \in Breaches
  /\ manager = [todo |-> {}, arrays |-> {}]
  /\ triggerChan = <<>>
  /\ evaluator = [e \in Evaluators |-> Idle]
  /\ breakers = <<>>
  /\ cooldownExpired = [a \in Apps |-> 0]
  /\ instances \in [Apps -> InstanceMin .. InstanceMax]
  /\ row = [a \in Apps |-> 0]
  /\ late = {}
  /\ trouble = [a \in Apps |-> NoTrouble]
-----------------------------------------------------------------------------
(* AppEvaluationManager *)

\* mutant: every round starts with new breakers.
NewBreakers_Fresh == [a \in policies |-> Closed]

NewBreakers ==
  [a \in policies |-> IF a \in DOMAIN breakers THEN breakers[a] ELSE Closed]

\* The ticker.  A breaker of an app without a policy is dropped; evaluators that
\* are using it report to it all the same.
StartRound ==
  /\ manager.todo = {} /\ manager.arrays = {}
  /\ manager' = [manager EXCEPT !.todo = policies \X DOMAIN Rules]
  /\ breakers' = NewBreakers
  /\ evaluator' = [e \in Evaluators |->
       IF evaluator[e].at \in {"call", "answer"} /\ evaluator[e].app \notin policies
       THEN [evaluator[e] EXCEPT !.guarded = FALSE] ELSE evaluator[e]]
  /\ trouble' = [a \in Apps |-> IF a \in policies THEN trouble[a] ELSE NoTrouble]
  /\ UNCHANGED <<policies, breached, triggerChan, cooldownExpired, engineVars>>

CoolingDown(a) == cooldownExpired[a] > 0

\* getTriggers, one rule: the cooldown is read anew for each of them.  (The clock is
\* read once, before; a rule whose cooldown ends meanwhile could be left out.)
Collect(a, i) ==
  /\ <<a, i>> \in manager.todo
  /\ \A j \in 1 .. i - 1 : <<a, j>> \notin manager.todo
  /\ LET same == {x \in manager.arrays : x.app = a /\ x.type = Rules[i].type}
         old  == IF same = {} THEN <<>> ELSE (CHOOSE x \in same : TRUE).rules
         new  == [app |-> a, type |-> Rules[i].type, rules |-> Append(old, i)]
     IN  manager' =
           [todo |-> manager.todo \ {<<a, i>>},
            arrays |-> IF CoolingDown(a) THEN manager.arrays
                       ELSE (manager.arrays \ same) \cup {new}]
  /\ UNCHANGED <<policies, breached, triggerChan, evaluator, breakers, cooldownExpired,
                 engineVars, trouble>>

Send(x) ==
  /\ manager.todo = {} /\ x \in manager.arrays
  /\ Len(triggerChan) < ChannelSize
  /\ triggerChan' = Append(triggerChan, x)
  /\ manager' = [manager EXCEPT !.arrays = @ \ {x}]
  /\ UNCHANGED <<policies, breached, evaluator, breakers, cooldownExpired, engineVars, trouble>>
-----------------------------------------------------------------------------
(* The circuit breaker, a library *)

Ready(b) == ~b.tripped \/ b.since > b.next

\* A tripped breaker that is ready lets one call through, and waits for longer
\* before it lets through the next.
Try(b) == IF b.tripped THEN [b EXCEPT !.next = Least(2 * @, BackOffMaxInterval)] ELSE b

Failure(b) ==
  [b EXCEPT !.failures = Least(@ + 1, ConsecutiveFailureCount),
            !.tripped = @ \/ b.failures + 1 = ConsecutiveFailureCount,
            !.since = 0]

Success(b) ==
  [b EXCEPT !.failures = 0, !.next = BackOffInitialInterval,
            !.tripped = @ /\ b.since <= BackOffInitialInterval,
            !.since = IF @ > BackOffInitialInterval THEN 0 ELSE @]
-----------------------------------------------------------------------------
(* Evaluator *)

Receive(e) ==
  /\ evaluator[e].at = "idle" /\ triggerChan # <<>>
  /\ triggerChan' = Tail(triggerChan)
  /\ evaluator' = [evaluator EXCEPT ![e] =
       [at |-> "evaluate", app |-> Head(triggerChan).app, rules |-> Head(triggerChan).rules]]
  /\ UNCHANGED <<policies, breached, manager, breakers, cooldownExpired, engineVars, trouble>>

\* doEvaluate: the rule is not breached, or the query failed.
NotBreached(e) ==
  /\ evaluator[e].at = "evaluate"
  /\ evaluator' = [evaluator EXCEPT ![e] =
       IF Len(@.rules) = 1 THEN Idle ELSE [evaluator[e] EXCEPT !.rules = Tail(@)]]
  /\ UNCHANGED <<policies, breached, managerVars, breakers, cooldownExpired, engineVars, trouble>>

\* mutant: an alarm whose circuit has tripped is not raised at all.
Allowed_Tripped(a) == a \in DOMAIN breakers => ~breakers[a].tripped

Allowed(a) == a \in DOMAIN breakers => Ready(breakers[a])

\* doEvaluate: the first breached rule ends the evaluation, whether the breaker
\* lets the alarm through or not.
Alarm(e) ==
  LET a == evaluator[e].app  i == Head(evaluator[e].rules)
  IN  /\ evaluator[e].at = "evaluate" /\ <<a, i>> \in breached
      /\ evaluator' = [evaluator EXCEPT ![e] =
           IF ~Allowed(a) THEN Idle
           ELSE [at |-> "call", app |-> a, rule |-> i, guarded |-> a \in DOMAIN breakers]]
      /\ breakers' = IF a \in DOMAIN breakers /\ Allowed(a)
                     THEN [breakers EXCEPT ![a] = Try(@)] ELSE breakers
      /\ UNCHANGED <<policies, breached, managerVars, cooldownExpired, engineVars, trouble>>

Answer(e, answer) ==
  evaluator' = [evaluator EXCEPT ![e] =
    [at |-> "answer", app |-> @.app, guarded |-> @.guarded, answer |-> answer]]

Report(e, ok) ==
  LET a == evaluator[e].app
  IN  /\ breakers' = IF evaluator[e].guarded
                     THEN [breakers EXCEPT ![a] = IF ok THEN Success(@) ELSE Failure(@)]
                     ELSE breakers
      /\ trouble' = IF evaluator[e].guarded
                    THEN [trouble EXCEPT ![a] =
                      IF ok THEN NoTrouble
                      ELSE [failures |-> Least(@.failures + 1, ConsecutiveFailureCount), age |-> 0]]
                    ELSE trouble

SetCoolDownExpired(a, c) ==
  IF c = None THEN cooldownExpired ELSE [cooldownExpired EXCEPT ![a] = c]

\* sendTriggerAlarm, from the answer on.
Finish(e) ==
  /\ evaluator[e].at = "answer"
  /\ LET answer == evaluator[e].answer
     IN  /\ Report(e, answer.ok)
         /\ cooldownExpired' = IF answer.ok THEN SetCoolDownExpired(evaluator[e].app, answer.cooldown)
                               ELSE cooldownExpired
  /\ evaluator' = [evaluator EXCEPT ![e] = Idle]
  /\ UNCHANGED <<policies, breached, managerVars, engineVars>>
-----------------------------------------------------------------------------
(* Scaling engine *)

Error == [ok |-> FALSE]

Result(c) == [ok |-> TRUE, cooldown |-> c]

\* Scale: the answer tells a cooldown that is not in the table when the app is
\* at its limit already, or when the table could not be written.
Scale(a, i, answer) ==
  \E n \in ComputeNewInstances(instances[a], Rules[i].adjustment) :
    LET new == Limit(n, InstanceMin, InstanceMax)
    IN  \/ /\ row[a] > 0 /\ answer = Result(row[a])
           /\ UNCHANGED <<instances, row>>
        \/ /\ row[a] = 0 /\ new = instances[a] /\ answer = Result(CoolDown)
           /\ UNCHANGED <<instances, row>>
        \/ /\ row[a] = 0 /\ new # instances[a] /\ answer = Result(CoolDown)
           /\ instances' = [instances EXCEPT ![a] = new]
           /\ row' \in {row, [row EXCEPT ![a] = CoolDown]}

Answers == {Result(c) : c \in 0 .. CoolDown}

Handle(e) ==
  /\ evaluator[e].at = "call"
  /\ \E answer \in Answers :
       /\ Scale(evaluator[e].app, evaluator[e].rule, answer)
       /\ Answer(e, answer)
  /\ UNCHANGED <<policies, breached, managerVars, breakers, cooldownExpired, late, trouble>>

\* The engine does nothing and answers with an error, or that the app is not
\* started; or it does not answer in time, and may still handle the trigger later.
Refuse(e) ==
  /\ evaluator[e].at = "call"
  /\ \/ Answer(e, Result(None)) /\ UNCHANGED late
     \/ Answer(e, Error) /\ late' \in {late, late \cup {<<evaluator[e].app, evaluator[e].rule>>}}
  /\ UNCHANGED <<policies, breached, managerVars, breakers, cooldownExpired, instances, row, trouble>>

HandleLate(x) ==
  /\ \E answer \in Answers : Scale(x[1], x[2], answer)
  /\ late' = late \ {x}
  /\ UNCHANGED <<policies, breached, managerVars, evaluator, breakers, cooldownExpired, trouble>>
-----------------------------------------------------------------------------
(* The world *)

Measure ==
  /\ breached' \in Breaches \ {breached}
  /\ UNCHANGED <<policies, managerVars, evaluator, breakers, cooldownExpired, engineVars, trouble>>

ChangePolicies ==
  /\ policies' \in SUBSET Apps \ {policies}
  /\ UNCHANGED <<breached, managerVars, evaluator, breakers, cooldownExpired, engineVars, trouble>>

InTrouble(a) == trouble[a].failures = ConsecutiveFailureCount

Less(n) == IF n > 0 THEN n - 1 ELSE 0

Older(n) == Least(n + 1, BackOffMaxInterval + 1)

Tick ==
  /\ cooldownExpired' = [a \in Apps |-> Less(cooldownExpired[a])]
  /\ row' = [a \in Apps |-> Less(row[a])]
  /\ breakers' = [a \in DOMAIN breakers |->
       IF breakers[a].tripped THEN [breakers[a] EXCEPT !.since = Older(@)] ELSE breakers[a]]
  /\ trouble' = [a \in Apps |->
       IF InTrouble(a) THEN [trouble[a] EXCEPT !.age = Least(@ + 1, BackOffInitialInterval + 1)]
       ELSE trouble[a]]
  /\ evaluator' = [e \in Evaluators |->
       IF evaluator[e].at = "answer" /\ evaluator[e].answer \in Answers
       THEN [evaluator[e] EXCEPT !.answer = Result(Less(@.cooldown))] ELSE evaluator[e]]
  /\ UNCHANGED <<policies, breached, managerVars, instances, late>>

Next ==
  \/ StartRound \/ Measure \/ ChangePolicies \/ Tick
  \/ \E a \in Apps, i \in DOMAIN Rules : Collect(a, i)
  \/ \E x \in manager.arrays : Send(x)
  \/ \E e \in Evaluators : \/ Receive(e) \/ NotBreached(e) \/ Alarm(e) \/ Finish(e)
                           \/ Handle(e) \/ Refuse(e)
  \/ \E x \in late : HandleLate(x)

\* The tickers and the goroutines run, every query is answered sooner or later, and
\* so is every alarm that is repeated for ever.
Fairness ==
  /\ WF_vars(StartRound) /\ WF_vars(Tick)
  /\ WF_vars(\E a \in Apps, i \in DOMAIN Rules : Collect(a, i))
  /\ WF_vars(\E x \in manager.arrays : Send(x))
  /\ \A e \in Evaluators :
       /\ WF_vars(Receive(e)) /\ WF_vars(Finish(e))
       /\ WF_vars(NotBreached(e)) /\ SF_vars(Alarm(e))
       /\ WF_vars(Refuse(e)) /\ SF_vars(Handle(e))

Spec == Init /\ [][Next]_vars /\ Fairness
-----------------------------------------------------------------------------
(* What an evaluator may hold of an app, and what its breaker knows of the  *)
(* failures.                                                                *)

Breaker == [failures : 0 .. ConsecutiveFailureCount, tripped : BOOLEAN,
            since : 0 .. BackOffMaxInterval + 1,
            next : BackOffInitialInterval .. BackOffMaxInterval]

Trouble == [failures : 0 .. ConsecutiveFailureCount, age : 0 .. BackOffInitialInterval + 1]

\* Triggers of one app, for rules of one metric type.
Array == [app : Apps, type : {Rules[i].type : i \in DOMAIN Rules},
          rules : Seq(DOMAIN Rules) \ {<<>>}]

AnswerType == {Error, Result(None)} \cup Answers

EvaluatorState ==
  {Idle}
    \cup [at : {"evaluate"}, app : Apps, rules : Seq(DOMAIN Rules) \ {<<>>}]
    \cup [at : {"call"}, app : Apps, rule : DOMAIN Rules, guarded : BOOLEAN]
    \cup [at : {"answer"}, app : Apps, guarded : BOOLEAN, answer : AnswerType]

\* The types.  In particular no app leaves the limits of its policy, and no breaker
\* waits for less than the initial interval.
EvaluationTypeOK ==
  /\ policies \subseteq Apps
  /\ manager \in [todo : SUBSET (Apps \X DOMAIN Rules), arrays : SUBSET Array]
  /\ triggerChan \in Seq(Array)
  /\ evaluator \in [Evaluators -> EvaluatorState]
  /\ DOMAIN breakers \subseteq Apps /\ breakers \in [DOMAIN breakers -> Breaker]
  /\ trouble \in [Apps -> Trouble]
  /\ instances \in [Apps -> InstanceMin .. InstanceMax]
  /\ row \in [Apps -> 0 .. CoolDown] /\ cooldownExpired \in [Apps -> 0 .. CoolDown]
  /\ late \subseteq Apps \X DOMAIN Rules

\* The breaker of an app has counted its failures, and has not waited for longer than
\* they are ago.
BreakerKnows(a) ==
  /\ breakers[a].failures = trouble[a].failures
  /\ InTrouble(a) => /\ breakers[a].tripped
                     /\ \/ breakers[a].since <= trouble[a].age
                        \/ trouble[a].age > BackOffInitialInterval

\* An app without a breaker has not failed.
FailuresAreKnown ==
  \A a \in Apps : IF a \in DOMAIN breakers THEN BreakerKnows(a) ELSE trouble[a] = NoTrouble

\* Who is to report to a breaker has one to report to, whatever rounds have begun since
\* its call.
Reporting(e) == evaluator[e].at \in {"call", "answer"} /\ evaluator[e].guarded

ReportsArrive == \A e \in Evaluators : Reporting(e) => evaluator[e].app \in DOMAIN breakers

\* The breakers know of all failures that count: those of the app's evaluators since it
\* last had no policy.
EvaluationInvariant == EvaluationTypeOK /\ FailuresAreKnown /\ ReportsArrive

-----------------------------------------------------------------------------
\* The evaluators leave an engine that does not answer alone: after the failures
\* that trip the breaker, no alarm of the app is raised before the back-off is over,
\* however many evaluators hold its triggers and whatever rounds the manager makes.
EngineIsSpared ==
  [][ \A e \in Evaluators :
        evaluator[e].at = "evaluate" /\ evaluator'[e].at = "call"
          => LET a == evaluator[e].app
             IN  \/ trouble[a].failures < ConsecutiveFailureCount
                 \/ trouble[a].age > BackOffInitialInterval ]_vars

\* A breach that lasts is answered: when one rule of an app is breached from some
\* time on, the app ends at the limit the rule drives it to, whatever alarms and
\* answers have been lost, refused by an open breaker or left out in a cooldown.
LimitOf(i) == IF Rules[i].adjustment.value > 0 THEN InstanceMax ELSE InstanceMin

BreachIsAnswered ==
  \A a \in Apps, i \in DOMAIN Rules :
    <>[](a \in policies /\ breached = {<<a, i>>}) => <>[](instances[a] = LimitOf(i))
=============================================================================
