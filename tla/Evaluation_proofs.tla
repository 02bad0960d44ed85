-------------------------- MODULE Evaluation_proofs --------------------------
(***************************************************************************)
(* Proofs about Evaluation, for any apps, evaluators, rules, metrics and   *)
(* intervals.                                                              *)
(***************************************************************************)
EXTENDS Evaluation, Adjustment_proofs, SequenceTheorems

-----------------------------------------------------------------------------
(* The circuit breaker *)

LEMMA LeastNat ==
  ASSUME NEW x \in Nat, NEW y \in Nat
  PROVE  Least(x, y) \in Nat /\ Least(x, y) <= x /\ Least(x, y) <= y
BY DEF Least

\* Nothing that happens to a breaker lets it wait for less than the initial interval.
LEMMA BreakerTypes ==
  ASSUME NEW b \in Breaker
  PROVE  Try(b) \in Breaker /\ Failure(b) \in Breaker /\ Success(b) \in Breaker
<1>1. /\ b.failures \in 0 .. ConsecutiveFailureCount /\ b.tripped \in BOOLEAN
      /\ b.since \in 0 .. BackOffMaxInterval + 1
      /\ b.next \in BackOffInitialInterval .. BackOffMaxInterval
  BY DEF Breaker
<1>2. Try(b) \in Breaker
  <2>1. Least(2 * b.next, BackOffMaxInterval) \in BackOffInitialInterval .. BackOffMaxInterval
    BY <1>1, EvaluationAssumption DEF Least
  <2> QED
    BY <2>1 DEF Try, Breaker
<1>3. Failure(b) \in Breaker
  <2>1. Least(b.failures + 1, ConsecutiveFailureCount) \in 0 .. ConsecutiveFailureCount
    BY <1>1, EvaluationAssumption DEF Least
  <2>2. (b.tripped \/ b.failures + 1 = ConsecutiveFailureCount) \in BOOLEAN
    OBVIOUS
  <2>3. 0 \in 0 .. BackOffMaxInterval + 1
    BY EvaluationAssumption
  <2> QED
    BY <2>1, <2>2, <2>3 DEF Failure, Breaker
<1>4. Success(b) \in Breaker
  <2>1. BackOffInitialInterval \in BackOffInitialInterval .. BackOffMaxInterval
    BY EvaluationAssumption
  <2>2. (IF b.since > BackOffInitialInterval THEN 0 ELSE b.since) \in 0 .. BackOffMaxInterval + 1
    BY <1>1, EvaluationAssumption
  <2>3. 0 \in 0 .. ConsecutiveFailureCount
    BY EvaluationAssumption
  <2>4. (b.tripped /\ b.since <= BackOffInitialInterval) \in BOOLEAN
    OBVIOUS
  <2> QED
    BY <2>1, <2>2, <2>3, <2>4 DEF Success, Breaker
<1> QED
  BY <1>2, <1>3, <1>4

LEMMA ClosedType == Closed \in Breaker /\ NoTrouble \in Trouble
BY EvaluationAssumption DEF Closed, Breaker, NoTrouble, Trouble

-----------------------------------------------------------------------------
(* Types *)

LEMMA InitTypes == Init => EvaluationTypeOK
BY ClosedType, EvaluationAssumption DEF Init, EvaluationTypeOK, Idle, EvaluatorState

\* What the evaluator of a state other than idle holds.
LEMMA EvaluatorFields ==
  ASSUME NEW x \in EvaluatorState
  PROVE  /\ x.at \in {"idle", "evaluate", "call", "answer"}
         /\ x.at = "evaluate" => x \in [at : {"evaluate"}, app : Apps, rules : Seq(DOMAIN Rules) \ {<<>>}]
         /\ x.at = "call" => x \in [at : {"call"}, app : Apps, rule : DOMAIN Rules, guarded : BOOLEAN]
         /\ x.at = "answer" => x \in [at : {"answer"}, app : Apps, guarded : BOOLEAN, answer : AnswerType]
BY DEF EvaluatorState, Idle

LEMMA StartRoundTypes == EvaluationTypeOK /\ StartRound => EvaluationTypeOK'
<1> SUFFICES ASSUME EvaluationTypeOK, StartRound PROVE EvaluationTypeOK'
  OBVIOUS
<1>1. manager' \in [todo : SUBSET (Apps \X DOMAIN Rules), arrays : SUBSET Array]
  BY DEF EvaluationTypeOK, StartRound
<1>2. DOMAIN breakers' = policies /\ breakers' \in [policies -> Breaker]
  BY ClosedType DEF EvaluationTypeOK, StartRound, NewBreakers
<1>3. evaluator' \in [Evaluators -> EvaluatorState]
  <2>1. ASSUME NEW e \in Evaluators
        PROVE  evaluator'[e] \in EvaluatorState
    <3>1. evaluator[e] \in EvaluatorState
      BY DEF EvaluationTypeOK
    <3>2. CASE evaluator[e].at = "call"
      <4>1. [evaluator[e] EXCEPT !.guarded = FALSE]
              \in [at : {"call"}, app : Apps, rule : DOMAIN Rules, guarded : BOOLEAN]
        BY <3>1, <3>2, EvaluatorFields
      <4> QED
        BY <3>1, <4>1 DEF StartRound, EvaluatorState
    <3>3. CASE evaluator[e].at = "answer"
      <4>1. [evaluator[e] EXCEPT !.guarded = FALSE]
              \in [at : {"answer"}, app : Apps, guarded : BOOLEAN, answer : AnswerType]
        BY <3>1, <3>3, EvaluatorFields
      <4> QED
        BY <3>1, <4>1 DEF StartRound, EvaluatorState
    <3> QED
      BY <3>1, <3>2, <3>3 DEF StartRound
  <2> QED
    BY <2>1 DEF StartRound
<1>4. trouble' \in [Apps -> Trouble]
  BY ClosedType DEF EvaluationTypeOK, StartRound
<1> QED
  BY <1>1, <1>2, <1>3, <1>4 DEF EvaluationTypeOK, StartRound, engineVars

LEMMA CollectTypes ==
  ASSUME EvaluationTypeOK, NEW a \in Apps, NEW i \in DOMAIN Rules, Collect(a, i)
  PROVE  EvaluationTypeOK'
<1> DEFINE same == {x \in manager.arrays : x.app = a /\ x.type = Rules[i].type}
           old  == IF same = {} THEN <<>> ELSE (CHOOSE x \in same : TRUE).rules
           new  == [app |-> a, type |-> Rules[i].type, rules |-> Append(old, i)]
<1>1. same \subseteq Array
  BY DEF EvaluationTypeOK
<1>2. old \in Seq(DOMAIN Rules)
  <2> HIDE DEF same
  <2>1. CASE same = {}
    BY <2>1
  <2>2. CASE same # {}
    <3>1. (CHOOSE x \in same : TRUE) \in same
      BY <2>2
    <3>2. \A x \in Array : x.rules \in Seq(DOMAIN Rules)
      BY DEF Array
    <3> QED
      BY <1>1, <2>2, <3>1, <3>2
  <2> QED
    BY <2>1, <2>2
<1>3. Append(old, i) \in Seq(DOMAIN Rules) \ {<<>>}
  BY <1>2
<1>4. new \in Array
  BY <1>3 DEF Array
<1>5. manager' = [todo |-> manager.todo \ {<<a, i>>},
                  arrays |-> IF CoolingDown(a) THEN manager.arrays
                             ELSE (manager.arrays \ same) \cup {new}]
  BY DEF Collect
<1> HIDE DEF same, old, new
<1>6. manager' \in [todo : SUBSET (Apps \X DOMAIN Rules), arrays : SUBSET Array]
  BY <1>4, <1>5 DEF EvaluationTypeOK
<1> QED
  BY <1>6 DEF EvaluationTypeOK, Collect, engineVars

LEMMA SendTypes ==
  ASSUME EvaluationTypeOK, NEW x \in manager.arrays, Send(x)
  PROVE  EvaluationTypeOK'
<1>1. x \in Array /\ triggerChan' \in Seq(Array)
  BY DEF EvaluationTypeOK, Send
<1>2. manager' \in [todo : SUBSET (Apps \X DOMAIN Rules), arrays : SUBSET Array]
  BY DEF EvaluationTypeOK, Send
<1> QED
  BY <1>1, <1>2 DEF EvaluationTypeOK, Send, engineVars

LEMMA ReceiveTypes ==
  ASSUME EvaluationTypeOK, NEW e \in Evaluators, Receive(e)
  PROVE  EvaluationTypeOK'
<1>1. Head(triggerChan) \in Array /\ triggerChan' \in Seq(Array)
  BY DEF EvaluationTypeOK, Receive
<1>2. [at |-> "evaluate", app |-> Head(triggerChan).app, rules |-> Head(triggerChan).rules]
        \in EvaluatorState
  BY <1>1 DEF Array, EvaluatorState
<1>3. evaluator' \in [Evaluators -> EvaluatorState]
  BY <1>2 DEF EvaluationTypeOK, Receive
<1> QED
  BY <1>1, <1>3 DEF EvaluationTypeOK, Receive, engineVars

\* Where there is more than one rule, one is left.
LEMMA LongerThanOne ==
  ASSUME NEW S, NEW s \in Seq(S), s # <<>>, Len(s) # 1
  PROVE  Tail(s) \in Seq(S) \ {<<>>}
<1>1. Len(s) \in Nat \ {0}
  BY EmptySeq
<1>2. Tail(s) \in Seq(S) /\ Len(Tail(s)) = Len(s) - 1
  BY HeadTailProperties
<1>3. Len(Tail(s)) # 0
  BY <1>1, <1>2
<1>4. Tail(s) # <<>>
  BY <1>3, Len(<<>>) = 0
<1> QED
  BY <1>2, <1>4

LEMMA NotBreachedTypes ==
  ASSUME EvaluationTypeOK, NEW e \in Evaluators, NotBreached(e)
  PROVE  EvaluationTypeOK'
<1>1. evaluator[e] \in [at : {"evaluate"}, app : Apps, rules : Seq(DOMAIN Rules) \ {<<>>}]
  BY EvaluatorFields DEF EvaluationTypeOK, NotBreached
<1>2. ASSUME Len(evaluator[e].rules) # 1
      PROVE  [evaluator[e] EXCEPT !.rules = Tail(@)] \in EvaluatorState
  <2>1. evaluator[e].rules \in Seq(DOMAIN Rules) /\ evaluator[e].rules # <<>>
    BY <1>1
  <2>2. Tail(evaluator[e].rules) \in Seq(DOMAIN Rules) \ {<<>>}
    BY <1>2, <2>1, LongerThanOne
  <2> QED
    BY <1>1, <2>2 DEF EvaluatorState
<1>3. evaluator' \in [Evaluators -> EvaluatorState]
  BY <1>2 DEF EvaluationTypeOK, NotBreached, EvaluatorState
<1> QED
  BY <1>3 DEF EvaluationTypeOK, NotBreached, engineVars, managerVars

LEMMA AlarmTypes ==
  ASSUME EvaluationTypeOK, NEW e \in Evaluators, Alarm(e)
  PROVE  EvaluationTypeOK'
<1> DEFINE a == evaluator[e].app
<1>1. evaluator[e] \in [at : {"evaluate"}, app : Apps, rules : Seq(DOMAIN Rules) \ {<<>>}]
  BY EvaluatorFields DEF EvaluationTypeOK, Alarm
<1>2. [at |-> "call", app |-> a, rule |-> Head(evaluator[e].rules), guarded |-> a \in DOMAIN breakers]
        \in EvaluatorState
  BY <1>1 DEF EvaluatorState
<1>3. evaluator' \in [Evaluators -> EvaluatorState]
  BY <1>2 DEF EvaluationTypeOK, Alarm, EvaluatorState
<1>4. DOMAIN breakers' = DOMAIN breakers /\ breakers' \in [DOMAIN breakers -> Breaker]
  BY BreakerTypes DEF EvaluationTypeOK, Alarm
<1> QED
  BY <1>3, <1>4 DEF EvaluationTypeOK, Alarm, engineVars, managerVars

LEMMA FinishTypes ==
  ASSUME EvaluationTypeOK, NEW e \in Evaluators, Finish(e)
  PROVE  EvaluationTypeOK'
<1> DEFINE a == evaluator[e].app
           answer == evaluator[e].answer
<1>1. a \in Apps /\ answer \in AnswerType
  BY EvaluatorFields DEF EvaluationTypeOK, Finish
<1>2. evaluator' \in [Evaluators -> EvaluatorState]
  BY DEF EvaluationTypeOK, Finish, EvaluatorState
<1>3. DOMAIN breakers' = DOMAIN breakers /\ breakers' \in [DOMAIN breakers -> Breaker]
  BY BreakerTypes DEF EvaluationTypeOK, Finish, Report
<1>4. trouble' \in [Apps -> Trouble]
  <2>1. trouble[a] \in Trouble /\ trouble[a].failures \in 0 .. ConsecutiveFailureCount
    BY <1>1 DEF EvaluationTypeOK, Trouble
  <2>2. Least(trouble[a].failures + 1, ConsecutiveFailureCount) \in 0 .. ConsecutiveFailureCount
    BY <2>1, EvaluationAssumption DEF Least
  <2>3. [failures |-> Least(trouble[a].failures + 1, ConsecutiveFailureCount), age |-> 0] \in Trouble
    BY <2>2, EvaluationAssumption DEF Trouble
  <2> QED
    BY <1>1, <2>3, ClosedType DEF EvaluationTypeOK, Finish, Report
<1>5. cooldownExpired' \in [Apps -> 0 .. CoolDown]
  <2>1. ASSUME answer.ok PROVE answer.cooldown \in {None} \cup 0 .. CoolDown
    BY <1>1, <2>1 DEF AnswerType, Answers, Result, Error
  <2> QED
    BY <1>1, <2>1 DEF EvaluationTypeOK, Finish, SetCoolDownExpired
<1> QED
  BY <1>2, <1>3, <1>4, <1>5 DEF EvaluationTypeOK, Finish, engineVars, managerVars

\* The engine keeps every app within its limits, whatever the rule asks for.
LEMMA ScaleTypes ==
  ASSUME EvaluationTypeOK, NEW a \in Apps, NEW i \in DOMAIN Rules, NEW answer,
         Scale(a, i, answer)
  PROVE  /\ instances' \in [Apps -> InstanceMin .. InstanceMax]
         /\ row' \in [Apps -> 0 .. CoolDown]
<1>1. PICK n \in ComputeNewInstances(instances[a], Rules[i].adjustment) :
        LET new == Limit(n, InstanceMin, InstanceMax)
        IN  \/ UNCHANGED <<instances, row>>
            \/ /\ instances' = [instances EXCEPT ![a] = new]
               /\ row' \in {row, [row EXCEPT ![a] = CoolDown]}
  BY DEF Scale
<1>2. instances[a] \in Int
  BY EvaluationAssumption DEF EvaluationTypeOK
<1>3. n \in Int
  BY <1>2, RulesAssumption, ComputeNewInstancesInt
<1>4. Limit(n, InstanceMin, InstanceMax) \in InstanceMin .. InstanceMax
  BY <1>3, EvaluationAssumption, LimitWithin
<1>5. CoolDown \in 0 .. CoolDown
  BY EvaluationAssumption
<1> QED
  BY <1>1, <1>4, <1>5 DEF EvaluationTypeOK

LEMMA AnswerTypes ==
  ASSUME EvaluationTypeOK, NEW e \in Evaluators, evaluator[e].at = "call",
         NEW answer \in AnswerType, Answer(e, answer)
  PROVE  evaluator' \in [Evaluators -> EvaluatorState]
<1>1. evaluator[e] \in [at : {"call"}, app : Apps, rule : DOMAIN Rules, guarded : BOOLEAN]
  BY EvaluatorFields DEF EvaluationTypeOK
<1>2. [at |-> "answer", app |-> evaluator[e].app, guarded |-> evaluator[e].guarded, answer |-> answer]
        \in EvaluatorState
  BY <1>1 DEF EvaluatorState
<1> QED
  BY <1>2 DEF EvaluationTypeOK, Answer

LEMMA HandleTypes ==
  ASSUME EvaluationTypeOK, NEW e \in Evaluators, Handle(e)
  PROVE  EvaluationTypeOK'
<1>1. PICK answer \in Answers : Scale(evaluator[e].app, evaluator[e].rule, answer) /\ Answer(e, answer)
  BY DEF Handle
<1>2. evaluator[e].app \in Apps /\ evaluator[e].rule \in DOMAIN Rules
  BY EvaluatorFields DEF EvaluationTypeOK, Handle
<1>3. answer \in AnswerType
  BY DEF AnswerType
<1>4. evaluator' \in [Evaluators -> EvaluatorState]
  BY <1>1, <1>3, AnswerTypes DEF Handle
<1>5. /\ instances' \in [Apps -> InstanceMin .. InstanceMax]
      /\ row' \in [Apps -> 0 .. CoolDown]
  BY <1>1, <1>2, ScaleTypes
<1> QED
  BY <1>4, <1>5 DEF EvaluationTypeOK, Handle, managerVars

LEMMA RefuseTypes ==
  ASSUME EvaluationTypeOK, NEW e \in Evaluators, Refuse(e)
  PROVE  EvaluationTypeOK'
<1>1. evaluator[e].app \in Apps /\ evaluator[e].rule \in DOMAIN Rules
  BY EvaluatorFields DEF EvaluationTypeOK, Refuse
<1>2. late' \subseteq Apps \X DOMAIN Rules
  BY <1>1 DEF EvaluationTypeOK, Refuse
<1>3. evaluator' \in [Evaluators -> EvaluatorState]
  BY AnswerTypes DEF Refuse, AnswerType
<1> QED
  BY <1>2, <1>3 DEF EvaluationTypeOK, Refuse, managerVars

LEMMA HandleLateTypes ==
  ASSUME EvaluationTypeOK, NEW x \in late, HandleLate(x)
  PROVE  EvaluationTypeOK'
<1>1. x[1] \in Apps /\ x[2] \in DOMAIN Rules
  BY DEF EvaluationTypeOK
<1>2. PICK answer \in Answers : Scale(x[1], x[2], answer)
  BY DEF HandleLate
<1>3. /\ instances' \in [Apps -> InstanceMin .. InstanceMax]
      /\ row' \in [Apps -> 0 .. CoolDown]
  BY <1>1, <1>2, ScaleTypes
<1> QED
  BY <1>3 DEF EvaluationTypeOK, HandleLate, managerVars

LEMMA TickTypes == EvaluationTypeOK /\ Tick => EvaluationTypeOK'
<1> SUFFICES ASSUME EvaluationTypeOK, Tick PROVE EvaluationTypeOK'
  OBVIOUS
<1>1. \A n \in 0 .. CoolDown : Less(n) \in 0 .. CoolDown
  BY EvaluationAssumption DEF Less
<1>2. row' \in [Apps -> 0 .. CoolDown] /\ cooldownExpired' \in [Apps -> 0 .. CoolDown]
  BY <1>1 DEF EvaluationTypeOK, Tick
<1>3. DOMAIN breakers' = DOMAIN breakers /\ breakers' \in [DOMAIN breakers -> Breaker]
  <2>1. ASSUME NEW b \in Breaker PROVE [b EXCEPT !.since = Older(@)] \in Breaker
    <3>1. Older(b.since) \in 0 .. BackOffMaxInterval + 1
      BY EvaluationAssumption DEF Older, Least, Breaker
    <3> QED
      BY <3>1 DEF Breaker
  <2> QED
    BY <2>1 DEF EvaluationTypeOK, Tick
<1>4. trouble' \in [Apps -> Trouble]
  <2>1. ASSUME NEW t \in Trouble
        PROVE  [t EXCEPT !.age = Least(@ + 1, BackOffInitialInterval + 1)] \in Trouble
    <3>1. Least(t.age + 1, BackOffInitialInterval + 1) \in 0 .. BackOffInitialInterval + 1
      BY EvaluationAssumption DEF Least, Trouble
    <3> QED
      BY <3>1 DEF Trouble
  <2> QED
    BY <2>1 DEF EvaluationTypeOK, Tick
<1>5. evaluator' \in [Evaluators -> EvaluatorState]
  <2>1. ASSUME NEW e \in Evaluators, evaluator[e].at = "answer", evaluator[e].answer \in Answers
        PROVE  [evaluator[e] EXCEPT !.answer = Result(Less(@.cooldown))] \in EvaluatorState
    <3>1. PICK c \in 0 .. CoolDown : evaluator[e].answer = Result(c)
      BY <2>1 DEF Answers
    <3>2. evaluator[e].answer.cooldown = c
      BY <3>1 DEF Result
    <3>3. Result(Less(evaluator[e].answer.cooldown)) \in AnswerType
      BY <1>1, <3>2 DEF AnswerType, Answers
    <3>4. evaluator[e] \in [at : {"answer"}, app : Apps, guarded : BOOLEAN, answer : AnswerType]
      BY <2>1, EvaluatorFields DEF EvaluationTypeOK
    <3> QED
      BY <3>3, <3>4 DEF EvaluatorState
  <2> QED
    BY <2>1 DEF EvaluationTypeOK, Tick
<1> QED
  BY <1>2, <1>3, <1>4, <1>5 DEF EvaluationTypeOK, Tick, managerVars

LEMMA NextTypes == EvaluationTypeOK /\ [Next]_vars => EvaluationTypeOK'
<1> SUFFICES ASSUME EvaluationTypeOK, [Next]_vars PROVE EvaluationTypeOK'
  OBVIOUS
<1>1. CASE Measure
  BY <1>1 DEF Measure, EvaluationTypeOK, managerVars, engineVars
<1>2. CASE ChangePolicies
  BY <1>2 DEF ChangePolicies, EvaluationTypeOK, managerVars, engineVars
<1>3. CASE UNCHANGED vars
  BY <1>3 DEF vars, EvaluationTypeOK
<1> QED
  BY <1>1, <1>2, <1>3, StartRoundTypes, TickTypes, CollectTypes, SendTypes, ReceiveTypes,
     NotBreachedTypes, AlarmTypes, FinishTypes, HandleTypes, RefuseTypes, HandleLateTypes
     DEF Next

-----------------------------------------------------------------------------
(* What the breakers know *)

LEMMA StartRoundKnows ==
  ASSUME EvaluationInvariant, StartRound
  PROVE  FailuresAreKnown' /\ ReportsArrive'
<1>1. DOMAIN breakers' = policies /\ policies \subseteq Apps
  BY DEF EvaluationInvariant, EvaluationTypeOK, StartRound, NewBreakers
<1>2. ASSUME NEW a \in Apps
      PROVE  IF a \in DOMAIN breakers' THEN BreakerKnows(a)' ELSE trouble'[a] = NoTrouble
  <2>1. CASE a \notin policies
    BY <1>1, <2>1 DEF StartRound
  <2>2. CASE a \in policies /\ a \in DOMAIN breakers
    <3>1. breakers'[a] = breakers[a] /\ trouble'[a] = trouble[a] /\ BreakerKnows(a)
      BY <2>2 DEF StartRound, NewBreakers, EvaluationInvariant, FailuresAreKnown
    <3> QED
      BY <1>1, <2>2, <3>1 DEF BreakerKnows, InTrouble
  <2>3. CASE a \in policies /\ a \notin DOMAIN breakers
    <3>1. breakers'[a] = Closed /\ trouble'[a] = NoTrouble
      BY <2>3 DEF StartRound, NewBreakers, EvaluationInvariant, FailuresAreKnown
    <3> QED
      BY <1>1, <2>3, <3>1, EvaluationAssumption DEF BreakerKnows, InTrouble, Closed, NoTrouble
  <2> QED
    BY <2>1, <2>2, <2>3
<1>3. ASSUME NEW e \in Evaluators, Reporting(e)'
      PROVE  evaluator'[e].app \in DOMAIN breakers'
  <2>1. evaluator[e] \in EvaluatorState
    BY DEF EvaluationInvariant, EvaluationTypeOK
  <2>2. evaluator'[e] = IF evaluator[e].at \in {"call", "answer"} /\ evaluator[e].app \notin policies
                        THEN [evaluator[e] EXCEPT !.guarded = FALSE] ELSE evaluator[e]
    BY DEF StartRound
  <2>3. CASE evaluator[e].at \in {"call", "answer"} /\ evaluator[e].app \notin policies
    <3>1. evaluator'[e].guarded = FALSE
      BY <2>1, <2>2, <2>3, EvaluatorFields
    <3> QED
      BY <1>3, <3>1 DEF Reporting
  <2> QED
    BY <1>1, <1>3, <2>2, <2>3 DEF Reporting
<1> QED
  BY <1>2, <1>3 DEF FailuresAreKnown, ReportsArrive

\* A step that leaves breakers and failures alone, and makes nobody report who did not.
LEMMA QuietKnows ==
  ASSUME EvaluationInvariant, UNCHANGED <<breakers, trouble>>,
         \A e \in Evaluators : Reporting(e)' => Reporting(e) /\ evaluator'[e].app = evaluator[e].app
  PROVE  FailuresAreKnown' /\ ReportsArrive'
BY DEF EvaluationInvariant, FailuresAreKnown, ReportsArrive, BreakerKnows, InTrouble

LEMMA GuardedField ==
  ASSUME NEW x, NEW a, NEW i, NEW g \in BOOLEAN,
         x = [at |-> "call", app |-> a, rule |-> i, guarded |-> g]
  PROVE  x.guarded = g
OBVIOUS

LEMMA AlarmKnows ==
  ASSUME EvaluationInvariant, NEW e \in Evaluators, Alarm(e)
  PROVE  FailuresAreKnown' /\ ReportsArrive'
<1> DEFINE a == evaluator[e].app
<1>1. DOMAIN breakers' = DOMAIN breakers /\ trouble' = trouble
  BY DEF EvaluationInvariant, EvaluationTypeOK, Alarm
<1>2. ASSUME NEW b \in Apps
      PROVE  IF b \in DOMAIN breakers' THEN BreakerKnows(b)' ELSE trouble'[b] = NoTrouble
  <2>1. ASSUME b \in DOMAIN breakers
        PROVE  /\ breakers'[b].failures = breakers[b].failures
               /\ breakers'[b].tripped = breakers[b].tripped
               /\ breakers'[b].since = breakers[b].since
    <3>1. breakers[b] \in Breaker
      BY <2>1 DEF EvaluationInvariant, EvaluationTypeOK
    <3>2. breakers'[b] \in {breakers[b], Try(breakers[b])}
      BY <2>1 DEF Alarm, EvaluationInvariant, EvaluationTypeOK
    <3> QED
      BY <3>1, <3>2 DEF Try, Breaker
  <2> QED
    BY <1>1, <2>1 DEF EvaluationInvariant, FailuresAreKnown, BreakerKnows, InTrouble
<1>3. ASSUME NEW f \in Evaluators, Reporting(f)'
      PROVE  evaluator'[f].app \in DOMAIN breakers'
  <2>1. CASE f = e
    <3>1. evaluator'[e] \in {Idle, [at |-> "call", app |-> a, rule |-> Head(evaluator[e].rules),
                                    guarded |-> a \in DOMAIN breakers]}
      BY DEF Alarm, EvaluationInvariant, EvaluationTypeOK
    <3> QED
      <4>1. CASE evaluator'[e] = Idle
        BY <1>3, <2>1, <4>1 DEF Reporting, Idle
      <4>2. CASE evaluator'[e] = [at |-> "call", app |-> a, rule |-> Head(evaluator[e].rules),
                                  guarded |-> a \in DOMAIN breakers]
        <5>1. evaluator'[e].app = a
          BY <4>2
        <5>2. evaluator'[e].guarded = (a \in DOMAIN breakers)
          BY <4>2, GuardedField
        <5>3. a \in DOMAIN breakers
          BY <1>3, <2>1, <5>2 DEF Reporting
        <5> QED
          BY <1>1, <2>1, <5>1, <5>3
      <4> QED
        BY <3>1, <4>1, <4>2
  <2>2. CASE f # e
    <3>1. evaluator'[f] = evaluator[f]
      BY <2>2 DEF Alarm, EvaluationInvariant, EvaluationTypeOK
    <3> QED
      BY <1>1, <1>3, <3>1 DEF Reporting, ReportsArrive, EvaluationInvariant
  <2> QED
    BY <2>1, <2>2
<1> QED
  BY <1>2, <1>3 DEF FailuresAreKnown, ReportsArrive

\* A failure is counted by the breaker as it is by the history, and trips the breaker
\* when it is the last one that may be.
LEMMA FinishKnows ==
  ASSUME EvaluationInvariant, NEW e \in Evaluators, Finish(e)
  PROVE  FailuresAreKnown' /\ ReportsArrive'
<1> DEFINE a  == evaluator[e].app
           ok == evaluator[e].answer.ok
<1>1. /\ evaluator[e] \in [at : {"answer"}, app : Apps, guarded : BOOLEAN, answer : AnswerType]
      /\ a \in Apps
  BY EvaluatorFields DEF EvaluationInvariant, EvaluationTypeOK, Finish
<1>2. DOMAIN breakers' = DOMAIN breakers
  BY DEF EvaluationInvariant, EvaluationTypeOK, Finish, Report
<1>3. ASSUME NEW f \in Evaluators, Reporting(f)'
      PROVE  evaluator'[f].app \in DOMAIN breakers'
  <2>1. f # e /\ evaluator'[f] = evaluator[f]
    BY <1>3 DEF Finish, EvaluationInvariant, EvaluationTypeOK, Reporting, Idle
  <2> QED
    BY <1>2, <1>3, <2>1 DEF Reporting, ReportsArrive, EvaluationInvariant
<1>4. ASSUME NEW b \in Apps
      PROVE  IF b \in DOMAIN breakers' THEN BreakerKnows(b)' ELSE trouble'[b] = NoTrouble
  <2>1. CASE ~evaluator[e].guarded
    <3>1. breakers' = breakers /\ trouble' = trouble
      BY <2>1 DEF Finish, Report
    <3> QED
      BY <3>1 DEF EvaluationInvariant, FailuresAreKnown, BreakerKnows, InTrouble
  <2>2. CASE evaluator[e].guarded
    <3>1. a \in DOMAIN breakers /\ breakers[a] \in Breaker /\ trouble[a] \in Trouble
      BY <1>1, <2>2 DEF EvaluationInvariant, EvaluationTypeOK, ReportsArrive, Reporting
    <3>2. CASE b # a
      <4>1. trouble'[b] = trouble[b] /\ (b \in DOMAIN breakers => breakers'[b] = breakers[b])
        BY <2>2, <3>2 DEF Finish, Report, EvaluationInvariant, EvaluationTypeOK
      <4> QED
        BY <1>2, <4>1 DEF EvaluationInvariant, FailuresAreKnown, BreakerKnows, InTrouble
    <3>3. CASE b = a /\ ok
      <4>1. trouble'[b] = NoTrouble /\ breakers'[b] = Success(breakers[b])
        BY <2>2, <3>1, <3>3 DEF Finish, Report, EvaluationInvariant, EvaluationTypeOK
      <4>2. breakers'[b].failures = 0
        BY <3>1, <3>3, <4>1 DEF Success, Breaker
      <4> QED
        BY <1>2, <4>1, <4>2, <3>1, <3>3, EvaluationAssumption DEF BreakerKnows, InTrouble, NoTrouble
    <3>4. CASE b = a /\ ~ok
      <4>1. /\ trouble'[b] = [failures |-> Least(trouble[b].failures + 1, ConsecutiveFailureCount), age |-> 0]
            /\ breakers'[b] = Failure(breakers[b])
        BY <2>2, <3>1, <3>4 DEF Finish, Report, EvaluationInvariant, EvaluationTypeOK
      <4>2. /\ breakers'[b].failures = Least(breakers[b].failures + 1, ConsecutiveFailureCount)
            /\ breakers'[b].tripped = (breakers[b].tripped
                                         \/ breakers[b].failures + 1 = ConsecutiveFailureCount)
            /\ breakers'[b].since = 0
        BY <3>1, <3>4, <4>1 DEF Failure, Breaker
      <4>3. BreakerKnows(b)
        BY <3>1, <3>4 DEF EvaluationInvariant, FailuresAreKnown
      <4>4. breakers[b].failures \in 0 .. ConsecutiveFailureCount
        BY <3>1, <3>4 DEF Breaker
      <4>5. trouble'[b].failures = Least(trouble[b].failures + 1, ConsecutiveFailureCount)
              /\ trouble'[b].age = 0
        BY <4>1
      <4>6. breakers[b].failures = trouble[b].failures
              /\ (trouble[b].failures = ConsecutiveFailureCount => breakers[b].tripped)
        BY <4>3 DEF BreakerKnows, InTrouble
      <4>7. breakers'[b].failures = ConsecutiveFailureCount => breakers'[b].tripped
        <5>1. breakers'[b].failures = ConsecutiveFailureCount
                => \/ breakers[b].failures = ConsecutiveFailureCount
                   \/ breakers[b].failures + 1 = ConsecutiveFailureCount
          BY <4>2, <4>4, EvaluationAssumption DEF Least
        <5> QED
          BY <4>2, <4>6, <5>1
      <4>8. BreakerKnows(b)'
        BY <4>2, <4>5, <4>6, <4>7 DEF BreakerKnows, InTrouble
      <4> QED
        BY <1>2, <3>1, <3>4, <4>8
    <3> QED
      BY <3>2, <3>3, <3>4
  <2> QED
    BY <2>1, <2>2
<1> QED
  BY <1>3, <1>4 DEF FailuresAreKnown, ReportsArrive

\* A breaker that has tripped waits as long as its failures are ago, or shorter.
LEMMA TickKnows ==
  ASSUME EvaluationInvariant, Tick
  PROVE  FailuresAreKnown' /\ ReportsArrive'
<1>1. DOMAIN breakers' = DOMAIN breakers
  BY DEF Tick
<1>2. ASSUME NEW e \in Evaluators, Reporting(e)'
      PROVE  evaluator'[e].app \in DOMAIN breakers'
  <2>1. evaluator[e] \in EvaluatorState
    BY DEF EvaluationInvariant, EvaluationTypeOK
  <2>2. \/ evaluator'[e] = evaluator[e]
        \/ /\ evaluator[e].at = "answer"
           /\ evaluator'[e] = [evaluator[e] EXCEPT !.answer = Result(Less(@.cooldown))]
    BY DEF Tick
  <2>3. Reporting(e) /\ evaluator'[e].app = evaluator[e].app
    BY <1>2, <2>1, <2>2, EvaluatorFields DEF Reporting
  <2> QED
    BY <1>1, <2>3 DEF ReportsArrive, EvaluationInvariant
<1>3. ASSUME NEW a \in Apps
      PROVE  IF a \in DOMAIN breakers' THEN BreakerKnows(a)' ELSE trouble'[a] = NoTrouble
  <2>1. trouble[a] \in Trouble
    BY DEF EvaluationInvariant, EvaluationTypeOK
  <2>2. trouble'[a] = IF InTrouble(a)
                      THEN [trouble[a] EXCEPT !.age = Least(@ + 1, BackOffInitialInterval + 1)]
                      ELSE trouble[a]
    BY DEF Tick
  <2>3. /\ trouble'[a].failures = trouble[a].failures
        /\ InTrouble(a) => trouble'[a].age = Least(trouble[a].age + 1, BackOffInitialInterval + 1)
    BY <2>1, <2>2 DEF Trouble
  <2>4. CASE a \notin DOMAIN breakers
    <3>1. trouble[a] = NoTrouble
      BY <2>4 DEF EvaluationInvariant, FailuresAreKnown
    <3>2. ~InTrouble(a)
      BY <3>1, EvaluationAssumption DEF NoTrouble, InTrouble
    <3> QED
      BY <1>1, <2>2, <2>4, <3>1, <3>2
  <2>5. CASE a \in DOMAIN breakers
    <3>1. breakers[a] \in Breaker
      BY <2>5 DEF EvaluationInvariant, EvaluationTypeOK
    <3>2. breakers'[a] = IF breakers[a].tripped THEN [breakers[a] EXCEPT !.since = Older(@)]
                         ELSE breakers[a]
      BY <2>5 DEF Tick
    <3>3. /\ breakers'[a].failures = breakers[a].failures
          /\ breakers'[a].tripped = breakers[a].tripped
          /\ breakers[a].tripped => breakers'[a].since = Older(breakers[a].since)
      BY <3>1, <3>2 DEF Breaker
    <3>4. BreakerKnows(a)
      BY <2>5 DEF EvaluationInvariant, FailuresAreKnown
    <3>5. breakers[a].since \in Nat /\ trouble[a].age \in Nat
      BY <2>1, <3>1, EvaluationAssumption DEF Breaker, Trouble
    <3>6. ASSUME InTrouble(a)'
          PROVE  /\ breakers'[a].tripped
                 /\ \/ breakers'[a].since <= trouble'[a].age
                    \/ trouble'[a].age > BackOffInitialInterval
      <4>1. InTrouble(a) /\ breakers[a].tripped
        BY <2>3, <3>4, <3>6 DEF InTrouble, BreakerKnows
      <4>2. /\ trouble'[a].age = Least(trouble[a].age + 1, BackOffInitialInterval + 1)
            /\ breakers'[a].since = Least(breakers[a].since + 1, BackOffMaxInterval + 1)
            /\ breakers[a].since <= trouble[a].age \/ trouble[a].age > BackOffInitialInterval
        BY <2>3, <3>3, <3>4, <4>1 DEF Older, BreakerKnows
      <4>3. \/ breakers'[a].since <= trouble'[a].age
            \/ trouble'[a].age > BackOffInitialInterval
        BY <3>5, <4>2, EvaluationAssumption DEF Least
      <4> QED
        BY <3>3, <4>1, <4>3
    <3>7. breakers'[a].failures = trouble'[a].failures
      BY <2>3, <3>3, <3>4 DEF BreakerKnows
    <3> QED
      BY <1>1, <2>5, <3>6, <3>7 DEF BreakerKnows
  <2> QED
    BY <2>4, <2>5
<1> QED
  BY <1>2, <1>3 DEF FailuresAreKnown, ReportsArrive

\* The other steps of an evaluator.
LEMMA EvaluatorKnows ==
  ASSUME EvaluationInvariant, NEW e \in Evaluators,
         Receive(e) \/ NotBreached(e) \/ Handle(e) \/ Refuse(e)
  PROVE  FailuresAreKnown' /\ ReportsArrive'
<1>1. UNCHANGED <<breakers, trouble>>
  BY DEF Receive, NotBreached, Handle, Refuse
<1>2. \A f \in Evaluators : f # e => evaluator'[f] = evaluator[f]
  BY DEF Receive, NotBreached, Handle, Refuse, Answer, EvaluationInvariant, EvaluationTypeOK
<1>3. evaluator[e] \in EvaluatorState
  BY DEF EvaluationInvariant, EvaluationTypeOK
<1>4. Reporting(e)' => Reporting(e) /\ evaluator'[e].app = evaluator[e].app
  <2>1. CASE Receive(e)
    BY <2>1 DEF Receive, Reporting, EvaluationInvariant, EvaluationTypeOK
  <2>2. CASE NotBreached(e)
    <3>1. evaluator'[e] \in {Idle, [evaluator[e] EXCEPT !.rules = Tail(@)]}
      BY <2>2 DEF NotBreached, EvaluationInvariant, EvaluationTypeOK
    <3>2. evaluator[e] \in [at : {"evaluate"}, app : Apps, rules : Seq(DOMAIN Rules) \ {<<>>}]
      BY <2>2, <1>3, EvaluatorFields DEF NotBreached
    <3>3. evaluator'[e].at \in {"idle", "evaluate"}
      BY <3>1, <3>2 DEF Idle
    <3> QED
      BY <3>3 DEF Reporting
  <2>3. ASSUME NEW answer, Answer(e, answer), evaluator[e].at = "call"
        PROVE  Reporting(e)' => Reporting(e) /\ evaluator'[e].app = evaluator[e].app
    <3>1. evaluator'[e] = [at |-> "answer", app |-> evaluator[e].app,
                           guarded |-> evaluator[e].guarded, answer |-> answer]
      BY <2>3 DEF Answer, EvaluationInvariant, EvaluationTypeOK
    <3> QED
      BY <2>3, <3>1 DEF Reporting
  <2>4. CASE Handle(e)
    BY <2>3, <2>4 DEF Handle
  <2>5. CASE Refuse(e)
    BY <2>3, <2>5 DEF Refuse
  <2> QED
    BY <2>1, <2>2, <2>4, <2>5
<1> QED
  BY <1>1, <1>2, <1>4, QuietKnows DEF Reporting

LEMMA NextKnows ==
  ASSUME EvaluationInvariant, [Next]_vars
  PROVE  EvaluationInvariant'
<1>1. ASSUME UNCHANGED <<breakers, trouble, evaluator>>
      PROVE  FailuresAreKnown' /\ ReportsArrive'
  BY <1>1, QuietKnows DEF Reporting
<1>2. ASSUME NEW a \in Apps, NEW i \in DOMAIN Rules, Collect(a, i)
      PROVE  UNCHANGED <<breakers, trouble, evaluator>>
  BY <1>2 DEF Collect
<1>3. ASSUME NEW x \in manager.arrays, Send(x)
      PROVE  UNCHANGED <<breakers, trouble, evaluator>>
  BY <1>3 DEF Send
<1>4. ASSUME NEW x \in late, HandleLate(x)
      PROVE  UNCHANGED <<breakers, trouble, evaluator>>
  BY <1>4 DEF HandleLate
<1>5. CASE Measure \/ ChangePolicies \/ UNCHANGED vars
  BY <1>1, <1>5, NextTypes DEF Measure, ChangePolicies, vars, EvaluationInvariant
<1>6. CASE StartRound
  BY <1>6, StartRoundKnows, NextTypes DEF EvaluationInvariant
<1>7. CASE Tick
  BY <1>7, TickKnows, NextTypes DEF EvaluationInvariant
<1>8. ASSUME NEW e \in Evaluators, Receive(e) \/ NotBreached(e) \/ Alarm(e) \/ Finish(e)
                                   \/ Handle(e) \/ Refuse(e)
      PROVE  EvaluationInvariant'
  BY <1>8, EvaluatorKnows, AlarmKnows, FinishKnows, NextTypes DEF EvaluationInvariant
<1>9. CASE \/ \E a \in Apps, i \in DOMAIN Rules : Collect(a, i)
           \/ \E x \in manager.arrays : Send(x)
           \/ \E x \in late : HandleLate(x)
  BY <1>1, <1>2, <1>3, <1>4, <1>9, NextTypes DEF EvaluationInvariant
<1> QED
  BY <1>5, <1>6, <1>7, <1>8, <1>9 DEF Next

LEMMA InitKnows == Init => EvaluationInvariant
BY InitTypes DEF Init, EvaluationInvariant, FailuresAreKnown, ReportsArrive, Reporting, Idle

\* The state stays well typed, no app is driven out of the limits of its policy, and
\* each breaker knows of the failures of its app: the inductive invariant.
THEOREM BreakersKnow == Spec => []EvaluationInvariant
<1> QED
  BY InitKnows, NextKnows, PTL DEF Spec

\* Only an alarm that the breaker allows leads to a call.
LEMMA CallsAreAllowed ==
  ASSUME EvaluationInvariant, [Next]_vars, NEW e \in Evaluators,
         evaluator[e].at = "evaluate", evaluator'[e].at = "call"
  PROVE  Alarm(e) /\ Allowed(evaluator[e].app)
<1>1. \A x : [evaluator EXCEPT ![e] = x][e] = x
  BY DEF EvaluationInvariant, EvaluationTypeOK
<1>2. ASSUME NEW f \in Evaluators, f # e, Receive(f) \/ NotBreached(f) \/ Alarm(f) \/ Finish(f)
                                          \/ Handle(f) \/ Refuse(f)
      PROVE  FALSE
  <2>1. evaluator'[e] = evaluator[e]
    BY <1>2 DEF Receive, NotBreached, Alarm, Finish, Handle, Refuse, Answer,
                EvaluationInvariant, EvaluationTypeOK
  <2> QED
    BY <2>1
<1>3. ASSUME evaluator' = evaluator PROVE FALSE
  BY <1>3
<1>4. CASE StartRound
  BY <1>4 DEF StartRound
<1>5. CASE Tick
  BY <1>5 DEF Tick
<1>6. evaluator[e] \in EvaluatorState
  BY DEF EvaluationInvariant, EvaluationTypeOK
<1>7. ~NotBreached(e)
  <2> SUFFICES ASSUME NotBreached(e) PROVE FALSE
    OBVIOUS
  <2>1. evaluator'[e] \in {Idle, [evaluator[e] EXCEPT !.rules = Tail(@)]}
    BY DEF NotBreached, EvaluationInvariant, EvaluationTypeOK
  <2>2. evaluator[e] \in [at : {"evaluate"}, app : Apps, rules : Seq(DOMAIN Rules) \ {<<>>}]
    BY <1>6, EvaluatorFields
  <2> QED
    BY <2>1, <2>2 DEF Idle
<1>8. ~Receive(e) /\ ~Finish(e) /\ ~Handle(e) /\ ~Refuse(e)
  BY DEF Receive, Finish, Handle, Refuse
<1>9. Alarm(e)
  <2>1. ASSUME NEW a \in Apps, NEW i \in DOMAIN Rules, Collect(a, i) PROVE FALSE
    BY <1>3, <2>1 DEF Collect
  <2>2. ASSUME NEW x \in manager.arrays, Send(x) PROVE FALSE
    BY <1>3, <2>2 DEF Send
  <2>3. ASSUME NEW x \in late, HandleLate(x) PROVE FALSE
    BY <1>3, <2>3 DEF HandleLate
  <2>4. ~Measure /\ ~ChangePolicies /\ ~UNCHANGED vars
    BY <1>3 DEF Measure, ChangePolicies, vars
  <2> QED
    BY <1>2, <1>4, <1>5, <1>7, <1>8, <2>1, <2>2, <2>3, <2>4 DEF Next
<1>10. Allowed(evaluator[e].app)
  <2> SUFFICES ASSUME ~Allowed(evaluator[e].app) PROVE FALSE
    OBVIOUS
  <2>1. evaluator'[e] = Idle
    BY <1>9 DEF Alarm, EvaluationInvariant, EvaluationTypeOK
  <2> QED
    BY <2>1 DEF Idle
<1> QED
  BY <1>9, <1>10

\* After the failures that trip the breaker no alarm of the app is raised before the
\* back-off is over, for any number of evaluators and any rounds that begin meanwhile.
THEOREM EngineStaysSpared == Spec => EngineIsSpared
<1>1. ASSUME EvaluationInvariant, [Next]_vars, NEW e \in Evaluators,
             evaluator[e].at = "evaluate", evaluator'[e].at = "call"
      PROVE  LET a == evaluator[e].app
             IN  \/ trouble[a].failures < ConsecutiveFailureCount
                 \/ trouble[a].age > BackOffInitialInterval
  <2> DEFINE a == evaluator[e].app
  <2>1. Allowed(a)
    BY <1>1, CallsAreAllowed
  <2>2. a \in Apps /\ trouble[a] \in Trouble
    BY <1>1, EvaluatorFields DEF EvaluationInvariant, EvaluationTypeOK
  <2>3. trouble[a].failures \in 0 .. ConsecutiveFailureCount /\ trouble[a].age \in Nat
    BY <2>2, EvaluationAssumption DEF Trouble
  <2>4. CASE a \notin DOMAIN breakers
    <3>1. trouble[a] = NoTrouble
      BY <1>1, <2>2, <2>4 DEF EvaluationInvariant, FailuresAreKnown
    <3> QED
      BY <3>1, EvaluationAssumption DEF NoTrouble
  <2>5. CASE a \in DOMAIN breakers
    <3>1. breakers[a] \in Breaker /\ BreakerKnows(a) /\ Ready(breakers[a])
      BY <1>1, <2>1, <2>2, <2>5 DEF EvaluationInvariant, EvaluationTypeOK, FailuresAreKnown, Allowed
    <3>2. breakers[a].since \in Nat /\ breakers[a].next \in Nat
            /\ breakers[a].next >= BackOffInitialInterval
      BY <3>1, EvaluationAssumption DEF Breaker
    <3>3. \/ trouble[a].failures # ConsecutiveFailureCount
          \/ breakers[a].since > breakers[a].next /\ breakers[a].since <= trouble[a].age
          \/ trouble[a].age > BackOffInitialInterval
      BY <3>1 DEF BreakerKnows, InTrouble, Ready
    <3> QED
      BY <2>3, <3>2, <3>3, EvaluationAssumption
  <2> QED
    BY <2>4, <2>5
<1>2. EvaluationInvariant /\ [Next]_vars =>
        \A e \in Evaluators :
          evaluator[e].at = "evaluate" /\ evaluator'[e].at = "call"
            => LET a == evaluator[e].app
               IN  \/ trouble[a].failures < ConsecutiveFailureCount
                   \/ trouble[a].age > BackOffInitialInterval
  BY <1>1
<1> QED
  BY <1>2, BreakersKnow, PTL DEF Spec, EngineIsSpared
=============================================================================
