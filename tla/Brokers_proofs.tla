---------------------------- MODULE Brokers_proofs ----------------------------
(***************************************************************************)
(* The two service brokers, for any number of requests and connections.    *)
(* That of the Go API server tells the truth: it implements Registry, for  *)
(* any instances and bindings.  The other one (Broker) leaves no policy    *)
(* behind when it ends a binding, for any applications, policies and       *)
(* failures.                                                               *)
(***************************************************************************)
EXTENDS ServiceInstances, Broker, FiniteSetTheorems, TLAPS

-----------------------------------------------------------------------------
(* The broker of the Go API server.                                        *)

\* What a step does not touch keeps its type, and the steps that only move one
\* request keep what is said of the others.
LEMMA ReceiveKeeps ==
  ASSUME ApiInvariant, NEW r \in Calls, Receive(r)
  PROVE  ApiInvariant'
BY ApiAssumption DEF ApiInvariant, Receive, Reply, Goto, Places, Replies

LEMMA RespondKeeps ==
  ASSUME ApiInvariant, NEW r \in Calls, Respond(r)
  PROVE  ApiInvariant'
BY ApiAssumption DEF ApiInvariant, Respond, Goto, Places, Replies

LEMMA HoldersAreFew ==
  ASSUME ApiInvariant
  PROVE  IsFiniteSet(holds)
BY ApiAssumption, FS_Subset DEF ApiInvariant

LEMMA QueryKeeps ==
  ASSUME ApiInvariant, NEW r \in Calls, Query(r)
  PROVE  ApiInvariant'
<1>1. r \notin holds
  BY DEF ApiInvariant, Query
<1>2. Cardinality(holds \cup {r}) = Cardinality(holds) + 1 /\ Cardinality(holds) \in Nat
  BY <1>1, HoldersAreFew, FS_AddElement, FS_CardinalityType
<1>3. Exists(asked[r]) \in BOOLEAN
  BY DEF Exists
<1>4. Cardinality(holds') <= PoolSize
  <2>1. CASE holds' = holds \cup {r}
    BY <1>2, <2>1, ApiAssumption DEF Query
  <2>2. CASE UNCHANGED holds
    BY <2>2 DEF ApiInvariant
  <2> QED
    BY <2>1, <2>2 DEF Query
<1> QED
  BY <1>3, <1>4 DEF ApiInvariant, Query, Reply, Goto, Places, Replies

LEMMA CloseRowsKeeps ==
  ASSUME ApiInvariant, NEW r \in Calls, CloseRows(r)
  PROVE  ApiInvariant'
<1>1. Cardinality(holds \ {r}) <= Cardinality(holds) /\ Cardinality(holds \ {r}) \in Nat
      /\ Cardinality(holds) \in Nat
  BY HoldersAreFew, FS_Subset, FS_CardinalityType
<1>2. Cardinality(holds') <= PoolSize
  BY <1>1, ApiAssumption DEF CloseRows, ApiInvariant
<1> QED
  BY <1>2 DEF ApiInvariant, CloseRows, Reply, Goto, Places, Replies

\* A statement that the keys allow leaves each binding with its instance.
LEMMA EffectKeeps ==
  ASSUME ApiInvariant, NEW o \in Operations, Allowed(o), Effect(o)
  PROVE  /\ instances' \subseteq Instances
         /\ boundTo' \in [Bindings -> Instances \cup {NoInstance}]
         /\ \A b \in Bindings : boundTo'[b] # NoInstance => boundTo'[b] \in instances'
<1>1. CASE o.kind = "provision"
  BY <1>1 DEF ApiInvariant, Effect, Operations
<1>2. CASE o.kind = "deprovision"
  BY <1>2 DEF ApiInvariant, Effect, Operations, Allowed
<1>3. CASE o.kind = "bind"
  BY <1>3 DEF ApiInvariant, Effect, Operations, Allowed
<1>4. CASE o.kind = "unbind"
  BY <1>4 DEF ApiInvariant, Effect, Operations
<1> QED
  BY <1>1, <1>2, <1>3, <1>4 DEF Operations

LEMMA ExecKeeps ==
  ASSUME ApiInvariant, NEW r \in Calls, Exec(r)
  PROVE  ApiInvariant'
<1>1. asked[r] \in Operations
  BY DEF ApiInvariant, Exec
<1>2. /\ instances' \subseteq Instances
      /\ boundTo' \in [Bindings -> Instances \cup {NoInstance}]
      /\ \A b \in Bindings : boundTo'[b] # NoInstance => boundTo'[b] \in instances'
  <2>1. CASE Allowed(asked[r]) /\ Effect(asked[r])
    BY <1>1, <2>1, EffectKeeps
  <2>2. CASE UNCHANGED <<instances, boundTo>>
    BY <2>2 DEF ApiInvariant
  <2> QED
    BY <2>1, <2>2 DEF Exec
<1>3. /\ pc' = [pc EXCEPT ![r] = "answer"]
      /\ \E a \in {"created", "deleted", "error"} : answer' = [answer EXCEPT ![r] = a]
      /\ UNCHANGED <<asked, found, holds>> /\ pc[r] = "exec"
  BY DEF Exec, Reply, Goto
<1> QED
  BY <1>2, <1>3 DEF ApiInvariant, Places, Replies

\* The rows, the requests and the pool stay in order.
THEOREM ApiInvariantHolds ==
  ApiSpec => []ApiInvariant
<1>1. ApiInit => ApiInvariant
  <2> SUFFICES ASSUME ApiInit PROVE ApiInvariant
    OBVIOUS
  <2>1. Cardinality(holds) = 0
    BY FS_EmptySet DEF ApiInit
  <2> QED
    BY <2>1, ApiAssumption DEF ApiInit, ApiInvariant, Places, Replies
<1>2. ApiInvariant /\ [ApiNext]_apiVars => ApiInvariant'
  <2> SUFFICES ASSUME ApiInvariant, [ApiNext]_apiVars PROVE ApiInvariant'
    OBVIOUS
  <2>1. CASE UNCHANGED apiVars
    BY <2>1 DEF apiVars, ApiInvariant
  <2>2. ASSUME NEW r \in Calls,
               Receive(r) \/ Query(r) \/ CloseRows(r) \/ Exec(r) \/ Respond(r)
        PROVE  ApiInvariant'
    BY <2>2, ReceiveKeeps, QueryKeeps, CloseRowsKeeps, ExecKeeps, RespondKeeps
  <2> QED
    BY <2>1, <2>2 DEF ApiNext
<1> QED
  BY <1>1, <1>2, PTL DEF ApiSpec

-----------------------------------------------------------------------------
(* The refinement: a request takes effect when its query decides it, or    *)
(* with its statement.                                                     *)

TOLD == [r \in Calls |-> Told(r)]

\* A step of r changes what r is told and nobody else.
LEMMA OnlyOneIsTold ==
  ASSUME NEW r \in Calls, NEW a,
         \A s \in Calls \ {r} :
           /\ pc'[s] = pc[s] /\ asked'[s] = asked[s]
           /\ found'[s] = found[s] /\ answer'[s] = answer[s],
         Told(r)' = a
  PROVE  TOLD' = [TOLD EXCEPT ![r] = a]
BY DEF TOLD, Told, Creates

\* Who has not yet queried, or is about to change something, is told nothing.
LEMMA Undecided ==
  ASSUME ApiInvariant, NEW r \in Calls, pc[r] \in {"query", "exec"}
  PROVE  /\ TOLD[r] = "none" /\ answer[r] = "none"
         /\ asked[r] \in Operations /\ asked[r] # Nothing
BY ApiAssumption DEF ApiInvariant, TOLD, Told

LEMMA ReceiveAsks ==
  ASSUME ApiInvariant, NEW r \in Calls, Receive(r)
  PROVE  Promise!Ask(r)
<1>1. PICK o \in Operations : asked' = [asked EXCEPT ![r] = o]
  BY DEF Receive
<1>2. PICK a \in {"none", "refused"} : Told(r)' = a
  BY DEF Receive, Reply, Goto, Told, ApiInvariant
<1>3. TOLD' = [TOLD EXCEPT ![r] = a]
  BY <1>1, <1>2, OnlyOneIsTold DEF Receive, Reply, Goto, ApiInvariant
<1>4. asked[r] = Nothing /\ UNCHANGED <<instances, boundTo>>
  BY DEF Receive, ApiInvariant
<1> QED
  BY <1>1, <1>3, <1>4 DEF Promise!Ask, Promise!Operations, Operations, TOLD

LEMMA QueryDecides ==
  ASSUME ApiInvariant, NEW r \in Calls, Query(r)
  PROVE  Promise!NoChange(r) \/ UNCHANGED <<instances, boundTo, asked, TOLD>>
<1>1. /\ TOLD[r] = "none" /\ answer[r] = "none"
      /\ asked[r] \in Operations /\ asked[r] # Nothing
  BY Undecided DEF Query
<1>2. UNCHANGED <<instances, boundTo, asked>>
  BY DEF Query
<1>3. CASE Reply(r, "error") /\ UNCHANGED found
  <2>1. Told(r)' = "error"
    BY <1>3 DEF Reply, Goto, Told, ApiInvariant
  <2>2. TOLD' = [TOLD EXCEPT ![r] = "error"]
    BY <1>2, <1>3, <2>1, OnlyOneIsTold DEF Reply, Goto, ApiInvariant
  <2> QED
    BY <1>1, <1>2, <2>2 DEF Promise!NoChange, Promise!Open, Promise!Outcome, TOLD
<1>4. CASE /\ Goto(r, "rows") /\ UNCHANGED answer
           /\ found' = [found EXCEPT ![r] = Exists(asked[r])]
  <2>1. pc'[r] = "rows" /\ found'[r] = Exists(asked[r]) /\ answer'[r] = "none"
    BY <1>1, <1>4 DEF Goto, ApiInvariant
  <2>2. \A s \in Calls \ {r} :
           /\ pc'[s] = pc[s] /\ asked'[s] = asked[s]
           /\ found'[s] = found[s] /\ answer'[s] = answer[s]
    BY <1>2, <1>4 DEF Goto, ApiInvariant
  <2>3. CASE Creates(asked[r]) /\ Exists(asked[r])
    <3>1. Told(r)' = "exists"
      BY <1>2, <2>1, <2>3 DEF Told, Creates
    <3>2. TOLD' = [TOLD EXCEPT ![r] = "exists"]
      BY <2>2, <3>1, OnlyOneIsTold
    <3> QED
      BY <1>1, <1>2, <2>3, <3>2 DEF Promise!NoChange, Promise!Open, Promise!Outcome,
         Promise!Creates, Promise!Exists, Creates, Exists, TOLD
  <2>4. CASE ~Creates(asked[r]) /\ ~Exists(asked[r])
    <3>0. Exists(asked[r]) = FALSE /\ Creates(asked'[r]) = FALSE
      BY <1>2, <2>4 DEF Exists, Creates
    <3>1. Told(r)' = "gone"
      BY <2>1, <3>0 DEF Told, Creates
    <3>2. TOLD' = [TOLD EXCEPT ![r] = "gone"]
      BY <2>2, <3>1, OnlyOneIsTold
    <3> QED
      BY <1>1, <1>2, <2>4, <3>2 DEF Promise!NoChange, Promise!Open, Promise!Outcome,
         Promise!Creates, Promise!Exists, Creates, Exists, TOLD
  <2>5. CASE Creates(asked[r]) # Exists(asked[r])
    <3>1. Told(r)' = "none"
      BY <1>2, <2>1, <2>5 DEF Told, Creates, Exists
    <3>2. TOLD' = [TOLD EXCEPT ![r] = "none"]
      BY <2>2, <3>1, OnlyOneIsTold
    <3> QED
      BY <1>1, <1>2, <3>2 DEF TOLD
  <2> QED
    BY <2>3, <2>4, <2>5 DEF Creates, Exists
<1> QED
  BY <1>3, <1>4 DEF Query

LEMMA CloseRowsTells ==
  ASSUME ApiInvariant, NEW r \in Calls, CloseRows(r)
  PROVE  UNCHANGED <<instances, boundTo, asked, TOLD>>
<1>1. asked[r] \in Operations /\ answer[r] = "none" /\ UNCHANGED <<instances, boundTo, asked, found>>
  BY DEF ApiInvariant, CloseRows
<1>2. Told(r)' = Told(r)
  BY <1>1 DEF CloseRows, Told, Reply, Goto, Creates, ApiInvariant
<1>3. TOLD' = [TOLD EXCEPT ![r] = Told(r)]
  BY <1>1, <1>2, OnlyOneIsTold DEF CloseRows, Reply, Goto, ApiInvariant
<1> QED
  BY <1>1, <1>3 DEF TOLD

LEMMA ExecChanges ==
  ASSUME ApiInvariant, NEW r \in Calls, Exec(r)
  PROVE  Promise!Change(r) \/ Promise!NoChange(r)
<1>1. /\ TOLD[r] = "none" /\ answer[r] = "none"
      /\ asked[r] \in Operations /\ asked[r] # Nothing
  BY Undecided DEF Exec
<1>2. UNCHANGED <<asked, found>>
  BY DEF Exec
<1>3. ASSUME NEW a, Reply(r, a)
      PROVE  TOLD' = [TOLD EXCEPT ![r] = a]
  <2>1. Told(r)' = a
    BY <1>3 DEF Reply, Goto, Told, ApiInvariant
  <2> QED
    BY <1>2, <1>3, <2>1, OnlyOneIsTold DEF Reply, Goto, ApiInvariant
<1>4. CASE Reply(r, "error") /\ UNCHANGED <<instances, boundTo>>
  BY <1>1, <1>2, <1>3, <1>4 DEF Promise!NoChange, Promise!Open, Promise!Outcome, TOLD
<1>5. CASE /\ Allowed(asked[r]) /\ (Creates(asked[r]) => ~Exists(asked[r]))
           /\ Effect(asked[r])
           /\ \/ Reply(r, IF Creates(asked[r]) THEN "created" ELSE "deleted")
              \/ Reply(r, "error")
  <2>1. /\ Promise!Allowed(asked[r]) /\ Promise!Effect(asked[r])
        /\ (Promise!Creates(asked[r]) => ~Promise!Exists(asked[r]))
    BY <1>5 DEF Promise!Allowed, Promise!Effect, Promise!Creates, Promise!Exists,
       Allowed, Effect, Creates, Exists
  <2>2. \/ TOLD' = [TOLD EXCEPT ![r] = IF Creates(asked[r]) THEN "created" ELSE "deleted"]
        \/ TOLD' = [TOLD EXCEPT ![r] = "error"]
    BY <1>3, <1>5
  <2>3. \/ Promise!Outcome(r, IF Promise!Creates(asked[r]) THEN "created" ELSE "deleted")
        \/ Promise!Outcome(r, "error")
    BY <1>2, <2>2 DEF Promise!Outcome, Promise!Creates, Creates, TOLD
  <2>4. Promise!Open(r)
    BY <1>1 DEF Promise!Open, TOLD
  <2> QED
    BY <2>1, <2>3, <2>4 DEF Promise!Change
<1> QED
  BY <1>4, <1>5 DEF Exec

LEMMA RespondAnswers ==
  ASSUME ApiInvariant, NEW r \in Calls, Respond(r)
  PROVE  Promise!Answer(r)
<1>1. TOLD[r] # "none"
  BY DEF Respond, ApiInvariant, TOLD, Told
<1>2. Told(r)' = "none"
  BY DEF Respond, Goto, Told, ApiInvariant
<1>3. TOLD' = [TOLD EXCEPT ![r] = "none"]
  BY <1>2, OnlyOneIsTold DEF Respond, Goto, ApiInvariant
<1> QED
  BY <1>1, <1>3 DEF Promise!Answer, Respond, TOLD

\* However many requests for a row overlap, each takes effect at one moment
\* and its answer tells the truth about that moment, or is an error.
THEOREM BrokerTellsTheTruth == ApiSpec => AnswersAreTrue
<1>1. ApiInit => Promise!Init
  BY DEF ApiInit, Promise!Init, Told
<1>2. ApiInvariant /\ [ApiNext]_apiVars => [Promise!Next]_(Promise!vars)
  <2> SUFFICES ASSUME ApiInvariant, [ApiNext]_apiVars PROVE [Promise!Next]_(Promise!vars)
    OBVIOUS
  <2>1. CASE UNCHANGED apiVars
    BY <2>1 DEF apiVars, Promise!vars, Told, Creates
  <2>2. ASSUME NEW r \in Calls,
               Receive(r) \/ Query(r) \/ CloseRows(r) \/ Exec(r) \/ Respond(r)
        PROVE  [Promise!Next]_(Promise!vars)
    <3>1. \/ Promise!Ask(r) \/ Promise!Change(r) \/ Promise!NoChange(r) \/ Promise!Answer(r)
          \/ UNCHANGED <<instances, boundTo, asked, TOLD>>
      BY <2>2, ReceiveAsks, QueryDecides, CloseRowsTells, ExecChanges, RespondAnswers
    <3> QED
      BY <3>1 DEF Promise!Next, Promise!vars, TOLD
  <2> QED
    BY <2>1, <2>2 DEF ApiNext
<1> QED
  BY <1>1, <1>2, ApiInvariantHolds, PTL DEF ApiSpec, AnswersAreTrue, Promise!Spec
-----------------------------------------------------------------------------
(* The service broker in front of the API.                                 *)

\* Who may not store a policy cannot be asked for one any more, and stays so.
LEMMA PutsMayStore ==
  ASSUME AskedOf, NEW p \in Requests, req[p].op = "put", req[p].api \in {"policy", "update"}
  PROVE  MayStore(p)
BY DEF AskedOf, MayStore, Answers

\* The requests' part of the invariant, one request moved to another stage.
LEMMA AdvanceKeeps ==
  ASSUME BrokerInvariant, NEW r \in Requests, NEW stage \in Stages,
         At(r, stage), bro[r].at \notin Over, UNCHANGED <<policy, req>>,
         bro[r].op = "unbind" /\ stage = "policy" => req[r].op = "delete",
         bro[r].op = "unbind" /\ stage \in {"creds", "commit"} => Detached(r)
  PROVE  BrokerInvariant'
<1> USE DEF BrokerInvariant
<1>1. /\ bro' = [bro EXCEPT ![r].at = stage]
      /\ bro \in [Requests -> BrokerRequest]
  BY DEF At, AskedOf
<1>2. /\ \A q \in Requests \ {r} : bro'[q] = bro[q]
      /\ bro'[r].at = stage
      /\ bro'[r].op = bro[r].op /\ bro'[r].app = bro[r].app /\ bro'[r].alone = bro[r].alone
  BY <1>1
<1>3. AskedOf'
  <2>1. bro' \in [Requests -> BrokerRequest]
    BY <1>1 DEF BrokerRequest
  <2> QED  BY <1>2, <2>1 DEF AskedOf
<1>4. ASSUME NEW p \in Requests, MayStore(p)'
      PROVE  MayStore(p)
  BY <1>2, <1>4 DEF MayStore
<1>5. ASSUME NEW q \in Requests, bro[q].op = "unbind", Detached(q)'
      PROVE  Detached(q)
  BY <1>2, <1>5 DEF Detached
<1> QED
  BY <1>2, <1>3, <1>4, <1>5 DEF DetachedIsGone

\* A request arrives: to be alone it has to find nobody who may store a policy, and a
\* new one that may leaves nobody alone.
LEMMA ArriveKeeps ==
  ASSUME BrokerInvariant, NEW r \in Requests, NEW op \in {"bind", "unbind", "public"},
         NEW a \in Apps, NEW policyGiven \in BOOLEAN, NEW binding \in Requests \cup {None},
         NEW at \in {"begin", "find"}, Arrive(r, op, a, policyGiven, binding, at)
  PROVE  BrokerInvariant'
<1> USE DEF BrokerInvariant
<1> DEFINE still(q) == bro[q].alone /\ op = "unbind"
<1>1. /\ bro[r].op = "none" /\ UNCHANGED <<policy, req>>
      /\ bro' \in [Requests -> BrokerRequest]
  <2>1. ASSUME NEW b \in BrokerRequest, NEW x \in BOOLEAN
        PROVE  [b EXCEPT !.alone = x] \in BrokerRequest
    BY DEF BrokerRequest
  <2>2. ASSUME NEW q \in Requests
        PROVE  [bro[q] EXCEPT !.alone = still(q)] \in BrokerRequest
    <3>1. still(q) \in BOOLEAN
      OBVIOUS
    <3> HIDE DEF still
    <3> QED  BY <2>1, <3>1 DEF AskedOf
  <2>3. [op |-> op, app |-> a, policy |-> policyGiven, binding |-> binding, at |-> at,
         alone |-> \A p \in Requests : ~MayStore(p)] \in BrokerRequest
    BY DEF BrokerRequest, Stages
  <2> QED  BY <2>2, <2>3 DEF Arrive, vars
<1>2. /\ bro'[r].op = op /\ bro'[r].at = at /\ bro'[r].app = a
      /\ bro'[r].alone = TRUE => \A p \in Requests : ~MayStore(p)
  BY DEF Arrive
<1>3. ASSUME NEW q \in Requests \ {r}
      PROVE  /\ bro'[q].op = bro[q].op /\ bro'[q].at = bro[q].at /\ bro'[q].app = bro[q].app
             /\ bro'[q].alone = TRUE => bro[q].alone = TRUE /\ op = "unbind"
  <2>1. bro'[q] = [bro[q] EXCEPT !.alone = still(q)]
    BY DEF Arrive
  <2>2. still(q) = TRUE => bro[q].alone = TRUE /\ op = "unbind"
    BY DEF AskedOf
  <2> HIDE DEF still
  <2> QED  BY <2>1, <2>2 DEF AskedOf
<1>4. req[r].op = "none" /\ req[r].api = "none"
  BY <1>1 DEF AskedOf
<1>5. AskedOf'
  <2>1. ASSUME NEW q \in Requests
        PROVE  /\ req[q].op = "none" => req[q].api = "none"
               /\ req[q].op # "none" => bro'[q].op # "none" /\ req[q].app = bro'[q].app
               /\ req[q].op = "put" => bro'[q].op \in {"bind", "public"}
               /\ req[q].api = "update" => req[q].op = "put"
               /\ bro'[q].op = "unbind" /\ bro'[q].at = "policy" => req[q].op = "delete"
    <3>1. CASE q = r
      BY <1>2, <1>4, <3>1
    <3>2. CASE q # r
      BY <1>3, <3>2 DEF AskedOf
    <3> QED  BY <3>1, <3>2
  <2> QED  BY <1>1, <2>1 DEF AskedOf
<1>6. ASSUME op = "unbind", NEW p \in Requests, MayStore(p)'
      PROVE  MayStore(p)
  BY <1>1, <1>2, <1>3, <1>6 DEF MayStore
<1>7. ASSUME NEW q \in Requests, bro'[q].op = "unbind", bro'[q].alone = TRUE,
             bro'[q].at \notin Over
      PROVE  /\ \A p \in Requests : ~MayStore(p)'
             /\ Detached(q)' => policy'[bro'[q].app] = None
  <2>1. CASE q = r
    BY <1>1, <1>2, <1>4, <1>6, <1>7, <2>1 DEF Detached
  <2>2. CASE q # r
    BY <1>1, <1>3, <1>6, <1>7, <2>2 DEF Detached, DetachedIsGone
  <2> QED  BY <2>1, <2>2
<1> QED
  BY <1>5, <1>7 DEF DetachedIsGone

\* The broker asks the API.
LEMMA AskKeeps ==
  ASSUME BrokerInvariant, NEW r \in Requests, NEW stage \in {"done", "policy"},
         NEW op \in {"put", "delete"}, NEW full \in BOOLEAN,
         At(r, stage), bro[r].at \notin Over, Ask(r, op, bro[r].app, full),
         op = "put" => bro[r].op \in {"bind", "public"},
         op = "delete" => bro[r].op \in {"unbind", "public"}
  PROVE  BrokerInvariant'
<1> USE DEF BrokerInvariant
<1> DEFINE request == [op |-> op, app |-> bro[r].app, full |-> full,
                       api   |-> IF op = "put" THEN "scheduler" ELSE "policy",
                       sched |-> IF op = "put" THEN "find" ELSE "none"]
<1>1. /\ bro' = [bro EXCEPT ![r].at = stage] /\ req' = [req EXCEPT ![r] = request]
      /\ policy' = policy /\ req[r].op = "none" /\ req[r].api = "none"
  BY DEF At, Ask, AskedOf
<1>2. /\ \A q \in Requests \ {r} : bro'[q] = bro[q] /\ req'[q] = req[q]
      /\ bro'[r].at = stage
      /\ bro'[r].op = bro[r].op /\ bro'[r].app = bro[r].app /\ bro'[r].alone = bro[r].alone
      /\ req'[r] = request
  BY <1>1 DEF AskedOf
<1>3. AskedOf'
  <2>1. stage \in Stages
    BY DEF Stages, Over, BrokerAnswers
  <2>2. bro' \in [Requests -> BrokerRequest]
    BY <1>1, <2>1 DEF AskedOf, Asked, BrokerRequest
  <2>3. request \in Asked
    BY DEF AskedOf, Asked, BrokerRequest
  <2>4. req' \in [Requests -> Asked]
    BY <1>1, <2>3 DEF AskedOf
  <2> QED  BY <1>1, <1>2, <2>2, <2>4 DEF AskedOf
<1>4. ASSUME NEW p \in Requests, MayStore(p)'
      PROVE  MayStore(p)
  BY <1>2, <1>4 DEF MayStore
<1>5. ASSUME NEW q \in Requests, bro[q].op = "unbind", Detached(q)'
      PROVE  Detached(q)
  BY <1>1, <1>2, <1>5 DEF Detached
<1> QED
  BY <1>1, <1>2, <1>3, <1>4, <1>5 DEF DetachedIsGone

\* The API gets on with a request, and with it the scheduler.
LEMMA ServeKeeps ==
  ASSUME BrokerInvariant, NEW r \in Requests, ServePolicy(r)
  PROVE  BrokerInvariant'
<1> USE DEF BrokerInvariant
<1> DEFINE ApiStages == {"none", "scheduler", "policy", "update"} \cup Answers
<1>0. bro' = bro
  BY DEF ServePolicy, brokerVars
<1>1. ASSUME \/ Find(r) \/ DeleteSchedules(r) \/ CreateSchedules(r)
      PROVE  BrokerInvariant'
  <2>1. PICK at \in {"none", "find", "delete", "create"} \cup Answers :
          req' = [req EXCEPT ![r].sched = at] /\ policy' = policy
    BY <1>1 DEF Find, DeleteSchedules, CreateSchedules, Scheduler, Answers
  <2>2. AskedOf'
    BY <1>0, <2>1 DEF AskedOf, Asked, BrokerRequest
  <2>3. \A q \in Requests : req'[q].op = req[q].op /\ req'[q].api = req[q].api
    BY <2>1 DEF AskedOf
  <2> QED  BY <1>0, <2>1, <2>2, <2>3 DEF DetachedIsGone, Detached, MayStore
<1>3. /\ req[r] \in Asked
      /\ policy \in [Apps -> Requests \cup {None}]
      /\ req \in [Requests -> Asked]
  BY DEF AskedOf
<1>2. ASSUME NEW at \in ApiStages, NEW sched \in {req[r].sched, "find"},
             req' = [req EXCEPT ![r].api = at, ![r].sched = sched],
             policy' \in [Apps -> Requests \cup {None}],
             req[r].api \notin Answers \cup {"none"}, req[r].op # "none",
             at = "update" => req[r].op = "put",
             \A a \in Apps : policy'[a] # None
               => policy'[a] = policy[a] \/ MayStore(r),
             req[r].op = "delete" /\ at \in {"scheduler", "ok", "missing"}
               => req[r].api = "scheduler" \/ policy'[req[r].app] = None
      PROVE  BrokerInvariant'
  <2>1. /\ \A q \in Requests \ {r} : req'[q] = req[q]
        /\ req'[r].api = at /\ req'[r].op = req[r].op /\ req'[r].app = req[r].app
    BY <1>2 DEF AskedOf
  <2>2. req' \in [Requests -> Asked]
    <3>1. ASSUME NEW q \in Asked
          PROVE  [q EXCEPT !.api = at, !.sched = "find"] \in Asked
                 /\ [q EXCEPT !.api = at, !.sched = q.sched] \in Asked
      BY DEF Asked
    <3>2. [req[r] EXCEPT !.api = at, !.sched = sched] \in Asked
      BY <1>3, <3>1
    <3>3. req' = [req EXCEPT ![r] = [req[r] EXCEPT !.api = at, !.sched = sched]]
      BY <1>2, <1>3
    <3> QED  BY <1>3, <3>2, <3>3
  <2>3. AskedOf'
    BY <1>0, <1>2, <2>1, <2>2 DEF AskedOf
  <2>4. ASSUME NEW p \in Requests, MayStore(p)'
        PROVE  MayStore(p)
    BY <1>0, <1>2, <2>1, <2>4 DEF MayStore
  <2>5. ASSUME NEW q \in Requests, bro[q].op = "unbind", bro[q].alone = TRUE,
               bro[q].at \notin Over
        PROVE  /\ \A p \in Requests : ~MayStore(p)'
               /\ Detached(q)' => policy'[bro[q].app] = None
    <3>1. \A p \in Requests : ~MayStore(p)
      BY <2>5 DEF DetachedIsGone
    <3>2. bro[q].app \in Apps
      BY DEF AskedOf, Asked, BrokerRequest
    <3>3. ASSUME Detached(q)
          PROVE  policy'[bro[q].app] = None
      <4>1. policy[bro[q].app] = None
        BY <2>5, <3>3 DEF DetachedIsGone
      <4> QED  BY <1>2, <3>1, <3>2, <4>1
    <3>4. ASSUME ~Detached(q), Detached(q)'
          PROVE  policy'[bro[q].app] = None
      <4>1. q = r /\ req[r].op = "delete" /\ at \in {"scheduler", "ok", "missing"}
        BY <1>0, <2>1, <3>4 DEF Detached
      <4>2. req[r].api # "scheduler" /\ req[r].app = bro[r].app
        BY <1>2, <3>4, <4>1 DEF Detached, AskedOf
      <4> QED  BY <1>2, <4>1, <4>2
    <3> QED  BY <2>4, <3>1, <3>3, <3>4
  <2> QED  BY <1>0, <2>3, <2>5 DEF DetachedIsGone
<1>4. \A at : Api(r, at) => req' = [req EXCEPT ![r].api = at, ![r].sched = req[r].sched]
  BY <1>3 DEF Api
<1>5. CASE HearScheduler(r)
  <2>1. PICK at \in ApiStages : Api(r, at) /\ (at = "policy" => req[r].op = "put") /\ at # "update"
    BY <1>3, <1>5 DEF HearScheduler, Answers
  <2>2. policy' = policy /\ req[r].api = "scheduler" /\ req[r].op # "none"
    BY <1>5 DEF HearScheduler, AskedOf
  <2> QED  BY <1>2, <1>3, <1>4, <2>1, <2>2 DEF Answers
<1>6. CASE CreatePolicy(r)
  <2>1. PICK at \in ApiStages : Api(r, at)
    BY <1>6 DEF CreatePolicy, Answers
  <2>2. /\ policy' \in [Apps -> Requests \cup {None}]
        /\ req[r].op = "put" /\ req[r].api = "policy"
    BY <1>3, <1>6 DEF CreatePolicy
  <2>3. MayStore(r)
    BY <2>2, PutsMayStore
  <2> QED  BY <1>2, <1>3, <1>4, <2>1, <2>2, <2>3 DEF Answers
<1>7. CASE UpdatePolicy(r)
  <2>1. PICK at \in ApiStages : Api(r, at)
    BY <1>7 DEF UpdatePolicy, Answers
  <2>2. /\ policy' \in [Apps -> Requests \cup {None}]
        /\ req[r].op = "put" /\ req[r].api = "update"
    BY <1>3, <1>7 DEF UpdatePolicy, AskedOf
  <2>3. MayStore(r)
    BY <2>2, PutsMayStore
  <2> QED  BY <1>2, <1>3, <1>4, <2>1, <2>2, <2>3 DEF Answers
<1>8. CASE DeletePolicy(r)
  <2>0. req[r].op = "delete" /\ req[r].api = "policy"
    BY <1>8 DEF DeletePolicy
  <2>1. CASE /\ policy' = [policy EXCEPT ![req[r].app] = None]
             /\ req' = [req EXCEPT ![r].api = "scheduler", ![r].sched = "find"]
    BY <1>2, <1>3, <2>0, <2>1 DEF Asked, Answers
  <2>2. CASE policy[req[r].app] = None /\ Api(r, "missing") /\ policy' = policy
    BY <1>2, <1>3, <1>4, <2>0, <2>2 DEF Answers
  <2>3. CASE Api(r, "error") /\ policy' = policy
    BY <1>2, <1>3, <1>4, <2>0, <2>3 DEF Answers
  <2> QED  BY <1>8, <2>1, <2>2, <2>3 DEF DeletePolicy
<1> QED
  BY <1>1, <1>5, <1>6, <1>7, <1>8 DEF ServePolicy, Serve

\* The steps of a bind ...
LEMMA BindKeeps ==
  ASSUME BrokerInvariant, NEW r \in Requests,
         \/ FindAll(r) \/ CreateBinding(r) \/ HearAttach(r)
  PROVE  BrokerInvariant'
<1> USE DEF Stages, Over, BrokerAnswers
<1>1. CASE FindAll(r)
  BY <1>1, AdvanceKeeps DEF FindAll, vars
<1>2. CASE CreateBinding(r)
  <2>0. bro[r].op = "bind" /\ bro[r].at = "change"
    BY <1>2 DEF CreateBinding
  <2>1. CASE UNCHANGED vars
    BY <1>2, <2>0, <2>1, AdvanceKeeps DEF CreateBinding, vars
  <2>2. ASSUME NEW full \in Contents, At(r, "policy"), Ask(r, "put", bro[r].app, full)
        PROVE  BrokerInvariant'
    BY <2>0, <2>2, AskKeeps, PoliciesAssumption
  <2> QED  BY <1>2, <2>1, <2>2 DEF CreateBinding
<1>3. CASE HearAttach(r)
  BY <1>3, AdvanceKeeps DEF HearAttach, vars
<1> QED
  BY <1>1, <1>2, <1>3

\* ... of an unbind,
LEMMA UnbindKeeps ==
  ASSUME BrokerInvariant, NEW r \in Requests,
         \/ FindById(r) \/ DestroyBinding(r) \/ HearDetach(r)
  PROVE  BrokerInvariant'
<1> USE DEF Stages, Over, BrokerAnswers
<1>1. CASE FindById(r)
  BY <1>1, AdvanceKeeps DEF FindById
<1>2. CASE DestroyBinding(r)
  <2>0. bro[r].op = "unbind" /\ bro[r].at = "change"
    BY <1>2 DEF DestroyBinding
  <2>1. CASE At(r, "rollback") /\ UNCHANGED vars
    BY <2>0, <2>1, AdvanceKeeps DEF vars
  <2>2. CASE At(r, "policy") /\ Ask(r, "delete", bro[r].app, FALSE)
    BY <2>0, <2>2, AskKeeps
  <2> QED  BY <1>2, <2>1, <2>2 DEF DestroyBinding
<1>3. CASE HearDetach(r)
  <2>1. req[r].op = "delete" /\ bro[r].at = "policy" /\ UNCHANGED <<policy, req>>
    BY <1>3 DEF HearDetach, BrokerInvariant, AskedOf, vars
  <2>2. PICK stage \in {"creds", "commit", "rollback"} :
          At(r, stage) /\ (stage # "rollback" => Detached(r))
    BY <1>3, <2>1 DEF HearDetach, Detached
  <2> QED  BY <2>1, <2>2, AdvanceKeeps
<1> QED
  BY <1>1, <1>2, <1>3

\* ... and of both.
LEMMA TransactionKeeps ==
  ASSUME BrokerInvariant, NEW r \in Requests,
         \/ BeginTransaction(r) \/ Credentials(r) \/ Commit(r) \/ Rollback(r)
  PROVE  BrokerInvariant'
<1> USE DEF Stages, Over, BrokerAnswers
<1>1. CASE BeginTransaction(r)
  BY <1>1, AdvanceKeeps DEF BeginTransaction
<1>2. CASE Credentials(r)
  <2>1. bro[r].at = "creds" /\ UNCHANGED <<policy, req>> /\ Detached(r)
    BY <1>2 DEF Credentials, Detached
  <2>2. PICK stage \in {"commit", "rollback"} : At(r, stage)
    BY <1>2 DEF Credentials
  <2> QED  BY <2>1, <2>2, AdvanceKeeps
<1>3. CASE Commit(r)
  BY <1>3, AdvanceKeeps DEF Commit
<1>4. CASE Rollback(r)
  BY <1>4, AdvanceKeeps DEF Rollback, vars
<1> QED
  BY <1>1, <1>2, <1>3, <1>4

\* A public request is let through, or not.
LEMMA PublicKeeps ==
  ASSUME BrokerInvariant, NEW r \in Requests, CheckBinding(r)
  PROVE  BrokerInvariant'
<1> USE DEF Stages, Over, BrokerAnswers
<1>0. bro[r].op = "public" /\ bro[r].at = "find"
  BY DEF CheckBinding
<1>1. ASSUME NEW full \in Contents, At(r, "done"), Ask(r, "put", bro[r].app, full)
      PROVE  BrokerInvariant'
  BY <1>0, <1>1, AskKeeps, PoliciesAssumption
<1>2. CASE At(r, "done") /\ Ask(r, "delete", bro[r].app, FALSE)
  BY <1>0, <1>2, AskKeeps
<1>3. CASE At(r, "error") /\ UNCHANGED vars
  BY <1>0, <1>3, AdvanceKeeps DEF vars
<1> QED
  BY <1>1, <1>2, <1>3 DEF CheckBinding

LEMMA RequestsKeep ==
  ASSUME BrokerInvariant, NEW r \in Requests, Bind(r) \/ Unbind(r) \/ Public(r)
  PROVE  BrokerInvariant'
<1>1. CASE Bind(r)
  BY <1>1, ArriveKeeps DEF Bind
<1>2. CASE Unbind(r)
  <2>1. PICK b \in 1 .. r - 1 : Arrive(r, "unbind", bro[b].app, FALSE, b, "begin")
    BY <1>2 DEF Unbind
  <2>2. b \in Requests
    BY PoliciesAssumption DEF Requests
  <2>3. bro[b].app \in Apps
    BY <2>2 DEF BrokerInvariant, AskedOf, Asked, BrokerRequest
  <2> QED  BY <2>1, <2>2, <2>3, ArriveKeeps
<1>3. CASE Public(r)
  BY <1>3, ArriveKeeps DEF Public
<1> QED
  BY <1>1, <1>2, <1>3

LEMMA BrokerStepKeeps ==
  ASSUME BrokerInvariant, [BrokerNext]_bvars
  PROVE  BrokerInvariant'
<1>1. CASE UNCHANGED bvars
  BY <1>1 DEF bvars, vars, brokerVars, BrokerInvariant, AskedOf, DetachedIsGone,
     MayStore, Detached
<1>2. CASE BrokerNext
  BY <1>2, RequestsKeep, PublicKeeps, BindKeeps, UnbindKeeps, TransactionKeeps, ServeKeeps
  DEF BrokerNext
<1> QED
  BY <1>1, <1>2

LEMMA BrokerStarts == BrokerInit => BrokerInvariant
<1> SUFFICES ASSUME BrokerInit PROVE BrokerInvariant
  OBVIOUS
<1>1. (CHOOSE a \in Apps : TRUE) \in Apps
  BY PoliciesAssumption
<1>2. AskedOf
  BY <1>1 DEF BrokerInit, Init, AskedOf, Asked, BrokerRequest, NoRequest, Stages
<1>3. DetachedIsGone
  BY DEF BrokerInit, DetachedIsGone
<1> QED
  BY <1>2, <1>3 DEF BrokerInvariant

\* What the API has done for a binding, and that nobody undoes it.
THEOREM BrokerKnowsPolicies == BrokerSpec => []BrokerInvariant
BY BrokerStarts, BrokerStepKeeps, PTL DEF BrokerSpec

\* An unbind that commits leaves no policy.
THEOREM UnboundIsDetached == BrokerSpec => UnboundHasNoPolicy
<1> DEFINE Leaves == \A r \in Requests :
       bro[r].op = "unbind" /\ bro[r].alone /\ bro[r].at = "commit" /\ bro'[r].at = "done"
         => policy'[bro[r].app] = None
<1>1. BrokerInvariant /\ [BrokerNext]_bvars => [Leaves]_bvars
  <2> SUFFICES ASSUME BrokerInvariant, BrokerNext,
                      NEW r \in Requests, bro[r].op = "unbind", bro[r].alone,
                      bro[r].at = "commit", bro'[r].at = "done"
               PROVE  policy'[bro[r].app] = None
    OBVIOUS
  <2>1. policy[bro[r].app] = None
    BY DEF BrokerInvariant, DetachedIsGone, Detached, Over, BrokerAnswers
  <2>2. PICK q \in Requests :
          \/ Bind(q) \/ Unbind(q) \/ Public(q) \/ CheckBinding(q)
          \/ BeginTransaction(q) \/ FindAll(q) \/ FindById(q)
          \/ CreateBinding(q) \/ DestroyBinding(q) \/ HearAttach(q) \/ HearDetach(q)
          \/ Credentials(q) \/ Commit(q) \/ Rollback(q)
          \/ ServePolicy(q)
    BY DEF BrokerNext
  <2>3. ~ServePolicy(q)
    BY DEF ServePolicy, brokerVars
  <2>4. policy' = policy
    BY <2>2, <2>3 DEF Bind, Unbind, Public, Arrive, CheckBinding, Ask, BeginTransaction,
       FindAll, FindById, CreateBinding, DestroyBinding, HearAttach, HearDetach,
       Credentials, Commit, Rollback, vars
  <2> QED  BY <2>1, <2>4
<1>2. BrokerSpec => [][Leaves]_bvars
  <2> HIDE DEF Leaves
  <2> QED  BY <1>1, BrokerKnowsPolicies, PTL DEF BrokerSpec
<1> QED
  BY <1>2 DEF UnboundHasNoPolicy
=============================================================================
