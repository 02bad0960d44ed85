------------------------------- MODULE Broker -------------------------------
(***************************************************************************)
(* The service broker in front of the API.  A bind creates a binding in a  *)
(* transaction that stays open while the broker has the API store the      *)
(* policy and make credentials; an unbind deletes it in the same way.  The *)
(* transaction holds a connection of a bounded pool, and the query for the *)
(* binding takes a second one.  Users PUT and DELETE policies directly:    *)
(* the API lets them if the broker knows a binding.                        *)
(*                                                                         *)
(* The bind r creates the binding r, and an unbind names the bind it ends. *)
(* What the broker asks the API for is the request r of Policies.  Custom  *)
(* metrics are enabled.                                                    *)
(***************************************************************************)
EXTENDS Policies

CONSTANT Connections  \* the size of the pool
ASSUME ConnectionsAssumption == Connections \in Nat

VARIABLES
  bro,       \* the requests: what they ask the broker, and where it is
  bindings,  \* the bindings that are committed
  free,      \* the connections that are free
  creds      \* the API's table of credentials: the bind they were made for, or None

brokerVars == <<bro, bindings, free, creds>>
bvars == <<vars, brokerVars>>

\* "lost": the database failed where nobody catches it, and nobody answers.
BrokerAnswers == {"done", "conflict", "error"}
Over == BrokerAnswers \cup {"lost"}

BrokerInit ==
  /\ Init
  /\ bro = [r \in Requests |-> [op |-> "none", app |-> CHOOSE a \in Apps : TRUE, policy |-> FALSE,
                                binding |-> None, alone |-> FALSE, at |-> "none"]]
  /\ bindings = {} /\ free = Connections
  /\ creds = [a \in Apps |-> None]

-----------------------------------------------------------------------------

At(r, stage) == bro' = [bro EXCEPT ![r].at = stage]

BindingsOf(a) == {b \in bindings : bro[b].app = a}

\* r may store a policy, and is not over.
MayStore(r) ==
  /\ bro[r].op \in {"bind", "public"}
  /\ bro[r].at \notin Over \/ req[r].api \notin Answers \cup {"none"}

\* A request arrives.  For the property below it remembers whether one that may store
\* a policy is under way at any time until it is over.
Arrive(r, op, a, policyGiven, binding, at) ==
  /\ bro[r].op = "none" /\ (r > 1 => bro[r - 1].op # "none")
  /\ bro' = [q \in Requests |->
       IF q = r THEN [op |-> op, app |-> a, policy |-> policyGiven, binding |-> binding, at |-> at,
                      alone |-> \A p \in Requests : ~MayStore(p)]
       ELSE [bro[q] EXCEPT !.alone = @ /\ op = "unbind"]]
  /\ UNCHANGED <<vars, bindings, free, creds>>

Bind(r) == \E a \in Apps, p \in BOOLEAN : Arrive(r, "bind", a, p, r, "begin")

\* An unbind names a binding whose bind Cloud Foundry has sent before.
Unbind(r) == \E b \in 1 .. r - 1 :
  bro[b].op = "bind" /\ Arrive(r, "unbind", bro[b].app, FALSE, b, "begin")

Public(r) == \E a \in Apps, put \in BOOLEAN : Arrive(r, "public", a, put, None, "find")

\* The API lets a user change the policy of an application that is bound.
CheckBinding(r) ==
  /\ bro[r].op = "public" /\ bro[r].at = "find"
  /\ IF BindingsOf(bro[r].app) # {}
     THEN /\ At(r, "done")
          /\ \/ bro[r].policy /\ \E full \in Contents : Ask(r, "put", bro[r].app, full)
             \/ ~bro[r].policy /\ Ask(r, "delete", bro[r].app, FALSE)
     ELSE At(r, "error") /\ UNCHANGED vars
  /\ UNCHANGED <<bindings, free, creds>>

-----------------------------------------------------------------------------

\* The transaction of r takes a connection.
BeginTransaction(r) ==
  /\ bro[r].at = "begin" /\ free > 0
  /\ \/ At(r, "find") /\ free' = free - 1 /\ UNCHANGED failures
     \/ Fail /\ At(r, IF bro[r].op = "bind" THEN "lost" ELSE "error") /\ UNCHANGED free
  /\ UNCHANGED <<policy, rows, req, sync, gone, bindings, creds>>

\* A bind looks for bindings of the application, over a second connection.  If there
\* is one it answers, and leaves the transaction as it is.
FindAll(r) ==
  /\ bro[r].op = "bind" /\ bro[r].at = "find" /\ free > 0
  /\ \/ At(r, IF BindingsOf(bro[r].app) = {} THEN "change" ELSE "conflict") /\ UNCHANGED failures
     \/ Fail /\ At(r, "lost")
  /\ UNCHANGED <<policy, rows, req, sync, gone, bindings, free, creds>>

\* mutant: an unbind that does not find its binding is not answered.
FindById_Silent(r) ==
  /\ bro[r].op = "unbind" /\ bro[r].at = "find" /\ free > 0
  /\ At(r, IF bro[r].binding \in bindings THEN "change" ELSE "none")
  /\ UNCHANGED <<vars, bindings, free, creds>>

\* An unbind looks for its binding.
FindById(r) ==
  /\ bro[r].op = "unbind" /\ bro[r].at = "find" /\ free > 0
  /\ \/ At(r, IF bro[r].binding \in bindings THEN "change" ELSE "rollback") /\ UNCHANGED failures
     \/ Fail /\ At(r, "rollback")
  /\ UNCHANGED <<policy, rows, req, sync, gone, bindings, free, creds>>

\* A bind creates its binding, unless the service instance is not there, ...
CreateBinding(r) ==
  /\ bro[r].op = "bind" /\ bro[r].at = "change"
  /\ \/ At(r, "rollback") /\ UNCHANGED vars
     \/ bro[r].policy /\ At(r, "policy") /\ \E full \in Contents : Ask(r, "put", bro[r].app, full)
     \/ ~bro[r].policy /\ At(r, "creds") /\ UNCHANGED vars
  /\ UNCHANGED <<bindings, free, creds>>

\* ... an unbind destroys it: it waits for another one that has destroyed the same.
DestroyBinding(r) ==
  /\ bro[r].op = "unbind" /\ bro[r].at = "change"
  /\ \A q \in Requests \ {r} : bro[q].op = "unbind" /\ bro[q].binding = bro[r].binding
       => bro[q].at \notin {"policy", "creds", "commit", "rollback"}
  /\ IF bro[r].binding \in bindings
     THEN At(r, "policy") /\ Ask(r, "delete", bro[r].app, FALSE)
     ELSE At(r, "rollback") /\ UNCHANGED vars
  /\ UNCHANGED <<bindings, free, creds>>

\* The API has answered with success, or has not, or the broker has waited for it too
\* long.
HearAttach(r) ==
  /\ bro[r].op = "bind" /\ bro[r].at = "policy"
  /\ At(r, IF req[r].api = "ok" THEN "creds" ELSE "rollback")
  /\ UNCHANGED <<vars, bindings, free, creds>>

\* mutant: an unbind goes on when the policy could not be deleted.
HearDetach_GoOn(r) ==
  /\ bro[r].op = "unbind" /\ bro[r].at = "policy"
  /\ At(r, IF req[r].api = "ok" THEN "creds"
           ELSE IF req[r].api \in Answers THEN "commit" ELSE "rollback")
  /\ UNCHANGED <<vars, bindings, free, creds>>

\* Without a policy there is nothing to delete, and no credentials are looked for.
HearDetach(r) ==
  /\ bro[r].op = "unbind" /\ bro[r].at = "policy"
  /\ At(r, IF req[r].api = "ok" THEN "creds"
           ELSE IF req[r].api = "missing" THEN "commit" ELSE "rollback")
  /\ UNCHANGED <<vars, bindings, free, creds>>

\* The API makes or deletes credentials.  If it fails with an answer the broker does
\* not notice; without an answer they may have been made or deleted.
Credentials(r) ==
  /\ bro[r].at = "creds"
  /\ \E changed, answered \in BOOLEAN :
       /\ creds' = IF changed
                   THEN [creds EXCEPT ![bro[r].app] = IF bro[r].op = "bind" THEN r ELSE None]
                   ELSE creds
       /\ At(r, IF answered THEN "commit" ELSE "rollback")
       /\ IF changed /\ answered THEN UNCHANGED failures ELSE Fail
  /\ UNCHANGED <<policy, rows, req, sync, gone, bindings, free>>

\* The transaction ends, gives its connection back, and r is answered.
Commit(r) ==
  /\ bro[r].at = "commit"
  /\ \/ /\ bindings' = IF bro[r].op = "bind" THEN bindings \cup {r}
                       ELSE bindings \ {bro[r].binding}
        /\ At(r, "done") /\ UNCHANGED failures
     \/ Fail /\ At(r, "error") /\ UNCHANGED bindings
  /\ free' = free + 1
  /\ UNCHANGED <<policy, rows, req, sync, gone, creds>>

Rollback(r) ==
  /\ bro[r].at = "rollback"
  /\ free' = free + 1 /\ At(r, "error")
  /\ UNCHANGED <<vars, bindings, creds>>

-----------------------------------------------------------------------------

\* Policies serves what has been asked of the API.
ServePolicy(r) == Serve(r) /\ UNCHANGED brokerVars

BrokerNext == \E r \in Requests :
  \/ Bind(r) \/ Unbind(r) \/ Public(r) \/ CheckBinding(r)
  \/ BeginTransaction(r) \/ FindAll(r) \/ FindById(r)
  \/ CreateBinding(r) \/ DestroyBinding(r) \/ HearAttach(r) \/ HearDetach(r)
  \/ Credentials(r) \/ Commit(r) \/ Rollback(r)
  \/ ServePolicy(r)

\* The broker and the API get on with every request; who waits for a connection or for
\* a row gets it if it is there again and again.
BrokerFairness == \A r \in Requests :
  /\ WF_bvars(ServePolicy(r))
  /\ SF_bvars(\/ CheckBinding(r) \/ BeginTransaction(r) \/ FindAll(r) \/ FindById(r)
              \/ CreateBinding(r) \/ DestroyBinding(r) \/ HearAttach(r) \/ HearDetach(r)
              \/ Credentials(r) \/ Commit(r) \/ Rollback(r))

BrokerSpec == BrokerInit /\ [][BrokerNext]_bvars /\ BrokerFairness

-----------------------------------------------------------------------------

\* The end of a binding leaves no policy behind, unless a bind or a PUT was under way
\* during the unbind (binding.js: detach first, commit then).
UnboundHasNoPolicy ==
  [][\A r \in Requests :
       bro[r].op = "unbind" /\ bro[r].alone /\ bro[r].at = "commit" /\ bro'[r].at = "done"
         => policy'[bro[r].app] = None]_bvars

Stages == {"none", "begin", "find", "change", "policy", "creds", "commit", "rollback"} \cup Over

Asked ==
  [op : {"none", "put", "delete"}, app : Apps, full : BOOLEAN,
   api : {"none", "scheduler", "policy", "update"} \cup Answers,
   sched : {"none", "find", "delete", "create"} \cup Answers]

BrokerRequest ==
  [op : {"none", "bind", "unbind", "public"}, app : Apps, policy : BOOLEAN,
   binding : Requests \cup {None}, alone : BOOLEAN, at : Stages]

\* Types, and what the broker has asked of the API.
AskedOf ==
  /\ policy \in [Apps -> Requests \cup {None}]
  /\ req \in [Requests -> Asked] /\ bro \in [Requests -> BrokerRequest]
  /\ \A r \in Requests :
       /\ req[r].op = "none" => req[r].api = "none"
       /\ req[r].op # "none" => bro[r].op # "none" /\ req[r].app = bro[r].app
       /\ req[r].op = "put" => bro[r].op \in {"bind", "public"}
       /\ req[r].api = "update" => req[r].op = "put"
       /\ bro[r].op = "unbind" /\ bro[r].at = "policy" => req[r].op = "delete"

\* The API has found no policy, or has destroyed it.
Detached(r) ==
  \/ bro[r].at \in {"creds", "commit"}
  \/ req[r].op = "delete" /\ req[r].api \in {"scheduler", "ok", "missing"}

\* While an unbind runs that no bind and no PUT has run beside, there is none that could
\* store a policy, and once the policy of the app is gone it stays so.
DetachedIsGone ==
  \A r \in Requests :
    bro[r].op = "unbind" /\ bro[r].alone = TRUE /\ bro[r].at \notin Over
      => /\ \A p \in Requests : ~MayStore(p)
         /\ Detached(r) => policy[bro[r].app] = None

BrokerInvariant == AskedOf /\ DetachedIsGone

\* A request is answered, unless the connections are used up: by binds refused as
\* duplicates, which keep theirs, or by as many that each wait for a second one.  (Or
\* it is a bind that met a failing database before it could create its binding.)
RequestsAreAnswered ==
  []<>(free > 0) => \A r \in Requests : bro[r].op # "none" ~> bro[r].at \in Over
=============================================================================
