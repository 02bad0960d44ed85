-------------------------- MODULE ServiceInstances --------------------------
(***************************************************************************)
(* The service broker of the Go API server: requests to create and delete  *)
(* service instances and bindings.  Each is a query whether the row is     *)
(* there, then a statement that inserts or deletes it, in no transaction:  *)
(* other requests, and the same one sent again, run in between.  Both      *)
(* statements take a connection of the pool.                               *)
(***************************************************************************)
EXTENDS Naturals, FiniteSets

CONSTANTS
  Instances, Bindings,
  Calls,       \* the requests under way at a time
  PoolSize,    \* the connections of the pool
  NoInstance, Nothing

VARIABLES
  instances,  \* service_instance
  boundTo,    \* binding: the instance of each binding, NoInstance if there is no row
  pc,         \* where the handler of each request is
  asked,      \* the request, Nothing if there is none
  found,      \* what its query has found
  answer,     \* what it will be answered
  holds       \* the requests that hold a connection

apiVars == <<instances, boundTo, pc, asked, found, answer, holds>>

-----------------------------------------------------------------------------
(* Operations, and what a row means to them.                               *)

Operations ==
  [kind : {"provision", "deprovision"}, instance : Instances]
  \cup [kind : {"bind"}, instance : Instances, binding : Bindings]
  \cup [kind : {"unbind"}, binding : Bindings]

ASSUME ApiAssumption ==
  /\ PoolSize \in Nat \ {0}
  /\ IsFiniteSet(Calls)
  /\ NoInstance \notin Instances
  /\ Nothing \notin Operations

Creates(o) == o.kind \in {"provision", "bind"}

\* The row with the key of the request.  Nothing else of it is compared: not
\* the organization of an instance, not the app of a binding.
Exists(o) ==
  \/ o.kind \in {"provision", "deprovision"} /\ o.instance \in instances
  \/ o.kind \in {"bind", "unbind"} /\ boundTo[o.binding] # NoInstance

\* What the tables' keys let happen: a binding has an instance, and an instance
\* with bindings is not deleted.
Allowed(o) ==
  /\ o.kind = "bind" => o.instance \in instances
  /\ o.kind = "deprovision" => \A b \in Bindings : boundTo[b] # o.instance

-----------------------------------------------------------------------------

ApiInit ==
  /\ instances = {}
  /\ boundTo = [b \in Bindings |-> NoInstance]
  /\ pc = [r \in Calls |-> "idle"]
  /\ asked = [r \in Calls |-> Nothing]
  /\ found = [r \in Calls |-> FALSE]
  /\ answer = [r \in Calls |-> "none"]
  /\ holds = {}

\* The request goes on at l.
Goto(r, l) == pc' = [pc EXCEPT ![r] = l]

\* It will be answered a.
Reply(r, a) == Goto(r, "answer") /\ answer' = [answer EXCEPT ![r] = a]

\* A request arrives.  Without credentials, with a body that cannot be read or
\* with mandatory data missing it is refused.
Receive(r) ==
  /\ pc[r] = "idle"
  /\ \E o \in Operations : asked' = [asked EXCEPT ![r] = o]
  /\ \/ Reply(r, "refused")
     \/ Goto(r, "query") /\ UNCHANGED answer
  /\ UNCHANGED <<instances, boundTo, found, holds>>

\* SELECT FROM ... WHERE the key is that of the request.  The driver waits for
\* the first row or the end before the call returns, so that whether there is a
\* row is known, or the call fails.  The connection is taken until the rows are
\* closed.
Query(r) ==
  /\ pc[r] = "query"
  /\ Cardinality(holds) < PoolSize
  /\ \/ /\ Goto(r, "rows")
        /\ found' = [found EXCEPT ![r] = Exists(asked[r])]
        /\ holds' = holds \cup {r}
        /\ UNCHANGED answer
     \/ Reply(r, "error") /\ UNCHANGED <<found, holds>>
  /\ UNCHANGED <<instances, boundTo, asked>>

\* rows.Close(), and the early return: a row that is to be created is there, or
\* one that is to be deleted is not.
CloseRows_NotOnReturn(r) ==
  /\ pc[r] = "rows"
  /\ \/ found[r] /\ Creates(asked[r]) /\ Reply(r, "exists") /\ UNCHANGED holds
     \/ ~found[r] /\ ~Creates(asked[r]) /\ Reply(r, "gone") /\ UNCHANGED holds
     \/ found[r] # Creates(asked[r]) /\ Goto(r, "exec") /\ holds' = holds \ {r} /\ UNCHANGED answer
  /\ UNCHANGED <<instances, boundTo, asked, found>>
CloseRows(r) ==
  /\ pc[r] = "rows"
  /\ holds' = holds \ {r}
  /\ \/ found[r] /\ Creates(asked[r]) /\ Reply(r, "exists")
     \/ ~found[r] /\ ~Creates(asked[r]) /\ Reply(r, "gone")
     \/ found[r] # Creates(asked[r]) /\ Goto(r, "exec") /\ UNCHANGED answer
  /\ UNCHANGED <<instances, boundTo, asked, found>>

\* The statement has its effect.  To delete a row that somebody else has
\* deleted meanwhile is none, and no error.
Effect(o) ==
  \/ /\ o.kind = "provision"
     /\ instances' = instances \cup {o.instance} /\ UNCHANGED boundTo
  \/ /\ o.kind = "deprovision"
     /\ instances' = instances \ {o.instance} /\ UNCHANGED boundTo
  \/ /\ o.kind = "bind"
     /\ boundTo' = [boundTo EXCEPT ![o.binding] = o.instance] /\ UNCHANGED instances
  \/ /\ o.kind = "unbind"
     /\ boundTo' = [boundTo EXCEPT ![o.binding] = NoInstance] /\ UNCHANGED instances

\* INSERT or DELETE: refused by a key, or it takes effect; either way the
\* connection may fail before the answer is here.  The error is not looked at:
\* a row that somebody else has created meanwhile is an error like any other.
Exec_AnyErrorIsDuplicate(r) ==
  LET o == asked[r] IN
  /\ pc[r] = "exec"
  /\ Cardinality(holds) < PoolSize
  /\ \/ /\ Allowed(o) /\ (Creates(o) => ~Exists(o))
        /\ Effect(o)
        /\ \/ Reply(r, IF Creates(o) THEN "created" ELSE "deleted")
           \/ Reply(r, "error")
     \/ Reply(r, IF Creates(o) THEN "exists" ELSE "error") /\ UNCHANGED <<instances, boundTo>>
  /\ UNCHANGED <<asked, found, holds>>
Exec(r) ==
  LET o == asked[r] IN
  /\ pc[r] = "exec"
  /\ Cardinality(holds) < PoolSize
  /\ \/ /\ Allowed(o) /\ (Creates(o) => ~Exists(o))
        /\ Effect(o)
        /\ \/ Reply(r, IF Creates(o) THEN "created" ELSE "deleted")
           \/ Reply(r, "error")
     \/ Reply(r, "error") /\ UNCHANGED <<instances, boundTo>>
  /\ UNCHANGED <<asked, found, holds>>

\* The answer is written.
Respond(r) ==
  /\ pc[r] = "answer"
  /\ Goto(r, "idle")
  /\ asked' = [asked EXCEPT ![r] = Nothing]
  /\ found' = [found EXCEPT ![r] = FALSE]
  /\ answer' = [answer EXCEPT ![r] = "none"]
  /\ UNCHANGED <<instances, boundTo, holds>>

ApiNext ==
  \E r \in Calls :
    Receive(r) \/ Query(r) \/ CloseRows(r) \/ Exec(r) \/ Respond(r)

ApiSpec == ApiInit /\ [][ApiNext]_apiVars

-----------------------------------------------------------------------------
(* What is promised.                                                       *)

\* A request that has found what decides its answer is as good as answered.
Told(r) ==
  IF pc[r] = "rows" /\ found[r] = Creates(asked[r])
  THEN (IF found[r] THEN "exists" ELSE "gone")
  ELSE answer[r]

Promise == INSTANCE Registry WITH
  Requests <- Calls, None <- NoInstance, answer <- [r \in Calls |-> Told(r)]

\* Though query and statement are two, each request takes effect in one moment
\* and is told the truth about it, as the platform needs to know what it has
\* to clean up: who was told "created" has created the row, who was told
\* "exists" or "gone" might have seen it.
AnswersAreTrue == Promise!Spec

Places == {"idle", "query", "rows", "exec", "answer"}
Replies == {"none", "refused", "exists", "gone", "created", "deleted", "error"}

\* Types; a connection is held from a query to the end of its rows and by
\* nobody else, so that none is lost to the pool, whichever way a handler
\* returns; and no binding is left without its instance.
ApiInvariant ==
  /\ instances \subseteq Instances
  /\ boundTo \in [Bindings -> Instances \cup {NoInstance}]
  /\ pc \in [Calls -> Places]
  /\ asked \in [Calls -> Operations \cup {Nothing}]
  /\ found \in [Calls -> BOOLEAN]
  /\ answer \in [Calls -> Replies]
  /\ \A r \in Calls : (asked[r] = Nothing) = (pc[r] = "idle")
  /\ \A r \in Calls : (answer[r] # "none") = (pc[r] = "answer")
  /\ holds = {r \in Calls : pc[r] = "rows"}
  /\ Cardinality(holds) <= PoolSize
  /\ \A b \in Bindings : boundTo[b] # NoInstance => boundTo[b] \in instances
=============================================================================
