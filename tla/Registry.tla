------------------------------ MODULE Registry ------------------------------
(***************************************************************************)
(* What a service broker promises to the platform that asks it: each       *)
(* request takes effect in one moment between its arrival and its answer,  *)
(* and the answer is about that moment.  Who is told that a row was        *)
(* created created it; who is told that it exists, or is gone, could have  *)
(* seen that; after an error nobody knows.                                 *)
(***************************************************************************)
CONSTANTS Instances, Bindings, Requests,
          None,     \* no instance
          Nothing   \* what a request asks for that has not arrived

VARIABLES
  instances,  \* the service instances there are
  boundTo,    \* the instance of each binding, or None
  asked,      \* what each request asks for
  answer      \* what it will be told, "none" as long as that is open

vars == <<instances, boundTo, asked, answer>>

Operations ==
  [kind : {"provision", "deprovision"}, instance : Instances]
  \cup [kind : {"bind"}, instance : Instances, binding : Bindings]
  \cup [kind : {"unbind"}, binding : Bindings]

Creates(o) == o.kind \in {"provision", "bind"}

\* The row that o is about is there.
Exists(o) ==
  \/ o.kind \in {"provision", "deprovision"} /\ o.instance \in instances
  \/ o.kind \in {"bind", "unbind"} /\ boundTo[o.binding] # None

\* A binding is of an instance that is there; an instance that has bindings
\* stays.
Allowed(o) ==
  /\ o.kind = "bind" => o.instance \in instances
  /\ o.kind = "deprovision" => \A b \in Bindings : boundTo[b] # o.instance

Effect(o) ==
  \/ /\ o.kind = "provision"
     /\ instances' = instances \cup {o.instance} /\ UNCHANGED boundTo
  \/ /\ o.kind = "deprovision"
     /\ instances' = instances \ {o.instance} /\ UNCHANGED boundTo
  \/ /\ o.kind = "bind"
     /\ boundTo' = [boundTo EXCEPT ![o.binding] = o.instance] /\ UNCHANGED instances
  \/ /\ o.kind = "unbind"
     /\ boundTo' = [boundTo EXCEPT ![o.binding] = None] /\ UNCHANGED instances

-----------------------------------------------------------------------------

Init ==
  /\ instances = {}
  /\ boundTo = [b \in Bindings |-> None]
  /\ asked = [r \in Requests |-> Nothing]
  /\ answer = [r \in Requests |-> "none"]

Ask(r) ==
  /\ asked[r] = Nothing
  /\ \E o \in Operations, a \in {"none", "refused"} :
       /\ asked' = [asked EXCEPT ![r] = o]
       /\ answer' = [answer EXCEPT ![r] = a]
  /\ UNCHANGED <<instances, boundTo>>

\* What r will be told is open.
Open(r) == asked[r] # Nothing /\ answer[r] = "none"

Outcome(r, a) == answer' = [answer EXCEPT ![r] = a] /\ UNCHANGED asked

Change(r) ==
  LET o == asked[r] IN
  /\ Open(r)
  /\ Allowed(o) /\ (Creates(o) => ~Exists(o))
  /\ Effect(o)
  /\ \/ Outcome(r, IF Creates(o) THEN "created" ELSE "deleted")
     \/ Outcome(r, "error")

NoChange(r) ==
  LET o == asked[r] IN
  /\ Open(r)
  /\ \/ Creates(o) /\ Exists(o) /\ Outcome(r, "exists")
     \/ ~Creates(o) /\ ~Exists(o) /\ Outcome(r, "gone")
     \/ Outcome(r, "error")
  /\ UNCHANGED <<instances, boundTo>>

Answer(r) ==
  /\ answer[r] # "none"
  /\ asked' = [asked EXCEPT ![r] = Nothing]
  /\ answer' = [answer EXCEPT ![r] = "none"]
  /\ UNCHANGED <<instances, boundTo>>

Next == \E r \in Requests : Ask(r) \/ Change(r) \/ NoChange(r) \/ Answer(r)

Spec == Init /\ [][Next]_vars
=============================================================================
