------------------------------ MODULE Policies ------------------------------
(***************************************************************************)
(* A policy lives in two databases: the API keeps it in policy_json, the   *)
(* scheduler keeps its schedules, with the guid of the policy they belong  *)
(* to.  A PUT goes to the scheduler first and to policy_json then; a       *)
(* DELETE the other way round; no transaction spans the two.  Two jobs of  *)
(* the operator repair what that leaves behind: it makes the scheduler     *)
(* compare its schedules with policy_json, and it deletes the policies of  *)
(* applications that Cloud Foundry no longer knows.                        *)
(*                                                                         *)
(* A request is a number, in the order in which they arrive.  It is also   *)
(* the guid of the policy that a PUT carries, and what stands for its      *)
(* body is whether that policy has schedules.                              *)
(***************************************************************************)
EXTENDS Naturals, FiniteSets

CONSTANTS
  Apps,
  Last,      \* bound: the requests are 1 .. Last
  Contents,  \* the policies that are PUT: with schedules, without, or both
  Syncs,     \* the runs of the operator's schedule synchronizer that may overlap
  Failures   \* bound on the transactions and calls that fail

Requests == 1 .. Last
None     == 0
ASSUME PoliciesAssumption ==
  /\ Last \in Nat /\ Failures \in Nat
  /\ Apps # {} /\ Contents \subseteq BOOLEAN

VARIABLES
  policy,    \* policy_json: the guid of the policy of each application, or None
  rows,      \* the schedules: whose they are, the guid of their policy, who created them
  req,       \* the requests: what they ask, where the API is, where the scheduler is
  sync,      \* the synchronizations: what they have read
  gone,      \* the applications that Cloud Foundry has deleted
  failures   \* how many failures there have been

vars == <<policy, rows, req, sync, gone, failures>>

\* Where the API and the scheduler have answered.
Answers == {"ok", "invalid", "missing", "error"}

NoRequest == [op |-> "none", app |-> CHOOSE a \in Apps : TRUE, full |-> FALSE,
              api |-> "none", sched |-> "none"]

NoSync == [at |-> "idle", policy |-> [a \in Apps |-> None], guid |-> [a \in Apps |-> None]]

Init ==
  /\ policy = [a \in Apps |-> None] /\ rows = {} /\ gone = {} /\ failures = 0
  /\ req = [r \in Requests |-> NoRequest]
  /\ sync = [s \in Syncs |-> NoSync]

-----------------------------------------------------------------------------

RowsOf(a) == {w \in rows : w.app = a}
Guids(a)  == {w.guid : w \in RowsOf(a)}

\* The policy p has schedules.
HasSchedules(p) == p # None /\ req[p].full

\* What a transaction or a call comes to: it takes effect, or it fails and does not.
Fail == failures < Failures /\ failures' = failures + 1

\* The API, the scheduler, or both at once get on with r.
Api(r, at)       == req' = [req EXCEPT ![r].api = at]
Scheduler(r, at) == req' = [req EXCEPT ![r].sched = at]

\* The API is asked to PUT or DELETE the policy of a; the guid of a PUT is r.
Ask(r, op, a, full) ==
  /\ req[r].op = "none"
  /\ req' = [req EXCEPT ![r] =
       [op |-> op, app |-> a, full |-> full,
        api   |-> IF op = "put" THEN "scheduler" ELSE "policy",
        sched |-> IF op = "put" THEN "find" ELSE "none"]]
  /\ UNCHANGED <<policy, rows, sync, gone, failures>>

InOrder(r) == r > 1 => req[r - 1].op # "none"

Put(r) == InOrder(r) /\ \E a \in Apps, full \in Contents : Ask(r, "put", a, full)

Delete(r) == InOrder(r) /\ \E a \in Apps : Ask(r, "delete", a, FALSE)

-----------------------------------------------------------------------------
(* The scheduler's part of a request.                                      *)

\* The scheduler rejects the schedules, or looks whether the application has any.
Find(r) ==
  /\ req[r].sched = "find"
  /\ \/ req[r].full /\ Scheduler(r, "invalid")
     \/ Scheduler(r, IF RowsOf(req[r].app) # {} THEN "delete"
                     ELSE IF req[r].op = "put" THEN "create" ELSE "ok")
  /\ UNCHANGED <<policy, rows, sync, gone, failures>>

\* It deletes the schedules of the application, in a transaction of its own.
DeleteSchedules(r) ==
  /\ req[r].sched = "delete"
  /\ \/ /\ rows' = rows \ RowsOf(req[r].app)
        /\ Scheduler(r, IF req[r].op = "put" THEN "create" ELSE "ok")
        /\ UNCHANGED failures
     \/ Fail /\ Scheduler(r, "error") /\ UNCHANGED rows
  /\ UNCHANGED <<policy, sync, gone>>

\* It creates those of the new policy, in the next one.
CreateSchedules(r) ==
  /\ req[r].sched = "create"
  /\ \/ /\ rows' = IF req[r].full
                   THEN rows \cup {[app |-> req[r].app, guid |-> r, by |-> r]} ELSE rows
        /\ Scheduler(r, "ok") /\ UNCHANGED failures
     \/ Fail /\ Scheduler(r, "error") /\ UNCHANGED rows
  /\ UNCHANGED <<policy, sync, gone>>

-----------------------------------------------------------------------------
(* The API's part.                                                         *)

\* The API has the answer of the scheduler, or has waited for it too long: the
\* scheduler goes on all the same.
HearScheduler(r) ==
  /\ req[r].api = "scheduler"
  /\ LET answer == req[r].sched
     IN  \/ answer \in Answers
            /\ Api(r, IF answer = "ok" /\ req[r].op = "put" THEN "policy" ELSE answer)
         \/ answer \notin Answers /\ Api(r, "error")
  /\ UNCHANGED <<policy, rows, sync, gone, failures>>

\* A PUT creates the policy; if it is there it goes on to update it.
CreatePolicy(r) ==
  /\ req[r].op = "put" /\ req[r].api = "policy"
  /\ LET a == req[r].app
     IN  \/ policy[a] = None /\ policy' = [policy EXCEPT ![a] = r] /\ Api(r, "ok")
            /\ UNCHANGED failures
         \/ policy[a] # None /\ Api(r, "update") /\ UNCHANGED <<policy, failures>>
         \/ Fail /\ Api(r, "error") /\ UNCHANGED policy
  /\ UNCHANGED <<rows, sync, gone>>

\* The update answers with the row it changed: without one it fails.
UpdatePolicy(r) ==
  /\ req[r].api = "update"
  /\ LET a == req[r].app
     IN  \/ policy[a] # None /\ policy' = [policy EXCEPT ![a] = r] /\ Api(r, "ok")
            /\ UNCHANGED failures
         \/ policy[a] = None /\ Api(r, "error") /\ UNCHANGED <<policy, failures>>
         \/ Fail /\ Api(r, "error") /\ UNCHANGED policy
  /\ UNCHANGED <<rows, sync, gone>>

\* A DELETE destroys the policy and then asks the scheduler; without a policy it
\* does not ask it.
DeletePolicy(r) ==
  /\ req[r].op = "delete" /\ req[r].api = "policy"
  /\ LET a == req[r].app
     IN  \/ /\ policy[a] # None /\ policy' = [policy EXCEPT ![a] = None]
            /\ req' = [req EXCEPT ![r].api = "scheduler", ![r].sched = "find"]
            /\ UNCHANGED failures
         \/ policy[a] = None /\ Api(r, "missing") /\ UNCHANGED <<policy, failures>>
         \/ Fail /\ Api(r, "error") /\ UNCHANGED policy
  /\ UNCHANGED <<rows, sync, gone>>

-----------------------------------------------------------------------------
(* The operator's jobs.                                                    *)

\* Cloud Foundry deletes an application.
DeleteApp(a) ==
  /\ gone' = gone \cup {a} /\ a \notin gone
  /\ UNCHANGED <<policy, rows, req, sync, failures>>

\* GetApp: Cloud Foundry has no such app.
AppNotFound(a) == a \in gone

\* The application synchronizer deletes its policy, not its schedules.
SynchronizeApp(a) ==
  /\ AppNotFound(a) /\ policy[a] # None
  /\ policy' = [policy EXCEPT ![a] = None]
  /\ UNCHANGED <<rows, req, sync, gone, failures>>

\* A synchronization of the schedules reads the policies, ...
ReadPolicies(s) ==
  /\ sync[s].at = "idle"
  /\ sync' = [sync EXCEPT ![s].at = "guids", ![s].policy = policy]
  /\ UNCHANGED <<policy, rows, req, gone, failures>>

\* ... then a guid for each application with schedules: the last one it comes across, ...
ReadGuids(s) ==
  /\ sync[s].at = "guids"
  /\ \E g \in [Apps -> Requests \cup {None}] :
       /\ \A a \in Apps : IF Guids(a) = {} THEN g[a] = None ELSE g[a] \in Guids(a)
       /\ sync' = [sync EXCEPT ![s].at = "apply", ![s].guid = g]
  /\ UNCHANGED <<policy, rows, req, gone, failures>>

\* mutant: a policy without schedules leaves those of the policy before it.
Outdated_Full(s, a) ==
  LET p == sync[s].policy[a]
      g == sync[s].guid[a]
  IN  g # None /\ (p = None \/ (HasSchedules(p) /\ g # p))

\* mutant: schedules that belong to no policy are left alone.
Outdated_Kept(s, a) ==
  LET p == sync[s].policy[a]
      g == sync[s].guid[a]
  IN  p # None /\ (HasSchedules(p) => g # None /\ g # p)

\* The schedules of a are out of date by what s has read: they belong to no policy,
\* to another one, or the policy has none.
Outdated(s, a) ==
  LET p == sync[s].policy[a]
      g == sync[s].guid[a]
  IN  IF p = None THEN g # None ELSE HasSchedules(p) => g # None /\ g # p

\* The policy of a has schedules, and they are not there.
Missing(s, a) ==
  HasSchedules(sync[s].policy[a]) /\ sync[s].guid[a] # sync[s].policy[a]

\* ... and in one transaction deletes what is out of date and creates what is missing.
Synchronize(s) ==
  /\ sync[s].at = "apply"
  /\ \/ /\ rows' = {w \in rows : ~Outdated(s, w.app)}
                     \cup {[app |-> a, guid |-> sync[s].policy[a], by |-> s] :
                             a \in {b \in Apps : Missing(s, b)}}
        /\ UNCHANGED failures
     \/ Fail /\ UNCHANGED rows
  /\ sync' = [sync EXCEPT ![s] = NoSync]
  /\ UNCHANGED <<policy, req, gone>>

-----------------------------------------------------------------------------

Serve(r) == \/ Find(r) \/ DeleteSchedules(r) \/ CreateSchedules(r)
            \/ HearScheduler(r) \/ CreatePolicy(r) \/ UpdatePolicy(r) \/ DeletePolicy(r)

Next ==
  \/ \E r \in Requests : \/ Put(r) \/ Delete(r)
                         \/ Find(r) \/ DeleteSchedules(r) \/ CreateSchedules(r)
                         \/ HearScheduler(r)
                         \/ CreatePolicy(r) \/ UpdatePolicy(r) \/ DeletePolicy(r)
  \/ \E a \in Apps : DeleteApp(a) \/ SynchronizeApp(a)
  \/ \E s \in Syncs : ReadPolicies(s) \/ ReadGuids(s) \/ Synchronize(s)

\* Requests are served, and the operator's jobs come round again and again.
Fairness ==
  /\ \A r \in Requests : WF_vars(Serve(r))
  /\ \A a \in Apps : WF_vars(SynchronizeApp(a))
  /\ \A s \in Syncs : WF_vars(ReadPolicies(s) \/ ReadGuids(s) \/ Synchronize(s))

Spec == Init /\ [][Next]_vars /\ Fairness

-----------------------------------------------------------------------------

\* The schedules of a are those of its policy, or at least some of them are.
Follow(a) ==
  IF HasSchedules(policy[a]) THEN policy[a] \in Guids(a) ELSE RowsOf(a) = {}

\* However requests overlap, time out and fail, and whatever the synchronizer did
\* from what it had read before: once requests cease, an application whose policy
\* has schedules keeps schedules of that policy and every other one has none
\* (ScheduleManager.synchronizeSchedules, policies.js).
SchedulesFollow == <>[](\A a \in Apps : Follow(a))

\* An application that Cloud Foundry has deleted ends without policy and without
\* schedules, also when a request for it was under way (ApplicationSynchronizer).
GoneAppsAreForgotten ==
  \A a \in Apps : a \in gone ~> [](policy[a] = None /\ RowsOf(a) = {})
=============================================================================
