--------------------------- MODULE AllowedMetrics ---------------------------
(***************************************************************************)
(* The metrics that an app may send to the metrics forwarder are those its *)
(* policy has rules for.  The forwarder keeps them in a cache, which the   *)
(* handlers fill from the policy database and the policy manager           *)
(* refreshes.  A refresh makes one set for all the apps in the cache, so   *)
(* that each of them may send what any of them may.                        *)
(*                                                                         *)
(* This is about one metric.  A policy has a rule for it or does not.      *)
(***************************************************************************)
EXTENDS Naturals

CONSTANTS
  Apps,
  Senders,       \* requests that may overlap
  MetricTTL      \* cacheTTL, in ticks

Ruling == {"none", "silent", "rule"}

VARIABLES
  policy,        \* the policy database
  allowed,       \* allowedMetricCache: whether the metric is in the set of an app, for how
                 \* long yet, and whether it is the set that the last refresh has made
  manager,       \* the policy manager: the policies it has read, the apps it has still to
                 \* refresh, and whether the metric is in the set that it makes
  sender         \* the requests

allowedVars == <<policy, allowed, manager, sender>>

NotCached == [rule |-> FALSE, left |-> 0, shared |-> FALSE]
Cached    == {a \in Apps : allowed[a].left > 0}
Waiting   == [at |-> "wait", policies |-> [a \in Apps |-> "none"], todo |-> {}, rule |-> FALSE]
Quiet     == [at |-> "quiet", app |-> CHOOSE a \in Apps : TRUE, rule |-> FALSE]

AllowedInit ==
  /\ policy = [a \in Apps |-> "none"]
  /\ allowed = [a \in Apps |-> NotCached]
  /\ manager = Waiting
  /\ sender = [s \in Senders |-> Quiet]

ChangePolicy(a) ==
  /\ policy' \in {[policy EXCEPT ![a] = p] : p \in Ruling \ {policy[a]}}
  /\ UNCHANGED <<allowed, manager, sender>>

-----------------------------------------------------------------------------
(* CustomMetricsHandler.validateCustomMetricTypes                          *)

Ask(s, a) ==
  /\ sender[s].at = "quiet"
  /\ sender' = [sender EXCEPT ![s] = [at |-> "asked", app |-> a, rule |-> FALSE]]
  /\ UNCHANGED <<policy, allowed, manager>>

\* The cache knows what the app may send.
Look(s) ==
  /\ sender[s].at = "asked" /\ sender[s].app \in Cached
  /\ sender' = [sender EXCEPT ![s] = Quiet]
  /\ UNCHANGED <<policy, allowed, manager>>

\* Or the policy database is asked; without a policy, or without an answer, the request
\* is refused and nothing is cached.
LookUp(s) ==
  /\ sender[s].at = "asked" /\ sender[s].app \notin Cached
  /\ \/ /\ policy[sender[s].app] # "none"
        /\ sender' = [sender EXCEPT ![s].at = "found",
                                    ![s].rule = policy[sender[s].app] = "rule"]
     \/ sender' = [sender EXCEPT ![s] = Quiet]
  /\ UNCHANGED <<policy, allowed, manager>>

FillAllowed(s) ==
  /\ sender[s].at = "found"
  /\ allowed' = [allowed EXCEPT ![sender[s].app] =
       [rule |-> sender[s].rule, left |-> MetricTTL, shared |-> FALSE]]
  /\ sender' = [sender EXCEPT ![s] = Quiet]
  /\ UNCHANGED <<policy, manager>>

-----------------------------------------------------------------------------
(* PolicyManager                                                           *)

RetrievePolicies ==
  /\ manager.at = "wait"
  /\ manager' = [manager EXCEPT !.at = "read", !.policies = policy]
  /\ UNCHANGED <<policy, allowed, sender>>

ToRefresh == {a \in Cached : manager.policies[a] # "none"}

\* A refresh makes a set for the apps that the cache has now.
StartRefresh ==
  /\ manager.at = "read"
  /\ manager' = IF ToRefresh = {} THEN Waiting
                ELSE [manager EXCEPT !.at = "refresh", !.todo = ToRefresh]
  /\ allowed' = [a \in Apps |-> [allowed[a] EXCEPT !.shared = FALSE]]
  /\ UNCHANGED <<policy, sender>>

\* What is added to the set shows in all the entries that have it.
Share(rule, entries) ==
  [a \in Apps |-> IF entries[a].shared THEN [entries[a] EXCEPT !.rule = rule] ELSE entries[a]]

\* mutant: the set is added to what the cache has for the app.
Replace_Adds(a) ==
  LET rule == manager.rule \/ manager.policies[a] = "rule" \/ allowed[a].rule
      left == manager.todo \ {a}
  IN  /\ a \in manager.todo
      /\ allowed' = Share(rule, IF a \in Cached
           THEN [allowed EXCEPT ![a] = [rule |-> rule, left |-> MetricTTL, shared |-> TRUE]]
           ELSE allowed)
      /\ manager' = IF a \notin Cached \/ left = {} THEN Waiting
                    ELSE [manager EXCEPT !.todo = left, !.rule = rule]
      /\ UNCHANGED <<policy, sender>>

\* The rules of the app are added to the set, which replaces that of the app: if there
\* still is one, otherwise the refresh ends there.
Replace(a) ==
  LET rule == manager.rule \/ manager.policies[a] = "rule"
      left == manager.todo \ {a}
  IN  /\ a \in manager.todo
      /\ allowed' = Share(rule, IF a \in Cached
           THEN [allowed EXCEPT ![a] = [rule |-> rule, left |-> MetricTTL, shared |-> TRUE]]
           ELSE allowed)
      /\ manager' = IF a \notin Cached \/ left = {} THEN Waiting
                    ELSE [manager EXCEPT !.todo = left, !.rule = rule]
      /\ UNCHANGED <<policy, sender>>

ExpireAllowed ==
  /\ allowed' = [a \in Apps |->
       IF allowed[a].left <= 1 THEN NotCached ELSE [allowed[a] EXCEPT !.left = @ - 1]]
  /\ UNCHANGED <<policy, manager, sender>>

\* A handler may read the set while the policy manager writes to it, without a lock,
\* for which Go may end the program; it starts again with an empty cache.
Die ==
  /\ manager.at = "refresh" /\ \E s \in Senders : sender[s].at = "asked"
  /\ allowed' = [a \in Apps |-> NotCached]
  /\ manager' = Waiting
  /\ sender' = [s \in Senders |-> Quiet]
  /\ UNCHANGED policy

AllowedNext ==
  \/ \E a \in Apps : ChangePolicy(a) \/ Replace(a)
  \/ \E s \in Senders : \/ \E a \in Apps : Ask(s, a)
                        \/ Look(s) \/ LookUp(s) \/ FillAllowed(s)
  \/ RetrievePolicies \/ StartRefresh \/ ExpireAllowed \/ Die

\* Time passes, handlers and the policy manager go on, and the database answers
\* the policy manager in the end.
AllowedFairness ==
  /\ WF_allowedVars(ExpireAllowed)
  /\ WF_allowedVars(RetrievePolicies \/ StartRefresh \/ \E a \in Apps : Replace(a))
  /\ \A s \in Senders : WF_allowedVars(Look(s) \/ LookUp(s) \/ FillAllowed(s))

-----------------------------------------------------------------------------

\* What an app may send follows the policies in the end, whatever a handler or the
\* policy manager had read before they changed: the metric of a policy that changes no
\* more is not kept out by the cache, and one that no policy has a rule for any more is
\* not let in by it.  (A metric that only another app has a rule for may be let in for
\* as long as that rule is there.)
MetricsFollow ==
  /\ \A a \in Apps :
       <>[](policy[a] = "rule") => <>[](a \in Cached => allowed[a].rule)
  /\ <>[](\A a \in Apps : policy[a] # "rule")
       => <>[](\A a \in Apps : ~(a \in Cached /\ allowed[a].rule))
=============================================================================
