---------------------------- MODULE MCSmallParts ----------------------------
(***************************************************************************)
(* Seven parts that have nothing to do with each other, each on a small    *)
(* instance: a behaviour is one of ScalingRule, of TSDCache, of            *)
(* Credentials, of AllowedMetrics, of CFClient or of Programs, or a policy *)
(* whose schedules are validated, and the other parts do nothing.          *)
(***************************************************************************)
EXTENDS ScalingRule, TSDCache, Validation, Credentials, AllowedMetrics, CFClient,
        Programs, TLC

VARIABLE part

-----------------------------------------------------------------------------
(* Every rule of a range of percentages and steps, from every small size.  *)

Percentages == {-150, -100, -90, -75, -50, -34, -10, -1, 1, 10, 33, 50, 82, 100, 300}
Steps       == {-3, -1, 1, 2}

Rules == [unit : {"percent"}, value : Percentages] \cup [unit : {"step"}, value : Steps]

StartSizes == 0 .. 60

-----------------------------------------------------------------------------
(* Data of two labels and three timestamps.                                 *)

Stamps == 1 .. 3

-----------------------------------------------------------------------------
(* Three schedules for dates, two recurring ones of either kind, and every *)
(* value that a single one can have; counts around their limits.           *)

Option(S) == S \cup {None}

Counts == [min : Option(-1 .. 2), max : Option(0 .. 3), initial : Option(-1 .. 3)]
GoodCounts == [min |-> 1, max |-> 2, initial |-> None]

AnySpecific  == [start : Option(0 .. 4), end : Option(0 .. 4)]
GoodSpecific == {s \in [start : 1 .. 5, end : 1 .. 5] : s.start < s.end}

Recurring(dates, times, weeks, months) ==
  [startDate : dates, endDate : dates, startTime : times, endTime : times,
   week : weeks, month : months]

AnyRecurring ==
  Recurring({None, 0, 1, 2}, {None, 1, 2}, {{}, {1}, {1, 8}}, {{}, {1}, {0, 1}})

GoodRecurring ==
  {r \in Recurring(Option(1 .. 3), 1 .. 3, {{}, {2}, {2, 3}}, {{}, {2}, {1, 2}}) :
     RecurringTimeValid(r)}

Empty == [counts |-> GoodCounts, specific |-> <<>>, recurring |-> <<>>]

SomePolicies ==
  [counts : Counts, specific : {<<>>}, recurring : {<<>>}]
  \cup [counts : {GoodCounts}, recurring : {<<>>},
        specific : [1 .. 1 -> AnySpecific] \cup [1 .. 3 -> GoodSpecific]]
  \cup [counts : {GoodCounts}, specific : {<<>>},
        recurring : [1 .. 1 -> AnyRecurring] \cup [1 .. 2 -> GoodRecurring]]

CalendarDates == 1 .. 7
CalendarTimes == 1 .. 3

-----------------------------------------------------------------------------
(* Every program with a file that is right, with each of the files that    *)
(* differ from it in one setting, and with no settings at all.             *)

\* The settings that have to be given.
Needed ==
  [api |-> [x \in DOMAIN ApiDefaults |-> 2],
   eventgenerator |->
     [policy_db |-> 1, app_metrics_db |-> 1, scaling_engine_url |-> 1, metric_collector_url |-> 1,
      node_addrs |-> 2, node_index |-> 1, default_stat_window_secs |-> 120,
      default_breach_duration_secs |-> 3600],
   metricscollector |->
     [cf_api |-> 1, cf_username |-> 1, policy_db |-> 1, instance_metrics_db |-> 1,
      node_addrs |-> 2, node_index |-> 0],
   metricsserver |->
     [policy_db |-> 1, instance_metrics_db |-> 1, node_addrs |-> 1, node_index |-> 0],
   metricsgateway |->
     [metric_server_addrs |-> 1, policy_db |-> 1, max_open_connections |-> 10,
      max_idle_connections |-> 1, connection_max_lifetime |-> 60,
      metrics_server_client_tls |-> 2, rlp_addr |-> 1, rlp_client_tls |-> 2],
   metricsforwarder |-> [policy_db |-> 1, ca_file |-> 1, cert_file |-> 1, key_file |-> 1],
   operator |->
     [instance_metrics_db |-> 1, app_metrics_db |-> 1, scaling_engine_db |-> 1,
      scaling_engine_url |-> 1, scheduler_url |-> 1, lock_db |-> 1, policy_db |-> 1],
   scalingengine |->
     [cf_api |-> 1, cf_username |-> 1, policy_db |-> 1, scalingengine_db |-> 1,
      scheduler_db |-> 1, default_cool_down_secs |-> 60, lock_size |-> 32]]

\* The settings that are numbers or durations, and not texts, choices or lists.
Numbers(p) ==
  {x \in DOMAIN Defaults[p] :
     \/ Defaults[p][x] > 2
     \/ x \in {"node_index", "default_stat_window_secs", "default_breach_duration_secs",
               "default_cool_down_secs", "lock_size", "max_open_connections",
               "max_idle_connections", "connection_max_lifetime", "handshake_timeout"}}

Choices(p, x) == IF x \in Numbers(p) THEN {-1, 0, 1, 3601} ELSE {0, 1, 2}

SomeFiles ==
  UNION {
    {[program |-> p, settings |-> << >>], [program |-> p, settings |-> Needed[p]]}
    \cup UNION {{[program |-> p, settings |-> (x :> v) @@ Needed[p]] : v \in Choices(p, x)} :
                x \in DOMAIN Defaults[p]} :
    p \in ProgramNames}

-----------------------------------------------------------------------------

allVars == <<vars, cacheVars, schedules, credsVars, allowedVars, clientVars, progVars>>

SmallInit ==
  /\ part \in {"rule", "cache", "validation", "credentials", "metrics", "client", "programs"}
  /\ IF part = "rule" THEN Init
     ELSE size = InstanceMin /\ rule = [unit |-> "step", value |-> -1]
  /\ IF part = "validation" THEN ValidationInit ELSE schedules = Empty
  /\ ClientInit
  /\ part # "client" => left = ExpiresIn
  /\ IF part = "programs" THEN ProgInit ELSE Started([program |-> "operator", settings |-> << >>])
  /\ CacheInit /\ CredsInit /\ AllowedInit

SmallNext ==
  /\ UNCHANGED part
  /\ \/ /\ part = "rule" /\ Next
        /\ UNCHANGED <<cacheVars, schedules, credsVars, allowedVars, clientVars, progVars>>
     \/ /\ part = "cache" /\ CacheNext
        /\ UNCHANGED <<vars, schedules, credsVars, allowedVars, clientVars, progVars>>
     \/ /\ part = "credentials" /\ CredsNext
        /\ UNCHANGED <<vars, cacheVars, schedules, allowedVars, clientVars, progVars>>
     \/ /\ part = "metrics" /\ AllowedNext
        /\ UNCHANGED <<vars, cacheVars, schedules, credsVars, clientVars, progVars>>
     \/ /\ part = "client" /\ ClientNext
        /\ UNCHANGED <<vars, cacheVars, schedules, credsVars, allowedVars, progVars>>
     \/ /\ part = "programs" /\ ProgNext
        /\ UNCHANGED <<vars, cacheVars, schedules, credsVars, allowedVars, clientVars>>

\* Only the parts with a liveness property have fairness.
SmallSpec ==
  /\ SmallInit /\ [][SmallNext]_<<part, allVars>>
  /\ WF_vars(part = "rule" /\ Next)
  /\ CredsFairness
  /\ part = "metrics" => AllowedFairness
=============================================================================
