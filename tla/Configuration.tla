---------------------------- MODULE Configuration ----------------------------
(***************************************************************************)
(* What the eight Go programs read from their configuration files: the     *)
(* values they set before they read the file, the values Validate refuses, *)
(* and the values they cannot work with, which is not the same.            *)
(*                                                                         *)
(* A configuration maps the name of a setting to an integer. A text is 0   *)
(* when it is empty and 1 when it is not; a duration is in seconds, a      *)
(* fraction counting as one; a list is its length. A setting that Go       *)
(* leaves at its zero value is 0 by default. The settings that nothing     *)
(* below depends on (ports, logging levels, the files of the servers'      *)
(* certificates) are left out.                                             *)
(***************************************************************************)
EXTENDS Integers

-----------------------------------------------------------------------------
(* The credentials for Cloud Foundry: api is 0 when it is empty, 1 for a   *)
(* URL of the schemes http and https, and 2 for any other text; grant_type *)
(* is 1 for a password, 2 for client credentials and 0 for any other.      *)

CFValidate(c) ==
  /\ c.cf_api = 1
  /\ \/ c.cf_grant_type = 1 /\ c.cf_username # 0
     \/ c.cf_grant_type = 2 /\ c.cf_client_id # 0

Positive(c, settings) == \A x \in settings : c[x] > 0

NonZero(c, settings) == \A x \in settings : c[x] # 0

\* The application's hash modulo the number of nodes is compared with the index.
NodeInRange(c) == 0 <= c.node_index /\ c.node_index < c.node_addrs

Between60And3600(c, settings) == \A x \in settings : 60 <= c[x] /\ c[x] <= 3600

\* A ticker cannot be made for an interval that is not positive.
NoTicker(c, intervals) == \E x \in intervals : c[x] <= 0

\* A channel or an array cannot be made with a negative length.
NoLength(c, lengths) == \E x \in lengths : c[x] < 0

-----------------------------------------------------------------------------
(* The API server. The catalog is 1 when its schema does not allow it.      *)

ApiDefaults ==
  [binding_db |-> 0, broker_username |-> 0, broker_password |-> 0,
   catalog_schema_path |-> 0, catalog_path |-> 0]

ApiValidate(c) == NonZero(c, DOMAIN ApiDefaults) /\ c.catalog_path # 1

-----------------------------------------------------------------------------
(* The event generator.                                                    *)

EventGeneratorDefaults ==
  [policy_db |-> 0, app_metrics_db |-> 0, scaling_engine_url |-> 0,
   metric_collector_url |-> 0, node_addrs |-> 0, node_index |-> 0,
   aggregator_execute_interval |-> 40, policy_poller_interval |-> 40,
   save_interval |-> 5, metric_poller_count |-> 20, app_monitor_channel_size |-> 200,
   app_metric_channel_size |-> 200, metric_cache_size_per_app |-> 100,
   evaluation_manager_execute_interval |-> 40, evaluator_count |-> 20,
   trigger_array_channel_size |-> 200, default_stat_window_secs |-> 0,
   default_breach_duration_secs |-> 0, http_client_timeout |-> 5]

EventGeneratorTickers ==
  {"policy_poller_interval", "evaluation_manager_execute_interval",
   "aggregator_execute_interval", "save_interval"}

EventGeneratorLengths ==
  {"trigger_array_channel_size", "evaluator_count", "app_monitor_channel_size",
   "app_metric_channel_size", "metric_poller_count"}

\* The check of the aggregation's intervals and sizes as the collectors do it.
EventGeneratorValidate_OnlyZero(c) ==
  /\ NonZero(c, {"policy_db", "app_metrics_db", "scaling_engine_url", "metric_collector_url"})
  /\ NonZero(c, EventGeneratorTickers)
  /\ Positive(c, EventGeneratorLengths)
  /\ Positive(c, {"metric_cache_size_per_app", "http_client_timeout"})
  /\ Between60And3600(c, {"default_breach_duration_secs", "default_stat_window_secs"})
  /\ NodeInRange(c)

EventGeneratorValidate(c) ==
  /\ NonZero(c, {"policy_db", "app_metrics_db", "scaling_engine_url", "metric_collector_url"})
  /\ Positive(c, EventGeneratorTickers)
  /\ Positive(c, EventGeneratorLengths)
  /\ Positive(c, {"metric_cache_size_per_app", "http_client_timeout"})
  /\ Between60And3600(c, {"default_breach_duration_secs", "default_stat_window_secs"})
  /\ NodeInRange(c)

\* A program panics at a moment: while it validates, while it creates its
\* members, or in a goroutine of one of them.
EventGeneratorPanics(c, moment) ==
  \/ moment = "create" /\ NoLength(c, EventGeneratorLengths)
  \/ /\ moment = "eventGenerator"
     /\ \/ NoTicker(c, EventGeneratorTickers)
        \/ c.metric_cache_size_per_app <= 0
        \/ c.node_addrs = 0

-----------------------------------------------------------------------------
(* The collector of metrics: collect_method is 1 for streaming, 2 for      *)
(* polling and 0 for any other.                                            *)

MetricsCollectorDefaults ==
  [cf_api |-> 0, cf_grant_type |-> 1, cf_username |-> 0, cf_client_id |-> 0,
   policy_db |-> 0, instance_metrics_db |-> 0, node_addrs |-> 0, node_index |-> 0,
   refresh_interval |-> 60, collect_interval |-> 30, collect_method |-> 1,
   save_interval |-> 5, metric_cache_size_per_app |-> 300, persist_metrics |-> 1,
   http_client_timeout |-> 5]

MetricsCollectorValidate(c) ==
  /\ CFValidate(c)
  /\ NonZero(c, {"policy_db", "instance_metrics_db"})
  /\ NonZero(c, {"collect_interval", "refresh_interval", "save_interval"})
  /\ c.collect_method \in {1, 2}
  /\ Positive(c, {"metric_cache_size_per_app", "http_client_timeout"})
  /\ NodeInRange(c)

MetricsCollectorPanics(c, moment) ==
  /\ moment = "collector"
  /\ \/ NoTicker(c, {"refresh_interval"})
     \/ c.persist_metrics = 1 /\ NoTicker(c, {"save_interval"})
     \/ c.collect_method = 1 /\ NoTicker(c, {"collect_interval"})
     \/ c.metric_cache_size_per_app <= 0
     \/ c.node_addrs = 0

-----------------------------------------------------------------------------
(* The server of metrics. A negative time to keep a connection alive makes *)
(* its timers expire at once.                                              *)

MetricsServerDefaults ==
  [http_client_timeout |-> 5, node_addrs |-> 0, node_index |-> 0, policy_db |-> 0,
   instance_metrics_db |-> 0, keep_alive_time |-> 60, refresh_interval |-> 60,
   collect_interval |-> 30, save_interval |-> 5, metric_cache_size_per_app |-> 1000,
   envelope_processor_count |-> 5, envelope_channel_size |-> 1000,
   metric_channel_size |-> 1000]

MetricsServerTickers == {"refresh_interval", "collect_interval", "save_interval"}

MetricsServerValidate(c) ==
  /\ Positive(c, {"http_client_timeout", "metric_cache_size_per_app", "envelope_processor_count",
                  "envelope_channel_size", "metric_channel_size"})
  /\ NodeInRange(c)
  /\ NonZero(c, {"policy_db", "instance_metrics_db", "keep_alive_time"})
  /\ NonZero(c, MetricsServerTickers)

MetricsServerPanics(c, moment) ==
  \/ /\ moment = "create"
     /\ NoLength(c, {"metric_channel_size", "envelope_processor_count", "envelope_channel_size"})
  \/ /\ moment = "metric_server"
     /\ \/ NoTicker(c, MetricsServerTickers)
        \/ c.metric_cache_size_per_app <= 0
        \/ c.node_addrs = 0
  \/ moment = "ws_server" /\ c.envelope_processor_count = 0

-----------------------------------------------------------------------------
(* The gateway of metrics: a block of certificates is 0 when the file does *)
(* not have it, 1 when one of its three files is missing, and 2 otherwise. *)

MetricsGatewayDefaults ==
  [nozzle_count |-> 3, envelop_chan_size |-> 500, metric_server_addrs |-> 0,
   policy_db |-> 0, max_open_connections |-> 0, max_idle_connections |-> 0,
   connection_max_lifetime |-> 0, app_refresh_interval |-> 60, buffer_size |-> 500,
   handshake_timeout |-> 1, keep_alive_interval |-> 5, max_setup_retry_count |-> 10,
   max_close_retry_count |-> 10, retry_delay |-> 10, metrics_server_client_tls |-> 0,
   rlp_addr |-> 0, shard_id |-> 1, rlp_client_tls |-> 0]

\* What is checked before the first block of certificates is looked at.
GatewayNumbersValid(c) ==
  /\ Positive(c, {"nozzle_count", "envelop_chan_size", "metric_server_addrs",
                  "max_open_connections", "max_idle_connections", "buffer_size",
                  "max_setup_retry_count", "max_close_retry_count"})
  /\ NonZero(c, {"policy_db", "connection_max_lifetime", "app_refresh_interval",
                 "handshake_timeout", "keep_alive_interval", "retry_delay"})

MetricsGatewayValidate(c) ==
  /\ GatewayNumbersValid(c)
  /\ c.metrics_server_client_tls = 2
  /\ NonZero(c, {"rlp_addr", "shard_id"})
  /\ c.rlp_client_tls = 2

MetricsGatewayPanics(c, moment) ==
  \/ /\ moment = "validate"
     /\ GatewayNumbersValid(c)
     /\ \/ c.metrics_server_client_tls = 0
        \/ /\ c.metrics_server_client_tls = 2
           /\ NonZero(c, {"rlp_addr", "shard_id"})
           /\ c.rlp_client_tls = 0
  \/ moment = "create" /\ NoLength(c, {"nozzle_count", "envelop_chan_size", "buffer_size"})
  \/ /\ moment = "metricsgateway"
     /\ \/ NoTicker(c, {"app_refresh_interval", "keep_alive_interval"})
        \/ c.metric_server_addrs = 0

-----------------------------------------------------------------------------
(* The forwarder of metrics. Its caches never expire when cache_ttl is 0,  *)
(* and nothing cleans them when cache_cleanup_interval is not positive.     *)

MetricsForwarderDefaults ==
  [policy_db |-> 0, ca_file |-> 0, cert_file |-> 0, key_file |-> 0,
   policy_poller_interval |-> 40]

MetricsForwarderValidate(c) == NonZero(c, {"policy_db", "ca_file", "cert_file", "key_file"})

MetricsForwarderPanics(c, moment) ==
  moment = "cacheUpdater" /\ NoTicker(c, {"policy_poller_interval"})

-----------------------------------------------------------------------------
(* The operator. Its credentials for Cloud Foundry are not validated.      *)

OperatorDefaults ==
  [instance_metrics_db |-> 0, instance_metrics_refresh_interval |-> 86400,
   instance_metrics_cutoff_duration |-> 2592000,
   app_metrics_db |-> 0, app_metrics_refresh_interval |-> 86400,
   app_metrics_cutoff_duration |-> 2592000,
   scaling_engine_db |-> 0, scaling_engine_refresh_interval |-> 86400,
   scaling_engine_cutoff_duration |-> 2592000,
   scaling_engine_url |-> 0, scaling_engine_sync_interval |-> 86400,
   scheduler_url |-> 0, scheduler_sync_interval |-> 86400,
   lock_db |-> 0, lock_ttl |-> 15, lock_retry_interval |-> 5,
   policy_db |-> 0, app_syncer_sync_interval |-> 86400, http_client_timeout |-> 5]

\* The interval of the ticker of each runner.
RunnerInterval ==
  [instancemetrics_dbpruner |-> "instance_metrics_refresh_interval",
   appmetrics_dbpruner      |-> "app_metrics_refresh_interval",
   scalingEngine_dbpruner   |-> "scaling_engine_refresh_interval",
   scalingEngine_sync       |-> "scaling_engine_sync_interval",
   scheduler_sync           |-> "scheduler_sync_interval",
   application_sync         |-> "app_syncer_sync_interval"]

OperatorValidate(c) ==
  /\ NonZero(c, {"instance_metrics_db", "app_metrics_db", "scaling_engine_db",
                 "scaling_engine_url", "scheduler_url", "lock_db", "policy_db"})
  /\ \A r \in DOMAIN RunnerInterval : c[RunnerInterval[r]] > 0
  /\ Positive(c, {"instance_metrics_cutoff_duration", "app_metrics_cutoff_duration",
                  "scaling_engine_cutoff_duration", "http_client_timeout"})

OperatorPanics(c, moment) ==
  \/ moment = "db_lock_maintainer" /\ NoTicker(c, {"lock_retry_interval"})
  \/ moment \in DOMAIN RunnerInterval /\ c[RunnerInterval[moment]] <= 0

-----------------------------------------------------------------------------
(* The scaling engine.                                                     *)

ScalingEngineDefaults ==
  [cf_api |-> 0, cf_grant_type |-> 1, cf_username |-> 0, cf_client_id |-> 0,
   policy_db |-> 0, scalingengine_db |-> 0, scheduler_db |-> 0,
   default_cool_down_secs |-> 0, lock_size |-> 0, http_client_timeout |-> 5]

ScalingEngineValidate(c) ==
  /\ CFValidate(c)
  /\ NonZero(c, {"policy_db", "scalingengine_db", "scheduler_db"})
  /\ Between60And3600(c, {"default_cool_down_secs"})
  /\ Positive(c, {"lock_size", "http_client_timeout"})

ScalingEnginePanics(c, moment) == moment = "create" /\ c.lock_size <= 0
=============================================================================
