------------------------------ MODULE Programs ------------------------------
(***************************************************************************)
(* The main functions of the eight Go programs: one of them reads and      *)
(* validates its configuration, connects to its databases and services,    *)
(* creates its members (its servers, and the functions that start and stop *)
(* its goroutines) and leaves them to an ordered group: a member is        *)
(* started when the one before it is ready, and the group stops them all,  *)
(* the last one first, when it is signalled or when one of them ends.      *)
(*                                                                         *)
(* A failure before the group runs, or a member that failed, ends the      *)
(* process with os.Exit(1), which runs no deferred call; otherwise main    *)
(* returns and the databases are closed in the order opposite to the one   *)
(* they were opened in. The group and the signals are those of the ifrit   *)
(* library, which is not part of the repository.                           *)
(***************************************************************************)
EXTENDS Configuration, Sequences

CONSTANT Files      \* the programs and their configuration files

ProgramNames ==
  {"api", "eventgenerator", "metricscollector", "metricsserver", "metricsgateway",
   "metricsforwarder", "operator", "scalingengine"}

Defaults ==
  [api |-> ApiDefaults, eventgenerator |-> EventGeneratorDefaults,
   metricscollector |-> MetricsCollectorDefaults, metricsserver |-> MetricsServerDefaults,
   metricsgateway |-> MetricsGatewayDefaults, metricsforwarder |-> MetricsForwarderDefaults,
   operator |-> OperatorDefaults, scalingengine |-> ScalingEngineDefaults]

\* A file gives values to some of the settings of its program.
IsGiven(p, given) ==
  /\ DOMAIN given \subseteq DOMAIN Defaults[p]
  /\ \A x \in DOMAIN given : given[x] \in Int

ASSUME FilesAssumption ==
  \A f \in Files : f.program \in ProgramNames /\ IsGiven(f.program, f.settings)

VARIABLES
  program,   \* the program that runs
  file,      \* what its configuration file gives
  conf,      \* its configuration
  phase,     \* how far its main function is
  done,      \* how many of the set-up steps are done and not undone
  member,    \* the state of each of its members
  code       \* its exit code

progVars == <<program, file, conf, phase, done, member, code>>

-----------------------------------------------------------------------------
(* What each main function sets up, in order, the members it starts, in    *)
(* order, the databases each of them uses, and the members that can end by *)
(* themselves: the servers, and the maintainer of the operator's lock.      *)
(* The health server of a program reads the statistics of its databases.   *)

ApiMain ==
  [setup |-> <<"binding_db">>, members |-> <<"http_server">>,
   uses |-> [http_server |-> {"binding_db"}], servers |-> {"http_server"}]

EventGeneratorMain ==
  [setup |-> <<"app_metrics_db", "policy_db", "scaling_engine_client",
               "metric_collector_client", "http_server">>,
   members |-> <<"eventGenerator", "http_server", "health_server">>,
   uses |-> [eventGenerator |-> {"policy_db", "app_metrics_db"},
             http_server    |-> {"app_metrics_db"},
             health_server  |-> {"policy_db", "app_metrics_db"}],
   servers |-> {"http_server", "health_server"}]

MetricsCollectorMain ==
  [setup |-> <<"cf_login", "instance_metrics_db", "policy_db", "http_server">>,
   members |-> <<"collector", "http_server", "health_server">>,
   uses |-> [collector     |-> {"policy_db", "instance_metrics_db"},
             http_server   |-> {"instance_metrics_db"},
             health_server |-> {"policy_db", "instance_metrics_db"}],
   servers |-> {"http_server", "health_server"}]

MetricsServerMain ==
  [setup |-> <<"instance_metrics_db", "policy_db", "ws_server", "http_server">>,
   members |-> <<"metric_server", "ws_server", "http_server", "health_server">>,
   uses |-> [metric_server |-> {"policy_db", "instance_metrics_db"},
             ws_server     |-> {},
             http_server   |-> {"instance_metrics_db"},
             health_server |-> {"policy_db", "instance_metrics_db"}],
   servers |-> {"ws_server", "http_server", "health_server"}]

MetricsGatewayMain ==
  [setup |-> <<"rlp_certificates", "metric_server_certificates", "policy_db">>,
   members |-> <<"metricsgateway", "health_server">>,
   uses |-> [metricsgateway |-> {"policy_db"}, health_server |-> {"policy_db"}],
   servers |-> {"health_server"}]

MetricsForwarderMain ==
  [setup |-> <<"policy_db", "loggregator_client">>,
   members |-> <<"cacheUpdater", "custom_metrics_server", "health_server">>,
   uses |-> [cacheUpdater          |-> {"policy_db"},
             custom_metrics_server |-> {"policy_db"},
             health_server         |-> {"policy_db"}],
   servers |-> {"custom_metrics_server", "health_server"}]

OperatorMain ==
  [setup |-> <<"instance_metrics_db", "app_metrics_db", "scaling_engine_db", "cf_login",
               "policy_db", "scaling_engine_client", "scheduler_client", "lock_db">>,
   members |-> <<"health_server", "db_lock_maintainer", "instancemetrics_dbpruner",
                 "appmetrics_dbpruner", "scalingEngine_dbpruner", "scalingEngine_sync",
                 "scheduler_sync", "application_sync">>,
   uses |-> [health_server |-> {"policy_db", "instance_metrics_db", "app_metrics_db",
                                "scaling_engine_db"},
             db_lock_maintainer       |-> {"lock_db"},
             instancemetrics_dbpruner |-> {"instance_metrics_db"},
             appmetrics_dbpruner      |-> {"app_metrics_db"},
             scalingEngine_dbpruner   |-> {"scaling_engine_db"},
             scalingEngine_sync       |-> {},
             scheduler_sync           |-> {},
             application_sync         |-> {"policy_db"}],
   servers |-> {"health_server", "db_lock_maintainer"}]

ScalingEngineMain ==
  [setup |-> <<"cf_login", "policy_db", "scalingengine_db", "scheduler_db", "http_server">>,
   members |-> <<"http_server", "health_server">>,
   uses |-> [http_server   |-> {"policy_db", "scalingengine_db", "scheduler_db"},
             health_server |-> {"policy_db", "scalingengine_db", "scheduler_db"}],
   servers |-> {"http_server", "health_server"}]

Mains ==
  [api |-> ApiMain, eventgenerator |-> EventGeneratorMain,
   metricscollector |-> MetricsCollectorMain, metricsserver |-> MetricsServerMain,
   metricsgateway |-> MetricsGatewayMain, metricsforwarder |-> MetricsForwarderMain,
   operator |-> OperatorMain, scalingengine |-> ScalingEngineMain]

Main    == Mains[program]
Members == DOMAIN Main.members
Name(m) == Main.members[m]
Uses(m) == Main.uses[Name(m)]

\* What is set up and not closed; what has no Close is never looked at.
Opened == {Main.setup[i] : i \in 1 .. done}

Validate(p, c) ==
  \/ p = "api"              /\ ApiValidate(c)
  \/ p = "eventgenerator"   /\ EventGeneratorValidate(c)
  \/ p = "metricscollector" /\ MetricsCollectorValidate(c)
  \/ p = "metricsserver"    /\ MetricsServerValidate(c)
  \/ p = "metricsgateway"   /\ MetricsGatewayValidate(c)
  \/ p = "metricsforwarder" /\ MetricsForwarderValidate(c)
  \/ p = "operator"         /\ OperatorValidate(c)
  \/ p = "scalingengine"    /\ ScalingEngineValidate(c)

Panics(p, c, moment) ==
  \/ p = "eventgenerator"   /\ EventGeneratorPanics(c, moment)
  \/ p = "metricscollector" /\ MetricsCollectorPanics(c, moment)
  \/ p = "metricsserver"    /\ MetricsServerPanics(c, moment)
  \/ p = "metricsgateway"   /\ MetricsGatewayPanics(c, moment)
  \/ p = "metricsforwarder" /\ MetricsForwarderPanics(c, moment)
  \/ p = "operator"         /\ OperatorPanics(c, moment)
  \/ p = "scalingengine"    /\ ScalingEnginePanics(c, moment)

-----------------------------------------------------------------------------

\* A setting the file does not give keeps the value it had before.
Loaded(p, given) ==
  [x \in DOMAIN Defaults[p] |-> IF x \in DOMAIN given THEN given[x] ELSE Defaults[p][x]]

\* The program of f is started.
Started(f) ==
  /\ program = f.program /\ file = f.settings
  /\ conf = Defaults[program]
  /\ phase = "load"
  /\ done = 0
  /\ member = [m \in Members |-> "new"]
  /\ code = 0

ProgInit == \E f \in Files : Started(f)

\* os.Exit(1)
Exit ==
  /\ phase' = "ended"
  /\ code' = 1

LoadConfig ==
  /\ phase = "load"
  /\ conf' = Loaded(program, file)
  /\ phase' = "validate"
  /\ UNCHANGED <<program, file, done, member, code>>

\* There is no such file, or it is not a YAML file of the expected form.
LoadConfigFails ==
  /\ phase = "load"
  /\ Exit
  /\ UNCHANGED <<program, file, conf, done, member>>

Accept ==
  /\ phase = "validate" /\ Validate(program, conf)
  /\ phase' = "setup"
  /\ UNCHANGED <<program, file, conf, done, member, code>>

Refuse ==
  /\ phase = "validate" /\ ~Validate(program, conf) /\ ~Panics(program, conf, "validate")
  /\ Exit
  /\ UNCHANGED <<program, file, conf, done, member>>

SetUp ==
  /\ phase = "setup" /\ done < Len(Main.setup)
  /\ done' = done + 1
  /\ UNCHANGED <<program, file, conf, phase, member, code>>

SetUpFails ==
  /\ phase = "setup" /\ done < Len(Main.setup)
  /\ Exit
  /\ UNCHANGED <<program, file, conf, done, member>>

\* The members are created between the steps of the set-up; that they are
\* created after them here changes nothing, as no step looks at them.
Create ==
  /\ phase = "setup" /\ done = Len(Main.setup) /\ ~Panics(program, conf, "create")
  /\ phase' = "start"
  /\ UNCHANGED <<program, file, conf, done, member, code>>

\* The group that starts all its members at once.
StartMember_AllAtOnce(m) ==
  /\ phase = "start"
  /\ member[m] = "new"
  /\ member' = [member EXCEPT ![m] = "starting"]
  /\ UNCHANGED <<program, file, conf, phase, done, code>>

StartMember(m) ==
  /\ phase = "start"
  /\ member[m] = "new" /\ \A k \in 1 .. m - 1 : member[k] = "up"
  /\ member' = [member EXCEPT ![m] = "starting"]
  /\ UNCHANGED <<program, file, conf, phase, done, code>>

Ready(m) ==
  /\ phase \in {"start", "stop"} /\ member[m] = "starting"
  /\ member' = [member EXCEPT ![m] = "up"]
  /\ UNCHANGED <<program, file, conf, phase, done, code>>

Running(m) == member[m] \in {"starting", "up"}

\* A server cannot listen, or the lock is lost.
MemberFails(m) ==
  /\ phase \in {"start", "run", "stop"}
  /\ Running(m) /\ Name(m) \in Main.servers
  /\ member' = [member EXCEPT ![m] = "failed"]
  /\ UNCHANGED <<program, file, conf, phase, done, code>>

\* A panic of any goroutine ends the process.
Panic(moment) ==
  /\ Panics(program, conf, moment)
  /\ \/ moment = "validate" /\ phase = "validate"
     \/ moment = "create" /\ phase = "setup" /\ done = Len(Main.setup)
     \/ /\ phase \in {"start", "run", "stop"}
        /\ \E m \in Members : Name(m) = moment /\ Running(m)
  /\ phase' = "panicked"
  /\ code' = 2
  /\ UNCHANGED <<program, file, conf, done, member>>

AllReady ==
  /\ phase = "start" /\ \A m \in Members : member[m] = "up"
  /\ phase' = "run"
  /\ UNCHANGED <<program, file, conf, done, member, code>>

Signal ==
  /\ phase \in {"start", "run"}
  /\ phase' = "stop"
  /\ UNCHANGED <<program, file, conf, done, member, code>>

\* The group hears of a member that ended, while it starts them and after.
Notice ==
  /\ phase \in {"start", "run"} /\ \E m \in Members : member[m] = "failed"
  /\ phase' = "stop"
  /\ UNCHANGED <<program, file, conf, done, member, code>>

StopMember(m) ==
  /\ phase = "stop"
  /\ Running(m) /\ \A k \in Members : k > m => ~Running(k)
  /\ member' = [member EXCEPT ![m] = "stopped"]
  /\ UNCHANGED <<program, file, conf, phase, done, code>>

GroupFails ==
  /\ phase = "stop" /\ \A m \in Members : ~Running(m)
  /\ \E m \in Members : member[m] = "failed"
  /\ Exit
  /\ UNCHANGED <<program, file, conf, done, member>>

\* The deferred call that does not wait for the group.
Close_WithoutWaiting ==
  /\ phase = "stop" /\ \A m \in Members : member[m] # "failed"
  /\ done > 0
  /\ done' = done - 1
  /\ UNCHANGED <<program, file, conf, phase, member, code>>

\* A deferred call; main returns after the last one.
Close ==
  /\ phase = "stop" /\ \A m \in Members : member[m] \in {"new", "stopped"}
  /\ done > 0
  /\ done' = done - 1
  /\ UNCHANGED <<program, file, conf, phase, member, code>>

MainReturns ==
  /\ phase = "stop" /\ \A m \in Members : member[m] \in {"new", "stopped"}
  /\ done = 0
  /\ phase' = "ended"
  /\ UNCHANGED <<program, file, conf, done, member, code>>

ProgNext ==
  \/ LoadConfig \/ LoadConfigFails \/ Accept \/ Refuse
  \/ SetUp \/ SetUpFails \/ Create
  \/ \E m \in Members : StartMember(m) \/ Ready(m) \/ MemberFails(m) \/ StopMember(m)
  \/ \E moment \in {"validate", "create"} \cup {Name(m) : m \in Members} : Panic(moment)
  \/ AllReady \/ Signal \/ Notice \/ GroupFails \/ Close \/ MainReturns

ProgSpec == ProgInit /\ [][ProgNext]_progVars

-----------------------------------------------------------------------------
(* Settings that Validate compares with zero only, and settings that it    *)
(* does not look at, with which a program cannot run.                       *)

NegativeAccepted ==
  [metricscollector |-> {"refresh_interval", "collect_interval", "save_interval"},
   metricsserver    |-> {"refresh_interval", "collect_interval", "save_interval"},
   metricsgateway   |-> {"app_refresh_interval", "keep_alive_interval"}]

Unchecked ==
  [metricsforwarder |-> {"policy_poller_interval"}, operator |-> {"lock_retry_interval"}]

Certificates == {"metrics_server_client_tls", "rlp_client_tls"}

\* The file gives a negative interval that Validate compares with zero only, or
\* an interval that is not positive and that Validate does not look at; or it
\* is a gateway's and lacks a block of certificates, where Validate panics.
Overlooked(p, given, c) ==
  \/ /\ p \in DOMAIN NegativeAccepted
     /\ \E x \in NegativeAccepted[p] \cap DOMAIN given : given[x] < 0
  \/ /\ p \in DOMAIN Unchecked
     /\ \E x \in Unchecked[p] \cap DOMAIN given : given[x] <= 0
  \/ /\ p = "metricsgateway"
     /\ \E x \in Certificates : c[x] = 0

\* A program panics over nothing else: what Validate accepts otherwise is what
\* the channels, tickers, caches, locks and shards that are created much later,
\* in some goroutine, can be created with, and the values that are set when
\* the file is silent are never the cause.
PanicsAreOverlooked == phase = "panicked" => Overlooked(program, file, conf)

\* A member that runs has the databases it uses open, however the process
\* comes to its end: main closes them only after the group has ended.
ConnectionsOutliveMembers == \A m \in Members : Running(m) => Uses(m) \subseteq Opened

\* While a member runs, those before it in the group are ready or have failed
\* and are about to bring the group down: no runner of the operator starts
\* before the maintainer has the lock, and the lock is given up by a maintainer
\* that is told to stop only when no runner is left.
OrderIsKept ==
  \A m, k \in Members : k < m /\ Running(m) => member[k] \in {"up", "failed"}

ProgTypeOK ==
  /\ program \in ProgramNames
  /\ IsGiven(program, file)
  /\ phase \in {"load", "validate", "setup", "start", "run", "stop", "ended", "panicked"}
  /\ done \in 0 .. Len(Main.setup)
  /\ member \in [Members -> {"new", "starting", "up", "stopped", "failed"}]

\* Why: a program goes on only with what the file and the defaults gave it and
\* Validate accepted, members run only between the last step of the set-up and
\* the first deferred call, and the order is kept.
ProgInvariant ==
  /\ ProgTypeOK
  /\ phase \in {"validate", "setup", "start", "run", "stop"} => conf = Loaded(program, file)
  /\ phase \in {"setup", "start", "run", "stop"} => Validate(program, conf)
  /\ phase \in {"load", "validate", "setup"} => \A m \in Members : member[m] = "new"
  /\ \/ phase \in {"start", "run"}
     \/ \E m \in Members : Running(m)
     => done = Len(Main.setup)
  /\ PanicsAreOverlooked
  /\ OrderIsKept
=============================================================================
