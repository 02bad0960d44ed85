# Verification of app-autoscaler

TLA+ models of app-autoscaler, the configurations that check them with TLC, and theorems about them that the TLA+ proof system checks.
App-autoscaler changes the number of instances of Cloud Foundry apps, by the load of the app and by schedules.
It consists of a dozen processes in three languages that share databases and call each other over HTTP.
The models follow what decides whether an app gets the number of instances its policy asks for:
who may change the app at a time, what is left behind when one call of several fails, and who notices.

Contents: [the system](#the-system), [modules](#the-modules), [runs](#the-runs), [fairness](#fairness), [proofs](#the-proofs), [findings](#findings), [seen while modelling](#seen-while-modelling), [what is left out](#what-is-not-modelled), [plan](#plan).

To check a configuration: `tlc -workers 2 -config SchedulerJobs.cfg MCSchedulerJobs.tla`; to check proofs: `tlapm DBLock_proofs.tla`.

## The system

All Go code is under `src/src/autoscaler`, the scheduler (Java, Quartz) under `src/scheduler`, the API and the service broker (JavaScript) under `src/api` and `src/servicebroker`.

```
 user ── policy API ──────────────┐  schedules         start / end of a schedule
          │ policy_json           └──────> scheduler ───────────────┐
          v                                    │ active schedules   v
 metrics collector/server ── event generator ──┼──── triggers ──> scaling engine ──> Cloud Controller
          ^   cache               cache        │                    │ active schedule, cooldown, history
 metrics gateway, forwarder                    └──── sync reads ────┘
                              operator (one active, by a lock): asks for synchronizations, prunes
```

| Component | State | Operations | Hard behaviour | Correct if |
|---|---|---|---|---|
| Scaling engine (`scalingengine/`) | `activeschedule`, `scalingcooldown`, `scalinghistory`; striped mutexes | `Scale`, `SetActiveSchedule`, `RemoveActiveSchedule`; queries | requests for one app arrive together; each is 6–8 calls that fail one by one, before or after they took effect; a resize that timed out takes effect when others are at work | operations on an app exclude each other; cooldowns and limits of the active schedule hold *when* the app is resized; history tells the truth; every request is answered |
| Active schedule synchronizer (`scalingengine/schedule`) | none; two snapshots | `Sync`: compare the scheduler's table with the engine's, then start and end schedules | a goroutine per request: synchronizations overlap each other, the scheduler's requests and policy changes | both tables agree once nothing changes |
| Scheduler jobs (`scheduler/.../quartz`) | Quartz's jobs and triggers, job data, `app_scaling_active_schedule` | start job, end job, rescheduling after errors | threads without a transaction around a job; late triggers; retries; crashes | a schedule stays active until its end, and ends |
| Scheduler: schedules of a policy (`ScheduleManager`) | `app_scaling_*_schedule` | create, delete, `synchronizeSchedules` | a transaction with requests in it, beside running jobs | no active schedule of a policy that is gone |
| Validation of schedules (`ScheduleManager`, `DataValidationHelper`; `api/lib/validation`) | none | counts, dates, times, days and overlap, decided by the API and again by the scheduler | many cases of intervals that are open on either side; two algorithms for one question | no two accepted schedules apply at a time; both programs accept the same policies |
| Database lock (`db/sqldb/lock_sqldb.go`, `sync/dblock.go`) | `operator_lock`, the maintainer of each node | `Lock`, `Release`, the maintainer's loop, the process group | renewals that are late, transactions that are repeated, crash of the owner | the members of one node run at a time; the lock is not lost |
| Operator (`operator/`) | none | prune tables, ask for synchronizations, remove policies of deleted apps | two operators at a time | everything is done again and again by one |
| Cache of time series (`collection/TSDCache.go`) | a ring | `Put`, `Query` | late data, wrap-around, equal timestamps | keeps the latest data; a hit is complete |
| Metrics collector (`metricscollector/`) | pollers or streamers by app, caches, `appinstancemetrics` | refresh, poll, save, query, stop | goroutines over unbuffered channels that are stopped one after the other; sharding by hash | stops; each app is polled by one node |
| Metrics server (`metricsserver/`) | processors, caches, websockets | receive, process, query, stop | as the collector | as the collector |
| Metrics gateway (`metricsgateway/`) | nozzle, dispatcher, emitters over channels | dispatch, emit, reconnect, stop | bounded channels; an emitter that does not start never reads | stops; envelopes flow |
| Event generator: aggregation (`eventgenerator/aggregator`) | policy map, pollers, cache, `app_metric` | refresh, poll, aggregate, save | channels; a refresh loop that does not wait after an error | an app's metric reflects its instances |
| Event generator: evaluation (`eventgenerator/generator`) | cooldowns by app, circuit breakers, trigger channel | `doEvaluate` of the manager and of the evaluators | cached cooldowns whose answers come in any order | a breach of the full duration sends a trigger; an app in its cooldown sends none |
| Metrics forwarder (`metricsforwarder/`) | caches of credentials and of allowed metrics | publish, refresh of policies | caches that outlive what they copy | accepts the metrics of the policy, from the app |
| Policy API (`api/lib`) | `policy_json`, `credentials` | put, delete and get a policy; credentials; queries | two databases, no transaction over both | policy and schedules agree |
| Service broker (`servicebroker/lib`) | `service_instance`, `binding` | provision, bind and their opposites | transactions with requests in them; a query outside of the transaction | an app has one binding; connections go back to the pool |
| Go API server (`api/`) | `service_instance`, `binding` | provision, deprovision, bind, unbind; the catalog | a query and a statement for each request, in no transaction, on a pool of connections; requests that the platform repeats | each answer is true of one moment; no connection is lost |
| Cloud Foundry client (`cf/`) | tokens, `grantTime`, a mutex | login, refresh, get and resize an app | goroutines share a token; requests for a new one fail or answer late; a resize that fails may have taken effect, or take effect later | nobody is given an expired token |
| Programs and their configuration (`*/config`, `*/cmd`) | settings, databases, members | read and validate a file; set up; start and stop the members; close | values that `Validate` lets through and a constructor panics on; set-ups that fail half way; the order of stopping | nothing but what `Validate` overlooks makes a program panic; a database outlives its users |

`PROJECT.json` lists every component with its status, and under `hazards` every place where this code can go wrong in a way a test would hardly reach, with the property that would notice.

## The modules

| Module | Models | Checked through | Proofs |
|---|---|---|---|
| `Adjustment` | `computeNewInstances`, the limiting of a number of instances | `ScalingRule`, `ScalingEngine`, `Evaluation` | `Adjustment_proofs` |
| `ScalingRule` | a rule that fires again and again | `MCSmallParts` | `SmallParts_proofs` |
| `ScalingEngine` | the three operations, call by call | `MCScalingEngine` | `ScalingEngine_proofs` |
| `DBLock` | lease, transactions, maintainer, process group | `MCDBLock` | `DBLock_proofs` |
| `LatestData` | abstract: a cache keeps the latest data | refined by `TSDCache` | `SmallParts_proofs` |
| `TSDCache` | the ring, and the queries of the collectors | `MCSmallParts` | `SmallParts_proofs` |
| `Validation` | both validations of schedules | `MCSmallParts` | `SmallParts_proofs` |
| `Credentials` | the credentials of an app in the table and in the caches of API servers and forwarders | `MCSmallParts` | `SmallParts_proofs` |
| `AllowedMetrics` | the metrics that apps may send, in the forwarder's cache | `MCSmallParts` | |
| `CFClient` | the token of the Cloud Foundry client | `MCSmallParts` | `SmallParts_proofs` |
| `SchedulerJobs` | jobs, rescheduling, policies of one app | `MCSchedulerJobs` | `SchedulerJobs_proofs` |
| `ActiveSchedules` | scheduler, engine and synchronizations together | `MCActiveSchedules` | `SchedulerJobs_proofs` |
| `Policies` | policies in two databases: API, scheduler, the operator's two repairs | `MCPolicies` | |
| `Broker` | binds, unbinds and public requests; extends `Policies` | `MCBroker` | `Brokers_proofs` |
| `Registry` | abstract: a registry of instances and bindings that answers truly | refined by `ServiceInstances` | `Brokers_proofs` |
| `ServiceInstances` | the broker of the Go API server | `MCBroker` | `Brokers_proofs` |
| `Evaluation` | manager, evaluators, circuit breakers, and the engine that answers them | `MCEvaluation` | `Evaluation_proofs` |
| `Channels` | goroutines, channels and the signal to stop, which the next four share | `MCPipelines` | |
| `Collector`, `MetricsServer`, `Gateway`, `Aggregation` | the goroutines of the four programs that carry metrics | `MCPipelines` | |
| `Pipelines` | the four of them, with what each promises | `MCPipelines` | `Pipelines_proofs` |
| `Configuration` | defaults, `Validate`, and what the programs cannot work with | `Programs` | `SmallParts_proofs` |
| `Programs` | the `main` functions of the eight Go programs | `MCSmallParts` | `SmallParts_proofs` |

`MCSmallParts` puts seven modules that share nothing into one run: a behaviour belongs to one of them (`part`) and the others rest. `MCBroker` does the same with the two brokers.

The `map` of `PROJECT.json` gives the source lines of every definition.
Operators whose names have an underscore and a suffix (`Owned_ById`) are mutants, plausible bugs in the definition that follows them; every property is known to notice at least one.

**ScalingEngine.**
A worker is the goroutine of a request.
`pc[w]` names the next call its operation makes; `req[w]` has its local variables: app, argument, timestamp and status of the history record, the current and the new number of instances, and the error it will return.
Each access to the Cloud Controller, to the policy database or to the engine's tables is an action.
It succeeds, fails without effect, or, if it changes something, fails after it had its effect.
A request to resize the app has one outcome more: the client gives up on it after 30 seconds (`cf/client.go:94`), the operation notes a failure, unlocks and returns, and the Cloud Controller acts on the request later or never.
`late` are these requests that nobody waits for; each may take effect at any time (`ResizeLate`), whoever holds the mutex by then, and as there may be several alike, more than once.
The deferred functions (save the history row, unlock) are the actions `Return` and `Unlock`; the label `Unlock` alone is a return before there is a history record.
Two statements that the code runs without a transaction (delete and insert of a cooldown or of an active schedule) are two actions.
`Environment` has what users and time do: apps are stopped, started and resized by hand, policies change, the clock advances.
A crash ends all workers and frees all mutexes; requests to resize an app that were under way become `late`.
`stale` is a history variable, which only properties read: the apps that somebody else (a user or a late request) has resized since an operation was last told their size (`GetApp`) or set it.

**DBLock.**
A node is one process of the operator from start to end; a process that starts again has a new id and is another node.
The table has one row at most, as the code's `SELECT ... LIMIT 1 FOR UPDATE` under a table lock sees to.
What the source compares are two values of Postgres' `NOW()`, which is the time a *transaction started*; the model keeps ages instead of times, so that time is not bounded.
`isLockAcquired` starts as true and is set to false by the closure of the transaction, which may run three times; `denied` are the nodes for which it is false.
`MaxDelay` bounds the age of a live node's last renewal: `MaxDelay <= Ttl` is a lock that is renewed in time, `MaxDelay > Ttl` is not.

**TSDCache** has the slots, the cursor and the number of data as the source does, with positions that run past the end of the ring and are taken modulo the capacity.
`Put` and `Query` run under the cache's lock, so each is one step.
A history variable `seen` has all data there ever were.
**LatestData**, which it implements, is two sets: all data there were, and those that are kept, which are the latest of them.
Which of several data with the oldest timestamp are kept is left open; what was given up does not come back.

**SchedulerJobs** is about one app.
`exec[t]` is what a thread of Quartz executes, with the copy of the job data that is stored again when the job is rescheduled.
`fireAt[s]` are the times at which a start job will fire: all start times for a recurring schedule's cron trigger, one time after a rescheduling.
The following was decided with the code and its configuration in hand:
- `AppScalingScheduleJob` catches the errors of the database and of the REST client and reschedules the job, with a counter for each kind. Other errors, answers with an error status included, are logged.
- The deletion of a policy is one transaction that holds Quartz's lock from its first deletion to its commit, because `SchedulerFactoryBean` shares the application's data source and transaction manager. Other uses of Quartz wait (`QuartzFree`), uses of `app_scaling_active_schedule` do not.
- The rows that the transaction finds at its beginning (`deleting`) name the end jobs it deletes; the rows it deletes are those there are when it deletes them.
- Instants are unique (`FiresNow`): a start time identifies one firing of one job, as the millisecond does in the code (`startJobIdentifier`).
- `lost` remembers that an end job was not created, gave up, or may have been lost in a crash.

**Validation** has the scheduler's algorithms and the API's side by side, as operators over one policy.
Moments, dates and times of day are numbers, days are sets, and what a policy leaves out is `None`.
Time zones, formats and the texts of errors are left out.
`Sorts` says what `Collections.sort` and JavaScript's `sort` do with any number of schedules, and leaves open how they order equal starts.
`AppliesOn` and `Apply` are the reference: when a schedule is in force.

**Credentials** is about one app, with credentials as numbers in the order in which they were made.
A request compares with the cache, and if that does not hold what it is given, with what it then reads from the table, which it stores; the read and the store are two steps (`Miss`, `Fill`).
A change deletes what the server that makes it has cached, after the table was written.

**AllowedMetrics** is about one metric: a policy has a rule for it or has none.
A handler looks into the cache, reads the policy if the app is not there, and stores what it read; the policy manager reads all policies, then replaces the entries of the apps it finds cached, one by one, each with the set of all of them.

**CFClient** has the life that is left of the token (which nobody sees) and its age (which the client counts from the arrival of the answer).
Time passes only while a request is on its way, `MaxDelay` at most.

**Policies** numbers the requests; the number is also the guid of the policy that a `PUT` carries.
A request has a place in the API (`api`) and one in the scheduler (`sched`): the API may give up on a request that the scheduler still works on.
The scheduler finds the schedules there are, deletes them in a transaction and creates the new ones in the next.
`synchronizeSchedules` reads all policies, then all guids, then deletes and creates, as of what it has read.
The operator's application synchronizer deletes the policies of apps that are gone.

**Broker** adds the bindings, the transactions and the pool of connections to `Policies`: what a bind or an unbind asks the API for is a request of `Policies`, so that the failures of that are failures of this.
A request that begins a transaction holds a connection until it commits or rolls back (or for ever, if it does neither), and its query takes another for the moment.

**ServiceInstances** has the two tables of the Go API server's database, and for each request the query that looks for its row, the closing of that query's rows, the statement, and the answer.
The query holds a connection of the pool until its rows are closed, the statement takes one for the moment.
The driver waits for the first row before `Query` returns, so `rows.Next` hides no error.
The keys of the tables are the statement's: an insert of a row that somebody else has inserted since the query fails, and so does a binding whose instance is gone.
**Registry** is what the platform may rely on: a request takes effect in one moment between its arrival and its answer.
Who is told that a row was created has created it; after an error nobody knows.

**Evaluation** keeps ages and remainders instead of times, so that its clock has no bound.
The manager sends an array of triggers for each app (in any order, as Go iterates over maps) through the channel; an evaluator takes an array, goes through its rules, and calls the engine through the breaker of the app.
The engine is `ScalingEngine`'s `Scale` in one step, with `Adjustment`; `AppExclusion` is what allows this.
A resize that takes effect after `Scale` has returned is none of these steps: it is left to `ScalingEngine`.
An answer may be lost, and is a failure for the breaker.

**Channels** models what Go gives: `pc[g]` is where a goroutine is, `out[g]` what it has still to send, a channel a bounded sequence, and an unbuffered channel a step of both (`Meet`).
A goroutine that is stopped through an unbuffered channel of its own takes the signal only in its `select`.
**Collector**, **MetricsServer**, **Gateway** and **Aggregation** name their goroutines and say what each sends where; `Pipelines` runs one of the four.
The stopping of a program is a sequence of stages, in the order of its `Stop` functions, each of which waits for its goroutines.

**Configuration** maps names of settings to integers: a text counts as 0 or 1, a list as its length, a duration in seconds.
It gives the defaults of each program, what `Validate` refuses, and what makes a constructor or a timer panic.
**Programs** runs one program with one file.
`done` counts the steps of the set-up, and the deferred calls that undo them; the members start in their order, each when the one before is ready, and stop in the opposite one.
A failure before the members run, and a member that failed, end the process with `os.Exit`, which skips the deferred calls.
The group and the signals are those of the ifrit library and are modelled from how `main` uses them.

**ActiveSchedules** adds the engine's table (`engine`), the requests whose sender gave up but that the engine may still work on (`late`), and synchronizations.
A synchronization is three steps: read the scheduler's table, read the engine's, act on the difference.
An operation of the scaling engine is one step here. `ScalingEngine` has its calls, and `AppExclusion` shows that those of one app never interleave; the outcomes of a failed operation are those its calls can leave behind. The numbers of instances, and with them late resizes, are in `ScalingEngine` only.

**Adjustment** keeps the arithmetic exact, in hundredths.
Floating-point rounding is a choice between the exact result and the whole number next to it on the side of zero, where the exact result is a whole number.

## The runs

| Run | Instance | What it shows |
|---|---|---|
| `small_parts` | *rule*: 15 percentages, 4 steps, sizes 0–60, limits 2–50; *cache*: capacity 3, 5 puts, 3 timestamps, 2 labels; *validation*: 27 thousand policies; *credentials*: an API server, a forwarder, 2 requests, 2 changes; *metrics*: 2 apps, a handler, the manager; *client*: 2 goroutines, a token of 4 ticks; *programs*: 8 programs, each with an empty file, a right one, and every one that differs from it in one setting, where every step of the set-up and every member may fail and signals come at any time | a percentage gives the nearest number of instances, or moves the app by one where that is the number it has (`NearestToExact`) and reaches the limit if it keeps firing (`ReachesLimit`); the search of the ring agrees with its definition (`SearchFindsFirst`), a hit leaves out nothing but data as old as the oldest (`HitIsAlmostComplete`), and it implements `LatestData` (`KeepsTheLatest`); accepted schedules never overlap (`AcceptedNeverOverlap`) and both programs accept the same ones (`ValidatorsAgree`); current credentials are never refused (`CurrentAreAccepted`), replaced ones are in the end (`RetiredAreRefused`); the allowed metrics follow the policies (`MetricsFollow`); no caller is given an expired token (`TokensAreAlive`); only an overlooked setting makes a program panic (`PanicsAreOverlooked`), databases outlive their users (`ConnectionsOutliveMembers`), members start and stop in order (`OrderIsKept`) |
| `engine_faults` | 1 app, 2 workers, a trigger that grows the app, 2 schedules with no size in common, 4 calls that fail and rows that are not saved, crashes with requests to resize under way, manual resizing, clock to 2 | `AppExclusion`, `CooldownHolds`, `ScheduleLimitsHold`, `HistoryInOrder` |
| `engine_answers` | 1 app, 2 workers, a trigger that shrinks the app, a policy that wants one instance and a schedule that wants two; reading the size fails, and so do a resize, the writing of a schedule and of a cooldown, before or after their effect; resizes that take effect late | what an answer without an error says of the app is true (`StartIsApplied`), and so is the last history row (`HistoryMatchesApp`); every request is answered |
| `engine_retry` | 1 app, 2 workers, an app of one instance, a schedule that wants two; resizing fails | **violated**: a start that is repeated after a failure is answered with success and not applied |
| `lock_timely` | 3 nodes, `Ttl = MaxDelay = 1`, failing statements and releases, crashes, shutdowns, 3 failures | `OneActive` if nodes renew in time |
| `lock_faults` | 2 nodes, `MaxDelay = 2 > Ttl = 1`, all failures, 2 of them | no lease is taken early however late nodes are (`LeaseIsRespected`), and the lock finds an owner again (`SomebodyIsActive`) |
| `jobs` | 2 threads, a daily schedule with two periods and one for a date that overlaps the first, 2 attempts per job, 1 failure, crashes, the policy created and deleted | `StaysUntilEnd`, `RowsEnd` |
| `active_schedules` | 1 thread, 2 synchronizations, 2 policies that follow each other, 1 failure | the scheduler's and the engine's tables agree in the end (`EngineAgrees`) |
| `policies` | 1 app, 2 requests of any kind, with and without schedules, 2 overlapping synchronizations, 1 failure anywhere, the app may be deleted | the schedules follow the policy once requests cease (`SchedulesFollow`); an app that is gone has neither in the end (`GoneAppsAreForgotten`) |
| `broker` | *servicebroker*: 3 requests of any kind, 2 connections, 1 failure; *api*: 2 requests at a time, again and again, for 2 instances and a binding of either, 1 connection, any statement fails before or after its effect | an unbind that succeeds leaves no policy (`UnboundHasNoPolicy`); every request is answered while the pool has connections (`RequestsAreAnswered`). The Go broker implements `Registry` (`AnswersAreTrue`), loses no connection, and leaves no binding without its instance (`ApiInvariant`) |
| `evaluation` | 1 app, rules out and in, 2 evaluators, channel of 1, breaker that trips after 2 failures | an engine in trouble is left alone for the back-off (`EngineIsSpared`); a breach that lasts is answered by a resize or the limit is reached (`BreachIsAnswered`) |
| `pipelines` | 2 apps, channels of 1, 2 processors, 2 emitters, 1 nozzle, 1 poller | no goroutine is lost (`NoOrphan`); collectors follow the policies (`CollectorsFollow`); envelopes and metrics flow (`EnvelopesFlow`, `AppsAreMeasured`); a program that is told to stop stops (`ProgramsStop`) |

Type invariants and the inductive invariants of the proofs are no properties of the runs: the theorems show them for every instance. TLC was used on each of them before it was proved.

Why these bounds are enough for what they are to show:

- *Two workers, one app.* Every hazard of the engine is a race between two requests for one app. A third would wait for the same mutex. Apps that share a mutex are covered by the theorems, which hold for any `LockOf`.
- *Sizes and limits of the engine*: one schedule wants two instances, the other one (and has an initial minimum), the policy is at odds with one of them. Each operation therefore finds apps that are within its limits and apps that are not, and a request to resize it that is late, or lands between two calls, undoes what the operation under way has just done. The calls that may fail are split over the two runs: those whose failure the answers and rows have to tell are in `engine_answers`, with a fair scheduler, the others beside crashes and users in `engine_faults`. The theorems have all of them together.
- *The clock of the engine* runs for two instants, a cooldown lasts one: it is started, in force and over. The behaviours between are interleavings, not times.
- *Three nodes* are an owner, a node that takes over and a third that competes with both. With three failures in all a transaction can use up its three attempts; with two nodes and two failures the last attempt can succeed after the first two failed.
- *A ring of three with five puts* wraps around, and every position can be first, last and in the middle when a late datum arrives.
- *One failure among the scheduler's steps* is enough for each of its error paths; two attempts per job make it both repeat and give up (a start that was repeated leaves its end job one attempt). The daily schedule starts again after its first end, which is when a late end job could do harm.
- *Two overlapping synchronizations* are the least for one to act on what another has changed since. A single thread of Quartz keeps this run small; the races of two threads are those of `jobs`.
- *Three schedules for dates, two recurring ones.* The scheduler compares sorted neighbours, so three can differ from the definition where two cannot; recurring ones are compared in pairs. Every single schedule that can be written with these few values is in the run, the bad ones too.
- *Two changes of the credentials, two requests* are one request that reads the old ones and stores them after the second change, beside one that uses the caches. *Two apps* are the least that can share a set of allowed metrics.
- *Two requests for a policy* overlap in every way; a third can only come after one of them is done. With two synchronizations, one acts on what it read before the other repaired.
- *Three requests of the broker* are a bind, an unbind of it and a public one or a second bind; two connections are the least with which a bind can finish, and two binds the least that can take both.
- *Two evaluators* may hold two arrays of one app, with breakers from different rounds. Two failures trip the breaker: one failure more and one less than needed both happen.
- *Channels of one slot* are full after one message. What a larger channel does in addition, it does between full and empty.
- *Two requests to the Go broker, one connection* are the same request twice, a creation beside a deletion, or a binding beside the removal of its instance; with one connection a request that kept it would stop everything.
- *Files that differ in one setting* have -1, 0, 1 or 3601 for a number, on either side of each of `Validate`'s comparisons, and 0, 1 or 2 for a choice, a text or a list. What is compared with another setting (the index of a node with the number of nodes) differs from the right value on either side, too.

`CHECK_DEADLOCK FALSE` appears where the system or its model really stops: the small parts (a policy that was validated, the cache after its last put, a program that has ended), the scheduler's runs when the clock has reached `MaxTime` and no job is left, the broker when all its requests are answered, the pipelines when the program has stopped.

## Fairness

- `ScalingEngine`: `WF(Work(w))`, as calls return (the HTTP client and the databases time out), and `SF(Lock(w))`, as Go's `sync.Mutex` hands itself to a goroutine that has waited for a millisecond. Nothing is assumed of users, of arriving requests or of crashes.
- `DBLock`: `WF(Work(n))` for the maintainer's goroutine, its transactions and its ticker; `SF(ReceiveSignal(n))`, as a `select` that finds a tick and a signal ready chooses at random; `WF(Tick)`. Processes need not start, and may be interrupted at any time.
- `SchedulerJobs`: weak fairness of `Fire` (Quartz has threads for its triggers), of every thread's execution, of the transaction of a deletion and of the clock. A policy need not be deleted.
- `ActiveSchedules`: the same, and weak fairness of every synchronization (the operator asks for one at every tick of its own) and of the delivery of late requests.
- `ScalingRule`: weak fairness of the rule, whose condition holds in every evaluation by the choice of the scenario.
- `Credentials`, `AllowedMetrics`: weak fairness of the caches' expiry (a timer), of requests that have read something, and of the policy manager's ticker. No fairness of users and of new requests.
- `Policies`: weak fairness of requests, of the operator's tickers and of each synchronization. A user need not send anything, an app need not be deleted.
- `Broker`: weak fairness of what the API does, strong fairness of the steps of a request, as they wait for a connection of the pool, which hands them out in the order of asking.
- `Evaluation`: weak fairness of the tickers, the manager, the channel and of each evaluator; strong fairness of alarms and of the engine's answers, which other evaluators' alarms and failures interrupt: an engine that is asked again and again answers in the end.
- `Pipelines`: weak fairness of each goroutine that receives; strong fairness of sends into a channel that others use too (Go queues the senders of a channel), of a refresh that waits for a goroutine in its `select`, and of stopping. Envelopes keep coming and a broken connection can be set up again in the end; otherwise nothing flows and nothing is claimed.

Failures are never assumed to happen. Their number is bounded in `DBLock`, in the scheduler, in `Policies` and in `Broker`, which makes `SomebodyIsActive`, `RowsEnd`, `EngineAgrees`, `SchedulesFollow`, `GoneAppsAreForgotten` and `RequestsAreAnswered` statements about what follows the last failure.

## The proofs

A run is about a small instance, a theorem about all values of the constants.
The assumptions on constants are the named `ASSUME`s of each module (types of the inputs; limits with `min <= max`, which the API validates; intervals and counters at least 1), and TLC evaluates them in every run.

**ScalingEngine_proofs** holds for any apps, workers, hash of apps to mutexes, schedules, policies, triggers and failing calls.
`TypeCorrect` contains that no app is ever asked to have a negative number of instances.
The safety properties are not inductive: that the cooldown holds when the app is resized depends on what every other worker may have done since it was checked.
`EngineInvariant` says what a worker knows of its app and keeps:

- `MutexHeld`: between `Lock` and `Unlock` a worker holds the mutex of its app;
- `CooldownChecked`: from `CanScaleApp` to the resize, the cooldown is over;
- `ScheduleKnown`: the active schedule is what the worker has read or written, and the number it is about to ask for is within its limits.

A step of a worker changes only its own app, so what others know of other apps is untouched; what others know of the same app does not exist, by `MutexHeld`.
A crash and the passing of time make it no worse.
`AppsAreExclusive`, `CooldownIsRespected` and `LimitsAreRespected` follow.

`RecordInvariant` is about the history.
The record of an operation in progress is true of its app (`RecordIsTrue`), from where it has read the size to where its row is saved; and the last row of an app is true, or there is an operation under way that has read the size and whose row will follow (`RowIsTrue`).
Of an app in `stale` both say nothing: its size is one that no operation knows. The first operation that reads or sets it takes the app out of `stale`, and from there on the record has to be true again.
Timestamps are in order (`HistoryIsInOrder`) because an operation takes its own only after it has the mutex.
`StartsAreApplied` has no hypothesis.
`HistoryTellsTheSize` has one that the code cannot do without: that rows are saved and the engine does not crash between resize and row (`Recorded`).

**DBLock_proofs** holds for any nodes, ttl and number of failures.
`LeasesAreRespected` needs no assumption on delays: a transaction that overwrites the row compares with its own start, which is not later than now.
`ActiveOwns` and `OneNodeActive` show `ActiveOwnsLock` and `OneActive` under two hypotheses:
`RenewsInTime` (`MaxDelay <= Ttl`) and `StartsKnowing` (no failure of beginning or committing a transaction).
Neither can be dropped: see [Seen while modelling](#seen-while-modelling).
The inductive invariant has three parts besides `ActiveOwnsLock`: no live node is later than `MaxDelay`, the row of an active node is as young as its last renewal, and a transaction is not older than the time since the node's last renewal.

**SchedulerJobs_proofs** holds for any schedules, policies, threads, delays and failures.
`JobsInvariant` adds to the types that an end job is never due before the end of its schedule (`EndJobsInTime`), also after it was rescheduled, and that an end job that executes does so after it (`EndsRunLate`).
`ScheduleStaysUntilEnd` follows: a row that matches the start time of an end job is one whose end has passed.
The same holds in the composition: a step of `ActiveSchedules` is a step of `SchedulerJobs`, or changes nothing of the scheduler, or only counts a failure (`JobsInvariantHoldsForBoth`, `StaysUntilEndForBoth`).

**Evaluation_proofs** holds for any apps, rules, evaluators and back-off.
That an engine in trouble is left alone depends on the breaker that an evaluator holds, and the manager replaces all of them in each round.
`EvaluationInvariant` says that it does no harm: the breaker of an app has counted the failures of the app and tripped no later than the last of them (`FailuresAreKnown`), and whoever will report to a breaker still finds one (`ReportsArrive`).
Its types contain that no app leaves the limits of its policy.
`EngineStaysSpared` follows: the breaker that lets an alarm through has waited for as long as the app has been in trouble.

**Pipelines_proofs** holds for any set of apps, any shard and channels of any size.
`CollectorInvariant` says that the collector's map has exactly the goroutines that run, until they are told to stop, and what each stage of `Stop` has behind it: the refresher ends before the first collector is stopped, so that none is started behind its back.
A refresh remembers what it has still to start and to stop; no other goroutine writes the map, so what it remembers stays right (`RefreshKnows`).
`NobodyIsOrphaned` is a part of it.

**Brokers_proofs** has both brokers.
`BrokerTellsTheTruth` is the refinement of `Registry` by `ServiceInstances`, for any requests, rows and connections:
a request takes effect at its query if that decides the answer (a row to be created is there, one to be deleted is not), and at its statement otherwise.
The refinement mapping (`Told`) is therefore the answer that a request will get once its query has decided, though its handler does not know it yet.
For the JavaScript broker, `BrokerInvariant` says what its requests have asked the API for (`AskedOf`), and that while an unbind runs that no bind and no public request has run beside, nobody can store a policy, and once the policy is detached there is none (`DetachedIsGone`).
`UnboundIsDetached` follows.
The policy module's synchronizations and the operator run in between and only delete.

**SmallParts_proofs**, in the order of the module:

*Rules* (with **Adjustment_proofs**). For every number of instances, every percentage and every rounding, the app moves in the direction of the sign, by one at least (`PercentageMoves`); limiting to the policy does not turn this around (`RuleMovesItsWay`); and the size is the nearest to the exact one; only where that is the size the app already has is it one instance up or down, by the sign, so that nothing but 0 % leaves the app as it is (`RoundingIsNearest`).

*Validation*, for calendars of any length and policies with any number of schedules.
`DatesApart` and `DatesMeet` show that the cases of `isOverlapping` are all there are and none too many: it finds an overlap exactly if the two periods have a day in common, whichever of the four dates are missing.
`SchedulesApart` concludes that two recurring schedules that it finds not to overlap are never in force together, and `DatesAgree` that the API's substitutes for missing dates give the same answer.
`AcceptedSchedulesAreApart` adds that the right pairs are compared.
Any list can be sorted by any keys, by induction on its length, so that `Sorted` means something; and if each of the sorted dates ends before its successor starts, each ends before all that follow.
`TheValidatorsAgree` compares both programs check by check, schedule by schedule and pair by pair: they take the recurring pairs in different orders, but meeting is symmetric.

*Client*, for any callers and times with `MaxDelay < TimeToRefresh < ExpiresIn`: ten minutes are the margin, and no answer takes as long.
The inductive invariant (`ClientInvariant`) says that the token expires no earlier than its age lets expect, less the delay of an answer (`ExpiryIsKnown`), that a token in an answer is as young (`AnswersAreYoung`), and that one that was looked at under the mutex is alive until the caller has it.
The proof does not need the mutex: two callers that refreshed at a time would do more work, not harm.

*Credentials*, for any servers, forwarders and requests (`CurrentCredentialsAreAccepted`).
A request whose credentials are those of the table at its end has found only those (`Uptodate`): credentials are never given twice.

*Programs*, for files with any integers in them.
`PanicsOnlyOverTheOverlooked` goes through the constructors and timers of each program: what one panics on is refused by `Validate`, or positive by default and not given, or one of the settings of `Overlooked`.
That databases stay open (`DatabasesStayOpen`) and members keep their order (`MembersKeepTheirOrder`) is `ProgInvariant`: members run only between the last step of the set-up and the first deferred call.

*Cache*, for any capacity and any data.
The binary search is a recursive function; that it is one, and finds the first position that is not older, is shown by induction on the distance of its bounds (`BinarySearchIsRight`).
Both ways of `Put`, at the end and in the middle, are then insertions at a position, and `CacheInvariant` is preserved: the slots are filled in order, sorted, have each datum once (`EachOnce`), and whatever was given up is not younger than the oldest (`NothingElseDropped`).
The last two give `HitsAreAlmostComplete` and the refinement of the sets of `LatestData` (`RingKeepsTheLatest`), with a bijection between positions and data to count by.

Inductions are over the natural numbers, by way of a least counterexample in a set (`AllNaturals`), as the library's theorem on induction takes an operator.

Only model-checked is liveness, which is beyond the prover: `RequestsAreAnswered` (of engine and broker), `SomebodyIsActive`, `RowsEnd`, `EngineAgrees`, `ReachesLimit`, `SchedulesFollow`, `GoneAppsAreForgotten`, `BreachIsAnswered`, `RetiredAreRefused`, `MetricsFollow`, and `CollectorsFollow`, `ProgramsStop`, `EnvelopesFlow` and `AppsAreMeasured` of the pipelines.

## Findings

One run shows the code to differ from what its documents say of it; it is a finding in `PROJECT.json` with the lines concerned.

**A repeated start is taken for a duplicate** (`engine_retry`). `SetActiveSchedule` stores the schedule before it resizes the app. If the resize fails, the request that repeats it finds the schedule active and succeeds without doing anything: the app stays outside the limits of a schedule that is in force.

## Seen while modelling

What follows is present in the models (or, where said so, exempted in a property) and has no run of its own. Paths are those of [the system](#the-system).

The engine:

- A request to resize an app that timed out (`cf/app.go:107`) may take effect after its operation has noted a failure and unlocked, and so between two calls of another operation on the app, or after it. A trigger's `PUT` may undo in this way the resize of a schedule that starts next: the start has found or set a size within its limits and is answered with success, its row names this size, and the app is outside the limits of a schedule in force. A resize by hand does the same. Nothing in the code notices before the next operation on the app reads its size. `HistoryMatchesApp` and `StartIsApplied` exempt an app for exactly as long (`stale`): they say that nothing *else* makes an answer or a row wrong, and that from the next reading on they are right again.
- `CooldownHolds` and `ScheduleLimitsHold` are about the call of a worker that holds the mutex. A late effect of an earlier call is bound by neither: the limits it was computed from may be those of another schedule.

The lock:

- With `MaxDelay > Ttl`, `OneActive` fails: a node that renews too late is told so by `Lock`, but the ticker branch of the maintainer (`dblock.go:70`) looks at the answer only while it waits for the lock, so the members go on beside those of the new owner.
- If the first call of `Lock` cannot begin its transaction, `ActiveOwnsLock` fails: the error is logged, `isLockAcquired` was initialised to true (`dblock.go:34`), and the members start.
- A transaction of `Lock` that is repeated after a bad connection keeps `isLockAcquired` false from the failed attempt, so an owner of the lock may think it is not (harmless to exclusion; it starts its members one tick later).

The scheduler:

- A recurring schedule whose start job is rescheduled has its cron trigger replaced by one that fires once (`AppScalingScheduleJob.java:127`): it starts once more and then never again.
- An end job takes the rescheduling counters of its start job with it and has fewer attempts.
- A start job that is repeated after its row was created finds that row and skips itself: the engine hears of the schedule only from a synchronization.
- Two start jobs that both find no active schedule replace each other's row.
- A synchronization finds one guid for each app; rows of several guids of one app that racing requests left stay as long as the one it finds is current. `SchedulesFollow` asks for the policy's schedules to be there, not for all others to be gone.

Validation:

- Two specific dates that only touch are accepted by the API and refused by the scheduler (`Touch`, exempted in `ValidatorsAgree`). Dates in the past are refused only by the scheduler.
- Recurring schedules of different kinds (days of the week, days of the month) and recurring schedules and dates are never compared with each other, though `docs/policy.md:60` speaks of any two that overlap. What the start jobs then do is in `SchedulerJobs`; `AcceptedNeverOverlap` is about schedules of a kind.
- The API's schema lets a date be the empty string, which `normalizeEndDate` hands on as it is, so that an overlap may be missed; the model has `None` only.
- The API lists time zones with trailing blanks.

Bindings and credentials:

- Two binds of one app that count its bindings before either has created one both succeed, where `binding.js:143` says that there is one. What `checkBinding` answers to a public request may have changed when the API acts on it.
- A bind that fails after its policy was attached (`binding.js:109`) rolls its binding back and leaves the policy. An unbind for which the API answers 404 commits without deleting the credentials (`binding.js:203`), and the status of the answer about credentials is ignored.
- A bind that is refused as a duplicate neither commits nor rolls back, and keeps its connection. Its query runs outside of its transaction and needs a second connection: as many binds as there are connections wait for each other. A failure of the query itself is not caught, and nobody is answered. `RequestsAreAnswered` assumes a free connection again and again.
- Deleting a service instance is answered before it is done.
- The Go API server's broker answers 200 to the creation of an instance or a binding that exists, for whatever organization, space or app it exists (`api_handler.go:63`); the JavaScript one answers 409. It neither looks for another binding of the app nor for an empty `app_guid`.
- Of two equal creations that overlap, one is answered 500, as the error of the insert is not looked at (`binding_sqldb.go:70`). A row that somebody else has deleted since the query is deleted once more, with success.
- A body of `null` leaves the handlers without a body to look into (`api_handler.go:45`).
- `createOrUpdateCredentials` does not clear the cache if the row was newly created: the credentials of an earlier binding stay in it until they expire. `RetiredAreRefused` promises what it does in the end, by the time to live.

Metrics:

- `Collector.Stop` ends the goroutine that receives the metrics before the pollers that send them: a poller in the middle of a send never sees its signal, and `Stop` never returns. `ProgramsStop` exempts exactly this state (`CannotStop`).
- An emitter of the gateway that never had a connection has nothing to close, and its `Stop` fails; one that has ended, or never started, no longer reads, and the dispatcher waits once its buffer is full. Both are in `CannotStop`.
- `main` of the event generator does not stop its pollers and evaluators. Its refresh loop (`appManager.go:74`), and that of the forwarder's policy manager, repeat a failing query without a pause.
- The forwarder gives all apps in its cache one set of allowed metrics, so that an app may send what only another app has a rule for; `MetricsFollow` is about metrics that no app has a rule for, or that this one has. The set is read without a lock while a refresh may write to it, which ends a Go program (`Die`).
- The noaa consumers of the metrics collector refresh the token without the mutex of the client.
- Of several data with the timestamp of the oldest one, the ring may drop one that a query of this timestamp asks for (`HitIsAlmostComplete` has the exception).

Programs and their configuration:

- Intervals of the metrics collector (`config.go:127`), the metrics server and the metrics gateway are compared with zero only, the forwarder's `policy_poller_interval` and the operator's `retry_interval` with nothing: a ticker panics on negative ones, in a goroutine and much later. `PanicsAreOverlooked` names them all (`Overlooked`). The lock's time to live may be shorter than its renewals, which is the case `MaxDelay > Ttl` of `DBLock`.
- The metrics gateway's `Validate` dereferences the blocks of certificates without looking whether they are there.
- The message about the metrics server's `keep_alive_time` says "less-equal than 0", the comparison is with zero (`config.go:127`).
- A `cache_ttl` of zero means never to the forwarder's cache. The operator does not validate its `cf` block.
- `main` of the scaling engine leaves the goroutine of a synchronization behind.

## What is not modelled

- Queries (of the API, histories, aggregated metrics), formatting, JSON, health endpoints and route tables change no state that others depend on.
- Single SQL statements are steps of the modules that use them.
- The Go API server's catalog: it is read once and served as it is.
- Ports, logging levels, files of certificates of the servers and the circuit breaker's times in `Configuration`: no set-up depends on them.
- Time zones and calendars: schedules have start and end times from a small set. The validation of scaling rules compares each with constants.
- Service instances of the JavaScript broker: they are there, and stay.
- In `ScalingEngine`, late effects of anything but a resize: a statement of the engine's databases has its effect, if any, before its error is seen. In `Evaluation`, resizes that take effect after the engine has answered.
- A malformed adjustment is in `ScalingEngine` and its theorems, and not in a run: the pattern of the API refuses it (`schemaValidator.js:46`).
- What is computed from an event or an envelope, and the means that are computed of metrics: a message is a message.
- The pruning of the operator: a `DELETE` of what is older than a date, for each table.
- The threads of Node.js and the JVM: a step is what the code does between two calls of another program.
- `src/integration`, the fakes and the tests.

## Plan

Done, in this order: scaling engine, lock, cache, scheduler jobs, engine and scheduler together; policies in two databases, the broker, evaluation, the pipelines, validation, credentials, allowed metrics, the client's token; the Go broker, programs and their configuration; and theorems for every safety property. What is left, by importance:

1. Evaluation together with aggregation: that what an evaluator reads is as young as the breach it answers.
2. A lossless bounded queue as the abstract specification of the gateway's way from nozzle to server, with the order of an app's envelopes.
3. Theorems for the safety half of what is only model-checked: that a synchronization removes no schedule of a policy that was there throughout, that nobody is left with allowed metrics that no policy has.
4. Service instances of the JavaScript broker and their removal beside binds.
