--------------------------- MODULE ScalingEngine ---------------------------
(***************************************************************************)
(* The scaling engine (src/src/autoscaler/scalingengine): the three        *)
(* operations that change the number of instances of an app,               *)
(*                                                                         *)
(*   Scale                 a trigger of the event generator                *)
(*   SetActiveSchedule     a schedule starts                               *)
(*   RemoveActiveSchedule  a schedule ends                                 *)
(*                                                                         *)
(* each run by the goroutine of an HTTP request (or of a synchronization), *)
(* called a worker here.  A worker holds the lock of its app (a stripe of  *)
(* mutexes chosen by a hash of the app id) while it calls the Cloud        *)
(* Controller and the databases.  Every such call is a step of its own and *)
(* may fail; a call that changes something may fail before or after the    *)
(* change was made.  A request to resize an app may also time out, or be   *)
(* orphaned by a crash, and resize the app when nobody waits for it any    *)
(* more.  The users of the platform act at any time: they start and stop   *)
(* apps, resize them by hand and change their policies.                    *)
(***************************************************************************)
EXTENDS Integers, Adjustment

CONSTANTS
  App, Worker,
  Stripe, LockOf,      \* the mutexes, and the mutex of each app
  Schedules,           \* [id, min, max, initial]: a schedule that can start
  Policies,            \* [min, max]: the limits of a policy
  Triggers,            \* [adjustment, coolDown]: what Scale is called with
  DefaultCoolDown,
  InitialSizes,        \* the number of instances an app is pushed with
  ManualSizes,         \* what users resize apps to; {} if they never do
  Failing,             \* the calls that may fail, see Calls
  MaxTime,             \* bound of the clock
  NoSchedule, NoPolicy, NoWorker, NoRequest

\* "Crash" stands for a crash of the scaling engine's process.
Calls == { "GetApp", "SetAppInstances", "CanScaleApp", "GetActiveSchedule",
           "GetAppPolicy", "UpdateCooldown", "SetActiveSchedule",
           "RemoveActiveSchedule", "SaveScalingHistory", "Crash" }

ASSUME LocksAssumption == LockOf \in [App -> Stripe]

\* The API validates policies before it stores them: instance_min_count is at
\* most instance_max_count, which bounds initial_min_instance_count.
ASSUME LimitsAssumption ==
  /\ Schedules \subseteq [id : STRING, min : Nat, max : Nat, initial : Nat]
  /\ \A s \in Schedules : s.min <= s.max /\ s.initial <= s.max
  /\ Policies \subseteq [min : Nat, max : Nat]
  /\ \A p \in Policies : p.min <= p.max

ASSUME InputsAssumption ==
  /\ Triggers \subseteq
       [adjustment : [unit : AdjustmentUnit, value : Int], coolDown : Int]
  /\ DefaultCoolDown \in Nat
  /\ InitialSizes \subseteq Nat /\ ManualSizes \subseteq Nat
  /\ Failing \subseteq Calls
  /\ MaxTime \in Nat

ASSUME NullsAssumption ==
  /\ NoSchedule \notin Schedules
  /\ NoPolicy \notin Policies
  /\ NoWorker \notin Worker

VARIABLES
  instances, state,  \* Cloud Foundry: the apps
  late,                \* requests to resize an app that nobody waits for
  policy,              \* policy_json, written by the API
  activeSchedule,      \* activeschedule, the engine's own table
  cooldown,            \* scalingcooldown.expireat; 0 if there is no row
  lastHistory,         \* the last row of each app in scalinghistory
  lock,                \* the worker that holds each mutex
  pc, req,             \* where each worker is, and its local variables
  clock,
  stale                \* history variable: the apps that others have resized
                       \* since an operation last learnt their size

cf       == <<instances, state, late>>
engineDB == <<activeSchedule, cooldown, lastHistory>>
vars     == <<instances, state, late, policy, activeSchedule, cooldown,
              lastHistory, lock, pc, req, clock, stale>>
-----------------------------------------------------------------------------
(* Types *)

\* A label is the next call its operation makes.  At "Return" the deferred
\* functions run: the history row is saved, then the mutex is unlocked.
\* "Unlock" is a return before there is a history record.
ScaleLabels  == { "Scale.Lock", "Scale.GetApp", "Scale.CanScaleApp",
                  "Scale.GetActiveSchedule", "Scale.GetAppPolicy",
                  "Scale.SetAppInstances", "Scale.DeleteCooldown",
                  "Scale.InsertCooldown" }
SetLabels    == { "Set.Lock", "Set.GetActiveSchedule", "Set.DeleteSchedule",
                  "Set.InsertSchedule", "Set.GetApp", "Set.SetAppInstances" }
RemoveLabels == { "Remove.Lock", "Remove.GetActiveSchedule",
                  "Remove.DeleteSchedule", "Remove.GetApp",
                  "Remove.GetAppPolicy", "Remove.SetAppInstances" }
Labels == {"idle", "Return", "Unlock"}
            \cup ScaleLabels \cup SetLabels \cup RemoveLabels
Waiting == {"Scale.Lock", "Set.Lock", "Remove.Lock"}
Holding == Labels \ (Waiting \cup {"idle"})

ResizeLabels ==
  {"Scale.SetAppInstances", "Set.SetAppInstances", "Remove.SetAppInstances"}

Status == {"none", "succeeded", "failed", "ignored"}

\* now is the timestamp of the history record; err is what the operation is to
\* return.
Request == [ app : App, arg : Triggers \cup Schedules, now : Nat,
             old : Int, new : Int, status : Status,
             err : {"nil", "error"} ]

HistoryRow == [time : Nat, status : Status, old : Int, new : Int]

Put == [app : App, new : Nat]

TypeOK ==
  /\ instances \in [App -> Nat]
  /\ state \in [App -> {"STARTED", "STOPPED"}]
  /\ late \subseteq Put
  /\ policy \in [App -> Policies \cup {NoPolicy}]
  /\ activeSchedule \in [App -> Schedules \cup {NoSchedule}]
  /\ cooldown \in [App -> Nat]
  /\ lastHistory \in [App -> HistoryRow]
  /\ lock \in [Stripe -> Worker \cup {NoWorker}]
  /\ pc \in [Worker -> Labels]
  /\ req \in [Worker -> Request \cup {NoRequest}]
  /\ clock \in Nat
  /\ stale \subseteq App
  /\ \A w \in Worker :
       /\ pc[w] # "idle" => req[w] \in Request
       /\ pc[w] \in ScaleLabels => req[w].arg \in Triggers
       /\ pc[w] \in SetLabels \cup RemoveLabels => req[w].arg \in Schedules
       /\ pc[w] \in ResizeLabels => req[w].new \in Nat

NoRow == [time |-> 0, status |-> "none", old |-> -1, new |-> -1]

\* The clock starts at 1 so that a cooldown of 0 is one that has expired.
Init ==
  /\ instances \in [App -> InitialSizes]
  /\ state = [a \in App |-> "STARTED"]
  /\ late = {}
  /\ policy \in [App -> Policies]
  /\ activeSchedule = [a \in App |-> NoSchedule]
  /\ cooldown = [a \in App |-> 0]
  /\ lastHistory = [a \in App |-> NoRow]
  /\ lock = [m \in Stripe |-> NoWorker]
  /\ pc = [w \in Worker |-> "idle"]
  /\ req = [w \in Worker |-> NoRequest]
  /\ clock = 1
  /\ stale = {}
-----------------------------------------------------------------------------
(* What the operations are made of *)

MutexOf(w) == LockOf[req[w].app]

GoTo(w, label) == pc' = [pc EXCEPT ![w] = label]

\* An operation that has not called the Cloud Controller yet knows no number
\* of instances: -1.
Accept(w, a, arg, label) ==
  /\ pc[w] = "idle"
  /\ GoTo(w, label)
  /\ req' = [req EXCEPT ![w] =
               [ app |-> a, arg |-> arg, now |-> 0, old |-> -1, new |-> -1,
                 status |-> "none", err |-> "nil" ]]
  /\ UNCHANGED <<cf, policy, engineDB, lock, clock, stale>>

\* mutant: the mutex is shared by readers.
Acquire_Shared(w) ==
  /\ lock' = [lock EXCEPT ![MutexOf(w)] = w]
  /\ UNCHANGED <<cf, policy, engineDB, clock, stale>>

Acquire(w) ==
  /\ lock[MutexOf(w)] = NoWorker
  /\ lock' = [lock EXCEPT ![MutexOf(w)] = w]
  /\ UNCHANGED <<cf, policy, engineDB, clock, stale>>

\* The operation returns with this status.
Finish(w, status) ==
  /\ GoTo(w, "Return")
  /\ req' = [req EXCEPT ![w].status = status]

\* A call returns an error and so does the operation.
Fail(w) ==
  /\ GoTo(w, "Return")
  /\ req' = [req EXCEPT ![w] = [@ EXCEPT !.status = "failed", !.err = "error"]]

\* The same before the operation has a history record.
FailEarly(w) ==
  /\ GoTo(w, "Unlock")
  /\ req' = [req EXCEPT ![w].err = "error"]

\* The operation has settled on n instances: it asks for them at label, or
\* there is nothing to do.
Decide(w, old, n, label) ==
  IF n = old
  THEN /\ GoTo(w, "Return")
       /\ req' = [req EXCEPT ![w] =
                    [@ EXCEPT !.old = old, !.new = n, !.status = "ignored"]]
  ELSE /\ GoTo(w, label)
       /\ req' = [req EXCEPT ![w] = [@ EXCEPT !.old = old, !.new = n]]

Reads == UNCHANGED <<cf, policy, engineDB, lock, clock>>

ReadOnly == Reads /\ UNCHANGED stale

\* The size of the app is what the operation is told (GetApp), or has asked for
\* and got (SetAppInstances).  One that is not told leaves a row without a size.
LearnSize(w) == stale' = stale \ {req[w].app}

AskSize(w) == Reads /\ LearnSize(w)

Resize(w) == instances' = [instances EXCEPT ![req[w].app] = req[w].new]

PutOf(w) == [app |-> req[w].app, new |-> req[w].new]

\* mutant: the error of the call is dropped.
SetAppInstances_ErrorDropped(w, next) ==
  /\ Resize(w) \/ ("SetAppInstances" \in Failing /\ UNCHANGED instances)
  /\ req' = [req EXCEPT ![w].status = "succeeded"]
  /\ GoTo(w, next) /\ LearnSize(w)
  /\ UNCHANGED <<state, late, policy, engineDB, lock, clock>>

\* A request to the Cloud Controller may fail without or after its effect; or its
\* answer does not come in time for the client (30 seconds), and its effect, if
\* there is one, comes when the operation has noted a failure and gone on.
SetAppInstances(w, next) ==
  /\ \/ /\ "SetAppInstances" \in Failing /\ Fail(w)
        /\ \/ UNCHANGED <<instances, late>>
           \/ Resize(w) /\ UNCHANGED late
           \/ late' = late \cup {PutOf(w)} /\ UNCHANGED instances
        /\ UNCHANGED stale
     \/ /\ Resize(w) /\ LearnSize(w) /\ UNCHANGED late
        /\ req' = [req EXCEPT ![w].status = "succeeded"]
        /\ GoTo(w, next)
  /\ UNCHANGED <<state, policy, engineDB, lock, clock>>

PutSchedule(w, s) ==
  activeSchedule' = [activeSchedule EXCEPT ![req[w].app] = s]

PutCooldown(w, expireAt) ==
  cooldown' = [cooldown EXCEPT ![req[w].app] = expireAt]
-----------------------------------------------------------------------------
(* Scale *)

RequestScale(w, a, t) == Accept(w, a, t, "Scale.Lock")

\* mutant: the record's timestamp is left unset.
ScaleLock_NoTimestamp(w) ==
  /\ pc[w] = "Scale.Lock"
  /\ Acquire(w)
  /\ GoTo(w, "Scale.GetApp")
  /\ UNCHANGED req

ScaleLock(w) ==
  /\ pc[w] = "Scale.Lock"
  /\ Acquire(w)
  /\ req' = [req EXCEPT ![w].now = clock]
  /\ GoTo(w, "Scale.GetApp")

ScaleGetApp(w) ==
  LET n == instances[req[w].app]
  IN  /\ pc[w] = "Scale.GetApp"
      /\ \/ "GetApp" \in Failing /\ Fail(w)
         \/ /\ state[req[w].app] = "STARTED"
            /\ req' = [req EXCEPT ![w].old = n]
            /\ GoTo(w, "Scale.CanScaleApp")
         \/ /\ state[req[w].app] # "STARTED"
            /\ Decide(w, n, n, "Return")
      /\ AskSize(w)

\* mutant: the cooldown ends a tick early.
CanScaleApp_AtExpiry(a) == cooldown[a] <= clock

CanScaleApp(a) == cooldown[a] < clock

ScaleCanScaleApp(w) ==
  /\ pc[w] = "Scale.CanScaleApp"
  /\ \/ "CanScaleApp" \in Failing /\ Fail(w)
     \/ /\ ~CanScaleApp(req[w].app)
        /\ Decide(w, req[w].old, req[w].old, "Return")
     \/ /\ CanScaleApp(req[w].app)
        /\ IF req[w].arg.adjustment.unit = "invalid"
           THEN Fail(w)
           ELSE GoTo(w, "Scale.GetActiveSchedule") /\ UNCHANGED req
  /\ ReadOnly

DecideScale(w, limits) ==
  \E wanted \in ComputeNewInstances(req[w].old, req[w].arg.adjustment) :
    Decide(w, req[w].old, Limit(wanted, limits.min, limits.max),
           "Scale.SetAppInstances")

\* mutant: an error of the query is taken for an app without a schedule.
ScaleGetActiveSchedule_ErrorDropped(w) ==
  LET s == activeSchedule[req[w].app]
  IN  /\ pc[w] = "Scale.GetActiveSchedule"
      /\ \/ s # NoSchedule /\ DecideScale(w, s)
         \/ /\ s = NoSchedule \/ "GetActiveSchedule" \in Failing
            /\ GoTo(w, "Scale.GetAppPolicy") /\ UNCHANGED req
      /\ ReadOnly

ScaleGetActiveSchedule(w) ==
  LET s == activeSchedule[req[w].app]
  IN  /\ pc[w] = "Scale.GetActiveSchedule"
      /\ \/ "GetActiveSchedule" \in Failing /\ Fail(w)
         \/ s # NoSchedule /\ DecideScale(w, s)
         \/ s = NoSchedule /\ GoTo(w, "Scale.GetAppPolicy") /\ UNCHANGED req
      /\ ReadOnly

ScaleGetAppPolicy(w) ==
  LET p == policy[req[w].app]
  IN  /\ pc[w] = "Scale.GetAppPolicy"
      /\ \/ "GetAppPolicy" \in Failing /\ Fail(w)
         \/ p # NoPolicy /\ DecideScale(w, p)
         \/ p = NoPolicy /\ Fail(w)
      /\ ReadOnly

ScaleSetAppInstances(w) ==
  /\ pc[w] = "Scale.SetAppInstances"
  /\ SetAppInstances(w, "Scale.DeleteCooldown")

CoolDown(t) == IF t.coolDown <= 0 THEN DefaultCoolDown ELSE t.coolDown

\* The row of scalingcooldown is deleted and inserted anew, in two statements.
\* An error of either is logged; Scale succeeds all the same.
ScaleDeleteCooldown(w) ==
  /\ pc[w] = "Scale.DeleteCooldown"
  /\ \/ /\ "UpdateCooldown" \in Failing
        /\ GoTo(w, "Return")
        /\ PutCooldown(w, 0) \/ UNCHANGED cooldown
     \/ PutCooldown(w, 0) /\ GoTo(w, "Scale.InsertCooldown")
  /\ UNCHANGED <<cf, policy, activeSchedule, lastHistory, lock, req, clock,
                 stale>>

ScaleInsertCooldown(w) ==
  /\ pc[w] = "Scale.InsertCooldown"
  /\ GoTo(w, "Return")
  /\ \/ "UpdateCooldown" \in Failing /\ UNCHANGED cooldown
     \/ PutCooldown(w, req[w].now + CoolDown(req[w].arg))
  /\ UNCHANGED <<cf, policy, activeSchedule, lastHistory, lock, req, clock,
                 stale>>
-----------------------------------------------------------------------------
(* SetActiveSchedule *)

RequestSetActiveSchedule(w, a, s) == Accept(w, a, s, "Set.Lock")

SetLock(w) ==
  /\ pc[w] = "Set.Lock"
  /\ Acquire(w)
  /\ GoTo(w, "Set.GetActiveSchedule")
  /\ UNCHANGED req

IsActive(w) ==
  /\ activeSchedule[req[w].app] # NoSchedule
  /\ activeSchedule[req[w].app].id = req[w].arg.id

\* A schedule that is already active makes the request a duplicate, which
\* succeeds at once.
SetGetActiveSchedule(w) ==
  /\ pc[w] = "Set.GetActiveSchedule"
  /\ \/ "GetActiveSchedule" \in Failing /\ FailEarly(w)
     \/ IsActive(w) /\ GoTo(w, "Unlock") /\ UNCHANGED req
     \/ ~IsActive(w) /\ GoTo(w, "Set.DeleteSchedule") /\ UNCHANGED req
  /\ ReadOnly

SetDeleteSchedule(w) ==
  /\ pc[w] = "Set.DeleteSchedule"
  /\ \/ /\ "SetActiveSchedule" \in Failing /\ FailEarly(w)
        /\ PutSchedule(w, NoSchedule) \/ UNCHANGED activeSchedule
     \/ /\ PutSchedule(w, NoSchedule)
        /\ GoTo(w, "Set.InsertSchedule") /\ UNCHANGED req
  /\ UNCHANGED <<cf, policy, cooldown, lastHistory, lock, clock, stale>>

SetInsertSchedule(w) ==
  /\ pc[w] = "Set.InsertSchedule"
  /\ \/ /\ "SetActiveSchedule" \in Failing /\ FailEarly(w)
        /\ PutSchedule(w, req[w].arg) \/ UNCHANGED activeSchedule
     \/ /\ PutSchedule(w, req[w].arg)
        /\ req' = [req EXCEPT ![w].now = clock]
        /\ GoTo(w, "Set.GetApp")
  /\ UNCHANGED <<cf, policy, cooldown, lastHistory, lock, clock, stale>>

\* mutant: an initial minimum that is not given (0) is used as it is.
InitialMin_AsGiven(s) == s.initial

InitialMin(s) == IF s.min > s.initial THEN s.min ELSE s.initial

SetGetApp(w) ==
  LET n == instances[req[w].app]
      s == req[w].arg
  IN  /\ pc[w] = "Set.GetApp"
      /\ \/ "GetApp" \in Failing /\ Fail(w)
         \/ Decide(w, n, Limit(n, InitialMin(s), s.max), "Set.SetAppInstances")
      /\ AskSize(w)

SetSetAppInstances(w) ==
  /\ pc[w] = "Set.SetAppInstances"
  /\ SetAppInstances(w, "Return")
-----------------------------------------------------------------------------
(* RemoveActiveSchedule *)

RequestRemoveActiveSchedule(w, a, s) == Accept(w, a, s, "Remove.Lock")

RemoveLock(w) ==
  /\ pc[w] = "Remove.Lock"
  /\ Acquire(w)
  /\ GoTo(w, "Remove.GetActiveSchedule")
  /\ UNCHANGED req

\* The answer is ActiveScheduleNotFoundError unless this schedule is active.
RemoveGetActiveSchedule(w) ==
  /\ pc[w] = "Remove.GetActiveSchedule"
  /\ \/ ("GetActiveSchedule" \in Failing \/ ~IsActive(w)) /\ FailEarly(w)
     \/ IsActive(w) /\ GoTo(w, "Remove.DeleteSchedule") /\ UNCHANGED req
  /\ ReadOnly

RemoveDeleteSchedule(w) ==
  /\ pc[w] = "Remove.DeleteSchedule"
  /\ \/ /\ "RemoveActiveSchedule" \in Failing /\ FailEarly(w)
        /\ PutSchedule(w, NoSchedule) \/ UNCHANGED activeSchedule
     \/ /\ PutSchedule(w, NoSchedule)
        /\ req' = [req EXCEPT ![w].now = clock]
        /\ GoTo(w, "Remove.GetApp")
  /\ UNCHANGED <<cf, policy, cooldown, lastHistory, lock, clock, stale>>

RemoveGetApp(w) ==
  /\ pc[w] = "Remove.GetApp"
  /\ \/ "GetApp" \in Failing /\ Fail(w)
     \/ /\ req' = [req EXCEPT ![w].old = instances[req[w].app]]
        /\ GoTo(w, "Remove.GetAppPolicy")
  /\ AskSize(w)

RemoveGetAppPolicy(w) ==
  LET p == policy[req[w].app]
      n == req[w].old
  IN  /\ pc[w] = "Remove.GetAppPolicy"
      /\ \/ "GetAppPolicy" \in Failing /\ Fail(w)
         \/ p = NoPolicy /\ Finish(w, "ignored")
         \/ /\ p # NoPolicy
            /\ Decide(w, n, Limit(n, p.min, p.max), "Remove.SetAppInstances")
      /\ ReadOnly

RemoveSetAppInstances(w) ==
  /\ pc[w] = "Remove.SetAppInstances"
  /\ SetAppInstances(w, "Return")
-----------------------------------------------------------------------------
(* The end of every operation: its deferred calls, last in first out. *)

Release(w) ==
  /\ lock' = [lock EXCEPT ![MutexOf(w)] = NoWorker]
  /\ GoTo(w, "idle")
  /\ req' = [req EXCEPT ![w] = NoRequest]
  /\ UNCHANGED <<cf, policy, activeSchedule, cooldown, clock, stale>>

HistoryOf(w) == [ time |-> req[w].now, status |-> req[w].status,
                  old |-> req[w].old, new |-> req[w].new ]

Return(w) ==
  /\ pc[w] = "Return"
  /\ \/ "SaveScalingHistory" \in Failing /\ UNCHANGED lastHistory
     \/ lastHistory' = [lastHistory EXCEPT ![req[w].app] = HistoryOf(w)]
  /\ Release(w)

\* mutant: an early return forgets the mutex.
Unlock_Leaks(w) ==
  /\ pc[w] = "Unlock"
  /\ GoTo(w, "idle")
  /\ req' = [req EXCEPT ![w] = NoRequest]
  /\ UNCHANGED <<cf, policy, engineDB, lock, clock, stale>>

Unlock(w) ==
  /\ pc[w] = "Unlock"
  /\ Release(w)
  /\ UNCHANGED lastHistory

\* The process dies and is started again: the mutexes are new ones.  Requests to
\* resize an app may be under way.
Crash ==
  /\ "Crash" \in Failing
  /\ \E W \in SUBSET {w \in Worker : pc[w] \in ResizeLabels} :
       late' = late \cup {PutOf(w) : w \in W}
  /\ lock' = [m \in Stripe |-> NoWorker]
  /\ pc' = [w \in Worker |-> "idle"]
  /\ req' = [w \in Worker |-> NoRequest]
  /\ UNCHANGED <<instances, state, policy, engineDB, clock, stale>>
-----------------------------------------------------------------------------
(* The world around the engine *)

StartOrStopApp(a) ==
  /\ state' = [state EXCEPT ![a] = IF @ = "STARTED" THEN "STOPPED"
                                                   ELSE "STARTED"]
  /\ UNCHANGED <<instances, late, policy, engineDB, lock, pc, req, clock,
                 stale>>

\* a has n instances, and it was not the holder of the mutex who wanted it.
ResizeUnseen(a, n) ==
  /\ instances' = [instances EXCEPT ![a] = n]
  /\ stale' = stale \cup {a}
  /\ UNCHANGED <<state, policy, engineDB, lock, pc, req, clock>>

ResizeByHand(a, n) == ResizeUnseen(a, n) /\ UNCHANGED late

\* A late request takes effect, or never does.  There may be several alike.
ResizeLate(p) ==
  /\ ResizeUnseen(p.app, p.new)
  /\ late' \in {late, late \ {p}}

ChangePolicy(a, p) ==
  /\ policy' = [policy EXCEPT ![a] = p]
  /\ UNCHANGED <<cf, engineDB, lock, pc, req, clock, stale>>

Tick ==
  /\ clock < MaxTime
  /\ clock' = clock + 1
  /\ UNCHANGED <<cf, policy, engineDB, lock, pc, req, stale>>

Environment ==
  \/ \E a \in App :
       \/ StartOrStopApp(a)
       \/ \E n \in ManualSizes : ResizeByHand(a, n)
       \/ \E p \in Policies \cup {NoPolicy} : ChangePolicy(a, p)
  \/ \E p \in late : ResizeLate(p)
  \/ Tick
-----------------------------------------------------------------------------
ReceiveRequest(w) ==
  \E a \in App :
    \/ \E t \in Triggers : RequestScale(w, a, t)
    \/ \E s \in Schedules : RequestSetActiveSchedule(w, a, s)
    \/ \E s \in Schedules : RequestRemoveActiveSchedule(w, a, s)

Lock(w) == ScaleLock(w) \/ SetLock(w) \/ RemoveLock(w)

Resizing(w) ==
  ScaleSetAppInstances(w) \/ SetSetAppInstances(w) \/ RemoveSetAppInstances(w)

Work(w) ==
  \/ ScaleGetApp(w) \/ ScaleCanScaleApp(w) \/ ScaleGetActiveSchedule(w)
  \/ ScaleGetAppPolicy(w) \/ ScaleDeleteCooldown(w) \/ ScaleInsertCooldown(w)
  \/ SetGetActiveSchedule(w) \/ SetDeleteSchedule(w) \/ SetInsertSchedule(w)
  \/ SetGetApp(w)
  \/ RemoveGetActiveSchedule(w) \/ RemoveDeleteSchedule(w) \/ RemoveGetApp(w)
  \/ RemoveGetAppPolicy(w)
  \/ Resizing(w) \/ Return(w) \/ Unlock(w)

Next ==
  \/ \E w \in Worker : ReceiveRequest(w) \/ Lock(w) \/ Work(w)
  \/ Crash
  \/ Environment

Spec == Init /\ [][Next]_vars

\* Calls return (the HTTP client and the databases time out), and sync.Mutex
\* hands itself to a goroutine that has waited for a millisecond: nobody waits
\* for ever while others take turns.
Fairness == \A w \in Worker : WF_vars(Work(w)) /\ SF_vars(Lock(w))

FairSpec == Spec /\ Fairness
-----------------------------------------------------------------------------
(* Properties *)

\* Two requests for one app never interleave: between its Lock and its Unlock
\* an operation is alone with the app, whatever apps share its mutex.
AppExclusion ==
  \A v, w \in Worker :
    /\ pc[v] \in Holding /\ pc[w] \in Holding
    /\ req[v].app = req[w].app
    => v = w

\* Worker w's call changes the size of its app in this step.
ResizesApp(w) ==
  /\ pc[w] \in ResizeLabels /\ pc'[w] # pc[w]
  /\ instances' # instances

\* Dynamic scaling respects the cooldown at the moment it resizes the app, not
\* only when CanScaleApp was asked: no other operation starts a cooldown between
\* the check and the call.
CooldownHolds ==
  [][ \A w \in Worker :
        ResizesApp(w) /\ pc[w] = "Scale.SetAppInstances"
          => cooldown[req[w].app] < clock ]_vars

\* Whatever the operation, an app that has an active schedule is only resized to
\* a number within the limits of that schedule.
ScheduleLimitsHold ==
  [][ \A w \in Worker :
        LET s == activeSchedule[req[w].app]
        IN  ResizesApp(w) /\ s # NoSchedule
              => instances'[req[w].app] \in s.min .. s.max ]_vars

\* The history of an app is written in the order of its timestamps: a reader of
\* the last row reads the last thing that happened.
HistoryInOrder ==
  [][ \A a \in App : lastHistory'[a].time >= lastHistory[a].time ]_vars

Busy(a) == \E w \in Worker : pc[w] \in Holding /\ req[w].app = a

\* When nobody works on an app, a last history row that names a final number of
\* instances without an error names the number the app has, whatever failed
\* before; unless somebody else, a user or a late request, has resized the app
\* since an operation was told its size or set it.  (For an engine that does not
\* crash, and rows that are saved.)
HistoryMatchesApp ==
  \A a \in App :
    LET row == lastHistory[a]
    IN  /\ ~Busy(a) /\ a \notin stale
        /\ row.status \in {"succeeded", "ignored"} /\ row.new # -1
        => row.new = instances[a]

Applied(w) ==
  LET s == req[w].arg
  IN  /\ req[w].err = "nil" /\ s \in Schedules /\ IsActive(w)
      /\ req[w].app \notin stale
      => instances[req[w].app] \in s.min .. s.max

\* When a request that made a schedule the active one returns without an error,
\* the app is within the limits of the schedule, whatever came between its calls;
\* unless somebody else, a user or a late request, has resized the app since the
\* operation was told its size or set it.
StartIsApplied == \A w \in Worker : pc[w] = "Return" => Applied(w)

\* What the documentation promises of every request to start a schedule that
\* succeeds, those included that are answered at once because the schedule is
\* active already.
ScheduleIsApplied ==
  \A w \in Worker : pc[w] \in {"Return", "Unlock"} => Applied(w)

\* A request that waits for the mutex of its app is answered in the end, by
\* whatever paths the requests before it return.
RequestsAreAnswered ==
  \A w \in Worker : pc[w] \in Waiting ~> pc[w] = "idle"
-----------------------------------------------------------------------------
(* The inductive invariant behind AppExclusion, CooldownHolds and            *)
(* ScheduleLimitsHold                                                         *)

\* A worker between Lock and Unlock holds the mutex of its app.
MutexHeld ==
  \A w \in Worker : pc[w] \in Holding => lock[MutexOf(w)] = w

\* Once CanScaleApp has said yes, the cooldown stays expired until the app is
\* resized: who could start another one has to hold the mutex.
CooldownChecked ==
  \A w \in Worker :
    pc[w] \in { "Scale.GetActiveSchedule", "Scale.GetAppPolicy",
                "Scale.SetAppInstances" }
      => cooldown[req[w].app] < clock

\* What a worker has learnt about the active schedule of its app stays true.
ScheduleKnown ==
  \A w \in Worker :
    LET s == activeSchedule[req[w].app]
    IN  /\ pc[w] \in { "Scale.GetAppPolicy", "Remove.GetApp",
                       "Remove.GetAppPolicy", "Remove.SetAppInstances" }
             => s = NoSchedule
        /\ pc[w] \in {"Set.GetApp", "Set.SetAppInstances"} => s = req[w].arg
        /\ pc[w] \in ResizeLabels /\ s # NoSchedule
             => req[w].new \in s.min .. s.max

\* What the workers know of the mutexes, the cooldowns and the schedules while
\* they hold their mutexes: the inductive invariant of the engine.
EngineInvariant == MutexHeld /\ CooldownChecked /\ ScheduleKnown
-----------------------------------------------------------------------------
(* The inductive invariant behind HistoryInOrder, HistoryMatchesApp and       *)
(* StartIsApplied: what a worker's history record says of the app.            *)

\* Every operation leaves its history row.
Recorded == {"SaveScalingHistory", "Crash"} \cap Failing = {}

\* Where an operation has a timestamp, knows the size of its app, has done with
\* the app, and, having asked for the size, will leave a row.
Stamped == (ScaleLabels \ {"Scale.Lock"}) \cup
             { "Set.GetApp", "Set.SetAppInstances", "Remove.GetApp",
               "Remove.GetAppPolicy", "Remove.SetAppInstances", "Return" }
Sized   == { "Scale.CanScaleApp", "Scale.GetActiveSchedule",
             "Scale.GetAppPolicy", "Remove.GetAppPolicy" }
Resized == {"Scale.DeleteCooldown", "Scale.InsertCooldown", "Return"}
Leaving == Sized \cup ResizeLabels \cup Resized

\* A record that names a final number of instances without an error.
Names(record) == record.status \in {"succeeded", "ignored"} /\ record.new # -1

\* The record of an operation in progress.
RecordIsTrue(w) ==
  LET a == req[w].app
      s == req[w].arg
  IN  /\ pc[w] \in Stamped
           => lastHistory[a].time <= req[w].now /\ req[w].now <= clock
      /\ pc[w] \in RemoveLabels \ {"Remove.SetAppInstances"} => req[w].new = -1
      /\ pc[w] \in Sized /\ a \notin stale => req[w].old = instances[a]
      /\ pc[w] \in Resized /\ a \notin stale /\ Names(req[w])
           => req[w].new = instances[a]
      /\ /\ pc[w] = "Return" /\ req[w].err = "nil" /\ s \in Schedules
         /\ activeSchedule[a] # NoSchedule /\ a \notin stale
         => activeSchedule[a] = s /\ instances[a] \in s.min .. s.max

\* The last row of an app, or else the row that is about to follow it.
RowIsTrue(a) ==
  /\ lastHistory[a].time <= clock
  /\ Recorded => \/ a \notin stale /\ Names(lastHistory[a])
                      => lastHistory[a].new = instances[a]
                 \/ \E w \in Worker : pc[w] \in Leaving /\ req[w].app = a

\* What the rows of the history and the records of the operations in progress
\* say of the apps is so.
RecordInvariant ==
  /\ \A w \in Worker : RecordIsTrue(w)
  /\ \A a \in App : RowIsTrue(a)
=============================================================================
