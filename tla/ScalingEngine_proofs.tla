------------------------ MODULE ScalingEngine_proofs ------------------------
(***************************************************************************)
(* Proofs about ScalingEngine, for any sets of apps, workers, mutexes,     *)
(* schedules, policies and triggers, any hash of apps to mutexes and any   *)
(* set of failing calls.                                                   *)
(***************************************************************************)
EXTENDS ScalingEngine, Adjustment_proofs

\* The initial states are of the right types.
LEMMA InitTypeOK == Init => TypeOK
<1> SUFFICES ASSUME Init PROVE TypeOK
  OBVIOUS
<1>1. instances \in [App -> Nat] /\ policy \in [App -> Policies \cup {NoPolicy}]
  <2>1. InitialSizes \subseteq Nat
    BY InputsAssumption
  <2> QED
    BY <2>1 DEF Init
<1>2. lastHistory \in [App -> HistoryRow]
  BY DEF Init, NoRow, HistoryRow, Status
<1> QED
  BY <1>1, <1>2 DEF Init, TypeOK, Labels, ScaleLabels, SetLabels,
                    RemoveLabels, ResizeLabels

(***************************************************************************)
(* Limits chosen by the handlers are natural numbers.                      *)
(***************************************************************************)
LEMMA LimitNat ==
  ASSUME NEW n \in Int, NEW lo \in Nat, NEW hi \in Nat, lo <= hi
  PROVE  Limit(n, lo, hi) \in Nat
BY LimitWithin

\* The limits of a schedule are numbers, in order.
LEMMA ScheduleType ==
  ASSUME NEW s \in Schedules
  PROVE  s.min \in Nat /\ s.max \in Nat /\ s.initial \in Nat /\ s.min <= s.max
         /\ s.initial <= s.max
BY LimitsAssumption

\* The limits of a policy are numbers, in order.
LEMMA PolicyType ==
  ASSUME NEW p \in Policies
  PROVE  p.min \in Nat /\ p.max \in Nat /\ p.min <= p.max
BY LimitsAssumption

\* The number of instances a schedule starts with lies within its limits.
LEMMA InitialMinWithin ==
  ASSUME NEW s \in Schedules
  PROVE  InitialMin(s) \in Nat /\ s.min <= InitialMin(s) /\ InitialMin(s) <= s.max
BY ScheduleType DEF InitialMin

\* Whatever is asked for, the limited number lies within the limits of a schedule.
LEMMA LimitOfSchedule ==
  ASSUME NEW n \in Int, NEW s \in Schedules
  PROVE  /\ Limit(n, InitialMin(s), s.max) \in Nat
         /\ Limit(n, InitialMin(s), s.max) \in s.min .. s.max
<1>1. InitialMin(s) \in Nat /\ s.max \in Nat /\ InitialMin(s) <= s.max
  BY ScheduleType, InitialMinWithin
<1>2. Limit(n, InitialMin(s), s.max) \in InitialMin(s) .. s.max
  BY <1>1, LimitWithin
<1> QED
  BY <1>1, <1>2, ScheduleType, InitialMinWithin

\* A trigger has an adjustment and a cooldown.
LEMMA TriggerType ==
  ASSUME NEW t \in Triggers
  PROVE  /\ t.adjustment.unit \in AdjustmentUnit /\ t.adjustment.value \in Int
         /\ t.coolDown \in Int
BY InputsAssumption

(***************************************************************************)
(* The parts of the handlers.                                              *)
(***************************************************************************)
\* A step of worker w that leaves it at label l with the locals r.
LEMMA WorkerTypeOK ==
  ASSUME TypeOK, NEW w \in Worker, NEW l \in Labels, NEW r \in Request,
         l \in ScaleLabels => r.arg \in Triggers,
         l \in SetLabels \cup RemoveLabels => r.arg \in Schedules,
         l \in ResizeLabels => r.new \in Nat,
         pc' = [pc EXCEPT ![w] = l], req' = [req EXCEPT ![w] = r],
         instances' \in [App -> Nat], late' \subseteq Put, stale' \subseteq App,
         UNCHANGED <<state, policy, engineDB, lock, clock>>
  PROVE  TypeOK'
BY DEF TypeOK, engineDB

\* What a step that only reads does to the types: it may learn the size of an app.
LEMMA ReadsTypes ==
  ASSUME TypeOK, NEW w \in Worker, ReadOnly \/ AskSize(w)
  PROVE  /\ Reads /\ UNCHANGED <<state, policy, engineDB, lock, clock>>
         /\ instances' \in [App -> Nat] /\ late' \subseteq Put
         /\ stale' \subseteq App
BY DEF ReadOnly, AskSize, LearnSize, Reads, cf, TypeOK

\* Decide preserves the types.
LEMMA DecideTypeOK ==
  ASSUME TypeOK, NEW w \in Worker, pc[w] # "idle",
         NEW old \in Int, NEW n \in Int, NEW label \in ResizeLabels \cup {"Return"},
         label \in ResizeLabels => n \in Nat,
         label \in ScaleLabels => req[w].arg \in Triggers,
         label \in SetLabels \cup RemoveLabels => req[w].arg \in Schedules,
         Decide(w, old, n, label), ReadOnly \/ AskSize(w)
  PROVE  TypeOK'
<1> DEFINE r == [req[w] EXCEPT !.old = old, !.new = n, !.status = "ignored"]
           q == [req[w] EXCEPT !.old = old, !.new = n]
<1>1. req[w] \in Request /\ req \in [Worker -> Request \cup {NoRequest}]
  BY DEF TypeOK
<1>2. r \in Request /\ r.arg = req[w].arg /\ r.new = n
  BY <1>1 DEF Request, Status
<1>3. q \in Request /\ q.arg = req[w].arg /\ q.new = n
  BY <1>1 DEF Request
<1>4. /\ instances' \in [App -> Nat] /\ late' \subseteq Put /\ stale' \subseteq App
      /\ UNCHANGED <<state, policy, engineDB, lock, clock>>
  BY ReadsTypes
<1>5. CASE n = old
  <2>1. pc' = [pc EXCEPT ![w] = "Return"] /\ req' = [req EXCEPT ![w] = r]
    BY <1>5, <1>1 DEF Decide, GoTo
  <2> HIDE DEF r, q
  <2> QED
    BY <2>1, <1>2, <1>4, WorkerTypeOK
       DEF Labels, ScaleLabels, SetLabels, RemoveLabels, ResizeLabels
<1>6. CASE n # old
  <2>1. pc' = [pc EXCEPT ![w] = label] /\ req' = [req EXCEPT ![w] = q]
    BY <1>6, <1>1 DEF Decide, GoTo
  <2>2. label \in Labels
    BY DEF Labels, ScaleLabels, SetLabels, RemoveLabels, ResizeLabels
  <2> HIDE DEF r, q
  <2> QED
    BY <2>1, <2>2, <1>3, <1>4, WorkerTypeOK
<1> QED
  BY <1>5, <1>6

\* Fail preserves the types.
LEMMA FailTypeOK ==
  ASSUME TypeOK, NEW w \in Worker, pc[w] # "idle", Fail(w),
         instances' \in [App -> Nat], late' \subseteq Put, stale' \subseteq App,
         UNCHANGED <<state, policy, engineDB, lock, clock>>
  PROVE  TypeOK'
<1> DEFINE r == [req[w] EXCEPT !.status = "failed", !.err = "error"]
<1>1. req[w] \in Request /\ req \in [Worker -> Request \cup {NoRequest}]
  BY DEF TypeOK
<1>2. r \in Request
  BY <1>1 DEF Request, Status
<1>3. pc' = [pc EXCEPT ![w] = "Return"] /\ req' = [req EXCEPT ![w] = r]
  BY <1>1 DEF Fail, GoTo
<1> HIDE DEF r
<1> QED
  BY <1>2, <1>3, WorkerTypeOK
     DEF Labels, ScaleLabels, SetLabels, RemoveLabels, ResizeLabels

\* FailEarly preserves the types.
LEMMA FailEarlyTypeOK ==
  ASSUME TypeOK, NEW w \in Worker, pc[w] # "idle", FailEarly(w), ReadOnly
  PROVE  TypeOK'
BY DEF FailEarly, ReadOnly, Reads, GoTo, cf, engineDB, TypeOK, Request, Status, Labels, ScaleLabels, SetLabels, RemoveLabels, ResizeLabels

\* SetAppInstances preserves the types.
LEMMA SetAppInstancesTypeOK ==
  ASSUME TypeOK, NEW w \in Worker, pc[w] \in ResizeLabels,
         NEW next \in {"Scale.DeleteCooldown", "Return"},
         next \in ScaleLabels => req[w].arg \in Triggers,
         SetAppInstances(w, next)
  PROVE  TypeOK'
<1> USE DEF SetAppInstances
<1>1. pc[w] # "idle" /\ UNCHANGED <<state, policy, engineDB, lock, clock>>
  BY DEF ResizeLabels
<1>2. /\ instances' \in [App -> Nat] /\ late' \subseteq Put
      /\ stale' \subseteq App
  <2>1. req[w].new \in Nat /\ req[w].app \in App
    BY <1>1 DEF TypeOK, Request
  <2>2. PutOf(w) \in Put
    BY <2>1 DEF PutOf, Put
  <2> QED
    BY <2>1, <2>2 DEF Resize, LearnSize, TypeOK
<1>3. CASE Fail(w)
  BY <1>1, <1>2, <1>3, FailTypeOK
<1>4. CASE req' = [req EXCEPT ![w].status = "succeeded"] /\ GoTo(w, next)
  BY <1>1, <1>2, <1>4
     DEF GoTo, engineDB, TypeOK, Request, Status, Labels, ScaleLabels,
         SetLabels, RemoveLabels, ResizeLabels
<1> QED
  BY <1>3, <1>4

\* Release preserves the types.
LEMMA ReleaseTypeOK ==
  ASSUME TypeOK, NEW w \in Worker, pc[w] # "idle", Release(w),
         lastHistory' \in [App -> HistoryRow]
  PROVE  TypeOK'
BY LocksAssumption DEF Release, MutexOf, GoTo, cf, engineDB, TypeOK, Request, Status, Labels, ScaleLabels, SetLabels, RemoveLabels, ResizeLabels

\* ScaleLock preserves the types.
LEMMA ScaleLockTypeOK ==
  ASSUME TypeOK, NEW w \in Worker, ScaleLock(w)
  PROVE  TypeOK'
BY LocksAssumption DEF ScaleLock, Acquire, GoTo, MutexOf, TypeOK, Request, Status, Labels, ScaleLabels, SetLabels, RemoveLabels, ResizeLabels, cf, engineDB

\* SetLock preserves the types.
LEMMA SetLockTypeOK ==
  ASSUME TypeOK, NEW w \in Worker, SetLock(w)
  PROVE  TypeOK'
BY LocksAssumption DEF SetLock, Acquire, GoTo, MutexOf, TypeOK, Request, Status, Labels, ScaleLabels, SetLabels, RemoveLabels, ResizeLabels, cf, engineDB

\* RemoveLock preserves the types.
LEMMA RemoveLockTypeOK ==
  ASSUME TypeOK, NEW w \in Worker, RemoveLock(w)
  PROVE  TypeOK'
BY LocksAssumption DEF RemoveLock, Acquire, GoTo, MutexOf, TypeOK, Request, Status, Labels, ScaleLabels, SetLabels, RemoveLabels, ResizeLabels, cf, engineDB

\* ScaleDeleteCooldown preserves the types.
LEMMA ScaleDeleteCooldownTypeOK ==
  ASSUME TypeOK, NEW w \in Worker, ScaleDeleteCooldown(w)
  PROVE  TypeOK'
BY DEF ScaleDeleteCooldown, PutCooldown, GoTo, TypeOK, Request, Status, Labels, ScaleLabels, SetLabels, RemoveLabels, ResizeLabels, cf, engineDB

\* SetDeleteSchedule preserves the types.
LEMMA SetDeleteScheduleTypeOK ==
  ASSUME TypeOK, NEW w \in Worker, SetDeleteSchedule(w)
  PROVE  TypeOK'
BY DEF SetDeleteSchedule, PutSchedule, GoTo, FailEarly, TypeOK, Request, Status, Labels, ScaleLabels, SetLabels, RemoveLabels, ResizeLabels, cf, engineDB

\* SetInsertSchedule preserves the types.
LEMMA SetInsertScheduleTypeOK ==
  ASSUME TypeOK, NEW w \in Worker, SetInsertSchedule(w)
  PROVE  TypeOK'
BY DEF SetInsertSchedule, PutSchedule, GoTo, FailEarly, TypeOK, Request, Status, Labels, ScaleLabels, SetLabels, RemoveLabels, ResizeLabels, cf, engineDB

\* RemoveDeleteSchedule preserves the types.
LEMMA RemoveDeleteScheduleTypeOK ==
  ASSUME TypeOK, NEW w \in Worker, RemoveDeleteSchedule(w)
  PROVE  TypeOK'
BY DEF RemoveDeleteSchedule, PutSchedule, GoTo, FailEarly, TypeOK, Request, Status, Labels, ScaleLabels, SetLabels, RemoveLabels, ResizeLabels, cf, engineDB

\* ScaleInsertCooldown preserves the types.
LEMMA ScaleInsertCooldownTypeOK ==
  ASSUME TypeOK, NEW w \in Worker, ScaleInsertCooldown(w)
  PROVE  TypeOK'
<1>1. req[w] \in Request /\ req[w].arg \in Triggers
  BY DEF ScaleInsertCooldown, TypeOK, ScaleLabels
<1>2. req[w].now + CoolDown(req[w].arg) \in Nat
  BY <1>1, TriggerType, InputsAssumption DEF CoolDown, Request
<1> QED
  BY <1>2 DEF ScaleInsertCooldown, PutCooldown, GoTo, cf, engineDB, TypeOK, Request, Status, Labels, ScaleLabels, SetLabels, RemoveLabels, ResizeLabels

(***************************************************************************)
(* The actions, one lemma each.                                            *)
(***************************************************************************)

\* A request that arrives is well typed, whatever its operation.
LEMMA AcceptTypeOK ==
  ASSUME TypeOK, NEW w \in Worker, NEW a \in App, NEW arg, NEW label,
         \/ arg \in Triggers /\ label = "Scale.Lock"
         \/ arg \in Schedules /\ label \in {"Set.Lock", "Remove.Lock"},
         Accept(w, a, arg, label)
  PROVE  TypeOK'
<1> DEFINE r == [ app |-> a, arg |-> arg, now |-> 0, old |-> -1, new |-> -1,
                  status |-> "none", err |-> "nil" ]
<1>1. r \in Request /\ r.arg = arg
  BY DEF Request, Status
<1>2. /\ pc' = [pc EXCEPT ![w] = label] /\ req' = [req EXCEPT ![w] = r]
      /\ instances' \in [App -> Nat] /\ late' \subseteq Put
      /\ stale' \subseteq App
      /\ UNCHANGED <<state, policy, engineDB, lock, clock>>
  BY DEF Accept, GoTo, cf, TypeOK
<1> HIDE DEF r
<1> QED
  BY <1>1, <1>2, WorkerTypeOK
     DEF Labels, ScaleLabels, SetLabels, RemoveLabels, ResizeLabels

\* ScaleGetApp preserves the types.
LEMMA ScaleGetAppTypeOK ==
  ASSUME TypeOK, NEW w \in Worker, ScaleGetApp(w)
  PROVE  TypeOK'
<1> DEFINE n == instances[req[w].app]
<1>1. /\ pc[w] = "Scale.GetApp" /\ req[w] \in Request
      /\ req[w].arg \in Triggers /\ n \in Nat /\ AskSize(w)
  BY DEF ScaleGetApp, TypeOK, ScaleLabels, Request
<1>2. CASE Fail(w)
  BY <1>1, <1>2, FailTypeOK, ReadsTypes
<1>3. CASE req' = [req EXCEPT ![w].old = n] /\ GoTo(w, "Scale.CanScaleApp")
  BY <1>1, <1>3 DEF GoTo, AskSize, LearnSize, Reads, cf, engineDB, TypeOK, Request, Labels,
                    ScaleLabels, SetLabels, RemoveLabels, ResizeLabels
<1>4. CASE Decide(w, n, n, "Return")
  BY <1>1, <1>4, DecideTypeOK DEF ResizeLabels, ScaleLabels, SetLabels, RemoveLabels
<1> QED
  BY <1>2, <1>3, <1>4 DEF ScaleGetApp

\* ScaleCanScaleApp preserves the types.
LEMMA ScaleCanScaleAppTypeOK ==
  ASSUME TypeOK, NEW w \in Worker, ScaleCanScaleApp(w)
  PROVE  TypeOK'
<1>1. /\ pc[w] = "Scale.CanScaleApp" /\ req[w] \in Request
      /\ req[w].arg \in Triggers /\ ReadOnly
  BY DEF ScaleCanScaleApp, TypeOK, ScaleLabels
<1>2. CASE Fail(w)
  BY <1>1, <1>2, FailTypeOK, ReadsTypes
<1>3. CASE Decide(w, req[w].old, req[w].old, "Return")
  BY <1>1, <1>3, DecideTypeOK
     DEF Request, ResizeLabels, ScaleLabels, SetLabels, RemoveLabels
<1>4. CASE GoTo(w, "Scale.GetActiveSchedule") /\ UNCHANGED req
  BY <1>1, <1>4 DEF GoTo, ReadOnly, Reads, cf, engineDB, TypeOK, Labels,
                    ScaleLabels, SetLabels, RemoveLabels, ResizeLabels
<1> QED
  BY <1>2, <1>3, <1>4 DEF ScaleCanScaleApp

\* DecideScale preserves the types.
LEMMA DecideScaleTypeOK ==
  ASSUME TypeOK, NEW w \in Worker, pc[w] \in ScaleLabels, NEW limits,
         limits.min \in Nat, limits.max \in Nat, limits.min <= limits.max,
         DecideScale(w, limits), ReadOnly
  PROVE  TypeOK'
<1>1. req[w] \in Request /\ req[w].arg \in Triggers /\ pc[w] # "idle"
  BY DEF TypeOK, ScaleLabels
<1>2. PICK wanted \in ComputeNewInstances(req[w].old, req[w].arg.adjustment) :
             Decide(w, req[w].old, Limit(wanted, limits.min, limits.max),
                    "Scale.SetAppInstances")
  BY DEF DecideScale
<1>3. wanted \in Int
  BY <1>1, TriggerType, ComputeNewInstancesInt DEF Request
<1>4. Limit(wanted, limits.min, limits.max) \in Nat
  BY <1>3, LimitNat
<1> QED
  BY <1>1, <1>2, <1>4, DecideTypeOK
     DEF DecideScale, Request, ResizeLabels, SetLabels, RemoveLabels

\* ScaleGetActiveSchedule preserves the types.
LEMMA ScaleGetActiveScheduleTypeOK ==
  ASSUME TypeOK, NEW w \in Worker, ScaleGetActiveSchedule(w)
  PROVE  TypeOK'
<1> DEFINE s == activeSchedule[req[w].app]
<1>1. /\ pc[w] \in ScaleLabels /\ pc[w] # "idle" /\ req[w] \in Request
      /\ req[w].arg \in Triggers /\ s \in Schedules \cup {NoSchedule} /\ ReadOnly
  BY DEF ScaleGetActiveSchedule, TypeOK, ScaleLabels, Request
<1>2. CASE Fail(w)
  BY <1>1, <1>2, FailTypeOK, ReadsTypes
<1>3. CASE s # NoSchedule /\ DecideScale(w, s)
  BY <1>1, <1>3, ScheduleType, DecideScaleTypeOK
<1>4. CASE GoTo(w, "Scale.GetAppPolicy") /\ UNCHANGED req
  BY <1>1, <1>4 DEF GoTo, ReadOnly, Reads, cf, engineDB, TypeOK, Labels,
                    ScaleLabels, SetLabels, RemoveLabels, ResizeLabels
<1> QED
  BY <1>2, <1>3, <1>4 DEF ScaleGetActiveSchedule

\* ScaleGetAppPolicy preserves the types.
LEMMA ScaleGetAppPolicyTypeOK ==
  ASSUME TypeOK, NEW w \in Worker, ScaleGetAppPolicy(w)
  PROVE  TypeOK'
<1> DEFINE p == policy[req[w].app]
<1>1. /\ pc[w] \in ScaleLabels /\ pc[w] # "idle" /\ req[w] \in Request
      /\ p \in Policies \cup {NoPolicy} /\ ReadOnly
  BY DEF ScaleGetAppPolicy, TypeOK, ScaleLabels, Request
<1>2. CASE Fail(w)
  BY <1>1, <1>2, FailTypeOK, ReadsTypes
<1>3. CASE p # NoPolicy /\ DecideScale(w, p)
  BY <1>1, <1>3, PolicyType, DecideScaleTypeOK
<1> QED
  BY <1>2, <1>3 DEF ScaleGetAppPolicy

\* ScaleSetAppInstances preserves the types.
LEMMA ScaleSetAppInstancesTypeOK ==
  ASSUME TypeOK, NEW w \in Worker, ScaleSetAppInstances(w)
  PROVE  TypeOK'
<1>1. pc[w] \in ResizeLabels /\ req[w].arg \in Triggers
  BY DEF ScaleSetAppInstances, TypeOK, ScaleLabels, ResizeLabels
<1> QED
  BY <1>1, SetAppInstancesTypeOK DEF ScaleSetAppInstances

\* SetGetActiveSchedule preserves the types.
LEMMA SetGetActiveScheduleTypeOK ==
  ASSUME TypeOK, NEW w \in Worker, SetGetActiveSchedule(w)
  PROVE  TypeOK'
<1>1. /\ pc[w] = "Set.GetActiveSchedule" /\ req[w] \in Request
      /\ req[w].arg \in Schedules /\ ReadOnly
  BY DEF SetGetActiveSchedule, TypeOK, SetLabels
<1>2. CASE FailEarly(w)
  BY <1>1, <1>2, FailEarlyTypeOK
<1>3. CASE (GoTo(w, "Unlock") \/ GoTo(w, "Set.DeleteSchedule")) /\ UNCHANGED req
  BY <1>1, <1>3 DEF GoTo, ReadOnly, Reads, cf, engineDB, TypeOK, Labels,
                    ScaleLabels, SetLabels, RemoveLabels, ResizeLabels
<1> QED
  BY <1>1, <1>2, <1>3 DEF SetGetActiveSchedule

\* SetGetApp preserves the types.
LEMMA SetGetAppTypeOK ==
  ASSUME TypeOK, NEW w \in Worker, SetGetApp(w)
  PROVE  TypeOK'
<1> DEFINE n == instances[req[w].app]
           s == req[w].arg
<1>1. /\ pc[w] = "Set.GetApp" /\ req[w] \in Request /\ s \in Schedules
      /\ n \in Nat /\ AskSize(w)
  BY DEF SetGetApp, TypeOK, SetLabels, Request
<1>2. CASE Fail(w)
  BY <1>1, <1>2, FailTypeOK, ReadsTypes
<1>3. CASE Decide(w, n, Limit(n, InitialMin(s), s.max), "Set.SetAppInstances")
  <2>1. Limit(n, InitialMin(s), s.max) \in Nat
    BY <1>1, LimitOfSchedule
  <2> QED
    BY <1>1, <1>3, <2>1, DecideTypeOK
       DEF ResizeLabels, ScaleLabels
<1> QED
  BY <1>2, <1>3 DEF SetGetApp

\* SetSetAppInstances preserves the types.
LEMMA SetSetAppInstancesTypeOK ==
  ASSUME TypeOK, NEW w \in Worker, SetSetAppInstances(w)
  PROVE  TypeOK'
BY SetAppInstancesTypeOK DEF SetSetAppInstances, ScaleLabels, ResizeLabels

\* RemoveGetActiveSchedule preserves the types.
LEMMA RemoveGetActiveScheduleTypeOK ==
  ASSUME TypeOK, NEW w \in Worker, RemoveGetActiveSchedule(w)
  PROVE  TypeOK'
<1>1. /\ pc[w] = "Remove.GetActiveSchedule" /\ req[w] \in Request
      /\ req[w].arg \in Schedules /\ ReadOnly
  BY DEF RemoveGetActiveSchedule, TypeOK, RemoveLabels
<1>2. CASE FailEarly(w)
  BY <1>1, <1>2, FailEarlyTypeOK
<1>3. CASE GoTo(w, "Remove.DeleteSchedule") /\ UNCHANGED req
  BY <1>1, <1>3 DEF GoTo, ReadOnly, Reads, cf, engineDB, TypeOK, Labels,
                    ScaleLabels, SetLabels, RemoveLabels, ResizeLabels
<1> QED
  BY <1>2, <1>3 DEF RemoveGetActiveSchedule

\* RemoveGetApp preserves the types.
LEMMA RemoveGetAppTypeOK ==
  ASSUME TypeOK, NEW w \in Worker, RemoveGetApp(w)
  PROVE  TypeOK'
<1> DEFINE n == instances[req[w].app]
<1>1. /\ pc[w] = "Remove.GetApp" /\ req[w] \in Request
      /\ req[w].arg \in Schedules /\ n \in Nat /\ AskSize(w)
  BY DEF RemoveGetApp, TypeOK, RemoveLabels, Request
<1>2. CASE Fail(w)
  BY <1>1, <1>2, FailTypeOK, ReadsTypes
<1>3. CASE req' = [req EXCEPT ![w].old = n] /\ GoTo(w, "Remove.GetAppPolicy")
  BY <1>1, <1>3 DEF GoTo, AskSize, LearnSize, Reads, cf, engineDB, TypeOK, Request, Labels,
                    ScaleLabels, SetLabels, RemoveLabels, ResizeLabels
<1> QED
  BY <1>2, <1>3 DEF RemoveGetApp

\* RemoveGetAppPolicy preserves the types.
LEMMA RemoveGetAppPolicyTypeOK ==
  ASSUME TypeOK, NEW w \in Worker, RemoveGetAppPolicy(w)
  PROVE  TypeOK'
<1> DEFINE p == policy[req[w].app]
           n == req[w].old
<1>1. /\ pc[w] = "Remove.GetAppPolicy" /\ req[w] \in Request
      /\ req[w].arg \in Schedules /\ n \in Int
      /\ p \in Policies \cup {NoPolicy} /\ ReadOnly
  BY DEF RemoveGetAppPolicy, TypeOK, RemoveLabels, Request
<1>2. CASE Fail(w)
  BY <1>1, <1>2, FailTypeOK, ReadsTypes
<1>3. CASE Finish(w, "ignored")
  BY <1>1, <1>3 DEF Finish, GoTo, ReadOnly, Reads, cf, engineDB, TypeOK, Request,
                    Status, Labels, ScaleLabels, SetLabels, RemoveLabels,
                    ResizeLabels
<1>4. CASE /\ p # NoPolicy
           /\ Decide(w, n, Limit(n, p.min, p.max), "Remove.SetAppInstances")
  <2>1. Limit(n, p.min, p.max) \in Nat
    BY <1>1, <1>4, LimitNat, PolicyType
  <2> QED
    BY <1>1, <1>4, <2>1, DecideTypeOK DEF ResizeLabels, ScaleLabels
<1> QED
  BY <1>2, <1>3, <1>4 DEF RemoveGetAppPolicy

\* RemoveSetAppInstances preserves the types.
LEMMA RemoveSetAppInstancesTypeOK ==
  ASSUME TypeOK, NEW w \in Worker, RemoveSetAppInstances(w)
  PROVE  TypeOK'
BY SetAppInstancesTypeOK DEF RemoveSetAppInstances, ScaleLabels, ResizeLabels

\* Return preserves the types.
LEMMA ReturnTypeOK ==
  ASSUME TypeOK, NEW w \in Worker, Return(w)
  PROVE  TypeOK'
<1>1. pc[w] = "Return" /\ req[w] \in Request
  BY DEF Return, TypeOK
<1>2. HistoryOf(w) \in HistoryRow
  BY <1>1 DEF HistoryOf, HistoryRow, Request
<1>3. lastHistory' \in [App -> HistoryRow]
  BY <1>1, <1>2 DEF Return, TypeOK
<1> QED
  BY <1>1, <1>3, ReleaseTypeOK DEF Return

\* Unlock preserves the types.
LEMMA UnlockTypeOK ==
  ASSUME TypeOK, NEW w \in Worker, Unlock(w)
  PROVE  TypeOK'
<1>1. pc[w] # "idle" /\ lastHistory' \in [App -> HistoryRow]
  BY DEF Unlock, TypeOK
<1> QED
  BY <1>1, ReleaseTypeOK DEF Unlock

\* Crash preserves the types.
LEMMA CrashTypeOK ==
  ASSUME TypeOK, Crash
  PROVE  TypeOK'
<1>1. late' \subseteq Put
  <2>1. \A w \in Worker : pc[w] \in ResizeLabels => PutOf(w) \in Put
    BY DEF TypeOK, ResizeLabels, Request, PutOf, Put
  <2> QED
    BY <2>1 DEF Crash, TypeOK
<1> QED
  BY <1>1 DEF Crash, TypeOK, engineDB, Labels, ScaleLabels, SetLabels,
              RemoveLabels, ResizeLabels

\* Environment preserves the types.
LEMMA EnvironmentTypeOK ==
  ASSUME TypeOK, Environment
  PROVE  TypeOK'
<1>1. ASSUME NEW a \in App, StartOrStopApp(a) PROVE TypeOK'
  BY <1>1 DEF StartOrStopApp, TypeOK, engineDB
<1>2. ASSUME NEW a \in App, NEW n \in ManualSizes, ResizeByHand(a, n) PROVE TypeOK'
  <2>1. n \in Nat
    BY InputsAssumption
  <2> QED
    BY <1>2, <2>1 DEF ResizeByHand, ResizeUnseen, TypeOK, engineDB
<1>3. ASSUME NEW a \in App, NEW p \in Policies \cup {NoPolicy}, ChangePolicy(a, p)
      PROVE  TypeOK'
  BY <1>3 DEF ChangePolicy, TypeOK, cf, engineDB
<1>4. ASSUME NEW p \in late, ResizeLate(p) PROVE TypeOK'
  <2>1. p.app \in App /\ p.new \in Nat
    BY DEF TypeOK, Put
  <2> QED
    BY <1>4, <2>1 DEF ResizeLate, ResizeUnseen, TypeOK, engineDB
<1>5. CASE Tick
  BY <1>5 DEF Tick, TypeOK, cf, engineDB
<1> QED
  BY <1>1, <1>2, <1>3, <1>4, <1>5 DEF Environment

\* Every step preserves the types.
LEMMA NextTypeOK == TypeOK /\ [Next]_vars => TypeOK'
<1> SUFFICES ASSUME TypeOK, [Next]_vars PROVE TypeOK'
  OBVIOUS
<1>1. ASSUME NEW w \in Worker, ReceiveRequest(w) PROVE TypeOK'
  BY <1>1, AcceptTypeOK
     DEF ReceiveRequest, RequestScale, RequestSetActiveSchedule,
         RequestRemoveActiveSchedule
<1>2. ASSUME NEW w \in Worker, Lock(w) PROVE TypeOK'
  BY <1>2, ScaleLockTypeOK, SetLockTypeOK, RemoveLockTypeOK DEF Lock
<1>3. ASSUME NEW w \in Worker, Work(w) PROVE TypeOK'
  BY <1>3, ScaleGetAppTypeOK, ScaleCanScaleAppTypeOK,
     ScaleGetActiveScheduleTypeOK, ScaleGetAppPolicyTypeOK,
     ScaleSetAppInstancesTypeOK, ScaleDeleteCooldownTypeOK,
     ScaleInsertCooldownTypeOK, SetGetActiveScheduleTypeOK,
     SetDeleteScheduleTypeOK, SetInsertScheduleTypeOK, SetGetAppTypeOK,
     SetSetAppInstancesTypeOK, RemoveGetActiveScheduleTypeOK,
     RemoveDeleteScheduleTypeOK, RemoveGetAppTypeOK,
     RemoveGetAppPolicyTypeOK, RemoveSetAppInstancesTypeOK, ReturnTypeOK,
     UnlockTypeOK
     DEF Work, Resizing
<1>4. CASE UNCHANGED vars
  BY <1>4 DEF vars, TypeOK
<1> QED
  BY <1>1, <1>2, <1>3, <1>4, CrashTypeOK, EnvironmentTypeOK DEF Next

\* Every variable of the engine keeps its type; in particular no operation asks
\* the Cloud Controller for a negative number of instances, whatever the
\* adjustment of the trigger.
THEOREM TypeCorrect == Spec => []TypeOK
<1> QED
  BY InitTypeOK, NextTypeOK, PTL DEF Spec
-----------------------------------------------------------------------------
(***************************************************************************)
(* The inductive invariant.  A worker that holds the mutex of its app      *)
(* disturbs nothing that a worker of another app knows, and there is no    *)
(* other worker of its app: so what each step has to preserve is only what *)
(* its own worker knows.                                                   *)
(***************************************************************************)
ScheduleOf(w) == activeSchedule[req[w].app]

WorkerKnows(w) ==
  /\ pc[w] \in { "Scale.GetActiveSchedule", "Scale.GetAppPolicy",
                 "Scale.SetAppInstances" }
       => cooldown[req[w].app] < clock
  /\ pc[w] \in { "Scale.GetAppPolicy", "Remove.GetApp",
                 "Remove.GetAppPolicy", "Remove.SetAppInstances" }
       => ScheduleOf(w) = NoSchedule
  /\ pc[w] \in {"Set.GetApp", "Set.SetAppInstances"}
       => ScheduleOf(w) = req[w].arg
  /\ pc[w] \in ResizeLabels /\ ScheduleOf(w) # NoSchedule
       => req[w].new \in ScheduleOf(w).min .. ScheduleOf(w).max

\* What MutexHeld, CooldownChecked and ScheduleKnown say of one worker.
LEMMA KnowledgeOfWorkers ==
  CooldownChecked /\ ScheduleKnown <=> \A w \in Worker : WorkerKnows(w)
BY DEF CooldownChecked, ScheduleKnown, WorkerKnows, ScheduleOf

\* A step of worker w while it holds the mutex of its app, and keeps it.
HoldingStep(w) ==
  /\ pc[w] \in Holding /\ pc'[w] \in Holding
  /\ req'[w].app = req[w].app
  /\ \A v \in Worker \ {w} : pc'[v] = pc[v] /\ req'[v] = req[v]
  /\ \A a \in App \ {req[w].app} :
       activeSchedule'[a] = activeSchedule[a] /\ cooldown'[a] = cooldown[a]
  /\ UNCHANGED <<lock, clock>>

\* Two workers between Lock and Unlock work on different apps.
LEMMA Exclusion ==
  ASSUME TypeOK, MutexHeld, NEW v \in Worker, NEW w \in Worker,
         pc[v] \in Holding, pc[w] \in Holding, req[v].app = req[w].app
  PROVE  v = w
BY DEF MutexHeld, MutexOf

\* A step of a worker that holds its mutex, and that knows afterwards what it has to
\* know, preserves the inductive invariant: no other worker knows anything of its
\* app.
LEMMA HoldingStepInvariant ==
  ASSUME TypeOK, EngineInvariant, NEW w \in Worker, HoldingStep(w), WorkerKnows(w)'
  PROVE  EngineInvariant'
<1>1. MutexHeld'
  <2> SUFFICES ASSUME NEW v \in Worker, pc'[v] \in Holding
               PROVE  lock'[LockOf[req'[v].app]] = v
    BY DEF MutexHeld, MutexOf
  <2>1. pc[v] \in Holding /\ req'[v].app = req[v].app
    BY DEF HoldingStep
  <2>2. lock' = lock
    BY DEF HoldingStep
  <2> QED
    BY <2>1, <2>2 DEF EngineInvariant, MutexHeld, MutexOf
<1>2. ASSUME NEW v \in Worker \ {w} PROVE WorkerKnows(v)'
  <2>1. pc'[v] = pc[v] /\ req'[v] = req[v] /\ clock' = clock
    BY DEF HoldingStep
  <2>2. CASE pc[v] \in Holding
    <3>1. req[v].app # req[w].app
      BY <2>2, Exclusion DEF EngineInvariant, HoldingStep
    <3>2. req[v].app \in App
      BY <2>2 DEF TypeOK, Request, Holding
    <3>3. /\ activeSchedule'[req[v].app] = activeSchedule[req[v].app]
          /\ cooldown'[req[v].app] = cooldown[req[v].app]
      BY <3>1, <3>2 DEF HoldingStep
    <3>4. WorkerKnows(v)
      BY KnowledgeOfWorkers DEF EngineInvariant
    <3> QED
      BY <2>1, <3>3, <3>4 DEF WorkerKnows, ScheduleOf
  <2>3. CASE pc[v] \notin Holding
    BY <2>1, <2>3 DEF WorkerKnows, TypeOK, Holding, Labels, ScaleLabels,
                      SetLabels, RemoveLabels, ResizeLabels, Waiting
  <2> QED
    BY <2>2, <2>3
<1>3. \A v \in Worker : WorkerKnows(v)'
  BY <1>2
<1>4. (CooldownChecked /\ ScheduleKnown)'
  BY <1>3 DEF CooldownChecked, ScheduleKnown, WorkerKnows, ScheduleOf
<1> QED
  BY <1>1, <1>4 DEF EngineInvariant

\* A step that takes worker w out of the part of its operation in which it knows
\* something, and changes no mutex.
LEMMA LeaveInvariant ==
  ASSUME TypeOK, EngineInvariant, NEW w \in Worker, pc[w] \in Holding,
         NEW l \in {"Return", "Unlock", "Scale.CanScaleApp", "Scale.DeleteCooldown"},
         pc' = [pc EXCEPT ![w] = l],
         NEW r \in Request, req' = [req EXCEPT ![w] = r], r.app = req[w].app,
         \A a \in App \ {req[w].app} :
           activeSchedule'[a] = activeSchedule[a] /\ cooldown'[a] = cooldown[a],
         UNCHANGED <<lock, clock>>
  PROVE  EngineInvariant'
<1>1. HoldingStep(w)
  BY DEF HoldingStep, TypeOK, Holding, Labels, ScaleLabels, Waiting
<1>2. WorkerKnows(w)'
  BY DEF WorkerKnows, TypeOK, ResizeLabels
<1> QED
  BY <1>1, <1>2, HoldingStepInvariant

\* The databases and the mutexes stay as they are for other apps.
OthersUnchanged(w) ==
  /\ \A a \in App \ {req[w].app} :
       activeSchedule'[a] = activeSchedule[a] /\ cooldown'[a] = cooldown[a]
  /\ UNCHANGED <<lock, clock>>

\* A worker that is not idle has a request.
LEMMA RequestOf ==
  ASSUME TypeOK, NEW w \in Worker, pc[w] # "idle"
  PROVE  /\ req[w] \in Request /\ req[w].app \in App
         /\ req \in [Worker -> Request \cup {NoRequest}]
BY DEF TypeOK, Request

\* An operation that fails preserves the inductive invariant: it has nothing to know
\* any more.
LEMMA FailInvariant ==
  ASSUME TypeOK, EngineInvariant, NEW w \in Worker, pc[w] \in Holding,
         Fail(w) \/ FailEarly(w), OthersUnchanged(w)
  PROVE  EngineInvariant'
<1>1. pc[w] # "idle"
  BY DEF Holding
<1>2. CASE Fail(w)
  <2> DEFINE r == [req[w] EXCEPT !.status = "failed", !.err = "error"]
  <2>1. r \in Request /\ r.app = req[w].app
    BY <1>1, RequestOf DEF Request, Status
  <2>2. pc' = [pc EXCEPT ![w] = "Return"] /\ req' = [req EXCEPT ![w] = r]
    BY <1>1, <1>2, RequestOf DEF Fail, GoTo
  <2> HIDE DEF r
  <2> QED
    BY <2>1, <2>2, LeaveInvariant DEF OthersUnchanged
<1>3. CASE FailEarly(w)
  <2> DEFINE r == [req[w] EXCEPT !.err = "error"]
  <2>1. r \in Request /\ r.app = req[w].app
    BY <1>1, RequestOf DEF Request
  <2>2. pc' = [pc EXCEPT ![w] = "Unlock"] /\ req' = [req EXCEPT ![w] = r]
    BY <1>1, <1>3, RequestOf DEF FailEarly, GoTo
  <2> HIDE DEF r
  <2> QED
    BY <2>1, <2>2, LeaveInvariant DEF OthersUnchanged
<1> QED
  BY <1>2, <1>3

\* A step that only reads changes nothing for the other workers.
LEMMA ReadOnlyOthers ==
  ASSUME NEW w \in Worker, ReadOnly \/ AskSize(w)
  PROVE  OthersUnchanged(w) /\ UNCHANGED <<activeSchedule, cooldown>>
BY DEF ReadOnly, AskSize, Reads, OthersUnchanged, engineDB

\* A step that reads and goes on to label l, and knows there what has to be known.
LEMMA GoOnInvariant ==
  ASSUME TypeOK, EngineInvariant, NEW w \in Worker, pc[w] \in Holding,
         NEW l \in Holding \ ResizeLabels, GoTo(w, l), req' = [req EXCEPT ![w] = req'[w]],
         req'[w].app = req[w].app, req'[w].arg = req[w].arg,
         OthersUnchanged(w),
         l \in {"Scale.GetActiveSchedule", "Scale.GetAppPolicy"}
           => cooldown'[req[w].app] < clock,
         l \in {"Scale.GetAppPolicy", "Remove.GetApp", "Remove.GetAppPolicy"}
           => activeSchedule'[req[w].app] = NoSchedule,
         l = "Set.GetApp" => activeSchedule'[req[w].app] = req[w].arg
  PROVE  EngineInvariant'
<1>1. pc' = [pc EXCEPT ![w] = l] /\ pc'[w] = l
  BY DEF GoTo, TypeOK
<1>2. HoldingStep(w)
  BY <1>1 DEF HoldingStep, OthersUnchanged, TypeOK
<1>3. WorkerKnows(w)'
  BY <1>1 DEF WorkerKnows, ScheduleOf, OthersUnchanged, ResizeLabels
<1> QED
  BY <1>2, <1>3, HoldingStepInvariant

\* Decide settles on a number that the limits in force allow.
LEMMA DecideInvariant ==
  ASSUME TypeOK, EngineInvariant, NEW w \in Worker, pc[w] \in Holding,
         NEW old \in Int, NEW n \in Int, NEW label \in ResizeLabels \cup {"Return"},
         Decide(w, old, n, label), ReadOnly \/ AskSize(w),
         label = "Scale.SetAppInstances" => cooldown[req[w].app] < clock,
         label = "Remove.SetAppInstances" => ScheduleOf(w) = NoSchedule,
         label = "Set.SetAppInstances" => ScheduleOf(w) = req[w].arg,
         label \in ResizeLabels /\ ScheduleOf(w) # NoSchedule
           => n \in ScheduleOf(w).min .. ScheduleOf(w).max
  PROVE  EngineInvariant'
<1>1. pc[w] # "idle"
  BY DEF Holding
<1> DEFINE r == [req[w] EXCEPT !.old = old, !.new = n, !.status = "ignored"]
           q == [req[w] EXCEPT !.old = old, !.new = n]
<1>2. r \in Request /\ r.app = req[w].app
  BY <1>1, RequestOf DEF Request, Status
<1>3. q \in Request /\ q.app = req[w].app /\ q.arg = req[w].arg /\ q.new = n
  BY <1>1, RequestOf DEF Request
<1>4. CASE n = old \/ label = "Return"
  <2>1. CASE n = old
    <3>1. pc' = [pc EXCEPT ![w] = "Return"] /\ req' = [req EXCEPT ![w] = r]
      BY <1>1, <2>1, RequestOf DEF Decide, GoTo
    <3> HIDE DEF r
    <3> QED
      BY <3>1, <1>2, LeaveInvariant, ReadOnlyOthers DEF OthersUnchanged
  <2>2. CASE n # old /\ label = "Return"
    <3>1. pc' = [pc EXCEPT ![w] = "Return"] /\ req' = [req EXCEPT ![w] = q]
      BY <1>1, <2>2, RequestOf DEF Decide, GoTo
    <3> HIDE DEF q
    <3> QED
      BY <3>1, <1>3, LeaveInvariant, ReadOnlyOthers DEF OthersUnchanged
  <2> QED
    BY <1>4, <2>1, <2>2
<1>5. CASE n # old /\ label \in ResizeLabels
  <2>1. pc' = [pc EXCEPT ![w] = label] /\ req' = [req EXCEPT ![w] = q]
    BY <1>1, <1>5, RequestOf DEF Decide, GoTo
  <2>2. label \in Holding /\ UNCHANGED <<activeSchedule, cooldown, clock>>
    BY <1>5, ReadOnlyOthers
       DEF Holding, Labels, ScaleLabels, SetLabels, RemoveLabels,
           ResizeLabels, Waiting, OthersUnchanged
  <2>3. pc'[w] = label /\ req'[w] = q
    BY <2>1, <1>1, RequestOf DEF TypeOK
  <2> HIDE DEF q
  <2>4. HoldingStep(w)
    BY <2>1, <2>2, <2>3, <1>3, ReadOnlyOthers, <1>1, RequestOf
       DEF HoldingStep, OthersUnchanged, TypeOK
  <2>5. WorkerKnows(w)'
    BY <2>2, <2>3, <1>3 DEF WorkerKnows, ScheduleOf, ResizeLabels
  <2> QED
    BY <2>4, <2>5, HoldingStepInvariant
<1> QED
  BY <1>4, <1>5

(***************************************************************************)
(* The steps of Scale.                                                     *)
(***************************************************************************)

\* The labels behind the first call of an operation are those of a worker that
\* holds its mutex.
LEMMA HoldingLabels ==
  /\ ScaleLabels \ {"Scale.Lock"} \subseteq Holding
  /\ SetLabels \ {"Set.Lock"} \subseteq Holding
  /\ RemoveLabels \ {"Remove.Lock"} \subseteq Holding
  /\ {"Return", "Unlock"} \subseteq Holding
BY DEF Holding, Labels, ScaleLabels, SetLabels, RemoveLabels, Waiting

\* ScaleGetApp preserves the inductive invariant.
LEMMA ScaleGetAppInvariant ==
  ASSUME TypeOK, EngineInvariant, NEW w \in Worker, ScaleGetApp(w)
  PROVE  EngineInvariant'
<1> DEFINE n == instances[req[w].app]
<1>1. pc[w] = "Scale.GetApp" /\ pc[w] \in Holding /\ AskSize(w)
  BY HoldingLabels DEF ScaleGetApp, ScaleLabels
<1>2. req[w] \in Request /\ n \in Int /\ req \in [Worker -> Request \cup {NoRequest}]
  BY <1>1, RequestOf DEF TypeOK
<1>3. CASE Fail(w)
  BY <1>1, <1>3, FailInvariant, ReadOnlyOthers
<1>4. CASE req' = [req EXCEPT ![w].old = n] /\ GoTo(w, "Scale.CanScaleApp")
  <2>1. /\ req'[w].app = req[w].app /\ req'[w].arg = req[w].arg
        /\ req' = [req EXCEPT ![w] = req'[w]]
    BY <1>2, <1>4 DEF Request
  <2> QED
    BY <1>1, <1>4, <2>1, GoOnInvariant, ReadOnlyOthers, HoldingLabels
       DEF ScaleLabels, ResizeLabels
<1>5. CASE Decide(w, n, n, "Return")
  BY <1>1, <1>2, <1>5, DecideInvariant DEF ResizeLabels
<1> QED
  BY <1>3, <1>4, <1>5 DEF ScaleGetApp

\* ScaleCanScaleApp preserves the inductive invariant.
LEMMA ScaleCanScaleAppInvariant ==
  ASSUME TypeOK, EngineInvariant, NEW w \in Worker, ScaleCanScaleApp(w)
  PROVE  EngineInvariant'
<1>1. pc[w] = "Scale.CanScaleApp" /\ pc[w] \in Holding /\ ReadOnly
  BY HoldingLabels DEF ScaleCanScaleApp, ScaleLabels
<1>2. /\ req[w] \in Request /\ req[w].old \in Int
      /\ req \in [Worker -> Request \cup {NoRequest}]
  BY <1>1, RequestOf DEF Request
<1>3. CASE Fail(w)
  BY <1>1, <1>3, FailInvariant, ReadOnlyOthers
<1>4. CASE Decide(w, req[w].old, req[w].old, "Return")
  BY <1>1, <1>2, <1>4, DecideInvariant DEF ResizeLabels
<1>5. CASE /\ CanScaleApp(req[w].app)
           /\ GoTo(w, "Scale.GetActiveSchedule") /\ UNCHANGED req
  <2>1. req' = [req EXCEPT ![w] = req'[w]]
    BY <1>2, <1>5
  <2>2. cooldown'[req[w].app] < clock
    BY <1>1, <1>5, ReadOnlyOthers DEF CanScaleApp
  <2> QED
    BY <1>1, <1>5, <2>1, <2>2, GoOnInvariant, ReadOnlyOthers, HoldingLabels
       DEF ScaleLabels, ResizeLabels
<1> QED
  BY <1>3, <1>4, <1>5 DEF ScaleCanScaleApp

\* A decision within limits that include those of the active schedule, if any.
LEMMA DecideScaleInvariant ==
  ASSUME TypeOK, EngineInvariant, NEW w \in Worker,
         pc[w] \in {"Scale.GetActiveSchedule", "Scale.GetAppPolicy"},
         NEW limits, limits.min \in Nat, limits.max \in Nat,
         limits.min <= limits.max,
         ScheduleOf(w) # NoSchedule => limits = ScheduleOf(w),
         DecideScale(w, limits), ReadOnly
  PROVE  EngineInvariant'
<1>1. pc[w] \in Holding /\ pc[w] \in ScaleLabels /\ pc[w] # "idle"
  BY HoldingLabels DEF ScaleLabels
<1>2. req[w] \in Request /\ req[w].arg \in Triggers /\ req[w].old \in Int
  BY <1>1, RequestOf DEF TypeOK, Request
<1>3. PICK wanted \in ComputeNewInstances(req[w].old, req[w].arg.adjustment) :
             Decide(w, req[w].old, Limit(wanted, limits.min, limits.max),
                    "Scale.SetAppInstances")
  BY DEF DecideScale
<1> DEFINE n == Limit(wanted, limits.min, limits.max)
<1>4. n \in limits.min .. limits.max
  BY <1>2, TriggerType, ComputeNewInstancesInt, LimitWithin
<1>5. WorkerKnows(w)
  BY KnowledgeOfWorkers DEF EngineInvariant
<1>6. cooldown[req[w].app] < clock
  BY <1>5 DEF WorkerKnows
<1> HIDE DEF n
<1>7. n \in Int
  BY <1>4
<1> QED
  BY <1>1, <1>2, <1>3, <1>4, <1>6, <1>7, DecideInvariant DEF ResizeLabels, n

\* ScaleGetActiveSchedule preserves the inductive invariant.
LEMMA ScaleGetActiveScheduleInvariant ==
  ASSUME TypeOK, EngineInvariant, NEW w \in Worker, ScaleGetActiveSchedule(w)
  PROVE  EngineInvariant'
<1> DEFINE s == activeSchedule[req[w].app]
<1>1. pc[w] = "Scale.GetActiveSchedule" /\ pc[w] \in Holding /\ ReadOnly
  BY HoldingLabels DEF ScaleGetActiveSchedule, ScaleLabels
<1>2. /\ req[w] \in Request /\ req \in [Worker -> Request \cup {NoRequest}]
      /\ s \in Schedules \cup {NoSchedule}
  BY <1>1, RequestOf DEF TypeOK
<1>3. CASE Fail(w)
  BY <1>1, <1>3, FailInvariant, ReadOnlyOthers
<1>4. CASE s # NoSchedule /\ DecideScale(w, s)
  BY <1>1, <1>2, <1>4, ScheduleType, DecideScaleInvariant DEF ScheduleOf
<1>5. CASE s = NoSchedule /\ GoTo(w, "Scale.GetAppPolicy") /\ UNCHANGED req
  <2>1. req' = [req EXCEPT ![w] = req'[w]]
    BY <1>2, <1>5
  <2>2. cooldown[req[w].app] < clock
    BY <1>1, KnowledgeOfWorkers DEF EngineInvariant, WorkerKnows
  <2>3. UNCHANGED <<activeSchedule, cooldown>> /\ OthersUnchanged(w)
    BY <1>1, ReadOnlyOthers
  <2> QED
    BY <1>1, <1>5, <2>1, <2>2, <2>3, GoOnInvariant, HoldingLabels
       DEF ScaleLabels, ResizeLabels
<1> QED
  BY <1>3, <1>4, <1>5 DEF ScaleGetActiveSchedule

\* ScaleGetAppPolicy preserves the inductive invariant.
LEMMA ScaleGetAppPolicyInvariant ==
  ASSUME TypeOK, EngineInvariant, NEW w \in Worker, ScaleGetAppPolicy(w)
  PROVE  EngineInvariant'
<1> DEFINE p == policy[req[w].app]
<1>1. pc[w] = "Scale.GetAppPolicy" /\ pc[w] \in Holding /\ ReadOnly
  BY HoldingLabels DEF ScaleGetAppPolicy, ScaleLabels
<1>2. p \in Policies \cup {NoPolicy}
  BY <1>1, RequestOf DEF TypeOK
<1>3. CASE Fail(w)
  BY <1>1, <1>3, FailInvariant, ReadOnlyOthers
<1>4. CASE p # NoPolicy /\ DecideScale(w, p)
  <2>1. ScheduleOf(w) = NoSchedule
    BY <1>1, KnowledgeOfWorkers DEF EngineInvariant, WorkerKnows
  <2> QED
    BY <1>1, <1>2, <1>4, <2>1, PolicyType, DecideScaleInvariant
<1> QED
  BY <1>3, <1>4 DEF ScaleGetAppPolicy

\* SetAppInstances preserves the inductive invariant.
LEMMA SetAppInstancesInvariant ==
  ASSUME TypeOK, EngineInvariant, NEW w \in Worker, pc[w] \in Holding,
         NEW next \in {"Return", "Scale.DeleteCooldown"}, SetAppInstances(w, next)
  PROVE  EngineInvariant'
<1>1. OthersUnchanged(w)
  BY DEF SetAppInstances, OthersUnchanged, engineDB
<1>2. CASE Fail(w)
  BY <1>1, <1>2, FailInvariant
<1>3. CASE req' = [req EXCEPT ![w].status = "succeeded"] /\ GoTo(w, next)
  <2> DEFINE r == [req[w] EXCEPT !.status = "succeeded"]
  <2>0. pc[w] # "idle"
    BY DEF Holding
  <2>1. r \in Request /\ r.app = req[w].app
    BY <2>0, RequestOf DEF Request, Status
  <2>2. pc' = [pc EXCEPT ![w] = next] /\ req' = [req EXCEPT ![w] = r]
    BY <2>0, <1>3, RequestOf DEF GoTo
  <2> HIDE DEF r
  <2> QED
    BY <1>1, <2>1, <2>2, LeaveInvariant DEF OthersUnchanged
<1> QED
  BY <1>2, <1>3 DEF SetAppInstances

\* The two statements of UpdateScalingCooldownExpireTime preserve the invariant.
LEMMA UpdateCooldownInvariant ==
  ASSUME TypeOK, EngineInvariant, NEW w \in Worker,
         ScaleDeleteCooldown(w) \/ ScaleInsertCooldown(w)
  PROVE  EngineInvariant'
<1>1. /\ pc[w] \in {"Scale.DeleteCooldown", "Scale.InsertCooldown"}
      /\ pc[w] \in Holding /\ UNCHANGED <<req, activeSchedule, lock, clock>>
  BY HoldingLabels DEF ScaleDeleteCooldown, ScaleInsertCooldown, ScaleLabels
<1>2. \A a \in App \ {req[w].app} : cooldown'[a] = cooldown[a]
  BY DEF ScaleDeleteCooldown, ScaleInsertCooldown, PutCooldown, TypeOK
<1>3. OthersUnchanged(w) /\ req' = [req EXCEPT ![w] = req'[w]]
  BY <1>1, <1>2 DEF OthersUnchanged, TypeOK
<1>4. GoTo(w, "Return") \/ GoTo(w, "Scale.InsertCooldown")
  BY DEF ScaleDeleteCooldown, ScaleInsertCooldown
<1> QED
  BY <1>1, <1>3, <1>4, GoOnInvariant, HoldingLabels DEF ScaleLabels, ResizeLabels

(***************************************************************************)
(* The steps of SetActiveSchedule and RemoveActiveSchedule.                *)
(***************************************************************************)

\* What these operations read of the active schedule is known to be true.
LEMMA GetActiveScheduleInvariant ==
  ASSUME TypeOK, EngineInvariant, NEW w \in Worker,
         SetGetActiveSchedule(w) \/ RemoveGetActiveSchedule(w)
  PROVE  EngineInvariant'
<1>1. /\ pc[w] \in {"Set.GetActiveSchedule", "Remove.GetActiveSchedule"}
      /\ pc[w] \in Holding /\ pc[w] # "idle" /\ ReadOnly
  BY HoldingLabels
     DEF SetGetActiveSchedule, RemoveGetActiveSchedule, SetLabels, RemoveLabels
<1>2. CASE FailEarly(w)
  BY <1>1, <1>2, FailInvariant, ReadOnlyOthers
<1>3. ASSUME NEW l \in {"Unlock", "Set.DeleteSchedule", "Remove.DeleteSchedule"},
             GoTo(w, l), UNCHANGED req
      PROVE  EngineInvariant'
  <2>1. l \in Holding \ ResizeLabels
    BY HoldingLabels DEF SetLabels, RemoveLabels, ResizeLabels
  <2>2. req' = [req EXCEPT ![w] = req'[w]]
    BY <1>1, <1>3, RequestOf
  <2> QED
    BY <1>1, <1>3, <2>1, <2>2, GoOnInvariant, ReadOnlyOthers
<1> QED
  BY <1>2, <1>3 DEF SetGetActiveSchedule, RemoveGetActiveSchedule

\* The steps that write the active schedule: the worker goes on knowing what it
\* wrote, or fails.
LEMMA WriteScheduleInvariant ==
  ASSUME TypeOK, EngineInvariant, NEW w \in Worker,
         \/ SetDeleteSchedule(w) \/ SetInsertSchedule(w)
         \/ RemoveDeleteSchedule(w)
  PROVE  EngineInvariant'
<1>1. /\ pc[w] \in { "Set.DeleteSchedule", "Set.InsertSchedule",
                     "Remove.DeleteSchedule" }
      /\ pc[w] \in Holding /\ pc[w] # "idle"
  BY HoldingLabels DEF SetDeleteSchedule, SetInsertSchedule,
                       RemoveDeleteSchedule, SetLabels, RemoveLabels
<1>2. /\ req[w] \in Request /\ req[w].app \in App
      /\ req \in [Worker -> Request \cup {NoRequest}]
  BY <1>1, RequestOf
<1>3. OthersUnchanged(w)
  BY DEF SetDeleteSchedule, SetInsertSchedule, RemoveDeleteSchedule,
         PutSchedule, OthersUnchanged, TypeOK
<1>4. CASE FailEarly(w)
  BY <1>1, <1>3, <1>4, FailInvariant
<1>5. CASE /\ PutSchedule(w, NoSchedule)
           /\ GoTo(w, "Set.InsertSchedule") /\ UNCHANGED req
  <2>1. req' = [req EXCEPT ![w] = req'[w]]
    BY <1>2, <1>5
  <2> QED
    BY <1>1, <1>3, <1>5, <2>1, GoOnInvariant, HoldingLabels
       DEF SetLabels, ResizeLabels
<1>6. CASE /\ PutSchedule(w, req[w].arg)
           /\ req' = [req EXCEPT ![w].now = clock] /\ GoTo(w, "Set.GetApp")
  <2>1. /\ req' = [req EXCEPT ![w] = req'[w]]
        /\ req'[w].app = req[w].app /\ req'[w].arg = req[w].arg
    BY <1>2, <1>6 DEF Request
  <2>2. activeSchedule'[req[w].app] = req[w].arg
    BY <1>2, <1>6 DEF PutSchedule, TypeOK
  <2> QED
    BY <1>1, <1>3, <1>6, <2>1, <2>2, GoOnInvariant, HoldingLabels
       DEF SetLabels, ResizeLabels
<1>7. CASE /\ PutSchedule(w, NoSchedule)
           /\ req' = [req EXCEPT ![w].now = clock] /\ GoTo(w, "Remove.GetApp")
  <2>1. /\ req' = [req EXCEPT ![w] = req'[w]]
        /\ req'[w].app = req[w].app /\ req'[w].arg = req[w].arg
    BY <1>2, <1>7 DEF Request
  <2>2. activeSchedule'[req[w].app] = NoSchedule
    BY <1>2, <1>7 DEF PutSchedule, TypeOK
  <2> QED
    BY <1>1, <1>3, <1>7, <2>1, <2>2, GoOnInvariant, HoldingLabels
       DEF RemoveLabels, ResizeLabels
<1> QED
  BY <1>4, <1>5, <1>6, <1>7
     DEF SetDeleteSchedule, SetInsertSchedule, RemoveDeleteSchedule

\* SetGetApp preserves the inductive invariant.
LEMMA SetGetAppInvariant ==
  ASSUME TypeOK, EngineInvariant, NEW w \in Worker, SetGetApp(w)
  PROVE  EngineInvariant'
<1> DEFINE n == instances[req[w].app]
           s == req[w].arg
           m == Limit(n, InitialMin(s), s.max)
<1>1. pc[w] = "Set.GetApp" /\ pc[w] \in Holding /\ AskSize(w)
  BY HoldingLabels DEF SetGetApp, SetLabels
<1>2. n \in Int /\ s \in Schedules
  BY <1>1, RequestOf DEF TypeOK, SetLabels
<1>3. CASE Fail(w)
  BY <1>1, <1>3, FailInvariant, ReadOnlyOthers
<1>4. CASE Decide(w, n, m, "Set.SetAppInstances")
  <2>1. m \in Nat /\ m \in s.min .. s.max
    BY <1>2, LimitOfSchedule
  <2>2. ScheduleOf(w) = s
    BY <1>1, KnowledgeOfWorkers DEF EngineInvariant, WorkerKnows
  <2> HIDE DEF m
  <2>3. m \in Int
    BY <2>1
  <2> QED
    BY <1>1, <1>2, <1>4, <2>1, <2>2, <2>3, DecideInvariant DEF ResizeLabels
<1> QED
  BY <1>3, <1>4 DEF SetGetApp

\* RemoveGetApp preserves the inductive invariant.
LEMMA RemoveGetAppInvariant ==
  ASSUME TypeOK, EngineInvariant, NEW w \in Worker, RemoveGetApp(w)
  PROVE  EngineInvariant'
<1> DEFINE n == instances[req[w].app]
<1>1. pc[w] = "Remove.GetApp" /\ pc[w] \in Holding /\ AskSize(w)
  BY HoldingLabels DEF RemoveGetApp, RemoveLabels
<1>2. req[w] \in Request /\ req \in [Worker -> Request \cup {NoRequest}]
  BY <1>1, RequestOf
<1>3. CASE Fail(w)
  BY <1>1, <1>3, FailInvariant, ReadOnlyOthers
<1>4. CASE req' = [req EXCEPT ![w].old = n] /\ GoTo(w, "Remove.GetAppPolicy")
  <2>1. /\ req'[w].app = req[w].app /\ req'[w].arg = req[w].arg
        /\ req' = [req EXCEPT ![w] = req'[w]]
    BY <1>2, <1>4 DEF Request
  <2>2. activeSchedule[req[w].app] = NoSchedule
    BY <1>1, KnowledgeOfWorkers DEF EngineInvariant, WorkerKnows, ScheduleOf
  <2>3. UNCHANGED activeSchedule /\ OthersUnchanged(w)
    BY <1>1, ReadOnlyOthers
  <2> QED
    BY <1>1, <1>4, <2>1, <2>2, <2>3, GoOnInvariant, HoldingLabels
       DEF RemoveLabels, ResizeLabels
<1> QED
  BY <1>3, <1>4 DEF RemoveGetApp

\* RemoveGetAppPolicy preserves the inductive invariant.
LEMMA RemoveGetAppPolicyInvariant ==
  ASSUME TypeOK, EngineInvariant, NEW w \in Worker, RemoveGetAppPolicy(w)
  PROVE  EngineInvariant'
<1> DEFINE p == policy[req[w].app]
           n == req[w].old
           m == Limit(n, p.min, p.max)
<1>1. pc[w] = "Remove.GetAppPolicy" /\ pc[w] \in Holding /\ ReadOnly
  BY HoldingLabels DEF RemoveGetAppPolicy, RemoveLabels
<1>2. /\ req[w] \in Request /\ n \in Int /\ p \in Policies \cup {NoPolicy}
      /\ req \in [Worker -> Request \cup {NoRequest}]
  BY <1>1, RequestOf DEF TypeOK, Request
<1>3. CASE Fail(w)
  BY <1>1, <1>3, FailInvariant, ReadOnlyOthers
<1>4. CASE Finish(w, "ignored")
  <2>1. /\ req'[w].app = req[w].app /\ req'[w].arg = req[w].arg
        /\ req' = [req EXCEPT ![w] = req'[w]]
    BY <1>2, <1>4 DEF Finish, Request
  <2> QED
    BY <1>1, <1>4, <2>1, GoOnInvariant, ReadOnlyOthers, HoldingLabels
       DEF Finish, ResizeLabels
<1>5. CASE p # NoPolicy /\ Decide(w, n, m, "Remove.SetAppInstances")
  <2>1. m \in Nat
    BY <1>2, <1>5, LimitNat, PolicyType
  <2>2. ScheduleOf(w) = NoSchedule
    BY <1>1, KnowledgeOfWorkers DEF EngineInvariant, WorkerKnows
  <2> HIDE DEF m
  <2>3. m \in Int
    BY <2>1
  <2> QED
    BY <1>1, <1>2, <1>5, <2>2, <2>3, DecideInvariant DEF ResizeLabels
<1> QED
  BY <1>3, <1>4, <1>5 DEF RemoveGetAppPolicy

(***************************************************************************)
(* Requests, mutexes, the process and the world.                           *)
(***************************************************************************)
\* A worker outside its critical section knows nothing.
LEMMA KnowsNothing ==
  ASSUME NEW w \in Worker,
         pc[w] \in {"idle"} \cup Waiting \cup
                   {"Scale.GetApp", "Set.GetActiveSchedule", "Remove.GetActiveSchedule"}
  PROVE  WorkerKnows(w)
BY DEF WorkerKnows, Waiting, ResizeLabels

\* A step of a worker that is not in its critical section, or leaves it.
LEMMA OutsideInvariant ==
  ASSUME TypeOK, EngineInvariant, NEW w \in Worker,
         pc' = [pc EXCEPT ![w] = pc'[w]], req' = [req EXCEPT ![w] = req'[w]],
         WorkerKnows(w)', MutexHeld',
         UNCHANGED <<activeSchedule, cooldown, clock>>
  PROVE  EngineInvariant'
<1>1. ASSUME NEW v \in Worker \ {w} PROVE WorkerKnows(v)'
  <2>1. pc'[v] = pc[v] /\ req'[v] = req[v]
    BY DEF TypeOK
  <2>2. WorkerKnows(v)
    BY KnowledgeOfWorkers DEF EngineInvariant
  <2> QED
    BY <2>1, <2>2 DEF WorkerKnows, ScheduleOf
<1>2. \A v \in Worker : WorkerKnows(v)'
  BY <1>1
<1> QED
  BY <1>2 DEF EngineInvariant, CooldownChecked, ScheduleKnown, WorkerKnows, ScheduleOf

\* A request that is accepted preserves it: a worker that waits knows nothing yet.
LEMMA AcceptInvariant ==
  ASSUME TypeOK, EngineInvariant, NEW w \in Worker, NEW a, NEW arg,
         NEW label \in Waiting, Accept(w, a, arg, label)
  PROVE  EngineInvariant'
<1>1. /\ pc' = [pc EXCEPT ![w] = label] /\ pc'[w] = label
      /\ req' = [req EXCEPT ![w] = req'[w]]
      /\ UNCHANGED <<activeSchedule, cooldown, clock, lock>>
  BY DEF Accept, GoTo, TypeOK, engineDB
<1>2. WorkerKnows(w)'
  BY <1>1 DEF WorkerKnows, Waiting, ResizeLabels
<1>3. MutexHeld'
  <2> SUFFICES ASSUME NEW v \in Worker, pc'[v] \in Holding
               PROVE  lock'[LockOf[req'[v].app]] = v
    BY DEF MutexHeld, MutexOf
  <2>1. v # w
    BY <1>1 DEF Holding
  <2>2. pc'[v] = pc[v] /\ req'[v] = req[v]
    BY <1>1, <2>1 DEF TypeOK
  <2> QED
    BY <1>1, <2>2 DEF EngineInvariant, MutexHeld, MutexOf
<1> QED
  BY <1>1, <1>2, <1>3, OutsideInvariant

\* Lock preserves it: nobody held the mutex, so nobody loses it.
LEMMA LockInvariant ==
  ASSUME TypeOK, EngineInvariant, NEW w \in Worker, Lock(w)
  PROVE  EngineInvariant'
<1>1. /\ pc[w] \in Waiting /\ pc[w] # "idle" /\ Acquire(w)
      /\ UNCHANGED <<activeSchedule, cooldown, clock>>
  BY DEF Lock, ScaleLock, SetLock, RemoveLock, Waiting, Acquire, engineDB
<1>2. /\ req[w] \in Request /\ req[w].app \in App
      /\ req \in [Worker -> Request \cup {NoRequest}]
  BY <1>1, RequestOf
<1>3. /\ req' = [req EXCEPT ![w] = req'[w]] /\ req'[w].app = req[w].app
      /\ pc' = [pc EXCEPT ![w] = pc'[w]]
      /\ pc'[w] \in {"Scale.GetApp", "Set.GetActiveSchedule", "Remove.GetActiveSchedule"}
  BY <1>2 DEF Lock, ScaleLock, SetLock, RemoveLock, GoTo, TypeOK, Request
<1>4. WorkerKnows(w)'
  BY <1>3 DEF WorkerKnows, ResizeLabels
<1>5. MutexHeld'
  <2> SUFFICES ASSUME NEW v \in Worker, pc'[v] \in Holding
               PROVE  lock'[LockOf[req'[v].app]] = v
    BY DEF MutexHeld, MutexOf
  <2>1. LockOf[req[w].app] \in Stripe
    BY <1>2, LocksAssumption
  <2>2. CASE v = w
    BY <1>1, <1>3, <2>1, <2>2 DEF Acquire, MutexOf, TypeOK
  <2>3. CASE v # w
    <3>1. pc'[v] = pc[v] /\ req'[v] = req[v]
      BY <1>3, <2>3 DEF TypeOK
    <3>2. lock[LockOf[req[v].app]] = v
      BY <3>1 DEF EngineInvariant, MutexHeld, MutexOf
    <3>3. LockOf[req[v].app] # LockOf[req[w].app]
      BY <1>1, <3>2, NullsAssumption DEF Acquire, MutexOf
    <3> QED
      BY <1>1, <3>1, <3>2, <3>3 DEF Acquire, MutexOf, TypeOK
  <2> QED
    BY <2>2, <2>3
<1> QED
  BY <1>1, <1>3, <1>4, <1>5, OutsideInvariant

\* Release preserves the inductive invariant.
LEMMA ReleaseInvariant ==
  ASSUME TypeOK, EngineInvariant, NEW w \in Worker, pc[w] \in Holding, Release(w)
  PROVE  EngineInvariant'
<1>1. /\ pc' = [pc EXCEPT ![w] = "idle"] /\ pc'[w] = "idle"
      /\ req' = [req EXCEPT ![w] = req'[w]]
      /\ UNCHANGED <<activeSchedule, cooldown, clock>>
  BY DEF Release, GoTo, TypeOK
<1>2. WorkerKnows(w)'
  BY <1>1 DEF WorkerKnows, ResizeLabels
<1>3. MutexHeld'
  <2> SUFFICES ASSUME NEW v \in Worker, pc'[v] \in Holding
               PROVE  lock'[LockOf[req'[v].app]] = v
    BY DEF MutexHeld, MutexOf
  <2>1. v # w
    BY <1>1 DEF Holding
  <2>2. pc'[v] = pc[v] /\ req'[v] = req[v]
    BY <1>1, <2>1 DEF TypeOK
  <2>3. lock[LockOf[req[v].app]] = v /\ lock[LockOf[req[w].app]] = w
    BY <2>2 DEF EngineInvariant, MutexHeld, MutexOf
  <2>4. LockOf[req[v].app] # LockOf[req[w].app]
    BY <2>1, <2>3
  <2> QED
    BY <2>2, <2>3, <2>4 DEF Release, MutexOf, TypeOK
<1> QED
  BY <1>1, <1>2, <1>3, OutsideInvariant

\* Crash preserves the inductive invariant.
LEMMA CrashInvariant ==
  ASSUME Crash
  PROVE  EngineInvariant'
BY DEF Crash, EngineInvariant, MutexHeld, CooldownChecked, ScheduleKnown,
       Holding, ResizeLabels

\* Environment preserves the inductive invariant.
LEMMA EnvironmentInvariant ==
  ASSUME TypeOK, EngineInvariant, Environment
  PROVE  EngineInvariant'
<1>1. /\ UNCHANGED <<activeSchedule, cooldown, lock, pc, req>>
      /\ clock' = clock \/ clock' = clock + 1
  BY DEF Environment, StartOrStopApp, ResizeByHand, ResizeLate, ResizeUnseen,
         ChangePolicy, Tick, engineDB
<1>2. \A w \in Worker :
        /\ pc[w] \in { "Scale.GetActiveSchedule", "Scale.GetAppPolicy",
                       "Scale.SetAppInstances" } => cooldown'[req[w].app] < clock'
  <2> SUFFICES ASSUME NEW w \in Worker,
                      pc[w] \in { "Scale.GetActiveSchedule", "Scale.GetAppPolicy",
                                  "Scale.SetAppInstances" }
               PROVE  cooldown'[req[w].app] < clock'
    OBVIOUS
  <2>1. cooldown[req[w].app] < clock
    BY DEF EngineInvariant, CooldownChecked
  <2>2. cooldown[req[w].app] \in Nat /\ clock \in Nat
    BY RequestOf DEF TypeOK
  <2> QED
    BY <1>1, <2>1, <2>2
<1>3. CooldownChecked'
  BY <1>1, <1>2 DEF CooldownChecked
<1>4. MutexHeld' /\ ScheduleKnown'
  BY <1>1 DEF EngineInvariant, MutexHeld, MutexOf, ScheduleKnown
<1> QED
  BY <1>3, <1>4 DEF EngineInvariant

\* Every step preserves the inductive invariant.
LEMMA NextInvariant == TypeOK /\ EngineInvariant /\ [Next]_vars => EngineInvariant'
<1> SUFFICES ASSUME TypeOK, EngineInvariant, [Next]_vars PROVE EngineInvariant'
  OBVIOUS
<1>1. ASSUME NEW w \in Worker, ReceiveRequest(w) PROVE EngineInvariant'
  BY <1>1, AcceptInvariant
     DEF ReceiveRequest, RequestScale, RequestSetActiveSchedule,
         RequestRemoveActiveSchedule, Waiting
<1>2. ASSUME NEW w \in Worker, Lock(w) PROVE EngineInvariant'
  BY <1>2, LockInvariant
<1>3. ASSUME NEW w \in Worker, Resizing(w) PROVE EngineInvariant'
  BY <1>3, SetAppInstancesInvariant, HoldingLabels
     DEF Resizing, ScaleSetAppInstances, SetSetAppInstances,
         RemoveSetAppInstances, ScaleLabels, SetLabels, RemoveLabels
<1>4. ASSUME NEW w \in Worker, Return(w) \/ Unlock(w) PROVE EngineInvariant'
  BY <1>4, ReleaseInvariant, HoldingLabels DEF Return, Unlock
<1>5. ASSUME NEW w \in Worker, Work(w) PROVE EngineInvariant'
  BY <1>3, <1>4, <1>5, ScaleGetAppInvariant, ScaleCanScaleAppInvariant,
     ScaleGetActiveScheduleInvariant, ScaleGetAppPolicyInvariant,
     UpdateCooldownInvariant, GetActiveScheduleInvariant,
     WriteScheduleInvariant, SetGetAppInvariant, RemoveGetAppInvariant,
     RemoveGetAppPolicyInvariant
     DEF Work
<1>6. CASE UNCHANGED vars
  BY <1>6 DEF vars, EngineInvariant, MutexHeld, MutexOf, CooldownChecked, ScheduleKnown
<1> QED
  BY <1>1, <1>2, <1>5, <1>6, CrashInvariant, EnvironmentInvariant DEF Next

\* The inductive invariant holds at the start: nobody holds a mutex.
LEMMA InitInvariant == Init => EngineInvariant
BY DEF Init, EngineInvariant, MutexHeld, CooldownChecked, ScheduleKnown,
       Holding, ResizeLabels

\* What the workers know while they hold their mutexes stays true: the inductive
\* invariant behind the theorems that follow.
THEOREM EngineInvariantHolds == Spec => []EngineInvariant
<1> QED
  BY InitInvariant, NextInvariant, TypeCorrect, PTL DEF Spec

\* No two requests for one app are ever between their Lock and their Unlock, for
\* any hash of apps to mutexes and any calls that fail.
THEOREM AppsAreExclusive == Spec => []AppExclusion
<1>1. TypeOK /\ EngineInvariant => AppExclusion
  BY Exclusion DEF AppExclusion, EngineInvariant
<1> QED
  BY <1>1, TypeCorrect, EngineInvariantHolds, PTL

\* A trigger resizes its app only after the cooldown: no request, crash, restart
\* or change by a user between CanScaleApp and SetAppInstances starts one.
THEOREM CooldownIsRespected == Spec => CooldownHolds
<1>1. EngineInvariant =>
        \A w \in Worker : ResizesApp(w) /\ pc[w] = "Scale.SetAppInstances"
                            => cooldown[req[w].app] < clock
  BY DEF EngineInvariant, CooldownChecked
<1> QED
  BY <1>1, EngineInvariantHolds, PTL DEF CooldownHolds

\* Of the steps that move a worker, only its call of SetAppInstances changes the
\* size of an app.
LEMMA OnlyResizing ==
  ASSUME TypeOK, [Next]_vars, NEW w \in Worker, ResizesApp(w)
  PROVE  Resize(w)
<1>1. instances' # instances /\ pc'[w] # pc[w]
  BY DEF ResizesApp
<1>2. \A v \in Worker : ~ReceiveRequest(v) /\ ~Lock(v)
  BY <1>1 DEF ReceiveRequest, RequestScale, RequestSetActiveSchedule,
              RequestRemoveActiveSchedule, Accept, Lock, ScaleLock, SetLock,
              RemoveLock, Acquire, cf
<1>3. ~Crash /\ ~Environment /\ ~UNCHANGED vars
  BY <1>1 DEF Crash, Environment, StartOrStopApp, ResizeByHand, ResizeLate,
              ResizeUnseen, ChangePolicy, Tick, cf, vars
<1>4. PICK v \in Worker : Work(v)
  BY <1>2, <1>3 DEF Next
<1>5. ~ReadOnly /\ ~AskSize(v)
  BY <1>1 DEF ReadOnly, AskSize, Reads, cf
<1>6. Resizing(v)
  BY <1>1, <1>4, <1>5
     DEF Work, ScaleGetApp, ScaleCanScaleApp, ScaleGetActiveSchedule,
         ScaleGetAppPolicy, ScaleDeleteCooldown, ScaleInsertCooldown,
         SetGetActiveSchedule, SetDeleteSchedule, SetInsertSchedule, SetGetApp,
         RemoveGetActiveSchedule, RemoveDeleteSchedule, RemoveGetApp,
         RemoveGetAppPolicy, Return, Unlock, Release, cf
<1>7. Resize(v) /\ \E l \in Labels : pc' = [pc EXCEPT ![v] = l]
  BY <1>1, <1>6 DEF Resizing, ScaleSetAppInstances, SetSetAppInstances,
                    RemoveSetAppInstances, SetAppInstances, Fail, GoTo,
                    Labels, ScaleLabels
<1>8. v = w
  BY <1>1, <1>7 DEF TypeOK
<1> QED
  BY <1>7, <1>8

\* An app with an active schedule is only ever resized to a number within the
\* limits of that schedule, whichever operation resizes it.
THEOREM LimitsAreRespected == Spec => ScheduleLimitsHold
<1>1. TypeOK /\ EngineInvariant /\ [Next]_vars =>
        \A w \in Worker :
          LET s == activeSchedule[req[w].app]
          IN  ResizesApp(w) /\ s # NoSchedule
                => instances'[req[w].app] \in s.min .. s.max
  <2> SUFFICES ASSUME TypeOK, EngineInvariant, [Next]_vars, NEW w \in Worker,
                      ResizesApp(w), activeSchedule[req[w].app] # NoSchedule
               PROVE  instances'[req[w].app] \in
                        activeSchedule[req[w].app].min .. activeSchedule[req[w].app].max
    OBVIOUS
  <2>1. instances'[req[w].app] = req[w].new
    <3>1. req[w].app \in App
      BY RequestOf DEF ResizesApp, ResizeLabels
    <3> QED
      BY <3>1, OnlyResizing DEF Resize, TypeOK
  <2>2. req[w].new \in activeSchedule[req[w].app].min .. activeSchedule[req[w].app].max
    BY DEF EngineInvariant, ScheduleKnown, ResizesApp
  <2> QED
    BY <2>1, <2>2
<1> QED
  BY <1>1, TypeCorrect, EngineInvariantHolds, PTL DEF ScheduleLimitsHold, Spec
-----------------------------------------------------------------------------
(***************************************************************************)
(* The history.  What a record says of its app is disturbed by nobody: the *)
(* other workers have other apps.                                          *)
(***************************************************************************)

\* All but worker w stay where they are, and w keeps its app.
OnlyMoves(w) ==
  /\ \A v \in Worker \ {w} : pc'[v] = pc[v] /\ req'[v] = req[v]
  /\ req'[w].app = req[w].app /\ req'[w].arg = req[w].arg
  /\ pc[w] \in Leaving => pc'[w] \in Leaving

\* All that records speak of stays as it is for other apps than a.
OnlyTouches(a) ==
  /\ \A b \in App \ {a} : /\ instances'[b] = instances[b]
                          /\ lastHistory'[b] = lastHistory[b]
                          /\ activeSchedule'[b] = activeSchedule[b]
                          /\ (b \in stale') = (b \in stale)
  /\ UNCHANGED clock

\* Who learns the size of an app is about to leave a row that names it.
LearnsToTell(w) ==
  UNCHANGED stale \/ (LearnSize(w) /\ pc'[w] \in Leaving)

\* The labels at which a record says something are those of a worker that holds
\* its mutex, but for a request to remove that still waits.
LEMMA SayingLabels ==
  /\ Stamped \cup Sized \cup Resized \cup Leaving \subseteq Holding
  /\ RemoveLabels \ {"Remove.SetAppInstances"} \subseteq Holding \cup {"Remove.Lock"}
  /\ Resized \subseteq Stamped /\ "Return" \in Leaving
BY DEF Stamped, Sized, Resized, Leaving, ResizeLabels, Holding, Labels, ScaleLabels, SetLabels,
       RemoveLabels, Waiting

\* The record of a worker is as true as it was if nothing happens to the worker and
\* to its app.
LEMMA RecordStays ==
  ASSUME RecordInvariant, NEW v \in Worker,
         pc'[v] = pc[v], req'[v] = req[v],
         pc[v] \in Holding =>
           /\ instances'[req[v].app] = instances[req[v].app]
           /\ lastHistory'[req[v].app] = lastHistory[req[v].app]
           /\ activeSchedule'[req[v].app] = activeSchedule[req[v].app]
           /\ (req[v].app \in stale') = (req[v].app \in stale),
         clock' = clock
  PROVE  RecordIsTrue(v)'
<1>1. RecordIsTrue(v)
  BY DEF RecordInvariant
<1>2. CASE pc[v] \in Holding
  BY <1>1, <1>2 DEF RecordIsTrue, Names
<1>3. CASE pc[v] \notin Holding
  BY <1>1, <1>3, SayingLabels DEF RecordIsTrue, Resized
<1> QED
  BY <1>2, <1>3

\* A step of a worker that holds its mutex preserves the invariant if the worker's
\* own record is true after it, and the row of its app.
LEMMA StepRecord ==
  ASSUME TypeOK, EngineInvariant, RecordInvariant, NEW w \in Worker,
         pc[w] \in Holding, OnlyMoves(w), NEW a \in App, a = req[w].app,
         OnlyTouches(a), RecordIsTrue(w)', RowIsTrue(a)'
  PROVE  RecordInvariant'
<1>1. ASSUME NEW v \in Worker \ {w} PROVE RecordIsTrue(v)'
  <2>1. ASSUME pc[v] \in Holding PROVE req[v].app \in App \ {a}
    <3>1. req[v].app \in App
      BY <2>1, RequestOf DEF Holding
    <3> QED
      BY <2>1, <3>1, Exclusion DEF EngineInvariant
  <2> QED
    BY <2>1, RecordStays DEF OnlyMoves, OnlyTouches
<1>2. ASSUME NEW b \in App \ {a} PROVE RowIsTrue(b)'
  <2>1. RowIsTrue(b)
    BY DEF RecordInvariant
  <2>2. UNCHANGED <<instances[b], lastHistory[b], clock>>
        /\ (b \in stale') = (b \in stale)
    BY DEF OnlyTouches
  <2>3. ASSUME NEW v \in Worker, pc[v] \in Leaving, req[v].app = b
        PROVE  pc'[v] \in Leaving /\ req'[v].app = b
    BY <2>3 DEF OnlyMoves
  <2> QED
    BY <2>1, <2>2, <2>3 DEF RowIsTrue, Names
<1>3. (\A v \in Worker : RecordIsTrue(v)') /\ (\A b \in App : RowIsTrue(b)')
  BY <1>1, <1>2
<1> QED
  BY <1>3 DEF RecordInvariant

\* The row of an app whose worker changes no instances and writes no row.
LEMMA RowStays ==
  ASSUME RecordInvariant, NEW w \in Worker, NEW a \in App, OnlyMoves(w),
         a = req[w].app, LearnsToTell(w),
         instances' = instances, lastHistory' = lastHistory, clock' = clock
  PROVE  RowIsTrue(a)'
<1>1. RowIsTrue(a)
  BY DEF RecordInvariant
<1>2. ASSUME NEW v \in Worker, pc[v] \in Leaving, req[v].app = a
      PROVE  pc'[v] \in Leaving /\ req'[v].app = a
  BY <1>2 DEF OnlyMoves
<1>3. CASE UNCHANGED stale
  BY <1>1, <1>2, <1>3 DEF RowIsTrue, Names
<1>4. CASE pc'[w] \in Leaving
  BY <1>1, <1>4 DEF RowIsTrue, OnlyMoves
<1> QED
  BY <1>3, <1>4 DEF LearnsToTell

\* What Fail, FailEarly and Decide do to a worker and its record.
LEMMA FailEffect ==
  ASSUME TypeOK, NEW w \in Worker, pc[w] # "idle", Fail(w)
  PROVE  /\ pc'[w] = "Return" /\ req'[w].status = "failed" /\ req'[w].err = "error"
         /\ req'[w].app = req[w].app /\ req'[w].arg = req[w].arg
         /\ req'[w].now = req[w].now /\ OnlyMoves(w)
BY RequestOf, SayingLabels DEF Fail, GoTo, TypeOK, Request, OnlyMoves

LEMMA FailEarlyEffect ==
  ASSUME TypeOK, NEW w \in Worker, pc[w] # "idle", pc[w] \notin Leaving, FailEarly(w)
  PROVE  pc'[w] = "Unlock" /\ OnlyMoves(w)
BY RequestOf DEF FailEarly, GoTo, TypeOK, Request, OnlyMoves

LEMMA DecideEffect ==
  ASSUME TypeOK, NEW w \in Worker, pc[w] # "idle",
         NEW old, NEW n, NEW label \in Leaving, Decide(w, old, n, label)
  PROVE  /\ \/ n = old /\ pc'[w] = "Return" /\ req'[w].status = "ignored"
            \/ n # old /\ pc'[w] = label
         /\ req'[w].new = n /\ req'[w].app = req[w].app
         /\ req'[w].arg = req[w].arg /\ req'[w].now = req[w].now
         /\ req'[w].err = req[w].err /\ OnlyMoves(w)
<1>1. /\ req[w] \in Request /\ req \in [Worker -> Request \cup {NoRequest}]
      /\ pc \in [Worker -> Labels]
  BY RequestOf DEF TypeOK
<1>2. CASE n = old
  <2> DEFINE r == [req[w] EXCEPT !.old = old, !.new = n, !.status = "ignored"]
  <2>1. pc' = [pc EXCEPT ![w] = "Return"] /\ req' = [req EXCEPT ![w] = r]
    BY <1>1, <1>2 DEF Decide, GoTo
  <2>2. /\ r.new = n /\ r.app = req[w].app /\ r.arg = req[w].arg
        /\ r.now = req[w].now /\ r.err = req[w].err /\ r.status = "ignored"
    BY <1>1 DEF Request
  <2> HIDE DEF r
  <2> QED
    BY <1>1, <1>2, <2>1, <2>2, SayingLabels DEF OnlyMoves
<1>3. CASE n # old
  <2> DEFINE r == [req[w] EXCEPT !.old = old, !.new = n]
  <2>1. pc' = [pc EXCEPT ![w] = label] /\ req' = [req EXCEPT ![w] = r]
    BY <1>1, <1>3 DEF Decide, GoTo
  <2>2. /\ r.new = n /\ r.app = req[w].app /\ r.arg = req[w].arg
        /\ r.now = req[w].now /\ r.err = req[w].err
    BY <1>1 DEF Request
  <2> HIDE DEF r
  <2> QED
    BY <1>1, <1>3, <2>1, <2>2 DEF OnlyMoves
<1> QED
  BY <1>2, <1>3

\* Steps that only read, and steps that fail, preserve the invariant.
LEMMA ReadRecord ==
  ASSUME TypeOK, EngineInvariant, RecordInvariant, NEW w \in Worker,
         pc[w] \in Holding, Reads, LearnsToTell(w), OnlyMoves(w), RecordIsTrue(w)'
  PROVE  RecordInvariant'
<1>1. UNCHANGED <<instances, lastHistory, activeSchedule, clock>>
  BY DEF Reads, cf, engineDB
<1>2. PICK a \in App : a = req[w].app
  BY RequestOf DEF Holding
<1>3. OnlyTouches(a)
  BY <1>1, <1>2 DEF OnlyTouches, LearnsToTell, LearnSize
<1>4. RowIsTrue(a)'
  BY <1>1, <1>2, RowStays
<1> QED
  BY <1>2, <1>3, <1>4, StepRecord

LEMMA FailRecord ==
  ASSUME TypeOK, EngineInvariant, RecordInvariant, NEW w \in Worker,
         pc[w] \in Stamped, Fail(w), OnlyTouches(req[w].app),
         UNCHANGED lastHistory
  PROVE  RecordInvariant'
<1>1. pc[w] \in Holding /\ pc[w] # "idle" /\ req[w].app \in App
  BY SayingLabels, RequestOf DEF Holding
<1>2. /\ pc'[w] = "Return" /\ req'[w].status = "failed" /\ req'[w].err = "error"
      /\ req'[w].app = req[w].app /\ req'[w].now = req[w].now /\ OnlyMoves(w)
  BY <1>1, FailEffect
<1>3. lastHistory[req[w].app].time <= req[w].now /\ req[w].now <= clock
  BY DEF RecordInvariant, RecordIsTrue
<1>4. RecordIsTrue(w)'
  BY <1>2, <1>3 DEF RecordIsTrue, Names, OnlyTouches, RemoveLabels, Sized
<1>5. PICK a \in App : a = req[w].app
  BY <1>1
<1>6. RowIsTrue(a)'
  <2>1. lastHistory[a].time <= clock
    BY DEF RecordInvariant, RowIsTrue
  <2> QED
    BY <1>2, <1>5, <2>1, SayingLabels DEF RowIsTrue, OnlyTouches
<1> QED
  BY <1>1, <1>2, <1>4, <1>5, <1>6, StepRecord

\* The same for a failure that leaves no record, which may have written the active
\* schedule of the app.
LEMMA FailEarlyRecord ==
  ASSUME TypeOK, EngineInvariant, RecordInvariant, NEW w \in Worker,
         pc[w] \in Holding \ Leaving, FailEarly(w), OnlyTouches(req[w].app),
         UNCHANGED <<instances, lastHistory, stale>>
  PROVE  RecordInvariant'
<1>1. pc[w] # "idle" /\ req[w].app \in App
  BY RequestOf DEF Holding
<1>2. pc'[w] = "Unlock" /\ OnlyMoves(w)
  BY <1>1, FailEarlyEffect
<1>3. RecordIsTrue(w)'
  BY <1>2 DEF RecordIsTrue, Stamped, Sized, Resized, ScaleLabels, RemoveLabels
<1>4. PICK a \in App : a = req[w].app
  BY <1>1
<1>5. RowIsTrue(a)'
  BY <1>2, <1>4, RowStays DEF OnlyTouches, LearnsToTell
<1> QED
  BY <1>2, <1>3, <1>4, <1>5, StepRecord

\* A decision is about the number of instances that the app has, and, if it follows
\* the start of a schedule, within its limits.
LEMMA DecideRecord ==
  ASSUME TypeOK, EngineInvariant, RecordInvariant, NEW w \in Worker,
         pc[w] \in Stamped \ Resized, NEW old, NEW n, NEW label \in ResizeLabels \cup {"Return"},
         label = "Return" => n = old,
         Decide(w, old, n, label), Reads, UNCHANGED stale \/ LearnSize(w),
         req[w].app \notin stale' => old = instances[req[w].app],
         req[w].arg \in Schedules /\ activeSchedule[req[w].app] # NoSchedule
           => /\ activeSchedule[req[w].app] = req[w].arg
              /\ n \in req[w].arg.min .. req[w].arg.max
  PROVE  RecordInvariant'
<1>1. pc[w] \in Holding /\ pc[w] # "idle" /\ req[w].app \in App
  BY SayingLabels, RequestOf DEF Holding
<1>2. /\ \/ n = old /\ pc'[w] = "Return" /\ req'[w].status = "ignored"
         \/ n # old /\ pc'[w] = label
      /\ req'[w].new = n /\ req'[w].app = req[w].app
      /\ req'[w].arg = req[w].arg /\ req'[w].now = req[w].now
      /\ req'[w].err = req[w].err /\ OnlyMoves(w)
  <2>1. label \in Leaving
    BY SayingLabels DEF Leaving
  <2> QED
    BY <1>1, <2>1, DecideEffect
<1>3. lastHistory[req[w].app].time <= req[w].now /\ req[w].now <= clock
  BY DEF RecordInvariant, RecordIsTrue
<1>4. UNCHANGED <<instances, lastHistory, activeSchedule, clock>> /\ LearnsToTell(w)
  BY <1>2, SayingLabels DEF Reads, cf, engineDB, LearnsToTell, Leaving
<1>5. CASE n = old /\ pc'[w] = "Return"
  <2>1. RecordIsTrue(w)'
    BY <1>2, <1>3, <1>4, <1>5 DEF RecordIsTrue, Names, RemoveLabels, Sized
  <2> QED
    BY <1>1, <1>2, <1>4, <2>1, ReadRecord
<1>6. CASE n # old /\ pc'[w] = label
  <2>1. label \in ResizeLabels
    BY <1>6
  <2>2. RecordIsTrue(w)'
    BY <1>2, <1>3, <1>4, <1>6, <2>1
       DEF RecordIsTrue, Names, RemoveLabels, Sized, Resized, ResizeLabels
  <2> QED
    BY <1>1, <1>2, <1>4, <2>2, ReadRecord
<1> QED
  BY <1>2, <1>5, <1>6

\* A trigger is not a schedule: they are records with other fields.
LEMMA TriggersApart ==
  ASSUME NEW t \in Triggers
  PROVE  t \notin Schedules
<1>1. "id" \notin DOMAIN t
  BY InputsAssumption
<1>2. \A s \in Schedules : "id" \in DOMAIN s
  BY LimitsAssumption
<1> QED
  BY <1>1, <1>2

\* A step that changes neither instances nor rows, and goes on to label l.
LEMMA GoOnRecord ==
  ASSUME TypeOK, EngineInvariant, RecordInvariant, NEW w \in Worker,
         pc[w] \in Holding, NEW l, GoTo(w, l), pc[w] \in Leaving => l \in Leaving,
         \A v \in Worker \ {w} : req'[v] = req[v],
         req'[w].app = req[w].app, req'[w].arg = req[w].arg,
         NEW a \in App, a = req[w].app,
         \A b \in App \ {a} : activeSchedule'[b] = activeSchedule[b],
         UNCHANGED <<instances, lastHistory, clock>>, LearnsToTell(w),
         RecordIsTrue(w)'
  PROVE  RecordInvariant'
<1>1. OnlyMoves(w) /\ OnlyTouches(a)
  BY DEF GoTo, OnlyMoves, OnlyTouches, LearnsToTell, LearnSize, TypeOK
<1>2. RowIsTrue(a)'
  BY <1>1, RowStays
<1> QED
  BY <1>1, <1>2, StepRecord

\* The steps of Scale.
LEMMA ScaleGetAppRecord ==
  ASSUME TypeOK, EngineInvariant, RecordInvariant, NEW w \in Worker, ScaleGetApp(w)
  PROVE  RecordInvariant'
<1>1. /\ pc[w] = "Scale.GetApp" /\ pc[w] \in Holding /\ pc[w] \in Stamped \ Resized
      /\ Reads /\ LearnSize(w)
      /\ UNCHANGED <<instances, lastHistory, activeSchedule, clock>>
  BY SayingLabels DEF ScaleGetApp, Stamped, Resized, ScaleLabels, AskSize,
                      Reads, cf, engineDB
<1>2. /\ req[w] \in Request /\ req[w].app \in App /\ req[w].arg \in Triggers
      /\ req \in [Worker -> Request \cup {NoRequest}]
  BY <1>1, RequestOf DEF TypeOK, ScaleLabels
<1>3. CASE Fail(w)
  BY <1>1, <1>3, FailRecord DEF OnlyTouches, LearnSize
<1>4. CASE /\ req' = [req EXCEPT ![w].old = instances[req[w].app]]
           /\ GoTo(w, "Scale.CanScaleApp")
  <2>1. /\ req'[w].app = req[w].app /\ req'[w].arg = req[w].arg
        /\ req'[w].now = req[w].now /\ req'[w].old = instances[req[w].app]
        /\ \A v \in Worker \ {w} : req'[v] = req[v]
    BY <1>2, <1>4 DEF Request
  <2>2. pc'[w] = "Scale.CanScaleApp"
    BY <1>4 DEF GoTo, TypeOK
  <2>3. lastHistory[req[w].app].time <= req[w].now /\ req[w].now <= clock
    BY <1>1 DEF RecordInvariant, RecordIsTrue
  <2>4. RecordIsTrue(w)'
    BY <1>1, <2>1, <2>2, <2>3 DEF RecordIsTrue, RemoveLabels, Resized
  <2>5. PICK a \in App : a = req[w].app
    BY <1>2
  <2> QED
    BY <1>1, <1>4, <2>1, <2>2, <2>4, <2>5, GoOnRecord
       DEF LearnsToTell, Leaving, Sized
<1>5. CASE Decide(w, instances[req[w].app], instances[req[w].app], "Return")
  BY <1>1, <1>2, <1>5, DecideRecord, TriggersApart
<1> QED
  BY <1>3, <1>4, <1>5 DEF ScaleGetApp

LEMMA ScaleCanScaleAppRecord ==
  ASSUME TypeOK, EngineInvariant, RecordInvariant, NEW w \in Worker, ScaleCanScaleApp(w)
  PROVE  RecordInvariant'
<1>1. /\ pc[w] = "Scale.CanScaleApp" /\ pc[w] \in Holding /\ pc[w] \in Stamped \ Resized
      /\ ReadOnly /\ Reads /\ LearnsToTell(w)
      /\ UNCHANGED <<stale, instances, lastHistory, activeSchedule, clock>>
  BY SayingLabels
     DEF ScaleCanScaleApp, Stamped, Resized, ScaleLabels, ReadOnly,
         Reads, LearnsToTell, cf, engineDB
<1>2. req[w] \in Request /\ req[w].app \in App /\ req[w].arg \in Triggers
  BY <1>1, RequestOf DEF TypeOK, ScaleLabels
<1>3. RecordIsTrue(w)
  BY DEF RecordInvariant
<1>4. CASE Fail(w)
  BY <1>1, <1>4, FailRecord DEF OnlyTouches
<1>5. CASE Decide(w, req[w].old, req[w].old, "Return")
  <2>1. req[w].app \notin stale' => req[w].old = instances[req[w].app]
    BY <1>1, <1>3 DEF RecordIsTrue, Sized
  <2> QED
    BY <1>1, <1>2, <1>5, <2>1, DecideRecord, TriggersApart
<1>6. CASE GoTo(w, "Scale.GetActiveSchedule") /\ UNCHANGED req
  <2>1. pc'[w] = "Scale.GetActiveSchedule"
    BY <1>6 DEF GoTo, TypeOK
  <2>2. RecordIsTrue(w)'
    BY <1>1, <1>3, <1>6, <2>1
       DEF RecordIsTrue, Stamped, ScaleLabels, RemoveLabels, Sized, Resized
  <2>3. PICK a \in App : a = req[w].app
    BY <1>2
  <2> QED
    BY <1>1, <1>6, <2>2, <2>3, GoOnRecord DEF Leaving, Sized
<1> QED
  BY <1>4, <1>5, <1>6 DEF ScaleCanScaleApp

\* Scale decides by the limits of the schedule or of the policy.
LEMMA DecideScaleRecord ==
  ASSUME TypeOK, EngineInvariant, RecordInvariant, NEW w \in Worker,
         pc[w] \in {"Scale.GetActiveSchedule", "Scale.GetAppPolicy"},
         NEW limits, DecideScale(w, limits), ReadOnly
  PROVE  RecordInvariant'
<1>1. pc[w] \in Stamped \ Resized /\ pc[w] \in Sized
  BY DEF Stamped, Resized, Sized, ScaleLabels
<1>2. req[w].arg \notin Schedules
  BY TriggersApart DEF TypeOK, ScaleLabels
<1>3. req[w].app \notin stale' => req[w].old = instances[req[w].app]
  BY <1>1 DEF RecordInvariant, RecordIsTrue, ReadOnly
<1>4. PICK wanted \in ComputeNewInstances(req[w].old, req[w].arg.adjustment) :
             Decide(w, req[w].old, Limit(wanted, limits.min, limits.max),
                    "Scale.SetAppInstances")
  BY DEF DecideScale
<1> QED
  BY <1>1, <1>2, <1>3, <1>4, DecideRecord DEF ResizeLabels, ReadOnly

LEMMA ScaleLimitsRecord ==
  ASSUME TypeOK, EngineInvariant, RecordInvariant, NEW w \in Worker,
         ScaleGetActiveSchedule(w) \/ ScaleGetAppPolicy(w)
  PROVE  RecordInvariant'
<1>1. /\ pc[w] \in {"Scale.GetActiveSchedule", "Scale.GetAppPolicy"}
      /\ pc[w] \in Stamped \ Resized /\ pc[w] \in Holding /\ ReadOnly
      /\ LearnsToTell(w)
      /\ UNCHANGED <<stale, instances, lastHistory, activeSchedule, clock>>
  BY SayingLabels DEF ScaleGetActiveSchedule, ScaleGetAppPolicy, Stamped, Resized,
                      ScaleLabels, ReadOnly, Reads, LearnsToTell, cf, engineDB
<1>2. req[w].app \in App
  BY <1>1, RequestOf
<1>3. CASE Fail(w)
  BY <1>1, <1>3, FailRecord DEF OnlyTouches
<1>4. ASSUME NEW limits, DecideScale(w, limits) PROVE RecordInvariant'
  BY <1>1, <1>4, DecideScaleRecord
<1>5. CASE /\ pc[w] = "Scale.GetActiveSchedule"
           /\ GoTo(w, "Scale.GetAppPolicy") /\ UNCHANGED req
  <2>1. pc'[w] = "Scale.GetAppPolicy"
    BY <1>5 DEF GoTo, TypeOK
  <2>2. RecordIsTrue(w)
    BY DEF RecordInvariant
  <2>3. RecordIsTrue(w)'
    BY <1>1, <1>5, <2>1, <2>2
       DEF RecordIsTrue, Stamped, ScaleLabels, RemoveLabels, Sized, Resized
  <2>4. PICK a \in App : a = req[w].app
    BY <1>2
  <2> QED
    BY <1>1, <1>5, <2>3, <2>4, GoOnRecord DEF Leaving, Sized
<1> QED
  BY <1>3, <1>4, <1>5 DEF ScaleGetActiveSchedule, ScaleGetAppPolicy

LEMMA CooldownRecord ==
  ASSUME TypeOK, EngineInvariant, RecordInvariant, NEW w \in Worker,
         ScaleDeleteCooldown(w) \/ ScaleInsertCooldown(w)
  PROVE  RecordInvariant'
<1>1. /\ pc[w] \in {"Scale.DeleteCooldown", "Scale.InsertCooldown"}
      /\ pc[w] \in Resized \cap Stamped /\ pc[w] \in Holding
      /\ LearnsToTell(w)
      /\ UNCHANGED <<stale, req, instances, lastHistory, activeSchedule, clock>>
  BY SayingLabels DEF ScaleDeleteCooldown, ScaleInsertCooldown, Resized, Stamped,
                      ScaleLabels, LearnsToTell, cf
<1>2. req[w].app \in App /\ req[w].arg \notin Schedules
  BY <1>1, RequestOf, TriggersApart DEF TypeOK, ScaleLabels
<1>3. PICK l \in {"Return", "Scale.InsertCooldown"} : GoTo(w, l)
  BY DEF ScaleDeleteCooldown, ScaleInsertCooldown
<1>4. pc'[w] = l
  BY <1>3 DEF GoTo, TypeOK
<1>5. RecordIsTrue(w)
  BY DEF RecordInvariant
<1>6. RecordIsTrue(w)'
  BY <1>1, <1>2, <1>4, <1>5 DEF RecordIsTrue, RemoveLabels, Sized, Resized
<1>7. PICK a \in App : a = req[w].app
  BY <1>2
<1> QED
  BY <1>1, <1>3, <1>6, <1>7, GoOnRecord DEF Resized, Leaving

\* The call that resizes the app.  A failure of it is recorded as one; a success is
\* recorded with the number that the app then has.
LEMMA SetAppInstancesRecord ==
  ASSUME TypeOK, EngineInvariant, RecordInvariant, NEW w \in Worker,
         pc[w] \in ResizeLabels,
         NEW next \in {"Return", "Scale.DeleteCooldown"}, SetAppInstances(w, next)
  PROVE  RecordInvariant'
<1>1. /\ pc[w] \in Stamped \ Resized /\ pc[w] \in Holding /\ pc[w] # "idle"
      /\ UNCHANGED <<lastHistory, activeSchedule, clock>>
  BY SayingLabels DEF ResizeLabels, Stamped, Resized, ScaleLabels, Holding,
                      SetAppInstances, engineDB
<1>2. /\ req[w] \in Request /\ req[w].app \in App
      /\ req \in [Worker -> Request \cup {NoRequest}]
  BY <1>1, RequestOf
<1>3. OnlyTouches(req[w].app)
  BY <1>1, <1>2 DEF SetAppInstances, Resize, LearnSize, OnlyTouches, TypeOK
<1>4. CASE Fail(w)
  BY <1>1, <1>3, <1>4, FailRecord
<1>5. CASE /\ Resize(w) /\ LearnSize(w) /\ GoTo(w, next)
           /\ req' = [req EXCEPT ![w].status = "succeeded"]
  <2>1. /\ req'[w].app = req[w].app /\ req'[w].arg = req[w].arg
        /\ req'[w].now = req[w].now /\ req'[w].new = req[w].new
        /\ \A v \in Worker \ {w} : req'[v] = req[v]
    BY <1>2, <1>5 DEF Request
  <2>2. pc'[w] = next /\ next \in Resized /\ next \in Leaving
    BY <1>5 DEF GoTo, TypeOK, Resized, Leaving
  <2>3. OnlyMoves(w)
    BY <1>5, <2>1, <2>2 DEF OnlyMoves, GoTo, TypeOK
  <2>4. instances'[req[w].app] = req[w].new
    BY <1>2, <1>5 DEF Resize, TypeOK
  <2>5. lastHistory[req[w].app].time <= req[w].now /\ req[w].now <= clock
    BY <1>1 DEF RecordInvariant, RecordIsTrue
  <2>6. ASSUME req[w].arg \in Schedules, activeSchedule[req[w].app] # NoSchedule
        PROVE  /\ activeSchedule[req[w].app] = req[w].arg
               /\ req[w].new \in req[w].arg.min .. req[w].arg.max
    <3>1. pc[w] # "Scale.SetAppInstances"
      BY <2>6, TriggersApart DEF TypeOK, ScaleLabels
    <3>2. WorkerKnows(w)
      BY KnowledgeOfWorkers DEF EngineInvariant
    <3> QED
      BY <2>6, <3>1, <3>2 DEF WorkerKnows, ScheduleOf, ResizeLabels
  <2>7. RecordIsTrue(w)'
    BY <1>1, <2>1, <2>2, <2>4, <2>5, <2>6
       DEF RecordIsTrue, RemoveLabels, Sized
  <2>8. PICK a \in App : a = req[w].app
    BY <1>2
  <2>9. RowIsTrue(a)'
    <3>1. lastHistory[a].time <= clock
      BY DEF RecordInvariant, RowIsTrue
    <3> QED
      BY <1>1, <2>1, <2>2, <2>8, <3>1 DEF RowIsTrue
  <2> QED
    BY <1>1, <1>3, <2>3, <2>7, <2>8, <2>9, StepRecord
<1> QED
  BY <1>4, <1>5 DEF SetAppInstances

\* The steps of SetActiveSchedule and RemoveActiveSchedule.
LEMMA GetActiveScheduleRecord ==
  ASSUME TypeOK, EngineInvariant, RecordInvariant, NEW w \in Worker,
         SetGetActiveSchedule(w) \/ RemoveGetActiveSchedule(w)
  PROVE  RecordInvariant'
<1>1. /\ pc[w] \in {"Set.GetActiveSchedule", "Remove.GetActiveSchedule"}
      /\ pc[w] \in Holding \ Leaving /\ LearnsToTell(w)
      /\ UNCHANGED <<stale, instances, lastHistory, activeSchedule, clock>>
  BY HoldingLabels DEF SetGetActiveSchedule, RemoveGetActiveSchedule, Leaving,
                       Sized, Resized, ResizeLabels, SetLabels, RemoveLabels,
                       ReadOnly, Reads, LearnsToTell, cf, engineDB
<1>2. req[w].app \in App
  BY <1>1, RequestOf DEF Holding
<1>3. CASE FailEarly(w)
  BY <1>1, <1>3, FailEarlyRecord DEF OnlyTouches
<1>4. ASSUME NEW l \in {"Unlock", "Set.DeleteSchedule", "Remove.DeleteSchedule"},
             GoTo(w, l), UNCHANGED req,
             l = "Remove.DeleteSchedule" => pc[w] = "Remove.GetActiveSchedule"
      PROVE  RecordInvariant'
  <2>1. pc'[w] = l
    BY <1>4 DEF GoTo, TypeOK
  <2>2. RecordIsTrue(w)
    BY DEF RecordInvariant
  <2>3. RecordIsTrue(w)'
    BY <1>1, <1>4, <2>1, <2>2
       DEF RecordIsTrue, Stamped, ScaleLabels, RemoveLabels, Sized, Resized
  <2>4. PICK a \in App : a = req[w].app
    BY <1>2
  <2> QED
    BY <1>1, <1>4, <2>3, <2>4, GoOnRecord
<1> QED
  BY <1>3, <1>4 DEF SetGetActiveSchedule, RemoveGetActiveSchedule

LEMMA WriteScheduleRecord ==
  ASSUME TypeOK, EngineInvariant, RecordInvariant, NEW w \in Worker,
         \/ SetDeleteSchedule(w) \/ SetInsertSchedule(w)
         \/ RemoveDeleteSchedule(w)
  PROVE  RecordInvariant'
<1>1. /\ pc[w] \in { "Set.DeleteSchedule", "Set.InsertSchedule",
                     "Remove.DeleteSchedule" }
      /\ pc[w] \in Holding \ Leaving /\ LearnsToTell(w)
      /\ UNCHANGED <<stale, instances, lastHistory, clock>>
  BY HoldingLabels DEF SetDeleteSchedule, SetInsertSchedule, RemoveDeleteSchedule,
                       Leaving, Sized, Resized, ResizeLabels, SetLabels,
                       RemoveLabels, LearnsToTell, cf
<1>2. /\ req[w] \in Request /\ req[w].app \in App
      /\ req \in [Worker -> Request \cup {NoRequest}]
  BY <1>1, RequestOf DEF Holding
<1>3. PICK a \in App : a = req[w].app
  BY <1>2
<1>4. \A b \in App \ {a} : activeSchedule'[b] = activeSchedule[b]
  BY <1>3 DEF SetDeleteSchedule, SetInsertSchedule, RemoveDeleteSchedule,
              PutSchedule, TypeOK
<1>5. CASE FailEarly(w)
  BY <1>1, <1>3, <1>4, <1>5, FailEarlyRecord DEF OnlyTouches
<1>6. RecordIsTrue(w) /\ lastHistory[a].time <= clock /\ clock \in Nat
  BY DEF RecordInvariant, RowIsTrue, TypeOK
<1>7. CASE GoTo(w, "Set.InsertSchedule") /\ UNCHANGED req
  <2>1. pc'[w] = "Set.InsertSchedule"
    BY <1>7 DEF GoTo, TypeOK
  <2>2. RecordIsTrue(w)'
    BY <2>1 DEF RecordIsTrue, Stamped, ScaleLabels, RemoveLabels, Sized, Resized
  <2> QED
    BY <1>1, <1>3, <1>4, <1>7, <2>2, GoOnRecord
<1>8. ASSUME NEW l \in {"Set.GetApp", "Remove.GetApp"}, GoTo(w, l),
             req' = [req EXCEPT ![w].now = clock],
             l = "Remove.GetApp" => pc[w] = "Remove.DeleteSchedule"
      PROVE  RecordInvariant'
  <2>1. /\ req'[w].app = req[w].app /\ req'[w].arg = req[w].arg
        /\ req'[w].new = req[w].new /\ req'[w].now = clock
        /\ \A v \in Worker \ {w} : req'[v] = req[v]
    BY <1>2, <1>8 DEF Request
  <2>2. pc'[w] = l
    BY <1>8 DEF GoTo, TypeOK
  <2>3. RecordIsTrue(w)'
    BY <1>1, <1>3, <1>6, <1>8, <2>1, <2>2
       DEF RecordIsTrue, RemoveLabels, Sized, Resized
  <2> QED
    BY <1>1, <1>3, <1>4, <1>8, <2>1, <2>3, GoOnRecord
<1> QED
  BY <1>5, <1>7, <1>8 DEF SetDeleteSchedule, SetInsertSchedule, RemoveDeleteSchedule

LEMMA SetGetAppRecord ==
  ASSUME TypeOK, EngineInvariant, RecordInvariant, NEW w \in Worker, SetGetApp(w)
  PROVE  RecordInvariant'
<1> DEFINE n == instances[req[w].app]
           s == req[w].arg
           m == Limit(n, InitialMin(s), s.max)
<1>1. /\ pc[w] = "Set.GetApp" /\ pc[w] \in Stamped \ Resized /\ Reads /\ LearnSize(w)
      /\ UNCHANGED <<instances, lastHistory, activeSchedule, clock>>
  BY DEF SetGetApp, Stamped, Resized, AskSize, Reads, cf, engineDB
<1>2. n \in Int /\ s \in Schedules
  BY <1>1, RequestOf DEF TypeOK, SetLabels
<1>3. CASE Fail(w)
  BY <1>1, <1>3, FailRecord DEF OnlyTouches, LearnSize
<1>4. CASE Decide(w, n, m, "Set.SetAppInstances")
  <2>1. m \in s.min .. s.max
    BY <1>2, LimitOfSchedule
  <2>2. activeSchedule[req[w].app] = s
    BY <1>1, KnowledgeOfWorkers DEF EngineInvariant, WorkerKnows, ScheduleOf
  <2> HIDE DEF m
  <2> QED
    BY <1>1, <1>4, <2>1, <2>2, DecideRecord DEF ResizeLabels
<1> QED
  BY <1>3, <1>4 DEF SetGetApp

LEMMA RemoveGetAppRecord ==
  ASSUME TypeOK, EngineInvariant, RecordInvariant, NEW w \in Worker, RemoveGetApp(w)
  PROVE  RecordInvariant'
<1>1. /\ pc[w] = "Remove.GetApp" /\ pc[w] \in Stamped \ Resized /\ pc[w] \in Holding
      /\ Reads /\ LearnSize(w)
      /\ UNCHANGED <<instances, lastHistory, activeSchedule, clock>>
  BY SayingLabels DEF RemoveGetApp, Stamped, Resized, AskSize, Reads,
                      cf, engineDB
<1>2. /\ req[w] \in Request /\ req[w].app \in App
      /\ req \in [Worker -> Request \cup {NoRequest}]
  BY <1>1, RequestOf
<1>3. CASE Fail(w)
  BY <1>1, <1>3, FailRecord DEF OnlyTouches, LearnSize
<1>4. CASE /\ req' = [req EXCEPT ![w].old = instances[req[w].app]]
           /\ GoTo(w, "Remove.GetAppPolicy")
  <2>1. /\ req'[w].app = req[w].app /\ req'[w].arg = req[w].arg
        /\ req'[w].now = req[w].now /\ req'[w].old = instances[req[w].app]
        /\ req'[w].new = req[w].new
        /\ \A v \in Worker \ {w} : req'[v] = req[v]
    BY <1>2, <1>4 DEF Request
  <2>2. pc'[w] = "Remove.GetAppPolicy"
    BY <1>4 DEF GoTo, TypeOK
  <2>3. RecordIsTrue(w)
    BY DEF RecordInvariant
  <2>4. RecordIsTrue(w)'
    BY <1>1, <2>1, <2>2, <2>3 DEF RecordIsTrue, RemoveLabels, Resized
  <2>5. PICK a \in App : a = req[w].app
    BY <1>2
  <2> QED
    BY <1>1, <1>4, <2>1, <2>2, <2>4, <2>5, GoOnRecord
       DEF LearnsToTell, Leaving, Sized
<1> QED
  BY <1>3, <1>4 DEF RemoveGetApp

LEMMA RemoveGetAppPolicyRecord ==
  ASSUME TypeOK, EngineInvariant, RecordInvariant, NEW w \in Worker,
         RemoveGetAppPolicy(w)
  PROVE  RecordInvariant'
<1> DEFINE p == policy[req[w].app]
           n == req[w].old
           m == Limit(n, p.min, p.max)
<1>1. /\ pc[w] = "Remove.GetAppPolicy" /\ pc[w] \in Stamped \ Resized
      /\ pc[w] \in Holding /\ ReadOnly /\ Reads /\ LearnsToTell(w)
      /\ UNCHANGED <<stale, instances, lastHistory, activeSchedule, clock>>
  BY SayingLabels
     DEF RemoveGetAppPolicy, Stamped, Resized, ReadOnly, Reads,
         LearnsToTell, cf, engineDB
<1>2. /\ req[w] \in Request /\ req[w].app \in App
      /\ req \in [Worker -> Request \cup {NoRequest}]
  BY <1>1, RequestOf
<1>3. RecordIsTrue(w)
  BY DEF RecordInvariant
<1>4. activeSchedule[req[w].app] = NoSchedule
  BY <1>1, KnowledgeOfWorkers DEF EngineInvariant, WorkerKnows, ScheduleOf
<1>5. CASE Fail(w)
  BY <1>1, <1>5, FailRecord DEF OnlyTouches
<1>6. CASE Finish(w, "ignored")
  <2>1. /\ req'[w].app = req[w].app /\ req'[w].arg = req[w].arg
        /\ req'[w].now = req[w].now /\ req'[w].new = req[w].new
        /\ \A v \in Worker \ {w} : req'[v] = req[v]
    BY <1>2, <1>6 DEF Finish, Request
  <2>2. pc'[w] = "Return" /\ GoTo(w, "Return")
    BY <1>6 DEF Finish, GoTo, TypeOK
  <2>3. req[w].new = -1
    BY <1>1, <1>3 DEF RecordIsTrue, RemoveLabels
  <2>4. RecordIsTrue(w)'
    BY <1>1, <1>3, <1>4, <2>1, <2>2, <2>3 DEF RecordIsTrue, Names, RemoveLabels, Sized
  <2>5. PICK a \in App : a = req[w].app
    BY <1>2
  <2> QED
    BY <1>1, <2>1, <2>2, <2>4, <2>5, GoOnRecord, SayingLabels
<1>7. CASE Decide(w, n, m, "Remove.SetAppInstances")
  <2>1. req[w].app \notin stale' => n = instances[req[w].app]
    BY <1>1, <1>3 DEF RecordIsTrue, Sized
  <2> HIDE DEF m
  <2> QED
    BY <1>1, <1>4, <1>7, <2>1, DecideRecord DEF ResizeLabels
<1> QED
  BY <1>5, <1>6, <1>7 DEF RemoveGetAppPolicy

\* A worker without the mutex has no record that says anything.
LEMMA AcceptRecord ==
  ASSUME TypeOK, RecordInvariant, NEW w \in Worker, NEW a \in App, NEW arg,
         NEW label \in Waiting, Accept(w, a, arg, label)
  PROVE  RecordInvariant'
<1> DEFINE r == [ app |-> a, arg |-> arg, now |-> 0, old |-> -1, new |-> -1,
                  status |-> "none", err |-> "nil" ]
<1>1. /\ pc' = [pc EXCEPT ![w] = label] /\ req' = [req EXCEPT ![w] = r]
      /\ pc[w] = "idle"
      /\ UNCHANGED <<stale, instances, lastHistory, activeSchedule, clock>>
  BY DEF Accept, GoTo, cf, engineDB
<1>2. ASSUME NEW v \in Worker \ {w} PROVE RecordIsTrue(v)'
  BY <1>1, RecordStays DEF TypeOK
<1>3. RecordIsTrue(w)'
  <2>1. pc'[w] = label /\ req'[w].new = -1
    BY <1>1 DEF TypeOK
  <2> QED
    BY <2>1 DEF RecordIsTrue, Waiting, Stamped, ScaleLabels, Sized, Resized
<1>4. ASSUME NEW b \in App PROVE RowIsTrue(b)'
  <2>1. RowIsTrue(b)
    BY DEF RecordInvariant
  <2>2. ASSUME NEW v \in Worker, pc[v] \in Leaving, req[v].app = b
        PROVE  pc'[v] \in Leaving /\ req'[v].app = b
    BY <1>1, <2>2 DEF Leaving, Sized, Resized, ResizeLabels, TypeOK
  <2> QED
    BY <1>1, <2>1, <2>2 DEF RowIsTrue, Names
<1>5. \A v \in Worker : RecordIsTrue(v)'
  BY <1>2, <1>3
<1> QED
  BY <1>4, <1>5 DEF RecordInvariant

\* The timestamp that Scale takes is not earlier than any row of the history.
LEMMA LockRecord ==
  ASSUME TypeOK, RecordInvariant, NEW w \in Worker, Lock(w)
  PROVE  RecordInvariant'
<1>1. /\ pc[w] \in Waiting /\ pc[w] # "idle"
      /\ UNCHANGED <<stale, instances, lastHistory, activeSchedule, clock>>
  BY DEF Lock, ScaleLock, SetLock, RemoveLock, Waiting, Acquire, cf, engineDB
<1>2. /\ req[w] \in Request /\ req[w].app \in App
      /\ req \in [Worker -> Request \cup {NoRequest}]
  BY <1>1, RequestOf
<1>3. /\ \A v \in Worker \ {w} : pc'[v] = pc[v] /\ req'[v] = req[v]
      /\ req'[w].app = req[w].app /\ req'[w].new = req[w].new
      /\ \/ pc'[w] = "Scale.GetApp" /\ req'[w].now = clock
         \/ pc'[w] = "Set.GetActiveSchedule"
         \/ pc'[w] = "Remove.GetActiveSchedule" /\ pc[w] = "Remove.Lock"
  BY <1>2 DEF Lock, ScaleLock, SetLock, RemoveLock, GoTo, TypeOK, Request
<1>4. ASSUME NEW v \in Worker \ {w} PROVE RecordIsTrue(v)'
  BY <1>1, <1>3, RecordStays
<1>5. RecordIsTrue(w)'
  <2>1. RecordIsTrue(w) /\ lastHistory[req[w].app].time <= clock /\ clock \in Nat
    BY <1>2 DEF RecordInvariant, RowIsTrue, TypeOK
  <2> QED
    BY <1>1, <1>3, <2>1
       DEF RecordIsTrue, Stamped, ScaleLabels, RemoveLabels, Sized, Resized
<1>6. ASSUME NEW b \in App PROVE RowIsTrue(b)'
  <2>1. RowIsTrue(b)
    BY DEF RecordInvariant
  <2>2. ASSUME NEW v \in Worker, pc[v] \in Leaving, req[v].app = b
        PROVE  pc'[v] \in Leaving /\ req'[v].app = b
    BY <1>1, <1>3, <2>2 DEF Leaving, Sized, Resized, ResizeLabels, Waiting
  <2> QED
    BY <1>1, <2>1, <2>2 DEF RowIsTrue, Names
<1>7. \A v \in Worker : RecordIsTrue(v)'
  BY <1>4, <1>5
<1> QED
  BY <1>6, <1>7 DEF RecordInvariant

\* An operation leaves the row that it is about to write, or the row that there was
\* if it did nothing to the app.
LEMMA ReturnRecord ==
  ASSUME TypeOK, EngineInvariant, RecordInvariant, NEW w \in Worker,
         Return(w) \/ Unlock(w)
  PROVE  RecordInvariant'
<1>1. /\ pc[w] \in {"Return", "Unlock"} /\ pc[w] \in Holding /\ pc[w] # "idle"
      /\ UNCHANGED <<stale, instances, activeSchedule, clock>>
  BY HoldingLabels DEF Return, Unlock, Release, cf
<1>2. /\ req[w] \in Request /\ req[w].app \in App
      /\ req \in [Worker -> Request \cup {NoRequest}]
  BY <1>1, RequestOf
<1>3. /\ \A v \in Worker \ {w} : pc'[v] = pc[v] /\ req'[v] = req[v]
      /\ pc'[w] = "idle"
      /\ \A b \in App \ {req[w].app} : lastHistory'[b] = lastHistory[b]
  BY DEF Return, Unlock, Release, GoTo, TypeOK
<1>4. ASSUME NEW v \in Worker \ {w} PROVE RecordIsTrue(v)'
  <2>1. ASSUME pc[v] \in Holding PROVE lastHistory'[req[v].app] = lastHistory[req[v].app]
    <3>1. req[v].app \in App
      BY <2>1, RequestOf DEF Holding
    <3> QED
      BY <1>1, <1>3, <2>1, <3>1, Exclusion DEF EngineInvariant
  <2> QED
    BY <1>1, <1>3, <2>1, RecordStays
<1>5. RecordIsTrue(w)'
  BY <1>3 DEF RecordIsTrue, Stamped, ScaleLabels, RemoveLabels, Sized, Resized
<1>6. ASSUME NEW b \in App PROVE RowIsTrue(b)'
  <2>1. RowIsTrue(b) /\ RecordIsTrue(w)
    BY DEF RecordInvariant
  <2>2. ASSUME NEW v \in Worker \ {w}, pc[v] \in Leaving, req[v].app = b
        PROVE  pc'[v] \in Leaving /\ req'[v].app = b
    BY <1>3, <2>2
  <2>3. CASE b # req[w].app
    BY <1>1, <1>3, <2>1, <2>2, <2>3 DEF RowIsTrue, Names
  <2>4. CASE b = req[w].app /\ lastHistory' = lastHistory /\ pc[w] = "Unlock"
    BY <1>1, <2>1, <2>2, <2>4 DEF RowIsTrue, Names, Leaving, Sized, Resized, ResizeLabels
  <2>5. CASE b = req[w].app /\ Return(w)
    <3>1. CASE lastHistory' = [lastHistory EXCEPT ![b] = HistoryOf(w)]
      <4>1. /\ lastHistory'[b].time = req[w].now
            /\ lastHistory'[b].new = req[w].new
            /\ lastHistory'[b].status = req[w].status
        BY <3>1 DEF HistoryOf, TypeOK
      <4>2. pc[w] \in Stamped \cap Resized
        BY <2>5 DEF Return, Stamped, Resized
      <4> QED
        BY <1>1, <2>1, <2>5, <4>1, <4>2 DEF RowIsTrue, RecordIsTrue, Names, Recorded
    <3>2. CASE "SaveScalingHistory" \in Failing /\ UNCHANGED lastHistory
      BY <1>1, <2>1, <3>2 DEF RowIsTrue, Recorded
    <3> QED
      BY <2>5, <3>1, <3>2 DEF Return
  <2> QED
    BY <2>3, <2>4, <2>5 DEF Unlock
<1>7. \A v \in Worker : RecordIsTrue(v)'
  BY <1>4, <1>5
<1> QED
  BY <1>6, <1>7 DEF RecordInvariant

\* A crash leaves no record behind.
LEMMA CrashRecord ==
  ASSUME RecordInvariant, Crash
  PROVE  RecordInvariant'
<1>1. /\ \A w \in Worker : pc'[w] = "idle"
      /\ UNCHANGED <<lastHistory, clock>> /\ "Crash" \in Failing
  BY DEF Crash, engineDB
<1>2. \A w \in Worker : RecordIsTrue(w)'
  BY <1>1 DEF RecordIsTrue, Stamped, ScaleLabels, RemoveLabels, Sized, Resized
<1>3. \A a \in App : RowIsTrue(a)'
  BY <1>1 DEF RecordInvariant, RowIsTrue, Recorded
<1> QED
  BY <1>2, <1>3 DEF RecordInvariant

\* Nor do users, late requests and time make a record untrue: an app that they resize
\* is stale, and nothing is said of it.
LEMMA EnvironmentRecord ==
  ASSUME TypeOK, RecordInvariant, Environment
  PROVE  RecordInvariant'
<1>1. /\ UNCHANGED <<lastHistory, activeSchedule, pc, req>>
      /\ clock \in Nat /\ (clock' = clock \/ clock' = clock + 1)
  BY DEF Environment, StartOrStopApp, ResizeByHand, ResizeLate, ResizeUnseen,
         ChangePolicy, Tick, engineDB, TypeOK
<1>2. ASSUME NEW a \in App, a \notin stale'
      PROVE  a \notin stale /\ instances'[a] = instances[a]
  <2>1. ASSUME NEW b, NEW n, ResizeUnseen(b, n)
        PROVE  a \notin stale /\ instances'[a] = instances[a]
    BY <1>2, <2>1 DEF ResizeUnseen, TypeOK
  <2>2. CASE UNCHANGED <<instances, stale>>
    BY <1>2, <2>2
  <2> QED
    BY <2>1, <2>2 DEF Environment, StartOrStopApp, ResizeByHand, ResizeLate,
                      ChangePolicy, Tick, cf
<1>3. ASSUME NEW w \in Worker PROVE RecordIsTrue(w)'
  <2>1. RecordIsTrue(w)
    BY DEF RecordInvariant
  <2>2. pc[w] \in Holding => req[w].now \in Nat /\ req[w].app \in App
    BY RequestOf DEF Request, Holding
  <2>3. CASE pc[w] \in Holding
    BY <1>1, <1>2, <2>1, <2>2, <2>3 DEF RecordIsTrue, Names
  <2>4. CASE pc[w] \notin Holding
    BY <1>1, <2>1, <2>4, SayingLabels DEF RecordIsTrue
  <2> QED
    BY <2>3, <2>4
<1>4. ASSUME NEW a \in App PROVE RowIsTrue(a)'
  <2>1. RowIsTrue(a) /\ lastHistory[a].time \in Nat
    BY DEF RecordInvariant, TypeOK, HistoryRow
  <2> QED
    BY <1>1, <1>2, <2>1 DEF RowIsTrue, Names
<1> QED
  BY <1>3, <1>4 DEF RecordInvariant

\* Every step preserves the invariant of the records.
LEMMA NextRecord ==
  TypeOK /\ EngineInvariant /\ RecordInvariant /\ [Next]_vars => RecordInvariant'
<1> SUFFICES ASSUME TypeOK, EngineInvariant, RecordInvariant, [Next]_vars
             PROVE  RecordInvariant'
  OBVIOUS
<1>1. ASSUME NEW w \in Worker, ReceiveRequest(w) PROVE RecordInvariant'
  BY <1>1, AcceptRecord
     DEF ReceiveRequest, RequestScale, RequestSetActiveSchedule,
         RequestRemoveActiveSchedule, Waiting
<1>2. ASSUME NEW w \in Worker, Resizing(w) PROVE RecordInvariant'
  BY <1>2, SetAppInstancesRecord
     DEF Resizing, ScaleSetAppInstances, SetSetAppInstances,
         RemoveSetAppInstances, ResizeLabels
<1>3. ASSUME NEW w \in Worker, Work(w) PROVE RecordInvariant'
  BY <1>2, <1>3, ScaleGetAppRecord, ScaleCanScaleAppRecord, ScaleLimitsRecord,
     CooldownRecord, GetActiveScheduleRecord, WriteScheduleRecord,
     SetGetAppRecord, RemoveGetAppRecord, RemoveGetAppPolicyRecord, ReturnRecord
     DEF Work
<1>4. CASE UNCHANGED vars
  BY <1>4 DEF vars, RecordInvariant, RecordIsTrue, RowIsTrue
<1> QED
  BY <1>1, <1>3, <1>4, LockRecord, CrashRecord, EnvironmentRecord DEF Next

\* There are no rows and no records at first.
LEMMA InitRecord == Init => RecordInvariant
BY DEF Init, RecordInvariant, RecordIsTrue, RowIsTrue, Names, NoRow, Stamped,
       ScaleLabels, RemoveLabels, Sized, Resized

\* What the history and the records of operations in progress say of the apps is so,
\* from the timestamps on: the inductive invariant behind the theorems that follow.
THEOREM RecordsAreTrue == Spec => []RecordInvariant
<1> QED
  BY InitRecord, NextRecord, TypeCorrect, EngineInvariantHolds, PTL DEF Spec

\* A row of the history is never followed by an older one, whatever fails and
\* whoever waited for the mutex in between.
THEOREM HistoryIsInOrder == Spec => HistoryInOrder
<1>1. TypeOK /\ RecordInvariant /\ [Next]_vars =>
        \A a \in App : lastHistory'[a].time >= lastHistory[a].time
  <2> SUFFICES ASSUME TypeOK, RecordInvariant, [Next]_vars, NEW a \in App
               PROVE  lastHistory'[a].time >= lastHistory[a].time
    OBVIOUS
  <2>1. lastHistory[a].time \in Nat
    BY DEF TypeOK, HistoryRow
  <2>2. ASSUME NEW w \in Worker, Return(w)
        PROVE  lastHistory'[a].time >= lastHistory[a].time
    <3>1. lastHistory[req[w].app].time <= req[w].now
      BY <2>2 DEF RecordInvariant, RecordIsTrue, Return, Stamped
    <3>2. req[w] \in Request
      BY <2>2, RequestOf DEF Return
    <3> QED
      BY <2>1, <2>2, <3>1, <3>2 DEF Return, HistoryOf, TypeOK, Request
  <2>3. CASE UNCHANGED lastHistory
    BY <2>1, <2>3
  <2>4. UNCHANGED lastHistory \/ \E w \in Worker : Return(w)
    BY DEF Next, ReceiveRequest, RequestScale, RequestSetActiveSchedule,
           RequestRemoveActiveSchedule, Accept, Lock, ScaleLock, SetLock,
           RemoveLock, Acquire, Work, ScaleGetApp, ScaleCanScaleApp,
           ScaleGetActiveSchedule, ScaleGetAppPolicy, ScaleDeleteCooldown,
           ScaleInsertCooldown, SetGetActiveSchedule, SetDeleteSchedule,
           SetInsertSchedule, SetGetApp, RemoveGetActiveSchedule,
           RemoveDeleteSchedule, RemoveGetApp, RemoveGetAppPolicy, Resizing,
           ScaleSetAppInstances, SetSetAppInstances, RemoveSetAppInstances,
           SetAppInstances, ReadOnly, AskSize, Reads, Unlock, Crash, Environment,
           StartOrStopApp, ResizeByHand, ResizeLate, ResizeUnseen, ChangePolicy,
           Tick, vars, engineDB
  <2> QED
    BY <2>2, <2>3, <2>4
<1> QED
  BY <1>1, TypeCorrect, RecordsAreTrue, PTL DEF Spec, HistoryInOrder

\* When nobody works on an app, its last row names the number of instances it has,
\* if it names one, unless others have resized the app since it was read or set: for
\* an engine that does not crash and rows that are saved.  Each of these is needed.
THEOREM HistoryTellsTheSize ==
  ASSUME Recorded
  PROVE  Spec => []HistoryMatchesApp
<1>1. RecordInvariant => HistoryMatchesApp
  BY SayingLabels DEF RecordInvariant, RowIsTrue, Names, HistoryMatchesApp, Busy
<1> QED
  BY <1>1, RecordsAreTrue, PTL

\* A request that made a schedule the active one, and returns without an error,
\* leaves the app within its limits, unless others have resized the app since it was
\* read or set.
THEOREM StartsAreApplied == Spec => []StartIsApplied
<1>1. RecordInvariant => StartIsApplied
  BY DEF RecordInvariant, RecordIsTrue, StartIsApplied, Applied, IsActive
<1> QED
  BY <1>1, RecordsAreTrue, PTL
=============================================================================
