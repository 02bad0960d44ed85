SPECIFICATION Spec
CONSTANTS
  App = {a1}
  Worker = {w1, w2}
  Stripe = {m1}
  LockOf <- OneLock
  Schedules <- DayOnly
  Policies <- LowOnly
  Triggers <- GrowOnly
  DefaultCoolDown = 1
  InitialSizes = {1}
  ManualSizes = {}
  Failing = {"SetAppInstances"}
  MaxTime = 3
  NoSchedule = NoSchedule
  NoPolicy = NoPolicy
  NoWorker = NoWorker
  NoRequest = NoRequest
SYMMETRY WorkerSymmetry
INVARIANTS ScheduleIsApplied
