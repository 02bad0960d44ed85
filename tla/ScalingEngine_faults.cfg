SPECIFICATION Spec
CONSTANTS
  App = {a1}
  Worker = {w1, w2}
  Stripe = {m1}
  LockOf <- OneLock
  Schedules <- DayAndNight
  Policies <- HighOnly
  Triggers <- GrowOnly
  DefaultCoolDown = 1
  InitialSizes = {2}
  ManualSizes = {1}
  Failing = {"CanScaleApp", "GetActiveSchedule", "GetAppPolicy", "RemoveActiveSchedule", "SaveScalingHistory", "Crash"}
  MaxTime = 2
  NoSchedule = NoSchedule
  NoPolicy = NoPolicy
  NoWorker = NoWorker
  NoRequest = NoRequest
SYMMETRY WorkerSymmetry
INVARIANTS AppExclusion
PROPERTIES CooldownHolds ScheduleLimitsHold HistoryInOrder
