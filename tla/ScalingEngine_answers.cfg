SPECIFICATION FairSpec
CONSTANTS
  App = {a1}
  Worker = {w1, w2}
  Stripe = {m1}
  LockOf <- OneLock
  Schedules <- DayOnly
  Policies <- LowOnly
  Triggers <- ShrinkOnly
  DefaultCoolDown = 1
  InitialSizes = {2}
  ManualSizes = {}
  Failing = {"GetApp", "SetAppInstances", "UpdateCooldown", "SetActiveSchedule"}
  MaxTime = 1
  NoSchedule = NoSchedule
  NoPolicy = NoPolicy
  NoWorker = NoWorker
  NoRequest = NoRequest
INVARIANTS HistoryMatchesApp StartIsApplied
PROPERTIES RequestsAreAnswered
