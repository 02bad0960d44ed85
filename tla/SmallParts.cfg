SPECIFICATION SmallSpec
CONSTANTS
  Adjustments <- Rules
  Sizes <- StartSizes
  InstanceMin = 2
  InstanceMax = 50
  Capacity = 3
  Timestamps <- Stamps
  Labels = {l1, l2}
  MaxPuts = 5
  Nil = Nil
  Specified <- SomePolicies
  None = None
  Now = 0
  Today = 1
  Dates <- CalendarDates
  Times <- CalendarTimes
  ApiServers = {p1}
  Forwarders = {f1}
  Clients = {c1, c2}
  CacheTTL = 2
  LastCreds = 2
  Apps = {a1, a2}
  Senders = {s1}
  MetricTTL = 2
  Callers = {g1, g2}
  ExpiresIn = 4
  TimeToRefresh = 2
  MaxDelay = 1
  Files <- SomeFiles
INVARIANTS
  NearestToExact
  SearchFindsFirst
  HitIsAlmostComplete
  AcceptedNeverOverlap
  ValidatorsAgree
  TokensAreAlive
  CurrentAreAccepted
  PanicsAreOverlooked
  ConnectionsOutliveMembers
  OrderIsKept
PROPERTIES
  ReachesLimit
  KeepsTheLatest
  RetiredAreRefused
  MetricsFollow
CHECK_DEADLOCK FALSE
