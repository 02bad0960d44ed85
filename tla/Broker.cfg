SPECIFICATION BrokersSpec
CONSTANTS
  a1 = a1
  Apps <- OneApp
  Syncs <- NoSyncs
  Last = 3
  Contents = {FALSE}
  Failures = 1
  Connections = 2
  Instances = {i1, i2}
  Bindings = {b1}
  Calls = {r1, r2}
  PoolSize = 1
  NoInstance = NoInstance
  Nothing = Nothing
CHECK_DEADLOCK FALSE
INVARIANT ApiInvariant
PROPERTIES
  UnboundHasNoPolicy
  RequestsAreAnswered
  AnswersAreTrue
