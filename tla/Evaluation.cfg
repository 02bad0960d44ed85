SPECIFICATION Spec
CONSTANTS
  Apps = {a1}
  Evaluators = {e1, e2}
  Rules <- OutAndIn
  ChannelSize = 1
  CoolDown = 1
  ConsecutiveFailureCount = 2
  BackOffInitialInterval = 1
  BackOffMaxInterval = 1
  InstanceMin = 1
  InstanceMax = 2
  Breaches <- FirstOrNone
  None = None
PROPERTIES
  EngineIsSpared
  BreachIsAnswered
