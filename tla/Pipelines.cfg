SPECIFICATION Spec
CONSTANTS
  a1 = a1
  a2 = a2
  Apps <- MCApps
  AppShard <- MCApps
  Processors = 2
  ProcessorOf <- MCOf
  EnvelopeChannelSize = 1
  MetricChannelSize = 1
  Nozzles = 1
  Emitters = 2
  EmitterOf <- MCOf
  EnvelopChanSize = 1
  BufferSize = 1
  Pollers = 1
  AppMonitorChannelSize = 1
  AppMetricChannelSize = 1
CHECK_DEADLOCK FALSE
INVARIANTS NoOrphan
PROPERTIES
  CollectorsFollow
  ProgramsStop
  EnvelopesFlow
  AppsAreMeasured
