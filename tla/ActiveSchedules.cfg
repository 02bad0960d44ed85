SPECIFICATION FairSpec
CONSTANTS
  daily = daily
  date = date
  None = None
  Schedule = {daily, date}
  Recurring = {daily}
  Starts <- OneStart
  Ends <- OneEnd
  Policies <- Replaced
  Thread = {t1}
  RetryInterval = 1
  MaxCount = 2
  Failing = {"Engine", "Network", "Crash"}
  MaxFaults = 1
  MaxTime = 3
  Syncs = {y1, y2}
PROPERTIES EngineAgrees
CHECK_DEADLOCK FALSE
