SPECIFICATION FairJobs
CONSTANTS
  daily = daily
  date = date
  None = None
  Schedule = {daily, date}
  Recurring = {daily}
  Starts <- TwoStarts
  Ends <- TwoEnds
  Policies <- Later
  Thread = {t1, t2}
  RetryInterval = 1
  MaxCount = 2
  Failing = {"Database", "Quartz", "Engine", "Crash"}
  MaxFaults = 1
  MaxTime = 4
PROPERTIES StaysUntilEnd RowsEnd
CHECK_DEADLOCK FALSE
