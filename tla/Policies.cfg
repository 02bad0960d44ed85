SPECIFICATION Spec
CONSTANTS
  a1 = a1
  s1 = s1
  s2 = s2
  Apps <- OneApp
  Syncs <- TwoSyncs
  Last = 2
  Contents = {TRUE, FALSE}
  Failures = 1
PROPERTIES SchedulesFollow GoneAppsAreForgotten
