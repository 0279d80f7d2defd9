CONSTANTS
  w1 = w1  w2 = w2  p1 = p1
  NTargets = 2
  Flaky = {1, 2}
  Workers = {w1}
  Probes = {}
  Registered = TRUE
  ActiveCheck = FALSE
  HealthPlugin = TRUE
  UnhealthyThreshold = 2
  HealthyThreshold = 1
  FailureThreshold = 2
  HalfOpenSuccessThreshold = 2
  RecoveryTime = 2
  Interval = 1
  Methods = {"GET", "POST"}
  MaxAttempts = 3
SPECIFICATION Spec
INVARIANTS StateFollowsCounters SentOnce
PROPERTY OpenLasts
