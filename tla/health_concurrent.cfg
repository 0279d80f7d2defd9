CONSTANTS
  w1 = w1  w2 = w2  p1 = p1
  NTargets = 2
  Flaky = {1}
  Workers = {w1}
  Probes = {p1}
  Registered = TRUE
  ActiveCheck = TRUE
  HealthPlugin = FALSE
  UnhealthyThreshold = 1
  HealthyThreshold = 1
  FailureThreshold = 2
  HalfOpenSuccessThreshold = 1
  RecoveryTime = 1
  Interval = 1
  Methods = {"GET"}
  MaxAttempts = 1
SPECIFICATION FairSpec
INVARIANT RefusedOnlyWithoutChoice
PROPERTIES Ejected Recovers
