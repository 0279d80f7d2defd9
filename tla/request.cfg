SPECIFICATION Spec
CONSTANTS
  Nil = Nil
  s1 = s1
  s2 = s2
  s3 = s3
  u1 = u1
  r1 = r1
  r2 = r2
  c1 = c1
  c2 = c2
  k1 = k1
  k2 = k2
  k3 = k3
  k4 = k4
  t1 = t1
  t2 = t2
  t3 = t3
  t4 = t4
  ip1 = ip1
  ip2 = ip2
  garbage = garbage
  Registry = {"key-auth", "jwt-auth", "rate-limit", "custom"}
  Fallible = {"custom"}
  Tokens <- JWTs
  Scenarios <- AllScenarios
  Draws = {0, 50}
INVARIANTS RoutedRight ConsumerAgrees NarrowestRan NothingSkipped SameUnlessConsumer RecordedPerAttempt
 
