SPECIFICATION MCSpec
CONSTANTS
  a1 = a1
  a2 = a2
  b1 = b1
  b2 = b2
  db1 = db1
  db2 = db2
  q1 = q1
  q2 = q2
  Torn = Torn
  None = None
  FirstConfig <- MCFirst
  Configs <- MCConfigs
  MaxReloads = 2
  Faults = {"load", "auth", "init", "accept", "timeout", "listen"}
  Prompt = TRUE
  Timers = {t1, t2}
  Handshakes = {h1, h2}
  Sleeps = {14, 45}
  LocalTime = 54
  LocalFailures = 1
  ClientTimers = {t1}
  ClientTime = 100
  ClientFailures = 3
  RootCount = 2
  RotationWait = 40
  Minute = 2
  Lifetime = 40
  Periods = {40}
  MaxCall = 1
  Keys = {k1, k2, k3}
INVARIANTS
  ServedOnLiveResources
  ReloadAllOrNothing
  ServedValid
  RenewedInTime
  TrustKept
  IdentityPairAgrees
  RetryBounded
PROPERTY TermEnds
\* The process ends when Run returns.
CHECK_DEADLOCK FALSE
