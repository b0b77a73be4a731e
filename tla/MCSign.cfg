SPECIFICATION MCSpec
CONSTANTS
  None = None
  Invalid = Invalid
  Kinds = {"tls", "user", "host"}
  Global <- MCGlobal
  ClaimSet <- MCClaims
  PopClaims <- MCPopClaims
  Limits <- MCLimits
  ReqTimes <- MCReqTimes
  TokTimes <- MCTokTimes
  Backdate = 2
  Start = 20
  MaxClock = 26
  Sec = 2
  Bits = 8
  MaxRenewals = 2
INVARIANTS
  PeriodBounded
  PolicyFollowsRules
  EngineAgreesWithVerifier
PROPERTY RenewalKeepsLength
\* A request that is refused, or a certificate that was renewed often enough, is the end.
CHECK_DEADLOCK FALSE
