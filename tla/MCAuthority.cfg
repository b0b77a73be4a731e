SPECIFICATION MCSpec
CONSTANTS
  Serials = {s1, s2, s3, s4}
  SSH = {s1, s2}
  Tokens <- MCTokens
  k1 = k1
  Keys = {k1}
  KeyOf <- MCKeyOf
  Procs = {p1, p2}
  MaxTime = 1
  Persistent = TRUE
  DisableIssuedAtCheck = FALSE
  None = None
SYMMETRY Symmetry
INVARIANTS
  TokenUsedOnce
  DeliveredStored
  RevocationReportedOnce
  NoRenewalAfterRevocation


