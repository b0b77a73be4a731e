SPECIFICATION MCSpec
CONSTANTS
  Provisioners <- MCProvisioners
  Tokens <- MCTokens
  Requests = {r1, r2}
  MaxTime = 3
  Timers = {m1}
  Ages <- MCAges
  Hour = 3
  FetchTime = 1
  Sleeps = {5}
  MaxFailures = 1
  StoreTime = 7
  None = None
  SignProvisioners <- MCSignProvisioners
  Credentials <- MCCredentials
  CSRs <- MCCSRs
  SSHRequests <- MCSSHRequests
  DefaultCNs <- MCDefaultCNs
  Kind <- MCKind
  Lower <- MCLower
SYMMETRY Symmetry
INVARIANTS GrantedAsMeant EntitledGranted IssuedAsVouched KeysFresh
CHECK_DEADLOCK FALSE
