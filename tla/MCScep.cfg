CONSTANTS
  Requests = {r1, r2}
  Provs = {"p1", "p2"}
  Others = {"", "acme"}
  Algorithm <- MCAlgorithm
  Password <- MCPassword
  Default = "DES-CBC"
SPECIFICATION Spec
SYMMETRY Symmetry
INVARIANT EncryptedAsConfigured
CHECK_DEADLOCK FALSE
