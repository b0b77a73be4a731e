SPECIFICATION Spec
CONSTANTS
  Keys = {k1, k2}
  Accounts = {a1, a2}
  Nonces = {n1, n2, n3, n4}
  EABKeys = {e1}
  Procs = {p1, p2}
  e1 = e1
  v1 = v1
  Provs = {v1, v2}
  ProvOf <- MCProvOf
  RequireEAB = {v1}
  None = None
SYMMETRY Symmetry
INVARIANTS
  NonceAdmitsOnce
  KeyIndexAgrees
  BoundKeyHasAccount
