\* Two requests at a time on one order with two authorizations.
CONSTANTS
  None = None
  o1 = o1
  a1 = a1
  a2 = a2
  c1 = c1
  c2 = c2
  c3 = c3
  Orders = {o1}
  Authzs = {a1, a2}
  Challenges = {c1, c2}
  Certs = {k1, k2}
  Procs = {p1, p2}
  OrderOf <- MCOrderOf
  AuthzOf <- MCAuthzOf
  TypeOf <- MCTypeOf
SPECIFICATION Spec
SYMMETRY Symmetry
INVARIANTS
  IssuedOnlyIfAuthorized
  ValidOrderHasCertificate
  OrderNotAheadOfAuthzs
PROPERTIES
  NeverPendingAgain
