\* One request at a time; the first authorization has two challenges.
CONSTANTS
  None = None
  o1 = o1
  a1 = a1
  a2 = a2
  c1 = c1
  c2 = c2
  c3 = c3
  Orders = {o1}
  Authzs = {a1, a2}
  Challenges = {c1, c2, c3}
  Certs = {k1, k2}
  Procs = {p1}
  OrderOf <- MCOrderOf
  AuthzOf <- MCAuthzOf3
  TypeOf <- MCTypeOf3
SPECIFICATION Spec
PROPERTIES
  StatusMachine
