SPECIFICATION MCSpec
CONSTANTS
  Orders = {o1, o2}
  Authzs = {a1, a2}
  Challenges = {c1}
  Accounts = {u1, u2}
  First = u1
  Procs = {p1, p2}
  MaxIdentifiers = 2
  MaxChallenges = 1
  None = None
  Provs = {v1, v2}
  KeyIDs = {k1, k2, k3}
  Refs = {r1, r2}
  KeyAccounts = {u1}
  Tokens = {t1, t2}
  AccountKeys = {j1, j2}
  Hosts = {h1, h2}
  Addresses = {i1, i2}
  Devices = {d1, d2}
INVARIANTS
  StoredOrderComplete
  OrderListAgrees
  ReferenceLeadsToKey
  CreatedKeyListed
  ChallengeFollowsProof
PROPERTY RequestAnswered
