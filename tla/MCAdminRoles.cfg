SPECIFICATION RolesSpec
CONSTANTS
  None = None
  Nil = Nil
  Deleted = Deleted
  s1 = s1
  s2 = s2
  s3 = s3
  n1 = n1
  n2 = n2
  k1 = k1
  k2 = k2
  c1 = c1
  p1 = p1
  p2 = p2
  Requests = {r1, r2}
  AdminSubjects = {s1, s2}
  Policies <- MCPolicies
  Faults = {"read", "write"}
  Procs = {p1, p2}
  MaxProvs = 2
  MaxAdmins = 4
  Subjects = {s1, s2, s3}
  Configs <- MCConfigs
  FirstConfig <- First
  FirstSubject = s1
  Workloads <- MCWorkloads
INVARIANT LastSuperAdminKept
