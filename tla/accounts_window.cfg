SPECIFICATION Spec
CONSTANTS
  T1 = T1  T2 = T2
  Tenants = {T1, T2}
  ActiveTenants = {T1}
  p1 = p1 p2 = p2
  People = {p1, p2}
  e1 = e1 e2 = e2
  Emails = {e1, e2}
  s1 = s1 s2 = s2
  Sessions = {s1, s2}
  r1 = r1 r2 = r2
  Requests = {r1, r2}
  MaxFailures = 1
  MaxResets = 1
  Nobody = Nobody NoTenant = NoTenant NoSession = NoSession
INVARIANT NoWindow
SYMMETRY Symmetry
CHECK_DEADLOCK FALSE
