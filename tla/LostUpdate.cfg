CONSTANTS
  e1 = e1  e2 = e2
  u1 = u1  u2 = u2
  c1 = c1  c2 = c2
  l1 = l1  l2 = l2
  s1 = s1  s2 = s2
  Execs = {e1, e2}
  Sids = {u1, u2}
  SidOf <- TwoUsers
  Consoles = {c1}
  Logons = {l1, l2}
  LogonOf <- OneLogon
  Sessions = {s1}
  SessionOf <- OneSession
  Ids = {i1, i2}
  None = None
  OwnEntries <- BothObjects
  MayFail = {}
  ProcessMayDie = FALSE
SPECIFICATION PWSpec
INVARIANT
  AccessWhileActive
