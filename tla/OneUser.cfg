CONSTANTS
  e1 = e1  e2 = e2
  u1 = u1  u2 = u2
  c1 = c1  c2 = c2
  l1 = l1  l2 = l2
  s1 = s1  s2 = s2
  Execs = {e1, e2}
  Sids = {u1}
  SidOf <- OneUser
  Consoles = {c1, c2}
  Logons = {l1}
  LogonOf <- NobodyLoggedOn
  Sessions = {s1, s2}
  SessionOf <- TwoSessions
  Ids = {i1, i2}
  None = None
  OwnEntries <- WindowStation
  MayFail = {"directory"}
  ProcessMayDie = TRUE
SPECIFICATION FairSpec
INVARIANTS
  AccessWhileActive
  RunningHasAccess
  PreparedIsServed
  RestoredAfterReturn
PROPERTIES
  LeftoverTerminates
  PreparationCompletes
