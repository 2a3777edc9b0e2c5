CONSTANTS
  e1 = e1  e2 = e2
  u1 = u1  u2 = u2
  c1 = c1
  l1 = l1
  l2 = l2
  s1 = s1
  Execs = {e1, e2}
  Sids = {u1, u2}
  SidOf <- TwoUsers
  Consoles = {c1}
  Logons = {l1}
  LogonOf <- OneLogon
  Sessions = {s1}
  SessionOf <- OneSession
  Ids = {i1, i2}
  None = None
  OwnEntries <- Directory
  MayFail = {"winsta", "desktop", "directory"}
  ProcessMayDie = FALSE
  MaxCrashes = 1
SYMMETRY Symmetry
SPECIFICATION RSpec
INVARIANTS
  OriginalAccessKept
  AccessUnlessDisturbed
  OrphanGoesOn
