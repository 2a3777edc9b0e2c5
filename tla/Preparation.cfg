SPECIFICATION Spec
CONSTANTS
  u = u
  c1 = c1  c2 = c2
  l1 = l1  l2 = l2
  Execs = {e1, e2, e3}
  Sids = {u}
  SidOf <- OneUser
  Consoles = {c1, c2}
  Logons = {l1, l2}
  LogonOf <- MCLogonOf
  Ids = {i1, i2, i3}
  None = None
SYMMETRY Symmetry
INVARIANTS
  TypeOK
  MapsMatchObjects
  RunningIsExact
  NoLeftoverProcess
  SharedPreparation
PROPERTY
  LeaseSpec
