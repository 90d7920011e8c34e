SPECIFICATION FairSpec
CONSTANTS
  v1 = v1
  v2 = v2
  a = a
  b = b
  u = u
  None = None
  Devices = {1}
  Versions = {v1}
  Uploads = {a}
  Users = {u}
  Calls = {1, 2}
  N = 2
  Budgets <- One
PROPERTY InstallEnds
CHECK_DEADLOCK FALSE
