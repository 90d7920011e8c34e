SPECIFICATION Spec
CONSTANTS
  u1 = u1
  u2 = u2
  j1 = j1
  j2 = j2
  j3 = j3
  Conns = {1, 2}
  Topics = {j1, j2, j3}
  Own = Own
  Users = {u1, u2}
  UserOf <- TwoUsers
  All = All
  MaxSubs = 3
  SubBuf = 2
  OutBuf = 1
  Budgets <- Ping
INVARIANT OneWriter
CHECK_DEADLOCK FALSE
