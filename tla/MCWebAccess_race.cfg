SPECIFICATION Spec
CONSTANTS
  u1 = u1
  u2 = u2
  k1 = k1
  Accounts = {u1, u2}
  Keys = {k1}
  None = None
  Calls = {1, 2}
  MaxPerMin = 2
  Window = 2
  TTL = 3
  Keep = 3
  Budgets <- Race
INVARIANT EndedIsEnded
CHECK_DEADLOCK FALSE
