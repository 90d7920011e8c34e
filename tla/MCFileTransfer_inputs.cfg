SPECIFICATION Spec
CONSTANTS
  f1 = f1
  Files = {f1}
  Jobs = {1, 2}
  Input <- OneInput
  N = 2
  Retries = 2
  NoJob = 0
  Budgets <- NoFault
  MaxReplay = 4
INVARIANT InputsComplete
CHECK_DEADLOCK FALSE
