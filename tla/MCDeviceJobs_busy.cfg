CONSTANTS
  j1 = j1
  j2 = j2
  j3 = j3
  Jobs = {j1, j2}
  Calls <- TwoCalls
  Assignments <- OneEach
  NoJob = NoJob
  NoCall = NoCall
  MaxFailures = 2
  Retention = 2
  Budgets <- Quiet
SPECIFICATION Spec
INVARIANT RunningIsAccepted
CHECK_DEADLOCK FALSE
