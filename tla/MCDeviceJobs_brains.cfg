CONSTANTS
  j1 = j1
  j2 = j2
  j3 = j3
  Jobs = {j1, j2, j3}
  Calls <- ThreeCalls
  Assignments <- ThreeJobs
  NoJob = NoJob
  NoCall = NoCall
  MaxFailures = 2
  Retention = 2
  Budgets <- TwoCancels
SPECIFICATION Spec
INVARIANT OneJobAtATime
CHECK_DEADLOCK FALSE
