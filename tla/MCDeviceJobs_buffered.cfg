CONSTANTS
  j1 = j1
  j2 = j2
  j3 = j3
  Jobs = {j1}
  Calls <- TwoCalls
  Assignments <- OneTwice
  NoJob = NoJob
  NoCall = NoCall
  MaxFailures = 2
  Retention = 2
  Budgets <- OneDrop
SPECIFICATION Spec
INVARIANT ResultsBuffered
CHECK_DEADLOCK FALSE
