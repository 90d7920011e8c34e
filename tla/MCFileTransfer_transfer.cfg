SPECIFICATION FairSpec
CONSTANTS
  f1 = f1
  Files = {f1}
  Jobs = {1, 2}
  Input <- OneInput
  N = 2
  Retries = 2
  NoJob = 0
  Budgets <- SharedOrPulled
  MaxReplay = 4
INVARIANTS TransferSound StagedWasWhole ResultAfterOutputs
PROPERTY OutputsEnd
CHECK_DEADLOCK FALSE
