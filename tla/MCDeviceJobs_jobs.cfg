CONSTANTS
  j1 = j1
  j2 = j2
  j3 = j3
  Jobs = {j1, j2}
  Calls <- TwoCalls
  Assignments <- EachOrTwice
  NoJob = NoJob
  NoCall = NoCall
  MaxFailures = 2
  Retention = 2
  Budgets <- AnyOne
SPECIFICATION FairSpec
INVARIANTS
  TypeOK
  TruthfulSuccess
  OneBrain
  SuccessKept
  RowNamesLiveJob
PROPERTIES
  AcceptedReports
  ResultArrives
CHECK_DEADLOCK FALSE
