SPECIFICATION FairSpec
CONSTANTS
  Agents = {1, 2, 3}
  Jobs = {1, 2}
  Sizes = {2}
  DeviceSize = 1
  Budgets <- TwoAndOne
INVARIANTS PoolSound JobKeepsAgent
PROPERTY CreateAnswered
CHECK_DEADLOCK FALSE
