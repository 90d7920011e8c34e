SPECIFICATION Spec
CONSTANTS
  Agents = {1, 2, 3}
  Jobs = {1, 2}
  Sizes = {2}
  DeviceSize = 1
  Budgets <- DropOnly
PROPERTY DeletedAgentsAreGone
CHECK_DEADLOCK FALSE
