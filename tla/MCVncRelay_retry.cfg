CONSTANTS
  Sessions = {1, 2}
  Opens = {1, 2}
  MaxEvents = 1
SPECIFICATION VncSpec
INVARIANT RetryKeepsBridge
CHECK_DEADLOCK FALSE
