CONSTANTS
  Sessions = {1, 2}
  Opens = {1, 2}
  MaxEvents = 1
SPECIFICATION VncFairSpec
INVARIANTS
  RegistrySound
  OneSessionPerJob
PROPERTIES
  SessionsEnd
  StackStops
CHECK_DEADLOCK FALSE
