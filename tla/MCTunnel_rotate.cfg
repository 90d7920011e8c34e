CONSTANTS
  m1 = m1
  m2 = m2
  Conns <- TwoConns
  Frames = {m1}
  MaxRetries = 0
  QueueCap = 1
  NoConn = NoConn
SPECIFICATION FairSpec
PROPERTY RotationCompletes
CHECK_DEADLOCK FALSE
