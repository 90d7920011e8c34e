CONSTANTS
  m1 = m1
  m2 = m2
  Conns <- TwoConns
  Frames = {m1}
  MaxRetries = 1
  QueueCap = 1
  NoConn = NoConn
SPECIFICATION FairSpec
INVARIANTS
  TypeOK
  Routable
  AcceptedIsTracked
  HandledOnce
  StatusAgrees
PROPERTY ReplacedIsClosed
CHECK_DEADLOCK FALSE
