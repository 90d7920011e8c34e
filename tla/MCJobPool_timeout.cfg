CONSTANTS
  a1 = a1
  a2 = a2
  d1 = d1
  u1 = u1
  t1 = t1
  t2 = t2
  Jobs <- OneJob
  Agents = {a1}
  Devices = {d1}
  Users = {u1}
  Threads = {t1}
  NoJob = NoJob
  NoAgent = NoAgent
  OwnerOf <- OneOwner
  DeviceOf <- OneDevice
  MaxQueue = 1
  Results = {"succeeded", "failed"}
  RedispatchAge = 1
  GraceAge = 1
  TimeoutAge = 1
  MaxWake = 1
SPECIFICATION FairSpec
PROPERTY TerminalReleasesAgent
CONSTRAINT AlwaysUp
