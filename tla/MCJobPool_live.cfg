CONSTANTS
  a1 = a1
  a2 = a2
  d1 = d1
  u1 = u1
  t1 = t1
  t2 = t2
  Jobs <- OneJob
  Agents = {a1, a2}
  Devices = {d1}
  Users = {u1}
  Threads = {t1}
  NoJob = NoJob
  NoAgent = NoAgent
  OwnerOf <- OneOwner
  DeviceOf <- OneDevice
  MaxQueue = 0
  Results = {"succeeded", "failed"}
  RedispatchAge = 1
  GraceAge = 2
  TimeoutAge = 3
  MaxWake = 1
SPECIFICATION FairSpec
PROPERTY QueuedLeavesQueue
