SPECIFICATION ReachableSpec
CONSTANTS
  Clients = {a}
  NoClient = NoClient
  Kinds <- RegOnly
  MaxRequests = 0
  Garbage <- TextArm
  MaxFds = 1
  MaxIdle = 1
  MaxLinks = 0
  MaxDrops = 0
  MaxGarbage = 0
CHECK_DEADLOCK FALSE
PROPERTIES
  StopEndsWorker
