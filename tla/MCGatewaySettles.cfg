SPECIFICATION ServingSpec
CONSTANTS
  Clients = {a, b}
  NoClient = NoClient
  Kinds <- OfferedOrCut
  MaxRequests = 1
  Garbage <- TextArm
  MaxFds = 2
  MaxIdle = 1
  MaxLinks = 0
  MaxDrops = 0
  MaxGarbage = 0
CHECK_DEADLOCK FALSE
INVARIANTS
  ClientsAccounted
  NoDoubleQueueing
PROPERTIES
  RequestSettled
