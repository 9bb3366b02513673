SPECIFICATION TeardownSpec
CONSTANTS
  Clients = {a}
  NoClient = NoClient
  Kinds <- RegOnly
  MaxRequests = 1
  Garbage <- TextArm
  MaxFds = 9
  MaxIdle = 0
  MaxLinks = 0
  MaxDrops = 1
  MaxGarbage = 0
CHECK_DEADLOCK FALSE
INVARIANTS
  MembersOutliveThreads
