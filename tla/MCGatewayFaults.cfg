SPECIFICATION Spec
CONSTANTS
  Clients = {a}
  NoClient = NoClient
  Kinds <- RegOnly
  MaxRequests = 2
  Garbage <- AnyArm
  MaxFds = 2
  MaxIdle = 0
  MaxLinks = 1
  MaxDrops = 1
  MaxGarbage = 1
CHECK_DEADLOCK FALSE
INVARIANTS
  TypeOK
  AnswersAreCurrent
  NoDoubleQueueing
