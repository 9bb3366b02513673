SPECIFICATION Spec
CONSTANTS
  Clients = {a}
  NoClient = NoClient
  Kinds <- Offered
  MaxRequests = 1
  Garbage <- TextArm
  MaxFds = 3
  MaxIdle = 1
  MaxLinks = 0
  MaxDrops = 0
  MaxGarbage = 0
CHECK_DEADLOCK FALSE
INVARIANTS
  ReplyAnswersRequest
