SPECIFICATION FairSpec
CONSTANTS
  Clients = {a, b}
  Threads = 2
  MaxBytes = 2
  MaxStarts = 2
CHECK_DEADLOCK FALSE
INVARIANTS
  TypeOK
  EchoExact
  WorkersStay
PROPERTIES
  QuietAfterStop
  Accepted
  Echoes
  StopReturns
