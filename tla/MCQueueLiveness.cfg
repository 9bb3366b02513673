SPECIFICATION FairSpec
CONSTANTS
  Producers = {p1, p2}
  Consumers = {c1}
  MaxPush = 1
  NullOpt = NullOpt
  Pending = Pending
  Free = Free
PROPERTIES
  StopReturns
  WorkIsPickedUp
