SPECIFICATION Spec
CONSTANTS
  Producers = {p1, p2}
  Consumers = {c1, c2}
  MaxPush = 2
  NullOpt = NullOpt
  Pending = Pending
  Free = Free
SYMMETRY Symmetric
INVARIANTS
  TypeOK
  Exclusion
  NoLostWakeup
  NoLostStop
  ExactlyOnce
PROPERTIES
  ImplementsFifo
