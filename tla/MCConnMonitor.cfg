SPECIFICATION Spec
CONSTANTS
  Conns = {a, b, c}
  MaxQueued = 6
CHECK_DEADLOCK FALSE
INVARIANTS
  TypeOK
  NeverBelow
  CountSettled
PROPERTIES
  CorrectionMeetsItsEnd
