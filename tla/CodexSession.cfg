CONSTANTS
  first = first
  second = second
  third = third
  Cursors = {first, second, third}
  NoCursor = NoCursor
  MaxPages = 3
  MaxWire = 1
  MaxCancels = 2
SPECIFICATION FairSpec
INVARIANTS
  FailedAtOnce
  OneWalk
  SessionTornDown
PROPERTIES
  OperationEnds
