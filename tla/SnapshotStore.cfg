CONSTANTS
  save1 = save1
  save2 = save2
  read1 = read1
  Savers = {save1, save2}
  Readers = {read1}
  Samples = 2
SPECIFICATION Spec
INVARIANTS
  OnlyFaultsFail
  LocksBelongToWork
PROPERTIES
  KeepsHistory
CHECK_DEADLOCK FALSE
