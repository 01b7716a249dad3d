CONSTANTS
  save1 = save1
  save2 = save2
  read1 = read1
  Savers = {save1}
  Readers = {read1}
  Samples = 2
SPECIFICATION FairSpec
PROPERTIES
  EveryCallEnds
CHECK_DEADLOCK FALSE
