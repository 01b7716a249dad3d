CONSTANTS
  stdout = stdout
  stderr = stderr
  Streams = {stdout, stderr}
  MaxCancels = 2
SPECIFICATION FairSpec
INVARIANTS
  ReturnsClean
  SuccessIsTheChildsOwn
  CancellationWins
PROPERTIES
  TimedWaitEnds
