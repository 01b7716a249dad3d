CONSTANTS
  stdout = stdout
  stderr = stderr
  Streams = {stdout, stderr}
  MaxCancels = 2
SPECIFICATION Spec
INVARIANTS
  CancellationCleansUp
