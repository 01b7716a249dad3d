CONSTANTS
  refresh = refresh
  watch = watch
  capture = capture
  Requests = {refresh, watch}
  Refreshing = {refresh}
  Capturing = {capture}
  MaxTime = 3
SPECIFICATION Spec
INVARIANT FutureIsFuture
CHECK_DEADLOCK FALSE
