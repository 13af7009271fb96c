SPECIFICATION LiveSpec
CONSTANTS
  Frames = {f1, f2}
  File = File
  MaxCallDepth = 2
  Sizes = {2}
  MaxDefers = 2
  MaxTries = 1
  HasContext = TRUE
INVARIANT StackExact
PROPERTY DefersBegin
PROPERTY CancelStops
CHECK_DEADLOCK FALSE
