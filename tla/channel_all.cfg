SPECIFICATION FairSpec
CONSTANTS
  p1 = p1
  p2 = p2
  c1 = c1
  c2 = c2
  NoChannel = NoChannel
  Procs = {p1, p2}
  Channels = {c1, c2}
  Capacity <- TwoCapacities
  Statements <- TwoChannelStatements
  Cancellable = {p2}
  NestedCloser = {p1}
  NestedWaiter = {p2}
INVARIANT ChannelNeverPanics
PROPERTY ImplementsContract
PROPERTY EverybodyIsReleased
CHECK_DEADLOCK FALSE
