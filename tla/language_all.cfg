SPECIFICATION HostedSpec
CONSTANTS
  Idents <- MCIdents
  Ints <- MCInts
  Strings <- MCStrings
  MaxParseDepth = 20
  Programs <- MCPrograms
  Edited <- MCEdited
  Typed <- MCTyped
  MaxTyped = 3
  Replacing <- MCReplacing
  c1 = c1
  c2 = c2
  c3 = c3
  Consumers = {c1, c2, c3}
  MaxYields = 3
  MaxRequests = 4
INVARIANT TextsAreRead
INVARIANT ClosesOnce
INVARIANT EndIsFinal
PROPERTY GeneratorEnds
CHECK_DEADLOCK FALSE
