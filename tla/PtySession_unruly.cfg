\* A child that may leave its group or its terminal; two closers, a writer.
SPECIFICATION Spec
CONSTANTS
  Closers = {c1, c2}
  Viewers = {v1}
  Writers = {w1}
  Limit = 1
  MaxOutput = 2
  Unruly = {"escape", "release"}
  NoStatus = NoStatus
SYMMETRY Symmetric
INVARIANT SignalsOwnGroup InputReachesOwnTerminal
PROPERTY ImplementsLifecycle
