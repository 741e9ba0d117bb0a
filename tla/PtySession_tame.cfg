\* A child whose processes stay in its group and keep the terminal; liveness.
SPECIFICATION FairSpec
CONSTANTS
  Closers = {c1}
  Viewers = {v1}
  Writers = {w1}
  Limit = 2
  MaxOutput = 3
  Unruly = {}
  NoStatus = NoStatus
INVARIANT EndToldTruly
PROPERTY CloseReturns ViewersReleased
