\* Two interrupts and two changes.
SPECIFICATION LaunchSpec
CONSTANTS
  MaxSignals = 2
  MaxWrites = 2
CHECK_DEADLOCK FALSE
INVARIANT NothingUntold
PROPERTY RemovalIsSafe
