\* Two frames are enough for a turn that fails.
SPECIFICATION Spec
CONSTANT MaxFrames = 2
CHECK_DEADLOCK FALSE
INVARIANT NoOrphan
