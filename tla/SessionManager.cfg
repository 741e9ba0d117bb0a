\* Two slots, three sessions, two request threads, one event stream.
SPECIFICATION Spec
CONSTANTS
  Threads = {t1, t2}
  Sessions = {s1, s2, s3}
  Streams = {m1}
  MaxLive = 2
SYMMETRY Symmetric
INVARIANT SlotsAccounted CapHolds NoLiveSessionLost ShutdownStopsAll EverySessionStreamed
\* Every thread may be back and the server stopped.
CHECK_DEADLOCK FALSE
