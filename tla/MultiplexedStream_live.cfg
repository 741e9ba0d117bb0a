CONSTANTS
    s1 = s1
    Sessions = {s1}
    Late = {s1}
    Quiet = {}
    Handler = Handler
    Heartbeat = Heartbeat
    Capacity = 2
    Limit = 2
    Slack = 8
    MaxOutput = 3
SPECIFICATION Spec
INVARIANT NothingMissing
PROPERTY StreamEnds ExitReported
CHECK_DEADLOCK FALSE
