CONSTANTS
    s1 = s1
    s2 = s2
    Sessions = {s1, s2}
    Handler = Handler
    Heartbeat = Heartbeat
    Late = {s2}
    Capacity = 1
    Limit = 1
    Slack = 8
    MaxOutput = 1
    Quiet = {s2}
SPECIFICATION Spec
INVARIANT TeardownReachesAll
CHECK_DEADLOCK FALSE
