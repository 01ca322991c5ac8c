CONSTANTS
    Nodes = {edge}
    Trusted = {edge}
    RequireAuth = TRUE
    Interval = 2
    Timeout = 1
    Operations = 2
    TTL = 6
    Slots = {1, 2}
    MaxLate = 1
SPECIFICATION Spec
INVARIANTS OneHeartbeatThread
