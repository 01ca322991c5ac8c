CONSTANTS
    Packets <- AllPackets
    Priority <- MCPriority
    Coefficient <- MCCoefficient
    Rank <- QueueRank
    Capacity <- QueueCapacity
    MaxQueueSize = 2
    RedMinPct = 0
    RedMaxPct = 50
    Pvm = TRUE
    Workers = 1
    MaxResets = 0
SPECIFICATION Spec
INVARIANTS DeliveredIsNotLost
CHECK_DEADLOCK FALSE
