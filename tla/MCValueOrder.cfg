CONSTANTS
    Packets <- MCPackets
    Priority <- MCPriority
    Coefficient <- MCCoefficient
    Classes <- TrafficPriority
    Class <- PriorityRank
    Rank <- ValueRank
    MaxSize <- QueueBound
    MaxQueueSize = 2
SPECIFICATION ValueSpec
INVARIANTS ValueOrderSound OldestLeavesFirst StatsAgree
PROPERTIES ValueGoverns ImplementsQueue EverySettles
