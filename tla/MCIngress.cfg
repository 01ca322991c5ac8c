CONSTANTS
    Packets <- MCPackets
    Packet <- MCPacket
    Licenses <- MCLicenses
    Scores <- MCScores
    Policies <- MCPolicies
    CommandLines <- MCCommandLines
    MaxFlows = 2
    FlowTtl = 1
    Workers = 2
    MaxTime = 2
    Threshold = 64
    DemoteBytes = 8192
SPECIFICATION Spec
INVARIANTS RecentFlowsKept FlowCounts TreatedAsConfigured PayloadsRestorable
CHECK_DEADLOCK FALSE
