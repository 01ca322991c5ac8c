CONSTANTS
    Packets <- FourPackets
    Priority <- FourPriority
    Coefficient <- FourCoefficient
    Rank <- QueueRank
    Capacity <- QueueCapacity
    MaxQueueSize = 2
    RedMinPct = 0
    RedMaxPct = 50
    Pvm = TRUE
    Workers = 2
    MaxResets = 1
SPECIFICATION Spec
INVARIANTS NonCriticalBounded NothingVanishes NeverOvercounts
    ValueCountsAdmitted
CHECK_DEADLOCK FALSE
