CONSTANTS
    Packets <- MCPackets
    Priority <- MCPriority
    Rank <- MCRank
    PipelineCeiling <- MCPipeline
    SojournCeiling <- MCSojourn
    Capacity = 2
    Consumers = {c1, c2}
    Updaters = {u1, u2}
    SoftPct = 50
    HardPct = 100
    MaxTime = 1
    MaxResets = 1
SPECIFICATION Spec
INVARIANTS ExpiryAccounted
PROPERTIES DequeueReturns SignalSettles
CHECK_DEADLOCK FALSE
