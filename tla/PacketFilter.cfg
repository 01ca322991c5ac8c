CONSTANTS
    Threads = {t1, t2}
    Sizes = {1, 2, 3}
    TokenRefillRate <- NoRate
    BudgetShare = 1
    TotalBandwidth = 1
    CapacityMultiplier = 3
    MaxTime = 2
    MaxPackets = 3
SPECIFICATION Spec
INVARIANTS NeverOverfull RateBound DropsCounted PassedIsPaid
CHECK_DEADLOCK FALSE
