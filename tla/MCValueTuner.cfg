CONSTANTS
    Rules <- MCRules
    Packets <- MCPackets
    Default = 1
    BoostPct = 200
    DecayPct = 50
    Ceiling = 24
    Perfection = 100
    Violation = 90
    Efficiencies <- MCEfficiencies
    Overrides <- MCOverrides
    MaxMeddles = 2
SPECIFICATION FairSpec
INVARIANTS TypeOK PacketsFollowTuner
PROPERTIES MovesTheRightWay DriftsBackToBase ClimbsToCeiling
