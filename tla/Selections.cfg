SPECIFICATION SelectionsSpec
CONSTANTS
    StrategyIds = {s1, s2}
    Instruments = {i1, i2}
    Edges = {1, 2}
    MaxBatch = 3
    Policies <- MCPolicies
    TicksPerUnit <- MCTicks
    FeeBps = 3
    CommissionTicks = 130
    Multiplier = 100
    SlippageBps = 0
    Strikes = {100, 104, 108}
    Quotes <- MCQuotes
    Moneys = {100, 102, 107}
    Underlyings = {0, 105}
    Configs <- MCConfigs
INVARIANTS
    GreedyByRank
    NoRoomWasted
    NearestStrikes
    EdgeWithinWidth
    WorseAskNoBetter
CHECK_DEADLOCK FALSE
