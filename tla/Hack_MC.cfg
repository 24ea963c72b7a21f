SPECIFICATION FairSpec
CONSTANTS
    Session = {s1}
    fast = fast  slow = slow  k = k  g = g  None = None
    Host <- MCHost
    Flag <- MCFlag
    Sight <- MCSight
    Rank <- MCRank
    Locked <- MCHost
    Keys <- MCKeys
    Slow = {slow}
    Traced <- MCHost
    Gives <- MCGives
    Promotes <- MCPromotes
    Loot <- MCLoot
    Invite = {k}
    HeatMax = 2  HeatCaught = 1  HeatWipe = 1  HeatLockout = 2
    MaxTicks = 3
    MaxFaults = 2
    MaxPromotes = 1
INVARIANTS
    Consistent
    Earned
    EffectsFired
PROPERTIES
    ClearanceKept
    TraceEnds
