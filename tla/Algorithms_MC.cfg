SPECIFICATION Spec
CONSTANTS
    MaxLevel = 2
    MaxYAMLMessageID = 3
    IdOrder <- MCIdOrder
    Folded <- MCFolded
    MenuInputs = {"logout"}
    Blank = " "
    LowerCase <- MCLowerCase
    ByteOrder <- MCByteOrder
    baseVerbs <- MCbaseVerbs
    thisVerbs <- MCthisVerbs
    RateBurst = 2
    PerKey = 2
    Minute = 4
    PerMinute <- MCPerMinute
    callerRows = 3
    oldFloor = 1
    maxCalls = 3
    minGap = 1
    maxGap = 2
    backfill = 2
    Handles <- MCHandles
    Second = 2
    Players = {"g", "p"}
    Visit = {v1, v2}
    NoCall = NoCall
    MaxTime = 2
    MaxRows = 3
SYMMETRY Visits
INVARIANTS
    LintIsFair
    LintIsEnough
    LoadedAlike
    PromptHelps
    RatesAreBounded
    RosterLooksAlive
    ListIsFair
CHECK_DEADLOCK FALSE
