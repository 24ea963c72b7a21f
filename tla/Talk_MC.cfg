SPECIFICATION Spec
CONSTANTS
    Session = {s1, s2}
    Npc = {n1, n2}
    MaxTurnsPerSession = 2
    MaxTurnsPerDay = 3
    None = None
    MaxCalls = 1
    MaxDays = 1
    MaxFailures = 1
SYMMETRY Symmetry
INVARIANTS
    CountsToday
    DailyOverrunBounded
    NoCrossTalk
