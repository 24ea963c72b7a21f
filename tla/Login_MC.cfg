SPECIFICATION Spec
CONSTANTS
    s1 = s1
    s2 = s2
    k1 = k1
    k2 = k2
    Session = {s1, s2}
    Key = {k1, k2}
    KeyOf <- MCKeyOf
    Known <- MCKnown
    Handle = {"a", "b", "c"}
    Topped = {k1}
    Bulletins = FALSE
    LastDay = 1
    MaxTicks = 2
INVARIANTS
    Consistent
    NameShown
    MinutesExact
PROPERTY RitualEnds
CHECK_DEADLOCK FALSE
