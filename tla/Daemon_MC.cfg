SPECIFICATION Spec
CONSTANTS
    s1 = s1
    r1 = r1
    r2 = r2
    None = None
    Session = {s1}
    Request = {r1, r2}
    Columns = 2
    TTL = 1
    Modes = {"off", "plain", "tls"}
    MaxRegistered = 1
    MaxStarts = 2
INVARIANTS
    NothingServedAfterShutdown
    OrderlyStop
PROPERTIES
    StatusHonest
    Stops
CHECK_DEADLOCK FALSE
