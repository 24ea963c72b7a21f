\* Liveness: two operators inside THIS who whisper, hang up, drop and are kicked.
CONSTANTS
    Session = {s1, s2}
    Fingerprint = {f1, f2}
    MaxPerFingerprint = 2
    MaxGlobal = 2
    Lines = 1
    None = None
    Sysop = {f2}
    Member = {f1, f2}
    Chatter = {f1}
    MaxKicks = 1
    OutsideBans = FALSE
SPECIFICATION FairSpec
PROPERTIES
    DropClears
    KickLands
CHECK_DEADLOCK FALSE
