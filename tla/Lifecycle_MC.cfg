\* Safety: a sysop and two sessions of one player, kicked in one sweep; the
\* operator also bans with the command-line tool.
CONSTANTS
    Session = {s1, s2, s3}
    Fingerprint = {f1, f2}
    MaxPerFingerprint = 2
    MaxGlobal = 3
    Lines = 1
    None = None
    Sysop = {f2}
    Member = {}
    Chatter = {f1}
    MaxKicks = 1
    OutsideBans = TRUE
SYMMETRY Symmetry
SPECIFICATION Spec
INVARIANTS
    Consistent
    BanReachesEveryone
CHECK_DEADLOCK FALSE
