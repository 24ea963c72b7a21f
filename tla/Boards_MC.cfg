SPECIFICATION Spec
CONSTANTS
    p1 = p1  p2 = p2  alg = alg  th = th
    None = None  Overtaken = Overtaken
    Player = {p1, p2}
    Sysop = {p2}
    Board = {alg, th}
    Public = {alg}
    Writable = {alg, th}
    MinLevel <- MCMinLevel
    Seed <- MCSeed
    FirstPost = 10
    MaxLevel = 1
    StartRows <- MCStartRows
    Operator = {p1}
    Drafted = {alg}
    Replies = {0, 3}
    MaxPosts = 2
    MaxRowWrites = 1
INVARIANTS
    Consistent
    HiddenIsAbsent
    ListingCurrent
PROPERTIES
    NewPostsAreUnread
    LivePostsStay
