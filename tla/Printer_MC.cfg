SPECIFICATION FairSpec
CONSTANTS
    Texts = {3, 23, 45}
    Width = 4
    PageLines = 22
    Default = 2400
    Upgraded = 9600
    None = None
    MaxBlocks = 3
    MaxSkips = 2
INVARIANTS
    OutputExact
    PaceKept
PROPERTIES
    Drains
\* The printer rests when it has nothing to draw.
CHECK_DEADLOCK FALSE
