\* One hart, more processes than ticks in a boost period.
CONSTANTS
    NPROC = 3
    NCPU = 1
    BOOST = 2
    Slice <- UnitSlices
    MaxTicks = 2
    WithKill = FALSE
    NoProc = NoProc
SPECIFICATION FairSpec
PROPERTIES
    NoStarvation
