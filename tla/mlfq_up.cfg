\* One hart, no more processes than a boost period lets run: what the policy
\* promises at each dispatch, tick and boost, and that nobody starves.
CONSTANTS
    NPROC = 2
    NCPU = 1
    BOOST = 6
    Slice <- ShortSlices
    MaxTicks = 6
    WithKill = TRUE
    NoProc = NoProc
SPECIFICATION FairSpec
PROPERTIES
    StrictPriority
    PreemptedAtTick
    BoostReachesAll
    NoStarvation
