\* Two harts, two processes: safety under every interleaving of the harts.
CONSTANTS
    NPROC = 2
    NCPU = 2
    BOOST = 2
    Slice <- ShortSlices
    MaxTicks = 2
    WithKill = TRUE
    NoProc = NoProc
SPECIFICATION Spec
INVARIANTS
    TypeOK
    RunningOnOneCpu
    SleeperIsReachable
    SliceWithinQuantum
