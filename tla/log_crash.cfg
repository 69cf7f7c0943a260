\* Three processes, three blocks, crashes anywhere: group commit is atomic.
CONSTANTS
    Blocks = {b1, b2, b3}
    Procs = {p1, p2, p3}
    MAXOPBLOCKS = 3
    OpBlocks = 2
    LOGBLOCKS = 9
    MaxVersion = 2
    NotCached = NotCached
SPECIFICATION Spec
SYMMETRY Symmetry
INVARIANTS
    TypeOK
    NoLostWakeup
    LogIsSound
PROPERTIES
    Atomicity
    SyncIsDurable
