\* More blocks than the log holds: the reservation of begin_op() is enough, and every caller gets in.
CONSTANTS
    Blocks = {b1, b2, b3, b4, b5}
    Procs = {p1, p2}
    MAXOPBLOCKS = 2
    OpBlocks = 1
    LOGBLOCKS = 4
    MaxVersion = 1
    NotCached = NotCached
SPECIFICATION FairSpec
INVARIANTS
    NoPanic
PROPERTIES
    BeginOpReturns
