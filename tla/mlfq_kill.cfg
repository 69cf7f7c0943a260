\* One hart, three processes: one kills a sleeper while the third is runnable.
CONSTANTS
    NPROC = 3
    NCPU = 1
    BOOST = 6
    Slice <- ShortSlices
    MaxTicks = 6
    WithKill = TRUE
    NoProc = NoProc
SPECIFICATION Spec
PROPERTIES
    EntersAtTail
