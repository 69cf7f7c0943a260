\* init and three processes, so that an orphan has a parent that is not
\* init's child; no pipes.
CONSTANTS
    NPROC = 4
    Syscalls = {"wait"}
    PIPESIZE = 1
    Wrap = 2
    Bytes = {}
    NoByte = NoByte
    MaxWrite = 0
SPECIFICATION FairSpec
INVARIANTS
    WaitIsWoken
PROPERTIES
    WaitReturns
