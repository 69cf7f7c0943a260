\* Two processes besides init share a pipe of two bytes; a write may be
\* longer than the pipe.
CONSTANTS
    NPROC = 3
    Syscalls = {"pipe"}
    PIPESIZE = 2
    Wrap = 4
    Bytes = {b1, b2}
    NoByte = NoByte
    MaxWrite = 3
SPECIFICATION Spec
SYMMETRY Symmetry
CHECK_DEADLOCK FALSE
INVARIANTS
    TypeOK
    PipeIsWoken
    EndsAreCounted
PROPERTIES
    Fifo
