\* Two buffers: three processes, three blocks and one request at the disk, or
\* two processes, two blocks that nobody pins and two requests; a line of two
\* characters, reads of up to two; two writers of up to three bytes.
CONSTANTS
    Procs = {p1, p2, p3}
    Bufs = {u1, u2}
    Blocks = {b1, b2, b3}
    Values = {v0, v1}
    NUMS = {4, 6}
    Load <- Loads
    Nobody = Nobody
    Readers = {r1}
    Writers = {w1, w2}
    Plain = {c1}
    NL = NL
    CR = CR
    EOF = EOF
    KILL = KILL
    ERASE = ERASE
    PROCS = PROCS
    INPUT_BUF_SIZE = 2
    Wrap = 4
    Batch = 2
    Depth = 2
    MaxRead = 2
    MaxWrite = 3
    MaxTyped = 1
    EchoChars <- Echoed
SPECIFICATION Spec
SYMMETRY Symmetry
INVARIANTS
    TypeOK
    DevicesServe
    PanicsOnlyWhenFull
PROPERTIES
    CoherentBlocks
    ReadsEnteredLines
