\* Memory: three processes on 21 pages of two bytes, or two on more; page tables
\* of two entries.
\* Blocks: two processes, two files of up to four blocks, a disk of four.
\* Inodes: two processes, three inodes, three calls, one crash.
\* Parsers: lines of up to four characters or tokens.
CONSTANTS
    Tasks = {t0, t1, t2}
    First = t0
    Machines <- MemorySizes
    FAN = 2
    MAXVA = 8
    PGSIZE = 2
    USERSTACK = 1
    Sizes = {3}
    Programs <- Executables
    MaxArgs = 1
    Clients = {k1, k2}
    Inos = {1, 2}
    Opens = {1, 2}
    OpenFiles <- OneOrTwoFiles
    NDATA = 4
    NDIRECT = 1
    NINDIRECT = 3
    BSIZE = 2
    MAXOPBLOCKS = 6
    Lengths = {5}
    Users = {u1, u2}
    NINODES = 3
    Names = {"a", "b"}
    Paths <- PathNames
    Existing = {"a"}
    NLINK_MAX = 2
    None = None
    MaxCalls = 3
    MaxCrashes = 1
    MAXARGS = 3
    NPS = 7
    TypedChars <- Chars
    LineLength = 4
    RunLines <- ShLines
SPECIFICATION Spec
SYMMETRY Symmetry
\* Calls and crashes are bounded, and lines end.
CHECK_DEADLOCK FALSE
INVARIANTS
    TypeOK
    PagesAreAccounted
    BlocksHold
    DiskIsConsistent
    NobodyStuck
    LinesAreRead
    ShParses
    CommandsEnd
