-------------------------------- MODULE Pipe ---------------------------------
(***************************************************************************)
(* The data of an xv6 pipe (kernel/pipe.c) and of its two file structures  *)
(* (kernel/file.c), and what each operation does to them.  PipeProcs says  *)
(* when processes perform them.                                            *)
(*                                                                         *)
(* nread and nwrite are unsigned counters that wrap at Wrap (2^32 in the   *)
(* code), which PIPESIZE divides.                                          *)
(***************************************************************************)
EXTENDS Integers, Sequences

CONSTANTS
    PIPESIZE,   \* capacity, 512 in the code
    Wrap,       \* where nread and nwrite wrap
    Bytes,      \* contents
    NoByte      \* what is in a cell that nobody will read

ASSUME PipeAssumption ==
    /\ PIPESIZE \in Nat \ {0}
    /\ Wrap \in Nat
    /\ Wrap > PIPESIZE
    /\ Wrap % PIPESIZE = 0
    /\ NoByte \notin Bytes

VARIABLES
    data,       \* pi->data
    nread,      \* pi->nread
    nwrite,     \* pi->nwrite
    readopen,   \* pi->readopen
    writeopen,  \* pi->writeopen
    ref         \* f->ref of the file at each end

ringVars == <<data, nread, nwrite>>
pipeVars == <<ringVars, readopen, writeopen, ref>>

Index == 0 .. PIPESIZE - 1
Blank == [i \in Index |-> NoByte]

PipeTypeOK ==
    /\ data \in [Index -> Bytes \cup {NoByte}]
    /\ nread \in 0 .. Wrap - 1
    /\ nwrite \in 0 .. Wrap - 1
    /\ readopen \in BOOLEAN
    /\ writeopen \in BOOLEAN
    /\ ref \in [{"r", "w"} -> Nat]

\* No pipe yet.
PipeInit ==
    /\ data = Blank
    /\ nread = 0
    /\ nwrite = 0
    /\ readopen = FALSE
    /\ writeopen = FALSE
    /\ ref = [e \in {"r", "w"} |-> 0]

Allocated == readopen \/ writeopen

PipeAlloc ==
    /\ ~Allocated
    /\ readopen' = TRUE
    /\ writeopen' = TRUE
    /\ nread' = 0
    /\ nwrite' = 0
    /\ ref' = [e \in {"r", "w"} |-> 1]
    /\ data' = Blank

Empty == nread = nwrite

\* Mutant of Full: the counters are compared without wrapping.
FullNoWrap == nwrite = nread + PIPESIZE

Full == nwrite = (nread + PIPESIZE) % Wrap

Count == (nwrite - nread) % Wrap

Put(b) ==
    /\ data' = [data EXCEPT ![nwrite % PIPESIZE] = b]
    /\ nwrite' = (nwrite + 1) % Wrap
    /\ UNCHANGED <<nread, readopen, writeopen, ref>>

\* Mutant of Take: nread runs on instead of wrapping.
TakeNoWrap(n) ==
    /\ nread' = nread + n
    /\ UNCHANGED <<data, nwrite, readopen, writeopen, ref>>

\* n bytes have been copied out.  The code leaves them where they are; cells
\* that are read are blanked here to identify states nobody can tell apart.
Take(n) ==
    /\ nread' = (nread + n) % Wrap
    /\ data' = [i \in Index |-> IF (i - nread) % PIPESIZE < n THEN NoByte ELSE data[i]]
    /\ UNCHANGED <<nwrite, readopen, writeopen, ref>>

\* filedup() on each of the files in S.
FileDup(S) ==
    /\ ref' = [e \in {"r", "w"} |-> IF e \in S THEN ref[e] + 1 ELSE ref[e]]
    /\ UNCHANGED <<ringVars, readopen, writeopen>>

\* fileclose() before it calls pipeclose().
FileDrop(e) ==
    /\ ref' = [ref EXCEPT ![e] = @ - 1]
    /\ UNCHANGED <<ringVars, readopen, writeopen>>

\* pipeclose(); the page is freed with the second end, as blank as none.
PipeClose(e) ==
    /\ readopen' = (readopen /\ e # "r")
    /\ writeopen' = (writeopen /\ e # "w")
    /\ IF readopen' \/ writeopen' THEN UNCHANGED ringVars
       ELSE data' = Blank /\ nread' = 0 /\ nwrite' = 0
    /\ UNCHANGED ref

\* What is in the pipe, oldest byte first.
Content == [i \in 1 .. Count |-> data[(nread + i - 1) % PIPESIZE]]
=============================================================================
