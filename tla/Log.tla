-------------------------------- MODULE Log ---------------------------------
(***************************************************************************)
(* The redo log of the xv6 file system (kernel/log.c): operations that run *)
(* between begin_op() and end_op(), the group commit of the last one to    *)
(* end, sys_sync(), a crash at any point and the recovery at boot, itself  *)
(* open to crashes.                                                        *)
(*                                                                         *)
(* A step is what a process does under one acquisition of log.lock, or one *)
(* block write to the disk, which is atomic.  A block's content is the     *)
(* number of times it was written (the data itself is opaque).  The buffer *)
(* cache is reduced to what the log needs of it: a block is cached or not, *)
(* and one that is not pinned may be recycled at any time (kernel/bio.c).  *)
(* log.ncommit only matters through `log.ncommit < n' in sys_sync(), kept  *)
(* as the number of commits a caller still awaits.  `seen' is a history    *)
(* variable, read by a property only.                                      *)
(***************************************************************************)
EXTENDS Naturals, FiniteSets, Sequences

CONSTANTS
    Blocks,         \* home blocks of the file system
    Procs,          \* processes that make file system calls
    MAXOPBLOCKS,    \* blocks reserved for an operation
    OpBlocks,       \* most blocks an operation of fs.c and file.c writes
    LOGBLOCKS,      \* size of the log
    MaxVersion,     \* bound on the writes to a block
    NotCached       \* the block has no buffer

\* Processes and disk blocks are finite (param.h: NPROC, FSSIZE).
ASSUME LogAssumption ==
    /\ IsFiniteSet(Procs)
    /\ IsFiniteSet(Blocks)
    /\ MAXOPBLOCKS \in Nat \ {0}
    /\ LOGBLOCKS \in Nat
    /\ LOGBLOCKS >= MAXOPBLOCKS
    /\ OpBlocks \in 0 .. MAXOPBLOCKS - 1
    /\ MaxVersion \in Nat
    /\ NotCached \notin Nat

VARIABLES
    home,           \* disk: the home blocks
    logArea,        \* disk: the log's data blocks
    head,           \* disk: the header block, the home numbers of a transaction
    lh,             \* log.lh
    outstanding,    \* log.outstanding
    committing,     \* log.committing
    cache,          \* the buffer cache
    pin,            \* references taken by bpin()
    waiting,        \* processes whose chan is &log
    pc,             \* where each process is
    wrote,          \* the blocks its current operation has written
    awaited,        \* n - log.ncommit of a process in sys_sync()
    seen,           \* history: the blocks when it called sys_sync(), zeros outside
    tail,           \* loop variable of write_log() and install_trans()
    boot            \* progress of recover_from_log(), or "up"

diskVars == <<home, logArea, head>>
syncVars == <<awaited, seen>>
opVars == <<pc, wrote, syncVars>>
vars == <<diskVars, lh, outstanding, committing, cache, pin, waiting, opVars, tail, boot>>

Versions == 0 .. MaxVersion
Headers == UNION {[1 .. n -> Blocks] : n \in 0 .. LOGBLOCKS}
Labels == {"user", "begin", "op", "sync", "write_log", "write_head", "install", "erase", "done"}

TypeOK ==
    /\ home \in [Blocks -> Versions]
    /\ logArea \in [1 .. LOGBLOCKS -> Versions]
    /\ head \in Headers
    /\ lh \in Headers
    /\ outstanding \in 0 .. Cardinality(Procs)
    /\ committing \in BOOLEAN
    /\ cache \in [Blocks -> Versions \cup {NotCached}]
    /\ pin \in [Blocks -> 0 .. 1]
    /\ waiting \in SUBSET Procs
    /\ pc \in [Procs -> Labels]
    /\ wrote \in [Procs -> SUBSET Blocks]
    /\ awaited \in [Procs -> 0 .. 1]
    /\ seen \in [Procs -> [Blocks -> Versions]]
    /\ tail \in 0 .. LOGBLOCKS
    /\ boot \in {"read_head", "install", "erase", "up"}

\* Every block as mkfs left it.
Nothing == [b \in Blocks |-> 0]

\* What a boot finds in memory.
AtBoot(logHead, n, busy, buffers, pins, sleepers, at, written, syncs, i, stage) ==
    /\ logHead = <<>>
    /\ n = 0
    /\ busy = FALSE
    /\ buffers = [b \in Blocks |-> NotCached]
    /\ pins = [b \in Blocks |-> 0]
    /\ sleepers = {}
    /\ at = [p \in Procs |-> "user"]
    /\ written = [p \in Procs |-> {}]
    /\ syncs = [p \in Procs |-> 0]
    /\ i = 0
    /\ stage = "read_head"

\* mkfs writes an empty log.
Init ==
    /\ home = [b \in Blocks |-> 0]
    /\ logArea = [i \in 1 .. LOGBLOCKS |-> 0]
    /\ head = <<>>
    /\ AtBoot(lh, outstanding, committing, cache, pin, waiting, pc, wrote, awaited, tail, boot)
    /\ seen = [p \in Procs |-> Nothing]

\* The machine stops and boots again.
Crash ==
    /\ AtBoot(lh', outstanding', committing', cache', pin', waiting', pc', wrote', awaited',
              tail', boot')
    /\ seen' = [p \in Procs |-> Nothing]
    /\ UNCHANGED diskVars

-----------------------------------------------------------------------------
(* recover_from_log() *)

ReadHead ==
    /\ boot = "read_head"
    /\ lh' = head
    /\ boot' = "install"
    /\ UNCHANGED <<diskVars, outstanding, committing, cache, pin, waiting, opVars, tail>>

InstallOne ==
    /\ tail < Len(lh)
    /\ home' = [home EXCEPT ![lh[tail + 1]] = logArea[tail + 1]]
    /\ tail' = tail + 1
    /\ UNCHANGED <<logArea, head>>

\* install_trans(1) fills the cache with what it writes.
RecoverOne ==
    /\ boot = "install"
    /\ InstallOne
    /\ cache' = [cache EXCEPT ![lh[tail + 1]] = logArea[tail + 1]]
    /\ UNCHANGED <<lh, outstanding, committing, pin, waiting, opVars, boot>>

RecoverAll ==
    /\ boot = "install"
    /\ tail = Len(lh)
    /\ lh' = <<>>
    /\ tail' = 0
    /\ boot' = "erase"
    /\ UNCHANGED <<diskVars, outstanding, committing, cache, pin, waiting, opVars>>

RecoverErase ==
    /\ boot = "erase"
    /\ head' = lh
    /\ boot' = "up"
    /\ UNCHANGED <<home, logArea, lh, outstanding, committing, cache, pin, waiting,
                   opVars, tail>>

-----------------------------------------------------------------------------
(* Operations *)

Goto(p, from, to) == pc[p] = from /\ pc' = [pc EXCEPT ![p] = to]

\* Mutant of CanBegin: the blocks already in the log are not counted.
CanBeginOverLog ==
    /\ ~committing
    /\ (outstanding + 1) * MAXOPBLOCKS <= LOGBLOCKS

\* begin_op() neither waits for a commit nor for log space.
CanBegin ==
    /\ ~committing
    /\ Len(lh) + (outstanding + 1) * MAXOPBLOCKS <= LOGBLOCKS

\* A process at the top of begin_op()'s loop: at the call, or woken up.
Beginning(p) == boot = "up" /\ p \notin waiting /\ pc[p] \in {"user", "begin"}

BeginOp(p) ==
    /\ Beginning(p)
    /\ CanBegin
    /\ outstanding' = outstanding + 1
    /\ pc' = [pc EXCEPT ![p] = "op"]
    /\ UNCHANGED <<diskVars, lh, committing, cache, pin, waiting, wrote, syncVars, tail, boot>>

\* sleep_prepare(&log) under log.lock; sleep() returns once wakeup() cleared it.
BeginWait(p) ==
    /\ Beginning(p)
    /\ ~CanBegin
    /\ waiting' = waiting \cup {p}
    /\ pc' = [pc EXCEPT ![p] = "begin"]
    /\ UNCHANGED <<diskVars, lh, outstanding, committing, cache, pin, wrote, syncVars, tail, boot>>

\* The content bread() returns: the buffer's, or the disk's.
Buffered(b) == IF cache[b] = NotCached THEN home[b] ELSE cache[b]

Logged == {lh[i] : i \in DOMAIN lh}

\* The current operation of p may write b.
MayWrite(p, b) ==
    /\ pc[p] = "op"
    /\ Cardinality(wrote[p] \cup {b}) <= OpBlocks
    /\ Buffered(b) < MaxVersion

\* Mutant of LogWrite: no absorption.
LogWriteTwice(p, b) ==
    /\ MayWrite(p, b)
    /\ wrote' = [wrote EXCEPT ![p] = @ \cup {b}]
    /\ cache' = [cache EXCEPT ![b] = Buffered(b) + 1]
    /\ lh' = Append(lh, b)
    /\ pin' = [pin EXCEPT ![b] = @ + 1]
    /\ UNCHANGED <<diskVars, outstanding, committing, waiting, pc, syncVars, tail, boot>>

\* A process modifies a block and calls log_write(), which absorbs a second
\* write of the same transaction and pins the buffer otherwise.
LogWrite(p, b) ==
    /\ MayWrite(p, b)
    /\ wrote' = [wrote EXCEPT ![p] = @ \cup {b}]
    /\ cache' = [cache EXCEPT ![b] = Buffered(b) + 1]
    /\ IF b \in Logged
       THEN UNCHANGED <<lh, pin>>
       ELSE /\ lh' = Append(lh, b)
            /\ pin' = [pin EXCEPT ![b] = @ + 1]
    /\ UNCHANGED <<diskVars, outstanding, committing, waiting, pc, syncVars, tail, boot>>

\* bget() recycles a buffer nobody refers to.
Recycle(b) ==
    /\ cache[b] # NotCached
    /\ pin[b] = 0
    /\ boot = "up"
    /\ cache' = [cache EXCEPT ![b] = NotCached]
    /\ UNCHANGED <<diskVars, lh, outstanding, committing, pin, waiting, opVars, tail, boot>>

\* Mutant of EndOp: nobody is woken before the commit.
EndOpSilent(p) ==
    /\ outstanding > 1
    /\ Goto(p, "op", "user")
    /\ outstanding' = outstanding - 1
    /\ wrote' = [wrote EXCEPT ![p] = {}]
    /\ UNCHANGED <<diskVars, lh, waiting, committing, cache, pin, syncVars, tail, boot>>

\* end_op() of an operation that others overlap: it wakes those who wait for space.
EndOp(p) ==
    /\ outstanding > 1
    /\ Goto(p, "op", "user")
    /\ outstanding' = outstanding - 1
    /\ wrote' = [wrote EXCEPT ![p] = {}]
    /\ waiting' = {}
    /\ UNCHANGED <<diskVars, lh, committing, cache, pin, syncVars, tail, boot>>

\* Mutant of EndLastOp: whoever ends commits, although others still run.
EndAnyOp(p) ==
    /\ ~committing
    /\ Goto(p, "op", IF lh = <<>> THEN "done" ELSE "write_log")
    /\ outstanding' = outstanding - 1
    /\ committing' = TRUE
    /\ wrote' = [wrote EXCEPT ![p] = {}]
    /\ UNCHANGED <<diskVars, lh, cache, pin, waiting, syncVars, tail, boot>>

\* end_op() of the last one: it will commit for all, if there is anything to commit.
EndLastOp(p) ==
    /\ outstanding = 1
    /\ Goto(p, "op", IF lh = <<>> THEN "done" ELSE "write_log")
    /\ outstanding' = 0
    /\ committing' = TRUE
    /\ wrote' = [wrote EXCEPT ![p] = {}]
    /\ UNCHANGED <<diskVars, lh, cache, pin, waiting, syncVars, tail, boot>>

-----------------------------------------------------------------------------
(* commit() *)

WriteLogOne(p) ==
    /\ pc[p] = "write_log"
    /\ tail < Len(lh)
    /\ logArea' = [logArea EXCEPT ![tail + 1] = Buffered(lh[tail + 1])]
    /\ tail' = tail + 1
    /\ UNCHANGED <<home, head, lh, outstanding, committing, cache, pin, waiting, opVars, boot>>

WriteLogEnd(p) ==
    /\ Goto(p, "write_log", "write_head")
    /\ tail = Len(lh)
    /\ tail' = 0
    /\ UNCHANGED <<diskVars, lh, outstanding, committing, cache, pin, waiting, wrote,
                   syncVars, boot>>

\* The point at which the transaction commits.
WriteHead(p) ==
    /\ Goto(p, "write_head", "install")
    /\ head' = lh
    /\ UNCHANGED <<home, logArea, lh, outstanding, committing, cache, pin, waiting,
                   wrote, syncVars, tail, boot>>

\* One iteration of install_trans(0).
InstallTrans(p) ==
    /\ pc[p] = "install"
    /\ InstallOne
    /\ cache' = [cache EXCEPT ![lh[tail + 1]] = logArea[tail + 1]]
    /\ pin' = [pin EXCEPT ![lh[tail + 1]] = @ - 1]
    /\ UNCHANGED <<lh, outstanding, committing, waiting, opVars, boot>>

\* Mutant of InstallEnd: the last block is not installed.
InstallEndEarly(p) ==
    /\ Goto(p, "install", "erase")
    /\ tail + 1 >= Len(lh)
    /\ tail' = 0
    /\ lh' = <<>>
    /\ UNCHANGED <<diskVars, outstanding, committing, cache, pin, waiting, wrote,
                   syncVars, boot>>

InstallEnd(p) ==
    /\ Goto(p, "install", "erase")
    /\ tail = Len(lh)
    /\ tail' = 0
    /\ lh' = <<>>
    /\ UNCHANGED <<diskVars, outstanding, committing, cache, pin, waiting, wrote,
                   syncVars, boot>>

Erase(p) ==
    /\ Goto(p, "erase", "done")
    /\ head' = lh
    /\ UNCHANGED <<home, logArea, lh, outstanding, committing, cache, pin, waiting,
                   wrote, syncVars, tail, boot>>

\* Mutant of FinishCommit: nobody is woken.
FinishCommitSilent(p) ==
    /\ Goto(p, "done", "user")
    /\ committing' = FALSE
    /\ awaited' = [q \in Procs |-> IF awaited[q] > 0 THEN awaited[q] - 1 ELSE 0]
    /\ UNCHANGED <<diskVars, lh, outstanding, cache, pin, waiting, wrote, seen, tail, boot>>

\* The end of end_op(): one more commit is over, everybody is woken.
FinishCommit(p) ==
    /\ Goto(p, "done", "user")
    /\ committing' = FALSE
    /\ awaited' = [q \in Procs |-> IF awaited[q] > 0 THEN awaited[q] - 1 ELSE 0]
    /\ waiting' = {}
    /\ UNCHANGED <<diskVars, lh, outstanding, cache, pin, wrote, seen, tail, boot>>

-----------------------------------------------------------------------------
(* sys_sync() *)

\* It waits for the end of the next commit, unless nothing is in progress.
SyncWait(p) ==
    /\ boot = "up"
    /\ Goto(p, "user", "sync")
    /\ committing \/ outstanding > 0
    /\ awaited' = [awaited EXCEPT ![p] = 1]
    /\ seen' = [seen EXCEPT ![p] = [b \in Blocks |-> Buffered(b)]]
    /\ waiting' = waiting \cup {p}
    /\ UNCHANGED <<diskVars, lh, outstanding, committing, cache, pin, wrote, tail, boot>>

SyncAgain(p) ==
    /\ pc[p] = "sync" /\ p \notin waiting
    /\ awaited[p] > 0
    /\ waiting' = waiting \cup {p}
    /\ UNCHANGED <<diskVars, lh, outstanding, committing, cache, pin, opVars, tail, boot>>

\* Mutant of SyncReturn: any wakeup ends the wait.
SyncReturnAnyWakeup(p) ==
    /\ p \notin waiting
    /\ Goto(p, "sync", "user")
    /\ awaited' = [awaited EXCEPT ![p] = 0]
    /\ seen' = [seen EXCEPT ![p] = Nothing]
    /\ UNCHANGED <<diskVars, lh, outstanding, committing, cache, pin, waiting, wrote,
                   tail, boot>>

SyncReturn(p) ==
    /\ p \notin waiting
    /\ awaited[p] = 0
    /\ Goto(p, "sync", "user")
    /\ seen' = [seen EXCEPT ![p] = Nothing]
    /\ UNCHANGED <<diskVars, lh, outstanding, committing, cache, pin, waiting, wrote,
                   awaited, tail, boot>>

-----------------------------------------------------------------------------
Recover == ReadHead \/ RecoverOne \/ RecoverAll \/ RecoverErase

Commit(p) ==
    \/ WriteLogOne(p) \/ WriteLogEnd(p) \/ WriteHead(p) \/ InstallTrans(p)
    \/ InstallEnd(p) \/ Erase(p) \/ FinishCommit(p)

End(p) == EndOp(p) \/ EndLastOp(p)

Sync(p) == SyncWait(p) \/ SyncAgain(p) \/ SyncReturn(p)

Next ==
    \/ Crash
    \/ Recover
    \/ \E b \in Blocks : Recycle(b)
    \/ \E p \in Procs :
          \/ BeginOp(p) \/ BeginWait(p) \/ End(p) \/ Commit(p) \/ Sync(p)
          \/ \E b \in Blocks : LogWrite(p, b)

Spec == Init /\ [][Next]_vars

\* Every step of the kernel is eventually taken and every operation ends; a
\* process that is woken again and again gets log.lock while there is space.
Fairness ==
    /\ WF_vars(Recover)
    /\ \A p \in Procs :
          /\ WF_vars(End(p)) /\ WF_vars(Commit(p)) /\ WF_vars(SyncAgain(p) \/ SyncReturn(p))
          /\ WF_vars(pc[p] = "begin" /\ BeginWait(p))
          /\ SF_vars(pc[p] = "begin" /\ BeginOp(p))

FairSpec == Spec /\ Fairness

-----------------------------------------------------------------------------
(* Properties *)

InOp == {p \in Procs : pc[p] = "op"}
Committer == {p \in Procs : pc[p] \in {"write_log", "write_head", "install", "erase", "done"}}

\* None of the panics of log.c is reached: the log has room for every write of
\* an admitted operation, although others share it, and a commit never starts
\* while one runs (log.c:138, 161, 229-232).
NoPanic ==
    /\ outstanding = Cardinality(InOp)
    /\ committing => outstanding = 0
    /\ \A p \in Procs, b \in Blocks : MayWrite(p, b) => Len(lh) < LOGBLOCKS

\* Exactly one process commits while log.committing is set.
OneCommitter == Cardinality(Committer) = (IF committing THEN 1 ELSE 0)

\* Whoever sleeps on the log waits for something that is still to come: each
\* change that could admit it or end its sync() woke it (log.c:172, 181).
NoLostWakeup == \A p \in waiting :
    \/ pc[p] = "begin" /\ ~CanBegin
    \/ pc[p] = "sync" /\ awaited[p] > 0 /\ (committing \/ outstanding > 0)

\* A buffer that may be recycled holds what the disk holds.
RecyclableIsClean == \A b \in Blocks :
    boot = "up" /\ pin[b] = 0 => cache[b] \in {NotCached, home[b]}

\* The blocks a boot would end up with, if the machine stopped now.
Recovered == [b \in Blocks |->
    IF \E i \in DOMAIN head : head[i] = b
    THEN logArea[CHOOSE i \in DOMAIN head : head[i] = b]
    ELSE home[b]]

\* The blocks as the operations see them.
Current == IF boot = "up" THEN [b \in Blocks |-> Buffered(b)] ELSE Recovered

QuiescentIsDurable ==
    boot = "up" /\ ~committing /\ outstanding = 0 => Recovered = Current

\* Nothing written gets lost while the machine is up: one process at a time
\* commits (log.c:152-184), a block that is logged and not yet installed stays
\* cached, so that bread() returns it (log.c:80-81, 240-241), and when nothing
\* is in progress everything is durable, which is why sys_sync() may then
\* return at once (log.c:250).
LogIsSound == OneCommitter /\ RecyclableIsClean /\ QuiescentIsDurable

\* The log implements atomic group commit: whatever the crash, the disk goes
\* from one quiescent image to a later one.
Abstract == INSTANCE AtomicDisk WITH mem <- Current, disk <- Recovered, active <- InOp
Atomicity == Abstract!Spec

\* When sys_sync() returns, every write made before the call is on the disk,
\* even one of an operation that was still running, and whatever operations
\* and commits overlapped the call (log.c:246-261).
SyncIsDurable == [][\A p \in Procs :
    pc[p] = "sync" /\ pc'[p] = "user" /\ boot' = "up" =>
        \A b \in Blocks : seen[p][b] <= Recovered[b]]_vars

\* Whoever waits in begin_op() gets in, or the machine crashes.
BeginOpReturns == \A p \in Procs : pc[p] = "begin" ~> pc[p] # "begin"
=============================================================================
