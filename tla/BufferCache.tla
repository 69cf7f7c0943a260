----------------------------- MODULE BufferCache -----------------------------
(***************************************************************************)
(* The buffer cache (kernel/bio.c) and its sleeplocks (kernel/sleeplock.c) *)
(* over the virtio disk: processes get a block, change it as an operation  *)
(* of the log or write it to the disk as its commit, and put it back.      *)
(*                                                                         *)
(* bget() and the end of brelse() are one step each, under bcache.lock;    *)
(* taking and releasing b->lock are steps of their own.  A process has one *)
(* buffer at a time.  sleep_prepare() and sleep() are one step: Mlfq       *)
(* checks that what comes between them loses no wakeup.                    *)
(***************************************************************************)
EXTENDS VirtioDisk

VARIABLES
    lru,        \* the list through prev and next, from most recently used
    blockno, valid, refcnt,     \* fields of a buffer
    lock,       \* the holder of b->lock
    pinned,     \* the blocks in the log's header, pinned by log_write()
    pc,         \* where each process is
    mine         \* the buffer it uses

bufVars == <<lru, blockno, valid, refcnt>>
cacheVars == <<bufVars, lock, pinned, pc, mine>>
storeVars == <<virtioVars, cacheVars>>

Labels == {"user", "lock", "locksleep", "valid", "read", "hold", "write", "flush", "put"}

CacheTypeOK ==
    /\ VirtioTypeOK
    /\ lru \in Seq(Bufs) /\ Len(lru) = Cardinality(Bufs)
    /\ blockno \in [Bufs -> Blocks \cup {Nobody}]
    /\ valid \in [Bufs -> BOOLEAN]
    /\ refcnt \in [Bufs -> 0 .. Cardinality(Procs) + 1]
    /\ lock \in [Bufs -> Procs \cup {Nobody}]
    /\ pinned \subseteq Blocks
    /\ pc \in [Procs -> Labels]
    /\ mine \in [Procs -> Bufs \cup {Nobody}]

\* binit(); a buffer of no block stands for block 0 of device 0.
CacheInit ==
    /\ \E v \in Values : VirtioInit(v)
    /\ lru = CHOOSE s \in [1 .. Cardinality(Bufs) -> Bufs] :
                  \A i, j \in DOMAIN s : s[i] = s[j] => i = j
    /\ blockno = [b \in Bufs |-> Nobody]
    /\ valid = [b \in Bufs |-> FALSE]
    /\ refcnt = [b \in Bufs |-> 0]
    /\ lock = [b \in Bufs |-> Nobody]
    /\ pinned = {}
    /\ pc = [p \in Procs |-> "user"]
    /\ mine = [p \in Procs |-> Nobody]

Goto(p, from, to) == pc[p] = from /\ pc' = [pc EXCEPT ![p] = to]

-----------------------------------------------------------------------------
(* bget() *)

Cached(n) == {b \in Bufs : blockno[b] = n}
First(S) == CHOOSE i \in S : \A j \in S : i <= j
Last(S) == CHOOSE i \in S : \A j \in S : j <= i
Positions(S) == {i \in DOMAIN lru : lru[i] \in S}

BgetHit(p, n) ==
    /\ Goto(p, "user", "lock")
    /\ Cached(n) # {}
    /\ LET b == lru[First(Positions(Cached(n)))] IN
          /\ refcnt' = [refcnt EXCEPT ![b] = @ + 1]
          /\ mine' = [mine EXCEPT ![p] = b]
    /\ UNCHANGED <<virtioVars, lru, blockno, valid, lock, pinned>>

\* Mutant of Unused: a pinned buffer that nobody uses is recycled.
UnusedButPinned == {b \in Bufs : \A p \in Procs : mine[p] # b}

Unused == {b \in Bufs : refcnt[b] = 0}

\* Mutant of BgetRecycle: valid is left as the buffer's last block had it.
BgetRecycleValid(p, n) ==
    /\ Goto(p, "user", "lock")
    /\ Cached(n) = {} /\ Unused # {}
    /\ LET b == lru[Last(Positions(Unused))] IN
          /\ blockno' = [blockno EXCEPT ![b] = n]
          /\ refcnt' = [refcnt EXCEPT ![b] = 1]
          /\ mine' = [mine EXCEPT ![p] = b]
    /\ UNCHANGED <<virtioVars, lru, valid, lock, pinned>>

BgetRecycle(p, n) ==
    /\ Goto(p, "user", "lock")
    /\ Cached(n) = {} /\ Unused # {}
    /\ LET b == lru[Last(Positions(Unused))] IN
          /\ blockno' = [blockno EXCEPT ![b] = n]
          /\ valid' = [valid EXCEPT ![b] = FALSE]
          /\ refcnt' = [refcnt EXCEPT ![b] = 1]
          /\ mine' = [mine EXCEPT ![p] = b]
    /\ UNCHANGED <<virtioVars, lru, lock, pinned>>

\* Every buffer is referred to.
BgetPanics(p, n) == pc[p] = "user" /\ Cached(n) = {} /\ Unused = {}

-----------------------------------------------------------------------------
(* acquiresleep() and releasesleep() *)

Acquire(p) ==
    /\ pc[p] = "lock" /\ lock[mine[p]] = Nobody
    /\ Goto(p, "lock", "valid")
    /\ lock' = [lock EXCEPT ![mine[p]] = p]
    /\ UNCHANGED <<virtioVars, bufVars, pinned, mine>>

AcquireSleeps(p) ==
    /\ pc[p] = "lock" /\ lock[mine[p]] # Nobody
    /\ Goto(p, "lock", "locksleep")
    /\ UNCHANGED <<virtioVars, bufVars, lock, pinned, mine>>

\* The first half of brelse().
Release(p) ==
    /\ pc[p] = "hold"
    /\ lock[mine[p]] = p
    /\ lock' = [lock EXCEPT ![mine[p]] = Nobody]
    /\ pc' = [q \in Procs |-> IF q = p THEN "put"
                              ELSE IF pc[q] = "locksleep" /\ mine[q] = mine[p] THEN "lock"
                              ELSE pc[q]]
    /\ UNCHANGED <<virtioVars, bufVars, pinned, mine>>

\* The list with b moved to its head.
ToHead(b) ==
    LET k == CHOOSE i \in DOMAIN lru : lru[i] = b
    IN  [i \in DOMAIN lru |-> IF i = 1 THEN b ELSE IF i <= k THEN lru[i - 1] ELSE lru[i]]

\* The second half: a buffer nobody refers to goes to the head of the list.
Brelse(p) ==
    /\ Goto(p, "put", "user")
    /\ LET b == mine[p] IN
          /\ refcnt' = [refcnt EXCEPT ![b] = @ - 1]
          /\ lru' = IF refcnt[b] = 1 THEN ToHead(b) ELSE lru
    /\ mine' = [mine EXCEPT ![p] = Nobody]
    /\ UNCHANGED <<virtioVars, blockno, valid, lock, pinned>>

-----------------------------------------------------------------------------
(* bread() and bwrite() *)

BreadHit(p) ==
    /\ pc[p] = "valid" /\ valid[mine[p]]
    /\ Goto(p, "valid", "hold")
    /\ UNCHANGED <<virtioVars, bufVars, lock, pinned, mine>>

BreadMiss(p) ==
    /\ pc[p] = "valid" /\ ~valid[mine[p]]
    /\ Goto(p, "valid", "read")
    /\ RwCall(p)
    /\ UNCHANGED <<deviceVars, disk, free, info, irq, intr, idx, bufVars, lock, pinned, mine>>

BreadReturn(p) ==
    /\ Goto(p, "read", "hold")
    /\ RwReturn(p, mine[p])
    /\ valid' = [valid EXCEPT ![mine[p]] = TRUE]
    /\ UNCHANGED <<lru, blockno, refcnt, lock, pinned, mine>>

\* An operation changes the block and calls log_write(), which pins it once.
LogWrite(p, v) ==
    /\ pc[p] = "hold"
    /\ data' = [data EXCEPT ![mine[p]] = v]
    /\ LET n == blockno[mine[p]] IN
          /\ pinned' = pinned \cup {n}
          /\ refcnt' = IF n \in pinned THEN refcnt ELSE [refcnt EXCEPT ![mine[p]] = @ + 1]
    /\ UNCHANGED <<media, avail, used, owed, driverVars, lru, blockno, valid, lock, pc, mine>>

\* write_log() and write_head() change a block of the log and bwrite() it;
\* install_trans() writes a pinned block and unpins it.
Bwrite(p, v) ==
    /\ pc[p] = "hold"
    /\ LET logged == blockno[mine[p]] \in pinned IN
          /\ Goto(p, "hold", IF logged THEN "flush" ELSE "write")
          /\ data' = IF logged THEN data ELSE [data EXCEPT ![mine[p]] = v]
    /\ RwCall(p)
    /\ UNCHANGED <<media, avail, used, owed, disk, free, info, irq, intr, idx,
                   bufVars, lock, pinned, mine>>

BwriteReturn(p) ==
    /\ Goto(p, "write", "hold")
    /\ RwReturn(p, mine[p])
    /\ UNCHANGED <<bufVars, lock, pinned, mine>>

\* Mutant of InstallReturn: the buffer is not unpinned.
InstallReturnPinned(p) ==
    /\ Goto(p, "flush", "hold")
    /\ RwReturn(p, mine[p])
    /\ pinned' = pinned \ {blockno[mine[p]]}
    /\ UNCHANGED <<bufVars, lock, mine>>

\* bwrite() of install_trans() and its bunpin().
InstallReturn(p) ==
    /\ Goto(p, "flush", "hold")
    /\ RwReturn(p, mine[p])
    /\ pinned' = pinned \ {blockno[mine[p]]}
    /\ refcnt' = [refcnt EXCEPT ![mine[p]] = @ - 1]
    /\ UNCHANGED <<lru, blockno, valid, lock, mine>>

\* Inside virtio_disk_rw().
Rw(p) ==
    /\ pc[p] \in {"read", "write", "flush"}
    /\ \/ RwSubmit(p, mine[p], blockno[mine[p]], pc[p] # "read")
       \/ RwFull(p)
       \/ RwSleepAgain(p, mine[p])
    /\ UNCHANGED cacheVars

\* kkill() makes any sleeper runnable, which then looks again and sleeps again:
\* waits for a buffer's lock and for the disk cannot be given up.
KillSleeper(p) ==
    \/ /\ Goto(p, "locksleep", "lock")
       /\ UNCHANGED <<virtioVars, bufVars, lock, pinned, mine>>
    \/ /\ RwKicked(p)
       /\ UNCHANGED cacheVars

CacheNext == num' = num /\
    \/ DeviceStep /\ UNCHANGED cacheVars
    \/ \E p \in Procs :
          \/ \E n \in Blocks : BgetHit(p, n) \/ BgetRecycle(p, n)
          \/ Acquire(p) \/ AcquireSleeps(p) \/ Release(p) \/ Brelse(p)
          \/ BreadHit(p) \/ BreadMiss(p) \/ BreadReturn(p)
          \/ \E v \in Values : LogWrite(p, v) \/ Bwrite(p, v)
          \/ BwriteReturn(p) \/ InstallReturn(p) \/ Rw(p)
          \/ KillSleeper(p)

CacheSpec == CacheInit /\ [][CacheNext]_storeVars
-----------------------------------------------------------------------------
(* Properties *)

Holds(p, n) == pc[p] \in {"hold", "write", "flush"} /\ blockno[mine[p]] = n

Holder(n) == IF \E p \in Procs : Holds(p, n) THEN CHOOSE p \in Procs : Holds(p, n) ELSE Nobody

\* What the holder of block n sees, or the next one will.
Content(n) ==
    IF Holder(n) # Nobody THEN data[mine[Holder(n)]]
    ELSE IF \E b \in Cached(n) : valid[b] THEN data[CHOOSE b \in Cached(n) : valid[b]]
    ELSE media[n]

Store == INSTANCE BlockStore WITH
    holder <- [n \in Blocks |-> Holder(n)],
    content <- [n \in Blocks |-> Content(n)],
    disk <- media

\* Whatever is recycled, shared, queued and interrupted, processes see one
\* copy of each block, one at a time, with what was last left there, and only
\* the holder's writes reach the disk (bio.c:3-16, 74-86).
CoherentBlocks == Store!Spec

\* Every sleeper has somebody who will wake it: the holder of the sleeplock,
\* or the disk, which has its request and will interrupt, or a request whose
\* end frees descriptors (sleeplock.c:25-30, virtio_disk.c:228-236, 287-292).
StoreSleeperIsOwed ==
    /\ CompletionIsAnnounced
    /\ \A p \in Procs : pc[p] = "locksleep" => lock[mine[p]] # Nobody
    /\ \A p \in Procs : RequestIsPending(p)

\* bget() panics only when the cache really is full, each of its buffers pinned
\* or in use: no reference outlives who took it, over hits, recycling, logging
\* twice and installing (bio.c:60-88, 114-151).  Whether it gets full is up to
\* the log and its callers: nothing in the cache keeps it from it.
PanicsOnlyWhenFull ==
    (\E p \in Procs, n \in Blocks : BgetPanics(p, n)) =>
        \A b \in Bufs : blockno[b] \in pinned \/ \E p \in Procs : mine[p] = b

\* The other panics are out of reach: who uses a buffer holds its lock, and a
\* descriptor in use is not free (bio.c:109, 119, virtio_disk.c:172-175).
StoreChecksHold ==
    /\ \A p \in Procs : pc[p] \in {"valid", "read", "hold", "write", "flush"} => lock[mine[p]] = p
    /\ ChainsAreOwned
=============================================================================
