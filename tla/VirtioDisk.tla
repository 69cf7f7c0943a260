----------------------------- MODULE VirtioDisk ------------------------------
(***************************************************************************)
(* The virtio disk driver (kernel/virtio_disk.c) and the device it drives: *)
(* requests queue for descriptors, the device serves them in any order,    *)
(* writes the used ring and interrupts, and the handler finishes them.     *)
(*                                                                         *)
(* A process's step is what virtio_disk_rw() does under one acquisition of *)
(* vdisk_lock, between two sleeps; the handler holds the lock from its     *)
(* acknowledgement to its return, while the device goes on.  Descriptors   *)
(* and the avail ring keep what the device reads of them: the request of a *)
(* chain, under the number of its first descriptor.                        *)
(***************************************************************************)
EXTENDS Naturals, FiniteSets, Sequences

CONSTANTS
    Procs,
    Bufs,       \* buffers of the cache, in whose b->data the device reads and writes
    Blocks,     \* blocks of the disk
    Values,     \* contents of a block
    NUMS,       \* numbers of descriptors, of which the driver has one
    Nobody      \* no buffer, no block, no process

ASSUME VirtioAssumption ==
    /\ NUMS \subseteq Nat /\ \A n \in NUMS : n >= 3
    /\ IsFiniteSet(Procs) /\ IsFiniteSet(Bufs)
    /\ Nobody \notin Bufs \cup Blocks \cup Procs

VARIABLES
    num,        \* NUM
    media,      \* the blocks on the disk
    data,       \* b->data
    disk,       \* the buffers whose b->disk is 1
    free,       \* disk.free
    info,       \* disk.info[].b
    avail,      \* what the driver asked for and the device has not done
    used,       \* heads in the used ring, from used_idx to used->idx
    owed,       \* the device is about to raise an interrupt
    irq,        \* InterruptStatus
    intr,       \* where virtio_disk_intr() is
    rw,         \* where each process is in virtio_disk_rw()
    idx         \* its three descriptors

deviceVars == <<media, data, avail, used, owed>>
driverVars == <<disk, free, info, irq, intr, rw, idx>>
virtioVars == <<deviceVars, driverVars, num>>

Desc == 0 .. num - 1
Requests == [id : Desc, write : BOOLEAN, block : Blocks, buf : Bufs]

VirtioTypeOK ==
    /\ num \in NUMS
    /\ media \in [Blocks -> Values]
    /\ data \in [Bufs -> Values]
    /\ disk \subseteq Bufs
    /\ free \subseteq Desc
    /\ info \in [Desc -> Bufs \cup {Nobody}]
    /\ avail \subseteq Requests
    /\ used \in Seq(Desc)
    /\ owed \in BOOLEAN /\ irq \in BOOLEAN
    /\ intr \in {"off", "loop", "return"}
    /\ rw \in [Procs -> {"none", "alloc", "full", "wait", "check"}]
    /\ idx \in [Procs -> SUBSET Desc]

\* virtio_disk_init(); the buffers hold whatever memory held.
VirtioInit(v) ==
    /\ num \in NUMS
    /\ media = [b \in Blocks |-> v]
    /\ data = [b \in Bufs |-> v]
    /\ disk = {}
    /\ free = Desc
    /\ info = [d \in Desc |-> Nobody]
    /\ avail = {}
    /\ used = <<>>
    /\ owed = FALSE /\ irq = FALSE
    /\ intr = "off"
    /\ rw = [p \in Procs |-> "none"]
    /\ idx = [p \in Procs |-> {}]

Least(S) == CHOOSE d \in S : \A e \in S : d <= e

\* alloc3_desc() takes the first three that are free.
Three == LET a == Least(free)
             b == Least(free \ {a})
         IN {a, b, Least(free \ {a, b})}

\* free_desc(): wakeup(&disk.free[0]).
WokenByFree(r) == [p \in Procs |-> IF r[p] = "full" THEN "alloc" ELSE r[p]]

\* Nobody holds vdisk_lock.
VdiskFree == intr = "off"

\* virtio_disk_rw() up to the first attempt to get descriptors.
RwCall(p) == rw[p] = "none" /\ rw' = [rw EXCEPT ![p] = "alloc"]

\* Fewer than three are free; those alloc3_desc() took it gives back, which
\* wakes the others who wait for descriptors.
RwFull(p) ==
    /\ VdiskFree
    /\ rw[p] = "alloc"
    /\ Cardinality(free) < 3
    /\ rw' = [(IF free = {} THEN rw ELSE WokenByFree(rw)) EXCEPT ![p] = "full"]
    /\ UNCHANGED <<deviceVars, disk, free, info, irq, intr, idx>>

\* The chain is formatted, published and notified; the process sleeps on b,
\* which the device cannot have finished for it: that takes vdisk_lock.
RwSubmit(p, b, block, write) ==
    /\ VdiskFree
    /\ rw[p] = "alloc"
    /\ Cardinality(free) >= 3
    /\ idx' = [idx EXCEPT ![p] = Three]
    /\ free' = free \ Three
    /\ disk' = disk \cup {b}
    /\ info' = [info EXCEPT ![Least(Three)] = b]
    /\ avail' = avail \cup {[id |-> Least(Three), write |-> write, block |-> block, buf |-> b]}
    /\ rw' = [rw EXCEPT ![p] = "wait"]
    /\ UNCHANGED <<media, data, used, owed, irq, intr>>

\* Made runnable by kkill(), but b->disk is still 1.
RwSleepAgain(p, b) ==
    /\ VdiskFree
    /\ rw[p] = "check" /\ b \in disk
    /\ rw' = [rw EXCEPT ![p] = "wait"]
    /\ UNCHANGED <<deviceVars, disk, free, info, irq, intr, idx>>

\* A sleeper becomes runnable though nothing it waits for has happened.
RwKicked(p) ==
    /\ rw[p] \in {"full", "wait"}
    /\ rw' = [rw EXCEPT ![p] = IF @ = "full" THEN "alloc" ELSE "check"]
    /\ UNCHANGED <<deviceVars, disk, free, info, irq, intr, idx>>

\* b->disk is 0: the chain is freed and virtio_disk_rw() returns.
RwReturn(p, b) ==
    /\ VdiskFree
    /\ rw[p] = "check" /\ b \notin disk
    /\ info' = [info EXCEPT ![Least(idx[p])] = Nobody]
    /\ free' = free \cup idx[p]
    /\ idx' = [idx EXCEPT ![p] = {}]
    /\ rw' = [WokenByFree(rw) EXCEPT ![p] = "none"]
    /\ UNCHANGED <<deviceVars, disk, irq, intr>>

-----------------------------------------------------------------------------
(* The device *)

\* It does a request, in an order of its own, and puts it in the used ring.
DeviceServes(r) ==
    /\ r \in avail
    /\ IF r.write
       THEN media' = [media EXCEPT ![r.block] = data[r.buf]] /\ UNCHANGED data
       ELSE data' = [data EXCEPT ![r.buf] = media[r.block]] /\ UNCHANGED media
    /\ avail' = avail \ {r}
    /\ used' = Append(used, r.id)
    /\ owed' = TRUE
    /\ UNCHANGED driverVars

DeviceInterrupts ==
    /\ owed
    /\ owed' = FALSE
    /\ irq' = TRUE
    /\ UNCHANGED <<media, data, avail, used, disk, free, info, intr, rw, idx>>

-----------------------------------------------------------------------------
(* virtio_disk_intr() *)

IntrAck ==
    /\ irq /\ VdiskFree
    /\ irq' = FALSE
    /\ intr' = "loop"
    /\ UNCHANGED <<deviceVars, disk, free, info, rw, idx>>

\* The device reports an error, as it may of any request.  Whether it moved the
\* data is all one: the buffer stays locked, and the kernel stops.
IntrPanics == intr = "loop" /\ used # <<>>

\* It reports success.  Those who sleep on b are those who wait for a chain of b.
IntrOne ==
    /\ intr = "loop" /\ used # <<>>
    /\ LET b == info[Head(used)] IN
          /\ disk' = disk \ {b}
          /\ rw' = [p \in Procs |->
                IF rw[p] = "wait" /\ info[Least(idx[p])] = b THEN "check" ELSE rw[p]]
    /\ used' = Tail(used)
    /\ UNCHANGED <<media, data, avail, owed, free, info, irq, intr, idx>>

\* used_idx = used->idx: the loop ends, the lock is still held.
IntrEndLoop ==
    /\ intr = "loop" /\ used = <<>>
    /\ intr' = "return"
    /\ UNCHANGED <<deviceVars, disk, free, info, irq, rw, idx>>

\* Mutant of IntrReturn: the interrupt is acknowledged after the loop.
IntrReturnAcks ==
    /\ intr = "return"
    /\ intr' = "off"
    /\ irq' = FALSE
    /\ UNCHANGED <<deviceVars, disk, free, info, rw, idx>>

IntrReturn ==
    /\ intr = "return"
    /\ intr' = "off"
    /\ UNCHANGED <<deviceVars, disk, free, info, irq, rw, idx>>

DeviceStep ==
    \/ DeviceInterrupts \/ IntrAck \/ IntrOne \/ IntrEndLoop \/ IntrReturn
    \/ \E r \in avail : DeviceServes(r)
-----------------------------------------------------------------------------
(* Parts of the properties of BufferCache *)

\* No interrupt is lost.
CompletionIsAnnounced == used # <<>> => owed \/ irq \/ intr = "loop"

\* A process that sleeps in virtio_disk_rw() will be woken: its request is at
\* the device or in the ring, or there is a request that will free descriptors.
RequestIsPending(p) ==
    /\ rw[p] = "wait" => \/ Least(idx[p]) \in {r.id : r \in avail}
                         \/ \E i \in DOMAIN used : used[i] = Least(idx[p])
    /\ rw[p] = "full" => Cardinality(free) < 3 /\ \E q \in Procs : rw[q] \in {"wait", "check"}

\* free_desc() would panic on a free descriptor; virtio_disk_intr() would use
\* a null info[].b.
ChainsAreOwned ==
    /\ \A p, q \in Procs : p # q => idx[p] \cap idx[q] = {}
    /\ \A p \in Procs : idx[p] \cap free = {}
    /\ free \cup UNION {idx[p] : p \in Procs} = Desc
    /\ \A i \in DOMAIN used : info[used[i]] # Nobody
=============================================================================
