----------------------------- MODULE AtomicDisk -----------------------------
(***************************************************************************)
(* What the logging layer of the xv6 file system promises.  File system    *)
(* operations change blocks in memory; what is on the disk moves from one  *)
(* quiescent memory image to a later one in a single step, so that a crash *)
(* never leaves half of an operation.  A block's content is the number of  *)
(* times it was written.                                                   *)
(***************************************************************************)
EXTENDS Naturals

CONSTANTS Blocks, Procs

VARIABLES
    mem,        \* the blocks as running operations see them
    disk,       \* the blocks as the next boot will see them
    active      \* processes inside an operation

vars == <<mem, disk, active>>

Init ==
    /\ mem = [b \in Blocks |-> 0]
    /\ disk = [b \in Blocks |-> 0]
    /\ active = {}

Begin(p) ==
    /\ p \notin active
    /\ active' = active \cup {p}
    /\ UNCHANGED <<mem, disk>>

Write(p, b) ==
    /\ p \in active
    /\ mem' = [mem EXCEPT ![b] = @ + 1]
    /\ UNCHANGED <<disk, active>>

End(p) ==
    /\ p \in active
    /\ active' = active \ {p}
    /\ UNCHANGED <<mem, disk>>

\* All the operations that ended since the last commit become durable at once.
Commit ==
    /\ active = {}
    /\ disk' = mem
    /\ UNCHANGED <<mem, active>>

Crash ==
    /\ mem' = disk
    /\ active' = {}
    /\ UNCHANGED disk

Next ==
    \/ Commit
    \/ Crash
    \/ \E p \in Procs : Begin(p) \/ End(p) \/ \E b \in Blocks : Write(p, b)

Spec == Init /\ [][Next]_vars
=============================================================================
