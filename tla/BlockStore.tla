----------------------------- MODULE BlockStore ------------------------------
(***************************************************************************)
(* What the buffer cache promises (kernel/bio.c:3-16): at most one process *)
(* at a time uses a block, it finds what the last one left there, whether  *)
(* or not that has reached the disk, and the disk gets only what the       *)
(* process that has the block tells it to write.                           *)
(***************************************************************************)
CONSTANTS Procs, Blocks, Values, Nobody

VARIABLES
    holder,     \* the process that has the block
    content,    \* what it finds there
    disk        \* what the disk holds

Init == \E v \in Values :
    /\ holder = [b \in Blocks |-> Nobody]
    /\ content = [b \in Blocks |-> v]
    /\ disk = [b \in Blocks |-> v]

Get(p, b) ==
    /\ holder[b] = Nobody
    /\ holder' = [holder EXCEPT ![b] = p]
    /\ UNCHANGED <<content, disk>>

Modify(b, v) ==
    /\ holder[b] # Nobody
    /\ content' = [content EXCEPT ![b] = v]
    /\ UNCHANGED <<holder, disk>>

Save(b) ==
    /\ holder[b] # Nobody
    /\ disk' = [disk EXCEPT ![b] = content[b]]
    /\ UNCHANGED <<holder, content>>

Put(b) ==
    /\ holder[b] # Nobody
    /\ holder' = [holder EXCEPT ![b] = Nobody]
    /\ UNCHANGED <<content, disk>>

Next == \E b \in Blocks :
    \/ Save(b) \/ Put(b)
    \/ \E p \in Procs : Get(p, b)
    \/ \E v \in Values : Modify(b, v)

Spec == Init /\ [][Next]_<<holder, content, disk>>
=============================================================================
