----------------------------- MODULE BoundedFifo -----------------------------
(***************************************************************************)
(* What a pipe promises: a bounded queue of bytes between two ends.  Bytes *)
(* come out once, in the order they went in; those put before the write    *)
(* end closed can still be taken; with the read end gone they are lost.    *)
(***************************************************************************)
EXTENDS Naturals, Sequences

CONSTANTS Bytes, Capacity

VARIABLES
    queue,
    readable,   \* the read end is open
    writable    \* the write end is open

vars == <<queue, readable, writable>>

Init == queue = <<>> /\ ~readable /\ ~writable

Create ==
    /\ ~readable /\ ~writable
    /\ queue' = <<>> /\ readable' /\ writable'

Put(b) ==
    /\ readable /\ writable
    /\ Len(queue) < Capacity
    /\ queue' = Append(queue, b)
    /\ UNCHANGED <<readable, writable>>

Take(n) ==
    /\ readable
    /\ n <= Len(queue)
    /\ queue' = SubSeq(queue, n + 1, Len(queue))
    /\ UNCHANGED <<readable, writable>>

CloseRead == readable /\ ~readable' /\ queue' = <<>> /\ UNCHANGED writable

CloseWrite == writable /\ ~writable' /\ UNCHANGED <<queue, readable>>

Next ==
    \/ Create \/ CloseRead \/ CloseWrite
    \/ \E b \in Bytes : Put(b)
    \/ \E n \in 1 .. Capacity : Take(n)

Spec == Init /\ [][Next]_vars
=============================================================================
