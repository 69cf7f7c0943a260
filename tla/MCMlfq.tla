------------------------------- MODULE MCMlfq -------------------------------
(* Small instances of Mlfq: the time slices are scaled down with the boost   *)
(* period, keeping 1 <= Slice[k] < BOOST and every queue reachable.          *)
EXTENDS Mlfq

\* One tick in every queue but the second.
ShortSlices == [k \in Queues |-> IF k = 1 THEN 2 ELSE 1]

\* One tick in every queue.
UnitSlices == [k \in Queues |-> 1]
=============================================================================
