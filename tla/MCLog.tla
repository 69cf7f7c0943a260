------------------------------- MODULE MCLog --------------------------------
(* Small instances of Log.                                                   *)
EXTENDS Log, TLC

Symmetry == Permutations(Procs) \cup Permutations(Blocks)
=============================================================================
