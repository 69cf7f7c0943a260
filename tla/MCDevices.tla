----------------------------- MODULE MCDevices -------------------------------
(* Small instances of Devices.                                               *)
EXTENDS Devices, TLC

\* What is typed matters to writers only by what the handler prints.
Echoed == {PROCS}

\* Three processes compete for one chain and for buffers, two use two at once.
Loads == (4 :> [procs |-> 3, blocks |-> 3, pins |-> 2])
      @@ (6 :> [procs |-> 2, blocks |-> 2, pins |-> 0])

\* Processes, blocks and contents are only compared.
Symmetry == Permutations(Procs) \cup Permutations(Blocks) \cup Permutations(Values)
=============================================================================
