----------------------------- MODULE MCPipeProcs ------------------------------
(* Small instances of PipeProcs.                                             *)
EXTENDS PipeProcs, TLC

\* Bytes are only copied and compared.
Symmetry == Permutations(Bytes)
=============================================================================
