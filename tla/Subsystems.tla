------------------------------ MODULE Subsystems -----------------------------
(***************************************************************************)
(* Parts of the kernel and of the two shells that share no state: memory,  *)
(* the blocks of files, inodes and directories, the parser of the shell,   *)
(* and the shell of xv6.  Each is checked while the others rest.           *)
(***************************************************************************)
EXTENDS Memory, Blocks, Inodes, CShellParser, Sh

CONSTANTS
    TypedChars,  \* characters a line is typed of
    LineLength,  \* bound on the lines that are only parsed
    RunLines     \* lines of sh that are run

VARIABLE part    \* which of them is checked

vars == <<memVars, blockVars, inodeVars, typed, tokens, shVars, part>>

Parts == {"memory", "blocks", "inodes", "parser", "sh"}
Lines(chars) == UNION {[1 .. n -> chars] : n \in 0 .. LineLength}

TypeOK == MemTypeOK /\ BlocksTypeOK /\ InodesTypeOK /\ part \in Parts

Init ==
    /\ part \in Parts
    /\ MemInit /\ BlocksInit /\ InodesInit /\ ShInit
    /\ part # "memory" => machine = CHOOSE m \in Machines : TRUE
    /\ part # "blocks" => fip = CHOOSE f \in OpenFiles : TRUE
    /\ \/ part = "parser" /\ typed \in Lines(TypedChars) /\ tokens = <<>>
       \/ part = "parser" /\ typed = <<>> /\ tokens \in Lines(TokenTypes)
       \/ part # "parser" /\ typed = <<>> /\ tokens = <<>>
    /\ cmdline \in IF part = "sh" THEN Lines(ShTokens) \cup RunLines ELSE {<<>>}

Next ==
    \/ part = "memory" /\ MemNext /\ UNCHANGED <<blockVars, inodeVars, typed, tokens, shVars, part>>
    \/ part = "blocks" /\ BlocksNext /\ UNCHANGED <<memVars, inodeVars, typed, tokens, shVars, part>>
    \/ part = "inodes" /\ InodesNext /\ UNCHANGED <<memVars, blockVars, typed, tokens, shVars, part>>
    \/ /\ part = "sh" /\ cmdline \in RunLines /\ ShNext
       /\ UNCHANGED <<memVars, blockVars, inodeVars, typed, tokens, part>>

Spec == Init /\ [][Next]_vars
=============================================================================
