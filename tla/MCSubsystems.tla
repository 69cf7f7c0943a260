---------------------------- MODULE MCSubsystems -----------------------------
(* Small instances of Subsystems.                                            *)
EXTENDS Subsystems, TLC

\* Executables of two segments, the second within the page of the first's end
\* or below it.
Executables == {<<1, 3>>, <<3, 1>>}

\* Three processes with hardly room for two; two with room for one's new image
\* besides its old one, barely and amply.
MemorySizes == {[phys |-> 21, nproc |-> 3], [phys |-> 28, nproc |-> 2], [phys |-> 31, nproc |-> 2]}

\* Two open files, of one inode or of two.
OneOrTwoFiles == {(1 :> 1) @@ (2 :> 1), (1 :> 1) @@ (2 :> 2)}

PathNames == {<<"a">>, <<"..", "b">>}

Chars == {"|", ">", "'", "\"", "\\", "_", "o"}

\* Pipelines, lists, redirections and both kinds of background.
ShLines ==
    {<<"a", "|", "a">>, <<"a", "|", "a", "|", "a">>,
     <<"(", "a", ";", "a", ")", "|", "a">>, <<"a", "|", "(", "a", "&", ")">>,
     <<"a", "&", ";", "a", "|", "a", "<", "a">>, <<"a", "|", "a", "&">>}

\* Processes are only compared, in each of the parts.
Symmetry ==
    Permutations(Users)
=============================================================================
