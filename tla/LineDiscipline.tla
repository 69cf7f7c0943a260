--------------------------- MODULE LineDiscipline ----------------------------
(***************************************************************************)
(* What the console promises to those who type and to those who read       *)
(* (kernel/console.c:1-10, 81-86, 140-145): the line being typed can be    *)
(* edited until it is entered, and readers share out the entered input in  *)
(* order, no read going past the end of a line or an end-of-file.  A byte   *)
(* is lost only by a read that cannot copy it out.                         *)
(***************************************************************************)
EXTENDS Naturals, Sequences

CONSTANTS
    Readers,
    Plain,          \* ordinary characters
    NL, EOF,        \* newline and ^D
    INPUT_BUF_SIZE

VARIABLES
    entered,    \* what read() may take
    line,       \* the line being typed
    got         \* what each reader has of its current read

Init ==
    /\ entered = <<>>
    /\ line = <<>>
    /\ got = [p \in Readers |-> <<>>]

\* A full buffer is entered as it is; more is not taken.
Type(c) ==
    /\ Len(entered) + Len(line) < INPUT_BUF_SIZE
    /\ IF c \in {NL, EOF} \/ Len(entered) + Len(line) + 1 = INPUT_BUF_SIZE
       THEN entered' = entered \o Append(line, c) /\ line' = <<>>
       ELSE line' = Append(line, c) /\ UNCHANGED entered
    /\ UNCHANGED got

Erase ==
    /\ line # <<>>
    /\ line' = SubSeq(line, 1, Len(line) - 1)
    /\ UNCHANGED <<entered, got>>

KillLine ==
    /\ line' = <<>>
    /\ UNCHANGED <<entered, got>>

\* Nothing follows a newline in one read.
LineEnded(s) == s # <<>> /\ s[Len(s)] = NL

\* The next k characters, at most one of them an end, and that the last one.
Read(p, k) ==
    /\ ~LineEnded(got[p])
    /\ \A i \in 1 .. k - 1 : entered[i] \notin {NL, EOF}
    /\ IF entered[k] = EOF
       THEN got[p] = <<>> /\ k = 1 /\ UNCHANGED got
       ELSE got' = [got EXCEPT ![p] = @ \o SubSeq(entered, 1, k)]
    /\ entered' = SubSeq(entered, k + 1, Len(entered))
    /\ UNCHANGED line

\* The same up to the kth character, which is lost: it could not be copied out.
Lose(p, k) ==
    /\ ~LineEnded(got[p])
    /\ \A i \in 1 .. k : entered[i] # EOF /\ (i < k => entered[i] # NL)
    /\ got' = [got EXCEPT ![p] = @ \o SubSeq(entered, 1, k - 1)]
    /\ entered' = SubSeq(entered, k + 1, Len(entered))
    /\ UNCHANGED line

NewRead(p) ==
    /\ got' = [got EXCEPT ![p] = <<>>]
    /\ UNCHANGED <<entered, line>>

Next ==
    \/ \E c \in Plain \cup {NL, EOF} : Type(c)
    \/ Erase \/ KillLine
    \/ \E p \in Readers : NewRead(p) \/ \E k \in 1 .. Len(entered) : Read(p, k) \/ Lose(p, k)

Spec == Init /\ [][Next]_<<entered, line, got>>
=============================================================================
