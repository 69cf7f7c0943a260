--------------------------------- MODULE Sh ----------------------------------
(***************************************************************************)
(* The shell of xv6 (user/sh.c): the recursive descent from a line to a    *)
(* tree of commands, and runcmd(), which forks its way down the tree with  *)
(* pipes between the processes.                                            *)
(*                                                                         *)
(* A line is a sequence of tokens, "a" a word and "+" for >>.  A step of a *)
(* process is what it does between two calls that others notice: fork,     *)
(* wait, exit, and the closing of pipe ends.  A program reads its input to *)
(* the end if that is a pipe, and writes more to a pipe than it holds.     *)
(* fork(), pipe(), open() and exec() may fail.  NPS bounds the processes.  *)
(***************************************************************************)
EXTENDS Naturals, Sequences, FiniteSets

CONSTANTS MAXARGS, NPS

ASSUME ShAssumption == MAXARGS \in Nat \ {0} /\ NPS \in Nat \ {0, 1}

VARIABLES
    cmdline,     \* the line
    ps,          \* the processes; the shell is number 1
    npipes,      \* pipes made so far
    forkFailed   \* a fork() or pipe() failed: fork1() and runcmd() panic

shVars == <<cmdline, ps, npipes, forkFailed>>

ShTokens == {"a", "<", ">", "+", "|", "&", ";", "(", ")"}
RedirOps == {"<", ">", "+"}
-----------------------------------------------------------------------------
(* The tree.  argv and files are positions in the line; the redirections    *)
(* nested around a command are one node, in the order they were read.       *)

ExecCmd(argv) == [type |-> "EXEC", argv |-> argv]
RedirCmd(sub, files) ==
    IF files = <<>> THEN sub ELSE [type |-> "REDIR", cmd |-> sub, files |-> files]
PipeCmd(a, b) == [type |-> "PIPE", left |-> a, right |-> b]
ListCmd(a, b) == [type |-> "LIST", left |-> a, right |-> b]
BackCmd(sub) == [type |-> "BACK", cmd |-> sub]

Peek(s, i, toks) == i <= Len(s) /\ s[i] \in toks
Panics == [ok |-> FALSE, at |-> 1, cmd |-> ExecCmd(<<>>), argv |-> <<>>, files |-> <<>>]
ReadTo(i) == [Panics EXCEPT !.ok = TRUE, !.at = i]

\* Mutant of ParseRedirs: one redirection, not all that follow.
ParseRedirsOne(s, i) ==
    IF ~Peek(s, i, RedirOps) THEN ReadTo(i)
    ELSE IF Peek(s, i + 1, {"a"}) THEN [ReadTo(i + 2) EXCEPT !.files = <<i + 1>>]
    ELSE Panics

\* parseredirs() at i
ParseRedirs(s, i) ==
    LET redirs[j \in 1 .. Len(s) + 1] ==
            IF ~Peek(s, j, RedirOps) THEN ReadTo(j)
            ELSE IF Peek(s, j + 1, {"a"})
            THEN [redirs[j + 2] EXCEPT !.files = <<j + 1>> \o @]
            ELSE Panics
    IN  redirs[i]

\* parseexec() at i, of a command that is no block
ParseExec(s, i) ==
    LET words[j \in 1 .. Len(s) + 1, argc \in 0 .. MAXARGS] ==
            LET r == ParseRedirs(s, j + 1)
                w == words[r.at, argc + 1]
            IN  IF j > Len(s) \/ s[j] \in {"|", ")", "&", ";"} THEN ReadTo(j)
                ELSE IF s[j] # "a" \/ argc + 1 >= MAXARGS \/ ~r.ok THEN Panics
                ELSE [w EXCEPT !.argv = <<j>> \o @, !.files = r.files \o @]
        r == ParseRedirs(s, i)
        w == words[r.at, 0]
    IN  IF r.ok /\ w.ok
        THEN [ReadTo(w.at) EXCEPT !.cmd = RedirCmd(ExecCmd(w.argv), r.files \o w.files)]
        ELSE Panics

\* parsecmd(), with parseline(), parsepipe() and parseblock() at each position
ParseCmd(s) ==
    LET n == Len(s)
        parse[fn \in {"line", "pipe", "exec"}, i \in 1 .. n + 1] ==
            CASE fn = "line" ->
                   LET p == parse["pipe", i]
                       end == CHOOSE j \in p.at .. n + 1 :
                                 ~Peek(s, j, {"&"}) /\ \A h \in p.at .. j - 1 : s[h] = "&"
                       backs[j \in p.at .. end] ==
                           IF j = p.at THEN p.cmd ELSE BackCmd(backs[j - 1])
                       rest == parse["line", end + 1]
                   IN  IF p.ok /\ ~Peek(s, end, {";"}) THEN [ReadTo(end) EXCEPT !.cmd = backs[end]]
                       ELSE IF p.ok /\ rest.ok
                       THEN [rest EXCEPT !.cmd = ListCmd(backs[end], @)]
                       ELSE Panics
              [] fn = "pipe" ->
                   LET e == parse["exec", i]
                       rest == parse["pipe", e.at + 1]
                   IN  IF e.ok /\ ~Peek(s, e.at, {"|"}) THEN e
                       ELSE IF e.ok /\ rest.ok THEN [rest EXCEPT !.cmd = PipeCmd(e.cmd, @)]
                       ELSE Panics
              [] fn = "exec" /\ Peek(s, i, {"("}) ->
                   LET b == parse["line", i + 1]
                       r == ParseRedirs(s, b.at + 1)
                   IN  IF b.ok /\ Peek(s, b.at, {")"}) /\ r.ok
                       THEN [ReadTo(r.at) EXCEPT !.cmd = RedirCmd(b.cmd, r.files)]
                       ELSE Panics
              [] OTHER -> ParseExec(s, i)
        all == parse["line", 1]
    IN  IF all.ok /\ all.at = n + 1 THEN all ELSE Panics   \* or leftovers
-----------------------------------------------------------------------------
(* The language, as a grammar over spans from i up to j (excluded).         *)

ShWords(s, i, j) == {k \in i .. j - 1 : s[k] = "a" /\ ~(k > i /\ s[k - 1] \in RedirOps)}

InShLanguage(s) ==
    LET n == Len(s)
        redirs(i, j) ==
            /\ (j - i) % 2 = 0
            /\ \A k \in i .. j - 1 : s[k] \in IF (k - i) % 2 = 0 THEN RedirOps ELSE {"a"}
        simple(i, j) ==
            /\ \A k \in i .. j - 1 :
                  \/ s[k] = "a"
                  \/ s[k] \in RedirOps /\ k + 1 < j /\ s[k + 1] = "a"
            /\ Cardinality(ShWords(s, i, j)) < MAXARGS
        derives[nt \in {"line", "pipe", "block"}, i \in 1 .. n + 1, j \in 1 .. n + 1] ==
            /\ i <= j
            /\ CASE nt = "line" ->
                      \E k \in i .. j : \E h \in k .. j :
                         /\ \A m \in k .. h - 1 : s[m] = "&"
                         /\ h = j \/ s[h] = ";"
                         /\ derives["pipe", i, k]
                         /\ h < j => derives["line", h + 1, j]
                 [] nt = "pipe" ->
                      \E k \in i .. j :
                         /\ k = j \/ s[k] = "|"
                         /\ simple(i, k) \/ derives["block", i, k]
                         /\ k < j => derives["pipe", k + 1, j]
                 [] nt = "block" ->
                      /\ i < j /\ s[i] = "("
                      /\ \E k \in i + 1 .. j - 1 :
                            s[k] = ")" /\ derives["line", i + 1, k] /\ redirs(k + 1, j)
    IN  derives["line", 1, n + 1]

\* The words and files of a tree, by their places in the line
RECURSIVE Leaves(_)
Leaves(cmd) ==
    CASE cmd.type = "EXEC" -> cmd.argv
      [] cmd.type = "REDIR" -> Leaves(cmd.cmd) \o cmd.files
      [] cmd.type = "BACK" -> Leaves(cmd.cmd)
      [] OTHER -> Leaves(cmd.left) \o Leaves(cmd.right)

(* sh accepts exactly the lines of its grammar, and each word of the line   *)
(* is an argument or a file in one place of the tree.                       *)
ParsedRight(s) ==
    LET r == ParseCmd(s)
        leaves == Leaves(r.cmd)
        places == {leaves[k] : k \in DOMAIN leaves}
    IN  /\ r.ok <=> InShLanguage(s)
        /\ r.ok => /\ places = {k \in DOMAIN s : s[k] = "a"}
                   /\ Len(leaves) = Cardinality(places)

\* A line is parsed once, when the shell has read it.
ShParses == ps[1].st = "prompt" => ParsedRight(cmdline)
-----------------------------------------------------------------------------
(* Processes.  in and out are the pipes 0 and 1 are connected to, or 0;     *)
(* both is the pipe p[0] and p[1] are open to; bg marks what a BACK node    *)
(* began.  Orphans go to init, number 0, which waits for them.              *)

NoPs == [st |-> "unused", cmd |-> ExecCmd(<<>>), parent |-> 0, in |-> 0, out |-> 0,
         both |-> 0, bg |-> FALSE]

ShInit ==
    /\ ps = [q \in 1 .. NPS |-> IF q = 1 THEN [NoPs EXCEPT !.st = "prompt"] ELSE NoPs]
    /\ npipes = 0
    /\ forkFailed = FALSE

Alive(q) == ps[q].st \notin {"unused", "zombie"}
Zombies(q) == {x \in 1 .. NPS : ps[x].st = "zombie" /\ ps[x].parent = q}
HoldsRead(k) == {x \in 1 .. NPS : Alive(x) /\ k \in {ps[x].in, ps[x].both}}
HoldsWrite(k) == {x \in 1 .. NPS : Alive(x) /\ k \in {ps[x].out, ps[x].both}}

\* fork1(): a copy of q that goes on at child, and q at st.
Fork1(q, child, st) ==
    LET x == CHOOSE y \in 1 .. NPS : ps[y].st = "unused" /\ \A z \in 1 .. y - 1 : ps[z].st # "unused"
    IN  /\ \E y \in 1 .. NPS : ps[y].st = "unused"
        /\ ps' = [ps EXCEPT ![x] = [child EXCEPT !.parent = q], ![q] = st]

\* What is left when q exits: its files closed, its children init's.
Exited(q) ==
    [x \in 1 .. NPS |->
       IF x = q
       THEN IF ps[q].parent = 0 THEN NoPs
            ELSE [NoPs EXCEPT !.st = "zombie", !.parent = ps[q].parent, !.bg = ps[q].bg]
       ELSE IF ps[x].parent = q /\ ps[x].st = "zombie" THEN NoPs
       ELSE IF ps[x].parent = q THEN [ps[x] EXCEPT !.parent = 0]
       ELSE ps[x]]

\* panic() in the shell itself ends it.
Fails(q) ==
    /\ ps' = IF q = 1 THEN [ps EXCEPT ![1].st = "done"] ELSE Exited(q)
    /\ forkFailed' = TRUE
    /\ UNCHANGED npipes

\* wait(0): any child that has ended
Wait(q, st) == \E x \in Zombies(q) : ps' = [ps EXCEPT ![x] = NoPs, ![q] = st]
-----------------------------------------------------------------------------
(* main()                                                                   *)

Main ==
    \/ /\ ps[1].st = "prompt"
       /\ Fork1(1, [NoPs EXCEPT !.st = "parse"], [ps[1] EXCEPT !.st = "main"])
       /\ UNCHANGED <<npipes, forkFailed>>
    \/ /\ ps[1].st = "main"
       /\ Wait(1, [ps[1] EXCEPT !.st = "done"])
       /\ UNCHANGED <<npipes, forkFailed>>
    \/ ps[1].st = "prompt" /\ Fails(1)

Parse(q) ==
    LET r == ParseCmd(cmdline)
    IN  /\ ps[q].st = "parse"
        /\ ps' = IF r.ok THEN [ps EXCEPT ![q].st = "run", ![q].cmd = r.cmd] ELSE Exited(q)
        /\ UNCHANGED <<npipes, forkFailed>>
-----------------------------------------------------------------------------
(* runcmd()                                                                 *)

Runs(q, type) == ps[q].st = "run" /\ ps[q].cmd.type = type

\* exec() of the program, or nothing to execute, or no such program
RunExec(q) ==
    /\ Runs(q, "EXEC")
    /\ \/ ps[q].cmd.argv # <<>> /\ ps' = [ps EXCEPT ![q].st = "prog"]
       \/ ps' = Exited(q)
    /\ UNCHANGED <<npipes, forkFailed>>

\* A program with a pipe as input reads until nobody can write to it; what
\* it writes to a pipe, another program reads, or nobody can any more.
CanEnd(q) ==
    /\ ps[q].in # 0 => HoldsWrite(ps[q].in) = {}
    /\ ps[q].out # 0 =>
          \/ HoldsRead(ps[q].out) = {}
          \/ \E x \in 1 .. NPS : ps[x].st = "prog" /\ ps[x].in = ps[q].out

ProgramEnds(q) ==
    /\ ps[q].st = "prog" /\ CanEnd(q)
    /\ ps' = Exited(q)
    /\ UNCHANGED <<npipes, forkFailed>>

\* The descriptors named are closed and opened on files, unless one cannot be.
RunRedir(q) ==
    LET ops == {cmdline[f - 1] : f \in {ps[q].cmd.files[k] : k \in DOMAIN ps[q].cmd.files}}
    IN  /\ Runs(q, "REDIR")
        /\ \/ ps' = Exited(q)
           \/ ps' = [ps EXCEPT ![q].cmd = @.cmd,
                               ![q].in = IF "<" \in ops THEN 0 ELSE @,
                               ![q].out = IF ops \cap {">", "+"} # {} THEN 0 ELSE @]
        /\ UNCHANGED <<npipes, forkFailed>>

RunList(q) ==
    /\ \/ /\ Runs(q, "LIST")
          /\ Fork1(q, [ps[q] EXCEPT !.cmd = @.left], [ps[q] EXCEPT !.st = "list"])
       \/ ps[q].st = "list" /\ Wait(q, [ps[q] EXCEPT !.st = "run", !.cmd = @.right])
    /\ UNCHANGED <<npipes, forkFailed>>

RunBack(q) ==
    /\ \/ /\ Runs(q, "BACK")
          /\ Fork1(q, [ps[q] EXCEPT !.cmd = @.cmd, !.bg = TRUE], [ps[q] EXCEPT !.st = "exit"])
       \/ ps[q].st = "exit" /\ ps' = Exited(q)
    /\ UNCHANGED <<npipes, forkFailed>>

RunPipe(q) ==
    /\ Runs(q, "PIPE")
    /\ npipes' = npipes + 1
    /\ ps' = [ps EXCEPT ![q].st = "left", ![q].both = npipes + 1]
    /\ UNCHANGED forkFailed

\* Each side is forked with both ends of the pipe open, and connects one
\* before it closes them.
ForkSide(q) ==
    /\ \/ /\ ps[q].st = "left"
          /\ Fork1(q, [ps[q] EXCEPT !.st = "dupout", !.cmd = @.left], [ps[q] EXCEPT !.st = "right"])
       \/ /\ ps[q].st = "right"
          /\ Fork1(q, [ps[q] EXCEPT !.st = "dupin", !.cmd = @.right], [ps[q] EXCEPT !.st = "close"])
    /\ UNCHANGED <<npipes, forkFailed>>

Dup(q) ==
    /\ \/ /\ ps[q].st = "dupout"
          /\ ps' = [ps EXCEPT ![q].st = "run", ![q].out = ps[q].both, ![q].both = 0]
       \/ /\ ps[q].st = "dupin"
          /\ ps' = [ps EXCEPT ![q].st = "run", ![q].in = ps[q].both, ![q].both = 0]
    /\ UNCHANGED <<npipes, forkFailed>>

\* Mutant of ClosePipe: the ends are closed after the waits.
ClosePipeLate(q) == ps[q].st = "close" /\ ps' = [ps EXCEPT ![q].st = "wait1"]

\* The parent closes its ends and waits twice.
ClosePipe(q) == ps[q].st = "close" /\ ps' = [ps EXCEPT ![q].st = "wait1", ![q].both = 0]

WaitSides(q) ==
    /\ \/ ClosePipe(q)
       \/ ps[q].st = "wait1" /\ Wait(q, [ps[q] EXCEPT !.st = "wait2"])
       \/ ps[q].st = "wait2" /\ Wait(q, [ps[q] EXCEPT !.st = "exit", !.both = 0])
    /\ UNCHANGED <<npipes, forkFailed>>

ForkFails(q) ==
    /\ ps[q].st \in {"left", "right"} \/ \E type \in {"LIST", "BACK", "PIPE"} : Runs(q, type)
    /\ Fails(q)

RunCmd(q) ==
    \/ Parse(q) \/ RunExec(q) \/ ProgramEnds(q) \/ RunRedir(q) \/ RunList(q) \/ RunBack(q)
    \/ RunPipe(q) \/ ForkSide(q) \/ Dup(q) \/ WaitSides(q) \/ ForkFails(q)

ShNext == (Main \/ \E q \in 2 .. NPS : RunCmd(q)) /\ UNCHANGED cmdline

ShSpec == ShInit /\ [][ShNext]_shVars
-----------------------------------------------------------------------------
\* q is in a wait(), a read() or a write() that cannot return yet.
Waits(q) ==
    \/ ps[q].st = "prog" /\ ~CanEnd(q)
    \/ ps[q].st \in {"main", "list", "wait1", "wait2"} /\ Zombies(q) = {}

(* The shell comes back, and every process of the line ends: no end of a    *)
(* pipe is left open by somebody who waits for its reader or writer.        *)
EverythingEnds ==
    LET going == {q \in 1 .. NPS : Alive(q) /\ ps[q].st # "done"}
    IN  going # {} => \E q \in going : ~Waits(q)

(* When the shell is back at its prompt, only what was put in the           *)
(* background still runs, unless a fork() failed half way.                  *)
PromptIsLast ==
    ps[1].st = "done" /\ ~forkFailed =>
       \A q \in 2 .. NPS : ps[q].st # "unused" => ps[q].bg

\* The two, which one run checks.
CommandsEnd == EverythingEnds /\ PromptIsLast
=============================================================================
