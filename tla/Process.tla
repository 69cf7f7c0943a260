------------------------------- MODULE Process -------------------------------
(***************************************************************************)
(* The life of xv6 processes (kernel/proc.c): fork, exit, wait, kill and   *)
(* the two halves of sleep.  The module has the process table and what     *)
(* each call does to it; PipeProcs composes it with pipes.                 *)
(*                                                                         *)
(* A step is what a process does between taking wait_lock, or a p->lock    *)
(* alone, and releasing it.  Where the code holds wait_lock over a whole   *)
(* scan or over reparent(), wakeup() and the change to ZOMBIE, the step    *)
(* is all of it: only kkill(), which does not take that lock, could come   *)
(* between, and it changes nothing the step reads again.                   *)
(*                                                                         *)
(* RUNNABLE stands for RUNNING too: who runs when is the matter of Mlfq.   *)
(* pids are not reused, so a slot stands for its pid.                      *)
(***************************************************************************)
EXTENDS Integers

CONSTANT NPROC      \* slots of the process table

ASSUME TableAssumption == NPROC \in Nat \ {0}

Procs == 0 .. NPROC - 1
InitProc == 0
NoProc == -1

\* Channels: the address of a process, of pi->nread and of pi->nwrite.
NREAD == NPROC
NWRITE == NPROC + 1
NoChan == -1

VARIABLES
    state,      \* p->state
    chan,       \* p->chan
    parent,     \* p->parent
    killed,     \* p->killed
    ofile,      \* p->ofile: the ends of the pipe it has open
    child,      \* np of a kfork() in progress
    pc          \* where each process is

tableVars == <<state, chan, parent, killed>>
procVars == <<tableVars, ofile, child, pc>>

States == {"UNUSED", "USED", "SLEEPING", "RUNNABLE", "ZOMBIE"}
Ends == {"r", "w"}
Labels == {"user", "publish", "wait", "waitsleep", "exit", "closeR", "closeW", "exitR",
           "exitW", "read", "readsleep", "write", "copy", "writesleep"}

ProcTypeOK ==
    /\ state \in [Procs -> States]
    /\ chan \in [Procs -> Procs \cup {NREAD, NWRITE, NoChan}]
    /\ parent \in [Procs -> Procs \cup {NoProc}]
    /\ killed \in [Procs -> BOOLEAN]
    /\ ofile \in [Procs -> SUBSET Ends]
    /\ child \in [Procs -> Procs \cup {NoProc}]
    /\ pc \in [Procs -> Labels]

ProcInit ==
    /\ state = [p \in Procs |-> IF p = InitProc THEN "RUNNABLE" ELSE "UNUSED"]
    /\ chan = [p \in Procs |-> NoChan]
    /\ parent = [p \in Procs |-> NoProc]
    /\ killed = [p \in Procs |-> FALSE]
    /\ ofile = [p \in Procs |-> {}]
    /\ child = [p \in Procs |-> NoProc]
    /\ pc = [p \in Procs |-> "user"]

\* p runs at label `from'.
At(p, from) == state[p] = "RUNNABLE" /\ pc[p] = from
Goto(p, from, to) == At(p, from) /\ pc' = [pc EXCEPT ![p] = to]

\* A call from user space: a killed process exits instead (trap.c).
Calls(p) == At(p, "user") /\ ~killed[p]
Enter(p, to) == Calls(p) /\ pc' = [pc EXCEPT ![p] = to]

-----------------------------------------------------------------------------
(* sleep and wakeup *)

\* wakeup() on each of the channels in S.
WokenChan(S) == [p \in Procs |-> IF chan[p] \in S THEN NoChan ELSE chan[p]]
WokenState(S) == [p \in Procs |->
    IF chan[p] \in S /\ state[p] = "SLEEPING" THEN "RUNNABLE" ELSE state[p]]
Wakeup(S) == chan' = WokenChan(S) /\ state' = WokenState(S)

SleepPrepare(p, ch) == chan' = [chan EXCEPT ![p] = ch]

Prepared == [wait |-> "waitsleep", read |-> "readsleep", write |-> "writesleep"]

\* sleep() called from the loop at label l, which goes on at its top.
Sleep(p, l) ==
    /\ Goto(p, Prepared[l], l)
    /\ state' = IF chan[p] # NoChan THEN [state EXCEPT ![p] = "SLEEPING"] ELSE state
    /\ UNCHANGED <<chan, parent, killed, ofile, child>>

\* kkill().  An UNUSED slot has pid 0, so kkill(0) kills the next process that
\* is forked there.  init is never killed (kexit() panics for it); the flag of
\* a zombie, which nothing reads, is not followed.
Kill(p, q) ==
    /\ Calls(p)
    /\ q # InitProc /\ state[q] # "ZOMBIE"
    /\ killed' = [killed EXCEPT ![q] = TRUE]
    /\ state' = IF state[q] = "SLEEPING" THEN [state EXCEPT ![q] = "RUNNABLE"] ELSE state
    /\ UNCHANGED <<chan, parent, ofile, child, pc>>

-----------------------------------------------------------------------------
(* kfork() *)

\* allocproc(), which leaves killed as it is, and the copy of the open files
\* under the child's lock.  A fork that fails is left out: it frees the slot it
\* took, with which a kkill(0) of that slot is forgotten too.
ForkAlloc(p, q) ==
    /\ Enter(p, "publish")
    /\ state[q] = "UNUSED"
    /\ state' = [state EXCEPT ![q] = "USED"]
    /\ ofile' = [ofile EXCEPT ![q] = ofile[p]]
    /\ child' = [child EXCEPT ![p] = q]
    /\ UNCHANGED <<chan, parent, killed>>

\* np->parent and then np->state: nobody but kkill() looks at a child that is
\* USED, and kkill() may come before.
ForkPublish(p) ==
    /\ Goto(p, "publish", "user")
    /\ parent' = [parent EXCEPT ![child[p]] = p]
    /\ state' = [state EXCEPT ![child[p]] = "RUNNABLE"]
    /\ child' = [child EXCEPT ![p] = NoProc]
    /\ UNCHANGED <<chan, killed, ofile>>

-----------------------------------------------------------------------------
(* kexit() *)

Children(p) == {q \in Procs : parent[q] = p}

\* exit(), or the end of a killed process at its next trap from user space.
ExitCall(p) ==
    /\ p # InitProc
    /\ Goto(p, "user", "exit")
    /\ UNCHANGED <<tableVars, ofile, child>>

\* Mutant of ExitZombie: init is not woken for the children it gets.
ExitNoInitWakeup(p) ==
    /\ At(p, "exit") /\ ofile[p] = {}
    /\ chan' = [WokenChan({parent[p]}) EXCEPT ![p] = NoChan]
    /\ parent' = [q \in Procs |-> IF parent[q] = p THEN InitProc ELSE parent[q]]
    /\ state' = [WokenState({parent[p]}) EXCEPT ![p] = "ZOMBIE"]
    /\ killed' = [killed EXCEPT ![p] = FALSE]
    /\ pc' = [pc EXCEPT ![p] = "user"]
    /\ UNCHANGED <<ofile, child>>

\* Mutant of ExitZombie: the parent is not woken.
ExitSilent(p) ==
    LET woken == IF Children(p) # {} THEN {InitProc} ELSE {} IN
    /\ At(p, "exit") /\ ofile[p] = {}
    /\ chan' = [WokenChan(woken) EXCEPT ![p] = NoChan]
    /\ parent' = [q \in Procs |-> IF parent[q] = p THEN InitProc ELSE parent[q]]
    /\ state' = [WokenState(woken) EXCEPT ![p] = "ZOMBIE"]
    /\ killed' = [killed EXCEPT ![p] = FALSE]
    /\ pc' = [pc EXCEPT ![p] = "user"]
    /\ UNCHANGED <<ofile, child>>

\* Under wait_lock: children to init, wakeups, ZOMBIE.  Nothing reads killed
\* and chan of a zombie; they are cleared here instead of in freeproc().
ExitZombie(p) ==
    LET woken == {parent[p]} \cup (IF Children(p) # {} THEN {InitProc} ELSE {}) IN
    /\ At(p, "exit") /\ ofile[p] = {}
    /\ chan' = [WokenChan(woken) EXCEPT ![p] = NoChan]
    /\ parent' = [q \in Procs |-> IF parent[q] = p THEN InitProc ELSE parent[q]]
    /\ state' = [WokenState(woken) EXCEPT ![p] = "ZOMBIE"]
    /\ killed' = [killed EXCEPT ![p] = FALSE]
    /\ pc' = [pc EXCEPT ![p] = "user"]
    /\ UNCHANGED <<ofile, child>>

-----------------------------------------------------------------------------
(* kwait() and kwaitx() *)

WaitCall(p) == Enter(p, "wait") /\ UNCHANGED <<tableVars, ofile, child>>

Zombies(p) == {q \in Children(p) : state[q] = "ZOMBIE"}

\* freeproc() of the first zombie child in the table.
WaitReap(p, q) ==
    /\ Goto(p, "wait", "user")
    /\ q \in Zombies(p) /\ \A r \in Zombies(p) : q <= r
    /\ parent' = [parent EXCEPT ![q] = NoProc]
    /\ state' = [state EXCEPT ![q] = "UNUSED"]
    /\ UNCHANGED <<chan, killed, ofile, child>>

\* It returns -1: copyout() fails for the zombie found, or there is none and
\* no child to wait for, or the caller was killed.
WaitFails(p) ==
    /\ Goto(p, "wait", "user")
    /\ Zombies(p) = {} => Children(p) = {} \/ killed[p]
    /\ UNCHANGED <<tableVars, ofile, child>>

WaitPrepare(p) ==
    /\ Goto(p, "wait", "waitsleep")
    /\ Zombies(p) = {} /\ Children(p) # {} /\ ~killed[p]
    /\ SleepPrepare(p, p)
    /\ UNCHANGED <<state, parent, killed, ofile, child>>
=============================================================================
