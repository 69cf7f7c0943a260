------------------------------ MODULE PipeProcs ------------------------------
(***************************************************************************)
(* Processes of the xv6 kernel that share a pipe: fork hands its ends on,  *)
(* exit closes them, read and write block on it, and kill interrupts.      *)
(*                                                                         *)
(* piperead() and pipeclose() are one step each, what they do under one    *)
(* acquisition of pi->lock.  pipewrite() looks at p->killed before every   *)
(* byte, so it takes one step per byte and has the lock between them, at   *)
(* label "copy".  A process has at most one descriptor for each end, and   *)
(* at most one pipe exists at a time.                                      *)
(***************************************************************************)
EXTENDS Process, Pipe, FiniteSets

CONSTANTS
    Syscalls,   \* of wait and pipe, those that programs make
    MaxWrite    \* bound on the bytes of a write()

ASSUME CallsAssumption == Syscalls \subseteq {"wait", "pipe"} /\ MaxWrite \in Nat

VARIABLES
    todo,       \* n - i of pipewrite(): the bytes still to write
    cut         \* history: a writer was killed after bytes it announced to no reader

vars == <<procVars, pipeVars, todo, cut>>

TypeOK ==
    /\ ProcTypeOK /\ PipeTypeOK
    /\ todo \in [Procs -> 0 .. MaxWrite]
    /\ cut \in BOOLEAN

Init ==
    /\ ProcInit /\ PipeInit
    /\ todo = [p \in Procs |-> 0]
    /\ cut = FALSE

\* Nobody holds pi->lock.
PipeFree == \A p \in Procs : pc[p] # "copy"

\* wakeup() on the channels in S; readers then see all there is.
WakeOn(S) == Wakeup(S) /\ cut' = (cut /\ NREAD \notin S)

-----------------------------------------------------------------------------
(* Process steps *)

\* Mutant of Fork: the child's descriptors are copied without filedup().
ForkNoDup(p, q) == ForkAlloc(p, q) /\ UNCHANGED <<pipeVars, todo, cut>>

Fork(p, q) == ForkAlloc(p, q) /\ FileDup(ofile[p]) /\ UNCHANGED <<todo, cut>>

Publish(p) == ForkPublish(p) /\ UNCHANGED <<pipeVars, todo, cut>>
Exit(p) == ExitCall(p) /\ UNCHANGED <<pipeVars, todo, cut>>
Zombie(p) == ExitZombie(p) /\ UNCHANGED <<pipeVars, todo, cut>>
Wait(p) == "wait" \in Syscalls /\ WaitCall(p) /\ UNCHANGED <<pipeVars, todo, cut>>
Reap(p, q) == WaitReap(p, q) /\ UNCHANGED <<pipeVars, todo, cut>>
WaitReturn(p) == WaitFails(p) /\ UNCHANGED <<pipeVars, todo, cut>>
WaitSleep(p) == WaitPrepare(p) /\ UNCHANGED <<pipeVars, todo, cut>>
Block(p, l) == Sleep(p, l) /\ UNCHANGED <<pipeVars, todo, cut>>
Signal(p, q) == Kill(p, q) /\ UNCHANGED <<pipeVars, todo, cut>>

-----------------------------------------------------------------------------
(* Opening and closing *)

\* sys_pipe(); a failure closes what it opened before anybody could see it.
MakePipe(p) ==
    /\ "pipe" \in Syscalls
    /\ Calls(p) /\ p # InitProc
    /\ ref = [e \in Ends |-> 0]
    /\ PipeAlloc
    /\ ofile' = [ofile EXCEPT ![p] = Ends]
    /\ UNCHANGED <<tableVars, child, pc, todo, cut>>

\* The label of pipeclose(), for close() and inside kexit().
ClosingLabel(from, e) ==
    IF from = "user" THEN (IF e = "r" THEN "closeR" ELSE "closeW")
    ELSE (IF e = "r" THEN "exitR" ELSE "exitW")

\* fileclose() of end e: by close(), or by kexit() in the order of descriptors.
CloseFile(p, e) ==
    /\ e \in ofile[p]
    /\ \/ Calls(p)
       \/ At(p, "exit") /\ (e = "w" => "r" \notin ofile[p])
    /\ ofile' = [ofile EXCEPT ![p] = @ \ {e}]
    /\ FileDrop(e)
    /\ pc' = IF ref[e] = 1 THEN [pc EXCEPT ![p] = ClosingLabel(pc[p], e)] ELSE pc
    /\ UNCHANGED <<tableVars, child, todo, cut>>

ClosePipe(p, e) ==
    /\ PipeFree
    /\ \/ Goto(p, ClosingLabel("user", e), "user")
       \/ Goto(p, ClosingLabel("exit", e), "exit")
    /\ PipeClose(e)
    /\ WakeOn({IF e = "w" THEN NREAD ELSE NWRITE})
    /\ UNCHANGED <<parent, killed, ofile, child, todo>>

-----------------------------------------------------------------------------
(* pipewrite() *)

WriteCall(p, n) ==
    /\ Enter(p, "write")
    /\ "w" \in ofile[p]
    /\ todo' = [todo EXCEPT ![p] = n]
    /\ UNCHANGED <<tableVars, ofile, child, pipeVars, cut>>

\* p is at the top of the loop and has the lock, or can take it.
Writing(p) == At(p, "copy") \/ (At(p, "write") /\ PipeFree)

\* The pipe has no reader, or p was killed: bytes already copied are left
\* there without a wakeup.
WriteStops(p) ==
    /\ Writing(p)
    /\ todo[p] > 0
    /\ ~readopen \/ killed[p]
    /\ pc' = [pc EXCEPT ![p] = "user"]
    /\ todo' = [todo EXCEPT ![p] = 0]
    /\ cut' = (cut \/ pc[p] = "copy")
    /\ UNCHANGED <<tableVars, ofile, child, pipeVars>>

\* Mutant of WriteFull: readers are not told before the writer sleeps.
WriteFullSilent(p) ==
    /\ Writing(p)
    /\ todo[p] > 0 /\ readopen /\ ~killed[p]
    /\ Full
    /\ SleepPrepare(p, NWRITE)
    /\ pc' = [pc EXCEPT ![p] = "writesleep"]
    /\ UNCHANGED <<state, cut, parent, killed, ofile, child, pipeVars, todo>>

WriteFull(p) ==
    /\ Writing(p)
    /\ todo[p] > 0 /\ readopen /\ ~killed[p]
    /\ Full
    /\ state' = WokenState({NREAD})
    /\ chan' = [WokenChan({NREAD}) EXCEPT ![p] = NWRITE]
    /\ cut' = FALSE
    /\ pc' = [pc EXCEPT ![p] = "writesleep"]
    /\ UNCHANGED <<parent, killed, ofile, child, pipeVars, todo>>

WriteByte(p, b) ==
    /\ Writing(p)
    /\ todo[p] > 0 /\ readopen /\ ~killed[p]
    /\ ~Full
    /\ Put(b)
    /\ todo' = [todo EXCEPT ![p] = @ - 1]
    /\ pc' = [pc EXCEPT ![p] = "copy"]
    /\ UNCHANGED <<tableVars, ofile, child, cut>>

\* All is written, or copyin() failed.
WriteReturn(p) ==
    /\ Writing(p)
    /\ todo[p] > 0 => readopen /\ ~killed[p] /\ ~Full
    /\ WakeOn({NREAD})
    /\ pc' = [pc EXCEPT ![p] = "user"]
    /\ todo' = [todo EXCEPT ![p] = 0]
    /\ UNCHANGED <<parent, killed, ofile, child, pipeVars>>

-----------------------------------------------------------------------------
(* piperead() *)

ReadCall(p) ==
    /\ Enter(p, "read")
    /\ "r" \in ofile[p]
    /\ UNCHANGED <<tableVars, ofile, child, pipeVars, todo, cut>>

ReadKilled(p) ==
    /\ PipeFree
    /\ Empty /\ writeopen /\ killed[p]
    /\ Goto(p, "read", "user")
    /\ UNCHANGED <<tableVars, ofile, child, pipeVars, todo, cut>>

ReadSleep(p) ==
    /\ PipeFree
    /\ Empty /\ writeopen /\ ~killed[p]
    /\ Goto(p, "read", "readsleep")
    /\ SleepPrepare(p, NREAD)
    /\ UNCHANGED <<state, parent, killed, ofile, child, pipeVars, todo, cut>>

\* n bytes are copied out: what was asked for, all there is, or what comes
\* before the byte at which copyout() fails.  None at end of file.
ReadReturn(p, n) ==
    /\ PipeFree
    /\ Empty => ~writeopen
    /\ n <= Count
    /\ Goto(p, "read", "user")
    /\ Take(n)
    /\ WakeOn({NWRITE})
    /\ UNCHANGED <<parent, killed, ofile, child, todo>>

-----------------------------------------------------------------------------
\* kfork(), kexit(), kwait(), kkill() and the second half of sleep().
Process(p) ==
    \/ Publish(p) \/ Exit(p) \/ Zombie(p)
    \/ Wait(p) \/ WaitReturn(p) \/ WaitSleep(p)
    \/ \E q \in Procs : Fork(p, q) \/ Signal(p, q) \/ Reap(p, q)
    \/ \E l \in {"wait", "read", "write"} : Block(p, l)

Files(p) == MakePipe(p) \/ \E e \in Ends : CloseFile(p, e) \/ ClosePipe(p, e)

Write(p) ==
    \/ WriteStops(p) \/ WriteFull(p) \/ WriteReturn(p)
    \/ \E n \in 1 .. MaxWrite : WriteCall(p, n)
    \/ \E b \in Bytes : WriteByte(p, b)

Read(p) ==
    \/ ReadCall(p) \/ ReadKilled(p) \/ ReadSleep(p)
    \/ \E n \in 0 .. PIPESIZE : ReadReturn(p, n)

Step(p) == Process(p) \/ Files(p) \/ Write(p) \/ Read(p)

Next == \E p \in Procs : Step(p)

Spec == Init /\ [][Next]_vars

\* A process inside the kernel, or killed, goes on when it can.  Nothing is
\* assumed of programs: they may spin, or hold an end open, for ever.
Fairness == \A p \in Procs : WF_vars((pc[p] # "user" \/ killed[p]) /\ Step(p))

FairSpec == Spec /\ Fairness

-----------------------------------------------------------------------------
(* Properties *)

\* p has registered a channel and sleeps on it, or is about to.
Waits(p, l) ==
    \/ pc[p] = l /\ state[p] = "SLEEPING"
    \/ pc[p] = Prepared[l] /\ chan[p] # NoChan

\* Every process but init and a child still being forked has a parent that
\* has not exited.
ParentAlive == \A p \in Procs \ {InitProc} :
    state[p] \notin {"UNUSED", "USED"} =>
        parent[p] \in Procs /\ state[parent[p]] \in {"RUNNABLE", "SLEEPING"}

\* Somebody will reap every process (proc.c:338-347, 379): whoever waits for a
\* child has one to wait for and none it could reap, as every exit that
\* changes this woke it, reparented children included (proc.c:381-392,
\* 441-446), and no child is left to a parent that has exited.
WaitIsWoken ==
    /\ ParentAlive
    /\ \A p \in Procs : Waits(p, "wait") => Children(p) # {} /\ Zombies(p) = {}

\* While pi->lock is free a reader waits only for bytes and a writer only for
\* room, and the other end is open, unless a writer was killed before it
\* could tell the readers (pipe.c:59-143).
PipeIsWoken == PipeFree => \A p \in Procs :
    /\ Waits(p, "read") /\ ~cut => Empty /\ writeopen
    /\ Waits(p, "write") => Full /\ readopen

\* The pipe's flags and the reference counts follow the descriptors through
\* fork, close and exit, so that nobody uses a pipe that was freed
\* (file.c:48-79, pipe.c:69-73).
EndsAreCounted == \A e \in Ends :
    LET holders == {p \in Procs : e \in ofile[p]}
        closers == {p \in Procs : pc[p] \in {ClosingLabel("user", e), ClosingLabel("exit", e)}}
        open == IF e = "r" THEN readopen ELSE writeopen
    IN  /\ ref[e] = Cardinality(holders)
        /\ open <=> holders # {} \/ closers # {}
        /\ Cardinality(closers) <= 1

\* The pipe is a bounded queue of bytes.
Abstract == INSTANCE BoundedFifo WITH
    Capacity <- PIPESIZE,
    queue <- IF readopen THEN Content ELSE <<>>,
    readable <- readopen,
    writable <- writeopen
Fifo == Abstract!Spec

\* A call of wait() returns once a child is a zombie, its own or one that was
\* handed to init (proc.c:338-347, 381, 397-449).
WaitReturns == \A p \in Procs :
    (pc[p] \in {"wait", "waitsleep"} /\ Zombies(p) # {}) ~> pc[p] = "user"
=============================================================================
