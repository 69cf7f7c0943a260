-------------------------------- MODULE Mlfq --------------------------------
(***************************************************************************)
(* The multi-level feedback queue scheduler of the xv6 kernel (kernel/     *)
(* proc.c and kernel/trap.c compiled with SCHEDULER=MLFQ): the process     *)
(* table, the per-hart scheduler loop and the timer trap.                  *)
(*                                                                         *)
(* A step is what a hart does under one acquisition of a lock, or one      *)
(* unlocked access to shared state: the scheduler's scan visits one slot   *)
(* at a time, and so does the unlocked loop that looks for a process of    *)
(* higher priority.  swtch() keeps p->lock held, so leaving a process and  *)
(* releasing its lock is one step.                                         *)
(*                                                                         *)
(* The timer trap counts the tick and demotes the process without p->lock, *)
(* while a boost on another hart writes the same fields under it.  So      *)
(* there every load and store is a step: the two halves of                 *)
(* ticks_curr_slice++, each test of the demotion chain, its three writes,  *)
(* and the boost's three writes, between which it holds the lock.          *)
(*                                                                         *)
(* Time.  The code only compares q_arrival_time values with each other and *)
(* ticks with last_boost_time.  All are kept here relative to              *)
(* last_boost_time: `ticks' stands for ticks - last_boost_time, and the    *)
(* step that assigns last_boost_time shifts every stored time.  The clock  *)
(* saturates at MaxTicks, which only matters when every process sleeps for *)
(* longer than that.  Locals that are dead in the code are reset.          *)
(***************************************************************************)
EXTENDS Integers, FiniteSets

CONSTANTS
    NPROC,      \* slots of the process table
    NCPU,       \* harts
    BOOST,      \* ticks between two priority boosts, 48 in the code
    Slice,      \* time slice of each queue, in ticks
    MaxTicks,   \* where the model's clock saturates
    WithKill,   \* does any process call kill()?
    NoProc      \* c->proc = 0, best_p = 0

Procs == 0 .. NPROC - 1
CPUs == 0 .. NCPU - 1
Queues == 0 .. 3
InitProc == 0

ASSUME SizeAssumption ==
    /\ NPROC \in Nat \ {0}
    /\ NCPU \in Nat \ {0}
    /\ BOOST \in Nat \ {0}
    /\ MaxTicks \in Nat
    /\ MaxTicks >= BOOST
    /\ Slice \in [Queues -> Nat \ {0}]
    /\ WithKill \in BOOLEAN
    /\ NoProc \notin Procs

VARIABLES
    state,              \* p->state
    chan,               \* p->chan # 0: a channel is registered
    curr_queue,         \* p->curr_queue
    ticks_curr_slice,   \* p->ticks_curr_slice
    q_arrival_time,     \* p->q_arrival_time, relative to last_boost_time
    forking,            \* the child a process is creating in kfork(), or NoProc
    ticks,              \* ticks - last_boost_time
    proc,               \* c->proc of each hart
    pc,                 \* where each hart is
    idx,                \* its loop index over the table, 0 outside a loop
    best,               \* its best_p, best_queue and best_arrival
    count,              \* the slice its timer trap has loaded to increment, else 0
    level               \* the queue its demotion chain is at, else 0

procVars == <<state, chan, curr_queue, ticks_curr_slice, q_arrival_time, forking>>
cpuVars == <<proc, pc, idx, best, count, level>>
vars == <<procVars, ticks, cpuVars>>

States == {"UNUSED", "USED", "SLEEPING", "RUNNABLE", "RUNNING", "ZOMBIE"}
Labels == {"idle", "window", "scan", "pick", "run", "clock", "count", "boost",
           "sweep", "reset", "stamp", "queue", "slice", "demote", "clear", "mark",
           "preempt", "yield"}
NoBest == [proc |-> NoProc, queue |-> 4, arrival |-> 0]
Candidates == [proc : Procs \cup {NoProc}, queue : 0 .. 4, arrival : Int]

TypeOK ==
    /\ state \in [Procs -> States]
    /\ chan \in [Procs -> BOOLEAN]
    /\ curr_queue \in [Procs -> Queues]
    /\ ticks_curr_slice \in [Procs -> Nat]
    /\ q_arrival_time \in [Procs -> Int]
    /\ forking \in [Procs -> Procs \cup {NoProc}]
    /\ ticks \in 0 .. MaxTicks
    /\ proc \in [CPUs -> Procs \cup {NoProc}]
    /\ pc \in [CPUs -> Labels]
    /\ idx \in [CPUs -> 0 .. NPROC]
    /\ best \in [CPUs -> Candidates]
    /\ count \in [CPUs -> Nat]
    /\ level \in [CPUs -> Queues]

\* userinit() has made the first process; every hart enters scheduler().
Init ==
    /\ state = [p \in Procs |-> IF p = InitProc THEN "RUNNABLE" ELSE "UNUSED"]
    /\ chan = [p \in Procs |-> FALSE]
    /\ curr_queue = [p \in Procs |-> 0]
    /\ ticks_curr_slice = [p \in Procs |-> 0]
    /\ q_arrival_time = [p \in Procs |-> 0]
    /\ forking = [p \in Procs |-> NoProc]
    /\ ticks = 0
    /\ proc = [c \in CPUs |-> NoProc]
    /\ pc = [c \in CPUs |-> "idle"]
    /\ idx = [c \in CPUs |-> 0]
    /\ best = [c \in CPUs |-> NoBest]
    /\ count = [c \in CPUs |-> 0]
    /\ level = [c \in CPUs |-> 0]

\* No boost is between its writes to slot p, whose lock it holds; every other
\* holder of p->lock does all it does under it in one step.
Unlocked(p) == \A c \in CPUs : pc[c] \in {"reset", "stamp"} => idx[c] # p

Goto(c, from, to) == pc[c] = from /\ pc' = [pc EXCEPT ![c] = to]

\* The process on hart c executes with interrupts enabled.
Executing(c) == pc[c] = "run"

\* ... and is not inside kfork(), which neither sleeps nor calls anything else.
FreeToCall(c) == Executing(c) /\ forking[proc[c]] = NoProc

\* Hart c is where a device or clock interrupt handler can run wakeup().
CanWake(c) == pc[c] \in {"run", "clock", "idle", "window"}

-----------------------------------------------------------------------------
(* The clock *)

Tick == IF ticks < MaxTicks THEN ticks + 1 ELSE ticks

\* clockintr() on hart c: only hart 0 counts.
ClockIntr(c) == ticks' = IF c = 0 THEN Tick ELSE ticks

\* A timer interrupt in the window between intr_on() and intr_off(): there is
\* no process to account, and the next one is a whole period away.
IdleTick(c) ==
    /\ Goto(c, "idle", "window")
    /\ ClockIntr(c)
    /\ UNCHANGED <<procVars, proc, idx, best, count, level>>

\* A timer interrupt while a process runs, in user or in kernel mode.
TimerTrap(c) ==
    /\ Goto(c, "run", "clock")
    /\ ClockIntr(c)
    /\ UNCHANGED <<procVars, proc, idx, best, count, level>>

-----------------------------------------------------------------------------
(* scheduler() *)

StartScan(c) ==
    /\ pc[c] \in {"idle", "window"}
    /\ pc' = [pc EXCEPT ![c] = "scan"]
    /\ UNCHANGED <<procVars, ticks, proc, idx, best, count, level>>

\* Slot p beats the candidate b: lower queue number, then earlier arrival.
\* Both comparisons are strict, so the lowest slot wins a tie.
Beats(p, b) ==
    \/ curr_queue[p] < b.queue
    \/ curr_queue[p] = b.queue /\ q_arrival_time[p] < b.arrival

Candidate(p) == [proc |-> p, queue |-> curr_queue[p], arrival |-> q_arrival_time[p]]

\* Mutant of ScanSlot: arrival times are not compared.
ScanSlotAnyArrival(c) ==
    /\ pc[c] = "scan"
    /\ idx[c] < NPROC
    /\ Unlocked(idx[c])
    /\ best' = IF state[idx[c]] = "RUNNABLE" /\ curr_queue[idx[c]] < best[c].queue
               THEN [best EXCEPT ![c] = Candidate(idx[c])]
               ELSE best
    /\ idx' = [idx EXCEPT ![c] = @ + 1]
    /\ UNCHANGED <<procVars, ticks, proc, pc, count, level>>

ScanSlot(c) ==
    /\ pc[c] = "scan"
    /\ idx[c] < NPROC
    /\ Unlocked(idx[c])
    /\ best' = IF state[idx[c]] = "RUNNABLE" /\ Beats(idx[c], best[c])
               THEN [best EXCEPT ![c] = Candidate(idx[c])]
               ELSE best
    /\ idx' = [idx EXCEPT ![c] = @ + 1]
    /\ UNCHANGED <<procVars, ticks, proc, pc, count, level>>

EndScan(c) ==
    /\ idx[c] = NPROC
    /\ Goto(c, "scan", IF best[c].proc = NoProc THEN "idle" ELSE "pick")
    /\ idx' = [idx EXCEPT ![c] = 0]
    /\ UNCHANGED <<procVars, ticks, proc, best, count, level>>

\* Mutant of StillBest: the state is not looked at again under the lock.
StillBestAnyState(b) == Candidate(b.proc) = b

\* The candidate is still what the scan saw, now that its lock is held.
StillBest(b) == state[b.proc] = "RUNNABLE" /\ Candidate(b.proc) = b

Dispatch(c) ==
    /\ Goto(c, "pick", "run")
    /\ Unlocked(best[c].proc)
    /\ StillBest(best[c])
    /\ state' = [state EXCEPT ![best[c].proc] = "RUNNING"]
    /\ proc' = [proc EXCEPT ![c] = best[c].proc]
    /\ best' = [best EXCEPT ![c] = NoBest]
    /\ UNCHANGED <<chan, curr_queue, ticks_curr_slice, q_arrival_time, forking,
                   ticks, idx, count, level>>

Retry(c) ==
    /\ Goto(c, "pick", "idle")
    /\ Unlocked(best[c].proc)
    /\ ~StillBest(best[c])
    /\ best' = [best EXCEPT ![c] = NoBest]
    /\ UNCHANGED <<procVars, ticks, proc, idx, count, level>>

\* The process of hart c enters state s and sched() returns to the scheduler.
Leave(c, from, s) ==
    /\ Goto(c, from, "idle")
    /\ Unlocked(proc[c])
    /\ state' = [state EXCEPT ![proc[c]] = s]
    /\ proc' = [proc EXCEPT ![c] = NoProc]

-----------------------------------------------------------------------------
(* The timer trap: usertrap() and kerneltrap() after devintr() returned 2 *)

\* Each hart may be stuck in one boost loop while another period passes, so
\* only a candidate a stuck scan still holds can be older than this.
Oldest == -(NCPU * MaxTicks) - 1
Shift(t) == IF t - ticks < Oldest THEN Oldest ELSE t - ticks

\* The load of ticks_curr_slice++ ...
CountTick(c) ==
    /\ Goto(c, "clock", "count")
    /\ count' = [count EXCEPT ![c] = ticks_curr_slice[proc[c]]]
    /\ UNCHANGED <<procVars, ticks, proc, idx, best, level>>

\* ... and its store, which overwrites what a boost has stored since.
StoreTick(c) ==
    /\ Goto(c, "count", "boost")
    /\ ticks_curr_slice' = [ticks_curr_slice EXCEPT ![proc[c]] = count[c] + 1]
    /\ count' = [count EXCEPT ![c] = 0]
    /\ UNCHANGED <<state, chan, curr_queue, q_arrival_time, forking, ticks, proc, idx,
                   best, level>>

\* Mutant of BoostDue: no boost ever.
BoostDueNever(c) ==
    /\ Goto(c, "boost", "queue")
    /\ UNCHANGED <<procVars, ticks, proc, idx, best, count, level>>

\* The decision under boostlock whether to boost.
BoostDue(c) ==
    /\ Goto(c, "boost", IF ticks >= BOOST THEN "sweep" ELSE "queue")
    /\ IF ticks >= BOOST
       THEN /\ ticks' = 0
            /\ q_arrival_time' = [p \in Procs |->
                   IF state[p] = "UNUSED" THEN 0 ELSE Shift(q_arrival_time[p])]
            /\ best' = [d \in CPUs |-> IF best[d] = NoBest THEN NoBest
                                     ELSE [best[d] EXCEPT !.arrival = Shift(@)]]
       ELSE UNCHANGED <<ticks, q_arrival_time, best>>
    /\ UNCHANGED <<state, chan, curr_queue, ticks_curr_slice, forking, proc, idx,
                   count, level>>

\* Mutant of SweepSlot: the boost passes over sleeping processes.
SweepSlotAwake(c) ==
    /\ pc[c] = "sweep"
    /\ idx[c] < NPROC
    /\ Unlocked(idx[c])
    /\ IF state[idx[c]] \notin {"UNUSED", "SLEEPING"}
       THEN /\ pc' = [pc EXCEPT ![c] = "reset"]
            /\ curr_queue' = [curr_queue EXCEPT ![idx[c]] = 0]
            /\ UNCHANGED idx
       ELSE /\ idx' = [idx EXCEPT ![c] = @ + 1]
            /\ UNCHANGED <<pc, curr_queue>>
    /\ UNCHANGED <<state, chan, ticks_curr_slice, q_arrival_time, forking, ticks, proc,
                   best, count, level>>

\* The boost loop locks a slot, and writes curr_queue if it is in use ...
SweepSlot(c) ==
    /\ pc[c] = "sweep"
    /\ idx[c] < NPROC
    /\ Unlocked(idx[c])
    /\ IF state[idx[c]] # "UNUSED"
       THEN /\ pc' = [pc EXCEPT ![c] = "reset"]
            /\ curr_queue' = [curr_queue EXCEPT ![idx[c]] = 0]
            /\ UNCHANGED idx
       ELSE /\ idx' = [idx EXCEPT ![c] = @ + 1]
            /\ UNCHANGED <<pc, curr_queue>>
    /\ UNCHANGED <<state, chan, ticks_curr_slice, q_arrival_time, forking, ticks, proc,
                   best, count, level>>

\* ... then ticks_curr_slice ...
ResetSlot(c) ==
    /\ Goto(c, "reset", "stamp")
    /\ ticks_curr_slice' = [ticks_curr_slice EXCEPT ![idx[c]] = 0]
    /\ UNCHANGED <<state, chan, curr_queue, q_arrival_time, forking, ticks, proc, idx,
                   best, count, level>>

\* ... then q_arrival_time, and unlocks it.
StampSlot(c) ==
    /\ Goto(c, "stamp", "sweep")
    /\ q_arrival_time' = [q_arrival_time EXCEPT ![idx[c]] = ticks]
    /\ idx' = [idx EXCEPT ![c] = @ + 1]
    /\ UNCHANGED <<state, chan, curr_queue, ticks_curr_slice, forking, ticks, proc,
                   best, count, level>>

EndSweep(c) ==
    /\ idx[c] = NPROC
    /\ Goto(c, "sweep", "yield")
    /\ idx' = [idx EXCEPT ![c] = 0]
    /\ UNCHANGED <<procVars, ticks, proc, best, count, level>>

\* The chain falls through its branch for queue level[c]: to the next one, or
\* past the last one to the loop that looks for a process of higher priority.
FallThrough(c) ==
    /\ pc' = [pc EXCEPT ![c] = IF level[c] = 3 THEN "preempt" ELSE "queue"]
    /\ level' = [level EXCEPT ![c] = IF @ = 3 THEN 0 ELSE @ + 1]

\* The branch for queue level[c] reads p->curr_queue ...
TestQueue(c) ==
    /\ pc[c] = "queue"
    /\ IF curr_queue[proc[c]] = level[c]
       THEN pc' = [pc EXCEPT ![c] = "slice"] /\ UNCHANGED level
       ELSE FallThrough(c)
    /\ UNCHANGED <<procVars, ticks, proc, idx, best, count>>

\* Mutant of TestSlice: a process keeps the hart one tick too long.
TestSliceLonger(c) ==
    /\ pc[c] = "slice"
    /\ IF ticks_curr_slice[proc[c]] > Slice[level[c]]
       THEN /\ pc' = [pc EXCEPT ![c] = IF level[c] = 3 THEN "clear" ELSE "demote"]
            /\ UNCHANGED level
       ELSE FallThrough(c)
    /\ UNCHANGED <<procVars, ticks, proc, idx, best, count>>

\* Mutant of TestSlice: the lowest queue is demoted too.
TestSliceLowest(c) ==
    /\ pc[c] = "slice"
    /\ IF ticks_curr_slice[proc[c]] >= Slice[level[c]]
       THEN pc' = [pc EXCEPT ![c] = "demote"] /\ UNCHANGED level
       ELSE FallThrough(c)
    /\ UNCHANGED <<procVars, ticks, proc, idx, best, count>>

\* ... and, if that is the queue, p->ticks_curr_slice.
TestSlice(c) ==
    /\ pc[c] = "slice"
    /\ IF ticks_curr_slice[proc[c]] >= Slice[level[c]]
       THEN /\ pc' = [pc EXCEPT ![c] = IF level[c] = 3 THEN "clear" ELSE "demote"]
            /\ UNCHANGED level
       ELSE FallThrough(c)
    /\ UNCHANGED <<procVars, ticks, proc, idx, best, count>>

\* The writes of a branch: one queue down ...
Demote(c) ==
    /\ Goto(c, "demote", "clear")
    /\ curr_queue' = [curr_queue EXCEPT ![proc[c]] = level[c] + 1]
    /\ UNCHANGED <<state, chan, ticks_curr_slice, q_arrival_time, forking, ticks, proc,
                   idx, best, count, level>>

\* ... with a fresh slice, which is all that the lowest queue's branch writes ...
ClearSlice(c) ==
    /\ Goto(c, "clear", IF level[c] = 3 THEN "yield" ELSE "mark")
    /\ ticks_curr_slice' = [ticks_curr_slice EXCEPT ![proc[c]] = 0]
    /\ level' = [level EXCEPT ![c] = 0]
    /\ UNCHANGED <<state, chan, curr_queue, q_arrival_time, forking, ticks, proc, idx,
                   best, count>>

\* ... and at its tail.
MarkArrival(c) ==
    /\ Goto(c, "mark", "yield")
    /\ q_arrival_time' = [q_arrival_time EXCEPT ![proc[c]] = ticks]
    /\ UNCHANGED <<state, chan, curr_queue, ticks_curr_slice, forking, ticks, proc, idx,
                   best, count, level>>

Outranks(p, r) == state[p] = "RUNNABLE" /\ curr_queue[p] < curr_queue[r]

\* One unlocked look at a slot; yield as soon as one outranks the process.
LookForHigher(c) ==
    /\ pc[c] = "preempt"
    /\ idx[c] < NPROC
    /\ IF Outranks(idx[c], proc[c])
       THEN pc' = [pc EXCEPT ![c] = "yield"] /\ idx' = [idx EXCEPT ![c] = 0]
       ELSE idx' = [idx EXCEPT ![c] = @ + 1] /\ UNCHANGED pc
    /\ UNCHANGED <<procVars, ticks, proc, best, count, level>>

\* Mutant of Resume: the loop stops before the last slot.
ResumeEarly(c) ==
    /\ idx[c] >= NPROC - 1
    /\ Goto(c, "preempt", "run")
    /\ idx' = [idx EXCEPT ![c] = 0]
    /\ UNCHANGED <<procVars, ticks, proc, best, count, level>>

Resume(c) ==
    /\ idx[c] = NPROC
    /\ Goto(c, "preempt", "run")
    /\ idx' = [idx EXCEPT ![c] = 0]
    /\ UNCHANGED <<procVars, ticks, proc, best, count, level>>

Yield(c) ==
    /\ Leave(c, "yield", "RUNNABLE")
    /\ q_arrival_time' = IF curr_queue[proc[c]] = 3
                         THEN [q_arrival_time EXCEPT ![proc[c]] = ticks]
                         ELSE q_arrival_time
    /\ UNCHANGED <<chan, curr_queue, ticks_curr_slice, forking, ticks, idx, best, count, level>>

-----------------------------------------------------------------------------
(* What a running process does to the table *)

SleepPrepare(c) ==
    /\ FreeToCall(c)
    /\ Unlocked(proc[c])
    /\ chan' = [chan EXCEPT ![proc[c]] = TRUE]
    /\ UNCHANGED <<state, curr_queue, ticks_curr_slice, q_arrival_time, forking,
                   ticks, cpuVars>>

\* Mutant of Sleep: a wakeup() after sleep_prepare() is not noticed.
SleepAnyway(c) ==
    /\ FreeToCall(c)
    /\ Leave(c, "run", "SLEEPING")
    /\ ticks_curr_slice' = [ticks_curr_slice EXCEPT ![proc[c]] = 0]
    /\ UNCHANGED <<chan, curr_queue, q_arrival_time, forking, ticks, idx, best, count, level>>

\* sleep(): only while the registered channel has not been woken.
Sleep(c) ==
    /\ FreeToCall(c)
    /\ chan[proc[c]]
    /\ Leave(c, "run", "SLEEPING")
    /\ ticks_curr_slice' = [ticks_curr_slice EXCEPT ![proc[c]] = 0]
    /\ UNCHANGED <<chan, curr_queue, q_arrival_time, forking, ticks, idx, best, count, level>>

\* wakeup() reaches slot p, called by hart c's process or interrupt handler.
Wakeup(c, p) ==
    /\ CanWake(c)
    /\ Unlocked(p)
    /\ chan[p]
    /\ chan' = [chan EXCEPT ![p] = FALSE]
    /\ IF state[p] = "SLEEPING"
       THEN /\ state' = [state EXCEPT ![p] = "RUNNABLE"]
            /\ q_arrival_time' = [q_arrival_time EXCEPT ![p] = ticks]
       ELSE UNCHANGED <<state, q_arrival_time>>
    /\ UNCHANGED <<curr_queue, ticks_curr_slice, forking, ticks, cpuVars>>

\* kkill() wakes a sleeper but leaves its channel and its arrival time.
Kill(c, p) ==
    /\ WithKill
    /\ FreeToCall(c)
    /\ Unlocked(p)
    /\ state[p] = "SLEEPING"
    /\ state' = [state EXCEPT ![p] = "RUNNABLE"]
    /\ UNCHANGED <<chan, curr_queue, ticks_curr_slice, q_arrival_time, forking,
                   ticks, cpuVars>>

\* allocproc() inside kfork().  On one hart it finds the first free slot; with
\* several, a slot freed behind the scan is missed.
ForkAlloc(c, p) ==
    /\ FreeToCall(c)
    /\ Unlocked(p)
    /\ state[p] = "UNUSED"
    /\ NCPU = 1 => \A r \in 0 .. p - 1 : state[r] # "UNUSED"
    /\ state' = [state EXCEPT ![p] = "USED"]
    /\ curr_queue' = [curr_queue EXCEPT ![p] = 0]
    /\ ticks_curr_slice' = [ticks_curr_slice EXCEPT ![p] = 0]
    /\ q_arrival_time' = [q_arrival_time EXCEPT ![p] = ticks]
    /\ forking' = [forking EXCEPT ![proc[c]] = p]
    /\ UNCHANGED <<chan, ticks, cpuVars>>

\* The end of kfork(): the child becomes runnable under its own lock.
ForkPublish(c) ==
    /\ Executing(c)
    /\ forking[proc[c]] # NoProc
    /\ Unlocked(forking[proc[c]])
    /\ state' = [state EXCEPT ![forking[proc[c]]] = "RUNNABLE"]
    /\ forking' = [forking EXCEPT ![proc[c]] = NoProc]
    /\ UNCHANGED <<chan, curr_queue, ticks_curr_slice, q_arrival_time, ticks, cpuVars>>

\* kexit(): init never exits.  A killed process may exit from the timer trap,
\* before its tick is accounted.
Exit(c) ==
    /\ \/ Leave(c, "run", "ZOMBIE")
       \/ WithKill /\ Leave(c, "clock", "ZOMBIE")
    /\ proc[c] # InitProc
    /\ forking[proc[c]] = NoProc
    /\ UNCHANGED <<chan, curr_queue, ticks_curr_slice, q_arrival_time, forking,
                   ticks, idx, best, count, level>>

\* kwait() frees a zombie child.  What the slot keeps of its queue is dead:
\* nothing reads it before allocproc() resets it.
Reap(c, p) ==
    /\ FreeToCall(c)
    /\ Unlocked(p)
    /\ state[p] = "ZOMBIE"
    /\ state' = [state EXCEPT ![p] = "UNUSED"]
    /\ chan' = [chan EXCEPT ![p] = FALSE]
    /\ curr_queue' = [curr_queue EXCEPT ![p] = 0]
    /\ ticks_curr_slice' = [ticks_curr_slice EXCEPT ![p] = 0]
    /\ q_arrival_time' = [q_arrival_time EXCEPT ![p] = 0]
    /\ UNCHANGED <<forking, ticks, cpuVars>>

-----------------------------------------------------------------------------
Scheduler(c) ==
    StartScan(c) \/ ScanSlot(c) \/ EndScan(c) \/ Dispatch(c) \/ Retry(c)

Trap(c) ==
    \/ CountTick(c) \/ StoreTick(c) \/ BoostDue(c)
    \/ SweepSlot(c) \/ ResetSlot(c) \/ StampSlot(c) \/ EndSweep(c)
    \/ TestQueue(c) \/ TestSlice(c) \/ Demote(c) \/ ClearSlice(c) \/ MarkArrival(c)
    \/ LookForHigher(c) \/ Resume(c) \/ Yield(c)

Process(c) ==
    \/ SleepPrepare(c) \/ Sleep(c) \/ ForkPublish(c) \/ Exit(c)
    \/ \E p \in Procs : Wakeup(c, p) \/ Kill(c, p) \/ ForkAlloc(c, p) \/ Reap(c, p)

Next == \E c \in CPUs :
    IdleTick(c) \/ TimerTrap(c) \/ Scheduler(c) \/ Trap(c) \/ Process(c)

Spec == Init /\ [][Next]_vars

\* The kernel's own code always goes on; the timer cannot forever miss the
\* stretches in which a process runs (they last up to a slice, the window of
\* the idle loop two instructions).  Nothing is assumed of the processes.
Fairness == \A c \in CPUs :
    /\ WF_vars(Scheduler(c) \/ Trap(c))
    /\ SF_vars(TimerTrap(c))

FairSpec == Spec /\ Fairness
-----------------------------------------------------------------------------
(* Properties *)

\* Hart c is executing on behalf of proc[c].
OnCpu(c) == pc[c] \notin {"idle", "window", "scan", "pick"}

\* A process runs on at most one hart, a hart that runs a process runs one
\* whose state says so, and no process is RUNNING on no hart, although
\* scheduler() drops the lock of the process it chose before it takes it
\* again (proc.c:567-573).
RunningOnOneCpu ==
    /\ \A c \in CPUs : OnCpu(c) => proc[c] \in Procs /\ state[proc[c]] = "RUNNING"
    /\ \A p \in Procs : state[p] = "RUNNING" => \E c \in CPUs : OnCpu(c) /\ proc[c] = p
    /\ \A c, d \in CPUs : OnCpu(c) /\ OnCpu(d) /\ proc[c] = proc[d] => c = d

\* A sleeping process has a registered channel, so a wakeup() can still reach
\* it: none was consumed before it slept (proc.c:737, 758).
SleeperIsReachable == \A p \in Procs : state[p] = "SLEEPING" => chan[p]

Exhausted(p) == ticks_curr_slice[p] >= Slice[curr_queue[p]]

\* The trap of hart c has yet to act on the slice of its process.
SliceUnderReview(c) ==
    \/ pc[c] \in {"boost", "demote", "clear"}
    \/ pc[c] \in {"queue", "slice"} /\ level[c] <= curr_queue[proc[c]]
    \/ pc[c] \in {"sweep", "reset"} /\ idx[c] <= proc[c]
    \/ pc[c] = "stamp" /\ idx[c] < proc[c]

\* A boost has moved p to queue 0 and is about to give it a fresh slice.
BoostUnderWay(p) == \E c \in CPUs : pc[c] = "reset" /\ idx[c] = p

\* No process waits, sleeps or goes on running with a used-up slice, whatever
\* boost on another hart comes between the halves of ticks_curr_slice++, the
\* tests of the demotion chain and its writes (trap.c:96, 111-113, 120-137).
SliceWithinQuantum == \A p \in Procs :
    Exhausted(p) => \/ \E c \in CPUs : SliceUnderReview(c) /\ proc[c] = p
                    \/ BoostUnderWay(p)

\* On one hart the dispatched process has no runnable process in a higher
\* queue, nor one in its queue that arrived earlier (proc.c:557-573).
StrictPriority == [][\A c \in CPUs :
    pc[c] = "pick" /\ pc'[c] = "run" =>
        \A p \in Procs : state[p] = "RUNNABLE" => ~Beats(p, Candidate(proc'[c]))]_vars

\* On one hart a process returns from the timer trap only if none outranks it,
\* and no boost is due (trap.c:100, 139-145).
PreemptedAtTick == [][\A c \in CPUs :
    pc[c] = "preempt" /\ pc'[c] = "run" =>
        ticks < BOOST /\ \A p \in Procs : ~Outranks(p, proc[c])]_vars

\* On one hart the boost loop leaves every process in queue 0 with a fresh
\* slice, whatever its state (trap.c:108-117).
BoostReachesAll == [][\A c \in CPUs :
    pc[c] = "sweep" /\ pc'[c] = "yield" =>
        \A p \in Procs : state[p] # "UNUSED" =>
            curr_queue[p] = 0 /\ ticks_curr_slice[p] = 0 /\ q_arrival_time[p] = ticks]_vars

\* A sleeper that becomes runnable is behind every runnable process of its
\* queue: "When it becomes runnable again, it is inserted at the tail of the
\* same queue" (problem_statement.html:301, 2.1.3; proc.c:763-766, 785-788).
EntersAtTail == [][\A p, r \in Procs :
    /\ state[p] = "SLEEPING" /\ state'[p] = "RUNNABLE"
    /\ p # r /\ state[r] = "RUNNABLE" /\ curr_queue[r] = curr_queue[p]
    => q_arrival_time'[p] >= q_arrival_time[r]]_vars

\* A runnable process eventually runs: "so nothing starves" (report.md:43).
NoStarvation == \A p \in Procs : state[p] = "RUNNABLE" ~> state[p] = "RUNNING"
=============================================================================
