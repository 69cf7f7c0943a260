----------------------------- MODULE MlfqProofs -----------------------------
(***************************************************************************)
(* The safety invariants of Mlfq, proved for every number of processes and *)
(* harts, every boost period and every assignment of time slices, and the  *)
(* policy, most of it on one hart.                                         *)
(***************************************************************************)
EXTENDS Mlfq, TLAPS

\* A hart that is about to lock its candidate has one.
CandidateExists == \A c \in CPUs : pc[c] = "pick" => best[c].proc \in Procs

\* A child under construction is USED, and has one parent.
ForkingIsPrivate ==
    /\ \A p \in Procs : forking[p] \in Procs => state[forking[p]] = "USED"
    /\ \A p, q \in Procs : forking[p] \in Procs /\ forking[p] = forking[q] => p = q

\* A loop over the table starts at slot 0, and a boost writes to a slot of it.
IndexInLoop == \A c \in CPUs :
    /\ pc[c] \notin {"scan", "sweep", "reset", "stamp", "preempt"} => idx[c] = 0
    /\ pc[c] \in {"reset", "stamp"} => idx[c] < NPROC

\* The demotion chain starts at queue 0, and has no demotion from the lowest.
LevelInChain == \A c \in CPUs :
    /\ pc[c] \notin {"queue", "slice", "demote", "clear"} => level[c] = 0
    /\ pc[c] = "demote" => level[c] < 3

IInv == TypeOK /\ RunningOnOneCpu /\ CandidateExists /\ ForkingIsPrivate
            /\ IndexInLoop /\ LevelInChain /\ SleeperIsReachable /\ SliceWithinQuantum

\* The initial states satisfy the inductive invariant.
LEMMA InitHolds == Init => IInv
  BY SizeAssumption
  DEF Init, IInv, TypeOK, RunningOnOneCpu, CandidateExists, ForkingIsPrivate,
      SleeperIsReachable, OnCpu, Procs, CPUs, Queues, InitProc, States, Labels,
      NoBest, Candidates, SliceWithinQuantum, Exhausted, IndexInLoop, LevelInChain

\* The type invariant is preserved by a step of scheduler().
LEMMA SchedulerType == ASSUME TypeOK, NEW c \in CPUs, Scheduler(c) PROVE TypeOK'
  <1> USE DEF TypeOK, Goto, procVars
  <1>1. CASE StartScan(c)
    BY <1>1 DEF StartScan, Labels
  <1>2. CASE ScanSlot(c)
    <2>1. idx[c] \in Procs /\ idx[c] + 1 \in 0 .. NPROC
      BY <1>2, SizeAssumption DEF ScanSlot, Procs
    <2>2. Candidate(idx[c]) \in Candidates
      BY <2>1 DEF Candidate, Candidates, Queues
    <2>3. best' \in [CPUs -> Candidates]
      BY <1>2, <2>2 DEF ScanSlot
    <2> QED BY <1>2, <2>1, <2>3 DEF ScanSlot
  <1>3. CASE EndScan(c)
    BY <1>3, SizeAssumption DEF EndScan, Labels
  <1>a. NoBest \in Candidates
    BY DEF NoBest, Candidates
  <1>4. CASE Dispatch(c)
    <2>1. best[c].proc \in Procs \cup {NoProc}
      BY DEF Candidates
    <2>2. state' \in [Procs -> States]
      BY <1>4 DEF Dispatch, States
    <2> QED BY <1>4, <1>a, <2>1, <2>2 DEF Dispatch, Labels
  <1>5. CASE Retry(c)
    BY <1>5, <1>a DEF Retry, Labels
  <1> QED BY <1>1, <1>2, <1>3, <1>4, <1>5 DEF Scheduler

\* ... by a clock interrupt.
LEMMA ClockType == ASSUME TypeOK, NEW c \in CPUs, IdleTick(c) \/ TimerTrap(c) PROVE TypeOK'
  <1>1. Tick \in 0 .. MaxTicks
    BY SizeAssumption DEF TypeOK, Tick
  <1> QED BY <1>1 DEF TypeOK, IdleTick, TimerTrap, ClockIntr, Goto, procVars, Labels

LEMMA OldestIsPast == Oldest \in Int /\ Oldest <= 0
  <1>1. NCPU \in Nat /\ MaxTicks \in Nat
    BY SizeAssumption
  <1>2. NCPU * MaxTicks \in Nat
    BY <1>1
  <1> QED BY <1>2 DEF Oldest

\* ... by a step of the timer trap, which accounts the process that runs.
LEMMA TrapType ==
  ASSUME TypeOK, RunningOnOneCpu, IndexInLoop, LevelInChain, NEW c \in CPUs, Trap(c)
  PROVE  TypeOK'
  <1> USE DEF TypeOK, Goto, procVars
  <1>t. ticks \in Int
    BY SizeAssumption
  <1>1. CASE BoostDue(c)
    <2>1. ticks' \in 0 .. MaxTicks
      BY <1>1, SizeAssumption DEF BoostDue
    <2>2. q_arrival_time' \in [Procs -> Int]
      BY <1>1, <1>t, OldestIsPast DEF BoostDue, Shift
    <2>3. best' \in [CPUs -> Candidates]
      <3>1. ASSUME NEW d \in CPUs
            PROVE  [best[d] EXCEPT !.arrival = Shift(@)] \in Candidates
        <4>1. best[d] \in Candidates /\ best[d].arrival \in Int
          BY DEF Candidates
        <4>2. Shift(best[d].arrival) \in Int
          BY <4>1, <1>t, OldestIsPast DEF Shift
        <4> QED BY <4>1, <4>2 DEF Candidates
      <3>2. NoBest \in Candidates
        BY DEF NoBest, Candidates
      <3> QED BY <1>1, <3>1, <3>2 DEF BoostDue
    <2>4. pc' \in [CPUs -> Labels]
      BY <1>1 DEF BoostDue, Labels
    <2> QED BY <1>1, <2>1, <2>2, <2>3, <2>4 DEF BoostDue
  <1>2. CASE CountTick(c)
    <2>1. ticks_curr_slice[proc[c]] \in Nat
      BY <1>2 DEF CountTick, RunningOnOneCpu, OnCpu
    <2> QED BY <1>2, <2>1 DEF CountTick, Labels
  <1>3. CASE StoreTick(c)
    <2>1. count[c] + 1 \in Nat /\ 0 \in Nat
      OBVIOUS
    <2> QED BY <1>3, <2>1 DEF StoreTick, Labels
  <1>4. CASE SweepSlot(c)
    <2>1. idx[c] + 1 \in 0 .. NPROC
      BY <1>4, SizeAssumption DEF SweepSlot
    <2> QED BY <1>4, <2>1 DEF SweepSlot, Queues, Labels
  <1>5. CASE ResetSlot(c)
    BY <1>5 DEF ResetSlot, Labels
  <1>6. CASE StampSlot(c)
    <2>1. idx[c] + 1 \in 0 .. NPROC
      BY <1>6, SizeAssumption DEF StampSlot, IndexInLoop
    <2> QED BY <1>6, <1>t, <2>1 DEF StampSlot, Labels
  <1>7. CASE EndSweep(c)
    BY <1>7, SizeAssumption DEF EndSweep, Labels
  <1>11. CASE TestQueue(c) \/ TestSlice(c)
    <2>1. level' \in [CPUs -> Queues]
      BY <1>11 DEF TestQueue, TestSlice, FallThrough, Queues
    <2>2. pc' \in [CPUs -> Labels]
      BY <1>11 DEF TestQueue, TestSlice, FallThrough, Labels
    <2> QED BY <1>11, <2>1, <2>2 DEF TestQueue, TestSlice
  <1>12. CASE Demote(c)
    <2>1. level[c] + 1 \in Queues
      BY <1>12 DEF Demote, LevelInChain, Queues
    <2> QED BY <1>12, <2>1 DEF Demote, Labels
  <1>13. CASE ClearSlice(c)
    <2>1. 0 \in Queues
      BY DEF Queues
    <2> QED BY <1>13, <2>1 DEF ClearSlice, Labels
  <1>14. CASE MarkArrival(c)
    BY <1>14, <1>t DEF MarkArrival, Labels
  <1>8. CASE LookForHigher(c)
    <2>1. idx[c] + 1 \in 0 .. NPROC /\ 0 \in 0 .. NPROC
      BY <1>8, SizeAssumption DEF LookForHigher
    <2> QED BY <1>8, <2>1 DEF LookForHigher, Labels
  <1>9. CASE Resume(c)
    BY <1>9, SizeAssumption DEF Resume, Labels
  <1>10. CASE Yield(c)
    <2>1. q_arrival_time' \in [Procs -> Int]
      BY <1>10, <1>t DEF Yield
    <2> QED BY <1>10, <2>1 DEF Yield, Leave, Labels, States
  <1> QED BY <1>1, <1>2, <1>3, <1>4, <1>5, <1>6, <1>7, <1>8, <1>9, <1>10,
             <1>11, <1>12, <1>13, <1>14 DEF Trap

\* ... by a system call.
LEMMA ProcessType == ASSUME TypeOK, NEW c \in CPUs, Process(c) PROVE TypeOK'
  <1> USE DEF TypeOK, Goto, procVars, cpuVars
  <1>t. ticks \in Int
    BY SizeAssumption
  <1>1. CASE SleepPrepare(c)
    BY <1>1 DEF SleepPrepare
  <1>2. CASE Sleep(c)
    BY <1>2 DEF Sleep, Leave, Labels, States
  <1>3. CASE ForkPublish(c)
    BY <1>3 DEF ForkPublish, States
  <1>4. CASE Exit(c)
    BY <1>4 DEF Exit, Leave, Labels, States
  <1>5. ASSUME NEW p \in Procs, Wakeup(c, p) PROVE TypeOK'
    BY <1>5 DEF Wakeup, States
  <1>6. ASSUME NEW p \in Procs, Kill(c, p) PROVE TypeOK'
    BY <1>6 DEF Kill, States
  <1>7. ASSUME NEW p \in Procs, ForkAlloc(c, p) PROVE TypeOK'
    <2>1. curr_queue' \in [Procs -> Queues] /\ ticks_curr_slice' \in [Procs -> Nat]
      BY <1>7 DEF ForkAlloc, Queues
    <2>2. q_arrival_time' \in [Procs -> Int]
      BY <1>7, <1>t DEF ForkAlloc
    <2> QED BY <1>7, <2>1, <2>2 DEF ForkAlloc, States
  <1>8. ASSUME NEW p \in Procs, Reap(c, p) PROVE TypeOK'
    BY <1>8 DEF Reap, States, Queues
  <1> QED BY <1>1, <1>2, <1>3, <1>4, <1>5, <1>6, <1>7, <1>8 DEF Process

\* A step of scheduler() puts on its hart a process that runs on no other.
LEMMA SchedulerCpu ==
  ASSUME TypeOK, RunningOnOneCpu, CandidateExists, NEW c \in CPUs, Scheduler(c) PROVE RunningOnOneCpu'
  <1> USE DEF TypeOK, Goto, procVars, RunningOnOneCpu, OnCpu
  <1>1. CASE StartScan(c)
    BY <1>1 DEF StartScan
  <1>2. CASE ScanSlot(c)
    BY <1>2 DEF ScanSlot
  <1>3. CASE EndScan(c)
    BY <1>3 DEF EndScan
  <1>4. CASE Dispatch(c)
    <2>1. best[c].proc \in Procs /\ state[best[c].proc] = "RUNNABLE"
      BY <1>4 DEF Dispatch, StillBest, CandidateExists
    <2> QED BY <1>4, <2>1 DEF Dispatch
  <1>5. CASE Retry(c)
    BY <1>5 DEF Retry
  <1> QED BY <1>1, <1>2, <1>3, <1>4, <1>5 DEF Scheduler

\* A step that moves no process on or off a hart, and changes the state of
\* no running process to another or of another to running.
LEMMA QuietCpu ==
  ASSUME TypeOK, RunningOnOneCpu, proc' = proc,
         \A d \in CPUs : OnCpu(d)' <=> OnCpu(d),
         \A p \in Procs : state'[p] = "RUNNING" <=> state[p] = "RUNNING"
  PROVE  RunningOnOneCpu'
  BY DEF TypeOK, RunningOnOneCpu

\* A clock interrupt moves no process.
LEMMA ClockCpu ==
  ASSUME TypeOK, RunningOnOneCpu, NEW c \in CPUs, IdleTick(c) \/ TimerTrap(c)
  PROVE  RunningOnOneCpu'
  BY QuietCpu DEF TypeOK, IdleTick, TimerTrap, Goto, procVars, OnCpu

\* A hart that gives up its process in a state other than RUNNING.
LEMMA LeaveCpu ==
  ASSUME TypeOK, RunningOnOneCpu, NEW c \in CPUs, NEW from, NEW s,
         Leave(c, from, s), s # "RUNNING",
         from \notin {"idle", "window", "scan", "pick"}
  PROVE  RunningOnOneCpu'
  <1>1. proc[c] \in Procs /\ OnCpu(c)
    BY DEF Leave, Goto, RunningOnOneCpu, OnCpu
  <1>2. \A d \in CPUs \ {c} : OnCpu(d) => proc[d] # proc[c]
    BY <1>1 DEF RunningOnOneCpu
  <1> QED BY <1>1, <1>2 DEF TypeOK, RunningOnOneCpu, OnCpu, Leave, Goto

\* The timer trap takes a process off its hart only to make it RUNNABLE.
LEMMA TrapCpu ==
  ASSUME TypeOK, RunningOnOneCpu, NEW c \in CPUs, Trap(c)
  PROVE  RunningOnOneCpu'
  <1>1. CASE Yield(c)
    BY <1>1, LeaveCpu DEF Yield
  <1>2. CASE ~Yield(c)
    BY <1>2, QuietCpu DEF TypeOK, Trap, Goto, OnCpu, procVars, CountTick, StoreTick, BoostDue, SweepSlot, ResetSlot, StampSlot,
       EndSweep, TestQueue, TestSlice, FallThrough, Demote, ClearSlice, MarkArrival, LookForHigher, Resume
  <1> QED BY <1>1, <1>2

\* A system call changes the state only of a process that does not run, or of
\* the caller as it leaves its hart.
LEMMA ProcessCpu ==
  ASSUME TypeOK, RunningOnOneCpu, ForkingIsPrivate, NEW c \in CPUs, Process(c)
  PROVE  RunningOnOneCpu'
  <1> USE DEF cpuVars
  <1>1. CASE SleepPrepare(c)
    BY <1>1, QuietCpu DEF SleepPrepare, OnCpu
  <1>2. CASE Sleep(c)
    BY <1>2, LeaveCpu DEF Sleep
  <1>3. CASE ForkPublish(c)
    <2>1. proc[c] \in Procs
      BY <1>3 DEF ForkPublish, Executing, RunningOnOneCpu, OnCpu
    <2>2. forking[proc[c]] \in Procs /\ state[forking[proc[c]]] = "USED"
      BY <1>3, <2>1 DEF ForkPublish, TypeOK, ForkingIsPrivate
    <2> QED BY <1>3, <2>2, QuietCpu DEF ForkPublish, OnCpu, TypeOK
  <1>4. CASE Exit(c)
    BY <1>4, LeaveCpu DEF Exit
  <1>5. ASSUME NEW p \in Procs, Wakeup(c, p) PROVE RunningOnOneCpu'
    BY <1>5, QuietCpu DEF Wakeup, OnCpu, TypeOK
  <1>6. ASSUME NEW p \in Procs, Kill(c, p) PROVE RunningOnOneCpu'
    BY <1>6, QuietCpu DEF Kill, OnCpu, TypeOK
  <1>7. ASSUME NEW p \in Procs, ForkAlloc(c, p) PROVE RunningOnOneCpu'
    BY <1>7, QuietCpu DEF ForkAlloc, OnCpu, TypeOK
  <1>8. ASSUME NEW p \in Procs, Reap(c, p) PROVE RunningOnOneCpu'
    BY <1>8, QuietCpu DEF Reap, OnCpu, TypeOK
  <1> QED BY <1>1, <1>2, <1>3, <1>4, <1>5, <1>6, <1>7, <1>8 DEF Process

\* A step that neither creates nor publishes a child.
LEMMA QuietFork ==
  ASSUME TypeOK, ForkingIsPrivate, forking' = forking,
         \A p \in Procs : state[p] = "USED" => state'[p] = "USED"
  PROVE  ForkingIsPrivate'
  BY DEF TypeOK, ForkingIsPrivate

\* kfork() keeps its child to itself until it is published.
LEMMA ForkingStep ==
  ASSUME TypeOK, RunningOnOneCpu, ForkingIsPrivate, [Next]_vars
  PROVE  ForkingIsPrivate'
  <1>1. CASE UNCHANGED vars
    BY <1>1, QuietFork DEF vars, procVars
  <1>2. ASSUME NEW c \in CPUs, IdleTick(c) \/ TimerTrap(c) PROVE ForkingIsPrivate'
    BY <1>2, QuietFork DEF IdleTick, TimerTrap, procVars
  <1>3. ASSUME NEW c \in CPUs, Scheduler(c), ~Dispatch(c) PROVE ForkingIsPrivate'
    BY <1>3, QuietFork DEF Scheduler, StartScan, ScanSlot, EndScan, Retry, procVars
  <1>4. ASSUME NEW c \in CPUs, Dispatch(c) PROVE ForkingIsPrivate'
    BY <1>4, QuietFork DEF Dispatch, StillBest, TypeOK
  <1>5. ASSUME NEW c \in CPUs, NEW from, NEW s, Leave(c, from, s), forking' = forking,
               from \notin {"idle", "window", "scan", "pick"}
        PROVE  ForkingIsPrivate'
    <2>1. state[proc[c]] = "RUNNING"
      BY <1>5 DEF Leave, Goto, RunningOnOneCpu, OnCpu
    <2> QED BY <1>5, <2>1, QuietFork DEF Leave, TypeOK
  <1>6. ASSUME NEW c \in CPUs, Trap(c), ~Yield(c) PROVE ForkingIsPrivate'
    BY <1>6, QuietFork DEF Trap, CountTick, StoreTick, BoostDue, SweepSlot, ResetSlot, StampSlot,
       EndSweep, TestQueue, TestSlice, FallThrough, Demote, ClearSlice, MarkArrival, LookForHigher, Resume, procVars
  <1>7. ASSUME NEW c \in CPUs, Yield(c) PROVE ForkingIsPrivate'
    BY <1>7, <1>5 DEF Yield
  <1>8. ASSUME NEW c \in CPUs, SleepPrepare(c) PROVE ForkingIsPrivate'
    BY <1>8, QuietFork DEF SleepPrepare
  <1>9. ASSUME NEW c \in CPUs, Sleep(c) \/ Exit(c) PROVE ForkingIsPrivate'
    BY <1>9, <1>5 DEF Sleep, Exit
  <1>10. ASSUME NEW c \in CPUs, ForkPublish(c) PROVE ForkingIsPrivate'
    <2> DEFINE p == proc[c]
               q == forking[p]
    <2>1. p \in Procs /\ q \in Procs
      BY <1>10 DEF ForkPublish, Executing, TypeOK, RunningOnOneCpu, OnCpu
    <2>2. forking' = [forking EXCEPT ![p] = NoProc] /\ state' = [state EXCEPT ![q] = "RUNNABLE"]
      BY <1>10 DEF ForkPublish
    <2>3. \A r \in Procs \ {p} : forking[r] # q /\ forking'[r] = forking[r]
      BY <2>1, <2>2 DEF ForkingIsPrivate, TypeOK
    <2>4. forking'[p] \notin Procs
      BY <2>1, <2>2, SizeAssumption DEF TypeOK
    <2>5. \A r \in Procs : forking'[r] \in Procs => state'[forking'[r]] = "USED"
      BY <2>1, <2>2, <2>3, <2>4 DEF ForkingIsPrivate, TypeOK
    <2> QED BY <2>3, <2>4, <2>5 DEF ForkingIsPrivate
  <1>11. ASSUME NEW c \in CPUs, NEW p \in Procs, Wakeup(c, p) \/ Kill(c, p) \/ Reap(c, p)
         PROVE  ForkingIsPrivate'
    BY <1>11, QuietFork DEF Wakeup, Kill, Reap, TypeOK
  <1>12. ASSUME NEW c \in CPUs, NEW p \in Procs, ForkAlloc(c, p) PROVE ForkingIsPrivate'
    BY <1>12 DEF ForkAlloc, FreeToCall, Executing, ForkingIsPrivate, TypeOK, RunningOnOneCpu, OnCpu
  <1> QED BY <1>1, <1>2, <1>3, <1>4, <1>6, <1>7, <1>8, <1>9, <1>10, <1>11, <1>12
          DEF Next, Process

\* Only a scan that found something goes on to lock a candidate.
LEMMA CandidateStep ==
  ASSUME TypeOK, CandidateExists, [Next]_vars PROVE CandidateExists'
  <1> USE DEF TypeOK, CandidateExists, Goto, vars, cpuVars, Leave
  <1>1. CASE UNCHANGED vars
    BY <1>1
  <1>2. ASSUME NEW c \in CPUs, IdleTick(c) \/ TimerTrap(c) PROVE CandidateExists'
    BY <1>2 DEF IdleTick, TimerTrap
  <1>3. ASSUME NEW c \in CPUs, EndScan(c) PROVE CandidateExists'
    BY <1>3 DEF EndScan, Candidates
  <1>4. ASSUME NEW c \in CPUs, Scheduler(c), ~EndScan(c) PROVE CandidateExists'
    BY <1>4 DEF Scheduler, StartScan, ScanSlot, Dispatch, Retry
  <1>5. ASSUME NEW c \in CPUs, BoostDue(c) PROVE CandidateExists'
    <2>1. ASSUME NEW d \in CPUs, best[d].proc \in Procs PROVE best'[d].proc \in Procs
      <3>1. best[d] \in Candidates /\ NoBest \in Candidates
        BY DEF NoBest, Candidates
      <3>2. \/ best'[d] = best[d]
           \/ best'[d] = [best[d] EXCEPT !.arrival = Shift(@)]
        BY <1>5 DEF BoostDue
      <3>3. [best[d] EXCEPT !.arrival = Shift(@)].proc = best[d].proc
        BY <3>1 DEF Candidates
      <3> QED BY <2>1, <3>2, <3>3
    <2>2. ASSUME NEW d \in CPUs, pc'[d] = "pick" PROVE pc[d] = "pick"
      BY <1>5, <2>2 DEF BoostDue
    <2> QED BY <2>1, <2>2
  <1>6. ASSUME NEW c \in CPUs, Trap(c), ~BoostDue(c) PROVE CandidateExists'
    BY <1>6 DEF Trap, CountTick, StoreTick, BoostDue, SweepSlot, ResetSlot, StampSlot,
       EndSweep, TestQueue, TestSlice, FallThrough, Demote, ClearSlice, MarkArrival, LookForHigher, Resume, Yield
  <1>7. ASSUME NEW c \in CPUs, Process(c) PROVE CandidateExists'
    BY <1>7 DEF Process, SleepPrepare, Sleep, ForkPublish, Exit, Wakeup, Kill, ForkAlloc, Reap
  <1> QED BY <1>1, <1>2, <1>3, <1>4, <1>5, <1>6, <1>7 DEF Next

\* Every loop over the table leaves its index at 0.
LEMMA IndexStep ==
  ASSUME TypeOK, IndexInLoop, [Next]_vars PROVE IndexInLoop'
  <1> USE DEF TypeOK, IndexInLoop, Goto, vars, cpuVars, Leave
  <1>1. CASE UNCHANGED vars
    BY <1>1
  <1>2. ASSUME NEW c \in CPUs, IdleTick(c) \/ TimerTrap(c) PROVE IndexInLoop'
    BY <1>2 DEF IdleTick, TimerTrap
  <1>3. ASSUME NEW c \in CPUs, Scheduler(c) PROVE IndexInLoop'
    BY <1>3 DEF Scheduler, StartScan, ScanSlot, EndScan, Dispatch, Retry
  <1>4. ASSUME NEW c \in CPUs, Trap(c) PROVE IndexInLoop'
    BY <1>4 DEF Trap, CountTick, StoreTick, BoostDue, SweepSlot, ResetSlot, StampSlot,
       EndSweep, TestQueue, TestSlice, FallThrough, Demote, ClearSlice, MarkArrival, LookForHigher, Resume, Yield
  <1>5. ASSUME NEW c \in CPUs, Process(c) PROVE IndexInLoop'
    BY <1>5 DEF Process, SleepPrepare, Sleep, ForkPublish, Exit, Wakeup, Kill, ForkAlloc, Reap
  <1> QED BY <1>1, <1>2, <1>3, <1>4, <1>5 DEF Next

\* The chain leaves its queue at 0, and demotes only from above the lowest.
LEMMA LevelStep ==
  ASSUME TypeOK, LevelInChain, [Next]_vars PROVE LevelInChain'
  <1> USE DEF TypeOK, LevelInChain, Goto, vars, cpuVars, Leave
  <1>1. CASE UNCHANGED vars
    BY <1>1
  <1>2. ASSUME NEW c \in CPUs, IdleTick(c) \/ TimerTrap(c) PROVE LevelInChain'
    BY <1>2 DEF IdleTick, TimerTrap
  <1>3. ASSUME NEW c \in CPUs, Scheduler(c) PROVE LevelInChain'
    BY <1>3 DEF Scheduler, StartScan, ScanSlot, EndScan, Dispatch, Retry
  <1>4. ASSUME NEW c \in CPUs, TestQueue(c) \/ TestSlice(c) PROVE LevelInChain'
    <2>1. level[c] \in 0 .. 3
      BY DEF Queues
    <2> QED BY <1>4, <2>1 DEF TestQueue, TestSlice, FallThrough
  <1>5. ASSUME NEW c \in CPUs, Trap(c), ~TestQueue(c), ~TestSlice(c) PROVE LevelInChain'
    BY <1>5 DEF Trap, CountTick, StoreTick, BoostDue, SweepSlot, ResetSlot, StampSlot,
       EndSweep, Demote, ClearSlice, MarkArrival, LookForHigher, Resume, Yield
  <1>6. ASSUME NEW c \in CPUs, Process(c) PROVE LevelInChain'
    BY <1>6 DEF Process, SleepPrepare, Sleep, ForkPublish, Exit, Wakeup, Kill, ForkAlloc, Reap
  <1> QED BY <1>1, <1>2, <1>3, <1>4, <1>5, <1>6 DEF Next

\* sleep() and wakeup() agree on the registered channel.
LEMMA SleeperStep ==
  ASSUME TypeOK, SleeperIsReachable, [Next]_vars PROVE SleeperIsReachable'
  <1> USE DEF TypeOK, SleeperIsReachable, vars, procVars, Leave
  <1>1. CASE UNCHANGED vars
    BY <1>1
  <1>2. ASSUME NEW c \in CPUs, IdleTick(c) \/ TimerTrap(c) PROVE SleeperIsReachable'
    BY <1>2 DEF IdleTick, TimerTrap
  <1>3. ASSUME NEW c \in CPUs, Scheduler(c) PROVE SleeperIsReachable'
    BY <1>3 DEF Scheduler, StartScan, ScanSlot, EndScan, Dispatch, Retry
  <1>4. ASSUME NEW c \in CPUs, Trap(c) PROVE SleeperIsReachable'
    BY <1>4 DEF Trap, CountTick, StoreTick, BoostDue, SweepSlot, ResetSlot, StampSlot,
       EndSweep, TestQueue, TestSlice, FallThrough, Demote, ClearSlice, MarkArrival, LookForHigher, Resume, Yield
  <1>5. ASSUME NEW c \in CPUs, SleepPrepare(c) \/ Sleep(c) \/ ForkPublish(c) \/ Exit(c)
        PROVE  SleeperIsReachable'
    BY <1>5 DEF SleepPrepare, Sleep, ForkPublish, Exit
  <1>6. ASSUME NEW c \in CPUs, NEW p \in Procs,
               Wakeup(c, p) \/ Kill(c, p) \/ ForkAlloc(c, p) \/ Reap(c, p)
        PROVE  SleeperIsReachable'
    BY <1>6 DEF Wakeup, Kill, ForkAlloc, Reap
  <1> QED BY <1>1, <1>2, <1>3, <1>4, <1>5, <1>6 DEF Next, Process

\* Whoever has a used-up slice after a step is then under review, or kept his
\* slice, his queue and his reviews.
LEMMA QuietSlice ==
  ASSUME SliceWithinQuantum,
         \A p \in Procs : Exhausted(p)' =>
             \/ \E c \in CPUs : SliceUnderReview(c)' /\ proc'[c] = p
             \/ BoostUnderWay(p)'
             \/ /\ ticks_curr_slice'[p] = ticks_curr_slice[p]
                /\ curr_queue'[p] = curr_queue[p]
                /\ \A c \in CPUs : SliceUnderReview(c) /\ proc[c] = p =>
                                     SliceUnderReview(c)' /\ proc'[c] = p
                /\ BoostUnderWay(p) => BoostUnderWay(p)'
  PROVE  SliceWithinQuantum'
  BY DEF SliceWithinQuantum, Exhausted

\* The slice of a process is used up only if it is longer than nothing.
LEMMA FreshSlice == ASSUME NEW s \in Nat, NEW q \in Queues, s >= Slice[q] PROVE s # 0
  BY SizeAssumption

\* The timer trap acts on a used-up slice before the process goes on or leaves,
\* unless a boost has taken the process out of the queue it was in.
LEMMA TrapSlice ==
  ASSUME TypeOK, RunningOnOneCpu, IndexInLoop, LevelInChain, SliceWithinQuantum,
         NEW c \in CPUs, Trap(c), TypeOK'
  PROVE  SliceWithinQuantum'
  <1> USE DEF TypeOK, Goto, procVars
  <1> DEFINE p == proc[c]
  <1>p. p \in Procs /\ state[p] = "RUNNING" /\ p \in Nat /\ p < NPROC
    <2>1. OnCpu(c)
      BY DEF Trap, CountTick, StoreTick, BoostDue, SweepSlot, ResetSlot, StampSlot,
         EndSweep, TestQueue, TestSlice, Demote, ClearSlice, MarkArrival, LookForHigher, Resume,
         Yield, Leave, OnCpu
    <2> QED BY <2>1, SizeAssumption DEF RunningOnOneCpu, Procs
  <1>f. \A r \in Procs : Exhausted(r)' => ticks_curr_slice'[r] # 0
    BY FreshSlice DEF Exhausted
  <1>i. idx[c] \in Nat /\ NPROC \in Nat
    BY SizeAssumption
  <1>1. CASE CountTick(c)
    BY <1>1, QuietSlice DEF CountTick, SliceUnderReview, Exhausted, BoostUnderWay
  <1>2. CASE StoreTick(c)
    <2>1. SliceUnderReview(c)' /\ proc'[c] = p
      BY <1>2 DEF StoreTick, SliceUnderReview
    <2>2. ASSUME NEW r \in Procs, r # p
          PROVE  /\ ticks_curr_slice'[r] = ticks_curr_slice[r]
                 /\ \A d \in CPUs : SliceUnderReview(d) => SliceUnderReview(d)'
                 /\ BoostUnderWay(r) => BoostUnderWay(r)'
      BY <1>2, <2>2 DEF StoreTick, SliceUnderReview, BoostUnderWay
    <2>3. proc' = proc /\ curr_queue' = curr_queue
      BY <1>2 DEF StoreTick
    <2> QED BY <2>1, <2>2, <2>3, QuietSlice
  <1>3. CASE BoostDue(c)
    <2>1. SliceUnderReview(c)'
      <3>1. idx'[c] = 0 /\ level'[c] = 0
        BY <1>3 DEF BoostDue, IndexInLoop, LevelInChain
      <3>2. curr_queue'[p] >= 0 /\ proc'[c] = p /\ pc'[c] \in {"sweep", "queue"}
        BY <1>3, <1>p DEF BoostDue, Queues
      <3> QED BY <3>1, <3>2, <1>p DEF SliceUnderReview
    <2>2. \A d \in CPUs : SliceUnderReview(d) => SliceUnderReview(d)'
      BY <1>3, <2>1 DEF BoostDue, SliceUnderReview
    <2> QED BY <1>3, <2>2, QuietSlice DEF BoostDue, BoostUnderWay
  <1>4. CASE SweepSlot(c)
    <2>r. PICK r : r = idx[c]
      OBVIOUS
    <2>1. r \in Procs /\ r \in Nat /\ pc[c] = "sweep"
      BY <1>4, <1>i, <2>r DEF SweepSlot, Procs
    <2>2. CASE state[r] # "UNUSED"
      <3>1. /\ pc' = [pc EXCEPT ![c] = "reset"] /\ curr_queue' = [curr_queue EXCEPT ![r] = 0]
            /\ UNCHANGED <<idx, ticks_curr_slice, proc, level>>
        BY <1>4, <2>2, <2>r DEF SweepSlot
      <3>2. BoostUnderWay(r)'
        BY <3>1, <2>r DEF BoostUnderWay
      <3>3. ASSUME NEW q \in Procs, q # r, NEW d \in CPUs, SliceUnderReview(d), proc[d] = q
            PROVE  SliceUnderReview(d)'
        BY <3>1, <3>3, <2>1, <2>r DEF SliceUnderReview
      <3>4. ASSUME NEW q \in Procs, BoostUnderWay(q) PROVE BoostUnderWay(q)'
        BY <3>1, <3>4, <2>1 DEF BoostUnderWay
      <3> QED BY <3>1, <3>2, <3>3, <3>4, <2>1, QuietSlice
    <2>3. CASE state[r] = "UNUSED"
      <3>1. /\ UNCHANGED <<pc, curr_queue, ticks_curr_slice, proc, level>>
            /\ idx' = [idx EXCEPT ![c] = r + 1] /\ p # r
        BY <1>4, <1>p, <2>3, <2>r DEF SweepSlot
      <3>2. ASSUME NEW d \in CPUs, SliceUnderReview(d) PROVE SliceUnderReview(d)'
        BY <3>1, <3>2, <2>1, <2>r, <1>p DEF SliceUnderReview
      <3>3. ASSUME NEW q \in Procs, BoostUnderWay(q) PROVE BoostUnderWay(q)'
        BY <3>1, <3>3, <2>1 DEF BoostUnderWay
      <3> QED BY <3>1, <3>2, <3>3, QuietSlice
    <2> QED BY <2>2, <2>3
  <1>5. CASE ResetSlot(c)
    <2>r. PICK r : r = idx[c]
      OBVIOUS
    <2>1. /\ pc[c] = "reset" /\ pc' = [pc EXCEPT ![c] = "stamp"]
          /\ ticks_curr_slice' = [ticks_curr_slice EXCEPT ![r] = 0]
          /\ UNCHANGED <<idx, curr_queue, proc, level>>
          /\ r \in Nat
      BY <1>5, <1>i, <2>r DEF ResetSlot
    <2>2. \A q \in Procs : Exhausted(q)' => q # r
      BY <1>f, <2>1
    <2>3. ASSUME NEW q \in Procs, q # r, NEW d \in CPUs, SliceUnderReview(d), proc[d] = q
          PROVE  SliceUnderReview(d)'
      <3>1. CASE d = c
        <4>1. idx[c] <= p /\ p # r
          BY <2>1, <2>3, <3>1 DEF SliceUnderReview
        <4>2. idx'[c] < p /\ proc'[c] = p /\ pc'[c] = "stamp"
          <5>1. r <= p /\ p # r /\ r \in Nat
            BY <2>1, <2>r, <4>1
          <5>2. r < p
            <6> HIDE DEF p
            <6> QED BY <1>p, <5>1
          <5> QED BY <2>1, <2>r, <5>2
        <4> QED BY <3>1, <4>2 DEF SliceUnderReview
      <3>2. CASE d # c
        BY <2>1, <2>3, <3>2 DEF SliceUnderReview
      <3> QED BY <3>1, <3>2
    <2>4. ASSUME NEW q \in Procs, q # r, BoostUnderWay(q) PROVE BoostUnderWay(q)'
      BY <2>1, <2>4, <2>r DEF BoostUnderWay
    <2> QED BY <2>1, <2>2, <2>3, <2>4, QuietSlice
  <1>6. CASE StampSlot(c)
    <2>1. /\ pc[c] = "stamp" /\ pc' = [pc EXCEPT ![c] = "sweep"]
          /\ idx' = [idx EXCEPT ![c] = idx[c] + 1]
          /\ UNCHANGED <<curr_queue, ticks_curr_slice, proc, level>>
      BY <1>6 DEF StampSlot
    <2>2. ASSUME NEW d \in CPUs, SliceUnderReview(d) PROVE SliceUnderReview(d)'
      BY <2>1, <2>2, <1>i, <1>p DEF SliceUnderReview
    <2>3. ASSUME NEW q \in Procs, BoostUnderWay(q) PROVE BoostUnderWay(q)'
      BY <2>1, <2>3 DEF BoostUnderWay
    <2> QED BY <2>1, <2>2, <2>3, QuietSlice
  <1>7. CASE EndSweep(c)
    <2>1. ~SliceUnderReview(c)
      BY <1>7, <1>p, <1>i DEF EndSweep, SliceUnderReview
    <2> QED BY <1>7, <2>1, QuietSlice DEF EndSweep, SliceUnderReview, Exhausted, BoostUnderWay
  <1>8. CASE TestQueue(c) \/ TestSlice(c)
    <2>1. UNCHANGED <<idx, curr_queue, ticks_curr_slice, proc>> /\ pc[c] \in {"queue", "slice"}
          /\ \A d \in CPUs \ {c} : pc'[d] = pc[d] /\ level'[d] = level[d]
          /\ pc'[c] # "reset"
      BY <1>8 DEF TestQueue, TestSlice, FallThrough
    <2>2. ASSUME Exhausted(p), SliceUnderReview(c) PROVE SliceUnderReview(c)'
      <3>1. /\ level[c] \in 0 .. 3 /\ curr_queue[p] \in 0 .. 3 /\ level[c] <= curr_queue[p]
            /\ ticks_curr_slice[p] >= Slice[curr_queue[p]]
        BY <2>1, <2>2, <1>p DEF SliceUnderReview, Exhausted, Queues
      <3>2. CASE pc'[c] \in {"slice", "demote", "clear"} /\ level'[c] = level[c]
        BY <2>1, <3>1, <3>2 DEF SliceUnderReview
      <3>3. CASE FallThrough(c)
        <4>1. level[c] # curr_queue[p]
          BY <1>8, <3>1, <3>3 DEF TestQueue, TestSlice, FallThrough
        <4>2. pc'[c] = "queue" /\ level'[c] = level[c] + 1
          BY <3>1, <3>3, <4>1 DEF FallThrough
        <4> QED BY <2>1, <3>1, <4>1, <4>2 DEF SliceUnderReview
      <3> QED BY <1>8, <3>2, <3>3 DEF TestQueue, TestSlice
    <2>3. \A d \in CPUs \ {c} : SliceUnderReview(d) => SliceUnderReview(d)'
      BY <2>1 DEF SliceUnderReview
    <2>4. \A q \in Procs : BoostUnderWay(q) => BoostUnderWay(q)'
      BY <2>1 DEF BoostUnderWay
    <2>5. \A q \in Procs : Exhausted(q)' => Exhausted(q)
      BY <2>1 DEF Exhausted
    <2> QED BY <2>1, <2>2, <2>3, <2>4, <2>5, QuietSlice
  <1>9. CASE Demote(c)
    <2>1. SliceUnderReview(c)' /\ proc'[c] = p
      BY <1>9 DEF Demote, SliceUnderReview
    <2>2. ASSUME NEW r \in Procs, r # p
          PROVE  /\ curr_queue'[r] = curr_queue[r]
                 /\ \A d \in CPUs : SliceUnderReview(d) /\ proc[d] = r => SliceUnderReview(d)'
                 /\ BoostUnderWay(r) => BoostUnderWay(r)'
      BY <1>9, <2>2 DEF Demote, SliceUnderReview, BoostUnderWay
    <2>3. proc' = proc /\ ticks_curr_slice' = ticks_curr_slice
      BY <1>9 DEF Demote
    <2> QED BY <2>1, <2>2, <2>3, QuietSlice
  <1>10. CASE ClearSlice(c)
    <2>1. \A r \in Procs : Exhausted(r)' => r # p
      BY <1>10, <1>f DEF ClearSlice
    <2> QED BY <1>10, <2>1, QuietSlice DEF ClearSlice, SliceUnderReview, BoostUnderWay
  <1>11. CASE MarkArrival(c) \/ LookForHigher(c) \/ Resume(c)
    BY <1>11, QuietSlice DEF MarkArrival, LookForHigher, Resume, SliceUnderReview, Exhausted,
       BoostUnderWay
  <1>12. CASE Yield(c)
    BY <1>12, QuietSlice DEF Yield, Leave, SliceUnderReview, Exhausted, BoostUnderWay
  <1> QED BY <1>1, <1>2, <1>3, <1>4, <1>5, <1>6, <1>7, <1>8, <1>9, <1>10, <1>11, <1>12 DEF Trap

\* Nothing outside the timer trap makes a slice longer.
LEMMA SliceStep ==
  ASSUME TypeOK, RunningOnOneCpu, IndexInLoop, LevelInChain, SliceWithinQuantum, TypeOK',
         [Next]_vars
  PROVE  SliceWithinQuantum'
  <1> USE DEF vars, procVars, cpuVars, Goto, SliceUnderReview, BoostUnderWay
  <1>f. \A r \in Procs : Exhausted(r)' => ticks_curr_slice'[r] # 0
    BY FreshSlice DEF Exhausted, TypeOK
  <1>1. CASE UNCHANGED vars
    BY <1>1, QuietSlice
  <1>2. ASSUME NEW c \in CPUs, IdleTick(c) \/ TimerTrap(c) PROVE SliceWithinQuantum'
    BY <1>2, QuietSlice DEF IdleTick, TimerTrap, TypeOK
  <1>3. ASSUME NEW c \in CPUs, Scheduler(c) PROVE SliceWithinQuantum'
    BY <1>3, QuietSlice DEF Scheduler, StartScan, ScanSlot, EndScan, Dispatch, Retry, TypeOK
  <1>4. ASSUME NEW c \in CPUs, Trap(c) PROVE SliceWithinQuantum'
    BY <1>4, TrapSlice
  <1>5. ASSUME NEW c \in CPUs, SleepPrepare(c) \/ ForkPublish(c) \/ Exit(c)
        PROVE  SliceWithinQuantum'
    BY <1>5, QuietSlice DEF SleepPrepare, ForkPublish, Exit, Leave, TypeOK
  <1>6. ASSUME NEW c \in CPUs, Sleep(c) PROVE SliceWithinQuantum'
    <2>1. \A r \in Procs : Exhausted(r)' => ticks_curr_slice'[r] = ticks_curr_slice[r]
      BY <1>6, <1>f DEF Sleep, TypeOK
    <2> QED BY <1>6, <2>1, QuietSlice DEF Sleep, Leave, TypeOK
  <1>7. ASSUME NEW c \in CPUs, NEW p \in Procs, Wakeup(c, p) \/ Kill(c, p)
        PROVE  SliceWithinQuantum'
    BY <1>7, QuietSlice DEF Wakeup, Kill
  <1>8. ASSUME NEW c \in CPUs, NEW p \in Procs, ForkAlloc(c, p) \/ Reap(c, p)
        PROVE  SliceWithinQuantum'
    <2>1. \A r \in Procs : Exhausted(r)' => r # p
      BY <1>8, <1>f DEF ForkAlloc, Reap, TypeOK
    <2> QED BY <1>8, <2>1, QuietSlice DEF ForkAlloc, Reap, TypeOK
  <1> QED BY <1>1, <1>2, <1>3, <1>4, <1>5, <1>6, <1>7, <1>8 DEF Next, Process

-----------------------------------------------------------------------------
\* The conjunction of all of them is inductive.
LEMMA Inductive == ASSUME IInv, [Next]_vars PROVE IInv'
  <1>1. TypeOK'
    <2>1. CASE UNCHANGED vars
      BY <2>1 DEF IInv, TypeOK, vars, procVars, cpuVars
    <2> QED BY <2>1, ClockType, SchedulerType, TrapType, ProcessType DEF IInv, Next
  <1>2. RunningOnOneCpu'
    <2>1. CASE UNCHANGED vars
      BY <2>1 DEF IInv, RunningOnOneCpu, OnCpu, vars, procVars, cpuVars
    <2> QED BY <2>1, ClockCpu, SchedulerCpu, TrapCpu, ProcessCpu DEF IInv, Next
  <1>3. CandidateExists' /\ ForkingIsPrivate' /\ IndexInLoop' /\ LevelInChain' /\ SleeperIsReachable'
    BY CandidateStep, ForkingStep, IndexStep, LevelStep, SleeperStep DEF IInv
  <1>4. SliceWithinQuantum'
    BY <1>1, SliceStep DEF IInv
  <1> QED BY <1>1, <1>2, <1>3, <1>4 DEF IInv

\* ... hence it holds in every reachable state.
LEMMA Invariance == Spec => []IInv
  BY InitHolds, Inductive, PTL DEF Spec

\* Every variable of the scheduler keeps its type.
THEOREM TypeCorrect == Spec => []TypeOK
  BY Invariance, PTL DEF IInv

\* No process runs on two harts, none is RUNNING without a hart, and a hart
\* runs only a process whose state says so, although the scheduler chooses
\* without holding the lock of what it chooses.
THEOREM OneCpuPerProcess == Spec => []RunningOnOneCpu
  BY Invariance, PTL DEF IInv

\* Whoever sleeps can still be woken: the wakeup between sleep_prepare() and
\* sleep() is not lost.
THEOREM SleepersReachable == Spec => []SleeperIsReachable
  BY Invariance, PTL DEF IInv

\* Whoever has used up his slice is in the hands of his own hart's timer trap,
\* or of a boost that is about to reset it, although the tick is counted, the
\* slice tested and the process demoted without its lock.
THEOREM SlicesRespected == Spec => []SliceWithinQuantum
  BY Invariance, PTL DEF IInv
-----------------------------------------------------------------------------
(* The policy *)

\* No process has arrived in the future.
ArrivedBefore == \A p \in Procs : q_arrival_time[p] <= ticks

\* On one hart nobody changes the table while the hart looks at it.  The
\* candidate of the scan is the best of the slots it has passed;
ScanIsExact(c) ==
    IF pc[c] \in {"scan", "pick"}
    THEN /\ best[c] = NoBest \/ (best[c].proc \in Procs /\ StillBest(best[c]))
         /\ \A p \in Procs : (pc[c] = "pick" \/ p < idx[c]) /\ state[p] = "RUNNABLE"
                => ~Beats(p, best[c])
    ELSE best[c] = NoBest

\* the boost has reached those it has passed, and the one it is at in part;
SweepIsExact(c) ==
    /\ pc[c] \in {"sweep", "reset", "stamp"} => \A p \in Procs :
           p < idx[c] /\ state[p] # "UNUSED" =>
               curr_queue[p] = 0 /\ ticks_curr_slice[p] = 0 /\ q_arrival_time[p] = ticks
    /\ pc[c] \in {"reset", "stamp"} => curr_queue[idx[c]] = 0
    /\ pc[c] = "stamp" => ticks_curr_slice[idx[c]] = 0

\* none of those the trap has passed outranks the process;
PreemptIsExact(c) == pc[c] = "preempt" =>
    \A p \in Procs : p < idx[c] => ~Outranks(p, proc[c])

\* and once a boost is not due it does not become due before the trap returns.
TrapIsExact(c) == pc[c] \in {"queue", "slice", "preempt"} => ticks < BOOST

Exact(c) == ScanIsExact(c) /\ SweepIsExact(c) /\ PreemptIsExact(c) /\ TrapIsExact(c)
Policy == \A c \in CPUs : Exact(c)

LEMMA OneHart == ASSUME NCPU = 1, NEW c \in CPUs, NEW d \in CPUs PROVE c = d
  BY DEF CPUs

\* The comparison of the scan is transitive.
LEMMA BeatsBoth ==
  ASSUME TypeOK, NEW p \in Procs, NEW r \in Procs, NEW b \in Candidates, Beats(r, b), ~Beats(p, b)
  PROVE  ~Beats(p, Candidate(r))
  <1>1. /\ curr_queue[p] \in Int /\ curr_queue[r] \in Int /\ b.queue \in Int /\ b.arrival \in Int
        /\ q_arrival_time[p] \in Int /\ q_arrival_time[r] \in Int
    BY DEF TypeOK, Queues, Candidates
  <1> QED BY <1>1 DEF Beats, Candidate

LEMMA SchedulerExact ==
  ASSUME IInv, NEW c \in CPUs, Exact(c), Scheduler(c) PROVE Exact(c)'
  <1>t. TypeOK /\ pc \in [CPUs -> Labels] /\ best \in [CPUs -> Candidates]
        /\ idx \in [CPUs -> 0 .. NPROC] /\ best[c] \in Candidates /\ NPROC \in Nat
    BY SizeAssumption DEF IInv, TypeOK
  <1>n. Procs = 0 .. NPROC - 1 /\ NoProc \notin Procs
    BY SizeAssumption DEF Procs
  <1>1. CASE StartScan(c)
    <2>1. /\ pc'[c] = "scan" /\ UNCHANGED <<procVars, best, idx>> /\ idx[c] = 0
          /\ best[c] = NoBest
      BY <1>1, <1>t DEF StartScan, IInv, IndexInLoop, Exact, ScanIsExact
    <2> QED BY <2>1, <1>n DEF Exact, ScanIsExact, SweepIsExact, PreemptIsExact, TrapIsExact
  <1>2. CASE ScanSlot(c)
    <2>1. PICK r : r = idx[c]
      OBVIOUS
    <2>2. PICK b \in Candidates : b = best[c]
      BY <1>t
    <2>3. /\ pc[c] = "scan" /\ pc' = pc /\ r \in Procs /\ idx'[c] = r + 1
          /\ UNCHANGED <<state, curr_queue, q_arrival_time>>
          /\ best'[c] = IF state[r] = "RUNNABLE" /\ Beats(r, b) THEN Candidate(r) ELSE b
      BY <1>2, <1>t, <1>n, <2>1, <2>2 DEF ScanSlot, procVars
    <2>4. /\ b = NoBest \/ (b.proc \in Procs /\ StillBest(b))
          /\ \A p \in Procs : p < r /\ state[p] = "RUNNABLE" => ~Beats(p, b)
      BY <2>1, <2>2, <2>3 DEF Exact, ScanIsExact
    <2>5. \A p \in Procs : p < r + 1 => p < r \/ p = r
      BY <2>3, <1>n
    <2>6. \A p \in Procs : state'[p] = state[p] /\ Candidate(p)' = Candidate(p)
      BY <2>3 DEF Candidate
    <2>7. \A p \in Procs : \A d : Beats(p, d)' <=> Beats(p, d)
      BY <2>3 DEF Beats
    <2>8. CASE state[r] = "RUNNABLE" /\ Beats(r, b)
      <3>1. best'[c] = Candidate(r) /\ Candidate(r).proc = r
        BY <2>3, <2>8 DEF Candidate
      <3>2. PICK d : d = Candidate(r)
        OBVIOUS
      <3>3. d.proc = r /\ state'[r] = "RUNNABLE" /\ Candidate(r)' = d
        BY <2>3, <2>6, <2>8, <3>1, <3>2
      <3>4. \A p \in Procs : p < r + 1 /\ state[p] = "RUNNABLE" => ~Beats(p, Candidate(r))
        <4>1. ~Beats(r, Candidate(r))
          BY <1>t, <2>3 DEF Beats, Candidate, TypeOK, Queues
        <4> QED BY <4>1, <2>3, <2>4, <2>5, <2>8, <1>t, BeatsBoth
      <3>5. \A p \in Procs : p < r + 1 /\ state'[p] = "RUNNABLE" => ~Beats(p, d)
        BY <3>2, <3>4, <2>3
      <3>6. best'[c] = d
        BY <3>1, <3>2
      <3>7. StillBest(best[c])'
        BY <3>3, <3>6 DEF StillBest, Candidate
      <3>8. \A p \in Procs : Beats(p, best[c])' <=> Beats(p, d)
        BY <3>6, <2>3 DEF Beats
      <3>9. ScanIsExact(c)'
        BY <3>3, <3>5, <3>6, <3>7, <3>8, <2>3 DEF ScanIsExact
      <3> QED BY <3>9, <2>3 DEF Exact, SweepIsExact, PreemptIsExact, TrapIsExact
    <2>9. CASE ~(state[r] = "RUNNABLE" /\ Beats(r, b))
      <3>1. best'[c] = b
        BY <2>3, <2>9
      <3>2. \A p \in Procs : p < r + 1 /\ state[p] = "RUNNABLE" => ~Beats(p, b)
        BY <2>4, <2>5, <2>9
      <3>3. ScanIsExact(c)'
        BY <3>1, <3>2, <2>3, <2>4 DEF ScanIsExact, Beats, StillBest, Candidate
      <3> QED BY <3>3, <2>3 DEF Exact, SweepIsExact, PreemptIsExact, TrapIsExact
    <2> QED BY <2>8, <2>9
  <1>3. CASE EndScan(c)
    <2>1. /\ pc[c] = "scan" /\ idx[c] = NPROC /\ UNCHANGED <<procVars, best>>
          /\ pc'[c] = IF best[c].proc = NoProc THEN "idle" ELSE "pick"
      BY <1>3, <1>t DEF EndScan, Goto
    <2>2. \A p \in Procs : p < idx[c]
      BY <2>1, <1>n, <1>t
    <2>3. best[c].proc = NoProc => best[c] = NoBest
      BY <2>1, <1>n DEF Exact, ScanIsExact
    <2>4. ScanIsExact(c)'
      BY <2>1, <2>2, <2>3 DEF Exact, ScanIsExact, StillBest, Beats, Candidate, procVars
    <2> QED BY <2>1, <2>4 DEF Exact, SweepIsExact, PreemptIsExact, TrapIsExact
  <1>4. CASE Dispatch(c) \/ Retry(c)
    <2>1. pc'[c] \in {"run", "idle"} /\ best'[c] = NoBest
      BY <1>4, <1>t DEF Dispatch, Retry, Goto
    <2> QED BY <2>1 DEF Exact, ScanIsExact, SweepIsExact, PreemptIsExact, TrapIsExact
  <1> QED BY <1>1, <1>2, <1>3, <1>4 DEF Scheduler

LEMMA TrapExact ==
  ASSUME IInv, NEW c \in CPUs, Exact(c), Trap(c) PROVE Exact(c)'
  <1>t. TypeOK /\ pc \in [CPUs -> Labels] /\ best \in [CPUs -> Candidates]
        /\ idx \in [CPUs -> 0 .. NPROC] /\ idx[c] \in Nat /\ NPROC \in Nat
        /\ ticks \in Int /\ BOOST \in Int
    BY SizeAssumption DEF IInv, TypeOK
  <1>n. Procs = 0 .. NPROC - 1
    BY DEF Procs
  <1>b. best'[c] = NoBest /\ pc'[c] \notin {"scan", "pick"}
    <2>1. pc[c] \notin {"scan", "pick"} /\ pc'[c] \notin {"scan", "pick"}
      BY <1>t DEF Trap, CountTick, StoreTick, BoostDue, SweepSlot, ResetSlot, StampSlot, EndSweep,
         TestQueue, TestSlice, FallThrough, Demote, ClearSlice, MarkArrival, LookForHigher, Resume,
         Yield, Leave, Goto
    <2>2. best[c] = NoBest
      BY <2>1 DEF Exact, ScanIsExact
    <2>3. CASE BoostDue(c)
      <3>1. best' = best \/ best' = [d \in CPUs |-> IF best[d] = NoBest THEN NoBest
                                                 ELSE [best[d] EXCEPT !.arrival = Shift(@)]]
        BY <2>3 DEF BoostDue
      <3> QED BY <3>1, <2>1, <2>2
    <2>4. CASE ~BoostDue(c)
      BY <2>4, <2>1, <2>2 DEF Trap, CountTick, StoreTick, SweepSlot, ResetSlot, StampSlot,
         EndSweep, TestQueue, TestSlice, Demote, ClearSlice, MarkArrival, LookForHigher, Resume, Yield
    <2> QED BY <2>1, <2>3, <2>4
  <1>s. ScanIsExact(c)'
    BY <1>b DEF ScanIsExact
  <1>1. CASE BoostDue(c)
    <2>1. /\ idx'[c] = 0 /\ pc'[c] = (IF ticks >= BOOST THEN "sweep" ELSE "queue")
          /\ (ticks < BOOST => ticks' = ticks)
      BY <1>1, <1>t DEF BoostDue, Goto, IInv, IndexInLoop
    <2> QED BY <2>1, <1>s, <1>n, <1>t DEF Exact, SweepIsExact, PreemptIsExact, TrapIsExact
  <1>2. CASE SweepSlot(c)
    <2>1. PICK r : r = idx[c]
      OBVIOUS
    <2>2. /\ pc[c] = "sweep" /\ r \in Procs /\ r \in Int
          /\ UNCHANGED <<state, ticks, ticks_curr_slice, q_arrival_time>>
      BY <1>2, <1>t, <1>n, <2>1 DEF SweepSlot
    <2>3. \A p \in Procs : p < r /\ state[p] # "UNUSED" =>
             curr_queue[p] = 0 /\ ticks_curr_slice[p] = 0 /\ q_arrival_time[p] = ticks
      BY <2>1, <2>2 DEF Exact, SweepIsExact
    <2>4. CASE state[r] # "UNUSED"
      <3>1. /\ pc'[c] = "reset" /\ idx'[c] = r /\ curr_queue'[r] = 0
            /\ \A p \in Procs : p < r => curr_queue'[p] = curr_queue[p]
        BY <1>2, <1>t, <2>1, <2>2, <2>4 DEF SweepSlot, TypeOK
      <3> QED BY <3>1, <2>2, <2>3, <1>s DEF Exact, SweepIsExact, PreemptIsExact, TrapIsExact
    <2>5. CASE state[r] = "UNUSED"
      <3>1. pc'[c] = "sweep" /\ idx'[c] = r + 1 /\ curr_queue' = curr_queue
        BY <1>2, <1>t, <2>1, <2>2, <2>5 DEF SweepSlot, TypeOK
      <3>2. \A p \in Procs : p < r + 1 => p < r \/ p = r
        BY <2>2, <1>n
      <3> QED BY <3>1, <3>2, <2>2, <2>3, <2>5, <1>s
              DEF Exact, SweepIsExact, PreemptIsExact, TrapIsExact
    <2> QED BY <2>4, <2>5
  <1>3. CASE ResetSlot(c)
    <2>1. PICK r : r = idx[c]
      OBVIOUS
    <2>2. r \in Procs
      BY <1>3, <1>t, <1>n, <2>1 DEF ResetSlot, Goto, IInv, IndexInLoop
    <2>3. /\ pc[c] = "reset" /\ pc'[c] = "stamp" /\ idx'[c] = r /\ ticks_curr_slice'[r] = 0
          /\ \A p \in Procs : p < r => ticks_curr_slice'[p] = ticks_curr_slice[p]
          /\ UNCHANGED <<state, ticks, curr_queue, q_arrival_time>>
      BY <1>3, <1>t, <1>n, <2>1, <2>2 DEF ResetSlot, Goto, TypeOK
    <2> QED BY <2>1, <2>3, <1>s DEF Exact, SweepIsExact, PreemptIsExact, TrapIsExact
  <1>4. CASE StampSlot(c)
    <2>1. PICK r : r = idx[c]
      OBVIOUS
    <2>2. r \in Procs
      BY <1>4, <1>t, <1>n, <2>1 DEF StampSlot, Goto, IInv, IndexInLoop
    <2>3. /\ pc[c] = "stamp" /\ pc'[c] = "sweep" /\ idx'[c] = r + 1 /\ q_arrival_time'[r] = ticks
          /\ \A p \in Procs : p < r => q_arrival_time'[p] = q_arrival_time[p]
          /\ UNCHANGED <<state, ticks, curr_queue, ticks_curr_slice>>
      BY <1>4, <1>t, <1>n, <2>1, <2>2 DEF StampSlot, Goto, TypeOK
    <2>4. \A p \in Procs : p < r + 1 => p < r \/ p = r
      BY <2>2, <1>n
    <2> QED BY <2>1, <2>3, <2>4, <1>s DEF Exact, SweepIsExact, PreemptIsExact, TrapIsExact
  <1>5. CASE LookForHigher(c)
    <2>1. PICK r : r = idx[c]
      OBVIOUS
    <2>2. /\ pc[c] = "preempt" /\ r \in Procs
          /\ UNCHANGED <<state, curr_queue, ticks, proc>>
          /\ pc'[c] = "yield" \/ (pc'[c] = "preempt" /\ idx'[c] = r + 1 /\ ~Outranks(r, proc[c]))
      BY <1>5, <1>t, <1>n, <2>1 DEF LookForHigher, procVars
    <2>3. \A p \in Procs : p < r + 1 => p < r \/ p = r
      BY <2>2, <1>n
    <2>4. \A p \in Procs : p < r => ~Outranks(p, proc[c])
      BY <2>1, <2>2 DEF Exact, PreemptIsExact
    <2>5. PreemptIsExact(c)'
      BY <2>2, <2>3, <2>4 DEF PreemptIsExact, Outranks
    <2> QED BY <2>2, <2>5, <1>s DEF Exact, SweepIsExact, TrapIsExact
  <1>6. CASE TestQueue(c) \/ TestSlice(c)
    <2>1. /\ pc[c] \in {"queue", "slice"} /\ ticks' = ticks /\ idx'[c] = 0
          /\ pc'[c] \in {"queue", "slice", "demote", "clear", "preempt"}
      BY <1>6, <1>t DEF TestQueue, TestSlice, FallThrough, IInv, IndexInLoop
    <2> QED BY <2>1, <1>s, <1>n DEF Exact, SweepIsExact, PreemptIsExact, TrapIsExact
  <1>7. CASE ~(\/ BoostDue(c) \/ SweepSlot(c) \/ ResetSlot(c) \/ StampSlot(c)
               \/ LookForHigher(c) \/ TestQueue(c) \/ TestSlice(c))
    <2>1. pc'[c] \in {"count", "boost", "clear", "mark", "yield", "run", "idle"}
      BY <1>7, <1>t DEF Trap, CountTick, StoreTick, EndSweep, Demote, ClearSlice, MarkArrival,
         Resume, Yield, Leave, Goto
    <2> QED BY <2>1, <1>s DEF Exact, SweepIsExact, PreemptIsExact, TrapIsExact
  <1> QED BY <1>1, <1>2, <1>3, <1>4, <1>5, <1>6, <1>7

\* Processes, and interrupts, change the table only where the hart does not
\* look at it.
LEMMA ElsewhereExact ==
  ASSUME IInv, NEW c \in CPUs, Exact(c), IdleTick(c) \/ TimerTrap(c) \/ Process(c)
  PROVE  Exact(c)'
  <1>t. pc \in [CPUs -> Labels]
    BY DEF IInv, TypeOK
  <1>1. /\ pc[c] \in {"run", "clock", "idle", "window"} /\ pc'[c] \in {"run", "clock", "idle", "window"}
        /\ best' = best
    BY <1>t DEF IdleTick, TimerTrap, Process, SleepPrepare, Sleep, ForkPublish, Exit, Wakeup, Kill,
       ForkAlloc, Reap, Leave, Goto, cpuVars, FreeToCall, Executing, CanWake
  <1> QED BY <1>1 DEF Exact, ScanIsExact, SweepIsExact, PreemptIsExact, TrapIsExact

LEMMA PolicyStep == ASSUME NCPU = 1, IInv, Policy, [Next]_vars PROVE Policy'
  <1>1. CASE Next
    <2>1. PICK c \in CPUs : IdleTick(c) \/ TimerTrap(c) \/ Scheduler(c) \/ Trap(c) \/ Process(c)
      BY <1>1 DEF Next
    <2>2. Exact(c)'
      BY <2>1, SchedulerExact, TrapExact, ElsewhereExact DEF Policy
    <2> QED BY <2>2, OneHart DEF Policy
  <1>2. CASE UNCHANGED vars
    BY <1>2 DEF Policy, Exact, ScanIsExact, SweepIsExact, PreemptIsExact, TrapIsExact, StillBest,
       Beats, Candidate, Outranks, vars, procVars, cpuVars
  <1> QED BY <1>1, <1>2

LEMMA PolicyInit == Init => Policy
  <1> SUFFICES ASSUME Init, NEW c \in CPUs PROVE pc[c] = "idle" /\ best[c] = NoBest
    BY DEF Policy, Exact, ScanIsExact, SweepIsExact, PreemptIsExact, TrapIsExact
  <1> QED BY DEF Init

LEMMA ArrivedStep == ASSUME IInv, ArrivedBefore, [Next]_vars PROVE ArrivedBefore'
  <1>t. /\ TypeOK /\ q_arrival_time \in [Procs -> Int] /\ ticks \in Int /\ 0 <= ticks
        /\ MaxTicks \in Int
    BY SizeAssumption DEF IInv, TypeOK
  <1>a. \A p \in Procs : q_arrival_time[p] \in Int /\ q_arrival_time[p] <= ticks
    BY <1>t DEF ArrivedBefore
  <1>1. ASSUME UNCHANGED <<q_arrival_time, ticks>> PROVE ArrivedBefore'
    BY <1>1, <1>a DEF ArrivedBefore
  <1>2. ASSUME NEW c \in CPUs, IdleTick(c) \/ TimerTrap(c) PROVE ArrivedBefore'
    <2>1. q_arrival_time' = q_arrival_time /\ ticks' \in Int /\ ticks <= ticks'
      BY <1>2, <1>t DEF IdleTick, TimerTrap, ClockIntr, Tick, procVars
    <2> QED BY <2>1, <1>a, <1>t DEF ArrivedBefore
  <1>3. ASSUME NEW c \in CPUs, BoostDue(c) PROVE ArrivedBefore'
    <2>1. CASE ticks >= BOOST
      <3>1. ASSUME NEW t \in Int, t <= ticks PROVE Shift(t) <= 0
        BY <3>1, <1>t, OldestIsPast DEF Shift
      <3>2. ticks' = 0 /\ \A p \in Procs :
               q_arrival_time'[p] = IF state[p] = "UNUSED" THEN 0 ELSE Shift(q_arrival_time[p])
        BY <1>3, <2>1 DEF BoostDue
      <3> QED BY <3>1, <3>2, <1>a DEF ArrivedBefore
    <2>2. CASE ~(ticks >= BOOST)
      BY <1>3, <2>2, <1>1 DEF BoostDue
    <2> QED BY <2>1, <2>2
  <1>4. ASSUME ticks' = ticks, NEW p \in Procs, NEW t \in {0, ticks},
               q_arrival_time' = [q_arrival_time EXCEPT ![p] = t]
        PROVE  ArrivedBefore'
    BY <1>4, <1>t, <1>a DEF ArrivedBefore
  <1>5. ASSUME NEW c \in CPUs, StampSlot(c) \/ MarkArrival(c) \/ Yield(c) PROVE ArrivedBefore'
    <2>1. StampSlot(c) => idx[c] \in Procs
      BY <1>t, SizeAssumption DEF StampSlot, Goto, Procs, TypeOK, IInv, IndexInLoop
    <2>2. MarkArrival(c) \/ Yield(c) => proc[c] \in Procs
      BY DEF MarkArrival, Yield, Leave, Goto, IInv, RunningOnOneCpu, OnCpu
    <2>3. ticks' = ticks /\ \/ q_arrival_time' = q_arrival_time
                            \/ \E p \in Procs : q_arrival_time' = [q_arrival_time EXCEPT ![p] = ticks]
      BY <1>5, <2>1, <2>2 DEF StampSlot, MarkArrival, Yield
    <2> QED BY <2>3, <1>1, <1>4
  <1>6. ASSUME NEW c \in CPUs, Process(c) PROVE ArrivedBefore'
    <2>1. ticks' = ticks /\ \/ q_arrival_time' = q_arrival_time
                            \/ \E p \in Procs, t \in {0, ticks} :
                                  q_arrival_time' = [q_arrival_time EXCEPT ![p] = t]
      BY <1>6 DEF Process, SleepPrepare, Sleep, ForkPublish, Exit, Wakeup, Kill, ForkAlloc, Reap
    <2> QED BY <2>1, <1>1, <1>4
  <1>7. ASSUME NEW c \in CPUs, Scheduler(c) \/ Trap(c), ~BoostDue(c),
               ~(StampSlot(c) \/ MarkArrival(c) \/ Yield(c))
        PROVE  ArrivedBefore'
    <2>1. UNCHANGED <<q_arrival_time, ticks>>
      BY <1>7 DEF Scheduler, Trap, StartScan, ScanSlot, EndScan, Dispatch, Retry, CountTick,
         StoreTick, SweepSlot, ResetSlot, EndSweep, TestQueue, TestSlice, Demote, ClearSlice,
         LookForHigher, Resume, procVars
    <2> QED BY <2>1, <1>1
  <1>8. CASE UNCHANGED vars
    BY <1>8, <1>1 DEF vars, procVars
  <1> QED BY <1>2, <1>3, <1>5, <1>6, <1>7, <1>8 DEF Next

\* Only wakeup() and kkill() end a sleep, and wakeup() sets the arrival time.
LEMMA WakesAtTail ==
  ASSUME IInv, NEW c \in CPUs, NEW p \in Procs,
         IdleTick(c) \/ TimerTrap(c) \/ Scheduler(c) \/ Trap(c) \/ Process(c),
         state[p] = "SLEEPING", state'[p] = "RUNNABLE"
  PROVE  q_arrival_time'[p] = ticks \/ Kill(c, p)
  <1>t. state \in [Procs -> States] /\ q_arrival_time \in [Procs -> Int]
        /\ forking \in [Procs -> Procs \cup {NoProc}]
    BY DEF IInv, TypeOK
  <1>1. IdleTick(c) \/ TimerTrap(c) => state' = state
    BY DEF IdleTick, TimerTrap, procVars
  <1>2. ~Scheduler(c)
    BY <1>t DEF Scheduler, StartScan, ScanSlot, EndScan, Dispatch, Retry, procVars
  <1>3. ASSUME Leave(c, "yield", "RUNNABLE") PROVE FALSE
    <2>1. state[proc[c]] = "RUNNING"
      BY <1>3 DEF Leave, Goto, IInv, RunningOnOneCpu, OnCpu
    <2> QED BY <1>3, <1>t, <2>1 DEF Leave
  <1>4. ~Trap(c)
    BY <1>3, <1>t DEF Trap, CountTick, StoreTick, BoostDue, SweepSlot, ResetSlot, StampSlot,
       EndSweep, TestQueue, TestSlice, Demote, ClearSlice, MarkArrival, LookForHigher, Resume,
       Yield, procVars
  <1>5. ASSUME ForkPublish(c) PROVE FALSE
    <2>1. proc[c] \in Procs
      BY <1>5 DEF ForkPublish, Executing, IInv, RunningOnOneCpu, OnCpu
    <2>2. state[forking[proc[c]]] = "USED"
      BY <1>5, <1>t, <2>1 DEF ForkPublish, IInv, ForkingIsPrivate
    <2> QED BY <1>5, <1>t, <2>2 DEF ForkPublish
  <1>6. PICK r \in Procs : Wakeup(c, r) \/ Kill(c, r)
    BY <1>1, <1>2, <1>4, <1>5, <1>t DEF Process, SleepPrepare, Sleep, Exit, ForkAlloc, Reap, Leave
  <1> QED BY <1>6, <1>t DEF Wakeup, Kill

\* What a step finds of the policy before it.
LEMMA PolicyInvariance == ASSUME NCPU = 1 PROVE Spec => [](IInv /\ Policy)
  <1>1. IInv /\ Policy /\ [Next]_vars => (IInv /\ Policy)'
    BY Inductive, PolicyStep
  <1> QED BY <1>1, InitHolds, PolicyInit, PTL DEF Spec

\* On one hart the scheduler runs the process it should: no runnable process is
\* in a higher queue, nor has one in its queue arrived earlier (proc.c:557-573).
THEOREM PriorityIsStrict == ASSUME NCPU = 1 PROVE Spec => StrictPriority
  <1>1. ASSUME IInv, Policy, [Next]_vars
        PROVE  [\A c \in CPUs : pc[c] = "pick" /\ pc'[c] = "run" =>
                   \A p \in Procs : state[p] = "RUNNABLE" => ~Beats(p, Candidate(proc'[c]))]_vars
    <2> SUFFICES ASSUME Next, NEW c \in CPUs, pc[c] = "pick", pc'[c] = "run",
                        NEW p \in Procs, state[p] = "RUNNABLE"
                 PROVE  ~Beats(p, Candidate(proc'[c]))
      BY <1>1
    <2>1. PICK d \in CPUs : IdleTick(d) \/ TimerTrap(d) \/ Scheduler(d) \/ Trap(d) \/ Process(d)
      BY DEF Next
    <2>2. d = c /\ pc \in [CPUs -> Labels] /\ proc \in [CPUs -> Procs \cup {NoProc}]
      BY <1>1, OneHart DEF IInv, TypeOK
    <2>3. Dispatch(c)
      BY <2>1, <2>2 DEF IdleTick, TimerTrap, Scheduler, Trap, Process, StartScan, ScanSlot, EndScan,
         Retry, CountTick, StoreTick, BoostDue, SweepSlot, ResetSlot, StampSlot,
       EndSweep, TestQueue, TestSlice, FallThrough, Demote, ClearSlice, MarkArrival, LookForHigher, Resume, Yield, Leave, Goto, SleepPrepare, Sleep, ForkPublish, Exit, Wakeup,
         Kill, ForkAlloc, Reap, FreeToCall, Executing, CanWake
    <2>4. Candidate(proc'[c]) = best[c]
      BY <2>2, <2>3 DEF Dispatch, StillBest
    <2>5. ~Beats(p, best[c])
      BY <1>1 DEF Policy, Exact, ScanIsExact
    <2> QED BY <2>4, <2>5
  <1> QED BY <1>1, PolicyInvariance, PTL DEF Spec, StrictPriority

\* On one hart a process returns from the timer trap only if none outranks it
\* and no boost is due (trap.c:100, 139-145).
THEOREM PreemptionAtTick == ASSUME NCPU = 1 PROVE Spec => PreemptedAtTick
  <1>1. ASSUME IInv, Policy, [Next]_vars
        PROVE  [\A c \in CPUs : pc[c] = "preempt" /\ pc'[c] = "run" =>
                   ticks < BOOST /\ \A p \in Procs : ~Outranks(p, proc[c])]_vars
    <2> SUFFICES ASSUME Next, NEW c \in CPUs, pc[c] = "preempt", pc'[c] = "run"
                 PROVE  ticks < BOOST /\ \A p \in Procs : ~Outranks(p, proc[c])
      BY <1>1
    <2>1. PICK d \in CPUs : IdleTick(d) \/ TimerTrap(d) \/ Scheduler(d) \/ Trap(d) \/ Process(d)
      BY DEF Next
    <2>2. d = c /\ pc \in [CPUs -> Labels]
      BY <1>1, OneHart DEF IInv, TypeOK
    <2>3. LookForHigher(c) \/ Resume(c)
      BY <2>1, <2>2 DEF IdleTick, TimerTrap, Scheduler, Trap, Process, StartScan, ScanSlot, EndScan,
         Dispatch, Retry, CountTick, StoreTick, BoostDue, SweepSlot, ResetSlot, StampSlot, EndSweep,
         TestQueue, TestSlice, FallThrough, Demote, ClearSlice, MarkArrival, Yield, Leave, Goto, SleepPrepare, Sleep, ForkPublish, Exit, Wakeup,
         Kill, ForkAlloc, Reap, FreeToCall, Executing, CanWake
    <2>4. idx[c] = NPROC
      BY <2>2, <2>3 DEF LookForHigher, Resume
    <2>5. \A p \in Procs : p < idx[c]
      BY <2>4, SizeAssumption DEF Procs
    <2> QED BY <1>1, <2>5 DEF Policy, Exact, PreemptIsExact, TrapIsExact
  <1> QED BY <1>1, PolicyInvariance, PTL DEF Spec, PreemptedAtTick

\* On one hart the boost leaves every process in queue 0 with a fresh slice,
\* whatever its state (trap.c:108-117).
THEOREM BoostIsTotal == ASSUME NCPU = 1 PROVE Spec => BoostReachesAll
  <1>1. ASSUME IInv, Policy, [Next]_vars
        PROVE  [\A c \in CPUs : pc[c] = "sweep" /\ pc'[c] = "yield" =>
                   \A p \in Procs : state[p] # "UNUSED" =>
                       curr_queue[p] = 0 /\ ticks_curr_slice[p] = 0 /\ q_arrival_time[p] = ticks]_vars
    <2> SUFFICES ASSUME Next, NEW c \in CPUs, pc[c] = "sweep", pc'[c] = "yield"
                 PROVE  \A p \in Procs : p < idx[c]
      BY <1>1 DEF Policy, Exact, SweepIsExact
    <2>1. PICK d \in CPUs : IdleTick(d) \/ TimerTrap(d) \/ Scheduler(d) \/ Trap(d) \/ Process(d)
      BY DEF Next
    <2>2. d = c /\ pc \in [CPUs -> Labels]
      BY <1>1, OneHart DEF IInv, TypeOK
    <2>3. SweepSlot(c) \/ EndSweep(c)
      BY <2>1, <2>2 DEF IdleTick, TimerTrap, Scheduler, Trap, Process, StartScan, ScanSlot, EndScan,
         Dispatch, Retry, CountTick, StoreTick, BoostDue, ResetSlot, StampSlot,
         TestQueue, TestSlice, FallThrough, Demote, ClearSlice, MarkArrival, LookForHigher, Resume, Yield, Leave, Goto, SleepPrepare, Sleep, ForkPublish, Exit, Wakeup,
         Kill, ForkAlloc, Reap, FreeToCall, Executing, CanWake
    <2>4. idx[c] = NPROC
      BY <2>2, <2>3 DEF SweepSlot, EndSweep
    <2> QED BY <2>4, SizeAssumption DEF Procs
  <1> QED BY <1>1, PolicyInvariance, PTL DEF Spec, BoostReachesAll

\* A sleeper that becomes runnable is behind every runnable process of its
\* queue, unless kkill() made it so (proc.c:763-766, 785-788).
TailUnlessKilled == [][\A p, r \in Procs :
    /\ state[p] = "SLEEPING" /\ state'[p] = "RUNNABLE"
    /\ p # r /\ state[r] = "RUNNABLE" /\ curr_queue[r] = curr_queue[p]
    => q_arrival_time'[p] >= q_arrival_time[r] \/ \E c \in CPUs : Kill(c, p)]_vars

\* On any number of harts kkill() is the only way past the tail of the queue.
THEOREM OnlyKillOvertakes == Spec => TailUnlessKilled
  <1>1. Init => IInv /\ ArrivedBefore
    <2>1. Init => ArrivedBefore
      BY DEF Init, ArrivedBefore
    <2> QED BY <2>1, InitHolds
  <1>2. IInv /\ ArrivedBefore /\ [Next]_vars => (IInv /\ ArrivedBefore)'
    BY Inductive, ArrivedStep
  <1>3. ASSUME IInv, ArrivedBefore, [Next]_vars
        PROVE  [\A p, r \in Procs :
                   /\ state[p] = "SLEEPING" /\ state'[p] = "RUNNABLE"
                   /\ p # r /\ state[r] = "RUNNABLE" /\ curr_queue[r] = curr_queue[p]
                   => q_arrival_time'[p] >= q_arrival_time[r] \/ \E c \in CPUs : Kill(c, p)]_vars
    <2> SUFFICES ASSUME Next, NEW p \in Procs, NEW r \in Procs,
                        state[p] = "SLEEPING", state'[p] = "RUNNABLE"
                 PROVE  q_arrival_time'[p] >= q_arrival_time[r] \/ \E c \in CPUs : Kill(c, p)
      BY <1>3
    <2>1. PICK c \in CPUs : IdleTick(c) \/ TimerTrap(c) \/ Scheduler(c) \/ Trap(c) \/ Process(c)
      BY DEF Next
    <2>2. q_arrival_time[r] \in Int /\ q_arrival_time[r] <= ticks /\ ticks \in Int
      BY <1>3, SizeAssumption DEF IInv, TypeOK, ArrivedBefore
    <2>3. q_arrival_time'[p] = ticks \/ Kill(c, p)
      BY <1>3, <2>1, WakesAtTail
    <2> QED BY <2>2, <2>3
  <1> QED BY <1>1, <1>2, <1>3, PTL DEF Spec, TailUnlessKilled
=============================================================================
