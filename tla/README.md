# A verification development for custom-posix-shell

The repository holds two programs under `src/mini-project1`:

- `xv6/` - the xv6 teaching kernel, extended with a multi-level feedback queue
  scheduler (and a FIFO variant), `waitx`, and a `sleep()` protocol in two halves
  (`sleep_prepare()` / `sleep()`);
- `c-shell/` - a POSIX shell with pipelines, redirections, background jobs and job
  control.

This directory holds TLA+ models of the parts where concurrency, crashes and signals make the
code hard to test, the TLC configurations that check them, and TLAPS proofs.
`PROJECT.json` maps every definition to the lines it models. Paths below are relative to
`src/mini-project1`; `K/` stands for `xv6/kernel/` and `S/` for `c-shell/src/`.

    tlc -workers 2 -config mlfq_up.cfg MCMlfq      # one run; the table below names the module
    tlapm LogProofs.tla                            # the proofs of one component; section 4 lists the modules

## 1. Inventory

### The kernel

| Component | State | Operations | Interacts with | Hard behaviour | Correct when |
|---|---|---|---|---|---|
| MLFQ scheduler, `K/proc.c`, `K/trap.c` | per process `state`, `chan`, `curr_queue`, `ticks_curr_slice`, `q_arrival_time`; per hart `c->proc`; `ticks`, `last_boost_time` | `scheduler()`, `sched()`, `yield()`, timer part of `usertrap()`/`kerneltrap()`, `sleep_prepare()`, `sleep()`, `wakeup()` | called by everything that blocks; interrupt handlers call `wakeup()` | harts scan and boost the table one lock at a time; unlocked reads and writes in the trap | no process on two harts, no lost wakeup, slices and priorities respected, nobody starves |
| Process lifecycle, `K/proc.c`, `K/sysproc.c` | `parent`, `killed`, `xstate`, `pid`, `wait_lock`, `nextpid` | `kfork`, `kexit`, `reparent`, `kwait`, `kwaitx`, `kkill` | scheduler, file table, log (`iput` of the working directory) | exit wakes its parent before it is a zombie; orphans move to init meanwhile | each zombie is reaped once, by its parent or init; no child is lost |
| Redo log, `K/log.c` | `log.lh`, `outstanding`, `committing`, `ncommit`; on disk the header, the log and the home blocks | `begin_op`, `log_write`, `end_op`/`commit`, `sys_sync`, `recover_from_log` | buffer cache (pins), scheduler (sleep on `&log`), disk | group commit, crash between any two block writes, crash in recovery, reservation of space | operations atomic across crashes, `sync` durable, no overflow, nobody left asleep |
| Spinlocks, `K/spinlock.c` | `locked`, `cpu`, `noff`, `intena` | `acquire`, `release`, `push_off`, `pop_off` | everything | nesting of interrupt disabling, lock order | mutual exclusion; interrupts restored at depth 0 |
| Sleeplocks, `K/sleeplock.c` | `locked`, `pid` | `acquiresleep`, `releasesleep` | sleep/wakeup | wakeup between the test and the sleep | mutual exclusion, a waiter gets in |
| Buffer cache, `K/bio.c` | LRU list, `dev`, `blockno`, `valid`, `refcnt`, sleeplock | `bget`, `bread`, `brelse`, `bpin`, `bunpin` | log, disk driver | two callers of one uncached block; recycling; pins can take every buffer (`NBUF = LOGBLOCKS`) | one buffer per block, never recycled while referenced |
| Disk driver, `K/virtio_disk.c` | descriptor free list, avail and used rings, `info[]` | `virtio_disk_rw`, `virtio_disk_intr` | buffer cache, interrupts | interrupts race with submissions; descriptors run out | each request answered once, descriptors conserved |
| File table and inodes, `K/file.c`, `K/fs.c`, `K/sysfile.c` | `ref` counts, `nlink`, bitmap, directories | `filealloc/dup/close`, `iget/iput/ialloc/itrunc`, `namex`, `create`, `unlink`, `ireclaim` | log, buffer cache | last reference against unlink; orphans after a crash; two path walks in opposite order | no inode freed while referenced, none leaked, no deadlock |
| Pipes, `K/pipe.c` | ring buffer, `nread`, `nwrite`, `readopen`, `writeopen` | `pipewrite`, `piperead`, `pipeclose` | sleep/wakeup, file table, kill | two channels, either end closes or is killed while the other sleeps | a FIFO byte stream; nobody sleeps for ever on a closed pipe |
| Console and UART, `K/console.c`, `K/uart.c` | line buffer with `r`, `w`, `e`; transmit flag | `consoleread`, `consoleintr`, `uartwrite`, `uartintr` | interrupts, sleep/wakeup | indices wrap, erase against a reader | lines delivered whole and once |
| Pages and address spaces, `K/kalloc.c`, `K/vm.c`, `K/exec.c` | free list, page tables | `kalloc`, `kfree`, `uvmcopy`, `kexec` | fork, exec, traps | failure half way | no page leaked or shared by mistake |
| Traps, dispatch, boot | registers, trapframe | `usertrap`, `syscall`, `main` | everything | machine level | registers preserved |

### The shell

| Component | State | Operations | Interacts with | Hard behaviour | Correct when |
|---|---|---|---|---|---|
| Job control, `S/main.c`, `S/exec.c`, `S/jobs.c`, `S/cmds_resume.c` | `bg_jobs[]`, `next_job_num`, `sigchld_pending`, terminal owner, `live`, the alarm | main loop, `sigchld_handler`, `execute`, `add_job`, `resume`, `fg_alarm_handler`, end of input | children, kernel signals, terminal | children change state one by one at any time; who reaps decides who knows; timer against the last report | every live process is in the table, completed jobs are reported once, the terminal belongs to whom the shell waits for |
| `activities`, `ping` | none of their own | read the table, send signals | job table | - | act on live entries only |
| Parser, `S/parser.c` | token list | `lexer`, `valid_grmr` | main loop | grammar corner cases | accepts the documented grammar |
| Redirections, `S/inp_redir.c`, `S/out_redir.c` | file descriptors, helper processes | open, concatenate, tee | `execute` | helpers join the pipeline's group | data complete; helpers reaped |
| `snoop` | table of syscall counts | ptrace loop | traced child | signal stops against syscall stops | every call counted once |
| `hop`, prompt, `reveal`, `peek`, `locate`, `spy` | directory history at most | sequential, read and print | file system, /proc | none | - |

`mkfs` builds the image off line (the log starts from the empty log it writes); user programs
and `usertests` are callers of the kernel.

### Hazards

`PROJECT.json` lists each at its line. The ones the models are built around: the
scheduler's choice is stale when it locks what it chose (`K/proc.c:571`); the boost of one
hart passes between another's test and its demotion (`K/trap.c:120`); a wakeup between the two
halves of a sleep (`K/proc.c:737`); a crash between two block writes (`K/log.c:207`);
an exit that hands zombies to an
init that is between the halves of its sleep (`K/proc.c:381`); the two channels of a pipe
(`K/pipe.c:88`); several operations sharing the log's space (`K/log.c:138`); `sync` overlapping with
operations and commits (`K/log.c:250`); SIGCHLD between any two statements of the shell
(`S/main.c:38`); the alarm just before or after `waitpid` (`S/cmds_resume.c:88`); a pipeline
whose processes stop, continue and exit separately (`S/main.c:58`); the device filling the used ring
while the interrupt handler empties it (`K/virtio_disk.c:313`); a transmitter that falls idle between
the look and the sleep (`K/uart.c:86`); an inode freed in three steps (`K/fs.c:373`) and a directory
unlinked under a walk (`K/sysfile.c:269`); memory or the disk running out half way
(`K/vm.c:229`, `K/fs.c:555`).

## 2. Modules

| Module | Extends / uses | Models |
|---|---|---|
| `Mlfq` | | process table, scheduler loops and timer traps of any number of harts |
| `MlfqProofs` | `Mlfq`, TLAPS | its safety theorems and its policy on one hart |
| `MCMlfq` | `Mlfq` | small instances: time slices |
| `AtomicDisk` | | abstract: blocks in memory and on disk, the disk moves between quiescent images in one step |
| `Log` | instance of `AtomicDisk` | `log.c` at block-write granularity, with crashes and recovery |
| `LogProofs` | `Log`, TLAPS | its invariants, durability of `sync`, the refinement |
| `MCLog`, `MCLogSpace` | `Log` | small instances |
| `Process` | | the process table: fork, exit, wait, kill, sleep and wakeup, as operators |
| `Pipe` | | the ring of a pipe and the references to its two files, as operators |
| `BoundedFifo` | | abstract: a bounded queue of bytes between two ends that close |
| `PipeProcs` | `Process`, `Pipe`, instance of `BoundedFifo` | processes that share a pipe |
| `NumberProofs` | TLAPS | lemmas on natural numbers: least elements, induction, arithmetic modulo the width of a counter |
| `PipeProcsProofs` | `PipeProcs`, `NumberProofs` | its invariants and the refinement |
| `MCPipeProcs` | `PipeProcs` | small instances, with and without the pipe |
| `JobControl` | | the shell's job control and its children |
| `JobControlProofs` | `JobControl`, TLAPS | the table, the terminal, who is listed |
| `MCJobControl` | `JobControl` | small instances |
| `VirtioDisk` | | the disk driver and its device |
| `BlockStore` | | abstract: each block has one user at a time, who finds what the last one left |
| `BufferCache` | `VirtioDisk`, instance of `BlockStore` | `bio.c` with its sleeplocks, over the driver |
| `LineDiscipline` | | abstract: lines are edited, entered, and shared out to readers in order |
| `Console` | instance of `LineDiscipline` | `console.c` and `uart.c`, and the chip |
| `Devices`, `MCDevices` | `BufferCache`, `Console` | the two devices side by side |
| `DevicesProofs` | `Devices`, `NumberProofs` | the invariants of the cache over the driver and of the console, their refinements, and both for `Devices` |
| `Memory` | | page allocator and address spaces: fork, exec, sbrk, faults, exit |
| `Blocks` | | bitmap and block maps: read, write, truncate |
| `AllocationProofs` | `Memory`, `Blocks`, `NumberProofs` | the invariants of both: no page or block is leaked, shared or freed twice, no operation logs more than it reserves |
| `Inodes` | | path names, directories, links, `iput`, crash and reclaiming |
| `InodesProofs` | `Inodes`, `NumberProofs` | its invariants: links are counted, directories are a tree, nobody is stuck |
| `CShellParser` | | lexer and grammar check of the shell, and its specification |
| `Sh` | | the shell of xv6: parser, and the processes and pipes of a command |
| `Subsystems`, `MCSubsystems` | the five above | each of them while the others rest |

`Devices` and `Subsystems` put components that share no state into one specification; a variable
(`busy`, `part`) chosen at the start says which of them moves, so a run explores the sum of
their state spaces and not the product. Only `Sh` declares a RECURSIVE operator (`Leaves`), so nothing can be
proved in it or in `Subsystems`; `Memory`, `Blocks`, `Inodes`, `VirtioDisk`, `BufferCache`, `Console` and
`CShellParser` are free of it.

Operators whose comment begins "Mutant of" are plausible wrong versions of a definition, each kept
beside the right one; no specification uses them. They record, for each property, one change
of the code that it catches.

### Mlfq

One step is what a hart does under one acquisition of a lock, or one unlocked access to shared
state. `pc[c]` says where hart `c` is:

| `pc` | code |
|---|---|
| `idle` | top of `scheduler()`'s loop; `window` after a timer interrupt between `intr_on()` and `intr_off()` |
| `scan` | the loop over the table, slot `idx`, candidate `best` (`K/proc.c:557-568`) |
| `pick` | the candidate is about to be locked and checked again (571-584) |
| `run` | the process runs, in user or kernel mode; it may fork, sleep, wake, kill, exit, reap |
| `clock` | a timer interrupt has come; the load of `ticks_curr_slice++` is next (`K/trap.c:96, 228`: `CountTick`) |
| `count` | ... and its store is next, of `count[c] + 1` (`StoreTick`) |
| `boost` | about to decide under `boostlock` whether a boost is due (99-106: `BoostDue`) |
| `sweep`, `reset`, `stamp` | the boost loop at slot `idx` (107-117): it locks the slot and writes `curr_queue` (`SweepSlot`), then `ticks_curr_slice` (`ResetSlot`), then `q_arrival_time` and unlocks (`StampSlot`) |
| `queue`, `slice` | the branch of the demotion chain for queue `level[c]` reads `curr_queue` (`TestQueue`), then `ticks_curr_slice` (`TestSlice`) (120-135) |
| `demote`, `clear`, `mark` | its writes, one after the other: `curr_queue`, `ticks_curr_slice`, `q_arrival_time` (`Demote`, `ClearSlice`, `MarkArrival`) |
| `preempt` | the unlocked loop that looks for a process of higher priority (139-145) |
| `yield` | in `yield()` |

The trap takes no `p->lock` to count the tick and to demote, and a boost on another hart writes the same three fields. So every load and
every store there is a step, and the boost's three writes, under the lock of their slot, are three steps; whatever takes that
lock meanwhile waits (`Unlocked`). Stores become visible in program order, and a branch of the chain loads
`curr_queue` anew, as the text has it: a compiler that loads it once has outcomes that are among these.
The copying of `ticks` into `q_arrival_time` is one step, as nobody else writes `ticks` but hart 0's clock.

`usertrap()` and `kerneltrap()` contain the same text for the timer and share actions; the
differences (a killed process exits before its tick is accounted in `usertrap()` only) are
choices. Times are kept relative to `last_boost_time`, as the code only compares them;
the step that assigns `last_boost_time` shifts them all, and `Oldest` bounds how far. `swtch()` is
not modelled: a process leaves its hart and its lock is released in one step, as the code
keeps `p->lock` over it. The statistics of `waitx` (`run_time` and so on) are left out, and so
are the two builds without MLFQ.

### Log and AtomicDisk

One step is what a process does under one acquisition of `log.lock`, or one block write. A block's
content is the number of times it was written. `home`, `logArea` and `head` are on the disk and
survive `Crash`, which is enabled in every state, recovery included; everything else is memory. The
buffer cache is external: a block has a buffer or not, and one without a pin may be recycled at
any time (`Recycle`). `waiting` is the set of processes whose channel is `&log`; as
`Mlfq` shows that no wakeup is lost between `sleep_prepare()` and `sleep()`, the two are one step
here. `ncommit` only matters through `log.ncommit < n`, so each caller of `sys_sync()` keeps the
difference; the history variable `seen` is what the blocks held when it called. Block writes are atomic and reach the disk in the order they are issued, which is what
`virtio_disk_rw()`, waiting for each, gives the log.

`AtomicDisk` says what callers rely on: `Commit` is possible only when no operation is active and
makes the disk equal to memory; `Crash` makes memory equal to the disk. `Log` implements it
with

    mem    <- what bread() would return (after a crash: what recovery will restore)
    disk   <- Recovered: the home blocks overwritten by the log if the header says so
    active <- the processes between begin_op() and end_op()

so that `WriteHead` is the abstract `Commit`, and every other block write, every recovery
step and every recycling is a stutter.

### Process, Pipe and PipeProcs

`Process` and `Pipe` define what each kernel function does to its own variables; `PipeProcs`
conjoins them into steps, so that a fork duplicates references, an exit closes files and a
`pipewrite()` wakes processes. A step is what runs under one acquisition of `wait_lock`, of a
`p->lock` alone, of `ftable.lock` or of `pi->lock`; `pipewrite()` reads `p->killed` for every byte, and takes
one step per byte with the lock held between.

| `pc` | code |
|---|---|
| `user` | in user space; a killed process can only exit there (`K/trap.c:65, 89`) |
| `publish` | `kfork()`, the child is `USED` (`K/proc.c:320-333`) |
| `wait`, `waitsleep` | top of the loop of `kwait()`; between `sleep_prepare()` and the end of `sleep()` |
| `exit` | `kexit()`: closing files, then the part under `wait_lock` |
| `closeR`, `closeW`, `exitR`, `exitW` | the last reference is dropped, `pipeclose()` is to come |
| `read`, `readsleep` | top of the loop of `piperead()`, and its sleep |
| `write`, `copy`, `writesleep` | `pipewrite()` without and with `pi->lock`, and its sleep |

While a process is `SLEEPING` its `pc` is already the label it wakes at. The parent pointer and
the state of a new child are set in one step, and `killed` and `chan` of a zombie are cleared at the
exit: nothing looks at either in between. Cells of the ring that were read are blanked, which
identifies states the code cannot tell apart. Left out: exit codes and the statistics of `waitx`,
address spaces, reuse of pids, other kinds of files, more than one pipe at a time, and `dup`.
`kwaitx()` differs from `kwait()` in what it copies out only, and shares its actions.

`PipeProcs` implements `BoundedFifo` with `queue <- ` the cells between `nread` and `nwrite`
(empty once there is no reader) and the two flags; the counters wrap at `Wrap`, 2^32 in the code.

### JobControl

The shell is one thread; its step runs between two points where a child's change of state or a
signal can matter. Groups are numbered by launch, members by position in the pipeline, member 0
being a redirection helper. `child` is the kernel's view, with a change of state that `waitpid`
has not reported yet told apart from one it has (`stopping`/`stopped`,
`continued`/`running`, `zombie`/`reaped`); a report is consumed by whoever waits first, the SIGCHLD
handler or a foreground wait.

| `pc` | code |
|---|---|
| `top` | top of `main()`'s loop, `prcs_cmplt_job()` |
| `prompt` | reading a line; end of input |
| `line` | between the commands of a line, where `resume` may be called |
| `spawn`, `abort` | forking loop of `execute()`, and its cleanup |
| `wait`, `stop` | foreground wait, and after a stop was reported |
| `fgwait`, `fgstop`, `fgend` | `fg_job()`: waiting; stop reported; loop over |
| `exited` | the shell has exited |

SIGCHLD is blocked during `execute()` and `fg_job()`, so the handler runs only at the first three. `loading` is the set of commands
that still hold the writing end of their `exec_err` pipe: the shell reads each pipe to its end before it goes on from a foreground wait
(`S/exec.c:351-359`), and a command lets go when it execs (`ChildExecs`) or ends. `InputInterrupted` is the branch of `main()` for a read that fails with `errno` equal
to EINTR (`S/main.c:152-156`).
Removing entries (`remove_job()`, which moves the later ones down) is `Keep`: the entries that stay, in the order of
their places, which `Ordered` lists.
`timeouts`, chosen at the start, says whether the user of `resume` gives `--timeout`: without, the table is exact
(`DoneIsExact`), with, an alarm may go off too late to be of use (section 5).
Left out: what is printed, `exit_status`, pipes and redirections, reuse of pids.

### VirtioDisk and BufferCache

A process's step is what `virtio_disk_rw()` does under one acquisition of `vdisk_lock`; `rw[p]` is
`alloc` (about to look for descriptors), `full` (asleep on `&disk.free[0]`), `wait` (asleep on the
buffer) or `check` (woken, about to look at `b->disk`). The handler holds the lock from `IntrAck` to
`IntrReturn`, one used entry a step, while the device (external) serves requests in any order and raises interrupts:
so a request may be completed between the handler's last look at the ring and its return.
The three descriptors of a chain are a set, and the header, the flags and the status byte are reduced to
the request they encode; features and queue set-up are not modelled.

`BufferCache` has `bget()`, and the end of `brelse()`, as steps under `bcache.lock`, and the sleeplock taken in
between. `pc[p]`: `lock`, `locksleep` in `acquiresleep()`; `valid`, `read` in `bread()`; `hold` with the
buffer; `write`, `flush` in `bwrite()`, for the log's own blocks and for `install_trans()`; `put` in `brelse()`. What a process
does with a buffer is what the log lets it do: `LogWrite` pins the block and never writes it, `Bwrite` writes a block of the
log, or a pinned block to its home, which unpins it. A process uses one buffer at a time, which is an abstraction: the code's callers nest them (the indirect block, then the
bitmap's). The run reaches a full cache with more processes instead. Nothing in `bio.c` keeps `bget()` from finding none: the pins alone may take every buffer (`LOGBLOCKS = NBUF`, `K/param.h:9-11`), and
then `BgetPanics`. `PanicsOnlyWhenFull` says what the cache does promise: that it panics only if each buffer is pinned or some process
uses it or waits for it, so that no reference is ever leaked. `IntrPanics` is the handler's panic on a status other than 0 (`K/virtio_disk.c:322-323`), which the device may
report of any request. Either sets `panicked` in `Devices`, after which nothing happens; what the other harts still do
before they want the console's lock is left out. `StoreChecksHold`, proved and not run, says that the remaining panics (`bwrite` and `brelse` without the lock, `free_desc` of
a free descriptor) are out of reach. `KillSleeper` is `kkill()`
of a process that sleeps in any of the three places: it looks again and goes back to sleep. `BlockStore` is implemented with

    holder  <- the process that holds the block's sleeplock, past bread()
    content <- the data of its valid buffer, else of the disk
    disk    <- the blocks on the device

which is what `Log` assumes of its external cache.

### Console

`reader[p]`: `loop` (top of `consoleread()`'s loop, under `cons.lock`), `sleep`, `return`; `writer[p]`: `lock`, `locksleep` (the
sleeplock of `uartwrite()`), `prepare`, `look`, `put`, `sleep`; `uart`: where `uartintr()` is, which in `echo` and
`put` spins in `uartputc_sync()` with `cons.lock` held. The chip counts the characters in its two FIFOs;
`txDone` is its transmitter interrupt, which reading ISR or writing THR withdraws, so that an echo can take the interrupt
a writer waits for. Which key was typed is chosen when it is handled. The buffer's three indices wrap at `Wrap`, 2^32 in the
code. `ReadFaults` is a read whose destination is not mapped: `either_copyout()` fails after `cons.r` was moved (`K/console.c:115, 123-124`), the call returns what it has, and the byte is
lost; `LineDiscipline` allows it (`Lose`: one byte of a line that was entered is gone, the rest stays in order). A backspace on the screen (three characters) and a process listing count as one character. Bytes written are counted.

### Memory

A step is one round of a loop over pages, so other processes allocate and free between any two. A page table is the set of
its own pages (`tables`), the pages it maps and those of them closed to the user (`guard`);
physical pages are not named but counted: `free` drops by one in `kalloc()` and rises by one in `kfree()`, and
`PagesAreAccounted` compares it with what is held (`HeldPages`, a set of pairs of a process and a number, so that pages are
counted by the cardinality of a finite set). Where the code frees what it had on an error, the model computes it with
`Unmap` and `FreeSpace`, at the size the code passes; a wrong size would show as a leak or as the panic of `freewalk()`.
A page fault comes from user code or from a copy into or out of the kernel; the copying of the arguments of `exec()`
(`K/sysfile.c:474-484`) faults pages in between the pages it allocates, and where memory runs out then the call fails but the process lives.
Page tables have three levels as in the code, with two entries a page instead of 512. A segment of an executable that ends below the
one before it adds nothing, as `uvmalloc()` returns the old size then.

### Inodes and Blocks

`Inodes` has the directory tree, `Blocks` the blocks under one inode; the two meet in `itrunc()` and `dirlink()`, which is a
step of `Inodes` that may fail for want of a block. In `Inodes` a step is what a process does from an `ilock()` to the `iunlock()` or
the next `ilock()`/`iput()`; `l[p].pc` names the point, `l[p].ret` where an `iput()` returns to. An `iput()` that frees takes
three steps (`PutTruncates`, `PutDrops`, `PutFrees`), as the number becomes allocatable only after the reference is
dropped. `fs` is what operations see; `image`, what a crash goes back to, becomes `fs` when the last operation ends, which is
what `AtomicDisk` says and `Log` implements. A crash loses all in-memory inodes and processes, and `Reclaim` runs before
the next call. In `Blocks` one round of the loop of `writei()` is a step, with the disk full at any `balloc()` and a copy from user
space failing in any round; `req[p].logged` is the set of blocks the operation has logged.

### CShellParser and Sh

Recursive functions over the positions of a line, one per function of the code. `CShellParser` compares `lexer()`
with maximal munch over the tokens of `problem_statement.html`, and `valid_grmr()` with its grammar. `Sh` compares the recursive descent of
`sh.c` with a grammar over spans, and runs the tree: processes that fork, connect and close pipe ends, wait and exit. A program with a
pipe as input ends when nobody can write to it any more; one that writes to a pipe ends once somebody reads it or nobody can.

## 3. Runs

| Run | Bounds | Shows |
|---|---|---|
| `mlfq_smp` | 2 harts, 2 processes, boost 2, kill | `TypeOK`, `RunningOnOneCpu`, `SleeperIsReachable`, `SliceWithinQuantum` under every interleaving of two harts |
| `mlfq_up` | 1 hart, 2 processes, boost 6, kill, fair | the policy: `StrictPriority` at each dispatch, `PreemptedAtTick`, `BoostReachesAll`; `NoStarvation` |
| `mlfq_kill` | 1 hart, 3 processes, boost 6, kill | violation of `EntersAtTail` |
| `mlfq_starves` | 1 hart, 3 processes, boost 2, fair | violation of `NoStarvation` |
| `log_crash` | 3 processes, 3 blocks, 2 writes a block, a log of three operations | `Atomicity` (refinement), `SyncIsDurable`, `LogIsSound`, `NoLostWakeup` |
| `log_space` | 2 processes, 5 blocks, a log of 4 | `NoPanic`; `BeginOpReturns` |
| `procs_wait` | 4 processes, no pipe, fair | `WaitIsWoken`; `WaitReturns` |
| `procs_pipe` | 3 processes, a pipe of 2 bytes, counters that wrap at 4, writes of up to 3 | `PipeIsWoken`, `EndsAreCounted`; `Fifo` (refinement) |
| `jobs_table` | 2 launches of up to 2 commands, with and without timeouts | `LiveIsTracked`, `TerminalOwner`, `DoneIsExact`, `DoneIsPending` |
| `jobs_helper` | 1 launch of 2 commands and a helper | violation of `LiveIsTracked` |
| `devices` | 2 buffers, 2 contents; 3 processes, 3 blocks and 4 descriptors, or 2 processes, 2 blocks and 6; a line of 2, reads of 2, indices that wrap at 4; 2 writers of up to 3 bytes, copied two at a time | `DevicesServe`, `PanicsOnlyWhenFull`; `CoherentBlocks`, `ReadsEnteredLines` (refinements) |
| `subsystems` | memory: 3 processes on 21 pages, 2 on 28 and 31, 2 entries a table; blocks: 2 processes, 2 open files, of one inode or two, of up to 4 blocks, a disk of 4; inodes: 2 processes, 3 inodes, 3 calls, a crash; lines of up to 4 characters or tokens, 6 lines of `sh` run by up to 7 processes | `PagesAreAccounted`; `BlocksHold`; `DiskIsConsistent`, `NobodyStuck`; `LinesAreRead`; `ShParses`, `CommandsEnd` |

Some invariants gather parts that one run checks: `LogIsSound` is `OneCommitter`, `RecyclableIsClean` and `QuiescentIsDurable`;
`DevicesServe` is `StoreSleeperIsOwed` and `ConsoleSleeperIsOwed`; `DiskIsConsistent` is `Consistent` of what is
committed, and `NoOrphan`; `BlocksHold` is `BlocksAreAccounted` and `OperationsFit`; `WaitIsWoken` includes `ParentAlive`. Each part has its own definition and comment.

Why the bounds are enough to be interesting. `mlfq_smp`: the hazards are between pairs - two
harts choosing one process, a boost on one hart against a demotion on the other, a wakeup against
a sleep - and each needs two processes and two harts; a third process adds nothing to
a pair. Both boosts and a demotion fit in two ticks. `mlfq_up`: after each tick one process may go on and one
may beat it, in a higher queue or earlier in the same; a boost period of six lets a process go down
through all four queues and rotate in the lowest, and the slices (1, 2, 1, 1) keep one queue longer
than a tick, so that a tick may come in the middle of a slice. Two processes both get
a turn within a period, which is what `NoStarvation` depends on (with three and a boost every four ticks it fails); the three safety properties
are proved for any number of processes. `mlfq_kill`: the sleeper, its killer and one that queued
in the meantime. `log_crash`: two
operations overlap, a third waits or syncs; three blocks make absorption, partial
install and partial recovery possible, and a transaction larger than one operation; each block is written twice, so that old and new contents
of log, home and header all differ. `log_space`: there are more blocks than log slots and the log is as
tight as the reservation allows, so that every wait happens. `procs_wait`: the wakeup of init for the orphans it is given matters only if
the one that exits is not init's child, which takes four processes. `procs_pipe`: a
reader and a writer, and init to fork and kill; a write longer than the pipe is the only one that
sleeps half way, with bytes readers were not told of; the counters wrap after two fillings. No
program of `procs_pipe` waits: waiting and pipes share nothing but the sleep protocol, and `Syscalls`
says which of the two an instance has. `jobs_*`: two jobs let the table shift
under an index, and pipelines of two let one command stop, continue or exit without the other.
`devices`: three blocks over two buffers force recycling, and a pinned block leaves one buffer to fight for; two pinned blocks, or a pinned block and a process, or two processes leave none to
the next, so that the panic of `bget()` comes in each way; four descriptors
serve one request, so others wait for descriptors; six serve two, so that one may complete
while the other is handled (`Load` bounds the processes and blocks there, and nobody pins one). A buffer of two and indices that wrap at four let every index pass the
wrap with the buffer full, and ^D come after another byte. `subsystems`: 21 pages hold two processes of minimal
size and a part of a third, so `kalloc()` fails in fork, exec, sbrk and faults; 28 hold one whose new image fits beside its old one, so that
`exec()` succeeds; segments end in the middle of a page, and one below the end of the one before it. A disk of four blocks
is full before two files are, and a file that grows past one block needs its indirect block; two open files of one inode let one
read what the other wrote. Three inodes are two levels of directories and
a file; `NLINK_MAX` of two is reached by a directory with one subdirectory; three calls are a call that prepares (an open, a `chdir`) and two that
race. Lines of four characters hold a quote, an escape within it, and what
follows; lines of four tokens, two commands with an operator and a redirection or block. The lines of `sh` that run have every kind of node.
Symmetry is used in `log_crash`, over processes and blocks, in `procs_pipe`, over bytes, in `devices`, over processes, blocks and
contents, and in `subsystems`, over the processes of `Inodes`, which their properties do not distinguish; none of them is a liveness property. `CHECK_DEADLOCK FALSE`
appears in the `jobs_*` configurations, where the shell exits and then nothing more happens, in
`subsystems`, where calls are bounded and lines end, and in `procs_pipe`: programs may all read pipes that nobody but they could write, and sleep for ever.

### Fairness

- `Mlfq.FairSpec`: weak fairness of each hart's kernel steps (they never block: spinlocks
  are held briefly) and strong fairness of the timer interrupt (a hardware timer; the idle
  stretches in which it can miss the process are short). Nothing is assumed of the processes, which
  may spin for ever.
- `Log.FairSpec`: every kernel step is taken, every operation ends (system calls are finite), and
  a process that is repeatedly woken while there is space gets `log.lock` at some time (strong
  fairness of `BeginOp`, for a process already waiting). The spinlock of the code gives no order, so
  this is the weakest assumption under which any caller of a contended `begin_op()` returns.
  Nothing is assumed about new calls, writes, syncs or crashes.
- `PipeProcs.FairSpec`: every process that is inside the kernel, or killed, goes on when it can: the
  locks are held briefly, and the scheduler serves everybody as long as processes are as few as in
  `mlfq_up` (`mlfq_starves` shows where that ends). Nothing is assumed of programs.
- `JobControl` has no fairness: that a finished job is reported some day depends on the user entering a line (section 5), which nothing
  guarantees. What is checked is that the report is never dropped (`DoneIsPending`).

## 4. Proofs

The theorems hold for every value of the constants that the ASSUMEs of the modules admit: any number of processes, harts, blocks,
buffers, bytes and jobs, any size of a table or ring. What the ASSUMEs say beyond types: `Log`'s and the disk's processes, blocks and
buffers are finite sets (they are counted); the log holds at least one operation (`LOGBLOCKS >= MAXOPBLOCKS`, `K/param.h:10-11`) and
an operation writes fewer blocks than it reserves (`OpBlocks`, as `filewrite()` sees to, `K/file.c`); the width of a counter is a multiple of its
ring (2^32 and 512 or 128), larger than it; a driver has at least three descriptors
(it has eight); the UART's FIFO holds two characters at least (it holds 16), because `uartputc_sync()` and `uartstart()` each may put one. `Memory`
has a finite process table and memory enough for the first process, and its executables fit below the trapframe with a stack:
`kexec()` does not compare a segment's end with `TRAPFRAME`, and what keeps the code from mapping a page there is that 2^15 pages of memory
run out long before page 2^26 - 2. `Inodes` has finitely many processes and names (references and links are counted), each path is a
sequence of names and "..", perhaps after a "/", and a disk with a directory on it has an inode and a link for it. The
two hypotheses some theorems on job control have in addition are discussed there.

Each component has one inductive invariant (`IInv`; `ConsInv` for the console; `IInv`, `Exact` and
`Covered` for job control; `IInv`, `Policy` and `ArrivedBefore` for the scheduler; `MInv` for memory, `BInv` for blocks, `IInv` for inodes), one lemma per action or group of actions
for its preservation, and theorems that follow from it by temporal logic.
Before it was proved, each was an invariant of TLC runs at the bounds of section 3, except `ConsInv`, which quantifies over
all ways of laying out a line and has only been proved.

### Mlfq

| Theorem | Property |
|---|---|
| `TypeCorrect`, `OneCpuPerProcess`, `SleepersReachable`, `SlicesRespected` | `TypeOK`, `RunningOnOneCpu`, `SleeperIsReachable`, `SliceWithinQuantum` |
| `PriorityIsStrict`, `PreemptionAtTick`, `BoostIsTotal`, for `NCPU = 1` | `StrictPriority`, `PreemptedAtTick`, `BoostReachesAll` |
| `OnlyKillOvertakes`, for any `NCPU` | `TailUnlessKilled`: what `EntersAtTail` says of every step that is not a `kkill()` |

None of the four invariants is inductive alone. `IInv` adds three facts. `CandidateExists`: a hart about to lock its
candidate has one, otherwise `Dispatch` would run nobody. `ForkingIsPrivate`: the child a
`kfork()` is building is `USED` and has one parent; otherwise publishing it could make a process
`RUNNABLE` that runs somewhere. `IndexInLoop`: loops over the table start at slot 0; the boost loop
reaches the process of its own hart only if it starts below it, which is what keeps
`SliceWithinQuantum` over a boost. `LevelInChain` says at which queue the demotion chain starts and that it has no demotion from the lowest. The typing of `curr_queue` needs `RunningOnOneCpu` (the demotion
indexes the table by `proc[c]`), and `RunningOnOneCpu` needs `StillBest`'s second look at the state
under the lock: that is the point of `K/proc.c:571-573`.

`SliceWithinQuantum` says who may have a used-up slice: a process whose own hart has yet to act on it (`SliceUnderReview`: it counts the
tick, boosts, or is in the chain at its queue or above), or one that a boost is giving a fresh slice at
this moment (`BoostUnderWay`, between the writes of `K/trap.c:111` and `112`). It deserves its proof: the tick is counted by an
unlocked load and store, so a boost of another hart in between leaves the process in queue 0 with its old count plus one; the
tests read fields that the boost has half written; and the demotion overwrites what the boost wrote. None of this lets a process go on
with a used-up slice, because its own hart meets whatever count there is at the queue there is - the chain goes from
the highest queue down, and a boost moves the process up only - or resets it last.

The policy holds on one hart because nobody changes the table while the hart looks at it; `Policy` says of each loop
what it knows of the slots it has passed (`ScanIsExact`, `SweepIsExact`, `PreemptIsExact`) and of the trap that no boost is due once
`BoostDue` has said so (`TrapIsExact`). With two harts these action properties fail: another hart
may change a slot that was passed. `OnlyKillOvertakes` rests on `ArrivedBefore`: no arrival time is
in the future, although the boost shifts them all.

### Log

| Theorem | Property |
|---|---|
| `TypeCorrect` | `TypeOK` |
| `NeverPanics` | `NoPanic` |
| `WakeupsAreNotLost` | `NoLostWakeup` |
| `LogSound` | `LogIsSound` |
| `SyncDurable` | `SyncIsDurable` |
| `LogIsAtomic` | `Atomicity`, the refinement of `AtomicDisk` |

`IInv` (`LogInvariant`): `CommitIsExclusive` (one process commits, while no operation runs; `outstanding` counts the operations) makes the
commit's reads of memory stable; `LogHasRoom` (the log and what the operations admitted may still add fit) is
what `begin_op()` tests, and `Reserved` counts the second part exactly, so that absorption never hides an
overflow; `PinnedUntilInstalled` (a block has a pin exactly while it is logged and not installed, any other buffer is clean) is
why recycling a buffer loses nothing; `CommitPhases` and `RecoveryPhases` say how far the loops have got, block by block; from them the
disk after a crash (`Recovered`) is computed at every point. `DiskIsBehind` and `SyncIsCovered` serve `SyncDurable`: what a caller of `sync` saw is on the disk once it has
waited for the commits it counted. `BootIsQuiet`: nothing runs before recovery has ended.
The refinement: `Init` maps to `Init`; `WriteHead` is the abstract `Commit` if it writes a header that is not empty;
`BeginOp`, the write of a block and `EndOp` map to their namesakes; a crash maps to `Crash`, in recovery too; the rest, in particular each block
write of an installation or of recovery and each `Recycle`, is a stutter, because `Recovered` does not change.

### Process, Pipe and PipeProcs

| Theorem | Property |
|---|---|
| `TypeCorrect` | `TypeOK` |
| `ParentsReap` | `WaitIsWoken` |
| `PipeWakesUp` | `PipeIsWoken` |
| `EndsCounted` | `EndsAreCounted` |
| `PipeIsFifo` | `Fifo`, the refinement of `BoundedFifo` |

`IInv` (`ProcsInvariant`) has for the processes `InitLives`, `Dormant` (what an unused slot holds), `ForkingIsPrivate`, `NotOwnParent`, `SleepersChannel` (which channel a
sleeper at each label has) and `ParentsAreWoken`; for the pipe `UsersHoldEnds` (who is in `piperead()` or `pipewrite()`
holds the end), `EndCount` (references, plus the closer between dropping the last one and `pipeclose()`), `SleepersWait`
and `WithinCapacity` (the distance of the counters). `ParentsAreWoken` is where the code is delicate: `kexit()` wakes the parent before
it is a zombie, and the proof needs that the parent can look only under `wait_lock`. The ring is handled by arithmetic modulo its size under
counters modulo their width (`NumberProofs`), so the theorems cover the wrap of 32-bit counters, which no test reaches.

### VirtioDisk, BufferCache, Console and Devices

| Theorem | Property |
|---|---|
| `DevicesTypeCorrect` | `TypeOK` |
| `DevicesServeAll`, from `StoreServes` and the console's | `DevicesServe` |
| `DevicesLeakNothing`, from `CacheLeaksNothing` | `PanicsOnlyWhenFull` |
| `StoreSafe` | `StoreChecksHold`, of the cache by itself |
| `CacheCoherent`, `DevicesCoherent` | `CoherentBlocks`, the refinement of `BlockStore` |
| `ConsoleDisciplined`, `DevicesDisciplined` | `ReadsEnteredLines`, the refinement of `LineDiscipline` |

The cache and the driver share `IInv` of `DevicesProofs` (`StoreInvariant`). `Locking`, `OneBuffer`, `Referenced` (the count is the users and the pin) and `Listed` are
those of `bio.c`; `Chains` and `Pending` share out the descriptors and follow a request: at the device, or in the used ring once, or
done with `b->disk` clear; `Served`, `Clean` and `Validity` say when a buffer is what the disk holds. `WaitersForChains` is why whoever waits for
descriptors is woken: somebody holds a chain, and freeing it wakes all. `PanicsOnlyWhenFull` is
`Referenced` read backwards: a count above zero is somebody's. For the console, `InputInv` orders the three
indices and ties the ring to the lines of the abstract specification, `ReaderInv` and `WriterInv` say
what each sleeper waits for (a writer asleep in `uartwrite()` has bytes still in the chip, or their completion is announced, or somebody
is about to look), and `ChipInv` bounds what the chip holds while somebody is about to give it more. In both refinements each step maps to an abstract step or a stutter: a block changes hands in `acquiresleep()` and `releasesleep()`, wherever its
data is then; a line is entered, and bytes taken, where `w` and `r` move.

### JobControl

| Theorem | Property |
|---|---|
| `TypeCorrect` | `TypeOK` |
| `TerminalReturns` | `TerminalOwner` |
| `DoneHasNoProcess` | the first half of `DoneIsExact` |
| `DoneExact`, without helpers | `DoneIsExact` |
| `DonePending` | `DoneIsPending` |
| `LiveTracked`, without helpers and with `MaxLaunches <= MAXJOBS` | `LiveIsTracked` |

`IInv` (`JobsInvariant`): `Control` (which variables of `execute()` and `fg_job()` are set where), `Spawning` (the commands are forked from left to
right), `Numbers` (fewer entries than launches, one entry a pipeline) and `Lists` (an entry lists each command of its pipeline that is not
reaped, once). `Exact`: `fg_job()`'s count is the number of processes its entry lists, so that it ends
its wait when the last one is reaped; with a redirection helper this is false, and so is `LiveIsTracked` (run `jobs_helper`), hence the hypothesis
`~WithHelper`. `Covered`: what lives is being launched or has an entry; a full table drops jobs (section 5), hence the second hypothesis.
Both are what run `jobs_table` has.

### Memory

| Theorem | Property |
|---|---|
| `MemoryTypes` | `MemTypeOK`, the part of `TypeOK` that is `Memory`'s |
| `PagesConserved` | `PagesAreAccounted` |

Both are about `MemSpec`, the specification of `Memory` by itself. `MInv` (`MemoryInvariant`) has one part for each process and its system
call (`Consistent`), one for the child a `fork()` is building (`Forking`: it is `USED`, nobody else's, and mapped only as far as
`uvmcopy()` has got), and the count (`Accounted`). `Sound` says of an address space that its page tables lead to whatever it maps,
`Whole` that the trampoline and the trapframe are mapped, and `Below` that no user page is at a page number or above. The point of the proof is which
number that is at each moment: the size of a process at rest or in `fork()` and `exec()`, the page `uvmalloc()` is at while it grows
(`InGrow`; the size counts only when it has succeeded), and for the new image of `exec()` the page it is at, between the end of the
last segment and of this one (`InExec`). From that, `mappages()` never meets a mapped page, and each error path that frees "up to the size" frees everything:
`kexec()` passes the old `sz` if `uvmalloc()` fails, which has freed the rest itself, and the new one if `loadseg()` fails. The operators
are handled by lemmas that say how many pages each takes or gives (`MapPageFacts`, `AllocPageFacts`, `UnmapFacts`, `UvmallocFacts`,
`FreeSpaceFacts`, `ProcPagetableFacts`, `AllocProcFacts`), and `Recount` says that a step that changes what one process holds changes
the count by as much. With `FAN`, `MAXVA` and `PGSIZE` arbitrary the theorem covers page tables of 512 entries, address spaces of 2^26 pages and pages of 4096 bytes,
where a run has two, eight and two, and any number of pages at which memory may run out.

### Blocks

| Theorem | Property |
|---|---|
| `BlocksTyped` | `BlocksTypeOK`, the part of `TypeOK` that is `Blocks`' |
| `BlocksAlwaysHold` | `BlocksHold` |

Both are about `BlocksSpec`, for any number of clients, inodes, open files and blocks, any number of direct and indirect entries and
any block size. `BlocksHold` is not inductive. `BInv` (`BlocksInvariant`) says of the variables, taken as one record:
`Locks` (who is within an inode's lock, and on which file); `Mapped`, that the bitmap is `Kept` in the block map, each marked block in exactly one
place of one inode and no other number anywhere; `FileHeld`, that a file which is not being truncated has its blocks below its size; and of
each client how far it has got: a write has its blocks up to `tot` and stays in the bounds that `writei()` checked,
a truncation has emptied the direct entries before it frees the indirect block, whose entries below `tot` are freed and count no more (`Freed`). That is
why freeing one entry a step never leaves a block with two owners although the indirect block still names what is free.
`Touched` bounds what an operation has logged: the bitmap, the indirect block and the blocks its bytes lie in; `FitFollows` counts
them, which is the arithmetic of `K/file.c:153-158`: `MAXOPBLOCKS` leaves room for the blocks of a chunk, one more for
a chunk that is not aligned, the indirect block, the bitmap and the inode. `BmapFacts` says what `bmap()` does wherever `balloc()` fails in it,
and `RoundMapped` that a round of `writei()` changes no block that another file maps.

### Inodes

| Theorem | Property |
|---|---|
| `InodesTyped` | `InodesTypeOK`, the part of `TypeOK` that is `Inodes`' |
| `TheDiskIsConsistent` | `DiskIsConsistent` |
| `NobodyIsStuck` | `NobodyStuck` |

They are about `InodesSpec`, for any number of inodes and of links an inode may have, and any finite sets of processes and names. `IInv`
(`InodesInvariant`) is `Coherent` of what operations see, `SoundDisk` of what a crash goes back to, and that the active
processes are those within a call. The properties say what holds on the disk, when no operation is under way; the work is to say what
holds in between:

- *References.* `Holding` says of each point of each call which inodes the process has a reference to, five at most (its
  directory, its file, the inode it walks on, the other one, the one it puts), and `Slot` that `ref` counts them. A step hands
  references on (`OwnMove`), gets one or drops one, and the table moves with it.
- *Links.* `nlink` is the number of entries, ".." included, plus the links in transit (`Extra`): `sys_link()` counts the new name before it
  enters it, `sys_unlink()` removes the entry before it takes the link (`K/sysfile.c:123-183, 235-251`).
- *The tree.* `Tree` has a rank, by which each directory is further from the root than the one its ".." names: it
  excludes circles of directories apart from the root. A directory whose entry was removed has left the tree
  although it still has a link (`Cut`).
- *Who may be alone with an inode.* `Cared`: one without links is held in memory and valid, or new, or being freed by a process that
  nobody can disturb (`Alone`); or, before `ireclaim()` has come to it, left by a crash. `iput()` releases `itable.lock`
  while it truncates (`K/fs.c:353-375`), and what keeps everybody else away is that no entry leads there and nobody else has a
  reference.
- *What a process knows* (`Knows`) between two locks: that its directory is one, that the entry it looked up under a lock it
  still keeps is there, that a file it links is no directory.

`TheDiskIsConsistent` follows as no operation is under way when `image` is taken: then there is no link in transit, and
everything counted is an entry. For `NobodyStuck`: whoever holds an inode's lock and waits for another is in
`sys_unlink()`, at a child of the directory it holds (`HoldsAndWaits`; the new inode of `create()` is locked by nobody). So of the processes in
`sys_unlink()` at a lock that is held, the holder of what one waits for has a directory of greater rank, and a finite set of processes
has one of greatest rank (`Highest`, `SomebodyGoes`). That an inode about to be locked is not free is
`TargetReached` with `Slot`.

### Only model-checked

Liveness under fairness (`NoStarvation`, `BeginOpReturns`, `WaitReturns`, `CommandsEnd`): outside what
the prover supports. `ShParses` and `LinesAreRead`: they compare recursive functions over all lines up to a length, which needs
induction over data; `ShParses` is stated in `Sh`, whose operator `Leaves` is RECURSIVE besides. `Subsystems.TypeOK` is the conjunction
of the types of the components; `Subsystems` reaches `Leaves`, so what is proved of it is proved of `Memory`, `Blocks` and
`Inodes` by themselves (`MemTypeOK`, `BlocksTypeOK`, `InodesTypeOK`).

## 5. Where the code and its documents disagree

Three are recorded as runs that end in a violation:

- **Starvation** (`mlfq_starves`). `xv6/report.md:43` says of the boost "so nothing starves". The boost
  gives all processes one arrival time and ties go to the lowest slot (`K/proc.c:560-561`),
  so with more CPU-bound processes than ticks between boosts each period serves the low slots
  only. `mlfq_up` shows that the claim holds when the processes are few enough.
- **Who is killed asleep overtakes** (`mlfq_kill`). `problem_statement.html:301` has a process that gave up the CPU "inserted
  at the tail of the same queue" when it becomes runnable again. `kkill()` makes a sleeper runnable with the arrival time it had
  before it slept (`K/proc.c:785-788`), so it goes before those that queued meanwhile. `OnlyKillOvertakes` proves that this is the only way to.
- **A helper counts as a command** (`jobs_helper`). `problem_statement.html:254` has `resume fg`
  "wait for it to finish or stop again". `S/cmds_resume.c:102` counts down the commands for every
  reaped process of the group, redirection helpers too, so the wait may end one command early
  and the job is removed while that command runs.

Others were met with the same models; where a property is named, it says what to change to see it fail:

- A writer that is killed while it copies returns without the wakeup for the bytes it has already put
  (`K/pipe.c:84-87`): a reader that sleeps goes on sleeping with bytes in the pipe, until the next write
  or close. `PipeIsWoken` excepts exactly this case, with the history variable `cut`.
- `kkill(0)` finds the first slot that is not in use, whose `pid` is 0, and sets its `killed` (`K/proc.c:783-784`); `allocproc()` does not clear
  it, so the next process made there dies when it first enters the kernel. `Kill` of `Process` does so; `WaitReturns` and the
  invariants hold all the same.
- `kkill()` wakes a process that sleeps; one that has looked at `killed()` and not yet gone to
  sleep stays asleep until its channel is woken (`K/proc.c:777-790`).
- With two harts, a boost between the load and the store of `ticks_curr_slice++` leaves the process in queue 0
  with the count it had plus one (`K/trap.c:96, 228, 111-113`). That is at least the one tick of queue 0, so the process is demoted at
  once, as if it had used the slice the boost gave it.
- With two harts, a boost between the tests and the writes of a demotion is overwritten, and the
  process goes from queue 0 to queue 2 or 3 (`K/trap.c:120-133`). Only the place in the queues is affected, not `SliceWithinQuantum`.
- `EntersAtTail` is stated with "not earlier than": arrivals in the same tick are served by
  slot, not by order (`K/proc.c:560-561`).
- The alarm of `resume --timeout` that goes off after the last process was reaped but before it is
  cancelled keeps the entry of a job that has ended (`S/cmds_resume.c:88,127`; `DoneIsExact` without its
  `~timeouts`), and one that goes off after a stop was reported marks a stopped job as running.
- A full table drops a job silently, and `execute()` then marks the last entry, another job, as stopped
  (`S/jobs.c:10`, `S/exec.c:380`; `LiveIsTracked` with `MAXJOBS < MaxLaunches`).
- The state of a job is the last report of any of its processes (`S/main.c:58`): a pipeline with
  one process stopped and one continued counts as running, and end of input does
  not warn about it.
- The handler is installed with SA_RESTART (`S/main.c:128`), so `fgets()` goes on waiting and a job that ends meanwhile is reported only
  after the next line, if one comes. `problem_statement.html:224` (D2, requirement 10) wants the report
  as soon as the job ends. In the model the report is `PrcsCmpltJob`, at `top` and in `InputInterrupted`, and no step but the user's leaves `prompt`
  otherwise: a statement that every job that is done is reported has a behaviour that stays at `prompt` for ever as its
  counterexample.
- A pipeline that is stopped before a command has called `exec()`, or while a builtin runs in it, keeps that command's `exec_err` pipe open: the
  shell has seen the stop, and blocks in `read()` until somebody continues the command (`S/exec.c:351-359`; `StopFg` and `loading`).
- `errno` keeps the EINTR of a wait that a timer of `resume` ended, as `fgets()` at the end of the input does not set it: the shell takes the end of
  input for an interrupted read and prompts again (`S/main.c:152-156`; `InputInterrupted`).
- The cleanup of a failed launch waits without WUNTRACED (`S/exec.c:213`): a stopped process does
  not act on SIGTERM, and the shell waits until somebody continues it.

## 6. Not modelled, and why

Section 1 lists every component; `PROJECT.json` gives its status. Traps, dispatch, boot and printing are below or
beside the level of these models. The two other builds of `scheduler()` (FIFO, round robin), the nesting of `push_off()`, `snoop` and
the copying of `S/inp_redir.c` and `S/out_redir.c` are not modelled yet. `hop`, `reveal`, `peek`, `locate` and `spy` are sequential and keep no state to
speak of. `usertests.c`, `grind.c` and the other user programs, a third of the source, are callers of the kernel and read for how it
is used; `mkfs` gives the initial states.

In the modelled parts: the wrap of `ticks` after 2^31 ticks and the absolute values of `ncommit`; torn block writes;
what harts do after one of them has panicked; the contents of pages and their read and write permissions; file
descriptors shared by fork and dup other than a pipe's; the 50 slots of the inode table, whose exhaustion is a panic
(`K/fs.c:269`); `.` entries; several open files per process; the blocks that directory operations log (`BlocksHold` counts those of `write` and truncation); failures of `malloc` in the two parsers. The possibility that overlapping operations
keep the log from ever committing (`K/log.c:164`) is a property of group commit without a
bound, and nothing in the repository promises otherwise.

## 7. Plan

Done: `Mlfq`, `MlfqProofs`, `AtomicDisk`, `Log`, `JobControl`, `Process`, `Pipe`, `BoundedFifo`, `PipeProcs`, `VirtioDisk`, `BlockStore`,
`BufferCache`, `LineDiscipline`, `Console`, `Devices`, `Memory`, `Blocks`, `Inodes`, `CShellParser`, `Sh`, `Subsystems`. What is left of the code:
`snoop`'s table and the redirection helpers' copying, in that order.

Theorems: every safety property of the runs is proved except those named in section 4. What would come next is the
composition of `Inodes` with `Blocks` and `Log`, so that the atomic `image` of `Inodes` becomes the refinement that `LogProofs` has.
