------------------------------- MODULE Memory --------------------------------
(***************************************************************************)
(* Physical pages and address spaces: the allocator of kalloc.c, the page  *)
(* tables of vm.c, and what fork, exec, sbrk, page faults, exit and wait   *)
(* do with them, when memory may run out at any kalloc().                  *)
(*                                                                         *)
(* kalloc() and kfree() are atomic under kmem.lock; everything else works  *)
(* on a page table that only one process knows.  A step is one round of a  *)
(* loop over pages, so processes compete for memory page by page.  Pages   *)
(* are counted, not named: where a page is held is recorded, and a page    *)
(* leaked or freed twice shows in the count.                               *)
(*                                                                         *)
(* Sizes are in bytes with PGSIZE bytes a page; page tables have three     *)
(* levels of FAN entries.  The bounds are Machines, Sizes, Programs and    *)
(* MaxArgs.                                                                *)
(***************************************************************************)
EXTENDS Integers, Sequences, FiniteSets

CONSTANTS
    Tasks,       \* slots of the process table
    First,       \* initproc: it forks and waits and never ends
    Machines,    \* [phys, nproc]: pages between end and PHYSTOP, and NPROC
    FAN,         \* entries of a page table page (512)
    MAXVA,       \* pages of an address space (2^26: half of what the tables reach)
    PGSIZE,      \* bytes of a page (4096)
    USERSTACK,   \* pages of a user stack
    Sizes,       \* how far one sbrk() moves
    Programs,    \* executables: where each of their segments ends
    MaxArgs      \* arguments of exec()

TRAMPOLINE == MAXVA - 1      \* in pages, as the next
TRAPFRAME == MAXVA - 2

VARIABLES
    machine,     \* the member of Machines this is
    free,        \* pages on kmem.freelist
    task,        \* p->state, p->sz, p->trapframe and p->pagetable
    sys,         \* the system call a process is in, with its locals
    halted       \* panic() was called

memVars == <<machine, free, task, sys, halted>>

PagesOf(sz) == (sz + PGSIZE - 1) \div PGSIZE
-----------------------------------------------------------------------------
(* Page tables: which pages they are made of, what they map, and which of   *)
(* the mapped pages is closed to the user.                                  *)

Root == <<3, 0>>
TablesOf(va) == {<<2, va \div (FAN * FAN)>>, <<1, va \div FAN>>}

\* What the first process has: a page of program, the guard and the stack.
BootPages == 0..(USERSTACK + 1) \cup {TRAMPOLINE, TRAPFRAME}
BootTables == {Root} \cup UNION {TablesOf(va) : va \in BootPages}

\* There is memory for the first process; and a program fits below the
\* trapframe with its stack, for exec() does not look (the code has 2^15 pages
\* of memory below a trapframe at page 2^26 - 2: a larger one runs out first).
ASSUME MemoryAssumption ==
    /\ First \in Tasks /\ IsFiniteSet(Tasks)
    /\ FAN \in Nat \ {0, 1} /\ PGSIZE \in Nat \ {0}
    /\ MAXVA \in Nat /\ MAXVA <= FAN * FAN * FAN
    /\ USERSTACK \in Nat /\ USERSTACK + 2 <= TRAPFRAME
    /\ Machines \subseteq [phys : Nat, nproc : Nat \ {0}]
    /\ \A m \in Machines : Cardinality(BootTables) + USERSTACK + 3 <= m.phys
    /\ Sizes \subseteq Nat \ {0} /\ MaxArgs \in Nat
    /\ Programs \subseteq Seq(Nat) \ {<<>>}
    /\ \A program \in Programs : \A i \in DOMAIN program :
          PagesOf(program[i]) + USERSTACK + 1 <= TRAPFRAME

NoSpace == [tables |-> {}, mapped |-> {}, guard |-> {}]
Spaces == [tables : SUBSET ({Root} \cup UNION {TablesOf(va) : va \in 0..TRAMPOLINE}),
           mapped : SUBSET (0..TRAMPOLINE), guard : SUBSET (0..TRAMPOLINE)]

UserPages(s) == s.mapped \ {TRAMPOLINE, TRAPFRAME}

\* mappages() of one page, with the page table pages walk() allocates on the
\* way down from n free ones; those stay when the next one cannot be had.
MapPage(n, s, va) ==
    LET missing == TablesOf(va) \ s.tables
        got == IF Cardinality(missing) <= n THEN missing
               ELSE {t \in missing : n > 0 /\ t[1] = 2}
        ok == got = missing
    IN  [ok |-> ok, n |-> n - Cardinality(got),
         remap |-> va \in s.mapped,
         s |-> [s EXCEPT !.tables = @ \cup got,
                         !.mapped = IF ok THEN @ \cup {va} ELSE @]]

\* Mutant of AllocPage: a page that cannot be mapped is not given back.
AllocPageLeaks(n, s, va) ==
    IF n = 0 THEN [ok |-> FALSE, n |-> 0, remap |-> FALSE, s |-> s]
    ELSE MapPage(n - 1, s, va)

\* kalloc() a page and map it, or give it back.
AllocPage(n, s, va) ==
    IF n = 0 THEN [ok |-> FALSE, n |-> 0, remap |-> FALSE, s |-> s]
    ELSE LET m == MapPage(n - 1, s, va)
         IN  IF m.ok THEN m ELSE [m EXCEPT !.n = @ + 1]

\* uvmunmap() of the pages from..(to - 1), freeing what they held.
Unmap(n, s, from, to) ==
    LET gone == {va \in s.mapped : from <= va /\ va < to}
    IN  [n |-> n + Cardinality(gone),
         s |-> [s EXCEPT !.mapped = @ \ gone, !.guard = @ \ gone]]

\* One round of uvmalloc(), which began at from: if it fails, uvmdealloc()
\* takes back the rounds before.
Uvmalloc(n, s, from, va) ==
    LET m == AllocPage(n, s, va)
        u == Unmap(m.n, m.s, from, va)
    IN  IF m.ok THEN m ELSE [m EXCEPT !.n = u.n, !.s = u.s]

\* proc_freepagetable(): trampoline and trapframe are only unmapped, user
\* pages below sz freed, and freewalk() panics if it meets another.
FreeSpace(n, s, sz) ==
    LET u == Unmap(n, [s EXCEPT !.mapped = UserPages(s)], 0, PagesOf(sz))
    IN  [n |-> u.n + Cardinality(s.tables), leaf |-> u.s.mapped # {}]

\* proc_pagetable(): the root, then the two pages every address space has.
ProcPagetable(n) ==
    LET m1 == MapPage(n - 1, [NoSpace EXCEPT !.tables = {Root}], TRAMPOLINE)
        m2 == MapPage(m1.n, m1.s, TRAPFRAME)
        fail(m) == [ok |-> FALSE, n |-> FreeSpace(m.n, m.s, 0).n, s |-> NoSpace]
    IN  CASE n = 0 -> [ok |-> FALSE, n |-> n, s |-> NoSpace]
          [] n > 0 /\ ~m1.ok -> fail(m1)
          [] n > 0 /\ m1.ok /\ ~m2.ok -> fail(m2)
          [] OTHER -> [ok |-> TRUE, n |-> m2.n, s |-> m2.s]

\* allocproc(): a trapframe and an empty address space, or neither.
AllocProc(n) ==
    IF n = 0 THEN [ok |-> FALSE, n |-> 0, s |-> NoSpace]
    ELSE LET r == ProcPagetable(n - 1)
         IN  IF r.ok THEN r ELSE [r EXCEPT !.n = @ + 1]
-----------------------------------------------------------------------------
Unused == [state |-> "UNUSED", sz |-> 0, frame |-> FALSE, space |-> NoSpace]

InUser == [op |-> "user", at |-> 0, upto |-> 0, kid |-> First, argv |-> 0,
           segs |-> <<>>, image |-> NoSpace, sz |-> 0]

MemTypeOK ==
    /\ machine \in Machines /\ free \in 0..machine.phys
    /\ task \in [Tasks -> [state : {"UNUSED", "USED", "LIVE", "ZOMBIE"},
                           sz : 0..(TRAPFRAME * PGSIZE), frame : BOOLEAN, space : Spaces]]
    /\ \A p \in Tasks :
          /\ sys[p].op \in {"user", "fork", "grow", "args", "load", "stack"}
          /\ sys[p].at \in 0..TRAPFRAME /\ sys[p].upto \in 0..(TRAPFRAME * PGSIZE)
          /\ sys[p].kid \in Tasks /\ sys[p].argv \in 0..MaxArgs
          /\ sys[p].image \in Spaces /\ sys[p].sz \in 0..(TRAPFRAME * PGSIZE)
    /\ halted \in BOOLEAN

\* The first process runs a program of one segment; the rest is free.
MemInit ==
    /\ task = [p \in Tasks |->
                 IF p # First THEN Unused
                 ELSE [state |-> "LIVE", sz |-> (USERSTACK + 2) * PGSIZE, frame |-> TRUE,
                       space |-> [tables |-> BootTables, mapped |-> BootPages, guard |-> {1}]]]
    /\ machine \in Machines
    /\ free = machine.phys - Cardinality(BootTables) - (USERSTACK + 2) - 1
    /\ sys = [p \in Tasks |-> InUser]
    /\ halted = FALSE

In(p, op) == task[p].state = "LIVE" /\ sys[p].op = op /\ ~halted
Return(p) == sys' = [sys EXCEPT ![p] = InUser]
Panic(b) == halted' = (halted \/ b)
-----------------------------------------------------------------------------
(* fork(), wait() and exit()                                                *)

Fork(p, kid) ==
    LET r == AllocProc(free)
    IN  /\ In(p, "user") /\ task[kid].state = "UNUSED"
        /\ Cardinality({q \in Tasks : task[q].state # "UNUSED"}) < machine.nproc
        /\ free' = r.n
        /\ IF r.ok
           THEN /\ task' = [task EXCEPT ![kid] = [state |-> "USED", sz |-> 0,
                                                 frame |-> TRUE, space |-> r.s]]
                /\ sys' = [sys EXCEPT ![p].op = "fork", ![p].kid = kid]
           ELSE UNCHANGED <<task, sys>>
        /\ UNCHANGED halted

\* freeproc() of q, on n free pages
FreeProc(q, n, s) ==
    LET r == FreeSpace(n + (IF task[q].frame THEN 1 ELSE 0), s, task[q].sz)
    IN  /\ free' = r.n
        /\ Panic(r.leaf)
        /\ task' = [task EXCEPT ![q] = Unused]

\* uvmcopy(): pages the parent has not touched yet are passed over.
CopyPage(p) ==
    LET kid == sys[p].kid
        va == sys[p].at
        m == AllocPage(free, task[kid].space, va)
        u == Unmap(m.n, m.s, 0, va)
    IN  /\ In(p, "fork") /\ va < PagesOf(task[p].sz)
        /\ \/ /\ va \notin task[p].space.mapped
              /\ sys' = [sys EXCEPT ![p].at = @ + 1]
              /\ UNCHANGED <<free, task, halted>>
           \/ /\ va \in task[p].space.mapped /\ m.ok
              /\ task' = [task EXCEPT ![kid].space =
                            [m.s EXCEPT !.guard = @ \cup (task[p].space.guard \cap {va})]]
              /\ free' = m.n
              /\ sys' = [sys EXCEPT ![p].at = @ + 1]
              /\ Panic(m.remap)
           \/ /\ va \in task[p].space.mapped /\ ~m.ok
              /\ FreeProc(kid, u.n, u.s)
              /\ Return(p)

ForkEnd(p) ==
    /\ In(p, "fork") /\ sys[p].at >= PagesOf(task[p].sz)
    /\ task' = [task EXCEPT ![sys[p].kid].sz = task[p].sz,
                            ![sys[p].kid].state = "LIVE"]
    /\ Return(p)
    /\ UNCHANGED <<free, halted>>

TaskExit(p) ==
    /\ p # First /\ In(p, "user")
    /\ task' = [task EXCEPT ![p].state = "ZOMBIE"]
    /\ UNCHANGED <<free, sys, halted>>

\* A parent, or the first process, has waited for p.
ReapTask(p) ==
    /\ task[p].state = "ZOMBIE" /\ ~halted
    /\ FreeProc(p, free, task[p].space)
    /\ UNCHANGED sys
-----------------------------------------------------------------------------
(* sbrk() and page faults                                                   *)

Sbrk(p, n) ==
    /\ p # First /\ In(p, "user")
    /\ task[p].sz + n <= TRAPFRAME * PGSIZE
    /\ sys' = [sys EXCEPT ![p].op = "grow", ![p].at = PagesOf(task[p].sz),
                          ![p].upto = task[p].sz + n]
    /\ UNCHANGED <<free, task, halted>>

GrowPage(p) ==
    LET m == Uvmalloc(free, task[p].space, PagesOf(task[p].sz), sys[p].at)
    IN  /\ In(p, "grow") /\ sys[p].at * PGSIZE < sys[p].upto
        /\ free' = m.n
        /\ task' = [task EXCEPT ![p].space = m.s]
        /\ IF m.ok THEN sys' = [sys EXCEPT ![p].at = @ + 1] ELSE Return(p)
        /\ Panic(m.remap)

GrowEnd(p) ==
    /\ In(p, "grow") /\ sys[p].at * PGSIZE >= sys[p].upto
    /\ task' = [task EXCEPT ![p].sz = sys[p].upto]
    /\ Return(p)
    /\ UNCHANGED <<free, halted>>

\* sbrk() of a negative amount; more than the size wraps and changes nothing.
SbrkShrink(p, n) ==
    LET u == Unmap(free, task[p].space, PagesOf(task[p].sz - n), PagesOf(task[p].sz))
    IN  /\ p # First /\ In(p, "user") /\ n <= task[p].sz
        /\ free' = u.n
        /\ task' = [task EXCEPT ![p].sz = @ - n, ![p].space = u.s]
        /\ UNCHANGED <<sys, halted>>

\* Mutant of SbrkLazy: the size may run into the trapframe.
SbrkLazyAnywhere(p, n) ==
    /\ p # First /\ In(p, "user")
    /\ task' = [task EXCEPT ![p].sz = @ + n]
    /\ UNCHANGED <<free, sys, halted>>

SbrkLazy(p, n) ==
    /\ p # First /\ In(p, "user")
    /\ task[p].sz + n <= TRAPFRAME * PGSIZE
    /\ task' = [task EXCEPT ![p].sz = @ + n]
    /\ UNCHANGED <<free, sys, halted>>

\* An access, by the user or by copyin(), copyout() or copyinstr() for it, also
\* between the arguments of exec(), to an address the page table does not give
\* the user.
Faults(p, a) ==
    /\ p # First
    /\ In(p, "user") \/ In(p, "args")
    /\ a \div PGSIZE \notin task[p].space.mapped
          \ (task[p].space.guard \cup {TRAMPOLINE, TRAPFRAME})

\* vmfault() brings a page of sbrk(), or it cannot.
Vmfault(p, a) ==
    IF a >= task[p].sz \/ a \div PGSIZE \in task[p].space.mapped
    THEN [ok |-> FALSE, n |-> free, s |-> task[p].space, remap |-> FALSE]
    ELSE AllocPage(free, task[p].space, a \div PGSIZE)

\* usertrap() kills a process whose access fails; a system call returns -1.
PageFault(p, a) ==
    LET m == Vmfault(p, a)
    IN  /\ Faults(p, a)
        /\ free' = m.n
        /\ \/ task' = [task EXCEPT ![p].space = m.s]
           \/ /\ ~m.ok /\ In(p, "user")
              /\ task' = [task EXCEPT ![p].space = m.s, ![p].state = "ZOMBIE"]
        /\ Panic(m.remap)
        /\ UNCHANGED sys
-----------------------------------------------------------------------------
(* exec()                                                                   *)

ExecCall(p) ==
    /\ p # First /\ In(p, "user")
    /\ sys' = [sys EXCEPT ![p].op = "args"]
    /\ UNCHANGED <<free, task, halted>>

\* sys_exec() fails: the arguments read so far are freed.
ExecFails(p, n) ==
    /\ free' = n + sys[p].argv
    /\ Return(p)

\* A page for the next argument; fetchstr() may not find the string.
ExecArg(p) ==
    /\ In(p, "args") /\ sys[p].argv < MaxArgs
    /\ \/ /\ free > 0
          /\ free' = free - 1
          /\ sys' = [sys EXCEPT ![p].argv = @ + 1]
       \/ ExecFails(p, free)
    /\ UNCHANGED <<task, halted>>

\* kexec() opens the file, which may be no program, and makes an address space.
ExecOpen(p, program) ==
    LET r == ProcPagetable(free)
    IN  /\ In(p, "args")
        /\ \/ /\ r.ok
              /\ free' = r.n
              /\ sys' = [sys EXCEPT ![p].op = "load", ![p].image = r.s, ![p].at = 0,
                           ![p].upto = Head(program), ![p].segs = Tail(program)]
           \/ ~r.ok /\ ExecFails(p, r.n)
           \/ ExecFails(p, free)
        /\ UNCHANGED <<task, halted>>

\* kexec() fails: the new address space, of size sz so far, is freed too.
ImageFails(p, n, s) ==
    LET r == FreeSpace(n, s, sys[p].sz)
    IN  ExecFails(p, r.n) /\ Panic(r.leaf)

ImagePage(p) ==
    LET m == Uvmalloc(free, sys[p].image, PagesOf(sys[p].sz), sys[p].at)
    IN  /\ In(p, "load") \/ In(p, "stack")
        /\ sys[p].at * PGSIZE < sys[p].upto
        /\ \/ /\ m.ok
              /\ free' = m.n
              /\ sys' = [sys EXCEPT ![p].image = m.s, ![p].at = @ + 1]
              /\ Panic(m.remap)
           \/ ~m.ok /\ ImageFails(p, m.n, m.s)
        /\ UNCHANGED task

\* A segment is there: loadseg() reads it, and the next one, if it does not
\* end below, or the stack follows at the next page boundary.
SegmentEnd(p) ==
    LET size == sys[p].upto
        next == Head(sys[p].segs)
        boundary == PagesOf(size) * PGSIZE
    IN  /\ In(p, "load") /\ sys[p].at * PGSIZE >= size
        /\ \/ /\ sys[p].segs # <<>>
              /\ sys' = [sys EXCEPT ![p].sz = size, ![p].at = PagesOf(size),
                                    ![p].upto = IF next < size THEN size ELSE next,
                                    ![p].segs = Tail(@)]
              /\ UNCHANGED <<free, halted>>
           \/ /\ sys[p].segs = <<>>
              /\ sys' = [sys EXCEPT ![p].op = "stack", ![p].sz = boundary,
                                    ![p].at = PagesOf(size),
                                    ![p].upto = boundary + (USERSTACK + 1) * PGSIZE]
              /\ UNCHANGED <<free, halted>>
        /\ UNCHANGED task

\* A segment's header is bad; or the segment came short, or the arguments do
\* not fit on the stack, once its pages count.
ImageBad(p) ==
    /\ \/ In(p, "load") /\ sys[p].at = PagesOf(sys[p].sz) /\ ImageFails(p, free, sys[p].image)
       \/ /\ In(p, "load") \/ In(p, "stack")
          /\ sys[p].at * PGSIZE >= sys[p].upto
          /\ LET r == FreeSpace(free, sys[p].image, sys[p].upto)
             IN  ExecFails(p, r.n) /\ Panic(r.leaf)
    /\ UNCHANGED task

\* The guard page is closed, and the new image takes the place of the old.
ExecCommit(p) ==
    LET old == FreeSpace(free, task[p].space, task[p].sz)
        guard == sys[p].upto \div PGSIZE - (USERSTACK + 1)
    IN  /\ In(p, "stack") /\ sys[p].at * PGSIZE >= sys[p].upto
        /\ task' = [task EXCEPT ![p].sz = sys[p].upto,
                                ![p].space = [sys[p].image EXCEPT !.guard = {guard}]]
        /\ ExecFails(p, old.n)
        /\ Panic(old.leaf)
-----------------------------------------------------------------------------
Exec(p) ==
    \/ ExecCall(p) \/ ExecArg(p)
    \/ \E program \in Programs : ExecOpen(p, program)
    \/ ImagePage(p) \/ SegmentEnd(p) \/ ImageBad(p) \/ ExecCommit(p)

Grow(p) ==
    \/ \E n \in Sizes : Sbrk(p, n) \/ SbrkShrink(p, n) \/ SbrkLazy(p, n)
    \/ GrowPage(p) \/ GrowEnd(p)
    \/ \E a \in 0..(MAXVA * PGSIZE - 1) : PageFault(p, a)

MemNext ==
    /\ \E p \in Tasks :
          \/ \E kid \in Tasks : Fork(p, kid)
          \/ CopyPage(p) \/ ForkEnd(p) \/ TaskExit(p) \/ ReapTask(p)
          \/ Grow(p) \/ Exec(p)
    /\ UNCHANGED machine

MemSpec == MemInit /\ [][MemNext]_memVars
-----------------------------------------------------------------------------
\* What p holds, and the pages held as pairs of a process and a number.
Size(s) == Cardinality(s.tables) + Cardinality(UserPages(s))
Held(p) ==
    (IF task[p].frame THEN 1 ELSE 0) + Size(task[p].space) + Size(sys[p].image) + sys[p].argv
HeldPages == UNION {{p} \X (1..Held(p)) : p \in Tasks}

(* Every physical page is free or held in exactly one place, however many   *)
(* allocations failed on the way: none is leaked and none freed twice.  A   *)
(* process has nothing mapped above its size once its system call is over,  *)
(* which is why growing never maps a page twice and freewalk() finds no     *)
(* leaf when the address space goes, that is, why neither panics.           *)
PagesAreAccounted ==
    /\ ~halted
    /\ free + Cardinality(HeldPages) = machine.phys
    /\ \A p \in Tasks :
          /\ task[p].state # "UNUSED" => {TRAMPOLINE, TRAPFRAME} \subseteq task[p].space.mapped
          /\ In(p, "user") => \A va \in UserPages(task[p].space) : va < PagesOf(task[p].sz)
          /\ \A va \in task[p].space.mapped : TablesOf(va) \subseteq task[p].space.tables
=============================================================================
