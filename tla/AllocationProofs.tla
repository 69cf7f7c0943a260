-------------------------- MODULE AllocationProofs ---------------------------
(***************************************************************************)
(* What the xv6 kernel allocates, pages of memory and blocks of the disk,  *)
(* is neither lost nor shared.  No page is leaked or freed twice, and      *)
(* neither mappages() nor freewalk() panics, for every number of           *)
(* processes, every size of memory and of page table, and every program    *)
(* that fits.  The blocks of files are not changed behind a file's back    *)
(* either, and no request of a file panics, for every number of inodes,    *)
(* open files, clients, blocks and entries.  Each part has its own         *)
(* invariant; of the other's it uses none.                                 *)
(***************************************************************************)
EXTENDS Memory, Blocks, NumberProofs, FiniteSetTheorems, TLAPS

-----------------------------------------------------------------------------
(* The inductive invariant of memory *)

Top == TRAPFRAME * PGSIZE

\* An address space: its page tables lead to all it maps.
Sound(s) ==
    /\ s \in Spaces /\ IsFiniteSet(s.tables) /\ IsFiniteSet(s.mapped)
    /\ \A va \in s.mapped : TablesOf(va) \subseteq s.tables

\* Whole: with the two pages every process has.  Below: no user page at k or above.
Whole(s) == Sound(s) /\ {TRAMPOLINE, TRAPFRAME} \subseteq s.mapped
Below(s, k) == \A va \in UserPages(s) : va < k

Ops == {"user", "fork", "grow", "args", "load", "stack"}
Tasklike ==
    [state : {"UNUSED", "USED", "LIVE", "ZOMBIE"}, sz : 0..Top, frame : BOOLEAN, space : Spaces]
Syslike ==
    [op : Ops, at : 0..TRAPFRAME, upto : 0..Top, kid : Tasks, argv : 0..MaxArgs,
     segs : Seq(Nat), image : Spaces, sz : 0..Top]

MemType ==
    /\ machine \in Machines /\ free \in Nat
    /\ task \in [Tasks -> Tasklike] /\ sys \in [Tasks -> Syslike]

\* An entry in use has an address space, and one that is not has nothing.
\* Only in sbrk() may something be mapped at or above the size.
TaskSound(t, s) ==
    /\ Sound(t.space)
    /\ t.state = "UNUSED" => t = Unused
    /\ t.state # "UNUSED" => t.frame /\ Whole(t.space)
    /\ t.state = "USED" => t.sz = 0
    /\ t.state \in {"LIVE", "ZOMBIE"} /\ s.op # "grow" => Below(t.space, PagesOf(t.sz))

\* Where a process is in a system call.
InCall(t, s) ==
    /\ s.op # "user" => t.state = "LIVE"
    /\ s.op = "user" => s = InUser
    /\ s.op \in {"fork", "grow"} => s.argv = 0
    /\ s.op \in {"fork", "grow", "args"} => s.image = NoSpace /\ s.sz = 0
InGrow(t, s) == s.op = "grow" =>
    /\ t.sz <= s.upto
    /\ PagesOf(t.sz) <= s.at /\ s.at <= PagesOf(s.upto)
    /\ Below(t.space, s.at)
Fits(sz) == PagesOf(sz) + USERSTACK + 1 <= TRAPFRAME
InExec(s) == s.op \in {"load", "stack"} =>
    /\ Whole(s.image) /\ Below(s.image, s.at)
    /\ s.sz <= s.upto
    /\ PagesOf(s.sz) <= s.at /\ s.at <= PagesOf(s.upto)
    /\ s.op = "load" => Fits(s.upto) /\ \A i \in DOMAIN s.segs : Fits(s.segs[i])
    /\ s.op = "stack" =>
          \E k \in 0..TRAPFRAME : s.upto = (k + USERSTACK + 1) * PGSIZE /\ k + USERSTACK + 1 <= TRAPFRAME

Consistent(t, s) == TaskSound(t, s) /\ InCall(t, s) /\ InGrow(t, s) /\ InExec(s)

\* The child of a fork() belongs to its parent alone.
Forking(p) == sys[p].op = "fork" =>
    /\ task[sys[p].kid].state = "USED"
    /\ sys[p].at <= PagesOf(task[p].sz)
    /\ Below(task[sys[p].kid].space, sys[p].at)
    /\ \A q \in Tasks : sys[q].op = "fork" /\ sys[q].kid = sys[p].kid => p = q

Accounted == IsFiniteSet(HeldPages) /\ free + Cardinality(HeldPages) = machine.phys

MInv ==
    /\ MemType /\ Accounted /\ halted = FALSE
    /\ \A p \in Tasks : Consistent(task[p], sys[p]) /\ Forking(p)

-----------------------------------------------------------------------------
(* Sizes and pages *)

LEMMA MemConstants ==
  /\ First \in Tasks /\ IsFiniteSet(Tasks)
  /\ TRAPFRAME \in Nat /\ TRAMPOLINE \in Nat /\ TRAMPOLINE = TRAPFRAME + 1
  /\ PGSIZE \in Nat /\ PGSIZE > 0 /\ USERSTACK \in Nat /\ USERSTACK + 2 <= TRAPFRAME
  /\ MaxArgs \in Nat /\ Top \in Nat
  <1>1. FAN \in Nat /\ PGSIZE \in Nat /\ PGSIZE > 0 /\ USERSTACK \in Nat /\ USERSTACK + 2 <= TRAPFRAME
        /\ First \in Tasks /\ IsFiniteSet(Tasks) /\ MaxArgs \in Nat
    BY MemoryAssumption
  <1>2. MAXVA \in Nat
    BY MemoryAssumption
  <1>3. TRAPFRAME \in Nat /\ TRAMPOLINE = TRAPFRAME + 1
    BY <1>1, <1>2 DEF TRAPFRAME, TRAMPOLINE
  <1>4. Top \in Nat
    BY <1>1, <1>3 DEF Top
  <1> QED BY <1>1, <1>3, <1>4

LEMMA PagesNat == ASSUME NEW x \in Nat PROVE PagesOf(x) \in Nat
  <1>1. PGSIZE \in Nat /\ PGSIZE > 0
    BY MemConstants
  <1> QED BY <1>1 DEF PagesOf

\* As many pages as hold x bytes, and no more.
LEMMA PagesBound ==
  ASSUME NEW x \in Nat, NEW k \in Nat
  PROVE  x <= k * PGSIZE <=> PagesOf(x) <= k
  <1> DEFINE W == PGSIZE
  <1>1. W \in Nat \ {0}
    BY MemConstants
  <1> HIDE DEF W
  <1>2. PICK y \in Int : y = x + W - 1
    BY <1>1
  <1>2r. PICK d, r : d = y \div W /\ r = y % W
    OBVIOUS
  <1>2a. d \in Int /\ r \in 0 .. W - 1 /\ y = W * d + r
    BY <1>1, <1>2, <1>2r, Division
  <1>3. PagesOf(x) = d
    BY <1>2, <1>2r DEF PagesOf, W
  <1>4. x + W - 1 = W * d + r
    BY <1>2, <1>2r, <1>2a
  <1>5. CASE d <= k
    <2>1. W * d <= W * k
      BY <1>1, <1>2a, <1>5
    <2>2. W * k = k * PGSIZE
      BY <1>1 DEF W
    <2>3. W * k \in Int /\ W * d \in Int
      BY <1>1, <1>2a
    <2>4. x <= W * k
      BY <1>1, <1>2a, <1>4, <2>1, <2>3
    <2> QED BY <1>3, <1>5, <2>2, <2>4
  <1>6. CASE d >= k + 1
    <2>1. W * d >= W * (k + 1)
      BY <1>1, <1>2a, <1>6
    <2>2. W * (k + 1) = W * k + W /\ W * k = k * PGSIZE
      BY <1>1 DEF W
    <2>3. W * k \in Int /\ W * d \in Int
      BY <1>1, <1>2a
    <2>4. ~(x <= W * k)
      BY <1>1, <1>2a, <1>4, <2>1, <2>2, <2>3
    <2> QED BY <1>2a, <1>3, <1>6, <2>2, <2>4
  <1> QED BY <1>2a, <1>5, <1>6

LEMMA PagesMonotone ==
  ASSUME NEW x \in Nat, NEW y \in Nat, x <= y
  PROVE  PagesOf(x) <= PagesOf(y)
  <1>1. PGSIZE \in Nat /\ PagesOf(y) \in Nat /\ PagesOf(y) * PGSIZE \in Nat
    BY PagesNat, MemConstants
  <1>2. y <= PagesOf(y) * PGSIZE
    BY <1>1, PagesBound
  <1>3. x <= PagesOf(y) * PGSIZE
    BY <1>1, <1>2
  <1> QED BY <1>1, <1>3, PagesBound

LEMMA PagesOfPages == ASSUME NEW k \in Nat PROVE PagesOf(k * PGSIZE) = k
  <1>1. PGSIZE \in Nat /\ PGSIZE > 0 /\ k * PGSIZE \in Nat
    BY MemConstants
  <1>2. PagesOf(k * PGSIZE) \in Nat /\ PagesOf(k * PGSIZE) <= k
    BY <1>1, PagesNat, PagesBound
  <1>3. SUFFICES ASSUME PagesOf(k * PGSIZE) <= k - 1 PROVE FALSE
    BY <1>2
  <1>4. k - 1 \in Nat
    BY <1>2, <1>3
  <1>5. k * PGSIZE <= (k - 1) * PGSIZE
    BY <1>1, <1>3, <1>4, PagesBound
  <1>6. (k - 1) * PGSIZE = k * PGSIZE - PGSIZE
    BY <1>1
  <1> QED BY <1>1, <1>5, <1>6

LEMMA Quotient ==
  ASSUME NEW k \in Nat, NEW w \in Nat \ {0} PROVE (k * w) \div w = k
  <1>1. PICK y, d, r : y = k * w /\ d = y \div w /\ r = y % w
    OBVIOUS
  <1>2. y \in Int
    BY <1>1
  <1>3. d \in Int /\ r \in 0 .. w - 1 /\ y = w * d + r
    BY <1>1, <1>2, Division
  <1>4. (k - d) * w = r
    BY <1>1, <1>3
  <1>5. ~(k - d >= 1) /\ ~(k - d <= -1)
    BY <1>3, <1>4
  <1>6. k = d
    BY <1>3, <1>5
  <1> QED BY <1>1, <1>6

LEMMA PagesOfTop == ASSUME NEW x \in 0..Top PROVE PagesOf(x) \in 0..TRAPFRAME
  BY MemConstants, PagesNat, PagesBound DEF Top

\* An address below the size is in one of its pages.
LEMMA PageOfByte ==
  ASSUME NEW a \in Nat, NEW x \in Nat, a < x
  PROVE  a \div PGSIZE \in Nat /\ a \div PGSIZE < PagesOf(x)
  <1> DEFINE W == PGSIZE
  <1>1. W \in Nat \ {0}
    BY MemConstants
  <1> HIDE DEF W
  <1>2. PICK d, r : d = a \div W /\ r = a % W
    OBVIOUS
  <1>2a. d \in Int /\ r \in 0 .. W - 1 /\ a = W * d + r
    BY <1>1, <1>2, Division
  <1>2b. d \in Nat
    BY <1>1, <1>2a
  <1>3. PagesOf(x) \in Nat
    BY PagesNat
  <1>4. SUFFICES ASSUME PagesOf(x) <= d PROVE FALSE
    BY <1>2, <1>2b, <1>3 DEF W
  <1>5. x <= d * W
    BY <1>2b, <1>4, PagesBound DEF W
  <1>6. d * W = W * d /\ W * d \in Int
    BY <1>1, <1>2b
  <1> QED BY <1>2a, <1>5, <1>6

-----------------------------------------------------------------------------
(* Address spaces: every operator conserves the pages *)

AllTables == {Root} \cup UNION {TablesOf(va) : va \in 0..TRAMPOLINE}

\* A space, field by field.
LEMMA SpaceFields ==
  /\ \A s \in Spaces : /\ s = [tables |-> s.tables, mapped |-> s.mapped, guard |-> s.guard]
                       /\ s.tables \in SUBSET AllTables
                       /\ s.mapped \in SUBSET (0..TRAMPOLINE) /\ s.guard \in SUBSET (0..TRAMPOLINE)
  /\ \A t \in SUBSET AllTables, m, g \in SUBSET (0..TRAMPOLINE) :
        [tables |-> t, mapped |-> m, guard |-> g] \in Spaces
  BY DEF Spaces, AllTables

LEMMA SpaceRecord ==
  ASSUME NEW a, NEW b, NEW c, NEW s, s = [tables |-> a, mapped |-> b, guard |-> c]
  PROVE  /\ \A T : [s EXCEPT !.tables = T] = [tables |-> T, mapped |-> b, guard |-> c]
         /\ \A M : [s EXCEPT !.mapped = M] = [tables |-> a, mapped |-> M, guard |-> c]
         /\ \A G : [s EXCEPT !.guard = G] = [tables |-> a, mapped |-> b, guard |-> G]
  OBVIOUS

LEMMA ExceptTables ==
  ASSUME NEW s \in Spaces, NEW T, NEW M
  PROVE  [s EXCEPT !.tables = T, !.mapped = M] = [tables |-> T, mapped |-> M, guard |-> s.guard]
  <1>1. [s EXCEPT !.tables = T] = [tables |-> T, mapped |-> s.mapped, guard |-> s.guard]
    BY SpaceFields, SpaceRecord
  <1>2. [s EXCEPT !.tables = T, !.mapped = M] = [[s EXCEPT !.tables = T] EXCEPT !.mapped = M]
    OBVIOUS
  <1>3. [[tables |-> T, mapped |-> s.mapped, guard |-> s.guard] EXCEPT !.mapped = M]
          = [tables |-> T, mapped |-> M, guard |-> s.guard]
    BY SpaceRecord
  <1> QED BY <1>1, <1>2, <1>3

LEMMA ExceptMapped ==
  ASSUME NEW s \in Spaces, NEW M
  PROVE  [s EXCEPT !.mapped = M] = [tables |-> s.tables, mapped |-> M, guard |-> s.guard]
  BY SpaceFields, SpaceRecord

LEMMA ExceptGuard ==
  ASSUME NEW s \in Spaces, NEW G
  PROVE  [s EXCEPT !.guard = G] = [tables |-> s.tables, mapped |-> s.mapped, guard |-> G]
  BY SpaceFields, SpaceRecord

LEMMA ExceptBoth ==
  ASSUME NEW s \in Spaces, NEW M, NEW G
  PROVE  [s EXCEPT !.mapped = M, !.guard = G] = [tables |-> s.tables, mapped |-> M, guard |-> G]
  <1>1. [s EXCEPT !.mapped = M] = [tables |-> s.tables, mapped |-> M, guard |-> s.guard]
    BY ExceptMapped
  <1>2. [s EXCEPT !.mapped = M, !.guard = G] = [[s EXCEPT !.mapped = M] EXCEPT !.guard = G]
    OBVIOUS
  <1>3. [[tables |-> s.tables, mapped |-> M, guard |-> s.guard] EXCEPT !.guard = G]
          = [tables |-> s.tables, mapped |-> M, guard |-> G]
    BY SpaceRecord
  <1> QED BY <1>1, <1>2, <1>3

LEMMA SizeNat ==
  ASSUME NEW s, Sound(s)
  PROVE  /\ Cardinality(s.tables) \in Nat /\ IsFiniteSet(UserPages(s))
         /\ Cardinality(UserPages(s)) \in Nat /\ Size(s) \in Nat
  <1>1. IsFiniteSet(s.tables) /\ IsFiniteSet(s.mapped)
    BY DEF Sound
  <1>2. IsFiniteSet(UserPages(s))
    BY <1>1, FS_Difference DEF UserPages
  <1> QED BY <1>1, <1>2, FS_CardinalityType DEF Size

LEMMA NoSpaceSound == Sound(NoSpace) /\ UserPages(NoSpace) = {} /\ Size(NoSpace) = 0
  <1>1. NoSpace \in Spaces
    BY SpaceFields DEF NoSpace
  <1>2. NoSpace.tables = {} /\ NoSpace.mapped = {}
    BY DEF NoSpace
  <1>3. UserPages(NoSpace) = {}
    BY <1>2 DEF UserPages
  <1> QED BY <1>1, <1>2, <1>3, FS_EmptySet DEF Sound, Size

\* Disjoint sets count together.
LEMMA DisjointCount ==
  ASSUME NEW S, NEW T, IsFiniteSet(S), IsFiniteSet(T), S \cap T = {}
  PROVE  /\ IsFiniteSet(S \cup T) /\ Cardinality(S) \in Nat /\ Cardinality(T) \in Nat
         /\ Cardinality(S \cup T) = Cardinality(S) + Cardinality(T)
  <1>1. IsFiniteSet(S \cup T)
        /\ Cardinality(S \cup T) = Cardinality(S) + Cardinality(T) - Cardinality(S \cap T)
    BY FS_Union
  <1>2. Cardinality(S \cap T) = 0
    BY FS_EmptySet
  <1>3. Cardinality(S) \in Nat /\ Cardinality(T) \in Nat
    BY FS_CardinalityType
  <1> QED BY <1>1, <1>2, <1>3

\* The two page tables on the way to a page, of levels 2 and 1.
LEMMA TwoTables ==
  ASSUME NEW va
  PROVE  /\ IsFiniteSet(TablesOf(va))
         /\ \E a : {t \in TablesOf(va) : t[1] = 2} = {a}
         /\ Root \notin TablesOf(va)
  <1> DEFINE a == <<2, va \div (FAN * FAN)>>
             b == <<1, va \div FAN>>
  <1>1. TablesOf(va) = {a, b}
    BY DEF TablesOf
  <1>2. a[1] = 2 /\ b[1] = 1 /\ Root[1] = 3
    BY DEF Root
  <1> HIDE DEF a, b
  <1>3. IsFiniteSet({a} \cup {b})
    BY FS_Singleton, FS_Union
  <1>4. {a} \cup {b} = {a, b}
    OBVIOUS
  <1> QED BY <1>1, <1>2, <1>3, <1>4

\* What came of mapping va, with some page tables and with or without a page.
Maps(s, va, m) ==
    /\ m.n \in Nat /\ m.ok \in BOOLEAN
    /\ va \notin s.mapped => m.remap = FALSE
    /\ Sound(m.s) /\ m.s.guard = s.guard
    /\ m.ok => m.s.mapped = s.mapped \cup {va}
    /\ ~m.ok => m.s.mapped = s.mapped

LEMMA MapPageFacts ==
  ASSUME NEW n \in Nat, NEW s, Sound(s), NEW va \in 0..TRAMPOLINE, NEW m, m = MapPage(n, s, va)
  PROVE  Maps(s, va, m) /\ m.n + Cardinality(m.s.tables) = n + Cardinality(s.tables)
  <1> DEFINE missing == TablesOf(va) \ s.tables
             got == IF Cardinality(missing) <= n THEN missing
                    ELSE {t \in missing : n > 0 /\ t[1] = 2}
             ok == got = missing
             mapped == IF ok THEN s.mapped \cup {va} ELSE s.mapped
  <1>1. s \in Spaces /\ IsFiniteSet(s.tables) /\ IsFiniteSet(s.mapped)
        /\ \A x \in s.mapped : TablesOf(x) \subseteq s.tables
    BY DEF Sound
  <1>2. m = [ok |-> ok, n |-> n - Cardinality(got), remap |-> va \in s.mapped,
             s |-> [s EXCEPT !.tables = @ \cup got, !.mapped = mapped]]
    BY DEF MapPage
  <1>3. [s EXCEPT !.tables = @ \cup got, !.mapped = mapped]
          = [tables |-> s.tables \cup got, mapped |-> mapped, guard |-> s.guard]
    <2> HIDE DEF got, mapped
    <2> QED BY <1>1, ExceptTables
  <1>4. got \subseteq missing /\ missing \subseteq TablesOf(va) /\ got \cap s.tables = {}
    OBVIOUS
  <1>5. IsFiniteSet(TablesOf(va))
    BY TwoTables
  <1>6. IsFiniteSet(missing) /\ IsFiniteSet(got)
    <2>1. missing \in SUBSET TablesOf(va) /\ got \in SUBSET TablesOf(va)
      BY <1>4
    <2> QED BY <2>1, <1>5, FS_Subset
  <1>7. Cardinality(got) \in Nat /\ Cardinality(got) <= n
    <2>1. Cardinality(got) \in Nat /\ Cardinality(missing) \in Nat
      BY <1>6, FS_CardinalityType
    <2>2. CASE Cardinality(missing) <= n
      BY <2>1, <2>2
    <2>3. CASE ~(Cardinality(missing) <= n) /\ n = 0
      <3>1. got = {}
        BY <2>3
      <3> QED BY <3>1, <2>3, FS_EmptySet
    <2>4. CASE ~(Cardinality(missing) <= n) /\ n > 0
      <3>1. PICK a : {t \in TablesOf(va) : t[1] = 2} = {a}
        BY TwoTables
      <3>2. got \in SUBSET {a}
        BY <2>4, <3>1
      <3>3. IsFiniteSet({a}) /\ Cardinality({a}) = 1
        BY FS_Singleton
      <3>4. Cardinality(got) <= 1
        BY <3>2, <3>3, FS_Subset
      <3> QED BY <2>1, <2>4, <3>4
    <2> QED BY <2>2, <2>3, <2>4
  <1>8. IsFiniteSet(s.tables \cup got) /\ Cardinality(s.tables) \in Nat
        /\ Cardinality(s.tables \cup got) = Cardinality(s.tables) + Cardinality(got)
    BY <1>1, <1>4, <1>6, DisjointCount
  <1>9. ok => TablesOf(va) \subseteq s.tables \cup got
    OBVIOUS
  <1>10. got \in SUBSET AllTables
    BY <1>4 DEF AllTables
  <1>11. s.tables \cup got \in SUBSET AllTables /\ mapped \in SUBSET (0..TRAMPOLINE)
         /\ s.guard \in SUBSET (0..TRAMPOLINE)
    BY <1>1, <1>10, SpaceFields
  <1>12. IsFiniteSet(mapped)
    BY <1>1, FS_AddElement
  <1>13. \A x \in mapped : TablesOf(x) \subseteq s.tables \cup got
    BY <1>1, <1>9
  <1>14. /\ m.ok = ok /\ m.n = n - Cardinality(got) /\ m.remap = (va \in s.mapped)
         /\ m.s.tables = s.tables \cup got /\ m.s.mapped = mapped /\ m.s.guard = s.guard
         /\ m.s = [tables |-> s.tables \cup got, mapped |-> mapped, guard |-> s.guard]
    <2> HIDE DEF got, mapped, ok
    <2>1. m = [ok |-> ok, n |-> n - Cardinality(got), remap |-> va \in s.mapped,
               s |-> [tables |-> s.tables \cup got, mapped |-> mapped, guard |-> s.guard]]
      BY <1>2, <1>3
    <2> QED BY <2>1
  <1>15. mapped = IF ok THEN s.mapped \cup {va} ELSE s.mapped
    OBVIOUS
  <1>o. ok \in BOOLEAN
    OBVIOUS
  <1> HIDE DEF got, ok, mapped, missing
  <1>16. m.s \in Spaces
    BY <1>11, <1>14, SpaceFields
  <1>17. Sound(m.s)
    BY <1>8, <1>12, <1>13, <1>14, <1>16 DEF Sound
  <1>18. Maps(s, va, m)
    <2>1. m.n \in Nat
      BY <1>7, <1>14
    <2>2. ASSUME va \notin s.mapped PROVE m.remap = FALSE
      <3>1. m.remap = (va \in s.mapped)
        BY <1>14
      <3>2. (va \in s.mapped) = FALSE
        BY <2>2
      <3> QED BY <3>1, <3>2
    <2>3. m.ok \in BOOLEAN
      BY <1>o, <1>14, Zenon
    <2>4. /\ m.ok => m.s.mapped = s.mapped \cup {va}
          /\ ~m.ok => m.s.mapped = s.mapped
      BY <1>14, <1>15
    <2> QED BY <1>14, <1>17, <2>1, <2>2, <2>3, <2>4 DEF Maps
  <1> QED BY <1>18, <1>7, <1>8, <1>14

LEMMA TwoPages == TRAMPOLINE \notin 0..(TRAPFRAME - 1) /\ TRAPFRAME \notin 0..(TRAPFRAME - 1)
                  /\ 0..(TRAPFRAME - 1) \subseteq 0..TRAMPOLINE
                  /\ TRAMPOLINE \in 0..TRAMPOLINE /\ TRAPFRAME \in 0..TRAMPOLINE
  BY MemConstants

LEMMA AllocPageFacts ==
  ASSUME NEW n \in Nat, NEW s, Sound(s), NEW va \in 0..(TRAPFRAME - 1), va \notin s.mapped,
         NEW m, m = AllocPage(n, s, va)
  PROVE  Maps(s, va, m) /\ m.n + Size(m.s) = n + Size(s)
  <1>0. va \in 0..TRAMPOLINE /\ va # TRAMPOLINE /\ va # TRAPFRAME
    BY TwoPages
  <1>s. Size(s) \in Nat /\ Cardinality(s.tables) \in Nat /\ Cardinality(UserPages(s)) \in Nat
        /\ IsFiniteSet(UserPages(s))
    BY SizeNat
  <1>1. CASE n = 0
    <2>1. m = [ok |-> FALSE, n |-> 0, remap |-> FALSE, s |-> s]
      BY <1>1 DEF AllocPage
    <2>2. m.ok = FALSE /\ m.n = 0 /\ m.remap = FALSE /\ m.s = s
      BY <2>1
    <2> QED BY <2>2, <1>1, <1>s DEF Maps
  <1>2. CASE n > 0
    <2>0. PICK k \in Nat : k = n - 1
      BY <1>2
    <2>1. PICK c : c = MapPage(k, s, va)
      OBVIOUS
    <2>2. m = IF c.ok THEN c ELSE [c EXCEPT !.n = @ + 1]
      BY <1>2, <2>0, <2>1 DEF AllocPage
    <2>3. Maps(s, va, c) /\ c.n + Cardinality(c.s.tables) = k + Cardinality(s.tables)
      BY <1>0, <2>1, MapPageFacts
    <2>4. /\ c.n \in Nat /\ c.ok \in BOOLEAN /\ c.remap = FALSE
          /\ Sound(c.s) /\ c.s.guard = s.guard
          /\ c.ok => c.s.mapped = s.mapped \cup {va}
          /\ ~c.ok => c.s.mapped = s.mapped
      BY <2>3 DEF Maps
    <2>5. DOMAIN c = {"ok", "n", "remap", "s"}
      BY <2>1 DEF MapPage
    <2>6. Cardinality(c.s.tables) \in Nat /\ Cardinality(UserPages(c.s)) \in Nat
      BY <2>4, SizeNat
    <2>7. CASE c.ok
      <3>1. UserPages(c.s) = UserPages(s) \cup {va} /\ va \notin UserPages(s)
        BY <1>0, <2>4, <2>7 DEF UserPages
      <3>2. Cardinality(UserPages(c.s)) = Cardinality(UserPages(s)) + 1
        BY <3>1, <1>s, FS_AddElement
      <3>3. m = c
        BY <2>2, <2>7
      <3>4. c.n + Size(c.s) = n + Size(s)
        BY <1>s, <2>0, <2>3, <2>4, <2>6, <3>2 DEF Size
      <3> QED BY <2>3, <3>3, <3>4
    <2>8. CASE ~c.ok
      <3>1. m.ok = c.ok /\ m.remap = c.remap /\ m.s = c.s /\ m.n = c.n + 1
        BY <2>2, <2>5, <2>8
      <3>2. UserPages(c.s) = UserPages(s)
        BY <2>4, <2>8 DEF UserPages
      <3>3. c.n + 1 + Size(c.s) = n + Size(s) /\ c.n + 1 \in Nat
        BY <1>s, <2>0, <2>3, <2>4, <2>6, <3>2 DEF Size
      <3> QED BY <2>4, <2>8, <3>1, <3>3 DEF Maps
    <2> QED BY <2>7, <2>8
  <1> QED BY <1>1, <1>2

Unmaps(s, from, to, u) ==
    /\ u.n \in Nat /\ Sound(u.s) /\ u.s.tables = s.tables
    /\ u.s.mapped = s.mapped \ {va \in s.mapped : from <= va /\ va < to}

LEMMA UnmapFacts ==
  ASSUME NEW n \in Nat, NEW s, Sound(s), NEW from \in Nat, NEW to \in 0..TRAPFRAME,
         NEW u, u = Unmap(n, s, from, to)
  PROVE  Unmaps(s, from, to, u) /\ u.n + Size(u.s) = n + Size(s)
  <1> DEFINE gone == {va \in s.mapped : from <= va /\ va < to}
  <1>1. s \in Spaces /\ IsFiniteSet(s.tables) /\ IsFiniteSet(s.mapped)
        /\ \A x \in s.mapped : TablesOf(x) \subseteq s.tables
    BY DEF Sound
  <1>2. s.mapped \in SUBSET (0..TRAMPOLINE) /\ s.tables \in SUBSET AllTables
        /\ s.guard \in SUBSET (0..TRAMPOLINE)
    BY <1>1, SpaceFields
  <1>3. gone \in SUBSET s.mapped /\ gone \in SUBSET UserPages(s)
    BY MemConstants DEF UserPages
  <1>4. s.mapped \ gone \in SUBSET (0..TRAMPOLINE) /\ s.guard \ gone \in SUBSET (0..TRAMPOLINE)
    BY <1>2
  <1>5. u = [n |-> n + Cardinality(gone), s |-> [s EXCEPT !.mapped = @ \ gone, !.guard = @ \ gone]]
    BY DEF Unmap
  <1>6. u.s.mapped = s.mapped \ {va \in s.mapped : from <= va /\ va < to}
        /\ u.s.tables = s.tables /\ u.n = n + Cardinality(gone)
        /\ u.s = [tables |-> s.tables, mapped |-> s.mapped \ gone, guard |-> s.guard \ gone]
    <2>1. gone = {va \in s.mapped : from <= va /\ va < to}
      OBVIOUS
    <2> HIDE DEF gone
    <2>2. [s EXCEPT !.mapped = @ \ gone, !.guard = @ \ gone]
            = [tables |-> s.tables, mapped |-> s.mapped \ gone, guard |-> s.guard \ gone]
      <3>1. PICK M, G : M = s.mapped \ gone /\ G = s.guard \ gone
        OBVIOUS
      <3>2. [s EXCEPT !.mapped = M, !.guard = G] = [tables |-> s.tables, mapped |-> M, guard |-> G]
        BY <1>1, ExceptBoth
      <3> QED BY <3>1, <3>2
    <2>3. u = [n |-> n + Cardinality(gone),
               s |-> [tables |-> s.tables, mapped |-> s.mapped \ gone, guard |-> s.guard \ gone]]
      BY <1>5, <2>2
    <2> QED BY <2>1, <2>3
  <1> HIDE DEF gone
  <1>7. IsFiniteSet(s.mapped \ gone) /\ IsFiniteSet(gone)
    BY <1>1, <1>3, FS_Difference, FS_Subset
  <1>8. u.s \in Spaces
    BY <1>2, <1>4, <1>6, SpaceFields
  <1>9. Sound(u.s)
    <2>1. \A x \in u.s.mapped : TablesOf(x) \subseteq u.s.tables
      BY <1>1, <1>6
    <2>2. u.s.tables = s.tables /\ u.s.mapped = s.mapped \ gone
      BY <1>6
    <2> QED BY <1>1, <1>7, <1>8, <2>1, <2>2 DEF Sound
  <1>10. UserPages(s) = UserPages(u.s) \cup gone /\ UserPages(u.s) \cap gone = {}
    BY <1>3, <1>6 DEF UserPages
  <1>11. Cardinality(UserPages(s)) = Cardinality(UserPages(u.s)) + Cardinality(gone)
         /\ Cardinality(gone) \in Nat /\ Cardinality(UserPages(u.s)) \in Nat
    BY <1>7, <1>9, <1>10, SizeNat, DisjointCount
  <1>12. Cardinality(s.tables) \in Nat
    BY SizeNat
  <1>13. Unmaps(s, from, to, u)
    BY <1>6, <1>9, <1>11 DEF Unmaps
  <1> QED BY <1>6, <1>11, <1>12, <1>13 DEF Size

Grows(s, from, va, m) ==
    /\ m.n \in Nat /\ m.ok \in BOOLEAN /\ m.remap = FALSE /\ Sound(m.s)
    /\ m.ok => Below(m.s, va + 1)
    /\ ~m.ok => Below(m.s, from)
    /\ Whole(s) => Whole(m.s)

LEMMA UvmallocFacts ==
  ASSUME NEW n \in Nat, NEW s, Sound(s), NEW from \in Nat, NEW va \in 0..(TRAPFRAME - 1),
         from <= va, Below(s, va), NEW m, m = Uvmalloc(n, s, from, va)
  PROVE  Grows(s, from, va, m) /\ m.n + Size(m.s) = n + Size(s)
  <1>1. va \notin s.mapped
    BY TwoPages DEF Below, UserPages
  <1>2. s \in Spaces /\ s.mapped \in SUBSET (0..TRAMPOLINE)
    BY SpaceFields DEF Sound
  <1>3. PICK c : c = AllocPage(n, s, va)
    OBVIOUS
  <1>4a. Maps(s, va, c) /\ c.n + Size(c.s) = n + Size(s)
    BY <1>1, <1>3, AllocPageFacts
  <1>4. /\ c.n \in Nat /\ c.ok \in BOOLEAN /\ c.remap = FALSE
        /\ Sound(c.s) /\ c.s.guard = s.guard
        /\ c.ok => c.s.mapped = s.mapped \cup {va}
        /\ ~c.ok => c.s.mapped = s.mapped
    BY <1>1, <1>4a DEF Maps
  <1>5. PICK u : u = Unmap(c.n, c.s, from, va)
    OBVIOUS
  <1>6a. Unmaps(c.s, from, va, u) /\ u.n + Size(u.s) = c.n + Size(c.s)
    <2>1. va \in 0..TRAPFRAME
      BY MemConstants
    <2> QED BY <1>4, <1>5, <2>1, UnmapFacts
  <1>6. /\ u.n \in Nat /\ Sound(u.s)
        /\ u.s.mapped = c.s.mapped \ {x \in c.s.mapped : from <= x /\ x < va}
    BY <1>6a DEF Unmaps
  <1>7. m = IF c.ok THEN c ELSE [c EXCEPT !.n = u.n, !.s = u.s]
    BY <1>3, <1>5 DEF Uvmalloc
  <1>8. DOMAIN c = {"ok", "n", "remap", "s"}
    BY <1>3 DEF AllocPage, MapPage
  <1>9. CASE c.ok
    <2>1. Below(c.s, va + 1)
      BY <1>2, <1>4, <1>9 DEF Below, UserPages
    <2>2. m = c
      BY <1>7, <1>9
    <2>3. Whole(s) => Whole(c.s)
      BY <1>4, <1>9 DEF Whole
    <2>4. Grows(s, from, va, c)
      BY <1>4, <1>9, <2>1, <2>3 DEF Grows
    <2> QED BY <1>4a, <2>2, <2>4
  <1>10. CASE ~c.ok
    <2>1. m.n = u.n /\ m.s = u.s /\ m.ok = c.ok /\ m.remap = c.remap
      BY <1>7, <1>8, <1>10
    <2>2. c.s.mapped = s.mapped
      BY <1>4, <1>10
    <2>3. Below(u.s, from) /\ u.s.mapped \subseteq s.mapped
      BY <1>2, <1>6, <2>2 DEF Below, UserPages
    <2>4. Whole(s) => Whole(u.s)
      BY <1>6, <2>2, MemConstants DEF Whole
    <2>5. m.n + Size(m.s) = n + Size(s)
      BY <1>4a, <1>6a, <2>1
    <2>6. Grows(s, from, va, m)
      BY <1>4, <1>6, <1>10, <2>1, <2>3, <2>4 DEF Grows
    <2> QED BY <2>5, <2>6
  <1> QED BY <1>9, <1>10

LEMMA FreeSpaceFacts ==
  ASSUME NEW n \in Nat, NEW s, Sound(s), NEW sz \in 0..Top, Below(s, PagesOf(sz)),
         NEW r, r = FreeSpace(n, s, sz)
  PROVE  r.n \in Nat /\ r.n = n + Size(s) /\ r.leaf = FALSE
  <1>1. s \in Spaces /\ IsFiniteSet(s.tables) /\ IsFiniteSet(s.mapped)
        /\ \A x \in s.mapped : TablesOf(x) \subseteq s.tables
    BY DEF Sound
  <1>2. /\ s.tables \in SUBSET AllTables /\ s.mapped \in SUBSET (0..TRAMPOLINE)
        /\ s.guard \in SUBSET (0..TRAMPOLINE)
    BY <1>1, SpaceFields
  <1>3. PICK c : c = [tables |-> s.tables, mapped |-> UserPages(s), guard |-> s.guard]
    OBVIOUS
  <1>4. [s EXCEPT !.mapped = UserPages(s)] = c
    BY <1>1, <1>3, ExceptMapped
  <1>5. c.tables = s.tables /\ c.mapped = UserPages(s) /\ UserPages(s) \subseteq s.mapped
    BY <1>3 DEF UserPages
  <1>6. UserPages(c) = UserPages(s) /\ Size(c) = Size(s)
    <2>1. UserPages(c) = UserPages(s)
      BY <1>5 DEF UserPages
    <2> QED BY <2>1, <1>5 DEF Size
  <1>7. Sound(c)
    <2>1. UserPages(s) \in SUBSET (0..TRAMPOLINE)
      BY <1>2, <1>5
    <2>2. c \in Spaces
      BY <1>2, <1>3, <2>1, SpaceFields
    <2>3. IsFiniteSet(UserPages(s))
      BY SizeNat
    <2> QED BY <1>1, <1>5, <2>2, <2>3 DEF Sound
  <1>8. PagesOf(sz) \in 0..TRAPFRAME /\ 0 \in Nat
    BY PagesOfTop
  <1>9. PICK k : k = PagesOf(sz)
    OBVIOUS
  <1>10. PICK u : u = Unmap(n, c, 0, k)
    OBVIOUS
  <1>11. Unmaps(c, 0, k, u) /\ u.n + Size(u.s) = n + Size(c)
    BY <1>7, <1>8, <1>9, <1>10, UnmapFacts
  <1>12. u.n \in Nat /\ Sound(u.s) /\ u.s.tables = c.tables
         /\ u.s.mapped = c.mapped \ {va \in c.mapped : 0 <= va /\ va < k}
    BY <1>11 DEF Unmaps
  <1>13. u.s.mapped = {}
    BY <1>2, <1>5, <1>9, <1>12 DEF Below
  <1>14. Size(u.s) = Cardinality(s.tables) /\ Cardinality(s.tables) \in Nat
    <2>1. UserPages(u.s) = {}
      BY <1>13 DEF UserPages
    <2> QED BY <2>1, <1>5, <1>12, SizeNat, FS_EmptySet DEF Size
  <1>15. r = [n |-> u.n + Cardinality(s.tables), leaf |-> u.s.mapped # {}]
    BY <1>4, <1>9, <1>10 DEF FreeSpace
  <1>16. r.leaf = FALSE /\ r.n = u.n + Cardinality(s.tables)
    <2>1. (u.s.mapped # {}) = FALSE
      BY <1>13
    <2>2. r = [n |-> u.n + Cardinality(s.tables), leaf |-> FALSE]
      BY <1>15, <2>1
    <2> QED BY <2>2
  <1> QED BY <1>6, <1>11, <1>12, <1>14, <1>16

\* An address space as it begins.
Fresh(r) ==
    /\ r.ok \in BOOLEAN /\ r.n \in Nat
    /\ r.ok => Whole(r.s) /\ UserPages(r.s) = {}

LEMMA ProcPagetableFacts ==
  ASSUME NEW n \in Nat, NEW r, r = ProcPagetable(n)
  PROVE  Fresh(r) /\ IF r.ok THEN r.n + Size(r.s) = n ELSE r.n = n
  <1> DEFINE fail(m) == [ok |-> FALSE, n |-> FreeSpace(m.n, m.s, 0).n, s |-> NoSpace]
  <1>1. CASE n = 0
    <2>1. r = [ok |-> FALSE, n |-> n, s |-> NoSpace]
      BY <1>1 DEF ProcPagetable
    <2> QED BY <2>1 DEF Fresh
  <1>2. CASE n > 0
    <2>1. PICK k \in Nat : k = n - 1
      BY <1>2
    <2>2. PICK s : s = [tables |-> {Root}, mapped |-> {}, guard |-> {}]
      OBVIOUS
    <2>3. [NoSpace EXCEPT !.tables = {Root}] = s
      BY <2>2, SpaceRecord DEF NoSpace
    <2>4. s.tables = {Root} /\ s.mapped = {} /\ UserPages(s) = {}
      BY <2>2 DEF UserPages
    <2>5. Sound(s) /\ Size(s) = 1 /\ Cardinality(s.tables) = 1
      <3>1. {Root} \in SUBSET AllTables
        BY DEF AllTables
      <3>2. s \in Spaces
        BY <2>2, <3>1, SpaceFields
      <3>3. Sound(s)
        <4>0. IsFiniteSet({Root}) /\ IsFiniteSet({})
          BY ONLY FS_Singleton, FS_EmptySet
        <4>1. IsFiniteSet(s.tables) /\ IsFiniteSet(s.mapped)
          BY <2>4, <4>0
        <4>2. \A va \in s.mapped : TablesOf(va) \subseteq s.tables
          BY <2>4
        <4> QED BY ONLY <3>2, <4>1, <4>2 DEF Sound
      <3>4. Cardinality(s.tables) = 1 /\ Cardinality(UserPages(s)) = 0
        BY <2>4, FS_Singleton, FS_EmptySet
      <3> QED BY <3>3, <3>4 DEF Size
    <2>6. PICK m1 : m1 = MapPage(k, s, TRAMPOLINE)
      OBVIOUS
    <2>7. Maps(s, TRAMPOLINE, m1) /\ m1.n + Cardinality(m1.s.tables) = k + Cardinality(s.tables)
      <3>1. TRAMPOLINE \in 0..TRAMPOLINE /\ k \in Nat
        BY TwoPages
      <3> QED BY ONLY <2>5, <2>6, <3>1, MapPageFacts
    <2>8. /\ m1.n \in Nat /\ m1.ok \in BOOLEAN /\ Sound(m1.s)
          /\ m1.ok => m1.s.mapped = {TRAMPOLINE}
          /\ ~m1.ok => m1.s.mapped = {}
      BY <2>4, <2>7 DEF Maps
    <2>9. PICK m2 : m2 = MapPage(m1.n, m1.s, TRAPFRAME)
      OBVIOUS
    <2>10. Maps(m1.s, TRAPFRAME, m2) /\ m2.n + Cardinality(m2.s.tables) = m1.n + Cardinality(m1.s.tables)
      BY <2>8, <2>9, TwoPages, MapPageFacts
    <2>11. /\ m2.n \in Nat /\ m2.ok \in BOOLEAN /\ Sound(m2.s)
           /\ m1.ok /\ m2.ok => m2.s.mapped = {TRAMPOLINE, TRAPFRAME}
           /\ m1.ok /\ ~m2.ok => m2.s.mapped = {TRAMPOLINE}
      BY <2>8, <2>10 DEF Maps
    <2>12. r = CASE n = 0 -> [ok |-> FALSE, n |-> n, s |-> NoSpace]
                 [] n > 0 /\ ~m1.ok -> fail(m1)
                 [] n > 0 /\ m1.ok /\ ~m2.ok -> fail(m2)
                 [] OTHER -> [ok |-> TRUE, n |-> m2.n, s |-> m2.s]
      BY <2>1, <2>3, <2>6, <2>9 DEF ProcPagetable
    <2>13. ASSUME NEW m, m.n \in Nat, Sound(m.s), UserPages(m.s) = {},
                  m.n + Cardinality(m.s.tables) = n
           PROVE  Fresh(fail(m)) /\ fail(m).n = n /\ fail(m).ok = FALSE
      <3>1. PICK z \in 0..Top : z = 0
        BY MemConstants
      <3>2a. PICK k1 \in Nat : k1 = m.n
        BY <2>13
      <3>2ar. PICK s1 : s1 = m.s
        OBVIOUS
      <3>2b. PICK f : f = FreeSpace(k1, s1, z)
        OBVIOUS
      <3>2. f = FreeSpace(m.n, m.s, z)
        BY <3>2a, <3>2ar, <3>2b
      <3>3. f.n \in Nat /\ f.n = m.n + Size(m.s)
        <4>1. /\ Sound(s1) /\ Below(s1, PagesOf(z)) /\ f = FreeSpace(k1, s1, z)
              /\ k1 \in Nat /\ z \in 0..Top
          BY <2>13, <3>2a, <3>2ar, <3>2b DEF Below
        <4>2. f.n \in Nat /\ f.n = k1 + Size(s1) /\ f.leaf = FALSE
          BY ONLY <4>1, FreeSpaceFacts
        <4> QED BY <3>2a, <3>2ar, <4>2
      <3>4. Size(m.s) = Cardinality(m.s.tables)
        BY <2>13, FS_EmptySet, SizeNat DEF Size
      <3>5. f.n = n
        BY <2>13, <3>3, <3>4
      <3>6. fail(m) = [ok |-> FALSE, n |-> f.n, s |-> NoSpace]
        BY <3>1, <3>2
      <3> QED BY <3>3, <3>5, <3>6 DEF Fresh
    <2> HIDE DEF fail
    <2>14. m1.n + Cardinality(m1.s.tables) = n /\ m2.n + Cardinality(m2.s.tables) = n
      BY <2>1, <2>5, <2>7, <2>10
    <2>15. CASE ~m1.ok
      <3>1. UserPages(m1.s) = {}
        BY <2>8, <2>15 DEF UserPages
      <3>2. r = fail(m1)
        BY <1>2, <2>12, <2>15
      <3> QED BY <2>8, <2>13, <2>14, <3>1, <3>2
    <2>16. CASE m1.ok /\ ~m2.ok
      <3>1. UserPages(m2.s) = {}
        BY <2>11, <2>16 DEF UserPages
      <3>2. r = fail(m2)
        BY <1>2, <2>12, <2>16
      <3> QED BY <2>11, <2>13, <2>14, <3>1, <3>2
    <2>17. CASE m1.ok /\ m2.ok
      <3>1. UserPages(m2.s) = {} /\ Whole(m2.s)
        BY <2>11, <2>17 DEF UserPages, Whole
      <3>2. r = [ok |-> TRUE, n |-> m2.n, s |-> m2.s]
        BY <1>2, <2>12, <2>17
      <3>3. Size(m2.s) = Cardinality(m2.s.tables)
        BY <2>11, <3>1, FS_EmptySet, SizeNat DEF Size
      <3> QED BY <2>11, <2>14, <3>1, <3>2, <3>3 DEF Fresh
    <2> QED BY <2>8, <2>11, <2>15, <2>16, <2>17
  <1> QED BY <1>1, <1>2

LEMMA AllocProcFacts ==
  ASSUME NEW n \in Nat, NEW r, r = AllocProc(n)
  PROVE  Fresh(r) /\ IF r.ok THEN r.n + Size(r.s) + 1 = n ELSE r.n = n
  <1>1. CASE n = 0
    <2>1. r = [ok |-> FALSE, n |-> 0, s |-> NoSpace]
      BY <1>1 DEF AllocProc
    <2>2. r.ok = FALSE /\ r.n = 0
      BY <2>1
    <2> QED BY <1>1, <2>2 DEF Fresh
  <1>2. CASE n > 0
    <2>1. PICK k \in Nat : k = n - 1
      BY <1>2
    <2>2. PICK c : c = ProcPagetable(k)
      OBVIOUS
    <2>3. Fresh(c) /\ IF c.ok THEN c.n + Size(c.s) = k ELSE c.n = k
      BY <2>2, ProcPagetableFacts
    <2>4. r = IF c.ok THEN c ELSE [c EXCEPT !.n = @ + 1]
      BY <1>2, <2>1, <2>2 DEF AllocProc
    <2>5. CASE c.ok
      <3>1. r = c /\ Size(c.s) \in Nat /\ c.n \in Nat
        BY <2>3, <2>4, <2>5, SizeNat DEF Fresh, Whole
      <3>2. c.n + Size(c.s) + 1 = n
        BY <2>1, <2>3, <2>5, <3>1
      <3>3. Fresh(r)
        BY <2>3, <3>1
      <3>4. r.ok /\ r.n + Size(r.s) + 1 = n
        BY <2>5, <3>1, <3>2
      <3> QED BY <3>3, <3>4
    <2>6. CASE ~c.ok
      <3>1. DOMAIN c = {"ok", "n", "s"}
        BY <2>2 DEF ProcPagetable
      <3>2. r.ok = c.ok /\ r.n = c.n + 1
        BY <2>4, <2>6, <3>1
      <3>3. ~r.ok /\ r.ok \in BOOLEAN /\ r.n \in Nat /\ r.n = n
        BY <2>1, <2>3, <2>6, <3>2 DEF Fresh
      <3> QED BY <3>3 DEF Fresh
    <2> QED BY <2>5, <2>6
  <1> QED BY <1>1, <1>2

-----------------------------------------------------------------------------
(* Counting the pages held *)

Pairs(f) == UNION {{p} \X (1..f[p]) : p \in Tasks}

\* What one process takes or gives back changes the count by as much.
LEMMA Recount ==
  ASSUME NEW f \in [Tasks -> Nat], NEW g \in [Tasks -> Nat], NEW p \in Tasks,
         \A q \in Tasks : q # p => g[q] = f[q], IsFiniteSet(Pairs(f))
  PROVE  /\ IsFiniteSet(Pairs(g))
         /\ Cardinality(Pairs(f)) \in Nat /\ Cardinality(Pairs(g)) \in Nat
         /\ Cardinality(Pairs(g)) + f[p] = Cardinality(Pairs(f)) + g[p]
  <1> DEFINE Old == {p} \X (1..f[p])
             New == {p} \X (1..g[p])
             Rest == Pairs(f) \ Old
  <1>1. Pairs(f) = Rest \cup Old /\ Pairs(g) = Rest \cup New
        /\ Rest \cap Old = {} /\ Rest \cap New = {}
    <2>1. \A x : x \in Pairs(f) <=> \E q \in Tasks : x \in {q} \X (1..f[q])
      BY DEF Pairs
    <2>2. \A x : x \in Pairs(g) <=> \E q \in Tasks : x \in {q} \X (1..g[q])
      BY DEF Pairs
    <2>3. Old \subseteq Pairs(f) /\ New \subseteq Pairs(g)
      BY <2>1, <2>2
    <2>4. \A q \in Tasks : \A x : q # p /\ x \in {q} \X (1..f[q]) => x \notin Old /\ x \notin New
      OBVIOUS
    <2>5. \A q \in Tasks : q # p => {q} \X (1..f[q]) = {q} \X (1..g[q])
      OBVIOUS
    <2>6. \A x : x \in Rest <=> \E q \in Tasks : q # p /\ x \in {q} \X (1..f[q])
      BY <2>1, <2>4
    <2> HIDE DEF Old, New, Rest
    <2>7. \A x : x \in Pairs(g) <=> x \in Rest \/ x \in New
      BY <2>2, <2>3, <2>5, <2>6 DEF New
    <2>8. Rest \cap New = {}
      BY <2>4, <2>6
    <2> QED BY <2>3, <2>7, <2>8 DEF Rest
  <1>2. IsFiniteSet(Old) /\ IsFiniteSet(New) /\ Cardinality(Old) = f[p] /\ Cardinality(New) = g[p]
    <2>1. ASSUME NEW k \in Nat
          PROVE  IsFiniteSet({p} \X (1..k)) /\ Cardinality({p} \X (1..k)) = k
      <3>1. IsFiniteSet(1..k) /\ Cardinality(1..k) = k
        <4>1. 1 \in Int /\ k \in Int
          OBVIOUS
        <4>2. IsFiniteSet(1..k) /\ Cardinality(1..k) = IF 1 > k THEN 0 ELSE k - 1 + 1
          BY <4>1, FS_Interval
        <4> QED BY <4>2
      <3>2. IsFiniteSet({p}) /\ Cardinality({p}) = 1
        BY FS_Singleton
      <3>3. IsFiniteSet({p} \X (1..k)) /\ Cardinality({p} \X (1..k)) = 1 * k
        BY <3>1, <3>2, FS_Product, SMTT(30)
      <3> QED BY <3>3
    <2>2. f[p] \in Nat /\ g[p] \in Nat
      OBVIOUS
    <2> QED BY <2>1, <2>2
  <1>3. IsFiniteSet(Rest)
    BY FS_Difference
  <1> HIDE DEF Old, New, Rest
  <1>4. Cardinality(Pairs(f)) = Cardinality(Rest) + Cardinality(Old) /\ Cardinality(Rest) \in Nat
    <2>1. Cardinality(Rest \cup Old) = Cardinality(Rest) + Cardinality(Old)
          /\ Cardinality(Rest) \in Nat
      BY <1>1, <1>2, <1>3, DisjointCount
    <2> QED BY <1>1, <2>1
  <1>5. Cardinality(Pairs(g)) = Cardinality(Rest) + Cardinality(New) /\ IsFiniteSet(Pairs(g))
    <2>1. Cardinality(Rest \cup New) = Cardinality(Rest) + Cardinality(New)
          /\ IsFiniteSet(Rest \cup New)
      BY <1>1, <1>2, <1>3, DisjointCount
    <2> QED BY <1>1, <2>1
  <1>6. f[p] \in Nat /\ g[p] \in Nat
    OBVIOUS
  <1> QED BY <1>2, <1>4, <1>5, <1>6

HeldBy(t, s) ==
    (IF t.frame THEN 1 ELSE 0) + Size(t.space) + Size(s.image) + s.argv

\* An image is a sound address space, if an empty one.
LEMMA ImageSound ==
  ASSUME NEW t, NEW s \in Syslike, Consistent(t, s)
  PROVE  Sound(s.image) /\ s.argv \in Nat /\ Size(s.image) \in Nat
  <1>1. Sound(s.image)
    <2>1. s.op \in Ops
      BY DEF Syslike
    <2>2. CASE s.op = "user"
      BY <2>2, NoSpaceSound DEF Consistent, InCall, InUser
    <2>3. CASE s.op \in {"fork", "grow", "args"}
      BY <2>3, NoSpaceSound DEF Consistent, InCall
    <2>4. CASE s.op \in {"load", "stack"}
      BY <2>4 DEF Consistent, InExec, Whole
    <2> QED BY <2>1, <2>2, <2>3, <2>4 DEF Ops
  <1>2. s.argv \in Nat
    BY MemConstants DEF Syslike
  <1> QED BY <1>1, <1>2, SizeNat

LEMMA HeldNat ==
  ASSUME NEW t \in Tasklike, NEW s \in Syslike, Consistent(t, s)
  PROVE  HeldBy(t, s) \in Nat
  <1>1. Size(t.space) \in Nat
    BY SizeNat DEF Consistent, TaskSound
  <1>2. s.argv \in Nat /\ Size(s.image) \in Nat
    BY ImageSound
  <1> QED BY <1>1, <1>2 DEF HeldBy

\* Pages stay accounted for when one process has taken them from the free
\* ones, or given them back.
LEMMA CountStep ==
  ASSUME MemType, MemType', Accounted, machine' = machine, NEW p \in Tasks,
         \A q \in Tasks : Consistent(task[q], sys[q]) /\ Consistent(task'[q], sys'[q]),
         \A q \in Tasks : q # p => HeldBy(task'[q], sys'[q]) = HeldBy(task[q], sys[q]),
         free' + HeldBy(task'[p], sys'[p]) = free + HeldBy(task[p], sys[p])
  PROVE  Accounted'
  <1> DEFINE f == [q \in Tasks |-> HeldBy(task[q], sys[q])]
             g == [q \in Tasks |-> HeldBy(task'[q], sys'[q])]
  <1>1. \A q \in Tasks : /\ task[q] \in Tasklike /\ sys[q] \in Syslike
                         /\ task'[q] \in Tasklike /\ sys'[q] \in Syslike
    BY DEF MemType
  <1>2. f \in [Tasks -> Nat] /\ g \in [Tasks -> Nat]
    BY <1>1, HeldNat
  <1>3. HeldPages = Pairs(f) /\ HeldPages' = Pairs(g)
    <2>1. \A q \in Tasks : Held(q) = f[q] /\ Held(q)' = g[q]
      BY DEF Held, HeldBy
    <2> HIDE DEF f, g
    <2> QED BY <2>1 DEF HeldPages, Pairs
  <1>4. \A q \in Tasks : q # p => g[q] = f[q]
    OBVIOUS
  <1>5. f[p] = HeldBy(task[p], sys[p]) /\ g[p] = HeldBy(task'[p], sys'[p])
    OBVIOUS
  <1>6. IsFiniteSet(Pairs(f)) /\ free + Cardinality(Pairs(f)) = machine.phys
    BY <1>3 DEF Accounted
  <1> HIDE DEF f, g
  <1>7. /\ IsFiniteSet(Pairs(g))
        /\ Cardinality(Pairs(f)) \in Nat /\ Cardinality(Pairs(g)) \in Nat
        /\ Cardinality(Pairs(g)) + f[p] = Cardinality(Pairs(f)) + g[p]
    BY <1>2, <1>4, <1>6, Recount
  <1>8. free \in Nat /\ free' \in Nat /\ f[p] \in Nat /\ g[p] \in Nat
    BY <1>2 DEF MemType
  <1>9. free' + Cardinality(Pairs(g)) = machine.phys
    BY <1>5, <1>6, <1>7, <1>8
  <1> QED BY <1>3, <1>7, <1>9 DEF Accounted

-----------------------------------------------------------------------------
(* Steps *)

\* One field of an entry, or of a system call, is set.
LEMMA TaskSet ==
  ASSUME NEW f \in [Tasks -> Tasklike], NEW p \in Tasks
  PROVE  /\ \A t \in Tasklike : [f EXCEPT ![p] = t] \in [Tasks -> Tasklike]
         /\ \A x \in {"UNUSED", "USED", "LIVE", "ZOMBIE"} :
               [f EXCEPT ![p].state = x] \in [Tasks -> Tasklike]
         /\ \A x \in 0..Top : [f EXCEPT ![p].sz = x] \in [Tasks -> Tasklike]
         /\ \A x \in Spaces : [f EXCEPT ![p].space = x] \in [Tasks -> Tasklike]
  BY DEF Tasklike

LEMMA RecordSet ==
  ASSUME NEW A, NEW B, NEW C, NEW D, NEW E, NEW F, NEW G, NEW H,
         NEW s \in [op : A, at : B, upto : C, kid : D, argv : E, segs : F, image : G, sz : H]
  PROVE  /\ \A x \in A : [s EXCEPT !.op = x] \in
                  [op : A, at : B, upto : C, kid : D, argv : E, segs : F, image : G, sz : H]
         /\ \A x \in B : [s EXCEPT !.at = x] \in
                  [op : A, at : B, upto : C, kid : D, argv : E, segs : F, image : G, sz : H]
         /\ \A x \in C : [s EXCEPT !.upto = x] \in
                  [op : A, at : B, upto : C, kid : D, argv : E, segs : F, image : G, sz : H]
         /\ \A x \in D : [s EXCEPT !.kid = x] \in
                  [op : A, at : B, upto : C, kid : D, argv : E, segs : F, image : G, sz : H]
         /\ \A x \in E : [s EXCEPT !.argv = x] \in
                  [op : A, at : B, upto : C, kid : D, argv : E, segs : F, image : G, sz : H]
         /\ \A x \in F : [s EXCEPT !.segs = x] \in
                  [op : A, at : B, upto : C, kid : D, argv : E, segs : F, image : G, sz : H]
         /\ \A x \in G : [s EXCEPT !.image = x] \in
                  [op : A, at : B, upto : C, kid : D, argv : E, segs : F, image : G, sz : H]
         /\ \A x \in H : [s EXCEPT !.sz = x] \in
                  [op : A, at : B, upto : C, kid : D, argv : E, segs : F, image : G, sz : H]
  <1>1. \A x \in A : [s EXCEPT !.op = x] \in
            [op : A, at : B, upto : C, kid : D, argv : E, segs : F, image : G, sz : H]
    OBVIOUS
  <1>2. \A x \in B : [s EXCEPT !.at = x] \in
            [op : A, at : B, upto : C, kid : D, argv : E, segs : F, image : G, sz : H]
    OBVIOUS
  <1>3. \A x \in C : [s EXCEPT !.upto = x] \in
            [op : A, at : B, upto : C, kid : D, argv : E, segs : F, image : G, sz : H]
    OBVIOUS
  <1>4. \A x \in D : [s EXCEPT !.kid = x] \in
            [op : A, at : B, upto : C, kid : D, argv : E, segs : F, image : G, sz : H]
    OBVIOUS
  <1>5. \A x \in E : [s EXCEPT !.argv = x] \in
            [op : A, at : B, upto : C, kid : D, argv : E, segs : F, image : G, sz : H]
    OBVIOUS
  <1>6. \A x \in F : [s EXCEPT !.segs = x] \in
            [op : A, at : B, upto : C, kid : D, argv : E, segs : F, image : G, sz : H]
    OBVIOUS
  <1>7. \A x \in G : [s EXCEPT !.image = x] \in
            [op : A, at : B, upto : C, kid : D, argv : E, segs : F, image : G, sz : H]
    OBVIOUS
  <1>8. \A x \in H : [s EXCEPT !.sz = x] \in
            [op : A, at : B, upto : C, kid : D, argv : E, segs : F, image : G, sz : H]
    OBVIOUS
  <1> QED BY <1>1, <1>2, <1>3, <1>4, <1>5, <1>6, <1>7, <1>8

LEMMA SysSet ==
  ASSUME NEW f \in [Tasks -> Syslike], NEW p \in Tasks
  PROVE  /\ \A x \in Ops : [f EXCEPT ![p].op = x] \in [Tasks -> Syslike]
         /\ \A x \in 0..TRAPFRAME : [f EXCEPT ![p].at = x] \in [Tasks -> Syslike]
         /\ \A x \in 0..Top : [f EXCEPT ![p].upto = x] \in [Tasks -> Syslike]
         /\ \A x \in Tasks : [f EXCEPT ![p].kid = x] \in [Tasks -> Syslike]
         /\ \A x \in 0..MaxArgs : [f EXCEPT ![p].argv = x] \in [Tasks -> Syslike]
         /\ \A x \in Seq(Nat) : [f EXCEPT ![p].segs = x] \in [Tasks -> Syslike]
         /\ \A x \in Spaces : [f EXCEPT ![p].image = x] \in [Tasks -> Syslike]
         /\ \A x \in 0..Top : [f EXCEPT ![p].sz = x] \in [Tasks -> Syslike]
         /\ \A s \in Syslike : [f EXCEPT ![p] = s] \in [Tasks -> Syslike]
  <1>1. \A s \in Syslike : [f EXCEPT ![p] = s] \in [Tasks -> Syslike]
    OBVIOUS
  <1>2. f[p] \in Syslike
    OBVIOUS
  <1>3. \A x \in Ops : [f[p] EXCEPT !.op = x] \in Syslike
    BY <1>2, RecordSet DEF Syslike
  <1>4. \A x \in 0..TRAPFRAME : [f[p] EXCEPT !.at = x] \in Syslike
    BY <1>2, RecordSet DEF Syslike
  <1>5. \A x \in 0..Top : [f[p] EXCEPT !.upto = x] \in Syslike
    BY <1>2, RecordSet DEF Syslike
  <1>6. \A x \in Tasks : [f[p] EXCEPT !.kid = x] \in Syslike
    BY <1>2, RecordSet DEF Syslike
  <1>7. \A x \in 0..MaxArgs : [f[p] EXCEPT !.argv = x] \in Syslike
    BY <1>2, RecordSet DEF Syslike
  <1>8. \A x \in Seq(Nat) : [f[p] EXCEPT !.segs = x] \in Syslike
    BY <1>2, RecordSet DEF Syslike
  <1>9. \A x \in Spaces : [f[p] EXCEPT !.image = x] \in Syslike
    BY <1>2, RecordSet DEF Syslike
  <1>10. \A x \in 0..Top : [f[p] EXCEPT !.sz = x] \in Syslike
    BY <1>2, RecordSet DEF Syslike
  <1> QED BY <1>1, <1>2, <1>3, <1>4, <1>5, <1>6, <1>7, <1>8, <1>9, <1>10

LEMMA TaskTypes ==
  ASSUME NEW t \in Tasklike
  PROVE  /\ t.state \in {"UNUSED", "USED", "LIVE", "ZOMBIE"} /\ t.sz \in 0..Top /\ t.sz \in Nat
         /\ t.frame \in BOOLEAN /\ t.space \in Spaces
         /\ PagesOf(t.sz) \in 0..TRAPFRAME /\ PagesOf(t.sz) \in Nat
  <1>1. t.sz \in 0..Top /\ t.sz \in Nat
    BY MemConstants DEF Tasklike
  <1>2. PagesOf(t.sz) \in 0..TRAPFRAME /\ PagesOf(t.sz) \in Nat
    BY <1>1, PagesOfTop, PagesNat
  <1> QED BY <1>1, <1>2 DEF Tasklike

LEMMA SysTypes ==
  ASSUME NEW s \in Syslike
  PROVE  /\ s.op \in Ops /\ s.at \in 0..TRAPFRAME /\ s.at \in Nat
         /\ s.upto \in 0..Top /\ s.upto \in Nat /\ PagesOf(s.upto) \in 0..TRAPFRAME
         /\ s.kid \in Tasks /\ s.argv \in 0..MaxArgs /\ s.argv \in Nat /\ s.segs \in Seq(Nat)
         /\ s.image \in Spaces /\ s.sz \in 0..Top /\ s.sz \in Nat /\ PagesOf(s.sz) \in 0..TRAPFRAME
  <1>1. s.upto \in 0..Top /\ s.upto \in Nat /\ s.sz \in 0..Top /\ s.sz \in Nat
        /\ s.at \in 0..TRAPFRAME /\ s.at \in Nat /\ s.argv \in 0..MaxArgs /\ s.argv \in Nat
    BY MemConstants DEF Syslike
  <1>2. PagesOf(s.upto) \in 0..TRAPFRAME /\ PagesOf(s.sz) \in 0..TRAPFRAME
    BY <1>1, PagesOfTop
  <1> QED BY <1>1, <1>2 DEF Syslike

LEMMA UserTypes == InUser \in Syslike /\ InUser.op = "user" /\ InUser.image = NoSpace
                   /\ InUser.argv = 0 /\ InUser.sz = 0 /\ InUser.at = 0 /\ NoSpace \in Spaces
  <1>1. NoSpace \in Spaces
    BY NoSpaceSound DEF Sound
  <1>2. 0 \in 0..TRAPFRAME /\ 0 \in 0..Top /\ 0 \in 0..MaxArgs /\ First \in Tasks
    BY MemConstants
  <1>3. <<>> \in Seq(Nat)
    OBVIOUS
  <1> QED BY <1>1, <1>2, <1>3 DEF InUser, Syslike, Ops

LEMMA BelowMore ==
  ASSUME NEW s \in Spaces, NEW j \in Int, NEW k \in Int, j <= k, Below(s, j)
  PROVE  Below(s, k)
  BY SpaceFields, MemConstants DEF Below, UserPages

\* A process in user mode, or one that has ended.
LEMMA AtRest ==
  ASSUME NEW t \in Tasklike, t.state \in {"LIVE", "ZOMBIE"}, t.frame, Whole(t.space),
         Below(t.space, PagesOf(t.sz))
  PROVE  Consistent(t, InUser) /\ HeldBy(t, InUser) = 1 + Size(t.space)
  <1>1. Sound(t.space) /\ Size(t.space) \in Nat
    BY SizeNat DEF Whole
  <1>2. TaskSound(t, InUser)
    BY <1>1 DEF TaskSound
  <1>3. InCall(t, InUser) /\ InGrow(t, InUser) /\ InExec(InUser)
    BY UserTypes DEF InCall, InGrow, InExec
  <1> QED BY <1>1, <1>2, <1>3, UserTypes, NoSpaceSound DEF Consistent, HeldBy

\* What holds of a process that is alive.
LEMMA Alive ==
  ASSUME MInv, NEW p \in Tasks, task[p].state = "LIVE"
  PROVE  /\ task[p] \in Tasklike /\ sys[p] \in Syslike /\ free \in Nat
         /\ Consistent(task[p], sys[p]) /\ task[p].frame /\ Whole(task[p].space)
         /\ Sound(task[p].space) /\ Size(task[p].space) \in Nat
         /\ sys[p].op # "grow" => Below(task[p].space, PagesOf(task[p].sz))
         /\ Sound(sys[p].image) /\ Size(sys[p].image) \in Nat
         /\ HeldBy(task[p], sys[p])
              = 1 + Size(task[p].space) + Size(sys[p].image) + sys[p].argv
  <1>1. task[p] \in Tasklike /\ sys[p] \in Syslike /\ free \in Nat /\ Consistent(task[p], sys[p])
    BY DEF MInv, MemType
  <1>2. /\ task[p].frame /\ Whole(task[p].space) /\ Sound(task[p].space)
        /\ sys[p].op # "grow" => Below(task[p].space, PagesOf(task[p].sz))
    BY <1>1 DEF Consistent, TaskSound
  <1>3. Size(task[p].space) \in Nat
    BY <1>2, SizeNat
  <1>4. Sound(sys[p].image) /\ Size(sys[p].image) \in Nat
    BY <1>1, ImageSound
  <1> QED BY <1>1, <1>2, <1>3, <1>4 DEF HeldBy

\* A step that concerns the entry and the system call of p alone.
LEMMA OneTask ==
  ASSUME MInv, NEW p \in Tasks,
         task' \in [Tasks -> Tasklike], sys' \in [Tasks -> Syslike],
         \A q \in Tasks : q # p => task'[q] = task[q] /\ sys'[q] = sys[q],
         machine' = machine, halted' = FALSE, free' \in Nat,
         Consistent(task'[p], sys'[p]), task[p].state # "USED", sys'[p].op # "fork",
         free' + HeldBy(task'[p], sys'[p]) = free + HeldBy(task[p], sys[p])
  PROVE  MInv'
  <1>1. /\ MemType /\ Accounted
        /\ \A q \in Tasks : Consistent(task[q], sys[q]) /\ Forking(q)
    BY DEF MInv
  <1>3. MemType'
    BY <1>1 DEF MemType
  <1>4. \A q \in Tasks : Consistent(task'[q], sys'[q])
    BY <1>1
  <1>5. ASSUME NEW q \in Tasks PROVE Forking(q)'
    <2>1. SUFFICES ASSUME sys'[q].op = "fork" PROVE Forking(q)'
      BY DEF Forking
    <2>2. q # p /\ sys'[q] = sys[q] /\ task'[q] = task[q]
      BY <2>1
    <2>3. /\ task[sys[q].kid].state = "USED"
          /\ sys[q].at <= PagesOf(task[q].sz)
          /\ Below(task[sys[q].kid].space, sys[q].at)
          /\ \A u \in Tasks : sys[u].op = "fork" /\ sys[u].kid = sys[q].kid => q = u
      BY <1>1, <2>1, <2>2 DEF Forking
    <2>4. sys[q].kid \in Tasks
      BY <1>1 DEF MemType, Syslike
    <2>5. task'[sys[q].kid] = task[sys[q].kid]
      BY <2>3, <2>4
    <2>6. \A u \in Tasks : sys'[u].op = "fork" /\ sys'[u].kid = sys[q].kid => q = u
      BY <2>3
    <2> QED BY <2>2, <2>3, <2>5, <2>6 DEF Forking
  <1>6. Accounted'
    BY <1>1, <1>3, <1>4, CountStep
  <1> QED BY <1>3, <1>4, <1>5, <1>6 DEF MInv

LEMMA UnusedFacts ==
  Unused \in Tasklike /\ Consistent(Unused, InUser) /\ HeldBy(Unused, InUser) = 0
  <1>1. /\ Unused.state = "UNUSED" /\ Unused.sz = 0 /\ Unused.frame = FALSE
        /\ Unused.space = NoSpace /\ Unused \in Tasklike
    BY UserTypes, MemConstants DEF Unused, Tasklike
  <1>2. TaskSound(Unused, InUser)
    BY <1>1, NoSpaceSound DEF TaskSound
  <1>3. InCall(Unused, InUser) /\ InGrow(Unused, InUser) /\ InExec(InUser)
    BY UserTypes DEF InCall, InGrow, InExec
  <1> QED BY <1>1, <1>2, <1>3, UserTypes, NoSpaceSound DEF Consistent, HeldBy

LEMMA InitMInv == ASSUME MemInit PROVE MInv
  <1>c. /\ First \in Tasks /\ TRAPFRAME \in Nat /\ TRAMPOLINE \in Nat /\ TRAMPOLINE = TRAPFRAME + 1
        /\ PGSIZE \in Nat /\ PGSIZE > 0 /\ USERSTACK \in Nat /\ USERSTACK + 2 <= TRAPFRAME
    BY MemConstants
  <1>1. PICK s : s = [tables |-> BootTables, mapped |-> BootPages, guard |-> {1}]
    OBVIOUS
  <1>2. s.tables = BootTables /\ s.mapped = BootPages
    BY <1>1
  <1>3. BootPages \subseteq 0..TRAMPOLINE /\ {TRAMPOLINE, TRAPFRAME} \subseteq BootPages
        /\ UserPages(s) = 0..(USERSTACK + 1)
    BY <1>c, <1>2 DEF BootPages, UserPages
  <1>4. IsFiniteSet(0..(USERSTACK + 1)) /\ Cardinality(0..(USERSTACK + 1)) = USERSTACK + 2
    <2>1. PICK k \in Nat : k = USERSTACK + 1
      BY <1>c
    <2>2. 0 \in Int /\ k \in Int
      OBVIOUS
    <2>3. IsFiniteSet(0..k) /\ Cardinality(0..k) = IF 0 > k THEN 0 ELSE k - 0 + 1
      BY <2>2, FS_Interval
    <2> QED BY <1>c, <2>1, <2>3
  <1>5. IsFiniteSet(BootPages)
    <2>1. IsFiniteSet({TRAMPOLINE, TRAPFRAME})
      <3>1. IsFiniteSet({TRAMPOLINE} \cup {TRAPFRAME})
        BY FS_Singleton, FS_Union
      <3>2. {TRAMPOLINE} \cup {TRAPFRAME} = {TRAMPOLINE, TRAPFRAME}
        OBVIOUS
      <3> QED BY <3>1, <3>2
    <2> QED BY <1>4, <2>1, FS_Union DEF BootPages
  <1>6. IsFiniteSet(BootTables)
    <2> DEFINE T == {TablesOf(va) : va \in BootPages}
    <2>1. IsFiniteSet(T)
      <3> DEFINE f == [va \in BootPages |-> TablesOf(va)]
      <3>1. f \in [BootPages -> T] /\ \A x \in T : \E va \in BootPages : f[va] = x
        OBVIOUS
      <3>2. f \in Surjection(BootPages, T)
        BY <3>1 DEF Surjection
      <3> HIDE DEF f, T
      <3> QED BY <1>5, <3>2, FS_Surjection
    <2>2. \A x \in T : IsFiniteSet(x)
      BY TwoTables
    <2>3. IsFiniteSet(UNION T)
      BY <2>1, <2>2, FS_UNION
    <2> QED BY <2>3, FS_Singleton, FS_Union DEF BootTables
  <1>7. BootTables \in SUBSET AllTables
    BY <1>3 DEF BootTables, AllTables
  <1>8. s \in Spaces
    <2>1. {1} \in SUBSET (0..TRAMPOLINE) /\ BootPages \in SUBSET (0..TRAMPOLINE)
      BY <1>c, <1>3
    <2> QED BY <1>1, <1>7, <2>1, SpaceFields
  <1>9. Whole(s)
    <2>1. \A va \in s.mapped : TablesOf(va) \subseteq s.tables
      BY <1>2 DEF BootTables
    <2> QED BY <1>2, <1>3, <1>5, <1>6, <1>8, <2>1 DEF Whole, Sound
  <1>10. PICK sz : sz = (USERSTACK + 2) * PGSIZE
    OBVIOUS
  <1>11. sz \in 0..Top /\ PagesOf(sz) = USERSTACK + 2
    <2>1. PICK k \in Nat : k = USERSTACK + 2
      BY <1>c
    <2>2. k * PGSIZE \in Nat /\ k * PGSIZE <= TRAPFRAME * PGSIZE
      BY <1>c, <2>1
    <2>3. PagesOf(k * PGSIZE) = k
      BY PagesOfPages
    <2> QED BY <1>10, <2>1, <2>2, <2>3 DEF Top
  <1>12. PICK t : t = [state |-> "LIVE", sz |-> sz, frame |-> TRUE, space |-> s]
    OBVIOUS
  <1>13. t \in Tasklike /\ t.state = "LIVE" /\ t.sz = sz /\ t.frame /\ t.space = s
    BY <1>8, <1>11, <1>12 DEF Tasklike
  <1>14. Below(t.space, PagesOf(t.sz))
    BY <1>c, <1>3, <1>11, <1>13 DEF Below
  <1>15. Consistent(t, InUser) /\ HeldBy(t, InUser) = 1 + Size(s)
    BY <1>9, <1>13, <1>14, AtRest
  <1>16. Size(s) = Cardinality(BootTables) + USERSTACK + 2 /\ Cardinality(BootTables) \in Nat
    BY <1>c, <1>2, <1>3, <1>4, <1>6, FS_CardinalityType DEF Size
  <1>17. Unused \in Tasklike /\ Consistent(Unused, InUser) /\ HeldBy(Unused, InUser) = 0
    BY UnusedFacts
  <1>18. /\ task = [p \in Tasks |-> IF p # First THEN Unused ELSE t]
         /\ machine \in Machines /\ sys = [p \in Tasks |-> InUser] /\ halted = FALSE
         /\ free = machine.phys - Cardinality(BootTables) - (USERSTACK + 2) - 1
    BY <1>1, <1>10, <1>12 DEF MemInit
  <1>19. machine.phys \in Nat /\ Cardinality(BootTables) + USERSTACK + 3 <= machine.phys
    BY <1>18, MemoryAssumption
  <1>20. free \in Nat /\ free + HeldBy(t, InUser) = machine.phys
    BY <1>c, <1>15, <1>16, <1>18, <1>19
  <1>21. MemType
    BY <1>13, <1>17, <1>18, <1>20, UserTypes DEF MemType
  <1>22. \A p \in Tasks : Consistent(task[p], sys[p]) /\ Forking(p)
    <2>1. \A p \in Tasks : sys[p].op # "fork"
      BY <1>18, UserTypes
    <2> QED BY <1>15, <1>17, <1>18, <2>1 DEF Forking
  <1>23. Accounted
    <2>1. HeldPages = {First} \X (1..HeldBy(t, InUser))
      <3>1. \A p \in Tasks : Held(p) = HeldBy(task[p], sys[p])
        BY DEF Held, HeldBy
      <3>2. \A p \in Tasks : p # First => {p} \X (1..Held(p)) = {}
        BY <1>17, <1>18, <3>1
      <3>3. {First} \X (1..Held(First)) = {First} \X (1..HeldBy(t, InUser))
        BY <1>c, <1>18, <3>1
      <3> QED BY <1>c, <3>2, <3>3 DEF HeldPages
    <2>2. PICK k \in Nat : k = HeldBy(t, InUser)
      BY <1>13, <1>15, UserTypes, HeldNat
    <2>3. IsFiniteSet({First} \X (1..k)) /\ Cardinality({First} \X (1..k)) = k
      <3>1. 1 \in Int /\ k \in Int
        OBVIOUS
      <3>2. IsFiniteSet(1..k) /\ Cardinality(1..k) = IF 1 > k THEN 0 ELSE k - 1 + 1
        BY <3>1, FS_Interval
      <3>3. IsFiniteSet({First}) /\ Cardinality({First}) = 1
        BY FS_Singleton
      <3>4. IsFiniteSet({First} \X (1..k)) /\ Cardinality({First} \X (1..k)) = 1 * k
        BY <3>2, <3>3, FS_Product
      <3> QED BY <3>4
    <2> QED BY <1>20, <2>1, <2>2, <2>3 DEF Accounted
  <1> QED BY <1>18, <1>21, <1>22, <1>23 DEF MInv

\* A process in user mode.
LEMMA UserFacts ==
  ASSUME MInv, NEW p \in Tasks, In(p, "user")
  PROVE  /\ task[p].state = "LIVE" /\ sys[p] = InUser /\ halted = FALSE
         /\ Below(task[p].space, PagesOf(task[p].sz))
         /\ HeldBy(task[p], sys[p]) = 1 + Size(task[p].space)
  <1>1. task[p].state = "LIVE" /\ sys[p].op = "user" /\ halted = FALSE
    BY DEF In, MInv
  <1>2. Consistent(task[p], sys[p]) /\ sys[p].op # "grow"
        => Below(task[p].space, PagesOf(task[p].sz))
    BY <1>1 DEF Consistent, TaskSound
  <1>3. sys[p] = InUser
    BY <1>1, Alive DEF Consistent, InCall
  <1>4. HeldBy(task[p], sys[p]) = 1 + Size(task[p].space) + Size(NoSpace) + 0
    BY <1>1, <1>3, Alive, UserTypes
  <1> QED BY <1>1, <1>2, <1>3, <1>4, Alive, NoSpaceSound

LEMMA TaskExitStep ==
  ASSUME MInv, NEW p \in Tasks, machine' = machine, TaskExit(p) PROVE MInv'
  <1>1. /\ task' = [task EXCEPT ![p].state = "ZOMBIE"]
        /\ free' = free /\ sys' = sys /\ halted' = halted /\ In(p, "user")
    BY DEF TaskExit
  <1>2. /\ task[p].state = "LIVE" /\ sys[p] = InUser /\ halted = FALSE
        /\ Below(task[p].space, PagesOf(task[p].sz))
        /\ HeldBy(task[p], sys[p]) = 1 + Size(task[p].space)
    BY <1>1, UserFacts
  <1>3. /\ task \in [Tasks -> Tasklike] /\ sys \in [Tasks -> Syslike] /\ free \in Nat
    BY DEF MInv, MemType
  <1>4. task' \in [Tasks -> Tasklike]
    BY <1>1, <1>3, TaskSet
  <1>5. /\ task'[p].state = "ZOMBIE" /\ task'[p].sz = task[p].sz
        /\ task'[p].frame = task[p].frame /\ task'[p].space = task[p].space
        /\ \A q \in Tasks : q # p => task'[q] = task[q]
    BY <1>1, <1>3 DEF Tasklike
  <1>6. task'[p] \in Tasklike
    BY <1>4
  <1>7. task'[p].frame /\ Whole(task'[p].space) /\ Below(task'[p].space, PagesOf(task'[p].sz))
    BY <1>2, <1>5, Alive
  <1>8. Consistent(task'[p], InUser) /\ HeldBy(task'[p], InUser) = 1 + Size(task'[p].space)
    BY <1>5, <1>6, <1>7, AtRest
  <1>9. sys'[p] = InUser /\ free' + HeldBy(task'[p], sys'[p]) = free + HeldBy(task[p], sys[p])
    BY <1>1, <1>2, <1>5, <1>8
  <1> QED BY <1>1, <1>2, <1>3, <1>4, <1>5, <1>8, <1>9, UserTypes, OneTask

\* freeproc() gives back what the entry holds.
LEMMA ReapTaskStep ==
  ASSUME MInv, NEW p \in Tasks, machine' = machine, ReapTask(p) PROVE MInv'
  <1>1. task[p].state = "ZOMBIE" /\ sys' = sys /\ FreeProc(p, free, task[p].space)
    BY DEF ReapTask
  <1>2. /\ task \in [Tasks -> Tasklike] /\ sys \in [Tasks -> Syslike] /\ free \in Nat
        /\ halted = FALSE /\ Consistent(task[p], sys[p])
        /\ task[p] \in Tasklike /\ sys[p] \in Syslike
    BY DEF MInv, MemType
  <1>3. sys[p] = InUser
    BY <1>1, <1>2, SysTypes DEF Consistent, InCall
  <1>4. /\ task[p].frame /\ Whole(task[p].space) /\ Sound(task[p].space)
        /\ Below(task[p].space, PagesOf(task[p].sz))
    BY <1>1, <1>2, <1>3, UserTypes DEF Consistent, TaskSound
  <1>5k. PICK k \in Nat : k = free + 1
    BY <1>2
  <1>5. PICK sz \in 0..Top : sz = task[p].sz
    BY <1>2, TaskTypes
  <1>5a. PICK s : s = task[p].space
    OBVIOUS
  <1>6. PICK r : r = FreeSpace(k, s, sz)
    OBVIOUS
  <1>6a. Sound(s) /\ Below(s, PagesOf(sz))
    BY <1>4, <1>5, <1>5a
  <1>7. r.n \in Nat /\ r.n = k + Size(s) /\ r.leaf = FALSE
    BY <1>6, <1>6a, FreeSpaceFacts
  <1>8. free' = r.n /\ halted' = FALSE /\ task' = [task EXCEPT ![p] = Unused]
    BY <1>1, <1>2, <1>4, <1>5k, <1>5, <1>5a, <1>6, <1>7 DEF FreeProc, Panic
  <1>9. Unused \in Tasklike /\ Consistent(Unused, InUser) /\ HeldBy(Unused, InUser) = 0
    BY UnusedFacts
  <1>10. /\ task' \in [Tasks -> Tasklike] /\ task'[p] = Unused
         /\ \A q \in Tasks : q # p => task'[q] = task[q]
    BY <1>2, <1>8, <1>9
  <1>11. HeldBy(task[p], sys[p]) = 1 + Size(task[p].space) /\ Size(task[p].space) \in Nat
    BY <1>1, <1>2, <1>3, <1>4, AtRest, SizeNat
  <1>12. free' + HeldBy(task'[p], sys'[p]) = free + HeldBy(task[p], sys[p])
    BY <1>1, <1>2, <1>3, <1>5k, <1>5a, <1>7, <1>8, <1>9, <1>10, <1>11
  <1> QED BY <1>1, <1>2, <1>3, <1>7, <1>8, <1>9, <1>10, <1>12, UserTypes, OneTask

LEMMA SbrkStep ==
  ASSUME MInv, NEW p \in Tasks, machine' = machine, NEW n \in Sizes, Sbrk(p, n) PROVE MInv'
  <1>1. /\ In(p, "user") /\ task[p].sz + n <= Top
        /\ free' = free /\ task' = task /\ halted' = halted
    BY DEF Sbrk, Top
  <1>2. /\ task[p].state = "LIVE" /\ sys[p] = InUser /\ halted = FALSE
        /\ Below(task[p].space, PagesOf(task[p].sz))
    BY <1>1, UserFacts
  <1>3. /\ task \in [Tasks -> Tasklike] /\ sys \in [Tasks -> Syslike] /\ free \in Nat
        /\ task[p] \in Tasklike /\ n \in Nat /\ Consistent(task[p], sys[p])
    BY MemoryAssumption DEF MInv, MemType
  <1>4. PICK at \in 0..TRAPFRAME, upto \in 0..Top : at = PagesOf(task[p].sz) /\ upto = task[p].sz + n
    BY <1>1, <1>3, TaskTypes, MemConstants
  <1>5. sys' = [sys EXCEPT ![p].op = "grow", ![p].at = at, ![p].upto = upto]
    BY <1>4 DEF Sbrk
  <1>6. /\ sys'[p].op = "grow" /\ sys'[p].at = at /\ sys'[p].upto = upto
        /\ sys'[p].argv = sys[p].argv /\ sys'[p].image = sys[p].image /\ sys'[p].sz = sys[p].sz
        /\ \A q \in Tasks : q # p => sys'[q] = sys[q]
    BY <1>3, <1>5 DEF Syslike
  <1>7. sys' \in [Tasks -> Syslike]
    <2>1. PICK w1 : w1 = [sys EXCEPT ![p].op = "grow"]
      OBVIOUS
    <2>2. w1 \in [Tasks -> Syslike]
      BY <1>3, <2>1, SysSet DEF Ops
    <2>3. PICK w2 : w2 = [w1 EXCEPT ![p].at = at]
      OBVIOUS
    <2>4. w2 \in [Tasks -> Syslike]
      BY <2>2, <2>3, SysSet
    <2>5. sys' = [w2 EXCEPT ![p].upto = upto]
      BY <1>5, <2>1, <2>3
    <2> QED BY <2>4, <2>5, SysSet
  <1>8. task[p].sz <= upto /\ at <= PagesOf(upto)
    <2>1. task[p].sz \in Nat /\ upto \in Nat /\ task[p].sz <= upto
      BY <1>3, <1>4, TaskTypes
    <2> QED BY <1>4, <2>1, PagesMonotone
  <1>9. Consistent(task[p], sys'[p])
    <2>1. TaskSound(task[p], sys'[p])
      BY <1>3, <1>6 DEF Consistent, TaskSound
    <2>2. InCall(task[p], sys'[p])
      BY <1>2, <1>6, UserTypes DEF InCall
    <2>3. InGrow(task[p], sys'[p])
      BY <1>2, <1>4, <1>6, <1>8, TaskTypes, <1>3 DEF InGrow
    <2>4. InExec(sys'[p])
      BY <1>6 DEF InExec
    <2> QED BY <2>1, <2>2, <2>3, <2>4 DEF Consistent
  <1>10. HeldBy(task[p], sys'[p]) = HeldBy(task[p], sys[p])
    BY <1>6 DEF HeldBy
  <1> QED BY <1>1, <1>2, <1>3, <1>6, <1>7, <1>9, <1>10, OneTask

\* A process in user mode whose entry changes, and nothing else but the pages.
LEMMA UserStep ==
  ASSUME MInv, NEW p \in Tasks, In(p, "user"), machine' = machine, sys' = sys, halted' = FALSE,
         task' \in [Tasks -> Tasklike], \A q \in Tasks : q # p => task'[q] = task[q],
         task'[p].state \in {"LIVE", "ZOMBIE"}, task'[p].frame, Whole(task'[p].space),
         Below(task'[p].space, PagesOf(task'[p].sz)),
         free' \in Nat, free' + Size(task'[p].space) = free + Size(task[p].space)
  PROVE  MInv'
  <1>1. /\ task[p].state = "LIVE" /\ sys[p] = InUser
        /\ HeldBy(task[p], sys[p]) = 1 + Size(task[p].space)
    BY UserFacts
  <1>2. task'[p] \in Tasklike
    OBVIOUS
  <1>3. Consistent(task'[p], InUser) /\ HeldBy(task'[p], InUser) = 1 + Size(task'[p].space)
    BY <1>2, AtRest
  <1>4. free \in Nat /\ sys \in [Tasks -> Syslike]
    BY DEF MInv, MemType
  <1>5. Size(task'[p].space) \in Nat /\ Size(task[p].space) \in Nat
    BY <1>1, Alive, SizeNat DEF Whole
  <1>6. sys'[p] = InUser /\ free' + HeldBy(task'[p], sys'[p]) = free + HeldBy(task[p], sys[p])
    BY <1>1, <1>3, <1>4, <1>5
  <1> QED BY <1>1, <1>3, <1>4, <1>6, UserTypes, OneTask

LEMMA SbrkLazyStep ==
  ASSUME MInv, NEW p \in Tasks, machine' = machine, NEW n \in Sizes, SbrkLazy(p, n) PROVE MInv'
  <1>1. /\ In(p, "user") /\ task[p].sz + n <= Top /\ task' = [task EXCEPT ![p].sz = @ + n]
        /\ free' = free /\ sys' = sys /\ halted' = halted
    BY DEF SbrkLazy, Top
  <1>2. /\ task[p].state = "LIVE" /\ halted = FALSE
        /\ Below(task[p].space, PagesOf(task[p].sz))
    BY <1>1, UserFacts
  <1>3. /\ task \in [Tasks -> Tasklike] /\ task[p] \in Tasklike /\ free \in Nat /\ n \in Nat
    BY MemoryAssumption DEF MInv, MemType
  <1>4. PICK sz \in 0..Top : sz = task[p].sz + n
    BY <1>1, <1>3, TaskTypes, MemConstants
  <1>5. task' = [task EXCEPT ![p].sz = sz]
    BY <1>1, <1>4
  <1>6. task' \in [Tasks -> Tasklike]
    BY <1>3, <1>5, TaskSet
  <1>7. /\ task'[p].state = task[p].state /\ task'[p].sz = sz
        /\ task'[p].frame = task[p].frame /\ task'[p].space = task[p].space
        /\ \A q \in Tasks : q # p => task'[q] = task[q]
    BY <1>3, <1>5 DEF Tasklike
  <1>8. Below(task[p].space, PagesOf(sz))
    <2>1. task[p].sz \in Nat /\ sz \in Nat /\ task[p].sz <= sz /\ task[p].space \in Spaces
      BY <1>3, <1>4, TaskTypes
    <2>2. PagesOf(task[p].sz) \in Int /\ PagesOf(sz) \in Int /\ PagesOf(task[p].sz) <= PagesOf(sz)
      BY <2>1, PagesMonotone, PagesNat
    <2> QED BY <1>2, <2>1, <2>2, BelowMore
  <1>9. Whole(task[p].space) /\ task[p].frame
    BY <1>2, Alive
  <1> QED BY <1>1, <1>2, <1>3, <1>6, <1>7, <1>8, <1>9, UserStep

LEMMA SbrkShrinkStep ==
  ASSUME MInv, NEW p \in Tasks, machine' = machine, NEW n \in Sizes, SbrkShrink(p, n) PROVE MInv'
  <1>1. /\ In(p, "user") /\ n <= task[p].sz /\ sys' = sys /\ halted' = halted
    BY DEF SbrkShrink
  <1>2. /\ task[p].state = "LIVE" /\ halted = FALSE
        /\ Below(task[p].space, PagesOf(task[p].sz))
    BY <1>1, UserFacts
  <1>3. /\ task \in [Tasks -> Tasklike] /\ task[p] \in Tasklike /\ free \in Nat /\ n \in Nat
    BY MemoryAssumption DEF MInv, MemType
  <1>4. PICK sz \in 0..Top : sz = task[p].sz - n
    BY <1>1, <1>3, TaskTypes, MemConstants
  <1>5. PICK from \in Nat : from = PagesOf(sz)
    BY <1>4, PagesNat, MemConstants
  <1>6. PICK to \in 0..TRAPFRAME : to = PagesOf(task[p].sz)
    BY <1>3, TaskTypes
  <1>7. PICK s, u : s = task[p].space /\ u = Unmap(free, s, from, to)
    OBVIOUS
  <1>8. Whole(s) /\ Sound(s) /\ task[p].frame
    BY <1>2, <1>7, Alive
  <1>9. Unmaps(s, from, to, u) /\ u.n + Size(u.s) = free + Size(s)
    BY <1>3, <1>7, <1>8, UnmapFacts
  <1>10. u.n \in Nat /\ Sound(u.s) /\ u.s \in Spaces
         /\ u.s.mapped = s.mapped \ {va \in s.mapped : from <= va /\ va < to}
    BY <1>9 DEF Unmaps, Sound
  <1>11. free' = u.n /\ task' = [task EXCEPT ![p].sz = sz, ![p].space = u.s]
    BY <1>4, <1>5, <1>6, <1>7 DEF SbrkShrink
  <1>12. task' \in [Tasks -> Tasklike]
    <2>1. PICK w : w = [task EXCEPT ![p].sz = sz]
      OBVIOUS
    <2>2. w \in [Tasks -> Tasklike]
      BY <1>3, <2>1, TaskSet
    <2>3. task' = [w EXCEPT ![p].space = u.s]
      BY <1>11, <2>1
    <2> QED BY <1>10, <2>2, <2>3, TaskSet
  <1>13. /\ task'[p].state = task[p].state /\ task'[p].sz = sz
         /\ task'[p].frame = task[p].frame /\ task'[p].space = u.s
         /\ \A q \in Tasks : q # p => task'[q] = task[q]
    BY <1>3, <1>11 DEF Tasklike
  <1>14. Whole(u.s) /\ Below(u.s, from)
    <2>1. Below(s, to) /\ s.mapped \subseteq 0..TRAMPOLINE
      BY <1>2, <1>6, <1>7, <1>8, SpaceFields DEF Sound
    <2> QED BY <1>8, <1>10, <2>1, MemConstants DEF Whole, Below, UserPages
  <1>15. /\ task'[p].frame /\ Whole(task'[p].space) /\ Below(task'[p].space, PagesOf(task'[p].sz))
         /\ free' \in Nat /\ free' + Size(task'[p].space) = free + Size(task[p].space)
    BY <1>5, <1>7, <1>8, <1>9, <1>10, <1>11, <1>13, <1>14
  <1> QED BY <1>1, <1>2, <1>12, <1>13, <1>15, UserStep

LEMMA ArgsFacts ==
  ASSUME MInv, NEW p \in Tasks, In(p, "args")
  PROVE  /\ task[p].state = "LIVE" /\ sys[p].op = "args" /\ halted = FALSE
         /\ sys[p].argv \in Nat /\ sys[p].image = NoSpace /\ sys[p].sz = 0
         /\ Below(task[p].space, PagesOf(task[p].sz))
         /\ HeldBy(task[p], sys[p]) = 1 + Size(task[p].space) + sys[p].argv
  <1>1. task[p].state = "LIVE" /\ sys[p].op = "args" /\ halted = FALSE
    BY DEF In, MInv
  <1>2. sys[p].image = NoSpace /\ sys[p].sz = 0 /\ Below(task[p].space, PagesOf(task[p].sz))
    BY <1>1, Alive DEF Consistent, InCall
  <1>3. sys[p].argv \in Nat
    BY <1>1, Alive, SysTypes
  <1>4. HeldBy(task[p], sys[p]) = 1 + Size(task[p].space) + Size(NoSpace) + sys[p].argv
    BY <1>1, <1>2, Alive
  <1> QED BY <1>1, <1>2, <1>3, <1>4, Alive, NoSpaceSound

\* A step of a system call that has no image: what p holds beside its address space stays.
LEMMA ArgsStep ==
  ASSUME MInv, NEW p \in Tasks, In(p, "args"), machine' = machine, sys' = sys, halted' = FALSE,
         task' \in [Tasks -> Tasklike], \A q \in Tasks : q # p => task'[q] = task[q],
         task'[p].state = "LIVE", task'[p].frame, Whole(task'[p].space),
         Below(task'[p].space, PagesOf(task'[p].sz)),
         free' \in Nat, free' + Size(task'[p].space) = free + Size(task[p].space)
  PROVE  MInv'
  <1>1. /\ task[p].state = "LIVE" /\ sys[p].op = "args" /\ sys[p].argv \in Nat
        /\ sys[p].image = NoSpace /\ sys[p].sz = 0
        /\ HeldBy(task[p], sys[p]) = 1 + Size(task[p].space) + sys[p].argv
    BY ArgsFacts
  <1>2. free \in Nat /\ sys \in [Tasks -> Syslike] /\ Sound(task'[p].space)
    BY DEF MInv, MemType, Whole
  <1>3. Size(task'[p].space) \in Nat /\ Size(task[p].space) \in Nat
    BY <1>1, <1>2, Alive, SizeNat
  <1>4. Consistent(task'[p], sys[p])
    BY <1>1, <1>2 DEF Consistent, TaskSound, InCall, InGrow, InExec
  <1>5. HeldBy(task'[p], sys[p]) = 1 + Size(task'[p].space) + sys[p].argv
    BY <1>1, <1>3, NoSpaceSound DEF HeldBy
  <1>6. free' + HeldBy(task'[p], sys'[p]) = free + HeldBy(task[p], sys[p])
    BY <1>1, <1>2, <1>3, <1>5
  <1> QED BY <1>1, <1>2, <1>4, <1>6, OneTask

LEMMA PageFaultStep ==
  ASSUME MInv, NEW p \in Tasks, machine' = machine, NEW a \in 0..(MAXVA * PGSIZE - 1), PageFault(p, a)
  PROVE  MInv'
  <1>1. (In(p, "user") \/ In(p, "args")) /\ sys' = sys
    BY DEF PageFault, Faults
  <1>2. /\ task[p].state = "LIVE" /\ halted = FALSE
        /\ Below(task[p].space, PagesOf(task[p].sz))
    BY <1>1, UserFacts, ArgsFacts
  <1>3. /\ task \in [Tasks -> Tasklike] /\ task[p] \in Tasklike /\ free \in Nat
    BY DEF MInv, MemType
  <1>4. Whole(task[p].space) /\ Sound(task[p].space) /\ task[p].frame /\ Size(task[p].space) \in Nat
    BY <1>2, Alive
  <1>5. PICK m : m = Vmfault(p, a)
    OBVIOUS
  <1>6. /\ m.n \in Nat /\ m.remap = FALSE /\ Whole(m.s) /\ Below(m.s, PagesOf(task[p].sz))
        /\ m.n + Size(m.s) = free + Size(task[p].space)
    <2>1. CASE a >= task[p].sz \/ a \div PGSIZE \in task[p].space.mapped
      <3>1. m = [ok |-> FALSE, n |-> free, s |-> task[p].space, remap |-> FALSE]
        BY <1>5, <2>1 DEF Vmfault
      <3>2. m.n = free /\ m.s = task[p].space /\ m.remap = FALSE
        BY <3>1
      <3> QED BY <1>2, <1>3, <1>4, <3>2
    <2>2. CASE ~(a >= task[p].sz \/ a \div PGSIZE \in task[p].space.mapped)
      <3>1. a \in Nat /\ task[p].sz \in Nat /\ a < task[p].sz
        BY <1>3, <2>2, TaskTypes
      <3>2. a \div PGSIZE \in Nat /\ a \div PGSIZE < PagesOf(task[p].sz)
        BY <3>1, PageOfByte
      <3>3. PICK va \in 0..(TRAPFRAME - 1) : va = a \div PGSIZE
        BY <1>3, <3>2, TaskTypes, MemConstants
      <3>4. PICK s : s = task[p].space
        OBVIOUS
      <3>5. m = AllocPage(free, s, va)
        BY <1>5, <2>2, <3>3, <3>4 DEF Vmfault
      <3>6. Sound(s) /\ va \notin s.mapped
        BY <1>4, <2>2, <3>3, <3>4
      <3>7. Maps(s, va, m) /\ m.n + Size(m.s) = free + Size(s)
        BY <1>3, <3>5, <3>6, AllocPageFacts
      <3>8. /\ m.n \in Nat /\ m.ok \in BOOLEAN /\ m.remap = FALSE /\ Sound(m.s)
            /\ m.ok => m.s.mapped = s.mapped \cup {va}
            /\ ~m.ok => m.s.mapped = s.mapped
        BY <3>6, <3>7 DEF Maps
      <3>9. Whole(m.s) /\ Below(m.s, PagesOf(task[p].sz))
        BY <1>2, <1>4, <3>2, <3>3, <3>4, <3>8 DEF Whole, Below, UserPages
      <3> QED BY <3>4, <3>7, <3>8, <3>9
    <2> QED BY <2>1, <2>2
  <1>7. PICK s \in Spaces : s = m.s
    BY <1>6 DEF Whole, Sound
  <1>8. free' = m.n /\ halted' = FALSE
    BY <1>2, <1>5, <1>6 DEF PageFault, Panic
  <1>9. /\ task' \in [Tasks -> Tasklike] /\ task'[p].state \in {"LIVE", "ZOMBIE"}
        /\ task'[p].state = "LIVE" \/ In(p, "user")
        /\ task'[p].sz = task[p].sz /\ task'[p].frame = task[p].frame /\ task'[p].space = s
        /\ \A q \in Tasks : q # p => task'[q] = task[q]
    <2>1. PICK w : w = [task EXCEPT ![p].space = s]
      OBVIOUS
    <2>2. w \in [Tasks -> Tasklike]
      BY <1>3, <1>7, <2>1, TaskSet
    <2>3. /\ w[p].state = task[p].state /\ w[p].sz = task[p].sz
          /\ w[p].frame = task[p].frame /\ w[p].space = s
          /\ \A q \in Tasks : q # p => w[q] = task[q]
      BY <1>3, <2>1 DEF Tasklike
    <2>4. task' = w \/ (task' = [w EXCEPT ![p].state = "ZOMBIE"] /\ In(p, "user"))
      BY <1>5, <1>7, <2>1 DEF PageFault
    <2>5. CASE task' = w
      BY <1>2, <2>2, <2>3, <2>5
    <2>6. CASE task' = [w EXCEPT ![p].state = "ZOMBIE"] /\ In(p, "user")
      <3>1. task' \in [Tasks -> Tasklike]
        BY <2>2, <2>6, TaskSet
      <3>2. /\ task'[p].state = "ZOMBIE" /\ task'[p].sz = w[p].sz
            /\ task'[p].frame = w[p].frame /\ task'[p].space = w[p].space
            /\ \A q \in Tasks : q # p => task'[q] = w[q]
        BY <2>2, <2>6 DEF Tasklike
      <3> QED BY <2>3, <2>6, <3>1, <3>2
    <2> QED BY <2>4, <2>5, <2>6
  <1>10. CASE In(p, "user")
    BY <1>1, <1>2, <1>3, <1>4, <1>6, <1>7, <1>8, <1>9, <1>10, UserStep
  <1>11. CASE ~In(p, "user")
    BY <1>1, <1>2, <1>3, <1>4, <1>6, <1>7, <1>8, <1>9, <1>11, ArgsStep
  <1> QED BY <1>10, <1>11

\* A process that sbrk() is growing.
LEMMA GrowFacts ==
  ASSUME MInv, NEW p \in Tasks, In(p, "grow")
  PROVE  /\ task[p].state = "LIVE" /\ sys[p].op = "grow" /\ halted = FALSE
         /\ sys[p].argv = 0 /\ sys[p].image = NoSpace /\ sys[p].sz = 0
         /\ task[p].sz <= sys[p].upto /\ PagesOf(task[p].sz) <= sys[p].at
         /\ sys[p].at <= PagesOf(sys[p].upto) /\ Below(task[p].space, sys[p].at)
         /\ HeldBy(task[p], sys[p]) = 1 + Size(task[p].space)
  <1>1. task[p].state = "LIVE" /\ sys[p].op = "grow" /\ halted = FALSE
    BY DEF In, MInv
  <1>2. sys[p].argv = 0 /\ sys[p].image = NoSpace /\ sys[p].sz = 0
    BY <1>1, Alive DEF Consistent, InCall
  <1>3. /\ task[p].sz <= sys[p].upto /\ PagesOf(task[p].sz) <= sys[p].at
        /\ sys[p].at <= PagesOf(sys[p].upto) /\ Below(task[p].space, sys[p].at)
    BY <1>1, Alive DEF Consistent, InGrow
  <1>4. HeldBy(task[p], sys[p]) = 1 + Size(task[p].space) + Size(NoSpace) + 0
    BY <1>1, <1>2, Alive
  <1> QED BY <1>1, <1>2, <1>3, <1>4, Alive, NoSpaceSound

\* A system call returns.
LEMMA ReturnStep ==
  ASSUME MInv, NEW p \in Tasks, task[p].state = "LIVE", machine' = machine,
         Return(p), halted' = FALSE,
         task' \in [Tasks -> Tasklike], \A q \in Tasks : q # p => task'[q] = task[q],
         task'[p].state = "LIVE", task'[p].frame, Whole(task'[p].space),
         Below(task'[p].space, PagesOf(task'[p].sz)),
         free' \in Nat, free' + Size(task'[p].space) + 1 = free + HeldBy(task[p], sys[p])
  PROVE  MInv'
  <1>1. sys \in [Tasks -> Syslike] /\ sys' = [sys EXCEPT ![p] = InUser]
    BY DEF MInv, MemType, Return
  <1>2. /\ sys' \in [Tasks -> Syslike] /\ sys'[p] = InUser
        /\ \A q \in Tasks : q # p => sys'[q] = sys[q]
    BY <1>1, UserTypes
  <1>3. task'[p] \in Tasklike
    OBVIOUS
  <1>4. Consistent(task'[p], InUser) /\ HeldBy(task'[p], InUser) = 1 + Size(task'[p].space)
    BY <1>3, AtRest
  <1>5. Size(task'[p].space) \in Nat
    BY SizeNat DEF Whole
  <1>6. Consistent(task'[p], sys'[p]) /\ sys'[p].op # "fork" /\ task[p].state # "USED"
        /\ free' + HeldBy(task'[p], sys'[p]) = free + HeldBy(task[p], sys[p])
    BY <1>2, <1>4, <1>5, UserTypes
  <1> QED BY <1>2, <1>6, OneTask

LEMMA GrowEndStep ==
  ASSUME MInv, NEW p \in Tasks, machine' = machine, GrowEnd(p) PROVE MInv'
  <1>1. /\ In(p, "grow") /\ task' = [task EXCEPT ![p].sz = sys[p].upto] /\ Return(p)
        /\ free' = free /\ halted' = halted
    BY DEF GrowEnd
  <1>2. /\ task[p].state = "LIVE" /\ halted = FALSE
        /\ sys[p].at <= PagesOf(sys[p].upto) /\ Below(task[p].space, sys[p].at)
        /\ HeldBy(task[p], sys[p]) = 1 + Size(task[p].space)
    BY <1>1, GrowFacts
  <1>3. /\ task \in [Tasks -> Tasklike] /\ task[p] \in Tasklike /\ free \in Nat /\ sys[p] \in Syslike
        /\ task[p].space \in Spaces
    BY TaskTypes DEF MInv, MemType
  <1>4. task[p].frame /\ Whole(task[p].space) /\ Size(task[p].space) \in Nat
    BY <1>2, Alive
  <1>5. sys[p].upto \in 0..Top /\ PagesOf(sys[p].upto) \in Int /\ sys[p].at \in Int
    BY <1>3, SysTypes
  <1>6. task' \in [Tasks -> Tasklike]
    BY <1>1, <1>3, <1>5, TaskSet
  <1>7. /\ task'[p].state = task[p].state /\ task'[p].sz = sys[p].upto
        /\ task'[p].frame = task[p].frame /\ task'[p].space = task[p].space
        /\ \A q \in Tasks : q # p => task'[q] = task[q]
    BY <1>1, <1>3 DEF Tasklike
  <1>8. Below(task'[p].space, PagesOf(task'[p].sz))
    BY <1>2, <1>3, <1>5, <1>7, BelowMore
  <1>9. /\ task'[p].state = "LIVE" /\ task'[p].frame /\ Whole(task'[p].space) /\ halted' = FALSE
        /\ free' \in Nat /\ free' + Size(task'[p].space) + 1 = free + HeldBy(task[p], sys[p])
    BY <1>1, <1>2, <1>3, <1>4, <1>7
  <1> QED BY <1>1, <1>2, <1>6, <1>7, <1>8, <1>9, ReturnStep

\* A page to go is below the trapframe, and the one after it within the size.
LEMMA NextPage ==
  ASSUME NEW at \in Nat, NEW upto \in 0..Top, at * PGSIZE < upto
  PROVE  at < PagesOf(upto) /\ at \in 0..(TRAPFRAME - 1) /\ at + 1 <= PagesOf(upto)
         /\ at + 1 \in 0..TRAPFRAME
  <1>1. upto \in Nat /\ PagesOf(upto) \in 0..TRAPFRAME /\ at * PGSIZE \in Nat
    BY PagesOfTop, MemConstants
  <1>2. ~(PagesOf(upto) <= at)
    BY <1>1, PagesBound
  <1> QED BY <1>1, <1>2, MemConstants

LEMMA GrowPageStep ==
  ASSUME MInv, NEW p \in Tasks, machine' = machine, GrowPage(p) PROVE MInv'
  <1>1. In(p, "grow") /\ sys[p].at * PGSIZE < sys[p].upto
    BY DEF GrowPage
  <1>2. /\ task[p].state = "LIVE" /\ sys[p].op = "grow" /\ halted = FALSE
        /\ sys[p].argv = 0 /\ sys[p].image = NoSpace /\ sys[p].sz = 0
        /\ task[p].sz <= sys[p].upto /\ PagesOf(task[p].sz) <= sys[p].at
        /\ sys[p].at <= PagesOf(sys[p].upto) /\ Below(task[p].space, sys[p].at)
        /\ HeldBy(task[p], sys[p]) = 1 + Size(task[p].space)
    BY <1>1, GrowFacts
  <1>3. /\ task \in [Tasks -> Tasklike] /\ task[p] \in Tasklike /\ free \in Nat
        /\ sys \in [Tasks -> Syslike] /\ sys[p] \in Syslike
    BY DEF MInv, MemType
  <1>4. /\ task[p].frame /\ Whole(task[p].space) /\ Sound(task[p].space)
        /\ Size(task[p].space) \in Nat
    BY <1>2, Alive
  <1>5. sys[p].upto \in 0..Top /\ sys[p].at \in Nat
    BY <1>3, SysTypes
  <1>6. /\ sys[p].at \in 0..(TRAPFRAME - 1) /\ sys[p].at + 1 <= PagesOf(sys[p].upto)
        /\ sys[p].at + 1 \in 0..TRAPFRAME
    BY <1>1, <1>5, NextPage
  <1>7. PICK va \in 0..(TRAPFRAME - 1) : va = sys[p].at
    BY <1>6
  <1>8. PICK from \in Nat : from = PagesOf(task[p].sz)
    BY <1>3, TaskTypes
  <1>9. PICK s, m : s = task[p].space /\ m = Uvmalloc(free, s, from, va)
    OBVIOUS
  <1>10. Sound(s) /\ from <= va /\ Below(s, va)
    BY <1>2, <1>4, <1>7, <1>8, <1>9
  <1>11. Grows(s, from, va, m) /\ m.n + Size(m.s) = free + Size(s)
    BY <1>3, <1>9, <1>10, UvmallocFacts
  <1>12. /\ m.n \in Nat /\ m.ok \in BOOLEAN /\ m.remap = FALSE /\ Sound(m.s) /\ Whole(m.s)
         /\ m.ok => Below(m.s, va + 1)
         /\ ~m.ok => Below(m.s, from)
    BY <1>4, <1>9, <1>11 DEF Grows
  <1>13. m.s \in Spaces
    BY <1>12 DEF Sound
  <1>14. /\ free' = m.n /\ halted' = FALSE /\ task' = [task EXCEPT ![p].space = m.s]
         /\ IF m.ok THEN sys' = [sys EXCEPT ![p].at = va + 1] ELSE Return(p)
    BY <1>2, <1>7, <1>8, <1>9, <1>12 DEF GrowPage, Panic
  <1>15. task' \in [Tasks -> Tasklike]
    BY <1>3, <1>13, <1>14, TaskSet
  <1>16. /\ task'[p].state = "LIVE" /\ task'[p].sz = task[p].sz
         /\ task'[p].frame /\ task'[p].space = m.s
         /\ \A q \in Tasks : q # p => task'[q] = task[q]
    BY <1>2, <1>3, <1>4, <1>14 DEF Tasklike
  <1>17. Size(m.s) \in Nat
    BY <1>12, SizeNat
  <1>18. CASE ~m.ok
    <2>1. Below(task'[p].space, PagesOf(task'[p].sz)) /\ Return(p)
      BY <1>8, <1>12, <1>14, <1>16, <1>18
    <2>2. free' \in Nat /\ free' + Size(task'[p].space) + 1 = free + HeldBy(task[p], sys[p])
      BY <1>2, <1>3, <1>4, <1>9, <1>11, <1>12, <1>14, <1>16, <1>17
    <2>3. Whole(task'[p].space)
      BY <1>12, <1>16
    <2> QED BY <1>2, <1>14, <1>15, <1>16, <2>1, <2>2, <2>3, ReturnStep
  <1>19. CASE m.ok
    <2>1. sys' = [sys EXCEPT ![p].at = va + 1] /\ va + 1 \in 0..TRAPFRAME
      BY <1>6, <1>7, <1>14, <1>19
    <2>2. sys' \in [Tasks -> Syslike]
      BY <1>3, <2>1, SysSet
    <2>3. /\ sys'[p].op = "grow" /\ sys'[p].at = va + 1 /\ sys'[p].upto = sys[p].upto
          /\ sys'[p].argv = 0 /\ sys'[p].image = NoSpace /\ sys'[p].sz = 0
          /\ \A q \in Tasks : q # p => sys'[q] = sys[q]
      BY <1>2, <1>3, <2>1 DEF Syslike
    <2>4. TaskSound(task'[p], sys'[p])
      BY <1>12, <1>16, <2>3 DEF TaskSound
    <2>5. InCall(task'[p], sys'[p]) /\ InExec(sys'[p])
      BY <1>16, <2>3 DEF InCall, InExec
    <2>6. InGrow(task'[p], sys'[p])
      <3>1. PagesOf(task[p].sz) <= va + 1 /\ va + 1 <= PagesOf(sys[p].upto)
        BY <1>6, <1>7, <1>8, <1>10
      <3> QED BY <1>2, <1>12, <1>16, <1>19, <2>3, <3>1 DEF InGrow
    <2>7. Consistent(task'[p], sys'[p])
      BY <2>4, <2>5, <2>6 DEF Consistent
    <2>8. HeldBy(task'[p], sys'[p]) = 1 + Size(m.s)
      BY <1>16, <1>17, <2>3, NoSpaceSound DEF HeldBy
    <2>9. free' \in Nat /\ free' + HeldBy(task'[p], sys'[p]) = free + HeldBy(task[p], sys[p])
      BY <1>2, <1>3, <1>4, <1>9, <1>11, <1>12, <1>14, <1>17, <2>8
    <2>10. task[p].state # "USED" /\ sys'[p].op # "fork"
      BY <1>2, <2>3
    <2>11. MInv /\ p \in Tasks /\ machine' = machine /\ halted' = FALSE
      BY <1>14
    <2> QED BY ONLY <1>15, <1>16, <2>2, <2>3, <2>7, <2>9, <2>10, <2>11, OneTask
  <1> QED BY <1>12, <1>18, <1>19

LEMMA PagesOfZero == PagesOf(0) = 0
  <1>1. 0 * PGSIZE = 0 /\ 0 \in Nat
    BY MemConstants
  <1> QED BY <1>1, PagesOfPages

\* What fits is below the trapframe.
LEMMA FitsTop ==
  ASSUME NEW x \in Nat, Fits(x)
  PROVE  x \in 0..Top /\ PagesOf(x) \in Nat /\ PagesOf(x) <= TRAPFRAME
  <1>1. PagesOf(x) \in Nat /\ PagesOf(x) <= TRAPFRAME
    BY PagesNat, MemConstants DEF Fits
  <1>2. x <= TRAPFRAME * PGSIZE
    BY <1>1, PagesBound, MemConstants
  <1> QED BY <1>1, <1>2, MemConstants DEF Top

LEMMA ProgramFits ==
  ASSUME NEW program \in Programs
  PROVE  /\ program \in Seq(Nat) /\ program # <<>>
         /\ Head(program) \in Nat /\ Tail(program) \in Seq(Nat) /\ Fits(Head(program))
         /\ \A i \in DOMAIN Tail(program) : Fits(Tail(program)[i])
  <1>1. program \in Seq(Nat) /\ program # <<>> /\ \A i \in DOMAIN program : Fits(program[i])
    BY MemoryAssumption DEF Fits
  <1>2. Head(program) = program[1] /\ 1 \in DOMAIN program /\ Head(program) \in Nat
        /\ Tail(program) \in Seq(Nat)
    BY <1>1
  <1>3. \A i \in DOMAIN Tail(program) : Tail(program)[i] = program[i + 1] /\ i + 1 \in DOMAIN program
    BY <1>1
  <1> QED BY <1>1, <1>2, <1>3

LEMMA ExecCallStep ==
  ASSUME MInv, NEW p \in Tasks, machine' = machine, ExecCall(p) PROVE MInv'
  <1>1. /\ In(p, "user") /\ sys' = [sys EXCEPT ![p].op = "args"]
        /\ free' = free /\ task' = task /\ halted' = halted
    BY DEF ExecCall
  <1>2. /\ task[p].state = "LIVE" /\ sys[p] = InUser /\ halted = FALSE
        /\ Below(task[p].space, PagesOf(task[p].sz))
    BY <1>1, UserFacts
  <1>3. /\ task \in [Tasks -> Tasklike] /\ sys \in [Tasks -> Syslike] /\ free \in Nat
        /\ Consistent(task[p], sys[p])
    BY DEF MInv, MemType
  <1>4. sys' \in [Tasks -> Syslike]
    BY <1>1, <1>3, SysSet DEF Ops
  <1>5. /\ sys'[p].op = "args" /\ sys'[p].argv = 0 /\ sys'[p].image = NoSpace /\ sys'[p].sz = 0
        /\ \A q \in Tasks : q # p => sys'[q] = sys[q]
    <2>1. /\ sys'[p].op = "args" /\ sys'[p].argv = sys[p].argv
          /\ sys'[p].image = sys[p].image /\ sys'[p].sz = sys[p].sz
          /\ \A q \in Tasks : q # p => sys'[q] = sys[q]
      BY <1>1, <1>3 DEF Syslike
    <2> QED BY <2>1, <1>2, UserTypes
  <1>6. TaskSound(task[p], sys'[p])
    BY <1>2, <1>3, <1>5 DEF Consistent, TaskSound
  <1>7. InCall(task[p], sys'[p]) /\ InGrow(task[p], sys'[p]) /\ InExec(sys'[p])
    BY <1>2, <1>5 DEF InCall, InGrow, InExec
  <1>8. HeldBy(task[p], sys'[p]) = HeldBy(task[p], sys[p])
    BY <1>2, <1>5, UserTypes DEF HeldBy
  <1>9. Consistent(task'[p], sys'[p])
    BY <1>1, <1>6, <1>7 DEF Consistent
  <1> QED BY <1>1, <1>2, <1>3, <1>4, <1>5, <1>8, <1>9, OneTask

\* exec() fails, or has nothing of the new image left.
LEMMA ExecFailsStep ==
  ASSUME MInv, NEW p \in Tasks, task[p].state = "LIVE", sys[p].op \in {"args", "load", "stack"},
         machine' = machine, halted' = FALSE, task' = task,
         NEW n \in Nat, n = free + Size(sys[p].image), ExecFails(p, n)
  PROVE  MInv'
  <1>1. Return(p) /\ free' = n + sys[p].argv
    BY DEF ExecFails
  <1>2. /\ task \in [Tasks -> Tasklike] /\ task[p].frame /\ Whole(task[p].space)
        /\ Below(task[p].space, PagesOf(task[p].sz)) /\ free \in Nat
        /\ Size(task[p].space) \in Nat /\ Size(sys[p].image) \in Nat
        /\ HeldBy(task[p], sys[p])
             = 1 + Size(task[p].space) + Size(sys[p].image) + sys[p].argv
    BY Alive DEF MInv, MemType
  <1>3. sys[p].argv \in Nat
    BY Alive, SysTypes
  <1>4. free' \in Nat /\ free' + Size(task'[p].space) + 1 = free + HeldBy(task[p], sys[p])
    BY <1>1, <1>2, <1>3
  <1> QED BY <1>1, <1>2, <1>4, ReturnStep

\* A step of exec(): only its locals change, and what the image takes.
LEMMA ExecStep ==
  ASSUME MInv, NEW p \in Tasks, task[p].state = "LIVE", sys[p].op \in {"args", "load", "stack"},
         machine' = machine, halted' = FALSE, task' = task,
         sys' \in [Tasks -> Syslike], \A q \in Tasks : q # p => sys'[q] = sys[q],
         sys'[p].op \in {"args", "load", "stack"}, InExec(sys'[p]),
         sys'[p].op = "args" => sys'[p].image = NoSpace /\ sys'[p].sz = 0,
         Sound(sys'[p].image), free' \in Nat,
         free' + Size(sys'[p].image) + sys'[p].argv = free + Size(sys[p].image) + sys[p].argv
  PROVE  MInv'
  <1>1. /\ task \in [Tasks -> Tasklike] /\ free \in Nat /\ Consistent(task[p], sys[p])
        /\ Size(task[p].space) \in Nat /\ Size(sys[p].image) \in Nat /\ task[p].frame
        /\ HeldBy(task[p], sys[p])
             = 1 + Size(task[p].space) + Size(sys[p].image) + sys[p].argv
    BY Alive DEF MInv, MemType
  <1>2. TaskSound(task[p], sys'[p])
    BY <1>1 DEF Consistent, TaskSound
  <1>3. InCall(task[p], sys'[p]) /\ InGrow(task[p], sys'[p])
    BY DEF InCall, InGrow
  <1>4. Consistent(task'[p], sys'[p])
    BY <1>2, <1>3 DEF Consistent
  <1>5. HeldBy(task[p], sys'[p])
          = 1 + Size(task[p].space) + Size(sys'[p].image) + sys'[p].argv
    BY <1>1 DEF HeldBy
  <1>6. sys[p].argv \in Nat /\ sys'[p].argv \in Nat /\ Size(sys'[p].image) \in Nat
    BY Alive, SysTypes, SizeNat
  <1>7. free' + HeldBy(task[p], sys'[p]) = free + HeldBy(task[p], sys[p])
    BY <1>1, <1>5, <1>6
  <1>8. free' + HeldBy(task'[p], sys'[p]) = free + HeldBy(task[p], sys[p])
    BY <1>7
  <1> QED BY <1>1, <1>4, <1>8, OneTask

LEMMA ExecArgStep ==
  ASSUME MInv, NEW p \in Tasks, machine' = machine, ExecArg(p) PROVE MInv'
  <1>1. /\ In(p, "args") /\ sys[p].argv < MaxArgs /\ task' = task /\ halted' = halted
    BY DEF ExecArg
  <1>2. /\ task[p].state = "LIVE" /\ sys[p].op = "args" /\ halted = FALSE
        /\ sys[p].argv \in Nat /\ sys[p].image = NoSpace /\ sys[p].sz = 0
        /\ HeldBy(task[p], sys[p]) = 1 + Size(task[p].space) + sys[p].argv
    BY <1>1, ArgsFacts
  <1>3. /\ task \in [Tasks -> Tasklike] /\ sys \in [Tasks -> Syslike] /\ free \in Nat
        /\ Consistent(task[p], sys[p]) /\ Size(task[p].space) \in Nat
    BY <1>2, Alive DEF MInv, MemType
  <1>4. CASE ExecFails(p, free)
    <2>1. free = free + Size(sys[p].image)
      BY <1>2, <1>3, NoSpaceSound
    <2> QED BY <1>1, <1>2, <1>3, <1>4, <2>1, ExecFailsStep
  <1>5. CASE free > 0 /\ free' = free - 1 /\ sys' = [sys EXCEPT ![p].argv = @ + 1]
    <2>1. PICK n \in 0..MaxArgs : n = sys[p].argv + 1
      BY <1>1, <1>2, MemConstants
    <2>2. sys' = [sys EXCEPT ![p].argv = n]
      BY <1>5, <2>1
    <2>3. sys' \in [Tasks -> Syslike]
      BY <1>3, <2>2, SysSet
    <2>4. /\ sys'[p].op = "args" /\ sys'[p].argv = n /\ sys'[p].image = NoSpace /\ sys'[p].sz = 0
          /\ \A q \in Tasks : q # p => sys'[q] = sys[q]
      BY <1>2, <1>3, <2>2 DEF Syslike
    <2>5. InExec(sys'[p]) /\ Sound(sys'[p].image)
      BY <2>4, NoSpaceSound DEF InExec
    <2>6. free' \in Nat /\ free' + n = free + sys[p].argv
      BY <1>2, <1>3, <1>5, <2>1
    <2>7. free' + Size(sys'[p].image) + sys'[p].argv = free + Size(sys[p].image) + sys[p].argv
      BY <1>2, <1>3, <2>1, <2>4, <2>6, NoSpaceSound, MemConstants
    <2> QED BY <1>1, <1>2, <2>3, <2>4, <2>5, <2>6, <2>7, ExecStep
  <1> QED BY <1>4, <1>5 DEF ExecArg

LEMMA ExecOpenStep ==
  ASSUME MInv, NEW p \in Tasks, machine' = machine, NEW program \in Programs, ExecOpen(p, program)
  PROVE  MInv'
  <1>1. In(p, "args") /\ task' = task /\ halted' = halted
    BY DEF ExecOpen
  <1>2. /\ task[p].state = "LIVE" /\ sys[p].op = "args" /\ halted = FALSE
        /\ sys[p].argv \in Nat /\ sys[p].image = NoSpace /\ sys[p].sz = 0
        /\ HeldBy(task[p], sys[p]) = 1 + Size(task[p].space) + sys[p].argv
    BY <1>1, ArgsFacts
  <1>3. /\ task \in [Tasks -> Tasklike] /\ sys \in [Tasks -> Syslike] /\ free \in Nat
        /\ Consistent(task[p], sys[p]) /\ Size(task[p].space) \in Nat
    BY <1>2, Alive DEF MInv, MemType
  <1>4. free = free + Size(sys[p].image)
    BY <1>2, <1>3, NoSpaceSound
  <1>5. PICK r : r = ProcPagetable(free)
    OBVIOUS
  <1>6. Fresh(r) /\ IF r.ok THEN r.n + Size(r.s) = free ELSE r.n = free
    BY <1>3, <1>5, ProcPagetableFacts
  <1>7. CASE ExecFails(p, free)
    BY <1>1, <1>2, <1>3, <1>4, <1>7, ExecFailsStep
  <1>8. CASE ~r.ok /\ ExecFails(p, r.n)
    <2>1. ExecFails(p, free)
      BY <1>6, <1>8
    <2> QED BY <1>1, <1>2, <1>3, <1>4, <2>1, ExecFailsStep
  <1>9. CASE /\ r.ok /\ free' = r.n
             /\ sys' = [sys EXCEPT ![p].op = "load", ![p].image = r.s, ![p].at = 0,
                          ![p].upto = Head(program), ![p].segs = Tail(program)]
    <2>1. r.n \in Nat /\ Whole(r.s) /\ UserPages(r.s) = {} /\ r.n + Size(r.s) = free
      BY <1>6, <1>9 DEF Fresh
    <2>2. Sound(r.s) /\ r.s \in Spaces /\ Size(r.s) \in Nat
      BY <2>1, SizeNat DEF Whole, Sound
    <2>3. PICK h \in 0..Top : h = Head(program)
      BY ProgramFits, FitsTop
    <2>4. PICK g \in Seq(Nat) : g = Tail(program)
      BY ProgramFits
    <2>5. Fits(h) /\ \A i \in DOMAIN g : Fits(g[i])
      BY <2>3, <2>4, ProgramFits
    <2>6. sys' = [sys EXCEPT ![p].op = "load", ![p].image = r.s, ![p].at = 0,
                    ![p].upto = h, ![p].segs = g]
      BY <1>9, <2>3, <2>4
    <2>7. /\ sys'[p].op = "load" /\ sys'[p].at = 0 /\ sys'[p].upto = h /\ sys'[p].segs = g
          /\ sys'[p].argv = sys[p].argv /\ sys'[p].image = r.s /\ sys'[p].sz = 0
          /\ \A q \in Tasks : q # p => sys'[q] = sys[q]
      BY <1>2, <1>3, <2>6 DEF Syslike
    <2>8. sys' \in [Tasks -> Syslike]
      <3>1. PICK w1 : w1 = [sys EXCEPT ![p].op = "load"]
        OBVIOUS
      <3>2. PICK w2 : w2 = [w1 EXCEPT ![p].image = r.s]
        OBVIOUS
      <3>3. PICK w3 : w3 = [w2 EXCEPT ![p].at = 0]
        OBVIOUS
      <3>4. PICK w4 : w4 = [w3 EXCEPT ![p].upto = h]
        OBVIOUS
      <3>5. sys' = [w4 EXCEPT ![p].segs = g]
        BY <2>6, <3>1, <3>2, <3>3, <3>4
      <3>6. w1 \in [Tasks -> Syslike]
        BY <1>3, <3>1, SysSet DEF Ops
      <3>7. w2 \in [Tasks -> Syslike]
        BY <2>2, <3>2, <3>6, SysSet
      <3>8. w3 \in [Tasks -> Syslike]
        <4>1. 0 \in 0..TRAPFRAME
          BY MemConstants
        <4> QED BY <3>3, <3>7, <4>1, SysSet
      <3>9. w4 \in [Tasks -> Syslike]
        BY <3>4, <3>8, SysSet
      <3> QED BY <3>5, <3>9, SysSet
    <2>11. InExec(sys'[p])
      <3>1. PagesOf(h) \in Nat /\ h \in Nat
        BY PagesNat, MemConstants
      <3>2. Below(r.s, 0)
        BY <2>1 DEF Below
      <3> QED BY <2>1, <2>5, <2>7, <3>1, <3>2, PagesOfZero DEF InExec
    <2>12. Sound(sys'[p].image) /\ Size(sys[p].image) = 0
      BY <1>2, <2>2, <2>7, NoSpaceSound
    <2>13. free' \in Nat
           /\ free' + Size(sys'[p].image) + sys'[p].argv = free + Size(sys[p].image) + sys[p].argv
      BY <1>2, <1>3, <1>9, <2>1, <2>2, <2>7, <2>12
    <2> QED BY <1>1, <1>2, <2>7, <2>8, <2>11, <2>12, <2>13, ExecStep
  <1> QED BY <1>5, <1>7, <1>8, <1>9 DEF ExecOpen

\* The new image as exec() fills it.
LEMMA LoadFacts ==
  ASSUME MInv, NEW p \in Tasks, In(p, "load") \/ In(p, "stack")
  PROVE  /\ task[p].state = "LIVE" /\ sys[p].op \in {"load", "stack"} /\ halted = FALSE
         /\ task[p] \in Tasklike /\ sys[p] \in Syslike
         /\ task \in [Tasks -> Tasklike] /\ sys \in [Tasks -> Syslike] /\ free \in Nat
         /\ InExec(sys[p]) /\ Whole(sys[p].image) /\ Sound(sys[p].image)
         /\ Size(sys[p].image) \in Nat
         /\ Below(sys[p].image, sys[p].at) /\ sys[p].sz <= sys[p].upto
         /\ PagesOf(sys[p].sz) <= sys[p].at /\ sys[p].at <= PagesOf(sys[p].upto)
  <1>1. /\ task[p].state = "LIVE" /\ sys[p].op \in {"load", "stack"} /\ halted = FALSE
    BY DEF In, MInv
  <1>2. /\ task[p] \in Tasklike /\ sys[p] \in Syslike
        /\ task \in [Tasks -> Tasklike] /\ sys \in [Tasks -> Syslike] /\ free \in Nat
        /\ InExec(sys[p]) /\ Sound(sys[p].image) /\ Size(sys[p].image) \in Nat
    BY <1>1, Alive DEF MInv, MemType, Consistent
  <1>3. /\ Whole(sys[p].image) /\ Below(sys[p].image, sys[p].at) /\ sys[p].sz <= sys[p].upto
        /\ PagesOf(sys[p].sz) <= sys[p].at /\ sys[p].at <= PagesOf(sys[p].upto)
    BY <1>1, <1>2 DEF InExec
  <1> QED BY <1>1, <1>2, <1>3

\* The new image is freed when exec() fails.
LEMMA ImageFreed ==
  ASSUME MInv, NEW p \in Tasks, In(p, "load") \/ In(p, "stack"), machine' = machine, task' = task,
         NEW n \in Nat, NEW s, Sound(s), NEW z \in 0..Top, Below(s, PagesOf(z)),
         n + Size(s) = free + Size(sys[p].image),
         NEW r, r = FreeSpace(n, s, z), ExecFails(p, r.n), Panic(r.leaf)
  PROVE  MInv'
  <1>0. Sound(s) /\ Below(s, PagesOf(z)) /\ r = FreeSpace(n, s, z) /\ n \in Nat /\ z \in 0..Top
    OBVIOUS
  <1>1. r.n \in Nat /\ r.n = n + Size(s) /\ r.leaf = FALSE
    BY ONLY <1>0, FreeSpaceFacts
  <1>2. task[p].state = "LIVE" /\ sys[p].op \in {"load", "stack"} /\ halted = FALSE
    BY LoadFacts
  <1>3. halted' = FALSE
    BY <1>1, <1>2 DEF Panic
  <1>4. PICK k \in Nat : k = r.n
    BY <1>1
  <1>5. k = free + Size(sys[p].image) /\ ExecFails(p, k)
    BY <1>1, <1>4
  <1> QED BY <1>2, <1>3, <1>5, ExecFailsStep

LEMMA ImagePageStep ==
  ASSUME MInv, NEW p \in Tasks, machine' = machine, ImagePage(p) PROVE MInv'
  <1>1. /\ In(p, "load") \/ In(p, "stack")
        /\ sys[p].at * PGSIZE < sys[p].upto /\ task' = task
    BY DEF ImagePage
  <1>2. /\ task[p].state = "LIVE" /\ sys[p].op \in {"load", "stack"} /\ halted = FALSE
        /\ sys \in [Tasks -> Syslike] /\ sys[p] \in Syslike /\ free \in Nat
        /\ InExec(sys[p]) /\ Whole(sys[p].image) /\ Sound(sys[p].image)
        /\ Size(sys[p].image) \in Nat
        /\ Below(sys[p].image, sys[p].at) /\ sys[p].sz <= sys[p].upto
        /\ PagesOf(sys[p].sz) <= sys[p].at /\ sys[p].at <= PagesOf(sys[p].upto)
    BY <1>1, LoadFacts
  <1>3. /\ sys[p].upto \in 0..Top /\ sys[p].at \in Nat /\ sys[p].sz \in 0..Top
        /\ PagesOf(sys[p].sz) \in Nat /\ sys[p].argv \in Nat
    BY <1>2, SysTypes, MemConstants
  <1>4. /\ sys[p].at \in 0..(TRAPFRAME - 1) /\ sys[p].at + 1 <= PagesOf(sys[p].upto)
        /\ sys[p].at + 1 \in 0..TRAPFRAME
    BY <1>1, <1>3, NextPage
  <1>5. PICK va \in 0..(TRAPFRAME - 1) : va = sys[p].at
    BY <1>4
  <1>6. PICK from \in Nat : from = PagesOf(sys[p].sz)
    BY <1>3
  <1>7. PICK s, m : s = sys[p].image /\ m = Uvmalloc(free, s, from, va)
    OBVIOUS
  <1>8. Sound(s) /\ from <= va /\ Below(s, va)
    BY <1>2, <1>5, <1>6, <1>7
  <1>9. Grows(s, from, va, m) /\ m.n + Size(m.s) = free + Size(s)
    BY <1>2, <1>7, <1>8, UvmallocFacts
  <1>10. /\ m.n \in Nat /\ m.ok \in BOOLEAN /\ m.remap = FALSE /\ Sound(m.s) /\ Whole(m.s)
         /\ m.ok => Below(m.s, va + 1)
         /\ ~m.ok => Below(m.s, from)
    BY <1>2, <1>7, <1>9 DEF Grows
  <1>11. m.n + Size(m.s) = free + Size(sys[p].image)
    BY <1>7, <1>9
  <1>12. m = Uvmalloc(free, sys[p].image, PagesOf(sys[p].sz), sys[p].at)
    BY <1>5, <1>6, <1>7
  <1>13. CASE ~m.ok /\ ImageFails(p, m.n, m.s)
    <2>1. PICK z \in 0..Top : z = sys[p].sz
      BY <1>3
    <2>2. Below(m.s, PagesOf(z))
      BY <1>6, <1>10, <1>13, <2>1
    <2>3. PICK r : r = FreeSpace(m.n, m.s, z)
      OBVIOUS
    <2>4. ExecFails(p, r.n) /\ Panic(r.leaf)
      BY <1>13, <2>1, <2>3 DEF ImageFails
    <2>5. PICK n \in Nat : n = m.n
      BY <1>10
    <2>5r. PICK ms : ms = m.s
      OBVIOUS
    <2>6. /\ Sound(ms) /\ Below(ms, PagesOf(z)) /\ n + Size(ms) = free + Size(sys[p].image)
          /\ r = FreeSpace(n, ms, z)
      BY <1>10, <1>11, <2>2, <2>3, <2>5, <2>5r
    <2> QED BY <1>1, <2>4, <2>6, ImageFreed
  <1>14. CASE /\ m.ok /\ free' = m.n /\ Panic(m.remap)
              /\ sys' = [sys EXCEPT ![p].image = m.s, ![p].at = @ + 1]
    <2>1. sys' = [sys EXCEPT ![p].image = m.s, ![p].at = va + 1] /\ va + 1 \in 0..TRAPFRAME
      BY <1>2, <1>4, <1>5, <1>14 DEF Syslike
    <2>2. /\ sys'[p].op = sys[p].op /\ sys'[p].at = va + 1 /\ sys'[p].upto = sys[p].upto
          /\ sys'[p].argv = sys[p].argv /\ sys'[p].image = m.s /\ sys'[p].sz = sys[p].sz
          /\ sys'[p].segs = sys[p].segs
          /\ \A q \in Tasks : q # p => sys'[q] = sys[q]
      BY <1>2, <2>1 DEF Syslike
    <2>3. sys' \in [Tasks -> Syslike]
      <3>1. m.s \in Spaces
        BY <1>10 DEF Sound
      <3>2. PICK w : w = [sys EXCEPT ![p].image = m.s]
        OBVIOUS
      <3>3. w \in [Tasks -> Syslike]
        BY <1>2, <3>1, <3>2, SysSet
      <3>4. PICK x \in 0..TRAPFRAME : x = va + 1
        BY <2>1
      <3>5. sys' = [w EXCEPT ![p].at = x]
        BY <2>1, <3>2, <3>4
      <3> QED BY <3>3, <3>5, SysSet
    <2>4. InExec(sys'[p])
      <3>1. PagesOf(sys[p].sz) <= va + 1 /\ va + 1 <= PagesOf(sys[p].upto)
        BY <1>4, <1>5, <1>6, <1>8
      <3> QED BY <1>2, <1>10, <1>14, <2>2, <3>1 DEF InExec
    <2>5. halted' = FALSE
      BY <1>2, <1>10, <1>14 DEF Panic
    <2>6. Size(m.s) \in Nat
      BY <1>10, SizeNat
    <2>7. free' \in Nat
          /\ free' + Size(sys'[p].image) + sys'[p].argv = free + Size(sys[p].image) + sys[p].argv
      BY <1>2, <1>3, <1>10, <1>11, <1>14, <2>2, <2>6
    <2>8. Sound(sys'[p].image) /\ sys'[p].op \in {"load", "stack"}
      BY <1>2, <1>10, <2>2
    <2> QED BY <1>1, <1>2, <2>2, <2>3, <2>4, <2>5, <2>7, <2>8, ExecStep
  <1> QED BY <1>12, <1>13, <1>14 DEF ImagePage

LEMMA ImageBadStep ==
  ASSUME MInv, NEW p \in Tasks, machine' = machine, ImageBad(p) PROVE MInv'
  <1>1. /\ In(p, "load") \/ In(p, "stack")
        /\ task' = task
    BY DEF ImageBad
  <1>2. /\ sys[p] \in Syslike /\ free \in Nat /\ Sound(sys[p].image)
        /\ Below(sys[p].image, sys[p].at) /\ sys[p].at <= PagesOf(sys[p].upto)
    BY <1>1, LoadFacts
  <1>3. sys[p].upto \in 0..Top /\ sys[p].sz \in 0..Top /\ sys[p].at \in Int
        /\ PagesOf(sys[p].upto) \in Int /\ sys[p].image \in Spaces
    BY <1>2, SysTypes
  <1>4. CASE sys[p].at = PagesOf(sys[p].sz) /\ ImageFails(p, free, sys[p].image)
    <2>1. PICK z \in 0..Top : z = sys[p].sz
      BY <1>3
    <2>1r. PICK r : r = FreeSpace(free, sys[p].image, z)
      OBVIOUS
    <2>2. ExecFails(p, r.n) /\ Panic(r.leaf) /\ Below(sys[p].image, PagesOf(z))
      BY <1>2, <1>4, <2>1, <2>1r DEF ImageFails
    <2> QED BY <1>1, <1>2, <2>1, <2>1r, <2>2, ImageFreed
  <1>5. CASE LET r == FreeSpace(free, sys[p].image, sys[p].upto)
             IN  ExecFails(p, r.n) /\ Panic(r.leaf)
    <2>1. PICK z \in 0..Top : z = sys[p].upto
      BY <1>3
    <2>1r. PICK r : r = FreeSpace(free, sys[p].image, z)
      OBVIOUS
    <2>2. ExecFails(p, r.n) /\ Panic(r.leaf)
      BY <1>5, <2>1, <2>1r
    <2>3. Below(sys[p].image, PagesOf(z))
      BY <1>2, <1>3, <2>1, <2>1r, BelowMore
    <2> QED BY <1>1, <1>2, <2>1, <2>1r, <2>2, <2>3, ImageFreed
  <1> QED BY <1>4, <1>5 DEF ImageBad

\* What is left of a list, and its head, are in the list.
LEMMA HeadTail ==
  ASSUME NEW g \in Seq(Nat), g # <<>>
  PROVE  /\ Head(g) \in Nat /\ Tail(g) \in Seq(Nat) /\ Head(g) = g[1] /\ 1 \in DOMAIN g
         /\ \A i \in DOMAIN Tail(g) : Tail(g)[i] = g[i + 1] /\ i + 1 \in DOMAIN g
  OBVIOUS

LEMMA SegmentEndStep ==
  ASSUME MInv, NEW p \in Tasks, machine' = machine, SegmentEnd(p) PROVE MInv'
  <1>1. In(p, "load") /\ sys[p].at * PGSIZE >= sys[p].upto /\ task' = task
    BY DEF SegmentEnd
  <1>2. /\ task[p].state = "LIVE" /\ sys[p].op = "load" /\ halted = FALSE
        /\ sys \in [Tasks -> Syslike] /\ sys[p] \in Syslike /\ free \in Nat
        /\ InExec(sys[p]) /\ Whole(sys[p].image) /\ Sound(sys[p].image)
        /\ Size(sys[p].image) \in Nat
        /\ Below(sys[p].image, sys[p].at) /\ sys[p].at <= PagesOf(sys[p].upto)
    BY <1>1, LoadFacts DEF In
  <1>3. PICK upper \in 0..Top, g \in Seq(Nat) : upper = sys[p].upto /\ g = sys[p].segs
    BY <1>2, SysTypes
  <1>4. /\ sys[p].at \in Nat /\ sys[p].argv \in Nat /\ upper \in Nat
        /\ PagesOf(upper) \in Nat /\ PagesOf(upper) \in 0..TRAPFRAME
    BY <1>2, <1>3, SysTypes, MemConstants, PagesNat, PagesOfTop
  <1>5. PICK k \in 0..TRAPFRAME : k = PagesOf(upper)
    BY <1>4
  <1>6. k \in Nat /\ k = sys[p].at /\ Below(sys[p].image, k)
    <2>1. PagesOf(upper) <= sys[p].at
      BY <1>1, <1>3, <1>4, PagesBound, MemConstants
    <2> QED BY <1>2, <1>3, <1>4, <1>5, <2>1
  <1>7. Fits(upper) /\ \A i \in DOMAIN g : Fits(g[i])
    BY <1>2, <1>3 DEF InExec
  <1>8. k + USERSTACK + 1 <= TRAPFRAME
    BY <1>5, <1>7 DEF Fits
  <1>9. CASE /\ g # <<>> /\ free' = free /\ halted' = halted
             /\ sys' = [sys EXCEPT ![p].sz = upper, ![p].at = k,
                             ![p].upto = IF Head(g) < upper THEN upper ELSE Head(g),
                             ![p].segs = Tail(g)]
    <2>0. g # <<>>
      BY <1>9
    <2>1. PICK h \in Nat, f \in Seq(Nat) : h = Head(g) /\ f = Tail(g)
      BY <2>0, HeadTail
    <2>2. Fits(h) /\ \A i \in DOMAIN f : Fits(f[i])
      <3>1. h = g[1] /\ 1 \in DOMAIN g
        BY <2>0, <2>1, HeadTail
      <3>2. \A i \in DOMAIN f : f[i] = g[i + 1] /\ i + 1 \in DOMAIN g
        BY <2>0, <2>1, HeadTail
      <3> QED BY <1>7, <3>1, <3>2
    <2>3. PICK u \in 0..Top : u = IF h < upper THEN upper ELSE h
      BY <2>2, FitsTop
    <2>4. Fits(u) /\ upper <= u /\ u \in Nat
      BY <1>4, <1>7, <2>2, <2>3
    <2>5. sys' = [sys EXCEPT ![p].sz = upper, ![p].at = k, ![p].upto = u, ![p].segs = f]
      BY <1>9, <2>1, <2>3
    <2>6. /\ sys'[p].op = "load" /\ sys'[p].at = k /\ sys'[p].upto = u
          /\ sys'[p].argv = sys[p].argv /\ sys'[p].image = sys[p].image /\ sys'[p].sz = upper
          /\ sys'[p].segs = f
          /\ \A q \in Tasks : q # p => sys'[q] = sys[q]
      BY <1>2, <2>5 DEF Syslike
    <2>7. sys' \in [Tasks -> Syslike]
      <3>1. PICK w1 : w1 = [sys EXCEPT ![p].sz = upper]
        OBVIOUS
      <3>2. PICK w2 : w2 = [w1 EXCEPT ![p].at = k]
        OBVIOUS
      <3>3. PICK w3 : w3 = [w2 EXCEPT ![p].upto = u]
        OBVIOUS
      <3>4. sys' = [w3 EXCEPT ![p].segs = f]
        BY <2>5, <3>1, <3>2, <3>3
      <3>5. w1 \in [Tasks -> Syslike]
        BY <1>2, <3>1, SysSet
      <3>6. w2 \in [Tasks -> Syslike]
        BY <3>2, <3>5, SysSet
      <3>7. w3 \in [Tasks -> Syslike]
        BY <3>3, <3>6, SysSet
      <3> QED BY <3>4, <3>7, SysSet
    <2>8. InExec(sys'[p])
      <3>1. PagesOf(upper) <= PagesOf(u) /\ k <= k
        BY <1>4, <1>6, <2>4, PagesMonotone
      <3> QED BY <1>2, <1>5, <1>6, <2>2, <2>4, <2>6, <3>1 DEF InExec
    <2>9. /\ halted' = FALSE /\ free' \in Nat /\ Sound(sys'[p].image)
          /\ free' + Size(sys'[p].image) + sys'[p].argv = free + Size(sys[p].image) + sys[p].argv
      BY <1>2, <1>9, <2>6
    <2> QED BY <1>1, <1>2, <2>6, <2>7, <2>8, <2>9, ExecStep
  <1>10. CASE /\ free' = free /\ halted' = halted
              /\ sys' = [sys EXCEPT ![p].op = "stack", ![p].sz = k * PGSIZE, ![p].at = k,
                              ![p].upto = k * PGSIZE + (USERSTACK + 1) * PGSIZE]
    <2>1. PICK z : z = k * PGSIZE
      OBVIOUS
    <2>2. PICK u : u = (k + USERSTACK + 1) * PGSIZE
      OBVIOUS
    <2>3. k * PGSIZE + (USERSTACK + 1) * PGSIZE = u
      BY <1>6, <2>2, MemConstants
    <2>4. /\ k + USERSTACK + 1 \in Nat /\ z \in Nat /\ u \in Nat /\ z <= u
          /\ PagesOf(z) = k /\ PagesOf(u) = k + USERSTACK + 1
      <3>1. k + USERSTACK + 1 \in Nat /\ (USERSTACK + 1) * PGSIZE \in Nat /\ k * PGSIZE \in Nat
        BY <1>6, MemConstants
      <3>2. z \in Nat /\ u \in Nat /\ z <= u
        BY <2>1, <2>3, <3>1
      <3> QED BY <1>6, <2>1, <2>2, <3>1, <3>2, PagesOfPages
    <2>5. z \in 0..Top /\ u \in 0..Top
      <3>1. u <= TRAPFRAME * PGSIZE
        BY <1>8, <2>4, PagesBound, MemConstants
      <3> QED BY <2>4, <3>1, MemConstants DEF Top
    <2>6. sys' = [sys EXCEPT ![p].op = "stack", ![p].sz = z, ![p].at = k, ![p].upto = u]
      BY <1>10, <2>1, <2>3
    <2>7. /\ sys'[p].op = "stack" /\ sys'[p].at = k /\ sys'[p].upto = u
          /\ sys'[p].argv = sys[p].argv /\ sys'[p].image = sys[p].image /\ sys'[p].sz = z
          /\ \A q \in Tasks : q # p => sys'[q] = sys[q]
      BY <1>2, <2>6 DEF Syslike
    <2>8. sys' \in [Tasks -> Syslike]
      <3>1. PICK w1 : w1 = [sys EXCEPT ![p].op = "stack"]
        OBVIOUS
      <3>2. PICK w2 : w2 = [w1 EXCEPT ![p].sz = z]
        OBVIOUS
      <3>3. PICK w3 : w3 = [w2 EXCEPT ![p].at = k]
        OBVIOUS
      <3>4. sys' = [w3 EXCEPT ![p].upto = u]
        BY <2>6, <3>1, <3>2, <3>3
      <3>5. w1 \in [Tasks -> Syslike]
        BY <1>2, <3>1, SysSet DEF Ops
      <3>6. w2 \in [Tasks -> Syslike]
        BY <2>5, <3>2, <3>5, SysSet
      <3>7. w3 \in [Tasks -> Syslike]
        BY <3>3, <3>6, SysSet
      <3> QED BY <2>5, <3>4, <3>7, SysSet
    <2>9. InExec(sys'[p])
      <3>1. k <= k + USERSTACK + 1 /\ k <= k
        BY <1>6, MemConstants
      <3>2. PagesOf(z) <= k /\ k <= PagesOf(u)
        BY <2>4, <3>1
      <3> QED BY <1>2, <1>6, <1>8, <2>2, <2>4, <2>7, <3>2 DEF InExec
    <2>10. /\ halted' = FALSE /\ free' \in Nat /\ Sound(sys'[p].image)
           /\ free' + Size(sys'[p].image) + sys'[p].argv = free + Size(sys[p].image) + sys[p].argv
      BY <1>2, <1>10, <2>7
    <2> QED BY <1>1, <1>2, <2>7, <2>8, <2>9, <2>10, ExecStep
  <1>11. \/ /\ g # <<>> /\ free' = free /\ halted' = halted
            /\ sys' = [sys EXCEPT ![p].sz = upper, ![p].at = k,
                             ![p].upto = IF Head(g) < upper THEN upper ELSE Head(g),
                             ![p].segs = Tail(@)]
         \/ /\ free' = free /\ halted' = halted
            /\ sys' = [sys EXCEPT ![p].op = "stack", ![p].sz = k * PGSIZE, ![p].at = k,
                              ![p].upto = k * PGSIZE + (USERSTACK + 1) * PGSIZE]
    BY <1>3, <1>5 DEF SegmentEnd
  <1>12. [sys EXCEPT ![p].sz = upper, ![p].at = k,
                             ![p].upto = IF Head(g) < upper THEN upper ELSE Head(g),
                             ![p].segs = Tail(@)]
          = [sys EXCEPT ![p].sz = upper, ![p].at = k,
                             ![p].upto = IF Head(g) < upper THEN upper ELSE Head(g),
                             ![p].segs = Tail(g)]
    BY <1>2, <1>3 DEF Syslike
  <1> QED BY <1>9, <1>10, <1>11, <1>12

\* The new image takes the place of the old, which is freed.
LEMMA ExecCommitStep ==
  ASSUME MInv, NEW p \in Tasks, machine' = machine, ExecCommit(p) PROVE MInv'
  <1>1. In(p, "stack")
    BY DEF ExecCommit
  <1>2. /\ task[p].state = "LIVE" /\ sys[p].op = "stack" /\ halted = FALSE
        /\ task \in [Tasks -> Tasklike] /\ task[p] \in Tasklike /\ sys[p] \in Syslike /\ free \in Nat
        /\ InExec(sys[p]) /\ Whole(sys[p].image) /\ Sound(sys[p].image)
        /\ Size(sys[p].image) \in Nat
        /\ Below(sys[p].image, sys[p].at) /\ sys[p].at <= PagesOf(sys[p].upto)
    BY <1>1, LoadFacts DEF In
  <1>3. /\ task[p].frame /\ Sound(task[p].space) /\ Size(task[p].space) \in Nat
        /\ Below(task[p].space, PagesOf(task[p].sz))
        /\ HeldBy(task[p], sys[p])
             = 1 + Size(task[p].space) + Size(sys[p].image) + sys[p].argv
    BY <1>2, Alive
  <1>4. PICK k \in 0..TRAPFRAME :
            sys[p].upto = (k + USERSTACK + 1) * PGSIZE /\ k + USERSTACK + 1 <= TRAPFRAME
    BY <1>2 DEF InExec
  <1>5. sys[p].upto \div PGSIZE - (USERSTACK + 1) = k
    <2>1. PICK j \in Nat : j = k + USERSTACK + 1
      BY MemConstants
    <2>2. j * PGSIZE + 0 = sys[p].upto /\ (j * PGSIZE) \div PGSIZE = j
      BY <1>4, <2>1, Quotient, MemConstants
    <2>3. sys[p].upto \div PGSIZE = j
      BY <1>4, <2>1, <2>2
    <2> QED BY <2>1, <2>3, MemConstants
  <1>6. PICK z \in 0..Top : z = task[p].sz
    BY <1>2, TaskTypes
  <1>6r. PICK s : s = task[p].space
    OBVIOUS
  <1>7. PICK old : old = FreeSpace(free, s, z)
    OBVIOUS
  <1>8. Sound(s) /\ Below(s, PagesOf(z)) /\ free \in Nat /\ Size(s) \in Nat
    BY <1>2, <1>3, <1>6, <1>6r
  <1>9. old.n \in Nat /\ old.n = free + Size(s) /\ old.leaf = FALSE
    BY <1>7, <1>8, FreeSpaceFacts
  <1>10. PICK new : new = [sys[p].image EXCEPT !.guard = {k}]
    OBVIOUS
  <1>11. PICK u \in 0..Top : u = sys[p].upto
    BY <1>2, SysTypes
  <1>12. /\ task' = [task EXCEPT ![p].sz = u, ![p].space = new]
         /\ ExecFails(p, old.n) /\ Panic(old.leaf)
    BY <1>5, <1>6, <1>6r, <1>7, <1>10, <1>11 DEF ExecCommit
  <1>13. /\ new \in Spaces /\ new.tables = sys[p].image.tables /\ new.mapped = sys[p].image.mapped
    <2>1. sys[p].image \in Spaces
      BY <1>2 DEF Sound
    <2>2. new = [tables |-> sys[p].image.tables, mapped |-> sys[p].image.mapped, guard |-> {k}]
      BY <1>10, <2>1, ExceptGuard
    <2>3. {k} \in SUBSET (0..TRAMPOLINE)
      BY MemConstants
    <2> QED BY <2>1, <2>2, <2>3, SpaceFields
  <1>14. Whole(new) /\ Size(new) = Size(sys[p].image) /\ Below(new, sys[p].at)
    BY <1>2, <1>13 DEF Whole, Sound, Size, Below, UserPages
  <1>15. Below(new, PagesOf(u))
    <2>1. sys[p].at \in Int /\ PagesOf(u) \in Int
      BY <1>2, <1>11, SysTypes
    <2> QED BY <1>2, <1>11, <1>13, <1>14, <2>1, BelowMore
  <1>16. task' \in [Tasks -> Tasklike]
    <2>1. PICK w : w = [task EXCEPT ![p].sz = u]
      OBVIOUS
    <2>2. w \in [Tasks -> Tasklike]
      BY <1>2, <2>1, TaskSet
    <2>3. task' = [w EXCEPT ![p].space = new]
      BY <1>12, <2>1
    <2> QED BY <1>13, <2>2, <2>3, TaskSet
  <1>17. /\ task'[p].state = "LIVE" /\ task'[p].sz = u /\ task'[p].frame /\ task'[p].space = new
         /\ \A q \in Tasks : q # p => task'[q] = task[q]
    BY <1>2, <1>3, <1>12 DEF Tasklike
  <1>18. Return(p) /\ free' = old.n + sys[p].argv /\ halted' = FALSE
    BY <1>2, <1>9, <1>12 DEF ExecFails, Panic
  <1>19. sys[p].argv \in Nat
    BY <1>2, SysTypes
  <1>20. free' \in Nat /\ free' + Size(new) + 1 = free + HeldBy(task[p], sys[p])
    BY <1>2, <1>3, <1>6, <1>6r, <1>8, <1>9, <1>14, <1>18, <1>19
  <1>21. /\ Whole(task'[p].space) /\ Below(task'[p].space, PagesOf(task'[p].sz))
         /\ free' + Size(task'[p].space) + 1 = free + HeldBy(task[p], sys[p])
    BY <1>14, <1>15, <1>17, <1>20
  <1> QED BY <1>2, <1>16, <1>17, <1>18, <1>20, <1>21, ReturnStep

-----------------------------------------------------------------------------
(* fork() *)

LEMMA StutterStep ==
  ASSUME MInv, UNCHANGED memVars PROVE MInv'
  <1>1. machine' = machine /\ free' = free /\ task' = task /\ sys' = sys /\ halted' = halted
    BY DEF memVars
  <1>2. MemType' /\ halted' = FALSE
    BY <1>1 DEF MInv, MemType
  <1>3. \A q \in Tasks : Held(q)' = Held(q)
    BY <1>1 DEF Held
  <1>4. HeldPages' = HeldPages
    BY <1>3 DEF HeldPages
  <1>5. Accounted'
    BY <1>1, <1>4 DEF MInv, Accounted
  <1>6. \A q \in Tasks : Consistent(task'[q], sys'[q]) /\ Forking(q)'
    BY <1>1 DEF MInv, Forking
  <1> QED BY <1>2, <1>5, <1>6 DEF MInv

\* No other fork() has made this child.
SoleParent(p, kid) == \A q \in Tasks : q # p /\ sys[q].op = "fork" => sys[q].kid # kid

\* A child that is not ready yet.
LEMMA ChildFacts ==
  ASSUME NEW t, t.state = "USED", t.frame, t.sz = 0, Whole(t.space)
  PROVE  Consistent(t, InUser) /\ HeldBy(t, InUser) = 1 + Size(t.space)
  <1>1. Sound(t.space) /\ Size(t.space) \in Nat
    BY SizeNat DEF Whole
  <1>2. TaskSound(t, InUser)
    BY <1>1 DEF TaskSound
  <1>3. InCall(t, InUser) /\ InGrow(t, InUser) /\ InExec(InUser)
    BY UserTypes DEF InCall, InGrow, InExec
  <1> QED BY <1>1, <1>2, <1>3, UserTypes, NoSpaceSound DEF Consistent, HeldBy

\* A step of fork(), which works on the child's entry and its own locals.
LEMMA ForkedStep ==
  ASSUME MInv, NEW p \in Tasks, NEW kid \in Tasks, kid # p, task[p].state = "LIVE",
         task[kid].state # "LIVE", machine' = machine, halted' = FALSE, free' \in Nat,
         task' \in [Tasks -> Tasklike], sys' \in [Tasks -> Syslike],
         \A q \in Tasks : q # kid => task'[q] = task[q],
         \A q \in Tasks : q # p => sys'[q] = sys[q],
         SoleParent(p, kid),
         Consistent(task[p], sys'[p]), HeldBy(task[p], sys'[p]) = HeldBy(task[p], sys[p]),
         Consistent(task'[kid], sys[kid]),
         free' + HeldBy(task'[kid], sys[kid]) = free + HeldBy(task[kid], sys[kid]),
         sys'[p].op = "fork" =>
            /\ sys'[p].kid = kid /\ task'[kid].state = "USED"
            /\ sys'[p].at <= PagesOf(task[p].sz) /\ Below(task'[kid].space, sys'[p].at)
  PROVE  MInv'
  <1>1. /\ MemType /\ Accounted
        /\ \A q \in Tasks : Consistent(task[q], sys[q]) /\ Forking(q)
    BY DEF MInv
  <1>2. MemType'
    BY <1>1 DEF MemType
  <1>3. task'[p] = task[p] /\ sys'[kid] = sys[kid]
    OBVIOUS
  <1>9. \A q \in Tasks : q # p /\ sys[q].op = "fork" => sys[q].kid # kid
    BY DEF SoleParent
  <1>4. \A q \in Tasks : Consistent(task'[q], sys'[q])
    <2>1. \A q \in Tasks : q # p /\ q # kid => Consistent(task'[q], sys'[q])
      BY <1>1
    <2> QED BY <1>3, <2>1
  <1>5. Accounted'
    <2>1. \A q \in Tasks : q # kid => HeldBy(task'[q], sys'[q]) = HeldBy(task[q], sys[q])
      BY <1>3
    <2>2. free' + HeldBy(task'[kid], sys'[kid]) = free + HeldBy(task[kid], sys[kid])
      BY <1>3
    <2> QED BY <1>1, <1>2, <1>4, <2>1, <2>2, CountStep
  <1>6. ASSUME NEW q \in Tasks, sys'[q].op = "fork"
        PROVE  Forking(q)'
    <2>1. CASE q = p
      <3>1. \A u \in Tasks : sys'[u].op = "fork" /\ sys'[u].kid = kid => u = p
        BY <1>9
      <3> QED BY <1>3, <1>6, <2>1, <3>1 DEF Forking
    <2>2. CASE q # p
      <3>1. sys'[q] = sys[q] /\ sys[q].op = "fork" /\ sys[q].kid # kid /\ sys[q].kid \in Tasks
        BY <1>1, <1>6, <1>9, <2>2 DEF MemType, Syslike
      <3>2. task[q].state = "LIVE"
        BY <1>1, <3>1 DEF Consistent, InCall
      <3>3. task'[q] = task[q] /\ task'[sys[q].kid] = task[sys[q].kid]
        BY <3>1, <3>2
      <3>4. /\ task[sys[q].kid].state = "USED"
            /\ sys[q].at <= PagesOf(task[q].sz)
            /\ Below(task[sys[q].kid].space, sys[q].at)
            /\ \A u \in Tasks : sys[u].op = "fork" /\ sys[u].kid = sys[q].kid => q = u
        BY <1>1, <3>1 DEF Forking
      <3>5. \A u \in Tasks : sys'[u].op = "fork" /\ sys'[u].kid = sys[q].kid => q = u
        BY <3>1, <3>4
      <3> QED BY <3>1, <3>3, <3>4, <3>5 DEF Forking
    <2> QED BY <2>1, <2>2
  <1>7. \A q \in Tasks : Forking(q)'
    <2>1. ASSUME NEW q \in Tasks, sys'[q].op # "fork" PROVE Forking(q)'
      BY <2>1 DEF Forking
    <2> QED BY <1>6, <2>1
  <1> QED BY <1>2, <1>4, <1>5, <1>7 DEF MInv

LEMMA ForkStep ==
  ASSUME MInv, NEW p \in Tasks, NEW kid \in Tasks, machine' = machine, Fork(p, kid) PROVE MInv'
  <1>1. PICK r : r = AllocProc(free)
    OBVIOUS
  <1>2. /\ In(p, "user") /\ task[kid].state = "UNUSED" /\ free' = r.n /\ halted' = halted
        /\ IF r.ok
           THEN /\ task' = [task EXCEPT ![kid] = [state |-> "USED", sz |-> 0,
                                                 frame |-> TRUE, space |-> r.s]]
                /\ sys' = [sys EXCEPT ![p].op = "fork", ![p].kid = kid]
           ELSE task' = task /\ sys' = sys
    BY <1>1 DEF Fork
  <1>3. /\ task[p].state = "LIVE" /\ sys[p] = InUser /\ halted = FALSE
        /\ Below(task[p].space, PagesOf(task[p].sz))
    BY <1>2, UserFacts
  <1>4. /\ task \in [Tasks -> Tasklike] /\ sys \in [Tasks -> Syslike] /\ free \in Nat
        /\ Consistent(task[p], sys[p]) /\ Consistent(task[kid], sys[kid])
        /\ sys[p] \in Syslike /\ task[p] \in Tasklike
    BY DEF MInv, MemType
  <1>5. Fresh(r) /\ IF r.ok THEN r.n + Size(r.s) + 1 = free ELSE r.n = free
    BY <1>1, <1>4, AllocProcFacts
  <1>6. CASE ~r.ok
    <2>1. UNCHANGED memVars
      BY <1>2, <1>5, <1>6 DEF memVars
    <2> QED BY <2>1, StutterStep
  <1>7. CASE r.ok
    <2>1. r.n \in Nat /\ Whole(r.s) /\ UserPages(r.s) = {} /\ r.n + Size(r.s) + 1 = free
      BY <1>5, <1>7 DEF Fresh
    <2>2. r.s \in Spaces /\ Size(r.s) \in Nat
      BY <2>1, SizeNat DEF Whole, Sound
    <2>3. PICK t : t = [state |-> "USED", sz |-> 0, frame |-> TRUE, space |-> r.s]
      OBVIOUS
    <2>4. t \in Tasklike /\ t.state = "USED" /\ t.sz = 0 /\ t.frame /\ t.space = r.s
      BY <2>2, <2>3, MemConstants DEF Tasklike
    <2>5. /\ task' = [task EXCEPT ![kid] = t]
          /\ sys' = [sys EXCEPT ![p].op = "fork", ![p].kid = kid]
      BY <1>2, <1>7, <2>3
    <2>6. /\ task' \in [Tasks -> Tasklike] /\ task'[kid] = t
          /\ \A q \in Tasks : q # kid => task'[q] = task[q]
      BY <1>4, <2>4, <2>5
    <2>7. /\ sys'[p].op = "fork" /\ sys'[p].kid = kid /\ sys'[p].at = 0
          /\ sys'[p].argv = 0 /\ sys'[p].image = NoSpace /\ sys'[p].sz = 0
          /\ \A q \in Tasks : q # p => sys'[q] = sys[q]
      <3>1. /\ sys'[p].op = "fork" /\ sys'[p].kid = kid /\ sys'[p].at = sys[p].at
            /\ sys'[p].argv = sys[p].argv /\ sys'[p].image = sys[p].image /\ sys'[p].sz = sys[p].sz
            /\ \A q \in Tasks : q # p => sys'[q] = sys[q]
        BY <1>4, <2>5 DEF Syslike
      <3> QED BY <1>3, <3>1, UserTypes
    <2>8. sys' \in [Tasks -> Syslike]
      <3>1. PICK w : w = [sys EXCEPT ![p].op = "fork"]
        OBVIOUS
      <3>2. w \in [Tasks -> Syslike]
        BY <1>4, <3>1, SysSet DEF Ops
      <3>3. sys' = [w EXCEPT ![p].kid = kid]
        BY <2>5, <3>1
      <3> QED BY <3>2, <3>3, SysSet
    <2>9. kid # p /\ sys[kid] = InUser /\ task[kid] = Unused
      BY <1>2, <1>3, <1>4 DEF Consistent, InCall, TaskSound
    <2>10. SoleParent(p, kid)
      BY <1>2 DEF MInv, Forking, SoleParent
    <2>11. Consistent(task[p], sys'[p]) /\ HeldBy(task[p], sys'[p]) = HeldBy(task[p], sys[p])
      <3>1. TaskSound(task[p], sys'[p])
        BY <1>3, <1>4, <2>7, UserTypes DEF Consistent, TaskSound
      <3>2. InCall(task[p], sys'[p]) /\ InGrow(task[p], sys'[p]) /\ InExec(sys'[p])
        BY <1>3, <2>7 DEF InCall, InGrow, InExec
      <3>3. HeldBy(task[p], sys'[p]) = HeldBy(task[p], sys[p])
        BY <1>3, <2>7, UserTypes DEF HeldBy
      <3> QED BY <3>1, <3>2, <3>3 DEF Consistent
    <2>12. /\ Consistent(task'[kid], sys[kid])
           /\ HeldBy(task'[kid], sys[kid]) = 1 + Size(r.s) /\ HeldBy(task[kid], sys[kid]) = 0
      BY <2>1, <2>4, <2>6, <2>9, ChildFacts, UnusedFacts
    <2>13. free' \in Nat /\ halted' = FALSE
           /\ free' + HeldBy(task'[kid], sys[kid]) = free + HeldBy(task[kid], sys[kid])
      BY <1>2, <1>3, <1>4, <2>1, <2>2, <2>12
    <2>14. /\ task'[kid].state = "USED" /\ sys'[p].at <= PagesOf(task[p].sz)
           /\ Below(task'[kid].space, sys'[p].at) /\ task[kid].state # "LIVE"
      <3>1. PagesOf(task[p].sz) \in Nat
        BY <1>4, TaskTypes
      <3>2. Below(r.s, 0)
        BY <2>1 DEF Below
      <3> QED BY <1>2, <2>4, <2>6, <2>7, <3>1, <3>2
    <2> QED BY <1>3, <2>6, <2>7, <2>8, <2>9, <2>10, <2>11, <2>12, <2>13, <2>14, ForkedStep
  <1> QED BY <1>6, <1>7

\* The parent and the child while fork() copies the memory.
Parent(p, kid) ==
    /\ task[p].state = "LIVE" /\ sys[p].op = "fork" /\ halted = FALSE
    /\ task \in [Tasks -> Tasklike] /\ sys \in [Tasks -> Syslike] /\ free \in Nat
    /\ task[p] \in Tasklike /\ sys[p] \in Syslike
    /\ kid \in Tasks /\ kid # p /\ task[kid].state = "USED" /\ sys[kid] = InUser
    /\ task[kid] \in Tasklike
    /\ task[kid].frame /\ task[kid].sz = 0 /\ Whole(task[kid].space)
    /\ HeldBy(task[kid], sys[kid]) = 1 + Size(task[kid].space)
    /\ sys[p].at <= PagesOf(task[p].sz) /\ Below(task[kid].space, sys[p].at)
    /\ sys[p].argv = 0 /\ sys[p].image = NoSpace /\ sys[p].sz = 0
    /\ task[p].frame /\ Whole(task[p].space) /\ Below(task[p].space, PagesOf(task[p].sz))
    /\ SoleParent(p, kid)

LEMMA ForkFacts ==
  ASSUME MInv, NEW p \in Tasks, In(p, "fork"), NEW kid \in Tasks, kid = sys[p].kid
  PROVE  Parent(p, kid)
  <1>1. /\ task[p].state = "LIVE" /\ sys[p].op = "fork" /\ halted = FALSE
    BY DEF In, MInv
  <1>2. /\ task \in [Tasks -> Tasklike] /\ sys \in [Tasks -> Syslike] /\ free \in Nat
        /\ task[p] \in Tasklike /\ sys[p] \in Syslike
    BY DEF MInv, MemType
  <1>4. /\ task[kid].state = "USED" /\ sys[p].at <= PagesOf(task[p].sz)
        /\ Below(task[kid].space, sys[p].at)
        /\ SoleParent(p, kid)
    BY <1>1 DEF MInv, Forking, SoleParent
  <1>5. Consistent(task[kid], sys[kid]) /\ Consistent(task[p], sys[p])
    BY DEF MInv
  <1>6. /\ task[kid].frame /\ task[kid].sz = 0 /\ Whole(task[kid].space) /\ sys[kid] = InUser
    BY <1>4, <1>5 DEF Consistent, TaskSound, InCall
  <1>7. HeldBy(task[kid], sys[kid]) = 1 + Size(task[kid].space)
    BY <1>4, <1>6, ChildFacts
  <1>8. sys[p].argv = 0 /\ sys[p].image = NoSpace /\ sys[p].sz = 0
    BY <1>1, <1>5 DEF Consistent, InCall
  <1>9. task[p].frame /\ Whole(task[p].space) /\ Below(task[p].space, PagesOf(task[p].sz))
    BY <1>1, Alive
  <1> QED BY <1>1, <1>2, <1>4, <1>6, <1>7, <1>8, <1>9 DEF Parent

\* fork() returns.
LEMMA ForkReturns ==
  ASSUME MInv, NEW p \in Tasks, In(p, "fork"), NEW kid \in Tasks, kid = sys[p].kid, Return(p),
         machine' = machine, halted' = FALSE, free' \in Nat,
         NEW t \in Tasklike, task' = [task EXCEPT ![kid] = t], Consistent(t, InUser),
         free' + HeldBy(t, InUser) = free + HeldBy(task[kid], sys[kid])
  PROVE  MInv'
  <1>0. MInv /\ p \in Tasks /\ kid \in Tasks /\ In(p, "fork") /\ kid = sys[p].kid
    OBVIOUS
  <1>p. Parent(p, kid)
    BY ONLY <1>0, ForkFacts
  <1>1. /\ task[p].state = "LIVE" /\ sys[p].op = "fork"
        /\ task \in [Tasks -> Tasklike] /\ sys \in [Tasks -> Syslike]
        /\ task[p] \in Tasklike
        /\ kid \in Tasks /\ kid # p /\ task[kid].state = "USED" /\ sys[kid] = InUser
        /\ sys[p].argv = 0 /\ sys[p].image = NoSpace
        /\ task[p].frame /\ Whole(task[p].space) /\ Below(task[p].space, PagesOf(task[p].sz))
        /\ SoleParent(p, kid)
    BY <1>p DEF Parent
  <1>2. /\ sys' \in [Tasks -> Syslike] /\ sys'[p] = InUser
        /\ \A q \in Tasks : q # p => sys'[q] = sys[q]
    BY <1>1, UserTypes DEF Return
  <1>3. /\ task' \in [Tasks -> Tasklike] /\ task'[kid] = t
        /\ \A q \in Tasks : q # kid => task'[q] = task[q]
    BY <1>1
  <1>4. Consistent(task[p], sys'[p])
    BY <1>1, <1>2, AtRest
  <1>5. HeldBy(task[p], sys'[p]) = HeldBy(task[p], sys[p])
    BY <1>1, <1>2, UserTypes DEF HeldBy
  <1>6. /\ Consistent(task'[kid], sys[kid]) /\ sys'[p].op # "fork" /\ task[kid].state # "LIVE"
        /\ free' + HeldBy(task'[kid], sys[kid]) = free + HeldBy(task[kid], sys[kid])
    BY <1>1, <1>2, <1>3, UserTypes
  <1>7. sys'[p].op = "fork" =>
            /\ sys'[p].kid = kid /\ task'[kid].state = "USED"
            /\ sys'[p].at <= PagesOf(task[p].sz) /\ Below(task'[kid].space, sys'[p].at)
    BY <1>6
  <1>8. machine' = machine /\ halted' = FALSE /\ free' \in Nat
    OBVIOUS
  <1> QED BY ONLY <1>0, <1>1, <1>2, <1>3, <1>4, <1>5, <1>6, <1>7, <1>8, ForkedStep

LEMMA ForkEndStep ==
  ASSUME MInv, NEW p \in Tasks, machine' = machine, ForkEnd(p) PROVE MInv'
  <1>1. PICK kid \in Tasks : kid = sys[p].kid
    BY SysTypes DEF MInv, MemType
  <1>2. /\ In(p, "fork") /\ sys[p].at >= PagesOf(task[p].sz)
        /\ task' = [task EXCEPT ![kid].sz = task[p].sz, ![kid].state = "LIVE"]
        /\ Return(p) /\ free' = free /\ halted' = halted
    BY <1>1 DEF ForkEnd
  <1>p. Parent(p, kid)
    BY <1>1, <1>2, ForkFacts
  <1>3. /\ task[p].state = "LIVE" /\ halted = FALSE
        /\ task \in [Tasks -> Tasklike] /\ free \in Nat /\ task[p] \in Tasklike /\ sys[p] \in Syslike
        /\ kid \in Tasks /\ sys[kid] = InUser /\ task[kid] \in Tasklike
        /\ task[kid].frame /\ Whole(task[kid].space)
        /\ HeldBy(task[kid], sys[kid]) = 1 + Size(task[kid].space)
        /\ sys[p].at <= PagesOf(task[p].sz) /\ Below(task[kid].space, sys[p].at)
    BY <1>p DEF Parent
  <1>4. PICK t : t = [[task[kid] EXCEPT !.sz = task[p].sz] EXCEPT !.state = "LIVE"]
    OBVIOUS
  <1>5. task' = [task EXCEPT ![kid] = t]
    BY <1>2, <1>3, <1>4
  <1>6. /\ t \in Tasklike /\ t.state = "LIVE" /\ t.sz = task[p].sz /\ t.frame
        /\ t.space = task[kid].space
    BY <1>3, <1>4 DEF Tasklike
  <1>7. sys[p].at = PagesOf(t.sz)
    BY <1>2, <1>3, <1>6, TaskTypes, SysTypes
  <1>8. Consistent(t, InUser) /\ HeldBy(t, InUser) = 1 + Size(t.space)
    BY <1>3, <1>6, <1>7, AtRest
  <1>9. free' + HeldBy(t, InUser) = free + HeldBy(task[kid], sys[kid]) /\ free' \in Nat
        /\ halted' = FALSE
    BY <1>2, <1>3, <1>6, <1>8
  <1> QED BY <1>1, <1>2, <1>5, <1>6, <1>8, <1>9, ForkReturns

\* A page more is copied, or there is none to copy.
LEMMA CopiedPage ==
  ASSUME MInv, NEW p \in Tasks, In(p, "fork"), NEW kid \in Tasks, kid = sys[p].kid,
         sys[p].at < PagesOf(task[p].sz), sys' = [sys EXCEPT ![p].at = @ + 1],
         machine' = machine, halted' = FALSE, NEW n \in Nat, free' = n,
         NEW s, Whole(s), Below(s, sys[p].at + 1), n + Size(s) = free + Size(task[kid].space),
         task' \in [Tasks -> Tasklike], \A q \in Tasks : q # kid => task'[q] = task[q],
         task'[kid].state = "USED", task'[kid].sz = 0, task'[kid].frame, task'[kid].space = s
  PROVE  MInv'
  <1>0. MInv /\ p \in Tasks /\ kid \in Tasks /\ In(p, "fork") /\ kid = sys[p].kid
    OBVIOUS
  <1>p. Parent(p, kid)
    BY ONLY <1>0, ForkFacts
  <1>1. /\ task[p].state = "LIVE" /\ sys[p].op = "fork"
        /\ task \in [Tasks -> Tasklike] /\ sys \in [Tasks -> Syslike] /\ free \in Nat
        /\ task[p] \in Tasklike /\ sys[p] \in Syslike
        /\ kid \in Tasks /\ kid # p /\ task[kid].state = "USED" /\ sys[kid] = InUser
        /\ HeldBy(task[kid], sys[kid]) = 1 + Size(task[kid].space)
        /\ sys[p].argv = 0 /\ sys[p].image = NoSpace /\ sys[p].sz = 0
        /\ task[p].frame /\ Whole(task[p].space) /\ Below(task[p].space, PagesOf(task[p].sz))
        /\ SoleParent(p, kid)
        /\ Whole(task[kid].space)
    BY <1>p DEF Parent
  <1>2. PICK x \in 0..TRAPFRAME : x = sys[p].at + 1 /\ x <= PagesOf(task[p].sz)
    <2>1. sys[p].at \in Nat /\ PagesOf(task[p].sz) \in 0..TRAPFRAME
      BY <1>1, TaskTypes, SysTypes
    <2> QED BY <2>1, MemConstants
  <1>3. sys' = [sys EXCEPT ![p].at = x]
    BY <1>1, <1>2 DEF Syslike
  <1>4. sys' \in [Tasks -> Syslike]
    BY <1>1, <1>3, SysSet
  <1>5. /\ sys'[p].op = "fork" /\ sys'[p].kid = kid /\ sys'[p].at = x
        /\ sys'[p].argv = 0 /\ sys'[p].image = NoSpace /\ sys'[p].sz = 0
        /\ \A q \in Tasks : q # p => sys'[q] = sys[q]
    BY <1>0, <1>1, <1>3 DEF Syslike
  <1>6. Consistent(task[p], sys'[p]) /\ HeldBy(task[p], sys'[p]) = HeldBy(task[p], sys[p])
    <2>1. TaskSound(task[p], sys'[p])
      BY <1>1, <1>5 DEF TaskSound, Whole
    <2>2. InCall(task[p], sys'[p]) /\ InGrow(task[p], sys'[p]) /\ InExec(sys'[p])
      BY <1>1, <1>5 DEF InCall, InGrow, InExec
    <2>3. HeldBy(task[p], sys'[p]) = HeldBy(task[p], sys[p])
      BY <1>1, <1>5 DEF HeldBy
    <2> QED BY <2>1, <2>2, <2>3 DEF Consistent
  <1>7. PICK t \in Tasklike : t = task'[kid]
    BY <1>1
  <1>8. t.state = "USED" /\ t.sz = 0 /\ t.frame /\ t.space = s /\ Whole(t.space)
    BY <1>7
  <1>9. Consistent(t, InUser) /\ HeldBy(t, InUser) = 1 + Size(s)
    BY <1>8, ChildFacts
  <1>10. Size(s) \in Nat /\ Size(task[kid].space) \in Nat
    BY <1>1, SizeNat DEF Whole
  <1>11. n + HeldBy(t, InUser) = free + HeldBy(task[kid], sys[kid])
    BY <1>1, <1>9, <1>10
  <1>12. /\ Consistent(task'[kid], sys[kid]) /\ task[kid].state # "LIVE" /\ free' \in Nat
         /\ free' + HeldBy(task'[kid], sys[kid]) = free + HeldBy(task[kid], sys[kid])
    BY <1>1, <1>7, <1>9, <1>11
  <1>13. /\ sys'[p].kid = kid /\ task'[kid].state = "USED"
         /\ sys'[p].at <= PagesOf(task[p].sz) /\ Below(task'[kid].space, sys'[p].at)
    BY <1>2, <1>5
  <1>14. /\ task' \in [Tasks -> Tasklike] /\ \A q \in Tasks : q # kid => task'[q] = task[q]
         /\ machine' = machine /\ halted' = FALSE
    OBVIOUS
  <1> QED BY ONLY <1>0, <1>1, <1>4, <1>5, <1>6, <1>12, <1>13, <1>14, ForkedStep

\* uvmcopy() has no memory: the child is freed.
LEMMA CopyFailsStep ==
  ASSUME MInv, NEW p \in Tasks, In(p, "fork"), NEW kid \in Tasks, kid = sys[p].kid,
         machine' = machine, Return(p), NEW n \in Nat, NEW s, Sound(s), Below(s, 0),
         n + Size(s) = free + Size(task[kid].space), FreeProc(kid, n, s)
  PROVE  MInv'
  <1>0. MInv /\ p \in Tasks /\ kid \in Tasks /\ In(p, "fork") /\ kid = sys[p].kid
    OBVIOUS
  <1>p. Parent(p, kid)
    BY ONLY <1>0, ForkFacts
  <1>1. /\ halted = FALSE /\ free \in Nat /\ task[kid].frame /\ task[kid].sz = 0
        /\ HeldBy(task[kid], sys[kid]) = 1 + Size(task[kid].space)
        /\ Whole(task[kid].space)
    BY <1>p DEF Parent
  <1>2. PICK r, k, z : r = FreeSpace(k, s, z) /\ k = n + 1 /\ z = 0
    OBVIOUS
  <1>3. k \in Nat /\ z \in 0..Top /\ Below(s, PagesOf(z)) /\ Sound(s)
    BY <1>2, PagesOfZero, MemConstants
  <1>4. r.n \in Nat /\ r.n = k + Size(s) /\ r.leaf = FALSE
    BY ONLY <1>2, <1>3, FreeSpaceFacts
  <1>5. free' = r.n /\ Panic(r.leaf) /\ task' = [task EXCEPT ![kid] = Unused]
    <2>1. (IF task[kid].frame THEN 1 ELSE 0) = 1
      BY <1>1
    <2> QED BY <1>1, <1>2, <2>1 DEF FreeProc
  <1>6. halted' = FALSE
    BY <1>1, <1>4, <1>5 DEF Panic
  <1>7. Size(s) \in Nat /\ Size(task[kid].space) \in Nat
    BY <1>1, SizeNat DEF Whole
  <1>8. free' = free + 1 + Size(task[kid].space)
    BY <1>1, <1>2, <1>4, <1>5, <1>7
  <1>9. PICK t \in Tasklike : t = Unused
    BY UnusedFacts
  <1>10. Consistent(t, InUser) /\ HeldBy(t, InUser) = 0 /\ task' = [task EXCEPT ![kid] = t]
    BY <1>5, <1>9, UnusedFacts
  <1>11. free' \in Nat /\ free' + HeldBy(t, InUser) = free + HeldBy(task[kid], sys[kid])
    BY <1>1, <1>7, <1>8, <1>10
  <1>12. machine' = machine /\ Return(p)
    OBVIOUS
  <1> QED BY ONLY <1>0, <1>6, <1>9, <1>10, <1>11, <1>12, ForkReturns

LEMMA CopyPageStep ==
  ASSUME MInv, NEW p \in Tasks, machine' = machine, CopyPage(p) PROVE MInv'
  <1>1. PICK kid \in Tasks : kid = sys[p].kid
    BY SysTypes DEF MInv, MemType
  <1>2. In(p, "fork") /\ sys[p].at < PagesOf(task[p].sz)
    BY DEF CopyPage
  <1>p. Parent(p, kid)
    BY <1>1, <1>2, ForkFacts
  <1>3. /\ halted = FALSE /\ free \in Nat /\ task \in [Tasks -> Tasklike]
        /\ task[p] \in Tasklike /\ sys[p] \in Syslike /\ task[kid] \in Tasklike
        /\ task[kid].state = "USED" /\ task[kid].frame /\ task[kid].sz = 0
        /\ Whole(task[kid].space) /\ Below(task[kid].space, sys[p].at)
    BY <1>p DEF Parent
  <1>4. PICK va \in 0..(TRAPFRAME - 1) : va = sys[p].at
    <2>1. sys[p].at \in Nat /\ PagesOf(task[p].sz) \in 0..TRAPFRAME
      BY <1>3, TaskTypes, SysTypes
    <2> QED BY <1>2, <2>1, MemConstants
  <1>5. PICK s, m : s = task[kid].space /\ m = AllocPage(free, s, va)
    OBVIOUS
  <1>6. Sound(s) /\ Whole(s) /\ Below(s, va) /\ s \in Spaces
    BY <1>3, <1>4, <1>5 DEF Whole, Sound
  <1>7. va \notin s.mapped
    BY <1>6, TwoPages DEF Below, UserPages
  <1>8. Maps(s, va, m) /\ m.n + Size(m.s) = free + Size(s)
    BY <1>3, <1>5, <1>6, <1>7, AllocPageFacts
  <1>9. /\ m.n \in Nat /\ m.ok \in BOOLEAN /\ m.remap = FALSE /\ Sound(m.s)
        /\ m.ok => m.s.mapped = s.mapped \cup {va}
        /\ ~m.ok => m.s.mapped = s.mapped
    BY <1>7, <1>8 DEF Maps
  <1>10. PICK u : u = Unmap(m.n, m.s, 0, va)
    OBVIOUS
  <1>11. \/ /\ sys' = [sys EXCEPT ![p].at = @ + 1]
            /\ free' = free /\ task' = task /\ halted' = halted
         \/ /\ m.ok
            /\ task' = [task EXCEPT ![kid].space =
                          [m.s EXCEPT !.guard = @ \cup (task[p].space.guard \cap {va})]]
            /\ free' = m.n /\ sys' = [sys EXCEPT ![p].at = @ + 1] /\ Panic(m.remap)
         \/ ~m.ok /\ FreeProc(kid, u.n, u.s) /\ Return(p)
    BY <1>1, <1>4, <1>5, <1>10 DEF CopyPage
  <1>12. CASE /\ sys' = [sys EXCEPT ![p].at = @ + 1]
              /\ free' = free /\ task' = task /\ halted' = halted
    <2>1. Below(s, sys[p].at + 1)
      BY <1>4, <1>6, BelowMore
    <2>2. halted' = FALSE /\ task' \in [Tasks -> Tasklike]
          /\ task'[kid].state = "USED" /\ task'[kid].sz = 0 /\ task'[kid].frame
          /\ task'[kid].space = s /\ free' = free
          /\ \A q \in Tasks : q # kid => task'[q] = task[q]
      BY <1>3, <1>5, <1>12
    <2>3. free + Size(s) = free + Size(task[kid].space)
      BY <1>5
    <2> QED BY <1>1, <1>2, <1>3, <1>6, <1>12, <2>1, <2>2, <2>3, CopiedPage
  <1>13. CASE /\ m.ok
              /\ task' = [task EXCEPT ![kid].space =
                            [m.s EXCEPT !.guard = @ \cup (task[p].space.guard \cap {va})]]
              /\ free' = m.n /\ sys' = [sys EXCEPT ![p].at = @ + 1] /\ Panic(m.remap)
    <2>1. m.s \in Spaces
      BY <1>9 DEF Sound
    <2>2. PICK G : G = m.s.guard \cup (task[p].space.guard \cap {va})
      OBVIOUS
    <2>3. G \in SUBSET (0..TRAMPOLINE)
      BY <2>1, <2>2, MemConstants, SpaceFields
    <2>4. PICK w : w = [m.s EXCEPT !.guard = G]
      OBVIOUS
    <2>5. w = [tables |-> m.s.tables, mapped |-> m.s.mapped, guard |-> G]
      BY <2>1, <2>4, ExceptGuard
    <2>6. w \in Spaces /\ w.tables = m.s.tables /\ w.mapped = m.s.mapped
      BY <2>1, <2>3, <2>5, SpaceFields
    <2>7. [m.s EXCEPT !.guard = @ \cup (task[p].space.guard \cap {va})] = w
      BY <2>1, <2>2, <2>4, SpaceFields
    <2>8. task' = [task EXCEPT ![kid].space = w]
      BY <1>13, <2>7
    <2>9. Whole(w) /\ Size(w) = Size(m.s)
      BY <1>6, <1>9, <1>13, <2>6 DEF Whole, Sound, Size, UserPages
    <2>10. Below(w, sys[p].at + 1)
      <3>1. UserPages(w) \subseteq UserPages(s) \cup {va} /\ UserPages(s) \subseteq 0..TRAMPOLINE
        BY <1>6, <1>9, <1>13, <2>6, SpaceFields DEF UserPages
      <3> QED BY <1>4, <1>6, <3>1, MemConstants DEF Below
    <2>11. /\ task' \in [Tasks -> Tasklike]
           /\ task'[kid].state = "USED" /\ task'[kid].sz = 0 /\ task'[kid].frame
           /\ task'[kid].space = w
           /\ \A q \in Tasks : q # kid => task'[q] = task[q]
      <3>1. task' \in [Tasks -> Tasklike]
        BY <1>3, <2>6, <2>8, TaskSet
      <3> QED BY <1>3, <2>8, <3>1 DEF Tasklike
    <2>12. halted' = FALSE
      BY <1>3, <1>9, <1>13 DEF Panic
    <2>13. PICK n \in Nat : n = m.n
      BY <1>9
    <2>14. free' = n /\ n + Size(w) = free + Size(task[kid].space)
      BY <1>5, <1>8, <1>13, <2>9, <2>13
    <2>15. sys' = [sys EXCEPT ![p].at = @ + 1] /\ Whole(w) /\ n \in Nat
           /\ MInv /\ p \in Tasks /\ kid \in Tasks /\ machine' = machine
      BY <1>13, <2>9
    <2> QED BY ONLY <1>1, <1>2, <2>10, <2>11, <2>12, <2>14, <2>15, CopiedPage
  <1>14. CASE ~m.ok /\ FreeProc(kid, u.n, u.s) /\ Return(p)
    <2>1. va \in 0..TRAPFRAME /\ 0 \in Nat
      BY MemConstants
    <2>2. PICK n \in Nat : n = m.n
      BY <1>9
    <2>2r. PICK ms : ms = m.s
      OBVIOUS
    <2>3. Sound(ms) /\ u = Unmap(n, ms, 0, va)
      BY <1>9, <1>10, <2>2, <2>2r
    <2>4. Unmaps(ms, 0, va, u) /\ u.n + Size(u.s) = n + Size(ms)
      BY <2>1, <2>3, UnmapFacts
    <2>5. u.n \in Nat /\ Sound(u.s)
          /\ u.s.mapped = ms.mapped \ {x \in ms.mapped : 0 <= x /\ x < va}
      BY <2>4 DEF Unmaps
    <2>6. Below(u.s, 0)
      <3>1. s.mapped \in SUBSET (0..TRAMPOLINE) /\ ms.mapped = s.mapped
        BY <1>6, <1>9, <1>14, <2>2, <2>2r, SpaceFields
      <3>2. \A x \in UserPages(u.s) : x \in UserPages(s) /\ ~(0 <= x /\ x < va)
        BY <2>5, <3>1 DEF UserPages
      <3>3. \A x \in UserPages(u.s) : FALSE
        BY <1>6, <3>1, <3>2, MemConstants DEF Below, UserPages
      <3> QED BY <3>3 DEF Below
    <2>7. PICK k \in Nat : k = u.n
      BY <2>5
    <2>7r. PICK us : us = u.s
      OBVIOUS
    <2>8. /\ Sound(us) /\ Below(us, 0) /\ FreeProc(kid, k, us) /\ Return(p)
          /\ k + Size(us) = free + Size(task[kid].space)
      BY <1>5, <1>8, <1>14, <2>2, <2>2r, <2>4, <2>5, <2>6, <2>7, <2>7r
    <2> QED BY <1>1, <1>2, <2>8, CopyFailsStep
  <1> QED BY <1>11, <1>12, <1>13, <1>14

-----------------------------------------------------------------------------
(* The theorems *)

LEMMA MemNextMInv ==
  ASSUME MInv, MemNext PROVE MInv'
  <1>1. machine' = machine
    BY DEF MemNext
  <1>2. PICK p \in Tasks :
          \/ \E kid \in Tasks : Fork(p, kid)
          \/ CopyPage(p) \/ ForkEnd(p) \/ TaskExit(p) \/ ReapTask(p)
          \/ Grow(p) \/ Exec(p)
    BY DEF MemNext
  <1>3. CASE \E kid \in Tasks : Fork(p, kid)
    BY <1>1, <1>3, ForkStep
  <1>4. CASE CopyPage(p)
    BY <1>1, <1>4, CopyPageStep
  <1>5. CASE ForkEnd(p)
    BY <1>1, <1>5, ForkEndStep
  <1>6. CASE TaskExit(p)
    BY <1>1, <1>6, TaskExitStep
  <1>7. CASE ReapTask(p)
    BY <1>1, <1>7, ReapTaskStep
  <1>8. CASE Grow(p)
    <2>1. CASE \E n \in Sizes : Sbrk(p, n) \/ SbrkShrink(p, n) \/ SbrkLazy(p, n)
      BY <1>1, <2>1, SbrkStep, SbrkShrinkStep, SbrkLazyStep
    <2>2. CASE GrowPage(p)
      BY <1>1, <2>2, GrowPageStep
    <2>3. CASE GrowEnd(p)
      BY <1>1, <2>3, GrowEndStep
    <2>4. CASE \E a \in 0..(MAXVA * PGSIZE - 1) : PageFault(p, a)
      BY <1>1, <2>4, PageFaultStep
    <2> QED BY <1>8, <2>1, <2>2, <2>3, <2>4 DEF Grow
  <1>9. CASE Exec(p)
    <2>1. CASE ExecCall(p)
      BY <1>1, <2>1, ExecCallStep
    <2>2. CASE ExecArg(p)
      BY <1>1, <2>2, ExecArgStep
    <2>3. CASE \E program \in Programs : ExecOpen(p, program)
      BY <1>1, <2>3, ExecOpenStep
    <2>4. CASE ImagePage(p)
      BY <1>1, <2>4, ImagePageStep
    <2>5. CASE SegmentEnd(p)
      BY <1>1, <2>5, SegmentEndStep
    <2>6. CASE ImageBad(p)
      BY <1>1, <2>6, ImageBadStep
    <2>7. CASE ExecCommit(p)
      BY <1>1, <2>7, ExecCommitStep
    <2> QED BY <1>9, <2>1, <2>2, <2>3, <2>4, <2>5, <2>6, <2>7 DEF Exec
  <1> QED BY <1>2, <1>3, <1>4, <1>5, <1>6, <1>7, <1>8, <1>9

\* The invariant holds in every state: no step of kalloc.c, vm.c, fork(),
\* exec(), sbrk(), a page fault, exit() or wait() breaks it.
THEOREM MemoryInvariant == MemSpec => []MInv
  <1>1. MemInit => MInv
    BY InitMInv
  <1>2. MInv /\ [MemNext]_memVars => MInv'
    BY MemNextMInv, StutterStep
  <1> QED BY <1>1, <1>2, PTL DEF MemSpec

\* The free list is within the machine's memory, and each process table entry
\* and system call stays within its types.
THEOREM MemoryTypes == MemSpec => []MemTypeOK
  <1>1. ASSUME MInv PROVE MemTypeOK
    <2>1. /\ MemType /\ Accounted /\ halted = FALSE
      BY <1>1 DEF MInv
    <2>2. machine \in Machines /\ machine.phys \in Nat
      BY <2>1, MemoryAssumption DEF MemType
    <2>3. Cardinality(HeldPages) \in Nat
      BY <2>1, FS_CardinalityType DEF Accounted
    <2>4. free \in Nat /\ free + Cardinality(HeldPages) = machine.phys
      BY <2>1 DEF MemType, Accounted
    <2>5. free \in 0..machine.phys
      BY <2>2, <2>3, <2>4
    <2>6. task \in [Tasks -> [state : {"UNUSED", "USED", "LIVE", "ZOMBIE"},
                              sz : 0..(TRAPFRAME * PGSIZE), frame : BOOLEAN, space : Spaces]]
      BY <2>1 DEF MemType, Tasklike, Top
    <2>7. ASSUME NEW p \in Tasks
          PROVE  /\ sys[p].op \in {"user", "fork", "grow", "args", "load", "stack"}
                 /\ sys[p].at \in 0..TRAPFRAME /\ sys[p].upto \in 0..(TRAPFRAME * PGSIZE)
                 /\ sys[p].kid \in Tasks /\ sys[p].argv \in 0..MaxArgs
                 /\ sys[p].image \in Spaces /\ sys[p].sz \in 0..(TRAPFRAME * PGSIZE)
      <3>1. sys[p] \in Syslike
        BY <2>1 DEF MemType
      <3> QED BY <3>1, SysTypes DEF Ops, Top
    <2> QED BY <2>1, <2>2, <2>5, <2>6, <2>7 DEF MemTypeOK
  <1> QED BY <1>1, MemoryInvariant, PTL

\* Every page is free or held exactly once, whatever kalloc() refused on the
\* way, and neither mappages() nor freewalk() panics.
THEOREM PagesConserved == MemSpec => []PagesAreAccounted
  <1>1. ASSUME MInv PROVE PagesAreAccounted
    <2>1. ~halted /\ free + Cardinality(HeldPages) = machine.phys
      BY <1>1 DEF MInv, Accounted
    <2>2. ASSUME NEW p \in Tasks
          PROVE  /\ task[p].state # "UNUSED" => {TRAMPOLINE, TRAPFRAME} \subseteq task[p].space.mapped
                 /\ In(p, "user") => \A va \in UserPages(task[p].space) : va < PagesOf(task[p].sz)
                 /\ \A va \in task[p].space.mapped : TablesOf(va) \subseteq task[p].space.tables
      <3>1. TaskSound(task[p], sys[p])
        BY <1>1 DEF MInv, Consistent
      <3>2. task[p].state # "UNUSED" => {TRAMPOLINE, TRAPFRAME} \subseteq task[p].space.mapped
        BY <3>1 DEF TaskSound, Whole
      <3>3. In(p, "user") => \A va \in UserPages(task[p].space) : va < PagesOf(task[p].sz)
        BY <3>1 DEF TaskSound, In, Below
      <3>4. \A va \in task[p].space.mapped : TablesOf(va) \subseteq task[p].space.tables
        BY <3>1 DEF TaskSound, Sound
      <3> QED BY <3>2, <3>3, <3>4
    <2> QED BY <2>1, <2>2 DEF PagesAreAccounted
  <1> QED BY <1>1, MemoryInvariant, PTL

-----------------------------------------------------------------------------
(* The inductive invariant of the block maps *)

Busy == {"writei", "written", "trunc"}
Writing == {"write", "writei", "written"}
Addrs == [0 .. NDIRECT -> 0 .. NDATA]
EntrySet == [0 .. NINDIRECT - 1 -> 0 .. NDATA]
BlockSet == [data : BOOLEAN, a : EntrySet]
Requests ==
    [op : Busy \cup {"idle", "write"}, f : Opens \cup {0}, ip : Inos \cup {0},
     left : Nat, n : 0 .. MaxChunk, tot : Nat, logged : SUBSET (0 .. NDATA)]

\* The variables as one record
States ==
    [used : SUBSET DataBlocks, addrs : [Inos -> Addrs], size : [Inos -> 0 .. MAXFILE * BSIZE],
     content : [DataBlocks -> BlockSet], holder : [Inos -> Clients \cup {NoHolder}],
     off : [Opens -> 0 .. MAXFILE * BSIZE], fip : [Opens -> Inos],
     req : [Clients -> Requests], broken : {FALSE}]
Now == [used |-> used, addrs |-> addrs, size |-> size, content |-> content, holder |-> holder,
        off |-> off, fip |-> fip, req |-> req, broken |-> broken]

\* Who is within an inode's lock, and on which file.
Locks(s) ==
    /\ \A p \in Clients : s.req[p].op \in Busy => s.req[p].ip \in Inos /\ s.holder[s.req[p].ip] = p
    /\ \A i \in Inos : s.holder[i] # NoHolder =>
          s.req[s.holder[i]].op \in Busy /\ s.req[s.holder[i]].ip = i
    /\ \A p \in Clients : s.req[p].op \in Writing =>
          s.req[p].f \in Opens /\ s.req[p].ip = s.fip[s.req[p].f] /\ s.req[p].left > 0

\* Whether i is being freed, and how much of its indirect block itrunc() has freed
Truncated(s, i) == s.holder[i] # NoHolder /\ s.req[s.holder[i]].op = "trunc"
Freed(s) == [i \in Inos |-> IF Truncated(s, i) THEN s.req[s.holder[i]].tot ELSE 0]

\* The block map of all inodes, and where block bn of i is
PlacesOf(A, F) ==
    {<<i, "addrs", k>> : i \in Inos, k \in 0 .. NDIRECT}
      \cup {q \in {<<i, "indirect", j>> : i \in Inos, j \in 0 .. NINDIRECT - 1} :
              A[q[1]][NDIRECT] # 0 /\ F[q[1]] <= q[3]}
Entry(A, C, q) == IF q[2] = "addrs" THEN A[q[1]][q[3]] ELSE C[A[q[1]][NDIRECT]].a[q[3]]
Numbers(A, C, F) == [q \in PlacesOf(A, F) |-> Entry(A, C, q)]

\* A set of blocks is kept in places, each in one.
Kept(U, g) ==
    /\ \A q \in DOMAIN g : g[q] # 0 => g[q] \in U
    /\ \A b \in U : b # 0 /\ \E q \in DOMAIN g : g[q] = b
    /\ \A q, r \in DOMAIN g : g[q] = g[r] /\ g[q] # 0 => q = r

Mapped(U, A, C, F) ==
    /\ U \subseteq DataBlocks /\ A \in [Inos -> Addrs] /\ C \in [DataBlocks -> BlockSet]
    /\ F \in [Inos -> Nat]
    /\ Kept(U, Numbers(A, C, F))
    /\ \A i \in Inos : A[i][NDIRECT] # 0 => ~C[A[i][NDIRECT]].data

At(A, C, i, bn) ==
    IF bn < NDIRECT THEN A[i][bn]
    ELSE IF A[i][NDIRECT] = 0 THEN 0 ELSE C[A[i][NDIRECT]].a[bn - NDIRECT]

\* Blocks are there below the size.
FileHeld(s, i) == \A x \in 0 .. s.size[i] - 1 : At(s.addrs, s.content, i, x \div BSIZE) # 0

\* What an operation logs: the bitmap, the indirect block, and the blocks that
\* its bytes are in.
FirstBlock(s, r) == s.off[r.f] \div BSIZE
LastBlock(s, r) == (s.off[r.f] + r.n - 1) \div BSIZE
Touched(s, r) ==
    {Bitmap, s.addrs[r.ip][NDIRECT]}
      \cup {At(s.addrs, s.content, r.ip, bn) : bn \in FirstBlock(s, r) .. LastBlock(s, r)}

\* A write in its bounds has its blocks as far as it got; itrunc() keeps its
\* order; and either logs what it may.
WriteHeld(s, r) ==
    /\ r.n > 0 /\ r.n <= r.left /\ r.tot <= r.n
    /\ s.off[r.f] <= s.size[r.ip] /\ s.off[r.f] + r.n <= MAXFILE * BSIZE
    /\ \A x \in s.off[r.f] .. s.off[r.f] + r.tot - 1 : At(s.addrs, s.content, r.ip, x \div BSIZE) # 0
    /\ r.logged \subseteq Touched(s, r)
TruncHeld(s, r) ==
    /\ r.tot <= NINDIRECT
    /\ r.tot > 0 => s.addrs[r.ip][NDIRECT] # 0 /\ \A k \in 0 .. NDIRECT - 1 : s.addrs[r.ip][k] = 0
    /\ r.logged \subseteq {Bitmap}
ClientHeld(s, r) ==
    /\ r.op \in {"idle", "write"} => r.logged = {} /\ r.tot = 0
    /\ r.op \in {"writei", "written"} => WriteHeld(s, r)
    /\ r.op = "trunc" => TruncHeld(s, r)

Intact(s) ==
    /\ s \in States /\ Locks(s) /\ Mapped(s.used, s.addrs, s.content, Freed(s))
    /\ \A i \in Inos : ~Truncated(s, i) => FileHeld(s, i)
    /\ \A p \in Clients : ClientHeld(s, s.req[p])

BInv == Intact(Now)

-----------------------------------------------------------------------------
(* Sizes *)

LEMMA BlocksConstants ==
  /\ NDATA \in Nat /\ NDATA > 0 /\ NDIRECT \in Nat /\ NINDIRECT \in Nat /\ NINDIRECT > 0
  /\ BSIZE \in Nat /\ BSIZE > 0 /\ MAXFILE \in Nat /\ MAXFILE = NDIRECT + NINDIRECT
  /\ MAXOPBLOCKS \in Nat /\ MAXOPBLOCKS >= 6 /\ Lengths \subseteq Nat \ {0}
  /\ NoHolder \notin Clients /\ OpenFiles \subseteq [Opens -> Inos]
  BY BlocksAssumption DEF MAXFILE

LEMMA FileSize == MAXFILE * BSIZE \in Nat /\ 0 \in 0 .. MAXFILE * BSIZE
  <1>1. \A k, w \in Nat : k * w \in Nat
    OBVIOUS
  <1>2. MAXFILE * BSIZE \in Nat
    BY <1>1, BlocksConstants
  <1> QED BY <1>2

\* How many blocks a chunk holds, which is at least one.
ChunkBlocks == (MAXOPBLOCKS - 1 - 1 - 2) \div 2

LEMMA ChunkSize ==
  /\ ChunkBlocks \in Nat /\ ChunkBlocks > 0 /\ ChunkBlocks + 4 <= MAXOPBLOCKS
  /\ MaxChunk = ChunkBlocks * BSIZE /\ MaxChunk \in Nat /\ MaxChunk > 0
  <1>1. ChunkBlocks \in Nat /\ ChunkBlocks > 0 /\ ChunkBlocks + 4 <= MAXOPBLOCKS
    BY BlocksConstants DEF ChunkBlocks
  <1>2. MaxChunk = ChunkBlocks * BSIZE
    BY DEF MaxChunk, ChunkBlocks
  <1>3. \A k, w \in Nat : k > 0 /\ w > 0 => k * w \in Nat /\ k * w > 0
    OBVIOUS
  <1> QED BY <1>1, <1>2, <1>3, BlocksConstants

\* A byte below the end of the last block is in one of the blocks.
LEMMA BlockOf ==
  ASSUME NEW x \in Nat, NEW k \in Nat
  PROVE  /\ x \div BSIZE \in Nat /\ x % BSIZE \in 0 .. BSIZE - 1
         /\ x = BSIZE * (x \div BSIZE) + (x % BSIZE)
         /\ x < k * BSIZE => x \div BSIZE < k
         /\ x >= k * BSIZE => x \div BSIZE >= k
  <1> DEFINE W == BSIZE
  <1>1. W \in Nat \ {0}
    BY BlocksConstants
  <1> HIDE DEF W
  <1>2. PICK d, r : d = x \div W /\ r = x % W
    OBVIOUS
  <1>3. d \in Int /\ r \in 0 .. W - 1 /\ x = W * d + r
    BY <1>1, <1>2, Division
  <1>4. d >= 0
    <2> SUFFICES ASSUME d <= -1 PROVE FALSE
      BY <1>3
    <2>1. W * d <= W * (-1)
      BY <1>1, <1>3
    <2> QED BY <2>1, <1>1, <1>3
  <1>5. x < k * W => d < k
    <2> SUFFICES ASSUME d >= k PROVE ~(x < k * W)
      BY <1>3
    <2>1. W * d >= W * k
      BY <1>1, <1>3
    <2> QED BY <2>1, <1>1, <1>3
  <1>6. x >= k * W => d >= k
    <2> SUFFICES ASSUME d <= k - 1 PROVE x < k * W
      BY <1>1, <1>3
    <2>0. d + 1 <= k
      BY <1>3
    <2>1. W * (d + 1) <= W * k
      BY <1>1, <1>3, <2>0
    <2> QED BY <2>1, <1>1, <1>3
  <1> QED BY <1>2, <1>3, <1>4, <1>5, <1>6 DEF W

-----------------------------------------------------------------------------
(* What is kept where *)

\* A number comes to a place that had none; new places hold none.
LEMMA KeptAdd ==
  ASSUME NEW U, NEW g, NEW h, NEW q0 \in DOMAIN h, NEW b, b # 0, b \notin U, Kept(U, g),
         DOMAIN g \subseteq DOMAIN h, h[q0] = b,
         q0 \in DOMAIN g => g[q0] = 0,
         \A q \in DOMAIN h : q # q0 => h[q] = IF q \in DOMAIN g THEN g[q] ELSE 0
  PROVE  Kept(U \cup {b}, h)
  BY DEF Kept

\* A number goes, with its place or without; other places that go held none.
LEMMA KeptRemove ==
  ASSUME NEW U, NEW g, NEW h, NEW q0 \in DOMAIN g, Kept(U, g), g[q0] # 0,
         DOMAIN h \subseteq DOMAIN g, q0 \in DOMAIN h => h[q0] = 0,
         \A q \in DOMAIN g : q # q0 => IF q \in DOMAIN h THEN h[q] = g[q] ELSE g[q] = 0
  PROVE  Kept(U \ {g[q0]}, h)
  BY DEF Kept

LEMMA InPlaces ==
  ASSUME NEW A, NEW F, NEW q
  PROVE  q \in PlacesOf(A, F) <=>
           \/ \E i \in Inos, k \in 0 .. NDIRECT : q = <<i, "addrs", k>>
           \/ \E i \in Inos, j \in 0 .. NINDIRECT - 1 :
                 q = <<i, "indirect", j>> /\ A[i][NDIRECT] # 0 /\ F[i] <= j
  BY DEF PlacesOf

\* Numbers at a place by its parts
LEMMA NumberFacts ==
  ASSUME NEW A, NEW C, NEW F
  PROVE  /\ DOMAIN Numbers(A, C, F) = PlacesOf(A, F)
         /\ \A i \in Inos : \A k \in 0 .. NDIRECT : <<i, "addrs", k>> \in PlacesOf(A, F)
                                    /\ Numbers(A, C, F)[<<i, "addrs", k>>] = A[i][k]
         /\ \A i \in Inos : \A j \in 0 .. NINDIRECT - 1 :
              /\ <<i, "indirect", j>> \in PlacesOf(A, F) <=> A[i][NDIRECT] # 0 /\ F[i] <= j
              /\ A[i][NDIRECT] # 0 /\ F[i] <= j =>
                   Numbers(A, C, F)[<<i, "indirect", j>>] = C[A[i][NDIRECT]].a[j]
  <1>1. DOMAIN Numbers(A, C, F) = PlacesOf(A, F)
    BY DEF Numbers
  <1>2. ASSUME NEW i \in Inos, NEW k \in 0 .. NDIRECT
        PROVE  <<i, "addrs", k>> \in PlacesOf(A, F)
               /\ Numbers(A, C, F)[<<i, "addrs", k>>] = A[i][k]
    <2>1. <<i, "addrs", k>> \in PlacesOf(A, F)
      BY InPlaces
    <2> QED BY <2>1 DEF Numbers, Entry
  <1>3. ASSUME NEW i \in Inos, NEW j \in 0 .. NINDIRECT - 1
        PROVE  /\ <<i, "indirect", j>> \in PlacesOf(A, F) <=> A[i][NDIRECT] # 0 /\ F[i] <= j
               /\ A[i][NDIRECT] # 0 /\ F[i] <= j =>
                    Numbers(A, C, F)[<<i, "indirect", j>>] = C[A[i][NDIRECT]].a[j]
    <2>1. <<i, "indirect", j>> \in PlacesOf(A, F) <=> A[i][NDIRECT] # 0 /\ F[i] <= j
      BY InPlaces
    <2> QED BY <2>1 DEF Numbers, Entry
  <1> QED BY <1>1, <1>2, <1>3

\* The same, of a name for the function
AddrsIn(N, A) == \A i \in Inos : \A k \in 0 .. NDIRECT :
    <<i, "addrs", k>> \in DOMAIN N /\ N[<<i, "addrs", k>>] = A[i][k]
IndirectIn(N, A, C, F) == \A i \in Inos : \A j \in 0 .. NINDIRECT - 1 :
    /\ <<i, "indirect", j>> \in DOMAIN N <=> A[i][NDIRECT] # 0 /\ F[i] <= j
    /\ A[i][NDIRECT] # 0 /\ F[i] <= j => N[<<i, "indirect", j>>] = C[A[i][NDIRECT]].a[j]

LEMMA NumbersIn ==
  ASSUME NEW A, NEW C, NEW F, NEW N, N = Numbers(A, C, F)
  PROVE  AddrsIn(N, A) /\ IndirectIn(N, A, C, F)
  <1>1. DOMAIN N = PlacesOf(A, F)
    BY NumberFacts
  <1>2. AddrsIn(N, A)
    <2> SUFFICES ASSUME NEW i \in Inos, NEW k \in 0 .. NDIRECT
                 PROVE  <<i, "addrs", k>> \in DOMAIN N /\ N[<<i, "addrs", k>>] = A[i][k]
      BY DEF AddrsIn
    <2> QED BY <1>1, NumberFacts
  <1>3. IndirectIn(N, A, C, F)
    <2> SUFFICES ASSUME NEW i \in Inos, NEW j \in 0 .. NINDIRECT - 1
                 PROVE  /\ <<i, "indirect", j>> \in DOMAIN N <=> A[i][NDIRECT] # 0 /\ F[i] <= j
                        /\ A[i][NDIRECT] # 0 /\ F[i] <= j =>
                             N[<<i, "indirect", j>>] = C[A[i][NDIRECT]].a[j]
      BY DEF IndirectIn
    <2> QED BY <1>1, NumberFacts
  <1> QED BY <1>2, <1>3

IsPlace(q, A, F) ==
    \/ \E i \in Inos, k \in 0 .. NDIRECT : q = <<i, "addrs", k>>
    \/ \E i \in Inos, j \in 0 .. NINDIRECT - 1 : q = <<i, "indirect", j>> /\ A[i][NDIRECT] # 0 /\ F[i] <= j

LEMMA InDomain ==
  ASSUME NEW A, NEW C, NEW F, NEW N, N = Numbers(A, C, F)
  PROVE  \A q \in DOMAIN N : IsPlace(q, A, F)
  <1> SUFFICES ASSUME NEW q \in DOMAIN N PROVE IsPlace(q, A, F)
    OBVIOUS
  <1>1. q \in PlacesOf(A, F)
    BY NumberFacts
  <1> QED BY <1>1, InPlaces DEF IsPlace

\* The block of a byte is marked, and is nobody's indirect block.
LEMMA AtFacts ==
  ASSUME NEW U, NEW A, NEW C, NEW F, Mapped(U, A, C, F), NEW i \in Inos, F[i] = 0,
         NEW bn \in 0 .. MAXFILE - 1
  PROVE  /\ At(A, C, i, bn) \in 0 .. NDATA
         /\ At(A, C, i, bn) # 0 =>
              At(A, C, i, bn) \in U /\ \A j \in Inos : A[j][NDIRECT] # At(A, C, i, bn)
  <1>0. NDIRECT \in Nat /\ NINDIRECT \in Nat /\ NDATA \in Nat /\ MAXFILE = NDIRECT + NINDIRECT
    BY BlocksConstants
  <1>1. Kept(U, Numbers(A, C, F)) /\ A[i] \in Addrs /\ C \in [DataBlocks -> BlockSet]
    BY DEF Mapped
  <1>a. PICK N : N = Numbers(A, C, F)
    OBVIOUS
  <1>b. DOMAIN N = PlacesOf(A, F)
    BY <1>a, NumberFacts
  <1>c. \A j \in Inos : \A k \in 0 .. NDIRECT : <<j, "addrs", k>> \in DOMAIN N /\ N[<<j, "addrs", k>>] = A[j][k]
    <2> TAKE j \in Inos
    <2> TAKE k \in 0 .. NDIRECT
    <2>1. <<j, "addrs", k>> \in PlacesOf(A, F)
      BY InPlaces
    <2> QED BY <2>1, <1>a, <1>b, NumberFacts
  <1>d. \A j \in 0 .. NINDIRECT - 1 : A[i][NDIRECT] # 0 =>
           <<i, "indirect", j>> \in DOMAIN N /\ N[<<i, "indirect", j>>] = C[A[i][NDIRECT]].a[j]
    BY <1>0, <1>a, <1>b, NumberFacts
  <1>e. Kept(U, N)
    BY <1>1, <1>a
  <1>2. CASE bn < NDIRECT
    <2>1. bn \in 0 .. NDIRECT /\ At(A, C, i, bn) = A[i][bn]
      BY <1>0, <1>2 DEF At
    <2>2. A[i][bn] \in 0 .. NDATA
      BY <1>1, <2>1 DEF Addrs
    <2>3a. <<i, "addrs", bn>> \in DOMAIN N /\ N[<<i, "addrs", bn>>] = A[i][bn]
      BY <2>1, <1>c
    <2>3. A[i][bn] # 0 => A[i][bn] \in U
      BY <2>3a, <1>e, <1>c, <2>1 DEF Kept
    <2>4. ASSUME NEW j \in Inos, A[i][bn] # 0, A[j][NDIRECT] = A[i][bn] PROVE FALSE
      <3>1. <<j, "addrs", NDIRECT>> \in DOMAIN N /\ N[<<j, "addrs", NDIRECT>>] = A[j][NDIRECT]
        BY <1>0, <1>c
      <3>2. <<i, "addrs", bn>> \in DOMAIN N /\ N[<<i, "addrs", bn>>] = A[i][bn]
        BY <2>1, <1>c
      <3>3. <<j, "addrs", NDIRECT>> = <<i, "addrs", bn>>
        BY <1>e, <2>4, <3>1, <3>2 DEF Kept
      <3> QED BY <3>3, <1>2, <1>0
    <2> QED BY <2>1, <2>2, <2>3, <2>4
  <1>3. CASE bn >= NDIRECT /\ A[i][NDIRECT] # 0
    <2> DEFINE t == A[i][NDIRECT]
               e == bn - NDIRECT
    <2>1. e \in 0 .. NINDIRECT - 1 /\ At(A, C, i, bn) = C[t].a[e]
      BY <1>0, <1>3 DEF At
    <2>2. t \in DataBlocks
      <3>1. t \in 0 .. NDATA
        BY <1>0, <1>1 DEF Addrs
      <3> QED BY <3>1, <1>3 DEF DataBlocks
    <2>3. C[t].a[e] \in 0 .. NDATA
      <3>1. C[t] \in BlockSet
        BY <1>1, <2>2
      <3>2. C[t].a \in EntrySet
        BY <3>1 DEF BlockSet
      <3> QED BY <2>1, <3>2 DEF EntrySet
    <2>4. <<i, "indirect", e>> \in DOMAIN N /\ N[<<i, "indirect", e>>] = C[t].a[e]
      BY <1>3, <2>1, <1>d
    <2>5. C[t].a[e] # 0 => C[t].a[e] \in U
      BY <1>e, <2>4 DEF Kept
    <2>6. ASSUME NEW j \in Inos, C[t].a[e] # 0, A[j][NDIRECT] = C[t].a[e] PROVE FALSE
      <3>1. <<j, "addrs", NDIRECT>> \in DOMAIN N /\ N[<<j, "addrs", NDIRECT>>] = A[j][NDIRECT]
        BY <1>0, <1>c
      <3>2. <<j, "addrs", NDIRECT>> = <<i, "indirect", e>>
        BY <1>e, <2>4, <2>6, <3>1 DEF Kept
      <3> QED BY <3>2
    <2> QED BY <2>1, <2>3, <2>5, <2>6
  <1>4. CASE bn >= NDIRECT /\ A[i][NDIRECT] = 0
    BY <1>0, <1>4 DEF At
  <1> QED BY <1>0, <1>2, <1>3, <1>4
-----------------------------------------------------------------------------
(* The block map *)

MapStates ==
    [used : SUBSET DataBlocks, addrs : Addrs, content : [DataBlocks -> BlockSet],
     logged : SUBSET (0 .. NDATA), b : 0 .. NDATA]

LEMMA ZeroedFacts ==
  /\ Zeroed \in BlockSet /\ UserData \in BlockSet /\ Zeroed.data = FALSE /\ UserData.data = TRUE
  /\ \A j \in 0 .. NINDIRECT - 1 : Zeroed.a[j] = 0
  <1> DEFINE z == [j \in 0 .. NINDIRECT - 1 |-> 0]
  <1>1. z \in EntrySet /\ \A j \in 0 .. NINDIRECT - 1 : z[j] = 0
    BY BlocksConstants DEF EntrySet
  <1> HIDE DEF z
  <1>2. Zeroed = [data |-> FALSE, a |-> z]
    BY DEF Zeroed, z
  <1>3. Zeroed \in [data : BOOLEAN, a : EntrySet] /\ Zeroed.data = FALSE /\ Zeroed.a = z
    BY <1>1, <1>2
  <1>4. UserData \in [data : BOOLEAN, a : EntrySet] /\ UserData.data = TRUE
    BY <1>3 DEF UserData
  <1> QED BY <1>1, <1>3, <1>4 DEF BlockSet

\* balloc() finds none, or marks, zeroes and logs a free one.
LEMMA BallocFacts ==
  ASSUME NEW m \in MapStates
  PROVE  /\ Balloc(m) \in MapStates /\ Balloc(m).addrs = m.addrs
         /\ \/ /\ Balloc(m).b = 0 /\ Balloc(m).used = m.used
               /\ Balloc(m).content = m.content /\ Balloc(m).logged = m.logged
            \/ /\ Balloc(m).b \in DataBlocks /\ Balloc(m).b \notin m.used
               /\ Balloc(m).used = m.used \cup {Balloc(m).b}
               /\ Balloc(m).content = [m.content EXCEPT ![Balloc(m).b] = Zeroed]
               /\ Balloc(m).logged = m.logged \cup {Bitmap, Balloc(m).b}
  <1>1. CASE m.used = DataBlocks
    <2>1. Balloc(m) = [m EXCEPT !.b = 0]
      BY <1>1 DEF Balloc
    <2> QED BY <2>1, BlocksConstants DEF MapStates
  <1>2. CASE m.used # DataBlocks
    <2> DEFINE unused == DataBlocks \ m.used
               b == CHOOSE x \in unused : \A y \in unused : x <= y
    <2>0. m.used \subseteq DataBlocks
      BY DEF MapStates
    <2>1. unused # {}
      BY <1>2, <2>0, Zenon
    <2>1a. unused \in SUBSET Nat
      BY <2>0, BlocksConstants DEF DataBlocks
    <2>2. b \in unused
      BY <2>1, <2>1a, LeastNatural
    <2>3. Balloc(m) = [m EXCEPT !.b = b, !.used = @ \cup {b}, !.content[b] = Zeroed,
                                !.logged = @ \cup {Bitmap, b}]
      BY <1>2 DEF Balloc
    <2> HIDE DEF b
    <2>4. b \in DataBlocks /\ b \notin m.used /\ b \in 0 .. NDATA /\ Bitmap \in 0 .. NDATA
      BY <2>2, BlocksConstants DEF DataBlocks, Bitmap
    <2>5. /\ Balloc(m).b = b /\ Balloc(m).used = m.used \cup {b}
          /\ Balloc(m).content = [m.content EXCEPT ![b] = Zeroed]
          /\ Balloc(m).logged = m.logged \cup {Bitmap, b} /\ Balloc(m).addrs = m.addrs
      BY <2>3 DEF MapStates
    <2>6. Balloc(m) \in MapStates
      <3>1. [m.content EXCEPT ![b] = Zeroed] \in [DataBlocks -> BlockSet]
        BY ZeroedFacts, <2>4 DEF MapStates
      <3>2. Balloc(m) = [used |-> m.used \cup {b}, addrs |-> m.addrs,
                         content |-> [m.content EXCEPT ![b] = Zeroed],
                         logged |-> m.logged \cup {Bitmap, b}, b |-> b]
        BY <2>3 DEF MapStates
      <3> QED BY <3>1, <3>2, <2>4 DEF MapStates
    <2> QED BY <2>4, <2>5, <2>6
  <1> QED BY <1>1, <1>2

\* An allocated block that becomes addrs[k] of i
LEMMA SlotAdds ==
  ASSUME NEW U, NEW A, NEW C, NEW F, Mapped(U, A, C, F), NEW i \in Inos, NEW k \in 0 .. NDIRECT,
         F[i] = 0, A[i][k] = 0, NEW b \in DataBlocks, b \notin U,
         NEW A2 \in [Inos -> Addrs], NEW C2 \in [DataBlocks -> BlockSet],
         A2[i][k] = b,
         \A j \in Inos : \A e \in 0 .. NDIRECT : j # i \/ e # k => A2[j][e] = A[j][e],
         C2[b] = Zeroed, \A x \in DataBlocks : x # b => C2[x] = C[x]
  PROVE  Mapped(U \cup {b}, A2, C2, F)
  <1> DEFINE g == Numbers(A, C, F)
             h == Numbers(A2, C2, F)
             q0 == <<i, "addrs", k>>
  <1>0. NDIRECT \in 0 .. NDIRECT /\ b # 0 /\ b \in 0 .. NDATA /\ 0 \in 0 .. NDATA
    BY BlocksConstants DEF DataBlocks
  <1>1. /\ U \subseteq DataBlocks /\ A \in [Inos -> Addrs] /\ C \in [DataBlocks -> BlockSet]
        /\ F \in [Inos -> Nat] /\ Kept(U, g)
        /\ \A j \in Inos : A[j][NDIRECT] # 0 => ~C[A[j][NDIRECT]].data
    BY DEF Mapped
  <1>2. A2 \in [Inos -> Addrs] /\ C2 \in [DataBlocks -> BlockSet]
    OBVIOUS
  <1>3. A2[i][k] = b /\ \A j \in Inos : \A e \in 0 .. NDIRECT : j # i \/ e # k => A2[j][e] = A[j][e]
    OBVIOUS
  <1>4. C2[b] = Zeroed /\ \A x \in DataBlocks : x # b => C2[x] = C[x]
    OBVIOUS
  <1>5. DOMAIN g = PlacesOf(A, F) /\ DOMAIN h = PlacesOf(A2, F)
    BY NumberFacts
  <1>6. \A j \in Inos : A[j][NDIRECT] # 0 => A[j][NDIRECT] \in U
    <2> SUFFICES ASSUME NEW j \in Inos, A[j][NDIRECT] # 0 PROVE A[j][NDIRECT] \in U
      OBVIOUS
    <2>1. <<j, "addrs", NDIRECT>> \in DOMAIN g /\ g[<<j, "addrs", NDIRECT>>] = A[j][NDIRECT]
      BY <1>0, <1>5, NumberFacts
    <2> HIDE DEF g
    <2> QED BY <2>1, <1>1 DEF Kept
  <1>7. \A j \in Inos : A[j][NDIRECT] # 0 => A2[j][NDIRECT] = A[j][NDIRECT] /\ A[j][NDIRECT] \in DataBlocks
                          /\ A[j][NDIRECT] # b
    BY <1>0, <1>1, <1>3, <1>6
  <1>8. \A j \in Inos : A2[j][NDIRECT] # 0 /\ A[j][NDIRECT] = 0 => j = i /\ k = NDIRECT /\ A2[j][NDIRECT] = b
    BY <1>0, <1>3
  <1>9. Kept(U \cup {b}, h)
    <2>1. q0 \in DOMAIN h /\ h[q0] = b /\ q0 \in DOMAIN g /\ g[q0] = 0
      BY <1>3, <1>5, NumberFacts
    <2>2. ASSUME NEW q \in DOMAIN h, q # q0
          PROVE  h[q] = IF q \in DOMAIN g THEN g[q] ELSE 0
      <3>1. CASE \E j \in Inos, e \in 0 .. NDIRECT : q = <<j, "addrs", e>>
        <4>1. PICK j \in Inos, e \in 0 .. NDIRECT : q = <<j, "addrs", e>>
          BY <3>1
        <4>2. h[q] = A2[j][e] /\ q \in DOMAIN g /\ g[q] = A[j][e]
          BY <4>1, <1>5, NumberFacts
        <4> QED BY <4>1, <4>2, <2>2, <1>3
      <3>2. CASE \E j \in Inos, e \in 0 .. NINDIRECT - 1 :
                    q = <<j, "indirect", e>> /\ A2[j][NDIRECT] # 0 /\ F[j] <= e
        <4>1. PICK j \in Inos, e \in 0 .. NINDIRECT - 1 :
                    q = <<j, "indirect", e>> /\ A2[j][NDIRECT] # 0 /\ F[j] <= e
          BY <3>2
        <4>2. h[q] = C2[A2[j][NDIRECT]].a[e]
          BY <4>1, NumberFacts
        <4>3. CASE A[j][NDIRECT] # 0
          <5>1. q \in DOMAIN g /\ g[q] = C[A[j][NDIRECT]].a[e]
            BY <4>1, <4>3, <1>5, NumberFacts
          <5> QED BY <5>1, <4>2, <4>3, <1>4, <1>7
        <4>4. CASE A[j][NDIRECT] = 0
          <5>1. q \notin DOMAIN g
            BY <4>1, <4>4, <1>5, NumberFacts
          <5>2. h[q] = Zeroed.a[e]
            BY <4>1, <4>2, <4>4, <1>4, <1>8
          <5> QED BY <5>1, <5>2, ZeroedFacts
        <4> QED BY <4>3, <4>4
      <3> QED BY <3>1, <3>2, <1>5, InPlaces
    <2>3. DOMAIN g \subseteq DOMAIN h
      <3> SUFFICES ASSUME NEW q \in PlacesOf(A, F) PROVE q \in PlacesOf(A2, F)
        BY <1>5
      <3>1. \/ \E j \in Inos, e \in 0 .. NDIRECT : q = <<j, "addrs", e>>
            \/ \E j \in Inos, e \in 0 .. NINDIRECT - 1 :
                  q = <<j, "indirect", e>> /\ A[j][NDIRECT] # 0 /\ F[j] <= e
        BY InPlaces
      <3>2. \/ \E j \in Inos, e \in 0 .. NDIRECT : q = <<j, "addrs", e>>
            \/ \E j \in Inos, e \in 0 .. NINDIRECT - 1 :
                  q = <<j, "indirect", e>> /\ A2[j][NDIRECT] # 0 /\ F[j] <= e
        BY <3>1, <1>7
      <3> QED BY <3>2, InPlaces
    <2> HIDE DEF g, h, q0
    <2> QED BY <1>0, <1>1, <2>1, <2>2, <2>3, KeptAdd
  <1>10. \A j \in Inos : A2[j][NDIRECT] # 0 => ~C2[A2[j][NDIRECT]].data
    <2> SUFFICES ASSUME NEW j \in Inos, A2[j][NDIRECT] # 0 PROVE ~C2[A2[j][NDIRECT]].data
      OBVIOUS
    <2>1. CASE A[j][NDIRECT] # 0
      BY <2>1, <1>1, <1>4, <1>7
    <2>2. CASE A[j][NDIRECT] = 0
      BY <2>2, <1>4, <1>8, ZeroedFacts
    <2> QED BY <2>1, <2>2
  <1>11. U \cup {b} \subseteq DataBlocks
    BY <1>1
  <1> QED BY <1>1, <1>2, <1>9, <1>10, <1>11 DEF Mapped
\* An allocated block that becomes an entry of the indirect block of i
LEMMA IndirectAdds ==
  ASSUME NEW U, NEW A, NEW C, NEW F, Mapped(U, A, C, F), NEW i \in Inos,
         F[i] = 0, A[i][NDIRECT] # 0, NEW e \in 0 .. NINDIRECT - 1, C[A[i][NDIRECT]].a[e] = 0,
         NEW b \in DataBlocks, b \notin U, NEW C2 \in [DataBlocks -> BlockSet],
         C2[A[i][NDIRECT]].data = C[A[i][NDIRECT]].data, C2[A[i][NDIRECT]].a[e] = b,
         \A x \in 0 .. NINDIRECT - 1 : x # e => C2[A[i][NDIRECT]].a[x] = C[A[i][NDIRECT]].a[x],
         \A x \in DataBlocks : x # b /\ x # A[i][NDIRECT] => C2[x] = C[x]
  PROVE  Mapped(U \cup {b}, A, C2, F)
  <1> DEFINE t == A[i][NDIRECT]
             g == Numbers(A, C, F)
             h == Numbers(A, C2, F)
             q0 == <<i, "indirect", e>>
  <1>0. NDIRECT \in 0 .. NDIRECT /\ b # 0 /\ b \in 0 .. NDATA /\ 0 \in 0 .. NDATA
    BY BlocksConstants DEF DataBlocks
  <1>1. /\ U \subseteq DataBlocks /\ A \in [Inos -> Addrs] /\ C \in [DataBlocks -> BlockSet]
        /\ F \in [Inos -> Nat] /\ Kept(U, g)
        /\ \A j \in Inos : A[j][NDIRECT] # 0 => ~C[A[j][NDIRECT]].data
    BY DEF Mapped
  <1>5. DOMAIN g = PlacesOf(A, F) /\ DOMAIN h = PlacesOf(A, F)
    BY NumberFacts
  <1>6. \A j \in Inos : A[j][NDIRECT] # 0 => A[j][NDIRECT] \in U /\ (A[j][NDIRECT] = t => j = i)
    <2> SUFFICES ASSUME NEW j \in Inos, A[j][NDIRECT] # 0
                 PROVE  A[j][NDIRECT] \in U /\ (A[j][NDIRECT] = t => j = i)
      OBVIOUS
    <2>1. <<j, "addrs", NDIRECT>> \in DOMAIN g /\ g[<<j, "addrs", NDIRECT>>] = A[j][NDIRECT]
      BY <1>0, <1>5, NumberFacts
    <2>2. <<i, "addrs", NDIRECT>> \in DOMAIN g /\ g[<<i, "addrs", NDIRECT>>] = t
      BY <1>0, <1>5, NumberFacts
    <2> HIDE DEF g
    <2>3. A[j][NDIRECT] = t => <<j, "addrs", NDIRECT>> = <<i, "addrs", NDIRECT>>
      BY <2>1, <2>2, <1>1 DEF Kept
    <2> QED BY <2>1, <2>3, <1>1 DEF Kept
  <1>7. t \in U /\ t \in DataBlocks /\ t # b
    BY <1>1, <1>6
  <1>2. /\ C2 \in [DataBlocks -> BlockSet]
        /\ C2[t].data = C[t].data /\ C2[t].a[e] = b
        /\ \A x \in 0 .. NINDIRECT - 1 : x # e => C2[t].a[x] = C[t].a[x]
        /\ \A x \in DataBlocks : x # b /\ x # t => C2[x] = C[x]
    OBVIOUS
  <1>9. Kept(U \cup {b}, h)
    <2>1. q0 \in DOMAIN h /\ h[q0] = b /\ q0 \in DOMAIN g /\ g[q0] = 0
      BY <1>1, <1>2, <1>5, NumberFacts, BlocksConstants
    <2>2. ASSUME NEW q \in DOMAIN h, q # q0
          PROVE  h[q] = g[q] /\ q \in DOMAIN g
      <3>1. CASE \E j \in Inos, x \in 0 .. NDIRECT : q = <<j, "addrs", x>>
        BY <3>1, <1>5, NumberFacts
      <3>2. CASE \E j \in Inos, x \in 0 .. NINDIRECT - 1 :
                    q = <<j, "indirect", x>> /\ A[j][NDIRECT] # 0 /\ F[j] <= x
        <4>1. PICK j \in Inos, x \in 0 .. NINDIRECT - 1 :
                    q = <<j, "indirect", x>> /\ A[j][NDIRECT] # 0 /\ F[j] <= x
          BY <3>2
        <4>2. h[q] = C2[A[j][NDIRECT]].a[x] /\ g[q] = C[A[j][NDIRECT]].a[x] /\ q \in DOMAIN g
          BY <4>1, <1>5, NumberFacts
        <4>3. CASE j = i
          BY <4>1, <4>2, <4>3, <2>2, <1>2
        <4>4. CASE j # i
          <5>1. A[j][NDIRECT] \in DataBlocks /\ A[j][NDIRECT] # t /\ A[j][NDIRECT] # b
            BY <4>1, <4>4, <1>1, <1>6
          <5> QED BY <5>1, <4>2, <1>2
        <4> QED BY <4>3, <4>4
      <3> QED BY <3>1, <3>2, <1>5, InPlaces
    <2>3. DOMAIN g = DOMAIN h
      BY <1>5
    <2> HIDE DEF g, h, q0
    <2> QED BY <1>0, <1>1, <2>1, <2>2, <2>3, KeptAdd
  <1>10. \A j \in Inos : A[j][NDIRECT] # 0 => ~C2[A[j][NDIRECT]].data
    BY <1>1, <1>2, <1>6
  <1>11. U \cup {b} \subseteq DataBlocks
    BY <1>1
  <1> QED BY <1>1, <1>2, <1>9, <1>10, <1>11 DEF Mapped
\* What a step leaves: each number that was there
Keeps(A, C, A2, C2) == \A j \in Inos :
    /\ \A k \in 0 .. NDIRECT : A[j][k] # 0 => A2[j][k] = A[j][k]
    /\ \A bn \in 0 .. MAXFILE - 1 : At(A, C, j, bn) # 0 => At(A2, C2, j, bn) = At(A, C, j, bn)

LEMMA IndirectIsMarked ==
  ASSUME NEW U, NEW A, NEW C, NEW F, Mapped(U, A, C, F)
  PROVE  \A j \in Inos : A[j][NDIRECT] # 0 => A[j][NDIRECT] \in U /\ A[j][NDIRECT] \in DataBlocks
                             /\ \A i \in Inos : A[i][NDIRECT] = A[j][NDIRECT] => i = j
  <1>0. NDIRECT \in 0 .. NDIRECT
    BY BlocksConstants
  <1> SUFFICES ASSUME NEW j \in Inos, A[j][NDIRECT] # 0
               PROVE  A[j][NDIRECT] \in U /\ A[j][NDIRECT] \in DataBlocks
                       /\ \A i \in Inos : A[i][NDIRECT] = A[j][NDIRECT] => i = j
    OBVIOUS
  <1> DEFINE g == Numbers(A, C, F)
  <1>1. Kept(U, g) /\ U \subseteq DataBlocks
    BY DEF Mapped
  <1>2. \A i \in Inos : <<i, "addrs", NDIRECT>> \in DOMAIN g /\ g[<<i, "addrs", NDIRECT>>] = A[i][NDIRECT]
    BY <1>0, NumberFacts
  <1>3. <<j, "addrs", NDIRECT>> \in DOMAIN g /\ g[<<j, "addrs", NDIRECT>>] = A[j][NDIRECT]
    BY <1>2
  <1> HIDE DEF g
  <1>4. A[j][NDIRECT] \in U
    BY <1>1, <1>3 DEF Kept
  <1>5. ASSUME NEW i \in Inos, A[i][NDIRECT] = A[j][NDIRECT] PROVE i = j
    <2>1. <<i, "addrs", NDIRECT>> \in DOMAIN g /\ g[<<i, "addrs", NDIRECT>>] = A[i][NDIRECT]
      BY <1>2
    <2>2. <<i, "addrs", NDIRECT>> = <<j, "addrs", NDIRECT>>
      BY <2>1, <1>1, <1>3, <1>5 DEF Kept
    <2> QED BY <2>2
  <1> QED BY <1>1, <1>4, <1>5

\* What Slot() returns
SlotResult(m, A, F, i, k, r, A2) ==
    /\ r \in MapStates /\ Mapped(r.used, A2, r.content, F) /\ A2[i] = r.addrs /\ r.b = A2[i][k]
    /\ r.logged \subseteq m.logged \cup {Bitmap, r.b}
    /\ \A x \in 0 .. NDIRECT : A[i][x] # 0 \/ x # k => A2[i][x] = A[i][x]
    /\ \A b \in m.used : r.content[b] = m.content[b]

LEMMA SlotFacts ==
  ASSUME NEW m \in MapStates, NEW A, NEW F, NEW i \in Inos, NEW k \in 0 .. NDIRECT,
         Mapped(m.used, A, m.content, F), m.addrs = A[i], F[i] = 0,
         NEW r, r = Slot(m, k), NEW A2, A2 = [A EXCEPT ![i] = r.addrs]
  PROVE  SlotResult(m, A, F, i, k, r, A2)
  <1>1. A \in [Inos -> Addrs] /\ A[i] \in Addrs /\ m.content \in [DataBlocks -> BlockSet]
    BY DEF Mapped
  <1>2. CASE A[i][k] # 0
    <2>1. r = [m EXCEPT !.b = A[i][k]]
      BY <1>2 DEF Slot
    <2>2. A[i][k] \in 0 .. NDATA
      BY <1>1 DEF Addrs
    <2>3. r \in MapStates /\ r.addrs = A[i] /\ r.used = m.used /\ r.content = m.content /\ r.logged = m.logged
          /\ r.b = A[i][k]
      BY <2>1, <2>2 DEF MapStates
    <2>4. A2 = A
      BY <2>3, <1>1
    <2> QED BY <2>3, <2>4, <1>2 DEF SlotResult
  <1>3. CASE A[i][k] = 0
    <2>1. PICK b1 : b1 = Balloc(m)
      OBVIOUS
    <2>2. r = [b1 EXCEPT !.addrs[k] = b1.b]
      BY <1>3, <2>1 DEF Slot
    <2>3. b1 \in MapStates /\ b1.addrs = A[i]
      BY <2>1, BallocFacts
    <2>4. \/ b1.b = 0 /\ b1.used = m.used /\ b1.content = m.content /\ b1.logged = m.logged
          \/ /\ b1.b \in DataBlocks /\ b1.b \notin m.used
             /\ b1.used = m.used \cup {b1.b} /\ b1.content = [m.content EXCEPT ![b1.b] = Zeroed]
             /\ b1.logged = m.logged \cup {Bitmap, b1.b}
      BY <2>1, BallocFacts
    <2>5. PICK a : a = [A[i] EXCEPT ![k] = b1.b]
      OBVIOUS
    <2>6. a \in Addrs /\ a[k] = b1.b /\ \A x \in 0 .. NDIRECT : x # k => a[x] = A[i][x]
      BY <1>1, <2>3, <2>5 DEF Addrs, MapStates
    <2>7. r \in MapStates /\ r.addrs = a /\ r.used = b1.used /\ r.content = b1.content /\ r.logged = b1.logged
          /\ r.b = b1.b
      <3>1. r = [b1 EXCEPT !.addrs = a]
        BY <2>2, <2>3, <2>5
      <3> QED BY <3>1, <2>3, <2>6 DEF MapStates
    <2>8. A2 \in [Inos -> Addrs] /\ A2[i] = a /\ A2 = [A EXCEPT ![i][k] = b1.b]
      BY <1>1, <2>5, <2>6, <2>7
    <2>9. Mapped(r.used, A2, r.content, F)
      <3>1. CASE b1.b = 0
        <4>1. a = A[i]
          BY <3>1, <2>5, <1>1, <1>3 DEF Addrs
        <4>2. A2 = A
          BY <4>1, <2>7, <1>1
        <4>3. r.used = m.used /\ r.content = m.content
          BY <3>1, <2>4, <2>7 DEF DataBlocks
        <4> QED BY <4>2, <4>3
      <3>2. CASE b1.b # 0
        <4>1. PICK b, U, C, C2 : b = b1.b /\ U = m.used /\ C = m.content /\ C2 = r.content
          OBVIOUS
        <4>2. b \in DataBlocks /\ b \notin U /\ r.used = U \cup {b} /\ C2 = [C EXCEPT ![b] = Zeroed]
          BY <3>2, <4>1, <2>4, <2>7
        <4>3. C2 \in [DataBlocks -> BlockSet] /\ C2[b] = Zeroed
              /\ \A x \in DataBlocks : x # b => C2[x] = C[x]
          BY <4>1, <4>2, <1>1, ZeroedFacts
        <4>4. A2[i][k] = b /\ \A j \in Inos : \A e \in 0 .. NDIRECT : j # i \/ e # k => A2[j][e] = A[j][e]
          BY <4>1, <2>6, <2>7, <1>1
        <4>5. Mapped(U, A, C, F)
          BY <4>1
        <4>6. A2 \in [Inos -> Addrs]
          BY <2>8
        <4>6a. PICK B : B = A2
          OBVIOUS
        <4>7. Mapped(U \cup {b}, B, C2, F)
          <5>1. A[i][k] = 0 /\ F[i] = 0 /\ C2[b] = Zeroed /\ B[i][k] = b
            BY <1>3, <4>3, <4>4, <4>6a
          <5>2. b \in DataBlocks /\ b \notin U
            BY <4>2
          <5>3. \A j \in Inos : \A e \in 0 .. NDIRECT : j # i \/ e # k => B[j][e] = A[j][e]
            BY <4>4, <4>6a
          <5>4. \A x \in DataBlocks : x # b => C2[x] = C[x]
            BY <4>3
          <5>5. C2 \in [DataBlocks -> BlockSet]
            BY <4>3
          <5>6. B \in [Inos -> Addrs]
            BY <4>6, <4>6a
          <5> QED BY <5>1, <5>2, <5>3, <5>4, <5>5, <5>6, <4>5, SlotAdds
        <4> QED BY <4>1, <4>2, <4>6a, <4>7
      <3> QED BY <3>1, <3>2
    <2>10. \A b \in m.used : r.content[b] = m.content[b]
      BY <2>4, <2>7, <1>1 DEF Mapped
    <2>11. r.logged \subseteq m.logged \cup {Bitmap, r.b}
      BY <2>4, <2>7
    <2>12. \A x \in 0 .. NDIRECT : A[i][x] # 0 \/ x # k => A2[i][x] = A[i][x]
      BY <2>6, <2>8, <1>3
    <2> QED BY <2>6, <2>7, <2>8, <2>9, <2>10, <2>11, <2>12 DEF SlotResult
  <1> QED BY <1>2, <1>3

\* What IndirectSlot() returns
IndirectResult(m, A, F, i, e, t, r) ==
    /\ r \in MapStates /\ Mapped(r.used, A, r.content, F) /\ r.addrs = A[i] /\ r.b = r.content[t].a[e]
    /\ r.logged \subseteq m.logged \cup {Bitmap, t, r.b}
    /\ \A x \in 0 .. NINDIRECT - 1 :
          m.content[t].a[x] # 0 \/ x # e => r.content[t].a[x] = m.content[t].a[x]
    /\ \A b \in m.used : b # t => r.content[b] = m.content[b]

LEMMA IndirectSlotFacts ==
  ASSUME NEW m \in MapStates, NEW A, NEW F, NEW i \in Inos, NEW e \in 0 .. NINDIRECT - 1,
         Mapped(m.used, A, m.content, F), m.addrs = A[i], F[i] = 0, A[i][NDIRECT] # 0,
         NEW t, t = A[i][NDIRECT], NEW r, r = IndirectSlot(m, t, e)
  PROVE  IndirectResult(m, A, F, i, e, t, r)
  <1>1. A \in [Inos -> Addrs] /\ m.content \in [DataBlocks -> BlockSet] /\ m.used \subseteq DataBlocks
    BY DEF Mapped
  <1>2. t \in m.used /\ t \in DataBlocks /\ t \in 0 .. NDATA
    BY IndirectIsMarked, BlocksConstants DEF DataBlocks
  <1>3. m.content[t] \in BlockSet /\ m.content[t].a[e] \in 0 .. NDATA
    BY <1>1, <1>2 DEF BlockSet, EntrySet
  <1>4. CASE m.content[t].a[e] # 0
    <2>1. r = [m EXCEPT !.b = m.content[t].a[e]]
      BY <1>4 DEF IndirectSlot
    <2>3. r \in MapStates /\ r.addrs = A[i] /\ r.used = m.used /\ r.content = m.content /\ r.logged = m.logged
          /\ r.b = m.content[t].a[e]
      BY <2>1, <1>3 DEF MapStates
    <2> QED BY <2>3, <1>4 DEF IndirectResult
  <1>5. CASE m.content[t].a[e] = 0
    <2>1. PICK b1 : b1 = Balloc(m)
      OBVIOUS
    <2>2. r = IF b1.b = 0 THEN b1 ELSE [b1 EXCEPT !.content[t].a[e] = b1.b, !.logged = @ \cup {t}]
      BY <1>5, <2>1 DEF IndirectSlot
    <2>3. b1 \in MapStates /\ b1.addrs = A[i]
      BY <2>1, BallocFacts
    <2>4. \/ b1.b = 0 /\ b1.used = m.used /\ b1.content = m.content /\ b1.logged = m.logged
          \/ /\ b1.b \in DataBlocks /\ b1.b \notin m.used
             /\ b1.used = m.used \cup {b1.b} /\ b1.content = [m.content EXCEPT ![b1.b] = Zeroed]
             /\ b1.logged = m.logged \cup {Bitmap, b1.b}
      BY <2>1, BallocFacts
    <2>5. CASE b1.b = 0
      <3>1. r = b1 /\ b1.content = m.content /\ b1.used = m.used /\ b1.logged = m.logged
        BY <2>2, <2>4, <2>5 DEF DataBlocks
      <3> QED BY <3>1, <2>3, <2>5, <1>5 DEF IndirectResult
    <2>6. CASE b1.b # 0
      <3>1. PICK D : D = [b1.content EXCEPT ![t].a[e] = b1.b]
        OBVIOUS
      <3>2. r = [b1 EXCEPT !.content = D, !.logged = b1.logged \cup {t}]
        BY <2>2, <2>3, <2>6, <3>1
      <3>3. D = [[m.content EXCEPT ![b1.b] = Zeroed] EXCEPT ![t].a[e] = b1.b]
        BY <2>4, <2>6, <3>1
      <3>4. b1.b \in DataBlocks /\ b1.b \notin m.used /\ b1.used = m.used \cup {b1.b}
            /\ b1.logged = m.logged \cup {Bitmap, b1.b}
        BY <2>4, <2>6
      <3>4a. t # b1.b
        BY <1>2, <3>4
      <3>8. /\ D \in [DataBlocks -> BlockSet]
            /\ D[t].data = m.content[t].data /\ D[t].a[e] = b1.b
            /\ \A x \in 0 .. NINDIRECT - 1 : x # e => D[t].a[x] = m.content[t].a[x]
            /\ \A b \in DataBlocks : b # b1.b /\ b # t => D[b] = m.content[b]
        <4>1. PICK E : E = [m.content EXCEPT ![b1.b] = Zeroed]
          OBVIOUS
        <4>2. E \in [DataBlocks -> BlockSet] /\ E[t] = m.content[t]
              /\ \A b \in DataBlocks : b # b1.b => E[b] = m.content[b]
          BY <4>1, <1>1, <1>2, <3>4, <3>4a, ZeroedFacts
        <4>3. D = [E EXCEPT ![t] = [E[t] EXCEPT !.a = [E[t].a EXCEPT ![e] = b1.b]]]
          BY <3>3, <4>1
        <4>4. E[t].a \in [0 .. NINDIRECT - 1 -> 0 .. NDATA] /\ E[t] \in [data : BOOLEAN, a : EntrySet]
          BY <4>2, <1>2 DEF BlockSet, EntrySet
        <4>4a. PICK z : z = [E[t].a EXCEPT ![e] = b1.b]
          OBVIOUS
        <4>4b. z \in EntrySet
          BY <4>4, <4>4a, <3>4, BlocksConstants DEF EntrySet, DataBlocks
        <4>4c. PICK c : c = [E[t] EXCEPT !.a = z]
          OBVIOUS
        <4>4d. c \in BlockSet /\ c.a = z /\ c.data = E[t].data /\ D = [E EXCEPT ![t] = c]
          BY <4>3, <4>4, <4>4a, <4>4b, <4>4c DEF BlockSet
        <4>5. D[t].a = [E[t].a EXCEPT ![e] = b1.b] /\ D \in [DataBlocks -> BlockSet] /\ D[t].data = E[t].data
          BY <4>2, <4>4a, <4>4d, <1>2
        <4>6. D[t].a = z /\ D[t].data = m.content[t].data /\ E[t].a = m.content[t].a
          BY <4>2, <4>4a, <4>5
        <4>7. z[e] = b1.b /\ \A x \in 0 .. NINDIRECT - 1 : x # e => z[x] = m.content[t].a[x]
          BY <4>4, <4>4a, <4>6
        <4>8. \A b \in DataBlocks : b # b1.b /\ b # t => D[b] = m.content[b]
          BY <4>2, <4>4d
        <4> QED BY <4>5, <4>6, <4>7, <4>8
      <3>5. Mapped(m.used \cup {b1.b}, A, D, F)
        <4>1. PICK b, U, C : b = b1.b /\ U = m.used /\ C = m.content
          OBVIOUS
        <4>2. b \in DataBlocks /\ b \notin U /\ Mapped(U, A, C, F) /\ C[t].a[e] = 0
          BY <4>1, <3>4, <1>5
        <4>3. /\ D \in [DataBlocks -> BlockSet]
              /\ D[t].data = C[t].data /\ D[t].a[e] = b
              /\ \A x \in 0 .. NINDIRECT - 1 : x # e => D[t].a[x] = C[t].a[x]
              /\ \A x \in DataBlocks : x # b /\ x # t => D[x] = C[x]
          BY <4>1, <3>8
        <4>4. Mapped(U \cup {b}, A, D, F)
          BY <4>2, <4>3, IndirectAdds
        <4> QED BY <4>1, <4>4
      <3>6. D \in [DataBlocks -> BlockSet]
        BY <3>8
      <3>7. r \in MapStates /\ r.addrs = A[i] /\ r.used = b1.used /\ r.content = D /\ r.b = b1.b
            /\ r.logged = m.logged \cup {Bitmap, t, b1.b}
        <4>1. b1.logged \cup {t} \in SUBSET (0 .. NDATA) /\ b1.logged \cup {t} = m.logged \cup {Bitmap, t, b1.b}
          BY <3>4, <2>3, <1>2 DEF MapStates
        <4>2. PICK lg : lg = b1.logged \cup {t}
          OBVIOUS
        <4>3. r = [b1 EXCEPT !.content = D, !.logged = lg]
          BY <3>2, <4>2
        <4> QED BY <4>1, <4>2, <4>3, <3>6, <2>3 DEF MapStates
      <3>9. Mapped(r.used, A, r.content, F)
        BY <3>4, <3>5, <3>7
      <3> QED BY <3>4, <3>7, <3>8, <3>9, <1>1, <1>5 DEF IndirectResult
    <2> QED BY <2>5, <2>6
  <1> QED BY <1>4, <1>5
\* What bmap() returns
BmapResult(m, A, F, i, bn, r, A2) ==
    /\ r \in MapStates /\ Mapped(r.used, A2, r.content, F)
    /\ r.logged \subseteq m.logged \cup {Bitmap, A2[i][NDIRECT], r.b}
    /\ r.b # 0 => At(A2, r.content, i, bn) = r.b
    /\ Keeps(A, m.content, A2, r.content)

\* bmap() finds the block, or allocates what is missing, or the disk is full.
LEMMA BmapFacts ==
  ASSUME NEW m \in MapStates, NEW A, NEW F, NEW i \in Inos, NEW bn \in 0 .. MAXFILE - 1,
         Mapped(m.used, A, m.content, F), m.addrs = A[i], F[i] = 0,
         NEW r, r = Bmap(m, bn), NEW A2, A2 = [A EXCEPT ![i] = r.addrs]
  PROVE  BmapResult(m, A, F, i, bn, r, A2)
  <1>0. NDIRECT \in 0 .. NDIRECT /\ NDIRECT \in Nat /\ NINDIRECT \in Nat /\ MAXFILE = NDIRECT + NINDIRECT
    BY BlocksConstants
  <1>1. A \in [Inos -> Addrs]
    BY DEF Mapped
  <1>2. \A j \in Inos : A[j][NDIRECT] # 0 => A[j][NDIRECT] \in m.used /\ A[j][NDIRECT] \in DataBlocks
                          /\ \A h \in Inos : A[h][NDIRECT] = A[j][NDIRECT] => h = j
    BY IndirectIsMarked
  <1>3. CASE bn < NDIRECT
    <2>1. r = Slot(m, bn) /\ bn \in 0 .. NDIRECT
      BY <1>0, <1>3 DEF Bmap
    <2>2. /\ r \in MapStates /\ Mapped(r.used, A2, r.content, F) /\ A2[i] = r.addrs /\ r.b = A2[i][bn]
          /\ r.logged \subseteq m.logged \cup {Bitmap, r.b}
          /\ \A x \in 0 .. NDIRECT : A[i][x] # 0 \/ x # bn => A2[i][x] = A[i][x]
          /\ \A b \in m.used : r.content[b] = m.content[b]
      <3>1. SlotResult(m, A, F, i, bn, r, A2)
        BY <2>1, SlotFacts
      <3> QED BY <3>1 DEF SlotResult
    <2>3. \A j \in Inos : j # i => A2[j] = A[j]
      BY <1>1
    <2>4. Keeps(A, m.content, A2, r.content)
      <3> SUFFICES ASSUME NEW j \in Inos
                   PROVE  /\ \A k \in 0 .. NDIRECT : A[j][k] # 0 => A2[j][k] = A[j][k]
                          /\ \A n \in 0 .. MAXFILE - 1 :
                               At(A, m.content, j, n) # 0 => At(A2, r.content, j, n) = At(A, m.content, j, n)
        BY DEF Keeps
      <3>1. \A k \in 0 .. NDIRECT : A[j][k] # 0 => A2[j][k] = A[j][k]
        BY <2>2, <2>3
      <3>2. A[j][NDIRECT] # 0 => r.content[A[j][NDIRECT]] = m.content[A[j][NDIRECT]]
        BY <1>2, <2>2
      <3> QED BY <1>0, <3>1, <3>2 DEF At
    <2>5. A2[i][bn] = r.b /\ (r.b # 0 => At(A2, r.content, i, bn) = r.b)
      BY <1>3, <2>2 DEF At
    <2> QED BY <2>2, <2>4, <2>5 DEF BmapResult
  <1>4. CASE bn >= NDIRECT
    <2>0. PICK s, S : s = Slot(m, NDIRECT) /\ S = [A EXCEPT ![i] = s.addrs]
      OBVIOUS
    <2>1. r = IF s.b = 0 THEN s ELSE IndirectSlot(s, s.b, bn - NDIRECT)
      BY <1>0, <1>4, <2>0 DEF Bmap
    <2>2. /\ s \in MapStates /\ Mapped(s.used, S, s.content, F) /\ S[i] = s.addrs /\ s.b = S[i][NDIRECT]
          /\ s.logged \subseteq m.logged \cup {Bitmap, s.b}
          /\ \A x \in 0 .. NDIRECT : A[i][x] # 0 \/ x # NDIRECT => S[i][x] = A[i][x]
          /\ \A b \in m.used : s.content[b] = m.content[b]
      <3>1. SlotResult(m, A, F, i, NDIRECT, s, S)
        BY <1>0, <2>0, SlotFacts
      <3> QED BY <3>1 DEF SlotResult
    <2>3. (\A j \in Inos : j # i => S[j] = A[j]) /\ S \in [Inos -> Addrs]
      BY <1>1, <2>0, <2>2 DEF Mapped
    <2>4. \A j \in Inos : \A k \in 0 .. NDIRECT : A[j][k] # 0 => S[j][k] = A[j][k]
      BY <2>2, <2>3
    <2>5. CASE s.b = 0
      <3>1. r = s /\ A2 = S
        BY <2>0, <2>1, <2>5
      <3>2. \A j \in Inos : A[j][NDIRECT] # 0 => r.content[A[j][NDIRECT]] = m.content[A[j][NDIRECT]]
        BY <1>2, <2>2, <3>1
      <3>3. Keeps(A, m.content, S, r.content)
        BY <1>0, <2>4, <3>2 DEF Keeps, At
      <3> QED BY <2>2, <2>5, <3>1, <3>3 DEF BmapResult
    <2>6. CASE s.b # 0
      <3>0. PICK t, e : t = S[i][NDIRECT] /\ e = bn - NDIRECT
        OBVIOUS
      <3>1. r = IndirectSlot(s, t, e) /\ e \in 0 .. NINDIRECT - 1 /\ S[i][NDIRECT] # 0 /\ t = S[i][NDIRECT]
            /\ e = bn - NDIRECT
        BY <1>0, <1>4, <3>0, <2>1, <2>2, <2>6
      <3>2. /\ r \in MapStates /\ Mapped(r.used, S, r.content, F) /\ r.addrs = S[i] /\ r.b = r.content[t].a[e]
            /\ r.logged \subseteq s.logged \cup {Bitmap, t, r.b}
            /\ \A x \in 0 .. NINDIRECT - 1 :
                  s.content[t].a[x] # 0 \/ x # e => r.content[t].a[x] = s.content[t].a[x]
            /\ \A b \in s.used : b # t => r.content[b] = s.content[b]
        <4>1. s \in MapStates /\ Mapped(s.used, S, s.content, F) /\ s.addrs = S[i]
          BY <2>2
        <4>2. IndirectResult(s, S, F, i, e, t, r)
          BY <4>1, <3>1, IndirectSlotFacts
        <4> QED BY <4>2 DEF IndirectResult
      <3>3. A2 = S
        BY <2>0, <2>2, <3>2, <1>1
      <3>4. \A j \in Inos : S[j][NDIRECT] # 0 => S[j][NDIRECT] \in s.used
                          /\ \A h \in Inos : S[h][NDIRECT] = S[j][NDIRECT] => h = j
        BY <2>2, IndirectIsMarked
      <3>5. Keeps(A, m.content, S, r.content)
        <4> SUFFICES ASSUME NEW j \in Inos
                     PROVE  \A n \in 0 .. MAXFILE - 1 :
                               At(A, m.content, j, n) # 0 => At(S, r.content, j, n) = At(A, m.content, j, n)
          BY <2>4 DEF Keeps
        <4>1. CASE A[j][NDIRECT] = 0
          <5> TAKE n \in 0 .. MAXFILE - 1
          <5>1. CASE n < NDIRECT
            <6>1. n \in 0 .. NDIRECT
              BY <1>0, <5>1
            <6> QED BY <2>4, <5>1, <6>1 DEF At
          <5>2. CASE ~(n < NDIRECT)
            BY <4>1, <5>2 DEF At
          <5> QED BY <5>1, <5>2
        <4>2. CASE A[j][NDIRECT] # 0
          <5>1. S[j][NDIRECT] = A[j][NDIRECT] /\ s.content[A[j][NDIRECT]] = m.content[A[j][NDIRECT]]
            BY <1>0, <1>2, <2>2, <2>4, <4>2
          <5>2. CASE j = i
            <6>1. \A x \in 0 .. NINDIRECT - 1 :
                     s.content[t].a[x] # 0 => r.content[t].a[x] = s.content[t].a[x]
              BY <3>2
            <6> TAKE n \in 0 .. MAXFILE - 1
            <6>3. CASE n < NDIRECT
              <7>1. n \in 0 .. NDIRECT
                BY <1>0, <6>3
              <7> QED BY <2>4, <6>3, <7>1 DEF At
            <6>4. CASE ~(n < NDIRECT)
              <7>1. At(A, m.content, j, n) = m.content[A[j][NDIRECT]].a[n - NDIRECT]
                BY <4>2, <6>4 DEF At
              <7>2. At(S, r.content, j, n) = r.content[S[j][NDIRECT]].a[n - NDIRECT]
                BY <4>2, <5>1, <6>4 DEF At
              <7>3. n - NDIRECT \in 0 .. NINDIRECT - 1 /\ S[j][NDIRECT] = t
                BY <1>0, <3>1, <5>2, <6>4
              <7> QED BY <5>1, <6>1, <7>1, <7>2, <7>3
            <6> QED BY <6>3, <6>4
          <5>3. CASE j # i
            <6>1. S[j][NDIRECT] # t /\ S[j][NDIRECT] \in s.used
              BY <3>1, <3>4, <4>2, <5>1, <5>3
            <6>2. r.content[S[j][NDIRECT]] = s.content[S[j][NDIRECT]]
              BY <3>2, <6>1
            <6> TAKE n \in 0 .. MAXFILE - 1
            <6>3. CASE n < NDIRECT
              <7>1. n \in 0 .. NDIRECT
                BY <1>0, <6>3
              <7> QED BY <2>4, <6>3, <7>1 DEF At
            <6>4. CASE ~(n < NDIRECT)
              <7>1. At(A, m.content, j, n) = m.content[A[j][NDIRECT]].a[n - NDIRECT]
                BY <4>2, <6>4 DEF At
              <7>2. At(S, r.content, j, n) = r.content[S[j][NDIRECT]].a[n - NDIRECT]
                BY <4>2, <5>1, <6>4 DEF At
              <7> QED BY <5>1, <6>2, <7>1, <7>2
            <6> QED BY <6>3, <6>4
          <5> QED BY <5>2, <5>3
        <4> QED BY <4>1, <4>2
      <3>6. At(S, r.content, i, bn) = r.b
        <4>1. ~(bn < NDIRECT) /\ S[i][NDIRECT] # 0
          BY <1>0, <1>4, <3>1
        <4>2. At(S, r.content, i, bn) = r.content[S[i][NDIRECT]].a[bn - NDIRECT]
          BY <4>1 DEF At
        <4> QED BY <3>1, <3>2, <4>2
      <3>7. r.logged \subseteq m.logged \cup {Bitmap, t, r.b}
        BY <2>2, <3>1, <3>2
      <3> QED BY <3>1, <3>2, <3>3, <3>5, <3>6, <3>7 DEF BmapResult
    <2> QED BY <2>5, <2>6
  <1> QED BY <1>0, <1>3, <1>4

\* Bytes written to a block that is no indirect block leave the map as it is.
Written(U, A, C, F, b, C2) == Mapped(U, A, C2, F) /\ Keeps(A, C, A, C2)

LEMMA DataWritten ==
  ASSUME NEW U, NEW A, NEW C, NEW F, Mapped(U, A, C, F), NEW b \in DataBlocks,
         \A j \in Inos : A[j][NDIRECT] # b, NEW C2, C2 = [C EXCEPT ![b] = UserData]
  PROVE  Written(U, A, C, F, b, C2)
  <1>1. /\ A \in [Inos -> Addrs] /\ C \in [DataBlocks -> BlockSet] /\ U \subseteq DataBlocks
        /\ F \in [Inos -> Nat] /\ Kept(U, Numbers(A, C, F))
        /\ \A j \in Inos : A[j][NDIRECT] # 0 => ~C[A[j][NDIRECT]].data
    BY DEF Mapped
  <1>2. C2 \in [DataBlocks -> BlockSet]
    BY <1>1, ZeroedFacts
  <1>3. \A j \in Inos : A[j][NDIRECT] # 0 => C2[A[j][NDIRECT]] = C[A[j][NDIRECT]]
    BY <1>1, IndirectIsMarked
  <1>4. Numbers(A, C2, F) = Numbers(A, C, F)
    <2>1. ASSUME NEW q \in PlacesOf(A, F) PROVE Entry(A, C2, q) = Entry(A, C, q)
      <3>1. CASE \E j \in Inos, k \in 0 .. NDIRECT : q = <<j, "addrs", k>>
        BY <3>1 DEF Entry
      <3>2. CASE \E j \in Inos, k \in 0 .. NINDIRECT - 1 :
                    q = <<j, "indirect", k>> /\ A[j][NDIRECT] # 0 /\ F[j] <= k
        BY <3>2, <1>3 DEF Entry
      <3> QED BY <2>1, <3>1, <3>2, InPlaces
    <2> QED BY <2>1 DEF Numbers
  <1>5. Keeps(A, C, A, C2)
    BY <1>3 DEF Keeps, At
  <1> QED BY <1>1, <1>2, <1>3, <1>4, <1>5 DEF Mapped, Written
-----------------------------------------------------------------------------
(* itrunc() *)

\* A direct block is given back.
LEMMA DirectFreed ==
  ASSUME NEW U, NEW A, NEW C, NEW F, Mapped(U, A, C, F), NEW i \in Inos, NEW k \in 0 .. NDIRECT - 1,
         A[i][k] # 0, NEW A2, A2 = [A EXCEPT ![i][k] = 0]
  PROVE  A[i][k] \in U /\ Mapped(U \ {A[i][k]}, A2, C, F)
  <1>a. PICK g, h, q0 : g = Numbers(A, C, F) /\ h = Numbers(A2, C, F) /\ q0 = <<i, "addrs", k>>
    OBVIOUS
  <1>b. AddrsIn(g, A) /\ IndirectIn(g, A, C, F)
    BY <1>a, NumbersIn
  <1>c. AddrsIn(h, A2) /\ IndirectIn(h, A2, C, F)
    BY <1>a, NumbersIn
  <1>0. NDIRECT \in 0 .. NDIRECT /\ k \in 0 .. NDIRECT /\ k # NDIRECT /\ 0 \in 0 .. NDATA
    BY BlocksConstants
  <1>1. /\ A \in [Inos -> Addrs] /\ C \in [DataBlocks -> BlockSet] /\ U \subseteq DataBlocks
        /\ F \in [Inos -> Nat] /\ Kept(U, g)
        /\ \A j \in Inos : A[j][NDIRECT] # 0 => ~C[A[j][NDIRECT]].data
    BY <1>a DEF Mapped
  <1>2. /\ A2 \in [Inos -> Addrs] /\ A2[i][k] = 0
        /\ \A j \in Inos : \A x \in 0 .. NDIRECT : j # i \/ x # k => A2[j][x] = A[j][x]
    BY <1>0, <1>1 DEF Addrs
  <1>3. \A j \in Inos : A2[j][NDIRECT] = A[j][NDIRECT]
    BY <1>0, <1>2
  <1>4. DOMAIN g = DOMAIN h
    <2>1. PlacesOf(A2, F) = PlacesOf(A, F)
      BY <1>3 DEF PlacesOf
    <2> QED BY <2>1, <1>a, NumberFacts
  <1>5. q0 \in DOMAIN g /\ g[q0] = A[i][k] /\ h[q0] = 0
    <2>1. q0 \in DOMAIN g /\ g[q0] = A[i][k]
      BY <1>0, <1>a, <1>b, <1>c DEF AddrsIn
    <2>2. h[q0] = A2[i][k]
      BY <1>0, <1>a, <1>b, <1>c DEF AddrsIn
    <2> QED BY <2>1, <2>2, <1>2
  <1>6. ASSUME NEW q \in DOMAIN g, q # q0 PROVE h[q] = g[q]
    <2>1. CASE \E j \in Inos, x \in 0 .. NDIRECT : q = <<j, "addrs", x>>
      <3>1. PICK j \in Inos, x \in 0 .. NDIRECT : q = <<j, "addrs", x>>
        BY <2>1
      <3>2. h[q] = A2[j][x] /\ g[q] = A[j][x]
        BY <3>1, <1>a, <1>b, <1>c DEF AddrsIn
      <3> QED BY <3>1, <3>2, <1>2, <1>6, <1>a
    <2>2. CASE \E j \in Inos, x \in 0 .. NINDIRECT - 1 :
                  q = <<j, "indirect", x>> /\ A[j][NDIRECT] # 0 /\ F[j] <= x
      <3>1. PICK j \in Inos, x \in 0 .. NINDIRECT - 1 :
                  q = <<j, "indirect", x>> /\ A[j][NDIRECT] # 0 /\ F[j] <= x
        BY <2>2
      <3>2. h[q] = C[A2[j][NDIRECT]].a[x] /\ g[q] = C[A[j][NDIRECT]].a[x]
        <4>1. A2[j][NDIRECT] # 0
          BY <3>1, <1>3
        <4> QED BY <3>1, <4>1, <1>a, <1>b, <1>c DEF IndirectIn
      <3> QED BY <3>2, <1>3
    <2>3. IsPlace(q, A, F)
      BY <1>a, <1>6, InDomain
    <2> QED BY <2>1, <2>2, <2>3 DEF IsPlace
  <1>7. g[q0] \in U /\ Kept(U \ {g[q0]}, h)
    <2>0. g[q0] # 0
      BY <1>5
    <2>1. g[q0] \in U
      BY <1>1, <1>5, <2>0 DEF Kept
    <2>3. q0 \in DOMAIN h
      BY <1>4, <1>5
    <2> QED BY <1>1, <1>4, <1>5, <1>6, <2>0, <2>1, KeptRemove
  <1>8. U \ {A[i][k]} \subseteq DataBlocks /\ \A j \in Inos : A2[j][NDIRECT] # 0 => ~C[A2[j][NDIRECT]].data
    BY <1>1, <1>3
  <1>9. A[i][k] \in U /\ Kept(U \ {A[i][k]}, h)
    BY <1>5, <1>7
  <1> QED BY <1>1, <1>2, <1>8, <1>9, <1>a DEF Mapped

\* A block b given back, of the entry e or the indirect block of i
GivenBack(U, A, C, F, i, e, b, A2, F2) == b \in U /\ Mapped(U \ {b}, A2, C, F2)

\* The next entry of the indirect block is given back.
LEMMA EntryFreed ==
  ASSUME NEW U, NEW A, NEW C, NEW F, Mapped(U, A, C, F), NEW i \in Inos,
         A[i][NDIRECT] # 0, NEW t, t = A[i][NDIRECT],
         NEW e \in 0 .. NINDIRECT - 1, F[i] <= e, C[t].a[e] # 0,
         \A x \in 0 .. NINDIRECT - 1 : F[i] <= x /\ x < e => C[t].a[x] = 0,
         NEW F2, F2 = [F EXCEPT ![i] = e + 1], NEW b, b = C[t].a[e]
  PROVE  GivenBack(U, A, C, F, i, e, b, A, F2)
  <1>a. PICK g, h, q0 : g = Numbers(A, C, F) /\ h = Numbers(A, C, F2) /\ q0 = <<i, "indirect", e>>
    OBVIOUS
  <1>b. AddrsIn(g, A) /\ IndirectIn(g, A, C, F)
    BY <1>a, NumbersIn
  <1>c. AddrsIn(h, A) /\ IndirectIn(h, A, C, F2)
    BY <1>a, NumbersIn
  <1>0. NINDIRECT \in Nat
    BY BlocksConstants
  <1>1. /\ A \in [Inos -> Addrs] /\ C \in [DataBlocks -> BlockSet] /\ U \subseteq DataBlocks
        /\ F \in [Inos -> Nat] /\ Kept(U, g)
        /\ \A j \in Inos : A[j][NDIRECT] # 0 => ~C[A[j][NDIRECT]].data
    BY <1>a DEF Mapped
  <1>2. F2 \in [Inos -> Nat] /\ F2[i] = e + 1 /\ \A j \in Inos : j # i => F2[j] = F[j]
    BY <1>0, <1>1
  <1>4. DOMAIN g = PlacesOf(A, F) /\ DOMAIN h = PlacesOf(A, F2)
    BY <1>a, NumberFacts
  <1>5. q0 \in DOMAIN g /\ g[q0] = C[t].a[e] /\ q0 \notin DOMAIN h
    <2>1. q0 \in DOMAIN g /\ g[q0] = C[t].a[e]
      BY <1>a, <1>b, <1>c DEF IndirectIn
    <2>2. ~(F2[i] <= e)
      BY <1>0, <1>2
    <2>3. q0 \notin DOMAIN h
      BY <2>2, <1>a, <1>b, <1>c DEF IndirectIn
    <2> QED BY <2>1, <2>3
  <1>6. ASSUME NEW q \in DOMAIN g, q # q0 PROVE IF q \in DOMAIN h THEN h[q] = g[q] ELSE g[q] = 0
    <2>1. CASE \E j \in Inos, x \in 0 .. NDIRECT : q = <<j, "addrs", x>>
      <3>1. PICK j \in Inos, x \in 0 .. NDIRECT : q = <<j, "addrs", x>>
        BY <2>1
      <3>2. h[q] = A[j][x] /\ g[q] = A[j][x] /\ q \in DOMAIN h
        BY <3>1, <1>a, <1>b, <1>c DEF AddrsIn
      <3> QED BY <3>2
    <2>2. CASE \E j \in Inos, x \in 0 .. NINDIRECT - 1 :
                  q = <<j, "indirect", x>> /\ A[j][NDIRECT] # 0 /\ F[j] <= x
      <3>1. PICK j \in Inos, x \in 0 .. NINDIRECT - 1 :
                  q = <<j, "indirect", x>> /\ A[j][NDIRECT] # 0 /\ F[j] <= x
        BY <2>2
      <3>2. g[q] = C[A[j][NDIRECT]].a[x] /\ (q \in DOMAIN h <=> F2[j] <= x)
            /\ (q \in DOMAIN h => h[q] = C[A[j][NDIRECT]].a[x])
        BY <3>1, <1>a, <1>b, <1>c DEF IndirectIn
      <3>3. CASE j = i /\ x < e
        BY <3>1, <3>2, <3>3, <1>0, <1>2
      <3>4. CASE j # i \/ x > e
        BY <3>1, <3>2, <3>4, <1>0, <1>2
      <3> QED BY <3>1, <3>3, <3>4, <1>0, <1>6, <1>a
    <2>3. IsPlace(q, A, F)
      BY <1>a, <1>6, InDomain
    <2> QED BY <2>1, <2>2, <2>3 DEF IsPlace
  <1>7. DOMAIN h \subseteq DOMAIN g
    <2> SUFFICES ASSUME NEW q \in PlacesOf(A, F2) PROVE q \in PlacesOf(A, F)
      BY <1>4
    <2>1. \A j \in Inos : F[j] <= F2[j]
      BY <1>0, <1>1, <1>2
    <2>2. \/ \E j \in Inos, x \in 0 .. NDIRECT : q = <<j, "addrs", x>>
          \/ \E j \in Inos, x \in 0 .. NINDIRECT - 1 :
                q = <<j, "indirect", x>> /\ A[j][NDIRECT] # 0 /\ F2[j] <= x
      BY InPlaces, ZenonT(30)
    <2>3. \/ \E j \in Inos, x \in 0 .. NDIRECT : q = <<j, "addrs", x>>
          \/ \E j \in Inos, x \in 0 .. NINDIRECT - 1 :
                q = <<j, "indirect", x>> /\ A[j][NDIRECT] # 0 /\ F[j] <= x
      BY <1>0, <1>1, <1>2, <2>1, <2>2
    <2> QED BY <2>3, InPlaces
  <1>8. g[q0] \in U /\ Kept(U \ {g[q0]}, h)
    <2>0. g[q0] # 0
      BY <1>5
    <2>1. g[q0] \in U
      BY <1>1, <1>5, <2>0 DEF Kept
    <2> QED BY <1>1, <1>5, <1>6, <1>7, <2>0, <2>1, KeptRemove
  <1>9. b \in U /\ Kept(U \ {b}, h) /\ U \ {b} \subseteq DataBlocks
    BY <1>1, <1>5, <1>8
  <1> QED BY <1>1, <1>2, <1>9, <1>a DEF Mapped, GivenBack

\* The indirect block, emptied, is given back.
LEMMA IndirectFreed ==
  ASSUME NEW U, NEW A, NEW C, NEW F, Mapped(U, A, C, F), NEW i \in Inos,
         A[i][NDIRECT] # 0, NEW t, t = A[i][NDIRECT],
         \A x \in 0 .. NINDIRECT - 1 : F[i] <= x => C[t].a[x] = 0,
         NEW A2, A2 = [A EXCEPT ![i][NDIRECT] = 0], NEW F2, F2 = [F EXCEPT ![i] = 0]
  PROVE  GivenBack(U, A, C, F, i, 0, t, A2, F2)
  <1>a. PICK g, h, q0 : g = Numbers(A, C, F) /\ h = Numbers(A2, C, F2) /\ q0 = <<i, "addrs", NDIRECT>>
    OBVIOUS
  <1>b. AddrsIn(g, A) /\ IndirectIn(g, A, C, F)
    BY <1>a, NumbersIn
  <1>c. AddrsIn(h, A2) /\ IndirectIn(h, A2, C, F2)
    BY <1>a, NumbersIn
  <1>0. NDIRECT \in 0 .. NDIRECT /\ 0 \in 0 .. NDATA /\ NINDIRECT \in Nat
    BY BlocksConstants
  <1>1. /\ A \in [Inos -> Addrs] /\ C \in [DataBlocks -> BlockSet] /\ U \subseteq DataBlocks
        /\ F \in [Inos -> Nat] /\ Kept(U, g)
        /\ \A j \in Inos : A[j][NDIRECT] # 0 => ~C[A[j][NDIRECT]].data
    BY <1>a DEF Mapped
  <1>2. /\ A2 \in [Inos -> Addrs] /\ A2[i][NDIRECT] = 0
        /\ \A j \in Inos : \A x \in 0 .. NDIRECT : j # i \/ x # NDIRECT => A2[j][x] = A[j][x]
    BY <1>0, <1>1 DEF Addrs
  <1>3. F2 \in [Inos -> Nat] /\ \A j \in Inos : j # i => F2[j] = F[j]
    BY <1>1
  <1>4. DOMAIN g = PlacesOf(A, F) /\ DOMAIN h = PlacesOf(A2, F2)
    BY <1>a, NumberFacts
  <1>5. q0 \in DOMAIN g /\ g[q0] = t /\ q0 \in DOMAIN h /\ h[q0] = 0
    <2>1. q0 \in DOMAIN g /\ g[q0] = t
      BY <1>0, <1>a, <1>b, <1>c DEF AddrsIn
    <2>2. q0 \in DOMAIN h /\ h[q0] = A2[i][NDIRECT]
      BY <1>0, <1>a, <1>b, <1>c DEF AddrsIn
    <2> QED BY <2>1, <2>2, <1>2
  <1>6. ASSUME NEW q \in DOMAIN g, q # q0 PROVE IF q \in DOMAIN h THEN h[q] = g[q] ELSE g[q] = 0
    <2>1. CASE \E j \in Inos, x \in 0 .. NDIRECT : q = <<j, "addrs", x>>
      <3>1. PICK j \in Inos, x \in 0 .. NDIRECT : q = <<j, "addrs", x>>
        BY <2>1
      <3>2. h[q] = A2[j][x] /\ g[q] = A[j][x] /\ q \in DOMAIN h
        BY <3>1, <1>a, <1>b, <1>c DEF AddrsIn
      <3> QED BY <3>1, <3>2, <1>2, <1>6, <1>a
    <2>2. CASE \E j \in Inos, x \in 0 .. NINDIRECT - 1 :
                  q = <<j, "indirect", x>> /\ A[j][NDIRECT] # 0 /\ F[j] <= x
      <3>1. PICK j \in Inos, x \in 0 .. NINDIRECT - 1 :
                  q = <<j, "indirect", x>> /\ A[j][NDIRECT] # 0 /\ F[j] <= x
        BY <2>2
      <3>2. g[q] = C[A[j][NDIRECT]].a[x] /\ (q \in DOMAIN h <=> A2[j][NDIRECT] # 0 /\ F2[j] <= x)
            /\ (q \in DOMAIN h => h[q] = C[A2[j][NDIRECT]].a[x])
        BY <3>1, <1>a, <1>b, <1>c DEF IndirectIn
      <3>3. CASE j = i
        BY <3>1, <3>2, <3>3, <1>2
      <3>4. CASE j # i
        BY <3>1, <3>2, <3>4, <1>0, <1>2, <1>3
      <3> QED BY <3>3, <3>4
    <2>3. IsPlace(q, A, F)
      BY <1>a, <1>6, InDomain
    <2> QED BY <2>1, <2>2, <2>3 DEF IsPlace
  <1>7. DOMAIN h \subseteq DOMAIN g
    <2> SUFFICES ASSUME NEW q \in PlacesOf(A2, F2) PROVE q \in PlacesOf(A, F)
      BY <1>4
    <2>2. \/ \E j \in Inos, x \in 0 .. NDIRECT : q = <<j, "addrs", x>>
          \/ \E j \in Inos, x \in 0 .. NINDIRECT - 1 :
                q = <<j, "indirect", x>> /\ A2[j][NDIRECT] # 0 /\ F2[j] <= x
      BY InPlaces
    <2>3. \/ \E j \in Inos, x \in 0 .. NDIRECT : q = <<j, "addrs", x>>
          \/ \E j \in Inos, x \in 0 .. NINDIRECT - 1 :
                q = <<j, "indirect", x>> /\ A[j][NDIRECT] # 0 /\ F[j] <= x
      BY <1>0, <1>2, <1>3, <2>2
    <2> QED BY <2>3, InPlaces
  <1>8. g[q0] \in U /\ Kept(U \ {g[q0]}, h)
    <2>0. g[q0] # 0
      BY <1>5
    <2>1. g[q0] \in U
      BY <1>1, <1>5, <2>0 DEF Kept
    <2> QED BY <1>1, <1>5, <1>6, <1>7, <2>0, <2>1, KeptRemove
  <1>9. t \in U /\ Kept(U \ {t}, h) /\ U \ {t} \subseteq DataBlocks
    BY <1>1, <1>5, <1>8
  <1>10. \A j \in Inos : A2[j][NDIRECT] # 0 => ~C[A2[j][NDIRECT]].data
    BY <1>0, <1>1, <1>2
  <1> QED BY <1>1, <1>2, <1>3, <1>9, <1>10, <1>a DEF Mapped, GivenBack
-----------------------------------------------------------------------------
(* A step of p within one inode's lock *)

\* All that p may do to i: the frame of every step, and its locks.
Moves(s, t, p, i) ==
    /\ p \in Clients /\ i \in Inos /\ t \in States /\ t.fip = s.fip
    /\ s.holder[i] \in {NoHolder, p} /\ (s.req[p].op \in Busy => s.req[p].ip = i)
    /\ \A q \in Clients : q # p => t.req[q] = s.req[q]
    /\ \A j \in Inos : j # i => t.holder[j] = s.holder[j] /\ t.size[j] = s.size[j] /\ t.addrs[j] = s.addrs[j]
    /\ \A f \in Opens : s.fip[f] # i => t.off[f] = s.off[f]
    /\ \A j \in Inos : \A bn \in 0 .. MAXFILE - 1 : j # i /\ At(s.addrs, s.content, j, bn) # 0 =>
          At(t.addrs, t.content, j, bn) = At(s.addrs, s.content, j, bn)
    /\ \/ t.holder[i] = p /\ t.req[p].op \in Busy /\ t.req[p].ip = i
       \/ t.holder[i] = NoHolder /\ t.req[p].op \notin Busy
    /\ t.req[p].op \in Writing =>
          t.req[p].f \in Opens /\ t.req[p].ip = t.fip[t.req[p].f] /\ t.req[p].left > 0

LEMMA OtherHolders ==
  ASSUME NEW s, Intact(s), NEW t, NEW p, NEW i, Moves(s, t, p, i), NEW q \in Clients, q # p,
         s.req[q].op \in Busy
  PROVE  s.req[q].ip \in Inos /\ s.req[q].ip # i
  BY BlocksConstants DEF Intact, Locks, Moves

LEMMA LocksMove ==
  ASSUME NEW s, Intact(s), NEW t, NEW p, NEW i, Moves(s, t, p, i)
  PROVE  Locks(t)
  <1>1. ASSUME NEW q \in Clients, t.req[q].op \in Busy
        PROVE  t.req[q].ip \in Inos /\ t.holder[t.req[q].ip] = q
    <2>1. CASE q = p
      BY <1>1, <2>1, BlocksConstants DEF Moves
    <2>2. CASE q # p
      <3>1. t.req[q] = s.req[q]
        BY <2>2 DEF Moves
      <3>2. s.req[q].ip \in Inos /\ s.req[q].ip # i
        BY <1>1, <2>2, <3>1, OtherHolders
      <3>3. s.holder[s.req[q].ip] = q
        BY <1>1, <3>1 DEF Intact, Locks
      <3> QED BY <3>1, <3>2, <3>3 DEF Moves
    <2> QED BY <2>1, <2>2
  <1>2. ASSUME NEW j \in Inos, t.holder[j] # NoHolder
        PROVE  t.req[t.holder[j]].op \in Busy /\ t.req[t.holder[j]].ip = j
    <2>1. CASE j = i
      BY <1>2, <2>1 DEF Moves
    <2>2. CASE j # i
      <3>1. t.holder[j] = s.holder[j] /\ t \in States
        BY <2>2 DEF Moves
      <3>2. s.holder[j] \in Clients
        BY <1>2, <3>1 DEF States
      <3>3. s.req[s.holder[j]].op \in Busy /\ s.req[s.holder[j]].ip = j
        BY <1>2, <3>1 DEF Intact, Locks
      <3>4. s.holder[j] # p
        BY <2>2, <3>3 DEF Moves
      <3> QED BY <3>1, <3>2, <3>3, <3>4 DEF Moves
    <2> QED BY <2>1, <2>2
  <1>3. ASSUME NEW q \in Clients, t.req[q].op \in Writing
        PROVE  t.req[q].f \in Opens /\ t.req[q].ip = t.fip[t.req[q].f] /\ t.req[q].left > 0
    <2>1. CASE q = p
      BY <1>3, <2>1 DEF Moves
    <2>2. CASE q # p
      BY <1>3, <2>2 DEF Moves, Intact, Locks
    <2> QED BY <2>1, <2>2
  <1> QED BY <1>1, <1>2, <1>3 DEF Locks

LEMMA TruncatedMoves ==
  ASSUME NEW s, Intact(s), NEW t, NEW p, NEW i, Moves(s, t, p, i)
  PROVE  /\ Truncated(s, i) <=> s.req[p].op = "trunc"
         /\ Truncated(t, i) <=> t.req[p].op = "trunc"
         /\ Freed(s) \in [Inos -> Nat] /\ Freed(s)[i] = IF s.req[p].op = "trunc" THEN s.req[p].tot ELSE 0
         /\ Freed(t) = [Freed(s) EXCEPT ![i] = IF t.req[p].op = "trunc" THEN t.req[p].tot ELSE 0]
         /\ \A j \in Inos : j # i => (Truncated(t, j) <=> Truncated(s, j))
  <1>0. i \in Inos /\ p \in Clients /\ p # NoHolder /\ s \in States /\ t \in States
    BY BlocksConstants DEF Moves, Intact
  <1>1. Truncated(s, i) <=> s.req[p].op = "trunc"
    BY <1>0 DEF Moves, Intact, Locks, Truncated, Busy
  <1>2. Truncated(t, i) <=> t.req[p].op = "trunc"
    BY <1>0 DEF Moves, Truncated, Busy
  <1>3. ASSUME NEW j \in Inos, j # i
        PROVE  /\ Truncated(t, j) <=> Truncated(s, j)
               /\ t.holder[j] = s.holder[j]
               /\ Truncated(s, j) => t.req[t.holder[j]] = s.req[s.holder[j]]
    <2>1. t.holder[j] = s.holder[j]
      BY <1>3 DEF Moves
    <2>2. CASE s.holder[j] = NoHolder
      BY <2>1, <2>2 DEF Truncated
    <2>3. CASE s.holder[j] # NoHolder
      <3>1. s.holder[j] \in Clients
        BY <1>0, <2>3 DEF States
      <3>2. s.req[s.holder[j]].op \in Busy /\ s.req[s.holder[j]].ip = j
        BY <2>3 DEF Intact, Locks
      <3>3. s.holder[j] # p
        BY <1>3, <3>2 DEF Moves
      <3> QED BY <2>1, <3>1, <3>3 DEF Moves, Truncated
    <2> QED BY <2>2, <2>3
  <1>4. \A j \in Inos : Truncated(s, j) => s.req[s.holder[j]].tot \in Nat
    <2> SUFFICES ASSUME NEW j \in Inos, Truncated(s, j) PROVE s.req[s.holder[j]].tot \in Nat
      OBVIOUS
    <2>1. s.holder[j] \in Clients
      BY <1>0 DEF Truncated, States
    <2> QED BY <2>1, <1>0 DEF States, Requests
  <1>5. Freed(s) \in [Inos -> Nat]
    BY <1>4 DEF Freed
  <1>6. Freed(s)[i] = IF s.req[p].op = "trunc" THEN s.req[p].tot ELSE 0
    BY <1>0, <1>1 DEF Freed, Truncated, Moves
  <1>7. Freed(t)[i] = IF t.req[p].op = "trunc" THEN t.req[p].tot ELSE 0
    BY <1>0, <1>2 DEF Freed, Truncated, Moves
  <1>8. \A j \in Inos : j # i => Freed(t)[j] = Freed(s)[j]
    BY <1>3 DEF Freed
  <1>9. Freed(t) = [Freed(s) EXCEPT ![i] = IF t.req[p].op = "trunc" THEN t.req[p].tot ELSE 0]
    BY <1>0, <1>7, <1>8 DEF Freed
  <1> QED BY <1>1, <1>2, <1>3, <1>5, <1>6, <1>9
\* A byte of a file is in one of its blocks.
LEMMA InFile ==
  ASSUME NEW x \in Nat, x < MAXFILE * BSIZE
  PROVE  x \div BSIZE \in 0 .. MAXFILE - 1
  <1>1. x \div BSIZE \in Nat /\ x \div BSIZE < MAXFILE
    BY BlockOf, BlocksConstants
  <1> QED BY <1>1, BlocksConstants

\* The blocks of the bytes from a to b - 1
LEMMA BlocksBetween ==
  ASSUME NEW a \in Nat, NEW b \in Nat, NEW x \in a .. b - 1
  PROVE  /\ a \div BSIZE \in Nat /\ (b - 1) \div BSIZE \in Nat /\ x \div BSIZE \in Nat
         /\ a \div BSIZE <= x \div BSIZE /\ x \div BSIZE <= (b - 1) \div BSIZE
  <1>0. x \in Nat /\ b - 1 \in Nat /\ BSIZE \in Nat /\ BSIZE > 0
    BY BlocksConstants
  <1>1. PICK d, e, g : d = a \div BSIZE /\ e = x \div BSIZE /\ g = (b - 1) \div BSIZE
    OBVIOUS
  <1>2. /\ d \in Nat /\ e \in Nat /\ g \in Nat
        /\ a = BSIZE * d + (a % BSIZE) /\ a % BSIZE \in 0 .. BSIZE - 1
        /\ b - 1 = BSIZE * g + ((b - 1) % BSIZE) /\ (b - 1) % BSIZE \in 0 .. BSIZE - 1
    BY <1>0, <1>1, BlockOf
  <1>3. d * BSIZE <= a /\ b - 1 < (g + 1) * BSIZE
    BY <1>0, <1>2
  <1>4. x >= d * BSIZE => e >= d
    BY <1>0, <1>1, <1>2, BlockOf
  <1>5. g + 1 \in Nat /\ (x < (g + 1) * BSIZE => e < g + 1)
    BY <1>0, <1>1, <1>2, BlockOf
  <1>6. x >= d * BSIZE /\ x < (g + 1) * BSIZE
    BY <1>0, <1>2, <1>3
  <1> QED BY <1>1, <1>2, <1>4, <1>5, <1>6

\* The blocks that an operation touches are blocks of its file.
LEMMA TouchedBlocks ==
  ASSUME NEW s \in States, NEW r \in Requests, r.f \in Opens, r.n > 0,
         s.off[r.f] + r.n <= MAXFILE * BSIZE
  PROVE  /\ FirstBlock(s, r) .. LastBlock(s, r) \subseteq 0 .. MAXFILE - 1
         /\ FirstBlock(s, r) \in Nat /\ LastBlock(s, r) \in Nat
  <1>1. s.off[r.f] \in Nat /\ r.n \in Nat
    BY BlocksConstants, ChunkSize DEF States, Requests
  <1>2. PICK o, n : o = s.off[r.f] /\ n = r.n
    OBVIOUS
  <1>3. o \in Nat /\ n \in Nat /\ n > 0 /\ o + n \in Nat /\ o + n - 1 \in o .. (o + n) - 1 /\ o + n - 1 \in Nat
        /\ o + n - 1 < MAXFILE * BSIZE
    BY <1>1, <1>2, BlocksConstants
  <1>4. (o + n - 1) \div BSIZE \in 0 .. MAXFILE - 1 /\ o \div BSIZE \in Nat
    BY <1>3, InFile, BlockOf
  <1>5. FirstBlock(s, r) = o \div BSIZE /\ LastBlock(s, r) = (o + n - 1) \div BSIZE
    BY <1>2 DEF FirstBlock, LastBlock
  <1> QED BY <1>4, <1>5, BlocksConstants

\* A write of which every block stays, in a file that did not shrink
LEMMA WriteStays ==
  ASSUME NEW s \in States, NEW t \in States, NEW r \in Requests, r.f \in Opens, r.ip \in Inos,
         WriteHeld(s, r), t.off[r.f] = s.off[r.f], t.size[r.ip] = s.size[r.ip],
         s.addrs[r.ip][NDIRECT] # 0 => t.addrs[r.ip][NDIRECT] = s.addrs[r.ip][NDIRECT],
         \A bn \in 0 .. MAXFILE - 1 : At(s.addrs, s.content, r.ip, bn) # 0 =>
            At(t.addrs, t.content, r.ip, bn) = At(s.addrs, s.content, r.ip, bn)
  PROVE  WriteHeld(t, r) /\ Touched(s, r) \subseteq Touched(t, r)
  <1>1. s.off[r.f] \in Nat /\ r.n \in Nat /\ r.tot \in Nat
    BY BlocksConstants, ChunkSize DEF States, Requests
  <1>2. /\ r.n > 0 /\ r.n <= r.left /\ r.tot <= r.n
        /\ s.off[r.f] <= s.size[r.ip] /\ s.off[r.f] + r.n <= MAXFILE * BSIZE
        /\ r.logged \subseteq Touched(s, r)
    BY DEF WriteHeld
  <1>3. ASSUME NEW x \in t.off[r.f] .. t.off[r.f] + r.tot - 1
        PROVE  At(t.addrs, t.content, r.ip, x \div BSIZE) # 0
    <2>1. x \in s.off[r.f] .. s.off[r.f] + r.tot - 1
      BY <1>3
    <2>2. x \in Nat /\ x < MAXFILE * BSIZE
      BY <1>1, <1>2, <2>1, BlocksConstants
    <2>3. x \div BSIZE \in 0 .. MAXFILE - 1
      BY <2>2, InFile
    <2>4. At(s.addrs, s.content, r.ip, x \div BSIZE) # 0
      BY <2>1 DEF WriteHeld
    <2> QED BY <2>3, <2>4
  <1>4. Touched(s, r) \subseteq Touched(t, r)
    <2> SUFFICES ASSUME NEW y \in Touched(s, r), y # 0 PROVE y \in Touched(t, r)
      BY DEF Touched, Bitmap
    <2>1. FirstBlock(t, r) = FirstBlock(s, r) /\ LastBlock(t, r) = LastBlock(s, r)
      BY DEF FirstBlock, LastBlock
    <2>2. FirstBlock(s, r) .. LastBlock(s, r) \subseteq 0 .. MAXFILE - 1
      BY <1>2, TouchedBlocks
    <2>3. CASE y = s.addrs[r.ip][NDIRECT]
      BY <2>3 DEF Touched
    <2>4. CASE \E bn \in FirstBlock(s, r) .. LastBlock(s, r) : y = At(s.addrs, s.content, r.ip, bn)
      <3>1. PICK bn \in FirstBlock(s, r) .. LastBlock(s, r) : y = At(s.addrs, s.content, r.ip, bn)
        BY <2>4
      <3>2. y = At(t.addrs, t.content, r.ip, bn)
        BY <2>2, <3>1
      <3> QED BY <2>1, <3>2 DEF Touched
    <2> QED BY <2>3, <2>4 DEF Touched, Bitmap
  <1> QED BY <1>2, <1>3, <1>4 DEF WriteHeld

\* What is left to show of a step is about p and i.
LEMMA MovesHold ==
  ASSUME NEW s, Intact(s), NEW t, NEW p, NEW i, Moves(s, t, p, i),
         Mapped(t.used, t.addrs, t.content, Freed(t)),
         t.req[p].op # "trunc" => FileHeld(t, i),
         ClientHeld(t, t.req[p])
  PROVE  Intact(t)
  <1>0. s \in States /\ t \in States /\ p \in Clients /\ i \in Inos
    BY DEF Intact, Moves
  <1>1. ASSUME NEW j \in Inos, ~Truncated(t, j) PROVE FileHeld(t, j)
    <2>1. CASE j = i
      BY <1>1, <2>1, TruncatedMoves
    <2>2. CASE j # i
      <3>1. ~Truncated(s, j)
        BY <1>1, <2>2, TruncatedMoves
      <3>2. FileHeld(s, j)
        BY <3>1 DEF Intact
      <3>3. t.size[j] = s.size[j] /\ t.size[j] \in 0 .. MAXFILE * BSIZE
        BY <2>2, <1>0 DEF Moves, States
      <3> SUFFICES ASSUME NEW x \in 0 .. t.size[j] - 1 PROVE At(t.addrs, t.content, j, x \div BSIZE) # 0
        BY DEF FileHeld
      <3>4. x \in Nat /\ x < MAXFILE * BSIZE
        BY <3>3, BlocksConstants
      <3>5. x \div BSIZE \in 0 .. MAXFILE - 1
        BY <3>4, InFile
      <3>6. At(s.addrs, s.content, j, x \div BSIZE) # 0
        BY <3>2, <3>3 DEF FileHeld
      <3> QED BY <2>2, <3>5, <3>6 DEF Moves
    <2> QED BY <2>1, <2>2
  <1>2. ASSUME NEW q \in Clients PROVE ClientHeld(t, t.req[q])
    <2>1. CASE q = p
      BY <2>1
    <2>2. CASE q # p
      <3>1. PICK r : r = s.req[q]
        OBVIOUS
      <3>2. t.req[q] = r /\ ClientHeld(s, r) /\ r \in Requests
        BY <1>0, <2>2, <3>1 DEF Moves, Intact, States
      <3>3. r.op \in Busy => r.ip \in Inos /\ r.ip # i
        BY <2>2, <3>1, OtherHolders
      <3>4. ASSUME r.op \in {"writei", "written"} PROVE WriteHeld(t, r)
        <4>1. r.f \in Opens /\ r.ip = s.fip[r.f] /\ r.ip \in Inos /\ r.ip # i
          BY <3>1, <3>3, <3>4 DEF Intact, Locks, Writing, Busy
        <4>2. t.off[r.f] = s.off[r.f] /\ t.size[r.ip] = s.size[r.ip] /\ t.addrs[r.ip] = s.addrs[r.ip]
          BY <4>1 DEF Moves
        <4>3. \A bn \in 0 .. MAXFILE - 1 : At(s.addrs, s.content, r.ip, bn) # 0 =>
                 At(t.addrs, t.content, r.ip, bn) = At(s.addrs, s.content, r.ip, bn)
          BY <4>1 DEF Moves
        <4>4. WriteHeld(s, r)
          BY <3>2, <3>4 DEF ClientHeld
        <4> QED BY <1>0, <3>2, <4>1, <4>2, <4>3, <4>4, WriteStays
      <3>5. ASSUME r.op = "trunc" PROVE TruncHeld(t, r)
        <4>1. r.ip \in Inos /\ r.ip # i
          BY <3>3, <3>5 DEF Busy
        <4>2. t.addrs[r.ip] = s.addrs[r.ip]
          BY <4>1 DEF Moves
        <4> QED BY <3>2, <3>5, <4>2 DEF ClientHeld, TruncHeld
      <3> QED BY <3>2, <3>4, <3>5 DEF ClientHeld
    <2> QED BY <2>1, <2>2
  <1>3. Locks(t)
    BY LocksMove
  <1> QED BY <1>0, <1>1, <1>2, <1>3 DEF Intact

\* A step between operations changes one request.
LEMMA RequestsHold ==
  ASSUME NEW s, Intact(s), NEW t, NEW p \in Clients, NEW r \in Requests,
         t = [s EXCEPT !.req = [s.req EXCEPT ![p] = r]],
         s.req[p].op \notin Busy, r.op \notin Busy, r.logged = {}, r.tot = 0,
         r.op \in Writing => r.f \in Opens /\ r.ip = s.fip[r.f] /\ r.left > 0
  PROVE  Intact(t)
  <1>0. s \in States /\ p # NoHolder
    BY BlocksConstants DEF Intact
  <1>1. /\ t.used = s.used /\ t.addrs = s.addrs /\ t.size = s.size /\ t.content = s.content
        /\ t.holder = s.holder /\ t.off = s.off /\ t.fip = s.fip /\ t.broken = s.broken
        /\ t.req = [s.req EXCEPT ![p] = r] /\ t \in States
    BY <1>0 DEF States
  <1>2. t.req[p] = r /\ \A q \in Clients : q # p => t.req[q] = s.req[q]
    BY <1>0, <1>1 DEF States
  <1>3. \A i \in Inos : s.holder[i] # p /\ (s.holder[i] # NoHolder => s.holder[i] \in Clients)
    BY <1>0 DEF Intact, Locks, States
  <1>4. Locks(t)
    BY <1>0, <1>1, <1>2, <1>3 DEF Intact, Locks
  <1>5. \A i \in Inos : Truncated(t, i) <=> Truncated(s, i)
    BY <1>1, <1>2, <1>3 DEF Truncated
  <1>6. Freed(t) = Freed(s)
    BY <1>1, <1>2, <1>3, <1>5 DEF Freed, Truncated
  <1>7. Mapped(t.used, t.addrs, t.content, Freed(t))
    BY <1>1, <1>6 DEF Intact
  <1>8. \A i \in Inos : ~Truncated(t, i) => FileHeld(t, i)
    BY <1>1, <1>5 DEF Intact, FileHeld
  <1>9. ASSUME NEW q \in Clients PROVE ClientHeld(t, t.req[q])
    <2>1. CASE q = p
      BY <1>2, <2>1 DEF ClientHeld, Busy, Requests
    <2>2. CASE q # p
      <3>1. PICK z : z = s.req[q]
        OBVIOUS
      <3>2. t.req[q] = z /\ ClientHeld(s, z)
        BY <1>2, <2>2, <3>1 DEF Intact
      <3>3. Touched(t, z) = Touched(s, z)
        BY <1>1 DEF Touched, FirstBlock, LastBlock
      <3>4. WriteHeld(s, z) => WriteHeld(t, z)
        BY <1>1, <3>3 DEF WriteHeld
      <3>5. TruncHeld(s, z) => TruncHeld(t, z)
        BY <1>1 DEF TruncHeld
      <3> QED BY <3>2, <3>4, <3>5 DEF ClientHeld
    <2> QED BY <2>1, <2>2
  <1> QED BY <1>1, <1>4, <1>7, <1>8, <1>9 DEF Intact
-----------------------------------------------------------------------------
(* The actions *)

\* A state and the next, by their parts
Step(s, t) ==
    /\ s = [used |-> used, addrs |-> addrs, size |-> size, content |-> content, holder |-> holder,
            off |-> off, fip |-> fip, req |-> req, broken |-> broken]
    /\ t = [used |-> used', addrs |-> addrs', size |-> size', content |-> content',
            holder |-> holder', off |-> off', fip |-> fip', req |-> req', broken |-> broken']

LEMMA StepParts ==
  ASSUME NEW s, NEW t, Step(s, t)
  PROVE  /\ s.used = used /\ s.addrs = addrs /\ s.size = size /\ s.content = content
         /\ s.holder = holder /\ s.off = off /\ s.fip = fip /\ s.req = req /\ s.broken = broken
         /\ t.used = used' /\ t.addrs = addrs' /\ t.size = size' /\ t.content = content'
         /\ t.holder = holder' /\ t.off = off' /\ t.fip = fip' /\ t.req = req' /\ t.broken = broken'
  BY DEF Step

LEMMA StepHolds ==
  ASSUME BInv
  PROVE  \E s, t : Step(s, t) /\ Intact(s) /\ (Intact(t) => BInv')
  BY DEF Step, BInv, Now

LEMMA StatesBy ==
  ASSUME NEW U \in SUBSET DataBlocks, NEW A \in [Inos -> Addrs], NEW S \in [Inos -> 0 .. MAXFILE * BSIZE],
         NEW C \in [DataBlocks -> BlockSet], NEW H \in [Inos -> Clients \cup {NoHolder}],
         NEW O \in [Opens -> 0 .. MAXFILE * BSIZE], NEW P \in [Opens -> Inos],
         NEW R \in [Clients -> Requests],
         NEW t, t = [used |-> U, addrs |-> A, size |-> S, content |-> C, holder |-> H,
                     off |-> O, fip |-> P, req |-> R, broken |-> FALSE]
  PROVE  t \in States
  BY DEF States

LEMMA NextState ==
  ASSUME NEW s, NEW t, Step(s, t), Intact(s), UNCHANGED fip, broken' = FALSE,
         used' \in SUBSET DataBlocks, addrs' \in [Inos -> Addrs], size' \in [Inos -> 0 .. MAXFILE * BSIZE],
         content' \in [DataBlocks -> BlockSet], holder' \in [Inos -> Clients \cup {NoHolder}],
         off' \in [Opens -> 0 .. MAXFILE * BSIZE], req' \in [Clients -> Requests]
  PROVE  t \in States
  <1>1. fip' \in [Opens -> Inos]
    BY StepParts DEF Intact, States
  <1>2. t = [used |-> used', addrs |-> addrs', size |-> size', content |-> content',
             holder |-> holder', off |-> off', fip |-> fip', req |-> req', broken |-> FALSE]
    BY DEF Step
  <1> QED BY <1>1, <1>2, StatesBy

\* The state, by the variables
LEMMA StateParts ==
  ASSUME NEW s, NEW t, Step(s, t), Intact(s)
  PROVE  /\ used \in SUBSET DataBlocks /\ addrs \in [Inos -> Addrs]
         /\ size \in [Inos -> 0 .. MAXFILE * BSIZE] /\ content \in [DataBlocks -> BlockSet]
         /\ holder \in [Inos -> Clients \cup {NoHolder}] /\ off \in [Opens -> 0 .. MAXFILE * BSIZE]
         /\ fip \in [Opens -> Inos] /\ req \in [Clients -> Requests] /\ broken = FALSE
  BY StepParts DEF Intact, States

LEMMA NoRequestFacts ==
  /\ NoRequest \in Requests /\ NoRequest.op = "idle" /\ NoRequest.logged = {} /\ NoRequest.tot = 0
  /\ \A i \in Inos : [NoRequest EXCEPT !.op = "trunc", !.ip = i] \in Requests
  /\ \A f \in Opens, i \in Inos : \A n \in Nat :
        /\ [NoRequest EXCEPT !.op = "write", !.f = f, !.ip = i, !.left = n] \in Requests
        /\ [NoRequest EXCEPT !.op = "write", !.f = f, !.ip = i, !.left = n].logged = {}
  <1>1. 0 \in 0 .. MaxChunk
    BY ChunkSize
  <1> QED BY <1>1 DEF NoRequest, Requests, Busy

LEMMA FileWriteHolds ==
  ASSUME BInv, NEW p \in Clients, NEW f \in Opens, NEW n \in Lengths, FileWrite(p, f, n), UNCHANGED fip
  PROVE  BInv'
  <1>1. PICK s, t : Step(s, t) /\ Intact(s) /\ (Intact(t) => BInv')
    BY StepHolds
  <1>2. PICK r : r = [NoRequest EXCEPT !.op = "write", !.f = f, !.ip = fip[f], !.left = n]
    OBVIOUS
  <1>3. fip[f] \in Inos /\ req[p].op = "idle" /\ n \in Nat /\ n > 0
    BY <1>1, StepParts, BlocksConstants DEF Intact, States, FileWrite
  <1>4. r \in Requests /\ r.op = "write" /\ r.logged = {} /\ r.tot = 0 /\ r.f = f /\ r.ip = fip[f] /\ r.left = n
    BY <1>2, <1>3, NoRequestFacts DEF NoRequest
  <1>5. t = [s EXCEPT !.req = [s.req EXCEPT ![p] = r]]
    BY <1>1, <1>2 DEF Step, FileWrite
  <1>6. s.req = req /\ s.fip = fip
    BY <1>1, StepParts
  <1>7. Intact(t)
    BY <1>1, <1>3, <1>4, <1>5, <1>6, RequestsHold DEF Busy
  <1> QED BY <1>1, <1>7

LEMMA ChunkBeginHolds ==
  ASSUME BInv, NEW p \in Clients, ChunkBegin(p), UNCHANGED fip
  PROVE  BInv'
  <1>1. PICK s, t : Step(s, t) /\ Intact(s) /\ (Intact(t) => BInv')
    BY StepHolds
  <1>2. PICK r, n, i : r = req[p] /\ n = Smaller(r.left, MaxChunk) /\ i = r.ip
    OBVIOUS
  <1>3. s.req = req /\ s.fip = fip /\ s.holder = holder /\ s \in States
    BY <1>1, StepParts DEF Intact
  <1>4. r \in Requests /\ r.op = "write" /\ holder[i] = NoHolder
    BY <1>2, <1>3 DEF States, ChunkBegin
  <1>5. r.f \in Opens /\ i = fip[r.f] /\ r.left > 0 /\ i \in Inos /\ fip \in [Opens -> Inos] /\ r.logged = {} /\ r.tot = 0
    BY <1>1, <1>2, <1>3, <1>4 DEF Intact, Locks, Writing, States, ClientHeld
  <1>6. n \in 0 .. MaxChunk /\ n > 0 /\ n <= r.left /\ r.left \in Nat
    BY <1>2, <1>4, <1>5, ChunkSize DEF Smaller, Requests
  <1>7. CASE off[r.f] > size[i] \/ off[r.f] + n > MAXFILE * BSIZE
    <2>1. t = [s EXCEPT !.req = [s.req EXCEPT ![p] = NoRequest]]
      BY <1>1, <1>2, <1>7 DEF Step, ChunkBegin
    <2>2. s.req[p].op \notin Busy /\ NoRequest.op \notin Busy /\ NoRequest.op \notin Writing
      BY <1>2, <1>3, <1>4, NoRequestFacts DEF Busy, Writing
    <2>3. Intact(t)
      BY <1>1, <2>1, <2>2, NoRequestFacts, RequestsHold
    <2> QED BY <1>1, <2>3
  <1>8. CASE ~(off[r.f] > size[i] \/ off[r.f] + n > MAXFILE * BSIZE)
    <2>1. PICK w : w = [r EXCEPT !.op = "writei", !.n = n]
      OBVIOUS
    <2>2. /\ w \in Requests /\ w.op = "writei" /\ w.n = n /\ w.f = r.f /\ w.ip = i /\ w.left = r.left
          /\ w.tot = 0 /\ w.logged = {}
      BY <1>2, <1>4, <1>5, <1>6, <2>1 DEF Requests, Busy
    <2>3. PICK R, H : R = [req EXCEPT ![p] = w] /\ H = [holder EXCEPT ![i] = p]
      OBVIOUS
    <2>3a. /\ req' = R /\ holder' = H
           /\ UNCHANGED <<used, addrs, size, content, off, broken, fip>>
      BY <1>2, <1>8, <2>1, <2>3 DEF ChunkBegin
    <2>5. /\ R \in [Clients -> Requests] /\ R[p] = w /\ \A q \in Clients : q # p => R[q] = req[q]
          /\ H \in [Inos -> Clients \cup {NoHolder}] /\ H[i] = p
          /\ \A j \in Inos : j # i => H[j] = holder[j]
      BY <1>3, <1>5, <2>2, <2>3 DEF States
    <2>6. /\ t \in States /\ t.req = R /\ t.holder = H /\ t.used = s.used /\ t.addrs = s.addrs
          /\ t.size = s.size /\ t.content = s.content /\ t.off = s.off /\ t.fip = s.fip
      <3>1. t \in States
        BY <1>1, <2>3a, <2>5, StateParts, NextState
      <3> QED BY <1>1, <2>3a, <3>1, StepParts
    <2>7. Moves(s, t, p, i)
      BY <1>2, <1>3, <1>4, <1>5, <2>2, <2>5, <2>6 DEF Moves, Busy
    <2>8. Freed(s) \in [Inos -> Nat] /\ Freed(s)[i] = 0 /\ Freed(t) = [Freed(s) EXCEPT ![i] = 0]
      <3>1. s.req[p].op # "trunc" /\ t.req[p].op # "trunc"
        BY <1>2, <1>3, <1>4, <2>2, <2>5, <2>6
      <3> QED BY <1>1, <2>7, <3>1, TruncatedMoves
    <2>9. Freed(t) = Freed(s)
      BY <2>8, <1>5
    <2>10. Mapped(t.used, t.addrs, t.content, Freed(t))
      BY <1>1, <2>6, <2>9 DEF Intact
    <2>11. FileHeld(t, i)
      <3>1. ~Truncated(s, i)
        BY <1>3, <1>4 DEF Truncated
      <3>2. FileHeld(s, i)
        BY <1>1, <1>5, <3>1 DEF Intact
      <3> QED BY <2>6, <3>2 DEF FileHeld
    <2>12. ClientHeld(t, w)
      <3>1. s.off = off /\ s.size = size
        BY <1>1, StepParts
      <3>2. off[r.f] \in Nat /\ size[i] \in Nat
        BY <1>3, <1>5, <3>1, BlocksConstants DEF States
      <3>3. off[r.f] .. off[r.f] + w.tot - 1 = {}
        BY <2>2, <3>2
      <3>4. off[r.f] <= size[i] /\ off[r.f] + n <= MAXFILE * BSIZE
        BY <1>6, <1>8, <3>2, BlocksConstants, ChunkSize
      <3>5. WriteHeld(t, w)
        BY <1>6, <2>2, <2>6, <3>1, <3>3, <3>4 DEF WriteHeld
      <3> QED BY <2>2, <3>5 DEF ClientHeld
    <2>13. Intact(t)
      BY <1>1, <2>5, <2>6, <2>7, <2>10, <2>11, <2>12, MovesHold
    <2> QED BY <1>1, <2>13
  <1> QED BY <1>7, <1>8
LEMMA FileReadHolds ==
  ASSUME BInv, NEW p \in Clients, NEW f \in Opens, NEW n \in Lengths, FileRead(p, f, n), UNCHANGED fip
  PROVE  BInv'
  <1>1. PICK s, t : Step(s, t) /\ Intact(s) /\ (Intact(t) => BInv')
    BY StepHolds
  <1>2. PICK i, end : i = fip[f] /\ end = Smaller(off[f] + n, size[i])
    OBVIOUS
  <1>3. /\ req[p].op = "idle" /\ holder[i] = NoHolder /\ off[f] < size[i] /\ off' = [off EXCEPT ![f] = end]
        /\ broken' = (broken \/ \E x \in off[f] .. end - 1 : BlockAt(i, x \div BSIZE) = 0)
        /\ UNCHANGED <<used, addrs, size, content, holder, req>>
    BY <1>2 DEF FileRead
  <1>4. i \in Inos /\ off[f] \in Nat /\ size[i] \in Nat /\ size[i] <= MAXFILE * BSIZE /\ n \in Nat
        /\ size[i] \in 0 .. MAXFILE * BSIZE
    <2>1. i \in Inos
      BY <1>1, <1>2, StateParts
    <2>2. off[f] \in 0 .. MAXFILE * BSIZE /\ size[i] \in 0 .. MAXFILE * BSIZE
      BY <1>1, <2>1, StateParts
    <2> QED BY <2>1, <2>2, BlocksConstants, FileSize
  <1>5. end \in 0 .. MAXFILE * BSIZE /\ end <= size[i]
    BY <1>2, <1>4, BlocksConstants DEF Smaller
  <1>6. FileHeld(s, i)
    BY <1>1, <1>3, <1>4, StepParts DEF Intact, Truncated
  <1>7. broken' = FALSE
    <2> SUFFICES ASSUME NEW x \in off[f] .. end - 1 PROVE BlockAt(i, x \div BSIZE) # 0
      BY <1>1, <1>3, StateParts
    <2>1. x \in 0 .. size[i] - 1
      BY <1>4, <1>5
    <2>2. At(addrs, content, i, x \div BSIZE) # 0
      BY <1>1, <1>6, <2>1, StepParts DEF FileHeld
    <2> QED BY <2>2 DEF At, BlockAt
  <1>8. off' \in [Opens -> 0 .. MAXFILE * BSIZE] /\ \A g \in Opens : g # f => off'[g] = off[g]
    BY <1>1, <1>3, <1>5, StateParts
  <1>9. t \in States
    BY <1>1, <1>3, <1>7, <1>8, StateParts, NextState
  <1>10. /\ t.used = s.used /\ t.addrs = s.addrs /\ t.size = s.size /\ t.content = s.content
         /\ t.holder = s.holder /\ t.fip = s.fip /\ t.req = s.req
         /\ s.req = req /\ s.holder = holder /\ s.off = off /\ t.off = off' /\ s.fip = fip
    <2>1. UNCHANGED <<used, addrs, size, content, holder, req, fip>>
      BY <1>3
    <2> QED BY <1>1, <2>1, StepParts
  <1>11. Moves(s, t, p, i)
    BY <1>2, <1>3, <1>4, <1>8, <1>9, <1>10 DEF Moves, Busy, Writing
  <1>12. Freed(s) = Freed(t)
    BY <1>10 DEF Freed, Truncated
  <1>13. Mapped(t.used, t.addrs, t.content, Freed(t))
    BY <1>1, <1>10, <1>12 DEF Intact
  <1>14. FileHeld(t, i)
    BY <1>6, <1>10 DEF FileHeld
  <1>15. ClientHeld(t, t.req[p])
    BY <1>1, <1>3, <1>10 DEF Intact, ClientHeld
  <1>16. Intact(t)
    BY <1>1, <1>11, <1>13, <1>14, <1>15, MovesHold
  <1> QED BY <1>1, <1>16

LEMMA TruncBeginHolds ==
  ASSUME BInv, NEW p \in Clients, NEW i \in Inos, TruncBegin(p, i), UNCHANGED fip
  PROVE  BInv'
  <1>1. PICK s, t : Step(s, t) /\ Intact(s) /\ (Intact(t) => BInv')
    BY StepHolds
  <1>2. PICK r : r = [NoRequest EXCEPT !.op = "trunc", !.ip = i]
    OBVIOUS
  <1>3. /\ req[p].op = "idle" /\ holder[i] = NoHolder /\ holder' = [holder EXCEPT ![i] = p]
        /\ req' = [req EXCEPT ![p] = r] /\ UNCHANGED <<used, addrs, size, content, off, broken>>
    BY <1>2 DEF TruncBegin
  <1>4. r \in Requests /\ r.op = "trunc" /\ r.ip = i /\ r.tot = 0 /\ r.logged = {}
    BY <1>2, NoRequestFacts DEF NoRequest
  <1>5. /\ req' \in [Clients -> Requests] /\ req'[p] = r /\ \A q \in Clients : q # p => req'[q] = req[q]
        /\ holder' \in [Inos -> Clients \cup {NoHolder}] /\ holder'[i] = p
        /\ \A j \in Inos : j # i => holder'[j] = holder[j]
    BY <1>1, <1>3, <1>4, StateParts
  <1>9. t \in States
    BY <1>1, <1>3, <1>5, StateParts, NextState
  <1>10. /\ t.used = s.used /\ t.addrs = s.addrs /\ t.size = s.size /\ t.content = s.content
         /\ t.off = s.off /\ t.fip = s.fip
         /\ s.req = req /\ s.holder = holder /\ t.req = req' /\ t.holder = holder'
    <2>1. UNCHANGED <<used, addrs, size, content, off, fip>>
      BY <1>3
    <2> QED BY <1>1, <2>1, StepParts
  <1>11. Moves(s, t, p, i)
    BY <1>3, <1>4, <1>5, <1>9, <1>10 DEF Moves, Busy, Writing
  <1>12. Freed(s) = Freed(t)
    <2>1. Freed(s) \in [Inos -> Nat] /\ Freed(s)[i] = 0 /\ Freed(t) = [Freed(s) EXCEPT ![i] = 0]
      <3>1. s.req[p].op # "trunc" /\ t.req[p].op = "trunc" /\ t.req[p].tot = 0
        BY <1>3, <1>4, <1>5, <1>10
      <3> QED BY <1>1, <1>11, <3>1, TruncatedMoves
    <2> QED BY <2>1
  <1>13. Mapped(t.used, t.addrs, t.content, Freed(t))
    BY <1>1, <1>10, <1>12 DEF Intact
  <1>15. ClientHeld(t, t.req[p])
    BY <1>4, <1>5, <1>10, BlocksConstants DEF ClientHeld, TruncHeld
  <1>16. Intact(t)
    BY <1>1, <1>4, <1>5, <1>10, <1>11, <1>13, <1>15, MovesHold
  <1> QED BY <1>1, <1>16

\* What itrunc() knows while it runs
LEMMA InTrunc ==
  ASSUME NEW s, Intact(s), NEW p \in Clients, s.req[p].op = "trunc", NEW i, i = s.req[p].ip
  PROVE  /\ i \in Inos /\ s.holder[i] = p /\ TruncHeld(s, s.req[p]) /\ s.req[p] \in Requests
         /\ Freed(s)[i] = s.req[p].tot
  <1>1. i \in Inos /\ s.holder[i] = p /\ s \in States
    BY DEF Intact, Locks, Busy
  <1>2. TruncHeld(s, s.req[p]) /\ s.req[p] \in Requests
    BY <1>1 DEF Intact, ClientHeld, States
  <1>3. p # NoHolder
    BY BlocksConstants
  <1>4. Freed(s)[i] = s.req[p].tot
    BY <1>1, <1>3 DEF Freed, Truncated
  <1> QED BY <1>1, <1>2, <1>4

LEMMA TruncEndHolds ==
  ASSUME BInv, NEW p \in Clients, TruncEnd(p), UNCHANGED fip
  PROVE  BInv'
  <1>1. PICK s, t : Step(s, t) /\ Intact(s) /\ (Intact(t) => BInv')
    BY StepHolds
  <1>2. PICK i : i = req[p].ip
    OBVIOUS
  <1>3. /\ req[p].op = "trunc" /\ \A k \in 0 .. NDIRECT : addrs[i][k] = 0
        /\ size' = [size EXCEPT ![i] = 0] /\ holder' = [holder EXCEPT ![i] = NoHolder]
        /\ req' = [req EXCEPT ![p] = NoRequest] /\ UNCHANGED <<used, addrs, content, off, broken>>
    BY <1>2 DEF TruncEnd
  <1>10. /\ t.used = s.used /\ t.addrs = s.addrs /\ t.content = s.content
         /\ t.off = s.off /\ t.fip = s.fip
         /\ s.addrs = addrs /\ s.req = req /\ s.holder = holder /\ t.req = req' /\ t.holder = holder'
         /\ s.size = size /\ t.size = size'
    <2>1. UNCHANGED <<used, addrs, content, off, fip>>
      BY <1>3
    <2> QED BY <1>1, <2>1, StepParts
  <1>4. i \in Inos /\ holder[i] = p /\ TruncHeld(s, req[p]) /\ req[p] \in Requests /\ Freed(s)[i] = req[p].tot
    BY <1>1, <1>2, <1>3, <1>10, InTrunc
  <1>4a. req[p].tot = 0
    BY <1>2, <1>3, <1>4, <1>10, BlocksConstants DEF TruncHeld, Requests
  <1>5. /\ req' \in [Clients -> Requests] /\ req'[p] = NoRequest /\ \A q \in Clients : q # p => req'[q] = req[q]
        /\ holder' \in [Inos -> Clients \cup {NoHolder}] /\ holder'[i] = NoHolder
        /\ \A j \in Inos : j # i => holder'[j] = holder[j]
    BY <1>1, <1>3, <1>4, StateParts, NoRequestFacts
  <1>6. /\ size' \in [Inos -> 0 .. MAXFILE * BSIZE] /\ size'[i] = 0
        /\ \A j \in Inos : j # i => size'[j] = size[j]
    BY <1>1, <1>3, <1>4, StateParts, FileSize
  <1>9. t \in States
    BY <1>1, <1>3, <1>5, <1>6, StateParts, NextState
  <1>11. Moves(s, t, p, i)
    <2>1. t.req[p].op = "idle"
      BY <1>5, <1>10, NoRequestFacts
    <2> QED BY <1>2, <1>3, <1>4, <1>5, <1>6, <1>9, <1>10, <2>1 DEF Moves, Busy, Writing
  <1>12. Freed(s) = Freed(t)
    <2>1. Freed(s) \in [Inos -> Nat] /\ Freed(t) = [Freed(s) EXCEPT ![i] = 0]
      <3>1. t.req[p].op # "trunc"
        BY <1>5, <1>10, NoRequestFacts
      <3> QED BY <1>1, <1>11, <3>1, TruncatedMoves
    <2> QED BY <2>1, <1>4, <1>4a
  <1>13. Mapped(t.used, t.addrs, t.content, Freed(t))
    BY <1>1, <1>10, <1>12 DEF Intact
  <1>14. FileHeld(t, i)
    BY <1>6, <1>10 DEF FileHeld
  <1>15. ClientHeld(t, t.req[p])
    BY <1>5, <1>10, NoRequestFacts DEF ClientHeld
  <1>16. Intact(t)
    BY <1>1, <1>11, <1>13, <1>14, <1>15, MovesHold
  <1> QED BY <1>1, <1>16
\* What bfree() does to the request
LEMMA BfreeFacts ==
  ASSUME NEW s, NEW t, Step(s, t), Intact(s), NEW p \in Clients, req[p].op = "trunc",
         NEW b \in used, NEW tot \in Nat, Bfree(p, b, tot), UNCHANGED fip
  PROVE  /\ used' = used \ {b} /\ broken' = FALSE /\ UNCHANGED <<size, content, holder, off>>
         /\ req' \in [Clients -> Requests] /\ \A q \in Clients : q # p => req'[q] = req[q]
         /\ req'[p].op = "trunc" /\ req'[p].ip = req[p].ip /\ req'[p].tot = tot
         /\ req'[p].logged \subseteq {Bitmap}
  <1>1. req \in [Clients -> Requests] /\ broken = FALSE
    BY StateParts
  <1>2. req[p].logged \subseteq {Bitmap}
    BY StepParts DEF Intact, ClientHeld, TruncHeld
  <1>3. /\ used' = used \ {b} /\ broken' = (broken \/ b \notin used)
        /\ req' = [req EXCEPT ![p].tot = tot, ![p].logged = @ \cup {Bitmap}]
        /\ UNCHANGED <<size, content, holder, off>>
    BY DEF Bfree
  <1>4. PICK r : r = [req[p] EXCEPT !.tot = tot, !.logged = req[p].logged \cup {Bitmap}]
    OBVIOUS
  <1>5. req[p] \in Requests /\ Bitmap \in 0 .. NDATA
    BY <1>1, BlocksConstants DEF Bitmap
  <1>6. r \in Requests /\ r.op = "trunc" /\ r.ip = req[p].ip /\ r.tot = tot /\ r.logged \subseteq {Bitmap}
    BY <1>2, <1>4, <1>5 DEF Requests
  <1>7. req' = [req EXCEPT ![p] = r]
    BY <1>1, <1>3, <1>4 DEF Requests
  <1> QED BY <1>1, <1>3, <1>6, <1>7

\* A step of itrunc() that keeps the map and the order
LEMMA TruncStep ==
  ASSUME BInv, NEW s, NEW t, Step(s, t), Intact(s), NEW p \in Clients, NEW i \in Inos, i = req[p].ip,
         req[p].op = "trunc", NEW b \in used, NEW tot \in 0 .. NINDIRECT, Bfree(p, b, tot), UNCHANGED fip,
         addrs' \in [Inos -> Addrs], \A j \in Inos : j # i => addrs'[j] = addrs[j],
         tot > 0 => addrs'[i][NDIRECT] # 0 /\ \A k \in 0 .. NDIRECT - 1 : addrs'[i][k] = 0,
         NEW F2, F2 = [Freed(s) EXCEPT ![i] = tot],
         NEW A2, Mapped(used \ {b}, A2, content, F2), A2 = addrs'
  PROVE  Intact(t)
  <1>1. tot \in Nat /\ tot <= NINDIRECT
    BY BlocksConstants
  <1>2. /\ used' = used \ {b} /\ broken' = FALSE /\ UNCHANGED <<size, content, holder, off>>
        /\ req' \in [Clients -> Requests] /\ \A q \in Clients : q # p => req'[q] = req[q]
        /\ req'[p].op = "trunc" /\ req'[p].ip = i /\ req'[p].tot = tot
        /\ req'[p].logged \subseteq {Bitmap}
    BY <1>1, BfreeFacts
  <1>3. t \in States
    BY <1>2, StateParts, NextState
  <1>4. /\ t.used = used \ {b} /\ t.content = content /\ t.addrs = addrs' /\ t.req = req'
        /\ t.size = s.size /\ t.holder = s.holder /\ t.off = s.off /\ t.fip = s.fip
        /\ s.addrs = addrs /\ s.req = req /\ s.content = content
    BY <1>2, StepParts
  <1>5. s.holder[i] = p
    BY <1>4, InTrunc
  <1>6. \A j \in Inos : \A bn \in 0 .. MAXFILE - 1 : j # i /\ At(s.addrs, s.content, j, bn) # 0 =>
          At(t.addrs, t.content, j, bn) = At(s.addrs, s.content, j, bn)
    BY <1>4 DEF At
  <1>7. Moves(s, t, p, i)
    BY <1>2, <1>3, <1>4, <1>5, <1>6 DEF Moves, Busy, Writing
  <1>8. Freed(t) = [Freed(s) EXCEPT ![i] = tot]
    <2>1. t.req[p].op = "trunc" /\ t.req[p].tot = tot
      BY <1>2, <1>4
    <2> QED BY <1>7, <2>1, TruncatedMoves
  <1>9. Mapped(t.used, t.addrs, t.content, Freed(t))
    BY <1>4, <1>8
  <1>10. ClientHeld(t, t.req[p])
    BY <1>1, <1>2, <1>4 DEF ClientHeld, TruncHeld
  <1> QED BY <1>2, <1>4, <1>7, <1>9, <1>10, MovesHold

LEMMA TruncDirectHolds ==
  ASSUME BInv, NEW p \in Clients, NEW k \in 0 .. NDIRECT - 1, TruncDirect(p, k), UNCHANGED fip
  PROVE  BInv'
  <1>1. PICK s, t : Step(s, t) /\ Intact(s) /\ (Intact(t) => BInv')
    BY StepHolds
  <1>2. PICK i, b : i = req[p].ip /\ b = addrs[i][k]
    OBVIOUS
  <1>3. req[p].op = "trunc" /\ b # 0 /\ Bfree(p, b, 0) /\ addrs' = [addrs EXCEPT ![i][k] = 0]
    BY <1>2 DEF TruncDirect
  <1>4. s.req = req /\ s.addrs = addrs /\ s.used = used /\ s.content = content /\ addrs \in [Inos -> Addrs]
    BY <1>1, StepParts, StateParts
  <1>5. i \in Inos /\ TruncHeld(s, req[p]) /\ req[p] \in Requests /\ Freed(s)[i] = req[p].tot
    BY <1>1, <1>2, <1>3, <1>4, InTrunc
  <1>6. req[p].tot = 0
    BY <1>2, <1>3, <1>4, <1>5 DEF TruncHeld, Requests
  <1>7. PICK F, A2 : F = Freed(s) /\ A2 = addrs'
    OBVIOUS
  <1>8. Mapped(used, addrs, content, F)
    BY <1>1, <1>4, <1>7 DEF Intact
  <1>9. b \in used /\ Mapped(used \ {b}, A2, content, F)
    BY <1>2, <1>3, <1>5, <1>7, <1>8, DirectFreed
  <1>10. F = [Freed(s) EXCEPT ![i] = 0] /\ \A j \in Inos : j # i => addrs'[j] = addrs[j]
    <2>1. F \in [Inos -> Nat] /\ F[i] = 0
      BY <1>5, <1>6, <1>7, <1>8 DEF Mapped
    <2> QED BY <2>1, <1>3, <1>4, <1>7
  <1>11. A2 \in [Inos -> Addrs]
    BY <1>9 DEF Mapped
  <1>12. PICK tot : tot = 0
    OBVIOUS
  <1>13. tot \in 0 .. NINDIRECT /\ ~(tot > 0)
    BY <1>12, BlocksConstants
  <1>13a. Bfree(p, b, tot) /\ F = [Freed(s) EXCEPT ![i] = tot]
    BY <1>3, <1>10, <1>12
  <1>13c. A2 = addrs' /\ i \in Inos /\ i = req[p].ip /\ req[p].op = "trunc" /\ b \in used
          /\ Mapped(used \ {b}, A2, content, F)
    BY <1>2, <1>3, <1>5, <1>7, <1>9
  <1>13b. addrs' \in [Inos -> Addrs] /\ (\A j \in Inos : j # i => addrs'[j] = addrs[j])
          /\ (tot > 0 => addrs'[i][NDIRECT] # 0 /\ \A h \in 0 .. NDIRECT - 1 : addrs'[i][h] = 0)
    BY <1>7, <1>10, <1>11, <1>13
  <1>14. Intact(t)
    BY <1>1, <1>13, <1>13a, <1>13b, <1>13c, TruncStep
  <1> QED BY <1>1, <1>14

LEMMA TruncIndirectHolds ==
  ASSUME BInv, NEW p \in Clients, TruncIndirect(p), UNCHANGED fip
  PROVE  BInv'
  <1>1. PICK s, t : Step(s, t) /\ Intact(s) /\ (Intact(t) => BInv')
    BY StepHolds
  <1>0. PICK i : i = req[p].ip
    OBVIOUS
  <1>2. PICK b, left : /\ i = req[p].ip /\ b = addrs[i][NDIRECT]
                       /\ left = {j \in req[p].tot .. NINDIRECT - 1 : content[b].a[j] # 0}
    BY <1>0
  <1>3. /\ req[p].op = "trunc" /\ b # 0 /\ \A h \in 0 .. NDIRECT - 1 : addrs[i][h] = 0
        /\ \/ /\ \E j \in left : (\A h \in left : j <= h) /\ Bfree(p, content[b].a[j], j + 1)
              /\ UNCHANGED addrs
           \/ /\ left = {}
              /\ Bfree(p, b, 0)
              /\ addrs' = [addrs EXCEPT ![i][NDIRECT] = 0]
    BY <1>2 DEF TruncIndirect
  <1>4. s.req = req /\ s.addrs = addrs /\ s.used = used /\ s.content = content /\ addrs \in [Inos -> Addrs]
    BY <1>1, StepParts, StateParts
  <1>5. i \in Inos /\ TruncHeld(s, req[p]) /\ req[p] \in Requests /\ Freed(s)[i] = req[p].tot /\ req[p].tot \in Nat
    <2>1. i \in Inos /\ TruncHeld(s, req[p]) /\ req[p] \in Requests /\ Freed(s)[i] = req[p].tot
      BY <1>1, <1>0, <1>3, <1>4, InTrunc
    <2> QED BY <2>1 DEF Requests
  <1>6. PICK F : F = Freed(s)
    OBVIOUS
  <1>7. Mapped(used, addrs, content, F) /\ F[i] = req[p].tot
    BY <1>1, <1>4, <1>5, <1>6 DEF Intact
  <1>8. CASE /\ \E j \in left : (\A h \in left : j <= h) /\ Bfree(p, content[b].a[j], j + 1)
             /\ UNCHANGED addrs
    <2>1. PICK j \in left : (\A h \in left : j <= h) /\ Bfree(p, content[b].a[j], j + 1)
      BY <1>8
    <2>2. j \in 0 .. NINDIRECT - 1 /\ F[i] <= j /\ content[b].a[j] # 0
      <3>1. j \in req[p].tot .. NINDIRECT - 1 /\ content[b].a[j] # 0
        BY <1>2, <2>1
      <3> QED BY <1>5, <1>7, <3>1, BlocksConstants
    <2>3. \A x \in 0 .. NINDIRECT - 1 : F[i] <= x /\ x < j => content[b].a[x] = 0
      <3> SUFFICES ASSUME NEW x \in 0 .. NINDIRECT - 1, F[i] <= x, x < j, content[b].a[x] # 0 PROVE FALSE
        OBVIOUS
      <3>0. x \in req[p].tot .. NINDIRECT - 1
        BY <1>5, <1>7, BlocksConstants
      <3>1. x \in left
        BY <1>2, <3>0
      <3> QED BY <2>1, <2>2, <3>1, BlocksConstants
    <2>4. PICK n, F2 : n = content[b].a[j] /\ F2 = [F EXCEPT ![i] = j + 1]
      OBVIOUS
    <2>5. n \in used /\ Mapped(used \ {n}, addrs, content, F2)
      <3>1. addrs[i][NDIRECT] # 0
        BY <1>2, <1>3
      <3>2. GivenBack(used, addrs, content, F, i, j, n, addrs, F2)
        BY <1>2, <1>5, <1>7, <2>2, <2>3, <2>4, <3>1, EntryFreed
      <3> QED BY <3>2 DEF GivenBack
    <2>6. j + 1 \in 0 .. NINDIRECT
      BY <2>2, BlocksConstants
    <2>7. PICK tot : tot = j + 1
      OBVIOUS
    <2>8. /\ Bfree(p, n, tot) /\ tot \in 0 .. NINDIRECT /\ addrs' = addrs
          /\ Mapped(used \ {n}, addrs, content, F2) /\ F2 = [Freed(s) EXCEPT ![i] = tot]
      BY <1>6, <1>8, <2>1, <2>4, <2>5, <2>6, <2>7
    <2>9. addrs' \in [Inos -> Addrs] /\ (\A e \in Inos : e # i => addrs'[e] = addrs[e])
          /\ (tot > 0 => addrs'[i][NDIRECT] # 0 /\ \A h \in 0 .. NDIRECT - 1 : addrs'[i][h] = 0)
      BY <1>2, <1>3, <1>4, <2>8
    <2>10. Intact(t)
      BY <1>1, <1>2, <1>3, <1>5, <2>5, <2>8, <2>9, TruncStep
    <2> QED BY <1>1, <2>10
  <1>9. CASE left = {} /\ Bfree(p, b, 0) /\ addrs' = [addrs EXCEPT ![i][NDIRECT] = 0]
    <2>1. \A x \in 0 .. NINDIRECT - 1 : F[i] <= x => content[b].a[x] = 0
      <3> SUFFICES ASSUME NEW x \in 0 .. NINDIRECT - 1, F[i] <= x, content[b].a[x] # 0 PROVE FALSE
        OBVIOUS
      <3>0. x \in req[p].tot .. NINDIRECT - 1
        BY <1>5, <1>7, BlocksConstants
      <3>1. x \in left
        BY <1>2, <3>0
      <3> QED BY <1>9, <3>1
    <2>2. PICK A2, F2 : A2 = addrs' /\ F2 = [F EXCEPT ![i] = 0]
      OBVIOUS
    <2>3. b \in used /\ Mapped(used \ {b}, A2, content, F2)
      <3>1. addrs[i][NDIRECT] # 0
        BY <1>2, <1>3
      <3>2. GivenBack(used, addrs, content, F, i, 0, b, A2, F2)
        BY <1>2, <1>5, <1>7, <1>9, <2>1, <2>2, <3>1, IndirectFreed
      <3> QED BY <3>2 DEF GivenBack
    <2>4. addrs' \in [Inos -> Addrs] /\ \A j \in Inos : j # i => addrs'[j] = addrs[j]
      BY <1>4, <1>9, <2>2, <2>3 DEF Mapped
    <2>5. PICK tot : tot = 0
      OBVIOUS
    <2>5b. tot > 0 => addrs'[i][NDIRECT] # 0 /\ \A h \in 0 .. NDIRECT - 1 : addrs'[i][h] = 0
      BY <2>5
    <2>5c. A2 = addrs' /\ i \in Inos /\ i = req[p].ip /\ req[p].op = "trunc" /\ b \in used
           /\ Mapped(used \ {b}, A2, content, F2)
      BY <1>2, <1>3, <1>5, <2>2, <2>3
    <2>5a. tot \in 0 .. NINDIRECT /\ ~(tot > 0) /\ Bfree(p, b, tot) /\ F2 = [Freed(s) EXCEPT ![i] = tot]
      BY <1>6, <1>9, <2>2, <2>5, BlocksConstants
    <2>6. Intact(t)
      BY <1>1, <2>4, <2>5a, <2>5b, <2>5c, TruncStep
    <2> QED BY <1>1, <2>6
  <1> QED BY <1>3, <1>8, <1>9
\* What filewrite() knows while writei() runs
LEMMA InWrite ==
  ASSUME NEW s, Intact(s), NEW p \in Clients, NEW r, r = s.req[p], r.op \in {"writei", "written"},
         NEW i, i = r.ip
  PROVE  /\ i \in Inos /\ s.holder[i] = p /\ r \in Requests /\ WriteHeld(s, r) /\ FileHeld(s, i)
         /\ r.f \in Opens /\ i = s.fip[r.f] /\ s.off[r.f] \in Nat /\ s.size[i] \in 0 .. MAXFILE * BSIZE
         /\ r.n \in Nat /\ r.tot \in Nat /\ r.left \in Nat /\ Freed(s)[i] = 0
         /\ \A f \in Opens : s.fip[f] # i => f # r.f
  <1>1. i \in Inos /\ s.holder[i] = p /\ s \in States
    BY DEF Intact, Locks, Busy
  <1>2. WriteHeld(s, r) /\ r \in Requests
    BY <1>1 DEF Intact, ClientHeld, States
  <1>3. p # NoHolder
    BY BlocksConstants
  <1>4. Freed(s)[i] = 0 /\ ~Truncated(s, i)
    BY <1>1, <1>3 DEF Freed, Truncated
  <1>5. r.f \in Opens /\ i = s.fip[r.f]
    BY DEF Intact, Locks, Writing
  <1>6. s.off[r.f] \in 0 .. MAXFILE * BSIZE /\ s.size[i] \in 0 .. MAXFILE * BSIZE
    BY <1>1, <1>5 DEF States
  <1>7. s.off[r.f] \in Nat
    BY <1>6, FileSize
  <1>8. r.n \in Nat /\ r.tot \in Nat /\ r.left \in Nat
    BY <1>2, ChunkSize DEF Requests
  <1>9. FileHeld(s, i)
    BY <1>1, <1>4 DEF Intact
  <1> QED BY <1>1, <1>2, <1>4, <1>5, <1>6, <1>7, <1>8, <1>9

LEMMA WriteEndHolds ==
  ASSUME BInv, NEW p \in Clients, WriteEnd(p), UNCHANGED fip
  PROVE  BInv'
  <1>1. PICK s, t : Step(s, t) /\ Intact(s) /\ (Intact(t) => BInv')
    BY StepHolds
  <1>2. PICK r, i, f, o : r = req[p] /\ i = r.ip /\ f = r.f /\ o = off[r.f]
    OBVIOUS
  <1>3. PICK w, z : /\ w = IF r.tot = r.n /\ r.left > r.n
                           THEN [NoRequest EXCEPT !.op = "write", !.f = f, !.ip = i, !.left = r.left - r.n]
                           ELSE NoRequest
                    /\ z = Larger(size[i], o + r.tot)
    OBVIOUS
  <1>4. /\ r.op = "written" \/ (r.op = "writei" /\ r.tot = r.n)
        /\ size' = [size EXCEPT ![i] = z] /\ off' = [off EXCEPT ![f] = o + r.tot]
        /\ holder' = [holder EXCEPT ![i] = NoHolder] /\ req' = [req EXCEPT ![p] = w]
        /\ UNCHANGED <<used, addrs, content, broken>>
    <2>1. /\ r.op = "written" \/ (r.op = "writei" /\ r.tot = r.n)
          /\ size' = [size EXCEPT ![i] = z]
          /\ holder' = [holder EXCEPT ![i] = NoHolder] /\ req' = [req EXCEPT ![p] = w]
          /\ UNCHANGED <<used, addrs, content, broken>>
      BY <1>2, <1>3 DEF WriteEnd, Grown
    <2>2. off' = [off EXCEPT ![f] = off[f] + r.tot]
      BY <1>2 DEF WriteEnd
    <2> QED BY <1>2, <2>1, <2>2
  <1>5. /\ t.used = s.used /\ t.addrs = s.addrs /\ t.content = s.content /\ t.fip = s.fip
        /\ s.addrs = addrs /\ s.content = content /\ s.off = off /\ t.off = off'
        /\ s.req = req /\ s.holder = holder /\ t.req = req' /\ t.holder = holder'
        /\ s.size = size /\ t.size = size' /\ s.fip = fip
    <2>1. UNCHANGED <<used, addrs, content, fip>>
      BY <1>4
    <2> QED BY <1>1, <2>1, StepParts
  <1>6. /\ i \in Inos /\ holder[i] = p /\ r \in Requests /\ WriteHeld(s, r) /\ FileHeld(s, i)
        /\ f \in Opens /\ i = fip[f] /\ o \in Nat /\ size[i] \in 0 .. MAXFILE * BSIZE
        /\ r.n \in Nat /\ r.tot \in Nat /\ r.left \in Nat /\ Freed(s)[i] = 0
        /\ \A g \in Opens : fip[g] # i => g # f
    <2>1. r.op \in {"writei", "written"} /\ r = s.req[p]
      BY <1>2, <1>4, <1>5
    <2> QED BY <1>1, <1>2, <1>5, <2>1, InWrite
  <1>7. r.n > 0 /\ r.tot <= r.n /\ o <= size[i] /\ o + r.n <= MAXFILE * BSIZE
    BY <1>2, <1>5, <1>6 DEF WriteHeld
  <1>8. o + r.tot \in 0 .. MAXFILE * BSIZE /\ z \in 0 .. MAXFILE * BSIZE /\ (z = size[i] \/ z = o + r.tot)
    BY <1>3, <1>6, <1>7, FileSize DEF Larger
  <1>9. /\ w \in Requests /\ w.op \in {"idle", "write"} /\ w.logged = {} /\ w.tot = 0
        /\ w.op = "write" => w.f = f /\ w.ip = i /\ w.left > 0
    <2>1. CASE r.tot = r.n /\ r.left > r.n
      <3>1. PICK n : n = r.left - r.n
        OBVIOUS
      <3>2. w = [NoRequest EXCEPT !.op = "write", !.f = f, !.ip = i, !.left = n] /\ n \in Nat /\ n > 0
        BY <1>3, <1>6, <2>1, <3>1
      <3>3. w \in Requests /\ w.logged = {}
        BY <1>6, <3>2, NoRequestFacts
      <3> QED BY <3>2, <3>3 DEF NoRequest
    <2>2. CASE ~(r.tot = r.n /\ r.left > r.n)
      BY <1>3, <2>2, NoRequestFacts
    <2> QED BY <2>1, <2>2
  <1>10. /\ req' \in [Clients -> Requests] /\ req'[p] = w /\ \A q \in Clients : q # p => req'[q] = req[q]
         /\ holder' \in [Inos -> Clients \cup {NoHolder}] /\ holder'[i] = NoHolder
         /\ \A j \in Inos : j # i => holder'[j] = holder[j]
    BY <1>1, <1>4, <1>6, <1>9, StateParts
  <1>11. /\ size' \in [Inos -> 0 .. MAXFILE * BSIZE] /\ size'[i] = z
         /\ \A j \in Inos : j # i => size'[j] = size[j]
         /\ off' \in [Opens -> 0 .. MAXFILE * BSIZE] /\ \A g \in Opens : g # f => off'[g] = off[g]
    BY <1>1, <1>4, <1>6, <1>8, StateParts
  <1>12. t \in States
    BY <1>1, <1>4, <1>10, <1>11, StateParts, NextState
  <1>13. Moves(s, t, p, i)
    <2>1. s.req[p].ip = i /\ t.req[p] = w /\ w.op \notin Busy /\ (w.op \in Writing => w.op = "write")
      BY <1>2, <1>5, <1>9, <1>10 DEF Busy, Writing
    <2>2. \A g \in Opens : s.fip[g] # i => t.off[g] = s.off[g]
      BY <1>5, <1>6, <1>11
    <2>3. \A j \in Inos : j # i => t.holder[j] = s.holder[j] /\ t.size[j] = s.size[j] /\ t.addrs[j] = s.addrs[j]
      BY <1>5, <1>10, <1>11
    <2>4. \A q \in Clients : q # p => t.req[q] = s.req[q]
      BY <1>5, <1>10
    <2>5. t.req[p].op \in Writing =>
             t.req[p].f \in Opens /\ t.req[p].ip = t.fip[t.req[p].f] /\ t.req[p].left > 0
      BY <1>5, <1>6, <1>9, <2>1
    <2> QED BY <1>5, <1>6, <1>10, <1>12, <2>1, <2>2, <2>3, <2>4, <2>5 DEF Moves
  <1>14. Freed(s) = Freed(t)
    <2>1. Freed(s) \in [Inos -> Nat] /\ Freed(t) = [Freed(s) EXCEPT ![i] = 0]
      <3>1. t.req[p].op # "trunc"
        BY <1>5, <1>9, <1>10
      <3> QED BY <1>1, <1>13, <3>1, TruncatedMoves
    <2> QED BY <2>1, <1>6
  <1>15. Mapped(t.used, t.addrs, t.content, Freed(t))
    BY <1>1, <1>5, <1>14 DEF Intact
  <1>16. FileHeld(t, i)
    <2> SUFFICES ASSUME NEW x \in 0 .. z - 1 PROVE At(addrs, content, i, x \div BSIZE) # 0
      BY <1>5, <1>11 DEF FileHeld
    <2>1. CASE x < size[i]
      <3>1. x \in 0 .. size[i] - 1
        BY <1>6, <1>8, <2>1, FileSize
      <3> QED BY <1>5, <1>6, <3>1 DEF FileHeld
    <2>2. CASE ~(x < size[i])
      <3>1. x \in o .. o + r.tot - 1
        BY <1>6, <1>7, <1>8, <2>2, FileSize
      <3> QED BY <1>2, <1>5, <1>6, <3>1 DEF WriteHeld
    <2> QED BY <2>1, <2>2
  <1>17. ClientHeld(t, t.req[p])
    BY <1>5, <1>9, <1>10 DEF ClientHeld
  <1>18. Intact(t)
    BY <1>1, <1>13, <1>15, <1>16, <1>17, MovesHold
  <1> QED BY <1>1, <1>18
\* The bytes up to the end of a block are in that block.
LEMMA SameBlock ==
  ASSUME NEW a \in Nat, NEW x \in Nat, a <= x, x < a + (BSIZE - (a % BSIZE))
  PROVE  x \div BSIZE = a \div BSIZE
  <1>0. BSIZE \in Nat /\ BSIZE > 0
    BY BlocksConstants
  <1>1. PICK d, e, g : d = a \div BSIZE /\ e = x \div BSIZE /\ g = a % BSIZE
    OBVIOUS
  <1>2. d \in Nat /\ e \in Nat /\ g \in 0 .. BSIZE - 1 /\ a = BSIZE * d + g
    BY <1>0, <1>1, BlockOf
  <1>3. a + (BSIZE - g) = (d + 1) * BSIZE /\ a >= d * BSIZE
    BY <1>0, <1>2
  <1>4. PICK u, v : u = d * BSIZE /\ v = (d + 1) * BSIZE
    OBVIOUS
  <1>4a. u \in Nat /\ v \in Nat
    BY <1>0, <1>2, <1>4
  <1>5. x >= u /\ x < v
    BY <1>0, <1>1, <1>2, <1>3, <1>4, <1>4a
  <1>6. x >= d * BSIZE => e >= d
    BY <1>1, <1>2, BlockOf
  <1>7. d + 1 \in Nat /\ (x < (d + 1) * BSIZE => e < d + 1)
    BY <1>1, <1>2, BlockOf
  <1>8. e >= d
    BY <1>4, <1>5, <1>6
  <1>9. e < d + 1
    BY <1>4, <1>5, <1>7
  <1> QED BY <1>1, <1>2, <1>8, <1>9

\* AtFacts of a name for the block
IsMarked(U, A, C, F, i, bn, b) == b # 0 => b \in U /\ \A j \in Inos : A[j][NDIRECT] # b

LEMMA AtMarked ==
  ASSUME NEW U, NEW A, NEW C, NEW F, Mapped(U, A, C, F), NEW i \in Inos, F[i] = 0,
         NEW bn \in 0 .. MAXFILE - 1, NEW b, b = At(A, C, i, bn)
  PROVE  IsMarked(U, A, C, F, i, bn, b)
  BY AtFacts DEF IsMarked

\* The block map after a round: A2 and C2 of the inodes and of the blocks
RoundMaps(s, i, bn, m, U, A2, C2) ==
    /\ Mapped(U, A2, C2, Freed(s)) /\ Keeps(s.addrs, s.content, A2, C2)
    /\ m.b # 0 => At(A2, C2, i, bn) = m.b
    /\ \A j \in Inos : j # i => A2[j] = s.addrs[j]
RoundResult(s, i, bn, logged, m0, m, A2, C2) ==
    /\ RoundMaps(s, i, bn, m, m.used, A2, C2) /\ m.b \in 0 .. NDATA
    /\ m.logged \subseteq 0 .. NDATA /\ m.logged \subseteq logged \cup {Bitmap, A2[i][NDIRECT], m.b}

LEMMA RoundMapped ==
  ASSUME NEW s, Intact(s), NEW i \in Inos, Freed(s)[i] = 0, NEW bn \in 0 .. MAXFILE - 1,
         NEW logged \in SUBSET (0 .. NDATA),
         NEW m0, m0 = [used |-> s.used, addrs |-> s.addrs[i], content |-> s.content, logged |-> logged, b |-> 0],
         NEW m, m = Bmap(m0, bn), NEW A2, A2 = [s.addrs EXCEPT ![i] = m.addrs],
         NEW C2, m.b = 0 => C2 = m.content, m.b # 0 => C2 = [m.content EXCEPT ![m.b] = UserData]
  PROVE  RoundResult(s, i, bn, logged, m0, m, A2, C2)
  <1>0. s \in States /\ Mapped(s.used, s.addrs, s.content, Freed(s))
    BY DEF Intact
  <1>1. m0 \in MapStates
    <2>1. s.used \in SUBSET DataBlocks /\ s.addrs[i] \in Addrs /\ s.content \in [DataBlocks -> BlockSet]
      BY <1>0 DEF States
    <2> QED BY <2>1, BlocksConstants DEF MapStates
  <1>2. PICK F : F = Freed(s)
    OBVIOUS
  <1>3. PICK A : A = s.addrs
    OBVIOUS
  <1>4. Mapped(m0.used, A, m0.content, F) /\ m0.addrs = A[i] /\ F[i] = 0 /\ A2 = [A EXCEPT ![i] = m.addrs]
    BY <1>0, <1>2, <1>3
  <1>5. BmapResult(m0, A, F, i, bn, m, A2)
    BY <1>1, <1>4, BmapFacts
  <1>6. /\ m \in MapStates /\ Mapped(m.used, A2, m.content, F)
        /\ m.logged \subseteq logged \cup {Bitmap, A2[i][NDIRECT], m.b}
        /\ m.b # 0 => At(A2, m.content, i, bn) = m.b
        /\ Keeps(A, s.content, A2, m.content)
    BY <1>5 DEF BmapResult
  <1>7. m.b \in 0 .. NDATA /\ m.logged \subseteq 0 .. NDATA
    BY <1>6 DEF MapStates
  <1>8. \A j \in Inos : j # i => A2[j] = A[j]
    BY <1>0, <1>3, <1>4 DEF States
  <1>9. CASE m.b = 0
    BY <1>2, <1>3, <1>6, <1>7, <1>8, <1>9 DEF RoundMaps, RoundResult
  <1>10. CASE m.b # 0
    <2>1. m.b \in DataBlocks /\ \A j \in Inos : A2[j][NDIRECT] # m.b
      <3>1. PICK U, C : U = m.used /\ C = m.content
        OBVIOUS
      <3>2. Mapped(U, A2, C, F) /\ U \subseteq DataBlocks /\ At(A2, C, i, bn) = m.b
        BY <1>6, <1>10, <3>1 DEF Mapped
      <3>3. IsMarked(U, A2, C, F, i, bn, m.b)
        BY <1>4, <3>2, AtMarked
      <3> QED BY <1>10, <3>2, <3>3 DEF IsMarked
    <2>2. Mapped(m.used, A2, C2, F) /\ Keeps(A2, m.content, A2, C2)
      <3>1. PICK U, C, b : U = m.used /\ C = m.content /\ b = m.b
        OBVIOUS
      <3>2. Mapped(U, A2, C, F)
        BY <1>6, <3>1
      <3>2b. b \in DataBlocks /\ \A j \in Inos : A2[j][NDIRECT] # b
        BY <2>1, <3>1
      <3>2a. C2 = [C EXCEPT ![b] = UserData]
        BY <1>10, <3>1
      <3>3. Written(U, A2, C, F, b, C2)
        BY <3>2, <3>2a, <3>2b, DataWritten, ZenonT(30)
      <3> QED BY <3>1, <3>3 DEF Written
    <2>3. Keeps(A, s.content, A2, C2)
      BY <1>6, <2>2 DEF Keeps
    <2>4. At(A2, C2, i, bn) = m.b
      BY <1>6, <1>10, <2>2 DEF Keeps
    <2> QED BY <1>2, <1>3, <1>6, <1>7, <1>8, <2>2, <2>3, <2>4 DEF RoundMaps, RoundResult
  <1> QED BY <1>9, <1>10

LEMMA RequestsExcept ==
  ASSUME NEW r \in Requests, NEW l \in SUBSET (0 .. NDATA), NEW n \in Nat
  PROVE  /\ [r EXCEPT !.op = "written", !.logged = l] \in Requests
         /\ [r EXCEPT !.tot = n, !.logged = l] \in Requests
  <1>1. [r EXCEPT !.op = "written", !.logged = l] \in Requests
    BY DEF Requests, Busy
  <1>2. [r EXCEPT !.tot = n, !.logged = l] \in Requests
    BY DEF Requests
  <1> QED BY <1>1, <1>2

LEMMA WriteRoundHolds ==
  ASSUME BInv, NEW p \in Clients, WriteRound(p), UNCHANGED fip
  PROVE  BInv'
  <1>1. PICK s, t : Step(s, t) /\ Intact(s) /\ (Intact(t) => BInv')
    BY StepHolds
  <1>2. PICK r, i, f, o : r = req[p] /\ i = r.ip /\ f = r.f /\ o = off[r.f]
    OBVIOUS
  <1>2a. PICK pos : pos = o + r.tot
    OBVIOUS
  <1>3. PICK bn, bytes, m0 : /\ bn = pos \div BSIZE
                             /\ bytes = Smaller(r.n - r.tot, BSIZE - (pos % BSIZE))
                             /\ m0 = MapOf(i, r.logged)
    OBVIOUS
  <1>3a. PICK m : m = Bmap(m0, bn)
    OBVIOUS
  <1>4. /\ r.op = "writei" /\ r.tot < r.n /\ used' = m.used /\ addrs' = [addrs EXCEPT ![i] = m.addrs]
        /\ \/ /\ m.b = 0 /\ content' = m.content
              /\ req' = [req EXCEPT ![p].op = "written", ![p].logged = m.logged]
           \/ /\ m.b # 0 /\ content' = [m.content EXCEPT ![m.b] = UserData]
              /\ \/ req' = [req EXCEPT ![p].tot = @ + bytes, ![p].logged = m.logged \cup {m.b}]
                 \/ req' = [req EXCEPT ![p].op = "written", ![p].logged = m.logged \cup {m.b}]
        /\ UNCHANGED <<size, holder, off, broken>>
    BY <1>2, <1>2a, <1>3, <1>3a DEF WriteRound
  <1>5. /\ t.used = used' /\ t.addrs = addrs' /\ t.content = content' /\ t.fip = s.fip
        /\ s.used = used /\ s.addrs = addrs /\ s.content = content /\ s.off = off /\ t.off = s.off
        /\ s.req = req /\ s.holder = holder /\ t.req = req' /\ t.holder = s.holder
        /\ s.size = size /\ t.size = s.size /\ s.fip = fip
    <2>1. UNCHANGED <<size, holder, off, fip>>
      BY <1>4
    <2> QED BY <1>1, <2>1, StepParts
  <1>6. /\ i \in Inos /\ s.holder[i] = p /\ r \in Requests /\ WriteHeld(s, r) /\ FileHeld(s, i)
        /\ f \in Opens /\ i = fip[f] /\ o \in Nat /\ size[i] \in 0 .. MAXFILE * BSIZE
        /\ r.n \in Nat /\ r.tot \in Nat /\ r.left \in Nat /\ Freed(s)[i] = 0 /\ s \in States
    <2>1. r.op \in {"writei", "written"} /\ r = s.req[p] /\ s \in States
      BY <1>1, <1>2, <1>4, <1>5 DEF Intact
    <2> QED BY <1>1, <1>2, <1>5, <2>1, InWrite
  <1>7. r.n > 0 /\ r.tot <= r.n /\ o <= size[i] /\ o + r.n <= MAXFILE * BSIZE
    BY <1>2, <1>5, <1>6 DEF WriteHeld
  <1>8. pos \in Nat /\ pos \in o .. (o + r.n) - 1 /\ pos < MAXFILE * BSIZE
    BY <1>2a, <1>4, <1>6, <1>7, FileSize
  <1>9. bn \in 0 .. MAXFILE - 1
    BY <1>3, <1>8, InFile
  <1>10. /\ RoundMaps(s, i, bn, m, used', addrs', content') /\ m.b \in 0 .. NDATA
         /\ m.logged \subseteq 0 .. NDATA /\ m.logged \subseteq r.logged \cup {Bitmap, addrs'[i][NDIRECT], m.b}
    <2>1. PICK logged, A2, C2 : logged = r.logged /\ A2 = addrs' /\ C2 = content'
      OBVIOUS
    <2>2. logged \in SUBSET (0 .. NDATA)
      BY <1>6, <2>1 DEF Requests
    <2>3. m0 = [used |-> s.used, addrs |-> s.addrs[i], content |-> s.content, logged |-> logged, b |-> 0]
      BY <1>3, <1>5, <2>1 DEF MapOf
    <2>4. A2 = [s.addrs EXCEPT ![i] = m.addrs]
      BY <1>4, <1>5, <2>1
    <2>5. (m.b = 0 => C2 = m.content) /\ (m.b # 0 => C2 = [m.content EXCEPT ![m.b] = UserData])
      BY <1>4, <2>1
    <2>6. RoundResult(s, i, bn, logged, m0, m, A2, C2)
      BY <1>1, <1>3a, <1>6, <1>9, <2>2, <2>3, <2>4, <2>5, RoundMapped
    <2> QED BY <1>4, <2>1, <2>6 DEF RoundResult
  <1>10a. bytes \in Nat /\ bytes <= r.n - r.tot /\ bytes <= BSIZE - (pos % BSIZE)
    <2>1. PICK g : g = pos % BSIZE
      OBVIOUS
    <2>2. g \in 0 .. BSIZE - 1
      BY <1>8, <2>1, BlockOf
    <2>3. BSIZE - g \in Nat /\ BSIZE \in Nat
      BY <2>2, BlocksConstants
    <2>4. bytes = Smaller(r.n - r.tot, BSIZE - g)
      BY <1>3, <2>1
    <2> QED BY <1>4, <1>6, <2>1, <2>3, <2>4 DEF Smaller
  <1>11. PICK w : /\ req' = [req EXCEPT ![p] = w] /\ w \in Requests
                  /\ w.op \in {"writei", "written"} /\ w.f = f /\ w.ip = i /\ w.n = r.n /\ w.left = r.left
                  /\ w.logged \subseteq m.logged \cup {m.b}
                  /\ w.tot = r.tot \/ (m.b # 0 /\ w.tot = r.tot + bytes)
    <2>1. req \in [Clients -> Requests] /\ bytes \in Nat
      BY <1>1, <1>10a, StateParts
    <2>2. m.b \in 0 .. NDATA /\ m.logged \in SUBSET (0 .. NDATA) /\ m.logged \cup {m.b} \in SUBSET (0 .. NDATA)
      BY <1>10
    <2>3. \A l \in SUBSET (0 .. NDATA) : \A n \in Nat :
             /\ [r EXCEPT !.op = "written", !.logged = l] \in Requests
             /\ [r EXCEPT !.tot = n, !.logged = l] \in Requests
      BY <1>6, RequestsExcept
    <2>4. CASE m.b = 0
      <3>1. PICK w : w = [r EXCEPT !.op = "written", !.logged = m.logged]
        OBVIOUS
      <3>2. req' = [req EXCEPT ![p] = w]
        BY <1>2, <1>4, <2>1, <2>4, <3>1
      <3>3. w.op = "written" /\ w.f = f /\ w.ip = i /\ w.n = r.n /\ w.left = r.left
            /\ w.logged = m.logged /\ w.tot = r.tot
        BY <1>2, <1>6, <3>1 DEF Requests
      <3> QED BY <2>2, <2>3, <3>1, <3>2, <3>3
    <2>5. CASE m.b # 0 /\ req' = [req EXCEPT ![p].tot = @ + bytes, ![p].logged = m.logged \cup {m.b}]
      <3>1. PICK w : w = [r EXCEPT !.tot = r.tot + bytes, !.logged = m.logged \cup {m.b}]
        OBVIOUS
      <3>2. req' = [req EXCEPT ![p] = w]
        BY <1>2, <2>1, <2>5, <3>1
      <3>3. w.op = r.op /\ w.f = f /\ w.ip = i /\ w.n = r.n /\ w.left = r.left
            /\ w.logged = m.logged \cup {m.b} /\ w.tot = r.tot + bytes
        BY <1>2, <1>6, <3>1 DEF Requests
      <3>4. w \in Requests
        <4>1. PICK n, l : n = r.tot + bytes /\ l = m.logged \cup {m.b}
          OBVIOUS
        <4>2. n \in Nat /\ l \in SUBSET (0 .. NDATA)
          BY <1>6, <2>1, <2>2, <4>1
        <4>3. w = [r EXCEPT !.tot = n, !.logged = l]
          BY <3>1, <4>1
        <4> QED BY <2>3, <4>2, <4>3
      <3> QED BY <1>4, <2>5, <3>2, <3>3, <3>4
    <2>6. CASE m.b # 0 /\ req' = [req EXCEPT ![p].op = "written", ![p].logged = m.logged \cup {m.b}]
      <3>1. PICK w : w = [r EXCEPT !.op = "written", !.logged = m.logged \cup {m.b}]
        OBVIOUS
      <3>2. req' = [req EXCEPT ![p] = w]
        BY <1>2, <2>1, <2>6, <3>1
      <3>3. w.op = "written" /\ w.f = f /\ w.ip = i /\ w.n = r.n /\ w.left = r.left
            /\ w.logged = m.logged \cup {m.b} /\ w.tot = r.tot
        BY <1>2, <1>6, <3>1 DEF Requests
      <3> QED BY <2>2, <2>3, <3>1, <3>2, <3>3
    <2> QED BY <1>4, <2>4, <2>5, <2>6
  <1>12. /\ req' \in [Clients -> Requests] /\ req'[p] = w /\ \A q \in Clients : q # p => req'[q] = req[q]
    BY <1>1, <1>11, StateParts
  <1>13. /\ Mapped(used', addrs', content', Freed(s)) /\ Keeps(s.addrs, s.content, addrs', content')
         /\ m.b # 0 => At(addrs', content', i, bn) = m.b
         /\ \A j \in Inos : j # i => addrs'[j] = s.addrs[j]
    BY <1>10 DEF RoundMaps
  <1>14. t \in States
    <2>1. used' \in SUBSET DataBlocks /\ addrs' \in [Inos -> Addrs] /\ content' \in [DataBlocks -> BlockSet]
      BY <1>13 DEF Mapped
    <2> QED BY <1>1, <1>4, <1>12, <2>1, StateParts, NextState
  <1>15. /\ \A j \in Inos : \A n \in 0 .. MAXFILE - 1 : At(s.addrs, s.content, j, n) # 0 =>
                At(t.addrs, t.content, j, n) = At(s.addrs, s.content, j, n)
         /\ s.addrs[i][NDIRECT] # 0 => t.addrs[i][NDIRECT] = s.addrs[i][NDIRECT]
    BY <1>5, <1>6, <1>13, BlocksConstants DEF Keeps
  <1>16. Moves(s, t, p, i)
    <2>1. s.req[p].ip = i /\ t.req[p] = w /\ w.op \in Busy /\ w.ip = i
      BY <1>2, <1>5, <1>11, <1>12 DEF Busy
    <2>2. \A f2 \in Opens : s.fip[f2] # i => t.off[f2] = s.off[f2]
      BY <1>5
    <2>3. \A j \in Inos : j # i => t.holder[j] = s.holder[j] /\ t.size[j] = s.size[j] /\ t.addrs[j] = s.addrs[j]
      BY <1>5, <1>13
    <2>4. \A q \in Clients : q # p => t.req[q] = s.req[q]
      BY <1>5, <1>12
    <2>5. t.req[p].f \in Opens /\ t.req[p].ip = t.fip[t.req[p].f] /\ t.req[p].left > 0
      BY <1>1, <1>2, <1>4, <1>5, <1>6, <1>11, <2>1 DEF Intact, Locks, Writing
    <2>6. t.holder[i] = p /\ s.holder[i] \in {NoHolder, p}
      BY <1>5, <1>6
    <2> QED BY <1>5, <1>6, <1>14, <1>15, <2>1, <2>2, <2>3, <2>4, <2>5, <2>6 DEF Moves
  <1>17. Freed(s) = Freed(t)
    <2>1. Freed(s) \in [Inos -> Nat] /\ Freed(t) = [Freed(s) EXCEPT ![i] = 0]
      <3>1. t.req[p].op # "trunc"
        BY <1>5, <1>11, <1>12
      <3> QED BY <1>1, <1>16, <3>1, TruncatedMoves
    <2> QED BY <2>1, <1>6
  <1>18. Mapped(t.used, t.addrs, t.content, Freed(t))
    BY <1>5, <1>13, <1>17
  <1>19. FileHeld(t, i)
    <2> SUFFICES ASSUME NEW x \in 0 .. size[i] - 1 PROVE At(t.addrs, t.content, i, x \div BSIZE) # 0
      BY <1>5 DEF FileHeld
    <2>1. x \in Nat /\ x < MAXFILE * BSIZE
      BY <1>6, FileSize
    <2>2. x \div BSIZE \in 0 .. MAXFILE - 1
      BY <2>1, InFile
    <2>3. At(s.addrs, s.content, i, x \div BSIZE) # 0
      BY <1>5, <1>6 DEF FileHeld
    <2> QED BY <1>6, <1>15, <2>2, <2>3
  <1>20. WriteHeld(t, r) /\ Touched(s, r) \subseteq Touched(t, r)
    <2>1. r.f \in Opens /\ r.ip \in Inos /\ t.off[r.f] = s.off[r.f] /\ t.size[r.ip] = s.size[r.ip]
      BY <1>2, <1>5, <1>6
    <2>2. \A n \in 0 .. MAXFILE - 1 : At(s.addrs, s.content, r.ip, n) # 0 =>
             At(t.addrs, t.content, r.ip, n) = At(s.addrs, s.content, r.ip, n)
      BY <1>2, <1>6, <1>15
    <2>3. s.addrs[r.ip][NDIRECT] # 0 => t.addrs[r.ip][NDIRECT] = s.addrs[r.ip][NDIRECT]
      BY <1>2, <1>15
    <2> QED BY <1>6, <1>14, <2>1, <2>2, <2>3, WriteStays
  <1>21. w.logged \subseteq Touched(t, w)
    <2>1. Touched(t, w) = Touched(t, r)
      BY <1>2, <1>11 DEF Touched, FirstBlock, LastBlock
    <2>2. r.logged \subseteq Touched(t, r)
      BY <1>20 DEF WriteHeld
    <2>3. Bitmap \in Touched(t, r) /\ addrs'[i][NDIRECT] \in Touched(t, r)
      BY <1>2, <1>5 DEF Touched
    <2>4. m.b \in Touched(t, r)
      <3>1. CASE m.b = 0
        BY <2>3, <3>1 DEF Bitmap
      <3>2. CASE m.b # 0
        <4>1. FirstBlock(t, r) = o \div BSIZE /\ LastBlock(t, r) = (o + r.n - 1) \div BSIZE
          BY <1>2, <1>5 DEF FirstBlock, LastBlock
        <4>2. PICK e : e = o + r.n
          OBVIOUS
        <4>3. /\ o \div BSIZE \in Nat /\ (e - 1) \div BSIZE \in Nat /\ pos \div BSIZE \in Nat
              /\ o \div BSIZE <= pos \div BSIZE /\ pos \div BSIZE <= (e - 1) \div BSIZE
          <5>1. e \in Nat /\ pos \in o .. e - 1
            BY <1>6, <1>8, <4>2
          <5> QED BY <1>6, <5>1, BlocksBetween
        <4>3a. PICK u, v : u = o \div BSIZE /\ v = (e - 1) \div BSIZE
          OBVIOUS
        <4>3b. u \in Nat /\ v \in Nat /\ bn \in Nat /\ u <= bn /\ bn <= v
          BY <1>3, <4>3, <4>3a
        <4>3c. FirstBlock(t, r) = u /\ LastBlock(t, r) = v
          <5>1. o + r.n - 1 = e - 1
            BY <1>6, <4>2
          <5>2. PICK c : c = o + r.n - 1
            OBVIOUS
          <5>3. LastBlock(t, r) = c \div BSIZE /\ c = e - 1
            BY <4>1, <5>1, <5>2
          <5> QED BY <4>1, <4>3a, <5>3
        <4>4. bn \in FirstBlock(t, r) .. LastBlock(t, r)
          BY <4>3b, <4>3c
        <4>5. m.b = At(t.addrs, t.content, r.ip, bn)
          BY <1>2, <1>5, <1>13, <3>2
        <4> QED BY <4>4, <4>5 DEF Touched
      <3> QED BY <3>1, <3>2
    <2> QED BY <1>10, <1>11, <2>1, <2>2, <2>3, <2>4
  <1>22. w.tot <= w.n /\ \A x \in o .. o + w.tot - 1 : At(t.addrs, t.content, i, x \div BSIZE) # 0
    <2>0. \A x \in o .. o + r.tot - 1 : At(t.addrs, t.content, i, x \div BSIZE) # 0
      BY <1>2, <1>5, <1>20 DEF WriteHeld
    <2>1. CASE w.tot = r.tot
      BY <1>7, <1>11, <2>0, <2>1
    <2>2. CASE m.b # 0 /\ w.tot = r.tot + bytes
      <3>1. w.tot <= w.n
        BY <1>6, <1>10a, <1>11, <2>2
      <3> SUFFICES ASSUME NEW x \in o .. o + w.tot - 1 PROVE At(t.addrs, t.content, i, x \div BSIZE) # 0
        BY <3>1
      <3>2. CASE x < pos
        <4>1. x \in o .. o + r.tot - 1
          BY <1>2a, <1>6, <1>10a, <2>2, <3>2
        <4> QED BY <2>0, <4>1
      <3>3. CASE ~(x < pos)
        <4>1. PICK g : g = pos % BSIZE
          OBVIOUS
        <4>2. g \in 0 .. BSIZE - 1 /\ BSIZE \in Nat /\ bytes <= BSIZE - g
          BY <1>8, <1>10a, <4>1, BlockOf, BlocksConstants
        <4>3. x \in Nat /\ pos <= x /\ x < pos + (BSIZE - g)
          BY <1>2a, <1>6, <1>10a, <2>2, <3>3, <4>2
        <4>4. x \div BSIZE = bn
          BY <1>3, <1>8, <4>1, <4>3, SameBlock
        <4> QED BY <1>5, <1>13, <2>2, <4>4
      <3> QED BY <3>2, <3>3
    <2> QED BY <1>11, <2>1, <2>2
  <1>23. ClientHeld(t, w)
    <2>1. WriteHeld(t, w)
      BY <1>2, <1>5, <1>7, <1>11, <1>20, <1>21, <1>22 DEF WriteHeld
    <2> QED BY <1>11, <2>1 DEF ClientHeld
  <1>24. ClientHeld(t, t.req[p])
    BY <1>5, <1>12, <1>23
  <1>25. Intact(t)
    BY <1>1, <1>16, <1>18, <1>19, <1>24, MovesHold
  <1> QED BY <1>1, <1>25
-----------------------------------------------------------------------------
(* The specification *)

LEMMA InitHolds ==
  BlocksInit => BInv
  <1> SUFFICES ASSUME BlocksInit PROVE BInv
    OBVIOUS
  <1>1. PICK s : s = Now
    OBVIOUS
  <1>2. /\ s.used = {} /\ s.addrs = [i \in Inos |-> [k \in 0 .. NDIRECT |-> 0]]
        /\ s.size = [i \in Inos |-> 0] /\ s.content = [b \in DataBlocks |-> UserData]
        /\ s.holder = [i \in Inos |-> NoHolder] /\ s.off = [f \in Opens |-> 0] /\ s.fip \in [Opens -> Inos]
        /\ s.req = [p \in Clients |-> NoRequest]
    BY <1>1, BlocksConstants DEF Now, BlocksInit
  <1>3. s \in States
    <2>1. [k \in 0 .. NDIRECT |-> 0] \in Addrs
      BY BlocksConstants DEF Addrs
    <2>2. s.addrs \in [Inos -> Addrs]
      BY <1>2, <2>1
    <2>3. s.content \in [DataBlocks -> BlockSet] /\ s.req \in [Clients -> Requests]
      <3>1. UserData \in BlockSet /\ NoRequest \in Requests
        BY ZeroedFacts, NoRequestFacts
      <3> QED BY <1>2, <3>1
    <2>4. s.size \in [Inos -> 0 .. MAXFILE * BSIZE] /\ s.off \in [Opens -> 0 .. MAXFILE * BSIZE]
      BY <1>2, FileSize
    <2>5. s.used \in SUBSET DataBlocks /\ s.holder \in [Inos -> Clients \cup {NoHolder}]
          /\ s.fip \in [Opens -> Inos]
      BY <1>2
    <2>6. s = [used |-> s.used, addrs |-> s.addrs, size |-> s.size, content |-> s.content,
               holder |-> s.holder, off |-> s.off, fip |-> s.fip, req |-> s.req, broken |-> FALSE]
      BY <1>1 DEF Now, BlocksInit
    <2> QED BY <2>2, <2>3, <2>4, <2>5, <2>6, StatesBy
  <1>4. \A p \in Clients : s.req[p].op = "idle" /\ s.req[p].logged = {} /\ s.req[p].tot = 0
    BY <1>2, NoRequestFacts
  <1>5. Locks(s)
    BY <1>2, <1>4 DEF Locks, Busy, Writing
  <1>6. \A i \in Inos : \A k \in 0 .. NDIRECT : s.addrs[i][k] = 0
    BY <1>2
  <1>7. Mapped(s.used, s.addrs, s.content, Freed(s))
    <2>1. PICK N, F : N = Numbers(s.addrs, s.content, F) /\ F = Freed(s)
      OBVIOUS
    <2>2. F = [i \in Inos |-> 0]
      BY <1>2, <2>1 DEF Freed, Truncated
    <2>3. NDIRECT \in 0 .. NDIRECT
      BY BlocksConstants
    <2>4. \A q \in DOMAIN N : N[q] = 0
      <3> SUFFICES ASSUME NEW q \in DOMAIN N PROVE N[q] = 0
        OBVIOUS
      <3>1. IsPlace(q, s.addrs, F)
        BY <2>1, InDomain
      <3>2. PICK i \in Inos, k \in 0 .. NDIRECT : q = <<i, "addrs", k>>
        BY <3>1, <1>6, <2>3 DEF IsPlace
      <3>3. AddrsIn(N, s.addrs)
        BY <2>1, NumbersIn
      <3> QED BY <3>2, <3>3, <1>6 DEF AddrsIn
    <2>5. Kept({}, N)
      BY <2>4 DEF Kept
    <2>6. F \in [Inos -> Nat]
      BY <2>2
    <2> QED BY <1>2, <1>3, <1>6, <2>1, <2>3, <2>5, <2>6 DEF Mapped, States
  <1>8. \A i \in Inos : FileHeld(s, i)
    BY <1>2 DEF FileHeld
  <1>9. \A p \in Clients : ClientHeld(s, s.req[p])
    BY <1>4 DEF ClientHeld
  <1>10. Intact(s)
    BY <1>3, <1>5, <1>7, <1>8, <1>9 DEF Intact
  <1> QED BY <1>1, <1>10 DEF BInv

LEMMA NextHolds ==
  BInv /\ [BlocksNext]_blockVars => BInv'
  <1> SUFFICES ASSUME BInv, [BlocksNext]_blockVars PROVE BInv'
    OBVIOUS
  <1>1. CASE UNCHANGED blockVars
    BY <1>1 DEF blockVars, BInv, Now
  <1>2. CASE BlocksNext
    <2>1. UNCHANGED fip
      BY <1>2 DEF BlocksNext
    <2>2. PICK p \in Clients :
            \/ \E f \in Opens, n \in Lengths : FileWrite(p, f, n) \/ FileRead(p, f, n)
            \/ ChunkBegin(p) \/ WriteRound(p) \/ WriteEnd(p)
            \/ \E i \in Inos : TruncBegin(p, i)
            \/ \E k \in 0 .. NDIRECT - 1 : TruncDirect(p, k)
            \/ TruncIndirect(p) \/ TruncEnd(p)
      BY <1>2 DEF BlocksNext
    <2>3. ASSUME NEW f \in Opens, NEW n \in Lengths, FileWrite(p, f, n) PROVE BInv'
      BY <2>1, <2>3, FileWriteHolds
    <2>4. ASSUME NEW f \in Opens, NEW n \in Lengths, FileRead(p, f, n) PROVE BInv'
      BY <2>1, <2>4, FileReadHolds
    <2>5. CASE ChunkBegin(p)
      BY <2>1, <2>5, ChunkBeginHolds
    <2>6. CASE WriteRound(p)
      BY <2>1, <2>6, WriteRoundHolds
    <2>7. CASE WriteEnd(p)
      BY <2>1, <2>7, WriteEndHolds
    <2>8. ASSUME NEW i \in Inos, TruncBegin(p, i) PROVE BInv'
      BY <2>1, <2>8, TruncBeginHolds
    <2>9. ASSUME NEW k \in 0 .. NDIRECT - 1, TruncDirect(p, k) PROVE BInv'
      BY <2>1, <2>9, TruncDirectHolds
    <2>10. CASE TruncIndirect(p)
      BY <2>1, <2>10, TruncIndirectHolds
    <2>11. CASE TruncEnd(p)
      BY <2>1, <2>11, TruncEndHolds
    <2> QED BY <2>2, <2>3, <2>4, <2>5, <2>6, <2>7, <2>8, <2>9, <2>10, <2>11
  <1> QED BY <1>1, <1>2

\* Every step of a request, and every panic it may meet, leaves the books of
\* the blocks in order: BInv is inductive.
THEOREM BlocksInvariant ==
  BlocksSpec => []BInv
  BY InitHolds, NextHolds, PTL DEF BlocksSpec

LEMMA HeldNow ==
  ASSUME BInv
  PROVE  /\ Intact(Now) /\ Now.used = used /\ Now.addrs = addrs /\ Now.size = size /\ Now.content = content
         /\ Now.holder = holder /\ Now.off = off /\ Now.fip = fip /\ Now.req = req /\ Now.broken = broken
         /\ Now \in States
  BY DEF BInv, Now, Intact

LEMMA TypeFollows ==
  BInv => BlocksTypeOK
  <1> SUFFICES ASSUME BInv PROVE BlocksTypeOK
    OBVIOUS
  <1>1. /\ used \in SUBSET DataBlocks /\ addrs \in [Inos -> Addrs] /\ size \in [Inos -> 0 .. MAXFILE * BSIZE]
        /\ content \in [DataBlocks -> BlockSet] /\ holder \in [Inos -> Clients \cup {NoHolder}]
        /\ off \in [Opens -> 0 .. MAXFILE * BSIZE] /\ fip \in [Opens -> Inos]
        /\ req \in [Clients -> Requests] /\ broken \in {FALSE}
    BY HeldNow DEF States
  <1>2. \A p \in Clients : req[p] \in Requests
    BY <1>1
  <1>3. \A p \in Clients :
          /\ req[p].op \in {"idle", "write", "writei", "written", "trunc"}
          /\ req[p].left \in Nat /\ req[p].n \in 0 .. MaxChunk /\ req[p].tot \in Nat
    BY <1>2 DEF Requests, Busy
  <1> QED BY <1>1, <1>3 DEF BlocksTypeOK, Addrs, BlockSet, EntrySet

\* The map is the block map that the property is about.
LEMMA AccountsFollow ==
  BInv => BlocksAreAccounted
  <1> SUFFICES ASSUME BInv PROVE BlocksAreAccounted
    OBVIOUS
  <1>1. PICK F, N : F = Freed(Now) /\ N = Numbers(addrs, content, F)
    OBVIOUS
  <1>2. Intact(Now) /\ broken = FALSE /\ holder \in [Inos -> Clients \cup {NoHolder}]
        /\ addrs \in [Inos -> Addrs] /\ content \in [DataBlocks -> BlockSet] /\ req \in [Clients -> Requests]
    BY HeldNow DEF States
  <1>3. Kept(used, N) /\ F \in [Inos -> Nat] /\ Mapped(used, addrs, content, F)
    BY <1>1, HeldNow DEF Intact, Mapped
  <1>4. AddrsIn(N, addrs) /\ IndirectIn(N, addrs, content, F) /\ DOMAIN N = PlacesOf(addrs, F)
    BY <1>1, NumbersIn, NumberFacts
  <1>5. \A i \in Inos : F[i] = IF holder[i] # NoHolder /\ req[holder[i]].op = "trunc"
                               THEN req[holder[i]].tot ELSE 0
    BY <1>1, HeldNow DEF Freed, Truncated
  <1>6. \A i \in Inos : Unfreed(i) = IF addrs[i][NDIRECT] = 0 THEN {} ELSE F[i] .. NINDIRECT - 1
    BY <1>5 DEF Unfreed
  <1>7. ASSUME NEW q PROVE q \in Places <=> IsPlace(q, addrs, F)
    <2>1. q \in Places <=> \E i \in Inos : \/ \E k \in 0 .. NDIRECT : q = <<i, "addrs", k>>
                                           \/ \E j \in Unfreed(i) : q = <<i, "indirect", j>>
      BY DEF Places
    <2>2. \A i \in Inos : \A j : j \in Unfreed(i) <=>
             j \in 0 .. NINDIRECT - 1 /\ addrs[i][NDIRECT] # 0 /\ F[i] <= j
      BY <1>3, <1>6, BlocksConstants
    <2> QED BY <2>1, <2>2 DEF IsPlace
  <1>8. Places = DOMAIN N
    <2>1. \A q : q \in DOMAIN N <=> IsPlace(q, addrs, F)
      BY <1>4, InPlaces DEF IsPlace
    <2> QED BY <1>7, <2>1
  <1>9. \A q \in Places : NumberAt(q) = N[q]
    <2> SUFFICES ASSUME NEW q \in Places PROVE NumberAt(q) = N[q]
      OBVIOUS
    <2>1. CASE \E i \in Inos, k \in 0 .. NDIRECT : q = <<i, "addrs", k>>
      BY <2>1, <1>4 DEF AddrsIn, NumberAt
    <2>2. CASE \E i \in Inos, j \in 0 .. NINDIRECT - 1 :
                  q = <<i, "indirect", j>> /\ addrs[i][NDIRECT] # 0 /\ F[i] <= j
      BY <2>2, <1>4 DEF IndirectIn, NumberAt
    <2> QED BY <2>1, <2>2, <1>7 DEF IsPlace
  <1>10. used = {NumberAt(q) : q \in Places} \ {0}
    <2>1. ASSUME NEW b \in used PROVE b \in {NumberAt(q) : q \in Places} \ {0}
      <3>1. PICK q \in DOMAIN N : N[q] = b
        BY <1>3 DEF Kept
      <3>2. b # 0
        BY <1>3 DEF Kept
      <3> QED BY <3>1, <3>2, <1>8, <1>9
    <2>2. ASSUME NEW q \in Places, NumberAt(q) # 0 PROVE NumberAt(q) \in used
      BY <2>2, <1>3, <1>8, <1>9 DEF Kept
    <2> QED BY <2>1, <2>2
  <1>11. \A q, r \in Places : NumberAt(q) = NumberAt(r) /\ NumberAt(q) # 0 => q = r
    BY <1>3, <1>8, <1>9 DEF Kept
  <1>12. ASSUME NEW i \in Inos
         PROVE  /\ addrs[i][NDIRECT] # 0 => ~content[addrs[i][NDIRECT]].data
                /\ holder[i] = NoHolder => \A x \in 0 .. size[i] - 1 : BlockAt(i, x \div BSIZE) # 0
    <2>1. addrs[i][NDIRECT] # 0 => ~content[addrs[i][NDIRECT]].data
      BY <1>3 DEF Mapped
    <2>2. ASSUME holder[i] = NoHolder, NEW x \in 0 .. size[i] - 1 PROVE BlockAt(i, x \div BSIZE) # 0
      <3>1. FileHeld(Now, i)
        BY <2>2, HeldNow DEF Intact, Truncated
      <3>2. At(addrs, content, i, x \div BSIZE) # 0
        BY <2>2, <3>1, HeldNow DEF FileHeld
      <3> QED BY <3>2 DEF At, BlockAt
    <2> QED BY <2>1, <2>2
  <1> QED BY <1>2, <1>10, <1>11, <1>12 DEF BlocksAreAccounted

\* The blocks that a chunk of bytes is in
LEMMA ChunkSpan ==
  ASSUME NEW o \in Nat, NEW n \in 0 .. MaxChunk, n > 0
  PROVE  /\ o \div BSIZE \in Nat /\ (o + n - 1) \div BSIZE \in Nat
         /\ (o + n - 1) \div BSIZE <= (o \div BSIZE) + ChunkBlocks
  <1>0. BSIZE \in Nat /\ BSIZE > 0 /\ ChunkBlocks \in Nat /\ MaxChunk = ChunkBlocks * BSIZE /\ MaxChunk \in Nat
    BY BlocksConstants, ChunkSize
  <1>1. PICK x, d, g : x = o + n - 1 /\ d = o \div BSIZE /\ g = o % BSIZE
    OBVIOUS
  <1>2. x \in Nat /\ n \in Nat
    BY <1>0, <1>1
  <1>3. d \in Nat /\ g \in 0 .. BSIZE - 1 /\ o = BSIZE * d + g
    BY <1>1, BlockOf
  <1>4. PICK k : k = d + ChunkBlocks + 1
    OBVIOUS
  <1>5. k \in Nat /\ k * BSIZE = BSIZE * d + ChunkBlocks * BSIZE + BSIZE
    BY <1>0, <1>3, <1>4
  <1>6. x < k * BSIZE
    BY <1>0, <1>1, <1>3, <1>5
  <1>7. x \div BSIZE \in Nat /\ x \div BSIZE < k
    BY <1>2, <1>5, <1>6, BlockOf
  <1>8. PICK e : e = x \div BSIZE
    OBVIOUS
  <1>9. e \in Nat /\ e <= d + ChunkBlocks
    BY <1>0, <1>3, <1>4, <1>7, <1>8
  <1> QED BY <1>1, <1>3, <1>8, <1>9

\* Finite sets of at most so many elements
FewerThan(S, n) == IsFiniteSet(S) /\ Cardinality(S) + 1 <= n

LEMMA OneMore ==
  ASSUME NEW S, NEW n \in Nat, FewerThan(S, n), NEW x
  PROVE  FewerThan(S \cup {x}, n + 1)
  <1>1. IsFiniteSet(S) /\ Cardinality(S) \in Nat /\ Cardinality(S) + 1 <= n
    BY FS_CardinalityType DEF FewerThan
  <1>2. /\ IsFiniteSet(S \cup {x})
        /\ Cardinality(S \cup {x}) = IF x \in S THEN Cardinality(S) ELSE Cardinality(S) + 1
    BY <1>1, FS_AddElement
  <1>3. PICK c, d : c = Cardinality(S) /\ d = Cardinality(S \cup {x})
    OBVIOUS
  <1>4. c \in Nat /\ c + 1 <= n /\ (d = c \/ d = c + 1)
    BY <1>1, <1>2, <1>3
  <1>5. d + 1 <= n + 1
    BY <1>4
  <1> QED BY <1>2, <1>3, <1>5 DEF FewerThan

LEMMA FewerSubset ==
  ASSUME NEW S, NEW n \in Nat, NEW m \in Nat, FewerThan(S, n), NEW T, T \subseteq S, n <= m
  PROVE  Cardinality(T) + 1 <= m
  <1>1. IsFiniteSet(S) /\ Cardinality(S) \in Nat /\ Cardinality(S) + 1 <= n
    BY FS_CardinalityType DEF FewerThan
  <1>2. IsFiniteSet(T) /\ Cardinality(T) <= Cardinality(S)
    BY <1>1, FS_Subset
  <1>3. Cardinality(T) \in Nat
    BY <1>2, FS_CardinalityType
  <1>4. PICK c, d : c = Cardinality(S) /\ d = Cardinality(T)
    OBVIOUS
  <1>5. c \in Nat /\ d \in Nat /\ c + 1 <= n /\ d <= c
    BY <1>1, <1>2, <1>3, <1>4
  <1>6. d + 1 <= m
    BY <1>5
  <1> QED BY <1>4, <1>6

LEMMA FitFollows ==
  BInv => OperationsFit
  <1> SUFFICES ASSUME BInv, NEW p \in Clients PROVE Cardinality(req[p].logged) + 1 <= MAXOPBLOCKS
    BY DEF OperationsFit
  <1>1. PICK s, r : s = Now /\ r = req[p]
    OBVIOUS
  <1>2. Intact(s) /\ s \in States /\ r = s.req[p] /\ r \in Requests /\ ClientHeld(s, r)
    BY <1>1, HeldNow DEF Intact, States
  <1>3. FewerThan({}, 1) /\ FewerThan({Bitmap}, 2) /\ MAXOPBLOCKS \in Nat /\ 2 <= MAXOPBLOCKS
    BY FS_EmptySet, FS_Singleton, BlocksConstants DEF FewerThan
  <1>4. CASE r.op # "writei" /\ r.op # "written"
    <2>1. r.logged \subseteq {Bitmap}
      BY <1>2, <1>4 DEF ClientHeld, TruncHeld, Requests, Busy
    <2>2. Cardinality(r.logged) + 1 <= MAXOPBLOCKS
      BY <1>3, <2>1, FewerSubset
    <2> QED BY <1>1, <2>2
  <1>6. CASE r.op \in {"writei", "written"}
    <2>1. r.logged \subseteq Touched(s, r) /\ r.n > 0 /\ r.n \in 0 .. MaxChunk
      BY <1>2, <1>6 DEF ClientHeld, WriteHeld, Requests
    <2>2. s.off[r.f] \in Nat
      BY <1>2, <1>6, InWrite
    <2>3. PICK a, b : a = FirstBlock(s, r) /\ b = LastBlock(s, r)
      OBVIOUS
    <2>4. a \in Nat /\ b \in Nat /\ b <= a + ChunkBlocks
      BY <2>1, <2>2, <2>3, ChunkSpan DEF FirstBlock, LastBlock
    <2>5. PICK I, T, h : /\ I = a .. b
                         /\ T = {At(s.addrs, s.content, r.ip, bn) : bn \in I}
                         /\ h = [bn \in I |-> At(s.addrs, s.content, r.ip, bn)]
      OBVIOUS
    <2>6. IsFiniteSet(I) /\ Cardinality(I) <= ChunkBlocks + 1 /\ Cardinality(I) \in Nat
      <3>1. IsFiniteSet(I) /\ Cardinality(I) = IF a > b THEN 0 ELSE b - a + 1
        BY <2>4, <2>5, FS_Interval
      <3>2. PICK c : c = Cardinality(I)
        OBVIOUS
      <3>3. c \in Nat /\ c <= ChunkBlocks + 1
        BY <2>4, <3>1, <3>2, ChunkSize
      <3> QED BY <3>1, <3>2, <3>3
    <2>7. h \in Surjection(I, T)
      BY <2>5 DEF Surjection
    <2>8. FewerThan(T, ChunkBlocks + 2)
      <3>1. IsFiniteSet(T) /\ Cardinality(T) <= Cardinality(I)
        BY <2>6, <2>7, FS_Surjection
      <3>2. Cardinality(T) \in Nat
        BY <3>1, FS_CardinalityType
      <3>3. PICK c, d : c = Cardinality(T) /\ d = Cardinality(I)
        OBVIOUS
      <3>4. c + 1 <= ChunkBlocks + 2
        BY <2>6, <3>1, <3>2, <3>3, ChunkSize
      <3> QED BY <3>1, <3>3, <3>4 DEF FewerThan
    <2>9. PICK x, k : x = s.addrs[r.ip][NDIRECT] /\ k = ChunkBlocks + 2
      OBVIOUS
    <2>10. k \in Nat /\ k + 1 \in Nat /\ k + 1 + 1 \in Nat /\ k + 1 + 1 <= MAXOPBLOCKS
      BY <2>9, ChunkSize, BlocksConstants
    <2>11. FewerThan((T \cup {x}) \cup {Bitmap}, k + 1 + 1)
      <3>1. FewerThan(T \cup {x}, k + 1)
        BY <2>8, <2>9, <2>10, OneMore
      <3> QED BY <2>10, <3>1, OneMore
    <2>12. r.logged \subseteq (T \cup {x}) \cup {Bitmap}
      BY <2>1, <2>3, <2>5, <2>9 DEF Touched
    <2>13. Cardinality(r.logged) + 1 <= MAXOPBLOCKS
      BY <1>3, <2>10, <2>11, <2>12, FewerSubset
    <2> QED BY <1>1, <2>13
  <1> QED BY <1>4, <1>6

\* The type invariant of the block map.
THEOREM BlocksTyped ==
  BlocksSpec => []BlocksTypeOK
  BY BlocksInvariant, TypeFollows, PTL

\* Whatever fails half way, the bitmap marks exactly the blocks that one place
\* of one inode holds, no read allocates, and no operation of a write or of a
\* truncation logs more blocks than it reserved.
THEOREM BlocksAlwaysHold ==
  BlocksSpec => []BlocksHold
  <1>1. BInv => BlocksHold
    BY AccountsFollow, FitFollows DEF BlocksHold
  <1> QED BY <1>1, BlocksInvariant, PTL
=============================================================================
