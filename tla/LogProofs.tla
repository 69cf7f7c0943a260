----------------------------- MODULE LogProofs ------------------------------
(***************************************************************************)
(* The safety properties of the redo log, and that it implements           *)
(* AtomicDisk, proved for all processes, blocks and log sizes.             *)
(***************************************************************************)
EXTENDS Log, FiniteSetTheorems, TLAPS

-----------------------------------------------------------------------------
(* The inductive invariant *)

Injective(s) == \A i, j \in DOMAIN s : s[i] = s[j] => i = j

\* Some process is at l.
At(l) == \E p \in Procs : pc[p] = l

\* A commit runs alone: one process commits, while no operation runs.
CommitIsExclusive ==
    /\ outstanding = Cardinality(InOp)
    /\ committing => InOp = {}
    /\ committing <=> Committer # {}
    /\ \A p, q \in Committer : p = q

\* Nothing runs before recovery is over.
BootIsQuiet ==
    boot # "up" =>
        /\ ~committing
        /\ waiting = {}
        /\ \A p \in Procs : pc[p] = "user" /\ awaited[p] = 0

\* What the running operations may still take of the log: each reserved
\* MAXOPBLOCKS and used one for each block it wrote.
Reserved == {r \in InOp \X (1 .. MAXOPBLOCKS) : r[2] > Cardinality(wrote[r[1]])}

LogHasRoom ==
    /\ \A p \in Procs : wrote[p] \subseteq IF pc[p] = "op" THEN Logged ELSE {}
    /\ \A p \in Procs : Cardinality(wrote[p]) <= OpBlocks
    /\ Len(lh) + Cardinality(Reserved) <= LOGBLOCKS

\* The slots of the log whose block is not installed yet.
Pending == {i \in DOMAIN lh : boot = "up" /\ (At("install") => i > tail)}

\* A logged block stays cached until it is installed; any other buffer is clean.
PinnedUntilInstalled == \A b \in Blocks :
    /\ pin[b] = 1 <=> \E i \in Pending : lh[i] = b
    /\ pin[b] = 1 => cache[b] # NotCached
    /\ pin[b] = 0 => cache[b] \in {NotCached, home[b]}

\* The log's copies are those of the buffers, resp. the home blocks those of the log.
Copied(n) == \A i \in 1 .. n : logArea[i] = Buffered(lh[i])
Installed(h, n) == \A i \in 1 .. n : home[h[i]] = logArea[i]

\* What recovery finds and leaves on the disk.
RecoveryPhases ==
    /\ boot = "read_head" => lh = <<>> /\ tail = 0
    /\ boot = "install" => lh = head /\ tail <= Len(lh) /\ Installed(lh, tail)
    /\ boot = "erase" => lh = <<>> /\ tail = 0 /\ Installed(head, Len(head))

\* What each step of a commit finds and leaves in memory and on the disk.
CommitPhases ==
    boot = "up" =>
        /\ ~At("install") /\ ~At("erase") => head = <<>>
        /\ ~At("write_log") /\ ~At("install") => tail = 0
        /\ At("write_log") => tail <= Len(lh) /\ Copied(tail)
        /\ At("write_head") => Copied(Len(lh))
        /\ At("install") => lh = head /\ tail <= Len(lh) /\ Copied(Len(lh)) /\ Installed(lh, tail)
        /\ At("erase") => lh = <<>> /\ Installed(head, Len(head))
        /\ At("done") => lh = <<>>
        /\ InOp = {} /\ Committer = {} => lh = <<>>

\* The disk never runs ahead of memory.
DiskIsBehind == \A b \in Blocks : Recovered[b] <= Current[b]

\* A process in sys_sync() sees nothing undone, and once it needs to wait no
\* longer everything it saw is durable.
SyncIsCovered == \A p \in Procs :
    /\ pc[p] = "sync" => \A b \in Blocks :
          /\ seen[p][b] <= Current[b]
          /\ awaited[p] = 0 => seen[p][b] <= Recovered[b]
    /\ awaited[p] > 0 => pc[p] = "sync" /\ (committing \/ outstanding > 0)

IInv ==
    /\ TypeOK
    /\ Injective(lh) /\ Injective(head)
    /\ CommitIsExclusive
    /\ BootIsQuiet
    /\ LogHasRoom
    /\ PinnedUntilInstalled
    /\ RecoveryPhases
    /\ CommitPhases
    /\ DiskIsBehind
    /\ SyncIsCovered
    /\ NoLostWakeup

-----------------------------------------------------------------------------
(* Facts about the operators *)

\* A header is a short sequence of blocks.
LEMMA HeaderIsSeq ==
  ASSUME NEW h PROVE h \in Headers <=> h \in Seq(Blocks) /\ Len(h) <= LOGBLOCKS
  <1>1. ASSUME h \in Headers PROVE h \in Seq(Blocks) /\ Len(h) <= LOGBLOCKS
    <2>1. PICK n \in 0 .. LOGBLOCKS : h \in [1 .. n -> Blocks]
      BY <1>1 DEF Headers
    <2>2. h \in Seq(Blocks) /\ Len(h) = n
      BY <2>1, LogAssumption
    <2> QED BY <2>2, LogAssumption
  <1>2. ASSUME h \in Seq(Blocks), Len(h) <= LOGBLOCKS PROVE h \in Headers
    <2>1. Len(h) \in 0 .. LOGBLOCKS /\ h \in [1 .. Len(h) -> Blocks]
      BY <1>2, LogAssumption
    <2> QED BY <2>1 DEF Headers
  <1> QED BY <1>1, <1>2

\* The empty header is one, and it logs nothing.
LEMMA EmptyHeader == <<>> \in Headers /\ Len(<<>>) = 0 /\ DOMAIN <<>> = {} /\ Injective(<<>>)
  <1>1. <<>> \in Seq(Blocks) /\ Len(<<>>) = 0 /\ DOMAIN <<>> = {}
    OBVIOUS
  <1>2. <<>> \in Headers
    <2>1. <<>> \in [1 .. 0 -> Blocks] /\ 0 \in 0 .. LOGBLOCKS
      BY LogAssumption
    <2> QED BY <2>1 DEF Headers
  <1> QED BY <1>1, <1>2 DEF Injective

\* What a crash would leave, as a function of the disk.
RecoveredFrom(disk, area, h) == [b \in Blocks |->
    IF \E i \in DOMAIN h : h[i] = b
    THEN area[CHOOSE i \in DOMAIN h : h[i] = b]
    ELSE disk[b]]

LEMMA RecoveredIs ==
  /\ Recovered = RecoveredFrom(home, logArea, head)
  /\ Recovered' = RecoveredFrom(home', logArea', head')
  BY DEF Recovered, RecoveredFrom

\* A block of the header is recovered from its slot of the log, any other
\* from its home.
LEMMA RecoveredValue ==
  ASSUME NEW disk, NEW area, NEW h, Injective(h)
  PROVE  /\ RecoveredFrom(disk, area, h) = [b \in Blocks |-> RecoveredFrom(disk, area, h)[b]]
         /\ \A i \in DOMAIN h :
               h[i] \in Blocks => RecoveredFrom(disk, area, h)[h[i]] = area[i]
         /\ \A b \in Blocks :
               (\A i \in DOMAIN h : h[i] # b) => RecoveredFrom(disk, area, h)[b] = disk[b]
  <1>1. ASSUME NEW i \in DOMAIN h, h[i] \in Blocks
        PROVE  RecoveredFrom(disk, area, h)[h[i]] = area[i]
    <2>1. (CHOOSE j \in DOMAIN h : h[j] = h[i]) = i
      BY DEF Injective
    <2> QED BY <1>1, <2>1 DEF RecoveredFrom
  <1> QED BY <1>1 DEF RecoveredFrom

\* Nothing is recovered from the log when the header is empty, nor when its
\* blocks are all installed.
LEMMA RecoveredHome ==
  ASSUME NEW disk, NEW area, NEW h \in Headers, Injective(h), disk \in [Blocks -> Versions],
         \A i \in DOMAIN h : disk[h[i]] = area[i]
  PROVE  RecoveredFrom(disk, area, h) = disk
  <1>1. ASSUME NEW b \in Blocks PROVE RecoveredFrom(disk, area, h)[b] = disk[b]
    BY RecoveredValue
  <1> QED BY <1>1, RecoveredValue

\* Installing blocks of the header does not change what a crash would leave.
LEMMA RecoveredInstall ==
  ASSUME NEW d, NEW disk, NEW area, NEW h, Injective(h),
         \A b \in Blocks : d[b] = disk[b] \/ \E i \in DOMAIN h : h[i] = b
  PROVE  RecoveredFrom(d, area, h) = RecoveredFrom(disk, area, h)
  <1>1. ASSUME NEW b \in Blocks
        PROVE  RecoveredFrom(d, area, h)[b] = RecoveredFrom(disk, area, h)[b]
    <2>1. CASE \E j \in DOMAIN h : h[j] = b
      BY <2>1, RecoveredValue
    <2>2. CASE \A j \in DOMAIN h : h[j] # b
      BY <2>2, RecoveredValue
    <2> QED BY <2>1, <2>2
  <1>2. /\ RecoveredFrom(d, area, h) = [b \in Blocks |-> RecoveredFrom(d, area, h)[b]]
        /\ RecoveredFrom(disk, area, h) = [b \in Blocks |-> RecoveredFrom(disk, area, h)[b]]
    BY RecoveredValue
  <1> QED BY <1>1, <1>2

\* The content bread() returns is a version.
LEMMA BufferedType == ASSUME TypeOK, NEW b \in Blocks PROVE Buffered(b) \in Versions
  BY DEF TypeOK, Buffered

\* ... and so is what a crash would leave.
LEMMA RecoveredType == ASSUME TypeOK, Injective(head) PROVE Recovered \in [Blocks -> Versions]
  <1>1. ASSUME NEW b \in Blocks PROVE Recovered[b] \in Versions
    <2>1. CASE \E i \in DOMAIN head : head[i] = b
      <3>1. PICK i \in DOMAIN head : head[i] = b
        BY <2>1
      <3>2. i \in 1 .. LOGBLOCKS
        BY HeaderIsSeq, LogAssumption DEF TypeOK
      <3>3. Recovered[b] = logArea[i]
        BY <3>1, RecoveredValue, RecoveredIs
      <3> QED BY <3>2, <3>3 DEF TypeOK
    <2>2. CASE \A i \in DOMAIN head : head[i] # b
      BY <2>2, RecoveredValue, RecoveredIs DEF TypeOK
    <2> QED BY <2>1, <2>2
  <1> QED BY <1>1 DEF Recovered

-----------------------------------------------------------------------------
(* Type correctness *)

\* The log's header in memory, slot by slot.
LEMMA LogSlots ==
  ASSUME TypeOK
  PROVE  /\ lh \in Seq(Blocks) /\ Len(lh) \in 0 .. LOGBLOCKS /\ DOMAIN lh = 1 .. Len(lh)
         /\ \A i \in DOMAIN lh : lh[i] \in Blocks /\ i \in 1 .. LOGBLOCKS
  BY HeaderIsSeq, LogAssumption DEF TypeOK

\* The header on the disk, slot by slot.
LEMMA HeadSlots ==
  ASSUME TypeOK
  PROVE  /\ head \in Seq(Blocks) /\ Len(head) \in 0 .. LOGBLOCKS /\ DOMAIN head = 1 .. Len(head)
         /\ \A i \in DOMAIN head : head[i] \in Blocks /\ i \in 1 .. LOGBLOCKS
  BY HeaderIsSeq, LogAssumption DEF TypeOK

\* The sets that are counted are finite.
LEMMA Counts ==
  ASSUME TypeOK
  PROVE  /\ IsFiniteSet(InOp) /\ Cardinality(InOp) \in 0 .. Cardinality(Procs)
         /\ Cardinality(Procs) \in Nat
         /\ IsFiniteSet(Reserved) /\ Cardinality(Reserved) \in Nat
         /\ \A S \in SUBSET Blocks : IsFiniteSet(S) /\ Cardinality(S) \in Nat
  <1>1. IsFiniteSet(InOp) /\ Cardinality(InOp) <= Cardinality(Procs)
    BY FS_Subset, LogAssumption DEF InOp
  <1>2. Cardinality(InOp) \in Nat /\ Cardinality(Procs) \in Nat
    BY <1>1, FS_CardinalityType, LogAssumption
  <1>3. IsFiniteSet(InOp \X (1 .. MAXOPBLOCKS))
    <2>1. IsFiniteSet(1 .. MAXOPBLOCKS)
      BY FS_Interval, LogAssumption
    <2> QED BY <1>1, <2>1, FS_Product
  <1>4. IsFiniteSet(Reserved)
    BY <1>3, FS_Subset DEF Reserved
  <1>5. \A S \in SUBSET Blocks : IsFiniteSet(S)
    BY FS_Subset, LogAssumption
  <1> QED BY <1>1, <1>2, <1>4, <1>5, FS_CardinalityType

\* An operation that may write one more block has kept a slot of the log for it.
LEMMA RoomLeft ==
  ASSUME IInv, NEW p \in Procs, NEW b \in Blocks, MayWrite(p, b)
  PROVE  /\ Cardinality(wrote[p]) \in 0 .. MAXOPBLOCKS - 1
         /\ <<p, Cardinality(wrote[p]) + 1>> \in Reserved
         /\ Len(lh) < LOGBLOCKS
  <1>1. wrote[p] \in SUBSET Blocks /\ p \in InOp
    BY DEF IInv, TypeOK, InOp, MayWrite
  <1>2. Cardinality(wrote[p]) \in Nat /\ Cardinality(Reserved) \in Nat /\ IsFiniteSet(Reserved)
    BY <1>1, Counts DEF IInv
  <1>3. Cardinality(wrote[p]) \in 0 .. MAXOPBLOCKS - 1
    BY <1>2, LogAssumption DEF IInv, LogHasRoom
  <1>4. <<p, Cardinality(wrote[p]) + 1>> \in Reserved
    BY <1>1, <1>3, LogAssumption DEF Reserved
  <1>5. Cardinality(Reserved) # 0
    BY <1>2, <1>4, FS_EmptySet
  <1>6. Len(lh) \in Nat /\ Len(lh) + Cardinality(Reserved) <= LOGBLOCKS
    BY LogSlots DEF IInv, LogHasRoom
  <1> QED BY <1>2, <1>3, <1>4, <1>5, <1>6, LogAssumption

\* The slot that a step of a commit or of recovery is about to copy.
LEMMA NextSlot ==
  ASSUME TypeOK, tail < Len(lh)
  PROVE  /\ tail + 1 \in DOMAIN lh /\ tail + 1 \in 1 .. LOGBLOCKS /\ lh[tail + 1] \in Blocks
         /\ logArea[tail + 1] \in Versions /\ Buffered(lh[tail + 1]) \in Versions
         /\ tail + 1 \in 0 .. LOGBLOCKS
  <1>1. tail \in Nat
    BY LogAssumption DEF TypeOK
  <1>2. tail + 1 \in DOMAIN lh
    BY <1>1, LogSlots
  <1>3. lh[tail + 1] \in Blocks /\ tail + 1 \in 1 .. LOGBLOCKS
    BY <1>2, LogSlots
  <1> QED BY <1>1, <1>2, <1>3, BufferedType, LogAssumption DEF TypeOK

\* The slot a commit installs belongs to a pinned block.
LEMMA NextSlotPinned ==
  ASSUME IInv, NEW p \in Procs, pc[p] = "install", tail < Len(lh)
  PROVE  boot = "up" /\ At("install") /\ pin[lh[tail + 1]] = 1
  <1>1. boot = "up"
    BY DEF IInv, BootIsQuiet
  <1>2. At("install")
    BY DEF At
  <1>3. tail + 1 \in DOMAIN lh /\ lh[tail + 1] \in Blocks /\ tail \in Nat
    BY NextSlot, LogAssumption DEF IInv, TypeOK
  <1>4. tail + 1 \in Pending
    BY <1>1, <1>3 DEF Pending
  <1> QED BY <1>1, <1>2, <1>3, <1>4 DEF IInv, PinnedUntilInstalled

\* A crash leaves the types intact.
LEMMA CrashType == ASSUME TypeOK, Crash PROVE TypeOK'
  <1>1. Cardinality(Procs) \in Nat /\ 0 \in Versions
    BY Counts, LogAssumption DEF Versions
  <1>2. seen' \in [Procs -> [Blocks -> Versions]] /\ pc' \in [Procs -> Labels]
    BY <1>1 DEF Crash, AtBoot, Nothing, Labels
  <1>3. lh' \in Headers /\ tail' \in 0 .. LOGBLOCKS /\ outstanding' \in 0 .. Cardinality(Procs)
    BY <1>1, EmptyHeader, LogAssumption DEF Crash, AtBoot
  <1>4. /\ cache' \in [Blocks -> Versions \cup {NotCached}] /\ pin' \in [Blocks -> 0 .. 1]
        /\ wrote' \in [Procs -> SUBSET Blocks] /\ awaited' \in [Procs -> 0 .. 1]
    BY DEF Crash, AtBoot
  <1>5. UNCHANGED diskVars /\ committing' = FALSE /\ waiting' = {} /\ boot' = "read_head"
    BY DEF Crash, AtBoot
  <1> QED BY <1>2, <1>3, <1>4, <1>5 DEF TypeOK, diskVars

\* ... and so does recovery,
LEMMA RecoverType == ASSUME TypeOK, Recover PROVE TypeOK'
  <1> USE DEF TypeOK, diskVars, opVars, syncVars
  <1>1. CASE ReadHead
    BY <1>1 DEF ReadHead
  <1>2. CASE RecoverOne
    <2>1. tail < Len(lh)
      BY <1>2 DEF RecoverOne, InstallOne
    <2>2. /\ home' = [home EXCEPT ![lh[tail + 1]] = logArea[tail + 1]]
          /\ cache' = [cache EXCEPT ![lh[tail + 1]] = logArea[tail + 1]]
      BY <1>2 DEF RecoverOne, InstallOne
    <2>3. home' \in [Blocks -> Versions] /\ cache' \in [Blocks -> Versions \cup {NotCached}]
      BY <2>1, <2>2, NextSlot
    <2>4. tail' \in 0 .. LOGBLOCKS
      BY <1>2, <2>1, NextSlot DEF RecoverOne, InstallOne
    <2> QED BY <1>2, <2>3, <2>4 DEF RecoverOne, InstallOne
  <1>3. CASE RecoverAll
    BY <1>3, EmptyHeader, LogAssumption DEF RecoverAll
  <1>4. CASE RecoverErase
    BY <1>4 DEF RecoverErase
  <1> QED BY <1>1, <1>2, <1>3, <1>4 DEF Recover

\* ... the file system calls,
LEMMA CallType ==
  ASSUME IInv, NEW p \in Procs, BeginOp(p) \/ BeginWait(p) \/ End(p) \/ Sync(p)
  PROVE  TypeOK'
  <1>t. TypeOK
    BY DEF IInv
  <1> USE <1>t DEF TypeOK, diskVars, opVars, syncVars, Goto, Labels
  <1>1. CASE BeginOp(p)
    <2>1. pc'[p] = "op" /\ p \notin InOp /\ InOp' = InOp \cup {p}
      BY <1>1 DEF BeginOp, Beginning, InOp
    <2>2. IsFiniteSet(InOp \cup {p}) /\ Cardinality(InOp \cup {p}) = Cardinality(InOp) + 1
      BY <2>1, Counts, FS_AddElement
    <2>3. Cardinality(InOp \cup {p}) <= Cardinality(Procs)
      BY FS_Subset, LogAssumption DEF InOp
    <2>4. outstanding + 1 \in 0 .. Cardinality(Procs)
      BY <2>2, <2>3, Counts DEF IInv, CommitIsExclusive
    <2> QED BY <1>1, <2>4 DEF BeginOp
  <1>2. CASE BeginWait(p)
    BY <1>2 DEF BeginWait
  <1>3. CASE EndOp(p)
    <2>1. outstanding - 1 \in 0 .. Cardinality(Procs)
      BY <1>3, Counts DEF EndOp
    <2> QED BY <1>3, <2>1 DEF EndOp
  <1>4. CASE EndLastOp(p)
    BY <1>4, Counts DEF EndLastOp
  <1>5. CASE SyncWait(p)
    <2>1. [b \in Blocks |-> Buffered(b)] \in [Blocks -> Versions]
      BY BufferedType
    <2> QED BY <1>5, <2>1 DEF SyncWait
  <1>6. CASE SyncAgain(p)
    BY <1>6 DEF SyncAgain
  <1>7. CASE SyncReturn(p)
    <2>1. Nothing \in [Blocks -> Versions]
      BY LogAssumption DEF Nothing, Versions
    <2> QED BY <1>7, <2>1 DEF SyncReturn
  <1> QED BY <1>1, <1>2, <1>3, <1>4, <1>5, <1>6, <1>7 DEF End, Sync

\* ... the buffer cache and log_write(),
LEMMA WriteType ==
  ASSUME IInv, NEW b \in Blocks, Recycle(b) \/ \E p \in Procs : LogWrite(p, b)
  PROVE  TypeOK'
  <1>t. TypeOK
    BY DEF IInv
  <1> USE <1>t DEF TypeOK, diskVars, opVars, syncVars
  <1>1. CASE Recycle(b)
    BY <1>1 DEF Recycle
  <1>2. ASSUME NEW p \in Procs, LogWrite(p, b) PROVE TypeOK'
    <2>1. MayWrite(p, b)
      BY <1>2 DEF LogWrite
    <2>2. Buffered(b) + 1 \in Versions
      BY <2>1, BufferedType, LogAssumption DEF MayWrite, Versions
    <2>3. lh' \in Headers /\ pin' \in [Blocks -> 0 .. 1]
      <3>1. CASE b \in Logged
        BY <1>2, <3>1 DEF LogWrite
      <3>2. CASE b \notin Logged
        <4>1. lh' = Append(lh, b) /\ pin' = [pin EXCEPT ![b] = @ + 1]
          BY <1>2, <3>2 DEF LogWrite
        <4>2. Append(lh, b) \in Seq(Blocks) /\ Len(Append(lh, b)) = Len(lh) + 1
          BY LogSlots
        <4>3. Append(lh, b) \in Headers
          <5>1. Len(Append(lh, b)) <= LOGBLOCKS
            <6>1. Len(lh) < LOGBLOCKS
              BY <2>1, RoomLeft
            <6> HIDE DEF TypeOK
            <6>2. Len(lh) \in Nat
              BY <1>t, LogSlots
            <6> QED BY <4>2, <6>1, <6>2, LogAssumption
          <5> QED BY <4>2, <5>1, HeaderIsSeq
        <4>4. pin[b] # 1
          <5>1. ~ \E i \in Pending : lh[i] = b
            BY <3>2 DEF Pending, Logged
          <5> QED BY <5>1 DEF IInv, PinnedUntilInstalled
        <4> QED BY <4>1, <4>3, <4>4
      <3> QED BY <3>1, <3>2
    <2>4. wrote' \in [Procs -> SUBSET Blocks]
      BY <1>2 DEF LogWrite
    <2>5. cache' \in [Blocks -> Versions \cup {NotCached}]
      BY <1>2, <2>2 DEF LogWrite
    <2> QED BY <1>2, <2>3, <2>4, <2>5 DEF LogWrite
  <1> QED BY <1>1, <1>2

\* ... and a commit.
LEMMA CommitType == ASSUME IInv, NEW p \in Procs, Commit(p) PROVE TypeOK'
  <1>t. TypeOK
    BY DEF IInv
  <1> USE <1>t DEF TypeOK, diskVars, opVars, syncVars, Goto, Labels
  <1>1. CASE WriteLogOne(p)
    <2>1. /\ tail < Len(lh) /\ tail' = tail + 1
          /\ logArea' = [logArea EXCEPT ![tail + 1] = Buffered(lh[tail + 1])]
      BY <1>1 DEF WriteLogOne
    <2>2. logArea' \in [1 .. LOGBLOCKS -> Versions] /\ tail' \in 0 .. LOGBLOCKS
      BY <2>1, NextSlot
    <2> QED BY <1>1, <2>2 DEF WriteLogOne
  <1>2. CASE WriteLogEnd(p)
    BY <1>2, LogAssumption DEF WriteLogEnd
  <1>3. CASE WriteHead(p)
    BY <1>3 DEF WriteHead
  <1>4. CASE InstallTrans(p)
    <2>1. /\ tail < Len(lh) /\ tail' = tail + 1
          /\ home' = [home EXCEPT ![lh[tail + 1]] = logArea[tail + 1]]
          /\ cache' = [cache EXCEPT ![lh[tail + 1]] = logArea[tail + 1]]
          /\ pin' = [pin EXCEPT ![lh[tail + 1]] = @ - 1]
      BY <1>4 DEF InstallTrans, InstallOne
    <2>2. /\ home' \in [Blocks -> Versions] /\ cache' \in [Blocks -> Versions \cup {NotCached}]
          /\ tail' \in 0 .. LOGBLOCKS
      BY <2>1, NextSlot
    <2>3. pin[lh[tail + 1]] = 1
      BY <1>4, <2>1, NextSlotPinned DEF InstallTrans
    <2>4. pin' \in [Blocks -> 0 .. 1]
      BY <2>1, <2>3, NextSlot
    <2> QED BY <1>4, <2>2, <2>4 DEF InstallTrans, InstallOne
  <1>5. CASE InstallEnd(p)
    BY <1>5, EmptyHeader, LogAssumption DEF InstallEnd
  <1>6. CASE Erase(p)
    BY <1>6 DEF Erase
  <1>7. CASE FinishCommit(p)
    <2>1. [q \in Procs |-> IF awaited[q] > 0 THEN awaited[q] - 1 ELSE 0] \in [Procs -> 0 .. 1]
      OBVIOUS
    <2> QED BY <1>7, <2>1 DEF FinishCommit
  <1> QED BY <1>1, <1>2, <1>3, <1>4, <1>5, <1>6, <1>7 DEF Commit

-----------------------------------------------------------------------------
(* One process commits, while no operation runs *)

CommitLabels == {"write_log", "write_head", "install", "erase", "done"}

\* How a move of p changes the two sets of processes that matter.
LEMMA Moves ==
  ASSUME TypeOK, NEW p \in Procs, NEW l, pc' = [pc EXCEPT ![p] = l]
  PROVE  /\ InOp' = IF l = "op" THEN InOp \cup {p} ELSE InOp \ {p}
         /\ Committer' = IF l \in CommitLabels THEN Committer \cup {p} ELSE Committer \ {p}
         /\ pc'[p] = l /\ \A q \in Procs : q # p => pc'[q] = pc[q]
  <1>1. pc'[p] = l /\ \A q \in Procs : q # p => pc'[q] = pc[q]
    BY DEF TypeOK
  <1>2. InOp' = IF l = "op" THEN InOp \cup {p} ELSE InOp \ {p}
    BY <1>1 DEF InOp
  <1>3. Committer' = IF l \in CommitLabels THEN Committer \cup {p} ELSE Committer \ {p}
    BY <1>1 DEF Committer, CommitLabels
  <1> QED BY <1>1, <1>2, <1>3

\* While p commits nobody else does, and nobody is in an operation.
LEMMA CommitAlone ==
  ASSUME IInv, NEW p \in Procs, pc[p] \in CommitLabels
  PROVE  /\ boot = "up" /\ committing /\ InOp = {} /\ outstanding = 0 /\ Committer = {p}
         /\ \A l \in CommitLabels : At(l) <=> pc[p] = l
  <1>1. p \in Committer
    BY DEF Committer, CommitLabels
  <1>2. boot = "up" /\ committing /\ InOp = {} /\ Committer = {p}
    BY <1>1 DEF IInv, BootIsQuiet, CommitIsExclusive, CommitLabels
  <1>3. outstanding = 0
    BY <1>2, FS_EmptySet DEF IInv, CommitIsExclusive
  <1>4. ASSUME NEW l \in CommitLabels, NEW q \in Procs, pc[q] = l PROVE pc[p] = l
    <2>1. q \in Committer
      BY <1>4 DEF Committer, CommitLabels
    <2> QED BY <2>1, <1>2, <1>4
  <1> QED BY <1>2, <1>3, <1>4 DEF At

\* While an operation runs there is no commit, and the log on the disk is empty.
LEMMA OpRuns ==
  ASSUME IInv, NEW p \in Procs, pc[p] = "op"
  PROVE  /\ boot = "up" /\ ~committing /\ Committer = {} /\ p \in InOp
         /\ outstanding \in Nat \ {0}
         /\ \A l \in CommitLabels : ~At(l)
         /\ head = <<>> /\ tail = 0
  <1>1. p \in InOp /\ boot = "up"
    BY DEF InOp, IInv, BootIsQuiet
  <1>2. ~committing /\ Committer = {}
    BY <1>1 DEF IInv, CommitIsExclusive
  <1>3. outstanding \in Nat \ {0}
    BY <1>1, Counts, FS_EmptySet DEF IInv, CommitIsExclusive
  <1>4. \A l \in CommitLabels : ~At(l)
    BY <1>2 DEF At, Committer, CommitLabels
  <1>5. head = <<>> /\ tail = 0
    BY <1>1, <1>4 DEF IInv, CommitPhases, CommitLabels
  <1> QED BY <1>1, <1>2, <1>3, <1>4, <1>5

\* Every step keeps commits exclusive.
LEMMA ExclusiveStep == ASSUME IInv, Next PROVE CommitIsExclusive'
  <1>t. TypeOK /\ CommitIsExclusive
    BY DEF IInv
  <1>u. ASSUME UNCHANGED <<outstanding, committing, pc>> PROVE CommitIsExclusive'
    <2>1. InOp' = InOp /\ Committer' = Committer
      BY <1>u DEF InOp, Committer
    <2> QED BY <1>t, <1>u, <2>1 DEF CommitIsExclusive
  <1>1. CASE Crash
    <2>1. InOp' = {} /\ Committer' = {}
      BY <1>1 DEF Crash, AtBoot, InOp, Committer
    <2> QED BY <1>1, <2>1, FS_EmptySet DEF Crash, AtBoot, CommitIsExclusive
  <1>2. CASE Recover
    BY <1>u, <1>2 DEF Recover, ReadHead, RecoverOne, RecoverAll, RecoverErase, opVars
  <1>3. ASSUME NEW b \in Blocks, Recycle(b) PROVE CommitIsExclusive'
    BY <1>u, <1>3 DEF Recycle, opVars
  <1>4. ASSUME NEW p \in Procs, NEW b \in Blocks, LogWrite(p, b) PROVE CommitIsExclusive'
    BY <1>u, <1>4 DEF LogWrite
  <1>5. ASSUME NEW p \in Procs, BeginOp(p) PROVE CommitIsExclusive'
    <2>1. pc' = [pc EXCEPT ![p] = "op"] /\ pc[p] \in {"user", "begin"} /\ ~committing
      BY <1>5 DEF BeginOp, Beginning, CanBegin
    <2>2. InOp' = InOp \cup {p} /\ Committer' = Committer \ {p} /\ p \notin InOp
      BY <2>1, <1>t, Moves DEF CommitLabels, InOp
    <2>3. Cardinality(InOp') = Cardinality(InOp) + 1
      BY <2>2, <1>t, Counts, FS_AddElement
    <2> QED BY <1>5, <1>t, <2>1, <2>2, <2>3 DEF BeginOp, CommitIsExclusive
  <1>6. ASSUME NEW p \in Procs, NEW l \in {"user", "begin", "sync"}, pc[p] \in {"user", "begin", "sync"},
               pc' = [pc EXCEPT ![p] = l], UNCHANGED <<outstanding, committing>>
        PROVE  CommitIsExclusive'
    <2>1. InOp' = InOp \ {p} /\ Committer' = Committer \ {p}
      BY <1>6, <1>t, Moves DEF CommitLabels
    <2>2. p \notin InOp /\ p \notin Committer
      BY <1>6 DEF InOp, Committer
    <2>3. InOp' = InOp /\ Committer' = Committer
      BY <2>1, <2>2
    <2> QED BY <1>t, <1>6, <2>3 DEF CommitIsExclusive
  <1>7. ASSUME NEW p \in Procs, BeginWait(p) PROVE CommitIsExclusive'
    BY <1>6, <1>7 DEF BeginWait, Beginning
  <1>8. ASSUME NEW p \in Procs, Sync(p) PROVE CommitIsExclusive'
    BY <1>6, <1>u, <1>8 DEF Sync, SyncWait, SyncAgain, SyncReturn, Goto, opVars
  <1>9. ASSUME NEW p \in Procs, End(p) PROVE CommitIsExclusive'
    <2>1. pc[p] = "op" /\ p \in InOp /\ ~committing /\ Committer = {}
      BY <1>9, OpRuns DEF End, EndOp, EndLastOp, Goto
    <2>2. IsFiniteSet(InOp) /\ Cardinality(InOp \ {p}) = Cardinality(InOp) - 1
      BY <2>1, <1>t, Counts, FS_RemoveElement
    <2>3. CASE EndOp(p)
      <3>1. InOp' = InOp \ {p} /\ Committer' = Committer \ {p}
        BY <2>3, <1>t, Moves DEF EndOp, Goto, CommitLabels
      <3> QED BY <1>t, <2>1, <2>2, <2>3, <3>1 DEF EndOp, CommitIsExclusive
    <2>4. CASE EndLastOp(p)
      <3>1. PICK l \in CommitLabels : pc' = [pc EXCEPT ![p] = l]
        BY <2>4 DEF EndLastOp, Goto, CommitLabels
      <3>2. InOp' = InOp \ {p} /\ Committer' = {p}
        BY <3>1, <2>1, <1>t, Moves DEF CommitLabels
      <3>3. Cardinality(InOp \ {p}) = 0
        BY <2>2, <2>4, <1>t DEF EndLastOp, CommitIsExclusive
      <3>4. InOp \ {p} = {}
        BY <3>3, <2>2, FS_EmptySet, FS_RemoveElement
      <3> QED BY <2>4, <3>2, <3>3, <3>4 DEF EndLastOp, CommitIsExclusive
    <2> QED BY <1>9, <2>3, <2>4 DEF End
  <1>10. ASSUME NEW p \in Procs, NEW l \in CommitLabels, pc[p] \in CommitLabels,
                pc' = [pc EXCEPT ![p] = l], UNCHANGED <<outstanding, committing>>
         PROVE  CommitIsExclusive'
    <2>1. InOp' = InOp \ {p} /\ Committer' = Committer \cup {p}
      BY <1>10, <1>t, Moves DEF CommitLabels
    <2>2. InOp = {} /\ Committer = {p}
      BY <1>10, CommitAlone
    <2> QED BY <1>t, <1>10, <2>1, <2>2 DEF CommitIsExclusive
  <1>11. ASSUME NEW p \in Procs, Commit(p) PROVE CommitIsExclusive'
    <2>1. CASE WriteLogOne(p) \/ InstallTrans(p)
      BY <1>u, <2>1 DEF WriteLogOne, InstallTrans, opVars
    <2>2. CASE WriteLogEnd(p) \/ WriteHead(p) \/ InstallEnd(p) \/ Erase(p)
      BY <1>10, <2>2 DEF WriteLogEnd, WriteHead, InstallEnd, Erase, Goto, CommitLabels
    <2>3. CASE FinishCommit(p)
      <3>1. InOp = {} /\ Committer = {p}
        BY <2>3, CommitAlone DEF FinishCommit, Goto, CommitLabels
      <3>2. InOp' = {} /\ Committer' = {}
        BY <2>3, <3>1, <1>t, Moves DEF FinishCommit, Goto, CommitLabels
      <3> QED BY <2>3, <1>t, <3>1, <3>2 DEF FinishCommit, CommitIsExclusive
    <2> QED BY <1>11, <2>1, <2>2, <2>3 DEF Commit
  <1> QED BY <1>1, <1>2, <1>3, <1>4, <1>5, <1>7, <1>8, <1>9, <1>11 DEF Next

\* Nothing runs before recovery is over.
LEMMA BootStep == ASSUME IInv, Next PROVE BootIsQuiet'
  <1>t. TypeOK /\ BootIsQuiet
    BY DEF IInv
  <1>1. CASE Crash
    BY <1>1 DEF Crash, AtBoot, BootIsQuiet
  <1>2. CASE Recover
    BY <1>2, <1>t DEF Recover, ReadHead, RecoverOne, RecoverAll, RecoverErase, InstallOne,
                      BootIsQuiet, opVars, syncVars
  <1>3. ASSUME NEW b \in Blocks, Recycle(b) PROVE BootIsQuiet'
    BY <1>3 DEF Recycle, BootIsQuiet
  <1>4. ASSUME NEW p \in Procs, BeginOp(p) \/ BeginWait(p) PROVE BootIsQuiet'
    BY <1>4 DEF BeginOp, BeginWait, Beginning, BootIsQuiet
  <1>5. ASSUME NEW p \in Procs, pc[p] # "user" \/ boot = "up", boot' = boot PROVE BootIsQuiet'
    BY <1>5, <1>t DEF BootIsQuiet
  <1>6. ASSUME NEW p \in Procs, End(p) \/ Sync(p) PROVE BootIsQuiet'
    BY <1>5, <1>6 DEF End, EndOp, EndLastOp, Sync, SyncWait, SyncAgain, SyncReturn, Goto
  <1>7. ASSUME NEW p \in Procs, Commit(p) PROVE BootIsQuiet'
    BY <1>5, <1>7 DEF Commit, WriteLogOne, WriteLogEnd, WriteHead, InstallTrans, InstallEnd,
                      Erase, FinishCommit, Goto
  <1>8. ASSUME NEW p \in Procs, NEW b \in Blocks, LogWrite(p, b) PROVE BootIsQuiet'
    BY <1>5, <1>8 DEF LogWrite, MayWrite
  <1> QED BY <1>1, <1>2, <1>3, <1>4, <1>6, <1>7, <1>8 DEF Next

-----------------------------------------------------------------------------
(* The log has room *)

\* An operation that ends or writes reserves no more than it did.
LEMMA ReservedShrinks ==
  ASSUME IInv, InOp' \subseteq InOp,
         \A q \in InOp' : Cardinality(wrote[q]) <= Cardinality(wrote'[q]),
         \A q \in InOp' : Cardinality(wrote'[q]) \in Nat
  PROVE  /\ Reserved' \subseteq Reserved
         /\ IsFiniteSet(Reserved') /\ Cardinality(Reserved') <= Cardinality(Reserved)
         /\ Cardinality(Reserved') \in Nat
  <1>1. ASSUME NEW r \in Reserved' PROVE r \in Reserved
    <2>1. /\ r \in InOp' \X (1 .. MAXOPBLOCKS)
          /\ r[2] > Cardinality(wrote'[r[1]])
      BY DEF Reserved
    <2>2. r[1] \in InOp' /\ r[2] \in 1 .. MAXOPBLOCKS /\ r \in InOp \X (1 .. MAXOPBLOCKS)
      BY <2>1
    <2>3. wrote[r[1]] \in SUBSET Blocks
      BY <2>2 DEF InOp, IInv, TypeOK
    <2>4. Cardinality(wrote[r[1]]) \in Nat
      BY <2>3, Counts DEF IInv
    <2>5. r[2] > Cardinality(wrote[r[1]])
      BY <2>1, <2>2, <2>4, LogAssumption
    <2> QED BY <2>2, <2>5 DEF Reserved
  <1>2. IsFiniteSet(Reserved') /\ Cardinality(Reserved') <= Cardinality(Reserved)
    BY <1>1, Counts, FS_Subset DEF IInv
  <1> QED BY <1>1, <1>2, FS_CardinalityType

\* Nothing is reserved while no operation runs.
LEMMA NoneReserved == ASSUME InOp' = {} PROVE Cardinality(Reserved') = 0
  <1>1. Reserved' = {}
    BY DEF Reserved
  <1> QED BY <1>1, FS_EmptySet

\* Every step leaves room for what the running operations may still write.
LEMMA RoomStep == ASSUME IInv, Next PROVE LogHasRoom'
  <1>t. TypeOK /\ LogHasRoom
    BY DEF IInv
  <1>z. OpBlocks \in Nat /\ Cardinality({}) = 0
    BY FS_EmptySet, LogAssumption
  <1>u. ASSUME UNCHANGED <<lh, pc, wrote>> PROVE LogHasRoom'
    <2>1. Reserved' = Reserved /\ Logged' = Logged
      BY <1>u DEF Reserved, InOp, Logged
    <2> QED BY <1>t, <1>u, <2>1 DEF LogHasRoom
  <1>m. ASSUME NEW p \in Procs, NEW l \in Labels \ {"op"}, pc[p] # "op",
               pc' = [pc EXCEPT ![p] = l], UNCHANGED <<lh, wrote>>
        PROVE  LogHasRoom'
    <2>1. InOp' = InOp /\ \A q \in Procs : pc'[q] = "op" <=> pc[q] = "op"
      BY <1>m, <1>t, Moves DEF InOp
    <2>2. Reserved' = Reserved /\ Logged' = Logged
      BY <1>m, <2>1 DEF Reserved, Logged
    <2> QED BY <1>t, <1>m, <2>1, <2>2 DEF LogHasRoom
  <1>e. ASSUME \A q \in Procs : wrote'[q] = {}, InOp' = {}, lh' \in Headers PROVE LogHasRoom'
    <2>1. Len(lh') \in Nat /\ Len(lh') <= LOGBLOCKS
      BY <1>e, HeaderIsSeq
    <2>2. Cardinality(Reserved') = 0
      BY <1>e, NoneReserved
    <2>3. Len(lh') + Cardinality(Reserved') <= LOGBLOCKS
      BY <2>1, <2>2
    <2>4. \A q \in Procs : Cardinality(wrote'[q]) <= OpBlocks
      BY <1>e, <1>z
    <2> QED BY <1>e, <2>3, <2>4 DEF LogHasRoom
  <1>n. InOp = {} /\ wrote' = wrote => \A q \in Procs : wrote'[q] = {}
    BY <1>t DEF LogHasRoom, InOp
  <1>1. CASE Crash
    <2>1. lh' \in Headers /\ InOp' = {} /\ \A q \in Procs : wrote'[q] = {}
      BY <1>1, EmptyHeader DEF Crash, AtBoot, InOp
    <2> QED BY <2>1, <1>e
  <1>2. CASE Recover
    <2>1. InOp = {} /\ pc' = pc /\ wrote' = wrote
      BY <1>2 DEF Recover, ReadHead, RecoverOne, RecoverAll, RecoverErase, opVars, InOp,
                  IInv, BootIsQuiet
    <2>2. InOp' = {}
      BY <2>1 DEF InOp
    <2>3. lh' \in Headers
      BY <1>2, <1>t, EmptyHeader DEF Recover, ReadHead, RecoverOne, RecoverAll, RecoverErase, TypeOK
    <2> QED BY <1>e, <1>n, <2>1, <2>2, <2>3
  <1>3. ASSUME NEW b \in Blocks, Recycle(b) PROVE LogHasRoom'
    BY <1>u, <1>3 DEF Recycle, opVars
  <1>4. ASSUME NEW p \in Procs, BeginOp(p) PROVE LogHasRoom'
    <2>1. /\ pc' = [pc EXCEPT ![p] = "op"] /\ pc[p] \in {"user", "begin"}
          /\ lh' = lh /\ wrote' = wrote
      BY <1>4 DEF BeginOp, Beginning
    <2>2. InOp' = InOp \cup {p} /\ p \notin InOp /\ pc'[p] = "op"
          /\ \A q \in Procs : q # p => pc'[q] = pc[q]
      BY <2>1, <1>t, Moves DEF InOp
    <2>3. IsFiniteSet(InOp') /\ Cardinality(InOp') = outstanding + 1
      BY <2>2, <1>t, Counts, FS_AddElement DEF IInv, CommitIsExclusive
    <2>4. IsFiniteSet(1 .. MAXOPBLOCKS) /\ Cardinality(1 .. MAXOPBLOCKS) = MAXOPBLOCKS
      BY FS_Interval, LogAssumption
    <2>5. IsFiniteSet(InOp' \X (1 .. MAXOPBLOCKS))
          /\ Cardinality(InOp' \X (1 .. MAXOPBLOCKS)) = (outstanding + 1) * MAXOPBLOCKS
      BY <2>3, <2>4, FS_Product, ZenonT(30)
    <2>6. Reserved' \in SUBSET (InOp' \X (1 .. MAXOPBLOCKS))
      BY DEF Reserved
    <2>7. Cardinality(Reserved') <= (outstanding + 1) * MAXOPBLOCKS /\ Cardinality(Reserved') \in Nat
      BY <2>5, <2>6, FS_Subset, FS_CardinalityType
    <2>8. Len(lh) + (outstanding + 1) * MAXOPBLOCKS <= LOGBLOCKS
      BY <1>4 DEF BeginOp, CanBegin
    <2>9. Len(lh) \in Nat /\ (outstanding + 1) * MAXOPBLOCKS \in Nat
      BY <1>t, LogSlots, <2>5, FS_CardinalityType
    <2>10. Len(lh') + Cardinality(Reserved') <= LOGBLOCKS
      BY <2>1, <2>7, <2>8, <2>9, LogAssumption
    <2>11. Logged' = Logged
      BY <2>1 DEF Logged
    <2>12. \A q \in Procs : wrote'[q] \subseteq IF pc'[q] = "op" THEN Logged' ELSE {}
      BY <1>t, <2>1, <2>2, <2>11 DEF LogHasRoom
    <2> QED BY <1>t, <2>1, <2>10, <2>12 DEF LogHasRoom
  <1>5. ASSUME NEW p \in Procs, BeginWait(p) \/ Sync(p) PROVE LogHasRoom'
    BY <1>5, <1>m, <1>u DEF BeginWait, Beginning, Sync, SyncWait, SyncAgain, SyncReturn, Goto,
                            Labels, opVars
  <1>6. ASSUME NEW p \in Procs, End(p) PROVE LogHasRoom'
    <2>1. PICK l \in Labels \ {"op"} : pc' = [pc EXCEPT ![p] = l]
      BY <1>6 DEF End, EndOp, EndLastOp, Goto, Labels
    <2>2. lh' = lh /\ wrote' = [wrote EXCEPT ![p] = {}] /\ pc[p] = "op"
      BY <1>6 DEF End, EndOp, EndLastOp, Goto
    <2>3. InOp' = InOp \ {p} /\ pc'[p] = l /\ \A q \in Procs : q # p => pc'[q] = pc[q]
      BY <2>1, <1>t, Moves
    <2>4. wrote'[p] = {} /\ \A q \in Procs : q # p => wrote'[q] = wrote[q]
      BY <2>2, <1>t DEF TypeOK
    <2>5. \A q \in Procs : wrote[q] \in SUBSET Blocks /\ Cardinality(wrote[q]) \in Nat
      BY <1>t, Counts DEF TypeOK
    <2>6. \A q \in InOp' : q \in Procs /\ wrote'[q] = wrote[q] /\ Cardinality(wrote[q]) \in Nat
      BY <2>3, <2>4, <2>5 DEF InOp
    <2>7. Cardinality(Reserved') <= Cardinality(Reserved) /\ Cardinality(Reserved') \in Nat
      BY <2>3, <2>6, ReservedShrinks
    <2>8. Len(lh) \in Nat /\ Cardinality(Reserved) \in Nat
      BY <1>t, LogSlots, Counts
    <2>9. Len(lh') + Cardinality(Reserved') <= LOGBLOCKS
      BY <1>t, <2>2, <2>7, <2>8, LogAssumption DEF LogHasRoom
    <2>10. Logged' = Logged
      BY <2>2 DEF Logged
    <2>11. \A q \in Procs : /\ wrote'[q] \subseteq IF pc'[q] = "op" THEN Logged' ELSE {}
                            /\ Cardinality(wrote'[q]) <= OpBlocks
      <3>1. ASSUME NEW q \in Procs, q # p
            PROVE  /\ wrote'[q] \subseteq IF pc'[q] = "op" THEN Logged' ELSE {}
                   /\ Cardinality(wrote'[q]) <= OpBlocks
        BY <1>t, <3>1, <2>3, <2>4, <2>10 DEF LogHasRoom
      <3>2. wrote'[p] = {} /\ Cardinality(wrote'[p]) <= OpBlocks
        BY <1>z, <2>4
      <3> QED BY <3>1, <3>2
    <2> QED BY <2>9, <2>11 DEF LogHasRoom
  <1>7. ASSUME NEW p \in Procs, Commit(p) PROVE LogHasRoom'
    <2>1. CASE InstallEnd(p)
      <3>1. InOp = {} /\ wrote' = wrote /\ lh' \in Headers
        BY <2>1, CommitAlone, EmptyHeader DEF InstallEnd, Goto, CommitLabels
      <3>2. InOp' = {}
        BY <2>1, <3>1, <1>t, Moves DEF InstallEnd, Goto
      <3> QED BY <1>e, <1>n, <3>1, <3>2
    <2>2. CASE WriteLogOne(p) \/ InstallTrans(p)
      BY <2>2, <1>u DEF WriteLogOne, InstallTrans, opVars
    <2>3. CASE WriteLogEnd(p) \/ WriteHead(p) \/ Erase(p) \/ FinishCommit(p)
      BY <2>3, <1>m DEF WriteLogEnd, WriteHead, Erase, FinishCommit, Goto, Labels
    <2> QED BY <1>7, <2>1, <2>2, <2>3 DEF Commit
  <1>8. ASSUME NEW p \in Procs, NEW b \in Blocks, LogWrite(p, b) PROVE LogHasRoom'
    <2>1. /\ MayWrite(p, b) /\ pc' = pc /\ pc[p] = "op" /\ p \in InOp
          /\ wrote' = [wrote EXCEPT ![p] = @ \cup {b}]
      BY <1>8 DEF LogWrite, MayWrite, InOp
    <2>2. InOp' = InOp
      BY <2>1 DEF InOp
    <2>3. wrote'[p] = wrote[p] \cup {b} /\ \A q \in Procs : q # p => wrote'[q] = wrote[q]
      BY <2>1, <1>t DEF TypeOK
    <2>4. \A q \in Procs : wrote'[q] \in SUBSET Blocks /\ wrote[q] \in SUBSET Blocks
      BY <2>3, <1>t DEF TypeOK
    <2>5. \A q \in Procs : IsFiniteSet(wrote[q]) /\ Cardinality(wrote[q]) \in Nat
                           /\ Cardinality(wrote'[q]) \in Nat
      BY <2>4, <1>t, Counts
    <2>6. Cardinality(wrote'[p]) =
            IF b \in wrote[p] THEN Cardinality(wrote[p]) ELSE Cardinality(wrote[p]) + 1
      BY <2>3, <2>5, FS_AddElement
    <2>7. \A q \in InOp' : Cardinality(wrote[q]) <= Cardinality(wrote'[q])
                           /\ Cardinality(wrote'[q]) \in Nat
      <3>1. Cardinality(wrote[p]) <= Cardinality(wrote'[p])
        BY <2>5, <2>6
      <3>2. \A q \in Procs : q # p => wrote[q] = wrote'[q] /\ Cardinality(wrote[q]) <= Cardinality(wrote[q])
        BY <2>3, <2>5
      <3>3. InOp' \subseteq Procs
        BY <2>2 DEF InOp
      <3>4. \A q \in Procs : Cardinality(wrote[q]) <= Cardinality(wrote'[q])
        BY <3>1, <3>2
      <3> QED BY <3>3, <3>4, <2>5
    <2>8. /\ Reserved' \subseteq Reserved
          /\ Cardinality(Reserved') <= Cardinality(Reserved) /\ Cardinality(Reserved') \in Nat
      BY <2>2, <2>7, ReservedShrinks
    <2>9. Len(lh) \in Nat /\ Cardinality(Reserved) \in Nat /\ IsFiniteSet(Reserved)
          /\ Len(lh) + Cardinality(Reserved) <= LOGBLOCKS
      BY <1>t, LogSlots, Counts DEF LogHasRoom
    <2>10. Cardinality(wrote'[p]) <= OpBlocks
      BY <2>1, <2>3 DEF MayWrite
    <2>11. /\ Logged' = Logged \cup {b}
           /\ Len(lh') + Cardinality(Reserved') <= LOGBLOCKS
      <3>1. CASE b \in Logged
        <4>1. lh' = lh
          BY <1>8, <3>1 DEF LogWrite
        <4> QED BY <4>1, <3>1, <2>8, <2>9, LogAssumption DEF Logged
      <3>2. CASE b \notin Logged
        <4>1. lh' = Append(lh, b) /\ lh \in Seq(Blocks)
          BY <1>8, <3>2, <1>t, LogSlots DEF LogWrite
        <4>2. Len(lh') = Len(lh) + 1 /\ Logged' = Logged \cup {b}
          BY <4>1 DEF Logged
        <4>3. b \notin wrote[p]
          BY <3>2, <2>1, <1>t DEF LogHasRoom
        <4> DEFINE r == <<p, Cardinality(wrote[p]) + 1>>
        <4>4. r \in Reserved
          BY <2>1, RoomLeft
        <4>5. r \notin Reserved'
          BY <4>3, <2>5, <2>6 DEF Reserved
        <4> HIDE DEF r
        <4>6. Reserved' \in SUBSET (Reserved \ {r}) /\ IsFiniteSet(Reserved \ {r})
              /\ Cardinality(Reserved \ {r}) = Cardinality(Reserved) - 1
          BY <4>4, <4>5, <2>8, <2>9, FS_RemoveElement
        <4>7. Cardinality(Reserved') <= Cardinality(Reserved) - 1
          BY <4>6, FS_Subset
        <4> QED BY <4>2, <4>7, <2>8, <2>9, LogAssumption
      <3> QED BY <3>1, <3>2
    <2>12. \A q \in Procs : /\ wrote'[q] \subseteq IF pc'[q] = "op" THEN Logged' ELSE {}
                            /\ Cardinality(wrote'[q]) <= OpBlocks
      <3>1. wrote'[p] \subseteq Logged' /\ pc'[p] = "op"
        BY <2>1, <2>3, <2>11, <1>t DEF LogHasRoom
      <3>2. ASSUME NEW q \in Procs, q # p
            PROVE  /\ wrote'[q] \subseteq IF pc'[q] = "op" THEN Logged' ELSE {}
                   /\ Cardinality(wrote'[q]) <= OpBlocks
        BY <3>2, <2>1, <2>3, <2>11, <1>t DEF LogHasRoom
      <3> QED BY <3>1, <3>2, <2>10
    <2> QED BY <2>11, <2>12 DEF LogHasRoom
  <1> QED BY <1>1, <1>2, <1>3, <1>4, <1>5, <1>6, <1>7, <1>8 DEF Next

-----------------------------------------------------------------------------
(* The log's header lists no block twice, and pins what it lists *)

\* A move of p between two labels does not change who is at a third one.
LEMMA AtMoves ==
  ASSUME TypeOK, NEW p \in Procs, NEW l, NEW m, pc' = [pc EXCEPT ![p] = l], pc[p] # m, l # m
  PROVE  At(m)' <=> At(m)
  BY Moves DEF At

\* What Append() does to the header.
LEMMA LogAppend ==
  ASSUME TypeOK, NEW b \in Blocks, lh' = Append(lh, b)
  PROVE  /\ DOMAIN lh' = 1 .. Len(lh) + 1 /\ Len(lh') = Len(lh) + 1
         /\ lh'[Len(lh) + 1] = b
         /\ \A i \in DOMAIN lh : i \in DOMAIN lh' /\ lh'[i] = lh[i]
  BY LogSlots

\* The two headers stay free of duplicates.
LEMMA InjectiveStep == ASSUME IInv, Next PROVE Injective(lh)' /\ Injective(head)'
  <1>t. TypeOK /\ Injective(lh) /\ Injective(head)
    BY DEF IInv
  <1>u. ASSUME lh' \in {lh, head, <<>>}, head' \in {head, lh} PROVE Injective(lh)' /\ Injective(head)'
    BY <1>t, <1>u, EmptyHeader DEF Injective
  <1>1. CASE Crash
    BY <1>1, <1>u DEF Crash, AtBoot, diskVars
  <1>2. CASE Recover
    BY <1>2, <1>u DEF Recover, ReadHead, RecoverOne, RecoverAll, RecoverErase, InstallOne, diskVars
  <1>3. ASSUME NEW b \in Blocks, Recycle(b) PROVE Injective(lh)' /\ Injective(head)'
    BY <1>u, <1>3 DEF Recycle, diskVars
  <1>4. ASSUME NEW p \in Procs, BeginOp(p) \/ BeginWait(p) \/ End(p) \/ Sync(p)
        PROVE  Injective(lh)' /\ Injective(head)'
    BY <1>u, <1>4 DEF BeginOp, BeginWait, End, EndOp, EndLastOp, Sync, SyncWait, SyncAgain,
                      SyncReturn, diskVars
  <1>5. ASSUME NEW p \in Procs, Commit(p) PROVE Injective(lh)' /\ Injective(head)'
    BY <1>u, <1>5 DEF Commit, WriteLogOne, WriteLogEnd, WriteHead, InstallTrans, InstallOne,
                      InstallEnd, Erase, FinishCommit, diskVars
  <1>6. ASSUME NEW p \in Procs, NEW b \in Blocks, LogWrite(p, b)
        PROVE  Injective(lh)' /\ Injective(head)'
    <2>1. head' = head
      BY <1>6 DEF LogWrite, diskVars
    <2>2. CASE b \in Logged
      BY <1>6, <1>u, <2>1, <2>2 DEF LogWrite
    <2>3. CASE b \notin Logged
      <3>1. lh' = Append(lh, b)
        BY <1>6, <2>3 DEF LogWrite
      <3>2. ASSUME NEW i \in DOMAIN lh', NEW j \in DOMAIN lh', lh'[i] = lh'[j] PROVE i = j
        <4>1. (i \in DOMAIN lh \/ i = Len(lh) + 1) /\ (j \in DOMAIN lh \/ j = Len(lh) + 1)
          BY <3>1, <1>t, LogAppend, LogSlots
        <4>2. \A k \in DOMAIN lh : lh[k] # b
          BY <2>3 DEF Logged
        <4> QED BY <3>1, <3>2, <4>1, <4>2, <1>t, LogAppend DEF Injective
      <3> QED BY <3>2, <2>1, <1>t DEF Injective
    <2> QED BY <2>2, <2>3
  <1> QED BY <1>1, <1>2, <1>3, <1>4, <1>5, <1>6 DEF Next

\* Every step keeps a logged block pinned until it is installed, and a buffer
\* that is not pinned clean.
LEMMA PinStep == ASSUME IInv, Next PROVE PinnedUntilInstalled'
  <1>t. TypeOK /\ PinnedUntilInstalled /\ Injective(lh)
    BY DEF IInv
  <1>u. ASSUME Pending' = Pending, UNCHANGED <<lh, pin, cache, home>> PROVE PinnedUntilInstalled'
    BY <1>t, <1>u DEF PinnedUntilInstalled
  <1>v. ASSUME At("install")' <=> At("install"), UNCHANGED <<lh, pin, cache, home, boot, tail>>
        PROVE  PinnedUntilInstalled'
    <2>1. Pending' = Pending
      BY <1>v DEF Pending
    <2> QED BY <2>1, <1>v, <1>u
  <1>m. ASSUME NEW p \in Procs, NEW l \in Labels \ {"install"}, pc[p] # "install",
               pc' = [pc EXCEPT ![p] = l], UNCHANGED <<lh, pin, cache, home, boot, tail>>
        PROVE  PinnedUntilInstalled'
    <2>1. At("install")' <=> At("install")
      BY <1>m, <1>t, AtMoves
    <2> QED BY <2>1, <1>m, <1>v
  <1>n. ASSUME Pending' = {}, \A b \in Blocks : pin'[b] = 0 /\ cache'[b] \in {NotCached, home'[b]}
        PROVE  PinnedUntilInstalled'
    BY <1>n DEF PinnedUntilInstalled
  <1>o. Pending = {} => \A b \in Blocks : pin[b] = 0 /\ cache[b] \in {NotCached, home[b]}
    BY <1>t DEF PinnedUntilInstalled, TypeOK
  <1>1. CASE Crash
    <2>1. Pending' = {}
      BY <1>1 DEF Crash, AtBoot, Pending
    <2> QED BY <2>1, <1>1, <1>n DEF Crash, AtBoot
  <1>2. CASE Recover
    <2>1. boot # "up" /\ Pending = {} /\ pin' = pin
      BY <1>2 DEF Recover, ReadHead, RecoverOne, RecoverAll, RecoverErase, Pending
    <2>2. Pending' = {}
      <3>1. CASE RecoverErase
        BY <3>1, EmptyHeader DEF RecoverErase, Pending, IInv, RecoveryPhases
      <3>2. CASE ~RecoverErase
        <4>1. boot' # "up"
          BY <2>1, <3>2, <1>2 DEF Recover, ReadHead, RecoverOne, RecoverAll
        <4> QED BY <4>1 DEF Pending
      <3> QED BY <3>1, <3>2
    <2>3. CASE RecoverOne
      <3>1. /\ home' = [home EXCEPT ![lh[tail + 1]] = logArea[tail + 1]]
            /\ cache' = [cache EXCEPT ![lh[tail + 1]] = logArea[tail + 1]]
            /\ tail < Len(lh)
        BY <2>3 DEF RecoverOne, InstallOne
      <3>2. \A b \in Blocks : cache'[b] \in {NotCached, home'[b]}
        BY <3>1, <2>1, <1>o, <1>t DEF TypeOK
      <3> QED BY <3>2, <2>1, <2>2, <1>o, <1>n
    <2>4. CASE ~RecoverOne
      <3>1. UNCHANGED <<home, cache>>
        BY <2>4, <1>2 DEF Recover, ReadHead, RecoverAll, RecoverErase, diskVars
      <3> QED BY <3>1, <2>1, <2>2, <1>o, <1>n
    <2> QED BY <2>3, <2>4
  <1>3. ASSUME NEW b \in Blocks, Recycle(b) PROVE PinnedUntilInstalled'
    <2>1. /\ UNCHANGED <<lh, pin, home>> /\ pin[b] = 0
          /\ cache' = [cache EXCEPT ![b] = NotCached]
      BY <1>3 DEF Recycle, diskVars
    <2>2. Pending' = Pending
      BY <1>3 DEF Recycle, opVars, Pending, At
    <2>3. cache'[b] = NotCached /\ \A c \in Blocks : c # b => cache'[c] = cache[c]
      BY <2>1, <1>t DEF TypeOK
    <2> QED BY <2>1, <2>2, <2>3, <1>t DEF PinnedUntilInstalled
  <1>4. ASSUME NEW p \in Procs, BeginOp(p) \/ BeginWait(p) \/ End(p) \/ SyncWait(p) \/ SyncReturn(p)
        PROVE  PinnedUntilInstalled'
    BY <1>m, <1>4 DEF BeginOp, BeginWait, Beginning, End, EndOp, EndLastOp, SyncWait,
                      SyncReturn, Goto, diskVars, Labels
  <1>5. ASSUME NEW p \in Procs, SyncAgain(p) PROVE PinnedUntilInstalled'
    BY <1>v, <1>5 DEF SyncAgain, opVars, diskVars, At
  <1>6. ASSUME NEW p \in Procs, NEW b \in Blocks, LogWrite(p, b) PROVE PinnedUntilInstalled'
    <2>1. /\ MayWrite(p, b) /\ pc[p] = "op" /\ UNCHANGED <<home, pc, boot, tail>>
          /\ cache' = [cache EXCEPT ![b] = Buffered(b) + 1]
      BY <1>6 DEF LogWrite, MayWrite, diskVars
    <2>2. boot = "up" /\ ~At("install") /\ ~At("install")'
      BY <2>1, OpRuns DEF CommitLabels, At
    <2>3. Pending = DOMAIN lh /\ Pending' = DOMAIN lh'
      BY <2>1, <2>2 DEF Pending
    <2>4. cache'[b] # NotCached /\ \A c \in Blocks : c # b => cache'[c] = cache[c]
      <3>1. Buffered(b) + 1 \in Nat
        BY <1>t, BufferedType, LogAssumption DEF Versions
      <3> QED BY <3>1, <2>1, <1>t, LogAssumption DEF TypeOK
    <2>5. /\ pin'[b] = 1 /\ \A c \in Blocks : c # b => pin'[c] = pin[c]
          /\ \A c \in Blocks : (\E i \in DOMAIN lh' : lh'[i] = c)
                                  <=> c = b \/ \E i \in DOMAIN lh : lh[i] = c
      <3>1. CASE b \in Logged
        <4>1. lh' = lh /\ pin' = pin /\ \E i \in DOMAIN lh : lh[i] = b
          BY <1>6, <3>1 DEF LogWrite, Logged
        <4>2. pin[b] = 1
          BY <4>1, <2>3, <1>t DEF PinnedUntilInstalled
        <4> QED BY <4>1, <4>2
      <3>2. CASE b \notin Logged
        <4>1. /\ lh' = Append(lh, b) /\ pin' = [pin EXCEPT ![b] = @ + 1]
              /\ ~ \E i \in DOMAIN lh : lh[i] = b
          BY <1>6, <3>2 DEF LogWrite, Logged
        <4>2. pin[b] = 0
          BY <4>1, <2>3, <1>t DEF PinnedUntilInstalled, TypeOK
        <4>3. pin'[b] = 1 /\ \A c \in Blocks : c # b => pin'[c] = pin[c]
          BY <4>1, <4>2, <1>t DEF TypeOK
        <4>4. DOMAIN lh' = DOMAIN lh \cup {Len(lh) + 1}
          BY <4>1, <1>t, LogAppend, LogSlots
        <4> QED BY <4>1, <4>3, <4>4, <1>t, LogAppend
      <3> QED BY <3>1, <3>2
    <2> QED BY <2>1, <2>3, <2>4, <2>5, <1>t DEF PinnedUntilInstalled
  <1>7. ASSUME NEW p \in Procs, Commit(p) PROVE PinnedUntilInstalled'
    <2>a. /\ boot = "up" /\ (At("install") <=> pc[p] = "install")
          /\ pc[p] = "install" => tail <= Len(lh)
          /\ pc[p] = "write_head" => tail = 0
      <3>1. pc[p] \in CommitLabels
        BY <1>7 DEF Commit, WriteLogOne, WriteLogEnd, WriteHead, InstallTrans, InstallEnd,
                    Erase, FinishCommit, Goto, CommitLabels
      <3> QED BY <3>1, CommitAlone DEF IInv, CommitPhases, CommitLabels
    <2>1. CASE WriteLogOne(p)
      <3>1. UNCHANGED <<lh, pin, cache, home, boot, pc>> /\ pc[p] = "write_log"
        BY <2>1 DEF WriteLogOne, opVars
      <3>2. Pending' = Pending
        BY <3>1, <2>a DEF Pending, At
      <3> QED BY <3>1, <3>2, <1>u
    <2>2. CASE WriteLogEnd(p)
      <3>1. UNCHANGED <<lh, pin, cache, home, boot>> /\ pc[p] = "write_log"
            /\ pc' = [pc EXCEPT ![p] = "write_head"]
        BY <2>2 DEF WriteLogEnd, Goto, diskVars
      <3>2. At("install")' <=> At("install")
        BY <3>1, <1>t, AtMoves
      <3>3. Pending' = Pending
        BY <3>1, <3>2, <2>a DEF Pending
      <3> QED BY <3>1, <3>3, <1>u
    <2>3. CASE WriteHead(p)
      <3>1. UNCHANGED <<lh, pin, cache, home, boot, tail>> /\ pc[p] = "write_head"
        BY <2>3 DEF WriteHead, Goto
      <3>2. \A i \in DOMAIN lh : i > tail
        BY <3>1, <2>a, <1>t, LogSlots
      <3>3. Pending' = Pending
        BY <3>1, <3>2, <2>a DEF Pending
      <3> QED BY <3>1, <3>3, <1>u
    <2>4. CASE InstallTrans(p)
      <3>1. /\ pc[p] = "install" /\ tail < Len(lh) /\ tail' = tail + 1
            /\ home' = [home EXCEPT ![lh[tail + 1]] = logArea[tail + 1]]
            /\ cache' = [cache EXCEPT ![lh[tail + 1]] = logArea[tail + 1]]
            /\ pin' = [pin EXCEPT ![lh[tail + 1]] = @ - 1]
            /\ UNCHANGED <<lh, pc, boot>>
        BY <2>4 DEF InstallTrans, InstallOne, opVars
      <3> DEFINE c == lh[tail + 1]
      <3>2. c \in Blocks /\ pin[c] = 1 /\ tail + 1 \in DOMAIN lh /\ tail \in Nat
        BY <3>1, <1>t, NextSlot, NextSlotPinned, LogAssumption DEF TypeOK
      <3>3. At("install") /\ At("install")'
        BY <3>1, NextSlotPinned DEF At
      <3>4. Pending' = Pending \ {tail + 1}
        BY <3>1, <3>2, <3>3, <2>a, <1>t, LogSlots DEF Pending
      <3>5. Pending \subseteq DOMAIN lh
        BY DEF Pending
      <3>6. /\ home'[c] = logArea[tail + 1] /\ cache'[c] = logArea[tail + 1] /\ pin'[c] = 0
            /\ \A b \in Blocks : b # c => home'[b] = home[b] /\ cache'[b] = cache[b] /\ pin'[b] = pin[b]
        BY <3>1, <3>2, <1>t DEF TypeOK
      <3>7. \A i \in Pending' : lh[i] # c
        BY <3>2, <3>4, <3>5, <1>t DEF Injective
      <3> HIDE DEF c
      <3>8. ASSUME NEW b \in Blocks, b # c
            PROVE  (\E i \in Pending' : lh'[i] = b) <=> (\E i \in Pending : lh[i] = b)
        BY <3>1, <3>4, <3>8 DEF c
      <3> QED BY <3>1, <3>2, <3>6, <3>7, <3>8, <1>t DEF PinnedUntilInstalled
    <2>5. CASE InstallEnd(p)
      <3>1. UNCHANGED <<pin, cache, home>> /\ lh' = <<>> /\ pc[p] = "install" /\ tail = Len(lh)
        BY <2>5 DEF InstallEnd, Goto, diskVars
      <3>2. Pending = {}
        BY <3>1, <2>a, <1>t, LogSlots DEF Pending
      <3>3. Pending' = {}
        BY <3>1, EmptyHeader DEF Pending
      <3> QED BY <3>1, <3>2, <3>3, <1>o, <1>n
    <2>6. CASE Erase(p) \/ FinishCommit(p)
      BY <2>6, <1>m DEF Erase, FinishCommit, Goto, diskVars, Labels
    <2> QED BY <1>7, <2>1, <2>2, <2>3, <2>4, <2>5, <2>6 DEF Commit
  <1> QED BY <1>1, <1>2, <1>3, <1>4, <1>5, <1>6, <1>7 DEF Next, Sync

-----------------------------------------------------------------------------
(* The disk follows memory, step by step *)

\* A step of commit() by p: where p is, and that it is alone.
LEMMA CommitterAt ==
  ASSUME IInv, NEW p \in Procs, Commit(p)
  PROVE  /\ pc[p] \in CommitLabels /\ boot = "up" /\ InOp = {} /\ Committer = {p}
         /\ \A l \in CommitLabels : At(l) <=> pc[p] = l
  <1>1. pc[p] \in CommitLabels
    BY DEF Commit, WriteLogOne, WriteLogEnd, WriteHead, InstallTrans, InstallEnd,
           Erase, FinishCommit, Goto, CommitLabels
  <1> QED BY <1>1, CommitAlone

\* What a process that installs finds.
LEMMA Installing ==
  ASSUME IInv, NEW p \in Procs, pc[p] = "install"
  PROVE  /\ boot = "up" /\ lh = head /\ tail \in Nat /\ tail <= Len(lh)
         /\ Copied(Len(lh)) /\ Installed(lh, tail)
  BY CommitAlone, LogAssumption DEF IInv, TypeOK, CommitPhases, CommitLabels

\* Only log_write() changes what bread() returns.
LEMMA BufferedKept ==
  ASSUME IInv, Next, boot = "up", boot' = "up",
         ~ \E p \in Procs, b \in Blocks : LogWrite(p, b), NEW c \in Blocks
  PROVE  Buffered(c)' = Buffered(c)
  <1>t. TypeOK
    BY DEF IInv
  <1>u. ASSUME UNCHANGED <<home, cache>> PROVE Buffered(c)' = Buffered(c)
    BY <1>u DEF Buffered
  <1>1. CASE Crash \/ Recover
    <2>1. FALSE
      BY <1>1 DEF Crash, AtBoot, Recover, ReadHead, RecoverOne, RecoverAll, RecoverErase
    <2> QED BY <2>1
  <1>2. ASSUME NEW b \in Blocks, Recycle(b) PROVE Buffered(c)' = Buffered(c)
    <2>1. /\ home' = home /\ cache' = [cache EXCEPT ![b] = NotCached]
          /\ pin[b] = 0 /\ cache[b] # NotCached
      BY <1>2 DEF Recycle, diskVars
    <2>2. cache[b] = home[b]
      BY <2>1 DEF IInv, PinnedUntilInstalled
    <2> QED BY <2>1, <2>2, <1>t DEF Buffered, TypeOK
  <1>3. ASSUME NEW p \in Procs, BeginOp(p) \/ BeginWait(p) \/ End(p) \/ Sync(p)
        PROVE  Buffered(c)' = Buffered(c)
    BY <1>u, <1>3 DEF BeginOp, BeginWait, End, EndOp, EndLastOp, Sync, SyncWait, SyncAgain,
                      SyncReturn, diskVars
  <1>4. ASSUME NEW p \in Procs, Commit(p) PROVE Buffered(c)' = Buffered(c)
    <2>1. CASE InstallTrans(p)
      <3>1. /\ pc[p] = "install" /\ tail < Len(lh)
            /\ home' = [home EXCEPT ![lh[tail + 1]] = logArea[tail + 1]]
            /\ cache' = [cache EXCEPT ![lh[tail + 1]] = logArea[tail + 1]]
        BY <2>1 DEF InstallTrans, InstallOne
      <3>2. lh[tail + 1] \in Blocks /\ tail + 1 \in 1 .. Len(lh)
        BY <3>1, <1>t, NextSlot, LogSlots
      <3>3. logArea[tail + 1] = Buffered(lh[tail + 1])
        BY <3>1, <3>2, Installing DEF Copied
      <3>4. logArea[tail + 1] # NotCached
        BY <3>1, <1>t, NextSlot, LogAssumption DEF Versions
      <3> DEFINE b == lh[tail + 1]
      <3>5. /\ cache'[b] = logArea[tail + 1] /\ home'[b] = logArea[tail + 1]
            /\ c # b => cache'[c] = cache[c] /\ home'[c] = home[c]
        BY <3>1, <3>2, <1>t DEF TypeOK
      <3> HIDE DEF b
      <3>6. CASE c = b
        BY <3>3, <3>4, <3>5, <3>6 DEF Buffered, b
      <3>7. CASE c # b
        BY <3>5, <3>7 DEF Buffered
      <3> QED BY <3>6, <3>7
    <2>2. CASE ~InstallTrans(p)
      BY <1>u, <1>4, <2>2 DEF Commit, WriteLogOne, WriteLogEnd, WriteHead, InstallEnd, Erase,
                              FinishCommit, diskVars
    <2> QED BY <2>1, <2>2
  <1> QED BY <1>1, <1>2, <1>3, <1>4 DEF Next

\* Each step of recovery leaves the disk as the next one needs it.
LEMMA RecoveryStep == ASSUME IInv, Next PROVE RecoveryPhases'
  <1>t. TypeOK /\ RecoveryPhases /\ Injective(lh)
    BY DEF IInv
  <1>1. CASE Crash
    BY <1>1 DEF Crash, AtBoot, RecoveryPhases
  <1>2. CASE ReadHead
    <2>1. /\ lh' = head /\ head' = head /\ tail' = 0 /\ boot' = "install"
          /\ Len(head) \in Nat
      BY <1>2, <1>t, HeadSlots DEF ReadHead, RecoveryPhases, diskVars
    <2> QED BY <2>1 DEF RecoveryPhases, Installed
  <1>3. CASE RecoverOne
    <2>1. /\ tail < Len(lh) /\ tail' = tail + 1 /\ UNCHANGED <<lh, head, logArea, boot>>
          /\ home' = [home EXCEPT ![lh[tail + 1]] = logArea[tail + 1]]
          /\ boot = "install"
      BY <1>3 DEF RecoverOne, InstallOne
    <2>2. /\ tail \in Nat /\ Len(lh) \in Nat /\ DOMAIN lh = 1 .. Len(lh)
          /\ \A i \in DOMAIN lh : lh[i] \in Blocks
      BY <1>t, LogSlots, LogAssumption DEF TypeOK
    <2>3. ASSUME NEW i \in 1 .. tail + 1 PROVE home'[lh[i]] = logArea[i]
      <3>1. i \in DOMAIN lh /\ tail + 1 \in DOMAIN lh /\ lh[i] \in Blocks
        BY <2>1, <2>2
      <3>2. i # tail + 1 => lh[i] # lh[tail + 1] /\ home[lh[i]] = logArea[i]
        BY <3>1, <2>1, <2>2, <1>t DEF RecoveryPhases, Installed, Injective
      <3> QED BY <3>1, <3>2, <2>1, <1>t DEF TypeOK
    <2>4. lh = head
      BY <2>1, <1>t DEF RecoveryPhases
    <2> QED BY <2>1, <2>2, <2>3, <2>4 DEF RecoveryPhases, Installed
  <1>4. CASE RecoverAll
    BY <1>4, <1>t DEF RecoverAll, RecoveryPhases, Installed, diskVars
  <1>5. ASSUME boot' = "up" PROVE RecoveryPhases'
    BY <1>5 DEF RecoveryPhases
  <1>6. CASE RecoverErase
    BY <1>5, <1>6 DEF RecoverErase
  <1>7. ASSUME NEW b \in Blocks, Recycle(b) PROVE RecoveryPhases'
    BY <1>5, <1>7 DEF Recycle
  <1>8. ASSUME NEW p \in Procs, BeginOp(p) \/ BeginWait(p) \/ SyncWait(p) PROVE RecoveryPhases'
    BY <1>5, <1>8 DEF BeginOp, BeginWait, Beginning, SyncWait
  <1>9. ASSUME NEW p \in Procs, pc[p] # "user", boot' = boot PROVE RecoveryPhases'
    BY <1>5, <1>9 DEF IInv, BootIsQuiet
  <1>10. ASSUME NEW p \in Procs, End(p) \/ Commit(p) \/ SyncAgain(p) \/ SyncReturn(p)
         PROVE  RecoveryPhases'
    BY <1>9, <1>10 DEF End, EndOp, EndLastOp, SyncAgain, SyncReturn, Commit, WriteLogOne,
          WriteLogEnd, WriteHead, InstallTrans, InstallEnd, Erase, FinishCommit, Goto
  <1>11. ASSUME NEW p \in Procs, NEW b \in Blocks, LogWrite(p, b) PROVE RecoveryPhases'
    BY <1>9, <1>11 DEF LogWrite, MayWrite
  <1> QED BY <1>1, <1>2, <1>3, <1>4, <1>6, <1>7, <1>8, <1>10, <1>11 DEF Next, Recover, Sync

\* Each step of a commit leaves memory and the disk as the next one needs them.
LEMMA CommitPhaseStep == ASSUME IInv, Next PROVE CommitPhases'
  <1>t. TypeOK /\ CommitPhases /\ Injective(lh)
    BY DEF IInv
  <1>s. /\ DOMAIN lh = 1 .. Len(lh) /\ Len(lh) \in Nat /\ tail \in Nat
        /\ \A i \in DOMAIN lh : lh[i] \in Blocks
    BY <1>t, LogSlots, LogAssumption DEF TypeOK
  <1>u. ASSUME boot = "up", UNCHANGED <<lh, head, tail, boot, logArea, home>>,
               \A b \in Blocks : Buffered(b)' = Buffered(b),
               \A l \in CommitLabels : At(l)' <=> At(l),
               InOp' = {} /\ Committer' = {} => InOp = {} /\ Committer = {}
        PROVE  CommitPhases'
    <2>1. ASSUME NEW n \in Nat, n <= Len(lh), Copied(n) PROVE \A i \in 1 .. n : logArea'[i] = Buffered(lh[i])'
      BY <1>s, <1>u, <2>1 DEF Copied
    <2>2. Copied(tail)' <=> \A i \in 1 .. tail : logArea'[i] = Buffered(lh[i])'
      BY <1>u DEF Copied
    <2>3. Copied(Len(lh))' <=> \A i \in 1 .. Len(lh) : logArea'[i] = Buffered(lh[i])'
      BY <1>u DEF Copied
    <2> QED BY <1>t, <1>s, <1>u, <2>1, <2>2, <2>3 DEF CommitPhases, Installed, CommitLabels
  <1>1. CASE Crash
    BY <1>1 DEF Crash, AtBoot, CommitPhases
  <1>2. CASE Recover
    <2>1. CASE RecoverErase
      <3>1. /\ lh' = <<>> /\ head' = <<>> /\ tail' = 0
            /\ \A q \in Procs : pc'[q] = "user"
        BY <2>1 DEF RecoverErase, IInv, RecoveryPhases, BootIsQuiet, opVars
      <3>2. \A l \in CommitLabels : ~At(l)'
        BY <3>1 DEF At, CommitLabels
      <3> QED BY <3>1, <3>2 DEF CommitPhases, CommitLabels
    <2>2. CASE ~RecoverErase
      <3>1. boot' # "up"
        BY <2>2, <1>2 DEF Recover, ReadHead, RecoverOne, RecoverAll
      <3> QED BY <3>1 DEF CommitPhases
    <2> QED BY <2>1, <2>2
  <1>b. \A b \in Blocks : boot = "up" /\ boot' = "up" /\ (~ \E p \in Procs, c \in Blocks : LogWrite(p, c))
            => Buffered(b)' = Buffered(b)
    BY BufferedKept
  <1>w. \A p \in Procs, c \in Blocks : LogWrite(p, c) => pc[p] = "op" /\ pc' = pc /\ cache' # cache
    <2>1. ASSUME NEW p \in Procs, NEW c \in Blocks, LogWrite(p, c)
          PROVE  pc[p] = "op" /\ pc' = pc /\ cache' # cache
      <3>1. pc[p] = "op" /\ pc' = pc /\ cache' = [cache EXCEPT ![c] = Buffered(c) + 1]
        BY <2>1 DEF LogWrite, MayWrite
      <3>2. Buffered(c) \in Nat /\ (cache[c] = Buffered(c) \/ cache[c] = NotCached)
        BY <1>t, BufferedType, LogAssumption DEF Versions, Buffered
      <3>3. cache'[c] # cache[c]
        BY <3>1, <3>2, <1>t, LogAssumption DEF TypeOK
      <3> QED BY <3>1, <3>3
    <2> QED BY <2>1
  <1>3. ASSUME NEW b \in Blocks, Recycle(b) PROVE CommitPhases'
    <2>1. UNCHANGED <<lh, head, tail, boot, logArea, home, pc>> /\ boot = "up"
      BY <1>3 DEF Recycle, diskVars, opVars
    <2>2. InOp' = InOp /\ Committer' = Committer /\ \A l \in CommitLabels : At(l)' <=> At(l)
      BY <2>1 DEF InOp, Committer, At
    <2>3. home' = home /\ cache' = [cache EXCEPT ![b] = NotCached] /\ cache[b] = home[b]
      BY <1>3 DEF Recycle, diskVars, IInv, PinnedUntilInstalled
    <2>4. \A c \in Blocks : Buffered(c)' = Buffered(c)
      BY <2>3, <1>t DEF Buffered, TypeOK
    <2> QED BY <2>1, <2>2, <2>4, <1>u
  <1>m. ASSUME NEW p \in Procs, NEW l \in Labels, pc' = [pc EXCEPT ![p] = l],
               pc[p] \notin CommitLabels, l \notin CommitLabels,
               boot = "up", UNCHANGED <<diskVars, cache, lh, tail, boot>>,
               InOp' = {} => InOp = {}
        PROVE  CommitPhases'
    <2>1. \A k \in CommitLabels : At(k)' <=> At(k)
      BY <1>m, <1>t, AtMoves
    <2>2. Committer' = Committer
      <3>1. p \notin Committer
        BY <1>m DEF Committer, CommitLabels
      <3>2. Committer' = Committer \ {p}
        BY <1>m, <1>t, Moves
      <3> QED BY <3>1, <3>2
    <2>3. \A b \in Blocks : Buffered(b)' = Buffered(b)
      BY <1>m DEF Buffered, diskVars
    <2> QED BY <1>m, <2>1, <2>2, <2>3, <1>u DEF diskVars
  <1>4. ASSUME NEW p \in Procs, BeginOp(p) PROVE CommitPhases'
    <2>1. /\ pc' = [pc EXCEPT ![p] = "op"] /\ pc[p] \in {"user", "begin"} /\ boot = "up"
          /\ UNCHANGED <<diskVars, cache, lh, tail, boot>>
      BY <1>4 DEF BeginOp, Beginning, diskVars
    <2>2. InOp' # {}
      BY <2>1, <1>t, Moves
    <2> QED BY <2>1, <2>2, <1>m DEF Labels, CommitLabels
  <1>5. ASSUME NEW p \in Procs, BeginWait(p) \/ SyncWait(p) \/ SyncReturn(p) PROVE CommitPhases'
    <2>1. PICK l \in {"user", "begin", "sync"} : pc' = [pc EXCEPT ![p] = l]
      BY <1>5 DEF BeginWait, SyncWait, SyncReturn, Goto
    <2>2. /\ pc[p] \in {"user", "begin", "sync"}
          /\ UNCHANGED <<diskVars, cache, lh, tail, boot>>
      BY <1>5 DEF BeginWait, Beginning, SyncWait, SyncReturn, Goto, diskVars
    <2>3. boot = "up"
      BY <1>5 DEF BeginWait, Beginning, SyncWait, SyncReturn, Goto, IInv, BootIsQuiet
    <2>4. InOp' = InOp
      BY <2>1, <2>2, <1>t, Moves DEF InOp
    <2> QED BY <2>1, <2>2, <2>3, <2>4, <1>m DEF Labels, CommitLabels
  <1>6. ASSUME NEW p \in Procs, SyncAgain(p) PROVE CommitPhases'
    <2>1. UNCHANGED <<lh, head, tail, boot, logArea, home, pc, cache>> /\ pc[p] = "sync"
      BY <1>6 DEF SyncAgain, diskVars, opVars
    <2>2. InOp' = InOp /\ Committer' = Committer /\ \A l \in CommitLabels : At(l)' <=> At(l)
      BY <2>1 DEF InOp, Committer, At
    <2>3. boot = "up" /\ \A b \in Blocks : Buffered(b)' = Buffered(b)
      BY <2>1 DEF Buffered, IInv, BootIsQuiet
    <2> QED BY <2>1, <2>2, <2>3, <1>u
  <1>7. ASSUME NEW p \in Procs, EndOp(p) PROVE CommitPhases'
    <2>1. /\ pc' = [pc EXCEPT ![p] = "user"] /\ pc[p] = "op" /\ outstanding > 1
          /\ UNCHANGED <<diskVars, cache, lh, tail, boot>>
      BY <1>7 DEF EndOp, Goto, diskVars
    <2>2. boot = "up" /\ p \in InOp
      BY <2>1, OpRuns
    <2>3. InOp' = InOp \ {p}
      BY <2>1, <1>t, Moves
    <2>4. InOp' # {}
      <3>1. Cardinality(InOp \ {p}) = outstanding - 1 /\ outstanding \in Nat
        BY <2>2, <1>t, Counts, FS_RemoveElement DEF IInv, CommitIsExclusive
      <3>2. Cardinality(InOp \ {p}) # 0
        BY <3>1, <2>1
      <3> QED BY <3>2, <2>3, FS_EmptySet
    <2> QED BY <2>1, <2>2, <2>4, <1>m DEF Labels, CommitLabels
  <1>8. ASSUME NEW p \in Procs, EndLastOp(p) PROVE CommitPhases'
    <2>1. /\ pc' = [pc EXCEPT ![p] = IF lh = <<>> THEN "done" ELSE "write_log"] /\ pc[p] = "op"
          /\ UNCHANGED <<diskVars, cache, lh, tail, boot>>
      BY <1>8 DEF EndLastOp, Goto, diskVars
    <2>2. head = <<>> /\ tail = 0 /\ \A l \in CommitLabels : ~At(l)
      BY <2>1, OpRuns
    <2>3. pc'[p] = IF lh = <<>> THEN "done" ELSE "write_log"
      BY <2>1, <1>t DEF TypeOK
    <2>4. \A l \in CommitLabels : l # pc'[p] => ~At(l)'
      BY <2>1, <2>2, <2>3, <1>t, Moves DEF At, CommitLabels
    <2>5. Committer' # {}
      BY <2>3 DEF Committer
    <2>6. Copied(tail)'
      BY <2>1, <2>2 DEF Copied
    <2> QED BY <2>1, <2>2, <2>3, <2>4, <2>5, <2>6, <1>s DEF CommitPhases, CommitLabels, diskVars
  <1>9. ASSUME NEW p \in Procs, NEW b \in Blocks, LogWrite(p, b) PROVE CommitPhases'
    <2>1. UNCHANGED <<head, tail, boot, pc>> /\ pc[p] = "op"
      BY <1>9 DEF LogWrite, MayWrite, diskVars
    <2>2. head = <<>> /\ tail = 0 /\ InOp # {} /\ \A l \in CommitLabels : ~At(l)
      BY <2>1, OpRuns
    <2>3. InOp' = InOp /\ \A l \in CommitLabels : ~At(l)'
      BY <2>1, <2>2 DEF InOp, At
    <2> QED BY <2>1, <2>2, <2>3 DEF CommitPhases, CommitLabels
  <1>10. ASSUME NEW p \in Procs, Commit(p) PROVE CommitPhases'
    <2>a. pc[p] \in CommitLabels /\ boot = "up" /\ \A l \in CommitLabels : At(l) <=> pc[p] = l
      BY <1>10, CommitterAt
    <2>c. boot' = "up"
      BY <1>10, <2>a DEF Commit, WriteLogOne, WriteLogEnd, WriteHead, InstallTrans, InstallEnd,
                  Erase, FinishCommit
    <2>b. \A b \in Blocks : Buffered(b)' = Buffered(b)
      <3>1. ~ \E q \in Procs, c \in Blocks : LogWrite(q, c)
        BY <2>a, OpRuns, CommitterAt, <1>10, <1>w DEF InOp
      <3> QED BY <3>1, <1>b, <2>a, <2>c
    <2>d. ASSUME NEW l \in Labels, pc'[p] = l, \A q \in Procs : q # p => pc'[q] = pc[q]
          PROVE  /\ \A k \in CommitLabels : At(k)' <=> k = l
                 /\ l \in CommitLabels => Committer' # {}
      <3>1. \A q \in Procs : q # p => pc[q] \notin CommitLabels
        BY <1>10, CommitterAt DEF Committer, CommitLabels
      <3> QED BY <2>d, <3>1 DEF At, Committer, CommitLabels
    <2>1. CASE WriteLogOne(p)
      <3>1. /\ pc[p] = "write_log" /\ tail < Len(lh) /\ tail' = tail + 1
            /\ logArea' = [logArea EXCEPT ![tail + 1] = Buffered(lh[tail + 1])]
            /\ UNCHANGED <<home, head, lh, pc, cache>>
        BY <2>1 DEF WriteLogOne, opVars
      <3>2. Copied(tail)
        BY <3>1, <2>a, <1>t DEF CommitPhases, CommitLabels
      <3>3. tail + 1 \in 1 .. LOGBLOCKS /\ \A i \in 1 .. tail : i \in 1 .. LOGBLOCKS /\ i # tail + 1
        BY <3>1, <1>s, <1>t, NextSlot, LogAssumption DEF TypeOK
      <3>4. logArea'[tail + 1] = Buffered(lh[tail + 1]) /\ \A i \in 1 .. tail : logArea'[i] = logArea[i]
        BY <3>1, <3>3, <1>t DEF TypeOK
      <3>5. \A i \in 1 .. tail + 1 : i \in 1 .. tail \/ i = tail + 1
        BY <1>s
      <3>6. \A i \in 1 .. tail + 1 : logArea'[i] = Buffered(lh[i])
        BY <3>2, <3>4, <3>5 DEF Copied
      <3>7. Copied(tail)'
        BY <3>1, <3>6 DEF Copied, Buffered
      <3>8. tail' <= Len(lh')
        BY <3>1, <1>s
      <3>9. \A k \in CommitLabels : At(k)' <=> k = "write_log"
        BY <3>1, <2>d DEF Labels
      <3>10. head' = <<>> /\ Committer' # {}
        BY <3>1, <2>a, <2>d, <1>t DEF CommitPhases, CommitLabels, Labels
      <3> QED BY <3>7, <3>8, <3>9, <3>10 DEF CommitPhases, CommitLabels
    <2>2. CASE WriteLogEnd(p)
      <3>1. /\ pc[p] = "write_log" /\ tail = Len(lh) /\ tail' = 0
            /\ UNCHANGED <<home, head, lh, logArea, cache>> /\ pc' = [pc EXCEPT ![p] = "write_head"]
        BY <2>2 DEF WriteLogEnd, Goto, diskVars
      <3>2. Copied(Len(lh)) /\ head = <<>>
        BY <3>1, <2>a, <1>t DEF CommitPhases, CommitLabels
      <3>3. Copied(Len(lh))'
        BY <3>1, <3>2 DEF Copied, Buffered
      <3>4. Committer' # {} /\ \A k \in CommitLabels : At(k)' <=> k = "write_head"
        BY <3>1, <2>d, <1>t, Moves DEF Labels, CommitLabels
      <3> QED BY <3>1, <3>2, <3>3, <3>4 DEF CommitPhases, CommitLabels
    <2>3. CASE WriteHead(p)
      <3>1. /\ pc[p] = "write_head" /\ head' = lh /\ pc' = [pc EXCEPT ![p] = "install"]
            /\ UNCHANGED <<home, lh, logArea, cache, tail>>
        BY <2>3 DEF WriteHead, Goto
      <3>2. Copied(Len(lh)) /\ tail = 0
        BY <3>1, <2>a, <1>t DEF CommitPhases, CommitLabels
      <3>3. Copied(Len(lh))' /\ Installed(lh, tail)'
        BY <3>1, <3>2 DEF Copied, Buffered, Installed
      <3>4. Committer' # {} /\ \A k \in CommitLabels : At(k)' <=> k = "install"
        BY <3>1, <2>d, <1>t, Moves DEF Labels, CommitLabels
      <3> QED BY <3>1, <3>2, <3>3, <3>4, <1>s DEF CommitPhases, CommitLabels
    <2>4. CASE InstallTrans(p)
      <3>1. /\ pc[p] = "install" /\ tail < Len(lh) /\ tail' = tail + 1
            /\ home' = [home EXCEPT ![lh[tail + 1]] = logArea[tail + 1]]
            /\ UNCHANGED <<logArea, head, lh, pc>>
        BY <2>4 DEF InstallTrans, InstallOne, opVars
      <3>2. lh = head /\ Copied(Len(lh)) /\ Installed(lh, tail)
        BY <3>1, Installing
      <3>3. \A i \in 1 .. Len(lh) : logArea'[i] = Buffered(lh[i])'
        BY <3>1, <3>2, <2>b, <1>s DEF Copied
      <3>4. Copied(Len(lh))'
        BY <3>1, <3>3 DEF Copied
      <3>5. ASSUME NEW i \in 1 .. tail + 1 PROVE home'[lh[i]] = logArea[i]
        <4>1. i \in DOMAIN lh /\ tail + 1 \in DOMAIN lh /\ lh[i] \in Blocks
          BY <3>1, <1>s
        <4>2. i # tail + 1 => lh[i] # lh[tail + 1] /\ home[lh[i]] = logArea[i]
          BY <4>1, <3>2, <1>s, <1>t DEF Installed, Injective
        <4> QED BY <4>1, <4>2, <3>1, <1>t DEF TypeOK
      <3>6. Installed(lh, tail)' /\ tail' <= Len(lh')
        BY <3>1, <3>5, <1>s DEF Installed
      <3>7. Committer' # {} /\ \A k \in CommitLabels : At(k)' <=> k = "install"
        BY <3>1, <2>d DEF Labels, CommitLabels
      <3> QED BY <3>1, <3>2, <3>4, <3>6, <3>7 DEF CommitPhases, CommitLabels
    <2>5. CASE InstallEnd(p)
      <3>1. /\ pc[p] = "install" /\ pc' = [pc EXCEPT ![p] = "erase"] /\ tail = Len(lh)
            /\ tail' = 0 /\ lh' = <<>> /\ UNCHANGED <<home, head, logArea>>
        BY <2>5 DEF InstallEnd, Goto, diskVars
      <3>2. Installed(head, Len(head))
        BY <3>1, Installing
      <3>3. Installed(head, Len(head))'
        BY <3>1, <3>2 DEF Installed
      <3>4. Committer' # {} /\ \A k \in CommitLabels : At(k)' <=> k = "erase"
        BY <3>1, <2>d, <1>t, Moves DEF Labels, CommitLabels
      <3> QED BY <3>1, <3>3, <3>4 DEF CommitPhases, CommitLabels
    <2>6. CASE Erase(p)
      <3>1. /\ pc[p] = "erase" /\ pc' = [pc EXCEPT ![p] = "done"] /\ UNCHANGED <<lh, tail>>
            /\ head' = lh
        BY <2>6 DEF Erase, Goto
      <3>2. lh = <<>> /\ tail = 0
        BY <3>1, <2>a, <1>t DEF CommitPhases, CommitLabels
      <3>4. Committer' # {} /\ \A k \in CommitLabels : At(k)' <=> k = "done"
        BY <3>1, <2>d, <1>t, Moves DEF Labels, CommitLabels
      <3> QED BY <3>1, <3>2, <3>4 DEF CommitPhases, CommitLabels
    <2>7. CASE FinishCommit(p)
      <3>1. /\ pc[p] = "done" /\ pc' = [pc EXCEPT ![p] = "user"] /\ UNCHANGED <<lh, head, tail>>
        BY <2>7 DEF FinishCommit, Goto, diskVars
      <3>2. lh = <<>> /\ tail = 0 /\ head = <<>>
        BY <3>1, <2>a, <1>t DEF CommitPhases, CommitLabels
      <3>4. \A k \in CommitLabels : ~At(k)'
        BY <3>1, <2>d, <1>t, Moves DEF Labels, CommitLabels
      <3> QED BY <3>1, <3>2, <3>4 DEF CommitPhases, CommitLabels
    <2> QED BY <1>10, <2>1, <2>2, <2>3, <2>4, <2>5, <2>6, <2>7 DEF Commit
  <1> QED BY <1>1, <1>2, <1>3, <1>4, <1>5, <1>6, <1>7, <1>8, <1>9, <1>10 DEF Next, End, Sync

-----------------------------------------------------------------------------
(* What each step does to memory and to the disk, as AtomicDisk sees them *)

\* While the machine is up, memory is what bread() returns.
LEMMA CurrentIsBuffered ==
  /\ boot = "up" => Current = [b \in Blocks |-> Buffered(b)]
  /\ boot' = "up" => Current' = [b \in Blocks |-> Buffered(b)']
  /\ boot # "up" => Current = Recovered
  /\ boot' # "up" => Current' = Recovered'
  BY DEF Current

\* A crash loses memory, and nothing else.
LEMMA CrashEffect ==
  ASSUME IInv, Crash PROVE Recovered' = Recovered /\ Current' = Recovered /\ InOp' = {}
  <1>1. UNCHANGED <<home, logArea, head>> /\ boot' # "up" /\ InOp' = {}
    BY DEF Crash, AtBoot, diskVars, InOp
  <1>2. Recovered' = Recovered
    BY <1>1, RecoveredIs
  <1> QED BY <1>1, <1>2, CurrentIsBuffered

\* Recovery changes neither what the disk recovers to nor what is seen of it.
LEMMA RecoverEffect ==
  ASSUME IInv, Recover PROVE Recovered' = Recovered /\ Current' = Current /\ InOp' = InOp
  <1>t. TypeOK /\ RecoveryPhases /\ Injective(head)
    BY DEF IInv
  <1>d. head \in Headers /\ home \in [Blocks -> Versions]
    BY <1>t DEF TypeOK
  <1>1. boot # "up" /\ Current = Recovered /\ InOp' = InOp
    BY CurrentIsBuffered DEF Recover, ReadHead, RecoverOne, RecoverAll, RecoverErase, opVars, InOp
  <1>2. CASE ReadHead \/ RecoverAll
    <2>1. UNCHANGED <<home, logArea, head>> /\ boot' # "up"
      BY <1>2 DEF ReadHead, RecoverAll, diskVars
    <2>2. Recovered' = Recovered
      BY <2>1, RecoveredIs
    <2> QED BY <1>1, <2>1, <2>2, CurrentIsBuffered
  <1>3. CASE RecoverOne
    <2>1. /\ UNCHANGED <<logArea, head>> /\ boot' # "up" /\ lh = head /\ tail < Len(lh)
          /\ home' = [home EXCEPT ![lh[tail + 1]] = logArea[tail + 1]]
      BY <1>3, <1>t DEF RecoverOne, InstallOne, RecoveryPhases
    <2>2. tail + 1 \in DOMAIN head
      BY <2>1, <1>t, NextSlot
    <2>3. \A b \in Blocks : home'[b] = home[b] \/ \E i \in DOMAIN head : head[i] = b
      BY <2>1, <2>2, <1>t DEF TypeOK
    <2>4. RecoveredFrom(home', logArea, head) = RecoveredFrom(home, logArea, head)
      BY <2>3, <1>t, RecoveredInstall
    <2>5. Recovered' = Recovered
      BY <2>1, <2>4, RecoveredIs
    <2> QED BY <1>1, <2>1, <2>5, CurrentIsBuffered
  <1>4. CASE RecoverErase
    <2>1. /\ UNCHANGED <<home, logArea, cache, pin>> /\ boot' = "up" /\ boot = "erase"
          /\ head' = <<>> /\ Installed(head, Len(head))
      BY <1>4, <1>t DEF RecoverErase, RecoveryPhases
    <2>2. \A i \in DOMAIN head : home[head[i]] = logArea[i]
      BY <2>1, <1>t, HeadSlots DEF Installed
    <2>3. RecoveredFrom(home, logArea, head) = home
      BY <2>2, <1>d, <1>t, RecoveredHome
    <2>4. RecoveredFrom(home, logArea, <<>>) = home
      BY <1>t, EmptyHeader, RecoveredHome DEF TypeOK
    <2>5. Recovered' = Recovered /\ Recovered = home
      BY <2>1, <2>3, <2>4, RecoveredIs
    <2>6. \A b \in Blocks : cache[b] \in {NotCached, home[b]}
      <3>1. Pending = {}
        BY <2>1 DEF Pending
      <3> QED BY <3>1 DEF IInv, PinnedUntilInstalled, TypeOK
    <2>7. \A b \in Blocks : Buffered(b)' = home[b]
      BY <2>1, <2>6 DEF Buffered
    <2>8. Current' = home
      BY <2>1, <2>7, <1>t, CurrentIsBuffered DEF TypeOK
    <2> QED BY <1>1, <2>5, <2>8
  <1> QED BY <1>2, <1>3, <1>4 DEF Recover

\* A write changes one block in memory.
LEMMA WriteEffect ==
  ASSUME IInv, NEW p \in Procs, NEW b \in Blocks, LogWrite(p, b)
  PROVE  /\ Recovered' = Recovered /\ Current' = [Current EXCEPT ![b] = @ + 1]
         /\ InOp' = InOp /\ p \in InOp /\ boot = "up" /\ boot' = "up"
  <1>t. TypeOK
    BY DEF IInv
  <1>1. /\ UNCHANGED <<home, logArea, head, boot, pc>> /\ pc[p] = "op"
        /\ cache' = [cache EXCEPT ![b] = Buffered(b) + 1]
    BY DEF LogWrite, MayWrite, diskVars
  <1>2. boot = "up" /\ p \in InOp /\ InOp' = InOp
    BY <1>1, OpRuns DEF InOp
  <1>3. Recovered' = Recovered
    BY <1>1, RecoveredIs
  <1>4. /\ Buffered(b)' = Buffered(b) + 1
        /\ \A c \in Blocks : c # b => Buffered(c)' = Buffered(c)
    <2>1. Buffered(b) + 1 # NotCached
      BY <1>t, BufferedType, LogAssumption DEF Versions
    <2>2. cache'[b] = Buffered(b) + 1 /\ \A c \in Blocks : c # b => cache'[c] = cache[c]
      BY <1>1, <1>t DEF TypeOK
    <2> QED BY <1>1, <2>1, <2>2 DEF Buffered
  <1>5. Current' = [Current EXCEPT ![b] = @ + 1]
    BY <1>1, <1>2, <1>4, CurrentIsBuffered
  <1> QED BY <1>1, <1>2, <1>3, <1>5

\* Writing the header makes all of memory durable at once, while no operation runs.
LEMMA CommitEffect ==
  ASSUME IInv, Next, NEW p \in Procs, WriteHead(p)
  PROVE  /\ Recovered' = Current /\ Current' = Current
         /\ InOp = {} /\ InOp' = {} /\ boot = "up" /\ boot' = "up"
  <1>t. TypeOK /\ Injective(lh)
    BY DEF IInv
  <1>1. /\ UNCHANGED <<home, logArea, lh, cache, boot, tail>> /\ head' = lh
        /\ pc[p] = "write_head" /\ pc' = [pc EXCEPT ![p] = "install"]
    BY DEF WriteHead, Goto
  <1>2. boot = "up" /\ InOp = {} /\ At("write_head") /\ ~At("install")
    BY <1>1, CommitAlone DEF CommitLabels
  <1>3. InOp' = {}
    BY <1>1, <1>2, <1>t, Moves
  <1>4. Copied(Len(lh))
    BY <1>2 DEF IInv, CommitPhases
  <1>5. Current' = Current
    BY <1>1, <1>2, CurrentIsBuffered DEF Buffered
  <1>6. ASSUME NEW b \in Blocks PROVE RecoveredFrom(home, logArea, lh)[b] = Buffered(b)
    <2>1. CASE \E i \in DOMAIN lh : lh[i] = b
      <3>1. PICK i \in DOMAIN lh : lh[i] = b
        BY <2>1
      <3>2. logArea[i] = Buffered(lh[i])
        BY <1>4, <1>t, LogSlots DEF Copied
      <3> QED BY <3>1, <3>2, <1>t, RecoveredValue
    <2>2. CASE \A i \in DOMAIN lh : lh[i] # b
      <3>1. ~ \E i \in Pending : lh[i] = b
        BY <2>2 DEF Pending
      <3>2. cache[b] \in {NotCached, home[b]}
        BY <3>1 DEF IInv, PinnedUntilInstalled, TypeOK
      <3>3. RecoveredFrom(home, logArea, lh)[b] = home[b]
        BY <2>2, <1>t, RecoveredValue
      <3> QED BY <3>2, <3>3 DEF Buffered
    <2> QED BY <2>1, <2>2
  <1>7. RecoveredFrom(home, logArea, lh) = [b \in Blocks |-> RecoveredFrom(home, logArea, lh)[b]]
    BY <1>t, RecoveredValue
  <1>8. RecoveredFrom(home, logArea, lh) = Current
    BY <1>2, <1>6, <1>7, CurrentIsBuffered
  <1> QED BY <1>1, <1>2, <1>3, <1>5, <1>8, RecoveredIs

\* No other step of a commit changes memory, or what the disk recovers to.
LEMMA CommitStepEffect ==
  ASSUME IInv, Next, NEW p \in Procs, Commit(p), ~WriteHead(p)
  PROVE  /\ Recovered' = Recovered /\ Current' = Current /\ InOp' = InOp
         /\ boot = "up" /\ boot' = "up"
  <1>t. TypeOK /\ Injective(head)
    BY DEF IInv
  <1>d. head \in Headers /\ home \in [Blocks -> Versions]
    BY <1>t DEF TypeOK
  <1>1. /\ pc[p] \in CommitLabels /\ boot = "up" /\ InOp = {}
        /\ \A l \in CommitLabels : At(l) <=> pc[p] = l
    BY CommitterAt
  <1>2. boot' = "up"
    BY <1>1 DEF Commit, WriteLogOne, WriteLogEnd, WriteHead, InstallTrans, InstallEnd,
                Erase, FinishCommit
  <1>3. InOp' = InOp
    <2>1. ASSUME NEW l \in Labels \ {"op"}, pc' = [pc EXCEPT ![p] = l] PROVE InOp' = {}
      BY <2>1, <1>1, <1>t, Moves
    <2>2. pc' = pc => InOp' = {}
      BY <1>1 DEF InOp
    <2> QED BY <1>1, <2>1, <2>2 DEF Commit, WriteLogOne, WriteLogEnd, WriteHead, InstallTrans,
                                    InstallEnd, Erase, FinishCommit, Goto, opVars, Labels
  <1>4. Current' = Current
    <2>1. ~ \E q \in Procs, c \in Blocks : LogWrite(q, c)
      <3>1. ASSUME NEW q \in Procs, NEW c \in Blocks, LogWrite(q, c) PROVE FALSE
        BY <3>1, <1>1, WriteEffect
      <3> QED BY <3>1
    <2>2. \A b \in Blocks : Buffered(b)' = Buffered(b)
      BY <2>1, <1>1, <1>2, BufferedKept
    <2> QED BY <1>1, <1>2, <2>2, CurrentIsBuffered
  <1>5. Recovered' = Recovered
    <2>1. CASE WriteLogOne(p)
      <3>1. UNCHANGED <<home, head>> /\ head = <<>>
        BY <2>1, <1>1 DEF WriteLogOne, IInv, CommitPhases, CommitLabels
      <3>2. RecoveredFrom(home, logArea, <<>>) = home /\ RecoveredFrom(home, logArea', <<>>) = home
        BY <1>t, EmptyHeader, RecoveredHome DEF TypeOK
      <3> QED BY <3>1, <3>2, RecoveredIs
    <2>2. CASE InstallTrans(p)
      <3>1. /\ UNCHANGED <<logArea, head>> /\ tail < Len(lh) /\ lh = head
            /\ home' = [home EXCEPT ![lh[tail + 1]] = logArea[tail + 1]]
        BY <2>2, Installing DEF InstallTrans, InstallOne
      <3>2. tail + 1 \in DOMAIN head
        BY <3>1, <1>t, NextSlot
      <3>3. \A b \in Blocks : home'[b] = home[b] \/ \E i \in DOMAIN head : head[i] = b
        BY <3>1, <3>2, <1>t DEF TypeOK
      <3>4. RecoveredFrom(home', logArea, head) = RecoveredFrom(home, logArea, head)
        BY <3>3, <1>t, RecoveredInstall
      <3> QED BY <3>1, <3>4, RecoveredIs
    <2>3. CASE Erase(p)
      <3>1. /\ UNCHANGED <<home, logArea>> /\ head' = <<>> /\ Installed(head, Len(head))
        BY <2>3, <1>1 DEF Erase, Goto, IInv, CommitPhases, CommitLabels
      <3>2. \A i \in DOMAIN head : home[head[i]] = logArea[i]
        BY <3>1, <1>t, HeadSlots DEF Installed
      <3>3. RecoveredFrom(home, logArea, head) = home
        BY <3>2, <1>d, <1>t, RecoveredHome
      <3>4. RecoveredFrom(home, logArea, <<>>) = home
        BY <1>t, EmptyHeader, RecoveredHome DEF TypeOK
      <3> QED BY <3>1, <3>3, <3>4, RecoveredIs
    <2>4. CASE WriteLogEnd(p) \/ InstallEnd(p) \/ FinishCommit(p)
      <3>1. UNCHANGED <<home, logArea, head>>
        BY <2>4 DEF WriteLogEnd, InstallEnd, FinishCommit, diskVars
      <3> QED BY <3>1, RecoveredIs
    <2> QED BY <2>1, <2>2, <2>3, <2>4 DEF Commit
  <1> QED BY <1>1, <1>2, <1>3, <1>4, <1>5

\* Neither do the other steps.
LEMMA CallEffect ==
  ASSUME IInv, Next,
         \/ \E b \in Blocks : Recycle(b)
         \/ \E p \in Procs : BeginOp(p) \/ BeginWait(p) \/ End(p) \/ Sync(p)
  PROVE  Recovered' = Recovered /\ Current' = Current /\ boot = "up" /\ boot' = "up"
  <1>1. /\ UNCHANGED <<home, logArea, head, boot>> /\ boot = "up"
    BY DEF Recycle, BeginOp, BeginWait, Beginning, End, EndOp, EndLastOp, Sync, SyncWait,
           SyncAgain, SyncReturn, Goto, diskVars, IInv, BootIsQuiet
  <1>2. Recovered' = Recovered
    BY <1>1, RecoveredIs
  <1>3. \A b \in Blocks : Buffered(b)' = Buffered(b)
    <2>1. CASE UNCHANGED cache
      BY <1>1, <2>1 DEF Buffered
    <2>2. CASE \E b \in Blocks : Recycle(b)
      <3>1. PICK b \in Blocks : Recycle(b)
        BY <2>2
      <3>2. cache' = [cache EXCEPT ![b] = NotCached] /\ cache[b] = home[b]
        BY <3>1 DEF Recycle, IInv, PinnedUntilInstalled
      <3> QED BY <3>2, <1>1 DEF Buffered, IInv, TypeOK
    <2> QED BY <2>1, <2>2 DEF BeginOp, BeginWait, End, EndOp, EndLastOp, Sync, SyncWait,
                              SyncAgain, SyncReturn
  <1> QED BY <1>1, <1>2, <1>3, CurrentIsBuffered

-----------------------------------------------------------------------------
(* sys_sync() and the wakeups *)

\* Memory and the durable blocks hold versions.
LEMMA EffectTypes ==
  ASSUME IInv
  PROVE  /\ Recovered \in [Blocks -> Nat] /\ Current \in [Blocks -> Nat]
         /\ \A b \in Blocks : Recovered[b] <= Current[b]
  <1>1. Recovered \in [Blocks -> Versions]
    BY RecoveredType DEF IInv
  <1>2. \A b \in Blocks : Buffered(b) \in Versions
    BY BufferedType DEF IInv
  <1>3. Current \in [Blocks -> Versions]
    BY <1>1, <1>2, CurrentIsBuffered
  <1>4. Versions \subseteq Nat
    BY LogAssumption DEF Versions
  <1> QED BY <1>1, <1>3, <1>4 DEF IInv, DiskIsBehind

\* While the machine stays up, nothing written is undone and nothing durable
\* is lost; the disk never runs ahead of memory.
LEMMA EffectStep ==
  ASSUME IInv, Next
  PROVE  /\ \A b \in Blocks : Recovered[b] <= Recovered'[b] /\ Recovered'[b] <= Current'[b]
         /\ boot' = "up" => \A b \in Blocks : Current[b] <= Current'[b]
  <1>t. /\ Recovered \in [Blocks -> Nat] /\ Current \in [Blocks -> Nat]
        /\ \A b \in Blocks : Recovered[b] <= Current[b]
    BY EffectTypes
  <1>s. ASSUME Recovered' = Recovered, Current' = Current
        PROVE  /\ \A b \in Blocks : Recovered[b] <= Recovered'[b] /\ Recovered'[b] <= Current'[b]
               /\ boot' = "up" => \A b \in Blocks : Current[b] <= Current'[b]
    BY <1>s, <1>t
  <1>1. CASE Crash
    <2>1. boot' # "up" /\ Recovered' = Recovered /\ Current' = Recovered
      BY <1>1, CrashEffect DEF Crash, AtBoot
    <2> QED BY <2>1, <1>t
  <1>2. CASE Recover
    BY <1>2, <1>s, RecoverEffect
  <1>3. CASE \/ \E b \in Blocks : Recycle(b)
             \/ \E p \in Procs : BeginOp(p) \/ BeginWait(p) \/ End(p) \/ Sync(p)
    BY <1>3, <1>s, CallEffect
  <1>4. ASSUME NEW p \in Procs, Commit(p)
        PROVE  /\ \A b \in Blocks : Recovered[b] <= Recovered'[b] /\ Recovered'[b] <= Current'[b]
               /\ boot' = "up" => \A b \in Blocks : Current[b] <= Current'[b]
    <2>1. CASE WriteHead(p)
      BY <2>1, <1>t, CommitEffect
    <2>2. CASE ~WriteHead(p)
      BY <2>2, <1>4, <1>s, CommitStepEffect
    <2> QED BY <2>1, <2>2
  <1>5. ASSUME NEW p \in Procs, NEW b \in Blocks, LogWrite(p, b)
        PROVE  /\ \A c \in Blocks : Recovered[c] <= Recovered'[c] /\ Recovered'[c] <= Current'[c]
               /\ boot' = "up" => \A c \in Blocks : Current[c] <= Current'[c]
    <2>1. Recovered' = Recovered /\ Current' = [Current EXCEPT ![b] = @ + 1]
      BY <1>5, WriteEffect
    <2>2. /\ \A c \in Blocks : c # b => Current'[c] = Current[c]
          /\ Current'[b] = Current[b] + 1
      BY <2>1, <1>t
    <2>3. \A c \in Blocks : Current[c] \in Nat /\ Recovered[c] \in Nat
      BY <1>t
    <2>4. \A c \in Blocks : Current[c] <= Current'[c] /\ Current'[c] \in Nat
      BY <2>2, <2>3
    <2> QED BY <2>1, <2>3, <2>4, <1>t
  <1> QED BY <1>1, <1>2, <1>3, <1>4, <1>5 DEF Next

\* When nothing is in progress everything is durable.
LEMMA QuietIsDurable ==
  ASSUME IInv, boot = "up", InOp = {}, lh = <<>>, head = <<>> \/ Installed(head, Len(head))
  PROVE  Recovered = Current
  <1>t. TypeOK /\ Injective(head) /\ head \in Headers /\ home \in [Blocks -> Versions]
    BY DEF IInv, TypeOK
  <1>1. \A i \in DOMAIN head : home[head[i]] = logArea[i]
    BY <1>t, EmptyHeader, HeadSlots DEF Installed
  <1>2. Recovered = home
    BY <1>1, <1>t, RecoveredHome, RecoveredIs
  <1>3. Pending = {}
    BY EmptyHeader DEF Pending
  <1>4. \A b \in Blocks : Buffered(b) = home[b]
    BY <1>3 DEF IInv, PinnedUntilInstalled, TypeOK, Buffered
  <1> QED BY <1>t, <1>2, <1>4, CurrentIsBuffered

\* Every step keeps what a process in sys_sync() waits for.
LEMMA SyncStep == ASSUME IInv, Next PROVE SyncIsCovered'
  <1>t. TypeOK /\ SyncIsCovered
    BY DEF IInv
  <1>e. /\ \A b \in Blocks : Recovered[b] <= Recovered'[b] /\ Recovered'[b] <= Current'[b]
        /\ boot' = "up" => \A b \in Blocks : Current[b] <= Current'[b]
    BY EffectStep
  <1>n. /\ \A b \in Blocks : Recovered[b] \in Nat /\ Current[b] \in Nat
        /\ \A q \in Procs, b \in Blocks : seen[q][b] \in Nat
    BY <1>t, EffectTypes, LogAssumption DEF TypeOK, Versions
  <1>m. \A b \in Blocks : Recovered'[b] \in Nat /\ Current'[b] \in Nat
    <2>1. CASE Crash
      BY <2>1, CrashEffect, EffectTypes
    <2>2. CASE Recover
      BY <2>2, RecoverEffect, EffectTypes
    <2>3. CASE \/ \E b \in Blocks : Recycle(b)
               \/ \E p \in Procs : BeginOp(p) \/ BeginWait(p) \/ End(p) \/ Sync(p)
      BY <2>3, CallEffect, EffectTypes
    <2>4. ASSUME NEW p \in Procs, Commit(p) PROVE \A b \in Blocks : Recovered'[b] \in Nat /\ Current'[b] \in Nat
      <3>1. WriteHead(p) => Recovered' = Current /\ Current' = Current
        BY CommitEffect
      <3>2. ~WriteHead(p) => Recovered' = Recovered /\ Current' = Current
        BY <2>4, CommitStepEffect
      <3> QED BY <3>1, <3>2, EffectTypes
    <2>5. ASSUME NEW p \in Procs, NEW c \in Blocks, LogWrite(p, c)
          PROVE  \A b \in Blocks : Recovered'[b] \in Nat /\ Current'[b] \in Nat
      BY <2>5, WriteEffect, EffectTypes
    <2> QED BY <2>1, <2>2, <2>3, <2>4, <2>5 DEF Next
  <1>k. ASSUME NEW q \in Procs, pc[q] = "sync", boot' = "up", seen'[q] = seen[q],
               awaited'[q] = awaited[q] 
        PROVE  \A b \in Blocks : /\ seen'[q][b] <= Current'[b]
                                 /\ awaited'[q] = 0 => seen'[q][b] <= Recovered'[b]
    <2> TAKE b \in Blocks
    <2>1. seen[q][b] <= Current[b] /\ (awaited[q] = 0 => seen[q][b] <= Recovered[b])
      BY <1>k, <1>t DEF SyncIsCovered
    <2> QED BY <2>1, <1>k, <1>e, <1>n, <1>m
  <1>u. ASSUME UNCHANGED <<seen, awaited>>, boot' = "up",
               \A q \in Procs : pc'[q] = "sync" <=> pc[q] = "sync",
               committing \/ outstanding > 0 => committing' \/ outstanding' > 0
        PROVE  SyncIsCovered'
    BY <1>u, <1>k, <1>t DEF SyncIsCovered
  <1>1. CASE Crash
    BY <1>1 DEF Crash, AtBoot, SyncIsCovered
  <1>2. CASE Recover
    <2>1. \A q \in Procs : pc'[q] = "user" /\ awaited'[q] = 0
      BY <1>2 DEF Recover, ReadHead, RecoverOne, RecoverAll, RecoverErase, opVars, syncVars,
                  IInv, BootIsQuiet
    <2> QED BY <2>1 DEF SyncIsCovered
  <1>3. ASSUME NEW b \in Blocks, Recycle(b) PROVE SyncIsCovered'
    BY <1>3, <1>u DEF Recycle, opVars, syncVars
  <1>4. ASSUME NEW p \in Procs, BeginOp(p) \/ BeginWait(p) \/ End(p) PROVE SyncIsCovered'
    <2>1. PICK l \in Labels \ {"sync"} : pc' = [pc EXCEPT ![p] = l]
      BY <1>4 DEF BeginOp, BeginWait, End, EndOp, EndLastOp, Goto, Labels
    <2>2. pc[p] # "sync" /\ boot = "up" /\ boot' = "up" /\ UNCHANGED <<seen, awaited>>
      BY <1>4 DEF BeginOp, BeginWait, Beginning, End, EndOp, EndLastOp, Goto, syncVars,
                  IInv, BootIsQuiet
    <2>3. \A q \in Procs : pc'[q] = "sync" <=> pc[q] = "sync"
      BY <2>1, <2>2, <1>t, Moves
    <2>4. outstanding \in Nat
      BY <1>t, Counts DEF TypeOK
    <2>5. committing \/ outstanding > 0 => committing' \/ outstanding' > 0
      BY <1>4, <2>4 DEF BeginOp, BeginWait, End, EndOp, EndLastOp
    <2> QED BY <2>2, <2>3, <2>5, <1>u
  <1>5. ASSUME NEW p \in Procs, NEW b \in Blocks, LogWrite(p, b) PROVE SyncIsCovered'
    BY <1>5, <1>u, WriteEffect DEF LogWrite, syncVars
  <1>6. ASSUME NEW p \in Procs, SyncWait(p) PROVE SyncIsCovered'
    <2>0. boot = "up" /\ boot' = "up"
      BY <1>6 DEF SyncWait
    <2>1. /\ committing \/ outstanding > 0
          /\ UNCHANGED <<committing, outstanding>>
          /\ pc' = [pc EXCEPT ![p] = "sync"] /\ awaited' = [awaited EXCEPT ![p] = 1]
          /\ seen' = [seen EXCEPT ![p] = [b \in Blocks |-> Buffered(b)]]
      BY <1>6 DEF SyncWait, Goto
    <2>2. seen'[p] = Current /\ awaited'[p] = 1 /\ pc'[p] = "sync"
      <3>1. Current = [b \in Blocks |-> Buffered(b)]
        BY <2>0, CurrentIsBuffered
      <3>2. seen'[p] = [b \in Blocks |-> Buffered(b)] /\ awaited'[p] = 1 /\ pc'[p] = "sync"
        BY <2>1, <1>t DEF TypeOK
      <3> QED BY <3>1, <3>2
    <2>3. \A q \in Procs : q # p => seen'[q] = seen[q] /\ awaited'[q] = awaited[q] /\ pc'[q] = pc[q]
      BY <2>1, <1>t DEF TypeOK
    <2>4. ASSUME NEW q \in Procs, pc'[q] = "sync"
          PROVE  \A b \in Blocks : /\ seen'[q][b] <= Current'[b]
                                   /\ awaited'[q] = 0 => seen'[q][b] <= Recovered'[b]
      <3>1. CASE q = p
        <4>1. seen'[q] = Current /\ awaited'[q] = 1
          BY <3>1, <2>2
        <4>2. \A b \in Blocks : Current[b] <= Current'[b]
          BY <2>0, <1>e
        <4> QED BY <4>1, <4>2
      <3>2. CASE q # p
        <4>1. pc[q] = "sync" /\ seen'[q] = seen[q] /\ awaited'[q] = awaited[q]
          BY <3>2, <2>3, <2>4
        <4> QED BY <4>1, <2>0, <1>k
      <3> QED BY <3>1, <3>2
    <2>5. ASSUME NEW q \in Procs, awaited'[q] > 0
          PROVE  pc'[q] = "sync" /\ (committing' \/ outstanding' > 0)
      BY <2>1, <2>2, <2>3, <2>5, <1>t DEF SyncIsCovered
    <2> QED BY <2>4, <2>5 DEF SyncIsCovered
  <1>7. ASSUME NEW p \in Procs, SyncAgain(p) PROVE SyncIsCovered'
    <2>1. UNCHANGED <<pc, seen, awaited, committing, outstanding, boot>> /\ boot = "up"
      BY <1>7 DEF SyncAgain, opVars, syncVars, IInv, BootIsQuiet
    <2> QED BY <2>1, <1>u
  <1>8. ASSUME NEW p \in Procs, SyncReturn(p) PROVE SyncIsCovered'
    <2>1. /\ boot' = "up" /\ UNCHANGED <<committing, outstanding, awaited>>
          /\ pc' = [pc EXCEPT ![p] = "user"] /\ awaited[p] = 0
          /\ seen' = [seen EXCEPT ![p] = Nothing]
      BY <1>8 DEF SyncReturn, Goto, IInv, BootIsQuiet
    <2>2. /\ pc'[p] = "user"
          /\ \A q \in Procs : q # p => seen'[q] = seen[q] /\ awaited'[q] = awaited[q] /\ pc'[q] = pc[q]
      BY <2>1, <1>t DEF TypeOK
    <2>3. ASSUME NEW q \in Procs, pc'[q] = "sync"
          PROVE  \A b \in Blocks : /\ seen'[q][b] <= Current'[b]
                                   /\ awaited'[q] = 0 => seen'[q][b] <= Recovered'[b]
      <3>1. q # p
        BY <2>2, <2>3
      <3> QED BY <3>1, <2>1, <2>2, <2>3, <1>k
    <2>4. ASSUME NEW q \in Procs, awaited'[q] > 0
          PROVE  pc'[q] = "sync" /\ (committing' \/ outstanding' > 0)
      BY <2>1, <2>2, <2>4, <1>t DEF SyncIsCovered
    <2> QED BY <2>3, <2>4 DEF SyncIsCovered
  <1>9. ASSUME NEW p \in Procs, Commit(p) PROVE SyncIsCovered'
    <2>0. boot = "up" /\ boot' = "up" /\ committing /\ pc[p] \in CommitLabels
      BY <1>9, CommitterAt, CommitAlone DEF Commit, WriteLogOne, WriteLogEnd, WriteHead,
            InstallTrans, InstallEnd, Erase, FinishCommit
    <2>1. CASE FinishCommit(p)
      <3>1. /\ pc[p] = "done" /\ pc' = [pc EXCEPT ![p] = "user"] /\ seen' = seen
            /\ awaited' = [q \in Procs |-> IF awaited[q] > 0 THEN awaited[q] - 1 ELSE 0]
        BY <2>1 DEF FinishCommit, Goto
      <3>2. At("done") /\ ~At("install") /\ ~At("erase") /\ InOp = {}
        BY <3>1, CommitAlone DEF CommitLabels
      <3>3. lh = <<>> /\ head = <<>>
        BY <3>2, <2>0 DEF IInv, CommitPhases
      <3>4. Recovered = Current
        BY <3>2, <3>3, <2>0, QuietIsDurable
      <3>5. \A q \in Procs : awaited'[q] = 0
        BY <3>1, <1>t DEF TypeOK
      <3>6. ASSUME NEW q \in Procs, pc'[q] = "sync", NEW b \in Blocks
            PROVE  seen'[q][b] <= Current'[b] /\ seen'[q][b] <= Recovered'[b]
        <4>1. pc[q] = "sync"
          BY <3>1, <3>6, <1>t DEF TypeOK
        <4>2. seen[q][b] <= Current[b]
          BY <4>1, <1>t DEF SyncIsCovered
        <4> QED BY <4>2, <3>1, <3>4, <1>e, <1>n, <1>m
      <3> QED BY <3>5, <3>6 DEF SyncIsCovered
    <2>2. CASE ~FinishCommit(p)
      <3>1. UNCHANGED <<seen, awaited, committing>>
        BY <1>9, <2>2 DEF Commit, WriteLogOne, WriteLogEnd, WriteHead, InstallTrans, InstallEnd,
                          Erase, opVars, syncVars
      <3>2. \A q \in Procs : pc'[q] = "sync" <=> pc[q] = "sync"
        <4>1. pc' = pc \/ \E l \in CommitLabels : pc' = [pc EXCEPT ![p] = l]
          BY <1>9, <2>2 DEF Commit, WriteLogOne, WriteLogEnd, WriteHead, InstallTrans, InstallEnd,
                            Erase, opVars, Goto, CommitLabels
        <4> QED BY <4>1, <2>0, <1>t DEF TypeOK, CommitLabels
      <3> QED BY <3>1, <3>2, <2>0, <1>u
    <2> QED BY <2>1, <2>2
  <1> QED BY <1>1, <1>2, <1>3, <1>4, <1>5, <1>6, <1>7, <1>8, <1>9 DEF Next, Sync

\* Every step that could admit a sleeper, or end its sync(), wakes it.
LEMMA WakeStep == ASSUME IInv, Next PROVE NoLostWakeup'
  <1>t. TypeOK /\ NoLostWakeup
    BY DEF IInv
  <1>s. /\ Len(lh) \in Nat /\ outstanding \in Nat
        /\ (outstanding + 1) * MAXOPBLOCKS \in Nat
        /\ (outstanding + 1 + 1) * MAXOPBLOCKS \in Nat
        /\ (outstanding + 1) * MAXOPBLOCKS <= (outstanding + 1 + 1) * MAXOPBLOCKS
    <2>1. Len(lh) \in Nat /\ outstanding \in Nat /\ MAXOPBLOCKS \in Nat
      BY <1>t, LogSlots, Counts, LogAssumption DEF TypeOK
    <2>2. (outstanding + 1 + 1) * MAXOPBLOCKS = (outstanding + 1) * MAXOPBLOCKS + MAXOPBLOCKS
      BY <2>1
    <2>3. (outstanding + 1) * MAXOPBLOCKS \in Nat
      BY <2>1
    <2> QED BY <2>1, <2>2, <2>3
  <1>w. ASSUME waiting' = {} PROVE NoLostWakeup'
    BY <1>w DEF NoLostWakeup
  <1>k. ASSUME \A q \in waiting' : pc'[q] = pc[q] /\ awaited'[q] = awaited[q] /\ q \in waiting,
               ~CanBegin => ~CanBegin',
               committing \/ outstanding > 0 => committing' \/ outstanding' > 0
        PROVE  NoLostWakeup'
    BY <1>k, <1>t DEF NoLostWakeup
  <1>1. CASE Crash
    BY <1>1, <1>w DEF Crash, AtBoot
  <1>2. CASE Recover
    BY <1>2, <1>w DEF Recover, ReadHead, RecoverOne, RecoverAll, RecoverErase, IInv, BootIsQuiet
  <1>3. ASSUME NEW b \in Blocks, Recycle(b) PROVE NoLostWakeup'
    BY <1>3, <1>k DEF Recycle, opVars, syncVars, CanBegin
  <1>4. ASSUME NEW p \in Procs, BeginOp(p) PROVE NoLostWakeup'
    <2>1. /\ p \notin waiting /\ pc' = [pc EXCEPT ![p] = "op"] /\ outstanding' = outstanding + 1
          /\ UNCHANGED <<waiting, awaited, lh, committing>>
      BY <1>4 DEF BeginOp, Beginning, syncVars
    <2>2. \A q \in waiting' : pc'[q] = pc[q]
      BY <2>1, <1>t DEF TypeOK
    <2>3. ~CanBegin => ~CanBegin'
      BY <2>1, <1>s, LogAssumption DEF CanBegin
    <2> QED BY <2>1, <2>2, <2>3, <1>s, <1>k
  <1>5. ASSUME NEW p \in Procs, BeginWait(p) PROVE NoLostWakeup'
    <2>1. /\ waiting' = waiting \cup {p} /\ pc' = [pc EXCEPT ![p] = "begin"] /\ ~CanBegin
          /\ UNCHANGED <<awaited, lh, committing, outstanding>>
      BY <1>5 DEF BeginWait, syncVars
    <2>2. ~CanBegin' /\ pc'[p] = "begin" /\ \A q \in Procs : q # p => pc'[q] = pc[q]
      BY <2>1, <1>t DEF CanBegin, TypeOK
    <2> QED BY <2>1, <2>2, <1>t DEF NoLostWakeup, TypeOK
  <1>6. ASSUME NEW p \in Procs, End(p) PROVE NoLostWakeup'
    <2>1. CASE EndOp(p)
      BY <2>1, <1>w DEF EndOp
    <2>2. CASE EndLastOp(p)
      <3>1. /\ pc[p] = "op" /\ committing' = TRUE /\ UNCHANGED <<waiting, awaited>>
            /\ \A q \in Procs : q # p => pc'[q] = pc[q]
        BY <2>2, <1>t DEF EndLastOp, Goto, syncVars, TypeOK
      <3>2. p \notin waiting
        BY <3>1, <1>t DEF NoLostWakeup
      <3> QED BY <3>1, <3>2, <1>t, <1>k DEF CanBegin, TypeOK
    <2> QED BY <1>6, <2>1, <2>2 DEF End
  <1>7. ASSUME NEW p \in Procs, NEW b \in Blocks, LogWrite(p, b) PROVE NoLostWakeup'
    <2>1. /\ UNCHANGED <<pc, waiting, awaited, committing, outstanding>>
          /\ lh' = lh \/ lh' = Append(lh, b)
      BY <1>7 DEF LogWrite, syncVars
    <2>2. Len(lh') \in Nat /\ Len(lh) <= Len(lh')
      BY <2>1, <1>t, <1>s, LogAppend
    <2>3. ~CanBegin => ~CanBegin'
      BY <2>1, <2>2, <1>s, LogAssumption DEF CanBegin
    <2> QED BY <2>1, <2>3, <1>k
  <1>8. ASSUME NEW p \in Procs, SyncWait(p) \/ SyncAgain(p) PROVE NoLostWakeup'
    <2>1. /\ waiting' = waiting \cup {p} /\ UNCHANGED <<lh, committing, outstanding>>
          /\ \A q \in Procs : q # p => pc'[q] = pc[q] /\ awaited'[q] = awaited[q]
      BY <1>8, <1>t DEF SyncWait, SyncAgain, Goto, opVars, syncVars, TypeOK
    <2>2. pc'[p] = "sync" /\ awaited'[p] > 0 /\ (committing \/ outstanding > 0)
      BY <1>8, <1>t DEF SyncWait, SyncAgain, Goto, opVars, syncVars, TypeOK, IInv, SyncIsCovered
    <2>3. ~CanBegin => ~CanBegin'
      BY <2>1 DEF CanBegin
    <2> QED BY <2>1, <2>2, <2>3, <1>t DEF NoLostWakeup, TypeOK
  <1>9. ASSUME NEW p \in Procs, SyncReturn(p) PROVE NoLostWakeup'
    <2>1. /\ p \notin waiting /\ UNCHANGED <<waiting, awaited, lh, committing, outstanding>>
          /\ \A q \in Procs : q # p => pc'[q] = pc[q]
      BY <1>9, <1>t DEF SyncReturn, Goto, TypeOK
    <2> QED BY <2>1, <1>t, <1>k DEF CanBegin, TypeOK
  <1>10. ASSUME NEW p \in Procs, Commit(p) PROVE NoLostWakeup'
    <2>1. CASE FinishCommit(p)
      BY <2>1, <1>w DEF FinishCommit
    <2>2. CASE ~FinishCommit(p)
      <3>1. pc[p] \in CommitLabels /\ committing
        BY <1>10, CommitterAt, CommitAlone
      <3>2. UNCHANGED <<waiting, awaited, committing>>
        BY <1>10, <2>2 DEF Commit, WriteLogOne, WriteLogEnd, WriteHead, InstallTrans, InstallEnd,
                           Erase, opVars, syncVars
      <3>3. \A q \in Procs : q # p => pc'[q] = pc[q]
        BY <1>10, <2>2, <1>t DEF Commit, WriteLogOne, WriteLogEnd, WriteHead, InstallTrans,
                           InstallEnd, Erase, opVars, Goto, TypeOK
      <3>4. p \notin waiting
        BY <3>1, <1>t DEF NoLostWakeup, CommitLabels
      <3> QED BY <3>1, <3>2, <3>3, <3>4, <1>t, <1>k DEF CanBegin, TypeOK
    <2> QED BY <2>1, <2>2
  <1> QED BY <1>1, <1>2, <1>3, <1>4, <1>5, <1>6, <1>7, <1>8, <1>9, <1>10 DEF Next, Sync

-----------------------------------------------------------------------------
(* The theorems *)

\* The log of a disk that mkfs just wrote satisfies the inductive invariant.
LEMMA InitHolds == Init => IInv
  <1> SUFFICES ASSUME Init PROVE IInv
    OBVIOUS
  <1>1. /\ lh = <<>> /\ head = <<>> /\ tail = 0 /\ boot = "read_head" /\ waiting = {}
        /\ outstanding = 0 /\ committing = FALSE
        /\ home = [b \in Blocks |-> 0] /\ logArea = [i \in 1 .. LOGBLOCKS |-> 0]
        /\ cache = [b \in Blocks |-> NotCached] /\ pin = [b \in Blocks |-> 0]
        /\ pc = [q \in Procs |-> "user"] /\ wrote = [q \in Procs |-> {}]
        /\ awaited = [q \in Procs |-> 0] /\ seen = [q \in Procs |-> Nothing]
    BY DEF Init, AtBoot
  <1>2. TypeOK
    <2>1. 0 \in Versions /\ 0 \in 0 .. LOGBLOCKS /\ <<>> \in Headers
      BY EmptyHeader, LogAssumption DEF Versions
    <2>2. 0 \in 0 .. Cardinality(Procs)
      BY FS_CardinalityType, LogAssumption
    <2>3. Nothing \in [Blocks -> Versions]
      BY <2>1 DEF Nothing
    <2>4. /\ home \in [Blocks -> Versions] /\ logArea \in [1 .. LOGBLOCKS -> Versions]
          /\ cache \in [Blocks -> Versions \cup {NotCached}] /\ pin \in [Blocks -> 0 .. 1]
      BY <1>1, <2>1
    <2>5. /\ pc \in [Procs -> Labels] /\ wrote \in [Procs -> SUBSET Blocks]
          /\ awaited \in [Procs -> 0 .. 1] /\ seen \in [Procs -> [Blocks -> Versions]]
      BY <1>1, <2>3 DEF Labels
    <2> QED BY <1>1, <2>1, <2>2, <2>4, <2>5 DEF TypeOK
  <1>3. Injective(lh) /\ Injective(head)
    BY <1>1, EmptyHeader
  <1>4. InOp = {} /\ Committer = {}
    BY <1>1 DEF InOp, Committer
  <1>5. CommitIsExclusive
    BY <1>1, <1>4, FS_EmptySet DEF CommitIsExclusive
  <1>6. LogHasRoom
    <2>1. Reserved = {}
      BY <1>4 DEF Reserved
    <2> QED BY <1>1, <2>1, FS_EmptySet, EmptyHeader, LogAssumption DEF LogHasRoom
  <1>7. PinnedUntilInstalled
    BY <1>1 DEF PinnedUntilInstalled, Pending
  <1>8. BootIsQuiet /\ RecoveryPhases /\ CommitPhases /\ NoLostWakeup /\ SyncIsCovered
    BY <1>1 DEF BootIsQuiet, RecoveryPhases, CommitPhases, NoLostWakeup, SyncIsCovered
  <1>9. DiskIsBehind
    <2>1. Recovered \in [Blocks -> Versions] /\ Current = Recovered
      BY <1>1, <1>2, <1>3, RecoveredType, CurrentIsBuffered
    <2> QED BY <2>1, LogAssumption DEF DiskIsBehind, Versions
  <1> QED BY <1>2, <1>3, <1>5, <1>6, <1>7, <1>8, <1>9 DEF IInv

\* A step keeps the types.
LEMMA TypeStep == ASSUME IInv, Next PROVE TypeOK'
  BY CrashType, RecoverType, CallType, WriteType, CommitType DEF Next, IInv

\* Every step keeps the inductive invariant.
LEMMA InvStep == IInv /\ [Next]_vars => IInv'
  <1>1. ASSUME IInv, Next PROVE IInv'
    <2>1. DiskIsBehind'
      BY <1>1, EffectStep DEF DiskIsBehind
    <2> QED BY <1>1, <2>1, TypeStep, ExclusiveStep, BootStep, RoomStep, InjectiveStep, PinStep,
               RecoveryStep, CommitPhaseStep, SyncStep, WakeStep DEF IInv
  <1>2. ASSUME IInv, UNCHANGED vars PROVE IInv'
    <2>1. /\ InOp' = InOp /\ Committer' = Committer /\ Reserved' = Reserved /\ Logged' = Logged
          /\ Pending' = Pending /\ Recovered' = Recovered /\ Current' = Current
      BY <1>2 DEF vars, diskVars, opVars, syncVars, InOp, Committer, Reserved, Logged, Pending,
                  At, Recovered, Current, Buffered
    <2>2. TypeOK' /\ Injective(lh)' /\ Injective(head)' /\ BootIsQuiet'
      BY <1>2 DEF IInv, vars, diskVars, opVars, syncVars, TypeOK, Injective, BootIsQuiet
    <2>3. CommitIsExclusive' /\ LogHasRoom' /\ PinnedUntilInstalled' /\ DiskIsBehind' /\ SyncIsCovered'
      BY <1>2, <2>1 DEF IInv, vars, diskVars, opVars, syncVars, CommitIsExclusive, LogHasRoom,
                        PinnedUntilInstalled, DiskIsBehind, SyncIsCovered
    <2>4. RecoveryPhases' /\ CommitPhases' /\ NoLostWakeup'
      BY <1>2, <2>1 DEF IInv, vars, diskVars, opVars, syncVars, RecoveryPhases, CommitPhases,
                        NoLostWakeup, At, Copied, Installed, Buffered, CanBegin
    <2> QED BY <2>2, <2>3, <2>4 DEF IInv
  <1> QED BY <1>1, <1>2

\* The inductive invariant holds in every reachable state.
THEOREM LogInvariant == Spec => []IInv
  BY InitHolds, InvStep, PTL DEF Spec

\* The variables of log.c and of the disk keep their types.
THEOREM TypeCorrect == Spec => []TypeOK
  <1>1. IInv => TypeOK
    BY DEF IInv
  <1> QED BY <1>1, LogInvariant, PTL

\* None of log.c's panics is reachable: the reservation of begin_op() is
\* enough for every block that an admitted operation writes.
THEOREM NeverPanics == Spec => []NoPanic
  <1>1. IInv => NoPanic
    <2> SUFFICES ASSUME IInv PROVE NoPanic
      OBVIOUS
    <2>1. outstanding = Cardinality(InOp) /\ (committing => outstanding = 0)
      BY FS_EmptySet DEF IInv, CommitIsExclusive
    <2> QED BY <2>1, RoomLeft DEF NoPanic
  <1> QED BY <1>1, LogInvariant, PTL

\* Every change that could admit a process sleeping in begin_op(), or end a
\* sys_sync(), wakes it.
THEOREM WakeupsAreNotLost == Spec => []NoLostWakeup
  <1>1. IInv => NoLostWakeup
    BY DEF IInv
  <1> QED BY <1>1, LogInvariant, PTL

\* One process commits at a time, a buffer that may be recycled is clean, and
\* when nothing is in progress everything is durable.
THEOREM LogSound == Spec => []LogIsSound
  <1>1. IInv => LogIsSound
    <2> SUFFICES ASSUME IInv PROVE LogIsSound
      OBVIOUS
    <2>1. OneCommitter
      <3>1. CASE committing
        <4>1. PICK p \in Committer : Committer = {p}
          BY <3>1 DEF IInv, CommitIsExclusive
        <4> QED BY <3>1, <4>1, FS_Singleton DEF OneCommitter
      <3>2. CASE ~committing
        BY <3>2, FS_EmptySet DEF IInv, CommitIsExclusive, OneCommitter
      <3> QED BY <3>1, <3>2
    <2>2. RecyclableIsClean
      BY DEF IInv, PinnedUntilInstalled, RecyclableIsClean
    <2>3. QuiescentIsDurable
      <3>1. ASSUME boot = "up", ~committing, outstanding = 0 PROVE Recovered = Current
        <4>1. Committer = {} /\ InOp = {}
          BY <3>1, Counts, FS_EmptySet DEF IInv, CommitIsExclusive
        <4>2. ~At("install") /\ ~At("erase")
          BY <4>1 DEF At, Committer
        <4> QED BY <3>1, <4>1, <4>2, QuietIsDurable DEF IInv, CommitPhases
      <3> QED BY <3>1 DEF QuiescentIsDurable
    <2> QED BY <2>1, <2>2, <2>3 DEF LogIsSound
  <1> QED BY <1>1, LogInvariant, PTL

\* When sys_sync() returns, every write made before the call is on the disk.
THEOREM SyncDurable == Spec => SyncIsDurable
  <1>1. IInv /\ [Next]_vars =>
          [\A p \in Procs : pc[p] = "sync" /\ pc'[p] = "user" /\ boot' = "up" =>
              \A b \in Blocks : seen[p][b] <= Recovered[b]]_vars
    <2> SUFFICES ASSUME IInv, Next, NEW p \in Procs, pc[p] = "sync", pc'[p] = "user", boot' = "up",
                        NEW b \in Blocks
                 PROVE  seen[p][b] <= Recovered[b]
      OBVIOUS
    <2>t. TypeOK
      BY DEF IInv
    <2>1. awaited[p] = 0 => seen[p][b] <= Recovered[b]
      BY DEF IInv, SyncIsCovered
    <2>2. ASSUME NEW q \in Procs, NEW l, pc' = [pc EXCEPT ![q] = l] PROVE q = p
      BY <2>2, <2>t DEF TypeOK
    <2>3. CASE Crash \/ Recover \/ \E c \in Blocks : Recycle(c) \/ \E q \in Procs : LogWrite(q, c)
      BY <2>3 DEF Crash, AtBoot, Recover, ReadHead, RecoverOne, RecoverAll, RecoverErase, Recycle,
                  LogWrite, opVars, IInv, BootIsQuiet
    <2>4. ASSUME NEW q \in Procs, SyncReturn(q) PROVE awaited[p] = 0
      BY <2>2, <2>4 DEF SyncReturn, Goto
    <2>5. ASSUME NEW q \in Procs,
                 BeginOp(q) \/ BeginWait(q) \/ End(q) \/ Commit(q) \/ SyncWait(q) \/ SyncAgain(q)
          PROVE  FALSE
      <3>1. pc' = pc \/ (pc[q] # "sync" /\ \E l \in Labels : pc' = [pc EXCEPT ![q] = l])
        BY <2>5 DEF BeginOp, BeginWait, Beginning, End, EndOp, EndLastOp, SyncWait, SyncAgain,
                    Commit, WriteLogOne, WriteLogEnd, WriteHead, InstallTrans, InstallEnd, Erase,
                    FinishCommit, Goto, opVars, Labels
      <3> QED BY <3>1, <2>2
    <2> QED BY <2>1, <2>3, <2>4, <2>5 DEF Next, Sync
  <1> QED BY <1>1, LogInvariant, PTL DEF Spec, SyncIsDurable

\* The initial disk is AtomicDisk's.
LEMMA AbstractInit == Init => Abstract!Init
  <1> SUFFICES ASSUME Init PROVE Abstract!Init
    OBVIOUS
  <1>1. /\ head = <<>> /\ boot = "read_head" /\ home = [b \in Blocks |-> 0]
        /\ logArea = [i \in 1 .. LOGBLOCKS |-> 0] /\ \A q \in Procs : pc[q] = "user"
    BY DEF Init, AtBoot
  <1>2. InOp = {}
    BY <1>1 DEF InOp
  <1>3. IInv
    BY InitHolds
  <1>4. Recovered = home
    BY <1>1, <1>3, EmptyHeader, RecoveredHome, RecoveredIs DEF IInv, TypeOK
  <1> QED BY <1>1, <1>2, <1>4, CurrentIsBuffered DEF Abstract!Init

\* Every step is a step of AtomicDisk or changes nothing that it sees.
LEMMA AbstractStep == IInv /\ [Next]_vars => [Abstract!Next]_(Abstract!vars)
  <1>s. ASSUME Recovered' = Recovered, Current' = Current, InOp' = InOp
        PROVE  UNCHANGED Abstract!vars
    BY <1>s DEF Abstract!vars
  <1>0. ASSUME IInv, UNCHANGED vars PROVE UNCHANGED Abstract!vars
    <2>1. Recovered' = Recovered /\ Current' = Current /\ InOp' = InOp
      BY <1>0 DEF vars, diskVars, opVars, Recovered, Current, Buffered, InOp
    <2> QED BY <2>1, <1>s
  <1>1. ASSUME IInv, Crash PROVE Abstract!Next
    BY <1>1, CrashEffect DEF Abstract!Next, Abstract!Crash
  <1>2. ASSUME IInv, Recover PROVE UNCHANGED Abstract!vars
    BY <1>2, <1>s, RecoverEffect
  <1>3. ASSUME IInv, Next, NEW b \in Blocks, Recycle(b) PROVE UNCHANGED Abstract!vars
    <2>1. InOp' = InOp
      BY <1>3 DEF Recycle, opVars, InOp
    <2> QED BY <1>3, <2>1, <1>s, CallEffect
  <1>4. ASSUME IInv, Next, NEW p \in Procs, BeginOp(p) PROVE Abstract!Next
    <2>1. InOp' = InOp \cup {p} /\ p \notin InOp
      BY <1>4, Moves DEF BeginOp, Beginning, InOp, IInv
    <2> QED BY <1>4, <2>1, CallEffect DEF Abstract!Next, Abstract!Begin
  <1>5. ASSUME IInv, Next, NEW p \in Procs, End(p) PROVE Abstract!Next
    <2>1. PICK l \in Labels \ {"op"} : pc' = [pc EXCEPT ![p] = l] /\ pc[p] = "op"
      BY <1>5 DEF End, EndOp, EndLastOp, Goto, Labels
    <2>2. InOp' = InOp \ {p} /\ p \in InOp
      BY <1>5, <2>1, Moves DEF InOp, IInv
    <2> QED BY <1>5, <2>2, CallEffect DEF Abstract!Next, Abstract!End
  <1>6. ASSUME IInv, Next, NEW p \in Procs, BeginWait(p) \/ Sync(p) PROVE UNCHANGED Abstract!vars
    <2>1. \/ pc' = pc
          \/ pc[p] # "op" /\ \E l \in Labels \ {"op"} : pc' = [pc EXCEPT ![p] = l]
      BY <1>6 DEF BeginWait, Beginning, Sync, SyncWait, SyncAgain, SyncReturn, Goto, opVars, Labels
    <2>2. InOp' = InOp
      BY <1>6, <2>1, Moves DEF InOp, IInv
    <2> QED BY <1>6, <2>2, <1>s, CallEffect
  <1>7. ASSUME IInv, Next, NEW p \in Procs, WriteHead(p) PROVE Abstract!Next
    BY <1>7, CommitEffect DEF Abstract!Next, Abstract!Commit
  <1>8. ASSUME IInv, Next, NEW p \in Procs, Commit(p), ~WriteHead(p) PROVE UNCHANGED Abstract!vars
    BY <1>8, <1>s, CommitStepEffect
  <1>9. ASSUME IInv, Next, NEW p \in Procs, NEW b \in Blocks, LogWrite(p, b) PROVE Abstract!Next
    BY <1>9, WriteEffect DEF Abstract!Next, Abstract!Write
  <1> QED BY <1>0, <1>1, <1>2, <1>3, <1>4, <1>5, <1>6, <1>7, <1>8, <1>9 DEF Next

\* The log implements atomic group commit: whatever the crash, and however
\* often recovery itself is interrupted, the disk goes from one quiescent
\* image of memory to a later one.
THEOREM LogIsAtomic == Spec => Atomicity
  BY AbstractInit, AbstractStep, LogInvariant, PTL DEF Spec, Atomicity, Abstract!Spec
=============================================================================
