---------------------------- MODULE DevicesProofs -----------------------------
(***************************************************************************)
(* First the disk: the buffer cache over the virtio driver leaks no        *)
(* reference, forgets no sleeper and implements BlockStore, proved for     *)
(* every number of processes, buffers and blocks and every number of       *)
(* descriptors the driver may have.  Then the console: it forgets no sleeper and           *)
(* implements LineDiscipline, proved for every number of readers and       *)
(* writers, every size of the buffer, and every width of its indices; and  *)
(* with both, that so does Devices.                                        *)
(***************************************************************************)
EXTENDS Devices, NumberProofs, FiniteSetTheorems, TLAPS

-----------------------------------------------------------------------------
(* The inductive invariant *)

\* Where a process is in virtio_disk_rw(), and where it holds b->lock.
InDriver == {"read", "write", "flush"}
Using == {"valid", "read", "hold", "write", "flush"}

\* p has a chain of descriptors, and its first.
Chained(p) == rw[p] \in {"wait", "check"}
First3(p) == Least(idx[p])

RwAgrees == \A p \in Procs : rw[p] # "none" <=> pc[p] \in InDriver

\* A process has a buffer, of some block, from bget() to the end of brelse().
Attached == \A p \in Procs :
    /\ mine[p] # Nobody <=> pc[p] # "user"
    /\ mine[p] # Nobody => blockno[mine[p]] # Nobody

\* The sleeplock is with the process that uses the buffer; nobody sleeps on
\* one that is free.
Locking == \A p \in Procs :
    /\ \A b \in Bufs : lock[b] = p <=> pc[p] \in Using /\ mine[p] = b
    /\ pc[p] = "locksleep" => lock[mine[p]] # Nobody

\* One buffer per block.
OneBuffer == \A b, c \in Bufs : blockno[b] = blockno[c] /\ blockno[b] # Nobody => b = c

\* What is pinned is cached, and counts as a reference.
PinnedIsCached == \A n \in pinned : \E b \in Bufs : blockno[b] = n /\ valid[b]
Users(b) == {p \in Procs : mine[p] = b}
Pins(b) == IF blockno[b] \in pinned THEN 1 ELSE 0
Referenced == \A b \in Bufs : refcnt[b] = Cardinality(Users(b)) + Pins(b)

\* What a process may assume of its buffer where it is.
Validity ==
    /\ \A b \in Bufs : valid[b] => blockno[b] # Nobody
    /\ \A p \in Procs :
          /\ pc[p] = "read" => ~valid[mine[p]]
          /\ pc[p] \in {"hold", "write", "flush"} => valid[mine[p]]
          /\ pc[p] = "flush" => blockno[mine[p]] \in pinned
          /\ pc[p] = "write" => blockno[mine[p]] \notin pinned

\* The descriptors are shared out among the free list and the chains, whose
\* info is their buffer.
Chains ==
    /\ \A p, q \in Procs : p # q => idx[p] \cap idx[q] = {}
    /\ \A p \in Procs : idx[p] \cap free = {}
    /\ free \cup UNION {idx[p] : p \in Procs} = Desc
    /\ \A p \in Procs : idx[p] # {} <=> Chained(p)
    /\ \A p \in Procs : Chained(p) => info[First3(p)] = mine[p]

\* rq is what p asked for.
Asks(p, rq) ==
    /\ Chained(p) /\ rq.id = First3(p)
    /\ rq.buf = mine[p] /\ rq.block = blockno[mine[p]] /\ rq.write = (pc[p] # "read")
AtDevice(p) == \E rq \in avail : rq.id = First3(p)
InRing(p) == \E i \in DOMAIN used : used[i] = First3(p)

\* A request is at the device, or in the used ring once, or done; b->disk is
\* set until it is done, and nobody sleeps for one that is.
Pending ==
    /\ \A rq \in avail : \E p \in Procs : Asks(p, rq)
    /\ \A i \in DOMAIN used : \E p \in Procs : Chained(p) /\ used[i] = First3(p)
    /\ \A i, j \in DOMAIN used : used[i] = used[j] => i = j
    /\ \A b \in disk : \E p \in Procs : Chained(p) /\ mine[p] = b
    /\ \A p \in Procs : Chained(p) =>
          /\ mine[p] \in disk <=> AtDevice(p) \/ InRing(p)
          /\ ~(AtDevice(p) /\ InRing(p))
    /\ \A p \in Procs : rw[p] = "wait" => mine[p] \in disk

\* Whoever waits for descriptors waits for a chain to be freed.
WaitersForChains == \A p \in Procs :
    rw[p] = "full" => Cardinality(free) < 3 /\ \E q \in Procs : Chained(q)

\* A request the device has done leaves the buffer like the disk, and so is a
\* valid buffer that is neither pinned nor being written.
Served == \A p \in Procs : Chained(p) /\ ~AtDevice(p) => data[mine[p]] = media[blockno[mine[p]]]
Clean == \A b \in Bufs :
    valid[b] /\ blockno[b] \notin pinned /\ (\A p \in Procs : pc[p] = "write" => mine[p] # b)
        => data[b] = media[blockno[b]]

\* Every buffer is in the list.
Listed == \A b \in Bufs : \E i \in DOMAIN lru : lru[i] = b

IInv ==
    /\ CacheTypeOK
    /\ RwAgrees /\ Attached /\ Locking /\ OneBuffer /\ PinnedIsCached /\ Referenced /\ Validity
    /\ Chains /\ Pending /\ WaitersForChains /\ CompletionIsAnnounced
    /\ Served /\ Clean /\ Listed

-----------------------------------------------------------------------------
(* Facts about the operators *)

LEMMA Basics ==
  /\ IsFiniteSet(Procs) /\ IsFiniteSet(Bufs)
  /\ Cardinality(Procs) \in Nat /\ Cardinality(Bufs) \in Nat
  /\ Nobody \notin Bufs /\ Nobody \notin Blocks /\ Nobody \notin Procs
  BY VirtioAssumption, FS_CardinalityType

\* What the scans of the list and of the descriptors find.
LEMMA LeastIsIn == ASSUME NEW S \in SUBSET Nat, S # {} PROVE Least(S) \in S
  <1>1. \E d \in S : \A o \in S : d <= o
    BY LeastNatural
  <1> QED BY <1>1 DEF Least

LEMMA FirstIsIn == ASSUME NEW S \in SUBSET Nat, S # {} PROVE First(S) \in S
  <1>1. \E d \in S : \A o \in S : d <= o
    BY LeastNatural
  <1> QED BY <1>1 DEF First

LEMMA LastIsIn == ASSUME NEW n \in Nat, NEW S \in SUBSET (0 .. n), S # {} PROVE Last(S) \in S
  <1>1. \E d \in S : \A o \in S : o <= d
    BY GreatestNatural
  <1> QED BY <1>1 DEF Last

\* bget() picks a buffer of the kind it looks for.
LEMMA Picked ==
  ASSUME CacheTypeOK, Listed, NEW S \in SUBSET Bufs, S # {}
  PROVE  lru[First(Positions(S))] \in S /\ lru[Last(Positions(S))] \in S
  <1>1. lru \in Seq(Bufs) /\ Len(lru) \in Nat /\ DOMAIN lru = 1 .. Len(lru)
    BY DEF CacheTypeOK
  <1>2. Positions(S) \in SUBSET (1 .. Len(lru)) /\ Positions(S) \in SUBSET Nat /\ Positions(S) # {}
    BY <1>1 DEF Positions, Listed
  <1>3. First(Positions(S)) \in Positions(S)
    BY <1>2, FirstIsIn
  <1>4. Positions(S) \in SUBSET (0 .. Len(lru))
    BY <1>1, <1>2
  <1>5. Last(Positions(S)) \in Positions(S)
    BY <1>1, <1>2, <1>4, LastIsIn
  <1> QED BY <1>3, <1>5 DEF Positions

\* alloc3_desc() gets descriptors that are free.
LEMMA ThreeIsFree ==
  ASSUME CacheTypeOK, Cardinality(free) >= 3
  PROVE  Three \subseteq free /\ Three # {} /\ Least(Three) \in Three
  <1>1. free \in SUBSET Desc /\ num \in Nat
    BY VirtioAssumption DEF CacheTypeOK, VirtioTypeOK
  <1>2. Desc \subseteq Nat /\ IsFiniteSet(Desc)
    <2>1. 0 \in Int /\ num - 1 \in Int
      BY <1>1
    <2>2. IsFiniteSet(0 .. num - 1)
      BY <2>1, FS_Interval
    <2> QED BY <2>2, <1>1 DEF Desc
  <1>3. IsFiniteSet(free) /\ free \in SUBSET Nat /\ Cardinality(free) \in Nat
    BY <1>1, <1>2, FS_Subset, FS_CardinalityType
  <1> DEFINE a == Least(free)
             b == Least(free \ {a})
             c == Least(free \ {a, b})
  <1>4. a \in free
    <2>1. free # {}
      BY <1>3, FS_EmptySet
    <2> QED BY <2>1, <1>3, LeastIsIn
  <1> HIDE DEF a
  <1>5. IsFiniteSet(free \ {a}) /\ Cardinality(free \ {a}) = Cardinality(free) - 1
    BY <1>3, <1>4, FS_RemoveElement
  <1>6. b \in free \ {a}
    <2>1. free \ {a} # {}
      BY <1>3, <1>5, FS_EmptySet
    <2>2. free \ {a} \in SUBSET Nat
      BY <1>3
    <2> QED BY <2>1, <2>2, LeastIsIn
  <1> HIDE DEF b
  <1>7. Cardinality((free \ {a}) \ {b}) = Cardinality(free) - 2
    <2>1. Cardinality((free \ {a}) \ {b}) = Cardinality(free \ {a}) - 1
      BY <1>5, <1>6, FS_RemoveElement
    <2> QED BY <2>1, <1>3, <1>5
  <1>8. c \in free \ {a, b}
    <2>1. (free \ {a}) \ {b} = free \ {a, b}
      OBVIOUS
    <2>2. free \ {a, b} # {}
      BY <2>1, <1>3, <1>7, FS_EmptySet
    <2>3. free \ {a, b} \in SUBSET Nat
      BY <1>3
    <2> QED BY <2>2, <2>3, LeastIsIn
  <1> HIDE DEF c
  <1>9. Three = {a, b, c}
    BY DEF Three, a, b, c
  <1>10. Three \subseteq free /\ Three # {} /\ Three \in SUBSET Nat
    BY <1>3, <1>4, <1>6, <1>8, <1>9
  <1>11. Least(Three) \in Three
    BY <1>10, LeastIsIn
  <1> QED BY <1>10, <1>11

\* brelse() keeps every buffer in the list.
LEMMA ToHeadFacts ==
  ASSUME CacheTypeOK, Listed, NEW b \in Bufs
  PROVE  /\ ToHead(b) \in Seq(Bufs) /\ Len(ToHead(b)) = Len(lru)
         /\ \A c \in Bufs : \E i \in DOMAIN ToHead(b) : ToHead(b)[i] = c
  <1>1. lru \in Seq(Bufs) /\ Len(lru) \in Nat /\ DOMAIN lru = 1 .. Len(lru)
        /\ \A i \in 1 .. Len(lru) : lru[i] \in Bufs
    BY DEF CacheTypeOK
  <1> DEFINE k == CHOOSE i \in DOMAIN lru : lru[i] = b
             t == [i \in DOMAIN lru |-> IF i = 1 THEN b ELSE IF i <= k THEN lru[i - 1] ELSE lru[i]]
  <1>2. k \in 1 .. Len(lru) /\ lru[k] = b
    BY <1>1 DEF Listed
  <1>3. ToHead(b) = t
    BY DEF ToHead
  <1> HIDE DEF k
  <1>4. t \in [1 .. Len(lru) -> Bufs]
    <2>1. \A i \in 1 .. Len(lru) : i # 1 => i - 1 \in 1 .. Len(lru)
      BY <1>1
    <2> QED BY <2>1, <1>1
  <1>5. t \in Seq(Bufs) /\ Len(t) = Len(lru) /\ DOMAIN t = 1 .. Len(lru)
    BY <1>1, <1>4
  <1>6. ASSUME NEW c \in Bufs PROVE \E i \in 1 .. Len(lru) : t[i] = c
    <2>1. PICK j \in 1 .. Len(lru) : lru[j] = c
      BY <1>1 DEF Listed
    <2>2. CASE c = b
      <3>1. 1 \in 1 .. Len(lru)
        BY <1>1, <1>2
      <3> QED BY <3>1, <2>2, <1>1
    <2>3. CASE c # b /\ j < k
      <3>1. j + 1 \in 1 .. Len(lru) /\ j + 1 # 1 /\ j + 1 <= k /\ (j + 1) - 1 = j
        BY <2>3, <1>1, <1>2
      <3>2. t[j + 1] = lru[j]
        BY <3>1, <1>1
      <3> QED BY <3>1, <3>2, <2>1
    <2>4. CASE c # b /\ j > k
      <3>1. j # 1 /\ ~(j <= k)
        BY <2>4, <1>1, <1>2
      <3>2. t[j] = lru[j]
        BY <3>1, <1>1
      <3> QED BY <3>2, <2>1
    <2>5. c # b => j # k
      BY <2>1, <1>2
    <2>6. CASE c # b /\ j = k
      BY <2>6, <2>5
    <2>7. j \in Int /\ k \in Int
      BY <1>1, <1>2
    <2>8. j < k \/ j > k \/ j = k
      BY <2>7
    <2> QED BY <2>2, <2>3, <2>4, <2>6, <2>8, Zenon
  <1> QED BY <1>3, <1>5, <1>6

\* Two processes do not use the same buffer, nor two buffers one block.
LEMMA Exclusive ==
  ASSUME IInv, NEW p \in Procs, NEW q \in Procs
  PROVE  /\ mine[p] # Nobody => mine[p] \in Bufs /\ blockno[mine[p]] \in Blocks
         /\ pc[p] # "user" => mine[p] \in Bufs
         /\ pc[p] \in Using /\ pc[q] \in Using /\ mine[p] = mine[q] => p = q
         /\ pc[p] \in Using /\ pc[q] \in Using /\ blockno[mine[p]] = blockno[mine[q]] => p = q
         /\ Chained(p) => pc[p] \in InDriver /\ pc[p] \in Using
  <1>t. /\ mine \in [Procs -> Bufs \cup {Nobody}] /\ pc \in [Procs -> Labels]
        /\ blockno \in [Bufs -> Blocks \cup {Nobody}]
        /\ Attached /\ Locking /\ OneBuffer /\ RwAgrees
    BY DEF IInv, CacheTypeOK
  <1>1. mine[p] # Nobody => mine[p] \in Bufs /\ blockno[mine[p]] \in Blocks
    BY <1>t DEF Attached
  <1>2. /\ pc[p] # "user" => mine[p] \in Bufs /\ blockno[mine[p]] # Nobody
        /\ pc[q] # "user" => mine[q] \in Bufs /\ blockno[mine[q]] # Nobody
    BY <1>t DEF Attached
  <1>3. pc[p] \in Using /\ pc[q] \in Using /\ mine[p] = mine[q] => p = q
    <2> SUFFICES ASSUME pc[p] \in Using, pc[q] \in Using, mine[p] = mine[q] PROVE p = q
      OBVIOUS
    <2>1. mine[p] \in Bufs
      BY <1>2 DEF Using
    <2>2. lock[mine[p]] = p /\ lock[mine[p]] = q
      BY <2>1, <1>t DEF Locking
    <2> QED BY <2>2
  <1>4. pc[p] \in Using /\ pc[q] \in Using /\ blockno[mine[p]] = blockno[mine[q]] => mine[p] = mine[q]
    BY <1>2, <1>t DEF OneBuffer, Using
  <1>5. Chained(p) => pc[p] \in InDriver
    BY <1>t DEF Chained, RwAgrees
  <1> QED BY <1>1, <1>2, <1>3, <1>4, <1>5 DEF InDriver, Using

\* The first descriptor of a chain is its own.
LEMMA ChainHead ==
  ASSUME IInv, NEW p \in Procs, NEW q \in Procs
  PROVE  /\ Chained(p) => First3(p) \in idx[p] /\ First3(p) \in Desc /\ First3(p) \notin free
         /\ Chained(p) /\ Chained(q) /\ First3(p) = First3(q) => p = q
         /\ Chained(p) /\ Chained(q) /\ mine[p] = mine[q] => p = q
  <1>t. idx \in [Procs -> SUBSET Desc] /\ num \in Nat /\ Chains
    BY VirtioAssumption DEF IInv, CacheTypeOK, VirtioTypeOK
  <1>1. Desc \subseteq Nat
    BY <1>t DEF Desc
  <1>2. ASSUME NEW s \in Procs, Chained(s) PROVE First3(s) \in idx[s]
    <2>1. idx[s] # {} /\ idx[s] \in SUBSET Nat
      BY <1>t, <1>1, <1>2 DEF Chains
    <2> QED BY <2>1, LeastIsIn DEF First3
  <1>3. Chained(p) /\ Chained(q) /\ mine[p] = mine[q] => p = q
    BY Exclusive
  <1> QED BY <1>t, <1>2, <1>3 DEF Chains

-----------------------------------------------------------------------------
(* What the steps change *)

\* kkill() makes a process that sleeps for b->lock look again.
Looks(p) == Goto(p, "locksleep", "lock") /\ UNCHANGED <<virtioVars, bufVars, lock, pinned, mine>>

\* The steps of a process outside virtio_disk_rw(), its call included.
CacheAction(p) ==
    \/ \E n \in Blocks : BgetHit(p, n) \/ BgetRecycle(p, n)
    \/ Acquire(p) \/ AcquireSleeps(p) \/ Release(p) \/ Brelse(p) \/ BreadHit(p) \/ BreadMiss(p)
    \/ \E v \in Values : LogWrite(p, v) \/ Bwrite(p, v)
    \/ Looks(p)

\* The ends of virtio_disk_rw().
Return(p) == BreadReturn(p) \/ BwriteReturn(p) \/ InstallReturn(p)

\* The steps within it.
Submit(p) ==
    /\ pc[p] \in InDriver
    /\ RwSubmit(p, mine[p], blockno[mine[p]], pc[p] # "read") /\ UNCHANGED cacheVars
Full(p) == RwFull(p) /\ UNCHANGED cacheVars
Again(p) == RwSleepAgain(p, mine[p]) /\ UNCHANGED cacheVars
Kicked(p) == RwKicked(p) /\ UNCHANGED cacheVars

\* The steps of the device and of the handler that touch no request.
Quiet == (DeviceInterrupts \/ IntrAck \/ IntrEndLoop \/ IntrReturn) /\ UNCHANGED cacheVars
Finish == IntrOne /\ UNCHANGED cacheVars
Serve(rq) == DeviceServes(rq) /\ UNCHANGED cacheVars

LEMMA Steps ==
  ASSUME CacheNext
  PROVE  num' = num /\
         \/ \E p \in Procs : CacheAction(p) \/ Return(p) \/ Submit(p) \/ Full(p) \/ Again(p)
                                \/ Kicked(p)
         \/ Quiet \/ Finish \/ \E rq \in avail : Serve(rq)
  <1>1. ASSUME NEW p \in Procs, Rw(p) PROVE Submit(p) \/ Full(p) \/ Again(p)
    BY <1>1 DEF Rw, Submit, Full, Again, InDriver
  <1>2. ASSUME NEW p \in Procs, KillSleeper(p) PROVE CacheAction(p) \/ Kicked(p)
    BY <1>2 DEF KillSleeper, CacheAction, Kicked, Looks
  <1>3. ASSUME DeviceStep, UNCHANGED cacheVars PROVE Quiet \/ Finish \/ \E rq \in avail : Serve(rq)
    BY <1>3 DEF DeviceStep, Quiet, Finish, Serve
  <1> QED BY <1>1, <1>2, <1>3 DEF CacheNext, CacheAction, Return

\* A step of the cache leaves the disk's queues alone, and the processes that
\* have a request.
LEMMA CacheEffect ==
  ASSUME IInv, NEW p \in Procs, CacheAction(p)
  PROVE  /\ UNCHANGED <<media, disk, free, info, avail, used, idx, owed, irq, intr>>
         /\ \A q \in Procs : rw'[q] = rw[q] \/ (q = p /\ rw[q] = "none" /\ rw'[q] = "alloc")
         /\ \A q \in Procs \ {p} : mine'[q] = mine[q]
         /\ \A q \in Procs \ {p} : pc'[q] = pc[q] \/ (pc[q] = "locksleep" /\ pc'[q] = "lock")
         /\ pc[p] \notin InDriver
  <1>t. /\ rw \in [Procs -> {"none", "alloc", "full", "wait", "check"}]
        /\ mine \in [Procs -> Bufs \cup {Nobody}] /\ pc \in [Procs -> Labels]
    BY DEF IInv, CacheTypeOK, VirtioTypeOK
  <1> USE DEF InDriver, bufVars, virtioVars, deviceVars, driverVars, Goto
  <1>1. CASE \E n \in Blocks : BgetHit(p, n) \/ BgetRecycle(p, n)
    BY <1>t, <1>1 DEF BgetHit, BgetRecycle
  <1>2. CASE Acquire(p) \/ AcquireSleeps(p) \/ BreadHit(p)
    BY <1>t, <1>2 DEF Acquire, AcquireSleeps, BreadHit, Looks
  <1>3. CASE Release(p)
    BY <1>t, <1>3 DEF Release
  <1>4. CASE Brelse(p)
    BY <1>t, <1>4 DEF Brelse
  <1>5. CASE BreadMiss(p)
    BY <1>t, <1>5 DEF BreadMiss, RwCall
  <1>6. CASE \E v \in Values : LogWrite(p, v)
    BY <1>t, <1>6 DEF LogWrite
  <1>7. CASE \E v \in Values : Bwrite(p, v)
    BY <1>t, <1>7 DEF Bwrite, RwCall
  <1>8. CASE Looks(p)
    BY <1>t, <1>8 DEF Looks
  <1> QED BY <1>1, <1>2, <1>3, <1>4, <1>5, <1>6, <1>7, <1>8 DEF CacheAction

\* The buffer that bget() recycles is nobody's, and its block new.
LEMMA Recycled ==
  ASSUME IInv, NEW p \in Procs, NEW n \in Blocks, BgetRecycle(p, n)
  PROVE  LET b == lru[Last(Positions(Unused))] IN
         /\ b \in Bufs /\ refcnt[b] = 0 /\ Users(b) = {} /\ blockno[b] \notin pinned
         /\ n \notin pinned /\ \A c \in Bufs : blockno[c] # n
  <1>t. CacheTypeOK /\ Listed /\ Referenced /\ PinnedIsCached
    BY DEF IInv
  <1> DEFINE b == lru[Last(Positions(Unused))]
  <1>1. Unused \in SUBSET Bufs /\ Unused # {} /\ Cached(n) = {}
    BY DEF BgetRecycle, Unused
  <1>2. b \in Unused
    BY <1>t, <1>1, Picked
  <1> HIDE DEF b
  <1>3. b \in Bufs /\ refcnt[b] = 0
    BY <1>2 DEF Unused
  <1>4. IsFiniteSet(Users(b)) /\ Cardinality(Users(b)) \in Nat
    BY Basics, FS_Subset, FS_CardinalityType DEF Users
  <1>5. Cardinality(Users(b)) = 0 /\ Pins(b) = 0
    BY <1>t, <1>3, <1>4 DEF Referenced, Pins
  <1>6. Users(b) = {}
    BY <1>4, <1>5, FS_EmptySet
  <1>7. blockno[b] \notin pinned
    BY <1>5 DEF Pins
  <1>8. \A c \in Bufs : blockno[c] # n
    BY <1>1 DEF Cached
  <1>9. n \notin pinned
    BY <1>8, <1>t DEF PinnedIsCached
  <1> QED BY <1>3, <1>6, <1>7, <1>8, <1>9 DEF b

LEMMA HitBuffer ==
  ASSUME IInv, NEW p \in Procs, NEW n \in Blocks, BgetHit(p, n)
  PROVE  LET b == lru[First(Positions(Cached(n)))] IN b \in Bufs /\ blockno[b] = n
  <1>1. CacheTypeOK /\ Listed /\ Cached(n) \in SUBSET Bufs /\ Cached(n) # {}
    BY DEF IInv, BgetHit, Cached
  <1>2. lru[First(Positions(Cached(n)))] \in Cached(n)
    BY <1>1, Picked
  <1> QED BY <1>2 DEF Cached

\* So a process with a request keeps its buffer, for its block.
LEMMA ChainedKeeps ==
  ASSUME IInv, NEW p \in Procs, CacheAction(p), NEW q \in Procs, Chained(q)
  PROVE  /\ q # p /\ pc'[q] = pc[q] /\ mine'[q] = mine[q] /\ mine[q] \in Bufs
         /\ blockno'[mine[q]] = blockno[mine[q]] /\ Chained(q)'
  <1>1. pc[q] \in InDriver /\ mine[q] \in Bufs /\ mine[q] # Nobody
    BY Exclusive, Basics DEF InDriver
  <1>2. q # p /\ pc'[q] = pc[q] /\ mine'[q] = mine[q] /\ rw'[q] = rw[q]
    BY <1>1, CacheEffect DEF InDriver, Chained
  <1>3. blockno'[mine[q]] = blockno[mine[q]]
    <2>t. blockno \in [Bufs -> Blocks \cup {Nobody}]
      BY DEF IInv, CacheTypeOK
    <2>1. ASSUME NEW n \in Blocks, BgetRecycle(p, n) PROVE blockno'[mine[q]] = blockno[mine[q]]
      <3>1. mine[q] # lru[Last(Positions(Unused))]
        BY <2>1, Recycled DEF Users
      <3> QED BY <3>1, <2>1, <2>t, <1>1 DEF BgetRecycle
    <2>2. (\E n \in Blocks : BgetRecycle(p, n)) \/ blockno' = blockno
      BY DEF CacheAction, BgetHit, Acquire, AcquireSleeps, Release, Brelse, BreadHit, BreadMiss,
             LogWrite, Bwrite, Looks, bufVars
    <2> QED BY <2>1, <2>2
  <1> QED BY <1>1, <1>2, <1>3 DEF Chained

\* The end of virtio_disk_rw(), for each of its callers.
LEMMA ReturnEffect ==
  ASSUME IInv, NEW p \in Procs, Return(p)
  PROVE  /\ RwReturn(p, mine[p]) /\ UNCHANGED <<lru, blockno, lock, mine>>
         /\ pc[p] \in InDriver /\ pc' = [pc EXCEPT ![p] = "hold"]
         /\ Chained(p) /\ ~AtDevice(p) /\ ~InRing(p) /\ mine[p] \in Bufs
         /\ data[mine[p]] = media[blockno[mine[p]]]
         /\ blockno[mine[p]] \in Blocks
  <1>1. /\ RwReturn(p, mine[p]) /\ UNCHANGED <<lru, blockno, lock, mine>>
        /\ pc[p] \in InDriver /\ pc' = [pc EXCEPT ![p] = "hold"]
    BY DEF Return, BreadReturn, BwriteReturn, InstallReturn, Goto, InDriver, bufVars
  <1>2. Chained(p) /\ mine[p] \notin disk
    BY <1>1 DEF RwReturn, Chained
  <1>3. ~AtDevice(p) /\ ~InRing(p)
    BY <1>2 DEF IInv, Pending
  <1>4. data[mine[p]] = media[blockno[mine[p]]]
    BY <1>2, <1>3 DEF IInv, Served
  <1>5. mine[p] \in Bufs
    BY <1>1, Exclusive DEF InDriver
  <1>6. blockno[mine[p]] \in Blocks
    BY <1>5, Exclusive, Basics
  <1> QED BY <1>1, <1>2, <1>3, <1>4, <1>5, <1>6

\* What it does to the processes in the driver.
LEMMA ReturnMoves ==
  ASSUME IInv, NEW p \in Procs, Return(p)
  PROVE  /\ \A q \in Procs \ {p} : rw'[q] = IF rw[q] = "full" THEN "alloc" ELSE rw[q]
         /\ rw'[p] = "none"
         /\ \A q \in Procs \ {p} : idx'[q] = idx[q] /\ pc'[q] = pc[q]
         /\ idx'[p] = {} /\ pc'[p] = "hold"
         /\ \A q \in Procs : Chained(q)' <=> Chained(q) /\ q # p
  <1>t. /\ rw \in [Procs -> {"none", "alloc", "full", "wait", "check"}]
        /\ idx \in [Procs -> SUBSET Desc] /\ pc \in [Procs -> Labels]
    BY DEF IInv, CacheTypeOK, VirtioTypeOK
  <1>1. /\ rw' = [WokenByFree(rw) EXCEPT ![p] = "none"] /\ idx' = [idx EXCEPT ![p] = {}]
        /\ pc' = [pc EXCEPT ![p] = "hold"]
    BY ReturnEffect DEF RwReturn
  <1>2. rw'[p] = "none"
        /\ \A q \in Procs \ {p} : rw'[q] = IF rw[q] = "full" THEN "alloc" ELSE rw[q]
    BY <1>1, <1>t DEF WokenByFree
  <1>3. idx'[p] = {} /\ pc'[p] = "hold" /\ \A q \in Procs \ {p} : idx'[q] = idx[q] /\ pc'[q] = pc[q]
    BY <1>1, <1>t
  <1>4. \A q \in Procs : Chained(q)' <=> Chained(q) /\ q # p
    BY <1>2 DEF Chained
  <1> QED BY <1>2, <1>3, <1>4

-----------------------------------------------------------------------------
(* References *)

\* The users of a buffer when p comes or goes.
LEMMA UsersChange ==
  ASSUME NEW b \in Bufs, NEW p \in Procs, NEW S, S \subseteq Procs, p \notin S
  PROVE  Cardinality(S \cup {p}) = Cardinality(S) + 1 /\ Cardinality(S) \in Nat
         /\ Cardinality(S) <= Cardinality(Procs)
  <1>1. IsFiniteSet(S) /\ Cardinality(S) <= Cardinality(Procs)
    BY Basics, FS_Subset
  <1>2. Cardinality(S \cup {p}) = Cardinality(S) + 1
    BY <1>1, FS_AddElement
  <1>3. Cardinality(S) \in Nat
    BY <1>1, FS_CardinalityType
  <1> QED BY <1>1, <1>2, <1>3

LEMMA ReferencedHit ==
  ASSUME IInv, NEW p \in Procs, NEW n \in Blocks, BgetHit(p, n)
  PROVE  Referenced' /\ refcnt' \in [Bufs -> Int]
  <1>t. /\ mine \in [Procs -> Bufs \cup {Nobody}] /\ refcnt \in [Bufs -> 0 .. Cardinality(Procs) + 1]
        /\ Referenced /\ Attached /\ Cardinality(Procs) \in Nat
    BY Basics DEF IInv, CacheTypeOK
  <1>0. PICK b : b = lru[First(Positions(Cached(n)))]
    OBVIOUS
  <1>1. b \in Bufs
    BY <1>0, HitBuffer
  <1>2. /\ refcnt' = [refcnt EXCEPT ![b] = @ + 1] /\ mine' = [mine EXCEPT ![p] = b]
        /\ pc[p] = "user" /\ blockno' = blockno /\ pinned' = pinned
    BY <1>0 DEF BgetHit, Goto
  <1>3. mine[p] = Nobody /\ Nobody \notin Bufs
    BY <1>t, <1>2, Basics DEF Attached
  <1>4. Users(b)' = Users(b) \cup {p} /\ p \notin Users(b) /\ Users(b) \subseteq Procs
    BY <1>t, <1>1, <1>2, <1>3 DEF Users
  <1>5. Cardinality(Users(b)') = Cardinality(Users(b)) + 1 /\ Cardinality(Users(b)) \in Nat
    BY <1>1, <1>4, UsersChange
  <1>6. \A c \in Bufs : Pins(c)' = Pins(c) /\ Pins(c) \in Nat
    BY <1>2 DEF Pins
  <1>7. refcnt'[b] = Cardinality(Users(b)') + Pins(b)'
    BY <1>t, <1>1, <1>2, <1>5, <1>6 DEF Referenced
  <1>8. ASSUME NEW c \in Bufs, c # b PROVE refcnt'[c] = Cardinality(Users(c)') + Pins(c)'
    <2>1. Users(c)' = Users(c)
      BY <1>t, <1>2, <1>3, <1>8 DEF Users
    <2> QED BY <2>1, <1>t, <1>2, <1>6, <1>8 DEF Referenced
  <1>9. refcnt' \in [Bufs -> Int]
    <2>1. \A c \in Bufs : refcnt[c] \in Int
      BY <1>t
    <2>2. refcnt \in [Bufs -> Int]
      BY <2>1, <1>t
    <2>3. 1 \in Int /\ \A c \in Bufs : refcnt[c] + 1 \in Int /\ refcnt[c] - 1 \in Int
      BY <2>1
    <2> QED BY <1>2, <2>2, <2>3
  <1>10. Referenced'
    BY <1>7, <1>8 DEF Referenced
  <1> QED BY <1>9, <1>10

LEMMA ReferencedRecycle ==
  ASSUME IInv, NEW p \in Procs, NEW n \in Blocks, BgetRecycle(p, n)
  PROVE  Referenced' /\ refcnt' \in [Bufs -> Int]
  <1>t. /\ mine \in [Procs -> Bufs \cup {Nobody}] /\ refcnt \in [Bufs -> 0 .. Cardinality(Procs) + 1]
        /\ blockno \in [Bufs -> Blocks \cup {Nobody}]
        /\ Referenced /\ Attached /\ Cardinality(Procs) \in Nat
    BY Basics DEF IInv, CacheTypeOK
  <1>0. PICK b : b = lru[Last(Positions(Unused))]
    OBVIOUS
  <1>1. b \in Bufs /\ Users(b) = {} /\ n \notin pinned
    BY <1>0, Recycled
  <1>2. /\ refcnt' = [refcnt EXCEPT ![b] = 1] /\ mine' = [mine EXCEPT ![p] = b]
        /\ blockno' = [blockno EXCEPT ![b] = n] /\ pc[p] = "user" /\ pinned' = pinned
    BY <1>0 DEF BgetRecycle, Goto
  <1>3. mine[p] = Nobody /\ Nobody \notin Bufs
    BY <1>t, <1>2, Basics DEF Attached
  <1>4. Users(b)' = {p}
    BY <1>t, <1>1, <1>2, <1>3 DEF Users
  <1>5. Cardinality(Users(b)') = 1
    BY <1>4, FS_Singleton
  <1>6. Pins(b)' = 0
    BY <1>t, <1>1, <1>2 DEF Pins
  <1>7. refcnt'[b] = Cardinality(Users(b)') + Pins(b)'
    BY <1>t, <1>1, <1>2, <1>5, <1>6
  <1>8. ASSUME NEW c \in Bufs, c # b PROVE refcnt'[c] = Cardinality(Users(c)') + Pins(c)'
    <2>1. Users(c)' = Users(c)
      BY <1>t, <1>2, <1>3, <1>8 DEF Users
    <2>2. Pins(c)' = Pins(c)
      BY <1>t, <1>2, <1>8 DEF Pins
    <2>3. refcnt'[c] = refcnt[c]
      BY <1>t, <1>2, <1>8
    <2> QED BY <2>1, <2>2, <2>3, <1>t DEF Referenced
  <1>9. refcnt' \in [Bufs -> Int]
    <2>1. \A c \in Bufs : refcnt[c] \in Int
      BY <1>t
    <2>2. refcnt \in [Bufs -> Int]
      BY <2>1, <1>t
    <2>3. 1 \in Int /\ \A c \in Bufs : refcnt[c] + 1 \in Int /\ refcnt[c] - 1 \in Int
      BY <2>1
    <2> QED BY <1>2, <2>2, <2>3
  <1>10. Referenced'
    BY <1>7, <1>8 DEF Referenced
  <1> QED BY <1>9, <1>10

LEMMA ReferencedBrelse ==
  ASSUME IInv, NEW p \in Procs, Brelse(p)
  PROVE  Referenced' /\ refcnt' \in [Bufs -> Int]
  <1>t. /\ mine \in [Procs -> Bufs \cup {Nobody}] /\ refcnt \in [Bufs -> 0 .. Cardinality(Procs) + 1]
        /\ Referenced /\ Cardinality(Procs) \in Nat
    BY Basics DEF IInv, CacheTypeOK
  <1>0. PICK b : b = mine[p]
    OBVIOUS
  <1>1. b \in Bufs
    BY <1>0, Exclusive DEF Brelse, Goto
  <1>2. /\ refcnt' = [refcnt EXCEPT ![b] = @ - 1] /\ mine' = [mine EXCEPT ![p] = Nobody]
        /\ blockno' = blockno /\ pinned' = pinned
    BY <1>0 DEF Brelse
  <1>d. Nobody \notin Bufs /\ mine[p] = b
    BY <1>0, Basics
  <1>4. Users(b) = Users(b)' \cup {p} /\ p \notin Users(b)' /\ Users(b)' \subseteq Procs
    BY <1>t, <1>1, <1>2, <1>d DEF Users
  <1>5. Cardinality(Users(b)) = Cardinality(Users(b)') + 1 /\ Cardinality(Users(b)') \in Nat
    BY <1>1, <1>4, UsersChange
  <1>6. \A c \in Bufs : Pins(c)' = Pins(c) /\ Pins(c) \in Nat
    BY <1>2 DEF Pins
  <1>7. refcnt'[b] = Cardinality(Users(b)') + Pins(b)'
    BY <1>t, <1>1, <1>2, <1>5, <1>6 DEF Referenced
  <1>8. ASSUME NEW c \in Bufs, c # b PROVE refcnt'[c] = Cardinality(Users(c)') + Pins(c)'
    <2>1. Users(c)' = Users(c)
      BY <1>t, <1>2, <1>d, <1>8 DEF Users
    <2> QED BY <2>1, <1>t, <1>2, <1>6, <1>8 DEF Referenced
  <1>9. refcnt' \in [Bufs -> Int]
    <2>1. \A c \in Bufs : refcnt[c] \in Int
      BY <1>t
    <2>2. refcnt \in [Bufs -> Int]
      BY <2>1, <1>t
    <2>3. 1 \in Int /\ \A c \in Bufs : refcnt[c] + 1 \in Int /\ refcnt[c] - 1 \in Int
      BY <2>1
    <2> QED BY <1>2, <2>2, <2>3
  <1>10. Referenced'
    BY <1>7, <1>8 DEF Referenced
  <1> QED BY <1>9, <1>10

LEMMA ReferencedLogWrite ==
  ASSUME IInv, NEW p \in Procs, NEW v \in Values, LogWrite(p, v)
  PROVE  Referenced' /\ refcnt' \in [Bufs -> Int]
  <1>t. /\ refcnt \in [Bufs -> 0 .. Cardinality(Procs) + 1]
        /\ Referenced /\ OneBuffer /\ Cardinality(Procs) \in Nat
    BY Basics DEF IInv, CacheTypeOK
  <1>0. PICK b, n : b = mine[p] /\ n = blockno[b]
    OBVIOUS
  <1>1. b \in Bufs /\ n \in Blocks /\ n # Nobody
    BY <1>0, Exclusive, Basics DEF LogWrite
  <1>2. /\ refcnt' = IF n \in pinned THEN refcnt ELSE [refcnt EXCEPT ![b] = @ + 1]
        /\ pinned' = pinned \cup {n} /\ mine' = mine /\ blockno' = blockno
    BY <1>0 DEF LogWrite
  <1>3. \A c \in Bufs : Users(c)' = Users(c) /\ Users(c) \subseteq Procs
    BY <1>2 DEF Users
  <1>4. \A c \in Bufs : Cardinality(Users(c)) \in Nat
    BY <1>3, Basics, FS_Subset, FS_CardinalityType
  <1>5. Pins(b)' = 1 /\ Pins(b) = IF n \in pinned THEN 1 ELSE 0
    BY <1>2, <1>0 DEF Pins
  <1>6. refcnt'[b] = Cardinality(Users(b)') + Pins(b)'
    <2>1. refcnt[b] = Cardinality(Users(b)) + Pins(b)
      BY <1>1, <1>t DEF Referenced
    <2> QED BY <2>1, <1>t, <1>1, <1>2, <1>3, <1>4, <1>5
  <1>7. ASSUME NEW c \in Bufs, c # b PROVE refcnt'[c] = Cardinality(Users(c)') + Pins(c)'
    <2>1. Pins(c)' = Pins(c)
      BY <1>t, <1>1, <1>2, <1>0, <1>7 DEF Pins, OneBuffer
    <2>2. refcnt'[c] = refcnt[c]
      BY <1>t, <1>2, <1>7
    <2> QED BY <2>1, <2>2, <1>t, <1>3, <1>7 DEF Referenced
  <1>9. refcnt' \in [Bufs -> Int]
    <2>1. \A c \in Bufs : refcnt[c] \in Int
      BY <1>t
    <2>2. refcnt \in [Bufs -> Int]
      BY <2>1, <1>t
    <2>3. 1 \in Int /\ \A c \in Bufs : refcnt[c] + 1 \in Int /\ refcnt[c] - 1 \in Int
      BY <2>1
    <2> QED BY <1>2, <2>2, <2>3
  <1>10. Referenced'
    BY <1>6, <1>7 DEF Referenced
  <1> QED BY <1>9, <1>10

LEMMA ReferencedInstall ==
  ASSUME IInv, NEW p \in Procs, InstallReturn(p)
  PROVE  Referenced' /\ refcnt' \in [Bufs -> Int]
  <1>t. /\ refcnt \in [Bufs -> 0 .. Cardinality(Procs) + 1]
        /\ Referenced /\ OneBuffer /\ Validity /\ Cardinality(Procs) \in Nat
    BY Basics DEF IInv, CacheTypeOK
  <1>0. PICK b, n : b = mine[p] /\ n = blockno[b]
    OBVIOUS
  <1>1. b \in Bufs /\ n \in Blocks /\ n # Nobody /\ n \in pinned
    BY <1>0, Exclusive, Basics, <1>t DEF InstallReturn, Goto, Validity
  <1>2. /\ refcnt' = [refcnt EXCEPT ![b] = @ - 1] /\ pinned' = pinned \ {n}
        /\ mine' = mine /\ blockno' = blockno
    BY <1>0 DEF InstallReturn
  <1>3. \A c \in Bufs : Users(c)' = Users(c) /\ Users(c) \subseteq Procs
    BY <1>2 DEF Users
  <1>4. \A c \in Bufs : Cardinality(Users(c)) \in Nat
    BY <1>3, Basics, FS_Subset, FS_CardinalityType
  <1>5. Pins(b)' = 0 /\ Pins(b) = 1
    BY <1>1, <1>2, <1>0 DEF Pins
  <1>6. refcnt'[b] = Cardinality(Users(b)') + Pins(b)'
    <2>1. refcnt[b] = Cardinality(Users(b)) + Pins(b)
      BY <1>1, <1>t DEF Referenced
    <2> QED BY <2>1, <1>t, <1>1, <1>2, <1>3, <1>4, <1>5
  <1>7. ASSUME NEW c \in Bufs, c # b PROVE refcnt'[c] = Cardinality(Users(c)') + Pins(c)'
    <2>1. Pins(c)' = Pins(c)
      BY <1>t, <1>1, <1>2, <1>0, <1>7 DEF Pins, OneBuffer
    <2>2. refcnt'[c] = refcnt[c]
      BY <1>t, <1>2, <1>7
    <2> QED BY <2>1, <2>2, <1>t, <1>3, <1>7 DEF Referenced
  <1>9. refcnt' \in [Bufs -> Int]
    <2>1. \A c \in Bufs : refcnt[c] \in Int
      BY <1>t
    <2>2. refcnt \in [Bufs -> Int]
      BY <2>1, <1>t
    <2>3. 1 \in Int /\ \A c \in Bufs : refcnt[c] + 1 \in Int /\ refcnt[c] - 1 \in Int
      BY <2>1
    <2> QED BY <1>2, <2>2, <2>3
  <1>10. Referenced'
    BY <1>6, <1>7 DEF Referenced
  <1> QED BY <1>9, <1>10

LEMMA ReferencedStep ==
  ASSUME IInv, CacheNext
  PROVE  Referenced' /\ refcnt' \in [Bufs -> 0 .. Cardinality(Procs) + 1]
  <1>t. refcnt \in [Bufs -> 0 .. Cardinality(Procs) + 1] /\ Referenced
    BY DEF IInv, CacheTypeOK
  <1> USE DEF bufVars, cacheVars
  <1>1. ASSUME UNCHANGED <<refcnt, mine, blockno, pinned>>
        PROVE  Referenced' /\ refcnt' \in [Bufs -> Int]
    BY <1>1, <1>t DEF Referenced, Users, Pins
  <1>2. ASSUME NEW p \in Procs, CacheAction(p) PROVE Referenced' /\ refcnt' \in [Bufs -> Int]
    <2>1. CASE \E n \in Blocks : BgetHit(p, n) \/ BgetRecycle(p, n)
      BY <2>1, ReferencedHit, ReferencedRecycle
    <2>2. CASE Brelse(p)
      BY <2>2, ReferencedBrelse
    <2>3. CASE \E v \in Values : LogWrite(p, v)
      BY <2>3, ReferencedLogWrite
    <2>4. CASE \/ Acquire(p) \/ AcquireSleeps(p) \/ Release(p) \/ BreadHit(p) \/ BreadMiss(p)
               \/ \E v \in Values : Bwrite(p, v)
               \/ Looks(p)
      BY <2>4, <1>1 DEF Acquire, AcquireSleeps, Release, BreadHit, BreadMiss, Bwrite, Looks
    <2> QED BY <1>2, <2>1, <2>2, <2>3, <2>4 DEF CacheAction
  <1>3. ASSUME NEW p \in Procs, Return(p) PROVE Referenced' /\ refcnt' \in [Bufs -> Int]
    <2>1. CASE BreadReturn(p) \/ BwriteReturn(p)
      BY <2>1, <1>1 DEF BreadReturn, BwriteReturn
    <2>2. CASE InstallReturn(p)
      BY <2>2, ReferencedInstall
    <2> QED BY <1>3, <2>1, <2>2 DEF Return
  <1>4. ASSUME UNCHANGED cacheVars PROVE Referenced' /\ refcnt' \in [Bufs -> Int]
    BY <1>1, <1>4
  <1>5. Referenced' /\ refcnt' \in [Bufs -> Int]
    BY <1>2, <1>3, <1>4, Steps DEF Submit, Full, Again, Kicked, Quiet, Finish, Serve
  <1>6. \A b \in Bufs : refcnt'[b] \in 0 .. Cardinality(Procs) + 1
    <2> TAKE b \in Bufs
    <2>1. IsFiniteSet(Users(b)') /\ Cardinality(Users(b)') <= Cardinality(Procs)
      <3>1. Users(b)' \subseteq Procs
        BY DEF Users
      <3> QED BY <3>1, Basics, FS_Subset
    <2>2. Cardinality(Users(b)') \in Nat /\ Cardinality(Procs) \in Nat
      BY <2>1, Basics, FS_CardinalityType
    <2>3. Pins(b)' \in {0, 1}
      BY DEF Pins
    <2>4. refcnt'[b] = Cardinality(Users(b)') + Pins(b)'
      BY <1>5 DEF Referenced
    <2> QED BY <2>1, <2>2, <2>3, <2>4
  <1> QED BY <1>5, <1>6

-----------------------------------------------------------------------------
(* Types *)

LEMMA TypeRest ==
  ASSUME IInv, CacheNext, Referenced' /\ refcnt' \in [Bufs -> 0 .. Cardinality(Procs) + 1]
  PROVE  CacheTypeOK'
  <1>t. /\ num \in NUMS /\ media \in [Blocks -> Values] /\ data \in [Bufs -> Values]
        /\ disk \subseteq Bufs /\ free \subseteq Desc
        /\ info \in [Desc -> Bufs \cup {Nobody}] /\ avail \subseteq Requests
        /\ used \in Seq(Desc) /\ owed \in BOOLEAN /\ irq \in BOOLEAN
        /\ intr \in {"off", "loop", "return"}
        /\ rw \in [Procs -> {"none", "alloc", "full", "wait", "check"}]
        /\ idx \in [Procs -> SUBSET Desc]
    BY DEF IInv, CacheTypeOK, VirtioTypeOK
  <1>u. /\ lru \in Seq(Bufs) /\ Len(lru) = Cardinality(Bufs)
        /\ blockno \in [Bufs -> Blocks \cup {Nobody}] /\ valid \in [Bufs -> BOOLEAN]
        /\ lock \in [Bufs -> Procs \cup {Nobody}] /\ pinned \subseteq Blocks
        /\ pc \in [Procs -> Labels] /\ mine \in [Procs -> Bufs \cup {Nobody}]
    BY DEF IInv, CacheTypeOK
  <1>n. num' = num /\ Desc' = Desc /\ Requests' = Requests
    BY Steps DEF Desc, Requests
  <1> DEFINE Device ==
                 /\ media' \in [Blocks -> Values] /\ data' \in [Bufs -> Values]
                 /\ avail' \subseteq Requests /\ used' \in Seq(Desc) /\ owed' \in BOOLEAN
             Driver ==
                 /\ disk' \subseteq Bufs /\ free' \subseteq Desc
                 /\ info' \in [Desc -> Bufs \cup {Nobody}] /\ irq' \in BOOLEAN
                 /\ intr' \in {"off", "loop", "return"}
                 /\ rw' \in [Procs -> {"none", "alloc", "full", "wait", "check"}]
                 /\ idx' \in [Procs -> SUBSET Desc]
             Cache ==
                 /\ lru' \in Seq(Bufs) /\ Len(lru') = Cardinality(Bufs)
                 /\ blockno' \in [Bufs -> Blocks \cup {Nobody}] /\ valid' \in [Bufs -> BOOLEAN]
                 /\ lock' \in [Bufs -> Procs \cup {Nobody}] /\ pinned' \subseteq Blocks
                 /\ pc' \in [Procs -> Labels] /\ mine' \in [Procs -> Bufs \cup {Nobody}]
  <1>1. ASSUME UNCHANGED cacheVars PROVE Cache
    BY <1>1, <1>u DEF cacheVars, bufVars
  <1>2. ASSUME UNCHANGED deviceVars PROVE Device
    BY <1>2, <1>t DEF deviceVars
  <1>3. ASSUME UNCHANGED driverVars PROVE Driver
    BY <1>3, <1>t DEF driverVars
  <1>4. ASSUME UNCHANGED <<disk, free, info, irq, intr, idx>>,
               rw' \in [Procs -> {"none", "alloc", "full", "wait", "check"}]
        PROVE  Driver
    BY <1>4, <1>t
  <1>5. ASSUME NEW p \in Procs, RwCall(p)
        PROVE  rw' \in [Procs -> {"none", "alloc", "full", "wait", "check"}]
    BY <1>5, <1>t DEF RwCall
  <1>6. ASSUME NEW p \in Procs, NEW from, NEW to \in Labels, Goto(p, from, to)
        PROVE  pc' \in [Procs -> Labels]
    BY <1>6, <1>u DEF Goto
  <1>7. WokenByFree(rw) \in [Procs -> {"none", "alloc", "full", "wait", "check"}]
    BY <1>t DEF WokenByFree
  <1>c. ASSUME NEW p \in Procs, CacheAction(p) PROVE Device /\ Driver /\ Cache
    <2> USE DEF Labels, bufVars, virtioVars
    <2>1. ASSUME NEW n \in Blocks, BgetHit(p, n) PROVE Device /\ Driver /\ Cache
      <3>1. lru[First(Positions(Cached(n)))] \in Bufs
        BY <2>1, HitBuffer
      <3>2. UNCHANGED virtioVars /\ pc' \in [Procs -> Labels]
        BY <2>1, <1>6 DEF BgetHit
      <3>3. Cache
        BY <3>1, <3>2, <2>1, <1>u DEF BgetHit
      <3> QED BY <3>2, <3>3, <1>2, <1>3
    <2>2. ASSUME NEW n \in Blocks, BgetRecycle(p, n) PROVE Device /\ Driver /\ Cache
      <3>1. lru[Last(Positions(Unused))] \in Bufs
        BY <2>2, Recycled
      <3>2. UNCHANGED virtioVars /\ pc' \in [Procs -> Labels]
        BY <2>2, <1>6 DEF BgetRecycle
      <3>3. Cache
        BY <3>1, <3>2, <2>2, <1>u DEF BgetRecycle
      <3> QED BY <3>2, <3>3, <1>2, <1>3
    <2>3. CASE Acquire(p) \/ AcquireSleeps(p) \/ BreadHit(p)
                \/ Looks(p)
      <3>1. UNCHANGED virtioVars /\ pc' \in [Procs -> Labels]
        BY <2>3, <1>6 DEF Acquire, AcquireSleeps, BreadHit, Looks
      <3>2. Cache
        BY <3>1, <2>3, <1>u DEF Acquire, AcquireSleeps, BreadHit, Looks
      <3> QED BY <3>1, <3>2, <1>2, <1>3
    <2>4. CASE Release(p)
      <3>1. UNCHANGED virtioVars
        BY <2>4 DEF Release
      <3>2. pc' \in [Procs -> Labels]
        BY <2>4, <1>u DEF Release
      <3>3. Cache
        BY <3>2, <2>4, <1>u DEF Release
      <3> QED BY <3>1, <3>3, <1>2, <1>3
    <2>5. CASE Brelse(p)
      <3>1. UNCHANGED virtioVars /\ pc' \in [Procs -> Labels]
        BY <2>5, <1>6 DEF Brelse
      <3>2. mine[p] \in Bufs
        BY <2>5, Exclusive DEF Brelse, Goto
      <3>3. ToHead(mine[p]) \in Seq(Bufs) /\ Len(ToHead(mine[p])) = Len(lru)
        BY <3>2, ToHeadFacts DEF IInv
      <3>4. Cache
        BY <3>1, <3>3, <2>5, <1>u DEF Brelse
      <3> QED BY <3>1, <3>4, <1>2, <1>3
    <2>6. CASE BreadMiss(p)
      <3>1. UNCHANGED deviceVars /\ pc' \in [Procs -> Labels]
        BY <2>6, <1>6 DEF BreadMiss
      <3>2. Driver
        BY <2>6, <1>4, <1>5 DEF BreadMiss
      <3>3. Cache
        BY <3>1, <2>6, <1>u DEF BreadMiss
      <3> QED BY <3>1, <3>2, <3>3, <1>2
    <2>7. ASSUME NEW v \in Values, LogWrite(p, v) PROVE Device /\ Driver /\ Cache
      <3>1. mine[p] \in Bufs /\ blockno[mine[p]] \in Blocks
        BY <2>7, Exclusive, Basics DEF LogWrite
      <3>2. Device
        BY <2>7, <1>t DEF LogWrite
      <3>3. Driver
        BY <2>7, <1>3 DEF LogWrite
      <3>4. Cache
        BY <3>1, <2>7, <1>u DEF LogWrite
      <3> QED BY <3>2, <3>3, <3>4
    <2>8. ASSUME NEW v \in Values, Bwrite(p, v) PROVE Device /\ Driver /\ Cache
      <3>1. pc' \in [Procs -> Labels]
        BY <2>8, <1>u DEF Bwrite, Goto
      <3>2. Device
        BY <2>8, <1>t DEF Bwrite
      <3>3. Driver
        BY <2>8, <1>4, <1>5 DEF Bwrite
      <3>4. Cache
        BY <3>1, <2>8, <1>u DEF Bwrite
      <3> QED BY <3>2, <3>3, <3>4
    <2> HIDE DEF Device, Driver, Cache
    <2>a. CASE \E n \in Blocks : BgetHit(p, n) \/ BgetRecycle(p, n)
      BY <2>a, <2>1, <2>2
    <2>b. CASE \E v \in Values : LogWrite(p, v) \/ Bwrite(p, v)
      BY <2>b, <2>7, <2>8
    <2> QED BY <1>c, <2>a, <2>b, <2>3, <2>4, <2>5, <2>6, Zenon DEF CacheAction
  <1>rq. ASSUME NEW p \in Procs, Return(p) PROVE Device /\ Driver /\ Cache
    <2>1. /\ UNCHANGED <<media, data, avail, used, owed, disk, irq, intr>>
          /\ info' = [info EXCEPT ![Least(idx[p])] = Nobody]
          /\ free' = free \cup idx[p] /\ idx' = [idx EXCEPT ![p] = {}]
          /\ rw' = [WokenByFree(rw) EXCEPT ![p] = "none"]
          /\ UNCHANGED <<lru, blockno, lock, mine>> /\ pc' = [pc EXCEPT ![p] = "hold"]
      BY <1>rq, ReturnEffect DEF RwReturn, deviceVars
    <2>2. Device
      BY <2>1, <1>t
    <2>3. Driver
      BY <2>1, <1>t, <1>7
    <2>4. valid' \in [Bufs -> BOOLEAN] /\ pinned' \subseteq Blocks
      BY <1>rq, <1>u DEF Return, BreadReturn, BwriteReturn, InstallReturn, bufVars
    <2>5. Cache
      BY <2>1, <2>4, <1>u DEF Labels
    <2> QED BY <2>2, <2>3, <2>5
  <1>s. ASSUME NEW p \in Procs, Submit(p) PROVE Device /\ Driver /\ Cache
    <2>1. mine[p] \in Bufs /\ blockno[mine[p]] \in Blocks
      BY <1>s, Exclusive, Basics DEF Submit, InDriver
    <2>2. Three \subseteq free /\ Least(Three) \in Three
      BY <1>s, ThreeIsFree DEF IInv, Submit, RwSubmit
    <2>3. [id |-> Least(Three), write |-> pc[p] # "read", block |-> blockno[mine[p]], buf |-> mine[p]]
            \in Requests
      BY <2>1, <2>2, <1>t DEF Requests
    <2>4. Device
      BY <2>3, <1>s, <1>t DEF Submit, RwSubmit
    <2>5. Three \subseteq Desc /\ disk \cup {mine[p]} \subseteq Bufs
      BY <2>1, <2>2, <1>t
    <2>6. Driver
      BY <2>1, <2>5, <1>s, <1>t DEF Submit, RwSubmit
    <2> QED BY <2>4, <2>6, <1>1, <1>s DEF Submit
  <1>f. ASSUME NEW p \in Procs, Full(p) \/ Again(p) \/ Kicked(p) PROVE Device /\ Driver /\ Cache
    <2>1. UNCHANGED <<deviceVars, disk, free, info, irq, intr, idx>> /\ UNCHANGED cacheVars
      BY <1>f DEF Full, RwFull, Again, RwSleepAgain, Kicked, RwKicked
    <2>2. rw' \in [Procs -> {"none", "alloc", "full", "wait", "check"}]
      <3>1. CASE Full(p)
        BY <3>1, <1>t, <1>7 DEF Full, RwFull
      <3>2. CASE Again(p)
        BY <3>2, <1>t DEF Again, RwSleepAgain
      <3>3. CASE Kicked(p)
        BY <3>3, <1>t DEF Kicked, RwKicked
      <3> QED BY <1>f, <3>1, <3>2, <3>3
    <2>3. Device
      BY <2>1, <1>2
    <2>4. Driver
      BY <2>1, <2>2, <1>4
    <2>5. Cache
      BY <2>1, <1>1
    <2> QED BY <2>3, <2>4, <2>5
  <1>q. ASSUME Quiet PROVE Device /\ Driver /\ Cache
    <2>1. UNCHANGED cacheVars
      BY <1>q DEF Quiet
    <2>2. CASE DeviceInterrupts
      BY <2>1, <2>2, <1>1, <1>t DEF DeviceInterrupts
    <2>3. CASE IntrAck \/ IntrEndLoop \/ IntrReturn
      BY <2>1, <2>3, <1>1, <1>2, <1>t DEF IntrAck, IntrEndLoop, IntrReturn
    <2> QED BY <1>q, <2>2, <2>3 DEF Quiet
  <1>i. ASSUME Finish PROVE Device /\ Driver /\ Cache
    <2>1. UNCHANGED cacheVars /\ UNCHANGED <<media, data, avail, owed, free, info, irq, intr, idx>>
      BY <1>i DEF Finish, IntrOne
    <2>2. used' \in Seq(Desc)
      BY <1>i, <1>t DEF Finish, IntrOne
    <2>3. disk' \subseteq Bufs
      BY <1>i, <1>t DEF Finish, IntrOne
    <2>4. rw' \in [Procs -> {"none", "alloc", "full", "wait", "check"}]
      BY <1>i, <1>t DEF Finish, IntrOne
    <2>5. Device
      BY <2>1, <2>2, <1>t
    <2> QED BY <2>1, <2>3, <2>4, <2>5, <1>1, <1>t
  <1>d. ASSUME NEW rq \in avail, Serve(rq) PROVE Device /\ Driver /\ Cache
    <2>1. UNCHANGED cacheVars /\ UNCHANGED driverVars
      BY <1>d DEF Serve, DeviceServes
    <2>2. rq.id \in Desc /\ rq.block \in Blocks /\ rq.buf \in Bufs
      BY <1>t DEF Requests
    <2>3. media' \in [Blocks -> Values] /\ data' \in [Bufs -> Values]
      BY <1>d, <2>2, <1>t DEF Serve, DeviceServes
    <2>4. avail' \subseteq Requests /\ used' \in Seq(Desc) /\ owed' \in BOOLEAN
      BY <1>d, <2>2, <1>t DEF Serve, DeviceServes
    <2> QED BY <2>1, <2>3, <2>4, <1>1, <1>3
  <1>8. Device /\ Driver /\ Cache
    BY Steps, <1>c, <1>rq, <1>s, <1>f, <1>q, <1>i, <1>d
  <1> QED BY <1>8, <1>n, <1>t DEF CacheTypeOK, VirtioTypeOK

LEMMA TypeStep == ASSUME IInv, CacheNext PROVE CacheTypeOK'
  BY ReferencedStep, TypeRest

-----------------------------------------------------------------------------
(* Processes, buffers and their locks *)

\* The steps that are not the cache's change none of its variables but pc,
\* valid, pinned and refcnt, at the end of virtio_disk_rw().
LEMMA OtherSteps ==
  ASSUME IInv, CacheNext
  PROVE  \/ \E p \in Procs : CacheAction(p) \/ Return(p)
         \/ UNCHANGED cacheVars
  BY Steps DEF Submit, Full, Again, Kicked, Quiet, Finish, Serve

LEMMA RwAgreesStep == ASSUME IInv, CacheNext PROVE RwAgrees'
  <1>t. /\ rw \in [Procs -> {"none", "alloc", "full", "wait", "check"}]
        /\ pc \in [Procs -> Labels] /\ RwAgrees
    BY DEF IInv, CacheTypeOK, VirtioTypeOK
  <1>1. ASSUME NEW p \in Procs, CacheAction(p) PROVE RwAgrees'
    <2>1. \A q \in Procs \ {p} : rw'[q] = rw[q] /\ (pc'[q] \in InDriver <=> pc[q] \in InDriver)
      BY <1>1, CacheEffect DEF InDriver
    <2>2. rw'[p] # "none" <=> pc'[p] \in InDriver
      <3> USE DEF InDriver, RwAgrees, Goto, virtioVars, driverVars
      <3>1. CASE \E n \in Blocks : BgetHit(p, n) \/ BgetRecycle(p, n)
        BY <3>1, <1>t DEF BgetHit, BgetRecycle
      <3>2. CASE Acquire(p) \/ AcquireSleeps(p) \/ Brelse(p) \/ BreadHit(p) \/ Looks(p)
        BY <3>2, <1>t DEF Acquire, AcquireSleeps, Brelse, BreadHit, Looks
      <3>3. CASE Release(p) \/ \E v \in Values : LogWrite(p, v)
        BY <3>3, <1>t DEF Release, LogWrite
      <3>4. CASE BreadMiss(p)
        BY <3>4, <1>t DEF BreadMiss, RwCall
      <3>5. CASE \E v \in Values : Bwrite(p, v)
        BY <3>5, <1>t DEF Bwrite, RwCall
      <3> QED BY <1>1, <3>1, <3>2, <3>3, <3>4, <3>5 DEF CacheAction
    <2> QED BY <2>1, <2>2, <1>t DEF RwAgrees
  <1>2. ASSUME NEW p \in Procs, Return(p) PROVE RwAgrees'
    <2>1. \A q \in Procs \ {p} : (rw'[q] # "none" <=> rw[q] # "none") /\ pc'[q] = pc[q]
      BY <1>2, ReturnMoves
    <2>2. rw'[p] = "none" /\ pc'[p] \notin InDriver
      BY <1>2, ReturnMoves DEF InDriver
    <2> QED BY <2>1, <2>2, <1>t DEF RwAgrees
  <1>3. ASSUME NEW p \in Procs, Submit(p) \/ Full(p) \/ Again(p) \/ Kicked(p) PROVE RwAgrees'
    <2>1. pc' = pc
      BY <1>3 DEF Submit, Full, Again, Kicked, cacheVars
    <2>2. \A q \in Procs : rw'[q] # "none" <=> rw[q] # "none"
      <3>1. CASE Submit(p)
        BY <3>1, <1>t DEF Submit, RwSubmit
      <3>2. CASE Full(p)
        BY <3>2, <1>t DEF Full, RwFull, WokenByFree
      <3>3. CASE Again(p) \/ Kicked(p)
        BY <3>3, <1>t DEF Again, RwSleepAgain, Kicked, RwKicked
      <3> QED BY <1>3, <3>1, <3>2, <3>3
    <2> QED BY <2>1, <2>2, <1>t DEF RwAgrees
  <1>4. ASSUME Quiet \/ Finish \/ \E rq \in avail : Serve(rq) PROVE RwAgrees'
    <2>1. pc' = pc
      BY <1>4 DEF Quiet, Finish, Serve, cacheVars
    <2>2. \A q \in Procs : rw'[q] # "none" <=> rw[q] # "none"
      <3>1. CASE Quiet \/ \E rq \in avail : Serve(rq)
        BY <3>1 DEF Quiet, DeviceInterrupts, IntrAck, IntrEndLoop, IntrReturn, Serve,
           DeviceServes,
                    driverVars
      <3>2. CASE Finish
        BY <3>2, <1>t DEF Finish, IntrOne
      <3> QED BY <1>4, <3>1, <3>2
    <2> QED BY <2>1, <2>2, <1>t DEF RwAgrees
  <1> QED BY Steps, <1>1, <1>2, <1>3, <1>4

LEMMA AttachedStep == ASSUME IInv, CacheNext PROVE Attached'
  <1>t. /\ blockno \in [Bufs -> Blocks \cup {Nobody}] /\ Attached
        /\ pc \in [Procs -> Labels] /\ mine \in [Procs -> Bufs \cup {Nobody}]
    BY DEF IInv, CacheTypeOK
  <1> USE Basics DEF bufVars, cacheVars
  <1>1. ASSUME NEW p \in Procs, CacheAction(p) PROVE Attached'
    <2>0. \A q \in Procs \ {p} : mine'[q] = mine[q] /\ (pc'[q] # "user" <=> pc[q] # "user")
      BY <1>1, CacheEffect
    <2> USE DEF Goto, Attached
    <2>1. ASSUME NEW n \in Blocks, BgetHit(p, n) PROVE Attached'
      <3> DEFINE b == lru[First(Positions(Cached(n)))]
      <3>1. b \in Bufs /\ blockno[b] = n
        BY <2>1, HitBuffer
      <3>2. mine'[p] = b /\ pc'[p] = "lock" /\ blockno' = blockno
        BY <2>1, <1>t DEF BgetHit
      <3> HIDE DEF b
      <3> QED BY <2>0, <3>1, <3>2, <1>t
    <2>2. ASSUME NEW n \in Blocks, BgetRecycle(p, n) PROVE Attached'
      <3> DEFINE b == lru[Last(Positions(Unused))]
      <3>1. b \in Bufs
        BY <2>2, Recycled
      <3>2. mine'[p] = b /\ pc'[p] = "lock" /\ blockno' = [blockno EXCEPT ![b] = n]
        BY <2>2, <1>t DEF BgetRecycle
      <3> HIDE DEF b
      <3>3. \A c \in Bufs : blockno[c] # Nobody => blockno'[c] # Nobody
        BY <3>1, <3>2, <1>t
      <3>4. blockno'[b] # Nobody
        BY <3>1, <3>2, <1>t
      <3> QED BY <2>0, <3>1, <3>2, <3>3, <3>4, <1>t
    <2>3. CASE Brelse(p)
      BY <2>3, <2>0, <1>t DEF Brelse
    <2>4. CASE Release(p)
      <3>1. pc[p] # "user" /\ pc'[p] # "user" /\ mine' = mine /\ blockno' = blockno
        BY <2>4, <1>t DEF Release
      <3> QED BY <3>1, <2>0, <1>t
    <2>5. CASE \/ Acquire(p) \/ AcquireSleeps(p) \/ BreadHit(p) \/ BreadMiss(p) \/ Looks(p)
      <3>1. pc[p] # "user" /\ pc'[p] # "user" /\ mine' = mine /\ blockno' = blockno
        BY <2>5, <1>t DEF Acquire, AcquireSleeps, BreadHit, BreadMiss, Looks
      <3> QED BY <3>1, <2>0, <1>t
    <2>6. CASE \E v \in Values : LogWrite(p, v) \/ Bwrite(p, v)
      <3>1. pc[p] # "user" /\ pc'[p] # "user" /\ mine' = mine /\ blockno' = blockno
        BY <2>6, <1>t DEF LogWrite, Bwrite
      <3> QED BY <3>1, <2>0, <1>t
    <2> QED BY <1>1, <2>1, <2>2, <2>3, <2>4, <2>5, <2>6 DEF CacheAction
  <1>2. ASSUME NEW p \in Procs, Return(p) PROVE Attached'
    <2>1. UNCHANGED <<blockno, mine>> /\ pc[p] # "user"
      BY <1>2, ReturnEffect DEF InDriver
    <2>2. \A q \in Procs : pc'[q] # "user" <=> pc[q] # "user"
      BY <1>2, <2>1, ReturnMoves
    <2> QED BY <2>1, <2>2, <1>t DEF Attached
  <1>3. ASSUME UNCHANGED cacheVars PROVE Attached'
    BY <1>3, <1>t DEF Attached
  <1> QED BY OtherSteps, <1>1, <1>2, <1>3

LEMMA LockingStep == ASSUME IInv, CacheNext PROVE Locking'
  <1>t. /\ lock \in [Bufs -> Procs \cup {Nobody}] /\ Locking /\ Attached
        /\ pc \in [Procs -> Labels] /\ mine \in [Procs -> Bufs \cup {Nobody}]
    BY DEF IInv, CacheTypeOK
  <1> USE Basics DEF bufVars, cacheVars
  <1>l. ASSUME NEW p \in Procs, UNCHANGED lock,
               \A q \in Procs \ {p} : mine'[q] = mine[q],
               \A q \in Procs \ {p} : pc'[q] = pc[q] \/ (pc[q] = "locksleep" /\ pc'[q] = "lock"),
               \/ pc[p] \in Using /\ pc'[p] \in Using /\ mine'[p] = mine[p]
               \/ pc[p] \notin Using /\ pc'[p] \notin Using,
               pc'[p] = "locksleep" => lock[mine'[p]] # Nobody
        PROVE  Locking'
    <2>1. ASSUME NEW q \in Procs, NEW b \in Bufs
          PROVE  lock'[b] = q <=> pc'[q] \in Using /\ mine'[q] = b
      BY <1>l, <1>t DEF Locking, Using
    <2>2. ASSUME NEW q \in Procs, pc'[q] = "locksleep" PROVE lock'[mine'[q]] # Nobody
      BY <1>l, <2>2, <1>t DEF Locking
    <2> QED BY <2>1, <2>2 DEF Locking
  <1>1. ASSUME NEW p \in Procs, CacheAction(p) PROVE Locking'
    <2>0. /\ \A q \in Procs \ {p} : mine'[q] = mine[q]
          /\ \A q \in Procs \ {p} : pc'[q] = pc[q] \/ (pc[q] = "locksleep" /\ pc'[q] = "lock")
      BY <1>1, CacheEffect
    <2>1. CASE Acquire(p)
      <3> DEFINE b == mine[p]
      <3>1. b \in Bufs /\ lock[b] = Nobody /\ pc[p] = "lock" /\ pc' = [pc EXCEPT ![p] = "valid"]
            /\ lock' = [lock EXCEPT ![b] = p] /\ mine' = mine
        BY <2>1, Exclusive DEF Acquire, Goto
      <3> HIDE DEF b
      <3>2. ASSUME NEW q \in Procs, NEW c \in Bufs
            PROVE  lock'[c] = q <=> pc'[q] \in Using /\ mine'[q] = c
        <4>1. mine[p] = b
          BY DEF b
        <4>2. CASE c = b
          <5>1. lock'[c] = p
            BY <4>2, <3>1, <1>t
          <5>2. q # p => ~(pc[q] \in Using /\ mine[q] = b)
            BY <3>1, <1>t DEF Locking
          <5> QED BY <5>1, <5>2, <4>1, <4>2, <3>1, <1>t DEF Using
        <4>3. CASE c # b
          <5>1. lock'[c] = lock[c]
            BY <4>3, <3>1, <1>t
          <5> QED BY <5>1, <4>1, <4>3, <3>1, <1>t DEF Locking, Using
        <4> QED BY <4>2, <4>3
      <3>3. ASSUME NEW q \in Procs, pc'[q] = "locksleep" PROVE lock'[mine'[q]] # Nobody
        <4>1. pc[q] = "locksleep" /\ mine[q] \in Bufs
          BY <3>3, <3>1, <1>t, Exclusive
        <4> QED BY <4>1, <3>1, <1>t DEF Locking
      <3> QED BY <3>2, <3>3 DEF Locking
    <2>2. CASE Release(p)
      <3> DEFINE b == mine[p]
      <3>1. b \in Bufs /\ lock[b] = p /\ pc[p] = "hold" /\ mine' = mine
            /\ lock' = [lock EXCEPT ![b] = Nobody]
            /\ pc' = [q \in Procs |-> IF q = p THEN "put"
                              ELSE IF pc[q] = "locksleep" /\ mine[q] = b THEN "lock" ELSE pc[q]]
        BY <2>2, Exclusive DEF Release
      <3>d. mine[p] = b
        OBVIOUS
      <3> HIDE DEF b
      <3>2. ASSUME NEW q \in Procs, NEW c \in Bufs
            PROVE  lock'[c] = q <=> pc'[q] \in Using /\ mine'[q] = c
        <4>1. pc'[q] \in Using <=> pc[q] \in Using /\ q # p
          BY <3>1 DEF Using
        <4>2. CASE c = b
          <5>1. lock'[c] = Nobody /\ q # Nobody
            BY <4>2, <3>1, <1>t
          <5>2. pc[q] \in Using /\ mine[q] = b => q = p
            BY <3>1, <1>t DEF Locking
          <5> QED BY <5>1, <5>2, <4>1, <4>2, <3>1
        <4>3. CASE c # b
          <5>1. lock'[c] = lock[c]
            BY <4>3, <3>1, <1>t
          <5> QED BY <5>1, <4>1, <4>3, <3>1, <3>d, <1>t DEF Locking
        <4> QED BY <4>2, <4>3
      <3>3. ASSUME NEW q \in Procs, pc'[q] = "locksleep" PROVE lock'[mine'[q]] # Nobody
        <4>1. pc[q] = "locksleep" /\ mine[q] # b /\ mine[q] \in Bufs
          BY <3>3, <3>1, <1>t, Exclusive
        <4> QED BY <4>1, <3>1, <1>t DEF Locking
      <3> QED BY <3>2, <3>3 DEF Locking
    <2>3. CASE AcquireSleeps(p)
      <3>1. UNCHANGED lock /\ pc[p] = "lock" /\ pc'[p] = "locksleep" /\ lock[mine[p]] # Nobody
            /\ mine' = mine
        BY <2>3, <1>t DEF AcquireSleeps, Goto
      <3> QED BY <3>1, <2>0, <1>l DEF Using
    <2>4. CASE (\E n \in Blocks : BgetHit(p, n) \/ BgetRecycle(p, n)) \/ Brelse(p) \/ Looks(p)
      <3>1. UNCHANGED lock /\ pc[p] \in {"user", "put", "locksleep"} /\ pc'[p] \in {"lock", "user"}
        BY <2>4, <1>t DEF BgetHit, BgetRecycle, Brelse, Looks, Goto
      <3>2. pc[p] \notin Using /\ pc'[p] \notin Using /\ pc'[p] # "locksleep"
        BY <3>1 DEF Using
      <3> QED BY <3>1, <3>2, <2>0, <1>l
    <2>5. CASE BreadHit(p) \/ BreadMiss(p) \/ \E v \in Values : LogWrite(p, v) \/ Bwrite(p, v)
      <3>1. UNCHANGED lock /\ mine' = mine /\ pc[p] \in {"valid", "hold"}
            /\ pc'[p] \in {"hold", "read", "flush", "write"}
        BY <2>5, <1>t DEF BreadHit, BreadMiss, LogWrite, Bwrite, Goto
      <3>2. pc[p] \in Using /\ pc'[p] \in Using /\ pc'[p] # "locksleep" /\ mine'[p] = mine[p]
        BY <3>1 DEF Using
      <3> QED BY <3>1, <3>2, <2>0, <1>l
    <2> QED BY <1>1, <2>1, <2>2, <2>3, <2>4, <2>5 DEF CacheAction
  <1>2. ASSUME NEW p \in Procs, Return(p) PROVE Locking'
    <2>1. UNCHANGED <<lock, mine>> /\ pc[p] \in Using /\ pc'[p] = "hold"
          /\ \A q \in Procs \ {p} : pc'[q] = pc[q]
      BY <1>2, ReturnEffect, ReturnMoves DEF InDriver, Using
    <2>2. pc'[p] \in Using /\ pc'[p] # "locksleep"
      BY <2>1 DEF Using
    <2> QED BY <2>1, <2>2, <1>l
  <1>3. ASSUME UNCHANGED cacheVars PROVE Locking'
    BY <1>3, <1>t DEF Locking
  <1> QED BY OtherSteps, <1>1, <1>2, <1>3

-----------------------------------------------------------------------------
(* Blocks, and the list of buffers *)

\* A block changes buffer only in bget(), and the log's pins only in log_write()
\* and install_trans().
LEMMA BlocksEffect ==
  ASSUME IInv, CacheNext
  PROVE  \/ \E p \in Procs, n \in Blocks : BgetRecycle(p, n)
         \/ \E p \in Procs, v \in Values : LogWrite(p, v)
         \/ \E p \in Procs : BreadReturn(p) \/ InstallReturn(p)
         \/ UNCHANGED <<blockno, valid, pinned>>
  <1> USE DEF bufVars, cacheVars
  <1>1. ASSUME NEW p \in Procs, CacheAction(p)
        PROVE  \/ \E n \in Blocks : BgetRecycle(p, n)
               \/ \E v \in Values : LogWrite(p, v)
               \/ UNCHANGED <<blockno, valid, pinned>>
    BY <1>1 DEF CacheAction, BgetHit, Acquire, AcquireSleeps, Release, Brelse, BreadHit,
       BreadMiss,
                Bwrite, Looks
  <1>2. ASSUME NEW p \in Procs, BwriteReturn(p) PROVE UNCHANGED <<blockno, valid, pinned>>
    BY <1>2 DEF BwriteReturn
  <1> QED BY <1>1, <1>2, OtherSteps DEF Return

LEMMA OneBufferStep == ASSUME IInv, CacheNext PROVE OneBuffer'
  <1>t. blockno \in [Bufs -> Blocks \cup {Nobody}] /\ OneBuffer
    BY DEF IInv, CacheTypeOK
  <1>1. ASSUME NEW p \in Procs, NEW n \in Blocks, BgetRecycle(p, n) PROVE OneBuffer'
    <2>0. PICK b : b = lru[Last(Positions(Unused))]
      OBVIOUS
    <2>1. b \in Bufs /\ \A c \in Bufs : blockno[c] # n
      BY <1>1, <2>0, Recycled
    <2>2. blockno' = [blockno EXCEPT ![b] = n]
      BY <1>1, <2>0 DEF BgetRecycle
    <2>3. \A c \in Bufs : blockno'[c] = IF c = b THEN n ELSE blockno[c]
      BY <2>1, <2>2, <1>t
    <2> QED BY <2>1, <2>3, <1>t DEF OneBuffer
  <1>2. ASSUME blockno' = blockno PROVE OneBuffer'
    BY <1>2, <1>t DEF OneBuffer
  <1> QED BY <1>1, <1>2, BlocksEffect DEF LogWrite, BreadReturn, InstallReturn

LEMMA PinnedIsCachedStep == ASSUME IInv, CacheNext PROVE PinnedIsCached'
  <1>t. /\ blockno \in [Bufs -> Blocks \cup {Nobody}] /\ valid \in [Bufs -> BOOLEAN]
        /\ PinnedIsCached
    BY DEF IInv, CacheTypeOK
  <1>1. ASSUME NEW p \in Procs, NEW n \in Blocks, BgetRecycle(p, n) PROVE PinnedIsCached'
    <2>0. PICK b : b = lru[Last(Positions(Unused))]
      OBVIOUS
    <2>1. b \in Bufs /\ blockno[b] \notin pinned
      BY <1>1, <2>0, Recycled
    <2>2. blockno' = [blockno EXCEPT ![b] = n] /\ valid' = [valid EXCEPT ![b] = FALSE]
          /\ pinned' = pinned
      BY <1>1, <2>0 DEF BgetRecycle
    <2>3. \A c \in Bufs : c # b => blockno'[c] = blockno[c] /\ valid'[c] = valid[c]
      BY <2>1, <2>2, <1>t
    <2> QED BY <2>1, <2>2, <2>3, <1>t DEF PinnedIsCached
  <1>2. ASSUME NEW p \in Procs, NEW v \in Values, LogWrite(p, v) PROVE PinnedIsCached'
    <2>1. mine[p] \in Bufs /\ valid[mine[p]]
      BY <1>2, Exclusive DEF LogWrite, IInv, Validity
    <2>2. UNCHANGED <<blockno, valid>> /\ pinned' = pinned \cup {blockno[mine[p]]}
      BY <1>2 DEF LogWrite
    <2> QED BY <2>1, <2>2, <1>t DEF PinnedIsCached
  <1>3. ASSUME NEW p \in Procs, BreadReturn(p) PROVE PinnedIsCached'
    <2>1. UNCHANGED <<blockno, pinned>> /\ valid' = [valid EXCEPT ![mine[p]] = TRUE]
      BY <1>3 DEF BreadReturn
    <2>2. \A c \in Bufs : valid[c] => valid'[c]
      BY <2>1, <1>t
    <2> QED BY <2>1, <2>2, <1>t DEF PinnedIsCached
  <1>4. ASSUME NEW p \in Procs, InstallReturn(p) PROVE PinnedIsCached'
    BY <1>4, <1>t DEF InstallReturn, PinnedIsCached
  <1>5. ASSUME UNCHANGED <<blockno, valid, pinned>> PROVE PinnedIsCached'
    BY <1>5, <1>t DEF PinnedIsCached
  <1> QED BY <1>1, <1>2, <1>3, <1>4, <1>5, BlocksEffect

\* A buffer in use keeps its block.
LEMMA UsedKeeps ==
  ASSUME IInv, CacheNext, NEW q \in Procs, pc[q] # "user"
  PROVE  blockno'[mine[q]] = blockno[mine[q]]
  <1>t. blockno \in [Bufs -> Blocks \cup {Nobody}] /\ mine[q] \in Bufs
    BY Exclusive DEF IInv, CacheTypeOK
  <1>1. ASSUME NEW p \in Procs, NEW n \in Blocks, BgetRecycle(p, n)
        PROVE  blockno'[mine[q]] = blockno[mine[q]]
    <2>1. lru[Last(Positions(Unused))] # mine[q]
      BY <1>1, Recycled DEF Users
    <2> QED BY <2>1, <1>1, <1>t DEF BgetRecycle
  <1> QED BY <1>1, BlocksEffect DEF LogWrite, BreadReturn, InstallReturn

LEMMA ValidityStep == ASSUME IInv, CacheNext PROVE Validity'
  <1>t. /\ blockno \in [Bufs -> Blocks \cup {Nobody}] /\ valid \in [Bufs -> BOOLEAN]
        /\ pc \in [Procs -> Labels] /\ mine \in [Procs -> Bufs \cup {Nobody}]
        /\ Validity
    BY DEF IInv, CacheTypeOK
  <1> DEFINE OK(q) ==
                 /\ pc[q] = "read" => ~valid[mine[q]]
                 /\ pc[q] \in {"hold", "write", "flush"} => valid[mine[q]]
                 /\ pc[q] = "flush" => blockno[mine[q]] \in pinned
                 /\ pc[q] = "write" => blockno[mine[q]] \notin pinned
  <1>a. \A q \in Procs : OK(q)
    BY <1>t DEF Validity
  <1>b. ASSUME \A b \in Bufs : valid'[b] => blockno'[b] # Nobody, \A q \in Procs : OK(q)'
        PROVE  Validity'
    BY <1>b DEF Validity
  <1>c. \A q \in Procs : pc[q] # "user" => mine[q] \in Bufs /\ blockno'[mine[q]] = blockno[mine[q]]
    BY UsedKeeps, Exclusive
  <1>q. ASSUME NEW p \in Procs, CacheAction(p), UNCHANGED <<valid, pinned>>, NEW q \in Procs \ {p}
        PROVE  OK(q)'
    <2>1. mine'[q] = mine[q] /\ (pc'[q] = pc[q] \/ (pc[q] = "locksleep" /\ pc'[q] = "lock"))
      BY <1>q, CacheEffect
    <2> QED BY <2>1, <1>a, <1>c, <1>q
  <1>1. ASSUME NEW p \in Procs, CacheAction(p) PROVE Validity'
    <2> USE DEF Goto, bufVars
    <2>1. ASSUME NEW n \in Blocks, BgetRecycle(p, n) PROVE Validity'
      <3>0. PICK b : b = lru[Last(Positions(Unused))]
        OBVIOUS
      <3>1. b \in Bufs /\ Users(b) = {} /\ n # Nobody
        BY <2>1, <3>0, Recycled, Basics
      <3>2. /\ valid' = [valid EXCEPT ![b] = FALSE] /\ blockno' = [blockno EXCEPT ![b] = n]
            /\ pinned' = pinned
        BY <2>1, <3>0 DEF BgetRecycle
      <3>3. \A c \in Bufs : valid'[c] => blockno'[c] # Nobody
        BY <3>1, <3>2, <1>t DEF Validity
      <3>4. ASSUME NEW q \in Procs \ {p} PROVE OK(q)'
        <4>1. mine'[q] = mine[q] /\ (pc'[q] = pc[q] \/ (pc[q] = "locksleep" /\ pc'[q] = "lock"))
          BY <1>1, CacheEffect
        <4>2. mine[q] # b
          BY <3>1 DEF Users
        <4>3. pc[q] # "user" => valid'[mine[q]] = valid[mine[q]]
          BY <4>2, <3>2, <1>c, <1>t
        <4>4. ASSUME pc'[q] \in {"read", "hold", "write", "flush"}
              PROVE  /\ pc'[q] = pc[q] /\ valid'[mine'[q]] = valid[mine[q]]
                     /\ blockno'[mine'[q]] = blockno[mine[q]] /\ OK(q)
          <5>1. pc'[q] = pc[q] /\ pc[q] # "user"
            BY <4>1, <4>4
          <5> QED BY <5>1, <4>1, <4>3, <1>a, <1>c
        <4>5. pinned' = pinned
          BY <3>2
        <4>6. CASE pc'[q] \in {"read", "hold", "write", "flush"}
          BY <4>4, <4>5, <4>6
        <4> QED BY <4>6
      <3>5. OK(p)'
        <4>1. pc'[p] = "lock"
          BY <2>1, <1>t DEF BgetRecycle
        <4> QED BY <4>1
      <3> QED BY <3>3, <3>4, <3>5, <1>b
    <2>2. ASSUME NEW v \in Values, LogWrite(p, v) PROVE Validity'
      <3>1. UNCHANGED <<blockno, valid, pc, mine>> /\ pinned' = pinned \cup {blockno[mine[p]]}
            /\ pc[p] = "hold"
        BY <2>2 DEF LogWrite
      <3>2. ASSUME NEW q \in Procs PROVE OK(q)'
        <4>1. pc[q] = "write" => blockno[mine[q]] # blockno[mine[p]]
          BY <3>1, Exclusive DEF Using
        <4> QED BY <4>1, <3>1, <1>a
      <3>3. \A c \in Bufs : valid'[c] => blockno'[c] # Nobody
        BY <3>1, <1>t DEF Validity
      <3> QED BY <3>2, <3>3, <1>b
    <2>3. ASSUME UNCHANGED <<blockno, valid, pinned>>, OK(p)' PROVE Validity'
      <3>1. \A c \in Bufs : valid'[c] => blockno'[c] # Nobody
        BY <2>3, <1>t DEF Validity
      <3>2. \A q \in Procs : OK(q)'
        BY <2>3, <1>1, <1>q
      <3> QED BY <3>1, <3>2, <1>b
    <2>4. CASE \/ \E n \in Blocks : BgetHit(p, n)
               \/ Acquire(p) \/ AcquireSleeps(p) \/ Release(p) \/ Brelse(p) \/ Looks(p)
      <3>1. UNCHANGED <<blockno, valid, pinned>> /\ pc'[p] \in {"lock", "valid", "locksleep", "put", "user"}
        BY <2>4, <1>t DEF BgetHit, Acquire, AcquireSleeps, Release, Brelse, Looks
      <3>2. OK(p)'
        BY <3>1
      <3> QED BY <3>1, <3>2, <2>3
    <2>5. CASE BreadHit(p)
      <3>1. UNCHANGED <<blockno, valid, pinned, mine>> /\ pc'[p] = "hold" /\ valid[mine[p]]
        BY <2>5, <1>t DEF BreadHit
      <3> QED BY <3>1, <2>3
    <2>6. CASE BreadMiss(p)
      <3>1. UNCHANGED <<blockno, valid, pinned, mine>> /\ pc'[p] = "read" /\ ~valid[mine[p]]
        BY <2>6, <1>t DEF BreadMiss
      <3> QED BY <3>1, <2>3
    <2>7. ASSUME NEW v \in Values, Bwrite(p, v) PROVE Validity'
      <3>1. UNCHANGED <<blockno, valid, pinned, mine>> /\ pc[p] = "hold"
            /\ pc'[p] = IF blockno[mine[p]] \in pinned THEN "flush" ELSE "write"
        BY <2>7, <1>t DEF Bwrite
      <3>2. OK(p)'
        BY <3>1, <1>a
      <3> QED BY <3>1, <3>2, <2>3
    <2> HIDE DEF OK
    <2>8. CASE \E n \in Blocks : BgetHit(p, n) \/ BgetRecycle(p, n)
      BY <2>8, <2>1, <2>4
    <2>9. CASE \E v \in Values : LogWrite(p, v) \/ Bwrite(p, v)
      BY <2>9, <2>2, <2>7
    <2> QED BY <1>1, <2>8, <2>9, <2>4, <2>5, <2>6 DEF CacheAction
  <1>2. ASSUME NEW p \in Procs, Return(p) PROVE Validity'
    <2>0. /\ UNCHANGED <<blockno, mine>> /\ pc'[p] = "hold" /\ pc[p] \in InDriver
          /\ \A q \in Procs \ {p} : pc'[q] = pc[q]
          /\ mine[p] \in Bufs /\ blockno[mine[p]] # Nobody
      BY <1>2, ReturnEffect, ReturnMoves, Basics
    <2>1. CASE BreadReturn(p)
      <3>1. valid' = [valid EXCEPT ![mine[p]] = TRUE] /\ pinned' = pinned
        BY <2>1 DEF BreadReturn
      <3>2. ASSUME NEW q \in Procs PROVE OK(q)'
        <4>1. pc[q] = "read" /\ q # p => mine[q] # mine[p]
          BY <2>0, Exclusive DEF Using, InDriver
        <4>2. pc[q] # "user" => valid'[mine[q]] = IF mine[q] = mine[p] THEN TRUE ELSE valid[mine[q]]
          BY <3>1, <1>c, <1>t
        <4> QED BY <4>1, <4>2, <2>0, <3>1, <1>a, <1>t
      <3>3. \A c \in Bufs : valid'[c] => blockno'[c] # Nobody
        BY <3>1, <2>0, <1>t DEF Validity
      <3> QED BY <3>2, <3>3, <1>b
    <2>2. CASE BwriteReturn(p) \/ InstallReturn(p)
      <3>1. valid' = valid /\ pc[p] \in {"write", "flush"}
            /\ (pinned' = pinned \/ pinned' = pinned \ {blockno[mine[p]]})
        BY <2>2 DEF BwriteReturn, InstallReturn, Goto, bufVars
      <3>2. ASSUME NEW q \in Procs PROVE OK(q)'
        <4>1. pc[q] = "flush" /\ q # p => blockno[mine[q]] # blockno[mine[p]]
          BY <2>0, Exclusive DEF Using, InDriver
        <4>2. CASE q = p
          <5>1. valid[mine[p]]
            BY <3>1, <1>a
          <5>2. pc'[q] = "hold" /\ valid'[mine'[q]]
            BY <5>1, <4>2, <3>1, <2>0
          <5> QED BY <5>2
        <4>3. CASE q # p
          <5>1. pc'[q] = pc[q] /\ mine'[q] = mine[q] /\ OK(q)
            BY <4>3, <2>0, <1>a
          <5>2. blockno[mine[q]] # blockno[mine[p]] /\ blockno[mine[q]] \in pinned
                  => blockno[mine[q]] \in pinned'
            BY <3>1
          <5>3. blockno[mine[q]] \notin pinned => blockno[mine[q]] \notin pinned'
            BY <3>1
          <5> QED BY <5>1, <5>2, <5>3, <4>1, <4>3, <3>1, <2>0
        <4> QED BY <4>2, <4>3
      <3>3. \A c \in Bufs : valid'[c] => blockno'[c] # Nobody
        BY <3>1, <2>0, <1>t DEF Validity
      <3> QED BY <3>2, <3>3, <1>b
    <2> QED BY <1>2, <2>1, <2>2 DEF Return
  <1>3. ASSUME UNCHANGED cacheVars PROVE Validity'
    BY <1>3, <1>t DEF Validity, cacheVars, bufVars
  <1> QED BY OtherSteps, <1>1, <1>2, <1>3

LEMMA ListedStep == ASSUME IInv, CacheNext PROVE Listed'
  <1>t. CacheTypeOK /\ Listed
    BY DEF IInv
  <1>1. ASSUME NEW p \in Procs, Brelse(p) PROVE Listed'
    <2>1. mine[p] \in Bufs
      BY <1>1, Exclusive DEF Brelse, Goto
    <2>2. \A c \in Bufs : \E i \in DOMAIN ToHead(mine[p]) : ToHead(mine[p])[i] = c
      BY <1>t, <2>1, ToHeadFacts
    <2>3. lru' = ToHead(mine[p]) \/ lru' = lru
      BY <1>1 DEF Brelse
    <2> QED BY <2>2, <2>3, <1>t DEF Listed
  <1>2. ASSUME lru' = lru PROVE Listed'
    BY <1>2, <1>t DEF Listed
  <1>3. ASSUME NEW p \in Procs, CacheAction(p) PROVE Brelse(p) \/ lru' = lru
    BY <1>3 DEF CacheAction, BgetHit, BgetRecycle, Acquire, AcquireSleeps, Release, BreadHit,
       BreadMiss,
                LogWrite, Bwrite, Looks, bufVars
  <1>4. ASSUME NEW p \in Procs, Return(p) PROVE lru' = lru
    BY <1>4, ReturnEffect
  <1>5. ASSUME UNCHANGED cacheVars PROVE lru' = lru
    BY <1>5 DEF cacheVars, bufVars
  <1> QED BY OtherSteps, <1>1, <1>2, <1>3, <1>4, <1>5

-----------------------------------------------------------------------------
(* The descriptors *)

\* Chains are made when a request is submitted and freed when it returns; between
\* the two they and their buffer stay as they are.
LEMMA SameChains ==
  ASSUME IInv, CacheNext
  PROVE  \/ \E p \in Procs : Submit(p) \/ Return(p)
         \/ /\ UNCHANGED <<idx, free, info>>
            /\ \A q \in Procs : Chained(q)' <=> Chained(q)
            /\ \A q \in Procs : Chained(q) =>
                  mine'[q] = mine[q] /\ pc'[q] = pc[q] /\ blockno'[mine[q]] = blockno[mine[q]]
  <1>t. rw \in [Procs -> {"none", "alloc", "full", "wait", "check"}]
    BY DEF IInv, CacheTypeOK, VirtioTypeOK
  <1> DEFINE Same == /\ UNCHANGED <<idx, free, info>>
                     /\ \A q \in Procs : Chained(q)' <=> Chained(q)
                     /\ \A q \in Procs : Chained(q) =>
                           mine'[q] = mine[q] /\ pc'[q] = pc[q] /\ blockno'[mine[q]] = blockno[mine[q]]
  <1>1. ASSUME NEW p \in Procs, CacheAction(p) PROVE Same
    <2>1. UNCHANGED <<idx, free, info>>
      BY <1>1, CacheEffect
    <2>2. \A q \in Procs : Chained(q)' <=> Chained(q)
      BY <1>1, CacheEffect DEF Chained
    <2>3. \A q \in Procs : Chained(q) =>
             mine'[q] = mine[q] /\ pc'[q] = pc[q] /\ blockno'[mine[q]] = blockno[mine[q]]
      BY <1>1, ChainedKeeps
    <2> QED BY <2>1, <2>2, <2>3
  <1>2. ASSUME UNCHANGED <<idx, free, info>>, UNCHANGED cacheVars,
               \A q \in Procs : rw'[q] \in {"wait", "check"} <=> rw[q] \in {"wait", "check"}
        PROVE  Same
    BY <1>2 DEF Chained, cacheVars, bufVars
  <1>3. ASSUME NEW p \in Procs, Full(p) \/ Again(p) \/ Kicked(p) PROVE Same
    <2>1. UNCHANGED <<idx, free, info>> /\ UNCHANGED cacheVars
      BY <1>3 DEF Full, RwFull, Again, RwSleepAgain, Kicked, RwKicked
    <2>2. \A q \in Procs : rw'[q] \in {"wait", "check"} <=> rw[q] \in {"wait", "check"}
      <3>1. CASE Full(p)
        BY <3>1, <1>t DEF Full, RwFull, WokenByFree
      <3>2. CASE Again(p) \/ Kicked(p)
        BY <3>2, <1>t DEF Again, RwSleepAgain, Kicked, RwKicked
      <3> QED BY <1>3, <3>1, <3>2
    <2> QED BY <2>1, <2>2, <1>2
  <1>4. ASSUME Quiet \/ \E rq \in avail : Serve(rq) PROVE Same
    <2>1. UNCHANGED <<idx, free, info, rw>> /\ UNCHANGED cacheVars
      BY <1>4 DEF Quiet, DeviceInterrupts, IntrAck, IntrEndLoop, IntrReturn, Serve,
         DeviceServes,
                  driverVars
    <2> QED BY <2>1, <1>2
  <1>5. ASSUME Finish PROVE Same
    <2>1. UNCHANGED <<idx, free, info>> /\ UNCHANGED cacheVars
      BY <1>5 DEF Finish, IntrOne
    <2>2. \A q \in Procs : rw'[q] \in {"wait", "check"} <=> rw[q] \in {"wait", "check"}
      BY <1>5, <1>t DEF Finish, IntrOne
    <2> QED BY <2>1, <2>2, <1>2
  <1> HIDE DEF Same
  <1>6. (\E p \in Procs : Submit(p) \/ Return(p)) \/ Same
    BY Steps, <1>1, <1>3, <1>4, <1>5
  <1> QED BY <1>6 DEF Same

\* A chain in the making.
LEMMA SubmitEffect ==
  ASSUME IInv, NEW p \in Procs, Submit(p)
  PROVE  /\ Three \subseteq free /\ Least(Three) \in Three /\ Three # {} /\ Cardinality(free) >= 3
         /\ idx' = [idx EXCEPT ![p] = Three] /\ free' = free \ Three
         /\ info' = [info EXCEPT ![Least(Three)] = mine[p]]
         /\ disk' = disk \cup {mine[p]} /\ mine[p] \in Bufs
         /\ avail' = avail \cup {[id |-> Least(Three), write |-> pc[p] # "read",
                                  block |-> blockno[mine[p]], buf |-> mine[p]]}
         /\ ~Chained(p) /\ rw'[p] = "wait" /\ First3(p)' = Least(Three)
         /\ \A q \in Procs \ {p} : rw'[q] = rw[q] /\ idx'[q] = idx[q] /\ First3(q)' = First3(q)
         /\ UNCHANGED cacheVars /\ UNCHANGED <<media, data, used, owed, irq, intr>>
         /\ \A q \in Procs : Chained(q)' <=> Chained(q) \/ q = p
  <1>t. /\ rw \in [Procs -> {"none", "alloc", "full", "wait", "check"}]
        /\ idx \in [Procs -> SUBSET Desc] /\ CacheTypeOK
    BY DEF IInv, CacheTypeOK, VirtioTypeOK
  <1>1. RwSubmit(p, mine[p], blockno[mine[p]], pc[p] # "read") /\ UNCHANGED cacheVars /\ pc[p] \in InDriver
    BY DEF Submit
  <1>2. Three \subseteq free /\ Three # {} /\ Least(Three) \in Three
    BY <1>1, <1>t, ThreeIsFree DEF RwSubmit
  <1>3. mine[p] \in Bufs
    BY <1>1, Exclusive DEF InDriver
  <1>4. ~Chained(p) /\ rw'[p] = "wait" /\ idx'[p] = Three
        /\ \A q \in Procs \ {p} : rw'[q] = rw[q] /\ idx'[q] = idx[q]
    BY <1>1, <1>t DEF RwSubmit, Chained
  <1>5. First3(p)' = Least(Three) /\ \A q \in Procs \ {p} : First3(q)' = First3(q)
    BY <1>4 DEF First3
  <1>6. \A q \in Procs : Chained(q)' <=> Chained(q) \/ q = p
    BY <1>4 DEF Chained
  <1> QED BY <1>1, <1>2, <1>3, <1>4, <1>5, <1>6 DEF RwSubmit

LEMMA ChainsStep == ASSUME IInv, CacheNext PROVE Chains'
  <1>t. /\ free \subseteq Desc /\ idx \in [Procs -> SUBSET Desc]
        /\ info \in [Desc -> Bufs \cup {Nobody}] /\ Chains /\ num \in Nat
    BY VirtioAssumption DEF IInv, CacheTypeOK, VirtioTypeOK
  <1>n. Desc' = Desc
    BY Steps DEF Desc
  <1>1. ASSUME NEW p \in Procs, Submit(p) PROVE Chains'
    <2>e. /\ Three \subseteq free /\ Least(Three) \in Three /\ Three # {}
          /\ idx' = [idx EXCEPT ![p] = Three] /\ free' = free \ Three
          /\ info' = [info EXCEPT ![Least(Three)] = mine[p]] /\ ~Chained(p) /\ UNCHANGED cacheVars
          /\ First3(p)' = Least(Three) /\ \A q \in Procs \ {p} : First3(q)' = First3(q)
          /\ \A q \in Procs : Chained(q)' <=> Chained(q) \/ q = p
      BY <1>1, SubmitEffect
    <2>0. PICK T, h : T = Three /\ h = Least(Three)
      OBVIOUS
    <2>1. \A q \in Procs : idx'[q] = IF q = p THEN T ELSE idx[q]
      BY <2>e, <2>0, <1>t
    <2>2. \A q \in Procs : idx[q] \cap T = {}
      BY <2>e, <2>0, <1>t DEF Chains
    <2>3. idx[p] = {}
      BY <2>e, <1>t DEF Chains
    <2>4. \A q, rq \in Procs : q # rq => idx'[q] \cap idx'[rq] = {}
      BY <2>1, <2>2, <1>t DEF Chains
    <2>5. \A q \in Procs : idx'[q] \cap free' = {}
      BY <2>1, <2>e, <2>0, <1>t DEF Chains
    <2>6. free' \cup UNION {idx'[q] : q \in Procs} = Desc
      <3>1. ASSUME NEW d \in Desc PROVE d \in free' \/ \E q \in Procs : d \in idx'[q]
        <4>1. d \in free \/ \E q \in Procs : d \in idx[q]
          BY <1>t DEF Chains
        <4>2. CASE d \in free
          BY <4>2, <2>1, <2>e, <2>0
        <4>3. ASSUME NEW q \in Procs, d \in idx[q] PROVE \E rq \in Procs : d \in idx'[rq]
          <5>1. q # p
            BY <4>3, <2>3
          <5> QED BY <4>3, <5>1, <2>1
        <4> QED BY <4>1, <4>2, <4>3
      <3>2. free' \subseteq Desc /\ \A q \in Procs : idx'[q] \subseteq Desc
        BY <2>1, <2>e, <2>0, <1>t
      <3> QED BY <3>1, <3>2
    <2>7. \A q \in Procs : idx'[q] # {} <=> Chained(q)'
      BY <2>1, <2>e, <2>0, <1>t DEF Chains
    <2>8. ASSUME NEW q \in Procs, Chained(q)' PROVE info'[First3(q)'] = mine'[q]
      <3>1. mine' = mine /\ h \in Desc
        BY <2>e, <2>0, <1>t DEF cacheVars
      <3>2. CASE q = p
        BY <3>1, <3>2, <2>e, <2>0, <1>t
      <3>3. CASE q # p
        <4>1. Chained(q) /\ First3(q)' = First3(q)
          BY <2>8, <3>3, <2>e
        <4>2. First3(q) \notin free /\ First3(q) \in Desc /\ info[First3(q)] = mine[q]
          BY <4>1, <1>t, ChainHead DEF Chains
        <4>3. First3(q) # h
          BY <4>2, <2>e, <2>0
        <4> QED BY <4>1, <4>2, <4>3, <3>1, <2>e, <2>0, <1>t
      <3> QED BY <3>2, <3>3
    <2> QED BY <2>4, <2>5, <2>6, <2>7, <2>8, <1>n DEF Chains
  <1>2. ASSUME NEW p \in Procs, Return(p) PROVE Chains'
    <2>e. /\ info' = [info EXCEPT ![First3(p)] = Nobody] /\ free' = free \cup idx[p]
          /\ mine' = mine /\ Chained(p)
      BY <1>2, ReturnEffect DEF RwReturn, First3
    <2>1. \A q \in Procs : idx'[q] = IF q = p THEN {} ELSE idx[q]
      BY <1>2, ReturnMoves
    <2>2. \A q \in Procs : Chained(q)' <=> Chained(q) /\ q # p
      BY <1>2, ReturnMoves
    <2>4. \A q, rq \in Procs : q # rq => idx'[q] \cap idx'[rq] = {}
      BY <2>1, <1>t DEF Chains
    <2>5. \A q \in Procs : idx'[q] \cap free' = {}
      BY <2>1, <2>e, <1>t DEF Chains
    <2>6. free' \cup UNION {idx'[q] : q \in Procs} = Desc
      <3>1. ASSUME NEW d \in Desc PROVE d \in free' \/ \E q \in Procs : d \in idx'[q]
        <4>1. d \in free \/ \E q \in Procs : d \in idx[q]
          BY <1>t DEF Chains
        <4>2. CASE d \in free
          BY <4>2, <2>e
        <4>3. ASSUME NEW q \in Procs, d \in idx[q] PROVE d \in free' \/ d \in idx'[q]
          BY <4>3, <2>1, <2>e
        <4> QED BY <4>1, <4>2, <4>3
      <3>2. free' \subseteq Desc /\ \A q \in Procs : idx'[q] \subseteq Desc
        BY <2>1, <2>e, <1>t
      <3> QED BY <3>1, <3>2
    <2>7. \A q \in Procs : idx'[q] # {} <=> Chained(q)'
      BY <2>1, <2>2, <1>t DEF Chains
    <2>8. ASSUME NEW q \in Procs, Chained(q)' PROVE info'[First3(q)'] = mine'[q]
      <3>1. Chained(q) /\ q # p /\ First3(q)' = First3(q)
        BY <2>8, <2>1, <2>2 DEF First3
      <3>2. First3(q) # First3(p) /\ First3(q) \in Desc /\ info[First3(q)] = mine[q]
        BY <3>1, <2>e, <1>t, ChainHead DEF Chains
      <3> QED BY <3>1, <3>2, <2>e, <1>t
    <2> QED BY <2>4, <2>5, <2>6, <2>7, <2>8, <1>n DEF Chains
  <1>3. ASSUME UNCHANGED <<idx, free, info>>,
               \A q \in Procs : Chained(q)' <=> Chained(q),
               \A q \in Procs : Chained(q) => mine'[q] = mine[q]
        PROVE  Chains'
    <2>1. \A q \in Procs : First3(q)' = First3(q)
      BY <1>3 DEF First3
    <2> QED BY <2>1, <1>3, <1>n, <1>t DEF Chains
  <1> QED BY SameChains, <1>1, <1>2, <1>3

-----------------------------------------------------------------------------
(* Requests *)

LEMMA PendingFrame ==
  ASSUME IInv, UNCHANGED <<idx, avail, used, disk>>,
         \A q \in Procs : Chained(q)' <=> Chained(q),
         \A q \in Procs : Chained(q) =>
             mine'[q] = mine[q] /\ pc'[q] = pc[q] /\ blockno'[mine[q]] = blockno[mine[q]],
         \A q \in Procs : rw'[q] = "wait" => Chained(q) /\ (rw[q] = "wait" \/ mine[q] \in disk)
  PROVE  Pending'
  <1>t. Pending
    BY DEF IInv
  <1>1. \A q \in Procs : First3(q)' = First3(q)
    BY DEF First3
  <1>2. \A q \in Procs : (AtDevice(q)' <=> AtDevice(q)) /\ (InRing(q)' <=> InRing(q))
    BY <1>1 DEF AtDevice, InRing
  <1>3. \A q \in Procs, rq \in avail : Asks(q, rq) => Asks(q, rq)'
    BY <1>1 DEF Asks
  <1>4. \A rq \in avail' : \E p \in Procs : Asks(p, rq)'
    BY <1>3, <1>t DEF Pending
  <1>5. \A i \in DOMAIN used' : \E p \in Procs : Chained(p)' /\ used'[i] = First3(p)'
    BY <1>1, <1>t DEF Pending
  <1>6. \A i, j \in DOMAIN used' : used'[i] = used'[j] => i = j
    BY <1>t DEF Pending
  <1>7. \A b \in disk' : \E p \in Procs : Chained(p)' /\ mine'[p] = b
    BY <1>t DEF Pending
  <1>8. \A p \in Procs : Chained(p)' =>
          /\ mine'[p] \in disk' <=> AtDevice(p)' \/ InRing(p)'
          /\ ~(AtDevice(p)' /\ InRing(p)')
    BY <1>2, <1>t DEF Pending
  <1>9. \A p \in Procs : rw'[p] = "wait" => mine'[p] \in disk'
    BY <1>t DEF Pending
  <1> QED BY <1>4, <1>5, <1>6, <1>7, <1>8, <1>9 DEF Pending

LEMMA PendingSubmit == ASSUME IInv, NEW p \in Procs, Submit(p) PROVE Pending'
  <1>t. Pending /\ used \in Seq(Desc)
    BY DEF IInv, CacheTypeOK, VirtioTypeOK
  <1>0. PICK T, h : T = Three /\ h = Least(Three)
    OBVIOUS
  <1>e. /\ T \subseteq free /\ h \in T
        /\ disk' = disk \cup {mine[p]} /\ mine[p] \in Bufs
        /\ avail' = avail \cup {[id |-> h, write |-> pc[p] # "read",
                                 block |-> blockno[mine[p]], buf |-> mine[p]]}
        /\ ~Chained(p) /\ First3(p)' = h
        /\ \A q \in Procs \ {p} : rw'[q] = rw[q] /\ First3(q)' = First3(q)
        /\ UNCHANGED <<mine, pc, blockno, used>>
        /\ \A q \in Procs : Chained(q)' <=> Chained(q) \/ q = p
    BY <1>0, SubmitEffect DEF cacheVars, bufVars
  <1>p. pc[p] \in InDriver
    BY DEF Submit
  <1>h. \A q \in Procs : Chained(q) => q # p /\ First3(q) # h /\ mine[q] # mine[p]
    <2> TAKE q \in Procs
    <2> HAVE Chained(q)
    <2>1. q # p /\ First3(q) \notin free
      BY <1>e, ChainHead
    <2>2. pc[q] \in Using /\ pc[p] \in Using
      BY <1>p, Exclusive DEF Using, InDriver
    <2>3. mine[q] # mine[p]
      BY <2>1, <2>2, Exclusive
    <2> QED BY <2>1, <2>3, <1>e
  <1>1. \A rq \in avail' : \E q \in Procs : Asks(q, rq)'
    <2> TAKE rq \in avail'
    <2>1. CASE rq \in avail
      <3>1. PICK q \in Procs : Asks(q, rq)
        BY <2>1, <1>t DEF Pending
      <3>2. Chained(q) /\ q # p
        BY <3>1, <1>h DEF Asks
      <3> QED BY <3>1, <3>2, <1>e DEF Asks
    <2>2. CASE rq = [id |-> h, write |-> pc[p] # "read", block |-> blockno[mine[p]], buf |-> mine[p]]
      BY <2>2, <1>e DEF Asks
    <2> QED BY <2>1, <2>2, <1>e
  <1>2. \A i \in DOMAIN used' : \E q \in Procs : Chained(q)' /\ used'[i] = First3(q)'
    BY <1>e, <1>h, <1>t DEF Pending
  <1>3. \A i, j \in DOMAIN used' : used'[i] = used'[j] => i = j
    BY <1>e, <1>t DEF Pending
  <1>4. \A b \in disk' : \E q \in Procs : Chained(q)' /\ mine'[q] = b
    BY <1>e, <1>t DEF Pending
  <1>5. ASSUME NEW q \in Procs, Chained(q)'
        PROVE  /\ mine'[q] \in disk' <=> AtDevice(q)' \/ InRing(q)'
               /\ ~(AtDevice(q)' /\ InRing(q)')
    <2>1. CASE q = p
      <3>1. mine'[q] \in disk' /\ AtDevice(q)'
        <4>1. mine'[q] \in disk' /\ First3(q)' = h
          BY <2>1, <1>e
        <4>2. \E rq \in avail' : rq.id = h
          <5> DEFINE rq == [id |-> h, write |-> pc[p] # "read", block |-> blockno[mine[p]], buf |-> mine[p]]
          <5>1. rq \in avail'
            BY <1>e
          <5>2. rq.id = h
            OBVIOUS
          <5> QED BY <5>1, <5>2
        <4> QED BY <4>1, <4>2 DEF AtDevice
      <3>2. \A i \in DOMAIN used : used[i] # h
        BY <1>h, <1>t DEF Pending
      <3>3. ~InRing(q)'
        BY <2>1, <3>2, <1>e DEF InRing
      <3> QED BY <3>1, <3>3
    <2>2. CASE q # p
      <3>1. Chained(q) /\ First3(q)' = First3(q) /\ First3(q) # h /\ mine[q] # mine[p]
        BY <2>2, <1>5, <1>e, <1>h
      <3>2. AtDevice(q)' <=> AtDevice(q)
        BY <3>1, <1>e DEF AtDevice
      <3>3. InRing(q)' <=> InRing(q)
        BY <3>1, <1>e DEF InRing
      <3>4. mine'[q] \in disk' <=> mine[q] \in disk
        BY <3>1, <1>e
      <3> QED BY <3>1, <3>2, <3>3, <3>4, <1>t DEF Pending
    <2> QED BY <2>1, <2>2
  <1>6. \A q \in Procs : rw'[q] = "wait" => mine'[q] \in disk'
    BY <1>e, <1>t DEF Pending
  <1> QED BY <1>1, <1>2, <1>3, <1>4, <1>5, <1>6 DEF Pending

LEMMA PendingReturn == ASSUME IInv, NEW p \in Procs, Return(p) PROVE Pending'
  <1>t. Pending
    BY DEF IInv
  <1>e. /\ UNCHANGED <<mine, blockno, avail, used, disk>> /\ ~AtDevice(p) /\ ~InRing(p)
        /\ mine[p] \notin disk /\ Chained(p)
    BY ReturnEffect DEF RwReturn, deviceVars
  <1>m. /\ \A q \in Procs \ {p} : idx'[q] = idx[q] /\ pc'[q] = pc[q]
        /\ \A q \in Procs : Chained(q)' <=> Chained(q) /\ q # p
        /\ \A q \in Procs : rw'[q] = "wait" => q # p /\ rw[q] = "wait"
    BY ReturnMoves
  <1>f. \A q \in Procs \ {p} : First3(q)' = First3(q)
    BY <1>m DEF First3
  <1>a. \A q \in Procs \ {p} : (AtDevice(q)' <=> AtDevice(q)) /\ (InRing(q)' <=> InRing(q))
    BY <1>f, <1>e DEF AtDevice, InRing
  <1>1. \A rq \in avail' : \E q \in Procs : Asks(q, rq)'
    <2> TAKE rq \in avail'
    <2>1. PICK q \in Procs : Asks(q, rq)
      BY <1>e, <1>t DEF Pending
    <2>2. q # p
      BY <2>1, <1>e DEF Asks, AtDevice
    <2> QED BY <2>1, <2>2, <1>e, <1>m, <1>f DEF Asks
  <1>2. \A i \in DOMAIN used' : \E q \in Procs : Chained(q)' /\ used'[i] = First3(q)'
    <2> TAKE i \in DOMAIN used'
    <2>1. PICK q \in Procs : Chained(q) /\ used[i] = First3(q)
      BY <1>e, <1>t DEF Pending
    <2>2. q # p
      BY <2>1, <1>e DEF InRing
    <2> QED BY <2>1, <2>2, <1>e, <1>m, <1>f
  <1>3. \A i, j \in DOMAIN used' : used'[i] = used'[j] => i = j
    BY <1>e, <1>t DEF Pending
  <1>4. \A b \in disk' : \E q \in Procs : Chained(q)' /\ mine'[q] = b
    BY <1>e, <1>m, <1>t DEF Pending
  <1>5. \A q \in Procs : Chained(q)' =>
          /\ mine'[q] \in disk' <=> AtDevice(q)' \/ InRing(q)'
          /\ ~(AtDevice(q)' /\ InRing(q)')
    BY <1>e, <1>m, <1>a, <1>t DEF Pending
  <1>6. \A q \in Procs : rw'[q] = "wait" => mine'[q] \in disk'
    BY <1>e, <1>m, <1>t DEF Pending
  <1> QED BY <1>1, <1>2, <1>3, <1>4, <1>5, <1>6 DEF Pending

\* The interrupt handler finishes the request at the head of the ring.
LEMMA FinishEffect ==
  ASSUME IInv, Finish
  PROVE  \E p \in Procs :
            /\ Chained(p) /\ used # <<>> /\ used[1] = First3(p) /\ used' = Tail(used)
            /\ disk' = disk \ {mine[p]}
            /\ \A q \in Procs : rw'[q] = "wait" => rw[q] = "wait" /\ q # p
            /\ \A q \in Procs : Chained(q)' <=> Chained(q)
            /\ UNCHANGED cacheVars /\ UNCHANGED <<media, data, avail, free, info, idx>>
  <1>t. /\ used \in Seq(Desc) /\ Pending /\ Chains
        /\ rw \in [Procs -> {"none", "alloc", "full", "wait", "check"}]
    BY DEF IInv, CacheTypeOK, VirtioTypeOK
  <1>1. /\ used # <<>> /\ used' = Tail(used) /\ disk' = disk \ {info[Head(used)]}
        /\ rw' = [q \in Procs |-> IF rw[q] = "wait" /\ info[Least(idx[q])] = info[Head(used)]
                                  THEN "check" ELSE rw[q]]
        /\ UNCHANGED cacheVars /\ UNCHANGED <<media, data, avail, free, info, idx>>
    BY DEF Finish, IntrOne
  <1>2. Head(used) = used[1] /\ 1 \in DOMAIN used
    BY <1>1, <1>t
  <1>3. PICK p \in Procs : Chained(p) /\ used[1] = First3(p)
    BY <1>2, <1>t DEF Pending
  <1>4. info[Head(used)] = mine[p] /\ info[Least(idx[p])] = mine[p]
    BY <1>2, <1>3, <1>t DEF Chains, First3
  <1>5. disk' = disk \ {mine[p]}
    BY <1>1, <1>4
  <1>6. \A q \in Procs : rw'[q] = "wait" => rw[q] = "wait" /\ q # p
    BY <1>1, <1>4
  <1>7. \A q \in Procs : Chained(q)' <=> Chained(q)
    BY <1>1 DEF Chained
  <1> QED BY <1>1, <1>3, <1>5, <1>6, <1>7

LEMMA PendingFinish == ASSUME IInv, Finish PROVE Pending'
  <1>t. Pending /\ used \in Seq(Desc)
    BY DEF IInv, CacheTypeOK, VirtioTypeOK
  <1>0. PICK p \in Procs :
            /\ Chained(p) /\ used # <<>> /\ used[1] = First3(p) /\ used' = Tail(used)
            /\ disk' = disk \ {mine[p]}
            /\ \A q \in Procs : rw'[q] = "wait" => rw[q] = "wait" /\ q # p
            /\ \A q \in Procs : Chained(q)' <=> Chained(q)
            /\ UNCHANGED cacheVars /\ UNCHANGED <<media, data, avail, free, info, idx>>
    BY FinishEffect
  <1>u. UNCHANGED <<mine, pc, blockno>>
    BY <1>0 DEF cacheVars, bufVars
  <1>f. \A q \in Procs : First3(q)' = First3(q)
    BY <1>0 DEF First3
  <1>s. /\ DOMAIN used = 1 .. Len(used) /\ Len(used) \in Nat /\ Len(used) >= 1
        /\ DOMAIN used' = 1 .. Len(used) - 1 /\ \A i \in DOMAIN used' : used'[i] = used[i + 1]
    BY <1>0, <1>t
  <1>1. \A rq \in avail' : \E q \in Procs : Asks(q, rq)'
    BY <1>0, <1>u, <1>f, <1>t DEF Pending, Asks
  <1>2. \A i \in DOMAIN used' : \E q \in Procs : Chained(q)' /\ used'[i] = First3(q)'
    <2> TAKE i \in DOMAIN used'
    <2>1. i + 1 \in DOMAIN used
      BY <1>s
    <2> QED BY <2>1, <1>s, <1>0, <1>f, <1>t DEF Pending
  <1>3. \A i, j \in DOMAIN used' : used'[i] = used'[j] => i = j
    <2> TAKE i, j \in DOMAIN used'
    <2>1. i + 1 \in DOMAIN used /\ j + 1 \in DOMAIN used /\ i \in Int /\ j \in Int
      BY <1>s
    <2>2. used[i + 1] = used[j + 1] => i + 1 = j + 1
      BY <2>1, <1>t DEF Pending
    <2> QED BY <2>1, <2>2, <1>s
  <1>rq. \A q \in Procs \ {p} : Chained(q) => (InRing(q)' <=> InRing(q))
    <2> TAKE q \in Procs \ {p}
    <2> HAVE Chained(q)
    <2>1. First3(q) # used[1]
      BY <1>0, ChainHead
    <2>2. ASSUME NEW i \in DOMAIN used, used[i] = First3(q)
          PROVE  \E j \in DOMAIN used' : used'[j] = First3(q)
      <3>1. i - 1 \in DOMAIN used' /\ (i - 1) + 1 = i
        BY <2>1, <2>2, <1>s
      <3> QED BY <3>1, <2>2, <1>s
    <2>3. \A j \in DOMAIN used' : j + 1 \in DOMAIN used
      BY <1>s
    <2> QED BY <2>2, <2>3, <1>s, <1>f DEF InRing
  <1>p. ~InRing(p)'
    <2> SUFFICES ASSUME NEW j \in DOMAIN used', used'[j] = First3(p) PROVE FALSE
      BY <1>f DEF InRing
    <2>1. j + 1 \in DOMAIN used /\ 1 \in DOMAIN used /\ j + 1 # 1
      BY <1>s
    <2>2. used[j + 1] = used[1]
      BY <1>s, <1>0
    <2> QED BY <2>1, <2>2, <1>t DEF Pending
  <1>d. ~AtDevice(p)
    <2>1. 1 \in DOMAIN used
      BY <1>s
    <2>2. InRing(p)
      BY <2>1, <1>0 DEF InRing
    <2> QED BY <2>2, <1>0, <1>t DEF Pending
  <1>a. \A q \in Procs : AtDevice(q)' <=> AtDevice(q)
    BY <1>0, <1>f DEF AtDevice
  <1>4. \A b \in disk' : \E q \in Procs : Chained(q)' /\ mine'[q] = b
    BY <1>0, <1>u, <1>t DEF Pending
  <1>5. ASSUME NEW q \in Procs, Chained(q)'
        PROVE  /\ mine'[q] \in disk' <=> AtDevice(q)' \/ InRing(q)'
               /\ ~(AtDevice(q)' /\ InRing(q)')
    <2>1. CASE q = p
      BY <2>1, <1>0, <1>u, <1>p, <1>d, <1>a
    <2>2. CASE q # p
      <3>1. Chained(q) /\ mine[q] # mine[p]
        BY <2>2, <1>5, <1>0, ChainHead
      <3> QED BY <2>2, <3>1, <1>0, <1>u, <1>rq, <1>a, <1>t DEF Pending
    <2> QED BY <2>1, <2>2
  <1>6. ASSUME NEW q \in Procs, rw'[q] = "wait" PROVE mine'[q] \in disk'
    <2>1. rw[q] = "wait" /\ q # p /\ Chained(q)
      BY <1>6, <1>0 DEF Chained
    <2>2. mine[q] # mine[p]
      BY <2>1, <1>0, ChainHead
    <2> QED BY <2>1, <2>2, <1>0, <1>u, <1>t DEF Pending
  <1> QED BY <1>1, <1>2, <1>3, <1>4, <1>5, <1>6 DEF Pending

\* The device does a request of somebody, and has no other of it.
LEMMA ServeEffect ==
  ASSUME IInv, NEW rq \in avail, Serve(rq)
  PROVE  \E p \in Procs :
            /\ Asks(p, rq) /\ mine[p] \in Bufs /\ blockno[mine[p]] \in Blocks /\ First3(p) \in Desc
            /\ \A s \in avail : s.id = First3(p) => s = rq
            /\ avail' = avail \ {rq} /\ used' = Append(used, First3(p))
            /\ IF pc[p] # "read"
               THEN media' = [media EXCEPT ![blockno[mine[p]]] = data[mine[p]]] /\ UNCHANGED data
               ELSE data' = [data EXCEPT ![mine[p]] = media[blockno[mine[p]]]] /\ UNCHANGED media
            /\ UNCHANGED cacheVars /\ UNCHANGED <<disk, free, info, rw, idx>>
  <1>t. Pending /\ avail \subseteq Requests
    BY DEF IInv, CacheTypeOK, VirtioTypeOK
  <1>1. PICK p \in Procs : Asks(p, rq)
    BY <1>t DEF Pending
  <1>2. /\ rq.id = First3(p) /\ rq.buf = mine[p] /\ rq.block = blockno[mine[p]]
        /\ rq.write = (pc[p] # "read") /\ Chained(p)
    BY <1>1 DEF Asks
  <1>3. ASSUME NEW s \in avail, s.id = First3(p) PROVE s = rq
    <2>1. PICK q \in Procs : Asks(q, s)
      BY <1>t DEF Pending
    <2>2. q = p
      BY <2>1, <1>2, <1>3, ChainHead DEF Asks
    <2>3. s.id = rq.id /\ s.buf = rq.buf /\ s.block = rq.block /\ s.write = rq.write
      BY <2>1, <2>2, <1>2, <1>3 DEF Asks
    <2> QED BY <2>3, <1>t DEF Requests
  <1>4. mine[p] \in Bufs /\ blockno[mine[p]] \in Blocks /\ First3(p) \in Desc
    <2>1. mine[p] \in Bufs
      BY <1>2, Exclusive DEF InDriver
    <2> QED BY <2>1, <1>2, Basics, Exclusive, ChainHead
  <1>5. /\ avail' = avail \ {rq} /\ used' = Append(used, rq.id)
        /\ IF rq.write
           THEN media' = [media EXCEPT ![rq.block] = data[rq.buf]] /\ UNCHANGED data
           ELSE data' = [data EXCEPT ![rq.buf] = media[rq.block]] /\ UNCHANGED media
        /\ UNCHANGED cacheVars /\ UNCHANGED <<disk, free, info, rw, idx>>
    BY DEF Serve, DeviceServes, driverVars
  <1> QED BY <1>1, <1>2, <1>3, <1>4, <1>5

LEMMA PendingServe == ASSUME IInv, NEW rq \in avail, Serve(rq) PROVE Pending'
  <1>t. Pending /\ used \in Seq(Desc)
    BY DEF IInv, CacheTypeOK, VirtioTypeOK
  <1>0. PICK p \in Procs :
            /\ Asks(p, rq) /\ First3(p) \in Desc
            /\ \A s \in avail : s.id = First3(p) => s = rq
            /\ avail' = avail \ {rq} /\ used' = Append(used, First3(p))
            /\ UNCHANGED cacheVars /\ UNCHANGED <<disk, free, info, rw, idx>>
    BY ServeEffect
  <1>u. UNCHANGED <<mine, pc, blockno, rw, disk>>
    BY <1>0 DEF cacheVars, bufVars
  <1>f. \A q \in Procs : First3(q)' = First3(q) /\ (Chained(q)' <=> Chained(q))
    BY <1>0 DEF First3, Chained
  <1>s. /\ DOMAIN used = 1 .. Len(used) /\ Len(used) \in Nat
        /\ DOMAIN used' = 1 .. Len(used) + 1 /\ used'[Len(used) + 1] = First3(p)
        /\ \A i \in DOMAIN used : used'[i] = used[i] /\ i \in DOMAIN used'
        /\ \A i \in DOMAIN used' : i \in DOMAIN used \/ i = Len(used) + 1
    BY <1>0, <1>t
  <1>c. Chained(p) /\ AtDevice(p) /\ ~InRing(p)
    BY <1>0, <1>t DEF Asks, AtDevice, Pending
  <1>1. \A s \in avail' : \E q \in Procs : Asks(q, s)'
    BY <1>0, <1>u, <1>f, <1>t DEF Pending, Asks
  <1>2. \A i \in DOMAIN used' : \E q \in Procs : Chained(q)' /\ used'[i] = First3(q)'
    BY <1>s, <1>c, <1>f, <1>t DEF Pending
  <1>3. \A i, j \in DOMAIN used' : used'[i] = used'[j] => i = j
    <2>1. \A i \in DOMAIN used : used[i] # First3(p)
      BY <1>c DEF InRing
    <2> QED BY <2>1, <1>s, <1>t DEF Pending
  <1>4. \A b \in disk' : \E q \in Procs : Chained(q)' /\ mine'[q] = b
    BY <1>u, <1>f, <1>t DEF Pending
  <1>5. ASSUME NEW q \in Procs, Chained(q)'
        PROVE  /\ mine'[q] \in disk' <=> AtDevice(q)' \/ InRing(q)'
               /\ ~(AtDevice(q)' /\ InRing(q)')
    <2>1. CASE q = p
      <3>1. ~AtDevice(q)'
        BY <2>1, <1>0, <1>f DEF AtDevice
      <3>2. InRing(q)'
        BY <2>1, <1>s, <1>f DEF InRing
      <3>3. mine[q] \in disk
        BY <2>1, <1>c, <1>t DEF Pending
      <3> QED BY <3>1, <3>2, <3>3, <1>u
    <2>2. CASE q # p
      <3>1. Chained(q) /\ First3(q) # First3(p)
        BY <2>2, <1>5, <1>c, <1>f, ChainHead
      <3>2. AtDevice(q)' <=> AtDevice(q)
        BY <3>1, <1>0, <1>f DEF AtDevice, Asks
      <3>3. InRing(q)' <=> InRing(q)
        BY <3>1, <1>s, <1>f DEF InRing
      <3> QED BY <3>1, <3>2, <3>3, <1>u, <1>t DEF Pending
    <2> QED BY <2>1, <2>2
  <1>6. \A q \in Procs : rw'[q] = "wait" => mine'[q] \in disk'
    BY <1>u, <1>t DEF Pending
  <1> QED BY <1>1, <1>2, <1>3, <1>4, <1>5, <1>6 DEF Pending

LEMMA PendingStep == ASSUME IInv, CacheNext PROVE Pending'
  <1>t. rw \in [Procs -> {"none", "alloc", "full", "wait", "check"}]
    BY DEF IInv, CacheTypeOK, VirtioTypeOK
  <1> DEFINE Frame ==
                 /\ UNCHANGED <<idx, avail, used, disk>>
                 /\ \A q \in Procs : rw'[q] = "wait" => Chained(q) /\ (rw[q] = "wait" \/ mine[q] \in disk)
  <1>1. ASSUME NEW p \in Procs, CacheAction(p) PROVE Frame
    BY <1>1, CacheEffect DEF Chained
  <1>2. ASSUME NEW p \in Procs, Full(p) \/ Kicked(p) PROVE Frame
    BY <1>2, <1>t DEF Full, RwFull, Kicked, RwKicked, WokenByFree, Chained, deviceVars
  <1>3. ASSUME NEW p \in Procs, Again(p) PROVE Frame
    BY <1>3, <1>t DEF Again, RwSleepAgain, Chained, deviceVars
  <1>4. ASSUME Quiet PROVE Frame
    BY <1>4, <1>t DEF Quiet, DeviceInterrupts, IntrAck, IntrEndLoop, IntrReturn, Chained,
       deviceVars
  <1> HIDE DEF Frame
  <1>5. \/ \E p \in Procs : Submit(p) \/ Return(p)
        \/ Finish \/ \E rq \in avail : Serve(rq)
        \/ Frame
    BY Steps, <1>1, <1>2, <1>3, <1>4
  <1>6. CASE /\ Frame
             /\ \A q \in Procs : Chained(q)' <=> Chained(q)
             /\ \A q \in Procs : Chained(q) =>
                   mine'[q] = mine[q] /\ pc'[q] = pc[q] /\ blockno'[mine[q]] = blockno[mine[q]]
    BY <1>6, PendingFrame DEF Frame
  <1> QED BY <1>5, <1>6, SameChains, PendingSubmit, PendingReturn, PendingFinish, PendingServe

-----------------------------------------------------------------------------
(* Sleepers, and what the buffers hold *)

LEMMA WaitersForChainsStep == ASSUME IInv, CacheNext PROVE WaitersForChains'
  <1>t. /\ rw \in [Procs -> {"none", "alloc", "full", "wait", "check"}] /\ free \subseteq Desc
        /\ WaitersForChains /\ Chains /\ num \in Nat /\ num >= 3
    BY VirtioAssumption DEF IInv, CacheTypeOK, VirtioTypeOK
  <1>1. ASSUME NEW p \in Procs, Submit(p) PROVE WaitersForChains'
    <2>1. Cardinality(free) >= 3 /\ Cardinality(free) \in Nat
      <3>1. IsFiniteSet(free)
        <4>1. 0 \in Int /\ num - 1 \in Int
          BY <1>t
        <4>2. IsFiniteSet(Desc)
          BY <4>1, FS_Interval DEF Desc
        <4> QED BY <4>2, <1>t, FS_Subset
      <3> QED BY <3>1, <1>1, SubmitEffect, FS_CardinalityType
    <2>2. \A q \in Procs : rw'[q] # "full"
      <3>1. rw'[p] = "wait" /\ \A q \in Procs \ {p} : rw'[q] = rw[q]
        BY <1>1, SubmitEffect
      <3>2. \A q \in Procs : rw[q] # "full"
        BY <2>1, <1>t DEF WaitersForChains
      <3> QED BY <3>1, <3>2
    <2> QED BY <2>2 DEF WaitersForChains
  <1>2. ASSUME NEW p \in Procs, Return(p) PROVE WaitersForChains'
    <2>1. \A q \in Procs : rw'[q] # "full"
      BY <1>2, ReturnMoves
    <2> QED BY <2>1 DEF WaitersForChains
  <1>3. ASSUME NEW p \in Procs, Full(p), \A q \in Procs : Chained(q)' <=> Chained(q)
        PROVE  WaitersForChains'
    <2>1. Cardinality(free) < 3 /\ free' = free
      BY <1>3 DEF Full, RwFull
    <2>2. \E q \in Procs : Chained(q)
      <3>1. Cardinality(Desc) = num
        <4>1. 0 \in Int /\ num - 1 \in Int /\ (num - 1) - 0 + 1 = num /\ 0 <= num - 1
          BY <1>t
        <4>2. Cardinality(0 .. num - 1) = (num - 1) - 0 + 1
          BY <4>1, FS_Interval
        <4> QED BY <4>1, <4>2 DEF Desc
      <3>2. free # Desc
        BY <2>1, <3>1, <1>t
      <3>3. PICK d \in Desc : d \notin free
        BY <3>2, <1>t
      <3>4. \E q \in Procs : d \in idx[q]
        BY <3>3, <1>t DEF Chains
      <3> QED BY <3>4, <1>t DEF Chains
    <2> QED BY <2>1, <2>2, <1>3 DEF WaitersForChains
  <1>4. ASSUME free' = free, \A q \in Procs : Chained(q)' <=> Chained(q),
               \A q \in Procs : rw'[q] = "full" => rw[q] = "full"
        PROVE  WaitersForChains'
    BY <1>4, <1>t DEF WaitersForChains
  <1>5. \A p \in Procs : CacheAction(p) => \A q \in Procs : rw'[q] = "full" => rw[q] = "full"
    BY CacheEffect
  <1>6. \A p \in Procs : Again(p) \/ Kicked(p) => \A q \in Procs : rw'[q] = "full" => rw[q] = "full"
    BY <1>t DEF Again, RwSleepAgain, Kicked, RwKicked
  <1>7. Quiet \/ Finish \/ (\E rq \in avail : Serve(rq)) => \A q \in Procs : rw'[q] = "full" => rw[q] = "full"
    BY <1>t DEF Quiet, DeviceInterrupts, IntrAck, IntrEndLoop, IntrReturn, Finish, IntrOne,
       Serve,
                DeviceServes, driverVars
  <1>8. \/ \E p \in Procs : Submit(p) \/ Return(p)
        \/ free' = free /\ \A q \in Procs : Chained(q)' <=> Chained(q)
    BY SameChains
  <1>9. \/ \E p \in Procs : Submit(p) \/ Return(p) \/ Full(p)
        \/ \A q \in Procs : rw'[q] = "full" => rw[q] = "full"
    BY Steps, <1>5, <1>6, <1>7
  <1> QED BY <1>1, <1>2, <1>3, <1>4, <1>8, <1>9

LEMMA CompletionStep == ASSUME IInv, CacheNext PROVE CompletionIsAnnounced'
  <1>t. /\ CompletionIsAnnounced /\ intr \in {"off", "loop", "return"} /\ used \in Seq(Desc)
    BY DEF IInv, CacheTypeOK, VirtioTypeOK
  <1> USE DEF CompletionIsAnnounced
  <1>1. ASSUME NEW p \in Procs, CacheAction(p) PROVE CompletionIsAnnounced'
    BY <1>1, <1>t, CacheEffect
  <1>2. ASSUME NEW p \in Procs, Return(p) PROVE CompletionIsAnnounced'
    <2>1. UNCHANGED <<used, owed, irq, intr>>
      BY <1>2, ReturnEffect DEF RwReturn, deviceVars
    <2> QED BY <2>1, <1>t
  <1>3. ASSUME NEW p \in Procs, Submit(p) PROVE CompletionIsAnnounced'
    BY <1>3, <1>t, SubmitEffect
  <1>4. ASSUME NEW p \in Procs, Full(p) \/ Again(p) \/ Kicked(p) PROVE CompletionIsAnnounced'
    BY <1>4, <1>t DEF Full, RwFull, Again, RwSleepAgain, Kicked, RwKicked, deviceVars
  <1>5. ASSUME Quiet PROVE CompletionIsAnnounced'
    BY <1>5, <1>t DEF Quiet, DeviceInterrupts, IntrAck, IntrEndLoop, IntrReturn, VdiskFree,
       deviceVars
  <1>6. ASSUME Finish PROVE CompletionIsAnnounced'
    BY <1>6, <1>t DEF Finish, IntrOne
  <1>7. ASSUME NEW rq \in avail, Serve(rq) PROVE CompletionIsAnnounced'
    BY <1>7, <1>t DEF Serve, DeviceServes
  <1> QED BY Steps, <1>1, <1>2, <1>3, <1>4, <1>5, <1>6, <1>7

\* A step of the cache changes the content of a buffer only where a process
\* holds it.
LEMMA DataEffect ==
  ASSUME IInv, NEW p \in Procs, CacheAction(p), data' # data
  PROVE  /\ pc[p] = "hold" /\ mine[p] \in Bufs /\ mine'[p] = mine[p] /\ UNCHANGED <<blockno, valid>>
         /\ \A b \in Bufs \ {mine[p]} : data'[b] = data[b]
         /\ (blockno[mine[p]] \in pinned' \/ pc'[p] = "write")
         /\ pinned \subseteq pinned'
  <1>t. data \in [Bufs -> Values] /\ pc \in [Procs -> Labels]
    BY DEF IInv, CacheTypeOK, VirtioTypeOK
  <1>1. \E v \in Values : LogWrite(p, v) \/ Bwrite(p, v)
    BY DEF CacheAction, BgetHit, BgetRecycle, Acquire, AcquireSleeps, Release, Brelse, BreadHit,
           BreadMiss, Looks, virtioVars, deviceVars
  <1>2. pc[p] = "hold" /\ mine' = mine /\ UNCHANGED <<blockno, valid>>
    BY <1>1 DEF LogWrite, Bwrite, bufVars
  <1>3. mine[p] \in Bufs
    BY <1>2, Exclusive
  <1>4. \A b \in Bufs \ {mine[p]} : data'[b] = data[b]
    BY <1>1, <1>t DEF LogWrite, Bwrite
  <1>5. (blockno[mine[p]] \in pinned' \/ pc'[p] = "write") /\ pinned \subseteq pinned'
    BY <1>1, <1>t DEF LogWrite, Bwrite, Goto
  <1> QED BY <1>2, <1>3, <1>4, <1>5

LEMMA ServedStep == ASSUME IInv, CacheNext PROVE Served'
  <1>t. Served /\ data \in [Bufs -> Values] /\ media \in [Blocks -> Values]
    BY DEF IInv, CacheTypeOK, VirtioTypeOK
  <1>1. ASSUME NEW p \in Procs, CacheAction(p) PROVE Served'
    <2> SUFFICES ASSUME NEW q \in Procs, Chained(q)', ~AtDevice(q)'
                 PROVE  data'[mine'[q]] = media'[blockno'[mine'[q]]]
      BY DEF Served
    <2>1. Chained(q)
      BY <1>1, CacheEffect DEF Chained
    <2>2. q # p /\ mine'[q] = mine[q] /\ blockno'[mine[q]] = blockno[mine[q]] /\ mine[q] \in Bufs
      BY <1>1, <2>1, ChainedKeeps
    <2>3. UNCHANGED <<media, avail, idx>>
      BY <1>1, CacheEffect
    <2>4. data'[mine[q]] = data[mine[q]]
      <3>1. CASE data' # data
        <4>1. pc[p] = "hold" /\ \A b \in Bufs \ {mine[p]} : data'[b] = data[b]
          BY <1>1, <3>1, DataEffect
        <4>2. mine[q] # mine[p]
          BY <4>1, <2>1, <2>2, Exclusive DEF Using
        <4> QED BY <4>1, <4>2, <2>2
      <3> QED BY <3>1
    <2>5. ~AtDevice(q)
      BY <2>3 DEF AtDevice, First3
    <2> QED BY <2>1, <2>2, <2>3, <2>4, <2>5, <1>t DEF Served
  <1>2. ASSUME NEW p \in Procs, Return(p) PROVE Served'
    <2>1. UNCHANGED <<media, data, avail, mine, blockno>>
      BY <1>2, ReturnEffect DEF RwReturn, deviceVars
    <2>2. \A q \in Procs : Chained(q)' => Chained(q) /\ idx'[q] = idx[q]
      BY <1>2, ReturnMoves
    <2> QED BY <2>1, <2>2, <1>t DEF Served, AtDevice, First3
  <1>3. ASSUME NEW p \in Procs, Submit(p) PROVE Served'
    <2>1. /\ UNCHANGED <<media, data>> /\ UNCHANGED cacheVars /\ First3(p)' = Least(Three)
          /\ \A q \in Procs : Chained(q)' <=> Chained(q) \/ q = p
          /\ \A q \in Procs \ {p} : First3(q)' = First3(q)
          /\ avail' = avail \cup {[id |-> Least(Three), write |-> pc[p] # "read",
                                   block |-> blockno[mine[p]], buf |-> mine[p]]}
      BY <1>3, SubmitEffect
    <2>2. AtDevice(p)'
      <3> DEFINE rq == [id |-> Least(Three), write |-> pc[p] # "read",
                       block |-> blockno[mine[p]], buf |-> mine[p]]
      <3>1. rq \in avail' /\ rq.id = Least(Three)
        BY <2>1
      <3> HIDE DEF rq
      <3> QED BY <3>1, <2>1 DEF AtDevice
    <2>3. \A q \in Procs \ {p} : AtDevice(q) => AtDevice(q)'
      BY <2>1 DEF AtDevice
    <2> QED BY <2>1, <2>2, <2>3, <1>t DEF Served, cacheVars, bufVars
  <1>4. ASSUME NEW rq \in avail, Serve(rq) PROVE Served'
    <2>0. PICK p \in Procs :
            /\ Asks(p, rq) /\ mine[p] \in Bufs /\ blockno[mine[p]] \in Blocks /\ First3(p) \in Desc
            /\ avail' = avail \ {rq}
            /\ IF pc[p] # "read"
               THEN media' = [media EXCEPT ![blockno[mine[p]]] = data[mine[p]]] /\ UNCHANGED data
               ELSE data' = [data EXCEPT ![mine[p]] = media[blockno[mine[p]]]] /\ UNCHANGED media
            /\ UNCHANGED cacheVars /\ UNCHANGED <<disk, free, info, rw, idx>>
      BY <1>4, ServeEffect
    <2>u. UNCHANGED <<mine, blockno>>
      BY <2>0 DEF cacheVars, bufVars
    <2>1. data'[mine[p]] = media'[blockno[mine[p]]]
      BY <2>0, <1>t
    <2>2. ASSUME NEW q \in Procs, q # p, Chained(q), ~AtDevice(q)'
          PROVE  data'[mine[q]] = media'[blockno[mine[q]]]
      <3>1. Chained(p) /\ rq.id = First3(p)
        BY <2>0 DEF Asks
      <3>2. mine[q] # mine[p] /\ blockno[mine[q]] # blockno[mine[p]] /\ First3(q) # First3(p)
            /\ mine[q] \in Bufs /\ blockno[mine[q]] \in Blocks
        <4>1. mine[q] \in Bufs /\ mine[q] # Nobody
          BY <2>2, Exclusive, Basics DEF InDriver
        <4> QED BY <4>1, <2>2, <3>1, Exclusive, ChainHead
      <3>3. ~AtDevice(q)
        BY <2>2, <3>1, <3>2, <2>0 DEF AtDevice, First3
      <3>4. data[mine[q]] = media[blockno[mine[q]]]
        BY <3>3, <2>2, <1>t DEF Served
      <3>5. data'[mine[q]] = data[mine[q]]
        BY <3>2, <2>0, <1>t
      <3>6. media'[blockno[mine[q]]] = media[blockno[mine[q]]]
        BY <3>2, <2>0, <1>t
      <3> QED BY <3>4, <3>5, <3>6
    <2>3. \A q \in Procs : Chained(q)' <=> Chained(q)
      BY <2>0 DEF Chained
    <2> QED BY <2>u, <2>1, <2>2, <2>3 DEF Served
  <1>5. ASSUME UNCHANGED <<media, data, avail, mine, blockno, idx>>,
               \A q \in Procs : Chained(q)' <=> Chained(q)
        PROVE  Served'
    BY <1>5, <1>t DEF Served, AtDevice, First3
  <1>6. ASSUME \/ \E p \in Procs : Full(p) \/ Again(p) \/ Kicked(p)
               \/ Quiet \/ Finish
        PROVE  UNCHANGED <<media, data, avail, mine, blockno, idx>>
    BY <1>6 DEF Full, RwFull, Again, RwSleepAgain, Kicked, RwKicked, Quiet, DeviceInterrupts,
       IntrAck,
                IntrEndLoop, IntrReturn, Finish, IntrOne, deviceVars, cacheVars, bufVars
  <1>7. \/ \E p \in Procs : Submit(p) \/ Return(p)
        \/ \A q \in Procs : Chained(q)' <=> Chained(q)
    BY SameChains
  <1> QED BY Steps, <1>1, <1>2, <1>3, <1>4, <1>5, <1>6, <1>7

LEMMA CleanStep == ASSUME IInv, CacheNext PROVE Clean'
  <1>t. /\ Clean /\ data \in [Bufs -> Values] /\ media \in [Blocks -> Values]
        /\ blockno \in [Bufs -> Blocks \cup {Nobody}] /\ valid \in [Bufs -> BOOLEAN]
        /\ OneBuffer /\ Validity
    BY DEF IInv, CacheTypeOK, VirtioTypeOK
  <1> DEFINE Idle(b) == valid[b] /\ blockno[b] \notin pinned /\ \A q \in Procs : pc[q] = "write" => mine[q] # b
  <1>0. ASSUME \A b \in Bufs : Idle(b)' => data'[b] = media'[blockno'[b]] PROVE Clean'
    BY <1>0 DEF Clean
  <1>i. \A b \in Bufs : Idle(b) => data[b] = media[blockno[b]]
    BY <1>t DEF Clean
  <1>1. ASSUME NEW p \in Procs, CacheAction(p), NEW b \in Bufs, Idle(b)'
        PROVE  data'[b] = media'[blockno'[b]]
    <2>0. /\ media' = media
          /\ \A q \in Procs \ {p} : mine'[q] = mine[q]
          /\ \A q \in Procs \ {p} : pc'[q] = pc[q] \/ (pc[q] = "locksleep" /\ pc'[q] = "lock")
          /\ pc[p] \notin InDriver
      BY <1>1, CacheEffect
    <2>1. \A q \in Procs : pc[q] = "write" => mine[q] # b
      <3>1. \A q \in Procs : pc[q] = "write" => q # p /\ pc'[q] = "write" /\ mine'[q] = mine[q]
        BY <2>0 DEF InDriver
      <3> QED BY <3>1, <1>1
    <2>2. CASE data' # data
      <3>1. /\ pc[p] = "hold" /\ mine[p] \in Bufs /\ mine'[p] = mine[p] /\ UNCHANGED <<blockno, valid>>
            /\ \A c \in Bufs \ {mine[p]} : data'[c] = data[c]
            /\ (blockno[mine[p]] \in pinned' \/ pc'[p] = "write")
            /\ pinned \subseteq pinned'
        BY <1>1, <2>2, DataEffect
      <3>2. b # mine[p]
        BY <3>1, <1>1
      <3>3. Idle(b)
        BY <3>1, <1>1, <2>1
      <3> QED BY <3>1, <3>2, <3>3, <1>i, <2>0
    <2>3. CASE data' = data
      <3>1. ASSUME NEW n \in Blocks, BgetRecycle(p, n) PROVE data'[b] = media'[blockno'[b]]
        <4>0. PICK c : c = lru[Last(Positions(Unused))]
          OBVIOUS
        <4>1. c \in Bufs /\ valid' = [valid EXCEPT ![c] = FALSE] /\ blockno' = [blockno EXCEPT ![c] = n]
              /\ pinned' = pinned
          BY <3>1, <4>0, Recycled DEF BgetRecycle
        <4>2. b # c
          BY <4>1, <1>1, <1>t
        <4>3. Idle(b) /\ blockno'[b] = blockno[b]
          BY <4>1, <4>2, <1>1, <2>1, <1>t
        <4> QED BY <4>3, <2>3, <2>0, <1>i
      <3>2. ASSUME UNCHANGED <<valid, blockno>>, pinned \subseteq pinned'
            PROVE  data'[b] = media'[blockno'[b]]
        BY <3>2, <1>1, <2>0, <2>1, <2>3, <1>i
      <3>3. (\E n \in Blocks : BgetRecycle(p, n))
            \/ (UNCHANGED <<valid, blockno>> /\ pinned \subseteq pinned')
        BY <1>1 DEF CacheAction, BgetHit, Acquire, AcquireSleeps, Release, Brelse, BreadHit,
           BreadMiss,
                    LogWrite, Bwrite, Looks, bufVars
      <3> QED BY <3>1, <3>2, <3>3
    <2> QED BY <2>2, <2>3
  <1>2. ASSUME NEW p \in Procs, Return(p), NEW b \in Bufs, Idle(b)'
        PROVE  data'[b] = media'[blockno'[b]]
    <2>1. /\ UNCHANGED <<media, data, blockno, mine>> /\ data[mine[p]] = media[blockno[mine[p]]]
          /\ mine[p] \in Bufs
      BY <1>2, ReturnEffect DEF RwReturn, deviceVars
    <2>2. CASE b = mine[p]
      BY <2>1, <2>2
    <2>3. CASE b # mine[p]
      <3>1. \A q \in Procs : pc[q] = "write" => mine[q] # b
        <4>1. \A q \in Procs \ {p} : pc'[q] = pc[q]
          BY <1>2, ReturnMoves
        <4> QED BY <4>1, <2>1, <2>3, <1>2
      <3>2. valid'[b] = valid[b]
        BY <1>2, <2>3, <1>t DEF Return, BreadReturn, BwriteReturn, InstallReturn, bufVars
      <3>3. blockno[b] \notin pinned
        <4>1. valid[b] /\ blockno[b] # Nobody
          BY <3>2, <1>2, <1>t DEF Validity
        <4>2. blockno[b] # blockno[mine[p]]
          BY <4>1, <2>1, <2>3, <1>t DEF OneBuffer
        <4>3. pinned' = pinned \/ pinned' = pinned \ {blockno[mine[p]]}
          BY <1>2 DEF Return, BreadReturn, BwriteReturn, InstallReturn
        <4> QED BY <4>2, <4>3, <2>1, <1>2
      <3> QED BY <3>1, <3>2, <3>3, <2>1, <1>2, <1>i
    <2> QED BY <2>2, <2>3
  <1>3. ASSUME NEW rq \in avail, Serve(rq), NEW b \in Bufs, Idle(b)'
        PROVE  data'[b] = media'[blockno'[b]]
    <2>0. PICK p \in Procs :
            /\ Asks(p, rq) /\ mine[p] \in Bufs /\ blockno[mine[p]] \in Blocks
            /\ IF pc[p] # "read"
               THEN media' = [media EXCEPT ![blockno[mine[p]]] = data[mine[p]]] /\ UNCHANGED data
               ELSE data' = [data EXCEPT ![mine[p]] = media[blockno[mine[p]]]] /\ UNCHANGED media
            /\ UNCHANGED cacheVars
      BY <1>3, ServeEffect
    <2>u. UNCHANGED <<mine, blockno, valid, pinned, pc>>
      BY <2>0 DEF cacheVars, bufVars
    <2>1. CASE b = mine[p]
      BY <2>1, <2>0, <2>u, <1>t
    <2>2. CASE b # mine[p]
      <3>1. Idle(b)
        BY <1>3, <2>u
      <3>2. blockno[b] # blockno[mine[p]]
        <4>1. blockno[b] # Nobody
          BY <3>1, <1>t DEF Validity
        <4> QED BY <4>1, <2>0, <2>2, <1>t DEF OneBuffer
      <3>3. data'[b] = data[b]
        BY <2>0, <2>2, <1>t
      <3>4. media'[blockno[b]] = media[blockno[b]]
        <4>1. blockno[b] \in Blocks
          BY <3>1, <1>t DEF Validity
        <4> QED BY <4>1, <3>2, <2>0, <1>t
      <3> QED BY <3>1, <3>3, <3>4, <2>u, <1>i
    <2> QED BY <2>1, <2>2
  <1>4. ASSUME UNCHANGED <<media, data, mine, blockno, valid, pinned, pc>>,
               NEW b \in Bufs, Idle(b)'
        PROVE  data'[b] = media'[blockno'[b]]
    BY <1>4, <1>i
  <1>5. ASSUME \/ \E p \in Procs : Submit(p) \/ Full(p) \/ Again(p) \/ Kicked(p)
               \/ Quiet \/ Finish
        PROVE  UNCHANGED <<media, data, mine, blockno, valid, pinned, pc>>
    BY <1>5 DEF Submit, RwSubmit, Full, RwFull, Again, RwSleepAgain, Kicked, RwKicked, Quiet,
                DeviceInterrupts, IntrAck, IntrEndLoop, IntrReturn, Finish, IntrOne, deviceVars,
                cacheVars, bufVars
  <1> QED BY Steps, <1>0, <1>1, <1>2, <1>3, <1>4, <1>5

-----------------------------------------------------------------------------
(* The invariant *)

LEMMA InitInvariant == CacheInit => IInv
  <1> SUFFICES ASSUME CacheInit PROVE IInv
    OBVIOUS
  <1>v. PICK v \in Values : VirtioInit(v)
    BY DEF CacheInit
  <1>1. /\ num \in NUMS /\ media = [b \in Blocks |-> v] /\ data = [b \in Bufs |-> v]
        /\ disk = {} /\ free = Desc /\ info = [d \in Desc |-> Nobody]
        /\ avail = {} /\ used = <<>> /\ owed = FALSE /\ irq = FALSE /\ intr = "off"
        /\ rw = [p \in Procs |-> "none"] /\ idx = [p \in Procs |-> {}]
    BY <1>v DEF VirtioInit
  <1>2. /\ blockno = [b \in Bufs |-> Nobody] /\ valid = [b \in Bufs |-> FALSE]
        /\ refcnt = [b \in Bufs |-> 0] /\ lock = [b \in Bufs |-> Nobody]
        /\ pinned = {} /\ pc = [p \in Procs |-> "user"] /\ mine = [p \in Procs |-> Nobody]
    BY DEF CacheInit
  <1>3. /\ lru \in Seq(Bufs) /\ Len(lru) = Cardinality(Bufs) /\ Listed
    <2> DEFINE n == Cardinality(Bufs)
               P(s) == \A i, j \in DOMAIN s : s[i] = s[j] => i = j
    <2>1. n \in Nat /\ ExistsBijection(1 .. n, Bufs)
      BY VirtioAssumption, FS_CardinalityType
    <2>2. PICK f : f \in Bijection(1 .. n, Bufs)
      BY <2>1 DEF ExistsBijection
    <2>3. f \in [1 .. n -> Bufs] /\ \A i, j \in 1 .. n : f[i] = f[j] => i = j
      BY <2>2 DEF Bijection, Injection, IsInjective
    <2>4. \E s \in [1 .. n -> Bufs] : P(s)
      BY <2>3
    <2>5. lru = CHOOSE s \in [1 .. n -> Bufs] : P(s)
      BY DEF CacheInit
    <2>6. lru \in [1 .. n -> Bufs] /\ P(lru)
      BY <2>4, <2>5
    <2>7. lru \in Injection(1 .. n, Bufs)
      BY <2>6 DEF Injection, IsInjective
    <2>8. Cardinality(1 .. n) = n
      <3>1. 1 \in Int /\ n \in Int
        BY <2>1
      <3>2. Cardinality(1 .. n) = IF 1 > n THEN 0 ELSE n - 1 + 1
        BY <3>1, FS_Interval
      <3> QED BY <3>2, <2>1
    <2>9. lru \in Surjection(1 .. n, Bufs)
      BY <2>7, <2>8, VirtioAssumption, FS_Injection
    <2>10. \A b \in Bufs : \E i \in 1 .. n : lru[i] = b
      BY <2>9 DEF Surjection
    <2>11. lru \in Seq(Bufs) /\ Len(lru) = n /\ DOMAIN lru = 1 .. n
      BY <2>1, <2>6
    <2> QED BY <2>10, <2>11 DEF Listed
  <1>4. VirtioTypeOK
    <2>1. info \in [Desc -> Bufs \cup {Nobody}] /\ used \in Seq(Desc)
      BY <1>1
    <2>2. media \in [Blocks -> Values] /\ data \in [Bufs -> Values]
      BY <1>1
    <2>3. /\ rw \in [Procs -> {"none", "alloc", "full", "wait", "check"}]
          /\ idx \in [Procs -> SUBSET Desc]
      BY <1>1
    <2> QED BY <2>1, <2>2, <2>3, <1>1 DEF VirtioTypeOK
  <1>5. CacheTypeOK
    BY <1>2, <1>3, <1>4, Basics DEF CacheTypeOK, Labels
  <1>6. RwAgrees /\ Attached /\ Locking /\ OneBuffer /\ PinnedIsCached /\ Validity
    <2>1. RwAgrees
      BY <1>1, <1>2 DEF RwAgrees, InDriver
    <2>2. Attached
      BY <1>2 DEF Attached
    <2>3. Locking
      BY <1>2, Basics DEF Locking, Using
    <2>4. OneBuffer /\ PinnedIsCached /\ Validity
      BY <1>2 DEF OneBuffer, PinnedIsCached, Validity
    <2> QED BY <2>1, <2>2, <2>3, <2>4
  <1>7. Referenced
    <2>1. \A b \in Bufs : Users(b) = {} /\ Pins(b) = 0
      BY <1>2, Basics DEF Users, Pins
    <2> QED BY <2>1, <1>2, FS_EmptySet DEF Referenced
  <1>8. Chains
    BY <1>1 DEF Chains, Chained
  <1>9. Pending /\ WaitersForChains /\ CompletionIsAnnounced /\ Served
    BY <1>1 DEF Pending, WaitersForChains, CompletionIsAnnounced, Served, Chained
  <1>10. Clean
    BY <1>2 DEF Clean
  <1> QED BY <1>3, <1>5, <1>6, <1>7, <1>8, <1>9, <1>10 DEF IInv

LEMMA StutterInvariant == ASSUME IInv, UNCHANGED storeVars PROVE IInv'
  <1> USE DEF storeVars, cacheVars, bufVars, virtioVars, deviceVars, driverVars
  <1>1. CacheTypeOK'
    BY DEF IInv, CacheTypeOK, VirtioTypeOK, Desc, Requests
  <1>2. RwAgrees' /\ Attached' /\ Locking' /\ OneBuffer' /\ PinnedIsCached' /\ Validity'
    BY DEF IInv, RwAgrees, Attached, Locking, OneBuffer, PinnedIsCached, Validity
  <1>3. Referenced'
    BY DEF IInv, Referenced, Users, Pins
  <1>4. Chains'
    BY DEF IInv, Chains, Chained, First3, Desc
  <1>5. Pending'
    BY DEF IInv, Pending, Asks, AtDevice, InRing, Chained, First3
  <1>6. WaitersForChains' /\ CompletionIsAnnounced'
    BY DEF IInv, WaitersForChains, CompletionIsAnnounced, Chained
  <1>7. Served'
    BY DEF IInv, Served, AtDevice, Chained, First3
  <1>8. Clean' /\ Listed'
    BY DEF IInv, Clean, Listed
  <1> QED BY <1>1, <1>2, <1>3, <1>4, <1>5, <1>6, <1>7, <1>8 DEF IInv

LEMMA StepInvariant == ASSUME IInv, [CacheNext]_storeVars PROVE IInv'
  <1>1. CASE CacheNext
    <2>1. CacheTypeOK' /\ RwAgrees' /\ Attached' /\ Locking' /\ OneBuffer' /\ PinnedIsCached'
      BY <1>1, TypeStep, RwAgreesStep, AttachedStep, LockingStep, OneBufferStep, PinnedIsCachedStep
    <2>2. Referenced' /\ Validity' /\ Chains' /\ Pending'
      BY <1>1, ReferencedStep, ValidityStep, ChainsStep, PendingStep
    <2>3. WaitersForChains' /\ CompletionIsAnnounced' /\ Served' /\ Clean' /\ Listed'
      BY <1>1, WaitersForChainsStep, CompletionStep, ServedStep, CleanStep, ListedStep
    <2> QED BY <2>1, <2>2, <2>3 DEF IInv
  <1> QED BY <1>1, StutterInvariant

\* The inductive invariant, of the buffer cache over its disk.
THEOREM StoreInvariant == CacheSpec => []IInv
  BY InitInvariant, StepInvariant, PTL DEF CacheSpec

-----------------------------------------------------------------------------
(* What it is for *)

LEMMA NobodyForgotten == IInv => StoreSleeperIsOwed
  <1> SUFFICES ASSUME IInv PROVE StoreSleeperIsOwed
    OBVIOUS
  <1>t. CompletionIsAnnounced /\ Locking /\ Pending /\ WaitersForChains
    BY DEF IInv
  <1>1. \A p \in Procs : pc[p] = "locksleep" => lock[mine[p]] # Nobody
    BY <1>t DEF Locking
  <1>2. ASSUME NEW p \in Procs PROVE RequestIsPending(p)
    <2>1. ASSUME rw[p] = "wait"
          PROVE  \/ Least(idx[p]) \in {rq.id : rq \in avail}
                 \/ \E i \in DOMAIN used : used[i] = Least(idx[p])
      <3>1. AtDevice(p) \/ InRing(p)
        BY <2>1, <1>t DEF Pending, Chained
      <3> QED BY <3>1 DEF AtDevice, InRing, First3
    <2>2. rw[p] = "full" => Cardinality(free) < 3 /\ \E q \in Procs : rw[q] \in {"wait", "check"}
      BY <1>t DEF WaitersForChains, Chained
    <2> QED BY <2>1, <2>2 DEF RequestIsPending
  <1> QED BY <1>t, <1>1, <1>2 DEF StoreSleeperIsOwed

\* A reference is a process that has the buffer, or the pin of its block: a buffer
\* with neither would have none, and bget() would take it.
LEMMA FullWhenNoneIsFree == IInv => PanicsOnlyWhenFull
  <1> SUFFICES ASSUME IInv, NEW p \in Procs, NEW n \in Blocks, BgetPanics(p, n), NEW b \in Bufs,
                      blockno[b] \notin pinned
               PROVE  \E q \in Procs : mine[q] = b
    BY DEF PanicsOnlyWhenFull
  <1>1. refcnt[b] # 0 /\ refcnt[b] = Cardinality(Users(b)) + Pins(b)
    BY DEF BgetPanics, Unused, IInv, Referenced
  <1>2. Pins(b) = 0 /\ IsFiniteSet(Users(b))
    BY Basics, FS_Subset DEF Pins, Users
  <1>3. Cardinality(Users(b)) # 0
    BY <1>1, <1>2, FS_CardinalityType
  <1> QED BY <1>2, <1>3, FS_EmptySet DEF Users

LEMMA ChecksHold == IInv => StoreChecksHold
  <1> SUFFICES ASSUME IInv PROVE StoreChecksHold
    OBVIOUS
  <1>2. \A p \in Procs : pc[p] \in {"valid", "read", "hold", "write", "flush"} => lock[mine[p]] = p
    <2> TAKE p \in Procs
    <2> HAVE pc[p] \in {"valid", "read", "hold", "write", "flush"}
    <2>1. mine[p] \in Bufs
      BY Exclusive
    <2> QED BY <2>1 DEF IInv, Locking, Using
  <1>3. ChainsAreOwned
    <2>1. ASSUME NEW i \in DOMAIN used PROVE info[used[i]] # Nobody
      <3>1. PICK p \in Procs : Chained(p) /\ used[i] = First3(p)
        BY DEF IInv, Pending
      <3>2. info[First3(p)] = mine[p] /\ mine[p] \in Bufs
        BY <3>1, Exclusive DEF IInv, Chains, InDriver
      <3> QED BY <3>1, <3>2, Basics
    <2> QED BY <2>1 DEF ChainsAreOwned, IInv, Chains
  <1> QED BY <1>2, <1>3 DEF StoreChecksHold

-----------------------------------------------------------------------------
(* The cache implements BlockStore *)

\* b is the valid buffer of block n.
Current(n, b) == b \in Bufs /\ blockno[b] = n /\ valid[b]

\* The holder of a block is the one process that has its buffer locked and
\* read; the content of a block is what its valid buffer holds, or the disk.
Mapped == \A n \in Blocks :
    /\ \A p \in Procs : Holds(p, n) <=> Holder(n) = p
    /\ Holder(n) # Nobody => Holder(n) \in Procs
    /\ \A b : Current(n, b) => Content(n) = data[b]
    /\ (\A b : ~Current(n, b)) => Content(n) = media[n]

LEMMA Mapping == IInv => Mapped
  <1> SUFFICES ASSUME IInv, NEW n \in Blocks
               PROVE  /\ \A p \in Procs : Holds(p, n) <=> Holder(n) = p
                      /\ Holder(n) # Nobody => Holder(n) \in Procs
                      /\ \A b : Current(n, b) => Content(n) = data[b]
                      /\ (\A b : ~Current(n, b)) => Content(n) = media[n]
    BY DEF Mapped
  <1>t. OneBuffer /\ Validity /\ n # Nobody /\ Nobody \notin Procs
    BY Basics DEF IInv
  <1>1. \A p, q \in Procs : Holds(p, n) /\ Holds(q, n) => p = q
    BY Exclusive DEF Holds, Using
  <1>2. ASSUME \E p \in Procs : Holds(p, n) PROVE Holder(n) \in Procs /\ Holds(Holder(n), n)
    BY <1>2 DEF Holder
  <1>3. (\A p \in Procs : ~Holds(p, n)) => Holder(n) = Nobody
    BY DEF Holder
  <1>4. \A p \in Procs : Holds(p, n) <=> Holder(n) = p
    BY <1>1, <1>2, <1>3, <1>t
  <1>5. Holder(n) # Nobody => Holder(n) \in Procs
    BY <1>2, <1>3
  <1>6. ASSUME Holder(n) # Nobody PROVE Current(n, mine[Holder(n)]) /\ Content(n) = data[mine[Holder(n)]]
    <2> DEFINE p == Holder(n)
    <2>1. p \in Procs /\ Holds(p, n)
      BY <1>4, <1>5, <1>6
    <2> HIDE DEF p
    <2>2. mine[p] \in Bufs /\ blockno[mine[p]] = n /\ valid[mine[p]]
      BY <2>1, <1>t, Exclusive DEF Holds, Validity
    <2> QED BY <2>2, <1>6 DEF p, Current, Content
  <1>7. \A b, c : Current(n, b) /\ Current(n, c) => b = c
    BY <1>t DEF Current, OneBuffer
  <1>8. ASSUME NEW b, Current(n, b) PROVE Content(n) = data[b]
    <2>1. CASE Holder(n) # Nobody
      BY <2>1, <1>6, <1>7, <1>8
    <2>2. CASE Holder(n) = Nobody
      <3> DEFINE d == CHOOSE c \in Cached(n) : valid[c]
      <3>1. \E c \in Cached(n) : valid[c]
        BY <1>8 DEF Current, Cached
      <3>2. d \in Cached(n) /\ valid[d]
        BY <3>1
      <3>3. Current(n, d)
        BY <3>2 DEF Current, Cached
      <3>4. d = b
        BY <3>3, <1>7, <1>8
      <3>5. Content(n) = data[d]
        BY <2>2, <3>1 DEF Content
      <3> QED BY <3>4, <3>5
    <2> QED BY <2>1, <2>2
  <1>9. ASSUME \A b : ~Current(n, b) PROVE Content(n) = media[n]
    <2>1. Holder(n) = Nobody
      BY <1>6, <1>9
    <2>2. ~\E c \in Cached(n) : valid[c]
      BY <1>9 DEF Current, Cached
    <2> QED BY <2>1, <2>2 DEF Content
  <1> QED BY <1>4, <1>5, <1>8, <1>9

\* The variables of BlockStore.
holders == [n \in Blocks |-> Holder(n)]
contents == [n \in Blocks |-> Content(n)]

\* Before and after a step.
LEMMA MappedTwice == ASSUME IInv, CacheNext PROVE Mapped /\ Mapped' /\ IInv'
  <1>1. IInv'
    BY StepInvariant
  <1>2. IInv' => Mapped'
    BY Mapping, PTL
  <1> QED BY <1>1, <1>2, Mapping

\* If the same processes hold the same blocks, so say the holders.
LEMMA HoldersKeep ==
  ASSUME Mapped, Mapped', NEW n \in Blocks, \A p \in Procs : Holds(p, n)' <=> Holds(p, n)
  PROVE  Holder(n)' = Holder(n)
  <1>1. CASE Holder(n) # Nobody
    BY <1>1 DEF Mapped
  <1>2. CASE Holder(n) = Nobody
    <2>1. \A p \in Procs : ~Holds(p, n)
      BY <1>2, Basics DEF Mapped
    <2>2. Holder(n)' # Nobody => \E q \in Procs : Holder(n)' = q /\ Holds(q, n)'
      BY DEF Mapped
    <2>3. Holder(n)' = Nobody
      BY <2>1, <2>2
    <2> QED BY <1>2, <2>3
  <1> QED BY <1>1, <1>2

LEMMA HolderNone ==
  ASSUME Mapped, NEW n \in Blocks, \A p \in Procs : ~Holds(p, n)
  PROVE  Holder(n) = Nobody
  BY DEF Mapped

LEMMA ContentKeeps ==
  ASSUME Mapped, Mapped', NEW n \in Blocks,
         \A b : Current(n, b)' <=> Current(n, b),
         \A b : Current(n, b) => data'[b] = data[b],
         media'[n] = media[n]
  PROVE  Content(n)' = Content(n)
  <1>1. CASE \E b : Current(n, b)
    <2>1. PICK b : Current(n, b)
      BY <1>1
    <2> QED BY <2>1 DEF Mapped
  <1>2. CASE \A b : ~Current(n, b)
    BY <1>2 DEF Mapped
  <1> QED BY <1>1, <1>2

\* A step that reaches no held block.
LEMMA KeepHolders ==
  ASSUME Mapped, Mapped', \A p \in Procs, n \in Blocks : Holds(p, n)' <=> Holds(p, n)
  PROVE  holders' = holders
  <1>1. \A n \in Blocks : Holder(n)' = Holder(n)
    BY HoldersKeep
  <1> QED BY <1>1 DEF holders

LEMMA KeepContents ==
  ASSUME Mapped, Mapped', UNCHANGED <<blockno, valid, data, media>>
  PROVE  contents' = contents
  <1>1. \A n \in Blocks : \A b : Current(n, b)' <=> Current(n, b)
    BY DEF Current
  <1>2. \A n \in Blocks : Content(n)' = Content(n)
    BY <1>1, ContentKeeps
  <1> QED BY <1>2 DEF contents

\* p comes to hold block n, or gives it up.
LEMMA OneMore ==
  ASSUME Mapped, Mapped', NEW p \in Procs, NEW n \in Blocks, Holder(n) = Nobody,
         \A q \in Procs, m \in Blocks : Holds(q, m)' <=> Holds(q, m) \/ (q = p /\ m = n)
  PROVE  holders' = [holders EXCEPT ![n] = p]
  <1>1. Holder(n)' = p
    BY DEF Mapped
  <1>2. \A m \in Blocks \ {n} : Holder(m)' = Holder(m)
    BY HoldersKeep
  <1> QED BY <1>1, <1>2 DEF holders

LEMMA OneLess ==
  ASSUME Mapped, Mapped', NEW p \in Procs, NEW n \in Blocks, Holds(p, n),
         \A q \in Procs, m \in Blocks : Holds(q, m)' <=> Holds(q, m) /\ ~(q = p /\ m = n)
  PROVE  holders' = [holders EXCEPT ![n] = Nobody] /\ Holder(n) # Nobody
  <1>0. Holder(n) = p /\ p # Nobody
    BY Basics DEF Mapped
  <1>1. \A q \in Procs : ~Holds(q, n)'
    <2> TAKE q \in Procs
    <2>1. Holds(q, n) => q = p
      BY <1>0 DEF Mapped
    <2> QED BY <2>1
  <1>2. Holder(n)' = Nobody
    BY <1>1 DEF Mapped
  <1>3. \A m \in Blocks \ {n} : Holder(m)' = Holder(m)
    BY HoldersKeep
  <1>4. holders' = [holders EXCEPT ![n] = Nobody]
    BY <1>2, <1>3 DEF holders
  <1>5. Holder(n) # Nobody
    BY <1>0
  <1> QED BY <1>4, <1>5

Same == holders' = holders /\ contents' = contents /\ media' = media

\* One more holder, one fewer, a change of what is held, or a block saved.
Abstractly ==
    \/ Same
    \/ \E n \in Blocks, p \in Procs :
          Holder(n) = Nobody /\ holders' = [holders EXCEPT ![n] = p]
          /\ contents' = contents /\ media' = media
    \/ \E n \in Blocks : Holder(n) # Nobody /\
          \/ holders' = [holders EXCEPT ![n] = Nobody] /\ contents' = contents /\ media' = media
          \/ holders' = holders /\ contents' = contents /\ media' = [media EXCEPT ![n] = Content(n)]
          \/ \E v \in Values :
                holders' = holders /\ contents' = [contents EXCEPT ![n] = v] /\ media' = media

LEMMA AbstractStep == Abstractly => [Store!Next]_<<holders, contents, media>>
  BY DEF Abstractly, Same, Store!Next, Store!Get, Store!Put, Store!Save, Store!Modify, holders,
     contents

\* Where a process holds a block.
Held == {"hold", "write", "flush"}

LEMMA OthersHold ==
  ASSUME IInv, CacheNext, NEW p \in Procs, CacheAction(p) \/ Return(p), NEW q \in Procs \ {p}, NEW n \in Blocks
  PROVE  Holds(q, n)' <=> Holds(q, n)
  <1>1. pc'[q] = pc[q] \/ (pc[q] = "locksleep" /\ pc'[q] = "lock")
    BY CacheEffect, ReturnMoves
  <1>2. mine'[q] = mine[q]
    BY CacheEffect, ReturnEffect
  <1>3. pc[q] # "user" => blockno'[mine[q]] = blockno[mine[q]]
    BY UsedKeeps
  <1> QED BY <1>1, <1>2, <1>3 DEF Holds

LEMMA QuietCacheAction ==
  ASSUME IInv, CacheNext, NEW p \in Procs,
         \/ \E n \in Blocks : BgetHit(p, n)
         \/ Acquire(p) \/ AcquireSleeps(p) \/ Brelse(p) \/ BreadMiss(p) \/ Looks(p)
  PROVE  Abstractly
  <1>1. CacheAction(p)
    BY DEF CacheAction
  <1>2. UNCHANGED <<blockno, valid, data, media>>
    BY DEF BgetHit, Acquire, AcquireSleeps, Brelse, BreadMiss, Looks, bufVars, virtioVars,
       deviceVars
  <1>3. pc[p] \notin Held /\ pc'[p] \notin Held
    <2>1. pc \in [Procs -> Labels]
      BY DEF IInv, CacheTypeOK
    <2> QED BY <2>1 DEF BgetHit, Acquire, AcquireSleeps, Brelse, BreadMiss, Looks, Goto, Held
  <1>4. \A q \in Procs, n \in Blocks : Holds(q, n)' <=> Holds(q, n)
    <2> TAKE q \in Procs, n \in Blocks
    <2>1. CASE q = p
      BY <2>1, <1>3 DEF Holds, Held
    <2>2. CASE q # p
      BY <2>2, <1>1, OthersHold
    <2> QED BY <2>1, <2>2
  <1>5. holders' = holders
    BY <1>4, MappedTwice, KeepHolders
  <1>6. contents' = contents
    BY <1>2, MappedTwice, KeepContents
  <1> QED BY <1>2, <1>5, <1>6 DEF Abstractly, Same

\* A buffer is recycled only when the disk has what it holds.
LEMMA RecycleAbstractly ==
  ASSUME IInv, CacheNext, NEW p \in Procs, NEW n \in Blocks, BgetRecycle(p, n)
  PROVE  Abstractly
  <1>t. /\ blockno \in [Bufs -> Blocks \cup {Nobody}] /\ valid \in [Bufs -> BOOLEAN]
        /\ pc \in [Procs -> Labels] /\ Clean /\ Validity /\ OneBuffer
    BY DEF IInv, CacheTypeOK
  <1>1. CacheAction(p)
    BY DEF CacheAction
  <1>m. Mapped /\ Mapped'
    BY MappedTwice
  <1>0. PICK b : b = lru[Last(Positions(Unused))]
    OBVIOUS
  <1>2. /\ b \in Bufs /\ Users(b) = {} /\ blockno[b] \notin pinned
        /\ \A c \in Bufs : blockno[c] # n
    BY <1>0, Recycled
  <1>3. /\ blockno' = [blockno EXCEPT ![b] = n] /\ valid' = [valid EXCEPT ![b] = FALSE]
        /\ UNCHANGED <<data, media>> /\ pc[p] = "user" /\ pc'[p] = "lock"
    BY <1>0, <1>t DEF BgetRecycle, Goto, virtioVars, deviceVars
  <1>4. \A q \in Procs, m \in Blocks : Holds(q, m)' <=> Holds(q, m)
    <2> TAKE q \in Procs, m \in Blocks
    <2>1. CASE q = p
      BY <2>1, <1>3 DEF Holds
    <2>2. CASE q # p
      BY <2>2, <1>1, OthersHold
    <2> QED BY <2>1, <2>2
  <1>5. holders' = holders
    BY <1>4, <1>m, KeepHolders
  <1>6. ASSUME NEW m \in Blocks PROVE Content(m)' = Content(m)
    <2>1. \A c : Current(m, c)' <=> Current(m, c) /\ c # b
      BY <1>2, <1>3, <1>t DEF Current
    <2>2. CASE Current(m, b)
      <3>1. Content(m) = data[b]
        BY <2>2, <1>m DEF Mapped
      <3>2. data[b] = media[m]
        <4>1. \A q \in Procs : mine[q] # b
          BY <1>2 DEF Users
        <4> QED BY <4>1, <2>2, <1>2, <1>t DEF Current, Clean
      <3>3. \A c : ~Current(m, c)'
        <4>1. \A c : Current(m, c) => c = b
          BY <2>2, <1>t, Basics DEF Current, OneBuffer
        <4> QED BY <2>1, <4>1
      <3>4. Content(m)' = media'[m]
        BY <3>3, <1>m DEF Mapped
      <3> QED BY <3>1, <3>2, <3>4, <1>3
    <2>3. CASE ~Current(m, b)
      <3>1. \A c : Current(m, c)' <=> Current(m, c)
        BY <2>1, <2>3
      <3> QED BY <3>1, <1>3, <1>m, ContentKeeps
    <2> QED BY <2>2, <2>3
  <1>7. contents' = contents
    BY <1>6 DEF contents
  <1> QED BY <1>3, <1>5, <1>7 DEF Abstractly, Same

\* bread() of a cached block and the release of a block.
LEMMA HoldAbstractly ==
  ASSUME IInv, CacheNext, NEW p \in Procs, BreadHit(p) \/ Release(p)
  PROVE  Abstractly
  <1>t. pc \in [Procs -> Labels]
    BY DEF IInv, CacheTypeOK
  <1>0. PICK n : n = blockno[mine[p]]
    OBVIOUS
  <1>1. CacheAction(p)
    BY DEF CacheAction
  <1>m. Mapped /\ Mapped'
    BY MappedTwice
  <1>2. UNCHANGED <<blockno, valid, data, media, mine>> /\ pc[p] \in Using
    BY DEF BreadHit, Release, Using, bufVars, virtioVars, deviceVars
  <1>3. n \in Blocks
    BY <1>0, <1>2, Exclusive, Basics DEF Using
  <1>4. contents' = contents
    BY <1>2, <1>m, KeepContents
  <1>5. CASE BreadHit(p)
    <2>1. pc[p] = "valid" /\ pc'[p] = "hold"
      BY <1>5, <1>t DEF BreadHit, Goto
    <2>2. ASSUME NEW q \in Procs, NEW m \in Blocks
          PROVE  Holds(q, m)' <=> Holds(q, m) \/ (q = p /\ m = n)
      <3>1. CASE q = p
        BY <3>1, <2>1, <1>0, <1>2 DEF Holds
      <3>2. CASE q # p
        BY <3>2, <1>1, OthersHold
      <3> QED BY <3>1, <3>2
    <2>3. \A q \in Procs : ~Holds(q, n)
      <3> SUFFICES ASSUME NEW q \in Procs, Holds(q, n) PROVE FALSE
        OBVIOUS
      <3>1. pc[q] \in Using /\ blockno[mine[q]] = blockno[mine[p]]
        BY <1>0 DEF Holds, Using
      <3>2. q = p
        BY <3>1, <1>2, Exclusive
      <3> QED BY <3>2, <2>1 DEF Holds
    <2>4. Holder(n) = Nobody
      BY <2>3, <1>3, <1>m, HolderNone
    <2>5. holders' = [holders EXCEPT ![n] = p]
      BY <2>2, <2>4, <1>3, <1>m, OneMore
    <2> QED BY <2>4, <2>5, <1>2, <1>3, <1>4 DEF Abstractly
  <1>6. CASE Release(p)
    <2>1. pc[p] = "hold" /\ pc'[p] = "put"
      BY <1>6, <1>t DEF Release
    <2>2. ASSUME NEW q \in Procs, NEW m \in Blocks
          PROVE  Holds(q, m)' <=> Holds(q, m) /\ ~(q = p /\ m = n)
      <3>1. CASE q = p
        BY <3>1, <2>1, <1>0, <1>2 DEF Holds
      <3>2. CASE q # p
        BY <3>2, <1>1, OthersHold
      <3> QED BY <3>1, <3>2
    <2>3. Holds(p, n)
      BY <2>1, <1>0 DEF Holds
    <2>4. holders' = [holders EXCEPT ![n] = Nobody] /\ Holder(n) # Nobody
      BY <2>2, <2>3, <1>3, <1>m, OneLess
    <2> QED BY <2>4, <1>2, <1>3, <1>4 DEF Abstractly
  <1> QED BY <1>5, <1>6

\* log_write() and the bwrite() of a block of the log.
LEMMA ModifyAbstractly ==
  ASSUME IInv, CacheNext, NEW p \in Procs, NEW v \in Values, LogWrite(p, v) \/ Bwrite(p, v)
  PROVE  Abstractly
  <1>t. pc \in [Procs -> Labels] /\ data \in [Bufs -> Values] /\ OneBuffer /\ Validity
    BY DEF IInv, CacheTypeOK, VirtioTypeOK
  <1>0. PICK b, n : b = mine[p] /\ n = blockno[mine[p]]
    OBVIOUS
  <1>1. CacheAction(p)
    BY DEF CacheAction
  <1>m. Mapped /\ Mapped'
    BY MappedTwice
  <1>2. UNCHANGED <<blockno, valid, media, mine>> /\ pc[p] = "hold"
        /\ (data' = data \/ data' = [data EXCEPT ![b] = v])
        /\ pc'[p] \in Held
    BY <1>0, <1>t DEF LogWrite, Bwrite, Goto, Held, bufVars
  <1>3. b \in Bufs /\ n \in Blocks /\ valid[b] /\ blockno[b] = n
    BY <1>0, <1>2, <1>t, Exclusive, Basics DEF Validity
  <1>4. \A q \in Procs, m \in Blocks : Holds(q, m)' <=> Holds(q, m)
    <2> TAKE q \in Procs, m \in Blocks
    <2>1. CASE q = p
      BY <2>1, <1>2 DEF Holds, Held
    <2>2. CASE q # p
      BY <2>2, <1>1, OthersHold
    <2> QED BY <2>1, <2>2
  <1>5. holders' = holders
    BY <1>4, <1>m, KeepHolders
  <1>6. Holder(n) # Nobody
    <2>1. Holds(p, n)
      BY <1>0, <1>2 DEF Holds
    <2>2. Holder(n) = p
      BY <2>1, <1>3, <1>m DEF Mapped
    <2> QED BY <2>2, Basics
  <1>7. CASE data' = data
    <2>1. contents' = contents
      BY <1>7, <1>2, <1>m, KeepContents
    <2> QED BY <2>1, <1>2, <1>5 DEF Abstractly, Same
  <1>8. CASE data' = [data EXCEPT ![b] = v]
    <2>1. Current(n, b) /\ Current(n, b)'
      BY <1>2, <1>3 DEF Current
    <2>2. Content(n)' = v
      <3>1. data'[b] = v
        BY <1>8, <1>3, <1>t
      <3>2. Content(n)' = data'[b]
        BY <2>1, <1>3, <1>m DEF Mapped
      <3> QED BY <3>1, <3>2
    <2>3. ASSUME NEW m \in Blocks \ {n} PROVE Content(m)' = Content(m)
      <3>1. \A c : Current(m, c)' <=> Current(m, c)
        BY <1>2 DEF Current
      <3>2. \A c : Current(m, c) => data'[c] = data[c]
        BY <1>8, <1>3, <1>t, <2>3 DEF Current
      <3> QED BY <3>1, <3>2, <1>2, <1>m, ContentKeeps
    <2>4. contents' = [contents EXCEPT ![n] = v]
      BY <2>2, <2>3, <1>3 DEF contents
    <2> QED BY <2>4, <1>2, <1>3, <1>5, <1>6 DEF Abstractly
  <1> QED BY <1>2, <1>7, <1>8

\* The end of virtio_disk_rw(): bread() has what the disk has.
LEMMA ReturnAbstractly ==
  ASSUME IInv, CacheNext, NEW p \in Procs, Return(p)
  PROVE  Abstractly
  <1>t. valid \in [Bufs -> BOOLEAN] /\ OneBuffer /\ Validity
    BY DEF IInv, CacheTypeOK
  <1>0. PICK b, n : b = mine[p] /\ n = blockno[mine[p]]
    OBVIOUS
  <1>m. Mapped /\ Mapped'
    BY MappedTwice
  <1>1. /\ UNCHANGED <<blockno, media, data, mine>> /\ pc'[p] = "hold" /\ pc[p] \in InDriver
        /\ b \in Bufs /\ n \in Blocks /\ data[b] = media[n]
    BY <1>0, ReturnEffect, ReturnMoves DEF RwReturn, deviceVars
  <1>2. CASE BreadReturn(p)
    <2>1. pc[p] = "read" /\ valid' = [valid EXCEPT ![b] = TRUE]
      BY <1>0, <1>2 DEF BreadReturn, Goto
    <2>2. ASSUME NEW q \in Procs, NEW m \in Blocks
          PROVE  Holds(q, m)' <=> Holds(q, m) \/ (q = p /\ m = n)
      <3>1. CASE q = p
        BY <3>1, <2>1, <1>0, <1>1 DEF Holds
      <3>2. CASE q # p
        BY <3>2, OthersHold
      <3> QED BY <3>1, <3>2
    <2>3. \A q \in Procs : ~Holds(q, n)
      <3> SUFFICES ASSUME NEW q \in Procs, Holds(q, n) PROVE FALSE
        OBVIOUS
      <3>1. pc[q] \in Using /\ pc[p] \in Using /\ blockno[mine[q]] = blockno[mine[p]]
        BY <1>0, <2>1 DEF Holds, Using
      <3>2. q = p
        BY <3>1, Exclusive
      <3> QED BY <3>2, <2>1 DEF Holds
    <2>4. Holder(n) = Nobody
      BY <2>3, <1>1, <1>m, HolderNone
    <2>5. holders' = [holders EXCEPT ![n] = p]
      BY <2>2, <2>4, <1>1, <1>m, OneMore
    <2>6. ASSUME NEW m \in Blocks PROVE Content(m)' = Content(m)
      <3>1. \A c : Current(m, c)' <=> Current(m, c) \/ (c = b /\ m = n)
        BY <2>1, <1>0, <1>1, <1>t DEF Current
      <3>2. CASE m # n
        <4>1. \A c : Current(m, c)' <=> Current(m, c)
          BY <3>1, <3>2
        <4> QED BY <4>1, <1>1, <1>m, ContentKeeps
      <3>3. CASE m = n
        <4>1. \A c : ~Current(n, c)
          <5>1. ~valid[b]
            BY <1>0, <2>1, <1>t DEF Validity
          <5>2. \A c \in Bufs : blockno[c] = n => c = b
            BY <1>0, <1>1, <1>t, Basics DEF OneBuffer
          <5> QED BY <5>1, <5>2 DEF Current
        <4>2. Content(n) = media[n]
          BY <4>1, <1>1, <1>m DEF Mapped
        <4>3. Current(n, b)'
          BY <3>1, <3>3
        <4>4. Content(n)' = data'[b]
          BY <4>3, <1>1, <1>m DEF Mapped
        <4> QED BY <3>3, <4>2, <4>4, <1>1
      <3> QED BY <3>2, <3>3
    <2>7. contents' = contents
      BY <2>6 DEF contents
    <2> QED BY <2>4, <2>5, <2>7, <1>1 DEF Abstractly
  <1>3. CASE BwriteReturn(p) \/ InstallReturn(p)
    <2>1. pc[p] \in {"write", "flush"} /\ valid' = valid
      BY <1>3 DEF BwriteReturn, InstallReturn, Goto, bufVars
    <2>2. \A q \in Procs, m \in Blocks : Holds(q, m)' <=> Holds(q, m)
      <3> TAKE q \in Procs, m \in Blocks
      <3>1. CASE q = p
        BY <3>1, <2>1, <1>1 DEF Holds
      <3>2. CASE q # p
        BY <3>2, OthersHold
      <3> QED BY <3>1, <3>2
    <2>3. holders' = holders
      BY <2>2, <1>m, KeepHolders
    <2>4. contents' = contents
      BY <2>1, <1>1, <1>m, KeepContents
    <2> QED BY <2>3, <2>4, <1>1 DEF Abstractly, Same
  <1> QED BY <1>2, <1>3 DEF Return

\* The device saves a block that is held, as it is.
LEMMA ServeAbstractly ==
  ASSUME IInv, CacheNext, NEW rq \in avail, Serve(rq)
  PROVE  Abstractly
  <1>t. data \in [Bufs -> Values] /\ media \in [Blocks -> Values] /\ OneBuffer /\ Validity /\ RwAgrees
    BY DEF IInv, CacheTypeOK, VirtioTypeOK
  <1>m. Mapped /\ Mapped'
    BY MappedTwice
  <1>p. PICK p \in Procs :
            /\ Asks(p, rq) /\ mine[p] \in Bufs /\ blockno[mine[p]] \in Blocks
            /\ IF pc[p] # "read"
               THEN media' = [media EXCEPT ![blockno[mine[p]]] = data[mine[p]]] /\ UNCHANGED data
               ELSE data' = [data EXCEPT ![mine[p]] = media[blockno[mine[p]]]] /\ UNCHANGED media
            /\ UNCHANGED cacheVars
    BY ServeEffect
  <1>0. PICK b, n : b = mine[p] /\ n = blockno[mine[p]]
    OBVIOUS
  <1>1. UNCHANGED <<mine, pc, blockno, valid>> /\ pc[p] \in InDriver
    BY <1>p, Exclusive DEF cacheVars, bufVars, Asks
  <1>2. \A q \in Procs, m \in Blocks : Holds(q, m)' <=> Holds(q, m)
    BY <1>1 DEF Holds
  <1>3. holders' = holders
    BY <1>2, <1>m, KeepHolders
  <1>4. \A m \in Blocks : \A c : Current(m, c)' <=> Current(m, c)
    BY <1>1 DEF Current
  <1>5. CASE pc[p] = "read"
    <2>1. ~valid[b]
      BY <1>0, <1>5, <1>t DEF Validity
    <2>2. media' = media /\ \A c \in Bufs \ {b} : data'[c] = data[c]
      BY <1>0, <1>5, <1>p, <1>t
    <2>3. \A m \in Blocks : \A c : Current(m, c) => data'[c] = data[c]
      BY <2>1, <2>2 DEF Current
    <2>4. \A m \in Blocks : Content(m)' = Content(m)
      BY <2>2, <2>3, <1>4, <1>m, ContentKeeps
    <2>5. contents' = contents
      BY <2>4 DEF contents
    <2> QED BY <2>2, <2>5, <1>3 DEF Abstractly, Same
  <1>6. CASE pc[p] # "read"
    <2>1. media' = [media EXCEPT ![n] = data[b]] /\ data' = data /\ n \in Blocks /\ b \in Bufs
      BY <1>0, <1>6, <1>p
    <2>2. Holds(p, n) /\ Current(n, b)
      BY <1>0, <1>1, <1>6, <1>t, <2>1 DEF Holds, Current, Validity, InDriver
    <2>3. Content(n) = data[b] /\ Content(n)' = data[b]
      BY <2>1, <2>2, <1>4, <1>m DEF Mapped
    <2>4. ASSUME NEW m \in Blocks \ {n} PROVE Content(m)' = Content(m)
      <3>1. media'[m] = media[m]
        BY <2>1, <1>t
      <3> QED BY <3>1, <2>1, <1>4, <1>m, ContentKeeps
    <2>5. contents' = contents
      BY <2>3, <2>4 DEF contents
    <2>6. Holder(n) # Nobody
      <3>1. Holder(n) = p
        BY <2>1, <2>2, <1>m DEF Mapped
      <3> QED BY <3>1, Basics
    <2> QED BY <2>1, <2>3, <2>5, <2>6, <1>3 DEF Abstractly
  <1> QED BY <1>5, <1>6

LEMMA StepAbstractly == ASSUME IInv, CacheNext PROVE Abstractly
  <1>1. ASSUME NEW p \in Procs, CacheAction(p) PROVE Abstractly
    <2>1. CASE \E n \in Blocks : BgetRecycle(p, n)
      BY <2>1, RecycleAbstractly
    <2>2. CASE BreadHit(p) \/ Release(p)
      BY <2>2, HoldAbstractly
    <2>3. CASE \E v \in Values : LogWrite(p, v) \/ Bwrite(p, v)
      BY <2>3, ModifyAbstractly
    <2>4. CASE \/ \E n \in Blocks : BgetHit(p, n)
               \/ Acquire(p) \/ AcquireSleeps(p) \/ Brelse(p) \/ BreadMiss(p) \/ Looks(p)
      BY <2>4, QuietCacheAction
    <2> QED BY <1>1, <2>1, <2>2, <2>3, <2>4 DEF CacheAction
  <1>2. ASSUME UNCHANGED <<blockno, valid, data, media, pc, mine>> PROVE Abstractly
    <2>1. holders' = holders
      BY <1>2, MappedTwice, KeepHolders DEF Holds
    <2>2. contents' = contents
      BY <1>2, MappedTwice, KeepContents
    <2> QED BY <2>1, <2>2, <1>2 DEF Abstractly, Same
  <1>3. ASSUME \/ \E p \in Procs : Submit(p) \/ Full(p) \/ Again(p) \/ Kicked(p)
               \/ Quiet \/ Finish
        PROVE  UNCHANGED <<blockno, valid, data, media, pc, mine>>
    BY <1>3 DEF Submit, RwSubmit, Full, RwFull, Again, RwSleepAgain, Kicked, RwKicked, Quiet,
                DeviceInterrupts, IntrAck, IntrEndLoop, IntrReturn, Finish, IntrOne, deviceVars,
                cacheVars, bufVars
  <1> QED BY Steps, <1>1, <1>2, <1>3, ReturnAbstractly, ServeAbstractly

LEMMA StutterAbstractly ==
  ASSUME UNCHANGED storeVars PROVE UNCHANGED <<holders, contents, media>>
  <1>1. UNCHANGED <<blockno, valid, data, media, pc, mine>>
    BY DEF storeVars, cacheVars, bufVars, virtioVars, deviceVars
  <1>2. \A n \in Blocks : Holder(n)' = Holder(n)
    BY <1>1 DEF Holder, Holds
  <1>3. \A n \in Blocks : Content(n)' = Content(n)
    BY <1>1, <1>2 DEF Content, Cached
  <1> QED BY <1>1, <1>2, <1>3 DEF holders, contents

LEMMA InitAbstractly == CacheInit => Store!Init
  <1> SUFFICES ASSUME CacheInit PROVE Store!Init
    OBVIOUS
  <1>v. PICK v \in Values : VirtioInit(v)
    BY DEF CacheInit
  <1>1. media = [n \in Blocks |-> v] /\ \A b \in Bufs : ~valid[b]
    BY <1>v DEF VirtioInit, CacheInit
  <1>2. \A p \in Procs, n \in Blocks : ~Holds(p, n)
    BY DEF CacheInit, Holds
  <1>3. Mapped
    BY InitInvariant, Mapping
  <1>4. \A n \in Blocks : Holder(n) = Nobody
    BY <1>2, <1>3, HolderNone
  <1>5. \A n \in Blocks : Content(n) = v
    BY <1>1, <1>3 DEF Mapped, Current
  <1> QED BY <1>1, <1>4, <1>5 DEF Store!Init

\* The types hold: no reference count, descriptor or place in the driver
\* leaves its range.
THEOREM StoreTypeCorrect == CacheSpec => []CacheTypeOK
  <1>1. IInv => CacheTypeOK
    BY DEF IInv
  <1> QED BY <1>1, StoreInvariant, PTL

\* Every sleeper of the cache and of the driver has somebody who will wake it
\* (sleeplock.c:25-30, virtio_disk.c:228-236, 287-292).
THEOREM StoreServes == CacheSpec => []StoreSleeperIsOwed
  BY NobodyForgotten, StoreInvariant, PTL

\* No lock is released that is not held and no free descriptor is freed
\* (bio.c:109, 119, virtio_disk.c:172-175, 307-331).
THEOREM StoreSafe == CacheSpec => []StoreChecksHold
  BY ChecksHold, StoreInvariant, PTL

\* bget() finds no buffer only when all are in use or pinned: no reference is
\* leaked (bio.c:60-88, 114-151).
THEOREM CacheLeaksNothing == CacheSpec => []PanicsOnlyWhenFull
  BY FullWhenNoneIsFree, StoreInvariant, PTL

\* The cache implements BlockStore: processes see one copy of each block, one
\* at a time, with what was last left there (bio.c:3-16, 74-86).
THEOREM CacheCoherent == CacheSpec => CoherentBlocks
  <1>1. CacheInit => Store!Init
    BY InitAbstractly
  <1>2. IInv /\ [CacheNext]_storeVars => [Store!Next]_<<holders, contents, media>>
    <2> SUFFICES ASSUME IInv, [CacheNext]_storeVars
                 PROVE  [Store!Next]_<<holders, contents, media>>
      OBVIOUS
    <2>1. CASE CacheNext
      BY <2>1, StepAbstractly, AbstractStep
    <2>2. CASE UNCHANGED storeVars
      BY <2>2, StutterAbstractly
    <2> QED BY <2>1, <2>2
  <1> QED BY <1>1, <1>2, StoreInvariant, PTL
       DEF CacheSpec, CoherentBlocks, Store!Spec, holders, contents

-----------------------------------------------------------------------------
(* The ring of the console *)

LEMMA ConsSizes ==
  /\ INPUT_BUF_SIZE \in Nat \ {0} /\ Wrap \in Nat \ {0} /\ INPUT_BUF_SIZE < Wrap
  /\ Wrap % INPUT_BUF_SIZE = 0
  /\ Batch \in Nat \ {0} /\ Depth \in Nat /\ Depth >= 2
  /\ MaxRead \in Nat /\ MaxWrite \in Nat /\ MaxTyped \in Nat
  BY ConsoleAssumption

\* n characters from index f on.
Span(b, f, n) == [i \in 1 .. n |-> b[(f + i - 1) % INPUT_BUF_SIZE]]

\* The cell of a position is that of the index that wraps.
LEMMA CellOf ==
  ASSUME NEW f \in Int, NEW j \in Int
  PROVE  ((f % Wrap) + j) % INPUT_BUF_SIZE = (f + j) % INPUT_BUF_SIZE
  <1>0. PICK m : m = f % Wrap
    OBVIOUS
  <1>1. m \in Int /\ m + j \in Int /\ f + j \in Int
    BY <1>0, ConsSizes, Division
  <1>2. (m + j) % Wrap = (f + j) % Wrap
    BY <1>0, ConsSizes, ModAdd
  <1>3. ((m + j) % Wrap) % INPUT_BUF_SIZE = (m + j) % INPUT_BUF_SIZE
    BY <1>1, ConsSizes, ModMultiple
  <1>4. ((f + j) % Wrap) % INPUT_BUF_SIZE = (f + j) % INPUT_BUF_SIZE
    BY <1>1, ConsSizes, ModMultiple
  <1> QED BY <1>0, <1>2, <1>3, <1>4

LEMMA SpanWraps ==
  ASSUME NEW b, NEW f \in Int, NEW n \in Nat PROVE Span(b, f % Wrap, n) = Span(b, f, n)
  <1>1. ASSUME NEW i \in 1 .. n
        PROVE  ((f % Wrap) + i - 1) % INPUT_BUF_SIZE = (f + i - 1) % INPUT_BUF_SIZE
    <2>1. f % Wrap \in Int
      BY ConsSizes, Division
    <2>2. (f % Wrap) + (i - 1) = (f % Wrap) + i - 1 /\ f + (i - 1) = f + i - 1 /\ i - 1 \in Int
      BY <2>1
    <2>3. ((f % Wrap) + (i - 1)) % INPUT_BUF_SIZE = (f + (i - 1)) % INPUT_BUF_SIZE
      BY <2>2, CellOf
    <2> QED BY <2>2, <2>3
  <1> QED BY <1>1 DEF Span

\* Two positions of one pass of the ring are two cells.
LEMMA CellsDiffer ==
  ASSUME NEW f \in Int, NEW j \in Int, NEW k \in Int, j < k, k - j < INPUT_BUF_SIZE
  PROVE  (f + j) % INPUT_BUF_SIZE # (f + k) % INPUT_BUF_SIZE
  <1>1. f + j \in Int /\ k - j \in 1 .. INPUT_BUF_SIZE - 1 /\ (f + j) + (k - j) = f + k
    BY ConsSizes
  <1> QED BY <1>1, ConsSizes, ModDistinct

\* Blanked cells are n from f on, no other.
LEMMA BlankKeeps ==
  ASSUME NEW f \in Int, NEW n \in Nat, NEW j \in Int, n <= j, j < INPUT_BUF_SIZE
  PROVE  Blank(f, n)[(f + j) % INPUT_BUF_SIZE] = buf[(f + j) % INPUT_BUF_SIZE]
  <1>0. PICK c : c = (f + j) % INPUT_BUF_SIZE
    OBVIOUS
  <1>1. c \in 0 .. INPUT_BUF_SIZE - 1
    BY <1>0, ConsSizes, Division
  <1>2. (c - f) % INPUT_BUF_SIZE = j % INPUT_BUF_SIZE
    BY <1>0, ConsSizes, ModOffset
  <1>3. j % INPUT_BUF_SIZE = j
    <2>1. j \in 0 .. INPUT_BUF_SIZE - 1
      BY ConsSizes
    <2> QED BY <2>1, ConsSizes, ModNear
  <1>4. ~((c - f) % INPUT_BUF_SIZE < n)
    BY <1>2, <1>3
  <1>5. Blank(f, n)[c] = buf[c]
    BY <1>1, <1>4 DEF Blank
  <1> QED BY <1>0, <1>5

\* Distances.
LEMMA DistOf ==
  ASSUME NEW f \in Int, NEW n \in Nat, n < Wrap
  PROVE  Dist((f + n) % Wrap, f % Wrap) = n
  <1>0. PICK m : m = f % Wrap
    OBVIOUS
  <1>1. m \in Int /\ n \in Int
    BY <1>0, ConsSizes, Division
  <1>2. (m + n) % Wrap = (f + n) % Wrap
    BY <1>0, <1>1, ConsSizes, ModAdd
  <1>3. (((m + n) % Wrap) - m) % Wrap = n % Wrap
    BY <1>1, ConsSizes, ModOffset
  <1>4. n % Wrap = n
    <2>1. n \in 0 .. Wrap - 1
      BY ConsSizes
    <2> QED BY <2>1, ConsSizes, ModNear
  <1> QED BY <1>0, <1>2, <1>3, <1>4 DEF Dist

\* The types, in parts.
Cells == Plain \cup {NL, EOF}

InputType ==
    /\ buf \in [0 .. INPUT_BUF_SIZE - 1 -> Cells]
    /\ r \in 0 .. Wrap - 1 /\ w \in 0 .. Wrap - 1 /\ e \in 0 .. Wrap - 1
ReadType ==
    /\ reader \in [Readers -> {"user", "loop", "sleep", "return"}]
    /\ want \in [Readers -> 0 .. MaxRead]
    /\ got \in [Readers -> Seq(Plain \cup {NL})]
    /\ killed \in [Readers -> BOOLEAN]
WriteType ==
    /\ writer \in [Writers -> {"user", "lock", "locksleep", "prepare", "look", "put", "sleep"}]
    /\ left \in [Writers -> 0 .. MaxWrite]
    /\ batch \in [Writers -> 0 .. Batch]
    /\ txChan \subseteq Writers
    /\ txLock \subseteq Writers
ChipType ==
    /\ thr \in Nat
    /\ rhr \in 0 .. MaxTyped
    /\ txDone \in BOOLEAN
    /\ uart \in {"off", "look", "getc", "echo", "put"}
    /\ echo \in Nat

\* What read() may take and the line being typed are a and l characters from r on.
Placed(a, l) ==
  /\ a \in Nat /\ l \in Nat /\ a + l <= INPUT_BUF_SIZE /\ l < INPUT_BUF_SIZE
  /\ w = (r + a) % Wrap /\ e = (r + (a + l)) % Wrap

LEMMA PlacedFacts ==
  ASSUME InputType, NEW a, NEW l, Placed(a, l)
  PROVE  /\ Dist(w, r) = a /\ Dist(e, w) = l /\ Dist(e, r) = a + l
         /\ Slice(r, w) = Span(buf, r, a)
         /\ Slice(w, e) = Span(buf, r + a, l)
         /\ e = w <=> l = 0
         /\ r = w <=> a = 0
         /\ r \in Int /\ w \in Int /\ e \in Int /\ r \in 0 .. Wrap - 1
  <1>1. r \in 0 .. Wrap - 1 /\ w \in 0 .. Wrap - 1 /\ e \in 0 .. Wrap - 1
        /\ r \in Int /\ w \in Int /\ e \in Int
    BY ConsSizes DEF InputType
  <1>2. /\ a \in Nat /\ l \in Nat /\ a + l \in Nat /\ a + l < Wrap /\ a < Wrap /\ l < Wrap
        /\ w = (r + a) % Wrap /\ e = (r + (a + l)) % Wrap
    BY ConsSizes DEF Placed
  <1>3. r % Wrap = r
    BY <1>1, ConsSizes, ModNear
  <1>4. Dist(w, r) = a
    <2>1. Dist((r + a) % Wrap, r % Wrap) = a
      BY <1>1, <1>2, DistOf
    <2> QED BY <2>1, <1>2, <1>3
  <1>5. Dist(e, r) = a + l
    <2>1. Dist((r + (a + l)) % Wrap, r % Wrap) = a + l
      BY <1>1, <1>2, DistOf
    <2> QED BY <2>1, <1>2, <1>3
  <1>6. Dist(e, w) = l
    <2>1. r + a \in Int /\ (r + a) + l = r + (a + l)
      BY <1>1, <1>2
    <2>2. Dist(((r + a) + l) % Wrap, (r + a) % Wrap) = l
      BY <2>1, <1>2, DistOf
    <2> QED BY <2>1, <2>2, <1>2
  <1>7. Slice(r, w) = Span(buf, r, a)
    BY <1>4 DEF Slice, Span
  <1>8. Slice(w, e) = Span(buf, r + a, l)
    <2>1. Slice(w, e) = Span(buf, w, l)
      BY <1>6 DEF Slice, Span
    <2>2. r + a \in Int
      BY <1>1, <1>2
    <2>3. Span(buf, (r + a) % Wrap, l) = Span(buf, r + a, l)
      BY <2>2, <1>2, SpanWraps
    <2> QED BY <2>1, <2>3, <1>2
  <1>9. (e = w <=> l = 0) /\ (r = w <=> a = 0)
    <2>1. Dist(r, r) = 0 /\ Dist(w, w) = 0
      <3>1. r - r = 0 /\ w - w = 0 /\ 0 \in 0 .. Wrap - 1 /\ 0 \in Int
        BY <1>1, ConsSizes
      <3>2. 0 % Wrap = 0
        BY <3>1, ConsSizes, ModNear
      <3> QED BY <3>1, <3>2 DEF Dist
    <2>2. l = 0 => e = w
      <3>1. r + (a + 0) = r + a
        BY <1>1, <1>2
      <3> QED BY <3>1, <1>2
    <2>3. a = 0 => r = w
      <3>1. r + 0 = r
        BY <1>1
      <3> QED BY <3>1, <1>2, <1>3
    <2> QED BY <2>1, <2>2, <2>3, <1>4, <1>6
  <1> QED BY <1>1, <1>4, <1>5, <1>6, <1>7, <1>8, <1>9

-----------------------------------------------------------------------------
(* Spans of the buffer *)

LEMMA SpanIsSeq ==
  ASSUME NEW b \in [0 .. INPUT_BUF_SIZE - 1 -> Cells], NEW f \in Int, NEW n \in Nat
  PROVE  Span(b, f, n) \in Seq(Cells) /\ Len(Span(b, f, n)) = n
  <1>1. ASSUME NEW i \in 1 .. n PROVE b[(f + i - 1) % INPUT_BUF_SIZE] \in Cells
    <2>1. f + i - 1 \in Int
      OBVIOUS
    <2>2. (f + i - 1) % INPUT_BUF_SIZE \in 0 .. INPUT_BUF_SIZE - 1
      BY <2>1, ConsSizes, Division
    <2> QED BY <2>2
  <1>2. Span(b, f, n) \in [1 .. n -> Cells]
    BY <1>1 DEF Span
  <1>3. \A g \in [1 .. n -> Cells] : g \in Seq(Cells) /\ Len(g) = n
    OBVIOUS
  <1> QED BY <1>2, <1>3

LEMMA SpanSame ==
  ASSUME NEW b, NEW c, NEW f \in Int, NEW o \in Int, NEW n \in Nat,
         \A j \in Int : o <= j /\ j < o + n => b[(f + j) % INPUT_BUF_SIZE] = c[(f + j) % INPUT_BUF_SIZE]
  PROVE  Span(b, f + o, n) = Span(c, f + o, n)
  <1>1. ASSUME NEW i \in 1 .. n
        PROVE  b[(f + o + i - 1) % INPUT_BUF_SIZE] = c[(f + o + i - 1) % INPUT_BUF_SIZE]
    <2>1. o + i - 1 \in Int /\ o <= o + i - 1 /\ o + i - 1 < o + n /\ f + o + i - 1 = f + (o + i - 1)
      OBVIOUS
    <2> QED BY <2>1
  <1> QED BY <1>1 DEF Span

LEMMA SpanSameFrom ==
  ASSUME NEW b, NEW c, NEW f \in Int, NEW n \in Nat,
         \A j \in Int : 0 <= j /\ j < n => b[(f + j) % INPUT_BUF_SIZE] = c[(f + j) % INPUT_BUF_SIZE]
  PROVE  Span(b, f, n) = Span(c, f, n)
  <1>1. ASSUME NEW i \in 1 .. n
        PROVE  b[(f + i - 1) % INPUT_BUF_SIZE] = c[(f + i - 1) % INPUT_BUF_SIZE]
    <2>1. i - 1 \in Int /\ 0 <= i - 1 /\ i - 1 < n /\ f + i - 1 = f + (i - 1)
      OBVIOUS
    <2> QED BY <2>1
  <1> QED BY <1>1 DEF Span

LEMMA SpanTail ==
  ASSUME NEW b, NEW f \in Int, NEW n \in Nat, NEW t \in 0 .. n
  PROVE  SubSeq(Span(b, f, n), t + 1, n) = Span(b, f + t, n - t)
  <1>1. DOMAIN SubSeq(Span(b, f, n), t + 1, n) = 1 .. n - t
    BY DEF Span
  <1>2. ASSUME NEW i \in 1 .. n - t
        PROVE  SubSeq(Span(b, f, n), t + 1, n)[i] = b[(f + t + i - 1) % INPUT_BUF_SIZE]
    <2>1. t + i \in 1 .. n /\ t + 1 + i - 1 = t + i /\ f + (t + i) - 1 = f + t + i - 1
      OBVIOUS
    <2>2. SubSeq(Span(b, f, n), t + 1, n)[i] = Span(b, f, n)[t + i]
      BY <2>1
    <2>3. Span(b, f, n)[t + i] = b[(f + (t + i) - 1) % INPUT_BUF_SIZE]
      BY <2>1 DEF Span
    <2> QED BY <2>1, <2>2, <2>3
  <1>3. SubSeq(Span(b, f, n), t + 1, n) = [i \in 1 .. n - t |-> SubSeq(Span(b, f, n), t + 1, n)[i]]
    BY <1>1
  <1> QED BY <1>2, <1>3 DEF Span

LEMMA SpanHead ==
  ASSUME NEW b, NEW f \in Int, NEW n \in Nat, NEW m \in 0 .. n
  PROVE  SubSeq(Span(b, f, n), 1, m) = Span(b, f, m)
  BY DEF Span

LEMMA SpanAppend ==
  ASSUME NEW b, NEW f \in Int, NEW n \in Nat
  PROVE  Span(b, f, n + 1) = Append(Span(b, f, n), b[(f + n) % INPUT_BUF_SIZE])
  <1>1. f + (n + 1) - 1 = f + n
    OBVIOUS
  <1> QED BY <1>1 DEF Span

LEMMA SpanConcat ==
  ASSUME NEW b \in [0 .. INPUT_BUF_SIZE - 1 -> Cells], NEW f \in Int, NEW n \in Nat, NEW m \in Nat
  PROVE  Span(b, f, n + m) = Span(b, f, n) \o Span(b, f + n, m)
  <1>1. /\ Span(b, f, n) \in Seq(Cells) /\ Len(Span(b, f, n)) = n
        /\ Span(b, f + n, m) \in Seq(Cells) /\ Len(Span(b, f + n, m)) = m
    BY SpanIsSeq
  <1>2. DOMAIN (Span(b, f, n) \o Span(b, f + n, m)) = 1 .. n + m
    BY <1>1
  <1>3. ASSUME NEW i \in 1 .. n + m
        PROVE  (Span(b, f, n) \o Span(b, f + n, m))[i] = b[(f + i - 1) % INPUT_BUF_SIZE]
    <2>1. CASE i <= n
      <3>1. (Span(b, f, n) \o Span(b, f + n, m))[i] = Span(b, f, n)[i]
        BY <1>1, <2>1
      <3> QED BY <3>1, <2>1 DEF Span
    <2>2. CASE i > n
      <3>1. (Span(b, f, n) \o Span(b, f + n, m))[i] = Span(b, f + n, m)[i - n]
        BY <1>1, <2>2
      <3>2. i - n \in 1 .. m /\ f + n + (i - n) - 1 = f + i - 1
        BY <2>2
      <3>3. Span(b, f + n, m)[i - n] = b[(f + n + (i - n) - 1) % INPUT_BUF_SIZE]
        BY <3>2 DEF Span
      <3>4. b[(f + n + (i - n) - 1) % INPUT_BUF_SIZE] = b[(f + i - 1) % INPUT_BUF_SIZE]
        BY <3>2, Zenon
      <3> QED BY <3>1, <3>3, <3>4, Zenon
    <2>3. i <= n \/ i > n
      OBVIOUS
    <2> QED BY <2>1, <2>2, <2>3, Zenon
  <1>4. Span(b, f, n) \o Span(b, f + n, m)
          = [i \in 1 .. n + m |-> (Span(b, f, n) \o Span(b, f + n, m))[i]]
    BY <1>1, <1>2
  <1> QED BY <1>3, <1>4 DEF Span

\* What one pass of consoleread() takes: at most an end, as the last character, and
\* all there is or all that is wanted if there is no end.
LEMMA TakesFacts ==
  ASSUME NEW s \in Seq(Cells), NEW n \in Nat, NEW k, k = Takes(s, n)
  PROVE  /\ k \in 0 .. Len(s) /\ k <= n
         /\ \A i \in 1 .. k - 1 : s[i] \notin {NL, EOF}
         /\ k = 0 \/ s[k] \notin {NL, EOF} => k = n \/ k = Len(s)
  <1>0. PICK m, ends : m = Min2(n, Len(s)) /\ ends = {i \in Ends(s) : i <= m}
    OBVIOUS
  <1>1. m \in 0 .. Len(s) /\ m <= n /\ (m = n \/ m = Len(s)) /\ Len(s) \in Nat
    BY <1>0 DEF Min2
  <1>2. k = IF ends = {} THEN m ELSE CHOOSE i \in ends : \A j \in ends : i <= j
    BY <1>0 DEF Takes
  <1>3. \A i : i \in ends <=> i \in 1 .. m /\ s[i] \in {NL, EOF}
    BY <1>0, <1>1 DEF Ends
  <1>4. CASE ends = {}
    BY <1>1, <1>2, <1>3, <1>4
  <1>5. CASE ends # {}
    <2>1. ends \in SUBSET Nat
      BY <1>1, <1>3
    <2>2. \E i \in ends : \A j \in ends : i <= j
      BY <2>1, <1>5, LeastNatural
    <2>3. k \in ends /\ \A j \in ends : k <= j
      BY <2>2, <1>2, <1>5
    <2>4. k \in 1 .. m /\ s[k] \in {NL, EOF}
      BY <2>3, <1>3
    <2>5. ASSUME NEW i \in 1 .. k - 1 PROVE s[i] \notin {NL, EOF}
      <3>1. i \in 1 .. m /\ ~(k <= i)
        BY <2>4, <1>1
      <3> QED BY <3>1, <2>3, <1>3
    <2> QED BY <2>4, <2>5, <1>1
  <1> QED BY <1>4, <1>5

Size(s, k) == IF k > 0 /\ s[k] = EOF THEN k - 1 ELSE k

LEMMA CopiedFacts ==
  ASSUME NEW s \in Seq(Cells), NEW k \in 0 .. Len(s), \A i \in 1 .. k - 1 : s[i] \notin {NL, EOF}
  PROVE  /\ Size(s, k) \in 0 .. k
         /\ Copied(s, k) = SubSeq(s, 1, Size(s, k))
         /\ Copied(s, k) \in Seq(Plain \cup {NL}) /\ Len(Copied(s, k)) = Size(s, k)
         /\ \A i \in 1 .. Size(s, k) : Copied(s, k)[i] = s[i]
  <1>0. PICK m : m = Size(s, k)
    OBVIOUS
  <1>1. m \in 0 .. k /\ Copied(s, k) = SubSeq(s, 1, m) /\ (k > 0 /\ s[k] = EOF => m < k)
    BY <1>0 DEF Copied, Size
  <1>2. \A i \in 1 .. m : s[i] \in Plain \cup {NL}
    <2> TAKE i \in 1 .. m
    <2>1. i \in 1 .. Len(s) /\ s[i] \in Cells
      BY <1>1
    <2>2. CASE i < k
      BY <2>1, <2>2, <1>1 DEF Cells
    <2>3. CASE i >= k
      <3>1. i = k /\ s[k] # EOF
        BY <2>3, <1>1
      <3> QED BY <2>1, <3>1 DEF Cells
    <2> QED BY <2>2, <2>3, <1>1
  <1>3. Len(SubSeq(s, 1, m)) = m /\ \A i \in 1 .. m : SubSeq(s, 1, m)[i] = s[i]
    BY <1>1
  <1>4. SubSeq(s, 1, m) = [i \in 1 .. m |-> s[i]]
    BY <1>1
  <1>5. [i \in 1 .. m |-> s[i]] \in [1 .. m -> Plain \cup {NL}]
    BY <1>2
  <1>6. SubSeq(s, 1, m) \in Seq(Plain \cup {NL})
    BY <1>1, <1>4, <1>5
  <1> QED BY <1>0, <1>1, <1>3, <1>6

-----------------------------------------------------------------------------
(* The inductive invariant of the console *)

ConsNext ==
    \/ \E p \in Readers : Read(p)
    \/ \E p \in Writers : Write(p)
    \/ ConsStep(Chars)

ConsSpec == ConsInit /\ [][ConsNext]_consVars

\* The indices are in order and no further apart than the buffer is long; the line
\* being typed never fills it, and has no end.
InputInv ==
    /\ \E a, l : Placed(a, l)
    /\ \A i \in DOMAIN Slice(w, e) : Slice(w, e)[i] \in Plain

\* Whoever goes on reading wants more and has read no newline.
ReaderInv == \A p \in Readers :
    /\ reader[p] = "user" => got[p] = <<>>
    /\ reader[p] \in {"loop", "sleep"} =>
          Len(got[p]) < want[p] /\ ~Discipline!LineEnded(got[p])
    /\ reader[p] = "sleep" => r = w

\* Whoever is in uartwrite() has tx_lock and a byte to send.
Sending == {"prepare", "look", "put", "sleep"}
WriterInv ==
    /\ txLock = {} \/ \E p \in Writers : txLock = {p}
    /\ \A p \in Writers :
          /\ writer[p] \in Sending <=> p \in txLock
          /\ writer[p] \in Sending => batch[p] > 0 /\ batch[p] <= left[p]
          /\ writer[p] \in {"lock", "locksleep"} => left[p] > 0
          /\ writer[p] = "locksleep" => txLock # {}
          /\ writer[p] = "sleep" /\ p \in txChan => thr > 0 \/ txDone \/ uart = "look"

\* The chip is idle when a character is sent, but for one that the other sender
\* sends between the look at LSR and the write to THR.
Ready == \E p \in Writers : writer[p] = "put"
ChipInv ==
    /\ thr <= 2
    /\ Ready \/ uart = "put" => thr <= 1
    /\ Ready /\ uart = "put" => thr = 0
    /\ uart = "put" => echo > 0

ConsInv == ConsTypeOK /\ InputInv /\ ReaderInv /\ WriterInv /\ ChipInv

LEMMA ConsInitInvariant == ConsInit => ConsInv
  <1> SUFFICES ASSUME ConsInit PROVE ConsInv
    OBVIOUS
  <1>s. /\ 0 \in 0 .. Wrap - 1 /\ 0 \in 0 .. MaxRead /\ 0 \in 0 .. MaxWrite /\ 0 \in 0 .. MaxTyped
        /\ 0 \in 0 .. Batch /\ 0 \in 0 .. Depth /\ 0 \in Nat
    BY ConsSizes
  <1>e. <<>> \in Seq(Plain \cup {NL})
    OBVIOUS
  <1>1. ConsTypeOK
    <2>1. buf \in [0 .. INPUT_BUF_SIZE - 1 -> Plain \cup {NL, EOF}]
      BY DEF ConsInit
    <2>2. {r, w, e} \subseteq 0 .. Wrap - 1
      BY <1>s DEF ConsInit
    <2>3. /\ reader \in [Readers -> {"user", "loop", "sleep", "return"}]
          /\ want \in [Readers -> 0 .. MaxRead]
          /\ got \in [Readers -> Seq(Plain \cup {NL})]
          /\ killed \in [Readers -> BOOLEAN]
      BY <1>s, <1>e DEF ConsInit
    <2>4. /\ writer \in [Writers -> {"user", "lock", "locksleep", "prepare", "look", "put", "sleep"}]
          /\ left \in [Writers -> 0 .. MaxWrite]
          /\ batch \in [Writers -> 0 .. Batch]
          /\ txChan \subseteq Writers
          /\ txLock \subseteq Writers
      BY <1>s DEF ConsInit
    <2>5. /\ thr \in 0 .. Depth
          /\ rhr \in 0 .. MaxTyped
          /\ txDone \in BOOLEAN
          /\ uart \in {"off", "look", "getc", "echo", "put"}
          /\ echo \in Nat
      BY <1>s DEF ConsInit
    <2> QED BY <2>1, <2>2, <2>3, <2>4, <2>5 DEF ConsTypeOK
  <1>2. Placed(0, 0)
    <2>1. 0 % Wrap = 0
      BY <1>s, ConsSizes, ModNear
    <2>2. 0 + 0 = 0 /\ 0 + (0 + 0) = 0
      OBVIOUS
    <2> QED BY <2>1, <2>2, ConsSizes DEF Placed, ConsInit
  <1>3. InputInv
    <2>1. Slice(w, e) = Span(buf, r + 0, 0)
      BY <1>1, <1>2, PlacedFacts DEF ConsTypeOK, InputType, Cells
    <2>2. DOMAIN Slice(w, e) = {}
      BY <2>1 DEF Span
    <2> QED BY <2>2, <1>2 DEF InputInv
  <1>4. ReaderInv
    BY DEF ReaderInv, ConsInit
  <1>5. WriterInv /\ ChipInv
    BY DEF WriterInv, ChipInv, Sending, Ready, ConsInit
  <1> QED BY <1>1, <1>3, <1>4, <1>5 DEF ConsInv

Places(a, l) ==
    /\ Dist(w, r) = a /\ Dist(e, w) = l /\ Dist(e, r) = a + l
    /\ Slice(r, w) = Span(buf, r, a) /\ Slice(w, e) = Span(buf, r + a, l)
    /\ e = w <=> l = 0
    /\ r = w <=> a = 0
    /\ r \in Int /\ w \in Int /\ e \in Int
    /\ r \in 0 .. Wrap - 1 /\ buf \in [0 .. INPUT_BUF_SIZE - 1 -> Cells]

AllPlaces == \A a, l : InputType /\ Placed(a, l) => Places(a, l)

LEMMA PlacesHold == AllPlaces
  <1> SUFFICES ASSUME NEW a, NEW l, InputType, Placed(a, l) PROVE Places(a, l)
    BY DEF AllPlaces
  <1>1. buf \in [0 .. INPUT_BUF_SIZE - 1 -> Cells]
    BY DEF InputType
  <1> QED BY <1>1, PlacedFacts DEF Places

LEMMA PlacesTwice == AllPlaces /\ AllPlaces'
  <1>1. AllPlaces'
    BY PlacesHold, PTL
  <1> QED BY <1>1, PlacesHold

LEMMA ConsSteps ==
  ASSUME ConsNext
  PROVE  \/ \E p \in Readers : ReadLoop(p)
         \/ \E p \in Readers : ReadFaults(p)
         \/ \E p \in Readers : ReadReturn(p) \/ Kill(p) \/ \E n \in 1 .. MaxRead : ReadCall(p, n)
         \/ \E p \in Writers : TxAcquire(p) \/ TxPrepare(p) \/ TxLook(p) \/ TxPut(p) \/ TxWoken(p)
         \/ \E p \in Writers, n \in 1 .. MaxWrite : WriteCall(p, n)
         \/ Typed \/ Transmit \/ UartEnter \/ UartLook \/ UartReturn
         \/ EchoReady \/ EchoPut \/ EchoEnd
         \/ KillChar \/ EraseChar \/ \E c \in Chars : StoreChar(c)
         \/ ListProcs \/ \E c \in Chars : IgnoreChar(c)
  BY Zenon DEF ConsNext, Read, Write, ConsStep, Interrupt

LEMMA Joined ==
  ASSUME NEW S, NEW g \in Seq(S), NEW c \in Seq(S)
  PROVE  /\ g \o c \in Seq(S) /\ Len(g \o c) = Len(g) + Len(c)
         /\ Len(c) > 0 => (g \o c)[Len(g) + Len(c)] = c[Len(c)]
  OBVIOUS

\* One pass of the loop that takes t of the a characters s, of which p gets m.
Reads(p, s, a, k, m, t, now) ==
    /\ k \in 0 .. a /\ k <= want[p] - Len(got[p])
    /\ \A i \in 1 .. k - 1 : s[i] \notin {NL, EOF}
    /\ k = 0 \/ s[k] \notin {NL, EOF} => k = want[p] - Len(got[p]) \/ k = a
    /\ m = Size(s, k)
    /\ t = IF PutBack(p, s, k) THEN k - 1 ELSE k
    /\ m \in 0 .. k /\ t \in 0 .. k
    /\ now = got[p] \o SubSeq(s, 1, m) /\ now \in Seq(Plain \cup {NL})
    /\ Len(now) = Len(got[p]) + m /\ Len(now) <= want[p]
    /\ m > 0 => now[Len(now)] = s[m]
    /\ m = 0 => now = got[p]
    /\ r' = (r + t) % Wrap /\ buf' = Blank(r, t) /\ w' = w /\ e' = e
    /\ got' = [got EXCEPT ![p] = now]
    /\ reader' = [reader EXCEPT ![p] =
          IF (k > 0 /\ s[k] \in {NL, EOF}) \/ Len(now) = want[p] \/ killed[p]
          THEN "return" ELSE "sleep"]

LEMMA ReadTakes ==
  ASSUME InputType, ReadType, ReaderInv, NEW p \in Readers, ReadLoop(p), NEW a, NEW l, Placed(a, l),
         NEW s, s = Slice(r, w)
  PROVE  \E k, m, t, now : Reads(p, s, a, k, m, t, now)
  <1>t. want \in [Readers -> 0 .. MaxRead] /\ got \in [Readers -> Seq(Plain \cup {NL})]
        /\ MaxRead \in Nat
    BY ConsSizes DEF ReadType
  <1>a. a \in Nat /\ s \in Seq(Cells) /\ Len(s) = a
    <2>1. Places(a, l) /\ a \in Nat
      BY PlacesHold DEF AllPlaces, Placed
    <2> QED BY <2>1, SpanIsSeq DEF Places
  <1>n. PICK n : n = want[p] - Len(got[p])
    OBVIOUS
  <1>1. n \in Nat /\ Len(got[p]) + n = want[p] /\ Len(got[p]) \in Nat
    <2>1. Len(got[p]) < want[p] /\ want[p] \in Nat /\ Len(got[p]) \in Nat
      BY <1>t DEF ReadLoop, ReaderInv
    <2> QED BY <2>1, <1>n
  <1>k. PICK k : k = Takes(s, n)
    OBVIOUS
  <1>2. /\ k \in 0 .. a /\ k <= n
        /\ \A i \in 1 .. k - 1 : s[i] \notin {NL, EOF}
        /\ k = 0 \/ s[k] \notin {NL, EOF} => k = n \/ k = a
    BY <1>k, <1>a, <1>1, TakesFacts
  <1>m. PICK m, t, c : /\ m = Size(s, k)
                       /\ t = IF PutBack(p, s, k) THEN k - 1 ELSE k
                       /\ c = Copied(s, k)
    OBVIOUS
  <1>3. m \in 0 .. k /\ c = SubSeq(s, 1, m) /\ c \in Seq(Plain \cup {NL}) /\ Len(c) = m
        /\ \A i \in 1 .. m : c[i] = s[i]
    <2>1. k \in 0 .. Len(s) /\ s \in Seq(Cells)
      BY <1>2, <1>a
    <2>2. c = Copied(s, k) /\ m = Size(s, k)
      BY <1>m
    <2>3. \A i \in 1 .. k - 1 : s[i] \notin {NL, EOF}
      BY <1>2
    <2>4. /\ m \in 0 .. k /\ Copied(s, k) = SubSeq(s, 1, m) /\ Copied(s, k) \in Seq(Plain \cup {NL})
          /\ Len(Copied(s, k)) = m /\ \A i \in 1 .. m : Copied(s, k)[i] = s[i]
      BY <2>1, <2>2, <2>3, CopiedFacts, Zenon
    <2> QED BY <2>2, <2>4, Zenon
  <1>4. t \in 0 .. k
    BY <1>m, <1>2 DEF PutBack
  <1>w. PICK now : now = got[p] \o c
    OBVIOUS
  <1>5. now \in Seq(Plain \cup {NL}) /\ Len(now) = Len(got[p]) + m
        /\ (m > 0 => now[Len(now)] = s[m]) /\ (m = 0 => now = got[p])
    <2>1. got[p] \in Seq(Plain \cup {NL})
      BY <1>t
    <2>2. now \in Seq(Plain \cup {NL}) /\ Len(now) = Len(got[p]) + m
      <3>1. PICK g : g = got[p]
        OBVIOUS
      <3>2. g \in Seq(Plain \cup {NL}) /\ now = g \o c /\ c \in Seq(Plain \cup {NL}) /\ Len(c) = m
        BY <3>1, <2>1, <1>3, <1>w
      <3>3. now \in Seq(Plain \cup {NL}) /\ Len(now) = Len(g) + m
        BY <3>2, Joined
      <3> QED BY <3>1, <3>3
    <2>3. ASSUME m > 0 PROVE now[Len(now)] = s[m]
      <3>1. PICK g : g = got[p]
        OBVIOUS
      <3>2. g \in Seq(Plain \cup {NL}) /\ c \in Seq(Plain \cup {NL}) /\ Len(c) > 0 /\ now = g \o c
        BY <3>1, <2>1, <2>3, <1>3, <1>w
      <3>3. now[Len(g) + Len(c)] = c[Len(c)]
        BY <3>2, Joined
      <3>4. m \in 1 .. m
        BY <2>3, <1>2, <1>3
      <3> QED BY <3>1, <3>3, <3>4, <2>2, <1>3
    <2>4. m = 0 => now = got[p]
      BY <2>1, <1>3, <1>w
    <2> QED BY <2>2, <2>3, <2>4
  <1>6. Len(now) <= want[p]
    BY <1>1, <1>2, <1>3, <1>5
  <1>7. /\ r' = (r + t) % Wrap /\ buf' = Blank(r, t) /\ w' = w /\ e' = e
        /\ got' = [got EXCEPT ![p] = now]
        /\ reader' = [reader EXCEPT ![p] =
              IF (k > 0 /\ s[k] \in {NL, EOF}) \/ Len(now) = want[p] \/ killed[p]
              THEN "return" ELSE "sleep"]
    BY <1>n, <1>k, <1>m, <1>w DEF ReadLoop
  <1>8. Reads(p, s, a, k, m, t, now)
    <2>1. now = got[p] \o SubSeq(s, 1, m)
      BY <1>3, <1>w
    <2>2. /\ k \in 0 .. a /\ k <= want[p] - Len(got[p])
          /\ \A i \in 1 .. k - 1 : s[i] \notin {NL, EOF}
          /\ k = 0 \/ s[k] \notin {NL, EOF} => k = want[p] - Len(got[p]) \/ k = a
      BY <1>2, <1>n
    <2>3. /\ m = Size(s, k)
          /\ t = IF PutBack(p, s, k) THEN k - 1 ELSE k
          /\ m \in 0 .. k
      BY <1>m, <1>3
    <2> QED BY <2>1, <2>2, <2>3, <1>4, <1>5, <1>6, <1>7, Zenon DEF Reads
  <1> QED BY <1>8

-----------------------------------------------------------------------------
(* What the actions do to the input *)

\* The loop of consoleread() takes t characters, and blanks no other.
LEMMA ReadEffect ==
  ASSUME InputType, InputType', NEW a, NEW l, Placed(a, l), NEW t \in 0 .. a,
         r' = (r + t) % Wrap, buf' = Blank(r, t), w' = w, e' = e
  PROVE  /\ Placed(a - t, l)'
         /\ Slice(r, w)' = SubSeq(Slice(r, w), t + 1, a)
         /\ Slice(w, e)' = Slice(w, e)
  <1>1. Places(a, l) /\ a \in Nat /\ l \in Nat /\ a + l <= INPUT_BUF_SIZE /\ l < INPUT_BUF_SIZE
    BY PlacesHold DEF AllPlaces, Placed
  <1>2. r \in Int /\ t \in Int /\ t \in Nat /\ a \in Int /\ l \in Int /\ a - t \in Nat
    BY <1>1 DEF Places
  <1>3. Placed(a - t, l)'
    <2>1. (((r + t) % Wrap) + (a - t)) % Wrap = (r + a) % Wrap
      <3>1. r + t \in Int /\ a - t \in Int /\ (r + t) + (a - t) = r + a
        BY <1>2
      <3>2. (((r + t) % Wrap) + (a - t)) % Wrap = ((r + t) + (a - t)) % Wrap
        BY <3>1, ConsSizes, ModAdd
      <3> QED BY <3>1, <3>2
    <2>2. (((r + t) % Wrap) + ((a - t) + l)) % Wrap = (r + (a + l)) % Wrap
      <3>1. r + t \in Int /\ (a - t) + l \in Int /\ (r + t) + ((a - t) + l) = r + (a + l)
        BY <1>1, <1>2
      <3>2. (((r + t) % Wrap) + ((a - t) + l)) % Wrap = ((r + t) + ((a - t) + l)) % Wrap
        BY <3>1, ConsSizes, ModAdd
      <3> QED BY <3>1, <3>2
    <2>3. (a - t) + l <= INPUT_BUF_SIZE
      BY <1>1, <1>2, ConsSizes
    <2> QED BY <2>1, <2>2, <2>3, <1>1, <1>2 DEF Placed
  <1>4. Places(a - t, l)'
    BY <1>3, PlacesTwice DEF AllPlaces
  <1>5. \A j \in Int : t <= j /\ j < INPUT_BUF_SIZE =>
           buf'[(r + j) % INPUT_BUF_SIZE] = buf[(r + j) % INPUT_BUF_SIZE]
    BY <1>2, BlankKeeps
  <1>6. Slice(r, w)' = SubSeq(Slice(r, w), t + 1, a)
    <2>1. Slice(r, w)' = Span(buf', (r + t) % Wrap, a - t)
      BY <1>4 DEF Places
    <2>2. Span(buf', (r + t) % Wrap, a - t) = Span(buf', r + t, a - t)
      <3>1. r + t \in Int
        BY <1>2
      <3> QED BY <3>1, <1>2, SpanWraps
    <2>3. Span(buf', r + t, a - t) = Span(buf, r + t, a - t)
      <3>1. \A j \in Int : t <= j /\ j < t + (a - t) =>
               buf'[(r + j) % INPUT_BUF_SIZE] = buf[(r + j) % INPUT_BUF_SIZE]
        <4> TAKE j \in Int
        <4> HAVE t <= j /\ j < t + (a - t)
        <4>1. j < INPUT_BUF_SIZE
          BY <1>1, <1>2, ConsSizes
        <4> QED BY <4>1, <1>5
      <3> QED BY <3>1, <1>2, SpanSame
    <2>4. SubSeq(Span(buf, r, a), t + 1, a) = Span(buf, r + t, a - t)
      <3>1. r \in Int /\ a \in Nat /\ t \in 0 .. a
        BY <1>1, <1>2
      <3> QED BY <3>1, SpanTail, Zenon
    <2> QED BY <2>1, <2>2, <2>3, <2>4, <1>1 DEF Places
  <1>7. Slice(w, e)' = Slice(w, e)
    <2>1. Slice(w, e)' = Span(buf', ((r + t) % Wrap) + (a - t), l)
      BY <1>4 DEF Places
    <2>2. Span(buf', ((r + t) % Wrap) + (a - t), l) = Span(buf', r + a, l)
      <3>1. r + t \in Int /\ (r + t) % Wrap \in Int /\ r + a \in Int /\ (r + t) + (a - t) = r + a
            /\ ((r + t) % Wrap) + (a - t) \in Int
        BY <1>2, ConsSizes, Division
      <3>2. Span(buf', (((r + t) % Wrap) + (a - t)) % Wrap, l) = Span(buf', ((r + t) % Wrap) + (a - t), l)
        BY <3>1, <1>1, SpanWraps
      <3>3. Span(buf', (r + a) % Wrap, l) = Span(buf', r + a, l)
        BY <3>1, <1>1, SpanWraps
      <3>4. (((r + t) % Wrap) + (a - t)) % Wrap = ((r + t) + (a - t)) % Wrap
        <4>1. a - t \in Int
          BY <1>2
        <4> QED BY <4>1, <3>1, ConsSizes, ModAdd
      <3> QED BY <3>1, <3>2, <3>3, <3>4
    <2>3. Span(buf', r + a, l) = Span(buf, r + a, l)
      <3>1. \A j \in Int : a <= j /\ j < a + l =>
               buf'[(r + j) % INPUT_BUF_SIZE] = buf[(r + j) % INPUT_BUF_SIZE]
        <4> TAKE j \in Int
        <4> HAVE a <= j /\ j < a + l
        <4>1. j < INPUT_BUF_SIZE /\ t <= j
          BY <1>1, <1>2, ConsSizes
        <4> QED BY <4>1, <1>5
      <3> QED BY <3>1, <1>1, <1>2, SpanSame
    <2> QED BY <2>1, <2>2, <2>3, <1>1 DEF Places
  <1> QED BY <1>3, <1>6, <1>7

\* A change of e and of the cells of the line leaves the entered input.
LEMMA LineEffect ==
  ASSUME InputType, InputType', NEW a, NEW l, Placed(a, l), NEW n \in Nat,
         r' = r, w' = w, e' = (r + (a + n)) % Wrap, a + n <= INPUT_BUF_SIZE, n < INPUT_BUF_SIZE,
         \A j \in Int : 0 <= j /\ j < a /\ j < a + l =>
            buf'[(r + j) % INPUT_BUF_SIZE] = buf[(r + j) % INPUT_BUF_SIZE]
  PROVE  /\ Placed(a, n)'
         /\ Slice(r, w)' = Slice(r, w)
         /\ Slice(w, e)' = Span(buf', r + a, n)
  <1>1. Places(a, l) /\ a \in Nat /\ l \in Nat
    BY PlacesHold DEF AllPlaces, Placed
  <1>2. Placed(a, n)'
    BY DEF Placed
  <1>3. Places(a, n)'
    BY <1>2, PlacesTwice DEF AllPlaces
  <1>4. Span(buf', r, a) = Span(buf, r, a)
    <2>1. \A j \in Int : 0 <= j /\ j < a =>
             buf'[(r + j) % INPUT_BUF_SIZE] = buf[(r + j) % INPUT_BUF_SIZE]
      <3> TAKE j \in Int
      <3> HAVE 0 <= j /\ j < a
      <3>1. j < a + l
        BY <1>1
      <3> QED BY <3>1
    <2>2. r \in Int /\ a \in Nat
      BY <1>1 DEF Places
    <2> QED BY <2>1, <2>2, SpanSameFrom
  <1> QED BY <1>1, <1>2, <1>3, <1>4 DEF Places

\* ^U empties the line.
LEMMA KillEffect ==
  ASSUME InputType, InputType', NEW a, NEW l, Placed(a, l), KillChar
  PROVE  Placed(a, 0)' /\ Slice(r, w)' = Slice(r, w) /\ Slice(w, e)' = <<>>
  <1>1. Places(a, l) /\ a \in Nat /\ l \in Nat /\ a + l <= INPUT_BUF_SIZE /\ l < INPUT_BUF_SIZE
        /\ w = (r + a) % Wrap
    BY PlacesHold DEF AllPlaces, Placed
  <1>2. r \in Int /\ w \in Int /\ a \in Int /\ l \in Int /\ a + 0 = a
    BY <1>1 DEF Places
  <1>3. r' = r /\ w' = w /\ e' = (r + (a + 0)) % Wrap /\ buf' = Blank(w, l)
    BY <1>1, <1>2 DEF KillChar, Places
  <1>4. ASSUME NEW j \in Int, 0 <= j, j < a, j < a + l
        PROVE  buf'[(r + j) % INPUT_BUF_SIZE] = buf[(r + j) % INPUT_BUF_SIZE]
    <2>1. PICK k : k = j - a + INPUT_BUF_SIZE
      OBVIOUS
    <2>2. k \in Int /\ l <= k /\ k < INPUT_BUF_SIZE /\ (r + a) + k = (r + j) + INPUT_BUF_SIZE
          /\ r + a \in Int /\ r + j \in Int
      BY <2>1, <1>1, <1>2, <1>4, ConsSizes
    <2>3. Blank(w, l)[(w + k) % INPUT_BUF_SIZE] = buf[(w + k) % INPUT_BUF_SIZE]
      BY <2>2, <1>1, <1>2, BlankKeeps
    <2>4. (w + k) % INPUT_BUF_SIZE = (r + j) % INPUT_BUF_SIZE
      <3>1. (((r + a) % Wrap) + k) % INPUT_BUF_SIZE = ((r + a) + k) % INPUT_BUF_SIZE
        BY <2>2, CellOf
      <3>2. ((r + j) + INPUT_BUF_SIZE) % INPUT_BUF_SIZE = (r + j) % INPUT_BUF_SIZE
        BY <2>2, ConsSizes, ModTurn
      <3> QED BY <3>1, <3>2, <2>2, <1>1
    <2> QED BY <2>3, <2>4, <1>3
  <1>5. a + 0 <= INPUT_BUF_SIZE /\ 0 < INPUT_BUF_SIZE /\ 0 \in Nat
    BY <1>1, <1>2, ConsSizes
  <1>6. Placed(a, 0)' /\ Slice(r, w)' = Slice(r, w) /\ Slice(w, e)' = Span(buf', r + a, 0)
    BY <1>3, <1>4, <1>5, LineEffect
  <1>7. Span(buf', r + a, 0) = <<>>
    BY DEF Span
  <1> QED BY <1>6, <1>7

\* A backspace takes the last character of the line.
LEMMA EraseEffect ==
  ASSUME InputType, InputType', NEW a, NEW l, Placed(a, l), EraseChar, l # 0
  PROVE  /\ Placed(a, l - 1)' /\ Slice(r, w)' = Slice(r, w)
         /\ Slice(w, e)' = SubSeq(Slice(w, e), 1, l - 1)
  <1>1. Places(a, l) /\ a \in Nat /\ l \in Nat /\ a + l <= INPUT_BUF_SIZE /\ l < INPUT_BUF_SIZE
        /\ e = (r + (a + l)) % Wrap
    BY PlacesHold DEF AllPlaces, Placed
  <1>2. r \in Int /\ w \in Int /\ e \in Int /\ a \in Int /\ l \in Int /\ l - 1 \in Nat /\ e # w
        /\ r + (a + l) \in Int /\ l - 1 \in 0 .. l /\ r + a \in Int
    BY <1>1 DEF Places
  <1>3. r' = r /\ w' = w /\ e' = (e - 1) % Wrap /\ buf' = Blank(e - 1, 1)
    BY <1>2 DEF EraseChar
  <1>4. e' = (r + (a + (l - 1))) % Wrap
    <2>1. (((r + (a + l)) % Wrap) + (-1)) % Wrap = ((r + (a + l)) + (-1)) % Wrap
      <3>1. -1 \in Int
        OBVIOUS
      <3> QED BY <3>1, <1>2, ConsSizes, ModAdd, ZenonT(30)
    <2>2. (r + (a + l)) + (-1) = r + (a + (l - 1)) /\ e + (-1) = e - 1
      BY <1>1, <1>2
    <2> QED BY <2>1, <2>2, <1>1, <1>3
  <1>5. ASSUME NEW j \in Int, 0 <= j, j < a + l - 1
        PROVE  buf'[(r + j) % INPUT_BUF_SIZE] = buf[(r + j) % INPUT_BUF_SIZE]
    <2>1. PICK k : k = j - (a + l - 1) + INPUT_BUF_SIZE
      OBVIOUS
    <2>2. k \in Int /\ 1 <= k /\ k < INPUT_BUF_SIZE /\ k - 1 \in Int
          /\ (r + (a + l)) + (k - 1) = (r + j) + INPUT_BUF_SIZE /\ r + j \in Int
          /\ (e - 1) + k = e + (k - 1) /\ e - 1 \in Int
      BY <2>1, <1>1, <1>2, <1>5, ConsSizes
    <2>3. Blank(e - 1, 1)[((e - 1) + k) % INPUT_BUF_SIZE] = buf[((e - 1) + k) % INPUT_BUF_SIZE]
      <3>1. 1 \in Nat
        OBVIOUS
      <3> QED BY <3>1, <2>2, BlankKeeps
    <2>4. (e + (k - 1)) % INPUT_BUF_SIZE = (r + j) % INPUT_BUF_SIZE
      <3>1. (((r + (a + l)) % Wrap) + (k - 1)) % INPUT_BUF_SIZE
              = ((r + (a + l)) + (k - 1)) % INPUT_BUF_SIZE
        BY <2>2, <1>2, CellOf
      <3>2. ((r + j) + INPUT_BUF_SIZE) % INPUT_BUF_SIZE = (r + j) % INPUT_BUF_SIZE
        BY <2>2, ConsSizes, ModTurn
      <3> QED BY <3>1, <3>2, <2>2, <1>1
    <2> QED BY <2>2, <2>3, <2>4, <1>3
  <1>6. a + (l - 1) <= INPUT_BUF_SIZE /\ l - 1 < INPUT_BUF_SIZE
    BY <1>1, <1>2, ConsSizes
  <1>7. ASSUME NEW j \in Int, 0 <= j, j < a, j < a + l
        PROVE  buf'[(r + j) % INPUT_BUF_SIZE] = buf[(r + j) % INPUT_BUF_SIZE]
    <2>1. j < a + l - 1
      BY <1>1, <1>2, <1>7
    <2> QED BY <2>1, <1>5, <1>7
  <1>8. Placed(a, l - 1)' /\ Slice(r, w)' = Slice(r, w) /\ Slice(w, e)' = Span(buf', r + a, l - 1)
    BY <1>2, <1>3, <1>4, <1>6, <1>7, LineEffect
  <1>9. Span(buf', r + a, l - 1) = Span(buf, r + a, l - 1)
    <2>1. PICK n : n = l - 1
      OBVIOUS
    <2>2. \A j \in Int : a <= j /\ j < a + n =>
             buf'[(r + j) % INPUT_BUF_SIZE] = buf[(r + j) % INPUT_BUF_SIZE]
      <3> TAKE j \in Int
      <3> HAVE a <= j /\ j < a + n
      <3>1. 0 <= j /\ j < a + l - 1
        BY <2>1, <1>1, <1>2
      <3> QED BY <3>1, <1>5
    <2>3. n \in Nat
      BY <2>1, <1>2
    <2>4. Span(buf', r + a, n) = Span(buf, r + a, n)
      BY <2>2, <2>3, <1>2, SpanSame
    <2> QED BY <2>1, <2>4
  <1>10. SubSeq(Span(buf, r + a, l), 1, l - 1) = Span(buf, r + a, l - 1)
    BY <1>1, <1>2, SpanHead, Zenon
  <1> QED BY <1>1, <1>8, <1>9, <1>10 DEF Places

\* A character joins the line, and enters it if it is an end or the last that fits.
LEMMA StoreEffect ==
  ASSUME InputType, InputType', NEW a, NEW l, Placed(a, l), NEW c \in Chars, StoreChar(c),
         NEW d, d = IF c = CR THEN NL ELSE c
  PROVE  /\ d \in Cells /\ a + l < INPUT_BUF_SIZE
         /\ Entered(d) <=> d \in {NL, EOF} \/ a + l + 1 = INPUT_BUF_SIZE
         /\ Entered(d) =>
               /\ Placed(a + l + 1, 0)'
               /\ Slice(r, w)' = Slice(r, w) \o Append(Slice(w, e), d)
               /\ Slice(w, e)' = <<>>
         /\ ~Entered(d) =>
               /\ Placed(a, l + 1)'
               /\ Slice(r, w)' = Slice(r, w) /\ Slice(w, e)' = Append(Slice(w, e), d)
  <1>1. Places(a, l) /\ a \in Nat /\ l \in Nat /\ a + l <= INPUT_BUF_SIZE /\ l < INPUT_BUF_SIZE
        /\ e = (r + (a + l)) % Wrap /\ w = (r + a) % Wrap
    BY PlacesHold DEF AllPlaces, Placed
  <1>2. /\ r \in Int /\ e \in Int /\ a \in Int /\ l \in Int /\ r + (a + l) \in Int /\ r + a \in Int
        /\ l + 1 \in Nat /\ Dist(e, r) = a + l /\ buf \in [0 .. INPUT_BUF_SIZE - 1 -> Cells]
    BY <1>1 DEF Places
  <1>3. d \in Cells /\ a + l < INPUT_BUF_SIZE
    <2>1. c \in Plain \cup {NL, CR, EOF} /\ Dist(e, r) < INPUT_BUF_SIZE
      BY DEF StoreChar, Chars
    <2> QED BY <2>1, <1>2 DEF Cells
  <1>4. Entered(d) <=> d \in {NL, EOF} \/ a + l + 1 = INPUT_BUF_SIZE
    BY <1>2 DEF Entered
  <1>5. /\ r' = r /\ buf' = [buf EXCEPT ![e % INPUT_BUF_SIZE] = d] /\ e' = (e + 1) % Wrap
        /\ w' = IF Entered(d) THEN e' ELSE w
    BY DEF StoreChar
  <1>6. e' = (r + (a + (l + 1))) % Wrap
    <2>1. (((r + (a + l)) % Wrap) + 1) % Wrap = ((r + (a + l)) + 1) % Wrap
      <3>1. 1 \in Int
        OBVIOUS
      <3> QED BY <3>1, <1>2, ConsSizes, ModAdd, ZenonT(30)
    <2>2. (r + (a + l)) + 1 = r + (a + (l + 1))
      BY <1>1, <1>2
    <2> QED BY <2>1, <2>2, <1>1, <1>5
  <1>7. e % INPUT_BUF_SIZE = (r + (a + l)) % INPUT_BUF_SIZE
        /\ e % INPUT_BUF_SIZE \in 0 .. INPUT_BUF_SIZE - 1
    <2>1. ((r + (a + l)) % Wrap) % INPUT_BUF_SIZE = (r + (a + l)) % INPUT_BUF_SIZE
      BY <1>2, ConsSizes, ModMultiple
    <2>2. e % INPUT_BUF_SIZE \in 0 .. INPUT_BUF_SIZE - 1
      BY <1>2, ConsSizes, Division
    <2> QED BY <2>1, <2>2, <1>1
  <1>8. ASSUME NEW j \in Int, 0 <= j, j < a + l
        PROVE  buf'[(r + j) % INPUT_BUF_SIZE] = buf[(r + j) % INPUT_BUF_SIZE]
    <2>1. a + l \in Int /\ (a + l) - j < INPUT_BUF_SIZE
      BY <1>3, <1>2, <1>8, ConsSizes
    <2>2. (r + j) % INPUT_BUF_SIZE # (r + (a + l)) % INPUT_BUF_SIZE
      BY <2>1, <1>2, <1>8, CellsDiffer
    <2> QED BY <2>2, <1>2, <1>5, <1>7
  <1>9. buf'[(r + (a + l)) % INPUT_BUF_SIZE] = d
    BY <1>2, <1>5, <1>7
  <1>10. Span(buf', r + a, l + 1) = Append(Slice(w, e), d)
    <2>1. Span(buf', r + a, l) = Span(buf, r + a, l)
      <3>1. \A j \in Int : a <= j /\ j < a + l =>
               buf'[(r + j) % INPUT_BUF_SIZE] = buf[(r + j) % INPUT_BUF_SIZE]
        <4> TAKE j \in Int
        <4> HAVE a <= j /\ j < a + l
        <4>1. 0 <= j
          BY <1>1
        <4> QED BY <4>1, <1>8
      <3>2. r \in Int /\ a \in Int /\ l \in Nat
        BY <1>1, <1>2
      <3> QED BY <3>1, <3>2, SpanSame
    <2>2. Span(buf', r + a, l + 1)
            = Append(Span(buf', r + a, l), buf'[((r + a) + l) % INPUT_BUF_SIZE])
      BY <1>1, <1>2, SpanAppend, Zenon
    <2>3. (r + a) + l = r + (a + l)
      BY <1>1, <1>2
    <2> QED BY <2>1, <2>2, <2>3, <1>1, <1>9 DEF Places
  <1>11. CASE ~Entered(d)
    <2>1. l + 1 < INPUT_BUF_SIZE /\ a + (l + 1) <= INPUT_BUF_SIZE
      BY <1>1, <1>2, <1>3, <1>4, <1>11, ConsSizes
    <2>2. w' = w /\ \A j \in Int : 0 <= j /\ j < a /\ j < a + l =>
             buf'[(r + j) % INPUT_BUF_SIZE] = buf[(r + j) % INPUT_BUF_SIZE]
      BY <1>5, <1>8, <1>11
    <2>3. /\ Placed(a, l + 1)' /\ Slice(r, w)' = Slice(r, w)
          /\ Slice(w, e)' = Span(buf', r + a, l + 1)
      BY <2>1, <2>2, <1>2, <1>5, <1>6, LineEffect
    <2> QED BY <2>3, <1>3, <1>4, <1>10, <1>11
  <1>12. CASE Entered(d)
    <2>1. a + (l + 1) = a + l + 1 /\ a + l + 1 \in Nat /\ a + l + 1 + 0 = a + l + 1
          /\ a + l + 1 <= INPUT_BUF_SIZE /\ 0 < INPUT_BUF_SIZE
      BY <1>1, <1>2, <1>3, ConsSizes
    <2>2. w' = (r' + (a + l + 1)) % Wrap /\ e' = (r' + (a + l + 1 + 0)) % Wrap
      BY <2>1, <1>5, <1>6, <1>12
    <2>3. Placed(a + l + 1, 0)'
      BY <2>1, <2>2 DEF Placed
    <2>4. Places(a + l + 1, 0)'
      BY <2>3, PlacesTwice DEF AllPlaces
    <2>5. Slice(w, e)' = <<>>
      BY <2>4 DEF Places, Span
    <2>6. Slice(r, w)' = Span(buf', r, a + (l + 1)) /\ buf' \in [0 .. INPUT_BUF_SIZE - 1 -> Cells]
      BY <2>1, <2>4, <1>5 DEF Places
    <2>7. Span(buf', r, a + (l + 1)) = Span(buf', r, a) \o Span(buf', r + a, l + 1)
      BY <2>6, <1>1, <1>2, SpanConcat, ZenonT(30)
    <2>8. Span(buf', r, a) = Span(buf, r, a)
      <3>1. \A j \in Int : 0 <= j /\ j < a =>
               buf'[(r + j) % INPUT_BUF_SIZE] = buf[(r + j) % INPUT_BUF_SIZE]
        <4> TAKE j \in Int
        <4> HAVE 0 <= j /\ j < a
        <4>1. j < a + l
          BY <1>1
        <4> QED BY <4>1, <1>8
      <3> QED BY <3>1, <1>1, <1>2, SpanSameFrom
    <2>9. Slice(r, w)' = Slice(r, w) \o Append(Slice(w, e), d)
      BY <2>6, <2>7, <2>8, <1>1, <1>10 DEF Places
    <2> QED BY <2>3, <2>5, <2>9, <1>3, <1>4, <1>12
  <1> QED BY <1>11, <1>12

-----------------------------------------------------------------------------
(* Writers, the chip and the handler *)

InputSide == InputType /\ ReadType /\ InputInv /\ ReaderInv
WriterSide == WriteType /\ ChipType /\ WriterInv /\ ChipInv

LEMMA Sides == ConsInv <=> InputSide /\ WriterSide
  <1>1. ASSUME thr <= 2 PROVE thr \in 0 .. Depth <=> thr \in Nat
    BY <1>1, ConsSizes
  <1>2. thr <= 2 => (ConsTypeOK <=> InputType /\ ReadType /\ WriteType /\ ChipType)
    BY <1>1, Zenon DEF ConsTypeOK, InputType, ReadType, WriteType, ChipType, Cells
  <1> QED BY <1>2 DEF ConsInv, InputSide, WriterSide, ChipInv

LEMMA WritersLeft ==
  ASSUME WriterSide, UNCHANGED <<writeVars, chipVars, uartVars>> PROVE WriterSide'
  BY DEF WriterSide, WriteType, ChipType, WriterInv, ChipInv, Ready, writeVars, chipVars,
     uartVars

\* The steps of a writer.
LEMMA AcquireStep ==
  ASSUME WriterSide, NEW p \in Writers, TxAcquire(p) PROVE WriterSide'
  <1>t. WriteType /\ ChipType /\ WriterInv /\ ChipInv
    BY DEF WriterSide
  <1>u. UNCHANGED <<left, txChan, thr, rhr, txDone, uart, echo>> /\ writer[p] = "lock"
    BY DEF TxAcquire, At, chipVars, uartVars
  <1>1. ChipType'
    BY <1>t, <1>u DEF ChipType
  <1>2. CASE txLock = {}
    <2>1. writer' = [writer EXCEPT ![p] = "prepare"] /\ txLock' = {p}
          /\ batch' = [batch EXCEPT ![p] = Min2(Batch, left[p])]
      BY <1>2 DEF TxAcquire, Go
    <2>2. left[p] > 0 /\ left[p] \in 0 .. MaxWrite
      BY <1>t, <1>u DEF WriterInv, WriteType
    <2>3. Min2(Batch, left[p]) \in 1 .. Batch /\ Min2(Batch, left[p]) <= left[p]
      BY <2>2, ConsSizes DEF Min2
    <2> HIDE DEF Min2
    <2>4. WriteType'
      BY <2>1, <2>3, <1>t, <1>u DEF WriteType
    <2>5. WriterInv'
      <3>1. \A q \in Writers \ {p} : writer'[q] = writer[q] /\ batch'[q] = batch[q]
        BY <2>1, <1>t DEF WriteType
      <3>2. writer'[p] = "prepare" /\ batch'[p] \in 1 .. Batch /\ batch'[p] <= left[p]
        BY <2>1, <2>3, <1>t DEF WriteType
      <3>3. \A q \in Writers \ {p} : q \notin txLock' /\ writer[q] \notin Sending
        BY <2>1, <1>2, <1>t DEF WriterInv
      <3> QED BY <3>1, <3>2, <3>3, <2>1, <1>t, <1>u DEF WriterInv, Sending
    <2>6. ChipInv'
      <3>1. Ready' => Ready
        BY <2>1, <1>t DEF Ready, WriteType
      <3> QED BY <3>1, <1>t, <1>u DEF ChipInv
    <2> QED BY <2>4, <2>5, <2>6, <1>1 DEF WriterSide
  <1>3. CASE txLock # {}
    <2>1. writer' = [writer EXCEPT ![p] = "locksleep"] /\ UNCHANGED <<txLock, batch>>
      BY <1>3 DEF TxAcquire, Go
    <2>2. WriteType'
      BY <2>1, <1>t, <1>u DEF WriteType
    <2>3. WriterInv'
      BY <2>1, <1>3, <1>t, <1>u DEF WriterInv, WriteType, Sending
    <2>4. ChipInv'
      BY <2>1, <1>t, <1>u DEF ChipInv, Ready, WriteType
    <2> QED BY <2>2, <2>3, <2>4, <1>1 DEF WriterSide
  <1> QED BY <1>2, <1>3

LEMMA LookStep ==
  ASSUME WriterSide, NEW p \in Writers, TxPrepare(p) \/ TxLook(p) \/ TxWoken(p) PROVE WriterSide'
  <1>t. WriteType /\ ChipType /\ WriterInv /\ ChipInv
    BY DEF WriterSide
  <1>u. UNCHANGED <<left, batch, txLock, thr, rhr, txDone, uart, echo>>
        /\ txChan' \in {txChan, txChan \cup {p}}
        /\ writer[p] \in Sending /\ \E to \in Sending : writer' = [writer EXCEPT ![p] = to]
    BY DEF TxPrepare, TxLook, TxWoken, At, Go, Sending, chipVars, uartVars
  <1>1. ChipType'
    BY <1>t, <1>u DEF ChipType
  <1>2. WriteType'
    BY <1>t, <1>u DEF WriteType, Sending
  <1>3. /\ \A q \in Writers \ {p} : writer'[q] = writer[q] /\ (q \in txChan' <=> q \in txChan)
        /\ writer'[p] \in Sending
    BY <1>t, <1>u DEF WriteType
  <1>4. /\ writer'[p] = "sleep" => thr > 0
        /\ writer'[p] = "put" => thr = 0
    <2>1. CASE TxPrepare(p) \/ TxWoken(p)
      BY <2>1, <1>t DEF TxPrepare, TxWoken, Go, WriteType
    <2>2. CASE TxLook(p)
      BY <2>2, <1>t DEF TxLook, Go, WriteType, ChipType
    <2> QED BY <2>1, <2>2
  <1>5. WriterInv'
    BY <1>3, <1>4, <1>t, <1>u DEF WriterInv, Sending
  <1>6. ChipInv'
    <2>1. Ready' => Ready \/ thr = 0
      BY <1>3, <1>4 DEF Ready
    <2> QED BY <2>1, <1>t, <1>u DEF ChipInv, ChipType
  <1> QED BY <1>1, <1>2, <1>5, <1>6 DEF WriterSide

LEMMA PutStep ==
  ASSUME WriterSide, NEW p \in Writers, TxPut(p) PROVE WriterSide'
  <1>t. WriteType /\ ChipType /\ WriterInv /\ ChipInv
    BY DEF WriterSide
  <1>u. /\ UNCHANGED <<txChan, rhr, uart, echo>> /\ thr' = thr + 1 /\ txDone' = FALSE
        /\ writer[p] = "put" /\ left' = [left EXCEPT ![p] = @ - 1]
        /\ batch' = [batch EXCEPT ![p] = @ - 1]
    BY DEF TxPut, At, Send, uartVars
  <1>0. txLock = {p} /\ batch[p] > 0 /\ batch[p] <= left[p] /\ left[p] \in 0 .. MaxWrite
        /\ batch[p] \in 0 .. Batch
    BY <1>t, <1>u DEF WriterInv, Sending, WriteType
  <1>1. ChipType'
    <2>1. thr + 1 \in Nat /\ FALSE \in BOOLEAN
      BY <1>t DEF ChipType
    <2> QED BY <2>1, <1>t, <1>u, Zenon DEF ChipType
  <1>2. \A q \in Writers \ {p} : writer[q] \notin Sending
    BY <1>0, <1>t DEF WriterInv
  <1>3. /\ left'[p] = left[p] - 1 /\ batch'[p] = batch[p] - 1
        /\ \A q \in Writers \ {p} : left'[q] = left[q]
    BY <1>t, <1>u DEF WriteType
  <1>4. left' \in [Writers -> 0 .. MaxWrite] /\ batch' \in [Writers -> 0 .. Batch]
    <2>1. left[p] - 1 \in 0 .. MaxWrite /\ batch[p] - 1 \in 0 .. Batch
      BY <1>0, ConsSizes
    <2> QED BY <2>1, <1>t, <1>u DEF WriteType
  <1>5. ASSUME ~Ready' PROVE ChipInv'
    <2>1. thr <= 1 /\ (uart = "put" => thr = 0) /\ thr \in Nat
      BY <1>t, <1>u DEF ChipInv, Ready, ChipType
    <2> QED BY <2>1, <1>5, <1>t, <1>u DEF ChipInv
  <1>p. thr' > 0
    BY <1>t, <1>u DEF ChipType
  <1>6. CASE batch[p] > 1
    <2>1. writer' = [writer EXCEPT ![p] = "prepare"] /\ txLock' = txLock
      BY <1>6 DEF TxPut, Go
    <2>2. WriteType'
      BY <2>1, <1>4, <1>t, <1>u DEF WriteType
    <2>3. writer'[p] = "prepare" /\ \A q \in Writers \ {p} : writer'[q] = writer[q]
      BY <2>1, <1>t DEF WriteType
    <2>4. batch'[p] > 0 /\ batch'[p] <= left'[p]
      BY <1>3, <1>0, <1>6
    <2>5. WriterInv'
      BY <2>1, <2>3, <2>4, <1>0, <1>2, <1>3, <1>p, <1>t DEF WriterInv, Sending
    <2>6. ~Ready'
      BY <2>3, <1>2 DEF Ready, Sending
    <2> QED BY <2>2, <2>5, <2>6, <1>1, <1>5 DEF WriterSide
  <1>7. CASE ~(batch[p] > 1)
    <2>1. txLock' = {} /\ writer' = [q \in Writers |->
                  IF q = p THEN (IF left[p] > 1 THEN "lock" ELSE "user")
                  ELSE IF writer[q] = "locksleep" THEN "lock" ELSE writer[q]]
      BY <1>7 DEF TxPut
    <2>2. writer' \in [Writers -> {"user", "lock", "locksleep", "prepare", "look", "put", "sleep"}]
      BY <2>1, <1>t DEF WriteType
    <2>3. WriteType'
      BY <2>1, <2>2, <1>4, <1>t, <1>u DEF WriteType
    <2>4. /\ writer'[p] \in {"lock", "user"} /\ (writer'[p] = "lock" => left'[p] > 0)
          /\ \A q \in Writers \ {p} :
                writer'[q] = (IF writer[q] = "locksleep" THEN "lock" ELSE writer[q])
      BY <2>1, <1>0, <1>3
    <2>5. \A q \in Writers : writer'[q] \notin Sending /\ writer'[q] # "locksleep"
                             /\ (writer'[q] = "lock" => left'[q] > 0)
      BY <2>4, <1>2, <1>3, <1>t DEF Sending, WriterInv
    <2>6. WriterInv'
      BY <2>1, <2>5 DEF WriterInv, Sending
    <2>7. ~Ready'
      BY <2>5 DEF Ready, Sending
    <2> QED BY <2>3, <2>6, <2>7, <1>1, <1>5 DEF WriterSide
  <1> QED BY <1>6, <1>7

LEMMA WriteCallStep ==
  ASSUME WriterSide, NEW p \in Writers, NEW n \in 1 .. MaxWrite, WriteCall(p, n) PROVE WriterSide'
  <1>t. WriteType /\ ChipType /\ WriterInv /\ ChipInv
    BY DEF WriterSide
  <1>u. /\ UNCHANGED <<batch, txChan, txLock, thr, rhr, txDone, uart, echo>>
        /\ writer[p] = "user" /\ writer' = [writer EXCEPT ![p] = "lock"]
        /\ left' = [left EXCEPT ![p] = n]
    BY DEF WriteCall, At, Go, chipVars, uartVars
  <1>1. n \in 0 .. MaxWrite /\ n > 0
    BY ConsSizes
  <1>2. WriteType' /\ ChipType'
    BY <1>t, <1>u, <1>1 DEF WriteType, ChipType
  <1>3. WriterInv'
    BY <1>t, <1>u, <1>1 DEF WriterInv, WriteType, Sending
  <1>4. ChipInv'
    BY <1>t, <1>u DEF ChipInv, Ready, WriteType
  <1> QED BY <1>2, <1>3, <1>4 DEF WriterSide

\* The chip and the handler.
LEMMA ChipStep ==
  ASSUME WriterSide, \/ Typed \/ Transmit \/ UartEnter \/ UartLook \/ UartReturn
                     \/ EchoReady \/ EchoPut \/ EchoEnd
  PROVE  WriterSide'
  <1>t. WriteType /\ ChipType /\ WriterInv /\ ChipInv
    BY DEF WriterSide
  <1>u. UNCHANGED <<writer, left, batch, txLock>> /\ (txChan' = txChan \/ txChan' = {})
    BY DEF Typed, Transmit, UartEnter, UartLook, UartReturn, EchoReady, EchoPut, EchoEnd,
       writeVars
  <1>1. WriteType'
    BY <1>t, <1>u DEF WriteType
  <1>2. Ready' <=> Ready
    BY <1>u DEF Ready
  <1>3. ASSUME thr > 0 \/ txDone \/ uart = "look"
        PROVE  txChan' = {} \/ thr' > 0 \/ txDone' \/ uart' = "look"
    <2>1. CASE Transmit
      <3>1. thr' = thr - 1 /\ txDone' = (thr = 1) /\ thr > 0 /\ thr \in Nat
        BY <2>1, <1>t DEF Transmit, ChipType
      <3>2. thr = 1 \/ thr' > 0
        BY <3>1
      <3>3. thr = 1 => txDone'
        BY <3>1
      <3> QED BY <3>2, <3>3
    <2>2. CASE UartEnter \/ UartLook
      BY <2>2, <1>3, <1>t DEF UartEnter, UartLook, ChipType, chipVars
    <2>3. CASE Typed \/ UartReturn \/ EchoReady \/ EchoEnd
      BY <2>3, <1>3 DEF Typed, UartReturn, EchoReady, EchoEnd, chipVars, uartVars
    <2>4. CASE EchoPut
      BY <2>4, <1>t DEF EchoPut, Send, ChipType
    <2> QED BY <2>1, <2>2, <2>3, <2>4
  <1>4. WriterInv'
    BY <1>t, <1>u, <1>3 DEF WriterInv
  <1>5. CASE Typed
    BY <1>5, <1>1, <1>2, <1>4, <1>t, ConsSizes DEF Typed, ChipType, ChipInv, WriterSide,
       uartVars
  <1>6. CASE Transmit
    BY <1>6, <1>1, <1>2, <1>4, <1>t DEF Transmit, ChipType, ChipInv, WriterSide, uartVars
  <1>7. CASE UartEnter \/ UartLook \/ UartReturn \/ EchoEnd
    BY <1>7, <1>1, <1>2, <1>4, <1>t
       DEF UartEnter, UartLook, UartReturn, EchoEnd, ChipType, ChipInv, WriterSide, chipVars
  <1>8. CASE EchoReady
    BY <1>8, <1>1, <1>2, <1>4, <1>t DEF EchoReady, ChipType, ChipInv, WriterSide, chipVars
  <1>9. CASE EchoPut
    <2>1. /\ thr' = thr + 1 /\ txDone' = FALSE /\ rhr' = rhr /\ uart = "put" /\ uart' = "echo"
          /\ echo' = echo - 1
      BY <1>9 DEF EchoPut, Send
    <2>2. thr + 1 \in Nat /\ FALSE \in BOOLEAN /\ echo - 1 \in Nat
      BY <2>1, <1>t DEF ChipType, ChipInv
    <2>3. ChipType'
      BY <2>1, <2>2, <1>t, Zenon DEF ChipType
    <2>4. ChipInv'
      BY <2>1, <1>2, <1>t DEF ChipType, ChipInv
    <2> QED BY <2>3, <2>4, <1>1, <1>4 DEF WriterSide
  <1> QED BY <1>5, <1>6, <1>7, <1>8, <1>9

LEMMA HandleStep ==
  ASSUME WriterSide, NEW c, NEW n \in Nat, Handle(c, n) PROVE WriterSide'
  <1>t. WriteType /\ ChipType /\ WriterInv /\ ChipInv
    BY DEF WriterSide
  <1>u. /\ UNCHANGED <<writer, left, batch, txChan, txLock, thr, txDone>> /\ uart = "getc"
        /\ rhr > 0 /\ rhr' = rhr - 1 /\ uart' = "echo" /\ echo' = n
    BY DEF Handle, writeVars
  <1>1. WriteType' /\ ChipType'
    <2>1. rhr - 1 \in 0 .. MaxTyped
      BY <1>t, <1>u, ConsSizes DEF ChipType
    <2>2. ChipType'
      BY <2>1, <1>t, <1>u DEF ChipType
    <2> QED BY <2>2, <1>t, <1>u DEF WriteType
  <1>2. WriterInv'
    BY <1>t, <1>u DEF WriterInv
  <1>3. ChipInv'
    BY <1>t, <1>u DEF ChipInv, Ready
  <1> QED BY <1>1, <1>2, <1>3 DEF WriterSide

-----------------------------------------------------------------------------
(* Readers and the input: each step is a step of LineDiscipline *)

inputOf == <<Slice(r, w), Slice(w, e), got>>
Disciplined == [Discipline!Next]_inputOf

LEMMA BlankType ==
  ASSUME InputType, NEW f \in Int, NEW n \in Int
  PROVE  Blank(f, n) \in [0 .. INPUT_BUF_SIZE - 1 -> Cells]
  BY DEF Blank, InputType, Cells

LEMMA InputLeft ==
  ASSUME InputSide, UNCHANGED <<inputVars, readVars>> PROVE InputSide' /\ Disciplined
  <1>1. UNCHANGED <<buf, r, w, e, reader, want, got, killed>>
    BY DEF inputVars, readVars
  <1>2. Slice(r, w)' = Slice(r, w) /\ Slice(w, e)' = Slice(w, e)
    BY <1>1 DEF Slice, Dist
  <1>3. \A a, l : Placed(a, l)' <=> Placed(a, l)
    BY <1>1 DEF Placed
  <1>4. InputInv' <=> InputInv
    BY <1>2, <1>3 DEF InputInv
  <1>5. InputType' /\ ReadType' /\ ReaderInv'
    BY <1>1 DEF InputSide, InputType, ReadType, ReaderInv
  <1> QED BY <1>1, <1>2, <1>4, <1>5 DEF InputSide, Disciplined, inputOf

\* A call, a return and kkill() leave the input.
LEMMA CallStep ==
  ASSUME InputSide, NEW p \in Readers,
         ReadReturn(p) \/ Kill(p) \/ \E n \in 1 .. MaxRead : ReadCall(p, n)
  PROVE  InputSide' /\ Disciplined
  <1>t. InputType /\ ReadType /\ InputInv /\ ReaderInv
    BY DEF InputSide
  <1>1. UNCHANGED <<buf, r, w, e>>
    BY DEF ReadReturn, Kill, ReadCall, inputVars
  <1>2. Slice(r, w)' = Slice(r, w) /\ Slice(w, e)' = Slice(w, e)
    BY <1>1 DEF Slice, Dist
  <1>3. \A a, l : Placed(a, l)' <=> Placed(a, l)
    BY <1>1 DEF Placed
  <1>4. InputInv' /\ InputType'
    BY <1>1, <1>2, <1>3, <1>t DEF InputInv, InputType
  <1>5. CASE ReadReturn(p)
    <2>1. /\ reader' = [reader EXCEPT ![p] = "user"] /\ want' = [want EXCEPT ![p] = 0]
          /\ got' = [got EXCEPT ![p] = <<>>] /\ killed' = [killed EXCEPT ![p] = FALSE]
      BY <1>5 DEF ReadReturn
    <2>2. <<>> \in Seq(Plain \cup {NL}) /\ 0 \in 0 .. MaxRead
      BY ConsSizes
    <2>3. ReadType'
      BY <2>1, <2>2, <1>t DEF ReadType
    <2>4. ReaderInv'
      BY <2>1, <1>1, <1>t DEF ReaderInv, ReadType
    <2>5. Discipline!NewRead(p)
      BY <2>1, <1>2 DEF Discipline!NewRead
    <2> QED BY <2>3, <2>4, <2>5, <1>4 DEF InputSide, Disciplined, Discipline!Next
  <1>6. CASE Kill(p)
    <2>1. /\ reader' = [reader EXCEPT ![p] = IF @ = "sleep" THEN "loop" ELSE @]
          /\ reader[p] \in {"loop", "sleep"}
          /\ killed' = [killed EXCEPT ![p] = TRUE] /\ UNCHANGED <<want, got>>
      BY <1>6 DEF Kill
    <2>2. reader'[p] = "loop" /\ \A q \in Readers \ {p} : reader'[q] = reader[q]
      BY <2>1, <1>t DEF ReadType
    <2>3. ReadType'
      BY <2>1, <1>t DEF ReadType
    <2>4. ReaderInv'
      BY <2>1, <2>2, <1>1, <1>t DEF ReaderInv
    <2> QED BY <2>1, <2>3, <2>4, <1>2, <1>4 DEF InputSide, Disciplined, inputOf
  <1>7. ASSUME NEW n \in 1 .. MaxRead, ReadCall(p, n) PROVE InputSide' /\ Disciplined
    <2>1. /\ reader[p] = "user" /\ reader' = [reader EXCEPT ![p] = "loop"]
          /\ want' = [want EXCEPT ![p] = n] /\ UNCHANGED <<got, killed>>
      BY <1>7 DEF ReadCall
    <2>2. n \in 0 .. MaxRead /\ n > 0
      BY ConsSizes
    <2>3. ReadType'
      BY <2>1, <2>2, <1>t DEF ReadType
    <2>4. got[p] = <<>> /\ Len(<<>>) = 0 /\ ~Discipline!LineEnded(<<>>)
      BY <2>1, <1>t DEF ReaderInv, Discipline!LineEnded
    <2>5. ReaderInv'
      BY <2>1, <2>2, <2>4, <1>1, <1>t DEF ReaderInv, ReadType
    <2> QED BY <2>1, <2>3, <2>5, <1>2, <1>4 DEF InputSide, Disciplined, inputOf
  <1> QED BY <1>5, <1>6, <1>7

\* A pass of the loop of consoleread().
LEMMA LoopStep ==
  ASSUME InputSide, NEW p \in Readers, ReadLoop(p) PROVE InputSide' /\ Disciplined
  <1>t. InputType /\ ReadType /\ InputInv /\ ReaderInv
    BY DEF InputSide
  <1>p. PICK a, l : Placed(a, l)
    BY <1>t DEF InputInv
  <1>s. PICK s, line : s = Slice(r, w) /\ line = Slice(w, e)
    OBVIOUS
  <1>k. PICK k, m, t, now : Reads(p, s, a, k, m, t, now)
    BY <1>t, <1>p, <1>s, ReadTakes
  <1>u. UNCHANGED <<want, killed>> /\ reader[p] = "loop"
    BY DEF ReadLoop
  <1>0. Places(a, l) /\ a \in Nat /\ a \in Int
    BY <1>t, <1>p, PlacesHold DEF AllPlaces, Placed
  <1>a. s \in Seq(Cells) /\ Len(s) = a
    BY <1>0, <1>s, SpanIsSeq DEF Places
  <1>1. /\ k \in 0 .. a /\ k <= want[p] - Len(got[p])
        /\ \A i \in 1 .. k - 1 : s[i] \notin {NL, EOF}
        /\ k = 0 \/ s[k] \notin {NL, EOF} => k = want[p] - Len(got[p]) \/ k = a
        /\ m = Size(s, k)
        /\ t = IF PutBack(p, s, k) THEN k - 1 ELSE k
        /\ m \in 0 .. k /\ t \in 0 .. k
    BY <1>k DEF Reads
  <1>2. /\ now = got[p] \o SubSeq(s, 1, m) /\ now \in Seq(Plain \cup {NL})
        /\ Len(now) = Len(got[p]) + m /\ Len(now) <= want[p]
        /\ m > 0 => now[Len(now)] = s[m]
        /\ m = 0 => now = got[p]
    BY <1>k DEF Reads
  <1>3. /\ r' = (r + t) % Wrap /\ buf' = Blank(r, t) /\ w' = w /\ e' = e
        /\ got' = [got EXCEPT ![p] = now]
        /\ reader' = [reader EXCEPT ![p] =
              IF (k > 0 /\ s[k] \in {NL, EOF}) \/ Len(now) = want[p] \/ killed[p]
              THEN "return" ELSE "sleep"]
    BY <1>k DEF Reads
  <1>4. t \in 0 .. a /\ t \in Int /\ r \in Int
    BY <1>0, <1>1 DEF Places
  <1>5. InputType'
    <2>1. r' \in 0 .. Wrap - 1
      <3>1. r + t \in Int
        BY <1>4
      <3> QED BY <3>1, <1>3, ConsSizes, Division
    <2> QED BY <2>1, <1>3, <1>4, <1>t, BlankType DEF InputType
  <1>6. ReadType'
    BY <1>2, <1>3, <1>u, <1>t DEF ReadType
  <1>7. Placed(a - t, l)' /\ Slice(r, w)' = SubSeq(s, t + 1, a) /\ Slice(w, e)' = line
    BY <1>3, <1>4, <1>5, <1>p, <1>s, <1>t, ReadEffect
  <1>8. InputInv'
    BY <1>7, <1>s, <1>t DEF InputInv
  <1>9. r' = w' <=> a - t = 0
    BY <1>5, <1>7, PlacesTwice DEF AllPlaces, Places
  <1>10. Len(got[p]) < want[p] /\ Len(got[p]) \in Nat /\ want[p] \in Nat
         /\ ~Discipline!LineEnded(got[p])
    BY <1>u, <1>t DEF ReaderInv, ReadType
  <1>11. ASSUME reader'[p] # "return"
         PROVE  Len(now) < want[p] /\ ~Discipline!LineEnded(now) /\ r' = w'
    <2>1. ~(k > 0 /\ s[k] \in {NL, EOF}) /\ Len(now) # want[p]
      BY <1>3, <1>11, <1>t DEF ReadType
    <2>2. k = 0 \/ s[k] \notin {NL, EOF}
      BY <2>1, <1>1
    <2>3. m = k /\ t = k
      BY <2>2, <1>1 DEF Size, PutBack
    <2>4. k = a
      BY <2>1, <2>2, <2>3, <1>1, <1>2, <1>10
    <2>5. ~Discipline!LineEnded(now)
      <3>1. CASE k = 0
        BY <3>1, <2>3, <1>2, <1>10
      <3>2. CASE k # 0
        <4>1. m > 0 /\ s[m] # NL
          BY <3>2, <2>2, <2>3, <1>1
        <4>2. now[Len(now)] # NL
          BY <4>1, <1>2
        <4> QED BY <4>2 DEF Discipline!LineEnded
      <3> QED BY <3>1, <3>2
    <2>6. Len(now) < want[p]
      BY <2>1, <1>2, <1>10
    <2> QED BY <2>3, <2>4, <2>5, <2>6, <1>0, <1>9
  <1>12. ReaderInv'
    <2>1. reader'[p] \in {"return", "sleep"} /\ got'[p] = now
      BY <1>3, <1>t DEF ReadType
    <2>2. \A q \in Readers \ {p} : reader'[q] = reader[q] /\ got'[q] = got[q]
      BY <1>3, <1>t DEF ReadType
    <2>3. r = w => r' = w'
      BY <1>0, <1>4, <1>9 DEF Places
    <2> QED BY <2>1, <2>2, <2>3, <1>11, <1>u, <1>t DEF ReaderInv
  <1>13. Disciplined
    <2>1. CASE t = 0
      <3>1. m = 0
        BY <2>1, <1>1 DEF PutBack, Size
      <3>2. got' = got
        BY <3>1, <1>2, <1>3, <1>t DEF ReadType
      <3>3. SubSeq(s, 0 + 1, a) = s
        BY <1>a
      <3> QED BY <3>2, <3>3, <2>1, <1>7, <1>s DEF Disciplined, inputOf
    <2>2. CASE t # 0
      <3>1. t \in 1 .. Len(s) /\ k > 0
        BY <2>2, <1>1, <1>4, <1>a
      <3>2. \A i \in 1 .. t - 1 : s[i] \notin {NL, EOF}
        BY <1>1, <1>4
      <3>3. IF s[t] = EOF THEN got[p] = <<>> /\ t = 1 /\ got' = got
            ELSE got' = [got EXCEPT ![p] = @ \o SubSeq(s, 1, t)]
        <4>1. CASE s[k] # EOF
          <5>1. t = k /\ m = k
            BY <4>1, <3>1, <1>1 DEF PutBack, Size
          <5> QED BY <5>1, <4>1, <1>2, <1>3
        <4>2. CASE s[k] = EOF /\ PutBack(p, s, k)
          <5>1. t = k - 1 /\ m = k - 1 /\ t \in 1 .. k - 1
            BY <4>2, <3>1, <2>2, <1>1 DEF Size
          <5>2. s[t] # EOF
            BY <5>1, <1>1
          <5> QED BY <5>1, <5>2, <1>2, <1>3
        <4>3. CASE s[k] = EOF /\ ~PutBack(p, s, k)
          <5>1. k = 1 /\ got[p] = <<>> /\ t = 1 /\ m = 0
            BY <4>3, <3>1, <1>1 DEF PutBack, Size
          <5>2. got' = got
            BY <5>1, <1>2, <1>3, <1>t DEF ReadType
          <5> QED BY <5>1, <5>2, <4>3
        <4> QED BY <4>1, <4>2, <4>3
      <3>4. Discipline!Read(p, t)
        BY <3>2, <3>3, <1>7, <1>10, <1>a, <1>s DEF Discipline!Read
      <3> QED BY <3>1, <3>4, <1>s DEF Disciplined, Discipline!Next
    <2> QED BY <2>1, <2>2
  <1> QED BY <1>5, <1>6, <1>8, <1>12, <1>13 DEF InputSide

\* A pass of which a copy fails takes k of the a characters s, none of them a ^D and
\* none but the last an end, and delivers all but the last.
Faulting(p, s, a, k, now) ==
    /\ k \in 1 .. a
    /\ \A i \in 1 .. k : s[i] # EOF /\ (i < k => s[i] # NL)
    /\ now = got[p] \o SubSeq(s, 1, k - 1)
    /\ now \in Seq(Plain \cup {NL})
    /\ r' = (r + k) % Wrap /\ buf' = Blank(r, k) /\ w' = w /\ e' = e
    /\ got' = [got EXCEPT ![p] = now]
    /\ reader' = [reader EXCEPT ![p] = "return"]

LEMMA FaultTakes ==
  ASSUME InputType, ReadType, ReaderInv, NEW p \in Readers, ReadFaults(p), NEW a, NEW l, Placed(a, l),
         NEW s, s = Slice(r, w)
  PROVE  \E k, now : Faulting(p, s, a, k, now)
  <1>t. want \in [Readers -> 0 .. MaxRead] /\ got \in [Readers -> Seq(Plain \cup {NL})]
        /\ MaxRead \in Nat
    BY ConsSizes DEF ReadType
  <1>a. a \in Nat /\ s \in Seq(Cells) /\ Len(s) = a
    <2>1. Places(a, l) /\ a \in Nat
      BY PlacesHold DEF AllPlaces, Placed
    <2> QED BY <2>1, SpanIsSeq DEF Places
  <1>n. PICK n : n = want[p] - Len(got[p])
    OBVIOUS
  <1>1. n \in Nat
    <2>1. Len(got[p]) < want[p] /\ want[p] \in Nat /\ Len(got[p]) \in Nat
      BY <1>t DEF ReadFaults, ReaderInv
    <2> QED BY <2>1, <1>n
  <1>m. PICK m : m = Takes(s, n)
    OBVIOUS
  <1>2. m \in 0 .. a /\ \A i \in 1 .. m - 1 : s[i] \notin {NL, EOF}
    BY <1>m, <1>a, <1>1, TakesFacts
  <1>k. PICK k \in 1 .. m : /\ s[k] # EOF
                            /\ r' = (r + k) % Wrap /\ buf' = Blank(r, k)
                            /\ got' = [got EXCEPT ![p] = @ \o SubSeq(s, 1, k - 1)]
    BY <1>n, <1>m DEF ReadFaults
  <1>3. k \in 1 .. a /\ \A i \in 1 .. k : s[i] # EOF /\ (i < k => s[i] # NL)
    BY <1>2, <1>k, <1>a
  <1>4. got[p] \o SubSeq(s, 1, k - 1) \in Seq(Plain \cup {NL})
    <2>1. k - 1 \in 0 .. Len(s) /\ \A i \in 1 .. (k - 1) - 1 : s[i] \notin {NL, EOF}
      BY <1>3, <1>a
    <2>2. Copied(s, k - 1) \in Seq(Plain \cup {NL})
      BY <2>1, <1>a, CopiedFacts
    <2>3. Copied(s, k - 1) = SubSeq(s, 1, k - 1)
      <3>1. ~(k - 1 > 0 /\ s[k - 1] = EOF)
        BY <1>3, <1>a
      <3> QED BY <3>1 DEF Copied
    <2>4. got[p] \in Seq(Plain \cup {NL})
      BY <1>t
    <2> QED BY <2>2, <2>3, <2>4, Joined
  <1>5. w' = w /\ e' = e /\ reader' = [reader EXCEPT ![p] = "return"]
    BY DEF ReadFaults
  <1>6. Faulting(p, s, a, k, got[p] \o SubSeq(s, 1, k - 1))
    BY <1>3, <1>4, <1>5, <1>k, Zenon DEF Faulting
  <1> QED BY <1>6

LEMMA FaultStep ==
  ASSUME InputSide, NEW p \in Readers, ReadFaults(p) PROVE InputSide' /\ Disciplined
  <1>t. InputType /\ ReadType /\ InputInv /\ ReaderInv
    BY DEF InputSide
  <1>p. PICK a, l : Placed(a, l)
    BY <1>t DEF InputInv
  <1>s. PICK s, line : s = Slice(r, w) /\ line = Slice(w, e)
    OBVIOUS
  <1>k. PICK k, now : Faulting(p, s, a, k, now)
    BY <1>t, <1>p, <1>s, FaultTakes
  <1>u. UNCHANGED <<want, killed>> /\ reader[p] = "loop"
    BY DEF ReadFaults
  <1>0. Places(a, l) /\ a \in Nat /\ a \in Int
    BY <1>t, <1>p, PlacesHold DEF AllPlaces, Placed
  <1>a. s \in Seq(Cells) /\ Len(s) = a
    BY <1>0, <1>s, SpanIsSeq DEF Places
  <1>1. /\ k \in 1 .. a
        /\ \A i \in 1 .. k : s[i] # EOF /\ (i < k => s[i] # NL)
        /\ now = got[p] \o SubSeq(s, 1, k - 1)
        /\ now \in Seq(Plain \cup {NL})
    BY <1>k DEF Faulting
  <1>2. /\ r' = (r + k) % Wrap /\ buf' = Blank(r, k) /\ w' = w /\ e' = e
        /\ got' = [got EXCEPT ![p] = now]
        /\ reader' = [reader EXCEPT ![p] = "return"]
    BY <1>k DEF Faulting
  <1>3. k \in 0 .. a /\ k \in Int /\ r \in Int
    BY <1>0, <1>1 DEF Places
  <1>4. InputType'
    <2>1. r' \in 0 .. Wrap - 1
      <3>1. r + k \in Int
        BY <1>3
      <3> QED BY <3>1, <1>2, ConsSizes, Division
    <2> QED BY <2>1, <1>2, <1>3, <1>t, BlankType DEF InputType
  <1>5. ReadType'
    BY <1>1, <1>2, <1>u, <1>t DEF ReadType
  <1>6. Placed(a - k, l)' /\ Slice(r, w)' = SubSeq(s, k + 1, a) /\ Slice(w, e)' = line
    BY <1>2, <1>3, <1>4, <1>p, <1>s, <1>t, ReadEffect
  <1>7. InputInv'
    BY <1>6, <1>s, <1>t DEF InputInv
  <1>8. ReaderInv'
    <2>1. reader'[p] = "return"
      BY <1>2, <1>t DEF ReadType
    <2>2. \A q \in Readers \ {p} : reader'[q] = reader[q] /\ got'[q] = got[q]
      BY <1>2, <1>t DEF ReadType
    <2>3. r # w
      BY <1>0, <1>1 DEF Places
    <2> QED BY <2>1, <2>2, <2>3, <1>u, <1>t DEF ReaderInv
  <1>9. Disciplined
    <2>1. ~Discipline!LineEnded(got[p])
      BY <1>u, <1>t DEF ReaderInv
    <2>2. got' = [got EXCEPT ![p] = @ \o SubSeq(s, 1, k - 1)]
      BY <1>1, <1>2
    <2>3. Discipline!Lose(p, k)
      BY <2>1, <2>2, <1>1, <1>6, <1>a, <1>s DEF Discipline!Lose
    <2> QED BY <2>3, <1>1, <1>a, <1>s DEF Disciplined, Discipline!Next
  <1> QED BY <1>4, <1>5, <1>7, <1>8, <1>9 DEF InputSide

\* What is typed.
LEMMA EditStep ==
  ASSUME InputSide, KillChar \/ EraseChar \/ \E c \in Chars : StoreChar(c)
  PROVE  InputSide' /\ Disciplined
  <1>t. InputType /\ ReadType /\ InputInv /\ ReaderInv
    BY DEF InputSide
  <1>p. PICK a, l : Placed(a, l)
    BY <1>t DEF InputInv
  <1>s. PICK s, line : s = Slice(r, w) /\ line = Slice(w, e)
    OBVIOUS
  <1>0. Places(a, l) /\ a \in Nat /\ l \in Nat /\ a + l <= INPUT_BUF_SIZE
    BY <1>t, <1>p, PlacesHold DEF AllPlaces, Placed
  <1>a. /\ s \in Seq(Cells) /\ Len(s) = a /\ line \in Seq(Cells) /\ Len(line) = l
        /\ \A i \in 1 .. l : line[i] \in Plain
    <2>1. r \in Int /\ r + a \in Int
      BY <1>0 DEF Places
    <2>2. /\ s \in Seq(Cells) /\ Len(s) = a /\ line \in Seq(Cells) /\ Len(line) = l
      BY <2>1, <1>0, <1>s, SpanIsSeq DEF Places
    <2>3. \A i \in DOMAIN line : line[i] \in Plain
      BY <1>s, <1>t DEF InputInv
    <2> QED BY <2>2, <2>3
  <1>1. /\ r \in Int /\ w \in Int /\ e \in Int /\ Dist(e, w) = l /\ Dist(e, r) = a + l
        /\ e = w <=> l = 0
    BY <1>0 DEF Places
  <1>2. UNCHANGED <<r, want, got, killed>>
    BY DEF KillChar, EraseChar, StoreChar, readVars
  <1>3. ASSUME UNCHANGED <<w, reader>>, e' \in 0 .. Wrap - 1, buf' \in [0 .. INPUT_BUF_SIZE - 1 -> Cells]
        PROVE  InputType' /\ ReadType' /\ ReaderInv'
    BY <1>2, <1>3, <1>t DEF InputType, ReadType, ReaderInv
  <1>4. CASE KillChar
    <2>1. buf' = Blank(w, l) /\ e' = w /\ UNCHANGED <<w, reader>>
      BY <1>1, <1>4 DEF KillChar, readVars
    <2>2. InputType' /\ ReadType' /\ ReaderInv'
      BY <2>1, <1>0, <1>1, <1>3, <1>t, BlankType DEF InputType
    <2>3. Placed(a, 0)' /\ Slice(r, w)' = s /\ Slice(w, e)' = <<>>
      BY <2>2, <1>4, <1>p, <1>s, <1>t, KillEffect
    <2>4. InputInv'
      BY <2>3 DEF InputInv
    <2>5. Discipline!KillLine
      BY <2>3, <1>2, <1>s DEF Discipline!KillLine
    <2> QED BY <2>2, <2>4, <2>5, <1>t DEF InputSide, Disciplined, Discipline!Next
  <1>5. CASE EraseChar /\ l = 0
    <2>1. UNCHANGED <<inputVars, readVars>>
      BY <1>1, <1>5 DEF EraseChar, inputVars
    <2> QED BY <2>1, InputLeft
  <1>6. CASE EraseChar /\ l # 0
    <2>1. buf' = Blank(e - 1, 1) /\ e' = (e - 1) % Wrap /\ UNCHANGED <<w, reader>>
      BY <1>1, <1>6 DEF EraseChar, readVars
    <2>2. e - 1 \in Int /\ 1 \in Int /\ (e - 1) % Wrap \in 0 .. Wrap - 1
      <3>1. e - 1 \in Int /\ 1 \in Int
        BY <1>1
      <3> QED BY <3>1, ConsSizes, Division
    <2>3. InputType' /\ ReadType' /\ ReaderInv'
      BY <2>1, <2>2, <1>3, <1>t, BlankType
    <2>4. Placed(a, l - 1)' /\ Slice(r, w)' = s /\ Slice(w, e)' = SubSeq(line, 1, l - 1)
      BY <2>3, <1>6, <1>p, <1>s, <1>t, EraseEffect
    <2>5. InputInv'
      <3>1. \A i \in DOMAIN SubSeq(line, 1, l - 1) : SubSeq(line, 1, l - 1)[i] \in Plain
        BY <1>0, <1>6, <1>a
      <3> QED BY <3>1, <2>4 DEF InputInv
    <2>6. Discipline!Erase
      <3>1. line # <<>>
        BY <1>6, <1>a
      <3> QED BY <3>1, <2>4, <1>2, <1>a, <1>s DEF Discipline!Erase
    <2> QED BY <2>3, <2>5, <2>6 DEF InputSide, Disciplined, Discipline!Next
  <1>7. ASSUME NEW c \in Chars, StoreChar(c) PROVE InputSide' /\ Disciplined
    <2>d. PICK d : d = IF c = CR THEN NL ELSE c
      OBVIOUS
    <2>1. /\ buf' = [buf EXCEPT ![e % INPUT_BUF_SIZE] = d] /\ e' = (e + 1) % Wrap
          /\ w' = (IF Entered(d) THEN e' ELSE w)
          /\ reader' = IF Entered(d)
                       THEN [p \in Readers |-> IF reader[p] = "sleep" THEN "loop" ELSE reader[p]]
                       ELSE reader
      BY <1>7, <2>d DEF StoreChar
    <2>2. d \in Cells
      BY <1>7, <2>d DEF StoreChar, Chars, Cells
    <2>3. InputType'
      <3>1. e + 1 \in Int
        BY <1>1
      <3>2. (e + 1) % Wrap \in 0 .. Wrap - 1
        BY <3>1, ConsSizes, Division
      <3> QED BY <3>2, <2>1, <2>2, <1>2, <1>t DEF InputType
    <2>4. /\ a + l < INPUT_BUF_SIZE
          /\ Entered(d) <=> d \in {NL, EOF} \/ a + l + 1 = INPUT_BUF_SIZE
          /\ Entered(d) =>
                /\ Placed(a + l + 1, 0)'
                /\ Slice(r, w)' = s \o Append(line, d)
                /\ Slice(w, e)' = <<>>
          /\ ~Entered(d) =>
                /\ Placed(a, l + 1)'
                /\ Slice(r, w)' = s /\ Slice(w, e)' = Append(line, d)
      BY <2>3, <2>d, <1>7, <1>p, <1>s, <1>t, StoreEffect
    <2>5. ReadType'
      BY <2>1, <1>2, <1>t DEF ReadType
    <2>6. ReaderInv'
      <3>1. CASE ~Entered(d)
        BY <3>1, <2>1, <1>2, <1>t DEF ReaderInv
      <3>2. CASE Entered(d)
        <4>1. \A p \in Readers : reader'[p] = IF reader[p] = "sleep" THEN "loop" ELSE reader[p]
          BY <3>2, <2>1
        <4>2. \A p \in Readers : reader'[p] # "sleep"
          BY <4>1
        <4> QED BY <4>1, <4>2, <1>2, <1>t DEF ReaderInv
      <3> QED BY <3>1, <3>2
    <2>7. InputInv'
      <3>1. CASE Entered(d)
        BY <3>1, <2>4 DEF InputInv
      <3>2. CASE ~Entered(d)
        <4>1. d \in Plain
          BY <3>2, <2>2, <2>4 DEF Cells
        <4>2. \A i \in DOMAIN Append(line, d) : Append(line, d)[i] \in Plain
          BY <4>1, <1>a
        <4> QED BY <4>2, <3>2, <2>4 DEF InputInv
      <3> QED BY <3>1, <3>2
    <2>8. Discipline!Type(d)
      BY <2>4, <1>2, <1>a, <1>s DEF Discipline!Type
    <2>9. Disciplined
      BY <2>2, <2>8 DEF Cells, Disciplined, Discipline!Next
    <2> QED BY <2>3, <2>5, <2>6, <2>7, <2>9 DEF InputSide
  <1> QED BY <1>4, <1>5, <1>6, <1>7

-----------------------------------------------------------------------------
(* The console *)

LEMMA ConsStepInvariant == ASSUME ConsInv, ConsNext PROVE ConsInv' /\ Disciplined
  <1>t. InputSide /\ WriterSide
    BY Sides
  <1>p. (ConsInv <=> InputSide /\ WriterSide)'
    BY Sides, PTL
  <1>1. ASSUME InputSide', WriterSide' PROVE ConsInv'
    BY <1>1, <1>p
  <1>2. ASSUME NEW p \in Readers, \/ ReadLoop(p) \/ ReadFaults(p) \/ ReadReturn(p) \/ Kill(p)
                                  \/ \E n \in 1 .. MaxRead : ReadCall(p, n)
        PROVE  ConsInv' /\ Disciplined
    <2>1. UNCHANGED <<writeVars, chipVars, uartVars>>
      BY <1>2 DEF ReadLoop, ReadFaults, ReadReturn, Kill, ReadCall
    <2>2. WriterSide'
      BY <2>1, <1>t, WritersLeft
    <2>3. InputSide' /\ Disciplined
      BY <1>2, <1>t, LoopStep, FaultStep, CallStep
    <2> QED BY <2>2, <2>3, <1>1
  <1>3. ASSUME UNCHANGED <<inputVars, readVars>>, WriterSide' PROVE ConsInv' /\ Disciplined
    BY <1>3, <1>1, <1>t, InputLeft
  <1>4. ASSUME NEW p \in Writers, \/ TxAcquire(p) \/ TxPrepare(p) \/ TxLook(p) \/ TxPut(p)
                                  \/ TxWoken(p) \/ \E n \in 1 .. MaxWrite : WriteCall(p, n)
        PROVE  ConsInv' /\ Disciplined
    <2>1. UNCHANGED <<inputVars, readVars>>
      BY <1>4 DEF TxAcquire, TxPrepare, TxLook, TxPut, TxWoken, WriteCall
    <2>2. WriterSide'
      BY <1>4, <1>t, AcquireStep, LookStep, PutStep, WriteCallStep
    <2> QED BY <2>1, <2>2, <1>3
  <1>5. ASSUME \/ Typed \/ Transmit \/ UartEnter \/ UartLook \/ UartReturn
               \/ EchoReady \/ EchoPut \/ EchoEnd
        PROVE  ConsInv' /\ Disciplined
    <2>1. UNCHANGED <<inputVars, readVars>>
      BY <1>5 DEF Typed, Transmit, UartEnter, UartLook, UartReturn, EchoReady, EchoPut, EchoEnd
    <2>2. WriterSide'
      BY <1>5, <1>t, ChipStep
    <2> QED BY <2>1, <2>2, <1>3
  <1>6. ASSUME KillChar \/ EraseChar \/ \E c \in Chars : StoreChar(c)
        PROVE  ConsInv' /\ Disciplined
    <2>0. Dist(e, w) \in Nat /\ 0 \in Nat /\ 1 \in Nat
      <3>1. PICK a, l : Placed(a, l)
        BY <1>t DEF InputSide, InputInv
      <3>2. Dist(e, w) = l /\ l \in Nat
        BY <3>1, <1>t, PlacesHold DEF InputSide, AllPlaces, Places, Placed
      <3> QED BY <3>2
    <2>1. \E c : \E n \in Nat : Handle(c, n)
      BY <1>6, <2>0 DEF KillChar, EraseChar, StoreChar
    <2>2. WriterSide'
      BY <2>1, <1>t, HandleStep
    <2>3. InputSide' /\ Disciplined
      BY <1>6, <1>t, EditStep
    <2> QED BY <2>2, <2>3, <1>1
  <1>7. ASSUME ListProcs \/ \E c \in Chars : IgnoreChar(c) PROVE ConsInv' /\ Disciplined
    <2>1. UNCHANGED <<inputVars, readVars>> /\ \E c : \E n \in {0, 1} : Handle(c, n)
      BY <1>7 DEF ListProcs, IgnoreChar
    <2>2. WriterSide'
      BY <2>1, <1>t, HandleStep
    <2> QED BY <2>1, <2>2, <1>3
  <1> QED BY ConsSteps, <1>2, <1>4, <1>5, <1>6, <1>7

LEMMA ConsStutter == ASSUME ConsInv, UNCHANGED consVars PROVE ConsInv' /\ Disciplined
  <1>1. UNCHANGED <<inputVars, readVars>> /\ UNCHANGED <<writeVars, chipVars, uartVars>>
    BY DEF consVars
  <1>2. InputSide' /\ Disciplined /\ WriterSide'
    BY <1>1, Sides, InputLeft, WritersLeft
  <1>3. (ConsInv <=> InputSide /\ WriterSide)'
    BY Sides, PTL
  <1> QED BY <1>2, <1>3

\* The inductive invariant of the console holds, for every buffer, FIFO and width of
\* the indices, and every number of readers and writers at once.
THEOREM ConsInvariant == ConsSpec => []ConsInv
  <1>1. ConsInv /\ [ConsNext]_consVars => ConsInv'
    BY ConsStepInvariant, ConsStutter
  <1> QED BY <1>1, ConsInitInvariant, PTL DEF ConsSpec

LEMMA ConsServes == ConsInv => ConsoleSleeperIsOwed
  <1> SUFFICES ASSUME ConsInv PROVE ConsoleSleeperIsOwed
    OBVIOUS
  <1>1. InputSide /\ WriterSide
    BY Sides
  <1>2. ASSUME NEW p \in Readers, reader[p] = "sleep" PROVE r = w /\ Dist(e, r) < INPUT_BUF_SIZE
    <2>1. r = w
      BY <1>1, <1>2 DEF InputSide, ReaderInv
    <2>2. PICK a, l : Placed(a, l)
      BY <1>1 DEF InputSide, InputInv
    <2>3. (r = w <=> a = 0) /\ Dist(e, r) = a + l /\ l \in Nat /\ l < INPUT_BUF_SIZE
      BY <2>2, <1>1, PlacesHold DEF InputSide, AllPlaces, Places, Placed
    <2> QED BY <2>1, <2>3
  <1>3. ASSUME NEW p \in Writers
        PROVE  /\ At(p, "sleep") /\ p \in txChan => thr > 0 \/ txDone \/ uart = "look"
               /\ At(p, "locksleep") => txLock # {}
    BY <1>1 DEF WriterSide, WriterInv, At
  <1> QED BY <1>2, <1>3 DEF ConsoleSleeperIsOwed

\* Readers get the entered input in order, at most a line or an end-of-file at a time,
\* and only the current line can be edited (console.c:96-135, 151-187).
THEOREM ConsoleDisciplined == ConsSpec => ReadsEnteredLines
  <1>1. ConsInit => Discipline!Init
    <2> SUFFICES ASSUME ConsInit PROVE Discipline!Init
      OBVIOUS
    <2>1. ConsInv
      BY ConsInitInvariant
    <2>2. InputSide
      BY <2>1, Sides
    <2>3. PICK a, l : Placed(a, l)
      BY <2>2 DEF InputSide, InputInv
    <2>4. Places(a, l)
      BY <2>2, <2>3, PlacesHold DEF InputSide, AllPlaces
    <2>5. a = 0 /\ l = 0
      BY <2>4 DEF Places, ConsInit
    <2>6. Slice(r, w) = <<>> /\ Slice(w, e) = <<>>
      BY <2>4, <2>5 DEF Places, Span
    <2> QED BY <2>6 DEF Discipline!Init, ConsInit
  <1>2. ConsInv /\ [ConsNext]_consVars => Disciplined
    BY ConsStepInvariant, ConsStutter
  <1> QED BY <1>1, <1>2, ConsInvariant, PTL
       DEF ConsSpec, ReadsEnteredLines, Discipline!Spec, Disciplined, inputOf

-----------------------------------------------------------------------------
(* The two devices *)

LEMMA DevicesAreStores == Spec => CacheSpec /\ ConsSpec
  <1>1. Init => CacheInit /\ ConsInit
    BY DEF Init
  <1>2. ASSUME [Next]_vars PROVE [CacheNext]_storeVars /\ [ConsNext]_consVars
    <2>1. CASE UNCHANGED vars
      BY <2>1 DEF vars
    <2>2. CASE CacheNext /\ UNCHANGED consVars
      BY <2>2
    <2>3. CASE /\ UNCHANGED storeVars
               /\ \/ \E p \in Readers : Read(p)
                  \/ \E p \in Writers : Write(p)
                  \/ ConsStep(Chars) \/ ConsStep(EchoChars)
      <3>1. ConsStep(EchoChars) => ConsStep(Chars)
        BY DevicesAssumption DEF ConsStep, Interrupt
      <3> QED BY <2>3, <3>1 DEF ConsNext
    <2>4. CASE Operate
      BY <2>2, <2>3, <2>4 DEF Operate
    <2>5. CASE Panicked \/ Panic
      BY <2>5 DEF Panicked, Panic, vars
    <2> QED BY <1>2, <2>1, <2>4, <2>5 DEF Next
  <1> QED BY <1>1, <1>2, PTL DEF Spec, CacheSpec, ConsSpec

\* The types of both devices hold; the chip's FIFO never overflows.
THEOREM DevicesTypeCorrect == Spec => []TypeOK
  <1> DEFINE RestOK ==
        busy \in {"disk", "read", "write"} /\ area \subseteq Blocks /\ panicked \in BOOLEAN
  <1>1. Init => RestOK
    BY DEF Init
  <1>2. RestOK /\ [Next]_vars => RestOK'
    BY DEF Next, Operate, Panic, Panicked, vars
  <1>3. ConsInv => ConsTypeOK
    BY DEF ConsInv
  <1>4. CacheTypeOK /\ ConsTypeOK /\ RestOK => TypeOK
    BY DEF TypeOK
  <1> HIDE DEF RestOK
  <1> QED BY <1>1, <1>2, <1>3, <1>4, DevicesAreStores, StoreTypeCorrect, ConsInvariant, PTL DEF
     Spec

\* Both devices serve everybody who waits for them (sleeplock.c:25-30,
\* virtio_disk.c:228-236, 287-292, 307-331, console.c:99-108, uart.c:86-92, 141-146).
THEOREM DevicesServeAll == Spec => []DevicesServe
  <1>1. StoreSleeperIsOwed /\ ConsoleSleeperIsOwed => DevicesServe
    BY DEF DevicesServe
  <1> QED BY <1>1, DevicesAreStores, StoreServes, ConsServes, ConsInvariant, PTL

\* Whatever the console does and whenever the kernel panics, bget() runs out of
\* buffers only when each is in use or pinned (bio.c:60-88, 114-151).
THEOREM DevicesLeakNothing == Spec => []PanicsOnlyWhenFull
  BY DevicesAreStores, CacheLeaksNothing, PTL

\* With whatever the console does, the cache implements BlockStore (bio.c:3-16).
THEOREM DevicesCoherent == Spec => CoherentBlocks
  BY DevicesAreStores, CacheCoherent, PTL

\* With whatever the disk does, the console implements LineDiscipline
\* (console.c:96-135, 151-187).
THEOREM DevicesDisciplined == Spec => ReadsEnteredLines
  BY DevicesAreStores, ConsoleDisciplined, PTL
=============================================================================
