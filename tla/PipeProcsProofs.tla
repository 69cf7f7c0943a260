--------------------------- MODULE PipeProcsProofs ---------------------------
(***************************************************************************)
(* The safety properties of PipeProcs, and that the pipe implements        *)
(* BoundedFifo, proved for every number of processes, every size of the    *)
(* pipe and of its counters, and every length of a write.                  *)
(***************************************************************************)
EXTENDS PipeProcs, NumberProofs, FiniteSetTheorems, TLAPS

-----------------------------------------------------------------------------
(* The ring of the pipe *)

\* The counters wrap at a multiple of the size.
LEMMA WrapMod == ASSUME NEW a \in Int PROVE (a % Wrap) % PIPESIZE = a % PIPESIZE
  <1>1. Wrap \in Nat \ {0} /\ PIPESIZE \in Nat \ {0} /\ Wrap % PIPESIZE = 0
    BY PipeAssumption
  <1> QED BY <1>1, ModMultiple

\* A sequence is the function on its positions.
LEMMA SeqIsFunction ==
  ASSUME NEW S, NEW s \in Seq(S) PROVE s = [i \in 1 .. Len(s) |-> s[i]]
  OBVIOUS

\* How far the counters are apart.
LEMMA CountFacts ==
  ASSUME PipeTypeOK
  PROVE  /\ Count \in 0 .. Wrap - 1
         /\ nread \in Nat /\ nwrite \in Nat
         /\ nwrite = (nread + Count) % Wrap
         /\ Empty <=> Count = 0
         /\ Full <=> Count = PIPESIZE
  <1>1. /\ Wrap \in Nat \ {0} /\ PIPESIZE \in 1 .. Wrap - 1
        /\ nread \in 0 .. Wrap - 1 /\ nwrite \in 0 .. Wrap - 1
    BY PipeAssumption DEF PipeTypeOK
  <1>2. Count = IF nwrite >= nread THEN nwrite - nread ELSE nwrite - nread + Wrap
    <2>1. nwrite - nread \in Int
      BY <1>1
    <2>2. CASE nwrite >= nread
      <3>1. nwrite - nread \in 0 .. Wrap - 1
        BY <1>1, <2>2
      <3> QED BY <3>1, <2>1, <2>2, <1>1, ModNear DEF Count
    <2>3. CASE nwrite < nread
      <3>1. nwrite - nread < 0 /\ nwrite - nread >= -Wrap
        BY <1>1, <2>3
      <3>2. Count = nwrite - nread + Wrap
        BY <3>1, <2>1, <1>1, ModNear DEF Count
      <3> QED BY <3>2, <2>3, <1>1
    <2> QED BY <2>2, <2>3, <1>1
  <1>3. Count \in 0 .. Wrap - 1
    BY <1>1, <1>2
  <1>4. ASSUME NEW c \in 0 .. Wrap - 1
        PROVE  (nread + c) % Wrap = IF nread + c < Wrap THEN nread + c ELSE nread + c - Wrap
    <2>1. nread + c \in Int
      BY <1>1
    <2>2. CASE nread + c < Wrap
      <3>1. nread + c \in 0 .. Wrap - 1
        BY <1>1, <2>2
      <3> QED BY <3>1, <2>1, <2>2, <1>1, ModNear
    <2>3. CASE nread + c >= Wrap
      <3>1. nread + c < Wrap + Wrap
        BY <1>1
      <3> DEFINE x == nread + c
      <3>2. x \in Int /\ x >= Wrap /\ x < Wrap + Wrap
        BY <3>1, <2>1, <2>3
      <3> HIDE DEF x
      <3>3. x % Wrap = x - Wrap
        BY <3>2, <1>1, ModNear
      <3>4. x = nread + c /\ c \in Int
        BY <1>1 DEF x
      <3>5. (nread + c) % Wrap = (nread + c) - Wrap
        BY <3>3, <3>4, Zenon
      <3> QED BY <3>5, <2>3, <1>1
    <2> QED BY <2>2, <2>3, <1>1
  <1>5. nwrite = (nread + Count) % Wrap
    BY <1>1, <1>2, <1>3, <1>4
  <1>6. Empty <=> Count = 0
    BY <1>1, <1>2 DEF Empty
  <1>7. Full <=> Count = PIPESIZE
    BY <1>1, <1>2, <1>4 DEF Full
  <1> QED BY <1>1, <1>3, <1>5, <1>6, <1>7

\* The next byte goes into the cell behind the last one.
LEMMA WriteCell ==
  ASSUME PipeTypeOK
  PROVE  nwrite % PIPESIZE = (nread + Count) % PIPESIZE /\ nwrite % PIPESIZE \in Index
  <1>1. PIPESIZE \in Nat \ {0} /\ nread + Count \in Int
    BY CountFacts, PipeAssumption
  <1>2. nwrite % PIPESIZE = (nread + Count) % PIPESIZE
    BY <1>1, CountFacts, WrapMod
  <1> QED BY <1>1, <1>2, Division DEF Index

\* Content is a sequence as long as the counters are apart.
LEMMA ContentLength ==
  ASSUME PipeTypeOK
  PROVE  Content = [i \in 1 .. Count |-> Content[i]] /\ DOMAIN Content = 1 .. Count
         /\ Len(Content) = Count /\ Content \in Seq(Bytes \cup {NoByte})
  <1>1. \A i \in 1 .. Count : data[(nread + i - 1) % PIPESIZE] \in Bytes \cup {NoByte}
    <2> TAKE i \in 1 .. Count
    <2>1. nread + i - 1 \in Int /\ PIPESIZE \in Nat \ {0}
      BY CountFacts, PipeAssumption
    <2>2. (nread + i - 1) % PIPESIZE \in Index
      BY <2>1, Division DEF Index
    <2> QED BY <2>2 DEF PipeTypeOK
  <1>2. Count \in Nat
    BY CountFacts, PipeAssumption
  <1>3. Content \in [1 .. Count -> Bytes \cup {NoByte}]
    BY <1>1 DEF Content
  <1> QED BY <1>2, <1>3 DEF Content

\* Put appends a byte to the content, however the counters wrap.
LEMMA PutContent ==
  ASSUME PipeTypeOK, Count < PIPESIZE, NEW b \in Bytes, Put(b)
  PROVE  Count' = Count + 1 /\ Content' = Append(Content, b) /\ PipeTypeOK'
  <1>1. /\ Wrap \in Nat \ {0} /\ PIPESIZE \in Nat \ {0} /\ PIPESIZE < Wrap
        /\ nread \in 0 .. Wrap - 1 /\ Count \in 0 .. PIPESIZE - 1
    BY CountFacts, PipeAssumption DEF PipeTypeOK
  <1>2. /\ data' = [data EXCEPT ![nwrite % PIPESIZE] = b]
        /\ nwrite' = (nwrite + 1) % Wrap /\ nread' = nread
        /\ UNCHANGED <<readopen, writeopen, ref>>
    BY DEF Put
  <1>3. PipeTypeOK'
    <2>1. nwrite + 1 \in Int
      BY CountFacts
    <2>2. nwrite' \in 0 .. Wrap - 1
      BY <1>1, <1>2, <2>1, Division
    <2>3. data' \in [Index -> Bytes \cup {NoByte}]
      BY <1>2 DEF PipeTypeOK
    <2> QED BY <1>2, <2>2, <2>3 DEF PipeTypeOK
  <1>4. Count' = Count + 1
    <2>1. CASE nwrite + 1 < Wrap
      <3>1. nwrite + 1 \in 0 .. Wrap - 1
        BY <1>1, <2>1, CountFacts
      <3>2. nwrite' = nwrite + 1
        BY <1>1, <1>2, <3>1, ModNear
      <3>3. nwrite - nread \in Int /\ nwrite + 1 - nread \in Int
        BY <1>1, CountFacts
      <3>4. CASE nwrite >= nread
        <4>1. nwrite - nread \in 0 .. Wrap - 1
          BY <3>4, <1>1, CountFacts DEF PipeTypeOK
        <4>2. Count = nwrite - nread
          BY <4>1, <1>1, <3>3, ModNear DEF Count
        <4>3. nwrite + 1 - nread \in 0 .. Wrap - 1
          BY <4>2, <1>1, CountFacts
        <4>4. (nwrite + 1 - nread) % Wrap = nwrite + 1 - nread
          BY <4>3, <1>1, <3>3, ModNear
        <4> QED BY <4>2, <4>4, <3>2, <1>1, <1>2, CountFacts DEF Count
      <3>5. CASE nwrite < nread
        <4>1. nwrite - nread < 0 /\ nwrite - nread >= -Wrap
          BY <3>5, <1>1, CountFacts
        <4>2. Count = nwrite - nread + Wrap
          BY <4>1, <1>1, <3>3, ModNear DEF Count
        <4>3. nwrite + 1 - nread < 0 /\ nwrite + 1 - nread >= -Wrap
          BY <4>1, <4>2, <1>1, CountFacts
        <4>4. (nwrite + 1 - nread) % Wrap = nwrite + 1 - nread + Wrap
          BY <4>3, <1>1, <3>3, ModNear
        <4> QED BY <4>2, <4>4, <3>2, <1>1, <1>2, CountFacts DEF Count
      <3> QED BY <3>4, <3>5, <1>1, CountFacts
    <2>2. CASE nwrite + 1 >= Wrap
      <3>1. nwrite = Wrap - 1 /\ nwrite + 1 - Wrap = 0
        BY <2>2, <1>1 DEF PipeTypeOK
      <3>2. nwrite' = 0
        BY <1>1, <1>2, <3>1, ModNear
      <3>3. nwrite - nread \in 0 .. Wrap - 1
        BY <3>1, <1>1
      <3>4. Count = nwrite - nread
        <4>1. nwrite - nread \in Int
          BY <3>1, <1>1
        <4> QED BY <4>1, <3>3, <1>1, ModNear DEF Count
      <3>5. 0 - nread < 0 /\ 0 - nread >= -Wrap
        BY <3>1, <3>4, <1>1
      <3>6. 0 - nread \in Int
        BY <1>1
      <3>7. (0 - nread) % Wrap = 0 - nread + Wrap
        BY <3>5, <3>6, <1>1, ModNear
      <3> QED BY <3>1, <3>2, <3>4, <3>7, <1>1, <1>2 DEF Count
    <2> QED BY <2>1, <2>2, <1>1, CountFacts
  <1>5. ASSUME NEW i \in 1 .. Count + 1 PROVE Content'[i] = Append(Content, b)[i]
    <2>1. Content'[i] = data'[(nread + i - 1) % PIPESIZE]
      BY <1>2, <1>4, <1>5 DEF Content
    <2>2. CASE i = Count + 1
      <3>1. nread + i - 1 = nread + Count
        BY <2>2, <1>1
      <3>2. data'[nwrite % PIPESIZE] = b
        BY <1>2, WriteCell DEF PipeTypeOK
      <3>3. Content'[i] = b
        BY <2>1, <3>1, <3>2, WriteCell
      <3>4. Append(Content, b)[i] = b
        BY <2>2, ContentLength
      <3> QED BY <3>3, <3>4
    <2>3. CASE i # Count + 1
      <3>1. i \in 1 .. Count /\ i \in 1 .. PIPESIZE - 1
        BY <2>3, <1>1
      <3> DEFINE a == nread + i - 1
                 m == Count - i + 1
      <3>2. a \in Int /\ m \in 1 .. PIPESIZE - 1 /\ a + m = nread + Count
        BY <3>1, <1>1
      <3> HIDE DEF a, m
      <3>3. (a + m) % PIPESIZE # a % PIPESIZE
        BY <3>2, <1>1, ModDistinct
      <3>4. a % PIPESIZE \in Index
        BY <3>2, <1>1, Division DEF Index
      <3>5. data'[a % PIPESIZE] = data[a % PIPESIZE]
        BY <1>2, <3>2, <3>3, <3>4, WriteCell DEF PipeTypeOK
      <3>6. Content'[i] = data[a % PIPESIZE] /\ Content[i] = data[a % PIPESIZE]
        BY <2>1, <3>1, <3>5 DEF a, Content
      <3>7. Append(Content, b)[i] = Content[i]
        BY <3>1, ContentLength
      <3> QED BY <3>6, <3>7
    <2> QED BY <2>2, <2>3
  <1>6. Content' = [i \in 1 .. Count + 1 |-> Content'[i]]
    BY <1>4 DEF Content
  <1>7. Append(Content, b) = [i \in 1 .. Count + 1 |-> Append(Content, b)[i]]
    <2>1. Content \in Seq(Bytes \cup {NoByte}) /\ Len(Content) = Count
      BY ContentLength
    <2>2. Append(Content, b) \in Seq(Bytes \cup {NoByte}) /\ Len(Append(Content, b)) = Count + 1
      BY <2>1
    <2>3. ASSUME NEW s \in Seq(Bytes \cup {NoByte}), Len(s) = Count + 1
          PROVE  s = [i \in 1 .. Count + 1 |-> s[i]]
      <3>1. s = [i \in 1 .. Len(s) |-> s[i]]
        BY SeqIsFunction
      <3> QED BY <3>1, <2>3
    <2> HIDE DEF Content
    <2> QED BY <2>2, <2>3, Zenon
  <1> QED BY <1>3, <1>4, <1>5, <1>6, <1>7

\* Take removes the oldest n bytes, and blanks no other.
LEMMA TakeContent ==
  ASSUME PipeTypeOK, Count <= PIPESIZE, NEW n \in 0 .. Count, Take(n)
  PROVE  Count' = Count - n /\ Content' = SubSeq(Content, n + 1, Len(Content)) /\ PipeTypeOK'
  <1>1. /\ Wrap \in Nat \ {0} /\ PIPESIZE \in Nat \ {0} /\ PIPESIZE < Wrap
        /\ nread \in 0 .. Wrap - 1 /\ nwrite \in 0 .. Wrap - 1
        /\ Count \in 0 .. PIPESIZE /\ n \in Nat
    BY CountFacts, PipeAssumption DEF PipeTypeOK
  <1>2. /\ nread' = (nread + n) % Wrap /\ nwrite' = nwrite
        /\ data' = [i \in Index |-> IF (i - nread) % PIPESIZE < n THEN NoByte ELSE data[i]]
        /\ UNCHANGED <<readopen, writeopen, ref>>
    BY DEF Take
  <1>3. PipeTypeOK'
    <2>1. nread + n \in Int
      BY <1>1
    <2>2. nread' \in 0 .. Wrap - 1
      BY <1>1, <1>2, <2>1, Division
    <2>3. data' \in [Index -> Bytes \cup {NoByte}]
      BY <1>2 DEF PipeTypeOK
    <2> QED BY <1>2, <2>2, <2>3 DEF PipeTypeOK
  <1>4. Count' = Count - n
    <2> DEFINE e == (nread + n) \div Wrap
    <2>1. nread + n = Wrap * e + nread' /\ e \in Int /\ nread' \in Int
      BY <1>1, <1>2, Division
    <2>2. nwrite - nread' = (nwrite - nread - n) + Wrap * e
      BY <1>1, <2>1
    <2> HIDE DEF e
    <2>3. (nwrite - nread - n) \in Int
      BY <1>1
    <2>4. ((nwrite - nread - n) + Wrap * e) % Wrap = (nwrite - nread - n) % Wrap
      BY <1>1, <2>1, <2>3, ModShift
    <2> DEFINE f == (nwrite - nread) \div Wrap
    <2>5. nwrite - nread = Wrap * f + Count /\ f \in Int
      <3>1. nwrite - nread \in Int
        BY <1>1
      <3> QED BY <1>1, <3>1, Division DEF Count
    <2> HIDE DEF f
    <2>6. nwrite - nread - n = Wrap * f + (Count - n) /\ Count - n \in Int
          /\ 0 <= Count - n /\ Count - n < Wrap
      BY <1>1, <2>5
    <2>7. (Wrap * f + (Count - n)) % Wrap = Count - n
      BY <1>1, <2>5, <2>6, Remainder
    <2> QED BY <1>2, <2>2, <2>4, <2>6, <2>7 DEF Count
  <1>5. ASSUME NEW j \in 1 .. Count - n PROVE Content'[j] = Content[n + j]
    <2>1. Content'[j] = data'[(nread' + j - 1) % PIPESIZE]
      BY <1>4, <1>5 DEF Content
    <2> DEFINE a == nread + (n + j) - 1
               m == n + j - 1
    <2>2. a \in Int /\ m \in 0 .. PIPESIZE - 1 /\ a = nread + m /\ m >= n /\ n + j \in 1 .. Count
      BY <1>1
    <2>3. (nread' + j - 1) % PIPESIZE = a % PIPESIZE
      <3> DEFINE e == (nread + n) \div Wrap
                 k == Wrap \div PIPESIZE
      <3>1. nread + n = Wrap * e + nread' /\ e \in Int /\ nread' \in Int
        BY <1>1, <1>2, Division
      <3>2. Wrap = PIPESIZE * k /\ k \in Int
        BY <1>1, Division, PipeAssumption
      <3> HIDE DEF e, k
      <3>3. Wrap * e = PIPESIZE * (k * e) /\ k * e \in Int
        BY <3>1, <3>2, <1>1
      <3> DEFINE x == nread' + j - 1
      <3> DEFINE g == PIPESIZE * (k * e)
      <3>7. g \in Int
        <4> DEFINE h == k * e
        <4>1. h \in Int
          BY <3>3
        <4> HIDE DEF h
        <4>2. PIPESIZE * h \in Int
          BY <4>1, <1>1
        <4> QED BY <4>2 DEF h
      <3>8. Wrap * e = g
        BY <3>3
      <3> HIDE DEF g
      <3>4. nread + n = g + nread' /\ g \in Int
        BY <3>1, <3>7, <3>8, Zenon
      <3>5. a = x + g /\ x \in Int
        <4> HIDE DEF a, x
        <4>1. a = (nread + n) + (j - 1) /\ nread + n \in Int /\ j \in Int
          <5>1. nread \in Int /\ n \in Int /\ j \in Int
            BY <1>1
          <5> QED BY <5>1 DEF a
        <4>2. x = nread' + j - 1
          BY DEF x
        <4>3. nread' \in Int
          BY <3>1
        <4>4. a = (g + nread') + (j - 1)
          BY <3>4, <4>1, Zenon
        <4> QED BY <4>1, <4>2, <4>3, <4>4, <3>4
      <3> HIDE DEF x, a
      <3>6. (x + g) % PIPESIZE = x % PIPESIZE
        BY <3>3, <3>5, <1>1, ModShift DEF g
      <3> QED BY <3>5, <3>6 DEF x
    <2>4. a % PIPESIZE \in Index
      BY <2>2, <1>1, Division DEF Index
    <2>5. ((a % PIPESIZE) - nread) % PIPESIZE = m
      <3> HIDE DEF a, m
      <3>1. nread \in Int /\ m \in Int
        BY <2>2, <1>1
      <3>2. (((nread + m) % PIPESIZE) - nread) % PIPESIZE = m % PIPESIZE
        BY <3>1, <1>1, ModOffset
      <3>3. m % PIPESIZE = m
        BY <2>2, <3>1, <1>1, ModNear
      <3> QED BY <2>2, <3>2, <3>3
    <2> HIDE DEF a, m
    <2>6. data'[a % PIPESIZE] = data[a % PIPESIZE]
      <3>1. ~(m < n)
        BY <2>2, <1>1
      <3> QED BY <1>2, <2>4, <2>5, <3>1
    <2>7. Content[n + j] = data[a % PIPESIZE]
      BY <2>2 DEF Content, a
    <2> QED BY <2>1, <2>3, <2>6, <2>7
  <1>6. Content' = [j \in 1 .. Count - n |-> Content'[j]]
    BY <1>4 DEF Content
  <1>7. SubSeq(Content, n + 1, Len(Content)) = [j \in 1 .. Count - n |-> Content[n + j]]
    <2>1. Len(Content) = Count /\ Content \in Seq(Bytes \cup {NoByte})
      BY ContentLength
    <2>2. Len(SubSeq(Content, n + 1, Count)) = Count - n
      BY <1>1, <2>1
    <2>3. \A j \in 1 .. Count - n : SubSeq(Content, n + 1, Count)[j] = Content[n + j]
      BY <1>1, <2>1
    <2>4. SubSeq(Content, n + 1, Count) = [j \in 1 .. Count - n |-> SubSeq(Content, n + 1, Count)[j]]
      BY <1>1, <2>1, <2>2
    <2> QED BY <2>1, <2>3, <2>4
  <1> QED BY <1>3, <1>4, <1>5, <1>6, <1>7

-----------------------------------------------------------------------------
(* The inductive invariant *)

\* init neither exits nor gets a parent.
InitLives ==
    /\ state[InitProc] \in {"RUNNABLE", "SLEEPING"}
    /\ parent[InitProc] = NoProc
    /\ pc[InitProc] \notin {"exit", "exitR", "exitW"}

\* A slot that is not a live process does nothing and holds nothing, except
\* that a child being forked already has its descriptors.
Dormant == \A p \in Procs :
    /\ state[p] \in {"UNUSED", "USED", "ZOMBIE"} => pc[p] = "user"
    /\ state[p] \in {"UNUSED", "ZOMBIE"} => ofile[p] = {}
    /\ state[p] \in {"UNUSED", "USED"} => parent[p] = NoProc

\* A child under construction is USED, and has one parent.
ForkingIsPrivate == \A p \in Procs : pc[p] = "publish" =>
    /\ child[p] \in Procs /\ state[child[p]] = "USED"
    /\ \A q \in Procs : pc[q] = "publish" /\ child[q] = child[p] => q = p

NotOwnParent == \A p \in Procs : parent[p] # p

Loops == {"wait", "read", "write"}

\* The channel of the loop at l.
Channel(p, l) == IF l = "wait" THEN p ELSE IF l = "read" THEN NREAD ELSE NWRITE

\* A sleeper is in one of the loops, on its channel; whoever is about to
\* sleep has the channel registered, unless it was woken since.
SleepersChannel == \A p \in Procs :
    /\ state[p] = "SLEEPING" => pc[p] \in Loops /\ chan[p] = Channel(p, pc[p])
    /\ pc[p] = "waitsleep" => chan[p] \in {NoChan, p}
    /\ pc[p] = "readsleep" => chan[p] \in {NoChan, NREAD}
    /\ pc[p] = "writesleep" => chan[p] \in {NoChan, NWRITE}

\* Whoever waits in wait() has a child, and none it could reap.
ParentsAreWoken == \A p \in Procs : Waits(p, "wait") => Children(p) # {} /\ Zombies(p) = {}

\* A process keeps its end open while it reads or writes.
UsersHoldEnds == \A p \in Procs :
    /\ pc[p] \in {"read", "readsleep"} => "r" \in ofile[p]
    /\ pc[p] \in {"write", "copy", "writesleep"} => "w" \in ofile[p]

Holders(e) == {p \in Procs : e \in ofile[p]}
Closers(e) == {p \in Procs : pc[p] \in {ClosingLabel("user", e), ClosingLabel("exit", e)}}
Open(e) == IF e = "r" THEN readopen ELSE writeopen

\* An end is open until the last of its holders has closed it.
EndCount(e) ==
    /\ ref[e] = Cardinality(Holders(e))
    /\ Open(e) <=> Holders(e) # {} \/ Closers(e) # {}
    /\ \A p, q \in Closers(e) : p = q
    /\ Closers(e) # {} => Holders(e) = {}

\* Also while a writer copies, writers wait for room only; readers may have
\* to be told of bytes only while it does.
SleepersWait == \A p \in Procs :
    /\ Waits(p, "read") /\ ~cut => writeopen /\ (PipeFree => Empty)
    /\ Waits(p, "write") => Full /\ readopen

\* The counters are never further apart than the pipe is long.
WithinCapacity == Count <= PIPESIZE

IInv ==
    /\ TypeOK
    /\ InitLives
    /\ Dormant
    /\ ForkingIsPrivate
    /\ ParentAlive /\ NotOwnParent
    /\ SleepersChannel
    /\ ParentsAreWoken
    /\ UsersHoldEnds
    /\ EndCount("r") /\ EndCount("w")
    /\ SleepersWait
    /\ WithinCapacity


-----------------------------------------------------------------------------
(* Facts about the constants and the operators *)

LEMMA Basics ==
  /\ InitProc \in Procs /\ InitProc = 0
  /\ NoProc \notin Procs
  /\ NREAD \notin Procs /\ NWRITE \notin Procs /\ NREAD # NWRITE
  /\ NoChan \notin Procs /\ NoChan # NREAD /\ NoChan # NWRITE
  /\ IsFiniteSet(Procs)
  <1>1. NPROC \in Nat \ {0}
    BY TableAssumption
  <1>2. IsFiniteSet(Procs)
    <2>1. 0 \in Int /\ NPROC - 1 \in Int
      BY <1>1
    <2> QED BY <2>1, FS_Interval DEF Procs
  <1> QED BY <1>1, <1>2 DEF Procs, InitProc, NoProc, NREAD, NWRITE, NoChan

\* Who waits in which loop.
LEMMA WaitsCases ==
  ASSUME NEW p \in Procs
  PROVE  /\ Waits(p, "wait") <=> (pc[p] = "wait" /\ state[p] = "SLEEPING")
                                 \/ (pc[p] = "waitsleep" /\ chan[p] # NoChan)
         /\ Waits(p, "read") <=> (pc[p] = "read" /\ state[p] = "SLEEPING")
                                 \/ (pc[p] = "readsleep" /\ chan[p] # NoChan)
         /\ Waits(p, "write") <=> (pc[p] = "write" /\ state[p] = "SLEEPING")
                                  \/ (pc[p] = "writesleep" /\ chan[p] # NoChan)
  BY DEF Waits, Prepared

LEMMA WaitsCasesAfter ==
  ASSUME NEW p \in Procs
  PROVE  /\ Waits(p, "wait")' <=> (pc'[p] = "wait" /\ state'[p] = "SLEEPING")
                                 \/ (pc'[p] = "waitsleep" /\ chan'[p] # NoChan)
         /\ Waits(p, "read")' <=> (pc'[p] = "read" /\ state'[p] = "SLEEPING")
                                 \/ (pc'[p] = "readsleep" /\ chan'[p] # NoChan)
         /\ Waits(p, "write")' <=> (pc'[p] = "write" /\ state'[p] = "SLEEPING")
                                  \/ (pc'[p] = "writesleep" /\ chan'[p] # NoChan)
  BY DEF Waits, Prepared

\* The labels of pipeclose().
LEMMA ClosingLabels ==
  /\ ClosingLabel("user", "r") = "closeR" /\ ClosingLabel("exit", "r") = "exitR"
  /\ ClosingLabel("user", "w") = "closeW" /\ ClosingLabel("exit", "w") = "exitW"
  BY DEF ClosingLabel

\* wakeup() takes a process off its channel and wakes it, if that is in S.
LEMMA WokenFacts ==
  ASSUME TypeOK, NEW S, NEW q \in Procs
  PROVE  /\ WokenChan(S)[q] \in {chan[q], NoChan}
         /\ chan[q] \in S => WokenChan(S)[q] = NoChan
         /\ chan[q] \notin S => WokenChan(S)[q] = chan[q] /\ WokenState(S)[q] = state[q]
         /\ WokenState(S)[q] = "SLEEPING" => state[q] = "SLEEPING" /\ chan[q] \notin S
         /\ state[q] # "SLEEPING" => WokenState(S)[q] = state[q]
         /\ state[q] = "SLEEPING" => WokenState(S)[q] \in {"SLEEPING", "RUNNABLE"}
         /\ WokenState(S) \in [Procs -> States]
         /\ WokenChan(S) \in [Procs -> Procs \cup {NREAD, NWRITE, NoChan}]
  BY DEF TypeOK, ProcTypeOK, WokenChan, WokenState, States

-----------------------------------------------------------------------------
(* Initially *)

LEMMA InitIInv == Init => IInv
  <1> SUFFICES ASSUME Init PROVE IInv
    OBVIOUS
  <1> USE DEF Init, ProcInit
  <1>1. TypeOK
    <2>1. ProcTypeOK
      BY Basics DEF ProcTypeOK, States, Labels, Ends
    <2>2. PipeTypeOK
      <3>1. data \in [Index -> Bytes \cup {NoByte}]
        BY DEF PipeInit, Blank
      <3>2. ref \in [{"r", "w"} -> Nat] /\ readopen \in BOOLEAN /\ writeopen \in BOOLEAN
        BY DEF PipeInit
      <3>3. nread \in 0 .. Wrap - 1 /\ nwrite \in 0 .. Wrap - 1
        BY PipeAssumption DEF PipeInit
      <3> QED BY <3>1, <3>2, <3>3 DEF PipeTypeOK
    <2>3. todo \in [Procs -> 0 .. MaxWrite]
      BY CallsAssumption
    <2> QED BY <2>1, <2>2, <2>3 DEF TypeOK
  <1>2. InitLives /\ Dormant /\ ForkingIsPrivate /\ ParentAlive /\ NotOwnParent
    BY Basics DEF InitLives, Dormant, ForkingIsPrivate, ParentAlive, NotOwnParent
  <1>3. SleepersChannel /\ UsersHoldEnds
    BY Basics DEF SleepersChannel, UsersHoldEnds
  <1>4. \A p \in Procs : ~Waits(p, "wait") /\ ~Waits(p, "read") /\ ~Waits(p, "write")
    BY WaitsCases
  <1>5. EndCount("r") /\ EndCount("w")
    <2>1. Holders("r") = {} /\ Holders("w") = {}
      BY DEF Holders
    <2>2. Closers("r") = {} /\ Closers("w") = {}
      BY ClosingLabels DEF Closers
    <2>3. Cardinality({}) = 0
      BY FS_EmptySet
    <2> QED BY <2>1, <2>2, <2>3 DEF EndCount, Open, PipeInit
  <1>6. WithinCapacity
    <2>1. nread = 0 /\ nwrite = 0
      BY DEF PipeInit
    <2> QED BY <1>1, <2>1, CountFacts, PipeAssumption DEF WithinCapacity, TypeOK, Empty
  <1> QED BY <1>1, <1>2, <1>3, <1>4, <1>5, <1>6 DEF IInv, ParentsAreWoken, SleepersWait

-----------------------------------------------------------------------------
(* The ring *)

\* What the ring holds follows from its variables.
LEMMA RingUnchanged ==
  ASSUME UNCHANGED ringVars
  PROVE  Count' = Count /\ Content' = Content /\ (Empty' <=> Empty) /\ (Full' <=> Full)
  BY DEF ringVars, Count, Content, Empty, Full

\* A ring whose counters are equal is empty.
LEMMA EmptyRing ==
  ASSUME PipeTypeOK, nread = nwrite PROVE Count = 0 /\ Content = << >>
  <1>1. Count = 0
    BY CountFacts DEF Empty
  <1> QED BY <1>1 DEF Content

\* p runs while it takes a step; the others keep their place, and do not
\* fall asleep.
LEMMA OnlyOneMoves ==
  ASSUME IInv, NEW p \in Procs, Step(p)
  PROVE  /\ state[p] = "RUNNABLE"
         /\ \A q \in Procs \ {p} :
              /\ pc'[q] = pc[q]
              /\ state'[q] = "SLEEPING" => state[q] = "SLEEPING" /\ chan'[q] = chan[q]
              /\ chan'[q] \in {chan[q], NoChan}
  <1>t. TypeOK /\ ProcTypeOK /\ ForkingIsPrivate
    BY DEF IInv, TypeOK
  <1> SUFFICES ASSUME NEW q \in Procs \ {p}
               PROVE  /\ state[p] = "RUNNABLE"
                      /\ pc'[q] = pc[q]
                      /\ state'[q] = "SLEEPING" => state[q] = "SLEEPING" /\ chan'[q] = chan[q]
                      /\ chan'[q] \in {chan[q], NoChan}
    <2>1. state[p] = "RUNNABLE"
      BY DEF Step, Process, Files, Write, Read, Fork, ForkAlloc, Enter, Calls, At, FileDup,
         Publish, ForkPublish, Goto, Exit, ExitCall, Zombie, ExitZombie, Wait, WaitCall, Reap,
         WaitReap, WaitReturn, WaitFails, WaitSleep, WaitPrepare, SleepPrepare, Block, Sleep,
         Signal, Kill, MakePipe, CloseFile, FileDrop, ClosePipe, WakeOn, Wakeup, WriteCall,
         WriteStops, Writing, WriteFull, WriteByte, WriteReturn, ReadCall, ReadKilled,
         ReadSleep, ReadReturn
    <2> QED BY <2>1
  <1>p. pc \in [Procs -> Labels] /\ state \in [Procs -> States] /\ q \in Procs /\ q # p
    BY <1>t DEF ProcTypeOK
  <1>w. ASSUME NEW S, state' = WokenState(S),
               chan' = WokenChan(S) \/ \E c : chan' = [WokenChan(S) EXCEPT ![p] = c]
        PROVE  /\ state'[q] = "SLEEPING" => state[q] = "SLEEPING" /\ chan'[q] = chan[q]
               /\ chan'[q] \in {chan[q], NoChan}
    <2>1. chan'[q] = WokenChan(S)[q]
      BY <1>w, <1>p DEF WokenChan
    <2> QED BY <2>1, <1>w, <1>t, <1>p, WokenFacts
  <1>1. ASSUME NEW r \in Procs, Fork(p, r) PROVE state[p] = "RUNNABLE" /\ pc'[q] = pc[q]
               /\ (state'[q] = "SLEEPING" => state[q] = "SLEEPING") /\ chan' = chan
    BY <1>1, <1>p DEF Fork, ForkAlloc, Enter, Calls, At, FileDup
  <1>2. CASE Publish(p)
    BY <1>2, <1>p, <1>t DEF Publish, ForkPublish, Goto, At, ForkingIsPrivate
  <1>3. CASE Zombie(p)
    <2>1. PICK S : /\ chan' = [WokenChan(S) EXCEPT ![p] = NoChan]
                   /\ state' = [WokenState(S) EXCEPT ![p] = "ZOMBIE"]
      BY <1>3 DEF Zombie, ExitZombie, At
    <2>2. chan'[q] = WokenChan(S)[q] /\ state'[q] = WokenState(S)[q]
      BY <2>1, <1>p DEF WokenChan, WokenState
    <2>3. state[p] = "RUNNABLE" /\ pc'[q] = pc[q]
      BY <1>3, <1>p DEF Zombie, ExitZombie, At
    <2> QED BY <2>2, <2>3, <1>t, <1>p, WokenFacts
  <1>4. CASE Exit(p) \/ Wait(p) \/ WaitReturn(p)
    BY <1>4, <1>p DEF tableVars, Exit, ExitCall, Goto, At, Wait, WaitCall, Enter, Calls,
       WaitReturn, WaitFails
  <1>17. CASE WaitSleep(p)
    BY <1>17, <1>p DEF WaitSleep, WaitPrepare, SleepPrepare, Goto, At
  <1>5. ASSUME NEW r \in Procs, Reap(p, r) PROVE state[p] = "RUNNABLE" /\ pc'[q] = pc[q]
               /\ (state'[q] = "SLEEPING" => state[q] = "SLEEPING") /\ chan' = chan
    BY <1>5, <1>p DEF Reap, WaitReap, Goto, At
  <1>6. ASSUME NEW l, Block(p, l) PROVE state[p] = "RUNNABLE" /\ pc'[q] = pc[q]
               /\ (state'[q] = "SLEEPING" => state[q] = "SLEEPING") /\ chan' = chan
    BY <1>6, <1>p DEF Block, Sleep, Goto, At
  <1>7. ASSUME NEW r \in Procs, Signal(p, r) PROVE state[p] = "RUNNABLE" /\ pc'[q] = pc[q]
               /\ (state'[q] = "SLEEPING" => state[q] = "SLEEPING") /\ chan' = chan
    BY <1>7, <1>p DEF Signal, Kill, Calls, At
  <1>8. CASE MakePipe(p)
    BY <1>8, <1>p DEF tableVars, MakePipe, Calls, At
  <1>9. ASSUME NEW e, CloseFile(p, e)
        PROVE state[p] = "RUNNABLE" /\ pc'[q] = pc[q] /\ state' = state /\ chan' = chan
    BY <1>9, <1>p DEF tableVars, CloseFile, FileDrop, Calls, At
  <1>10. ASSUME NEW e, ClosePipe(p, e)
         PROVE state[p] = "RUNNABLE" /\ pc'[q] = pc[q] /\ \E S : Wakeup(S)
    BY <1>10, <1>p DEF ClosePipe, Goto, At, WakeOn, Wakeup
  <1>11. CASE WriteStops(p) \/ (\E n \in 1 .. MaxWrite : WriteCall(p, n)) \/ \E b \in Bytes : WriteByte(p, b)
    BY <1>11, <1>p DEF tableVars, WriteCall, Enter, Calls, At, WriteStops, Writing, WriteByte
  <1>12. CASE WriteFull(p)
    <2>1. state' = WokenState({NREAD}) /\ chan' = [WokenChan({NREAD}) EXCEPT ![p] = NWRITE]
      BY <1>12 DEF WriteFull
    <2>2. state[p] = "RUNNABLE" /\ pc'[q] = pc[q]
      BY <1>12, <1>p DEF WriteFull, Writing, At
    <2> QED BY <2>1, <2>2, <1>w
  <1>13. CASE WriteReturn(p)
    <2>1. state[p] = "RUNNABLE" /\ pc'[q] = pc[q] /\ \E S : Wakeup(S)
      BY <1>13, <1>p DEF WriteReturn, Writing, At, WakeOn, Wakeup
    <2> QED BY <2>1, <1>w DEF Wakeup
  <1>14. CASE ReadCall(p) \/ ReadKilled(p)
    BY <1>14, <1>p DEF tableVars, ReadCall, Enter, Calls, At, ReadKilled, Goto
  <1>18. CASE ReadSleep(p)
    BY <1>18, <1>p DEF ReadSleep, SleepPrepare, Goto, At
  <1>15. ASSUME NEW n, ReadReturn(p, n)
         PROVE state[p] = "RUNNABLE" /\ pc'[q] = pc[q] /\ \E S : Wakeup(S)
    BY <1>15, <1>p DEF ReadReturn, Goto, At, WakeOn, Wakeup
  <1>16. ASSUME \E S : Wakeup(S)
         PROVE  /\ state'[q] = "SLEEPING" => state[q] = "SLEEPING" /\ chan'[q] = chan[q]
                /\ chan'[q] \in {chan[q], NoChan}
    BY <1>16, <1>w DEF Wakeup
  <1> QED
    BY <1>1, <1>2, <1>3, <1>4, <1>5, <1>6, <1>7, <1>8, <1>9, <1>10, <1>11, <1>12, <1>13, <1>14,
       <1>15, <1>16, <1>17, <1>18 DEF Step, Process, Files, Write, Read

-----------------------------------------------------------------------------
(* Types *)

LEMMA ProcTypeStep ==
  ASSUME IInv, NEW p \in Procs, Step(p) PROVE ProcTypeOK' /\ todo' \in [Procs -> 0 .. MaxWrite]
  <1>t. TypeOK /\ ProcTypeOK /\ ForkingIsPrivate /\ todo \in [Procs -> 0 .. MaxWrite]
    BY DEF IInv, TypeOK
  <1>m. MaxWrite \in Nat
    BY CallsAssumption
  <1> USE DEF ProcTypeOK, States, Ends
  <1>l. \A l \in Labels : [pc EXCEPT ![p] = l] \in [Procs -> Labels]
    BY <1>t
  <1>k. \A l \in {"user", "publish", "wait", "waitsleep", "exit", "closeR", "closeW", "exitR", "exitW",
                  "read", "readsleep", "write", "copy", "writesleep"} : l \in Labels
    BY DEF Labels
  <1>w. ASSUME NEW S PROVE /\ WokenState(S) \in [Procs -> States]
                           /\ WokenChan(S) \in [Procs -> Procs \cup {NREAD, NWRITE, NoChan}]
    BY <1>t DEF WokenChan, WokenState
  <1>1. ASSUME NEW r \in Procs, Fork(p, r) PROVE ProcTypeOK' /\ todo' = todo
    BY <1>1, <1>t, <1>l, <1>k, Basics DEF Fork, ForkAlloc, Enter, Calls, At, FileDup
  <1>2. CASE Publish(p)
    BY <1>2, <1>t, <1>l, <1>k, Basics DEF Publish, ForkPublish, Goto, At, ForkingIsPrivate
  <1>3. CASE Zombie(p)
    <2>1. PICK S : /\ chan' = [WokenChan(S) EXCEPT ![p] = NoChan]
                   /\ state' = [WokenState(S) EXCEPT ![p] = "ZOMBIE"]
      BY <1>3 DEF Zombie, ExitZombie, At
    <2>2. state' \in [Procs -> States] /\ chan' \in [Procs -> Procs \cup {NREAD, NWRITE, NoChan}]
      BY <2>1, <1>w
    <2>3. /\ pc' = [pc EXCEPT ![p] = "user"] /\ killed' = [killed EXCEPT ![p] = FALSE]
          /\ parent' = [q \in Procs |-> IF parent[q] = p THEN InitProc ELSE parent[q]]
          /\ UNCHANGED <<ofile, child, todo>>
      BY <1>3 DEF Zombie, ExitZombie, At
    <2>4. parent' \in [Procs -> Procs \cup {NoProc}]
      BY <2>3, <1>t, Basics
    <2> QED BY <2>2, <2>3, <2>4, <1>t, <1>l, <1>k
  <1>4. CASE Exit(p)
    BY <1>4, <1>t, <1>l, <1>k DEF tableVars, Exit, ExitCall, Goto, At
  <1>5. CASE Wait(p) \/ WaitReturn(p)
    BY <1>5, <1>t, <1>l, <1>k DEF tableVars, Wait, WaitCall, Enter, Calls, At, WaitReturn,
       WaitFails, Goto
  <1>6. CASE WaitSleep(p)
    BY <1>6, <1>t, <1>l, <1>k DEF WaitSleep, WaitPrepare, SleepPrepare, Goto, At
  <1>7. ASSUME NEW r \in Procs, Reap(p, r) PROVE ProcTypeOK' /\ todo' = todo
    BY <1>7, <1>t, <1>l, <1>k, Basics DEF Reap, WaitReap, Goto, At
  <1>8. ASSUME NEW l \in {"wait", "read", "write"}, Block(p, l) PROVE ProcTypeOK' /\ todo' = todo
    BY <1>8, <1>t, <1>l, <1>k DEF Block, Sleep, Goto, At
  <1>9. ASSUME NEW r \in Procs, Signal(p, r) PROVE ProcTypeOK' /\ todo' = todo
    BY <1>9, <1>t DEF Signal, Kill, Calls, At
  <1>10. CASE MakePipe(p)
    BY <1>10, <1>t DEF tableVars, MakePipe, Calls, At
  <1>11. ASSUME NEW e \in Ends, CloseFile(p, e) PROVE ProcTypeOK' /\ todo' = todo
    BY <1>11, <1>t, <1>l, <1>k DEF tableVars, CloseFile, FileDrop, Calls, At, ClosingLabel
  <1>12. ASSUME NEW e \in Ends, ClosePipe(p, e) PROVE ProcTypeOK' /\ todo' = todo
    BY <1>12, <1>t, <1>l, <1>k, <1>w DEF ClosePipe, Goto, At, WakeOn, Wakeup, ClosingLabel
  <1>13. ASSUME NEW n \in 1 .. MaxWrite, WriteCall(p, n)
         PROVE ProcTypeOK' /\ todo' \in [Procs -> 0 .. MaxWrite]
    <2>1. n \in 0 .. MaxWrite
      BY <1>m
    <2> QED BY <2>1, <1>13, <1>t, <1>l, <1>k DEF tableVars, WriteCall, Enter, Calls, At
  <1>14. CASE WriteStops(p)
    <2>1. 0 \in 0 .. MaxWrite
      BY <1>m
    <2> QED BY <2>1, <1>14, <1>t, <1>l, <1>k DEF tableVars, WriteStops, Writing, At
  <1>15. CASE WriteFull(p)
    BY <1>15, <1>t, <1>l, <1>k, <1>w DEF WriteFull, Writing, At
  <1>16. ASSUME NEW b \in Bytes, WriteByte(p, b)
         PROVE ProcTypeOK' /\ todo' \in [Procs -> 0 .. MaxWrite]
    <2>1. todo[p] - 1 \in 0 .. MaxWrite
      BY <1>16, <1>t, <1>m DEF WriteByte
    <2> QED BY <2>1, <1>16, <1>t, <1>l, <1>k DEF tableVars, WriteByte, Writing, At
  <1>17. CASE WriteReturn(p)
    <2>1. 0 \in 0 .. MaxWrite
      BY <1>m
    <2> QED BY <2>1, <1>17, <1>t, <1>l, <1>k, <1>w DEF WriteReturn, Writing, At, WakeOn, Wakeup
  <1>18. CASE ReadCall(p) \/ ReadKilled(p)
    BY <1>18, <1>t, <1>l, <1>k DEF tableVars, ReadCall, Enter, Calls, At, ReadKilled, Goto
  <1>19. CASE ReadSleep(p)
    BY <1>19, <1>t, <1>l, <1>k DEF ReadSleep, SleepPrepare, Goto, At
  <1>20. ASSUME NEW n \in 0 .. PIPESIZE, ReadReturn(p, n) PROVE ProcTypeOK' /\ todo' = todo
    BY <1>20, <1>t, <1>l, <1>k, <1>w DEF ReadReturn, Goto, At, WakeOn, Wakeup
  <1> HIDE DEF ProcTypeOK
  <1> QED
    BY <1>1, <1>2, <1>3, <1>4, <1>5, <1>6, <1>7, <1>8, <1>9, <1>10, <1>11, <1>12, <1>13, <1>14,
       <1>15, <1>16, <1>17, <1>18, <1>19, <1>20, <1>t DEF Step, Process, Files, Write, Read,
       Publish, Zombie, Exit, Wait, WaitReturn, WaitSleep, MakePipe, WriteFull, ReadCall,
       ReadKilled, ReadSleep

\* What a step does to the pipe, to its counters and to what it holds.
LEMMA PipeStep ==
  ASSUME IInv, NEW p \in Procs, Step(p)
  PROVE  /\ PipeTypeOK' /\ WithinCapacity' /\ cut' \in BOOLEAN
         /\ \/ UNCHANGED <<ringVars, readopen, writeopen>>
            \/ MakePipe(p) /\ Count' = 0 /\ Content' = << >>
            \/ \E e \in Ends : ClosePipe(p, e)
            \/ \E b \in Bytes : WriteByte(p, b) /\ Count < PIPESIZE /\ Content' = Append(Content, b)
            \/ \E n \in 0 .. Count : ReadReturn(p, n)
                                     /\ Content' = SubSeq(Content, n + 1, Len(Content))
  <1>t. TypeOK /\ PipeTypeOK /\ WithinCapacity /\ cut \in BOOLEAN
        /\ ref \in [{"r", "w"} -> Nat]
    BY DEF IInv, TypeOK, PipeTypeOK
  <1>n. PIPESIZE \in Nat \ {0} /\ Wrap \in Nat \ {0} /\ Count \in 0 .. PIPESIZE
    BY <1>t, CountFacts, PipeAssumption DEF WithinCapacity
  <1>b. cut' \in BOOLEAN
    BY <1>t DEF Step, Process, Files, Write, Read, Fork, Publish, Exit, Zombie, Wait, Reap,
       WaitReturn, WaitSleep, Block, Signal, MakePipe, CloseFile, ClosePipe, WakeOn, WriteCall,
       WriteStops, WriteFull, WriteByte, WriteReturn, ReadCall, ReadKilled, ReadSleep,
       ReadReturn
  <1>u. ASSUME UNCHANGED <<ringVars, readopen, writeopen>>, ref' \in [{"r", "w"} -> Nat]
        PROVE  PipeTypeOK' /\ WithinCapacity'
    BY <1>u, <1>t, RingUnchanged DEF PipeTypeOK, WithinCapacity, ringVars
  <1>z. ASSUME data' = Blank, nread' = 0, nwrite' = 0, readopen' \in BOOLEAN, writeopen' \in BOOLEAN,
               ref' \in [{"r", "w"} -> Nat]
        PROVE  PipeTypeOK' /\ WithinCapacity' /\ Count' = 0 /\ Content' = << >>
    <2>1. PipeTypeOK'
      <3>1. data' \in [Index -> Bytes \cup {NoByte}]
        BY <1>z DEF Blank
      <3>2. nread' \in 0 .. Wrap - 1 /\ nwrite' \in 0 .. Wrap - 1
        BY <1>z, <1>n
      <3> QED BY <3>1, <3>2, <1>z DEF PipeTypeOK
    <2>2. 0 % Wrap = 0
      BY <1>n, ModNear
    <2>3. Count' = 0
      BY <1>z, <2>2 DEF Count
    <2>4. Content' = << >>
      BY <2>3 DEF Content
    <2> QED BY <2>1, <2>3, <2>4, <1>n DEF WithinCapacity
  <1>1. ASSUME NEW r \in Procs, Fork(p, r) PROVE PipeTypeOK' /\ WithinCapacity' /\ UNCHANGED <<ringVars, readopen, writeopen>>
    <2>1. ref' \in [{"r", "w"} -> Nat] /\ UNCHANGED <<ringVars, readopen, writeopen>>
      BY <1>1, <1>t DEF Fork, FileDup
    <2> QED BY <2>1, <1>u
  <1>2. CASE MakePipe(p)
    <2>1. /\ data' = Blank /\ nread' = 0 /\ nwrite' = 0 /\ readopen' \in BOOLEAN /\ writeopen' \in BOOLEAN
          /\ ref' \in [{"r", "w"} -> Nat]
      BY <1>2 DEF MakePipe, PipeAlloc
    <2> QED BY <2>1, <1>2, <1>z, <1>b
  <1>3. ASSUME NEW e \in Ends, CloseFile(p, e) PROVE PipeTypeOK' /\ WithinCapacity' /\ UNCHANGED <<ringVars, readopen, writeopen>>
    <2>1. ref' = [ref EXCEPT ![e] = @ - 1] /\ UNCHANGED <<ringVars, readopen, writeopen>> /\ p \in Holders(e)
      BY <1>3 DEF CloseFile, FileDrop, Holders
    <2>2. IsFiniteSet(Holders(e))
      <3>1. Holders(e) \subseteq Procs
        BY DEF Holders
      <3> QED BY <3>1, Basics, FS_Subset
    <2>3. Cardinality(Holders(e)) # 0 /\ Cardinality(Holders(e)) \in Nat
      BY <2>1, <2>2, FS_EmptySet, FS_CardinalityType
    <2>4. ref[e] = Cardinality(Holders(e))
      BY DEF IInv, EndCount, Ends
    <2>5. ref[e] - 1 \in Nat
      BY <2>3, <2>4
    <2> QED BY <2>1, <2>5, <1>u, <1>t
  <1>4. ASSUME NEW e \in Ends, ClosePipe(p, e) PROVE PipeTypeOK' /\ WithinCapacity'
    <2>1. /\ readopen' = (readopen /\ e # "r") /\ writeopen' = (writeopen /\ e # "w") /\ ref' = ref
          /\ IF readopen' \/ writeopen' THEN UNCHANGED ringVars
             ELSE data' = Blank /\ nread' = 0 /\ nwrite' = 0
      BY <1>4 DEF ClosePipe, PipeClose
    <2>2. readopen' \in BOOLEAN /\ writeopen' \in BOOLEAN
      BY <2>1
    <2>3. CASE readopen' \/ writeopen'
      <3>1. UNCHANGED ringVars
        BY <2>1, <2>3
      <3> QED BY <3>1, <2>1, <2>2, <1>t, RingUnchanged DEF PipeTypeOK, WithinCapacity, ringVars
    <2>4. CASE ~(readopen' \/ writeopen')
      BY <2>1, <2>2, <2>4, <1>z, <1>t
    <2> QED BY <2>3, <2>4
  <1>5. ASSUME NEW b \in Bytes, WriteByte(p, b)
        PROVE  PipeTypeOK' /\ WithinCapacity' /\ Count < PIPESIZE /\ Content' = Append(Content, b)
    <2>1. Put(b) /\ ~Full
      BY <1>5 DEF WriteByte
    <2>2. Count < PIPESIZE
      BY <2>1, <1>t, <1>n, CountFacts
    <2>3. Count' = Count + 1 /\ Content' = Append(Content, b) /\ PipeTypeOK'
      BY <2>1, <2>2, <1>t, PutContent
    <2> QED BY <2>2, <2>3, <1>n DEF WithinCapacity
  <1>6. ASSUME NEW n \in 0 .. PIPESIZE, ReadReturn(p, n)
        PROVE  PipeTypeOK' /\ WithinCapacity' /\ n \in 0 .. Count /\ Content' = SubSeq(Content, n + 1, Len(Content))
    <2>1. Take(n) /\ n \in 0 .. Count
      BY <1>6, <1>n DEF ReadReturn
    <2>2. Count' = Count - n /\ Content' = SubSeq(Content, n + 1, Len(Content)) /\ PipeTypeOK'
      BY <2>1, <1>t, <1>n, TakeContent
    <2> QED BY <2>1, <2>2, <1>n DEF WithinCapacity
  <1>7. ASSUME UNCHANGED pipeVars PROVE PipeTypeOK' /\ WithinCapacity' /\ UNCHANGED <<ringVars, readopen, writeopen>>
    <2>1. ref' \in [{"r", "w"} -> Nat] /\ UNCHANGED <<ringVars, readopen, writeopen>>
      BY <1>7, <1>t DEF pipeVars
    <2> QED BY <2>1, <1>u
  <1>8. \/ \E r \in Procs : Fork(p, r)
        \/ MakePipe(p)
        \/ \E e \in Ends : CloseFile(p, e) \/ ClosePipe(p, e)
        \/ \E b \in Bytes : WriteByte(p, b)
        \/ \E n \in 0 .. PIPESIZE : ReadReturn(p, n)
        \/ UNCHANGED pipeVars
    BY DEF Step, Process, Files, Write, Read, Publish, Exit, Zombie, Wait, Reap, WaitReturn,
       WaitSleep, Block, Signal, WriteCall, WriteStops, WriteFull, WriteReturn, ReadCall,
       ReadKilled, ReadSleep
  <1> QED BY <1>1, <1>2, <1>3, <1>4, <1>5, <1>6, <1>7, <1>8, <1>b

LEMMA TypeStep == ASSUME IInv, NEW p \in Procs, Step(p) PROVE TypeOK' /\ WithinCapacity'
  BY ProcTypeStep, PipeStep DEF TypeOK

-----------------------------------------------------------------------------
(* The life of processes *)

Awake == {"RUNNABLE", "SLEEPING"}

\* A step of p that starts and ends nobody's life and makes nobody a parent.
Quiet(p) ==
    /\ pc[p] # "publish" /\ pc'[p] # "publish"
    /\ pc'[p] \in {"exit", "exitR", "exitW"} => p # InitProc
    /\ parent' = parent /\ child' = child
    /\ \A q \in Procs : state'[q] = state[q] \/ (state[q] \in Awake /\ state'[q] \in Awake)
    /\ \A q \in Procs \ {p} : ofile'[q] = ofile[q]

LEMMA QuietSteps ==
  ASSUME IInv, NEW p \in Procs, Step(p)
  PROVE  \/ Quiet(p)
         \/ (\E q \in Procs : Fork(p, q) \/ Reap(p, q))
         \/ Publish(p) \/ Zombie(p)
  <1>t. TypeOK /\ ProcTypeOK /\ pc[InitProc] \notin {"exit", "exitR", "exitW"}
        /\ InitProc \in Procs /\ pc \in [Procs -> Labels] /\ state \in [Procs -> States]
    BY Basics DEF IInv, TypeOK, ProcTypeOK, InitLives
  <1>s. ASSUME UNCHANGED state
        PROVE \A q \in Procs : state'[q] = state[q] \/ (state[q] \in Awake /\ state'[q] \in Awake)
    BY <1>s
  <1>w. ASSUME NEW S, state' = WokenState(S)
        PROVE \A q \in Procs : state'[q] = state[q] \/ (state[q] \in Awake /\ state'[q] \in Awake)
    <2> TAKE q \in Procs
    <2> QED BY <1>w, <1>t, WokenFacts DEF Awake
  <1>1. CASE Exit(p)
    BY <1>1, <1>t DEF Quiet, tableVars, Exit, ExitCall, Goto, At
  <1>2. CASE Wait(p) \/ WaitReturn(p)
    BY <1>2, <1>t DEF Quiet, tableVars, Wait, WaitCall, Enter, Calls, At, WaitReturn,
       WaitFails, Goto
  <1>3. CASE WaitSleep(p)
    BY <1>3, <1>t DEF Quiet, WaitSleep, WaitPrepare, SleepPrepare, Goto, At
  <1>4. ASSUME NEW l \in {"wait", "read", "write"}, Block(p, l) PROVE Quiet(p)
    BY <1>4, <1>t DEF Quiet, Awake, Prepared, Block, Sleep, Goto, At
  <1>5. ASSUME NEW r \in Procs, Signal(p, r) PROVE Quiet(p)
    BY <1>5, <1>t DEF Quiet, Awake, Signal, Kill, Calls, At
  <1>6. CASE MakePipe(p)
    BY <1>6, <1>t DEF Quiet, tableVars, MakePipe, Calls, At
  <1>7. ASSUME NEW e \in Ends, CloseFile(p, e) PROVE Quiet(p)
    BY <1>7, <1>t DEF Quiet, tableVars, Ends, ClosingLabel, CloseFile, FileDrop, Calls, At
  <1>8. ASSUME NEW e \in Ends, ClosePipe(p, e) PROVE Quiet(p)
    <2>1. /\ pc[p] # "publish" /\ pc'[p] \in {"user", "exit"} /\ (pc'[p] = "exit" => p # InitProc)
          /\ UNCHANGED <<parent, child, ofile>>
      BY <1>8, <1>t DEF Ends, ClosingLabel, ClosePipe, Goto, At, WakeOn, Wakeup
    <2>2. \E S : state' = WokenState(S)
      BY <1>8 DEF ClosePipe, WakeOn, Wakeup
    <2> QED BY <2>1, <2>2, <1>w DEF Quiet
  <1>9. CASE (\E n \in 1 .. MaxWrite : WriteCall(p, n)) \/ WriteStops(p)
    BY <1>9, <1>t DEF Quiet, tableVars, WriteCall, Enter, Calls, At, WriteStops, Writing
  <1>10. CASE \E b \in Bytes : WriteByte(p, b)
    BY <1>10, <1>t DEF Quiet, tableVars, WriteByte, Writing, At
  <1>11. CASE WriteFull(p)
    <2>1. pc[p] # "publish" /\ pc'[p] = "writesleep" /\ UNCHANGED <<parent, child, ofile>>
      BY <1>11, <1>t DEF WriteFull, Writing, At
    <2>2. \E S : state' = WokenState(S)
      BY <1>11 DEF WriteFull
    <2> QED BY <2>1, <2>2, <1>w DEF Quiet
  <1>12. CASE WriteReturn(p)
    <2>1. pc[p] # "publish" /\ pc'[p] = "user" /\ UNCHANGED <<parent, child, ofile>>
      BY <1>12, <1>t DEF WriteReturn, Writing, At, WakeOn, Wakeup
    <2>2. \E S : state' = WokenState(S)
      BY <1>12 DEF WriteReturn, WakeOn, Wakeup
    <2> QED BY <2>1, <2>2, <1>w DEF Quiet
  <1>13. CASE ReadCall(p) \/ ReadKilled(p)
    BY <1>13, <1>t DEF Quiet, tableVars, ReadCall, Enter, Calls, At, ReadKilled, Goto
  <1>14. CASE ReadSleep(p)
    BY <1>14, <1>t DEF Quiet, ReadSleep, SleepPrepare, Goto, At
  <1>15. ASSUME NEW n, ReadReturn(p, n) PROVE Quiet(p)
    <2>1. pc[p] # "publish" /\ pc'[p] = "user" /\ UNCHANGED <<parent, child, ofile>>
      BY <1>15, <1>t DEF ReadReturn, Goto, At
    <2>2. \E S : state' = WokenState(S)
      BY <1>15 DEF ReadReturn, WakeOn, Wakeup
    <2> QED BY <2>1, <2>2, <1>w DEF Quiet
  <1> QED
    BY <1>1, <1>2, <1>3, <1>4, <1>5, <1>6, <1>7, <1>8, <1>9, <1>10, <1>11, <1>12, <1>13, <1>14,
       <1>15 DEF Step, Process, Files, Write, Read

LEMMA InitLivesStep == ASSUME IInv, NEW p \in Procs, Step(p) PROVE InitLives'
  <1>t. TypeOK /\ ProcTypeOK /\ InitLives /\ Dormant /\ ForkingIsPrivate /\ InitProc \in Procs /\ NoProc \notin Procs
        /\ InitProc # NoProc
    BY Basics DEF IInv, TypeOK
  <1>p. p # InitProc => pc'[InitProc] = pc[InitProc]
    BY <1>t, OnlyOneMoves
  <1>1. CASE Quiet(p)
    BY <1>1, <1>t, <1>p DEF Quiet, Awake, InitLives
  <1>2. ASSUME NEW q \in Procs, Fork(p, q) PROVE InitLives'
    BY <1>2, <1>t, <1>p DEF InitLives, ProcTypeOK, Fork, ForkAlloc, Enter, Calls, At, FileDup
  <1>3. ASSUME NEW q \in Procs, Reap(p, q) PROVE InitLives'
    BY <1>3, <1>t, <1>p DEF InitLives, ProcTypeOK, Zombies, Children, Reap, WaitReap, Goto, At
  <1>4. CASE Publish(p)
    BY <1>4, <1>t, <1>p DEF InitLives, ProcTypeOK, ForkingIsPrivate, Publish, ForkPublish,
       Goto, At
  <1>5. CASE Zombie(p)
    <2>1. p # InitProc /\ pc'[InitProc] = pc[InitProc]
      BY <1>5, <1>t, <1>p DEF InitLives, Zombie, ExitZombie, At
    <2>2. parent'[InitProc] = NoProc
      BY <1>5, <1>t DEF InitLives, Zombie, ExitZombie
    <2>3. PICK S : state' = [WokenState(S) EXCEPT ![p] = "ZOMBIE"]
      BY <1>5 DEF Zombie, ExitZombie
    <2>4. state'[InitProc] = WokenState(S)[InitProc]
      BY <2>1, <2>3, <1>t DEF WokenState
    <2> QED BY <2>1, <2>2, <2>4, <1>t, WokenFacts DEF InitLives
  <1> QED BY <1>1, <1>2, <1>3, <1>4, <1>5, QuietSteps

\* What exit makes of the process table.
LEMMA ZombieEffect ==
  ASSUME IInv, NEW p \in Procs, Zombie(p)
  PROVE  /\ state[p] = "RUNNABLE" /\ pc[p] = "exit" /\ ofile[p] = {} /\ p # InitProc
         /\ state'[p] = "ZOMBIE" /\ chan'[p] = NoChan /\ pc'[p] = "user"
         /\ parent' = [q \in Procs |-> IF parent[q] = p THEN InitProc ELSE parent[q]]
         /\ \A q \in Procs \ {p} :
              /\ pc'[q] = pc[q]
              /\ state'[q] = state[q] \/ (state[q] \in Awake /\ state'[q] \in Awake)
         /\ UNCHANGED <<ofile, child, pipeVars, todo, cut>>
  <1>t. TypeOK /\ ProcTypeOK /\ InitLives
    BY DEF IInv, TypeOK
  <1>1. PICK S : /\ chan' = [WokenChan(S) EXCEPT ![p] = NoChan]
                 /\ state' = [WokenState(S) EXCEPT ![p] = "ZOMBIE"]
    BY DEF Zombie, ExitZombie
  <1>2. state'[p] = "ZOMBIE" /\ chan'[p] = NoChan
    BY <1>1 DEF WokenChan, WokenState
  <1>3. ASSUME NEW q \in Procs \ {p}
        PROVE  state'[q] = state[q] \/ (state[q] \in Awake /\ state'[q] \in Awake)
    <2>1. state'[q] = WokenState(S)[q]
      BY <1>1 DEF WokenState
    <2> QED BY <2>1, <1>t, WokenFacts DEF Awake
  <1>4. /\ state[p] = "RUNNABLE" /\ pc[p] = "exit" /\ ofile[p] = {}
        /\ pc' = [pc EXCEPT ![p] = "user"]
        /\ parent' = [q \in Procs |-> IF parent[q] = p THEN InitProc ELSE parent[q]]
        /\ UNCHANGED <<ofile, child, pipeVars, todo, cut>>
    BY DEF Zombie, ExitZombie, At
  <1> QED BY <1>2, <1>3, <1>4, <1>t DEF ProcTypeOK, InitLives

LEMMA DormantStep == ASSUME IInv, NEW p \in Procs, Step(p) PROVE Dormant'
  <1>t. TypeOK /\ ProcTypeOK /\ InitLives /\ Dormant /\ ForkingIsPrivate /\ state[p] = "RUNNABLE"
    BY OnlyOneMoves DEF IInv, TypeOK
  <1>p. \A q \in Procs \ {p} : pc'[q] = pc[q]
    BY OnlyOneMoves
  <1>1. CASE Quiet(p)
    BY <1>1, <1>t, <1>p DEF Quiet, Awake, Dormant
  <1>2. ASSUME NEW r \in Procs, Fork(p, r) PROVE Dormant'
    BY <1>2, <1>t, <1>p DEF Dormant, ProcTypeOK, Fork, ForkAlloc, Enter, Calls, At, FileDup
  <1>3. ASSUME NEW r \in Procs, Reap(p, r) PROVE Dormant'
    BY <1>3, <1>t, <1>p DEF Dormant, ProcTypeOK, Zombies, Children, Reap, WaitReap, Goto, At
  <1>4. CASE Publish(p)
    BY <1>4, <1>t, <1>p DEF Dormant, ProcTypeOK, ForkingIsPrivate, Publish, ForkPublish, Goto,
       At
  <1>5. CASE Zombie(p)
    BY <1>5, <1>t, ZombieEffect, Basics DEF Dormant, Awake
  <1> QED BY <1>1, <1>2, <1>3, <1>4, <1>5, QuietSteps

LEMMA ForkingStep == ASSUME IInv, NEW p \in Procs, Step(p) PROVE ForkingIsPrivate'
  <1>t. TypeOK /\ ProcTypeOK /\ Dormant /\ ForkingIsPrivate /\ state[p] = "RUNNABLE"
    BY OnlyOneMoves DEF IInv, TypeOK
  <1>p. \A q \in Procs \ {p} : pc'[q] = pc[q]
    BY OnlyOneMoves
  <1>1. CASE Quiet(p)
    BY <1>1, <1>t, <1>p DEF Quiet, Awake, ForkingIsPrivate
  <1>2. ASSUME NEW r \in Procs, Fork(p, r) PROVE ForkingIsPrivate'
    BY <1>2, <1>t, <1>p DEF ForkingIsPrivate, ProcTypeOK, Fork, ForkAlloc, Enter, Calls, At,
       FileDup
  <1>3. ASSUME NEW r \in Procs, Reap(p, r) PROVE ForkingIsPrivate'
    BY <1>3, <1>t, <1>p DEF ForkingIsPrivate, ProcTypeOK, Zombies, Children, Reap, WaitReap,
       Goto, At
  <1>4. CASE Publish(p)
    BY <1>4, <1>t, <1>p DEF ForkingIsPrivate, ProcTypeOK, Publish, ForkPublish, Goto, At
  <1>5. CASE Zombie(p)
    BY <1>5, <1>t, ZombieEffect DEF ForkingIsPrivate, Awake
  <1> QED BY <1>1, <1>2, <1>3, <1>4, <1>5, QuietSteps

LEMMA ParentStep == ASSUME IInv, NEW p \in Procs, Step(p) PROVE ParentAlive' /\ NotOwnParent'
  <1>t. TypeOK /\ ProcTypeOK /\ Dormant /\ ForkingIsPrivate /\ ParentAlive /\ NotOwnParent /\ InitLives
        /\ state[p] = "RUNNABLE" /\ InitProc \in Procs /\ NoProc \notin Procs
    BY OnlyOneMoves, Basics DEF IInv, TypeOK
  <1>1. CASE Quiet(p)
    BY <1>1, <1>t DEF Quiet, Awake, ParentAlive, NotOwnParent
  <1>2. ASSUME NEW r \in Procs, Fork(p, r) PROVE ParentAlive' /\ NotOwnParent'
    BY <1>2, <1>t DEF ParentAlive, NotOwnParent, ProcTypeOK, Fork, ForkAlloc, Enter, Calls, At,
       FileDup
  <1>3. ASSUME NEW r \in Procs, Reap(p, r) PROVE ParentAlive' /\ NotOwnParent'
    <2>1. /\ parent' = [parent EXCEPT ![r] = NoProc] /\ state' = [state EXCEPT ![r] = "UNUSED"]
          /\ state[r] = "ZOMBIE"
      BY <1>3 DEF Reap, WaitReap, Zombies, Children
    <2>2. NotOwnParent'
      BY <2>1, <1>t DEF NotOwnParent, ProcTypeOK
    <2>3. ParentAlive'
      BY <2>1, <1>t DEF ParentAlive, ProcTypeOK
    <2> QED BY <2>2, <2>3
  <1>4. CASE Publish(p)
    <2> DEFINE c == child[p]
    <2>1. c \in Procs /\ state[c] = "USED" /\ parent' = [parent EXCEPT ![c] = p]
          /\ state' = [state EXCEPT ![c] = "RUNNABLE"]
      BY <1>4, <1>t DEF Publish, ForkPublish, Goto, At, ForkingIsPrivate
    <2> HIDE DEF c
    <2>2. NotOwnParent'
      BY <2>1, <1>t DEF NotOwnParent, ProcTypeOK
    <2>3. ParentAlive'
      BY <2>1, <1>t DEF ParentAlive, ProcTypeOK
    <2> QED BY <2>2, <2>3
  <1>5. CASE Zombie(p)
    <2>1. NotOwnParent'
      BY <1>5, <1>t, ZombieEffect DEF NotOwnParent, InitLives
    <2>2. ASSUME NEW q \in Procs \ {InitProc}, state'[q] \notin {"UNUSED", "USED"}
          PROVE  parent'[q] \in Procs /\ state'[parent'[q]] \in Awake
      <3>1. state[q] \notin {"UNUSED", "USED"}
        BY <2>2, <1>5, ZombieEffect DEF Awake
      <3>2. parent[q] \in Procs /\ state[parent[q]] \in Awake
        BY <3>1, <1>t DEF ParentAlive, Awake
      <3>3. CASE parent[q] = p
        BY <3>3, <1>5, <1>t, ZombieEffect DEF InitLives, Awake
      <3>4. CASE parent[q] # p
        BY <3>2, <3>4, <1>5, ZombieEffect
      <3> QED BY <3>3, <3>4
    <2> QED BY <2>1, <2>2 DEF ParentAlive, Awake
  <1> QED BY <1>1, <1>2, <1>3, <1>4, <1>5, QuietSteps

-----------------------------------------------------------------------------
(* Sleeping *)

\* What becomes of p itself: it falls asleep only where sleep() does.
LEMMA MoverSleeps ==
  ASSUME IInv, NEW p \in Procs, Step(p)
  PROVE  /\ state'[p] = "SLEEPING" => pc'[p] \in Loops /\ chan'[p] = Channel(p, pc'[p])
         /\ state'[p] = "SLEEPING" =>
              \E l \in Loops : pc'[p] = l /\ Block(p, l) /\ Waits(p, l)
         /\ pc'[p] = "waitsleep" => WaitSleep(p) /\ chan'[p] = p
         /\ pc'[p] = "readsleep" => ReadSleep(p) /\ chan'[p] = NREAD
         /\ pc'[p] = "writesleep" => WriteFull(p) /\ chan'[p] = NWRITE
  <1> DEFINE Done == state'[p] # "SLEEPING" /\ pc'[p] \notin {"waitsleep", "readsleep", "writesleep"}
  <1>t. TypeOK /\ ProcTypeOK /\ pc \in [Procs -> Labels] /\ state \in [Procs -> States]
        /\ chan \in [Procs -> Procs \cup {NREAD, NWRITE, NoChan}]
        /\ state[p] = "RUNNABLE" /\ SleepersChannel /\ ForkingIsPrivate
    BY OnlyOneMoves DEF IInv, TypeOK, ProcTypeOK
  <1>w. ASSUME NEW S, state' = WokenState(S) PROVE state'[p] # "SLEEPING"
    BY <1>w, <1>t, WokenFacts
  <1>1. CASE Exit(p)
    BY <1>1, <1>t DEF tableVars, Exit, ExitCall, Goto, At
  <1>2. CASE Wait(p) \/ WaitReturn(p)
    BY <1>2, <1>t DEF tableVars, Wait, WaitCall, Enter, Calls, At, WaitReturn, WaitFails, Goto
  <1>3. CASE WaitSleep(p)
    BY <1>3, <1>t DEF WaitSleep, WaitPrepare, SleepPrepare, Goto, At
  <1>4. CASE Block(p, "wait") \/ Block(p, "read") \/ Block(p, "write")
    <2> DEFINE Falls == /\ pc'[p] \in Loops /\ pc'[p] \notin {"waitsleep", "readsleep", "writesleep"}
                        /\ state'[p] = "SLEEPING" => chan'[p] = Channel(p, pc'[p])
    <2>w. ASSUME Block(p, "wait") PROVE Falls
      BY <2>w, <1>t, Basics DEF SleepersChannel, Loops, Channel, Prepared, Block, Sleep, Goto, At
    <2>r. ASSUME Block(p, "read") PROVE Falls
      BY <2>r, <1>t, Basics DEF SleepersChannel, Loops, Channel, Prepared, Block, Sleep, Goto, At
    <2>l. ASSUME Block(p, "write") PROVE Falls
      BY <2>l, <1>t, Basics DEF SleepersChannel, Loops, Channel, Prepared, Block, Sleep, Goto, At
    <2>1. Falls
      BY <1>4, <2>w, <2>r, <2>l
    <2>2. \A l \in Loops : Block(p, l) => pc'[p] = l /\ pc[p] = Prepared[l]
                                        /\ (state'[p] = "SLEEPING" => chan[p] # NoChan)
      BY <1>t DEF Loops, Block, Sleep, Goto, At
    <2>3. PICK l \in Loops : Block(p, l)
      BY <1>4 DEF Loops
    <2>4. state'[p] = "SLEEPING" => pc'[p] = l /\ Waits(p, l)
      BY <2>2, <2>3 DEF Waits
    <2> QED BY <2>1, <2>3, <2>4
  <1>5. ASSUME NEW r \in Procs, Signal(p, r) PROVE Done
    BY <1>5, <1>t DEF Signal, Kill, Calls, At
  <1>6. CASE MakePipe(p)
    BY <1>6, <1>t DEF tableVars, MakePipe, Calls, At
  <1>7. ASSUME NEW e \in Ends, CloseFile(p, e) PROVE Done
    BY <1>7, <1>t DEF tableVars, Ends, ClosingLabel, CloseFile, FileDrop, Calls, At
  <1>8. ASSUME NEW e \in Ends, ClosePipe(p, e) PROVE Done
    <2>1. pc'[p] \in {"user", "exit"}
      BY <1>8, <1>t DEF Ends, ClosingLabel, ClosePipe, Goto, At, WakeOn, Wakeup
    <2>2. \E S : state' = WokenState(S)
      BY <1>8 DEF ClosePipe, WakeOn, Wakeup
    <2> QED BY <2>1, <2>2, <1>w
  <1>9. CASE (\E n \in 1 .. MaxWrite : WriteCall(p, n)) \/ WriteStops(p)
    BY <1>9, <1>t DEF tableVars, WriteCall, Enter, Calls, At, WriteStops, Writing
  <1>10. CASE \E b \in Bytes : WriteByte(p, b)
    BY <1>10, <1>t DEF tableVars, WriteByte, Writing, At
  <1>11. CASE WriteFull(p)
    <2>1. pc'[p] = "writesleep" /\ chan' = [WokenChan({NREAD}) EXCEPT ![p] = NWRITE]
      BY <1>11, <1>t DEF WriteFull, Writing, At
    <2>2. chan'[p] = NWRITE
      BY <2>1 DEF WokenChan
    <2>3. \E S : state' = WokenState(S)
      BY <1>11 DEF WriteFull
    <2> QED BY <2>1, <2>2, <2>3, <1>11, <1>w
  <1>12. CASE WriteReturn(p)
    <2>1. pc'[p] = "user"
      BY <1>12, <1>t DEF WriteReturn, Writing, At, WakeOn, Wakeup
    <2>2. \E S : state' = WokenState(S)
      BY <1>12 DEF WriteReturn, WakeOn, Wakeup
    <2> QED BY <2>1, <2>2, <1>w
  <1>13. CASE ReadCall(p) \/ ReadKilled(p)
    BY <1>13, <1>t DEF tableVars, ReadCall, Enter, Calls, At, ReadKilled, Goto
  <1>14. CASE ReadSleep(p)
    BY <1>14, <1>t DEF ReadSleep, SleepPrepare, Goto, At
  <1>15. ASSUME NEW n, ReadReturn(p, n) PROVE Done
    <2>1. pc'[p] = "user"
      BY <1>15, <1>t DEF ReadReturn, Goto, At
    <2>2. \E S : state' = WokenState(S)
      BY <1>15 DEF ReadReturn, WakeOn, Wakeup
    <2> QED BY <2>1, <2>2, <1>w
  <1>16. ASSUME NEW r \in Procs, Fork(p, r) PROVE Done
    BY <1>16, <1>t DEF Fork, ForkAlloc, Enter, Calls, At, FileDup
  <1>17. ASSUME NEW r \in Procs, Reap(p, r) PROVE Done
    BY <1>17, <1>t DEF Reap, WaitReap, Goto, At
  <1>18. CASE Publish(p)
    BY <1>18, <1>t DEF ForkingIsPrivate, Publish, ForkPublish, Goto, At
  <1>19. CASE Zombie(p)
    BY <1>19, <1>t, ZombieEffect
  <1>20. (\E l \in {"wait", "read", "write"} : Block(p, l)) => Block(p, "wait") \/ Block(p, "read") \/ Block(p, "write")
    OBVIOUS
  <1> QED
    BY <1>1, <1>2, <1>3, <1>4, <1>5, <1>6, <1>7, <1>8, <1>9, <1>10, <1>11, <1>12, <1>13, <1>14,
       <1>15, <1>16, <1>17, <1>18, <1>19, <1>20 DEF Step, Process, Files, Write, Read

LEMMA SleepersChannelStep == ASSUME IInv, NEW p \in Procs, Step(p) PROVE SleepersChannel'
  <1>1. SleepersChannel
    BY DEF IInv
  <1>2. ASSUME NEW q \in Procs, q # p
        PROVE  /\ state'[q] = "SLEEPING" => pc'[q] \in Loops /\ chan'[q] = Channel(q, pc'[q])
               /\ pc'[q] = "waitsleep" => chan'[q] \in {NoChan, q}
               /\ pc'[q] = "readsleep" => chan'[q] \in {NoChan, NREAD}
               /\ pc'[q] = "writesleep" => chan'[q] \in {NoChan, NWRITE}
    BY <1>1, <1>2, OnlyOneMoves DEF SleepersChannel
  <1>3. /\ state'[p] = "SLEEPING" => pc'[p] \in Loops /\ chan'[p] = Channel(p, pc'[p])
        /\ pc'[p] = "waitsleep" => chan'[p] \in {NoChan, p}
        /\ pc'[p] = "readsleep" => chan'[p] \in {NoChan, NREAD}
        /\ pc'[p] = "writesleep" => chan'[p] \in {NoChan, NWRITE}
    BY MoverSleeps
  <1> QED BY <1>2, <1>3 DEF SleepersChannel

\* Whoever waits after a step waited before, and was not woken, or has just
\* found a reason to wait.
LEMMA WaitsBefore ==
  ASSUME IInv, NEW p \in Procs, Step(p), NEW q \in Procs
  PROVE  /\ Waits(q, "wait")' => \/ q = p /\ WaitSleep(p)
                                 \/ q = p /\ Block(p, "wait") /\ Waits(p, "wait")
                                 \/ q # p /\ Waits(q, "wait") /\ chan'[q] = q /\ chan[q] = q
         /\ Waits(q, "read")' => \/ q = p /\ ReadSleep(p)
                                 \/ q = p /\ Block(p, "read") /\ Waits(p, "read")
                                 \/ q # p /\ Waits(q, "read") /\ chan'[q] = NREAD /\ chan[q] = NREAD
         /\ Waits(q, "write")' => \/ q = p /\ WriteFull(p)
                                  \/ q = p /\ Block(p, "write") /\ Waits(p, "write")
                                  \/ /\ q # p /\ Waits(q, "write")
                                     /\ chan'[q] = NWRITE /\ chan[q] = NWRITE
  <1>t. SleepersChannel
    BY DEF IInv
  <1>1. CASE q # p
    <2>1. /\ pc'[q] = pc[q]
          /\ state'[q] = "SLEEPING" => state[q] = "SLEEPING" /\ chan'[q] = chan[q]
          /\ chan'[q] \in {chan[q], NoChan}
      BY <1>1, OnlyOneMoves
    <2>2. /\ state[q] = "SLEEPING" => chan[q] = Channel(q, pc[q])
          /\ pc[q] = "waitsleep" => chan[q] \in {NoChan, q}
          /\ pc[q] = "readsleep" => chan[q] \in {NoChan, NREAD}
          /\ pc[q] = "writesleep" => chan[q] \in {NoChan, NWRITE}
      BY <1>t DEF SleepersChannel
    <2> QED BY <2>1, <2>2, <1>1, WaitsCases, WaitsCasesAfter DEF Channel
  <1>2. CASE q = p
    <2>1. CASE state'[p] = "SLEEPING"
      <3>1. PICK l \in Loops : pc'[p] = l /\ Block(p, l) /\ Waits(p, l)
        BY <2>1, MoverSleeps
      <3> QED BY <3>1, <1>2, WaitsCasesAfter DEF Loops
    <2>2. CASE state'[p] # "SLEEPING"
      BY <2>2, <1>2, WaitsCasesAfter, MoverSleeps
    <2> QED BY <2>1, <2>2
  <1> QED BY <1>1, <1>2

LEMMA ParentsAreWokenStep == ASSUME IInv, NEW p \in Procs, Step(p) PROVE ParentsAreWoken'
  <1>t. TypeOK /\ ProcTypeOK /\ Dormant /\ ForkingIsPrivate /\ ParentAlive /\ NotOwnParent /\ InitLives
        /\ state[p] = "RUNNABLE" /\ InitProc \in Procs /\ NoProc \notin Procs /\ ParentsAreWoken
        /\ NoChan \notin Procs
    BY OnlyOneMoves, Basics DEF IInv, TypeOK
  <1> SUFFICES ASSUME NEW q \in Procs, Waits(q, "wait")'
               PROVE  Children(q)' # {} /\ Zombies(q)' = {}
    BY DEF ParentsAreWoken
  <1>p. q = p => pc'[p] = "waitsleep" \/ pc'[p] = "wait"
    BY WaitsCasesAfter
  <1>1. CASE Quiet(p)
    <2>1. Children(q)' = Children(q)
      BY <1>1 DEF Children, Quiet
    <2>2. Zombies(q)' = Zombies(q)
      BY <2>1, <1>1 DEF Zombies, Quiet, Awake, Children
    <2>3. Waits(q, "wait") => Children(q) # {} /\ Zombies(q) = {}
      BY <1>t DEF ParentsAreWoken
    <2>4. WaitSleep(p) => Children(p) # {} /\ Zombies(p) = {}
      BY DEF WaitSleep, WaitPrepare
    <2> QED BY <2>1, <2>2, <2>3, <2>4, WaitsBefore
  <1>2. ASSUME ~Quiet(p), pc'[p] = "publish" \/ pc'[p] = "user"
        PROVE  q # p /\ Waits(q, "wait") /\ chan'[q] = q /\ chan[q] = q
               /\ Children(q) # {} /\ Zombies(q) = {}
    <2>1. q # p
      BY <1>2, <1>p
    <2> QED BY <2>1, <1>t, WaitsBefore DEF ParentsAreWoken
  <1>3. ASSUME NEW r \in Procs, Fork(p, r), ~Quiet(p) PROVE Children(q)' # {} /\ Zombies(q)' = {}
    <2>1. pc'[p] = "publish" /\ parent' = parent /\ state' = [state EXCEPT ![r] = "USED"]
      BY <1>3, <1>t DEF ProcTypeOK, Fork, ForkAlloc, Enter, Calls, At, FileDup
    <2> QED BY <2>1, <1>2, <1>3, <1>t DEF Children, Zombies, ProcTypeOK
  <1>4. ASSUME NEW r \in Procs, Reap(p, r), ~Quiet(p) PROVE Children(q)' # {} /\ Zombies(q)' = {}
    <2>1. /\ pc'[p] = "user" /\ parent' = [parent EXCEPT ![r] = NoProc]
          /\ state' = [state EXCEPT ![r] = "UNUSED"] /\ parent[r] = p
      BY <1>4, <1>t DEF ProcTypeOK, Zombies, Children, Reap, WaitReap, Goto, At
    <2> QED BY <2>1, <1>2, <1>4, <1>t DEF Children, Zombies, ProcTypeOK
  <1>5. ASSUME Publish(p), ~Quiet(p) PROVE Children(q)' # {} /\ Zombies(q)' = {}
    <2>1. PICK c \in Procs : /\ pc'[p] = "user" /\ parent' = [parent EXCEPT ![c] = p]
                             /\ state' = [state EXCEPT ![c] = "RUNNABLE"] /\ parent[c] = NoProc
      BY <1>5, <1>t DEF ProcTypeOK, ForkingIsPrivate, Dormant, Publish, ForkPublish, Goto, At
    <2>2. q # p /\ Children(q) # {} /\ Zombies(q) = {}
      BY <2>1, <1>2, <1>5
    <2>3. PICK r \in Procs : parent[r] = q
      BY <2>2 DEF Children
    <2>4. parent'[r] = q
      BY <2>1, <2>3, <1>t DEF ProcTypeOK
    <2>5. Zombies(q)' = {}
      BY <2>1, <2>2, <1>t DEF Zombies, Children, ProcTypeOK
    <2> QED BY <2>4, <2>5 DEF Children
  <1>6. ASSUME Zombie(p), ~Quiet(p) PROVE Children(q)' # {} /\ Zombies(q)' = {}
    <2>1. q # p /\ chan'[q] = q /\ chan[q] = q /\ Children(q) # {} /\ Zombies(q) = {}
      BY <1>2, <1>6, ZombieEffect
    <2>2. q # parent[p] /\ (q = InitProc => Children(p) = {})
      <3> DEFINE S == {parent[p]} \cup (IF Children(p) # {} THEN {InitProc} ELSE {})
      <3>1. chan' = [WokenChan(S) EXCEPT ![p] = NoChan]
        BY <1>6 DEF Zombie, ExitZombie
      <3>2. chan'[q] = WokenChan(S)[q]
        BY <3>1, <2>1 DEF WokenChan
      <3>3. q \notin S
        BY <3>2, <2>1, <1>t, WokenFacts
      <3> QED BY <3>3
    <2>3. \A r \in Procs : parent'[r] = q <=> parent[r] = q
      <3> TAKE r \in Procs
      <3>1. parent'[r] = IF parent[r] = p THEN InitProc ELSE parent[r]
        BY <1>6, ZombieEffect
      <3> QED BY <3>1, <2>1, <2>2 DEF Children
    <2>4. Children(q)' = Children(q)
      BY <2>3 DEF Children
    <2>5. p \notin Children(q)
      BY <2>2 DEF Children
    <2>6. Zombies(q)' = {}
      BY <2>1, <2>4, <2>5, <1>6, ZombieEffect DEF Zombies, Children, Awake
    <2> QED BY <2>1, <2>4, <2>6
  <1> QED BY <1>1, <1>3, <1>4, <1>5, <1>6, QuietSteps

-----------------------------------------------------------------------------
(* The ends of the pipe *)

Closing == {"closeR", "exitR", "closeW", "exitW"}

\* A step that neither opens nor closes an end.
LEMMA EndsStay ==
  ASSUME IInv, NEW p \in Procs, Step(p)
  PROVE  \/ /\ ofile' = ofile /\ ref' = ref /\ readopen' = readopen /\ writeopen' = writeopen
            /\ pc[p] \notin Closing /\ pc'[p] \notin Closing
            /\ pc'[p] \in {"read", "readsleep"} => "r" \in ofile[p]
            /\ pc'[p] \in {"write", "copy", "writesleep"} => "w" \in ofile[p]
         \/ \E r \in Procs : Fork(p, r)
         \/ MakePipe(p)
         \/ \E e \in Ends : CloseFile(p, e) \/ ClosePipe(p, e)
  <1> DEFINE Stay == /\ ofile' = ofile /\ ref' = ref /\ readopen' = readopen /\ writeopen' = writeopen
                     /\ pc[p] \notin Closing /\ pc'[p] \notin Closing
                     /\ pc'[p] \in {"read", "readsleep"} => "r" \in ofile[p]
                     /\ pc'[p] \in {"write", "copy", "writesleep"} => "w" \in ofile[p]
  <1>t. pc \in [Procs -> Labels] /\ UsersHoldEnds
    BY DEF IInv, TypeOK, ProcTypeOK
  <1> USE <1>t DEF Closing, UsersHoldEnds, tableVars, pipeVars
  <1>1. CASE Exit(p)
    BY <1>1 DEF Exit, ExitCall, Goto, At
  <1>2. CASE Wait(p) \/ WaitReturn(p)
    BY <1>2 DEF Wait, WaitCall, Enter, Calls, At, WaitReturn, WaitFails, Goto
  <1>3. CASE WaitSleep(p)
    BY <1>3 DEF WaitSleep, WaitPrepare, SleepPrepare, Goto, At
  <1>4. ASSUME NEW l \in {"wait", "read", "write"}, Block(p, l) PROVE Stay
    BY <1>4 DEF Prepared, Block, Sleep, Goto, At
  <1>5. ASSUME NEW r \in Procs, Signal(p, r) PROVE Stay
    BY <1>5 DEF Signal, Kill, Calls, At
  <1>6. ASSUME NEW r \in Procs, Reap(p, r) PROVE Stay
    BY <1>6 DEF Reap, WaitReap, Goto, At
  <1>7. CASE Publish(p)
    BY <1>7 DEF Publish, ForkPublish, Goto, At
  <1>8. CASE Zombie(p)
    BY <1>8, ZombieEffect
  <1>9. ASSUME NEW n, WriteCall(p, n) PROVE Stay
    BY <1>9 DEF WriteCall, Enter, Calls, At
  <1>10. CASE WriteStops(p)
    BY <1>10 DEF WriteStops, Writing, At
  <1>11. CASE WriteFull(p)
    BY <1>11 DEF WriteFull, Writing, At
  <1>12. ASSUME NEW b, WriteByte(p, b) PROVE Stay
    BY <1>12 DEF Put, WriteByte, Writing, At
  <1>13. CASE WriteReturn(p)
    BY <1>13 DEF WriteReturn, Writing, At, WakeOn, Wakeup
  <1>14. CASE ReadCall(p)
    BY <1>14 DEF ReadCall, Enter, Calls, At
  <1>15. CASE ReadKilled(p)
    BY <1>15 DEF ReadKilled, Goto, At
  <1>16. CASE ReadSleep(p)
    BY <1>16 DEF ReadSleep, SleepPrepare, Goto, At
  <1>17. ASSUME NEW n, ReadReturn(p, n) PROVE Stay
    BY <1>17 DEF Take, ReadReturn, Goto, At, WakeOn, Wakeup
  <1> QED
    BY <1>1, <1>2, <1>3, <1>4, <1>5, <1>6, <1>7, <1>8, <1>9, <1>10, <1>11, <1>12, <1>13, <1>14,
       <1>15, <1>16, <1>17 DEF Step, Process, Files, Write, Read

LEMMA UsersHoldEndsStep == ASSUME IInv, NEW p \in Procs, Step(p) PROVE UsersHoldEnds'
  <1>t. /\ pc \in [Procs -> Labels] /\ ofile \in [Procs -> SUBSET Ends]
        /\ UsersHoldEnds /\ Dormant
        /\ \A q \in Procs \ {p} : pc'[q] = pc[q]
    BY OnlyOneMoves DEF IInv, TypeOK, ProcTypeOK
  <1>1. ASSUME NEW r \in Procs, Fork(p, r) PROVE UsersHoldEnds'
    BY <1>1, <1>t DEF UsersHoldEnds, Dormant, Fork, ForkAlloc, Enter, Calls, At, FileDup
  <1>2. CASE MakePipe(p)
    BY <1>2, <1>t DEF UsersHoldEnds, MakePipe, Calls, At
  <1>3. ASSUME NEW e \in Ends, CloseFile(p, e) PROVE UsersHoldEnds'
    BY <1>3, <1>t DEF UsersHoldEnds, ClosingLabel, CloseFile, FileDrop, Calls, At
  <1>4. ASSUME NEW e \in Ends, ClosePipe(p, e) PROVE UsersHoldEnds'
    BY <1>4, <1>t DEF UsersHoldEnds, ClosingLabel, ClosePipe, Goto, At, WakeOn, Wakeup
  <1>5. CASE /\ ofile' = ofile
             /\ pc'[p] \in {"read", "readsleep"} => "r" \in ofile[p]
             /\ pc'[p] \in {"write", "copy", "writesleep"} => "w" \in ofile[p]
    BY <1>5, <1>t DEF UsersHoldEnds
  <1> QED BY <1>1, <1>2, <1>3, <1>4, <1>5, EndsStay

\* The sets behind the counts.
LEMMA HoldersFacts ==
  ASSUME NEW e
  PROVE  /\ IsFiniteSet(Holders(e)) /\ Cardinality(Holders(e)) \in Nat
         /\ Cardinality(Holders(e)) = 0 <=> Holders(e) = {}
         /\ \A q \in Procs : q \in Holders(e) <=> e \in ofile[q]
  <1>1. Holders(e) \subseteq Procs
    BY DEF Holders
  <1>2. IsFiniteSet(Holders(e))
    BY <1>1, Basics, FS_Subset
  <1>3. Cardinality(Holders(e)) \in Nat /\ (Cardinality(Holders(e)) = 0 <=> Holders(e) = {})
    BY <1>2, FS_CardinalityType, FS_EmptySet
  <1> QED BY <1>2, <1>3 DEF Holders

LEMMA ClosersCases ==
  ASSUME NEW q \in Procs
  PROVE  /\ q \in Closers("r") <=> pc[q] \in {"closeR", "exitR"}
         /\ q \in Closers("w") <=> pc[q] \in {"closeW", "exitW"}
         /\ (q \in Closers("r"))' <=> pc'[q] \in {"closeR", "exitR"}
         /\ (q \in Closers("w"))' <=> pc'[q] \in {"closeW", "exitW"}
  BY ClosingLabels DEF Closers

LEMMA EndCountStep ==
  ASSUME IInv, NEW p \in Procs, Step(p), NEW e \in Ends PROVE EndCount(e)'
  <1>t. /\ pc \in [Procs -> Labels] /\ ofile \in [Procs -> SUBSET Ends]
        /\ ref \in [Ends -> Nat] /\ readopen \in BOOLEAN /\ writeopen \in BOOLEAN
        /\ state[p] = "RUNNABLE" /\ Dormant
        /\ \A q \in Procs \ {p} : pc'[q] = pc[q]
    BY OnlyOneMoves DEF IInv, TypeOK, ProcTypeOK, PipeTypeOK, Ends
  <1>c. \A f \in Ends : EndCount(f)
    BY DEF IInv, Ends
  <1>e. EndCount(e)
    BY <1>c
  <1>s. Closers(e) \subseteq Procs /\ Closers(e)' \subseteq Procs
    BY DEF Closers
  <1>k. ASSUME pc[p] \notin Closing, pc'[p] \notin Closing PROVE Closers(e)' = Closers(e)
    BY <1>k, <1>t, <1>s, ClosersCases DEF Ends, Closing
  <1>1. CASE /\ ofile' = ofile /\ ref' = ref /\ readopen' = readopen /\ writeopen' = writeopen
             /\ pc[p] \notin Closing /\ pc'[p] \notin Closing
    <2>1. Closers(e)' = Closers(e)
      BY <1>1, <1>k
    <2>2. Holders(e)' = Holders(e) /\ Open(e)' = Open(e)
      BY <1>1 DEF Holders, Open
    <2> QED BY <2>1, <2>2, <1>1, <1>e DEF EndCount
  <1>2. ASSUME NEW r \in Procs, Fork(p, r) PROVE EndCount(e)'
    <2>1. /\ ofile' = [ofile EXCEPT ![r] = ofile[p]] /\ ofile[r] = {}
          /\ ref' = [f \in {"r", "w"} |-> IF f \in ofile[p] THEN ref[f] + 1 ELSE ref[f]]
          /\ readopen' = readopen /\ writeopen' = writeopen
          /\ pc[p] = "user" /\ pc'[p] = "publish"
      BY <1>2, <1>t DEF Dormant, Fork, ForkAlloc, Enter, Calls, At, FileDup
    <2>2. Closers(e)' = Closers(e)
      BY <2>1, <1>k DEF Closing
    <2>3. Open(e)' = Open(e)
      BY <2>1 DEF Open
    <2>4. CASE e \in ofile[p]
      <3>1. Holders(e)' = Holders(e) \cup {r}
        BY <2>1, <2>4, <1>t DEF Holders
      <3>2. r \notin Holders(e) /\ p \in Holders(e)
        BY <2>1, <2>4 DEF Holders
      <3>3. Cardinality(Holders(e) \cup {r}) = Cardinality(Holders(e)) + 1
        BY <3>2, HoldersFacts, FS_AddElement
      <3>4. ref'[e] = ref[e] + 1
        BY <2>1, <2>4 DEF Ends
      <3> QED BY <3>1, <3>2, <3>3, <3>4, <2>2, <2>3, <1>e DEF EndCount
    <2>5. CASE e \notin ofile[p]
      <3>1. Holders(e)' = Holders(e)
        BY <2>1, <2>5, <1>t DEF Holders
      <3>2. ref'[e] = ref[e]
        BY <2>1, <2>5 DEF Ends
      <3> QED BY <3>1, <3>2, <2>2, <2>3, <1>e DEF EndCount
    <2> QED BY <2>4, <2>5
  <1>3. CASE MakePipe(p)
    <2>1. /\ ofile' = [ofile EXCEPT ![p] = Ends] /\ ref[e] = 0 /\ ~readopen /\ ~writeopen
          /\ ref' = [f \in {"r", "w"} |-> 1] /\ readopen' = TRUE /\ writeopen' = TRUE
          /\ pc' = pc
      BY <1>3 DEF PipeAlloc, Allocated, MakePipe, Calls, At
    <2>2. Closers(e)' = {} /\ Holders(e) = {}
      <3>1. Closers(e)' = Closers(e)
        BY <2>1 DEF Closers
      <3>2. Closers(e) = {} /\ Holders(e) = {}
        BY <2>1, <1>e DEF EndCount, Open
      <3> QED BY <3>1, <3>2
    <2>3. Holders(e)' = {p}
      BY <2>1, <2>2, <1>t DEF Holders
    <2>4. Cardinality({p}) = 1
      BY FS_Singleton
    <2>5. ref'[e] = 1 /\ Open(e)'
      BY <2>1 DEF Open, Ends
    <2> QED BY <2>2, <2>3, <2>4, <2>5 DEF EndCount
  <1>4. ASSUME NEW f \in Ends, CloseFile(p, f) PROVE EndCount(e)'
    <2>1. /\ f \in ofile[p] /\ ofile' = [ofile EXCEPT ![p] = @ \ {f}]
          /\ ref' = [ref EXCEPT ![f] = @ - 1] /\ readopen' = readopen /\ writeopen' = writeopen
          /\ pc[p] \in {"user", "exit"}
          /\ pc' = IF ref[f] = 1 THEN [pc EXCEPT ![p] = ClosingLabel(pc[p], f)] ELSE pc
      BY <1>4 DEF CloseFile, FileDrop, Calls, At
    <2>2. Open(e)' = Open(e)
      BY <2>1 DEF Open
    <2>3. pc[p] \notin Closing
      BY <2>1 DEF Closing
    <2>4. pc'[p] \in Closing => ref[f] = 1
                                /\ pc'[p] \in (IF f = "r" THEN {"closeR", "exitR"} ELSE {"closeW", "exitW"})
      BY <2>1, <2>3, <1>t, ClosingLabels DEF Ends
    <2>5. CASE e # f
      <3>1. Holders(e)' = Holders(e)
        BY <2>1, <2>5, <1>t DEF Holders
      <3>2. ref'[e] = ref[e]
        BY <2>1, <2>5, <1>t
      <3>3. Closers(e)' = Closers(e)
        BY <2>3, <2>4, <2>5, <1>t, <1>s, ClosersCases DEF Ends, Closing
      <3> QED BY <3>1, <3>2, <3>3, <2>2, <1>e DEF EndCount
    <2>6. CASE e = f
      <3>1. Holders(e)' = Holders(e) \ {p} /\ p \in Holders(e)
        BY <2>1, <2>6, <1>t DEF Holders
      <3>2. Cardinality(Holders(e) \ {p}) = Cardinality(Holders(e)) - 1
        BY <3>1, HoldersFacts, FS_RemoveElement
      <3>3. ref'[e] = ref[e] - 1 /\ ref[e] \in Nat
        BY <2>1, <2>6, <1>t
      <3>4. Closers(e) = {} /\ Open(e) /\ ref[e] = Cardinality(Holders(e))
        BY <3>1, <1>e DEF EndCount
      <3>5. ref'[e] = Cardinality(Holders(e)')
        BY <3>1, <3>2, <3>3, <3>4
      <3>6. CASE ref[e] = 1
        <4>1. Holders(e)' = {}
          <5>1. Cardinality(Holders(e) \ {p}) = 0
            BY <3>2, <3>4, <3>6
          <5>2. IsFiniteSet(Holders(e) \ {p})
            BY HoldersFacts, FS_Subset
          <5> QED BY <5>1, <5>2, <3>1, FS_EmptySet
        <4>2. pc'[p] \in (IF f = "r" THEN {"closeR", "exitR"} ELSE {"closeW", "exitW"})
          BY <2>1, <2>6, <3>6, <1>t, ClosingLabels DEF Ends
        <4>3. Closers(e)' = {p}
          BY <4>2, <2>6, <3>4, <1>t, <1>s, ClosersCases DEF Ends
        <4> QED BY <4>1, <4>3, <3>4, <3>5, <2>2 DEF EndCount
      <3>7. CASE ref[e] # 1
        <4>1. Closers(e)' = {}
          BY <2>3, <2>4, <2>6, <3>4, <3>7, <1>t, <1>s, ClosersCases DEF Ends, Closing
        <4>2. Holders(e)' # {}
          <5>1. Cardinality(Holders(e) \ {p}) # 0
            BY <3>2, <3>3, <3>4, <3>7
          <5> QED BY <5>1, <3>1, FS_EmptySet
        <4> QED BY <4>1, <4>2, <3>4, <3>5, <2>2 DEF EndCount
      <3> QED BY <3>6, <3>7
    <2> QED BY <2>5, <2>6
  <1>5. ASSUME NEW f \in Ends, ClosePipe(p, f) PROVE EndCount(e)'
    <2>1. /\ ofile' = ofile /\ ref' = ref
          /\ readopen' = (readopen /\ f # "r") /\ writeopen' = (writeopen /\ f # "w")
          /\ pc[p] \in (IF f = "r" THEN {"closeR", "exitR"} ELSE {"closeW", "exitW"})
          /\ pc'[p] \in {"user", "exit"}
      BY <1>5, <1>t, ClosingLabels DEF PipeClose, Ends, ClosePipe, Goto, At, WakeOn, Wakeup
    <2>2. Holders(e)' = Holders(e)
      BY <2>1 DEF Holders
    <2>3. CASE e = f
      <3>1. p \in Closers(e)
        BY <2>1, <2>3, ClosersCases DEF Ends
      <3>2. Holders(e) = {} /\ Closers(e) = {p}
        BY <3>1, <1>e DEF EndCount
      <3>3. Closers(e)' = {}
        BY <2>1, <3>2, <1>t, <1>s, ClosersCases DEF Ends
      <3>4. ~Open(e)'
        BY <2>1, <2>3 DEF Open, Ends
      <3> QED BY <3>2, <3>3, <3>4, <2>1, <2>2, <1>e DEF EndCount
    <2>4. CASE e # f
      <3>1. Closers(e)' = Closers(e)
        BY <2>1, <2>4, <1>t, <1>s, ClosersCases DEF Ends
      <3>2. Open(e)' = Open(e)
        BY <2>1, <2>4, <1>t DEF Open, Ends
      <3> QED BY <3>1, <3>2, <2>1, <2>2, <1>e DEF EndCount
    <2> QED BY <2>3, <2>4
  <1> QED BY <1>1, <1>2, <1>3, <1>4, <1>5, EndsStay

-----------------------------------------------------------------------------
(* Readers and writers *)

\* Whoever waits for the pipe keeps its end, and so keeps it from being
\* closed.
LEMMA WaitersHoldEnds ==
  ASSUME IInv, NEW q \in Procs
  PROVE  /\ Waits(q, "read") => "r" \in ofile[q] /\ Holders("r") # {} /\ Closers("r") = {} /\ ref["r"] # 0
         /\ Waits(q, "write") => "w" \in ofile[q] /\ Holders("w") # {} /\ Closers("w") = {} /\ ref["w"] # 0
  <1>1. UsersHoldEnds /\ EndCount("r") /\ EndCount("w")
    BY DEF IInv
  <1>2. ASSUME Waits(q, "read") PROVE "r" \in ofile[q]
    BY <1>1, <1>2, WaitsCases DEF UsersHoldEnds
  <1>3. ASSUME Waits(q, "write") PROVE "w" \in ofile[q]
    BY <1>1, <1>3, WaitsCases DEF UsersHoldEnds
  <1>4. ASSUME NEW e \in Ends, e \in ofile[q], EndCount(e)
        PROVE Holders(e) # {} /\ Closers(e) = {} /\ ref[e] # 0
    <2>1. q \in Holders(e)
      BY <1>4, HoldersFacts
    <2> QED BY <2>1, <1>4, HoldersFacts DEF EndCount
  <1> QED BY <1>1, <1>2, <1>3, <1>4 DEF Ends

LEMMA SleepersWaitStep == ASSUME IInv, NEW p \in Procs, Step(p) PROVE SleepersWait'
  <1>t. /\ TypeOK /\ pc \in [Procs -> Labels] /\ SleepersWait /\ cut \in BOOLEAN
        /\ UsersHoldEnds /\ \A q \in Procs \ {p} : pc'[q] = pc[q]
    BY OnlyOneMoves DEF IInv, TypeOK, ProcTypeOK
  <1>w. \A q \in Procs : /\ Waits(q, "read") /\ ~cut => writeopen /\ (PipeFree => Empty)
                         /\ Waits(q, "write") => Full /\ readopen
    BY <1>t DEF SleepersWait
  \* Nothing that anybody waits for changes.
  <1>u. ASSUME UNCHANGED <<ringVars, readopen, writeopen, cut>>, PipeFree' => PipeFree,
               ~WriteFull(p)
        PROVE  SleepersWait'
    <2>1. (Empty' <=> Empty) /\ (Full' <=> Full)
      BY <1>u, RingUnchanged
    <2>2. ASSUME NEW q \in Procs, Waits(q, "read")', ~cut'
          PROVE  writeopen' /\ (PipeFree' => Empty')
      <3>1. ReadSleep(p) => Empty /\ writeopen
        BY DEF ReadSleep
      <3>2. ~cut
        BY <1>u, <2>2
      <3>3. Waits(q, "read") \/ ReadSleep(p)
        BY <2>2, WaitsBefore
      <3> QED BY <3>1, <3>2, <3>3, <2>1, <1>u, <1>w
    <2>3. ASSUME NEW q \in Procs, Waits(q, "write")' PROVE Full' /\ readopen'
      <3>1. Waits(q, "write")
        BY <2>3, <1>u, WaitsBefore
      <3> QED BY <3>1, <2>1, <1>u, <1>w
    <2> QED BY <2>2, <2>3 DEF SleepersWait
  \* The readers, or the writers, were woken.
  <1>r. ASSUME NREAD \notin {chan'[q] : q \in Procs \ {p}}, pc'[p] \notin {"read", "readsleep"}
        PROVE  \A q \in Procs : ~Waits(q, "read")'
    <2> SUFFICES ASSUME NEW q \in Procs, Waits(q, "read")' PROVE FALSE
      OBVIOUS
    <2>1. q # p
      BY <1>r, WaitsCasesAfter
    <2> QED BY <2>1, <1>r, WaitsBefore
  <1>s. ASSUME NWRITE \notin {chan'[q] : q \in Procs \ {p}}, pc'[p] \notin {"write", "writesleep"}
        PROVE  \A q \in Procs : ~Waits(q, "write")'
    <2> SUFFICES ASSUME NEW q \in Procs, Waits(q, "write")' PROVE FALSE
      OBVIOUS
    <2>1. q # p
      BY <1>s, WaitsCasesAfter
    <2> QED BY <2>1, <1>s, WaitsBefore
  <1>n. ASSUME NEW S, NEW ch \in S, ch # NoChan, \A q \in Procs \ {p} : chan'[q] = WokenChan(S)[q]
        PROVE  ch \notin {chan'[q] : q \in Procs \ {p}}
    <2> SUFFICES ASSUME NEW q \in Procs \ {p}, WokenChan(S)[q] = ch PROVE FALSE
      BY <1>n
    <2> QED BY <1>n, <1>t, WokenFacts
  <1>f. ASSUME pc[p] # "copy" PROVE PipeFree' => PipeFree
    BY <1>f, <1>t DEF PipeFree
  <1>1. ASSUME UNCHANGED <<pipeVars, cut>>, pc[p] # "copy", ~WriteFull(p) PROVE SleepersWait'
    BY <1>1, <1>u, <1>f DEF pipeVars
  <1>2. ASSUME NEW r \in Procs, Fork(p, r) PROVE SleepersWait'
    <2>1. UNCHANGED <<ringVars, readopen, writeopen, cut>> /\ pc[p] # "copy" /\ pc'[p] = "publish"
      BY <1>2, <1>t DEF Fork, ForkAlloc, Enter, Calls, At, FileDup
    <2>2. ~WriteFull(p)
      BY <2>1, <1>t DEF WriteFull, Writing, At
    <2> QED BY <2>1, <2>2, <1>u, <1>f
  <1>3. CASE MakePipe(p)
    <2>1. ref["r"] = 0 /\ ref["w"] = 0 /\ pc' = pc /\ pc[p] = "user" /\ chan' = chan /\ state' = state
      BY <1>3 DEF tableVars, Ends, MakePipe, Calls, At
    <2>2. \A q \in Procs : ~Waits(q, "read")' /\ ~Waits(q, "write")'
      BY <2>1, WaitsCases, WaitsCasesAfter, WaitersHoldEnds
    <2> QED BY <2>2 DEF SleepersWait
  <1>4. ASSUME NEW e \in Ends, CloseFile(p, e) PROVE SleepersWait'
    <2>1. UNCHANGED <<ringVars, readopen, writeopen, cut>> /\ pc[p] \in {"user", "exit"}
      BY <1>4, <1>t DEF CloseFile, FileDrop, Calls, At
    <2>2. ~WriteFull(p)
      BY <2>1, <1>t DEF Writing, At, WriteFull
    <2> QED BY <2>1, <2>2, <1>u, <1>f
  <1>5. ASSUME NEW e \in Ends, ClosePipe(p, e) PROVE SleepersWait'
    <2>1. /\ chan' = WokenChan({IF e = "w" THEN NREAD ELSE NWRITE})
          /\ pc[p] \in (IF e = "r" THEN {"closeR", "exitR"} ELSE {"closeW", "exitW"})
          /\ pc'[p] \in {"user", "exit"}
      BY <1>5, <1>t, ClosingLabels DEF Ends, ClosePipe, Goto, At, WakeOn, Wakeup
    <2>2. p \in Closers(e)
      BY <2>1, ClosersCases DEF Ends
    <2>3. CASE e = "r"
      <3>1. \A q \in Procs : ~Waits(q, "write")'
        BY <2>1, <2>3, <1>n, <1>s, Basics
      <3>2. \A q \in Procs : ~Waits(q, "read")
        BY <2>2, <2>3, WaitersHoldEnds
      <3>3. ASSUME NEW q \in Procs, Waits(q, "read")' PROVE FALSE
        <4>1. ReadSleep(p)
          BY <3>2, <3>3, WaitsBefore
        <4> QED BY <4>1, <2>1, <1>t DEF ReadSleep, SleepPrepare, Goto, At
      <3> QED BY <3>1, <3>3 DEF SleepersWait
    <2>4. CASE e = "w"
      <3>1. \A q \in Procs : ~Waits(q, "read")'
        BY <2>1, <2>4, <1>n, <1>r, Basics
      <3>2. \A q \in Procs : ~Waits(q, "write")
        BY <2>2, <2>4, WaitersHoldEnds
      <3>3. ASSUME NEW q \in Procs, Waits(q, "write")' PROVE FALSE
        <4>1. WriteFull(p)
          BY <3>2, <3>3, WaitsBefore
        <4> QED BY <4>1, <2>1, <1>t DEF WriteFull, Writing, At
      <3> QED BY <3>1, <3>3 DEF SleepersWait
    <2> QED BY <2>3, <2>4 DEF Ends
  <1>6. CASE WriteStops(p)
    <2>1. /\ UNCHANGED <<ringVars, readopen, writeopen>>
          /\ cut' = (cut \/ pc[p] = "copy") /\ pc'[p] = "user"
          /\ pc[p] = "write" => PipeFree
      BY <1>6, <1>t DEF pipeVars, WriteStops, Writing, At
    <2>2. ~WriteFull(p)
      BY <2>1, <1>t DEF WriteFull
    <2>3. CASE pc[p] = "copy"
      <3>1. cut'
        BY <2>1, <2>3
      <3>2. ASSUME NEW q \in Procs, Waits(q, "write")' PROVE Full' /\ readopen'
        <4>1. Waits(q, "write")
          BY <3>2, <2>2, WaitsBefore
        <4> QED BY <4>1, <2>1, <1>w, RingUnchanged
      <3> QED BY <3>1, <3>2 DEF SleepersWait
    <2>4. CASE pc[p] # "copy"
      BY <2>1, <2>2, <2>4, <1>t, <1>u, <1>f
    <2> QED BY <2>3, <2>4
  <1>7. CASE WriteFull(p)
    <2>1. /\ Full /\ readopen /\ UNCHANGED <<ringVars, readopen, writeopen>>
          /\ chan' = [WokenChan({NREAD}) EXCEPT ![p] = NWRITE] /\ pc'[p] = "writesleep"
      BY <1>7, <1>t DEF pipeVars, WriteFull, Writing, At
    <2>2. \A q \in Procs \ {p} : chan'[q] = WokenChan({NREAD})[q]
      BY <2>1 DEF WokenChan
    <2>3. \A q \in Procs : ~Waits(q, "read")'
      BY <2>1, <2>2, <1>n, <1>r, Basics
    <2>4. Full' /\ readopen'
      BY <2>1, RingUnchanged
    <2> QED BY <2>3, <2>4 DEF SleepersWait
  <1>8. ASSUME NEW b \in Bytes, WriteByte(p, b) PROVE SleepersWait'
    <2>1. /\ ~Full /\ UNCHANGED <<readopen, writeopen, cut>> /\ pc'[p] = "copy"
          /\ pc[p] \in {"write", "copy"}
      BY <1>8, <1>t DEF Put, WriteByte, Writing, At
    <2>2. ~PipeFree'
      BY <2>1 DEF PipeFree
    <2>3. ASSUME NEW q \in Procs, Waits(q, "write")' PROVE FALSE
      <3>1. Waits(q, "write") \/ WriteFull(p)
        BY <2>3, WaitsBefore
      <3> QED BY <3>1, <2>1, <1>w DEF WriteFull
    <2>4. ASSUME NEW q \in Procs, Waits(q, "read")', ~cut' PROVE writeopen'
      <3>1. Waits(q, "read") \/ ReadSleep(p)
        BY <2>4, WaitsBefore
      <3>2. ~ReadSleep(p)
        BY <2>1 DEF ReadSleep, Goto, At
      <3> QED BY <3>1, <3>2, <2>1, <2>4, <1>w
    <2> QED BY <2>2, <2>3, <2>4 DEF SleepersWait
  <1>9. CASE WriteReturn(p)
    <2>1. /\ UNCHANGED <<ringVars, readopen, writeopen>> /\ chan' = WokenChan({NREAD})
          /\ pc'[p] = "user"
      BY <1>9, <1>t DEF pipeVars, WriteReturn, Writing, At, WakeOn, Wakeup
    <2>2. \A q \in Procs : ~Waits(q, "read")'
      BY <2>1, <1>n, <1>r, Basics
    <2>3. ASSUME NEW q \in Procs, Waits(q, "write")' PROVE Full' /\ readopen'
      <3>1. ~WriteFull(p)
        BY <2>1, <1>t DEF WriteFull
      <3>2. Waits(q, "write")
        BY <2>3, <3>1, WaitsBefore
      <3> QED BY <3>2, <2>1, <1>w, RingUnchanged
    <2> QED BY <2>2, <2>3 DEF SleepersWait
  <1>10. ASSUME NEW n, ReadReturn(p, n) PROVE SleepersWait'
    <2>1. /\ PipeFree /\ (Empty => ~writeopen) /\ chan' = WokenChan({NWRITE})
          /\ pc[p] = "read" /\ pc'[p] = "user" /\ cut' = (cut /\ NREAD \notin {NWRITE})
      BY <1>10, <1>t DEF ReadReturn, Goto, At, WakeOn, Wakeup
    <2>2. \A q \in Procs : ~Waits(q, "write")'
      BY <2>1, <1>n, <1>s, Basics
    <2>3. ASSUME NEW q \in Procs, Waits(q, "read")', ~cut' PROVE FALSE
      <3>1. Waits(q, "read")
        <4>1. ~ReadSleep(p)
          BY <2>1, <1>t DEF ReadSleep, Goto, At
        <4> QED BY <4>1, <2>3, WaitsBefore
      <3>2. ~cut
        BY <2>1, <2>3, Basics
      <3> QED BY <3>1, <3>2, <2>1, <1>w
    <2> QED BY <2>2, <2>3 DEF SleepersWait
  <1>11. \/ \E r \in Procs : Fork(p, r)
         \/ MakePipe(p)
         \/ \E e \in Ends : CloseFile(p, e) \/ ClosePipe(p, e)
         \/ WriteStops(p) \/ WriteFull(p) \/ WriteReturn(p)
         \/ \E b \in Bytes : WriteByte(p, b)
         \/ \E n \in 0 .. PIPESIZE : ReadReturn(p, n)
         \/ UNCHANGED <<pipeVars, cut>> /\ pc[p] # "copy"
    <2>1. ASSUME NEW l \in {"wait", "read", "write"}, Block(p, l) PROVE pc[p] # "copy"
      BY <2>1 DEF Prepared, Block, Sleep, Goto, At
    <2>2. ASSUME NEW r, Reap(p, r) \/ Signal(p, r) PROVE pc[p] # "copy"
      BY <2>2 DEF Reap, WaitReap, Goto, At, Signal, Kill, Calls
    <2>3. ASSUME Publish(p) \/ Exit(p) \/ Zombie(p) \/ Wait(p) \/ WaitReturn(p) \/ WaitSleep(p)
          PROVE  pc[p] # "copy"
      BY <2>3 DEF Publish, ForkPublish, Goto, At, Exit, ExitCall, Zombie, ExitZombie, Wait,
         WaitCall, Enter, Calls, WaitReturn, WaitFails, WaitSleep, WaitPrepare, SleepPrepare
    <2>4. ASSUME NEW n, WriteCall(p, n) \/ ReadCall(p) \/ ReadKilled(p) \/ ReadSleep(p)
          PROVE  pc[p] # "copy"
      BY <2>4 DEF WriteCall, Enter, Calls, At, ReadCall, ReadKilled, Goto, ReadSleep,
         SleepPrepare
    <2> QED BY <2>1, <2>2, <2>3, <2>4 DEF Step, Process, Files, Write, Read, Publish, Exit,
       Zombie, Wait, Reap, WaitReturn, WaitSleep, Block, Signal, WriteCall, ReadCall,
       ReadKilled, ReadSleep
  <1> QED BY <1>1, <1>2, <1>3, <1>4, <1>5, <1>6, <1>7, <1>8, <1>9, <1>10, <1>11

-----------------------------------------------------------------------------
(* The theorems *)

LEMMA StutterIInv == ASSUME IInv, UNCHANGED vars PROVE IInv'
  <1> USE DEF vars, procVars, tableVars, pipeVars, ringVars
  <1>1. TypeOK' /\ InitLives' /\ Dormant' /\ ForkingIsPrivate' /\ ParentAlive' /\ NotOwnParent'
    BY DEF IInv, TypeOK, ProcTypeOK, PipeTypeOK, InitLives, Dormant, ForkingIsPrivate,
       ParentAlive, NotOwnParent
  <1>2. SleepersChannel' /\ UsersHoldEnds'
    BY DEF IInv, SleepersChannel, UsersHoldEnds
  <1>3. \A q \in Procs : /\ Waits(q, "wait")' <=> Waits(q, "wait")
                         /\ Waits(q, "read")' <=> Waits(q, "read")
                         /\ Waits(q, "write")' <=> Waits(q, "write")
    BY WaitsCases, WaitsCasesAfter
  <1>4. ParentsAreWoken'
    <2>1. \A q \in Procs : Children(q)' = Children(q) /\ Zombies(q)' = Zombies(q)
      BY DEF Children, Zombies
    <2> QED BY <2>1, <1>3 DEF IInv, ParentsAreWoken
  <1>5. EndCount("r")' /\ EndCount("w")'
    BY DEF IInv, EndCount, Holders, Closers, Open
  <1>6. SleepersWait' /\ WithinCapacity'
    <2>1. Count' = Count /\ (Empty' <=> Empty) /\ (Full' <=> Full) /\ (PipeFree' <=> PipeFree)
      BY RingUnchanged DEF PipeFree
    <2> QED BY <2>1, <1>3 DEF IInv, SleepersWait, WithinCapacity
  <1> QED BY <1>1, <1>2, <1>4, <1>5, <1>6 DEF IInv

\* The inductive invariant holds in every reachable state.
THEOREM ProcsInvariant == Spec => []IInv
  <1>1. Init => IInv
    BY InitIInv
  <1>2. IInv /\ [Next]_vars => IInv'
    <2> SUFFICES ASSUME IInv, [Next]_vars PROVE IInv'
      OBVIOUS
    <2>1. CASE UNCHANGED vars
      BY <2>1, StutterIInv
    <2>2. ASSUME NEW p \in Procs, Step(p) PROVE IInv'
      <3>1. TypeOK' /\ WithinCapacity'
        BY <2>2, TypeStep
      <3>2. InitLives' /\ Dormant' /\ ForkingIsPrivate' /\ ParentAlive' /\ NotOwnParent'
        BY <2>2, InitLivesStep, DormantStep, ForkingStep, ParentStep
      <3>3. SleepersChannel' /\ ParentsAreWoken' /\ UsersHoldEnds' /\ SleepersWait'
        BY <2>2, SleepersChannelStep, ParentsAreWokenStep, UsersHoldEndsStep, SleepersWaitStep
      <3>4. EndCount("r")' /\ EndCount("w")'
        BY <2>2, EndCountStep DEF Ends
      <3> QED BY <3>1, <3>2, <3>3, <3>4 DEF IInv
    <2> QED BY <2>1, <2>2 DEF Next
  <1> QED BY <1>1, <1>2, PTL DEF Spec

\* Every variable of the process table, the pipe and its files stays within
\* its type; nread and nwrite stay below the point where they wrap.
THEOREM TypeCorrect == Spec => []TypeOK
  BY ProcsInvariant, PTL DEF IInv

\* Whoever waits for a child has one, and none it could reap: no wakeup of
\* kwait() is lost between kexit() and sleep(), reparented children included,
\* and every process that has not exited has a living parent.
THEOREM ParentsReap == Spec => []WaitIsWoken
  <1>1. IInv => WaitIsWoken
    BY DEF IInv, ParentsAreWoken, WaitIsWoken
  <1> QED BY <1>1, ProcsInvariant, PTL

\* No reader sleeps while there are bytes or the write end is closed, and no
\* writer while there is room or the read end is closed, unless a writer was
\* killed before it could tell.
THEOREM PipeWakesUp == Spec => []PipeIsWoken
  <1>1. IInv => PipeIsWoken
    BY DEF IInv, SleepersWait, PipeIsWoken
  <1> QED BY <1>1, ProcsInvariant, PTL

\* The reference counts and the flags of the pipe follow the descriptors: an
\* end is open exactly as long as somebody has it or is closing it, and only
\* one process closes it.
THEOREM EndsCounted == Spec => []EndsAreCounted
  <1>1. ASSUME IInv, NEW e \in Ends
        PROVE  /\ ref[e] = Cardinality(Holders(e))
               /\ Open(e) <=> Holders(e) # {} \/ Closers(e) # {}
               /\ Cardinality(Closers(e)) <= 1
    <2>1. EndCount(e)
      BY <1>1 DEF IInv, Ends
    <2>2. Cardinality(Closers(e)) <= 1
      <3>1. CASE Closers(e) = {}
        BY <3>1, FS_EmptySet
      <3>2. CASE Closers(e) # {}
        <4>1. PICK q : Closers(e) = {q}
          BY <3>2, <2>1 DEF EndCount
        <4> QED BY <4>1, FS_Singleton
      <3> QED BY <3>1, <3>2
    <2> QED BY <2>1, <2>2 DEF EndCount
  <1>2. IInv => EndsAreCounted
    BY <1>1 DEF EndsAreCounted, Holders, Closers, Open
  <1> QED BY <1>2, ProcsInvariant, PTL

-----------------------------------------------------------------------------
(* The pipe is a bounded queue *)

LEMMA AbstractInit == Init => Abstract!Init
  BY DEF Init, PipeInit, Abstract!Init

LEMMA AbstractStep == IInv /\ [Next]_vars => [Abstract!Next]_(Abstract!vars)
  <1> SUFFICES ASSUME IInv, [Next]_vars PROVE Abstract!Next \/ UNCHANGED Abstract!vars
    OBVIOUS
  <1>t. TypeOK /\ PipeTypeOK /\ WithinCapacity /\ readopen \in BOOLEAN /\ writeopen \in BOOLEAN
        /\ EndCount("r") /\ EndCount("w") /\ UsersHoldEnds
    BY DEF IInv, TypeOK, PipeTypeOK
  <1>l. Len(Content) = Count /\ Content \in Seq(Bytes \cup {NoByte}) /\ Count \in 0 .. PIPESIZE
    BY <1>t, ContentLength, CountFacts, PipeAssumption DEF WithinCapacity
  <1>1. ASSUME UNCHANGED <<ringVars, readopen, writeopen>> PROVE UNCHANGED Abstract!vars
    BY <1>1, RingUnchanged DEF Abstract!vars
  <1>2. CASE UNCHANGED vars
    BY <1>1, <1>2 DEF vars, pipeVars
  <1>3. ASSUME NEW p \in Procs, MakePipe(p), Content' = << >> PROVE Abstract!Next
    <2>1. ~readopen /\ ~writeopen /\ readopen' /\ writeopen'
      BY <1>3 DEF MakePipe, PipeAlloc, Allocated
    <2>2. Abstract!Create
      BY <2>1, <1>3 DEF Abstract!Create
    <2> QED BY <2>2 DEF Abstract!Next
  <1>4. ASSUME NEW p \in Procs, NEW e \in Ends, ClosePipe(p, e) PROVE Abstract!Next
    <2>1. /\ readopen' = (readopen /\ e # "r") /\ writeopen' = (writeopen /\ e # "w")
          /\ readopen' \/ writeopen' => UNCHANGED ringVars
          /\ pc[p] \in (IF e = "r" THEN {"closeR", "exitR"} ELSE {"closeW", "exitW"})
      BY <1>4, ClosingLabels DEF PipeClose, Ends, ClosePipe, Goto, At
    <2>2. p \in Closers(e)
      BY <2>1, ClosersCases DEF Ends
    <2>3. CASE e = "r"
      <3>1. readopen /\ ~readopen' /\ writeopen' = writeopen
        BY <2>1, <2>2, <2>3, <1>t DEF EndCount, Open
      <3>2. Abstract!CloseRead
        BY <3>1 DEF Abstract!CloseRead
      <3> QED BY <3>2 DEF Abstract!Next
    <2>4. CASE e = "w"
      <3>1. writeopen /\ ~writeopen' /\ readopen' = readopen
        BY <2>1, <2>2, <2>4, <1>t DEF EndCount, Open
      <3>2. readopen => Content' = Content
        BY <2>1, <3>1, RingUnchanged
      <3>3. Abstract!CloseWrite
        BY <3>1, <3>2 DEF Abstract!CloseWrite
      <3> QED BY <3>3 DEF Abstract!Next
    <2> QED BY <2>3, <2>4 DEF Ends
  <1>5. ASSUME NEW p \in Procs, NEW b \in Bytes, WriteByte(p, b), Count < PIPESIZE,
               Content' = Append(Content, b)
        PROVE  Abstract!Next
    <2>1. readopen /\ readopen' = readopen /\ writeopen' = writeopen /\ pc[p] \in {"write", "copy"}
      BY <1>5 DEF Put, WriteByte, Writing, At
    <2>2. p \in Holders("w")
      BY <2>1, <1>t DEF UsersHoldEnds, Holders
    <2>3. writeopen
      BY <2>2, <1>t DEF EndCount, Open
    <2>4. Len(Content) < PIPESIZE
      BY <1>l, <1>5
    <2>5. Abstract!Put(b)
      BY <2>1, <2>3, <2>4, <1>5 DEF Abstract!Put
    <2> QED BY <2>5 DEF Abstract!Next
  <1>6. ASSUME NEW p \in Procs, NEW n \in 0 .. Count, ReadReturn(p, n),
               Content' = SubSeq(Content, n + 1, Len(Content))
        PROVE  Abstract!Next \/ UNCHANGED Abstract!vars
    <2>1. readopen' = readopen /\ writeopen' = writeopen /\ pc[p] = "read"
      BY <1>6 DEF Take, ReadReturn, Goto, At
    <2>2. p \in Holders("r")
      BY <2>1, <1>t DEF UsersHoldEnds, Holders
    <2>3. readopen
      BY <2>2, <1>t DEF EndCount, Open
    <2>4. CASE n = 0
      <3>1. Content' = Content
        <4>1. ASSUME NEW s \in Seq(Bytes \cup {NoByte}) PROVE SubSeq(s, 1, Len(s)) = s
          OBVIOUS
        <4>2. n + 1 = 1
          BY <2>4
        <4> QED BY <4>1, <4>2, <1>6, <1>l
      <3> QED BY <3>1, <2>1, <2>3 DEF Abstract!vars
    <2>5. CASE n # 0
      <3>1. n \in 1 .. PIPESIZE /\ n <= Len(Content)
        <4>1. n \in Nat /\ n <= Count /\ PIPESIZE \in Nat
          BY <1>6, <1>l, PipeAssumption
        <4> QED BY <4>1, <2>5, <1>l
      <3>2. Abstract!Take(n)
        BY <3>1, <2>1, <2>3, <1>6 DEF Abstract!Take
      <3> QED BY <3>1, <3>2 DEF Abstract!Next
    <2> QED BY <2>4, <2>5
  <1>7. ASSUME NEW p \in Procs, Step(p) PROVE Abstract!Next \/ UNCHANGED Abstract!vars
    BY <1>7, <1>1, <1>3, <1>4, <1>5, <1>6, PipeStep
  <1> QED BY <1>2, <1>7 DEF Next

\* The pipe implements BoundedFifo: the bytes that are written are read once
\* and in order, whatever the counters, the wakeups, fork, exit and kill do.
THEOREM PipeIsFifo == Spec => Fifo
  <1>1. Init => Abstract!Init
    BY AbstractInit
  <1>2. IInv /\ [Next]_vars => [Abstract!Next]_(Abstract!vars)
    BY AbstractStep
  <1> QED BY <1>1, <1>2, ProcsInvariant, PTL DEF Spec, Fifo, Abstract!Spec
=============================================================================
