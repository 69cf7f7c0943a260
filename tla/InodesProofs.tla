---------------------------- MODULE InodesProofs -----------------------------
(***************************************************************************)
(* On the disk every link is counted and the directories are a tree, no    *)
(* inode without links is lost, and no process is stuck: DiskIsConsistent  *)
(* and NobodyStuck of Inodes, for every number of inodes and every finite  *)
(* set of processes and names, whatever the calls and wherever it crashes. *)
(***************************************************************************)
EXTENDS Inodes, NumberProofs, FiniteSetTheorems, SequenceTheorems, TLAPS

-----------------------------------------------------------------------------
(* The inductive invariant *)

\* Where a process is, its iput() aside.
Stage(r) == IF r.pc \in {"put", "drop", "ifree"} THEN r.ret ELSE r.pc

\* sys_link() has given the source a link that no entry has yet.
Linking(r) == r.call = "link" /\ r.parent /\ Stage(r) \in {"walk", "link", "linkundo"}

\* The inodes a process has a reference to, one of each kind; 0 is none.
Kinds == {"cwd", "file", "ip", "other", "victim"}
IpStages == {"walk", "open", "chdir", "cd", "unlink", "unlinkboth", "unlockdp", "create", "mkdir",
             "newip", "link"}
OtherStages == {"unlinkboth", "unlinkip", "newip", "created", "exists", "linkput"}
Holding(c, f, r) ==
    [cwd |-> IF Stage(r) = "cd" THEN 0 ELSE c,
     file |-> f,
     ip |-> IF Stage(r) \in IpStages THEN r.ip ELSE 0,
     other |-> IF Stage(r) \in OtherStages \/ Linking(r) THEN r.other ELSE 0,
     victim |-> IF r.pc \in {"put", "drop"} THEN r.victim ELSE 0]

\* The inode whose lock a process keeps between its steps, or 0
LockOf(r) ==
    IF Stage(r) \in {"unlinkboth", "newip", "unlockdp"} THEN r.ip
    ELSE IF Stage(r) \in {"unlinkip", "created"} THEN r.other ELSE 0

\* Nobody else can reach i: it is new, or being freed.
Alone(r, i) ==
    \/ r.pc = "newip" /\ r.other = i
    \/ r.pc \in {"drop", "ifree"} /\ r.victim = i

Count(g, i) == Cardinality({q \in DOMAIN g : g[q] = i})

\* The variables as one record, and what it holds.
Here == [fs |-> fs, itable |-> itable, cwd |-> cwd, file |-> file, l |-> l]
NodeStates == [fs : [Inums -> Inodes], itable : [Inums -> Slots], cwd : [Users -> Inums],
           file : [Users -> 0 .. NINODES], l : [Users -> Locals]]
References(s) == [q \in Users \X Kinds |-> Holding(s.cwd[q[1]], s.file[q[1]], s.l[q[1]])[q[2]]]

\* Inodes whose entry sys_unlink() has removed and whose link it has not.
Cut(s) == {s.l[p].other : p \in {q \in Users : Stage(s.l[q]) = "unlinkip"}}

\* Links that are no entries: those of sys_link() and sys_unlink() between.
LinkOf(r) == IF Linking(r) \/ Stage(r) = "unlinkip" THEN r.other ELSE 0
Extra(s) == [p \in Users |-> LinkOf(s.l[p])]

\* The directories of the tree, and their entries.
InTree(F, D) == {d \in Inums : F[d].type = "dir" /\ F[d].nlink > 0} \ D
Pointers(F, A) == [q \in Inums \X Entries |-> IF q[1] \in A THEN F[q[1]].ent[q[2]] ELSE 0]
Dir(s) == InTree(s.fs, Cut(s))
Ent(s) == Pointers(s.fs, Dir(s))

\* Every directory but the root has one name, in the directory its ".." is.
Tree(F, A, g, rank) ==
    /\ ROOTINO \in A /\ g[<<ROOTINO, UP>>] = ROOTINO
    /\ \A d \in A : d # ROOTINO =>
          \E e \in A : g[<<d, UP>>] = e /\ rank[e] < rank[d] /\ \E n \in Names : g[<<e, n>>] = d
    /\ \A e \in A, n \in Names, d \in Inums : g[<<e, n>>] = d /\ F[d].type = "dir" =>
          d \in A /\ d # ROOTINO /\ g[<<d, UP>>] = e /\ \A m \in Names : g[<<e, m>>] = d => m = n
    /\ \A d \in Inums \ A, n \in Names : F[d].ent[n] = 0

\* What a free inode and a file have
Shapes(F) == \A i \in Inums :
    /\ F[i].type = "free" => F[i] = FreeInode
    /\ F[i].type = "file" => F[i].ent = NoEntries

\* What is on the disk when no operation is under way
SoundDisk(F) ==
    /\ F \in [Inums -> Inodes] /\ Shapes(F)
    /\ \E rank \in [Inums -> Nat] : Tree(F, InTree(F, {}), Pointers(F, InTree(F, {})), rank)
    /\ \A i \in Inums : F[i].nlink = Count(Pointers(F, InTree(F, {})), i)

\* What the steps of a process rely on
Rets == {"end", "walk", "linkundo", "cd", "unlockdp", "unlinkip", "created", "exists", "linkput"}
InControl(r) ==
    /\ r.pc \in {"put", "drop", "ifree"} => r.victim \in Inums /\ r.ret \in Rets
    /\ Stage(r) \in IpStages => r.ip \in Inums
    /\ Stage(r) \in OtherStages \/ Linking(r) => r.other \in Inums
    /\ Stage(r) \in {"unlink", "create", "mkdir", "unlinkboth", "newip"} \/ (Stage(r) = "link" /\ r.parent) =>
          r.rest # <<>>
    /\ Stage(r) = "walk" =>
          \/ r.call \in {"open", "chdir"} /\ ~r.parent
          \/ r.call \in {"create", "mkdir", "unlink"} /\ r.parent
          \/ r.call = "link"
    /\ Stage(r) = "link" => r.call = "link"
    /\ Stage(r) = "linkundo" => r.call = "link" /\ r.parent
    /\ Stage(r) \in {"create", "mkdir"} => r.call = Stage(r)
    /\ Stage(r) = "newip" => r.call \in {"create", "mkdir"}

Knows(s, p) ==
    LET r == s.l[p]
        F == s.fs IN
    /\ InControl(r)
    /\ Stage(r) \in {"unlink", "create", "mkdir", "unlinkboth", "newip"} \/ (Stage(r) = "link" /\ r.parent) =>
          F[r.ip].type = "dir"
    /\ Linking(r) => F[r.other].type = "file"
    /\ r.pc = "unlinkboth" =>
          Head(r.rest) \in Names /\ r.ip \in Dir(s) /\ F[r.ip].ent[Head(r.rest)] = r.other
    /\ r.pc = "newip" =>
          /\ r.ip \in Dir(s) /\ Head(r.rest) \in Names /\ F[r.ip].ent[Head(r.rest)] = 0
          /\ r.call = "mkdir" => F[r.ip].nlink < NLINK_MAX
          /\ F[r.other] = [FreeInode EXCEPT !.type = IF r.call = "mkdir" THEN "dir" ELSE "file"]
          /\ ~s.itable[r.other].valid
          /\ \A q \in Users \X Kinds : References(s)[q] = r.other => q = <<p, "other">>
    /\ r.pc \in {"drop", "ifree"} =>
          /\ F[r.victim].type # "free" /\ F[r.victim].nlink = 0 /\ F[r.victim].ent = NoEntries
          /\ ~s.itable[r.victim].valid
          /\ \A q \in Users \X Kinds :
                References(s)[q] = r.victim => r.pc = "drop" /\ q = <<p, "victim">>
          /\ \A q \in Users : Alone(s.l[q], r.victim) => q = p

\* The in-memory inodes
Slot(s, i) ==
    /\ s.itable[i].ref = Count(References(s), i)
    /\ \A p \in Users : s.itable[i].lock = p <=> LockOf(s.l[p]) = i
    /\ s.itable[i].lock # None => s.itable[i].valid
    /\ s.itable[i].valid => s.itable[i].type = s.fs[i].type /\ s.itable[i].nlink = s.fs[i].nlink
    /\ s.itable[i].ref > 0 => s.fs[i].type # "free"

\* Whoever has no link is held in memory, new or being freed, once the system is up.
Cared(s, up, i) ==
    s.fs[i].type # "free" /\ s.fs[i].nlink = 0 =>
       \/ s.itable[i].ref > 0 /\ s.itable[i].valid
       \/ \E p \in Users : Alone(s.l[p], i)
       \/ ~up /\ s.itable[i].ref = 0

Coherent(s, up) ==
    /\ s \in NodeStates /\ Shapes(s.fs)
    /\ \E rank \in [Inums -> Nat] : Tree(s.fs, Dir(s), Ent(s), rank)
    /\ \A i \in Inums : s.fs[i].nlink = Count(Ent(s), i) + Count(Extra(s), i)
    /\ \A i \in Inums : Slot(s, i) /\ Cared(s, up, i)
    /\ \A p \in Users : Knows(s, p)

IInv ==
    /\ Coherent(Here, booted)
    /\ SoundDisk(image)
    /\ \A p \in Users : p \in active <=> l[p].pc # "user"
    /\ active \subseteq Users /\ booted \in BOOLEAN
    /\ calls \in 0 .. MaxCalls /\ crashes \in 0 .. MaxCrashes

-----------------------------------------------------------------------------
(* Counting *)

\* What the assumption on the constants gives
LEMMA NodeConstants ==
  /\ NINODES \in Nat /\ NINODES > 0 /\ NLINK_MAX \in Nat /\ NLINK_MAX > 0
  /\ Inums = 1 .. NINODES /\ ROOTINO \in Inums /\ 0 \notin Inums /\ ROOTINO # 0
  /\ \A i \in Inums : i \in Nat /\ i # 0 /\ i \in 0 .. NINODES
  /\ UP \notin Names /\ "/" \notin Entries /\ Entries = Names \cup {UP} /\ UP \in Entries
  /\ None \notin Users
  /\ IsFiniteSet(Users) /\ IsFiniteSet(Inums) /\ IsFiniteSet(Entries) /\ IsFiniteSet(Kinds)
  /\ IsFiniteSet(Inums \X Entries) /\ IsFiniteSet(Users \X Kinds)
  <1>1. NINODES \in Nat /\ NINODES > 0 /\ NLINK_MAX \in Nat /\ NLINK_MAX > 0 /\ Inums = 1 .. NINODES
    BY InodesAssumption DEF Inums
  <1>2. ROOTINO \in Inums /\ 0 \notin Inums /\ ROOTINO # 0
    BY <1>1 DEF ROOTINO
  <1>3. \A i \in Inums : i \in Nat /\ i # 0 /\ i \in 0 .. NINODES
    BY <1>1
  <1>4. UP \notin Names /\ "/" \notin Entries /\ Entries = Names \cup {UP} /\ UP \in Entries
    BY InodesAssumption DEF Entries, UP
  <1>5. IsFiniteSet(Users) /\ IsFiniteSet(Inums)
    BY <1>1, InodesAssumption, FS_Interval
  <1>6. IsFiniteSet({UP}) /\ IsFiniteSet(Names)
    BY InodesAssumption, FS_Singleton
  <1>7. IsFiniteSet(Entries)
    BY <1>4, <1>6, FS_Union
  <1>8. IsFiniteSet(Kinds)
    <2>1. Kinds = (((({} \cup {"cwd"}) \cup {"file"}) \cup {"ip"}) \cup {"other"}) \cup {"victim"}
      BY DEF Kinds
    <2> QED BY <2>1, FS_EmptySet, FS_AddElement
  <1>9. IsFiniteSet(Inums \X Entries) /\ IsFiniteSet(Users \X Kinds)
    BY <1>5, <1>7, <1>8, FS_Product
  <1> QED BY <1>1, <1>2, <1>3, <1>4, <1>5, <1>7, <1>8, <1>9, InodesAssumption

\* Of finitely many places a number count.
LEMMA CountNat ==
  ASSUME NEW g, IsFiniteSet(DOMAIN g), NEW i
  PROVE  Count(g, i) \in Nat /\ IsFiniteSet({q \in DOMAIN g : g[q] = i})
  <1>1. IsFiniteSet({q \in DOMAIN g : g[q] = i})
    BY FS_Subset
  <1> QED BY <1>1, FS_CardinalityType DEF Count

\* Two functions that have i in the same places count alike.
LEMMA CountSame ==
  ASSUME NEW g, NEW h, DOMAIN g = DOMAIN h, NEW i, \A q \in DOMAIN g : g[q] = i <=> h[q] = i
  PROVE  Count(g, i) = Count(h, i)
  <1>1. {q \in DOMAIN g : g[q] = i} = {q \in DOMAIN h : h[q] = i}
    OBVIOUS
  <1> QED BY <1>1 DEF Count

\* Something counts.
LEMMA CountSome ==
  ASSUME NEW g, IsFiniteSet(DOMAIN g), NEW i
  PROVE  Count(g, i) > 0 <=> \E q \in DOMAIN g : g[q] = i
  <1> DEFINE S == {q \in DOMAIN g : g[q] = i}
  <1>1. IsFiniteSet(S) /\ Count(g, i) \in Nat /\ Count(g, i) = Cardinality(S)
    BY CountNat DEF Count
  <1>2. Cardinality(S) = 0 <=> S = {}
    BY <1>1, FS_EmptySet
  <1>3. S = {} <=> ~ \E q \in DOMAIN g : g[q] = i
    OBVIOUS
  <1> QED BY <1>1, <1>2, <1>3

\* One that counts alone is the only one.
LEMMA CountOne ==
  ASSUME NEW g, IsFiniteSet(DOMAIN g), NEW i, NEW q \in DOMAIN g, g[q] = i
  PROVE  Count(g, i) = 1 <=> \A x \in DOMAIN g : g[x] = i => x = q
  <1> DEFINE S == {x \in DOMAIN g : g[x] = i}
  <1>1. IsFiniteSet(S) /\ Count(g, i) = Cardinality(S) /\ q \in S
    BY CountNat DEF Count
  <1>2. Cardinality(S) = 1 <=> \E x : S = {x}
    BY <1>1, FS_Singleton
  <1>3. (\E x : S = {x}) <=> S = {q}
    BY <1>1
  <1>4. S = {q} <=> \A x \in DOMAIN g : g[x] = i => x = q
    BY <1>1
  <1> QED BY <1>1, <1>2, <1>3, <1>4

Is(a, b) == IF a = b THEN 1 ELSE 0

\* A change in one place
LEMMA CountChange ==
  ASSUME NEW g, NEW h, DOMAIN h = DOMAIN g, IsFiniteSet(DOMAIN g), NEW x \in DOMAIN g,
         \A q \in DOMAIN g : q # x => h[q] = g[q], NEW i
  PROVE  Count(h, i) = Count(g, i) - Is(g[x], i) + Is(h[x], i)
  <1> DEFINE B == {q \in DOMAIN g : q # x /\ g[q] = i}
             Set(f) == {q \in DOMAIN f : f[q] = i}
  <1>1. IsFiniteSet(B) /\ x \notin B
    BY FS_Subset
  <1>2. ASSUME NEW f, DOMAIN f = DOMAIN g, \A q \in DOMAIN g : q # x => f[q] = g[q]
        PROVE  Count(f, i) = Cardinality(B) + Is(f[x], i)
    <2>1. CASE f[x] = i
      <3>1. Set(f) = B \cup {x}
        BY <1>2, <2>1
      <3>2. Cardinality(B \cup {x}) = Cardinality(B) + 1
        BY <1>1, FS_AddElement
      <3> QED BY <2>1, <3>1, <3>2 DEF Count, Is
    <2>2. CASE f[x] # i
      <3>1. Set(f) = B
        BY <1>2, <2>2
      <3>2. Cardinality(B) \in Nat
        BY <1>1, FS_CardinalityType
      <3> QED BY <2>2, <3>1, <3>2 DEF Count, Is
    <2> QED BY <2>1, <2>2
  <1>3. Count(g, i) = Cardinality(B) + Is(g[x], i)
    BY <1>2
  <1>4. Count(h, i) = Cardinality(B) + Is(h[x], i)
    BY <1>2
  <1>5. Cardinality(B) \in Nat
    BY <1>1, FS_CardinalityType
  <1> QED BY <1>3, <1>4, <1>5 DEF Is

-----------------------------------------------------------------------------
(* References *)

\* How many references to i a process has
Own(h, i) == Is(h.cwd, i) + Is(h.file, i) + Is(h.ip, i) + Is(h.other, i) + Is(h.victim, i)
Of(s, p) == Holding(s.cwd[p], s.file[p], s.l[p])
Reaches(s, p, i) == \E k \in Kinds : Of(s, p)[k] = i

OnlyBy(s, t, p) ==
    \A q \in Users : q # p => t.l[q] = s.l[q] /\ t.cwd[q] = s.cwd[q] /\ t.file[q] = s.file[q]

\* The five references one by one
LEMMA HoldingFields ==
  ASSUME NEW c, NEW f, NEW r
  PROVE  /\ Holding(c, f, r).cwd = IF Stage(r) = "cd" THEN 0 ELSE c
         /\ Holding(c, f, r).file = f
         /\ Holding(c, f, r).ip = IF Stage(r) \in IpStages THEN r.ip ELSE 0
         /\ Holding(c, f, r).other = IF Stage(r) \in OtherStages \/ Linking(r) THEN r.other ELSE 0
         /\ Holding(c, f, r).victim = IF r.pc \in {"put", "drop"} THEN r.victim ELSE 0
  BY DEF Holding

\* A reference is one of its process.
LEMMA ReferenceOf ==
  ASSUME NEW s
  PROVE  /\ DOMAIN References(s) = Users \X Kinds
         /\ \A p \in Users, k \in Kinds : References(s)[<<p, k>>] = Of(s, p)[k]
         /\ \A q \in Users \X Kinds : References(s)[q] = Of(s, q[1])[q[2]] /\ q = <<q[1], q[2]>>
  BY DEF References, Of

\* Process p's references of the kinds T are those in h, the others those in g.
Mix(g, h, p, T) == [q \in Users \X Kinds |-> IF q[1] = p /\ q[2] \in T THEN h[q] ELSE g[q]]

\* One more kind taken from h
LEMMA CountKind ==
  ASSUME NEW g, NEW h, NEW p \in Users, NEW i, NEW S, NEW k \in Kinds, k \notin S
  PROVE  Count(Mix(g, h, p, S \cup {k}), i) =
            Count(Mix(g, h, p, S), i) - Is(g[<<p, k>>], i) + Is(h[<<p, k>>], i)
  <1>1. PICK a, b, x : a = Mix(g, h, p, S) /\ b = Mix(g, h, p, S \cup {k}) /\ x = <<p, k>>
    OBVIOUS
  <1>2. x \in Users \X Kinds /\ x[1] = p /\ x[2] = k
    BY <1>1
  <1>3. DOMAIN a = Users \X Kinds /\ DOMAIN b = Users \X Kinds
    BY <1>1 DEF Mix
  <1>4. \A q \in Users \X Kinds : q # x => ~(q[1] = p /\ q[2] = k)
    BY <1>1
  <1>5. \A q \in DOMAIN a : q # x => b[q] = a[q]
    BY <1>1, <1>3, <1>4 DEF Mix
  <1>6. a[x] = g[x] /\ b[x] = h[x]
    BY <1>1, <1>2 DEF Mix
  <1>7. IsFiniteSet(DOMAIN a) /\ DOMAIN b = DOMAIN a /\ x \in DOMAIN a
    BY <1>2, <1>3, NodeConstants
  <1>8. Count(b, i) = Count(a, i) - Is(a[x], i) + Is(b[x], i)
    BY <1>5, <1>7, CountChange
  <1> QED BY <1>1, <1>6, <1>8

\* When one process moves, the references to i change by its own.
LEMMA CountMoves ==
  ASSUME NEW s, NEW t, NEW p \in Users, OnlyBy(s, t, p), NEW i
  PROVE  Count(References(t), i) = Count(References(s), i) - Own(Of(s, p), i) + Own(Of(t, p), i)
  <1>1. PICK g, h : g = References(s) /\ h = References(t)
    OBVIOUS
  <1> DEFINE mix(T) == Mix(g, h, p, T)
             n(T) == Count(mix(T), i)
             d(k) == Is(h[<<p, k>>], i) - Is(g[<<p, k>>], i)
  <1>2. DOMAIN g = Users \X Kinds /\ DOMAIN h = Users \X Kinds
    BY <1>1, ReferenceOf
  <1>3. ASSUME NEW S, NEW k \in Kinds, k \notin S
        PROVE  n(S \cup {k}) = n(S) + d(k)
    <2>1. n(S \cup {k}) = n(S) - Is(g[<<p, k>>], i) + Is(h[<<p, k>>], i)
      BY <1>3, CountKind
    <2>2. n(S) \in Nat
      <3>1. DOMAIN mix(S) = Users \X Kinds
        BY DEF Mix
      <3> QED BY <3>1, CountNat, NodeConstants
    <2> HIDE DEF n
    <2> QED BY <2>1, <2>2 DEF Is
  <1>4. n({}) = Count(g, i)
    <2>1. mix({}) = g
      BY <1>1, <1>2 DEF References, Mix
    <2> QED BY <2>1
  <1>5. n(Kinds) = Count(h, i)
    <2>1. ASSUME NEW q \in Users \X Kinds PROVE mix(Kinds)[q] = h[q]
      <3>1. CASE q[1] = p
        BY <3>1 DEF Mix
      <3>2. CASE q[1] # p
        <4>1. q[1] \in Users /\ Of(s, q[1]) = Of(t, q[1])
          BY <3>2 DEF OnlyBy, Of
        <4> QED BY <1>1, <3>2, <4>1, ReferenceOf DEF Mix
      <3> QED BY <3>1, <3>2
    <2>2. mix(Kinds) = h
      <3>1. h = [q \in Users \X Kinds |-> h[q]]
        BY <1>1 DEF References
      <3> HIDE DEF mix
      <3>2. mix(Kinds) = [q \in Users \X Kinds |-> mix(Kinds)[q]]
        BY DEF mix, Mix
      <3> QED BY <2>1, <3>1, <3>2
    <2> QED BY <2>2
  <1>6. n({}) \in Nat
    <2>1. DOMAIN mix({}) = Users \X Kinds
      BY DEF Mix
    <2> QED BY <2>1, CountNat, NodeConstants
  <1>7. /\ n({} \cup {"cwd"}) = n({}) + d("cwd")
        /\ n({"cwd"} \cup {"file"}) = n({"cwd"}) + d("file")
        /\ n({"cwd", "file"} \cup {"ip"}) = n({"cwd", "file"}) + d("ip")
        /\ n({"cwd", "file", "ip"} \cup {"other"}) = n({"cwd", "file", "ip"}) + d("other")
        /\ n({"cwd", "file", "ip", "other"} \cup {"victim"}) = n({"cwd", "file", "ip", "other"}) + d("victim")
    <2> HIDE DEF n, d
    <2>1. "cwd" \in Kinds /\ "file" \in Kinds /\ "ip" \in Kinds /\ "other" \in Kinds /\ "victim" \in Kinds
      BY DEF Kinds
    <2>2. /\ "cwd" \notin {} /\ "file" \notin {"cwd"} /\ "ip" \notin {"cwd", "file"}
          /\ "other" \notin {"cwd", "file", "ip"} /\ "victim" \notin {"cwd", "file", "ip", "other"}
      OBVIOUS
    <2> QED BY <1>3, <2>1, <2>2
  <1>8. /\ {} \cup {"cwd"} = {"cwd"} /\ {"cwd"} \cup {"file"} = {"cwd", "file"}
        /\ {"cwd", "file"} \cup {"ip"} = {"cwd", "file", "ip"}
        /\ {"cwd", "file", "ip"} \cup {"other"} = {"cwd", "file", "ip", "other"}
        /\ {"cwd", "file", "ip", "other"} \cup {"victim"} = Kinds
    BY DEF Kinds
  <1>9. \A k \in Kinds : d(k) \in Int
    BY DEF Is
  <1>10. d("cwd") \in Int /\ d("file") \in Int /\ d("ip") \in Int /\ d("other") \in Int /\ d("victim") \in Int
    BY <1>9 DEF Kinds
  <1>11. n(Kinds) = n({}) + d("cwd") + d("file") + d("ip") + d("other") + d("victim")
    <2> HIDE DEF n, d
    <2> QED BY <1>6, <1>7, <1>8, <1>10
  <1>12. /\ \A k \in Kinds : g[<<p, k>>] = Of(s, p)[k] /\ h[<<p, k>>] = Of(t, p)[k]
    BY <1>1, ReferenceOf
  <1>13. /\ g[<<p, "cwd">>] = Of(s, p).cwd /\ h[<<p, "cwd">>] = Of(t, p).cwd
         /\ g[<<p, "file">>] = Of(s, p).file /\ h[<<p, "file">>] = Of(t, p).file
         /\ g[<<p, "ip">>] = Of(s, p).ip /\ h[<<p, "ip">>] = Of(t, p).ip
         /\ g[<<p, "other">>] = Of(s, p).other /\ h[<<p, "other">>] = Of(t, p).other
         /\ g[<<p, "victim">>] = Of(s, p).victim /\ h[<<p, "victim">>] = Of(t, p).victim
    BY <1>12 DEF Kinds
  <1>14. Count(h, i) = Count(g, i) + d("cwd") + d("file") + d("ip") + d("other") + d("victim")
         /\ Count(g, i) \in Nat
    BY <1>4, <1>5, <1>6, <1>11
  <1> HIDE DEF n, mix
  <1>15. Count(h, i) = Count(g, i) - Own(Of(s, p), i) + Own(Of(t, p), i)
    BY <1>13, <1>14 DEF Own, Is
  <1> QED BY <1>1, <1>15

-----------------------------------------------------------------------------
(* What a process may count on *)

May(s, p, i) == \A q \in Users : q # p => ~Alone(s.l[q], i)

\* A process reaches i by one of the five kinds.
LEMMA ReachKinds ==
  ASSUME NEW s, NEW p, NEW i
  PROVE  /\ Of(s, p).cwd = i \/ Of(s, p).file = i \/ Of(s, p).ip = i \/ Of(s, p).other = i
              \/ Of(s, p).victim = i <=> Reaches(s, p, i)
  BY DEF Reaches, Kinds

\* An inode that a process reaches counts a reference and is not free.
LEMMA ReachCounts ==
  ASSUME NEW s, NEW up, Coherent(s, up), NEW p \in Users, NEW i \in Inums, Reaches(s, p, i)
  PROVE  s.itable[i].ref > 0 /\ s.fs[i].type # "free"
  <1>1. PICK k \in Kinds : Of(s, p)[k] = i
    BY DEF Reaches
  <1>2. <<p, k>> \in Users \X Kinds /\ References(s)[<<p, k>>] = i
    BY <1>1, ReferenceOf
  <1>3. Count(References(s), i) > 0
    <2>1. PICK g : g = References(s)
      OBVIOUS
    <2>2. IsFiniteSet(DOMAIN g) /\ DOMAIN g = Users \X Kinds
      BY <2>1, ReferenceOf, NodeConstants
    <2> QED BY <1>2, <2>1, <2>2, CountSome
  <1> QED BY <1>3 DEF Coherent, Slot

\* What is being created or freed is out of reach of the others.
LEMMA AloneFacts ==
  ASSUME NEW s, NEW up, Coherent(s, up), NEW q \in Users, NEW i \in Inums, Alone(s.l[q], i)
  PROVE  /\ s.fs[i].nlink = 0 /\ s.fs[i].ent = NoEntries /\ s.fs[i].type # "free"
         /\ ~s.itable[i].valid /\ s.itable[i].lock = None
         /\ \A p \in Users : p # q => ~Reaches(s, p, i) /\ ~Alone(s.l[p], i)
  <1>1. Knows(s, q) /\ Slot(s, i) /\ \A p \in Users : Knows(s, p)
    BY DEF Coherent
  <1>2. /\ s.fs[i].nlink = 0 /\ s.fs[i].ent = NoEntries /\ s.fs[i].type # "free"
        /\ ~s.itable[i].valid
        /\ \A z \in Users \X Kinds : References(s)[z] = i => z[1] = q
    <2>1. CASE s.l[q].pc = "newip"
      <3>1. s.l[q].other = i
        BY <2>1 DEF Alone
      <3>2. /\ s.fs[i] = [FreeInode EXCEPT !.type = IF s.l[q].call = "mkdir" THEN "dir" ELSE "file"]
            /\ ~s.itable[i].valid
            /\ \A z \in Users \X Kinds : References(s)[z] = i => z = <<q, "other">>
        BY Zenon, <1>1, <2>1, <3>1 DEF Knows
      <3>3. s.fs[i].nlink = 0 /\ s.fs[i].ent = NoEntries /\ s.fs[i].type # "free"
        BY <3>2 DEF FreeInode
      <3> QED BY <3>2, <3>3
    <2>2. CASE s.l[q].pc \in {"drop", "ifree"}
      <3>1. s.l[q].victim = i
        BY <2>2 DEF Alone
      <3>2. /\ s.fs[i].type # "free" /\ s.fs[i].nlink = 0 /\ s.fs[i].ent = NoEntries
            /\ ~s.itable[i].valid
            /\ \A z \in Users \X Kinds : References(s)[z] = i => z = <<q, "victim">>
        BY Zenon, <1>1, <2>2, <3>1 DEF Knows
      <3> QED BY <3>2
    <2> QED BY <2>1, <2>2 DEF Alone
  <1>3. s.itable[i].lock = None
    BY <1>1, <1>2 DEF Slot
  <1>4. ASSUME NEW p \in Users, p # q PROVE ~Reaches(s, p, i)
    <2>1. ASSUME NEW k \in Kinds, Of(s, p)[k] = i PROVE FALSE
      <3>1. <<p, k>> \in Users \X Kinds /\ References(s)[<<p, k>>] = i
        BY <2>1, ReferenceOf
      <3>2. <<p, k>>[1] = q
        BY <1>2, <3>1
      <3> QED BY <1>4, <3>2
    <2> QED BY <2>1 DEF Reaches
  <1>5. ASSUME NEW p \in Users, p # q, Alone(s.l[p], i) PROVE FALSE
    <2>1. CASE s.l[p].pc = "newip"
      <3>1. Of(s, p).other = i
        BY <1>5, <2>1 DEF Alone, Of, Holding, Stage, OtherStages
      <3> QED BY <1>4, <1>5, <3>1, ReachKinds
    <2>2. CASE s.l[p].pc \in {"drop", "ifree"}
      <3>1. s.l[p].victim = i /\ Knows(s, p)
        BY Zenon, <1>1, <1>5, <2>2 DEF Alone
      <3>2. \A x \in Users : Alone(s.l[x], i) => x = p
        BY <2>2, <3>1 DEF Knows
      <3> QED BY <1>5, <3>2
    <2> QED BY <1>5, <2>1, <2>2 DEF Alone
  <1> QED BY <1>2, <1>3, <1>4, <1>5

\* Nobody but p is alone with an inode that p reaches, or that has a link, is
\* free, cached or locked.
LEMMA MayReach ==
  ASSUME NEW s, NEW up, Coherent(s, up), NEW p \in Users, NEW i \in Inums,
         Reaches(s, p, i) \/ s.fs[i].nlink > 0 \/ s.fs[i].type = "free" \/ s.itable[i].valid
           \/ s.itable[i].lock # None
  PROVE  May(s, p, i)
  <1>1. ASSUME NEW q \in Users, q # p, Alone(s.l[q], i) PROVE FALSE
    <2>1. s.fs[i].nlink = 0
      BY <1>1, AloneFacts
    <2> QED BY <1>1, <2>1, AloneFacts
  <1> QED BY <1>1 DEF May

\* A lock belongs to who has a reference.
LEMMA LockReaches ==
  ASSUME NEW s, NEW p, NEW i, LockOf(s.l[p]) = i, i # 0
  PROVE  Reaches(s, p, i)
  <1>1. \/ Stage(s.l[p]) \in IpStages /\ i = s.l[p].ip
        \/ Stage(s.l[p]) \in OtherStages /\ i = s.l[p].other
    BY DEF LockOf, IpStages, OtherStages
  <1>2. Of(s, p).ip = i \/ Of(s, p).other = i
    BY <1>1, HoldingFields DEF Of
  <1> QED BY <1>2, ReachKinds

\* The inodes cut off are locked by those who cut them.
LEMMA CutIsLocked ==
  ASSUME NEW s, NEW i
  PROVE  i \in Cut(s) <=> \E q \in Users : Stage(s.l[q]) = "unlinkip" /\ LockOf(s.l[q]) = i
  BY DEF Cut, LockOf

\* A directory that has a link and that nobody unlinks is in the tree.
LEMMA IsInTree ==
  ASSUME NEW s, NEW up, Coherent(s, up), NEW i \in Inums,
         s.fs[i].type = "dir", s.fs[i].nlink > 0,
         \A q \in Users : s.itable[i].lock = q => Stage(s.l[q]) # "unlinkip"
  PROVE  i \in Dir(s)
  <1>1. Slot(s, i)
    BY DEF Coherent
  <1>2. i \notin Cut(s)
    BY <1>1, CutIsLocked DEF Slot
  <1> QED BY <1>2 DEF Dir, InTree

\* Entries that count are those of the directories of the tree.
LEMMA EntFacts ==
  ASSUME NEW s
  PROVE  /\ DOMAIN Ent(s) = Inums \X Entries
         /\ \A d \in Dir(s), n \in Entries : Ent(s)[<<d, n>>] = s.fs[d].ent[n]
         /\ \A d \in Inums \ Dir(s), n \in Entries : Ent(s)[<<d, n>>] = 0
         /\ Dir(s) \subseteq Inums
         /\ \A d \in Dir(s) : s.fs[d].type = "dir" /\ s.fs[d].nlink > 0
  BY DEF Ent, Pointers, Dir, InTree

\* What an entry names has a link.
LEMMA NamedIsLinked ==
  ASSUME NEW s, NEW up, Coherent(s, up), NEW d \in Dir(s), NEW n \in Entries, s.fs[d].ent[n] # 0
  PROVE  s.fs[d].ent[n] \in Inums /\ s.fs[s.fs[d].ent[n]].nlink > 0 /\ s.fs[s.fs[d].ent[n]].type # "free"
  <1>1. PICK g, x, i : g = Ent(s) /\ x = Extra(s) /\ i = s.fs[d].ent[n]
    OBVIOUS
  <1>2. s.fs \in [Inums -> Inodes] /\ d \in Inums
    BY EntFacts DEF Coherent, NodeStates
  <1>3. i \in Inums
    <2>1. s.fs[d] \in Inodes
      BY <1>2
    <2>2. s.fs[d].ent[n] \in 0 .. NINODES
      BY <2>1 DEF Inodes
    <2> QED BY <1>1, <2>2, NodeConstants
  <1>4. DOMAIN g = Inums \X Entries /\ <<d, n>> \in Inums \X Entries /\ g[<<d, n>>] = i
    BY <1>1, <1>2, EntFacts
  <1>5. DOMAIN x = Users /\ IsFiniteSet(Users) /\ IsFiniteSet(Inums \X Entries)
    BY <1>1, NodeConstants DEF Extra
  <1>6. Count(g, i) > 0 /\ Count(g, i) \in Nat
    BY <1>4, <1>5, CountSome, CountNat
  <1>7. Count(x, i) \in Nat
    BY <1>5, CountNat
  <1>8. s.fs[i].nlink = Count(g, i) + Count(x, i)
    BY <1>1, <1>3 DEF Coherent
  <1>9. s.fs[i].nlink > 0
    BY <1>6, <1>7, <1>8
  <1>10. s.fs[i].type # "free"
    <2>1. s.fs[i].type = "free" => s.fs[i].nlink = 0
      BY <1>3 DEF Coherent, Shapes, FreeInode
    <2> QED BY <1>9, <2>1
  <1> QED BY <1>1, <1>3, <1>9, <1>10

-----------------------------------------------------------------------------
(* Steps *)

Undisturbed(s, t, p) ==
    \A q \in Users, i \in Inums : q # p =>
       /\ LockOf(s.l[q]) = i => t.fs[i] = s.fs[i]
       /\ Alone(s.l[q], i) =>
             /\ t.fs[i] = s.fs[i] /\ t.itable[i].valid = s.itable[i].valid
             /\ ~Reaches(t, p, i) /\ ~Alone(t.l[p], i)
       /\ Reaches(s, q, i) => t.fs[i].type = s.fs[i].type

\* What the other processes rely on stays when p disturbs none of it.
LEMMA OthersKnow ==
  ASSUME NEW s, NEW t, NEW up, Coherent(s, up), NEW p \in Users, OnlyBy(s, t, p),
         Undisturbed(s, t, p), \A i \in Inums : Slot(t, i), NEW q \in Users, q # p
  PROVE  Knows(t, q)
  <1>1. PICK r : r = s.l[q]
    OBVIOUS
  <1>2. Knows(s, q) /\ t.l[q] = r /\ s.l[q] = r
    BY <1>1 DEF Coherent, OnlyBy
  <1>3. InControl(r)
    BY <1>2 DEF Knows
  <1>4. Of(t, q) = Of(s, q)
    BY DEF Of, OnlyBy
  <1>5. ASSUME NEW i \in Inums
        PROVE  /\ LockOf(r) = i => t.fs[i] = s.fs[i]
               /\ Alone(r, i) =>
                     /\ t.fs[i] = s.fs[i] /\ t.itable[i].valid = s.itable[i].valid
                     /\ ~Reaches(t, p, i) /\ ~Alone(t.l[p], i)
               /\ Reaches(s, q, i) => t.fs[i].type = s.fs[i].type
    BY <1>1 DEF Undisturbed
  <1>6. Stage(r) \in IpStages => r.ip \in Inums /\ t.fs[r.ip].type = s.fs[r.ip].type
    <2>1. Stage(r) \in IpStages => r.ip \in Inums /\ Of(s, q).ip = r.ip
      BY <1>2, <1>3, HoldingFields DEF Of, InControl
    <2> QED BY <1>5, <2>1, ReachKinds
  <1>7. Stage(r) \in OtherStages \/ Linking(r) => r.other \in Inums /\ t.fs[r.other].type = s.fs[r.other].type
    <2>1. Stage(r) \in OtherStages \/ Linking(r) => r.other \in Inums /\ Of(s, q).other = r.other
      BY <1>2, <1>3, HoldingFields DEF Of, InControl
    <2> QED BY <1>5, <2>1, ReachKinds
  <1>8. ASSUME r.pc \in {"unlinkboth", "newip"}, r.ip \in Dir(s)
        PROVE  t.fs[r.ip] = s.fs[r.ip] /\ r.ip \in Dir(t)
    <2>1. Stage(r) = r.pc /\ r.ip \in Inums /\ LockOf(r) = r.ip
      BY <1>3, <1>8 DEF Stage, LockOf, InControl, IpStages
    <2>2. t.fs[r.ip] = s.fs[r.ip]
      BY <1>5, <2>1
    <2>3. ASSUME r.ip \in Cut(t) PROVE FALSE
      <3>1. PICK x \in Users : Stage(t.l[x]) = "unlinkip" /\ LockOf(t.l[x]) = r.ip
        BY <2>3, CutIsLocked
      <3>2. Slot(t, r.ip)
        BY <2>1
      <3>3. t.itable[r.ip].lock = x /\ t.itable[r.ip].lock = q
        BY <1>2, <2>1, <3>1, <3>2 DEF Slot
      <3> QED BY <1>2, <1>8, <2>1, <3>1, <3>3
    <2> QED BY <1>8, <2>2, <2>3 DEF Dir, InTree
  <1>9. ASSUME NEW i \in Inums, Alone(r, i)
        PROVE  /\ \A z \in Users \X Kinds : References(t)[z] = i => References(s)[z] = i
               /\ \A x \in Users : Alone(t.l[x], i) => Alone(s.l[x], i)
    <2>1. ~Reaches(t, p, i) /\ ~Alone(t.l[p], i)
      BY <1>5, <1>9
    <2>2. ASSUME NEW z \in Users \X Kinds, References(t)[z] = i PROVE References(s)[z] = i
      <3>1. z[1] # p
        BY <2>1, <2>2, ReferenceOf DEF Reaches
      <3>2. Of(t, z[1]) = Of(s, z[1])
        BY <3>1 DEF Of, OnlyBy
      <3> QED BY <2>2, <3>2, ReferenceOf
    <2>3. ASSUME NEW x \in Users, Alone(t.l[x], i) PROVE Alone(s.l[x], i)
      BY <2>1, <2>3 DEF OnlyBy
    <2> QED BY <2>2, <2>3
  <1>10. Stage(r) \in {"unlink", "create", "mkdir", "unlinkboth", "newip"} \/ (Stage(r) = "link" /\ r.parent) =>
           t.fs[r.ip].type = "dir"
    BY <1>2, <1>6 DEF Knows, IpStages
  <1>11. Linking(r) => t.fs[r.other].type = "file"
    BY <1>2, <1>7 DEF Knows
  <1>12. r.pc = "unlinkboth" =>
          Head(r.rest) \in Names /\ r.ip \in Dir(t) /\ t.fs[r.ip].ent[Head(r.rest)] = r.other
    BY <1>2, <1>8 DEF Knows
  <1>13. r.pc = "newip" =>
          /\ r.ip \in Dir(t) /\ Head(r.rest) \in Names /\ t.fs[r.ip].ent[Head(r.rest)] = 0
          /\ r.call = "mkdir" => t.fs[r.ip].nlink < NLINK_MAX
          /\ t.fs[r.other] = [FreeInode EXCEPT !.type = IF r.call = "mkdir" THEN "dir" ELSE "file"]
          /\ ~t.itable[r.other].valid
          /\ \A z \in Users \X Kinds : References(t)[z] = r.other => z = <<q, "other">>
    <2> SUFFICES ASSUME r.pc = "newip"
                 PROVE  /\ r.ip \in Dir(t) /\ Head(r.rest) \in Names /\ t.fs[r.ip].ent[Head(r.rest)] = 0
                        /\ r.call = "mkdir" => t.fs[r.ip].nlink < NLINK_MAX
                        /\ t.fs[r.other] = [FreeInode EXCEPT !.type = IF r.call = "mkdir" THEN "dir" ELSE "file"]
                        /\ ~t.itable[r.other].valid
                        /\ \A z \in Users \X Kinds : References(t)[z] = r.other => z = <<q, "other">>
      OBVIOUS
    <2>1. r.other \in Inums /\ Alone(r, r.other)
      BY <1>3 DEF Alone, InControl, OtherStages, Stage
    <2>2. /\ r.ip \in Dir(s) /\ Head(r.rest) \in Names /\ s.fs[r.ip].ent[Head(r.rest)] = 0
          /\ r.call = "mkdir" => s.fs[r.ip].nlink < NLINK_MAX
          /\ s.fs[r.other] = [FreeInode EXCEPT !.type = IF r.call = "mkdir" THEN "dir" ELSE "file"]
          /\ ~s.itable[r.other].valid
          /\ \A z \in Users \X Kinds : References(s)[z] = r.other => z = <<q, "other">>
      BY <1>2 DEF Knows
    <2>3. t.fs[r.other] = s.fs[r.other] /\ t.itable[r.other].valid = s.itable[r.other].valid
      BY <1>5, <2>1
    <2>4. \A z \in Users \X Kinds : References(t)[z] = r.other => z = <<q, "other">>
      BY <1>9, <2>1, <2>2
    <2>5. t.fs[r.ip] = s.fs[r.ip] /\ r.ip \in Dir(t)
      BY <1>8, <2>2
    <2> QED BY <2>2, <2>3, <2>4, <2>5
  <1>14. r.pc \in {"drop", "ifree"} =>
          /\ t.fs[r.victim].type # "free" /\ t.fs[r.victim].nlink = 0 /\ t.fs[r.victim].ent = NoEntries
          /\ ~t.itable[r.victim].valid
          /\ \A z \in Users \X Kinds :
                References(t)[z] = r.victim => r.pc = "drop" /\ z = <<q, "victim">>
          /\ \A x \in Users : Alone(t.l[x], r.victim) => x = q
    <2> SUFFICES ASSUME r.pc \in {"drop", "ifree"}
                 PROVE  /\ t.fs[r.victim].type # "free" /\ t.fs[r.victim].nlink = 0
                        /\ t.fs[r.victim].ent = NoEntries /\ ~t.itable[r.victim].valid
                        /\ \A z \in Users \X Kinds :
                              References(t)[z] = r.victim => r.pc = "drop" /\ z = <<q, "victim">>
                        /\ \A x \in Users : Alone(t.l[x], r.victim) => x = q
      OBVIOUS
    <2>1. r.victim \in Inums /\ Alone(r, r.victim)
      BY <1>3 DEF Alone, InControl
    <2>2. /\ s.fs[r.victim].type # "free" /\ s.fs[r.victim].nlink = 0 /\ s.fs[r.victim].ent = NoEntries
          /\ ~s.itable[r.victim].valid
          /\ \A z \in Users \X Kinds :
                References(s)[z] = r.victim => r.pc = "drop" /\ z = <<q, "victim">>
          /\ \A x \in Users : Alone(s.l[x], r.victim) => x = q
      BY <1>2 DEF Knows
    <2>3. t.fs[r.victim] = s.fs[r.victim] /\ t.itable[r.victim].valid = s.itable[r.victim].valid
      BY <1>5, <2>1
    <2>4. /\ \A z \in Users \X Kinds : References(t)[z] = r.victim => References(s)[z] = r.victim
          /\ \A x \in Users : Alone(t.l[x], r.victim) => Alone(s.l[x], r.victim)
      BY <1>9, <2>1
    <2> QED BY <2>2, <2>3, <2>4
  <1> QED BY <1>2, <1>3, <1>10, <1>11, <1>12, <1>13, <1>14 DEF Knows

\* A slot after a step of p
SlotBy(s, t, p, i) ==
    /\ t.itable[i].ref = s.itable[i].ref - Own(Of(s, p), i) + Own(Of(t, p), i)
    /\ t.itable[i].lock = IF LockOf(t.l[p]) = i THEN p
                          ELSE IF LockOf(s.l[p]) = i THEN None ELSE s.itable[i].lock
    /\ LockOf(t.l[p]) = i => s.itable[i].lock \in {p, None}
    /\ t.itable[i].lock # None => t.itable[i].valid
    /\ t.itable[i].valid => t.itable[i].type = t.fs[i].type /\ t.itable[i].nlink = t.fs[i].nlink
    /\ t.itable[i].ref > 0 => t.fs[i].type # "free"

\* A slot that changes with the step of p stays right.
LEMMA SlotHolds ==
  ASSUME NEW s, NEW t, NEW p \in Users, OnlyBy(s, t, p), NEW i \in Inums, Slot(s, i), SlotBy(s, t, p, i)
  PROVE  Slot(t, i)
  <1>1. t.itable[i].ref = Count(References(t), i)
    <2>1. s.itable[i].ref = Count(References(s), i)
          /\ t.itable[i].ref = s.itable[i].ref - Own(Of(s, p), i) + Own(Of(t, p), i)
      BY DEF Slot, SlotBy
    <2>2. Count(References(t), i) = Count(References(s), i) - Own(Of(s, p), i) + Own(Of(t, p), i)
      BY CountMoves
    <2> QED BY <2>1, <2>2
  <1>2. ASSUME NEW q \in Users PROVE t.itable[i].lock = q <=> LockOf(t.l[q]) = i
    <2>1. CASE q = p
      BY <2>1, NodeConstants DEF Slot, SlotBy
    <2>2. CASE q # p
      BY <2>2, NodeConstants DEF Slot, SlotBy, OnlyBy
    <2> QED BY <2>1, <2>2
  <1> QED BY <1>1, <1>2 DEF Slot, SlotBy

\* What is left to show of a step of p
LEMMA CoherentBy ==
  ASSUME NEW s, NEW t, NEW up, NEW up2, Coherent(s, up), NEW p \in Users, OnlyBy(s, t, p),
         t \in NodeStates, Shapes(t.fs), \E rank \in [Inums -> Nat] : Tree(t.fs, Dir(t), Ent(t), rank),
         \A i \in Inums : t.fs[i].nlink = Count(Ent(t), i) + Count(Extra(t), i),
         \A i \in Inums : SlotBy(s, t, p, i) /\ Cared(t, up2, i),
         Undisturbed(s, t, p), Knows(t, p)
  PROVE  Coherent(t, up2)
  <1>1. \A i \in Inums : Slot(t, i)
    BY SlotHolds DEF Coherent
  <1>2. \A q \in Users : Knows(t, q)
    BY <1>1, OthersKnow
  <1> QED BY <1>1, <1>2 DEF Coherent

-----------------------------------------------------------------------------
(* Steps that leave the inodes as they are *)

Becomes(s, t, p, c, f, r) ==
    /\ t.l = [s.l EXCEPT ![p] = r]
    /\ t.cwd = [s.cwd EXCEPT ![p] = c]
    /\ t.file = [s.file EXCEPT ![p] = f]

\* Only p moves.
LEMMA BecomesFacts ==
  ASSUME NEW s, NEW t, NEW p \in Users, NEW c, NEW f, NEW r, Becomes(s, t, p, c, f, r), s \in NodeStates
  PROVE  /\ OnlyBy(s, t, p) /\ t.l[p] = r /\ t.cwd[p] = c /\ t.file[p] = f
         /\ Of(t, p) = Holding(c, f, r)
         /\ r \in Locals => t.l \in [Users -> Locals]
         /\ c \in Inums => t.cwd \in [Users -> Inums]
         /\ f \in 0 .. NINODES => t.file \in [Users -> 0 .. NINODES]
  <1>1. s.l \in [Users -> Locals] /\ s.cwd \in [Users -> Inums] /\ s.file \in [Users -> 0 .. NINODES]
    BY DEF NodeStates
  <1>2. OnlyBy(s, t, p) /\ t.l[p] = r /\ t.cwd[p] = c /\ t.file[p] = f
    BY <1>1 DEF Becomes, OnlyBy
  <1>3. /\ r \in Locals => t.l \in [Users -> Locals]
        /\ c \in Inums => t.cwd \in [Users -> Inums]
        /\ f \in 0 .. NINODES => t.file \in [Users -> 0 .. NINODES]
    BY <1>1 DEF Becomes
  <1> QED BY <1>2, <1>3 DEF Of

TableOk(T, F) ==
    /\ T \in [Inums -> Slots]
    /\ \A i \in Inums : T[i].valid => T[i].type = F[i].type /\ T[i].nlink = F[i].nlink

\* A process reaches what it has a reference to.
LEMMA OwnReaches ==
  ASSUME NEW s, NEW p, NEW i
  PROVE  Own(Of(s, p), i) \in Nat /\ (Own(Of(s, p), i) > 0 <=> Reaches(s, p, i))
  BY ReachKinds DEF Own, Is

SameLinks(r, r2) == LinkOf(r2) = LinkOf(r) /\ (Stage(r2) = "unlinkip" <=> Stage(r) = "unlinkip")

\* Nothing is cut off and no link is without entry but before.
LEMMA CutSame ==
  ASSUME NEW s, NEW t, NEW p \in Users, OnlyBy(s, t, p), SameLinks(s.l[p], t.l[p])
  PROVE  Cut(t) = Cut(s) /\ Extra(t) = Extra(s)
  <1>1. \A q \in Users : SameLinks(s.l[q], t.l[q])
    BY DEF OnlyBy, SameLinks
  <1>2. Extra(t) = Extra(s)
    BY <1>1 DEF Extra, SameLinks
  <1>3. ASSUME NEW i PROVE i \in Cut(t) <=> i \in Cut(s)
    <2>1. \A q \in Users : Stage(t.l[q]) = "unlinkip" <=> Stage(s.l[q]) = "unlinkip"
      BY <1>1 DEF SameLinks
    <2>2. \A q \in Users : Stage(s.l[q]) = "unlinkip" => s.l[q].other = t.l[q].other
      BY <1>1 DEF SameLinks, LinkOf
    <2> QED BY <2>1, <2>2 DEF Cut
  <1> QED BY <1>2, <1>3

\* What a quiet step does to a slot
QuietSlot(s, t, p, i) ==
    /\ t.itable[i].ref = s.itable[i].ref - Own(Of(s, p), i) + Own(Of(t, p), i)
    /\ t.itable[i].lock = IF LockOf(t.l[p]) = i THEN p
                          ELSE IF LockOf(s.l[p]) = i THEN None ELSE s.itable[i].lock
    /\ LockOf(t.l[p]) = i => s.itable[i].lock \in {p, None} /\ t.itable[i].valid
    /\ s.itable[i].valid => t.itable[i].valid
    /\ t.itable[i] # s.itable[i] => May(s, p, i)
    /\ Reaches(t, p, i) => May(s, p, i) /\ s.fs[i].type # "free"
    /\ s.fs[i].type # "free" /\ s.fs[i].nlink = 0 =>
          /\ s.itable[i].ref > 0 /\ s.itable[i].valid => t.itable[i].ref > 0
          /\ s.itable[i].ref = 0 => t.itable[i].ref = 0 \/ t.itable[i].valid

\* A step that changes no inode of the disk and nothing of what is alone
LEMMA QuietHolds ==
  ASSUME NEW s, NEW t, NEW up \in BOOLEAN, Coherent(s, up), NEW p \in Users,
         NEW c \in Inums, NEW f \in 0 .. NINODES, NEW r \in Locals, Becomes(s, t, p, c, f, r),
         t.fs = s.fs, TableOk(t.itable, t.fs),
         t = [fs |-> t.fs, itable |-> t.itable, cwd |-> t.cwd, file |-> t.file, l |-> t.l],
         SameLinks(s.l[p], r), \A i \in Inums : ~Alone(s.l[p], i) /\ ~Alone(r, i),
         \A i \in Inums : QuietSlot(s, t, p, i), Knows(t, p)
  PROVE  Coherent(t, up)
  <1>1. OnlyBy(s, t, p) /\ t.l[p] = r
    BY BecomesFacts DEF Coherent
  <1>2. t \in NodeStates
    <2>1. t.cwd \in [Users -> Inums] /\ t.file \in [Users -> 0 .. NINODES] /\ t.l \in [Users -> Locals]
      BY BecomesFacts DEF Coherent
    <2>2. t.fs \in [Inums -> Inodes] /\ t.itable \in [Inums -> Slots]
      BY DEF Coherent, NodeStates, TableOk
    <2> QED BY <2>1, <2>2 DEF NodeStates
  <1>3. Cut(t) = Cut(s) /\ Extra(t) = Extra(s)
    BY <1>1, CutSame
  <1>4. Dir(t) = Dir(s) /\ Ent(t) = Ent(s)
    BY <1>3 DEF Dir, Ent
  <1>5. /\ Shapes(t.fs) /\ \E rank \in [Inums -> Nat] : Tree(t.fs, Dir(t), Ent(t), rank)
        /\ \A i \in Inums : t.fs[i].nlink = Count(Ent(t), i) + Count(Extra(t), i)
    BY <1>3, <1>4 DEF Coherent
  <1>6. ASSUME NEW i \in Inums PROVE SlotBy(s, t, p, i) /\ Cared(t, up, i)
    <2>1. QuietSlot(s, t, p, i) /\ Slot(s, i) /\ Cared(s, up, i) /\ s.itable[i] \in Slots /\ t.itable[i] \in Slots
      BY <1>2 DEF Coherent, NodeStates
    <2>2. s.itable[i].ref \in Nat /\ t.itable[i].ref \in Nat
      BY <2>1 DEF Slots
    <2>3. t.itable[i].ref > 0 => t.fs[i].type # "free"
      <3>1. Own(Of(s, p), i) \in Nat /\ Own(Of(t, p), i) \in Nat
            /\ (Own(Of(t, p), i) > 0 => Reaches(t, p, i))
        BY OwnReaches
      <3> QED BY <2>1, <2>2, <3>1 DEF QuietSlot, Slot
    <2>4. t.itable[i].lock # None => t.itable[i].valid
      BY <2>1 DEF QuietSlot, Slot
    <2>5. SlotBy(s, t, p, i)
      BY <2>1, <2>3, <2>4 DEF SlotBy, QuietSlot, TableOk
    <2>6. ASSUME t.fs[i].type # "free", t.fs[i].nlink = 0
          PROVE  \/ t.itable[i].ref > 0 /\ t.itable[i].valid
                 \/ \E q \in Users : Alone(t.l[q], i)
                 \/ ~up /\ t.itable[i].ref = 0
      <3>1. CASE s.itable[i].ref > 0 /\ s.itable[i].valid
        BY <2>1, <2>6, <3>1 DEF QuietSlot
      <3>2. CASE \E q \in Users : Alone(s.l[q], i)
        BY <1>1, <3>2 DEF OnlyBy
      <3>3. CASE ~up /\ s.itable[i].ref = 0
        BY <2>1, <2>2, <2>6, <3>3 DEF QuietSlot
      <3> QED BY <2>1, <2>6, <3>1, <3>2, <3>3 DEF Cared
    <2> QED BY <2>5, <2>6 DEF Cared
  <1>7. Undisturbed(s, t, p)
    <2>1. ASSUME NEW q \in Users, NEW i \in Inums, q # p, Alone(s.l[q], i)
          PROVE  t.itable[i].valid = s.itable[i].valid /\ ~Reaches(t, p, i) /\ ~Alone(t.l[p], i)
      <3>1. ~May(s, p, i)
        BY <2>1 DEF May
      <3> QED BY <1>1, <3>1 DEF QuietSlot
    <2> QED BY <2>1 DEF Undisturbed
  <1> QED BY <1>1, <1>2, <1>5, <1>6, <1>7, CoherentBy

\* How a quiet step to the holding h and the locals r, that may load slot v,
\* moves the slots
QuietMove(s, t, p, h, r, v) ==
    \A i \in Inums :
       /\ t.itable[i].ref = s.itable[i].ref - Own(Of(s, p), i) + Own(h, i)
       /\ t.itable[i].lock = IF LockOf(r) = i THEN p
                             ELSE IF LockOf(s.l[p]) = i THEN None ELSE s.itable[i].lock
       /\ LockOf(r) = i => s.itable[i].lock \in {p, None} /\ t.itable[i].valid
       /\ t.itable[i].valid <=> s.itable[i].valid \/ i = v
       /\ t.itable[i].ref = s.itable[i].ref /\ t.itable[i].lock = s.itable[i].lock /\ i # v =>
             t.itable[i] = s.itable[i]
       /\ t.itable[i].ref = 0 => s.itable[i].ref = 0 \/ ~s.itable[i].valid \/ s.fs[i].nlink > 0
       /\ Own(h, i) > 0 => Own(Of(s, p), i) > 0 \/ s.fs[i].nlink > 0

\* A step that loads, gets, puts, locks or unlocks inodes
LEMMA QuietMoves ==
  ASSUME NEW s, NEW t, NEW up \in BOOLEAN, Coherent(s, up), NEW p \in Users,
         NEW c \in Inums, NEW f \in 0 .. NINODES, NEW r \in Locals, Becomes(s, t, p, c, f, r),
         t.fs = s.fs, TableOk(t.itable, t.fs),
         t = [fs |-> t.fs, itable |-> t.itable, cwd |-> t.cwd, file |-> t.file, l |-> t.l],
         SameLinks(s.l[p], r), s.l[p].pc \notin {"newip", "drop", "ifree"}, r.pc \notin {"newip", "drop", "ifree"},
         NEW v \in 0 .. NINODES, v # 0 => Reaches(s, p, v),
         QuietMove(s, t, p, Holding(c, f, r), r, v),
         Knows(t, p)
  PROVE  Coherent(t, up)
  <1>1. s \in NodeStates
    BY DEF Coherent
  <1>2. Of(t, p) = Holding(c, f, r) /\ t.l[p] = r
    BY ONLY <1>1, BecomesFacts, p \in Users, Becomes(s, t, p, c, f, r)
  <1>3. \A i \in Inums : ~Alone(s.l[p], i) /\ ~Alone(r, i)
    BY DEF Alone
  <1>4. ASSUME NEW i \in Inums PROVE QuietSlot(s, t, p, i)
    <2>1. PICK m, n : m = Own(Of(s, p), i) /\ n = Own(Of(t, p), i)
      OBVIOUS
    <2>2. /\ m \in Nat /\ n \in Nat
          /\ m > 0 <=> Reaches(s, p, i)
          /\ n > 0 <=> Reaches(t, p, i)
      BY <2>1, OwnReaches
    <2>3. s.itable[i] \in Slots /\ t.itable[i] \in Slots
      BY DEF TableOk, Coherent, NodeStates
    <2>4. s.itable[i].ref \in Nat /\ t.itable[i].ref \in Nat
      BY <2>3 DEF Slots
    <2>5. /\ t.itable[i].ref = s.itable[i].ref - m + n
          /\ t.itable[i].lock = IF LockOf(r) = i THEN p
                                ELSE IF LockOf(s.l[p]) = i THEN None ELSE s.itable[i].lock
          /\ LockOf(r) = i => s.itable[i].lock \in {p, None} /\ t.itable[i].valid
          /\ t.itable[i].valid <=> s.itable[i].valid \/ i = v
          /\ t.itable[i].ref = s.itable[i].ref /\ t.itable[i].lock = s.itable[i].lock /\ i # v =>
                t.itable[i] = s.itable[i]
          /\ t.itable[i].ref = 0 => s.itable[i].ref = 0 \/ ~s.itable[i].valid \/ s.fs[i].nlink > 0
          /\ n > 0 => m > 0 \/ s.fs[i].nlink > 0
      BY <1>2, <2>1 DEF QuietMove
    <2>6. Reaches(s, p, i) \/ s.fs[i].nlink > 0 => May(s, p, i) /\ s.fs[i].type # "free"
      <3>1. s.fs[i].nlink > 0 => s.fs[i].type # "free"
        BY DEF Coherent, Shapes, FreeInode
      <3> QED BY <3>1, MayReach, ReachCounts
    <2>7. Reaches(s, p, i) => s.itable[i].ref > 0
      BY ReachCounts
    <2>8. Reaches(t, p, i) => May(s, p, i) /\ s.fs[i].type # "free"
      BY <2>2, <2>5, <2>6
    <2>9. t.itable[i] # s.itable[i] => May(s, p, i)
      <3>1. i # 0
        BY NodeConstants
      <3>2. LockOf(r) = i => Reaches(t, p, i)
        BY <1>2, <3>1, LockReaches
      <3>3. LockOf(s.l[p]) = i => Reaches(s, p, i)
        BY <3>1, LockReaches
      <3>4. m = 0 /\ n = 0 => t.itable[i].ref = s.itable[i].ref
        BY <2>4, <2>5
      <3> QED BY <2>2, <2>5, <2>6, <2>8, <3>1, <3>2, <3>3, <3>4
    <2>10. ASSUME s.fs[i].type # "free", s.fs[i].nlink = 0
           PROVE  /\ s.itable[i].ref > 0 /\ s.itable[i].valid => t.itable[i].ref > 0
                  /\ s.itable[i].ref = 0 => t.itable[i].ref = 0 \/ t.itable[i].valid
      <3>1. s.itable[i].ref = 0 => m = 0 /\ n = 0
        BY <2>2, <2>5, <2>7, <2>10
      <3>2. s.itable[i].ref = 0 => t.itable[i].ref = 0
        BY <2>4, <2>5, <3>1
      <3> QED BY <2>4, <2>5, <2>10, <3>2
    <2> QED BY <1>2, <2>1, <2>5, <2>8, <2>9, <2>10 DEF QuietSlot
  <1> QED BY <1>2, <1>3, <1>4, QuietHolds

-----------------------------------------------------------------------------
(* The in-memory inodes *)

NodeStep(s, t) ==
    /\ s = Here
    /\ t = [fs |-> fs', itable |-> itable', cwd |-> cwd', file |-> file', l |-> l']

\* A step from s to t, variable by variable
LEMMA NodeParts ==
  ASSUME NEW s, NEW t, NodeStep(s, t)
  PROVE  /\ fs = s.fs /\ itable = s.itable /\ cwd = s.cwd /\ file = s.file /\ l = s.l
         /\ fs' = t.fs /\ itable' = t.itable /\ cwd' = t.cwd /\ file' = t.file /\ l' = t.l
         /\ t = [fs |-> t.fs, itable |-> t.itable, cwd |-> t.cwd, file |-> t.file, l |-> t.l]
  BY DEF NodeStep, Here

\* What p relies on, and the types of what it looks at
LEMMA ActorFacts ==
  ASSUME NEW s, NEW t, NodeStep(s, t), NEW up, Coherent(s, up), NEW p \in Users
  PROVE  /\ s.l[p] \in Locals /\ s.cwd[p] \in Inums /\ s.file[p] \in 0 .. NINODES
         /\ s.cwd \in [Users -> Inums] /\ s.file \in [Users -> 0 .. NINODES] /\ s.l \in [Users -> Locals]
         /\ InControl(s.l[p]) /\ Knows(s, p) /\ TableOk(s.itable, s.fs)
         /\ s.fs \in [Inums -> Inodes] /\ s \in NodeStates
         /\ l[p] = s.l[p] /\ cwd[p] = s.cwd[p] /\ file[p] = s.file[p]
  <1>1. Knows(s, p) /\ InControl(s.l[p]) /\ s \in NodeStates
    BY Zenon DEF Coherent, Knows
  <1>2. TableOk(s.itable, s.fs)
    BY <1>1 DEF Coherent, TableOk, Slot, NodeStates
  <1> QED BY <1>1, <1>2, NodeParts DEF NodeStates

\* How cwd, file and l of p change
LEMMA StartFacts ==
  ASSUME NEW s, NEW t, NodeStep(s, t), NEW up, Coherent(s, up), NEW p \in Users, NEW r, Become(p, r)
  PROVE  /\ t.l[p] = r
         /\ cwd' = cwd /\ file' = file => Becomes(s, t, p, s.cwd[p], s.file[p], r)
         /\ \A f : cwd' = cwd /\ file' = [file EXCEPT ![p] = f] => Becomes(s, t, p, s.cwd[p], f, r)
         /\ \A c : cwd' = [cwd EXCEPT ![p] = c] /\ file' = file => Becomes(s, t, p, c, s.file[p], r)
  <1>1. s.cwd = [s.cwd EXCEPT ![p] = s.cwd[p]] /\ s.file = [s.file EXCEPT ![p] = s.file[p]]
        /\ s.l \in [Users -> Locals]
    BY ActorFacts
  <1>2. t.l = [s.l EXCEPT ![p] = r]
    BY NodeParts DEF Become
  <1>3. cwd' = cwd /\ file' = file => Becomes(s, t, p, s.cwd[p], s.file[p], r)
    BY <1>1, <1>2, NodeParts DEF Becomes
  <1>4. ASSUME NEW f, cwd' = cwd /\ file' = [file EXCEPT ![p] = f] PROVE Becomes(s, t, p, s.cwd[p], f, r)
    BY <1>1, <1>2, <1>4, NodeParts DEF Becomes
  <1>5. ASSUME NEW c, cwd' = [cwd EXCEPT ![p] = c] /\ file' = file PROVE Becomes(s, t, p, c, s.file[p], r)
    BY <1>1, <1>2, <1>5, NodeParts DEF Becomes
  <1> QED BY <1>1, <1>2, <1>3, <1>4, <1>5

\* ilock() and iunlock(), iget()
LEMMA VisitedFacts ==
  ASSUME TableOk(itable, fs), fs \in [Inums -> Inodes], NEW i \in Inums
  PROVE  /\ TableOk(Visited(i), fs)
         /\ Loaded(i).type = fs[i].type /\ Loaded(i).nlink = fs[i].nlink
         /\ \A j \in Inums :
               /\ Visited(i)[j].ref = itable[j].ref /\ Visited(i)[j].lock = itable[j].lock
               /\ Visited(i)[j].valid <=> itable[j].valid \/ j = i
               /\ j # i => Visited(i)[j] = itable[j]
  <1>1. itable \in [Inums -> Slots] /\ itable[i] \in Slots /\ fs[i] \in Inodes
    BY DEF TableOk
  <1>2. /\ Loaded(i) \in Slots /\ Loaded(i).ref = itable[i].ref /\ Loaded(i).lock = itable[i].lock
        /\ Loaded(i).valid = TRUE /\ Loaded(i).type = fs[i].type /\ Loaded(i).nlink = fs[i].nlink
    BY <1>1 DEF Loaded, Slots, Inodes, TableOk
  <1> QED BY <1>1, <1>2 DEF TableOk, Visited

\* An ilock() keeps the references and what is cached.
LEMMA LockedFacts ==
  ASSUME TableOk(itable, fs), fs \in [Inums -> Inodes], NEW i \in Inums, NEW p \in Users
  PROVE  /\ TableOk(Locked(itable, p, i), fs)
         /\ \A j \in Inums :
               /\ Locked(itable, p, i)[j].ref = itable[j].ref
               /\ Locked(itable, p, i)[j].lock = IF j = i THEN p ELSE itable[j].lock
               /\ Locked(itable, p, i)[j].valid <=> itable[j].valid \/ j = i
               /\ j # i => Locked(itable, p, i)[j] = itable[j]
  <1>1. itable \in [Inums -> Slots] /\ itable[i] \in Slots /\ fs[i] \in Inodes
    BY DEF TableOk
  <1>2. /\ Loaded(i) \in Slots /\ Loaded(i).ref = itable[i].ref
        /\ Loaded(i).valid = TRUE /\ Loaded(i).type = fs[i].type /\ Loaded(i).nlink = fs[i].nlink
    BY <1>1 DEF Loaded, Slots, Inodes, TableOk
  <1>3. PICK a : a = [Loaded(i) EXCEPT !.lock = p]
    OBVIOUS
  <1>4. /\ a \in Slots /\ a.ref = itable[i].ref /\ a.lock = p
        /\ a.valid = TRUE /\ a.type = fs[i].type /\ a.nlink = fs[i].nlink
    BY <1>2, <1>3 DEF Slots
  <1> QED BY <1>1, <1>3, <1>4 DEF TableOk, Locked

\* An iget() counts one reference more.
LEMMA GotFacts ==
  ASSUME NEW T, NEW F, TableOk(T, F), NEW i \in Inums, NEW U, U = Got(T, i)
  PROVE  /\ TableOk(U, F)
         /\ \A j \in Inums :
               /\ U[j].ref = T[j].ref + Is(i, j) /\ U[j].lock = T[j].lock
               /\ U[j].valid <=> T[j].valid
               /\ j # i => U[j] = T[j]
  <1>1. T \in [Inums -> Slots] /\ T[i] \in Slots
    BY DEF TableOk
  <1>2. PICK a : a = [T[i] EXCEPT !.ref = T[i].ref + 1]
    OBVIOUS
  <1>3. /\ a \in Slots /\ a.ref = T[i].ref + 1 /\ a.lock = T[i].lock
        /\ a.valid = T[i].valid /\ a.type = T[i].type /\ a.nlink = T[i].nlink
    BY <1>1, <1>2 DEF Slots
  <1>4. U = [T EXCEPT ![i] = a]
    BY <1>1, <1>2 DEF Got
  <1>5. \A j \in Inums : T[j] \in Slots /\ T[j].ref \in Nat
    BY <1>1 DEF Slots
  <1> QED BY <1>1, <1>3, <1>4, <1>5 DEF TableOk, Is

\* iput() of one that stays
Less(T, i) == [T EXCEPT ![i].ref = @ - 1]

\* An iput() of one that stays counts one reference less.
LEMMA PutFacts ==
  ASSUME NEW T, NEW F, TableOk(T, F), NEW i \in Inums, T[i].ref > 0, NEW U, U = Less(T, i)
  PROVE  /\ TableOk(U, F)
         /\ \A j \in Inums :
               /\ U[j].ref = T[j].ref - Is(i, j) /\ U[j].lock = T[j].lock
               /\ U[j].valid <=> T[j].valid
               /\ j # i => U[j] = T[j]
  <1>1. T \in [Inums -> Slots] /\ T[i] \in Slots
    BY DEF TableOk
  <1>2. PICK a : a = [T[i] EXCEPT !.ref = T[i].ref - 1]
    OBVIOUS
  <1>3. /\ a \in Slots /\ a.ref = T[i].ref - 1 /\ a.lock = T[i].lock
        /\ a.valid = T[i].valid /\ a.type = T[i].type /\ a.nlink = T[i].nlink
    BY <1>1, <1>2 DEF Slots
  <1>4. U = [T EXCEPT ![i] = a]
    BY <1>1, <1>2 DEF Less
  <1>5. \A j \in Inums : T[j] \in Slots /\ T[j].ref \in Nat
    BY <1>1 DEF Slots
  <1> QED BY <1>1, <1>3, <1>4, <1>5 DEF TableOk, Is

\* An iunlock() keeps the references and what is cached.
LEMMA UnlockedFacts ==
  ASSUME NEW T, NEW F, TableOk(T, F), NEW i \in Inums
  PROVE  /\ TableOk(Unlocked(T, i), F)
         /\ \A j \in Inums :
               /\ Unlocked(T, i)[j].ref = T[j].ref /\ Unlocked(T, i)[j].valid = T[j].valid
               /\ Unlocked(T, i)[j].lock = IF j = i THEN None ELSE T[j].lock
               /\ j # i => Unlocked(T, i)[j] = T[j]
  <1>1. T \in [Inums -> Slots] /\ T[i] \in Slots
    BY DEF TableOk
  <1>2. PICK a : a = [T[i] EXCEPT !.lock = None]
    OBVIOUS
  <1>3. /\ a \in Slots /\ a.ref = T[i].ref /\ a.lock = None
        /\ a.valid = T[i].valid /\ a.type = T[i].type /\ a.nlink = T[i].nlink
    BY <1>1, <1>2 DEF Slots
  <1>4. Unlocked(T, i) = [T EXCEPT ![i] = a]
    BY <1>1, <1>2 DEF Unlocked
  <1> QED BY <1>1, <1>3, <1>4 DEF TableOk

\* The table U is T with slot v loaded, one more reference to g and one less
\* to d, and the lock of k taken by x or, if that is None, released.
TableMove(T, U, v, g, d, k, x) ==
    \A i \in Inums :
       /\ U[i].ref = T[i].ref + Is(g, i) - Is(d, i)
       /\ U[i].lock = IF i = k THEN x ELSE T[i].lock
       /\ U[i].valid <=> T[i].valid \/ i = v
       /\ i # v /\ i # g /\ i # d /\ i # k => U[i] = T[i]

\* The ways the table moves in the steps that change no inode
LEMMA TableMoves ==
  ASSUME NEW F, F \in [Inums -> Inodes], F = fs, TableOk(itable, F)
  PROVE  /\ TableMove(itable, itable, 0, 0, 0, 0, None)
         /\ \A i \in Inums :
               /\ TableMove(itable, Visited(i), i, 0, 0, 0, None) /\ TableOk(Visited(i), F)
               /\ TableMove(itable, Got(itable, i), 0, i, 0, 0, None) /\ TableOk(Got(itable, i), F)
               /\ TableMove(itable, Unlocked(itable, i), 0, 0, 0, i, None) /\ TableOk(Unlocked(itable, i), F)
               /\ itable[i].ref > 0 =>
                     TableMove(itable, Less(itable, i), 0, 0, i, 0, None) /\ TableOk(Less(itable, i), F)
         /\ \A i \in Inums, g \in Inums :
               TableMove(itable, Got(Visited(i), g), i, g, 0, 0, None) /\ TableOk(Got(Visited(i), g), F)
         /\ \A i \in Inums, g \in Inums, p \in Users :
               /\ TableMove(itable, Got(Locked(itable, p, i), g), i, g, 0, i, p)
               /\ TableOk(Got(Locked(itable, p, i), g), F)
  <1>1. /\ 0 \notin Inums /\ \A i : Is(0, i) = IF i = 0 THEN 1 ELSE 0
        /\ \A i \in Inums : Is(0, i) = 0 /\ itable[i].ref \in Nat
        /\ \A g, i : Is(g, i) \in Nat
    BY NodeConstants DEF Is, TableOk, Slots
  <1>2. TableMove(itable, itable, 0, 0, 0, 0, None)
    BY <1>1 DEF TableMove
  <1>3. ASSUME NEW i \in Inums
        PROVE  /\ TableMove(itable, Visited(i), i, 0, 0, 0, None) /\ TableOk(Visited(i), F)
               /\ TableMove(itable, Got(itable, i), 0, i, 0, 0, None) /\ TableOk(Got(itable, i), F)
               /\ TableMove(itable, Unlocked(itable, i), 0, 0, 0, i, None) /\ TableOk(Unlocked(itable, i), F)
    <2>1. TableMove(itable, Visited(i), i, 0, 0, 0, None) /\ TableOk(Visited(i), F)
      BY <1>1, VisitedFacts DEF TableMove
    <2>2. TableMove(itable, Got(itable, i), 0, i, 0, 0, None) /\ TableOk(Got(itable, i), F)
      BY <1>1, GotFacts DEF TableMove
    <2>3. TableMove(itable, Unlocked(itable, i), 0, 0, 0, i, None) /\ TableOk(Unlocked(itable, i), F)
      BY <1>1, UnlockedFacts DEF TableMove
    <2> QED BY <2>1, <2>2, <2>3
  <1>4. ASSUME NEW i \in Inums, itable[i].ref > 0
        PROVE  TableMove(itable, Less(itable, i), 0, 0, i, 0, None) /\ TableOk(Less(itable, i), F)
    BY <1>1, <1>4, PutFacts DEF TableMove
  <1>5. ASSUME NEW i \in Inums, NEW g \in Inums
        PROVE  TableMove(itable, Got(Visited(i), g), i, g, 0, 0, None) /\ TableOk(Got(Visited(i), g), F)
    <2>1. PICK U, W : U = Visited(i) /\ W = Got(U, g)
      OBVIOUS
    <2>2. TableOk(U, F) /\ TableMove(itable, U, i, 0, 0, 0, None)
      BY <1>3, <2>1
    <2>3. /\ TableOk(W, F)
          /\ \A j \in Inums :
               /\ W[j].ref = U[j].ref + Is(g, j) /\ W[j].lock = U[j].lock
               /\ W[j].valid <=> U[j].valid
               /\ j # g => W[j] = U[j]
      <3>1. TableOk(U, F)
        BY <2>2
      <3> QED BY ONLY <2>1, <3>1, g \in Inums, GotFacts
    <2>4. TableMove(itable, W, i, g, 0, 0, None)
      BY <1>1, <2>2, <2>3 DEF TableMove
    <2> QED BY <2>1, <2>3, <2>4
  <1>6. ASSUME NEW i \in Inums, NEW g \in Inums, NEW p \in Users
        PROVE  /\ TableMove(itable, Got(Locked(itable, p, i), g), i, g, 0, i, p)
               /\ TableOk(Got(Locked(itable, p, i), g), F)
    <2>1. PICK U, W : U = Locked(itable, p, i) /\ W = Got(U, g)
      OBVIOUS
    <2>2. /\ TableOk(U, F)
          /\ \A j \in Inums :
               /\ U[j].ref = itable[j].ref
               /\ U[j].lock = IF j = i THEN p ELSE itable[j].lock
               /\ U[j].valid <=> itable[j].valid \/ j = i
               /\ j # i => U[j] = itable[j]
      BY <2>1, LockedFacts
    <2>3. /\ TableOk(W, F)
          /\ \A j \in Inums :
               /\ W[j].ref = U[j].ref + Is(g, j) /\ W[j].lock = U[j].lock
               /\ W[j].valid <=> U[j].valid
               /\ j # g => W[j] = U[j]
      <3>1. TableOk(U, F)
        BY <2>2
      <3> QED BY ONLY <2>1, <3>1, g \in Inums, GotFacts
    <2>4. TableMove(itable, W, i, g, 0, i, p)
      BY <1>1, <2>2, <2>3 DEF TableMove
    <2> QED BY <2>1, <2>3, <2>4
  <1> QED BY <1>2, <1>3, <1>4, <1>5, <1>6

OwnMove(h, h2, g, d) == \A i \in Inums : Own(h2, i) + Is(d, i) = Own(h, i) + Is(g, i)

LockMove(s, p, r, v, k, x) ==
    \/ k = 0 /\ LockOf(r) = LockOf(s.l[p])
    \/ k \in Inums /\ x = p /\ LockOf(r) = k /\ LockOf(s.l[p]) = 0 /\ s.itable[k].lock = None /\ k = v
    \/ k \in Inums /\ x = None /\ LockOf(r) = 0 /\ LockOf(s.l[p]) = k

\* A step of p that changes no inode of the disk keeps all in order.
LEMMA QuietStep ==
  ASSUME NEW s, NEW t, NodeStep(s, t), booted \in BOOLEAN, Coherent(s, booted), NEW p \in Users,
         NEW c, NEW f, NEW r \in Locals, c \in Inums, f \in 0 .. NINODES, Becomes(s, t, p, c, f, r),
         t.fs = s.fs, TableOk(t.itable, t.fs), SameLinks(s.l[p], r),
         s.l[p].pc \notin {"newip", "drop", "ifree"}, r.pc \notin {"newip", "drop", "ifree"},
         NEW v, NEW g, NEW d, NEW k, NEW x, v = 0 \/ v \in Inums, v # 0 => Reaches(s, p, v),
         TableMove(s.itable, t.itable, v, g, d, k, x), OwnMove(Of(s, p), Holding(c, f, r), g, d),
         LockMove(s, p, r, v, k, x), g = 0 \/ d = 0, g \in Inums => Reaches(s, p, g) \/ s.fs[g].nlink > 0,
         d \in Inums => s.itable[d].ref # 1 \/ ~s.itable[d].valid \/ s.fs[d].nlink > 0,
         Knows(t, p)
  PROVE  Coherent(t, booted)
  <1>1. v \in 0 .. NINODES
    BY NodeConstants
  <1>2. t = [fs |-> t.fs, itable |-> t.itable, cwd |-> t.cwd, file |-> t.file, l |-> t.l]
    BY NodeParts
  <1>3. ASSUME NEW i \in Inums
        PROVE  /\ t.itable[i].ref = s.itable[i].ref - Own(Of(s, p), i) + Own(Holding(c, f, r), i)
               /\ t.itable[i].lock = IF LockOf(r) = i THEN p
                                     ELSE IF LockOf(s.l[p]) = i THEN None ELSE s.itable[i].lock
               /\ LockOf(r) = i => s.itable[i].lock \in {p, None} /\ t.itable[i].valid
               /\ t.itable[i].valid <=> s.itable[i].valid \/ i = v
               /\ t.itable[i].ref = s.itable[i].ref /\ t.itable[i].lock = s.itable[i].lock /\ i # v =>
                     t.itable[i] = s.itable[i]
               /\ t.itable[i].ref = 0 => s.itable[i].ref = 0 \/ ~s.itable[i].valid \/ s.fs[i].nlink > 0
               /\ Own(Holding(c, f, r), i) > 0 => Own(Of(s, p), i) > 0 \/ s.fs[i].nlink > 0
    <2>1. PICK m, n, a, b : m = Own(Of(s, p), i) /\ n = Own(Holding(c, f, r), i) /\ a = Is(g, i) /\ b = Is(d, i)
      OBVIOUS
    <2>2. /\ m \in Nat /\ n \in Nat /\ a \in {0, 1} /\ b \in {0, 1}
          /\ (a = 1 <=> g = i) /\ (b = 1 <=> d = i)
      BY <2>1 DEF Own, Is
    <2>3. m > 0 <=> Reaches(s, p, i)
      BY <2>1, OwnReaches
    <2>4. s.itable[i] \in Slots /\ t.itable[i] \in Slots /\ Slot(s, i)
      BY ActorFacts DEF TableOk, Coherent
    <2>5. s.itable[i].ref \in Nat /\ t.itable[i].ref \in Nat
      BY <2>4 DEF Slots
    <2>6. /\ n + b = m + a
          /\ t.itable[i].ref = s.itable[i].ref + a - b
          /\ t.itable[i].lock = IF i = k THEN x ELSE s.itable[i].lock
          /\ t.itable[i].valid <=> s.itable[i].valid \/ i = v
          /\ i # v /\ i # g /\ i # d /\ i # k => t.itable[i] = s.itable[i]
      BY <2>1 DEF OwnMove, TableMove
    <2>7. t.itable[i].ref = s.itable[i].ref - m + n
      BY <2>2, <2>5, <2>6
    <2>8. /\ t.itable[i].lock = IF LockOf(r) = i THEN p
                                ELSE IF LockOf(s.l[p]) = i THEN None ELSE s.itable[i].lock
          /\ LockOf(r) = i => s.itable[i].lock \in {p, None} /\ t.itable[i].valid
      <3>1. /\ s.itable[i].lock = p <=> LockOf(s.l[p]) = i
            /\ s.itable[i].lock # None => s.itable[i].valid
        BY <2>4 DEF Slot
      <3>2. i # 0 /\ p # None
        BY NodeConstants
      <3> QED BY <2>6, <3>1, <3>2 DEF LockMove
    <2>9. t.itable[i].ref = 0 => s.itable[i].ref = 0 \/ ~s.itable[i].valid \/ s.fs[i].nlink > 0
      BY <2>2, <2>5, <2>6
    <2>10. n > 0 => m > 0 \/ s.fs[i].nlink > 0
      BY <2>2, <2>3, <2>6
    <2>11. t.itable[i].ref = s.itable[i].ref /\ t.itable[i].lock = s.itable[i].lock /\ i # v =>
                     t.itable[i] = s.itable[i]
      <3>1. t.itable[i].ref = s.itable[i].ref => i # g /\ i # d
        BY <2>2, <2>5, <2>6, NodeConstants
      <3>2. t.itable[i].lock = s.itable[i].lock => i # k
        <4>1. s.itable[i].lock = p <=> LockOf(s.l[p]) = i
          BY <2>4 DEF Slot
        <4> QED BY <2>6, <4>1, NodeConstants DEF LockMove
      <3> QED BY <2>6, <3>1, <3>2
    <2> QED BY <2>1, <2>6, <2>7, <2>8, <2>9, <2>10, <2>11
  <1>4. QuietMove(s, t, p, Holding(c, f, r), r, v)
    BY <1>3 DEF QuietMove
  <1> QED BY <1>1, <1>2, <1>4, QuietMoves

-----------------------------------------------------------------------------
(* Steps that keep inodes as they are *)

\* An iput() to come
LEMMA PutThenFacts ==
  ASSUME NEW r \in Locals, NEW i \in 0 .. NINODES, NEW label \in Labels, NEW q, q = PutThen(r, i, label)
  PROVE  /\ q \in Locals /\ q.pc = "put" /\ q.victim = i /\ q.ret = label /\ Stage(q) = label
         /\ q.call = r.call /\ q.rest = r.rest /\ q.parent = r.parent /\ q.ip = r.ip /\ q.other = r.other
  BY DEF PutThen, Locals, Labels, Stage

\* A process goes on with the locals it has.
LEMMA ToFacts ==
  ASSUME NEW r \in Locals, NEW label \in Labels, NEW q, q = To(r, label)
  PROVE  /\ q \in Locals /\ q.pc = label /\ q.victim = r.victim /\ q.ret = r.ret
         /\ q.call = r.call /\ q.rest = r.rest /\ q.parent = r.parent /\ q.ip = r.ip /\ q.other = r.other
  BY DEF To, Locals

\* A process outside the calls
LEMMA IdleFacts ==
  /\ Idle \in Locals /\ Idle.pc = "user" /\ Idle.call = "none" /\ Idle.rest = <<>> /\ Idle.parent = FALSE
  /\ Idle.ip = 0 /\ Idle.other = 0 /\ Idle.victim = 0 /\ Idle.ret = "end"
  <1>1. <<>> \in Seq(Entries) /\ 0 \in 0 .. NINODES
    BY NodeConstants, EmptySeq
  <1> QED BY <1>1 DEF Idle, Locals, Labels, Calls

\* What a process holds at each stage
LEMMA HoldsNothing ==
  ASSUME NEW c, NEW f, NEW r, Stage(r) \in {"user", "end"}
  PROVE  /\ Holding(c, f, r).cwd = c /\ Holding(c, f, r).file = f /\ Holding(c, f, r).ip = 0
         /\ Holding(c, f, r).other = 0 /\ LockOf(r) = 0 /\ LinkOf(r) = 0 /\ ~Linking(r)
         /\ Holding(c, f, r).victim = IF r.pc \in {"put", "drop"} THEN r.victim ELSE 0
  <1>1. Stage(r) # "cd" /\ Stage(r) \notin IpStages /\ Stage(r) \notin OtherStages /\ ~Linking(r)
    BY DEF IpStages, OtherStages, Linking
  <1>2. LockOf(r) = 0 /\ LinkOf(r) = 0
    BY <1>1 DEF LockOf, LinkOf
  <1> QED BY <1>1, <1>2, HoldingFields

\* At most stages a process holds its cwd, its file and ip.
LEMMA HoldsIp ==
  ASSUME NEW c, NEW f, NEW r, Stage(r) \in IpStages \ {"cd", "unlinkboth", "newip"}
  PROVE  /\ Holding(c, f, r).cwd = c /\ Holding(c, f, r).file = f /\ Holding(c, f, r).ip = r.ip
         /\ Holding(c, f, r).other = (IF Linking(r) THEN r.other ELSE 0) /\ LinkOf(r) = Holding(c, f, r).other
         /\ LockOf(r) = IF Stage(r) = "unlockdp" THEN r.ip ELSE 0
         /\ Holding(c, f, r).victim = IF r.pc \in {"put", "drop"} THEN r.victim ELSE 0
  <1>1. Stage(r) # "cd" /\ Stage(r) # "unlinkip" /\ Stage(r) \notin OtherStages
    BY DEF IpStages, OtherStages
  <1>2. LockOf(r) = IF Stage(r) = "unlockdp" THEN r.ip ELSE 0
    BY DEF LockOf, IpStages
  <1> QED BY <1>1, <1>2, HoldingFields DEF LinkOf

\* sys_chdir() holds the new cwd as ip until it ends.
LEMMA HoldsCd ==
  ASSUME NEW c, NEW f, NEW r, Stage(r) = "cd"
  PROVE  /\ Holding(c, f, r).cwd = 0 /\ Holding(c, f, r).file = f /\ Holding(c, f, r).ip = r.ip
         /\ Holding(c, f, r).other = 0 /\ LockOf(r) = 0 /\ LinkOf(r) = 0 /\ ~Linking(r)
         /\ Holding(c, f, r).victim = IF r.pc \in {"put", "drop"} THEN r.victim ELSE 0
  <1>1. Stage(r) \in IpStages /\ Stage(r) \notin OtherStages /\ ~Linking(r)
    BY DEF IpStages, OtherStages, Linking
  <1>2. LockOf(r) = 0 /\ LinkOf(r) = 0
    BY <1>1 DEF LockOf, LinkOf
  <1> QED BY <1>1, <1>2, HoldingFields

\* A directory and a child: the directory is locked.
LEMMA HoldsBoth ==
  ASSUME NEW c, NEW f, NEW r, Stage(r) \in {"unlinkboth", "newip"}
  PROVE  /\ Holding(c, f, r).cwd = c /\ Holding(c, f, r).file = f /\ Holding(c, f, r).ip = r.ip
         /\ Holding(c, f, r).other = r.other /\ LockOf(r) = r.ip /\ LinkOf(r) = 0 /\ ~Linking(r)
         /\ Holding(c, f, r).victim = IF r.pc \in {"put", "drop"} THEN r.victim ELSE 0
  <1>1. Stage(r) # "cd" /\ Stage(r) \in IpStages /\ Stage(r) \in OtherStages /\ ~Linking(r)
    BY DEF IpStages, OtherStages, Linking
  <1>2. LockOf(r) = r.ip /\ LinkOf(r) = 0
    BY <1>1 DEF LockOf, LinkOf
  <1> QED BY <1>1, <1>2, HoldingFields

\* The directory is put, the child or the source is not.
LEMMA HoldsOther ==
  ASSUME NEW c, NEW f, NEW r, Stage(r) \in {"unlinkip", "created", "exists", "linkput"}
  PROVE  /\ Holding(c, f, r).cwd = c /\ Holding(c, f, r).file = f /\ Holding(c, f, r).ip = 0
         /\ Holding(c, f, r).other = r.other /\ ~Linking(r)
         /\ LockOf(r) = (IF Stage(r) \in {"unlinkip", "created"} THEN r.other ELSE 0)
         /\ LinkOf(r) = (IF Stage(r) = "unlinkip" THEN r.other ELSE 0)
         /\ Holding(c, f, r).victim = IF r.pc \in {"put", "drop"} THEN r.victim ELSE 0
  <1>1. Stage(r) # "cd" /\ Stage(r) \notin IpStages /\ Stage(r) \in OtherStages /\ ~Linking(r)
    BY DEF IpStages, OtherStages, Linking
  <1>2. LockOf(r) = (IF Stage(r) \in {"unlinkip", "created"} THEN r.other ELSE 0)
    BY DEF LockOf
  <1>3. LinkOf(r) = (IF Stage(r) = "unlinkip" THEN r.other ELSE 0)
    BY <1>1 DEF LinkOf
  <1> QED BY <1>1, <1>2, <1>3, HoldingFields

\* sys_link() holds the source until it took the link back.
LEMMA HoldsSource ==
  ASSUME NEW c, NEW f, NEW r, Stage(r) = "linkundo"
  PROVE  /\ Holding(c, f, r).cwd = c /\ Holding(c, f, r).file = f /\ Holding(c, f, r).ip = 0
         /\ Holding(c, f, r).other = (IF Linking(r) THEN r.other ELSE 0) /\ LinkOf(r) = Holding(c, f, r).other
         /\ LockOf(r) = 0
         /\ Holding(c, f, r).victim = IF r.pc \in {"put", "drop"} THEN r.victim ELSE 0
  <1>1. Stage(r) # "cd" /\ Stage(r) \notin IpStages /\ Stage(r) \notin OtherStages
    BY DEF IpStages, OtherStages
  <1>2. LockOf(r) = 0
    BY DEF LockOf
  <1> QED BY <1>1, <1>2, HoldingFields DEF LinkOf

\* Outside the calls a process knows nothing.
LEMMA KnowsEnd ==
  ASSUME NEW t, NEW p, NEW r, t.l[p] = r, Stage(r) \in {"user", "end"}, r.pc \in {"user", "end", "put"},
         r.pc = "put" => r.victim \in Inums /\ Stage(r) = "end"
  PROVE  Knows(t, p)
  <1>1. ~Linking(r)
    BY HoldsNothing
  <1>2. r.pc \in {"put", "drop", "ifree"} => r.victim \in Inums /\ r.ret \in Rets
    BY DEF Stage, Rets
  <1>3. InControl(r)
    BY <1>1, <1>2 DEF InControl, IpStages, OtherStages
  <1> QED BY <1>1, <1>3 DEF Knows

\* fileclose()
LEMMA CloseKeeps ==
  ASSUME NEW s, NEW t, NodeStep(s, t), booted \in BOOLEAN, Coherent(s, booted), NEW p \in Users, Close(p)
  PROVE  Coherent(t, booted)
  <1>1. PICK r, o : r = PutThen(o, file[p], "end") /\ o = [Idle EXCEPT !.call = "close"]
    OBVIOUS
  <1>2. o \in Locals
    BY <1>1, IdleFacts DEF Locals, Calls
  <1>3. s.file[p] \in Inums /\ s.file[p] \in 0 .. NINODES /\ file[p] = s.file[p] /\ s.cwd[p] \in Inums
    BY ActorFacts, NodeConstants DEF Close
  <1>4. r \in Locals /\ r.pc = "put" /\ Stage(r) = "end" /\ r.victim = s.file[p]
    <2>1. "end" \in Labels
      BY DEF Labels
    <2> QED BY <1>1, <1>2, <1>3, <2>1, PutThenFacts
  <1>5. Becomes(s, t, p, s.cwd[p], 0, r) /\ t.itable = s.itable /\ t.fs = s.fs /\ t.l[p] = r
    <2>1. /\ Become(p, r) /\ cwd' = cwd /\ file' = [file EXCEPT ![p] = 0]
          /\ itable' = itable /\ fs' = fs
      BY <1>1 DEF Close
    <2>2. Becomes(s, t, p, s.cwd[p], 0, r) /\ t.l[p] = r
      BY <2>1, StartFacts
    <2> QED BY <2>1, <2>2, NodeParts
  <1>6. s.l[p].pc = "user" /\ Stage(s.l[p]) = "user"
    BY ActorFacts DEF Close, Stage
  <1>7. TableOk(t.itable, t.fs) /\ TableMove(s.itable, t.itable, 0, 0, 0, 0, None)
    BY <1>5, ActorFacts, TableMoves, NodeParts
  <1>8. SameLinks(s.l[p], r) /\ LockMove(s, p, r, 0, 0, None)
    BY <1>4, <1>6, HoldsNothing DEF SameLinks, LockMove
  <1>9. OwnMove(Of(s, p), Holding(s.cwd[p], 0, r), 0, 0)
    BY <1>4, <1>6, HoldsNothing DEF OwnMove, Own, Is, Of
  <1>10. Knows(t, p)
    BY <1>3, <1>4, <1>5, KnowsEnd
  <1>11. 0 \in 0 .. NINODES /\ 0 \notin Inums
    BY NodeConstants
  <1> QED BY <1>3, <1>4, <1>5, <1>6, <1>7, <1>8, <1>9, <1>10, <1>11, QuietStep

\* What most steps leave a process knowing
LEMMA KnowsPlain ==
  ASSUME NEW t, NEW p, NEW r, t.l[p] = r, InControl(r), r.pc \notin {"unlinkboth", "newip", "drop", "ifree"},
         Stage(r) \in {"unlink", "create", "mkdir"} \/ (Stage(r) = "link" /\ r.parent) => t.fs[r.ip].type = "dir",
         Linking(r) => t.fs[r.other].type = "file"
  PROVE  Knows(t, p)
  <1>1. Stage(r) \notin {"unlinkboth", "newip"}
    BY DEF Stage, InControl, Rets
  <1> QED BY <1>1 DEF Knows

\* Where a walk starts
LEMMA WalkStarts ==
  ASSUME NEW s, NEW t, NodeStep(s, t), NEW up, Coherent(s, up), NEW p \in Users, NEW path \in Paths
  PROVE  /\ Start(p, path) \in Inums /\ Elements(path) \in Seq(Entries)
         /\ Start(p, path) = s.cwd[p] \/ s.fs[Start(p, path)].nlink > 0
  <1>1. Elements(path) \in Seq(Entries)
    <2>1. CASE path # <<>> /\ Head(path) = "/"
      <3>1. path \notin Seq(Entries)
        BY <2>1, NodeConstants, HeadTailProperties
      <3> QED BY <2>1, <3>1, InodesAssumption DEF Elements
    <2>2. CASE ~(path # <<>> /\ Head(path) = "/")
      BY <2>2, InodesAssumption DEF Elements
    <2> QED BY <2>1, <2>2
  <1>2. s.fs[ROOTINO].nlink > 0
    <2>1. ROOTINO \in Dir(s)
      BY DEF Coherent, Tree
    <2> QED BY <2>1, EntFacts
  <1>3. Start(p, path) = ROOTINO \/ Start(p, path) = s.cwd[p]
    BY ActorFacts DEF Start
  <1> QED BY <1>1, <1>2, <1>3, ActorFacts, NodeConstants

\* A call starts at the root or the cwd.
LEMMA BeginCallKeeps ==
  ASSUME NEW s, NEW t, NodeStep(s, t), booted \in BOOLEAN, Coherent(s, booted), NEW p \in Users,
         NEW c \in Calls \ {"none", "close", "boot"}, NEW path \in Paths, BeginCall(p, c, path)
  PROVE  Coherent(t, booted)
  <1>1. PICK r, i : /\ r = [Idle EXCEPT !.pc = "walk", !.call = c, !.rest = Elements(path),
                              !.parent = (c \in {"create", "mkdir", "unlink"}), !.ip = i]
                    /\ i = Start(p, path)
    BY Zenon
  <1>2. i \in Inums /\ Elements(path) \in Seq(Entries) /\ (i = s.cwd[p] \/ s.fs[i].nlink > 0)
        /\ i \in 0 .. NINODES
    BY <1>1, WalkStarts, NodeConstants
  <1>3. /\ r \in Locals /\ r.pc = "walk" /\ r.call = c /\ r.ip = i
        /\ r.parent = (c \in {"create", "mkdir", "unlink"})
    <2>1. PICK b : b = (c \in {"create", "mkdir", "unlink"})
      OBVIOUS
    <2>2. b \in BOOLEAN /\ b = (c \in {"create", "mkdir", "unlink"})
      <3>1. b = TRUE \/ b = FALSE
        BY <2>1
      <3> QED BY <2>1, <3>1
    <2>3. r = [pc |-> "walk", call |-> c, rest |-> Elements(path), parent |-> b, ip |-> i, other |-> 0,
               victim |-> 0, ret |-> "end"]
      BY <1>1, <2>2 DEF Idle
    <2>4. "walk" \in Labels /\ "end" \in Labels /\ c \in Calls /\ 0 \in 0 .. NINODES
      BY NodeConstants DEF Labels
    <2> QED BY <1>2, <2>2, <2>3, <2>4 DEF Locals
  <1>4. Stage(r) = "walk" /\ ~Linking(r) /\ c \in {"open", "create", "mkdir", "link", "unlink", "chdir"}
    BY <1>3 DEF Stage, Linking, Calls
  <1>5. Becomes(s, t, p, s.cwd[p], s.file[p], r) /\ t.fs = s.fs /\ t.l[p] = r
        /\ t.itable = Got(s.itable, i)
    <2>1. /\ Become(p, r) /\ cwd' = cwd /\ file' = file
          /\ itable' = Got(itable, i) /\ fs' = fs
      BY <1>1 DEF BeginCall
    <2>2. Becomes(s, t, p, s.cwd[p], s.file[p], r) /\ t.l[p] = r
      BY <2>1, StartFacts
    <2> QED BY <2>1, <2>2, NodeParts
  <1>6. s.l[p].pc = "user" /\ Stage(s.l[p]) = "user"
    BY ActorFacts DEF BeginCall, Stage
  <1>7. TableOk(t.itable, t.fs) /\ TableMove(s.itable, t.itable, 0, i, 0, 0, None)
    BY <1>2, <1>5, ActorFacts, TableMoves, NodeParts
  <1>8. Stage(r) \in IpStages \ {"cd", "unlinkboth", "newip"}
    BY <1>4 DEF IpStages
  <1>9. SameLinks(s.l[p], r) /\ LockMove(s, p, r, 0, 0, None)
    BY <1>4, <1>6, <1>8, HoldsNothing, HoldsIp DEF SameLinks, LockMove
  <1>10. OwnMove(Of(s, p), Holding(s.cwd[p], s.file[p], r), i, 0)
    BY <1>3, <1>4, <1>6, <1>8, HoldsNothing, HoldsIp, NodeConstants DEF OwnMove, Own, Is, Of
  <1>11. Knows(t, p)
    <2>1. InControl(r)
      BY <1>2, <1>3, <1>4 DEF InControl, OtherStages
    <2> QED BY <1>3, <1>4, <1>5, <2>1, KnowsPlain
  <1>12. 0 \notin Inums /\ s.cwd[p] \in Inums /\ s.file[p] \in 0 .. NINODES
    BY ActorFacts, NodeConstants
  <1>13. i = s.cwd[p] => Reaches(s, p, i)
    BY <1>6, HoldsNothing, ReachKinds DEF Of
  <1> QED BY <1>2, <1>3, <1>5, <1>6, <1>7, <1>9, <1>10, <1>11, <1>12, <1>13, QuietStep

\* A call ends with the references it began with, or with a new cwd.
LEMMA EndKeeps ==
  ASSUME NEW s, NEW t, NodeStep(s, t), booted \in BOOLEAN, Coherent(s, booted), NEW p \in Users,
         EndCall(p) \/ EndChdir(p)
  PROVE  Coherent(t, booted)
  <1>1. PICK r, c : r = Idle /\ c = IF s.l[p].pc = "cd" THEN s.l[p].ip ELSE s.cwd[p]
    OBVIOUS
  <1>2. s.l[p].pc \in {"end", "cd"} /\ Stage(s.l[p]) = s.l[p].pc
    BY ActorFacts DEF EndCall, EndChdir, Stage
  <1>3. c \in Inums
    <2>1. s.l[p].pc = "cd" => s.l[p].ip \in Inums
      BY <1>2, ActorFacts DEF InControl, IpStages
    <2> QED BY <1>1, <2>1, ActorFacts
  <1>4. Becomes(s, t, p, c, s.file[p], r) /\ t.fs = s.fs /\ t.l[p] = r /\ t.itable = s.itable
    <2>1. Become(p, r) /\ file' = file /\ itable' = itable /\ fs' = fs
      BY <1>1 DEF EndCall, EndChdir, EndOp
    <2>2. CASE EndCall(p)
      <3>1. cwd' = cwd /\ c = s.cwd[p]
        BY <1>1, <2>2, ActorFacts DEF EndCall
      <3> QED BY <2>1, <3>1, StartFacts, NodeParts
    <2>3. CASE EndChdir(p)
      <3>1. cwd' = [cwd EXCEPT ![p] = c]
        BY <1>1, <2>3, ActorFacts DEF EndChdir
      <3>2. Becomes(s, t, p, c, s.file[p], r) /\ t.l[p] = r
        BY <2>1, <3>1, StartFacts
      <3> QED BY <2>1, <3>2, NodeParts
    <2> QED BY <2>2, <2>3
  <1>5. r \in Locals /\ r.pc = "user" /\ Stage(r) = "user"
    BY <1>1, IdleFacts DEF Stage
  <1>6. TableOk(t.itable, t.fs) /\ TableMove(s.itable, t.itable, 0, 0, 0, 0, None)
    BY <1>4, ActorFacts, TableMoves, NodeParts
  <1>7. SameLinks(s.l[p], r) /\ LockMove(s, p, r, 0, 0, None)
    BY <1>2, <1>5, HoldsNothing, HoldsCd DEF SameLinks, LockMove
  <1>8. OwnMove(Of(s, p), Holding(c, s.file[p], r), 0, 0)
    BY <1>1, <1>2, <1>5, HoldsNothing, HoldsCd, NodeConstants DEF OwnMove, Own, Is, Of
  <1>9. Knows(t, p)
    BY <1>4, <1>5, KnowsEnd
  <1>10. 0 \notin Inums /\ s.file[p] \in 0 .. NINODES
    BY Zenon, ActorFacts, NodeConstants
  <1> QED BY <1>2, <1>3, <1>4, <1>5, <1>6, <1>7, <1>8, <1>9, <1>10, QuietStep

\* An iput() of an inode that stays
LEMMA PutKeepsKeeps ==
  ASSUME NEW s, NEW t, NodeStep(s, t), booted \in BOOLEAN, Coherent(s, booted), NEW p \in Users, PutKeeps(p)
  PROVE  Coherent(t, booted)
  <1>1. PICK o, r, d : o = s.l[p] /\ r = To(o, o.ret) /\ d = o.victim
    OBVIOUS
  <1>2. o \in Locals /\ o.pc = "put" /\ d \in Inums /\ o.ret \in Rets /\ Stage(o) = o.ret
    BY <1>1, ActorFacts DEF PutKeeps, InControl, Stage
  <1>3. /\ r \in Locals /\ r.pc = o.ret /\ r.victim = o.victim /\ r.call = o.call /\ r.rest = o.rest
        /\ r.parent = o.parent /\ r.ip = o.ip /\ r.other = o.other
    <2>1. o.ret \in Labels
      BY <1>2 DEF Rets, Labels
    <2> QED BY <1>1, <1>2, <2>1, ToFacts
  <1>4. Stage(r) = Stage(o) /\ r.pc \notin {"put", "drop", "ifree", "newip", "unlinkboth"}
    BY <1>2, <1>3 DEF Stage, Rets
  <1>5. Linking(r) <=> Linking(o)
    BY <1>3, <1>4 DEF Linking
  <1>6. Becomes(s, t, p, s.cwd[p], s.file[p], r) /\ t.fs = s.fs /\ t.l[p] = r
        /\ t.itable = Less(s.itable, d)
    <2>1. /\ Become(p, r) /\ cwd' = cwd /\ file' = file
          /\ itable' = Less(itable, d) /\ fs' = fs
      BY <1>1, ActorFacts DEF PutKeeps, Unchanged, Less
    <2>2. Becomes(s, t, p, s.cwd[p], s.file[p], r) /\ t.l[p] = r
      BY <2>1, StartFacts
    <2> QED BY <2>1, <2>2, NodeParts
  <1>7. Reaches(s, p, d)
    BY <1>1, <1>2, HoldingFields, ReachKinds DEF Of
  <1>8. s.itable[d].ref > 0
    BY <1>2, <1>7, ReachCounts
  <1>9. TableOk(t.itable, t.fs) /\ TableMove(s.itable, t.itable, 0, 0, d, 0, None)
    BY <1>2, <1>6, <1>8, ActorFacts, TableMoves, NodeParts
  <1>10. SameLinks(o, r) /\ LockOf(r) = LockOf(o)
    BY <1>3, <1>4, <1>5 DEF SameLinks, LinkOf, LockOf
  <1>11. OwnMove(Of(s, p), Holding(s.cwd[p], s.file[p], r), 0, d)
    <2>1. PICK h, k : h = Of(s, p) /\ k = Holding(s.cwd[p], s.file[p], r)
      OBVIOUS
    <2>2. /\ h.cwd = k.cwd /\ h.file = k.file /\ h.ip = k.ip /\ h.other = k.other
          /\ h.victim = d /\ k.victim = 0
      BY <1>1, <1>2, <1>3, <1>4, <1>5, <2>1, HoldingFields DEF Of
    <2>3. 0 \notin Inums
      BY NodeConstants
    <2> QED BY <2>1, <2>2, <2>3 DEF OwnMove, Own, Is
  <1>12. Knows(t, p)
    <2>1. Knows(s, p) /\ InControl(o)
      BY <1>1, ActorFacts
    <2>2. InControl(r)
      BY Zenon, <1>3, <1>4, <1>5, <2>1 DEF InControl
    <2>3. Stage(o) \in {"unlink", "create", "mkdir"} \/ (Stage(o) = "link" /\ o.parent) => s.fs[o.ip].type = "dir"
      BY Zenon, <1>1, <2>1 DEF Knows
    <2>4. Linking(o) => s.fs[o.other].type = "file"
      BY Zenon, <1>1, <2>1 DEF Knows
    <2> QED BY <1>3, <1>4, <1>5, <1>6, <2>2, <2>3, <2>4, KnowsPlain
  <1>13. s.itable[d].ref # 1 \/ ~s.itable[d].valid \/ s.fs[d].nlink > 0
    <2>1. s.itable[d].valid => s.itable[d].nlink = s.fs[d].nlink
      BY <1>2, ActorFacts DEF TableOk
    <2>2. s.fs[d].nlink \in Nat
      BY <1>2, ActorFacts, NodeConstants DEF Inodes
    <2> QED BY SMTT(30), <1>1, <2>1, <2>2, ActorFacts, NodeParts DEF PutKeeps, LastLink
  <1>14. 0 \notin Inums /\ s.cwd[p] \in Inums /\ s.file[p] \in 0 .. NINODES
    BY ActorFacts, NodeConstants
  <1>15. LockMove(s, p, r, 0, 0, None)
    BY <1>1, <1>10 DEF LockMove
  <1> QED BY <1>1, <1>2, <1>3, <1>4, <1>6, <1>9, <1>10, <1>11, <1>12, <1>13, <1>14, <1>15, QuietStep

\* The stages in which a process holds an inode that it has not locked
Bare == {"walk", "open", "chdir", "unlink", "create", "mkdir", "link"}

Standing(s, p, o) ==
    /\ Stage(o) = o.pc /\ Stage(o) \in IpStages \ {"cd", "unlinkboth", "newip"}
    /\ o.pc \notin {"newip", "drop", "ifree", "put", "unlockdp", "unlinkip"} /\ o.ip \in Inums /\ LockOf(o) = 0
    /\ Of(s, p).cwd = s.cwd[p] /\ Of(s, p).file = s.file[p] /\ Of(s, p).ip = o.ip
    /\ Of(s, p).other = (IF Linking(o) THEN o.other ELSE 0) /\ Of(s, p).victim = 0
    /\ LinkOf(o) = Of(s, p).other /\ Reaches(s, p, o.ip)
    /\ Linking(o) => o.other \in Inums /\ s.fs[o.other].type = "file"
    /\ o \in Locals /\ 0 \notin Inums /\ s.cwd[p] \in Inums /\ s.file[p] \in 0 .. NINODES
    /\ TableMove(s.itable, s.itable, 0, 0, 0, 0, None) /\ TableOk(s.itable, s.fs)
    /\ TableMove(s.itable, Visited(o.ip), o.ip, 0, 0, 0, None) /\ TableOk(Visited(o.ip), s.fs)

\* What a process has at the stages without a lock
LEMMA BareFacts ==
  ASSUME NEW s, NEW t, NodeStep(s, t), NEW up, Coherent(s, up), NEW p \in Users, NEW o, o = s.l[p],
         o.pc \in Bare
  PROVE  Standing(s, p, o)
  <1>1. Stage(o) = o.pc
    BY DEF Bare, Stage
  <1>2. /\ Stage(o) \in IpStages \ {"cd", "unlinkboth", "newip"}
        /\ o.pc \notin {"newip", "drop", "ifree", "put", "unlockdp", "unlinkip"}
    BY <1>1 DEF Bare, IpStages
  <1>3. InControl(o) /\ o \in Locals /\ s.cwd[p] \in Inums /\ s.file[p] \in 0 .. NINODES /\ Knows(s, p)
    BY Zenon, ActorFacts
  <1>4. o.ip \in Inums /\ (Linking(o) => o.other \in Inums /\ s.fs[o.other].type = "file")
    BY <1>2, <1>3 DEF InControl, Knows
  <1>5. /\ Of(s, p).cwd = s.cwd[p] /\ Of(s, p).file = s.file[p] /\ Of(s, p).ip = o.ip
        /\ Of(s, p).other = (IF Linking(o) THEN o.other ELSE 0) /\ Of(s, p).victim = 0
        /\ LinkOf(o) = Of(s, p).other /\ LockOf(o) = 0
    BY <1>1, <1>2, HoldsIp DEF Of
  <1>6. Reaches(s, p, o.ip)
    BY <1>5, ReachKinds
  <1>7. /\ TableMove(s.itable, s.itable, 0, 0, 0, 0, None) /\ TableOk(s.itable, s.fs)
        /\ TableMove(s.itable, Visited(o.ip), o.ip, 0, 0, 0, None) /\ TableOk(Visited(o.ip), s.fs)
    <2>1. fs = s.fs /\ itable = s.itable
      BY Zenon, NodeParts
    <2>2. TableOk(itable, s.fs) /\ s.fs \in [Inums -> Inodes] /\ s.fs = fs /\ o.ip \in Inums
      BY Zenon, <1>4, <2>1, ActorFacts
    <2>3. /\ TableMove(itable, itable, 0, 0, 0, 0, None)
          /\ TableMove(itable, Visited(o.ip), o.ip, 0, 0, 0, None) /\ TableOk(Visited(o.ip), s.fs)
      BY ONLY <2>2, TableMoves
    <2> QED BY Zenon, <2>1, <2>2, <2>3
  <1> QED BY <1>1, <1>2, <1>3, <1>4, <1>5, <1>6, <1>7, NodeConstants DEF Standing

\* A call that fails puts the inode, and one that links takes the link back then.
LEMMA VisitPuts ==
  ASSUME NEW s, NEW t, NodeStep(s, t), booted \in BOOLEAN, Coherent(s, booted), NEW p \in Users,
         NEW o, o = s.l[p], o.pc \in Bare, itable' = itable \/ itable' = Visited(o.ip), fs' = fs, cwd' = cwd,
         file' = file, NEW r, r = PutThen(o, o.ip, IF Linking(o) THEN "linkundo" ELSE "end"), Become(p, r)
  PROVE  Coherent(t, booted)
  <1>1. Standing(s, p, o)
    BY BareFacts
  <1>2. PICK label : label = IF Linking(o) THEN "linkundo" ELSE "end"
    OBVIOUS
  <1>3. /\ r \in Locals /\ r.pc = "put" /\ r.victim = o.ip /\ Stage(r) = label
        /\ r.call = o.call /\ r.parent = o.parent /\ r.other = o.other /\ r.ret = label
    <2>1. label \in Labels
      BY <1>2 DEF Labels
    <2>2. o \in Locals /\ o.ip \in 0 .. NINODES
      BY <1>1, NodeConstants DEF Standing
    <2> QED BY <1>2, <2>1, <2>2, PutThenFacts
  <1>4. Linking(r) <=> Linking(o)
    <2>1. Linking(o) => o.call = "link" /\ o.parent
      BY DEF Linking
    <2>2. label = "linkundo" <=> Linking(o)
      BY <1>2
    <2>3. label \in {"end", "linkundo"}
      BY <1>2
    <2> QED BY <1>3, <2>1, <2>2, <2>3 DEF Linking
  <1>5. /\ Holding(s.cwd[p], s.file[p], r).cwd = s.cwd[p] /\ Holding(s.cwd[p], s.file[p], r).file = s.file[p]
        /\ Holding(s.cwd[p], s.file[p], r).ip = 0 /\ Holding(s.cwd[p], s.file[p], r).victim = o.ip
        /\ Holding(s.cwd[p], s.file[p], r).other = (IF Linking(o) THEN o.other ELSE 0)
        /\ LinkOf(r) = LinkOf(o) /\ LockOf(r) = 0
    <2>1. CASE label = "end"
      <3>1. Stage(r) \in {"user", "end"} /\ r.pc \in {"put", "drop"} /\ r.victim = o.ip /\ ~Linking(o)
        BY <1>1, <1>2, <1>3, <1>4, <2>1, HoldsNothing
      <3>2. LinkOf(o) = 0
        BY Zenon, <1>1, <3>1 DEF Standing
      <3> QED BY ONLY <3>1, <3>2, HoldsNothing
    <2>2. CASE label = "linkundo"
      BY SMTT(30), <1>1, <1>2, <1>3, <1>4, <2>2, HoldsSource DEF Standing
    <2> QED BY Zenon, <1>2, <2>1, <2>2
  <1>6. OwnMove(Of(s, p), Holding(s.cwd[p], s.file[p], r), 0, 0)
    BY <1>1, <1>5 DEF Standing, OwnMove, Own, Is
  <1>7. SameLinks(o, r) /\ LockMove(s, p, r, 0, 0, None) /\ LockMove(s, p, r, o.ip, 0, None)
    BY <1>1, <1>2, <1>3, <1>5 DEF Standing, SameLinks, LockMove
  <1>8. Becomes(s, t, p, s.cwd[p], s.file[p], r) /\ t.l[p] = r
    BY StartFacts
  <1>9. t.fs = s.fs /\ (t.itable = s.itable \/ t.itable = Visited(o.ip))
    BY Zenon, NodeParts
  <1>10. Knows(t, p)
    <2>1. r.victim \in Inums /\ r.ret \in Rets
      BY <1>1, <1>2, <1>3 DEF Standing, Rets
    <2>2. Stage(r) \notin IpStages /\ Stage(r) \notin OtherStages /\ Stage(r) \in {"end", "linkundo"}
      BY Zenon, <1>2, <1>3 DEF IpStages, OtherStages
    <2>3. Linking(r) => r.other \in Inums /\ t.fs[r.other].type = "file"
      BY Zenon, <1>1, <1>3, <1>4, <1>9 DEF Standing
    <2>4. Stage(r) = "linkundo" => r.call = "link" /\ r.parent
      BY Zenon, <1>2, <1>3, <1>4 DEF Linking
    <2>5. InControl(r)
      BY <1>3, <2>1, <2>2, <2>3, <2>4 DEF InControl
    <2> QED BY <1>3, <1>8, <2>2, <2>3, <2>5, KnowsPlain
  <1>11. PICK v : /\ v = 0 \/ (v \in Inums /\ v = o.ip)
                /\ TableMove(s.itable, t.itable, v, 0, 0, 0, None) /\ TableOk(t.itable, t.fs)
                /\ LockMove(s, p, r, v, 0, None)
    BY Zenon, <1>1, <1>7, <1>9 DEF Standing
  <1> QED BY <1>1, <1>3, <1>6, <1>7, <1>8, <1>9, <1>10, <1>11, QuietStep DEF Standing

\* A call that goes on with the inode as it is
LEMMA VisitStays ==
  ASSUME NEW s, NEW t, NodeStep(s, t), booted \in BOOLEAN, Coherent(s, booted), NEW p \in Users,
         NEW o, o = s.l[p], o.pc \in Bare, itable' = itable \/ itable' = Visited(o.ip), fs' = fs, cwd' = cwd,
         file' = file, NEW label \in Bare \ {"walk"}, NEW r, r = To(o, label), Become(p, r),
         label = o.call, o.call = "link" => o.pc = "walk",
         label \in {"unlink", "create", "mkdir"} \/ (label = "link" /\ o.parent) =>
            o.rest # <<>> /\ s.fs[o.ip].type = "dir"
  PROVE  Coherent(t, booted)
  <1>1. Standing(s, p, o)
    BY BareFacts
  <1>2. /\ r \in Locals /\ r.pc = label /\ r.rest = o.rest /\ r.ip = o.ip
        /\ r.call = o.call /\ r.parent = o.parent /\ r.other = o.other
    <2>1. label \in Labels
      BY DEF Labels, Bare
    <2> QED BY <1>1, <2>1, ToFacts DEF Standing
  <1>3. Stage(r) = label /\ Stage(r) \in IpStages \ {"cd", "unlinkboth", "newip"} /\ Stage(r) # "unlockdp"
        /\ r.pc \notin {"newip", "drop", "ifree", "put", "unlinkip", "unlinkboth"}
    BY <1>2 DEF Stage, Bare, IpStages
  <1>4. Linking(r) <=> Linking(o)
    BY <1>1, <1>2, <1>3 DEF Standing, Linking
  <1>5. OwnMove(Of(s, p), Holding(s.cwd[p], s.file[p], r), 0, 0) /\ LinkOf(r) = LinkOf(o) /\ LockOf(r) = 0
    <2>1. PICK h : h = Holding(s.cwd[p], s.file[p], r)
      OBVIOUS
    <2>2. /\ h.cwd = s.cwd[p] /\ h.file = s.file[p] /\ h.ip = o.ip /\ h.victim = 0
          /\ h.other = (IF Linking(o) THEN o.other ELSE 0) /\ LinkOf(r) = h.other /\ LockOf(r) = 0
      BY <1>2, <1>3, <1>4, <2>1, HoldsIp
    <2>3. LinkOf(r) = LinkOf(o)
      BY <1>1, <2>2 DEF Standing
    <2>4. OwnMove(Of(s, p), h, 0, 0)
      BY <1>1, <2>2 DEF Standing, OwnMove, Own, Is
    <2> QED BY <2>1, <2>2, <2>3, <2>4
  <1>6. SameLinks(o, r) /\ LockMove(s, p, r, 0, 0, None) /\ LockMove(s, p, r, o.ip, 0, None)
    BY <1>1, <1>2, <1>3, <1>5 DEF Standing, SameLinks, LockMove
  <1>7. Becomes(s, t, p, s.cwd[p], s.file[p], r) /\ t.l[p] = r
    BY StartFacts
  <1>8. t.fs = s.fs /\ (t.itable = s.itable \/ t.itable = Visited(o.ip))
    BY Zenon, NodeParts
  <1>9. Knows(t, p)
    <2>1. Linking(r) => r.other \in Inums /\ t.fs[r.other].type = "file"
      BY Zenon, <1>1, <1>2, <1>4, <1>8 DEF Standing
    <2>2. InControl(r)
      BY <1>1, <1>2, <1>3, <2>1 DEF Standing, InControl, Bare, OtherStages
    <2> QED BY Zenon, <1>2, <1>3, <1>7, <1>8, <2>1, <2>2, KnowsPlain
  <1>10. PICK v : /\ v = 0 \/ (v \in Inums /\ v = o.ip)
                /\ TableMove(s.itable, t.itable, v, 0, 0, 0, None) /\ TableOk(t.itable, t.fs)
                /\ LockMove(s, p, r, v, 0, None)
    BY <1>1, <1>6, <1>8 DEF Standing
  <1> QED BY <1>1, <1>2, <1>3, <1>5, <1>6, <1>7, <1>8, <1>9, <1>10, QuietStep DEF Standing

\* A walk that fails ends the call, or has sys_link() take its link back.
LEMMA WalkFails ==
  ASSUME NEW s, NEW t, NodeStep(s, t), NEW up, Coherent(s, up), NEW p \in Users, NEW o, o = s.l[p], o.pc = "walk"
  PROVE  Failed(p) = IF Linking(o) THEN "linkundo" ELSE "end"
  <1>1. Stage(o) = "walk" /\ l[p] = o
    BY ActorFacts DEF Stage
  <1> QED BY <1>1 DEF Failed, Linking

\* namei() has its inode, or nameiparent() fails.
LEMMA WalkEndsKeeps ==
  ASSUME NEW s, NEW t, NodeStep(s, t), booted \in BOOLEAN, Coherent(s, booted), NEW p \in Users, WalkEnds(p)
  PROVE  Coherent(t, booted)
  <1>1. PICK o, r : o = s.l[p] /\ r = IF o.parent THEN PutThen(o, o.ip, Failed(p)) ELSE To(o, o.call)
    OBVIOUS
  <1>2. /\ o = l[p] /\ o.pc = "walk" /\ o.pc \in Bare /\ itable' = itable /\ fs' = fs /\ cwd' = cwd /\ file' = file
        /\ Become(p, r)
    BY <1>1, ActorFacts DEF WalkEnds, Unchanged, Bare
  <1>3. Standing(s, p, o)
    BY <1>1, <1>2, BareFacts
  <1>4. CASE o.parent
    BY <1>1, <1>2, <1>4, WalkFails, VisitPuts
  <1>5. CASE ~o.parent
    <2>1. Stage(o) = "walk" /\ InControl(o)
      BY <1>1, <1>2, ActorFacts DEF Stage
    <2>2. o.call \in {"open", "chdir", "link"}
      BY <1>5, <2>1 DEF InControl
    <2>3. o.call \in Bare \ {"walk"}
      BY <2>2 DEF Bare
    <2> QED BY <1>1, <1>2, <1>5, <2>2, <2>3, VisitStays
  <1> QED BY <1>4, <1>5

\* nameiparent() has its directory, or fails.
LEMMA WalkParentKeeps ==
  ASSUME NEW s, NEW t, NodeStep(s, t), booted \in BOOLEAN, Coherent(s, booted), NEW p \in Users, WalkParent(p)
  PROVE  Coherent(t, booted)
  <1>1. PICK o, r : /\ o = s.l[p]
                    /\ r = IF Loaded(o.ip).type = "dir" /\ Loaded(o.ip).nlink > 0 THEN To(o, o.call)
                           ELSE PutThen(o, o.ip, Failed(p))
    OBVIOUS
  <1>2. /\ o = l[p] /\ o.pc = "walk" /\ o.pc \in Bare /\ itable' = Visited(o.ip) /\ fs' = fs /\ cwd' = cwd
        /\ file' = file /\ Become(p, r) /\ o.parent /\ Len(o.rest) = 1
    BY <1>1, ActorFacts DEF WalkParent, Unchanged, Bare
  <1>3. Standing(s, p, o)
    BY <1>1, <1>2, BareFacts
  <1>4. CASE ~(Loaded(o.ip).type = "dir" /\ Loaded(o.ip).nlink > 0)
    BY <1>1, <1>2, <1>4, WalkFails, VisitPuts
  <1>5. CASE Loaded(o.ip).type = "dir" /\ Loaded(o.ip).nlink > 0
    <2>1. Stage(o) = "walk" /\ InControl(o)
      BY <1>1, <1>2, ActorFacts DEF Stage
    <2>2. o.call \in {"create", "mkdir", "unlink", "link"}
      BY <1>2, <2>1 DEF InControl
    <2>3. o.call \in Bare \ {"walk"}
      BY <2>2 DEF Bare
    <2>4. s.fs[o.ip].type = "dir"
      <3>1. o.ip \in Inums
        BY <1>3, <1>1, <1>2 DEF Standing
      <3> QED BY <1>5, <3>1, ActorFacts, VisitedFacts, NodeParts
    <2>5. o.rest # <<>>
      BY <1>2, EmptySeq
    <2> QED BY <1>1, <1>2, <1>5, <2>3, <2>4, <2>5, VisitStays
  <1> QED BY <1>4, <1>5

\* A directory with links whose lock is free has only entries with links.
LEMMA OpenDir ==
  ASSUME NEW s, NEW t, NodeStep(s, t), NEW up, Coherent(s, up), NEW i \in Inums, LockFree(i),
         s.fs[i].type = "dir", s.fs[i].nlink > 0
  PROVE  /\ i \in Dir(s)
         /\ \A n \in Entries : s.fs[i].ent[n] # 0 =>
               LET j == s.fs[i].ent[n] IN j \in Inums /\ s.fs[j].nlink > 0 /\ s.fs[j].type # "free"
  <1>1. s.itable[i].lock = None
    BY NodeParts DEF LockFree
  <1>2. i \in Dir(s)
    BY <1>1, NodeConstants, IsInTree
  <1> QED BY <1>2, NamedIsLinked

\* namex() goes on to the next element, or fails.
LEMMA WalkOnKeeps ==
  ASSUME NEW s, NEW t, NodeStep(s, t), booted \in BOOLEAN, Coherent(s, booted), NEW p \in Users, WalkOn(p)
  PROVE  Coherent(t, booted)
  <1>1. PICK o, i, n, next : o = s.l[p] /\ i = o.ip /\ n = Head(o.rest) /\ next = s.fs[i].ent[n]
    BY Zenon
  <1>2. /\ o = l[p] /\ o.pc = "walk" /\ o.pc \in Bare /\ o.rest # <<>> /\ fs' = fs /\ cwd' = cwd
        /\ file' = file /\ CanLock(i) /\ fs = s.fs
    BY <1>1, ActorFacts, NodeParts DEF WalkOn, Unchanged, Bare
  <1>3. Standing(s, p, o)
    BY <1>1, <1>2, BareFacts
  <1>4. CASE ~CanEnter(i, n)
    <2>1. itable' = Visited(i) /\ Become(p, PutThen(o, i, Failed(p)))
      BY <1>1, <1>2, <1>4 DEF WalkOn
    <2> QED BY <1>1, <1>2, <2>1, WalkFails, VisitPuts
  <1>5. CASE CanEnter(i, n)
    <2>1. PICK x, r : x = [o EXCEPT !.ip = next, !.rest = Tail(o.rest)] /\ r = PutThen(x, i, "walk")
      OBVIOUS
    <2>2. itable' = Got(Visited(i), next) /\ Become(p, r)
      BY Zenon, <1>1, <1>2, <1>5, <2>1 DEF WalkOn
    <2>3. o \in Locals /\ i \in Inums /\ i \in 0 .. NINODES
      BY <1>3, <1>1, NodeConstants DEF Standing
    <2>4. Tail(o.rest) \in Seq(Entries) /\ n \in Entries
      <3>1. o.rest \in Seq(Entries)
        BY Zenon, <2>3 DEF Locals
      <3> QED BY <1>1, <1>2, <3>1, HeadTailProperties
    <2>5. /\ s.fs[i].type = "dir" /\ s.fs[i].nlink > 0 /\ next # 0
      BY <1>1, <1>2, <1>5, <2>3, ActorFacts, VisitedFacts, NodeParts DEF CanEnter
    <2>6. next \in Inums /\ s.fs[next].nlink > 0 /\ next \in 0 .. NINODES
      BY Zenon, <1>1, <1>2, <2>3, <2>4, <2>5, OpenDir, NodeConstants DEF CanLock
    <2>7. /\ x \in Locals /\ x.ip = next /\ x.call = o.call /\ x.parent = o.parent /\ x.other = o.other
      BY <2>1, <2>3, <2>4, <2>6 DEF Locals
    <2>8. /\ r \in Locals /\ r.pc = "put" /\ r.victim = i /\ r.ret = "walk" /\ Stage(r) = "walk"
          /\ r.ip = next /\ r.call = o.call /\ r.parent = o.parent /\ r.other = o.other
      <3>1. "walk" \in Labels
        BY DEF Labels
      <3>2. r = PutThen(x, i, "walk") /\ x \in Locals
        BY <2>1, <2>7
      <3>3. /\ r \in Locals /\ r.pc = "put" /\ r.victim = i /\ r.ret = "walk" /\ Stage(r) = "walk"
            /\ r.ip = x.ip /\ r.call = x.call /\ r.parent = x.parent /\ r.other = x.other
        BY ONLY <2>3, <3>1, <3>2, PutThenFacts
      <3> QED BY <2>7, <3>3
    <2>9. Linking(r) <=> Linking(o)
      BY <1>3, <1>1, <1>2, <2>8 DEF Standing, Linking
    <2>10. PICK h : h = Holding(s.cwd[p], s.file[p], r)
      OBVIOUS
    <2>11. /\ h.cwd = s.cwd[p] /\ h.file = s.file[p] /\ h.ip = next /\ h.victim = i
           /\ h.other = (IF Linking(o) THEN o.other ELSE 0) /\ LinkOf(r) = h.other /\ LockOf(r) = 0
      <3>1. Stage(r) \in IpStages \ {"cd", "unlinkboth", "newip"}
        BY <2>8 DEF IpStages
      <3> QED BY <2>8, <2>9, <2>10, <3>1, HoldsIp
    <2>12. OwnMove(Of(s, p), h, next, 0)
      <3>1. PICK k : k = Of(s, p)
        BY Zenon
      <3>2. /\ k.cwd = h.cwd /\ k.file = h.file /\ k.ip = h.victim /\ h.ip = next /\ k.other = h.other
            /\ k.victim = 0 /\ 0 \notin Inums
        BY <1>3, <1>1, <2>11, <3>1 DEF Standing
      <3> QED BY <3>1, <3>2 DEF OwnMove, Own, Is
    <2>13. SameLinks(o, r) /\ LockMove(s, p, r, i, 0, None)
      BY <1>3, <1>1, <1>2, <2>8, <2>11 DEF Standing, SameLinks, LockMove
    <2>14. Becomes(s, t, p, s.cwd[p], s.file[p], r) /\ t.l[p] = r
      BY <1>2, <2>2, StartFacts
    <2>15. t.fs = s.fs /\ t.itable = Got(Visited(i), next)
      BY <1>2, <2>2, NodeParts
    <2>16. TableMove(s.itable, t.itable, i, next, 0, 0, None) /\ TableOk(t.itable, t.fs)
      BY <2>3, <2>6, <2>15, ActorFacts, TableMoves, NodeParts
    <2>17. Knows(t, p)
      <3>1. Linking(r) => r.other \in Inums /\ t.fs[r.other].type = "file"
        BY <1>3, <1>1, <1>2, <2>8, <2>9, <2>15 DEF Standing
      <3>2. InControl(o) /\ Stage(o) = "walk"
        BY <1>3, <1>1, <1>2, ActorFacts DEF Standing
      <3>3. "walk" \in Rets /\ "walk" \notin OtherStages
        BY DEF Rets, OtherStages
      <3>4. InControl(r)
        BY <2>3, <2>6, <2>8, <3>1, <3>2, <3>3 DEF InControl
      <3> QED BY <2>8, <2>14, <3>1, <3>4, KnowsPlain
    <2> QED BY Zenon, <1>3, <1>1, <1>2, <2>3, <2>6, <2>8, <2>10, <2>12, <2>13, <2>14, <2>15, <2>16, <2>17, QuietStep DEF Standing
  <1> QED BY <1>4, <1>5

\* sys_open() of what exists
LEMMA OpenKeeps ==
  ASSUME NEW s, NEW t, NodeStep(s, t), booted \in BOOLEAN, Coherent(s, booted), NEW p \in Users,
         NEW opens \in BOOLEAN, Open(p, opens)
  PROVE  Coherent(t, booted)
  <1>1. PICK o, i : o = s.l[p] /\ i = o.ip
    OBVIOUS
  <1>2. /\ o = l[p] /\ o.pc = "open" /\ o.pc \in Bare /\ fs' = fs /\ cwd' = cwd /\ itable' = Visited(i)
        /\ Install(p, i, opens)
    BY <1>1, ActorFacts DEF Open, Unchanged, Bare
  <1>3. Standing(s, p, o)
    BY <1>1, <1>2, BareFacts
  <1>4. ~Linking(o)
    BY <1>2 DEF Linking, Stage
  <1>5. CASE ~opens
    <2>1. file' = file /\ Become(p, PutThen(o, i, "end"))
      BY <1>1, <1>2, <1>5 DEF Install
    <2> QED BY <1>1, <1>2, <1>4, <2>1, VisitPuts
  <1>6. CASE opens
    <2>1. PICK r : r = To(o, "end")
      OBVIOUS
    <2>2. s.file[p] = 0 /\ file' = [file EXCEPT ![p] = i] /\ Become(p, r)
      BY <1>2, <1>6, <2>1, NodeParts DEF Install
    <2>3. r \in Locals /\ r.pc = "end" /\ Stage(r) = "end"
      <3>1. "end" \in Labels
        BY DEF Labels
      <3> QED BY <1>3, <2>1, <3>1, ToFacts DEF Standing, Stage
    <2>4. PICK h, k : h = Of(s, p) /\ k = Holding(s.cwd[p], i, r)
      OBVIOUS
    <2>5. /\ k.cwd = h.cwd /\ k.file = h.ip /\ h.file = 0 /\ k.ip = 0 /\ k.other = 0 /\ h.other = 0
          /\ k.victim = 0 /\ h.victim = 0 /\ 0 \notin Inums /\ LockOf(r) = 0 /\ LinkOf(r) = 0
      BY <1>1, <1>3, <1>4, <2>2, <2>3, <2>4, HoldsNothing DEF Standing
    <2>6. OwnMove(h, k, 0, 0)
      BY <2>5 DEF OwnMove, Own, Is
    <2>7. SameLinks(o, r) /\ LockMove(s, p, r, i, 0, None)
      BY <1>1, <1>2, <1>3, <1>4, <2>3, <2>5 DEF Standing, SameLinks, LockMove
    <2>8. Becomes(s, t, p, s.cwd[p], i, r) /\ t.l[p] = r
      BY ZenonT(30), <1>2, <2>2, StartFacts
    <2>9. t.fs = s.fs /\ t.itable = Visited(i)
      BY <1>2, NodeParts
    <2>10. Knows(t, p)
      BY <2>3, <2>8, KnowsEnd
    <2>11. i \in Inums /\ i \in 0 .. NINODES
      BY <1>1, <1>3, NodeConstants DEF Standing
    <2>12. TableMove(s.itable, t.itable, i, 0, 0, 0, None) /\ TableOk(t.itable, t.fs) /\ Reaches(s, p, i)
           /\ s.cwd[p] \in Inums /\ 0 \notin Inums
      BY <1>1, <1>3, <2>9 DEF Standing
    <2> QED BY <1>1, <1>2, <2>3, <2>4, <2>6, <2>7, <2>8, <2>9, <2>10, <2>11, <2>12, QuietStep
  <1> QED BY <1>5, <1>6

\* sys_chdir() has the new directory.
LEMMA ChdirKeeps ==
  ASSUME NEW s, NEW t, NodeStep(s, t), booted \in BOOLEAN, Coherent(s, booted), NEW p \in Users, Chdir(p)
  PROVE  Coherent(t, booted)
  <1>1. PICK o, i : o = s.l[p] /\ i = o.ip
    OBVIOUS
  <1>2. /\ o = l[p] /\ o.pc = "chdir" /\ o.pc \in Bare /\ fs' = fs /\ cwd' = cwd /\ itable' = Visited(i)
        /\ file' = file /\ cwd[p] = s.cwd[p]
    BY <1>1, ActorFacts DEF Chdir, Unchanged, Bare
  <1>3. Standing(s, p, o)
    BY <1>1, <1>2, BareFacts
  <1>4. ~Linking(o)
    BY <1>2 DEF Linking, Stage
  <1>5. CASE Loaded(i).type # "dir"
    <2>1. Become(p, PutThen(o, i, "end"))
      BY <1>1, <1>2, <1>5 DEF Chdir
    <2> QED BY <1>1, <1>2, <1>4, <2>1, VisitPuts
  <1>6. CASE Loaded(i).type = "dir"
    <2>1. PICK c, r : c = s.cwd[p] /\ r = PutThen(o, c, "cd")
      OBVIOUS
    <2>2. Become(p, r)
      BY <1>1, <1>2, <1>6, <2>1 DEF Chdir
    <2>3. /\ r \in Locals /\ r.pc = "put" /\ r.ret = "cd" /\ Stage(r) = "cd" /\ r.victim = c /\ r.ip = i
          /\ c \in Inums /\ i \in Inums
      <3>1. "cd" \in Labels
        BY DEF Labels
      <3>2. o \in Locals /\ c \in Inums /\ c \in 0 .. NINODES /\ i \in Inums
        BY <1>1, <1>3, <2>1, NodeConstants DEF Standing
      <3> QED BY <1>1, <2>1, <3>1, <3>2, PutThenFacts
    <2>4. PICK h, k : h = Of(s, p) /\ k = Holding(s.cwd[p], s.file[p], r)
      OBVIOUS
    <2>5. /\ k.cwd = 0 /\ h.cwd = k.victim /\ h.file = k.file /\ k.ip = h.ip /\ k.other = 0 /\ h.other = 0
          /\ h.victim = 0 /\ 0 \notin Inums /\ LockOf(r) = 0 /\ LinkOf(r) = 0 /\ ~Linking(r)
      BY <1>1, <1>3, <1>4, <2>1, <2>3, <2>4, HoldsCd DEF Standing
    <2>6. OwnMove(h, k, 0, 0)
      BY <2>5 DEF OwnMove, Own, Is
    <2>7. SameLinks(o, r) /\ LockMove(s, p, r, i, 0, None)
      BY <1>1, <1>2, <1>3, <1>4, <2>3, <2>5 DEF Standing, SameLinks, LockMove
    <2>8. Becomes(s, t, p, s.cwd[p], s.file[p], r) /\ t.l[p] = r
      BY <1>2, <2>2, StartFacts
    <2>9. t.fs = s.fs /\ t.itable = Visited(i)
      BY <1>2, NodeParts
    <2>10. Knows(t, p)
      <3>1. "cd" \in Rets /\ "cd" \notin OtherStages
        BY DEF Rets, OtherStages
      <3>2. InControl(r)
        BY <2>3, <2>5, <3>1 DEF InControl
      <3> QED BY <2>3, <2>5, <2>8, <3>2, KnowsPlain
    <2> QED BY <1>1, <1>2, <1>3, <2>3, <2>4, <2>6, <2>7, <2>8, <2>9, <2>10, QuietStep DEF Standing
  <1> QED BY <1>5, <1>6

\* sys_unlink() has the child, or finds none.
LEMMA UnlinkKeeps ==
  ASSUME NEW s, NEW t, NodeStep(s, t), booted \in BOOLEAN, Coherent(s, booted), NEW p \in Users, Unlink(p)
  PROVE  Coherent(t, booted)
  <1>1. PICK o, i, n, j : o = s.l[p] /\ i = o.ip /\ n = Head(o.rest) /\ j = s.fs[i].ent[n]
    OBVIOUS
  <1>2. /\ o = l[p] /\ o.pc = "unlink" /\ o.pc \in Bare /\ fs' = fs /\ cwd' = cwd /\ CanLock(i)
        /\ file' = file /\ s.fs = fs /\ n = Name(p)
    BY <1>1, ActorFacts, NodeParts DEF Unlink, Unchanged, Bare, Name
  <1>3. Standing(s, p, o)
    BY <1>1, <1>2, BareFacts
  <1>4. ~Linking(o)
    BY <1>2 DEF Linking, Stage
  <1>5. CASE n = UP \/ j = 0
    <2>1. itable' = Visited(i) /\ Become(p, PutThen(o, i, "end"))
      BY <1>1, <1>2, <1>5 DEF Unlink
    <2> QED BY <1>1, <1>2, <1>4, <2>1, VisitPuts
  <1>6. CASE ~(n = UP \/ j = 0)
    <2>1. PICK x, r : x = To(o, "unlinkboth") /\ r = [x EXCEPT !.other = j]
      OBVIOUS
    <2>2. itable' = Got(Locked(itable, p, i), j) /\ Become(p, r)
      BY Zenon, <1>1, <1>2, <1>6, <2>1 DEF Unlink
    <2>3. s.fs[i].type = "dir" /\ o.rest # <<>> /\ i \in Inums
      <3>1. Knows(s, p) /\ InControl(o) /\ Stage(o) = "unlink" /\ i \in Inums
        BY <1>1, <1>2, <1>3, ActorFacts DEF Standing
      <3> QED BY Zenon, <1>1, <3>1 DEF Knows, InControl
    <2>4. n \in Names /\ n \in Entries
      <3>1. o.rest \in Seq(Entries)
        BY <1>3 DEF Standing, Locals
      <3>2. n \in Entries
        BY Zenon, <1>1, <2>3, <3>1, HeadTailProperties
      <3> QED BY <1>6, <3>2, NodeConstants
    <2>5. i \in Dir(s)
      <3>1. i \in Dir(s) \/ s.fs[i].ent[n] = 0
        BY <2>3, <2>4 DEF Coherent, Tree
      <3> QED BY <1>1, <1>6, <3>1
    <2>6. j \in Inums /\ s.fs[j].nlink > 0 /\ j \in 0 .. NINODES
      BY Zenon, <1>1, <1>6, <2>4, <2>5, NamedIsLinked, NodeConstants
    <2>7. /\ x \in Locals /\ x.pc = "unlinkboth" /\ x.ip = i /\ x.rest = o.rest /\ x.call = o.call
      <3>1. "unlinkboth" \in Labels
        BY DEF Labels
      <3>2. o \in Locals
        BY <1>3 DEF Standing
      <3> QED BY SMTT(30), <1>1, <2>1, <3>1, <3>2, ToFacts
    <2>8. r \in Locals /\ r.pc = "unlinkboth" /\ r.ip = i /\ r.rest = o.rest /\ r.other = j
      BY <2>1, <2>6, <2>7 DEF Locals
    <2>9. Stage(r) = "unlinkboth"
      BY <2>8 DEF Stage
    <2>10. PICK h, k : h = Of(s, p) /\ k = Holding(s.cwd[p], s.file[p], r)
      OBVIOUS
    <2>11. /\ k.cwd = h.cwd /\ k.file = h.file /\ k.ip = h.ip /\ k.other = j /\ h.other = 0
           /\ h.victim = 0 /\ k.victim = 0 /\ 0 \notin Inums /\ LockOf(r) = i /\ LinkOf(r) = 0 /\ ~Linking(r)
      <3>1. /\ h.cwd = s.cwd[p] /\ h.file = s.file[p] /\ h.ip = i /\ h.other = 0 /\ h.victim = 0 /\ 0 \notin Inums
        BY <1>1, <1>3, <1>4, <2>10 DEF Standing
      <3>2. /\ k.cwd = s.cwd[p] /\ k.file = s.file[p] /\ k.ip = i /\ k.other = j
            /\ LockOf(r) = i /\ LinkOf(r) = 0 /\ ~Linking(r)
        BY ONLY <2>8, <2>9, <2>10, HoldsBoth
      <3>3. k.victim = 0
        <4>1. k.victim = IF r.pc \in {"put", "drop"} THEN r.victim ELSE 0
          BY ONLY <2>9, <2>10, HoldsBoth
        <4> QED BY <2>8, <4>1
      <3> QED BY ONLY <3>1, <3>2, <3>3
    <2>12. OwnMove(h, k, j, 0)
      BY <2>11 DEF OwnMove, Own, Is
    <2>13. SameLinks(o, r) /\ LockMove(s, p, r, i, i, p)
      <3>1. s.itable[i].lock = None
        BY <1>2, NodeParts DEF CanLock, LockFree
      <3> QED BY <1>1, <1>2, <1>3, <1>4, <2>3, <2>9, <2>11, <3>1 DEF Standing, SameLinks, LockMove
    <2>14. Becomes(s, t, p, s.cwd[p], s.file[p], r) /\ t.l[p] = r
      BY <1>2, <2>2, StartFacts
    <2>15. t.fs = s.fs /\ t.itable = Got(Locked(itable, p, i), j)
      BY <1>2, <2>2, NodeParts
    <2>16. TableMove(s.itable, t.itable, i, j, 0, i, p) /\ TableOk(t.itable, t.fs)
      BY <2>3, <2>6, <2>15, ActorFacts, TableMoves, NodeParts
    <2>17. Knows(t, p)
      <3>1. InControl(r)
        BY <2>3, <2>6, <2>8, <2>9, <2>11 DEF InControl
      <3>2. i \in Dir(t)
        <4>1. OnlyBy(s, t, p) /\ t.l[p] = r
          BY <2>14, ActorFacts, BecomesFacts
        <4>2. Cut(t) = Cut(s)
          BY <1>1, <2>13, <4>1, CutSame
        <4> QED BY <2>5, <2>15, <4>2 DEF Dir
      <3> QED BY Zenon, <1>1, <2>3, <2>4, <2>8, <2>9, <2>11, <2>14, <2>15, <3>1, <3>2 DEF Knows
    <2> QED BY Zenon, <1>1, <1>2, <1>3, <2>3, <2>6, <2>8, <2>10, <2>12, <2>13, <2>14, <2>15, <2>16, <2>17, QuietStep DEF Standing
  <1> QED BY Zenon, <1>5, <1>6

\* sys_unlink() of a directory that is not empty
LEMMA UnlinkRefuses ==
  ASSUME NEW s, NEW t, NodeStep(s, t), booted \in BOOLEAN, Coherent(s, booted), NEW p \in Users,
         UnlinkBoth(p), Loaded(l[p].other).type = "dir" /\ ~Empty(l[p].other)
  PROVE  Coherent(t, booted)
  <1>1. PICK o, i, r : o = s.l[p] /\ i = o.other /\ r = PutThen(o, i, "unlockdp")
    OBVIOUS
  <1>2. /\ o = l[p] /\ o.pc = "unlinkboth" /\ fs' = fs /\ cwd' = cwd /\ file' = file
        /\ itable' = Visited(i) /\ Become(p, r)
    BY <1>1, ActorFacts DEF UnlinkBoth, Unchanged
  <1>3. o \in Locals /\ InControl(o) /\ Stage(o) = "unlinkboth" /\ s.cwd[p] \in Inums /\ s.file[p] \in 0 .. NINODES
    BY <1>1, <1>2, ActorFacts DEF Stage
  <1>4. i \in Inums /\ o.ip \in Inums /\ i \in 0 .. NINODES /\ 0 \notin Inums
    BY <1>1, <1>3, NodeConstants DEF InControl, IpStages, OtherStages
  <1>5. /\ r \in Locals /\ r.pc = "put" /\ r.ret = "unlockdp" /\ Stage(r) = "unlockdp" /\ r.victim = i
        /\ r.ip = o.ip
    <2>1. "unlockdp" \in Labels
      BY DEF Labels
    <2> QED BY <1>1, <1>3, <1>4, <2>1, PutThenFacts
  <1>6. ~Linking(r) /\ Stage(r) \in IpStages \ {"cd", "unlinkboth", "newip"}
    BY <1>5 DEF Linking, IpStages
  <1>7. PICK h, k : h = Of(s, p) /\ k = Holding(s.cwd[p], s.file[p], r)
    OBVIOUS
  <1>8. /\ k.cwd = h.cwd /\ k.file = h.file /\ k.ip = h.ip /\ k.victim = h.other /\ k.other = 0 /\ h.victim = 0
        /\ h.other = i /\ LockOf(r) = LockOf(o) /\ LinkOf(r) = 0 /\ LinkOf(o) = 0
    <2>1. h = Holding(s.cwd[p], s.file[p], o) /\ o.pc # "put" /\ o.pc # "drop"
      BY <1>1, <1>2, <1>7 DEF Of
    <2>2. /\ h.cwd = s.cwd[p] /\ h.file = s.file[p] /\ h.ip = o.ip /\ h.other = i /\ h.victim = 0
          /\ LockOf(o) = o.ip /\ LinkOf(o) = 0
      BY <1>1, <1>3, <2>1, HoldsBoth
    <2>3. /\ k.cwd = s.cwd[p] /\ k.file = s.file[p] /\ k.ip = o.ip /\ k.other = 0 /\ k.victim = i
          /\ LockOf(r) = o.ip /\ LinkOf(r) = 0
      BY <1>5, <1>6, <1>7, HoldsIp
    <2> QED BY <2>2, <2>3
  <1>9. OwnMove(h, k, 0, 0)
    BY <1>4, <1>8 DEF OwnMove, Own, Is
  <1>10. SameLinks(o, r) /\ LockMove(s, p, r, i, 0, None)
    BY <1>1, <1>3, <1>5, <1>8 DEF SameLinks, LockMove
  <1>11. Becomes(s, t, p, s.cwd[p], s.file[p], r) /\ t.l[p] = r
    BY <1>2, StartFacts
  <1>12. t.fs = s.fs /\ t.itable = Visited(i)
    BY <1>2, NodeParts
  <1>13. TableMove(s.itable, t.itable, i, 0, 0, 0, None) /\ TableOk(t.itable, t.fs)
    BY <1>4, <1>12, ActorFacts, TableMoves, NodeParts
  <1>14. Knows(t, p)
    <2>1. "unlockdp" \in Rets /\ "unlockdp" \notin OtherStages
      BY DEF Rets, OtherStages
    <2>2. InControl(r)
      BY <1>4, <1>5, <1>6, <2>1 DEF InControl
    <2> QED BY <1>5, <1>6, <1>11, <2>2, KnowsPlain
  <1>15. Reaches(s, p, i)
    BY <1>7, <1>8, ReachKinds
  <1> QED BY <1>1, <1>2, <1>3, <1>4, <1>5, <1>7, <1>9, <1>10, <1>11, <1>12, <1>13, <1>14, <1>15, QuietStep

\* The directory of a call that failed is unlocked.
LEMMA UnlockDpKeeps ==
  ASSUME NEW s, NEW t, NodeStep(s, t), booted \in BOOLEAN, Coherent(s, booted), NEW p \in Users, UnlockDp(p)
  PROVE  Coherent(t, booted)
  <1>1. PICK o, i, r : o = s.l[p] /\ i = o.ip /\ r = PutThen(o, i, "end")
    OBVIOUS
  <1>2. /\ o = l[p] /\ o.pc = "unlockdp" /\ fs' = fs /\ cwd' = cwd /\ file' = file
        /\ itable' = Unlocked(itable, i) /\ Become(p, r)
    BY <1>1, ActorFacts DEF UnlockDp, Unchanged
  <1>3. o \in Locals /\ InControl(o) /\ Stage(o) = "unlockdp" /\ s.cwd[p] \in Inums /\ s.file[p] \in 0 .. NINODES
    BY <1>1, <1>2, ActorFacts DEF Stage
  <1>4. i \in Inums /\ i \in 0 .. NINODES /\ 0 \notin Inums
    BY <1>1, <1>3, NodeConstants DEF InControl, IpStages
  <1>5. r \in Locals /\ r.pc = "put" /\ Stage(r) = "end" /\ r.victim = i
    <2>1. "end" \in Labels
      BY DEF Labels
    <2> QED BY <1>1, <1>3, <1>4, <2>1, PutThenFacts
  <1>6. ~Linking(o) /\ Stage(o) \in IpStages \ {"cd", "unlinkboth", "newip"}
    BY <1>3 DEF Linking, IpStages
  <1>7. PICK h, k : h = Of(s, p) /\ k = Holding(s.cwd[p], s.file[p], r)
    OBVIOUS
  <1>8. /\ k.cwd = h.cwd /\ k.file = h.file /\ h.ip = i /\ k.ip = 0 /\ k.victim = i /\ k.other = 0
        /\ h.victim = 0 /\ h.other = 0 /\ LockOf(r) = 0 /\ LockOf(o) = i /\ LinkOf(r) = 0 /\ LinkOf(o) = 0
    <2>1. h = Holding(s.cwd[p], s.file[p], o) /\ o.pc # "put" /\ o.pc # "drop"
      BY <1>1, <1>2, <1>7 DEF Of
    <2>2. /\ h.cwd = s.cwd[p] /\ h.file = s.file[p] /\ h.ip = i /\ h.other = 0 /\ h.victim = 0
          /\ LockOf(o) = i /\ LinkOf(o) = 0
      BY <1>1, <1>3, <1>6, <2>1, HoldsIp
    <2>3. /\ k.cwd = s.cwd[p] /\ k.file = s.file[p] /\ k.ip = 0 /\ k.other = 0 /\ k.victim = i
          /\ LockOf(r) = 0 /\ LinkOf(r) = 0
      BY <1>5, <1>7, HoldsNothing
    <2> QED BY <2>2, <2>3
  <1>9. OwnMove(h, k, 0, 0)
    BY <1>4, <1>8 DEF OwnMove, Own, Is
  <1>10. SameLinks(o, r) /\ LockMove(s, p, r, 0, i, None)
    BY <1>1, <1>3, <1>4, <1>5, <1>8 DEF SameLinks, LockMove
  <1>11. Becomes(s, t, p, s.cwd[p], s.file[p], r) /\ t.l[p] = r
    BY <1>2, StartFacts
  <1>12. t.fs = s.fs /\ t.itable = Unlocked(s.itable, i)
    BY <1>2, NodeParts
  <1>13. TableMove(s.itable, t.itable, 0, 0, 0, i, None) /\ TableOk(t.itable, t.fs)
    BY <1>4, <1>12, ActorFacts, TableMoves, NodeParts
  <1>14. Knows(t, p)
    BY <1>4, <1>5, <1>11, KnowsEnd
  <1> QED BY <1>1, <1>2, <1>3, <1>4, <1>5, <1>7, <1>9, <1>10, <1>11, <1>12, <1>13, <1>14, QuietStep

\* create() refuses, or finds no free inode.
LEMMA CreateFailsKeeps ==
  ASSUME NEW s, NEW t, NodeStep(s, t), booted \in BOOLEAN, Coherent(s, booted), NEW p \in Users,
         CreateFails(p)
  PROVE  Coherent(t, booted)
  <1>1. PICK o : o = s.l[p]
    OBVIOUS
  <1>2. /\ o = l[p] /\ o.pc \in {"create", "mkdir"} /\ o.pc \in Bare /\ fs' = fs /\ cwd' = cwd
        /\ itable' = Visited(o.ip) /\ file' = file /\ Become(p, PutThen(o, o.ip, "end"))
    BY <1>1, ActorFacts DEF CreateFails, Unchanged, Bare
  <1>3. ~Linking(o)
    BY <1>2 DEF Linking, Stage
  <1> QED BY <1>1, <1>2, <1>3, VisitPuts

\* create() has a directory that is still linked.
LEMMA CreateDir ==
  ASSUME NEW s, NEW t, NodeStep(s, t), NEW up, Coherent(s, up), NEW p \in Users, NEW o, o = s.l[p],
         o.pc \in {"create", "mkdir"}, CanLock(o.ip), ~Refuses(p)
  PROVE  /\ o.call = o.pc /\ o.rest # <<>> /\ Head(o.rest) \in Entries /\ o.ip \in Inums
         /\ o.ip \in Dir(s) /\ (o.call = "mkdir" => s.fs[o.ip].nlink < NLINK_MAX)
         /\ s.fs[o.ip].nlink \in Nat /\ Standing(s, p, o) /\ ~Linking(o) /\ Stage(o) = o.pc
         /\ Loaded(o.ip).nlink = s.fs[o.ip].nlink
  <1>1. Standing(s, p, o) /\ ~Linking(o) /\ Stage(o) = o.pc /\ l[p] = o
    <2>1. o.pc \in Bare
      BY DEF Bare
    <2> QED BY <2>1, BareFacts, ActorFacts DEF Linking, Stage
  <1>2. InControl(o) /\ Knows(s, p) /\ o.ip \in Inums /\ o.rest \in Seq(Entries)
    <2>1. InControl(o) /\ Knows(s, p)
      BY Zenon, ActorFacts
    <2>2. o \in Locals /\ o.ip \in Inums
      BY Zenon, <1>1 DEF Standing
    <2> QED BY ONLY <2>1, <2>2 DEF Locals
  <1>3. o.call = o.pc /\ o.rest # <<>> /\ s.fs[o.ip].type = "dir"
    BY <1>1, <1>2 DEF InControl, Knows
  <1>4. Head(o.rest) \in Entries
    BY <1>2, <1>3, HeadTailProperties
  <1>5. s.fs[o.ip].nlink \in Nat
    BY SMTT(30), <1>2, ActorFacts, NodeConstants DEF Inodes
  <1>6. Loaded(o.ip).nlink = s.fs[o.ip].nlink
    BY <1>2, ActorFacts, VisitedFacts, NodeParts
  <1>7. s.fs[o.ip].nlink > 0 /\ (o.call = "mkdir" => s.fs[o.ip].nlink < NLINK_MAX)
    <2>1. ~(Loaded(o.ip).nlink = 0) /\ ~(o.call = "mkdir" /\ Loaded(o.ip).nlink >= NLINK_MAX)
      BY Zenon, <1>1 DEF Refuses
    <2> QED BY ONLY <1>5, <1>6, <2>1, NodeConstants
  <1>8. o.ip \in Dir(s)
    BY <1>2, <1>3, <1>7, OpenDir DEF CanLock
  <1> QED BY <1>1, <1>2, <1>3, <1>4, <1>5, <1>6, <1>7, <1>8

\* create() finds that the name is there.
LEMMA CreateFindsKeeps ==
  ASSUME NEW s, NEW t, NodeStep(s, t), booted \in BOOLEAN, Coherent(s, booted), NEW p \in Users,
         CreateFinds(p)
  PROVE  Coherent(t, booted)
  <1>1. PICK o, d, n, i, x, r : /\ o = s.l[p] /\ d = o.ip /\ n = Head(o.rest) /\ i = s.fs[d].ent[n]
                                /\ x = [o EXCEPT !.other = i] /\ r = PutThen(x, d, "exists")
    BY Zenon
  <1>2. /\ o = l[p] /\ o.pc \in {"create", "mkdir"} /\ fs' = fs /\ cwd' = cwd /\ CanLock(d) /\ ~Refuses(p)
        /\ itable' = Got(Visited(d), i) /\ file' = file /\ Become(p, r) /\ i # 0
    BY Zenon, <1>1, ActorFacts, NodeParts DEF CreateFinds, Unchanged, Name
  <1>3. /\ o.call = o.pc /\ n \in Entries /\ d \in Inums /\ d \in Dir(s) /\ Standing(s, p, o)
        /\ ~Linking(o) /\ Stage(o) = o.pc
    BY Zenon, <1>1, <1>2, CreateDir
  <1>4. i \in Inums /\ s.fs[i].nlink > 0 /\ i \in 0 .. NINODES /\ d \in 0 .. NINODES
    BY Zenon, <1>1, <1>2, <1>3, NamedIsLinked, NodeConstants
  <1>5. x \in Locals /\ x.ip = d /\ x.other = i
    BY Zenon, <1>1, <1>3, <1>4 DEF Standing, Locals
  <1>6. r \in Locals /\ r.pc = "put" /\ Stage(r) = "exists" /\ r.victim = d /\ r.other = i /\ r.ret = "exists"
    <2>1. "exists" \in Labels
      BY DEF Labels
    <2>2. r = PutThen(x, d, "exists")
      BY Zenon, <1>1
    <2> QED BY <1>4, <1>5, <2>1, <2>2, PutThenFacts
  <1>7. PICK h, k : h = Of(s, p) /\ k = Holding(s.cwd[p], s.file[p], r)
    OBVIOUS
  <1>8. /\ k.cwd = h.cwd /\ k.file = h.file /\ h.ip = d /\ k.ip = 0 /\ k.victim = d /\ h.victim = 0
        /\ h.other = 0 /\ k.other = i /\ 0 \notin Inums
        /\ LockOf(r) = 0 /\ LockOf(o) = 0 /\ LinkOf(r) = 0 /\ LinkOf(o) = 0 /\ ~Linking(r)
    <2>1. /\ h.cwd = s.cwd[p] /\ h.file = s.file[p] /\ h.ip = d /\ h.other = 0 /\ h.victim = 0
          /\ LockOf(o) = 0 /\ LinkOf(o) = 0 /\ 0 \notin Inums
      BY Zenon, <1>1, <1>3, <1>7 DEF Standing
    <2>2. /\ k.cwd = s.cwd[p] /\ k.file = s.file[p] /\ k.ip = 0 /\ k.other = i /\ k.victim = d
          /\ LockOf(r) = 0 /\ LinkOf(r) = 0 /\ ~Linking(r)
      BY <1>6, <1>7, HoldsOther
    <2> QED BY <2>1, <2>2
  <1>9. OwnMove(h, k, i, 0)
    BY <1>8 DEF OwnMove, Own, Is
  <1>10. SameLinks(o, r) /\ LockMove(s, p, r, d, 0, None)
    BY Zenon, <1>1, <1>2, <1>3, <1>6, <1>8 DEF SameLinks, LockMove
  <1>11. Becomes(s, t, p, s.cwd[p], s.file[p], r) /\ t.l[p] = r
    BY <1>2, StartFacts
  <1>12. t.fs = s.fs /\ t.itable = Got(Visited(d), i)
    BY <1>2, NodeParts
  <1>13. TableMove(s.itable, t.itable, d, i, 0, 0, None) /\ TableOk(t.itable, t.fs)
    BY <1>3, <1>4, <1>12, ActorFacts, TableMoves, NodeParts
  <1>14. Knows(t, p)
    <2>1. "exists" \in Rets /\ "exists" \notin IpStages
      BY DEF Rets, IpStages
    <2>2. InControl(r)
      BY <1>3, <1>4, <1>6, <1>8, <2>1 DEF InControl
    <2> QED BY <1>6, <1>8, <1>11, <2>2, KnowsPlain
  <1>15. /\ o.pc \notin {"newip", "drop", "ifree"} /\ Reaches(s, p, d) /\ s.cwd[p] \in Inums
         /\ s.file[p] \in 0 .. NINODES
    BY Zenon, <1>1, <1>2, <1>3 DEF Standing
  <1> QED BY Zenon, <1>1, <1>3, <1>4, <1>6, <1>7, <1>8, <1>9, <1>10, <1>11, <1>12, <1>13, <1>14, <1>15, QuietStep

\* A new or found inode that the caller has, or that is put
LEMMA InstallKeeps ==
  ASSUME NEW s, NEW t, NodeStep(s, t), booted \in BOOLEAN, Coherent(s, booted), NEW p \in Users,
         NEW o, o = s.l[p], o.pc \in {"created", "exists"}, NEW opens \in BOOLEAN, Install(p, o.other, opens),
         fs' = fs, cwd' = cwd, o.pc = "created" => itable' = Unlocked(itable, o.other),
         o.pc = "exists" => itable' = Visited(o.other)
  PROVE  Coherent(t, booted)
  <1>1. PICK i, f, r : /\ i = o.other /\ f = IF opens THEN i ELSE s.file[p]
                       /\ r = IF opens THEN To(o, "end") ELSE PutThen(o, i, "end")
    OBVIOUS
  <1>2. o \in Locals /\ InControl(o) /\ Stage(o) = o.pc /\ s.cwd[p] \in Inums /\ s.file[p] \in 0 .. NINODES
    BY ActorFacts DEF Stage
  <1>3. i \in Inums /\ i \in 0 .. NINODES /\ 0 \notin Inums /\ f \in 0 .. NINODES
    BY <1>1, <1>2, NodeConstants DEF InControl, OtherStages
  <1>4. /\ r \in Locals /\ Stage(r) = "end" /\ (opens => r.pc = "end")
        /\ (~opens => r.pc = "put" /\ r.victim = i)
    <2>1. "end" \in Labels
      BY DEF Labels
    <2>2. CASE opens
      BY <1>1, <1>2, <2>1, <2>2, ToFacts DEF Stage
    <2>3. CASE ~opens
      BY <1>1, <1>2, <1>3, <2>1, <2>3, PutThenFacts
    <2> QED BY <2>2, <2>3
  <1>5. Becomes(s, t, p, s.cwd[p], f, r) /\ t.l[p] = r /\ (opens => s.file[p] = 0)
    <2>1. l[p] = o /\ file[p] = s.file[p]
      BY ActorFacts
    <2>2. Become(p, r)
      BY <1>1, <2>1 DEF Install
    <2>3. CASE opens
      <3>1. file' = [file EXCEPT ![p] = i] /\ s.file[p] = 0 /\ f = i
        BY <1>1, <2>1, <2>3 DEF Install
      <3>2. Becomes(s, t, p, s.cwd[p], i, r) /\ t.l[p] = r
        BY ZenonT(30), <2>2, <3>1, StartFacts
      <3> QED BY <3>1, <3>2
    <2>4. CASE ~opens
      <3>1. file' = file /\ f = s.file[p]
        BY <1>1, <2>4 DEF Install
      <3>2. Becomes(s, t, p, s.cwd[p], f, r) /\ t.l[p] = r
        BY <2>2, <3>1, StartFacts
      <3> QED BY <2>4, <3>2
    <2> QED BY <2>3, <2>4
  <1>6. PICK h, k : h = Of(s, p) /\ k = Holding(s.cwd[p], f, r)
    OBVIOUS
  <1>7. /\ h.cwd = s.cwd[p] /\ h.file = s.file[p] /\ h.ip = 0 /\ h.other = i /\ h.victim = 0
        /\ LockOf(o) = (IF o.pc = "created" THEN i ELSE 0) /\ LinkOf(o) = 0
    BY <1>1, <1>2, <1>6, HoldsOther DEF Of
  <1>8. /\ k.cwd = s.cwd[p] /\ k.file = f /\ k.ip = 0 /\ k.other = 0
        /\ k.victim = (IF opens THEN 0 ELSE i) /\ LockOf(r) = 0 /\ LinkOf(r) = 0
    BY <1>4, <1>6, HoldsNothing
  <1>9. OwnMove(h, k, 0, 0)
    BY <1>1, <1>3, <1>5, <1>7, <1>8 DEF OwnMove, Own, Is
  <1>10. SameLinks(o, r)
    BY <1>2, <1>4, <1>7, <1>8 DEF SameLinks
  <1>11. t.fs = s.fs
    BY NodeParts
  <1>12. Knows(t, p)
    BY <1>3, <1>4, <1>5, KnowsEnd
  <1>13. Reaches(s, p, i)
    BY <1>6, <1>7, ReachKinds
  <1>14. CASE o.pc = "created"
    <2>1. t.itable = Unlocked(s.itable, i)
      BY <1>1, <1>14, NodeParts
    <2>2. TableMove(s.itable, t.itable, 0, 0, 0, i, None) /\ TableOk(t.itable, t.fs)
      BY <1>3, <1>11, <2>1, ActorFacts, TableMoves, NodeParts
    <2>3. LockMove(s, p, r, 0, i, None)
      BY <1>3, <1>7, <1>8, <1>14 DEF LockMove
    <2>4. o.pc \notin {"newip", "drop", "ifree"} /\ r.pc \notin {"newip", "drop", "ifree"}
      BY <1>4, <1>14
    <2> QED BY <1>2, <1>3, <1>4, <1>5, <1>6, <1>9, <1>10, <1>11, <1>12, <2>2, <2>3, <2>4, QuietStep
  <1>15. CASE o.pc = "exists"
    <2>1. t.itable = Visited(i)
      BY <1>1, <1>15, NodeParts
    <2>2. TableMove(s.itable, t.itable, i, 0, 0, 0, None) /\ TableOk(t.itable, t.fs)
      BY <1>3, <1>11, <2>1, ActorFacts, TableMoves, NodeParts
    <2>3. LockMove(s, p, r, i, 0, None)
      BY <1>7, <1>8, <1>15 DEF LockMove
    <2>4. o.pc \notin {"newip", "drop", "ifree"} /\ r.pc \notin {"newip", "drop", "ifree"}
      BY <1>4, <1>15
    <2> QED BY <1>2, <1>3, <1>4, <1>5, <1>6, <1>9, <1>10, <1>11, <1>12, <1>13, <2>2, <2>3, <2>4, QuietStep
  <1> QED BY <1>14, <1>15

\* A new file is opened, or put.
LEMMA CreatedKeeps ==
  ASSUME NEW s, NEW t, NodeStep(s, t), booted \in BOOLEAN, Coherent(s, booted), NEW p \in Users,
         NEW opens \in BOOLEAN, Created(p, opens)
  PROVE  Coherent(t, booted)
  <1>1. PICK o : o = s.l[p]
    OBVIOUS
  <1>2. /\ o.pc = "created" /\ fs' = fs /\ cwd' = cwd /\ itable' = Unlocked(itable, o.other)
        /\ Install(p, o.other, opens)
    BY <1>1, ActorFacts DEF Created, Unchanged
  <1> QED BY <1>1, <1>2, InstallKeeps

\* A file that was there is opened, or put.
LEMMA ExistsKeeps ==
  ASSUME NEW s, NEW t, NodeStep(s, t), booted \in BOOLEAN, Coherent(s, booted), NEW p \in Users,
         NEW opens \in BOOLEAN, Exists(p, opens)
  PROVE  Coherent(t, booted)
  <1>1. PICK o : o = s.l[p]
    OBVIOUS
  <1>2. /\ o.pc = "exists" /\ fs' = fs /\ cwd' = cwd /\ itable' = Visited(o.other)
        /\ Install(p, o.other, opens)
    BY <1>1, ActorFacts DEF Exists, Unchanged
  <1> QED BY <1>1, <1>2, InstallKeeps

\* sys_link() of a directory, or of a file with too many links
LEMMA LinkFailsKeeps ==
  ASSUME NEW s, NEW t, NodeStep(s, t), booted \in BOOLEAN, Coherent(s, booted), NEW p \in Users,
         NEW path, Link(p, path), Loaded(l[p].ip).type = "dir" \/ Loaded(l[p].ip).nlink + 1 > NLINK_MAX
  PROVE  Coherent(t, booted)
  <1>1. PICK o : o = s.l[p]
    OBVIOUS
  <1>2. /\ o = l[p] /\ o.pc = "link" /\ ~o.parent /\ o.pc \in Bare /\ fs' = fs /\ cwd' = cwd /\ file' = file
        /\ itable' = Visited(o.ip) /\ Become(p, PutThen(o, o.ip, "end"))
    BY <1>1, ActorFacts DEF Link, Unchanged, Bare
  <1>3. ~Linking(o)
    BY <1>2 DEF Linking
  <1> QED BY <1>1, <1>2, <1>3, VisitPuts

\* dirlink() fails, and the link is to be taken back.
LEMMA LinkDpFailsKeeps ==
  ASSUME NEW s, NEW t, NodeStep(s, t), booted \in BOOLEAN, Coherent(s, booted), NEW p \in Users,
         NEW room, LinkDp(p, room),
         ~(room /\ Loaded(l[p].ip).nlink > 0 /\ fs[l[p].ip].ent[Name(p)] = 0)
  PROVE  Coherent(t, booted)
  <1>1. PICK o : o = s.l[p]
    OBVIOUS
  <1>2. /\ o = l[p] /\ o.pc = "link" /\ o.parent /\ o.pc \in Bare /\ fs' = fs /\ cwd' = cwd /\ file' = file
        /\ itable' = Visited(o.ip) /\ Become(p, PutThen(o, o.ip, "linkundo"))
    BY <1>1, ActorFacts DEF LinkDp, Unchanged, Bare
  <1>3. Stage(o) = "link" /\ InControl(o)
    BY <1>1, <1>2, ActorFacts DEF Stage
  <1>4. Linking(o)
    BY <1>2, <1>3 DEF Linking, InControl
  <1> QED BY <1>1, <1>2, <1>4, VisitPuts

\* sys_link() puts the source.
LEMMA LinkPutKeeps ==
  ASSUME NEW s, NEW t, NodeStep(s, t), booted \in BOOLEAN, Coherent(s, booted), NEW p \in Users, LinkPut(p)
  PROVE  Coherent(t, booted)
  <1>1. PICK o, i, r : o = s.l[p] /\ i = o.other /\ r = PutThen(o, i, "end")
    OBVIOUS
  <1>2. /\ o = l[p] /\ o.pc = "linkput" /\ fs' = fs /\ cwd' = cwd /\ file' = file
        /\ itable' = itable /\ Become(p, r)
    BY <1>1, ActorFacts DEF LinkPut, Unchanged
  <1>3. o \in Locals /\ InControl(o) /\ Stage(o) = "linkput" /\ s.cwd[p] \in Inums /\ s.file[p] \in 0 .. NINODES
    BY <1>1, <1>2, ActorFacts DEF Stage
  <1>4. i \in Inums /\ i \in 0 .. NINODES /\ 0 \notin Inums
    BY <1>1, <1>3, NodeConstants DEF InControl, OtherStages
  <1>5. r \in Locals /\ r.pc = "put" /\ Stage(r) = "end" /\ r.victim = i
    <2>1. "end" \in Labels
      BY DEF Labels
    <2> QED BY <1>1, <1>3, <1>4, <2>1, PutThenFacts
  <1>6. PICK h, k : h = Of(s, p) /\ k = Holding(s.cwd[p], s.file[p], r)
    OBVIOUS
  <1>7. /\ h.cwd = s.cwd[p] /\ h.file = s.file[p] /\ h.ip = 0 /\ h.other = i /\ h.victim = 0
        /\ LockOf(o) = 0 /\ LinkOf(o) = 0
    <2>1. h = Holding(s.cwd[p], s.file[p], o) /\ o.pc # "put" /\ o.pc # "drop"
      BY <1>1, <1>2, <1>6 DEF Of
    <2> QED BY <1>1, <1>3, <2>1, HoldsOther
  <1>8. /\ k.cwd = s.cwd[p] /\ k.file = s.file[p] /\ k.ip = 0 /\ k.other = 0 /\ k.victim = i
        /\ LockOf(r) = 0 /\ LinkOf(r) = 0
    BY <1>5, <1>6, HoldsNothing
  <1>9. OwnMove(h, k, 0, 0)
    BY <1>4, <1>7, <1>8 DEF OwnMove, Own, Is
  <1>10. SameLinks(o, r) /\ LockMove(s, p, r, 0, 0, None)
    BY <1>1, <1>3, <1>5, <1>7, <1>8 DEF SameLinks, LockMove
  <1>11. Becomes(s, t, p, s.cwd[p], s.file[p], r) /\ t.l[p] = r
    BY <1>2, StartFacts
  <1>12. t.fs = s.fs /\ t.itable = s.itable
    BY <1>2, NodeParts
  <1>13. TableMove(s.itable, t.itable, 0, 0, 0, 0, None) /\ TableOk(t.itable, t.fs)
    BY <1>12, ActorFacts, TableMoves, NodeParts
  <1>14. Knows(t, p)
    BY <1>4, <1>5, <1>11, KnowsEnd
  <1> QED BY <1>1, <1>2, <1>3, <1>4, <1>5, <1>6, <1>9, <1>10, <1>11, <1>12, <1>13, <1>14, QuietStep

-----------------------------------------------------------------------------
(* The tree *)

\* What the entries lead to keeps its type.
LEMMA TreeKeeps ==
  ASSUME NEW F, NEW A, NEW g, NEW rank, Tree(F, A, g, rank), NEW G,
         \A e \in A, n \in Names, d \in Inums : g[<<e, n>>] = d => G[d].type = F[d].type,
         \A d \in Inums \ A, n \in Names : G[d].ent[n] = 0
  PROVE  Tree(G, A, g, rank)
  BY DEF Tree

\* An entry that leads to no directory comes or goes.
LEMMA TreeFile ==
  ASSUME NEW F, NEW A, NEW g, NEW rank, Tree(F, A, g, rank), A \subseteq Inums, \A d \in A : F[d].type = "dir",
         NEW G, \A i \in Inums : G[i].type = F[i].type,
         NEW x \in A, NEW m \in Names, NEW h,
         \A e \in A, n \in Entries : (e = x /\ n = m) \/ h[<<e, n>>] = g[<<e, n>>],
         g[<<x, m>>] = 0 \/ F[g[<<x, m>>]].type # "dir", h[<<x, m>>] = 0 \/ G[h[<<x, m>>]].type # "dir",
         \A d \in Inums \ A, n \in Names : G[d].ent[n] = 0
  PROVE  Tree(G, A, h, rank)
  <1>1. ROOTINO \in A /\ h[<<ROOTINO, UP>>] = ROOTINO
    BY NodeConstants DEF Tree
  <1>2. ASSUME NEW d \in A, d # ROOTINO
        PROVE  \E e \in A : h[<<d, UP>>] = e /\ rank[e] < rank[d] /\ \E n \in Names : h[<<e, n>>] = d
    <2>1. PICK e \in A : g[<<d, UP>>] = e /\ rank[e] < rank[d] /\ \E n \in Names : g[<<e, n>>] = d
      BY <1>2 DEF Tree
    <2>2. h[<<d, UP>>] = e
      BY <2>1, NodeConstants
    <2>3. PICK n \in Names : g[<<e, n>>] = d
      BY <2>1
    <2>4. ~(e = x /\ n = m)
      BY <2>3, NodeConstants
    <2>5. h[<<e, n>>] = d
      BY <2>3, <2>4, NodeConstants
    <2> QED BY <2>1, <2>2, <2>5
  <1>3. ASSUME NEW e \in A, NEW n \in Names, NEW d \in Inums, h[<<e, n>>] = d, G[d].type = "dir"
        PROVE  d \in A /\ d # ROOTINO /\ h[<<d, UP>>] = e /\ \A q \in Names : h[<<e, q>>] = d => q = n
    <2>1. d # 0 /\ F[d].type = "dir"
      BY <1>3, NodeConstants
    <2>2. ~(e = x /\ n = m)
      BY <1>3, <2>1
    <2>3. g[<<e, n>>] = d
      BY <1>3, <2>2, NodeConstants
    <2>4. d \in A /\ d # ROOTINO /\ g[<<d, UP>>] = e /\ \A q \in Names : g[<<e, q>>] = d => q = n
      BY <2>1, <2>3 DEF Tree
    <2>5. h[<<d, UP>>] = e
      BY <2>4, NodeConstants
    <2>6. ASSUME NEW q \in Names, h[<<e, q>>] = d PROVE q = n
      <3>1. ~(e = x /\ q = m)
        BY <1>3, <2>1, <2>6
      <3>2. g[<<e, q>>] = d
        BY <2>6, <3>1, NodeConstants
      <3> QED BY <2>4, <3>2
    <2> QED BY <2>4, <2>5, <2>6
  <1> QED BY <1>1, <1>2, <1>3 DEF Tree

\* An empty directory loses its name.
Detached(F, A, g, G, B, h, x, m, i) ==
    /\ A \subseteq Inums /\ x \in A /\ m \in Names /\ i \in A /\ B = A \ {i} /\ F[i].type = "dir"
    /\ \A j \in Inums : G[j].type = F[j].type
    /\ g[<<x, m>>] = i /\ h[<<x, m>>] = 0
    /\ \A n \in Names : g[<<i, n>>] = 0
    /\ \A e \in B, n \in Entries : (e = x /\ n = m) \/ h[<<e, n>>] = g[<<e, n>>]
    /\ \A d \in Inums \ B, n \in Names : G[d].ent[n] = 0

\* The tree without an empty directory is a tree.
LEMMA TreeDetach ==
  ASSUME NEW F, NEW A, NEW g, NEW rank, Tree(F, A, g, rank), NEW G, NEW B, NEW h, NEW x, NEW m, NEW i,
         Detached(F, A, g, G, B, h, x, m, i)
  PROVE  Tree(G, B, h, rank)
  <1> USE DEF Detached
  <1>1. /\ i # 0 /\ i # ROOTINO /\ g[<<i, UP>>] = x /\ \A q \in Names : g[<<x, q>>] = i => q = m
        /\ \A d \in A : d # 0
    BY NodeConstants DEF Tree
  <1>2. ROOTINO \in B /\ h[<<ROOTINO, UP>>] = ROOTINO
    BY <1>1, NodeConstants DEF Tree
  <1>3. ASSUME NEW d \in B, d # ROOTINO
        PROVE  \E e \in B : h[<<d, UP>>] = e /\ rank[e] < rank[d] /\ \E n \in Names : h[<<e, n>>] = d
    <2>1. PICK e \in A : g[<<d, UP>>] = e /\ rank[e] < rank[d] /\ \E n \in Names : g[<<e, n>>] = d
      BY <1>3 DEF Tree
    <2>2. h[<<d, UP>>] = e
      BY <2>1, NodeConstants
    <2>3. PICK n \in Names : g[<<e, n>>] = d
      BY <2>1
    <2>4. e # i /\ e \in B
      BY <1>1, <2>3
    <2>5. ~(e = x /\ n = m)
      BY <2>3
    <2>6. h[<<e, n>>] = d
      BY <2>3, <2>4, <2>5, NodeConstants
    <2> QED BY <2>1, <2>2, <2>4, <2>6
  <1>4. ASSUME NEW e \in B, NEW n \in Names, NEW d \in Inums, h[<<e, n>>] = d, G[d].type = "dir"
        PROVE  d \in B /\ d # ROOTINO /\ h[<<d, UP>>] = e /\ \A q \in Names : h[<<e, q>>] = d => q = n
    <2>1. d # 0 /\ F[d].type = "dir"
      BY <1>4, NodeConstants
    <2>2. ~(e = x /\ n = m)
      BY <1>4, <2>1
    <2>3. g[<<e, n>>] = d
      BY <1>4, <2>2, NodeConstants
    <2>4. d \in A /\ d # ROOTINO /\ g[<<d, UP>>] = e /\ \A q \in Names : g[<<e, q>>] = d => q = n
      BY <2>1, <2>3 DEF Tree
    <2>5. d # i
      BY <1>1, <2>2, <2>3, <2>4
    <2>6. h[<<d, UP>>] = e
      BY <2>4, <2>5, NodeConstants
    <2>7. ASSUME NEW q \in Names, h[<<e, q>>] = d PROVE q = n
      <3>1. ~(e = x /\ q = m)
        BY <2>1, <2>7
      <3>2. g[<<e, q>>] = d
        BY <2>7, <3>1, NodeConstants
      <3> QED BY <2>4, <3>2
    <2> QED BY <2>4, <2>5, <2>6, <2>7
  <1> QED BY <1>2, <1>3, <1>4 DEF Tree

\* A new directory gets a name.
Attached(F, A, g, G, B, h, x, m, i) ==
    /\ A \subseteq Inums /\ x \in A /\ m \in Names /\ i \in Inums \ A /\ B = A \cup {i}
    /\ \A j \in Inums : G[j].type = F[j].type
    /\ g[<<x, m>>] = 0 /\ h[<<x, m>>] = i /\ h[<<i, UP>>] = x
    /\ \A e \in A, n \in Entries : g[<<e, n>>] # i
    /\ \A n \in Names : h[<<i, n>>] = 0
    /\ \A e \in A, n \in Entries : (e = x /\ n = m) \/ h[<<e, n>>] = g[<<e, n>>]
    /\ \A d \in Inums \ B, n \in Names : G[d].ent[n] = 0

\* The tree with a new directory is a tree.
LEMMA TreeAttach ==
  ASSUME NEW F, NEW A, NEW g, NEW rank \in [Inums -> Nat], Tree(F, A, g, rank), NEW G, NEW B, NEW h,
         NEW x, NEW m, NEW i, Attached(F, A, g, G, B, h, x, m, i)
  PROVE  \E rank2 \in [Inums -> Nat] : Tree(G, B, h, rank2)
  <1> USE DEF Attached
  <1>1. /\ i # 0 /\ i # ROOTINO /\ i # x /\ ROOTINO \in A /\ \A d \in A : d # 0 /\ d # i
        /\ ROOTINO # 0 /\ m # UP /\ UP \in Entries /\ Names \subseteq Entries
    BY NodeConstants DEF Tree
  <1>2. PICK rank2 : rank2 = [rank EXCEPT ![i] = rank[x] + 1]
    OBVIOUS
  <1>3. rank2 \in [Inums -> Nat] /\ rank2[x] < rank2[i] /\ \A d \in A : rank2[d] = rank[d]
    BY <1>1, <1>2
  <1>4. ROOTINO \in B /\ h[<<ROOTINO, UP>>] = ROOTINO
    BY <1>1 DEF Tree
  <1>5. ASSUME NEW d \in B, d # ROOTINO
        PROVE  \E e \in B : h[<<d, UP>>] = e /\ rank2[e] < rank2[d] /\ \E n \in Names : h[<<e, n>>] = d
    <2>1. CASE d = i
      BY <1>3, <2>1
    <2>2. CASE d # i
      <3>1. d \in A
        BY <2>2
      <3>2. PICK e \in A : g[<<d, UP>>] = e /\ rank[e] < rank[d] /\ \E n \in Names : g[<<e, n>>] = d
        BY <1>5, <3>1 DEF Tree
      <3>3. h[<<d, UP>>] = e
        BY <1>1, <3>1, <3>2
      <3>4. PICK n \in Names : g[<<e, n>>] = d
        BY <3>2
      <3>5. ~(e = x /\ n = m)
        BY <1>1, <3>1, <3>4
      <3>6. h[<<e, n>>] = d
        BY <1>1, <3>4, <3>5
      <3>7. rank2[e] < rank2[d]
        BY <1>3, <3>1, <3>2
      <3> QED BY <3>3, <3>6, <3>7
    <2> QED BY <2>1, <2>2
  <1>6. ASSUME NEW e \in B, NEW n \in Names, NEW d \in Inums, h[<<e, n>>] = d, G[d].type = "dir"
        PROVE  d \in B /\ d # ROOTINO /\ h[<<d, UP>>] = e /\ \A q \in Names : h[<<e, q>>] = d => q = n
    <2>1. e \in A /\ d # 0 /\ F[d].type = "dir"
      BY <1>6, NodeConstants
    <2>2. CASE e = x /\ n = m
      <3>1. d = i
        BY <1>6, <2>2
      <3>2. ASSUME NEW q \in Names, h[<<e, q>>] = i PROVE q = m
        BY <1>1, <2>2, <3>2
      <3> QED BY <1>1, <2>2, <3>1, <3>2
    <2>3. CASE ~(e = x /\ n = m)
      <3>1. g[<<e, n>>] = d
        BY <1>1, <1>6, <2>1, <2>3
      <3>2. d \in A /\ d # ROOTINO /\ g[<<d, UP>>] = e /\ \A q \in Names : g[<<e, q>>] = d => q = n
        BY <2>1, <3>1 DEF Tree
      <3>3. h[<<d, UP>>] = e
        BY <1>1, <3>2
      <3>4. ASSUME NEW q \in Names, h[<<e, q>>] = d PROVE q = n
        <4>1. ~(e = x /\ q = m)
          BY <1>1, <3>2, <3>4
        <4>2. g[<<e, q>>] = d
          BY <1>1, <2>1, <3>4, <4>1
        <4> QED BY <3>2, <4>2
      <3> QED BY <3>2, <3>3, <3>4
    <2> QED BY <2>2, <2>3
  <1>7. Tree(G, B, h, rank2)
    <2>1. \A d \in Inums \ B, n \in Names : G[d].ent[n] = 0
      OBVIOUS
    <2> QED BY ONLY <1>4, <1>5, <1>6, <2>1 DEF Tree
  <1> QED BY <1>3, <1>7

-----------------------------------------------------------------------------
(* Steps that change inodes *)

\* When p moves, the links without entries change by its own.
LEMMA ExtraMoves ==
  ASSUME NEW s, NEW t, NEW p \in Users, OnlyBy(s, t, p), NEW i
  PROVE  Count(Extra(t), i) = Count(Extra(s), i) - Is(LinkOf(s.l[p]), i) + Is(LinkOf(t.l[p]), i)
  <1>1. PICK g, h : g = Extra(s) /\ h = Extra(t)
    OBVIOUS
  <1>2. DOMAIN g = Users /\ DOMAIN h = Users /\ g[p] = LinkOf(s.l[p]) /\ h[p] = LinkOf(t.l[p])
    BY <1>1 DEF Extra
  <1>3. \A q \in Users : q # p => h[q] = g[q]
    BY <1>1 DEF Extra, OnlyBy
  <1>4. Count(h, i) = Count(g, i) - Is(g[p], i) + Is(h[p], i)
    BY <1>2, <1>3, NodeConstants, CountChange
  <1> QED BY <1>1, <1>2, <1>4

\* When p moves, nothing is cut off or taken back but its own.
LEMMA CutMoves ==
  ASSUME NEW s, NEW t, NEW p \in Users, OnlyBy(s, t, p)
  PROVE  /\ Stage(s.l[p]) # "unlinkip" /\ Stage(t.l[p]) # "unlinkip" => Cut(t) = Cut(s)
         /\ Stage(s.l[p]) # "unlinkip" /\ Stage(t.l[p]) = "unlinkip" => Cut(t) = Cut(s) \cup {t.l[p].other}
         /\ Stage(s.l[p]) = "unlinkip" /\ Stage(t.l[p]) # "unlinkip" =>
               Cut(t) \subseteq Cut(s) /\ Cut(s) \subseteq Cut(t) \cup {s.l[p].other}
  <1>1. \A q \in Users : q # p => t.l[q] = s.l[q]
    BY DEF OnlyBy
  <1>2. /\ \A i : i \in Cut(s) <=> \E q \in Users : Stage(s.l[q]) = "unlinkip" /\ s.l[q].other = i
        /\ \A i : i \in Cut(t) <=> \E q \in Users : Stage(t.l[q]) = "unlinkip" /\ t.l[q].other = i
    BY DEF Cut
  <1>3. ASSUME Stage(s.l[p]) # "unlinkip", Stage(t.l[p]) # "unlinkip" PROVE Cut(t) = Cut(s)
    <2>1. \A i : i \in Cut(t) <=> i \in Cut(s)
      BY <1>1, <1>2, <1>3
    <2> QED BY <2>1
  <1>4. ASSUME Stage(s.l[p]) # "unlinkip", Stage(t.l[p]) = "unlinkip" PROVE Cut(t) = Cut(s) \cup {t.l[p].other}
    <2>1. \A i : i \in Cut(t) <=> i \in Cut(s) \/ i = t.l[p].other
      BY <1>1, <1>2, <1>4
    <2> QED BY <2>1
  <1>5. ASSUME Stage(s.l[p]) = "unlinkip", Stage(t.l[p]) # "unlinkip"
        PROVE  Cut(t) \subseteq Cut(s) /\ Cut(s) \subseteq Cut(t) \cup {s.l[p].other}
    BY <1>1, <1>2, <1>5
  <1> QED BY <1>3, <1>4, <1>5

\* No directory of the tree changes, or appears, or goes.
LEMMA SameTree ==
  ASSUME NEW s, NEW t, NEW up, Coherent(s, up), Dir(t) = Dir(s), \A d \in Dir(s) : t.fs[d].ent = s.fs[d].ent,
         \A d \in Inums \ Dir(s), n \in Names : t.fs[d].ent[n] = 0,
         \A i \in Inums : t.fs[i].type = s.fs[i].type \/ s.fs[i].nlink = 0
  PROVE  Ent(t) = Ent(s) /\ \E rank \in [Inums -> Nat] : Tree(t.fs, Dir(t), Ent(t), rank)
  <1>1. Ent(t) = Ent(s)
    BY DEF Ent, Pointers
  <1>2. PICK rank \in [Inums -> Nat] : Tree(s.fs, Dir(s), Ent(s), rank)
    BY DEF Coherent
  <1>3. ASSUME NEW e \in Dir(s), NEW n \in Names, NEW d \in Inums, Ent(s)[<<e, n>>] = d
        PROVE  t.fs[d].type = s.fs[d].type
    <2>1. s.fs[e].ent[n] = d /\ d # 0 /\ n \in Entries
      BY <1>3, EntFacts, NodeConstants
    <2>2. s.fs[d].nlink > 0
      BY <2>1, NamedIsLinked
    <2> QED BY <2>2
  <1>4. Tree(t.fs, Dir(s), Ent(s), rank)
    BY <1>2, <1>3, TreeKeeps
  <1> QED BY <1>1, <1>4

\* Links that come or go one by one
LEMMA SameCount ==
  ASSUME NEW s, NEW t, NEW up, Coherent(s, up), NEW p \in Users, OnlyBy(s, t, p), Ent(t) = Ent(s),
         \A i \in Inums : t.fs[i].nlink = s.fs[i].nlink - Is(LinkOf(s.l[p]), i) + Is(LinkOf(t.l[p]), i)
  PROVE  \A i \in Inums : t.fs[i].nlink = Count(Ent(t), i) + Count(Extra(t), i)
  <1>1. ASSUME NEW i \in Inums PROVE t.fs[i].nlink = Count(Ent(t), i) + Count(Extra(t), i)
    <2>1. PICK a, b : a = Is(LinkOf(s.l[p]), i) /\ b = Is(LinkOf(t.l[p]), i)
      OBVIOUS
    <2>2. PICK c, e : c = Count(Ent(s), i) /\ e = Count(Extra(s), i)
      OBVIOUS
    <2>3. a \in Nat /\ b \in Nat
      BY <2>1 DEF Is
    <2>4. c \in Nat /\ e \in Nat
      <3>1. IsFiniteSet(DOMAIN Ent(s)) /\ IsFiniteSet(DOMAIN Extra(s))
        BY EntFacts, NodeConstants DEF Extra
      <3> QED BY <2>2, <3>1, CountNat
    <2>5. s.fs[i].nlink = c + e
      BY <2>2 DEF Coherent
    <2>6. Count(Extra(t), i) = e - a + b
      BY <2>1, <2>2, ExtraMoves
    <2>7. t.fs[i].nlink = s.fs[i].nlink - a + b
      BY <2>1
    <2> QED BY <2>2, <2>3, <2>4, <2>5, <2>6, <2>7
  <1> QED BY <1>1

\* The references and locks move like this,
Shift(s, t, p, r, g, d) ==
    \A i \in Inums :
       /\ t.itable[i].ref = s.itable[i].ref + Is(g, i) - Is(d, i)
       /\ t.itable[i].lock = IF LockOf(r) = i THEN p
                             ELSE IF LockOf(s.l[p]) = i THEN None ELSE s.itable[i].lock
       /\ LockOf(r) = i => s.itable[i].lock \in {p, None} /\ t.itable[i].valid
       /\ s.itable[i].lock # None => t.itable[i].valid
       /\ t.itable[i].ref > 0 => t.fs[i].type # "free"

\* and what changes is nobody else's.
Disturb(s, t, p, r) ==
    \A i \in Inums :
       /\ t.fs[i] # s.fs[i] => s.itable[i].lock \in {p, None} /\ May(s, p, i)
       /\ t.itable[i].valid # s.itable[i].valid \/ Reaches(t, p, i) \/ Alone(r, i) => May(s, p, i)
       /\ t.fs[i].type # s.fs[i].type => \A q \in Users : q # p => ~Reaches(s, q, i)

\* What is left to show of a step that changes inodes of the disk
LEMMA ChangeBy ==
  ASSUME NEW s, NEW t, NodeStep(s, t), booted \in BOOLEAN, Coherent(s, booted), NEW p \in Users,
         NEW r \in Locals, Becomes(s, t, p, s.cwd[p], s.file[p], r),
         t.fs \in [Inums -> Inodes], TableOk(t.itable, t.fs), Shapes(t.fs),
         \E rank \in [Inums -> Nat] : Tree(t.fs, Dir(t), Ent(t), rank),
         \A i \in Inums : t.fs[i].nlink = Count(Ent(t), i) + Count(Extra(t), i),
         NEW g, NEW d, Shift(s, t, p, r, g, d), OwnMove(Of(s, p), Holding(s.cwd[p], s.file[p], r), g, d),
         Disturb(s, t, p, r), \A i \in Inums : Cared(t, booted, i), Knows(t, p)
  PROVE  Coherent(t, booted)
  <1>1. s \in NodeStates /\ s.cwd[p] \in Inums /\ s.file[p] \in 0 .. NINODES
    BY ActorFacts
  <1>2. /\ OnlyBy(s, t, p) /\ t.l[p] = r /\ Of(t, p) = Holding(s.cwd[p], s.file[p], r)
        /\ t.l \in [Users -> Locals] /\ t.cwd \in [Users -> Inums] /\ t.file \in [Users -> 0 .. NINODES]
    BY <1>1, BecomesFacts
  <1>3. t \in NodeStates
    BY <1>2, NodeParts DEF NodeStates, TableOk
  <1>4. ASSUME NEW i \in Inums PROVE SlotBy(s, t, p, i)
    <2>1. PICK m, n, a, b : m = Own(Of(s, p), i) /\ n = Own(Of(t, p), i) /\ a = Is(g, i) /\ b = Is(d, i)
      OBVIOUS
    <2>2. m \in Nat /\ n \in Nat /\ a \in Nat /\ b \in Nat
      BY <2>1 DEF Own, Is
    <2>3. s.itable[i].ref \in Nat
      BY <1>1 DEF NodeStates, Slots
    <2>4. n + b = m + a
      BY <1>2, <2>1 DEF OwnMove
    <2>5. t.itable[i].ref = s.itable[i].ref + a - b
      BY <2>1 DEF Shift
    <2>6. t.itable[i].ref = s.itable[i].ref - m + n
      BY <2>2, <2>3, <2>4, <2>5
    <2>7. /\ t.itable[i].lock = IF LockOf(t.l[p]) = i THEN p
                                ELSE IF LockOf(s.l[p]) = i THEN None ELSE s.itable[i].lock
          /\ LockOf(t.l[p]) = i => s.itable[i].lock \in {p, None} /\ t.itable[i].valid
          /\ s.itable[i].lock # None => t.itable[i].valid
          /\ t.itable[i].ref > 0 => t.fs[i].type # "free"
      BY <1>2 DEF Shift
    <2>8. t.itable[i].valid => t.itable[i].type = t.fs[i].type /\ t.itable[i].nlink = t.fs[i].nlink
      BY DEF TableOk
    <2> QED BY <2>1, <2>6, <2>7, <2>8 DEF SlotBy
  <1>5. Undisturbed(s, t, p)
    <2>1. ASSUME NEW q \in Users, NEW i \in Inums, q # p, LockOf(s.l[q]) = i PROVE t.fs[i] = s.fs[i]
      <3>1. s.itable[i].lock = q
        BY <2>1 DEF Coherent, Slot
      <3> QED BY <2>1, <3>1, NodeConstants DEF Disturb
    <2>2. ASSUME NEW q \in Users, NEW i \in Inums, q # p, Alone(s.l[q], i)
          PROVE  /\ t.fs[i] = s.fs[i] /\ t.itable[i].valid = s.itable[i].valid
                 /\ ~Reaches(t, p, i) /\ ~Alone(t.l[p], i)
      <3>1. ~May(s, p, i)
        BY <2>2 DEF May
      <3> QED BY <1>2, <3>1 DEF Disturb
    <2>3. ASSUME NEW q \in Users, NEW i \in Inums, q # p, Reaches(s, q, i) PROVE t.fs[i].type = s.fs[i].type
      BY <2>3 DEF Disturb
    <2> QED BY <2>1, <2>2, <2>3 DEF Undisturbed
  <1> QED BY <1>2, <1>3, <1>4, <1>5, CoherentBy

\* Who was cared for still is.
LEMMA CaredBy ==
  ASSUME NEW s, NEW t, NEW up, Coherent(s, up), NEW p \in Users, OnlyBy(s, t, p), NEW i \in Inums,
         t.fs[i].type # "free" => s.fs[i].type # "free", t.fs[i].nlink = 0 => s.fs[i].nlink = 0,
         s.itable[i].ref > 0 /\ s.itable[i].valid => t.itable[i].ref > 0 /\ t.itable[i].valid,
         s.itable[i].ref = 0 => t.itable[i].ref = 0, Alone(s.l[p], i) => Alone(t.l[p], i)
  PROVE  Cared(t, up, i)
  <1>1. ASSUME NEW q \in Users, Alone(s.l[q], i) PROVE Alone(t.l[q], i)
    BY <1>1 DEF OnlyBy
  <1>2. Cared(s, up, i)
    BY DEF Coherent
  <1> QED BY <1>1, <1>2 DEF Cared

\* The only reference to an inode
LEMMA OneReference ==
  ASSUME NEW s, NEW up, Coherent(s, up), NEW p \in Users, NEW i \in Inums, NEW k \in Kinds, Of(s, p)[k] = i
  PROVE  s.itable[i].ref = 1 <=> \A z \in Users \X Kinds : References(s)[z] = i => z = <<p, k>>
  <1>1. PICK g : g = References(s)
    OBVIOUS
  <1>2. DOMAIN g = Users \X Kinds /\ IsFiniteSet(DOMAIN g) /\ <<p, k>> \in DOMAIN g /\ g[<<p, k>>] = i
    <2>1. DOMAIN g = Users \X Kinds /\ g[<<p, k>>] = Of(s, p)[k]
      BY <1>1, ReferenceOf
    <2> QED BY <2>1, NodeConstants
  <1>3. s.itable[i].ref = Count(g, i)
    BY <1>1 DEF Coherent, Slot
  <1> QED BY <1>1, <1>2, <1>3, CountOne

\* Nobody has a reference to an inode whose count is zero.
LEMMA NoReference ==
  ASSUME NEW s, NEW up, Coherent(s, up), NEW i \in Inums
  PROVE  s.itable[i].ref = 0 <=> \A z \in Users \X Kinds : References(s)[z] # i
  <1>1. PICK g : g = References(s)
    OBVIOUS
  <1>2. DOMAIN g = Users \X Kinds /\ IsFiniteSet(DOMAIN g)
    BY <1>1, ReferenceOf, NodeConstants
  <1>3. s.itable[i].ref = Count(g, i) /\ Count(g, i) \in Nat
    BY <1>1, <1>2, CountNat DEF Coherent, Slot
  <1> QED BY <1>1, <1>2, <1>3, CountSome

\* What a step of p that keeps its cwd and its file comes to
LEMMA StepFacts ==
  ASSUME NEW s, NEW t, NodeStep(s, t), NEW up, Coherent(s, up), NEW p \in Users, NEW r, Become(p, r),
         cwd' = cwd, file' = file
  PROVE  /\ Becomes(s, t, p, s.cwd[p], s.file[p], r) /\ OnlyBy(s, t, p) /\ t.l[p] = r
         /\ Of(t, p) = Holding(s.cwd[p], s.file[p], r) /\ Of(s, p) = Holding(s.cwd[p], s.file[p], s.l[p])
  <1>1. PICK c, f : c = s.cwd[p] /\ f = s.file[p]
    OBVIOUS
  <1>2. Becomes(s, t, p, c, f, r) /\ s \in NodeStates
    BY <1>1, StartFacts, ActorFacts
  <1>3. OnlyBy(s, t, p) /\ t.l[p] = r /\ Of(t, p) = Holding(c, f, r)
    BY ONLY <1>2, p \in Users, BecomesFacts
  <1> QED BY <1>1, <1>2, <1>3 DEF Of

-----------------------------------------------------------------------------
(* The three steps of an iput() that frees *)

\* Only in an iput() two processes at one stage differ.
LEMMA SameStage ==
  ASSUME NEW o, NEW r, Stage(r) = Stage(o), r.call = o.call, r.rest = o.rest, r.parent = o.parent,
         r.ip = o.ip, r.other = o.other
  PROVE  /\ Linking(r) <=> Linking(o)
         /\ LinkOf(r) = LinkOf(o) /\ LockOf(r) = LockOf(o) /\ SameLinks(o, r)
         /\ InControl(o) /\ (r.pc \in {"put", "drop", "ifree"} => r.victim \in Inums /\ r.ret \in Rets) => InControl(r)
         /\ \A c, f : /\ Holding(c, f, r).cwd = Holding(c, f, o).cwd /\ Holding(c, f, r).file = Holding(c, f, o).file
                      /\ Holding(c, f, r).ip = Holding(c, f, o).ip /\ Holding(c, f, r).other = Holding(c, f, o).other
  <1>1. Linking(r) <=> Linking(o)
    BY DEF Linking
  <1>2. LinkOf(r) = LinkOf(o) /\ LockOf(r) = LockOf(o)
    BY <1>1 DEF LinkOf, LockOf
  <1>3. SameLinks(o, r)
    BY <1>2 DEF SameLinks
  <1>4. InControl(o) /\ (r.pc \in {"put", "drop", "ifree"} => r.victim \in Inums /\ r.ret \in Rets) => InControl(r)
    BY <1>1 DEF InControl
  <1> QED BY <1>1, <1>2, <1>3, <1>4, HoldingFields

\* An inode in the tree or with an entry has links.
LEMMA OutOfTree ==
  ASSUME NEW s, NEW up, Coherent(s, up), NEW d \in Inums \ Dir(s), NEW n \in Names
  PROVE  s.fs[d].ent[n] = 0
  BY DEF Coherent, Tree

\* itrunc() of an inode that goes
Truncated(F, i) == [F EXCEPT ![i].ent = NoEntries, ![i].nlink = 0]
Invalid(T, i) == [T EXCEPT ![i].valid = FALSE]

\* An inode that goes loses its entries.
LEMMA PutTruncatesKeeps ==
  ASSUME NEW s, NEW t, NodeStep(s, t), booted \in BOOLEAN, Coherent(s, booted), NEW p \in Users, PutTruncates(p)
  PROVE  Coherent(t, booted)
  <1>1. PICK o, v, r : o = s.l[p] /\ v = o.victim /\ r = To(o, "drop")
    OBVIOUS
  <1>2. /\ o \in Locals /\ InControl(o) /\ Knows(s, p) /\ s.fs \in [Inums -> Inodes] /\ l[p] = o
        /\ TableOk(s.itable, s.fs)
    BY Zenon, <1>1, ActorFacts
  <1>3. o.pc = "put" /\ v \in Inums /\ o.ret \in Rets /\ Stage(o) = o.ret
    BY <1>1, <1>2 DEF PutTruncates, InControl, Stage
  <1>4. /\ r \in Locals /\ r.pc = "drop" /\ r.victim = v /\ r.ret = o.ret /\ r.call = o.call /\ r.rest = o.rest
        /\ r.parent = o.parent /\ r.ip = o.ip /\ r.other = o.other
    <2>1. "drop" \in Labels
      BY DEF Labels
    <2> QED BY <1>1, <1>2, <2>1, ToFacts
  <1>5. Stage(r) = Stage(o)
    BY <1>3, <1>4 DEF Stage
  <1>6. /\ Linking(r) <=> Linking(o)
        /\ LinkOf(r) = LinkOf(o) /\ LockOf(r) = LockOf(o) /\ SameLinks(o, r) /\ InControl(r)
    BY <1>2, <1>3, <1>4, <1>5, SameStage
  <1>7. /\ Becomes(s, t, p, s.cwd[p], s.file[p], r) /\ OnlyBy(s, t, p) /\ t.l[p] = r
        /\ Of(t, p) = Holding(s.cwd[p], s.file[p], r) /\ Of(s, p) = Holding(s.cwd[p], s.file[p], o)
    <2>1. Become(p, r) /\ cwd' = cwd /\ file' = file
      BY <1>1, <1>2 DEF PutTruncates, Unchanged
    <2> QED BY <1>1, <2>1, StepFacts
  <1>8. /\ t.fs = Truncated(s.fs, v) /\ t.itable = Invalid(s.itable, v)
        /\ s.itable[v].ref = 1 /\ s.itable[v].valid /\ s.itable[v].nlink = 0 /\ s.itable[v].lock = None
    <2>1. LastLink(v) /\ LockFree(v)
      BY <1>1, <1>2 DEF PutTruncates
    <2>2. fs' = Truncated(fs, l[p].victim) /\ itable' = Invalid(itable, l[p].victim)
      BY DEF PutTruncates, Truncated, Invalid
    <2>3. l[p].victim = v
      BY <1>1, <1>2
    <2> QED BY <2>1, <2>2, <2>3, NodeParts DEF LastLink, LockFree
  <1>9. /\ Of(s, p).victim = v /\ Reaches(s, p, v)
    <2>1. Of(s, p).victim = v
      BY <1>1, <1>3, HoldingFields DEF Of
    <2> QED BY <2>1, ReachKinds
  <1>10. s.fs[v].nlink = 0 /\ s.fs[v].type # "free" /\ May(s, p, v)
    <2>1. s.fs[v].nlink = 0
      BY <1>2, <1>3, <1>8 DEF TableOk
    <2> QED BY <1>3, <1>9, <2>1, ReachCounts, MayReach
  <1>11. /\ t.fs \in [Inums -> Inodes] /\ \A i \in Inums : i # v => t.fs[i] = s.fs[i]
         /\ t.fs[v].type = s.fs[v].type /\ t.fs[v].nlink = 0 /\ t.fs[v].ent = NoEntries
    <2>1. PICK a : a = [[s.fs[v] EXCEPT !.ent = NoEntries] EXCEPT !.nlink = 0]
      OBVIOUS
    <2>2. s.fs[v] \in Inodes /\ NoEntries \in [Entries -> 0 .. NINODES] /\ 0 \in 0 .. NLINK_MAX
      BY <1>2, <1>3, NodeConstants DEF NoEntries
    <2>3. a \in Inodes /\ a.type = s.fs[v].type /\ a.nlink = 0 /\ a.ent = NoEntries
      BY <2>1, <2>2 DEF Inodes
    <2>4. t.fs = [s.fs EXCEPT ![v] = a]
      BY <1>2, <1>3, <1>8, <2>1 DEF Truncated
    <2> QED BY <1>2, <1>3, <2>3, <2>4
  <1>12. /\ t.itable \in [Inums -> Slots] /\ \A i \in Inums : i # v => t.itable[i] = s.itable[i]
         /\ t.itable[v].ref = s.itable[v].ref /\ t.itable[v].lock = s.itable[v].lock /\ ~t.itable[v].valid
    <2>1. PICK a : a = [s.itable[v] EXCEPT !.valid = FALSE]
      OBVIOUS
    <2>2. s.itable \in [Inums -> Slots] /\ s.itable[v] \in Slots
      BY <1>2, <1>3 DEF TableOk
    <2>3. a \in Slots /\ a.ref = s.itable[v].ref /\ a.lock = s.itable[v].lock /\ ~a.valid
      BY <2>1, <2>2 DEF Slots
    <2>4. t.itable = [s.itable EXCEPT ![v] = a]
      BY <1>8, <2>1 DEF Invalid
    <2> QED BY <1>3, <2>2, <2>3, <2>4
  <1>13. TableOk(t.itable, t.fs)
    BY <1>2, <1>11, <1>12 DEF TableOk
  <1>14. Shapes(t.fs)
    BY <1>10, <1>11 DEF Coherent, Shapes
  <1>15. Cut(t) = Cut(s) /\ Dir(t) = Dir(s) /\ v \notin Dir(s)
    <2>1. Cut(t) = Cut(s)
      BY <1>1, <1>6, <1>7, <1>7, CutSame
    <2> QED BY <1>10, <1>11, <2>1 DEF Dir, InTree
  <1>16. Ent(t) = Ent(s) /\ \E rank \in [Inums -> Nat] : Tree(t.fs, Dir(t), Ent(t), rank)
    <2>1. \A d \in Dir(s) : t.fs[d].ent = s.fs[d].ent
      BY <1>11, <1>15, EntFacts
    <2>2. \A d \in Inums \ Dir(s), n \in Names : t.fs[d].ent[n] = 0
      BY <1>11, OutOfTree, NodeConstants DEF NoEntries
    <2> QED BY <1>11, <1>15, <2>1, <2>2, SameTree
  <1>17. \A i \in Inums : t.fs[i].nlink = Count(Ent(t), i) + Count(Extra(t), i)
    <2>1. ASSUME NEW i \in Inums
          PROVE  t.fs[i].nlink = s.fs[i].nlink - Is(LinkOf(s.l[p]), i) + Is(LinkOf(t.l[p]), i)
      <3>1. t.fs[i].nlink = s.fs[i].nlink /\ s.fs[i].nlink \in Nat
        <4>1. s.fs[i].nlink \in Nat
          BY <1>2, NodeConstants DEF Inodes
        <4> QED BY <1>10, <1>11, <4>1
      <3> QED BY <1>1, <1>6, <1>7, <3>1 DEF Is
    <2> QED BY <1>7, <1>16, <2>1, SameCount
  <1>18. PICK h, k : h = Of(s, p) /\ k = Holding(s.cwd[p], s.file[p], r)
    OBVIOUS
  <1>19. k.cwd = h.cwd /\ k.file = h.file /\ k.ip = h.ip /\ k.other = h.other /\ k.victim = h.victim
    <2>1. k.victim = v /\ h.victim = v
      BY <1>4, <1>9, <1>18, HoldingFields
    <2>2. h = Holding(s.cwd[p], s.file[p], o)
      BY <1>1, <1>18 DEF Of
    <2> QED BY <1>4, <1>5, <1>18, <2>1, <2>2, SameStage
  <1>20. OwnMove(h, k, 0, 0)
    BY <1>19 DEF OwnMove, Own, Is
  <1>21. Shift(s, t, p, r, 0, 0)
    <2>1. ASSUME NEW i \in Inums
          PROVE  /\ t.itable[i].ref = s.itable[i].ref + Is(0, i) - Is(0, i)
                 /\ t.itable[i].lock = IF LockOf(r) = i THEN p
                                       ELSE IF LockOf(s.l[p]) = i THEN None ELSE s.itable[i].lock
                 /\ LockOf(r) = i => s.itable[i].lock \in {p, None} /\ t.itable[i].valid
                 /\ s.itable[i].lock # None => t.itable[i].valid
                 /\ t.itable[i].ref > 0 => t.fs[i].type # "free"
      <3>1. Slot(s, i) /\ s.itable[i].ref \in Nat
        BY <1>2 DEF Coherent, TableOk, Slots
      <3>2. LockOf(s.l[p]) = LockOf(r) /\ (s.itable[i].lock = p <=> LockOf(r) = i)
        BY <1>1, <1>6, <3>1 DEF Slot
      <3>3. s.itable[i].lock # None => t.itable[i].valid
        BY <1>8, <1>12, <3>1 DEF Slot
      <3>4. t.itable[i].ref = s.itable[i].ref /\ t.itable[i].lock = s.itable[i].lock /\ t.fs[i].type = s.fs[i].type
        BY <1>11, <1>12
      <3>5. s.itable[i].ref > 0 => s.fs[i].type # "free"
        BY <3>1 DEF Slot
      <3> QED BY <3>1, <3>2, <3>3, <3>4, <3>5, NodeConstants DEF Is
    <2> QED BY <2>1 DEF Shift
  <1>22. Of(t, p) = k
    BY <1>7, <1>18
  <1>23. Disturb(s, t, p, r)
    <2>1. ASSUME NEW i \in Inums, Reaches(t, p, i) PROVE May(s, p, i)
      <3>1. Reaches(s, p, i)
        BY <1>18, <1>19, <1>22, <2>1, ReachKinds
      <3> QED BY <3>1, MayReach
    <2>2. ASSUME NEW i \in Inums, Alone(r, i) PROVE May(s, p, i)
      BY <1>4, <1>10, <2>2 DEF Alone
    <2> QED BY <1>8, <1>10, <1>11, <1>12, <2>1, <2>2 DEF Disturb
  <1>24. ASSUME NEW i \in Inums PROVE Cared(t, booted, i)
    <2>1. CASE i = v
      BY <1>4, <1>7, <2>1 DEF Cared, Alone
    <2>2. CASE i # v
      <3>1. ~Alone(s.l[p], i)
        BY <1>1, <1>3 DEF Alone
      <3> QED BY <1>7, <1>11, <1>12, <2>2, <3>1, CaredBy
    <2> QED BY <2>1, <2>2
  <1>25. Knows(t, p)
    <2>1. Stage(r) \notin {"unlinkboth", "newip"}
      BY <1>3, <1>5 DEF Rets
    <2>2. Stage(r) \in {"unlink", "create", "mkdir"} \/ (Stage(r) = "link" /\ r.parent) => t.fs[r.ip].type = "dir"
      <3>1. Stage(o) \in {"unlink", "create", "mkdir"} \/ (Stage(o) = "link" /\ o.parent) => s.fs[o.ip].type = "dir"
        BY Zenon, <1>1, <1>2 DEF Knows
      <3>2. Stage(o) \in {"unlink", "create", "mkdir", "link"} => o.ip \in Inums
        BY <1>2 DEF InControl, IpStages
      <3> QED BY <1>4, <1>5, <1>11, <3>1, <3>2
    <2>3. Linking(r) => t.fs[r.other].type = "file"
      <3>1. Linking(o) => s.fs[o.other].type = "file"
        BY Zenon, <1>1, <1>2 DEF Knows
      <3>2. Linking(o) => o.other \in Inums
        BY <1>2 DEF InControl
      <3> QED BY <1>4, <1>6, <1>11, <3>1, <3>2
    <2>4. ASSUME NEW z \in Users \X Kinds, References(t)[z] = v PROVE z = <<p, "victim">>
      <3>1. Of(t, z[1]) = Of(s, z[1]) \/ z[1] = p
        BY <1>7 DEF Of, OnlyBy
      <3>2. Of(t, z[1])[z[2]] = v /\ z = <<z[1], z[2]>> /\ z[1] \in Users /\ z[2] \in Kinds
        BY <2>4, ReferenceOf
      <3>3. \A x \in Kinds : k[x] = h[x]
        BY <1>19 DEF Kinds
      <3>4. References(s)[z] = v
        BY <1>18, <1>22, <3>1, <3>2, <3>3, ReferenceOf
      <3>5. \A y \in Users \X Kinds : References(s)[y] = v => y = <<p, "victim">>
        <4>1. "victim" \in Kinds
          BY DEF Kinds
        <4> QED BY <1>3, <1>8, <1>9, <4>1, OneReference
      <3> QED BY <3>4, <3>5
    <2>5. ASSUME NEW q \in Users, Alone(t.l[q], v) PROVE q = p
      BY <1>7, <1>10, <2>5 DEF May, OnlyBy
    <2> QED BY <1>4, <1>6, <1>7, <1>10, <1>11, <1>12, <2>1, <2>2, <2>3, <2>4, <2>5 DEF Knows
  <1> QED BY <1>4, <1>7, <1>11, <1>13, <1>14, <1>16, <1>17, <1>18, <1>20, <1>21, <1>23, <1>24, <1>25, ChangeBy

\* The reference of an iput() that frees is dropped.
LEMMA PutDropsKeeps ==
  ASSUME NEW s, NEW t, NodeStep(s, t), booted \in BOOLEAN, Coherent(s, booted), NEW p \in Users, PutDrops(p)
  PROVE  Coherent(t, booted)
  <1>1. PICK o, v, r : o = s.l[p] /\ v = o.victim /\ r = To(o, "ifree")
    OBVIOUS
  <1>2. /\ o \in Locals /\ InControl(o) /\ Knows(s, p) /\ s.fs \in [Inums -> Inodes] /\ l[p] = o
        /\ TableOk(s.itable, s.fs)
    BY <1>1, ActorFacts
  <1>3. o.pc = "drop" /\ v \in Inums /\ o.ret \in Rets /\ Stage(o) = o.ret
    BY <1>1, <1>2 DEF PutDrops, InControl, Stage
  <1>4. /\ r \in Locals /\ r.pc = "ifree" /\ r.victim = v /\ r.ret = o.ret /\ r.call = o.call /\ r.rest = o.rest
        /\ r.parent = o.parent /\ r.ip = o.ip /\ r.other = o.other
    <2>1. "ifree" \in Labels
      BY DEF Labels
    <2> QED BY <1>1, <1>2, <2>1, ToFacts
  <1>5. Stage(r) = Stage(o)
    BY <1>3, <1>4 DEF Stage
  <1>6. /\ Linking(r) <=> Linking(o)
        /\ LinkOf(r) = LinkOf(o) /\ LockOf(r) = LockOf(o) /\ SameLinks(o, r) /\ InControl(r)
    BY <1>2, <1>3, <1>4, <1>5, SameStage
  <1>7. /\ Becomes(s, t, p, s.cwd[p], s.file[p], r) /\ OnlyBy(s, t, p) /\ t.l[p] = r
        /\ Of(t, p) = Holding(s.cwd[p], s.file[p], r) /\ Of(s, p) = Holding(s.cwd[p], s.file[p], o)
    <2>1. Become(p, r) /\ cwd' = cwd /\ file' = file
      BY <1>1, <1>2 DEF PutDrops, Unchanged
    <2> QED BY <1>1, <2>1, StepFacts
  <1>8. t.fs = s.fs /\ t.itable = Less(s.itable, v)
    <2>1. fs' = fs /\ itable' = Less(itable, l[p].victim)
      BY DEF PutDrops, Less
    <2> QED BY <1>1, <1>2, <2>1, NodeParts
  <1>9. PICK h, k : h = Of(s, p) /\ k = Of(t, p)
    OBVIOUS
  <1>10. /\ k.cwd = h.cwd /\ k.file = h.file /\ k.ip = h.ip /\ k.other = h.other /\ h.victim = v
         /\ k.victim = 0
    <2>1. k.victim = 0 /\ h.victim = v
      BY <1>1, <1>3, <1>4, <1>7, <1>9, HoldingFields
    <2> QED BY <1>4, <1>5, <1>7, <1>9, <2>1, SameStage
  <1>11. Reaches(s, p, v) /\ s.itable[v].ref > 0
    <2>1. Reaches(s, p, v)
      BY <1>9, <1>10, ReachKinds
    <2> QED BY <1>3, <2>1, ReachCounts
  <1>12. /\ s.fs[v].type # "free" /\ s.fs[v].nlink = 0 /\ s.fs[v].ent = NoEntries /\ ~s.itable[v].valid
         /\ \A z \in Users \X Kinds : References(s)[z] = v => z = <<p, "victim">>
         /\ \A q \in Users : Alone(s.l[q], v) => q = p
    BY <1>1, <1>2, <1>3 DEF Knows
  <1>13. TableMove(s.itable, t.itable, 0, 0, v, 0, None) /\ TableOk(t.itable, t.fs)
    BY <1>3, <1>8, <1>11, ActorFacts, TableMoves, NodeParts
  <1>14. Cut(t) = Cut(s) /\ Extra(t) = Extra(s) /\ Dir(t) = Dir(s) /\ Ent(t) = Ent(s)
    <2>1. Cut(t) = Cut(s) /\ Extra(t) = Extra(s)
      BY <1>1, <1>6, <1>7, CutSame
    <2> QED BY <1>8, <2>1 DEF Dir, Ent
  <1>15. /\ Shapes(t.fs) /\ \E rank \in [Inums -> Nat] : Tree(t.fs, Dir(t), Ent(t), rank)
         /\ \A i \in Inums : t.fs[i].nlink = Count(Ent(t), i) + Count(Extra(t), i)
    BY <1>8, <1>14 DEF Coherent
  <1>16. OwnMove(h, k, 0, v)
    BY <1>10, NodeConstants DEF OwnMove, Own, Is
  <1>17. \A i \in Inums : /\ t.itable[i].valid = s.itable[i].valid /\ t.itable[i].lock = s.itable[i].lock
                          /\ t.itable[i].ref = s.itable[i].ref - Is(v, i)
                          /\ s.itable[i].ref \in Nat /\ t.itable[i].ref \in Nat
    <2>1. ASSUME NEW i \in Inums
          PROVE  /\ t.itable[i].valid = s.itable[i].valid /\ t.itable[i].lock = s.itable[i].lock
                 /\ t.itable[i].ref = s.itable[i].ref - Is(v, i)
                 /\ s.itable[i].ref \in Nat /\ t.itable[i].ref \in Nat
      <3>1. s.itable[i] \in Slots /\ t.itable[i] \in Slots
        BY <1>2, <1>13 DEF TableOk
      <3>2. s.itable[i].ref \in Nat /\ t.itable[i].ref \in Nat
            /\ s.itable[i].valid \in BOOLEAN /\ t.itable[i].valid \in BOOLEAN
        BY <3>1 DEF Slots
      <3>3. /\ t.itable[i].ref = s.itable[i].ref + Is(0, i) - Is(v, i)
            /\ t.itable[i].lock = IF i = 0 THEN None ELSE s.itable[i].lock
            /\ t.itable[i].valid <=> s.itable[i].valid \/ i = 0
        BY <1>13 DEF TableMove
      <3>4. i # 0 /\ Is(0, i) = 0
        BY NodeConstants DEF Is
      <3> QED BY <3>2, <3>3, <3>4 DEF Is
    <2> QED BY <2>1
  <1>18. Shift(s, t, p, r, 0, v)
    <2>1. ASSUME NEW i \in Inums
          PROVE  /\ t.itable[i].ref = s.itable[i].ref + Is(0, i) - Is(v, i)
                 /\ t.itable[i].lock = IF LockOf(r) = i THEN p
                                       ELSE IF LockOf(s.l[p]) = i THEN None ELSE s.itable[i].lock
                 /\ LockOf(r) = i => s.itable[i].lock \in {p, None} /\ t.itable[i].valid
                 /\ s.itable[i].lock # None => t.itable[i].valid
                 /\ t.itable[i].ref > 0 => t.fs[i].type # "free"
      <3>1. Slot(s, i)
        BY DEF Coherent
      <3>2. LockOf(s.l[p]) = LockOf(r) /\ (s.itable[i].lock = p <=> LockOf(r) = i)
        BY <1>1, <1>6, <3>1 DEF Slot
      <3>3. s.itable[i].lock # None => s.itable[i].valid
        BY <3>1 DEF Slot
      <3>4. s.itable[i].ref > 0 => s.fs[i].type # "free"
        BY <3>1 DEF Slot
      <3>5. t.itable[i].ref > 0 => s.itable[i].ref > 0
        BY <1>17 DEF Is
      <3>6. t.itable[i].ref = s.itable[i].ref + Is(0, i) - Is(v, i)
        BY <1>17, NodeConstants DEF Is
      <3>7. /\ t.itable[i].lock = s.itable[i].lock /\ (s.itable[i].lock # None => t.itable[i].valid)
            /\ t.itable[i].ref > 0 => t.fs[i].type # "free"
        BY <1>8, <1>17, <3>3, <3>4, <3>5
      <3> QED BY <3>2, <3>6, <3>7, NodeConstants
    <2> QED BY <2>1 DEF Shift
  <1>19. Disturb(s, t, p, r)
    <2>1. ASSUME NEW i \in Inums, Reaches(t, p, i) PROVE May(s, p, i)
      <3>1. Reaches(s, p, i)
        BY <1>9, <1>10, <2>1, NodeConstants, ReachKinds
      <3> QED BY <3>1, MayReach
    <2>2. ASSUME NEW i \in Inums, Alone(r, i) PROVE May(s, p, i)
      BY <1>4, <1>12, <2>2 DEF Alone, May
    <2> QED BY <1>8, <1>17, <2>1, <2>2 DEF Disturb
  <1>20. ASSUME NEW i \in Inums PROVE Cared(t, booted, i)
    <2>1. CASE i = v
      BY <1>4, <1>7, <2>1 DEF Cared, Alone
    <2>2. CASE i # v
      <3>1. ~Alone(s.l[p], i)
        BY <1>1, <1>3, <2>2 DEF Alone
      <3>2. t.itable[i].ref = s.itable[i].ref /\ t.itable[i].valid = s.itable[i].valid
        BY <1>17, <2>2 DEF Is
      <3> QED BY <1>7, <1>8, <3>1, <3>2, CaredBy
    <2> QED BY <2>1, <2>2
  <1>21. Knows(t, p)
    <2>1. Stage(r) \notin {"unlinkboth", "newip"}
      BY <1>3, <1>5 DEF Rets
    <2>2. /\ Stage(r) \in {"unlink", "create", "mkdir"} \/ (Stage(r) = "link" /\ r.parent) => t.fs[r.ip].type = "dir"
          /\ Linking(r) => t.fs[r.other].type = "file"
      <3>1. /\ Stage(o) \in {"unlink", "create", "mkdir"} \/ (Stage(o) = "link" /\ o.parent) => s.fs[o.ip].type = "dir"
            /\ Linking(o) => s.fs[o.other].type = "file"
        BY Zenon, <1>1, <1>2 DEF Knows
      <3> QED BY <1>4, <1>5, <1>6, <1>8, <3>1
    <2>3. ASSUME NEW z \in Users \X Kinds, References(t)[z] = v PROVE FALSE
      <3>1. Of(t, z[1]) = Of(s, z[1]) \/ z[1] = p
        BY <1>7 DEF Of, OnlyBy
      <3>2. Of(t, z[1])[z[2]] = v /\ z = <<z[1], z[2]>> /\ z[1] \in Users /\ z[2] \in Kinds
        BY <2>3, ReferenceOf
      <3>3. z # <<p, "victim">>
        BY <1>3, <1>9, <1>10, <3>2, NodeConstants
      <3>4. \A x \in Kinds : x = "victim" \/ k[x] = h[x]
        BY <1>10 DEF Kinds
      <3>5. References(s)[z] = v
        BY <1>9, <3>1, <3>2, <3>3, <3>4, ReferenceOf
      <3> QED BY <1>12, <3>3, <3>5
    <2>4. ASSUME NEW q \in Users, Alone(t.l[q], v) PROVE q = p
      BY <1>7, <1>12, <2>4 DEF OnlyBy
    <2>5. ~t.itable[v].valid
      BY <1>3, <1>12, <1>17
    <2> QED BY <1>4, <1>6, <1>7, <1>8, <1>12, <2>1, <2>2, <2>3, <2>4, <2>5 DEF Knows
  <1>22. t.fs \in [Inums -> Inodes]
    BY <1>2, <1>8
  <1> QED BY <1>4, <1>7, <1>9, <1>13, <1>15, <1>16, <1>18, <1>19, <1>20, <1>21, <1>22, ChangeBy

\* ifree()
Freed(F, i) == [F EXCEPT ![i].type = "free"]

\* An inode without links and references is given back: ifree().
LEMMA PutFreesKeeps ==
  ASSUME NEW s, NEW t, NodeStep(s, t), booted \in BOOLEAN, Coherent(s, booted), NEW p \in Users, PutFrees(p)
  PROVE  Coherent(t, booted)
  <1>1. PICK o, v, r : o = s.l[p] /\ v = o.victim /\ r = To(o, o.ret)
    OBVIOUS
  <1>2. /\ o \in Locals /\ InControl(o) /\ Knows(s, p) /\ s.fs \in [Inums -> Inodes] /\ l[p] = o
        /\ TableOk(s.itable, s.fs)
    BY <1>1, ActorFacts
  <1>3. o.pc = "ifree" /\ v \in Inums /\ o.ret \in Rets /\ Stage(o) = o.ret
    BY <1>1, <1>2 DEF PutFrees, InControl, Stage
  <1>4. /\ r \in Locals /\ r.pc = o.ret /\ r.call = o.call /\ r.rest = o.rest
        /\ r.parent = o.parent /\ r.ip = o.ip /\ r.other = o.other
    <2>1. o.ret \in Labels
      BY <1>3 DEF Labels, Rets
    <2> QED BY <1>1, <1>2, <2>1, ToFacts
  <1>5. Stage(r) = Stage(o) /\ r.pc \notin {"put", "drop", "ifree", "newip", "unlinkboth"}
    BY <1>3, <1>4 DEF Stage, Rets
  <1>6. /\ Linking(r) <=> Linking(o)
        /\ LinkOf(r) = LinkOf(o) /\ LockOf(r) = LockOf(o) /\ SameLinks(o, r) /\ InControl(r)
    BY <1>2, <1>4, <1>5, SameStage
  <1>7. /\ Becomes(s, t, p, s.cwd[p], s.file[p], r) /\ OnlyBy(s, t, p) /\ t.l[p] = r
        /\ Of(t, p) = Holding(s.cwd[p], s.file[p], r) /\ Of(s, p) = Holding(s.cwd[p], s.file[p], o)
    <2>1. Become(p, r) /\ cwd' = cwd /\ file' = file
      BY <1>1, <1>2 DEF PutFrees, Unchanged
    <2> QED BY <1>1, <2>1, StepFacts
  <1>8. t.fs = Freed(s.fs, v) /\ t.itable = s.itable
    <2>1. fs' = Freed(fs, l[p].victim) /\ itable' = itable
      BY DEF PutFrees, Freed
    <2> QED BY <1>1, <1>2, <2>1, NodeParts
  <1>9. PICK h, k : h = Of(s, p) /\ k = Of(t, p)
    OBVIOUS
  <1>10. k.cwd = h.cwd /\ k.file = h.file /\ k.ip = h.ip /\ k.other = h.other /\ h.victim = 0 /\ k.victim = 0
    <2>1. k.victim = 0 /\ h.victim = 0
      BY <1>3, <1>5, <1>7, <1>9, HoldingFields
    <2> QED BY <1>4, <1>5, <1>7, <1>9, <2>1, SameStage
  <1>11. /\ s.fs[v].type # "free" /\ s.fs[v].nlink = 0 /\ s.fs[v].ent = NoEntries /\ ~s.itable[v].valid
         /\ \A z \in Users \X Kinds : References(s)[z] # v
         /\ \A q \in Users : Alone(s.l[q], v) => q = p
    BY <1>1, <1>2, <1>3 DEF Knows
  <1>12. s.itable[v].ref = 0 /\ s.itable[v].lock = None /\ \A q \in Users : ~Reaches(s, q, v)
    <2>1. s.itable[v].ref = 0
      BY <1>3, <1>11, NoReference
    <2>2. Alone(o, v)
      BY <1>1, <1>3 DEF Alone
    <2> QED BY <1>1, <1>3, <2>1, <2>2, AloneFacts, ReachCounts
  <1>13. /\ t.fs \in [Inums -> Inodes] /\ \A i \in Inums : i # v => t.fs[i] = s.fs[i]
         /\ t.fs[v] = FreeInode
    <2>1. PICK a : a = [s.fs[v] EXCEPT !.type = "free"]
      OBVIOUS
    <2>2. s.fs[v] \in Inodes /\ "free" \in Types
      BY <1>2, <1>3 DEF Types
    <2>3. a \in Inodes /\ a = FreeInode
      BY <1>11, <2>1, <2>2 DEF Inodes, FreeInode
    <2>4. t.fs = [s.fs EXCEPT ![v] = a]
      BY <1>8, <2>1 DEF Freed
    <2> QED BY <1>2, <1>3, <2>3, <2>4
  <1>14. t.fs[v].type = "free" /\ t.fs[v].nlink = 0 /\ t.fs[v].ent = NoEntries
    BY <1>13 DEF FreeInode
  <1>15. TableOk(t.itable, t.fs)
    BY <1>2, <1>8, <1>11, <1>13 DEF TableOk
  <1>16. Shapes(t.fs)
    BY <1>13, <1>14 DEF Coherent, Shapes
  <1>17. Cut(t) = Cut(s) /\ Dir(t) = Dir(s) /\ v \notin Dir(s)
    <2>1. Cut(t) = Cut(s)
      BY <1>1, <1>6, <1>7, CutSame
    <2> QED BY <1>11, <1>13, <1>14, <2>1 DEF Dir, InTree
  <1>18. Ent(t) = Ent(s) /\ \E rank \in [Inums -> Nat] : Tree(t.fs, Dir(t), Ent(t), rank)
    <2>1. \A d \in Dir(s) : t.fs[d].ent = s.fs[d].ent
      BY <1>13, <1>17, EntFacts
    <2>2. \A d \in Inums \ Dir(s), n \in Names : t.fs[d].ent[n] = 0
      BY <1>13, <1>14, OutOfTree, NodeConstants DEF NoEntries
    <2> QED BY <1>11, <1>13, <1>17, <2>1, <2>2, SameTree
  <1>19. \A i \in Inums : t.fs[i].nlink = Count(Ent(t), i) + Count(Extra(t), i)
    <2>1. ASSUME NEW i \in Inums
          PROVE  t.fs[i].nlink = s.fs[i].nlink - Is(LinkOf(s.l[p]), i) + Is(LinkOf(t.l[p]), i)
      <3>1. t.fs[i].nlink = s.fs[i].nlink /\ s.fs[i].nlink \in Nat
        <4>1. s.fs[i].nlink \in Nat
          BY <1>2, NodeConstants DEF Inodes
        <4> QED BY <1>11, <1>13, <1>14, <4>1
      <3> QED BY <1>1, <1>6, <1>7, <3>1 DEF Is
    <2> QED BY <1>7, <1>18, <2>1, SameCount
  <1>20. OwnMove(h, k, 0, 0)
    BY <1>10 DEF OwnMove, Own, Is
  <1>21. Shift(s, t, p, r, 0, 0)
    <2>1. ASSUME NEW i \in Inums
          PROVE  /\ t.itable[i].ref = s.itable[i].ref + Is(0, i) - Is(0, i)
                 /\ t.itable[i].lock = IF LockOf(r) = i THEN p
                                       ELSE IF LockOf(s.l[p]) = i THEN None ELSE s.itable[i].lock
                 /\ LockOf(r) = i => s.itable[i].lock \in {p, None} /\ t.itable[i].valid
                 /\ s.itable[i].lock # None => t.itable[i].valid
                 /\ t.itable[i].ref > 0 => t.fs[i].type # "free"
      <3>1. Slot(s, i) /\ s.itable[i].ref \in Nat
        BY <1>2 DEF Coherent, TableOk, Slots
      <3>2. LockOf(s.l[p]) = LockOf(r) /\ (s.itable[i].lock = p <=> LockOf(r) = i)
        BY <1>1, <1>6, <3>1 DEF Slot
      <3>3. s.itable[i].lock # None => s.itable[i].valid
        BY <3>1 DEF Slot
      <3>4. s.itable[i].ref > 0 => t.fs[i].type # "free"
        BY <1>12, <1>13, <3>1 DEF Slot
      <3> QED BY <1>8, <3>1, <3>2, <3>3, <3>4, NodeConstants DEF Is
    <2> QED BY <2>1 DEF Shift
  <1>22. Disturb(s, t, p, r)
    <2>1. ASSUME NEW i \in Inums, Reaches(t, p, i) PROVE May(s, p, i)
      <3>1. Reaches(s, p, i)
        BY <1>9, <1>10, <2>1, ReachKinds
      <3> QED BY <3>1, MayReach
    <2>2. \A i \in Inums : ~Alone(r, i)
      BY <1>5 DEF Alone
    <2>3. May(s, p, v)
      BY <1>11 DEF May
    <2> QED BY <1>8, <1>12, <1>13, <2>1, <2>2, <2>3 DEF Disturb
  <1>23. ASSUME NEW i \in Inums PROVE Cared(t, booted, i)
    <2>1. CASE i = v
      BY <1>14, <2>1 DEF Cared
    <2>2. CASE i # v
      <3>1. ~Alone(s.l[p], i)
        BY <1>1, <1>3, <2>2 DEF Alone
      <3> QED BY <1>7, <1>8, <1>13, <2>2, <3>1, CaredBy
    <2> QED BY <2>1, <2>2
  <1>24. Knows(t, p)
    <2>1. Stage(r) \in {"unlink", "create", "mkdir"} \/ (Stage(r) = "link" /\ r.parent) => t.fs[r.ip].type = "dir"
      <3>1. Stage(o) \in {"unlink", "create", "mkdir"} \/ (Stage(o) = "link" /\ o.parent) => s.fs[o.ip].type = "dir"
        BY Zenon, <1>1, <1>2 DEF Knows
      <3>2. Stage(o) \in IpStages => o.ip \in Inums /\ h.ip = o.ip
        BY <1>2, <1>7, <1>9, HoldingFields DEF InControl
      <3>3. Stage(o) \in IpStages => o.ip # v
        BY <1>9, <1>12, <3>2, ReachKinds
      <3>4. Stage(o) \in {"unlink", "create", "mkdir", "link"} => Stage(o) \in IpStages
        BY DEF IpStages
      <3> QED BY <1>4, <1>5, <1>13, <3>1, <3>2, <3>3, <3>4
    <2>2. Linking(r) => t.fs[r.other].type = "file"
      <3>1. Linking(o) => s.fs[o.other].type = "file"
        BY Zenon, <1>1, <1>2 DEF Knows
      <3>2. Linking(o) => o.other \in Inums /\ h.other = o.other
        BY <1>2, <1>7, <1>9, HoldingFields DEF InControl
      <3>3. Linking(o) => o.other # v
        BY <1>9, <1>12, <3>2, ReachKinds
      <3> QED BY <1>4, <1>6, <1>13, <3>1, <3>2, <3>3
    <2> QED BY <1>5, <1>6, <1>7, <2>1, <2>2, KnowsPlain
  <1> QED BY <1>4, <1>7, <1>9, <1>13, <1>15, <1>16, <1>18, <1>19, <1>20, <1>21, <1>22, <1>23, <1>24, ChangeBy

-----------------------------------------------------------------------------
(* Links and entries come and go *)

TableShift(s, t, p, r, g) ==
    \A i \in Inums :
       /\ t.itable[i].ref = s.itable[i].ref + Is(g, i)
       /\ t.itable[i].lock = IF LockOf(r) = i THEN p
                             ELSE IF LockOf(s.l[p]) = i THEN None ELSE s.itable[i].lock
       /\ LockOf(r) = i => s.itable[i].lock \in {p, None} /\ t.itable[i].valid
       /\ s.itable[i].valid => t.itable[i].valid
       /\ t.itable[i].valid # s.itable[i].valid => Reaches(s, p, i)

\* A step of p that changes inodes of the disk keeps all in order.
LEMMA ChangeStep ==
  ASSUME NEW s, NEW t, NodeStep(s, t), booted \in BOOLEAN, Coherent(s, booted), NEW p \in Users,
         NEW r \in Locals, Becomes(s, t, p, s.cwd[p], s.file[p], r),
         r.pc \notin {"newip", "drop", "ifree"}, s.l[p].pc \notin {"drop", "ifree"},
         t.fs \in [Inums -> Inodes], TableOk(t.itable, t.fs),
         \A i \in Inums :
            /\ t.fs[i].type = s.fs[i].type /\ (t.fs[i].type # "dir" => t.fs[i].ent = s.fs[i].ent)
            /\ t.fs[i] # s.fs[i] => Reaches(s, p, i) /\ s.itable[i].lock \in {p, None},
         \E rank \in [Inums -> Nat] : Tree(t.fs, Dir(t), Ent(t), rank),
         \A i \in Inums : t.fs[i].nlink = Count(Ent(t), i) + Count(Extra(t), i),
         NEW g, g = 0 \/ (g \in Inums /\ (Reaches(s, p, g) \/ s.fs[g].nlink > 0)),
         TableShift(s, t, p, r, g), OwnMove(Of(s, p), Holding(s.cwd[p], s.file[p], r), g, 0),
         \A i \in Inums : t.fs[i].nlink = 0 /\ (s.fs[i].nlink # 0 \/ Alone(s.l[p], i)) =>
            t.itable[i].ref > 0 /\ t.itable[i].valid,
         Knows(t, p)
  PROVE  Coherent(t, booted)
  <1>1. PICK c, f, h, k : c = s.cwd[p] /\ f = s.file[p] /\ h = Of(s, p) /\ k = Holding(c, f, r)
    OBVIOUS
  <1>2. s \in NodeStates /\ s.fs \in [Inums -> Inodes] /\ TableOk(s.itable, s.fs)
    BY ActorFacts
  <1>3. OnlyBy(s, t, p) /\ t.l[p] = r /\ Of(t, p) = k
    <2>1. Becomes(s, t, p, c, f, r)
      BY <1>1
    <2>2. OnlyBy(s, t, p) /\ t.l[p] = r /\ Of(t, p) = Holding(c, f, r)
      BY ONLY <1>2, <2>1, p \in Users, BecomesFacts
    <2> QED BY <1>1, <2>2
  <1>4. \A i \in Inums : ~Alone(r, i) /\ (Alone(s.l[p], i) => s.l[p].pc = "newip")
    BY DEF Alone
  <1>5. \A i \in Inums : s.itable[i].ref \in Nat /\ t.itable[i].ref \in Nat /\ s.fs[i].nlink \in Nat
    <2>1. \A i \in Inums : s.itable[i].ref \in Nat /\ t.itable[i].ref \in Nat
      BY <1>2 DEF TableOk, Slots
    <2>2. \A i \in Inums : s.fs[i].nlink \in Nat
      BY ONLY <1>2, NodeConstants DEF Inodes
    <2> QED BY <2>1, <2>2
  <1>6. ASSUME NEW i \in Inums, Reaches(t, p, i) PROVE Reaches(s, p, i) \/ s.fs[i].nlink > 0
    <2>1. Own(k, i) + Is(0, i) = Own(h, i) + Is(g, i)
      BY <1>1 DEF OwnMove
    <2>2. Own(k, i) \in Nat /\ Own(k, i) > 0 /\ Own(h, i) \in Nat /\ (Own(h, i) > 0 => Reaches(s, p, i))
      BY <1>1, <1>3, <1>6, OwnReaches
    <2>3. Is(0, i) = 0 /\ (Is(g, i) # 0 => g = i) /\ Is(g, i) \in Nat
      BY NodeConstants DEF Is
    <2> QED BY <2>1, <2>2, <2>3
  <1>7. ASSUME NEW i \in Inums, Reaches(s, p, i) PROVE s.itable[i].ref > 0 /\ s.fs[i].type # "free" /\ May(s, p, i)
    BY <1>7, ReachCounts, MayReach
  <1>8. Shapes(t.fs)
    <2>1. ASSUME NEW i \in Inums, t.fs[i].type = "free" PROVE t.fs[i] = FreeInode
      <3>1. t.fs[i] = s.fs[i]
        BY <1>7, <2>1
      <3> QED BY <2>1, <3>1 DEF Coherent, Shapes
    <2>2. ASSUME NEW i \in Inums, t.fs[i].type = "file" PROVE t.fs[i].ent = NoEntries
      BY <2>2 DEF Coherent, Shapes
    <2> QED BY <2>1, <2>2 DEF Shapes
  <1>9. Shift(s, t, p, r, g, 0)
    <2>1. ASSUME NEW i \in Inums
          PROVE  /\ t.itable[i].ref = s.itable[i].ref + Is(g, i) - Is(0, i)
                 /\ s.itable[i].lock # None => t.itable[i].valid
                 /\ t.itable[i].ref > 0 => t.fs[i].type # "free"
      <3>1. Is(0, i) = 0 /\ (Is(g, i) # 0 => g = i) /\ Is(g, i) \in Nat
        BY NodeConstants DEF Is
      <3>2. t.itable[i].ref = s.itable[i].ref + Is(g, i) /\ (s.itable[i].valid => t.itable[i].valid)
        BY DEF TableShift
      <3>3. (s.itable[i].lock # None => s.itable[i].valid) /\ (s.itable[i].ref > 0 => s.fs[i].type # "free")
        BY DEF Coherent, Slot
      <3>4. g = i => s.fs[i].type # "free"
        <4>1. s.fs[i].nlink > 0 => s.fs[i].type # "free"
          BY DEF Coherent, Shapes, FreeInode
        <4> QED BY <1>7, <4>1, NodeConstants
      <3>5. t.itable[i].ref > 0 => t.fs[i].type # "free"
        BY <1>5, <3>1, <3>2, <3>3, <3>4
      <3>6. t.itable[i].ref = s.itable[i].ref + Is(g, i) - Is(0, i)
        BY <1>5, <3>1, <3>2
      <3> QED BY <3>2, <3>3, <3>5, <3>6
    <2>2. \A i \in Inums : /\ t.itable[i].lock = IF LockOf(r) = i THEN p
                                                 ELSE IF LockOf(s.l[p]) = i THEN None ELSE s.itable[i].lock
                           /\ LockOf(r) = i => s.itable[i].lock \in {p, None} /\ t.itable[i].valid
      BY DEF TableShift
    <2> QED BY <2>1, <2>2 DEF Shift
  <1>10. Disturb(s, t, p, r)
    <2>1. ASSUME NEW i \in Inums, Reaches(t, p, i) PROVE May(s, p, i)
      BY <1>6, <2>1, MayReach
    <2>2. ASSUME NEW i \in Inums, t.itable[i].valid # s.itable[i].valid PROVE May(s, p, i)
      BY <1>7, <2>2 DEF TableShift
    <2> QED BY <1>4, <1>7, <2>1, <2>2 DEF Disturb
  <1>11. ASSUME NEW i \in Inums PROVE Cared(t, booted, i)
    <2>1. CASE t.fs[i].nlink = 0 /\ (s.fs[i].nlink # 0 \/ Alone(s.l[p], i))
      BY <2>1 DEF Cared
    <2>2. CASE t.fs[i].nlink # 0
      BY <2>2 DEF Cared
    <2>3. CASE s.fs[i].nlink = 0 /\ ~Alone(s.l[p], i)
      <3>1. t.itable[i].ref = s.itable[i].ref + Is(g, i) /\ (s.itable[i].valid => t.itable[i].valid)
        BY DEF TableShift
      <3>2. (Is(g, i) # 0 => g = i) /\ Is(g, i) \in Nat
        BY DEF Is
      <3>3. g = i => s.itable[i].ref > 0
        BY <1>5, <1>7, <2>3, NodeConstants
      <3>4. /\ s.itable[i].ref > 0 /\ s.itable[i].valid => t.itable[i].ref > 0 /\ t.itable[i].valid
            /\ s.itable[i].ref = 0 => t.itable[i].ref = 0
        BY <1>5, <3>1, <3>2, <3>3
      <3> QED BY <1>3, <2>3, <3>4, CaredBy
    <2> QED BY <2>1, <2>2, <2>3
  <1>12. OwnMove(Of(s, p), Holding(s.cwd[p], s.file[p], r), g, 0)
    OBVIOUS
  <1> QED BY <1>8, <1>9, <1>10, <1>11, ChangeBy

\* A change of nlink in memory and on the disk
LEMMA LinkedFacts ==
  ASSUME NEW T, NEW F, TableOk(T, F), F \in [Inums -> Inodes], NEW i \in Inums, NEW n \in 0 .. NLINK_MAX,
         NEW U, U = SetLinks(T, i, n), NEW G, G = Update(F, i, n)
  PROVE  /\ TableOk(U, G) /\ G \in [Inums -> Inodes]
         /\ \A j \in Inums : U[j].ref = T[j].ref /\ U[j].lock = T[j].lock /\ U[j].valid = T[j].valid
         /\ \A j \in Inums : j # i => U[j] = T[j] /\ G[j] = F[j]
         /\ \A j \in Inums : G[j].type = F[j].type /\ G[j].ent = F[j].ent
                             /\ G[j].nlink = IF j = i THEN n ELSE F[j].nlink
  <1>1. PICK a, b : a = [T[i] EXCEPT !.nlink = n] /\ b = [F[i] EXCEPT !.nlink = n]
    OBVIOUS
  <1>2. T \in [Inums -> Slots] /\ T[i] \in Slots /\ F[i] \in Inodes
    BY DEF TableOk
  <1>3. /\ a \in Slots /\ a.ref = T[i].ref /\ a.lock = T[i].lock /\ a.valid = T[i].valid /\ a.type = T[i].type
        /\ a.nlink = n
    BY <1>1, <1>2 DEF Slots
  <1>4. b \in Inodes /\ b.type = F[i].type /\ b.ent = F[i].ent /\ b.nlink = n
    BY <1>1, <1>2 DEF Inodes
  <1>5. U = [T EXCEPT ![i] = a] /\ G = [F EXCEPT ![i] = b]
    BY <1>1 DEF SetLinks, Update
  <1>6. U \in [Inums -> Slots] /\ G \in [Inums -> Inodes] /\ U[i] = a /\ G[i] = b
        /\ \A j \in Inums : j # i => U[j] = T[j] /\ G[j] = F[j]
    BY <1>2, <1>3, <1>4, <1>5
  <1>7. TableOk(U, G)
    BY <1>3, <1>4, <1>6 DEF TableOk
  <1> QED BY <1>3, <1>4, <1>6, <1>7

\* The link that sys_unlink() or sys_link() takes back is there.
LEMMA ExtraIsLinked ==
  ASSUME NEW s, NEW up, Coherent(s, up), NEW p \in Users, NEW i \in Inums, LinkOf(s.l[p]) = i
  PROVE  /\ s.fs[i].nlink > 0 /\ s.fs[i].nlink \in 0 .. NLINK_MAX /\ s.fs[i].nlink - 1 \in 0 .. NLINK_MAX
         /\ s.fs[i].nlink = 1 <=> /\ \A q \in Users : LinkOf(s.l[q]) = i => q = p
                                  /\ \A d \in Dir(s), n \in Entries : s.fs[d].ent[n] # i
  <1>1. PICK g, x, a, b : g = Ent(s) /\ x = Extra(s) /\ a = Count(g, i) /\ b = Count(x, i)
    OBVIOUS
  <1>2. DOMAIN g = Inums \X Entries /\ DOMAIN x = Users /\ IsFiniteSet(DOMAIN g) /\ IsFiniteSet(DOMAIN x)
    BY <1>1, EntFacts, NodeConstants DEF Extra
  <1>3. x[p] = i /\ \A q \in Users : x[q] = LinkOf(s.l[q])
    BY <1>1 DEF Extra
  <1>4. a \in Nat /\ b \in Nat /\ b > 0
    BY <1>1, <1>2, <1>3, CountNat, CountSome
  <1>5. s.fs[i].nlink = a + b
    BY <1>1 DEF Coherent
  <1>6. s.fs[i].nlink \in 0 .. NLINK_MAX
    <2>1. s.fs[i] \in Inodes
      BY DEF Coherent, NodeStates
    <2> QED BY <2>1 DEF Inodes
  <1>7. b = 1 <=> \A q \in Users : LinkOf(s.l[q]) = i => q = p
    BY <1>1, <1>2, <1>3, CountOne
  <1>8. a > 0 <=> \E z \in DOMAIN g : g[z] = i
    BY <1>1, <1>2, CountSome
  <1>9. (\E z \in DOMAIN g : g[z] = i) <=> \E d \in Dir(s), n \in Entries : s.fs[d].ent[n] = i
    <2>1. ASSUME NEW d \in Dir(s), NEW n \in Entries, s.fs[d].ent[n] = i PROVE \E z \in DOMAIN g : g[z] = i
      <3>1. <<d, n>> \in DOMAIN g /\ g[<<d, n>>] = i
        BY <1>1, <1>2, <2>1, EntFacts
      <3> QED BY <3>1
    <2>2. ASSUME NEW z \in Inums \X Entries, g[z] = i PROVE \E d \in Dir(s), n \in Entries : s.fs[d].ent[n] = i
      <3>1. z = <<z[1], z[2]>> /\ z[1] \in Inums /\ z[2] \in Entries
        OBVIOUS
      <3>2. z[1] \in Dir(s) /\ s.fs[z[1]].ent[z[2]] = i
        BY <1>1, <2>2, <3>1, EntFacts, NodeConstants
      <3> QED BY <3>1, <3>2
    <2> QED BY <1>2, <2>1, <2>2
  <1>10. s.fs[i].nlink > 0 /\ s.fs[i].nlink - 1 \in 0 .. NLINK_MAX
    BY <1>4, <1>5, <1>6, NodeConstants
  <1>11. s.fs[i].nlink = 1 <=> a = 0 /\ b = 1
    BY <1>4, <1>5
  <1> QED BY <1>4, <1>6, <1>7, <1>8, <1>9, <1>10, <1>11

\* A directory that was cut off is in no entry, not even in a "..".
LEMMA CutDirectory ==
  ASSUME NEW s, NEW up, Coherent(s, up), NEW p \in Users, Stage(s.l[p]) = "unlinkip", NEW i \in Inums,
         s.l[p].other = i, s.fs[i].type = "dir"
  PROVE  s.fs[i].nlink = 1
  <1>1. LinkOf(s.l[p]) = i /\ LockOf(s.l[p]) = i /\ i \notin Dir(s)
    <2>1. i \in Cut(s)
      BY DEF Cut
    <2>2. LockOf(s.l[p]) = i /\ LinkOf(s.l[p]) = i
      BY DEF LockOf, LinkOf
    <2> QED BY <2>1, <2>2 DEF Dir, InTree
  <1>2. ASSUME NEW q \in Users, LinkOf(s.l[q]) = i PROVE q = p
    <2>1. CASE Linking(s.l[q])
      <3>1. Knows(s, q) /\ s.l[q].other = i
        BY Zenon, <1>2, <2>1 DEF Coherent, LinkOf
      <3>2. s.fs[i].type = "file"
        BY <2>1, <3>1 DEF Knows
      <3> QED BY <3>2
    <2>2. CASE ~Linking(s.l[q])
      <3>1. LockOf(s.l[q]) = i
        BY <1>2, <2>2, NodeConstants DEF LinkOf, LockOf
      <3>2. Slot(s, i)
        BY DEF Coherent
      <3>3. s.itable[i].lock = q /\ s.itable[i].lock = p
        BY <1>1, <3>1, <3>2 DEF Slot
      <3> QED BY <3>3
    <2> QED BY <2>1, <2>2
  <1>3. ASSUME NEW d \in Dir(s), NEW n \in Entries, s.fs[d].ent[n] = i PROVE FALSE
    <2>1. PICK rank : Tree(s.fs, Dir(s), Ent(s), rank)
      BY DEF Coherent
    <2>2. Ent(s)[<<d, n>>] = i /\ \A m \in Entries : Ent(s)[<<d, m>>] = s.fs[d].ent[m]
      BY <1>3, EntFacts
    <2>3. n \in Names \/ n = UP
      BY NodeConstants
    <2>4. CASE n \in Names
      BY <1>1, <2>1, <2>2, <2>4 DEF Tree
    <2>5. CASE n = UP
      BY <1>1, <2>1, <2>2, <2>5 DEF Tree
    <2> QED BY <2>3, <2>4, <2>5
  <1> QED BY <1>1, <1>2, <1>3, ExtraIsLinked

\* sys_unlink() takes the link whose entry it has removed.
LEMMA UnlinkIpKeeps ==
  ASSUME NEW s, NEW t, NodeStep(s, t), booted \in BOOLEAN, Coherent(s, booted), NEW p \in Users, UnlinkIp(p)
  PROVE  Coherent(t, booted)
  <1>1. PICK o, i, n, r : o = s.l[p] /\ i = o.other /\ n = s.itable[i].nlink - 1 /\ r = PutThen(o, i, "end")
    OBVIOUS
  <1>2. /\ o \in Locals /\ InControl(o) /\ s.fs \in [Inums -> Inodes] /\ l[p] = o /\ TableOk(s.itable, s.fs)
    BY <1>1, ActorFacts
  <1>3. o.pc = "unlinkip" /\ Stage(o) = "unlinkip" /\ i \in Inums /\ i \in 0 .. NINODES /\ 0 \notin Inums
    <2>1. o.pc = "unlinkip" /\ Stage(o) = "unlinkip"
      BY <1>1, <1>2 DEF UnlinkIp, Stage
    <2> QED BY <1>1, <1>2, <2>1, NodeConstants DEF InControl, OtherStages
  <1>4. r \in Locals /\ r.pc = "put" /\ Stage(r) = "end" /\ r.victim = i
    <2>1. "end" \in Labels
      BY DEF Labels
    <2> QED BY <1>1, <1>2, <1>3, <2>1, PutThenFacts
  <1>5. /\ Becomes(s, t, p, s.cwd[p], s.file[p], r) /\ OnlyBy(s, t, p) /\ t.l[p] = r
        /\ Of(t, p) = Holding(s.cwd[p], s.file[p], r) /\ Of(s, p) = Holding(s.cwd[p], s.file[p], o)
    <2>1. Become(p, r) /\ cwd' = cwd /\ file' = file
      BY <1>1, <1>2 DEF UnlinkIp, Unchanged
    <2> QED BY <1>1, <2>1, StepFacts
  <1>6. PICK h, k : h = Of(s, p) /\ k = Holding(s.cwd[p], s.file[p], r)
    OBVIOUS
  <1>7. /\ h.cwd = s.cwd[p] /\ h.file = s.file[p] /\ h.ip = 0 /\ h.other = i /\ h.victim = 0
        /\ LockOf(o) = i /\ LinkOf(o) = i
    BY <1>1, <1>3, <1>5, <1>6, HoldsOther
  <1>8. /\ k.cwd = s.cwd[p] /\ k.file = s.file[p] /\ k.ip = 0 /\ k.other = 0 /\ k.victim = i
        /\ LockOf(r) = 0 /\ LinkOf(r) = 0
    BY <1>4, <1>6, HoldsNothing
  <1>9. OwnMove(h, k, 0, 0)
    BY ONLY <1>3, <1>7, <1>8 DEF OwnMove, Own, Is
  <1>10. s.itable[i].lock = p /\ s.itable[i].valid /\ Reaches(s, p, i) /\ s.itable[i].ref > 0
    <2>1. Slot(s, i) /\ Reaches(s, p, i)
      BY <1>3, <1>6, <1>7, ReachKinds DEF Coherent
    <2> QED BY <1>1, <1>3, <1>7, <2>1, ReachCounts, NodeConstants DEF Slot
  <1>11. n = s.fs[i].nlink - 1 /\ n \in 0 .. NLINK_MAX
    <2>1. s.itable[i].nlink = s.fs[i].nlink
      BY Zenon, <1>2, <1>3, <1>10 DEF TableOk
    <2> QED BY <1>1, <1>3, <1>7, <2>1, ExtraIsLinked
  <1>12. PICK U : U = SetLinks(s.itable, i, n) /\ t.fs = Update(s.fs, i, n) /\ t.itable = Unlocked(U, i)
    BY <1>1, <1>2, NodeParts DEF UnlinkIp
  <1>13. /\ TableOk(U, t.fs) /\ t.fs \in [Inums -> Inodes]
         /\ \A j \in Inums : U[j].ref = s.itable[j].ref /\ U[j].lock = s.itable[j].lock /\ U[j].valid = s.itable[j].valid
         /\ \A j \in Inums : j # i => t.fs[j] = s.fs[j]
         /\ \A j \in Inums : t.fs[j].type = s.fs[j].type /\ t.fs[j].ent = s.fs[j].ent
                             /\ t.fs[j].nlink = IF j = i THEN n ELSE s.fs[j].nlink
    BY <1>2, <1>3, <1>11, <1>12, LinkedFacts
  <1>14. /\ TableOk(t.itable, t.fs)
         /\ \A j \in Inums : /\ t.itable[j].ref = s.itable[j].ref /\ t.itable[j].valid = s.itable[j].valid
                             /\ t.itable[j].lock = IF j = i THEN None ELSE s.itable[j].lock
    <2>1. TableOk(U, t.fs) /\ i \in Inums
      BY <1>3, <1>13
    <2>2. PICK F : F = t.fs
      OBVIOUS
    <2>3. /\ TableOk(Unlocked(U, i), F)
          /\ \A j \in Inums :
               /\ Unlocked(U, i)[j].ref = U[j].ref /\ Unlocked(U, i)[j].valid = U[j].valid
               /\ Unlocked(U, i)[j].lock = IF j = i THEN None ELSE U[j].lock
      BY ONLY <2>1, <2>2, UnlockedFacts
    <2> QED BY <1>12, <1>13, <2>2, <2>3
  <1>15. TableShift(s, t, p, r, 0)
    <2>1. \A j \in Inums : s.itable[j].ref \in Nat /\ Is(0, j) = 0
      BY <1>2, <1>3 DEF TableOk, Slots, Is
    <2> QED BY <1>1, <1>3, <1>7, <1>8, <1>14, <2>1 DEF TableShift
  <1>16. Dir(t) = Dir(s)
    <2>1. Cut(t) \subseteq Cut(s) /\ Cut(s) \subseteq Cut(t) \cup {i}
      BY <1>1, <1>3, <1>4, <1>5, CutMoves
    <2>2. i \in Cut(s)
      BY <1>1, <1>3 DEF Cut
    <2>3. t.fs[i].type = "dir" => t.fs[i].nlink = 0
      BY <1>1, <1>3, <1>11, <1>13, CutDirectory
    <2>4. ASSUME NEW d \in Inums PROVE d \in Dir(t) <=> d \in Dir(s)
      <3>1. CASE d = i
        BY <2>2, <2>3, <3>1 DEF Dir, InTree
      <3>2. CASE d # i
        BY <1>13, <2>1, <3>2 DEF Dir, InTree
      <3> QED BY <3>1, <3>2
    <2> QED BY <2>4 DEF Dir, InTree
  <1>17. Ent(t) = Ent(s) /\ \E rank \in [Inums -> Nat] : Tree(t.fs, Dir(t), Ent(t), rank)
    <2>1. \A d \in Dir(s) : t.fs[d].ent = s.fs[d].ent
      BY <1>13, EntFacts
    <2>2. \A d \in Inums \ Dir(s), m \in Names : t.fs[d].ent[m] = 0
      <3>1. \A d \in Inums \ Dir(s), m \in Names : s.fs[d].ent[m] = 0
        BY ONLY Coherent(s, booted), OutOfTree
      <3>2. \A d \in Inums \ Dir(s) : t.fs[d].ent = s.fs[d].ent
        BY <1>13
      <3> QED BY ONLY <3>1, <3>2
    <2> QED BY <1>13, <1>16, <2>1, <2>2, SameTree
  <1>18. \A j \in Inums : t.fs[j].nlink = Count(Ent(t), j) + Count(Extra(t), j)
    <2>1. ASSUME NEW j \in Inums
          PROVE  t.fs[j].nlink = s.fs[j].nlink - Is(LinkOf(s.l[p]), j) + Is(LinkOf(t.l[p]), j)
      <3>1. s.fs[j].nlink \in Nat
        BY <1>2, NodeConstants DEF Inodes
      <3> QED BY SMTT(30), <1>1, <1>3, <1>5, <1>7, <1>8, <1>11, <1>13, <3>1 DEF Is
    <2> QED BY <1>5, <1>17, <2>1, SameCount
  <1>19. Knows(t, p)
    BY <1>3, <1>4, <1>5, KnowsEnd
  <1>20. ASSUME NEW j \in Inums, t.fs[j].nlink = 0, s.fs[j].nlink # 0 \/ Alone(s.l[p], j)
         PROVE  t.itable[j].ref > 0 /\ t.itable[j].valid
    <2>1. ~Alone(s.l[p], j)
      BY <1>1, <1>3 DEF Alone
    <2>2. j = i
      BY Zenon, <1>13, <1>20, <2>1
    <2> QED BY <1>3, <1>10, <1>14, <2>2
  <1>21. /\ r.pc \notin {"newip", "drop", "ifree"} /\ s.l[p].pc \notin {"drop", "ifree"}
         /\ \A j \in Inums :
              /\ t.fs[j].type = s.fs[j].type /\ (t.fs[j].type # "dir" => t.fs[j].ent = s.fs[j].ent)
              /\ t.fs[j] # s.fs[j] => Reaches(s, p, j) /\ s.itable[j].lock \in {p, None}
    BY <1>1, <1>3, <1>4, <1>10, <1>13
  <1> QED BY <1>4, <1>5, <1>6, <1>9, <1>13, <1>14, <1>15, <1>17, <1>18, <1>19, <1>20, <1>21, ChangeStep

\* The links that are no entries account for the change.
LinksMove(s, t, p) ==
    \A j \in Inums : t.fs[j].nlink = s.fs[j].nlink - Is(LinkOf(s.l[p]), j) + Is(LinkOf(t.l[p]), j)

\* The links of a file change, and no entry.
FileOnly(s, t, p, i) ==
    /\ Stage(s.l[p]) # "unlinkip" /\ Stage(t.l[p]) # "unlinkip" /\ s.fs[i].type # "dir"
    /\ \A j \in Inums : t.fs[j].type = s.fs[j].type /\ t.fs[j].ent = s.fs[j].ent
    /\ \A j \in Inums : j # i => t.fs[j].nlink = s.fs[j].nlink
    /\ LinksMove(s, t, p)

\* What Coherent says of the entries
Counted(t) ==
    /\ \E rank \in [Inums -> Nat] : Tree(t.fs, Dir(t), Ent(t), rank)
    /\ \A j \in Inums : t.fs[j].nlink = Count(Ent(t), j) + Count(Extra(t), j)

\* A file whose links change with those that are no entries counts right.
LEMMA FileStep ==
  ASSUME NEW s, NEW t, NEW up, Coherent(s, up), NEW p \in Users, OnlyBy(s, t, p), NEW i \in Inums,
         FileOnly(s, t, p, i)
  PROVE  Counted(t)
  <1>1. Cut(t) = Cut(s)
    BY CutMoves DEF FileOnly
  <1>2. Dir(t) = Dir(s)
    <2>1. ASSUME NEW d \in Inums PROVE d \in Dir(t) <=> d \in Dir(s)
      <3>1. CASE d = i
        BY <3>1 DEF FileOnly, Dir, InTree
      <3>2. CASE d # i
        BY <1>1, <3>2 DEF FileOnly, Dir, InTree
      <3> QED BY <3>1, <3>2
    <2> QED BY <2>1 DEF Dir, InTree
  <1>3. Ent(t) = Ent(s) /\ \E rank \in [Inums -> Nat] : Tree(t.fs, Dir(t), Ent(t), rank)
    <2>1. \A d \in Dir(s) : t.fs[d].ent = s.fs[d].ent
      BY EntFacts DEF FileOnly
    <2>2. \A d \in Inums \ Dir(s), m \in Names : t.fs[d].ent[m] = 0
      BY OutOfTree DEF FileOnly
    <2>3. \A j \in Inums : t.fs[j].type = s.fs[j].type
      BY DEF FileOnly
    <2> QED BY <1>2, <2>1, <2>2, <2>3, SameTree
  <1>4. \A j \in Inums : t.fs[j].nlink = Count(Ent(t), j) + Count(Extra(t), j)
    BY <1>3, SameCount DEF FileOnly, LinksMove
  <1> QED BY <1>3, <1>4 DEF Counted

\* sys_link() takes the link back that no entry got.
LEMMA LinkUndoKeeps ==
  ASSUME NEW s, NEW t, NodeStep(s, t), booted \in BOOLEAN, Coherent(s, booted), NEW p \in Users, LinkUndo(p)
  PROVE  Coherent(t, booted)
  <1>1. PICK o, i, n, r : o = s.l[p] /\ i = o.other /\ n = Loaded(i).nlink - 1 /\ r = PutThen(o, i, "end")
    OBVIOUS
  <1>2. /\ o \in Locals /\ InControl(o) /\ s.fs \in [Inums -> Inodes] /\ l[p] = o /\ TableOk(s.itable, s.fs)
        /\ Knows(s, p)
    BY <1>1, ActorFacts
  <1>3. o.pc = "linkundo" /\ Stage(o) = "linkundo" /\ Linking(o) /\ i \in Inums /\ i \in 0 .. NINODES /\ 0 \notin Inums
        /\ s.fs[i].type = "file" /\ LinkOf(o) = i
    <2>1. o.pc = "linkundo" /\ Stage(o) = "linkundo"
      BY <1>1, <1>2 DEF LinkUndo, Stage
    <2>2. Linking(o)
      BY <1>2, <2>1 DEF InControl, Linking
    <2>3. i \in Inums
      BY Zenon, <1>1, <1>2, <2>1, <2>2 DEF InControl, OtherStages
    <2>4. s.fs[i].type = "file"
      BY <1>1, <1>2, <2>2 DEF Knows
    <2>5. LinkOf(o) = i
      BY <1>1, <2>2 DEF LinkOf
    <2> QED BY <2>1, <2>2, <2>3, <2>4, <2>5, NodeConstants
  <1>4. r \in Locals /\ r.pc = "put" /\ Stage(r) = "end" /\ r.victim = i
    <2>1. "end" \in Labels
      BY DEF Labels
    <2> QED BY <1>1, <1>2, <1>3, <2>1, PutThenFacts
  <1>5. /\ Becomes(s, t, p, s.cwd[p], s.file[p], r) /\ OnlyBy(s, t, p) /\ t.l[p] = r
        /\ Of(t, p) = Holding(s.cwd[p], s.file[p], r) /\ Of(s, p) = Holding(s.cwd[p], s.file[p], o)
    <2>1. Become(p, r) /\ cwd' = cwd /\ file' = file
      BY <1>1, <1>2 DEF LinkUndo, Unchanged
    <2> QED BY <1>1, <2>1, StepFacts
  <1>6. PICK h, k : h = Of(s, p) /\ k = Holding(s.cwd[p], s.file[p], r)
    OBVIOUS
  <1>7. /\ h.cwd = s.cwd[p] /\ h.file = s.file[p] /\ h.ip = 0 /\ h.other = i /\ h.victim = 0
        /\ LockOf(o) = 0
    BY <1>1, <1>3, <1>5, <1>6, HoldsSource
  <1>8. /\ k.cwd = s.cwd[p] /\ k.file = s.file[p] /\ k.ip = 0 /\ k.other = 0 /\ k.victim = i
        /\ LockOf(r) = 0 /\ LinkOf(r) = 0
    BY <1>4, <1>6, HoldsNothing
  <1>9. OwnMove(h, k, 0, 0)
    BY <1>3, <1>7, <1>8 DEF OwnMove, Own, Is
  <1>10. s.itable[i].lock = None /\ Reaches(s, p, i) /\ s.itable[i].ref > 0
    <2>1. Reaches(s, p, i)
      BY Zenon, <1>6, <1>7, ReachKinds
    <2>2. s.itable[i].lock = None
      BY <1>1, <1>2, NodeParts DEF LinkUndo, CanLock, LockFree
    <2> QED BY <1>3, <2>1, <2>2, ReachCounts
  <1>11. PICK V : V = Visited(i)
    OBVIOUS
  <1>12. /\ TableOk(V, s.fs) /\ n = s.fs[i].nlink - 1
         /\ \A j \in Inums :
               /\ V[j].ref = s.itable[j].ref /\ V[j].lock = s.itable[j].lock
               /\ V[j].valid <=> s.itable[j].valid \/ j = i
    BY <1>1, <1>2, <1>3, <1>11, VisitedFacts, NodeParts
  <1>13. n \in 0 .. NLINK_MAX
    BY <1>1, <1>3, <1>12, ExtraIsLinked
  <1>14. t.fs = Update(s.fs, i, n) /\ t.itable = SetLinks(V, i, n)
    BY <1>1, <1>2, <1>11, NodeParts DEF LinkUndo
  <1>15. /\ TableOk(t.itable, t.fs) /\ t.fs \in [Inums -> Inodes]
         /\ \A j \in Inums : t.itable[j].ref = V[j].ref /\ t.itable[j].lock = V[j].lock /\ t.itable[j].valid = V[j].valid
         /\ \A j \in Inums : j # i => t.fs[j] = s.fs[j]
         /\ \A j \in Inums : t.fs[j].type = s.fs[j].type /\ t.fs[j].ent = s.fs[j].ent
                             /\ t.fs[j].nlink = IF j = i THEN n ELSE s.fs[j].nlink
    <2>1. TableOk(V, s.fs) /\ s.fs \in [Inums -> Inodes] /\ i \in Inums
      BY <1>2, <1>3, <1>12
    <2> QED BY ONLY <1>13, <1>14, <2>1, LinkedFacts
  <1>16. TableShift(s, t, p, r, 0)
    <2>1. \A j \in Inums : s.itable[j].ref \in Nat /\ Is(0, j) = 0
      BY <1>2, <1>3 DEF TableOk, Slots, Is
    <2>2. \A j \in Inums : t.itable[j].ref = s.itable[j].ref /\ t.itable[j].lock = s.itable[j].lock
      BY <1>12, <1>15
    <2>3. \A j \in Inums : (s.itable[j].valid => t.itable[j].valid) /\ (t.itable[j].valid # s.itable[j].valid => j = i)
      <3>1. \A j \in Inums : t.itable[j].valid \in BOOLEAN /\ s.itable[j].valid \in BOOLEAN
        BY <1>2, <1>15 DEF TableOk, Slots
      <3>2. \A j \in Inums : t.itable[j].valid <=> s.itable[j].valid \/ j = i
        BY <1>12, <1>15
      <3> QED BY <3>1, <3>2
    <2>4. LockOf(r) = 0 /\ LockOf(s.l[p]) = 0 /\ \A j \in Inums : j # 0
      BY <1>1, <1>3, <1>7, <1>8
    <2> QED BY <1>10, <2>1, <2>2, <2>3, <2>4 DEF TableShift
  <1>17. ASSUME NEW j \in Inums PROVE t.fs[j].nlink = s.fs[j].nlink - Is(LinkOf(s.l[p]), j) + Is(LinkOf(t.l[p]), j)
    <2>1. s.fs[j].nlink \in Nat
      BY <1>2, NodeConstants DEF Inodes
    <2> QED BY <1>1, <1>3, <1>5, <1>8, <1>12, <1>15, <2>1 DEF Is
  <1>18. Counted(t)
    <2>1. FileOnly(s, t, p, i)
      BY <1>1, <1>3, <1>4, <1>5, <1>15, <1>17 DEF FileOnly, LinksMove
    <2> QED BY Zenon, <1>3, <1>5, <2>1, FileStep
  <1>19. Knows(t, p)
    BY <1>3, <1>4, <1>5, KnowsEnd
  <1>20. ASSUME NEW j \in Inums, t.fs[j].nlink = 0, s.fs[j].nlink # 0 \/ Alone(s.l[p], j)
         PROVE  t.itable[j].ref > 0 /\ t.itable[j].valid
    <2>1. ~Alone(s.l[p], j)
      BY <1>1, <1>3 DEF Alone
    <2>2. j = i
      BY <1>15, <1>20, <2>1
    <2> QED BY <1>3, <1>10, <1>12, <1>15, <2>2
  <1>21. /\ r.pc \notin {"newip", "drop", "ifree"} /\ s.l[p].pc \notin {"drop", "ifree"}
         /\ \A j \in Inums :
              /\ t.fs[j].type = s.fs[j].type /\ (t.fs[j].type # "dir" => t.fs[j].ent = s.fs[j].ent)
              /\ t.fs[j] # s.fs[j] => Reaches(s, p, j) /\ s.itable[j].lock \in {p, None}
    BY <1>1, <1>3, <1>4, <1>10, <1>15
  <1> QED BY <1>4, <1>5, <1>6, <1>9, <1>15, <1>16, <1>18, <1>19, <1>20, <1>21, ChangeStep DEF Counted

\* An ilock() and a change of nlink
LEMMA RelinkFacts ==
  ASSUME NEW s, NEW t, NodeStep(s, t), NEW up, Coherent(s, up), NEW i \in Inums, NEW n \in 0 .. NLINK_MAX,
         NEW U, U = SetLinks(Visited(i), i, n), NEW G, G = Update(s.fs, i, n)
  PROVE  /\ TableOk(U, G) /\ G \in [Inums -> Inodes] /\ U[i].valid
         /\ \A j \in Inums : U[j].ref = s.itable[j].ref /\ U[j].lock = s.itable[j].lock
         /\ \A j \in Inums : (s.itable[j].valid => U[j].valid) /\ (U[j].valid # s.itable[j].valid => j = i)
         /\ \A j \in Inums : j # i => G[j] = s.fs[j]
         /\ \A j \in Inums : G[j].type = s.fs[j].type /\ G[j].ent = s.fs[j].ent
                             /\ G[j].nlink = IF j = i THEN n ELSE s.fs[j].nlink
  <1>1. PICK V : V = Visited(i)
    OBVIOUS
  <1>2. TableOk(s.itable, s.fs) /\ s.fs \in [Inums -> Inodes] /\ i \in Inums
    <2>1. s \in NodeStates
      BY DEF Coherent
    <2> QED BY <2>1 DEF Coherent, Slot, TableOk, NodeStates
  <1>3. /\ TableOk(V, s.fs)
        /\ \A j \in Inums :
              /\ V[j].ref = s.itable[j].ref /\ V[j].lock = s.itable[j].lock
              /\ V[j].valid <=> s.itable[j].valid \/ j = i
    BY <1>1, <1>2, VisitedFacts, NodeParts
  <1>4. U = SetLinks(V, i, n) /\ G = Update(s.fs, i, n) /\ n \in 0 .. NLINK_MAX /\ TableOk(V, s.fs)
    BY <1>1, <1>3
  <1>5. /\ TableOk(U, G) /\ G \in [Inums -> Inodes]
        /\ \A j \in Inums : U[j].ref = V[j].ref /\ U[j].lock = V[j].lock /\ U[j].valid = V[j].valid
        /\ \A j \in Inums : j # i => G[j] = s.fs[j]
        /\ \A j \in Inums : G[j].type = s.fs[j].type /\ G[j].ent = s.fs[j].ent
                            /\ G[j].nlink = IF j = i THEN n ELSE s.fs[j].nlink
    BY ONLY <1>2, <1>4, LinkedFacts
  <1>6. \A j \in Inums : U[j].ref = s.itable[j].ref /\ U[j].lock = s.itable[j].lock
    BY <1>3, <1>5
  <1>7. \A j \in Inums : U[j].valid \in BOOLEAN /\ s.itable[j].valid \in BOOLEAN
    BY <1>2, <1>5 DEF TableOk, Slots
  <1>8. \A j \in Inums : U[j].valid <=> s.itable[j].valid \/ j = i
    BY <1>3, <1>5
  <1>9. \A j \in Inums : (s.itable[j].valid => U[j].valid) /\ (U[j].valid # s.itable[j].valid => j = i)
    BY <1>7, <1>8
  <1>10. U[i].valid
    BY <1>8
  <1> QED BY <1>5, <1>6, <1>9, <1>10

\* sys_link() has a source: a file that takes one more link.
LEMMA LinkKeeps ==
  ASSUME NEW s, NEW t, NodeStep(s, t), booted \in BOOLEAN, Coherent(s, booted), NEW p \in Users,
         NEW path \in Paths, Link(p, path),
         ~(Loaded(l[p].ip).type = "dir" \/ Loaded(l[p].ip).nlink + 1 > NLINK_MAX)
  PROVE  Coherent(t, booted)
  <1>1. PICK o, i, n, g, e, r :
           /\ o = s.l[p] /\ i = o.ip /\ n = Loaded(i).nlink + 1 /\ g = Start(p, path) /\ e = Elements(path)
           /\ r = [To(o, "walk") EXCEPT !.parent = TRUE, !.other = i, !.ip = g, !.rest = e]
    BY Zenon
  <1>2. /\ o \in Locals /\ InControl(o) /\ s.fs \in [Inums -> Inodes] /\ l[p] = o /\ TableOk(s.itable, s.fs)
        /\ Knows(s, p)
    BY <1>1, ActorFacts
  <1>3. o.pc = "link" /\ Stage(o) = "link" /\ ~o.parent /\ ~Linking(o) /\ o.call = "link" /\ Standing(s, p, o)
    <2>1. o.pc = "link" /\ Stage(o) = "link" /\ ~o.parent
      BY <1>1, <1>2 DEF Link, Stage
    <2>2. o.call = "link" /\ ~Linking(o)
      BY <1>2, <2>1 DEF InControl, Linking
    <2>3. o.pc \in Bare
      BY <2>1 DEF Bare
    <2> QED BY <1>1, <2>1, <2>2, <2>3, BareFacts
  <1>4. i \in Inums /\ i \in 0 .. NINODES /\ 0 \notin Inums /\ Reaches(s, p, i)
    BY <1>1, <1>3, NodeConstants DEF Standing
  <1>5. g \in Inums /\ g \in 0 .. NINODES /\ e \in Seq(Entries) /\ (Reaches(s, p, g) \/ s.fs[g].nlink > 0)
    <2>1. g \in Inums /\ e \in Seq(Entries) /\ (g = s.cwd[p] \/ s.fs[g].nlink > 0)
      BY <1>1, WalkStarts
    <2>2. Of(s, p).cwd = s.cwd[p]
      BY <1>3 DEF Standing
    <2>3. Reaches(s, p, s.cwd[p])
      BY <2>2, ReachKinds
    <2> QED BY <2>1, <2>3, NodeConstants
  <1>6. /\ r \in Locals /\ r.pc = "walk" /\ r.parent = TRUE /\ r.other = i /\ r.ip = g /\ r.rest = e
        /\ r.call = "link"
    <2>1. "walk" \in Labels
      BY DEF Labels
    <2>2. PICK x : x = To(o, "walk")
      OBVIOUS
    <2>3. x \in Locals /\ x.pc = "walk" /\ x.call = "link" /\ r = [x EXCEPT !.parent = TRUE, !.other = i, !.ip = g, !.rest = e]
      BY <1>1, <1>2, <1>3, <2>1, <2>2, ToFacts
    <2> QED BY <1>4, <1>5, <2>3 DEF Locals
  <1>7. Stage(r) = "walk" /\ Linking(r) /\ Stage(r) \in IpStages \ {"cd", "unlinkboth", "newip"}
    BY <1>6 DEF Stage, Linking, IpStages
  <1>8. /\ Becomes(s, t, p, s.cwd[p], s.file[p], r) /\ OnlyBy(s, t, p) /\ t.l[p] = r
        /\ Of(t, p) = Holding(s.cwd[p], s.file[p], r) /\ Of(s, p) = Holding(s.cwd[p], s.file[p], o)
    <2>1. Become(p, r) /\ cwd' = cwd /\ file' = file
      BY <1>1, <1>2 DEF Link, Unchanged
    <2> QED BY <1>1, <2>1, StepFacts
  <1>9. PICK h, k : h = Of(s, p) /\ k = Holding(s.cwd[p], s.file[p], r)
    OBVIOUS
  <1>10. /\ h.cwd = s.cwd[p] /\ h.file = s.file[p] /\ h.ip = i /\ h.other = 0 /\ h.victim = 0
         /\ LockOf(o) = 0 /\ LinkOf(o) = 0
    BY <1>1, <1>3, <1>9 DEF Standing
  <1>11. /\ k.cwd = s.cwd[p] /\ k.file = s.file[p] /\ k.ip = g /\ k.other = i /\ k.victim = 0
         /\ LockOf(r) = 0 /\ LinkOf(r) = i
    <2>1. r.pc \notin {"put", "drop"} /\ Stage(r) # "unlockdp"
      BY <1>6, <1>7
    <2> QED BY <1>6, <1>7, <1>9, <2>1, HoldsIp
  <1>12. OwnMove(h, k, g, 0)
    BY <1>4, <1>5, <1>10, <1>11 DEF OwnMove, Own, Is
  <1>13. Loaded(i).type = s.fs[i].type /\ Loaded(i).nlink = s.fs[i].nlink
    <2>1. fs = s.fs /\ itable = s.itable
      BY Zenon, NodeParts
    <2>2. TableOk(itable, fs) /\ fs \in [Inums -> Inodes] /\ i \in Inums
      BY Zenon, <1>2, <1>4, <2>1
    <2>3. Loaded(i).type = fs[i].type /\ Loaded(i).nlink = fs[i].nlink
      BY ONLY <2>2, VisitedFacts
    <2> QED BY Zenon, <2>1, <2>3
  <1>14. s.fs[i].type = "file" /\ n = s.fs[i].nlink + 1 /\ n \in 0 .. NLINK_MAX /\ n > 0
    <2>1. s.fs[i].type \in Types /\ s.fs[i].type # "free"
      BY <1>2, <1>4, ReachCounts DEF Inodes
    <2>2. s.fs[i].nlink \in Nat
      BY <1>2, <1>4, NodeConstants DEF Inodes
    <2>3. s.fs[i].type # "dir" /\ ~(s.fs[i].nlink + 1 > NLINK_MAX)
      BY <1>1, <1>2, <1>13
    <2> QED BY SMTT(30), <1>1, <1>13, <2>1, <2>2, <2>3, NodeConstants DEF Types
  <1>15. s.itable[i].lock = None /\ s.itable[i].ref > 0
    <2>1. s.itable[i].lock = None
      BY Zenon, <1>1, <1>2, NodeParts DEF Link, CanLock, LockFree
    <2> QED BY <1>4, <2>1, ReachCounts
  <1>16. PICK U : U = SetLinks(Visited(i), i, n)
    BY Zenon
  <1>17. t.fs = Update(s.fs, i, n) /\ t.itable = Got(U, g)
    BY <1>1, <1>2, <1>16, NodeParts DEF Link
  <1>18. /\ TableOk(U, t.fs) /\ t.fs \in [Inums -> Inodes]
         /\ \A j \in Inums : U[j].ref = s.itable[j].ref /\ U[j].lock = s.itable[j].lock
         /\ \A j \in Inums : (s.itable[j].valid => U[j].valid) /\ (U[j].valid # s.itable[j].valid => j = i)
         /\ \A j \in Inums : j # i => t.fs[j] = s.fs[j]
         /\ \A j \in Inums : t.fs[j].type = s.fs[j].type /\ t.fs[j].ent = s.fs[j].ent
                             /\ t.fs[j].nlink = IF j = i THEN n ELSE s.fs[j].nlink
    BY SMTT(30), <1>4, <1>14, <1>16, <1>17, RelinkFacts
  <1>19. /\ TableOk(t.itable, t.fs)
         /\ \A j \in Inums :
               /\ t.itable[j].ref = U[j].ref + Is(g, j) /\ t.itable[j].lock = U[j].lock
               /\ t.itable[j].valid <=> U[j].valid
    <2>1. PICK F, W : F = t.fs /\ W = t.itable
      OBVIOUS
    <2>2. TableOk(U, F) /\ W = Got(U, g) /\ g \in Inums
      BY <1>5, <1>17, <1>18, <2>1
    <2>3. /\ TableOk(W, F)
          /\ \A j \in Inums :
                /\ W[j].ref = U[j].ref + Is(g, j) /\ W[j].lock = U[j].lock
                /\ W[j].valid <=> U[j].valid
      BY ONLY <2>2, GotFacts
    <2> QED BY <2>1, <2>3
  <1>20. TableShift(s, t, p, r, g)
    <2>1. LockOf(r) = 0 /\ LockOf(s.l[p]) = 0 /\ \A j \in Inums : j # 0
      BY <1>1, <1>4, <1>10, <1>11
    <2>2. \A j \in Inums : t.itable[j].ref = s.itable[j].ref + Is(g, j) /\ t.itable[j].lock = s.itable[j].lock
      BY <1>18, <1>19
    <2>3. \A j \in Inums : (s.itable[j].valid => t.itable[j].valid) /\ (t.itable[j].valid # s.itable[j].valid => j = i)
      <3>1. \A j \in Inums : t.itable[j].valid \in BOOLEAN /\ U[j].valid \in BOOLEAN
        BY <1>18, <1>19 DEF TableOk, Slots
      <3> QED BY <1>18, <1>19, <3>1
    <2> QED BY <1>4, <2>1, <2>2, <2>3 DEF TableShift
  <1>21. Counted(t)
    <2>1. ASSUME NEW j \in Inums PROVE t.fs[j].nlink = s.fs[j].nlink - Is(LinkOf(s.l[p]), j) + Is(LinkOf(t.l[p]), j)
      <3>1. s.fs[j].nlink \in Nat
        BY ONLY <1>2, j \in Inums, NodeConstants DEF Inodes
      <3> QED BY SMTT(30), <1>1, <1>4, <1>8, <1>10, <1>11, <1>14, <1>18, <3>1 DEF Is
    <2>2. FileOnly(s, t, p, i)
      BY <1>1, <1>3, <1>7, <1>8, <1>14, <1>18, <2>1 DEF FileOnly, LinksMove
    <2> QED BY Zenon, <1>4, <1>8, <2>2, FileStep
  <1>22. Knows(t, p)
    <2>1. InControl(r)
      BY <1>4, <1>5, <1>6, <1>7 DEF InControl
    <2>2. t.fs[r.other].type = "file"
      BY <1>4, <1>6, <1>14, <1>18
    <2>3. Stage(r) \notin {"unlink", "create", "mkdir", "link"} /\ r.pc \notin {"unlinkboth", "newip", "drop", "ifree"}
      BY <1>6, <1>7
    <2> QED BY <1>8, <2>1, <2>2, <2>3, KnowsPlain
  <1>23. ASSUME NEW j \in Inums, t.fs[j].nlink = 0, s.fs[j].nlink # 0 \/ Alone(s.l[p], j)
         PROVE  t.itable[j].ref > 0 /\ t.itable[j].valid
    <2>1. ~Alone(s.l[p], j)
      BY <1>1, <1>3 DEF Alone
    <2> QED BY <1>14, <1>18, <1>23, <2>1
  <1>24. /\ r.pc \notin {"newip", "drop", "ifree"} /\ s.l[p].pc \notin {"drop", "ifree"}
         /\ \A j \in Inums :
              /\ t.fs[j].type = s.fs[j].type /\ (t.fs[j].type # "dir" => t.fs[j].ent = s.fs[j].ent)
              /\ t.fs[j] # s.fs[j] => Reaches(s, p, j) /\ s.itable[j].lock \in {p, None}
    BY <1>1, <1>3, <1>4, <1>6, <1>15, <1>18
  <1>25. g = 0 \/ (g \in Inums /\ (Reaches(s, p, g) \/ s.fs[g].nlink > 0))
    BY <1>5
  <1> QED BY <1>6, <1>8, <1>9, <1>12, <1>18, <1>19, <1>20, <1>21, <1>22, <1>23, <1>24, <1>25, ChangeStep DEF Counted

\* What stays an entry
LEMMA EntSame ==
  ASSUME NEW s, NEW t, NEW e \in Inums, NEW m \in Entries, e \in Dir(t) <=> e \in Dir(s),
         t.fs[e].ent[m] = s.fs[e].ent[m]
  PROVE  Ent(t)[<<e, m>>] = Ent(s)[<<e, m>>]
  <1>1. CASE e \in Dir(s)
    <2>1. Ent(s)[<<e, m>>] = s.fs[e].ent[m]
      BY <1>1, EntFacts
    <2>2. Ent(t)[<<e, m>>] = t.fs[e].ent[m]
      BY <1>1, EntFacts
    <2> QED BY <2>1, <2>2
  <1>2. CASE e \in Inums \ Dir(s)
    <2>1. Ent(s)[<<e, m>>] = 0
      BY <1>2, EntFacts
    <2>2. e \in Inums \ Dir(t)
      BY <1>2
    <2>3. Ent(t)[<<e, m>>] = 0
      BY <2>2, EntFacts
    <2> QED BY <2>1, <2>3
  <1> QED BY <1>1, <1>2

\* The entries change in one place, or in two.
LEMMA EntryCount ==
  ASSUME NEW s, NEW t, NEW d \in Inums, NEW n \in Entries, NEW a, NEW b,
         Ent(s)[<<d, n>>] = a, Ent(t)[<<d, n>>] = b,
         \A q \in Inums \X Entries : q # <<d, n>> => Ent(t)[q] = Ent(s)[q], NEW i
  PROVE  Count(Ent(t), i) = Count(Ent(s), i) - Is(a, i) + Is(b, i)
  <1>1. PICK g, h, x : g = Ent(s) /\ h = Ent(t) /\ x = <<d, n>>
    OBVIOUS
  <1>2. DOMAIN g = Inums \X Entries /\ DOMAIN h = DOMAIN g /\ IsFiniteSet(DOMAIN g) /\ x \in DOMAIN g
    BY <1>1, EntFacts, NodeConstants
  <1>3. g[x] = a /\ h[x] = b /\ \A q \in DOMAIN g : q # x => h[q] = g[q]
    BY <1>1, <1>2
  <1>4. Count(h, i) = Count(g, i) - Is(g[x], i) + Is(h[x], i)
    BY ONLY <1>2, <1>3, CountChange
  <1> QED BY <1>1, <1>3, <1>4

\* How the count of i changes with two entries
LEMMA EntriesCount ==
  ASSUME NEW s, NEW t, NEW x \in Inums \X Entries, NEW y \in Inums \X Entries, x # y, NEW a, NEW b, NEW c, NEW d,
         Ent(s)[x] = a, Ent(t)[x] = b, Ent(s)[y] = c, Ent(t)[y] = d,
         \A q \in Inums \X Entries : q # x /\ q # y => Ent(t)[q] = Ent(s)[q], NEW i
  PROVE  Count(Ent(t), i) = Count(Ent(s), i) - Is(a, i) + Is(b, i) - Is(c, i) + Is(d, i)
  <1>1. PICK f, h, g : f = Ent(s) /\ h = Ent(t) /\ g = [f EXCEPT ![x] = b]
    OBVIOUS
  <1>2. /\ DOMAIN f = Inums \X Entries /\ DOMAIN h = Inums \X Entries /\ DOMAIN g = Inums \X Entries
        /\ IsFiniteSet(Inums \X Entries)
    BY <1>1, EntFacts, NodeConstants
  <1>3. f[x] = a /\ g[x] = b /\ \A q \in DOMAIN f : q # x => g[q] = f[q]
    BY <1>1, <1>2
  <1>4. g[y] = c /\ h[y] = d /\ \A q \in DOMAIN g : q # y => h[q] = g[q]
    BY <1>1, <1>2, <1>3
  <1>5. Count(g, i) = Count(f, i) - Is(f[x], i) + Is(g[x], i)
    <2>1. DOMAIN g = DOMAIN f /\ IsFiniteSet(DOMAIN f) /\ x \in DOMAIN f
      BY <1>2
    <2> QED BY ONLY <1>3, <2>1, CountChange
  <1>6. Count(h, i) = Count(g, i) - Is(g[y], i) + Is(h[y], i)
    <2>1. DOMAIN h = DOMAIN g /\ IsFiniteSet(DOMAIN g) /\ y \in DOMAIN g
      BY <1>2
    <2> QED BY ONLY <1>4, <2>1, CountChange
  <1>7. Count(f, i) \in Nat
    BY <1>2, CountNat
  <1> QED BY <1>1, <1>3, <1>4, <1>5, <1>6, <1>7 DEF Is

\* dirlink() and the writei() of an empty entry
Entered(F, d, n, i) == [F EXCEPT ![d].ent[n] = i]

\* An entry that is written changes nothing else.
LEMMA EnteredFacts ==
  ASSUME NEW F \in [Inums -> Inodes], NEW d \in Inums, NEW n \in Entries, NEW i \in 0 .. NINODES,
         NEW G, G = Entered(F, d, n, i)
  PROVE  /\ G \in [Inums -> Inodes]
         /\ \A j \in Inums : j # d => G[j] = F[j]
         /\ \A j \in Inums : G[j].type = F[j].type /\ G[j].nlink = F[j].nlink
         /\ G[d].ent[n] = i /\ \A m \in Entries : m # n => G[d].ent[m] = F[d].ent[m]
  <1>1. PICK a, b : a = [F[d].ent EXCEPT ![n] = i] /\ b = [F[d] EXCEPT !.ent = a]
    OBVIOUS
  <1>2. F[d] \in Inodes /\ F[d].ent \in [Entries -> 0 .. NINODES]
    BY DEF Inodes
  <1>3. a \in [Entries -> 0 .. NINODES] /\ a[n] = i /\ \A m \in Entries : m # n => a[m] = F[d].ent[m]
    BY <1>1, <1>2
  <1>4. b \in Inodes /\ b.type = F[d].type /\ b.nlink = F[d].nlink /\ b.ent = a
    BY <1>1, <1>2, <1>3 DEF Inodes
  <1>5. G = [F EXCEPT ![d] = b]
    BY <1>1 DEF Entered
  <1>6. G \in [Inums -> Inodes] /\ G[d] = b /\ \A j \in Inums : j # d => G[j] = F[j]
    BY <1>4, <1>5
  <1> QED BY <1>3, <1>4, <1>6

\* sys_link() gives the source its new name.
LEMMA LinkDpKeeps ==
  ASSUME NEW s, NEW t, NodeStep(s, t), booted \in BOOLEAN, Coherent(s, booted), NEW p \in Users,
         NEW room, LinkDp(p, room),
         room /\ Loaded(l[p].ip).nlink > 0 /\ fs[l[p].ip].ent[Name(p)] = 0
  PROVE  Coherent(t, booted)
  <1>1. PICK o, d, n, x, r : o = s.l[p] /\ d = o.ip /\ n = Head(o.rest) /\ x = o.other /\ r = PutThen(o, d, "linkput")
    OBVIOUS
  <1>2. /\ o \in Locals /\ InControl(o) /\ s.fs \in [Inums -> Inodes] /\ l[p] = o /\ TableOk(s.itable, s.fs)
        /\ Knows(s, p)
    BY <1>1, ActorFacts
  <1>3. o.pc = "link" /\ Stage(o) = "link" /\ o.parent /\ Linking(o) /\ Standing(s, p, o)
    <2>1. o.pc = "link" /\ Stage(o) = "link" /\ o.parent
      BY <1>1, <1>2 DEF LinkDp, Stage
    <2>2. Linking(o)
      BY <1>2, <2>1 DEF InControl, Linking
    <2>3. o.pc \in Bare
      BY <2>1 DEF Bare
    <2> QED BY <1>1, <2>1, <2>2, <2>3, BareFacts
  <1>4. /\ d \in Inums /\ d \in 0 .. NINODES /\ 0 \notin Inums /\ Reaches(s, p, d)
        /\ x \in Inums /\ x \in 0 .. NINODES /\ s.fs[x].type = "file"
    BY <1>1, <1>3, NodeConstants DEF Standing
  <1>5. s.fs[d].type = "dir" /\ n \in Entries
    <2>1. o.rest # <<>> /\ s.fs[d].type = "dir"
      BY <1>1, <1>2, <1>3 DEF InControl, Knows
    <2>2. o.rest \in Seq(Entries)
      BY <1>2 DEF Locals
    <2> QED BY <1>1, <2>1, <2>2, HeadTailProperties
  <1>6. s.itable[d].lock = None
    BY <1>1, <1>2, NodeParts DEF LinkDp, CanLock, LockFree
  <1>7. d \in Dir(s) /\ s.fs[d].ent[n] = 0
    <2>1. Loaded(d).nlink = s.fs[d].nlink
      <3>1. fs = s.fs /\ itable = s.itable
        BY Zenon, NodeParts
      <3>2. TableOk(itable, fs) /\ fs \in [Inums -> Inodes] /\ d \in Inums
        BY Zenon, <1>2, <1>4, <3>1
      <3>3. Loaded(d).type = fs[d].type /\ Loaded(d).nlink = fs[d].nlink
        BY ONLY <3>2, VisitedFacts
      <3> QED BY Zenon, <3>1, <3>3
    <2>2. Loaded(d).nlink > 0 /\ s.fs[d].ent[n] = 0
      BY <1>1, <1>2, NodeParts DEF Name
    <2>3. LockFree(d)
      BY <1>6, NodeParts DEF LockFree
    <2> QED BY <1>4, <1>5, <2>1, <2>2, <2>3, OpenDir
  <1>8. PICK rank \in [Inums -> Nat] : Tree(s.fs, Dir(s), Ent(s), rank)
    BY DEF Coherent
  <1>9. n \in Names /\ n # UP
    <2>1. n # UP
      <3>1. Ent(s)[<<d, UP>>] # 0
        <4>1. CASE d = ROOTINO
          BY <1>8, <4>1, NodeConstants DEF Tree
        <4>2. CASE d # ROOTINO
          <5>1. PICK e \in Dir(s) : Ent(s)[<<d, UP>>] = e
            BY <1>7, <1>8, <4>2 DEF Tree
          <5> QED BY <1>4, <5>1, EntFacts
        <4> QED BY <4>1, <4>2
      <3> QED BY <1>7, <3>1, EntFacts, NodeConstants
    <2> QED BY <1>5, <2>1, NodeConstants
  <1>10. /\ r \in Locals /\ r.pc = "put" /\ Stage(r) = "linkput" /\ r.victim = d /\ r.ret = "linkput"
         /\ r.other = x /\ r.call = o.call
    <2>1. "linkput" \in Labels
      BY DEF Labels
    <2> QED BY <1>1, <1>2, <1>4, <2>1, PutThenFacts
  <1>11. /\ Becomes(s, t, p, s.cwd[p], s.file[p], r) /\ OnlyBy(s, t, p) /\ t.l[p] = r
         /\ Of(t, p) = Holding(s.cwd[p], s.file[p], r) /\ Of(s, p) = Holding(s.cwd[p], s.file[p], o)
    <2>1. Become(p, r) /\ cwd' = cwd /\ file' = file
      BY <1>1, <1>2 DEF LinkDp, Unchanged
    <2> QED BY <1>1, <2>1, StepFacts
  <1>12. PICK h, k : h = Of(s, p) /\ k = Holding(s.cwd[p], s.file[p], r)
    OBVIOUS
  <1>13. /\ h.cwd = s.cwd[p] /\ h.file = s.file[p] /\ h.ip = d /\ h.other = x /\ h.victim = 0
         /\ LockOf(o) = 0 /\ LinkOf(o) = x
    BY <1>1, <1>3, <1>12 DEF Standing
  <1>14. /\ k.cwd = s.cwd[p] /\ k.file = s.file[p] /\ k.ip = 0 /\ k.other = x /\ k.victim = d
         /\ LockOf(r) = 0 /\ LinkOf(r) = 0 /\ ~Linking(r)
    BY <1>10, <1>12, HoldsOther
  <1>15. OwnMove(h, k, 0, 0)
    BY <1>4, <1>13, <1>14 DEF OwnMove, Own, Is
  <1>16. t.fs = Entered(s.fs, d, n, x) /\ t.itable = Visited(d)
    BY Zenon, <1>1, <1>2, NodeParts DEF LinkDp, Name, Entered
  <1>17. /\ t.fs \in [Inums -> Inodes]
         /\ \A j \in Inums : j # d => t.fs[j] = s.fs[j]
         /\ \A j \in Inums : t.fs[j].type = s.fs[j].type /\ t.fs[j].nlink = s.fs[j].nlink
         /\ t.fs[d].ent[n] = x /\ \A m \in Entries : m # n => t.fs[d].ent[m] = s.fs[d].ent[m]
    BY <1>2, <1>4, <1>5, <1>16, EnteredFacts
  <1>18. /\ TableOk(t.itable, s.fs)
         /\ \A j \in Inums :
               /\ t.itable[j].ref = s.itable[j].ref /\ t.itable[j].lock = s.itable[j].lock
               /\ t.itable[j].valid <=> s.itable[j].valid \/ j = d
    BY <1>2, <1>4, <1>16, VisitedFacts, NodeParts
  <1>19. TableOk(t.itable, t.fs)
    BY <1>17, <1>18 DEF TableOk
  <1>20. TableShift(s, t, p, r, 0)
    <2>1. LockOf(r) = 0 /\ LockOf(s.l[p]) = 0 /\ \A j \in Inums : j # 0
      BY <1>1, <1>4, <1>13, <1>14
    <2>2. \A j \in Inums : s.itable[j].ref \in Nat /\ Is(0, j) = 0
      BY <1>2, <1>4 DEF TableOk, Slots, Is
    <2>3. \A j \in Inums : (s.itable[j].valid => t.itable[j].valid) /\ (t.itable[j].valid # s.itable[j].valid => j = d)
      <3>1. \A j \in Inums : t.itable[j].valid \in BOOLEAN /\ s.itable[j].valid \in BOOLEAN
        BY <1>2, <1>18 DEF TableOk, Slots
      <3> QED BY <1>18, <3>1
    <2>4. \A j \in Inums : t.itable[j].ref = s.itable[j].ref /\ t.itable[j].lock = s.itable[j].lock
      BY <1>18
    <2> QED BY <1>4, <2>1, <2>2, <2>3, <2>4 DEF TableShift
  <1>21. Cut(t) = Cut(s) /\ Dir(t) = Dir(s)
    <2>1. Cut(t) = Cut(s)
      BY <1>1, <1>3, <1>10, <1>11, CutMoves
    <2> QED BY <1>17, <2>1 DEF Dir, InTree
  <1>22. /\ Ent(s)[<<d, n>>] = 0 /\ Ent(t)[<<d, n>>] = x
         /\ \A q \in Inums \X Entries : q # <<d, n>> => Ent(t)[q] = Ent(s)[q]
    <2>1. Ent(s)[<<d, n>>] = 0 /\ Ent(t)[<<d, n>>] = x
      BY <1>5, <1>7, <1>17, <1>21, EntFacts
    <2>2. ASSUME NEW e \in Inums, NEW m \in Entries, <<e, m>> # <<d, n>> PROVE Ent(t)[<<e, m>>] = Ent(s)[<<e, m>>]
      <3>1. e # d \/ m # n
        BY <2>2
      <3>2. t.fs[e].ent[m] = s.fs[e].ent[m]
        BY <1>17, <3>1
      <3> QED BY <1>21, <3>2, EntSame
    <2>3. \A q \in Inums \X Entries : q = <<q[1], q[2]>> /\ q[1] \in Inums /\ q[2] \in Entries
      OBVIOUS
    <2> QED BY <2>1, <2>2, <2>3
  <1>23. Tree(t.fs, Dir(t), Ent(t), rank)
    <2>1. PICK A, g, h2 : A = Dir(s) /\ g = Ent(s) /\ h2 = Ent(t)
      OBVIOUS
    <2>2. A \subseteq Inums /\ \A e \in A : s.fs[e].type = "dir"
      BY <2>1, EntFacts
    <2>3. \A e \in A, m \in Entries : (e = d /\ m = n) \/ h2[<<e, m>>] = g[<<e, m>>]
      <3>1. ASSUME NEW e \in A, NEW m \in Entries, ~(e = d /\ m = n) PROVE h2[<<e, m>>] = g[<<e, m>>]
        <4>1. <<e, m>> # <<d, n>> /\ <<e, m>> \in Inums \X Entries
          BY <2>2, <3>1
        <4> QED BY <1>22, <2>1, <4>1
      <3> QED BY Zenon, <3>1
    <2>4. /\ g[<<d, n>>] = 0 \/ s.fs[g[<<d, n>>]].type # "dir"
          /\ h2[<<d, n>>] = 0 \/ t.fs[h2[<<d, n>>]].type # "dir"
      BY <1>4, <1>17, <1>22, <2>1
    <2>5. \A e \in Inums \ A, m \in Names : t.fs[e].ent[m] = 0
      BY <1>7, <1>17, <2>1, OutOfTree
    <2>6. \A j \in Inums : t.fs[j].type = s.fs[j].type
      BY <1>17
    <2>7. Tree(s.fs, A, g, rank) /\ d \in A
      BY <1>7, <1>8, <2>1
    <2>8. Tree(t.fs, A, h2, rank)
      BY ONLY <1>9, <2>2, <2>3, <2>4, <2>5, <2>6, <2>7, TreeFile
    <2> QED BY <1>21, <2>1, <2>8
  <1>24. ASSUME NEW j \in Inums PROVE t.fs[j].nlink = Count(Ent(t), j) + Count(Extra(t), j)
    <2>1. PICK a, b, a2, b2 : a = Count(Ent(s), j) /\ b = Count(Extra(s), j) /\ a2 = Count(Ent(t), j) /\ b2 = Count(Extra(t), j)
      OBVIOUS
    <2>2. a2 = a - Is(0, j) + Is(x, j)
      BY <1>4, <1>5, <1>22, <2>1, EntryCount
    <2>3. b2 = b - Is(x, j) + Is(0, j)
      BY <1>1, <1>11, <1>13, <1>14, <2>1, ExtraMoves
    <2>4. s.fs[j].nlink = a + b /\ t.fs[j].nlink = s.fs[j].nlink
      BY <1>17, <2>1 DEF Coherent
    <2>5. DOMAIN Ent(s) = Inums \X Entries /\ DOMAIN Extra(s) = Users
      BY EntFacts DEF Extra
    <2>6. a \in Nat /\ b \in Nat
      BY <2>1, <2>5, CountNat, NodeConstants
    <2>7. Is(0, j) \in Nat /\ Is(x, j) \in Nat
      BY DEF Is
    <2>8. a2 + b2 = a + b
      BY ONLY <2>2, <2>3, <2>6, <2>7
    <2> QED BY <2>1, <2>4, <2>8
  <1>25. Knows(t, p)
    <2>1. InControl(r)
      BY <1>4, <1>10, <1>14 DEF InControl, IpStages, Rets
    <2> QED BY <1>10, <1>11, <1>14, <2>1, KnowsPlain
  <1>26. ASSUME NEW j \in Inums, t.fs[j].nlink = 0, s.fs[j].nlink # 0 \/ Alone(s.l[p], j)
         PROVE  t.itable[j].ref > 0 /\ t.itable[j].valid
    <2>1. ~Alone(s.l[p], j)
      BY <1>1, <1>3 DEF Alone
    <2> QED BY <1>17, <1>26, <2>1
  <1>27. /\ r.pc \notin {"newip", "drop", "ifree"} /\ s.l[p].pc \notin {"drop", "ifree"}
         /\ \A j \in Inums :
              /\ t.fs[j].type = s.fs[j].type /\ (t.fs[j].type # "dir" => t.fs[j].ent = s.fs[j].ent)
              /\ t.fs[j] # s.fs[j] => Reaches(s, p, j) /\ s.itable[j].lock \in {p, None}
    <2>1. r.pc \notin {"newip", "drop", "ifree"} /\ s.l[p].pc \notin {"drop", "ifree"}
      BY <1>1, <1>3, <1>10
    <2>2. t.fs[d].type = "dir" /\ s.itable[d].lock \in {p, None}
      BY <1>4, <1>5, <1>6, <1>17
    <2>3. ASSUME NEW j \in Inums
          PROVE  /\ t.fs[j].type = s.fs[j].type /\ (t.fs[j].type # "dir" => t.fs[j].ent = s.fs[j].ent)
                 /\ t.fs[j] # s.fs[j] => Reaches(s, p, j) /\ s.itable[j].lock \in {p, None}
      <3>1. CASE j = d
        BY <1>4, <1>17, <2>2, <3>1
      <3>2. CASE j # d
        BY <1>17, <3>2
      <3> QED BY <3>1, <3>2
    <2> QED BY <2>1, <2>3
  <1>28. \E rank2 \in [Inums -> Nat] : Tree(t.fs, Dir(t), Ent(t), rank2)
    BY <1>23
  <1> QED BY <1>10, <1>11, <1>12, <1>15, <1>17, <1>19, <1>20, <1>24, <1>25, <1>26, <1>27, <1>28, ChangeStep

\* Two places that count
LEMMA CountTwo ==
  ASSUME NEW g, IsFiniteSet(DOMAIN g), NEW i, NEW x \in DOMAIN g, NEW y \in DOMAIN g, x # y, g[x] = i, g[y] = i,
         NEW z, z # i
  PROVE  Count(g, i) > 1
  <1>1. PICK h : h = [g EXCEPT ![x] = z]
    OBVIOUS
  <1>2. DOMAIN h = DOMAIN g /\ h[x] = z /\ h[y] = i /\ \A q \in DOMAIN g : q # x => h[q] = g[q]
    BY <1>1
  <1>3. Count(h, i) = Count(g, i) - Is(g[x], i) + Is(h[x], i)
    BY ONLY <1>2, IsFiniteSet(DOMAIN g), x \in DOMAIN g, CountChange
  <1>4. Count(h, i) > 0
    <2>1. IsFiniteSet(DOMAIN h) /\ y \in DOMAIN h
      BY <1>2
    <2> QED BY <1>2, <2>1, CountSome
  <1>5. Count(g, i) \in Nat /\ Is(g[x], i) = 1 /\ Is(h[x], i) = 0
    BY <1>2, CountNat DEF Is
  <1> QED BY <1>3, <1>4, <1>5

\* A process that is creating
LEMMA NewipFacts ==
  ASSUME NEW s, NEW t, NodeStep(s, t), NEW up, Coherent(s, up), NEW p \in Users, NEW o, o = s.l[p],
         o.pc = "newip", CanLock(o.other), NEW d, NEW i, d = o.ip, i = o.other
  PROVE  /\ o \in Locals /\ l[p] = o /\ Stage(o) = "newip" /\ InControl(o) /\ o.call \in {"create", "mkdir"}
         /\ d \in Inums /\ d \in Dir(s) /\ Head(o.rest) \in Names /\ s.fs[d].ent[Head(o.rest)] = 0
         /\ o.call = "mkdir" => s.fs[d].nlink < NLINK_MAX
         /\ i \in Inums /\ i # d /\ s.fs[i].nlink = 0 /\ s.fs[i].ent = NoEntries
         /\ s.fs[i].type = IF o.call = "mkdir" THEN "dir" ELSE "file"
         /\ s.itable[i].lock = None /\ s.itable[i].ref > 0 /\ Reaches(s, p, i) /\ Reaches(s, p, d)
         /\ s.itable[d].lock = p /\ s.itable[d].valid /\ s.itable[d].ref > 0
         /\ LockOf(o) = d /\ LinkOf(o) = 0 /\ ~Linking(o)
         /\ Of(s, p).cwd = s.cwd[p] /\ Of(s, p).file = s.file[p] /\ Of(s, p).ip = d /\ Of(s, p).other = i
         /\ Of(s, p).victim = 0
  <1>1. o \in Locals /\ l[p] = o /\ Stage(o) = "newip" /\ InControl(o) /\ Knows(s, p)
    BY ActorFacts DEF Stage
  <1>2. o.call \in {"create", "mkdir"} /\ d \in Inums /\ i \in Inums
    BY Zenon, <1>1 DEF InControl, IpStages, OtherStages
  <1>3. /\ d \in Dir(s) /\ Head(o.rest) \in Names /\ s.fs[d].ent[Head(o.rest)] = 0
        /\ o.call = "mkdir" => s.fs[d].nlink < NLINK_MAX
        /\ s.fs[i] = [FreeInode EXCEPT !.type = IF o.call = "mkdir" THEN "dir" ELSE "file"]
    BY Zenon, <1>1 DEF Knows
  <1>4. /\ s.fs[i].nlink = 0 /\ s.fs[i].ent = NoEntries
        /\ s.fs[i].type = IF o.call = "mkdir" THEN "dir" ELSE "file"
    BY <1>3 DEF FreeInode
  <1>5. i # d
    <2>1. s.fs[d].nlink > 0
      BY <1>3, EntFacts
    <2>2. ~(0 > 0)
      OBVIOUS
    <2> QED BY Zenon, <1>4, <2>1, <2>2
  <1>6. Of(s, p) = Holding(s.cwd[p], s.file[p], o)
    BY DEF Of
  <1>7. /\ LockOf(o) = d /\ LinkOf(o) = 0 /\ ~Linking(o)
        /\ Of(s, p).cwd = s.cwd[p] /\ Of(s, p).file = s.file[p] /\ Of(s, p).ip = d /\ Of(s, p).other = i
        /\ Of(s, p).victim = 0
    BY <1>1, <1>6, HoldsBoth
  <1>8. Reaches(s, p, i) /\ Reaches(s, p, d)
    BY <1>7, ReachKinds
  <1>9. s.itable[i].ref > 0 /\ s.itable[d].ref > 0
    BY <1>2, <1>8, ReachCounts
  <1>10. s.itable[i].lock = None
    BY Zenon, NodeParts DEF CanLock, LockFree
  <1>11. s.itable[d].lock = p /\ s.itable[d].valid
    <2>1. Slot(s, d)
      BY <1>2 DEF Coherent
    <2> QED BY <1>7, <2>1, NodeConstants DEF Slot
  <1> QED BY <1>1, <1>2, <1>3, <1>4, <1>5, <1>7, <1>8, <1>9, <1>10, <1>11

\* create() gives the new inode back.
LEMMA CreateUndoKeeps ==
  ASSUME NEW s, NEW t, NodeStep(s, t), booted \in BOOLEAN, Coherent(s, booted), NEW p \in Users, CreateUndo(p)
  PROVE  Coherent(t, booted)
  <1>1. PICK o, d, i, r : o = s.l[p] /\ d = o.ip /\ i = o.other /\ r = PutThen(o, i, "unlockdp")
    OBVIOUS
  <1>2. o.pc = "newip" /\ CanLock(i) /\ l[p] = o
    BY <1>1, ActorFacts DEF CreateUndo
  <1>3. /\ o \in Locals /\ Stage(o) = "newip" /\ InControl(o) /\ o.call \in {"create", "mkdir"}
        /\ d \in Inums /\ i \in Inums /\ i # d /\ s.fs[i].nlink = 0
        /\ s.itable[i].lock = None /\ s.itable[i].ref > 0 /\ Reaches(s, p, i)
        /\ s.itable[d].lock = p /\ s.itable[d].valid
        /\ LockOf(o) = d /\ LinkOf(o) = 0
    BY <1>1, <1>2, NewipFacts
  <1>4. /\ Of(s, p).cwd = s.cwd[p] /\ Of(s, p).file = s.file[p] /\ Of(s, p).ip = d /\ Of(s, p).other = i
        /\ Of(s, p).victim = 0
    BY <1>1, <1>2, NewipFacts
  <1>5. i \in 0 .. NINODES /\ 0 \notin Inums /\ s.fs \in [Inums -> Inodes] /\ s.itable \in [Inums -> Slots]
    BY <1>3, ActorFacts, NodeConstants DEF TableOk
  <1>6. /\ r \in Locals /\ r.pc = "put" /\ Stage(r) = "unlockdp" /\ r.victim = i /\ r.ip = d /\ r.call = o.call
        /\ r.ret = "unlockdp"
    <2>1. "unlockdp" \in Labels
      BY DEF Labels
    <2> QED BY <1>1, <1>3, <1>5, <2>1, PutThenFacts
  <1>7. /\ Becomes(s, t, p, s.cwd[p], s.file[p], r) /\ OnlyBy(s, t, p) /\ t.l[p] = r
    <2>1. Become(p, r) /\ cwd' = cwd /\ file' = file
      BY <1>1, <1>2 DEF CreateUndo, Unchanged
    <2> QED BY <1>1, <2>1, StepFacts
  <1>8. PICK h, k : h = Of(s, p) /\ k = Holding(s.cwd[p], s.file[p], r)
    OBVIOUS
  <1>9. /\ k.cwd = s.cwd[p] /\ k.file = s.file[p] /\ k.ip = d /\ k.other = 0 /\ k.victim = i
        /\ LockOf(r) = d /\ LinkOf(r) = 0 /\ ~Linking(r)
    <2>1. ~Linking(r)
      BY <1>6 DEF Linking
    <2>2. Stage(r) \in IpStages \ {"cd", "unlinkboth", "newip"}
      BY <1>6 DEF IpStages
    <2> QED BY <1>6, <1>8, <2>1, <2>2, HoldsIp
  <1>10. OwnMove(h, k, 0, 0)
    BY <1>3, <1>4, <1>5, <1>8, <1>9 DEF OwnMove, Own, Is
  <1>11. t.fs = Update(s.fs, i, 0) /\ t.itable = SetLinks(Visited(i), i, 0)
    BY <1>1, <1>2, NodeParts DEF CreateUndo
  <1>12. /\ TableOk(t.itable, t.fs) /\ t.fs \in [Inums -> Inodes] /\ t.itable[i].valid
         /\ \A j \in Inums : t.itable[j].ref = s.itable[j].ref /\ t.itable[j].lock = s.itable[j].lock
         /\ \A j \in Inums : (s.itable[j].valid => t.itable[j].valid)
                             /\ (t.itable[j].valid # s.itable[j].valid => j = i)
         /\ \A j \in Inums : t.fs[j].type = s.fs[j].type /\ t.fs[j].ent = s.fs[j].ent
                             /\ t.fs[j].nlink = IF j = i THEN 0 ELSE s.fs[j].nlink
    BY <1>3, <1>11, RelinkFacts, NodeConstants
  <1>13. t.fs = s.fs
    <2>1. ASSUME NEW j \in Inums PROVE t.fs[j] = s.fs[j]
      <3>1. t.fs[j] \in Inodes /\ s.fs[j] \in Inodes /\ t.fs[j].nlink = s.fs[j].nlink
        BY <1>3, <1>5, <1>12
      <3> QED BY <1>12, <3>1 DEF Inodes
    <2> QED BY <1>5, <1>12, <2>1
  <1>14. TableShift(s, t, p, r, 0)
    <2>1. LockOf(r) = d /\ LockOf(s.l[p]) = d
      BY <1>1, <1>3, <1>9
    <2>2. \A j \in Inums : s.itable[j].ref \in Nat /\ Is(0, j) = 0
      BY <1>5 DEF Slots, Is
    <2> QED BY <1>3, <1>12, <2>1, <2>2 DEF TableShift
  <1>15. /\ \E rank \in [Inums -> Nat] : Tree(t.fs, Dir(t), Ent(t), rank)
         /\ \A j \in Inums : t.fs[j].nlink = Count(Ent(t), j) + Count(Extra(t), j)
    <2>1. SameLinks(s.l[p], t.l[p])
      BY <1>1, <1>3, <1>6, <1>7, <1>9 DEF SameLinks
    <2>2. Cut(t) = Cut(s) /\ Extra(t) = Extra(s)
      BY <1>7, <2>1, CutSame
    <2>3. Dir(t) = Dir(s) /\ Ent(t) = Ent(s)
      BY <1>13, <2>2 DEF Dir, Ent
    <2> QED BY <1>13, <2>2, <2>3 DEF Coherent
  <1>16. Knows(t, p)
    <2>1. InControl(r)
      BY <1>3, <1>6, <1>9 DEF InControl, OtherStages, Rets
    <2> QED BY <1>6, <1>7, <1>9, <2>1, KnowsPlain
  <1>17. ASSUME NEW j \in Inums, t.fs[j].nlink = 0, s.fs[j].nlink # 0 \/ Alone(s.l[p], j)
         PROVE  t.itable[j].ref > 0 /\ t.itable[j].valid
    <2>1. j = i
      BY <1>1, <1>2, <1>13, <1>17 DEF Alone
    <2> QED BY <1>3, <1>12, <2>1
  <1>18. /\ r.pc \notin {"newip", "drop", "ifree"} /\ s.l[p].pc \notin {"drop", "ifree"}
         /\ \A j \in Inums :
              /\ t.fs[j].type = s.fs[j].type /\ (t.fs[j].type # "dir" => t.fs[j].ent = s.fs[j].ent)
              /\ t.fs[j] # s.fs[j] => Reaches(s, p, j) /\ s.itable[j].lock \in {p, None}
    BY <1>1, <1>2, <1>6, <1>13
  <1> QED BY <1>6, <1>7, <1>8, <1>10, <1>12, <1>14, <1>15, <1>16, <1>17, <1>18, ChangeStep

\* The new inode has its link, its ".." and its entry.
MadeChild(F, d, n, m, i, u) == Entered(Entered(Update(Update(F, i, 1), d, n), d, m, i), i, UP, u)

\* What create() makes of the in-memory inodes and of the disk
LEMMA CreatedFacts ==
  ASSUME NEW T, NEW F, TableOk(T, F), F \in [Inums -> Inodes], NEW i \in Inums, NEW d \in Inums, i # d,
         NEW n \in 0 .. NLINK_MAX, NEW m \in Names, NEW u \in 0 .. NINODES,
         NEW G, G = MadeChild(F, d, n, m, i, u), NEW U, U = Unlocked(SetLinks(SetLinks(T, i, 1), d, n), d)
  PROVE  /\ TableOk(U, G) /\ G \in [Inums -> Inodes]
         /\ \A j \in Inums : U[j].ref = T[j].ref /\ U[j].valid = T[j].valid
                             /\ U[j].lock = IF j = d THEN None ELSE T[j].lock
         /\ \A j \in Inums : j # i /\ j # d => G[j] = F[j]
         /\ \A j \in Inums : G[j].type = F[j].type /\ G[j].nlink = IF j = i THEN 1 ELSE IF j = d THEN n ELSE F[j].nlink
         /\ G[d].ent[m] = i /\ \A x \in Entries : x # m => G[d].ent[x] = F[d].ent[x]
         /\ G[i].ent[UP] = u /\ \A x \in Names : G[i].ent[x] = F[i].ent[x]
  <1>1. PICK U1, U2, G1, G2, G3 : /\ U1 = SetLinks(T, i, 1) /\ U2 = SetLinks(U1, d, n)
                                  /\ G1 = Update(F, i, 1) /\ G2 = Update(G1, d, n) /\ G3 = Entered(G2, d, m, i)
    OBVIOUS
  <1>2. 1 \in 0 .. NLINK_MAX /\ i \in 0 .. NINODES /\ m \in Entries /\ UP \in Entries /\ m # UP
    BY NodeConstants
  <1>3. /\ TableOk(U1, G1) /\ G1 \in [Inums -> Inodes]
        /\ \A j \in Inums : U1[j].ref = T[j].ref /\ U1[j].lock = T[j].lock /\ U1[j].valid = T[j].valid
        /\ \A j \in Inums : j # i => G1[j] = F[j]
        /\ \A j \in Inums : G1[j].type = F[j].type /\ G1[j].ent = F[j].ent
                            /\ G1[j].nlink = IF j = i THEN 1 ELSE F[j].nlink
    BY <1>1, <1>2, LinkedFacts
  <1>4. /\ TableOk(U2, G2) /\ G2 \in [Inums -> Inodes]
        /\ \A j \in Inums : U2[j].ref = U1[j].ref /\ U2[j].lock = U1[j].lock /\ U2[j].valid = U1[j].valid
        /\ \A j \in Inums : j # d => G2[j] = G1[j]
        /\ \A j \in Inums : G2[j].type = G1[j].type /\ G2[j].ent = G1[j].ent
                            /\ G2[j].nlink = IF j = d THEN n ELSE G1[j].nlink
    <2>1. TableOk(U1, G1) /\ G1 \in [Inums -> Inodes]
      BY <1>3
    <2> QED BY <1>1, <2>1, LinkedFacts
  <1>5. /\ G3 \in [Inums -> Inodes]
        /\ \A j \in Inums : j # d => G3[j] = G2[j]
        /\ \A j \in Inums : G3[j].type = G2[j].type /\ G3[j].nlink = G2[j].nlink
        /\ G3[d].ent[m] = i /\ \A x \in Entries : x # m => G3[d].ent[x] = G2[d].ent[x]
    <2>1. G2 \in [Inums -> Inodes] /\ m \in Entries /\ i \in 0 .. NINODES /\ G3 = Entered(G2, d, m, i)
      BY Zenon, <1>1, <1>2, <1>4
    <2> QED BY ONLY <2>1, d \in Inums, EnteredFacts
  <1>6. /\ G \in [Inums -> Inodes]
        /\ \A j \in Inums : j # i => G[j] = G3[j]
        /\ \A j \in Inums : G[j].type = G3[j].type /\ G[j].nlink = G3[j].nlink
        /\ G[i].ent[UP] = u /\ \A x \in Entries : x # UP => G[i].ent[x] = G3[i].ent[x]
    <2>1. G = Entered(G3, i, UP, u)
      BY <1>1 DEF MadeChild
    <2>2. G3 \in [Inums -> Inodes] /\ i \in Inums /\ UP \in Entries /\ u \in 0 .. NINODES
      BY <1>2, <1>5
    <2> QED BY ONLY <2>1, <2>2, EnteredFacts
  <1>7. \A j \in Inums : G[j].type = G2[j].type /\ G[j].nlink = G2[j].nlink
    BY <1>5, <1>6
  <1>8. TableOk(U2, G)
    BY <1>4, <1>7 DEF TableOk
  <1>9. /\ TableOk(U, G)
        /\ \A j \in Inums : U[j].ref = U2[j].ref /\ U[j].valid = U2[j].valid
                            /\ U[j].lock = IF j = d THEN None ELSE U2[j].lock
    <2>1. U = Unlocked(U2, d)
      BY <1>1
    <2>2. /\ TableOk(Unlocked(U2, d), G)
          /\ \A j \in Inums :
               /\ Unlocked(U2, d)[j].ref = U2[j].ref /\ Unlocked(U2, d)[j].valid = U2[j].valid
               /\ Unlocked(U2, d)[j].lock = IF j = d THEN None ELSE U2[j].lock
      BY ONLY <1>8, d \in Inums, UnlockedFacts
    <2> QED BY <2>1, <2>2
  <1>10. \A j \in Inums : U[j].ref = T[j].ref /\ U[j].valid = T[j].valid
                          /\ U[j].lock = IF j = d THEN None ELSE T[j].lock
    BY <1>3, <1>4, <1>9
  <1>11. \A j \in Inums : j # i /\ j # d => G[j] = F[j]
    BY <1>3, <1>4, <1>5, <1>6
  <1>12. \A j \in Inums : G[j].type = F[j].type /\ G[j].nlink = IF j = i THEN 1 ELSE IF j = d THEN n ELSE F[j].nlink
    BY <1>3, <1>4, <1>7
  <1>13. G[d].ent[m] = i /\ \A x \in Entries : x # m => G[d].ent[x] = F[d].ent[x]
    BY <1>3, <1>4, <1>5, <1>6
  <1>14. G[i].ent[UP] = u /\ \A x \in Names : G[i].ent[x] = F[i].ent[x]
    <2>1. \A x \in Names : x \in Entries /\ x # UP
      BY NodeConstants
    <2>2. G3[i] = G2[i] /\ G2[i].ent = F[i].ent
      BY <1>3, <1>4, <1>5
    <2> QED BY <1>6, <2>1, <2>2
  <1> QED BY <1>6, <1>9, <1>10, <1>11, <1>12, <1>13, <1>14

\* A new inode i is the entry m of the directory d.
NewEntry(F, G, d, m, i) ==
    /\ \A j \in Inums : j # i /\ j # d => G[j] = F[j]
    /\ \A j \in Inums : G[j].type = F[j].type
    /\ G[i].nlink = 1 /\ G[d].nlink = IF F[i].type = "dir" THEN F[d].nlink + 1 ELSE F[d].nlink
    /\ G[d].ent[m] = i /\ \A x \in Entries : x # m => G[d].ent[x] = F[d].ent[x]
    /\ G[i].ent[UP] = (IF F[i].type = "dir" THEN d ELSE 0) /\ \A x \in Names : G[i].ent[x] = 0

NewChild(s, d, m, i) ==
    /\ d \in Dir(s) /\ m \in Names /\ s.fs[d].ent[m] = 0
    /\ i \in Inums /\ i # d /\ s.fs[i].nlink = 0 /\ s.fs[i].ent = NoEntries /\ s.itable[i].lock = None

\* Nothing leads to an inode without links.
LEMMA NotNamed ==
  ASSUME NEW s, NEW up, Coherent(s, up), NEW i \in Inums, s.fs[i].nlink = 0, NEW e \in Dir(s), NEW n \in Entries
  PROVE  Ent(s)[<<e, n>>] # i /\ s.fs[e].ent[n] # i
  <1>1. Ent(s)[<<e, n>>] = s.fs[e].ent[n] /\ ~(0 > 0)
    BY EntFacts
  <1>2. s.fs[e].ent[n] # i
    BY <1>1, NamedIsLinked, NodeConstants
  <1> QED BY <1>1, <1>2

\* A new file has one link and one entry.
LEMMA NewFileCounted ==
  ASSUME NEW s, NEW t, NEW up, Coherent(s, up), NEW p \in Users, OnlyBy(s, t, p), SameLinks(s.l[p], t.l[p]),
         NEW d, NEW m, NEW i, NewChild(s, d, m, i), NewEntry(s.fs, t.fs, d, m, i), s.fs[i].type # "dir"
  PROVE  Counted(t)
  <1>1. /\ d \in Dir(s) /\ d \in Inums /\ m \in Names /\ m \in Entries /\ m # UP /\ s.fs[d].ent[m] = 0
        /\ i \in Inums /\ i # d /\ s.fs[i].nlink = 0 /\ s.fs[i].ent = NoEntries /\ i # 0
    BY EntFacts, NodeConstants DEF NewChild
  <1>2. /\ \A j \in Inums : j # i /\ j # d => t.fs[j] = s.fs[j]
        /\ \A j \in Inums : t.fs[j].type = s.fs[j].type
        /\ t.fs[i].nlink = 1 /\ t.fs[d].nlink = s.fs[d].nlink
        /\ t.fs[d].ent[m] = i /\ \A x \in Entries : x # m => t.fs[d].ent[x] = s.fs[d].ent[x]
        /\ t.fs[i].ent[UP] = 0 /\ \A x \in Names : t.fs[i].ent[x] = 0
    BY DEF NewEntry
  <1>3. Cut(t) = Cut(s) /\ Extra(t) = Extra(s)
    BY CutSame
  <1>4. Dir(t) = Dir(s)
    <2>1. ASSUME NEW e \in Inums PROVE e \in Dir(t) <=> e \in Dir(s)
      <3>1. CASE e = i
        BY <1>2, <3>1 DEF Dir, InTree
      <3>2. CASE e # i
        BY <1>1, <1>2, <1>3, <3>2 DEF Dir, InTree
      <3> QED BY <3>1, <3>2
    <2> QED BY <2>1, EntFacts
  <1>5. /\ Ent(s)[<<d, m>>] = 0 /\ Ent(t)[<<d, m>>] = i
        /\ \A q \in Inums \X Entries : q # <<d, m>> => Ent(t)[q] = Ent(s)[q]
    <2>1. Ent(s)[<<d, m>>] = 0
      BY <1>1, EntFacts
    <2>2. Ent(t)[<<d, m>>] = i
      <3>1. d \in Dir(t)
        BY <1>1, <1>4
      <3> QED BY <1>1, <1>2, <3>1, EntFacts
    <2>3. ASSUME NEW e \in Inums, NEW x \in Entries, <<e, x>> # <<d, m>> PROVE Ent(t)[<<e, x>>] = Ent(s)[<<e, x>>]
      <3>1. e # d \/ x # m
        BY <2>3
      <3>2. s.fs[i].ent[x] = 0 /\ t.fs[i].ent[x] = 0
        BY <1>1, <1>2, NodeConstants DEF NoEntries
      <3>3. t.fs[e].ent[x] = s.fs[e].ent[x]
        BY <1>2, <3>1, <3>2
      <3> QED BY <1>4, <3>3, EntSame
    <2>4. \A q \in Inums \X Entries : q = <<q[1], q[2]>> /\ q[1] \in Inums /\ q[2] \in Entries
      OBVIOUS
    <2> QED BY <2>1, <2>2, <2>3, <2>4
  <1>6. PICK rank \in [Inums -> Nat] : Tree(s.fs, Dir(s), Ent(s), rank)
    BY DEF Coherent
  <1>7. Tree(t.fs, Dir(t), Ent(t), rank)
    <2>1. PICK A, g, h : A = Dir(s) /\ g = Ent(s) /\ h = Ent(t)
      OBVIOUS
    <2>2. A \subseteq Inums /\ \A e \in A : s.fs[e].type = "dir"
      BY <2>1, EntFacts
    <2>3. \A e \in A, x \in Entries : (e = d /\ x = m) \/ h[<<e, x>>] = g[<<e, x>>]
      <3>1. ASSUME NEW e \in A, NEW x \in Entries, ~(e = d /\ x = m) PROVE h[<<e, x>>] = g[<<e, x>>]
        <4>1. <<e, x>> # <<d, m>> /\ <<e, x>> \in Inums \X Entries
          BY <2>2, <3>1
        <4> QED BY <1>5, <2>1, <4>1
      <3> QED BY Zenon, <3>1
    <2>4. /\ g[<<d, m>>] = 0 \/ s.fs[g[<<d, m>>]].type # "dir"
          /\ h[<<d, m>>] = 0 \/ t.fs[h[<<d, m>>]].type # "dir"
      BY <1>1, <1>2, <1>5, <2>1
    <2>5. \A e \in Inums \ A, x \in Names : t.fs[e].ent[x] = 0
      BY <1>1, <1>2, <2>1, OutOfTree
    <2>6. \A j \in Inums : t.fs[j].type = s.fs[j].type
      BY <1>2
    <2>7. Tree(s.fs, A, g, rank) /\ d \in A /\ m \in Names
      BY <1>1, <1>6, <2>1
    <2>8. Tree(t.fs, A, h, rank)
      BY ONLY <2>2, <2>3, <2>4, <2>5, <2>6, <2>7, TreeFile
    <2> QED BY <1>4, <2>1, <2>8
  <1>8. ASSUME NEW j \in Inums PROVE t.fs[j].nlink = Count(Ent(t), j) + Count(Extra(t), j)
    <2>1. PICK a, b, a2 : a = Count(Ent(s), j) /\ b = Count(Extra(s), j) /\ a2 = Count(Ent(t), j)
      OBVIOUS
    <2>2. a2 = a - Is(0, j) + Is(i, j)
      BY <1>1, <1>5, <2>1, EntryCount
    <2>3. s.fs[j].nlink = a + b
      BY <2>1 DEF Coherent
    <2>4. DOMAIN Ent(s) = Inums \X Entries /\ DOMAIN Extra(s) = Users
      BY EntFacts DEF Extra
    <2>5. a \in Nat /\ b \in Nat
      BY <2>1, <2>4, CountNat, NodeConstants
    <2>6. Is(0, j) = 0 /\ Is(i, j) = IF j = i THEN 1 ELSE 0
      BY NodeConstants DEF Is
    <2>7. t.fs[j].nlink = IF j = i THEN 1 ELSE s.fs[j].nlink
      BY <1>2
    <2>8. t.fs[j].nlink = a2 + b
      BY <1>1, <2>2, <2>3, <2>5, <2>6, <2>7
    <2> QED BY <1>3, <2>1, <2>8
  <1> QED BY <1>7, <1>8 DEF Counted

\* A new directory has one link and one entry, and its parent one link more
\* for its "..".
LEMMA NewDirCounted ==
  ASSUME NEW s, NEW t, NEW up, Coherent(s, up), NEW p \in Users, OnlyBy(s, t, p), SameLinks(s.l[p], t.l[p]),
         NEW d, NEW m, NEW i, NewChild(s, d, m, i), NewEntry(s.fs, t.fs, d, m, i), s.fs[i].type = "dir"
  PROVE  Counted(t)
  <1>1. /\ d \in Dir(s) /\ d \in Inums /\ m \in Names /\ m \in Entries /\ m # UP /\ s.fs[d].ent[m] = 0
        /\ i \in Inums /\ i # d /\ s.fs[i].nlink = 0 /\ s.fs[i].ent = NoEntries /\ i # 0 /\ i \notin Dir(s)
    <2>1. i \in Dir(s) => s.fs[i].nlink > 0
      BY EntFacts
    <2>2. s.fs[i].nlink = 0 /\ ~(0 > 0)
      BY DEF NewChild
    <2> QED BY <2>1, <2>2, EntFacts, NodeConstants DEF NewChild
  <1>2. /\ \A j \in Inums : j # i /\ j # d => t.fs[j] = s.fs[j]
        /\ \A j \in Inums : t.fs[j].type = s.fs[j].type
        /\ t.fs[i].nlink = 1 /\ t.fs[d].nlink = s.fs[d].nlink + 1
        /\ t.fs[d].ent[m] = i /\ \A x \in Entries : x # m => t.fs[d].ent[x] = s.fs[d].ent[x]
        /\ t.fs[i].ent[UP] = d /\ \A x \in Names : t.fs[i].ent[x] = 0
    BY DEF NewEntry
  <1>3. Cut(t) = Cut(s) /\ Extra(t) = Extra(s)
    BY CutSame
  <1>4. i \notin Cut(s)
    <2>1. ASSUME NEW q \in Users, LockOf(s.l[q]) = i PROVE FALSE
      <3>1. Slot(s, i) /\ s.itable[i].lock = None
        BY <1>1 DEF Coherent, NewChild
      <3> QED BY <2>1, <3>1, NodeConstants DEF Slot
    <2> QED BY <2>1, CutIsLocked
  <1>5. Dir(t) = Dir(s) \cup {i}
    <2>1. ASSUME NEW e \in Inums PROVE e \in Dir(t) <=> e \in Dir(s) \cup {i}
      <3>1. CASE e = i
        <4>1. t.fs[i].type = "dir" /\ t.fs[i].nlink > 0 /\ i \notin Cut(t)
          BY <1>1, <1>2, <1>3, <1>4
        <4> QED BY <3>1, <4>1 DEF Dir, InTree
      <3>2. CASE e = d
        <4>1. s.fs[d].type = "dir" /\ s.fs[d].nlink > 0 /\ s.fs[d].nlink \in Nat /\ d \notin Cut(s)
          <5>1. s.fs[d].nlink \in Nat
            <6>1. s.fs[d] \in Inodes
              BY <1>1 DEF Coherent, NodeStates
            <6> QED BY <6>1, NodeConstants DEF Inodes
          <5> QED BY <1>1, <5>1, EntFacts DEF Dir, InTree
        <4>2. t.fs[d].type = "dir" /\ t.fs[d].nlink > 0 /\ d \notin Cut(t)
          BY <1>1, <1>2, <1>3, <4>1
        <4> QED BY <1>1, <3>2, <4>2 DEF Dir, InTree
      <3>3. CASE e # i /\ e # d
        BY <1>2, <1>3, <3>3 DEF Dir, InTree
      <3> QED BY <3>1, <3>2, <3>3
    <2> QED BY <1>1, <2>1, EntFacts
  <1>6. /\ <<d, m>> \in Inums \X Entries /\ <<i, UP>> \in Inums \X Entries /\ <<d, m>> # <<i, UP>>
        /\ Ent(s)[<<d, m>>] = 0 /\ Ent(t)[<<d, m>>] = i /\ Ent(s)[<<i, UP>>] = 0 /\ Ent(t)[<<i, UP>>] = d
        /\ \A q \in Inums \X Entries : q # <<d, m>> /\ q # <<i, UP>> => Ent(t)[q] = Ent(s)[q]
        /\ \A x \in Names : Ent(t)[<<i, x>>] = 0
    <2>1. Ent(s)[<<d, m>>] = 0
      BY <1>1, EntFacts
    <2>2. Ent(t)[<<d, m>>] = i
      <3>1. d \in Dir(t)
        BY <1>1, <1>5
      <3> QED BY <1>1, <1>2, <3>1, EntFacts
    <2>3. UP \in Entries /\ \A x \in Names : x \in Entries /\ x # UP
      BY NodeConstants
    <2>4. \A x \in Entries : Ent(s)[<<i, x>>] = 0
      BY <1>1, EntFacts
    <2>5. \A x \in Entries : Ent(t)[<<i, x>>] = t.fs[i].ent[x]
      <3>1. i \in Dir(t)
        BY <1>5
      <3> QED BY <3>1, EntFacts
    <2>6. ASSUME NEW e \in Inums, NEW x \in Entries, <<e, x>> # <<d, m>>, <<e, x>> # <<i, UP>>
          PROVE  Ent(t)[<<e, x>>] = Ent(s)[<<e, x>>]
      <3>1. (e # d \/ x # m) /\ (e # i \/ x # UP)
        BY <2>6
      <3>2. CASE e = i
        <4>1. x \in Names
          BY <3>1, <3>2, NodeConstants
        <4> QED BY <1>2, <2>4, <2>5, <3>2, <4>1
      <3>3. CASE e # i
        <4>1. t.fs[e].ent[x] = s.fs[e].ent[x]
          BY <1>2, <3>1, <3>3
        <4> QED BY <1>5, <3>3, <4>1, EntSame
      <3> QED BY <3>2, <3>3
    <2>7. \A q \in Inums \X Entries : q = <<q[1], q[2]>> /\ q[1] \in Inums /\ q[2] \in Entries
      OBVIOUS
    <2>8. \A q \in Inums \X Entries : q # <<d, m>> /\ q # <<i, UP>> => Ent(t)[q] = Ent(s)[q]
      BY <2>6, <2>7
    <2>9. <<d, m>> \in Inums \X Entries /\ <<i, UP>> \in Inums \X Entries /\ <<d, m>> # <<i, UP>>
      BY <1>1, <2>3
    <2>10. \A x \in Names : Ent(t)[<<i, x>>] = 0
      BY <1>2, <2>3, <2>5
    <2> QED BY <1>2, <2>1, <2>2, <2>3, <2>4, <2>5, <2>8, <2>9, <2>10
  <1>7. PICK rank \in [Inums -> Nat] : Tree(s.fs, Dir(s), Ent(s), rank)
    BY DEF Coherent
  <1>8. \E rank2 \in [Inums -> Nat] : Tree(t.fs, Dir(t), Ent(t), rank2)
    <2>1. PICK A, B, g, h : A = Dir(s) /\ B = A \cup {i} /\ g = Ent(s) /\ h = Ent(t)
      OBVIOUS
    <2>2. A \subseteq Inums /\ i \in Inums \ A /\ d \in A /\ m \in Names
      BY <1>1, <2>1, EntFacts
    <2>3. \A e \in A, x \in Entries : (e = d /\ x = m) \/ h[<<e, x>>] = g[<<e, x>>]
      <3>1. ASSUME NEW e \in A, NEW x \in Entries, ~(e = d /\ x = m) PROVE h[<<e, x>>] = g[<<e, x>>]
        <4>1. <<e, x>> # <<d, m>> /\ <<e, x>> # <<i, UP>> /\ <<e, x>> \in Inums \X Entries
          BY <2>2, <3>1
        <4> QED BY <1>6, <2>1, <4>1
      <3> QED BY Zenon, <3>1
    <2>4. \A e \in A, x \in Entries : g[<<e, x>>] # i
      BY Zenon, <1>1, <2>1, NotNamed
    <2>5. \A e \in Inums \ B, x \in Names : t.fs[e].ent[x] = 0
      <3>1. ASSUME NEW e \in Inums \ B, NEW x \in Names PROVE t.fs[e].ent[x] = 0
        <4>1. e # i /\ e # d /\ e \in Inums \ Dir(s)
          BY <2>1, <2>2, <3>1
        <4>2. t.fs[e] = s.fs[e]
          BY <1>2, <4>1
        <4> QED BY <4>1, <4>2, OutOfTree
      <3> QED BY <3>1
    <2>6. \A j \in Inums : t.fs[j].type = s.fs[j].type
      BY <1>2
    <2>7. Tree(s.fs, A, g, rank) /\ g[<<d, m>>] = 0 /\ h[<<d, m>>] = i /\ h[<<i, UP>>] = d
          /\ B = A \cup {i} /\ rank \in [Inums -> Nat]
      BY <1>6, <1>7, <2>1
    <2>8. \A x \in Names : h[<<i, x>>] = 0
      BY <1>6, <2>1
    <2>9. Attached(s.fs, A, g, t.fs, B, h, d, m, i)
      BY <2>2, <2>3, <2>4, <2>5, <2>6, <2>7, <2>8 DEF Attached
    <2>10. \E rank2 \in [Inums -> Nat] : Tree(t.fs, B, h, rank2)
      BY <2>7, <2>9, TreeAttach
    <2> QED BY <1>5, <2>1, <2>10
  <1>9. ASSUME NEW j \in Inums PROVE t.fs[j].nlink = Count(Ent(t), j) + Count(Extra(t), j)
    <2>1. PICK a, b, a2, x, y : /\ a = Count(Ent(s), j) /\ b = Count(Extra(s), j) /\ a2 = Count(Ent(t), j)
                                /\ x = <<d, m>> /\ y = <<i, UP>>
      OBVIOUS
    <2>2. a2 = a - Is(0, j) + Is(i, j) - Is(0, j) + Is(d, j)
      <3>1. /\ x \in Inums \X Entries /\ y \in Inums \X Entries /\ x # y
            /\ Ent(s)[x] = 0 /\ Ent(t)[x] = i /\ Ent(s)[y] = 0 /\ Ent(t)[y] = d
            /\ \A q \in Inums \X Entries : q # x /\ q # y => Ent(t)[q] = Ent(s)[q]
        BY <1>6, <2>1
      <3>2. Count(Ent(t), j) = Count(Ent(s), j) - Is(0, j) + Is(i, j) - Is(0, j) + Is(d, j)
        BY ONLY <3>1, EntriesCount
      <3> QED BY <2>1, <3>2
    <2>3. s.fs[j].nlink = a + b
      BY <2>1 DEF Coherent
    <2>4. DOMAIN Ent(s) = Inums \X Entries /\ DOMAIN Extra(s) = Users
      BY EntFacts DEF Extra
    <2>5. a \in Nat /\ b \in Nat
      BY <2>1, <2>4, CountNat, NodeConstants
    <2>6. Is(0, j) = 0 /\ (Is(i, j) = IF j = i THEN 1 ELSE 0) /\ (Is(d, j) = IF j = d THEN 1 ELSE 0)
      BY NodeConstants DEF Is
    <2>7. t.fs[j].nlink = IF j = i THEN 1 ELSE IF j = d THEN s.fs[j].nlink + 1 ELSE s.fs[j].nlink
      BY <1>2
    <2>8. t.fs[j].nlink = a2 + b
      BY <1>1, <2>2, <2>3, <2>5, <2>6, <2>7
    <2> QED BY <1>3, <2>1, <2>8
  <1> QED BY <1>8, <1>9 DEF Counted

\* create() links the new inode, and its directory gets the entry.
LEMMA CreateLinksKeeps ==
  ASSUME NEW s, NEW t, NodeStep(s, t), booted \in BOOLEAN, Coherent(s, booted), NEW p \in Users, CreateLinks(p)
  PROVE  Coherent(t, booted)
  <1>1. PICK o, d, i, m, n, u, r :
           /\ o = s.l[p] /\ d = o.ip /\ i = o.other /\ m = Head(o.rest)
           /\ n = IF o.call = "mkdir" THEN s.itable[d].nlink + 1 ELSE s.itable[d].nlink
           /\ u = IF o.call = "mkdir" THEN d ELSE 0
           /\ r = PutThen(o, d, "created")
    OBVIOUS
  <1>2. o.pc = "newip" /\ CanLock(i) /\ l[p] = o
    BY Zenon, <1>1, ActorFacts DEF CreateLinks
  <1>3. /\ o \in Locals /\ Stage(o) = "newip" /\ InControl(o) /\ o.call \in {"create", "mkdir"}
        /\ d \in Inums /\ i \in Inums /\ i # d
        /\ s.fs[i].type = IF o.call = "mkdir" THEN "dir" ELSE "file"
    <2>1. o = s.l[p] /\ o.pc = "newip" /\ CanLock(o.other) /\ d = o.ip /\ i = o.other /\ m = Head(o.rest)
      BY Zenon, <1>1, <1>2
    <2> QED BY ONLY NodeStep(s, t), Coherent(s, booted), p \in Users, <2>1, NewipFacts
  <1>4. /\ d \in Dir(s) /\ m \in Names /\ s.fs[d].ent[m] = 0 /\ s.fs[i].nlink = 0 /\ s.fs[i].ent = NoEntries
        /\ o.call = "mkdir" => s.fs[d].nlink < NLINK_MAX
    BY SMTT(30), <1>1, <1>2, NewipFacts
  <1>5. /\ s.itable[i].lock = None /\ s.itable[i].ref > 0 /\ Reaches(s, p, i) /\ Reaches(s, p, d)
        /\ s.itable[d].lock = p /\ s.itable[d].valid /\ LockOf(o) = d /\ LinkOf(o) = 0
    BY <1>1, <1>2, NewipFacts
  <1>6. /\ Of(s, p).cwd = s.cwd[p] /\ Of(s, p).file = s.file[p] /\ Of(s, p).ip = d /\ Of(s, p).other = i
        /\ Of(s, p).victim = 0
    BY <1>1, <1>2, NewipFacts
  <1>7. d \in 0 .. NINODES /\ i \in 0 .. NINODES /\ u \in 0 .. NINODES /\ 0 \notin Inums
        /\ s.fs \in [Inums -> Inodes] /\ s.itable \in [Inums -> Slots] /\ TableOk(s.itable, s.fs)
    BY <1>1, <1>3, ActorFacts, NodeConstants DEF TableOk
  <1>8. /\ n \in 0 .. NLINK_MAX /\ n > 0 /\ s.fs[d].nlink \in Nat
        /\ n = IF o.call = "mkdir" THEN s.fs[d].nlink + 1 ELSE s.fs[d].nlink
    <2>1. s.fs[d].nlink \in 0 .. NLINK_MAX
      BY <1>3, <1>7 DEF Inodes
    <2>2. s.itable[d].nlink = s.fs[d].nlink /\ s.fs[d].nlink > 0
      BY <1>3, <1>4, <1>5, <1>7, EntFacts DEF TableOk
    <2>3. n = IF o.call = "mkdir" THEN s.fs[d].nlink + 1 ELSE s.fs[d].nlink
      BY <1>1, <2>2
    <2>4. PICK a : a = s.fs[d].nlink
      OBVIOUS
    <2>5. a \in 0 .. NLINK_MAX /\ a > 0 /\ (o.call = "mkdir" => a < NLINK_MAX)
      BY <1>4, <2>1, <2>2, <2>4
    <2>6. CASE o.call = "mkdir"
      <3>1. n = a + 1
        BY <2>3, <2>4, <2>6
      <3> QED BY <2>3, <2>4, <2>5, <2>6, <3>1, NodeConstants
    <2>7. CASE o.call # "mkdir"
      <3>1. n = a
        BY <2>3, <2>4, <2>7
      <3> QED BY <2>3, <2>4, <2>5, <2>7, <3>1, NodeConstants
    <2> QED BY <2>6, <2>7
  <1>9. /\ r \in Locals /\ r.pc = "put" /\ Stage(r) = "created" /\ r.victim = d /\ r.other = i /\ r.call = o.call
        /\ r.ret = "created"
    <2>1. "created" \in Labels
      BY DEF Labels
    <2> QED BY <1>1, <1>3, <1>7, <2>1, PutThenFacts
  <1>10. /\ Becomes(s, t, p, s.cwd[p], s.file[p], r) /\ OnlyBy(s, t, p) /\ t.l[p] = r
    <2>1. Become(p, r) /\ cwd' = cwd /\ file' = file
      BY Zenon, <1>1, <1>2 DEF CreateLinks, Unchanged
    <2> QED BY <1>1, <2>1, StepFacts
  <1>11. PICK h, k : h = Of(s, p) /\ k = Holding(s.cwd[p], s.file[p], r)
    OBVIOUS
  <1>12. /\ k.cwd = s.cwd[p] /\ k.file = s.file[p] /\ k.ip = 0 /\ k.other = i /\ k.victim = d
         /\ LockOf(r) = i /\ LinkOf(r) = 0 /\ ~Linking(r)
    BY <1>9, <1>11, HoldsOther
  <1>13. OwnMove(h, k, 0, 0)
    BY <1>3, <1>6, <1>7, <1>11, <1>12 DEF OwnMove, Own, Is
  <1>14. PICK T : T = Locked(s.itable, p, i)
    OBVIOUS
  <1>15. /\ TableOk(T, s.fs)
         /\ \A j \in Inums :
               /\ T[j].ref = s.itable[j].ref
               /\ T[j].lock = IF j = i THEN p ELSE s.itable[j].lock
               /\ T[j].valid <=> s.itable[j].valid \/ j = i
    BY <1>3, <1>7, <1>14, LockedFacts, NodeParts
  <1>16. /\ t.fs = MadeChild(s.fs, d, n, m, i, u)
         /\ t.itable = Unlocked(SetLinks(SetLinks(T, i, 1), d, n), d)
    <2>1. fs' = [Update(Update(fs, i, 1), d, n) EXCEPT ![d].ent[m] = i, ![i].ent[UP] = u]
      BY Zenon, <1>1, <1>2, NodeParts DEF CreateLinks, Name
    <2>2. itable' = Unlocked(SetLinks(SetLinks(Locked(itable, p, i), i, 1), d, n), d)
      BY Zenon, <1>1, <1>2, NodeParts DEF CreateLinks
    <2> QED BY <1>14, <2>1, <2>2, NodeParts DEF MadeChild, Entered
  <1>17. /\ TableOk(t.itable, t.fs) /\ t.fs \in [Inums -> Inodes]
         /\ \A j \in Inums : t.itable[j].ref = T[j].ref /\ t.itable[j].valid = T[j].valid
                             /\ t.itable[j].lock = IF j = d THEN None ELSE T[j].lock
         /\ \A j \in Inums : j # i /\ j # d => t.fs[j] = s.fs[j]
         /\ \A j \in Inums : t.fs[j].type = s.fs[j].type
                             /\ t.fs[j].nlink = IF j = i THEN 1 ELSE IF j = d THEN n ELSE s.fs[j].nlink
         /\ t.fs[d].ent[m] = i /\ \A x \in Entries : x # m => t.fs[d].ent[x] = s.fs[d].ent[x]
         /\ t.fs[i].ent[UP] = u /\ \A x \in Names : t.fs[i].ent[x] = s.fs[i].ent[x]
    <2>1. TableOk(T, s.fs) /\ s.fs \in [Inums -> Inodes] /\ i \in Inums /\ d \in Inums /\ i # d
      BY <1>3, <1>7, <1>15
    <2>2. n \in 0 .. NLINK_MAX /\ m \in Names /\ u \in 0 .. NINODES
      BY <1>4, <1>7, <1>8
    <2> QED BY ONLY <1>16, <2>1, <2>2, CreatedFacts
  <1>18. /\ \A j \in Inums : t.itable[j].ref = s.itable[j].ref
         /\ \A j \in Inums : t.itable[j].lock = IF j = d THEN None ELSE IF j = i THEN p ELSE s.itable[j].lock
         /\ \A j \in Inums : (s.itable[j].valid => t.itable[j].valid)
                             /\ (t.itable[j].valid # s.itable[j].valid => j = i)
         /\ t.itable[i].valid
    <2>1. \A j \in Inums : t.itable[j].ref = s.itable[j].ref
      BY <1>15, <1>17
    <2>2. \A j \in Inums : t.itable[j].lock = IF j = d THEN None ELSE IF j = i THEN p ELSE s.itable[j].lock
      BY <1>15, <1>17
    <2>3. \A j \in Inums : t.itable[j].valid \in BOOLEAN /\ s.itable[j].valid \in BOOLEAN /\ T[j].valid \in BOOLEAN
      BY <1>7, <1>15, <1>17 DEF TableOk, Slots
    <2>4. \A j \in Inums : t.itable[j].valid <=> s.itable[j].valid \/ j = i
      BY <1>15, <1>17
    <2> QED BY <1>3, <2>1, <2>2, <2>3, <2>4
  <1>19. TableShift(s, t, p, r, 0)
    <2>1. LockOf(r) = i /\ LockOf(s.l[p]) = d
      BY <1>1, <1>5, <1>12
    <2>2. \A j \in Inums : s.itable[j].ref \in Nat /\ Is(0, j) = 0
      BY <1>7 DEF Slots, Is
    <2> QED BY <1>3, <1>5, <1>18, <2>1, <2>2 DEF TableShift
  <1>20. Counted(t)
    <2>1. SameLinks(s.l[p], t.l[p])
      BY <1>1, <1>3, <1>5, <1>9, <1>10, <1>12 DEF SameLinks
    <2>2. NewChild(s, d, m, i)
      BY <1>3, <1>4, <1>5 DEF NewChild
    <2>3. NewEntry(s.fs, t.fs, d, m, i)
      <3>1. /\ u = IF s.fs[i].type = "dir" THEN d ELSE 0
            /\ n = IF s.fs[i].type = "dir" THEN s.fs[d].nlink + 1 ELSE s.fs[d].nlink
        BY <1>1, <1>3, <1>8
      <3>2. \A x \in Names : t.fs[i].ent[x] = 0
        BY <1>4, <1>17, NodeConstants DEF NoEntries
      <3> QED BY Zenon, <1>3, <1>17, <3>1, <3>2 DEF NewEntry
    <2> QED BY Zenon, <1>10, <2>1, <2>2, <2>3, NewFileCounted, NewDirCounted
  <1>21. Knows(t, p)
    <2>1. InControl(r)
      BY <1>3, <1>9, <1>12 DEF InControl, IpStages, Rets
    <2> QED BY <1>9, <1>10, <1>12, <2>1, KnowsPlain
  <1>22. ASSUME NEW j \in Inums, t.fs[j].nlink = 0, s.fs[j].nlink # 0 \/ Alone(s.l[p], j)
         PROVE  t.itable[j].ref > 0 /\ t.itable[j].valid
    <2>1. j # i /\ j # d
      BY <1>3, <1>8, <1>17, <1>22
    <2>2. ~Alone(s.l[p], j)
      BY <1>1, <1>2, <2>1 DEF Alone
    <2> QED BY <1>17, <1>22, <2>1, <2>2
  <1>23. /\ r.pc \notin {"newip", "drop", "ifree"} /\ s.l[p].pc \notin {"drop", "ifree"}
         /\ \A j \in Inums :
              /\ t.fs[j].type = s.fs[j].type /\ (t.fs[j].type # "dir" => t.fs[j].ent = s.fs[j].ent)
              /\ t.fs[j] # s.fs[j] => Reaches(s, p, j) /\ s.itable[j].lock \in {p, None}
    <2>1. r.pc \notin {"newip", "drop", "ifree"} /\ s.l[p].pc \notin {"drop", "ifree"}
      BY <1>1, <1>2, <1>9
    <2>2. s.fs[d].type = "dir"
      BY <1>4, EntFacts
    <2>3. s.fs[i].type # "dir" => t.fs[i].ent = s.fs[i].ent
      <3>1. ASSUME s.fs[i].type # "dir" PROVE t.fs[i].ent = s.fs[i].ent
        <4>1. u = 0
          BY <1>1, <1>3, <3>1
        <4>2. \A x \in Entries : t.fs[i].ent[x] = s.fs[i].ent[x]
          BY <1>4, <1>17, <4>1, NodeConstants DEF NoEntries
        <4>3. t.fs[i].ent \in [Entries -> 0 .. NINODES] /\ s.fs[i].ent \in [Entries -> 0 .. NINODES]
          BY <1>3, <1>7, <1>17 DEF Inodes
        <4> QED BY <4>2, <4>3
      <3> QED BY <3>1
    <2>4. ASSUME NEW j \in Inums
          PROVE  /\ t.fs[j].type = s.fs[j].type /\ (t.fs[j].type # "dir" => t.fs[j].ent = s.fs[j].ent)
                 /\ t.fs[j] # s.fs[j] => Reaches(s, p, j) /\ s.itable[j].lock \in {p, None}
      <3>1. CASE j = d
        BY <1>5, <1>17, <2>2, <3>1
      <3>2. CASE j = i
        BY <1>5, <1>17, <2>3, <3>2
      <3>3. CASE j # d /\ j # i
        BY <1>17, <3>3
      <3> QED BY <3>1, <3>2, <3>3
    <2> QED BY <2>1, <2>4
  <1> QED BY <1>9, <1>10, <1>11, <1>13, <1>17, <1>19, <1>20, <1>21, <1>22, <1>23, ChangeStep DEF Counted

\* The directory d loses its entry m, for the inode i; the link is not taken yet.
GoneEntry(F, G, d, m, i) ==
    /\ \A j \in Inums : j # d => G[j] = F[j]
    /\ \A j \in Inums : G[j].type = F[j].type
    /\ G[d].nlink = IF F[i].type = "dir" THEN F[d].nlink - 1 ELSE F[d].nlink
    /\ G[d].ent[m] = 0 /\ \A x \in Entries : x # m => G[d].ent[x] = F[d].ent[x]

GoneChild(s, d, m, i) == d \in Dir(s) /\ m \in Names /\ s.fs[d].ent[m] = i /\ i \in Inums /\ i # d

Unlinks(s, t, p, i) ==
    /\ OnlyBy(s, t, p)
    /\ Stage(s.l[p]) # "unlinkip" /\ Stage(t.l[p]) = "unlinkip" /\ t.l[p].other = i
    /\ LinkOf(s.l[p]) = 0 /\ LinkOf(t.l[p]) = i

\* A file that has lost an entry has one link too many, the one to be taken.
LEMMA GoneFileCounted ==
  ASSUME NEW s, NEW t, NEW up, Coherent(s, up), NEW p \in Users, NEW d, NEW m, NEW i, Unlinks(s, t, p, i),
         GoneChild(s, d, m, i), GoneEntry(s.fs, t.fs, d, m, i), s.fs[i].type # "dir"
  PROVE  Counted(t)
  <1>1. /\ d \in Dir(s) /\ d \in Inums /\ m \in Names /\ m \in Entries /\ m # UP /\ s.fs[d].ent[m] = i
        /\ i \in Inums /\ i # d /\ i # 0
    BY EntFacts, NodeConstants DEF GoneChild
  <1>2. /\ \A j \in Inums : j # d => t.fs[j] = s.fs[j]
        /\ \A j \in Inums : t.fs[j].type = s.fs[j].type
        /\ t.fs[d].nlink = s.fs[d].nlink
        /\ t.fs[d].ent[m] = 0 /\ \A x \in Entries : x # m => t.fs[d].ent[x] = s.fs[d].ent[x]
    BY DEF GoneEntry
  <1>3. Cut(t) = Cut(s) \cup {i}
    BY CutMoves DEF Unlinks
  <1>4. Dir(t) = Dir(s)
    <2>1. ASSUME NEW e \in Inums PROVE e \in Dir(t) <=> e \in Dir(s)
      <3>1. CASE e = i
        BY <1>2, <3>1 DEF Dir, InTree
      <3>2. CASE e # i
        BY <1>2, <1>3, <3>2 DEF Dir, InTree
      <3> QED BY <3>1, <3>2
    <2> QED BY <2>1, EntFacts
  <1>5. /\ Ent(s)[<<d, m>>] = i /\ Ent(t)[<<d, m>>] = 0
        /\ \A q \in Inums \X Entries : q # <<d, m>> => Ent(t)[q] = Ent(s)[q]
    <2>1. Ent(s)[<<d, m>>] = i
      BY <1>1, EntFacts
    <2>2. Ent(t)[<<d, m>>] = 0
      <3>1. d \in Dir(t)
        BY <1>1, <1>4
      <3> QED BY <1>1, <1>2, <3>1, EntFacts
    <2>3. ASSUME NEW e \in Inums, NEW x \in Entries, <<e, x>> # <<d, m>> PROVE Ent(t)[<<e, x>>] = Ent(s)[<<e, x>>]
      <3>1. e # d \/ x # m
        BY <2>3
      <3>2. t.fs[e].ent[x] = s.fs[e].ent[x]
        BY <1>2, <3>1
      <3> QED BY <1>4, <3>2, EntSame
    <2>4. \A q \in Inums \X Entries : q = <<q[1], q[2]>> /\ q[1] \in Inums /\ q[2] \in Entries
      OBVIOUS
    <2> QED BY <2>1, <2>2, <2>3, <2>4
  <1>6. PICK rank \in [Inums -> Nat] : Tree(s.fs, Dir(s), Ent(s), rank)
    BY DEF Coherent
  <1>7. Tree(t.fs, Dir(t), Ent(t), rank)
    <2>1. PICK A, g, h : A = Dir(s) /\ g = Ent(s) /\ h = Ent(t)
      OBVIOUS
    <2>2. A \subseteq Inums /\ \A e \in A : s.fs[e].type = "dir"
      BY <2>1, EntFacts
    <2>3. \A e \in A, x \in Entries : (e = d /\ x = m) \/ h[<<e, x>>] = g[<<e, x>>]
      <3>1. ASSUME NEW e \in A, NEW x \in Entries, ~(e = d /\ x = m) PROVE h[<<e, x>>] = g[<<e, x>>]
        <4>1. <<e, x>> # <<d, m>> /\ <<e, x>> \in Inums \X Entries
          BY <2>2, <3>1
        <4> QED BY <1>5, <2>1, <4>1
      <3> QED BY Zenon, <3>1
    <2>4. /\ g[<<d, m>>] = 0 \/ s.fs[g[<<d, m>>]].type # "dir"
          /\ h[<<d, m>>] = 0 \/ t.fs[h[<<d, m>>]].type # "dir"
      BY <1>1, <1>2, <1>5, <2>1
    <2>5. \A e \in Inums \ A, x \in Names : t.fs[e].ent[x] = 0
      BY <1>1, <1>2, <2>1, OutOfTree
    <2>6. \A j \in Inums : t.fs[j].type = s.fs[j].type
      BY <1>2
    <2>7. Tree(s.fs, A, g, rank) /\ d \in A /\ m \in Names
      BY <1>1, <1>6, <2>1
    <2>8. Tree(t.fs, A, h, rank)
      BY ONLY <2>2, <2>3, <2>4, <2>5, <2>6, <2>7, TreeFile
    <2> QED BY <1>4, <2>1, <2>8
  <1>8. ASSUME NEW j \in Inums PROVE t.fs[j].nlink = Count(Ent(t), j) + Count(Extra(t), j)
    <2>1. PICK a, b, a2, b2 : /\ a = Count(Ent(s), j) /\ b = Count(Extra(s), j)
                              /\ a2 = Count(Ent(t), j) /\ b2 = Count(Extra(t), j)
      OBVIOUS
    <2>2. a2 = a - Is(i, j) + Is(0, j)
      BY <1>1, <1>5, <2>1, EntryCount
    <2>3. b2 = b - Is(0, j) + Is(i, j)
      BY <2>1, ExtraMoves DEF Unlinks
    <2>4. s.fs[j].nlink = a + b
      BY <2>1 DEF Coherent
    <2>5. DOMAIN Ent(s) = Inums \X Entries /\ DOMAIN Extra(s) = Users
      BY EntFacts DEF Extra
    <2>6. a \in Nat /\ b \in Nat
      BY <2>1, <2>5, CountNat, NodeConstants
    <2>7. Is(0, j) \in Nat /\ Is(i, j) \in Nat
      BY DEF Is
    <2>8. a2 + b2 = a + b
      BY ONLY <2>2, <2>3, <2>6, <2>7
    <2>9. t.fs[j].nlink = s.fs[j].nlink
      BY <1>2
    <2> QED BY <2>1, <2>4, <2>8, <2>9
  <1> QED BY <1>7, <1>8 DEF Counted

\* Two entries change, at x from a to b and at y from c to e.
TwoEntries(s, t, x, y, a, b, c, e) ==
    /\ x \in Inums \X Entries /\ y \in Inums \X Entries /\ x # y
    /\ Ent(s)[x] = a /\ Ent(t)[x] = b /\ Ent(s)[y] = c /\ Ent(t)[y] = e
    /\ \A q \in Inums \X Entries : q # x /\ q # y => Ent(t)[q] = Ent(s)[q]

\* The same of two entries that change together
LEMMA TwoEntriesCount ==
  ASSUME NEW s, NEW t, NEW x, NEW y, NEW a, NEW b, NEW c, NEW e, TwoEntries(s, t, x, y, a, b, c, e), NEW i
  PROVE  Count(Ent(t), i) = Count(Ent(s), i) - Is(a, i) + Is(b, i) - Is(c, i) + Is(e, i)
  BY EntriesCount DEF TwoEntries

\* A directory that has lost its entry has one link too many, and its parent
\* one less for the ".." that is gone.
LEMMA GoneDirCounted ==
  ASSUME NEW s, NEW t, NEW up, Coherent(s, up), NEW p \in Users, NEW d, NEW m, NEW i, Unlinks(s, t, p, i),
         GoneChild(s, d, m, i), GoneEntry(s.fs, t.fs, d, m, i), s.fs[i].type = "dir",
         \A x \in Names : s.fs[i].ent[x] = 0
  PROVE  Counted(t)
  <1>1. /\ d \in Dir(s) /\ d \in Inums /\ m \in Names /\ m \in Entries /\ m # UP /\ s.fs[d].ent[m] = i
        /\ i \in Inums /\ i # d /\ i # 0 /\ d # 0 /\ UP \in Entries /\ \A x \in Names : x \in Entries /\ x # UP
    BY EntFacts, NodeConstants DEF GoneChild
  <1>2. /\ \A j \in Inums : j # d => t.fs[j] = s.fs[j]
        /\ \A j \in Inums : t.fs[j].type = s.fs[j].type
        /\ t.fs[d].nlink = s.fs[d].nlink - 1
        /\ t.fs[d].ent[m] = 0 /\ \A x \in Entries : x # m => t.fs[d].ent[x] = s.fs[d].ent[x]
    BY DEF GoneEntry
  <1>3. Cut(t) = Cut(s) \cup {i}
    BY CutMoves DEF Unlinks
  <1>4. PICK rank \in [Inums -> Nat] : Tree(s.fs, Dir(s), Ent(s), rank)
    BY DEF Coherent
  <1>5. PICK g : g = Ent(s)
    OBVIOUS
  <1>6. /\ DOMAIN g = Inums \X Entries /\ IsFiniteSet(DOMAIN g)
        /\ <<d, m>> \in DOMAIN g /\ <<i, UP>> \in DOMAIN g /\ <<d, m>> # <<i, UP>>
        /\ \A q \in Inums \X Entries : q = <<q[1], q[2]>> /\ q[1] \in Inums /\ q[2] \in Entries
    <2>1. DOMAIN g = Inums \X Entries
      BY <1>5, EntFacts
    <2>2. IsFiniteSet(DOMAIN g)
      BY <2>1, NodeConstants
    <2>3. <<d, m>> \in Inums \X Entries /\ <<i, UP>> \in Inums \X Entries /\ <<d, m>> # <<i, UP>>
      BY <1>1
    <2>4. \A q \in Inums \X Entries : q = <<q[1], q[2]>> /\ q[1] \in Inums /\ q[2] \in Entries
      OBVIOUS
    <2> QED BY <2>1, <2>2, <2>3, <2>4
  <1>7. g[<<d, m>>] = i /\ i \in Dir(s) /\ i # ROOTINO /\ g[<<i, UP>>] = d
    <2>1. g[<<d, m>>] = i
      BY <1>1, <1>5, EntFacts
    <2> QED BY <1>1, <1>4, <1>5, <2>1 DEF Tree
  <1>8. Count(g, d) > 1
    <2>1. PICK y \in DOMAIN g : g[y] = d /\ y # <<i, UP>>
      <3>1. CASE d = ROOTINO
        <4>1. g[<<ROOTINO, UP>>] = ROOTINO
          BY <1>4, <1>5 DEF Tree
        <4>2. <<d, UP>> \in DOMAIN g /\ <<d, UP>> # <<i, UP>>
          BY <1>1, <1>6
        <4> QED BY <3>1, <4>1, <4>2
      <3>2. CASE d # ROOTINO
        <4>1. \E e \in Dir(s) : g[<<d, UP>>] = e /\ \E n \in Names : g[<<e, n>>] = d
          BY <1>1, <1>4, <1>5, <3>2 DEF Tree
        <4>2. PICK e \in Dir(s), x \in Names : g[<<e, x>>] = d
          BY <4>1
        <4>3. e \in Inums
          BY EntFacts
        <4>4. <<e, x>> \in DOMAIN g /\ <<e, x>> # <<i, UP>>
          BY <1>1, <1>6, <4>3
        <4> QED BY <4>2, <4>4
      <3> QED BY <3>1, <3>2
    <2> QED BY <1>1, <1>6, <1>7, <2>1, CountTwo
  <1>9. s.fs[d].nlink \in Nat /\ s.fs[d].nlink > 1
    <2>1. PICK a, b : a = Count(g, d) /\ b = Count(Extra(s), d)
      OBVIOUS
    <2>2. s.fs[d].nlink = a + b
      BY <1>1, <1>5, <2>1 DEF Coherent
    <2>3. DOMAIN Extra(s) = Users
      BY DEF Extra
    <2>4. a \in Nat /\ b \in Nat /\ a > 1
      BY <1>6, <1>8, <2>1, <2>3, CountNat, NodeConstants
    <2> QED BY <2>2, <2>4
  <1>10. PICK B : B = Dir(s) \ {i}
    OBVIOUS
  <1>11. Dir(t) = B
    <2>1. ASSUME NEW e \in Inums PROVE e \in Dir(t) <=> e \in B
      <3>1. CASE e = i
        BY <1>3, <1>10, <3>1 DEF Dir, InTree
      <3>2. CASE e = d
        <4>1. t.fs[d].nlink > 0 /\ t.fs[d].type = "dir" /\ d \notin Cut(s)
          BY <1>1, <1>2, <1>9 DEF Dir, InTree
        <4>2. d \in Dir(t)
          BY <1>1, <1>3, <4>1 DEF Dir, InTree
        <4> QED BY <1>1, <1>10, <3>2, <4>2
      <3>3. CASE e # i /\ e # d
        BY <1>2, <1>3, <1>10, <3>3 DEF Dir, InTree
      <3> QED BY <3>1, <3>2, <3>3
    <2> QED BY <1>10, <2>1, EntFacts
  <1>12. PICK h : h = Ent(t)
    OBVIOUS
  <1>13. /\ h[<<d, m>>] = 0 /\ h[<<i, UP>>] = 0
         /\ \A q \in Inums \X Entries : q # <<d, m>> /\ q # <<i, UP>> => h[q] = g[q]
         /\ \A x \in Names : g[<<i, x>>] = 0
    <2>1. h[<<d, m>>] = 0
      <3>1. d \in Dir(t)
        BY <1>1, <1>10, <1>11
      <3> QED BY <1>1, <1>2, <1>12, <3>1, EntFacts
    <2>2. \A x \in Entries : h[<<i, x>>] = 0
      <3>1. i \in Inums \ Dir(t)
        BY <1>1, <1>10, <1>11
      <3> QED BY <1>12, <3>1, EntFacts
    <2>3. \A x \in Names : g[<<i, x>>] = 0
      <3>1. \A x \in Names : g[<<i, x>>] = s.fs[i].ent[x]
        BY <1>1, <1>5, <1>7, EntFacts
      <3> QED BY <3>1
    <2>4. ASSUME NEW e \in Inums, NEW x \in Entries, <<e, x>> # <<d, m>>, <<e, x>> # <<i, UP>>
          PROVE  h[<<e, x>>] = g[<<e, x>>]
      <3>1. (e # d \/ x # m) /\ (e # i \/ x # UP)
        BY <2>4
      <3>2. CASE e = i
        <4>1. x \in Names
          BY <3>1, <3>2, NodeConstants
        <4> QED BY <2>2, <2>3, <3>2, <4>1
      <3>3. CASE e # i
        <4>1. t.fs[e].ent[x] = s.fs[e].ent[x]
          BY <1>2, <3>1
        <4>2. e \in Dir(t) <=> e \in Dir(s)
          BY <1>10, <1>11, <3>3
        <4> QED BY <1>5, <1>12, <4>1, <4>2, EntSame
      <3> QED BY <3>2, <3>3
    <2> QED BY <1>1, <1>6, <2>1, <2>2, <2>3, <2>4
  <1>14. Tree(t.fs, B, h, rank)
    <2>1. PICK A : A = Dir(s)
      OBVIOUS
    <2>2. A \subseteq Inums /\ i \in A /\ d \in A /\ m \in Names /\ B = A \ {i}
      BY <1>1, <1>7, <1>10, <2>1, EntFacts
    <2>3. \A e \in B, x \in Entries : (e = d /\ x = m) \/ h[<<e, x>>] = g[<<e, x>>]
      <3>1. ASSUME NEW e \in B, NEW x \in Entries, ~(e = d /\ x = m) PROVE h[<<e, x>>] = g[<<e, x>>]
        <4>1. <<e, x>> # <<d, m>> /\ <<e, x>> # <<i, UP>> /\ <<e, x>> \in Inums \X Entries
          BY <2>2, <3>1
        <4> QED BY <1>13, <4>1
      <3> QED BY Zenon, <3>1
    <2>4. \A e \in Inums \ B, x \in Names : t.fs[e].ent[x] = 0
      <3>1. ASSUME NEW e \in Inums \ B, NEW x \in Names PROVE t.fs[e].ent[x] = 0
        <4>1. e # d
          BY <1>1, <2>2, <3>1
        <4>2. t.fs[e] = s.fs[e]
          BY <1>2, <4>1
        <4>3. CASE e = i
          BY <4>2, <4>3
        <4>4. CASE e # i
          <5>1. e \in Inums \ Dir(s)
            BY <2>1, <2>2, <3>1, <4>4
          <5> QED BY <4>2, <5>1, OutOfTree
        <4> QED BY <4>3, <4>4
      <3> QED BY <3>1
    <2>5. Detached(s.fs, A, g, t.fs, B, h, d, m, i)
      BY <1>2, <1>7, <1>13, <2>2, <2>3, <2>4 DEF Detached
    <2>6. Tree(s.fs, A, g, rank)
      BY <1>4, <1>5, <2>1
    <2> QED BY <2>5, <2>6, TreeDetach
  <1>15. ASSUME NEW j \in Inums PROVE t.fs[j].nlink = Count(Ent(t), j) + Count(Extra(t), j)
    <2>1. PICK a, b, a2, b2, x, y : /\ a = Count(Ent(s), j) /\ b = Count(Extra(s), j) /\ a2 = Count(Ent(t), j)
                                    /\ b2 = Count(Extra(t), j) /\ x = <<d, m>> /\ y = <<i, UP>>
      OBVIOUS
    <2>2. a2 = a - Is(i, j) + Is(0, j) - Is(d, j) + Is(0, j)
      <3>1. TwoEntries(s, t, x, y, i, 0, d, 0)
        BY <1>5, <1>6, <1>7, <1>12, <1>13, <2>1 DEF TwoEntries
      <3>2. Count(Ent(t), j) = Count(Ent(s), j) - Is(i, j) + Is(0, j) - Is(d, j) + Is(0, j)
        BY <3>1, TwoEntriesCount
      <3> QED BY <2>1, <3>2
    <2>3. b2 = b - Is(0, j) + Is(i, j)
      BY <2>1, ExtraMoves DEF Unlinks
    <2>4. s.fs[j].nlink = a + b
      BY <2>1 DEF Coherent
    <2>5. DOMAIN Ent(s) = Inums \X Entries /\ DOMAIN Extra(s) = Users
      BY EntFacts DEF Extra
    <2>6. a \in Nat /\ b \in Nat
      BY <2>1, <2>5, CountNat, NodeConstants
    <2>7. Is(0, j) = 0 /\ Is(i, j) \in Nat /\ (Is(d, j) = IF j = d THEN 1 ELSE 0)
      BY NodeConstants DEF Is
    <2>8. t.fs[j].nlink = IF j = d THEN s.fs[j].nlink - 1 ELSE s.fs[j].nlink
      BY <1>2
    <2>9. t.fs[j].nlink = a2 + b2
      <3>1. Is(0, j) = 0 /\ Is(i, j) \in Nat /\ (Is(d, j) = IF j = d THEN 1 ELSE 0)
        BY Zenon, <2>7
      <3>2. t.fs[j].nlink = (IF j = d THEN (a + b) - 1 ELSE a + b)
        BY Zenon, <2>4, <2>8
      <3> QED BY ONLY <2>2, <2>3, <2>6, <3>1, <3>2
    <2> QED BY <2>1, <2>9
  <1> QED BY <1>11, <1>12, <1>14, <1>15 DEF Counted

\* Where sys_unlink() is when it locks the child: it holds the directory, which has the child's name.
LEMMA UnlinkFacts ==
  ASSUME NEW s, NEW t, NodeStep(s, t), NEW up, Coherent(s, up), NEW p \in Users, NEW o, o = s.l[p],
         o.pc = "unlinkboth", CanLock(o.other), NEW d, NEW i, d = o.ip, i = o.other
  PROVE  /\ o \in Locals /\ l[p] = o /\ Stage(o) = "unlinkboth" /\ InControl(o)
         /\ d \in Inums /\ d \in Dir(s) /\ Head(o.rest) \in Names /\ s.fs[d].ent[Head(o.rest)] = i
         /\ i \in Inums /\ i # d
         /\ s.itable[i].lock = None /\ s.itable[i].ref > 0 /\ Reaches(s, p, i) /\ Reaches(s, p, d)
         /\ s.itable[d].lock = p /\ s.itable[d].valid /\ s.itable[d].ref > 0
         /\ LockOf(o) = d /\ LinkOf(o) = 0 /\ ~Linking(o)
         /\ Of(s, p).cwd = s.cwd[p] /\ Of(s, p).file = s.file[p] /\ Of(s, p).ip = d /\ Of(s, p).other = i
         /\ Of(s, p).victim = 0
  <1>1. o \in Locals /\ l[p] = o /\ Stage(o) = "unlinkboth" /\ InControl(o) /\ Knows(s, p)
    BY ActorFacts DEF Stage
  <1>2. d \in Inums /\ i \in Inums
    BY Zenon, <1>1 DEF InControl, IpStages, OtherStages
  <1>3. d \in Dir(s) /\ Head(o.rest) \in Names /\ s.fs[d].ent[Head(o.rest)] = i
    BY <1>1 DEF Knows
  <1>4. Of(s, p) = Holding(s.cwd[p], s.file[p], o)
    BY DEF Of
  <1>5. /\ LockOf(o) = d /\ LinkOf(o) = 0 /\ ~Linking(o)
        /\ Of(s, p).cwd = s.cwd[p] /\ Of(s, p).file = s.file[p] /\ Of(s, p).ip = d /\ Of(s, p).other = i
        /\ Of(s, p).victim = 0
    BY <1>1, <1>4, HoldsBoth
  <1>6. Reaches(s, p, i) /\ Reaches(s, p, d)
    BY <1>5, ReachKinds
  <1>7. s.itable[i].ref > 0 /\ s.itable[d].ref > 0
    BY <1>2, <1>6, ReachCounts
  <1>8. s.itable[i].lock = None
    BY Zenon, NodeParts DEF CanLock, LockFree
  <1>9. s.itable[d].lock = p /\ s.itable[d].valid
    <2>1. Slot(s, d)
      BY <1>2 DEF Coherent
    <2> QED BY <1>5, <2>1, NodeConstants DEF Slot
  <1>10. i # d
    BY <1>8, <1>9, NodeConstants
  <1> QED BY <1>1, <1>2, <1>3, <1>5, <1>6, <1>7, <1>8, <1>9, <1>10

\* What sys_unlink() makes of the directory d and the in-memory inodes
LEMMA RemovedFacts ==
  ASSUME NEW T, NEW F, TableOk(T, F), F \in [Inums -> Inodes], NEW d \in Inums,
         NEW n \in 0 .. NLINK_MAX, NEW m \in Names,
         NEW G, G = Entered(Update(F, d, n), d, m, 0), NEW U, U = Unlocked(SetLinks(T, d, n), d)
  PROVE  /\ TableOk(U, G) /\ G \in [Inums -> Inodes]
         /\ \A j \in Inums : U[j].ref = T[j].ref /\ U[j].valid = T[j].valid
                             /\ U[j].lock = IF j = d THEN None ELSE T[j].lock
         /\ \A j \in Inums : j # d => G[j] = F[j]
         /\ \A j \in Inums : G[j].type = F[j].type /\ G[j].nlink = IF j = d THEN n ELSE F[j].nlink
         /\ G[d].ent[m] = 0 /\ \A x \in Entries : x # m => G[d].ent[x] = F[d].ent[x]
  <1>1. PICK U1, G1 : U1 = SetLinks(T, d, n) /\ G1 = Update(F, d, n)
    OBVIOUS
  <1>2. m \in Entries /\ 0 \in 0 .. NINODES
    BY NodeConstants
  <1>3. /\ TableOk(U1, G1) /\ G1 \in [Inums -> Inodes]
        /\ \A j \in Inums : U1[j].ref = T[j].ref /\ U1[j].lock = T[j].lock /\ U1[j].valid = T[j].valid
        /\ \A j \in Inums : j # d => U1[j] = T[j] /\ G1[j] = F[j]
        /\ \A j \in Inums : G1[j].type = F[j].type /\ G1[j].ent = F[j].ent
                            /\ G1[j].nlink = IF j = d THEN n ELSE F[j].nlink
    BY <1>1, LinkedFacts
  <1>4. /\ G \in [Inums -> Inodes]
        /\ \A j \in Inums : j # d => G[j] = G1[j]
        /\ \A j \in Inums : G[j].type = G1[j].type /\ G[j].nlink = G1[j].nlink
        /\ G[d].ent[m] = 0 /\ \A x \in Entries : x # m => G[d].ent[x] = G1[d].ent[x]
    <2>1. G1 \in [Inums -> Inodes] /\ m \in Entries /\ 0 \in 0 .. NINODES /\ G = Entered(G1, d, m, 0)
      BY <1>1, <1>2, <1>3
    <2>2. PICK z : z = 0
      OBVIOUS
    <2>3. z \in 0 .. NINODES /\ G = Entered(G1, d, m, z)
      BY <2>1, <2>2
    <2>4. /\ G \in [Inums -> Inodes]
          /\ \A j \in Inums : j # d => G[j] = G1[j]
          /\ \A j \in Inums : G[j].type = G1[j].type /\ G[j].nlink = G1[j].nlink
          /\ G[d].ent[m] = z /\ \A x \in Entries : x # m => G[d].ent[x] = G1[d].ent[x]
      BY ONLY <2>1, <2>3, d \in Inums, EnteredFacts
    <2> QED BY <2>2, <2>4
  <1>5. TableOk(U1, G)
    BY <1>3, <1>4 DEF TableOk
  <1>6. /\ TableOk(U, G)
        /\ \A j \in Inums : U[j].ref = U1[j].ref /\ U[j].valid = U1[j].valid
                            /\ U[j].lock = IF j = d THEN None ELSE U1[j].lock
    BY <1>1, <1>5, UnlockedFacts
  <1> QED BY <1>3, <1>4, <1>6

\* sys_unlink() removes the entry.
LEMMA UnlinkBothKeeps ==
  ASSUME NEW s, NEW t, NodeStep(s, t), booted \in BOOLEAN, Coherent(s, booted), NEW p \in Users,
         UnlinkBoth(p), ~(Loaded(l[p].other).type = "dir" /\ ~Empty(l[p].other))
  PROVE  Coherent(t, booted)
  <1>1. PICK o, d, i, m, n, r :
           /\ o = s.l[p] /\ d = o.ip /\ i = o.other /\ m = Head(o.rest)
           /\ n = IF Loaded(i).type = "dir" THEN s.itable[d].nlink - 1 ELSE s.itable[d].nlink
           /\ r = PutThen(o, d, "unlinkip")
    OBVIOUS
  <1>2. l[p] = o /\ o.pc = "unlinkboth" /\ CanLock(i)
    <2>1. l[p] = o
      BY <1>1, ActorFacts
    <2>2. l[p].pc = "unlinkboth" /\ CanLock(l[p].other)
      BY Zenon DEF UnlinkBoth
    <2> QED BY <1>1, <2>1, <2>2
  <1>3. o \in Locals /\ Stage(o) = "unlinkboth" /\ InControl(o) /\ d \in Inums /\ i \in Inums /\ i # d
    <2>1. o = s.l[p] /\ o.pc = "unlinkboth" /\ CanLock(o.other) /\ d = o.ip /\ i = o.other /\ m = Head(o.rest)
      BY Zenon, <1>1, <1>2
    <2> QED BY ONLY NodeStep(s, t), Coherent(s, booted), p \in Users, <2>1, UnlinkFacts
  <1>4. d \in Dir(s) /\ m \in Names /\ s.fs[d].ent[m] = i
    <2>1. o = s.l[p] /\ o.pc = "unlinkboth" /\ CanLock(o.other) /\ d = o.ip /\ i = o.other /\ m = Head(o.rest)
      BY Zenon, <1>1, <1>2
    <2> QED BY ONLY NodeStep(s, t), Coherent(s, booted), p \in Users, <2>1, UnlinkFacts
  <1>5. /\ s.itable[i].lock = None /\ s.itable[i].ref > 0 /\ Reaches(s, p, i) /\ Reaches(s, p, d)
        /\ s.itable[d].lock = p /\ s.itable[d].valid /\ s.itable[d].ref > 0 /\ LockOf(o) = d /\ LinkOf(o) = 0
    BY <1>1, <1>2, UnlinkFacts
  <1>6. /\ Of(s, p).cwd = s.cwd[p] /\ Of(s, p).file = s.file[p] /\ Of(s, p).ip = d /\ Of(s, p).other = i
        /\ Of(s, p).victim = 0
    BY <1>1, <1>2, UnlinkFacts
  <1>7. d \in 0 .. NINODES /\ i \in 0 .. NINODES /\ 0 \notin Inums
        /\ s.fs \in [Inums -> Inodes] /\ s.itable \in [Inums -> Slots] /\ TableOk(s.itable, s.fs)
    BY <1>1, <1>3, ActorFacts, NodeConstants DEF TableOk
  <1>8. Loaded(i).type = s.fs[i].type /\ fs = s.fs /\ itable = s.itable
    BY <1>3, <1>7, NodeParts DEF Loaded, TableOk, Slots, Inodes
  <1>9. n \in 0 .. NLINK_MAX /\ n = IF s.fs[i].type = "dir" THEN s.fs[d].nlink - 1 ELSE s.fs[d].nlink
    <2>1. s.fs[d].nlink \in 0 .. NLINK_MAX
      BY <1>3, <1>7 DEF Inodes
    <2>2. s.itable[d].nlink = s.fs[d].nlink /\ s.fs[d].nlink > 0
      BY <1>3, <1>4, <1>5, <1>7, EntFacts DEF TableOk
    <2>3. n = IF s.fs[i].type = "dir" THEN s.fs[d].nlink - 1 ELSE s.fs[d].nlink
      BY <1>1, <1>8, <2>2
    <2>4. PICK a : a = s.fs[d].nlink
      OBVIOUS
    <2>5. a \in 0 .. NLINK_MAX /\ a > 0
      BY <2>1, <2>2, <2>4
    <2>6. n = a - 1 \/ n = a
      BY <2>3, <2>4
    <2>7. n \in 0 .. NLINK_MAX
      BY ONLY <2>5, <2>6, NodeConstants
    <2> QED BY <2>3, <2>7
  <1>10. s.fs[i].type = "dir" => \A x \in Names : s.fs[i].ent[x] = 0
    BY <1>1, <1>2, <1>8 DEF Empty
  <1>11. /\ r \in Locals /\ r.pc = "put" /\ Stage(r) = "unlinkip" /\ r.victim = d /\ r.other = i /\ r.ret = "unlinkip"
    <2>1. "unlinkip" \in Labels
      BY DEF Labels
    <2> QED BY <1>1, <1>3, <1>7, <2>1, PutThenFacts
  <1>12. /\ fs' = [Update(fs, d, n) EXCEPT ![d].ent[m] = 0]
         /\ itable' = Unlocked(SetLinks(Locked(itable, p, i), d, n), d)
         /\ Become(p, r) /\ cwd' = cwd /\ file' = file
    BY Zenon, <1>1, <1>2, <1>8 DEF UnlinkBoth, Unchanged, Name
  <1>13. Becomes(s, t, p, s.cwd[p], s.file[p], r) /\ OnlyBy(s, t, p) /\ t.l[p] = r
    BY Zenon, <1>1, <1>12, StepFacts
  <1>14. PICK h, k : h = Of(s, p) /\ k = Holding(s.cwd[p], s.file[p], r)
    OBVIOUS
  <1>15. /\ k.cwd = s.cwd[p] /\ k.file = s.file[p] /\ k.ip = 0 /\ k.other = i /\ k.victim = d
         /\ LockOf(r) = i /\ LinkOf(r) = i /\ ~Linking(r)
    BY <1>11, <1>14, HoldsOther
  <1>16. OwnMove(h, k, 0, 0)
    BY <1>3, <1>6, <1>7, <1>14, <1>15 DEF OwnMove, Own, Is
  <1>17. PICK T : T = Locked(s.itable, p, i)
    OBVIOUS
  <1>18. /\ TableOk(T, s.fs)
         /\ \A j \in Inums :
               /\ T[j].ref = s.itable[j].ref
               /\ T[j].lock = IF j = i THEN p ELSE s.itable[j].lock
               /\ T[j].valid <=> s.itable[j].valid \/ j = i
    BY <1>3, <1>7, <1>17, LockedFacts, NodeParts
  <1>19. /\ t.fs = Entered(Update(s.fs, d, n), d, m, 0)
         /\ t.itable = Unlocked(SetLinks(T, d, n), d)
    BY <1>12, <1>17, NodeParts DEF Entered
  <1>20. /\ TableOk(t.itable, t.fs) /\ t.fs \in [Inums -> Inodes]
         /\ \A j \in Inums : t.itable[j].ref = T[j].ref /\ t.itable[j].valid = T[j].valid
                             /\ t.itable[j].lock = IF j = d THEN None ELSE T[j].lock
         /\ \A j \in Inums : j # d => t.fs[j] = s.fs[j]
         /\ \A j \in Inums : t.fs[j].type = s.fs[j].type /\ t.fs[j].nlink = IF j = d THEN n ELSE s.fs[j].nlink
         /\ t.fs[d].ent[m] = 0 /\ \A x \in Entries : x # m => t.fs[d].ent[x] = s.fs[d].ent[x]
    <2>1. TableOk(T, s.fs) /\ s.fs \in [Inums -> Inodes] /\ d \in Inums /\ n \in 0 .. NLINK_MAX /\ m \in Names
      BY <1>3, <1>4, <1>7, <1>9, <1>18
    <2> QED BY ONLY <1>19, <2>1, RemovedFacts
  <1>21. /\ \A j \in Inums : t.itable[j].ref = s.itable[j].ref
         /\ \A j \in Inums : t.itable[j].lock = IF j = d THEN None ELSE IF j = i THEN p ELSE s.itable[j].lock
         /\ \A j \in Inums : (s.itable[j].valid => t.itable[j].valid)
                             /\ (t.itable[j].valid # s.itable[j].valid => j = i)
         /\ t.itable[i].valid
    <2>1. \A j \in Inums : t.itable[j].ref = s.itable[j].ref
      BY <1>18, <1>20
    <2>2. \A j \in Inums : t.itable[j].lock = IF j = d THEN None ELSE IF j = i THEN p ELSE s.itable[j].lock
      BY <1>18, <1>20
    <2>3. \A j \in Inums : t.itable[j].valid \in BOOLEAN /\ s.itable[j].valid \in BOOLEAN /\ T[j].valid \in BOOLEAN
      BY <1>7, <1>18, <1>20 DEF TableOk, Slots
    <2>4. \A j \in Inums : t.itable[j].valid <=> s.itable[j].valid \/ j = i
      BY <1>18, <1>20
    <2> QED BY <1>3, <2>1, <2>2, <2>3, <2>4
  <1>22. TableShift(s, t, p, r, 0)
    <2>1. LockOf(r) = i /\ LockOf(s.l[p]) = d
      BY <1>1, <1>5, <1>15
    <2>2. \A j \in Inums : s.itable[j].ref \in Nat /\ Is(0, j) = 0
      BY <1>7 DEF Slots, Is
    <2> QED BY <1>3, <1>5, <1>21, <2>1, <2>2 DEF TableShift
  <1>23. Counted(t)
    <2>1. Unlinks(s, t, p, i)
      BY <1>1, <1>3, <1>5, <1>11, <1>13, <1>15 DEF Unlinks
    <2>2. GoneChild(s, d, m, i)
      BY <1>3, <1>4 DEF GoneChild
    <2>3. GoneEntry(s.fs, t.fs, d, m, i)
      BY <1>3, <1>9, <1>20 DEF GoneEntry
    <2>4. CASE s.fs[i].type = "dir"
      BY <1>10, <2>1, <2>2, <2>3, <2>4, GoneDirCounted
    <2>5. CASE s.fs[i].type # "dir"
      BY <2>1, <2>2, <2>3, <2>5, GoneFileCounted
    <2> QED BY Zenon, <2>4, <2>5
  <1>24. Knows(t, p)
    <2>1. InControl(r)
      BY <1>3, <1>11, <1>15 DEF InControl, IpStages, Rets
    <2> QED BY <1>11, <1>13, <1>15, <2>1, KnowsPlain
  <1>25. ASSUME NEW j \in Inums, t.fs[j].nlink = 0, s.fs[j].nlink # 0 \/ Alone(s.l[p], j)
         PROVE  t.itable[j].ref > 0 /\ t.itable[j].valid
    <2>1. ~Alone(s.l[p], j)
      BY <1>1, <1>2 DEF Alone
    <2>2. j = d
      BY <1>20, <1>25, <2>1
    <2>3. t.itable[d].ref > 0
      BY <1>3, <1>5, <1>21
    <2>4. t.itable[d].valid
      BY <1>3, <1>5, <1>21
    <2> QED BY <2>2, <2>3, <2>4
  <1>26. /\ r.pc \notin {"newip", "drop", "ifree"} /\ s.l[p].pc \notin {"drop", "ifree"}
         /\ \A j \in Inums :
              /\ t.fs[j].type = s.fs[j].type /\ (t.fs[j].type # "dir" => t.fs[j].ent = s.fs[j].ent)
              /\ t.fs[j] # s.fs[j] => Reaches(s, p, j) /\ s.itable[j].lock \in {p, None}
    <2>1. r.pc \notin {"newip", "drop", "ifree"} /\ s.l[p].pc \notin {"drop", "ifree"}
      BY <1>1, <1>2, <1>11
    <2>2. s.fs[d].type = "dir"
      BY <1>4, EntFacts
    <2>3. ASSUME NEW j \in Inums
          PROVE  /\ t.fs[j].type = s.fs[j].type /\ (t.fs[j].type # "dir" => t.fs[j].ent = s.fs[j].ent)
                 /\ t.fs[j] # s.fs[j] => Reaches(s, p, j) /\ s.itable[j].lock \in {p, None}
      <3>1. CASE j = d
        BY <1>5, <1>20, <2>2, <3>1
      <3>2. CASE j # d
        BY <1>20, <3>2
      <3> QED BY <3>1, <3>2
    <2> QED BY <2>1, <2>3
  <1> QED BY <1>11, <1>13, <1>14, <1>16, <1>20, <1>22, <1>23, <1>24, <1>25, <1>26, ChangeStep DEF Counted

\* Nobody has to do with a free inode.
LEMMA FreeFacts ==
  ASSUME NEW s, NEW up, Coherent(s, up), NEW i \in Inums, s.fs[i].type = "free"
  PROVE  /\ s.fs[i] = FreeInode /\ s.fs[i].nlink = 0 /\ s.fs[i].ent = NoEntries
         /\ s.itable[i].ref = 0 /\ s.itable[i].lock = None
         /\ \A z \in Users \X Kinds : References(s)[z] # i
         /\ \A q \in Users : ~Reaches(s, q, i) /\ ~Alone(s.l[q], i)
  <1>1. s.fs[i] = FreeInode
    BY DEF Coherent, Shapes
  <1>2. s.fs[i].nlink = 0 /\ s.fs[i].ent = NoEntries
    BY <1>1 DEF FreeInode
  <1>3. \A q \in Users : ~Reaches(s, q, i)
    BY ReachCounts
  <1>4. \A q \in Users : ~Alone(s.l[q], i)
    BY AloneFacts
  <1>5. s.itable[i] \in Slots /\ Slot(s, i) /\ i # 0
    BY NodeConstants DEF Coherent, NodeStates
  <1>6. s.itable[i].ref = 0
    BY <1>5 DEF Slot, Slots
  <1>7. s.itable[i].lock = None
    <2>1. ASSUME NEW q \in Users, s.itable[i].lock = q PROVE FALSE
      <3>1. LockOf(s.l[q]) = i
        BY <1>5, <2>1 DEF Slot
      <3> QED BY <1>3, <1>5, <3>1, LockReaches
    <2> QED BY <1>5, <2>1 DEF Slots
  <1>8. \A z \in Users \X Kinds : References(s)[z] # i
    BY <1>6, NoReference
  <1> QED BY <1>1, <1>2, <1>3, <1>4, <1>6, <1>7, <1>8

\* The ".." of a directory of the tree leads somewhere.
LEMMA HasParent ==
  ASSUME NEW s, NEW up, Coherent(s, up), NEW d \in Dir(s)
  PROVE  s.fs[d].ent[UP] # 0
  <1>1. PICK rank \in [Inums -> Nat] : Tree(s.fs, Dir(s), Ent(s), rank)
    BY DEF Coherent
  <1>2. Ent(s)[<<d, UP>>] # 0
    <2>1. CASE d = ROOTINO
      BY <1>1, <2>1, NodeConstants DEF Tree
    <2>2. CASE d # ROOTINO
      <3>1. PICK e \in Dir(s) : Ent(s)[<<d, UP>>] = e
        BY <1>1, <2>2 DEF Tree
      <3>2. e \in Inums
        BY EntFacts
      <3> QED BY <3>1, <3>2, NodeConstants
    <2> QED BY <2>1, <2>2
  <1> QED BY <1>2, EntFacts, NodeConstants

\* The disk once ialloc() has taken i
Allocated(F, i, x) == [F EXCEPT ![i] = [FreeInode EXCEPT !.type = x]]

\* What ialloc() makes of the in-memory inodes and of the disk
LEMMA AllocatedFacts ==
  ASSUME NEW T, NEW F, TableOk(T, F), F \in [Inums -> Inodes], NEW i \in Inums, NEW x \in Types,
         F[i].type = "free", T[i].ref = 0, T[i].lock = None,
         NEW G, G = Allocated(F, i, x),
         NEW U, U = Taken(T, i)
  PROVE  /\ TableOk(U, G) /\ G \in [Inums -> Inodes]
         /\ U[i].ref = 1 /\ ~U[i].valid /\ U[i].lock = None
         /\ \A j \in Inums : j # i => U[j] = T[j] /\ G[j] = F[j]
         /\ G[i].type = x /\ G[i].nlink = 0 /\ G[i].ent = NoEntries
  <1>1. PICK a, b : a = [FreeInode EXCEPT !.type = x] /\ b = [T[i] EXCEPT !.ref = T[i].ref + 1, !.valid = FALSE]
    OBVIOUS
  <1>2. T \in [Inums -> Slots] /\ T[i] \in Slots
    BY DEF TableOk
  <1>3. NoEntries \in [Entries -> 0 .. NINODES] /\ 0 \in 0 .. NLINK_MAX
    BY NodeConstants DEF NoEntries
  <1>4. a \in Inodes /\ a.type = x /\ a.nlink = 0 /\ a.ent = NoEntries
    BY <1>1, <1>3 DEF FreeInode, Inodes, Types
  <1>5. b \in Slots /\ b.ref = 1 /\ b.valid = FALSE /\ b.lock = None
    <2>1. PICK n : n = T[i].ref + 1
      OBVIOUS
    <2>2. n = 1 /\ n \in Nat
      BY <2>1
    <2>3. b = [T[i] EXCEPT !.ref = n, !.valid = FALSE]
      BY <1>1, <2>1
    <2>4. b \in Slots /\ b.ref = n /\ b.valid = FALSE /\ b.lock = T[i].lock
      BY <1>2, <2>2, <2>3 DEF Slots
    <2> QED BY <2>2, <2>4
  <1>6. U = [T EXCEPT ![i] = b] /\ G = [F EXCEPT ![i] = a]
    BY <1>1, <1>2 DEF Allocated, Taken, Slots
  <1>7. U \in [Inums -> Slots] /\ U[i] = b /\ \A j \in Inums : j # i => U[j] = T[j]
    BY <1>2, <1>5, <1>6
  <1>8. G \in [Inums -> Inodes] /\ G[i] = a /\ \A j \in Inums : j # i => G[j] = F[j]
    BY <1>4, <1>6
  <1>9. TableOk(U, G)
    <2>1. ASSUME NEW j \in Inums, U[j].valid PROVE U[j].type = G[j].type /\ U[j].nlink = G[j].nlink
      <3>1. j # i
        BY <1>5, <1>7, <2>1
      <3> QED BY <1>7, <1>8, <2>1, <3>1 DEF TableOk
    <2> QED BY <1>7, <2>1 DEF TableOk
  <1> QED BY <1>4, <1>5, <1>7, <1>8, <1>9

\* create() takes a free inode.
LEMMA CreateAllocsKeeps ==
  ASSUME NEW s, NEW t, NodeStep(s, t), booted \in BOOLEAN, Coherent(s, booted), NEW p \in Users, CreateAllocs(p)
  PROVE  Coherent(t, booted)
  <1>1. PICK o, d, i, m, x, r :
           /\ o = s.l[p] /\ d = o.ip /\ m = Head(o.rest)
           /\ i = CHOOSE j \in FreeInums : \A k \in FreeInums : j <= k
           /\ x = IF o.call = "mkdir" THEN "dir" ELSE "file"
           /\ r = [To(o, "newip") EXCEPT !.other = i]
    OBVIOUS
  <1>2. /\ l[p] = o /\ o.pc \in {"create", "mkdir"} /\ CanLock(d) /\ ~Refuses(p) /\ s.fs[d].ent[m] = 0
        /\ FreeInums # {}
    <2>1. l[p] = o /\ fs = s.fs
      BY <1>1, ActorFacts, NodeParts
    <2>2. /\ l[p].pc \in {"create", "mkdir"} /\ CanLock(l[p].ip) /\ ~Refuses(p) /\ fs[l[p].ip].ent[Head(l[p].rest)] = 0
          /\ FreeInums # {}
      BY DEF CreateAllocs, Name
    <2> QED BY <1>1, <2>1, <2>2
  <1>3. /\ o.call = o.pc /\ m \in Entries /\ d \in Inums /\ d \in Dir(s) /\ (o.call = "mkdir" => s.fs[d].nlink < NLINK_MAX)
        /\ Standing(s, p, o) /\ ~Linking(o) /\ Stage(o) = o.pc /\ o.rest # <<>>
    BY <1>1, <1>2, CreateDir
  <1>4. i \in Inums /\ s.fs[i].type = "free"
    <2>1. FreeInums \in SUBSET Nat
      BY NodeConstants DEF FreeInums
    <2>2. \E j \in FreeInums : \A k \in FreeInums : j <= k
      BY <1>2, <2>1, LeastNatural
    <2>3. i \in FreeInums
      BY <1>1, <2>2
    <2> QED BY <2>3, NodeParts DEF FreeInums
  <1>5. /\ s.fs[i].nlink = 0 /\ s.fs[i].ent = NoEntries /\ s.itable[i].ref = 0 /\ s.itable[i].lock = None
        /\ \A z \in Users \X Kinds : References(s)[z] # i
        /\ \A q \in Users : ~Reaches(s, q, i) /\ ~Alone(s.l[q], i)
    BY <1>4, FreeFacts
  <1>6. m \in Names
    BY <1>2, <1>3, HasParent, NodeConstants
  <1>7. s.fs[d].type = "dir" /\ i # d
    BY <1>3, <1>4, EntFacts
  <1>8. /\ s.fs \in [Inums -> Inodes] /\ s.itable \in [Inums -> Slots] /\ TableOk(s.itable, s.fs)
        /\ fs = s.fs /\ itable = s.itable /\ 0 \notin Inums /\ i \in 0 .. NINODES
    BY <1>4, ActorFacts, NodeParts, NodeConstants DEF TableOk
  <1>9. /\ LockOf(o) = 0 /\ LinkOf(o) = 0 /\ o \in Locals
        /\ Of(s, p).cwd = s.cwd[p] /\ Of(s, p).file = s.file[p] /\ Of(s, p).ip = d
        /\ Of(s, p).other = 0 /\ Of(s, p).victim = 0 /\ Reaches(s, p, d)
    BY <1>1, <1>3 DEF Standing
  <1>10. /\ r \in Locals /\ r.pc = "newip" /\ r.ip = d /\ r.other = i /\ r.call = o.call /\ r.rest = o.rest
         /\ Stage(r) = "newip"
    <2>1. PICK y : y = To(o, "newip")
      OBVIOUS
    <2>2. "newip" \in Labels
      BY DEF Labels
    <2>3. y \in Locals /\ y.pc = "newip" /\ y.call = o.call /\ y.rest = o.rest /\ y.ip = o.ip
      BY <1>9, <2>1, <2>2, ToFacts
    <2>4. r = [y EXCEPT !.other = i]
      BY <1>1, <2>1
    <2>5. /\ r \in Locals /\ r.pc = "newip" /\ r.ip = o.ip /\ r.other = i /\ r.call = o.call /\ r.rest = o.rest
      BY <1>8, <2>3, <2>4 DEF Locals
    <2> QED BY <1>1, <2>5 DEF Stage
  <1>11. PICK T : T = Locked(s.itable, p, d)
    OBVIOUS
  <1>12. /\ TableOk(T, s.fs)
         /\ \A j \in Inums :
               /\ T[j].ref = s.itable[j].ref
               /\ T[j].lock = IF j = d THEN p ELSE s.itable[j].lock
               /\ T[j].valid <=> s.itable[j].valid \/ j = d
    BY <1>3, <1>8, <1>11, LockedFacts
  <1>13. /\ fs' = [fs EXCEPT ![i] = [FreeInode EXCEPT !.type = x]]
         /\ itable' = Taken(T, i)
         /\ Become(p, r) /\ cwd' = cwd /\ file' = file
    BY Zenon, <1>1, <1>2, <1>8, <1>11 DEF CreateAllocs, Unchanged
  <1>14. t.fs = Allocated(s.fs, i, x) /\ t.itable = Taken(T, i)
    BY <1>8, <1>13, NodeParts DEF Allocated
  <1>15. /\ TableOk(t.itable, t.fs) /\ t.fs \in [Inums -> Inodes]
         /\ t.itable[i].ref = 1 /\ ~t.itable[i].valid /\ t.itable[i].lock = None
         /\ \A j \in Inums : j # i => t.itable[j] = T[j] /\ t.fs[j] = s.fs[j]
         /\ t.fs[i].type = x /\ t.fs[i].nlink = 0 /\ t.fs[i].ent = NoEntries
    <2>1. TableOk(T, s.fs) /\ s.fs \in [Inums -> Inodes] /\ i \in Inums /\ s.fs[i].type = "free"
      BY <1>4, <1>8, <1>12
    <2>2. T[i].ref = 0 /\ T[i].lock = None /\ x \in Types
      BY <1>1, <1>4, <1>5, <1>7, <1>12 DEF Types
    <2>3. PICK F, G, U : F = s.fs /\ G = Allocated(F, i, x) /\ U = Taken(T, i)
      OBVIOUS
    <2>4. TableOk(T, F) /\ F \in [Inums -> Inodes] /\ i \in Inums /\ F[i].type = "free"
      BY <2>1, <2>3
    <2>5. /\ TableOk(U, G) /\ G \in [Inums -> Inodes]
          /\ U[i].ref = 1 /\ ~U[i].valid /\ U[i].lock = None
          /\ \A j \in Inums : j # i => U[j] = T[j] /\ G[j] = F[j]
          /\ G[i].type = x /\ G[i].nlink = 0 /\ G[i].ent = NoEntries
      BY ONLY <2>2, <2>3, <2>4, AllocatedFacts
    <2> QED BY <1>14, <2>3, <2>5
  <1>16. t.fs[i] = [FreeInode EXCEPT !.type = x]
    BY <1>4, <1>8, <1>14 DEF Allocated
  <1>17. /\ Becomes(s, t, p, s.cwd[p], s.file[p], r) /\ OnlyBy(s, t, p) /\ t.l[p] = r
         /\ Of(t, p) = Holding(s.cwd[p], s.file[p], r)
    BY <1>1, <1>13, StepFacts
  <1>18. PICK h, k : h = Of(s, p) /\ k = Holding(s.cwd[p], s.file[p], r)
    OBVIOUS
  <1>19. /\ k.cwd = s.cwd[p] /\ k.file = s.file[p] /\ k.ip = d /\ k.other = i /\ k.victim = 0
         /\ LockOf(r) = d /\ LinkOf(r) = 0 /\ ~Linking(r)
    BY <1>10, <1>18, HoldsBoth
  <1>20. OwnMove(h, k, i, 0)
    BY <1>3, <1>4, <1>8, <1>9, <1>18, <1>19 DEF OwnMove, Own, Is
  <1>21. ASSUME NEW j \in Inums, Reaches(t, p, j) PROVE j = i \/ Reaches(s, p, j)
    BY <1>9, <1>17, <1>18, <1>19, <1>21, NodeConstants, ReachKinds
  <1>22. Shift(s, t, p, r, i, 0)
    <2>1. ASSUME NEW j \in Inums
          PROVE  /\ t.itable[j].ref = s.itable[j].ref + Is(i, j) - Is(0, j)
                 /\ t.itable[j].lock = IF LockOf(r) = j THEN p ELSE IF LockOf(s.l[p]) = j THEN None ELSE s.itable[j].lock
      <3>1. LockOf(r) = d /\ LockOf(s.l[p]) = 0 /\ j # 0 /\ Is(0, j) = 0 /\ Is(i, j) = IF j = i THEN 1 ELSE 0
        BY <1>1, <1>9, <1>19, NodeConstants DEF Is
      <3>2. s.itable[j].ref \in Nat
        BY <1>8 DEF Slots
      <3>3. CASE j = i
        <4>1. t.itable[j].ref = s.itable[j].ref + Is(i, j) - Is(0, j)
          BY <1>5, <1>15, <3>1, <3>3
        <4> QED BY <1>5, <1>7, <1>15, <3>1, <3>3, <4>1
      <3>4. CASE j # i
        <4>1. t.itable[j].ref = s.itable[j].ref + Is(i, j) - Is(0, j)
          BY <1>12, <1>15, <3>1, <3>2, <3>4
        <4> QED BY <1>12, <1>15, <3>1, <3>4, <4>1
      <3> QED BY <3>3, <3>4
    <2>2. ASSUME NEW j \in Inums
          PROVE  /\ LockOf(r) = j => s.itable[j].lock \in {p, None} /\ t.itable[j].valid
                 /\ s.itable[j].lock # None => t.itable[j].valid
      <3>1. s.itable[d].lock = None
        BY <1>2, <1>8 DEF CanLock, LockFree
      <3>2. t.itable[d].valid
        <4>1. T[d].valid \in BOOLEAN /\ (T[d].valid <=> s.itable[d].valid \/ d = d)
          BY <1>3, <1>12 DEF TableOk, Slots
        <4> QED BY <1>3, <1>7, <1>15, <4>1
      <3>3. s.itable[j].lock # None => t.itable[j].valid
        <4>1. ASSUME s.itable[j].lock # None PROVE t.itable[j].valid
          <5>1. j # i
            BY <1>5, <4>1
          <5>2. s.itable[j].valid
            BY <4>1 DEF Coherent, Slot
          <5>3. T[j].valid \in BOOLEAN /\ (T[j].valid <=> s.itable[j].valid \/ j = d)
            BY <1>12 DEF TableOk, Slots
          <5> QED BY <1>15, <5>1, <5>2, <5>3
        <4> QED BY <4>1
      <3> QED BY <1>19, <3>1, <3>2, <3>3
    <2>3. ASSUME NEW j \in Inums, t.itable[j].ref > 0 PROVE t.fs[j].type # "free"
      <3>1. CASE j = i
        BY <1>1, <1>15, <3>1
      <3>2. CASE j # i
        <4>1. s.itable[j].ref > 0
          BY <1>12, <1>15, <2>3, <3>2
        <4>2. s.fs[j].type # "free"
          BY <4>1 DEF Coherent, Slot
        <4> QED BY <1>15, <3>2, <4>2
      <3> QED BY <3>1, <3>2
    <2> QED BY <2>1, <2>2, <2>3 DEF Shift
  <1>23. Disturb(s, t, p, r)
    <2>1. May(s, p, i) /\ May(s, p, d)
      BY <1>3, <1>4, <1>9, MayReach
    <2>2. ASSUME NEW j \in Inums
          PROVE  /\ t.fs[j] # s.fs[j] => s.itable[j].lock \in {p, None} /\ May(s, p, j)
                 /\ t.itable[j].valid # s.itable[j].valid \/ Reaches(t, p, j) \/ Alone(r, j) => May(s, p, j)
                 /\ t.fs[j].type # s.fs[j].type => \A q \in Users : q # p => ~Reaches(s, q, j)
      <3>1. CASE j = i
        BY <1>5, <2>1, <3>1
      <3>2. CASE j # i
        <4>1. t.fs[j] = s.fs[j] /\ t.itable[j] = T[j]
          BY <1>15, <3>2
        <4>2. t.itable[j].valid # s.itable[j].valid => j = d
          <5>1. T[j].valid \in BOOLEAN /\ s.itable[j].valid \in BOOLEAN /\ (T[j].valid <=> s.itable[j].valid \/ j = d)
            BY <1>8, <1>12 DEF TableOk, Slots
          <5> QED BY <4>1, <5>1
        <4>3. ~Alone(r, j)
          BY <1>10, <3>2 DEF Alone
        <4>4. Reaches(t, p, j) => May(s, p, j)
          BY Zenon, <1>21, <3>2, MayReach
        <4> QED BY <2>1, <4>1, <4>2, <4>3, <4>4
      <3> QED BY <3>1, <3>2
    <2> QED BY <2>2 DEF Disturb
  <1>24. SameLinks(s.l[p], t.l[p])
    BY <1>1, <1>2, <1>3, <1>9, <1>10, <1>17, <1>19 DEF SameLinks
  <1>25. Dir(t) = Dir(s)
    <2>1. Cut(t) = Cut(s)
      BY <1>17, <1>24, CutSame
    <2>2. ASSUME NEW j \in Inums PROVE j \in Dir(t) <=> j \in Dir(s)
      <3>1. CASE j = i
        <4>1. ~(0 > 0)
          OBVIOUS
        <4>2. j \notin Dir(t) /\ j \notin Dir(s)
          BY <1>5, <1>15, <3>1, <4>1 DEF Dir, InTree
        <4> QED BY <4>2
      <3>2. CASE j # i
        BY <1>15, <2>1, <3>2 DEF Dir, InTree
      <3> QED BY <3>1, <3>2
    <2> QED BY <2>2, EntFacts
  <1>26. Ent(t) = Ent(s) /\ \E rank \in [Inums -> Nat] : Tree(t.fs, Dir(t), Ent(t), rank)
    <2>1. \A j \in Inums : t.fs[j].ent = s.fs[j].ent
      BY <1>5, <1>15
    <2>2. \A j \in Dir(s) : t.fs[j].ent = s.fs[j].ent
      BY <2>1, EntFacts
    <2>3. \A j \in Inums \ Dir(s), n \in Names : t.fs[j].ent[n] = 0
      BY <2>1, OutOfTree
    <2>4. \A j \in Inums : t.fs[j].type = s.fs[j].type \/ s.fs[j].nlink = 0
      BY <1>5, <1>15
    <2> QED BY <1>25, <2>2, <2>3, <2>4, SameTree
  <1>27. \A j \in Inums : t.fs[j].nlink = Count(Ent(t), j) + Count(Extra(t), j)
    <2>1. Extra(t) = Extra(s)
      BY <1>17, <1>24, CutSame
    <2>2. \A j \in Inums : t.fs[j].nlink = s.fs[j].nlink
      BY <1>5, <1>15
    <2> QED BY <1>26, <2>1, <2>2 DEF Coherent
  <1>28. Shapes(t.fs)
    <2>1. ASSUME NEW j \in Inums
          PROVE  (t.fs[j].type = "free" => t.fs[j] = FreeInode) /\ (t.fs[j].type = "file" => t.fs[j].ent = NoEntries)
      <3>1. CASE j = i
        BY <1>1, <1>15, <3>1
      <3>2. CASE j # i
        BY <1>15, <3>2 DEF Coherent, Shapes
      <3> QED BY <3>1, <3>2
    <2> QED BY <2>1 DEF Shapes
  <1>29. ASSUME NEW j \in Inums PROVE Cared(t, booted, j)
    <2>1. CASE j = i
      <3>1. Alone(t.l[p], i)
        BY <1>10, <1>17 DEF Alone
      <3> QED BY <2>1, <3>1 DEF Cared
    <2>2. CASE j # i
      <3>1. t.fs[j] = s.fs[j] /\ t.itable[j] = T[j] /\ T[j].ref = s.itable[j].ref
        BY <1>12, <1>15, <2>2
      <3>2. s.itable[j].valid => T[j].valid
        <4>1. T[j].valid \in BOOLEAN /\ s.itable[j].valid \in BOOLEAN /\ (T[j].valid <=> s.itable[j].valid \/ j = d)
          BY <1>8, <1>12 DEF TableOk, Slots
        <4> QED BY <4>1
      <3>3. ~Alone(s.l[p], j)
        BY <1>1, <1>2 DEF Alone
      <3> QED BY <1>17, <3>1, <3>2, <3>3, CaredBy
    <2> QED BY <2>1, <2>2
  <1>30. Knows(t, p)
    <2>1. InControl(r)
      <3>1. Stage(r) \in IpStages /\ Stage(r) \in OtherStages /\ ~Linking(r)
        BY <1>10, <1>19 DEF IpStages, OtherStages
      <3> QED BY <1>2, <1>3, <1>4, <1>10, <3>1 DEF InControl
    <2>2. t.fs[d] = s.fs[d] /\ s.fs[d].type = "dir" /\ d \in Dir(t)
      BY <1>3, <1>7, <1>15, <1>25
    <2>3. t.fs[i] = [FreeInode EXCEPT !.type = IF r.call = "mkdir" THEN "dir" ELSE "file"] /\ ~t.itable[i].valid
      BY <1>1, <1>10, <1>15, <1>16
    <2>4. ASSUME NEW q \in Users \X Kinds, References(t)[q] = i PROVE q = <<p, "other">>
      <3>1. PICK a, b : a \in Users /\ b \in Kinds /\ q = <<a, b>>
        OBVIOUS
      <3>2. References(t)[q] = Of(t, a)[b] /\ References(s)[q] = Of(s, a)[b]
        BY <3>1, ReferenceOf
      <3>3. CASE a # p
        <4>1. Of(t, a) = Of(s, a)
          BY <1>17, <3>1, <3>3 DEF Of, OnlyBy
        <4> QED BY <1>5, <2>4, <3>2, <4>1
      <3>4. CASE a = p
        <4>1. k[b] = i
          BY <1>17, <1>18, <2>4, <3>2, <3>4
        <4>2. h.cwd # i /\ h.file # i
          BY <1>5, <1>18, ReachKinds
        <4>3. b = "other"
          BY <1>4, <1>7, <1>8, <1>9, <1>18, <1>19, <3>1, <4>1, <4>2 DEF Kinds
        <4> QED BY <3>1, <3>4, <4>3
      <3> QED BY <3>3, <3>4
    <2>5. ~(r.pc = "unlinkboth") /\ ~(r.pc \in {"drop", "ifree"}) /\ ~Linking(r) /\ r.pc = "newip"
      BY Zenon, <1>10, <1>19
    <2>6. Head(r.rest) \in Names /\ t.fs[d].ent[Head(r.rest)] = 0 /\ (r.call = "mkdir" => t.fs[d].nlink < NLINK_MAX)
      BY <1>1, <1>2, <1>3, <1>6, <1>10, <2>2
    <2>7. t.l[p] = r /\ r.ip = d /\ r.other = i
      BY <1>10, <1>17
    <2> QED BY <2>1, <2>2, <2>3, <2>4, <2>5, <2>6, <2>7 DEF Knows
  <1> QED BY <1>10, <1>15, <1>17, <1>18, <1>20, <1>22, <1>23, <1>26, <1>27, <1>28, <1>29, <1>30, ChangeBy

\* ireclaim() finds nobody at work.
LEMMA ReclaimKeeps ==
  ASSUME NEW s, NEW t, NodeStep(s, t), booted \in BOOLEAN, Coherent(s, booted), NEW p \in Users,
         NEW i \in Inums, Reclaim(p, i), \A q \in Users : s.l[q].pc = "user"
  PROVE  Coherent(t, booted)
  <1>1. PICK o, r : o = [Idle EXCEPT !.call = "boot"] /\ r = PutThen(o, i, "end")
    OBVIOUS
  <1>2. o \in Locals
    BY <1>1, IdleFacts DEF Locals, Calls
  <1>3. s.file[p] \in 0 .. NINODES /\ s.cwd[p] \in Inums /\ i \in 0 .. NINODES /\ 0 \notin Inums
    BY ActorFacts, NodeConstants
  <1>4. r \in Locals /\ r.pc = "put" /\ Stage(r) = "end" /\ r.victim = i
    <2>1. "end" \in Labels
      BY DEF Labels
    <2> QED BY <1>1, <1>2, <1>3, <2>1, PutThenFacts
  <1>5. /\ Become(p, r) /\ cwd' = cwd /\ file' = file /\ fs' = fs /\ itable' = Got(Visited(i), i)
        /\ fs[i].type # "free"
    BY <1>1 DEF Reclaim
  <1>6. /\ Becomes(s, t, p, s.cwd[p], s.file[p], r) /\ OnlyBy(s, t, p) /\ t.l[p] = r
        /\ Of(t, p) = Holding(s.cwd[p], s.file[p], r) /\ Of(s, p) = Holding(s.cwd[p], s.file[p], s.l[p])
    BY <1>5, StepFacts
  <1>7. t.fs = s.fs /\ t.itable = Got(Visited(i), i) /\ s.fs[i].type # "free"
    BY <1>5, NodeParts
  <1>8. Stage(s.l[p]) = "user"
    BY DEF Stage
  <1>9. TableOk(t.itable, t.fs) /\ TableMove(s.itable, t.itable, i, i, 0, 0, None)
    BY <1>7, ActorFacts, TableMoves, NodeParts
  <1>10. SameLinks(s.l[p], r) /\ LockOf(r) = 0 /\ LockOf(s.l[p]) = 0
    BY <1>4, <1>8, HoldsNothing DEF SameLinks
  <1>11. PICK h, k : h = Of(s, p) /\ k = Of(t, p)
    OBVIOUS
  <1>12. /\ k.cwd = h.cwd /\ k.file = h.file /\ k.ip = h.ip /\ k.other = h.other /\ h.victim = 0 /\ k.victim = i
    <2>1. s.l[p].pc = "user"
      OBVIOUS
    <2>2. k.cwd = s.cwd[p] /\ k.file = s.file[p] /\ k.ip = 0 /\ k.other = 0 /\ k.victim = i
      BY <1>4, <1>6, <1>11, HoldsNothing
    <2>3. h.cwd = s.cwd[p] /\ h.file = s.file[p] /\ h.ip = 0 /\ h.other = 0 /\ h.victim = 0
      BY <1>6, <1>8, <1>11, <2>1, HoldsNothing
    <2> QED BY <2>2, <2>3
  <1>13. \A q \in Users, j \in Inums : ~Alone(s.l[q], j)
    BY DEF Alone
  <1>14. Knows(t, p)
    BY <1>3, <1>4, <1>6, KnowsEnd
  <1>15. ASSUME NEW j \in Inums PROVE QuietSlot(s, t, p, j)
    <2>1. PICK m, n, a, b : m = Own(h, j) /\ n = Own(k, j) /\ a = Is(i, j) /\ b = Is(0, j)
      OBVIOUS
    <2>2. m \in Nat /\ n = m + a /\ a \in Nat /\ b = 0 /\ (j = i => a = 1) /\ (j # i => a = 0)
      BY <1>3, <1>12, <2>1 DEF Own, Is
    <2>3. /\ t.itable[j].ref = s.itable[j].ref + a - b
          /\ t.itable[j].lock = s.itable[j].lock
          /\ t.itable[j].valid <=> s.itable[j].valid \/ j = i
          /\ j # i /\ j # 0 => t.itable[j] = s.itable[j]
      BY <1>3, <1>9, <2>1 DEF TableMove
    <2>4. s.itable[j].ref \in Nat
      BY ActorFacts DEF TableOk, Slots
    <2>5. t.itable[j].ref = s.itable[j].ref - m + n
      BY <2>2, <2>3, <2>4
    <2>6. s.itable[j].valid \in BOOLEAN /\ t.itable[j].valid \in BOOLEAN
      BY <1>9, ActorFacts DEF TableOk, Slots
    <2>7. s.itable[j].valid => t.itable[j].valid
      BY <2>3, <2>6
    <2>8. May(s, p, j)
      BY <1>13 DEF May
    <2>9. Reaches(t, p, j) => s.fs[j].type # "free"
      <3>1. Reaches(t, p, j) => j = i \/ Reaches(s, p, j)
        BY <1>11, <1>12, ReachKinds
      <3> QED BY <1>7, <3>1, ReachCounts
    <2>10. /\ s.itable[j].ref > 0 => t.itable[j].ref > 0
           /\ s.itable[j].ref = 0 => t.itable[j].ref = 0 \/ t.itable[j].valid
      <3>1. CASE j = i
        <4>1. t.itable[j].valid
          BY <2>3, <2>6, <3>1
        <4>2. t.itable[j].ref = s.itable[j].ref + 1
          BY <2>2, <2>3, <2>4, <3>1
        <4> QED BY <2>4, <4>1, <4>2
      <3>2. CASE j # i
        <4>1. t.itable[j] = s.itable[j]
          BY <1>3, <2>3, <3>2
        <4> QED BY <4>1
      <3> QED BY <3>1, <3>2
    <2>11. LockOf(t.l[p]) # j /\ LockOf(s.l[p]) # j
      BY <1>3, <1>6, <1>10
    <2> QED BY <1>11, <2>1, <2>3, <2>5, <2>7, <2>8, <2>9, <2>10, <2>11 DEF QuietSlot
  <1>16. \A j \in Inums : ~Alone(s.l[p], j) /\ ~Alone(r, j)
    BY <1>4, <1>13 DEF Alone
  <1>17. t = [fs |-> t.fs, itable |-> t.itable, cwd |-> t.cwd, file |-> t.file, l |-> t.l]
    BY NodeParts
  <1> QED BY <1>3, <1>4, <1>6, <1>7, <1>9, <1>10, <1>14, <1>15, <1>16, <1>17, QuietHolds

\* When nobody is at work what the file system says is what a disk may say.
LEMMA QuietIsSound ==
  ASSUME NEW s, NEW up, Coherent(s, up), \A q \in Users : s.l[q].pc \in {"user", "end", "cd"}
  PROVE  SoundDisk(s.fs)
  <1>1. s.fs \in [Inums -> Inodes] /\ Shapes(s.fs)
    BY DEF Coherent, NodeStates
  <1>2. \A q \in Users : Stage(s.l[q]) \in {"user", "end", "cd"}
    BY DEF Stage
  <1>3. Cut(s) = {}
    BY <1>2 DEF Cut
  <1>4. Dir(s) = InTree(s.fs, {}) /\ Ent(s) = Pointers(s.fs, InTree(s.fs, {}))
    BY <1>3 DEF Dir, Ent
  <1>5. \A q \in Users : Extra(s)[q] = 0
    BY <1>2 DEF Extra, LinkOf, Linking
  <1>6. ASSUME NEW i \in Inums PROVE s.fs[i].nlink = Count(Ent(s), i)
    <2>1. PICK g, h, a : g = Ent(s) /\ h = Extra(s) /\ a = Count(h, i)
      OBVIOUS
    <2>2. DOMAIN h = Users /\ IsFiniteSet(DOMAIN h) /\ IsFiniteSet(DOMAIN g)
      BY <2>1, EntFacts, NodeConstants DEF Extra
    <2>3. a \in Nat /\ Count(g, i) \in Nat
      BY <2>1, <2>2, CountNat
    <2>4. ~(a > 0)
      BY <1>5, <2>1, <2>2, CountSome, NodeConstants
    <2>5. s.fs[i].nlink = Count(g, i) + a
      BY <2>1 DEF Coherent
    <2> QED BY <2>1, <2>3, <2>4, <2>5
  <1> QED BY <1>1, <1>4, <1>6 DEF Coherent, SoundDisk

\* What the machine boots with
Booted(s, F) ==
    /\ s = [fs |-> F, itable |-> s.itable, cwd |-> s.cwd, file |-> s.file, l |-> s.l]
    /\ s.itable = [i \in Inums |-> [ref |-> IF i = ROOTINO THEN Cardinality(Users) ELSE 0,
                                    valid |-> FALSE, type |-> "free", nlink |-> 0, lock |-> None]]
    /\ s.cwd = [p \in Users |-> ROOTINO]
    /\ s.file = [p \in Users |-> 0]
    /\ s.l = [p \in Users |-> Idle]

\* The cwds are the only references, and all of the root.
LEMMA BootReferences ==
  ASSUME NEW s, NEW F, Booted(s, F), NEW i \in Inums
  PROVE  s.itable[i].ref = Count(References(s), i)
  <1>1. PICK g : g = References(s)
    OBVIOUS
  <1>2. ASSUME NEW p \in Users, NEW k \in Kinds PROVE g[<<p, k>>] = IF k = "cwd" THEN ROOTINO ELSE 0
    <2>1. s.l[p] = Idle /\ s.cwd[p] = ROOTINO /\ s.file[p] = 0
      BY DEF Booted
    <2>2. Of(s, p) = Holding(ROOTINO, 0, Idle)
      BY <2>1 DEF Of
    <2>3. Stage(Idle) = "user" /\ Idle.pc = "user"
      BY IdleFacts DEF Stage
    <2>4. PICK h : h = Holding(ROOTINO, 0, Idle)
      OBVIOUS
    <2>5. h.cwd = ROOTINO /\ h.file = 0 /\ h.ip = 0 /\ h.other = 0 /\ h.victim = 0
      BY <2>3, <2>4, HoldsNothing
    <2>6. h[k] = IF k = "cwd" THEN ROOTINO ELSE 0
      BY <2>5 DEF Kinds
    <2> QED BY <1>1, <2>2, <2>4, <2>6, ReferenceOf
  <1>3. DOMAIN g = Users \X Kinds
    BY <1>1, ReferenceOf
  <1>4. CASE i = ROOTINO
    <2>1. {q \in DOMAIN g : g[q] = i} = Users \X {"cwd"}
      <3>1. ASSUME NEW q \in Users \X Kinds PROVE g[q] = i <=> q[2] = "cwd"
        <4>1. PICK p \in Users, k \in Kinds : q = <<p, k>>
          OBVIOUS
        <4> QED BY <1>2, <1>4, <4>1, NodeConstants
      <3>2. "cwd" \in Kinds
        BY DEF Kinds
      <3> QED BY <1>3, <3>1, <3>2
    <2>2. IsFiniteSet({"cwd"}) /\ Cardinality({"cwd"}) = 1 /\ IsFiniteSet(Users)
      BY FS_Singleton, NodeConstants
    <2>3. Cardinality(Users) \in Nat
      BY <2>2, FS_CardinalityType
    <2>4. Cardinality(Users \X {"cwd"}) = Cardinality(Users) * Cardinality({"cwd"})
      BY <2>2, FS_Product
    <2>5. Cardinality(Users \X {"cwd"}) = Cardinality(Users)
      BY <2>2, <2>3, <2>4
    <2>6. s.itable[i].ref = Cardinality(Users)
      BY <1>4 DEF Booted
    <2> QED BY <1>1, <2>1, <2>5, <2>6 DEF Count
  <1>5. CASE i # ROOTINO
    <2>1. {q \in DOMAIN g : g[q] = i} = {}
      <3>1. ASSUME NEW q \in Users \X Kinds PROVE g[q] # i
        <4>1. PICK p \in Users, k \in Kinds : q = <<p, k>>
          OBVIOUS
        <4> QED BY <1>2, <1>5, <4>1, NodeConstants
      <3> QED BY <1>3, <3>1
    <2>2. s.itable[i].ref = 0
      BY <1>5 DEF Booted
    <2> QED BY <1>1, <2>1, <2>2, FS_EmptySet DEF Count
  <1> QED BY <1>4, <1>5

\* A system that boots from a sound disk is coherent.
LEMMA BootIsCoherent ==
  ASSUME NEW s, NEW F, Booted(s, F), SoundDisk(F)
  PROVE  Coherent(s, FALSE)
  <1>1. s.fs = F /\ F \in [Inums -> Inodes] /\ Shapes(F)
    BY DEF Booted, SoundDisk
  <1>2. \A p \in Users : s.l[p] = Idle /\ s.cwd[p] = ROOTINO /\ s.file[p] = 0
    BY DEF Booted
  <1>3. Stage(Idle) = "user" /\ Idle.pc = "user" /\ Idle \in Locals
    BY IdleFacts DEF Stage
  <1>4. LockOf(Idle) = 0 /\ LinkOf(Idle) = 0
    BY <1>3, HoldsNothing
  <1>5. ASSUME NEW i \in Inums
        PROVE  /\ s.itable[i].ref \in Nat /\ s.itable[i].valid = FALSE /\ s.itable[i].lock = None
               /\ s.itable[i] \in Slots /\ (i # ROOTINO => s.itable[i].ref = 0)
    <2>1. PICK a : a = IF i = ROOTINO THEN Cardinality(Users) ELSE 0
      OBVIOUS
    <2>2. a \in Nat
      BY <2>1, NodeConstants, FS_CardinalityType
    <2>3. s.itable[i] = [ref |-> a, valid |-> FALSE, type |-> "free", nlink |-> 0, lock |-> None]
      BY <2>1 DEF Booted
    <2>4. 0 \in 0 .. NLINK_MAX
      BY NodeConstants
    <2> QED BY <2>1, <2>2, <2>3, <2>4 DEF Slots, Types
  <1>6. s \in NodeStates
    <2>1. s.itable \in [Inums -> Slots]
      BY <1>5 DEF Booted
    <2>2. s.cwd \in [Users -> Inums] /\ s.file \in [Users -> 0 .. NINODES] /\ s.l \in [Users -> Locals]
      BY <1>3, NodeConstants DEF Booted
    <2>3. s = [fs |-> s.fs, itable |-> s.itable, cwd |-> s.cwd, file |-> s.file, l |-> s.l]
      BY <1>1 DEF Booted
    <2> QED BY <1>1, <2>1, <2>2, <2>3 DEF NodeStates
  <1>7. Dir(s) = InTree(F, {}) /\ Ent(s) = Pointers(F, InTree(F, {}))
    <2>1. Cut(s) = {}
      BY <1>2, <1>3 DEF Cut
    <2> QED BY <1>1, <2>1 DEF Dir, Ent
  <1>8. \E rank \in [Inums -> Nat] : Tree(s.fs, Dir(s), Ent(s), rank)
    BY <1>1, <1>7 DEF SoundDisk
  <1>9. ASSUME NEW i \in Inums PROVE s.fs[i].nlink = Count(Ent(s), i) + Count(Extra(s), i)
    <2>1. PICK g, h, a : g = Ent(s) /\ h = Extra(s) /\ a = Count(h, i)
      OBVIOUS
    <2>2. DOMAIN h = Users /\ IsFiniteSet(DOMAIN h) /\ IsFiniteSet(DOMAIN g)
      BY <2>1, EntFacts, NodeConstants DEF Extra
    <2>3. a \in Nat /\ Count(g, i) \in Nat
      BY <2>1, <2>2, CountNat
    <2>4. \A q \in Users : h[q] = 0
      BY <1>2, <1>4, <2>1 DEF Extra
    <2>5. ~(a > 0)
      BY <2>1, <2>2, <2>4, CountSome, NodeConstants
    <2>6. s.fs[i].nlink = Count(g, i)
      BY <1>1, <1>7, <2>1 DEF SoundDisk
    <2> QED BY <2>1, <2>3, <2>5, <2>6
  <1>10. s.fs[ROOTINO].type = "dir" /\ s.fs[ROOTINO].nlink > 0
    <2>1. ROOTINO \in Dir(s)
      BY <1>8 DEF Tree
    <2> QED BY <2>1, EntFacts
  <1>11. ASSUME NEW i \in Inums PROVE Slot(s, i) /\ Cared(s, FALSE, i)
    <2>1. s.itable[i].ref = Count(References(s), i)
      BY BootReferences
    <2>2. \A p \in Users : s.itable[i].lock = p <=> LockOf(s.l[p]) = i
      BY <1>2, <1>4, <1>5, NodeConstants
    <2>3. s.itable[i].ref > 0 => s.fs[i].type # "free"
      <3>1. CASE i = ROOTINO
        BY <1>10, <3>1
      <3>2. CASE i # ROOTINO
        <4>1. s.itable[i].ref = 0
          BY <1>5, <3>2
        <4>2. ~(0 > 0)
          OBVIOUS
        <4> QED BY <4>1, <4>2
      <3> QED BY <3>1, <3>2
    <2>4. s.fs[i].nlink = 0 => s.itable[i].ref = 0
      <3>1. ~(0 > 0)
        OBVIOUS
      <3> QED BY <1>5, <1>10, <3>1
    <2> QED BY <1>5, <2>1, <2>2, <2>3, <2>4 DEF Slot, Cared
  <1>12. ASSUME NEW p \in Users PROVE Knows(s, p)
    <2>1. s.l[p] = Idle /\ Idle.pc # "put"
      BY <1>2, <1>3
    <2> QED BY <1>3, <2>1, KnowsEnd
  <1> QED BY <1>1, <1>6, <1>8, <1>9, <1>11, <1>12 DEF Coherent

\* mkfs's disk is sound.
LEMMA MadeIsSound ==
  SoundDisk(Made)
  <1>1. PICK F, a : F = Made /\ a = [type |-> "dir", nlink |-> 1, ent |-> [NoEntries EXCEPT ![UP] = ROOTINO]]
    OBVIOUS
  <1>2. \A i \in Inums : F[i] = IF i = ROOTINO THEN a ELSE FreeInode
    BY <1>1 DEF Made
  <1>3. ROOTINO \in Inums /\ ROOTINO \in 0 .. NINODES /\ ROOTINO # 0 /\ 1 \in 0 .. NLINK_MAX /\ 0 \in 0 .. NLINK_MAX
        /\ 0 \in 0 .. NINODES /\ ROOTINO \in Nat
    BY NodeConstants
  <1>4. NoEntries \in [Entries -> 0 .. NINODES] /\ \A n \in Entries : NoEntries[n] = 0
    BY <1>3 DEF NoEntries
  <1>5. FreeInode \in Inodes /\ FreeInode.type = "free" /\ FreeInode.nlink = 0 /\ FreeInode.ent = NoEntries
    BY <1>3, <1>4 DEF FreeInode, Inodes, Types
  <1>6. /\ a \in Inodes /\ a.type = "dir" /\ a.nlink = 1
        /\ a.ent[UP] = ROOTINO /\ \A n \in Names : a.ent[n] = 0
    <2>1. PICK b : b = [NoEntries EXCEPT ![UP] = ROOTINO]
      OBVIOUS
    <2>2. b \in [Entries -> 0 .. NINODES] /\ b[UP] = ROOTINO /\ \A n \in Names : b[n] = 0
      BY <1>3, <1>4, <2>1, NodeConstants
    <2> QED BY <1>1, <1>3, <2>1, <2>2 DEF Inodes, Types
  <1>7. F \in [Inums -> Inodes] /\ Shapes(F)
    <2>1. F \in [Inums -> Inodes]
      BY <1>1, <1>2, <1>5, <1>6 DEF Made
    <2> QED BY <1>2, <1>5, <1>6, <2>1 DEF Shapes
  <1>8. InTree(F, {}) = {ROOTINO}
    <2>1. 1 > 0 /\ ~(0 > 0)
      OBVIOUS
    <2> QED BY <1>2, <1>3, <1>5, <1>6, <2>1 DEF InTree
  <1>9. PICK g : g = Pointers(F, {ROOTINO})
    OBVIOUS
  <1>10. /\ DOMAIN g = Inums \X Entries
         /\ \A i \in Inums, n \in Entries : g[<<i, n>>] = IF i = ROOTINO /\ n = UP THEN ROOTINO ELSE 0
    <2>1. /\ DOMAIN g = Inums \X Entries
          /\ \A i \in Inums, n \in Entries : g[<<i, n>>] = IF i \in {ROOTINO} THEN F[i].ent[n] ELSE 0
      BY <1>9 DEF Pointers
    <2> QED BY <1>2, <1>3, <1>6, <2>1, NodeConstants
  <1>11. PICK rank : rank \in [Inums -> Nat]
    <2>1. [i \in Inums |-> i] \in [Inums -> Nat]
      BY NodeConstants
    <2> QED BY <2>1
  <1>12. Tree(F, {ROOTINO}, g, rank)
    <2>1. g[<<ROOTINO, UP>>] = ROOTINO
      BY <1>3, <1>10, NodeConstants
    <2>2. \A e \in {ROOTINO}, n \in Names : g[<<e, n>>] = 0
      BY <1>3, <1>10, NodeConstants
    <2>3. \A d \in Inums \ {ROOTINO}, n \in Names : F[d].ent[n] = 0
      BY <1>2, <1>4, <1>5, NodeConstants
    <2> QED BY <1>3, <2>1, <2>2, <2>3, NodeConstants DEF Tree
  <1>13. ASSUME NEW i \in Inums PROVE F[i].nlink = Count(g, i)
    <2>1. CASE i = ROOTINO
      <3>1. PICK x : x = <<ROOTINO, UP>>
        OBVIOUS
      <3>2. {q \in DOMAIN g : g[q] = i} = {x}
        <4>1. ASSUME NEW q \in Inums \X Entries PROVE g[q] = i <=> q = x
          <5>1. PICK e \in Inums, n \in Entries : q = <<e, n>>
            OBVIOUS
          <5> QED BY <1>3, <1>10, <2>1, <3>1, <5>1
        <4>2. x \in Inums \X Entries
          BY <1>3, <3>1, NodeConstants
        <4> QED BY <1>10, <4>1, <4>2
      <3>3. Cardinality({x}) = 1
        BY FS_Singleton
      <3> QED BY <1>2, <1>6, <2>1, <3>2, <3>3 DEF Count
    <2>2. CASE i # ROOTINO
      <3>1. {q \in DOMAIN g : g[q] = i} = {}
        <4>1. ASSUME NEW q \in Inums \X Entries PROVE g[q] # i
          <5>1. PICK e \in Inums, n \in Entries : q = <<e, n>>
            OBVIOUS
          <5> QED BY <1>10, <2>2, <5>1, NodeConstants
        <4> QED BY <1>10, <4>1
      <3> QED BY <1>2, <1>5, <2>2, <3>1, FS_EmptySet DEF Count
    <2> QED BY <2>1, <2>2
  <1> QED BY <1>1, <1>7, <1>8, <1>9, <1>11, <1>12, <1>13 DEF SoundDisk

\* and so is one on which an earlier boot has made a directory.
LEMMA WithDirectoryIsSound ==
  ASSUME NEW m \in Names, m \in Existing
  PROVE  SoundDisk(WithDirectory(m))
  <1>1. PICK F, u : F = WithDirectory(m) /\ u = [NoEntries EXCEPT ![UP] = ROOTINO]
    OBVIOUS
  <1>2. PICK v, a, b : /\ v = [u EXCEPT ![m] = 2]
                       /\ a = [type |-> "dir", nlink |-> 2, ent |-> v]
                       /\ b = [type |-> "dir", nlink |-> 1, ent |-> u]
    OBVIOUS
  <1>3. NINODES > 1 /\ NLINK_MAX > 1
    BY InodesAssumption
  <1>4. /\ ROOTINO \in Inums /\ 2 \in Inums /\ 2 # ROOTINO /\ ROOTINO # 0 /\ ROOTINO \in 0 .. NINODES
        /\ 2 \in 0 .. NINODES /\ 0 \in 0 .. NINODES
        /\ 0 \in 0 .. NLINK_MAX /\ 1 \in 0 .. NLINK_MAX /\ 2 \in 0 .. NLINK_MAX
    BY <1>3, NodeConstants DEF ROOTINO
  <1>5. NoEntries \in [Entries -> 0 .. NINODES] /\ (\A n \in Entries : NoEntries[n] = 0)
        /\ m \in Entries /\ UP \in Entries /\ m # UP
    BY <1>4, NodeConstants DEF NoEntries
  <1>6. FreeInode \in Inodes /\ FreeInode.type = "free" /\ FreeInode.nlink = 0 /\ FreeInode.ent = NoEntries
    BY <1>4, <1>5 DEF FreeInode, Inodes, Types
  <1>7. /\ u \in [Entries -> 0 .. NINODES] /\ v \in [Entries -> 0 .. NINODES]
        /\ u[UP] = ROOTINO /\ v[UP] = ROOTINO /\ v[m] = 2
        /\ \A n \in Names : u[n] = 0 /\ (n # m => v[n] = 0)
    <2>1. u \in [Entries -> 0 .. NINODES] /\ u[UP] = ROOTINO /\ \A n \in Names : u[n] = 0
      BY <1>1, <1>4, <1>5, NodeConstants
    <2> QED BY <1>2, <1>4, <1>5, <2>1, NodeConstants
  <1>8. /\ a \in Inodes /\ a.type = "dir" /\ a.nlink = 2 /\ a.ent = v
        /\ b \in Inodes /\ b.type = "dir" /\ b.nlink = 1 /\ b.ent = u
    BY <1>2, <1>4, <1>7 DEF Inodes, Types
  <1>9. F \in [Inums -> Inodes] /\ \A i \in Inums : F[i] = IF i = ROOTINO THEN a ELSE IF i = 2 THEN b ELSE FreeInode
    <2>1. PICK G : G = Made
      OBVIOUS
    <2>2. /\ DOMAIN G = Inums /\ G[ROOTINO] = b
          /\ \A i \in Inums : i # ROOTINO => G[i] = FreeInode
      BY <1>1, <1>2, <1>4, <2>1 DEF Made
    <2>3. F = [G EXCEPT ![ROOTINO].nlink = 2, ![ROOTINO].ent[m] = 2, ![2] = b]
      BY <1>1, <1>2, <2>1 DEF WithDirectory
    <2>4. F[ROOTINO] = a
      BY <1>2, <1>4, <2>2, <2>3
    <2> QED BY <1>4, <1>6, <1>8, <2>2, <2>3, <2>4
  <1>10. Shapes(F)
    BY <1>6, <1>8, <1>9 DEF Shapes
  <1>11. PICK A : A = {ROOTINO, 2}
    OBVIOUS
  <1>12. InTree(F, {}) = A /\ A \subseteq Inums
    <2>1. 1 > 0 /\ 2 > 0 /\ ~(0 > 0)
      OBVIOUS
    <2> QED BY <1>4, <1>6, <1>8, <1>9, <1>11, <2>1 DEF InTree
  <1>13. PICK g : g = Pointers(F, A)
    OBVIOUS
  <1>14. /\ DOMAIN g = Inums \X Entries
         /\ \A n \in Entries : g[<<ROOTINO, n>>] = IF n = UP THEN ROOTINO ELSE IF n = m THEN 2 ELSE 0
         /\ \A n \in Entries : g[<<2, n>>] = IF n = UP THEN ROOTINO ELSE 0
         /\ \A i \in Inums, n \in Entries : i \notin A => g[<<i, n>>] = 0
    <2>1. /\ DOMAIN g = Inums \X Entries
          /\ \A i \in Inums, n \in Entries : g[<<i, n>>] = IF i \in A THEN F[i].ent[n] ELSE 0
      BY <1>13 DEF Pointers
    <2>2. \A n \in Entries : n = UP \/ n \in Names
      BY NodeConstants
    <2> QED BY <1>4, <1>5, <1>7, <1>8, <1>9, <1>11, <2>1, <2>2
  <1>15. PICK rank : rank \in [Inums -> Nat] /\ \A i \in Inums : rank[i] = i
    <2>1. PICK h : h = [i \in Inums |-> i]
      OBVIOUS
    <2>2. h \in [Inums -> Nat] /\ \A i \in Inums : h[i] = i
      BY <2>1, NodeConstants
    <2> QED BY <2>2
  <1>16. Tree(F, A, g, rank)
    <2>1. ROOTINO \in A /\ 2 \in A /\ g[<<ROOTINO, UP>>] = ROOTINO /\ g[<<2, UP>>] = ROOTINO /\ g[<<ROOTINO, m>>] = 2
      BY <1>4, <1>5, <1>11, <1>14
    <2>2. rank[ROOTINO] < rank[2]
      BY <1>4, <1>15 DEF ROOTINO
    <2>3. ASSUME NEW d \in A, d # ROOTINO
          PROVE  \E e \in A : g[<<d, UP>>] = e /\ rank[e] < rank[d] /\ \E n \in Names : g[<<e, n>>] = d
      <3>1. d = 2
        BY <1>11, <2>3
      <3> QED BY <2>1, <2>2, <3>1
    <2>4. ASSUME NEW e \in A, NEW n \in Names, NEW d \in Inums, g[<<e, n>>] = d
          PROVE  e = ROOTINO /\ n = m /\ d = 2
      <3>1. n \in Entries /\ n # UP /\ d # 0
        BY NodeConstants
      <3> QED BY <1>11, <1>14, <2>4, <3>1
    <2>5. \A d \in Inums \ A, n \in Names : F[d].ent[n] = 0
      BY <1>5, <1>6, <1>9, <1>11, NodeConstants
    <2>6. \A e \in A, n \in Names, d \in Inums : g[<<e, n>>] = d /\ F[d].type = "dir" =>
             d \in A /\ d # ROOTINO /\ g[<<d, UP>>] = e /\ \A x \in Names : g[<<e, x>>] = d => x = n
      BY <1>4, <2>1, <2>4
    <2> QED BY <2>1, <2>3, <2>5, <2>6 DEF Tree
  <1>17. ASSUME NEW i \in Inums PROVE F[i].nlink = Count(g, i)
    <2>1. PICK x, y, z : x = <<ROOTINO, UP>> /\ y = <<2, UP>> /\ z = <<ROOTINO, m>>
      OBVIOUS
    <2>2. /\ x \in Inums \X Entries /\ y \in Inums \X Entries /\ z \in Inums \X Entries /\ x # y
          /\ g[x] = ROOTINO /\ g[y] = ROOTINO /\ g[z] = 2
      BY <1>4, <1>5, <1>14, <2>1
    <2>3. \A q \in Inums \X Entries : q = x \/ q = y \/ q = z \/ g[q] = 0
      <3>1. ASSUME NEW q \in Inums \X Entries PROVE q = x \/ q = y \/ q = z \/ g[q] = 0
        <4>1. PICK e \in Inums, n \in Entries : q = <<e, n>>
          OBVIOUS
        <4>2. CASE e = ROOTINO
          BY <1>14, <2>1, <4>1, <4>2
        <4>3. CASE e = 2
          BY <1>14, <2>1, <4>1, <4>3
        <4>4. CASE e \notin A
          BY <1>14, <4>1, <4>4
        <4> QED BY <1>11, <4>2, <4>3, <4>4
      <3> QED BY <3>1
    <2>4. CASE i = ROOTINO
      <3>1. {q \in DOMAIN g : g[q] = i} = {x} \cup {y}
        BY <1>4, <1>14, <2>2, <2>3, <2>4
      <3>2. Cardinality({x} \cup {y}) = 2
        <4>1. IsFiniteSet({x}) /\ Cardinality({x}) = 1 /\ y \notin {x}
          BY <2>2, FS_Singleton
        <4>2. Cardinality({x} \cup {y}) = IF y \in {x} THEN Cardinality({x}) ELSE Cardinality({x}) + 1
          BY <4>1, FS_AddElement
        <4> QED BY <4>1, <4>2
      <3> QED BY <1>8, <1>9, <2>4, <3>1, <3>2 DEF Count
    <2>5. CASE i = 2
      <3>1. {q \in DOMAIN g : g[q] = i} = {z}
        BY <1>4, <1>14, <2>2, <2>3, <2>5
      <3>2. Cardinality({z}) = 1
        BY FS_Singleton
      <3> QED BY <1>4, <1>8, <1>9, <2>5, <3>1, <3>2 DEF Count
    <2>6. CASE i # ROOTINO /\ i # 2
      <3>1. {q \in DOMAIN g : g[q] = i} = {}
        BY <1>14, <2>2, <2>3, <2>6, NodeConstants
      <3> QED BY <1>6, <1>9, <2>6, <3>1, FS_EmptySet DEF Count
    <2> QED BY <2>4, <2>5, <2>6
  <1> QED BY <1>1, <1>9, <1>10, <1>12, <1>13, <1>15, <1>16, <1>17 DEF SoundDisk

\* A step between the begin_op() and the end_op() of p
Works(p) ==
    /\ l[p].pc # "user" /\ l'[p].pc # "user"
    /\ \A q \in Users : q # p => l'[q] = l[q]
    /\ UNCHANGED <<image, active, calls, crashes, booted>>

Middle(p) ==
    \/ PutKeeps(p) \/ PutTruncates(p) \/ PutDrops(p) \/ PutFrees(p)
    \/ WalkEnds(p) \/ WalkOn(p) \/ WalkParent(p)
    \/ \E opens \in BOOLEAN : Open(p, opens) \/ Created(p, opens) \/ Exists(p, opens)
    \/ Chdir(p)
    \/ Unlink(p) \/ UnlinkBoth(p) \/ UnlinkIp(p) \/ UnlockDp(p)
    \/ CreateFails(p) \/ CreateFinds(p) \/ CreateAllocs(p) \/ CreateLinks(p) \/ CreateUndo(p)
    \/ \E path \in Paths : Link(p, path)
    \/ \E room \in BOOLEAN : LinkDp(p, room)
    \/ LinkPut(p) \/ LinkUndo(p)

\* Who goes on with a call works on it.
LEMMA BecomesWork ==
  ASSUME l \in [Users -> Locals], NEW p \in Users, NEW r, Become(p, r), r.pc # "user", l[p].pc # "user", Unchanged
  PROVE  Works(p)
  BY DEF Become, Unchanged, Works

\* Once it is begun a call works until it ends.
LEMMA MiddleWorks ==
  ASSUME l \in [Users -> Locals], NEW p \in Users, InControl(l[p]), Middle(p)
  PROVE  Works(p)
  <1>1. PICK o : o = l[p] /\ o \in Locals /\ o.call \in Calls
    BY DEF Locals
  <1>2. \A label \in Labels : To(o, label).pc = label
    BY <1>1, ToFacts
  <1>3. \A x, i, label : x \in Locals => PutThen(x, i, label).pc = "put"
    BY DEF PutThen, Locals
  <1>4. \A label \in Labels : \A x : [To(o, label) EXCEPT !.other = x].pc = label
    BY <1>1 DEF To, Locals
  <1>5. \A x, i, rest : [To(o, "walk") EXCEPT !.parent = TRUE, !.other = x, !.ip = i, !.rest = rest].pc = "walk"
    BY <1>1 DEF To, Locals
  <1>6. "user" \notin {"end", "unlinkboth", "newip"} /\ {"end", "unlinkboth", "newip"} \cup {"open", "create"} \subseteq Labels
    BY DEF Labels
  <1>7. CASE PutKeeps(p)
    <2>1. o.pc = "put" /\ Become(p, To(o, o.ret)) /\ Unchanged
      BY <1>1, <1>7 DEF PutKeeps
    <2>2. o.ret \in Rets /\ Rets \subseteq Labels /\ "user" \notin Rets
      BY <1>1, <2>1 DEF InControl, Rets, Labels
    <2> QED BY <1>1, <1>2, <2>1, <2>2, BecomesWork
  <1>8. CASE PutTruncates(p)
    <2>1. o.pc = "put" /\ Become(p, To(o, "drop")) /\ Unchanged /\ "drop" \in Labels
      BY <1>1, <1>8 DEF PutTruncates, Labels
    <2> QED BY <1>1, <1>2, <2>1, BecomesWork
  <1>9. CASE PutDrops(p)
    <2>1. o.pc = "drop" /\ Become(p, To(o, "ifree")) /\ Unchanged /\ "ifree" \in Labels
      BY <1>1, <1>9 DEF PutDrops, Labels
    <2> QED BY <1>1, <1>2, <2>1, BecomesWork
  <1>10. CASE PutFrees(p)
    <2>1. o.pc = "ifree" /\ Become(p, To(o, o.ret)) /\ Unchanged
      BY <1>1, <1>10 DEF PutFrees
    <2>2. o.ret \in Rets /\ Rets \subseteq Labels /\ "user" \notin Rets
      BY <1>1, <2>1 DEF InControl, Rets, Labels
    <2> QED BY <1>1, <1>2, <2>1, <2>2, BecomesWork
  <1>11. CASE WalkEnds(p)
    <2>1. /\ o.pc = "walk" /\ Unchanged
          /\ Become(p, IF o.parent THEN PutThen(o, o.ip, Failed(p)) ELSE To(o, o.call))
      BY <1>1, <1>11 DEF WalkEnds
    <2>2. o.call # "user"
      BY <1>1 DEF Calls
    <2>3. To(o, o.call).pc = o.call
      BY <1>1 DEF To, Locals
    <2> QED BY <1>1, <1>3, <2>1, <2>2, <2>3, BecomesWork
  <1>12. CASE WalkOn(p)
    <2>1. PICK next : next = fs[o.ip].ent[Head(o.rest)]
      OBVIOUS
    <2>2. /\ o.pc # "user" /\ Unchanged
          /\ \/ Become(p, PutThen([o EXCEPT !.ip = next, !.rest = Tail(@)], o.ip, "walk"))
             \/ Become(p, PutThen(o, o.ip, Failed(p)))
      BY <1>1, <1>12, <2>1 DEF WalkOn
    <2>3. PutThen([o EXCEPT !.ip = next, !.rest = Tail(@)], o.ip, "walk").pc = "put"
      BY <1>1 DEF PutThen, Locals
    <2> QED BY <1>1, <1>3, <2>2, <2>3, BecomesWork
  <1>13. CASE WalkParent(p)
    <2>1. To(o, o.call).pc = o.call /\ o.call # "user"
      BY <1>1 DEF To, Locals, Calls
    <2>2. o.pc # "user" /\ Unchanged
          /\ (Become(p, To(o, o.call)) \/ Become(p, PutThen(o, o.ip, Failed(p))))
      BY <1>1, <1>13 DEF WalkParent
    <2> QED BY <1>1, <1>2, <1>3, <1>4, <1>5, <1>6, <2>1, <2>2, BecomesWork
  <1>14. CASE \E opens \in BOOLEAN : Open(p, opens)
    <2>1. PICK opens : opens \in BOOLEAN /\ Open(p, opens)
      BY <1>14
    <2>2. o.pc # "user" /\ Unchanged
          /\ (Become(p, To(o, "end")) \/ Become(p, PutThen(o, o.ip, "end")))
      BY <1>1, <2>1 DEF Open, Install
    <2> QED BY <1>1, <1>2, <1>3, <1>4, <1>5, <1>6, <2>2, BecomesWork
  <1>15. CASE \E opens \in BOOLEAN : Created(p, opens)
    <2>1. PICK opens : opens \in BOOLEAN /\ Created(p, opens)
      BY <1>15
    <2>2. o.pc # "user" /\ Unchanged
          /\ (Become(p, To(o, "end")) \/ Become(p, PutThen(o, o.other, "end")))
      BY <1>1, <2>1 DEF Created, Install
    <2> QED BY <1>1, <1>2, <1>3, <1>4, <1>5, <1>6, <2>2, BecomesWork
  <1>16. CASE \E opens \in BOOLEAN : Exists(p, opens)
    <2>1. PICK opens : opens \in BOOLEAN /\ Exists(p, opens)
      BY <1>16
    <2>2. o.pc # "user" /\ Unchanged
          /\ (Become(p, To(o, "end")) \/ Become(p, PutThen(o, o.other, "end")))
      BY <1>1, <2>1 DEF Exists, Install
    <2> QED BY <1>1, <1>2, <1>3, <1>4, <1>5, <1>6, <2>2, BecomesWork
  <1>17. CASE Chdir(p)
    <2>1. o.pc # "user" /\ Unchanged
          /\ (Become(p, PutThen(o, cwd[p], "cd")) \/ Become(p, PutThen(o, o.ip, "end")))
      BY <1>1, <1>17 DEF Chdir
    <2> QED BY <1>1, <1>2, <1>3, <1>4, <1>5, <1>6, <2>1, BecomesWork
  <1>18. CASE Unlink(p)
    <2>1. PICK child : child = fs[o.ip].ent[Name(p)]
      OBVIOUS
    <2>2. o.pc # "user" /\ Unchanged
          /\ (Become(p, PutThen(o, o.ip, "end")) \/ Become(p, [To(o, "unlinkboth") EXCEPT !.other = child]))
      BY <1>1, <1>18, <2>1 DEF Unlink
    <2> QED BY ZenonT(30), <1>1, <1>2, <1>3, <1>4, <1>5, <1>6, <2>2, BecomesWork
  <1>19. CASE UnlinkBoth(p)
    <2>1. o.pc # "user" /\ Unchanged
          /\ (Become(p, PutThen(o, o.other, "unlockdp")) \/ Become(p, PutThen(o, o.ip, "unlinkip")))
      BY Zenon, <1>1, <1>19 DEF UnlinkBoth
    <2> QED BY <1>1, <1>2, <1>3, <1>4, <1>5, <1>6, <2>1, BecomesWork
  <1>20. CASE UnlinkIp(p)
    <2>1. o.pc # "user" /\ Unchanged
          /\ (Become(p, PutThen(o, o.other, "end")))
      BY <1>1, <1>20 DEF UnlinkIp
    <2> QED BY <1>1, <1>2, <1>3, <1>4, <1>5, <1>6, <2>1, BecomesWork
  <1>21. CASE UnlockDp(p)
    <2>1. o.pc # "user" /\ Unchanged
          /\ (Become(p, PutThen(o, o.ip, "end")))
      BY <1>1, <1>21 DEF UnlockDp
    <2> QED BY <1>1, <1>2, <1>3, <1>4, <1>5, <1>6, <2>1, BecomesWork
  <1>22. CASE CreateFails(p)
    <2>1. o.pc # "user" /\ Unchanged
          /\ (Become(p, PutThen(o, o.ip, "end")))
      BY <1>1, <1>22 DEF CreateFails
    <2> QED BY <1>1, <1>2, <1>3, <1>4, <1>5, <1>6, <2>1, BecomesWork
  <1>23. CASE CreateFinds(p)
    <2>1. PICK i : i = fs[o.ip].ent[Name(p)]
      OBVIOUS
    <2>2. o.pc # "user" /\ Unchanged /\ Become(p, PutThen([o EXCEPT !.other = i], o.ip, "exists"))
      BY <1>1, <1>23, <2>1 DEF CreateFinds
    <2>3. PutThen([o EXCEPT !.other = i], o.ip, "exists").pc = "put"
      BY <1>1 DEF PutThen, Locals
    <2> QED BY <1>1, <2>2, <2>3, BecomesWork
  <1>24. CASE CreateAllocs(p)
    <2>1. PICK i : o.pc # "user" /\ Unchanged /\ Become(p, [To(o, "newip") EXCEPT !.other = i])
      BY <1>1, <1>24 DEF CreateAllocs
    <2> QED BY <1>1, <1>4, <1>6, <2>1, BecomesWork
  <1>25. CASE CreateLinks(p)
    <2>1. o.pc # "user" /\ Unchanged
          /\ (Become(p, PutThen(o, o.ip, "created")))
      BY Zenon, <1>1, <1>25 DEF CreateLinks
    <2> QED BY <1>1, <1>2, <1>3, <1>4, <1>5, <1>6, <2>1, BecomesWork
  <1>26. CASE CreateUndo(p)
    <2>1. o.pc # "user" /\ Unchanged
          /\ (Become(p, PutThen(o, o.other, "unlockdp")))
      BY <1>1, <1>26 DEF CreateUndo
    <2> QED BY <1>1, <1>2, <1>3, <1>4, <1>5, <1>6, <2>1, BecomesWork
  <1>27. CASE \E path \in Paths : Link(p, path)
    <2>1. PICK path : path \in Paths /\ Link(p, path)
      BY <1>27
    <2>2. o.pc # "user" /\ Unchanged
          /\ (Become(p, PutThen(o, o.ip, "end")) \/ Become(p, [To(o, "walk") EXCEPT !.parent = TRUE, !.other = o.ip, !.ip = Start(p, path), !.rest = Elements(path)]))
      BY <1>1, <2>1 DEF Link
    <2> QED BY <1>1, <1>2, <1>3, <1>4, <1>5, <1>6, <2>2, BecomesWork
  <1>28. CASE \E room \in BOOLEAN : LinkDp(p, room)
    <2>1. PICK room : room \in BOOLEAN /\ LinkDp(p, room)
      BY <1>28
    <2>2. o.pc # "user" /\ Unchanged
          /\ (Become(p, PutThen(o, o.ip, "linkput")) \/ Become(p, PutThen(o, o.ip, "linkundo")))
      BY <1>1, <2>1 DEF LinkDp
    <2> QED BY <1>1, <1>2, <1>3, <1>4, <1>5, <1>6, <2>2, BecomesWork
  <1>29. CASE LinkPut(p)
    <2>1. o.pc # "user" /\ Unchanged
          /\ (Become(p, PutThen(o, o.other, "end")))
      BY <1>1, <1>29 DEF LinkPut
    <2> QED BY <1>1, <1>2, <1>3, <1>4, <1>5, <1>6, <2>1, BecomesWork
  <1>30. CASE LinkUndo(p)
    <2>1. o.pc # "user" /\ Unchanged
          /\ (Become(p, PutThen(o, o.ip, "end")) \/ Become(p, PutThen(o, o.other, "end")))
      BY <1>1, <1>30 DEF LinkUndo
    <2> QED BY <1>1, <1>2, <1>3, <1>4, <1>5, <1>6, <2>1, BecomesWork
  <1>31. CASE \E opens \in BOOLEAN : Open(p, opens) \/ Created(p, opens) \/ Exists(p, opens)
    BY <1>14, <1>15, <1>16, <1>31
  <1>32. /\ PutKeeps(p) => Works(p)
         /\ PutTruncates(p) => Works(p)
         /\ PutDrops(p) => Works(p)
         /\ PutFrees(p) => Works(p)
         /\ WalkEnds(p) => Works(p)
         /\ WalkOn(p) => Works(p)
         /\ WalkParent(p) => Works(p)
    BY <1>7, <1>8, <1>9, <1>10, <1>11, <1>12, <1>13
  <1>33. /\ Chdir(p) => Works(p)
         /\ Unlink(p) => Works(p)
         /\ UnlinkBoth(p) => Works(p)
         /\ UnlinkIp(p) => Works(p)
         /\ UnlockDp(p) => Works(p)
         /\ CreateFails(p) => Works(p)
         /\ CreateFinds(p) => Works(p)
         /\ CreateAllocs(p) => Works(p)
         /\ CreateLinks(p) => Works(p)
         /\ CreateUndo(p) => Works(p)
    BY <1>17, <1>18, <1>19, <1>20, <1>21, <1>22, <1>23, <1>24, <1>25, <1>26
  <1>34. /\ (\E path \in Paths : Link(p, path)) => Works(p)
         /\ (\E room \in BOOLEAN : LinkDp(p, room)) => Works(p)
         /\ LinkPut(p) => Works(p)
         /\ LinkUndo(p) => Works(p)
    BY <1>27, <1>28, <1>29, <1>30
  <1>35. (\E opens \in BOOLEAN : Open(p, opens) \/ Created(p, opens) \/ Exists(p, opens)) => Works(p)
    BY <1>31
  <1>36. CASE \/ PutKeeps(p) \/ PutTruncates(p) \/ PutDrops(p) \/ PutFrees(p)
              \/ WalkEnds(p) \/ WalkOn(p) \/ WalkParent(p)
    BY <1>32, <1>36
  <1>37. CASE \/ Chdir(p)
              \/ Unlink(p) \/ UnlinkBoth(p) \/ UnlinkIp(p) \/ UnlockDp(p)
              \/ CreateFails(p) \/ CreateFinds(p) \/ CreateAllocs(p) \/ CreateLinks(p) \/ CreateUndo(p)
    BY <1>33, <1>37
  <1>38. CASE \/ \E path \in Paths : Link(p, path)
              \/ \E room \in BOOLEAN : LinkDp(p, room)
              \/ LinkPut(p) \/ LinkUndo(p)
    BY <1>34, <1>38
  <1> QED BY <1>35, <1>36, <1>37, <1>38 DEF Middle

\* Whatever step a process takes between the begin_op() and the end_op(), the
\* references, the links and the tree stay right.
LEMMA MiddleKeeps ==
  ASSUME NEW s, NEW t, NodeStep(s, t), booted \in BOOLEAN, Coherent(s, booted), NEW p \in Users, Middle(p)
  PROVE  Coherent(t, booted)
  <1>1. /\ PutKeeps(p) => Coherent(t, booted)
        /\ PutTruncates(p) => Coherent(t, booted)
        /\ PutDrops(p) => Coherent(t, booted)
        /\ PutFrees(p) => Coherent(t, booted)
    BY PutKeepsKeeps, PutTruncatesKeeps, PutDropsKeeps, PutFreesKeeps
  <1>2. /\ WalkEnds(p) => Coherent(t, booted)
        /\ WalkOn(p) => Coherent(t, booted)
        /\ WalkParent(p) => Coherent(t, booted)
    BY WalkEndsKeeps, WalkOnKeeps, WalkParentKeeps
  <1>3. ASSUME NEW opens \in BOOLEAN
        PROVE  /\ Open(p, opens) => Coherent(t, booted)
               /\ Created(p, opens) => Coherent(t, booted)
               /\ Exists(p, opens) => Coherent(t, booted)
    BY OpenKeeps, CreatedKeeps, ExistsKeeps
  <1>4. /\ Chdir(p) => Coherent(t, booted)
        /\ Unlink(p) => Coherent(t, booted)
        /\ UnlinkBoth(p) => Coherent(t, booted)
        /\ UnlinkIp(p) => Coherent(t, booted)
        /\ UnlockDp(p) => Coherent(t, booted)
    BY ChdirKeeps, UnlinkKeeps, UnlinkRefuses, UnlinkBothKeeps, UnlinkIpKeeps, UnlockDpKeeps
  <1>5. /\ CreateFails(p) => Coherent(t, booted)
        /\ CreateFinds(p) => Coherent(t, booted)
        /\ CreateAllocs(p) => Coherent(t, booted)
        /\ CreateLinks(p) => Coherent(t, booted)
        /\ CreateUndo(p) => Coherent(t, booted)
    BY CreateFailsKeeps, CreateFindsKeeps, CreateAllocsKeeps, CreateLinksKeeps, CreateUndoKeeps
  <1>6. ASSUME NEW path \in Paths PROVE Link(p, path) => Coherent(t, booted)
    BY LinkFailsKeeps, LinkKeeps
  <1>7. ASSUME NEW room \in BOOLEAN PROVE LinkDp(p, room) => Coherent(t, booted)
    BY LinkDpFailsKeeps, LinkDpKeeps
  <1>8. LinkPut(p) \/ LinkUndo(p) => Coherent(t, booted)
    BY LinkPutKeeps, LinkUndoKeeps
  <1> QED BY <1>1, <1>2, <1>3, <1>4, <1>5, <1>6, <1>7, <1>8 DEF Middle

\* What else is under way
Tracked ==
    /\ \A p \in Users : p \in active <=> l[p].pc # "user"
    /\ active \subseteq Users /\ booted \in BOOLEAN
    /\ calls \in 0 .. MaxCalls /\ crashes \in 0 .. MaxCrashes

\* The three parts of the invariant
LEMMA IInvParts ==
  IInv <=> Coherent(Here, booted) /\ SoundDisk(image) /\ Tracked
  BY DEF IInv, Tracked

\* mkfs makes a sound disk, and so did an earlier boot.
LEMMA IInvInit ==
  ASSUME InodesInit
  PROVE  IInv
  <1>1. SoundDisk(fs)
    <2>1. PICK n \in Existing : fs = IF n = None THEN Made ELSE WithDirectory(n)
      BY DEF InodesInit
    <2>2. n # None => n \in Names
      BY InodesAssumption
    <2> QED BY <2>1, <2>2, MadeIsSound, WithDirectoryIsSound
  <1>2. Booted(Here, fs)
    BY DEF Booted, Here, InodesInit, AtBoot
  <1>3. booted = FALSE /\ image = fs
    BY DEF InodesInit, AtBoot
  <1>4. Coherent(Here, booted)
    BY Zenon, <1>1, <1>2, <1>3, BootIsCoherent
  <1>5. Tracked
    <2>1. active = {} /\ calls = 0 /\ crashes = 0 /\ l = [p \in Users |-> Idle]
      BY DEF InodesInit, AtBoot
    <2>2. \A p \in Users : l[p].pc = "user"
      BY <2>1 DEF Idle
    <2>3. 0 \in 0 .. MaxCalls /\ 0 \in 0 .. MaxCrashes
      BY InodesAssumption
    <2>4. booted \in BOOLEAN
      BY <1>3
    <2>5. active \subseteq Users /\ calls \in 0 .. MaxCalls /\ crashes \in 0 .. MaxCrashes
      BY <2>1, <2>3
    <2>6. \A p \in Users : p \in active <=> l[p].pc # "user"
      BY <2>1, <2>2
    <2> QED BY <2>5, <2>6, <2>4 DEF Tracked
  <1> QED BY <1>1, <1>3, <1>4, <1>5, IInvParts

\* A boot finds what was last committed, which is sound.
LEMMA IInvCrash ==
  ASSUME IInv, FsCrash
  PROVE  IInv'
  <1>1. SoundDisk(image) /\ image' = image /\ booted' = FALSE
    BY DEF IInv, FsCrash, AtBoot
  <1>2. PICK t : t = [fs |-> fs', itable |-> itable', cwd |-> cwd', file |-> file', l |-> l']
    OBVIOUS
  <1>3. Booted(t, image)
    BY <1>2 DEF Booted, FsCrash, AtBoot
  <1>4. Coherent(t, FALSE)
    BY Zenon, <1>1, <1>3, BootIsCoherent
  <1>5. Here' = t
    BY <1>2 DEF Here
  <1>6. Tracked'
    <2>1. active' = {} /\ calls' = calls /\ crashes < MaxCrashes /\ crashes' = crashes + 1 /\ l' = [p \in Users |-> Idle]
      BY DEF FsCrash, AtBoot
    <2>2. \A p \in Users : l'[p].pc = "user"
      BY <2>1 DEF Idle
    <2>3. calls \in 0 .. MaxCalls /\ crashes \in 0 .. MaxCrashes /\ MaxCalls \in Nat /\ MaxCrashes \in Nat
      BY InodesAssumption DEF IInv
    <2>4. crashes' \in 0 .. MaxCrashes
      BY <2>1, <2>3
    <2> QED BY <1>1, <2>1, <2>2, <2>3, <2>4 DEF Tracked
  <1>7. Coherent(Here, booted)'
    BY Zenon, <1>1, <1>4, <1>5
  <1>8. SoundDisk(image)'
    BY <1>1
  <1> QED BY <1>6, <1>7, <1>8, IInvParts, PTL

\* After ireclaim() every inode in use has a link.
LEMMA IInvBootEnd ==
  ASSUME IInv, BootEnd
  PROVE  IInv'
  <1>1. Coherent(Here, booted) /\ SoundDisk(image) /\ Tracked
    BY IInvParts
  <1>2. \A i \in Inums : fs[i].type # "free" => fs[i].nlink > 0
    BY DEF BootEnd
  <1>3. UNCHANGED <<fs, image, itable, active, cwd, file, l, calls, crashes>> /\ booted' = TRUE
    BY DEF BootEnd
  <1>4. PICK s : s = Here
    OBVIOUS
  <1>5. \A i \in Inums : Cared(s, TRUE, i)
    BY <1>2, <1>4 DEF Cared, Here
  <1>6. Coherent(s, TRUE)
    BY <1>1, <1>4, <1>5 DEF Coherent
  <1>7. Here' = s
    BY <1>3, <1>4 DEF Here
  <1>8. Coherent(Here, booted)' /\ SoundDisk(image)' /\ Tracked'
    BY <1>1, <1>3, <1>6, <1>7 DEF Tracked
  <1> QED BY <1>8, IInvParts, PTL

\* A call begins, or a close, or a reclaim.
Begins(p) ==
    \/ \E c \in Calls \ {"none", "close", "boot"}, path \in Paths : BeginCall(p, c, path)
    \/ Close(p)
    \/ \E i \in Inums : Reclaim(p, i)

\* A call begins with everything in order,
LEMMA BeginsKeeps ==
  ASSUME NEW s, NEW t, NodeStep(s, t), Coherent(s, booted), Tracked, NEW p \in Users, Begins(p)
  PROVE  Coherent(t, booted) /\ booted' = booted /\ image' = image
  <1>1. booted \in BOOLEAN
    BY DEF Tracked
  <1>2. ASSUME NEW c \in Calls \ {"none", "close", "boot"}, NEW path \in Paths, BeginCall(p, c, path)
        PROVE  Coherent(t, booted) /\ booted' = booted /\ image' = image
    BY Zenon, <1>1, <1>2, BeginCallKeeps DEF BeginCall
  <1>3. CASE Close(p)
    BY <1>1, <1>3, CloseKeeps DEF Close
  <1>4. ASSUME NEW i \in Inums, Reclaim(p, i)
        PROVE  Coherent(t, booted) /\ booted' = booted /\ image' = image
    <2>1. active = {} /\ booted' = booted /\ image' = image
      BY <1>4 DEF Reclaim
    <2>2. \A q \in Users : s.l[q].pc = "user"
      BY <2>1, NodeParts DEF Tracked
    <2> QED BY <1>1, <1>4, <2>1, <2>2, ReclaimKeeps
  <1> QED BY <1>2, <1>3, <1>4 DEF Begins

\* and its process is counted as active.
LEMMA BeginsTracked ==
  ASSUME l \in [Users -> Locals], Tracked, NEW p \in Users, Begins(p)
  PROVE  Tracked'
  <1>1. active \subseteq Users /\ booted \in BOOLEAN /\ calls \in 0 .. MaxCalls /\ crashes \in 0 .. MaxCrashes
        /\ \A q \in Users : q \in active <=> l[q].pc # "user"
    BY DEF Tracked
  <1>2. PICK r : Become(p, r) /\ r.pc # "user" /\ active' = active \cup {p} /\ booted' = booted /\ crashes' = crashes
                 /\ (calls' = calls \/ (calls < MaxCalls /\ calls' = calls + 1))
    <2>1. ASSUME NEW c \in Calls \ {"none", "close", "boot"}, NEW path \in Paths, BeginCall(p, c, path)
          PROVE  \E r : Become(p, r) /\ r.pc # "user" /\ active' = active \cup {p} /\ booted' = booted /\ crashes' = crashes
                        /\ (calls' = calls \/ (calls < MaxCalls /\ calls' = calls + 1))
      <3>1. PICK r : r = [Idle EXCEPT !.pc = "walk", !.call = c, !.rest = Elements(path),
                              !.parent = (c \in {"create", "mkdir", "unlink"}),
                              !.ip = Start(p, path)]
        OBVIOUS
      <3>2. r.pc = "walk"
        BY <3>1 DEF Idle
      <3>3. Become(p, r) /\ active' = active \cup {p} /\ booted' = booted /\ crashes' = crashes
            /\ calls < MaxCalls /\ calls' = calls + 1
        BY <2>1, <3>1 DEF BeginCall
      <3> QED BY <3>2, <3>3
    <2>2. CASE Close(p)
      <3>1. PICK r : r = PutThen([Idle EXCEPT !.call = "close"], file[p], "end")
        OBVIOUS
      <3>2. r.pc = "put"
        BY <3>1 DEF Idle, PutThen
      <3>3. Become(p, r) /\ active' = active \cup {p} /\ booted' = booted /\ crashes' = crashes /\ calls' = calls
        BY <2>2, <3>1 DEF Close
      <3> QED BY <3>2, <3>3
    <2>3. ASSUME NEW i \in Inums, Reclaim(p, i)
          PROVE  \E r : Become(p, r) /\ r.pc # "user" /\ active' = active \cup {p} /\ booted' = booted /\ crashes' = crashes
                        /\ (calls' = calls \/ (calls < MaxCalls /\ calls' = calls + 1))
      <3>1. PICK r : r = PutThen([Idle EXCEPT !.call = "boot"], i, "end")
        OBVIOUS
      <3>2. r.pc = "put"
        BY <3>1 DEF Idle, PutThen
      <3>3. Become(p, r) /\ active' = active \cup {p} /\ booted' = booted /\ crashes' = crashes /\ calls' = calls
        BY <2>3, <3>1 DEF Reclaim
      <3> QED BY <3>2, <3>3
    <2> QED BY <2>1, <2>2, <2>3 DEF Begins
  <1>3. l'[p] = r /\ \A q \in Users : q # p => l'[q] = l[q]
    BY <1>2 DEF Become
  <1>4. \A q \in Users : q \in active' <=> l'[q].pc # "user"
    BY <1>1, <1>2, <1>3
  <1>5. calls' \in 0 .. MaxCalls
    BY <1>1, <1>2, InodesAssumption
  <1> QED BY <1>1, <1>2, <1>4, <1>5 DEF Tracked

\* The last operation to end commits what is sound when none is under way.
LEMMA EndsKeep ==
  ASSUME NEW s, NEW t, NodeStep(s, t), Coherent(s, booted), SoundDisk(image), Tracked, NEW p \in Users,
         EndCall(p) \/ EndChdir(p)
  PROVE  Coherent(t, booted) /\ booted' = booted /\ SoundDisk(image') /\ Tracked'
  <1>1. active \subseteq Users /\ booted \in BOOLEAN /\ calls \in 0 .. MaxCalls /\ crashes \in 0 .. MaxCrashes
        /\ \A q \in Users : q \in active <=> l[q].pc # "user"
    BY DEF Tracked
  <1>2. Coherent(t, booted)
    BY <1>1, EndKeeps
  <1>3. /\ l[p].pc \in {"end", "cd"} /\ EndOp(p)
    BY DEF EndCall, EndChdir
  <1>4. /\ active' = active \ {p} /\ image' = (IF active = {p} THEN fs ELSE image) /\ Become(p, Idle)
        /\ booted' = booted /\ calls' = calls /\ crashes' = crashes
    BY <1>3 DEF EndOp
  <1>5. SoundDisk(image')
    <2>1. CASE active = {p}
      <3>1. \A q \in Users : s.l[q].pc \in {"user", "end", "cd"}
        BY <1>1, <1>3, <2>1, NodeParts
      <3>2. SoundDisk(s.fs)
        BY <3>1, QuietIsSound
      <3> QED BY <1>4, <2>1, <3>2, NodeParts
    <2>2. CASE active # {p}
      BY <1>4, <2>2
    <2> QED BY <2>1, <2>2
  <1>6. l'[p].pc = "user" /\ \A q \in Users : q # p => l'[q] = l[q]
    <2>1. l \in [Users -> Locals]
      BY NodeParts DEF Coherent, NodeStates
    <2> QED BY <1>4, <2>1 DEF Become, Idle
  <1>7. \A q \in Users : q \in active' <=> l'[q].pc # "user"
    BY <1>1, <1>4, <1>6
  <1> QED BY <1>1, <1>2, <1>4, <1>5, <1>7 DEF Tracked

\* A step within a call is no commit, and the call goes on.
LEMMA MiddleTracked ==
  ASSUME NEW s, NEW t, NodeStep(s, t), Coherent(s, booted), Tracked, NEW p \in Users, Middle(p)
  PROVE  Coherent(t, booted) /\ booted' = booted /\ image' = image /\ Tracked'
  <1>1. booted \in BOOLEAN
    BY DEF Tracked
  <1>2. Coherent(t, booted)
    BY Zenon, <1>1, MiddleKeeps
  <1>3. l \in [Users -> Locals] /\ InControl(l[p])
    BY NodeParts DEF Coherent, NodeStates, Knows
  <1>4. Works(p)
    BY <1>3, MiddleWorks
  <1> QED BY <1>2, <1>4 DEF Works, Tracked

\* Every step of a process keeps the invariant.
LEMMA IInvStep ==
  ASSUME IInv, NEW p \in Users, FsStep(p)
  PROVE  IInv'
  <1>1. Coherent(Here, booted) /\ SoundDisk(image) /\ Tracked
    BY IInvParts
  <1>2. PICK s, t : s = Here /\ t = [fs |-> fs', itable |-> itable', cwd |-> cwd', file |-> file', l |-> l']
    OBVIOUS
  <1>3. NodeStep(s, t) /\ Coherent(s, booted) /\ Here' = t
    BY <1>1, <1>2 DEF NodeStep, Here
  <1>4. l \in [Users -> Locals]
    BY <1>3, NodeParts DEF Coherent, NodeStates
  <1>5. Begins(p) \/ (EndCall(p) \/ EndChdir(p)) \/ Middle(p)
    BY DEF FsStep, Begins, Middle
  <1>6. Coherent(t, booted) /\ booted' = booted /\ SoundDisk(image') /\ Tracked'
    BY <1>1, <1>3, <1>4, <1>5, BeginsKeeps, BeginsTracked, EndsKeep, MiddleTracked
  <1>7. Coherent(Here, booted)' /\ SoundDisk(image)' /\ Tracked'
    BY <1>3, <1>6
  <1> QED BY <1>7, IInvParts, PTL

\* The invariant holds in every state, for any number of processes, inodes,
\* names, paths, calls and crashes.
THEOREM InodesInvariant == InodesSpec => []IInv
  <1>1. InodesInit => IInv
    BY IInvInit
  <1>2. IInv /\ [InodesNext]_inodeVars => IInv'
    <2> SUFFICES ASSUME IInv, [InodesNext]_inodeVars PROVE IInv'
      OBVIOUS
    <2>1. CASE FsCrash
      BY <2>1, IInvCrash
    <2>2. CASE BootEnd
      BY <2>2, IInvBootEnd
    <2>3. ASSUME NEW p \in Users, FsStep(p) PROVE IInv'
      BY <2>3, IInvStep
    <2>4. CASE UNCHANGED inodeVars
      <3>1. Here' = Here /\ booted' = booted /\ image' = image /\ active' = active /\ l' = l
            /\ calls' = calls /\ crashes' = crashes
        BY <2>4 DEF inodeVars, Here
      <3>2. Coherent(Here, booted)' /\ SoundDisk(image)' /\ Tracked'
        BY <3>1, IInvParts DEF Tracked
      <3> QED BY <3>2, IInvParts, PTL
    <2> QED BY <2>1, <2>2, <2>3, <2>4 DEF InodesNext
  <1> QED BY <1>1, <1>2, PTL DEF InodesSpec

-----------------------------------------------------------------------------
(* What the invariant means *)

\* What is coherent is well typed.
LEMMA IInvTyped ==
  IInv => InodesTypeOK
  <1> SUFFICES ASSUME IInv PROVE InodesTypeOK
    OBVIOUS
  <1>1. Here \in NodeStates /\ image \in [Inums -> Inodes]
    BY DEF IInv, Coherent, SoundDisk
  <1>2. /\ fs \in [Inums -> Inodes] /\ itable \in [Inums -> Slots] /\ cwd \in [Users -> Inums]
        /\ file \in [Users -> 0 .. NINODES] /\ l \in [Users -> Locals]
    BY <1>1 DEF Here, NodeStates
  <1> QED BY <1>1, <1>2 DEF IInv, InodesTypeOK

\* The entries of a sound disk
SoundEntries(F, g) ==
    /\ F \in [Inums -> Inodes] /\ Shapes(F) /\ DOMAIN g = Inums \X Entries
    /\ \A d \in Dirs(F), n \in Entries : g[<<d, n>>] = F[d].ent[n]
    /\ \A d \in Inums \ Dirs(F), n \in Entries : g[<<d, n>>] = 0
    /\ \E rank \in [Inums -> Nat] : Tree(F, Dirs(F), g, rank)
    /\ \A i \in Inums : F[i].nlink = Count(g, i)

\* A sound disk, with its entries named
LEMMA SoundFacts ==
  ASSUME NEW F, SoundDisk(F), NEW g, g = Pointers(F, Dirs(F))
  PROVE  SoundEntries(F, g)
  <1>1. Dirs(F) = InTree(F, {})
    BY DEF Dirs, Live, InTree
  <1>2. Dirs(F) \subseteq Inums
    BY DEF Dirs
  <1>3. /\ DOMAIN g = Inums \X Entries
        /\ \A d \in Dirs(F), n \in Entries : g[<<d, n>>] = F[d].ent[n]
        /\ \A d \in Inums \ Dirs(F), n \in Entries : g[<<d, n>>] = 0
    BY <1>2 DEF Pointers
  <1> QED BY <1>1, <1>3 DEF SoundDisk, SoundEntries

\* The entries that name i and the ".." that lead to it are what is counted.
LEMMA PointersCount ==
  ASSUME NEW F, SoundDisk(F), NEW g, g = Pointers(F, Dirs(F)), NEW i \in Inums
  PROVE  /\ IsFiniteSet(EntriesFor(F, i))
         /\ Count(g, i) = Cardinality(EntriesFor(F, i)) + Cardinality(Subdirs(F, i))
  <1>1. /\ DOMAIN g = Inums \X Entries /\ Dirs(F) \subseteq Inums
        /\ \A d \in Dirs(F), n \in Entries : g[<<d, n>>] = F[d].ent[n]
        /\ \A d \in Inums \ Dirs(F), n \in Entries : g[<<d, n>>] = 0
    <2>1. Dirs(F) \subseteq Inums
      BY DEF Dirs
    <2>2. SoundEntries(F, g)
      BY SoundFacts
    <2> QED BY <2>1, <2>2 DEF SoundEntries
  <1>2. PICK A, B, C : A = EntriesFor(F, i) /\ B = Subdirs(F, i) /\ C = {q \in DOMAIN g : g[q] = i}
    OBVIOUS
  <1>3. Entries = Names \cup {UP} /\ UP \notin Names /\ i # 0
    BY NodeConstants
  <1>4. A \subseteq Inums \X Entries
    BY <1>1, <1>2, <1>3 DEF EntriesFor
  <1>5. B \subseteq Inums
    BY <1>1, <1>2 DEF Subdirs
  <1>6. IsFiniteSet(A) /\ IsFiniteSet(B) /\ IsFiniteSet({UP}) /\ Cardinality({UP}) = 1
    BY <1>4, <1>5, NodeConstants, FS_Subset, FS_Singleton
  <1>7. IsFiniteSet(B \X {UP}) /\ Cardinality(B \X {UP}) = Cardinality(B)
    <2>1. Cardinality(B) \in Nat
      BY <1>6, FS_CardinalityType
    <2>2. IsFiniteSet(B \X {UP}) /\ Cardinality(B \X {UP}) = Cardinality(B) * Cardinality({UP})
      BY <1>6, FS_Product
    <2> QED BY <1>6, <2>1, <2>2
  <1>8. C = A \cup (B \X {UP})
    <2>1. ASSUME NEW d \in Inums, NEW n \in Entries
          PROVE  g[<<d, n>>] = i <=> <<d, n>> \in A \/ <<d, n>> \in B \X {UP}
      <3>1. CASE d \notin Dirs(F)
        BY <1>1, <1>2, <1>3, <3>1 DEF EntriesFor, Subdirs
      <3>2. CASE d \in Dirs(F)
        <4>1. g[<<d, n>>] = F[d].ent[n]
          BY <1>1, <3>2
        <4>2. n \in Names => (<<d, n>> \in A <=> F[d].ent[n] = i)
          BY <1>2, <3>2 DEF EntriesFor
        <4>3. n = UP => (<<d, n>> \in B \X {UP} <=> F[d].ent[n] = i)
          BY <1>2, <3>2 DEF Subdirs
        <4>4. (<<d, n>> \in A => n \in Names) /\ (<<d, n>> \in B \X {UP} => n = UP)
          BY <1>2 DEF EntriesFor
        <4> QED BY <1>3, <4>1, <4>2, <4>3, <4>4
      <3> QED BY <3>1, <3>2
    <2>2. B \X {UP} \subseteq Inums \X Entries
      BY <1>3, <1>5
    <2> QED BY <1>1, <1>2, <1>4, <2>1, <2>2
  <1>9. A \cap (B \X {UP}) = {}
    BY <1>2, <1>3 DEF EntriesFor
  <1>10. Cardinality(A \cup (B \X {UP})) = Cardinality(A) + Cardinality(B)
    <2>1. Cardinality(A) \in Nat /\ Cardinality(B) \in Nat /\ Cardinality({}) = 0
      BY <1>6, FS_CardinalityType, FS_EmptySet
    <2>2. Cardinality(A \cup (B \X {UP})) = Cardinality(A) + Cardinality(B \X {UP}) - Cardinality(A \cap (B \X {UP}))
      BY <1>6, <1>7, FS_Union
    <2>3. Cardinality(A \cap (B \X {UP})) = 0
      BY <1>9, <2>1
    <2> QED BY ONLY <1>7, <2>1, <2>2, <2>3
  <1> QED BY <1>2, <1>6, <1>8, <1>10 DEF Count

\* On a sound disk every link is counted and the directories are a tree.
LEMMA SoundIsConsistent ==
  ASSUME NEW F, SoundDisk(F)
  PROVE  Consistent(F)
  <1>1. PICK g : g = Pointers(F, Dirs(F))
    OBVIOUS
  <1>2. SoundEntries(F, g)
    BY <1>1, SoundFacts
  <1>3. /\ F \in [Inums -> Inodes] /\ Shapes(F) /\ DOMAIN g = Inums \X Entries
        /\ \A d \in Dirs(F), n \in Entries : g[<<d, n>>] = F[d].ent[n]
        /\ \A d \in Inums \ Dirs(F), n \in Entries : g[<<d, n>>] = 0
        /\ \A i \in Inums : F[i].nlink = Count(g, i)
    BY <1>2 DEF SoundEntries
  <1>4. PICK rank \in [Inums -> Nat] : Tree(F, Dirs(F), g, rank)
    BY <1>2 DEF SoundEntries
  <1>5. ROOTINO \in Dirs(F) /\ Dirs(F) \subseteq Inums
    BY <1>4 DEF Tree, Dirs
  <1>6. ASSUME NEW d \in Dirs(F), NEW n \in Entries, F[d].ent[n] # 0
        PROVE  Live(F, F[d].ent[n])
    <2>1. PICK i : i = F[d].ent[n]
      OBVIOUS
    <2>2. i \in Inums
      <3>1. F[d] \in Inodes
        BY <1>3, <1>5
      <3>2. F[d].ent[n] \in 0 .. NINODES
        BY <3>1 DEF Inodes
      <3> QED BY <1>6, <2>1, <3>2, NodeConstants
    <2>3. <<d, n>> \in DOMAIN g /\ g[<<d, n>>] = i /\ IsFiniteSet(DOMAIN g)
      BY <1>3, <1>5, <2>1, NodeConstants
    <2>4. Count(g, i) > 0
      BY <2>3, CountSome
    <2>5. F[i].nlink > 0
      BY <1>3, <2>2, <2>4
    <2>6. F[i].type # "free"
      <3>1. F[i].type = "free" => F[i].nlink = 0
        BY <1>3, <2>2 DEF Shapes, FreeInode
      <3> QED BY <2>5, <3>1
    <2> QED BY <2>1, <2>5, <2>6 DEF Live
  <1>7. ASSUME NEW d \in Dirs(F) \ {ROOTINO}
        PROVE  /\ EntriesFor(F, d) = {e \in EntriesFor(F, d) : e[1] = F[d].ent[UP]}
               /\ Cardinality(EntriesFor(F, d)) = 1
    <2>1. F[d].type = "dir" /\ d \in Inums /\ UP \in Entries /\ Names \subseteq Entries
      BY NodeConstants DEF Dirs
    <2>2. ASSUME NEW e \in Dirs(F), NEW n \in Names, F[e].ent[n] = d
          PROVE  F[d].ent[UP] = e /\ \A m \in Names : F[e].ent[m] = d => m = n
      <3>1. g[<<e, n>>] = d
        BY <1>3, <2>1, <2>2
      <3>2. g[<<d, UP>>] = e /\ \A m \in Names : g[<<e, m>>] = d => m = n
        BY <1>4, <2>1, <3>1 DEF Tree
      <3> QED BY <1>3, <2>1, <3>2
    <2>3. PICK e \in Dirs(F), n \in Names : F[e].ent[n] = d
      <3>1. PICK e \in Dirs(F) : \E n \in Names : g[<<e, n>>] = d
        BY <1>4 DEF Tree
      <3> QED BY <1>3, <2>1, <3>1
    <2>4. F[d].ent[UP] = e
      BY <2>2, <2>3
    <2>5. <<e, n>> \in EntriesFor(F, d)
      BY <2>3 DEF EntriesFor
    <2>6. ASSUME NEW z \in EntriesFor(F, d) PROVE z = <<e, n>> /\ z[1] = F[d].ent[UP]
      <3>1. PICK x \in Dirs(F), m \in Names : z = <<x, m>> /\ F[x].ent[m] = d
        BY DEF EntriesFor
      <3>2. x = e
        BY <2>2, <2>4, <3>1
      <3>3. m = n
        BY <2>2, <2>3, <3>1, <3>2
      <3> QED BY <2>4, <3>1, <3>2, <3>3
    <2>7. EntriesFor(F, d) = {<<e, n>>}
      BY <2>5, <2>6
    <2> QED BY <2>6, <2>7, FS_Singleton
  <1>8. ASSUME NEW i \in Inums
        PROVE  F[i].nlink = Cardinality(EntriesFor(F, i)) + Cardinality(Subdirs(F, i))
    BY <1>1, <1>3, PointersCount
  <1> QED BY <1>5, <1>6, <1>7, <1>8 DEF Consistent

\* Once the system is up no inode without links is lost.
LEMMA IInvNoOrphan ==
  IInv => NoOrphan
  <1> SUFFICES ASSUME IInv, booted, NEW i \in Inums, fs[i].type # "free", fs[i].nlink = 0
               PROVE  itable[i].ref > 0 \/ \E p \in Users : l[p].pc = "ifree" /\ l[p].victim = i
    BY DEF NoOrphan
  <1>1. PICK s : s = Here
    OBVIOUS
  <1>2. Coherent(s, booted) /\ s.fs = fs /\ s.itable = itable /\ s.l = l
    BY <1>1 DEF IInv, Here
  <1>3. Cared(s, booted, i)
    BY <1>2 DEF Coherent
  <1>4. CASE itable[i].ref > 0
    BY <1>4
  <1>5. CASE \E p \in Users : Alone(s.l[p], i)
    <2>1. PICK p \in Users : Alone(s.l[p], i)
      BY <1>5
    <2>2. CASE l[p].pc = "ifree"
      BY <1>2, <2>1, <2>2 DEF Alone
    <2>3. CASE l[p].pc # "ifree"
      <3>1. Of(s, p).other = i \/ Of(s, p).victim = i
        BY <1>2, <2>1, <2>3, HoldingFields DEF Of, Alone, Stage, OtherStages
      <3>2. Reaches(s, p, i)
        BY <3>1, ReachKinds
      <3> QED BY <1>2, <3>2, ReachCounts
    <2> QED BY <2>2, <2>3
  <1> QED BY <1>2, <1>3, <1>4, <1>5 DEF Cared

\* The inode a process is about to lock is one it has a reference to.
LEMMA TargetReached ==
  ASSUME NEW s, s = Here, NEW up, Coherent(s, up), NEW p \in Users, LockTarget(p) # 0
  PROVE  LockTarget(p) \in Inums /\ Reaches(s, p, LockTarget(p)) /\ Stage(l[p]) = l[p].pc
  <1>1. PICK r, i : r = s.l[p] /\ i = LockTarget(p)
    OBVIOUS
  <1>2. l[p] = r /\ InControl(r)
    BY <1>1 DEF Here, Coherent, Knows
  <1>3. \/ r.pc \in {"walk", "open", "chdir", "unlink", "create", "mkdir", "link"} /\ i = r.ip
        \/ r.pc \in {"unlinkboth", "newip", "exists", "linkundo"} /\ i = r.other
    BY <1>1, <1>2 DEF LockTarget
  <1>4. Stage(r) = r.pc
    BY <1>3 DEF Stage
  <1>5. \/ Stage(r) \in IpStages /\ i = r.ip
        \/ (Stage(r) \in OtherStages \/ Linking(r)) /\ i = r.other
    <2>1. r.pc = "linkundo" => Linking(r)
      BY <1>2, <1>4 DEF InControl, Linking
    <2> QED BY <1>3, <1>4, <2>1 DEF IpStages, OtherStages
  <1>6. i \in Inums
    BY <1>2, <1>5 DEF InControl
  <1>7. Of(s, p).ip = i \/ Of(s, p).other = i
    BY <1>1, <1>5, HoldingFields DEF Of
  <1> QED BY <1>1, <1>2, <1>4, <1>6, <1>7, ReachKinds

\* No process locks a freed inode or unlinks what has no link.
LEMMA NobodyPanics ==
  ASSUME NEW s, s = Here, Coherent(s, booted)
  PROVE  NoFreedInode
  <1>1. s.fs = fs /\ s.itable = itable /\ s.l = l
    BY DEF Here
  <1>2. \A i \in Inums : itable[i].valid => itable[i].type = fs[i].type /\ itable[i].nlink = fs[i].nlink
    BY <1>1 DEF Coherent, Slot
  <1>3. ASSUME NEW p \in Users PROVE ~IlockPanics(p)
    <2>1. SUFFICES ASSUME LockTarget(p) # 0, LockFree(LockTarget(p)) PROVE CanLock(LockTarget(p))
      BY DEF IlockPanics
    <2>2. fs[LockTarget(p)].type # "free"
      BY <1>1, <2>1, TargetReached, ReachCounts
    <2> QED BY <2>1, <2>2 DEF CanLock
  <1>4. ASSUME NEW p \in Users PROVE ~UnlinkPanics(p)
    <2>1. SUFFICES ASSUME l[p].pc = "unlinkboth" PROVE Loaded(l[p].other).nlink # 0
      BY DEF UnlinkPanics
    <2>2. PICK d, n, i : d = l[p].ip /\ n = Head(l[p].rest) /\ i = l[p].other
      OBVIOUS
    <2>3. Knows(s, p)
      BY DEF Coherent
    <2>4. d \in Dir(s) /\ n \in Names /\ s.fs[d].ent[n] = i
      BY <1>1, <2>1, <2>2, <2>3 DEF Knows
    <2>5. LockTarget(p) = i
      BY <2>1, <2>2 DEF LockTarget
    <2>6. InControl(l[p]) /\ Stage(l[p]) = "unlinkboth"
      BY <1>1, <2>1, <2>3 DEF Knows, Stage
    <2>7. i \in Inums
      BY <2>2, <2>6 DEF InControl, OtherStages
    <2>8. s.fs[i].nlink > 0
      BY <2>4, <2>7, NamedIsLinked, NodeConstants
    <2>9. fs[i].nlink # 0
      BY <1>1, <2>8
    <2>10. itable \in [Inums -> Slots]
      BY <1>1 DEF Coherent, NodeStates
    <2>11. Loaded(i).nlink = fs[i].nlink
      <3>1. CASE itable[i].valid
        BY <1>2, <2>7, <3>1 DEF Loaded
      <3>2. CASE ~itable[i].valid
        BY <2>7, <2>10, <3>2 DEF Loaded, Slots
      <3> QED BY <3>1, <3>2
    <2> QED BY <2>2, <2>9, <2>11
  <1> QED BY <1>2, <1>3, <1>4 DEF NoFreedInode

\* Whoever holds a lock has a reference that is not that of an iput().
LEMMA LastIsUnlocked ==
  ASSUME NEW s, s = Here, Coherent(s, booted), NEW p \in Users, l[p].pc = "put", LastLink(l[p].victim)
  PROVE  LockFree(l[p].victim)
  <1>1. PICK i : i = l[p].victim
    OBVIOUS
  <1>2. s.itable = itable /\ s.l = l
    BY Zenon DEF Here
  <1>3. i \in Inums
    BY <1>1, <1>2 DEF Coherent, Knows, InControl
  <1>4. Of(s, p)["victim"] = i /\ "victim" \in Kinds
    <2>1. Of(s, p).victim = i
      BY <1>1, <1>2, HoldingFields DEF Of
    <2> QED BY <2>1 DEF Kinds
  <1>5. s.itable[i].ref = 1
    BY <1>1, <1>2 DEF LastLink
  <1>6. \A z \in Users \X Kinds : References(s)[z] = i => z = <<p, "victim">>
    BY <1>3, <1>4, <1>5, OneReference
  <1>7. ASSUME NEW q \in Users, itable[i].lock = q PROVE FALSE
    <2>1. LockOf(s.l[q]) = i
      BY <1>2, <1>3, <1>7 DEF Coherent, Slot
    <2>2. \/ Stage(s.l[q]) \in IpStages /\ i = s.l[q].ip
          \/ Stage(s.l[q]) \in OtherStages /\ i = s.l[q].other
      BY <1>3, <2>1, NodeConstants DEF LockOf, IpStages, OtherStages
    <2>3. Of(s, q).ip = i \/ Of(s, q).other = i
      BY <2>2, HoldingFields DEF Of
    <2>4. "ip" \in Kinds /\ "other" \in Kinds
      BY DEF Kinds
    <2>5. References(s)[<<q, "ip">>] = i \/ References(s)[<<q, "other">>] = i
      BY <2>3, <2>4, ReferenceOf
    <2> QED BY <1>6, <2>4, <2>5
  <1>8. itable[i].lock \in Users \cup {None}
    BY <1>2, <1>3 DEF Coherent, NodeStates, Slots
  <1> QED BY <1>1, <1>7, <1>8 DEF LockFree

\* Whoever waits for a lock that is held waits for a process between its steps,
\* and if that one waits too, both are in sys_unlink(), one directory lower.
LEMMA WaitsFor ==
  ASSUME NEW s, s = Here, Coherent(s, booted), NEW p \in Users,
         LockTarget(p) # 0, ~LockFree(LockTarget(p))
  PROVE  \E q \in Users : LockOf(l[q]) = LockTarget(p) /\ l[q].pc # "user"
  <1>1. PICK i : i = LockTarget(p)
    OBVIOUS
  <1>2. i \in Inums
    BY <1>1, TargetReached
  <1>3. itable[i].lock \in Users
    <2>1. itable[i].lock \in Users \cup {None}
      BY <1>2 DEF Here, Coherent, NodeStates, Slots
    <2> QED BY <1>1, <2>1 DEF LockFree
  <1>4. PICK q \in Users : itable[i].lock = q
    BY <1>3
  <1>5. LockOf(s.l[q]) = i /\ s.l = l
    BY <1>2, <1>4 DEF Here, Coherent, Slot
  <1>6. Stage(l[q]) # "user"
    BY <1>2, <1>5, NodeConstants DEF LockOf
  <1>7. l[q].pc # "user"
    BY <1>6 DEF Stage
  <1> QED BY <1>1, <1>5, <1>7

\* Who holds a lock and waits for another is in sys_unlink().
LEMMA HoldsAndWaits ==
  ASSUME NEW s, s = Here, Coherent(s, booted), NEW q \in Users, LockOf(l[q]) # 0,
         LockTarget(q) # 0, ~LockFree(LockTarget(q))
  PROVE  l[q].pc = "unlinkboth" /\ LockOf(l[q]) = l[q].ip /\ LockTarget(q) = l[q].other
  <1>1. Stage(l[q]) = l[q].pc
    BY TargetReached
  <1>2. l[q].pc \in {"unlinkboth", "newip"}
    BY <1>1 DEF LockTarget, LockOf
  <1>3. LockOf(l[q]) = l[q].ip /\ LockTarget(q) = l[q].other
    BY <1>1, <1>2 DEF LockTarget, LockOf
  <1>4. CASE l[q].pc = "newip"
    <2>1. Alone(s.l[q], l[q].other) /\ s.itable = itable
      BY <1>4 DEF Alone, Here
    <2>2. l[q].other \in Inums
      BY <1>3, TargetReached
    <2>3. itable[l[q].other].lock = None
      BY <2>1, <2>2, AloneFacts
    <2> QED BY <1>3, <2>3 DEF LockFree
  <1> QED BY <1>2, <1>3, <1>4

\* An entry leads from a directory to one further from the root.
LEMMA EntryRanks ==
  ASSUME NEW s, NEW up, Coherent(s, up), NEW rank \in [Inums -> Nat], Tree(s.fs, Dir(s), Ent(s), rank),
         NEW d \in Dir(s), NEW c \in Dir(s), NEW n \in Names, s.fs[d].ent[n] = c
  PROVE  rank[d] < rank[c]
  <1>1. n \in Entries /\ c \in Inums /\ s.fs[c].type = "dir"
    BY EntFacts, NodeConstants
  <1>2. Ent(s)[<<d, n>>] = c
    BY <1>1, EntFacts
  <1>3. c # ROOTINO /\ Ent(s)[<<c, UP>>] = d
    BY <1>1, <1>2 DEF Tree
  <1> QED BY <1>3 DEF Tree

\* Of finitely many things ranked by naturals one has none above it.
LEMMA Highest ==
  ASSUME NEW W, IsFiniteSet(W), W # {}, NEW h \in [W -> Nat]
  PROVE  \E q \in W : \A x \in W : ~(h[q] < h[x])
  <1> DEFINE Above(q) == {x \in W : h[q] < h[x]}
             S == {Cardinality(Above(q)) : q \in W}
  <1>1. \A q \in W : IsFiniteSet(Above(q)) /\ Cardinality(Above(q)) \in Nat
    BY FS_Subset, FS_CardinalityType
  <1>2. S \in SUBSET Nat /\ S # {}
    BY <1>1
  <1>3. PICK m \in S : \A e \in S : m <= e
    <2> HIDE DEF S
    <2> QED BY <1>2, LeastNatural
  <1>4. PICK q \in W : m = Cardinality(Above(q))
    OBVIOUS
  <1>5. ASSUME NEW x \in W, h[q] < h[x] PROVE FALSE
    <2>1. Above(x) \subseteq Above(q) /\ x \in Above(q) /\ x \notin Above(x)
      <3>1. \A y \in W : h[y] \in Nat
        OBVIOUS
      <3> QED BY <1>5, <3>1
    <2>2. Above(x) # Above(q)
      BY <2>1
    <2>3. Cardinality(Above(x)) <= Cardinality(Above(q)) /\ (Cardinality(Above(x)) = Cardinality(Above(q)) => Above(x) = Above(q))
      <3> HIDE DEF Above
      <3> QED BY <1>1, <2>1, FS_Subset
    <2>4. Cardinality(Above(q)) <= Cardinality(Above(x))
      BY <1>3, <1>4
    <2>5. Cardinality(Above(q)) \in Nat /\ Cardinality(Above(x)) \in Nat
      BY <1>1
    <2> HIDE DEF Above
    <2> QED BY <2>2, <2>3, <2>4, <2>5
  <1> QED BY <1>5

\* There is no circle of processes that wait for each other.
LEMMA SomebodyGoes ==
  ASSUME NEW s, s = Here, Coherent(s, booted), NEW p \in Users, l[p].pc # "user"
  PROVE  \E q \in Users : l[q].pc # "user" /\ (LockTarget(q) = 0 \/ LockFree(LockTarget(q)))
  <1>1. SUFFICES ASSUME \A q \in Users : l[q].pc # "user" => LockTarget(q) # 0 /\ ~LockFree(LockTarget(q))
                 PROVE FALSE
    OBVIOUS
  <1>2. PICK W : W = {q \in Users : l[q].pc = "unlinkboth"}
    OBVIOUS
  <1>3. s.l = l /\ s.fs = fs
    BY DEF Here
  <1>4. ASSUME NEW x \in Users, l[x].pc # "user"
        PROVE  \E q \in W : l[q].ip = LockTarget(x) /\ LockTarget(q) = l[q].other
    <2>1. LockTarget(x) # 0 /\ ~LockFree(LockTarget(x))
      BY <1>1, <1>4
    <2>2. PICK q \in Users : LockOf(l[q]) = LockTarget(x) /\ l[q].pc # "user"
      BY <2>1, WaitsFor
    <2>3. LockTarget(q) # 0 /\ ~LockFree(LockTarget(q)) /\ LockOf(l[q]) # 0
      BY <1>1, <2>1, <2>2
    <2>4. l[q].pc = "unlinkboth" /\ LockOf(l[q]) = l[q].ip /\ LockTarget(q) = l[q].other
      BY <2>3, HoldsAndWaits
    <2> QED BY <1>2, <2>2, <2>4
  <1>5. W # {}
    BY <1>4
  <1>6. IsFiniteSet(W) /\ W \subseteq Users
    BY <1>2, NodeConstants, FS_Subset
  <1>7. PICK rank \in [Inums -> Nat] : Tree(s.fs, Dir(s), Ent(s), rank)
    BY DEF Coherent
  <1>8. ASSUME NEW q \in W
        PROVE  l[q].ip \in Dir(s) /\ Head(l[q].rest) \in Names /\ s.fs[l[q].ip].ent[Head(l[q].rest)] = l[q].other
    BY <1>2, <1>3 DEF Coherent, Knows
  <1>9. PICK h : h = [q \in W |-> rank[l[q].ip]]
    OBVIOUS
  <1>10. h \in [W -> Nat]
    BY <1>8, <1>9, EntFacts
  <1>11. PICK q \in W : \A x \in W : ~(h[q] < h[x])
    BY <1>5, <1>6, <1>10, Highest
  <1>12. q \in Users /\ l[q].pc = "unlinkboth"
    BY <1>2, <1>11
  <1>13. LockTarget(q) = l[q].other
    BY <1>12 DEF LockTarget
  <1>14. PICK x \in W : l[x].ip = l[q].other
    BY <1>4, <1>12, <1>13
  <1>15. rank[l[q].ip] < rank[l[x].ip]
    BY <1>7, <1>8, <1>14, EntryRanks
  <1> QED BY <1>9, <1>11, <1>15

\* The invariant keeps all from being stuck.
LEMMA IInvNobodyStuck ==
  IInv => NobodyStuck
  <1> SUFFICES ASSUME IInv PROVE NobodyStuck
    OBVIOUS
  <1>1. PICK s : s = Here
    OBVIOUS
  <1>2. Coherent(s, booted) /\ \A p \in Users : p \in active <=> l[p].pc # "user"
    BY <1>1 DEF IInv
  <1>3. active \subseteq Users
    BY DEF IInv
  <1>4. NoFreedInode
    BY <1>1, <1>2, NobodyPanics
  <1>5. \A p \in Users : l[p].pc = "put" /\ LastLink(l[p].victim) => LockFree(l[p].victim)
    BY <1>1, <1>2, LastIsUnlocked
  <1>6. active # {} => \E p \in active : LockTarget(p) = 0 \/ LockFree(LockTarget(p))
    BY <1>1, <1>2, <1>3, SomebodyGoes
  <1> QED BY <1>4, <1>5, <1>6 DEF NobodyStuck

\* Every variable of the inode model keeps its type.
THEOREM InodesTyped == InodesSpec => []InodesTypeOK
  BY InodesInvariant, IInvTyped, PTL

\* Whatever calls run at once and wherever the machine stops, on the disk every
\* link is counted, no entry leads to a free inode, the directories are a tree,
\* and no inode without links is lost once the system is up (fs.c:350-408,
\* sysfile.c:151-325).
THEOREM TheDiskIsConsistent == InodesSpec => []DiskIsConsistent
  <1>1. IInv => DiskIsConsistent
    BY SoundIsConsistent, IInvNoOrphan DEF IInv, DiskIsConsistent
  <1> QED BY <1>1, InodesInvariant, PTL

\* ilock() never finds a freed inode, unlink() never a child without links,
\* iput() never waits with itable.lock held, and of the processes in an
\* operation one can always go on (fs.c:316-362, sysfile.c:218-294).
THEOREM NobodyIsStuck == InodesSpec => []NobodyStuck
  BY InodesInvariant, IInvNobodyStuck, PTL
=============================================================================
