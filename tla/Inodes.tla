------------------------------- MODULE Inodes --------------------------------
(***************************************************************************)
(* Inodes, directories and path names of the xv6 file system (kernel/fs.c, *)
(* kernel/sysfile.c): processes that open, create, link, unlink, mkdir,    *)
(* chdir and close at the same time, operations grouped in one commit, a   *)
(* crash at any point and the reclaiming of orphans at boot.               *)
(*                                                                         *)
(* What a process does from an ilock() to the iunlock(), or to the next    *)
(* ilock() or iput(), is one step: the inode is its own meanwhile.  An     *)
(* iput() that frees takes three.  The log is what Log shows it to be: the *)
(* disk gets all operations since the last commit when none is left.  File *)
(* contents and blocks are left to Blocks, and so is `.'; dirlink() may    *)
(* fail for want of a block.  A process has one open file.                 *)
(***************************************************************************)
EXTENDS Naturals, FiniteSets, Sequences

CONSTANTS
    Users,      \* processes
    NINODES,    \* inodes on the disk
    Names,      \* names of directory entries
    Paths,      \* the paths in use: sequences of names and "..", perhaps after a "/"
    Existing,   \* what an earlier boot may have left: a directory's name, or None
    NLINK_MAX,
    None,       \* no process
    MaxCalls,   \* bound on the calls
    MaxCrashes  \* bound on the crashes

Inums == 1 .. NINODES
ROOTINO == 1
UP == ".."
Entries == Names \cup {UP}

ASSUME InodesAssumption ==
    /\ NINODES \in Nat \ {0} /\ NLINK_MAX \in Nat \ {0}
    /\ UP \notin Names /\ "/" \notin Names
    /\ \A path \in Paths :
          path \in Seq(Entries) \/ (path # <<>> /\ Head(path) = "/" /\ Tail(path) \in Seq(Entries))
    /\ IsFiniteSet(Users) /\ IsFiniteSet(Names)
    /\ None \notin Users
    /\ Existing \subseteq Names \cup {None}
    /\ (Existing \cap Names # {} => NINODES > 1 /\ NLINK_MAX > 1)
    /\ MaxCalls \in Nat /\ MaxCrashes \in Nat

VARIABLES
    fs,         \* inodes and directories as the log has them
    image,      \* as last committed
    itable,     \* the in-memory inodes, by number
    active,     \* processes between begin_op() and end_op()
    cwd, file,  \* p->cwd, and the inode of p's open file or 0
    l,          \* where each process is, and its locals
    calls, crashes, \* how many there were
    booted      \* ireclaim() is over

inodeVars == <<fs, image, itable, active, cwd, file, l, calls, crashes, booted>>

Types == {"free", "file", "dir"}
Inodes == [type : Types, nlink : 0 .. NLINK_MAX, ent : [Entries -> 0 .. NINODES]]
Slots == [ref : Nat, valid : BOOLEAN, type : Types, nlink : 0 .. NLINK_MAX,
          lock : Users \cup {None}]
Calls == {"none", "open", "create", "mkdir", "link", "unlink", "chdir", "close", "boot"}
Labels == {"user", "walk", "open", "chdir", "cd", "unlink", "unlinkboth", "unlinkip", "unlockdp",
           "create", "mkdir", "newip", "exists", "created", "link", "linkput", "linkundo",
           "put", "drop", "ifree", "end"}
\* ip and other are two inodes in hand: a directory and the child, the new
\* inode, or the source of a link; victim is that of an iput(), ret what comes
\* after it; parent says whether the walk is nameiparent()'s.
Locals == [pc : Labels, call : Calls, rest : Seq(Entries), parent : BOOLEAN,
           ip : 0 .. NINODES, other : 0 .. NINODES, victim : 0 .. NINODES, ret : Labels]

InodesTypeOK ==
    /\ fs \in [Inums -> Inodes] /\ image \in [Inums -> Inodes]
    /\ itable \in [Inums -> Slots]
    /\ active \subseteq Users
    /\ cwd \in [Users -> Inums] /\ file \in [Users -> 0 .. NINODES]
    /\ l \in [Users -> Locals]
    /\ calls \in 0 .. MaxCalls /\ crashes \in 0 .. MaxCrashes
    /\ booted \in BOOLEAN

NoEntries == [n \in Entries |-> 0]
FreeInode == [type |-> "free", nlink |-> 0, ent |-> NoEntries]
Idle == [pc |-> "user", call |-> "none", rest |-> <<>>, parent |-> FALSE,
         ip |-> 0, other |-> 0, victim |-> 0, ret |-> "end"]

\* After a boot every process has the root as its cwd.
AtBoot(table, act, c, f, locals, up) ==
    /\ table = [i \in Inums |-> [ref |-> IF i = ROOTINO THEN Cardinality(Users) ELSE 0,
                                 valid |-> FALSE, type |-> "free", nlink |-> 0, lock |-> None]]
    /\ act = {}
    /\ c = [p \in Users |-> ROOTINO]
    /\ f = [p \in Users |-> 0]
    /\ locals = [p \in Users |-> Idle]
    /\ up = FALSE

\* mkfs makes a root directory with one link, its own; or an earlier boot
\* has left a directory in it.
Made == [i \in Inums |->
           IF i = ROOTINO THEN [type |-> "dir", nlink |-> 1, ent |-> [NoEntries EXCEPT ![UP] = ROOTINO]]
           ELSE FreeInode]
WithDirectory(n) ==
    [Made EXCEPT ![ROOTINO].nlink = 2, ![ROOTINO].ent[n] = 2,
                 ![2] = [type |-> "dir", nlink |-> 1, ent |-> [NoEntries EXCEPT ![UP] = ROOTINO]]]

InodesInit ==
    /\ fs \in {IF n = None THEN Made ELSE WithDirectory(n) : n \in Existing}
    /\ image = fs
    /\ AtBoot(itable, active, cwd, file, l, booted)
    /\ calls = 0 /\ crashes = 0

\* The machine stops, and boots from the committed image.
FsCrash ==
    /\ crashes < MaxCrashes
    /\ crashes' = crashes + 1
    /\ fs' = image
    /\ AtBoot(itable', active', cwd', file', l', booted')
    /\ UNCHANGED <<image, calls>>

-----------------------------------------------------------------------------
(* Steps of a process *)

Become(p, locals) == l' = [l EXCEPT ![p] = locals]
To(locals, label) == [locals EXCEPT !.pc = label]
PutThen(locals, i, label) == [locals EXCEPT !.pc = "put", !.victim = i, !.ret = label]

\* iget() and idup().
Got(table, i) == [table EXCEPT ![i].ref = @ + 1]

\* iget() of an inode ialloc() has found: what an unused slot says of it is gone.
Taken(table, i) == [table EXCEPT ![i].ref = @ + 1, ![i].valid = IF table[i].ref = 0 THEN FALSE ELSE @]

\* The slot of i once ilock() has it, with the copy read from the disk.
Loaded(i) == IF itable[i].valid THEN itable[i]
             ELSE [itable[i] EXCEPT !.valid = TRUE, !.type = fs[i].type, !.nlink = fs[i].nlink]

LockFree(i) == itable[i].lock = None

\* "ilock: no type" does not happen.
CanLock(i) == LockFree(i) /\ (itable[i].valid \/ fs[i].type # "free")

\* ilock(i) that goes with iunlock(i) in one step, and without.
Visited(i) == [itable EXCEPT ![i] = Loaded(i)]
Locked(table, p, i) == [table EXCEPT ![i] = [Loaded(i) EXCEPT !.lock = p]]
Unlocked(table, i) == [table EXCEPT ![i].lock = None]

\* A change of nlink and its iupdate().
SetLinks(table, i, n) == [table EXCEPT ![i].nlink = n]
Update(f, i, n) == [f EXCEPT ![i].nlink = n]

\* The inode p is about to ilock(), or 0.
LockTarget(p) ==
    CASE l[p].pc = "walk" /\ l[p].rest # <<>> -> l[p].ip
      [] l[p].pc \in {"open", "chdir", "unlink", "create", "mkdir", "link"} -> l[p].ip
      [] l[p].pc \in {"unlinkboth", "newip", "exists", "linkundo"} -> l[p].other
      [] OTHER -> 0

IlockPanics(p) ==
    LockTarget(p) # 0 /\ LockFree(LockTarget(p)) /\ ~CanLock(LockTarget(p))

Unchanged == UNCHANGED <<image, active, cwd, calls, crashes, booted>>

-----------------------------------------------------------------------------
(* System calls begin and end *)

Start(p, path) == IF path # <<>> /\ Head(path) = "/" THEN ROOTINO ELSE cwd[p]
Elements(path) == IF path # <<>> /\ Head(path) = "/" THEN Tail(path) ELSE path

\* begin_op() and the start of namex().
BeginCall(p, c, path) ==
    /\ l[p].pc = "user" /\ booted /\ calls < MaxCalls
    /\ calls' = calls + 1
    /\ active' = active \cup {p}
    /\ itable' = Got(itable, Start(p, path))
    /\ Become(p, [Idle EXCEPT !.pc = "walk", !.call = c, !.rest = Elements(path),
                              !.parent = (c \in {"create", "mkdir", "unlink"}),
                              !.ip = Start(p, path)])
    /\ UNCHANGED <<fs, image, cwd, file, crashes, booted>>

\* fileclose() of the last reference to a file.
Close(p) ==
    /\ l[p].pc = "user" /\ file[p] # 0
    /\ active' = active \cup {p}
    /\ Become(p, PutThen([Idle EXCEPT !.call = "close"], file[p], "end"))
    /\ file' = [file EXCEPT ![p] = 0]
    /\ UNCHANGED <<fs, image, itable, cwd, calls, crashes, booted>>

\* end_op(): the last one commits them all.
EndOp(p) ==
    /\ active' = active \ {p}
    /\ image' = IF active = {p} THEN fs ELSE image
    /\ Become(p, Idle)
    /\ UNCHANGED <<fs, itable, file, calls, crashes, booted>>

EndCall(p) == l[p].pc = "end" /\ EndOp(p) /\ UNCHANGED cwd

\* sys_chdir() takes the new cwd when the old one is put.
EndChdir(p) == l[p].pc = "cd" /\ EndOp(p) /\ cwd' = [cwd EXCEPT ![p] = l[p].ip]

\* ireclaim(): an orphan is got, locked, unlocked and put.
Reclaim(p, i) ==
    /\ ~booted /\ active = {}
    /\ fs[i].type # "free" /\ fs[i].nlink = 0
    /\ active' = {p}
    /\ itable' = Got(Visited(i), i)
    /\ Become(p, PutThen([Idle EXCEPT !.call = "boot"], i, "end"))
    /\ UNCHANGED <<fs, image, cwd, file, calls, crashes, booted>>

BootEnd ==
    /\ ~booted /\ active = {}
    /\ \A i \in Inums : fs[i].type # "free" => fs[i].nlink > 0
    /\ booted' = TRUE
    /\ UNCHANGED <<fs, image, itable, active, cwd, file, l, calls, crashes>>

-----------------------------------------------------------------------------
(* iput() *)

\* Mutant of LastLink: other references are not looked at.
LastLinkAny(i) == itable[i].valid /\ itable[i].nlink = 0

LastLink(i) == itable[i].ref = 1 /\ itable[i].valid /\ itable[i].nlink = 0

PutKeeps(p) ==
    /\ l[p].pc = "put" /\ ~LastLink(l[p].victim)
    /\ itable' = [itable EXCEPT ![l[p].victim].ref = @ - 1]
    /\ Become(p, To(l[p], l[p].ret))
    /\ UNCHANGED <<fs, file>> /\ Unchanged

\* itrunc() under the inode's lock, which must be free: itable.lock is held.
PutTruncates(p) ==
    /\ l[p].pc = "put" /\ LastLink(l[p].victim)
    /\ LockFree(l[p].victim)
    /\ fs' = [fs EXCEPT ![l[p].victim].ent = NoEntries, ![l[p].victim].nlink = 0]
    /\ itable' = [itable EXCEPT ![l[p].victim].valid = FALSE]
    /\ Become(p, To(l[p], "drop"))
    /\ UNCHANGED file /\ Unchanged

PutDrops(p) ==
    /\ l[p].pc = "drop"
    /\ itable' = [itable EXCEPT ![l[p].victim].ref = @ - 1]
    /\ Become(p, To(l[p], "ifree"))
    /\ UNCHANGED <<fs, file>> /\ Unchanged

PutFrees(p) ==
    /\ l[p].pc = "ifree"
    /\ fs' = [fs EXCEPT ![l[p].victim].type = "free"]
    /\ Become(p, To(l[p], l[p].ret))
    /\ UNCHANGED <<itable, file>> /\ Unchanged

-----------------------------------------------------------------------------
(* namex() *)

\* Where a call goes that does not find what it looks for.
Failed(p) == IF l[p].call = "link" /\ l[p].parent THEN "linkundo" ELSE "end"

\* Nothing is left of the path: nameiparent() fails, namei() has its inode.
WalkEnds(p) ==
    /\ l[p].pc = "walk" /\ l[p].rest = <<>>
    /\ Become(p, IF l[p].parent THEN PutThen(l[p], l[p].ip, Failed(p))
                 ELSE To(l[p], l[p].call))
    /\ UNCHANGED <<fs, itable, file>> /\ Unchanged

\* A directory that is still linked, and has the next element.
CanEnter(i, n) == Loaded(i).type = "dir" /\ Loaded(i).nlink > 0 /\ fs[i].ent[n] # 0

\* The next element but the last of nameiparent().
WalkOn(p) ==
    /\ l[p].pc = "walk" /\ l[p].rest # <<>>
    /\ ~(l[p].parent /\ Len(l[p].rest) = 1)
    /\ LET i == l[p].ip
           next == fs[i].ent[Head(l[p].rest)] IN
          /\ CanLock(i)
          /\ IF CanEnter(i, Head(l[p].rest))
             THEN /\ itable' = Got(Visited(i), next)
                  /\ Become(p, PutThen([l[p] EXCEPT !.ip = next, !.rest = Tail(@)], i, "walk"))
             ELSE /\ itable' = Visited(i)
                  /\ Become(p, PutThen(l[p], i, Failed(p)))
    /\ UNCHANGED <<fs, file>> /\ Unchanged

\* The parent is found, if it is a directory that is still linked.
WalkParent(p) ==
    /\ l[p].pc = "walk" /\ l[p].parent /\ Len(l[p].rest) = 1
    /\ LET i == l[p].ip IN
          /\ CanLock(i)
          /\ itable' = Visited(i)
          /\ Become(p, IF Loaded(i).type = "dir" /\ Loaded(i).nlink > 0 THEN To(l[p], l[p].call)
                       ELSE PutThen(l[p], i, Failed(p)))
    /\ UNCHANGED <<fs, file>> /\ Unchanged

-----------------------------------------------------------------------------
(* sys_open() of what exists, sys_chdir() *)

\* The inode p has locked or is locking becomes its file; or it is put, when
\* there is no descriptor or file left, or no right.
Install(p, i, opens) ==
    /\ opens => file[p] = 0
    /\ file' = IF opens THEN [file EXCEPT ![p] = i] ELSE file
    /\ Become(p, IF opens THEN To(l[p], "end") ELSE PutThen(l[p], i, "end"))

Open(p, opens) ==
    /\ l[p].pc = "open" /\ CanLock(l[p].ip)
    /\ itable' = Visited(l[p].ip)
    /\ Install(p, l[p].ip, opens)
    /\ UNCHANGED fs /\ Unchanged

Chdir(p) ==
    /\ l[p].pc = "chdir" /\ CanLock(l[p].ip)
    /\ itable' = Visited(l[p].ip)
    /\ Become(p, IF Loaded(l[p].ip).type = "dir" THEN PutThen(l[p], cwd[p], "cd")
                 ELSE PutThen(l[p], l[p].ip, "end"))
    /\ UNCHANGED <<fs, file>> /\ Unchanged

-----------------------------------------------------------------------------
(* sys_unlink() *)

Name(p) == Head(l[p].rest)

\* With dp locked the child is got; no name, or "..", ends it.
Unlink(p) ==
    /\ l[p].pc = "unlink" /\ CanLock(l[p].ip)
    /\ LET dp == l[p].ip
           child == fs[dp].ent[Name(p)] IN
       IF Name(p) = UP \/ child = 0
       THEN itable' = Visited(dp) /\ Become(p, PutThen(l[p], dp, "end"))
       ELSE /\ itable' = Got(Locked(itable, p, dp), child)
            /\ Become(p, [To(l[p], "unlinkboth") EXCEPT !.other = child])
    /\ UNCHANGED <<fs, file>> /\ Unchanged

Empty(i) == \A n \in Names : fs[i].ent[n] = 0

\* dp and the child are locked: the entry goes, dp is unlocked and put.
UnlinkBoth(p) ==
    /\ l[p].pc = "unlinkboth" /\ CanLock(l[p].other)
    /\ LET dp == l[p].ip
           i == l[p].other
           isDir == Loaded(i).type = "dir"
           n == IF isDir THEN itable[dp].nlink - 1 ELSE itable[dp].nlink IN
       /\ Loaded(i).nlink > 0
       /\ IF isDir /\ ~Empty(i)
          THEN /\ itable' = Visited(i)
               /\ Become(p, PutThen(l[p], i, "unlockdp"))
               /\ UNCHANGED fs
          ELSE /\ fs' = [Update(fs, dp, n) EXCEPT ![dp].ent[Name(p)] = 0]
               /\ itable' = Unlocked(SetLinks(Locked(itable, p, i), dp, n), dp)
               /\ Become(p, PutThen(l[p], dp, "unlinkip"))
    /\ UNCHANGED file /\ Unchanged

UnlinkPanics(p) ==
    l[p].pc = "unlinkboth" /\ CanLock(l[p].other) /\ Loaded(l[p].other).nlink = 0

\* Then the child loses its link.
UnlinkIp(p) ==
    /\ l[p].pc = "unlinkip"
    /\ LET i == l[p].other
           n == itable[i].nlink - 1 IN
          /\ fs' = Update(fs, i, n)
          /\ itable' = Unlocked(SetLinks(itable, i, n), i)
          /\ Become(p, PutThen(l[p], i, "end"))
    /\ UNCHANGED file /\ Unchanged

\* The end of a call that failed with dp locked.
UnlockDp(p) ==
    /\ l[p].pc = "unlockdp"
    /\ itable' = Unlocked(itable, l[p].ip)
    /\ Become(p, PutThen(l[p], l[p].ip, "end"))
    /\ UNCHANGED <<fs, file>> /\ Unchanged

-----------------------------------------------------------------------------
(* create(), for sys_open(O_CREATE), sys_mknod() and sys_mkdir() *)

FreeInums == {i \in Inums : fs[i].type = "free"}

\* dp was unlinked since it was found, or has too many links for one more "..".
Refuses(p) ==
    \/ Loaded(l[p].ip).nlink = 0
    \/ l[p].call = "mkdir" /\ Loaded(l[p].ip).nlink >= NLINK_MAX

CreateFails(p) ==
    /\ l[p].pc \in {"create", "mkdir"} /\ CanLock(l[p].ip)
    /\ Refuses(p) \/ (fs[l[p].ip].ent[Name(p)] = 0 /\ FreeInums = {})
    /\ itable' = Visited(l[p].ip)
    /\ Become(p, PutThen(l[p], l[p].ip, "end"))
    /\ UNCHANGED <<fs, file>> /\ Unchanged

CreateFinds(p) ==
    /\ l[p].pc \in {"create", "mkdir"} /\ CanLock(l[p].ip)
    /\ ~Refuses(p)
    /\ LET i == fs[l[p].ip].ent[Name(p)] IN
          /\ i # 0
          /\ itable' = Got(Visited(l[p].ip), i)
          /\ Become(p, PutThen([l[p] EXCEPT !.other = i], l[p].ip, "exists"))
    /\ UNCHANGED <<fs, file>> /\ Unchanged

\* ialloc() takes the first free inode; dp stays locked.
CreateAllocs(p) ==
    /\ l[p].pc \in {"create", "mkdir"} /\ CanLock(l[p].ip)
    /\ ~Refuses(p) /\ fs[l[p].ip].ent[Name(p)] = 0 /\ FreeInums # {}
    /\ LET i == CHOOSE j \in FreeInums : \A k \in FreeInums : j <= k
           type == IF l[p].call = "mkdir" THEN "dir" ELSE "file" IN
          /\ fs' = [fs EXCEPT ![i] = [FreeInode EXCEPT !.type = type]]
          /\ itable' = Taken(Locked(itable, p, l[p].ip), i)
          /\ Become(p, [To(l[p], "newip") EXCEPT !.other = i])
    /\ UNCHANGED file /\ Unchanged

\* The new inode is locked and linked; dp is unlocked and put.
CreateLinks(p) ==
    /\ l[p].pc = "newip" /\ CanLock(l[p].other)
    /\ LET dp == l[p].ip
           i == l[p].other
           n == IF l[p].call = "mkdir" THEN itable[dp].nlink + 1 ELSE itable[dp].nlink IN
          /\ fs' = [Update(Update(fs, i, 1), dp, n) EXCEPT
                ![dp].ent[Name(p)] = i,
                ![i].ent[UP] = IF l[p].call = "mkdir" THEN dp ELSE 0]
          /\ itable' = Unlocked(SetLinks(SetLinks(Locked(itable, p, i), i, 1), dp, n), dp)
          /\ Become(p, PutThen(l[p], dp, "created"))
    /\ UNCHANGED file /\ Unchanged

\* Mutant of CreateUndo: the new inode keeps its link.
CreateUndoLinked(p) ==
    /\ l[p].pc = "newip" /\ CanLock(l[p].other)
    /\ fs' = Update(fs, l[p].other, 1)
    /\ itable' = SetLinks(Visited(l[p].other), l[p].other, 1)
    /\ Become(p, PutThen(l[p], l[p].other, "unlockdp"))
    /\ UNCHANGED file /\ Unchanged

\* A dirlink() fails: the new inode is given back, dp still locked.
CreateUndo(p) ==
    /\ l[p].pc = "newip" /\ CanLock(l[p].other)
    /\ fs' = Update(fs, l[p].other, 0)
    /\ itable' = SetLinks(Visited(l[p].other), l[p].other, 0)
    /\ Become(p, PutThen(l[p], l[p].other, "unlockdp"))
    /\ UNCHANGED file /\ Unchanged

\* sys_open() goes on with the new file; sys_mkdir() and sys_mknod() put it.
Created(p, opens) ==
    /\ l[p].pc = "created"
    /\ opens => l[p].call = "create"
    /\ itable' = Unlocked(itable, l[p].other)
    /\ Install(p, l[p].other, opens)
    /\ UNCHANGED fs /\ Unchanged

\* It was there: fine for sys_open() if it is a file.
Exists(p, opens) ==
    /\ l[p].pc = "exists" /\ CanLock(l[p].other)
    /\ opens => l[p].call = "create" /\ Loaded(l[p].other).type = "file"
    /\ itable' = Visited(l[p].other)
    /\ Install(p, l[p].other, opens)
    /\ UNCHANGED fs /\ Unchanged

-----------------------------------------------------------------------------
(* sys_link() *)

\* The source gets its link before the walk to the new name begins.
Link(p, path) ==
    /\ l[p].pc = "link" /\ ~l[p].parent /\ CanLock(l[p].ip)
    /\ LET i == l[p].ip
           n == Loaded(i).nlink + 1 IN
       IF Loaded(i).type = "dir" \/ n > NLINK_MAX
       THEN /\ itable' = Visited(i)
            /\ Become(p, PutThen(l[p], i, "end"))
            /\ UNCHANGED fs
       ELSE /\ fs' = Update(fs, i, n)
            /\ itable' = Got(SetLinks(Visited(i), i, n), Start(p, path))
            /\ Become(p, [To(l[p], "walk") EXCEPT !.parent = TRUE, !.other = i,
                              !.ip = Start(p, path), !.rest = Elements(path)])
    /\ UNCHANGED file /\ Unchanged

\* dirlink(), which fails if the name is there, dp is gone or a block is lacking.
LinkDp(p, room) ==
    /\ l[p].pc = "link" /\ l[p].parent /\ CanLock(l[p].ip)
    /\ LET dp == l[p].ip IN
          /\ itable' = Visited(dp)
          /\ IF room /\ Loaded(dp).nlink > 0 /\ fs[dp].ent[Name(p)] = 0
             THEN /\ fs' = [fs EXCEPT ![dp].ent[Name(p)] = l[p].other]
                  /\ Become(p, PutThen(l[p], dp, "linkput"))
             ELSE /\ Become(p, PutThen(l[p], dp, "linkundo"))
                  /\ UNCHANGED fs
    /\ UNCHANGED file /\ Unchanged

LinkPut(p) ==
    /\ l[p].pc = "linkput"
    /\ Become(p, PutThen(l[p], l[p].other, "end"))
    /\ UNCHANGED <<fs, itable, file>> /\ Unchanged

LinkUndo(p) ==
    /\ l[p].pc = "linkundo" /\ CanLock(l[p].other)
    /\ LET i == l[p].other
           n == Loaded(i).nlink - 1 IN
          /\ fs' = Update(fs, i, n)
          /\ itable' = SetLinks(Visited(i), i, n)
          /\ Become(p, PutThen(l[p], i, "end"))
    /\ UNCHANGED file /\ Unchanged

-----------------------------------------------------------------------------
FsStep(p) ==
    \/ \E c \in Calls \ {"none", "close", "boot"}, path \in Paths : BeginCall(p, c, path)
    \/ Close(p) \/ EndCall(p) \/ EndChdir(p)
    \/ PutKeeps(p) \/ PutTruncates(p) \/ PutDrops(p) \/ PutFrees(p)
    \/ WalkEnds(p) \/ WalkOn(p) \/ WalkParent(p)
    \/ \E opens \in BOOLEAN : Open(p, opens) \/ Created(p, opens) \/ Exists(p, opens)
    \/ Chdir(p)
    \/ Unlink(p) \/ UnlinkBoth(p) \/ UnlinkIp(p) \/ UnlockDp(p)
    \/ CreateFails(p) \/ CreateFinds(p) \/ CreateAllocs(p) \/ CreateLinks(p) \/ CreateUndo(p)
    \/ \E path \in Paths : Link(p, path)
    \/ \E room \in BOOLEAN : LinkDp(p, room)
    \/ LinkPut(p) \/ LinkUndo(p)
    \/ \E i \in Inums : Reclaim(p, i)

InodesNext == FsCrash \/ BootEnd \/ \E p \in Users : FsStep(p)

InodesSpec == InodesInit /\ [][InodesNext]_inodeVars
-----------------------------------------------------------------------------
(* Properties *)

Live(f, i) == f[i].type # "free" /\ f[i].nlink > 0
Dirs(f) == {i \in Inums : f[i].type = "dir" /\ Live(f, i)}
EntriesFor(f, i) == {e \in Dirs(f) \X Names : f[e[1]].ent[e[2]] = i}
Subdirs(f, i) == {d \in Dirs(f) : f[d].ent[UP] = i}

\* A tree of directories in which every link counts.
Consistent(f) ==
    /\ ROOTINO \in Dirs(f)
    /\ \A d \in Dirs(f), n \in Entries : f[d].ent[n] # 0 => Live(f, f[d].ent[n])
    /\ \A d \in Dirs(f) \ {ROOTINO} : EntriesFor(f, d) = {e \in EntriesFor(f, d) : e[1] = f[d].ent[UP]}
    /\ \A i \in Inums : Live(f, i) =>
          f[i].nlink = Cardinality(EntriesFor(f, i)) + Cardinality(Subdirs(f, i))
    /\ \A d \in Dirs(f) \ {ROOTINO} : Cardinality(EntriesFor(f, d)) = 1

\* An inode without links is in use, being created or being freed.
NoOrphan == booted =>
    \A i \in Inums : fs[i].type # "free" /\ fs[i].nlink = 0 =>
        itable[i].ref > 0 \/ \E p \in Users : l[p].pc = "ifree" /\ l[p].victim = i

\* Whatever calls run at once, fail halfway and are committed together,
\* wherever the machine stops: on the disk every link is counted, no entry
\* leads to a free inode and the directories form a tree (sysfile.c:151-183,
\* 235-246, 295-325).  Once the system is up no inode without links is lost,
\* not even after a crash (fs.c:350-378, 388-408).
DiskIsConsistent == Consistent(image) /\ NoOrphan

\* No process locks an inode that was freed under its feet, or unlinks what
\* has no link; what is cached is what is on the disk.
NoFreedInode ==
    /\ \A p \in Users : ~IlockPanics(p) /\ ~UnlinkPanics(p)
    /\ \A i \in Inums : itable[i].valid =>
          itable[i].type = fs[i].type /\ itable[i].nlink = fs[i].nlink

\* The kernel does not panic (fs.c:316-317, sysfile.c:228-229) and nobody is
\* stuck for good: iput() never blocks with itable.lock held (fs.c:357-362),
\* and processes that hold inodes and wait for others never wait for each
\* other, as locks are taken from a directory to its child (sysfile.c:218-226,
\* 267-294).
NobodyStuck ==
    /\ NoFreedInode
    /\ \A p \in Users : l[p].pc = "put" /\ LastLink(l[p].victim) => LockFree(l[p].victim)
    /\ active # {} => \E p \in active : LockTarget(p) = 0 \/ LockFree(LockTarget(p))
=============================================================================
