-------------------------------- MODULE Blocks -------------------------------
(***************************************************************************)
(* The blocks of files: the bitmap, the block map of an inode with its     *)
(* indirect block, readi(), writei() and itrunc() of kernel/fs.c, and the  *)
(* loop of filewrite() in kernel/file.c that splits a write into           *)
(* operations of the log.  The disk may be full at any balloc(), a copy    *)
(* from user space may fail, and a file may be truncated while others      *)
(* have it open.                                                           *)
(*                                                                         *)
(* The bitmap is one block (FSSIZE is less than BPB), locked while a bit   *)
(* is looked for, so balloc() and bfree() are atomic.  A step is one round *)
(* of the loop of writei() or one bfree(); reading, which changes nothing  *)
(* under the inode's lock but the offset, is one step.  That an operation  *)
(* reaches the disk whole is what Log shows.                               *)
(***************************************************************************)
EXTENDS Naturals, FiniteSets

CONSTANTS
    Clients,     \* processes
    Inos,        \* inodes
    Opens,       \* open files (struct file)
    OpenFiles,   \* which inodes they may be of
    NDATA,       \* data blocks on the disk
    NDIRECT, NINDIRECT,
    BSIZE,       \* bytes in a block
    MAXOPBLOCKS, \* what begin_op() reserves
    Lengths      \* how much one read() or write() asks for

NoHolder == "free"

ASSUME BlocksAssumption ==
    /\ NoHolder \notin Clients
    /\ OpenFiles \subseteq [Opens -> Inos]
    /\ NDATA \in Nat \ {0} /\ NDIRECT \in Nat /\ NINDIRECT \in Nat \ {0}
    /\ BSIZE \in Nat \ {0} /\ MAXOPBLOCKS \in Nat /\ MAXOPBLOCKS >= 6
    /\ Lengths \subseteq Nat \ {0}

VARIABLES
    used,        \* blocks marked in the bitmap
    addrs,       \* ip->addrs; 0 is no block
    size,        \* ip->size
    content,     \* what a block holds: user data, or block numbers
    holder,      \* who holds ip->lock
    off,         \* f->off
    fip,         \* f->ip
    req,         \* the call a client is in, with its locals
    broken       \* the kernel panicked

blockVars == <<used, addrs, size, content, holder, off, fip, req, broken>>

Bitmap == 0    \* the number of the bitmap block, as a member of logged
NoRequest == [op |-> "idle", f |-> 0, ip |-> 0, left |-> 0, n |-> 0, tot |-> 0, logged |-> {}]
MAXFILE == NDIRECT + NINDIRECT
DataBlocks == 1 .. NDATA
Zeroed == [data |-> FALSE, a |-> [j \in 0 .. NINDIRECT - 1 |-> 0]]
UserData == [Zeroed EXCEPT !.data = TRUE]
Smaller(m, n) == IF m < n THEN m ELSE n
Larger(m, n) == IF m < n THEN n ELSE m

\* At most this much of a write() goes into one operation.
MaxChunk == ((MAXOPBLOCKS - 1 - 1 - 2) \div 2) * BSIZE

BlocksTypeOK ==
    /\ used \subseteq DataBlocks
    /\ addrs \in [Inos -> [0 .. NDIRECT -> 0 .. NDATA]]
    /\ size \in [Inos -> 0 .. MAXFILE * BSIZE]
    /\ content \in [DataBlocks -> [data : BOOLEAN, a : [0 .. NINDIRECT - 1 -> 0 .. NDATA]]]
    /\ holder \in [Inos -> Clients \cup {NoHolder}]
    /\ off \in [Opens -> 0 .. MAXFILE * BSIZE]
    /\ fip \in [Opens -> Inos]
    /\ \A p \in Clients :
          /\ req[p].op \in {"idle", "write", "writei", "written", "trunc"}
          /\ req[p].left \in Nat /\ req[p].n \in 0 .. MaxChunk /\ req[p].tot \in Nat
    /\ broken \in BOOLEAN

BlocksInit ==
    /\ used = {}
    /\ addrs = [i \in Inos |-> [k \in 0 .. NDIRECT |-> 0]]
    /\ size = [i \in Inos |-> 0]
    /\ content = [b \in DataBlocks |-> UserData]
    /\ holder = [i \in Inos |-> NoHolder]
    /\ off = [f \in Opens |-> 0]
    /\ fip \in OpenFiles
    /\ req = [p \in Clients |-> NoRequest]
    /\ broken = FALSE
-----------------------------------------------------------------------------
(* The block map.  A map m is the bitmap, the addrs of one inode, the       *)
(* contents, the blocks logged, and the block found, 0 if there is none.    *)

\* balloc(): the first block free in the bitmap, zeroed.
Balloc(m) ==
    IF m.used = DataBlocks THEN [m EXCEPT !.b = 0]
    ELSE LET b == CHOOSE x \in DataBlocks \ m.used :
                      \A y \in DataBlocks \ m.used : x <= y
         IN  [m EXCEPT !.b = b, !.used = @ \cup {b}, !.content[b] = Zeroed,
                       !.logged = @ \cup {Bitmap, b}]

\* addrs[k], allocated if it is not there
Slot(m, k) ==
    IF m.addrs[k] # 0 THEN [m EXCEPT !.b = m.addrs[k]]
    ELSE LET r == Balloc(m) IN [r EXCEPT !.addrs[k] = r.b]

\* Entry j of the indirect block t, allocated if it is not there
IndirectSlot(m, t, j) ==
    IF m.content[t].a[j] # 0 THEN [m EXCEPT !.b = m.content[t].a[j]]
    ELSE LET r == Balloc(m)
         IN  IF r.b = 0 THEN r
             ELSE [r EXCEPT !.content[t].a[j] = r.b, !.logged = @ \cup {t}]

Bmap(m, bn) ==
    IF bn < NDIRECT THEN Slot(m, bn)
    ELSE LET r == Slot(m, NDIRECT)
         IN  IF r.b = 0 THEN r ELSE IndirectSlot(r, r.b, bn - NDIRECT)

MapOf(i, logged) ==
    [used |-> used, addrs |-> addrs[i], content |-> content, logged |-> logged, b |-> 0]
-----------------------------------------------------------------------------
(* write()                                                                  *)

FileWrite(p, f, n) ==
    /\ req[p].op = "idle"
    /\ req' = [req EXCEPT ![p] = [NoRequest EXCEPT !.op = "write", !.f = f,
                                              !.ip = fip[f], !.left = n]]
    /\ UNCHANGED <<used, addrs, size, content, holder, off, broken>>

\* The next operation, with the inode locked; writei() refuses to start
\* beyond the end, which another may have moved, and to pass MAXFILE.
ChunkBegin(p) ==
    LET r == req[p]
        n == Smaller(r.left, MaxChunk)
    IN  /\ r.op = "write" /\ holder[r.ip] = NoHolder
        /\ IF off[r.f] > size[r.ip] \/ off[r.f] + n > MAXFILE * BSIZE
           THEN req' = [req EXCEPT ![p] = NoRequest] /\ UNCHANGED holder
           ELSE /\ req' = [req EXCEPT ![p] = [r EXCEPT !.op = "writei", !.n = n]]
                /\ holder' = [holder EXCEPT ![r.ip] = p]
        /\ UNCHANGED <<used, addrs, size, content, off, broken>>

\* One round: the block, which the disk may not have, and the bytes, which
\* the user may not have.
WriteRound(p) ==
    LET r == req[p]
        pos == off[r.f] + r.tot
        m == Bmap(MapOf(r.ip, r.logged), pos \div BSIZE)
        bytes == Smaller(r.n - r.tot, BSIZE - (pos % BSIZE))
    IN  /\ r.op = "writei" /\ r.tot < r.n
        /\ used' = m.used
        /\ addrs' = [addrs EXCEPT ![r.ip] = m.addrs]
        /\ \/ /\ m.b = 0
              /\ content' = m.content
              /\ req' = [req EXCEPT ![p].op = "written", ![p].logged = m.logged]
           \/ /\ m.b # 0
              /\ content' = [m.content EXCEPT ![m.b] = UserData]
              /\ \/ req' = [req EXCEPT ![p].tot = @ + bytes,
                                       ![p].logged = m.logged \cup {m.b}]
                 \/ req' = [req EXCEPT ![p].op = "written",
                                       ![p].logged = m.logged \cup {m.b}]
        /\ UNCHANGED <<size, holder, off, broken>>

\* Mutant of Grown: a short write counts in full.
GrownAnyway(i, end, start, n) == Larger(size[i], start + n)

\* What writei() makes the size when it wrote up to end of n bytes from start.
Grown(i, end, start, n) == Larger(size[i], end)

\* The size and the inode are written, the offset moves, the operation ends.
\* A short write ends filewrite().
WriteEnd(p) ==
    LET r == req[p]
    IN  /\ r.op = "written" \/ (r.op = "writei" /\ r.tot = r.n)
        /\ size' = [size EXCEPT ![r.ip] = Grown(r.ip, off[r.f] + r.tot, off[r.f], r.n)]
        /\ off' = [off EXCEPT ![r.f] = @ + r.tot]
        /\ holder' = [holder EXCEPT ![r.ip] = NoHolder]
        /\ req' = [req EXCEPT ![p] =
                     IF r.tot = r.n /\ r.left > r.n
                     THEN [NoRequest EXCEPT !.op = "write", !.f = r.f, !.ip = r.ip, !.left = r.left - r.n]
                     ELSE NoRequest]
        /\ UNCHANGED <<used, addrs, content, broken>>
-----------------------------------------------------------------------------
(* read() and truncation                                                    *)

\* The block bn of i, as it is; 0 if there is none
BlockAt(i, bn) ==
    IF bn < NDIRECT THEN addrs[i][bn]
    ELSE IF addrs[i][NDIRECT] = 0 THEN 0
    ELSE content[addrs[i][NDIRECT]].a[bn - NDIRECT]

\* readi() calls bmap() too, outside of an operation: a block that is not
\* there would be allocated, and log_write() would panic.
FileRead(p, f, n) ==
    LET i == fip[f]
        end == Smaller(off[f] + n, size[i])
    IN  /\ req[p].op = "idle" /\ holder[i] = NoHolder
        /\ off[f] < size[i]
        /\ off' = [off EXCEPT ![f] = end]
        /\ broken' = (broken \/ \E x \in off[f] .. end - 1 : BlockAt(i, x \div BSIZE) = 0)
        /\ UNCHANGED <<used, addrs, size, content, holder, req>>

\* itrunc(), called by open(O_TRUNC) and by the last iput()
TruncBegin(p, i) ==
    /\ req[p].op = "idle" /\ holder[i] = NoHolder
    /\ holder' = [holder EXCEPT ![i] = p]
    /\ req' = [req EXCEPT ![p] = [NoRequest EXCEPT !.op = "trunc", !.ip = i]]
    /\ UNCHANGED <<used, addrs, size, content, off, broken>>

\* bfree() of b, which panics if it is free
Bfree(p, b, tot) ==
    /\ used' = used \ {b}
    /\ broken' = (broken \/ b \notin used)
    /\ req' = [req EXCEPT ![p].tot = tot, ![p].logged = @ \cup {Bitmap}]
    /\ UNCHANGED <<size, content, holder, off>>

TruncDirect(p, k) ==
    LET i == req[p].ip
    IN  /\ req[p].op = "trunc" /\ addrs[i][k] # 0
        /\ \A h \in 0 .. k - 1 : addrs[i][h] = 0
        /\ Bfree(p, addrs[i][k], 0)
        /\ addrs' = [addrs EXCEPT ![i][k] = 0]

\* The entries of the indirect block, then the block
TruncIndirect(p) ==
    LET i == req[p].ip
        t == addrs[i][NDIRECT]
        left == {j \in req[p].tot .. NINDIRECT - 1 : content[t].a[j] # 0}
    IN  /\ req[p].op = "trunc" /\ t # 0
        /\ \A h \in 0 .. NDIRECT - 1 : addrs[i][h] = 0
        /\ \/ /\ \E j \in left : (\A h \in left : j <= h) /\ Bfree(p, content[t].a[j], j + 1)
              /\ UNCHANGED addrs
           \/ /\ left = {}
              /\ Bfree(p, t, 0)
              /\ addrs' = [addrs EXCEPT ![i][NDIRECT] = 0]

TruncEnd(p) ==
    LET i == req[p].ip
    IN  /\ req[p].op = "trunc" /\ \A k \in 0 .. NDIRECT : addrs[i][k] = 0
        /\ size' = [size EXCEPT ![i] = 0]
        /\ holder' = [holder EXCEPT ![i] = NoHolder]
        /\ req' = [req EXCEPT ![p] = NoRequest]
        /\ UNCHANGED <<used, addrs, content, off, broken>>
-----------------------------------------------------------------------------
BlocksNext ==
    /\ \E p \in Clients :
          \/ \E f \in Opens, n \in Lengths : FileWrite(p, f, n) \/ FileRead(p, f, n)
          \/ ChunkBegin(p) \/ WriteRound(p) \/ WriteEnd(p)
          \/ \E i \in Inos : TruncBegin(p, i)
          \/ \E k \in 0 .. NDIRECT - 1 : TruncDirect(p, k)
          \/ TruncIndirect(p) \/ TruncEnd(p)
    /\ UNCHANGED fip

BlocksSpec == BlocksInit /\ [][BlocksNext]_blockVars
-----------------------------------------------------------------------------
\* The entries of the indirect block that itrunc() has not freed yet
Unfreed(i) ==
    LET freed == IF holder[i] # NoHolder /\ req[holder[i]].op = "trunc"
                 THEN req[holder[i]].tot ELSE 0
    IN  IF addrs[i][NDIRECT] = 0 THEN {} ELSE freed .. NINDIRECT - 1

\* Where block numbers are kept, and the number kept there
Places == UNION {{<<i, "addrs", k>> : k \in 0 .. NDIRECT}
                 \cup {<<i, "indirect", j>> : j \in Unfreed(i)} : i \in Inos}
NumberAt(q) == IF q[2] = "addrs" THEN addrs[q[1]][q[3]]
         ELSE content[addrs[q[1]][NDIRECT]].a[q[3]]

(* A block is marked in the bitmap exactly while one inode has it, in one   *)
(* place, whatever failed half way, and an indirect block holds nothing     *)
(* else; a file has every block below its size, so that reading it does not *)
(* allocate.                                                                *)
BlocksAreAccounted ==
    /\ ~broken
    /\ used = {NumberAt(q) : q \in Places} \ {0}
    /\ \A q, r \in Places : NumberAt(q) = NumberAt(r) /\ NumberAt(q) # 0 => q = r
    /\ \A i \in Inos :
          /\ addrs[i][NDIRECT] # 0 => ~content[addrs[i][NDIRECT]].data
          /\ holder[i] = NoHolder => \A x \in 0 .. size[i] - 1 : BlockAt(i, x \div BSIZE) # 0

(* One operation logs no more blocks than begin_op() reserved for it, the   *)
(* inode's included; Log relies on this for the space of the log.           *)
OperationsFit == \A p \in Clients : Cardinality(req[p].logged) + 1 <= MAXOPBLOCKS

\* The two, which one run checks.
BlocksHold == BlocksAreAccounted /\ OperationsFit
=============================================================================
