------------------------------- MODULE Devices -------------------------------
(***************************************************************************)
(* The kernel's two device drivers with those who wait for them: the       *)
(* buffer cache over the virtio disk, and the console on its UART.  They   *)
(* share no state and no lock, so each is checked while the other is idle, *)
(* and the console's readers while nobody writes to it.                    *)
(***************************************************************************)
EXTENDS BufferCache, Console

CONSTANTS
    EchoChars,  \* what is typed while there are writers
    Load        \* for each number of descriptors, bounds on the processes, blocks and pinned blocks

ASSUME DevicesAssumption ==
    /\ EchoChars \subseteq Chars
    /\ Load \in [NUMS -> [procs : 1 .. Cardinality(Procs), blocks : 1 .. Cardinality(Blocks),
                        pins : 0 .. Cardinality(Blocks)]]

VARIABLES
    busy,       \* what is going on: "disk", "read" or "write"
    area,       \* the blocks in use
    panicked    \* of printk.c: the kernel has stopped

vars == <<storeVars, consVars, busy, area, panicked>>

TypeOK ==
    /\ CacheTypeOK /\ ConsTypeOK
    /\ busy \in {"disk", "read", "write"} /\ area \subseteq Blocks /\ panicked \in BOOLEAN

Init ==
    /\ CacheInit /\ ConsInit
    /\ busy \in {"disk", "read", "write"}
    /\ area \in SUBSET Blocks /\ Cardinality(area) = Load[num].blocks
    /\ busy # "disk" => num = Least(NUMS)
    /\ panicked = FALSE

\* The processes that are in the cache.
Inside == {p \in Procs : pc[p] # "user"}

\* bget() finds no buffer, or the handler an error.
Panic ==
    /\ \/ IntrPanics
       \/ /\ Cardinality(Inside) < Load[num].procs
          /\ \E p \in Procs, n \in area : BgetPanics(p, n)
    /\ panicked' = TRUE
    /\ UNCHANGED <<storeVars, consVars, busy, area>>

\* panic() loops for ever, with its lock; what the other harts still do before
\* they print or want that lock is left out.
Panicked == panicked /\ UNCHANGED vars

Operate ==
    \/ /\ busy = "disk" /\ CacheNext
       /\ Cardinality(Inside') <= Load[num].procs
       /\ \A b \in Bufs : blockno'[b] \in area \cup {Nobody}
       /\ Cardinality(pinned') <= Load[num].pins
       /\ UNCHANGED <<consVars, busy, area>>
    \/ /\ \/ busy = "read" /\ (\E p \in Readers : Read(p))
          \/ busy = "write" /\ (\E p \in Writers : Write(p))
          \/ busy = "read" /\ ConsStep(Chars)
          \/ busy = "write" /\ ConsStep(EchoChars)
       /\ UNCHANGED <<storeVars, busy, area>>

Next == Panicked \/ (~panicked /\ (Panic \/ (Operate /\ UNCHANGED panicked)))

Spec == Init /\ [][Next]_vars
-----------------------------------------------------------------------------
(* Properties *)

\* Both devices serve everybody who waits for them: no sleeper is forgotten
\* and no completion goes unannounced (sleeplock.c:25-30, virtio_disk.c:228-236,
\* 287-292, 307-331, console.c:99-108, uart.c:86-92, 141-146).
DevicesServe == StoreSleeperIsOwed /\ ConsoleSleeperIsOwed
=============================================================================
