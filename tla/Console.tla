------------------------------ MODULE Console --------------------------------
(***************************************************************************)
(* The console (kernel/console.c) on its UART (kernel/uart.c): processes   *)
(* that read() and write() it, the interrupt handler that edits the input  *)
(* and echoes it, and the chip's two FIFOs.                                *)
(*                                                                         *)
(* What consoleread() does under cons.lock is one step; the handler keeps  *)
(* the lock while it echoes, one character at a time, spinning until the   *)
(* chip is idle.  In uartwrite() sleep_prepare(), the look at LSR, the     *)
(* write to THR and sleep() are separate steps: it holds no spinlock.      *)
(* What is written is not modelled, only how much.  Cells of the buffer    *)
(* that hold no input any more are blanked, to identify states nobody can  *)
(* tell apart.                                                             *)
(***************************************************************************)
EXTENDS Integers, FiniteSets, Sequences

CONSTANTS
    Readers, Writers,   \* processes
    Plain,              \* ordinary characters
    NL, CR, EOF,        \* '\n', '\r', ^D
    KILL, ERASE, PROCS, \* ^U, ^H or delete, ^P or 0
    INPUT_BUF_SIZE,     \* 128 in the code
    Wrap,               \* where the indices wrap, 2^32 in the code
    Batch,              \* what consolewrite() copies at a time, 32 in the code
    Depth,              \* characters the transmitter's FIFO holds, 16 in the chip
    MaxRead, MaxWrite, MaxTyped \* bounds: a read(), a write(), characters not yet handled

ASSUME ConsoleAssumption ==
    /\ INPUT_BUF_SIZE \in Nat \ {0}
    /\ Wrap \in Nat /\ Wrap > INPUT_BUF_SIZE /\ Wrap % INPUT_BUF_SIZE = 0
    /\ Batch \in Nat \ {0}
    /\ Depth \in Nat /\ Depth >= 2
    /\ MaxRead \in Nat /\ MaxWrite \in Nat /\ MaxTyped \in Nat

VARIABLES
    buf, r, w, e,       \* cons
    reader,             \* where each reader is
    want, got,          \* the n of its read(), and what it has of it or returns
    killed,             \* p->killed
    writer,             \* where each writer is
    left,               \* bytes of its write() still to send
    batch,              \* of those, bytes of the current uartwrite()
    txChan,             \* writers whose p->chan is &tx_chan
    txLock,             \* holders of tx_lock
    thr, rhr,           \* the chip: characters to send, characters received
    txDone,             \* it has a transmitter interrupt to announce
    uart,       \* where uartintr() is
    echo                \* characters consoleintr() has still to echo

inputVars == <<buf, r, w, e>>
readVars == <<reader, want, got, killed>>
writeVars == <<writer, left, batch, txChan, txLock>>
chipVars == <<thr, rhr, txDone>>
uartVars == <<uart, echo>>
consVars == <<inputVars, readVars, writeVars, chipVars, uartVars>>

Chars == Plain \cup {NL, CR, EOF, KILL, ERASE, PROCS}

ConsTypeOK ==
    /\ buf \in [0 .. INPUT_BUF_SIZE - 1 -> Plain \cup {NL, EOF}]
    /\ {r, w, e} \subseteq 0 .. Wrap - 1
    /\ reader \in [Readers -> {"user", "loop", "sleep", "return"}]
    /\ want \in [Readers -> 0 .. MaxRead]
    /\ got \in [Readers -> Seq(Plain \cup {NL})]
    /\ killed \in [Readers -> BOOLEAN]
    /\ writer \in [Writers -> {"user", "lock", "locksleep", "prepare", "look", "put", "sleep"}]
    /\ left \in [Writers -> 0 .. MaxWrite]
    /\ batch \in [Writers -> 0 .. Batch]
    /\ txChan \subseteq Writers
    /\ txLock \subseteq Writers
    /\ thr \in 0 .. Depth
    /\ rhr \in 0 .. MaxTyped
    /\ txDone \in BOOLEAN
    /\ uart \in {"off", "look", "getc", "echo", "put"}
    /\ echo \in Nat

\* consoleinit() and uartinit().
ConsInit ==
    /\ buf = [i \in 0 .. INPUT_BUF_SIZE - 1 |-> NL]
    /\ r = 0 /\ w = 0 /\ e = 0
    /\ reader = [p \in Readers |-> "user"]
    /\ want = [p \in Readers |-> 0]
    /\ got = [p \in Readers |-> <<>>]
    /\ killed = [p \in Readers |-> FALSE]
    /\ writer = [p \in Writers |-> "user"]
    /\ left = [p \in Writers |-> 0]
    /\ batch = [p \in Writers |-> 0]
    /\ txChan = {} /\ txLock = {}
    /\ thr = 0 /\ rhr = 0 /\ txDone = FALSE
    /\ uart = "off" /\ echo = 0

Dist(to, from) == (to - from) % Wrap
Slice(from, to) == [i \in 1 .. Dist(to, from) |-> buf[(from + i - 1) % INPUT_BUF_SIZE]]
Blank(from, n) == [i \in 0 .. INPUT_BUF_SIZE - 1 |->
    IF (i - from) % INPUT_BUF_SIZE < n THEN NL ELSE buf[i]]
Min2(a, b) == IF a < b THEN a ELSE b

-----------------------------------------------------------------------------
(* consoleread() *)

ReadCall(p, n) ==
    /\ reader[p] = "user"
    /\ reader' = [reader EXCEPT ![p] = "loop"]
    /\ want' = [want EXCEPT ![p] = n]
    /\ UNCHANGED <<inputVars, got, killed, writeVars, chipVars, uartVars>>

\* consoleintr() holds cons.lock while it echoes.
ConsFree == uart \notin {"echo", "put"}

\* How much of the entered input one pass of the loop takes: up to the first
\* end, or to what is wanted.
Ends(s) == {i \in DOMAIN s : s[i] \in {NL, EOF}}
Takes(s, n) ==
    LET k == Min2(n, Len(s))
        ends == {i \in Ends(s) : i <= k}
    IN IF ends = {} THEN k ELSE CHOOSE i \in ends : \A j \in ends : i <= j

\* Mutant of PutBack: ^D is consumed with the bytes before it.
PutBackNever(p, s, k) == FALSE

\* A ^D after other bytes is left for the next read().
PutBack(p, s, k) == k > 0 /\ s[k] = EOF /\ (k > 1 \/ got[p] # <<>>)

\* The bytes p gets when it takes k characters of s, all but a ^D.
Copied(s, k) == SubSeq(s, 1, IF k > 0 /\ s[k] = EOF THEN k - 1 ELSE k)

\* It takes what there is, and returns at an end or when it has enough; it
\* sleeps if there is nothing, unless it was killed.
ReadLoop(p) ==
    /\ reader[p] = "loop" /\ ConsFree
    /\ LET s == Slice(r, w)
           k == Takes(s, want[p] - Len(got[p]))
           now == got[p] \o Copied(s, k)
           ended == k > 0 /\ s[k] \in {NL, EOF}
           taken == IF PutBack(p, s, k) THEN k - 1 ELSE k
       IN /\ r' = (r + taken) % Wrap
          /\ buf' = Blank(r, taken)
          /\ got' = [got EXCEPT ![p] = now]
          /\ reader' = [reader EXCEPT ![p] =
                IF ended \/ Len(now) = want[p] \/ killed[p] THEN "return" ELSE "sleep"]
    /\ UNCHANGED <<w, e, want, killed, writeVars, chipVars, uartVars>>

\* The copy of the kth character fails: it is taken and lost, and the read ends
\* with those before it.
ReadFaults(p) ==
    /\ reader[p] = "loop" /\ ConsFree
    /\ \E k \in 1 .. Takes(Slice(r, w), want[p] - Len(got[p])) :
          /\ Slice(r, w)[k] # EOF
          /\ r' = (r + k) % Wrap
          /\ buf' = Blank(r, k)
          /\ got' = [got EXCEPT ![p] = @ \o SubSeq(Slice(r, w), 1, k - 1)]
    /\ reader' = [reader EXCEPT ![p] = "return"]
    /\ UNCHANGED <<w, e, want, killed, writeVars, chipVars, uartVars>>

\* Back in user space; a process that was killed exits and another one comes.
ReadReturn(p) ==
    /\ reader[p] = "return"
    /\ reader' = [reader EXCEPT ![p] = "user"]
    /\ want' = [want EXCEPT ![p] = 0]
    /\ got' = [got EXCEPT ![p] = <<>>]
    /\ killed' = [killed EXCEPT ![p] = FALSE]
    /\ UNCHANGED <<inputVars, writeVars, chipVars, uartVars>>

\* kkill() wakes a sleeper.
Kill(p) ==
    /\ reader[p] \in {"loop", "sleep"} /\ ~killed[p]
    /\ killed' = [killed EXCEPT ![p] = TRUE]
    /\ reader' = [reader EXCEPT ![p] = IF @ = "sleep" THEN "loop" ELSE @]
    /\ UNCHANGED <<inputVars, want, got, writeVars, chipVars, uartVars>>

-----------------------------------------------------------------------------
(* consolewrite() and uartwrite() *)

At(p, l) == writer[p] = l
Go(p, l) == writer' = [writer EXCEPT ![p] = l]

WriteCall(p, n) ==
    /\ At(p, "user") /\ Go(p, "lock")
    /\ left' = [left EXCEPT ![p] = n]
    /\ UNCHANGED <<inputVars, readVars, batch, txChan, txLock, chipVars, uartVars>>

\* acquiresleep(&tx_lock), once per batch.
TxAcquire(p) ==
    /\ At(p, "lock")
    /\ IF txLock = {}
       THEN /\ Go(p, "prepare")
            /\ txLock' = {p}
            /\ batch' = [batch EXCEPT ![p] = Min2(Batch, left[p])]
       ELSE Go(p, "locksleep") /\ UNCHANGED <<txLock, batch>>
    /\ UNCHANGED <<inputVars, readVars, left, txChan, chipVars, uartVars>>

\* Mutant of TxPrepare: sleep_prepare() comes after the look at LSR.
TxPrepareLate(p) ==
    /\ At(p, "prepare") /\ Go(p, "look")
    /\ UNCHANGED <<inputVars, readVars, left, batch, txLock, chipVars, uartVars>>
    /\ txChan' = txChan \ {p}

TxPrepare(p) ==
    /\ At(p, "prepare") /\ Go(p, "look")
    /\ txChan' = txChan \cup {p}
    /\ UNCHANGED <<inputVars, readVars, left, batch, txLock, chipVars, uartVars>>

\* LSR_TX_IDLE: the FIFO is empty.
TxLook(p) ==
    /\ At(p, "look")
    /\ Go(p, IF thr = 0 THEN "put" ELSE "sleep")
    /\ UNCHANGED <<inputVars, readVars, left, batch, txChan, txLock, chipVars, uartVars>>

\* A character to THR withdraws the transmitter's interrupt.
Send == thr' = thr + 1 /\ txDone' = FALSE /\ UNCHANGED rhr

\* The last byte of a batch is followed by releasesleep(); the writer goes on
\* with another batch, or returns.
TxPut(p) ==
    /\ At(p, "put")
    /\ Send
    /\ left' = [left EXCEPT ![p] = @ - 1]
    /\ batch' = [batch EXCEPT ![p] = @ - 1]
    /\ IF batch[p] > 1
       THEN Go(p, "prepare") /\ UNCHANGED txLock
       ELSE /\ txLock' = {}
            /\ writer' = [q \in Writers |->
                  IF q = p THEN (IF left[p] > 1 THEN "lock" ELSE "user")
                  ELSE IF writer[q] = "locksleep" THEN "lock" ELSE writer[q]]
    /\ UNCHANGED <<inputVars, readVars, txChan, uartVars>>

\* sleep() returns once the channel is cleared.
TxWoken(p) ==
    /\ At(p, "sleep") /\ p \notin txChan
    /\ Go(p, "prepare")
    /\ UNCHANGED <<inputVars, readVars, left, batch, txChan, txLock, chipVars, uartVars>>

-----------------------------------------------------------------------------
(* The chip *)

\* A key is pressed; which one matters when it is handled.
Typed ==
    /\ rhr < MaxTyped
    /\ rhr' = rhr + 1
    /\ UNCHANGED <<inputVars, readVars, writeVars, thr, txDone, uartVars>>

Transmit ==
    /\ thr > 0
    /\ thr' = thr - 1
    /\ txDone' = (thr = 1)
    /\ UNCHANGED <<inputVars, readVars, writeVars, rhr, uartVars>>

-----------------------------------------------------------------------------
(* uartintr() and consoleintr() *)

\* Reading ISR acknowledges.
UartEnter ==
    /\ uart = "off" /\ (txDone \/ rhr > 0)
    /\ txDone' = FALSE
    /\ uart' = "look"
    /\ UNCHANGED <<inputVars, readVars, writeVars, thr, rhr, echo>>

UartLook ==
    /\ uart = "look"
    /\ txChan' = IF thr = 0 THEN {} ELSE txChan
    /\ uart' = "getc"
    /\ UNCHANGED <<inputVars, readVars, writer, left, batch, txLock, chipVars, echo>>

UartReturn ==
    /\ uart = "getc" /\ rhr = 0
    /\ uart' = "off"
    /\ UNCHANGED <<inputVars, readVars, writeVars, chipVars, echo>>

\* Takes c from RHR and has cons.lock; n characters will be echoed.
Handle(c, n) ==
    /\ uart = "getc"
    /\ rhr > 0
    /\ rhr' = rhr - 1
    /\ uart' = "echo"
    /\ echo' = n
    /\ UNCHANGED <<writeVars, thr, txDone>>

\* What a backspace sends, BS SP BS, counts as one character here.
KillChar ==
    /\ Handle(KILL, Dist(e, w))
    /\ e' = w
    /\ buf' = Blank(w, Dist(e, w))
    /\ UNCHANGED <<r, w, readVars>>

EraseChar ==
    /\ Handle(ERASE, IF e # w THEN 1 ELSE 0)
    /\ e' = IF e # w THEN (e - 1) % Wrap ELSE e
    /\ buf' = IF e # w THEN Blank(e - 1, 1) ELSE buf
    /\ UNCHANGED <<r, w, readVars>>

\* 0 is ignored, and so is what finds no room.
IgnoreChar(c) ==
    /\ c = PROCS \/ (c \notin {KILL, ERASE} /\ Dist(e, r) >= INPUT_BUF_SIZE)
    /\ Handle(c, 0)
    /\ UNCHANGED <<inputVars, readVars>>

\* procdump() prints, which counts as one character.
ListProcs == Handle(PROCS, 1) /\ UNCHANGED <<inputVars, readVars>>

\* c completes a line, or fills the buffer.
Entered(c) == c \in {NL, EOF} \/ Dist(e, r) + 1 = INPUT_BUF_SIZE

StoreChar(c) ==
    /\ c \notin {KILL, ERASE, PROCS} /\ Dist(e, r) < INPUT_BUF_SIZE
    /\ Handle(c, 1)
    /\ LET d == IF c = CR THEN NL ELSE c IN
          /\ buf' = [buf EXCEPT ![e % INPUT_BUF_SIZE] = d]
          /\ e' = (e + 1) % Wrap
          /\ w' = IF Entered(d) THEN e' ELSE w
          /\ reader' = IF Entered(d)
                       THEN [p \in Readers |-> IF reader[p] = "sleep" THEN "loop" ELSE reader[p]]
                       ELSE reader
    /\ UNCHANGED <<r, want, got, killed>>

\* uartputc_sync(): spin on LSR, then write; uartwrite() may come between.
EchoReady ==
    /\ uart = "echo" /\ echo > 0 /\ thr = 0
    /\ uart' = "put"
    /\ UNCHANGED <<inputVars, readVars, writeVars, chipVars, echo>>

EchoPut ==
    /\ uart = "put"
    /\ Send
    /\ echo' = echo - 1
    /\ uart' = "echo"
    /\ UNCHANGED <<inputVars, readVars, writeVars>>

EchoEnd ==
    /\ uart = "echo" /\ echo = 0
    /\ uart' = "getc"
    /\ UNCHANGED <<inputVars, readVars, writeVars, chipVars, echo>>

\* A key of K is handled, or the handler goes on without one.
Interrupt(K) ==
    \/ UartEnter \/ UartLook \/ UartReturn \/ EchoReady \/ EchoPut \/ EchoEnd
    \/ KILL \in K /\ KillChar
    \/ ERASE \in K /\ EraseChar
    \/ PROCS \in K /\ ListProcs
    \/ \E c \in K : StoreChar(c) \/ IgnoreChar(c)

Read(p) ==
    \/ ReadLoop(p) \/ ReadFaults(p) \/ ReadReturn(p) \/ Kill(p)
    \/ \E n \in 1 .. MaxRead : ReadCall(p, n)

Write(p) ==
    \/ TxAcquire(p) \/ TxPrepare(p) \/ TxLook(p) \/ TxPut(p) \/ TxWoken(p)
    \/ \E n \in 1 .. MaxWrite : WriteCall(p, n)

\* The chip and the interrupt handler, when the keys in K are typed.
ConsStep(K) == Typed \/ Transmit \/ Interrupt(K)

-----------------------------------------------------------------------------
(* Properties *)

Discipline == INSTANCE LineDiscipline WITH
    entered <- Slice(r, w),
    line <- Slice(w, e)

\* Whatever is typed, edited and read at once in a buffer of three indices
\* that wrap, readers get the entered input, in order, at most a line or an
\* end-of-file at a time, a byte being lost only to a failed copy, and only the
\* current line can be edited
\* (console.c:96-135, 151-187).
ReadsEnteredLines == Discipline!Spec

\* A reader sleeps only while nothing is entered, and then there is room to
\* enter something; a writer sleeps only while characters are being sent or an
\* interrupt is on its way to it (console.c:99-108, 170, uart.c:86-92, 141-146).
ConsoleSleeperIsOwed ==
    /\ \A p \in Readers : reader[p] = "sleep" => r = w /\ Dist(e, r) < INPUT_BUF_SIZE
    /\ \A p \in Writers :
          /\ At(p, "sleep") /\ p \in txChan => thr > 0 \/ txDone \/ uart = "look"
          /\ At(p, "locksleep") => txLock # {}
=============================================================================
