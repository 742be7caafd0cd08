------------------------------ MODULE Console ------------------------------
(***************************************************************************)
(* kernel/console.c and kernel/uart.c: the interrupt handler that edits    *)
(* the input line in a ring of INPUT_BUF_SIZE characters, the processes    *)
(* that read lines from it, and the processes that write, one character at *)
(* a time, to a device that is also used for the echo.                     *)
(*                                                                         *)
(* cons.lock is a variable: consoleread() keeps it from character to       *)
(* character, and consoleintr() while it waits for the device to take the  *)
(* echo.  What happens under tx_lock is one step.  The indexes are         *)
(* unsigned integers; they wrap at WRAP.                                   *)
(***************************************************************************)
EXTENDS Integers, Sequences, FiniteSets

CONSTANTS
  Readers, Writers,  \* processes in read() and in write()
  Letters,           \* the characters that stand for themselves
  INPUT_BUF_SIZE,
  WRAP,              \* values of an index: 2^32 in the code
  Wants,             \* for each reader, the n of its read()s
  Sends,             \* for each writer, the n of its write()
  Victims,           \* the readers that may be killed
  Start,             \* where the indexes are after earlier input
  MaxTyped           \* bound: characters that arrive in all

ASSUME ConsoleAssumption ==
  /\ INPUT_BUF_SIZE \in Nat \ {0} /\ WRAP \in Nat \ {0}
  /\ Wants \in [Readers -> Nat \ {0}] /\ Sends \in [Writers -> Nat \ {0}]
  /\ Victims \subseteq Readers /\ Start \in 0..(WRAP - 1)
  /\ WRAP % INPUT_BUF_SIZE = 0 /\ WRAP > INPUT_BUF_SIZE

Newline == "newline"
Eof == "eof"          \* control-d
Backspace == "backspace"
KillLine == "kill"    \* control-u
Keys == Letters \cup {Newline, Eof, Backspace, KillLine}
Nobody == "nobody"
Intr == "intr"

VARIABLES
  buf, r, w, e,  \* cons
  lock,      \* cons.lock: Nobody, Intr, or a reader
  rd,        \* readers: where they are, what they still want, what they got
  killed,    \* readers that are killed
  tx_busy,
  wr,        \* writers: where they are, and how many characters remain
  intr,      \* the interrupt handler: where, its character, its echoes
  rx, fifo,  \* the device: characters that arrived, and that are to be sent
  irq,       \* the device asks for an interrupt
  typed      \* bound: characters that may still arrive

cons == <<buf, r, w, e>>
device == <<rx, fifo, irq, typed>>
vars == <<cons, lock, rd, killed, tx_busy, wr, intr, device>>

Idle == [pc |-> "idle", n |-> 0, got |-> <<>>]
NoIntr == [pc |-> "none", c |-> Nobody, echo |-> 0]

Init ==
  /\ buf = [k \in 0..(INPUT_BUF_SIZE - 1) |-> Nobody]
  /\ r = Start /\ w = Start /\ e = Start
  /\ lock = Nobody
  /\ rd = [p \in Readers |-> Idle] /\ killed = {}
  /\ tx_busy = 0 /\ wr = [q \in Writers |-> [pc |-> "write", n |-> Sends[q]]]
  /\ intr = NoIntr
  /\ rx = <<>> /\ fifo = 0 /\ irq = FALSE /\ typed = MaxTyped

-----------------------------------------------------------------------------
(* Indexes.                                                                *)

Up(k) == (k + 1) % WRAP
Down(k) == (k - 1) % WRAP
Minus(k, l) == (k - l) % WRAP
At(k) == buf[k % INPUT_BUF_SIZE]

-----------------------------------------------------------------------------
(* consoleread().                                                          *)

ReadBegin(p) ==
  /\ rd[p].pc = "idle" /\ p \notin killed
  /\ rd' = [rd EXCEPT ![p] = [pc |-> "read", n |-> Wants[p], got |-> <<>>]]
  /\ UNCHANGED <<cons, lock, killed, tx_busy, wr, intr, device>>

\* At the head of the loop, with the lock: a reader that begins, or that
\* sleep() returns to, acquires it.
Reading(p) == rd[p].pc = "read" /\ lock \in {p, Nobody}
Returns(p) == rd' = [rd EXCEPT ![p] = Idle] /\ lock' = Nobody

\* There is nothing to read: to sleep, without the lock; -1 if killed.
ReadWaits(p) ==
  /\ Reading(p) /\ r = w
  /\ IF p \in killed THEN Returns(p)
     ELSE rd' = [rd EXCEPT ![p].pc = "sleep"] /\ lock' = Nobody
  /\ UNCHANGED <<cons, killed, tx_busy, wr, intr, device>>

\* The end of file is saved for the next read, unless this one has nothing.
\* AfterEof_Taken: it is not.
AfterEof_Taken(p) == Up(r)
AfterEof(p) == IF rd[p].got # <<>> THEN r ELSE Up(r)

\* One character; the user's buffer may turn out to be no good.  The read is
\* over at a newline, or when it has all it wants.
ReadChar(p) ==
  /\ Reading(p) /\ r # w
  /\ IF At(r) = Eof THEN r' = AfterEof(p) /\ Returns(p)
     ELSE /\ r' = Up(r)
          /\ \/ /\ At(r) # Newline /\ rd[p].n > 1
                /\ rd' = [rd EXCEPT ![p].n = @ - 1, ![p].got = Append(@, At(r))]
                /\ lock' = p
             \/ Returns(p)
  /\ UNCHANGED <<buf, w, e, killed, tx_busy, wr, intr, device>>

Woken(ps) ==
  [p \in Readers |-> IF p \in ps /\ rd[p].pc = "sleep"
                     THEN [rd[p] EXCEPT !.pc = "read"] ELSE rd[p]]

Kill(p) ==
  /\ p \in Victims \ killed /\ rd[p].pc = "sleep"
  /\ killed' = killed \cup {p}
  /\ rd' = Woken({p})
  /\ UNCHANGED <<cons, lock, tx_busy, wr, intr, device>>

-----------------------------------------------------------------------------
(* uartwrite(), for consolewrite().                                        *)

WriteChar(q) ==
  /\ wr[q].pc = "write"
  /\ IF tx_busy # 0
     THEN wr' = [wr EXCEPT ![q].pc = "sleep"] /\ UNCHANGED <<tx_busy, fifo>>
     ELSE /\ fifo' = fifo + 1 /\ tx_busy' = 1
          /\ wr' = [wr EXCEPT ![q] = [pc |-> IF @.n = 1 THEN "done" ELSE "write",
                                      n |-> @.n - 1]]
  /\ UNCHANGED <<cons, lock, rd, killed, intr, rx, irq, typed>>

-----------------------------------------------------------------------------
(* consoleintr(): what a character does to cons.                           *)

\* control-u erases back to what is ready, or to a newline.
RECURSIVE Killed(_)
Killed(k) == IF k # w /\ At(Down(k)) # Newline THEN Killed(Down(k)) ELSE k

Stored == Minus(e, r) < INPUT_BUF_SIZE

\* The line is ready: it is whole, or the buffer is full.
Commits(c) == c \in {Newline, Eof} \/ Minus(Up(e), r) = INPUT_BUF_SIZE

\* Where e goes, and how many characters are echoed.
Edited(c) ==
  CASE c = KillLine -> Killed(e)
    [] c = Backspace -> IF e # w THEN Down(e) ELSE e
    [] OTHER -> IF Stored THEN Up(e) ELSE e

\* How many characters consputc() is called for; that it sends three for a
\* backspace is left out.
Echoes(c) ==
  CASE c = KillLine -> Minus(e, Killed(e))
    [] c = Backspace -> IF e # w THEN 1 ELSE 0
    [] OTHER -> IF Stored THEN 1 ELSE 0

\* wakeup(&cons.r)
\* WakeReaders_None: nobody is woken.
WakeReaders_None == rd
WakeReaders == Woken(Readers)

-----------------------------------------------------------------------------
(* uartintr().                                                             *)

\* Reading ISR acknowledges the interrupt.
IntrBegin ==
  /\ intr.pc = "none" /\ irq
  /\ irq' = FALSE
  /\ intr' = [intr EXCEPT !.pc = "tx"]
  /\ UNCHANGED <<cons, lock, rd, killed, tx_busy, wr, rx, fifo, typed>>

\* LSR says that the device can take a character.
TxIdle == fifo = 0

\* WakeWriters_None: nobody is woken.
WakeWriters_None == wr
WakeWriters ==
  [q \in Writers |-> IF wr[q].pc = "sleep" THEN [wr[q] EXCEPT !.pc = "write"] ELSE wr[q]]

IntrTx ==
  /\ intr.pc = "tx"
  /\ IF TxIdle THEN tx_busy' = 0 /\ wr' = WakeWriters ELSE UNCHANGED <<tx_busy, wr>>
  /\ intr' = [intr EXCEPT !.pc = "rx"]
  /\ UNCHANGED <<cons, lock, rd, killed, device>>

IntrChar ==
  /\ intr.pc = "rx" /\ rx # <<>> /\ lock = Nobody
  /\ lock' = Intr
  /\ rx' = Tail(rx)
  /\ intr' = [pc |-> "echo", c |-> Head(rx), echo |-> Echoes(Head(rx))]
  /\ UNCHANGED <<cons, rd, killed, tx_busy, wr, fifo, irq, typed>>

\* uartputc_sync() waits for the device, with cons.lock held.
IntrEcho ==
  /\ intr.pc = "echo" /\ intr.echo > 0 /\ fifo = 0
  /\ fifo' = 1
  /\ intr' = [intr EXCEPT !.echo = @ - 1]
  /\ UNCHANGED <<cons, lock, rd, killed, tx_busy, wr, rx, irq, typed>>

\* The rest of consoleintr(): a character is stored, and may end the line.
IntrStore ==
  /\ intr.pc = "echo" /\ intr.echo = 0
  /\ e' = Edited(intr.c)
  /\ IF intr.c \in Letters \cup {Newline, Eof} /\ Stored
     THEN /\ buf' = [buf EXCEPT ![e % INPUT_BUF_SIZE] = intr.c]
          /\ IF Commits(intr.c) THEN w' = Up(e) /\ rd' = WakeReaders
                                ELSE UNCHANGED <<w, rd>>
     ELSE UNCHANGED <<buf, w, rd>>
  /\ lock' = Nobody
  /\ intr' = [NoIntr EXCEPT !.pc = "rx"]
  /\ UNCHANGED <<r, killed, tx_busy, wr, device>>

IntrEnd ==
  /\ intr.pc = "rx" /\ rx = <<>>
  /\ intr' = NoIntr
  /\ UNCHANGED <<cons, lock, rd, killed, tx_busy, wr, device>>

-----------------------------------------------------------------------------
(* The device: it asks for an interrupt when a character has arrived and   *)
(* when it has sent the last one.                                          *)

Arrive ==
  /\ typed > 0 /\ Len(rx) < 1
  /\ \E c \in Keys : rx' = Append(rx, c)
  /\ irq' = TRUE /\ typed' = typed - 1
  /\ UNCHANGED <<cons, lock, rd, killed, tx_busy, wr, intr, fifo>>

Transmit ==
  /\ fifo > 0
  /\ fifo' = fifo - 1
  /\ irq' = (irq \/ fifo = 1)
  /\ UNCHANGED <<cons, lock, rd, killed, tx_busy, wr, intr, rx, typed>>

-----------------------------------------------------------------------------
ReadNext(p) == ReadWaits(p) \/ ReadChar(p)
Handler == IntrBegin \/ IntrTx \/ IntrChar \/ IntrEcho \/ IntrStore \/ IntrEnd

Next ==
  \/ \E p \in Readers : ReadBegin(p) \/ ReadNext(p) \/ Kill(p)
  \/ \E q \in Writers : WriteChar(q)
  \/ Handler \/ Arrive \/ Transmit

\* A runnable process is scheduled, a pending interrupt is taken, and the
\* device sends; nobody has to read, write or type.
Fairness ==
  /\ \A p \in Readers : WF_vars(ReadNext(p))
  /\ \A q \in Writers : WF_vars(WriteChar(q))
  /\ WF_vars(Handler) /\ WF_vars(Transmit)

Spec == Init /\ [][Next]_vars /\ Fairness

-----------------------------------------------------------------------------
\* The input between two indexes.
Between(k, l) == [j \in 1..Minus(l, k) |-> At(k + j - 1)]

TtyView == INSTANCE Tty WITH
  Capacity <- INPUT_BUF_SIZE,
  ready <- Between(r, w), line <- Between(w, e),
  call <- [p \in Readers |-> IF rd[p].pc = "idle" THEN <<>> ELSE <<rd[p].got>>]

\* The ring with its three indexes, and the handler and the readers at them,
\* are a line discipline: whatever is typed, erased, killed and read, and
\* wherever the ring and the indexes wrap, readers get what was typed, each
\* character once and in order, a line at a time, and one empty read for each
\* end of file.
Implements == TtyView!TtySpec

\* What is ready is read, if somebody wants it: no reader sleeps beside it.
LineRead ==
  LET Wanted == \E p \in Readers : rd[p].pc # "idle"
  IN (Wanted /\ r # w) ~> (~Wanted \/ r = w)

\* A write() to the console gets through, whatever is echoed meanwhile.
WriteReturns == \A q \in Writers : wr[q].pc = "write" ~> wr[q].pc = "done"
=============================================================================
