------------------------------ MODULE Console ------------------------------
(***************************************************************************)
(* The console: line editing of kernel/console.c between the keyboard and  *)
(* the processes that read, and the transmit buffer of kernel/uart.c       *)
(* between the processes that write, the echo, and the UART.               *)
(*                                                                         *)
(* Indices are unsigned and wrap.  cons.lock and uart_tx_lock are held     *)
(* from a step that takes them to the one that gives them up; sleep gives  *)
(* up the lock and sleeps in one step.  With one CPU the interrupt handler *)
(* and a writer holding uart_tx_lock exclude each other.                   *)
(***************************************************************************)
EXTENDS Integers, Sequences, FiniteSets, SequencesExt

CONSTANTS
  Readers, Writers, \* processes
  Keys,        \* what is typed: "a", "nl", "^D", "^U", "^H"
  MaxKeys,     \* how often
  ReadSize,    \* argument of read
  INPUT_BUF_SIZE,
  UART_TX_BUF_SIZE,
  UintMod,     \* indices count modulo this, a multiple of both sizes
  MaxWrites,   \* characters written by all writers
  Killable,    \* readers that may be killed
  OneCpu

VARIABLES
  cons,        \* cons, with the process or handler that holds its lock
  reader,      \* the readers
  tx,          \* the transmit buffer and its lock
  writer,      \* the writers
  uart,        \* the UART: typed characters, transmit register, interrupt
  handler,     \* the interrupt handler
  typed, written, wire, overrun, eofs

vars == <<cons, reader, tx, writer, uart, handler, typed, written, wire, overrun, eofs>>

None == "none"
Echo == -1    \* an echoed character; written ones are 1, 2, ...; 0: none

Init ==
  /\ cons = [r |-> 0, w |-> 0, e |-> 0, buf |-> [k \in 0..(INPUT_BUF_SIZE - 1) |-> None],
             lock |-> None]
  /\ reader = [p \in Readers |-> [pc |-> "idle", n |-> 0, asleep |-> FALSE, killed |-> FALSE]]
  /\ tx = [r |-> 0, w |-> 0, buf |-> [k \in 0..(UART_TX_BUF_SIZE - 1) |-> 0], lock |-> None]
  /\ writer = [p \in Writers |-> [pc |-> "idle", asleep |-> FALSE]]
  /\ uart = [in |-> <<>>, thr |-> 0, irq |-> FALSE]
  /\ handler = [pc |-> None, echo |-> <<>>]
  /\ typed = 0          \* keys typed so far
  /\ written = 0        \* characters put into tx.buf: they are 1, 2, ...
  /\ wire = 0           \* of these, how many the UART has sent
  /\ overrun = FALSE    \* a character was lost in the transmit register
  /\ eofs = 0           \* ^D stored, less reads that returned 0

Mod(n) == n % UintMod

\* Neither side runs while the other has the only CPU.
WriterMayRun == OneCpu => handler.pc = None
HandlerMayRun == OneCpu => tx.lock \notin Writers

-----------------------------------------------------------------------------
\* The UART (external): a character arrives, or the transmit register empties.

Type(c) ==
  /\ typed < MaxKeys
  /\ typed' = typed + 1
  /\ uart' = [uart EXCEPT !.in = Append(@, c), !.irq = TRUE]
  /\ UNCHANGED <<cons, reader, tx, writer, handler, written, wire, overrun, eofs>>

Transmit ==
  /\ uart.thr # 0
  /\ uart' = [uart EXCEPT !.thr = 0, !.irq = TRUE]
  /\ wire' = IF uart.thr = Echo THEN wire ELSE wire + 1
  /\ UNCHANGED <<cons, reader, tx, writer, handler, typed, written, overrun, eofs>>

\* WriteReg(THR, c)
Send(c) ==
  /\ uart' = [uart EXCEPT !.thr = c]
  /\ overrun' = (overrun \/ uart.thr # 0)

-----------------------------------------------------------------------------
\* consoleread

ReadStart(p) ==
  /\ reader[p].pc = "idle"
  /\ reader' = [reader EXCEPT ![p].pc = "acquire", ![p].n = ReadSize]
  /\ UNCHANGED <<cons, tx, writer, uart, handler, typed, written, wire, overrun, eofs>>

\* acquire(&cons.lock), at the start and at the end of sleep.
ReadAcquire(p) ==
  /\ reader[p].pc = "acquire" /\ ~reader[p].asleep
  /\ cons.lock = None
  /\ cons' = [cons EXCEPT !.lock = p]
  /\ reader' = [reader EXCEPT ![p].pc = "read"]
  /\ UNCHANGED <<tx, writer, uart, handler, typed, written, wire, overrun, eofs>>

\* There is no line: give up if killed, or sleep.
ReadSleep(p) ==
  /\ reader[p].pc = "read" /\ cons.r = cons.w
  /\ cons' = [cons EXCEPT !.lock = None]
  /\ reader' = [reader EXCEPT ![p].pc = IF reader[p].killed THEN "idle" ELSE "acquire",
                              ![p].asleep = ~reader[p].killed,
                              ![p].killed = FALSE]
  /\ UNCHANGED <<tx, writer, uart, handler, typed, written, wire, overrun, eofs>>

\* Fault: ^D is taken with the characters in front of it.
SavedNever(p) == 0

\* cons.r-- saves ^D for the next read if this one has something to return.
Saved(p) == IF reader[p].n < ReadSize THEN 1 ELSE 0

\* A turn of the loop; a killed reader exits after the call.
ReadChar(p) ==
  LET c == cons.buf[cons.r % INPUT_BUF_SIZE]
      done == c \in {"^D", "nl"} \/ reader[p].n = 1
  IN  /\ reader[p].pc = "read" /\ cons.r # cons.w
      /\ cons' = [cons EXCEPT !.r = Mod(@ + 1 - (IF c = "^D" THEN Saved(p) ELSE 0)),
                              !.lock = IF done THEN None ELSE @]
      /\ eofs' = IF c = "^D" /\ reader[p].n = ReadSize THEN eofs - 1 ELSE eofs
      /\ reader' = [reader EXCEPT ![p] =
           IF done THEN [pc |-> "idle", n |-> 0, asleep |-> FALSE, killed |-> FALSE]
           ELSE [@ EXCEPT !.n = @ - 1]]
      /\ UNCHANGED <<tx, writer, uart, handler, typed, written, wire, overrun>>

Kill(p) ==
  /\ p \in Killable
  /\ reader[p].pc # "idle" /\ ~reader[p].killed
  /\ reader' = [reader EXCEPT ![p].killed = TRUE, ![p].asleep = FALSE]
  /\ UNCHANGED <<cons, tx, writer, uart, handler, typed, written, wire, overrun, eofs>>

-----------------------------------------------------------------------------
\* uartintr and consoleintr

IntrStart ==
  /\ handler.pc = None /\ uart.irq
  /\ HandlerMayRun
  /\ OneCpu => cons.lock = None
  /\ handler' = [handler EXCEPT !.pc = "getc"]
  /\ uart' = [uart EXCEPT !.irq = FALSE]
  /\ UNCHANGED <<cons, reader, tx, writer, typed, written, wire, overrun, eofs>>

\* How many characters ^U erases: back to the last line, or to cons.w.
Erasable ==
  LET back(n) == Mod(cons.e - n)
      stop == {n \in 0..INPUT_BUF_SIZE :
                 back(n) = cons.w \/ cons.buf[Mod(back(n) - 1) % INPUT_BUF_SIZE] = "nl"}
  IN  CHOOSE n \in stop : \A m \in stop : n <= m

Room == Mod(cons.e - cons.r) < INPUT_BUF_SIZE

\* Is the line, or what there is of it, complete with c?
Commits(c, e) == c \in {"nl", "^D"} \/ Mod(e - cons.r) = INPUT_BUF_SIZE

\* wakeup(&cons.r)
Woken == [p \in Readers |-> [reader[p] EXCEPT !.asleep = FALSE]]

\* consoleintr(c), with the lock of cons kept until the echo is out.
IntrChar ==
  LET c == Head(uart.in)
      e == Mod(cons.e + 1)
      edit(n) == /\ cons' = [cons EXCEPT !.e = Mod(@ - n), !.lock = "handler"]
                 /\ handler' = [pc |-> "echo", echo |-> [k \in 1..n |-> "bs"]]
                 /\ UNCHANGED <<reader, eofs>>
  IN  /\ handler.pc = "getc" /\ uart.in # <<>>
      /\ cons.lock = None
      /\ uart' = [uart EXCEPT !.in = Tail(@)]
      /\ CASE c = "^U" -> edit(Erasable)
           [] c = "^H" -> edit(IF cons.e # cons.w THEN 1 ELSE 0)
           [] OTHER ->
                IF ~Room THEN UNCHANGED <<cons, handler, reader, eofs>>
                ELSE /\ cons' = [cons EXCEPT !.buf[cons.e % INPUT_BUF_SIZE] = c, !.e = e,
                                             !.w = IF Commits(c, e) THEN e ELSE @,
                                             !.lock = "handler"]
                     /\ handler' = [pc |-> "echo", echo |-> <<c>>]
                     /\ reader' = IF Commits(c, e) THEN Woken ELSE reader
                     /\ eofs' = IF c = "^D" THEN eofs + 1 ELSE eofs
      /\ UNCHANGED <<tx, writer, typed, written, wire, overrun>>

\* uartputc_sync: wait until the transmit register is empty,
EchoTest ==
  /\ handler.pc = "echo" /\ handler.echo # <<>>
  /\ uart.thr = 0
  /\ handler' = [handler EXCEPT !.pc = "put"]
  /\ UNCHANGED <<cons, reader, tx, writer, uart, typed, written, wire, overrun, eofs>>

\* and write it.
EchoPut ==
  /\ handler.pc = "put"
  /\ Send(Echo)
  /\ handler' = [pc |-> "echo", echo |-> Tail(handler.echo)]
  /\ UNCHANGED <<cons, reader, tx, writer, typed, written, wire, eofs>>

EchoDone ==
  /\ handler.pc = "echo" /\ handler.echo = <<>>
  /\ cons' = [cons EXCEPT !.lock = None]
  /\ handler' = [handler EXCEPT !.pc = "getc"]
  /\ UNCHANGED <<reader, tx, writer, uart, typed, written, wire, overrun, eofs>>

\* No more input: uartstart under uart_tx_lock.
IntrStartTx ==
  /\ handler.pc = "getc" /\ uart.in = <<>>
  /\ tx.lock = None
  /\ tx' = [tx EXCEPT !.lock = "handler"]
  /\ handler' = [handler EXCEPT !.pc = "start"]
  /\ UNCHANGED <<cons, reader, writer, uart, typed, written, wire, overrun, eofs>>

-----------------------------------------------------------------------------
\* uartputc and uartstart

TxFull == tx.w = Mod(tx.r + UART_TX_BUF_SIZE)

WriteStart(p) ==
  /\ writer[p].pc = "idle" /\ written < MaxWrites
  /\ writer' = [writer EXCEPT ![p].pc = "acquire"]
  /\ UNCHANGED <<cons, reader, tx, uart, handler, typed, written, wire, overrun, eofs>>

\* acquire(&uart_tx_lock), at the start and at the end of sleep.
WriteAcquire(p) ==
  /\ writer[p].pc = "acquire" /\ ~writer[p].asleep
  /\ tx.lock = None /\ WriterMayRun
  /\ tx' = [tx EXCEPT !.lock = p]
  /\ writer' = [writer EXCEPT ![p].pc = "put"]
  /\ UNCHANGED <<cons, reader, uart, handler, typed, written, wire, overrun, eofs>>

\* The loop in uartputc: sleep while the buffer is full, else store.
WritePut(p) ==
  /\ writer[p].pc = "put"
  /\ IF TxFull
       THEN /\ tx' = [tx EXCEPT !.lock = None]
            /\ writer' = [writer EXCEPT ![p].pc = "acquire", ![p].asleep = TRUE]
            /\ UNCHANGED written
       ELSE /\ tx' = [tx EXCEPT !.buf[tx.w % UART_TX_BUF_SIZE] = written + 1, !.w = Mod(@ + 1)]
            /\ written' = written + 1
            /\ writer' = [writer EXCEPT ![p].pc = "start"]
  /\ UNCHANGED <<cons, reader, uart, handler, typed, wire, overrun, eofs>>

\* uartstart by p or by the handler, with a test of the transmit register and
\* a write of it that are not one step.
Starting(p) == IF p = "handler" THEN handler.pc = "start" ELSE writer[p].pc = "start"
Sending(p) == IF p = "handler" THEN handler.pc = "send" ELSE writer[p].pc = "send"

Went(p, l) ==
  IF p = "handler" THEN handler' = [handler EXCEPT !.pc = l] /\ UNCHANGED writer
  ELSE writer' = [writer EXCEPT ![p].pc = l] /\ UNCHANGED handler

StartTest(p) ==
  /\ Starting(p)
  /\ IF tx.w = tx.r \/ uart.thr # 0
       THEN /\ tx' = [tx EXCEPT !.lock = None]
            /\ Went(p, IF p = "handler" THEN None ELSE "idle")
       ELSE Went(p, "send") /\ UNCHANGED tx
  /\ UNCHANGED <<cons, reader, uart, typed, written, wire, overrun, eofs>>

\* Fault: writers waiting for room are not told.
StartSendQuietly(p) ==
  /\ Sending(p)
  /\ tx' = [tx EXCEPT !.r = Mod(@ + 1)]
  /\ Send(tx.buf[tx.r % UART_TX_BUF_SIZE])
  /\ Went(p, "start")
  /\ UNCHANGED <<cons, reader, typed, written, wire, eofs>>

\* uart_tx_r += 1, wakeup(&uart_tx_r), WriteReg(THR, c)
StartSend(p) ==
  LET awake == [q \in Writers |-> [writer[q] EXCEPT !.asleep = FALSE]]
  IN  /\ Sending(p)
      /\ tx' = [tx EXCEPT !.r = Mod(@ + 1)]
      /\ Send(tx.buf[tx.r % UART_TX_BUF_SIZE])
      /\ IF p = "handler"
           THEN handler' = [handler EXCEPT !.pc = "start"] /\ writer' = awake
           ELSE writer' = [awake EXCEPT ![p].pc = "start"] /\ UNCHANGED handler
      /\ UNCHANGED <<cons, reader, typed, written, wire, eofs>>

-----------------------------------------------------------------------------

ReaderStep(p) == ReadAcquire(p) \/ ReadSleep(p) \/ ReadChar(p)

HandlerStep ==
  \/ IntrStart
  \/ IntrChar
  \/ EchoTest
  \/ EchoPut
  \/ EchoDone
  \/ IntrStartTx
  \/ StartTest("handler")
  \/ StartSend("handler")

WriterStep(p) ==
  \/ WriteAcquire(p)
  \/ WritePut(p)
  \/ StartTest(p)
  \/ StartSend(p)

Next ==
  \/ \E c \in Keys : Type(c)
  \/ Transmit
  \/ \E p \in Readers : ReadStart(p) \/ ReaderStep(p) \/ Kill(p)
  \/ HandlerStep
  \/ \E p \in Writers : WriteStart(p) \/ WriterStep(p)

Spec == Init /\ [][Next]_vars

\* Processes and handler go on, and the UART sends what it is given.
FairSpec ==
  /\ Spec
  /\ \A p \in Readers : WF_vars(ReaderStep(p))
  /\ \A p \in Writers : WF_vars(WriterStep(p))
  /\ WF_vars(HandlerStep)
  /\ WF_vars(Transmit)

-----------------------------------------------------------------------------

TypeOK ==
  /\ {cons.r, cons.w, cons.e, tx.r, tx.w} \subseteq 0..(UintMod - 1)
  /\ cons.lock \in Readers \cup {None, "handler"}
  /\ tx.lock \in Writers \cup {None, "handler"}
  /\ \A p \in Readers : reader[p].n \in 0..ReadSize
  /\ typed \in 0..MaxKeys

\* The input buffer holds what was typed between read and edit index, never
\* more than its size, with the complete lines first; no index passes another
\* (consoleintr, consoleread).
BufferBounded ==
  /\ Mod(cons.w - cons.r) <= Mod(cons.e - cons.r)
  /\ Mod(cons.e - cons.r) <= INPUT_BUF_SIZE
  /\ \A n \in 0..(Mod(cons.e - cons.w) - 1) :
       cons.buf[Mod(cons.w + n) % INPUT_BUF_SIZE] \notin {"nl", "^D"}

\* Nobody sleeps who has something to read or room to write to, and a full
\* input buffer is never left to a reader that sleeps.
ConsoleInformed ==
  /\ cons.lock = None => \A p \in Readers :
       reader[p].asleep => cons.r = cons.w /\ Mod(cons.e - cons.r) < INPUT_BUF_SIZE
  /\ tx.lock = None => \A p \in Writers : writer[p].asleep => TxFull

\* Every ^D ends one read with 0 bytes ("Save ^D for next time, to make sure
\* caller gets a 0-byte result").
EofExact ==
  eofs = Cardinality({n \in 0..(Mod(cons.e - cons.r) - 1) :
                        cons.buf[Mod(cons.r + n) % INPUT_BUF_SIZE] = "^D"})

\* With one CPU nothing written and no echo is lost in the transmit register,
\* and characters written leave in order: those sent, the one in the register
\* and those in the buffer are all there are (uartputc, uartputc_sync).
WritesInOrder ==
  LET inthr == IF uart.thr \in {0, Echo} THEN 0 ELSE 1
  IN  /\ ~overrun
      /\ wire + inthr + Mod(tx.w - tx.r) = written
      /\ inthr = 1 => uart.thr = wire + 1
      /\ \A n \in 0..(Mod(tx.w - tx.r) - 1) :
           tx.buf[Mod(tx.r + n) % UART_TX_BUF_SIZE] = wire + inthr + n + 1

\* Characters in the transmit buffer never wait for an interrupt that does not
\* come (uartstart: "it will interrupt when it's ready for a new byte").
TransmitterBusy ==
  (tx.lock = None /\ tx.w # tx.r) => (uart.thr # 0 \/ uart.irq \/ handler.pc # None)

\* Everything in the buffer is sent, and every call of uartputc returns, also
\* one that slept for room.
OutputFlows ==
  /\ \A n \in 1..MaxWrites : (written >= n) ~> (wire >= n)
  /\ \A p \in Writers : writer[p].pc # "idle" ~> writer[p].pc = "idle"

\* A reader never waits while a line is there.
LinesRead == \A p \in Readers :
  (reader[p].pc # "idle" /\ cons.r # cons.w) ~> (reader[p].pc = "idle" \/ cons.r = cons.w)

=============================================================================
