----------------------------- MODULE MCProgress -----------------------------
(***************************************************************************)
(* What must happen in the end, in the log, among processes, in a          *)
(* pipeline and on the console; one of them is chosen in the initial       *)
(* state, and the others stay as they are.                                 *)
(***************************************************************************)
EXTENDS Integers

VARIABLES
  chosen,
  home, logged, head, cache, lh, outstanding, committing, phase, tail,
  lpc, left, slot, lslot, panic,                                \* of BufferedLog
  proc, th, lock, cpu, nextpid, ticks, intr, reaped,            \* of Processes
  pi, ref, fds, pth, sent, taken,                               \* of Pipe
  cons, reader, tx, writer, uart, handler, typed, written, wire, overrun, eofs \* of Console

logVars == <<home, logged, head, cache, lh, outstanding, committing, phase, tail,
             lpc, left, slot, lslot, panic>>
processVars == <<proc, th, lock, cpu, nextpid, ticks, intr, reaped>>
pipeVars == <<pi, ref, fds, pth, sent, taken>>
consoleVars == <<cons, reader, tx, writer, uart, handler, typed, written, wire, overrun, eofs>>
vars == <<chosen, logVars, processVars, pipeVars, consoleVars>>

\* Three processes, of which begin_op admits two.
Waiting == INSTANCE BufferedLog WITH
  Proc <- {"p1", "p2", "p3"}, Block <- {11}, Value <- {<<0>>}, Fresh <- <<0>>,
  LOGSIZE <- 4, SIZE <- 4, MAXOPBLOCKS <- 2, MaxWrites <- 1, NBUF <- 3,
  Uses <- [p \in {"p1", "p2", "p3"} |-> {11}],
  Readers <- {}, Killable <- {}, Crashes <- FALSE, pc <- lpc

CPUs == {"c1", "c2"}
Slots == 1..2

\* A process that sleeps, under a clock that wraps.
Sleeping == INSTANCE Processes WITH
  NPROC <- 2, CPU <- CPUs, Clock <- "c1", MaxPid <- 2, KillPids <- {},
  TickMod <- 3, SleepTicks <- 1, Preempt <- {}

Pipeline == INSTANCE Pipe WITH
  th <- pth, PIPESIZE <- 2, UintMod <- 4, Total <- 5, Chunk <- 3, Killable <- {"right"},
  Early <- TRUE, CopyFails <- TRUE

\* Two writers, the echo and a reader.
Typing == INSTANCE Console WITH
  Readers <- {"r1"}, Writers <- {"w1", "w2"}, Keys <- {"nl"}, MaxKeys <- 2,
  ReadSize <- 2, INPUT_BUF_SIZE <- 2, UART_TX_BUF_SIZE <- 1, UintMod <- 4, MaxWrites <- 2,
  Killable <- {}, OneCpu <- TRUE

Init ==
  /\ chosen \in {"waiting", "sleeping", "pipeline", "typing"}
  /\ Waiting!Init /\ Sleeping!Init /\ Pipeline!Init /\ Typing!Init

Next ==
  \/ chosen = "waiting" /\ Waiting!Next
     /\ UNCHANGED <<chosen, processVars, pipeVars, consoleVars>>
  \/ chosen = "sleeping" /\ Sleeping!Next
     /\ UNCHANGED <<chosen, logVars, pipeVars, consoleVars>>
  \/ chosen = "pipeline" /\ Pipeline!Next
     /\ UNCHANGED <<chosen, logVars, processVars, consoleVars>>
  \/ chosen = "typing" /\ Typing!Next
     /\ UNCHANGED <<chosen, logVars, processVars, pipeVars>>

Spec == Init /\ [][Next]_vars

-----------------------------------------------------------------------------
\* The fairness of the modules, for the chosen one.

LogFair ==
  /\ WF_logVars(chosen = "waiting" /\ Waiting!Recover)
  /\ \A p \in {"p1", "p2", "p3"} : WF_logVars(chosen = "waiting" /\ Waiting!Step(p))

ProcessFair ==
  /\ \A p \in Slots : SF_processVars(chosen = "sleeping" /\ \E c \in CPUs : Sleeping!Schedule(c, p))
  /\ \A p \in Slots : WF_processVars(chosen = "sleeping" /\ \E c \in CPUs : Sleeping!Switching(p, c))
  /\ \A p \in Slots : SF_processVars(chosen = "sleeping" /\ \E c \in CPUs : Sleeping!Working(p, c))
  /\ WF_processVars(chosen = "sleeping" /\ \E c \in CPUs : Sleeping!Call(1, c))
  /\ SF_processVars(chosen = "sleeping" /\ Sleeping!ClockStart)
  /\ SF_processVars(chosen = "sleeping" /\ (Sleeping!ClockTick \/ Sleeping!ClockWakeup))

PipeFair ==
  \A p \in {"sh", "left", "right"} : WF_pipeVars(chosen = "pipeline" /\ Pipeline!Step(p))

ConsoleFair ==
  /\ WF_consoleVars(chosen = "typing" /\ Typing!ReaderStep("r1"))
  /\ \A p \in {"w1", "w2"} : WF_consoleVars(chosen = "typing" /\ Typing!WriterStep(p))
  /\ WF_consoleVars(chosen = "typing" /\ Typing!HandlerStep)
  /\ WF_consoleVars(chosen = "typing" /\ Typing!Transmit)

FairSpec == Spec /\ LogFair /\ ProcessFair /\ PipeFair /\ ConsoleFair

-----------------------------------------------------------------------------

\* Nobody sleeps in begin_op for ever (log.c: end_op, commit).
SleepersWake == Waiting!SleepersWake

\* sys_sleep returns, even when the tick counter wraps meanwhile (sysproc.c).
SleepEnds == Sleeping!SleepEnds

\* A pipeline comes to its end: the shell's child returns from both waits
\* (sh.c: PIPE; pipe.c).
PipelineEnds == chosen = "pipeline" => Pipeline!PipelineEnds

\* Everything written is sent in the end and every call returns, and a reader
\* never waits while a line is there (uart.c: uartputc, uartstart, uartintr;
\* console.c: consoleread).
ConsoleFlows == Typing!OutputFlows /\ Typing!LinesRead

=============================================================================
