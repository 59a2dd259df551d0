------------------------------ MODULE MCKernel ------------------------------
(***************************************************************************)
(* Processes, pipes, console, memory, the disk driver with processes that  *)
(* are killed, and user programs (malloc, grep, the shell), one of them    *)
(* chosen in the initial state, on instances small enough to visit every   *)
(* state.  The pipeline is Pipe itself, which this module extends and      *)
(* which stays in its initial state when it is not chosen; Intact is the   *)
(* same pipeline with good buffers; the others are instances with          *)
(* variables of their own.                                                 *)
(***************************************************************************)
EXTENDS Pipe, SequencesExt

VARIABLES
  chosen,
  proc, pth, lock, cpu, nextpid, ticks, intr, reaped,           \* of Processes
  cons, reader, tx, writer, uart, handler, typed, written, wire, overrun, eofs, \* of Console
  free, data, image, mproc, op, calls, panicked,                \* of Memory
  pc, idx, freed, info, desc, avail, dtaken, device, used, used_idx, killed, done, panic, \* of VirtioDisk
  freep, hdr, brk, mth, live, core, turns,                      \* of Malloc
  pattern, file, pos, buf, line, out, gpc,                      \* of Grep
  procs, trees, broken                                          \* of Shell

processVars == <<proc, pth, lock, cpu, nextpid, ticks, intr, reaped>>
pipeVars == vars
consoleVars == <<cons, reader, tx, writer, uart, handler, typed, written, wire, overrun, eofs>>
memoryVars == <<free, data, image, mproc, op, calls, panicked>>
diskVars == <<pc, idx, freed, info, desc, avail, dtaken, device, used, used_idx, killed, done, panic>>
mallocVars == <<freep, hdr, brk, mth, live, core, turns>>
grepVars == <<pattern, file, pos, buf, line, out, gpc>>
shellVars == <<procs, trees, broken>>
kernelVars == <<processVars, pipeVars, consoleVars, memoryVars, diskVars>>
userVars == <<mallocVars, grepVars, shellVars>>
allVars == <<chosen, kernelVars, userVars>>

\* Four generations on two CPUs, with a kill.
Families == INSTANCE Processes WITH
  th <- pth, NPROC <- 3, CPU <- {"c1", "c2"}, Clock <- "c1", MaxPid <- 4, KillPids <- {3},
  TickMod <- 2, SleepTicks <- 0, Preempt <- {}

\* A process that sleeps, is preempted and killed, with a clock that wraps.
Ticking == INSTANCE Processes WITH
  th <- pth, NPROC <- 2, CPU <- {"c1", "c2"}, Clock <- "c1", MaxPid <- 2, KillPids <- {2},
  TickMod <- 3, SleepTicks <- 1, Preempt <- {"user", "kernel"}

\* The pipeline with programs whose buffers are good.
Intact == INSTANCE Pipe WITH CopyFails <- FALSE

\* One reader and a user who edits.
Editing == INSTANCE Console WITH
  Readers <- {"r1"}, Writers <- {}, Keys <- {"a", "nl", "^D", "^U", "^H"}, MaxKeys <- 4,
  ReadSize <- 2, INPUT_BUF_SIZE <- 2, UART_TX_BUF_SIZE <- 2, UintMod <- 4, MaxWrites <- 0,
  Killable <- {"r1"}, OneCpu <- TRUE

\* Two readers on two CPUs.
Reading == INSTANCE Console WITH
  Readers <- {"r1", "r2"}, Writers <- {}, Keys <- {"a", "nl", "^D"}, MaxKeys <- 3,
  ReadSize <- 2, INPUT_BUF_SIZE <- 2, UART_TX_BUF_SIZE <- 2, UintMod <- 4, MaxWrites <- 0,
  Killable <- {}, OneCpu <- FALSE

\* Two writers and the echo.
Writing == INSTANCE Console WITH
  Readers <- {"r1"}, Writers <- {"w1", "w2"}, Keys <- {"nl"}, MaxKeys <- 2,
  ReadSize <- 2, INPUT_BUF_SIZE <- 2, UART_TX_BUF_SIZE <- 2, UintMod <- 4, MaxWrites <- 4,
  Killable <- {}, OneCpu <- TRUE

\* A program of one segment, and one whose segments overlap in a page.
Programs == {<<[vaddr |-> 0, filesz |-> 1, memsz |-> 1]>>,
             <<[vaddr |-> 0, filesz |-> 2, memsz |-> 3], [vaddr |-> 1, filesz |-> 1, memsz |-> 1]>>}

\* Three processes with memory for two.
Scarce == INSTANCE Memory WITH
  proc <- mproc, Frame <- 1..15, NPROC <- 3, FAN <- 3, Programs <- Programs,
  Grows <- {1, 3, -1, -3}, MaxCalls <- 4

\* Two processes with memory to build an image beside the old one.
Ample == INSTANCE Memory WITH
  proc <- mproc, Frame <- 1..20, NPROC <- 2, FAN <- 3, Programs <- Programs,
  Grows <- {1, 3, -1, -3}, MaxCalls <- 3

\* Two processes that are killed inside the disk driver.
Driver == INSTANCE VirtioDisk WITH
  Proc <- {"p1", "p2"}, NUM <- 4, IdxMod <- 4, Shared <- FALSE, Killable <- {"p1", "p2"},
  free <- freed, taken <- dtaken

\* A heap of three calls to sbrk, with a gap.
Heap == INSTANCE Malloc WITH
  th <- mth, Requests <- {1, 3}, HDR <- 2, MinUnits <- 4, IntMod <- 64, Gaps <- {2}, MaxBrk <- 14

\* All short patterns and some longer ones; lines of more than 2 characters do
\* not fit.
Searching == INSTANCE Grep WITH
  Patterns <- BoundedSeq({"a", "*", "^", "$", "."}, 2)
                \cup {<<"a", "*", "b">>, <<"^", "a", "*">>, <<"a", "*", "*">>, <<"^", "b", "$">>},
  Files <- BoundedSeq({"a", "b", "nl"}, 4), BUFSIZE <- 4, p <- line, pc <- gpc

\* The constructors of command trees, which no constant of Shell bears on.
Tree == INSTANCE Shell WITH Lines <- {}, MaxLines <- 0, NPROC <- 1

\* Two lines out of a few: a | b | c;  (a | b) > x; c;  a & ; b;  (a &) | b;
\* a < x >> y | b; a line the parser refuses.
Running == INSTANCE Shell WITH
  Lines <-
    LET a == Tree!execcmd
    IN  {Tree!pipecmd(a, Tree!pipecmd(a, a)),
         Tree!listcmd(Tree!redircmd(Tree!pipecmd(a, a), "x", "truncate", 1), a),
         Tree!listcmd(Tree!backcmd(a), a),
         Tree!pipecmd(Tree!backcmd(a), a),
         Tree!pipecmd(Tree!redircmd(Tree!redircmd(a, "x", "read", 0), "y", "append", 1), a),
         Tree!SyntaxError},
  MaxLines <- 2, NPROC <- 6

ASSUME KernelAssumption == Scarce!MemoryAssumption /\ Ample!MemoryAssumption

NoProcesses == /\ proc = 0 /\ pth = 0 /\ lock = 0 /\ cpu = 0 /\ nextpid = 0
               /\ ticks = 0 /\ intr = 0 /\ reaped = 0
NoConsole == /\ cons = 0 /\ reader = 0 /\ tx = 0 /\ writer = 0 /\ uart = 0 /\ handler = 0
             /\ typed = 0 /\ written = 0 /\ wire = 0 /\ overrun = FALSE /\ eofs = 0
NoMemory == /\ free = 0 /\ data = 0 /\ image = 0 /\ mproc = 0 /\ op = 0 /\ calls = 0
            /\ panicked = FALSE
NoDisk == /\ pc = 0 /\ idx = 0 /\ freed = 0 /\ info = 0 /\ desc = 0 /\ avail = 0 /\ dtaken = 0
          /\ device = 0 /\ used = 0 /\ used_idx = 0 /\ killed = 0 /\ done = 0 /\ panic = 0
NoMalloc == freep = 0 /\ hdr = 0 /\ brk = 0 /\ mth = 0 /\ live = 0 /\ core = 0 /\ turns = 0
NoGrep == pattern = 0 /\ file = 0 /\ pos = 0 /\ buf = 0 /\ line = 0 /\ out = 0 /\ gpc = 0
NoShell == procs = 0 /\ trees = 0 /\ broken = 0
NoUser == NoMalloc /\ NoGrep /\ NoShell
NoKernel == NoProcesses /\ NoConsole /\ NoMemory /\ NoDisk

ProcessesInit ==
  \/ chosen = "families" /\ Families!Init
  \/ chosen = "ticking" /\ Ticking!Init

ConsoleInit ==
  \/ chosen = "editing" /\ Editing!Init
  \/ chosen = "reading" /\ Reading!Init
  \/ chosen = "writing" /\ Writing!Init

MemoryInit ==
  \/ chosen = "scarce" /\ Scarce!Init
  \/ chosen = "ample" /\ Ample!Init

MCInit ==
  /\ Init
  /\ \/ ProcessesInit /\ NoConsole /\ NoMemory /\ NoDisk /\ NoUser
     \/ chosen \in {"pipeline", "intact"} /\ NoProcesses /\ NoConsole /\ NoMemory /\ NoDisk /\ NoUser
     \/ ConsoleInit /\ NoProcesses /\ NoMemory /\ NoDisk /\ NoUser
     \/ MemoryInit /\ NoProcesses /\ NoConsole /\ NoDisk /\ NoUser
     \/ chosen = "driver" /\ Driver!Init /\ NoProcesses /\ NoConsole /\ NoMemory /\ NoUser
     \/ chosen = "heap" /\ Heap!Init /\ NoKernel /\ NoGrep /\ NoShell
     \/ chosen = "searching" /\ Searching!Init /\ NoKernel /\ NoMalloc /\ NoShell
     \/ chosen = "running" /\ Running!Init /\ NoKernel /\ NoMalloc /\ NoGrep

ProcessesNext ==
  /\ \/ chosen = "families" /\ Families!Next
     \/ chosen = "ticking" /\ Ticking!Next
  /\ UNCHANGED <<chosen, pipeVars, consoleVars, memoryVars, diskVars, userVars>>

PipeNext ==
  /\ \/ chosen = "pipeline" /\ Next
     \/ chosen = "intact" /\ Intact!Next
  /\ UNCHANGED <<chosen, processVars, consoleVars, memoryVars, diskVars, userVars>>

ConsoleNext ==
  /\ \/ chosen = "editing" /\ Editing!Next
     \/ chosen = "reading" /\ Reading!Next
     \/ chosen = "writing" /\ Writing!Next
  /\ UNCHANGED <<chosen, processVars, pipeVars, memoryVars, diskVars, userVars>>

MemoryNext ==
  /\ \/ chosen = "scarce" /\ Scarce!Next
     \/ chosen = "ample" /\ Ample!Next
  /\ UNCHANGED <<chosen, processVars, pipeVars, consoleVars, diskVars, userVars>>

DriverNext ==
  /\ chosen = "driver" /\ Driver!Next
  /\ UNCHANGED <<chosen, processVars, pipeVars, consoleVars, memoryVars, userVars>>

HeapNext ==
  /\ chosen = "heap" /\ Heap!Next
  /\ UNCHANGED <<chosen, kernelVars, grepVars, shellVars>>

SearchingNext ==
  /\ chosen = "searching" /\ Searching!Next
  /\ UNCHANGED <<chosen, kernelVars, mallocVars, shellVars>>

ShellNext ==
  /\ chosen = "running" /\ Running!Next
  /\ UNCHANGED <<chosen, kernelVars, mallocVars, grepVars>>

MCNext == ProcessesNext \/ PipeNext \/ ConsoleNext \/ MemoryNext \/ DriverNext \/ HeapNext
          \/ SearchingNext \/ ShellNext

MCSpec == MCInit /\ [][MCNext]_allVars

-----------------------------------------------------------------------------

\* The components' properties, stated and explained in their modules; those of
\* Pipe are used as they are.

\* Nobody sleeps who has something to do: a process in wait with a child that
\* has exited, a process with something to read from the console or room to
\* write to it, characters to transmit (proc.c: wait, exit; console.c:
\* consoleread; uart.c: uartputc, uartstart).
NoLostWakeup ==
  /\ chosen = "families" => Families!WaitersInformed
  /\ chosen = "ticking" => Ticking!WaitersInformed
  /\ chosen = "editing" => Editing!ConsoleInformed
  /\ chosen = "reading" => Reading!ConsoleInformed
  /\ chosen = "writing" => Writing!ConsoleInformed /\ Writing!TransmitterBusy

\* No two CPUs use the kernel stack of a process, sched is called with the
\* process's lock and no other, CPUs never spin on each other's locks in a
\* circle, every process but init has a living parent, and wait returns a
\* process identifier once (proc.c: scheduler, sched, swtch, fork, reparent,
\* wait; spinlock.c).
SchedulerExact ==
  /\ chosen = "families" => /\ Families!TypeOK /\ Families!OneStack /\ Families!SchedAlone
                           /\ Families!NoSpinCycle /\ Families!FamilyExact
  /\ chosen = "ticking" => /\ Ticking!TypeOK /\ Ticking!OneStack /\ Ticking!SchedAlone
                          /\ Ticking!NoSpinCycle /\ Ticking!FamilyExact

\* A reader of a pipe with a good buffer finds the end of the file only where
\* the last writer closed it; the indices of the console's input buffer never
\* pass each other, every ^D ends one read with 0 bytes, and characters written
\* leave in order (pipe.c, console.c, uart.c).
StreamsExact ==
  /\ chosen = "pipeline" => TypeOK
  /\ chosen = "intact" => TypeOK /\ EofIsEnd
  /\ chosen = "editing" => Editing!TypeOK /\ Editing!BufferBounded /\ Editing!EofExact
  /\ chosen = "reading" => Reading!TypeOK /\ Reading!BufferBounded /\ Reading!EofExact
  /\ chosen = "writing" => /\ Writing!TypeOK /\ Writing!BufferBounded
                          /\ Writing!EofExact /\ Writing!WritesInOrder

\* Every page has exactly one use, a process finds in its memory what it put
\* there, and no function of vm.c panics; a pipe is freed when its last end is
\* closed; killing a process inside the driver loses no descriptor (kalloc.c,
\* vm.c, exec.c; pipeclose; free_chain).
OwnersExact ==
  /\ ~panicked
  /\ chosen = "scarce" => /\ Scarce!TypeOK /\ Scarce!PagesExact
                         /\ Scarce!ImageExact /\ Scarce!MemoryIsolated
  /\ chosen = "ample" => /\ Ample!TypeOK /\ Ample!PagesExact
                        /\ Ample!ImageExact /\ Ample!MemoryIsolated
  /\ chosen \in {"pipeline", "intact"} => FreedWhenUnused
  /\ chosen = "driver" => Driver!TypeOK /\ Driver!DescriptorsAccounted

\* The free list of malloc is a circle in the order of the addresses in which
\* no two blocks touch, every unit of the heap is in one block, and a search
\* of the list ends; grep prints the lines that match, however read cuts them;
\* the programs of a shell's line are wired and ordered as the line says, and
\* they never all wait for each other (umalloc.c; grep.c: grep, match; sh.c:
\* runcmd).
ProgramsExact ==
  /\ chosen = "heap" => Heap!TypeOK /\ Heap!ListExact /\ Heap!HeapExact /\ Heap!SearchEnds
  /\ chosen = "searching" => Searching!TypeOK /\ Searching!OutputExact
  /\ chosen = "running" =>
       Running!ProgramsWired /\ Running!ListsInOrder /\ Running!SomebodyRuns

=============================================================================
