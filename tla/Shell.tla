------------------------------- MODULE Shell -------------------------------
(***************************************************************************)
(* The shell of user/sh.c: its loop over command lines, and runcmd() in    *)
(* the processes it forks.  A line is the tree parsecmd() makes of it, or  *)
(* one it refuses; the parser itself is not modelled.  A process carries   *)
(* the command it runs and the path to it in the tree of its line; file    *)
(* descriptors lead to the console, to a file, or to an end of the pipe    *)
(* made for a PIPE node.                                                   *)
(*                                                                         *)
(* The system calls do what the kernel promises: close, dup, pipe and open *)
(* on the lowest descriptors, fork while there is room, wait for any       *)
(* child, and exit with the children given to init, which reaps them.      *)
(***************************************************************************)
EXTENDS Integers, Sequences, FiniteSets, SequencesExt, FiniteSetsExt

CONSTANTS
  Lines,        \* the lines a user may type, as trees
  MaxLines,     \* how many
  NPROC         \* processes, the shell included

VARIABLES
  procs,        \* procs[p]: process p, 1 is the shell
  trees,        \* the lines so far
  broken        \* the nodes, <<line, path>>, whose processes ended in panic()

vars == <<procs, trees, broken>>

Slot == 1..NPROC
shell == 1
init == 0

\* The constructors of commands.
execcmd == [type |-> "EXEC"]
redircmd(c, file, mode, fd) ==
  [type |-> "REDIR", cmd |-> c, file |-> file, mode |-> mode, fd |-> fd]
pipecmd(l, r) == [type |-> "PIPE", left |-> l, right |-> r]
listcmd(l, r) == [type |-> "LIST", left |-> l, right |-> r]
backcmd(c) == [type |-> "BACK", cmd |-> c]

\* A line on which the parser panics.
SyntaxError == [type |-> "syntax"]

Unused == [pc |-> "unused"]
Console == <<"console">>
File(name, mode) == <<"file", name, mode>>
PipeEnd(n, at, end) == <<"pipe", n, at, end>>

-----------------------------------------------------------------------------
\* System calls (kernel; here as sh.c uses them).

Lowest(fds) == Min(0..(Cardinality(DOMAIN fds)) \ DOMAIN fds)
Open(fds, obj) == (Lowest(fds) :> obj) @@ fds
Dup(fds, fd) == Open(fds, fds[fd])
CloseFd(fds, fd) == [d \in DOMAIN fds \ {fd} |-> fds[d]]

Free == {q \in Slot : procs[q].pc = "unused"}
Running(p) == procs[p].pc \notin {"unused", "zombie"}
Children(p) == {q \in Slot : procs[q].pc # "unused" /\ procs[q].parent = p}
Zombies(p) == {q \in Children(p) : procs[q].pc = "zombie"}

Exit(p) ==
  procs' = [q \in Slot |->
    CASE q = p -> IF procs[p].parent = init THEN Unused
                  ELSE [pc |-> "zombie", parent |-> procs[p].parent]
      [] q \in Zombies(p) -> Unused
      [] q \in Children(p) \ Zombies(p) -> [procs[q] EXCEPT !.parent = init]
      [] OTHER -> procs[q]]

panic(p) == Exit(p) /\ broken' = broken \cup {<<procs[p].n, procs[p].at>>}

\* fork1: p goes on at pc, the child as the record child says.
fork1(p, pc, child) ==
  \/ /\ Free # {}
     /\ procs' = [procs EXCEPT ![p].pc = pc, ![Min(Free)] = [child EXCEPT !.parent = p]]
     /\ UNCHANGED broken
  \/ Free = {} /\ panic(p)

\* wait: a child that has exited is reaped; without children it returns at once.
wait(p, after) ==
  /\ \/ \E q \in Zombies(p) : procs' = [procs EXCEPT ![p] = after, ![q] = Unused]
     \/ Children(p) = {} /\ procs' = [procs EXCEPT ![p] = after]
  /\ UNCHANGED <<trees, broken>>

-----------------------------------------------------------------------------
\* main

Init ==
  /\ procs = [p \in Slot |->
       IF p = shell THEN [pc |-> "prompt", n |-> 0, at |-> <<>>, cmd |-> <<>>, parent |-> init,
                          fds |-> [d \in 0..2 |-> Console], p |-> <<>>]
       ELSE Unused]
  /\ trees = <<>>
  /\ broken = {}

\* What the user may type now.
Typed == IF Len(trees) < MaxLines THEN Lines ELSE {}

\* getcmd and the fork for the line.
GetCmd ==
  /\ procs[shell].pc = "prompt"
  /\ \E line \in Typed :
       fork1(shell, "wait", [procs[shell] EXCEPT !.pc = "parse", !.n = Len(trees) + 1, !.cmd = line])
  /\ UNCHANGED trees

\* The end of the input.
GetEof ==
  /\ procs[shell].pc = "prompt"
  /\ Exit(shell)
  /\ UNCHANGED <<trees, broken>>

MainWait ==
  /\ procs[shell].pc = "wait"
  /\ wait(shell, [procs[shell] EXCEPT !.pc = "prompt"])

\* runcmd(parsecmd(buf)), in the child.
Parse(p) ==
  /\ procs[p].pc = "parse"
  /\ \/ /\ procs[p].cmd # SyntaxError
        /\ procs' = [procs EXCEPT ![p].pc = "run"]
     \/ procs[p].cmd = SyntaxError /\ Exit(p)
  /\ trees' = Append(trees, procs[p].cmd)
  /\ UNCHANGED broken

-----------------------------------------------------------------------------
\* runcmd

\* p goes on with, or is, a process for the part of its command named by step.
Part(c, step) == CASE step = "l" -> c.left [] step = "r" -> c.right [] step = "c" -> c.cmd

Sub(p, step, pc) ==
  [procs[p] EXCEPT !.pc = pc, !.cmd = Part(@, step), !.at = Append(@, step)]

Runs(p, type) == procs[p].pc = "run" /\ procs[p].cmd.type = type

\* exec; the process exits if that fails or there is nothing to execute.
RunExec(p) ==
  /\ Runs(p, "EXEC")
  /\ \/ procs' = [procs EXCEPT ![p].pc = "program"]
     \/ Exit(p)
  /\ UNCHANGED <<trees, broken>>

RunRedir(p) ==
  LET c == procs[p].cmd
      opened == Open(CloseFd(procs[p].fds, c.fd), File(c.file, c.mode))
  IN  /\ Runs(p, "REDIR")
      /\ \/ procs' = [procs EXCEPT ![p] = [Sub(p, "c", "run") EXCEPT !.fds = opened]]
         \/ Exit(p)
      /\ UNCHANGED <<trees, broken>>

RunList(p) ==
  /\ Runs(p, "LIST")
  /\ fork1(p, "list", Sub(p, "l", "run"))
  /\ UNCHANGED trees

ListWait(p) == procs[p].pc = "list" /\ wait(p, Sub(p, "r", "run"))

\* pipe(p) takes the two lowest descriptors.
RunPipe(p) ==
  LET fds == procs[p].fds
      end(e) == PipeEnd(procs[p].n, procs[p].at, e)
      r == Lowest(fds)
      w == Lowest(Open(fds, end("r")))
      opened == Open(Open(fds, end("r")), end("w"))
  IN  /\ Runs(p, "PIPE")
      /\ \/ /\ procs' = [procs EXCEPT ![p].pc = "left", ![p].fds = opened, ![p].p = <<r, w>>]
            /\ UNCHANGED broken
         \/ panic(p)
      /\ UNCHANGED trees

ForkLeft(p) ==
  /\ procs[p].pc = "left"
  /\ fork1(p, "right", Sub(p, "l", "wire"))
  /\ UNCHANGED trees

ForkRight(p) ==
  /\ procs[p].pc = "right"
  /\ fork1(p, "close", Sub(p, "r", "wire"))
  /\ UNCHANGED trees

ClosedBoth(fds, p) == CloseFd(CloseFd(fds, p[1]), p[2])

\* Fault: the write end stays open in the children.
WiredOpen(fds, p, step) ==
  LET end == IF step = "l" THEN p[2] ELSE p[1]
      std == IF step = "l" THEN 1 ELSE 0
  IN  CloseFd(Open(CloseFd(fds, std), fds[end]), p[1])

\* The children's close, dup, close, close: descriptor 1 of the left one
\* becomes the write end, 0 of the right one the read end.
Wired(fds, p, step) ==
  LET end == IF step = "l" THEN p[2] ELSE p[1]
      std == IF step = "l" THEN 1 ELSE 0
  IN  ClosedBoth(Open(CloseFd(fds, std), fds[end]), p)

Wire(p) ==
  /\ procs[p].pc = "wire"
  /\ procs' = [procs EXCEPT ![p].pc = "run", ![p].fds = Wired(@, procs[p].p, Last(procs[p].at))]
  /\ UNCHANGED <<trees, broken>>

ClosePipe(p) ==
  /\ procs[p].pc = "close"
  /\ procs' = [procs EXCEPT ![p].pc = "wait1", ![p].fds = ClosedBoth(@, procs[p].p)]
  /\ UNCHANGED <<trees, broken>>

PipeWait(p) ==
  \/ procs[p].pc = "wait1" /\ wait(p, [procs[p] EXCEPT !.pc = "wait2"])
  \/ procs[p].pc = "wait2" /\ wait(p, [procs[p] EXCEPT !.pc = "done"])

RunBack(p) ==
  /\ Runs(p, "BACK")
  /\ fork1(p, "done", Sub(p, "c", "run"))
  /\ UNCHANGED trees

RunDone(p) ==
  /\ procs[p].pc = "done"
  /\ Exit(p)
  /\ UNCHANGED <<trees, broken>>

\* A program reads its input to the end, which for a pipe is when nobody has
\* the write end any more.
HasEnd(q, obj) == Running(q) /\ \E d \in DOMAIN procs[q].fds : procs[q].fds[d] = obj
AtEof(obj) ==
  obj[1] = "pipe" => \A q \in Slot : ~HasEnd(q, PipeEnd(obj[2], obj[3], "w"))

Program(p) ==
  /\ procs[p].pc = "program"
  /\ AtEof(procs[p].fds[0])
  /\ Exit(p)
  /\ UNCHANGED <<trees, broken>>

Step(p) ==
  \/ Parse(p) \/ RunExec(p) \/ RunRedir(p) \/ RunList(p) \/ ListWait(p)
  \/ RunPipe(p) \/ ForkLeft(p) \/ ForkRight(p) \/ Wire(p) \/ ClosePipe(p) \/ PipeWait(p)
  \/ RunBack(p) \/ RunDone(p) \/ Program(p)

Next == GetCmd \/ GetEof \/ MainWait \/ \E p \in Slot : Step(p)

Spec == Init /\ [][Next]_vars

-----------------------------------------------------------------------------

\* The node of a tree at the end of a path.
Node(n, path) == FoldLeft(Part, trees[n], path)
NodeAt(p, k) == Node(procs[p].n, SubSeq(procs[p].at, 1, k))

\* Does the k-th step of p's path decide on its descriptor fd?
Decides(p, k, fd) ==
  LET c == NodeAt(p, k - 1)
  IN  \/ c.type = "REDIR" /\ c.fd = fd
      \/ c.type = "PIPE" /\ procs[p].at[k] = IF fd = 0 THEN "r" ELSE "l"

\* What descriptor fd of a program is to be: the innermost redirection or
\* pipe around it decides.
Standard(p, fd) ==
  LET ks == {k \in DOMAIN procs[p].at : fd \in {0, 1} /\ Decides(p, k, fd)}
      k == Max(ks)
      c == NodeAt(p, k - 1)
  IN  IF ks = {} THEN Console
      ELSE IF c.type = "REDIR" THEN File(c.file, c.mode)
      ELSE PipeEnd(procs[p].n, SubSeq(procs[p].at, 1, k - 1), IF fd = 0 THEN "r" ELSE "w")

\* A program is started with descriptors 0, 1 and 2, wired as its line says,
\* and no other (runcmd: PIPE, REDIR).
ProgramsWired ==
  \A p \in Slot : procs[p].pc = "program" =>
    procs[p].fds = [fd \in 0..2 |-> Standard(p, fd)]

\* Below its k-th step p is in the background, or left behind by a panic.
Detached(p, k) ==
  \E j \in (k + 1)..Len(procs[p].at) :
    \/ NodeAt(p, j - 1).type = "BACK"
    \/ <<procs[p].n, SubSeq(procs[p].at, 1, j - 1)>> \in broken

\* p and q are in the two parts of the list that their paths reach after k - 1 steps.
Ordered(p, q, k) ==
  /\ procs[p].n = procs[q].n
  /\ SubSeq(procs[p].at, 1, k - 1) = SubSeq(procs[q].at, 1, k - 1)
  /\ NodeAt(p, k - 1).type = "LIST"
  /\ procs[p].at[k] = "l" /\ procs[q].at[k] = "r"

Started(p) == Running(p) /\ p # shell /\ procs[p].pc # "parse"

\* The second part of a list starts when the first is over, and the shell
\* asks for a line when the last one is over, but for what runs in the
\* background (main, runcmd: LIST, BACK).
ListsInOrder ==
  \A p \in {p \in Slot : Started(p)} :
    /\ procs[shell].pc = "prompt" => Detached(p, 0)
    /\ \A q \in {q \in Slot : Started(q)}, k \in DOMAIN procs[p].at :
         (k \in DOMAIN procs[q].at /\ Ordered(p, q, k)) => Detached(p, k)

\* Can process p go on by itself?
Waits(p) ==
  \/ procs[p].pc \in {"wait", "list", "wait1", "wait2"} /\ Zombies(p) = {} /\ Children(p) # {}
  \/ procs[p].pc = "program" /\ ~AtEof(procs[p].fds[0])

\* Processes never all wait for each other: for a child to end, or for the
\* end of a pipe's data (runcmd: what is closed before exec and before wait).
SomebodyRuns ==
  (\E p \in Slot : Running(p)) => \E p \in Slot : Running(p) /\ ~Waits(p)

=============================================================================
