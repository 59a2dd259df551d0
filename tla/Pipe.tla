-------------------------------- MODULE Pipe --------------------------------
(***************************************************************************)
(* A pipeline: the pipe of kernel/pipe.c, its two open files               *)
(* (kernel/file.c, sys_pipe of kernel/sysfile.c), and the three processes  *)
(* of a command "left | right" in user/sh.c.                               *)
(*                                                                         *)
(* The left program writes Total bytes in calls of Chunk bytes; the right  *)
(* one reads Chunk bytes at a time to the end of the file, or stops early. *)
(* sleep and wakeup are what Processes shows them to be: sleep gives up    *)
(* the lock and sleeps in one step.                                        *)
(***************************************************************************)
EXTENDS Integers, Sequences

CONSTANTS
  PIPESIZE,
  UintMod,    \* 2^32, a multiple of PIPESIZE
  Total, Chunk,
  Killable,   \* processes that may be killed
  Early,      \* may the right program stop before the end?
  CopyFails   \* may user buffers be bad?

VARIABLES
  pi,         \* the pipe, if its page is allocated
  ref,        \* reference counts of its two files, "r" and "w"
  fds,        \* how many descriptors of each a process has
  th,         \* the processes
  sent, taken \* bytes put into the pipe and taken out of it, in order

vars == <<pi, ref, fds, th, sent, taken>>

Proc == {"sh", "left", "right"}
End == {"r", "w"}
None == "none"

Init ==
  /\ pi = [data |-> [k \in 0..(PIPESIZE - 1) |-> 0], nread |-> 0, nwrite |-> 0,
           open |-> [e \in End |-> FALSE], lock |-> None, page |-> FALSE]
  /\ ref = [e \in End |-> 0]
  /\ fds = [p \in Proc |-> [e \in End |-> 0]]
  /\ th = [p \in Proc |-> [pc |-> IF p = "sh" THEN "pipe" ELSE "unborn",
                           i |-> 0, chan |-> None, killed |-> FALSE, end |-> None]]
  /\ sent = <<>>
  /\ taken = <<>>

Empty == pi.nread = pi.nwrite

\* Fault: one cell too many.
FullLate == pi.nwrite = (pi.nread + PIPESIZE + 1) % UintMod

Full == pi.nwrite = (pi.nread + PIPESIZE) % UintMod

At(p, l) == th[p].pc = l

Goto(t, p, l) == [t EXCEPT ![p].pc = l]

\* wakeup: the sleepers on chan go on to reacquire the lock.
Wakeup(t, chan) ==
  [p \in Proc |-> IF t[p].chan = chan THEN [t[p] EXCEPT !.chan = None] ELSE t[p]]

Awake(p) == th[p].chan = None

-----------------------------------------------------------------------------
\* user/sh.c, case PIPE

\* pipealloc: a pipe with both ends open, and a file for each end.
Pipealloc ==
  /\ pi' = [pi EXCEPT !.open = [e \in End |-> TRUE], !.page = TRUE]
  /\ ref' = [e \in End |-> 1]

\* pipe(p); on failure the shell's child panics, that is, exits.  When fdalloc
\* or copyout fails, sys_pipe clears the descriptors it had set, and has both
\* files left to close.
PipeCall ==
  /\ At("sh", "pipe")
  /\ \/ /\ Pipealloc
        /\ \/ /\ fds' = [fds EXCEPT !["sh"] = [e \in End |-> 1]]
              /\ th' = Goto(th, "sh", "forkleft")
           \/ th' = Goto(th, "sh", "undo0") /\ UNCHANGED fds
     \/ th' = Goto(th, "sh", "exit") /\ UNCHANGED <<pi, ref, fds>>
  /\ UNCHANGED <<sent, taken>>

\* fork1: the child gets every descriptor; on failure the shell's child exits.
Fork(child, from, to) ==
  /\ At("sh", from)
  /\ \/ /\ ref' = [e \in End |-> ref[e] + fds["sh"][e]]
        /\ fds' = [fds EXCEPT ![child] = fds["sh"]]
        /\ th' = Goto(Goto(th, "sh", to), child, "dup")
     \/ th' = Goto(th, "sh", "exit") /\ UNCHANGED <<ref, fds>>
  /\ UNCHANGED <<pi, sent, taken>>

ForkLeft == Fork("left", "forkleft", "forkright")

ForkRight == Fork("right", "forkright", "close0")

\* The child's dup(p[1]) or dup(p[0]) in place of its output or input.
Dup(p) ==
  LET e == IF p = "left" THEN "w" ELSE "r"
  IN  /\ At(p, "dup")
      /\ ref' = [ref EXCEPT ![e] = @ + 1]
      /\ fds' = [fds EXCEPT ![p][e] = @ + 1]
      /\ th' = Goto(th, p, "close0")
      /\ UNCHANGED <<pi, sent, taken>>

\* Where p goes on after closing a file.
AfterClose(p) ==
  CASE th[p].pc = "close0" -> "close1"
    [] th[p].pc = "undo0" -> "undo1"
    [] th[p].pc = "close1" -> (CASE p = "sh" -> "wait" [] p = "left" -> "write" [] OTHER -> "read")
    [] OTHER -> "exit"

\* fileclose, up to pipeclose.
Fileclose(p, e) ==
  /\ ref' = [ref EXCEPT ![e] = @ - 1]
  /\ th' = IF ref[e] = 1 THEN [th EXCEPT ![p].end = e] ELSE Goto(th, p, AfterClose(p))
  /\ UNCHANGED <<pi, sent, taken>>

\* A descriptor is given up and its file closed, as in sys_close and exit.
CloseFd(p, e) ==
  /\ fds' = [fds EXCEPT ![p][e] = @ - 1]
  /\ Fileclose(p, e)

\* Fault: the shell keeps the write end.
CloseForgets(p) ==
  /\ th[p].end = None
  /\ \/ At(p, "close0") /\ CloseFd(p, "r")
     \/ At(p, "close1") /\ p # "sh" /\ CloseFd(p, "w")
     \/ /\ At(p, "close1") /\ p = "sh"
        /\ th' = Goto(th, p, "wait")
        /\ UNCHANGED <<pi, ref, fds, sent, taken>>

\* close(p[0]) and close(p[1]) in the shell's child and in the programs.
Close(p) ==
  /\ th[p].end = None
  /\ \/ At(p, "close0") /\ CloseFd(p, "r")
     \/ At(p, "close1") /\ CloseFd(p, "w")

\* fileclose(rf) and fileclose(wf) in a sys_pipe that fails.
Undo ==
  /\ th["sh"].end = None
  /\ \/ At("sh", "undo0") /\ Fileclose("sh", "r")
     \/ At("sh", "undo1") /\ Fileclose("sh", "w")
  /\ UNCHANGED fds

\* exit closes what is open.
ExitClose(p) ==
  /\ At(p, "exit") /\ th[p].end = None
  /\ \E e \in End : fds[p][e] > 0 /\ CloseFd(p, e)

Exit(p) ==
  /\ At(p, "exit") /\ th[p].end = None
  /\ \A e \in End : fds[p][e] = 0
  /\ th' = Goto(th, p, "dead")
  /\ UNCHANGED <<pi, ref, fds, sent, taken>>

\* pipeclose
Pipeclose(p) ==
  LET e == th[p].end
      other == IF e = "w" THEN "r" ELSE "w"
  IN  /\ e # None
      /\ pi.lock = None
      /\ pi' = [pi EXCEPT !.open[e] = FALSE, !.page = pi.open[other]]
      /\ th' = Wakeup([th EXCEPT ![p].end = None, ![p].pc = AfterClose(p)],
                      IF e = "w" THEN "nread" ELSE "nwrite")
      /\ UNCHANGED <<ref, fds, sent, taken>>

\* wait(0); wait(0): the children have exited.
Wait ==
  /\ At("sh", "wait")
  /\ \A p \in {"left", "right"} : At(p, "dead")
  /\ th' = Goto(th, "sh", "exit")
  /\ UNCHANGED <<pi, ref, fds, sent, taken>>

-----------------------------------------------------------------------------
\* pipewrite and piperead; a left program that wrote less than it asked exits.

\* acquire(&pi->lock), at the start of a call and at the end of sleep.
Acquire(p) ==
  /\ th[p].pc \in {"write", "read"} /\ Awake(p)
  /\ pi.lock = None
  /\ pi' = [pi EXCEPT !.lock = p]
  /\ th' = Goto(th, p, IF th[p].pc = "write" THEN "writing" ELSE "waiting")
  /\ UNCHANGED <<ref, fds, sent, taken>>

\* p is back in its program; a killed process exits instead.
Returned(t, p, l) == [t EXCEPT ![p].pc = IF th[p].killed THEN "exit" ELSE l, ![p].i = 0]

\* release, and return to the program.
Return(t, p, l) ==
  /\ pi' = [pi EXCEPT !.lock = None]
  /\ th' = Returned(t, p, l)

Size == IF Total - Len(sent) + th["left"].i < Chunk THEN Total - Len(sent) + th["left"].i ELSE Chunk

WriteStop ==
  /\ At("left", "writing") /\ th["left"].i < Size
  /\ ~pi.open["r"] \/ th["left"].killed
  /\ Return(th, "left", "exit")
  /\ UNCHANGED <<ref, fds, sent, taken>>

\* Fault: the readers are not told before the writer sleeps.
WriteFullQuietly ==
  /\ At("left", "writing") /\ th["left"].i < Size
  /\ pi.open["r"] /\ ~th["left"].killed
  /\ Full
  /\ pi' = [pi EXCEPT !.lock = None]
  /\ th' = [th EXCEPT !["left"].pc = "write", !["left"].chan = "nwrite"]
  /\ UNCHANGED <<ref, fds, sent, taken>>

WriteFull ==
  /\ At("left", "writing") /\ th["left"].i < Size
  /\ pi.open["r"] /\ ~th["left"].killed
  /\ Full
  /\ pi' = [pi EXCEPT !.lock = None]
  /\ th' = [Wakeup(th, "nread") EXCEPT !["left"].pc = "write", !["left"].chan = "nwrite"]
  /\ UNCHANGED <<ref, fds, sent, taken>>

WriteByte ==
  LET ch == Len(sent) + 1
  IN  /\ At("left", "writing") /\ th["left"].i < Size
      /\ pi.open["r"] /\ ~th["left"].killed
      /\ ~Full
      /\ \/ /\ pi' = [pi EXCEPT !.data[pi.nwrite % PIPESIZE] = ch,
                                !.nwrite = (@ + 1) % UintMod]
            /\ sent' = Append(sent, ch)
            /\ th' = [th EXCEPT !["left"].i = @ + 1]
         \/ /\ CopyFails
            /\ Return(Wakeup(th, "nread"), "left", "exit")
            /\ UNCHANGED sent
      /\ UNCHANGED <<ref, fds, taken>>

WriteDone ==
  /\ At("left", "writing") /\ th["left"].i = Size
  /\ Return(Wakeup(th, "nread"), "left", IF Len(sent) = Total THEN "exit" ELSE "write")
  /\ UNCHANGED <<ref, fds, sent, taken>>

MayWait == Empty /\ pi.open["w"]

ReadWait ==
  /\ At("right", "waiting")
  /\ MayWait
  /\ IF th["right"].killed THEN Return(th, "right", "exit")
     ELSE /\ pi' = [pi EXCEPT !.lock = None]
          /\ th' = [th EXCEPT !["right"].pc = "read", !["right"].chan = "nread"]
  /\ UNCHANGED <<ref, fds, sent, taken>>

ReadStart ==
  /\ At("right", "waiting")
  /\ ~MayWait
  /\ th' = Goto(th, "right", "reading")
  /\ UNCHANGED <<pi, ref, fds, sent, taken>>

\* What the program does with the bytes it got: none is the end of the file,
\* and it may stop when it likes.
AfterRead ==
  IF th["right"].i = 0 THEN {"eof"} ELSE {"read"} \cup (IF Early THEN {"exit"} ELSE {})

\* A byte is taken even if it cannot be copied out; the read then returns the
\* number of bytes before it.
ReadByte ==
  /\ At("right", "reading") /\ th["right"].i < Chunk /\ ~Empty
  /\ taken' = Append(taken, pi.data[pi.nread % PIPESIZE])
  /\ \/ /\ pi' = [pi EXCEPT !.nread = (@ + 1) % UintMod]
        /\ th' = [th EXCEPT !["right"].i = @ + 1]
     \/ /\ CopyFails
        /\ pi' = [pi EXCEPT !.nread = (@ + 1) % UintMod, !.lock = None]
        /\ \E l \in AfterRead : th' = Returned(Wakeup(th, "nwrite"), "right", l)
  /\ UNCHANGED <<ref, fds, sent>>

ReadDone ==
  /\ At("right", "reading") /\ (th["right"].i = Chunk \/ Empty)
  /\ \E l \in AfterRead : Return(Wakeup(th, "nwrite"), "right", l)
  /\ UNCHANGED <<ref, fds, sent, taken>>

Eof ==
  /\ At("right", "eof")
  /\ th' = Goto(th, "right", "exit")
  /\ UNCHANGED <<pi, ref, fds, sent, taken>>

\* kill: the victim wakes from its sleep.
Kill(p) ==
  /\ p \in Killable
  /\ th[p].pc \in {"write", "writing", "read", "waiting", "reading"} /\ ~th[p].killed
  /\ th' = [th EXCEPT ![p].killed = TRUE, ![p].chan = None]
  /\ UNCHANGED <<pi, ref, fds, sent, taken>>

-----------------------------------------------------------------------------

Step(p) ==
  \/ p = "sh" /\ (PipeCall \/ Undo \/ ForkLeft \/ ForkRight \/ Wait)
  \/ Dup(p)
  \/ Close(p)
  \/ ExitClose(p)
  \/ Exit(p)
  \/ Pipeclose(p)
  \/ Acquire(p)
  \/ p = "left" /\ (WriteStop \/ WriteFull \/ WriteByte \/ WriteDone)
  \/ p = "right" /\ (ReadWait \/ ReadStart \/ ReadByte \/ ReadDone \/ Eof)

Finished == \A p \in Proc : th[p].pc \in {"dead", "unborn"}

Done == Finished /\ UNCHANGED vars

Next == (\E p \in Proc : Step(p) \/ Kill(p)) \/ Done

Spec == Init /\ [][Next]_vars

FairSpec == Spec /\ \A p \in Proc : WF_vars(Step(p))

-----------------------------------------------------------------------------

TypeOK ==
  /\ pi.nread \in 0..(UintMod - 1) /\ pi.nwrite \in 0..(UintMod - 1)
  /\ pi.lock \in Proc \cup {None}
  /\ ref \in [End -> 0..6]
  /\ fds \in [Proc -> [End -> 0..2]]
  /\ \A p \in Proc : th[p].chan \in {None, "nread", "nwrite"}

\* The bytes in the ring, oldest first.
Content ==
  [k \in 1..((pi.nwrite - pi.nread) % UintMod) |-> pi.data[(pi.nread + k - 1) % PIPESIZE]]

\* Bytes come out as they went in, none lost or doubled, also when the counters
\* or the ring wrap (pipewrite, piperead).
Fifo == taken \o Content = sent

\* The page of the pipe is there while a descriptor, a pending pipeclose or a
\* call needs it, and no longer once the processes are gone, whichever of
\* pipe(), fork() and the calls on it failed (pipeclose, fileclose, sys_pipe).
FreedWhenUnused ==
  /\ ~pi.page =>
       /\ \A p \in Proc, e \in End : fds[p][e] = 0
       /\ \A p \in Proc :
            th[p].end = None /\ th[p].pc \notin {"write", "writing", "read", "waiting", "reading"}
  /\ Finished => ~pi.page

\* Nobody sleeps on a pipe that is ready for it.
SleepersInformed ==
  pi.lock = None =>
    /\ th["right"].chan = "nread" => Empty /\ pi.open["w"]
    /\ th["left"].chan = "nwrite" => Full /\ pi.open["r"]

\* A reader sees the end of the file only when all writers are gone and all
\* bytes are taken.  Of piperead this holds without CopyFails: a read whose
\* first byte cannot be copied out returns 0 as well.
EofIsEnd == At("right", "eof") => (taken = sent /\ ref["w"] = 0)

\* A pipeline ends: the shell's child closes both ends, so that the reader
\* sees the end of the file, the writer the missing reader, and wait returns.
PipelineEnds == <>(At("sh", "dead"))

=============================================================================
