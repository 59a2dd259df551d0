----------------------------- MODULE PipeProofs -----------------------------
(***************************************************************************)
(* The pipe of kernel/pipe.c for every size of the ring, of the counters   *)
(* and of the calls: no byte is lost, doubled or reordered, nobody sleeps  *)
(* on a pipe that is ready, the end of the file is the end, and the page   *)
(* is freed when the last end is closed and not before.                    *)
(***************************************************************************)
EXTENDS PipeCalls

-----------------------------------------------------------------------------
(* The steps of sys_pipe, fork, dup, close and exit. *)

\* While sys_pipe fails, there are no descriptors.
LEMMA UndoingHolds ==
  ASSUME PipeInv, th["sh"].pc \in Undoing, NEW p \in Proc, NEW e \in End
  PROVE  fds[p][e] = 0
  <1>1. th["left"].pc = "unborn" /\ th["right"].pc = "unborn"
    BY DEF PipeInv, Refs, Unborn, BeforeRight, BeforeLeft
  <1>2. th[p].pc \in {"unborn"} \cup Undoing
    BY <1>1 DEF Proc
  <1>3. Count(p, th[p].pc, e) = 0 /\ th[p].pc # "exit"
    BY <1>2 DEF Count, Undoing
  <1>4. Closing(p, e) = 0
    <2>1. Ends(p, e)
      BY DEF PipeInv, Refs
    <2> QED BY <1>2, <2>1 DEF Ends, Closing, Undoing
  <1>5. Holds(p, e) /\ fds[p][e] \in Nat
    BY DEF PipeInv, Refs, Types
  <1> QED BY <1>3, <1>4, <1>5 DEF Holds

\* A descriptor keeps its end from being closed.
LEMMA HolderKeepsOpen ==
  ASSUME PipeInv, NEW p \in Proc, NEW e \in End, fds[p][e] > 0
  PROVE  /\ ref[e] > 0 /\ pi.open[e]
         /\ \A q \in Proc : th[q].end # e
         /\ ref[e] = fds["sh"][e] + fds["left"][e] + fds["right"][e]
         /\ fds["sh"][e] \in Nat /\ fds["left"][e] \in Nat /\ fds["right"][e] \in Nat
         /\ th["sh"].pc \notin Undoing
  <1>1. fds["sh"][e] \in Nat /\ fds["left"][e] \in Nat /\ fds["right"][e] \in Nat
    BY Members DEF PipeInv, Types
  <1>2. th["sh"].pc \notin Undoing
    BY UndoingHolds
  <1>3. ref[e] = fds["sh"][e] + fds["left"][e] + fds["right"][e]
    BY <1>2 DEF PipeInv, Refs, Sums
  <1>4. p = "sh" \/ p = "left" \/ p = "right"
    BY DEF Proc
  <1>5. ref[e] > 0
    BY <1>1, <1>3, <1>4
  <1>6. pi.open[e]
    BY <1>5 DEF PipeInv, Refs, Opened
  <1>7. \A q \in Proc : th[q].end # e
    BY <1>5 DEF PipeInv, Refs, Ends
  <1> QED BY <1>1, <1>2, <1>3, <1>5, <1>6, <1>7

LEMMA GoOutside ==
  ASSUME PipeInv, Refs', NEW p \in Proc, NEW l \in Label(p), Go(p, l),
         th[p].pc \notin Using, l \notin Locked \cup {"eof"},
         ref' \in [End -> Nat], fds' \in [Proc -> [End -> Nat]],
         UNCHANGED <<pi, sent, taken>>
  PROVE  Good
  <1>1. Types
    BY DEF PipeInv
  <1>2. /\ th' \in [Proc -> Thread]
        /\ \A q \in Proc : th'[q].pc = IF q = p THEN l ELSE th[q].pc
        /\ \A q \in Proc : /\ th'[q].i = th[q].i /\ th'[q].chan = th[q].chan
                           /\ th'[q].killed = th[q].killed /\ th'[q].end = th[q].end
        /\ \A q \in Proc : th'[q].pc \in Label(q)
    BY <1>1, Went
  <1>3. Types'
    BY <1>1, <1>2 DEF Types
  <1> QED BY <1>2, <1>3, OutsideStep

\* Descriptors, counts and the pipe are unchanged; p goes on to exit or is dead.
LEMMA RefsGo ==
  ASSUME PipeInv, NEW p \in Proc, NEW l \in {"exit", "dead"}, Go(p, l),
         th[p].pc \in {"exit", "wait", "pipe", "forkleft", "forkright"}, th[p].end = None,
         l = "dead" => \A e \in End : fds[p][e] = 0,
         UNCHANGED <<pi, ref, fds>>
  PROVE  Refs'
  <1>1. Types /\ l \in Label(p)
    BY DEF PipeInv, Label
  <1>2. /\ \A q \in Proc : th'[q].pc = IF q = p THEN l ELSE th[q].pc
        /\ \A q \in Proc : th'[q].end = th[q].end
    BY <1>1, Went
  <1>3. p # "sh" => th[p].pc = "exit"
    BY <1>1 DEF Types, Label, BeforeRight, BeforeLeft, Undoing
  <1>4. /\ th["sh"].pc \notin Undoing /\ th'["sh"].pc \notin Undoing
        /\ th'["sh"].pc \in BeforeRight => th'["sh"].pc = th["sh"].pc
    <2>1. CASE p = "sh"
      BY <1>2, <2>1, Members DEF Undoing, BeforeRight, BeforeLeft
    <2>2. CASE p # "sh"
      <3>1. th["left"].pc # "unborn" \/ th["right"].pc # "unborn"
        BY <1>3, <2>2 DEF Proc
      <3>2. th["sh"].pc \notin Undoing
        BY <3>1 DEF PipeInv, Refs, Unborn, BeforeRight, BeforeLeft
      <3> QED BY <1>2, <2>2, <3>2, Members
    <2> QED BY <2>1, <2>2
  <1>5. ASSUME NEW q \in Proc, NEW e \in End PROVE Holds(q, e)'
    <2>1. fds[q][e] \in Nat /\ fds' = fds /\ Holds(q, e)
      BY <1>1 DEF Types, PipeInv, Refs
    <2>2. CASE q # p
      <3>1. Closing(q, e)' = Closing(q, e)
        BY <1>2, <2>2 DEF Closing
      <3> QED BY <1>2, <2>1, <2>2, <3>1 DEF Holds
    <2>3. CASE q = p
      <3>1. Closing(p, e) = 0 /\ Closing(p, e)' = 0
        BY <1>2 DEF Closing, End, None
      <3>2. fds[p][e] <= 2
        <4>1. th[p].pc # "exit" => Count(p, th[p].pc, e) \in {0, 1}
          BY DEF Count, Undoing
        <4> QED BY <2>1, <2>3, <3>1, <4>1 DEF Holds
      <3>3. Count(p, "dead", e) = 0
        BY DEF Count
      <3> QED BY <1>2, <2>1, <2>3, <3>1, <3>2, <3>3 DEF Holds
    <2> QED BY <2>2, <2>3
  <1>6. ASSUME NEW q \in Proc, NEW e \in End PROVE Ends(q, e)'
    <2>1. Ends(q, e) /\ e # None
      BY DEF PipeInv, Refs, None, End
    <2> QED BY <1>2, <2>1 DEF Ends
  <1>7. Sums' /\ ToClose' /\ Sole'
    BY <1>2, <1>4 DEF PipeInv, Refs, Sums, ToClose, Sole
  <1>8. \A e \in End : Opened(e)'
    BY <1>2 DEF PipeInv, Refs, Opened
  <1>9. Freed' /\ Unborn'
    <2>1. /\ th["left"].pc = "unborn" => th'["left"].pc = "unborn"
          /\ th["right"].pc = "unborn" => th'["right"].pc = "unborn"
      BY <1>2, <1>3, Members
    <2>2. th'["sh"].pc \in BeforeLeft => th'["sh"].pc \in BeforeRight
      BY DEF BeforeRight
    <2> QED BY <1>4, <2>1, <2>2 DEF PipeInv, Refs, Freed, Unborn
  <1> QED BY <1>5, <1>6, <1>7, <1>8, <1>9 DEF Refs

LEMMA ExitStep ==
  ASSUME PipeInv, NEW p \in Proc, Exit(p)
  PROVE  Good
  <1>1. /\ th[p].pc = "exit" /\ th[p].end = None /\ UNCHANGED <<pi, ref, fds, sent, taken>>
        /\ \A e \in End : fds[p][e] = 0
        /\ Go(p, "dead")
    BY DEF Exit, At, Goto, Go
  <1>2. Refs'
    BY <1>1, RefsGo
  <1>3. /\ "dead" \in Label(p) /\ "dead" \notin Locked \cup {"eof"} /\ th[p].pc \notin Using
        /\ ref' \in [End -> Nat] /\ fds' \in [Proc -> [End -> Nat]]
    BY <1>1 DEF Label, Locked, Using, PipeInv, Types
  <1> QED BY <1>1, <1>2, <1>3, GoOutside

\* The shell's child gives up, or has waited for the programs.
LEMMA ShellLeaves ==
  ASSUME PipeInv, th["sh"].pc \in {"wait", "pipe", "forkleft", "forkright"}, Go("sh", "exit"),
         UNCHANGED <<pi, ref, fds, sent, taken>>
  PROVE  Good
  <1>1. th["sh"].end = None
    <2>1. th["sh"].end \in End \cup {None}
      BY Members DEF PipeInv, Types, Thread
    <2> QED BY <2>1, Members DEF PipeInv, Refs, Ends, Undoing
  <1>2. Refs'
    BY <1>1, RefsGo, Members
  <1>3. /\ "exit" \in Label("sh") /\ "exit" \notin Locked \cup {"eof"} /\ th["sh"].pc \notin Using
        /\ ref' \in [End -> Nat] /\ fds' \in [Proc -> [End -> Nat]]
    BY DEF Label, Locked, Using, PipeInv, Types
  <1> QED BY <1>2, <1>3, GoOutside, Members

LEMMA WaitStep ==
  ASSUME PipeInv, Wait
  PROVE  Good
  BY ShellLeaves DEF Wait, At, Goto, Go

\* The pipe has been allocated: the shell's child has its descriptors, or sys_pipe
\* goes on to close both files.
LEMMA PipeAllocated ==
  ASSUME PipeInv, th["sh"].pc = "pipe", Pipealloc, UNCHANGED <<sent, taken>>,
         NEW l \in {"forkleft", "undo0"}, Go("sh", l),
         l = "forkleft" => fds' = [fds EXCEPT !["sh"] = [e \in End |-> 1]],
         l = "undo0" => fds' = fds
  PROVE  Good
  <1> DEFINE d == IF l = "forkleft" THEN 1 ELSE 0
  <1>1. Types /\ l \in Label("sh")
    BY DEF PipeInv, Label, BeforeRight, BeforeLeft, Undoing
  <1>2. /\ th' \in [Proc -> Thread]
        /\ \A q \in Proc : th'[q].pc = IF q = "sh" THEN l ELSE th[q].pc
        /\ \A q \in Proc : /\ th'[q].i = th[q].i /\ th'[q].chan = th[q].chan
                           /\ th'[q].killed = th[q].killed /\ th'[q].end = th[q].end
        /\ \A q \in Proc : th'[q].pc \in Label(q)
    BY <1>1, Went, Members
  <1>3. th["left"].pc = "unborn" /\ th["right"].pc = "unborn"
    BY DEF PipeInv, Refs, Unborn, BeforeRight, BeforeLeft
  <1>4. \A q \in Proc : th[q].pc \in {"pipe", "unborn"}
    BY <1>3 DEF Proc
  <1>5. \A q \in Proc : th[q].end = None
    BY <1>1, <1>4 DEF PipeInv, Refs, Ends, Types, Thread, Undoing
  <1>6. \A q \in Proc, e \in End : fds[q][e] = 0
    <2>1. \A q \in Proc, e \in End : fds[q][e] \in Nat
      BY <1>1 DEF Types
    <2>2. \A q \in Proc, e \in End : Closing(q, e) = 0
      BY <1>5 DEF Closing, None, End
    <2>3. \A q \in Proc, e \in End : Count(q, th[q].pc, e) = 0 /\ th[q].pc # "exit"
      BY <1>4 DEF Count
    <2> QED BY <2>1, <2>2, <2>3 DEF PipeInv, Refs, Holds
  <1>7. /\ pi' \in PipeRecord /\ pi'.open = [e \in End |-> TRUE] /\ pi'.page
        /\ pi'.data = pi.data /\ pi'.nread = pi.nread /\ pi'.nwrite = pi.nwrite
        /\ pi'.lock = pi.lock
    BY <1>1, ZenonT(30) DEF Pipealloc, Types, PipeRecord
  <1>8. /\ fds' \in [Proc -> [End -> Nat]] /\ ref' \in [End -> Nat]
        /\ \A q \in Proc, e \in End : fds'[q][e] = IF q = "sh" THEN d ELSE 0
        /\ \A e \in End : ref'[e] = 1
    <2>1. fds \in [Proc -> [End -> Nat]]
      BY <1>1 DEF Types
    <2>2. ref' \in [End -> Nat] /\ \A e \in End : ref'[e] = 1
      BY DEF Pipealloc
    <2>3. CASE l = "forkleft"
      BY <1>6, <2>1, <2>2, <2>3, Members
    <2>4. CASE l = "undo0"
      BY <1>6, <2>1, <2>2, <2>4
    <2> QED BY <2>3, <2>4
  <1>9. Types'
    BY <1>2, <1>7, <1>8 DEF Types
  <1>10. th'["sh"].pc = l /\ th'["left"].pc = "unborn" /\ th'["right"].pc = "unborn"
    BY <1>2, <1>3, Names
  <1>11. \A q \in Proc, e \in End : th'[q].end = None /\ th'[q].end # e
    BY <1>2, <1>5 DEF None, End
  <1>12. Refs'
    <2>1. Sums' /\ ToClose'
      <3>1. CASE l = "forkleft"
        BY <1>8, <1>10, <3>1, Members DEF Sums, ToClose, Undoing
      <3>2. CASE l = "undo0"
        BY <1>8, <1>10, <1>11, <3>2, Members DEF Sums, ToClose, Undoing
      <3> QED BY <3>1, <3>2
    <2>2. ASSUME NEW q \in Proc, NEW e \in End PROVE Holds(q, e)'
      <3>1. Closing(q, e)' = 0
        BY <1>11 DEF Closing
      <3>2. th'[q].pc = IF q = "sh" THEN l ELSE "unborn"
        BY <1>10 DEF Proc
      <3>3. Count(q, th'[q].pc, e) = (IF q = "sh" THEN d ELSE 0) /\ th'[q].pc # "exit"
        BY <3>2 DEF Count, Undoing
      <3> QED BY <1>8, <3>1, <3>3 DEF Holds
    <2>3. Sole' /\ \A q \in Proc, e \in End : Ends(q, e)'
      <3>1. \A q \in Proc : th'[q].end = None
        BY <1>11, Members
      <3> QED BY <1>11, <3>1 DEF Sole, Ends
    <2>4. Freed' /\ \A e \in End : Opened(e)'
      BY <1>7, <1>8, Members DEF Freed, Opened
    <2>5. Unborn'
      BY <1>10 DEF Unborn
    <2> QED BY <2>1, <2>2, <2>3, <2>4, <2>5 DEF Refs
  <1>13. \A q \in Proc : th[q].chan = None
    BY <1>4 DEF PipeInv, Inside
  <1>14. \A q \in Proc :
           \/ th'[q].pc = th[q].pc
           \/ th[q].pc \notin Using /\ th'[q].pc \notin Locked \cup {"eof"}
    BY <1>2 DEF Using, Locked
  <1>15. th'["right"].chan = None /\ th'["left"].chan = None
    BY <1>2, <1>13, Members
  <1> QED BY <1>2, <1>3, <1>7, <1>9, <1>12, <1>14, <1>15, OutsideStep DEF None

LEMMA PipeCallStep ==
  ASSUME PipeInv, PipeCall
  PROVE  Good
  <1>1. th["sh"].pc = "pipe" /\ UNCHANGED <<sent, taken>>
    BY DEF PipeCall, At
  <1>2. CASE Go("sh", "exit") /\ UNCHANGED <<pi, ref, fds>>
    BY <1>1, <1>2, ShellLeaves
  <1>3. CASE /\ Pipealloc /\ Go("sh", "forkleft")
             /\ fds' = [fds EXCEPT !["sh"] = [e \in End |-> 1]]
    BY <1>1, <1>3, PipeAllocated
  <1>4. CASE Pipealloc /\ Go("sh", "undo0") /\ UNCHANGED fds
    BY <1>1, <1>4, PipeAllocated
  <1> QED BY <1>2, <1>3, <1>4 DEF PipeCall, Goto, Go

\* Before a fork the shell's child has one descriptor of each end.
LEMMA ForkHolds ==
  ASSUME PipeInv, th["sh"].pc \in {"forkleft", "forkright"}
  PROVE  \A e \in End : fds["sh"][e] = 1
  <1>1. \A e \in End : fds["sh"][e] \in Nat
    BY Members DEF PipeInv, Types
  <1>2. \A e \in End : Closing("sh", e) = 0 /\ Count("sh", th["sh"].pc, e) = 1
    BY Members DEF PipeInv, Refs, Ends, Closing, Count, Undoing
  <1> QED BY <1>1, <1>2, Members DEF PipeInv, Refs, Holds

LEMMA ForkStep ==
  ASSUME PipeInv,
         NEW c \in {"left", "right"}, NEW l \in {"forkleft", "forkright"},
         NEW m \in {"forkright", "close0"},
         c = "left" => l = "forkleft" /\ m = "forkright",
         c = "right" => l = "forkright" /\ m = "close0",
         Fork(c, l, m)
  PROVE  Good
  <1>1. th["sh"].pc = l /\ UNCHANGED <<pi, sent, taken>>
    BY DEF Fork, At
  <1>2. CASE Go("sh", "exit") /\ UNCHANGED <<ref, fds>>
    BY <1>1, <1>2, ShellLeaves
  <1>3. CASE /\ ref' = [e \in End |-> ref[e] + fds["sh"][e]]
             /\ fds' = [fds EXCEPT ![c] = fds["sh"]]
             /\ th' = Goto(Goto(th, "sh", m), c, "dup")
    <2>1. /\ Types /\ th \in [Proc -> Thread] /\ \A q \in Proc : th[q].pc \in Label(q)
          /\ c \in Proc /\ c # "sh"
      BY Names DEF PipeInv, Types
    <2>2. /\ th' \in [Proc -> Thread]
          /\ \A q \in Proc : th'[q].pc = CASE q = "sh" -> m [] q = c -> "dup" [] OTHER -> th[q].pc
          /\ \A q \in Proc : /\ th'[q].i = th[q].i /\ th'[q].chan = th[q].chan
                             /\ th'[q].killed = th[q].killed /\ th'[q].end = th[q].end
      <3> DEFINE r == [th["sh"] EXCEPT !.pc = m]
                 s == [th[c] EXCEPT !.pc = "dup"]
      <3>1. m \in AnyLabel /\ "dup" \in AnyLabel /\ th["sh"] \in Thread /\ th[c] \in Thread
        BY <2>1, Members DEF AnyLabel, Label, BeforeRight, BeforeLeft
      <3>2. /\ r \in Thread /\ r.pc = m /\ r.i = th["sh"].i /\ r.chan = th["sh"].chan
            /\ r.killed = th["sh"].killed /\ r.end = th["sh"].end
        BY <3>1 DEF Thread
      <3>3. /\ s \in Thread /\ s.pc = "dup" /\ s.i = th[c].i /\ s.chan = th[c].chan
            /\ s.killed = th[c].killed /\ s.end = th[c].end
        BY <3>1 DEF Thread
      <3>4. th' = [th EXCEPT !["sh"] = r, ![c] = s]
        BY <1>3, <2>1, Members DEF Goto
      <3> HIDE DEF r, s
      <3>5. \A q \in Proc : th'[q] = IF q = "sh" THEN r ELSE IF q = c THEN s ELSE th[q]
        BY <2>1, <3>4, Members
      <3>6. th' \in [Proc -> Thread]
        BY <2>1, <3>2, <3>3, <3>4, Members
      <3> QED BY <2>1, <3>2, <3>3, <3>5, <3>6
    <2>3. \A q \in Proc : th'[q].pc \in Label(q)
      BY <2>1, <2>2 DEF Label, BeforeRight, BeforeLeft, Undoing
    <2>4. th[c].pc = "unborn" /\ th["right"].pc = "unborn"
      BY <1>1 DEF PipeInv, Refs, Unborn, BeforeRight, BeforeLeft
    <2>5. \A e \in End : fds["sh"][e] = 1 /\ ref[e] > 0 /\ pi.open[e]
      BY <1>1, ForkHolds, HolderKeepsOpen, Members
    <2>6. \A q \in Proc : th[q].end \notin End /\ th[q].end = None
      <3>1. \A q \in Proc, e \in End : th[q].end # e
        BY <2>5, HolderKeepsOpen, Members
      <3> QED BY <2>1, <3>1 DEF Thread
    <2>7. \A q \in Proc, e \in End : Closing(q, e) = 0 /\ Closing(q, e)' = 0
      BY <2>2, <2>6 DEF Closing
    <2>8. \A e \in End : fds[c][e] = 0
      <3>1. \A e \in End : Count(c, "unborn", e) = 0 /\ fds[c][e] \in Nat
        BY <2>1 DEF Count, Types
      <3> QED BY <2>1, <2>4, <2>7, <3>1 DEF PipeInv, Refs, Holds
    <2>9. /\ fds' \in [Proc -> [End -> Nat]] /\ ref' \in [End -> Nat]
          /\ \A e \in End : fds'[c][e] = 1 /\ ref'[e] = ref[e] + 1
          /\ \A q \in Proc : q # c => fds'[q] = fds[q]
      BY <1>3, <2>1, <2>5, Members DEF Types
    <2>10. Types'
      BY <1>1, <2>1, <2>2, <2>3, <2>9 DEF Types
    <2>11. Refs'
      <3>1. ASSUME NEW e \in End
            PROVE  (ref[e] = fds["sh"][e] + fds["left"][e] + fds["right"][e])'
        <4>1. /\ ref[e] = fds["sh"][e] + fds["left"][e] + fds["right"][e]
              /\ fds["sh"][e] \in Nat /\ fds["left"][e] \in Nat /\ fds["right"][e] \in Nat
          BY <2>5, HolderKeepsOpen, Members
        <4> QED BY <2>1, <2>8, <2>9, <4>1, Members
      <3>2. ASSUME NEW q \in Proc, NEW e \in End
            PROVE  IF th'[q].pc = "exit" THEN fds'[q][e] <= 2
                   ELSE fds'[q][e] + Closing(q, e)' = Count(q, th'[q].pc, e)
        <4>1. CASE q = "sh"
          <5>1. Count("sh", m, e) = 1 /\ m # "exit"
            BY DEF Count
          <5> QED BY <2>1, <2>2, <2>5, <2>7, <2>9, <4>1, <5>1
        <4>2. CASE q = c
          <5>1. Count(c, "dup", e) = 1
            BY DEF Count
          <5> QED BY <2>1, <2>2, <2>7, <2>9, <4>2, <5>1
        <4>3. CASE q # "sh" /\ q # c
          BY <2>2, <2>7, <2>9, <4>3 DEF PipeInv, Refs, Holds
        <4> QED BY <4>1, <4>2, <4>3
      <3>3. \A q \in Proc : th'[q].end \notin End /\ th'[q].end = None
        BY <2>2, <2>6
      <3>4. \A e \in End : pi'.open[e] /\ ref'[e] > 0 /\ ref[e] \in Nat
        BY <1>1, <2>1, <2>5, <2>9 DEF Types
      <3>5. pi'.page
        BY <1>1, <2>5, Members DEF PipeInv, Refs, Freed
      <3>6. Unborn' /\ th'["sh"].pc \notin Undoing
        <4>1. th'["sh"].pc = m /\ (c = "left" => th'["right"].pc = th["right"].pc)
          BY <2>2, Names
        <4> QED BY <1>1, <2>4, <4>1 DEF Unborn, BeforeRight, BeforeLeft, Undoing
      <3> QED BY <3>1, <3>2, <3>3, <3>4, <3>5, <3>6, Members
          DEF Refs, Sums, ToClose, Holds, Ends, Sole, Opened, Freed
    <2>12. \A q \in Proc :
             \/ th'[q].pc = th[q].pc
             \/ th[q].pc \notin Using /\ th'[q].pc \notin Locked \cup {"eof"}
      BY <1>1, <2>2, <2>4 DEF Using, Locked
    <2> QED BY <1>1, <2>2, <2>10, <2>11, <2>12, OutsideStep
  <1> QED BY <1>2, <1>3 DEF Fork, Goto, Go

LEMMA DupStep ==
  ASSUME PipeInv, NEW p \in Proc, Dup(p)
  PROVE  Good
  <1> DEFINE e == IF p = "left" THEN "w" ELSE "r"
  <1>1. /\ th[p].pc = "dup" /\ Go(p, "close0") /\ UNCHANGED <<pi, sent, taken>>
        /\ ref' = [ref EXCEPT ![e] = ref[e] + 1]
        /\ fds' = [fds EXCEPT ![p][e] = fds[p][e] + 1]
    BY DEF Dup, At, Goto, Go
  <1>2. e \in End /\ p \in {"left", "right"} /\ Types /\ "close0" \in Label(p)
    BY <1>1 DEF End, Proc, PipeInv, Types, Label, BeforeRight, BeforeLeft, Undoing
  <1>3. \A q \in Proc : /\ th'[q].pc = IF q = p THEN "close0" ELSE th[q].pc
                        /\ th'[q].end = th[q].end
    BY <1>1, <1>2, Went
  <1>4. \A f \in End : fds[p][f] = 1 /\ Closing(p, f) = 0
    <2>1. \A f \in End : fds[p][f] \in Nat
      BY <1>2 DEF Types
    <2>2. \A f \in End : Closing(p, f) = 0 /\ Count(p, "dup", f) = 1
      BY <1>1 DEF PipeInv, Refs, Ends, Closing, Count, Undoing
    <2> QED BY <1>1, <2>1, <2>2 DEF PipeInv, Refs, Holds
  <1>5. \A f \in End : ref[f] > 0 /\ pi.open[f] /\ \A q \in Proc : th[q].end # f
    BY <1>4, HolderKeepsOpen
  <1>6. /\ fds' \in [Proc -> [End -> Nat]] /\ ref' \in [End -> Nat]
        /\ \A f \in End : /\ fds'[p][f] = IF f = e THEN 2 ELSE 1
                          /\ ref'[f] = IF f = e THEN ref[f] + 1 ELSE ref[f]
        /\ \A q \in Proc : q # p => fds'[q] = fds[q]
    <2>1. ref \in [End -> Nat] /\ fds \in [Proc -> [End -> Nat]]
      BY <1>2 DEF Types
    <2> HIDE DEF e
    <2> QED BY <1>1, <1>2, <1>4, <2>1
  <1>7. Refs'
    <2>1. ASSUME NEW f \in End
          PROVE  (ref[f] = fds["sh"][f] + fds["left"][f] + fds["right"][f])'
      <3>1. /\ ref[f] = fds["sh"][f] + fds["left"][f] + fds["right"][f]
            /\ fds["sh"][f] \in Nat /\ fds["left"][f] \in Nat /\ fds["right"][f] \in Nat
        BY <1>4, HolderKeepsOpen
      <3> HIDE DEF e
      <3> QED BY <1>2, <1>4, <1>6, <3>1, Members
    <2>2. ASSUME NEW q \in Proc, NEW f \in End
          PROVE  IF th'[q].pc = "exit" THEN fds'[q][f] <= 2
                 ELSE fds'[q][f] + Closing(q, f)' = Count(q, th'[q].pc, f)
      <3>1. Closing(q, f)' = Closing(q, f)
        BY <1>1, <1>3 DEF Closing, Undoing
      <3>2. CASE q = p
        <4>1. Count(p, "close0", f) = IF f = e THEN 2 ELSE 1
          BY <1>2, Names DEF Count
        <4> QED BY <1>3, <1>4, <1>6, <3>1, <3>2, <4>1
      <3>3. CASE q # p
        BY <1>3, <1>6, <3>1, <3>3 DEF PipeInv, Refs, Holds
      <3> QED BY <3>2, <3>3
    <2>3. \A q \in Proc, f \in End : th'[q].end # f
      BY <1>3, <1>5
    <2>4. \A q, r \in Proc : th'[q].end # None /\ th'[q].end = th'[r].end => q = r
      BY <1>3 DEF PipeInv, Refs, Sole
    <2>5. \A f \in End : pi'.open[f] /\ ref'[f] > 0
      <3>1. \A f \in End : ref[f] \in Nat
        BY <1>2 DEF Types
      <3> HIDE DEF e
      <3> QED BY <1>1, <1>5, <1>6, <3>1
    <2>6. pi'.page
      BY <1>1, <1>5, Members DEF PipeInv, Refs, Freed
    <2>7. Unborn' /\ th'["sh"].pc \notin Undoing
      <3>1. th'["sh"].pc = th["sh"].pc
        BY <1>2, <1>3, Members
      <3>2. th["sh"].pc \notin Undoing
        BY <1>4, HolderKeepsOpen, Members
      <3>3. p = "left" => th["sh"].pc \notin BeforeLeft
        BY <1>1 DEF PipeInv, Refs, Unborn
      <3>4. p = "right" => th["sh"].pc \notin BeforeRight
        BY <1>1 DEF PipeInv, Refs, Unborn
      <3> QED BY <1>2, <1>3, <3>1, <3>2, <3>3, <3>4, Members DEF PipeInv, Refs, Unborn
    <2> QED BY <2>1, <2>2, <2>3, <2>4, <2>5, <2>6, <2>7, Members
        DEF Refs, Sums, ToClose, Holds, Ends, Sole, Opened, Freed
  <1>8. "close0" \notin Locked \cup {"eof"} /\ th[p].pc \notin Using
    BY <1>1 DEF Locked, Using
  <1> QED BY <1>1, <1>2, <1>6, <1>7, <1>8, GoOutside

\* Where a closing process goes on has the descriptor less, and no other.
LEMMA CloseCounts ==
  ASSUME NEW p \in Proc, th[p].pc \in {"close0", "close1", "exit"}
  PROVE  /\ AfterClose(p) \in Label(p) /\ AfterClose(p) \notin Locked \cup {"eof"}
         /\ AfterClose(p) # "unborn" /\ AfterClose(p) \notin BeforeRight
         /\ AfterClose(p) = "exit" <=> th[p].pc = "exit"
         /\ th[p].pc = "close0" => \A e \in End :
              Count(p, AfterClose(p), e) + (IF e = "r" THEN 1 ELSE 0) = Count(p, "close0", e)
         /\ th[p].pc = "close1" => \A e \in End :
              Count(p, AfterClose(p), e) + (IF e = "w" THEN 1 ELSE 0) = Count(p, "close1", e)
  <1> USE DEF Label, Locked, BeforeRight, BeforeLeft, Undoing
  <1>1. CASE th[p].pc = "close0"
    <2>1. AfterClose(p) = "close1"
      BY <1>1 DEF AfterClose
    <2> QED BY <1>1, <2>1 DEF Count, Proc, End
  <1>2. CASE th[p].pc = "close1"
    <2>1. AfterClose(p) = CASE p = "sh" -> "wait" [] p = "left" -> "write" [] OTHER -> "read"
      BY <1>2 DEF AfterClose
    <2>2. CASE p = "sh"
      <3>1. AfterClose(p) = "wait"
        BY <2>1, <2>2
      <3> QED BY <1>2, <2>2, <3>1 DEF Count, End
    <2>3. CASE p = "left"
      <3>1. AfterClose(p) = "write"
        BY <2>1, <2>3
      <3> QED BY <1>2, <2>3, <3>1 DEF Count, End
    <2>4. CASE p = "right"
      <3>1. AfterClose(p) = "read"
        BY <2>1, <2>4
      <3> QED BY <1>2, <2>4, <3>1 DEF Count, End
    <2> QED BY <2>2, <2>3, <2>4 DEF Proc
  <1>3. CASE th[p].pc = "exit"
    <2>1. AfterClose(p) = "exit"
      BY <1>3 DEF AfterClose
    <2> QED BY <1>3, <2>1
  <1> QED BY <1>1, <1>2, <1>3

LEMMA CloseFdStep ==
  ASSUME PipeInv, NEW p \in Proc, NEW e \in End, th[p].end = None,
         th[p].pc \in {"close0", "close1", "exit"},
         th[p].pc = "close0" => e = "r", th[p].pc = "close1" => e = "w",
         th[p].pc = "exit" => fds[p][e] > 0,
         CloseFd(p, e)
  PROVE  Good
  <1>1. /\ ref' = [ref EXCEPT ![e] = ref[e] - 1]
        /\ fds' = [fds EXCEPT ![p][e] = fds[p][e] - 1]
        /\ ref[e] = 1 => th' = [th EXCEPT ![p].end = e]
        /\ ref[e] # 1 => Go(p, AfterClose(p))
        /\ UNCHANGED <<pi, sent, taken>>
    BY DEF CloseFd, Fileclose, Goto, Go
  <1>2. /\ Types /\ ref \in [End -> Nat] /\ fds \in [Proc -> [End -> Nat]]
        /\ th \in [Proc -> Thread] /\ \A q \in Proc : th[q].pc \in Label(q)
        /\ None \notin End
    BY DEF PipeInv, Types, None, End
  <1>3. \A f \in End : Closing(p, f) = 0
    BY <1>2 DEF Closing
  <1>4. fds[p][e] > 0
    <2>1. CASE th[p].pc = "exit"
      BY <2>1
    <2>2. CASE th[p].pc # "exit"
      <3>1. Count(p, th[p].pc, e) > 0
        BY <2>2 DEF Count, Undoing
      <3> QED BY <1>2, <1>3, <2>2, <3>1 DEF PipeInv, Refs, Holds
    <2> QED BY <2>1, <2>2
  <1>5. /\ ref[e] > 0 /\ pi.open[e] /\ (\A q \in Proc : th[q].end # e)
        /\ ref[e] = fds["sh"][e] + fds["left"][e] + fds["right"][e]
        /\ fds["sh"][e] \in Nat /\ fds["left"][e] \in Nat /\ fds["right"][e] \in Nat
        /\ th["sh"].pc \notin Undoing
    BY <1>4, HolderKeepsOpen
  <1>6. /\ fds' \in [Proc -> [End -> Nat]] /\ ref' \in [End -> Nat]
        /\ fds'[p][e] = fds[p][e] - 1 /\ ref'[e] = ref[e] - 1
        /\ \A f \in End : f # e => fds'[p][f] = fds[p][f] /\ ref'[f] = ref[f]
        /\ \A q \in Proc : q # p => fds'[q] = fds[q]
    <2>1. fds[p][e] - 1 \in Nat /\ ref[e] - 1 \in Nat
      BY <1>2, <1>4, <1>5
    <2> QED BY <1>1, <1>2, <2>1
  <1>7. \A f \in End : (ref[f] = fds["sh"][f] + fds["left"][f] + fds["right"][f])'
    <2>1. (ref[e] = fds["sh"][e] + fds["left"][e] + fds["right"][e])'
      <3>1. p = "sh" \/ p = "left" \/ p = "right"
        BY DEF Proc
      <3> QED BY <1>5, <1>6, <3>1, Members
    <2>2. ASSUME NEW f \in End, f # e
          PROVE  (ref[f] = fds["sh"][f] + fds["left"][f] + fds["right"][f])'
      <3>1. \A q \in Proc : fds'[q][f] = fds[q][f]
        BY <1>6, <2>2
      <3> QED BY <1>5, <1>6, <2>2, <3>1, Members DEF PipeInv, Refs, Sums
    <2> QED BY <2>1, <2>2
  <1>8. pi.page
    BY <1>5, Names DEF PipeInv, Refs, Freed
  <1>9. CASE ref[e] # 1
    <2> DEFINE l == AfterClose(p)
    <2>1. /\ l \in Label(p) /\ l \notin Locked \cup {"eof"}
          /\ l # "unborn" /\ l \notin BeforeRight
          /\ l = "exit" <=> th[p].pc = "exit"
          /\ th[p].pc = "close0" => \A f \in End :
               Count(p, l, f) + (IF f = "r" THEN 1 ELSE 0) = Count(p, "close0", f)
          /\ th[p].pc = "close1" => \A f \in End :
               Count(p, l, f) + (IF f = "w" THEN 1 ELSE 0) = Count(p, "close1", f)
      BY CloseCounts
    <2> HIDE DEF l
    <2>2. Go(p, l)
      BY <1>1, <1>9 DEF l
    <2>3. \A q \in Proc : /\ th'[q].pc = IF q = p THEN l ELSE th[q].pc
                          /\ th'[q].end = th[q].end
      BY <1>2, <2>1, <2>2, Went
    <2>4. ASSUME NEW q \in Proc, NEW f \in End
          PROVE  IF th'[q].pc = "exit" THEN fds'[q][f] <= 2
                 ELSE fds'[q][f] + Closing(q, f)' = Count(q, th'[q].pc, f)
      <3>1. Closing(q, f)' = Closing(q, f) /\ fds[q][f] \in Nat /\ fds'[q][f] \in Nat
        BY <1>2, <1>6, <2>1, <2>3 DEF Closing, BeforeRight, BeforeLeft, Undoing
      <3>2. CASE q # p
        BY <1>6, <2>3, <3>1, <3>2 DEF PipeInv, Refs, Holds
      <3>3. CASE q = p /\ th[p].pc = "exit"
        BY <1>6, <2>1, <2>3, <3>1, <3>3 DEF PipeInv, Refs, Holds
      <3>4. CASE q = p /\ th[p].pc # "exit"
        <4>1. fds[p][f] = Count(p, th[p].pc, f)
          BY <1>3, <3>1, <3>4 DEF PipeInv, Refs, Holds
        <4>2. Count(p, l, f) + (IF f = e THEN 1 ELSE 0) = Count(p, th[p].pc, f)
          BY <2>1, <3>4
        <4>3. Count(p, l, f) \in Nat
          BY DEF Count
        <4>4. fds'[p][f] + (IF f = e THEN 1 ELSE 0) = fds[p][f]
          BY <1>6, <3>1, <3>4
        <4>5. fds'[p][f] = Count(p, l, f)
          BY <3>1, <3>4, <4>1, <4>2, <4>3, <4>4
        <4>6. th'[q].pc = l /\ l # "exit" /\ Closing(q, f)' = 0
          BY <1>3, <2>1, <2>3, <3>1, <3>4
        <4> QED BY <3>1, <3>4, <4>5, <4>6
      <3> QED BY <3>2, <3>3, <3>4
    <2>5. ref'[e] > 0
      BY <1>5, <1>6, <1>9
    <2>6. \A q \in Proc, f \in End : Ends(q, f)'
      <3>1. ASSUME NEW q \in Proc, NEW f \in End, th'[q].end = f PROVE Ends(q, f)'
        <4>1. q # p /\ f # e /\ th[q].end = f
          BY <1>2, <1>5, <2>3, <3>1
        <4>2. Ends(q, f)
          BY DEF PipeInv, Refs
        <4>3. th'[q].pc = th[q].pc /\ ref'[f] = ref[f]
          BY <1>6, <2>3, <4>1
        <4> QED BY <4>1, <4>2, <4>3 DEF Ends
      <3> QED BY <3>1 DEF Ends
    <2>7. \A q, r \in Proc : th'[q].end # None /\ th'[q].end = th'[r].end => q = r
      BY <2>3 DEF PipeInv, Refs, Sole
    <2>8. \A f \in End : pi'.open[f] <=> ref'[f] > 0 \/ \E q \in Proc : th'[q].end = f
      <3>1. pi'.open[e]
        BY <1>1, <1>5
      <3>2. ASSUME NEW f \in End, f # e
            PROVE  pi'.open[f] <=> ref'[f] > 0 \/ \E q \in Proc : th'[q].end = f
        <4>1. (\E q \in Proc : th'[q].end = f) <=> \E q \in Proc : th[q].end = f
          BY <2>3
        <4> QED BY <1>1, <1>6, <3>2, <4>1 DEF PipeInv, Refs, Opened
      <3> QED BY <2>5, <3>1, <3>2
    <2>9. pi'.page /\ (pi'.open["r"] \/ pi'.open["w"])
      BY <1>1, <1>5, <1>8 DEF End
    <2>10. Unborn' /\ th'["sh"].pc \notin Undoing
      <3>1. /\ th'["sh"].pc \in BeforeRight => th'["sh"].pc = th["sh"].pc
            /\ th'["sh"].pc \in BeforeLeft => th'["sh"].pc \in BeforeRight
            /\ th'["sh"].pc \in Undoing => th'["sh"].pc \in BeforeRight
        BY <2>1, <2>3, Members DEF BeforeRight, BeforeLeft
      <3>2. th["left"].pc = "unborn" => th'["left"].pc = "unborn"
        BY <2>3, Members
      <3>3. th["right"].pc = "unborn" => th'["right"].pc = "unborn"
        BY <2>3, Members
      <3> QED BY <1>5, <3>1, <3>2, <3>3 DEF PipeInv, Refs, Unborn
    <2>11. Refs'
      BY <1>7, <2>4, <2>6, <2>7, <2>8, <2>9, <2>10
          DEF Refs, Sums, ToClose, Holds, Sole, Opened, Freed
    <2>12. th[p].pc \notin Using
      BY DEF Using, Locked
    <2> QED BY <1>1, <1>6, <2>1, <2>2, <2>11, <2>12, GoOutside
  <1>10. CASE ref[e] = 1
    <2>1. /\ th' \in [Proc -> Thread] /\ th'[p].end = e
          /\ \A q \in Proc : q # p => th'[q] = th[q]
          /\ \A q \in Proc : /\ th'[q].pc = th[q].pc /\ th'[q].i = th[q].i
                             /\ th'[q].chan = th[q].chan /\ th'[q].killed = th[q].killed
      <3> DEFINE r == [th[p] EXCEPT !.end = e]
      <3>1. th[p] \in Thread
        BY <1>2
      <3>2. /\ r \in Thread /\ r.end = e /\ r.pc = th[p].pc /\ r.i = th[p].i
            /\ r.chan = th[p].chan /\ r.killed = th[p].killed
        BY <3>1 DEF Thread
      <3>3. th' = [th EXCEPT ![p] = r]
        BY <1>1, <1>2, <1>10
      <3> HIDE DEF r
      <3> QED BY <1>2, <3>2, <3>3
    <2>2. ref'[e] = 0
      BY <1>6, <1>10
    <2>3. ASSUME NEW q \in Proc, NEW f \in End
          PROVE  IF th'[q].pc = "exit" THEN fds'[q][f] <= 2
                 ELSE fds'[q][f] + Closing(q, f)' = Count(q, th'[q].pc, f)
      <3>1. fds[q][f] \in Nat /\ fds'[q][f] \in Nat
        BY <1>2, <1>6
      <3>2. CASE q # p
        <4>1. Closing(q, f)' = Closing(q, f)
          BY <2>1, <3>2 DEF Closing
        <4>2. Holds(q, f)
          BY DEF PipeInv, Refs
        <4>3. fds'[q][f] = fds[q][f] /\ th'[q] = th[q]
          BY <1>6, <2>1, <3>2
        <4> QED BY <4>1, <4>2, <4>3 DEF Holds
      <3>3. CASE q = p
        <4>1. Closing(q, f)' = IF f = e THEN 1 ELSE 0
          BY <2>1, <3>3 DEF Closing, Undoing
        <4>2. fds'[q][f] = IF f = e THEN fds[q][f] - 1 ELSE fds[q][f]
          BY <1>6, <3>3
        <4>3. fds'[q][f] <= fds[q][f] /\ fds'[q][f] + Closing(q, f)' = fds[q][f] + Closing(q, f)
          BY <1>3, <3>1, <3>3, <4>1, <4>2
        <4>4. Holds(q, f)
          BY DEF PipeInv, Refs
        <4>5. th'[q].pc = th[q].pc
          BY <2>1
        <4> QED BY <3>1, <4>3, <4>4, <4>5 DEF Holds
      <3> QED BY <3>2, <3>3
    <2>4. \A q \in Proc, f \in End : Ends(q, f)'
      <3>1. ASSUME NEW q \in Proc, NEW f \in End, th'[q].end = f, q # p
            PROVE  f # e /\ th[q].end = f
        BY <1>5, <2>1, <3>1
      <3>2. ASSUME NEW q \in Proc, NEW f \in End, th'[q].end = f PROVE Ends(q, f)'
        <4>1. CASE q = p
          BY <2>1, <2>2, <3>2, <4>1 DEF Ends, Undoing
        <4>2. CASE q # p
          <5>1. f # e /\ th[q].end = f /\ Ends(q, f)
            BY <3>1, <3>2, <4>2 DEF PipeInv, Refs
          <5>2. ref'[f] = ref[f] /\ th'[q] = th[q]
            BY <1>6, <2>1, <4>2, <5>1
          <5> QED BY <5>1, <5>2 DEF Ends
        <4> QED BY <4>1, <4>2
      <3> QED BY <3>2 DEF Ends
    <2>5. \A q, r \in Proc : th'[q].end # None /\ th'[q].end = th'[r].end => q = r
      <3> SUFFICES ASSUME NEW q \in Proc, NEW r \in Proc,
                          th'[q].end # None, th'[q].end = th'[r].end, q # r
                   PROVE  FALSE
        OBVIOUS
      <3>1. q # p /\ r # p
        BY <1>5, <2>1
      <3>2. th'[q] = th[q] /\ th'[r] = th[r]
        BY <2>1, <3>1
      <3> QED BY <3>2 DEF PipeInv, Refs, Sole
    <2>6. \A f \in End : pi'.open[f] <=> ref'[f] > 0 \/ \E q \in Proc : th'[q].end = f
      <3>1. pi'.open[e]
        BY <1>1, <1>5
      <3>2. ASSUME NEW f \in End, f # e
            PROVE  pi'.open[f] <=> ref'[f] > 0 \/ \E q \in Proc : th'[q].end = f
        <4>1. (\E q \in Proc : th'[q].end = f) <=> \E q \in Proc : th[q].end = f
          BY <1>2, <2>1, <3>2, ZenonT(30)
        <4> QED BY <1>1, <1>6, <3>2, <4>1 DEF PipeInv, Refs, Opened
      <3> QED BY <2>1, <3>1, <3>2
    <2>7. pi'.page /\ (pi'.open["r"] \/ pi'.open["w"])
      BY <1>1, <1>5, <1>8 DEF End
    <2>8. Unborn' /\ th'["sh"].pc \notin Undoing
      BY <1>5, <2>1, Members DEF PipeInv, Refs, Unborn
    <2>9. Refs'
      BY <1>7, <2>3, <2>4, <2>5, <2>6, <2>7, <2>8
          DEF Refs, Sums, ToClose, Holds, Sole, Opened, Freed
    <2>10. Types'
      BY <1>1, <1>2, <1>6, <2>1 DEF Types
    <2> QED BY <1>1, <2>1, <2>9, <2>10, OutsideStep
  <1> QED BY <1>9, <1>10

LEMMA CloseStep ==
  ASSUME PipeInv, NEW p \in Proc, Close(p) \/ ExitClose(p)
  PROVE  Good
  BY CloseFdStep, Members DEF Close, ExitClose, At

LEMMA UndoStep ==
  ASSUME PipeInv, Undo
  PROVE  Good
  <1> DEFINE e == IF th["sh"].pc = "undo0" THEN "r" ELSE "w"
  <1>1. /\ th["sh"].end = None /\ th["sh"].pc \in Undoing /\ e \in End
        /\ Fileclose("sh", e) /\ UNCHANGED fds
    BY DEF Undo, At, Undoing, End
  <1>2. /\ Types /\ ref \in [End -> Nat] /\ th \in [Proc -> Thread] /\ None \notin End
        /\ \A q \in Proc : th[q].pc \in Label(q)
    BY DEF PipeInv, Types, None, End
  <1>3. \A f \in End : ref[f] = IF th["sh"].pc = "undo0" \/ f = "w" THEN 1 ELSE 0
    <2>1. ToClose /\ \A f \in End : None # f
      BY <1>2 DEF PipeInv, Refs
    <2> QED BY <1>1, <2>1 DEF ToClose
  <1>4. ref[e] = 1 /\ pi.open[e] /\ \A q \in Proc : th[q].end # e
    <2>1. ref[e] = 1
      BY <1>1, <1>3
    <2> HIDE DEF e
    <2>2. Opened(e) /\ \A q \in Proc : Ends(q, e)
      BY <1>1 DEF PipeInv, Refs
    <2> QED BY <2>1, <2>2 DEF Opened, Ends
  <1>5. /\ ref' = [ref EXCEPT ![e] = ref[e] - 1] /\ th' = [th EXCEPT !["sh"].end = e]
        /\ UNCHANGED <<pi, sent, taken>>
    BY <1>1, <1>4 DEF Fileclose
  <1>6. ref' \in [End -> Nat] /\ \A f \in End : ref'[f] = IF f = e THEN 0 ELSE ref[f]
    <2> HIDE DEF e
    <2> QED BY <1>1, <1>2, <1>4, <1>5
  <1>7. /\ th' \in [Proc -> Thread] /\ th'["sh"].end = e
        /\ \A q \in Proc : q # "sh" => th'[q] = th[q]
        /\ \A q \in Proc : /\ th'[q].pc = th[q].pc /\ th'[q].i = th[q].i
                           /\ th'[q].chan = th[q].chan /\ th'[q].killed = th[q].killed
    <2> DEFINE r == [th["sh"] EXCEPT !.end = e]
    <2>1. th["sh"] \in Thread
      BY <1>2, Members
    <2> HIDE DEF e
    <2>2. /\ r \in Thread /\ r.end = e /\ r.pc = th["sh"].pc /\ r.i = th["sh"].i
          /\ r.chan = th["sh"].chan /\ r.killed = th["sh"].killed
      BY <1>1, <2>1 DEF Thread
    <2>3. th' = [th EXCEPT !["sh"] = r]
      BY <1>2, <1>5, Members
    <2> HIDE DEF r
    <2> QED BY <1>2, <2>2, <2>3, Members
  <1>8. Types'
    BY <1>1, <1>2, <1>5, <1>6, <1>7 DEF Types
  <1>9. th'["sh"].pc = th["sh"].pc /\ (th["sh"].pc = "undo0" \/ th["sh"].pc = "undo1")
    BY <1>1, <1>7, Members DEF Undoing
  <1>10. Sums' /\ ToClose'
    BY <1>1, <1>3, <1>6, <1>7, <1>9 DEF Sums, ToClose, End
  <1>11. ASSUME NEW q \in Proc, NEW f \in End PROVE Holds(q, f)'
    <2>1. Holds(q, f)
      BY DEF PipeInv, Refs
    <2>2. Closing(q, f)' = Closing(q, f)
      BY <1>1, <1>7 DEF Closing
    <2> QED BY <1>1, <1>7, <2>1, <2>2 DEF Holds
  <1>12. ASSUME NEW q \in Proc, NEW f \in End PROVE Ends(q, f)'
    <2>1. CASE q = "sh"
      BY <1>1, <1>6, <1>7, <1>9, <2>1 DEF Ends, Undoing
    <2>2. CASE q # "sh"
      <3>1. Ends(q, f) /\ th'[q] = th[q] /\ th[q].end # e
        BY <1>4, <1>7, <2>2 DEF PipeInv, Refs
      <3> HIDE DEF e
      <3> QED BY <1>6, <3>1 DEF Ends
    <2> QED BY <2>1, <2>2
  <1>13. Sole'
    <2> SUFFICES ASSUME NEW q \in Proc, NEW r \in Proc,
                        th'[q].end # None, th'[q].end = th'[r].end, q # r
                 PROVE  FALSE
      BY DEF Sole
    <2> HIDE DEF e
    <2>1. q # "sh" /\ r # "sh"
      BY <1>4, <1>7
    <2>2. th'[q] = th[q] /\ th'[r] = th[r]
      BY <1>7, <2>1
    <2> QED BY <2>2 DEF PipeInv, Refs, Sole
  <1>14. ASSUME NEW f \in End PROVE Opened(f)'
    <2>1. CASE f = e
      BY <1>4, <1>5, <1>7, <2>1, Members DEF Opened
    <2>2. CASE f # e
      <3>1. (\E q \in Proc : th'[q].end = f) <=> \E q \in Proc : th[q].end = f
        <4> HIDE DEF e
        <4> QED BY <1>1, <1>2, <1>7, <2>2, ZenonT(30)
      <3>2. Opened(f) /\ ref'[f] = ref[f]
        BY <1>6, <2>2 DEF PipeInv, Refs
      <3> QED BY <1>5, <3>1, <3>2 DEF Opened
    <2> QED BY <2>1, <2>2
  <1>15. Freed' /\ Unborn'
    BY <1>5, <1>7, Members DEF PipeInv, Refs, Freed, Unborn
  <1>16. Refs'
    BY <1>10, <1>11, <1>12, <1>13, <1>14, <1>15 DEF Refs
  <1> QED BY <1>5, <1>7, <1>8, <1>16, OutsideStep

LEMMA PipecloseStep ==
  ASSUME PipeInv, NEW p \in Proc, Pipeclose(p)
  PROVE  Good
  <1> DEFINE e == th[p].end
             other == IF e = "w" THEN "r" ELSE "w"
             l == AfterClose(p)
             t == [th EXCEPT ![p].end = None, ![p].pc = l]
             c == IF e = "w" THEN "nread" ELSE "nwrite"
  <1>1. /\ e # None /\ pi.lock = None
        /\ pi' = [pi EXCEPT !.open[e] = FALSE, !.page = pi.open[other]]
        /\ th' = Wakeup(t, c)
        /\ UNCHANGED <<ref, fds, sent, taken>>
    BY DEF Pipeclose
  <1>2. /\ Types /\ pi \in PipeRecord /\ th \in [Proc -> Thread] /\ ref \in [End -> Nat]
        /\ fds \in [Proc -> [End -> Nat]] /\ \A q \in Proc : th[q].pc \in Label(q)
    BY DEF PipeInv, Types
  <1>3. th[p] \in Thread /\ e \in End /\ other \in End
    BY <1>1, <1>2, Members DEF Thread
  <1>4. /\ ref[e] = 0 /\ th[p].pc \in {"close0", "close1", "exit"} \cup Undoing
        /\ (th[p].pc \in {"close0", "undo0"} => e = "r")
        /\ (th[p].pc \in {"close1", "undo1"} => e = "w")
        /\ \A q \in Proc : q # p => th[q].end # e
    BY <1>1, <1>3 DEF PipeInv, Refs, Ends, Sole
  <1>5. /\ l \in Label(p) /\ l \notin Locked \cup {"eof"} /\ l # "unborn"
        /\ l \in BeforeRight => th[p].pc = "undo0"
        /\ th[p].pc = "undo0" => p = "sh" /\ l = "undo1"
        /\ th[p].pc = "undo1" => p = "sh" /\ l = "exit"
        /\ th[p].pc = "exit" => l = "exit"
        /\ th[p].pc = "close0" => l # "exit" /\ \A f \in End :
             Count(p, l, f) + (IF f = "r" THEN 1 ELSE 0) = Count(p, "close0", f)
        /\ th[p].pc = "close1" => l # "exit" /\ \A f \in End :
             Count(p, l, f) + (IF f = "w" THEN 1 ELSE 0) = Count(p, "close1", f)
    <2>1. CASE th[p].pc \in {"close0", "close1", "exit"}
      BY <2>1, CloseCounts
    <2>2. th[p].pc \in Undoing => p = "sh"
      BY <1>2 DEF Label, Undoing
    <2>3. CASE th[p].pc = "undo0"
      <3>1. p = "sh" /\ l = "undo1"
        BY <2>2, <2>3 DEF AfterClose, Undoing
      <3> QED BY <2>3, <3>1 DEF Label, Locked, BeforeRight, BeforeLeft, Undoing
    <2>4. CASE th[p].pc = "undo1"
      <3>1. p = "sh" /\ l = "exit"
        BY <2>2, <2>4 DEF AfterClose, Undoing
      <3> QED BY <2>4, <3>1 DEF Label, Locked, BeforeRight, BeforeLeft, Undoing
    <2> QED BY <1>4, <2>1, <2>3, <2>4 DEF Undoing
  <1>6. l \in AnyLabel
    BY <1>5, LabelIsAny
  <1> HIDE DEF l
  <1>7. /\ t \in [Proc -> Thread] /\ t[p].end = None /\ t[p].pc = l
        /\ t[p].i = th[p].i /\ t[p].chan = th[p].chan /\ t[p].killed = th[p].killed
        /\ \A q \in Proc : q # p => t[q] = th[q]
    <2> DEFINE r == [th[p] EXCEPT !.end = None, !.pc = l]
    <2>1. /\ r \in Thread /\ r.end = None /\ r.pc = l
          /\ r.i = th[p].i /\ r.chan = th[p].chan /\ r.killed = th[p].killed
      BY <1>3, <1>6, ZenonT(30) DEF Thread
    <2>2. t = [th EXCEPT ![p] = r]
      BY <1>2, ZenonT(30)
    <2> HIDE DEF r, t
    <2> QED BY <1>2, <2>1, <2>2
  <1> HIDE DEF t, c
  <1>8. /\ th' \in [Proc -> Thread]
        /\ \A q \in Proc : /\ th'[q].pc = t[q].pc /\ th'[q].i = t[q].i
                           /\ th'[q].killed = t[q].killed /\ th'[q].end = t[q].end
        /\ \A q \in Proc : th'[q].chan = IF t[q].chan = c THEN None ELSE t[q].chan
    BY <1>1, <1>7, Wakened
  <1>9. /\ \A q \in Proc : th'[q].pc = IF q = p THEN l ELSE th[q].pc
        /\ \A q \in Proc : th'[q].end = IF q = p THEN None ELSE th[q].end
        /\ \A q \in Proc : th'[q].killed = th[q].killed /\ th'[q].i = th[q].i
        /\ \A q \in Proc : th'[q].chan = IF th[q].chan = c THEN None ELSE th[q].chan
    BY <1>7, <1>8
  <1>10. /\ pi' \in PipeRecord /\ ~pi'.open[e] /\ pi'.open[other] = pi.open[other]
         /\ pi'.page = pi.open[other]
         /\ pi'.data = pi.data /\ pi'.nread = pi.nread /\ pi'.nwrite = pi.nwrite
         /\ pi'.lock = pi.lock
    <2>1. other # e
      OBVIOUS
    <2> HIDE DEF e, other
    <2> QED BY <1>1, <1>2, <1>3, <2>1, ZenonT(30) DEF PipeRecord
  <1>11. Types'
    BY <1>1, <1>2, <1>5, <1>8, <1>9, <1>10 DEF Types
  <1>12. ASSUME NEW q \in Proc, NEW f \in End PROVE Holds(q, f)'
    <2>1. fds[q][f] \in Nat /\ fds' = fds /\ Holds(q, f)
      BY <1>1, <1>2 DEF PipeInv, Refs
    <2>2. CASE q # p
      <3>1. Closing(q, f)' = Closing(q, f)
        BY <1>9, <2>2 DEF Closing
      <3> QED BY <1>9, <2>1, <2>2, <3>1 DEF Holds
    <2>3. CASE q = p /\ th[p].pc = "exit"
      BY <1>5, <1>9, <2>1, <2>3 DEF Holds
    <2>4. CASE q = p /\ th[p].pc \in {"close0", "close1"}
      <3>1. Closing(q, f)' = 0
        BY <1>9, <2>4 DEF Closing, None, End
      <3>2. fds[p][f] + Closing(p, f) = Count(p, th[p].pc, f)
        BY <2>1, <2>4 DEF Holds
      <3>3. Closing(p, f) = IF f = e THEN 1 ELSE 0
        BY <2>4 DEF Closing, Undoing
      <3>4. Count(p, l, f) + (IF f = e THEN 1 ELSE 0) = Count(p, th[p].pc, f)
        BY <1>4, <1>5, <2>4
      <3>5. Count(p, l, f) \in Nat
        BY DEF Count
      <3>6. th'[q].pc = l /\ l # "exit"
        BY <1>5, <1>9, <2>4
      <3>7. fds[p][f] = Count(p, l, f)
        <4> HIDE DEF e
        <4> QED BY <2>1, <2>4, <3>2, <3>3, <3>4, <3>5
      <3> QED BY <2>1, <2>4, <3>1, <3>6, <3>7 DEF Holds
    <2>5. CASE q = p /\ th[p].pc \in Undoing
      <3>1. fds[q][f] = 0
        BY <1>5, <2>5, UndoingHolds DEF Undoing
      <3>2. Closing(q, f)' = 0
        BY <1>9, <2>5 DEF Closing, None, End
      <3>3. th'[q].pc = "undo1" \/ th'[q].pc = "exit"
        BY <1>5, <1>9, <2>5 DEF Undoing
      <3>4. Count(q, "undo1", f) = 0
        BY DEF Count, Undoing
      <3> QED BY <2>1, <3>1, <3>2, <3>3, <3>4 DEF Holds
    <2> QED BY <1>4, <2>2, <2>3, <2>4, <2>5
  <1>13. \A q \in Proc, f \in End : th'[q].end = f => q # p /\ th[q].end = f /\ f # e
    BY <1>4, <1>9 DEF None, End
  <1>14. \A q \in Proc, f \in End : Ends(q, f)'
    BY <1>1, <1>9, <1>13 DEF PipeInv, Refs, Ends
  <1>15. \A q, r \in Proc : th'[q].end # None /\ th'[q].end = th'[r].end => q = r
    BY <1>9 DEF PipeInv, Refs, Sole
  <1>16. \A f \in End : pi'.open[f] <=> ref'[f] > 0 \/ \E q \in Proc : th'[q].end = f
    <2>1. ~(ref'[e] > 0) /\ ~\E q \in Proc : th'[q].end = e
      BY <1>1, <1>3, <1>4, <1>13
    <2>2. (\E q \in Proc : th'[q].end = other) <=> \E q \in Proc : th[q].end = other
      <3>1. other # e
        OBVIOUS
      <3> HIDE DEF other
      <3> QED BY <1>3, <1>9, <1>13, <3>1
    <2>3. pi'.open[other] <=> ref'[other] > 0 \/ \E q \in Proc : th'[q].end = other
      BY <1>1, <1>3, <1>10, <2>2 DEF PipeInv, Refs, Opened
    <2>4. \A f \in End : f = e \/ f = other
      BY <1>3 DEF End
    <2> QED BY <1>10, <2>1, <2>3, <2>4
  <1>17. pi'.page <=> pi'.open["r"] \/ pi'.open["w"]
    BY <1>3, <1>10, ZenonT(30) DEF End
  <1>18. Unborn'
    <2>1. /\ th'["sh"].pc \in BeforeRight => th["sh"].pc \in BeforeRight
          /\ th'["sh"].pc \in BeforeLeft => th["sh"].pc \in BeforeLeft
      BY <1>5, <1>9, Members DEF BeforeRight, BeforeLeft, Undoing
    <2>2. th["left"].pc = "unborn" => th'["left"].pc = "unborn"
      BY <1>4, <1>9, Members DEF Undoing
    <2>3. th["right"].pc = "unborn" => th'["right"].pc = "unborn"
      BY <1>4, <1>9, Members DEF Undoing
    <2> QED BY <2>1, <2>2, <2>3 DEF PipeInv, Refs, Unborn
  <1>19. Sums' /\ ToClose'
    <2>1. CASE th[p].pc \notin Undoing
      <3>1. th["sh"].pc \notin Undoing
        <4>1. CASE p = "sh"
          BY <2>1, <4>1
        <4>2. CASE p # "sh"
          <5>1. th["left"].pc # "unborn" \/ th["right"].pc # "unborn"
            BY <1>4, <4>2 DEF Proc, Undoing
          <5> QED BY <5>1 DEF PipeInv, Refs, Unborn, BeforeRight, BeforeLeft
        <4> QED BY <4>1, <4>2
      <3>2. th'["sh"].pc \notin Undoing
        BY <1>5, <1>9, <2>1, <3>1, Members DEF BeforeRight, BeforeLeft, Undoing
      <3> QED BY <1>1, <3>1, <3>2 DEF PipeInv, Refs, Sums, ToClose
    <2>2. ASSUME th[p].pc \in Undoing
          PROVE  /\ p = "sh" /\ \A f \in End : fds["sh"][f] = 0 /\ fds["left"][f] = 0 /\ fds["right"][f] = 0
                 /\ \A f \in End : ref[f] = IF e # f /\ (th["sh"].pc = "undo0" \/ f = "w") THEN 1 ELSE 0
      <3>1. p = "sh"
        BY <1>5, <2>2 DEF Undoing
      <3>2. \A q \in Proc, f \in End : fds[q][f] = 0
        BY <2>2, <3>1, UndoingHolds
      <3>3. ToClose
        BY DEF PipeInv, Refs
      <3> QED BY <2>2, <3>1, <3>2, <3>3, Members DEF ToClose
    <2>3. CASE th[p].pc = "undo0"
      <3>1. /\ p = "sh" /\ e = "r" /\ ref' = ref /\ th'["sh"].pc = "undo1" /\ th'["sh"].end = None
        BY <1>1, <1>4, <1>5, <1>9, <2>3
      <3>2. \A f \in End : ref[f] = IF f = "w" THEN 1 ELSE 0
        BY <2>2, <2>3, <3>1 DEF Undoing, End
      <3> QED BY <3>1, <3>2 DEF Sums, ToClose, Undoing, None, End
    <2>4. CASE th[p].pc = "undo1"
      <3>1. p = "sh" /\ e = "w" /\ ref' = ref /\ fds' = fds /\ th'["sh"].pc = "exit"
        BY <1>1, <1>4, <1>5, <1>9, <2>4
      <3>2. \A f \in End : ref[f] = 0
        BY <2>2, <2>4, <3>1 DEF Undoing
      <3>3. \A f \in End : fds["sh"][f] = 0 /\ fds["left"][f] = 0 /\ fds["right"][f] = 0
        BY <2>2, <2>4 DEF Undoing
      <3> QED BY <3>1, <3>2, <3>3 DEF Sums, ToClose, Undoing
    <2> QED BY <2>1, <2>3, <2>4 DEF Undoing
  <1>20. Refs'
    BY <1>12, <1>14, <1>15, <1>16, <1>17, <1>18, <1>19 DEF Refs, Sole, Opened, Freed
  <1>21. \A q \in Proc :
           \/ th'[q].pc = th[q].pc
           \/ th[q].pc \notin Using /\ th'[q].pc \notin Locked \cup {"eof"}
    BY <1>4, <1>5, <1>9 DEF Using, Locked, Undoing
  <1>22. \A q \in Proc : th'[q].chan = th[q].chan \/ th'[q].chan = None
    BY <1>9
  <1>23. pi'.open["w"] => pi.open["w"]
    BY <1>3, <1>10 DEF End
  <1>24. th'["right"].chan = "nread" => pi.open["w"] = pi'.open["w"]
    <2>1. CASE e = "w"
      BY <1>9, <2>1, Names DEF c
    <2>2. CASE e # "w"
      BY <1>10, <2>2
    <2> QED BY <2>1, <2>2
  <1>25. th'["left"].chan = "nwrite" => pi.open["r"] = pi'.open["r"]
    <2>1. CASE e = "w"
      BY <1>10, <2>1
    <2>2. CASE e # "w"
      BY <1>9, <2>2, Names DEF c
    <2> QED BY <2>1, <2>2
  <1> QED BY <1>1, <1>9, <1>10, <1>11, <1>20, <1>21, <1>22, <1>23, <1>24, <1>25, OutsideStep, ZenonT(30)

-----------------------------------------------------------------------------
(* The invariant and the theorems. *)

LEMMA InitInv ==
  ASSUME Sized, Init
  PROVE  PipeInv /\ Sleepers /\ Ending
  <1>1. /\ pi = [data |-> [k \in 0..(PIPESIZE - 1) |-> 0], nread |-> 0, nwrite |-> 0,
                 open |-> [e \in End |-> FALSE], lock |-> None, page |-> FALSE]
        /\ ref = [e \in End |-> 0]
        /\ fds = [p \in Proc |-> [e \in End |-> 0]]
        /\ th = [p \in Proc |-> [pc |-> IF p = "sh" THEN "pipe" ELSE "unborn",
                                 i |-> 0, chan |-> None, killed |-> FALSE, end |-> None]]
        /\ sent = <<>> /\ taken = <<>>
    BY DEF Init
  <1>2. /\ pi \in PipeRecord /\ pi.nread = 0 /\ pi.nwrite = 0 /\ pi.lock = None /\ ~pi.page
        /\ \A e \in End : ~pi.open[e]
    BY <1>1 DEF PipeRecord, Sized
  <1>3. /\ th \in [Proc -> Thread]
        /\ \A p \in Proc : /\ th[p].pc = IF p = "sh" THEN "pipe" ELSE "unborn"
                           /\ th[p].i = 0 /\ th[p].chan = None /\ ~th[p].killed
                           /\ th[p].end = None
    <2>1. "pipe" \in AnyLabel /\ "unborn" \in AnyLabel
      BY DEF AnyLabel, Label, BeforeRight, BeforeLeft
    <2> QED BY <1>1, <2>1 DEF Thread
  <1>4. /\ ref \in [End -> Nat] /\ fds \in [Proc -> [End -> Nat]]
        /\ \A e \in End : ref[e] = 0 /\ \A p \in Proc : fds[p][e] = 0
    BY <1>1
  <1>5. Types
    BY <1>2, <1>3, <1>4 DEF Types, Label, BeforeRight, BeforeLeft
  <1>6. Stream
    <2>1. 0 % UintMod = 0
      <3>1. UintMod \in Nat \ {0} /\ 0 \in 0..(UintMod - 1)
        BY DEF Sized
      <3> QED BY <3>1, Small
    <2> QED BY <1>1, <1>2, <2>1 DEF Stream, Sized
  <1>7. Refs
    <2>1. \A p \in Proc, e \in End : th[p].end # e /\ Closing(p, e) = 0
      BY <1>3 DEF Closing, None, End
    <2>2. \A p \in Proc, e \in End : th[p].pc # "exit" /\ Count(p, th[p].pc, e) = 0
      BY <1>3 DEF Count
    <2>3. /\ th["left"].pc = "unborn" /\ th["right"].pc = "unborn"
          /\ \A p, q \in Proc : ~(th[p].end # None)
          /\ th["sh"].pc \notin Undoing
      BY <1>3, Members DEF Undoing
    <2>4. Sums /\ ToClose
      BY <1>4, <2>3, Members DEF Sums, ToClose
    <2>5. \A p \in Proc, e \in End : Holds(p, e) /\ Ends(p, e)
      BY <1>4, <2>1, <2>2 DEF Holds, Ends
    <2>6. Sole /\ Unborn
      BY <2>3 DEF Sole, Unborn
    <2>7. Freed /\ \A e \in End : Opened(e)
      BY <1>2, <1>4, <2>1, Members DEF Freed, Opened
    <2> QED BY <2>4, <2>5, <2>6, <2>7 DEF Refs
  <1>8. Inside
    BY <1>2, <1>3 DEF Inside, Locked, None, Proc
  <1>9. Sleepers /\ Ending
    <2>1. th["left"].chan = None /\ th["right"].chan = None /\ ~th["left"].killed
      BY <1>3, Members
    <2>2. th["right"].pc = "unborn"
      BY <1>3, Members
    <2> QED BY <2>1, <2>2 DEF Sleepers, Ending, None
  <1> QED BY <1>5, <1>6, <1>7, <1>8, <1>9 DEF PipeInv

LEMMA NextInv ==
  ASSUME Sized, PipeInv, [Next]_vars
  PROVE  Good
  <1>1. ASSUME UNCHANGED vars PROVE Good
    <2>1. UNCHANGED <<pi, ref, fds, th, sent, taken>>
      BY <1>1 DEF vars
    <2>2. Types' /\ Refs' /\ Inside'
      <3>1. Types' /\ Inside'
        BY <2>1 DEF PipeInv, Types, Inside
      <3>2. Sums' /\ ToClose' /\ Sole' /\ Freed' /\ Unborn'
        BY <2>1 DEF PipeInv, Refs, Sums, ToClose, Sole, Freed, Unborn
      <3>3. ASSUME NEW p \in Proc, NEW e \in End
            PROVE  Holds(p, e)' /\ Ends(p, e)' /\ Opened(e)'
        <4>1. Holds(p, e) /\ Ends(p, e) /\ Opened(e)
          BY DEF PipeInv, Refs
        <4>2. Holds(p, e)'
          BY <2>1, <4>1 DEF Holds, Closing
        <4>3. Ends(p, e)'
          BY <2>1, <4>1 DEF Ends
        <4>4. Opened(e)'
          BY <2>1, <4>1, Zenon DEF Opened
        <4> QED BY <4>2, <4>3, <4>4
      <3>4. "sh" \in Proc
        BY Members
      <3>5. Refs'
        BY <3>2, <3>3, <3>4, Zenon DEF Refs
      <3> QED BY <3>1, <3>5
    <2>3. Stream'
      BY <2>1, ZenonT(30) DEF PipeInv, Stream
    <2>4. (Sleepers => Sleepers') /\ (Copied /\ Ending => Ending')
      BY <2>1 DEF Sleepers, Ending, Empty, Full
    <2> QED BY <2>2, <2>3, <2>4 DEF Good, PipeInv
  <1>2. ASSUME NEW p \in Proc, Step(p) PROVE Good
    <2>1. CASE PipeCall \/ Undo \/ Wait
      BY <2>1, PipeCallStep, UndoStep, WaitStep
    <2>2. CASE ForkLeft
      BY <2>2, ForkStep DEF ForkLeft
    <2>3. CASE ForkRight
      BY <2>3, ForkStep DEF ForkRight
    <2>4. CASE Dup(p) \/ Close(p) \/ ExitClose(p) \/ Exit(p) \/ Pipeclose(p) \/ Acquire(p)
      BY <2>4, DupStep, CloseStep, ExitStep, PipecloseStep, AcquireStep
    <2>5. CASE WriteStop \/ WriteFull \/ WriteByte \/ WriteDone
      BY <2>5, WriteStopStep, WriteFullStep, WriteByteStep, WriteDoneStep
    <2>6. CASE ReadWait \/ ReadStart \/ ReadByte \/ ReadDone \/ Eof
      BY <2>6, ReadWaitStep, ReadStartStep, ReadByteStep, ReadDoneStep, EofStep
    <2> QED BY <1>2, <2>1, <2>2, <2>3, <2>4, <2>5, <2>6 DEF Step
  <1>3. ASSUME NEW p \in Proc, Kill(p) PROVE Good
    BY <1>3, KillStep
  <1> QED BY <1>1, <1>2, <1>3 DEF Next, Done

LEMMA AlwaysPipeInv ==
  ASSUME Sized
  PROVE  Spec => []PipeInv
  <1>1. Init => PipeInv
    BY InitInv
  <1>2. PipeInv /\ [Next]_vars => PipeInv'
    BY NextInv DEF Good
  <1> QED BY <1>1, <1>2, PTL DEF Spec

LEMMA Joined ==
  ASSUME NEW a \in Seq(Nat), NEW b \in Seq(Nat), NEW c \in Seq(Nat),
         \A k \in 1..Len(a) : a[k] = k,
         \A k \in 1..Len(b) : b[k] = Len(a) + k,
         \A k \in 1..Len(c) : c[k] = k,
         Len(c) = Len(a) + Len(b)
  PROVE  a \o b = c
  <1> DEFINE d == a \o b
  <1>1. d \in Seq(Nat)
    OBVIOUS
  <1>2. Len(d) = Len(c)
    OBVIOUS
  <1>3. ASSUME NEW k \in 1..Len(c) PROVE d[k] = c[k]
    <2>1. CASE k <= Len(a)
      BY <2>1
    <2>2. CASE k > Len(a)
      <3>1. PICK j \in 1..Len(b) : j = k - Len(a) /\ Len(a) + j = k
        <4>1. k - Len(a) \in 1..Len(b) /\ Len(a) + (k - Len(a)) = k
          BY <2>2
        <4> QED BY <4>1, Zenon
      <3>2. d[k] = b[k - Len(a)]
        BY <2>2
      <3> HIDE DEF d
      <3>3. b[j] = Len(a) + j
        OBVIOUS
      <3>4. c[k] = k
        OBVIOUS
      <3> QED BY <3>1, <3>2, <3>3, <3>4
    <2> QED BY <2>1, <2>2
  <1> HIDE DEF d
  <1>4. d = c
    BY <1>1, <1>2, <1>3
  <1> QED BY <1>4 DEF d

\* What pipewrite puts into the ring and piperead takes out of it are the same
\* bytes in the same order, for every ring, counter and call size: also when the
\* ring or the counters wrap, calls fail half-way or either process is killed.
THEOREM BytesInOrder ==
  ASSUME Sized
  PROVE  Spec => []Fifo
  <1>1. ASSUME PipeInv PROVE Fifo
    <2> DEFINE s == Len(sent)
               t == Len(taken)
    <2>1. /\ sent \in Seq(Nat) /\ taken \in Seq(Nat)
          /\ s \in Nat /\ t \in Nat /\ t <= s /\ s <= t + PIPESIZE
          /\ (\A k \in 1..s : sent[k] = k) /\ (\A k \in 1..t : taken[k] = k)
          /\ pi.nread = t % UintMod /\ pi.nwrite = s % UintMod
          /\ \A k \in (t + 1)..s : pi.data[(k - 1) % PIPESIZE] = k
      BY <1>1 DEF PipeInv, Stream
    <2> HIDE DEF s, t
    <2>2. (pi.nwrite - pi.nread) % UintMod = s - t
      BY <2>1, Distance
    <2>3. ASSUME NEW k \in 1..(s - t)
          PROVE  pi.data[(pi.nread + k - 1) % PIPESIZE] = t + k
      <3>1. t \in Int /\ k - 1 \in Int /\ t + k \in (t + 1)..s
        BY <2>1, <2>3
      <3>2. ((t % UintMod) + (k - 1)) % PIPESIZE = (t + (k - 1)) % PIPESIZE
        BY <3>1, Counter, Zenon
      <3>3. pi.nread \in Int
        <4>1. t % UintMod \in 0..(UintMod - 1)
          BY <3>1, Counter, Zenon
        <4> QED BY <2>1, <4>1 DEF Sized
      <3>4. pi.nread + k - 1 = (t % UintMod) + (k - 1) /\ t + (k - 1) = (t + k) - 1
        BY <2>1, <3>1, <3>3
      <3> QED BY <2>1, <3>1, <3>2, <3>4
    <2>4. Content = [k \in 1..(s - t) |-> t + k]
      BY <2>2, <2>3 DEF Content
    <2>5. s - t \in Nat
      BY <2>1
    <2>6. /\ Content \in Seq(Nat) /\ Len(Content) = s - t
          /\ \A k \in 1..(s - t) : Content[k] = t + k
      BY <2>1, <2>4, <2>5
    <2>7. Len(taken) = t /\ Len(sent) = s
      BY DEF s, t
    <2>8. Len(sent) = Len(taken) + Len(Content)
      BY <2>1, <2>6, <2>7
    <2>9. taken \o Content = sent
      BY <2>1, <2>6, <2>7, <2>8, Joined, ZenonT(30)
    <2> QED BY <2>9 DEF Fifo
  <1> QED BY <1>1, AlwaysPipeInv, PTL

\* pipeclose frees the page when the last end is closed and not before: then no
\* process has a descriptor or is inside a call; and nothing that went wrong in
\* sys_pipe, fork or a call leaves the page behind.
THEOREM PageFreedOnce ==
  ASSUME Sized
  PROVE  Spec => []FreedWhenUnused
  <1>1. ASSUME PipeInv PROVE FreedWhenUnused
    <2>1. /\ \A p \in Proc, e \in End : fds[p][e] \in Nat
          /\ \A e \in End : ref[e] \in Nat
          /\ \A p \in Proc : th[p].end \in End \cup {None} /\ th[p].pc \in Label(p)
      BY <1>1 DEF PipeInv, Types, Thread
    <2>2. ASSUME ~pi.page
          PROVE  /\ \A p \in Proc, e \in End : fds[p][e] = 0
                 /\ \A p \in Proc :
                      /\ th[p].end = None
                      /\ th[p].pc \notin {"write", "writing", "read", "waiting", "reading"}
      <3>1. \A e \in End : ~pi.open[e]
        BY <1>1, <2>2 DEF PipeInv, Refs, Freed, End
      <3>2. \A p \in Proc, e \in End : fds[p][e] = 0
        BY <1>1, <2>1, <3>1, HolderKeepsOpen
      <3>3. \A p \in Proc : th[p].end = None
        BY <1>1, <2>1, <3>1 DEF PipeInv, Refs, Opened
      <3>4. /\ th["left"].pc \notin {"write", "writing"}
            /\ th["right"].pc \notin {"read", "waiting", "reading"}
        BY <1>1, <3>1, ReaderHasEnd, WriterHasEnd, Members
      <3>5. \A p \in Proc : th[p].pc \notin {"write", "writing", "read", "waiting", "reading"}
        BY <2>1, <3>4 DEF Proc, Label, BeforeRight, BeforeLeft, Undoing
      <3> QED BY <3>2, <3>3, <3>5
    <2>3. ASSUME Finished PROVE ~pi.page
      <3>1. \A p \in Proc : th[p].pc \in {"dead", "unborn"}
        BY <2>3 DEF Finished
      <3>2. \A p \in Proc, e \in End : th[p].end # e
        BY <1>1, <3>1 DEF PipeInv, Refs, Ends, Undoing
      <3>3. \A p \in Proc, e \in End : Count(p, th[p].pc, e) = 0 /\ Closing(p, e) = 0
        BY <3>1, <3>2 DEF Count, Closing
      <3>4. \A p \in Proc, e \in End : fds[p][e] = 0
        <4> SUFFICES ASSUME NEW p \in Proc, NEW e \in End PROVE fds[p][e] = 0
          OBVIOUS
        <4>1. Holds(p, e)
          BY <1>1 DEF PipeInv, Refs
        <4>2. th[p].pc # "exit" /\ fds[p][e] \in Nat
          BY <2>1, <3>1
        <4> QED BY <3>3, <4>1, <4>2 DEF Holds
      <3>5. \A e \in End : ref[e] = 0
        <4>1. th["sh"].pc \notin Undoing
          BY <3>1, Members DEF Undoing
        <4>2. \A e \in End : ref[e] = fds["sh"][e] + fds["left"][e] + fds["right"][e]
          BY <1>1, <4>1 DEF PipeInv, Refs, Sums
        <4> QED BY <3>4, <4>2, Members
      <3>6. \A e \in End : ~pi.open[e]
        BY <1>1, <3>2, <3>5 DEF PipeInv, Refs, Opened
      <3> QED BY <1>1, <3>6, Members DEF PipeInv, Refs, Freed
    <2> QED BY <2>2, <2>3 DEF FreedWhenUnused, At
  <1> QED BY <1>1, AlwaysPipeInv, PTL

\* While the lock is free, a sleeping reader sleeps on an empty pipe that still
\* has writers and a sleeping writer on a full one that has readers: no wakeup
\* of pipewrite, piperead or pipeclose is lost.  (A killed writer returns without
\* its wakeup, so the writer is not killed.)
THEOREM WakeupsSuffice ==
  ASSUME Sized, "left" \notin Killable
  PROVE  Spec => []SleepersInformed
  <1>1. Init => Sleepers
    BY InitInv
  <1>2. PipeInv /\ Sleepers /\ [Next]_vars => Sleepers'
    BY NextInv DEF Good
  <1>3. PipeInv /\ Sleepers => SleepersInformed
    <2> SUFFICES ASSUME PipeInv, Sleepers, pi.lock = None PROVE
                   /\ th["right"].chan = "nread" => Empty /\ pi.open["w"]
                   /\ th["left"].chan = "nwrite" => Full /\ pi.open["r"]
      BY DEF SleepersInformed
    <2>1. th["right"].pc # "reading" /\ pi.lock # "left"
      BY Names DEF PipeInv, Inside, Locked
    <2> QED BY <2>1 DEF Sleepers
  <1> QED BY <1>1, <1>2, <1>3, AlwaysPipeInv, PTL DEF Spec

\* A read returns 0, the end of the file, only when every writer has closed its
\* end and every byte has been taken (piperead, pipeclose), provided the reader's
\* buffer is good: when copyout fails on the first byte, piperead returns 0 too.
\* (Reads of length 0 are left out.)
THEOREM EndOfFile ==
  ASSUME Sized, Chunk \in Nat \ {0}, CopyFails = FALSE
  PROVE  Spec => []EofIsEnd
  <1>1. Init => Ending
    BY InitInv
  <1>2. PipeInv /\ Ending /\ [Next]_vars => Ending'
    BY NextInv DEF Good, Copied
  <1>3. PipeInv /\ Ending => EofIsEnd
    <2> SUFFICES ASSUME PipeInv, Ending, th["right"].pc = "eof"
                 PROVE  taken = sent /\ ref["w"] = 0
      BY DEF EofIsEnd, At
    <2>1. Empty /\ ~pi.open["w"]
      BY DEF Ending
    <2>2. ref["w"] = 0
      <3>1. ref["w"] \in Nat
        BY Members DEF PipeInv, Types
      <3> QED BY <2>1, <3>1, Members DEF PipeInv, Refs, Opened
    <2>3. Len(taken) = Len(sent)
      <3>1. /\ Len(taken) \in Nat /\ Len(sent) \in Nat /\ Len(taken) <= Len(sent)
            /\ Len(sent) <= Len(taken) + PIPESIZE
            /\ Len(taken) % UintMod = Len(sent) % UintMod
        BY <2>1 DEF PipeInv, Stream, Empty
      <3> QED BY <3>1, Distance
    <2>4. taken = sent
      <3>1. /\ sent \in Seq(Nat) /\ taken \in Seq(Nat)
            /\ \A k \in 1..Len(sent) : sent[k] = k
            /\ \A k \in 1..Len(taken) : taken[k] = k
        BY DEF PipeInv, Stream
      <3> QED BY <2>3, <3>1
    <2> QED BY <2>2, <2>4
  <1> QED BY <1>1, <1>2, <1>3, AlwaysPipeInv, PTL DEF Spec

=============================================================================
