----------------------------- MODULE PipeCalls ------------------------------
(***************************************************************************)
(* The inductive invariant of the pipe of kernel/pipe.c, and that the      *)
(* steps of pipewrite and piperead keep it, for every size of the ring, of *)
(* the counters and of the calls.                                          *)
(***************************************************************************)
EXTENDS Pipe, TLAPS

\* The ring has room, and the counters go round a whole number of rings
\* (PIPESIZE is 512, the counters are uint).
Sized ==
  /\ PIPESIZE \in Nat \ {0}
  /\ UintMod \in Nat /\ UintMod > PIPESIZE /\ UintMod % PIPESIZE = 0

-----------------------------------------------------------------------------
(* Arithmetic of the counters. *)

LEMMA DivMod ==
  ASSUME NEW a \in Int, NEW n \in Nat \ {0}
  PROVE  /\ a % n \in 0..(n - 1)
         /\ a \div n \in Int
         /\ a = n * (a \div n) + (a % n)
  OBVIOUS

LEMMA ProductOrder ==
  ASSUME NEW n \in Nat \ {0}, NEW x \in Int, NEW y \in Int, x <= y
  PROVE  n * x <= n * y
  OBVIOUS

LEMMA Remainder ==
  ASSUME NEW n \in Nat \ {0}, NEW a \in Int, NEW q \in Int, NEW r \in 0..(n - 1),
         a = n * q + r
  PROVE  a % n = r
  <1> DEFINE p == a \div n
             s == a % n
  <1>1. p \in Int /\ s \in 0..(n - 1) /\ a = n * p + s
    BY DivMod
  <1> HIDE DEF p, s
  <1>2. ASSUME p < q PROVE FALSE
    <2>1. n * (p + 1) <= n * q
      BY <1>1, <1>2, ProductOrder
    <2>2. n * (p + 1) = n * p + n
      BY <1>1
    <2> QED BY <1>1, <2>1, <2>2
  <1>3. ASSUME q < p PROVE FALSE
    <2>1. n * (q + 1) <= n * p
      BY <1>1, <1>3, ProductOrder
    <2>2. n * (q + 1) = n * q + n
      OBVIOUS
    <2> QED BY <1>1, <2>1, <2>2
  <1>4. p = q
    BY <1>1, <1>2, <1>3
  <1>5. s = r
    BY <1>1, <1>4
  <1> QED BY <1>5 DEF s

LEMMA Multiple ==
  ASSUME NEW n \in Nat \ {0}, NEW x \in Int, NEW b \in Int
  PROVE  (n * x + b) % n = b % n
  <1> DEFINE d == b \div n
             r == b % n
             a == n * x + b
             q == x + d
  <1>1. d \in Int /\ r \in 0..(n - 1) /\ b = n * d + r
    BY DivMod
  <1> HIDE DEF d, r
  <1>2. q \in Int /\ a \in Int /\ a = n * q + r
    BY <1>1
  <1> HIDE DEF q, a
  <1>3. a % n = r
    BY <1>1, <1>2, Remainder
  <1> QED BY <1>3 DEF a, r

LEMMA Associates ==
  ASSUME NEW x \in Int, NEW y \in Int, NEW z \in Int
  PROVE  (x * y) * z = x * (y * z) /\ y * z \in Int
  OBVIOUS

\* A counter stands for the number it counts, in the ring and in differences.
LEMMA Counter ==
  ASSUME Sized, NEW a \in Int, NEW j \in Int
  PROVE  /\ ((a % UintMod) + j) % UintMod = (a + j) % UintMod
         /\ ((a % UintMod) + j) % PIPESIZE = (a + j) % PIPESIZE
         /\ a % UintMod \in 0..(UintMod - 1)
         /\ (a % PIPESIZE) \in 0..(PIPESIZE - 1)
  <1> DEFINE P == PIPESIZE
             U == UintMod
             k == UintMod \div PIPESIZE
             q == a \div UintMod
             r == a % UintMod
  <1>1. P \in Nat \ {0} /\ U \in Nat \ {0}
    BY DEF Sized
  <1>2. k \in Int /\ U = P * k
    <2>1. UintMod \in Int /\ UintMod % PIPESIZE = 0
      BY DEF Sized
    <2>2. k \in Int /\ UintMod = P * k + (UintMod % PIPESIZE)
      BY <1>1, <2>1, DivMod
    <2> HIDE DEF k
    <2>3. P * k \in Int
      BY <1>1, <2>2
    <2> QED BY <2>1, <2>2, <2>3
  <1>3. q \in Int /\ r \in 0..(U - 1) /\ a = U * q + r
    BY <1>1, DivMod
  <1>4. a % PIPESIZE \in 0..(PIPESIZE - 1)
    BY <1>1, DivMod
  <1> HIDE DEF P, U, k, q, r
  <1> DEFINE b == r + j
             z == k * q
  <1>5. b \in Int
    BY <1>1, <1>3
  <1>6. a + j = U * q + b
    BY <1>1, <1>3
  <1>7. z \in Int /\ U * q = P * z
    BY <1>1, <1>2, <1>3, Associates
  <1> HIDE DEF b, z
  <1>8. (U * q + b) % U = b % U
    BY <1>1, <1>3, <1>5, Multiple, ZenonT(30)
  <1>9. (P * z + b) % P = b % P
    BY <1>1, <1>5, <1>7, Multiple, ZenonT(30)
  <1>10. (a + j) % U = b % U /\ (a + j) % P = b % P
    BY <1>6, <1>7, <1>8, <1>9
  <1> QED BY <1>3, <1>4, <1>10 DEF b, r, U, P

LEMMA Small ==
  ASSUME NEW n \in Nat \ {0}, NEW r \in 0..(n - 1)
  PROVE  r % n = r
  <1>1. r \in Int /\ r = n * 0 + r
    OBVIOUS
  <1> QED BY <1>1, Remainder

\* Numbers less than n apart have different remainders.
LEMMA Apart ==
  ASSUME NEW n \in Nat \ {0}, NEW a \in Int, NEW b \in Int, a < b, b - a < n
  PROVE  a % n # b % n
  <1> SUFFICES ASSUME a % n = b % n PROVE FALSE
    OBVIOUS
  <1> DEFINE p == a \div n
             q == b \div n
             r == a % n
  <1>1. p \in Int /\ q \in Int /\ r \in Int /\ a = n * p + r /\ b = n * q + r
    BY DivMod
  <1> HIDE DEF p, q, r
  <1>2. ASSUME q <= p PROVE FALSE
    <2>1. n * q <= n * p
      BY <1>1, <1>2, ProductOrder
    <2> QED BY <1>1, <2>1
  <1>3. ASSUME p < q PROVE FALSE
    <2>1. n * (p + 1) <= n * q
      BY <1>1, <1>3, ProductOrder
    <2>2. n * (p + 1) = n * p + n
      BY <1>1
    <2> QED BY <1>1, <2>1, <2>2
  <1> QED BY <1>1, <1>2, <1>3

\* With t bytes taken and s put in, the counters tell how many are left.
LEMMA Distance ==
  ASSUME Sized, NEW s \in Nat, NEW t \in Nat, t <= s, s <= t + PIPESIZE
  PROVE  /\ ((s % UintMod) - (t % UintMod)) % UintMod = s - t
         /\ t % UintMod = s % UintMod <=> s = t
         /\ s % UintMod = ((t % UintMod) + PIPESIZE) % UintMod <=> s = t + PIPESIZE
  <1>1. PIPESIZE \in Nat \ {0} /\ UintMod \in Nat \ {0} /\ UintMod > PIPESIZE
    BY DEF Sized
  <1>2. t % UintMod = s % UintMod <=> s = t
    <2>1. t \in Int /\ s \in Int /\ s - t < UintMod /\ (s # t => t < s)
      BY <1>1
    <2>2. t < s => t % UintMod # s % UintMod
      BY <1>1, <2>1, Apart, ZenonT(30)
    <2> QED BY <2>1, <2>2
  <1>3. ((t % UintMod) + PIPESIZE) % UintMod = (t + PIPESIZE) % UintMod
    <2>1. t \in Int /\ PIPESIZE \in Int
      BY <1>1
    <2> QED BY <2>1, Counter, Zenon
  <1>4. s % UintMod = (t + PIPESIZE) % UintMod <=> s = t + PIPESIZE
    <2>1. t + PIPESIZE \in Int /\ (t + PIPESIZE) - s < UintMod /\ s \in Int
      BY <1>1
    <2>2. s < t + PIPESIZE => s % UintMod # (t + PIPESIZE) % UintMod
      BY <1>1, <2>1, Apart, ZenonT(30)
    <2> QED BY <1>1, <2>2
  <1>5. ((s % UintMod) - (t % UintMod)) % UintMod = s - t
    <2> DEFINE m == t % UintMod
               q == t \div UintMod
               b == s - m
    <2>1. m \in 0..(UintMod - 1) /\ q \in Int /\ t = UintMod * q + m
      BY <1>1, DivMod
    <2> HIDE DEF m, q
    <2>2. ((s % UintMod) + (-m)) % UintMod = (s + (-m)) % UintMod
      <3>1. s \in Int /\ -m \in Int
        BY <1>1, <2>1
      <3> QED BY <3>1, Counter, Zenon
    <2>3. s % UintMod \in Int
      BY <1>1
    <2>4. (s % UintMod) + (-m) = (s % UintMod) - m /\ s + (-m) = s - m
      BY <2>1, <2>3
    <2>5. s - m = UintMod * q + (s - t) /\ s - t \in 0..(UintMod - 1) /\ s - m \in Int
      BY <1>1, <2>1
    <2>6. (s - m) % UintMod = s - t
      BY <1>1, <2>1, <2>5, Remainder, ZenonT(30)
    <2> QED BY <2>2, <2>4, <2>6 DEF m
  <1> QED BY <1>2, <1>3, <1>4, <1>5

-----------------------------------------------------------------------------
(* The parts of the inductive invariant. *)

\* The places where a process has the pipe locked, and where it uses the pipe.
Locked == {"writing", "waiting", "reading"}

Using == Locked \cup {"write", "read", "eof"}

\* The places in a sys_pipe that has failed, and those of the shell's child
\* before the forks.
Undoing == {"undo0", "undo1"}

BeforeLeft == {"pipe", "forkleft"} \cup Undoing

BeforeRight == {"forkright"} \cup BeforeLeft

Label(p) ==
  {"close0", "close1", "exit", "dead"} \cup
  IF p = "sh" THEN {"wait"} \cup BeforeRight
  ELSE {"unborn", "dup"} \cup
       IF p = "left" THEN {"write", "writing"} ELSE {"read", "waiting", "reading", "eof"}

AnyLabel == Label("sh") \cup Label("left") \cup Label("right")

PipeRecord ==
  [data : [0..(PIPESIZE - 1) -> Nat], nread : 0..(UintMod - 1), nwrite : 0..(UintMod - 1),
   open : [End -> BOOLEAN], lock : Proc \cup {None}, page : BOOLEAN]

Thread ==
  [pc : AnyLabel, i : Nat,
   chan : {None, "nread", "nwrite"}, killed : BOOLEAN, end : End \cup {None}]

Types ==
  /\ pi \in PipeRecord
  /\ ref \in [End -> Nat] /\ fds \in [Proc -> [End -> Nat]]
  /\ th \in [Proc -> Thread]
  /\ \A p \in Proc : th[p].pc \in Label(p)

\* The k-th byte put in is k.  The counters count the bytes put in and taken
\* out, and the ring holds those in between.
Stream ==
  /\ sent \in Seq(Nat) /\ taken \in Seq(Nat)
  /\ \A k \in 1..Len(sent) : sent[k] = k
  /\ \A k \in 1..Len(taken) : taken[k] = k
  /\ Len(taken) <= Len(sent) /\ Len(sent) <= Len(taken) + PIPESIZE
  /\ pi.nread = Len(taken) % UintMod /\ pi.nwrite = Len(sent) % UintMod
  /\ \A k \in (Len(taken) + 1)..Len(sent) : pi.data[(k - 1) % PIPESIZE] = k

\* The descriptors a process has of an end, before a pending pipeclose.
Count(p, l, e) ==
  CASE l \in {"pipe", "unborn", "dead", "wait"} \cup Undoing -> 0
    [] l \in {"forkleft", "forkright", "dup"} -> 1
    [] l = "close0" -> IF <<p, e>> \in {<<"left", "w">>, <<"right", "r">>} THEN 2 ELSE 1
    [] l = "close1" -> IF e = "w" THEN (IF p = "left" THEN 2 ELSE 1)
                       ELSE (IF p = "right" THEN 1 ELSE 0)
    [] l \in {"write", "writing"} -> IF e = "w" THEN 1 ELSE 0
    [] OTHER -> IF e = "r" THEN 1 ELSE 0

Closing(p, e) == IF th[p].end = e /\ th[p].pc \notin Undoing THEN 1 ELSE 0

\* The references are the descriptors, and in a failed sys_pipe the files that
\* are still to be closed.
Sums ==
  th["sh"].pc \notin Undoing =>
    \A e \in End : ref[e] = fds["sh"][e] + fds["left"][e] + fds["right"][e]

ToClose ==
  th["sh"].pc \in Undoing =>
    \A e \in End :
      ref[e] = IF th["sh"].end # e /\ (th["sh"].pc = "undo0" \/ e = "w") THEN 1 ELSE 0

Holds(p, e) ==
  IF th[p].pc = "exit" THEN fds[p][e] <= 2
  ELSE fds[p][e] + Closing(p, e) = Count(p, th[p].pc, e)

\* A process between fileclose and pipeclose.
Ends(p, e) ==
  th[p].end = e =>
    /\ ref[e] = 0
    /\ th[p].pc \in {"close0", "close1", "exit"} \cup Undoing
    /\ th[p].pc \in {"close0", "undo0"} => e = "r"
    /\ th[p].pc \in {"close1", "undo1"} => e = "w"

Sole == \A p, q \in Proc : th[p].end # None /\ th[p].end = th[q].end => p = q

Opened(e) == pi.open[e] <=> ref[e] > 0 \/ \E p \in Proc : th[p].end = e

Freed == pi.page <=> pi.open["r"] \/ pi.open["w"]

Unborn ==
  /\ th["sh"].pc \in BeforeLeft => th["left"].pc = "unborn"
  /\ th["sh"].pc \in BeforeRight => th["right"].pc = "unborn"

\* The reference counts, the descriptors and the open ends agree.
Refs ==
  /\ Sums /\ ToClose
  /\ \A p \in Proc, e \in End : Holds(p, e)
  /\ \A p \in Proc, e \in End : Ends(p, e)
  /\ Sole
  /\ \A e \in End : Opened(e)
  /\ Freed
  /\ Unborn

\* Who has the lock, and who may sleep.
Inside ==
  /\ \A p \in Proc : pi.lock = p <=> th[p].pc \in Locked
  /\ \A p \in Proc : th[p].chan # None =>
       \/ p = "left" /\ th[p].chan = "nwrite" /\ th[p].pc = "write"
       \/ p = "right" /\ th[p].chan = "nread" /\ th[p].pc = "read"

\* A sleeper's reason to sleep holds, unless the other process has the lock
\* and will wake it.
Sleepers ==
  /\ ~th["left"].killed
  /\ th["right"].chan = "nread" => pi.open["w"] /\ (pi.lock # "left" => Empty)
  /\ th["left"].chan = "nwrite" => pi.open["r"] /\ (th["right"].pc # "reading" => Full)

\* A read that has found nothing yet found all writers gone.
Ending ==
  /\ th["right"].pc = "reading" /\ th["right"].i = 0 /\ Empty => ~pi.open["w"]
  /\ th["right"].pc = "eof" => Empty /\ ~pi.open["w"]

LEMMA StreamKept ==
  ASSUME Stream, UNCHANGED <<sent, taken>>,
         pi'.data = pi.data, pi'.nread = pi.nread, pi'.nwrite = pi.nwrite
  PROVE  Stream'
  BY DEF Stream

\* Steps inside pipewrite and piperead leave the descriptors alone.
LEMMA RefsKept ==
  ASSUME Types, Refs, UNCHANGED <<ref, fds>>,
         pi'.open = pi.open, pi'.page = pi.page,
         \A q \in Proc : th'[q].end = th[q].end,
         \A q \in Proc :
           \/ th'[q].pc = th[q].pc
           \/ th[q].pc \in {"write", "writing"} /\ th'[q].pc \in {"write", "writing", "exit"}
           \/ th[q].pc \in {"read", "waiting", "reading", "eof"}
              /\ th'[q].pc \in {"read", "waiting", "reading", "eof", "exit"}
  PROVE  Refs'
  <1>1. \A p \in Proc, e \in End : fds[p][e] \in Nat
    BY DEF Types
  <1>2. "sh" \in Proc /\ "left" \in Proc /\ "right" \in Proc /\ "r" \in End /\ "w" \in End
    BY DEF Proc, End
  <1>3. /\ th["left"].pc = "unborn" => th'["left"].pc = "unborn"
        /\ th["right"].pc = "unborn" => th'["right"].pc = "unborn"
        /\ th'["sh"].pc = th["sh"].pc
    BY <1>2 DEF Types, Label, BeforeRight, BeforeLeft, Undoing
  <1>4. ASSUME NEW p \in Proc, NEW e \in End
        PROVE  Holds(p, e)' /\ Ends(p, e)'
    <2>1. Holds(p, e) /\ Ends(p, e)
      BY DEF Refs
    <2>2. Closing(p, e)' = Closing(p, e)
      BY DEF Closing, Undoing
    <2>3. Holds(p, e)'
      <3>1. CASE th'[p].pc = th[p].pc
        BY <2>1, <2>2, <3>1 DEF Holds
      <3>2. CASE th'[p].pc # th[p].pc
        <4>1. /\ th[p].pc # "exit" /\ Count(p, th[p].pc, e) \in {0, 1}
              /\ th'[p].pc # "exit" => Count(p, th'[p].pc, e) = Count(p, th[p].pc, e)
          BY <3>2 DEF Count, Undoing
        <4>2. Closing(p, e) \in {0, 1} /\ fds[p][e] \in Nat /\ fds' = fds
          BY <1>1 DEF Closing
        <4> QED BY <2>1, <2>2, <4>1, <4>2 DEF Holds
      <3> QED BY <3>1, <3>2
    <2>4. Ends(p, e)'
      BY <2>1 DEF Ends, Undoing
    <2> QED BY <2>3, <2>4
  <1>5. Sums' /\ ToClose' /\ Sole'
    BY <1>2, <1>3 DEF Refs, Sums, ToClose, Sole
  <1>6. \A e \in End : Opened(e)'
    BY DEF Refs, Opened
  <1>7. Freed' /\ Unborn'
    BY <1>3 DEF Refs, Freed, Unborn
  <1> QED BY <1>4, <1>5, <1>6, <1>7 DEF Refs

\* Steps outside them leave the lock alone and put nobody to sleep.
LEMMA InsideKept ==
  ASSUME Types, Inside,
         pi'.lock = pi.lock, pi'.nread = pi.nread, pi'.nwrite = pi.nwrite,
         \A q \in Proc : 
           \/ th'[q].pc = th[q].pc
           \/ th[q].pc \notin Using /\ th'[q].pc \notin Locked \cup {"eof"},
         \A q \in Proc : th'[q].chan = th[q].chan \/ th'[q].chan = None,
         \A q \in Proc : th'[q].killed = th[q].killed /\ th'[q].i = th[q].i,
         pi'.open["w"] => pi.open["w"] \/ th["right"].pc = "unborn",
         th'["right"].chan = "nread" => pi.open["w"] = pi'.open["w"],
         th'["left"].chan = "nwrite" => pi.open["r"] = pi'.open["r"]
  PROVE  Inside' /\ (Sleepers => Sleepers') /\ (Ending => Ending')
  <1>1. "sh" \in Proc /\ "left" \in Proc /\ "right" \in Proc
    BY DEF Proc
  <1>2. Inside'
    BY DEF Inside, Using, Locked
  <1>3. Empty' = Empty /\ Full' = Full
    BY DEF Empty, Full
  <1>4. th'["right"].pc = "reading" => th["right"].pc = "reading"
    BY <1>1 DEF Using, Locked
  <1>5. th'["right"].pc = "eof" => th["right"].pc = "eof"
    BY <1>1 DEF Using, Locked
  <1>6. th["right"].pc = "reading" => th'["right"].pc = "reading"
    BY <1>1 DEF Using, Locked
  <1>7. ASSUME Sleepers PROVE Sleepers'
    BY <1>1, <1>3, <1>4, <1>6, <1>7 DEF Sleepers, None
  <1>8. ASSUME Ending PROVE Ending'
    BY <1>1, <1>3, <1>4, <1>5, <1>8 DEF Ending
  <1> QED BY <1>2, <1>7, <1>8

PipeInv == Types /\ Stream /\ Refs /\ Inside

\* Reads are of some length, and their bytes can be copied out.
Copied == Chunk \in Nat \ {0} /\ CopyFails = FALSE

\* What every step has to show.  That sleepers are informed needs a writer that
\* is not killed; that the end of the file is the end, reads that are Copied.
Good ==
  /\ PipeInv'
  /\ "left" \notin Killable /\ Sleepers => Sleepers'
  /\ Copied /\ Ending => Ending'

LEMMA Names ==
  /\ Proc = {"sh", "left", "right"} /\ End = {"r", "w"} /\ None = "none"
  /\ "sh" \in Proc /\ "left" \in Proc /\ "right" \in Proc /\ "r" \in End /\ "w" \in End
  BY DEF Proc, End, None

LEMMA Members ==
  "sh" \in Proc /\ "left" \in Proc /\ "right" \in Proc /\ "r" \in End /\ "w" \in End
  BY DEF Proc, End

LEMMA LabelIsAny ==
  ASSUME NEW p \in Proc, NEW l \in Label(p)
  PROVE  l \in AnyLabel
  BY DEF Proc, AnyLabel

\* Goto moves one process and changes nothing else.
Go(p, l) == th' = [th EXCEPT ![p].pc = l]

LEMMA Went ==
  ASSUME Types, NEW p \in Proc, NEW l \in Label(p), Go(p, l)
  PROVE  /\ th' \in [Proc -> Thread]
         /\ \A q \in Proc : th'[q].pc = IF q = p THEN l ELSE th[q].pc
         /\ \A q \in Proc : /\ th'[q].i = th[q].i /\ th'[q].chan = th[q].chan
                           /\ th'[q].killed = th[q].killed /\ th'[q].end = th[q].end
         /\ \A q \in Proc : th'[q].pc \in Label(q)
  <1>1. l \in AnyLabel
    BY LabelIsAny
  <1>2. th \in [Proc -> Thread] /\ \A q \in Proc : th[q].pc \in Label(q)
    BY DEF Types
  <1>3. /\ th' \in [Proc -> Thread]
        /\ \A q \in Proc : th'[q].pc = IF q = p THEN l ELSE th[q].pc
        /\ \A q \in Proc : /\ th'[q].i = th[q].i /\ th'[q].chan = th[q].chan
                          /\ th'[q].killed = th[q].killed /\ th'[q].end = th[q].end
    BY <1>1, <1>2 DEF Thread, Go
  <1> QED BY <1>2, <1>3

LEMMA OutsideStep ==
  ASSUME PipeInv, Types', Refs', UNCHANGED <<sent, taken>>,
         pi'.data = pi.data, pi'.nread = pi.nread, pi'.nwrite = pi.nwrite, pi'.lock = pi.lock,
         \A q \in Proc :
           \/ th'[q].pc = th[q].pc
           \/ th[q].pc \notin Using /\ th'[q].pc \notin Locked \cup {"eof"},
         \A q \in Proc : th'[q].chan = th[q].chan \/ th'[q].chan = None,
         \A q \in Proc : th'[q].killed = th[q].killed /\ th'[q].i = th[q].i,
         pi'.open["w"] => pi.open["w"] \/ th["right"].pc = "unborn",
         th'["right"].chan = "nread" => pi.open["w"] = pi'.open["w"],
         th'["left"].chan = "nwrite" => pi.open["r"] = pi'.open["r"]
  PROVE  Good
  <1>1. Inside' /\ (Sleepers => Sleepers') /\ (Ending => Ending')
    BY InsideKept DEF PipeInv
  <1>2. Stream'
    BY StreamKept DEF PipeInv
  <1> QED BY <1>1, <1>2 DEF Good, PipeInv

-----------------------------------------------------------------------------
(* The steps of pipewrite and piperead. *)

LEMMA AcquireStep ==
  ASSUME PipeInv, NEW p \in Proc, Acquire(p)
  PROVE  Good
  <1>1. /\ UNCHANGED <<ref, fds, sent, taken>>
        /\ th[p].pc \in {"write", "read"} /\ th[p].chan = None /\ pi.lock = None
    BY DEF Acquire, Awake
  <1>2. Types
    BY DEF PipeInv
  <1> DEFINE l == IF th[p].pc = "write" THEN "writing" ELSE "waiting"
  <1>3. pi' = [pi EXCEPT !.lock = p] /\ Go(p, l)
    BY DEF Acquire, Goto, Go
  <1>4. l \in Label(p)
    BY <1>1, <1>2 DEF Types, Label, BeforeRight, BeforeLeft, Undoing
  <1> HIDE DEF l
  <1>5. Types'
    <2>1. th' \in [Proc -> Thread] /\ \A q \in Proc : th'[q].pc \in Label(q)
      BY <1>2, <1>3, <1>4, Went
    <2>2. pi' \in PipeRecord
      BY <1>2, <1>3, ZenonT(30) DEF Types, PipeRecord
    <2> QED BY <1>1, <1>2, <2>1, <2>2 DEF Types
  <1>6. /\ \A q \in Proc : th'[q].end = th[q].end /\ th'[q].chan = th[q].chan
                           /\ th'[q].killed = th[q].killed /\ th'[q].i = th[q].i
        /\ \A q \in Proc : th'[q].pc = IF q = p THEN l ELSE th[q].pc
        /\ pi'.open = pi.open /\ pi'.page = pi.page /\ pi'.data = pi.data
        /\ pi'.nread = pi.nread /\ pi'.nwrite = pi.nwrite /\ pi'.lock = p
    <2>1. /\ pi'.open = pi.open /\ pi'.page = pi.page /\ pi'.data = pi.data
          /\ pi'.nread = pi.nread /\ pi'.nwrite = pi.nwrite /\ pi'.lock = p
      BY <1>2, <1>3 DEF Types, PipeRecord
    <2> QED BY <1>2, <1>3, <1>4, <2>1, Went
  <1>7. Refs'
    BY <1>1, <1>2, <1>6, RefsKept DEF PipeInv, l
  <1>8. Stream'
    BY <1>1, <1>6, StreamKept DEF PipeInv
  <1>9. Inside'
    BY <1>1, <1>2, <1>6, Names DEF PipeInv, Inside, Locked, l
  <1>10. Empty' = Empty /\ Full' = Full
    BY <1>6 DEF Empty, Full
  <1>11. (p = "left" /\ l = "writing") \/ (p = "right" /\ l = "waiting")
    BY <1>1, <1>2, Names DEF Types, Label, BeforeRight, BeforeLeft, Undoing, l
  <1>12. ASSUME Sleepers PROVE Sleepers'
    BY <1>1, <1>6, <1>10, <1>11, <1>12, Names DEF Sleepers
  <1>13. ASSUME Ending PROVE Ending'
    BY <1>1, <1>6, <1>10, <1>11, <1>13, Names DEF Ending
  <1> QED BY <1>5, <1>7, <1>8, <1>9, <1>12, <1>13 DEF Good, PipeInv

\* The reader is not asleep on a pipe whose read end is closed.
LEMMA ReaderHasEnd ==
  ASSUME PipeInv, th["right"].pc \in {"read", "waiting", "reading", "eof"}
  PROVE  pi.open["r"]
  <1> USE Names
  <1>1. fds["right"]["r"] \in Nat /\ fds["left"]["r"] \in Nat /\ fds["sh"]["r"] \in Nat
    BY DEF PipeInv, Types
  <1>2. th["right"].end # "r" /\ th["sh"].pc \notin Undoing
    BY DEF PipeInv, Refs, Ends, Unborn, BeforeRight, BeforeLeft, Undoing
  <1>3. fds["right"]["r"] = 1
    <2>1. Count("right", th["right"].pc, "r") = 1 /\ th["right"].pc # "exit"
      BY DEF Count, Undoing
    <2>2. Closing("right", "r") = 0
      BY <1>2 DEF Closing
    <2> QED BY <1>1, <2>1, <2>2 DEF PipeInv, Refs, Holds
  <1>4. ref["r"] > 0
    BY <1>1, <1>2, <1>3 DEF PipeInv, Refs, Sums
  <1> QED BY <1>4 DEF PipeInv, Refs, Opened

LEMMA WriterHasEnd ==
  ASSUME PipeInv, th["left"].pc \in {"write", "writing"}
  PROVE  pi.open["w"]
  <1> USE Names
  <1>1. fds["right"]["w"] \in Nat /\ fds["left"]["w"] \in Nat /\ fds["sh"]["w"] \in Nat
    BY DEF PipeInv, Types
  <1>2. th["left"].end # "w" /\ th["sh"].pc \notin Undoing
    BY DEF PipeInv, Refs, Ends, Unborn, BeforeRight, BeforeLeft, Undoing
  <1>3. fds["left"]["w"] = 1
    <2>1. Count("left", th["left"].pc, "w") = 1 /\ th["left"].pc # "exit"
      BY DEF Count, Undoing
    <2>2. Closing("left", "w") = 0
      BY <1>2 DEF Closing
    <2> QED BY <1>1, <2>1, <2>2 DEF PipeInv, Refs, Holds
  <1>4. ref["w"] > 0
    BY <1>1, <1>2, <1>3 DEF PipeInv, Refs, Sums
  <1> QED BY <1>4 DEF PipeInv, Refs, Opened

Released == pi' = [pi EXCEPT !.lock = None]

LEMMA ReleasedFields ==
  ASSUME Types, Released
  PROVE  /\ pi' \in PipeRecord
         /\ pi'.open = pi.open /\ pi'.page = pi.page /\ pi'.data = pi.data
         /\ pi'.nread = pi.nread /\ pi'.nwrite = pi.nwrite /\ pi'.lock = None
  BY ZenonT(30) DEF Released, Types, PipeRecord

\* A step of the writer that gives up the lock: to sleep, or to return.
LEMMA WriterLeaves ==
  ASSUME PipeInv, th["left"].pc = "writing", UNCHANGED <<ref, fds, sent, taken>>, Released,
         th' \in [Proc -> Thread],
         \A q \in Proc : th'[q].end = th[q].end /\ th'[q].killed = th[q].killed,
         th'["sh"].pc = th["sh"].pc, th'["right"].pc = th["right"].pc, th'["right"].i = th["right"].i,
         th'["sh"].chan = None, th'["right"].chan \in {None, th["right"].chan},
         th'["left"].pc \in {"write", "exit"},
         \/ th'["left"].chan = None
         \/ th'["left"].chan = "nwrite" /\ th'["left"].pc = "write" /\ Full /\ pi.open["r"],
         th'["right"].chan = None \/ ~pi.open["r"] \/ th["left"].killed
  PROVE  Good
  <1> USE Names
  <1>1. Types
    BY DEF PipeInv
  <1>2. pi.lock = "left" /\ th["right"].pc \notin Locked /\ th["sh"].pc \notin Locked
    BY DEF PipeInv, Inside, Locked
  <1>4. /\ pi' \in PipeRecord
        /\ pi'.open = pi.open /\ pi'.page = pi.page /\ pi'.data = pi.data
        /\ pi'.nread = pi.nread /\ pi'.nwrite = pi.nwrite /\ pi'.lock = None
    BY <1>1, ReleasedFields
  <1>3. Types'
    BY <1>1, <1>4 DEF Types, Label
  <1>5. Refs'
    <2>1. \A q \in Proc : th'[q].end = th[q].end
      OBVIOUS
    <2>2. \A q \in Proc :
           \/ th'[q].pc = th[q].pc
           \/ th[q].pc \in {"write", "writing"} /\ th'[q].pc \in {"write", "writing", "exit"}
      OBVIOUS
    <2> QED BY <1>1, <1>4, <2>1, <2>2, RefsKept DEF PipeInv
  <1>6. Stream'
    BY <1>4, StreamKept DEF PipeInv
  <1>7. Inside'
    BY <1>1, <1>2, <1>4 DEF PipeInv, Inside, Locked
  <1>8. Empty' = Empty /\ Full' = Full
    BY <1>4 DEF Empty, Full
  <1>9. ASSUME Sleepers PROVE Sleepers'
    <2>1. th'["right"].chan = None
      <3>1. ~th["left"].killed
        BY <1>9 DEF Sleepers
      <3>2. CASE th["right"].chan = None
        BY <3>2
      <3>3. CASE th["right"].chan # None
        <4>1. th["right"].pc = "read"
          BY <3>3 DEF PipeInv, Inside
        <4>2. pi.open["r"]
          BY <4>1, ReaderHasEnd
        <4> QED BY <3>1, <4>2
      <3> QED BY <3>2, <3>3
    <2> QED BY <1>4, <1>8, <1>9, <2>1 DEF Sleepers
  <1>10. ASSUME Ending PROVE Ending'
    BY <1>2, <1>4, <1>8, <1>10 DEF Ending, Locked
  <1> QED BY <1>3, <1>5, <1>6, <1>7, <1>9, <1>10 DEF Good, PipeInv

LEMMA Wakened ==
  ASSUME NEW t \in [Proc -> Thread], NEW c
  PROVE  /\ Wakeup(t, c) \in [Proc -> Thread]
         /\ \A q \in Proc : /\ Wakeup(t, c)[q].pc = t[q].pc /\ Wakeup(t, c)[q].i = t[q].i
                            /\ Wakeup(t, c)[q].killed = t[q].killed
                            /\ Wakeup(t, c)[q].end = t[q].end
         /\ \A q \in Proc : Wakeup(t, c)[q].chan = IF t[q].chan = c THEN None ELSE t[q].chan
  BY DEF Wakeup, Thread

\* At most the other process sleeps while one has the lock.
LEMMA Awakes ==
  ASSUME PipeInv
  PROVE  /\ th \in [Proc -> Thread]
         /\ th["sh"].chan = None
         /\ th["left"].pc = "writing" => th["left"].chan = None
         /\ th["right"].pc \in {"waiting", "reading", "eof"} => th["right"].chan = None
         /\ th["left"].chan \in {None, "nwrite"} /\ th["right"].chan \in {None, "nread"}
  BY Names DEF PipeInv, Types, Inside

LEMMA Labels ==
  {"write", "writing", "read", "waiting", "reading", "eof", "exit"} \subseteq AnyLabel
  BY DEF AnyLabel, Label

LEMMA WriteStopStep ==
  ASSUME PipeInv, WriteStop
  PROVE  Good
  <1>1. /\ th["left"].pc = "writing" /\ (~pi.open["r"] \/ th["left"].killed)
        /\ UNCHANGED <<ref, fds, sent, taken>> /\ Released
        /\ th' = [th EXCEPT !["left"].pc = "exit", !["left"].i = 0]
    BY DEF WriteStop, Return, Returned, At, Released
  <1>2. th \in [Proc -> Thread] /\ th["sh"].chan = None /\ th["left"].chan = None
    BY <1>1, Awakes
  <1>4. /\ th' \in [Proc -> Thread]
        /\ \A q \in Proc : /\ th'[q].chan = th[q].chan
                           /\ th'[q].killed = th[q].killed /\ th'[q].end = th[q].end
        /\ \A q \in Proc : q # "left" => th'[q] = th[q]
        /\ th'["left"].pc = "exit"
    BY <1>1, <1>2, Members, Labels, ZenonT(30) DEF Thread
  <1> QED BY <1>1, <1>2, <1>4, WriterLeaves, Members

LEMMA WriteFullStep ==
  ASSUME PipeInv, WriteFull
  PROVE  Good
  <1> DEFINE w == Wakeup(th, "nread")
  <1>1. /\ th["left"].pc = "writing" /\ pi.open["r"] /\ Full
        /\ UNCHANGED <<ref, fds, sent, taken>> /\ Released
        /\ th' = [w EXCEPT !["left"].pc = "write", !["left"].chan = "nwrite"]
    BY DEF WriteFull, At, Released
  <1>2. /\ th \in [Proc -> Thread] /\ th["sh"].chan = None /\ th["left"].chan = None
        /\ th["right"].chan \in {None, "nread"}
    BY <1>1, Awakes
  <1>3. /\ w \in [Proc -> Thread]
        /\ \A q \in Proc : /\ w[q].pc = th[q].pc /\ w[q].i = th[q].i
                           /\ w[q].killed = th[q].killed /\ w[q].end = th[q].end
        /\ \A q \in Proc : w[q].chan = IF th[q].chan = "nread" THEN None ELSE th[q].chan
    BY <1>2, Wakened
  <1> HIDE DEF w
  <1>5. /\ th' \in [Proc -> Thread]
        /\ \A q \in Proc : /\ th'[q].i = w[q].i
                           /\ th'[q].killed = w[q].killed /\ th'[q].end = w[q].end
        /\ \A q \in Proc : q # "left" => th'[q] = w[q]
        /\ th'["left"].pc = "write" /\ th'["left"].chan = "nwrite"
    <2> DEFINE r == [w["left"] EXCEPT !.pc = "write", !.chan = "nwrite"]
    <2>1. w["left"] \in Thread /\ "write" \in AnyLabel
      BY <1>3, Members, Labels
    <2>2. /\ r \in Thread /\ r.pc = "write" /\ r.chan = "nwrite" /\ r.i = w["left"].i
          /\ r.killed = w["left"].killed /\ r.end = w["left"].end
      BY <2>1, ZenonT(30) DEF Thread
    <2>3. th' = [w EXCEPT !["left"] = r]
      BY <1>1, <1>3, Members, ZenonT(30)
    <2> HIDE DEF r
    <2> QED BY <1>3, <2>2, <2>3, Members
  <1>6. th'["right"].chan = None /\ th'["sh"].chan = None
    BY <1>2, <1>3, <1>5, Names
  <1> QED BY <1>1, <1>3, <1>5, <1>6, WriterLeaves, Members

\* A return of the writer that wakes the reader.
LEMMA WriterReturns ==
  ASSUME PipeInv, th["left"].pc = "writing", UNCHANGED <<ref, fds, sent, taken>>,
         NEW l \in {"write", "exit"}, Return(Wakeup(th, "nread"), "left", l)
  PROVE  Good
  <1> DEFINE w == Wakeup(th, "nread")
             m == IF th["left"].killed THEN "exit" ELSE l
  <1>1. Released /\ th' = [w EXCEPT !["left"].pc = m, !["left"].i = 0]
    BY DEF Return, Returned, Released
  <1>2. /\ th \in [Proc -> Thread] /\ th["sh"].chan = None /\ th["left"].chan = None
        /\ th["right"].chan \in {None, "nread"}
    BY Awakes
  <1>3. /\ w \in [Proc -> Thread]
        /\ \A q \in Proc : /\ w[q].pc = th[q].pc /\ w[q].i = th[q].i
                           /\ w[q].killed = th[q].killed /\ w[q].end = th[q].end
        /\ \A q \in Proc : w[q].chan = IF th[q].chan = "nread" THEN None ELSE th[q].chan
    BY <1>2, Wakened
  <1>5. m \in {"write", "exit"} /\ m \in AnyLabel
    BY Labels
  <1> HIDE DEF w, m
  <1>6. /\ th' \in [Proc -> Thread]
        /\ \A q \in Proc : /\ th'[q].chan = w[q].chan
                           /\ th'[q].killed = w[q].killed /\ th'[q].end = w[q].end
        /\ \A q \in Proc : q # "left" => th'[q] = w[q]
        /\ th'["left"].pc = m
    <2> DEFINE r == [w["left"] EXCEPT !.pc = m, !.i = 0]
    <2>1. w["left"] \in Thread
      BY <1>3, Members
    <2>2. /\ r \in Thread /\ r.pc = m /\ r.chan = w["left"].chan
          /\ r.killed = w["left"].killed /\ r.end = w["left"].end
      BY <1>5, <2>1, ZenonT(30) DEF Thread
    <2>3. th' = [w EXCEPT !["left"] = r]
      BY <1>1, <1>3, Members, ZenonT(30)
    <2> HIDE DEF r
    <2> QED BY <1>3, <2>2, <2>3, Members
  <1>7. th'["right"].chan = None /\ th'["sh"].chan = None /\ th'["left"].chan = None
    BY <1>2, <1>3, <1>6, Names
  <1> QED BY <1>1, <1>3, <1>5, <1>6, <1>7, WriterLeaves, Members

LEMMA WriteDoneStep ==
  ASSUME PipeInv, WriteDone
  PROVE  Good
  <1>1. PICK l \in {"write", "exit"} : l = IF Len(sent) = Total THEN "exit" ELSE "write"
    OBVIOUS
  <1> QED BY <1>1, WriterReturns DEF WriteDone, At

\* The byte goes to a free cell of the ring.
LEMMA StreamWrite ==
  ASSUME Sized, Types, Stream, ~Full,
         pi' = [pi EXCEPT !.data[pi.nwrite % PIPESIZE] = Len(sent) + 1,
                          !.nwrite = (pi.nwrite + 1) % UintMod],
         sent' = Append(sent, Len(sent) + 1), taken' = taken
  PROVE  /\ Stream' /\ pi' \in PipeRecord
         /\ pi'.open = pi.open /\ pi'.page = pi.page /\ pi'.lock = pi.lock
  <1> DEFINE S == Len(sent)
             T == Len(taken)
             c == pi.nwrite % PIPESIZE
  <1>1. S \in Nat /\ T \in Nat /\ T <= S /\ S <= T + PIPESIZE
    BY DEF Stream
  <1>2. /\ sent \in Seq(Nat) /\ taken \in Seq(Nat)
        /\ \A k \in 1..S : sent[k] = k
        /\ \A k \in 1..T : taken[k] = k
        /\ pi.nread = T % UintMod /\ pi.nwrite = S % UintMod
        /\ \A k \in (T + 1)..S : pi.data[(k - 1) % PIPESIZE] = k
    BY DEF Stream
  <1>3. pi \in PipeRecord
    BY DEF Types
  <1>4. /\ sent' \in Seq(Nat) /\ Len(sent') = S + 1
        /\ \A k \in 1..(S + 1) : sent'[k] = k
    BY <1>1, <1>2
  <1> HIDE DEF S, T
  <1>5. PIPESIZE \in Nat \ {0} /\ UintMod \in Nat \ {0} /\ PIPESIZE \in Int
    BY DEF Sized
  <1>6. S < T + PIPESIZE
    <2>1. Full <=> S = T + PIPESIZE
      BY <1>1, <1>2, Distance DEF Full
    <2> QED BY <1>1, <1>5, <2>1
  <1>7. c = S % PIPESIZE /\ c \in 0..(PIPESIZE - 1)
    <2>1. S \in Int /\ 0 \in Int
      BY <1>1
    <2>2. ((S % UintMod) + 0) % PIPESIZE = (S + 0) % PIPESIZE /\ S % PIPESIZE \in 0..(PIPESIZE - 1)
          /\ S % UintMod \in 0..(UintMod - 1)
      BY <2>1, Counter, Zenon
    <2>3. (S % UintMod) + 0 = S % UintMod /\ S + 0 = S
      BY <1>1, <1>5, <2>2
    <2> QED BY <1>2, <2>2, <2>3
  <1>8. (pi.nwrite + 1) % UintMod = (S + 1) % UintMod /\ (S + 1) % UintMod \in 0..(UintMod - 1)
    <2>1. S \in Int /\ 1 \in Int /\ S + 1 \in Int
      BY <1>1
    <2>2. ((S % UintMod) + 1) % UintMod = (S + 1) % UintMod
      BY <2>1, Counter, Zenon
    <2>3. (S + 1) % UintMod \in 0..(UintMod - 1)
      BY <1>5, <2>1, DivMod
    <2> QED BY <1>2, <2>2, <2>3
  <1> HIDE DEF c
  <1>9. /\ pi' \in PipeRecord
        /\ pi'.open = pi.open /\ pi'.page = pi.page /\ pi'.lock = pi.lock
        /\ pi'.nread = pi.nread /\ pi'.nwrite = (S + 1) % UintMod
        /\ \A x \in 0..(PIPESIZE - 1) : pi'.data[x] = IF x = c THEN S + 1 ELSE pi.data[x]
    <2>1. pi' = [pi EXCEPT !.data[c] = S + 1, !.nwrite = (S + 1) % UintMod]
      BY <1>8, ZenonT(30) DEF c, S
    <2>2. S + 1 \in Nat
      BY <1>1
    <2>3. pi.data \in [0..(PIPESIZE - 1) -> Nat]
      BY <1>3 DEF PipeRecord
    <2>4. /\ pi'.open = pi.open /\ pi'.page = pi.page /\ pi'.lock = pi.lock
          /\ pi'.nread = pi.nread /\ pi'.nwrite = (S + 1) % UintMod
          /\ pi'.data = [pi.data EXCEPT ![c] = S + 1]
      BY <1>3, <2>1, ZenonT(30) DEF PipeRecord
    <2>5. [pi.data EXCEPT ![c] = S + 1] \in [0..(PIPESIZE - 1) -> Nat]
      BY <2>2, <2>3, ZenonT(30)
    <2>6. pi' \in PipeRecord
      BY <1>3, <1>8, <2>1, <2>5, ZenonT(30) DEF PipeRecord
    <2>7. \A x \in 0..(PIPESIZE - 1) : [pi.data EXCEPT ![c] = S + 1][x] = IF x = c THEN S + 1 ELSE pi.data[x]
      BY <1>7, <2>3, ZenonT(30)
    <2> QED BY <2>4, <2>6, <2>7
  <1>10. ASSUME NEW k \in (T + 1)..(S + 1)
         PROVE  pi'.data[(k - 1) % PIPESIZE] = k
    <2>1. k \in Int /\ k - 1 \in Int /\ T <= k - 1 /\ k - 1 <= S
      BY <1>1
    <2>2. (k - 1) % PIPESIZE \in 0..(PIPESIZE - 1)
      BY <1>5, <2>1, DivMod
    <2>3. CASE k = S + 1
      <3>1. k - 1 = S
        BY <1>1, <2>3
      <3> QED BY <1>7, <1>9, <2>2, <2>3, <3>1
    <2>4. CASE k # S + 1
      <3>1. k - 1 < S /\ S - (k - 1) < PIPESIZE /\ S \in Int /\ k \in (T + 1)..S
        BY <1>1, <1>5, <1>6, <2>1, <2>4
      <3>2. (k - 1) % PIPESIZE # S % PIPESIZE
        BY <1>5, <2>1, <3>1, Apart
      <3> QED BY <1>2, <1>7, <1>9, <2>2, <3>1, <3>2
    <2> QED BY <2>3, <2>4
  <1>11. Stream'
    <2>1. Len(sent') = S + 1 /\ Len(taken') = T
      BY <1>4 DEF T
    <2>2. T <= S + 1 /\ S + 1 <= T + PIPESIZE
      BY <1>1, <1>5, <1>6
    <2> QED BY <1>2, <1>4, <1>9, <1>10, <2>1, <2>2 DEF Stream
  <1> QED BY <1>9, <1>11

\* The byte that is taken is the oldest.
LEMMA StreamRead ==
  ASSUME Sized, Types, Stream, ~Empty,
         pi'.data = pi.data, pi'.nwrite = pi.nwrite,
         pi'.nread = (pi.nread + 1) % UintMod,
         taken' = Append(taken, pi.data[pi.nread % PIPESIZE]), sent' = sent
  PROVE  Stream' /\ pi'.nread \in 0..(UintMod - 1)
  <1> DEFINE S == Len(sent)
             T == Len(taken)
  <1>1. S \in Nat /\ T \in Nat /\ T <= S /\ S <= T + PIPESIZE
    BY DEF Stream
  <1>2. /\ sent \in Seq(Nat) /\ taken \in Seq(Nat)
        /\ \A k \in 1..S : sent[k] = k
        /\ \A k \in 1..T : taken[k] = k
        /\ pi.nread = T % UintMod /\ pi.nwrite = S % UintMod
        /\ \A k \in (T + 1)..S : pi.data[(k - 1) % PIPESIZE] = k
    BY DEF Stream
  <1> HIDE DEF S, T
  <1>3. PIPESIZE \in Nat \ {0} /\ UintMod \in Nat \ {0}
    BY DEF Sized
  <1>4. T < S
    <2>1. T % UintMod = S % UintMod <=> S = T
      BY <1>1, Distance
    <2> QED BY <1>1, <1>2, <2>1 DEF Empty
  <1>5. pi.nread % PIPESIZE = T % PIPESIZE
    <2>1. T \in Int /\ 0 \in Int
      BY <1>1
    <2>2. ((T % UintMod) + 0) % PIPESIZE = (T + 0) % PIPESIZE /\ T % UintMod \in 0..(UintMod - 1)
      BY <2>1, Counter, Zenon
    <2>3. (T % UintMod) + 0 = T % UintMod /\ T + 0 = T
      BY <1>1, <1>3, <2>2
    <2> QED BY <1>2, <2>2, <2>3
  <1>6. pi'.nread = (T + 1) % UintMod /\ pi'.nread \in 0..(UintMod - 1)
    <2>1. T \in Int /\ 1 \in Int /\ T + 1 \in Int
      BY <1>1
    <2>2. ((T % UintMod) + 1) % UintMod = (T + 1) % UintMod
      BY <2>1, Counter, Zenon
    <2>3. (T + 1) % UintMod \in 0..(UintMod - 1)
      BY <1>3, <2>1, DivMod, ZenonT(30)
    <2> QED BY <1>2, <2>2, <2>3
  <1>7. pi.data[pi.nread % PIPESIZE] = T + 1
    <2>1. T + 1 \in (T + 1)..S /\ (T + 1) - 1 = T
      BY <1>1, <1>4
    <2>2. pi.data[((T + 1) - 1) % PIPESIZE] = T + 1
      BY <1>2, <2>1
    <2> QED BY <1>5, <2>1, <2>2
  <1>8. /\ taken' \in Seq(Nat) /\ Len(taken') = T + 1
        /\ \A k \in 1..(T + 1) : taken'[k] = k
    <2>1. taken' = Append(taken, T + 1) /\ T + 1 \in Nat
      BY <1>1, <1>7
    <2> QED BY <1>1, <1>2, <2>1 DEF T
  <1>9. Stream'
    <2>1. Len(sent') = S
      BY DEF S
    <2>2. T + 1 <= S /\ S <= T + 1 + PIPESIZE /\ (T + 1 + 1)..S \subseteq (T + 1)..S
      BY <1>1, <1>3, <1>4
    <2> QED BY <1>2, <1>6, <1>8, <2>1, <2>2 DEF Stream
  <1> QED BY <1>6, <1>9

LEMMA WriteByteStep ==
  ASSUME Sized, PipeInv, WriteByte
  PROVE  Good
  <1>1. /\ th["left"].pc = "writing" /\ ~Full /\ UNCHANGED <<ref, fds, taken>>
    BY DEF WriteByte, At
  <1>2. CASE Return(Wakeup(th, "nread"), "left", "exit") /\ UNCHANGED sent
    <2>1. "exit" \in {"write", "exit"}
      OBVIOUS
    <2> QED BY <1>1, <1>2, <2>1, WriterReturns
  <1>3. CASE /\ pi' = [pi EXCEPT !.data[pi.nwrite % PIPESIZE] = Len(sent) + 1,
                                 !.nwrite = (pi.nwrite + 1) % UintMod]
             /\ sent' = Append(sent, Len(sent) + 1)
             /\ th' = [th EXCEPT !["left"].i = th["left"].i + 1]
    <2>1. Types /\ th \in [Proc -> Thread]
      BY DEF PipeInv, Types
    <2>2. /\ Stream' /\ pi' \in PipeRecord
          /\ pi'.open = pi.open /\ pi'.page = pi.page /\ pi'.lock = pi.lock
      BY <1>1, <1>3, <2>1, StreamWrite DEF PipeInv
    <2>3. /\ th' \in [Proc -> Thread]
          /\ \A q \in Proc : /\ th'[q].pc = th[q].pc /\ th'[q].chan = th[q].chan
                             /\ th'[q].killed = th[q].killed /\ th'[q].end = th[q].end
          /\ th'["right"] = th["right"]
      <3> DEFINE r == [th["left"] EXCEPT !.i = th["left"].i + 1]
      <3>1. th["left"] \in Thread
        BY <2>1, Members
      <3>2. /\ r \in Thread /\ r.pc = th["left"].pc /\ r.chan = th["left"].chan
            /\ r.killed = th["left"].killed /\ r.end = th["left"].end
        BY <3>1 DEF Thread
      <3>3. th' = [th EXCEPT !["left"] = r]
        BY <1>3, <2>1, Members
      <3> HIDE DEF r
      <3> QED BY <2>1, <3>2, <3>3, Members
    <2>4. Types'
      BY <1>1, <2>1, <2>2, <2>3 DEF Types
    <2>5. Refs'
      BY <1>1, <2>1, <2>2, <2>3, RefsKept DEF PipeInv
    <2>6. Inside'
      BY <2>2, <2>3 DEF PipeInv, Inside
    <2>7. pi.lock = "left" /\ th["left"].chan = None /\ th["right"].pc \notin Locked
      BY <1>1, Names DEF PipeInv, Inside, Locked
    <2>8. ASSUME Sleepers PROVE Sleepers'
      BY <2>2, <2>3, <2>7, <2>8, Names DEF Sleepers
    <2>9. ASSUME Ending PROVE Ending'
      <3>1. pi.open["w"]
        BY <1>1, WriterHasEnd
      <3> QED BY <2>2, <2>3, <2>7, <2>9, <3>1 DEF Ending, Locked
    <2> QED BY <2>2, <2>4, <2>5, <2>6, <2>8, <2>9 DEF Good, PipeInv
  <1> QED BY <1>2, <1>3 DEF WriteByte

\* A step of the reader that gives up the lock.
LEMMA ReaderLeaves ==
  ASSUME PipeInv, th["right"].pc \in {"waiting", "reading"}, UNCHANGED <<ref, fds>>,
         pi' \in PipeRecord, pi'.open = pi.open, pi'.page = pi.page, pi'.lock = None, Stream',
         th' \in [Proc -> Thread],
         \A q \in Proc : th'[q].end = th[q].end /\ th'[q].killed = th[q].killed,
         th'["sh"].pc = th["sh"].pc, th'["left"].pc = th["left"].pc,
         th'["sh"].chan = None, th'["left"].chan \in {None, th["left"].chan},
         th'["right"].pc \in {"read", "exit", "eof"},
         \/ th'["right"].chan = None
         \/ th'["right"].chan = "nread" /\ th'["right"].pc = "read" /\ Empty' /\ pi.open["w"],
         \/ th'["left"].chan = None
         \/ th["right"].pc = "waiting" /\ pi'.nread = pi.nread /\ pi'.nwrite = pi.nwrite,
         Copied /\ Ending /\ th'["right"].pc = "eof" => Empty' /\ ~pi.open["w"]
  PROVE  Good
  <1>1. Types
    BY DEF PipeInv
  <1>2. pi.lock = "right" /\ th["left"].pc \notin Locked /\ th["sh"].pc \notin Locked
    BY Names DEF PipeInv, Inside, Locked
  <1>3. Types'
    BY <1>1, Names DEF Types, Label
  <1>4. Refs'
    <2>1. \A q \in Proc :
           \/ th'[q].pc = th[q].pc
           \/ th[q].pc \in {"read", "waiting", "reading", "eof"}
              /\ th'[q].pc \in {"read", "waiting", "reading", "eof", "exit"}
      BY Names
    <2> QED BY <1>1, <2>1, RefsKept DEF PipeInv
  <1>5. Inside'
    BY <1>1, <1>2, Names DEF PipeInv, Inside, Locked
  <1>6. ASSUME Sleepers PROVE Sleepers'
    <2>1. th'["left"].chan = "nwrite" => Full' /\ th["left"].chan = "nwrite"
      BY <1>6, Names DEF Sleepers, Full
    <2> QED BY <1>6, <2>1, Names DEF Sleepers
  <1>7. ASSUME Copied, Ending PROVE Ending'
    BY <1>7 DEF Ending
  <1> QED BY <1>3, <1>4, <1>5, <1>6, <1>7 DEF Good, PipeInv

LEMMA ReadWaitStep ==
  ASSUME PipeInv, ReadWait
  PROVE  Good
  <1>1. th["right"].pc = "waiting" /\ Empty /\ pi.open["w"] /\ UNCHANGED <<ref, fds, sent, taken>>
    BY DEF ReadWait, At, MayWait
  <1>2. Types /\ th \in [Proc -> Thread] /\ th["sh"].chan = None /\ th["right"].chan = None
    BY <1>1, Awakes DEF PipeInv
  <1>3. Released
    BY DEF ReadWait, Return, Released
  <1>4. /\ pi' \in PipeRecord
        /\ pi'.open = pi.open /\ pi'.page = pi.page /\ pi'.data = pi.data
        /\ pi'.nread = pi.nread /\ pi'.nwrite = pi.nwrite /\ pi'.lock = None
    BY <1>2, <1>3, ReleasedFields
  <1>5. Stream' /\ Empty'
    BY <1>1, <1>4, StreamKept DEF PipeInv, Empty
  <1>6. PICK r \in Thread :
          /\ th' = [th EXCEPT !["right"] = r]
          /\ r.killed = th["right"].killed /\ r.end = th["right"].end
          /\ r.pc \in {"read", "exit"}
          /\ r.chan = None \/ (r.chan = "nread" /\ r.pc = "read")
    <2>1. th["right"] \in Thread /\ "read" \in AnyLabel /\ "exit" \in AnyLabel
      BY <1>2, Members, Labels
    <2>2. CASE th["right"].killed
      <3> DEFINE r == [th["right"] EXCEPT !.pc = "exit", !.i = 0]
      <3>1. th' = [th EXCEPT !["right"].pc = "exit", !["right"].i = 0]
        BY <2>2 DEF ReadWait, Return, Returned
      <3>2. th' = [th EXCEPT !["right"] = r]
        BY <1>2, <3>1, Members, ZenonT(30)
      <3>3. /\ r \in Thread /\ r.pc = "exit" /\ r.chan = None
            /\ r.killed = th["right"].killed /\ r.end = th["right"].end
        BY <1>2, <2>1, ZenonT(30) DEF Thread
      <3> QED BY <3>2, <3>3, ZenonT(30)
    <2>3. CASE ~th["right"].killed
      <3> DEFINE r == [th["right"] EXCEPT !.pc = "read", !.chan = "nread"]
      <3>1. th' = [th EXCEPT !["right"].pc = "read", !["right"].chan = "nread"]
        BY <2>3 DEF ReadWait
      <3>2. th' = [th EXCEPT !["right"] = r]
        BY <1>2, <3>1, Members, ZenonT(30)
      <3>3. /\ r \in Thread /\ r.pc = "read" /\ r.chan = "nread"
            /\ r.killed = th["right"].killed /\ r.end = th["right"].end
        BY <1>2, <2>1, ZenonT(30) DEF Thread
      <3> QED BY <3>2, <3>3, ZenonT(30)
    <2> QED BY <2>2, <2>3
  <1>7. /\ th' \in [Proc -> Thread] /\ th'["right"] = r
        /\ \A q \in Proc : q # "right" => th'[q] = th[q]
    BY <1>2, <1>6, Members
  <1>8. \A q \in Proc : th'[q].end = th[q].end /\ th'[q].killed = th[q].killed
    BY <1>6, <1>7
  <1>9. th'["sh"] = th["sh"] /\ th'["left"] = th["left"]
    BY <1>7, Members
  <1> QED BY <1>1, <1>2, <1>4, <1>5, <1>6, <1>7, <1>8, <1>9, ReaderLeaves

LEMMA ReadStartStep ==
  ASSUME PipeInv, ReadStart
  PROVE  Good
  <1>1. /\ th["right"].pc = "waiting" /\ ~MayWait /\ UNCHANGED <<pi, ref, fds, sent, taken>>
        /\ Go("right", "reading")
    BY DEF ReadStart, At, Goto, Go
  <1>2. Types /\ "reading" \in Label("right")
    BY DEF PipeInv, Label
  <1>3. /\ th' \in [Proc -> Thread]
        /\ \A q \in Proc : th'[q].pc = IF q = "right" THEN "reading" ELSE th[q].pc
        /\ \A q \in Proc : /\ th'[q].i = th[q].i /\ th'[q].chan = th[q].chan
                           /\ th'[q].killed = th[q].killed /\ th'[q].end = th[q].end
        /\ \A q \in Proc : th'[q].pc \in Label(q)
    BY <1>1, <1>2, Went, Members
  <1>4. Types'
    BY <1>1, <1>2, <1>3 DEF Types
  <1>5. Refs'
    BY <1>1, <1>2, <1>3, RefsKept DEF PipeInv
  <1>6. Stream'
    BY <1>1, StreamKept DEF PipeInv
  <1>7. Inside'
    BY <1>1, <1>3, Names DEF PipeInv, Inside, Locked
  <1>8. ASSUME Sleepers PROVE Sleepers'
    BY <1>1, <1>3, <1>8, Members DEF Sleepers, Empty
  <1>9. Ending'
    BY <1>1, <1>3, Members DEF Ending, MayWait, Empty
  <1> QED BY <1>4, <1>5, <1>6, <1>7, <1>8, <1>9 DEF Good, PipeInv

LEMMA EofStep ==
  ASSUME PipeInv, Eof
  PROVE  Good
  <1>1. /\ th["right"].pc = "eof" /\ UNCHANGED <<pi, ref, fds, sent, taken>>
        /\ Go("right", "exit")
    BY DEF Eof, At, Goto, Go
  <1>2. Types /\ "exit" \in Label("right")
    BY DEF PipeInv, Label
  <1>3. /\ th' \in [Proc -> Thread]
        /\ \A q \in Proc : th'[q].pc = IF q = "right" THEN "exit" ELSE th[q].pc
        /\ \A q \in Proc : /\ th'[q].i = th[q].i /\ th'[q].chan = th[q].chan
                           /\ th'[q].killed = th[q].killed /\ th'[q].end = th[q].end
        /\ \A q \in Proc : th'[q].pc \in Label(q)
    BY <1>1, <1>2, Went, Members
  <1>4. Types'
    BY <1>1, <1>2, <1>3 DEF Types
  <1>5. Refs'
    BY <1>1, <1>2, <1>3, RefsKept DEF PipeInv
  <1>6. Stream'
    BY <1>1, StreamKept DEF PipeInv
  <1>7. Inside'
    BY <1>1, <1>3, Names DEF PipeInv, Inside, Locked
  <1>8. ASSUME Sleepers PROVE Sleepers'
    BY <1>1, <1>3, <1>8, Members DEF Sleepers, Empty, Full
  <1>9. Ending'
    BY <1>1, <1>3, Members DEF Ending
  <1> QED BY <1>4, <1>5, <1>6, <1>7, <1>8, <1>9 DEF Good, PipeInv

\* A return of the reader, which wakes the writer.
LEMMA ReaderReturns ==
  ASSUME PipeInv, th["right"].pc = "reading", UNCHANGED <<ref, fds>>,
         pi' \in PipeRecord, pi'.open = pi.open, pi'.page = pi.page, pi'.lock = None, Stream',
         NEW l \in AfterRead, th' = Returned(Wakeup(th, "nwrite"), "right", l),
         Copied /\ Ending /\ th["right"].i = 0 => Empty' /\ ~pi.open["w"]
  PROVE  Good
  <1>1. l \in {"read", "exit", "eof"} /\ (l = "eof" => th["right"].i = 0)
    BY DEF AfterRead
  <1>2. /\ th \in [Proc -> Thread]
        /\ th["sh"].chan = None /\ th["right"].chan = None /\ th["left"].chan \in {None, "nwrite"}
    BY Awakes
  <1> DEFINE w == Wakeup(th, "nwrite")
             m == IF th["right"].killed THEN "exit" ELSE l
             r == [w["right"] EXCEPT !.pc = m, !.i = 0]
  <1>3. th' = [w EXCEPT !["right"].pc = m, !["right"].i = 0]
    BY DEF Returned
  <1>4. /\ w \in [Proc -> Thread]
        /\ \A q \in Proc : /\ w[q].pc = th[q].pc /\ w[q].i = th[q].i
                           /\ w[q].killed = th[q].killed /\ w[q].end = th[q].end
        /\ \A q \in Proc : w[q].chan = IF th[q].chan = "nwrite" THEN None ELSE th[q].chan
    BY <1>2, Wakened
  <1>5. m \in {"read", "exit", "eof"} /\ m \in AnyLabel /\ (m = "eof" => l = "eof")
    BY <1>1, Labels
  <1> HIDE DEF w, m
  <1>6. th' = [w EXCEPT !["right"] = r]
    BY <1>3, <1>4, Members, ZenonT(30)
  <1>7. w["right"] \in Thread
    BY <1>4, Members
  <1>8. /\ r \in Thread /\ r.pc = m /\ r.chan = w["right"].chan
        /\ r.killed = w["right"].killed /\ r.end = w["right"].end
    BY <1>5, <1>7, ZenonT(30) DEF Thread
  <1> HIDE DEF r
  <1>9. /\ th' \in [Proc -> Thread] /\ th'["right"] = r
        /\ \A q \in Proc : q # "right" => th'[q] = w[q]
    BY <1>4, <1>6, <1>8, Members
  <1>10. \A q \in Proc : th'[q].end = th[q].end /\ th'[q].killed = th[q].killed
    BY <1>4, <1>8, <1>9
  <1>11. /\ th'["sh"].pc = th["sh"].pc /\ th'["left"].pc = th["left"].pc
         /\ th'["sh"].chan = None /\ th'["left"].chan = None /\ th'["right"].chan = None
         /\ th'["right"].pc = m
    BY <1>2, <1>4, <1>8, <1>9, Names
  <1>12. Copied /\ Ending /\ th'["right"].pc = "eof" => Empty' /\ ~pi.open["w"]
    BY <1>1, <1>5, <1>11
  <1> QED BY <1>5, <1>9, <1>10, <1>11, <1>12, ReaderLeaves

LEMMA ReadByteStep ==
  ASSUME Sized, PipeInv, ReadByte
  PROVE  Good
  <1>1. /\ th["right"].pc = "reading" /\ ~Empty /\ UNCHANGED <<ref, fds, sent>>
        /\ taken' = Append(taken, pi.data[pi.nread % PIPESIZE])
    BY DEF ReadByte, At
  <1>2. /\ Types /\ th \in [Proc -> Thread] /\ pi \in PipeRecord
        /\ th["sh"].chan = None /\ th["right"].chan = None /\ th["left"].chan \in {None, "nwrite"}
    BY <1>1, Awakes DEF PipeInv, Types
  <1>3. th["right"] \in Thread
    BY <1>2, Members
  <1> DEFINE n == (pi.nread + 1) % UintMod
  <1>4. CASE /\ CopyFails
             /\ pi' = [pi EXCEPT !.nread = n, !.lock = None]
             /\ \E l \in AfterRead : th' = Returned(Wakeup(th, "nwrite"), "right", l)
    <2>1. /\ pi'.data = pi.data /\ pi'.nwrite = pi.nwrite /\ pi'.nread = n
          /\ pi'.open = pi.open /\ pi'.page = pi.page /\ pi'.lock = None
      BY <1>2, <1>4 DEF PipeRecord
    <2>2. Stream' /\ n \in 0..(UintMod - 1)
      BY <1>1, <1>2, <2>1, StreamRead DEF PipeInv
    <2>3. pi' \in PipeRecord
      BY <1>2, <1>4, <2>2, ZenonT(30) DEF PipeRecord
    <2>4. ~Copied
      BY <1>4 DEF Copied
    <2>5. PICK l \in AfterRead : th' = Returned(Wakeup(th, "nwrite"), "right", l)
      BY <1>4
    <2> QED BY <1>1, <2>1, <2>2, <2>3, <2>4, <2>5, ReaderReturns
  <1>5. CASE /\ pi' = [pi EXCEPT !.nread = n]
             /\ th' = [th EXCEPT !["right"].i = th["right"].i + 1]
    <2>1. /\ pi'.data = pi.data /\ pi'.nwrite = pi.nwrite /\ pi'.nread = n
          /\ pi'.open = pi.open /\ pi'.page = pi.page /\ pi'.lock = pi.lock
      BY <1>2, <1>5 DEF PipeRecord
    <2>2. Stream' /\ n \in 0..(UintMod - 1)
      BY <1>1, <1>2, <2>1, StreamRead DEF PipeInv
    <2>3. pi' \in PipeRecord
      BY <1>2, <1>5, <2>2 DEF PipeRecord
    <2> HIDE DEF n
    <2>4. /\ th' \in [Proc -> Thread]
          /\ \A q \in Proc : /\ th'[q].pc = th[q].pc /\ th'[q].chan = th[q].chan
                             /\ th'[q].killed = th[q].killed /\ th'[q].end = th[q].end
          /\ th'["right"].i # 0
      <3> DEFINE r == [th["right"] EXCEPT !.i = th["right"].i + 1]
      <3>1. /\ r \in Thread /\ r.pc = th["right"].pc /\ r.chan = th["right"].chan
            /\ r.killed = th["right"].killed /\ r.end = th["right"].end /\ r.i # 0
        BY <1>3 DEF Thread
      <3>2. th' = [th EXCEPT !["right"] = r]
        BY <1>2, <1>5, Members
      <3> HIDE DEF r
      <3> QED BY <1>2, <3>1, <3>2, Members
    <2>5. Types'
      BY <1>1, <1>2, <2>3, <2>4 DEF Types
    <2>6. Refs'
      BY <1>1, <1>2, <2>1, <2>4, RefsKept DEF PipeInv
    <2>7. Inside'
      BY <2>1, <2>4 DEF PipeInv, Inside
    <2>8. ASSUME Sleepers PROVE Sleepers'
      BY <1>1, <1>2, <2>1, <2>4, <2>8, Names DEF Sleepers
    <2>9. Ending'
      BY <1>1, <2>4, Members DEF Ending
    <2> QED BY <2>2, <2>5, <2>6, <2>7, <2>8, <2>9 DEF Good, PipeInv
  <1> QED BY <1>4, <1>5 DEF ReadByte

LEMMA ReadDoneStep ==
  ASSUME Sized, PipeInv, ReadDone
  PROVE  Good
  <1>1. /\ th["right"].pc = "reading" /\ (th["right"].i = Chunk \/ Empty)
        /\ UNCHANGED <<ref, fds, sent, taken>>
    BY DEF ReadDone, At
  <1>2. PICK l \in AfterRead : Return(Wakeup(th, "nwrite"), "right", l)
    BY DEF ReadDone
  <1>3. Released /\ th' = Returned(Wakeup(th, "nwrite"), "right", l)
    BY <1>2 DEF Return, Released
  <1>4. /\ pi' \in PipeRecord
        /\ pi'.open = pi.open /\ pi'.page = pi.page /\ pi'.data = pi.data
        /\ pi'.nread = pi.nread /\ pi'.nwrite = pi.nwrite /\ pi'.lock = None
    BY <1>3, ReleasedFields DEF PipeInv
  <1>5. Stream' /\ Empty' = Empty
    BY <1>1, <1>4, StreamKept DEF PipeInv, Empty
  <1>6. Copied /\ Ending /\ th["right"].i = 0 => Empty' /\ ~pi.open["w"]
    BY <1>1, <1>5 DEF Copied, Ending
  <1> QED BY <1>1, <1>3, <1>4, <1>5, <1>6, ReaderReturns

LEMMA KillStep ==
  ASSUME PipeInv, NEW p \in Proc, Kill(p)
  PROVE  Good
  <1>1. /\ p \in Killable /\ UNCHANGED <<pi, ref, fds, sent, taken>>
        /\ th' = [th EXCEPT ![p].killed = TRUE, ![p].chan = None]
    BY DEF Kill
  <1>2. Types /\ th \in [Proc -> Thread]
    BY DEF PipeInv, Types
  <1>3. /\ th' \in [Proc -> Thread]
        /\ \A q \in Proc : /\ th'[q].pc = th[q].pc /\ th'[q].i = th[q].i /\ th'[q].end = th[q].end
                           /\ th'[q].chan = th[q].chan \/ th'[q].chan = None
                           /\ q # p => th'[q].killed = th[q].killed
    <2> DEFINE r == [th[p] EXCEPT !.killed = TRUE, !.chan = None]
    <2>1. th[p] \in Thread
      BY <1>2
    <2>2. r \in Thread /\ r.pc = th[p].pc /\ r.i = th[p].i /\ r.end = th[p].end /\ r.chan = None
      BY <2>1, ZenonT(30) DEF Thread
    <2>3. th' = [th EXCEPT ![p] = r]
      BY <1>1, <1>2, ZenonT(30)
    <2> HIDE DEF r
    <2> QED BY <1>2, <2>2, <2>3
  <1>4. Types'
    BY <1>1, <1>2, <1>3 DEF Types
  <1>5. Refs'
    BY <1>1, <1>2, <1>3, RefsKept DEF PipeInv
  <1>6. Stream'
    BY <1>1, StreamKept DEF PipeInv
  <1>7. Inside'
    BY <1>1, <1>3 DEF PipeInv, Inside
  <1>8. ASSUME "left" \notin Killable, Sleepers PROVE Sleepers'
    BY <1>1, <1>3, <1>8, Members DEF Sleepers, Empty, Full, None
  <1>9. ASSUME Ending PROVE Ending'
    BY <1>1, <1>3, <1>9, Members DEF Ending, Empty
  <1> QED BY <1>4, <1>5, <1>6, <1>7, <1>8, <1>9 DEF Good, PipeInv

=============================================================================
