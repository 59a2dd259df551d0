----------------------------- MODULE Processes -----------------------------
(***************************************************************************)
(* Processes of kernel/proc.c with the spin locks of kernel/spinlock.c:    *)
(* fork, exit, wait, kill, sleep, wakeup, yield and the scheduler of every *)
(* CPU, the timer interrupt of kernel/trap.c, sys_sleep of                 *)
(* kernel/sysproc.c, and user/init.c as the first process.                 *)
(*                                                                         *)
(* A step goes from one acquire or release that another CPU can notice to  *)
(* the next.  A lock is held by a CPU: p's own lock is taken by p and      *)
(* released by the scheduler it switches to, and the other way round.      *)
(***************************************************************************)
EXTENDS Integers, FiniteSets

CONSTANTS
  NPROC,      \* slots of the process table; slot 1 is init
  CPU,        \* the CPUs
  Clock,      \* the one that counts ticks (hart 0)
  MaxPid,     \* process identifiers given out
  KillPids,   \* whom processes kill
  TickMod,    \* ticks count modulo this (2^32 in the code)
  SleepTicks, \* argument of sys_sleep, 0 if nobody calls it
  Preempt     \* where timer interrupts come: in "user" space, in the "kernel"

VARIABLES
  proc,       \* the process table
  th,         \* the kernel thread of each process
  lock,       \* CPU that holds each lock
  cpu,        \* process each CPU runs, 0 if its scheduler runs
  nextpid,
  ticks,
  intr,       \* the clock interrupt: where it is, and the loop index
  reaped      \* process identifiers that wait returned

vars == <<proc, th, lock, cpu, nextpid, ticks, intr, reaped>>

None == "none"
Slot == 1..NPROC
initproc == 1
Locks == Slot \cup {-1, -2}
waitlock == -1
tickslock == -2
tickschan == 0

Unused == [state |-> "UNUSED", pid |-> 0, parent |-> 0, chan |-> -1, killed |-> FALSE]

\* pc: where the thread is; k: index of the loop it is in; arg: process or
\* channel it deals with; ret: where to go on afterwards; t0: ticks0.
Thread(l) == [pc |-> l, k |-> 1, arg |-> 0, ret |-> None, back |-> None, t0 |-> 0]

NoIntr == [pc |-> None, k |-> 1]

Init ==
  /\ proc = [p \in Slot |-> IF p = initproc
               THEN [Unused EXCEPT !.state = "RUNNABLE", !.pid = 1] ELSE Unused]
  /\ th = [p \in Slot |-> Thread("swtched")]
  /\ lock = [l \in Locks |-> None]
  /\ cpu = [c \in CPU |-> 0]
  /\ nextpid = 2
  /\ ticks = 0
  /\ intr = NoIntr
  /\ reaped = {}

-----------------------------------------------------------------------------

\* p's thread is at l on CPU c, which is not in an interrupt.
On(p, c, l) ==
  /\ cpu[c] = p
  /\ th[p].pc = l
  /\ c = Clock => intr.pc = None

Free(l) == lock[l] = None

Acquired(l, c) == lock' = [lock EXCEPT ![l] = c]

Released(l) == lock' = [lock EXCEPT ![l] = None]

Goto(p, t) == th' = [th EXCEPT ![p] = t]

Holds(c) == {l \in Locks : lock[l] = c}

-----------------------------------------------------------------------------
\* scheduler, sched and what follows a switch.

\* scheduler: acquire, and swtch to a runnable process.
Schedule(c, p) ==
  /\ cpu[c] = 0
  /\ c = Clock => intr.pc = None
  /\ Free(p)
  /\ proc[p].state = "RUNNABLE"
  /\ proc' = [proc EXCEPT ![p].state = "RUNNING"]
  /\ Acquired(p, c)
  /\ cpu' = [cpu EXCEPT ![c] = p]
  /\ UNCHANGED <<th, nextpid, ticks, intr, reaped>>

\* The thread goes on where it called sched, or in forkret, and releases its lock.
Resume(p, c) ==
  /\ On(p, c, "swtched")
  /\ proc[p].state = "RUNNING" /\ lock[p] = c
  /\ proc' = [proc EXCEPT ![p].chan = IF th[p].ret = "relock" THEN -1 ELSE @]
  /\ Released(p)
  /\ Goto(p, IF th[p].ret = None THEN Thread("user")
             ELSE [th[p] EXCEPT !.pc = th[p].ret, !.ret = None])
  /\ UNCHANGED <<cpu, nextpid, ticks, intr, reaped>>

\* Fault: the process gives up its lock before the switch is over.
SwtchUnlocked(p, c) ==
  /\ On(p, c, "swtch")
  /\ Goto(p, [th[p] EXCEPT !.pc = "swtching"])
  /\ Released(p)
  /\ UNCHANGED <<proc, cpu, nextpid, ticks, intr, reaped>>

\* sched: leave the process's stack.
Swtch(p, c) ==
  /\ On(p, c, "swtch")
  /\ Goto(p, [th[p] EXCEPT !.pc = "swtching"])
  /\ UNCHANGED <<proc, lock, cpu, nextpid, ticks, intr, reaped>>

\* Back in scheduler: c->proc = 0 and release.
BackInScheduler(p, c) ==
  /\ On(p, c, "swtching")
  /\ cpu' = [cpu EXCEPT ![c] = 0]
  /\ Released(p)
  /\ Goto(p, [th[p] EXCEPT !.pc = "swtched"])
  /\ UNCHANGED <<proc, nextpid, ticks, intr, reaped>>

\* yield
Yield(p, c) ==
  /\ On(p, c, "yield")
  /\ Free(p)
  /\ Acquired(p, c)
  /\ proc' = [proc EXCEPT ![p].state = "RUNNABLE"]
  /\ Goto(p, [th[p] EXCEPT !.pc = "swtch"])
  /\ UNCHANGED <<cpu, nextpid, ticks, intr, reaped>>

-----------------------------------------------------------------------------
\* sleep and wakeup

\* sleep(chan, lk) with lk held, first part: acquire p->lock, release lk.
SleepLock(p, c, lk) ==
  /\ Free(p)
  /\ lock' = [lock EXCEPT ![p] = c, ![lk] = None]
  /\ Goto(p, [th[p] EXCEPT !.pc = "asleep"])
  /\ UNCHANGED <<proc, cpu, nextpid, ticks, intr, reaped>>

\* sleep, second part: change state and call sched.
Asleep(p, c) ==
  /\ On(p, c, "asleep")
  /\ proc' = [proc EXCEPT ![p].state = "SLEEPING", ![p].chan = th[p].arg]
  /\ Goto(p, [th[p] EXCEPT !.pc = "swtch", !.ret = "relock"])
  /\ UNCHANGED <<lock, cpu, nextpid, ticks, intr, reaped>>

\* The end of sleep: acquire lk.  Only sys_sleep sleeps on the ticks.
Relock(p, c) ==
  LET ticking == th[p].arg = tickschan
      lk == IF ticking THEN tickslock ELSE waitlock
  IN  /\ On(p, c, "relock")
      /\ Free(lk)
      /\ Acquired(lk, c)
      /\ Goto(p, IF ticking THEN [th[p] EXCEPT !.pc = "ticks"]
                 ELSE [th[p] EXCEPT !.pc = "scan", !.k = 1, !.arg = 0])
      /\ UNCHANGED <<proc, cpu, nextpid, ticks, intr, reaped>>

\* Fault: wakeup looks at the process without its lock.
WakeNoLock(me, q, chan) ==
  proc' = IF q # me /\ proc[q].state = "SLEEPING" /\ proc[q].chan = chan
            THEN [proc EXCEPT ![q].state = "RUNNABLE"] ELSE proc

\* A turn of the loop in wakeup, called by me (0: by no process).
Wake(me, q, chan) ==
  /\ q = me \/ Free(q)
  /\ proc' = IF q # me /\ proc[q].state = "SLEEPING" /\ proc[q].chan = chan
               THEN [proc EXCEPT ![q].state = "RUNNABLE"] ELSE proc

\* wakeup(arg) by p.
Wakeup(p, c) ==
  /\ On(p, c, "wakeup")
  /\ Wake(p, th[p].k, th[p].arg)
  /\ Goto(p, IF th[p].k < NPROC THEN [th[p] EXCEPT !.k = @ + 1]
             ELSE [th[p] EXCEPT !.pc = th[p].back, !.back = None, !.k = 1, !.arg = 0])
  /\ UNCHANGED <<lock, cpu, nextpid, ticks, intr, reaped>>

-----------------------------------------------------------------------------
\* fork

\* allocproc: look at slot k, and take it if it is unused.
Alloc(p, c) ==
  LET q == th[p].k
  IN  /\ On(p, c, "alloc")
      /\ Free(q)
      /\ IF proc[q].state = "UNUSED"
           THEN /\ Acquired(q, c)
                /\ proc' = [proc EXCEPT ![q].state = "USED", ![q].pid = nextpid]
                /\ nextpid' = nextpid + 1
                /\ Goto(p, [Thread("copy") EXCEPT !.arg = q])
           ELSE /\ Goto(p, IF q < NPROC THEN [th[p] EXCEPT !.k = @ + 1]
                           ELSE Thread("return"))
                /\ UNCHANGED <<proc, lock, nextpid>>
      /\ UNCHANGED <<cpu, ticks, intr, reaped>>

\* fork: the memory is copied, or there is not enough of it.
ForkCopy(p, c) ==
  LET q == th[p].arg
  IN  /\ On(p, c, "copy")
      /\ \/ /\ Goto(p, [th[p] EXCEPT !.pc = "parent"])
            /\ UNCHANGED proc
         \/ /\ p # initproc
            /\ proc' = [proc EXCEPT ![q] = Unused]
            /\ Goto(p, Thread("return"))
      /\ Released(q)
      /\ UNCHANGED <<cpu, nextpid, ticks, intr, reaped>>

\* fork: np->parent = p under wait_lock.
ForkParent(p, c) ==
  /\ On(p, c, "parent")
  /\ Free(waitlock)
  /\ proc' = [proc EXCEPT ![th[p].arg].parent = p]
  /\ Goto(p, [th[p] EXCEPT !.pc = "run"])
  /\ UNCHANGED <<lock, cpu, nextpid, ticks, intr, reaped>>

\* fork: np->state = RUNNABLE under np->lock.  The child starts in forkret.
ForkRun(p, c) ==
  LET q == th[p].arg
  IN  /\ On(p, c, "run")
      /\ Free(q)
      /\ proc' = [proc EXCEPT ![q].state = "RUNNABLE"]
      /\ th' = [th EXCEPT ![p] = Thread("return"), ![q] = Thread("swtched")]
      /\ UNCHANGED <<lock, cpu, nextpid, ticks, intr, reaped>>

-----------------------------------------------------------------------------
\* exit

Exit(p, c) ==
  /\ On(p, c, "exit")
  /\ Free(waitlock)
  /\ Acquired(waitlock, c)
  /\ Goto(p, Thread("reparent"))
  /\ UNCHANGED <<proc, cpu, nextpid, ticks, intr, reaped>>

\* A turn of the loop in reparent; wakeup(initproc) matters to init only, so
\* its other turns are left out.
Reparent(p, c) ==
  LET q == th[p].k
      next == IF q < NPROC THEN "reparent" ELSE "wakeparent"
  IN  /\ On(p, c, "reparent")
      /\ IF proc[q].parent = p
           THEN /\ Free(initproc)
                /\ proc' = [proc EXCEPT ![q].parent = initproc,
                     ![initproc].state =
                        IF @ = "SLEEPING" /\ proc[initproc].chan = initproc THEN "RUNNABLE" ELSE @]
           ELSE UNCHANGED proc
      /\ Goto(p, [th[p] EXCEPT !.pc = next, !.k = IF q < NPROC THEN q + 1 ELSE 1])
      /\ UNCHANGED <<lock, cpu, nextpid, ticks, intr, reaped>>

\* Fault: the process wakes those that sleep on it.
WakeParentItself(p, c) ==
  /\ On(p, c, "wakeparent")
  /\ Goto(p, [Thread("wakeup") EXCEPT !.arg = p, !.back = "zombie"])
  /\ UNCHANGED <<proc, lock, cpu, nextpid, ticks, intr, reaped>>

\* wakeup(p->parent) begins.
WakeParent(p, c) ==
  /\ On(p, c, "wakeparent")
  /\ Goto(p, [Thread("wakeup") EXCEPT !.arg = proc[p].parent, !.back = "zombie"])
  /\ UNCHANGED <<proc, lock, cpu, nextpid, ticks, intr, reaped>>

\* The end of exit.
Zombie(p, c) ==
  /\ On(p, c, "zombie")
  /\ Free(p)
  /\ proc' = [proc EXCEPT ![p].state = "ZOMBIE"]
  /\ lock' = [lock EXCEPT ![p] = c, ![waitlock] = None]
  /\ Goto(p, Thread("swtch"))
  /\ UNCHANGED <<cpu, nextpid, ticks, intr, reaped>>

-----------------------------------------------------------------------------
\* wait

WaitLock(p, c) ==
  /\ On(p, c, "wait")
  /\ Free(waitlock)
  /\ Acquired(waitlock, c)
  /\ Goto(p, Thread("scan"))
  /\ UNCHANGED <<proc, cpu, nextpid, ticks, intr, reaped>>

\* A turn of the loop in wait; arg is havekids.
Scan(p, c) ==
  LET q == th[p].k
  IN  /\ On(p, c, "scan")
      /\ IF proc[q].parent # p
           THEN /\ Goto(p, IF q < NPROC THEN [th[p] EXCEPT !.k = @ + 1]
                           ELSE [th[p] EXCEPT !.pc = "scanned", !.k = 1])
                /\ UNCHANGED <<proc, lock, reaped>>
           ELSE /\ Free(q)
                /\ IF proc[q].state = "ZOMBIE"
                     THEN /\ reaped' = reaped \cup {proc[q].pid}
                          /\ proc' = [proc EXCEPT ![q] = Unused]
                          /\ Released(waitlock)
                          /\ Goto(p, Thread("return"))
                     ELSE /\ Goto(p, IF q < NPROC THEN [th[p] EXCEPT !.k = @ + 1, !.arg = 1]
                                     ELSE [th[p] EXCEPT !.pc = "scanned", !.k = 1, !.arg = 1])
                          /\ UNCHANGED <<proc, lock, reaped>>
      /\ UNCHANGED <<cpu, nextpid, ticks, intr>>

\* No child has exited: give up, or sleep.
Scanned(p, c) ==
  /\ On(p, c, "scanned")
  /\ Free(p)
  /\ IF th[p].arg = 0 \/ proc[p].killed
       THEN /\ Released(waitlock)
            /\ Goto(p, Thread("return"))
       ELSE /\ Goto(p, [Thread("waitsleep") EXCEPT !.arg = p])
            /\ UNCHANGED lock
  /\ UNCHANGED <<proc, cpu, nextpid, ticks, intr, reaped>>

WaitSleep(p, c) == On(p, c, "waitsleep") /\ SleepLock(p, c, waitlock)

-----------------------------------------------------------------------------
\* kill, and what a killed process does when it returns to user space.

\* A turn of the loop in kill.
Kill(p, c) ==
  LET q == th[p].k
  IN  /\ On(p, c, "kill")
      /\ Free(q)
      /\ IF proc[q].pid = th[p].arg
           THEN /\ proc' = [proc EXCEPT ![q].killed = TRUE,
                              ![q].state = IF @ = "SLEEPING" THEN "RUNNABLE" ELSE @]
                /\ Goto(p, Thread("return"))
           ELSE /\ Goto(p, IF q < NPROC THEN [th[p] EXCEPT !.k = @ + 1] ELSE Thread("return"))
                /\ UNCHANGED proc
      /\ UNCHANGED <<lock, cpu, nextpid, ticks, intr, reaped>>

\* The end of usertrap.  init's wait loop calls wait again.
Return(p, c) ==
  /\ On(p, c, "return")
  /\ Free(p)
  /\ Goto(p, Thread(IF proc[p].killed THEN "exit" ELSE "user"))
  /\ UNCHANGED <<proc, lock, cpu, nextpid, ticks, intr, reaped>>

-----------------------------------------------------------------------------
\* The clock: sys_sleep, and the timer interrupt.

SysSleep(p, c) ==
  /\ On(p, c, "syssleep")
  /\ Free(tickslock)
  /\ Acquired(tickslock, c)
  /\ Goto(p, [Thread("ticks") EXCEPT !.t0 = ticks])
  /\ UNCHANGED <<proc, cpu, nextpid, ticks, intr, reaped>>

\* Fault: the clock is compared as a number that never wraps.
TicksLeftSigned(t0) == ticks < t0 + SleepTicks

\* ticks - ticks0 < n in unsigned arithmetic
TicksLeft(t0) == (ticks - t0) % TickMod < SleepTicks

\* A turn of the loop in sys_sleep, with tickslock held.
Ticks(p, c) ==
  /\ On(p, c, "ticks")
  /\ IF TicksLeft(th[p].t0)
       THEN /\ Free(p)
            /\ IF proc[p].killed
                 THEN Released(tickslock) /\ Goto(p, Thread("return"))
                 ELSE Goto(p, [th[p] EXCEPT !.pc = "tickssleep", !.arg = tickschan]) /\ UNCHANGED lock
       ELSE Released(tickslock) /\ Goto(p, Thread("return"))
  /\ UNCHANGED <<proc, cpu, nextpid, ticks, intr, reaped>>

TicksSleep(p, c) == On(p, c, "tickssleep") /\ SleepLock(p, c, tickslock)

\* Interrupts are on while a CPU holds no lock.
Interruptible(c) == Holds(c) = {} /\ (cpu[c] # 0 => th[cpu[c]].pc \notin {"yield", "trap"})

\* After a timer interrupt a running process yields and later goes on; coming
\* from user space it looks first whether it was killed.
Yielding(c) ==
  LET p == cpu[c]
  IN  IF p = 0 THEN UNCHANGED th
      ELSE Goto(p, IF th[p].pc = "user" THEN Thread("trap")
                   ELSE [th[p] EXCEPT !.pc = "yield", !.ret = th[p].pc])

\* Fault: a process interrupted in user space is not asked whether it was killed.
TrapForgets(p, c) ==
  /\ On(p, c, "trap")
  /\ Free(p)
  /\ Goto(p, [Thread("yield") EXCEPT !.ret = "user"])
  /\ UNCHANGED <<proc, lock, cpu, nextpid, ticks, intr, reaped>>

Trap(p, c) ==
  /\ On(p, c, "trap")
  /\ Free(p)
  /\ Goto(p, IF proc[p].killed THEN Thread("exit")
             ELSE [Thread("yield") EXCEPT !.ret = "user"])
  /\ UNCHANGED <<proc, lock, cpu, nextpid, ticks, intr, reaped>>

\* A timer interrupt on a CPU that does not keep the time, or whose clockintr
\* finds nobody asleep.
Timer(c) ==
  /\ c # Clock \/ SleepTicks = 0
  /\ cpu[c] # 0
  /\ (IF th[cpu[c]].pc = "user" THEN "user" ELSE "kernel") \in Preempt
  /\ Interruptible(c)
  /\ Yielding(c)
  /\ UNCHANGED <<proc, lock, cpu, nextpid, ticks, intr, reaped>>

\* Bound: a process in sys_sleep runs before the counter has gone all the way
\* round since it started (2^32 ticks).
NoLap == \A p \in Slot :
  (\/ th[p].pc \in {"ticks", "tickssleep"}
   \/ th[p].arg = tickschan /\ {th[p].pc, th[p].ret} \cap {"asleep", "relock"} # {})
    => (ticks + 1 - th[p].t0) % TickMod # 0

\* On the clock CPU clockintr comes first.
ClockStart ==
  /\ intr.pc = None
  /\ SleepTicks > 0
  /\ NoLap
  /\ Interruptible(Clock)
  /\ intr' = [pc |-> "clock", k |-> 1]
  /\ UNCHANGED <<proc, th, lock, cpu, nextpid, ticks, reaped>>

ClockTick ==
  /\ intr.pc = "clock"
  /\ Free(tickslock)
  /\ Acquired(tickslock, Clock)
  /\ ticks' = (ticks + 1) % TickMod
  /\ intr' = [pc |-> "wakeup", k |-> 1]
  /\ UNCHANGED <<proc, th, cpu, nextpid, reaped>>

ClockWakeup ==
  /\ intr.pc = "wakeup"
  /\ Wake(cpu[Clock], intr.k, tickschan)
  /\ IF intr.k < NPROC
       THEN intr' = [intr EXCEPT !.k = @ + 1] /\ UNCHANGED <<th, lock>>
       ELSE intr' = NoIntr /\ Released(tickslock) /\ Yielding(Clock)
  /\ UNCHANGED <<cpu, nextpid, ticks, reaped>>

-----------------------------------------------------------------------------

\* What programs do, unless usertrap finds them killed.  init (user/init.c)
\* forks and waits and always has a child to wait for; the others fork, wait,
\* kill, sleep and exit as they like.
Call(p, c) ==
  /\ On(p, c, "user")
  /\ Free(p)
  /\ IF proc[p].killed THEN Goto(p, Thread("exit"))
     ELSE \/ nextpid <= MaxPid /\ Goto(p, Thread("alloc"))
          \/ (p = initproc => \E q \in Slot : proc[q].parent = p) /\ Goto(p, Thread("wait"))
          \/ p # initproc /\ Goto(p, Thread("exit"))
          \/ p # initproc /\ \E pid \in KillPids : Goto(p, [Thread("kill") EXCEPT !.arg = pid])
          \/ p # initproc /\ SleepTicks > 0 /\ Goto(p, Thread("syssleep"))
  /\ UNCHANGED <<proc, lock, cpu, nextpid, ticks, intr, reaped>>

\* A process on its way to the scheduler and back.
Switching(p, c) == Resume(p, c) \/ Swtch(p, c) \/ BackInScheduler(p, c) \/ Yield(p, c) \/ Trap(p, c)

\* A step of the thread of p in the kernel that gets it on.
Serving(p, c) ==
  \/ Asleep(p, c)
  \/ Relock(p, c)
  \/ Wakeup(p, c)
  \/ Alloc(p, c)
  \/ ForkCopy(p, c)
  \/ ForkParent(p, c)
  \/ ForkRun(p, c)
  \/ Exit(p, c)
  \/ Reparent(p, c)
  \/ WakeParent(p, c)
  \/ Zombie(p, c)
  \/ WaitLock(p, c)
  \/ Scan(p, c)
  \/ Scanned(p, c)
  \/ WaitSleep(p, c)
  \/ Kill(p, c)
  \/ Return(p, c)

Working(p, c) == Serving(p, c) \/ SysSleep(p, c) \/ Ticks(p, c) \/ TicksSleep(p, c)

Interrupt == ClockStart \/ ClockTick \/ ClockWakeup

Next ==
  \/ \E p \in Slot, c \in CPU : Schedule(c, p) \/ Switching(p, c) \/ Working(p, c) \/ Call(p, c)
  \/ \E c \in CPU : Timer(c)
  \/ Interrupt

Spec == Init /\ [][Next]_vars

\* Every scheduler goes round the process table, so a process that is runnable
\* again and again is run.  A CPU goes on, and gets a spin lock that is free
\* again and again; a time slice is long enough to get on.  A timer interrupt
\* stays pending until interrupts are on.  init never idles.
Fairness ==
  /\ \A p \in Slot : SF_vars(\E c \in CPU : Schedule(c, p))
  /\ \A p \in Slot : WF_vars(\E c \in CPU : Switching(p, c))
  /\ \A p \in Slot : SF_vars(\E c \in CPU : Working(p, c))
  /\ SF_vars(\E c \in CPU : Call(initproc, c))
  /\ SF_vars(ClockStart)
  /\ SF_vars(ClockTick \/ ClockWakeup)
  /\ \A c \in CPU : SF_vars(Timer(c))

FairSpec == Spec /\ Fairness

-----------------------------------------------------------------------------

TypeOK ==
  /\ \A p \in Slot :
       /\ proc[p].state \in {"UNUSED", "USED", "SLEEPING", "RUNNABLE", "RUNNING", "ZOMBIE"}
       /\ proc[p].pid \in 0..(nextpid - 1)
       /\ proc[p].parent \in 0..NPROC
       /\ proc[p].killed \in BOOLEAN
       /\ th[p].k \in Slot
  /\ lock \in [Locks -> CPU \cup {None}]
  /\ cpu \in [CPU -> 0..NPROC]
  /\ ticks \in 0..(TickMod - 1)

\* No two CPUs use the kernel stack of a process, and a process a CPU is on is
\* running or locked by it ("It is the process's job to release its lock and
\* then reacquire it before jumping back to us").
OneStack ==
  /\ \A b, c \in CPU : (b # c /\ cpu[b] = cpu[c]) => cpu[b] = 0
  /\ \A c \in CPU : cpu[c] # 0 => (proc[cpu[c]].state = "RUNNING" \/ lock[cpu[c]] = c)
  /\ \A p \in Slot : proc[p].state = "RUNNING" => \E c \in CPU : cpu[c] = p

\* sched is called with the process's lock and no other ("sched locks").
SchedAlone == \A c \in CPU :
  (cpu[c] # 0 /\ th[cpu[c]].pc = "swtch") => Holds(c) = {cpu[c]}

\* The lock CPU c is about to acquire, 0 if none.
Wants(c) ==
  LET p == cpu[c]
      t == th[p]
  IN  IF c = Clock /\ intr.pc # None
        THEN IF intr.pc = "clock" THEN tickslock ELSE IF intr.k = p THEN 0 ELSE intr.k
      ELSE IF p = 0 THEN 0
      ELSE CASE t.pc \in {"alloc", "kill"} -> t.k
             [] t.pc \in {"parent", "exit", "wait"} -> waitlock
             [] t.pc = "run" -> t.arg
             [] t.pc = "reparent" -> IF proc[t.k].parent = p THEN initproc ELSE 0
             [] t.pc = "wakeup" -> IF t.k = p THEN 0 ELSE t.k
             [] t.pc = "scan" -> IF proc[t.k].parent = p THEN t.k ELSE 0
             [] t.pc \in {"zombie", "scanned", "waitsleep", "return", "trap", "yield",
                          "ticks", "tickssleep"} -> p
             [] t.pc = "syssleep" -> tickslock
             [] t.pc = "relock" -> IF t.arg = tickschan THEN tickslock ELSE waitlock
             [] OTHER -> 0

\* CPUs never spin on each other's locks in a circle, nor one on its own
\* ("acquire" panics then); wait_lock comes before any p->lock, and an
\* interrupt never finds its CPU holding a lock (push_off).
NoSpinCycle ==
  \A S \in SUBSET CPU \ {{}} : \E c \in S : Wants(c) = 0 \/ lock[Wants(c)] \notin S

\* While nobody is inside wait or exit, a process asleep in wait has no child
\* that has exited: no wakeup is lost, not even of a child handed to init.
WaitersInformed ==
  Free(waitlock) => \A p, q \in Slot :
    (proc[p].state = "SLEEPING" /\ proc[p].chan = p /\ proc[q].parent = p)
      => proc[q].state # "ZOMBIE"

\* Every process but init has a living parent, from fork until wait returns
\* it, and every process identifier is returned by one wait only.
FamilyExact ==
  /\ \A q \in Slot \ {initproc} :
       proc[q].state \notin {"UNUSED", "USED"} =>
         /\ proc[q].parent # 0
         /\ proc[proc[q].parent].state \notin {"UNUSED", "USED", "ZOMBIE"}
  /\ \A q \in Slot : proc[q].state # "UNUSED" => proc[q].pid \in (1..(nextpid - 1)) \ reaped
  /\ \A q, r \in Slot : (q # r /\ proc[q].pid = proc[r].pid) => proc[q].pid = 0

\* init reaps every process handed to it that has exited ("this call to wait()
\* returns if the shell exits, or if a parentless process exits").
OrphansReaped ==
  \A q \in Slot : (proc[q].state = "ZOMBIE" /\ proc[q].parent = initproc)
                   ~> proc[q].state = "UNUSED"

\* sys_sleep returns, even when the tick counter wraps meanwhile.
SleepEnds ==
  \A p \in Slot : th[p].pc = "ticks" ~> th[p].pc \in {"return", "exit"}

\* A killed process without children exits.  One that waits for a child may
\* miss the kill between its test and its sleep, and then exits after the child.
KilledExits ==
  \A p \in Slot : proc[p].killed ~>
    (proc[p].state \in {"ZOMBIE", "UNUSED"} \/ \E q \in Slot : proc[q].parent = p)

=============================================================================
