------------------------------- MODULE Memory -------------------------------
(***************************************************************************)
(* Physical pages, page tables and process images: kernel/kalloc.c,        *)
(* kernel/vm.c, exec, and what fork, sbrk, exit and wait do to memory.     *)
(*                                                                         *)
(* A page table is a function from paths of table indices to entries: <<>> *)
(* is the root, paths of length 1 and 2 are the tables below it, paths of  *)
(* length 3 are leaves.  Sizes count half pages.  Pages are interchange-   *)
(* able: kalloc returns the smallest.  Each call to kalloc is atomic       *)
(* (kmem.lock); system calls of several processes interleave page by page. *)
(***************************************************************************)
EXTENDS Integers, Sequences, FiniteSets, FiniteSetsExt, SequencesExt, TLC

CONSTANTS
  Frame,       \* 1..n: the pages between end and PHYSTOP
  NPROC,
  FAN,         \* entries of a table
  Programs,    \* what can be executed: sequences of [vaddr, filesz, memsz]
  Grows,       \* arguments of sbrk
  MaxCalls     \* bound on calls to sbrk and exec and on stores

VARIABLES
  free,        \* kmem.freelist
  data,        \* content of the pages
  proc,        \* the process table
  op,          \* how far each process is in a system call
  image,       \* ghost: what each process should find in its memory
  calls, panicked

vars == <<free, data, proc, op, image, calls, panicked>>

Slot == 1..NPROC
NoPage == 0
Junk == -1
Loaded == 1
Guard == -2                 \* in an image: the page below the stack
PG == 2                     \* PGSIZE, in half pages
MAXVA == FAN * FAN * FAN    \* in pages
TRAMPOLINE == MAXVA - 1
TRAPFRAME == MAXVA - 2
Zero(n) == [v \in 0..(n - 1) |-> 0]

\* Memory is too small for user pages up to the trapframe, their tables, the
\* trapframe and another page.
MemoryAssumption ==
  /\ FAN \in Nat \ {0, 1} /\ NPROC \in Nat \ {0} /\ Frame = 1..Cardinality(Frame)
  /\ Cardinality(Frame) < TRAPFRAME + (1 + FAN + FAN * FAN) + 2

PGROUNDUP(sz) == (sz + PG - 1) \div PG     \* a number of pages
Path(va) == <<va \div (FAN * FAN), (va \div FAN) % FAN, va % FAN>>
NoTable == [x \in {} |-> [pa |-> NoPage, u |-> FALSE]]
Entry(pa, u) == [pa |-> pa, u |-> u]
Leaves(pt) == {x \in DOMAIN pt : Len(x) = 3}

-----------------------------------------------------------------------------
\* Memory as the functions of vm.c pass it on: the free pages, the table they
\* work on, whether all went well, and whether one of them panicked.

Mem(f, pt) == [free |-> f, pt |-> pt, ok |-> TRUE, panic |-> FALSE]

\* kalloc returns this page, or 0.
Kalloc(f) == IF f = {} THEN NoPage ELSE Min(f)

\* One turn of the loop in walk with alloc: the table at x, if it is missing.
WalkLevel(m, x) ==
  IF ~m.ok \/ x \in DOMAIN m.pt THEN m
  ELSE IF m.free = {} THEN [m EXCEPT !.ok = FALSE]
  ELSE [m EXCEPT !.pt = (x :> Entry(Kalloc(m.free), FALSE)) @@ @,
                 !.free = @ \ {Kalloc(m.free)}]

Walk(m, va) ==
  IF va >= MAXVA THEN [m EXCEPT !.ok = FALSE]
  ELSE WalkLevel(WalkLevel(m, SubSeq(Path(va), 1, 1)), SubSeq(Path(va), 1, 2))

Mapped(m, va, e) ==
  IF ~m.ok THEN m
  ELSE [m EXCEPT !.pt = (Path(va) :> e) @@ @, !.panic = @ \/ Path(va) \in DOMAIN m.pt]

\* mappages for one page
Mappages(m, va, e) == IF ~m.ok THEN m ELSE Mapped(Walk(m, va), va, e)

Uvmunmap(m, vas, do_free) ==
  [m EXCEPT !.panic = @ \/ \E v \in vas : Path(v) \notin DOMAIN m.pt,
            !.pt = [x \in DOMAIN @ \ {Path(v) : v \in vas} |-> @[x]],
            !.free = IF do_free
              THEN @ \cup {m.pt[Path(v)].pa : v \in {w \in vas : Path(w) \in DOMAIN m.pt}}
              ELSE @]

\* freewalk panics if a leaf is left.
Freewalk(m) ==
  [m EXCEPT !.panic = @ \/ Leaves(m.pt) # {},
            !.free = @ \cup {m.pt[x].pa : x \in DOMAIN m.pt \ Leaves(m.pt)},
            !.pt = NoTable]

Uvmfree(m, sz) == Freewalk(Uvmunmap(m, 0..(PGROUNDUP(sz) - 1), TRUE))

Uvmcreate(f) ==
  IF f = {} THEN [Mem(f, NoTable) EXCEPT !.ok = FALSE]
  ELSE Mem(f \ {Kalloc(f)}, <<>> :> Entry(Kalloc(f), FALSE))

\* uvmfree(pagetable, 0) if a mapping of proc_pagetable failed
OrFreed(m, vas) ==
  IF m.ok \/ m.pt = NoTable THEN m
  ELSE [Uvmfree(Uvmunmap(m, vas, FALSE), 0) EXCEPT !.ok = FALSE]

ProcPagetable(f, tf) ==
  OrFreed(Mappages(OrFreed(Mappages(Uvmcreate(f), TRAMPOLINE, Entry(NoPage, FALSE)), {}),
                   TRAPFRAME, Entry(tf, FALSE)),
          {TRAMPOLINE})

ProcFreepagetable(m, sz) == Uvmfree(Uvmunmap(m, {TRAMPOLINE, TRAPFRAME}, FALSE), sz)

\* A page is allocated and mapped at va, or freed again if it cannot be mapped.
NewPageKept(m, pa) == IF m.ok THEN m ELSE [m EXCEPT !.free = @ \cup {pa}]
NewPage(m, va, u) ==
  IF m.free = {} THEN [m EXCEPT !.ok = FALSE]
  ELSE NewPageKept(Mappages([m EXCEPT !.free = @ \ {Kalloc(m.free)}], va, Entry(Kalloc(m.free), u)),
                   Kalloc(m.free))

-----------------------------------------------------------------------------

Unused == [state |-> "UNUSED", tf |-> NoPage, pt |-> NoTable, sz |-> 0]
User == [pc |-> "user", pt |-> NoTable, sz |-> 0, i |-> 0, old |-> 0, to |-> 0,
         prog |-> <<>>, seg |-> 1, argv |-> NoPage, child |-> 0]

\* userinit: one process with one page, which holds initcode.
Booted == NewPage(ProcPagetable(Frame \ {1}, 1), 0, TRUE)

Init ==
  /\ free = Booted.free
  /\ proc = [p \in Slot |-> IF p = 1 THEN [state |-> "RUN", tf |-> 1, pt |-> Booted.pt, sz |-> PG]
                            ELSE Unused]
  /\ data = [f \in Frame |-> IF f \in Booted.free THEN Junk ELSE Loaded]
  /\ op = [p \in Slot |-> User]
  /\ image = [p \in Slot |-> IF p = 1 THEN [v \in {0} |-> Loaded] ELSE Zero(0)]
  /\ calls = 0
  /\ panicked = FALSE

\* A page gets its content when it is allocated; kfree fills it with junk.
SetMemory(m, contents) ==
  /\ free' = m.free
  /\ data' = [f \in Frame |-> IF f \in m.free THEN Junk ELSE (contents @@ data)[f]]
  /\ panicked' = (panicked \/ m.panic)

NoContent == [x \in {} |-> 0]

\* What is at va in table pt
At(pt, va) == pt[Path(va)].pa

InUser(p) == proc[p].state = "RUN" /\ op[p].pc = "user"

Call == calls < MaxCalls /\ calls' = calls + 1

-----------------------------------------------------------------------------
\* growproc

SbrkGrow(p, n) ==
  /\ InUser(p) /\ n > 0
  /\ Call
  /\ op' = [op EXCEPT ![p] = [User EXCEPT !.pc = "grow", !.i = PGROUNDUP(proc[p].sz),
                                !.old = PGROUNDUP(proc[p].sz), !.to = proc[p].sz + n]]
  /\ UNCHANGED <<free, data, proc, image, panicked>>

\* Does uvmalloc have another page to allocate?
More(p) == op[p].i * PG < op[p].to

\* uvmdealloc of the pages that a failing uvmalloc has added
Deallocated(p, m) == Uvmunmap(m, op[p].old..(op[p].i - 1), TRUE)

\* uvmalloc on the process's own table
GrowPage(p) ==
  LET m == NewPage(Mem(free, proc[p].pt), op[p].i, TRUE)
      r == IF m.ok THEN m ELSE Deallocated(p, m)
  IN  /\ op[p].pc = "grow" /\ More(p)
      /\ SetMemory(r, IF m.ok THEN At(m.pt, op[p].i) :> 0 ELSE NoContent)
      /\ proc' = [proc EXCEPT ![p].pt = r.pt]
      /\ op' = [op EXCEPT ![p] = IF m.ok THEN [@ EXCEPT !.i = @ + 1] ELSE User]
      /\ UNCHANGED <<image, calls>>

GrowDone(p) ==
  /\ op[p].pc = "grow" /\ ~More(p)
  /\ proc' = [proc EXCEPT ![p].sz = op[p].to]
  /\ op' = [op EXCEPT ![p] = User]
  /\ image' = [image EXCEPT ![p] = @ @@ Zero(PGROUNDUP(op[p].to))]
  /\ UNCHANGED <<free, data, calls, panicked>>

\* The pages uvmdealloc frees
Shrunk(old, to) == PGROUNDUP(to)..(PGROUNDUP(old) - 1)

\* A size below 0 wraps, and uvmdealloc then changes nothing.
SbrkShrink(p, n) ==
  LET to == proc[p].sz + n
      m == Uvmunmap(Mem(free, proc[p].pt), Shrunk(proc[p].sz, to), TRUE)
  IN  /\ InUser(p) /\ n < 0 /\ to >= 0
      /\ Call
      /\ SetMemory(m, NoContent)
      /\ proc' = [proc EXCEPT ![p].pt = m.pt, ![p].sz = to]
      /\ image' = [image EXCEPT ![p] = [v \in 0..(PGROUNDUP(to) - 1) |-> @[v]]]
      /\ UNCHANGED op

-----------------------------------------------------------------------------
\* fork, exit, wait

FreeSlots == {q \in Slot : proc[q].state = "UNUSED"}

\* freeproc frees the trapframe and the table with sz half pages.
Freeproc(m, tf, sz) ==
  [IF m.pt = NoTable THEN m ELSE ProcFreepagetable(m, sz) EXCEPT !.free = @ \cup ({tf} \ {NoPage})]

\* allocproc
ForkAlloc(p) ==
  LET q == Min(FreeSlots)
      tf == Kalloc(free)
      m == ProcPagetable(free \ {tf}, tf)
  IN  /\ InUser(p) /\ FreeSlots # {}
      /\ IF tf # NoPage /\ m.ok
           THEN /\ proc' = [proc EXCEPT ![q] = [Unused EXCEPT !.state = "USED", !.tf = tf, !.pt = m.pt]]
                /\ op' = [op EXCEPT ![p] = [User EXCEPT !.pc = "copy", !.child = q]]
                /\ SetMemory(m, NoContent)
           ELSE /\ SetMemory(IF tf = NoPage THEN Mem(free, NoTable)
                             ELSE Freeproc(m, tf, 0), NoContent)
                /\ UNCHANGED <<proc, op>>
      /\ UNCHANGED <<image, calls>>

\* What uvmcopy unmaps when it fails
Copied(p) == 0..(op[p].i - 1)

\* A turn of the loop in uvmcopy; fork frees the child if it fails.
ForkPage(p) ==
  LET q == op[p].child
      i == op[p].i
      m == NewPage(Mem(free, proc[q].pt), i, proc[p].pt[Path(i)].u)
      r == Freeproc(Uvmunmap(m, Copied(p), TRUE), proc[q].tf, 0)
  IN  /\ op[p].pc = "copy" /\ i * PG < proc[p].sz
      /\ IF m.ok
           THEN /\ SetMemory(m, At(m.pt, i) :> data[At(proc[p].pt, i)])
                /\ proc' = [proc EXCEPT ![q].pt = m.pt]
                /\ op' = [op EXCEPT ![p].i = i + 1]
           ELSE /\ SetMemory(r, NoContent)
                /\ proc' = [proc EXCEPT ![q] = Unused]
                /\ op' = [op EXCEPT ![p] = User]
      /\ UNCHANGED <<image, calls>>

ForkDone(p) ==
  /\ op[p].pc = "copy" /\ op[p].i * PG >= proc[p].sz
  /\ proc' = [proc EXCEPT ![op[p].child].state = "RUN", ![op[p].child].sz = proc[p].sz]
  /\ image' = [image EXCEPT ![op[p].child] = image[p]]
  /\ op' = [op EXCEPT ![p] = User]
  /\ UNCHANGED <<free, data, calls, panicked>>

Exit(p) ==
  /\ InUser(p) /\ p # 1
  /\ proc' = [proc EXCEPT ![p].state = "ZOMBIE"]
  /\ UNCHANGED <<free, data, op, image, calls, panicked>>

\* wait finds the zombie
Reap(p) ==
  /\ proc[p].state = "ZOMBIE"
  /\ SetMemory(Freeproc(Mem(free, proc[p].pt), proc[p].tf, proc[p].sz), NoContent)
  /\ proc' = [proc EXCEPT ![p] = Unused]
  /\ image' = [image EXCEPT ![p] = Zero(0)]
  /\ UNCHANGED <<op, calls>>

-----------------------------------------------------------------------------
\* sys_exec and exec

\* Fault: the argument page is not freed when exec fails.
ExecReturnKeeps(p, m) ==
  /\ SetMemory(m, NoContent)
  /\ op' = [op EXCEPT ![p] = User]

\* sys_exec frees its arguments and returns.
ExecReturn(p, m) ==
  /\ SetMemory([m EXCEPT !.free = @ \cup ({op[p].argv} \ {NoPage})], NoContent)
  /\ op' = [op EXCEPT ![p] = User]

\* A page for an argument, if there is one
ExecArgs(p, prog) ==
  /\ InUser(p)
  /\ Call
  /\ SetMemory(Mem(free \ {Kalloc(free)}, NoTable), NoContent)
  /\ op' = IF free = {} THEN op
           ELSE [op EXCEPT ![p] = [User EXCEPT !.pc = "exec", !.prog = prog, !.argv = Kalloc(free)]]
  /\ UNCHANGED <<proc, image>>

\* Not a program: nothing was allocated for it yet.
ExecNotElf(p) ==
  /\ op[p].pc = "exec"
  /\ ExecReturn(p, Mem(free, NoTable))
  /\ UNCHANGED <<proc, image, calls>>

\* The arguments of the next uvmalloc: of a segment, or of guard page and stack
UvmallocTo(o) ==
  IF o.seg <= Len(o.prog) THEN o.prog[o.seg].vaddr * PG + o.prog[o.seg].memsz
  ELSE (PGROUNDUP(o.sz) + 2) * PG

Allocating(o) == [o EXCEPT !.pc = "alloc", !.i = PGROUNDUP(o.sz), !.old = PGROUNDUP(o.sz),
                           !.to = UvmallocTo(o)]

ExecPagetable(p) ==
  LET m == ProcPagetable(free, proc[p].tf)
  IN  /\ op[p].pc = "exec"
      /\ IF m.ok THEN /\ SetMemory(m, NoContent)
                      /\ op' = [op EXCEPT ![p] = Allocating([@ EXCEPT !.pt = m.pt])]
                 ELSE ExecReturn(p, m)
      /\ UNCHANGED <<proc, image, calls>>

\* bad: the new table goes, with sz half pages.
ExecBad(p, m) == ExecReturn(p, ProcFreepagetable(m, op[p].sz))

\* uvmalloc on the new table
ExecPage(p) ==
  LET m == NewPage(Mem(free, op[p].pt), op[p].i, TRUE)
  IN  /\ op[p].pc = "alloc" /\ More(p)
      /\ IF m.ok THEN /\ SetMemory(m, At(m.pt, op[p].i) :> 0)
                      /\ op' = [op EXCEPT ![p].pt = m.pt, ![p].i = @ + 1]
                 ELSE ExecBad(p, Deallocated(p, m))
      /\ UNCHANGED <<proc, image, calls>>

\* A program header is short or makes no sense.
ExecBadHeader(p) ==
  /\ op[p].pc = "alloc" /\ op[p].i = op[p].old /\ op[p].seg <= Len(op[p].prog)
  /\ ExecBad(p, Mem(free, op[p].pt))
  /\ UNCHANGED <<proc, image, calls>>

\* What loadseg fills
LoadsegPages(s) == {v \in 0..(TRAPFRAME - 1) : v >= s.vaddr /\ (v - s.vaddr) * PG < s.filesz}

\* uvmalloc is done, and loadseg reads the segment.
ExecLoad(p) ==
  LET o == op[p]
      s == o.prog[o.seg]
      sz == IF o.to < o.sz THEN o.sz ELSE o.to
  IN  /\ o.pc = "alloc" /\ ~More(p) /\ o.seg <= Len(o.prog)
      /\ data' = [f \in Frame |-> IF \E v \in LoadsegPages(s) : At(o.pt, v) = f THEN Loaded ELSE data[f]]
      /\ panicked' = (panicked \/ \E v \in LoadsegPages(s) : Path(v) \notin DOMAIN o.pt)
      /\ op' = [op EXCEPT ![p] = Allocating([@ EXCEPT !.sz = sz, !.seg = @ + 1])]
      /\ UNCHANGED <<free, proc, image, calls>>

\* The file is shorter than its headers say; sz is what is allocated by then.
ExecShort(p) ==
  /\ op[p].pc = "alloc" /\ ~More(p) /\ op[p].seg <= Len(op[p].prog)
  /\ ExecReturn(p, ProcFreepagetable(Mem(free, op[p].pt),
                                     IF op[p].to < op[p].sz THEN op[p].sz ELSE op[p].to))
  /\ UNCHANGED <<proc, image, calls>>

\* The stack is there, but the arguments do not fit on it.
ExecTooLong(p) ==
  /\ op[p].pc = "alloc" /\ ~More(p) /\ op[p].seg > Len(op[p].prog)
  /\ ExecReturn(p, ProcFreepagetable(Mem(free, op[p].pt), op[p].to))
  /\ UNCHANGED <<proc, image, calls>>

\* What the program should find: its segments, zeros, the arguments.
NewImage(o) ==
  [v \in 0..((o.to \div PG) - 1) |->
     IF \E k \in 1..Len(o.prog) : v \in LoadsegPages(o.prog[k]) THEN Loaded
     ELSE IF v = (o.to \div PG) - 1 THEN Loaded
     ELSE IF v = (o.to \div PG) - 2 THEN Guard ELSE 0]

\* uvmclear of the guard page, copyout of the arguments, commit.
ExecCommit(p) ==
  LET o == op[p]
      top == o.to \div PG
      m == ProcFreepagetable(Mem(free, proc[p].pt), proc[p].sz)
      freed == m.free \cup {o.argv}
  IN  /\ o.pc = "alloc" /\ ~More(p) /\ o.seg > Len(o.prog)
      /\ proc' = [proc EXCEPT ![p].pt = [o.pt EXCEPT ![Path(top - 2)].u = FALSE], ![p].sz = o.to]
      /\ free' = freed
      /\ data' = [f \in Frame |-> IF f \in freed THEN Junk
                                  ELSE IF f = At(o.pt, top - 1) THEN Loaded ELSE data[f]]
      /\ panicked' = (panicked \/ m.panic)
      /\ image' = [image EXCEPT ![p] = NewImage(o)]
      /\ op' = [op EXCEPT ![p] = User]
      /\ UNCHANGED calls

-----------------------------------------------------------------------------

Walkaddr(p, va) ==
  IF Path(va) \in DOMAIN proc[p].pt /\ proc[p].pt[Path(va)].u THEN At(proc[p].pt, va) ELSE NoPage

\* A system call copies out to va: copyout refuses what is not the user's.
Copyout(p, va) ==
  /\ InUser(p)
  /\ Call
  /\ Walkaddr(p, va) # NoPage
  /\ data' = [data EXCEPT ![Walkaddr(p, va)] = p + 1]
  /\ image' = [image EXCEPT ![p] = [v \in DOMAIN @ |-> IF v = va /\ @[v] # Guard THEN p + 1 ELSE @[v]]]
  /\ UNCHANGED <<free, proc, op, panicked>>

Step(p) ==
  \/ GrowPage(p)
  \/ GrowDone(p)
  \/ ForkPage(p)
  \/ ForkDone(p)
  \/ ExecNotElf(p)
  \/ ExecPagetable(p)
  \/ ExecPage(p)
  \/ ExecBadHeader(p)
  \/ ExecLoad(p)
  \/ ExecShort(p)
  \/ ExecTooLong(p)
  \/ ExecCommit(p)

Next ==
  \E p \in Slot :
    \/ \E n \in Grows : SbrkGrow(p, n) \/ SbrkShrink(p, n)
    \/ ForkAlloc(p)
    \/ Exit(p)
    \/ Reap(p)
    \/ \E prog \in Programs : ExecArgs(p, prog)
    \/ \E va \in 0..(MAXVA - 1) : Copyout(p, va)
    \/ Step(p)

Spec == Init /\ [][Next]_vars

-----------------------------------------------------------------------------

TypeOK ==
  /\ free \subseteq Frame
  /\ data \in [Frame -> {Junk, 0, 1} \cup {p + 1 : p \in Slot}]
  /\ \A p \in Slot :
       /\ proc[p].state \in {"UNUSED", "USED", "RUN", "ZOMBIE"}
       /\ proc[p].sz \in Nat
       /\ \A x \in DOMAIN proc[p].pt : proc[p].pt[x].pa \in Frame \cup {NoPage}

\* No function of vm.c meets a page table that is not as its caller promised:
\* nothing is mapped twice, unmapped twice or left over ("mappages: remap",
\* "uvmunmap: not mapped", "freewalk: leaf", "loadseg: address should exist").
NoPanic == ~panicked

\* Entries of pt that stand for page f; the trampoline is the kernel's and the
\* trapframe is counted with the process.
Entries(pt, f) ==
  Cardinality({x \in DOMAIN pt \ {Path(TRAMPOLINE), Path(TRAPFRAME)} : pt[x].pa = f})

\* Every page has exactly one use: it is free, or a trapframe, an argument of
\* exec, a table or memory of one process or of the image that exec builds.
\* So no path through fork, exec and sbrk that fails half-way loses a page or
\* frees it twice.
PagesExact == \A f \in Frame :
  1 = (IF f \in free THEN 1 ELSE 0)
      + Cardinality({p \in Slot : proc[p].tf = f})
      + Cardinality({p \in Slot : op[p].argv = f})
      + MapThenSumSet(LAMBDA p : Entries(proc[p].pt, f) + Entries(op[p].pt, f), Slot)

\* Between system calls the table of a process has the pages that its size
\* says, its own trapframe and the trampoline, and nothing else mapped.
ImageExact == \A p \in Slot :
  InUser(p) =>
    /\ Leaves(proc[p].pt) = {Path(v) : v \in 0..(PGROUNDUP(proc[p].sz) - 1) \cup {TRAPFRAME, TRAMPOLINE}}
    /\ At(proc[p].pt, TRAPFRAME) = proc[p].tf

\* A process finds in its memory what it put there, what its parent had at
\* the fork, what exec loaded, or zeros; a failed exec or sbrk changes nothing,
\* and nothing is copied to the guard page.
MemoryIsolated == \A p \in Slot :
  InUser(p) => \A v \in 0..(PGROUNDUP(proc[p].sz) - 1) :
    data[At(proc[p].pt, v)] = IF image[p][v] = Guard THEN 0 ELSE image[p][v]

=============================================================================
