------------------------------- MODULE Malloc -------------------------------
(***************************************************************************)
(* The allocator of user programs, user/umalloc.c: a circular list of free *)
(* blocks in the order of their addresses, over memory from sbrk.          *)
(*                                                                         *)
(* Addresses and sizes count headers.  A step is a turn of a loop.  The    *)
(* headers of blocks that were merged into others are forgotten.           *)
(***************************************************************************)
EXTENDS Integers, FiniteSets

CONSTANTS
  Requests,   \* arguments of malloc
  HDR,        \* sizeof(Header)
  MinUnits,   \* what morecore asks for at least (4096)
  IntMod,     \* 2^32, a multiple of HDR: sbrk takes an int
  Gaps,       \* arguments of other calls to sbrk
  MaxBrk      \* where sbrk fails

VARIABLES
  freep,
  hdr,        \* the headers of all blocks
  brk,        \* the end of the heap
  th,         \* how far a call is
  live,       \* ghost: the blocks malloc returned, with the size it owes
  core,       \* ghost: the units morecore got
  turns       \* ghost: turns of the search so far

vars == <<freep, hdr, brk, th, live, core, turns>>

NULL == -1
base == 0
Heap == 2     \* static data is below the heap
Idle == [pc |-> "user", p |-> base, prevp |-> base, n |-> 0, bp |-> base, back |-> "user"]

Init ==
  /\ freep = NULL
  /\ hdr = [a \in {base} |-> [ptr |-> base, size |-> 0]]
  /\ brk = Heap
  /\ th = Idle
  /\ live = [a \in {} |-> 0]
  /\ core = {}
  /\ turns = 0

ToInt(n) == ((n + IntMod \div 2) % IntMod) - IntMod \div 2

\* Where sbrk moves the end of the heap to, if it does.
Sbrk(n) == brk + (ToInt(n) \div HDR)

Nunits(nbytes) == ((nbytes + HDR - 1) \div HDR) + 1

-----------------------------------------------------------------------------
\* free

\* Does bp belong behind p?
Place(bp, p) ==
  \/ bp > p /\ bp < hdr[p].ptr
  \/ p >= hdr[p].ptr /\ (bp > p \/ bp < hdr[p].ptr)

\* Joined to the upper neighbour if they touch
Upper(h, p, bp) ==
  LET q == h[p].ptr
  IN  IF bp + h[bp].size = q
        THEN [a \in DOMAIN h \ {q} |->
                IF a = bp THEN [ptr |-> h[q].ptr, size |-> h[bp].size + h[q].size] ELSE h[a]]
        ELSE [h EXCEPT ![bp].ptr = q]

\* and to the lower one.
Lower(h, p, bp) ==
  IF p + h[p].size = bp
    THEN [a \in DOMAIN h \ {bp} |->
            IF a = p THEN [ptr |-> h[bp].ptr, size |-> h[p].size + h[bp].size] ELSE h[a]]
    ELSE [h EXCEPT ![p].ptr = bp]

FreeCall(bp) ==
  /\ th.pc = "user" /\ bp \in DOMAIN live
  /\ live' = [a \in DOMAIN live \ {bp} |-> live[a]]
  /\ th' = [Idle EXCEPT !.pc = "free", !.p = freep, !.bp = bp]
  /\ turns' = 0
  /\ UNCHANGED <<freep, hdr, brk, core>>

FreeTurn ==
  /\ th.pc = "free" /\ ~Place(th.bp, th.p)
  /\ th' = [th EXCEPT !.p = hdr[th.p].ptr]
  /\ turns' = turns + 1
  /\ UNCHANGED <<freep, hdr, brk, live, core>>

\* After morecore the search of malloc goes on behind freep.
FreeDone ==
  LET h == Lower(Upper(hdr, th.p, th.bp), th.p, th.bp)
  IN  /\ th.pc = "free" /\ Place(th.bp, th.p)
      /\ hdr' = h
      /\ freep' = th.p
      /\ th' = IF th.back = "user" THEN Idle
               ELSE [th EXCEPT !.pc = "search", !.prevp = th.p, !.p = h[th.p].ptr]
      /\ turns' = 0
      /\ UNCHANGED <<brk, live, core>>

-----------------------------------------------------------------------------
\* malloc

MallocCall(nbytes) ==
  LET prevp == IF freep = NULL THEN base ELSE freep
  IN  /\ th.pc = "user"
      /\ freep' = prevp
      /\ th' = [Idle EXCEPT !.pc = "search", !.prevp = prevp, !.p = hdr[prevp].ptr, !.n = Nunits(nbytes)]
      /\ turns' = 0
      /\ UNCHANGED <<hdr, brk, live, core>>

Fits == hdr[th.p].size >= th.n

\* The block is cut off at the end of the free one.
Cut(h, p, n) ==
  LET rest == h[p].size - n
  IN  [a \in DOMAIN h \cup {p + rest} |->
         IF a = p + rest THEN [ptr |-> base, size |-> n]
         ELSE IF a = p THEN [h[p] EXCEPT !.size = rest] ELSE h[a]]

Take ==
  LET p == th.p
      whole == hdr[p].size = th.n
      block == IF whole THEN p ELSE p + hdr[p].size - th.n
  IN  /\ th.pc = "search" /\ Fits
      /\ hdr' = IF whole THEN [hdr EXCEPT ![th.prevp].ptr = hdr[p].ptr, ![p].ptr = base]
                ELSE Cut(hdr, p, th.n)
      /\ live' = [a \in DOMAIN live \cup {block} |-> IF a = block THEN th.n ELSE live[a]]
      /\ freep' = th.prevp
      /\ th' = Idle
      /\ turns' = 0
      /\ UNCHANGED <<brk, core>>

SearchTurn ==
  /\ th.pc = "search" /\ ~Fits /\ th.p # freep
  /\ th' = [th EXCEPT !.prevp = th.p, !.p = hdr[th.p].ptr]
  /\ turns' = turns + 1
  /\ UNCHANGED <<freep, hdr, brk, live, core>>

\* The list was gone round: more memory, which is freed, or none.
Morecore ==
  LET nu == IF th.n < MinUnits THEN MinUnits ELSE th.n
      to == Sbrk(nu * HDR)
  IN  /\ th.pc = "search" /\ ~Fits /\ th.p = freep
      /\ IF to > MaxBrk
           THEN th' = Idle /\ UNCHANGED <<hdr, brk, core>>
           ELSE /\ brk' = to
                /\ core' = core \cup brk..(to - 1)
                /\ hdr' = [a \in DOMAIN hdr \cup {brk} |->
                             IF a = brk THEN [ptr |-> base, size |-> nu] ELSE hdr[a]]
                /\ th' = [th EXCEPT !.pc = "free", !.bp = brk, !.p = freep, !.back = "search"]
      /\ turns' = 0
      /\ UNCHANGED <<freep, live>>

-----------------------------------------------------------------------------

\* The program gets memory from sbrk itself.
Gap(n) ==
  /\ th.pc = "user" /\ Sbrk(n) <= MaxBrk
  /\ brk' = Sbrk(n)
  /\ UNCHANGED <<freep, hdr, th, live, core, turns>>

Next ==
  \/ \E n \in Requests : MallocCall(n)
  \/ \E bp \in DOMAIN live : FreeCall(bp)
  \/ \E n \in Gaps : Gap(n)
  \/ FreeTurn
  \/ FreeDone
  \/ Take
  \/ SearchTurn
  \/ Morecore

Spec == Init /\ [][Next]_vars

-----------------------------------------------------------------------------

Free == DOMAIN hdr \ DOMAIN live

TypeOK ==
  /\ freep \in Free \cup {NULL}
  /\ DOMAIN live \subseteq DOMAIN hdr
  /\ \A a \in DOMAIN hdr : hdr[a].size \in Nat /\ hdr[a].ptr \in Nat
  /\ brk \in Heap..MaxBrk

\* Between calls the free list is a circle through base in the order of the
\* addresses, and no two free blocks touch (free, malloc).
ListExact == th.pc = "user" => \A a \in Free :
  LET above == {b \in Free : b > a}
  IN  /\ hdr[a].ptr = IF above = {} THEN base ELSE CHOOSE b \in above : \A d \in above : b <= d
      /\ a # base => a + hdr[a].size \notin Free

\* Between calls every unit that sbrk gave to the allocator is in exactly one
\* block, free or in use, and a block in use has the size that was asked for:
\* no two pointers share memory and none is lost (free, malloc, morecore).
HeapExact == th.pc = "user" =>
  LET units(a) == a..(a + hdr[a].size - 1)
  IN  /\ core = UNION {units(a) : a \in DOMAIN hdr}
      /\ \A a, b \in DOMAIN hdr : a # b => units(a) \cap units(b) = {}
      /\ \A a \in DOMAIN live : hdr[a].size = live[a]

\* A search of malloc or free does not go round the list forever: it passes
\* every free block at most once (free, malloc).
SearchEnds == turns <= Cardinality(Free)

=============================================================================
