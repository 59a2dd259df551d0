----------------------------- MODULE VirtioDisk -----------------------------
(***************************************************************************)
(* The driver of one virtio disk (kernel/virtio_disk.c): processes in      *)
(* virtio_disk_rw, the descriptors and the two rings they share with the   *)
(* device, the device, the interrupt handler, and sleep/wakeup/kill of     *)
(* kernel/proc.c as far as the driver uses them.                           *)
(*                                                                         *)
(* vdisk_lock is held except in sleep(), so the code between two sleeps is *)
(* one action.  The file system calls with a buffer whose sleep-lock the   *)
(* process holds (Shared = FALSE: a buffer per process); read_block and    *)
(* write_block of the RAID layer call with transfer_buffer[diskn], one     *)
(* buffer per disk that nothing locks (Shared = TRUE).                     *)
(***************************************************************************)
EXTENDS Integers, FiniteSets

CONSTANTS
  Proc,    \* processes
  NUM,     \* descriptors, 16 in virtio.h
  IdxMod,  \* number of values of the ring counters, 2^16 in the code
  Shared,  \* do all processes use the same buffer?
  Killable \* processes that kill() is called on, each at most once

Nobody == "nobody"

ASSUME VirtioAssumption ==
  /\ NUM \in Nat /\ NUM >= 3
  /\ IdxMod \in Nat /\ IdxMod > 0 /\ IdxMod % NUM = 0
  /\ Shared \in BOOLEAN
  /\ Killable \subseteq Proc
  /\ IsFiniteSet(Proc)
  /\ Nobody \notin Proc

Desc == 0..(NUM - 1)

NoDesc == NUM

VARIABLES
  pc,        \* pc[p]: "idle", "alloc" (about to look for descriptors),
             \* "descwait" (asleep on free[0]), "iowait" (asleep on b),
             \* "ioready" (woken from that sleep)
  idx,       \* idx[p]: the descriptors of p's request; the least is idx[0]
  free,      \* descriptors with free[i] = 1
  info,      \* heads with info[i].b # 0
  desc,      \* desc[i]: the process whose request the chain at head i
             \* describes, if any (desc[], ops[])
  avail,     \* avail->idx and avail->ring, consumed entries blank
  taken,     \* the device's position in avail
  device,    \* requests the device works on: head, process, place in avail
  used,      \* used->idx and used->ring, consumed entries blank
  used_idx,  \* the driver's position in used
  killed,    \* processes with p->killed = 1
  done,      \* ghost: processes whose present request the device has done
             \* and virtio_disk_intr has seen
  panic      \* the kernel has stopped or the device was given a blank chain

vars == <<pc, idx, free, info, desc, avail, taken, device, used, used_idx,
          killed, done, panic>>

NoEntry == [id |-> NoDesc, proc |-> Nobody, at |-> 0]

Entry == [id : Desc, proc : Proc, at : 0..(IdxMod - 1)]

Min(S) == CHOOSE i \in S : \A j \in S : i <= j

\* The entries of a ring at positions from..to-1.
Window(from, to) ==
  {i \in 0..(IdxMod - 1) :
     IF from <= to THEN from <= i /\ i < to ELSE from <= i \/ i < to}

\* alloc_desc takes the first free descriptor, three times.
Three(S) ==
  LET a == Min(S)  b == Min(S \ {a})  c == Min(S \ {a, b})
  IN  {a, b, c}

SameBuf(p, q) == Shared \/ p = q

Sleepers(state, S) == {p \in S : pc[p] = state}

\* wakeup(): the processes of S become runnable.
Woken(S, f) ==
  [p \in Proc |-> IF p \notin S THEN f[p]
                  ELSE IF f[p] = "descwait" THEN "alloc"
                  ELSE IF f[p] = "iowait" THEN "ioready" ELSE f[p]]

-----------------------------------------------------------------------------

Init ==
  /\ pc = [p \in Proc |-> "idle"]
  /\ idx = [p \in Proc |-> {}]
  /\ free = Desc
  /\ info = [i \in Desc |-> Nobody]
  /\ desc = [i \in Desc |-> Nobody]
  /\ avail = [idx |-> 0, ring |-> [i \in Desc |-> NoDesc]]
  /\ taken = 0
  /\ device = {}
  /\ used = [idx |-> 0, ring |-> [i \in Desc |-> NoEntry]]
  /\ used_idx = 0
  /\ killed = {}
  /\ done = {}
  /\ panic = FALSE

\* A process calls virtio_disk_rw.
Call(p) ==
  /\ ~panic
  /\ pc[p] = "idle"
  /\ pc' = [pc EXCEPT ![p] = "alloc"]
  /\ done' = done \ {p}
  /\ UNCHANGED <<idx, free, info, desc, avail, taken, device, used, used_idx,
                 killed, panic>>

\* alloc3_desc succeeds: the chain is built and handed to the device, and
\* the process sleeps on b.
Submit(p) ==
  LET ds == Three(free)  h == Min(ds)
  IN  /\ ~panic
      /\ pc[p] = "alloc"
      /\ Cardinality(free) >= 3
      /\ free' = free \ ds
      /\ idx' = [idx EXCEPT ![p] = ds]
      /\ desc' = [desc EXCEPT ![h] = p]
      /\ info' = [info EXCEPT ![h] = p]
      /\ avail' = [idx |-> (avail.idx + 1) % IdxMod,
                   ring |-> [avail.ring EXCEPT ![avail.idx % NUM] = h]]
      /\ pc' = [pc EXCEPT ![p] = "iowait"]
      /\ UNCHANGED <<taken, device, used, used_idx, killed, done, panic>>

\* Fault: alloc3_desc keeps the descriptors it did get.
WaitForDescLeaking(p) ==
  /\ ~panic
  /\ pc[p] = "alloc"
  /\ Cardinality(free) < 3
  /\ free' = {}
  /\ pc' = [pc EXCEPT ![p] = "descwait"]
  /\ UNCHANGED <<idx, info, desc, avail, taken, device, used, used_idx,
                 killed, done, panic>>

\* alloc3_desc fails.  The one or two descriptors it did get go back through
\* free_desc, which wakes everybody who waits for descriptors; then the
\* process sleeps on free[0].
WaitForDesc(p) ==
  /\ ~panic
  /\ pc[p] = "alloc"
  /\ Cardinality(free) < 3
  /\ LET others == IF free = {} THEN {} ELSE Sleepers("descwait", Proc \ {p})
     IN  pc' = [Woken(others, pc) EXCEPT ![p] = "descwait"]
  /\ UNCHANGED <<idx, free, info, desc, avail, taken, device, used, used_idx,
                 killed, done, panic>>

\* Fault: free_desc does not wake those who wait for descriptors.
FinishSilently(p) ==
  /\ ~panic
  /\ pc[p] = "ioready"
  /\ info' = [info EXCEPT ![Min(idx[p])] = Nobody]
  /\ desc' = [desc EXCEPT ![Min(idx[p])] = Nobody]
  /\ free' = free \cup idx[p]
  /\ idx' = [idx EXCEPT ![p] = {}]
  /\ pc' = [pc EXCEPT ![p] = "idle"]
  /\ UNCHANGED <<avail, taken, device, used, used_idx, killed, done, panic>>

\* After sleep(b): info is cleared, free_chain frees the descriptors and
\* wakes those who wait for some, the call returns.
Finish(p) ==
  LET h == Min(idx[p])
  IN  /\ ~panic
      /\ pc[p] = "ioready"
      /\ info' = [info EXCEPT ![h] = Nobody]
      /\ desc' = [desc EXCEPT ![h] = Nobody]
      /\ panic' = (idx[p] \cap free # {})
      /\ free' = free \cup idx[p]
      /\ idx' = [idx EXCEPT ![p] = {}]
      /\ pc' = [Woken(Sleepers("descwait", Proc), pc) EXCEPT ![p] = "idle"]
      /\ UNCHANGED <<avail, taken, device, used, used_idx, killed, done>>

\* kill(): a sleeping process becomes runnable whatever it sleeps on.
Kill(p) ==
  /\ ~panic
  /\ p \in Killable \ killed
  /\ killed' = killed \cup {p}
  /\ pc' = Woken({p}, pc)
  /\ UNCHANGED <<idx, free, info, desc, avail, taken, device, used, used_idx,
                 done, panic>>

\* The device takes the next chain off the avail ring ...
DeviceTake ==
  LET h == avail.ring[taken % NUM]
  IN  /\ ~panic
      /\ taken # avail.idx
      /\ IF desc[h] = Nobody
           THEN /\ panic' = TRUE
                /\ UNCHANGED device
           ELSE /\ panic' = FALSE
                /\ device' = device \cup {[id |-> h, proc |-> desc[h], at |-> taken]}
      /\ avail' = [avail EXCEPT !.ring[taken % NUM] = NoDesc]
      /\ taken' = (taken + 1) % IdxMod
      /\ UNCHANGED <<pc, idx, free, info, desc, used, used_idx, killed, done>>

\* ... and completes the chains it has in any order.
DeviceDone(r) ==
  /\ ~panic
  /\ r \in device
  /\ device' = device \ {r}
  /\ used' = [idx |-> (used.idx + 1) % IdxMod,
              ring |-> [used.ring EXCEPT ![used.idx % NUM] = r]]
  /\ UNCHANGED <<pc, idx, free, info, desc, avail, taken, used_idx, killed, done, panic>>

\* Fault: if instead of while, so later entries are skipped ...
IntrOnce ==
  LET e == used.ring[used_idx % NUM]
  IN  /\ ~panic
      /\ used_idx # used.idx
      /\ pc' = Woken({p \in Sleepers("iowait", Proc) : p = info[e.id]}, pc)
      /\ done' = done \cup {e.proc}
      /\ used_idx' = used.idx
      /\ used' = [used EXCEPT !.ring = [i \in Desc |-> NoEntry]]
      /\ UNCHANGED <<idx, free, info, desc, avail, taken, device, killed, panic>>

\* ... or everybody is woken.
IntrWakesAll ==
  /\ ~panic
  /\ used_idx # used.idx
  /\ pc' = Woken(Sleepers("iowait", Proc), pc)
  /\ done' = done \cup {used.ring[used_idx % NUM].proc}
  /\ used_idx' = (used_idx + 1) % IdxMod
  /\ UNCHANGED <<idx, free, info, desc, avail, taken, device, used, killed, panic>>

\* virtio_disk_intr: every new entry of the used ring; the buffer of an entry
\* whose info[].b is 0 is a null pointer.
Intr ==
  LET new  == {used.ring[i % NUM] : i \in Window(used_idx, used.idx)}
      bufs == {info[e.id] : e \in new}
  IN  /\ ~panic
      /\ used_idx # used.idx
      /\ panic' = (Nobody \in bufs)
      /\ pc' = Woken({p \in Proc : pc[p] = "iowait" /\
                        \E q \in bufs \ {Nobody} : SameBuf(p, q)}, pc)
      /\ done' = done \cup {e.proc : e \in new}
      /\ used_idx' = used.idx
      /\ used' = [used EXCEPT !.ring = [i \in Desc |-> NoEntry]]
      /\ UNCHANGED <<idx, free, info, desc, avail, taken, device, killed>>

Next ==
  \/ \E p \in Proc : Call(p) \/ Submit(p) \/ WaitForDesc(p) \/ Finish(p) \/ Kill(p)
  \/ DeviceTake
  \/ \E r \in device : DeviceDone(r)
  \/ Intr

Spec == Init /\ [][Next]_vars

\* The device works, interrupts are delivered and the scheduler runs every
\* runnable process; nobody has to call.
Fairness ==
  /\ \A p \in Proc : WF_vars(Submit(p) \/ WaitForDesc(p)) /\ WF_vars(Finish(p))
  /\ WF_vars(DeviceTake)
  /\ \A p \in Proc : WF_vars(\E r \in device : r.proc = p /\ DeviceDone(r))
  /\ WF_vars(Intr)

FairSpec == Spec /\ Fairness

-----------------------------------------------------------------------------

TypeOK ==
  /\ pc \in [Proc -> {"idle", "alloc", "descwait", "iowait", "ioready"}]
  /\ idx \in [Proc -> SUBSET Desc]
  /\ free \subseteq Desc
  /\ info \in [Desc -> Proc \cup {Nobody}]
  /\ desc \in [Desc -> Proc \cup {Nobody}]
  /\ avail \in [idx : 0..(IdxMod - 1), ring : [Desc -> Desc \cup {NoDesc}]]
  /\ taken \in 0..(IdxMod - 1)
  /\ device \subseteq Entry
  /\ used \in [idx : 0..(IdxMod - 1),
               ring : [Desc -> Entry \cup {NoEntry}]]
  /\ used_idx \in 0..(IdxMod - 1)
  /\ killed \subseteq Killable
  /\ done \subseteq Proc
  /\ panic \in BOOLEAN

InFlight(p) == pc[p] \in {"iowait", "ioready"}

\* Every descriptor is free or belongs to exactly one request in flight, so
\* none is leaked, shared or freed twice (alloc3_desc, free_chain).
DescriptorsAccounted ==
  /\ \A p \in Proc : InFlight(p) <=> idx[p] # {}
  /\ \A p \in Proc : idx[p] # {} => Cardinality(idx[p]) = 3 /\ idx[p] \cap free = {}
  /\ \A p, q \in Proc : p # q => idx[p] \cap idx[q] = {}
  /\ free \cup UNION {idx[p] : p \in Proc} = Desc

\* The requests the rings and the device hold, with their places.
Pending ==
  {<<"avail", i, avail.ring[i % NUM], desc[avail.ring[i % NUM]]>> :
     i \in Window(taken, avail.idx)}
  \cup {<<"device", r.at, r.id, r.proc>> : r \in device}
  \cup {<<"used", i, used.ring[i % NUM].id, used.ring[i % NUM].proc>> :
          i \in Window(used_idx, used.idx)}

\* A request that the device has not been seen to finish is in exactly one
\* place (avail ring, device, used ring), under the head of its own chain and
\* with info[].b set: no completion is lost or delivered twice, and
\* virtio_disk_intr finds the buffer to wake the process with, also when the
\* 16-bit ring counters wrap around.
EachRequestOnce ==
  /\ \A e \in Pending : e[4] \in Proc /\ pc[e[4]] = "iowait"
                          /\ e[3] = Min(idx[e[4]]) /\ info[e[3]] = e[4]
  /\ \A p \in Proc : pc[p] = "iowait" =>
       Cardinality({e \in Pending : e[4] = p}) = 1

\* virtio_disk_rw goes on after its sleep only when the device has finished
\* the request (the comment there: "Wait for virtio_disk_intr() to say
\* request has finished").
ReturnsWhenDone == \A p \in Proc : pc[p] = "ioready" => p \in done

\* A request given to the device returns.
RequestReturns == \A p \in Proc : pc[p] = "iowait" ~> pc[p] = "idle"

\* A process that waits for descriptors is woken, and it does not wait
\* because everybody does: some request completes (the wakeup in free_desc).
DescWaiterWoken ==
  \A p \in Proc : pc[p] = "descwait" ~>
    (pc[p] # "descwait" /\ \E q \in Proc : pc[q] \in {"idle", "ioready"})

=============================================================================
