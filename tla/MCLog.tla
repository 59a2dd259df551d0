------------------------------- MODULE MCLog -------------------------------
(***************************************************************************)
(* The log of Log by itself, or one of three instances of BufferedLog,     *)
(* chosen in the initial state: reboots everywhere, readers that hold      *)
(* buffers while a commit runs, and three processes of which the log       *)
(* admits two.                                                             *)
(***************************************************************************)
EXTENDS Log

VARIABLES
  chosen,
  bhome, blogged, bhead, cache, blh, boutstanding, committing, phase, btail,
  bpc, left, slot, lslot, bpanic                                \* of BufferedLog

buffered == <<bhome, blogged, bhead, cache, blh, boutstanding, committing, phase, btail,
              bpc, left, slot, lslot, bpanic>>

Crashing == INSTANCE BufferedLog WITH
  Proc <- {"p1", "p2"}, Block <- {11, 12}, Value <- {<<0>>, <<1>>}, Fresh <- <<0>>,
  LOGSIZE <- 6, SIZE <- 6, MAXOPBLOCKS <- 3, MaxWrites <- 2, NBUF <- 3,
  Uses <- [p \in {"p1", "p2"} |-> {11, 12}],
  Readers <- {}, Killable <- {}, Crashes <- TRUE,
  home <- bhome, logged <- blogged, head <- bhead, lh <- blh, outstanding <- boutstanding,
  tail <- btail, pc <- bpc, panic <- bpanic

Reading == INSTANCE BufferedLog WITH
  Proc <- {"p1", "p2"}, Block <- {11, 12}, Value <- {<<0>>}, Fresh <- <<0>>,
  LOGSIZE <- 6, SIZE <- 6, MAXOPBLOCKS <- 3, MaxWrites <- 2, NBUF <- 3,
  Uses <- [p \in {"p1", "p2"} |-> {11, 12}],
  Readers <- {"p2"}, Killable <- {"p2"}, Crashes <- FALSE,
  home <- bhome, logged <- blogged, head <- bhead, lh <- blh, outstanding <- boutstanding,
  tail <- btail, pc <- bpc, panic <- bpanic

Filling == INSTANCE BufferedLog WITH
  Proc <- {"p1", "p2", "p3"}, Block <- {11, 12, 13}, Value <- {<<0>>}, Fresh <- <<0>>,
  LOGSIZE <- 4, SIZE <- 4, MAXOPBLOCKS <- 2, MaxWrites <- 1, NBUF <- 4,
  Uses <- [p1 |-> {11}, p2 |-> {12}, p3 |-> {13}],
  Readers <- {}, Killable <- {}, Crashes <- FALSE,
  home <- bhome, logged <- blogged, head <- bhead, lh <- blh, outstanding <- boutstanding,
  tail <- btail, pc <- bpc, panic <- bpanic

ASSUME LogConstants == LogAssumption

MCInit ==
  /\ Init
  /\ \/ chosen \in {"log", "crashing"} /\ Crashing!Init
     \/ chosen = "reading" /\ Reading!Init
     \/ chosen = "filling" /\ Filling!Init

MCNext ==
  \/ chosen = "log" /\ Next /\ UNCHANGED <<chosen, buffered>>
  \/ chosen = "crashing" /\ Crashing!Next /\ UNCHANGED <<chosen, vars>>
  \/ chosen = "reading" /\ Reading!Next /\ UNCHANGED <<chosen, vars>>
  \/ chosen = "filling" /\ Filling!Next /\ UNCHANGED <<chosen, vars>>

MCSpec == MCInit /\ [][MCNext]_<<chosen, vars, buffered>>

-----------------------------------------------------------------------------

\* The reservation of begin_op covers what system calls write, and the pinned
\* blocks leave buffers to commit with (log.c, bio.c: no panic).
NoPanic == bpanic = "no"

\* A block has one buffer, whose reference count is the number of processes
\* using or awaiting it plus one while the log pins it (bio.c: bget recycles
\* only buffers nobody will use); and the state has its type.
RefcntExact ==
  /\ chosen = "log" => TypeOK
  /\ chosen = "crashing" => Crashing!TypeOK /\ Crashing!RefcntExact
  /\ chosen = "reading" => Reading!TypeOK /\ Reading!RefcntExact
  /\ chosen = "filling" => Filling!TypeOK /\ Filling!RefcntExact

\* Behind the buffer cache the log behaves as Log says: no changed block is
\* evicted before it is installed, and commit copies what the calls wrote.
CacheTransparent ==
  /\ chosen = "crashing" => Crashing!Simple!Init
  /\ [][chosen = "crashing" => Crashing!Simple!Next]_(Crashing!Simple!vars)

=============================================================================
