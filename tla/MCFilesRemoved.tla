--------------------------- MODULE MCFilesRemoved ---------------------------
(***************************************************************************)
(* FileSystem with two processes of which one removes a directory while    *)
(* the other creates a file in it.                                         *)
(***************************************************************************)
EXTENDS FileSystem

MCCalls ==
  {[kind |-> k, path |-> <<"/", "a">>] : k \in {"mkdir", "unlink"}}
  \cup {[kind |-> "mknod", path |-> <<"/", "a", "b">>], [kind |-> "fork"]}

=============================================================================
