------------------------- MODULE LockFileRefinement -------------------------
(***************************************************************************)
(* The lock file protocol implements SerialLockFile.  While a writer is    *)
(* between truncating the file and filling it, the store still has the     *)
(* value the writer loaded (nobody else can look): the commit is the step  *)
(* that completes the file.  A creating process resets the store when it   *)
(* truncates the file.                                                     *)
(***************************************************************************)
EXTENDS LockFile

Rewriting == {p \in Proc : pc[p] = "write"}

storeBar ==
  IF Rewriting = {} THEN file
  ELSE LET p == CHOOSE q \in Rewriting : TRUE
       IN  IF creating[p] THEN NoPackages ELSE loaded[p]

sessionBar ==
  [p \in Proc |->
     CASE p \in shared -> "reader"
       [] p \in exclusive /\ ~creating[p] -> "writer"
       [] OTHER -> "out"]

Serial == INSTANCE SerialLockFile WITH
            store <- storeBar,
            session <- sessionBar,
            view <- loaded,
            initializing <- {p \in Proc : creating[p]}

\* Every step of the lock file protocol is a step of the serial store or
\* invisible in it: readers and writers are serialized, each commit is based on
\* the value the session loaded, and the value is lost only by a writer that
\* dies or fails while it writes or reset only by a process that found no file.
SerialStore == Serial!Spec
=============================================================================
