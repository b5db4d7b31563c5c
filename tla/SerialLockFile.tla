--------------------------- MODULE SerialLockFile ---------------------------
(***************************************************************************)
(* What the lock file promises, with no file system in it: a store of one  *)
(* value.  A session sees the value the store has while it is in; only a   *)
(* writer that is alone replaces the value, in one step, and from the value*)
(* it saw.  Two things spoil this, and are said openly: a writer that dies *)
(* or fails in its commit may lose the value, and a process that found no  *)
(* store when it looked resets it, whatever has happened since it looked.  *)
(***************************************************************************)
CONSTANTS Proc, Contents, NoPackages, Absent, Incomplete, InitialFile

VARIABLES
  store,         \* the value
  session,       \* "out", "reader" or "writer" of each process
  view,          \* the value each process saw last
  initializing   \* the processes that found no store

vars == <<store, session, view, initializing>>

Init ==
  /\ store \in InitialFile
  /\ session = [p \in Proc |-> "out"]
  /\ view = [p \in Proc |-> NoPackages]
  /\ initializing = {}

Alone(p) == \A q \in Proc \ {p} : session[q] = "out"

FindNothing(p) ==
  /\ store = Absent
  /\ initializing' = initializing \cup {p}
  /\ UNCHANGED <<store, session, view>>

\* The store exists from here on, and has no value yet.
Touch(p) ==
  /\ store = Absent
  /\ p \in initializing
  /\ store' = Incomplete
  /\ UNCHANGED <<session, view, initializing>>

Reset(p) ==
  /\ p \in initializing
  /\ \A q \in Proc : session[q] = "out"
  /\ store' = NoPackages
  /\ UNCHANGED <<session, view, initializing>>

Enter(p) ==
  /\ session[p] = "out" /\ p \notin initializing
  /\ \/ /\ \A q \in Proc : session[q] # "writer"
        /\ session' = [session EXCEPT ![p] = "reader"]
     \/ /\ Alone(p)
        /\ session' = [session EXCEPT ![p] = "writer"]
  /\ UNCHANGED <<store, view, initializing>>

See(p) ==
  /\ session[p] # "out"
  /\ store \in Contents
  /\ view' = [view EXCEPT ![p] = store]
  /\ UNCHANGED <<store, session, initializing>>

Commit(p) ==
  /\ session[p] = "writer" /\ Alone(p)
  /\ view[p] = store
  /\ store' \in Contents
  /\ UNCHANGED <<session, view, initializing>>

Out(p) ==
  /\ session' = [session EXCEPT ![p] = "out"]
  /\ initializing' = initializing \ {p}

\* The value is lost in a commit or a reset that did not complete.
Lose(p) ==
  /\ session[p] = "writer" \/ p \in initializing
  /\ Alone(p)
  /\ store' = Incomplete
  /\ Out(p) \/ UNCHANGED <<session, initializing>>
  /\ UNCHANGED view

Leave(p) ==
  /\ Out(p)
  /\ UNCHANGED <<store, view>>

Next ==
  \E p \in Proc :
    \/ FindNothing(p) \/ Touch(p) \/ Reset(p)
    \/ Enter(p) \/ See(p) \/ Commit(p) \/ Lose(p) \/ Leave(p)

Spec == Init /\ [][Next]_vars
=============================================================================
