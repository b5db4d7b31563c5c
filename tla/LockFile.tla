------------------------------ MODULE LockFile ------------------------------
(***************************************************************************)
(* The wkg.lock file of one working directory, as several wkg processes    *)
(* share it (crates/wasm-pkg-core/src/lock.rs).  A session is one command: *)
(* it loads the lock file (creating it when there is none), works with the *)
(* lock held, may write the file back, and drops the lock.                 *)
(*                                                                         *)
(* `write` truncates the file and then fills it, so between the two steps, *)
(* and for ever if the process dies or the write fails there, the file     *)
(* holds something that is not a lock file: Incomplete.                    *)
(***************************************************************************)
EXTENDS Naturals

CONSTANTS
  Proc,         \* the wkg processes started in this directory
  Contents,     \* what a complete lock file can hold: sets of locked packages
  NoPackages,   \* the contents `load` creates a missing file with
  Absent,       \* there is no file
  Incomplete,   \* an empty or half-written file: it has no version and does not parse
  InitialFile,  \* what the directory may hold when the first process starts
  Faults,       \* whether processes die and file operations fail
  MaxSessions   \* bound: how many commands each process slot runs

ASSUME LockFileAssumption ==
  /\ NoPackages \in Contents
  /\ Absent \notin Contents
  /\ Incomplete \notin Contents
  /\ Absent # Incomplete
  /\ InitialFile \subseteq Contents \cup {Absent}
  /\ Faults \in BOOLEAN
  /\ MaxSessions \in Nat

VARIABLES
  file,       \* the file's contents on disk
  shared,     \* the processes that hold flock(LOCK_SH) on it
  exclusive,  \* the processes that hold flock(LOCK_EX) on it
  pc,         \* where each process is in its session
  readonly,   \* the argument of `load`
  creating,   \* the process found no file, and holds or awaits `temp_lock`
  loaded,     \* the packages `load_from_path` parsed
  packages,   \* LockFile.packages in memory
  result,     \* how the latest session ended
  sessions    \* how many sessions the process slot has started

fileVars == <<file, shared, exclusive>>
procVars == <<pc, readonly, creating, loaded, packages, result, sessions>>
vars == <<fileVars, procVars>>

Phase == {"idle", "check", "open", "lock", "read", "work", "truncate", "write",
          "sync", "unlock"}
Result == {"none", "ok", "parse_error", "io_error", "crashed"}

Init ==
  /\ file \in InitialFile
  /\ shared = {}
  /\ exclusive = {}
  /\ pc = [p \in Proc |-> "idle"]
  /\ readonly = [p \in Proc |-> FALSE]
  /\ creating = [p \in Proc |-> FALSE]
  /\ loaded = [p \in Proc |-> NoPackages]
  /\ packages = [p \in Proc |-> NoPackages]
  /\ result = [p \in Proc |-> "none"]
  /\ sessions = [p \in Proc |-> 0]

Goto(p, from, to) ==
  /\ pc[p] = from
  /\ pc' = [pc EXCEPT ![p] = to]

-----------------------------------------------------------------------------
(* LockFile::load, up to the open file *)

\* A command starts: `publish` of one directory loads the file read-only, every
\* other command loads it read-write.
Start(p) ==
  /\ sessions[p] < MaxSessions
  /\ Goto(p, "idle", "check")
  /\ sessions' = [sessions EXCEPT ![p] = @ + 1]
  /\ \E ro \in BOOLEAN : readonly' = [readonly EXCEPT ![p] = ro]
  /\ result' = [result EXCEPT ![p] = "none"]
  /\ UNCHANGED <<fileVars, creating, loaded, packages>>

\* try_exists: decides, with no lock held, whether to create the file.
CheckExists(p) ==
  /\ Goto(p, "check", "open")
  /\ creating' = [creating EXCEPT ![p] = file = Absent]
  /\ UNCHANGED <<fileVars, readonly, loaded, packages, result, sessions>>

\* Variant: read-write sessions open with truncate(true), before they hold the lock.
OpenTruncating(p) ==
  /\ Goto(p, "open", "lock")
  /\ file' = IF file = Absent \/ ~readonly[p] THEN Incomplete ELSE file
  /\ UNCHANGED <<shared, exclusive, readonly, creating, loaded, packages,
                 result, sessions>>

\* OpenOptions::open; `open_rw` creates an empty file if there is none.
Open(p) ==
  /\ Goto(p, "open", "lock")
  /\ file' = IF file = Absent THEN Incomplete ELSE file
  /\ UNCHANGED <<shared, exclusive, readonly, creating, loaded, packages,
                 result, sessions>>

-----------------------------------------------------------------------------
(* Locker::open, Locker::drop: flock on the opened file *)

LockShared(p) ==
  /\ readonly[p] /\ ~creating[p]
  /\ exclusive = {}
  /\ Goto(p, "lock", "read")
  /\ shared' = shared \cup {p}
  /\ UNCHANGED <<file, exclusive, readonly, creating, loaded, packages, result,
                 sessions>>

\* Variant: the exclusive lock is granted although readers hold the file.
LockExclusiveOverReaders(p) ==
  /\ ~readonly[p] \/ creating[p]
  /\ exclusive = {}
  /\ Goto(p, "lock", IF creating[p] THEN "truncate" ELSE "read")
  /\ exclusive' = exclusive \cup {p}
  /\ packages' = IF creating[p] THEN [packages EXCEPT ![p] = NoPackages]
                                ELSE packages
  /\ UNCHANGED <<file, shared, readonly, creating, loaded, result, sessions>>

\* The lock of a read-write session, and `temp_lock` of a process that found no
\* file: the latter goes straight to `write` with no packages.
LockExclusive(p) ==
  /\ ~readonly[p] \/ creating[p]
  /\ exclusive = {} /\ shared = {}
  /\ Goto(p, "lock", IF creating[p] THEN "truncate" ELSE "read")
  /\ exclusive' = exclusive \cup {p}
  /\ packages' = IF creating[p] THEN [packages EXCEPT ![p] = NoPackages]
                                ELSE packages
  /\ UNCHANGED <<file, shared, readonly, creating, loaded, result, sessions>>

\* Variant: `temp_lock` is still alive when `load` calls `load_from_path`.
UnlockKeepingTemp(p) ==
  /\ Goto(p, "unlock", IF result[p] = "none" THEN "open" ELSE "idle")
  /\ creating' = [creating EXCEPT ![p] = FALSE]
  /\ shared' = shared \ {p}
  /\ exclusive' = IF result[p] = "none" THEN exclusive ELSE exclusive \ {p}
  /\ UNCHANGED <<file, readonly, loaded, packages, result, sessions>>

\* Dropping the Locker.  With `temp_lock` written and dropped, `load` goes on to
\* `load_from_path`; otherwise the command is over.
Unlock(p) ==
  /\ Goto(p, "unlock", IF result[p] = "none" THEN "open" ELSE "idle")
  /\ creating' = [creating EXCEPT ![p] = FALSE]
  /\ shared' = shared \ {p}
  /\ exclusive' = exclusive \ {p}
  /\ UNCHANGED <<file, readonly, loaded, packages, result, sessions>>

-----------------------------------------------------------------------------
(* LockFile::load_from_path: the contents *)

\* Variant: an empty or half-written file is taken for a lock file.
ParseAnything(p) ==
  /\ Goto(p, "read", "work")
  /\ loaded' = [loaded EXCEPT ![p] = file]
  /\ packages' = [packages EXCEPT ![p] = file]
  /\ UNCHANGED <<fileVars, readonly, creating, result, sessions>>

Parse(p) ==
  /\ file \in Contents
  /\ Goto(p, "read", "work")
  /\ loaded' = [loaded EXCEPT ![p] = file]
  /\ packages' = [packages EXCEPT ![p] = file]
  /\ UNCHANGED <<fileVars, readonly, creating, result, sessions>>

ParseError(p) ==
  /\ file \notin Contents
  /\ Goto(p, "read", "unlock")
  /\ result' = [result EXCEPT ![p] = "parse_error"]
  /\ UNCHANGED <<fileVars, readonly, creating, loaded, packages, sessions>>

-----------------------------------------------------------------------------
(* The command's work under the lock, and LockFile::write *)

\* `build`, `fetch` and `update` replace the packages by what they resolved.
UpdateDependencies(p) ==
  /\ ~readonly[p]
  /\ Goto(p, "work", "truncate")
  /\ \E c \in Contents : packages' = [packages EXCEPT ![p] = c]
  /\ UNCHANGED <<fileVars, readonly, creating, loaded, result, sessions>>

\* `publish` writes no lock file; a command that fails before `write` neither.
Finish(p) ==
  /\ Goto(p, "work", "unlock")
  /\ result' = [result EXCEPT ![p] = "ok"]
  /\ UNCHANGED <<fileVars, readonly, creating, loaded, packages, sessions>>

Truncate(p) ==
  /\ Goto(p, "truncate", "write")
  /\ file' = Incomplete
  /\ UNCHANGED <<shared, exclusive, readonly, creating, loaded, packages,
                 result, sessions>>

WriteContents(p) ==
  /\ Goto(p, "write", "sync")
  /\ file' = packages[p]
  /\ UNCHANGED <<shared, exclusive, readonly, creating, loaded, packages,
                 result, sessions>>

Sync(p) ==
  /\ Goto(p, "sync", "unlock")
  /\ result' = IF creating[p] THEN result ELSE [result EXCEPT ![p] = "ok"]
  /\ UNCHANGED <<fileVars, readonly, creating, loaded, packages, sessions>>

-----------------------------------------------------------------------------
(* Faults *)

\* A read, set_len, write or sync fails: `?` returns the error, which drops the
\* Locker (and, in `load`, `temp_lock`).
IOError(p) ==
  /\ Faults
  /\ \E from \in {"read", "truncate", "write", "sync"} : Goto(p, from, "unlock")
  /\ result' = [result EXCEPT ![p] = "io_error"]
  /\ UNCHANGED <<fileVars, readonly, creating, loaded, packages, sessions>>

\* The process is killed: the kernel closes the file and with it the flock.
Crash(p) ==
  /\ Faults
  /\ pc[p] # "idle"
  /\ pc' = [pc EXCEPT ![p] = "idle"]
  /\ creating' = [creating EXCEPT ![p] = FALSE]
  /\ result' = [result EXCEPT ![p] = "crashed"]
  /\ shared' = shared \ {p}
  /\ exclusive' = exclusive \ {p}
  /\ UNCHANGED <<file, readonly, loaded, packages, sessions>>

-----------------------------------------------------------------------------
Step(p) ==
  \/ CheckExists(p) \/ Open(p)
  \/ LockShared(p) \/ LockExclusive(p) \/ Unlock(p)
  \/ Parse(p) \/ ParseError(p)
  \/ UpdateDependencies(p) \/ Finish(p)
  \/ Truncate(p) \/ WriteContents(p) \/ Sync(p)

\* Every slot has run its sessions: the system may stop.
Done ==
  /\ \A p \in Proc : pc[p] = "idle" /\ sessions[p] = MaxSessions
  /\ UNCHANGED vars

Next ==
  \/ \E p \in Proc : Start(p) \/ Step(p) \/ IOError(p) \/ Crash(p)
  \/ Done

\* A started process keeps running: the operating system schedules it, and
\* grants a flock that stays free.  Nothing forces a command to be started, a
\* process to die or an operation to fail.
Fairness == \A p \in Proc : WF_vars(Step(p))

Spec == Init /\ [][Next]_vars /\ Fairness

-----------------------------------------------------------------------------
(* Properties *)

\* The one type invariant: in particular, what is loaded and what is written back
\* is always a complete lock file.
TypeOK ==
  /\ file \in Contents \cup {Absent, Incomplete}
  /\ shared \subseteq Proc
  /\ exclusive \subseteq Proc
  /\ pc \in [Proc -> Phase]
  /\ readonly \in [Proc -> BOOLEAN]
  /\ creating \in [Proc -> BOOLEAN]
  /\ loaded \in [Proc -> Contents]
  /\ packages \in [Proc -> Contents]
  /\ result \in [Proc -> Result]
  /\ sessions \in [Proc -> 0 .. MaxSessions]

\* What a command loaded is still what the file holds when the command decides
\* what to do and when it truncates the file (no update is computed from, and no
\* publish checked against, packages another process has replaced meanwhile), and
\* what it wrote is still there when `write` syncs and reports success.
HeldFile ==
  \A p \in Proc :
    /\ pc[p] \in {"work", "truncate"} /\ ~creating[p] => file = loaded[p]
    /\ pc[p] = "sync" => file = packages[p]

\* A started command comes to an end, whatever the others do: no two sessions
\* wait for each other, and `load` does not wait for its own `temp_lock`.
SessionsEnd == \A p \in Proc : pc[p] # "idle" ~> pc[p] = "idle"

\* `load`: "If the file is not found, a new file is created and a default empty
\* lockfile is returned."  The new file replaces nothing: what the creating write
\* truncates never holds packages that a session has committed.
CreatesOverNothing ==
  \A p \in Proc : pc[p] = "truncate" /\ creating[p] => file \in {Incomplete, NoPackages}

\* `load` "will block until the lock is acquired", and returns the lock file then:
\* no session finds the file of another one still unwritten.
LoadParses == \A p \in Proc : result[p] # "parse_error"
=============================================================================
