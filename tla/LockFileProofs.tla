--------------------------- MODULE LockFileProofs ---------------------------
(***************************************************************************)
(* Proofs about LockFile, for any number of processes, sessions and        *)
(* package sets, and with faults.                                          *)
(***************************************************************************)
EXTENDS LockFileRefinement, TLAPS

\* A process between taking the flock and dropping it.
Holding(p) == pc[p] \in {"read", "work", "truncate", "write", "sync", "unlock"}

\* Whether the lock a process takes is exclusive.
Exclusively(p) == ~readonly[p] \/ creating[p]

\* The kernel's lock table agrees with where the processes are.
LockTable ==
  /\ shared = {p \in Proc : Holding(p) /\ ~Exclusively(p)}
  /\ exclusive = {p \in Proc : Holding(p) /\ Exclusively(p)}

\* A process that holds the lock exclusively is the only one that holds it.
Exclusion ==
  \A p, q \in Proc : Holding(p) /\ Exclusively(p) /\ Holding(q) => p = q

\* Only a process that asked for the exclusive lock rewrites the file.
WritersExclusive ==
  \A p \in Proc : pc[p] \in {"truncate", "write", "sync"} => Exclusively(p)

\* The file exists once a process has opened it, and is incomplete while one
\* rewrites it.
Existence ==
  \A p \in Proc :
    /\ pc[p] = "open" /\ file = Absent => creating[p]
    /\ pc[p] \notin {"idle", "check", "open"} => file # Absent
    /\ pc[p] = "write" => file = Incomplete

\* A creating process is on its way to write, or is writing, no packages.
CreatingEmpty ==
  \A p \in Proc : creating[p] =>
    /\ pc[p] \in {"open", "lock", "truncate", "write", "sync", "unlock"}
    /\ pc[p] \in {"truncate", "write"} => packages[p] = NoPackages

IInv ==
  /\ TypeOK
  /\ LockTable
  /\ Exclusion
  /\ WritersExclusive
  /\ Existence
  /\ CreatingEmpty
  /\ HeldFile

-----------------------------------------------------------------------------
\* Every step of the code is one of these.
LEMMA StepCases ==
  ASSUME [Next]_vars
  PROVE  \/ \E p \in Proc : Start(p) \/ Step(p) \/ IOError(p) \/ Crash(p)
         \/ UNCHANGED vars
BY DEF Next, Done

\* Every step of the code preserves the types.
LEMMA TypeStep == TypeOK /\ [Next]_vars => TypeOK'
<1> SUFFICES ASSUME TypeOK, [Next]_vars
             PROVE  TypeOK'
  OBVIOUS
<1> USE LockFileAssumption DEF TypeOK, Phase, Result, Goto, fileVars
<1>1. ASSUME NEW p \in Proc, Start(p) PROVE TypeOK'
  BY <1>1 DEF Start
<1>2. ASSUME NEW p \in Proc, CheckExists(p) PROVE TypeOK'
  BY <1>2 DEF CheckExists
<1>3. ASSUME NEW p \in Proc, Open(p) PROVE TypeOK'
  BY <1>3 DEF Open
<1>4. ASSUME NEW p \in Proc, LockShared(p) PROVE TypeOK'
  BY <1>4 DEF LockShared
<1>5. ASSUME NEW p \in Proc, LockExclusive(p) PROVE TypeOK'
  BY <1>5 DEF LockExclusive
<1>6. ASSUME NEW p \in Proc, Unlock(p) PROVE TypeOK'
  BY <1>6 DEF Unlock
<1>7. ASSUME NEW p \in Proc, Parse(p) PROVE TypeOK'
  BY <1>7 DEF Parse
<1>8. ASSUME NEW p \in Proc, ParseError(p) PROVE TypeOK'
  BY <1>8 DEF ParseError
<1>9. ASSUME NEW p \in Proc, UpdateDependencies(p) PROVE TypeOK'
  BY <1>9 DEF UpdateDependencies
<1>10. ASSUME NEW p \in Proc, Finish(p) PROVE TypeOK'
  BY <1>10 DEF Finish
<1>11. ASSUME NEW p \in Proc, Truncate(p) PROVE TypeOK'
  BY <1>11 DEF Truncate
<1>12. ASSUME NEW p \in Proc, WriteContents(p) PROVE TypeOK'
  BY <1>12 DEF WriteContents
<1>13. ASSUME NEW p \in Proc, Sync(p) PROVE TypeOK'
  BY <1>13 DEF Sync
<1>14. ASSUME NEW p \in Proc, IOError(p) PROVE TypeOK'
  BY <1>14 DEF IOError
<1>15. ASSUME NEW p \in Proc, Crash(p) PROVE TypeOK'
  BY <1>15 DEF Crash
<1>16. CASE UNCHANGED vars
  BY <1>16 DEF vars, procVars
<1> QED
  BY <1>1, <1>2, <1>3, <1>4, <1>5, <1>6, <1>7, <1>8,
     <1>9, <1>10, <1>11, <1>12, <1>13, <1>14, <1>15, <1>16, StepCases DEF Step

\* The inductive invariant holds when the first process starts.
LEMMA InvInit == Init => IInv
BY LockFileAssumption
   DEF Init, IInv, TypeOK, Phase, Result, LockTable, Exclusion, WritersExclusive,
       Existence, CreatingEmpty, HeldFile, Holding, Exclusively

\* The inductive invariant is preserved by every step: a step that rewrites the
\* file is taken by a process that holds the lock alone, so no other process is
\* between loading the file and using what it loaded.
LEMMA InvStep == IInv /\ [Next]_vars => IInv'
<1> SUFFICES ASSUME IInv, [Next]_vars
             PROVE  IInv'
  OBVIOUS
<1>0. TypeOK /\ TypeOK'
  BY TypeStep DEF IInv
<1> USE <1>0, LockFileAssumption
    DEF IInv, TypeOK, LockTable, Exclusion, WritersExclusive, Existence,
        CreatingEmpty, HeldFile, Holding, Exclusively, Goto, fileVars
<1>1. ASSUME NEW p \in Proc, Start(p) PROVE IInv'
  BY <1>1 DEF Start
<1>2. ASSUME NEW p \in Proc, CheckExists(p) PROVE IInv'
  <2>1. CASE file = Absent
    <3>1. creating' = [creating EXCEPT ![p] = TRUE]
      BY <1>2, <2>1 DEF CheckExists
    <3> QED
      BY <1>2, <2>1, <3>1 DEF CheckExists
  <2>2. CASE file # Absent
    <3>1. creating' = [creating EXCEPT ![p] = FALSE]
      BY <1>2, <2>2 DEF CheckExists
    <3> QED
      BY <1>2, <2>2, <3>1 DEF CheckExists
  <2> QED
    BY <2>1, <2>2
<1>3. ASSUME NEW p \in Proc, Open(p) PROVE IInv'
  BY <1>3 DEF Open
<1>4. ASSUME NEW p \in Proc, LockShared(p) PROVE IInv'
  BY <1>4 DEF LockShared
<1>5. ASSUME NEW p \in Proc, LockExclusive(p) PROVE IInv'
  BY <1>5 DEF LockExclusive
<1>6. ASSUME NEW p \in Proc, Unlock(p) PROVE IInv'
  BY <1>6 DEF Unlock
<1>7. ASSUME NEW p \in Proc, Parse(p) PROVE IInv'
  BY <1>7 DEF Parse
<1>8. ASSUME NEW p \in Proc, ParseError(p) PROVE IInv'
  BY <1>8 DEF ParseError
<1>9. ASSUME NEW p \in Proc, UpdateDependencies(p) PROVE IInv'
  BY <1>9 DEF UpdateDependencies
<1>10. ASSUME NEW p \in Proc, Finish(p) PROVE IInv'
  BY <1>10 DEF Finish
<1>11. ASSUME NEW p \in Proc, Truncate(p) PROVE IInv'
  BY <1>11 DEF Truncate
<1>12. ASSUME NEW p \in Proc, WriteContents(p) PROVE IInv'
  BY <1>12 DEF WriteContents
<1>13. ASSUME NEW p \in Proc, Sync(p) PROVE IInv'
  BY <1>13 DEF Sync
<1>14. ASSUME NEW p \in Proc, IOError(p) PROVE IInv'
  BY <1>14 DEF IOError
<1>15. ASSUME NEW p \in Proc, Crash(p) PROVE IInv'
  BY <1>15 DEF Crash
<1>16. CASE UNCHANGED vars
  BY <1>16 DEF vars, procVars
<1> QED
  BY <1>1, <1>2, <1>3, <1>4, <1>5, <1>6, <1>7, <1>8,
     <1>9, <1>10, <1>11, <1>12, <1>13, <1>14, <1>15, <1>16, StepCases DEF Step

-----------------------------------------------------------------------------
\* Types are preserved by every step of the code, whatever the interleaving.
THEOREM TypeCorrect == Spec => []TypeOK
<1>1. Init => TypeOK
  BY InvInit DEF IInv
<1> QED
  BY <1>1, TypeStep, PTL DEF Spec

\* Between loading the lock file and truncating it, and between writing and
\* syncing it, the file is what the session believes it to be, for any number of
\* concurrent commands, deaths and I/O errors.
THEOREM FileHeld == Spec => []HeldFile
<1>1. IInv => HeldFile
  BY DEF IInv
<1> QED
  BY <1>1, InvInit, InvStep, PTL DEF Spec

-----------------------------------------------------------------------------
\* What the refinement mapping says of the store, in each phase of the file.
StoreMapping ==
  /\ \A p \in Proc :
       pc[p] = "write" => storeBar = IF creating[p] THEN NoPackages ELSE loaded[p]
  /\ (\A p \in Proc : pc[p] # "write") => storeBar = file

\* The mapping of the file to the store is well defined: at most one process is
\* rewriting the file.
LEMMA StoreMapped == IInv => StoreMapping
<1> SUFFICES ASSUME IInv
             PROVE  StoreMapping
  OBVIOUS
<1>1. ASSUME NEW p \in Proc, pc[p] = "write"
      PROVE  storeBar = IF creating[p] THEN NoPackages ELSE loaded[p]
  <2>1. Rewriting = {p}
    BY <1>1 DEF IInv, Exclusion, WritersExclusive, Holding, Rewriting
  <2> QED
    BY <2>1 DEF storeBar
<1>2. (\A p \in Proc : pc[p] # "write") => storeBar = file
  BY DEF storeBar, Rewriting
<1> QED
  BY <1>1, <1>2 DEF StoreMapping

\* A directory before the first process is a serial store before the first session.
LEMMA RefinesInit == Init => Serial!Init
<1> SUFFICES ASSUME Init
             PROVE  Serial!Init
  OBVIOUS
<1>1. storeBar = file
  BY DEF Init, storeBar, Rewriting
<1> QED
  BY <1>1 DEF Init, sessionBar, Serial!Init

\* Each step of the file protocol is a step of the serial store, or none.
LEMMA RefinesStep == IInv /\ IInv' /\ [Next]_vars => [Serial!Next]_Serial!vars
<1> SUFFICES ASSUME IInv, IInv', [Next]_vars
             PROVE  [Serial!Next]_Serial!vars
  OBVIOUS
<1>0. StoreMapping /\ StoreMapping'
  BY StoreMapped, PTL

<1> USE <1>0, LockFileAssumption
    DEF IInv, TypeOK, LockTable, Exclusion, WritersExclusive, Existence,
        CreatingEmpty, HeldFile, Holding, Exclusively, Goto, fileVars,
        StoreMapping, sessionBar
<1>1. ASSUME NEW p \in Proc, Start(p) PROVE UNCHANGED Serial!vars
  <2>1. UNCHANGED <<sessionBar, loaded, creating>>
    BY <1>1 DEF Start
  <2>2. UNCHANGED storeBar
    BY <1>1 DEF Start
  <2> QED
    BY <2>1, <2>2 DEF Serial!vars
<1>2. ASSUME NEW p \in Proc, ParseError(p) PROVE UNCHANGED Serial!vars
  <2>1. UNCHANGED <<sessionBar, loaded, creating>>
    BY <1>2 DEF ParseError
  <2>2. UNCHANGED storeBar
    BY <1>2 DEF ParseError
  <2> QED
    BY <2>1, <2>2 DEF Serial!vars
<1>3. ASSUME NEW p \in Proc, UpdateDependencies(p) PROVE UNCHANGED Serial!vars
  <2>1. UNCHANGED <<sessionBar, loaded, creating>>
    BY <1>3 DEF UpdateDependencies
  <2>2. UNCHANGED storeBar
    BY <1>3 DEF UpdateDependencies
  <2> QED
    BY <2>1, <2>2 DEF Serial!vars
<1>4. ASSUME NEW p \in Proc, Finish(p) PROVE UNCHANGED Serial!vars
  <2>1. UNCHANGED <<sessionBar, loaded, creating>>
    BY <1>4 DEF Finish
  <2>2. UNCHANGED storeBar
    BY <1>4 DEF Finish
  <2> QED
    BY <2>1, <2>2 DEF Serial!vars
<1>5. ASSUME NEW p \in Proc, Sync(p) PROVE UNCHANGED Serial!vars
  <2>1. UNCHANGED <<sessionBar, loaded, creating>>
    BY <1>5 DEF Sync
  <2>2. UNCHANGED storeBar
    BY <1>5 DEF Sync
  <2> QED
    BY <2>1, <2>2 DEF Serial!vars
<1>6. ASSUME NEW p \in Proc, CheckExists(p) PROVE Serial!FindNothing(p) \/ UNCHANGED Serial!vars
  <2>1. UNCHANGED <<sessionBar, storeBar, loaded>>
    BY <1>6 DEF CheckExists
  <2>2. CASE file = Absent
    <3>1. creating' = [creating EXCEPT ![p] = TRUE]
      BY <1>6, <2>2 DEF CheckExists
    <3>2. storeBar = Absent
      BY <2>2
    <3> QED
      BY <2>1, <3>1, <3>2 DEF Serial!FindNothing
  <2>3. CASE file # Absent
    <3>1. UNCHANGED creating
      BY <1>6, <2>3 DEF CheckExists
    <3> QED
      BY <2>1, <3>1 DEF Serial!vars
  <2> QED
    BY <2>2, <2>3
<1>7. ASSUME NEW p \in Proc, Open(p) PROVE Serial!Touch(p) \/ UNCHANGED Serial!vars
  <2>1. UNCHANGED <<sessionBar, loaded, creating>>
    BY <1>7 DEF Open
  <2>2. CASE file = Absent
    <3>1. storeBar = Absent /\ storeBar' = Incomplete
      BY <1>7, <2>2 DEF Open
    <3> QED
      BY <1>7, <2>1, <2>2, <3>1 DEF Open, Serial!Touch
  <2>3. CASE file # Absent
    <3>1. UNCHANGED storeBar
      BY <1>7, <2>3 DEF Open
    <3> QED
      BY <2>1, <3>1 DEF Serial!vars
  <2> QED
    BY <2>2, <2>3
<1>8. ASSUME NEW p \in Proc, LockShared(p) PROVE Serial!Enter(p)
  <2>1. UNCHANGED <<storeBar, loaded, creating>>
    BY <1>8 DEF LockShared
  <2>2. sessionBar' = [sessionBar EXCEPT ![p] = "reader"]
    BY <1>8 DEF LockShared
  <2>3. sessionBar[p] = "out" /\ \A q \in Proc : sessionBar[q] # "writer"
    BY <1>8 DEF LockShared
  <2> QED
    BY <1>8, <2>1, <2>2, <2>3 DEF LockShared, Serial!Enter
<1>9. ASSUME NEW p \in Proc, LockExclusive(p) PROVE Serial!Enter(p) \/ UNCHANGED Serial!vars
  <2>1. UNCHANGED <<storeBar, loaded, creating>>
    BY <1>9 DEF LockExclusive
  <2>2. \A q \in Proc : sessionBar[q] = "out"
    BY <1>9 DEF LockExclusive
  <2>3. CASE creating[p]
    <3>1. UNCHANGED sessionBar
      BY <1>9, <2>3 DEF LockExclusive
    <3> QED
      BY <2>1, <3>1 DEF Serial!vars
  <2>4. CASE ~creating[p]
    <3>1. sessionBar' = [sessionBar EXCEPT ![p] = "writer"]
      BY <1>9, <2>4 DEF LockExclusive
    <3> QED
      BY <2>1, <2>2, <2>4, <3>1 DEF Serial!Enter, Serial!Alone
  <2> QED
    BY <2>3, <2>4
<1>10. ASSUME NEW p \in Proc, Unlock(p) PROVE Serial!Leave(p)
  <2>1. UNCHANGED <<storeBar, loaded>>
    BY <1>10 DEF Unlock
  <2>2. sessionBar' = [sessionBar EXCEPT ![p] = "out"]
    BY <1>10 DEF Unlock
  <2>3. creating' = [creating EXCEPT ![p] = FALSE]
    BY <1>10 DEF Unlock
  <2> QED
    BY <2>1, <2>2, <2>3 DEF Serial!Leave, Serial!Out
<1>11. ASSUME NEW p \in Proc, Parse(p) PROVE Serial!See(p)
  <2>1. UNCHANGED <<storeBar, sessionBar, creating>>
    BY <1>11 DEF Parse
  <2>2. storeBar = file /\ sessionBar[p] # "out"
    BY <1>11 DEF Parse
  <2> QED
    BY <1>11, <2>1, <2>2 DEF Parse, Serial!See
<1>12. ASSUME NEW p \in Proc, Truncate(p) PROVE Serial!Reset(p) \/ UNCHANGED Serial!vars
  <2>1. UNCHANGED <<sessionBar, loaded, creating>>
    BY <1>12 DEF Truncate
  <2>2. storeBar = file
    BY <1>12 DEF Truncate
  <2>3. CASE creating[p]
    <3>1. storeBar' = NoPackages
      BY <1>12, <2>3 DEF Truncate
    <3>2. \A q \in Proc : sessionBar[q] = "out"
      BY <1>12, <2>3 DEF Truncate
    <3> QED
      BY <2>1, <2>3, <3>1, <3>2 DEF Serial!Reset
  <2>4. CASE ~creating[p]
    <3>1. UNCHANGED storeBar
      BY <1>12, <2>2, <2>4 DEF Truncate
    <3> QED
      BY <2>1, <3>1 DEF Serial!vars
  <2> QED
    BY <2>3, <2>4
<1>13. ASSUME NEW p \in Proc, WriteContents(p) PROVE Serial!Commit(p) \/ UNCHANGED Serial!vars
  <2>1. UNCHANGED <<sessionBar, loaded, creating>>
    BY <1>13 DEF WriteContents
  <2>2. storeBar' = packages[p]
    BY <1>13 DEF WriteContents
  <2>3. CASE creating[p]
    <3>1. UNCHANGED storeBar
      BY <1>13, <2>2, <2>3 DEF WriteContents
    <3> QED
      BY <2>1, <3>1 DEF Serial!vars
  <2>4. CASE ~creating[p]
    <3>1. storeBar = loaded[p]
      BY <1>13, <2>4 DEF WriteContents
    <3>2. sessionBar[p] = "writer" /\ \A q \in Proc \ {p} : sessionBar[q] = "out"
      BY <1>13, <2>4 DEF WriteContents
    <3> QED
      BY <2>1, <2>2, <3>1, <3>2 DEF Serial!Commit, Serial!Alone
  <2> QED
    BY <2>3, <2>4
<1>14. ASSUME NEW p \in Proc, IOError(p) PROVE Serial!Lose(p) \/ UNCHANGED Serial!vars
  <2>1. UNCHANGED <<sessionBar, loaded, creating>>
    BY <1>14 DEF IOError
  <2>2. CASE pc[p] = "write"
    <3>1. storeBar' = Incomplete
      BY <1>14, <2>2 DEF IOError
    <3>2. sessionBar[p] = "writer" \/ creating[p]
      BY <2>2
    <3>3. \A q \in Proc \ {p} : sessionBar[q] = "out"
      BY <2>2
    <3> QED
      BY <2>1, <3>1, <3>2, <3>3 DEF Serial!Lose, Serial!Alone
  <2>3. CASE pc[p] # "write"
    <3>1. UNCHANGED storeBar
      BY <1>14, <2>3 DEF IOError
    <3> QED
      BY <2>1, <3>1 DEF Serial!vars
  <2> QED
    BY <2>2, <2>3
<1>15. ASSUME NEW p \in Proc, Crash(p) PROVE Serial!Lose(p) \/ Serial!Leave(p)
  <2>1. UNCHANGED loaded
    BY <1>15 DEF Crash
  <2>2. Serial!Out(p)
    <3>1. sessionBar' = [sessionBar EXCEPT ![p] = "out"]
      BY <1>15 DEF Crash
    <3>2. creating' = [creating EXCEPT ![p] = FALSE]
      BY <1>15 DEF Crash
    <3> QED
      BY <3>1, <3>2 DEF Serial!Out
  <2>3. CASE pc[p] = "write"
    <3>1. storeBar' = Incomplete
      BY <1>15, <2>3 DEF Crash
    <3>2. sessionBar[p] = "writer" \/ creating[p]
      BY <2>3
    <3>3. \A q \in Proc \ {p} : sessionBar[q] = "out"
      BY <2>3
    <3> QED
      BY <2>1, <2>2, <3>1, <3>2, <3>3 DEF Serial!Lose, Serial!Alone
  <2>4. CASE pc[p] # "write"
    <3>1. UNCHANGED storeBar
      BY <1>15, <2>4 DEF Crash
    <3> QED
      BY <2>1, <2>2, <3>1 DEF Serial!Leave
  <2> QED
    BY <2>3, <2>4
<1>16. CASE UNCHANGED vars
  BY <1>16 DEF vars, procVars, storeBar, Rewriting, Serial!vars
<1> QED
  BY <1>1, <1>2, <1>3, <1>4, <1>5, <1>6, <1>7, <1>8, <1>9, <1>10, <1>11, <1>12,
     <1>13, <1>14, <1>15, <1>16, StepCases DEF Step, Serial!Next

\* The file protocol, with its locks, its truncate-then-write, its deaths and its
\* I/O errors, implements the serial store.
THEOREM Refinement == Spec => SerialStore
BY RefinesInit, RefinesStep, InvInit, InvStep, PTL DEF Spec, SerialStore, Serial!Spec

-----------------------------------------------------------------------------
\* With a lock file in place and nothing failing, what a session finds is either
\* complete or being rewritten by the process that holds the lock.
CompleteOrHeld ==
  /\ \A p \in Proc : ~creating[p] /\ result[p] # "parse_error"
  /\ file \in Contents \/ \E p \in Proc : pc[p] = "write"

\* Where the lock file exists beforehand and no process dies or fails, `load`
\* always finds a complete file: only the creation of the file, deaths and I/O
\* errors can make it report a parse error.
THEOREM ParsesFromExisting ==
  ASSUME ~Faults, Absent \notin InitialFile
  PROVE  Spec => []LoadParses
<1>1. Init => CompleteOrHeld
  BY LockFileAssumption DEF Init, CompleteOrHeld
<1>2. IInv /\ CompleteOrHeld /\ [Next]_vars => CompleteOrHeld'
  <2> SUFFICES ASSUME IInv, CompleteOrHeld, [Next]_vars
               PROVE  CompleteOrHeld'
    OBVIOUS
  <2> USE LockFileAssumption
      DEF CompleteOrHeld, IInv, TypeOK, LockTable, Exclusion, WritersExclusive,
          Holding, Exclusively, Goto, fileVars
  <2>0. file # Absent
    BY DEF Existence
  <2>1. ASSUME NEW p \in Proc, Start(p) \/ CheckExists(p) \/ Open(p)
        PROVE  CompleteOrHeld'
    <3>1. CASE CheckExists(p)
      <4>1. UNCHANGED creating
        BY <2>0, <3>1 DEF CheckExists
      <4> QED
        BY <3>1, <4>1 DEF CheckExists
    <3> QED
      BY <2>0, <2>1, <3>1 DEF Start, Open
  <2>2. ASSUME NEW p \in Proc, LockShared(p) \/ LockExclusive(p) \/ Unlock(p)
        PROVE  CompleteOrHeld'
    BY <2>2 DEF LockShared, LockExclusive, Unlock
  <2>3. ASSUME NEW p \in Proc, Parse(p) \/ ParseError(p)
        PROVE  CompleteOrHeld'
    BY <2>3 DEF Parse, ParseError
  <2>4. ASSUME NEW p \in Proc, UpdateDependencies(p) \/ Finish(p) \/ Sync(p)
        PROVE  CompleteOrHeld'
    BY <2>4 DEF UpdateDependencies, Finish, Sync
  <2>5. ASSUME NEW p \in Proc, Truncate(p) \/ WriteContents(p)
        PROVE  CompleteOrHeld'
    BY <2>5 DEF Truncate, WriteContents
  <2>6. CASE UNCHANGED vars
    BY <2>6 DEF vars, procVars
  <2> QED
    BY <2>1, <2>2, <2>3, <2>4, <2>5, <2>6, StepCases DEF Step, IOError, Crash
<1>3. CompleteOrHeld => LoadParses
  BY DEF CompleteOrHeld, LoadParses
<1> QED
  BY <1>1, <1>2, <1>3, InvInit, InvStep, PTL DEF Spec

-----------------------------------------------------------------------------
\* With a lock file in place no process ever finds none, nor sets about creating one.
NoneCreating == file # Absent /\ \A p \in Proc : ~creating[p]

\* Where the lock file exists beforehand nothing is erased, whoever dies or fails and
\* whatever is half-written: the only write of no packages is that of a process that
\* found no file, and nobody removes the file.
THEOREM ErasesNothingExisting ==
  ASSUME Absent \notin InitialFile
  PROVE  Spec => []CreatesOverNothing
<1>1. Init => NoneCreating
  BY DEF Init, NoneCreating
<1>2. IInv /\ NoneCreating /\ [Next]_vars => NoneCreating'
  <2> SUFFICES ASSUME IInv, NoneCreating, [Next]_vars
               PROVE  NoneCreating'
    OBVIOUS
  <2> USE LockFileAssumption DEF NoneCreating, IInv, TypeOK, Goto, fileVars
  <2>1. ASSUME NEW p \in Proc, CheckExists(p)
        PROVE  NoneCreating'
    <3>1. creating' = [creating EXCEPT ![p] = FALSE] /\ UNCHANGED file
      BY <2>1 DEF CheckExists
    <3> QED
      BY <3>1
  <2>2. ASSUME NEW p \in Proc,
               Start(p) \/ Open(p) \/ LockShared(p) \/ LockExclusive(p) \/ Unlock(p)
        PROVE  NoneCreating'
    BY <2>2 DEF Start, Open, LockShared, LockExclusive, Unlock
  <2>3. ASSUME NEW p \in Proc,
               \/ Parse(p) \/ ParseError(p) \/ UpdateDependencies(p) \/ Finish(p)
               \/ Truncate(p) \/ WriteContents(p) \/ Sync(p)
        PROVE  NoneCreating'
    BY <2>3 DEF Parse, ParseError, UpdateDependencies, Finish, Truncate,
                WriteContents, Sync
  <2>4. ASSUME NEW p \in Proc, IOError(p) \/ Crash(p)
        PROVE  NoneCreating'
    BY <2>4 DEF IOError, Crash
  <2>5. CASE UNCHANGED vars
    BY <2>5 DEF vars, procVars
  <2> QED
    BY <2>1, <2>2, <2>3, <2>4, <2>5, StepCases DEF Step
<1>3. NoneCreating => CreatesOverNothing
  BY DEF NoneCreating, CreatesOverNothing
<1> QED
  BY <1>1, <1>2, <1>3, InvInit, InvStep, PTL DEF Spec

\* A process that found no file finds no packages in the file it creates.
NothingToErase ==
  \A p \in Proc : creating[p] /\ pc[p] \in {"open", "lock", "truncate"} =>
    file \in {Absent, Incomplete}

\* Commands that follow one another, however many of them die or fail, erase nothing:
\* the packages that a creating process may erase are those of a process that ran
\* beside it.
THEOREM ErasesNothingAlone ==
  ASSUME \A p, q \in Proc : p = q
  PROVE  Spec => []CreatesOverNothing
<1>1. Init => NothingToErase
  BY DEF Init, NothingToErase
<1>2. IInv /\ NothingToErase /\ [Next]_vars => NothingToErase'
  <2> SUFFICES ASSUME IInv, NothingToErase, [Next]_vars, NEW p \in Proc
               PROVE  (creating[p] /\ pc[p] \in {"open", "lock", "truncate"} =>
                        file \in {Absent, Incomplete})'
    BY DEF NothingToErase
  <2> USE LockFileAssumption DEF NothingToErase, IInv, TypeOK, Goto, fileVars
  <2>1. CASE CheckExists(p)
    <3>1. creating'[p] => file = Absent
      BY <2>1 DEF CheckExists
    <3> QED
      BY <2>1, <3>1 DEF CheckExists
  <2>2. CASE Start(p) \/ Open(p) \/ LockShared(p) \/ LockExclusive(p) \/ Unlock(p)
    BY <2>2 DEF Start, Open, LockShared, LockExclusive, Unlock, CreatingEmpty
  <2>3. CASE \/ Parse(p) \/ ParseError(p) \/ UpdateDependencies(p) \/ Finish(p)
             \/ Truncate(p) \/ WriteContents(p) \/ Sync(p)
    BY <2>3 DEF Parse, ParseError, UpdateDependencies, Finish, Truncate,
                WriteContents, Sync, CreatingEmpty
  <2>4. CASE IOError(p) \/ Crash(p)
    BY <2>4 DEF IOError, Crash
  <2>5. CASE UNCHANGED vars
    BY <2>5 DEF vars, procVars
  <2> QED
    BY <2>1, <2>2, <2>3, <2>4, <2>5, StepCases DEF Step
<1>3. IInv /\ NothingToErase => CreatesOverNothing
  BY DEF IInv, Existence, NothingToErase, CreatesOverNothing
<1> QED
  BY <1>1, <1>2, <1>3, InvInit, InvStep, PTL DEF Spec
=============================================================================
