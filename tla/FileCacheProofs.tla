-------------------------- MODULE FileCacheProofs --------------------------
(***************************************************************************)
(* Proofs about FileCache, for any number of clients, digests and pieces,  *)
(* with faults and with clients of different registries.                   *)
(***************************************************************************)
EXTENDS FileCache, TLAPS

\* A client knows its digest before it writes the release or looks for content,
\* has a content file once it has created or found it, and delivers nothing before.
KnownRelease ==
  \A c \in Client :
    /\ pc[c] \in {"create_release", "write_release", "find", "fetch", "create",
                  "copy", "landing", "reopen", "serve", "left_content"} =>
         release[c] \in Digest
    /\ pc[c] \in {"copy", "landing", "reopen", "serve"} => data[release[c]] # Absent
    /\ pc[c] = "landing" => offset[c] <= Chunks
    /\ pc[c] \notin {"serve", "served", "failed"} => intact[c]

\* A client that found its entry whole and at rest still does, and has been given
\* nothing else.
WarmReading ==
  \A c \in Client : warm[c] =>
    /\ intact[c]
    /\ pc[c] = "serve" => AtRest(release[c]) /\ data[release[c]] = Whole
    /\ pc[c] \in {"serve", "served", "failed"}

IInv ==
  /\ TypeOK
  /\ KnownRelease
  /\ MissingAnsweredFor
  /\ WarmReading

-----------------------------------------------------------------------------
\* Every step of the code is one of these.
LEMMA StepCases ==
  ASSUME [Next]_vars
  PROVE  \/ \E c \in Client : Step(c) \/ Fail(c)
         \/ UNCHANGED vars
BY DEF Next, Done

\* A client writes a piece to the file of its digest, and nothing else.
LEMMA PieceWritten ==
  ASSUME TypeOK, NEW c \in Client, release[c] \in Digest, data[release[c]] # Absent,
         offset[c] <= Chunks, WritePiece(c)
  PROVE  /\ data' \in [Digest -> Content \cup {Absent}]
         /\ \A d \in Digest : data'[d] = Absent <=> data[d] = Absent
         /\ \A d \in Digest : d # release[c] => data'[d] = data[d]
         /\ \A k \in 1 .. Chunks :
              data'[release[c]][k] = IF k = offset[c] THEN IF right[c] THEN "good" ELSE "bad"
                                     ELSE data[release[c]][k]
<1> DEFINE v == IF right[c] THEN "good" ELSE "bad"
           file == [data[release[c]] EXCEPT ![offset[c]] = v]
<1>1. data[release[c]] \in Content
  BY DEF TypeOK
<1>2. file \in Content /\ \A k \in 1 .. Chunks :
        file[k] = IF k = offset[c] THEN v ELSE data[release[c]][k]
  BY <1>1 DEF Content, Piece
<1>3. data' = [data EXCEPT ![release[c]] = file]
  BY DEF WritePiece
<1> HIDE DEF file
<1> QED
  BY <1>2, <1>3, AbsentAssumption DEF TypeOK

\* Types, and what a client knows where, are preserved by every step.
LEMMA TypeStep ==
  TypeOK /\ KnownRelease /\ [Next]_vars => TypeOK' /\ KnownRelease'
<1> SUFFICES ASSUME TypeOK, KnownRelease, [Next]_vars
             PROVE  TypeOK' /\ KnownRelease'
  OBVIOUS
<1> USE FileCacheAssumption, AbsentAssumption
    DEF TypeOK, KnownRelease, Phase, Ended, Goto, Missed, fileVars
<1>1. ASSUME NEW c \in Client, FindRelease(c) PROVE TypeOK' /\ KnownRelease'
  BY <1>1 DEF FindRelease
<1>2. ASSUME NEW c \in Client, ReadRelease(c) PROVE TypeOK' /\ KnownRelease'
  BY <1>2 DEF ReadRelease
<1>3. ASSUME NEW c \in Client, AskRelease(c) PROVE TypeOK' /\ KnownRelease'
  BY <1>3 DEF AskRelease
<1>4. ASSUME NEW c \in Client, CreateRelease(c) PROVE TypeOK' /\ KnownRelease'
  BY <1>4 DEF CreateRelease
<1>5. ASSUME NEW c \in Client, WriteRelease(c) PROVE TypeOK' /\ KnownRelease'
  BY <1>5 DEF WriteRelease
<1>6. ASSUME NEW c \in Client, Find(c) PROVE TypeOK' /\ KnownRelease'
  BY <1>6 DEF Find
<1>7. ASSUME NEW c \in Client, Fetch(c) PROVE TypeOK' /\ KnownRelease'
  BY <1>7 DEF Fetch
<1>8. ASSUME NEW c \in Client, Create(c) PROVE TypeOK' /\ KnownRelease'
  <2>1. Empty \in Content
    BY DEF Empty, Content, Piece
  <2> QED
    BY <1>8, <2>1 DEF Create
<1>9. ASSUME NEW c \in Client, Copy(c) \/ Land(c) PROVE TypeOK' /\ KnownRelease'
  <2>1. /\ release[c] \in Digest /\ data[release[c]] # Absent
        /\ offset[c] \in 1 .. Chunks /\ offset[c] + 1 \in 1 .. Chunks + 1
        /\ WritePiece(c)
    BY <1>9 DEF Copy, Land
  <2>2. /\ data' \in [Digest -> Content \cup {Absent}]
        /\ \A d \in Digest : data'[d] = Absent <=> data[d] = Absent
    BY <2>1, PieceWritten
  <2>3. CASE Copy(c)
    BY <2>1, <2>2, <2>3 DEF Copy
  <2>4. CASE Land(c)
    BY <2>1, <2>2, <2>4 DEF Land
  <2> QED
    BY <1>9, <2>3, <2>4
<1>10. ASSUME NEW c \in Client, CopyEnd(c) PROVE TypeOK' /\ KnownRelease'
  BY <1>10 DEF CopyEnd
<1>11. ASSUME NEW c \in Client, Reopen(c) PROVE TypeOK' /\ KnownRelease'
  BY <1>11 DEF Reopen
<1>12. ASSUME NEW c \in Client, Deliver(c) PROVE TypeOK' /\ KnownRelease'
  <2>1. offset[c] \in 1 .. Chunks
    BY <1>12 DEF Deliver, EndsBefore
  <2> QED
    BY <1>12, <2>1 DEF Deliver
<1>13. ASSUME NEW c \in Client, DeliverEnd(c) PROVE TypeOK' /\ KnownRelease'
  BY <1>13 DEF DeliverEnd
<1>14. ASSUME NEW c \in Client, Fail(c) PROVE TypeOK' /\ KnownRelease'
  BY <1>14 DEF Fail
<1>15. CASE UNCHANGED vars
  BY <1>15 DEF vars, clientVars
<1> QED
  BY <1>1, <1>2, <1>3, <1>4, <1>5, <1>6, <1>7, <1>8, <1>9, <1>10, <1>11,
     <1>12, <1>13, <1>14, <1>15, StepCases DEF Step

-----------------------------------------------------------------------------
\* An entry at rest stays at rest, and as it is: a client starts to fill an entry
\* only when it finds none.
LEMMA RestStep ==
  ASSUME TypeOK, KnownRelease, [Next]_vars, NEW d \in Digest, AtRest(d)
  PROVE  AtRest(d)' /\ data'[d] = data[d]
<1> USE FileCacheAssumption, AbsentAssumption
    DEF TypeOK, KnownRelease, AtRest, Fillers, Goto, Missed, fileVars
<1>1. ASSUME NEW c \in Client,
             FindRelease(c) \/ ReadRelease(c) \/ AskRelease(c) \/ CreateRelease(c)
             \/ WriteRelease(c)
      PROVE  AtRest(d)' /\ data'[d] = data[d]
  BY <1>1 DEF FindRelease, ReadRelease, AskRelease, CreateRelease, WriteRelease
<1>2. ASSUME NEW c \in Client, Find(c) PROVE AtRest(d)' /\ data'[d] = data[d]
  BY <1>2 DEF Find
<1>3. ASSUME NEW c \in Client, Fetch(c) \/ Create(c)
      PROVE  AtRest(d)' /\ data'[d] = data[d]
  BY <1>3 DEF Fetch, Create
<1>4. ASSUME NEW c \in Client, Copy(c) \/ Land(c) PROVE AtRest(d)' /\ data'[d] = data[d]
  <2>1. release[c] # d
    BY <1>4 DEF Copy, Land
  <2>2. data'[d] = data[d]
    <3>1. /\ release[c] \in Digest /\ data[release[c]] # Absent
          /\ offset[c] <= Chunks /\ WritePiece(c)
      BY <1>4 DEF Copy, Land
    <3> QED
      BY <2>1, <3>1, PieceWritten
  <2> QED
    BY <1>4, <2>2 DEF Copy, Land
<1>5. ASSUME NEW c \in Client,
             CopyEnd(c) \/ Reopen(c) \/ Deliver(c) \/ DeliverEnd(c)
      PROVE  AtRest(d)' /\ data'[d] = data[d]
  BY <1>5 DEF CopyEnd, Reopen, Deliver, DeliverEnd
<1>6. ASSUME NEW c \in Client, Fail(c) PROVE AtRest(d)' /\ data'[d] = data[d]
  BY <1>6 DEF Fail
<1>7. CASE UNCHANGED vars
  BY <1>7 DEF vars, clientVars
<1> QED
  BY <1>1, <1>2, <1>3, <1>4, <1>5, <1>6, <1>7, StepCases DEF Step

\* The inductive invariant holds on an empty cache.
LEMMA InvInit == Init => IInv
BY FileCacheAssumption, AbsentAssumption
   DEF Init, IInv, TypeOK, Phase, Ended, KnownRelease, MissingAnsweredFor, WarmReading

\* Whoever answers for a piece still does after a client has copied another one.
LEMMA CopyKeeps ==
  ASSUME TypeOK, NEW c \in Client, Copy(c), NEW b \in Client,
         NEW d \in Digest, NEW k \in 1 .. Chunks,
         d # release[c] \/ k # offset[c], Answers(b, d, k)
  PROVE  Answers(b, d, k)'
<1>1. UNCHANGED <<pc, release, right>>
  BY DEF Copy
<1>2. CASE b # c
  <2>1. offset'[b] = offset[b]
    BY <1>2 DEF Copy
  <2> QED
    BY <1>1, <2>1 DEF Answers
<1>3. CASE b = c
  <2>1. offset'[c] = offset[c] + 1 /\ offset[c] \in Nat /\ k \in Nat
    BY FileCacheAssumption DEF Copy, TypeOK
  <2>2. k # offset[c] /\ (offset[c] <= k \/ ~right[c]) /\ pc[c] = "copy"
    BY <1>3 DEF Copy, Answers
  <2>3. offset[c] <= k => offset'[c] <= k
    BY <2>1, <2>2
  <2> QED
    BY <1>1, <1>3, <2>2, <2>3 DEF Answers
<1> QED
  BY <1>2, <1>3

\* A piece that is missing or wrong after a step is answered for: the client that
\* truncates answers for all of them, and one that copies leaves the pieces it
\* has yet to write to itself, and the others to whoever answered for them.
LEMMA MissingStep ==
  TypeOK /\ KnownRelease /\ MissingAnsweredFor /\ [Next]_vars => MissingAnsweredFor'
<1> SUFFICES ASSUME TypeOK, KnownRelease, MissingAnsweredFor, [Next]_vars
             PROVE  MissingAnsweredFor'
  OBVIOUS
<1> USE FileCacheAssumption, AbsentAssumption
    DEF TypeOK, KnownRelease, MissingAnsweredFor, Answers, Goto, Missed, fileVars
<1>1. ASSUME NEW c \in Client, FindRelease(c) PROVE MissingAnsweredFor'
  BY <1>1 DEF FindRelease
<1>2. ASSUME NEW c \in Client, ReadRelease(c) PROVE MissingAnsweredFor'
  BY <1>2 DEF ReadRelease
<1>3. ASSUME NEW c \in Client, AskRelease(c) PROVE MissingAnsweredFor'
  BY <1>3 DEF AskRelease
<1>4. ASSUME NEW c \in Client, CreateRelease(c) PROVE MissingAnsweredFor'
  BY <1>4 DEF CreateRelease
<1>5. ASSUME NEW c \in Client, WriteRelease(c) PROVE MissingAnsweredFor'
  BY <1>5 DEF WriteRelease
<1>6. ASSUME NEW c \in Client, Find(c) PROVE MissingAnsweredFor'
  BY <1>6 DEF Find
<1>7. ASSUME NEW c \in Client, Fetch(c) PROVE MissingAnsweredFor'
  BY <1>7 DEF Fetch
<1>8. ASSUME NEW c \in Client, Create(c) PROVE MissingAnsweredFor'
  <2>1. ASSUME NEW d \in Digest, data'[d] # Absent, NEW k \in 1 .. Chunks,
               data'[d][k] # "good"
        PROVE  \E b \in Client : Answers(b, d, k)'
    <3>1. CASE d = release[c]
      BY <1>8, <3>1 DEF Create
    <3>2. CASE d # release[c]
      BY <1>8, <2>1, <3>2 DEF Create
    <3> QED
      BY <3>1, <3>2
  <2>2. releaseFile' = Incomplete =>
          \E b \in Client : pc'[b] \in {"write_release", "left_release"}
    BY <1>8 DEF Create
  <2> QED
    BY <2>1, <2>2
<1>9. ASSUME NEW c \in Client, Copy(c) \/ Land(c) PROVE MissingAnsweredFor'
  <2>0. /\ release[c] \in Digest /\ data[release[c]] # Absent
        /\ offset[c] \in 1 .. Chunks /\ WritePiece(c)
    BY <1>9 DEF Copy, Land
  <2>1. ASSUME NEW d \in Digest, data'[d] # Absent, NEW k \in 1 .. Chunks,
               data'[d][k] # "good"
        PROVE  \E b \in Client : Answers(b, d, k)'
    <3>1. CASE d = release[c] /\ k = offset[c]
      <4>1. data'[d][k] = IF right[c] THEN "good" ELSE "bad"
        BY <2>0, <3>1, PieceWritten
      <4>2. ~right[c]
        BY <2>1, <4>1
      <4>3. Answers(c, d, k)'
        BY <1>9, <3>1, <4>2 DEF Copy, Land
      <4> QED
        BY <4>3
    <3>2. CASE d # release[c] \/ k # offset[c]
      <4>1. data'[d][k] = data[d][k] /\ data[d] # Absent
        BY <2>0, <2>1, <3>2, PieceWritten
      <4>2. PICK b \in Client : Answers(b, d, k)
        BY <2>1, <4>1
      <4>3. CASE Copy(c)
        BY <3>2, <4>2, <4>3, CopyKeeps
      <4>4. CASE Land(c)
        BY <4>2, <4>4 DEF Land
      <4> QED
        BY <1>9, <4>3, <4>4
    <3> QED
      BY <3>1, <3>2
  <2>2. releaseFile' = Incomplete =>
          \E b \in Client : pc'[b] \in {"write_release", "left_release"}
    BY <1>9 DEF Copy, Land
  <2> QED
    BY <2>1, <2>2
<1>10. ASSUME NEW c \in Client, CopyEnd(c) PROVE MissingAnsweredFor'
  BY <1>10 DEF CopyEnd
<1>11. ASSUME NEW c \in Client, Reopen(c) PROVE MissingAnsweredFor'
  BY <1>11 DEF Reopen
<1>12. ASSUME NEW c \in Client, Deliver(c) PROVE MissingAnsweredFor'
  BY <1>12 DEF Deliver
<1>13. ASSUME NEW c \in Client, DeliverEnd(c) PROVE MissingAnsweredFor'
  BY <1>13 DEF DeliverEnd
<1>14. ASSUME NEW c \in Client, Fail(c) PROVE MissingAnsweredFor'
  <2>1. ASSUME NEW b \in Client
        PROVE  /\ pc[b] \in {"left_content", "landing", "copy"} =>
                    pc'[b] \in {pc[b], "landing", "left_content"}
               /\ pc[b] \in {"left_content", "landing"} =>
                    pc'[b] \in {"landing", "left_content"}
               /\ pc[b] \in {"left_release", "write_release"} =>
                    pc'[b] \in {"left_release", "write_release"}
    BY <1>14 DEF Fail, Ended
  <2>2. UNCHANGED <<fileVars, release, right, offset>>
    BY <1>14 DEF Fail
  <2>3. ASSUME NEW b \in Client, NEW d \in Digest, NEW k \in 1 .. Chunks, Answers(b, d, k)
        PROVE  Answers(b, d, k)'
    BY <2>1, <2>2, <2>3
  <2> QED
    BY <2>1, <2>2, <2>3
<1>15. CASE UNCHANGED vars
  BY <1>15 DEF vars, clientVars
<1> QED
  BY <1>1, <1>2, <1>3, <1>4, <1>5, <1>6, <1>7, <1>8, <1>9, <1>10, <1>11,
     <1>12, <1>13, <1>14, <1>15, StepCases DEF Step

\* A client that reads an entry found whole and at rest gets good pieces only, and
\* all of them: the entry stays whole and at rest while it reads.
LEMMA WarmStep ==
  TypeOK /\ KnownRelease /\ WarmReading /\ [Next]_vars => WarmReading'
<1> SUFFICES ASSUME TypeOK, KnownRelease, WarmReading, [Next]_vars,
                    NEW b \in Client, warm'[b]
             PROVE  /\ intact'[b]
                    /\ pc'[b] = "serve" =>
                         AtRest(release[b])' /\ data'[release'[b]] = Whole
                    /\ pc'[b] \in {"serve", "served", "failed"}
  BY DEF WarmReading
<1> DEFINE Good == /\ intact'[b]
                   /\ pc'[b] = "serve" =>
                        AtRest(release[b])' /\ data'[release'[b]] = Whole
                   /\ pc'[b] \in {"serve", "served", "failed"}
<1>1. CASE warm[b] /\ pc[b] # "serve"
  <2>1. pc[b] \in {"served", "failed"} /\ intact[b]
    BY <1>1 DEF WarmReading
  <2>2. pc'[b] = pc[b] /\ intact'[b] = intact[b]
    <3> USE <2>1 DEF TypeOK, Goto
    <3>1. ASSUME NEW c \in Client,
                 \/ FindRelease(c) \/ ReadRelease(c)
                 \/ AskRelease(c) \/ CreateRelease(c) \/ WriteRelease(c)
          PROVE  pc'[b] = pc[b] /\ intact'[b] = intact[b]
      BY <3>1 DEF FindRelease, ReadRelease, AskRelease, CreateRelease, WriteRelease
    <3>2. ASSUME NEW c \in Client,
                 \/ Find(c) \/ Fetch(c) \/ Create(c) \/ Copy(c)
                 \/ CopyEnd(c) \/ Land(c) \/ Reopen(c)
          PROVE  pc'[b] = pc[b] /\ intact'[b] = intact[b]
      BY <3>2 DEF Find, Fetch, Create, Copy, CopyEnd, Land, Reopen
    <3>3. ASSUME NEW c \in Client, Deliver(c) \/ DeliverEnd(c) \/ Fail(c)
          PROVE  pc'[b] = pc[b] /\ intact'[b] = intact[b]
      BY <3>3 DEF Deliver, DeliverEnd, Fail, Ended
    <3>4. CASE UNCHANGED vars
      BY <3>4 DEF vars, clientVars
    <3> QED
      BY <3>1, <3>2, <3>3, <3>4, StepCases DEF Step
  <2> QED
    BY <2>1, <2>2
<1>2. CASE warm[b] /\ pc[b] = "serve"
  <2>1. PICK d \in Digest : d = release[b]
    BY <1>2 DEF KnownRelease
  <2>2. intact[b] /\ AtRest(d) /\ data[d] = Whole
    BY <1>2, <2>1 DEF WarmReading
  <2>3. AtRest(d)' /\ data'[d] = Whole
    BY <2>2, RestStep
  <2>4. release'[b] = d /\ pc'[b] \in {"serve", "served", "failed"}
    <3> USE <1>2, <2>1 DEF TypeOK, Goto, fileVars
    <3>1. ASSUME NEW c \in Client,
                 \/ FindRelease(c) \/ ReadRelease(c)
                 \/ AskRelease(c) \/ CreateRelease(c) \/ WriteRelease(c)
          PROVE  release'[b] = d /\ pc'[b] = "serve"
      BY <3>1 DEF FindRelease, ReadRelease, AskRelease, CreateRelease, WriteRelease
    <3>2. ASSUME NEW c \in Client,
                 \/ Find(c) \/ Fetch(c) \/ Create(c) \/ Copy(c)
                 \/ CopyEnd(c) \/ Land(c) \/ Reopen(c)
          PROVE  release'[b] = d /\ pc'[b] = "serve"
      BY <3>2 DEF Find, Fetch, Create, Copy, CopyEnd, Land, Reopen
    <3>3. ASSUME NEW c \in Client, Deliver(c) \/ DeliverEnd(c) \/ Fail(c)
          PROVE  release'[b] = d /\ pc'[b] \in {"serve", "served", "failed"}
      BY <3>3 DEF Deliver, DeliverEnd, Fail
    <3>4. CASE UNCHANGED vars
      BY <3>4 DEF vars, clientVars
    <3> QED
      BY <3>1, <3>2, <3>3, <3>4, StepCases DEF Step
  <2>5. intact'[b]
    <3>1. ASSUME Deliver(b) PROVE intact'[b]
      <4>1. offset[b] \in 1 .. Chunks
        BY <3>1, FileCacheAssumption DEF TypeOK, Deliver, EndsBefore
      <4> QED
        BY <2>1, <2>2, <3>1, <4>1 DEF TypeOK, Deliver, Whole
    <3>2. ASSUME DeliverEnd(b) PROVE intact'[b]
      <4>1. offset[b] > Chunks
        <5>1. SUFFICES ASSUME offset[b] \in 1 .. Chunks
                       PROVE  FALSE
          BY FileCacheAssumption DEF TypeOK
        <5>2. offset[b] \in offset[b] .. Chunks
          BY <5>1, FileCacheAssumption
        <5> QED
          BY <2>1, <2>2, <3>2, <5>1, <5>2 DEF DeliverEnd, EndsBefore, Whole
      <4>2. (intact[b] /\ offset[b] > Chunks) = TRUE
        BY <2>2, <4>1
      <4>3. intact' = [intact EXCEPT ![b] = TRUE]
        BY <3>2, <4>2 DEF DeliverEnd
      <4> QED
        BY <4>3 DEF TypeOK
    <3>3. ASSUME NEW c \in Client, c # b, Deliver(c) \/ DeliverEnd(c)
          PROVE  intact'[b]
      BY <2>2, <3>3 DEF TypeOK, Deliver, DeliverEnd
    <3>4. CASE UNCHANGED intact
      BY <2>2, <3>4
    <3> QED
      BY <3>1, <3>2, <3>3, <3>4, StepCases
         DEF vars, clientVars, Step, FindRelease, ReadRelease, AskRelease,
             CreateRelease, WriteRelease, Find, Fetch, Create, Copy, CopyEnd, Land,
             Reopen, Fail
  <2> QED
    BY <2>3, <2>4, <2>5
<1>3. CASE ~warm[b]
  <2>1. PICK c \in Client : Find(c)
    BY <1>3, StepCases
       DEF vars, fileVars, clientVars, Step, FindRelease, ReadRelease, AskRelease,
           CreateRelease, WriteRelease, Fetch, Create, Copy, CopyEnd, Land, Reopen,
           Deliver, DeliverEnd, Fail
  <2>2. c = b /\ release[b] \in Digest
    BY <1>3, <2>1 DEF TypeOK, KnownRelease, Find, Goto
  <2>3. PICK d \in Digest : d = release[b]
    BY <2>2
  <2>4. AtRest(d) /\ data[d] = Whole
    BY <2>1, <2>2, <2>3 DEF TypeOK, Find
  <2>5. AtRest(d)' /\ data'[d] = Whole
    BY <2>4, RestStep
  <2>6. release'[b] = d /\ pc'[b] = "serve"
    BY <2>1, <2>2, <2>3, <2>4 DEF TypeOK, Find, Goto, AtRest
  <2>7. intact'[b]
    BY <2>1, <2>2 DEF KnownRelease, Find, Goto
  <2> QED
    BY <2>5, <2>6, <2>7
<1> QED
  BY <1>1, <1>2, <1>3

\* The inductive invariant is preserved by every step.
LEMMA InvStep == IInv /\ [Next]_vars => IInv'
BY TypeStep, MissingStep, WarmStep DEF IInv

-----------------------------------------------------------------------------
\* Types are preserved by every step of the code, whatever the interleaving.
THEOREM TypeCorrect == Spec => []TypeOK
<1>1. IInv => TypeOK
  BY DEF IInv
<1> QED
  BY <1>1, InvInit, InvStep, PTL DEF Spec

\* For any number of clients filling, truncating and reading one another's files,
\* what is missing or wrong in the cache has somebody who will still write it or
\* who failed or died writing it.
THEOREM MissingIsAnsweredFor == Spec => []MissingAnsweredFor
<1>1. IInv => MissingAnsweredFor
  BY DEF IInv
<1> QED
  BY <1>1, InvInit, InvStep, PTL DEF Spec

\* A warm cache delivers contents whole, although nobody compares them with the
\* digest: the other clients leave an entry alone once it is whole and at rest.
THEOREM WarmIsServed == Spec => []WarmServed
<1>1. IInv => WarmServed
  BY DEF IInv, WarmReading, WarmServed
<1> QED
  BY <1>1, InvInit, InvStep, PTL DEF Spec

\* An entry nobody is filling is never filled or written again, damaged or not.
THEOREM RestingIsKept == Spec => RestingKept
<1>1. IInv /\ [Next]_vars => [\A d \in Digest : AtRest(d) => AtRest(d)' /\ data'[d] = data[d]]_vars
  BY RestStep DEF IInv
<1> QED
  BY <1>1, InvInit, InvStep, PTL DEF Spec, RestingKept

-----------------------------------------------------------------------------
\* The cache and the clients know of one release only.
OneRelease(d) ==
  /\ releaseFile \in {Absent, Incomplete, d}
  /\ \A c \in Client : release[c] \in {Absent, d}

\* Clients of one registry get its release, cached or not, whoever dies or fails and
\* however the release file is overwritten: that a client is given the release of
\* another registry takes clients with two of them.
THEOREM OwnReleaseOfOneRegistry ==
  ASSUME NEW d \in Digest, \A c \in Client : Upstream[c] = d
  PROVE  Spec => []OwnRelease
<1>1. Init => OneRelease(d)
  BY DEF Init, OneRelease
<1>2. IInv /\ OneRelease(d) /\ [Next]_vars => OneRelease(d)'
  <2> SUFFICES ASSUME IInv, OneRelease(d), [Next]_vars
               PROVE  OneRelease(d)'
    OBVIOUS
  <2> USE FileCacheAssumption
      DEF OneRelease, IInv, TypeOK, KnownRelease, Goto, Missed, fileVars
  <2>1. ASSUME NEW c \in Client,
               \/ FindRelease(c) \/ ReadRelease(c)
               \/ AskRelease(c) \/ CreateRelease(c) \/ WriteRelease(c)
        PROVE  OneRelease(d)'
    BY <2>1 DEF FindRelease, ReadRelease, AskRelease, CreateRelease, WriteRelease
  <2>2. ASSUME NEW c \in Client,
               \/ Find(c) \/ Fetch(c) \/ Create(c) \/ Copy(c) \/ CopyEnd(c)
               \/ Land(c) \/ Reopen(c) \/ Deliver(c) \/ DeliverEnd(c) \/ Fail(c)
        PROVE  OneRelease(d)'
    BY <2>2 DEF Find, Fetch, Create, Copy, CopyEnd, Land, Reopen, Deliver, DeliverEnd, Fail
  <2>3. CASE UNCHANGED vars
    BY <2>3 DEF vars, clientVars
  <2> QED
    BY <2>1, <2>2, <2>3, StepCases DEF Step
<1>3. OneRelease(d) => OwnRelease
  BY DEF OneRelease, OwnRelease
<1> QED
  BY <1>1, <1>2, <1>3, InvInit, InvStep, PTL DEF Spec

\* A client that is alone on the cache reads whole content only: the one entry that it
\* may have left damaged is the one that it failed on.
IntactAlone ==
  \A c \in Client : pc[c] \in {"serve", "served"} => intact[c]

\* A client that begins with no content in the cache and shares it with no other one
\* delivers its content whole or fails, whatever the registry sends: what get_data
\* does not compare was compared on the way in.
THEOREM ServedIntactAlone ==
  ASSUME \A b, c \in Client : b = c
  PROVE  Spec => []ServedIntact
<1>1. Init => IntactAlone
  BY DEF Init, IntactAlone
<1>2. ASSUME IInv, NEW c \in Client, pc[c] = "serve"
      PROVE  data[release[c]] = Whole
  <2>1. release[c] \in Digest /\ data[release[c]] \in Content
    BY <1>2 DEF IInv, TypeOK, KnownRelease
  <2>2. \A k \in 1 .. Chunks : data[release[c]][k] = "good"
    BY <1>2, <2>1 DEF IInv, KnownRelease, MissingAnsweredFor, Answers
  <2> QED
    BY <2>1, <2>2 DEF Content, Whole
<1>3. IInv /\ IntactAlone /\ [Next]_vars => IntactAlone'
  <2> SUFFICES ASSUME IInv, IntactAlone, [Next]_vars, NEW c \in Client
               PROVE  (pc[c] \in {"serve", "served"} => intact[c])'
    BY DEF IntactAlone
  <2> USE FileCacheAssumption
      DEF IntactAlone, IInv, TypeOK, KnownRelease, Goto, Missed, fileVars
  <2>1. CASE \/ FindRelease(c) \/ ReadRelease(c)
             \/ AskRelease(c) \/ CreateRelease(c) \/ WriteRelease(c)
    BY <2>1 DEF FindRelease, ReadRelease, AskRelease, CreateRelease, WriteRelease
  <2>2. CASE \/ Find(c) \/ Fetch(c) \/ Create(c) \/ Copy(c)
             \/ CopyEnd(c) \/ Land(c) \/ Reopen(c)
    BY <2>2 DEF Find, Fetch, Create, Copy, CopyEnd, Land, Reopen
  <2>3. CASE Deliver(c)
    <3>1. offset[c] \in 1 .. Chunks
      BY <2>3 DEF Deliver, EndsBefore
    <3> QED
      BY <1>2, <2>3, <3>1 DEF Deliver, Whole
  <2>4. CASE DeliverEnd(c)
    <3>1. offset[c] > Chunks
      BY <1>2, <2>4 DEF DeliverEnd, EndsBefore, Whole
    <3> QED
      BY <2>4, <3>1 DEF DeliverEnd
  <2>5. CASE Fail(c)
    BY <2>5 DEF Fail
  <2>6. CASE UNCHANGED vars
    BY <2>6 DEF vars, clientVars
  <2> QED
    BY <2>1, <2>2, <2>3, <2>4, <2>5, <2>6, StepCases DEF Step
<1>4. IntactAlone => ServedIntact
  BY DEF IntactAlone, ServedIntact
<1> QED
  BY <1>1, <1>3, <1>4, InvInit, InvStep, PTL DEF Spec
=============================================================================
