----------------------------- MODULE FileCache -----------------------------
(***************************************************************************)
(* The cache directory that every wkg process of a user shares, seen at    *)
(* one package version: a release file {package}-{version}.json and one    *)
(* content file per digest (crates/wasm-pkg-client/src/caching).  A client *)
(* is one CachingClient that gets the release and then its content, each   *)
(* from the cache or else from its registry by way of the cache.  Nothing  *)
(* is locked: every file operation is a step of its own.                   *)
(*                                                                         *)
(* Content is Chunks pieces.  put_data copies the registry's stream to the *)
(* file piece by piece, at the offset of its own handle; get_data reads    *)
(* the file piece by piece and compares it with nothing.                   *)
(***************************************************************************)
EXTENDS Naturals

CONSTANTS
  Client,     \* the wkg processes that use the cache
  Offline,    \* those that run without a Client: the cache is read-only to them
  Digest,
  Upstream,   \* the digest in the release that each client's registry gives out
  Chunks,     \* the number of pieces of a content
  Absent,     \* there is no file, or no release yet
  Incomplete, \* a release file that is created and not written: it does not parse
  Faults      \* whether clients die, streams break and registries send wrong bytes

ASSUME FileCacheAssumption ==
  /\ Offline \subseteq Client
  /\ Upstream \in [Client -> Digest]
  /\ Chunks \in Nat \ {0}
  /\ Absent \notin Digest /\ Incomplete \notin Digest /\ Absent # Incomplete
  /\ Faults \in BOOLEAN

Piece == {"none", "good", "bad"}
Content == [1 .. Chunks -> Piece]
Empty == [k \in 1 .. Chunks |-> "none"]
Whole == [k \in 1 .. Chunks |-> "good"]

ASSUME AbsentAssumption == Absent \notin Content

VARIABLES
  releaseFile, \* {package}-{version}.json
  data,        \* the content file of each digest
  pc,          \* where each client is
  release,     \* the content digest of the Release a client has
  right,       \* whether the stream a client got is the content of its digest
  offset,      \* the next piece a client writes or reads
  intact,      \* whether every piece delivered to the client's caller is good
  warm         \* history: the client found its content whole and at rest

fileVars == <<releaseFile, data>>
clientVars == <<pc, release, right, offset, intact, warm>>
vars == <<fileVars, clientVars>>

\* "left_release" and "left_content": gone before the file it filled was right.
Ended == {"served", "failed", "left_release", "left_content"}
Phase == {"find_release", "read_release", "ask_release", "create_release",
          "write_release", "find", "fetch", "create", "copy", "landing", "reopen",
          "serve"}
         \cup Ended

Init ==
  /\ releaseFile = Absent
  /\ data = [d \in Digest |-> Absent]
  /\ pc = [c \in Client |-> "find_release"]
  /\ release = [c \in Client |-> Absent]
  /\ right = [c \in Client |-> TRUE]
  /\ offset = [c \in Client |-> 1]
  /\ intact = [c \in Client |-> TRUE]
  /\ warm = [c \in Client |-> FALSE]

Goto(c, from, to) ==
  /\ pc[c] = from
  /\ pc' = [pc EXCEPT ![c] = to]

\* `client()?`: a miss is an error where there is no client.
Missed(c, next) == IF c \in Offline THEN "failed" ELSE next

-----------------------------------------------------------------------------
(* CachingClient::get_release *)

FindRelease(c) ==
  /\ Goto(c, "find_release",
          IF releaseFile = Absent THEN Missed(c, "ask_release") ELSE "read_release")
  /\ UNCHANGED <<fileVars, release, right, offset, intact, warm>>

\* Variant: whatever the release file holds is taken for a release.
ReadReleaseUnparsed(c) ==
  /\ Goto(c, "read_release", "find")
  /\ release' = [release EXCEPT ![c] = releaseFile]
  /\ UNCHANGED <<fileVars, right, offset, intact, warm>>

ReadRelease(c) ==
  /\ Goto(c, "read_release", IF releaseFile \in Digest THEN "find" ELSE "failed")
  /\ release' = IF releaseFile \in Digest THEN [release EXCEPT ![c] = releaseFile]
                                          ELSE release
  /\ UNCHANGED <<fileVars, right, offset, intact, warm>>

AskRelease(c) ==
  /\ Goto(c, "ask_release", "create_release")
  /\ release' = [release EXCEPT ![c] = Upstream[c]]
  /\ UNCHANGED <<fileVars, right, offset, intact, warm>>

\* tokio::fs::write creates or truncates the file, and then fills it.
CreateRelease(c) ==
  /\ Goto(c, "create_release", "write_release")
  /\ releaseFile' = Incomplete
  /\ UNCHANGED <<data, release, right, offset, intact, warm>>

\* Every release of one version is as long as any other, so the later write
\* replaces the earlier one.
WriteRelease(c) ==
  /\ Goto(c, "write_release", "find")
  /\ releaseFile' = release[c]
  /\ UNCHANGED <<data, release, right, offset, intact, warm>>

-----------------------------------------------------------------------------
(* CachingClient::get_content *)

\* The clients that took the content for missing and are not done filling it.
Fillers(d) == {c \in Client : release[c] = d /\ pc[c] \in {"fetch", "create", "copy", "landing"}}

AtRest(d) == data[d] # Absent /\ Fillers(d) = {}

\* Variant: a client that has a registry refreshes the entry from it.
FindRefreshing(c) ==
  LET d == release[c]
  IN  /\ Goto(c, "find", IF data[d] # Absent /\ c \in Offline THEN "serve"
                         ELSE Missed(c, "fetch"))
      /\ offset' = [offset EXCEPT ![c] = 1]
      /\ warm' = [warm EXCEPT ![c] = AtRest(d) /\ data[d] = Whole]
      /\ UNCHANGED <<fileVars, release, right, intact>>

Find(c) ==
  LET d == release[c]
  IN  /\ Goto(c, "find", IF data[d] = Absent THEN Missed(c, "fetch") ELSE "serve")
      /\ offset' = [offset EXCEPT ![c] = 1]
      /\ warm' = [warm EXCEPT ![c] = AtRest(d) /\ data[d] = Whole]
      /\ UNCHANGED <<fileVars, release, right, intact>>

\* The registry opens a stream; which bytes it will send is up to the registry.
Fetch(c) ==
  /\ Goto(c, "fetch", "create")
  /\ \E r \in BOOLEAN : (r \/ Faults) /\ right' = [right EXCEPT ![c] = r]
  /\ UNCHANGED <<fileVars, release, offset, intact, warm>>

\* File::create truncates what another client has filled in the meantime.
Create(c) ==
  /\ Goto(c, "create", "copy")
  /\ data' = [data EXCEPT ![release[c]] = Empty]
  /\ offset' = [offset EXCEPT ![c] = 1]
  /\ UNCHANGED <<releaseFile, release, right, intact, warm>>

WritePiece(c) ==
  data' = [data EXCEPT ![release[c]][offset[c]] = IF right[c] THEN "good" ELSE "bad"]

\* Variant: the copy never gets past the last piece but one.
CopyStopsShort(c) ==
  /\ pc[c] = "copy" /\ offset[c] < Chunks
  /\ WritePiece(c)
  /\ offset' = [offset EXCEPT ![c] = @ + 1]
  /\ UNCHANGED <<releaseFile, pc, release, right, intact, warm>>

Copy(c) ==
  /\ pc[c] = "copy" /\ offset[c] <= Chunks
  /\ WritePiece(c)
  /\ offset' = [offset EXCEPT ![c] = @ + 1]
  /\ UNCHANGED <<releaseFile, pc, release, right, intact, warm>>

\* Variant: the error at the end of the stream is dropped.
CopyEndUnvalidated(c) ==
  /\ offset[c] > Chunks
  /\ Goto(c, "copy", "reopen")
  /\ UNCHANGED <<fileVars, release, right, offset, intact, warm>>

\* validating_stream compares the digest behind the last piece: a mismatch fails
\* the copy, with every piece in the file already.
CopyEnd(c) ==
  /\ offset[c] > Chunks
  /\ Goto(c, "copy", IF right[c] THEN "reopen" ELSE "left_content")
  /\ UNCHANGED <<fileVars, release, right, offset, intact, warm>>

Reopen(c) ==
  /\ Goto(c, "reopen", IF data[release[c]] = Absent THEN "failed" ELSE "serve")
  /\ offset' = [offset EXCEPT ![c] = 1]
  /\ UNCHANGED <<fileVars, release, right, intact, warm>>

\* Whether the file ends before its piece k now: a hole below the end reads as zeros.
EndsBefore(d, k) == \A j \in k .. Chunks : data[d][j] = "none"

\* The caller reads the stream of get_data.
Deliver(c) ==
  /\ pc[c] = "serve" /\ ~EndsBefore(release[c], offset[c])
  /\ intact' = [intact EXCEPT ![c] = @ /\ data[release[c]][offset[c]] = "good"]
  /\ offset' = [offset EXCEPT ![c] = @ + 1]
  /\ UNCHANGED <<fileVars, pc, release, right, warm>>

DeliverEnd(c) ==
  /\ Goto(c, "serve", "served")
  /\ EndsBefore(release[c], offset[c])
  /\ intact' = [intact EXCEPT ![c] = @ /\ offset[c] > Chunks]
  /\ UNCHANGED <<fileVars, release, right, offset, warm>>

-----------------------------------------------------------------------------
(* Faults: the registry, its stream or the file system fails, or the process *)
(* dies.  Whatever it was, put_data and put_release leave the file behind.   *)

\* tokio's File has handed the next piece to another thread when the stream breaks, or
\* turns out wrong: put_data returns the error, and the piece may land later.
Fail(c) ==
  /\ Faults
  /\ pc[c] \notin Ended
  /\ \/ pc' = [pc EXCEPT ![c] = IF @ \in {"copy", "landing"} THEN "left_content"
                                ELSE IF @ = "write_release" THEN "left_release"
                                ELSE "failed"]
     \/ pc[c] = "copy" /\ offset[c] <= Chunks /\ pc' = [pc EXCEPT ![c] = "landing"]
  /\ UNCHANGED <<fileVars, release, right, offset, intact, warm>>

Land(c) ==
  /\ Goto(c, "landing", "left_content")
  /\ WritePiece(c)
  /\ UNCHANGED <<releaseFile, release, right, offset, intact, warm>>

-----------------------------------------------------------------------------
Step(c) ==
  \/ FindRelease(c) \/ ReadRelease(c)
  \/ AskRelease(c) \/ CreateRelease(c) \/ WriteRelease(c)
  \/ Find(c) \/ Fetch(c) \/ Create(c) \/ Copy(c) \/ CopyEnd(c) \/ Land(c)
  \/ Reopen(c) \/ Deliver(c) \/ DeliverEnd(c)

Done ==
  /\ \A c \in Client : pc[c] \in Ended
  /\ UNCHANGED vars

Next ==
  \/ \E c \in Client : Step(c) \/ Fail(c)
  \/ Done

\* A process that runs keeps running, and a registry that was asked answers or
\* fails in the end (the code sets no timeout of its own).
Fairness == \A c \in Client : WF_vars(Step(c))

Spec == Init /\ [][Next]_vars /\ Fairness

-----------------------------------------------------------------------------
(* Properties *)

\* The one type invariant: in particular, a client that has a release has one that
\* a registry gave out, never a half-written file.
TypeOK ==
  /\ releaseFile \in Digest \cup {Absent, Incomplete}
  /\ data \in [Digest -> Content \cup {Absent}]
  /\ pc \in [Client -> Phase]
  /\ release \in [Client -> Digest \cup {Absent}]
  /\ right \in [Client -> BOOLEAN]
  /\ offset \in [Client -> 1 .. Chunks + 1]
  /\ intact \in [Client -> BOOLEAN]
  /\ warm \in [Client -> BOOLEAN]

\* Whether client c answers for piece k of the content d being missing or wrong.
Answers(c, d, k) ==
  /\ release[c] = d
  /\ \/ pc[c] \in {"landing", "left_content"}
     \/ pc[c] = "copy" /\ (offset[c] <= k \/ ~right[c])

\* However many clients fill one entry at once, each truncating what the others
\* wrote (File::create) and writing at its own offset: a piece that is missing or
\* wrong is still to be written by a client at work, or is the doing of one that
\* failed or died in put_data.  Likewise for a release file that does not parse.
MissingAnsweredFor ==
  /\ \A d \in Digest : data[d] # Absent =>
       \A k \in 1 .. Chunks :
         data[d][k] # "good" => \E c \in Client : Answers(c, d, k)
  /\ releaseFile = Incomplete =>
       \E c \in Client : pc[c] \in {"write_release", "left_release"}

\* A caller whose client found the entry whole, with nobody filling it, is given
\* the content whole, whatever the other clients do and suffer meanwhile.
WarmServed ==
  \A c \in Client : warm[c] /\ pc[c] = "served" => intact[c]

\* An entry that nobody is filling stays as it is for ever: no client sets about
\* filling it again, which keeps a whole entry whole and a damaged one damaged.
\* Somebody is filling it as long as a piece that was handed over may still land.
RestingKept ==
  [][\A d \in Digest : AtRest(d) => AtRest(d)' /\ data'[d] = data[d]]_vars

\* An entry that exists gets whole and stays whole, unless a client that was
\* filling it has failed or died.
EntryCompletes ==
  \A d \in Digest :
    data[d] # Absent ~>
      [](data[d] = Whole \/ \E c \in Client : release[c] = d /\ pc[c] = "left_content")

\* `get_content` "is the same as Client::stream_content", whose "contents are
\* validated against the given Release::content_digest": what is delivered
\* without an error is the content.
ServedIntact == \A c \in Client : pc[c] = "served" => intact[c]

\* `get_release` "returns a Release for the given package version" from the
\* registry the client is configured with (PublishVerifier: "wired to a temporary
\* local backend"), cached or not.
OwnRelease == \A c \in Client : release[c] \in {Absent, Upstream[c]}
=============================================================================
