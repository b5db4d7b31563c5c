-------------------------------- MODULE Get --------------------------------
(***************************************************************************)
(* wkg get and wkg oci pull (crates/wkg/src/main.rs, oci.rs): processes    *)
(* that write what they download to one place, where a user saves files,   *)
(* too.                                                                    *)
(*                                                                         *)
(* A download goes to a temporary file, which becomes the output; a WIT    *)
(* package is printed, and written over the output.  tokio's File hands a  *)
(* write over to another thread and reports its failure only with the next *)
(* operation, so that the last one may be under way, or have failed, when  *)
(* the command goes on.  A file is a record [version, form, chunks, by,    *)
(* inode, unseen] of what it holds, who wrote it, who created it and, for  *)
(* a file of the user's, which commands had looked at its path before it   *)
(* was saved.                                                              *)
(***************************************************************************)
EXTENDS Integers, FiniteSets, FiniteSetsExt

CONSTANTS
  None, User,
  Getter,     \* commands
  Releases,   \* records [version, kind, yanked] of the package
  Arguments,  \* [pull, version, directory, extension, format, check, overwrite]
  Whole       \* how many chunks a download has

VARIABLES
  files,      \* [Paths -> file or None]
  directory,  \* does the output's directory exist?
  getter,     \* [Getter -> [pc, args, release, temp, pending, wit, opened]]
  refused,    \* commands a write of which failed after it was handed over
  crossed     \* history: commands that wrote into one file with another

getVars == <<files, directory, getter, refused, crossed>>

Forms == {"wasm", "wit"}
Named == <<0, "named">>
Paths == {Named} \cup {<<r.version, form>> : r \in Releases, form \in Forms}

File(version, form, chunks, by) ==
  [version |-> version, form |-> form, chunks |-> chunks, by |-> by,
   inode |-> by, unseen |-> {}]

NotStarted ==
  [pc |-> "start", args |-> None, release |-> None, temp |-> None, pending |-> FALSE,
   wit |-> FALSE, opened |-> None]

GetInit ==
  /\ files \in {[p \in Paths |-> None],
                [p \in Paths |-> IF p = Named THEN File(0, "wasm", Whole, User) ELSE None]}
  /\ directory \in BOOLEAN
  /\ getter = [g \in Getter |-> NotStarted]
  /\ refused = {} /\ crossed = {}

-----------------------------------------------------------------------------

Args(g) == getter[g].args
At(g, pc) == getter[g].pc = pc
Become(g, next) == getter' = [getter EXCEPT ![g] = next]
GoTo(g, pc) == getter' = [getter EXCEPT ![g].pc = pc]

\* A command has ended, or it was cut short while its output was being written.
Ended(g) == getter[g].pc \in {"done", "cut"}

\* An error ends the command, and removes the temporary file.
Fail(g) == GoTo(g, "done") /\ UNCHANGED <<files, refused, crossed>>

Path(g) ==
  IF Args(g).directory
  THEN <<getter[g].release.version, IF getter[g].wit THEN "wit" ELSE "wasm">> ELSE Named

\* The release that is asked for; without a version, the latest that is not yanked.
Asked(args) ==
  LET offered == {r.version : r \in {r \in Releases : ~r.yanked}}
      version == IF args.version # None THEN args.version
                 ELSE IF offered = {} THEN None ELSE Max(offered)
  IN  {r \in Releases : r.version = version}

\* GetArgs::run, up to the creation of the temporary file; only a directory that is given
\* as such is created.
Start(g) ==
  /\ At(g, "start")
  /\ \E args \in {a \in Arguments : ~a.pull} :
       /\ directory' = (directory \/ (args.directory /\ Asked(args) # {}))
       /\ \/ /\ directory'
             /\ \E r \in Asked(args) :
                  Become(g, [NotStarted EXCEPT !.pc = "stream", !.args = args, !.release = r,
                                               !.temp = File(r.version, "wasm", 0, g)])
          \/ (Asked(args) = {} \/ ~directory') /\ GoTo(g, "done")
  /\ UNCHANGED <<files, refused, crossed>>

\* Variant of Receive: an error in the stream ends it as if all had come.
ReceiveSome(g) ==
  /\ At(g, "stream")
  /\ \/ /\ ~getter[g].pending /\ g \notin refused
        /\ getter' = [getter EXCEPT ![g].pending = TRUE,
             ![g].pc = IF getter[g].temp.chunks = Whole - 1 THEN "decode" ELSE "stream"]
     \/ GoTo(g, "decode")
  /\ UNCHANGED <<files, directory, refused, crossed>>

\* The content stream, which is verified: the next chunk is written once the last one has
\* been, and a write that failed is noticed then.  The last one is left to itself.
Receive(g) ==
  /\ At(g, "stream")
  /\ \/ /\ ~getter[g].pending /\ g \notin refused
        /\ getter' = [getter EXCEPT ![g].pending = TRUE,
             ![g].pc = IF getter[g].temp.chunks = Whole - 1 THEN "decode" ELSE "stream"]
        /\ UNCHANGED <<files, refused, crossed>>
     \/ Fail(g)
  /\ UNCHANGED directory

\* A write that was handed over happens, or fails: in the temporary file, which may have
\* become the output in the meantime.
Land(g) ==
  /\ getter[g].pending /\ ~Ended(g)
  /\ \/ /\ getter' = [getter EXCEPT ![g].pending = FALSE, ![g].temp.chunks = @ + 1]
        /\ files' = [p \in Paths |->
             IF At(g, "exit") /\ files[p] = getter[g].temp THEN getter'[g].temp ELSE files[p]]
        /\ crossed' = crossed \cup
             {files[p].by : p \in {p \in Paths : /\ At(g, "exit") /\ files[p] # None
                                               /\ files[p].inode = g /\ files[p].by # g}}
        /\ UNCHANGED refused
     \/ /\ getter' = [getter EXCEPT ![g].pending = FALSE]
        /\ refused' = refused \cup {g}
        /\ UNCHANGED <<files, crossed>>
  /\ UNCHANGED directory

\* The extension counts in the name of a directory, too.
Format(args) ==
  IF args.format = "auto" /\ args.extension \in Forms
  THEN args.extension ELSE args.format

\* Only a file that is to be decoded is waited for.
Decode(g) ==
  LET format == Format(Args(g))
      readable == getter[g].temp.chunks = Whole /\ getter[g].release.kind # "garbage"
  IN  /\ At(g, "decode")
      /\ \/ format = "wasm" /\ GoTo(g, "place")
         \/ /\ format # "wasm" /\ ~getter[g].pending /\ readable
            /\ getter' = [getter EXCEPT ![g].pc = "place",
                                        ![g].wit = getter[g].release.kind = "package"]
         \/ format = "auto" /\ ~getter[g].pending /\ ~readable /\ GoTo(g, "place")
         \/ format = "wit" /\ ~getter[g].pending /\ ~readable /\ GoTo(g, "done")
      /\ UNCHANGED <<files, directory, refused, crossed>>

\* --check compares, and writes nothing.
Check(g) ==
  /\ At(g, "place") /\ Args(g).check
  /\ GoTo(g, "exit")
  /\ UNCHANGED <<files, directory, refused, crossed>>

\* Variant of Look: whatever is there is overwritten.
LookAway(g) ==
  /\ At(g, "place") /\ ~Args(g).check
  /\ GoTo(g, "write")
  /\ UNCHANGED <<files, directory, refused, crossed>>

\* The test whether there is an output already, some time before it is written
Look(g) ==
  /\ At(g, "place") /\ ~Args(g).check
  /\ GoTo(g, IF Args(g).overwrite \/ files[Path(g)] = None THEN "write" ELSE "exit")
  /\ UNCHANGED <<files, directory, refused, crossed>>

\* The temporary file takes the place of the output.
Persist(g) ==
  /\ At(g, "write") /\ ~getter[g].wit
  /\ files' = [files EXCEPT ![Path(g)] = getter[g].temp]
  /\ GoTo(g, "exit")
  /\ UNCHANGED <<directory, refused, crossed>>

\* tokio::fs::write truncates the file that is there, and then fills it.
Truncate(g, next) ==
  LET path == IF next.args.directory THEN <<next.release.version, "wit">> ELSE Named
      old == files[path]
      new == [File(next.release.version, IF next.wit THEN "wit" ELSE "wasm", 0, g)
                EXCEPT !.inode = IF old = None THEN g ELSE old.inode]
  IN  /\ files' = [files EXCEPT ![path] = new]
      /\ Become(g, [next EXCEPT !.pc = "fill", !.opened = new.inode])
      /\ UNCHANGED <<directory, refused, crossed>>

\* WIT is printed over the output.
WriteWit(g) == At(g, "write") /\ getter[g].wit /\ Truncate(g, getter[g])

\* PullArgs::run looks at nothing before it does the same.
Pull(g) ==
  /\ At(g, "start") /\ directory
  /\ \E args \in {a \in Arguments : a.pull}, r \in Releases :
       /\ args.version = r.version
       /\ Truncate(g, [NotStarted EXCEPT !.args = args, !.release = r])

\* The first chunks of the file that was opened are written.  It may have been replaced at
\* its path since, or truncated by another command.
Put(g, chunks) ==
  LET path == Path(g)
      here == files[path] # None /\ files[path].inode = getter[g].opened
  IN  /\ files' = IF here /\ files[path].chunks < chunks
                  THEN [files EXCEPT ![path].chunks = chunks] ELSE files
      /\ crossed' = IF here /\ files[path].by # g /\ chunks > 0
                    THEN crossed \cup {g, files[path].by} ELSE crossed
      /\ UNCHANGED <<directory, refused>>

\* All of it is written, ...
Fill(g) == At(g, "fill") /\ Put(g, Whole) /\ GoTo(g, "exit")

\* ... or a part: the disk is full, or the command is killed.
Tear(g) ==
  /\ At(g, "fill")
  /\ \E chunks \in 0 .. Whole - 1 : Put(g, chunks)
  /\ GoTo(g, "cut")

\* Any other step may fail, and the command may be killed at any time, with the write that
\* is under way.  (A temporary file that stays behind then has a name of its own.)
Quit(g) ==
  /\ getter[g].pc \notin {"start", "fill"} /\ ~Ended(g)
  /\ GoTo(g, IF At(g, "exit") /\ getter[g].pending THEN "cut" ELSE "done")
  /\ UNCHANGED <<files, directory, refused, crossed>>

\* The runtime finishes the writes it was handed before the process ends.
Exit(g) ==
  /\ At(g, "exit") /\ ~getter[g].pending
  /\ GoTo(g, "done")
  /\ UNCHANGED <<files, directory, refused, crossed>>

\* A user puts a file where there was none.
Save ==
  /\ files[Named] = None /\ \E g \in Getter : ~Ended(g)
  /\ directory' = TRUE
  /\ files' = [files EXCEPT ![Named] =
       [File(0, "wasm", Whole, User) EXCEPT !.unseen = {g \in Getter : At(g, "write")}]]
  /\ UNCHANGED <<getter, refused, crossed>>

GetNext ==
  \/ Save
  \/ \E g \in Getter :
       \/ Start(g) \/ Receive(g) \/ Land(g) \/ Decode(g) \/ Check(g) \/ Look(g)
       \/ Persist(g) \/ WriteWit(g) \/ Pull(g) \/ Fill(g) \/ Tear(g) \/ Exit(g)
       \/ Quit(g)

-----------------------------------------------------------------------------

\* What a file may be
Files ==
  [version : {0} \cup {r.version : r \in Releases}, form : Forms, chunks : 0 .. Whole,
   by : Getter \cup {User}, inode : Getter \cup {User}, unseen : SUBSET Getter]

GetTypeOK ==
  /\ files \in [Paths -> Files \cup {None}] /\ directory \in BOOLEAN
  /\ refused \subseteq Getter
  /\ \A g \in Getter :
       getter[g].pc \in {"start", "stream", "decode", "place", "write", "fill", "exit", "done",
                         "cut"}

\* A file of the user's is only replaced by a command that was told to overwrite it, by
\* `wkg oci pull`, which never looks, or by one that had looked before the file was saved.
GetKeepsFiles ==
  [][\A p \in Paths :
       files[p] # None /\ files[p].by = User /\ files'[p] # files[p] =>
         \E g \in Getter :
           /\ files'[p] # None /\ files'[p].by = g
           /\ \/ getter'[g].args.overwrite \/ getter'[g].args.pull
              \/ g \in files[p].unseen]_getVars

\* Once the commands have ended, an output that one of them left behind is all of the
\* release or of its WIT, unless the command failed or was killed while it wrote the output,
\* or its last write failed after it was handed over, or two commands wrote into one file at
\* once.
GetsWhole ==
  (\A g \in Getter : At(g, "start") \/ Ended(g)) =>
    \A p \in Paths :
      files[p] # None =>
        \/ files[p].chunks = Whole \/ files[p].by \in refused \cup crossed
        \/ \E g \in Getter : g = files[p].by /\ At(g, "cut")
=============================================================================
