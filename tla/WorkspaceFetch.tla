--------------------------- MODULE WorkspaceFetch ---------------------------
(***************************************************************************)
(* wkg fetch in a workspace (crates/wkg/src/wit.rs, overlay.rs and         *)
(* crates/wasm-pkg-core/src/wit.rs), while packages are released.          *)
(*                                                                         *)
(* All members are built against each other first; then the dependencies   *)
(* of the fetched directories are resolved, the lock file is written, and  *)
(* the deps directory is emptied and filled.  Any step that does I/O may   *)
(* fail.  The lock file is locked while the command runs, so that there is *)
(* one command at a time; a fetch outside of a workspace is in Resolver.   *)
(***************************************************************************)
EXTENDS PublishPlan, Tables, FiniteSets

CONSTANTS
  Invalid,     \* a manifest that does not load
  Trees,       \* trees as in Discovery; their directories with WIT are in Wit, too
  Wit,         \* what get_packages finds in a directory, a member as in PublishPlan
  Releases,    \* [Package -> the versions that may be released]
  Bundled,     \* [releases <<package, version>> -> the releases inside them]
  MaxFetches   \* bound on the fetches started

INSTANCE Discovery

VARIABLES
  tree,
  released,  \* [Package -> its versions in the registry]
  lock,      \* [directories -> the pins of the lock file there, or None]
  deps,      \* [directories -> the releases in the deps directory of the workspace]
  fetch,     \* [pc, cwd, root, dirs, output, pins, built, resolved, merged, todo]
  fetches,   \* how many fetches have been started
  matched    \* history: [directories -> output type of the last fetch, if it ended well]

fetchVars == <<tree, released, lock, deps, fetch, fetches, matched>>

NoFetch ==
  [pc |-> "rest", cwd |-> None, root |-> None, dirs |-> {}, output |-> None, pins |-> {}, built |-> {},
   resolved |-> {}, merged |-> [n \in {} |-> None], todo |-> {}]

Pinned(package, requirement, version) ==
  [package |-> package, requirement |-> requirement, version |-> version]
Dirs(t) == DOMAIN t.parent

FetchInit ==
  /\ tree \in Trees
  /\ released \in [DOMAIN Releases -> UNION {SUBSET Releases[n] : n \in DOMAIN Releases}]
  /\ \A n \in DOMAIN Releases : released[n] \subseteq Releases[n] /\ released[n] # {}
  /\ lock = [d \in Dirs(tree) |-> None]
  /\ deps = [d \in Dirs(tree) |-> {}]
  /\ fetch = NoFetch /\ fetches = 0
  /\ matched = [d \in Dirs(tree) |-> None]

\* A package is released.
Release ==
  /\ fetches < MaxFetches \/ fetch.pc # "rest"
  /\ \E n \in DOMAIN Releases : \E v \in Releases[n] \ released[n] :
       released' = [released EXCEPT ![n] = @ \cup {v}]
  /\ UNCHANGED <<tree, lock, deps, fetch, fetches, matched>>

-----------------------------------------------------------------------------
(* Resolving *)

Checkout(root) == [d \in WorkspaceMembers(tree, root) |-> Wit[d]]
Siblings == Packages(Members(Checkout(fetch.root)))

\* What the verifier's client finds: of the members, those that are built by now.
Offered(n) ==
  IF n \in Siblings THEN {m.version : m \in {m \in fetch.built : m.package = n}}
  ELSE IF n \in DOMAIN released THEN released[n] ELSE {}

Accepted(need) ==
  {v \in Offered(need.package) : IF need.version = None THEN v.pre = 1 ELSE v = need.version}

\* DependencyResolver::resolve: what is pinned under this requirement, if it is still
\* there, or else the newest.
Resolved(need) ==
  LET held == {pin.version : pin \in {pin \in fetch.pins :
                 /\ pin.package = need.package /\ pin.requirement = need.version
                 /\ pin.version \in Offered(need.package)}}
  IN  CHOOSE v \in (IF held # {} THEN held ELSE Accepted(need)) :
        \A w \in (IF held # {} THEN held ELSE Accepted(need)) : Sooner(w, v)

Resolvable(m) == \A need \in m.needs : Accepted(need) # {}

\* update_dependencies: the pins are those of this resolution, and no others.
PinsOf(m) ==
  {Pinned(need.package, need.version, Resolved(need)) : need \in m.needs}

-----------------------------------------------------------------------------
(* FetchArgs::run and run_workspace_fetch *)

\* Variant of FetchRoot: a member's fetch is the workspace's.
FetchRootAbove(cwd) == RootWorkspace(tree, cwd)

\* A workspace above the nearest manifest is not fetched for.
FetchRoot(cwd) ==
  LET root == RootWorkspace(tree, cwd)
  IN  IF root \in Dirs(tree) /\ FindManifest(tree, cwd) # root THEN None ELSE root

Rest == fetch' = NoFetch

\* Variant of Start: the pins are taken out of the lock file, as in fetch_into_lock.
StartUnlocked(cwd) ==
  LET root == FetchRoot(cwd)
  IN  /\ fetch.pc = "rest" /\ fetches < MaxFetches /\ root \in Dirs(tree)
      /\ fetches' = fetches + 1
      /\ \E given \in {None} \cup Dirs(tree), output \in {"wit", "wasm"} :
           LET dirs == IF given = None THEN WorkspaceMembers(tree, root) ELSE {given}
           IN  /\ dirs \subseteq tree.wit
               /\ lock' = IF lock[root] = None THEN [lock EXCEPT ![root] = {}] ELSE lock
               /\ ~PlanRefused(Checkout(root))
               /\ fetch' = [NoFetch EXCEPT !.pc = "build", !.cwd = cwd, !.root = root,
                                           !.dirs = dirs, !.output = output]
      /\ UNCHANGED <<tree, released, deps, matched>>

\* The directories are checked to be there, then the lock file is created if there is none,
\* and then the plan of the members is made and their WIT is read.  Elsewhere than in a
\* workspace this is the end.
Start(cwd) ==
  LET root == FetchRoot(cwd)
  IN  /\ fetch.pc = "rest" /\ fetches < MaxFetches /\ root \in Dirs(tree)
      /\ fetches' = fetches + 1
      /\ \E given \in {None} \cup Dirs(tree), output \in {"wit", "wasm"} :
           LET dirs == IF given = None THEN WorkspaceMembers(tree, root) ELSE {given}
               here == IF lock[root] = None THEN {} ELSE lock[root]
           IN  /\ IF dirs \subseteq Dirs(tree)
                  THEN lock' = [lock EXCEPT ![root] = here] ELSE UNCHANGED lock
               /\ IF \/ ~(dirs \cup WorkspaceMembers(tree, root) \subseteq tree.wit)
                     \/ PlanRefused(Checkout(root))
                  THEN Rest
                  ELSE fetch' = [NoFetch EXCEPT !.pc = "build", !.cwd = cwd,
                                   !.root = root, !.dirs = dirs, !.output = output, !.pins = here]
      /\ UNCHANGED <<tree, released, deps, matched>>

\* PublishVerifier::try_new builds the members in the order of their dependencies, and
\* each of them leaves its own pins.
BuildMember(m) ==
  /\ fetch.pc = "build" /\ m \in Members(Checkout(fetch.root)) \ fetch.built
  /\ \A n \in Members(Checkout(fetch.root)) : Needs(m, n) => n \in fetch.built
  /\ IF Resolvable(m)
     THEN fetch' = [fetch EXCEPT !.pins = PinsOf(m), !.built = @ \cup {m}]
     ELSE Rest
  /\ UNCHANGED <<tree, released, lock, deps, fetches, matched>>

\* Variant of ResolveDir: the members are not left out.
ResolveDirWhole(d) ==
  LET pins == PinsOf(Wit[d])
  IN  /\ fetch.pc = "build" /\ fetch.built = Members(Checkout(fetch.root))
      /\ d \in fetch.dirs \ fetch.resolved /\ Resolvable(Wit[d])
      /\ fetch' = [fetch EXCEPT !.resolved = @ \cup {d},
             !.merged = Extended(@, [n \in {pin.package : pin \in pins} |->
                                  CHOOSE pin \in pins : pin.package = n])]
      /\ UNCHANGED <<tree, released, lock, deps, fetches, matched>>

\* Variant of ResolveDir: all members are resolved, whatever directory is given.
ResolveDirOfMember(d) ==
  /\ fetch.pc = "build" /\ fetch.built = Members(Checkout(fetch.root))
  /\ d \in (fetch.dirs \cup WorkspaceMembers(tree, fetch.root)) \ fetch.resolved
  /\ Resolvable(Wit[d])
  /\ fetch' = [fetch EXCEPT !.resolved = @ \cup {d}]
  /\ UNCHANGED <<tree, released, lock, deps, fetches, matched>>

\* The dependencies of one directory, without the members; of two that differ on a
\* package the later one stays.
ResolveDir(d) ==
  LET pins == {pin \in PinsOf(Wit[d]) : pin.package \notin Siblings}
  IN  /\ fetch.pc = "build" /\ fetch.built = Members(Checkout(fetch.root))
      /\ d \in fetch.dirs \ fetch.resolved
      /\ IF Resolvable(Wit[d])
         THEN fetch' = [fetch EXCEPT !.resolved = @ \cup {d},
                !.merged = Extended(@, [n \in {pin.package : pin \in pins} |->
                                     CHOOSE pin \in pins : pin.package = n])]
         ELSE Rest
      /\ UNCHANGED <<tree, released, lock, deps, fetches, matched>>

Merged == {fetch.merged[n] : n \in DOMAIN fetch.merged}

Commit ==
  /\ fetch.pc = "build" /\ fetch.resolved = fetch.dirs
  /\ lock' = [lock EXCEPT ![fetch.root] = Merged]
  /\ matched' = [matched EXCEPT ![fetch.root] = None]
  /\ fetch' = [fetch EXCEPT !.pc = "clear"]
  /\ UNCHANGED <<tree, released, deps, fetches>>

\* As wasm a release is one file; as WIT what is inside it is printed, too.
Unpacked(output, release) ==
  IF output = "wit" THEN {release} \cup Bundled[release] ELSE {release}

\* populate_dependencies_workspace, after the dependencies have been decoded and merged:
\* what it is going to write
Contents(output, pins) ==
  UNION {Unpacked(output, <<pin.package, pin.version>>) : pin \in pins}

\* Variant of Clear: what is in the directory stays.
ClearNothing ==
  /\ fetch.pc = "clear"
  /\ fetch' = [fetch EXCEPT !.pc = "write", !.todo = Contents(fetch.output, Merged)]
  /\ UNCHANGED <<tree, released, lock, deps, fetches, matched>>

\* prepare_deps_dir; the dependencies are decoded after that.
Clear ==
  /\ fetch.pc = "clear"
  /\ deps' = [deps EXCEPT ![fetch.root] = {}]
  /\ fetch' = [fetch EXCEPT !.pc = "write", !.todo = Contents(fetch.output, Merged)]
  /\ UNCHANGED <<tree, released, lock, fetches, matched>>

\* One file or package at a time
Put(release) ==
  /\ fetch.pc = "write" /\ release \in fetch.todo
  /\ deps' = [deps EXCEPT ![fetch.root] = @ \cup {release}]
  /\ fetch' = [fetch EXCEPT !.todo = @ \ {release}]
  /\ UNCHANGED <<tree, released, lock, fetches, matched>>

\* write_wasm_deps copies the release's file.
WriteWasm == fetch.output = "wasm" /\ \E release \in fetch.todo : Put(release)

\* print_wit_packages prints the packages of the merged resolve.
PrintWit == fetch.output = "wit" /\ \E release \in fetch.todo : Put(release)

Finish ==
  /\ fetch.pc = "write" /\ fetch.todo = {}
  /\ matched' = [matched EXCEPT ![fetch.root] = fetch.output]
  /\ Rest
  /\ UNCHANGED <<tree, released, lock, deps, fetches>>

FailFetch ==
  /\ fetch.pc \in {"build", "clear", "write"}
  /\ Rest
  /\ UNCHANGED <<tree, released, lock, deps, fetches, matched>>

FetchNext ==
  \/ \E cwd \in Dirs(tree) : Start(cwd)
  \/ \E d \in DOMAIN Wit : BuildMember(Wit[d])
  \/ \E d \in DOMAIN Wit : ResolveDir(d)
  \/ Commit \/ Clear \/ WriteWasm \/ PrintWit \/ Finish \/ FailFetch \/ Release

-----------------------------------------------------------------------------

\* The versions of what is released and of the members, and what may be pinned
Versions ==
  (UNION {Releases[n] : n \in DOMAIN Releases})
    \cup ({Wit[d].version : d \in DOMAIN Wit} \ {None})
Pins ==
  {Pinned(need.package, need.version, v) :
     need \in UNION {Wit[d].needs : d \in DOMAIN Wit}, v \in Versions}

FetchTypeOK ==
  /\ fetch.pc \in {"rest", "build", "clear", "write"}
  /\ fetch.dirs \subseteq tree.wit /\ fetch.resolved \subseteq fetch.dirs
  /\ fetch.pins \subseteq Pins
  /\ \A n \in DOMAIN fetch.merged : fetch.merged[n] \in Pins /\ fetch.merged[n].package = n
  /\ lock \in [Dirs(tree) -> (SUBSET Pins) \cup {None}]
  /\ fetches \in 0 .. MaxFetches

NeedsOf(dirs) == UNION {Wit[d].needs : d \in dirs}

\* The lock file that a workspace fetch leaves has no pin of a member, and one for every
\* other package that a fetched directory needs: for its requirement, unless another
\* directory's requirement on that package has taken its place.
FetchPins ==
  fetch.pc \in {"clear", "write"} =>
    /\ \A pin \in lock[fetch.root] : pin.package \notin Siblings
    /\ \A need \in NeedsOf(fetch.dirs) :
         need.package \notin Siblings =>
           \E pin \in lock[fetch.root], other \in NeedsOf(fetch.dirs) :
             /\ pin.package = need.package /\ other.package = need.package
             /\ pin.requirement = other.version
             /\ (\A o \in NeedsOf(fetch.dirs) : o.package = need.package => o = need) =>
                  other = need

\* A pin is still there after a workspace fetch, whatever has been released since, if every
\* member and every fetched directory, and one at least, needs the package under the pin's
\* requirement and under no other.  (A pin that some member does not need is lost when that
\* member is built last.)
SharedPinsStay ==
  [][\A d \in Dirs(tree) : lock[d] # None /\ lock'[d] # lock[d] =>
       LET users == fetch.dirs \cup WorkspaceMembers(tree, d)
       IN  \A pin \in lock[d] :
             /\ users # {}
             /\ \A e \in users :
                  {need.version : need \in {need \in Wit[e].needs : need.package = pin.package}}
                    = {pin.requirement}
             => pin \in lock'[d]]_fetchVars

\* The deps directory holds the packages of the lock file beside it, after a fetch that
\* ended well and as long as no later one has got as far as the lock file.
DepsMatchLock ==
  \A d \in Dirs(tree) : matched[d] # None =>
    deps[d] = Contents(matched[d], lock[d])

\* A fetch writes into the directory of the manifest that is nearest to the caller, and
\* into no workspace above it.
OwnWorkspace ==
  [][\A d \in Dirs(tree) :
       fetch.pc # "rest" /\ (lock'[d] # lock[d] \/ deps'[d] # deps[d]) =>
         d = FindManifest(tree, fetch.cwd)]_fetchVars
=============================================================================
