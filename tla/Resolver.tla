------------------------------ MODULE Resolver ------------------------------
(***************************************************************************)
(* The dependency resolver behind wkg wit build, fetch and update          *)
(* (crates/wasm-pkg-core/src/resolver.rs, wit.rs, crates/wkg/src/wit.rs).  *)
(* A command loads the lock file, gives the resolver the manifest's        *)
(* overrides in the order of a hash map, then the packages that the WIT    *)
(* directory names, resolves each dependency against the registry and      *)
(* writes the lock file.  Meanwhile others publish, replace and withdraw   *)
(* releases.                                                               *)
(*                                                                         *)
(* The lock file is held for the whole command (LockFile.tla), so there is *)
(* one command at a time.  A requirement is the set of versions it         *)
(* accepts.  The configuration does not change.  The resolver asks once    *)
(* for the versions of a name, so its `packages` map is never read again.  *)
(***************************************************************************)
EXTENDS Naturals

CONSTANTS
  Name,
  Version,
  Digest,
  Registry,
  RegistryOf,      \* the registry that the configuration gives for each name
  Dir,             \* WIT directories
  Needs,           \* [Dir -> what get_packages finds in the directory]
  LocalOverride,   \* the names that the manifest redirects to a path,
  LocalNeeds,      \*   and what get_packages finds there
  VersionOverride, \* the requirements that the manifest overrides
  Listed,          \* the releases that the registry has to begin with
  Absent,          \* no release, or no registry
  MaxChanges       \* bound on the changes to the registry and the cache

Need == [name : Name, requirement : SUBSET Version]
Pin == [name : Name, registry : Registry \cup {Absent}, requirement : SUBSET Version,
        version : Version, digest : Digest]
Releases == [Name -> [Version -> Digest \cup {Absent}]]
Names(S) == {x.name : x \in S}

ASSUME ResolverAssumption ==
  /\ Version \subseteq Nat
  /\ RegistryOf \in [Name -> Registry]
  /\ Needs \in [Dir -> SUBSET Need]
  /\ LocalOverride \subseteq Name
  /\ LocalNeeds \in [LocalOverride -> SUBSET Need]
  /\ VersionOverride \subseteq Need
  /\ \A o \in VersionOverride : o.name \notin LocalOverride
  /\ \A o, p \in VersionOverride : o.name = p.name => o = p
  /\ Listed \in Releases
  /\ Absent \notin Digest /\ Absent \notin Registry
  /\ MaxChanges \in Nat

VARIABLES
  registry,     \* the releases that the registry lists
  releases,     \* the releases in the user's cache
  changes,
  disk,         \* the packages in wkg.lock
  \* the command:
  phase, command,
  packages,     \* LockFile::packages
  union,        \* what fetch_into_lock has put by
  \* the resolver:
  overrides,    \* the overrides still to be added
  dependencies, \* DependencyResolver::dependencies
  locals,       \* the names in its resolutions that are local
  resolved,     \* and those that are from a registry, as pins
  selected,     \* the release it asks for next, with the digests it accepts
  \* history:
  unlisted      \* what was not listed at some point of the command

market == <<registry, releases, changes>>
session == <<phase, command, packages, union>>
resolver == <<overrides, dependencies, locals, resolved, selected>>
vars == <<market, disk, session, resolver, unlisted>>

Command ==
  {c \in [op : {"build", "fetch", "update"}, dir : Dir, offline : BOOLEAN] :
     c.offline => c.op = "build"}
ASSUME CommandAssumption == Absent \notin Command

Selection == [need : Need, version : Version, accepted : SUBSET Digest]

NotListed == {nv \in Name \X Version : registry[nv[1]][nv[2]] = Absent}

Init ==
  /\ registry = Listed
  /\ releases = [n \in Name |-> [v \in Version |-> Absent]]
  /\ changes = 0
  /\ disk = {}
  /\ phase = "idle" /\ command = Absent
  /\ packages = {} /\ union = {}
  /\ overrides = {} /\ dependencies = {} /\ locals = {} /\ resolved = {}
  /\ selected = {} /\ unlisted = {}

-----------------------------------------------------------------------------
(* The registry and the cache, while the command runs and between commands *)

Change ==
  /\ changes < MaxChanges
  /\ changes' = changes + 1
  /\ UNCHANGED <<disk, session, resolver>>

\* A release appears: a new version, or the same version with other content.
Publish(n, v, d) ==
  /\ Change
  /\ registry[n][v] # d
  /\ registry' = [registry EXCEPT ![n][v] = d]
  /\ UNCHANGED <<releases, unlisted>>

\* A release is withdrawn, or yanked: find_latest_release skips it.
Withdraw(n, v) ==
  /\ Change
  /\ registry[n][v] # Absent
  /\ registry' = [registry EXCEPT ![n][v] = Absent]
  /\ unlisted' = IF phase = "idle" THEN {} ELSE unlisted \cup {<<n, v>>}
  /\ UNCHANGED releases

\* The lock file is checked out on another machine, or the cache is deleted.
NewCache ==
  /\ Change
  /\ phase = "idle"
  /\ releases' = [n \in Name |-> [v \in Version |-> Absent]]
  /\ UNCHANGED <<registry, unlisted>>

-----------------------------------------------------------------------------
(* The lock file's packages *)

SameKey(p, q) ==
  p.name = q.name /\ p.registry = q.registry /\ p.requirement = q.requirement

Meets(p, need) == p.name = need.name /\ p.requirement = need.requirement

\* The registry of a name is looked up in the client's configuration, and offline there
\* is no client.
RegistryNow(n) == IF command.offline THEN Absent ELSE RegistryOf[n]

\* LockFile::resolve.
Locked(need) == {p \in packages : Meets(p, need) /\ p.registry = RegistryNow(need.name)}

\* Variant: the entries are put side by side.
MergeBoth(acc, incoming) == acc \cup incoming

\* merge_locked_packages: the incoming version wins where the requirement is the same.
Merge(acc, incoming) ==
  {p \in acc : \A q \in incoming : ~SameKey(p, q)} \cup incoming

-----------------------------------------------------------------------------
(* The commands *)

\* BuildArgs::run, FetchArgs::run and UpdateArgs::run up to the resolver: fetch takes
\* the packages out of the lock file and update clears them.
Start(c) ==
  /\ phase = "idle"
  /\ phase' = "add" /\ command' = c
  /\ packages' = IF c.op = "build" THEN disk ELSE {}
  /\ union' = IF c.op = "fetch" THEN disk ELSE {}
  /\ overrides' = LocalOverride \cup Names(VersionOverride)
  /\ unlisted' = NotListed
  /\ UNCHANGED <<market, disk, dependencies, locals, resolved, selected>>

\* The command returns, fails or dies: the resolver is dropped.
Return ==
  /\ phase' = "idle" /\ command' = Absent
  /\ packages' = {} /\ union' = {}
  /\ overrides' = {} /\ dependencies' = {} /\ locals' = {} /\ resolved' = {}
  /\ selected' = {} /\ unlisted' = {}

Fail == phase # "idle" /\ Return /\ UNCHANGED <<market, disk>>

\* The needs that add_dependency inserts: those of a name that is new.
New(needs, deps) == {n \in needs : n.name \notin locals \cup Names(deps)}

\* Where two needs have one name, the first that the hash set yields is inserted and the
\* other ignored.
Firsts(needs) ==
  {c \in SUBSET needs :
     /\ Names(c) = Names(needs)
     /\ \A x, y \in c : x.name = y.name => x = y}

\* Variant: a name that is there already ends the loop.
AddingStops(needs, deps) ==
  {deps \cup c : c \in IF New(needs, deps) = needs THEN Firsts(needs) ELSE {{}}}

\* add_packages.
Adding(needs, deps) == {deps \cup c : c \in Firsts(New(needs, deps))}

\* resolve_dependencies, an override with a version: add_dependency ignores it if the
\* name is there already.
AddVersion(o) ==
  /\ phase = "add" /\ o.name \in overrides
  /\ overrides' = overrides \ {o.name}
  /\ dependencies' \in Adding({o}, dependencies)
  /\ UNCHANGED <<market, disk, session, locals, resolved, selected, unlisted>>

\* Variant: a dependency of that name stays.
AddLocalBesides(n) ==
  /\ phase = "add" /\ n \in overrides
  /\ overrides' = overrides \ {n}
  /\ dependencies' \in Adding(LocalNeeds[n], dependencies)
  /\ locals' = locals \cup {n}
  /\ UNCHANGED <<market, disk, session, resolved, selected, unlisted>>

\* An override with a path: a dependency of that name gives way, and what the local
\* package needs is added before it is there itself.  The manifest names it once, so
\* should_insert holds.
AddLocal(n) ==
  /\ phase = "add" /\ n \in overrides
  /\ overrides' = overrides \ {n}
  /\ dependencies' \in Adding(LocalNeeds[n], {d \in dependencies : d.name # n})
  /\ locals' = locals \cup {n}
  /\ UNCHANGED <<market, disk, session, resolved, selected, unlisted>>

\* After the overrides, the packages of the WIT directory.
AddPackages ==
  /\ phase = "add" /\ overrides = {}
  /\ phase' = "resolve"
  /\ dependencies' \in Adding(Needs[command.dir], dependencies)
  /\ UNCHANGED <<market, disk, command, packages, union, overrides, locals, resolved,
                 selected, unlisted>>

\* find_latest_release.
Latest(need) ==
  LET matching == {v \in need.requirement : registry[need.name][v] # Absent}
  IN  {v \in matching : \A w \in matching : w <= v}

\* Variant: online, the pin is not asked for.
ChoicesFloating(need) ==
  IF command.offline
  THEN {[need |-> need, version |-> p.version, accepted |-> {p.digest}] : p \in Locked(need)}
  ELSE {[need |-> need, version |-> v, accepted |-> Digest] : v \in Latest(need)}

\* DependencyResolver::resolve, the version: the pinned one offline, and online if it is
\* listed; the latest one that matches otherwise.
Choices(need) ==
  LET pinned == {p \in Locked(need) :
                   command.offline \/ registry[need.name][p.version] # Absent}
  IN  IF pinned # {}
      THEN {[need |-> need, version |-> p.version, accepted |-> {p.digest}] : p \in pinned}
      ELSE IF command.offline
      THEN {}
      ELSE {[need |-> need, version |-> v, accepted |-> Digest] : v \in Latest(need)}

\* Variant: the next dependency is taken up before the release has come.
SelectAhead(need) ==
  /\ phase = "resolve"
  /\ \E s \in Choices(need) : selected' = selected \cup {s}
  /\ dependencies' = dependencies \ {need}
  /\ UNCHANGED <<market, disk, session, overrides, locals, resolved, unlisted>>

Select(need) ==
  /\ phase = "resolve" /\ selected = {}
  /\ \E s \in Choices(need) : selected' = {s}
  /\ dependencies' = dependencies \ {need}
  /\ UNCHANGED <<market, disk, session, overrides, locals, resolved, unlisted>>

\* CachingClient::get_release: the cache is asked first, and what the registry gives is
\* put there.
Released(n, v, d) ==
  \/ /\ releases[n][v] = d
     /\ UNCHANGED releases
  \/ /\ releases[n][v] = Absent
     /\ ~command.offline
     /\ registry[n][v] = d
     /\ releases' = [releases EXCEPT ![n][v] = d]

PinOf(s, d) == [name |-> s.need.name, registry |-> RegistryNow(s.need.name),
                requirement |-> s.need.requirement, version |-> s.version, digest |-> d]

\* The release, with a digest that is accepted, replaces what the name resolved to.
GetRelease(s, d) ==
  /\ Released(s.need.name, s.version, d)
  /\ d \in s.accepted
  /\ resolved' = resolved \cup {PinOf(s, d)}
  /\ locals' = locals \ {s.need.name}
  /\ selected' = {}
  /\ UNCHANGED <<registry, changes, disk, session, overrides, dependencies, unlisted>>

\* The digest is not the one in the lock file: the command fails, and the release
\* stays in the cache.
Refuse(s, d) ==
  /\ Released(s.need.name, s.version, d)
  /\ d \notin s.accepted
  /\ Return
  /\ UNCHANGED <<registry, changes, disk>>

\* LockFile::update_dependencies, once everything is resolved.
UpdateDependencies ==
  /\ phase = "resolve" /\ dependencies = {} /\ selected = {}
  /\ phase' = "write"
  /\ packages' = resolved
  /\ UNCHANGED <<market, disk, command, union, resolver, unlisted>>

\* Variant: what was put by is dropped.
WrittenAlone == packages

\* What fetch_into_lock, and the others, write.
Written == IF command.op = "fetch" THEN Merge(union, packages) ELSE packages

Write ==
  /\ phase = "write"
  /\ disk' = Written
  /\ Return
  /\ UNCHANGED market

-----------------------------------------------------------------------------
Next ==
  \/ \E n \in Name, v \in Version : Withdraw(n, v) \/ \E d \in Digest : Publish(n, v, d)
  \/ NewCache
  \/ \E c \in Command : Start(c)
  \/ \E o \in VersionOverride : AddVersion(o)
  \/ \E n \in LocalOverride : AddLocal(n)
  \/ AddPackages
  \/ \E need \in dependencies : Select(need)
  \/ \E s \in selected, d \in Digest : GetRelease(s, d) \/ Refuse(s, d)
  \/ UpdateDependencies
  \/ Write
  \/ Fail

Spec == Init /\ [][Next]_vars

-----------------------------------------------------------------------------
TypeOK ==
  /\ registry \in Releases /\ releases \in Releases
  /\ changes \in 0 .. MaxChanges
  /\ disk \subseteq Pin /\ packages \subseteq Pin /\ union \subseteq Pin
  /\ phase \in {"idle", "add", "resolve", "write"}
  /\ command \in Command \cup {Absent}
  /\ phase = "idle" <=> command = Absent
  /\ overrides \subseteq LocalOverride \cup Names(VersionOverride)
  /\ dependencies \subseteq Need
  /\ locals \subseteq LocalOverride
  /\ resolved \subseteq Pin
  /\ selected \subseteq Selection
  /\ \A s, t \in selected : s = t
  /\ unlisted \subseteq Name \X Version

\* Every pin in the lock file satisfies its requirement, and there is one for each
\* requirement on a package, whatever commands wrote it and however they were merged
\* (lock.rs:219, wit.rs:316).
LockSound ==
  /\ \A p \in disk : p.version \in p.requirement
  /\ \A p, q \in disk : SameKey(p, q) => p = q

\* What somebody asks the resolver for: the directory, the manifest and the local packages.
Asked == Needs[command.dir] \cup VersionOverride \cup UNION {LocalNeeds[n] : n \in LocalOverride}

\* Whatever the order of the overrides and of the needs, every name asked for is resolved
\* when the lock file is written, from the registry once at most and then by a
\* requirement that somebody stated.
NeedsMet ==
  phase = "write" =>
    /\ Names(Asked) \subseteq locals \cup Names(packages)
    /\ \A p \in packages : \E need \in Asked : Meets(p, need)
    /\ \A p, q \in packages : p.name = q.name => p = q

\* A name that the manifest redirects to a path is not resolved from the registry, though
\* other local packages need it and were added first (resolver.rs:456).  The exception is
\* a local package one of whose own packages needs it.
LocalKept ==
  phase = "write" =>
    \A n \in LocalOverride :
      n \notin Names(LocalNeeds[n]) => n \in locals /\ n \notin Names(packages)

\* A build moves a pin only if the pinned version was not listed for a time while it ran,
\* and never to other content of the same version, whatever happens to the registry
\* between the list of versions and the release (resolver.rs:556, 591).
PinsKeptBy(op, before) ==
  phase = "write" /\ command.op = op =>
    \A old \in before, new \in packages :
      SameKey(old, new) /\ old # new =>
        /\ <<old.name, old.version>> \in unlisted
        /\ old.version # new.version

BuildKeepsPins == PinsKeptBy("build", disk)

\* wkg fetch drops no pin of any directory: each requirement that had one has one
\* afterwards (wit.rs:316).
FetchForgetsNothing ==
  [][phase = "write" /\ command.op = "fetch" /\ disk' # disk =>
       \A old \in disk : \E new \in disk' : SameKey(old, new)]_vars

\* The documentation of wkg fetch (crates/wkg/src/wit.rs:60) has it fetch what is not in
\* the lock file, and leaves moving the pins to wkg update.
FetchKeepsPins == PinsKeptBy("fetch", union)

\* DependencyResolver::new (resolver.rs:352) has an offline resolver work from its lock
\* file: it finds the pins that are there.
OfflineFindsPins ==
  phase = "resolve" /\ command.offline =>
    \A need \in dependencies, p \in packages : Meets(p, need) => Locked(need) # {}

\* Override::version (manifest.rs:175) overrides the version that a world file asks for:
\* no other requirement on the package is resolved.
OverridesApplied ==
  phase = "write" =>
    \A o \in VersionOverride, p \in packages :
      p.name = o.name => p.requirement = o.requirement
=============================================================================
