# TLA+ models of wasm-pkg-tools

`wkg` and its libraries fetch, build and publish WebAssembly component packages.
This directory holds TLA+ models of the parts of it that keep state or share it
between processes, the TLC runs that check them on small instances, and TLAPS
proofs of the properties that matter most, for every value of the constants.
Paths below are relative to `src/crates/`.

## 1. The system

| Part | State | Operations | Interacts with |
|---|---|---|---|
| Lock file (`wasm-pkg-core/src/lock.rs`) | `wkg.lock` on disk and its flock; packages in memory | `load`, `load_from_path`, `new_with_path`, `from_dependencies`, `update_dependencies`, `resolve`, `write`, drop | every build, fetch, update and publish; other processes through flock |
| Cache (`wasm-pkg-client/src/caching/`) | one file per content digest, one per package version | `get_release`, `get_content`, `put_data`, `get_data`, `put_release` | the registry client beneath, the resolver above, other processes through the shared directory |
| Resolver (`wasm-pkg-core/src/resolver.rs`) | resolutions, dependencies still to resolve, versions fetched | `add_dependency`, `add_packages`, `resolve`, `decode_dependencies`, `generate_resolve` | cache, lock file (pins) |
| WIT build and fetch (`wasm-pkg-core/src/wit.rs`, `wkg/src/wit.rs`) | the `deps` directory, the lock file | `build_package`, `fetch_dependencies`, `populate_dependencies`, `merge_locked_packages` | resolver, lock file |
| Publish plan (`resolver.rs`, `PublishPlan`) | the dependency graph of what is left to publish | `from_paths`, `take_ready`, `mark_confirmed` | `wkg publish`, `PublishVerifier` |
| Publishing (`wkg/src/main.rs`, `wkg/src/overlay.rs`) | a temporary local registry | `PublishArgs::run`, `PublishVerifier::try_new` | plan, client, cache, lock file |
| Registry client (`wasm-pkg-client/src/lib.rs`) | the sources resolved so far | `list_all_versions`, `get_release`, `stream_content`, `publish_release_data`, `resolve_source` | backends, configuration |
| Semver check (`decoded_component.rs`) | none | `semver_check` | `publish_release_data` |
| Local and OCI backends (`local.rs`, `oci/`) | a directory tree; the OCI client and its one login | list, get, stream, publish | file system, network |
| Configuration, metadata (`wasm-pkg-common/src/config.rs`, `metadata.rs`) | the configuration file | `global_defaults`, `from_file`, `merge`, `resolve_registry`, `to_file` | `wkg config`, client |
| Manifest (`wasm-pkg-core/src/manifest/`) | `wkg.toml` files of a directory and those above it | `load_root_workspace`, `resolve_members` | workspace fetch and publish |
| `wkg get`, `wkg oci pull` (`wkg/src/main.rs`, `oci.rs`) | a temporary file and the output | `GetArgs::run`, `PullArgs::run` | client, the user's files |

What is hard in it:

* *Several processes, one file.* The lock file is shared under a flock, but it is
  created, and its existence tested, without one. The cache is shared with no lock
  at all. Neither is written atomically.
* *Death and failure between two steps.* Both files are truncated first and filled
  afterwards; nothing repairs what is left behind.
* *Validation that comes last.* `validating_stream` knows the digest only after the
  last piece, which has long been written by then.
* *State used across an await.* The client's source cache, the version check before
  a publish, the resolver's recursive `add_dependency`.
* *Partial failure.* Publishing several packages in waves; populating `deps` after
  the lock file is written.

What makes each part correct, in a sentence: a session of the *lock file* works on
what the file holds, alone if it writes; the *cache* delivers the content of the
digest or an error; the *resolver* keeps to the pins and to the local overrides; the
*plan* publishes every package once and after its dependencies; the *client* never
knowingly publishes a version twice nor over a semver break, and asks every registry at
its own host as one user; *configuration* is resolved by the documented precedence and
survives `wkg config`; a *download* is whole and replaces nothing unasked; a *workspace
fetch* leaves the pins and the files of what the workspace needs from others.

## 2. Modules

| Module | What it is |
|---|---|
| `LockFile` | the lock file protocol, as several `wkg` processes run it |
| `SerialLockFile` | what the lock file promises: a store of one value with readers and writers |
| `LockFileRefinement` | the mapping under which `LockFile` implements `SerialLockFile` |
| `LockFileProofs` | the proofs about `LockFile`, the refinement included |
| `MCLockFile`, three `.cfg` | TLC instances |
| `FileCache` | the cache directory at one package version, as several processes use it |
| `FileCacheProofs` | the proofs about `FileCache` |
| `MCFileCache`, three `.cfg` | TLC instances |
| `Resolver` | the dependency resolver, and what build, fetch and update do to the pins |
| `ResolverProofs` | the proofs about `Resolver` |
| `MCResolver`, four `.cfg` | TLC instances |
| `Semver` | versions, series and the semver check, as operators |
| `PublishPlan` | the dependency graph of a checkout, its refusals and its waves, as operators |
| `ReleaseOrder` | what publishing promises: every member once, after the other members it needs |
| `Publishing` | `wkg publish` by several publishers, against one registry |
| `PublishingProofs`, `SeriesProofs` | the proofs about `Publishing`, and about the series of versions |
| `MCPublishing` | TLC instance |
| `Tables` | `insert` and `extend` of hash maps, as operators a proof can expand |
| `Config` | configurations and registry metadata, as operators |
| `Settings` | `wkg config`, by several processes on one file |
| `Client` | concurrent calls on one registry client, and the login of the OCI backend |
| `Get` | `wkg get` and `wkg oci pull`, by several processes on one output |
| `Discovery` | which manifest and which workspace a directory belongs to, as operators |
| `WorkspaceFetch` | `wkg fetch` in a workspace |
| `Decoding` | the topological sort of the dependencies and their merge |
| `Wkg` | these parts under one specification |
| `ClientProofs` | the proofs about `Client` |
| `FetchProofs` | the proofs about `WorkspaceFetch` and `Decoding` |
| `WkgProofs` | the proofs about `Settings` and `Get`, and the types of all parts |
| `MCWkg` | TLC instance |

### LockFile

A session is one command. `Start` picks read-only (`publish` of one directory) or
read-write (everything else); `CheckExists` is `try_exists`; `Open` creates the file
if it has to; `LockShared` and `LockExclusive` are the flock; `Parse` and
`ParseError` are the rest of `load_from_path`; `UpdateDependencies` is all the work
that ends in new packages; `Truncate`, `WriteContents` and `Sync` are `write`;
`Finish` is a command that does not write; `Unlock` is the drop of the `Locker`. A
process that found no file runs `LockExclusive`, `Truncate`, `WriteContents`, `Sync`
and `Unlock` first, for `temp_lock`, and then opens the file a second time, as `load`
does. `IOError` and `Crash` are possible at every step that can be hit. A failure
before the lock is held changes nothing; a `Crash` there stands for it.

`Contents` are the sets of locked packages; what they are made of does not matter
here. `Incomplete` is an empty file or one with the two comment lines only: it has
no version, so it does not parse. A file whose contents were cut in the middle would
differ only if it still parsed; the code writes them in one call after `set_len(0)`.

Properties:

* `HeldFile` (invariant): what a session loaded is in the file until the session
  itself truncates it; what it wrote is in the file when it syncs.
* `SerialStore` (refinement): every behaviour is one of `SerialLockFile`. The
  abstract module is where the two weaknesses are said openly: `Lose`, a writer that
  dies or fails in its commit, and `Reset`, a process that found no file.
* `SessionsEnd` (liveness): every session ends, so no two sessions wait for each
  other and `load` does not wait for itself.

### FileCache

One package version, one or more digests, and one request per client: the release from the cache
or from the registry, then its content likewise, then the caller reading what it was given.
`put_data` copies piece by piece at the offset of its own handle after a truncating
`File::create`, so two clients filling one entry erase and overwrite each other's pieces, and a
hole reads as zeros. `Upstream[c]` is the digest that the registry of client `c` gives out, so
clients can be configured with different registries. `right[c]` says whether the bytes of a
stream are the ones the digest is of, which is known when the stream ends (`CopyEnd`). `Fail` is
any failure or the death of the process; the final states `left_content` and `left_release` tell
that it hit while a file was being filled. When `put_data` fails, the piece that tokio's thread
was given last may still be written: the client is "landing" until `Land`. A retry is another
client. `warm` is a history variable: no action reads it.

Properties:

* `MissingAnsweredFor` (invariant): what is missing or wrong in an entry is still to
  be written by a client at work, or is the doing of one that failed or died.
* `WarmServed` (invariant): a client that found the entry whole and at rest delivers
  it whole.
* `RestingKept` (action property): an entry that nobody is filling is never filled or changed again.
* `EntryCompletes` (liveness): an entry gets whole and stays whole, unless somebody
  failed filling it.

### Resolver

One command at a time, because the lock file is held throughout (`LockFile`), while the
registry changes at any step (`Publish`, `Withdraw`). `Start` loads the packages: build
keeps them, `fetch_into_lock` puts them by in `union`, update clears them. `AddVersion`
and `AddLocal` are one turn of the loop over the overrides in `resolve_dependencies`, in
any order, as the overrides are a hash map; each is one `add_dependency` call with the
recursive `add_packages` it makes. `AddPackages` adds the directory's own needs. `Select`
and `GetRelease` are one turn of `resolve`, split at the await between the version list
and the release; the release comes from the persistent cache if it is there. `Refuse` is
the digest mismatch. `UpdateDependencies` is `update_dependencies` with
`generate_locked_packages`, `Write` the final `write` with fetch's merge (and the `todo!`
that update ends in, after the write). `Fail` is any other end, at every point.

A version requirement is the set of the versions it accepts, so two spellings of one
set count as one requirement. `packages`, the resolver's map of version lists, is left
out: each name is listed once. `should_insert` and the assertion after it hold whenever
the overrides come from one manifest. `Locked` compares the registry as `LockedPackage`'s
order does, and `RegistryNow` is where it comes from. Pre-existing lock files are those
that earlier commands wrote. `unlisted` is a history variable: no action reads it.

Properties:

* `LockSound` (invariant): every pin satisfies its requirement, one per requirement.
* `NeedsMet` (invariant): when the lock file is written, every name asked for by the
  directory, the manifest or a local package is resolved, once, by a stated requirement.
* `LocalKept` (invariant): a name redirected to a path stays local though others that
  were added earlier need it.
* `BuildKeepsPins` (invariant): a build moves a pin only if the pinned version was not
  listed for a time while it ran, and never to other content of the same version.
* `FetchForgetsNothing` (action property): fetch drops no pin of another directory.

### Publishing

`Start` is `PublishArgs::run` up to the plan, whose refusals (two members of one name, a circle
of needs) are `PlanRefused`. A checkout of several members is built by the verifier: each in an
order of its needs, against the members built so far in the temporary registry, the releases
elsewhere, and the publisher's release cache, which answers first. A pin that is no longer
listed counts for nothing, and the newest release that the requirement accepts is taken. Then
the waves: `take_ready`, one member after the other with the list of versions, the comparison
with its neighbours, the publication, `mark_confirmed` at the end of a wave, duplicates and
`--skip-dupes` as they come. A checkout of one member is built, and published as it is, against
the registry itself and compared with its lock file, except by a dry run. With the local backend
the publication is a creation and a copy, so that a failure or a second publisher leaves a torn
file (`Broken`); with OCI it is one step. Any step may fail. Versions are records whose `pre` is
1 for a release and 0 for its pre-release; a world is a set of exported items. Of the fields of
`run` under "history" in the module one is read by an action: `touched`, the versions that
another publisher wrote, too, tells `CopyLocal` that two open copies can leave a mixture.

Properties:

* `SeriesCompatible` (invariant): a candidate is compared with its neighbours alone, and
  the whole series is compatible by that, whatever the order of the publications.
* `ReleasesKept` (action property): only a publication that was unchecked or did not see the
  release replaces a whole one.
* `ReleasesOrdered` (refinement): every publication is a behaviour of `ReleaseOrder`.
* `WaveNeverEmpty` (invariant): a plan that is not empty has members that are ready.
* `AllPublished` (invariant): a successful publication, checked or not, leaves every member
  under its version, and as it was built, whole, unless it was skipped as a duplicate or
  another publisher wrote the same version at the same time or later. What is skipped is not
  looked at by the code either, be it a torn file.
* `FitsTogether` (invariant): a member was built against the content of the member it needs
  that the registry has got, with the same exceptions for that one, and when the release
  cache answered with what an earlier build had put there for its version.
* `PublishedAsLocked` (invariant): one directory's release uses the versions in its lock file.
* `PublishEnds` (liveness): the waves use up the plan.

### Config, Settings, Client

`Config` translates `config.rs`, `config/toml.rs` and `metadata.rs` definition by
definition. In `Settings` a command reads the file (`Read`), truncates it and fills it
(`Truncate`, `Fill`), since `tokio::fs::write` is two steps; `Edit` and `Save` are an
editor; `Quit` is a failure, a death, or a command that only prints.

In `Client` a call is `Begin` (the cache, and the choice of metadata), `Fetch` (the
well-known metadata, or the default after any failure), `Build` (backend and its
configuration), `Insert`, then for OCI `Login` (the cell that one call initialises while
others wait), `Auth` and `Retry`, and `Operate`, one request. A call can fail or be dropped
wherever it waits. The CLI runs one call at a time; a program that uses the library can
share one client between tasks.

* `SettingsKept` (invariant): unless two commands overlapped or one died, the file holds
  all that was asked for, but for the aliases in metadata.
* `LayersAgree` (invariant): the user's file and the same file given by `--config` agree.
* `MetadataOfRegistry` (invariant): what is asked of a registry is asked at that registry;
  the two requests for which the code takes another registry's metadata are named.
* `OneIdentity` (invariant): a registry is spoken to as one user, unless calls overlapped.

### Get

One command per process and no lock. `Receive` hands a chunk over to tokio's thread and `Land`
is when it is written: the last one may land, or fail, after the command has put the file in its
place. `Look` is the test for an output, `Persist` the rename. The write of the output as WIT,
or by `wkg oci pull`, truncates (`WriteWit`, `Pull`) and then fills the file (`Fill`) or fills a
part of it (`Tear`), on a full disk or when the command is killed: it has been "cut". `Quit` is
a failure or a death anywhere else. A file has an inode, so that a command that fills a file
another one has replaced or opened is seen.

* `GetKeepsFiles` (action property): a file of the user's is replaced only by a command that
  was told to, by `wkg oci pull`, or by one that had looked before it was saved.
* `GetsWhole` (invariant): what a command leaves is whole, unless it was cut short while it
  wrote the output, its last write failed unseen, or two commands wrote into one file.

### Discovery, WorkspaceFetch

`Discovery` has the walk up the directories (a workspace counts only when it is the nearest
manifest or lists the nearest one's directory) and the expansion of globs, of which a malformed
one is dropped without an error. `WorkspaceFetch` is `FetchArgs::run` where that finds a
workspace: `Start` with the checks and the creation of the lock file, which a directory without
WIT does not prevent, `BuildMember` (the verifier, which replaces the pins each time),
`ResolveDir`, `Commit`, `Clear`, and one `WriteWasm` or `PrintWit` for each file. Packages are
released all the while.

* `FetchPins` (invariant): the lock file pins what the fetched directories need from others,
  and nothing of the workspace's own.
* `SharedPinsStay` (action property): a pin is not moved if all members and fetched
  directories need its package under the pin's requirement and no other.
* `DepsMatchLock` (invariant): after a good fetch the deps directory is what the lock file says.
* `OwnWorkspace` (action property): no workspace above the nearest manifest is written to.

### Decoding

The recursion of `visit` is a stack, with the needs of each call in any order (`Visit`,
`Descend`, `Leave`). `ParseRoot` parses the directory; then `MergeText` pushes text into the
resolve and `MergeWasm` merges a wasm package with all it carries (`Inside`), in the order,
and `PushRoot` pushes the directory. A phase tells how it ended: "failed" on a need,
"mismatched" copies of a package, or text "rejected" for another reason.

* `SortedByNeeds` (invariant): the sort is complete and in order.
* `MergesWhatItCan` (invariant): what keeps the dependencies from being merged is in the map,
  not in the order of the visits. If a need is not met, some of them need each other in a
  circle, or text needs what is not in the map; if copies do not match, another dependency
  that has been merged brings a package that this one carries, too.

### Wkg

A command of `wkg` runs one of these parts at a time, and the parts have no variable in
common: `part` says which one a behaviour is of, the others stay in one initial state, and
one run checks them all. What a part takes from another is shared as definitions:
`Settings` and `Client` use `Config`, `WorkspaceFetch` uses `Discovery` and `PublishPlan`.

## 3. Runs

| Run | Instance | Result |
|---|---|---|
| `lockfile` | 3 processes, one session each, with and without a file, all faults | passes, 142,160 states |
| `lockfile_erase` | 2 processes, no file, no fault; `CreatesOverNothing` | violated: see findings |
| `lockfile_parse` | 2 processes, no file, no fault; `LoadParses` | violated: see findings |
| `filecache` | 3 clients, 1 offline, 2 pieces, all faults | passes, 45,355 states |
| `filecache_served` | 2 clients, no fault; `ServedIntact` | violated: see findings |
| `filecache_release` | 2 clients of different registries, no fault; `OwnRelease` | violated: see findings |
| `resolver` | 2 directories, 2 local packages, 1 version override, 2 versions, 2 changes | passes, 2,469,275 states |
| `resolver_fetch` | the same; `FetchKeepsPins` | violated: see findings |
| `resolver_offline` | no change; `OfflineFindsPins` | violated: see findings |
| `resolver_override` | no change; `OverridesApplied` | violated: see findings |
| `publishing` | 2 publishers, 3 publications, 2 packages, both backends | passes, 77,161 states |
| `wkg` | 2 processes on the configuration, 2 tasks, 2 downloads, 6 trees, 3 dependencies | passes, 380,687 states |

*Why the bounds are enough.* Three processes are the least with which a lock can be
contended by two while a third is between its test for the file and its creation.
One session per process slot suffices because a second session differs from a first
one of another process only in values that `Start` resets. `Package` has one member:
a lost update shows between `{}` and `{a}`. Two pieces are the least in which a file
can be partly written and can have a hole, and three clients the least in which two
fill it while a third reads. Symmetry is not used, because the runs check liveness.
For the resolver: two local packages that need each other are the least whose order
matters; two versions and two digests tell a moved pin from a replaced content; two
changes (`MaxChanges`) allow a replaced release to meet a new cache, or a withdrawal to
be followed by a publication during one command. Commands are not bounded.
For `publishing`, `MaxRuns` lets one publisher rerun after a failure while the other is
between its list and its publication; two packages are the least that need each other.
For `wkg`: three settings commands are two that overlap and one after them; three calls
on a client are two that overlap, or that share a source one after the other, and one
more; `Whole = 2` chunks are the least of which one is awaited and the last is not; a
second fetch meets the lock file and the deps directory of the first; three dependencies
are the least with a circle that is not the first call's, and all their maps are tried.
Tasks and dependencies are symmetric in run `wkg`, which checks no liveness. The
configurations, requests and trees are chosen so that every branch of the definitions is
taken, the malformed settings included.

*What the violated runs show* (`PROJECT.json`, "findings"):

1. `load` can erase committed packages: it decides to create the file from a test made
   without the lock, and truncates whatever is there when it gets the lock.
2. `load` can fail on a file another command has created and not yet locked.
3. `get_content` delivers what another process has copied so far, or what a failed one
   left behind, as the content.
4. A release cached from one registry answers for every other, the verifier's
   temporary one included.
5. `wkg fetch` takes the pins away before it resolves, so it updates everything.
6. An offline resolver looks its pins up under no registry and finds none of those that
   an online one wrote.
7. A version override is lost if a local override that needs the package is added first,
   which is up to a hash map.

*Fairness.* Weak fairness of the steps of each process. For the lock file: the
operating system schedules a process that can run and grants a flock that stays free;
since every session is finite and starts are not forced, a waiter's flock stays free
in the end. For the cache: also, a registry that was asked answers or fails, as the
code sets no timeout of its own. Neither `Start`, `Crash`, `IOError` nor `Fail` is
fair. For `publishing`, a publisher that is at work goes on, as it waits for nobody; the
weak fairness of its steps is written out as `[]<>` of the idle and final states or
`[]<><<Step>>_vars`, which says the same because a publisher at work can always step.

*Other disagreements met*, which no run shows:

* `wkg/src/main.rs:301` promises "A successful `get_release` probe short-circuits the
  publish" for `--skip-dupes`; there is no probe, and a duplicate is told from the error.
* `resolver.rs:922` says that what `take_ready` returned is not returned again; it is,
  until it is confirmed. The one caller confirms each wave.
* A pre-release can be published again over itself, with `--skip-dupes` or without: the list
  for the check is asked for with a requirement that matches no pre-release. With
  `--skip-semver-check` any version can, because the list is not asked for.
* A plain mapping of a package to a registry does not shield it from its namespace's own
  metadata, nor `--registry` from the package's: the request goes to the other registry's
  host (the exceptions in `MetadataOfRegistry`), though `docs/configuration.md:93` says that the
  package's mapping "Wins over the namespace mapping".
* `wkg fetch` in a workspace may lose pins that some member does not need (the verifier's builds
  replace the packages), and `wkg fetch <dir>` leaves only that directory's pins.
* `wkg config --default-registry` drops the keys `ociRegistry` and `ociNamespacePrefix`, which
  `docs/configuration.md:78` allows in a mapping ("the same fields" as a `registry.json`).
* `wkg get` can succeed with an output whose last chunk failed to be written.

## 4. Proofs

`LockFileProofs`, from `LockFileAssumption` only (any set of processes, any number of
sessions, faults or not):

* `TypeCorrect`: `Spec => []TypeOK`.
* `FileHeld`: `Spec => []HeldFile`. `HeldFile` alone is not inductive: that nobody
  rewrites the file under a session follows from the lock, so `IInv` adds that the
  lock table agrees with where processes are (`LockTable`), that an exclusive holder
  is the only holder (`Exclusion`), that only an exclusive holder rewrites the file
  (`WritersExclusive`), and what is known of the file's existence (`Existence`) and of
  a creating process (`CreatingEmpty`).
* `Refinement`: `Spec => SerialStore`. With `IInv`, `storeBar` is well defined
  (`StoreMapped`); `RefinesStep` maps each action to one abstract action or a stutter.
* `ParsesFromExisting`: with a lock file in place and no faults, `LoadParses` holds. So
  the race of run `lockfile_parse` is due to the creation alone.
* `ErasesNothingExisting`, `ErasesNothingAlone`: `CreatesOverNothing` holds, faults
  included, with a lock file in place (`NoneCreating`), and also where commands only
  follow one another (`NothingToErase`). What run `lockfile_erase` shows takes both a
  missing file and two commands at once.

`FileCacheProofs`, from `FileCacheAssumption` and `AbsentAssumption`:

* `TypeCorrect`, `MissingIsAnsweredFor`, `WarmIsServed` and `RestingIsKept`. `IInv` adds
  what a client knows at each point (`KnownRelease`) and that a warm reader's entry is
  still whole and at rest (`WarmReading`), which rests on `RestStep`: a client starts
  filling an entry only when it finds none. `MissingStep` is the argument about several
  fillers: who truncates answers for every piece, and who copies a piece takes nothing
  away from the others (`CopyKeeps`). A client whose last piece is still to land counts as
  one that fills the entry, and that piece is like any other (`PieceWritten`).
* `OwnReleaseOfOneRegistry`, `ServedIntactAlone`: the limits of the two findings.
  `OwnRelease` holds for any number of clients of one registry (`OneRelease`), and
  `ServedIntact` for a client that shares the cache with no other, faults included:
  by `MissingAnsweredFor` an entry that it reads is whole.

`ResolverProofs`, from `ResolverAssumption` and `CommandAssumption`, for any manifest and
any number of changes to the registry:

* `TypeCorrect`, `LockIsSound`, `NeedsAreMet`, `LocalIsKept`, `BuildKeepsItsPins` and
  `FetchForgetsNoPin`. `IInv` says what the command holds in each phase (`Phases`), that
  a name is at one place of the way from need to resolution (`OncePerName`), that
  nothing is lost or invented on it (`AllSeen`, `OnlyAsked`), that a local package stays
  (`LocalStays`), and how a selection relates to the pin (`SelectionPinned`,
  `ResolvedPinned`). `BuildKeepsPins` rests on `LockSound`: with two pins for one key,
  keeping one would move the other. `AddingFacts` is the lemma about `add_packages`.
* `UnneededOverridesApply`: `OverridesApplied` holds where no local override needs an
  overridden package (`Forced`), so the finding of run `resolver_override` takes such a need.
* `OfflineResolvesNothing`: the finding of run `resolver_offline` is no matter of timing. As
  every pin has a registry (`PinsHaveRegistry`), an offline build finds no pin for any need,
  whatever was resolved before.

`PublishingProofs` and `SeriesProofs`, from `PublishingAssumption` (jobs are checkouts of
finitely many members, whose needs name each package once), for any publishers, packages
and versions:

* `TypeCorrect`, `PlanNeverStuck`, `OrderImplemented`, `ReleasesAreKept`, `LockIsKept`,
  `EverythingPublished` and `MembersFit`. The invariants are stated for one publisher, and
  each has a lemma for that publisher's own steps and one for the others'. `PlanInv`: the
  plan, the wave and the settled members split the checkout, so that what is left is a set
  of members of a checkout without a circle, which has a member that needs no other; that
  is `WaveNeverEmpty`, and the refinement of `ReleaseOrder` follows from it. `SeenInv` and
  `OwnInv` say what a publisher knows of the registry although others write to it,
  `BuildInv` what was built from what, `SettledInv` what of it is there: a step of another
  publisher that writes one of this one's versions makes it `touched`, and leaves the rest
  (`UntouchedElsewhere`).
* `SeriesStayCompatible`: the code compares a candidate with its two neighbours. Between
  two releases of a series with a checked chain between them there is always a next one,
  and a release that is put between two was compared with both.

`ClientProofs`, `FetchProofs` and `WkgProofs`, from `WkgAssumption`. It says of the
constants what the types in Rust say (`None` is a value of no other kind, a mapping in a
configuration has its keys, what is in the directories with WIT is known), and that of a
set of versions that may be released there is a newest, which is so for finite sets. A
step of `Wkg` is a step of one part, and the other parts stutter.

* `AskedAtRegistry`, `SpokenToAsOne`, `ClientTypes`: a call carries what its source is
  built with. Unless two calls have overlapped in building one, the cache is empty for a
  registry whose source is being built, the source in it is that of every call, and one
  call at a time logs in to it (`OneLogin`).
* `SortComplete`, `MergeFailsOnlyOnTheMap`: the calls of `visit` are a path of needs
  (`IsPath`), on which no dependency is twice; what is passed over is in the order or the
  next call. So a need that is being visited closes a circle (`PathCircle`), and a call
  that returns has its needs before it (`OrderGrow`). While they are merged, the needs of
  what is left are merged or ahead (`After`), and what is in the resolve was brought by one that is
  merged (`BroughtInv`), so that copies can only clash with those of another dependency.
* `LockedAsNeeded`, `UnpackedAsLocked`, `OthersStay`, `AllNeedItStays`: the pins that pass
  from member to member agree with each other and with what is released (`Consistent`,
  and nothing is withdrawn from the registry); what is merged answers a need of a
  directory that has been resolved, and every such need is answered (`MergedInv`); a pin
  that all share is the only one of its package in every directory's resolution
  (`SharedResolved`), because the resolver keeps a pin that is still offered; the deps
  directory and what is still to be written are what the lock file says (`RunInv`).
* `FileMeansTheSame`: `Config::merge` of the same text twice is resolved as once, for every
  mapping, metadata and default. `SettingsStay`: as long as no two commands overlapped, a
  command that does not know of another one's writing would write what is wanted, and of
  two that write one knows (`SettingsInv`); what is written and read again is the text
  without its aliases (`SerializedTwice`).
* `LeftWhole`, `UserFilesStay`: the temporary file and the chunk under way are what has
  been received (`GetterInv`), a user's file at the place of an output appeared after the
  look (`PlaceInv`), and a file is whole or its command is not done with it (`WholeInv`).
* `PartsTyped`: `Spec => []TypeOK`.

Every inductive invariant was checked by TLC on the instances of the runs before it was
proved. Two facts about the prover shape the modules: `f @@ g` and `x :> y` of module `TLC`
cannot be expanded, hence `Tables`; and `SUBSET S \cup T` is read by it as
`SUBSET (S \cup T)`, hence parentheses.

Only model-checked: `SessionsEnd`, `EntryCompletes` and `PublishEnds`, since liveness
under fairness is out of the prover's reach. What `FindManifest` and `RootWorkspace` compute
by recursion on the directories is not proved either: the theorems about a workspace fetch
hold for whatever directory they find.

## 5. Not modelled

* File systems on which the lock is skipped (NFS, unsupported: `lock.rs:510`, `549`), and
  power loss, where synced data could differ from written data; `try_open_rw` and
  `try_open_ro`, which nothing but tests calls; deletion of the cache by a user.
* The encoding of WIT and of components (wit-parser, wit-component), the wire protocol of
  OCI (oci-client), and how two component types are compared.
* Parsing and formatting of names, labels, references and versions: character by character
  and without state. They are model values.
* `wkg oci push`, which reads a file and sends it; the printing of versions and settings.
* The inheritance of a member's `[package]` values from its workspace (a copy per key),
  the normalisation of paths, the names of environment variables for hosts.
* The overrides of a member's manifest (`wasm-pkg-core/src/wit.rs:284`) in `Publishing`, whose
  builds take what the members name; `Resolver` has them, for one directory at a time.
* `populate_dependencies` for one directory: it is the same emptying and filling as in
  `WorkspaceFetch`, of what `Resolver` resolves.
* The renaming of a package on its way into the resolver (`add_dependency` with a package
  of another name), which nothing in the repository does.

## 6. Plan

All invariants and action properties of the passing runs are proved, and for six of the seven
findings what the documentation says is proved under the conditions that make it true, or what
the code does instead. What is left:

1. What the publication of several packages rests on beyond the properties of the runs: that
   the verifier builds a checkout in an order of its needs whatever the cache answers, and
   that a dry run writes nothing to the registry.
2. The lock file beside the resolver: that a fetch in a workspace is a session of
   `SerialLockFile`.

Out of the prover's reach, by induction over data: that `Sooner`, a strict total order by
`PrecedesOrder` of `SeriesProofs`, gives every finite set of versions a newest one
(`WkgAssumption` assumes it), and that the walk of `Discovery` over the directories ends at an
ancestor.
