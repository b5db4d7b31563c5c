----------------------------- MODULE Publishing -----------------------------
(***************************************************************************)
(* wkg publish (crates/wkg/src/main.rs, overlay.rs) against one registry   *)
(* (crates/wasm-pkg-client/src/lib.rs, local.rs, oci/publisher.rs).        *)
(*                                                                         *)
(* Several publishers, each on a machine with a cache of its own, publish  *)
(* checkouts one after another.  A publication of several paths builds all *)
(* members against each other, with a temporary registry in front of the   *)
(* real one, and publishes them in waves; a publication of one path builds *)
(* it against the registry.  Nothing stops two publishers from working on  *)
(* the same packages, and any step that does I/O may fail.                 *)
(*                                                                         *)
(* A need that is met in the lock file is met by version (digests are in   *)
(* Resolver.tla), and a release in the cache has its content there (the    *)
(* two stores are in FileCache.tla).  Members are directories.             *)
(***************************************************************************)
EXTENDS PublishPlan, Tables, FiniteSets

CONSTANTS
  Publisher,
  Package,
  Version,   \* a set of versions as in Semver
  Jobs,      \* [Publisher -> what it may be asked to publish]
  Broken,    \* a truncated or interleaved file
  MaxRuns    \* bound on the publications of each publisher

Pin == [package : Package, requirement : Version \cup {None}, version : Version]

ASSUME PublishingAssumption ==
  /\ Version \subseteq [major : Nat, minor : Nat, patch : Nat, pre : {0, 1}] \ {None}
  /\ \A p \in Publisher : \A job \in Jobs[p] :
       /\ job # None /\ DOMAIN job.checkout # {} /\ IsFiniteSet(DOMAIN job.checkout)
       /\ \A m \in Members(job.checkout) :
            /\ m.package \in Package /\ m.version \in Version \cup {None}
            /\ \A need \in m.needs :
                 /\ need.package \in Package /\ need.version \in Version \cup {None}
                 /\ \A other \in m.needs : other.package = need.package => other = need
       /\ job.lock \subseteq Pin
       /\ {job.dry_run, job.skip_dupes, job.skip_semver_check} \subseteq BOOLEAN
  /\ MaxRuns \in [Publisher -> Nat]

VARIABLES
  backend,   \* the kind of the registry
  registry,  \* [Package -> its releases by version]
  cache,     \* [Publisher -> the contents in its cache by package and version]
  runs,      \* [Publisher -> how many publications it has started]
  run        \* [Publisher -> its publication, with these fields:]
  \* pc, job
  \* data       PublishVerifier::data, by package
  \* lock       the packages of the lock file in memory
  \* plan       the members still in the plan
  \* wave       ready_for_publish
  \* ready      the part of the wave still to be published
  \* current    the member that is being published
  \* neighbors  the versions it is to be compared with
  \* and its history (of which CopyLocal reads `touched`, to know of another writer):
  \* settled    the members published, or found in the registry
  \* skipped    the packages found in the registry
  \* stale      the packages for which the cache had something else
  \* unseen     the versions of `current` written since the registry was listed
  \* touched    the packages whose version another publisher wrote, too, while this one
  \*            wrote it or later

vars == <<backend, registry, cache, runs, run>>

Empty == [x \in {} |-> None]
Known(package) == DOMAIN registry[package]

\* No command runs; of one that failed nothing is left.
Idle ==
  [pc |-> "idle", job |-> None, data |-> Empty, lock |-> {}, plan |-> {}, wave |-> {},
   ready |-> {}, current |-> None, neighbors |-> {}, settled |-> {}, skipped |-> {},
   stale |-> {}, unseen |-> {}, touched |-> {}]

Init ==
  /\ backend \in {"local", "oci"}
  /\ registry = [n \in Package |-> Empty]
  /\ cache = [p \in Publisher |-> Empty]
  /\ runs = [p \in Publisher |-> 0]
  /\ run = [p \in Publisher |-> Idle]

Becomes(p, next) == run' = [run EXCEPT ![p] = next]
Abort(p) == Becomes(p, Idle)

-----------------------------------------------------------------------------
(* The members are built against each other *)

Single(checkout) == Cardinality(DOMAIN checkout) = 1

\* PublishArgs::run and the plan in PublishVerifier::try_new.  One path has no plan, and
\* goes through the waves as a plan of its own.
Start(p) ==
  /\ run[p].pc \in {"idle", "done"} /\ runs[p] < MaxRuns[p]
  /\ runs' = [runs EXCEPT ![p] = @ + 1]
  /\ \E job \in Jobs[p] :
       IF ~Single(job.checkout) /\ PlanRefused(job.checkout) THEN Abort(p)
       ELSE Becomes(p, [Idle EXCEPT !.pc = "build", !.job = job, !.lock = job.lock,
                                    !.plan = Members(job.checkout)])
  /\ UNCHANGED <<backend, registry, cache>>

\* The packages that are redirected to the temporary registry, and what is listed there.
Siblings(job) == IF Single(job.checkout) THEN {} ELSE Packages(Members(job.checkout))
Overlay(r, n) ==
  [v \in {m.version : m \in {m \in r.plan : m.package = n /\ n \in DOMAIN r.data}} |->
     r.data[n]]

\* Variant of Offered: siblings are not redirected.
OfferedByRegistry(r, n) == [v \in Known(n) |-> registry[n][v].content]

\* What the client of the build finds for a package: its releases by version.
Offered(r, n) ==
  IF n \in Siblings(r.job) THEN Overlay(r, n)
  ELSE [v \in Known(n) |-> registry[n][v].content]

Accepts(need, v) == IF need.version = None THEN v.pre = 1 ELSE v = need.version

\* The resolver: the pinned version, if it is listed, or else the newest one.
Choices(r, need) ==
  LET pinned == {pin.version : pin \in {pin \in r.lock : /\ pin.package = need.package
                                                       /\ pin.requirement = need.version
                                                       /\ pin.package \notin Siblings(r.job)}}
      offered == DOMAIN Offered(r, need.package)
      listed == {v \in offered : Accepts(need, v)}
  IN  IF pinned \cap offered # {} THEN pinned \cap offered
      ELSE {v \in listed : \A w \in listed : Sooner(w, v)}

\* CachingClient::get_release and get_content: what is cached is not asked for again.
Obtained(p, n, v) ==
  IF <<n, v>> \in DOMAIN cache[p] THEN cache[p][<<n, v>>] ELSE Offered(run[p], n)[v]

\* Variant of LockChanged: the dry run is the one that is refused.
LockChangedDry(r, pins) == Single(r.job.checkout) /\ r.job.dry_run /\ pins # r.lock

\* Publishing one directory must not change wkg.lock, unless it is a dry run.
LockChanged(r, pins) == Single(r.job.checkout) /\ ~r.job.dry_run /\ pins # r.lock

\* decode: a file that was cut or mixed is no component.
Decodes(content) == content # Broken

\* The dependencies of a member that can be resolved, and what is fetched for them.
Met(p, m) == {need \in m.needs : Choices(run[p], need) # {}}
Choice(p, need) == CHOOSE v \in Choices(run[p], need) : TRUE
Fetched(p, m) ==
  [n \in Packages(Met(p, m)) |->
     LET v == Choice(p, CHOOSE need \in Met(p, m) : need.package = n)
     IN  [version |-> v, content |-> Obtained(p, n, v)]]

\* update_dependencies: the packages of the lock file are those of this member.
PinsFor(p, m) ==
  {[package |-> need.package, requirement |-> need.version, version |-> Choice(p, need)] :
     need \in Met(p, m)}

\* What build_package makes of a member and of what its dependencies are by now.
Product(m, got) ==
  [api |-> m.api,
   uses |-> [n \in DOMAIN got |->
               [version |-> got[n].version, api |-> got[n].content.api]]]

\* build_wit_dir for one member; the verifier's publication of it to the temporary
\* registry finds nothing there to compare it with.
Build(p, m) ==
  LET r == run[p]
      got == Fetched(p, m)
      decoded == Met(p, m) = m.needs /\ \A n \in DOMAIN got : Decodes(got[n].content)
      differ == {n \in DOMAIN got : got[n].content # Offered(r, n)[got[n].version]}
  IN  /\ r.pc = "build"
      /\ m.package \notin DOMAIN r.data
      /\ \A n \in r.plan :
           Needs(m, n) /\ n.package \in Siblings(r.job) => n.package \in DOMAIN r.data
      /\ cache' = [cache EXCEPT ![p] =
                     Extended(@, [x \in {<<n, got[n].version>> : n \in DOMAIN got} |->
                                  got[x[1]].content])]
      /\ IF ~decoded \/ LockChanged(r, PinsFor(p, m)) THEN Abort(p)
         ELSE Becomes(p, [r EXCEPT !.lock = PinsFor(p, m), !.stale = @ \cup differ,
                                   !.data = Inserted(@, m.package, Product(m, got))])
      /\ UNCHANGED <<backend, registry, runs>>

Built(p) ==
  /\ run[p].pc = "build"
  /\ DOMAIN run[p].data = Packages(run[p].plan)
  /\ Becomes(p, [run[p] EXCEPT !.pc = "wave"])
  /\ UNCHANGED <<backend, registry, cache, runs>>

-----------------------------------------------------------------------------
(* The members are published in waves *)

\* What is published first of what is left; one path is published as it is.
First(r) == IF Single(r.job.checkout) THEN r.plan ELSE TakeReady(r.plan)

\* Variant of Wave: what will be marked as confirmed is still the wave before.
WaveUnmarked(p) ==
  LET first == First(run[p])
  IN  /\ run[p].pc = "wave"
      /\ Becomes(p, [run[p] EXCEPT !.pc = IF run[p].plan = {} THEN "done" ELSE "member",
                                   !.ready = first])
      /\ UNCHANGED <<backend, registry, cache, runs>>

Wave(p) ==
  LET first == First(run[p])
  IN  /\ run[p].pc = "wave"
      /\ Becomes(p, [run[p] EXCEPT !.pc = IF run[p].plan = {} THEN "done" ELSE "member",
                                   !.wave = first, !.ready = first])
      /\ UNCHANGED <<backend, registry, cache, runs>>

Confirm(p) ==
  /\ run[p].pc = "member" /\ run[p].ready = {}
  /\ Becomes(p, [run[p] EXCEPT !.pc = "wave", !.plan = MarkConfirmed(@, run[p].wave)])
  /\ UNCHANGED <<backend, registry, cache, runs>>

\* extract_package_version: a component without a version cannot be published.
Identified(m) == m.version # None

\* handle_publish_result for a version that the registry has.
HandleDuplicate(p, r) ==
  IF r.job.skip_dupes
  THEN Becomes(p, [r EXCEPT !.settled = @ \cup {r.current},
                            !.skipped = @ \cup {r.current.package}])
  ELSE Abort(p)

\* publish_release_data up to the list of versions, for the next member of the wave.
Preflight(p, m) ==
  LET r == [run[p] EXCEPT !.ready = @ \ {m}, !.current = m, !.unseen = {}]
      series == SemverSeries(m.version, Known(m.package))
  IN  /\ r.pc = "member" /\ m \in run[p].ready
      /\ \/ ~Identified(m) /\ Abort(p)
         \/ /\ Identified(m) /\ r.job.skip_semver_check
            /\ Becomes(p, [r EXCEPT !.pc = "publish"])
         \/ /\ Identified(m) /\ ~r.job.skip_semver_check
            /\ m.version \notin series
            /\ Becomes(p, [r EXCEPT !.pc = "compare",
                                    !.neighbors = Neighbours(m.version, series)])
         \/ /\ Identified(m) /\ ~r.job.skip_semver_check
            /\ m.version \in series
            /\ HandleDuplicate(p, r)
      /\ UNCHANGED <<backend, registry, cache, runs>>

\* fetch_and_resolve_package, up to the decoding
Neighbor(n, v) == registry[n][v].content

\* The neighbours are fetched and decoded, and compared with the candidate.
Compare(p) ==
  LET r == run[p]
      found == [v \in r.neighbors |-> Neighbor(r.current.package, v)]
      api == [v \in r.neighbors \cup {r.current.version} |->
                IF v = r.current.version THEN r.current.api ELSE found[v].api]
  IN  /\ r.pc = "compare"
      /\ IF /\ \A v \in r.neighbors : Decodes(found[v])
            /\ CompatibleChain(DOMAIN api, api)
         THEN Becomes(p, [r EXCEPT !.pc = "publish", !.neighbors = {}])
         ELSE Abort(p)
      /\ UNCHANGED <<backend, registry, cache, runs>>

\* The candidate was compared with all that its series has by now.
Trusted(r) ==
  /\ ~r.job.skip_semver_check
  /\ InSeries(r.current.version, r.current.version)
  /\ r.unseen = {}

Writing(q, n, v) ==
  run[q].pc = "copy" /\ run[q].current.package = n /\ run[q].current.version = v

\* A publisher has written this version, or found it, or is writing it.
Holds(q, n, v) ==
  Writing(q, n, v) \/ \E m \in run[q].settled : m.package = n /\ m.version = v

\* The registry has something else for the candidate's version.
Store(p, content, trusted, next) ==
  LET n == run[p].current.package
      v == run[p].current.version
      near(q) == run[q].pc \in {"compare", "publish", "copy"} /\ run[q].current.package = n
  IN  /\ registry' = [registry EXCEPT
                        ![n] = Inserted(@, v, [content |-> content, trusted |-> trusted])]
      /\ run' = [q \in Publisher |->
                   IF q = p THEN next
                   ELSE [run[q] EXCEPT !.unseen = @ \cup (IF near(q) THEN {v} ELSE {}),
                                       !.touched = @ \cup (IF Holds(q, n, v) THEN {n} ELSE {})]]

Published(r) == [r EXCEPT !.pc = "member", !.settled = @ \cup {r.current}, !.unseen = {}]

\* OciBackend::publish
PushOci(p) ==
  LET r == run[p]
  IN  /\ backend = "oci" /\ r.pc = "publish" /\ ~r.job.dry_run
      /\ Store(p, r.data[r.current.package], Trusted(r), Published(r))
      /\ UNCHANGED <<backend, cache, runs>>

\* LocalBackend::publish truncates the file, and then copies into it; another publisher may
\* have it open.
CreateLocal(p) ==
  LET r == run[p]
      n == r.current.package
      open == {q \in Publisher : Writing(q, n, r.current.version)}
  IN  /\ backend = "local" /\ r.pc = "publish" /\ ~r.job.dry_run
      /\ Store(p, Broken, Trusted(r),
               [r EXCEPT !.pc = "copy", !.touched = @ \cup (IF open # {} THEN {n} ELSE {})])
      /\ UNCHANGED <<backend, cache, runs>>

\* Two writers of one file may leave a mixture.
CopyLocal(p) ==
  LET r == run[p]
      n == r.current.package
      trusted == registry[n][r.current.version].trusted
  IN  /\ r.pc = "copy"
      /\ \/ Store(p, r.data[n], trusted, Published(r))
         \/ n \in r.touched /\ Store(p, Broken, trusted, Published(r))
      /\ UNCHANGED <<backend, cache, runs>>

DryRun(p) ==
  /\ run[p].pc = "publish" /\ run[p].job.dry_run
  /\ Becomes(p, Published(run[p]))
  /\ UNCHANGED <<backend, registry, cache, runs>>

\* A step fails, or the process is killed: what it has done so far stays.
Fail(p) ==
  /\ run[p].pc \notin {"idle", "done"}
  /\ Abort(p)
  /\ UNCHANGED <<backend, registry, cache, runs>>

Step(p) ==
  \/ \E m \in run[p].plan : Build(p, m)
  \/ Built(p) \/ Wave(p) \/ Confirm(p)
  \/ \E m \in run[p].ready : Preflight(p, m)
  \/ Compare(p) \/ PushOci(p) \/ CreateLocal(p) \/ CopyLocal(p) \/ DryRun(p)

Next == \E p \in Publisher : Start(p) \/ Step(p) \/ Fail(p)

\* Weak fairness of Step(p), which is enabled while the command runs: each await ends.
Fairness ==
  \A p \in Publisher :
    []<>(run[p].pc \in {"idle", "done"}) \/ []<><<Step(p)>>_vars

Spec == Init /\ [][Next]_vars /\ Fairness

-----------------------------------------------------------------------------
(* Properties *)

TypeOK ==
  /\ backend \in {"local", "oci"}
  /\ \A n \in Package : /\ Known(n) \subseteq Version
                        /\ \A v \in Known(n) : registry[n][v].trusted \in BOOLEAN
  /\ \A p \in Publisher :
       LET r == run[p]
       IN  /\ runs[p] \in 0 .. MaxRuns[p]
           /\ r.pc \in {"idle", "build", "wave", "member", "compare", "publish", "copy", "done"}
           /\ r.pc # "idle" => r.job \in Jobs[p]
           /\ r.lock \subseteq Pin
           /\ r.ready \subseteq r.wave
           /\ r.neighbors \cup r.unseen \subseteq Version
           /\ r.skipped \cup r.stale \cup r.touched \cup DOMAIN r.data \subseteq Package
           /\ r.pc \in {"compare", "publish", "copy"} => r.current.package \in DOMAIN r.data

\* publish_release_data compares a candidate with its neighbours only, and keeps the whole
\* series compatible by that: whatever the order of the publications, an older release
\* offers nothing that a newer one of its series lacks.  It is not so around a release
\* that was published unchecked, or by a publisher who did not see another one's.
SeriesCompatible ==
  \A n \in Package : \A v, w \in Known(n) :
    /\ Precedes(v, w) /\ InSeries(v, w) /\ InSeries(w, v)
    /\ \A u \in Known(n) :
         InSeries(v, u) /\ Sooner(v, u) /\ Sooner(u, w) =>
           registry[n][u].trusted /\ registry[n][u].content # Broken
    => Compatible(registry[n][v].content.api, registry[n][w].content.api)

\* A whole release is replaced only by a publication that was not checked, or that did not
\* see the release: the check for an existing version (Error::VersionAlreadyExists) is made
\* on a list, some awaits before the release is written.
ReleasesKept ==
  [][\A n \in Package : \A v \in Known(n) :
       /\ registry[n][v].content # Broken
       /\ registry'[n][v].content # registry[n][v].content
       => ~registry'[n][v].trusted]_vars

\* PublishArgs::run: the waves publish every member once, after all members it needs.
MembersOf(r) == IF r.job = None THEN {} ELSE Members(r.job.checkout)
Order ==
  INSTANCE ReleaseOrder WITH
    members <- [p \in Publisher |-> MembersOf(run[p])],
    settled <- [p \in Publisher |-> run[p].settled],
    Publications <- {{}} \cup UNION {{Members(j.checkout) : j \in Jobs[p]} : p \in Publisher}
ReleasesOrdered == Order!Spec

\* The comment in PublishArgs::run: a plan that is not empty has members that are ready,
\* because the dependency graph is acyclic.
WaveNeverEmpty ==
  \A p \in Publisher :
    run[p].pc = "member" /\ run[p].plan # {} => run[p].wave \cap run[p].plan # {}

Delivered(r) == {m \in Members(r.job.checkout) : m.package \notin r.skipped}
Successful == {run[p] : p \in {p \in Publisher : run[p].pc = "done" /\ ~run[p].job.dry_run}}

\* A publication that ends well, and is no dry run, leaves every member in the registry
\* under its version, and with the very content that was built, whole: checked or not, and
\* whoever else publishes.  There are two exceptions: what was there already and skipped
\* (nothing is said of its content), and what another publisher writes under the same
\* version, at the same time or later.
AllPublished ==
  \A r \in Successful :
    /\ \A m \in Members(r.job.checkout) : m.version \in Known(m.package)
    /\ \A m \in Delivered(r) :
         m.package \notin r.touched =>
           registry[m.package][m.version].content = r.data[m.package]

\* What is published together fits together: a member was built against the content of the
\* member it needs that the registry has got.  There are three exceptions: when that one was
\* skipped, because the registry has something under its version; when another publisher
\* wrote that version, at the same time or later; and when the cache answered with what an
\* earlier build had put there for the version.
FitsTogether ==
  \A r \in Successful : \A m, n \in Delivered(r) :
    Needs(m, n) /\ n.package \in Siblings(r.job) \ (r.stale \cup r.touched)
    => r.data[m.package].uses[n.package]
         = [version |-> n.version, api |-> registry[n.package][n.version].content.api]

\* A publication of one directory that ends well has used the versions that wkg.lock pins:
\* the release can be built again from the checkout.
PublishedAsLocked ==
  \A r \in Successful : Single(r.job.checkout) =>
    \A m \in Members(r.job.checkout) : \A need \in m.needs :
      [package |-> need.package, requirement |-> need.version,
       version |-> r.data[m.package].uses[need.package].version] \in r.job.lock

\* A publication ends: the waves use up the plan.
PublishEnds == \A p \in Publisher : []<>(run[p].pc \in {"idle", "done"})
=============================================================================
