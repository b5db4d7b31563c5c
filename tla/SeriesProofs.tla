---------------------------- MODULE SeriesProofs ----------------------------
(***************************************************************************)
(* Proofs about Semver and Publishing: the releases of a series stay       *)
(* compatible, whoever publishes what in whatever order.                   *)
(***************************************************************************)
EXTENDS PublishingProofs

\* Precedes, field by field.
Before(v, w) ==
  \/ v.major < w.major
  \/ v.major = w.major /\ v.minor < w.minor
  \/ v.major = w.major /\ v.minor = w.minor /\ v.patch < w.patch
  \/ v.major = w.major /\ v.minor = w.minor /\ v.patch = w.patch /\ v.pre < w.pre

\* A version is its four fields.
LEMMA VersionFields ==
  ASSUME NEW v \in Version
  PROVE  /\ v.major \in Nat /\ v.minor \in Nat /\ v.patch \in Nat /\ v.pre \in {0, 1}
         /\ v = [major |-> v.major, minor |-> v.minor, patch |-> v.patch, pre |-> v.pre]
<1>1. v \in [major : Nat, minor : Nat, patch : Nat, pre : {0, 1}]
  BY PublishingAssumption
<1> QED
  BY <1>1

\* The first field that differs decides, as in Version::cmp.
LEMMA PrecedesFields ==
  ASSUME NEW v \in Version, NEW w \in Version
  PROVE  Precedes(v, w) <=> Before(v, w)
<1> USE VersionFields
<1>1. /\ Rank(v)[1] = v.major /\ Rank(v)[2] = v.minor
      /\ Rank(v)[3] = v.patch /\ Rank(v)[4] = v.pre
      /\ Rank(w)[1] = w.major /\ Rank(w)[2] = w.minor
      /\ Rank(w)[3] = w.patch /\ Rank(w)[4] = w.pre
  BY DEF Rank
<1>2. Precedes(v, w) <=>
        \E i \in {1, 2, 3, 4} : /\ Rank(v)[i] < Rank(w)[i]
                                /\ \A j \in 1 .. i - 1 : Rank(v)[j] = Rank(w)[j]
  <2>1. 1 .. 4 = {1, 2, 3, 4}
    OBVIOUS
  <2> QED
    BY <2>1 DEF Precedes
<1>3. 1 .. 1 - 1 = {} /\ 1 .. 2 - 1 = {1} /\ 1 .. 3 - 1 = {1, 2} /\ 1 .. 4 - 1 = {1, 2, 3}
  OBVIOUS
<1> QED
  BY <1>1, <1>2, <1>3 DEF Before

\* A version is determined by its fields.
LEMMA SameFields ==
  ASSUME NEW v \in Version, NEW w \in Version,
         v.major = w.major, v.minor = w.minor, v.patch = w.patch, v.pre = w.pre
  PROVE  v = w
BY VersionFields

\* Versions are in a strict total order.
LEMMA PrecedesOrder ==
  ASSUME NEW u \in Version, NEW v \in Version, NEW w \in Version
  PROVE  /\ ~Precedes(v, v)
         /\ Precedes(u, v) /\ Precedes(v, w) => Precedes(u, w)
         /\ Precedes(v, w) \/ v = w \/ Precedes(w, v)
         /\ ~(Precedes(v, w) /\ Precedes(w, v))
<1>1. ~Before(v, v)
  BY VersionFields DEF Before
<1>2. Before(u, v) /\ Before(v, w) => Before(u, w)
  BY VersionFields DEF Before
<1>3. Before(v, w) \/ v = w \/ Before(w, v)
  BY VersionFields, SameFields DEF Before
<1>4. ~(Before(v, w) /\ Before(w, v))
  BY VersionFields DEF Before
<1> QED
  BY <1>1, <1>2, <1>3, <1>4, PrecedesFields

\* The third mask is for the releases that differ in `pre` at most.
LEMMA SeriesFields ==
  ASSUME NEW v \in Version, NEW w \in Version
  PROVE  InSeries(v, w) <=>
           \/ v.major > 0 /\ w.major = v.major /\ w.pre = 1
           \/ v.major = 0 /\ v.minor > 0 /\ w.major = 0 /\ w.minor = v.minor /\ w.pre = 1
           \/ /\ v.major = 0 /\ v.minor = 0
              /\ w.major = 0 /\ w.minor = 0 /\ w.patch = v.patch /\ v.pre <= w.pre
<1>1. [w EXCEPT !.pre = v.pre] = v <=>
        w.major = v.major /\ w.minor = v.minor /\ w.patch = v.patch
  BY VersionFields
<1> QED
  BY <1>1, VersionFields DEF InSeries

\* Releases in each other's series have the same series.
LEMMA SameSeries ==
  ASSUME NEW v \in Version, NEW w \in Version, v # w, InSeries(v, w), InSeries(w, v),
         NEW u \in Version
  PROVE  /\ InSeries(v, u) <=> InSeries(w, u)
         /\ InSeries(v, u) => InSeries(u, v) /\ InSeries(u, w)
         /\ InSeries(v, v) /\ InSeries(w, w)
<1>1. v.pre = 1 /\ w.pre = 1 /\ v.major = w.major /\ (v.major = 0 => v.minor = w.minor /\ v.minor > 0)
  BY SeriesFields, VersionFields, SameFields
<1> QED
  BY <1>1, SeriesFields, VersionFields

\* What is compatible with a compatible release is compatible.
LEMMA CompatibleOrder ==
  ASSUME NEW a, NEW b, NEW c, Compatible(a, b), Compatible(b, c)
  PROVE  Compatible(a, c)
BY DEF Compatible, Worlds

-----------------------------------------------------------------------------
(* The invariant *)

\* A release is whole, and was checked; or it was checked, and a publisher is about to
\* replace the truncated file by what it has checked.
Copied(n, v) == \E q \in Publisher : Writing(q, n, v)
Sound(n, v) ==
  registry[n][v].trusted /\ (registry[n][v].content # Broken \/ Copied(n, v))

\* What a release offers as soon as it is whole.
Api(n, v) ==
  IF Copied(n, v) THEN run[CHOOSE q \in Publisher : Writing(q, n, v)].data[n].api
  ELSE registry[n][v].content.api

\* A package's releases have a last and a first one among any of them.
Bounded(S) ==
  \A T \in SUBSET S : T # {} =>
    /\ \E v \in T : \A w \in T : Sooner(w, v)
    /\ \E v \in T : \A w \in T : Sooner(v, w)

\* SeriesCompatible, for the releases as they will be.
SeriesInv(n) ==
  \A v, w \in Known(n) :
    /\ Precedes(v, w) /\ InSeries(v, w) /\ InSeries(w, v)
    /\ \A u \in Known(n) : InSeries(v, u) /\ Sooner(v, u) /\ Sooner(u, w) => Sound(n, u)
    => Compatible(Api(n, v), Api(n, w))

\* The neighbours of the candidate as the registry has them now.
Nearest(p) ==
  LET v == run[p].current.version
  IN  Neighbours(v, SemverSeries(v, Known(run[p].current.package)))

\* A candidate goes between two releases.
Fits(p, v) ==
  LET n == run[p].current.package
      c == run[p].current
  IN  /\ registry[n][v].content # Broken
      /\ Precedes(v, c.version) => Compatible(registry[n][v].content.api, c.api)
      /\ Precedes(c.version, v) => Compatible(c.api, registry[n][v].content.api)

\* A candidate that is trusted fits its neighbours, and these are still its neighbours.
CheckedInv(p) ==
  /\ run[p].pc = "compare" /\ run[p].unseen = {} => run[p].neighbors = Nearest(p)
  /\ run[p].pc = "publish" /\ Trusted(run[p]) => \A v \in Nearest(p) : Fits(p, v)

\* All that SeriesCompatible rests on.
VInv ==
  /\ IInv
  /\ \A p \in Publisher : CheckedInv(p)
  /\ \A n \in Package : Bounded(Known(n)) /\ SeriesInv(n)


-----------------------------------------------------------------------------
(* The releases of a package *)

\* One release more has its place among the others.
LEMMA BoundedGrows ==
  ASSUME NEW S, S \subseteq Version, Bounded(S), NEW v \in Version
  PROVE  Bounded(S \cup {v})
<1> SUFFICES ASSUME NEW T, T \subseteq S \cup {v}, T # {}
             PROVE  /\ \E x \in T : \A w \in T : Sooner(w, x)
                    /\ \E x \in T : \A w \in T : Sooner(x, w)
  BY DEF Bounded
<1> DEFINE U == T \ {v}
<1>1. CASE U = {}
  BY <1>1 DEF Sooner
<1>2. CASE U # {}
  <2>1. PICK last \in U : \A w \in U : Sooner(w, last)
    BY <1>2 DEF Bounded
  <2>2. PICK first \in U : \A w \in U : Sooner(first, w)
    BY <1>2 DEF Bounded
  <2>3. \A w \in T : w \in U \/ (w = v /\ v \in T)
    OBVIOUS
  <2>4. U \subseteq Version /\ last \in T /\ first \in T
    OBVIOUS
  <2>5. \E x \in T : \A w \in T : Sooner(w, x)
    <3>1. CASE Sooner(v, last) \/ v \notin T
      BY <2>1, <2>3, <2>4, <3>1
    <3>2. CASE ~Sooner(v, last) /\ v \in T
      <4>1. Precedes(last, v)
        BY <2>4, <3>2, PrecedesOrder DEF Sooner
      <4>2. \A w \in U : Precedes(w, v)
        BY <2>1, <2>4, <4>1, PrecedesOrder DEF Sooner
      <4> QED
        BY <2>3, <3>2, <4>2 DEF Sooner
    <3> QED
      BY <3>1, <3>2
  <2>6. \E x \in T : \A w \in T : Sooner(x, w)
    <3>1. CASE Sooner(first, v) \/ v \notin T
      BY <2>2, <2>3, <2>4, <3>1
    <3>2. CASE ~Sooner(first, v) /\ v \in T
      <4>1. Precedes(v, first)
        BY <2>4, <3>2, PrecedesOrder DEF Sooner
      <4>2. \A w \in U : Precedes(v, w)
        BY <2>2, <2>4, <4>1, PrecedesOrder DEF Sooner
      <4> QED
        BY <2>3, <3>2, <4>2 DEF Sooner
    <3> QED
      BY <3>1, <3>2
  <2> QED
    BY <2>5, <2>6
<1> QED
  BY <1>1, <1>2

\* What is trusted is written by one publisher, and not whole meanwhile.
LEMMA OneCopier ==
  ASSUME RInv, NEW n \in Package, NEW v \in Known(n), registry[n][v].trusted,
         NEW p \in Publisher, Writing(p, n, v)
  PROVE  /\ registry[n][v].content = Broken /\ n \notin run[p].touched
         /\ \A q \in Publisher : Writing(q, n, v) => q = p
         /\ Api(n, v) = run[p].data[n].api
<1>1. CopyInv(p)
  BY DEF RInv
<1>2. registry[n][v].content = Broken /\ n \notin run[p].touched
  BY <1>1 DEF CopyInv, Writing
<1>3. \A q \in Publisher : Writing(q, n, v) => q = p
  BY <1>1 DEF CopyInv, Writing, Opened
<1>4. (CHOOSE q \in Publisher : Writing(q, n, v)) = p
  BY <1>3
<1> QED
  BY <1>2, <1>3, <1>4 DEF Api, Copied

\* What is trusted and whole is not being written.
LEMMA WholeApi ==
  ASSUME RInv, NEW n \in Package, NEW v \in Known(n), registry[n][v].trusted,
         registry[n][v].content # Broken
  PROVE  Sound(n, v) /\ Api(n, v) = registry[n][v].content.api
<1>1. ~Copied(n, v)
  BY OneCopier DEF Copied
<1> QED
  BY <1>1 DEF Sound, Api

\* Nobody copies what is not in the registry.
LEMMA CopiedKnown ==
  ASSUME RInv, NEW n, NEW v, Copied(n, v)
  PROVE  v \in Known(n)
BY DEF RInv, CopyInv, Copied, Writing

-----------------------------------------------------------------------------
(* What a step does to the releases *)

\* Who copies a file goes on, but for the publisher that takes the step.
LEMMA CopiersStep ==
  ASSUME RInv, NEW p \in Publisher, Start(p) \/ Step(p) \/ Fail(p),
         NEW n, NEW v, NEW q \in Publisher, q # p
  PROVE  Writing(q, n, v)' <=> Writing(q, n, v)
BY Elsewhere DEF Writing, SameRun, SameMember

\* A release that is sound after a step was so before, if it was there, and offers the same.
LEMMA OldRelease ==
  ASSUME RInv, NEW p \in Publisher, Start(p) \/ Step(p) \/ Fail(p),
         NEW n \in Package, NEW v \in Known(n), Sound(n, v)'
  PROVE  Sound(n, v) /\ Api(n, v)' = Api(n, v)
<1>1. PlanInv(p) /\ OwnInv(p) /\ SeenInv(p) /\ CopyInv(p) /\ Form
  BY DEF RInv, Plans
<1>2. registry'[n][v].trusted /\ registry[n][v].trusted
  BY TrustStep DEF Sound
<1>3. \A q \in Publisher \ {p} : Writing(q, n, v)' <=> Writing(q, n, v)
  BY CopiersStep
<1>4. ASSUME PushOci(p) \/ CreateLocal(p)
      PROVE  /\ run[p].current.package # n \/ run[p].current.version # v
             /\ registry'[n][v] = registry[n][v]
  <2>1. PICK content, trusted :
          /\ trusted => Trusted(run[p])
          /\ Wrote(p, content, trusted)
          /\ run[p].pc = "publish"
    BY <1>1, <1>4, PushWrites, CreateWrites
  <2>2. run[p].current.package # n \/ run[p].current.version # v
    BY <1>1, <1>2, <2>1 DEF Wrote, SeenInv
  <2> QED
    BY <2>1, <2>2 DEF Wrote
<1>5. CASE CopyLocal(p) /\ Writing(p, n, v)
  <2>1. /\ registry[n][v].content = Broken /\ n \notin run[p].touched
        /\ \A q \in Publisher : Writing(q, n, v) => q = p
        /\ Api(n, v) = run[p].data[n].api
    BY <1>2, <1>5, OneCopier
  <2>2. registry'[n][v].content = run[p].data[n]
    BY <1>1, <1>5, <2>1, CopyWrites DEF Wrote, Writing
  <2>3. run'[p].pc = "member"
    BY <1>1, <1>5, DeliverEffect
  <2>4. ~Copied(n, v)'
    BY <1>3, <2>1, <2>3 DEF Copied, Writing
  <2>5. Api(n, v)' = run[p].data[n].api
    BY <2>2, <2>4 DEF Api
  <2>6. Sound(n, v)
    BY <1>2, <1>5 DEF Sound, Copied
  <2> QED
    BY <2>1, <2>5, <2>6
<1>6. CASE ~(CopyLocal(p) /\ Writing(p, n, v))
  <2>1. registry'[n][v] = registry[n][v]
    <3>1. CASE CopyLocal(p)
      <4>1. run[p].current.package # n \/ run[p].current.version # v
        BY <1>6, <3>1 DEF Writing, CopyLocal
      <4> QED
        BY <1>1, <3>1, <4>1, CopyWrites DEF Wrote
    <3>2. CASE ~CopyLocal(p)
      BY <1>1, <1>4, <3>2, QuietSteps
    <3> QED
      BY <3>1, <3>2
  <2>2. ~Writing(p, n, v)'
    <3>1. ASSUME CreateLocal(p)
          PROVE  ~Writing(p, n, v)'
      BY <1>1, <1>4, <3>1, CreateEffect DEF Writing, SameMember
    <3> QED
      BY <3>1, WaysIn DEF Writing
  <2>3. ~Writing(p, n, v)
    <3>1. ASSUME Writing(p, n, v)
          PROVE  FALSE
      <4>1. /\ registry[n][v].content = Broken
            /\ \A q \in Publisher : Writing(q, n, v) => q = p
        BY <1>2, <3>1, OneCopier
      <4>2. ~Copied(n, v)'
        BY <1>3, <2>2, <4>1 DEF Copied
      <4> QED
        BY <2>1, <4>1, <4>2 DEF Sound
    <3> QED
      BY <3>1
  <2>4. \A q \in Publisher : Writing(q, n, v)' <=> Writing(q, n, v)
    BY <1>3, <2>2, <2>3
  <2>5. Sound(n, v)
    BY <2>1, <2>4 DEF Sound, Copied
  <2>6. CASE ~Copied(n, v)
    BY <2>1, <2>4, <2>5, <2>6 DEF Api, Copied
  <2>7. CASE Copied(n, v)
    <3>1. PICK o \in Publisher : Writing(o, n, v)
      BY <2>7 DEF Copied
    <3>2. /\ Api(n, v) = run[o].data[n].api
          /\ \A q \in Publisher : Writing(q, n, v) => q = o
      BY <1>2, <3>1, OneCopier
    <3>3. o # p /\ run'[o].data = run[o].data
      BY <2>3, <3>1, Elsewhere DEF SameRun, SameBuild
    <3>4. (CHOOSE q \in Publisher : Writing(q, n, v)') = o /\ Copied(n, v)'
      BY <2>4, <3>1, <3>2 DEF Copied
    <3>5. Api(n, v)' = run'[o].data[n].api
      BY <3>4 DEF Api
    <3> QED
      BY <2>5, <3>2, <3>3, <3>5
  <2> QED
    BY <2>6, <2>7
<1> QED
  BY <1>5, <1>6

\* A release that is new and sound is the trusted candidate of who takes the step.
LEMMA NewRelease ==
  ASSUME RInv, Builds, NEW p \in Publisher, Start(p) \/ Step(p) \/ Fail(p),
         NEW n \in Package, NEW v \in Known(n)', v \notin Known(n)
  PROVE  /\ run[p].pc = "publish" /\ Known(n)' = Known(n) \cup {v}
         /\ run[p].current.package = n /\ run[p].current.version = v
         /\ Sound(n, v)' => Trusted(run[p]) /\ Api(n, v)' = run[p].current.api
<1>1. PlanInv(p) /\ OwnInv(p) /\ CopyInv(p) /\ BuildInv(p) /\ Form
  BY DEF RInv, Plans, Builds
<1>2. PushOci(p) \/ CreateLocal(p)
  <2>1. ~CopyLocal(p)
    BY <1>1, CopyWrites DEF Wrote, CopyInv, Known
  <2> QED
    BY <1>1, <2>1, QuietSteps DEF Known
<1>3. PICK content, trusted :
        /\ trusted => Trusted(run[p])
        /\ Wrote(p, content, trusted)
        /\ run[p].pc = "publish"
        /\ PushOci(p) => content = run[p].data[run[p].current.package]
  <2>1. CASE PushOci(p)
    BY <1>1, <2>1, PushWrites
  <2>2. CASE CreateLocal(p)
    <3>1. backend = "local"
      BY <2>2 DEF CreateLocal
    <3>2. ~PushOci(p)
      BY <3>1 DEF PushOci
    <3> QED
      BY <1>1, <2>2, <3>2, CreateWrites
  <2> QED
    BY <1>2, <2>1, <2>2
<1>4. run[p].current.package = n /\ run[p].current.version = v /\ Known(n)' = Known(n) \cup {v}
  BY <1>3 DEF Wrote, Known
<1>5. ASSUME Sound(n, v)'
      PROVE  Trusted(run[p]) /\ Api(n, v)' = run[p].current.api
  <2>1. Trusted(run[p])
    BY <1>3, <1>4, <1>5 DEF Wrote, Sound
  <2>2. run[p].data[n].api = run[p].current.api
    <3>1. /\ run[p].current \in Members(run[p].job.checkout)
          /\ n \in DOMAIN run[p].data
      BY <1>1, <1>3, <1>4, CurrentMember DEF BuildInv, WellBuilt, Packages
    <3> QED
      BY <1>1, <1>3, <1>4, <3>1 DEF BuildInv, WellBuilt
  <2>3. \A q \in Publisher \ {p} : ~Writing(q, n, v)'
    BY CopiersStep, CopiedKnown DEF Copied
  <2>4. CASE PushOci(p)
    <3>1. registry'[n][v].content = run[p].data[n]
      BY <1>3, <1>4, <2>4 DEF Wrote
    <3>2. ~Writing(p, n, v)'
      BY <1>1, <2>4, DeliverEffect DEF Writing
    <3>3. ~Copied(n, v)'
      BY <2>3, <3>2 DEF Copied
    <3> QED
      BY <2>1, <2>2, <3>1, <3>3 DEF Api
  <2>5. CASE CreateLocal(p)
    <3>1. /\ run'[p].pc = "copy" /\ run'[p].current = run[p].current
          /\ run'[p].data = run[p].data
      BY <1>1, <2>5, CreateEffect DEF SameMember, SameBuild
    <3>2. Writing(p, n, v)'
      BY <1>4, <3>1 DEF Writing
    <3>3. (CHOOSE q \in Publisher : Writing(q, n, v)') = p /\ Copied(n, v)'
      BY <2>3, <3>2 DEF Copied
    <3>4. Api(n, v)' = run'[p].data[n].api
      BY <3>3 DEF Api
    <3> QED
      BY <2>1, <2>2, <3>1, <3>4
  <2> QED
    BY <1>2, <2>4, <2>5
<1> QED
  BY <1>3, <1>4, <1>5

-----------------------------------------------------------------------------
(* What is checked *)

\* The check of a candidate stands while others write no release of its package.
LEMMA CheckedOthers ==
  ASSUME RInv, NEW p \in Publisher, Start(p) \/ Step(p) \/ Fail(p),
         NEW q \in Publisher, q # p, CheckedInv(q)
  PROVE  CheckedInv(q)'
<1>1. PlanInv(q) /\ OwnInv(q)
  BY DEF RInv, Plans
<1>2. SUFFICES ASSUME run'[q].pc \in {"compare", "publish"}, run'[q].unseen = {}
               PROVE  CheckedInv(q)'
  BY DEF CheckedInv, Trusted
<1>3. /\ run'[q].pc = run[q].pc /\ run'[q].current = run[q].current
      /\ run'[q].job = run[q].job /\ run'[q].neighbors = run[q].neighbors
  BY Elsewhere DEF SameRun, SameMember, SameBuild
<1>4. /\ run[q].unseen = {}
      /\ Near(q, p) => registry' = registry
  <2>1. CASE registry' = registry /\ run'[q] = run[q]
    BY <1>2, <2>1
  <2>2. CASE run'[q].unseen = IF Near(q, p) THEN run[q].unseen \cup {run[p].current.version}
                              ELSE run[q].unseen
    BY <1>2, <2>2
  <2> QED
    BY <2>1, <2>2, Elsewhere
<1>5. registry'[run[q].current.package] = registry[run[q].current.package]
  <2>1. CASE registry' = registry
    BY <2>1
  <2>2. CASE registry' # registry
    <3>1. run[q].current.package # run[p].current.package
      BY <1>2, <1>3, <1>4, <2>2 DEF Near
    <3>2. run[q].current.package \in Package
      BY <1>1, <1>2, <1>3, CurrentMember
    <3>3. PICK content, trusted : Wrote(p, content, trusted)
      BY <2>2, Elsewhere
    <3> QED
      BY <3>1, <3>2, <3>3 DEF Wrote
  <2> QED
    BY <2>1, <2>2
<1>6. Nearest(q)' = Nearest(q)
  BY <1>3, <1>5 DEF Nearest, Known
<1>7. \A v : Fits(q, v)' <=> Fits(q, v)
  BY <1>3, <1>5 DEF Fits
<1>8. Trusted(run'[q]) => Trusted(run[q])
  BY <1>3, <1>4 DEF Trusted
<1> QED
  BY <1>2, <1>3, <1>4, <1>6, <1>7, <1>8 DEF CheckedInv

\* There is nothing between a candidate and its neighbour on one side.
LEMMA NearestOnly ==
  ASSUME NEW v \in Version, NEW S, S \subseteq Version,
         NEW x \in Neighbours(v, S), NEW y \in Neighbours(v, S)
  PROVE  /\ x \in S /\ x # v
         /\ ~(Precedes(x, y) /\ Precedes(y, v))
         /\ ~(Precedes(v, y) /\ Precedes(y, x))
BY PrecedesOrder DEF Neighbours, Sooner

\* The windows of the sorted neighbours say that the candidate fits.
LEMMA CompareFits ==
  ASSUME RInv, NEW p \in Publisher, Compare(p), run'[p].pc = "publish",
         run[p].neighbors = Nearest(p)
  PROVE  \A v \in Nearest(p) : Fits(p, v)
<1> DEFINE n == run[p].current.package
           c == run[p].current.version
           S == SemverSeries(c, Known(n))
           found == [v \in run[p].neighbors |-> Neighbor(n, v)]
           api == [v \in run[p].neighbors \cup {c} |->
                     IF v = c THEN run[p].current.api ELSE found[v].api]
<1>1. Form /\ PlanInv(p) /\ OwnInv(p) /\ run[p].pc = "compare"
  BY DEF RInv, Plans, Compare
<1>2. n \in Package /\ c \in Version
  BY <1>1, CurrentMember
<1>3. S \subseteq Version
  BY <1>2 DEF RInv, RegistryOK, SemverSeries
<1>4. run[p].neighbors = Neighbours(c, S)
  BY DEF Nearest
<1>5. (\A v \in run[p].neighbors : Decodes(found[v])) /\ CompatibleChain(DOMAIN api, api)
  <2>1. ~Abort(p)
    BY <1>1, AbortEffect DEF Idle
  <2> QED
    BY <2>1 DEF Compare
<1>6. ASSUME NEW v \in run[p].neighbors
      PROVE  Fits(p, v)
  <2>1. v \in S /\ v # c /\ v \in Version
    BY <1>2, <1>3, <1>4, <1>6, NearestOnly
  <2>2. registry[n][v].content # Broken /\ api[v] = registry[n][v].content.api
    BY <1>5, <2>1 DEF Decodes, Neighbor
  <2>3. api[c] = run[p].current.api
    OBVIOUS
  <2>4. DOMAIN api = run[p].neighbors \cup {c}
    OBVIOUS
  <2>5. \A u \in run[p].neighbors :
          ~(Precedes(v, u) /\ Precedes(u, c)) /\ ~(Precedes(c, u) /\ Precedes(u, v))
    BY <1>2, <1>3, <1>4, <1>6, NearestOnly
  <2>6. ~Precedes(c, c)
    BY <1>2, PrecedesOrder
  <2> HIDE DEF api
  <2>7. Precedes(v, c) => Compatible(api[v], api[c])
    BY <1>5, <1>6, <2>4, <2>5, <2>6, PrecedesOrder, <1>2, <2>1 DEF CompatibleChain
  <2>8. Precedes(c, v) => Compatible(api[c], api[v])
    BY <1>5, <1>6, <2>4, <2>5, <2>6, PrecedesOrder, <1>2, <2>1 DEF CompatibleChain
  <2> QED
    BY <2>2, <2>3, <2>7, <2>8 DEF Fits
<1> QED
  BY <1>6

\* The check of a candidate, through each step of its publisher.
LEMMA CheckedOwn ==
  ASSUME RInv, NEW p \in Publisher, Start(p) \/ Step(p) \/ Fail(p), CheckedInv(p)
  PROVE  CheckedInv(p)'
<1>1. Form
  BY DEF RInv
<1>2. SUFFICES ASSUME run'[p].pc \in {"compare", "publish"}
               PROVE  CheckedInv(p)'
  BY DEF CheckedInv
<1>3. CASE Compare(p)
  <2>1. /\ run[p].pc = "compare" /\ run'[p].pc = "publish" /\ run'[p].job = run[p].job
        /\ run'[p].current = run[p].current /\ run'[p].unseen = run[p].unseen
    BY <1>1, <1>2, <1>3, CompareEffect DEF SameBuild, Idle
  <2>2. registry' = registry
    BY <1>3 DEF Compare
  <2>3. Nearest(p)' = Nearest(p) /\ \A v : Fits(p, v)' <=> Fits(p, v)
    BY <2>1, <2>2 DEF Nearest, Fits, Known
  <2>4. ASSUME Trusted(run'[p])
        PROVE  \A v \in Nearest(p) : Fits(p, v)
    <3>1. run[p].neighbors = Nearest(p)
      BY <2>1, <2>4 DEF CheckedInv, Trusted
    <3> QED
      BY <1>3, <2>1, <3>1, CompareFits
  <2> QED
    BY <2>1, <2>3, <2>4 DEF CheckedInv
<1>4. ASSUME NEW m \in run[p].ready, Preflight(p, m)
      PROVE  CheckedInv(p)'
  <2>1. /\ run'[p].current = m /\ run'[p].job = run[p].job
        /\ \/ run[p].job.skip_semver_check /\ run'[p].pc = "publish"
           \/ /\ run'[p].pc = "compare"
              /\ run'[p].neighbors
                   = Neighbours(m.version, SemverSeries(m.version, Known(m.package)))
    BY <1>1, <1>2, <1>4, PreflightEffect DEF SameBuild, Idle
  <2>2. registry' = registry
    BY <1>4 DEF Preflight
  <2> QED
    BY <2>1, <2>2 DEF CheckedInv, Trusted, Nearest, Known
<1> QED
  BY <1>2, <1>3, <1>4, WaysIn

-----------------------------------------------------------------------------
(* A release that is added *)

\* Everything between two releases of a series is of the series, and sound.
Linked(n, v, w) ==
  /\ Precedes(v, w) /\ InSeries(v, w) /\ InSeries(w, v)
  /\ \A u \in Known(n) : InSeries(v, u) /\ Sooner(v, u) /\ Sooner(u, w) => Sound(n, u)

\* The last release before a candidate comes between it and any earlier one.
LEMMA BelowCandidate ==
  ASSUME NEW K, K \subseteq Version, Bounded(K), NEW v \in K, NEW c \in Version,
         Precedes(v, c), InSeries(v, c), InSeries(c, v)
  PROVE  \E y \in Neighbours(c, SemverSeries(c, K)) :
           /\ y \in K /\ Precedes(y, c) /\ Sooner(v, y)
           /\ InSeries(v, y) /\ InSeries(y, v)
<1> DEFINE T == {u \in SemverSeries(c, K) : Precedes(u, c)}
<1>1. v \in T /\ T \subseteq K
  BY DEF SemverSeries
<1>2. PICK y \in T : \A u \in T : Sooner(u, y)
  BY <1>1 DEF Bounded
<1>3. y \in Neighbours(c, SemverSeries(c, K))
  BY <1>2 DEF Neighbours
<1>4. v # c
  BY PrecedesOrder
<1>5. InSeries(v, y) /\ InSeries(y, v)
  BY <1>1, <1>4, SameSeries DEF SemverSeries
<1> QED
  BY <1>1, <1>2, <1>3, <1>5

\* The first release after a candidate comes between it and any later one.
LEMMA AboveCandidate ==
  ASSUME NEW K, K \subseteq Version, Bounded(K), NEW v \in K, NEW c \in Version,
         Precedes(c, v), InSeries(v, c), InSeries(c, v)
  PROVE  \E y \in Neighbours(c, SemverSeries(c, K)) :
           /\ y \in K /\ Precedes(c, y) /\ Sooner(y, v)
           /\ InSeries(v, y) /\ InSeries(y, v)
<1> DEFINE T == {u \in SemverSeries(c, K) : Precedes(c, u)}
<1>1. v \in T /\ T \subseteq K
  BY DEF SemverSeries
<1>2. PICK y \in T : \A u \in T : Sooner(y, u)
  BY <1>1 DEF Bounded
<1>3. y \in Neighbours(c, SemverSeries(c, K))
  BY <1>2 DEF Neighbours
<1>4. v # c
  BY PrecedesOrder
<1>5. InSeries(v, y) /\ InSeries(y, v)
  BY <1>1, <1>4, SameSeries DEF SemverSeries
<1> QED
  BY <1>1, <1>2, <1>3, <1>5

\* What is linked after a step was so before, if both releases were there.
LEMMA LinkedBefore ==
  ASSUME RInv, NEW p \in Publisher, Start(p) \/ Step(p) \/ Fail(p),
         NEW n \in Package, SeriesInv(n), NEW v \in Known(n), NEW w \in Known(n),
         Linked(n, v, w)'
  PROVE  Compatible(Api(n, v)', Api(n, w)')
<1>1. v \in Version /\ w \in Version
  BY DEF RInv, RegistryOK
<1>2. \A u \in Known(n) : u \in Known(n)'
  BY TrustStep
<1>3. Precedes(v, w) /\ InSeries(v, w) /\ InSeries(w, v)
  BY DEF Linked
<1>4. InSeries(v, v) /\ v # w
  BY <1>1, <1>3, SameSeries, PrecedesOrder
<1>5. \A u \in Known(n) : InSeries(v, u) /\ Sooner(v, u) /\ Sooner(u, w) => Sound(n, u)'
  BY <1>2 DEF Linked
<1>6. \A u \in Known(n) : InSeries(v, u) /\ Sooner(v, u) /\ Sooner(u, w) => Sound(n, u)
  BY <1>5, OldRelease
<1>7. Sound(n, v)' /\ Sound(n, w)'
  BY <1>3, <1>4, <1>5 DEF Sooner
<1>8. Api(n, v)' = Api(n, v) /\ Api(n, w)' = Api(n, w)
  BY <1>7, OldRelease
<1> QED
  BY <1>3, <1>6, <1>8 DEF SeriesInv

\* Every step keeps the releases of a series compatible.
LEMMA SeriesStep ==
  ASSUME RInv, RInv', Builds, NEW p \in Publisher, Start(p) \/ Step(p) \/ Fail(p),
         CheckedInv(p), NEW n \in Package, Bounded(Known(n)), SeriesInv(n)
  PROVE  SeriesInv(n)' /\ Bounded(Known(n))'
<1>1. Known(n) \subseteq Version /\ Known(n)' \subseteq Version
  BY DEF RInv, RegistryOK
<1>2. Known(n) \subseteq Known(n)'
  BY TrustStep
<1>3. \A c \in Known(n)' \ Known(n) : Known(n)' = Known(n) \cup {c}
  BY NewRelease
<1>4. Bounded(Known(n))'
  <2>1. CASE Known(n)' = Known(n)
    BY <2>1 DEF Bounded
  <2>2. ASSUME NEW c \in Known(n)' \ Known(n)
        PROVE  Bounded(Known(n))'
    <3>1. Bounded(Known(n) \cup {c})
      BY <1>1, <2>2, BoundedGrows
    <3> QED
      BY <1>3, <2>2, <3>1 DEF Bounded
  <2> QED
    BY <1>2, <2>1, <2>2
<1>5. ASSUME NEW v \in Known(n)', NEW w \in Known(n)', Linked(n, v, w)'
      PROVE  Compatible(Api(n, v)', Api(n, w)')
  <2>1. /\ v \in Version /\ w \in Version /\ v # w
        /\ Precedes(v, w) /\ InSeries(v, w) /\ InSeries(w, v)
    BY <1>1, <1>5, PrecedesOrder DEF Linked
  <2>2. InSeries(v, v) /\ InSeries(w, w)
    BY <2>1, SameSeries
  <2>3. Sound(n, v)' /\ Sound(n, w)'
    BY <1>5, <2>1, <2>2 DEF Linked, Sooner
  <2>4. ASSUME v \in Known(n), w \in Known(n)
        PROVE  Compatible(Api(n, v)', Api(n, w)')
    BY <1>5, <2>4, LinkedBefore
  <2>5. ASSUME v \in Known(n), w \notin Known(n)
        PROVE  Compatible(Api(n, v)', Api(n, w)')
    <3>1. /\ run[p].pc = "publish" /\ Known(n)' = Known(n) \cup {w}
          /\ run[p].current.package = n /\ run[p].current.version = w
          /\ Trusted(run[p]) /\ Api(n, w)' = run[p].current.api
      BY <2>3, <2>5, NewRelease
    <3>2. PICK y \in Neighbours(w, SemverSeries(w, Known(n))) :
            /\ y \in Known(n) /\ Precedes(y, w) /\ Sooner(v, y)
            /\ InSeries(v, y) /\ InSeries(y, v)
      BY <1>1, <2>1, <2>5, BelowCandidate
    <3>3. Fits(p, y)
      BY <3>1, <3>2 DEF CheckedInv, Nearest
    <3>4. Sound(n, y)'
      BY <1>2, <1>5, <3>2 DEF Linked, Sooner
    <3>5. Api(n, y)' = registry[n][y].content.api
      BY <3>1, <3>2, <3>3, <3>4, OldRelease, WholeApi DEF Sound, Fits
    <3>6. Compatible(Api(n, y)', Api(n, w)')
      BY <3>1, <3>2, <3>3, <3>5 DEF Fits
    <3>7. CASE v = y
      BY <3>6, <3>7
    <3>8. CASE v # y
      <4>1. Precedes(v, y)
        BY <3>2, <3>8 DEF Sooner
      <4>2. ASSUME NEW u \in Known(n)', Sooner(u, y)
            PROVE  Sooner(u, w)
        BY <1>1, <2>1, <3>2, <4>2, PrecedesOrder DEF Sooner
      <4>3. Linked(n, v, y)'
        BY <1>5, <3>2, <4>1, <4>2 DEF Linked
      <4>4. Compatible(Api(n, v)', Api(n, y)')
        BY <2>5, <3>2, <4>3, LinkedBefore
      <4> QED
        BY <3>6, <4>4, CompatibleOrder
    <3> QED
      BY <3>7, <3>8
  <2>6. ASSUME v \notin Known(n), w \in Known(n)
        PROVE  Compatible(Api(n, v)', Api(n, w)')
    <3>1. /\ run[p].pc = "publish" /\ Known(n)' = Known(n) \cup {v}
          /\ run[p].current.package = n /\ run[p].current.version = v
          /\ Trusted(run[p]) /\ Api(n, v)' = run[p].current.api
      BY <2>3, <2>6, NewRelease
    <3>2. PICK y \in Neighbours(v, SemverSeries(v, Known(n))) :
            /\ y \in Known(n) /\ Precedes(v, y) /\ Sooner(y, w)
            /\ InSeries(w, y) /\ InSeries(y, w)
      BY <1>1, <2>1, <2>6, AboveCandidate
    <3>3. Fits(p, y)
      BY <3>1, <3>2 DEF CheckedInv, Nearest
    <3>4. y \in Version /\ \A u \in Version : InSeries(v, u) <=> InSeries(y, u)
      <4>1. y \in Version
        BY <1>1, <3>2
      <4>2. InSeries(v, y) /\ InSeries(y, v) /\ v # y
        BY <2>1, <3>2, <4>1, SameSeries, PrecedesOrder
      <4> QED
        BY <2>1, <4>1, <4>2, SameSeries
    <3>5. InSeries(v, y)
      BY <2>1, <3>2, <3>4, SameSeries, PrecedesOrder
    <3>6. Sound(n, y)'
      BY <1>2, <1>5, <3>2, <3>5 DEF Linked, Sooner
    <3>7. Api(n, y)' = registry[n][y].content.api
      BY <3>1, <3>2, <3>3, <3>6, OldRelease, WholeApi DEF Sound, Fits
    <3>8. Compatible(Api(n, v)', Api(n, y)')
      BY <3>1, <3>2, <3>3, <3>7 DEF Fits
    <3>9. CASE y = w
      BY <3>8, <3>9
    <3>10. CASE y # w
      <4>1. Precedes(y, w)
        BY <3>2, <3>10 DEF Sooner
      <4>2. ASSUME NEW u \in Known(n)', Sooner(y, u)
            PROVE  Sooner(v, u)
        BY <1>1, <2>1, <3>2, <3>4, <4>2, PrecedesOrder DEF Sooner
      <4>3. Linked(n, y, w)'
        BY <1>1, <1>5, <3>2, <3>4, <4>1, <4>2 DEF Linked
      <4>4. Compatible(Api(n, y)', Api(n, w)')
        BY <2>6, <3>2, <4>3, LinkedBefore
      <4> QED
        BY <3>8, <4>4, CompatibleOrder
    <3> QED
      BY <3>9, <3>10
  <2>7. v \in Known(n) \/ w \in Known(n)
    BY <1>3, <2>1
  <2> QED
    BY <2>4, <2>5, <2>6, <2>7
<1>6. SeriesInv(n)'
  BY <1>5 DEF SeriesInv, Linked
<1> QED
  BY <1>4, <1>6

\* The invariants hold in the beginning.
LEMMA VInvInit == Init => VInv
<1> SUFFICES ASSUME Init
             PROVE  VInv
  OBVIOUS
<1>1. \A p \in Publisher : CheckedInv(p)
  BY DEF Init, Idle, CheckedInv
<1>2. \A n \in Package : Known(n) = {}
  BY DEF Init, Known, Empty
<1>3. \A n \in Package : Bounded(Known(n)) /\ SeriesInv(n)
  BY <1>2 DEF Bounded, SeriesInv
<1> QED
  BY <1>1, <1>3, InvInit DEF VInv

\* Every step keeps the invariants.
LEMMA VInvStep == VInv /\ [Next]_vars => VInv'
<1> SUFFICES ASSUME VInv, [Next]_vars
             PROVE  VInv'
  OBVIOUS
<1>1. IInv'
  BY InvStep DEF VInv
<1>2. CASE UNCHANGED vars
  <2>1. \A n \in Package : Bounded(Known(n))' /\ SeriesInv(n)'
    <3>1. registry' = registry /\ run' = run
      BY <1>2 DEF vars
    <3>2. \A n, v : Sound(n, v)' <=> Sound(n, v)
      BY <3>1 DEF Sound, Copied, Writing
    <3>3. \A n, v : Api(n, v)' = Api(n, v)
      BY <3>1 DEF Api, Copied, Writing
    <3>4. \A n : Known(n)' = Known(n)
      BY <3>1 DEF Known
    <3> QED
      BY <3>2, <3>3, <3>4 DEF VInv, Bounded, SeriesInv
  <2>2. \A p \in Publisher : CheckedInv(p)'
    BY <1>2 DEF VInv, vars, Known, CheckedInv, Trusted, Nearest, Fits
  <2> QED
    BY <1>1, <2>1, <2>2 DEF VInv
<1>3. ASSUME NEW p \in Publisher, Start(p) \/ Step(p) \/ Fail(p)
      PROVE  VInv'
  <2>1. RInv /\ RInv' /\ Builds
    BY <1>1 DEF VInv, IInv
  <2>2. \A q \in Publisher : CheckedInv(q)'
    BY <1>3, <2>1, CheckedOwn, CheckedOthers DEF VInv
  <2>3. \A n \in Package : Bounded(Known(n))' /\ SeriesInv(n)'
    BY <1>3, <2>1, SeriesStep DEF VInv
  <2> QED
    BY <1>1, <2>2, <2>3 DEF VInv
<1> QED
  BY <1>2, <1>3 DEF Next

\* The invariant is about all that is sound, the property about what is whole.
LEMMA SeriesFit == VInv => SeriesCompatible
<1> SUFFICES ASSUME VInv, NEW n \in Package, NEW v \in Known(n), NEW w \in Known(n),
                    Precedes(v, w), InSeries(v, w), InSeries(w, v),
                    \A u \in Known(n) :
                      InSeries(v, u) /\ Sooner(v, u) /\ Sooner(u, w) =>
                        registry[n][u].trusted /\ registry[n][u].content # Broken
             PROVE  Compatible(registry[n][v].content.api, registry[n][w].content.api)
  BY DEF SeriesCompatible
<1>1. RInv /\ SeriesInv(n) /\ v \in Version /\ w \in Version
  BY DEF VInv, IInv, RInv, RegistryOK
<1>2. \A u \in Known(n) : InSeries(v, u) /\ Sooner(v, u) /\ Sooner(u, w) => Sound(n, u)
  BY DEF Sound
<1>3. InSeries(v, v) /\ v # w
  BY <1>1, SameSeries, PrecedesOrder
<1>4. /\ Api(n, v) = registry[n][v].content.api
      /\ Api(n, w) = registry[n][w].content.api
  BY <1>1, <1>3, WholeApi DEF Sooner
<1> QED
  BY <1>1, <1>2, <1>4 DEF SeriesInv

\* publish_release_data compares a candidate with its nearest releases only, in a registry
\* that others may write to meanwhile; still, whoever publishes what in whatever order, the
\* releases of a series stay compatible from the oldest to the newest wherever all between
\* them were checked, and were checked against what is there now.
THEOREM SeriesStayCompatible == Spec => []SeriesCompatible
BY VInvInit, VInvStep, SeriesFit, PTL DEF Spec
=============================================================================
