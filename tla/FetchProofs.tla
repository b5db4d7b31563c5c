----------------------------- MODULE FetchProofs ------------------------------
(***************************************************************************)
(* Proofs about `wkg fetch` in a workspace and about the order in which    *)
(* dependencies are merged.                                                *)
(*                                                                         *)
(* A fetch (FetchPins, DepsMatchLock, OwnWorkspace, SharedPinsStay): the   *)
(* pins that pass from one member to the next agree with each other, what  *)
(* is merged answers a need of a directory that has been resolved, and the *)
(* deps directory and what is still to be written are together what the    *)
(* lock file says.                                                         *)
(*                                                                         *)
(* The sort (SortedByNeeds, MergesWhatItCan): the calls of visit are a     *)
(* path.  Each one follows a need of the one before it, none has been      *)
(* ordered, and what it no longer has to look at has been ordered or is    *)
(* the next call.  So a need that is being visited closes a circle, and a  *)
(* call that returns has all its needs in the order before it.             *)
(***************************************************************************)
EXTENDS Wkg, Sequences, FiniteSetTheorems, TLAPS

SiblingsOf(d) == F!Packages(F!Members(F!Checkout(d)))

\* Pins that agree: one for a requirement on a package that is released.
Consistent(pins, siblings) ==
  /\ pins \subseteq F!Pins
  /\ \A p, q \in pins : p.package = q.package /\ p.requirement = q.requirement => p = q
  /\ \A p \in pins : p.package \notin siblings =>
       p.package \in DOMAIN released /\ p.version \in released[p.package]

\* The lock file of a workspace has no pin of its members.
LockInv(d) ==
  lock[d] # None =>
    /\ Consistent(lock[d], SiblingsOf(d))
    /\ \A p \in lock[d] : p.package \notin SiblingsOf(d)

\* What is merged is pinned for what the resolved directories need.
MergedInv ==
  /\ \A n \in DOMAIN fetch.merged :
       /\ fetch.merged[n] \in F!Pins /\ fetch.merged[n].package = n
       /\ n \notin SiblingsOf(fetch.root)
       /\ n \in DOMAIN released /\ fetch.merged[n].version \in released[n]
       /\ \E o \in F!NeedsOf(fetch.resolved) :
            o.package = n /\ o.version = fetch.merged[n].requirement
  /\ \A need \in F!NeedsOf(fetch.resolved) :
       need.package \notin SiblingsOf(fetch.root) => need.package \in DOMAIN fetch.merged

\* A pin under whose requirement all need the package
Shared(pin) ==
  LET users == fetch.dirs \cup F!WorkspaceMembers(tree, fetch.root)
  IN  /\ users # {}
      /\ \A e \in users :
           {need.version : need \in {need \in Wit[e].needs : need.package = pin.package}}
             = {pin.requirement}

RunInv ==
  /\ fetch.root \in F!Dirs(tree) /\ fetch.root = F!FindManifest(tree, fetch.cwd)
  /\ lock[fetch.root] # None /\ fetch.output \in {"wit", "wasm"}
  /\ fetch.dirs \cup F!WorkspaceMembers(tree, fetch.root) \subseteq tree.wit
  /\ F!WorkspaceMembers(tree, fetch.root) # {} => fetch.dirs # {}
  /\ ~F!PlanRefused(F!Checkout(fetch.root))
  /\ fetch.built \subseteq F!Members(F!Checkout(fetch.root))
  /\ Consistent(fetch.pins, SiblingsOf(fetch.root))
  /\ MergedInv
  /\ fetch.pc = "build" =>
       \A pin \in lock[fetch.root] : Shared(pin) =>
         /\ pin \in fetch.pins
         /\ fetch.resolved # {} =>
              pin.package \in DOMAIN fetch.merged /\ fetch.merged[pin.package] = pin
  /\ fetch.pc \in {"clear", "write"} =>
       /\ fetch.resolved = fetch.dirs /\ lock[fetch.root] = F!Merged
       /\ matched[fetch.root] = None
  /\ fetch.pc = "write" =>
       deps[fetch.root] \cup fetch.todo = F!Contents(fetch.output, lock[fetch.root])

FetchForm ==
  /\ tree \in Trees /\ fetches \in 0 .. MaxFetches
  /\ DOMAIN released = DOMAIN Releases
  /\ \A n \in DOMAIN Releases : released[n] \subseteq Releases[n]
  /\ lock \in [F!Dirs(tree) -> (SUBSET F!Pins) \cup {None}]
  /\ deps \in [F!Dirs(tree) -> {deps[d] : d \in F!Dirs(tree)}]
  /\ matched \in [F!Dirs(tree) -> {None, "wit", "wasm"}]
  /\ DOMAIN fetch = {"pc", "cwd", "root", "dirs", "output", "pins", "built", "resolved",
                      "merged", "todo"}
  /\ fetch.pc \in {"rest", "build", "clear", "write"}
  /\ fetch.dirs \subseteq tree.wit /\ fetch.resolved \subseteq fetch.dirs

FetchInv ==
  /\ FetchForm
  /\ \A d \in F!Dirs(tree) : LockInv(d)
  /\ \A d \in F!Dirs(tree) : matched[d] # None =>
       lock[d] # None /\ deps[d] = F!Contents(matched[d], lock[d])
  /\ fetch.pc = "rest" => fetch = F!NoFetch
  /\ fetch.pc # "rest" => RunInv

-----------------------------------------------------------------------------
(* `wkg fetch` in a workspace *)

\* Of a set of versions the newest is chosen.
LEMMA NewestChosen ==
  ASSUME NEW vs, vs \subseteq F!Versions, vs # {}
  PROVE  (CHOOSE v \in vs : \A w \in vs : F!Sooner(w, v)) \in vs
<1>1. \E v \in vs : \A w \in vs : F!Sooner(w, v)
  BY WkgAssumption
<1> QED
  BY <1>1

\* The members of a workspace that a fetch is run in
LEMMA MembersKnown ==
  ASSUME FetchForm, RunInv
  PROVE  /\ \A d \in fetch.dirs \cup F!WorkspaceMembers(tree, fetch.root) : d \in DOMAIN Wit
         /\ \A m \in F!Members(F!Checkout(fetch.root)) :
              \E d \in F!WorkspaceMembers(tree, fetch.root) : m = Wit[d]
         /\ \A m \in F!Members(F!Checkout(fetch.root)) : m.version # None
<1>1. \A d \in fetch.dirs \cup F!WorkspaceMembers(tree, fetch.root) : d \in DOMAIN Wit
  BY WkgAssumption DEF FetchForm, RunInv
<1>2. \A m \in F!Members(F!Checkout(fetch.root)) :
        \E d \in F!WorkspaceMembers(tree, fetch.root) : m = Wit[d]
  BY DEF F!Members, F!Checkout
<1>3. \A m \in F!Members(F!Checkout(fetch.root)) : m.version # None
  BY DEF RunInv, F!PlanRefused
<1> QED
  BY <1>1, <1>2, <1>3

\* Only versions are offered.
LEMMA OfferedKnown ==
  ASSUME FetchForm, RunInv, NEW n
  PROVE  /\ F!Offered(n) \subseteq F!Versions
         /\ n \notin SiblingsOf(fetch.root) /\ F!Offered(n) # {} =>
              n \in DOMAIN released /\ F!Offered(n) = released[n]
<1>1. F!Siblings = SiblingsOf(fetch.root)
  BY DEF F!Siblings, SiblingsOf
<1>2. CASE n \in F!Siblings
  <2>1. F!Offered(n) = {m.version : m \in {m \in fetch.built : m.package = n}}
    BY <1>2 DEF F!Offered
  <2>2. \A m \in fetch.built : m.version \in F!Versions
    <3>1. \A m \in fetch.built : m.version # None /\ \E d \in DOMAIN Wit : m = Wit[d]
      <4>1. \A m \in fetch.built : m \in F!Members(F!Checkout(fetch.root))
        BY DEF RunInv
      <4> QED
        BY <4>1, MembersKnown
    <3>2. ASSUME NEW m \in fetch.built
          PROVE  m.version \in F!Versions
      <4>1. PICK d \in DOMAIN Wit : m = Wit[d]
        BY <3>1
      <4>2. m.version \in {Wit[e].version : e \in DOMAIN Wit} \ {None}
        BY <3>1, <4>1
      <4> QED
        BY <4>2 DEF F!Versions
    <3> QED
      BY <3>2
  <2> QED
    BY <1>1, <1>2, <2>1, <2>2
<1>3. CASE n \notin F!Siblings /\ n \in DOMAIN released
  <2>1. F!Offered(n) = released[n]
    BY <1>3 DEF F!Offered
  <2>2. released[n] \subseteq F!Versions
    BY <1>3 DEF FetchForm, F!Versions
  <2> QED
    BY <1>1, <1>3, <2>1, <2>2
<1>4. CASE n \notin F!Siblings /\ n \notin DOMAIN released
  <2>1. F!Offered(n) = {}
    BY <1>4 DEF F!Offered
  <2> QED
    BY <1>4, <2>1
<1> QED
  BY <1>2, <1>3, <1>4

\* The versions that are pinned for a need, and still there
Held(need) ==
  {pin.version : pin \in {pin \in fetch.pins :
     /\ pin.package = need.package /\ pin.requirement = need.version
     /\ pin.version \in F!Offered(need.package)}}

\* What a need is resolved to is offered.
LEMMA ResolvedOffered ==
  ASSUME FetchForm, RunInv, NEW need, F!Accepted(need) # {}
  PROVE  /\ F!Resolved(need) \in F!Offered(need.package)
         /\ Held(need) # {} => F!Resolved(need) \in Held(need)
<1> DEFINE vs == IF Held(need) # {} THEN Held(need) ELSE F!Accepted(need)
<1>1. F!Resolved(need) = CHOOSE v \in vs : \A w \in vs : F!Sooner(w, v)
  BY DEF F!Resolved, Held
<1>2. Held(need) \subseteq F!Offered(need.package)
  BY DEF Held
<1>3. F!Accepted(need) \subseteq F!Offered(need.package)
  BY DEF F!Accepted
<1>4. vs # {} /\ vs \subseteq F!Offered(need.package)
  BY <1>2, <1>3
<1>5. vs \subseteq F!Versions
  BY <1>4, OfferedKnown
<1> HIDE DEF vs
<1>6. F!Resolved(need) \in vs
  BY <1>1, <1>4, <1>5, NewestChosen
<1> QED
  BY <1>4, <1>6 DEF vs

\* What is resolved depends on the package and the requirement.
LEMMA ResolvedSame ==
  ASSUME NEW x, NEW y, x.package = y.package, x.version = y.version
  PROVE  F!Resolved(x) = F!Resolved(y)
BY DEF F!Resolved, F!Accepted

\* The pins that a directory leaves are consistent.
LEMMA PinsConsistent ==
  ASSUME FetchForm, RunInv, NEW d \in DOMAIN Wit, F!Resolvable(Wit[d])
  PROVE  Consistent(F!PinsOf(Wit[d]), SiblingsOf(fetch.root))
<1>1. \A need \in Wit[d].needs : F!Resolved(need) \in F!Offered(need.package)
  BY ResolvedOffered DEF F!Resolvable
<1>2. ASSUME NEW need \in Wit[d].needs
      PROVE  F!Pinned(need.package, need.version, F!Resolved(need)) \in F!Pins
  <2>1. F!Resolved(need) \in F!Versions
    BY <1>1, OfferedKnown
  <2>2. need \in UNION {Wit[e].needs : e \in DOMAIN Wit}
    OBVIOUS
  <2> QED
    BY <2>1, <2>2 DEF F!Pins
<1>3. F!PinsOf(Wit[d]) \subseteq F!Pins
  BY <1>2 DEF F!PinsOf
<1>4. ASSUME NEW p \in F!PinsOf(Wit[d])
      PROVE  \E need \in Wit[d].needs : /\ p.package = need.package
                                        /\ p.requirement = need.version
                                        /\ p.version = F!Resolved(need)
  BY DEF F!PinsOf, F!Pinned
<1>5. ASSUME NEW p \in F!PinsOf(Wit[d]), NEW q \in F!PinsOf(Wit[d]),
             p.package = q.package, p.requirement = q.requirement
      PROVE  p = q
  <2>1. p.version = q.version
    BY <1>4, <1>5, ResolvedSame
  <2> QED
    BY <1>5, <2>1 DEF F!PinsOf, F!Pinned
<1>6. ASSUME NEW p \in F!PinsOf(Wit[d]), p.package \notin SiblingsOf(fetch.root)
      PROVE  p.package \in DOMAIN released /\ p.version \in released[p.package]
  <2>1. PICK need \in Wit[d].needs : /\ p.package = need.package
                                    /\ p.version = F!Resolved(need)
    BY <1>4
  <2>2. F!Resolved(need) \in F!Offered(need.package)
    BY <1>1
  <2> QED
    BY <1>6, <2>1, <2>2, OfferedKnown
<1> QED
  BY <1>3, <1>5, <1>6 DEF Consistent

\* A pin that all need stays among the pins of each directory, for its package alone.
LEMMA SharedResolved ==
  ASSUME FetchForm, RunInv, NEW pin \in fetch.pins,
         pin.package \notin SiblingsOf(fetch.root), Shared(pin),
         NEW e \in fetch.dirs \cup F!WorkspaceMembers(tree, fetch.root),
         F!Resolvable(Wit[e])
  PROVE  /\ pin \in F!PinsOf(Wit[e])
         /\ \A p \in F!PinsOf(Wit[e]) : p.package = pin.package => p = pin
<1>1. {need.version : need \in {need \in Wit[e].needs : need.package = pin.package}}
        = {pin.requirement}
  BY DEF Shared
<1>2. PICK need \in Wit[e].needs :
        need.package = pin.package /\ need.version = pin.requirement
  BY <1>1
<1>3. \A x \in Wit[e].needs : x.package = pin.package => x.version = pin.requirement
  BY <1>1
<1>4. F!Accepted(need) # {}
  BY DEF F!Resolvable
<1>5. F!Offered(need.package) # {}
  BY <1>4 DEF F!Accepted
<1>6. pin.version \in F!Offered(need.package)
  BY <1>2, <1>5, OfferedKnown DEF RunInv, Consistent
<1>7. Held(need) # {}
  BY <1>2, <1>6 DEF Held
<1>8. \A v \in Held(need) : v = pin.version
  BY <1>2 DEF Held, RunInv, Consistent
<1>9. F!Resolved(need) = pin.version
  BY <1>4, <1>7, <1>8, ResolvedOffered
<1>10. pin = F!Pinned(pin.package, pin.requirement, pin.version)
  BY DEF RunInv, Consistent, F!Pins, F!Pinned
<1>11. pin \in F!PinsOf(Wit[e])
  BY <1>2, <1>9, <1>10 DEF F!PinsOf
<1>12. ASSUME NEW p \in F!PinsOf(Wit[e]), p.package = pin.package
       PROVE  p = pin
  <2>1. PICK x \in Wit[e].needs : p = F!Pinned(x.package, x.version, F!Resolved(x))
    BY DEF F!PinsOf
  <2>2. x.package = pin.package
    BY <1>12, <2>1 DEF F!Pinned
  <2>3. x.version = pin.requirement
    BY <1>3, <2>2
  <2>4. F!Resolved(x) = F!Resolved(need)
    BY <1>2, <2>2, <2>3, ResolvedSame
  <2> QED
    BY <1>9, <1>10, <2>1, <2>2, <2>3, <2>4
<1> QED
  BY <1>11, <1>12

-----------------------------------------------------------------------------
(* The steps of a fetch *)

\* A fetch that has not started
LEMMA NoFetchForm ==
  /\ DOMAIN F!NoFetch = {"pc", "cwd", "root", "dirs", "output", "pins", "built", "resolved",
                         "merged", "todo"}
  /\ F!NoFetch.pc = "rest" /\ F!NoFetch.dirs = {} /\ F!NoFetch.resolved = {}
  /\ F!NoFetch.pins = {} /\ F!NoFetch.built = {} /\ F!NoFetch.todo = {}
  /\ DOMAIN F!NoFetch.merged = {}
BY DEF F!NoFetch

\* What follows from the tree and a directory alone stays.
LEMMA SameTree ==
  ASSUME tree' = tree
  PROVE  \A d : (F!Checkout(d))' = F!Checkout(d) /\ (SiblingsOf(d))' = SiblingsOf(d)
BY DEF F!Checkout, SiblingsOf

\* Lock files that stay are as consistent as they were.
LEMMA LockStays ==
  ASSUME NEW d, LockInv(d), lock'[d] = lock[d], tree' = tree, released' = released
  PROVE  LockInv(d)'
BY SameTree DEF LockInv, Consistent

\* A fetch that ends leaves what is there.
LEMMA RestKeeps ==
  ASSUME FetchInv, F!Rest, UNCHANGED <<tree, released, lock, deps, matched>>,
         fetches' \in 0 .. MaxFetches
  PROVE  FetchInv'
<1>1. fetch' = F!NoFetch
  BY DEF F!Rest
<1>2. FetchForm'
  BY <1>1, NoFetchForm DEF FetchInv, FetchForm
<1>3. \A d \in F!Dirs(tree) : LockInv(d)'
  BY LockStays DEF FetchInv
<1>4. \A d \in F!Dirs(tree) : matched[d] # None =>
        lock[d] # None /\ deps[d] = F!Contents(matched[d], lock[d])
  BY DEF FetchInv
<1>5. (F!NoFetch)' = F!NoFetch
  BY DEF F!NoFetch
<1> QED
  BY <1>1, <1>2, <1>3, <1>4, <1>5, NoFetchForm DEF FetchInv

\* A fetch starts at the manifest that is nearest, with the pins in the lock file there.
LEMMA FetchStartKeeps ==
  ASSUME FetchInv, NEW cwd \in F!Dirs(tree), F!Start(cwd)
  PROVE  FetchInv'
<1>1. PICK root \in F!Dirs(tree) : root = F!FetchRoot(cwd)
  BY DEF F!Start
<1>2. root = F!FindManifest(tree, cwd)
  <2>1. None \notin F!Dirs(tree)
    BY WkgAssumption DEF FetchInv, FetchForm, F!Dirs
  <2> QED
    BY <1>1, <2>1 DEF F!FetchRoot
<1> DEFINE here == IF lock[root] = None THEN {} ELSE lock[root]
<1>3. PICK given \in {None} \cup F!Dirs(tree), output \in {"wit", "wasm"} :
        LET dirs == IF given = None THEN F!WorkspaceMembers(tree, root) ELSE {given}
        IN  /\ IF dirs \subseteq F!Dirs(tree)
               THEN lock' = [lock EXCEPT ![root] = here] ELSE UNCHANGED lock
            /\ IF \/ ~(dirs \cup F!WorkspaceMembers(tree, root) \subseteq tree.wit)
                  \/ F!PlanRefused(F!Checkout(root))
               THEN F!Rest
               ELSE fetch' = [F!NoFetch EXCEPT !.pc = "build", !.cwd = cwd,
                                !.root = root, !.dirs = dirs, !.output = output, !.pins = here]
  BY <1>1 DEF F!Start
<1>4. PICK dirs : dirs = IF given = None THEN F!WorkspaceMembers(tree, root) ELSE {given}
  OBVIOUS
<1>5. UNCHANGED <<tree, released, deps, matched>> /\ fetches' \in 0 .. MaxFetches
      /\ fetch.pc = "rest"
  BY WkgAssumption DEF F!Start, FetchInv, FetchForm
<1>6. lock' \in [F!Dirs(tree) -> (SUBSET F!Pins) \cup {None}]
      /\ \A d \in F!Dirs(tree) : lock'[d] = lock[d] \/ (lock[d] = None /\ lock'[d] = {})
  <2>1. here \in SUBSET F!Pins
    <3>1. lock[root] \in (SUBSET F!Pins) \cup {None}
      BY DEF FetchInv, FetchForm
    <3>2. CASE lock[root] = None
      BY <3>2
    <3>3. CASE lock[root] # None
      BY <3>1, <3>3
    <3> QED
      BY <3>2, <3>3
  <2>2. CASE lock' = [lock EXCEPT ![root] = here]
    BY <2>1, <2>2 DEF FetchInv, FetchForm
  <2>3. CASE lock' = lock
    BY <2>3 DEF FetchInv, FetchForm
  <2> QED
    BY <1>3, <2>2, <2>3
<1>7. ASSUME NEW d \in F!Dirs(tree)
      PROVE  LockInv(d)'
  <2>1. CASE lock'[d] = lock[d]
    BY <1>5, <2>1, LockStays DEF FetchInv
  <2>2. CASE lock'[d] = {}
    BY <2>2 DEF LockInv, Consistent
  <2> QED
    BY <1>6, <2>1, <2>2
<1>8. \A d \in F!Dirs(tree) : matched[d] # None =>
        lock'[d] = lock[d] /\ lock[d] # None /\ deps[d] = F!Contents(matched[d], lock[d])
  BY <1>6 DEF FetchInv
<1>9. (F!NoFetch)' = F!NoFetch
  BY DEF F!NoFetch
<1>10. CASE F!Rest
  <2>1. fetch' = F!NoFetch
    BY <1>10 DEF F!Rest
  <2>2. FetchForm'
    BY <1>5, <1>6, <2>1, NoFetchForm DEF FetchInv, FetchForm
  <2> QED
    BY <1>5, <1>7, <1>8, <1>9, <2>1, <2>2, NoFetchForm DEF FetchInv
<1>11. CASE ~F!Rest
  <2>1. /\ dirs \cup F!WorkspaceMembers(tree, root) \subseteq tree.wit
        /\ ~F!PlanRefused(F!Checkout(root))
        /\ lock' = [lock EXCEPT ![root] = here]
        /\ fetch' = [F!NoFetch EXCEPT !.pc = "build", !.cwd = cwd,
                        !.root = root, !.dirs = dirs, !.output = output, !.pins = here]
    <3>1. tree.wit \subseteq F!Dirs(tree)
      BY WkgAssumption DEF FetchInv, FetchForm, F!Dirs
    <3> QED
      BY <1>3, <1>4, <1>11, <3>1
  <2>2. /\ DOMAIN fetch' = {"pc", "cwd", "root", "dirs", "output", "pins", "built", "resolved",
                            "merged", "todo"}
        /\ fetch'.pc = "build" /\ fetch'.cwd = cwd /\ fetch'.root = root
        /\ fetch'.dirs = dirs /\ fetch'.output = output /\ fetch'.pins = here
        /\ fetch'.built = {} /\ fetch'.resolved = {} /\ DOMAIN fetch'.merged = {}
    BY <2>1 DEF F!NoFetch
  <2>3. FetchForm'
    BY <1>5, <1>6, <2>1, <2>2 DEF FetchInv, FetchForm
  <2>4. lock'[root] = here /\ here # None
    <3>1. {} # None
      BY WkgAssumption
    <3> QED
      BY <2>1, <3>1 DEF FetchInv, FetchForm
  <2>5. Consistent(here, SiblingsOf(root))
    <3>1. CASE lock[root] = None
      BY <3>1 DEF Consistent
    <3>2. CASE lock[root] # None
      BY <3>2 DEF FetchInv, LockInv
    <3> QED
      BY <3>1, <3>2
  <2>6. Consistent(fetch.pins, SiblingsOf(fetch.root))'
    BY <1>5, <2>2, <2>5, SameTree DEF Consistent
  <2>7. MergedInv'
    BY <2>2 DEF MergedInv, F!NeedsOf
  <2>8. F!WorkspaceMembers(tree, root) # {} => dirs # {}
    BY <1>4
  <2>9. RunInv'
    BY <1>2, <1>5, <2>1, <2>2, <2>4, <2>6, <2>7, <2>8, SameTree DEF RunInv
  <2>10. fetch'.pc # "rest"
    BY <2>2
  <2> QED
    BY <1>5, <1>7, <1>8, <2>3, <2>9, <2>10 DEF FetchInv
<1> QED
  BY <1>10, <1>11

\* Whether all need a package under a pin's requirement does not change in a fetch.
LEMMA SharedStays ==
  ASSUME tree' = tree, fetch'.dirs = fetch.dirs, fetch'.root = fetch.root, NEW pin
  PROVE  Shared(pin)' <=> Shared(pin)
BY DEF Shared

\* A step that changes nothing besides the record of the fetch
LEMMA OnlyFetch ==
  ASSUME FetchInv, UNCHANGED <<tree, released, lock, deps, fetches, matched>>,
         DOMAIN fetch' = DOMAIN fetch, fetch'.pc \in {"build", "clear", "write"},
         fetch'.dirs = fetch.dirs, fetch'.resolved \subseteq fetch.dirs, RunInv'
  PROVE  FetchInv'
<1>1. FetchForm'
  BY DEF FetchInv, FetchForm
<1>2. \A d \in F!Dirs(tree) : LockInv(d)'
  BY LockStays DEF FetchInv
<1>3. fetch'.pc # "rest"
  OBVIOUS
<1> QED
  BY <1>1, <1>2, <1>3 DEF FetchInv

\* What is merged stays as good as it was, if neither it nor what is resolved changes.
LEMMA MergedStays ==
  ASSUME MergedInv, tree' = tree, released' = released, fetch'.root = fetch.root,
         fetch'.merged = fetch.merged, fetch'.resolved = fetch.resolved
  PROVE  MergedInv'
BY SameTree DEF MergedInv, F!NeedsOf

\* Building a member keeps the pins that all share.
LEMMA BuildMemberKeeps ==
  ASSUME FetchInv, NEW d \in DOMAIN Wit, F!BuildMember(Wit[d])
  PROVE  FetchInv'
<1>1. /\ fetch.pc = "build" /\ Wit[d] \in F!Members(F!Checkout(fetch.root))
      /\ UNCHANGED <<tree, released, lock, deps, fetches, matched>>
  BY DEF F!BuildMember
<1>2. FetchForm /\ RunInv /\ fetches \in 0 .. MaxFetches
  BY <1>1 DEF FetchInv, FetchForm
<1>3. CASE ~F!Resolvable(Wit[d])
  <2>1. F!Rest
    BY <1>3 DEF F!BuildMember
  <2> QED
    BY <1>1, <1>2, <2>1, RestKeeps
<1>4. CASE F!Resolvable(Wit[d])
  <2>1. PICK pins : pins = F!PinsOf(Wit[d])
    OBVIOUS
  <2>2. fetch' = [fetch EXCEPT !.pins = pins, !.built = @ \cup {Wit[d]}]
    BY <1>4, <2>1 DEF F!BuildMember
  <2>3. /\ DOMAIN fetch' = DOMAIN fetch /\ fetch'.pc = fetch.pc /\ fetch'.cwd = fetch.cwd
        /\ fetch'.root = fetch.root /\ fetch'.dirs = fetch.dirs /\ fetch'.output = fetch.output
        /\ fetch'.pins = pins /\ fetch'.built = fetch.built \cup {Wit[d]}
        /\ fetch'.resolved = fetch.resolved /\ fetch'.merged = fetch.merged
    BY <1>2, <2>2 DEF FetchForm
  <2>4. PICK e \in F!WorkspaceMembers(tree, fetch.root) : Wit[d] = Wit[e]
    BY <1>1, <1>2, MembersKnown
  <2>5. Consistent(pins, SiblingsOf(fetch.root))
    BY <1>2, <1>4, <2>1, PinsConsistent
  <2>6. ASSUME NEW pin \in lock[fetch.root], Shared(pin)
        PROVE  pin \in pins
    <3>1. pin \in fetch.pins
      BY <1>1, <1>2, <2>6 DEF RunInv
    <3>2. pin.package \notin SiblingsOf(fetch.root)
      BY <1>2 DEF FetchInv, LockInv, RunInv
    <3> QED
      BY <1>2, <1>4, <2>1, <2>4, <2>6, <3>1, <3>2, SharedResolved
  <2>7. Consistent(fetch.pins, SiblingsOf(fetch.root))'
    BY <1>1, <2>3, <2>5, SameTree DEF Consistent
  <2>8. MergedInv'
    BY <1>1, <1>2, <2>3, MergedStays DEF RunInv
  <2>9. \A pin \in lock'[fetch'.root] : Shared(pin)' =>
          /\ pin \in fetch'.pins
          /\ fetch'.resolved # {} =>
               pin.package \in DOMAIN fetch'.merged /\ fetch'.merged[pin.package] = pin
    <3>1. ASSUME NEW pin \in lock[fetch.root], Shared(pin)'
          PROVE  Shared(pin)
      BY <1>1, <2>3, <3>1, SharedStays
    <3> QED
      BY <1>1, <1>2, <2>3, <2>6, <3>1 DEF RunInv
  <2>10. RunInv'
    BY <1>1, <1>2, <2>3, <2>7, <2>8, <2>9, SameTree DEF RunInv
  <2>11. fetch'.pc \in {"build", "clear", "write"} /\ fetch'.resolved \subseteq fetch.dirs
    BY <1>1, <1>2, <2>3 DEF FetchForm
  <2> QED
    BY <1>1, <2>3, <2>10, <2>11, OnlyFetch
<1> QED
  BY <1>3, <1>4

\* The pins of one directory that are merged
AddedOf(d) ==
  LET pins == {pin \in F!PinsOf(Wit[d]) : pin.package \notin F!Siblings}
  IN  [n \in {pin.package : pin \in pins} |-> CHOOSE pin \in pins : pin.package = n]

\* The pins of one directory that are merged: for what it needs of others, one each, and
\* among them those that all share
LEMMA AddedPins ==
  ASSUME FetchForm, RunInv, NEW d \in fetch.dirs, F!Resolvable(Wit[d]),
         NEW added, added = AddedOf(d)
  PROVE  /\ \A n \in DOMAIN added :
              /\ added[n] \in F!Pins /\ added[n].package = n
              /\ n \notin SiblingsOf(fetch.root)
              /\ n \in DOMAIN released /\ added[n].version \in released[n]
              /\ \E o \in Wit[d].needs : o.package = n /\ o.version = added[n].requirement
         /\ \A need \in Wit[d].needs :
              need.package \notin SiblingsOf(fetch.root) => need.package \in DOMAIN added
         /\ \A pin \in fetch.pins :
              pin.package \notin SiblingsOf(fetch.root) /\ Shared(pin) =>
                pin.package \in DOMAIN added /\ added[pin.package] = pin
<1>1. F!Siblings = SiblingsOf(fetch.root)
  BY DEF F!Siblings, SiblingsOf
<1>2. d \in DOMAIN Wit
  BY MembersKnown
<1>3. Consistent(F!PinsOf(Wit[d]), SiblingsOf(fetch.root))
  BY <1>2, PinsConsistent
<1> DEFINE pins == {pin \in F!PinsOf(Wit[d]) : pin.package \notin F!Siblings}
<1>4. /\ DOMAIN added = {pin.package : pin \in pins}
      /\ \A n \in DOMAIN added : added[n] \in pins /\ added[n].package = n
  BY DEF AddedOf
<1>5. \A p \in F!PinsOf(Wit[d]) :
        \E o \in Wit[d].needs : o.package = p.package /\ o.version = p.requirement
  BY DEF F!PinsOf, F!Pinned
<1>6. ASSUME NEW n \in DOMAIN added
      PROVE  /\ added[n] \in F!Pins /\ added[n].package = n
             /\ n \notin SiblingsOf(fetch.root)
             /\ n \in DOMAIN released /\ added[n].version \in released[n]
             /\ \E o \in Wit[d].needs : o.package = n /\ o.version = added[n].requirement
  <2>1. /\ added[n] \in F!PinsOf(Wit[d]) /\ added[n].package = n
        /\ n \notin SiblingsOf(fetch.root)
    BY <1>1, <1>4
  <2> QED
    BY <1>3, <1>5, <2>1 DEF Consistent
<1>7. ASSUME NEW need \in Wit[d].needs, need.package \notin SiblingsOf(fetch.root)
      PROVE  need.package \in DOMAIN added
  <2>1. PICK pin : pin = F!Pinned(need.package, need.version, F!Resolved(need))
    OBVIOUS
  <2>2. pin \in F!PinsOf(Wit[d]) /\ pin.package = need.package
    BY <2>1 DEF F!PinsOf, F!Pinned
  <2>3. pin \in pins
    BY <1>1, <1>7, <2>2
  <2> QED
    BY <1>4, <2>2, <2>3
<1>8. ASSUME NEW pin \in fetch.pins, pin.package \notin SiblingsOf(fetch.root), Shared(pin)
      PROVE  pin.package \in DOMAIN added /\ added[pin.package] = pin
  <2>1. /\ pin \in F!PinsOf(Wit[d])
        /\ \A p \in F!PinsOf(Wit[d]) : p.package = pin.package => p = pin
    BY <1>8, SharedResolved
  <2>2. pin \in pins
    BY <1>1, <1>8, <2>1
  <2>3. pin.package \in DOMAIN added
    BY <1>4, <2>2
  <2>4. added[pin.package] \in pins /\ added[pin.package].package = pin.package
    BY <1>4, <2>3
  <2> QED
    BY <2>1, <2>3, <2>4
<1> QED
  BY <1>6, <1>7, <1>8

\* Resolving a directory merges its pins over those of the directories before it.
LEMMA ResolveDirKeeps ==
  ASSUME FetchInv, NEW d \in DOMAIN Wit, F!ResolveDir(d)
  PROVE  FetchInv'
<1>1. /\ fetch.pc = "build" /\ d \in fetch.dirs
      /\ UNCHANGED <<tree, released, lock, deps, fetches, matched>>
  BY DEF F!ResolveDir
<1>2. FetchForm /\ RunInv /\ fetches \in 0 .. MaxFetches
  BY <1>1 DEF FetchInv, FetchForm
<1>3. CASE ~F!Resolvable(Wit[d])
  <2>1. F!Rest
    BY <1>3 DEF F!ResolveDir
  <2> QED
    BY <1>1, <1>2, <2>1, RestKeeps
<1>4. CASE F!Resolvable(Wit[d])
  <2>2. PICK added : added = AddedOf(d)
    OBVIOUS
  <2>3. PICK merge : merge = F!Extended(fetch.merged, added)
    OBVIOUS
  <2>4. fetch' = [fetch EXCEPT !.resolved = @ \cup {d}, !.merged = merge]
    BY <1>4, <2>2, <2>3 DEF F!ResolveDir, AddedOf
  <2>5. /\ DOMAIN fetch' = DOMAIN fetch /\ fetch'.pc = fetch.pc /\ fetch'.cwd = fetch.cwd
        /\ fetch'.root = fetch.root /\ fetch'.dirs = fetch.dirs /\ fetch'.output = fetch.output
        /\ fetch'.pins = fetch.pins /\ fetch'.built = fetch.built
        /\ fetch'.resolved = fetch.resolved \cup {d} /\ fetch'.merged = merge
    BY <1>2, <2>4 DEF FetchForm
  <2>6. /\ \A n \in DOMAIN added :
             /\ added[n] \in F!Pins /\ added[n].package = n
             /\ n \notin SiblingsOf(fetch.root)
             /\ n \in DOMAIN released /\ added[n].version \in released[n]
             /\ \E o \in Wit[d].needs : o.package = n /\ o.version = added[n].requirement
        /\ \A need \in Wit[d].needs :
             need.package \notin SiblingsOf(fetch.root) => need.package \in DOMAIN added
        /\ \A pin \in fetch.pins :
             pin.package \notin SiblingsOf(fetch.root) /\ Shared(pin) =>
               pin.package \in DOMAIN added /\ added[pin.package] = pin
    BY <1>1, <1>2, <1>4, <2>2, AddedPins
  <2>7. /\ DOMAIN merge = DOMAIN fetch.merged \cup DOMAIN added
        /\ \A n \in DOMAIN merge :
             merge[n] = IF n \in DOMAIN added THEN added[n] ELSE fetch.merged[n]
    BY <2>3 DEF F!Extended
  <2>8. MergedInv
    BY <1>2 DEF RunInv
  <2>9. /\ \A o \in Wit[d].needs : o \in F!NeedsOf(fetch'.resolved)
        /\ \A o \in F!NeedsOf(fetch.resolved) : o \in F!NeedsOf(fetch'.resolved)
        /\ \A o \in F!NeedsOf(fetch'.resolved) :
             o \in Wit[d].needs \/ o \in F!NeedsOf(fetch.resolved)
    BY <2>5 DEF F!NeedsOf
  <2>10. ASSUME NEW n \in DOMAIN merge
         PROVE  /\ merge[n] \in F!Pins /\ merge[n].package = n
                /\ n \notin SiblingsOf(fetch.root)
                /\ n \in DOMAIN released /\ merge[n].version \in released[n]
                /\ \E o \in F!NeedsOf(fetch'.resolved) :
                     o.package = n /\ o.version = merge[n].requirement
    <3>1. CASE n \in DOMAIN added
      BY <2>6, <2>7, <2>9, <3>1
    <3>2. CASE n \notin DOMAIN added
      BY <2>7, <2>8, <2>9, <3>2 DEF MergedInv
    <3> QED
      BY <3>1, <3>2
  <2>11. ASSUME NEW need \in F!NeedsOf(fetch'.resolved),
                need.package \notin SiblingsOf(fetch.root)
         PROVE  need.package \in DOMAIN merge
    BY <2>6, <2>7, <2>8, <2>9, <2>11 DEF MergedInv
  <2>12. MergedInv'
    <3>1. (SiblingsOf(fetch.root))' = SiblingsOf(fetch.root) /\ fetch'.merged = merge
          /\ released' = released
      BY <1>1, <2>5, SameTree
    <3>2. \A n \in DOMAIN fetch'.merged :
            /\ fetch'.merged[n] \in F!Pins /\ fetch'.merged[n].package = n
            /\ n \notin (SiblingsOf(fetch.root))'
            /\ n \in DOMAIN released' /\ fetch'.merged[n].version \in released'[n]
            /\ \E o \in F!NeedsOf(fetch'.resolved) :
                 o.package = n /\ o.version = fetch'.merged[n].requirement
      BY <2>10, <3>1
    <3>3. \A need \in F!NeedsOf(fetch'.resolved) :
            need.package \notin (SiblingsOf(fetch.root))' => need.package \in DOMAIN fetch'.merged
      BY <2>11, <3>1
    <3> QED
      BY <3>2, <3>3 DEF MergedInv
  <2>13. ASSUME NEW pin \in lock[fetch.root], Shared(pin)
         PROVE  pin \in fetch.pins /\ pin.package \in DOMAIN merge /\ merge[pin.package] = pin
    <3>1. pin \in fetch.pins
      BY <1>1, <1>2, <2>13 DEF RunInv
    <3>2. pin.package \notin SiblingsOf(fetch.root)
      BY <1>2 DEF FetchInv, LockInv, RunInv
    <3> QED
      BY <2>6, <2>7, <2>13, <3>1, <3>2
  <2>14. \A pin \in lock'[fetch'.root] : Shared(pin)' =>
           /\ pin \in fetch'.pins
           /\ fetch'.resolved # {} =>
                pin.package \in DOMAIN fetch'.merged /\ fetch'.merged[pin.package] = pin
    <3>1. ASSUME NEW pin \in lock[fetch.root], Shared(pin)'
          PROVE  Shared(pin)
      BY <1>1, <2>5, <3>1, SharedStays
    <3> QED
      BY <1>1, <2>5, <2>13, <3>1
  <2>15. Consistent(fetch.pins, SiblingsOf(fetch.root))'
    BY <1>1, <1>2, <2>5, SameTree DEF Consistent, RunInv
  <2>16. RunInv'
    BY <1>1, <1>2, <2>5, <2>12, <2>14, <2>15, SameTree DEF RunInv
  <2>17. fetch'.pc \in {"build", "clear", "write"} /\ fetch'.resolved \subseteq fetch.dirs
    BY <1>1, <1>2, <2>5 DEF FetchForm
  <2> QED
    BY <1>1, <2>5, <2>16, <2>17, OnlyFetch
<1> QED
  BY <1>3, <1>4

\* What is merged is a set of pins of others that agree.
LEMMA MergedPins ==
  ASSUME RunInv
  PROVE  /\ F!Merged \in SUBSET F!Pins
         /\ Consistent(F!Merged, SiblingsOf(fetch.root))
         /\ \A p \in F!Merged : p.package \notin SiblingsOf(fetch.root)
<1>1. MergedInv
  BY DEF RunInv
<1>2. \A p \in F!Merged : p.package \in DOMAIN fetch.merged /\ p = fetch.merged[p.package]
  BY <1>1 DEF F!Merged, MergedInv
<1>3. F!Merged \subseteq F!Pins
  BY <1>1 DEF F!Merged, MergedInv
<1>4. \A p, q \in F!Merged : p.package = q.package => p = q
  BY <1>2
<1>5. \A p \in F!Merged : /\ p.package \notin SiblingsOf(fetch.root)
                          /\ p.package \in DOMAIN released
                          /\ p.version \in released[p.package]
  BY <1>1, <1>2 DEF MergedInv
<1> QED
  BY <1>3, <1>4, <1>5 DEF Consistent

\* The lock file that is written has what was merged.
LEMMA CommitKeeps ==
  ASSUME FetchInv, F!Commit
  PROVE  FetchInv'
<1>1. /\ fetch.pc = "build" /\ fetch.resolved = fetch.dirs
      /\ UNCHANGED <<tree, released, deps, fetches>>
      /\ matched' = [matched EXCEPT ![fetch.root] = None]
  BY DEF F!Commit
<1>2. FetchForm /\ RunInv
  BY <1>1 DEF FetchInv
<1>3. PICK root \in F!Dirs(tree) : root = fetch.root
  BY <1>2 DEF RunInv
<1>4. PICK pins \in SUBSET F!Pins : pins = F!Merged
  BY <1>2, MergedPins
<1>5. lock' = [lock EXCEPT ![root] = pins] /\ fetch' = [fetch EXCEPT !.pc = "clear"]
  BY <1>3, <1>4 DEF F!Commit
<1>6. /\ DOMAIN fetch' = DOMAIN fetch /\ fetch'.pc = "clear" /\ fetch'.cwd = fetch.cwd
      /\ fetch'.root = fetch.root /\ fetch'.dirs = fetch.dirs /\ fetch'.output = fetch.output
      /\ fetch'.pins = fetch.pins /\ fetch'.built = fetch.built
      /\ fetch'.resolved = fetch.resolved /\ fetch'.merged = fetch.merged
  BY <1>2, <1>5 DEF FetchForm
<1>7. /\ lock' \in [F!Dirs(tree) -> (SUBSET F!Pins) \cup {None}]
      /\ lock'[root] = pins /\ \A d \in F!Dirs(tree) : d # root => lock'[d] = lock[d]
  BY <1>2, <1>3, <1>4, <1>5 DEF FetchForm
<1>8. /\ matched' \in [F!Dirs(tree) -> {None, "wit", "wasm"}]
      /\ matched'[root] = None /\ \A d \in F!Dirs(tree) : d # root => matched'[d] = matched[d]
  BY <1>1, <1>2, <1>3 DEF FetchForm
<1>9. FetchForm'
  BY <1>1, <1>2, <1>6, <1>7, <1>8 DEF FetchForm
<1>10. ASSUME NEW d \in F!Dirs(tree)
       PROVE  LockInv(d)'
  <2>1. CASE d = root
    <3>1. Consistent(pins, SiblingsOf(root)) /\ \A p \in pins : p.package \notin SiblingsOf(root)
      BY <1>2, <1>3, <1>4, MergedPins
    <3>2. lock'[d] = pins /\ (SiblingsOf(d))' = SiblingsOf(root)
      BY <1>1, <1>7, <2>1, SameTree
    <3> QED
      BY <1>1, <3>1, <3>2 DEF LockInv, Consistent
  <2>2. CASE d # root
    BY <1>1, <1>7, <2>2, LockStays DEF FetchInv
  <2> QED
    BY <2>1, <2>2
<1>11. \A d \in F!Dirs(tree) : matched'[d] # None =>
         lock'[d] # None /\ deps[d] = F!Contents(matched'[d], lock'[d])
  BY <1>7, <1>8 DEF FetchInv
<1>12. Consistent(fetch.pins, SiblingsOf(fetch.root))'
  BY <1>1, <1>2, <1>6, SameTree DEF Consistent, RunInv
<1>13. MergedInv'
  BY <1>1, <1>2, <1>6, MergedStays DEF RunInv
<1>14. (F!Merged)' = F!Merged
  BY <1>6 DEF F!Merged
<1>15. pins # None
  BY WkgAssumption
<1>16. RunInv'
  BY <1>1, <1>2, <1>3, <1>4, <1>6, <1>7, <1>8, <1>12, <1>13, <1>14, <1>15, SameTree DEF RunInv
<1> QED
  BY <1>1, <1>6, <1>9, <1>10, <1>11, <1>16 DEF FetchInv

\* The deps directory and what is still to be written into it change, and nothing else.
LEMMA DepsStep ==
  ASSUME FetchInv, fetch.pc \in {"clear", "write"},
         UNCHANGED <<tree, released, lock, fetches, matched>>,
         NEW root, root = fetch.root, NEW contents, deps' = [deps EXCEPT ![root] = contents],
         NEW todo, fetch' = [fetch EXCEPT !.pc = "write", !.todo = todo],
         contents \cup todo = F!Contents(fetch.output, lock[root])
  PROVE  FetchInv'
<1>1. FetchForm /\ RunInv
  BY DEF FetchInv
<1>2. root \in F!Dirs(tree) /\ matched[root] = None
  BY <1>1 DEF RunInv
<1>3. /\ DOMAIN fetch' = DOMAIN fetch /\ fetch'.pc = "write" /\ fetch'.cwd = fetch.cwd
      /\ fetch'.root = fetch.root /\ fetch'.dirs = fetch.dirs /\ fetch'.output = fetch.output
      /\ fetch'.pins = fetch.pins /\ fetch'.built = fetch.built /\ fetch'.todo = todo
      /\ fetch'.resolved = fetch.resolved /\ fetch'.merged = fetch.merged
  BY <1>1 DEF FetchForm
<1>4. /\ DOMAIN deps' = F!Dirs(tree) /\ deps'[root] = contents
      /\ \A d \in F!Dirs(tree) : d # root => deps'[d] = deps[d]
      /\ deps' \in [F!Dirs(tree) -> {deps'[d] : d \in F!Dirs(tree)}]
  BY <1>1, <1>2 DEF FetchForm
<1>5. FetchForm'
  BY <1>1, <1>3, <1>4 DEF FetchForm
<1>6. \A d \in F!Dirs(tree) : LockInv(d)'
  BY LockStays DEF FetchInv
<1>7. \A d \in F!Dirs(tree) : matched[d] # None =>
        lock[d] # None /\ deps'[d] = F!Contents(matched[d], lock[d])
  BY <1>2, <1>4 DEF FetchInv
<1>8. Consistent(fetch.pins, SiblingsOf(fetch.root))'
  BY <1>1, <1>3, SameTree DEF Consistent, RunInv
<1>9. MergedInv'
  BY <1>1, <1>3, MergedStays DEF RunInv
<1>10. (F!Merged)' = F!Merged
  BY <1>3 DEF F!Merged
<1>11. RunInv'
  BY <1>1, <1>2, <1>3, <1>4, <1>8, <1>9, <1>10, SameTree DEF RunInv
<1> QED
  BY <1>3, <1>5, <1>6, <1>7, <1>11 DEF FetchInv

\* The deps directory is emptied.
LEMMA ClearKeeps ==
  ASSUME FetchInv, F!Clear
  PROVE  FetchInv'
<1>1. /\ fetch.pc = "clear" /\ deps' = [deps EXCEPT ![fetch.root] = {}]
      /\ fetch' = [fetch EXCEPT !.pc = "write", !.todo = F!Contents(fetch.output, F!Merged)]
      /\ UNCHANGED <<tree, released, lock, fetches, matched>>
  BY DEF F!Clear
<1>2. F!Merged = lock[fetch.root]
  BY <1>1 DEF FetchInv, RunInv
<1>3. {} \cup F!Contents(fetch.output, F!Merged) = F!Contents(fetch.output, lock[fetch.root])
  BY <1>2
<1> QED
  BY <1>1, <1>3, DepsStep

\* One file or package is written into it.
LEMMA PutReleaseKeeps ==
  ASSUME FetchInv, NEW release, F!Put(release)
  PROVE  FetchInv'
<1>1. /\ fetch.pc = "write" /\ release \in fetch.todo
      /\ deps' = [deps EXCEPT ![fetch.root] = @ \cup {release}]
      /\ fetch' = [fetch EXCEPT !.todo = @ \ {release}]
      /\ UNCHANGED <<tree, released, lock, fetches, matched>>
  BY DEF F!Put
<1>2. FetchForm /\ RunInv
  BY <1>1 DEF FetchInv
<1>3. deps' = [deps EXCEPT ![fetch.root] = deps[fetch.root] \cup {release}]
  BY <1>1, <1>2 DEF FetchForm, RunInv
<1>4. fetch' = [fetch EXCEPT !.pc = "write", !.todo = fetch.todo \ {release}]
  BY <1>1, <1>2 DEF FetchForm
<1>5. deps[fetch.root] \cup fetch.todo = F!Contents(fetch.output, lock[fetch.root])
  BY <1>1, <1>2 DEF RunInv
<1>6. (deps[fetch.root] \cup {release}) \cup (fetch.todo \ {release})
        = F!Contents(fetch.output, lock[fetch.root])
  BY <1>1, <1>5
<1> QED
  BY <1>1, <1>3, <1>4, <1>6, DepsStep

\* At the end all has been written.
LEMMA FinishKeeps ==
  ASSUME FetchInv, F!Finish
  PROVE  FetchInv'
<1>1. /\ fetch.pc = "write" /\ fetch.todo = {} /\ fetch' = F!NoFetch
      /\ matched' = [matched EXCEPT ![fetch.root] = fetch.output]
      /\ UNCHANGED <<tree, released, lock, deps, fetches>>
  BY DEF F!Finish, F!Rest
<1>2. FetchForm /\ RunInv
  BY <1>1 DEF FetchInv
<1>3. PICK root \in F!Dirs(tree) : root = fetch.root
  BY <1>2 DEF RunInv
<1>4. PICK output \in {"wit", "wasm"} : output = fetch.output
  BY <1>2 DEF RunInv
<1>5. /\ matched' \in [F!Dirs(tree) -> {None, "wit", "wasm"}]
      /\ matched'[root] = output /\ \A d \in F!Dirs(tree) : d # root => matched'[d] = matched[d]
  BY <1>1, <1>2, <1>3, <1>4 DEF FetchForm
<1>6. FetchForm'
  BY <1>1, <1>2, <1>5, NoFetchForm DEF FetchForm
<1>7. \A d \in F!Dirs(tree) : LockInv(d)'
  BY <1>1, LockStays DEF FetchInv
<1>8. lock[root] # None /\ deps[root] = F!Contents(output, lock[root])
  <2>1. deps[root] \cup {} = F!Contents(output, lock[root])
    BY <1>1, <1>2, <1>3, <1>4 DEF RunInv
  <2> QED
    BY <1>2, <1>3, <2>1 DEF RunInv
<1>9. \A d \in F!Dirs(tree) : matched'[d] # None =>
        lock[d] # None /\ deps[d] = F!Contents(matched'[d], lock[d])
  BY <1>5, <1>8 DEF FetchInv
<1>10. (F!NoFetch)' = F!NoFetch
  BY DEF F!NoFetch
<1> QED
  BY <1>1, <1>6, <1>7, <1>9, <1>10, NoFetchForm DEF FetchInv

\* A release takes away nothing that is pinned.
LEMMA ReleaseKeeps ==
  ASSUME FetchInv, F!Release
  PROVE  FetchInv'
<1>1. UNCHANGED <<tree, lock, deps, fetch, fetches, matched>>
  BY DEF F!Release
<1>2. PICK n \in DOMAIN Releases : \E v \in Releases[n] \ released[n] :
        released' = [released EXCEPT ![n] = @ \cup {v}]
  BY DEF F!Release
<1>3. FetchForm
  BY DEF FetchInv
<1>4. /\ DOMAIN released' = DOMAIN Releases
      /\ \A k \in DOMAIN Releases : released[k] \subseteq released'[k]
      /\ \A k \in DOMAIN Releases : released'[k] \subseteq Releases[k]
  BY <1>2, <1>3 DEF FetchForm
<1>5. FetchForm'
  BY <1>1, <1>3, <1>4 DEF FetchForm
<1>6. ASSUME NEW pins, NEW siblings, Consistent(pins, siblings)
      PROVE  Consistent(pins, siblings)'
  BY <1>3, <1>4, <1>6 DEF Consistent, FetchForm
<1>7. ASSUME NEW d \in F!Dirs(tree)
      PROVE  LockInv(d)'
  <2>1. LockInv(d)
    BY DEF FetchInv
  <2>2. PICK pins : pins = lock[d]
    OBVIOUS
  <2>3. PICK siblings : siblings = SiblingsOf(d)
    OBVIOUS
  <2>4. lock'[d] = pins /\ (SiblingsOf(d))' = siblings
    BY <1>1, <2>2, <2>3, SameTree
  <2>5. CASE pins # None
    <3>1. Consistent(pins, siblings)'
      BY <1>6, <2>1, <2>2, <2>3, <2>5 DEF LockInv
    <3>2. \A p \in pins : p.package \notin siblings
      BY <2>1, <2>2, <2>3, <2>5 DEF LockInv
    <3> QED
      BY <2>4, <3>1, <3>2 DEF LockInv, Consistent
  <2>6. CASE pins = None
    BY <2>4, <2>6 DEF LockInv
  <2> QED
    BY <2>5, <2>6
<1>8. ASSUME RunInv
      PROVE  RunInv'
  <2>1. Consistent(fetch.pins, SiblingsOf(fetch.root))'
    <3>1. PICK pins : pins = fetch.pins
      OBVIOUS
    <3>2. PICK siblings : siblings = SiblingsOf(fetch.root)
      OBVIOUS
    <3>3. fetch'.pins = pins /\ (SiblingsOf(fetch.root))' = siblings
      BY <1>1, <3>1, <3>2, SameTree
    <3>4. Consistent(pins, siblings)'
      BY <1>6, <1>8, <3>1, <3>2 DEF RunInv
    <3> QED
      BY <3>3, <3>4 DEF Consistent
  <2>2. MergedInv'
    BY <1>1, <1>3, <1>4, <1>8, SameTree DEF RunInv, MergedInv, F!NeedsOf, FetchForm
  <2>3. (F!Merged)' = F!Merged
    BY <1>1 DEF F!Merged
  <2>4. \A pin : Shared(pin)' <=> Shared(pin)
    BY <1>1 DEF Shared
  <2> QED
    BY <1>1, <1>8, <2>1, <2>2, <2>3, <2>4, SameTree DEF RunInv
<1>9. (F!NoFetch)' = F!NoFetch
  BY DEF F!NoFetch
<1> QED
  BY <1>1, <1>5, <1>7, <1>8, <1>9 DEF FetchInv

\* In the beginning there is no fetch, and no lock file.
LEMMA FetchInvInit == F!FetchInit => FetchInv
<1> SUFFICES ASSUME F!FetchInit PROVE FetchInv
  OBVIOUS
<1>1. /\ tree \in Trees /\ fetches = 0 /\ fetch = F!NoFetch
      /\ released \in [DOMAIN Releases -> UNION {SUBSET Releases[n] : n \in DOMAIN Releases}]
      /\ \A n \in DOMAIN Releases : released[n] \subseteq Releases[n]
      /\ lock = [d \in F!Dirs(tree) |-> None] /\ deps = [d \in F!Dirs(tree) |-> {}]
      /\ matched = [d \in F!Dirs(tree) |-> None]
  BY DEF F!FetchInit
<1>2. fetches \in 0 .. MaxFetches
  BY <1>1, WkgAssumption
<1>3. FetchForm
  BY <1>1, <1>2, NoFetchForm DEF FetchForm
<1>4. \A d \in F!Dirs(tree) : LockInv(d)
  BY <1>1 DEF LockInv
<1> QED
  BY <1>1, <1>3, <1>4, NoFetchForm DEF FetchInv

\* Every step keeps the invariant.
LEMMA FetchInvStep ==
  ASSUME FetchInv, [F!FetchNext]_fetchState
  PROVE  FetchInv'
<1>1. ASSUME NEW cwd \in F!Dirs(tree), F!Start(cwd)
      PROVE  FetchInv'
  BY <1>1, FetchStartKeeps
<1>2. ASSUME NEW d \in DOMAIN Wit, F!BuildMember(Wit[d])
      PROVE  FetchInv'
  BY <1>2, BuildMemberKeeps
<1>3. ASSUME NEW d \in DOMAIN Wit, F!ResolveDir(d)
      PROVE  FetchInv'
  BY <1>3, ResolveDirKeeps
<1>4. CASE F!Commit
  BY <1>4, CommitKeeps
<1>5. CASE F!Clear
  BY <1>5, ClearKeeps
<1>6. CASE F!WriteWasm \/ F!PrintWit
  <2>1. PICK release : F!Put(release)
    BY <1>6 DEF F!WriteWasm, F!PrintWit
  <2> QED
    BY <2>1, PutReleaseKeeps
<1>7. CASE F!Finish
  BY <1>7, FinishKeeps
<1>8. CASE F!FailFetch
  <2>1. fetches \in 0 .. MaxFetches
    BY DEF FetchInv, FetchForm
  <2>2. F!Rest /\ UNCHANGED <<tree, released, lock, deps, fetches, matched>>
    BY <1>8 DEF F!FailFetch
  <2> QED
    BY <2>1, <2>2, RestKeeps
<1>9. CASE F!Release
  BY <1>9, ReleaseKeeps
<1>10. CASE UNCHANGED fetchState
  <2>1. UNCHANGED <<tree, released, lock, deps, fetch, fetches, matched>>
    BY <1>10 DEF fetchState
  <2>2. FetchForm'
    BY <2>1 DEF FetchInv, FetchForm
  <2>3. \A d \in F!Dirs(tree) : LockInv(d)'
    BY <2>1, LockStays DEF FetchInv
  <2>4. ASSUME RunInv
        PROVE  RunInv'
    <3>1. Consistent(fetch.pins, SiblingsOf(fetch.root))'
      BY <2>1, <2>4, SameTree DEF Consistent, RunInv
    <3>2. MergedInv'
      BY <2>1, <2>4, MergedStays DEF RunInv
    <3>3. (F!Merged)' = F!Merged /\ \A pin : Shared(pin)' <=> Shared(pin)
      BY <2>1 DEF F!Merged, Shared
    <3> QED
      BY <2>1, <2>4, <3>1, <3>2, <3>3, SameTree DEF RunInv
  <2>5. (F!NoFetch)' = F!NoFetch
    BY DEF F!NoFetch
  <2> QED
    BY <2>1, <2>2, <2>3, <2>4, <2>5 DEF FetchInv
<1> QED
  BY <1>1, <1>2, <1>3, <1>4, <1>5, <1>6, <1>7, <1>8, <1>9, <1>10 DEF F!FetchNext

\* The invariant gives the types of the fetch, ...
LEMMA FetchTyped == FetchInv => F!FetchTypeOK
<1> SUFFICES ASSUME FetchInv PROVE F!FetchTypeOK
  OBVIOUS
<1>1. FetchForm
  BY DEF FetchInv
<1>2. /\ fetch.pins \subseteq F!Pins
      /\ \A n \in DOMAIN fetch.merged : /\ fetch.merged[n] \in F!Pins
                                        /\ fetch.merged[n].package = n
  <2>1. CASE fetch.pc = "rest"
    BY <2>1, NoFetchForm DEF FetchInv
  <2>2. CASE fetch.pc # "rest"
    BY <2>2 DEF FetchInv, RunInv, Consistent, MergedInv
  <2> QED
    BY <2>1, <2>2
<1> QED
  BY <1>1, <1>2 DEF FetchForm, F!FetchTypeOK

\* ... that the lock file is what the fetched directories need of others, ...
LEMMA FetchIsLocked == FetchInv => FetchPins
<1> SUFFICES ASSUME FetchInv, fetch.pc \in {"clear", "write"}
             PROVE  /\ \A pin \in lock[fetch.root] : pin.package \notin F!Siblings
                    /\ \A need \in F!NeedsOf(fetch.dirs) :
                         need.package \notin F!Siblings =>
                           \E pin \in lock[fetch.root], other \in F!NeedsOf(fetch.dirs) :
                             /\ pin.package = need.package /\ other.package = need.package
                             /\ pin.requirement = other.version
                             /\ (\A o \in F!NeedsOf(fetch.dirs) :
                                   o.package = need.package => o = need) => other = need
  BY DEF FetchPins, F!FetchPins
<1>1. F!Siblings = SiblingsOf(fetch.root)
  BY DEF F!Siblings, SiblingsOf
<1>2. RunInv
  BY DEF FetchInv
<1>3. fetch.resolved = fetch.dirs /\ lock[fetch.root] = F!Merged /\ MergedInv
  BY <1>2 DEF RunInv
<1>4. \A pin \in lock[fetch.root] : pin.package \notin F!Siblings
  BY <1>1, <1>2, <1>3, MergedPins
<1>5. ASSUME NEW need \in F!NeedsOf(fetch.dirs), need.package \notin F!Siblings
      PROVE  \E pin \in lock[fetch.root], other \in F!NeedsOf(fetch.dirs) :
               /\ pin.package = need.package /\ other.package = need.package
               /\ pin.requirement = other.version
               /\ (\A o \in F!NeedsOf(fetch.dirs) :
                     o.package = need.package => o = need) => other = need
  <2>1. need.package \in DOMAIN fetch.merged
    BY <1>1, <1>3, <1>5 DEF MergedInv
  <2>2. PICK pin : pin = fetch.merged[need.package]
    OBVIOUS
  <2>3. pin \in lock[fetch.root] /\ pin.package = need.package
    BY <1>3, <2>1, <2>2 DEF MergedInv, F!Merged
  <2>4. PICK other \in F!NeedsOf(fetch.dirs) :
          other.package = need.package /\ other.version = pin.requirement
    BY <1>3, <2>1, <2>2 DEF MergedInv
  <2> QED
    BY <2>3, <2>4
<1> QED
  BY <1>4, <1>5

\* ... and that the deps directory holds what is in the lock file.
LEMMA FetchIsUnpacked == FetchInv => DepsMatchLock
BY DEF FetchInv, DepsMatchLock, F!DepsMatchLock

\* Only the lock file and the deps directory of the fetch's own workspace change.
LEMMA FetchTouches ==
  ASSUME FetchInv, [F!FetchNext]_fetchState, fetch.pc # "rest",
         NEW d \in F!Dirs(tree), lock'[d] # lock[d] \/ deps'[d] # deps[d]
  PROVE  d = F!FindManifest(tree, fetch.cwd)
<1>1. F!FetchNext
  BY DEF fetchState
<1>2. FetchForm /\ RunInv
  BY DEF FetchInv
<1>3. CASE UNCHANGED <<lock, deps>>
  BY <1>3
<1>4. CASE F!Commit
  BY <1>2, <1>4 DEF F!Commit, FetchForm, RunInv
<1>5. CASE F!Clear
  BY <1>2, <1>5 DEF F!Clear, FetchForm, RunInv
<1>6. CASE F!WriteWasm \/ F!PrintWit
  <2>1. PICK release : F!Put(release)
    BY <1>6 DEF F!WriteWasm, F!PrintWit
  <2> QED
    BY <1>2, <2>1 DEF F!Put, FetchForm, RunInv
<1>7. CASE \E cwd \in F!Dirs(tree) : F!Start(cwd)
  BY <1>7 DEF F!Start
<1>8. CASE \/ \E m \in DOMAIN Wit : F!BuildMember(Wit[m]) \/ F!ResolveDir(m)
           \/ F!Finish \/ F!FailFetch \/ F!Release
  BY <1>3, <1>8 DEF F!BuildMember, F!ResolveDir, F!Finish, F!FailFetch, F!Release
<1> QED
  BY <1>1, <1>4, <1>5, <1>6, <1>7, <1>8 DEF F!FetchNext

\* A pin under whose requirement all need the package is in the lock file that is written.
LEMMA SharedKept ==
  ASSUME FetchInv, [F!FetchNext]_fetchState, NEW d \in F!Dirs(tree),
         lock[d] # None, lock'[d] # lock[d], NEW pin \in lock[d],
         fetch.dirs \cup F!WorkspaceMembers(tree, d) # {},
         \A e \in fetch.dirs \cup F!WorkspaceMembers(tree, d) :
           {need.version : need \in {need \in Wit[e].needs : need.package = pin.package}}
             = {pin.requirement}
  PROVE  pin \in lock'[d]
<1>1. F!FetchNext
  BY DEF fetchState
<1>2. FetchForm
  BY DEF FetchInv
<1>3. CASE F!Commit
  <2>1. /\ fetch.pc = "build" /\ fetch.resolved = fetch.dirs
        /\ lock' = [lock EXCEPT ![fetch.root] = F!Merged]
    BY <1>3 DEF F!Commit
  <2>2. RunInv
    BY <2>1 DEF FetchInv
  <2>3. d = fetch.root /\ lock'[d] = F!Merged
    BY <1>2, <2>1 DEF FetchForm
  <2>4. Shared(pin)
    BY <2>3 DEF Shared
  <2>5. fetch.resolved # {}
    BY <2>1, <2>2, <2>3 DEF RunInv
  <2>6. pin.package \in DOMAIN fetch.merged /\ fetch.merged[pin.package] = pin
    BY <2>1, <2>2, <2>3, <2>4, <2>5 DEF RunInv
  <2> QED
    BY <2>3, <2>6 DEF F!Merged
<1>4. CASE \E cwd \in F!Dirs(tree) : F!Start(cwd)
  <2>1. PICK root \in F!Dirs(tree) :
          \/ lock' = lock
          \/ lock' = [lock EXCEPT ![root] = IF lock[root] = None THEN {} ELSE lock[root]]
    BY <1>4 DEF F!Start
  <2>2. lock'[d] = lock[d]
    BY <1>2, <2>1 DEF FetchForm
  <2> QED
    BY <2>2
<1>5. CASE UNCHANGED lock
  BY <1>5
<1>6. CASE F!WriteWasm \/ F!PrintWit
  BY <1>5, <1>6 DEF F!WriteWasm, F!PrintWit, F!Put
<1>7. CASE \/ \E m \in DOMAIN Wit : F!BuildMember(Wit[m]) \/ F!ResolveDir(m)
           \/ F!Clear \/ F!Finish \/ F!FailFetch \/ F!Release
  BY <1>5, <1>7 DEF F!BuildMember, F!ResolveDir, F!Clear, F!Finish, F!FailFetch, F!Release
<1> QED
  BY <1>1, <1>3, <1>4, <1>6, <1>7 DEF F!FetchNext

\* The part starts as it does by itself, ...
LEMMA FetchStarts == Init => F!FetchInit
BY DEF Init

\* ... and a step is one of the part, or the part stutters.
LEMMA FetchPart == [Next]_vars => [F!FetchNext]_fetchState
BY DEF Next, vars, fetchState

\* The invariant holds of every behaviour.
LEMMA FetchAlways == Spec => []FetchInv
<1>1. Init => FetchInv
  BY FetchStarts, FetchInvInit
<1>2. FetchInv /\ [Next]_vars => FetchInv'
  BY FetchPart, FetchInvStep
<1> QED
  BY <1>1, <1>2, PTL DEF Spec

\* Whatever is released meanwhile and wherever a fetch fails, the lock file that it has
\* written pins each package of others that a fetched directory needs, and no member
\* (run_workspace_fetch).
THEOREM LockedAsNeeded == Spec => []FetchPins
<1> QED
  BY FetchAlways, FetchIsLocked, PTL

\* After a fetch that ended well the deps directory is what the lock file says, until the
\* next one has written the lock file (populate_dependencies_workspace).
THEOREM UnpackedAsLocked == Spec => []DepsMatchLock
<1> QED
  BY FetchAlways, FetchIsUnpacked, PTL

\* A fetch writes into the workspace of the nearest manifest (Manifest::load_root_workspace).
THEOREM OthersStay == Spec => OwnWorkspace
<1> DEFINE Own ==
      \A d \in F!Dirs(tree) :
        fetch.pc # "rest" /\ (lock'[d] # lock[d] \/ deps'[d] # deps[d]) =>
          d = F!FindManifest(tree, fetch.cwd)
<1>1. FetchInv /\ [Next]_vars => [Own]_(F!fetchVars)
  BY FetchPart, FetchTouches DEF F!fetchVars
<1>2. OwnWorkspace <=> [][Own]_(F!fetchVars)
  BY PTL DEF OwnWorkspace, F!OwnWorkspace
<1> QED
  BY FetchAlways, <1>1, <1>2, PTL DEF Spec

\* What is pinned under the one requirement that all have stays, however much is released:
\* the pins pass through all members and all directories (PublishVerifier::try_new,
\* DependencyResolver::resolve).
THEOREM AllNeedItStays == Spec => SharedPinsStay
<1> DEFINE Stay ==
      \A d \in F!Dirs(tree) : lock[d] # None /\ lock'[d] # lock[d] =>
        LET users == fetch.dirs \cup F!WorkspaceMembers(tree, d)
        IN  \A pin \in lock[d] :
              /\ users # {}
              /\ \A e \in users :
                   {need.version : need \in {need \in Wit[e].needs : need.package = pin.package}}
                     = {pin.requirement}
              => pin \in lock'[d]
<1>1. FetchInv /\ [Next]_vars => [Stay]_(F!fetchVars)
  BY FetchPart, SharedKept DEF F!fetchVars
<1>2. SharedPinsStay <=> [][Stay]_(F!fetchVars)
  BY PTL DEF SharedPinsStay, F!SharedPinsStay
<1> QED
  BY FetchAlways, <1>1, <1>2, PTL DEF Spec

-----------------------------------------------------------------------------
\* What visit follows from each dependency, and its calls
Need == [d \in Dependency |-> D!Follows(d)]
Frame == [dep : Dependency, todo : SUBSET Dependency]

\* The calls are a path of needs, and on is where it has been.  The first call is not
\* among those, and may be on the path again; no other one is on it twice.  A need that a
\* call no longer has to look at is in the order or the next call.
IsPath(need, path, on, done) ==
  /\ on = {path[i].dep : i \in 2 .. Len(path)}
  /\ \A i, j \in 2 .. Len(path) : path[i].dep = path[j].dep => i = j
  /\ \A i \in 1 .. Len(path) :
       /\ path[i].dep \notin done
       /\ path[i].todo \subseteq need[path[i].dep]
       /\ \A e \in need[path[i].dep] :
            e \in path[i].todo \cup done \/ (i < Len(path) /\ e = path[i + 1].dep)
       /\ i < Len(path) => path[i + 1].dep \in need[path[i].dep]

\* The order has each dependency once, ...
Once(sorted) == \A i, j \in 1 .. Len(sorted) : sorted[i] = sorted[j] => i = j

\* ... after its needs, as far as those have not been merged.
After(need, sorted, gone) ==
  \A i \in 1 .. Len(sorted) : \A e \in need[sorted[i]] :
    e \in gone \/ \E j \in 1 .. Len(sorted) : j < i /\ sorted[j] = e

Circle(need) ==
  \E circle \in (SUBSET Dependency) \ {{}} : \A d \in circle : need[d] \cap circle # {}

Missing ==
  \/ \E d \in Dependency : kind[d] = "wit" /\ ~(needs[d] \subseteq Dependency)
  \/ ~(rootNeeds \subseteq Dependency)

\* Every dependency is still to be merged, or in the resolve; and what is in the resolve was
\* brought by one that is no longer to be merged.
BroughtInv ==
  /\ \A d \in Dependency : d \in D!Ordered \cup merged
  /\ \A x \in merged : \E d \in Dependency \ D!Ordered : x \in D!Brings(d)

\* The one that does not match brings what another one has brought.
Mismatch == \E d \in Dependency \ D!Ordered : D!Brings(d) \cap D!Inside(Head(order)) # {}

\* The invariant: what visit and generate_resolve work on, ...
MapInv ==
  /\ kind \in [Dependency -> {"wit", "wasm"}]
  /\ needs \in [Dependency -> SUBSET (Dependency \cup {Foreign})]
  /\ stack \in Seq(Frame)
  /\ order \in Seq(Dependency)
  /\ visiting \subseteq Dependency

\* ... and where they are.
DecodeInv ==
  /\ MapInv
  /\ phase \in {"decode", "sort", "merge", "done"}
               \cup {"unreadable", "failed", "mismatched", "rejected"}
  /\ phase = "decode" => stack = <<>> /\ order = <<>> /\ visiting = {} /\ merged = {}
  /\ phase = "sort" =>
       /\ IsPath(Need, stack, visiting, D!Ordered)
       /\ Once(order) /\ After(Need, order, {}) /\ merged = {}
  /\ phase = "merge" =>
       Once(order) /\ After(Need, order, merged) /\ visiting = {} /\ BroughtInv
  /\ phase = "failed" => Circle(Need) \/ Missing
  /\ phase = "mismatched" => Mismatch

-----------------------------------------------------------------------------
(* Paths *)

Needs == [Dependency -> SUBSET Dependency]

\* visit is called for a dependency that is not in the order.
LEMMA PathStart ==
  ASSUME NEW need \in Needs, NEW done, NEW d \in Dependency, d \notin done
  PROVE  IsPath(need, <<[dep |-> d, todo |-> need[d]]>>, {}, done)
BY DEF IsPath, Needs

\* A need that is in the order is passed over.
LEMMA PathSkip ==
  ASSUME NEW need \in Needs, NEW path \in Seq(Frame), NEW on, NEW done, path # <<>>,
         IsPath(need, path, on, done), NEW n \in path[Len(path)].todo, n \in done
  PROVE  LET rest == [path EXCEPT ![Len(path)].todo = @ \ {n}]
         IN  rest \in Seq(Frame) /\ IsPath(need, rest, on, done)
<1> DEFINE m == Len(path)
           rest == [path EXCEPT ![m].todo = @ \ {n}]
<1>1. m \in Nat /\ m > 0 /\ path \in [1 .. m -> Frame]
  OBVIOUS
<1>2. rest \in Seq(Frame) /\ Len(rest) = m
  BY <1>1 DEF Frame
<1>3. \A i \in 1 .. m : rest[i].dep = path[i].dep
  BY <1>1 DEF Frame
<1>4. \A i \in 1 .. m : rest[i].todo = IF i = m THEN path[i].todo \ {n} ELSE path[i].todo
  BY <1>1 DEF Frame
<1> QED
  BY <1>1, <1>2, <1>3, <1>4 DEF IsPath

\* A need that is neither in the order nor being visited is visited.
LEMMA PathGrow ==
  ASSUME NEW need \in Needs, NEW path \in Seq(Frame), NEW on, NEW done, path # <<>>,
         IsPath(need, path, on, done), NEW n \in path[Len(path)].todo,
         n \notin done, n \notin on
  PROVE  LET rest == [path EXCEPT ![Len(path)].todo = @ \ {n}]
             more == Append(rest, [dep |-> n, todo |-> need[n]])
         IN  more \in Seq(Frame) /\ IsPath(need, more, on \cup {n}, done)
<1> DEFINE m == Len(path)
           rest == [path EXCEPT ![m].todo = @ \ {n}]
           more == Append(rest, [dep |-> n, todo |-> need[n]])
<1>1. m \in Nat /\ m > 0 /\ path \in [1 .. m -> Frame]
  OBVIOUS
<1>2. rest \in Seq(Frame) /\ Len(rest) = m
  BY <1>1 DEF Frame
<1>3. n \in Dependency /\ need[n] \subseteq Dependency /\ [dep |-> n, todo |-> need[n]] \in Frame
  BY <1>1 DEF Frame, Needs
<1>4. more \in Seq(Frame) /\ Len(more) = m + 1
  BY <1>2, <1>3
<1>5. \A i \in 1 .. m : more[i] = rest[i]
  BY <1>2
<1>6. more[m + 1] = [dep |-> n, todo |-> need[n]]
  <2> HIDE DEF rest, m
  <2> QED
    BY <1>2, <1>3
<1>7. \A i \in 1 .. m : more[i].dep = path[i].dep
  BY <1>1, <1>5 DEF Frame
<1>8. \A i \in 1 .. m : more[i].todo = IF i = m THEN path[i].todo \ {n} ELSE path[i].todo
  BY <1>1, <1>5 DEF Frame
<1> HIDE DEF more, rest
<1>9. on \cup {n} = {more[i].dep : i \in 2 .. Len(more)}
  <2>1. on = {path[i].dep : i \in 2 .. m}
    BY DEF IsPath
  <2> HIDE DEF m
  <2>2. \A i \in 2 .. m : i \in 1 .. m /\ i \in 2 .. (m + 1)
    BY <1>1
  <2>3. m + 1 \in 2 .. (m + 1) /\ \A i \in 2 .. (m + 1) : i = m + 1 \/ i \in 2 .. m
    BY <1>1
  <2>4. \A i \in 2 .. m : more[i].dep = path[i].dep
    BY <1>7, <2>2
  <2>5. more[m + 1].dep = n
    BY <1>6
  <2>6. {more[i].dep : i \in 2 .. (m + 1)} = {path[i].dep : i \in 2 .. m} \cup {n}
    BY <2>2, <2>3, <2>4, <2>5
  <2> QED
    BY <1>4, <2>1, <2>6
<1>10. ASSUME NEW i \in 2 .. Len(more), NEW j \in 2 .. Len(more), more[i].dep = more[j].dep
       PROVE  i = j
  BY <1>1, <1>4, <1>6, <1>7, <1>10 DEF IsPath
<1>11. ASSUME NEW i \in 1 .. Len(more)
       PROVE  /\ more[i].dep \notin done
              /\ more[i].todo \subseteq need[more[i].dep]
              /\ \A e \in need[more[i].dep] :
                   e \in more[i].todo \cup done \/ (i < Len(more) /\ e = more[i + 1].dep)
              /\ i < Len(more) => more[i + 1].dep \in need[more[i].dep]
  <2>0. m \in Nat /\ Len(more) = m + 1 /\ (i = m + 1 \/ i = m \/ i \in 1 .. (m - 1))
    <3>1. m \in Nat /\ Len(more) = m + 1
      BY <1>1, <1>4
    <3> HIDE DEF m
    <3> QED
      BY <3>1
  <2>1. CASE i = m + 1
    BY <2>1, <1>4, <1>6
  <2>2. CASE i = m
    <3>1. /\ path[m].dep \notin done /\ path[m].todo \subseteq need[path[m].dep]
          /\ \A e \in need[path[m].dep] : e \in path[m].todo \cup done
      BY <1>1 DEF IsPath
    <3>2. m \in 1 .. m /\ m < m + 1
      BY <1>1
    <3>3. more[i].dep = path[m].dep /\ more[i].todo = path[m].todo \ {n}
      BY <2>2, <3>2, <1>7, <1>8
    <3>4. i < Len(more) /\ more[i + 1].dep = n
      BY <2>2, <2>0, <3>2, <1>6
    <3>5. more[i + 1].dep \in need[more[i].dep]
      BY <3>1, <3>3, <3>4
    <3>6. more[i].todo \subseteq need[more[i].dep] /\ more[i].dep \notin done
      BY <3>1, <3>3
    <3>7. \A e \in need[more[i].dep] : e \in more[i].todo \cup done \/ e = more[i + 1].dep
      <4> HIDE DEF m
      <4> QED
        BY <3>1, <3>3, <3>4
    <3> QED
      BY <3>4, <3>5, <3>6, <3>7
  <2>3. CASE i \in 1 .. (m - 1)
    <3>1. i \in 1 .. m /\ i + 1 \in 1 .. m /\ i < m /\ i # m
      <4> HIDE DEF m
      <4> QED
        BY <2>3, <1>1
    <3>2. /\ path[i].dep \notin done /\ path[i].todo \subseteq need[path[i].dep]
          /\ \A e \in need[path[i].dep] : e \in path[i].todo \cup done \/ e = path[i + 1].dep
          /\ path[i + 1].dep \in need[path[i].dep]
      BY <3>1 DEF IsPath
    <3>3. /\ more[i].dep = path[i].dep /\ more[i].todo = path[i].todo
          /\ more[i + 1].dep = path[i + 1].dep
      BY <3>1, <1>7, <1>8
    <3>4. i < Len(more)
      BY <3>1, <2>0
    <3> HIDE DEF m
    <3> QED
      BY <3>2, <3>3, <3>4
  <2> QED
    BY <2>0, <2>1, <2>2, <2>3
<1> QED
  BY <1>4, <1>9, <1>10, <1>11 DEF IsPath, more, rest

\* A need that is being visited closes a circle.
LEMMA PathCircle ==
  ASSUME NEW need \in Needs, NEW path \in Seq(Frame), NEW on, NEW done, path # <<>>,
         IsPath(need, path, on, done), NEW n \in path[Len(path)].todo, n \in on
  PROVE  Circle(need)
<1> DEFINE m == Len(path)
<1>1. m \in Nat /\ m > 0 /\ path \in [1 .. m -> Frame]
  OBVIOUS
<1>2. PICK k \in 2 .. m : path[k].dep = n
  BY DEF IsPath
<1> DEFINE circle == {path[i].dep : i \in k .. m}
<1>3. circle \in (SUBSET Dependency) \ {{}} /\ n \in circle
  <2>1. \A i \in 1 .. m : path[i].dep \in Dependency
    BY <1>1 DEF Frame
  <2>2. k \in k .. m /\ \A i \in k .. m : i \in 1 .. m
    BY <1>1, <1>2
  <2> HIDE DEF m
  <2>3. n \in circle
    BY <2>2, <1>2
  <2>4. circle \subseteq Dependency
    BY <2>1, <2>2
  <2> HIDE DEF circle
  <2> QED
    BY <2>3, <2>4
<1>4. ASSUME NEW i \in k .. m
      PROVE  need[path[i].dep] \cap circle # {}
  <2>1. CASE i = m
    <3>1. n \in need[path[m].dep]
      BY <1>1 DEF IsPath
    <3> QED
      BY <3>1, <2>1, <1>3
  <2>2. CASE i < m
    <3>1. path[i + 1].dep \in circle
      BY <2>2, <1>1
    <3>2. path[i + 1].dep \in need[path[i].dep]
      BY <2>2, <1>1 DEF IsPath
    <3> QED
      BY <3>1, <3>2
  <2>3. i = m \/ i < m
    <3> HIDE DEF m
    <3> QED
      BY <1>1, <1>2
  <2> QED
    BY <2>1, <2>2, <2>3
<1>5. \A d \in circle : need[d] \cap circle # {}
  BY <1>4
<1> HIDE DEF circle
<1> QED
  BY <1>3, <1>5 DEF Circle

\* A call that has looked at all its needs has them in the order, and returns.
LEMMA PathReturn ==
  ASSUME NEW need \in Needs, NEW path \in Seq(Frame), NEW on, NEW done, path # <<>>,
         IsPath(need, path, on, done), path[Len(path)].todo = {}
  PROVE  LET top == path[Len(path)].dep
             rest == SubSeq(path, 1, Len(path) - 1)
         IN  /\ top \in Dependency /\ top \notin done /\ need[top] \subseteq done
             /\ rest \in Seq(Frame) /\ IsPath(need, rest, on \ {top}, done \cup {top})
<1> DEFINE m == Len(path)
           top == path[m].dep
           rest == SubSeq(path, 1, m - 1)
<1>1. m \in Nat /\ m > 0 /\ path \in [1 .. m -> Frame]
  OBVIOUS
<1>2. top \in Dependency /\ top \notin done /\ need[top] \subseteq done
  BY <1>1 DEF Frame, IsPath
<1>3. rest \in Seq(Frame) /\ Len(rest) = m - 1 /\ \A i \in 1 .. m - 1 : rest[i] = path[i]
  BY <1>1
<1>4. \A i \in 1 .. m - 1 : path[i].dep # top
  <2> SUFFICES ASSUME NEW i \in 1 .. m - 1, path[i].dep = top
               PROVE  FALSE
    OBVIOUS
  <2>1. CASE i >= 2
    BY <2>1, <1>1 DEF IsPath
  <2>2. CASE i = 1
    <3>1. path[2].dep \in need[top]
      BY <2>2, <1>1 DEF IsPath
    <3>2. path[2].dep \notin done
      BY <2>2, <1>1 DEF IsPath
    <3> QED
      BY <3>1, <3>2, <1>2
  <2> QED
    BY <2>1, <2>2, <1>1
<1> HIDE DEF rest, top
<1>5. on \ {top} = {rest[i].dep : i \in 2 .. Len(rest)}
  <2>1. on = {path[i].dep : i \in 2 .. m}
    BY DEF IsPath
  <2>2. on \ {top} = {path[i].dep : i \in 2 .. m - 1}
    BY <2>1, <1>1, <1>4 DEF top
  <2> QED
    BY <2>2, <1>3
<1>6. ASSUME NEW i \in 2 .. Len(rest), NEW j \in 2 .. Len(rest), rest[i].dep = rest[j].dep
      PROVE  i = j
  BY <1>1, <1>3, <1>6 DEF IsPath
<1>7. ASSUME NEW i \in 1 .. Len(rest)
      PROVE  /\ rest[i].dep \notin done \cup {top}
             /\ rest[i].todo \subseteq need[rest[i].dep]
             /\ \A e \in need[rest[i].dep] :
                  \/ e \in rest[i].todo \cup done \cup {top}
                  \/ i < Len(rest) /\ e = rest[i + 1].dep
             /\ i < Len(rest) => rest[i + 1].dep \in need[rest[i].dep]
  <2>1. i \in 1 .. m /\ i < m /\ rest[i] = path[i]
    BY <1>1, <1>3
  <2>2. i < Len(rest) => rest[i + 1] = path[i + 1]
    BY <1>1, <1>3
  <2>3. i = Len(rest) => path[i + 1].dep = top
    BY <1>1, <1>3 DEF top
  <2>4. /\ path[i].dep \notin done /\ path[i].todo \subseteq need[path[i].dep]
        /\ \A e \in need[path[i].dep] : e \in path[i].todo \cup done \/ e = path[i + 1].dep
        /\ path[i + 1].dep \in need[path[i].dep]
    BY <2>1 DEF IsPath
  <2>5. path[i].dep # top
    BY <2>1, <1>4, <1>1
  <2>6. i < Len(rest) \/ i = Len(rest)
    <3>1. Len(rest) \in Nat
      BY <1>3
    <3> QED
      BY <3>1
  <2> QED
    BY <2>1, <2>2, <2>3, <2>4, <2>5, <2>6
<1> QED
  BY <1>2, <1>3, <1>5, <1>6, <1>7 DEF IsPath, rest, top

-----------------------------------------------------------------------------
(* The order *)

\* What is put into the order after its needs leaves it in order.
LEMMA OrderGrow ==
  ASSUME NEW need \in Needs, NEW sorted \in Seq(Dependency), NEW top \in Dependency,
         Once(sorted), After(need, sorted, {}),
         top \notin D!ToSet(sorted), need[top] \subseteq D!ToSet(sorted)
  PROVE  LET more == Append(sorted, top)
         IN  /\ more \in Seq(Dependency) /\ Once(more) /\ After(need, more, {})
             /\ D!ToSet(more) = D!ToSet(sorted) \cup {top}
<1> DEFINE m == Len(sorted)
           more == Append(sorted, top)
<1>1. /\ m \in Nat /\ more \in Seq(Dependency) /\ Len(more) = m + 1
      /\ \A i \in 1 .. m : more[i] = sorted[i]
      /\ more[m + 1] = top
  OBVIOUS
<1>2. D!ToSet(sorted) = {sorted[i] : i \in 1 .. m}
  BY DEF D!ToSet
<1>3. D!ToSet(more) = {more[i] : i \in 1 .. m + 1}
  BY <1>1 DEF D!ToSet
<1> HIDE DEF more, m
<1>4. D!ToSet(more) = D!ToSet(sorted) \cup {top}
  BY <1>1, <1>2, <1>3
<1>5. Once(more)
  <2> SUFFICES ASSUME NEW i \in 1 .. m + 1, NEW j \in 1 .. m + 1, more[i] = more[j]
               PROVE  i = j
    BY <1>1 DEF Once
  <2>1. \A k \in 1 .. m : sorted[k] # top
    BY <1>2
  <2> QED
    BY <1>1, <2>1 DEF Once, m
<1>6. After(need, more, {})
  <2> SUFFICES ASSUME NEW i \in 1 .. m + 1, NEW e \in need[more[i]]
               PROVE  \E j \in 1 .. m + 1 : j < i /\ more[j] = e
    BY <1>1 DEF After
  <2>1. CASE i = m + 1
    BY <2>1, <1>1, <1>2
  <2>2. CASE i \in 1 .. m
    <3>1. PICK j \in 1 .. m : j < i /\ sorted[j] = e
      BY <2>2, <1>1 DEF After, m
    <3> QED
      BY <3>1, <1>1
  <2> QED
    BY <2>1, <2>2, <1>1
<1> QED
  BY <1>1, <1>4, <1>5, <1>6 DEF more

\* What is merged first needs only what has been merged, and the rest stays in order.
LEMMA OrderTake ==
  ASSUME NEW need \in Needs, NEW sorted \in Seq(Dependency), NEW gone, sorted # <<>>,
         Once(sorted), After(need, sorted, gone)
  PROVE  /\ Head(sorted) \in Dependency /\ need[Head(sorted)] \subseteq gone
         /\ Tail(sorted) \in Seq(Dependency) /\ Once(Tail(sorted))
         /\ \A more : gone \subseteq more /\ Head(sorted) \in more
                      => After(need, Tail(sorted), more)
<1> DEFINE m == Len(sorted)
           rest == Tail(sorted)
<1>1. /\ m \in Nat /\ m > 0 /\ rest \in Seq(Dependency) /\ Len(rest) = m - 1
      /\ \A i \in 1 .. m - 1 : rest[i] = sorted[i + 1]
      /\ Head(sorted) = sorted[1] /\ sorted[1] \in Dependency
  OBVIOUS
<1> HIDE DEF rest
<1>2. need[sorted[1]] \subseteq gone
  BY <1>1 DEF After
<1>3. Once(rest)
  <2> SUFFICES ASSUME NEW i \in 1 .. m - 1, NEW j \in 1 .. m - 1, rest[i] = rest[j]
               PROVE  i = j
    BY <1>1 DEF Once
  <2>1. i + 1 \in 1 .. m /\ j + 1 \in 1 .. m /\ sorted[i + 1] = sorted[j + 1]
    BY <1>1
  <2>2. i + 1 = j + 1
    BY <2>1 DEF Once
  <2> QED
    BY <2>2
<1>4. ASSUME NEW more, gone \subseteq more, sorted[1] \in more
      PROVE  After(need, rest, more)
  <2> SUFFICES ASSUME NEW i \in 1 .. m - 1, NEW e \in need[rest[i]]
               PROVE  e \in more \/ \E j \in 1 .. m - 1 : j < i /\ rest[j] = e
    BY <1>1 DEF After
  <2>1. i + 1 \in 1 .. m /\ e \in need[sorted[i + 1]]
    BY <1>1
  <2>2. CASE e \in gone
    BY <2>2, <1>4
  <2>3. CASE \E j \in 1 .. m : j < i + 1 /\ sorted[j] = e
    <3>1. PICK j \in 1 .. m : j < i + 1 /\ sorted[j] = e
      BY <2>3
    <3>2. CASE j = 1
      BY <3>1, <3>2, <1>4
    <3>3. CASE j > 1
      <4>1. j - 1 \in 1 .. m - 1 /\ j - 1 < i /\ rest[j - 1] = e
        BY <3>1, <3>3, <1>1
      <4> QED
        BY <4>1
    <3> QED
      BY <3>2, <3>3
  <2> QED
    BY <2>1, <2>2, <2>3 DEF After
<1> QED
  BY <1>1, <1>2, <1>3, <1>4 DEF rest

\* An order that has every dependency once is as long as there are dependencies.
LEMMA OrderLength ==
  ASSUME NEW sorted \in Seq(Dependency), Once(sorted), D!ToSet(sorted) = Dependency
  PROVE  Len(sorted) = D!Cardinality(Dependency)
<1>1. sorted \in Bijection(1 .. Len(sorted), Dependency)
  <2>1. sorted \in [1 .. Len(sorted) -> Dependency] /\ DOMAIN sorted = 1 .. Len(sorted)
    OBVIOUS
  <2>2. sorted \in Injection(1 .. Len(sorted), Dependency)
    BY <2>1 DEF Injection, IsInjective, Once
  <2>3. \A d \in Dependency : \E i \in 1 .. Len(sorted) : sorted[i] = d
    BY <2>1 DEF D!ToSet
  <2> QED
    BY <2>1, <2>2, <2>3 DEF Bijection, Surjection
<1>2. Len(sorted) = Cardinality(Dependency)
  BY <1>1, FS_CountingElements DEF ExistsBijection
<1>3. D!Cardinality(Dependency) = Cardinality(Dependency)
  BY Zenon DEF D!Cardinality, Cardinality
<1> QED
  BY <1>2, <1>3

-----------------------------------------------------------------------------
(* The steps *)

\* The needs that visit follows are dependencies.
LEMMA NeedsFollowed == MapInv => Need \in Needs
BY DEF MapInv, Need, Needs, D!Follows, D!Call

\* What visit is called with for a dependency is all its needs.
LEMMA CallNeeds == \A d \in Dependency : D!Call(d) = [dep |-> d, todo |-> Need[d]]
BY DEF Need, D!Follows, D!Call

\* The map of dependencies does not change.
LEMMA SameMap == UNCHANGED <<kind, needs>> => Need' = Need
BY DEF Need, D!Follows, D!Call

\* decode_dependencies starts with nothing visited.
LEMMA DecodeInvInit == D!DecodeInit => DecodeInv
BY DEF D!DecodeInit, DecodeInv, MapInv

\* Decoding starts the sort or ends the part.
LEMMA DecodeKeeps == DecodeInv /\ D!Decode => DecodeInv'
<1> SUFFICES ASSUME DecodeInv, D!Decode
             PROVE  DecodeInv'
  OBVIOUS
<1>1. MapInv' /\ stack' = <<>> /\ order' = <<>> /\ visiting' = {} /\ merged' = {}
  BY DEF DecodeInv, MapInv, D!Decode
<1>2. phase' \in {"sort", "unreadable"}
  BY DEF D!Decode
<1>3. IsPath(Need', <<>>, {}, D!Ordered') /\ Once(<<>>) /\ After(Need', <<>>, {})
  BY DEF IsPath, Once, After
<1> QED
  BY <1>1, <1>2, <1>3 DEF DecodeInv

\* A visit starts a path of one call.
LEMMA VisitKeeps == DecodeInv /\ D!Visit => DecodeInv'
<1> SUFFICES ASSUME DecodeInv, D!Visit
             PROVE  DecodeInv'
  OBVIOUS
<1>1. /\ phase = "sort" /\ stack = <<>> /\ MapInv /\ Need \in Needs
      /\ IsPath(Need, stack, visiting, D!Ordered)
      /\ Once(order) /\ After(Need, order, {}) /\ merged = {}
  BY NeedsFollowed DEF DecodeInv, D!Visit
<1>2. Need' = Need /\ D!Ordered' = D!Ordered
  BY SameMap DEF D!Visit, D!Ordered
<1>3. UNCHANGED <<kind, needs, visiting, order, merged>>
  BY DEF D!Visit
<1>4. visiting = {}
  BY <1>1 DEF IsPath
<1>5. PICK d \in Dependency \ D!Ordered : stack' = <<D!Call(d)>> /\ UNCHANGED phase
  BY DEF D!Visit
<1>6. stack' = <<[dep |-> d, todo |-> Need[d]]>>
  BY <1>5, CallNeeds
<1>7. stack' \in Seq(Frame)
  BY <1>6, <1>1 DEF Needs, Frame
<1>8. IsPath(Need, stack', {}, D!Ordered)
  BY <1>5, <1>6, <1>1, PathStart
<1>9. MapInv'
  BY <1>7, <1>1, <1>3 DEF MapInv
<1> QED
  BY <1>5, <1>8, <1>9, <1>1, <1>2, <1>3, <1>4 DEF DecodeInv

\* The order is complete when the directory is parsed.
LEMMA ParseRootKeeps == DecodeInv /\ D!ParseRoot => DecodeInv'
<1> SUFFICES ASSUME DecodeInv, D!ParseRoot
             PROVE  DecodeInv'
  OBVIOUS
<1>1. /\ phase = "sort" /\ stack = <<>> /\ MapInv
      /\ IsPath(Need, stack, visiting, D!Ordered)
      /\ Once(order) /\ After(Need, order, {}) /\ merged = {}
  BY DEF DecodeInv, D!ParseRoot
<1>2. Need' = Need /\ D!Ordered' = D!Ordered /\ D!Ordered = Dependency
  BY SameMap DEF D!ParseRoot, D!Ordered
<1>3. UNCHANGED <<kind, needs, stack, visiting, order, merged>> /\ phase' \in {"merge", "unreadable"}
  BY DEF D!ParseRoot
<1>4. visiting = {}
  BY <1>1 DEF IsPath
<1>5. MapInv'
  BY <1>1, <1>3 DEF MapInv
<1>6. BroughtInv'
  BY <1>1, <1>2, <1>3 DEF BroughtInv
<1> QED
  BY <1>1, <1>2, <1>3, <1>4, <1>5, <1>6 DEF DecodeInv

\* A call that looks at a need lengthens the path, passes over it, or closes a circle.
LEMMA DescendKeeps == DecodeInv /\ D!Descend => DecodeInv'
<1> SUFFICES ASSUME DecodeInv, D!Descend
             PROVE  DecodeInv'
  OBVIOUS
<1>1. /\ phase = "sort" /\ stack # <<>> /\ MapInv /\ Need \in Needs
      /\ IsPath(Need, stack, visiting, D!Ordered)
      /\ Once(order) /\ After(Need, order, {}) /\ merged = {} /\ stack \in Seq(Frame)
  BY NeedsFollowed DEF DecodeInv, D!Descend, MapInv
<1>2. Need' = Need /\ D!Ordered' = D!Ordered
  BY SameMap DEF D!Descend, D!Ordered
<1>3. UNCHANGED <<kind, needs, order, merged>>
  BY DEF D!Descend
<1> DEFINE Rest(n) == [stack EXCEPT ![Len(stack)].todo = @ \ {n}]
<1>4. PICK n \in stack[Len(stack)].todo :
        IF n \in visiting
        THEN phase' = "failed" /\ UNCHANGED <<stack, visiting>>
        ELSE /\ stack' = IF n \in D!Ordered THEN Rest(n) ELSE Append(Rest(n), D!Call(n))
             /\ visiting' = IF n \in D!Ordered THEN visiting ELSE visiting \cup {n}
             /\ UNCHANGED phase
  BY DEF D!Descend, D!Top
<1>5. CASE n \in visiting
  <2>1. Circle(Need)
    BY <1>1, <1>4, <1>5, PathCircle
  <2>2. MapInv' /\ phase' = "failed"
    BY <1>1, <1>3, <1>4, <1>5 DEF MapInv
  <2> QED
    BY <2>1, <2>2, <1>2 DEF DecodeInv, Circle
<1>6. CASE n \notin visiting /\ n \in D!Ordered
  <2>1. stack' = Rest(n) /\ visiting' = visiting /\ phase' = "sort"
    BY <1>1, <1>4, <1>6
  <2>2. stack' \in Seq(Frame) /\ IsPath(Need, stack', visiting, D!Ordered)
    BY <2>1, <1>1, <1>4, <1>6, PathSkip
  <2>3. MapInv'
    BY <2>1, <2>2, <1>1, <1>3 DEF MapInv
  <2> QED
    BY <2>1, <2>2, <2>3, <1>1, <1>2, <1>3 DEF DecodeInv
<1>7. CASE n \notin visiting /\ n \notin D!Ordered
  <2>1. stack' = Append(Rest(n), D!Call(n)) /\ visiting' = visiting \cup {n} /\ phase' = "sort"
    BY <1>1, <1>4, <1>7
  <2>2. n \in Dependency
    <3>1. stack[Len(stack)] \in Frame
      BY <1>1
    <3> QED
      BY <3>1, <1>4 DEF Frame
  <2>3. stack' = Append(Rest(n), [dep |-> n, todo |-> Need[n]])
    BY <2>1, <2>2, CallNeeds
  <2>4. stack' \in Seq(Frame) /\ IsPath(Need, stack', visiting \cup {n}, D!Ordered)
    BY <2>3, <1>1, <1>4, <1>7, PathGrow
  <2>5. MapInv'
    BY <2>1, <2>2, <2>4, <1>1, <1>3 DEF MapInv
  <2> QED
    BY <2>1, <2>4, <2>5, <1>1, <1>2, <1>3 DEF DecodeInv
<1> QED
  BY <1>5, <1>6, <1>7

\* A call that returns puts its dependency behind all that it needs.
LEMMA LeaveKeeps == DecodeInv /\ D!Leave => DecodeInv'
<1> SUFFICES ASSUME DecodeInv, D!Leave
             PROVE  DecodeInv'
  OBVIOUS
<1> DEFINE top == stack[Len(stack)].dep
           rest == SubSeq(stack, 1, Len(stack) - 1)
<1>1. /\ phase = "sort" /\ stack # <<>> /\ MapInv /\ Need \in Needs
      /\ IsPath(Need, stack, visiting, D!Ordered) /\ stack[Len(stack)].todo = {}
      /\ Once(order) /\ After(Need, order, {}) /\ merged = {}
      /\ stack \in Seq(Frame) /\ order \in Seq(Dependency)
  BY NeedsFollowed DEF DecodeInv, D!Leave, D!Top, MapInv
<1>2. /\ order' = Append(order, top) /\ stack' = rest /\ visiting' = visiting \ {top}
      /\ UNCHANGED <<kind, needs, phase, merged>> /\ Need' = Need
  BY SameMap DEF D!Leave, D!Top, D!Front
<1>3. /\ top \in Dependency /\ top \notin D!Ordered /\ Need[top] \subseteq D!Ordered
      /\ rest \in Seq(Frame) /\ IsPath(Need, rest, visiting \ {top}, D!Ordered \cup {top})
  BY <1>1, PathReturn
<1> HIDE DEF top, rest
<1>4. /\ order' \in Seq(Dependency) /\ Once(order') /\ After(Need, order', {})
      /\ D!ToSet(order') = D!Ordered \cup {top}
  BY <1>1, <1>2, <1>3, OrderGrow DEF D!Ordered
<1>5. D!Ordered' = D!Ordered \cup {top}
  BY <1>4 DEF D!Ordered
<1>6. MapInv'
  BY <1>1, <1>2, <1>3, <1>4 DEF MapInv
<1> QED
  BY <1>1, <1>2, <1>3, <1>4, <1>5, <1>6 DEF DecodeInv

\* What a dependency brings has itself in it.
LEMMA BringsItself == \A d \in Dependency : d \in D!Brings(d) /\ d \in D!Inside(d)
BY DEF D!Brings, D!Inside

\* What a dependency brings does not change with the map.
LEMMA BringsSame ==
  UNCHANGED <<kind, needs>> =>
    \A d : (D!Brings(d))' = D!Brings(d) /\ (D!Inside(d))' = D!Inside(d)
BY DEF D!Brings, D!Inside

\* A dependency that is merged leaves the order behind the rest.
LEMMA MergedKeeps ==
  ASSUME DecodeInv, phase = "merge", order # <<>>, D!Merged(Head(order)),
         UNCHANGED <<kind, needs, stack, visiting, rootNeeds>>
  PROVE  DecodeInv'
<1> DEFINE d == Head(order)
<1>1. /\ MapInv /\ Need \in Needs /\ order \in Seq(Dependency)
      /\ Once(order) /\ After(Need, order, merged) /\ visiting = {} /\ BroughtInv
  BY NeedsFollowed DEF DecodeInv, MapInv
<1>2. Need' = Need /\ \A e : (D!Brings(e))' = D!Brings(e)
  BY SameMap, BringsSame
<1>3. /\ d \in Dependency
      /\ Tail(order) \in Seq(Dependency) /\ Once(Tail(order))
      /\ \A more : merged \subseteq more /\ d \in more
                   => After(Need, Tail(order), more)
  BY <1>1, OrderTake
<1>4. merged' = merged \cup D!Brings(d) /\ order' = Tail(order) /\ phase' = "merge"
  BY DEF D!Merged
<1>5. MapInv'
  BY <1>1, <1>3, <1>4 DEF MapInv
<1>6. d \in D!Brings(d)
  BY <1>3, BringsItself
<1>7. After(Need, Tail(order), merged')
  BY <1>3, <1>4, <1>6
<1>8. D!Ordered' = D!Ordered \ {d}
  <2>1. /\ Len(order) \in Nat /\ Len(order) > 0 /\ Len(Tail(order)) = Len(order) - 1
        /\ \A i \in 1 .. Len(order) - 1 : Tail(order)[i] = order[i + 1]
        /\ order[1] = d /\ DOMAIN order = 1 .. Len(order)
        /\ DOMAIN Tail(order) = 1 .. Len(order) - 1
    BY <1>1
  <2>2. \A x : x \in D!Ordered <=> \E i \in 1 .. Len(order) : order[i] = x
    BY <2>1 DEF D!Ordered, D!ToSet
  <2>3. \A x : x \in D!Ordered' <=> \E i \in 1 .. Len(order) - 1 : order[i + 1] = x
    BY <1>4, <2>1 DEF D!Ordered, D!ToSet
  <2>4. \A i \in 2 .. Len(order) : order[i] # d
    BY <1>1, <2>1 DEF Once
  <2>5. ASSUME NEW x, x \in D!Ordered'
        PROVE  x \in D!Ordered \ {d}
    <3>1. PICK i \in 1 .. Len(order) - 1 : order[i + 1] = x
      BY <2>3, <2>5
    <3>2. i + 1 \in 2 .. Len(order) /\ i + 1 \in 1 .. Len(order)
      BY <2>1
    <3> QED
      BY <2>2, <2>4, <3>1, <3>2
  <2>6. ASSUME NEW x, x \in D!Ordered \ {d}
        PROVE  x \in D!Ordered'
    <3>1. PICK i \in 1 .. Len(order) : order[i] = x
      BY <2>2, <2>6
    <3>2. i # 1
      BY <2>1, <2>6, <3>1
    <3>3. i - 1 \in 1 .. Len(order) - 1 /\ (i - 1) + 1 = i
      BY <2>1, <3>2
    <3> QED
      BY <2>3, <3>1, <3>3
  <2> QED
    BY <2>5, <2>6
<1>9. BroughtInv'
  <2>1. ASSUME NEW e \in Dependency
        PROVE  e \in D!Ordered' \cup merged'
    BY <1>1, <1>4, <1>6, <1>8 DEF BroughtInv
  <2>2. ASSUME NEW x \in merged'
        PROVE  \E e \in Dependency \ D!Ordered' : x \in D!Brings(e)
    <3>1. CASE x \in merged
      BY <1>1, <1>8, <3>1 DEF BroughtInv
    <3>2. CASE x \in D!Brings(d)
      BY <1>3, <1>8, <3>2
    <3> QED
      BY <1>4, <3>1, <3>2
  <2> QED
    BY <1>2, <2>1, <2>2 DEF BroughtInv
<1> QED
  BY <1>1, <1>2, <1>3, <1>4, <1>5, <1>7, <1>9 DEF DecodeInv

\* A text has all dependencies it needs before it: it only lacks what is none.
LEMMA MergeTextKeeps == DecodeInv /\ D!MergeText => DecodeInv'
<1> SUFFICES ASSUME DecodeInv, D!MergeText
             PROVE  DecodeInv'
  OBVIOUS
<1> DEFINE d == Head(order)
<1>1. /\ phase = "merge" /\ order # <<>> /\ kind[d] = "wit"
      /\ UNCHANGED <<kind, needs, stack, visiting, rootNeeds>>
  BY DEF D!MergeText
<1>2. CASE D!Merged(d)
  BY <1>1, <1>2, MergedKeeps
<1>3. CASE D!Ends(IF needs[d] \subseteq merged THEN "rejected" ELSE "failed")
  <2>1. /\ MapInv /\ Need \in Needs /\ order \in Seq(Dependency)
        /\ Once(order) /\ After(Need, order, merged)
    BY <1>1, NeedsFollowed DEF DecodeInv, MapInv
  <2>2. d \in Dependency /\ Need[d] \subseteq merged
    BY <1>1, <2>1, OrderTake
  <2>3. UNCHANGED <<order, merged>>
    BY <1>3 DEF D!Ends
  <2>4. MapInv'
    BY <1>1, <2>1, <2>3 DEF MapInv
  <2>5. CASE needs[d] \subseteq merged
    <3>1. phase' = "rejected"
      BY <1>3, <2>5 DEF D!Ends
    <3> QED
      BY <2>4, <3>1 DEF DecodeInv
  <2>6. CASE ~(needs[d] \subseteq merged)
    <3>1. phase' = "failed"
      BY <1>3, <2>6 DEF D!Ends
    <3>2. needs[d] \cap Dependency \subseteq merged
      BY <1>1, <2>2 DEF Need, D!Follows, D!Call
    <3>3. Missing
      BY <1>1, <2>2, <2>6, <3>2 DEF Missing
    <3>4. Missing'
      BY <1>1, <3>3 DEF Missing
    <3> QED
      BY <2>4, <3>1, <3>4 DEF DecodeInv
  <2> QED
    BY <2>5, <2>6
<1> QED
  BY <1>2, <1>3 DEF D!MergeText

\* A wasm file that does not match brings something that was there.
LEMMA MergeWasmKeeps == DecodeInv /\ D!MergeWasm => DecodeInv'
<1> SUFFICES ASSUME DecodeInv, D!MergeWasm
             PROVE  DecodeInv'
  OBVIOUS
<1> DEFINE d == Head(order)
<1>1. /\ phase = "merge" /\ order # <<>>
      /\ UNCHANGED <<kind, needs, stack, visiting, rootNeeds>>
  BY DEF D!MergeWasm
<1>2. CASE D!Merged(d)
  BY <1>1, <1>2, MergedKeeps
<1>3. CASE D!Inside(d) \cap merged # {} /\ D!Ends("mismatched")
  <2>1. MapInv /\ BroughtInv
    BY <1>1 DEF DecodeInv
  <2>2. phase' = "mismatched" /\ UNCHANGED <<order, merged>>
    BY <1>3 DEF D!Ends
  <2>3. MapInv'
    BY <1>1, <2>1, <2>2 DEF MapInv
  <2>4. Mismatch
    BY <1>3, <2>1 DEF BroughtInv, Mismatch
  <2>5. Mismatch'
    <3>1. D!Ordered' = D!Ordered /\ Head(order)' = Head(order)
      BY <2>2 DEF D!Ordered
    <3>2. \A e : (D!Brings(e))' = D!Brings(e) /\ (D!Inside(e))' = D!Inside(e)
      BY <1>1, BringsSame
    <3>3. (D!Inside(Head(order)))' = D!Inside(Head(order))
      BY <1>1, <2>2 DEF D!Inside
    <3> QED
      BY <2>4, <3>1, <3>2, <3>3 DEF Mismatch
  <2> QED
    BY <2>2, <2>3, <2>5 DEF DecodeInv
<1> QED
  BY <1>2, <1>3 DEF D!MergeWasm

\* The directory's text comes after all dependencies.
LEMMA PushRootKeeps == DecodeInv /\ D!PushRoot => DecodeInv'
<1> SUFFICES ASSUME DecodeInv, D!PushRoot
             PROVE  DecodeInv'
  OBVIOUS
<1>1. /\ phase = "merge" /\ order = <<>> /\ MapInv /\ BroughtInv
      /\ UNCHANGED <<kind, needs, stack, visiting, rootNeeds, order, merged>>
      /\ phase' \in (IF rootNeeds \subseteq merged THEN {"done", "rejected"} ELSE {"failed"})
  BY DEF D!PushRoot, D!Ends, DecodeInv
<1>2. MapInv'
  BY <1>1 DEF MapInv
<1>3. Dependency \subseteq merged
  BY <1>1 DEF BroughtInv, D!Ordered, D!ToSet
<1>4. phase' = "failed" => Missing'
  BY <1>1, <1>3 DEF Missing
<1>5. phase' \in {"done", "rejected", "failed"}
  BY <1>1
<1> QED
  BY <1>2, <1>4, <1>5 DEF DecodeInv

\* Every step keeps the invariant.
LEMMA DecodeInvStep == DecodeInv /\ [D!DecodeNext]_decodeState => DecodeInv'
<1> SUFFICES ASSUME DecodeInv, [D!DecodeNext]_decodeState
             PROVE  DecodeInv'
  OBVIOUS
<1>1. CASE UNCHANGED decodeState
  <2>1. /\ UNCHANGED <<kind, needs, phase, stack, visiting, order, rootNeeds, merged>>
        /\ Need' = Need /\ D!Ordered' = D!Ordered
    BY <1>1, SameMap DEF decodeState, D!Ordered
  <2>2. MapInv' /\ Missing' = Missing
    BY <2>1 DEF DecodeInv, MapInv, Missing
  <2>3. \A d : (D!Brings(d))' = D!Brings(d)
    BY <2>1, BringsSame
  <2>4. (D!Inside(Head(order)))' = D!Inside(Head(order))
    BY <2>1 DEF D!Inside
  <2>5. BroughtInv' = BroughtInv
    BY <2>1, <2>3 DEF BroughtInv
  <2>6. Mismatch' = Mismatch
    BY <2>1, <2>3, <2>4 DEF Mismatch
  <2> QED
    BY <2>1, <2>2, <2>5, <2>6 DEF DecodeInv, Circle
<1> QED
  BY <1>1, DecodeKeeps, VisitKeeps, DescendKeeps, LeaveKeeps, ParseRootKeeps, MergeTextKeeps,
     MergeWasmKeeps, PushRootKeeps DEF D!DecodeNext

\* The invariant gives that a sort that ends is complete and in order, ...
LEMMA SortIsComplete == DecodeInv => SortedByNeeds
<1> SUFFICES ASSUME DecodeInv, phase = "merge", merged = {}
             PROVE  /\ D!Ordered = Dependency /\ Len(order) = D!Cardinality(Dependency)
                    /\ visiting = {}
                    /\ \A i, j \in DOMAIN order :
                         order[j] \in D!Follows(order[i]) => j < i
  BY DEF SortedByNeeds, D!SortedByNeeds
<1>1. /\ Once(order) /\ After(Need, order, {}) /\ visiting = {}
      /\ Dependency \subseteq D!Ordered /\ order \in Seq(Dependency)
  BY DEF DecodeInv, MapInv, BroughtInv
<1>2. D!Ordered = Dependency
  <2>1. \A i \in DOMAIN order : order[i] \in Dependency
    BY <1>1
  <2> QED
    BY <1>1, <2>1 DEF D!Ordered, D!ToSet
<1>3. Len(order) = D!Cardinality(Dependency)
  BY <1>1, <1>2, OrderLength DEF D!Ordered
<1>4. ASSUME NEW i \in DOMAIN order, NEW j \in DOMAIN order, order[j] \in D!Follows(order[i])
      PROVE  j < i
  <2>1. DOMAIN order = 1 .. Len(order) /\ order[i] \in Dependency
    BY <1>1
  <2>2. order[j] \in Need[order[i]]
    BY <1>4, <2>1 DEF Need
  <2>3. PICK k \in 1 .. Len(order) : k < i /\ order[k] = order[j]
    BY <1>1, <2>1, <2>2 DEF After
  <2> QED
    BY <1>1, <2>1, <2>3 DEF Once
<1> QED
  BY <1>1, <1>3, <1>4, <1>2

\* ... and that only a circle, a need that is missing or a second copy makes it fail.
LEMMA OnlyTheMapFails == DecodeInv => MergesWhatItCan
<1> SUFFICES ASSUME DecodeInv
             PROVE  D!MergesWhatItCan
  BY DEF MergesWhatItCan
<1>1. ASSUME phase = "failed", Circle(Need)
      PROVE  \E ring \in (SUBSET Dependency) \ {{}} : \A d \in ring : D!Follows(d) \cap ring # {}
  <2>1. PICK circle \in (SUBSET Dependency) \ {{}} : \A d \in circle : Need[d] \cap circle # {}
    BY <1>1 DEF Circle
  <2>2. \A d \in circle : D!Follows(d) \cap circle # {}
    BY <2>1 DEF Need
  <2> QED
    BY <2>2
<1>2. phase = "failed" => Circle(Need) \/ Missing
  BY DEF DecodeInv
<1>3. phase = "mismatched" => Mismatch
  BY DEF DecodeInv
<1> QED
  BY <1>1, <1>2, <1>3 DEF Missing, Mismatch, D!MergesWhatItCan

\* The invariant gives the types of the sort.
LEMMA DecodeTyped == DecodeInv => D!DecodeTypeOK
<1> SUFFICES ASSUME DecodeInv PROVE D!DecodeTypeOK
  OBVIOUS
<1>1. /\ stack \in Seq(Frame) /\ order \in Seq(Dependency) /\ visiting \subseteq Dependency
      /\ phase \in {"decode", "sort", "merge", "done"}
                   \cup {"unreadable", "failed", "mismatched", "rejected"}
  BY DEF DecodeInv, MapInv
<1>2. D!Ordered \subseteq Dependency
  <2>1. \A i \in DOMAIN order : order[i] \in Dependency
    BY <1>1
  <2>2. D!Ordered = {order[i] : i \in DOMAIN order}
    BY DEF D!Ordered, D!ToSet
  <2> QED
    BY <2>1, <2>2
<1>3. \A i \in DOMAIN stack : stack[i].dep \in Dependency
  <2>1. \A i \in DOMAIN stack : stack[i] \in Frame
    BY <1>1
  <2> QED
    BY <2>1 DEF Frame
<1> QED
  BY <1>1, <1>2, <1>3 DEF D!DecodeTypeOK

\* A behaviour starts as one of this part, ...
LEMMA DecodeStarts == Init => D!DecodeInit
BY DEF Init

\* ... and a step is one of this part, or this part stutters.
LEMMA DecodePart == [Next]_vars => [D!DecodeNext]_decodeState
BY DEF Next, vars, decodeState

\* The sort is complete and puts each dependency after all that it needs, for every map of
\* dependencies and every order in which they are visited (decode_dependencies, visit).
THEOREM SortComplete == Spec => []SortedByNeeds
  BY DecodeStarts, DecodePart, DecodeInvInit, DecodeInvStep, SortIsComplete, PTL DEF Spec

\* A need is only missing in a merge if some dependencies need each other in a circle, or a
\* text needs a package that none of them is; and copies of a package only clash if two
\* dependencies bring it (visit, generate_resolve).
THEOREM MergeFailsOnlyOnTheMap == Spec => []MergesWhatItCan
  BY DecodeStarts, DecodePart, DecodeInvInit, DecodeInvStep, OnlyTheMapFails, PTL DEF Spec
=============================================================================
