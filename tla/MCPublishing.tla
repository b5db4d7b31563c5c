---------------------------- MODULE MCPublishing ----------------------------
(***************************************************************************)
(* Publishing for TLC.  `app` needs `base`.  One publisher releases both   *)
(* together, in two editions with the same versions, and the other one     *)
(* releases single directories, before, between and after the first one's  *)
(* versions; a checkout has a cycle and one has a package twice.           *)
(***************************************************************************)
EXTENDS Publishing, TLC

CONSTANTS author, vendor, app, base, old, more, w, x, y

V(major, minor, pre) == [major |-> major, minor |-> minor, patch |-> 0, pre |-> pre]
v10 == V(1, 0, 1)
v11 == V(1, 1, 1)
v12 == V(1, 2, 1)
v12pre == V(1, 2, 0)

Narrow == w :> {x}
Wide == w :> {x, y}
Other == w :> {y}

Need(n, v) == [package |-> n, version |-> v]
Base(v, api) == [package |-> base, version |-> v, api |-> api, needs |-> {}]
App(v, needs) == [package |-> app, version |-> v, api |-> Narrow, needs |-> needs]

Asked(checkout, pins, dry, dupes, unchecked) ==
  [checkout |-> checkout, lock |-> pins, dry_run |-> dry, skip_dupes |-> dupes,
   skip_semver_check |-> unchecked]
Both(m, n) == (old :> m) @@ (more :> n)
Pinned(v) == {[package |-> base, requirement |-> None, version |-> v]}
PinnedOld == {[package |-> app, requirement |-> v10, version |-> v10]}

MCPublisher == {author, vendor}
MCPackage == {app, base}
MCVersion == {v10, v11, v12, v12pre}
MCMaxRuns == (author :> 2) @@ (vendor :> 1)
MCJobs ==
  (author :>
     {Asked(Both(Base(v11, Wide), App(v10, {Need(base, None)})), {}, FALSE, dupes, FALSE) :
        dupes \in BOOLEAN}
     \cup {Asked(Both(Base(v11, Narrow), App(v11, {Need(base, v11)})), {}, FALSE, TRUE, FALSE),
           Asked(Both(Base(v12, Wide), App(v10, {Need(app, None)})), {}, FALSE, FALSE, FALSE),
           Asked(Both(Base(v12, Wide), Base(v11, Wide)), {}, FALSE, FALSE, FALSE)})
  @@
  (vendor :>
     {Asked(old :> Base(v10, Narrow), {}, FALSE, FALSE, FALSE),
      Asked(old :> Base(v12, Other), {}, FALSE, FALSE, FALSE),
      Asked(old :> Base(None, Narrow), {}, FALSE, FALSE, FALSE),
      Asked(old :> Base(v11, Other), {}, FALSE, FALSE, TRUE),
      Asked(old :> Base(v12pre, Wide), {}, FALSE, FALSE, FALSE),
      Asked(old :> App(v11, {Need(base, None)}), Pinned(v11), FALSE, FALSE, FALSE),
      Asked(old :> App(v11, {Need(app, v10)}), PinnedOld, FALSE, FALSE, FALSE)}
     \cup
     {Asked(old :> App(v11, {Need(base, None)}), {}, dry, FALSE, FALSE) :
        dry \in BOOLEAN})
=============================================================================
