----------------------------- MODULE PublishPlan -----------------------------
(***************************************************************************)
(* The plan of a publication of several paths                              *)
(* (crates/wasm-pkg-core/src/resolver.rs, wit.rs).                         *)
(*                                                                         *)
(* A checkout is a function from paths to members.  A member is a record   *)
(* [package, version, api, needs] of what get_packages finds at the path:  *)
(* its package, its version or none, what its WIT offers, and its foreign  *)
(* dependencies, which are records [package, version] too.                 *)
(***************************************************************************)
EXTENDS Semver

CONSTANT None  \* no version

Members(checkout) == {checkout[path] : path \in DOMAIN checkout}
Packages(members) == {m.package : m \in members}

\* An edge of the graph: the need is matched by name, its version is not looked at.
Needs(m, n) == \E need \in m.needs : need.package = n.package

\* The dependency graph of the members, where they have no such member twice.
Duplicates(checkout) ==
  \E p, q \in DOMAIN checkout : p # q /\ checkout[p].package = checkout[q].package

\* try_update_edge refuses an edge that closes a cycle, or a loop: no set of members is
\* left in which every member needs another of them.
Cyclic(members) ==
  \E S \in (SUBSET members) \ {{}} : \A m \in S : \E n \in S : Needs(m, n)

\* get_local_dependencies and PublishPlan::from_paths
PlanRefused(checkout) ==
  \/ Duplicates(checkout)
  \/ Cyclic(Members(checkout))
  \/ \E m \in Members(checkout) : m.version = None

\* Variants of TakeReady: the edges followed the wrong way, or both ways.
TakeUnneeded(plan) == {m \in plan : \A n \in plan : ~Needs(n, m)}
TakeIsolated(plan) == {m \in plan : \A n \in plan : ~Needs(m, n) /\ ~Needs(n, m)}

\* take_ready: the members with no incoming edge in what is left of the plan.
TakeReady(plan) == {m \in plan : \A n \in plan : ~Needs(m, n)}

\* Variants of MarkConfirmed: nothing is removed, or the dependents are, too.
MarkNothing(plan, published) == plan
MarkDependents(plan, published) ==
  {m \in plan \ published : \A n \in published : ~Needs(m, n)}

\* mark_confirmed: the nodes are removed, and their edges with them.
MarkConfirmed(plan, published) == plan \ published
=============================================================================
