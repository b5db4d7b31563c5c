------------------------------- MODULE Semver -------------------------------
(***************************************************************************)
(* The compatibility check of a publication                                *)
(* (crates/wasm-pkg-client/src/lib.rs, loader.rs, decoded_component.rs).   *)
(*                                                                         *)
(* A version is a record [major, minor, patch, pre]: `pre` is 0 for a      *)
(* pre-release and 1 for a release, so that records compare as the semver  *)
(* crate compares versions.  There is one pre-release of a version, and no *)
(* build metadata.  What a component offers is a function from the names   *)
(* of its worlds to the sets of items in them, all of them exports.        *)
(***************************************************************************)
EXTENDS Integers

Rank(v) == <<v.major, v.minor, v.patch, v.pre>>

\* Version::cmp: the first field that differs decides.
Precedes(v, w) ==
  \E i \in 1 .. 4 : /\ Rank(v)[i] < Rank(w)[i]
                    /\ \A j \in 1 .. i - 1 : Rank(v)[j] = Rank(w)[j]

Sooner(v, w) == v = w \/ Precedes(v, w)

\* VersionReq::matches for the masks X.*, 0.Y.* and 0.0.Z of fetch_semver_series.  A
\* wildcard takes no pre-release; 0.0.Z is a caret requirement, which takes the
\* pre-releases of 0.0.Z that are not before the version itself.
InSeries(v, w) ==
  \/ v.major > 0 /\ w.major = v.major /\ w.pre = 1
  \/ v.major = 0 /\ v.minor > 0 /\ w.major = 0 /\ w.minor = v.minor /\ w.pre = 1
  \/ /\ v.major = 0 /\ v.minor = 0
     /\ [w EXCEPT !.pre = v.pre] = v
     /\ v.pre <= w.pre

\* Variant of SemverSeries: the version itself is taken for no release of its series.
SeriesOfOthers(v, known) == {w \in known : w # v /\ InSeries(v, w)}

\* list_matching_versions under that mask; sorting is left to Neighbours.
SemverSeries(v, known) == {w \in known : InSeries(v, w)}

\* Variant of Neighbours: the walk stops at the first version below v.
NeighbourBelow(v, series) ==
  {w \in series : Precedes(w, v) /\ \A u \in series : Precedes(u, v) => Sooner(u, w)}

\* The walk down the sorted series: the last version above v, and the first below it.
Neighbours(v, series) ==
  {w \in series : /\ Precedes(w, v)
                  /\ \A u \in series : Precedes(u, v) => Sooner(u, w)}
  \cup
  {w \in series : /\ Precedes(v, w)
                  /\ \A u \in series : Precedes(v, u) => Sooner(w, u)}

\* extract_resolve_and_worlds
Worlds(api) == DOMAIN api

\* DecodedComponent::semver_check: every world of the older release is in the newer one,
\* and wit_component::semver_check accepts the pair of worlds.
Compatible(older, newer) ==
  /\ Worlds(older) \subseteq Worlds(newer)
  /\ \A world \in Worlds(older) : older[world] \subseteq newer[world]

\* The windows of the sorted list of the candidate and its neighbours: api gives what each
\* of those versions offers.
CompatibleChain(versions, api) ==
  \A v, w \in versions :
    /\ Precedes(v, w)
    /\ \A u \in versions : ~(Precedes(v, u) /\ Precedes(u, w))
    => Compatible(api[v], api[w])
=============================================================================
