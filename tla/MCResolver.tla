----------------------------- MODULE MCResolver -----------------------------
(***************************************************************************)
(* Resolver for TLC.  The manifest redirects `local` and `nested` to paths *)
(* and overrides the version of `forced`; both local packages need others. *)
(* One directory needs all of them and the other needs `plain` only, by a  *)
(* requirement of its own.                                                 *)
(***************************************************************************)
EXTENDS Resolver

CONSTANTS local, nested, forced, plain, main, other, registry1, d1, d2

Any == {1, 2}
Wants(n, r) == [name |-> n, requirement |-> r]

MCName == {local, nested, forced, plain}
MCVersion == {1, 2}
MCRegistry == {registry1}
MCRegistryOf == [n \in MCName |-> registry1]
MCDigest == {d1, d2}
MCDir == {main, other}
MCNeeds ==
  [d \in MCDir |-> IF d = main THEN {Wants(local, Any), Wants(plain, Any)}
                               ELSE {Wants(plain, {1})}]
MCLocalOverride == {local, nested}
MCLocalNeeds ==
  [n \in MCLocalOverride |-> IF n = local THEN {Wants(nested, Any), Wants(forced, Any)}
                                          ELSE {Wants(local, Any)}]
MCVersionOverride == {Wants(forced, {1})}
MCListed ==
  [n \in MCName |-> [v \in MCVersion |->
    IF n = plain \/ (n = forced /\ v = 1) THEN d1 ELSE Absent]]
=============================================================================
