----------------------------- MODULE ReleaseOrder -----------------------------
(***************************************************************************)
(* What a publication of several packages promises: each package is        *)
(* settled once, and only after the other packages of the same publication *)
(* that it needs.                                                          *)
(***************************************************************************)
CONSTANTS Publisher, Needs(_, _), Publications

VARIABLES
  members,  \* [Publisher -> the members of its publication]
  settled   \* [Publisher -> those that are published or found there]

vars == <<members, settled>>

Init ==
  /\ members = [p \in Publisher |-> {}]
  /\ settled = [p \in Publisher |-> {}]

Begin(p) ==
  /\ \E M \in Publications : members' = [members EXCEPT ![p] = M]
  /\ settled' = [settled EXCEPT ![p] = {}]

Settle(p) ==
  \E m \in members[p] \ settled[p] :
    /\ \A n \in members[p] \ {m} : Needs(m, n) => n \in settled[p]
    /\ settled' = [settled EXCEPT ![p] = @ \cup {m}]
    /\ UNCHANGED members

Next == \E p \in Publisher : Begin(p) \/ Settle(p)

Spec == Init /\ [][Next]_vars
=============================================================================
