------------------------------ MODULE Decoding ------------------------------
(***************************************************************************)
(* The order in which dependencies are merged: decode_dependencies, visit  *)
(* and generate_resolve (crates/wasm-pkg-core/src/resolver.rs).            *)
(*                                                                         *)
(* A dependency is WIT text, which names the packages it needs, or a wasm  *)
(* file, which has those inside it that it needs, and itself.  The         *)
(* recursion of visit is a stack of calls, each with the needs that it has *)
(* still to look at, in any order.                                         *)
(***************************************************************************)
EXTENDS Sequences, SequencesExt, FiniteSets

CONSTANTS
  Dependency,  \* the keys of the map, by package name
  Foreign,     \* a package that no dependency is
  Roots        \* what the text in the directory that is built may need

VARIABLES
  kind,      \* [Dependency -> "wit" or "wasm"]
  needs,     \* [Dependency -> the packages it needs]
  phase,     \* "decode", "sort", "merge", "done", or how it failed: "unreadable", "failed" on
             \* a need, "mismatched" copies of a package, or text that is "rejected"
  stack,     \* the calls of visit, the innermost last: [dep, todo]
  visiting,  \* those on the way from the first call to the last one
  order,     \* those visited, and not merged yet
  rootNeeds, \* what the text in the directory needs
  merged     \* those in the merged resolve, and what came inside of them

decodeVars == <<kind, needs, phase, stack, visiting, order, rootNeeds, merged>>

DecodeInit ==
  /\ kind \in [Dependency -> {"wit", "wasm"}]
  /\ needs \in [Dependency -> SUBSET (Dependency \cup {Foreign})]
  /\ phase = "decode"
  /\ stack = <<>> /\ visiting = {} /\ order = <<>>
  /\ rootNeeds = {} /\ merged = {}

\* DependencyResolution::decode for each of them: what cannot be read, is neither WIT text
\* nor wasm, or is another definition of the same package, is an error.
Decode ==
  /\ phase = "decode"
  /\ phase' \in {"sort", "unreadable"}
  /\ UNCHANGED <<kind, needs, stack, visiting, order, rootNeeds, merged>>

Ordered == ToSet(order)

\* The call of visit for a dependency: what it needs, as far as it is in the map.  A wasm
\* file has itself among its packages, which is passed over.
Call(d) ==
  [dep |-> d,
   todo |-> {n \in needs[d] \cap Dependency : kind[d] = "wasm" => n # d}]

Top == stack[Len(stack)]

\* decode_dependencies calls visit for each; one that has been visited returns at once.
Visit ==
  /\ phase = "sort" /\ stack = <<>>
  /\ \E d \in Dependency \ Ordered : stack' = <<Call(d)>>
  /\ UNCHANGED <<kind, needs, phase, visiting, order, rootNeeds, merged>>

\* generate_resolve parses the directory once the dependencies are sorted.
ParseRoot ==
  /\ phase = "sort" /\ stack = <<>> /\ Ordered = Dependency
  /\ \/ phase' = "merge" /\ rootNeeds' \in Roots
     \/ phase' = "unreadable" /\ UNCHANGED rootNeeds
  /\ UNCHANGED <<kind, needs, stack, visiting, order, merged>>

\* Variant of Descend: what is being visited is passed over.
DescendQuietly ==
  /\ phase = "sort" /\ stack # <<>>
  /\ \E n \in Top.todo :
       LET rest == [stack EXCEPT ![Len(stack)].todo = @ \ {n}]
       IN  IF n \in visiting \cup Ordered THEN stack' = rest /\ UNCHANGED visiting
           ELSE stack' = Append(rest, Call(n)) /\ visiting' = visiting \cup {n}
  /\ UNCHANGED <<kind, needs, phase, order, rootNeeds, merged>>

\* The next need: it is an error when it is being visited, and nothing when it has been.
Descend ==
  /\ phase = "sort" /\ stack # <<>>
  /\ \E n \in Top.todo :
       LET rest == [stack EXCEPT ![Len(stack)].todo = @ \ {n}]
       IN  IF n \in visiting
           THEN phase' = "failed" /\ UNCHANGED <<stack, visiting>>
           ELSE /\ stack' = IF n \in Ordered THEN rest ELSE Append(rest, Call(n))
                /\ visiting' = IF n \in Ordered THEN visiting ELSE visiting \cup {n}
                /\ UNCHANGED phase
  /\ UNCHANGED <<kind, needs, order, rootNeeds, merged>>

\* Variant of Leave: what has been visited is still on the way.
LeaveVisiting ==
  /\ phase = "sort" /\ stack # <<>> /\ Top.todo = {}
  /\ order' = Append(order, Top.dep)
  /\ stack' = Front(stack)
  /\ UNCHANGED <<kind, needs, phase, visiting, rootNeeds, merged>>

\* All needs are in the order: the dependency is, too, and the call returns.
Leave ==
  /\ phase = "sort" /\ stack # <<>> /\ Top.todo = {}
  /\ order' = Append(order, Top.dep)
  /\ stack' = Front(stack)
  /\ visiting' = visiting \ {Top.dep}
  /\ UNCHANGED <<kind, needs, phase, rootNeeds, merged>>

\* What a wasm file brings with it: all that its needs are made from.
Inside(d) ==
  {e \in Dependency \cup {Foreign} :
     \A S \in SUBSET (Dependency \cup {Foreign}) :
       d \in S /\ (\A x \in S \cap Dependency : needs[x] \subseteq S) => e \in S}

\* The packages that a dependency adds to the resolve
Brings(d) == IF kind[d] = "wit" THEN {d} ELSE Inside(d)

\* The next one in the order is in the resolve, or it ends the merge.
Merged(d) == merged' = merged \cup Brings(d) /\ order' = Tail(order) /\ UNCHANGED phase
Ends(how) == phase' = how /\ UNCHANGED <<order, merged>>

\* Text can only be pushed when all it needs is there already, and may still be rejected.
MergeText ==
  /\ phase = "merge" /\ order # <<>> /\ kind[Head(order)] = "wit"
  /\ LET met == needs[Head(order)] \subseteq merged
     IN  \/ met /\ Merged(Head(order))
         \/ Ends(IF met THEN "rejected" ELSE "failed")
  /\ UNCHANGED <<kind, needs, stack, visiting, rootNeeds>>

\* A wasm file is merged package by package: one that is there already must be the same.
MergeWasm ==
  /\ phase = "merge" /\ order # <<>> /\ kind[Head(order)] = "wasm"
  /\ \/ Merged(Head(order))
     \/ Inside(Head(order)) \cap merged # {} /\ Ends("mismatched")
  /\ UNCHANGED <<kind, needs, stack, visiting, rootNeeds>>

\* The text in the directory is pushed last.
PushRoot ==
  /\ phase = "merge" /\ order = <<>>
  /\ \E how \in (IF rootNeeds \subseteq merged THEN {"done", "rejected"} ELSE {"failed"}) :
       Ends(how)
  /\ UNCHANGED <<kind, needs, stack, visiting, rootNeeds>>

DecodeNext ==
  \/ Decode \/ Visit \/ Descend \/ Leave
  \/ ParseRoot \/ MergeText \/ MergeWasm \/ PushRoot

-----------------------------------------------------------------------------

DecodeTypeOK ==
  /\ phase \in {"decode", "sort", "merge", "done"}
               \cup {"unreadable", "failed", "mismatched", "rejected"}
  /\ visiting \subseteq Dependency /\ Ordered \subseteq Dependency
  /\ \A i \in DOMAIN stack : stack[i].dep \in Dependency

\* The needs that visit follows
Follows(d) == Call(d).todo

\* Whatever the order in which the dependencies are decoded and visited, the sort is
\* complete and puts each one after all that it needs, ...
SortedByNeeds ==
  phase = "merge" /\ merged = {} =>
    /\ Ordered = Dependency /\ Len(order) = Cardinality(Dependency)
    /\ visiting = {}
    /\ \A i, j \in DOMAIN order : order[j] \in Follows(order[i]) => j < i

\* ... and what keeps the dependencies from being merged is in the map itself, never in the
\* order they were visited in.  If a need is not met, some need each other in a circle, or
\* text, of one of them or in the directory, needs a package that no dependency is; if the
\* copies of a package do not match, another dependency that has been merged brings a package
\* which this one brings, too.  (Nothing is said of text that is rejected for another reason.)
MergesWhatItCan ==
  /\ phase = "failed" =>
       \/ \E S \in (SUBSET Dependency) \ {{}} : \A d \in S : Follows(d) \cap S # {}
       \/ \E d \in Dependency :
            kind[d] = "wit" /\ ~(needs[d] \subseteq Dependency)
       \/ ~(rootNeeds \subseteq Dependency)
  /\ phase = "mismatched" =>
       \E d \in Dependency \ Ordered : Brings(d) \cap Inside(Head(order)) # {}
=============================================================================
