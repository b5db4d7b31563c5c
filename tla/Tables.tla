-------------------------------- MODULE Tables --------------------------------
(***************************************************************************)
(* The tables of the program, which are maps from Rust's standard library. *)
(* The operators of module TLC for the same, f @@ g and x :> y, have no    *)
(* definition that a proof could use.                                      *)
(***************************************************************************)

\* HashMap::insert: the key's value is replaced, or the key is added.
Inserted(table, key, value) ==
  [k \in DOMAIN table \cup {key} |-> IF k = key THEN value ELSE table[k]]

\* HashMap::extend: each entry of the new table is inserted.
Extended(table, new) ==
  [k \in DOMAIN table \cup DOMAIN new |-> IF k \in DOMAIN new THEN new[k] ELSE table[k]]
=============================================================================
