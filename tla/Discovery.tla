----------------------------- MODULE Discovery -----------------------------
(***************************************************************************)
(* Which manifest and which workspace a directory belongs to               *)
(* (crates/wasm-pkg-core/src/manifest.rs, manifest/paths.rs, workspace.rs).*)
(*                                                                         *)
(* A tree is a record [parent, manifest, wit, globs]: the parent of each   *)
(* directory or None, the manifest in it or None, the directories with WIT *)
(* files, and the directories that each glob pattern matches and can be    *)
(* read, or None where the pattern is malformed.  A manifest is a record   *)
(* [kind, entries, tables], where the kind is "package", "member" or       *)
(* "root", the entries are those of members, and the tables are            *)
(* `overrides` and the top-level `metadata` as far as they are there.      *)
(***************************************************************************)
EXTENDS Integers, FiniteSets

CONSTANTS None, Invalid  \* nothing found, and a manifest that does not load

Up(tree, dir) == tree.parent[dir]

\* A directory and those above it, the nearest first, for `Depth` levels.
Depth(tree) == Cardinality(DOMAIN tree.parent)
AncestorAt(tree, dir) ==
  LET above[n \in 0 .. Depth(tree)] ==
        IF n = 0 THEN dir ELSE IF above[n - 1] = None THEN None ELSE Up(tree, above[n - 1])
  IN  above

\* The nearest directory with a manifest, from `skip` levels above this one on.
NearestFrom(tree, dir, skip) ==
  LET above == AncestorAt(tree, dir)
      found == {n \in skip .. Depth(tree) :
                  above[n] # None /\ tree.manifest[above[n]] # None}
  IN  IF found = {} THEN None ELSE above[CHOOSE n \in found : \A m \in found : n <= m]

\* find_root_manifest_for_wd
FindManifest(tree, dir) == NearestFrom(tree, dir, 0)

\* find_root_iter
NextManifest(tree, dir) == NearestFrom(tree, dir, 1)

\* Manifest::validate: a workspace has neither of these.
Loads(manifest) == manifest.kind \in {"member", "root"} => manifest.tables = {}

\* expand_globs: a pattern that matches nothing with WIT in it stays as it is, and one that is
\* no pattern at all is left out without an error.
Expand(tree, entry) ==
  IF entry \notin DOMAIN tree.globs THEN {entry}
  ELSE IF tree.globs[entry] = None THEN {}
  ELSE LET matched == tree.globs[entry] \cap tree.wit
       IN  IF matched = {} THEN {entry} ELSE matched

\* resolve_members
WorkspaceMembers(tree, dir) == UNION {Expand(tree, e) : e \in tree.manifest[dir].entries}

\* is_explicitly_listed_member, for the directory of a manifest
Lists(tree, root, dir) == dir \in WorkspaceMembers(tree, root)

\* Manifest::load_root_workspace: the workspace's directory, None or Invalid.
RootWorkspace(tree, cwd) ==
  LET start == FindManifest(tree, cwd)
      walk[n \in 0 .. Depth(tree), dir \in DOMAIN tree.parent \cup {None}] ==
        IF dir = None \/ n = 0 THEN None
        ELSE IF ~Loads(tree.manifest[dir]) THEN Invalid
        ELSE IF tree.manifest[dir].kind = "root" /\ (dir = start \/ Lists(tree, dir, start))
        THEN dir
        ELSE walk[n - 1, NextManifest(tree, dir)]
  IN  walk[Depth(tree), start]
=============================================================================
