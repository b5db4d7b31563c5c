------------------------------- MODULE MCWkg -------------------------------
(***************************************************************************)
(* The parts of wkg for TLC: two processes on one configuration, two calls *)
(* at once on one client, two downloads to one place, workspaces of two    *)
(* members and what is around them, and all maps of three dependencies.    *)
(***************************************************************************)
EXTENDS Wkg, TLC

CONSTANTS p1, p2, r1, r2, host, ns, ns2, pkg, pkg2, t1, t2, g1, g2, d1, d2, d3,
          top, a, b, c, inner, star, app, base, ext, other

Cfg == INSTANCE Config

NoMeta == [preferred |-> None, protocols |-> Cfg!Nothing, alias |-> None]
Plain(r) == [registry |-> r, metadata |-> None]
Custom(r, meta) == [registry |-> r, metadata |-> meta]
AtHost == [NoMeta EXCEPT !.protocols = Oci :> host]
Pkg(name) == [namespace |-> ns, name |-> name]
MCWellKnownNamespaces == ns :> r2

MCProcess == {p1, p2}
MCRegistry == {r1, r2}
MCTexts ==
  {Cfg!EmptyText,
   [Cfg!EmptyText EXCEPT !.default = r2, !.overrides = Pkg(pkg) :> Plain(r1)],
   [Cfg!EmptyText EXCEPT !.namespaces = ns :> Custom(r1, [NoMeta EXCEPT !.alias = r1])]}

MCTask == {t1, t2}
MCConfigs ==
  {Cfg!DefaultConfig,
   \* a package mapped to a plain registry, in a namespace with its own metadata
   [Cfg!DefaultConfig EXCEPT !.overrides = Pkg(pkg) :> Plain(r1),
      !.namespaces = ns :> Custom(r2, AtHost),
      !.registries = r1 :> [default |-> None, backends |-> Oci :> ("auth" :> "basic")]],
   \* a package with its own metadata, and a local default registry
   [Cfg!DefaultConfig EXCEPT !.overrides = Pkg(pkg) :> Custom(r1, AtHost), !.default = r2,
      !.registries = r2 :> [default |-> Local,
        backends |-> (Oci :> ("auth" :> "broken")) @@ (Local :> ("root" :> "dir"))]],
   \* settings that no backend can be made of
   [Cfg!DefaultConfig EXCEPT
      !.registries = (r1 :> [default |-> Oci, backends |-> Oci :> ("auth" :> "broken")])
                     @@ (r2 :> [default |-> Local, backends |-> Cfg!Nothing])]}
MCRequests ==
  {[package |-> Pkg(pkg), override |-> None], [package |-> Pkg(pkg2), override |-> r1],
   [package |-> [namespace |-> ns2, name |-> pkg2], override |-> None]}
MCWellKnown == (r2 :> [NoMeta EXCEPT !.alias = host]) @@ (r1 :> [NoMeta EXCEPT !.preferred = Local])
MCBearers == {r2}
MCDocker == (r1 :> "identity") @@ (<<"https", host>> :> "basic")

MCGetter == {g1, g2}
MCDownloads ==
  {[version |-> 1, kind |-> "package", yanked |-> FALSE],
   [version |-> 2, kind |-> "component", yanked |-> FALSE],
   [version |-> 3, kind |-> "garbage", yanked |-> TRUE]}
Latest == [pull |-> FALSE, version |-> None, directory |-> FALSE, extension |-> "wasm",
           format |-> "auto", check |-> FALSE, overwrite |-> FALSE]
MCArguments ==
  {Latest, [Latest EXCEPT !.check = TRUE],
   [Latest EXCEPT !.directory = TRUE, !.extension = "wit"],
   [Latest EXCEPT !.version = 1, !.extension = "none"],
   [Latest EXCEPT !.version = 1, !.extension = "none", !.overwrite = TRUE],
   [Latest EXCEPT !.version = 1, !.directory = TRUE, !.overwrite = TRUE],
   [Latest EXCEPT !.version = 3, !.directory = TRUE],
   [Latest EXCEPT !.version = 3, !.format = "wit", !.overwrite = TRUE],
   [Latest EXCEPT !.version = 2, !.pull = TRUE]}

V(major, minor) == [major |-> major, minor |-> minor, patch |-> 0, pre |-> 1]
v10 == V(1, 0)
v11 == V(1, 1)
Need(n, v) == [package |-> n, version |-> v]
Member(n, all) == [package |-> n, version |-> v10, api |-> None, needs |-> all]
MCWit ==
  (a :> Member(app, {Need(base, None), Need(ext, None)})) @@
  (b :> Member(base, {Need(ext, None), Need(other, None)})) @@
  (c :> Member(app, {Need(ext, v10)}))
Parent == (top :> None) @@ (a :> top) @@ (b :> top) @@ (c :> top) @@ (inner :> a)
Root(all) == [kind |-> "root", entries |-> all, tables |-> {}]
PackageAt == [kind |-> "package", entries |-> {}, tables |-> {"overrides"}]
MemberAt == [kind |-> "member", entries |-> {}, tables |-> {}]
Tree(manifest, wit, globs) ==
  [parent |-> Parent, wit |-> wit, globs |-> globs,
   manifest |-> [d \in DOMAIN Parent |-> IF d \in DOMAIN manifest THEN manifest[d] ELSE None]]
MCTrees ==
  {Tree((top :> Root({a, b})) @@ (c :> PackageAt), {a, b, c}, Cfg!Nothing),
   Tree((top :> Root({star})) @@ (a :> PackageAt), {a, b}, star :> {a, b, inner}),
   Tree((top :> [Root({a, c}) EXCEPT !.tables = {"metadata"}]) @@ (a :> MemberAt), {a, b},
        Cfg!Nothing),
   Tree(top :> Root({a, c}), {a, b, c}, Cfg!Nothing),
   Tree(top :> Root({a, c}), {a, b}, Cfg!Nothing),
   Tree(top :> Root({b, c, star}), {a, b, c}, star :> None)}
MCReleases == (ext :> {v10, v11}) @@ (other :> {v10})
MCBundled == [r \in {ext, other} \X {v10, v11} |-> IF r = <<ext, v11>> THEN {<<other, v10>>} ELSE {}]

MCDependency == {d1, d2, d3}
MCRoots == {MCDependency, {Foreign}}

MCSymmetry == Permutations(MCTask) \cup Permutations(MCDependency)
=============================================================================
