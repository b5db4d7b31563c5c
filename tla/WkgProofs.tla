------------------------------ MODULE WkgProofs -------------------------------
(***************************************************************************)
(* Proofs about Wkg: `wkg config` (SettingsKept, LayersAgree), `wkg get`   *)
(* and `wkg oci pull` (GetsWhole, GetKeepsFiles), and the types of all     *)
(* parts (TypeOK).  A step of a behaviour is a step of one part, and the   *)
(* others stutter; the other parts are in ClientProofs and FetchProofs.    *)
(*                                                                         *)
(* Settings: a command that does not know of another one's writing would   *)
(* write what is wanted, as long as nothing is lost, and of two that write *)
(* one at least knows.  Downloads: a temporary file and the chunk that is  *)
(* under way are what has been received, so that a command which goes on   *)
(* has all of it, unless a write failed; and what is in a file is whole or *)
(* its command is not done.                                                *)
(***************************************************************************)
EXTENDS ClientProofs, FetchProofs

\* The form of a process, and what a command of it would write
SettingsForm ==
  /\ process \in [Process -> {process[p] : p \in Process}] /\ commands \in 0 .. MaxCommands
  /\ file \in S!Text \cup {None} /\ settings \in S!Text \cup {None}
  /\ \A p \in Process :
       /\ DOMAIN process[p] = {"pc", "config", "edit", "stale"}
       /\ process[p].pc \in {"rest", "change", "create", "write", "editor"}
       /\ process[p].stale \in BOOLEAN
       /\ process[p].pc \in {"change", "create", "write"} =>
            S!ToToml(process[p].config) \in S!Text

\* A command would write what is wanted, and the default registry that it was given.
Wanted == IF settings = None THEN S!EmptyText ELSE settings
Good(config) ==
  S!ToToml(config) = [S!WithoutAliases(Wanted) EXCEPT !.default = config.default]

\* As long as nothing is lost, the file that nobody writes holds what is wanted, and a
\* command that does not know of another one's writing would write that.  While one
\* writes, the others all know of it, but for one at most that writes, too.
SettingsInv ==
  /\ SettingsForm
  /\ file = None => S!Writing = {}
  /\ \A p \in Process :
       process[p].pc \in {"change", "create"} /\ S!Writing # {} => process[p].stale
  /\ \A p, q \in S!Writing : p # q => process[p].stale \/ process[q].stale
  /\ ~lost =>
       /\ S!Writing = {} => S!WithoutAliases(file) = S!WithoutAliases(settings)
       /\ \A p \in Process :
            process[p].pc \in {"change", "create", "write"} /\ ~process[p].stale =>
              Good(process[p].config)

-----------------------------------------------------------------------------
(* Configurations *)

\* The first of three that is given.
LEMMA GivenFirst ==
  ASSUME NEW a, NEW b, NEW c
  PROVE  S!First(<<a, b, c>>) = IF a # None THEN a ELSE IF b # None THEN b ELSE c
<1> DEFINE options == <<a, b, c>>
           given == {i \in DOMAIN options : options[i] # None}
           least == CHOOSE i \in given : \A j \in given : i <= j
<1>1. DOMAIN options = {1, 2, 3} /\ options[1] = a /\ options[2] = b /\ options[3] = c
  OBVIOUS
<1>2. S!First(options) = IF given = {} THEN None ELSE options[least]
  BY DEF S!First
<1>3. ASSUME NEW i \in given, \A j \in given : i <= j
      PROVE  least = i
  <2>1. least \in given /\ \A j \in given : least <= j
    BY <1>3
  <2>2. least \in {1, 2, 3} /\ i \in {1, 2, 3} /\ least <= i /\ i <= least
    BY <1>1, <1>3, <2>1
  <2> QED
    BY <2>2
<1>4. CASE a # None
  <2>1. 1 \in given /\ \A j \in given : 1 <= j
    BY <1>1, <1>4
  <2>2. least = 1
    BY <1>3, <2>1
  <2> QED
    BY <1>1, <1>2, <1>4, <2>1, <2>2
<1>5. CASE a = None /\ b # None
  <2>1. 2 \in given /\ \A j \in given : 2 <= j
    BY <1>1, <1>5
  <2>2. least = 2
    BY <1>3, <2>1
  <2> QED
    BY <1>1, <1>2, <1>5, <2>1, <2>2
<1>6. CASE a = None /\ b = None /\ c # None
  <2>1. 3 \in given /\ \A j \in given : 3 <= j
    BY <1>1, <1>6
  <2>2. least = 3
    BY <1>3, <2>1
  <2> QED
    BY <1>1, <1>2, <1>6, <2>1, <2>2
<1>7. CASE a = None /\ b = None /\ c = None
  <2>1. given = {}
    BY <1>1, <1>7
  <2> QED
    BY <1>2, <1>7, <2>1
<1> QED
  BY <1>4, <1>5, <1>6, <1>7

\* The first of two that is given.
LEMMA GivenFirstOfTwo ==
  ASSUME NEW a, NEW b
  PROVE  S!First(<<a, b>>) = IF a # None THEN a ELSE b
<1> DEFINE options == <<a, b>>
           given == {i \in DOMAIN options : options[i] # None}
           least == CHOOSE i \in given : \A j \in given : i <= j
<1>1. DOMAIN options = {1, 2} /\ options[1] = a /\ options[2] = b
  OBVIOUS
<1>2. S!First(options) = IF given = {} THEN None ELSE options[least]
  BY DEF S!First
<1>3. CASE a # None
  <2>1. 1 \in given /\ \A j \in given : 1 <= j
    BY <1>1, <1>3
  <2>2. least \in given /\ \A j \in given : least <= j
    BY <2>1
  <2>3. least \in {1, 2} /\ least <= 1
    BY <1>1, <2>1, <2>2
  <2>4. least = 1
    BY <2>3
  <2> QED
    BY <1>1, <1>2, <1>3, <2>1, <2>4
<1>4. CASE a = None /\ b # None
  <2>1. given = {2}
    BY <1>1, <1>4
  <2>2. least = 2
    BY <2>1
  <2> QED
    BY <1>1, <1>2, <1>4, <2>1, <2>2
<1>5. CASE a = None /\ b = None
  <2>1. given = {}
    BY <1>1, <1>5
  <2> QED
    BY <1>2, <1>5, <2>1
<1> QED
  BY <1>3, <1>4, <1>5

\* What is merged into an empty table can be looked up as before.
LEMMA LookupMerged ==
  ASSUME NEW table, NEW x
  PROVE  S!Lookup(S!Extended(S!Nothing, table), x) = S!Lookup(table, x)
BY DEF S!Lookup, S!Extended, S!Nothing

\* A file of settings means the same for a package, however it is loaded, where it gives
\* the package a registry.
LEMMA LayersMeet ==
  ASSUME NEW text, text # None, NEW asked,
         S!Resolve(S!FromFile(text), asked) # None
  PROVE  S!Resolve(S!GlobalDefaults(text), asked) = S!Resolve(S!FromFile(text), asked)
<1> DEFINE alone == S!FromFile(text)
           over == S!Merge(S!DefaultConfig, S!FromToml(text))
           named == S!ResolveMapping(alone, asked)
<1>1. /\ alone.overrides = text.overrides /\ alone.namespaces = text.namespaces
      /\ alone.default = text.default /\ alone.fallbacks = S!Nothing
  BY DEF S!FromFile, S!FromToml
<1>2. /\ over.overrides = S!Extended(S!Nothing, text.overrides)
      /\ over.namespaces = S!Extended(S!Nothing, text.namespaces)
      /\ over.default = S!First(<<text.default, None>>)
  BY DEF S!Merge, S!FromToml, S!DefaultConfig, S!EmptyConfig
<1>3. S!GlobalDefaults(text) = over
  BY DEF S!GlobalDefaults
<1>4. S!ResolveMapping(over, asked) = named
  BY <1>1, <1>2, LookupMerged DEF S!ResolveMapping
<1>5. over.default = text.default
  BY <1>2, GivenFirstOfTwo
<1>6. S!Lookup(alone.fallbacks, asked.namespace) = None
  BY <1>1 DEF S!Lookup, S!Nothing
<1>7. S!Resolve(alone, asked) =
        IF S!RegistryOf(named) # None THEN S!RegistryOf(named) ELSE text.default
  BY <1>1, <1>6, GivenFirst DEF S!Resolve
<1>8. S!Resolve(over, asked) =
        IF S!RegistryOf(named) # None THEN S!RegistryOf(named)
        ELSE IF text.default # None THEN text.default
        ELSE S!Lookup(over.fallbacks, asked.namespace)
  BY <1>4, <1>5, GivenFirst DEF S!Resolve
<1> QED
  BY <1>3, <1>7, <1>8

\* In every state, the user's file of settings and the same file given by --config agree
\* on the registry of a package wherever the latter gives one (Config::merge over the
\* compiled-in defaults, Config::resolve_registry).
THEOREM FileMeansTheSame == Spec => []LayersAgree
<1>1. LayersAgree
  BY LayersMeet DEF LayersAgree, S!LayersAgree
<1> QED
  BY <1>1, PTL
-----------------------------------------------------------------------------
(* Texts *)

\* Nothing changes what has been serialized.
LEMMA SerializedTwice ==
  ASSUME NEW m
  PROVE  S!SerializeMappings(S!SerializeMappings(m)) = S!SerializeMappings(m)
<1>1. \A y : S!SerializeMapping(S!SerializeMapping(y)) = S!SerializeMapping(y)
  BY DEF S!SerializeMapping
<1> QED
  BY <1>1 DEF S!SerializeMappings

\* The columns of what is written are columns.
LEMMA ColumnsClosed ==
  ASSUME NEW mappings, NEW m \in S!Columns(mappings)
  PROVE  S!SerializeMappings(m) \in S!Columns(mappings)
<1>1. S!SerializeMappings(S!Nothing) = S!Nothing
  BY DEF S!SerializeMappings, S!Nothing
<1>2. CASE m \in mappings
  BY <1>2 DEF S!Columns
<1>3. CASE m = S!Nothing
  BY <1>1, <1>3 DEF S!Columns
<1>4. ASSUME NEW n \in mappings, m = S!SerializeMappings(n)
      PROVE  S!SerializeMappings(m) \in S!Columns(mappings)
  BY <1>4, SerializedTwice DEF S!Columns
<1> QED
  BY <1>2, <1>3, <1>4 DEF S!Columns

\* What is left of a text when it is written.
LEMMA WrittenText ==
  ASSUME NEW text \in S!Text
  PROVE  /\ S!WithoutAliases(text) =
              [default |-> text.default,
               namespaces |-> S!SerializeMappings(text.namespaces),
               overrides |-> S!SerializeMappings(text.overrides),
               registries |-> text.registries]
         /\ S!WithoutAliases(text) \in S!Text /\ S!WithoutAliases(text) # None
         /\ S!WithoutAliases(S!WithoutAliases(text)) = S!WithoutAliases(text)
<1> DEFINE written == [default |-> text.default,
                       namespaces |-> S!SerializeMappings(text.namespaces),
                       overrides |-> S!SerializeMappings(text.overrides),
                       registries |-> text.registries]
<1>1. text # None /\ None \notin S!Text
  BY WkgAssumption
<1>2. text = [default |-> text.default, namespaces |-> text.namespaces,
              overrides |-> text.overrides, registries |-> text.registries]
  BY DEF S!Text
<1>3. S!WithoutAliases(text) = written
  BY <1>1, <1>2 DEF S!WithoutAliases
<1>4. written \in S!Text
  BY ColumnsClosed DEF S!Text
<1>5. written # None
  BY <1>1, <1>4
<1>6. S!WithoutAliases(written) = written
  BY <1>5, SerializedTwice DEF S!WithoutAliases
<1> QED
  BY <1>1, <1>3, <1>4, <1>6

\* A text with another registry by default is a text.
LEMMA OtherDefault ==
  ASSUME NEW text \in S!Text, NEW other \in S!Text
  PROVE  /\ [text EXCEPT !.default = other.default] \in S!Text
         /\ S!WithoutAliases([text EXCEPT !.default = other.default]) =
              [S!WithoutAliases(text) EXCEPT !.default = other.default]
<1> DEFINE next == [text EXCEPT !.default = other.default]
<1>1. next = [default |-> other.default, namespaces |-> text.namespaces,
              overrides |-> text.overrides, registries |-> text.registries]
  BY DEF S!Text
<1>2. next \in S!Text
  BY <1>1 DEF S!Text
<1>3. S!WithoutAliases(next) =
        [default |-> next.default, namespaces |-> S!SerializeMappings(next.namespaces),
         overrides |-> S!SerializeMappings(next.overrides), registries |-> next.registries]
  BY <1>2, WrittenText
<1>4. S!WithoutAliases(text) =
        [default |-> text.default, namespaces |-> S!SerializeMappings(text.namespaces),
         overrides |-> S!SerializeMappings(text.overrides), registries |-> text.registries]
  BY WrittenText
<1>5. /\ next.default = other.default /\ next.namespaces = text.namespaces
      /\ next.overrides = text.overrides /\ next.registries = text.registries
  BY <1>1
<1>6. S!WithoutAliases(next) = [S!WithoutAliases(text) EXCEPT !.default = other.default]
  BY <1>3, <1>4, <1>5
<1> QED
  BY <1>2, <1>6

\* The empty text
LEMMA EmptyIsText ==
  /\ S!EmptyText \in S!Text /\ S!WithoutAliases(S!EmptyText) = S!EmptyText
  /\ S!ToToml(S!DefaultConfig) = S!EmptyText
  /\ S!EmptyText.default = None
<1> DEFINE empty == [default |-> None, namespaces |-> S!Nothing, overrides |-> S!Nothing,
                     registries |-> S!Nothing]
<1>1. S!SerializeMappings(S!Nothing) = S!Nothing
  BY DEF S!SerializeMappings, S!Nothing
<1>2. S!EmptyText = empty
  BY <1>1 DEF S!EmptyText, S!ToToml, S!EmptyConfig
<1>3. S!ToToml(S!DefaultConfig) = empty
  BY <1>1 DEF S!ToToml, S!EmptyConfig, S!DefaultConfig
<1>4. S!Nothing \in S!Columns({t.namespaces : t \in Texts})
  BY DEF S!Columns
<1>5. S!Nothing \in S!Columns({t.overrides : t \in Texts})
  BY DEF S!Columns
<1>6. empty \in S!Text
  BY <1>4, <1>5 DEF S!Text
<1>7. empty # None
  BY <1>6, WkgAssumption
<1>8. S!WithoutAliases(empty) = empty
  BY <1>1, <1>7 DEF S!WithoutAliases
<1> QED
  BY <1>2, <1>3, <1>6, <1>8

\* What is read from a text, with a registry by default
LEMMA ReadText ==
  ASSUME NEW text \in S!Text, NEW r \in Registry
  PROVE  LET config == [S!FromToml(text) EXCEPT !.default = r]
         IN  /\ S!ToToml(config) = [S!WithoutAliases(text) EXCEPT !.default = r]
             /\ S!ToToml(config) \in S!Text /\ config.default = r
<1> DEFINE config == [S!FromToml(text) EXCEPT !.default = r]
           written == [default |-> r, namespaces |-> S!SerializeMappings(text.namespaces),
                       overrides |-> S!SerializeMappings(text.overrides),
                       registries |-> text.registries]
<1>1. S!ToToml(config) = written /\ config.default = r
  BY DEF S!ToToml, S!FromToml
<1>2. written = [S!WithoutAliases(text) EXCEPT !.default = r]
  BY WrittenText
<1>3. written \in S!Text
  BY ColumnsClosed DEF S!Text
<1> QED
  BY <1>1, <1>2, <1>3

\* What is made of no file, with a registry by default
LEMMA ReadNothing ==
  ASSUME NEW r \in Registry
  PROVE  LET config == [S!DefaultConfig EXCEPT !.default = r]
         IN  /\ S!ToToml(config) = [S!EmptyText EXCEPT !.default = r]
             /\ S!ToToml(config) \in S!Text /\ config.default = r
<1> DEFINE config == [S!DefaultConfig EXCEPT !.default = r]
           written == [default |-> r, namespaces |-> S!SerializeMappings(S!Nothing),
                       overrides |-> S!SerializeMappings(S!Nothing),
                       registries |-> S!Nothing]
<1>1. S!ToToml(config) = written /\ config.default = r
  BY DEF S!ToToml, S!DefaultConfig, S!EmptyConfig
<1>2. written = [S!EmptyText EXCEPT !.default = r]
  BY DEF S!EmptyText, S!ToToml, S!EmptyConfig
<1>3. S!Nothing \in S!Columns({t.namespaces : t \in Texts})
  BY DEF S!Columns
<1>4. S!Nothing \in S!Columns({t.overrides : t \in Texts})
  BY DEF S!Columns
<1>5. written \in S!Text
  BY <1>3, <1>4, ColumnsClosed DEF S!Text
<1> QED
  BY <1>1, <1>2, <1>5

-----------------------------------------------------------------------------
(* `wkg config` *)

\* What becomes of the others when the file is touched
LEMMA TouchEffect ==
  ASSUME SettingsForm, NEW p \in Process, NEW next, S!Touch(p, next),
         DOMAIN next = {"pc", "config", "edit", "stale"}, next.stale \in BOOLEAN,
         next.pc \in {"rest", "write", "editor"},
         next.pc = "write" => S!ToToml(next.config) \in S!Text
  PROVE  /\ process' \in [Process -> {process'[q] : q \in Process}]
         /\ process'[p] = next
         /\ \A q \in Process :
              /\ DOMAIN process'[q] = {"pc", "config", "edit", "stale"}
              /\ process'[q].pc \in {"rest", "change", "create", "write", "editor"}
              /\ process'[q].stale \in BOOLEAN
              /\ process'[q].pc \in {"change", "create", "write"} =>
                   S!ToToml(process'[q].config) \in S!Text
         /\ \A q \in Process \ {p} :
              /\ process'[q].pc = process[q].pc
              /\ process[q].pc \in {"change", "create", "write"} => process'[q].stale
<1> DEFINE Stale(q) == [process[q] EXCEPT !.stale = TRUE]
<1>1. process' \in [Process -> {process'[q] : q \in Process}] /\ process'[p] = next
  BY DEF S!Touch
<1>2. ASSUME NEW q \in Process
      PROVE  /\ DOMAIN Stale(q) = {"pc", "config", "edit", "stale"}
             /\ Stale(q).pc = process[q].pc /\ Stale(q).config = process[q].config
             /\ Stale(q).stale = TRUE
  BY DEF SettingsForm
<1>3. ASSUME NEW q \in Process \ {p}
      PROVE  process'[q] = IF process[q].pc \in {"change", "create", "write"}
                           THEN Stale(q) ELSE process[q]
  BY <1>3 DEF S!Touch
<1> HIDE DEF Stale
<1>4. ASSUME NEW q \in Process \ {p}
      PROVE  /\ process'[q].pc = process[q].pc /\ process'[q].config = process[q].config
             /\ DOMAIN process'[q] = {"pc", "config", "edit", "stale"}
             /\ process'[q].stale \in BOOLEAN
             /\ process[q].pc \in {"change", "create", "write"} => process'[q].stale
  <2>1. DOMAIN process[q] = {"pc", "config", "edit", "stale"} /\ process[q].stale \in BOOLEAN
    BY DEF SettingsForm
  <2>2. CASE process[q].pc \in {"change", "create", "write"}
    <3>1. process'[q] = Stale(q)
      BY <1>3, <2>2
    <3> QED
      BY <1>2, <2>2, <3>1
  <2>3. CASE process[q].pc \notin {"change", "create", "write"}
    <3>1. process'[q] = process[q]
      BY <1>3, <2>3
    <3> QED
      BY <2>1, <2>3, <3>1
  <2> QED
    BY <2>2, <2>3
<1>5. ASSUME NEW q \in Process
      PROVE  /\ DOMAIN process'[q] = {"pc", "config", "edit", "stale"}
             /\ process'[q].pc \in {"rest", "change", "create", "write", "editor"}
             /\ process'[q].stale \in BOOLEAN
             /\ process'[q].pc \in {"change", "create", "write"} =>
                  S!ToToml(process'[q].config) \in S!Text
  BY <1>1, <1>4 DEF SettingsForm
<1> QED
  BY <1>1, <1>4, <1>5

\* The initial states
LEMMA SettingsInvInit == S!SettingsInit => SettingsInv
<1> SUFFICES ASSUME S!SettingsInit
             PROVE  SettingsInv
  OBVIOUS
<1>1. \A p \in Process : process[p] = S!AtRest
  BY DEF S!SettingsInit
<1>2. /\ DOMAIN S!AtRest = {"pc", "config", "edit", "stale"}
      /\ S!AtRest.pc = "rest" /\ S!AtRest.stale = FALSE
  BY DEF S!AtRest
<1>3. file \in S!Text \cup {None} /\ settings = file
  BY WkgAssumption DEF S!SettingsInit
<1>4. process \in [Process -> {process[p] : p \in Process}]
  BY DEF S!SettingsInit
<1>5. commands \in 0 .. MaxCommands
  BY WkgAssumption DEF S!SettingsInit
<1>6. S!Writing = {}
  BY <1>1, <1>2 DEF S!Writing
<1>7. SettingsForm
  BY <1>1, <1>2, <1>3, <1>4, <1>5 DEF SettingsForm
<1> QED
  BY <1>1, <1>2, <1>3, <1>6, <1>7 DEF SettingsInv

\* What a command that starts knows
StartOf(p) ==
  /\ UNCHANGED <<file, settings, lost>>
  /\ process' \in [Process -> {process'[q] : q \in Process}]
  /\ commands' \in 0 .. MaxCommands
  /\ process[p].pc = "rest"
  /\ \A q \in Process \ {p} : process'[q] = process[q]
  /\ DOMAIN process'[p] = {"pc", "config", "edit", "stale"}
  /\ process'[p].stale \in BOOLEAN
  /\ \/ /\ process'[p].pc \in {"change", "create"}
        /\ process'[p].stale \/ S!Writing = {}
        /\ S!ToToml(process'[p].config) \in S!Text
        /\ ~lost /\ S!Writing = {} => Good(process'[p].config)
     \/ process'[p].pc = "editor"

\* `wkg config --default`
LEMMA ReadEffect ==
  ASSUME SettingsInv, NEW p \in Process, S!Read(p)
  PROVE  StartOf(p)
<1>1. PICK r \in Registry :
        process' = [process EXCEPT ![p] =
          [pc |-> "change", edit |-> FALSE,
           config |-> [(IF file = None THEN S!DefaultConfig ELSE S!FromToml(file))
                         EXCEPT !.default = r],
           stale |-> S!Writing # {}]]
  BY DEF S!Read
<1> DEFINE config == [(IF file = None THEN S!DefaultConfig ELSE S!FromToml(file))
                        EXCEPT !.default = r]
           next == [pc |-> "change", edit |-> FALSE, config |-> config,
                    stale |-> S!Writing # {}]
<1>2. process' = [process EXCEPT ![p] = next]
  BY <1>1
<1> HIDE DEF config
<1>3. process'[p] = next /\ \A q \in Process \ {p} : process'[q] = process[q]
  BY <1>2 DEF SettingsInv, SettingsForm
<1>4. process' \in [Process -> {process'[q] : q \in Process}]
  BY <1>2 DEF SettingsInv, SettingsForm
<1>5. commands' \in 0 .. MaxCommands
  BY WkgAssumption DEF S!Read, SettingsInv, SettingsForm
<1>6. /\ DOMAIN next = {"pc", "config", "edit", "stale"} /\ next.pc = "change"
      /\ next.config = config /\ next.stale = (S!Writing # {})
  OBVIOUS
<1>7. UNCHANGED <<file, settings, lost>> /\ process[p].pc = "rest"
  BY DEF S!Read
<1> HIDE DEF next
<1>8. CASE file = None
  <2>1. config = [S!DefaultConfig EXCEPT !.default = r]
    BY <1>8 DEF config
  <2>2. /\ S!ToToml(config) = [S!EmptyText EXCEPT !.default = r]
        /\ S!ToToml(config) \in S!Text /\ config.default = r
    BY <2>1, ReadNothing
  <2>3. ASSUME ~lost, S!Writing = {}
        PROVE  Good(config)
    <3>1. S!WithoutAliases(file) = None
      BY <1>8 DEF S!WithoutAliases
    <3>2. S!WithoutAliases(settings) = None
      BY <2>3, <3>1 DEF SettingsInv
    <3>3. settings = None
      BY <3>2, WrittenText DEF SettingsInv, SettingsForm
    <3>4. S!WithoutAliases(Wanted) = S!EmptyText
      BY <3>3, EmptyIsText DEF Wanted
    <3> QED
      BY <2>2, <3>4 DEF Good
  <2> QED
    BY <1>3, <1>4, <1>5, <1>6, <1>7, <2>2, <2>3 DEF StartOf
<1>9. CASE file # None
  <2>1. config = [S!FromToml(file) EXCEPT !.default = r] /\ file \in S!Text
    BY <1>9 DEF config, SettingsInv, SettingsForm
  <2>2. /\ S!ToToml(config) = [S!WithoutAliases(file) EXCEPT !.default = r]
        /\ S!ToToml(config) \in S!Text /\ config.default = r
    BY <2>1, ReadText
  <2>3. ASSUME ~lost, S!Writing = {}
        PROVE  Good(config)
    <3>1. S!WithoutAliases(file) = S!WithoutAliases(settings)
      BY <2>3 DEF SettingsInv
    <3>2. S!WithoutAliases(settings) # None
      BY <2>1, <3>1, WrittenText
    <3>3. settings # None
      BY <3>2 DEF S!WithoutAliases
    <3>4. Wanted = settings
      BY <3>3 DEF Wanted
    <3> QED
      BY <2>2, <3>1, <3>4 DEF Good
  <2> QED
    BY <1>3, <1>4, <1>5, <1>6, <1>7, <2>2, <2>3 DEF StartOf
<1> QED
  BY <1>8, <1>9

\* `wkg config --edit`
LEMMA EditEffect ==
  ASSUME SettingsInv, NEW p \in Process, S!Edit(p)
  PROVE  StartOf(p)
<1> DEFINE fresh == [pc |-> "create", config |-> S!DefaultConfig, edit |-> TRUE, stale |-> FALSE]
           next == IF file = None THEN fresh ELSE S!InEditor
<1>1. process' = [process EXCEPT ![p] = next]
  BY DEF S!Edit
<1>2. /\ DOMAIN S!InEditor = {"pc", "config", "edit", "stale"}
      /\ S!InEditor.pc = "editor" /\ S!InEditor.stale = FALSE
  BY DEF S!InEditor, S!AtRest
<1> HIDE DEF next
<1>3. process'[p] = next /\ \A q \in Process \ {p} : process'[q] = process[q]
  BY <1>1 DEF SettingsInv, SettingsForm
<1>4. process' \in [Process -> {process'[q] : q \in Process}]
  BY <1>1 DEF SettingsInv, SettingsForm
<1>5. commands' \in 0 .. MaxCommands
  BY WkgAssumption DEF S!Edit, SettingsInv, SettingsForm
<1>6. /\ DOMAIN fresh = {"pc", "config", "edit", "stale"} /\ fresh.pc = "create"
      /\ fresh.config = S!DefaultConfig /\ fresh.stale = FALSE
  OBVIOUS
<1>7. UNCHANGED <<file, settings, lost>> /\ process[p].pc = "rest"
  BY DEF S!Edit
<1> HIDE DEF fresh
<1>8. CASE file = None
  <2>1. next = fresh /\ S!Writing = {}
    BY <1>8 DEF next, SettingsInv
  <2>2. S!ToToml(S!DefaultConfig) = S!EmptyText /\ S!EmptyText \in S!Text
    BY EmptyIsText
  <2>3. ASSUME ~lost
        PROVE  Good(S!DefaultConfig)
    <3>1. S!WithoutAliases(file) = None
      BY <1>8 DEF S!WithoutAliases
    <3>2. S!WithoutAliases(settings) = None
      BY <2>1, <2>3, <3>1 DEF SettingsInv
    <3>3. settings = None
      BY <3>2, WrittenText DEF SettingsInv, SettingsForm
    <3>4. S!WithoutAliases(Wanted) = S!EmptyText
      BY <3>3, EmptyIsText DEF Wanted
    <3>5. S!DefaultConfig.default = None /\ S!EmptyText.default = None
      BY EmptyIsText DEF S!DefaultConfig, S!EmptyConfig
    <3>6. [S!EmptyText EXCEPT !.default = None] = S!EmptyText
      BY <2>2, <3>5 DEF S!Text
    <3> QED
      BY <2>2, <3>4, <3>5, <3>6 DEF Good
  <2> QED
    BY <1>3, <1>4, <1>5, <1>6, <1>7, <2>1, <2>2, <2>3 DEF StartOf
<1>9. CASE file # None
  <2>1. next = S!InEditor
    BY <1>9 DEF next
  <2> QED
    BY <1>2, <1>3, <1>4, <1>5, <1>7, <2>1 DEF StartOf
<1> QED
  BY <1>8, <1>9

\* A command that starts keeps the invariant.
LEMMA StartKeeps ==
  ASSUME SettingsInv, NEW p \in Process, StartOf(p)
  PROVE  SettingsInv'
<1>1. SettingsForm'
  BY DEF StartOf, SettingsInv, SettingsForm
<1>2. S!Writing' = S!Writing
  BY DEF StartOf, S!Writing
<1>3. Wanted' = Wanted
  BY DEF StartOf, Wanted
<1>4. (file = None => S!Writing = {})'
  BY <1>2 DEF StartOf, SettingsInv
<1>6. ASSUME NEW q \in Process, process'[q].pc \in {"change", "create"}, S!Writing # {}
      PROVE  process'[q].stale
  BY <1>6 DEF StartOf, SettingsInv
<1>7. p \notin S!Writing
  BY DEF StartOf, S!Writing
<1>8. ASSUME NEW x \in S!Writing, NEW y \in S!Writing, x # y
      PROVE  process'[x].stale \/ process'[y].stale
  <2>1. process[x].stale \/ process[y].stale
    BY <1>8 DEF SettingsInv
  <2>2. process'[x] = process[x] /\ process'[y] = process[y]
    BY <1>7 DEF StartOf, S!Writing
  <2> QED
    BY <2>1, <2>2
<1>9. ASSUME ~lost, S!Writing = {}
      PROVE  (S!WithoutAliases(file) = S!WithoutAliases(settings))'
  <2>1. S!WithoutAliases(file) = S!WithoutAliases(settings)
    BY <1>9 DEF SettingsInv
  <2>2. file' = file /\ settings' = settings
    BY DEF StartOf
  <2> QED
    BY <2>1, <2>2 DEF S!WithoutAliases
<1>10. ASSUME ~lost, NEW q \in Process, process'[q].pc \in {"change", "create", "write"},
              ~process'[q].stale
       PROVE  Good(process[q].config)'
  <2>1. Good(process'[q].config)
    <3>1. CASE q = p
      BY <1>10, <3>1 DEF StartOf
    <3>2. CASE q # p
      BY <1>10, <3>2 DEF StartOf, SettingsInv
    <3> QED
      BY <3>1, <3>2
  <2> QED
    BY <1>3, <2>1 DEF Good
<1>11. lost' = lost
  BY DEF StartOf
<1> QED
  BY <1>1, <1>2, <1>4, <1>6, <1>8, <1>9, <1>10, <1>11 DEF SettingsInv

\* Everyone who had read the file before somebody truncates it is told.
LEMMA TruncateKeeps ==
  ASSUME SettingsInv, NEW p \in Process, S!Truncate(p)
  PROVE  SettingsInv'
<1> DEFINE next == [process[p] EXCEPT !.pc = "write"]
<1>1. /\ process[p].pc \in {"change", "create"} /\ file' = S!EmptyText
      /\ S!Touch(p, next) /\ UNCHANGED <<commands, settings, lost>>
  BY DEF S!Truncate
<1>2. /\ DOMAIN next = {"pc", "config", "edit", "stale"} /\ next.pc = "write"
      /\ next.config = process[p].config /\ next.stale = process[p].stale
      /\ next.stale \in BOOLEAN /\ S!ToToml(next.config) \in S!Text
  BY <1>1 DEF SettingsInv, SettingsForm
<1> HIDE DEF next
<1>3. /\ process' \in [Process -> {process'[q] : q \in Process}] /\ process'[p] = next
      /\ \A q \in Process :
           /\ DOMAIN process'[q] = {"pc", "config", "edit", "stale"}
           /\ process'[q].pc \in {"rest", "change", "create", "write", "editor"}
           /\ process'[q].stale \in BOOLEAN
           /\ process'[q].pc \in {"change", "create", "write"} =>
                S!ToToml(process'[q].config) \in S!Text
      /\ \A q \in Process \ {p} :
           /\ process'[q].pc = process[q].pc
           /\ process[q].pc \in {"change", "create", "write"} => process'[q].stale
  BY <1>1, <1>2, TouchEffect DEF SettingsInv
<1>4. S!EmptyText \in S!Text /\ S!EmptyText # None
  BY EmptyIsText, WkgAssumption
<1>5. SettingsForm'
  BY <1>1, <1>3, <1>4 DEF SettingsInv, SettingsForm
<1>6. p \in S!Writing'
  BY <1>2, <1>3 DEF S!Writing
<1>7. Wanted' = Wanted
  BY <1>1 DEF Wanted
<1>8. ASSUME NEW q \in Process, process'[q].pc \in {"change", "create", "write"},
             ~process'[q].stale
      PROVE  q = p
  BY <1>3, <1>8
<1>9. ASSUME ~lost, ~process'[p].stale
      PROVE  Good(process[p].config)'
  <2>1. Good(process[p].config)
    BY <1>1, <1>2, <1>3, <1>9 DEF SettingsInv
  <2>2. process'[p].config = process[p].config
    BY <1>2, <1>3
  <2> QED
    BY <1>7, <2>1, <2>2 DEF Good
<1>10. \A q \in S!Writing' : q \in Process /\ process'[q].pc = "write"
  BY DEF S!Writing
<1>11. process'[p].pc = "write"
  BY <1>2, <1>3
<1> QED
  BY <1>1, <1>4, <1>5, <1>6, <1>8, <1>9, <1>10, <1>11 DEF SettingsInv

\* A command that knows of no other writes what is wanted.
LEMMA FillKeeps ==
  ASSUME SettingsInv, NEW p \in Process, S!Fill(p)
  PROVE  SettingsInv'
<1> DEFINE next == IF process[p].edit THEN S!InEditor ELSE S!AtRest
           config == process[p].config
<1>1. /\ process[p].pc = "write" /\ file' = S!ToToml(config)
      /\ settings' = [Wanted EXCEPT !.default = config.default]
      /\ lost' = (lost \/ process[p].stale)
      /\ S!Touch(p, next) /\ UNCHANGED commands
  BY DEF S!Fill, Wanted
<1>2. /\ DOMAIN next = {"pc", "config", "edit", "stale"} /\ next.pc \in {"editor", "rest"}
      /\ next.stale \in BOOLEAN
  BY DEF S!InEditor, S!AtRest
<1> HIDE DEF next, config
<1>3. /\ process' \in [Process -> {process'[q] : q \in Process}] /\ process'[p] = next
      /\ \A q \in Process :
           /\ DOMAIN process'[q] = {"pc", "config", "edit", "stale"}
           /\ process'[q].pc \in {"rest", "change", "create", "write", "editor"}
           /\ process'[q].stale \in BOOLEAN
           /\ process'[q].pc \in {"change", "create", "write"} =>
                S!ToToml(process'[q].config) \in S!Text
      /\ \A q \in Process \ {p} :
           /\ process'[q].pc = process[q].pc
           /\ process[q].pc \in {"change", "create", "write"} => process'[q].stale
  BY <1>1, <1>2, TouchEffect DEF SettingsInv
<1>4. S!ToToml(config) \in S!Text /\ S!ToToml(config) # None
      /\ S!ToToml(config).default = config.default
  BY <1>1, WkgAssumption DEF SettingsInv, SettingsForm, config, S!ToToml
<1>5. Wanted \in S!Text
  BY EmptyIsText DEF Wanted, SettingsInv, SettingsForm
<1>6. /\ settings' \in S!Text
      /\ S!WithoutAliases(settings') = [S!WithoutAliases(Wanted) EXCEPT !.default = config.default]
  BY <1>1, <1>4, <1>5, OtherDefault
<1>7. SettingsForm'
  BY <1>1, <1>3, <1>4, <1>6 DEF SettingsInv, SettingsForm
<1>8. ASSUME NEW q \in Process, process'[q].pc \in {"change", "create", "write"}
      PROVE  process'[q].stale
  BY <1>2, <1>3, <1>8
<1>9. ASSUME ~lost'
      PROVE  S!WithoutAliases(file') = S!WithoutAliases(settings')
  <2>1. Good(config)
    BY <1>1, <1>9 DEF SettingsInv, config
  <2>2. file' = S!WithoutAliases(settings')
    BY <1>1, <1>6, <2>1 DEF Good
  <2>3. S!WithoutAliases(S!WithoutAliases(settings')) = S!WithoutAliases(settings')
    BY <1>6, WrittenText
  <2> QED
    BY <2>2, <2>3
<1>10. S!WithoutAliases(file)' = S!WithoutAliases(file')
       /\ S!WithoutAliases(settings)' = S!WithoutAliases(settings')
  BY DEF S!WithoutAliases
<1>11. \A q \in S!Writing' : q \in Process /\ process'[q].pc = "write"
  BY DEF S!Writing
<1> QED
  BY <1>1, <1>4, <1>7, <1>8, <1>9, <1>10, <1>11 DEF SettingsInv

\* What the user saves is what is wanted.
LEMMA SaveKeeps ==
  ASSUME SettingsInv, NEW p \in Process, S!Save(p)
  PROVE  SettingsInv'
<1>1. PICK text \in Texts : file' = text /\ settings' = text
  BY DEF S!Save
<1>2. S!Touch(p, S!AtRest) /\ UNCHANGED commands
  BY DEF S!Save
<1>3. /\ DOMAIN S!AtRest = {"pc", "config", "edit", "stale"} /\ S!AtRest.pc = "rest"
      /\ S!AtRest.stale = FALSE
  BY DEF S!AtRest
<1>4. /\ process' \in [Process -> {process'[q] : q \in Process}] /\ process'[p] = S!AtRest
      /\ \A q \in Process :
           /\ DOMAIN process'[q] = {"pc", "config", "edit", "stale"}
           /\ process'[q].pc \in {"rest", "change", "create", "write", "editor"}
           /\ process'[q].stale \in BOOLEAN
           /\ process'[q].pc \in {"change", "create", "write"} =>
                S!ToToml(process'[q].config) \in S!Text
      /\ \A q \in Process \ {p} :
           /\ process'[q].pc = process[q].pc
           /\ process[q].pc \in {"change", "create", "write"} => process'[q].stale
  BY <1>2, <1>3, TouchEffect DEF SettingsInv
<1>5. text \in S!Text /\ text # None
  BY WkgAssumption
<1>6. SettingsForm'
  BY <1>1, <1>2, <1>4, <1>5 DEF SettingsInv, SettingsForm
<1>7. ASSUME NEW q \in Process, process'[q].pc \in {"change", "create", "write"}
      PROVE  process'[q].stale
  BY <1>3, <1>4, <1>7
<1>8. S!WithoutAliases(file)' = S!WithoutAliases(settings)'
  BY <1>1 DEF S!WithoutAliases
<1>9. \A q \in S!Writing' : q \in Process /\ process'[q].pc = "write"
  BY DEF S!Writing
<1> QED
  BY <1>1, <1>5, <1>6, <1>7, <1>8, <1>9 DEF SettingsInv

\* A command that dies while it writes loses what was there.
LEMMA QuitKeeps ==
  ASSUME SettingsInv, NEW p \in Process, S!Quit(p)
  PROVE  SettingsInv'
<1>1. /\ lost' = (lost \/ process[p].pc = "write")
      /\ process' = [process EXCEPT ![p] = S!AtRest]
      /\ UNCHANGED <<file, commands, settings>>
  BY DEF S!Quit
<1>2. /\ DOMAIN S!AtRest = {"pc", "config", "edit", "stale"} /\ S!AtRest.pc = "rest"
      /\ S!AtRest.stale = FALSE
  BY DEF S!AtRest
<1>3. process'[p] = S!AtRest /\ \A q \in Process \ {p} : process'[q] = process[q]
  BY <1>1 DEF SettingsInv, SettingsForm
<1>4. process' \in [Process -> {process'[q] : q \in Process}]
  BY <1>1 DEF SettingsInv, SettingsForm
<1>5. SettingsForm'
  BY <1>1, <1>2, <1>3, <1>4 DEF SettingsInv, SettingsForm
<1>6. S!Writing' = S!Writing \ {p}
  BY <1>2, <1>3 DEF S!Writing
<1>7. ASSUME ~lost'
      PROVE  ~lost /\ S!Writing' = S!Writing
  BY <1>1, <1>6, <1>7 DEF S!Writing
<1>8. Wanted' = Wanted
  BY <1>1 DEF Wanted
<1>9. ASSUME ~lost', NEW q \in Process, process'[q].pc \in {"change", "create", "write"},
             ~process'[q].stale
      PROVE  Good(process[q].config)'
  <2>1. q # p /\ process'[q] = process[q]
    BY <1>2, <1>3, <1>9
  <2>2. Good(process[q].config)
    BY <1>7, <1>9, <2>1 DEF SettingsInv
  <2> QED
    BY <1>8, <2>1, <2>2 DEF Good
<1>10. ASSUME NEW q \in Process, process'[q].pc \in {"change", "create"}, S!Writing' # {}
       PROVE  process'[q].stale
  BY <1>2, <1>3, <1>6, <1>10 DEF SettingsInv
<1>11. ASSUME NEW x \in S!Writing', NEW y \in S!Writing', x # y
       PROVE  process'[x].stale \/ process'[y].stale
  <2>1. process'[x] = process[x] /\ process'[y] = process[y]
    BY <1>3, <1>6 DEF S!Writing
  <2> QED
    BY <1>6, <1>11, <2>1 DEF SettingsInv
<1>12. ASSUME ~lost', S!Writing' = {}
       PROVE  S!WithoutAliases(file)' = S!WithoutAliases(settings)'
  BY <1>1, <1>7, <1>12 DEF SettingsInv, S!WithoutAliases
<1>13. file' = None => S!Writing' = {}
  BY <1>1, <1>6 DEF SettingsInv
<1> QED
  BY <1>5, <1>9, <1>10, <1>11, <1>12, <1>13 DEF SettingsInv

\* Every step keeps the invariant.
LEMMA SettingsInvStep ==
  SettingsInv /\ [S!SettingsNext]_settingsState => SettingsInv'
<1> SUFFICES ASSUME SettingsInv, [S!SettingsNext]_settingsState
             PROVE  SettingsInv'
  OBVIOUS
<1>1. CASE UNCHANGED settingsState
  BY <1>1 DEF settingsState, SettingsInv, SettingsForm, S!Writing, S!WithoutAliases, Good, Wanted
<1>2. CASE S!SettingsNext
  <2>1. PICK p \in Process : \/ S!Read(p) \/ S!Edit(p) \/ S!Truncate(p) \/ S!Fill(p)
                            \/ S!Save(p) \/ S!Quit(p)
    BY <1>2 DEF S!SettingsNext
  <2>2. CASE S!Read(p)
    BY <2>2, ReadEffect, StartKeeps
  <2>3. CASE S!Edit(p)
    BY <2>3, EditEffect, StartKeeps
  <2>4. CASE S!Truncate(p)
    BY <2>4, TruncateKeeps
  <2>5. CASE S!Fill(p)
    BY <2>5, FillKeeps
  <2>6. CASE S!Save(p)
    BY <2>6, SaveKeeps
  <2>7. CASE S!Quit(p)
    BY <2>7, QuitKeeps
  <2> QED
    BY <2>1, <2>2, <2>3, <2>4, <2>5, <2>6, <2>7
<1> QED
  BY <1>1, <1>2

\* The settings keep their types, ...
LEMMA SettingsTyped == SettingsInv => S!SettingsTypeOK
BY DEF SettingsInv, SettingsForm, S!SettingsTypeOK

\* ... and hold what is wanted.
LEMMA SettingsAreKept == SettingsInv => SettingsKept
BY DEF SettingsInv, SettingsKept, S!SettingsKept

\* The part starts as it does by itself, ...
LEMMA SettingsStart == Init => S!SettingsInit
BY DEF Init

\* ... and a step is one of the part, or the part stutters.
LEMMA SettingsPart == [Next]_vars => [S!SettingsNext]_settingsState
BY DEF Next, vars, settingsState

\* The invariant holds of every behaviour.
LEMMA SettingsAlways == Spec => []SettingsInv
<1>1. Init => SettingsInv
  BY SettingsStart, SettingsInvInit
<1>2. SettingsInv /\ [Next]_vars => SettingsInv'
  BY SettingsPart, SettingsInvStep
<1> QED
  BY <1>1, <1>2, PTL DEF Spec

\* For any number of processes and whatever users save, the file holds all that was asked
\* for, unless two commands overlapped or one died between truncating the file and filling
\* it (ConfigArgs::run, Config::to_file).
THEOREM SettingsStay == Spec => []SettingsKept
<1> QED
  BY SettingsAlways, SettingsAreKept, PTL

-----------------------------------------------------------------------------
\* One chunk is under way, or none.
UnderWay(r) == IF r.pending THEN 1 ELSE 0

\* A command has received as much as it should have, unless a write failed.
GetterInv(g) ==
  LET r == getter[g]
  IN  /\ DOMAIN r = {"pc", "args", "release", "temp", "pending", "wit", "opened"}
      /\ r.pc \in {"start", "stream", "decode", "place", "write", "fill", "exit", "done", "cut"}
      /\ r.pending \in BOOLEAN /\ r.wit \in BOOLEAN
      /\ r.pending => g \notin refused /\ ~r.wit /\ r.pc \notin {"start", "fill"}
      /\ r.pc \in {"start", "stream", "decode"} => ~r.wit
      /\ r.pc \in {"stream", "decode", "place", "write", "fill"} =>
           r.args \in Arguments /\ r.release \in Downloads
      /\ r.pc \in {"stream", "decode", "place", "write"} \/ (r.pc = "exit" /\ r.pending) =>
           /\ r.temp \in G!Files /\ r.temp.by = g
           /\ r.temp.chunks + UnderWay(r) <= (IF r.pc = "stream" THEN Whole - 1 ELSE Whole)
           /\ r.pc # "stream" /\ g \notin refused => r.temp.chunks + UnderWay(r) = Whole

\* A file of the user's that is where a command is going to write was put there after the
\* command had looked, or is to be overwritten; one that it has truncated is nobody else's.
PlaceInv(g) ==
  LET f == files[G!Path(g)]
  IN  /\ G!At(g, "write") /\ f # None /\ f.by = User =>
           G!Args(g).overwrite \/ g \in f.unseen
      /\ G!At(g, "fill") => f # None /\ f.by # User

\* A file is whole, or the command that wrote it is not done with it or was cut short.
WholeInv(p) ==
  LET f == files[p]
      r == getter[f.by]
  IN  f # None =>
        \/ f.chunks = Whole
        \/ f.by \in refused \cup crossed
        \/ f.by \in Getter /\ r.pc = "exit" /\ r.pending /\ r.temp = f
        \/ f.by \in Getter /\ r.pc = "fill" /\ G!Path(f.by) = p /\ r.opened = f.inode
        \/ f.by \in Getter /\ r.pc = "cut"

GetForm ==
  /\ files \in [G!Paths -> G!Files \cup {None}] /\ directory \in BOOLEAN
  /\ refused \subseteq Getter /\ getter \in [Getter -> {getter[g] : g \in Getter}]

GetInv ==
  /\ GetForm
  /\ \A g \in Getter : GetterInv(g) /\ PlaceInv(g)
  /\ \A p \in G!Paths : WholeInv(p)
-----------------------------------------------------------------------------
(* `wkg get` and `wkg oci pull` *)

\* The paths are places for files.
LEMMA PathKnown ==
  ASSUME NEW g \in Getter, getter[g].release \in Downloads
  PROVE  G!Path(g) \in G!Paths
BY DEF G!Path, G!Paths, G!Forms

\* A file that a command starts
LEMMA FileStarted ==
  ASSUME NEW g \in Getter, NEW r \in Downloads, NEW form \in G!Forms
  PROVE  /\ G!File(r.version, form, 0, g) \in G!Files
         /\ G!File(r.version, form, 0, g).by = g /\ G!File(r.version, form, 0, g).chunks = 0
BY WkgAssumption DEF G!File, G!Files

\* What one command does leaves the others as they are.
OneMoves(g) ==
  /\ getter' \in [Getter -> {getter'[h] : h \in Getter}]
  /\ \A h \in Getter \ {g} : getter'[h] = getter[h]

\* A command that only moves on
LEMMA GoToEffect ==
  ASSUME GetForm, NEW g \in Getter, GetterInv(g), NEW pc, G!GoTo(g, pc)
  PROVE  /\ OneMoves(g)
         /\ DOMAIN getter'[g] = {"pc", "args", "release", "temp", "pending", "wit", "opened"}
         /\ getter'[g].pc = pc /\ getter'[g].args = getter[g].args
         /\ getter'[g].release = getter[g].release /\ getter'[g].temp = getter[g].temp
         /\ getter'[g].pending = getter[g].pending /\ getter'[g].wit = getter[g].wit
         /\ getter'[g].opened = getter[g].opened
<1> DEFINE next == [getter[g] EXCEPT !.pc = pc]
<1>1. getter' = [getter EXCEPT ![g] = next]
  BY DEF G!GoTo
<1>2. /\ DOMAIN next = {"pc", "args", "release", "temp", "pending", "wit", "opened"}
      /\ next.pc = pc /\ next.args = getter[g].args
      /\ next.release = getter[g].release /\ next.temp = getter[g].temp
      /\ next.pending = getter[g].pending /\ next.wit = getter[g].wit
      /\ next.opened = getter[g].opened
  BY DEF GetterInv
<1> HIDE DEF next
<1>3. getter'[g] = next /\ \A h \in Getter \ {g} : getter'[h] = getter[h]
  BY <1>1 DEF GetForm
<1>4. getter' \in [Getter -> {getter'[h] : h \in Getter}]
  BY <1>1 DEF GetForm
<1> QED
  BY <1>2, <1>3, <1>4 DEF OneMoves

\* What a command that is given another state becomes
LEMMA BecomeEffect ==
  ASSUME GetForm, NEW g \in Getter, NEW next, getter' = [getter EXCEPT ![g] = next]
  PROVE  OneMoves(g) /\ getter'[g] = next
BY DEF GetForm, OneMoves

\* A command that does not move keeps its part of the invariant.
LEMMA OthersKeep ==
  ASSUME NEW h \in Getter, GetterInv(h), getter'[h] = getter[h],
         h \in refused' <=> h \in refused
  PROVE  GetterInv(h)' /\ (G!Path(h))' = G!Path(h)
<1>1. GetterInv(h)'
  BY DEF GetterInv, UnderWay
<1>2. (G!Path(h))' = G!Path(h)
  BY DEF G!Path, G!Args
<1> QED
  BY <1>1, <1>2

\* A step of a command that has not written the output and does not touch it
LEMMA QuietKeeps ==
  ASSUME GetInv, NEW g \in Getter, OneMoves(g), UNCHANGED <<files, refused, crossed>>,
         directory' \in BOOLEAN, GetterInv(g)', PlaceInv(g)',
         getter[g].pc \notin {"fill", "cut"}, ~(getter[g].pc = "exit" /\ getter[g].pending)
  PROVE  GetInv'
<1>1. GetForm'
  BY DEF GetInv, GetForm, OneMoves
<1>2. ASSUME NEW h \in Getter \ {g}
      PROVE  GetterInv(h)' /\ PlaceInv(h)'
  <2>1. GetterInv(h) /\ PlaceInv(h) /\ getter'[h] = getter[h]
    BY DEF GetInv, OneMoves
  <2>2. GetterInv(h)' /\ (G!Path(h))' = G!Path(h)
    BY <2>1, OthersKeep
  <2>3. PlaceInv(h)'
    BY <2>1, <2>2 DEF PlaceInv, G!At, G!Args
  <2> QED
    BY <2>2, <2>3
<1>3. ASSUME NEW p \in G!Paths
      PROVE  WholeInv(p)'
  <2>1. WholeInv(p)
    BY DEF GetInv
  <2>2. CASE files[p] # None /\ files[p].by \in Getter \ {g}
    <3>1. getter'[files[p].by] = getter[files[p].by]
      BY <2>2 DEF OneMoves
    <3>2. (G!Path(files[p].by))' = G!Path(files[p].by)
      BY <3>1 DEF G!Path, G!Args
    <3> QED
      BY <2>1, <3>1, <3>2 DEF WholeInv
  <2>3. CASE files[p] # None /\ files[p].by = g
    BY <2>1, <2>3 DEF WholeInv
  <2>4. CASE files[p] = None \/ files[p].by \notin Getter
    BY <2>1, <2>4 DEF WholeInv
  <2> QED
    BY <2>2, <2>3, <2>4
<1> QED
  BY <1>1, <1>2, <1>3 DEF GetInv

\* A command that has not come to the output yet has nothing to do with it.
LEMMA PlaceNotReached ==
  ASSUME NEW g \in Getter, getter'[g].pc \notin {"write", "fill"}
  PROVE  PlaceInv(g)'
BY DEF PlaceInv, G!At

\* A command starts to receive, or fails before it has touched anything.
LEMMA GetStartKeeps ==
  ASSUME GetInv, NEW g \in Getter, G!Start(g)
  PROVE  GetInv'
<1>1. PICK args \in {a \in Arguments : ~a.pull} :
        /\ directory' = (directory \/ (args.directory /\ G!Asked(args) # {}))
        /\ \/ /\ directory'
              /\ \E r \in G!Asked(args) :
                   G!Become(g, [G!NotStarted EXCEPT !.pc = "stream", !.args = args,
                                  !.release = r, !.temp = G!File(r.version, "wasm", 0, g)])
           \/ (G!Asked(args) = {} \/ ~directory') /\ G!GoTo(g, "done")
  BY DEF G!Start
<1>2. getter[g].pc = "start" /\ UNCHANGED <<files, refused, crossed>>
  BY DEF G!Start, G!At
<1>3. directory' \in BOOLEAN
  BY <1>1 DEF GetInv, GetForm
<1>4. ASSUME NEW r \in G!Asked(args),
             G!Become(g, [G!NotStarted EXCEPT !.pc = "stream", !.args = args,
                            !.release = r, !.temp = G!File(r.version, "wasm", 0, g)])
      PROVE  OneMoves(g) /\ GetterInv(g)' /\ PlaceInv(g)'
  <2> DEFINE temp == G!File(r.version, "wasm", 0, g)
             next == [G!NotStarted EXCEPT !.pc = "stream", !.args = args, !.release = r,
                                          !.temp = temp]
  <2>1. r \in Downloads
    BY DEF G!Asked
  <2>2. temp \in G!Files /\ temp.by = g /\ temp.chunks = 0
    BY <2>1, FileStarted DEF G!Forms
  <2> HIDE DEF temp
  <2>3. getter' = [getter EXCEPT ![g] = next]
    BY <1>4 DEF G!Become, temp
  <2>4. /\ DOMAIN next = {"pc", "args", "release", "temp", "pending", "wit", "opened"}
        /\ next.pc = "stream" /\ next.args = args /\ next.release = r /\ next.temp = temp
        /\ next.pending = FALSE /\ next.wit = FALSE
    BY DEF G!NotStarted
  <2> HIDE DEF next
  <2>5. OneMoves(g) /\ getter'[g] = next
    BY <2>3, BecomeEffect DEF GetInv
  <2>6. 0 <= Whole - 1
    BY WkgAssumption
  <2>7. next.temp.chunks + UnderWay(next) <= Whole - 1
    BY <2>2, <2>4, <2>6 DEF UnderWay
  <2>9. UnderWay(next)' = UnderWay(next)
    BY DEF UnderWay
  <2>10. GetterInv(g)'
    BY <2>1, <2>2, <2>4, <2>5, <2>7, <2>9 DEF GetterInv
  <2>8. PlaceInv(g)'
    BY <2>4, <2>5, PlaceNotReached
  <2> QED
    BY <2>5, <2>8, <2>10
<1>5. ASSUME G!GoTo(g, "done")
      PROVE  OneMoves(g) /\ GetterInv(g)' /\ PlaceInv(g)'
  <2>1. GetterInv(g)
    BY DEF GetInv
  <2>2. /\ OneMoves(g)
        /\ DOMAIN getter'[g] = {"pc", "args", "release", "temp", "pending", "wit", "opened"}
        /\ getter'[g].pc = "done" /\ getter'[g].pending = getter[g].pending
        /\ getter'[g].wit = getter[g].wit
    BY <1>5, <2>1, GoToEffect DEF GetInv
  <2>3. GetterInv(g)'
    BY <1>2, <2>1, <2>2 DEF GetterInv
  <2>4. PlaceInv(g)'
    BY <2>2, PlaceNotReached
  <2> QED
    BY <2>2, <2>3, <2>4
<1>6. OneMoves(g) /\ GetterInv(g)' /\ PlaceInv(g)'
  BY <1>1, <1>4, <1>5
<1> QED
  BY <1>2, <1>3, <1>6, QuietKeeps

\* A chunk that arrives is written by the time the next one is, unless that failed.
LEMMA ReceiveKeeps ==
  ASSUME GetInv, NEW g \in Getter, G!Receive(g)
  PROVE  GetInv'
<1> DEFINE r == getter[g]
<1>1. r.pc = "stream" /\ UNCHANGED <<files, directory, refused, crossed>>
  BY DEF G!Receive, G!At, G!Fail
<1>2. GetterInv(g)
  BY DEF GetInv
<1>3. ASSUME ~r.pending, g \notin refused,
             getter' = [getter EXCEPT ![g].pending = TRUE,
               ![g].pc = IF getter[g].temp.chunks = Whole - 1 THEN "decode" ELSE "stream"]
      PROVE  OneMoves(g) /\ GetterInv(g)' /\ PlaceInv(g)'
  <2> DEFINE pc == IF r.temp.chunks = Whole - 1 THEN "decode" ELSE "stream"
             next == [r EXCEPT !.pending = TRUE, !.pc = pc]
  <2>1. getter' = [getter EXCEPT ![g] = next]
    BY <1>3 DEF GetInv, GetForm
  <2>2. /\ DOMAIN next = {"pc", "args", "release", "temp", "pending", "wit", "opened"}
        /\ next.pc = pc /\ next.args = r.args /\ next.release = r.release
        /\ next.temp = r.temp /\ next.pending = TRUE /\ next.wit = r.wit
    BY <1>2 DEF GetterInv
  <2> HIDE DEF next
  <2>3. OneMoves(g) /\ getter'[g] = next
    BY <2>1, BecomeEffect DEF GetInv
  <2>4. /\ r.temp \in G!Files /\ r.temp.by = g /\ r.temp.chunks <= Whole - 1
        /\ r.temp.chunks \in Nat /\ Whole \in Nat
    BY <1>1, <1>2, <1>3, WkgAssumption DEF GetterInv, UnderWay, G!Files
  <2> HIDE DEF pc
  <2>5. /\ r.temp.chunks + 1 <= (IF pc = "stream" THEN Whole - 1 ELSE Whole)
        /\ pc # "stream" => r.temp.chunks + 1 = Whole
        /\ pc \in {"decode", "stream"}
    BY <2>4 DEF pc
  <2>7. r.args \in Arguments /\ r.release \in Downloads /\ ~r.wit /\ r.wit \in BOOLEAN
    BY <1>1, <1>2 DEF GetterInv
  <2>8. GetterInv(g)'
    BY <1>1, <1>3, <2>2, <2>3, <2>4, <2>5, <2>7 DEF GetterInv, UnderWay
  <2>6. PlaceInv(g)'
    BY <2>2, <2>3, <2>5, PlaceNotReached
  <2> QED
    BY <2>3, <2>6, <2>8
<1>4. ASSUME G!GoTo(g, "done")
      PROVE  OneMoves(g) /\ GetterInv(g)' /\ PlaceInv(g)'
  <2>1. /\ OneMoves(g)
        /\ DOMAIN getter'[g] = {"pc", "args", "release", "temp", "pending", "wit", "opened"}
        /\ getter'[g].pc = "done" /\ getter'[g].pending = r.pending
        /\ getter'[g].wit = r.wit
    BY <1>2, <1>4, GoToEffect DEF GetInv
  <2>2. GetterInv(g)'
    BY <1>1, <1>2, <2>1 DEF GetterInv
  <2>3. PlaceInv(g)'
    BY <2>1, PlaceNotReached
  <2> QED
    BY <2>1, <2>2, <2>3
<1>5. OneMoves(g) /\ GetterInv(g)' /\ PlaceInv(g)'
  BY <1>3, <1>4 DEF G!Receive, G!Fail
<1>6. directory' \in BOOLEAN
  BY <1>1 DEF GetInv, GetForm
<1> QED
  BY <1>1, <1>5, <1>6, QuietKeeps

\* What decoding shows of the release
LEMMA DecodeGetKeeps ==
  ASSUME GetInv, NEW g \in Getter, G!Decode(g)
  PROVE  GetInv'
<1> DEFINE r == getter[g]
<1>1. r.pc = "decode" /\ UNCHANGED <<files, directory, refused, crossed>>
  BY DEF G!Decode, G!At
<1>2. GetterInv(g)
  BY DEF GetInv
<1>3. ASSUME NEW pc \in {"place", "done"}, G!GoTo(g, pc)
      PROVE  OneMoves(g) /\ GetterInv(g)' /\ PlaceInv(g)'
  <2>1. /\ OneMoves(g)
        /\ DOMAIN getter'[g] = {"pc", "args", "release", "temp", "pending", "wit", "opened"}
        /\ getter'[g].pc = pc /\ getter'[g].args = r.args
        /\ getter'[g].release = r.release /\ getter'[g].temp = r.temp
        /\ getter'[g].pending = r.pending /\ getter'[g].wit = r.wit
    BY <1>2, <1>3, GoToEffect DEF GetInv
  <2>2. GetterInv(g)'
    BY <1>1, <1>2, <2>1 DEF GetterInv, UnderWay
  <2>3. PlaceInv(g)'
    BY <2>1, PlaceNotReached
  <2> QED
    BY <2>1, <2>2, <2>3
<1>4. ASSUME ~r.pending,
             getter' = [getter EXCEPT ![g].pc = "place",
                                      ![g].wit = getter[g].release.kind = "package"]
      PROVE  OneMoves(g) /\ GetterInv(g)' /\ PlaceInv(g)'
  <2> DEFINE wit == r.release.kind = "package"
             next == [r EXCEPT !.pc = "place", !.wit = wit]
  <2>1. getter' = [getter EXCEPT ![g] = next]
    BY <1>4 DEF GetInv, GetForm
  <2>2. /\ DOMAIN next = {"pc", "args", "release", "temp", "pending", "wit", "opened"}
        /\ next.pc = "place" /\ next.args = r.args /\ next.release = r.release
        /\ next.temp = r.temp /\ next.pending = r.pending /\ next.wit \in BOOLEAN
    BY <1>2 DEF GetterInv
  <2> HIDE DEF next
  <2>3. OneMoves(g) /\ getter'[g] = next
    BY <2>1, BecomeEffect DEF GetInv
  <2>4. GetterInv(g)'
    BY <1>1, <1>2, <1>4, <2>2, <2>3 DEF GetterInv, UnderWay
  <2>5. PlaceInv(g)'
    BY <2>2, <2>3, PlaceNotReached
  <2> QED
    BY <2>3, <2>4, <2>5
<1>5. OneMoves(g) /\ GetterInv(g)' /\ PlaceInv(g)'
  BY <1>3, <1>4 DEF G!Decode
<1>6. directory' \in BOOLEAN
  BY <1>1 DEF GetInv, GetForm
<1> QED
  BY <1>1, <1>5, <1>6, QuietKeeps

\* A command that checks writes nothing.
LEMMA CheckKeeps ==
  ASSUME GetInv, NEW g \in Getter, G!Check(g)
  PROVE  GetInv'
<1> DEFINE r == getter[g]
<1>1. r.pc = "place" /\ UNCHANGED <<files, directory, refused, crossed>> /\ G!GoTo(g, "exit")
  BY DEF G!Check, G!At
<1>2. GetterInv(g)
  BY DEF GetInv
<1>3. /\ OneMoves(g)
      /\ DOMAIN getter'[g] = {"pc", "args", "release", "temp", "pending", "wit", "opened"}
      /\ getter'[g].pc = "exit" /\ getter'[g].args = r.args
      /\ getter'[g].release = r.release /\ getter'[g].temp = r.temp
      /\ getter'[g].pending = r.pending /\ getter'[g].wit = r.wit
  BY <1>1, <1>2, GoToEffect DEF GetInv
<1>4. GetterInv(g)'
  BY <1>1, <1>2, <1>3 DEF GetterInv, UnderWay
<1>5. PlaceInv(g)'
  BY <1>3, PlaceNotReached
<1>6. directory' \in BOOLEAN
  BY <1>1 DEF GetInv, GetForm
<1> QED
  BY <1>1, <1>3, <1>4, <1>5, <1>6, QuietKeeps

\* A command goes on to write if it may overwrite, or there is nothing.
LEMMA LookKeeps ==
  ASSUME GetInv, NEW g \in Getter, G!Look(g)
  PROVE  GetInv'
<1> DEFINE r == getter[g]
           pc == IF G!Args(g).overwrite \/ files[G!Path(g)] = None THEN "write" ELSE "exit"
<1>1. r.pc = "place" /\ UNCHANGED <<files, directory, refused, crossed>> /\ G!GoTo(g, pc)
  BY DEF G!Look, G!At
<1>2. GetterInv(g)
  BY DEF GetInv
<1>3. /\ OneMoves(g)
      /\ DOMAIN getter'[g] = {"pc", "args", "release", "temp", "pending", "wit", "opened"}
      /\ getter'[g].pc = pc /\ getter'[g].args = r.args
      /\ getter'[g].release = r.release /\ getter'[g].temp = r.temp
      /\ getter'[g].pending = r.pending /\ getter'[g].wit = r.wit
  BY <1>1, <1>2, GoToEffect DEF GetInv
<1>4. pc \in {"write", "exit"}
  OBVIOUS
<1>5. (G!Path(g))' = G!Path(g) /\ (G!Args(g))' = G!Args(g)
  BY <1>3 DEF G!Path, G!Args
<1>6. PlaceInv(g)'
  BY <1>1, <1>3, <1>5 DEF PlaceInv, G!At
<1> HIDE DEF pc
<1>7. GetterInv(g)'
  BY <1>1, <1>2, <1>3, <1>4 DEF GetterInv, UnderWay
<1>8. directory' \in BOOLEAN
  BY <1>1 DEF GetInv, GetForm
<1> QED
  BY <1>1, <1>3, <1>6, <1>7, <1>8, QuietKeeps

\* A command ends when nothing of what it has received is under way.
LEMMA ExitKeeps ==
  ASSUME GetInv, NEW g \in Getter, G!Exit(g)
  PROVE  GetInv'
<1> DEFINE r == getter[g]
<1>1. /\ r.pc = "exit" /\ ~r.pending /\ UNCHANGED <<files, directory, refused, crossed>>
      /\ G!GoTo(g, "done")
  BY DEF G!Exit, G!At
<1>2. GetterInv(g)
  BY DEF GetInv
<1>3. /\ OneMoves(g)
      /\ DOMAIN getter'[g] = {"pc", "args", "release", "temp", "pending", "wit", "opened"}
      /\ getter'[g].pc = "done" /\ getter'[g].pending = r.pending /\ getter'[g].wit = r.wit
  BY <1>1, <1>2, GoToEffect DEF GetInv
<1>4. GetterInv(g)'
  BY <1>1, <1>2, <1>3 DEF GetterInv
<1>5. PlaceInv(g)'
  BY <1>3, PlaceNotReached
<1>6. directory' \in BOOLEAN
  BY <1>1 DEF GetInv, GetForm
<1> QED
  BY <1>1, <1>3, <1>4, <1>5, <1>6, QuietKeeps

\* A command that writes the output keeps the invariant if it keeps it there.
LEMMA PutKeeps ==
  ASSUME GetInv, NEW g \in Getter, OneMoves(g), NEW path \in G!Paths,
         NEW new \in G!Files, new.by = g, files' = [files EXCEPT ![path] = new],
         UNCHANGED <<directory, refused, crossed>>,
         GetterInv(g)', PlaceInv(g)', WholeInv(path)', getter[g].pc \notin {"fill", "exit", "cut"}
  PROVE  GetInv'
<1>1. new # None /\ g # User
  BY WkgAssumption
<1>2. files'[path] = new /\ \A p \in G!Paths \ {path} : files'[p] = files[p]
  BY DEF GetInv, GetForm
<1>3. GetForm'
  BY DEF GetInv, GetForm, OneMoves
<1>4. ASSUME NEW h \in Getter \ {g}
      PROVE  GetterInv(h)' /\ PlaceInv(h)'
  <2>1. GetterInv(h) /\ PlaceInv(h) /\ getter'[h] = getter[h]
    BY DEF GetInv, OneMoves
  <2>2. GetterInv(h)' /\ (G!Path(h))' = G!Path(h)
    BY <2>1, OthersKeep
  <2>3. ASSUME getter[h].pc \in {"write", "fill"}
        PROVE  G!Path(h) \in G!Paths
    BY <2>1, <2>3, PathKnown DEF GetterInv
  <2>4. CASE getter[h].pc \in {"write", "fill"} /\ G!Path(h) = path
    BY <1>1, <1>2, <2>1, <2>2, <2>4 DEF PlaceInv, G!At
  <2>5. CASE getter[h].pc \in {"write", "fill"} /\ G!Path(h) # path
    <3>1. files'[G!Path(h)] = files[G!Path(h)]
      BY <1>2, <2>3, <2>5
    <3>2. PlaceInv(h)'
      BY <2>1, <2>2, <3>1 DEF PlaceInv, G!At, G!Args
    <3> QED
      BY <2>2, <3>2
  <2>6. CASE getter[h].pc \notin {"write", "fill"}
    BY <2>1, <2>2, <2>6, PlaceNotReached
  <2> QED
    BY <2>2, <2>4, <2>5, <2>6
<1>5. ASSUME NEW p \in G!Paths \ {path}
      PROVE  WholeInv(p)'
  <2>1. WholeInv(p) /\ files'[p] = files[p]
    BY <1>2 DEF GetInv
  <2>2. CASE files[p] # None /\ files[p].by \in Getter \ {g}
    <3>1. getter'[files[p].by] = getter[files[p].by]
      BY <2>2 DEF OneMoves
    <3>2. (G!Path(files[p].by))' = G!Path(files[p].by)
      BY <2>1, <3>1 DEF G!Path, G!Args
    <3> QED
      BY <2>1, <3>1, <3>2 DEF WholeInv
  <2>3. CASE files[p] # None /\ files[p].by = g
    BY <2>1, <2>3 DEF WholeInv
  <2>4. CASE files[p] = None \/ files[p].by \notin Getter
    BY <2>1, <2>4 DEF WholeInv
  <2> QED
    BY <2>2, <2>3, <2>4
<1> QED
  BY <1>3, <1>4, <1>5 DEF GetInv

\* Where a command writes, and what it replaces
Replaces(g) ==
  \E path \in G!Paths, new \in G!Files :
    /\ files' = [files EXCEPT ![path] = new] /\ new.by = g
    /\ files[path] # None /\ files[path].by = User =>
         getter'[g].args.overwrite \/ getter'[g].args.pull \/ g \in files[path].unseen

\* The temporary file becomes the output, whole or about to be.
LEMMA PersistKeeps ==
  ASSUME GetInv, NEW g \in Getter, G!Persist(g)
  PROVE  GetInv' /\ Replaces(g)
<1> DEFINE r == getter[g]
<1>1. /\ r.pc = "write" /\ ~r.wit /\ UNCHANGED <<directory, refused, crossed>>
      /\ files' = [files EXCEPT ![G!Path(g)] = r.temp] /\ G!GoTo(g, "exit")
  BY DEF G!Persist, G!At
<1>2. GetterInv(g) /\ PlaceInv(g)
  BY DEF GetInv
<1>3. /\ OneMoves(g)
      /\ DOMAIN getter'[g] = {"pc", "args", "release", "temp", "pending", "wit", "opened"}
      /\ getter'[g].pc = "exit" /\ getter'[g].args = r.args
      /\ getter'[g].release = r.release /\ getter'[g].temp = r.temp
      /\ getter'[g].pending = r.pending /\ getter'[g].wit = r.wit
  BY <1>1, <1>2, GoToEffect DEF GetInv
<1>4. PICK temp \in G!Files : temp = r.temp /\ temp.by = g /\ temp # None
  BY <1>1, <1>2, WkgAssumption DEF GetterInv
<1>5. PICK path \in G!Paths : path = G!Path(g)
  BY <1>1, <1>2, PathKnown DEF GetterInv
<1>6. files' = [files EXCEPT ![path] = temp] /\ files'[path] = temp
  BY <1>1, <1>4, <1>5 DEF GetInv, GetForm
<1>7. GetterInv(g)'
  BY <1>1, <1>2, <1>3 DEF GetterInv, UnderWay
<1>8. PlaceInv(g)'
  BY <1>3, PlaceNotReached
<1>9. WholeInv(path)'
  <2>1. CASE r.pending
    BY <1>3, <1>4, <1>6, <2>1 DEF WholeInv
  <2>2. CASE ~r.pending /\ g \notin refused
    <3>1. temp.chunks + 0 = Whole /\ temp.chunks \in Nat
      BY <1>1, <1>2, <1>4, <2>2 DEF GetterInv, UnderWay, G!Files
    <3>2. temp.chunks = Whole
      BY <3>1
    <3> QED
      BY <1>6, <3>2 DEF WholeInv
  <2>3. CASE g \in refused
    BY <1>1, <1>4, <1>6, <2>3 DEF WholeInv
  <2> QED
    BY <2>1, <2>2, <2>3
<1>10. GetInv'
  BY <1>1, <1>3, <1>4, <1>5, <1>6, <1>7, <1>8, <1>9, PutKeeps
<1>11. files[path] # None /\ files[path].by = User =>
         r.args.overwrite \/ g \in files[path].unseen
  BY <1>1, <1>2, <1>5 DEF PlaceInv, G!At, G!Args
<1> QED
  BY <1>3, <1>4, <1>5, <1>6, <1>10, <1>11 DEF Replaces

\* The output is truncated, and will be filled by the same command.
LEMMA TruncateGetKeeps ==
  ASSUME GetInv, NEW g \in Getter, NEW next, G!Truncate(g, next),
         DOMAIN next = {"pc", "args", "release", "temp", "pending", "wit", "opened"},
         next.pending = FALSE, next.wit \in BOOLEAN,
         next.args \in Arguments, next.release \in Downloads,
         next.args.directory => next.wit,
         getter[g].pc \in {"start", "write"},
         LET path == IF next.args.directory THEN <<next.release.version, "wit">> ELSE G!Named
         IN  files[path] # None /\ files[path].by = User =>
               \/ next.args.overwrite \/ next.args.pull \/ g \in files[path].unseen
  PROVE  GetInv' /\ Replaces(g)
<1>1. PICK path \in G!Paths :
        path = IF next.args.directory THEN <<next.release.version, "wit">> ELSE G!Named
  BY DEF G!Paths, G!Forms
<1> DEFINE old == files[path]
           fresh == G!File(next.release.version, IF next.wit THEN "wit" ELSE "wasm", 0, g)
<1>2. PICK inode \in Getter \cup {User} : inode = IF old = None THEN g ELSE old.inode
  BY DEF G!Files, GetInv, GetForm
<1>3. PICK form \in G!Forms : form = IF next.wit THEN "wit" ELSE "wasm"
  BY DEF G!Forms
<1>4. [fresh EXCEPT !.inode = inode] =
        [version |-> next.release.version, form |-> form, chunks |-> 0, by |-> g,
         inode |-> inode, unseen |-> {}]
  BY <1>3 DEF G!File
<1>5. PICK new \in G!Files : new = [fresh EXCEPT !.inode = inode]
  BY <1>4, WkgAssumption DEF G!Files
<1>6. new.by = g /\ new.inode = inode /\ new # None /\ new.chunks = 0
  BY <1>4, <1>5, WkgAssumption
<1> DEFINE after == [next EXCEPT !.pc = "fill", !.opened = new.inode]
<1>7. /\ files' = [files EXCEPT ![path] = new]
      /\ getter' = [getter EXCEPT ![g] = after]
      /\ UNCHANGED <<directory, refused, crossed>>
  BY <1>1, <1>2, <1>5 DEF G!Truncate, G!Become
<1>9. /\ DOMAIN after = {"pc", "args", "release", "temp", "pending", "wit", "opened"}
      /\ after.pc = "fill" /\ after.opened = new.inode /\ after.args = next.args
      /\ after.release = next.release /\ after.pending = FALSE /\ after.wit = next.wit
  OBVIOUS
<1> HIDE DEF after
<1>10. OneMoves(g) /\ getter'[g] = after
  BY <1>7, BecomeEffect DEF GetInv
<1>11. GetterInv(g)'
  BY <1>9, <1>10 DEF GetterInv
<1>12. files'[path] = new
  BY <1>7 DEF GetInv, GetForm
<1>13. (G!Path(g))' = path
  BY <1>1, <1>9, <1>10 DEF G!Path, G!Args
<1>14. g # User
  BY WkgAssumption
<1>15. PlaceInv(g)'
  BY <1>6, <1>9, <1>10, <1>12, <1>13, <1>14 DEF PlaceInv, G!At
<1>16. WholeInv(path)'
  BY <1>6, <1>9, <1>10, <1>12, <1>13 DEF WholeInv
<1>17. GetInv'
  BY <1>6, <1>7, <1>10, <1>11, <1>15, <1>16, PutKeeps
<1>18. files[path] # None /\ files[path].by = User =>
         next.args.overwrite \/ next.args.pull \/ g \in files[path].unseen
  BY <1>1
<1> QED
  BY <1>6, <1>7, <1>9, <1>10, <1>17, <1>18 DEF Replaces

\* WIT is printed over an output that nobody asked to keep.
LEMMA WriteWitKeeps ==
  ASSUME GetInv, NEW g \in Getter, G!WriteWit(g)
  PROVE  GetInv' /\ Replaces(g)
<1>1. getter[g].pc = "write" /\ getter[g].wit /\ G!Truncate(g, getter[g])
  BY DEF G!WriteWit, G!At
<1>2. GetterInv(g) /\ PlaceInv(g)
  BY DEF GetInv
<1>3. PICK next : next = getter[g]
  OBVIOUS
<1>4. /\ DOMAIN next = {"pc", "args", "release", "temp", "pending", "wit", "opened"}
      /\ next.pending = FALSE /\ next.wit \in BOOLEAN /\ next.wit = TRUE
      /\ next.args \in Arguments /\ next.release \in Downloads
  BY <1>1, <1>2, <1>3 DEF GetterInv
<1>5. G!Path(g) = IF next.args.directory THEN <<next.release.version, "wit">> ELSE G!Named
  BY <1>3, <1>4 DEF G!Path, G!Args
<1>6. files[G!Path(g)] # None /\ files[G!Path(g)].by = User =>
        next.args.overwrite \/ g \in files[G!Path(g)].unseen
  BY <1>1, <1>2, <1>3 DEF PlaceInv, G!At, G!Args
<1>7. G!Truncate(g, next)
  BY <1>1, <1>3
<1> QED
  BY <1>1, <1>4, <1>5, <1>6, <1>7, TruncateGetKeeps

\* `wkg oci pull` writes over whatever there is.
LEMMA PullKeeps ==
  ASSUME GetInv, NEW g \in Getter, G!Pull(g)
  PROVE  GetInv' /\ Replaces(g)
<1>1. PICK args \in {a \in Arguments : a.pull}, r \in Downloads :
        G!Truncate(g, [G!NotStarted EXCEPT !.args = args, !.release = r])
  BY DEF G!Pull
<1>2. getter[g].pc = "start"
  BY DEF G!Pull, G!At
<1>3. PICK next : next = [G!NotStarted EXCEPT !.args = args, !.release = r]
  OBVIOUS
<1>4. /\ DOMAIN next = {"pc", "args", "release", "temp", "pending", "wit", "opened"}
      /\ next.pending = FALSE /\ next.wit = FALSE
      /\ next.args = args /\ next.release = r
  BY <1>3 DEF G!NotStarted
<1>5. args.pull /\ ~args.directory
  BY WkgAssumption
<1>6. G!Truncate(g, next)
  BY <1>1, <1>3
<1> QED
  BY <1>2, <1>4, <1>5, <1>6, TruncateGetKeeps

\* What the command that truncated an output writes into it is not put into a file of the
\* user's, and makes the output whole, unless the command is cut short.
LEMMA PutGetKeeps ==
  ASSUME GetInv, NEW g \in Getter, G!At(g, "fill"), NEW chunks \in 0 .. Whole,
         NEW pc \in {"exit", "cut"}, pc = "exit" => chunks = Whole,
         G!Put(g, chunks), G!GoTo(g, pc)
  PROVE  /\ GetInv'
         /\ \A p \in G!Paths : files[p] # None /\ files[p].by = User => files'[p] = files[p]
<1> DEFINE r == getter[g]
<1>1. r.pc = "fill" /\ UNCHANGED <<directory, refused>>
  BY DEF G!Put, G!At
<1>2. GetterInv(g) /\ PlaceInv(g)
  BY DEF GetInv
<1>3. PICK path \in G!Paths : path = G!Path(g)
  BY <1>1, <1>2, PathKnown DEF GetterInv
<1> DEFINE f == files[path]
           here == f # None /\ f.inode = r.opened /\ f.chunks < chunks
<1>4. /\ files' = IF here THEN [files EXCEPT ![path].chunks = chunks] ELSE files
      /\ crossed \subseteq crossed'
      /\ f # None /\ f.inode = r.opened /\ f.by # g /\ chunks > 0 => f.by \in crossed'
  BY <1>3 DEF G!Put
<1>5. f # None /\ f.by # User /\ f \in G!Files
  BY <1>1, <1>2, <1>3 DEF PlaceInv, G!At, GetInv, GetForm
<1>6. PICK filled \in G!Files : /\ filled = [f EXCEPT !.chunks = chunks]
                               /\ filled.chunks = chunks /\ filled.by = f.by
                               /\ filled.inode = f.inode /\ filled # None
  <2>1. [f EXCEPT !.chunks = chunks] =
          [version |-> f.version, form |-> f.form, chunks |-> chunks, by |-> f.by,
           inode |-> f.inode, unseen |-> f.unseen]
    BY <1>5 DEF G!Files
  <2>2. [f EXCEPT !.chunks = chunks] \in G!Files
    BY <1>5, <2>1 DEF G!Files
  <2> QED
    BY <2>1, <2>2, WkgAssumption
<1>7. /\ files' \in [G!Paths -> G!Files \cup {None}]
      /\ \A p \in G!Paths \ {path} : files'[p] = files[p]
      /\ files'[path] = IF here THEN filled ELSE f
  <2>1. CASE here
    <3>1. files' = [files EXCEPT ![path] = filled]
      BY <1>4, <1>6, <2>1 DEF GetInv, GetForm
    <3> QED
      BY <2>1, <3>1 DEF GetInv, GetForm
  <2>2. CASE ~here
    BY <1>4, <2>2 DEF GetInv, GetForm
  <2> QED
    BY <2>1, <2>2
<1>8. /\ OneMoves(g)
      /\ DOMAIN getter'[g] = {"pc", "args", "release", "temp", "pending", "wit", "opened"}
      /\ getter'[g].pc = pc /\ getter'[g].args = r.args
      /\ getter'[g].release = r.release /\ getter'[g].temp = r.temp
      /\ getter'[g].pending = r.pending /\ getter'[g].wit = r.wit
  BY <1>2, GoToEffect DEF GetInv
<1>9. GetForm'
  BY <1>1, <1>7, <1>8 DEF GetInv, GetForm, OneMoves
<1>10. GetterInv(g)'
  BY <1>1, <1>2, <1>8 DEF GetterInv
<1>11. PlaceInv(g)'
  BY <1>8, PlaceNotReached
<1>12. files'[path] # None /\ files'[path].by = f.by
  BY <1>5, <1>6, <1>7
<1>13. ASSUME NEW h \in Getter \ {g}
       PROVE  GetterInv(h)' /\ PlaceInv(h)'
  <2>1. GetterInv(h) /\ PlaceInv(h) /\ getter'[h] = getter[h]
    BY <1>8 DEF GetInv, OneMoves
  <2>2. GetterInv(h)' /\ (G!Path(h))' = G!Path(h)
    BY <1>1, <2>1, OthersKeep
  <2>3. ASSUME getter[h].pc \in {"write", "fill"}
        PROVE  G!Path(h) \in G!Paths
    BY <2>1, <2>3, PathKnown DEF GetterInv
  <2>4. CASE getter[h].pc \in {"write", "fill"} /\ G!Path(h) = path
    <3>1. PlaceInv(h)'
      BY <1>5, <1>12, <2>2, <2>4 DEF PlaceInv
    <3> QED
      BY <2>2, <3>1
  <2>5. CASE getter[h].pc \in {"write", "fill"} /\ G!Path(h) # path
    <3>1. files'[G!Path(h)] = files[G!Path(h)]
      BY <1>7, <2>3, <2>5
    <3>2. PlaceInv(h)'
      BY <2>1, <2>2, <3>1 DEF PlaceInv, G!At, G!Args
    <3> QED
      BY <2>2, <3>2
  <2>6. CASE getter[h].pc \notin {"write", "fill"}
    BY <2>1, <2>2, <2>6, PlaceNotReached
  <2> QED
    BY <2>2, <2>4, <2>5, <2>6
<1>14. ASSUME NEW p \in G!Paths
       PROVE  WholeInv(p)'
  <2>1. WholeInv(p) /\ (files[p] # None => files[p] \in G!Files)
    BY DEF GetInv, GetForm
  <2>2. files[p] # None => files'[p] # None /\ files'[p].by = files[p].by
                           /\ files'[p].inode = files[p].inode
    BY <1>6, <1>7
  <2>3. CASE files[p] # None /\ files[p].by = g
    <3>1. CASE pc = "cut"
      BY <1>8, <2>2, <2>3, <3>1 DEF WholeInv
    <3>2. CASE pc = "exit" /\ files'[p].chunks = Whole
      BY <3>2 DEF WholeInv
    <3>3. CASE pc = "exit" /\ files'[p].chunks # Whole
      <4>1. chunks = Whole /\ Whole \in Nat
        BY <3>3, WkgAssumption
      <4>2. files'[p] = files[p] /\ files[p].chunks # Whole
        <5>1. ~(p = path /\ here)
          BY <1>6, <1>7, <3>3, <4>1
        <5> QED
          BY <1>7, <3>3, <5>1
      <4>3. files[p].chunks < Whole
        BY <2>1, <2>3, <4>1, <4>2 DEF G!Files
      <4>4. ~(p = path /\ files[p].inode = r.opened)
        BY <1>6, <1>7, <2>3, <3>3, <4>1, <4>3
      <4>5. g \in refused \cup crossed
        BY <1>1, <1>3, <2>1, <2>3, <4>2, <4>4 DEF WholeInv
      <4> QED
        BY <1>1, <1>4, <2>2, <2>3, <4>5 DEF WholeInv
    <3> QED
      BY <3>1, <3>2, <3>3
  <2>4. CASE files[p] # None /\ files[p].by \in Getter \ {g}
    <3>1. getter'[files[p].by] = getter[files[p].by]
      BY <1>8, <2>4 DEF OneMoves
    <3>2. (G!Path(files[p].by))' = G!Path(files[p].by)
      BY <2>2, <2>4, <3>1 DEF G!Path, G!Args
    <3>3. CASE files'[p] = files[p]
      <4>1. files[p].by \in refused \cup crossed => files[p].by \in refused' \cup crossed'
        BY <1>1, <1>4
      <4> HIDE DEF f, here
      <4> QED
        BY <2>1, <3>1, <3>2, <3>3, <4>1 DEF WholeInv
    <3>4. CASE files'[p] # files[p]
      <4>1. p = path /\ here
        BY <1>7, <3>4
      <4>2. f.chunks \in Nat
        BY <1>5 DEF G!Files
      <4>3. chunks > 0
        BY <4>1, <4>2
      <4>4. files[p].by \in crossed'
        BY <1>4, <2>4, <4>1, <4>3
      <4> QED
        BY <2>2, <2>4, <4>4 DEF WholeInv
    <3> QED
      BY <3>3, <3>4
  <2>5. CASE files[p] = None \/ files[p].by \notin Getter
    <3>1. files'[p] = files[p] \/ files[p].by \in crossed'
      <4>1. CASE files'[p] # files[p]
        <5>1. p = path /\ here
          BY <1>7, <4>1
        <5>2. f.chunks \in Nat
          BY <1>5 DEF G!Files
        <5>3. chunks > 0
          BY <5>1, <5>2
        <5> QED
          BY <1>4, <2>5, <5>1, <5>3
      <4> QED
        BY <4>1
    <3> QED
      <4>1. files[p].by \in refused \cup crossed => files[p].by \in refused' \cup crossed'
        BY <1>1, <1>4
      <4>2. CASE files[p] = None
        <5>1. files'[p] = None
          BY <1>5, <1>7, <4>2
        <5> QED
          BY <5>1 DEF WholeInv
      <4>3. CASE files[p] # None /\ files'[p] = files[p]
        BY <2>1, <2>5, <4>1, <4>3 DEF WholeInv
      <4>4. CASE files[p] # None /\ files[p].by \in crossed'
        BY <2>2, <4>4 DEF WholeInv
      <4> QED
        BY <3>1, <4>2, <4>3, <4>4
  <2> QED
    BY <2>3, <2>4, <2>5
<1>15. GetInv'
  BY <1>9, <1>10, <1>11, <1>13, <1>14 DEF GetInv
<1> QED
  BY <1>5, <1>7, <1>15

\* The output is filled, ...
LEMMA FillGetKeeps ==
  ASSUME GetInv, NEW g \in Getter, G!Fill(g)
  PROVE  /\ GetInv'
         /\ \A p \in G!Paths : files[p] # None /\ files[p].by = User => files'[p] = files[p]
<1>1. G!At(g, "fill") /\ G!Put(g, Whole) /\ G!GoTo(g, "exit") /\ Whole \in 0 .. Whole
  BY WkgAssumption DEF G!Fill
<1> QED
  BY <1>1, PutGetKeeps

\* ... or torn.
LEMMA TearKeeps ==
  ASSUME GetInv, NEW g \in Getter, G!Tear(g)
  PROVE  /\ GetInv'
         /\ \A p \in G!Paths : files[p] # None /\ files[p].by = User => files'[p] = files[p]
<1>1. PICK chunks \in 0 .. Whole - 1 : G!Put(g, chunks)
  BY DEF G!Tear
<1>2. G!At(g, "fill") /\ G!GoTo(g, "cut") /\ chunks \in 0 .. Whole
  BY WkgAssumption DEF G!Tear
<1> QED
  BY <1>1, <1>2, PutGetKeeps

\* A command that ends early leaves the files as they are, and may leave one torn that its
\* last write was to complete.
LEMMA QuitGetKeeps ==
  ASSUME GetInv, NEW g \in Getter, G!Quit(g)
  PROVE  GetInv'
<1> DEFINE r == getter[g]
           pc == IF G!At(g, "exit") /\ r.pending THEN "cut" ELSE "done"
<1>1. /\ r.pc \notin {"start", "fill", "done", "cut"} /\ G!GoTo(g, pc)
      /\ UNCHANGED <<files, directory, refused, crossed>>
  BY DEF G!Quit, G!Ended
<1>2. GetterInv(g)
  BY DEF GetInv
<1>3. /\ OneMoves(g)
      /\ DOMAIN getter'[g] = {"pc", "args", "release", "temp", "pending", "wit", "opened"}
      /\ getter'[g].pc = pc /\ getter'[g].pending = r.pending /\ getter'[g].wit = r.wit
  BY <1>1, <1>2, GoToEffect DEF GetInv
<1>4. GetterInv(g)'
  BY <1>1, <1>2, <1>3 DEF GetterInv
<1>5. PlaceInv(g)'
  BY <1>3, PlaceNotReached
<1>6. CASE ~(r.pc = "exit" /\ r.pending)
  <2>1. directory' \in BOOLEAN
    BY <1>1 DEF GetInv, GetForm
  <2> QED
    BY <1>1, <1>3, <1>4, <1>5, <1>6, <2>1, QuietKeeps
<1>7. CASE r.pc = "exit" /\ r.pending
  <2>1. GetForm'
    BY <1>1, <1>3 DEF GetInv, GetForm, OneMoves
  <2>2. getter'[g].pc = "cut"
    BY <1>3, <1>7 DEF G!At
  <2>3. ASSUME NEW h \in Getter \ {g}
        PROVE  GetterInv(h)' /\ PlaceInv(h)'
    <3>1. GetterInv(h) /\ PlaceInv(h) /\ getter'[h] = getter[h]
      BY <1>3 DEF GetInv, OneMoves
    <3>2. GetterInv(h)' /\ (G!Path(h))' = G!Path(h)
      BY <1>1, <3>1, OthersKeep
    <3>3. PlaceInv(h)'
      BY <1>1, <3>1, <3>2 DEF PlaceInv, G!At, G!Args
    <3> QED
      BY <3>2, <3>3
  <2>4. ASSUME NEW p \in G!Paths
        PROVE  WholeInv(p)'
    <3>1. WholeInv(p) /\ files'[p] = files[p]
      BY <1>1 DEF GetInv
    <3>2. CASE files[p] # None /\ files[p].by \in Getter \ {g}
      <4>1. getter'[files[p].by] = getter[files[p].by]
        BY <1>3, <3>2 DEF OneMoves
      <4>2. (G!Path(files[p].by))' = G!Path(files[p].by)
        BY <3>1, <4>1 DEF G!Path, G!Args
      <4> QED
        BY <1>1, <3>1, <4>1, <4>2 DEF WholeInv
    <3>3. CASE files[p] # None /\ files[p].by = g
      BY <2>2, <3>1, <3>3 DEF WholeInv
    <3>4. CASE files[p] = None \/ files[p].by \notin Getter
      BY <1>1, <3>1, <3>4 DEF WholeInv
    <3> QED
      BY <3>2, <3>3, <3>4
  <2> QED
    BY <1>4, <1>5, <2>1, <2>3, <2>4 DEF GetInv
<1> QED
  BY <1>6, <1>7

\* The write that was under way happens, or fails.
LEMMA LandKeeps ==
  ASSUME GetInv, NEW g \in Getter, G!Land(g)
  PROVE  /\ GetInv'
         /\ \A p \in G!Paths : files[p] # None /\ files[p].by = User => files'[p] = files[p]
<1> DEFINE r == getter[g]
<1>1. r.pending /\ r.pc \notin {"done", "cut"} /\ directory' = directory
  BY DEF G!Land, G!Ended
<1>2. GetterInv(g) /\ PlaceInv(g)
  BY DEF GetInv
<1>3. /\ r.pc \in {"stream", "decode", "place", "write", "exit"} /\ g \notin refused
      /\ r.temp \in G!Files /\ r.temp.by = g
      /\ r.temp.chunks + 1 <= (IF r.pc = "stream" THEN Whole - 1 ELSE Whole)
      /\ r.pc # "stream" => r.temp.chunks + 1 = Whole
      /\ r.wit \in BOOLEAN /\ ~r.wit /\ r.temp.chunks \in Nat /\ Whole \in Nat
      /\ r.pc # "exit" => r.args \in Arguments /\ r.release \in Downloads
  BY <1>1, <1>2, WkgAssumption DEF GetterInv, UnderWay, G!Files
<1>4. CASE /\ getter' = [getter EXCEPT ![g].pending = FALSE, ![g].temp.chunks = @ + 1]
           /\ files' = [p \in G!Paths |->
                IF G!At(g, "exit") /\ files[p] = getter[g].temp THEN getter'[g].temp ELSE files[p]]
           /\ crossed' = crossed \cup
                {files[p].by : p \in {p \in G!Paths : /\ G!At(g, "exit") /\ files[p] # None
                                                    /\ files[p].inode = g /\ files[p].by # g}}
           /\ refused' = refused
  <2>1. PICK temp \in G!Files : /\ temp = [r.temp EXCEPT !.chunks = @ + 1] /\ temp.by = g
                               /\ temp.chunks = r.temp.chunks + 1 /\ temp # None
    <3>1. [r.temp EXCEPT !.chunks = @ + 1] =
            [version |-> r.temp.version, form |-> r.temp.form, chunks |-> r.temp.chunks + 1,
             by |-> r.temp.by, inode |-> r.temp.inode, unseen |-> r.temp.unseen]
      BY <1>3 DEF G!Files
    <3>2. r.temp.chunks + 1 \in 0 .. Whole
      BY <1>3, WkgAssumption DEF G!Files
    <3>3. [r.temp EXCEPT !.chunks = @ + 1] \in G!Files
      BY <1>3, <3>1, <3>2 DEF G!Files
    <3> QED
      BY <1>3, <3>1, <3>3, WkgAssumption
  <2> DEFINE next == [r EXCEPT !.pending = FALSE, !.temp = temp]
  <2>2. getter' = [getter EXCEPT ![g] = next]
    <3>1. getter'[g] = [r EXCEPT !.pending = FALSE, !.temp.chunks = @ + 1]
      BY <1>4 DEF GetInv, GetForm
    <3>2. [r EXCEPT !.pending = FALSE, !.temp.chunks = @ + 1] =
            [r EXCEPT !.pending = FALSE, !.temp = [r.temp EXCEPT !.chunks = @ + 1]]
      OBVIOUS
    <3> QED
      BY <1>4, <2>1, <3>1, <3>2 DEF GetInv, GetForm
  <2>3. /\ DOMAIN next = {"pc", "args", "release", "temp", "pending", "wit", "opened"}
        /\ next.pc = r.pc /\ next.args = r.args
        /\ next.release = r.release /\ next.temp = temp
        /\ next.pending = FALSE /\ next.wit = r.wit
    BY <1>2 DEF GetterInv
  <2> HIDE DEF next
  <2>4. OneMoves(g) /\ getter'[g] = next
    BY <2>2, BecomeEffect DEF GetInv
  <2>5. ASSUME NEW p \in G!Paths
        PROVE  files'[p] = IF r.pc = "exit" /\ files[p] = r.temp THEN temp ELSE files[p]
    <3>1. getter'[g].temp = temp
      BY <2>3, <2>4
    <3>2. files'[p] = IF r.pc = "exit" /\ files[p] = r.temp THEN getter'[g].temp ELSE files[p]
      BY <1>4 DEF G!At
    <3> QED
      BY <3>1, <3>2
  <2>6. files' \in [G!Paths -> G!Files \cup {None}]
    BY <1>4, <2>5 DEF GetInv, GetForm
  <2>7. GetForm'
    BY <1>1, <1>4, <2>4, <2>6 DEF GetInv, GetForm, OneMoves
  <2>8. GetterInv(g)'
    <3>1. UnderWay(getter[g])' = 0
      BY <2>3, <2>4 DEF UnderWay
    <3>2. /\ temp.chunks + 0 <= (IF r.pc = "stream" THEN Whole - 1 ELSE Whole)
          /\ r.pc # "stream" => temp.chunks + 0 = Whole
      BY <1>3, <2>1
    <3> QED
      BY <1>3, <2>1, <2>3, <2>4, <3>1, <3>2 DEF GetterInv
  <2>9. ASSUME NEW p \in G!Paths
        PROVE  /\ files[p] # None => files'[p] # None /\ files'[p].by = files[p].by
               /\ files'[p] # files[p] => files[p].by = g /\ files'[p].chunks = Whole
    BY <1>3, <2>1, <2>5
  <2>10. g # User
    BY WkgAssumption
  <2>11. ASSUME NEW h \in Getter
         PROVE  GetterInv(h)' /\ PlaceInv(h)'
    <3>1. GetterInv(h)' /\ (G!Path(h))' = G!Path(h)
      <4>1. CASE h = g
        BY <2>3, <2>4, <2>8, <4>1 DEF G!Path, G!Args
      <4>2. CASE h # g
        BY <1>4, <2>4, <4>2, OthersKeep DEF GetInv, OneMoves
      <4> QED
        BY <4>1, <4>2
    <3>2. getter'[h].pc = getter[h].pc /\ getter'[h].args = getter[h].args
      BY <2>3, <2>4 DEF OneMoves
    <3>3. PlaceInv(h) /\ GetterInv(h)
      BY DEF GetInv
    <3>4. CASE getter[h].pc \in {"write", "fill"}
      <4>1. G!Path(h) \in G!Paths
        BY <3>3, <3>4, PathKnown DEF GetterInv
      <4>2. PICK q \in G!Paths : q = G!Path(h)
        BY <4>1
      <4>3. CASE files'[q] = files[q]
        <5>1. PlaceInv(h)'
          BY <3>1, <3>2, <3>3, <4>2, <4>3 DEF PlaceInv, G!At, G!Args
        <5> QED
          BY <3>1, <5>1
      <4>4. CASE files'[q] # files[q]
        <5>1. files[q].by = g
          BY <2>9, <4>4
        <5>2. getter[h].pc = "fill" => files[q] # None /\ files'[q] # None /\ files'[q].by = g
          BY <2>9, <3>3, <4>2, <5>1 DEF PlaceInv, G!At
        <5>3. files[q] # None
          BY <2>5, <4>4, <1>3, WkgAssumption
        <5>4. files'[q].by # User
          BY <2>9, <2>10, <5>1, <5>3
        <5>5. PlaceInv(h)'
          BY <3>1, <3>2, <4>2, <5>2, <5>4 DEF PlaceInv, G!At
        <5> QED
          BY <3>1, <5>5
      <4> QED
        BY <4>3, <4>4
    <3>5. CASE getter[h].pc \notin {"write", "fill"}
      BY <3>1, <3>2, <3>5, PlaceNotReached
    <3> QED
      BY <3>4, <3>5
  <2>12. ASSUME NEW p \in G!Paths
         PROVE  WholeInv(p)'
    <3>1. CASE files'[p] # files[p]
      BY <2>9, <3>1 DEF WholeInv
    <3>2. CASE files'[p] = files[p]
      <4>1. WholeInv(p)
        BY DEF GetInv
      <4>2. CASE files[p] # None /\ files[p].by \in Getter \ {g}
        <5>1. getter'[files[p].by] = getter[files[p].by]
          BY <2>4, <4>2 DEF OneMoves
        <5>2. (G!Path(files[p].by))' = G!Path(files[p].by)
          BY <3>2, <5>1 DEF G!Path, G!Args
        <5>3. refused' = refused /\ crossed \subseteq crossed'
          BY <1>4
        <5> QED
          BY <3>2, <4>1, <5>1, <5>2, <5>3 DEF WholeInv
      <4>3. CASE files[p] # None /\ files[p].by = g
        <5>1. ~(r.pc = "exit" /\ r.temp = files[p])
          <6>1. r.temp # temp
            BY <1>3, <2>1 DEF G!Files
          <6> QED
            BY <2>5, <3>2, <6>1
        <5>2. files[p].chunks = Whole \/ g \in refused \cup crossed
          BY <1>3, <4>1, <4>3, <5>1 DEF WholeInv
        <5>3. refused' = refused /\ crossed \subseteq crossed'
          BY <1>4
        <5> QED
          BY <3>2, <4>3, <5>2, <5>3 DEF WholeInv
      <4>4. CASE files[p] = None \/ files[p].by \notin Getter
        <5>1. refused' = refused /\ crossed \subseteq crossed'
          BY <1>4
        <5> QED
          BY <3>2, <4>1, <4>4, <5>1 DEF WholeInv
      <4> QED
        BY <4>2, <4>3, <4>4
    <3> QED
      BY <3>1, <3>2
  <2> QED
    BY <2>7, <2>9, <2>10, <2>11, <2>12 DEF GetInv
<1>5. CASE /\ getter' = [getter EXCEPT ![g].pending = FALSE]
           /\ refused' = refused \cup {g}
           /\ UNCHANGED <<files, crossed>>
  <2> DEFINE next == [r EXCEPT !.pending = FALSE]
  <2>1. getter' = [getter EXCEPT ![g] = next]
    BY <1>5 DEF GetInv, GetForm
  <2>2. /\ DOMAIN next = {"pc", "args", "release", "temp", "pending", "wit", "opened"}
        /\ next.pc = r.pc /\ next.args = r.args
        /\ next.release = r.release /\ next.temp = r.temp
        /\ next.pending = FALSE /\ next.wit = r.wit
    BY <1>2 DEF GetterInv
  <2> HIDE DEF next
  <2>3. OneMoves(g) /\ getter'[g] = next
    BY <2>1, BecomeEffect DEF GetInv
  <2>4. GetForm'
    BY <1>1, <1>5, <2>3 DEF GetInv, GetForm, OneMoves
  <2>5. r.temp.chunks + 0 <= (IF r.pc = "stream" THEN Whole - 1 ELSE Whole)
    BY <1>3
  <2>6. GetterInv(g)'
    <3>1. UnderWay(getter[g])' = 0 /\ g \in refused'
      BY <1>5, <2>2, <2>3 DEF UnderWay
    <3> QED
      BY <1>3, <2>2, <2>3, <2>5, <3>1 DEF GetterInv
  <2>7. ASSUME NEW h \in Getter
        PROVE  GetterInv(h)' /\ PlaceInv(h)'
    <3>1. GetterInv(h)' /\ (G!Path(h))' = G!Path(h)
      <4>1. CASE h = g
        BY <2>2, <2>3, <2>6, <4>1 DEF G!Path, G!Args
      <4>2. CASE h # g
        BY <1>5, <2>3, <4>2, OthersKeep DEF GetInv, OneMoves
      <4> QED
        BY <4>1, <4>2
    <3>2. getter'[h].pc = getter[h].pc /\ getter'[h].args = getter[h].args
      BY <2>2, <2>3 DEF OneMoves
    <3>3. PlaceInv(h) /\ files' = files
      BY <1>5 DEF GetInv
    <3>4. PlaceInv(h)'
      BY <3>1, <3>2, <3>3 DEF PlaceInv, G!At, G!Args
    <3> QED
      BY <3>1, <3>4
  <2>8. ASSUME NEW p \in G!Paths
        PROVE  WholeInv(p)'
    <3>1. WholeInv(p)
      BY DEF GetInv
    <3>2. CASE files[p] # None /\ files[p].by \in Getter \ {g}
      <4>1. getter'[files[p].by] = getter[files[p].by]
        BY <2>3, <3>2 DEF OneMoves
      <4>2. (G!Path(files[p].by))' = G!Path(files[p].by)
        BY <1>5, <4>1 DEF G!Path, G!Args
      <4> QED
        BY <1>5, <3>1, <4>1, <4>2 DEF WholeInv
    <3>3. CASE files[p] # None /\ files[p].by = g
      BY <1>5, <3>3 DEF WholeInv
    <3>4. CASE files[p] = None \/ files[p].by \notin Getter
      BY <1>5, <3>1, <3>4 DEF WholeInv
    <3> QED
      BY <3>2, <3>3, <3>4
  <2> QED
    BY <1>5, <2>4, <2>7, <2>8 DEF GetInv
<1> QED
  BY <1>4, <1>5 DEF G!Land

\* A user saves a file, and the commands that are about to write do not know of it.
LEMMA SaveGetKeeps ==
  ASSUME GetInv, G!Save
  PROVE  /\ GetInv'
         /\ \A p \in G!Paths : files[p] # None => files'[p] = files[p]
<1> DEFINE writers == {g \in Getter : G!At(g, "write")}
           base == G!File(0, "wasm", Whole, User)
<1>1. PICK saved \in G!Files : /\ saved = [base EXCEPT !.unseen = writers] /\ saved.by = User
                              /\ saved.chunks = Whole /\ saved.unseen = writers
  <2>1. [base EXCEPT !.unseen = writers] =
          [version |-> 0, form |-> "wasm", chunks |-> Whole, by |-> User, inode |-> User,
           unseen |-> writers]
    BY DEF G!File
  <2>2. [base EXCEPT !.unseen = writers] \in G!Files
    BY <2>1, WkgAssumption DEF G!Files, G!Forms
  <2> QED
    BY <2>1, <2>2
<1>2. /\ files[G!Named] = None /\ directory' = TRUE
      /\ files' = [files EXCEPT ![G!Named] = saved]
      /\ UNCHANGED <<getter, refused, crossed>>
  BY <1>1 DEF G!Save
<1>3. G!Named \in G!Paths
  BY DEF G!Paths
<1>4. files'[G!Named] = saved /\ \A p \in G!Paths \ {G!Named} : files'[p] = files[p]
  BY <1>2, <1>3 DEF GetInv, GetForm
<1>5. GetForm'
  BY <1>2 DEF GetInv, GetForm
<1>6. ASSUME NEW g \in Getter
      PROVE  GetterInv(g)' /\ PlaceInv(g)'
  <2>1. GetterInv(g) /\ PlaceInv(g)
    BY DEF GetInv
  <2>2. GetterInv(g)' /\ (G!Path(g))' = G!Path(g)
    BY <1>2, <2>1, OthersKeep
  <2>3. CASE getter[g].pc \in {"write", "fill"} /\ G!Path(g) = G!Named
    <3>1. ~G!At(g, "fill")
      BY <1>2, <2>1, <2>3 DEF PlaceInv
    <3>2. G!At(g, "write") => g \in saved.unseen
      BY <1>1
    <3>3. PlaceInv(g)'
      BY <1>2, <1>4, <2>2, <2>3, <3>1, <3>2 DEF PlaceInv, G!At
    <3> QED
      BY <2>2, <3>3
  <2>4. CASE getter[g].pc \in {"write", "fill"} /\ G!Path(g) # G!Named
    <3>1. G!Path(g) \in G!Paths
      BY <2>1, <2>4, PathKnown DEF GetterInv
    <3>2. files'[G!Path(g)] = files[G!Path(g)]
      BY <1>4, <2>4, <3>1
    <3>3. PlaceInv(g)'
      BY <1>2, <2>1, <2>2, <3>2 DEF PlaceInv, G!At, G!Args
    <3> QED
      BY <2>2, <3>3
  <2>5. CASE getter[g].pc \notin {"write", "fill"}
    BY <1>2, <2>2, <2>5, PlaceNotReached
  <2> QED
    BY <2>2, <2>3, <2>4, <2>5
<1>7. ASSUME NEW p \in G!Paths
      PROVE  WholeInv(p)'
  <2>1. CASE p = G!Named
    BY <1>1, <1>4, <2>1 DEF WholeInv
  <2>2. CASE p # G!Named
    <3>1. WholeInv(p) /\ files'[p] = files[p]
      BY <1>4, <2>2 DEF GetInv
    <3>2. (G!Path(files[p].by))' = G!Path(files[p].by)
      BY <1>2, <3>1 DEF G!Path, G!Args
    <3> QED
      BY <1>2, <3>1, <3>2 DEF WholeInv
  <2> QED
    BY <2>1, <2>2
<1> QED
  BY <1>2, <1>4, <1>5, <1>6, <1>7 DEF GetInv

\* The initial states
LEMMA GetInvInit == G!GetInit => GetInv
<1> SUFFICES ASSUME G!GetInit
             PROVE  GetInv
  OBVIOUS
<1>1. G!File(0, "wasm", Whole, User) \in G!Files
      /\ G!File(0, "wasm", Whole, User).chunks = Whole
  BY WkgAssumption DEF G!File, G!Files, G!Forms
<1>2. files \in [G!Paths -> G!Files \cup {None}]
      /\ \A p \in G!Paths : files[p] # None => files[p].chunks = Whole
  BY <1>1 DEF G!GetInit
<1>3. \A g \in Getter : getter[g] = G!NotStarted
  BY DEF G!GetInit
<1>4. /\ DOMAIN G!NotStarted = {"pc", "args", "release", "temp", "pending", "wit", "opened"}
      /\ G!NotStarted.pc = "start" /\ G!NotStarted.pending = FALSE /\ G!NotStarted.wit = FALSE
  BY DEF G!NotStarted
<1>5. GetForm
  BY <1>2 DEF G!GetInit, GetForm
<1>6. \A g \in Getter : GetterInv(g) /\ PlaceInv(g)
  BY <1>3, <1>4 DEF GetterInv, PlaceInv, G!At
<1>7. \A p \in G!Paths : WholeInv(p)
  BY <1>2 DEF WholeInv
<1> QED
  BY <1>5, <1>6, <1>7 DEF GetInv

\* A step that is not one of those that change files
QuietGet(g) ==
  \/ G!Start(g) \/ G!Receive(g) \/ G!Decode(g) \/ G!Check(g) \/ G!Look(g) \/ G!Exit(g)
  \/ G!Quit(g)

\* What a step does to the invariant and to the files of the user's
LEMMA GetInvNext ==
  ASSUME GetInv, G!GetNext
  PROVE  /\ GetInv'
         /\ \/ \A p \in G!Paths : files[p] # None /\ files[p].by = User => files'[p] = files[p]
            \/ \E g \in Getter : Replaces(g)
<1>1. CASE G!Save
  BY <1>1, SaveGetKeeps
<1>2. ASSUME NEW g \in Getter, QuietGet(g)
      PROVE  GetInv' /\ files' = files
  <2>1. files' = files
    BY <1>2 DEF QuietGet, G!Start, G!Receive, G!Fail, G!Decode, G!Check, G!Look, G!Exit,
              G!Quit
  <2>2. GetInv'
    BY <1>2, GetStartKeeps, ReceiveKeeps, DecodeGetKeeps, CheckKeeps, LookKeeps, ExitKeeps,
       QuitGetKeeps DEF QuietGet
  <2> QED
    BY <2>1, <2>2
<1>3. ASSUME NEW g \in Getter, G!Land(g) \/ G!Fill(g) \/ G!Tear(g)
      PROVE  /\ GetInv'
             /\ \A p \in G!Paths : files[p] # None /\ files[p].by = User => files'[p] = files[p]
  BY <1>3, LandKeeps, FillGetKeeps, TearKeeps
<1>4. ASSUME NEW g \in Getter, G!Persist(g) \/ G!WriteWit(g) \/ G!Pull(g)
      PROVE  GetInv' /\ Replaces(g)
  BY <1>4, PersistKeeps, WriteWitKeeps, PullKeeps
<1>5. \/ G!Save
      \/ \E g \in Getter : \/ QuietGet(g) \/ G!Land(g) \/ G!Fill(g) \/ G!Tear(g)
                           \/ G!Persist(g) \/ G!WriteWit(g) \/ G!Pull(g)
  BY DEF G!GetNext, QuietGet
<1> QED
  BY <1>1, <1>2, <1>3, <1>4, <1>5

\* Every step keeps the invariant.
LEMMA GetInvStep ==
  GetInv /\ [G!GetNext]_getState => GetInv'
<1> SUFFICES ASSUME GetInv, [G!GetNext]_getState
             PROVE  GetInv'
  OBVIOUS
<1>1. CASE UNCHANGED getState
  <2>1. UNCHANGED <<files, directory, getter, refused, crossed>>
    BY <1>1 DEF getState
  <2>2. GetForm'
    BY <2>1 DEF GetInv, GetForm
  <2>3. \A g \in Getter : GetterInv(g)'
    BY <2>1 DEF GetInv, GetterInv, UnderWay
  <2>4. \A g : (G!Path(g))' = G!Path(g) /\ (G!Args(g))' = G!Args(g)
    BY <2>1 DEF G!Path, G!Args
  <2>5. \A g \in Getter : PlaceInv(g)'
    BY <2>1, <2>4 DEF GetInv, PlaceInv, G!At
  <2>6. \A p \in G!Paths : WholeInv(p)'
    BY <2>1, <2>4 DEF GetInv, WholeInv
  <2> QED
    BY <2>2, <2>3, <2>5, <2>6 DEF GetInv
<1>2. CASE G!GetNext
  BY <1>2, GetInvNext
<1> QED
  BY <1>1, <1>2

\* The downloads keep their types, ...
LEMMA GetTyped == GetInv => G!GetTypeOK
BY DEF GetInv, GetForm, GetterInv, G!GetTypeOK

\* ... once all commands have ended what they wrote is whole, ...
LEMMA GetIsWhole == GetInv => GetsWhole
<1> SUFFICES ASSUME GetInv, \A g \in Getter : getter[g].pc \in {"start", "done", "cut"},
                    NEW p \in G!Paths, files[p] # None
             PROVE  \/ files[p].chunks = Whole \/ files[p].by \in refused \cup crossed
                    \/ \E g \in Getter : g = files[p].by /\ G!At(g, "cut")
  BY DEF GetsWhole, G!GetsWhole, G!At, G!Ended
<1>1. WholeInv(p)
  BY DEF GetInv
<1> QED
  BY <1>1 DEF WholeInv, G!At

\* ... and a step only replaces a file of the user's with good reason.
LEMMA GetReplaces ==
  ASSUME GetInv, [G!GetNext]_getState, NEW p \in G!Paths,
         files[p] # None, files[p].by = User, files'[p] # files[p]
  PROVE  \E g \in Getter :
           /\ files'[p] # None /\ files'[p].by = g
           /\ \/ getter'[g].args.overwrite \/ getter'[g].args.pull
              \/ g \in files[p].unseen
<1>1. files' # files
  OBVIOUS
<1>2. G!GetNext
  BY <1>1 DEF getState
<1>3. PICK g \in Getter : Replaces(g)
  BY <1>2, GetInvNext
<1>4. PICK path \in G!Paths, new \in G!Files :
        /\ files' = [files EXCEPT ![path] = new] /\ new.by = g
        /\ files[path] # None /\ files[path].by = User =>
             getter'[g].args.overwrite \/ getter'[g].args.pull \/ g \in files[path].unseen
  BY <1>3 DEF Replaces
<1>5. p = path /\ files'[p] = new
  BY <1>4 DEF GetInv, GetForm
<1>6. new # None
  BY WkgAssumption
<1> QED
  BY <1>4, <1>5, <1>6

\* The part starts as it does by itself, ...
LEMMA GetStarts == Init => G!GetInit
BY DEF Init

\* ... and a step is one of the part, or the part stutters.
LEMMA GetPart == [Next]_vars => [G!GetNext]_getState
BY DEF Next, vars, getState

\* The invariant holds of every behaviour.
LEMMA GetAlways == Spec => []GetInv
<1>1. Init => GetInv
  BY GetStarts, GetInvInit
<1>2. GetInv /\ [Next]_vars => GetInv'
  BY GetPart, GetInvStep
<1> QED
  BY <1>1, <1>2, PTL DEF Spec

\* However many commands write to one place and whatever a user saves there, an output that
\* is left is whole, but for a command that failed or was killed while it wrote it, a write
\* that failed unnoticed, and commands that wrote into one file (GetArgs::run, PullArgs::run).
THEOREM LeftWhole == Spec => []GetsWhole
<1> QED
  BY GetAlways, GetIsWhole, PTL

\* A file of the user's is only replaced by a command that was told to overwrite it, that
\* never looks, or that had looked before the file was saved (GetArgs::run).
THEOREM UserFilesStay == Spec => GetKeepsFiles
<1> DEFINE Justified ==
      \A p \in G!Paths :
        files[p] # None /\ files[p].by = User /\ files'[p] # files[p] =>
          \E g \in Getter :
            /\ files'[p] # None /\ files'[p].by = g
            /\ \/ getter'[g].args.overwrite \/ getter'[g].args.pull
               \/ g \in files[p].unseen
<1>1. GetInv /\ [Next]_vars => [Justified]_(G!getVars)
  BY GetPart, GetReplaces DEF G!getVars
<1>2. GetKeepsFiles <=> [][Justified]_(G!getVars)
  BY PTL DEF GetKeepsFiles, G!GetKeepsFiles
<1> QED
  BY GetAlways, <1>1, <1>2, PTL DEF Spec

-----------------------------------------------------------------------------
(* All parts *)

\* The variables of every part have their types.
THEOREM PartsTyped == Spec => []TypeOK
<1>1. Spec => []S!SettingsTypeOK
  BY SettingsAlways, SettingsTyped, PTL
<1>2. Spec => []G!GetTypeOK
  BY GetAlways, GetTyped, PTL
<1>3. Spec => []F!FetchTypeOK
  BY FetchAlways, FetchTyped, PTL
<1>4. Spec => []D!DecodeTypeOK
  BY DecodeStarts, DecodePart, DecodeInvInit, DecodeInvStep, DecodeTyped, PTL DEF Spec
<1>5. TypeOK <=> /\ S!SettingsTypeOK /\ C!ClientTypeOK /\ G!GetTypeOK /\ F!FetchTypeOK
                 /\ D!DecodeTypeOK
  BY DEF TypeOK
<1> QED
  BY <1>1, <1>2, <1>3, <1>4, <1>5, ClientTypes, PTL
=============================================================================
