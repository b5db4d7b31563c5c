------------------------------- MODULE Config -------------------------------
(***************************************************************************)
(* The configuration of registries                                         *)
(* (crates/wasm-pkg-common/src/config.rs, config/toml.rs, metadata.rs).    *)
(*                                                                         *)
(* A configuration is a record [default, namespaces, overrides, fallbacks, *)
(* registries].  A mapping is a record [registry, metadata], where the     *)
(* metadata is None for a plain registry; metadata is a record [preferred, *)
(* protocols, alias] with the OCI host that each protocol's table names,   *)
(* `alias` being the old key ociRegistry.  The settings of a registry are  *)
(* a record [default, backends] with a table for each backend.  A TOML     *)
(* text is a configuration without fallbacks.                              *)
(***************************************************************************)
EXTENDS Tables, Sequences, FiniteSets, Integers

CONSTANTS
  None,
  Oci, Local,  \* backends, which are protocols, too
  WellKnownNamespaces  \* the fallbacks that are compiled in

Nothing == [x \in {} |-> None]
Lookup(f, x) == IF x \in DOMAIN f THEN f[x] ELSE None
TheOnly(set) == IF Cardinality(set) = 1 THEN CHOOSE x \in set : TRUE ELSE None

\* The first that is given.
First(options) ==
  LET given == {i \in DOMAIN options : options[i] # None}
  IN  IF given = {} THEN None
      ELSE options[CHOOSE i \in given : \A j \in given : i <= j]

-----------------------------------------------------------------------------
(* Metadata and the settings of one registry *)

NoMetadata == [preferred |-> None, protocols |-> Nothing, alias |-> None]

PreferredProtocol(meta) ==
  First(<<meta.preferred,
          TheOnly(DOMAIN meta.protocols),
          IF DOMAIN meta.protocols = {} /\ meta.alias # None THEN Oci ELSE None>>)

\* protocol_config, for the host in the OCI table: the alias is put over it.
OciHost(meta) == First(<<meta.alias, Lookup(meta.protocols, Oci)>>)

NoSettings == [default |-> None, backends |-> Nothing]

\* RegistryConfig::merge: later tables are merged into earlier ones key by key.
MergeSettings(old, new) ==
  [default |-> First(<<new.default, old.default>>),
   backends |-> [b \in DOMAIN old.backends \cup DOMAIN new.backends |->
                   IF b \notin DOMAIN new.backends THEN old.backends[b]
                   ELSE IF b \notin DOMAIN old.backends THEN new.backends[b]
                   ELSE Extended(old.backends[b], new.backends[b])]]

DefaultBackend(settings) == First(<<settings.default, TheOnly(DOMAIN settings.backends)>>)

\* backend_config: the table of a backend, or none.
BackendConfig(settings, backend) == Lookup(settings.backends, backend)

-----------------------------------------------------------------------------
(* Configurations *)

EmptyConfig ==
  [default |-> None, namespaces |-> Nothing, overrides |-> Nothing,
   fallbacks |-> Nothing, registries |-> Nothing]

\* Config::default, which is not the empty one.
DefaultConfig == [EmptyConfig EXCEPT !.fallbacks = WellKnownNamespaces]

\* Config::merge
Merge(old, new) ==
  [default |-> First(<<new.default, old.default>>),
   namespaces |-> Extended(old.namespaces, new.namespaces),
   overrides |-> Extended(old.overrides, new.overrides),
   fallbacks |-> Extended(old.fallbacks, new.fallbacks),
   registries |-> [r \in DOMAIN old.registries \cup DOMAIN new.registries |->
                     IF r \notin DOMAIN new.registries THEN old.registries[r]
                     ELSE IF r \notin DOMAIN old.registries THEN new.registries[r]
                     ELSE MergeSettings(old.registries[r], new.registries[r])]]

ResolveMapping(config, package) ==
  First(<<Lookup(config.overrides, package), Lookup(config.namespaces, package.namespace)>>)

RegistryOf(mapping) == IF mapping = None THEN None ELSE mapping.registry

\* Variant of Resolve: the fallbacks are looked at before the default.
ResolveFallback(config, package) ==
  First(<<RegistryOf(ResolveMapping(config, package)),
          Lookup(config.fallbacks, package.namespace), config.default>>)

\* Config::resolve_registry
Resolve(config, package) ==
  First(<<RegistryOf(ResolveMapping(config, package)),
          config.default, Lookup(config.fallbacks, package.namespace)>>)

RegistrySettings(config, registry) ==
  First(<<Lookup(config.registries, registry), NoSettings>>)

-----------------------------------------------------------------------------
(* Files *)

\* From<TomlConfig>: there are no fallbacks in a file.
FromToml(text) ==
  [default |-> text.default, namespaces |-> text.namespaces, overrides |-> text.overrides,
   fallbacks |-> Nothing, registries |-> text.registries]

\* The aliases are not serialized.
SerializeMapping(mapping) ==
  IF mapping.metadata = None THEN mapping
  ELSE [mapping EXCEPT !.metadata.alias = None]

SerializeMappings(mappings) == [x \in DOMAIN mappings |-> SerializeMapping(mappings[x])]

\* Variant of ToToml: a table is forgotten.
ToTomlNoOverrides(config) ==
  [default |-> config.default, namespaces |-> SerializeMappings(config.namespaces),
   overrides |-> Nothing, registries |-> config.registries]

\* Serialize: by way of From<Config> for TomlConfig, and for the registries' settings.
ToToml(config) ==
  [default |-> config.default, namespaces |-> SerializeMappings(config.namespaces),
   overrides |-> SerializeMappings(config.overrides), registries |-> config.registries]

\* What an empty file parses as: every key is optional.
EmptyText == ToToml(EmptyConfig)

\* Config::global_defaults for the user's file, if there is one, and Config::from_file for
\* the file that --config names.
GlobalDefaults(text) ==
  IF text = None THEN DefaultConfig ELSE Merge(DefaultConfig, FromToml(text))
FromFile(text) == FromToml(text)
=============================================================================
