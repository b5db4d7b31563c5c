------------------------------- MODULE Client -------------------------------
(***************************************************************************)
(* The calls that concurrent tasks make on one registry client             *)
(* (crates/wasm-pkg-client/src/lib.rs, metadata.rs, local.rs, oci/).       *)
(*                                                                         *)
(* A call finds the source of its registry in the client's cache, or       *)
(* builds it from the configuration and from the registry's metadata,      *)
(* which may have to be fetched.  The lock of the cache is not held while  *)
(* that is awaited.  A source of the OCI backend logs in once, for all the *)
(* calls that share it.  The clones of a client share its cache, and a     *)
(* program that uses the library may call them from several tasks.         *)
(***************************************************************************)
EXTENDS Config

CONSTANTS
  Task,
  Configs,     \* configurations the client may have been made with
  Requests,    \* [package, override], the registry that --registry gives or None
  WellKnown,   \* the metadata the registries publish, for those which do
  Bearers,     \* hosts for which the environment holds a bearer token (hosts share a
               \* variable when their names differ in punctuation)
  Docker,      \* [host or its https URL -> "basic" or "identity"], what docker knows
  MaxCalls     \* bound on the calls made

VARIABLES
  client,      \* the configuration
  task,        \* [Task -> [pc, request, registry, meta, source, identity]]
  sources,     \* the cache, from registries to the numbers of sources
  built,       \* all sources that were built, by number
  calls,       \* how many calls have been made
  used,        \* history: which hosts were spoken to for which registries, and as whom
  overlapped   \* history: registries whose source was built by two calls at once

clientVars == <<client, task, sources, built, calls, used, overlapped>>

NoRequest == [package |-> None, override |-> None]
Idle == [pc |-> "rest", request |-> NoRequest, registry |-> None, meta |-> NoMetadata,
         source |-> 0, identity |-> None]

ClientInit ==
  /\ client \in Configs
  /\ task = [t \in Task |-> Idle]
  /\ sources = Nothing /\ built = <<>>
  /\ calls = 0 /\ used = {} /\ overlapped = {}

-----------------------------------------------------------------------------
(* The source of a registry *)

RegistryFor(request) ==
  IF request.override # None THEN request.override ELSE Resolve(client, request.package)

Custom(mapping) == mapping # None /\ mapping.metadata # None

\* Variant of Configured: the namespace's metadata go to whatever registry is asked for.
ConfiguredBlindly(request) ==
  LET package == Lookup(client.overrides, request.package)
      namespace == Lookup(client.namespaces, request.package.namespace)
  IN  IF Custom(package) THEN package.metadata
      ELSE IF Custom(namespace) THEN namespace.metadata ELSE None

\* Metadata from the configuration, or None
Configured(request) ==
  LET package == Lookup(client.overrides, request.package)
      namespace == Lookup(client.namespaces, request.package.namespace)
  IN  IF Custom(package) THEN package.metadata
      ELSE IF /\ Custom(namespace)
              /\ request.override # None => namespace.registry = RegistryFor(request)
           THEN namespace.metadata
      ELSE None

Settings(registry) == RegistrySettings(client, registry)

\* The backend, or None where there is an error: the metadata of a registry cannot make
\* it the local one.
Backend(registry, meta) ==
  LET preferred == PreferredProtocol(meta)
  IN  IF DefaultBackend(Settings(registry)) # None THEN DefaultBackend(Settings(registry))
      ELSE IF preferred = Local THEN None
      ELSE First(<<preferred, Oci>>)

HostOf(registry, meta) == First(<<OciHost(meta), registry>>)

\* OciRegistryConfig::try_from: credentials that do not decode and protocols that do not
\* exist are errors.
OciConfigured(table) ==
  \/ table = None
  \/ Lookup(table, "auth") # "broken" /\ Lookup(table, "protocol") \in {None, "http", "https"}

Credentials(table) == IF table = None THEN None ELSE Lookup(table, "auth")

\* LocalBackend::new and OciBackend::new, or None
Source(t) ==
  LET registry == task[t].registry
      meta == task[t].meta
      backend == Backend(registry, meta)
      table == BackendConfig(Settings(registry), backend)
      made == [registry |-> registry, request |-> task[t].request, backend |-> backend,
               host |-> HostOf(registry, meta), credentials |-> Credentials(table),
               login |-> None]
  IN  CASE backend = Local -> IF table = None THEN None ELSE [made EXCEPT !.host = Local]
        [] backend = Oci -> IF OciConfigured(table) THEN made ELSE None
        [] OTHER -> None

\* Where a call goes on once it has its source
Ready(source) == IF source.backend = Oci THEN "login" ELSE "operate"

-----------------------------------------------------------------------------
(* The steps of a call *)

At(t, pc) == task[t].pc = pc

Fail(t) == task' = [task EXCEPT ![t] = Idle]

Building(registry) ==
  {t \in Task : task[t].registry = registry /\ task[t].pc \in {"fetch", "build", "insert"}}

\* resolve_source, up to the first time it has to wait for something else
Begin(t) ==
  /\ At(t, "rest") /\ calls < MaxCalls
  /\ calls' = calls + 1
  /\ \E request \in Requests :
       LET registry == RegistryFor(request)
           known == IF registry = None THEN None ELSE Lookup(sources, registry)
           next == [Idle EXCEPT !.request = request, !.registry = registry]
       IN  \/ registry = None /\ UNCHANGED <<task, overlapped>>
           \/ /\ known # None
              /\ task' = [task EXCEPT ![t] =
                   [next EXCEPT !.pc = Ready(built[known]), !.source = known]]
              /\ UNCHANGED overlapped
           \/ /\ registry # None /\ known = None
              /\ task' = [task EXCEPT ![t] =
                   IF Configured(request) # None
                   THEN [next EXCEPT !.pc = "build", !.meta = Configured(request)]
                   ELSE IF DefaultBackend(Settings(registry)) = Local
                   THEN [next EXCEPT !.pc = "build"]
                   ELSE [next EXCEPT !.pc = "fetch"]]
              /\ overlapped' =
                   IF Building(registry) = {} THEN overlapped ELSE overlapped \cup {registry}
  /\ UNCHANGED <<client, sources, built, used>>

\* RegistryMetadata::fetch_or_default: anything that goes wrong gives the default.
Fetch(t) ==
  /\ At(t, "fetch")
  /\ \E meta \in {First(<<Lookup(WellKnown, task[t].registry), NoMetadata>>), NoMetadata} :
       task' = [task EXCEPT ![t].pc = "build", ![t].meta = meta]
  /\ UNCHANGED <<client, sources, built, calls, used, overlapped>>

Build(t) ==
  /\ At(t, "build")
  /\ \/ /\ Source(t) # None
        /\ built' = Append(built, Source(t))
        /\ task' = [task EXCEPT ![t].pc = "insert", ![t].source = Len(built')]
     \/ Source(t) = None /\ Fail(t) /\ UNCHANGED built
  /\ UNCHANGED <<client, sources, calls, used, overlapped>>

\* Variant of Insert: the cache keeps nothing.
InsertNothing(t) ==
  /\ At(t, "insert")
  /\ task' = [task EXCEPT ![t].pc = Ready(built[task[t].source])]
  /\ UNCHANGED <<client, sources, built, calls, used, overlapped>>

\* The source replaces the one that another call has put there in the meantime; this call
\* goes on with its own in any case.
Insert(t) ==
  /\ At(t, "insert")
  /\ sources' = Inserted(sources, task[t].registry, task[t].source)
  /\ task' = [task EXCEPT ![t].pc = Ready(built[task[t].source])]
  /\ UNCHANGED <<client, built, calls, used, overlapped>>

\* get_credentials: docker is asked for the host, and then for its URL.
Url(host) == <<"https", host>>

\* get_docker_credential
DockerCredential(key) == Lookup(Docker, key)

Identity(source) ==
  CASE source.host \in Bearers -> "bearer"
    [] source.host \notin Bearers /\ source.credentials # None -> source.credentials
    [] OTHER -> First(<<DockerCredential(source.host),
                            DockerCredential(Url(source.host)), "anonymous">>)

LoggingIn(source) == {t \in Task : task[t].source = source /\ task[t].pc \in {"auth", "retry"}}

\* OciBackend::auth: one call initialises the cell, the others wait for it.
Login(t) ==
  LET source == built[task[t].source]
  IN  /\ At(t, "login") /\ LoggingIn(task[t].source) = {}
      /\ \/ /\ source.login # None
            /\ task' = [task EXCEPT ![t].pc = "operate", ![t].identity = source.login]
         \/ /\ source.login = None /\ Identity(source) # "identity"
            /\ task' = [task EXCEPT ![t].pc = "auth", ![t].identity = Identity(source)]
         \/ source.login = None /\ Identity(source) = "identity" /\ Fail(t)
      /\ UNCHANGED <<client, sources, built, calls, used, overlapped>>

\* The registry accepts the credentials, refuses them or fails; when it refuses them it is
\* tried anonymously, and the source stays anonymous when that works.
Accepted(t, identity) ==
  /\ built' = [built EXCEPT ![task[t].source].login = identity]
  /\ task' = [task EXCEPT ![t].pc = "operate", ![t].identity = identity]

Auth(t) ==
  /\ At(t, "auth")
  /\ \/ Accepted(t, task[t].identity)
     \/ task[t].identity # "anonymous" /\ task' = [task EXCEPT ![t].pc = "retry"]
        /\ UNCHANGED built
     \/ Fail(t) /\ UNCHANGED built
  /\ UNCHANGED <<client, sources, calls, used, overlapped>>

Retry(t) ==
  /\ At(t, "retry")
  /\ Accepted(t, "anonymous") \/ (Fail(t) /\ UNCHANGED built)
  /\ UNCHANGED <<client, sources, calls, used, overlapped>>

\* list_all_versions, get_release, stream_content: one request to the host, and its answer
Operate(t) ==
  /\ At(t, "operate")
  /\ used' = used \cup {[registry |-> task[t].registry, host |-> built[task[t].source].host,
                         identity |-> task[t].identity]}
  /\ Fail(t)
  /\ UNCHANGED <<client, sources, built, calls, overlapped>>

\* A caller drops a call that it no longer wants, where the call waits.
Drop(t) ==
  /\ task[t].pc \in {"fetch", "insert", "login", "auth", "retry", "operate"}
  /\ Fail(t)
  /\ UNCHANGED <<client, sources, built, calls, used, overlapped>>

ClientNext ==
  \E t \in Task :
    \/ Begin(t) \/ Fetch(t) \/ Build(t) \/ Insert(t)
    \/ Login(t) \/ Auth(t) \/ Retry(t) \/ Operate(t) \/ Drop(t)

-----------------------------------------------------------------------------

ClientTypeOK ==
  /\ client \in Configs /\ calls \in 0 .. MaxCalls
  /\ \A t \in Task :
       /\ task[t].pc \in {"rest", "fetch", "build", "insert", "login", "auth", "retry", "operate"}
       /\ task[t].request \in Requests \cup {NoRequest}
       /\ task[t].source \in 0 .. Len(built)
       /\ task[t].pc \in {"insert", "login", "auth", "retry", "operate"} => task[t].source > 0
  /\ \A r \in DOMAIN sources : sources[r] \in DOMAIN built

\* The hosts where a registry may be: those in the metadata that are configured for it or
\* that it publishes, and its own name.
Homes(registry) ==
  LET mappings == {client.overrides[p] : p \in DOMAIN client.overrides} \cup
                  {client.namespaces[n] : n \in DOMAIN client.namespaces}
      metadata == {m.metadata : m \in {m \in mappings : Custom(m) /\ m.registry = registry}}
  IN  {HostOf(registry, m) :
         m \in metadata \cup {NoMetadata, First(<<Lookup(WellKnown, registry), NoMetadata>>)}}

\* A request that the code gives another registry's metadata: a package's own metadata,
\* with --registry, or the namespace's, where the package is mapped to a plain registry.
Misplaced(request) ==
  LET package == Lookup(client.overrides, request.package)
      namespace == Lookup(client.namespaces, request.package.namespace)
      Elsewhere(mapping) == Custom(mapping) /\ mapping.registry # RegistryFor(request)
  IN  \/ Elsewhere(package)
      \/ package # None /\ ~Custom(package) /\ request.override = None /\ Elsewhere(namespace)

\* What is asked of a registry is asked at that registry, whatever calls built the source
\* that answers: it is at a host of another one only when a request built it that the code
\* gives another registry's metadata.
MetadataOfRegistry ==
  \A u \in used :
    \/ u.host \in Homes(u.registry) \cup {Local}
    \/ \E i \in DOMAIN built : built[i].registry = u.registry /\ Misplaced(built[i].request)

\* A registry is spoken to as one user, also when the first attempts to log in failed or
\* were dropped, unless calls that overlapped have each built a source for it.
OneIdentity ==
  \A u, v \in used :
    u.registry = v.registry /\ u.registry \notin overlapped =>
      u.identity = v.identity /\ u.host = v.host
=============================================================================
