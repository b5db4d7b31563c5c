----------------------------- MODULE ClientProofs -----------------------------
(***************************************************************************)
(* Proofs about the calls on a registry client: MetadataOfRegistry and     *)
(* OneIdentity, for any number of tasks, configurations and registries.    *)
(*                                                                         *)
(* What a source is built with comes with the call that builds it.  Until  *)
(* two calls have built a source for one registry at once, the cache has   *)
(* none while one is built, and the one that it then has is the source of  *)
(* every call; and nobody logs in to a source that somebody is logged in   *)
(* to.                                                                     *)
(***************************************************************************)
EXTENDS Wkg, Sequences, TLAPS

\* The metadata with which the source of a call is built: that which the registry
\* publishes, or none, or what the configuration gives for the package.
Given(k) ==
  \/ k.meta \in {C!NoMetadata, C!First(<<C!Lookup(WellKnown, k.registry), C!NoMetadata>>)}
  \/ k.meta = C!Configured(k.request) /\ k.meta # None

\* What holds of one call, ...
TaskInv(t) ==
  LET k == task[t]
      s == built[k.source]
  IN  /\ k.pc \in {"rest", "fetch", "build", "insert", "login", "auth", "retry", "operate"}
      /\ k.request \in Requests \cup {C!NoRequest}
      /\ k.source \in 0 .. Len(built)
      /\ k.pc \in {"fetch", "build", "insert"} =>
           k.registry = C!RegistryFor(k.request) /\ k.identity = None
      /\ k.pc = "build" => Given(k)
      /\ k.pc \in {"insert", "login", "auth", "retry", "operate"} =>
           k.source \in 1 .. Len(built) /\ s.registry = k.registry
      /\ k.pc \in {"login", "auth", "retry"} => s.backend = Oci
      /\ k.pc \in {"auth", "retry"} => s.login = None /\ k.identity # None
      /\ k.pc = "operate" => k.identity = s.login /\ (s.backend = Oci => s.login # None)

\* ... of one source, ...
SourceInv(s) ==
  /\ s.host \in C!Homes(s.registry) \cup {Local} \/ C!Misplaced(s.request)
  /\ s.backend # Oci => s.login = None

\* ... of what has been asked, ...
UsedInv(u) ==
  \E i \in 1 .. Len(built) : built[i].registry = u.registry /\ built[i].host = u.host

\* ... and of a registry whose source has never been built by two calls at once.
RegistryInv(r) ==
  /\ \A t, q \in C!Building(r) : t = q
  /\ C!Building(r) # {} => r \notin DOMAIN sources
  /\ \A t \in Task :
       task[t].registry = r /\ task[t].pc \in {"login", "auth", "retry", "operate"} =>
         r \in DOMAIN sources /\ task[t].source = sources[r]
  /\ \A u \in used : u.registry = r =>
       /\ r \in DOMAIN sources
       /\ u.host = built[sources[r]].host /\ u.identity = built[sources[r]].login
       /\ built[sources[r]].backend = Oci => built[sources[r]].login # None

ClientForm ==
  /\ client \in Configs /\ calls \in 0 .. MaxCalls
  /\ DOMAIN task = Task /\ \A t \in Task : DOMAIN task[t] = DOMAIN C!Idle
  /\ built \in Seq({built[i] : i \in DOMAIN built})
  /\ \A i \in 1 .. Len(built) : "login" \in DOMAIN built[i]
  /\ \A r \in DOMAIN sources :
       sources[r] \in 1 .. Len(built) /\ built[sources[r]].registry = r

ClientInv ==
  /\ ClientForm
  /\ \A t \in Task : TaskInv(t)
  /\ \A t, q \in Task :
       /\ task[t].pc \in {"auth", "retry"} /\ task[q].pc \in {"auth", "retry"}
       /\ task[t].source = task[q].source
       => t = q
  /\ \A i \in 1 .. Len(built) : SourceInv(built[i])
  /\ \A u \in used : UsedInv(u)
  /\ \A r : r \notin overlapped => RegistryInv(r)

-----------------------------------------------------------------------------
(* Configurations *)

\* The first of two that is given.
LEMMA FirstOfTwo ==
  ASSUME NEW a, NEW b
  PROVE  C!First(<<a, b>>) = IF a # None THEN a ELSE b
<1> DEFINE options == <<a, b>>
           given == {i \in DOMAIN options : options[i] # None}
<1>1. DOMAIN options = {1, 2} /\ options[1] = a /\ options[2] = b
  OBVIOUS
<1>2. CASE a # None
  <2>1. 1 \in given /\ \A j \in given : 1 <= j
    BY <1>1, <1>2
  <2>2. \A i \in given : (\A j \in given : i <= j) => i = 1
    BY <1>1, <2>1
  <2>3. (CHOOSE i \in given : \A j \in given : i <= j) = 1
    BY <2>1, <2>2
  <2> QED
    BY <1>1, <1>2, <2>1, <2>3 DEF C!First
<1>3. CASE a = None /\ b # None
  <2>1. given = {2}
    BY <1>1, <1>3
  <2>2. (CHOOSE i \in given : \A j \in given : i <= j) = 2
    BY <2>1
  <2> QED
    BY <1>1, <1>3, <2>1, <2>2 DEF C!First
<1>4. CASE a = None /\ b = None
  <2>1. given = {}
    BY <1>1, <1>4
  <2> QED
    BY <1>4, <2>1 DEF C!First
<1> QED
  BY <1>2, <1>3, <1>4

\* If the first of three is given, it is that.
LEMMA FirstOfThree ==
  ASSUME NEW a, NEW b, NEW c
  PROVE  /\ a # None => C!First(<<a, b, c>>) = a
         /\ c # None => C!First(<<a, b, c>>) # None
<1> DEFINE options == <<a, b, c>>
           given == {i \in DOMAIN options : options[i] # None}
           least == CHOOSE i \in given : \A j \in given : i <= j
<1>1. DOMAIN options = {1, 2, 3} /\ options[1] = a /\ options[2] = b /\ options[3] = c
  OBVIOUS
<1>2. ASSUME given # {}
      PROVE  least \in given /\ \A j \in given : least <= j
  <2>1. \E i \in given : \A j \in given : i <= j
    BY <1>1, <1>2
  <2> QED
    BY <2>1
<1>3. given # {} => C!First(<<a, b, c>>) = options[least] /\ options[least] # None
  BY <1>2 DEF C!First
<1>4. c # None => 3 \in given
  BY <1>1
<1>5. a # None => 1 \in given /\ least = 1
  <2> SUFFICES ASSUME a # None
               PROVE  1 \in given /\ least = 1
    OBVIOUS
  <2>1. 1 \in given
    BY <1>1
  <2>2. least \in {1, 2, 3} /\ least <= 1
    BY <1>1, <1>2, <2>1
  <2> QED
    BY <2>1, <2>2
<1> QED
  BY <1>1, <1>3, <1>4, <1>5

\* Metadata from the configuration are those of the registry that is asked for, or the
\* request is one that the code gives another registry's.
LEMMA ConfiguredIsPlaced ==
  ASSUME client \in Configs, NEW request, C!Configured(request) # None
  PROVE  \/ C!HostOf(C!RegistryFor(request), C!Configured(request))
                \in C!Homes(C!RegistryFor(request))
         \/ C!Misplaced(request)
<1> DEFINE registry == C!RegistryFor(request)
           package == C!Lookup(client.overrides, request.package)
           namespace == C!Lookup(client.namespaces, request.package.namespace)
           mappings == {client.overrides[p] : p \in DOMAIN client.overrides} \cup
                       {client.namespaces[n] : n \in DOMAIN client.namespaces}
<1>1. package # None => package \in mappings
  BY DEF C!Lookup
<1>2. namespace # None => namespace \in mappings /\ namespace.registry # None
  BY WkgAssumption DEF C!Lookup, IsMapping
<1>3. ASSUME NEW m \in mappings, C!Custom(m), m.registry = registry
      PROVE  C!HostOf(registry, m.metadata) \in C!Homes(registry)
  BY <1>3 DEF C!Homes
<1>4. CASE C!Custom(package)
  <2>1. C!Configured(request) = package.metadata
    BY <1>4 DEF C!Configured
  <2>2. CASE package.registry = registry
    BY <1>1, <1>3, <1>4, <2>1, <2>2 DEF C!Custom
  <2>3. CASE package.registry # registry
    BY <1>4, <2>3 DEF C!Misplaced
  <2> QED
    BY <2>2, <2>3
<1>5. CASE ~C!Custom(package)
  <2>1. /\ C!Custom(namespace) /\ C!Configured(request) = namespace.metadata
        /\ request.override # None => namespace.registry = registry
    BY <1>5 DEF C!Configured
  <2>2. CASE namespace.registry = registry
    BY <1>2, <1>3, <2>1, <2>2 DEF C!Custom
  <2>3. CASE namespace.registry # registry /\ package # None
    BY <1>5, <2>1, <2>3 DEF C!Misplaced
  <2>4. CASE namespace.registry # registry /\ package = None
    <3>1. request.override = None /\ registry = C!Resolve(client, request.package)
      BY <2>1, <2>4 DEF C!RegistryFor
    <3>2. C!ResolveMapping(client, request.package) = namespace
      BY <2>4, FirstOfTwo DEF C!ResolveMapping
    <3>3. C!RegistryOf(namespace) = namespace.registry /\ namespace.registry # None
      BY <1>2, <2>1 DEF C!RegistryOf, C!Custom
    <3>4. registry = namespace.registry
      BY <3>1, <3>2, <3>3, FirstOfThree DEF C!Resolve
    <3> QED
      BY <2>4, <3>4
  <2> QED
    BY <2>2, <2>3, <2>4
<1> QED
  BY <1>4, <1>5

\* While the configuration is the same, so is what follows from it.
LEMMA SameClient ==
  ASSUME client' = client
  PROVE  /\ \A r : C!Homes(r)' = C!Homes(r)
         /\ \A q : C!Misplaced(q)' = C!Misplaced(q)
         /\ \A q : C!RegistryFor(q)' = C!RegistryFor(q)
         /\ \A q : C!Configured(q)' = C!Configured(q)
<1>1. \A q : C!RegistryFor(q)' = C!RegistryFor(q)
  BY DEF C!RegistryFor, C!Resolve, C!ResolveMapping, C!RegistryOf, C!Lookup
<1>2. \A r : C!Homes(r)' = C!Homes(r)
  BY DEF C!Homes
<1>3. \A q : C!Misplaced(q)' = C!Misplaced(q)
  BY <1>1 DEF C!Misplaced
<1>4. \A q : C!Configured(q)' = C!Configured(q)
  BY <1>1 DEF C!Configured
<1> QED
  BY <1>1, <1>2, <1>3, <1>4

-----------------------------------------------------------------------------
(* What the steps change *)

\* A step is one of one call, ...
SameTasks(t) ==
  /\ DOMAIN task' = Task /\ \A q \in Task : DOMAIN task'[q] = DOMAIN C!Idle
  /\ \A q \in Task : q # t => task'[q] = task[q]

\* ... which may build a source, or log in to the one it has.
Kept(i) ==
  /\ built'[i].registry = built[i].registry /\ built'[i].request = built[i].request
  /\ built'[i].host = built[i].host /\ built'[i].backend = built[i].backend

Same(i) == Kept(i) /\ built'[i].login = built[i].login

Grows(t) ==
  /\ built' \in Seq({built'[i] : i \in DOMAIN built'})
  /\ Len(built') \in {Len(built), Len(built) + 1}
  /\ \A i \in 1 .. Len(built') : "login" \in DOMAIN built'[i]
  /\ \A i \in 1 .. Len(built) :
       \/ Same(i)
       \/ /\ Kept(i) /\ built'[i].login # None
          /\ i = task[t].source /\ task[t].pc \in {"auth", "retry"}
  /\ Len(built') > Len(built) => task[t].pc = "build"

\* A call that fails rests.
LEMMA FailEffect ==
  ASSUME ClientForm, NEW t \in Task, C!Fail(t)
  PROVE  SameTasks(t) /\ task'[t] = C!Idle
BY DEF ClientForm, C!Fail, SameTasks

\* Sources that stay as they are.
LEMMA SameBuilt == ClientForm /\ built' = built => \A t : Grows(t)
BY DEF ClientForm, Grows, Same, Kept

\* A call that has its source asks for it, and one that has not waits for metadata or
\* builds it.
LEMMA BeginEffect ==
  ASSUME ClientForm, NEW t \in Task, C!Begin(t)
  PROVE  /\ UNCHANGED <<client, sources, built, used>> /\ SameTasks(t) /\ Grows(t)
         /\ task[t].pc = "rest" /\ calls' = calls + 1 /\ calls < MaxCalls
         /\ \/ task'[t] = task[t] /\ overlapped' = overlapped
            \/ /\ task'[t].registry \in DOMAIN sources
               /\ task'[t].source = sources[task'[t].registry]
               /\ task'[t].request \in Requests
               /\ task'[t].pc = C!Ready(built[task'[t].source])
               /\ task'[t].identity = None
               /\ overlapped' = overlapped
            \/ /\ task'[t].registry \notin DOMAIN sources
               /\ task'[t].registry = C!RegistryFor(task'[t].request)
               /\ task'[t].request \in Requests
               /\ task'[t].pc \in {"build", "fetch"} /\ task'[t].identity = None
               /\ task'[t].source = 0
               /\ task'[t].pc = "build" => Given(task'[t])
               /\ overlapped' = IF C!Building(task'[t].registry) = {} THEN overlapped
                                ELSE overlapped \cup {task'[t].registry}
<1>1. /\ UNCHANGED <<client, sources, built, used>>
      /\ task[t].pc = "rest" /\ calls' = calls + 1 /\ calls < MaxCalls
  BY DEF C!Begin, C!At
<1>2. PICK request \in Requests :
        LET registry == C!RegistryFor(request)
            known == IF registry = None THEN None ELSE C!Lookup(sources, registry)
            next == [C!Idle EXCEPT !.request = request, !.registry = registry]
        IN  \/ registry = None /\ UNCHANGED <<task, overlapped>>
            \/ /\ known # None
               /\ task' = [task EXCEPT ![t] =
                    [next EXCEPT !.pc = C!Ready(built[known]), !.source = known]]
               /\ UNCHANGED overlapped
            \/ /\ registry # None /\ known = None
               /\ task' = [task EXCEPT ![t] =
                    IF C!Configured(request) # None
                    THEN [next EXCEPT !.pc = "build", !.meta = C!Configured(request)]
                    ELSE IF C!DefaultBackend(C!Settings(registry)) = Local
                    THEN [next EXCEPT !.pc = "build"]
                    ELSE [next EXCEPT !.pc = "fetch"]]
               /\ overlapped' = IF C!Building(registry) = {} THEN overlapped
                                ELSE overlapped \cup {registry}
  BY DEF C!Begin
<1> DEFINE registry == C!RegistryFor(request)
           known == IF registry = None THEN None ELSE C!Lookup(sources, registry)
<1>3. Grows(t)
  BY <1>1, SameBuilt
<1>4. CASE registry = None /\ UNCHANGED <<task, overlapped>>
  BY <1>1, <1>3, <1>4 DEF ClientForm, SameTasks
<1>5. CASE /\ known # None /\ UNCHANGED overlapped
           /\ task' = [task EXCEPT ![t] = [C!Idle EXCEPT !.request = request,
                !.registry = registry, !.pc = C!Ready(built[known]), !.source = known]]
  <2>1. registry \in DOMAIN sources /\ known = sources[registry]
    BY <1>5 DEF C!Lookup
  <2>2. SameTasks(t)
    BY <1>5 DEF ClientForm, SameTasks, C!Idle
  <2>3. /\ task'[t].registry = registry /\ task'[t].source = known
        /\ task'[t].request = request /\ task'[t].pc = C!Ready(built[known])
        /\ task'[t].identity = None
    BY <1>5 DEF ClientForm, C!Idle
  <2> QED
    BY <1>1, <1>3, <1>5, <2>1, <2>2, <2>3
<1>6. CASE /\ registry # None /\ known = None
           /\ task' = [task EXCEPT ![t] =
                IF C!Configured(request) # None
                THEN [C!Idle EXCEPT !.request = request, !.registry = registry,
                                    !.pc = "build", !.meta = C!Configured(request)]
                ELSE IF C!DefaultBackend(C!Settings(registry)) = Local
                THEN [C!Idle EXCEPT !.request = request, !.registry = registry, !.pc = "build"]
                ELSE [C!Idle EXCEPT !.request = request, !.registry = registry, !.pc = "fetch"]]
           /\ overlapped' = IF C!Building(registry) = {} THEN overlapped
                            ELSE overlapped \cup {registry}
  <2>1. registry \notin DOMAIN sources
    <3>1. \A r \in DOMAIN sources : sources[r] # None
      BY WkgAssumption DEF ClientForm
    <3> QED
      BY <3>1, <1>6 DEF C!Lookup
  <2>2. SameTasks(t)
    BY <1>6 DEF ClientForm, SameTasks, C!Idle
  <2>3. /\ task'[t].registry = registry /\ task'[t].source = 0
        /\ task'[t].request = request /\ task'[t].pc \in {"build", "fetch"}
        /\ task'[t].identity = None
    BY <1>6 DEF ClientForm, C!Idle
  <2>4. task'[t].pc = "build" =>
          \/ task'[t].meta = C!Configured(request) /\ task'[t].meta # None
          \/ task'[t].meta = C!NoMetadata
    BY <1>6 DEF ClientForm, C!Idle
  <2>5. task'[t].pc = "build" => Given(task'[t])
    BY <2>3, <2>4 DEF Given
  <2> QED
    BY <1>1, <1>3, <1>6, <2>1, <2>2, <2>3, <2>5
<1> QED
  BY <1>2, <1>4, <1>5, <1>6

\* Metadata arrive.
LEMMA FetchEffect ==
  ASSUME ClientForm, NEW t \in Task, C!Fetch(t)
  PROVE  /\ UNCHANGED <<client, sources, built, calls, used, overlapped>>
         /\ SameTasks(t) /\ Grows(t)
         /\ task[t].pc = "fetch" /\ task'[t].pc = "build"
         /\ task'[t].request = task[t].request /\ task'[t].registry = task[t].registry
         /\ task'[t].source = task[t].source /\ task'[t].identity = task[t].identity
         /\ Given(task'[t])
<1>1. /\ UNCHANGED <<client, sources, built, calls, used, overlapped>>
      /\ task[t].pc = "fetch"
  BY DEF C!Fetch, C!At
<1>2. PICK meta \in {C!First(<<C!Lookup(WellKnown, task[t].registry), C!NoMetadata>>),
                     C!NoMetadata} :
        task' = [task EXCEPT ![t].pc = "build", ![t].meta = meta]
  BY DEF C!Fetch
<1>3. SameTasks(t)
  BY <1>2 DEF ClientForm, SameTasks
<1>4. /\ task'[t].pc = "build" /\ task'[t].meta = meta
      /\ task'[t].request = task[t].request /\ task'[t].registry = task[t].registry
      /\ task'[t].source = task[t].source /\ task'[t].identity = task[t].identity
  BY <1>2 DEF ClientForm, C!Idle
<1>5. Given(task'[t])
  BY <1>4 DEF Given
<1> QED
  BY <1>1, <1>3, <1>4, <1>5, SameBuilt

\* A source is one for the registry and the request of its call, at the host that its
\* metadata give, and nobody is logged in to it.
LEMMA SourceMade ==
  ASSUME NEW t, C!Source(t) # None
  PROVE  /\ C!Source(t).registry = task[t].registry /\ C!Source(t).request = task[t].request
         /\ C!Source(t).host \in {Local, C!HostOf(task[t].registry, task[t].meta)}
         /\ C!Source(t).login = None /\ "login" \in DOMAIN C!Source(t)
<1> DEFINE registry == task[t].registry
           meta == task[t].meta
           backend == C!Backend(registry, meta)
           table == C!BackendConfig(C!Settings(registry), backend)
           made == [registry |-> registry, request |-> task[t].request, backend |-> backend,
                    host |-> C!HostOf(registry, meta), credentials |-> C!Credentials(table),
                    login |-> None]
<1>1. C!Source(t) \in {made, [made EXCEPT !.host = Local]}
  <2>1. C!Source(t) =
          CASE backend = Local -> IF table = None THEN None ELSE [made EXCEPT !.host = Local]
            [] backend = Oci -> IF C!OciConfigured(table) THEN made ELSE None
            [] OTHER -> None
    BY DEF C!Source
  <2> HIDE DEF made, backend, table
  <2> QED
    BY <2>1
<1> QED
  BY <1>1

\* The source of a call is built, or cannot be.
LEMMA BuildEffect ==
  ASSUME ClientForm, NEW t \in Task, C!Build(t)
  PROVE  /\ UNCHANGED <<client, sources, calls, used, overlapped>>
         /\ SameTasks(t) /\ Grows(t)
         /\ task[t].pc = "build"
         /\ \/ task'[t] = C!Idle /\ built' = built
            \/ /\ Len(built') = Len(built) + 1 /\ \A i \in 1 .. Len(built) : Same(i)
               /\ task'[t].pc = "insert" /\ task'[t].source = Len(built')
               /\ task'[t].request = task[t].request /\ task'[t].registry = task[t].registry
               /\ task'[t].identity = task[t].identity
               /\ C!Source(t) # None /\ built'[Len(built')] = C!Source(t)
<1>1. /\ UNCHANGED <<client, sources, calls, used, overlapped>>
      /\ task[t].pc = "build"
  BY DEF C!Build, C!At
<1>2. CASE C!Source(t) = None /\ C!Fail(t) /\ UNCHANGED built
  BY <1>1, <1>2, FailEffect, SameBuilt
<1>3. CASE /\ C!Source(t) # None
           /\ built' = Append(built, C!Source(t))
           /\ task' = [task EXCEPT ![t].pc = "insert", ![t].source = Len(built')]
  <2>1. SameTasks(t)
    BY <1>3 DEF ClientForm, SameTasks
  <2>2. /\ task'[t].pc = "insert" /\ task'[t].source = Len(built')
        /\ task'[t].request = task[t].request /\ task'[t].registry = task[t].registry
        /\ task'[t].identity = task[t].identity
    BY <1>3 DEF ClientForm, C!Idle
  <2> DEFINE s == C!Source(t)
             all == {built[i] : i \in DOMAIN built}
  <2>3. "login" \in DOMAIN s
    BY <1>3, SourceMade
  <2> HIDE DEF s
  <2>4. built \in Seq(all) /\ built' = Append(built, s)
    BY <1>3 DEF ClientForm, s
  <2> HIDE DEF all
  <2>5. built \in Seq(all \cup {s}) /\ s \in all \cup {s}
    BY <2>4
  <2>6. built' \in Seq(all \cup {s})
    BY <2>4, <2>5
  <2>7. /\ Len(built') = Len(built) + 1 /\ Len(built) \in Nat
        /\ \A i \in 1 .. Len(built) : built'[i] = built[i]
        /\ built'[Len(built')] = s
    BY <2>4, <2>5
  <2>8. built' \in Seq({built'[i] : i \in DOMAIN built'})
    BY <2>6
  <2>9. \A i \in 1 .. Len(built) : Same(i)
    BY <2>7 DEF Same, Kept
  <2>10. \A i \in 1 .. Len(built') : "login" \in DOMAIN built'[i]
    <3> SUFFICES ASSUME NEW i \in 1 .. Len(built')
                 PROVE  "login" \in DOMAIN built'[i]
      OBVIOUS
    <3>1. i \in 1 .. Len(built) \/ i = Len(built')
      BY <2>7
    <3> QED
      BY <3>1, <2>3, <2>7 DEF ClientForm
  <2> QED
    BY <1>1, <1>3, <2>1, <2>2, <2>7, <2>8, <2>9, <2>10 DEF Grows, s
<1> QED
  BY <1>2, <1>3 DEF C!Build

\* The source becomes the one of the registry.
LEMMA InsertEffect ==
  ASSUME ClientForm, NEW t \in Task, C!Insert(t)
  PROVE  /\ UNCHANGED <<client, built, calls, used, overlapped>>
         /\ SameTasks(t) /\ Grows(t)
         /\ task[t].pc = "insert"
         /\ DOMAIN sources' = DOMAIN sources \cup {task[t].registry}
         /\ sources'[task[t].registry] = task[t].source
         /\ \A r \in DOMAIN sources : r # task[t].registry => sources'[r] = sources[r]
         /\ task'[t].pc = C!Ready(built[task[t].source]) /\ task'[t].source = task[t].source
         /\ task'[t].request = task[t].request /\ task'[t].registry = task[t].registry
         /\ task'[t].identity = task[t].identity
<1>1. /\ UNCHANGED <<client, built, calls, used, overlapped>>
      /\ task[t].pc = "insert"
      /\ sources' = C!Inserted(sources, task[t].registry, task[t].source)
      /\ task' = [task EXCEPT ![t].pc = C!Ready(built[task[t].source])]
  BY DEF C!Insert, C!At
<1>2. SameTasks(t)
  BY <1>1 DEF ClientForm, SameTasks
<1>3. /\ task'[t].pc = C!Ready(built[task[t].source]) /\ task'[t].source = task[t].source
      /\ task'[t].request = task[t].request /\ task'[t].registry = task[t].registry
      /\ task'[t].identity = task[t].identity
  BY <1>1 DEF ClientForm, C!Idle
<1>4. /\ DOMAIN sources' = DOMAIN sources \cup {task[t].registry}
      /\ sources'[task[t].registry] = task[t].source
      /\ \A r \in DOMAIN sources : r # task[t].registry => sources'[r] = sources[r]
  BY <1>1 DEF C!Inserted
<1> QED
  BY <1>1, <1>2, <1>3, <1>4, SameBuilt

\* What a source is asked as is somebody.
LEMMA IdentityGiven == \A s : C!Identity(s) # None
<1> SUFFICES ASSUME NEW s
             PROVE  C!Identity(s) # None
  OBVIOUS
<1>1. C!First(<<C!DockerCredential(s.host), C!DockerCredential(C!Url(s.host)), "anonymous">>)
        # None
  BY WkgAssumption, FirstOfThree
<1> QED
  BY <1>1, WkgAssumption DEF C!Identity

\* A call waits for the one that logs in, and is then who that one is; or it logs in
\* itself.
LEMMA LoginEffect ==
  ASSUME ClientForm, NEW t \in Task, C!Login(t)
  PROVE  /\ UNCHANGED <<client, sources, built, calls, used, overlapped>>
         /\ SameTasks(t) /\ Grows(t)
         /\ task[t].pc = "login" /\ C!LoggingIn(task[t].source) = {}
         /\ \/ task'[t] = C!Idle
            \/ /\ task'[t].request = task[t].request /\ task'[t].registry = task[t].registry
               /\ task'[t].source = task[t].source
               /\ \/ /\ task'[t].pc = "operate" /\ built[task[t].source].login # None
                     /\ task'[t].identity = built[task[t].source].login
                  \/ /\ task'[t].pc = "auth" /\ built[task[t].source].login = None
                     /\ task'[t].identity # None
<1> DEFINE s == built[task[t].source]
<1>1. /\ UNCHANGED <<client, sources, built, calls, used, overlapped>>
      /\ task[t].pc = "login" /\ C!LoggingIn(task[t].source) = {}
  BY DEF C!Login, C!At
<1>2. CASE C!Fail(t)
  BY <1>1, <1>2, FailEffect, SameBuilt
<1>3. CASE /\ s.login # None
           /\ task' = [task EXCEPT ![t].pc = "operate", ![t].identity = s.login]
  <2>1. /\ SameTasks(t) /\ task'[t].pc = "operate" /\ task'[t].identity = s.login
        /\ task'[t].request = task[t].request /\ task'[t].registry = task[t].registry
        /\ task'[t].source = task[t].source
    BY <1>3 DEF ClientForm, SameTasks, C!Idle
  <2> QED
    BY <2>1, <1>1, <1>3, SameBuilt
<1>4. CASE /\ s.login = None
           /\ task' = [task EXCEPT ![t].pc = "auth", ![t].identity = C!Identity(s)]
  <2>1. /\ SameTasks(t) /\ task'[t].pc = "auth" /\ task'[t].identity = C!Identity(s)
        /\ task'[t].request = task[t].request /\ task'[t].registry = task[t].registry
        /\ task'[t].source = task[t].source
    BY <1>4 DEF ClientForm, SameTasks, C!Idle
  <2> QED
    BY <2>1, <1>1, <1>4, SameBuilt, IdentityGiven
<1> QED
  BY <1>2, <1>3, <1>4 DEF C!Login

\* The source gets the identity that was accepted.
LEMMA AcceptedEffect ==
  ASSUME ClientForm, NEW t \in Task, NEW identity, identity # None,
         task[t].pc \in {"auth", "retry"}, task[t].source \in 1 .. Len(built),
         C!Accepted(t, identity)
  PROVE  /\ SameTasks(t) /\ Grows(t) /\ Len(built') = Len(built)
         /\ \A i \in 1 .. Len(built) : i # task[t].source => Same(i)
         /\ built'[task[t].source].login = identity
         /\ task'[t].pc = "operate" /\ task'[t].identity = identity
         /\ task'[t].request = task[t].request /\ task'[t].registry = task[t].registry
         /\ task'[t].source = task[t].source
<1> DEFINE n == task[t].source
           s == [built[n] EXCEPT !.login = identity]
           all == {built[i] : i \in DOMAIN built}
<1>1. /\ built' = [built EXCEPT ![n].login = identity]
      /\ task' = [task EXCEPT ![t].pc = "operate", ![t].identity = identity]
  BY DEF C!Accepted
<1>2. SameTasks(t)
  BY <1>1 DEF ClientForm, SameTasks
<1>3. /\ task'[t].pc = "operate" /\ task'[t].identity = identity
      /\ task'[t].request = task[t].request /\ task'[t].registry = task[t].registry
      /\ task'[t].source = task[t].source
  BY <1>1 DEF ClientForm, C!Idle
<1>4. /\ s.login = identity /\ "login" \in DOMAIN s
      /\ s.registry = built[n].registry /\ s.request = built[n].request
      /\ s.host = built[n].host /\ s.backend = built[n].backend
  BY DEF ClientForm
<1>5. built' = [built EXCEPT ![n] = s]
  BY <1>1
<1> HIDE DEF s
<1>6. built \in Seq(all) /\ DOMAIN built = 1 .. Len(built) /\ Len(built) \in Nat
  BY DEF ClientForm
<1> HIDE DEF all
<1>7. built \in Seq(all \cup {s}) /\ n \in 1 .. Len(built)
  BY <1>6
<1>8. built' \in Seq(all \cup {s}) /\ Len(built') = Len(built)
  BY <1>5, <1>7
<1>9. built'[n] = s /\ \A i \in 1 .. Len(built) : i # n => built'[i] = built[i]
  BY <1>5, <1>7
<1>10. built' \in Seq({built'[i] : i \in DOMAIN built'})
  BY <1>8
<1>11. /\ \A i \in 1 .. Len(built) : i # n => Same(i)
       /\ Kept(n) /\ built'[n].login = identity
  BY <1>4, <1>9 DEF Same, Kept
<1>12. \A i \in 1 .. Len(built') : "login" \in DOMAIN built'[i]
  BY <1>4, <1>8, <1>9 DEF ClientForm
<1>13. Grows(t)
  BY <1>6, <1>8, <1>10, <1>11, <1>12 DEF Grows
<1> QED
  BY <1>2, <1>3, <1>8, <1>11, <1>13

\* The registry accepts the credentials, or the call fails or tries again as nobody.
LEMMA AuthEffect ==
  ASSUME ClientForm, NEW t \in Task, TaskInv(t), C!Auth(t) \/ C!Retry(t)
  PROVE  /\ UNCHANGED <<client, sources, calls, used, overlapped>>
         /\ SameTasks(t) /\ Grows(t) /\ task[t].pc \in {"auth", "retry"}
         /\ Len(built') = Len(built)
         /\ \A i \in 1 .. Len(built) : i # task[t].source => Same(i)
         /\ \/ built' = built /\ task'[t] = C!Idle
            \/ /\ built' = built /\ task'[t].pc = "retry"
               /\ task'[t].identity = task[t].identity
               /\ task'[t].request = task[t].request /\ task'[t].registry = task[t].registry
               /\ task'[t].source = task[t].source
            \/ /\ built'[task[t].source].login = task'[t].identity
               /\ task'[t].pc = "operate" /\ task'[t].identity # None
               /\ task'[t].request = task[t].request /\ task'[t].registry = task[t].registry
               /\ task'[t].source = task[t].source
<1>1. /\ UNCHANGED <<client, sources, calls, used, overlapped>>
      /\ task[t].pc \in {"auth", "retry"}
  BY DEF C!Auth, C!Retry, C!At
<1>2. task[t].source \in 1 .. Len(built) /\ task[t].identity # None
  BY <1>1 DEF TaskInv
<1>3. built' = built => \A i \in 1 .. Len(built) : Same(i)
  BY DEF Same, Kept
<1>4. CASE C!Fail(t) /\ UNCHANGED built
  BY <1>1, <1>3, <1>4, FailEffect, SameBuilt
<1>5. CASE task' = [task EXCEPT ![t].pc = "retry"] /\ UNCHANGED built
  <2>1. /\ SameTasks(t) /\ task'[t].pc = "retry"
        /\ task'[t].identity = task[t].identity
        /\ task'[t].request = task[t].request /\ task'[t].registry = task[t].registry
        /\ task'[t].source = task[t].source
    BY <1>5 DEF ClientForm, SameTasks, C!Idle
  <2> QED
    BY <2>1, <1>1, <1>3, <1>5, SameBuilt
<1>6. ASSUME NEW identity, identity # None, C!Accepted(t, identity)
      PROVE  /\ SameTasks(t) /\ Grows(t) /\ Len(built') = Len(built)
             /\ \A i \in 1 .. Len(built) : i # task[t].source => Same(i)
             /\ built'[task[t].source].login = task'[t].identity
             /\ task'[t].pc = "operate" /\ task'[t].identity # None
             /\ task'[t].request = task[t].request /\ task'[t].registry = task[t].registry
             /\ task'[t].source = task[t].source
  BY <1>1, <1>2, <1>6, AcceptedEffect
<1>7. CASE C!Accepted(t, task[t].identity)
  BY <1>1, <1>2, <1>6, <1>7
<1>8. CASE C!Accepted(t, "anonymous")
  BY <1>1, <1>6, <1>8, WkgAssumption
<1> QED
  BY <1>4, <1>5, <1>7, <1>8 DEF C!Auth, C!Retry

\* The registry is asked.
LEMMA OperateEffect ==
  ASSUME ClientForm, NEW t \in Task, C!Operate(t)
  PROVE  /\ UNCHANGED <<client, sources, built, calls, overlapped>>
         /\ SameTasks(t) /\ Grows(t) /\ task[t].pc = "operate" /\ task'[t] = C!Idle
         /\ used' = used \cup {[registry |-> task[t].registry,
                               host |-> built[task[t].source].host,
                               identity |-> task[t].identity]}
BY FailEffect, SameBuilt DEF C!Operate, C!At

\* A call is given up.
LEMMA DropEffect ==
  ASSUME ClientForm, NEW t \in Task, C!Drop(t)
  PROVE  /\ UNCHANGED <<client, sources, built, calls, used, overlapped>>
         /\ SameTasks(t) /\ Grows(t) /\ task'[t] = C!Idle
BY FailEffect, SameBuilt DEF C!Drop

ClientStep(t) ==
  \/ C!Begin(t) \/ C!Fetch(t) \/ C!Build(t) \/ C!Insert(t)
  \/ C!Login(t) \/ C!Auth(t) \/ C!Retry(t) \/ C!Operate(t) \/ C!Drop(t)

\* Every step is one of one call, and keeps the configuration and the sources.
LEMMA StepEffect ==
  ASSUME ClientForm, NEW t \in Task, TaskInv(t), ClientStep(t)
  PROVE  client' = client /\ SameTasks(t) /\ Grows(t)
BY BeginEffect, FetchEffect, BuildEffect, InsertEffect, LoginEffect, AuthEffect,
   OperateEffect, DropEffect DEF ClientStep

-----------------------------------------------------------------------------
(* The calls *)

\* A call that rests is no concern.
LEMMA RestingTask ==
  ASSUME NEW t, task'[t] = C!Idle, built' \in Seq({built'[i] : i \in DOMAIN built'})
  PROVE  TaskInv(t)'
BY DEF TaskInv, C!Idle

\* What holds of the other calls still holds.
LEMMA TaskOthers ==
  ASSUME ClientInv, NEW t \in Task, NEW q \in Task, q # t,
         client' = client, SameTasks(t), Grows(t)
  PROVE  TaskInv(q)'
<1>1. task'[q] = task[q] /\ TaskInv(q) /\ TaskInv(t) /\ ClientForm
  BY DEF SameTasks, ClientInv
<1>2. Len(built) \in Nat /\ Len(built') \in Nat /\ Len(built) <= Len(built')
  BY <1>1 DEF ClientForm, Grows
<1> DEFINE n == task[q].source
<1>3. n \in 0 .. Len(built)
  BY <1>1 DEF TaskInv
<1>4. CASE n = 0
  BY <1>1, <1>2, <1>4, SameClient DEF TaskInv, Given
<1>5. CASE n \in 1 .. Len(built) /\ Same(n)
  BY <1>1, <1>2, <1>5, SameClient DEF TaskInv, Given, Same, Kept
<1>6. CASE /\ n \in 1 .. Len(built) /\ Kept(n)
           /\ built'[n].login # None
           /\ n = task[t].source /\ task[t].pc \in {"auth", "retry"}
  <2>1. task[q].pc \notin {"auth", "retry"}
    BY <1>6 DEF ClientInv
  <2>2. built[n].backend = Oci /\ built[n].login = None
    BY <1>1, <1>6 DEF TaskInv
  <2>3. task[q].pc # "operate"
    BY <1>1, <2>2 DEF TaskInv
  <2> QED
    BY <1>1, <1>2, <1>6, <2>1, <2>3, SameClient DEF TaskInv, Given, Kept
<1> QED
  BY <1>3, <1>4, <1>5, <1>6 DEF Grows

\* A call that has its source goes on with it.
LEMMA ReadyTask ==
  ASSUME ClientInv, NEW t \in Task, built' = built,
         task'[t].request \in Requests \cup {C!NoRequest},
         task'[t].source \in 1 .. Len(built),
         built[task'[t].source].registry = task'[t].registry,
         task'[t].pc = C!Ready(built[task'[t].source]), task'[t].identity = None
  PROVE  TaskInv(t)'
<1>1. SourceInv(built[task'[t].source])
  BY DEF ClientInv
<1> QED
  BY <1>1 DEF TaskInv, C!Ready, SourceInv

\* Every step of a call keeps what holds of it.
LEMMA TaskOwn ==
  ASSUME ClientInv, NEW t \in Task, ClientStep(t)
  PROVE  TaskInv(t)'
<1>1. /\ TaskInv(t) /\ ClientForm /\ client' = client /\ SameTasks(t) /\ Grows(t)
      /\ Len(built) \in Nat /\ built' \in Seq({built'[i] : i \in DOMAIN built'})
  <2>1. TaskInv(t) /\ ClientForm
    BY DEF ClientInv
  <2>2. client' = client /\ SameTasks(t) /\ Grows(t)
    BY <2>1, StepEffect
  <2>3. built \in Seq({built[i] : i \in DOMAIN built})
    BY <2>1 DEF ClientForm
  <2>4. Len(built) \in Nat
    BY <2>3
  <2>5. built' \in Seq({built'[i] : i \in DOMAIN built'})
    BY <2>2 DEF Grows
  <2> QED
    BY <2>1, <2>2, <2>4, <2>5
<1>2. CASE C!Begin(t)
  <2>1. built' = built
    BY <1>1, <1>2, BeginEffect
  <2>2. CASE task'[t] = task[t]
    BY <1>1, <2>1, <2>2, SameClient DEF TaskInv, Given
  <2>3. CASE /\ task'[t].registry \in DOMAIN sources
             /\ task'[t].source = sources[task'[t].registry]
             /\ task'[t].request \in Requests
             /\ task'[t].pc = C!Ready(built[task'[t].source])
             /\ task'[t].identity = None
    <3>1. /\ task'[t].source \in 1 .. Len(built)
          /\ built[task'[t].source].registry = task'[t].registry
      BY <1>1, <2>3 DEF ClientForm
    <3> QED
      BY <2>1, <2>3, <3>1, ReadyTask
  <2>4. CASE /\ task'[t].registry = C!RegistryFor(task'[t].request)
             /\ task'[t].request \in Requests
             /\ task'[t].pc \in {"build", "fetch"} /\ task'[t].identity = None
             /\ task'[t].source = 0
             /\ task'[t].pc = "build" => Given(task'[t])
    BY <1>1, <2>1, <2>4, SameClient DEF TaskInv, Given
  <2> QED
    BY <1>1, <1>2, <2>2, <2>3, <2>4, BeginEffect
<1>3. CASE C!Fetch(t)
  <2>1. /\ built' = built
        /\ task[t].pc = "fetch" /\ task'[t].pc = "build"
        /\ task'[t].request = task[t].request /\ task'[t].registry = task[t].registry
        /\ task'[t].source = task[t].source /\ task'[t].identity = task[t].identity
        /\ Given(task'[t])
    BY <1>1, <1>3, FetchEffect
  <2> QED
    BY <1>1, <2>1, SameClient DEF TaskInv, Given
<1>4. CASE C!Build(t)
  <2>1. CASE task'[t] = C!Idle
    BY <1>1, <2>1, RestingTask
  <2>2. CASE /\ Len(built') = Len(built) + 1
             /\ task'[t].pc = "insert" /\ task'[t].source = Len(built')
             /\ task'[t].request = task[t].request /\ task'[t].registry = task[t].registry
             /\ task'[t].identity = task[t].identity
             /\ C!Source(t) # None /\ built'[Len(built')] = C!Source(t)
    <3>1. task[t].pc = "build"
      BY <1>1, <1>4, BuildEffect
    <3>2. C!Source(t).registry = task[t].registry
      BY <2>2, SourceMade
    <3> QED
      BY <1>1, <2>2, <3>1, <3>2, SameClient DEF TaskInv
  <2> QED
    BY <1>1, <1>4, <2>1, <2>2, BuildEffect
<1>5. CASE C!Insert(t)
  <2>1. /\ built' = built /\ task[t].pc = "insert"
        /\ task'[t].pc = C!Ready(built[task[t].source]) /\ task'[t].source = task[t].source
        /\ task'[t].request = task[t].request /\ task'[t].registry = task[t].registry
        /\ task'[t].identity = task[t].identity
    BY <1>1, <1>5, InsertEffect
  <2>2. /\ task[t].source \in 1 .. Len(built) /\ task[t].identity = None
        /\ task[t].request \in Requests \cup {C!NoRequest}
        /\ built[task[t].source].registry = task[t].registry
    BY <1>1, <2>1 DEF TaskInv
  <2> QED
    BY <2>1, <2>2, ReadyTask
<1>6. CASE C!Login(t)
  <2>1. CASE task'[t] = C!Idle
    BY <1>1, <2>1, RestingTask
  <2>2. CASE /\ task'[t].request = task[t].request /\ task'[t].registry = task[t].registry
             /\ task'[t].source = task[t].source
             /\ \/ /\ task'[t].pc = "operate" /\ built[task[t].source].login # None
                   /\ task'[t].identity = built[task[t].source].login
                \/ /\ task'[t].pc = "auth" /\ built[task[t].source].login = None
                   /\ task'[t].identity # None
    <3>1. task[t].pc = "login" /\ built' = built
      BY <1>1, <1>6, LoginEffect
    <3> QED
      BY <1>1, <2>2, <3>1 DEF TaskInv
  <2> QED
    BY <1>1, <1>6, <2>1, <2>2, LoginEffect
<1>7. CASE C!Auth(t) \/ C!Retry(t)
  <2>1. task[t].pc \in {"auth", "retry"} /\ Len(built') = Len(built)
    BY <1>1, <1>7, AuthEffect
  <2>2. CASE task'[t] = C!Idle
    BY <1>1, <2>2, RestingTask
  <2>3. CASE /\ built' = built /\ task'[t].pc = "retry"
             /\ task'[t].identity = task[t].identity
             /\ task'[t].request = task[t].request /\ task'[t].registry = task[t].registry
             /\ task'[t].source = task[t].source
    BY <1>1, <2>1, <2>3 DEF TaskInv
  <2>4. CASE /\ built'[task[t].source].login = task'[t].identity
             /\ task'[t].pc = "operate" /\ task'[t].identity # None
             /\ task'[t].request = task[t].request /\ task'[t].registry = task[t].registry
             /\ task'[t].source = task[t].source
    <3>1. task[t].source \in 1 .. Len(built) /\ built[task[t].source].registry = task[t].registry
      BY <1>1, <2>1 DEF TaskInv
    <3>2. Kept(task[t].source)
      BY <1>1, <3>1 DEF Grows, Same
    <3> QED
      BY <1>1, <2>1, <2>4, <3>1, <3>2 DEF TaskInv, Kept
  <2> QED
    BY <1>1, <1>7, <2>2, <2>3, <2>4, AuthEffect
<1>8. CASE C!Operate(t) \/ C!Drop(t)
  BY <1>1, <1>8, OperateEffect, DropEffect, RestingTask
<1> QED
  BY <1>2, <1>3, <1>4, <1>5, <1>6, <1>7, <1>8 DEF ClientStep

\* Only one call at a time logs in to a source.
OneLogin ==
  \A t, q \in Task :
    /\ task[t].pc \in {"auth", "retry"} /\ task[q].pc \in {"auth", "retry"}
    /\ task[t].source = task[q].source
    => t = q

\* A call does not begin to log in to a source while another one does.
LEMMA OneLoginStep ==
  ASSUME ClientInv, NEW t \in Task, ClientStep(t)
  PROVE  OneLogin'
<1>1. /\ TaskInv(t) /\ ClientForm /\ OneLogin /\ SameTasks(t) /\ TaskInv(t)'
      /\ \A q \in Task : q # t => task'[q] = task[q]
  <2>1. TaskInv(t) /\ ClientForm /\ OneLogin
    BY DEF ClientInv, OneLogin
  <2> QED
    BY <2>1, StepEffect, TaskOwn DEF SameTasks
<1>2. CASE task'[t].pc \notin {"auth", "retry"}
  BY <1>1, <1>2 DEF OneLogin
<1>3. CASE task'[t].pc \in {"auth", "retry"}
  <2>1. /\ task'[t].source = task[t].source
        /\ task[t].pc \in {"auth", "retry"} \/ C!LoggingIn(task[t].source) = {}
    <3>1. ASSUME C!Begin(t)
          PROVE  FALSE
      BY <1>1, <1>3, <3>1, BeginEffect DEF C!Ready
    <3>2. ASSUME C!Fetch(t) \/ C!Build(t) \/ C!Operate(t) \/ C!Drop(t)
          PROVE  FALSE
      BY <1>1, <1>3, <3>2, FetchEffect, BuildEffect, OperateEffect, DropEffect DEF C!Idle
    <3>3. ASSUME C!Insert(t)
          PROVE  FALSE
      BY <1>1, <1>3, <3>3, InsertEffect DEF C!Ready
    <3>4. CASE C!Login(t)
      BY <1>1, <1>3, <3>4, LoginEffect DEF C!Idle
    <3>5. CASE C!Auth(t) \/ C!Retry(t)
      BY <1>1, <1>3, <3>5, AuthEffect DEF C!Idle
    <3> QED
      BY <3>1, <3>2, <3>3, <3>4, <3>5 DEF ClientStep
  <2>2. \A q \in Task : /\ q # t /\ task[q].source = task[t].source
                        => task[q].pc \notin {"auth", "retry"}
    BY <1>1, <2>1 DEF OneLogin, C!LoggingIn
  <2> QED
    BY <1>1, <2>1, <2>2 DEF OneLogin
<1> QED
  BY <1>2, <1>3

-----------------------------------------------------------------------------
(* The sources *)

\* A source that is built is at a home of its registry, or its request is one that the
\* code gives another registry's metadata.
LEMMA SourcePlaced ==
  ASSUME ClientInv, NEW t \in Task, task[t].pc = "build", C!Source(t) # None
  PROVE  SourceInv(C!Source(t))
<1> DEFINE s == C!Source(t)
<1>1. /\ s.registry = task[t].registry /\ s.request = task[t].request
      /\ s.host \in {Local, C!HostOf(task[t].registry, task[t].meta)}
      /\ s.login = None
  BY SourceMade
<1>2. /\ client \in Configs /\ task[t].registry = C!RegistryFor(task[t].request)
      /\ Given(task[t])
  BY DEF ClientInv, ClientForm, TaskInv
<1> HIDE DEF s
<1>3. C!HostOf(task[t].registry, task[t].meta) \in C!Homes(s.registry) \/ C!Misplaced(s.request)
  <2>1. CASE task[t].meta \in {C!NoMetadata,
               C!First(<<C!Lookup(WellKnown, task[t].registry), C!NoMetadata>>)}
    BY <1>1, <2>1 DEF C!Homes
  <2>2. CASE task[t].meta = C!Configured(task[t].request) /\ task[t].meta # None
    BY <1>1, <1>2, <2>2, ConfiguredIsPlaced
  <2> QED
    BY <1>2, <2>1, <2>2 DEF Given
<1> QED
  BY <1>1, <1>3 DEF SourceInv, s

\* Every source stays where it is.
LEMMA SourcesStep ==
  ASSUME ClientInv, NEW t \in Task, ClientStep(t)
  PROVE  (\A i \in 1 .. Len(built) : SourceInv(built[i]))'
<1>1. /\ TaskInv(t) /\ ClientForm /\ client' = client /\ Grows(t)
  <2>1. TaskInv(t) /\ ClientForm
    BY DEF ClientInv
  <2> QED
    BY <2>1, StepEffect
<1>2. Len(built) \in Nat
  BY <1>1 DEF ClientForm
<1> SUFFICES ASSUME NEW i \in 1 .. Len(built')
             PROVE  SourceInv(built[i])'
  OBVIOUS
<1>3. CASE i \in 1 .. Len(built)
  <2>1. SourceInv(built[i])
    BY <1>3 DEF ClientInv
  <2>2. Kept(i)
    BY <1>1, <1>3 DEF Grows, Same
  <2>3. built'[i].login = built[i].login \/ built[i].backend = Oci
    BY <1>1, <1>3 DEF Grows, Same, TaskInv
  <2> QED
    BY <1>1, <2>1, <2>2, <2>3, SameClient DEF SourceInv, Kept
<1>4. CASE i \notin 1 .. Len(built)
  <2>1. Len(built') > Len(built) /\ i = Len(built')
    BY <1>1, <1>2, <1>4 DEF Grows
  <2>2. task[t].pc = "build"
    BY <1>1, <2>1 DEF Grows
  <2>3. C!Build(t)
    BY <1>1, <1>2, <2>1, <2>2 DEF ClientStep, C!Begin, C!Fetch, C!Insert, C!Login, C!Auth,
                                  C!Retry, C!Operate, C!Drop, C!At
  <2>4. C!Source(t) # None /\ built'[i] = C!Source(t)
    BY <1>1, <1>2, <2>1, <2>3, BuildEffect
  <2>5. SourceInv(C!Source(t))
    BY <2>2, <2>4, SourcePlaced
  <2> QED
    BY <1>1, <2>4, <2>5, SameClient DEF SourceInv
<1> QED
  BY <1>3, <1>4

\* What has been asked was asked of a source.
LEMMA UsedStep ==
  ASSUME ClientInv, NEW t \in Task, ClientStep(t)
  PROVE  (\A u \in used : UsedInv(u))'
<1>1. /\ TaskInv(t) /\ ClientForm /\ Grows(t)
  <2>1. TaskInv(t) /\ ClientForm
    BY DEF ClientInv
  <2> QED
    BY <2>1, StepEffect
<1>2. /\ Len(built) \in Nat /\ Len(built') \in Nat /\ Len(built) <= Len(built')
      /\ \A i \in 1 .. Len(built) : Kept(i)
  BY <1>1 DEF ClientForm, Grows, Same
<1> SUFFICES ASSUME NEW u \in used'
             PROVE  UsedInv(u)'
  OBVIOUS
<1>3. \E i \in 1 .. Len(built) : built[i].registry = u.registry /\ built[i].host = u.host
  <2>1. CASE u \in used
    BY <2>1 DEF ClientInv, UsedInv
  <2>2. CASE u \notin used
    <3>1. C!Operate(t)
      BY <2>2 DEF ClientStep, C!Begin, C!Fetch, C!Build, C!Insert, C!Login, C!Auth,
                  C!Retry, C!Drop
    <3>2. /\ u.registry = task[t].registry /\ u.host = built[task[t].source].host
          /\ task[t].pc = "operate"
      BY <1>1, <2>2, <3>1, OperateEffect
    <3> QED
      BY <1>1, <3>2 DEF TaskInv
  <2> QED
    BY <2>1, <2>2
<1>4. PICK i \in 1 .. Len(built) : built[i].registry = u.registry /\ built[i].host = u.host
  BY <1>3
<1>5. i \in 1 .. Len(built') /\ built'[i].registry = u.registry /\ built'[i].host = u.host
  BY <1>2, <1>4 DEF Kept
<1> QED
  BY <1>5 DEF UsedInv

-----------------------------------------------------------------------------
(* The registries *)

Making(k, r) == k.registry = r /\ k.pc \in {"fetch", "build", "insert"}
Having(k, r) == k.registry = r /\ k.pc \in {"login", "auth", "retry", "operate"}

\* A step that leaves the cache alone keeps what holds of a registry, when it makes no
\* second source and uses the one that the cache has.
LEMMA RegistryKept ==
  ASSUME NEW r, NEW t \in Task, RegistryInv(r), SameTasks(t), sources' = sources,
         Making(task'[t], r) =>
           Making(task[t], r) \/ (C!Building(r) = {} /\ r \notin DOMAIN sources),
         Having(task'[t], r) => r \in DOMAIN sources /\ task'[t].source = sources[r],
         \A u \in used' \ used : u.registry = r =>
           /\ r \in DOMAIN sources
           /\ u.host = built[sources[r]].host /\ u.identity = built[sources[r]].login
           /\ built[sources[r]].backend = Oci => built[sources[r]].login # None,
         r \in DOMAIN sources /\ (\E u \in used' : u.registry = r) => Same(sources[r])
  PROVE  RegistryInv(r)'
<1>1. \A q \in Task : q # t => task'[q] = task[q]
  BY DEF SameTasks
<1>2. /\ C!Building(r) = {q \in Task : Making(task[q], r)}
      /\ C!Building(r)' = {q \in Task : Making(task'[q], r)}
  BY DEF C!Building, Making
<1>3. (\A q1, q2 \in C!Building(r) : q1 = q2)'
  BY <1>1, <1>2 DEF RegistryInv
<1>4. (C!Building(r) # {} => r \notin DOMAIN sources)'
  BY <1>1, <1>2 DEF RegistryInv
<1>5. ASSUME NEW q \in Task, Having(task'[q], r)
      PROVE  r \in DOMAIN sources' /\ task'[q].source = sources'[r]
  BY <1>1, <1>5 DEF RegistryInv, Having
<1>6. ASSUME NEW u \in used', u.registry = r
      PROVE  /\ r \in DOMAIN sources'
             /\ u.host = built'[sources'[r]].host /\ u.identity = built'[sources'[r]].login
             /\ built'[sources'[r]].backend = Oci => built'[sources'[r]].login # None
  <2>1. /\ r \in DOMAIN sources
        /\ u.host = built[sources[r]].host /\ u.identity = built[sources[r]].login
        /\ built[sources[r]].backend = Oci => built[sources[r]].login # None
    BY <1>6 DEF RegistryInv
  <2>2. Same(sources[r])
    BY <1>6, <2>1
  <2> QED
    BY <2>1, <2>2 DEF Same, Kept
<1> QED
  BY <1>3, <1>4, <1>5, <1>6 DEF RegistryInv, Having

\* Every step keeps what holds of a registry for which no two calls have overlapped.
LEMMA RegistryStep ==
  ASSUME ClientInv, NEW t \in Task, ClientStep(t), NEW r, r \notin overlapped'
  PROVE  RegistryInv(r)'
<1>1. TaskInv(t) /\ ClientForm /\ SameTasks(t) /\ Grows(t)
  <2>1. TaskInv(t) /\ ClientForm
    BY DEF ClientInv
  <2> QED
    BY <2>1, StepEffect
<1>2. overlapped \subseteq overlapped'
  BY DEF ClientStep, C!Begin, C!Fetch, C!Build, C!Insert, C!Login, C!Auth, C!Retry,
         C!Operate, C!Drop
<1>3. RegistryInv(r)
  BY <1>2 DEF ClientInv
<1>4. \A q \in DOMAIN sources : sources[q] \in 1 .. Len(built)
  BY <1>1 DEF ClientForm
<1>5. built' = built => \A i : Same(i)
  BY DEF Same, Kept
<1>6. Having(task[t], r) => r \in DOMAIN sources /\ task[t].source = sources[r]
  BY <1>3 DEF RegistryInv, Having
<1>7. CASE C!Begin(t)
  <2>1. /\ UNCHANGED <<sources, built, used>>
        /\ \/ task'[t] = task[t]
           \/ /\ task'[t].registry \in DOMAIN sources
              /\ task'[t].source = sources[task'[t].registry]
              /\ task'[t].pc = C!Ready(built[task'[t].source])
           \/ /\ task'[t].registry \notin DOMAIN sources
              /\ task'[t].pc \in {"build", "fetch"}
              /\ overlapped' = IF C!Building(task'[t].registry) = {} THEN overlapped
                               ELSE overlapped \cup {task'[t].registry}
    BY <1>1, <1>7, BeginEffect
  <2>2. CASE task'[t] = task[t]
    BY <1>1, <1>3, <1>5, <1>6, <2>1, <2>2, RegistryKept
  <2>3. CASE /\ task'[t].registry \in DOMAIN sources
             /\ task'[t].source = sources[task'[t].registry]
             /\ task'[t].pc = C!Ready(built[task'[t].source])
    <3>1. ~Making(task'[t], r)
      BY <2>3 DEF Making, C!Ready
    <3>2. Having(task'[t], r) => r \in DOMAIN sources /\ task'[t].source = sources[r]
      BY <2>3 DEF Having
    <3> QED
      BY <1>1, <1>3, <1>5, <2>1, <3>1, <3>2, RegistryKept
  <2>4. CASE /\ task'[t].registry \notin DOMAIN sources
             /\ task'[t].pc \in {"build", "fetch"}
             /\ overlapped' = IF C!Building(task'[t].registry) = {} THEN overlapped
                              ELSE overlapped \cup {task'[t].registry}
    <3>1. Making(task'[t], r) => C!Building(r) = {} /\ r \notin DOMAIN sources
      BY <2>4 DEF Making
    <3>2. ~Having(task'[t], r)
      BY <2>4 DEF Having
    <3> QED
      BY <1>1, <1>3, <1>5, <2>1, <3>1, <3>2, RegistryKept
  <2> QED
    BY <2>1, <2>2, <2>3, <2>4
<1>8. CASE C!Fetch(t)
  <2>1. /\ UNCHANGED <<sources, built, used>>
        /\ task[t].pc = "fetch" /\ task'[t].pc = "build"
        /\ task'[t].registry = task[t].registry
    BY <1>1, <1>8, FetchEffect
  <2>2. (Making(task'[t], r) => Making(task[t], r)) /\ ~Having(task'[t], r)
    BY <2>1 DEF Making, Having
  <2> QED
    BY <1>1, <1>3, <1>5, <2>1, <2>2, RegistryKept
<1>9. CASE C!Build(t)
  <2>1. /\ UNCHANGED <<sources, used>> /\ \A i \in 1 .. Len(built) : Same(i)
        /\ task[t].pc = "build"
        /\ \/ task'[t] = C!Idle
           \/ task'[t].pc = "insert" /\ task'[t].registry = task[t].registry
    BY <1>1, <1>5, <1>9, BuildEffect
  <2>2. (Making(task'[t], r) => Making(task[t], r)) /\ ~Having(task'[t], r)
    BY <2>1 DEF Making, Having, C!Idle
  <2> QED
    BY <1>1, <1>3, <1>4, <2>1, <2>2, RegistryKept
<1>10. CASE C!Insert(t)
  <2>1. /\ UNCHANGED <<built, used>> /\ task[t].pc = "insert"
        /\ DOMAIN sources' = DOMAIN sources \cup {task[t].registry}
        /\ sources'[task[t].registry] = task[t].source
        /\ \A q \in DOMAIN sources : q # task[t].registry => sources'[q] = sources[q]
        /\ task'[t].pc = C!Ready(built[task[t].source]) /\ task'[t].source = task[t].source
        /\ task'[t].registry = task[t].registry
        /\ \A q \in Task : q # t => task'[q] = task[q]
    BY <1>1, <1>10, InsertEffect DEF SameTasks
  <2>2. C!Building(r)' = C!Building(r) \ {t}
    BY <2>1 DEF C!Building, C!Ready
  <2>3. CASE task[t].registry = r
    <3>1. C!Building(r) = {t} /\ r \notin DOMAIN sources
      BY <1>3, <2>1, <2>3 DEF RegistryInv, C!Building
    <3>2. C!Building(r)' = {}
      BY <2>2, <3>1
    <3>3. \A u \in used' : u.registry # r
      BY <1>3, <2>1, <3>1 DEF RegistryInv
    <3>4. \A q \in Task : Having(task'[q], r) => q = t
      BY <1>3, <2>1, <3>1 DEF RegistryInv, Having
    <3> QED
      BY <2>1, <2>3, <3>2, <3>3, <3>4 DEF RegistryInv, Having
  <2>4. CASE task[t].registry # r
    <3>1. /\ r \in DOMAIN sources' <=> r \in DOMAIN sources
          /\ r \in DOMAIN sources => sources'[r] = sources[r]
      BY <2>1, <2>4
    <3>2. \A q \in Task : Having(task'[q], r) => q # t
      BY <2>1, <2>4 DEF Having
    <3>3. \A q \in Task : Having(task'[q], r) => r \in DOMAIN sources /\ task'[q].source = sources[r]
      BY <1>3, <2>1, <3>2 DEF RegistryInv, Having
    <3> QED
      BY <1>3, <2>1, <2>2, <3>1, <3>3 DEF RegistryInv, Having
  <2> QED
    BY <2>3, <2>4
<1>11. CASE C!Login(t)
  <2>1. /\ UNCHANGED <<sources, built, used>> /\ task[t].pc = "login"
        /\ \/ task'[t] = C!Idle
           \/ /\ task'[t].registry = task[t].registry /\ task'[t].source = task[t].source
              /\ task'[t].pc \in {"operate", "auth"}
    BY <1>1, <1>11, LoginEffect
  <2>2. ~Making(task'[t], r) /\ (Having(task'[t], r) =>
                                  Having(task[t], r) /\ task'[t].source = task[t].source)
    BY <2>1 DEF Making, Having, C!Idle
  <2> QED
    BY <1>1, <1>3, <1>5, <1>6, <2>1, <2>2, RegistryKept
<1>12. CASE C!Auth(t) \/ C!Retry(t)
  <2>1. /\ UNCHANGED <<sources, used>> /\ task[t].pc \in {"auth", "retry"}
        /\ \A i \in 1 .. Len(built) : i # task[t].source => Same(i)
        /\ \/ task'[t] = C!Idle
           \/ /\ task'[t].registry = task[t].registry /\ task'[t].source = task[t].source
              /\ task'[t].pc \in {"operate", "retry"}
    BY <1>1, <1>12, AuthEffect
  <2>2. ~Making(task'[t], r) /\ (Having(task'[t], r) =>
                                  Having(task[t], r) /\ task'[t].source = task[t].source)
    BY <2>1 DEF Making, Having, C!Idle
  <2>3. ASSUME r \in DOMAIN sources, NEW u \in used', u.registry = r
        PROVE  Same(sources[r])
    <3>1. built[sources[r]].backend = Oci => built[sources[r]].login # None
      BY <1>3, <2>1, <2>3 DEF RegistryInv
    <3>2. built[task[t].source].backend = Oci /\ built[task[t].source].login = None
      BY <1>1, <2>1 DEF TaskInv
    <3> QED
      BY <1>4, <2>1, <2>3, <3>1, <3>2
  <2> QED
    BY <1>1, <1>3, <1>6, <2>1, <2>2, <2>3, RegistryKept
<1>13. CASE C!Operate(t)
  <2>1. /\ UNCHANGED <<sources, built>> /\ task[t].pc = "operate" /\ task'[t] = C!Idle
        /\ used' = used \cup {[registry |-> task[t].registry,
                              host |-> built[task[t].source].host,
                              identity |-> task[t].identity]}
    BY <1>1, <1>13, OperateEffect
  <2>2. ~Making(task'[t], r) /\ ~Having(task'[t], r)
    BY <2>1 DEF Making, Having, C!Idle
  <2>3. ASSUME NEW u \in used' \ used, u.registry = r
        PROVE  /\ r \in DOMAIN sources
               /\ u.host = built[sources[r]].host /\ u.identity = built[sources[r]].login
               /\ built[sources[r]].backend = Oci => built[sources[r]].login # None
    <3>1. /\ u.registry = task[t].registry /\ u.host = built[task[t].source].host
          /\ u.identity = task[t].identity
      BY <2>1
    <3>2. Having(task[t], r)
      BY <2>1, <2>3, <3>1 DEF Having
    <3> QED
      BY <1>1, <1>6, <2>1, <3>1, <3>2 DEF TaskInv
  <2> QED
    BY <1>1, <1>3, <1>5, <2>1, <2>2, <2>3, RegistryKept
<1>14. CASE C!Drop(t)
  <2>1. UNCHANGED <<sources, built, used>> /\ task'[t] = C!Idle
    BY <1>1, <1>14, DropEffect
  <2>2. ~Making(task'[t], r) /\ ~Having(task'[t], r)
    BY <2>1 DEF Making, Having, C!Idle
  <2> QED
    BY <1>1, <1>3, <1>5, <2>1, <2>2, RegistryKept
<1> QED
  BY <1>7, <1>8, <1>9, <1>10, <1>11, <1>12, <1>13, <1>14 DEF ClientStep

-----------------------------------------------------------------------------
(* All of it *)

\* The tables stay tables, and the cache has sources of the registries it has them for.
LEMMA FormStep ==
  ASSUME ClientInv, NEW t \in Task, ClientStep(t)
  PROVE  ClientForm'
<1>1. /\ TaskInv(t) /\ ClientForm /\ client' = client /\ SameTasks(t) /\ Grows(t)
  <2>1. TaskInv(t) /\ ClientForm
    BY DEF ClientInv
  <2> QED
    BY <2>1, StepEffect
<1>2. calls' \in 0 .. MaxCalls
  <2>1. CASE C!Begin(t)
    <3>1. calls' = calls + 1 /\ calls < MaxCalls /\ calls \in 0 .. MaxCalls
      BY <1>1, <2>1, BeginEffect DEF ClientForm
    <3> QED
      BY <3>1, WkgAssumption
  <2>2. CASE calls' = calls
    BY <1>1, <2>2 DEF ClientForm
  <2> QED
    BY <2>1, <2>2 DEF ClientStep, C!Fetch, C!Build, C!Insert, C!Login, C!Auth, C!Retry,
                      C!Operate, C!Drop
<1>3. /\ Len(built) \in Nat /\ Len(built') \in Nat /\ Len(built) <= Len(built')
      /\ \A i \in 1 .. Len(built) : Kept(i)
  BY <1>1 DEF ClientForm, Grows, Same
<1>4. ASSUME NEW r \in DOMAIN sources'
      PROVE  sources'[r] \in 1 .. Len(built) /\ built[sources'[r]].registry = r
  <2>1. CASE sources' = sources
    BY <1>1, <2>1 DEF ClientForm
  <2>2. CASE C!Insert(t)
    <3>1. /\ task[t].pc = "insert"
          /\ DOMAIN sources' = DOMAIN sources \cup {task[t].registry}
          /\ sources'[task[t].registry] = task[t].source
          /\ \A q \in DOMAIN sources : q # task[t].registry => sources'[q] = sources[q]
      BY <1>1, <2>2, InsertEffect
    <3>2. /\ task[t].source \in 1 .. Len(built)
          /\ built[task[t].source].registry = task[t].registry
      BY <1>1, <3>1 DEF TaskInv
    <3>3. CASE r = task[t].registry
      BY <3>1, <3>2, <3>3
    <3>4. CASE r # task[t].registry
      BY <1>1, <3>1, <3>4 DEF ClientForm
    <3> QED
      BY <3>3, <3>4
  <2> QED
    BY <2>1, <2>2 DEF ClientStep, C!Begin, C!Fetch, C!Build, C!Login, C!Auth, C!Retry,
                      C!Operate, C!Drop
<1>5. \A r \in DOMAIN sources' :
        sources'[r] \in 1 .. Len(built') /\ built'[sources'[r]].registry = r
  BY <1>3, <1>4 DEF Kept
<1> QED
  BY <1>1, <1>2, <1>5 DEF ClientForm, Grows, SameTasks

\* No call has been made.
LEMMA ClientInvInit == C!ClientInit => ClientInv
<1> SUFFICES ASSUME C!ClientInit
             PROVE  ClientInv
  OBVIOUS
<1>1. /\ client \in Configs /\ calls = 0 /\ built = <<>> /\ used = {}
      /\ DOMAIN sources = {} /\ task = [t \in Task |-> C!Idle]
  BY DEF C!ClientInit, C!Nothing
<1>2. ClientForm
  BY <1>1, WkgAssumption DEF ClientForm
<1>3. \A t \in Task : TaskInv(t)
  BY <1>1 DEF TaskInv, C!Idle
<1>4. \A t \in Task : task[t].pc = "rest"
  BY <1>1 DEF C!Idle
<1>5. \A r : RegistryInv(r)
  BY <1>1, <1>4 DEF RegistryInv, C!Building
<1> QED
  BY <1>1, <1>2, <1>3, <1>4, <1>5 DEF ClientInv

\* Every step keeps the invariant.
LEMMA ClientInvStep == ClientInv /\ [C!ClientNext]_clientState => ClientInv'
<1> SUFFICES ASSUME ClientInv, [C!ClientNext]_clientState
             PROVE  ClientInv'
  OBVIOUS
<1>1. CASE UNCHANGED clientState
  <2>1. UNCHANGED <<client, task, sources, built, calls, used, overlapped>>
    BY <1>1 DEF clientState
  <2>2. ClientForm'
    BY <2>1 DEF ClientInv, ClientForm
  <2>3. (\A t \in Task : TaskInv(t))'
    BY <2>1, SameClient DEF ClientInv, TaskInv, Given
  <2>4. OneLogin'
    BY <2>1 DEF ClientInv, OneLogin
  <2>5. (\A i \in 1 .. Len(built) : SourceInv(built[i]))'
    BY <2>1, SameClient DEF ClientInv, SourceInv
  <2>6. (\A u \in used : UsedInv(u))'
    BY <2>1 DEF ClientInv, UsedInv
  <2>7. (\A r : r \notin overlapped => RegistryInv(r))'
    BY <2>1 DEF ClientInv, RegistryInv, C!Building
  <2> QED
    BY <2>2, <2>3, <2>4, <2>5, <2>6, <2>7 DEF ClientInv, OneLogin
<1>2. CASE C!ClientNext
  <2>1. PICK t \in Task : ClientStep(t)
    BY <1>2 DEF C!ClientNext, ClientStep
  <2>2. (\A q \in Task : TaskInv(q))'
    <3> SUFFICES ASSUME NEW q \in Task
                 PROVE  TaskInv(q)'
      OBVIOUS
    <3>1. client' = client /\ SameTasks(t) /\ Grows(t)
      BY <2>1, StepEffect DEF ClientInv
    <3> QED
      BY <2>1, <3>1, TaskOwn, TaskOthers
  <2>3. ClientForm' /\ OneLogin' /\ (\A i \in 1 .. Len(built) : SourceInv(built[i]))'
        /\ (\A u \in used : UsedInv(u))'
    BY <2>1, FormStep, OneLoginStep, SourcesStep, UsedStep
  <2>4. (\A r : r \notin overlapped => RegistryInv(r))'
    BY <2>1, RegistryStep
  <2> QED
    BY <2>2, <2>3, <2>4 DEF ClientInv, OneLogin
<1> QED
  BY <1>1, <1>2

\* What answers is a source of the registry that is asked.
LEMMA AnswersArePlaced == ClientInv => MetadataOfRegistry
<1> SUFFICES ASSUME ClientInv, NEW u \in used
             PROVE  \/ u.host \in C!Homes(u.registry) \cup {Local}
                    \/ \E i \in DOMAIN built : /\ built[i].registry = u.registry
                                               /\ C!Misplaced(built[i].request)
  BY DEF MetadataOfRegistry, C!MetadataOfRegistry
<1>1. PICK i \in 1 .. Len(built) : built[i].registry = u.registry /\ built[i].host = u.host
  BY DEF ClientInv, UsedInv
<1>2. i \in DOMAIN built /\ SourceInv(built[i])
  BY DEF ClientInv, ClientForm
<1> QED
  BY <1>1, <1>2 DEF SourceInv

\* The one source of a registry is who its calls are.
LEMMA OneSourceOneIdentity == ClientInv => OneIdentity
BY DEF ClientInv, RegistryInv, OneIdentity, C!OneIdentity

\* A behaviour starts as one of this part, ...
LEMMA ClientStarts == Init => C!ClientInit
BY DEF Init

\* ... and a step is one of this part, or this part stutters.
LEMMA ClientPart == [Next]_vars => [C!ClientNext]_clientState
BY DEF Next, vars, clientState

\* What is asked of a registry is asked at a host of that registry, for every
\* configuration and all interleavings of calls, but for the requests to which the code
\* gives another registry's metadata (resolve_source, Config::package_registry_override).
THEOREM AskedAtRegistry == Spec => []MetadataOfRegistry
  BY ClientStarts, ClientPart, ClientInvInit, ClientInvStep, AnswersArePlaced, PTL DEF Spec

\* A registry is spoken to as one user, unless two calls have built its source at once
\* (resolve_source, OciBackend::auth).
THEOREM SpokenToAsOne == Spec => []OneIdentity
  BY ClientStarts, ClientPart, ClientInvInit, ClientInvStep, OneSourceOneIdentity, PTL DEF Spec

\* The variables of the client have their types.
THEOREM ClientTypes == Spec => []C!ClientTypeOK
<1>1. ClientInv => C!ClientTypeOK
  BY DEF ClientInv, ClientForm, TaskInv, C!ClientTypeOK
<1> QED
  BY <1>1, ClientStarts, ClientPart, ClientInvInit, ClientInvStep, PTL DEF Spec
=============================================================================
