-------------------------------- MODULE Wkg --------------------------------
(***************************************************************************)
(* What the commands of wkg run (crates/wkg/src/main.rs) besides building, *)
(* updating and publishing: `wkg config`, `wkg get` and `wkg oci pull`,    *)
(* `wkg fetch` in a workspace, and the calls on a registry client and the  *)
(* decoding of dependencies that they share with the other commands.       *)
(*                                                                         *)
(* A command runs one of these parts at a time, and they share no state: a *)
(* behaviour is one of one part, and the others stay as they are.          *)
(***************************************************************************)
EXTENDS Naturals

CONSTANTS
  None, Oci, Local, WellKnownNamespaces,                     \* Config
  Process, Registry, Texts, MaxCommands,                     \* Settings
  Task, Configs, Requests, WellKnown, Bearers, Docker, MaxCalls,  \* Client
  User, Getter, Downloads, Arguments, Whole,                 \* Get
  Invalid, Trees, Wit, Releases, Bundled, MaxFetches,        \* WorkspaceFetch
  Dependency, Foreign, Roots                                 \* Decoding

VARIABLES
  part,  \* the part that runs
  file, process, commands, settings, lost,
  client, task, sources, built, calls, used, overlapped,
  files, directory, getter, refused, crossed,
  tree, released, lock, deps, fetch, fetches, matched,
  kind, needs, phase, stack, visiting, order, rootNeeds, merged

settingsState == <<file, process, commands, settings, lost>>
clientState == <<client, task, sources, built, calls, used, overlapped>>
getState == <<files, directory, getter, refused, crossed>>
fetchState == <<tree, released, lock, deps, fetch, fetches, matched>>
decodeState == <<kind, needs, phase, stack, visiting, order, rootNeeds, merged>>
vars == <<part, settingsState, clientState, getState, fetchState, decodeState>>

S == INSTANCE Settings
C == INSTANCE Client
G == INSTANCE Get WITH Releases <- Downloads
F == INSTANCE WorkspaceFetch
D == INSTANCE Decoding

\* A mapping in a text or in a configuration, which names a registry
IsMapping(m) ==
  /\ DOMAIN m = {"registry", "metadata"} /\ m.registry # None
  /\ m.metadata # None => DOMAIN m.metadata = {"preferred", "protocols", "alias"}

ASSUME WkgAssumption ==
  /\ MaxCommands \in Nat /\ MaxCalls \in Nat /\ Whole \in Nat \ {0}
  \* None is no text, neither the number of a source nor an identity, and no directory.
  /\ None \notin S!Text /\ None \notin Nat /\ None \notin {"bearer", "anonymous"}
  /\ \A t \in Trees : None \notin DOMAIN t.parent
  \* What is found in the directories with WIT is known, and of a package's needs the first
  \* alone is kept.  Nothing is no set of pins; a set of versions, all of which are finite,
  \* has a newest.
  /\ \A t \in Trees : t.wit \subseteq DOMAIN Wit /\ t.wit \subseteq DOMAIN t.parent
  /\ \A d \in DOMAIN Wit : \A need, other \in Wit[d].needs :
       need.package = other.package => need = other
  /\ \A pins \in SUBSET F!Pins : pins # None
  /\ MaxFetches \in Nat
  /\ \A vs \in SUBSET F!Versions : vs = {} \/ \E v \in vs : \A w \in vs : F!Sooner(w, v)
  \* A text has the keys of a configuration without fallbacks.
  /\ Texts \subseteq S!Text
  /\ \A t \in Texts \cup Configs :
       /\ \A n \in DOMAIN t.namespaces : IsMapping(t.namespaces[n])
       /\ \A p \in DOMAIN t.overrides : IsMapping(t.overrides[p])
  \* None is no file, the user is not a command, and a pull is told the file to write.
  /\ None \notin G!Files
  /\ User \notin Getter /\ \A a \in Arguments : a.pull => ~a.directory

\* A part that does not run is in one of its initial states.
Unless(name, idle) == IF part = name THEN TRUE ELSE idle

Init ==
  /\ part \in {"config", "client", "get", "fetch", "decode"}
  /\ Unless("config", file = None) /\ S!SettingsInit
  /\ Unless("client", client = S!DefaultConfig) /\ C!ClientInit
  /\ Unless("get", files = [p \in G!Paths |-> None] /\ directory = TRUE) /\ G!GetInit
  /\ Unless("fetch", tree = (CHOOSE t \in Trees : TRUE) /\ released = Releases) /\ F!FetchInit
  /\ Unless("decode", /\ kind = [d \in Dependency |-> "wit"]
                      /\ needs = [d \in Dependency |-> {}]) /\ D!DecodeInit

\* Commands::run, for the commands that are modelled here, and what they share
Next ==
  /\ UNCHANGED part
  /\ \/ /\ part = "config" /\ S!SettingsNext
        /\ UNCHANGED <<clientState, getState, fetchState, decodeState>>
     \/ /\ part = "client" /\ C!ClientNext
        /\ UNCHANGED <<settingsState, getState, fetchState, decodeState>>
     \/ /\ part = "get" /\ G!GetNext
        /\ UNCHANGED <<settingsState, clientState, fetchState, decodeState>>
     \/ /\ part = "fetch" /\ F!FetchNext
        /\ UNCHANGED <<settingsState, clientState, getState, decodeState>>
     \/ /\ part = "decode" /\ D!DecodeNext
        /\ UNCHANGED <<settingsState, clientState, getState, fetchState>>

Spec == Init /\ [][Next]_vars

-----------------------------------------------------------------------------

\* The variables of every part have their types.
TypeOK ==
  /\ S!SettingsTypeOK /\ C!ClientTypeOK /\ G!GetTypeOK /\ F!FetchTypeOK /\ D!DecodeTypeOK

\* `wkg config` keeps what others have put into the file (Config::to_file).
SettingsKept == S!SettingsKept

\* The two ways to load a file of settings agree on the registry of a package
\* (Config::resolve_registry, Config::merge).
LayersAgree == S!LayersAgree

\* What is asked of a registry is asked at that registry (Client::resolve_source).
MetadataOfRegistry == C!MetadataOfRegistry

\* A registry is spoken to as one user (OciBackend::auth).
OneIdentity == C!OneIdentity

\* `wkg get` does not overwrite a file of the user's unasked (GetArgs::run).
GetKeepsFiles == G!GetKeepsFiles

\* What `wkg get` and `wkg oci pull` leave behind is whole (GetArgs::run, PullArgs::run).
GetsWhole == G!GetsWhole

\* The lock file after a workspace fetch is what the workspace needs from others
\* (run_workspace_fetch).
FetchPins == F!FetchPins

\* A workspace fetch moves no pin that all members share (PublishVerifier::try_new).
SharedPinsStay == F!SharedPinsStay

\* The deps directory holds what the lock file says (populate_dependencies_workspace).
DepsMatchLock == F!DepsMatchLock

\* A fetch leaves the workspaces above it alone (Manifest::load_root_workspace).
OwnWorkspace == F!OwnWorkspace

\* The sort of the dependencies is complete and in order (visit).
SortedByNeeds == D!SortedByNeeds

\* Only what is wrong with the dependencies keeps them from being merged
\* (DependencyResolutionMap::generate_resolve).
MergesWhatItCan == D!MergesWhatItCan
=============================================================================
