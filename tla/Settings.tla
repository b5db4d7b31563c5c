------------------------------ MODULE Settings ------------------------------
(***************************************************************************)
(* wkg config (crates/wkg/src/main.rs), as several processes run it on one *)
(* configuration file, with no lock.                                       *)
(*                                                                         *)
(* tokio::fs::write truncates the file and then fills it, and an empty     *)
(* file is a valid configuration.                                          *)
(***************************************************************************)
EXTENDS Config

CONSTANTS
  Process,
  Registry,
  Texts,       \* what may be in the file at first, and what a user may save in an editor
  MaxCommands  \* bound on the commands started

VARIABLES
  file,      \* the text in the file, or None
  process,   \* [Process -> [pc, config, edit, stale]]
  commands,  \* how many commands have been started
  settings,  \* history: what the commands that ended and the user want the file to hold
  lost       \* history: that was lost to overlapping commands, or to a death

settingsVars == <<file, process, commands, settings, lost>>

AtRest == [pc |-> "rest", config |-> EmptyConfig, edit |-> FALSE, stale |-> FALSE]
InEditor == [AtRest EXCEPT !.pc = "editor"]

SettingsInit ==
  /\ file \in Texts \cup {None}
  /\ process = [p \in Process |-> AtRest]
  /\ commands = 0
  /\ settings = file
  /\ lost = FALSE

Writing == {p \in Process : process[p].pc = "write"}

\* The file is not what the other commands have read, or have found missing.
Touch(p, next) ==
  process' = [q \in Process |->
                IF q = p THEN next
                ELSE IF process[q].pc \in {"change", "create", "write"}
                THEN [process[q] EXCEPT !.stale = TRUE]
                ELSE process[q]]

\* ConfigArgs::run reads the file to set the default registry; a file it cannot find is
\* the default configuration.  (A command that only prints it quits after that.)
Read(p) ==
  /\ process[p].pc = "rest" /\ commands < MaxCommands
  /\ commands' = commands + 1
  /\ \E r \in Registry :
       process' = [process EXCEPT ![p] =
         [pc |-> "change", edit |-> FALSE,
          config |-> [(IF file = None THEN DefaultConfig ELSE FromToml(file))
                        EXCEPT !.default = r],
          stale |-> Writing # {}]]
  /\ UNCHANGED <<file, settings, lost>>

\* With --edit, a file that is not there is created before the editor starts.
Edit(p) ==
  /\ process[p].pc = "rest" /\ commands < MaxCommands
  /\ commands' = commands + 1
  /\ process' = [process EXCEPT ![p] =
       IF file = None
       THEN [pc |-> "create", config |-> DefaultConfig, edit |-> TRUE, stale |-> FALSE]
       ELSE InEditor]
  /\ UNCHANGED <<file, settings, lost>>

\* Config::to_file, up to the truncation and from there
Truncate(p) ==
  /\ process[p].pc \in {"change", "create"}
  /\ file' = EmptyText
  /\ Touch(p, [process[p] EXCEPT !.pc = "write"])
  /\ UNCHANGED <<commands, settings, lost>>

Fill(p) ==
  /\ process[p].pc = "write"
  /\ file' = ToToml(process[p].config)
  /\ settings' = [(IF settings = None THEN EmptyText ELSE settings)
                    EXCEPT !.default = process[p].config.default]
  /\ lost' = (lost \/ process[p].stale)
  /\ Touch(p, IF process[p].edit THEN InEditor ELSE AtRest)
  /\ UNCHANGED commands

\* The user saves something else, and the file is right again.
Save(p) ==
  /\ process[p].pc = "editor"
  /\ \E text \in Texts : file' = text /\ settings' = text
  /\ lost' = FALSE
  /\ Touch(p, AtRest)
  /\ UNCHANGED commands

\* A command fails or is killed; the file may have been truncated by then.
Quit(p) ==
  /\ process[p].pc # "rest"
  /\ lost' = (lost \/ process[p].pc = "write")
  /\ process' = [process EXCEPT ![p] = AtRest]
  /\ UNCHANGED <<file, commands, settings>>

SettingsNext ==
  \E p \in Process : Read(p) \/ Edit(p) \/ Truncate(p) \/ Fill(p) \/ Save(p) \/ Quit(p)

-----------------------------------------------------------------------------

\* What may be in the file: the columns of the texts that are saved, and what the commands
\* make of them.
Columns(mappings) == mappings \cup {SerializeMappings(m) : m \in mappings} \cup {Nothing}

Text ==
  [default : {t.default : t \in Texts} \cup Registry \cup {None},
   namespaces : Columns({t.namespaces : t \in Texts}),
   overrides : Columns({t.overrides : t \in Texts}),
   registries : {t.registries : t \in Texts} \cup {Nothing}]

SettingsTypeOK ==
  /\ commands \in 0 .. MaxCommands
  /\ file \in Text \cup {None} /\ settings \in Text \cup {None}
  /\ \A p \in Process :
       /\ process[p].pc \in {"rest", "change", "create", "write", "editor"}
       /\ process[p].pc \in {"change", "create", "write"} => ToToml(process[p].config) \in Text
       /\ process[p].stale \in BOOLEAN

WithoutAliases(text) ==
  IF text = None THEN None
  ELSE [text EXCEPT !.namespaces = SerializeMappings(@), !.overrides = SerializeMappings(@)]

\* `wkg config` keeps what others have put into the file: unless two commands overlapped,
\* or one died between truncating the file and filling it, the file holds all that was
\* asked for, but for the aliases in metadata, which are never written back.
SettingsKept == ~lost /\ Writing = {} => WithoutAliases(file) = WithoutAliases(settings)

\* The user's file and the same file given by --config agree on the registry of a package
\* wherever the latter gives one: the compiled-in namespaces only fill the gaps.
LayersAgree ==
  file # None =>
    \A asked \in [namespace : DOMAIN WellKnownNamespaces, name : {"any"}] :
      Resolve(FromFile(file), asked) # None =>
        Resolve(GlobalDefaults(file), asked) = Resolve(FromFile(file), asked)
=============================================================================
