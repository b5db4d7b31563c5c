--------------------------- MODULE ResolverProofs ---------------------------
(***************************************************************************)
(* What holds of Resolver for every set of names, versions, directories    *)
(* and overrides, and any number of changes to the registry.               *)
(***************************************************************************)
EXTENDS Resolver, TLAPS

-----------------------------------------------------------------------------
(* The inductive invariant, in parts *)

\* What the command holds in each phase: between commands the resolver is empty; while it
\* resolves, the packages are those on disk or none; what fetch has put by is what is on
\* disk.  The history is complete.
Phases ==
  /\ phase = "idle" => dependencies = {} /\ locals = {} /\ resolved = {} /\ selected = {}
  /\ phase = "add" => resolved = {} /\ selected = {}
  /\ phase \in {"add", "resolve"} /\ command.op = "build" => packages = disk
  /\ phase \in {"add", "resolve"} /\ command.op # "build" => packages = {}
  /\ phase = "write" => packages = resolved /\ dependencies = {} /\ selected = {}
  /\ phase \in {"resolve", "write"} => overrides = {}
  /\ phase # "idle" /\ command.op = "fetch" => union = disk
  /\ phase # "idle" => NotListed \subseteq unlisted

\* The names under selection.
Asking == {s.need.name : s \in selected}
Seen == locals \cup Names(dependencies) \cup Asking \cup Names(resolved)

\* Each name is at one place of the way from a dependency to a resolution.
OncePerName ==
  /\ \A d, e \in dependencies : d.name = e.name => d = e
  /\ \A p, q \in resolved : p.name = q.name => p = q
  /\ \A n \in Names(dependencies) : n \notin Asking /\ n \notin Names(resolved)
  /\ \A n \in Asking : n \notin Names(resolved)

\* A local package that does not need itself never gives way.
LocalStays ==
  phase # "idle" =>
    \A n \in LocalOverride \ overrides :
      n \notin Names(LocalNeeds[n]) =>
        n \in locals /\ n \notin Names(dependencies) \cup Asking \cup Names(resolved)

\* Only what is asked for is resolved, and what has been asked for is on its way.
OnlyAsked ==
  phase # "idle" =>
    /\ dependencies \subseteq Asked
    /\ \A s \in selected : s.need \in Asked
    /\ \A p \in resolved : \E need \in Asked : Meets(p, need)

AllSeen ==
  phase # "idle" =>
    /\ Names(VersionOverride) \ overrides \subseteq Seen
    /\ \A n \in LocalOverride \ overrides : Names(LocalNeeds[n]) \subseteq Seen
    /\ phase # "add" => Names(Needs[command.dir]) \subseteq Seen

\* A selection takes the version of the pin and its digest, or the pinned version was not
\* listed; a resolution keeps to it.
SelectionPinned ==
  \A s \in selected :
    /\ s.version \in s.need.requirement
    /\ \A p \in Locked(s.need) :
         \/ s.version = p.version /\ s.accepted = {p.digest}
         \/ s.version # p.version /\ <<p.name, p.version>> \in unlisted

ResolvedPinned ==
  /\ \A p \in resolved : p.version \in p.requirement
  /\ phase # "idle" /\ command.op = "build" =>
       \A old \in disk, new \in resolved :
         SameKey(old, new) /\ old # new =>
           <<old.name, old.version>> \in unlisted /\ old.version # new.version

IInv ==
  /\ TypeOK /\ LockSound /\ Phases
  /\ OncePerName /\ LocalStays /\ OnlyAsked /\ AllSeen
  /\ SelectionPinned /\ ResolvedPinned

-----------------------------------------------------------------------------
(* The steps, and what the resolver adds *)

\* The registry or the cache changes, or nothing does.
Quiet ==
  /\ UNCHANGED <<disk, session, resolver>>
  /\ phase # "idle" => unlisted \subseteq unlisted' /\ NotListed' \subseteq unlisted' \cup NotListed

\* Every step of the code is one of these.
LEMMA StepCases ==
  ASSUME TypeOK, [Next]_vars
  PROVE  \/ Quiet
         \/ Return
         \/ \E c \in Command : Start(c)
         \/ \E o \in VersionOverride : AddVersion(o)
         \/ \E n \in LocalOverride : AddLocal(n)
         \/ AddPackages
         \/ \E need \in dependencies : Select(need)
         \/ \E s \in selected, d \in Digest : GetRelease(s, d)
         \/ UpdateDependencies
PROOF
<1>1. ASSUME NEW n \in Name, NEW v \in Version, NEW d \in Digest, Publish(n, v, d)
      PROVE  Quiet
  <2>1. \A nv \in Name \X Version :
          registry'[nv[1]][nv[2]] = registry[nv[1]][nv[2]] \/ registry'[nv[1]][nv[2]] = d
    BY <1>1 DEF Publish, TypeOK, Releases
  <2>2. NotListed' \subseteq NotListed
    BY <2>1, ResolverAssumption DEF NotListed
  <2>3. QED
    BY <1>1, <2>2 DEF Publish, Change, Quiet
<1>2. ASSUME NEW n \in Name, NEW v \in Version, Withdraw(n, v)
      PROVE  Quiet
  <2>1. \A nv \in Name \X Version :
          nv = <<n, v>> \/ registry'[nv[1]][nv[2]] = registry[nv[1]][nv[2]]
    BY <1>2 DEF Withdraw, TypeOK, Releases
  <2>2. NotListed' \subseteq NotListed \cup {<<n, v>>}
    BY <2>1 DEF NotListed
  <2>3. QED
    BY <1>2, <2>2 DEF Withdraw, Change, Quiet
<1>3. NewCache => Quiet
  BY DEF NewCache, Change, Quiet
<1>4. UNCHANGED vars => Quiet
  BY DEF vars, market, Quiet, NotListed
<1>5. QED
  BY <1>1, <1>2, <1>3, <1>4 DEF Next, Refuse, Fail, Write

\* What add_packages leaves: the dependencies there were, one need for each name that is
\* new, and nothing else.
LEMMA AddingFacts ==
  ASSUME NEW needs, NEW deps, NEW result \in Adding(needs, deps)
  PROVE  /\ deps \subseteq result /\ result \subseteq deps \cup needs
         /\ \A d \in result \ deps : d.name \notin locals \cup Names(deps)
         /\ Names(needs) \subseteq locals \cup Names(result)
         /\ \A d, e \in result \ deps : d.name = e.name => d = e
PROOF
<1>1. PICK chosen \in SUBSET New(needs, deps) :
        /\ result = deps \cup chosen
        /\ Names(chosen) = Names(New(needs, deps))
        /\ \A x, y \in chosen : x.name = y.name => x = y
  BY DEF Adding, Firsts
<1>2. \A d \in chosen : d \in needs /\ d.name \notin locals \cup Names(deps)
  BY DEF New
<1>3. ASSUME NEW n \in needs, n.name \notin locals \cup Names(deps)
      PROVE  n.name \in Names(result)
  <2>1. n.name \in Names(chosen)
    BY <1>1, <1>3 DEF New, Names
  <2>2. QED
    BY <1>1, <2>1 DEF Names
<1>4. Names(deps) \subseteq Names(result)
  BY <1>1 DEF Names
<1>5. Names(needs) \subseteq locals \cup Names(result)
  BY <1>3, <1>4 DEF Names
<1>6. QED
  BY <1>1, <1>2, <1>5

-----------------------------------------------------------------------------
(* Types *)

LEMMA AskedType ==
  ASSUME command \in Command
  PROVE  Asked \subseteq Need
BY ResolverAssumption DEF Asked, Command

\* The initial state has the types.
LEMMA TypeInit == Init => TypeOK
BY ResolverAssumption DEF Init, TypeOK, Releases

\* Adding needs leaves needs.
LEMMA AddingType ==
  ASSUME NEW needs \in SUBSET Need, NEW deps \in SUBSET Need
  PROVE  \A result \in Adding(needs, deps) : result \subseteq Need
BY AddingFacts

\* A selection is of a need's version, with the digests that were accepted.
LEMMA ChoicesType ==
  ASSUME TypeOK, NEW need \in Need
  PROVE  Choices(need) \subseteq Selection
PROOF
<1>1. \A p \in Locked(need) : p.version \in Version /\ p.digest \in Digest
  BY DEF TypeOK, Locked, Pin
<1>2. Latest(need) \subseteq Version
  BY DEF Latest, Need
<1>3. QED
  BY <1>1, <1>2 DEF Choices, Selection

\* Every step preserves the types.
LEMMA TypeStep == TypeOK /\ [Next]_vars => TypeOK'
PROOF
<1> SUFFICES ASSUME TypeOK, [Next]_vars
             PROVE  TypeOK'
  OBVIOUS
<1>1. ASSUME NEW n \in Name, NEW v \in Version, NEW d \in Digest, Publish(n, v, d)
      PROVE  TypeOK'
  BY <1>1, ResolverAssumption DEF Publish, Change, TypeOK, Releases, session, resolver
<1>2. ASSUME NEW n \in Name, NEW v \in Version, Withdraw(n, v)
      PROVE  TypeOK'
  BY <1>2, ResolverAssumption DEF Withdraw, Change, TypeOK, Releases, session, resolver
<1>3. ASSUME NewCache
      PROVE  TypeOK'
  BY <1>3, ResolverAssumption DEF NewCache, Change, TypeOK, Releases, session, resolver
<1>4. ASSUME NEW c \in Command, Start(c)
      PROVE  TypeOK'
  <2>1. c # Absent
    BY CommandAssumption
  <2>2. QED
    BY <1>4, <2>1 DEF Start, TypeOK, NotListed, market
<1>5. ASSUME NEW o \in VersionOverride, AddVersion(o)
      PROVE  TypeOK'
  <2>1. dependencies' \subseteq Need
    BY <1>5, AddingType, ResolverAssumption DEF AddVersion, TypeOK
  <2>2. QED
    BY <1>5, <2>1 DEF AddVersion, TypeOK, market, session
<1>6. ASSUME NEW n \in LocalOverride, AddLocal(n)
      PROVE  TypeOK'
  <2>1. dependencies' \subseteq Need
    BY <1>6, AddingType, ResolverAssumption DEF AddLocal, TypeOK
  <2>2. QED
    BY <1>6, <2>1 DEF AddLocal, TypeOK, market, session
<1>7. ASSUME AddPackages
      PROVE  TypeOK'
  <2>1. command \in Command
    BY <1>7 DEF AddPackages, TypeOK
  <2>2. Needs[command.dir] \subseteq Need
    BY <2>1, ResolverAssumption DEF Command
  <2>3. dependencies' \subseteq Need
    BY <1>7, <2>2, AddingType DEF AddPackages, TypeOK
  <2>4. QED
    BY <1>7, <2>3 DEF AddPackages, TypeOK, market
<1>8. ASSUME NEW need \in dependencies, Select(need)
      PROVE  TypeOK'
  <2>1. Choices(need) \subseteq Selection
    BY ChoicesType DEF TypeOK
  <2>2. QED
    BY <1>8, <2>1 DEF Select, TypeOK, market, session
<1>9. ASSUME NEW s \in selected, NEW d \in Digest, Released(s.need.name, s.version, d)
      PROVE  releases' \in Releases /\ PinOf(s, d) \in Pin
  <2>1. /\ s.need \in Need /\ s.version \in Version
        /\ s.need.name \in Name /\ s.need.requirement \in SUBSET Version
    BY DEF TypeOK, Selection, Need
  <2>2. releases \in Releases
    BY DEF TypeOK
  <2>3. [releases EXCEPT ![s.need.name][s.version] = d] \in Releases
    BY <2>1, <2>2 DEF Releases
  <2>4. releases' \in Releases
    BY <1>9, <2>2, <2>3 DEF Released
  <2>5. RegistryNow(s.need.name) \in Registry \cup {Absent}
    BY <2>1, ResolverAssumption DEF RegistryNow
  <2>6. QED
    BY <2>1, <2>4, <2>5 DEF PinOf, Pin
<1>10. ASSUME NEW s \in selected, NEW d \in Digest, GetRelease(s, d)
       PROVE  TypeOK'
  BY <1>9, <1>10 DEF GetRelease, TypeOK, session
<1>11. ASSUME Return, registry' \in Releases, releases' \in Releases,
              changes' = changes, disk' \subseteq Pin
       PROVE  TypeOK'
  BY <1>11, ResolverAssumption DEF Return, TypeOK
<1>12. ASSUME NEW s \in selected, NEW d \in Digest, Refuse(s, d)
       PROVE  TypeOK'
  BY <1>9, <1>11, <1>12 DEF Refuse, TypeOK
<1>13. UpdateDependencies => TypeOK'
  BY DEF UpdateDependencies, TypeOK, market, resolver
<1>14. Write => TypeOK'
  BY <1>11 DEF Write, Written, Merge, TypeOK, market
<1>15. Fail => TypeOK'
  BY <1>11 DEF Fail, TypeOK, market
<1>16. UNCHANGED vars => TypeOK'
  BY DEF vars, market, session, resolver, TypeOK
<1>17. QED
  BY <1>1, <1>2, <1>3, <1>4, <1>5, <1>6, <1>7, <1>8, <1>10, <1>12, <1>13, <1>14, <1>15,
     <1>16 DEF Next

-----------------------------------------------------------------------------
(* The lock file *)

\* Only Write changes the lock file.
LEMMA DiskStep ==
  ASSUME [Next]_vars
  PROVE  disk' = disk \/ (phase = "write" /\ disk' = Written)
BY DEF Next, Publish, Withdraw, NewCache, Change, Start, AddVersion, AddLocal, AddPackages,
       Select, GetRelease, Refuse, UpdateDependencies, Write, Fail, vars

\* What a command writes is sound: what it resolved is, with one pin for each name, and
\* the merge takes out the pins that the incoming ones replace.
LEMMA LockStep == IInv /\ [Next]_vars => LockSound'
PROOF
<1> SUFFICES ASSUME IInv, phase = "write"
             PROVE  /\ \A p \in Written : p.version \in p.requirement
                    /\ \A p, q \in Written : SameKey(p, q) => p = q
  BY DiskStep DEF IInv, LockSound, SameKey
<1>1. /\ \A p \in packages : p.version \in p.requirement
      /\ \A p, q \in packages : SameKey(p, q) => p = q
  BY DEF IInv, Phases, ResolvedPinned, OncePerName, SameKey
<1>2. CASE command.op # "fetch"
  BY <1>1, <1>2 DEF Written
<1>3. CASE command.op = "fetch"
  <2>1. union = disk
    BY <1>3 DEF IInv, Phases
  <2>2. \A p \in Written : p \in packages \/ (p \in disk /\ \A q \in packages : ~SameKey(p, q))
    BY <1>3, <2>1 DEF Written, Merge
  <2>3. \A p, q \in Written : SameKey(p, q) => SameKey(q, p)
    BY DEF SameKey
  <2>4. QED
    BY <1>1, <2>2, <2>3 DEF IInv, LockSound
<1>4. QED
  BY <1>2, <1>3

\* What a command holds is handed from phase to phase.
LEMMA PhaseStep == IInv /\ [Next]_vars => Phases'
PROOF
<1> SUFFICES ASSUME IInv, [Next]_vars
             PROVE  Phases'
  OBVIOUS
<1>0. TypeOK /\ Phases
  BY DEF IInv
<1>1. Quiet => Phases'
  <2> SUFFICES ASSUME Quiet
               PROVE  Phases'
    OBVIOUS
  <2>1. phase # "idle" => NotListed' \subseteq unlisted'
    BY <1>0 DEF Quiet, Phases
  <2>2. QED
    BY <1>0, <2>1 DEF Quiet, Phases, session, resolver
<1>2. Return => Phases'
  BY DEF Return, Phases
<1>3. ASSUME NEW c \in Command, Start(c)
      PROVE  Phases'
  <2>1. NotListed' = NotListed
    BY <1>3 DEF Start, market, NotListed
  <2>2. QED
    BY <1>0, <1>3, <2>1 DEF Start, Phases
<1>4. ASSUME UNCHANGED <<market, unlisted>>
      PROVE  NotListed' = NotListed /\ unlisted' = unlisted
  BY <1>4 DEF market, NotListed
<1>5. ASSUME NEW o \in VersionOverride, AddVersion(o)
      PROVE  Phases'
  BY <1>0, <1>4, <1>5 DEF AddVersion, Phases, session
<1>6. ASSUME NEW n \in LocalOverride, AddLocal(n)
      PROVE  Phases'
  BY <1>0, <1>4, <1>6 DEF AddLocal, Phases, session
<1>7. AddPackages => Phases'
  BY <1>0, <1>4 DEF AddPackages, Phases
<1>8. ASSUME NEW need \in dependencies, Select(need)
      PROVE  Phases'
  BY <1>0, <1>4, <1>8 DEF Select, Phases, session
<1>9. ASSUME NEW s \in selected, NEW d \in Digest, GetRelease(s, d)
      PROVE  Phases'
  <2>1. phase = "resolve"
    BY <1>0, <1>9 DEF Phases, TypeOK
  <2>2. NotListed' = NotListed
    BY <1>9 DEF GetRelease, NotListed
  <2>3. QED
    BY <1>0, <1>9, <2>1, <2>2 DEF GetRelease, Phases, session
<1>10. UpdateDependencies => Phases'
  BY <1>0, <1>4 DEF UpdateDependencies, Phases, resolver
<1>11. QED
  BY <1>0, <1>1, <1>2, <1>3, <1>5, <1>6, <1>7, <1>8, <1>9, <1>10, StepCases

-----------------------------------------------------------------------------
(* Names *)

\* A name is never at two places of the way.
LEMMA OnceStep == IInv /\ [Next]_vars => OncePerName'
PROOF
<1> SUFFICES ASSUME IInv, [Next]_vars
             PROVE  OncePerName'
  OBVIOUS
<1>0. TypeOK /\ Phases /\ OncePerName
  BY DEF IInv
<1>1. ASSUME dependencies' = dependencies, selected' = selected, resolved' = resolved
      PROVE  OncePerName'
  BY <1>0, <1>1 DEF OncePerName, Names, Asking
<1>2. ASSUME NEW needs, NEW deps \in SUBSET dependencies, phase = "add",
             dependencies' \in Adding(needs, deps), selected' = selected, resolved' = resolved
      PROVE  OncePerName'
  <2>1. selected' = {} /\ resolved' = {}
    BY <1>0, <1>2 DEF Phases
  <2>2. \A d \in dependencies' \ deps : d.name \notin Names(deps)
    BY <1>2, AddingFacts
  <2>3. \A d, e \in dependencies' \ deps : d.name = e.name => d = e
    BY <1>2, AddingFacts
  <2>4. \A d \in deps : d.name \in Names(deps)
    BY DEF Names
  <2>5. \A d, e \in dependencies' : d.name = e.name => d = e
    BY <1>0, <2>2, <2>3, <2>4 DEF OncePerName
  <2>6. QED
    BY <2>1, <2>5 DEF OncePerName, Asking, Names
<1>3. Quiet => OncePerName'
  BY <1>1 DEF Quiet, resolver
<1>4. Return => OncePerName'
  BY DEF Return, OncePerName, Names, Asking
<1>5. ASSUME NEW c \in Command, Start(c)
      PROVE  OncePerName'
  BY <1>1, <1>5 DEF Start
<1>6. ASSUME NEW o \in VersionOverride, AddVersion(o)
      PROVE  OncePerName'
  BY <1>2, <1>6 DEF AddVersion
<1>7. ASSUME NEW n \in LocalOverride, AddLocal(n)
      PROVE  OncePerName'
  BY <1>2, <1>7 DEF AddLocal
<1>8. AddPackages => OncePerName'
  BY <1>2 DEF AddPackages
<1>9. ASSUME NEW need \in dependencies, Select(need)
      PROVE  OncePerName'
  <2>1. \A s \in selected' : s.need = need
    BY <1>9 DEF Select, Choices
  <2>2. /\ selected = {} /\ resolved' = resolved /\ dependencies' = dependencies \ {need}
    BY <1>9 DEF Select
  <2>3. need.name \notin Names(dependencies') /\ need.name \notin Names(resolved)
    BY <1>0, <2>2 DEF OncePerName, Names
  <2>4. \A n \in Asking' : n = need.name
    BY <2>1 DEF Asking
  <2>5. QED
    BY <1>0, <2>2, <2>3, <2>4 DEF OncePerName, Names
<1>10. ASSUME NEW s \in selected, NEW d \in Digest, GetRelease(s, d)
       PROVE  OncePerName'
  <2>1. /\ selected' = {} /\ dependencies' = dependencies
        /\ resolved' = resolved \cup {PinOf(s, d)}
    BY <1>10 DEF GetRelease
  <2>2. PinOf(s, d).name = s.need.name /\ s.need.name \in Asking
    BY DEF PinOf, Asking
  <2>3. s.need.name \notin Names(resolved) /\ s.need.name \notin Names(dependencies)
    BY <1>0, <2>2 DEF OncePerName
  <2>4. \A n \in Names(resolved') : n \in Names(resolved) \/ n = s.need.name
    BY <2>1, <2>2 DEF Names
  <2>5. \A p, q \in resolved' : p.name = q.name => p = q
    BY <1>0, <2>1, <2>2, <2>3 DEF OncePerName, Names
  <2>6. Asking' = {} /\ Names(dependencies') = Names(dependencies)
    BY <2>1 DEF Asking, Names
  <2>7. QED
    BY <1>0, <2>1, <2>3, <2>4, <2>5, <2>6 DEF OncePerName
<1>11. UpdateDependencies => OncePerName'
  BY <1>1 DEF UpdateDependencies, resolver
<1>12. QED
  BY <1>0, <1>3, <1>4, <1>5, <1>6, <1>7, <1>8, <1>9, <1>10, <1>11, StepCases

\* A local package that does not need itself is added once and stays: the needs of others
\* find it there, and a dependency of its name that was there before has gone.
LEMMA LocalStep == IInv /\ [Next]_vars => LocalStays'
PROOF
<1> SUFFICES ASSUME IInv, [Next]_vars
             PROVE  LocalStays'
  OBVIOUS
<1>0. TypeOK /\ Phases /\ OncePerName /\ LocalStays
  BY DEF IInv
<1>1. ASSUME UNCHANGED <<phase, resolver>>
      PROVE  LocalStays'
  BY <1>0, <1>1 DEF LocalStays, Names, Asking, resolver
<1>2. Return => LocalStays'
  BY DEF Return, LocalStays
<1>3. ASSUME NEW c \in Command, Start(c)
      PROVE  LocalStays'
  BY <1>3 DEF Start, LocalStays
<1>4. ASSUME NEW needs, dependencies' \in Adding(needs, dependencies), phase = "add",
             LocalOverride \ overrides' = LocalOverride \ overrides,
             UNCHANGED <<locals, resolved, selected>>
      PROVE  LocalStays'
  <2>1. \A d \in dependencies' : d \in dependencies \/ d.name \notin locals
    BY <1>4, AddingFacts
  <2>2. \A n \in Names(dependencies') : n \in Names(dependencies) \/ n \notin locals
    BY <2>1 DEF Names
  <2>3. Asking' = Asking /\ Names(resolved') = Names(resolved)
    BY <1>4 DEF Asking, Names
  <2>4. QED
    BY <1>0, <1>4, <2>2, <2>3 DEF LocalStays
<1>5. ASSUME NEW o \in VersionOverride, AddVersion(o)
      PROVE  LocalStays'
  <2>1. LocalOverride \ overrides' = LocalOverride \ overrides
    BY <1>5, ResolverAssumption DEF AddVersion
  <2>2. QED
    BY <1>4, <1>5, <2>1 DEF AddVersion
<1>6. ASSUME NEW m \in LocalOverride, AddLocal(m)
      PROVE  LocalStays'
  <2> DEFINE deps == {d \in dependencies : d.name # m}
  <2>1. /\ phase = "add" /\ overrides' = overrides \ {m} /\ locals' = locals \cup {m}
        /\ dependencies' \in Adding(LocalNeeds[m], deps)
        /\ UNCHANGED <<phase, resolved, selected>>
    BY <1>6 DEF AddLocal, session
  <2>2. \A d \in dependencies' :
          d \in deps \/ (d.name \notin locals /\ d \in LocalNeeds[m])
    BY <2>1, AddingFacts
  <2>3. \A n \in Names(dependencies') :
          \/ n \in Names(dependencies) /\ n # m
          \/ n \notin locals /\ n \in Names(LocalNeeds[m])
    BY <2>2 DEF Names
  <2>4. resolved' = {} /\ selected' = {}
    BY <1>0, <2>1 DEF Phases
  <2>5. Asking' = {} /\ Names(resolved') = {}
    BY <2>4 DEF Asking, Names
  <2>6. ASSUME NEW n \in LocalOverride \ overrides', n \notin Names(LocalNeeds[n])
        PROVE  n \in locals' /\ n \notin Names(dependencies')
    <3>1. CASE n = m
      BY <2>1, <2>3, <2>6, <3>1
    <3>2. CASE n # m
      <4>1. n \in locals /\ n \notin Names(dependencies)
        BY <1>0, <2>1, <2>6, <3>2 DEF LocalStays
      <4>2. QED
        BY <2>1, <2>3, <4>1
    <3>3. QED
      BY <3>1, <3>2
  <2>7. QED
    BY <2>5, <2>6 DEF LocalStays
<1>7. AddPackages => LocalStays'
  BY <1>4 DEF AddPackages
<1>8. ASSUME NEW need \in dependencies, Select(need)
      PROVE  LocalStays'
  <2>1. \A s \in selected' : s.need = need
    BY <1>8 DEF Select, Choices
  <2>2. /\ selected = {} /\ dependencies' = dependencies \ {need}
        /\ UNCHANGED <<phase, overrides, locals, resolved>>
    BY <1>8 DEF Select, session
  <2>3. need.name \in Names(dependencies) /\ \A n \in Asking' : n = need.name
    BY <2>1 DEF Asking, Names
  <2>4. Names(dependencies') \subseteq Names(dependencies) /\ Names(resolved') = Names(resolved)
    BY <2>2 DEF Names
  <2>5. QED
    BY <1>0, <2>2, <2>3, <2>4 DEF LocalStays
<1>9. ASSUME NEW s \in selected, NEW d \in Digest, GetRelease(s, d)
      PROVE  LocalStays'
  <2>1. /\ selected' = {} /\ resolved' = resolved \cup {PinOf(s, d)}
        /\ locals' = locals \ {s.need.name}
        /\ UNCHANGED <<phase, overrides, dependencies>>
    BY <1>9 DEF GetRelease, session
  <2>2. PinOf(s, d).name = s.need.name /\ s.need.name \in Asking
    BY DEF PinOf, Asking
  <2>3. \A n \in Names(resolved') : n \in Names(resolved) \/ n = s.need.name
    BY <2>1, <2>2 DEF Names
  <2>4. Asking' = {} /\ Names(dependencies') = Names(dependencies)
    BY <2>1 DEF Asking, Names
  <2>5. QED
    BY <1>0, <2>1, <2>2, <2>3, <2>4 DEF LocalStays
<1>10. ASSUME UpdateDependencies
       PROVE  LocalStays'
  <2>1. phase # "idle" /\ UNCHANGED resolver
    BY <1>10 DEF UpdateDependencies
  <2>2. QED
    BY <1>0, <2>1 DEF LocalStays, Names, Asking, resolver
<1>11. Quiet => LocalStays'
  BY <1>1 DEF Quiet, session
<1>12. QED
  BY <1>0, <1>2, <1>3, <1>5, <1>6, <1>7, <1>8, <1>9, <1>10, <1>11, StepCases

\* Only what somebody asked for is added, and it keeps its requirement.
LEMMA AskedStep == IInv /\ [Next]_vars => OnlyAsked'
PROOF
<1> SUFFICES ASSUME IInv, [Next]_vars
             PROVE  OnlyAsked'
  OBVIOUS
<1>0. TypeOK /\ Phases /\ OnlyAsked
  BY DEF IInv
<1>1. command' = command => Asked' = Asked
  BY DEF Asked
<1>2. ASSUME UNCHANGED <<phase, command, resolver>>
      PROVE  OnlyAsked'
  BY <1>0, <1>1, <1>2 DEF OnlyAsked, resolver
<1>3. Return => OnlyAsked'
  BY DEF Return, OnlyAsked
<1>4. ASSUME NEW c \in Command, Start(c)
      PROVE  OnlyAsked'
  BY <1>0, <1>4 DEF Start, OnlyAsked, Phases
<1>5. ASSUME NEW needs \in SUBSET Asked, NEW deps \in SUBSET dependencies,
             dependencies' \in Adding(needs, deps), phase = "add",
             UNCHANGED <<command, resolved, selected>>
      PROVE  OnlyAsked'
  <2>1. dependencies' \subseteq deps \cup needs
    BY <1>5, AddingFacts
  <2>2. resolved' = {} /\ selected' = {}
    BY <1>0, <1>5 DEF Phases
  <2>3. dependencies \subseteq Asked
    BY <1>0, <1>5 DEF OnlyAsked
  <2>4. QED
    BY <1>1, <1>5, <2>1, <2>2, <2>3 DEF OnlyAsked
<1>6. ASSUME NEW o \in VersionOverride, AddVersion(o)
      PROVE  OnlyAsked'
  <2>1. {o} \in SUBSET Asked
    BY DEF Asked
  <2>2. QED
    BY <1>5, <1>6, <2>1 DEF AddVersion, session
<1>7. ASSUME NEW n \in LocalOverride, AddLocal(n)
      PROVE  OnlyAsked'
  <2>1. LocalNeeds[n] \in SUBSET Asked
    BY DEF Asked
  <2>2. QED
    BY <1>5, <1>7, <2>1 DEF AddLocal, session
<1>8. ASSUME AddPackages
      PROVE  OnlyAsked'
  <2>1. Needs[command.dir] \in SUBSET Asked
    BY DEF Asked
  <2>2. QED
    BY <1>5, <1>8, <2>1 DEF AddPackages
<1>9. ASSUME NEW need \in dependencies, Select(need)
      PROVE  OnlyAsked'
  <2>1. \A s \in selected' : s.need = need
    BY <1>9 DEF Select, Choices
  <2>2. QED
    BY <1>0, <1>1, <1>9, <2>1 DEF Select, OnlyAsked, session
<1>10. ASSUME NEW s \in selected, NEW d \in Digest, GetRelease(s, d)
       PROVE  OnlyAsked'
  <2>1. /\ selected' = {} /\ resolved' = resolved \cup {PinOf(s, d)}
        /\ UNCHANGED <<phase, command, dependencies>>
    BY <1>10 DEF GetRelease, session
  <2>2. Meets(PinOf(s, d), s.need)
    BY DEF Meets, PinOf
  <2>3. QED
    BY <1>0, <1>1, <2>1, <2>2 DEF OnlyAsked
<1>11. UpdateDependencies => OnlyAsked'
  BY <1>0, <1>1 DEF UpdateDependencies, resolver, OnlyAsked
<1>12. Quiet => OnlyAsked'
  BY <1>2 DEF Quiet, session
<1>13. QED
  BY <1>0, <1>3, <1>4, <1>6, <1>7, <1>8, <1>9, <1>10, <1>11, <1>12, StepCases

\* Nothing that was asked for is lost on its way.
LEMMA SeenStep == IInv /\ [Next]_vars => AllSeen'
PROOF
<1> SUFFICES ASSUME IInv, [Next]_vars
             PROVE  AllSeen'
  OBVIOUS
<1>0. TypeOK /\ Phases /\ AllSeen
  BY DEF IInv
<1>1. ASSUME UNCHANGED <<phase, command, overrides>>, Seen \subseteq Seen'
      PROVE  AllSeen'
  BY <1>0, <1>1 DEF AllSeen
<1>2. UNCHANGED resolver => Seen' = Seen /\ overrides' = overrides
  BY DEF resolver, Seen, Names, Asking
<1>3. Return => AllSeen'
  BY DEF Return, AllSeen
<1>4. ASSUME NEW c \in Command, Start(c)
      PROVE  AllSeen'
  BY <1>4 DEF Start, AllSeen
<1>5. ASSUME NEW needs, NEW deps \in SUBSET dependencies,
             dependencies' \in Adding(needs, deps), locals \subseteq locals',
             \A d \in dependencies \ deps : d.name \in locals',
             UNCHANGED <<resolved, selected>>
      PROVE  Seen \subseteq Seen' /\ Names(needs) \subseteq Seen'
  <2>1. deps \subseteq dependencies' /\ Names(needs) \subseteq locals \cup Names(dependencies')
    BY <1>5, AddingFacts
  <2>2. Names(dependencies) \subseteq locals' \cup Names(dependencies')
    BY <1>5, <2>1 DEF Names
  <2>3. Asking' = Asking /\ Names(resolved') = Names(resolved)
    BY <1>5 DEF Asking, Names
  <2>4. QED
    BY <1>5, <2>1, <2>2, <2>3 DEF Seen
<1>6. ASSUME NEW o \in VersionOverride, AddVersion(o)
      PROVE  AllSeen'
  <2>1. Seen \subseteq Seen' /\ Names({o}) \subseteq Seen'
    BY <1>5, <1>6 DEF AddVersion
  <2>2. o.name \in Names({o}) /\ o.name \notin LocalOverride
    BY ResolverAssumption DEF Names
  <2>3. QED
    BY <1>0, <1>6, <2>1, <2>2 DEF AddVersion, AllSeen, session
<1>7. ASSUME NEW n \in LocalOverride, AddLocal(n)
      PROVE  AllSeen'
  <2>1. Seen \subseteq Seen' /\ Names(LocalNeeds[n]) \subseteq Seen'
    BY <1>5, <1>7 DEF AddLocal
  <2>2. n \notin Names(VersionOverride)
    BY ResolverAssumption DEF Names
  <2>3. QED
    BY <1>0, <1>7, <2>1, <2>2 DEF AddLocal, AllSeen, session
<1>8. ASSUME AddPackages
      PROVE  AllSeen'
  <2>1. Seen \subseteq Seen' /\ Names(Needs[command.dir]) \subseteq Seen'
    BY <1>5, <1>8 DEF AddPackages
  <2>2. QED
    BY <1>0, <1>8, <2>1 DEF AddPackages, AllSeen
<1>9. ASSUME NEW need \in dependencies, Select(need)
      PROVE  AllSeen'
  <2>1. PICK s \in Choices(need) : selected' = {s}
    BY <1>9 DEF Select
  <2>2. s.need = need
    BY DEF Choices
  <2>3. Asking' = {need.name}
    BY <2>1, <2>2 DEF Asking
  <2>4. Asking = {} /\ Names(dependencies) \subseteq Names(dependencies') \cup {need.name}
    BY <1>9 DEF Select, Asking, Names
  <2>5. QED
    BY <1>1, <1>9, <2>3, <2>4 DEF Select, Seen, session
<1>10. ASSUME NEW s \in selected, NEW d \in Digest, GetRelease(s, d)
       PROVE  AllSeen'
  <2>1. /\ selected' = {} /\ resolved' = resolved \cup {PinOf(s, d)}
        /\ locals' = locals \ {s.need.name}
        /\ UNCHANGED <<phase, command, overrides, dependencies>>
    BY <1>10 DEF GetRelease, session
  <2>2. Names(resolved') = Names(resolved) \cup {s.need.name}
    <3>1. PinOf(s, d).name = s.need.name
      BY DEF PinOf
    <3>2. QED
      BY <2>1, <3>1 DEF Names
  <2>3. Asking = {s.need.name}
    BY <1>0 DEF Asking, TypeOK
  <2>4. QED
    BY <1>1, <2>1, <2>2, <2>3 DEF Seen
<1>11. UpdateDependencies => AllSeen'
  BY <1>0, <1>2 DEF UpdateDependencies, AllSeen
<1>12. Quiet => AllSeen'
  BY <1>1, <1>2 DEF Quiet, session
<1>13. QED
  BY <1>0, <1>3, <1>4, <1>6, <1>7, <1>8, <1>9, <1>10, <1>11, <1>12, StepCases

-----------------------------------------------------------------------------
(* Pins *)

\* What is selected is the pinned release, or the pin is not listed now.
LEMMA ChoicesPinned ==
  ASSUME IInv, phase = "resolve", NEW need \in dependencies, NEW s \in Choices(need)
  PROVE  /\ s.need = need
         /\ s.version \in need.requirement
         /\ \A p \in Locked(need) :
              \/ s.version = p.version /\ s.accepted = {p.digest}
              \/ s.version # p.version /\ <<p.name, p.version>> \in unlisted
PROOF
<1> DEFINE pinned == {p \in Locked(need) :
                        command.offline \/ registry[need.name][p.version] # Absent}
<1>0. TypeOK /\ LockSound /\ Phases
  BY DEF IInv
<1>1. packages \subseteq disk
  BY <1>0 DEF Phases
<1>2. CASE pinned # {}
  <2>1. PICK p \in pinned :
          s = [need |-> need, version |-> p.version, accepted |-> {p.digest}]
    BY <1>2 DEF Choices
  <2>2. p \in disk /\ p.requirement = need.requirement
    BY <1>1 DEF Locked, Meets
  <2>3. \A q \in Locked(need) : q = p
    BY <1>0, <1>1 DEF LockSound, SameKey, Locked, Meets
  <2>4. p.version \in need.requirement
    BY <1>0, <2>2 DEF LockSound
  <2>5. QED
    BY <2>1, <2>2, <2>3, <2>4
<1>3. CASE pinned = {}
  <2>1. ~command.offline /\ s \in {[need |-> need, version |-> v, accepted |-> Digest] : v \in Latest(need)}
    BY <1>3 DEF Choices
  <2>2. /\ s.need = need /\ s.version \in need.requirement
        /\ registry[need.name][s.version] # Absent
    BY <2>1 DEF Latest
  <2>3. ASSUME NEW p \in Locked(need)
        PROVE  s.version # p.version /\ <<p.name, p.version>> \in unlisted
    <3>1. p.name = need.name /\ p.name \in Name /\ p.version \in Version
      BY <1>0 DEF Locked, Meets, TypeOK, Pin
    <3>2. registry[p.name][p.version] = Absent
      BY <1>3, <2>3, <3>1
    <3>3. <<p.name, p.version>> \in NotListed
      BY <3>1, <3>2 DEF NotListed
    <3>4. QED
      BY <1>0, <2>2, <3>1, <3>2, <3>3 DEF Phases
  <2>4. QED
    BY <2>1, <2>2, <2>3
<1>4. QED
  BY <1>2, <1>3

\* A selection keeps to its pin.
LEMMA SelectionStep == IInv /\ [Next]_vars => SelectionPinned'
PROOF
<1> SUFFICES ASSUME IInv, [Next]_vars
             PROVE  SelectionPinned'
  OBVIOUS
<1>0. TypeOK /\ Phases /\ SelectionPinned
  BY DEF IInv
<1>1. selected' = {} => SelectionPinned'
  BY DEF SelectionPinned
<1>2. Quiet => SelectionPinned'
  <2> SUFFICES ASSUME Quiet, phase # "idle"
               PROVE  SelectionPinned'
    BY <1>0, <1>1 DEF Phases, Quiet, resolver
  <2>1. unlisted \subseteq unlisted' /\ UNCHANGED <<selected, packages, command>>
    BY DEF Quiet, session, resolver
  <2>2. QED
    BY <1>0, <2>1 DEF SelectionPinned, Locked, Meets, RegistryNow
<1>3. phase \in {"idle", "add"} => selected = {}
  BY <1>0 DEF Phases
<1>4. ASSUME NEW need \in dependencies, Select(need)
      PROVE  SelectionPinned'
  <2>1. PICK s \in Choices(need) : selected' = {s}
    BY <1>4 DEF Select
  <2>2. UNCHANGED <<packages, command, unlisted>> /\ phase = "resolve"
    BY <1>4 DEF Select, session
  <2>3. QED
    BY <2>1, <2>2, ChoicesPinned DEF SelectionPinned, Locked, Meets, RegistryNow
<1>5. Return => selected' = {}
  BY DEF Return
<1>6. ASSUME NEW c \in Command, Start(c)
      PROVE  selected' = {}
  BY <1>3, <1>6 DEF Start
<1>7. ASSUME NEW o \in VersionOverride, AddVersion(o)
      PROVE  selected' = {}
  BY <1>3, <1>7 DEF AddVersion
<1>8. ASSUME NEW n \in LocalOverride, AddLocal(n)
      PROVE  selected' = {}
  BY <1>3, <1>8 DEF AddLocal
<1>9. AddPackages => selected' = {}
  BY <1>3 DEF AddPackages
<1>10. ASSUME NEW s \in selected, NEW d \in Digest, GetRelease(s, d)
      PROVE  selected' = {}
  BY <1>10 DEF GetRelease
<1>11. UpdateDependencies => selected' = {}
  BY DEF UpdateDependencies, resolver
<1>12. QED
  BY <1>1, <1>2, <1>4, <1>5, <1>6, <1>7, <1>8, <1>9, <1>10, <1>11, StepCases DEF IInv

\* A resolution keeps to its selection: the digest of the release is one that was accepted.
LEMMA ResolvedStep == IInv /\ [Next]_vars => ResolvedPinned'
PROOF
<1> SUFFICES ASSUME IInv, [Next]_vars
             PROVE  ResolvedPinned'
  OBVIOUS
<1>0. TypeOK /\ Phases /\ SelectionPinned /\ ResolvedPinned
  BY DEF IInv
<1>1. resolved' = {} => ResolvedPinned'
  BY DEF ResolvedPinned
<1>2. phase \in {"idle", "add"} => resolved = {}
  BY <1>0 DEF Phases
<1>3. ASSUME phase # "idle", unlisted \subseteq unlisted',
             UNCHANGED <<disk, command, resolved>>
      PROVE  ResolvedPinned'
  BY <1>0, <1>3 DEF ResolvedPinned, SameKey
<1>4. Quiet => ResolvedPinned'
  BY <1>1, <1>2, <1>3 DEF Quiet, session, resolver
<1>5. ASSUME NEW need \in dependencies, Select(need)
      PROVE  ResolvedPinned'
  BY <1>3, <1>5 DEF Select, session
<1>6. UpdateDependencies => ResolvedPinned'
  BY <1>3 DEF UpdateDependencies, resolver
<1>7. ASSUME NEW s \in selected, NEW d \in Digest, GetRelease(s, d)
      PROVE  ResolvedPinned'
  <2> DEFINE new == PinOf(s, d)
  <2>1. /\ d \in s.accepted /\ resolved' = resolved \cup {new}
        /\ UNCHANGED <<disk, phase, command, unlisted>>
    BY <1>7 DEF GetRelease, session
  <2>2. phase = "resolve" /\ command \in Command
    BY <1>0 DEF Phases, TypeOK
  <2>3. /\ new.name = s.need.name /\ new.requirement = s.need.requirement
        /\ new.version = s.version /\ new.digest = d
    BY DEF PinOf
  <2>4. ASSUME NEW old \in packages, SameKey(old, new), s.version = old.version,
               s.accepted = {old.digest}
        PROVE  old = new
    <3>1. old \in Pin
      BY <1>0 DEF TypeOK
    <3>2. /\ old.name = s.need.name /\ old.requirement = s.need.requirement
          /\ old.digest = d /\ old.registry = RegistryNow(s.need.name)
      BY <2>1, <2>4 DEF SameKey, PinOf
    <3>3. QED
      BY <2>4, <3>1, <3>2 DEF Pin, PinOf
  <2>5. ASSUME NEW old \in disk, command.op = "build", SameKey(old, new), old # new
        PROVE  <<old.name, old.version>> \in unlisted /\ old.version # new.version
    <3>1. old \in packages /\ old \in Locked(s.need)
      BY <1>0, <2>2, <2>5 DEF Phases, SameKey, PinOf, Locked, Meets
    <3>2. QED
      BY <1>0, <2>3, <2>4, <2>5, <3>1 DEF SelectionPinned
  <2>6. new.version \in new.requirement
    BY <1>0, <2>3 DEF SelectionPinned
  <2>7. \A p \in resolved' : p \in resolved \/ p = new
    BY <2>1
  <2>8. \A old \in disk', p \in resolved' :
           command'.op = "build" /\ SameKey(old, p) /\ old # p =>
             <<old.name, old.version>> \in unlisted' /\ old.version # p.version
    BY <1>0, <2>1, <2>2, <2>5, <2>7 DEF ResolvedPinned
  <2>9. \A p \in resolved' : p.version \in p.requirement
    BY <1>0, <2>6, <2>7 DEF ResolvedPinned
  <2>10. QED
    BY <2>8, <2>9 DEF ResolvedPinned, SameKey
<1>8. Return => resolved' = {}
  BY DEF Return
<1>9. ASSUME NEW c \in Command, Start(c)
      PROVE  resolved' = {}
  BY <1>2, <1>9 DEF Start
<1>10. ASSUME NEW o \in VersionOverride, AddVersion(o)
      PROVE  resolved' = {}
  BY <1>2, <1>10 DEF AddVersion
<1>11. ASSUME NEW n \in LocalOverride, AddLocal(n)
      PROVE  resolved' = {}
  BY <1>2, <1>11 DEF AddLocal
<1>12. AddPackages => resolved' = {}
  BY <1>2 DEF AddPackages
<1>13. QED
  BY <1>1, <1>4, <1>5, <1>6, <1>7, <1>8, <1>9, <1>10, <1>11, <1>12, StepCases DEF IInv

-----------------------------------------------------------------------------
(* Theorems *)

\* IInv holds in the initial state.
LEMMA InitInv == Init => IInv
PROOF
<1> SUFFICES ASSUME Init
             PROVE  IInv
  OBVIOUS
<1>1. TypeOK
  BY TypeInit
<1>2. QED
  BY <1>1 DEF Init, IInv, LockSound, Phases, OncePerName, Names, Asking, LocalStays, OnlyAsked,
              AllSeen, SelectionPinned, ResolvedPinned

\* IInv is an invariant of the resolver and its commands.
THEOREM Inductive == Spec => []IInv
PROOF
<1>1. IInv /\ [Next]_vars => IInv'
  <2> SUFFICES ASSUME IInv, [Next]_vars
               PROVE  IInv'
    OBVIOUS
  <2>1. TypeOK'
    BY TypeStep DEF IInv
  <2>2. LockSound' /\ Phases' /\ OncePerName'
    BY LockStep, PhaseStep, OnceStep
  <2>3. LocalStays' /\ OnlyAsked' /\ AllSeen'
    BY LocalStep, AskedStep, SeenStep
  <2>4. SelectionPinned' /\ ResolvedPinned'
    BY SelectionStep, ResolvedStep
  <2>5. QED
    BY <2>1, <2>2, <2>3, <2>4 DEF IInv
<1>2. QED
  BY <1>1, InitInv, PTL DEF Spec

\* Every variable stays in its type.
THEOREM TypeCorrect == Spec => []TypeOK
PROOF
<1>1. IInv => TypeOK
  BY DEF IInv
<1>2. QED
  BY <1>1, Inductive, PTL

\* Pins in the lock file satisfy their requirements, and there is one for each.
THEOREM LockIsSound == Spec => []LockSound
PROOF
<1>1. IInv => LockSound
  BY DEF IInv
<1>2. QED
  BY <1>1, Inductive, PTL

\* Every name asked for is resolved once, by a requirement that somebody stated, in
\* whatever order the maps yield overrides and needs.
THEOREM NeedsAreMet == Spec => []NeedsMet
PROOF
<1>1. IInv => NeedsMet
  <2> SUFFICES ASSUME IInv, phase = "write"
               PROVE  /\ Names(Asked) \subseteq locals \cup Names(packages)
                      /\ \A p \in packages : \E need \in Asked : Meets(p, need)
                      /\ \A p, q \in packages : p.name = q.name => p = q
    BY DEF NeedsMet
  <2>1. /\ packages = resolved /\ dependencies = {} /\ selected = {} /\ overrides = {}
    BY DEF IInv, Phases
  <2>2. Seen = locals \cup Names(packages)
    BY <2>1 DEF Seen, Names, Asking
  <2>3. Names(Asked) \subseteq Seen
    BY <2>1 DEF IInv, AllSeen, Asked, Names
  <2>4. QED
    BY <2>1, <2>2, <2>3 DEF IInv, OnlyAsked, OncePerName
<1>2. QED
  BY <1>1, Inductive, PTL

\* A package that the manifest redirects to a path is taken from there.
THEOREM LocalIsKept == Spec => []LocalKept
PROOF
<1>1. IInv => LocalKept
  BY DEF IInv, Phases, LocalStays, LocalKept
<1>2. QED
  BY <1>1, Inductive, PTL

\* A build moves no pin that stays listed, and accepts no other content for one.
THEOREM BuildKeepsItsPins == Spec => []BuildKeepsPins
PROOF
<1>1. IInv => BuildKeepsPins
  BY DEF IInv, Phases, ResolvedPinned, BuildKeepsPins, PinsKeptBy
<1>2. QED
  BY <1>1, Inductive, PTL

\* wkg fetch drops no pin.
THEOREM FetchForgetsNoPin == Spec => FetchForgetsNothing
PROOF
<1> DEFINE A == phase = "write" /\ command.op = "fetch" /\ disk' # disk =>
                  \A old \in disk : \E new \in disk' : SameKey(old, new)
<1>1. IInv /\ [Next]_vars => [A]_vars
  <2> SUFFICES ASSUME IInv, [Next]_vars, phase = "write", command.op = "fetch", disk' # disk,
                      NEW old \in disk
               PROVE  \E new \in disk' : SameKey(old, new)
    OBVIOUS
  <2>1. disk' = Merge(disk, packages)
    BY DiskStep DEF IInv, Phases, Written
  <2>2. SameKey(old, old)
    BY DEF SameKey
  <2>3. \A q \in packages : SameKey(old, q) => q \in disk'
    BY <2>1 DEF Merge
  <2>4. QED
    BY <2>1, <2>2, <2>3 DEF Merge
<1>2. QED
  BY <1>1, Inductive, PTL DEF Spec, FetchForgetsNothing

-----------------------------------------------------------------------------
(* Where overrides and offline builds do what their documentation says *)

\* What bears the name of a version override is the override.
Forced ==
  \A o \in VersionOverride :
    /\ \A d \in dependencies : d.name = o.name => d = o
    /\ \A s \in selected : s.need.name = o.name => s.need = o
    /\ \A p \in resolved : p.name = o.name => p.requirement = o.requirement
    /\ phase = "add" => o.name \in overrides \/ o \in dependencies

\* Every version override takes effect where no package that the manifest redirects to a
\* path needs an overridden one, in whatever order the hash map yields the overrides: only
\* such a need can come before the override.
THEOREM UnneededOverridesApply ==
  ASSUME \A n \in LocalOverride : \A need \in LocalNeeds[n] :
           need.name \notin Names(VersionOverride)
  PROVE  Spec => []OverridesApplied
PROOF
<1>1. Init => Forced
  BY DEF Init, Forced
<1>2. IInv /\ Forced /\ [Next]_vars => Forced'
  <2> SUFFICES ASSUME IInv, Forced, [Next]_vars, NEW o \in VersionOverride
               PROVE  /\ \A d \in dependencies' : d.name = o.name => d = o
                      /\ \A s \in selected' : s.need.name = o.name => s.need = o
                      /\ \A p \in resolved' : p.name = o.name => p.requirement = o.requirement
                      /\ phase' = "add" => o.name \in overrides' \/ o \in dependencies'
    BY DEF Forced
  <2> DEFINE Kept == /\ \A d \in dependencies' : d.name = o.name => d = o
                     /\ \A s \in selected' : s.need.name = o.name => s.need = o
                     /\ \A p \in resolved' : p.name = o.name => p.requirement = o.requirement
                     /\ phase' = "add" => o.name \in overrides' \/ o \in dependencies'
  <2> SUFFICES Kept
    OBVIOUS
  <2>0. TypeOK /\ o.name \notin LocalOverride /\ o.name \in Names(VersionOverride)
    BY ResolverAssumption DEF IInv, Names
  <2>1. CASE Quiet
    BY <2>1 DEF Quiet, Forced, session, resolver
  <2>2. CASE Return
    BY <2>2 DEF Return
  <2>3. ASSUME NEW c \in Command, Start(c)
        PROVE  Kept
    BY <2>0, <2>3 DEF Start, Forced, IInv, Phases
  <2>4. ASSUME NEW q \in VersionOverride, AddVersion(q)
        PROVE  Kept
    <3>1. dependencies' \in Adding({q}, dependencies)
      BY <2>4 DEF AddVersion
    <3>2. /\ dependencies \subseteq dependencies' /\ dependencies' \subseteq dependencies \cup {q}
          /\ Names({q}) \subseteq locals \cup Names(dependencies')
      BY <3>1, AddingFacts
    <3>3. \A d \in dependencies' : d.name = o.name => d = o
      BY <3>2, ResolverAssumption DEF Forced
    <3>4. q = o => o \in dependencies'
      <4> SUFFICES ASSUME q = o PROVE o \in dependencies'
        OBVIOUS
      <4>1. o.name \in Names(dependencies')
        BY <2>0, <3>2 DEF TypeOK, Names
      <4> QED
        BY <3>3, <4>1 DEF Names
    <3>5. q # o => q.name # o.name
      BY ResolverAssumption
    <3> QED
      BY <2>4, <3>2, <3>3, <3>4, <3>5 DEF AddVersion, Forced, session
  <2>5. ASSUME NEW n \in LocalOverride, AddLocal(n)
        PROVE  Kept
    <3>1. dependencies' \in Adding(LocalNeeds[n], {d \in dependencies : d.name # n})
      BY <2>5 DEF AddLocal
    <3>2. /\ {d \in dependencies : d.name # n} \subseteq dependencies'
          /\ dependencies' \subseteq dependencies \cup LocalNeeds[n]
      BY <3>1, AddingFacts
    <3>3. n # o.name /\ \A d \in LocalNeeds[n] : d.name # o.name
      BY <2>0
    <3> QED
      BY <2>5, <3>2, <3>3 DEF AddLocal, Forced, session
  <2>6. CASE AddPackages
    <3>1. dependencies' \in Adding(Needs[command.dir], dependencies)
      BY <2>6 DEF AddPackages
    <3>2. \A d \in dependencies' \ dependencies : d.name \notin Names(dependencies)
      BY <3>1, AddingFacts
    <3>3. o \in dependencies /\ o.name \in Names(dependencies)
      BY <2>6 DEF AddPackages, Forced, Names
    <3> QED
      BY <2>6, <3>2, <3>3 DEF AddPackages, Forced
  <2>7. ASSUME NEW need \in dependencies, Select(need)
        PROVE  Kept
    <3>1. PICK s \in Choices(need) : selected' = {s}
      BY <2>7 DEF Select
    <3>2. s.need = need
      BY <3>1 DEF Choices
    <3> QED
      BY <2>7, <3>1, <3>2 DEF Select, Forced, session
  <2>8. ASSUME NEW s \in selected, NEW d \in Digest, GetRelease(s, d)
        PROVE  Kept
    <3>1. resolved' = resolved \cup {PinOf(s, d)} /\ selected' = {}
      BY <2>8 DEF GetRelease
    <3>2. PinOf(s, d).name = s.need.name /\ PinOf(s, d).requirement = s.need.requirement
      BY DEF PinOf
    <3> QED
      BY <2>8, <3>1, <3>2 DEF GetRelease, Forced, session
  <2>9. CASE UpdateDependencies
    BY <2>9 DEF UpdateDependencies, Forced, resolver
  <2> QED
    BY <2>0, <2>1, <2>2, <2>3, <2>4, <2>5, <2>6, <2>7, <2>8, <2>9, StepCases
<1>3. IInv /\ Forced => OverridesApplied
  BY DEF IInv, Phases, Forced, OverridesApplied
<1>4. QED
  BY <1>1, <1>2, <1>3, Inductive, PTL DEF Spec

\* An offline build is at no pin: it has selected and resolved nothing, and finds no pin
\* for any need.
OfflineFindsNothing ==
  phase # "idle" /\ command.offline =>
    /\ selected = {} /\ resolved = {}
    /\ \A need \in Need : Locked(need) = {}

\* Pins are stored under the registry that the configuration gives.
PinsHaveRegistry ==
  /\ \A p \in disk \cup packages \cup union \cup resolved : p.registry # Absent
  /\ phase # "idle" /\ command.offline => selected = {} /\ resolved = {}

\* What the offline resolver's lookup amounts to, whatever commands came before: an offline
\* build resolves nothing from the lock file, so that it gets past the resolver only where
\* local packages are all it needs.
THEOREM OfflineResolvesNothing == Spec => []OfflineFindsNothing
PROOF
<1>1. Init => PinsHaveRegistry
  BY DEF Init, PinsHaveRegistry
<1>2. IInv /\ PinsHaveRegistry => OfflineFindsNothing
  BY DEF PinsHaveRegistry, OfflineFindsNothing, Locked, RegistryNow
<1>3. IInv /\ PinsHaveRegistry /\ [Next]_vars => PinsHaveRegistry'
  <2> SUFFICES ASSUME IInv, PinsHaveRegistry, [Next]_vars
               PROVE  PinsHaveRegistry'
    OBVIOUS
  <2>0. /\ TypeOK
        /\ disk' = disk \/ disk' \subseteq union \cup packages
    BY DiskStep DEF IInv, Written, Merge
  <2>1. CASE Quiet
    BY <2>1 DEF Quiet, PinsHaveRegistry, session, resolver
  <2>2. CASE Return
    BY <2>0, <2>2 DEF Return, PinsHaveRegistry
  <2>3. ASSUME NEW c \in Command, Start(c)
        PROVE  PinsHaveRegistry'
    BY <2>3 DEF Start, PinsHaveRegistry, IInv, Phases
  <2>4. CASE \/ \E o \in VersionOverride : AddVersion(o)
             \/ \E n \in LocalOverride : AddLocal(n)
             \/ AddPackages
    BY <2>4 DEF AddVersion, AddLocal, AddPackages, PinsHaveRegistry, session
  <2>5. ASSUME NEW need \in dependencies, Select(need)
        PROVE  PinsHaveRegistry'
    <3>1. ~command.offline
      <4> SUFFICES ASSUME command.offline PROVE FALSE
        OBVIOUS
      <4>1. need \in Need /\ phase = "resolve"
        BY <2>0, <2>5 DEF TypeOK, Select
      <4>2. Locked(need) = {}
        BY <1>2, <4>1 DEF OfflineFindsNothing
      <4> QED
        BY <2>5, <4>2 DEF Select, Choices
    <3> QED
      BY <2>5, <3>1 DEF Select, PinsHaveRegistry, session
  <2>6. ASSUME NEW s \in selected, NEW d \in Digest, GetRelease(s, d)
        PROVE  PinsHaveRegistry'
    <3>1. ~command.offline
      BY <2>6 DEF PinsHaveRegistry, IInv, Phases
    <3>2. s.need.name \in Name
      BY <2>0 DEF TypeOK, Selection, Need
    <3>3. PinOf(s, d).registry # Absent
      BY <3>1, <3>2, ResolverAssumption DEF PinOf, RegistryNow
    <3> QED
      BY <2>6, <3>1, <3>3 DEF GetRelease, PinsHaveRegistry, session
  <2>7. CASE UpdateDependencies
    BY <2>7 DEF UpdateDependencies, PinsHaveRegistry, resolver
  <2> QED
    BY <2>0, <2>1, <2>2, <2>3, <2>4, <2>5, <2>6, <2>7, StepCases
<1>4. QED
  BY <1>1, <1>2, <1>3, Inductive, PTL DEF Spec
=============================================================================
