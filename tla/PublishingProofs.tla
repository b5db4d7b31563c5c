-------------------------- MODULE PublishingProofs --------------------------
(***************************************************************************)
(* Proofs about Publishing: for every set of publishers, packages and      *)
(* versions, whatever each may be asked to publish and however often.      *)
(*                                                                         *)
(* The invariants are stated for one publisher: what of its plan is left   *)
(* (PlanInv), what it has built (BuildInv), what it has seen of the        *)
(* registry and is writing there (OwnInv, SeenInv, CopyInv), and what of   *)
(* its work the registry has (SettledInv).  A step is one of the           *)
(* publisher's own, or one of another's, of which it notices at most that  *)
(* a release was written: an invariant XInv has a lemma for each, and the  *)
(* *Effect lemmas say once what an action does to the fields.              *)
(***************************************************************************)
EXTENDS Publishing, FiniteSetTheorems, TLAPS

\* The variables are tables of the kinds that the actions take them for.
Form ==
  /\ DOMAIN registry = Package
  /\ DOMAIN cache = Publisher
  /\ DOMAIN runs = Publisher
  /\ DOMAIN run = Publisher
  /\ \A p \in Publisher : DOMAIN run[p] = DOMAIN Idle

\* What a step leaves as it is in a publication: what is built, the plan, and the member
\* that is being published.
SameBuild(p) ==
  /\ run'[p].job = run[p].job /\ run'[p].data = run[p].data
  /\ run'[p].lock = run[p].lock /\ run'[p].stale = run[p].stale
SamePlan(p) == run'[p].plan = run[p].plan /\ run'[p].wave = run[p].wave
SameSettled(p) == run'[p].settled = run[p].settled /\ run'[p].skipped = run[p].skipped
SameMember(p) ==
  /\ run'[p].ready = run[p].ready /\ run'[p].current = run[p].current
  /\ run'[p].neighbors = run[p].neighbors
SameRun(p) ==
  run'[p].pc = run[p].pc /\ SameBuild(p) /\ SamePlan(p) /\ SameSettled(p) /\ SameMember(p)

\* A step of one publisher, of which the others notice at most that a file was written.
Alone(p) == \A q \in Publisher : q # p => run'[q] = run[q]
OthersSame(p) == \A q \in Publisher : q # p => SameRun(q)
RunForm(p) ==
  /\ DOMAIN run' = Publisher
  /\ \A q \in Publisher : DOMAIN run'[q] = DOMAIN Idle

\* A step to a given record is a step of one publisher.
LEMMA BecomesEffect ==
  ASSUME Form, NEW p \in Publisher, NEW next, Becomes(p, next), DOMAIN next = DOMAIN Idle
  PROVE  run'[p] = next /\ Alone(p) /\ RunForm(p)
BY DEF Form, Becomes, Alone, RunForm

\* A publication that fails leaves nothing of itself.
LEMMA AbortEffect ==
  ASSUME Form, NEW p \in Publisher, Abort(p)
  PROVE  run'[p] = Idle /\ Alone(p) /\ RunForm(p)
BY BecomesEffect DEF Abort

\* Of a write to the registry the other publishers keep all but what they have not seen.
LEMMA StoreEffect ==
  ASSUME Form, NEW p \in Publisher, NEW content, NEW trusted, NEW next,
         Store(p, content, trusted, next), DOMAIN next = DOMAIN Idle
  PROVE  run'[p] = next /\ OthersSame(p) /\ RunForm(p)
<1>1. run'[p] = next /\ DOMAIN run' = Publisher
  BY DEF Store
<1>2. ASSUME NEW q \in Publisher, q # p
      PROVE  /\ DOMAIN run'[q] = DOMAIN Idle
             /\ SameRun(q)
  <2>1. \E u, t : run'[q] = [run[q] EXCEPT !.unseen = u, !.touched = t]
    BY <1>2 DEF Store
  <2>2. DOMAIN run[q] = DOMAIN Idle
    BY DEF Form
  <2> QED
    BY <2>1, <2>2 DEF SameRun, SameBuild, SamePlan, SameSettled, SameMember, Idle
<1> QED
  BY <1>1, <1>2 DEF OthersSame, RunForm

\* A step that is not noticed at all leaves the others as they are.
LEMMA AloneSame ==
  ASSUME NEW p \in Publisher, Alone(p)
  PROVE  OthersSame(p)
BY DEF Alone, OthersSame, SameRun, SameBuild, SamePlan, SameSettled, SameMember

-----------------------------------------------------------------------------
(* What each action does to its publication *)

\* A publication that was asked for, and whose plan is not refused, starts.
LEMMA StartEffect ==
  ASSUME Form, NEW p \in Publisher, Start(p)
  PROVE  /\ Alone(p) /\ RunForm(p)
         /\ \/ run'[p] = Idle
            \/ \E job \in Jobs[p] :
                 /\ ~Single(job.checkout) => ~PlanRefused(job.checkout)
                 /\ run'[p].pc = "build" /\ run'[p].job = job /\ run'[p].lock = job.lock
                 /\ run'[p].plan = Members(job.checkout) /\ run'[p].data = Empty
                 /\ run'[p].wave = {} /\ run'[p].ready = {} /\ run'[p].current = None
                 /\ run'[p].neighbors = {} /\ run'[p].settled = {} /\ run'[p].skipped = {}
                 /\ run'[p].stale = {} /\ run'[p].unseen = {} /\ run'[p].touched = {}
<1>1. PICK job \in Jobs[p] :
        IF ~Single(job.checkout) /\ PlanRefused(job.checkout) THEN Abort(p)
        ELSE Becomes(p, [Idle EXCEPT !.pc = "build", !.job = job, !.lock = job.lock,
                                     !.plan = Members(job.checkout)])
  BY DEF Start
<1>2. CASE Abort(p)
  BY <1>2, AbortEffect
<1>3. CASE ~Abort(p)
  <2> DEFINE next == [Idle EXCEPT !.pc = "build", !.job = job, !.lock = job.lock,
                                  !.plan = Members(job.checkout)]
  <2>1. run'[p] = next /\ Alone(p) /\ RunForm(p)
    BY <1>1, <1>3, BecomesEffect DEF Idle
  <2> QED
    BY <1>1, <1>3, <2>1 DEF Idle
<1> QED
  BY <1>2, <1>3

\* Building changes only what is built.
LEMMA BuildEffect ==
  ASSUME Form, NEW p \in Publisher, NEW m \in run[p].plan, Build(p, m)
  PROVE  /\ run[p].pc = "build" /\ Alone(p) /\ RunForm(p)
         /\ \/ run'[p] = Idle
            \/ /\ run'[p].pc = "build" /\ run'[p].job = run[p].job
               /\ SamePlan(p) /\ SameSettled(p) /\ SameMember(p)
               /\ run'[p].unseen = run[p].unseen /\ run'[p].touched = run[p].touched
<1> DEFINE got == Fetched(p, m)
           next(differ) == [run[p] EXCEPT !.lock = PinsFor(p, m), !.stale = @ \cup differ,
                                          !.data = Inserted(@, m.package, Product(m, got))]
<1>1. Abort(p) \/ \E differ : Becomes(p, next(differ))
  BY DEF Build
<1> HIDE DEF got
<1>2. CASE Abort(p)
  BY <1>2, AbortEffect DEF Build
<1>3. ASSUME NEW differ, Becomes(p, next(differ))
      PROVE  /\ Alone(p) /\ RunForm(p)
             /\ run'[p].pc = run[p].pc /\ run'[p].job = run[p].job
             /\ SamePlan(p) /\ SameSettled(p) /\ SameMember(p)
             /\ run'[p].unseen = run[p].unseen /\ run'[p].touched = run[p].touched
  <2>1. run'[p] = next(differ) /\ Alone(p) /\ RunForm(p)
    BY <1>3, BecomesEffect DEF Form
  <2> QED
    BY <2>1 DEF Form, Idle, SamePlan, SameSettled, SameMember
<1> QED
  BY <1>1, <1>2, <1>3 DEF Build

\* The waves begin when everything is built.
LEMMA BuiltEffect ==
  ASSUME Form, NEW p \in Publisher, Built(p)
  PROVE  /\ Alone(p) /\ RunForm(p) /\ run[p].pc = "build" /\ run'[p].pc = "wave"
         /\ DOMAIN run[p].data = Packages(run[p].plan)
         /\ SameBuild(p) /\ SamePlan(p) /\ SameSettled(p) /\ SameMember(p)
         /\ run'[p].unseen = run[p].unseen /\ run'[p].touched = run[p].touched
<1>1. run'[p] = [run[p] EXCEPT !.pc = "wave"] /\ Alone(p) /\ RunForm(p)
  BY BecomesEffect DEF Built, Form
<1> QED
  BY <1>1 DEF Built, Form, Idle, SameBuild, SamePlan, SameSettled, SameMember

\* A wave is taken from the plan, if there is anything left.
LEMMA WaveEffect ==
  ASSUME Form, NEW p \in Publisher, Wave(p)
  PROVE  /\ Alone(p) /\ RunForm(p) /\ run[p].pc = "wave"
         /\ run'[p].pc = IF run[p].plan = {} THEN "done" ELSE "member"
         /\ run'[p].plan = run[p].plan
         /\ run'[p].wave = First(run[p]) /\ run'[p].ready = First(run[p])
         /\ SameBuild(p) /\ SameSettled(p)
         /\ run'[p].current = run[p].current /\ run'[p].unseen = run[p].unseen
         /\ run'[p].touched = run[p].touched
         /\ run'[p].neighbors = run[p].neighbors
<1> DEFINE first == First(run[p])
<1>1. /\ Alone(p) /\ RunForm(p) /\ run[p].pc = "wave"
      /\ run'[p] = [run[p] EXCEPT !.pc = IF run[p].plan = {} THEN "done" ELSE "member",
                                  !.wave = first, !.ready = first]
  BY BecomesEffect DEF Wave, Form
<1> HIDE DEF first
<1>2. /\ run'[p].pc = IF run[p].plan = {} THEN "done" ELSE "member"
      /\ run'[p].plan = run[p].plan /\ run'[p].wave = first /\ run'[p].ready = first
      /\ SameBuild(p) /\ SameSettled(p)
      /\ run'[p].current = run[p].current /\ run'[p].unseen = run[p].unseen
         /\ run'[p].touched = run[p].touched
      /\ run'[p].neighbors = run[p].neighbors
  BY <1>1 DEF Form, Idle, SameBuild, SameSettled
<1> QED
  BY <1>1, <1>2 DEF first

\* A wave that was published leaves the plan.
LEMMA ConfirmEffect ==
  ASSUME Form, NEW p \in Publisher, Confirm(p)
  PROVE  /\ Alone(p) /\ RunForm(p) /\ run[p].pc = "member" /\ run'[p].pc = "wave"
         /\ run[p].ready = {} /\ run'[p].plan = run[p].plan \ run[p].wave
         /\ run'[p].wave = run[p].wave
         /\ SameBuild(p) /\ SameSettled(p) /\ SameMember(p)
         /\ run'[p].unseen = run[p].unseen /\ run'[p].touched = run[p].touched
<1>1. /\ Alone(p) /\ RunForm(p)
      /\ run'[p] = [run[p] EXCEPT !.pc = "wave", !.plan = @ \ run[p].wave]
  BY BecomesEffect DEF Confirm, Form, MarkConfirmed
<1> QED
  BY <1>1 DEF Confirm, Form, Idle, SameBuild, SameSettled, SameMember

\* The next member of the wave is skipped, or published without or after comparison.
LEMMA PreflightEffect ==
  ASSUME Form, NEW p \in Publisher, NEW m \in run[p].ready, Preflight(p, m)
  PROVE  LET series == SemverSeries(m.version, Known(m.package))
         IN  /\ Alone(p) /\ RunForm(p) /\ run[p].pc = "member"
             /\ \/ run'[p] = Idle
                \/ /\ Identified(m) /\ SameBuild(p) /\ SamePlan(p)
                   /\ run'[p].ready = run[p].ready \ {m} /\ run'[p].current = m
                   /\ run'[p].unseen = {} /\ run'[p].touched = run[p].touched
                   /\ \/ /\ run[p].job.skip_semver_check
                         /\ run'[p].pc = "publish" /\ SameSettled(p)
                         /\ run'[p].neighbors = run[p].neighbors
                      \/ /\ ~run[p].job.skip_semver_check /\ m.version \notin series
                         /\ run'[p].pc = "compare" /\ SameSettled(p)
                         /\ run'[p].neighbors = Neighbours(m.version, series)
                      \/ /\ m.version \in series /\ run'[p].pc = "member"
                         /\ run'[p].neighbors = run[p].neighbors
                         /\ run'[p].settled = run[p].settled \cup {m}
                         /\ run'[p].skipped = run[p].skipped \cup {m.package}
<1> DEFINE series == SemverSeries(m.version, Known(m.package))
           near == Neighbours(m.version, series)
           r == [run[p] EXCEPT !.ready = @ \ {m}, !.current = m, !.unseen = {}]
<1>1. /\ DOMAIN r = DOMAIN Idle
      /\ r.pc = run[p].pc /\ r.job = run[p].job /\ r.data = run[p].data
      /\ r.lock = run[p].lock /\ r.stale = run[p].stale /\ r.plan = run[p].plan
      /\ r.wave = run[p].wave /\ r.ready = run[p].ready \ {m} /\ r.current = m
      /\ r.unseen = {} /\ r.settled = run[p].settled /\ r.skipped = run[p].skipped
      /\ r.touched = run[p].touched
      /\ r.neighbors = run[p].neighbors
  BY DEF Form, Idle
<1>2. /\ run[p].pc = "member"
      /\ \/ Abort(p)
         \/ /\ Identified(m) /\ run[p].job.skip_semver_check
            /\ Becomes(p, [r EXCEPT !.pc = "publish"])
         \/ /\ Identified(m) /\ ~run[p].job.skip_semver_check
            /\ m.version \notin series
            /\ Becomes(p, [r EXCEPT !.pc = "compare", !.neighbors = near])
         \/ /\ Identified(m) /\ m.version \in series
            /\ Becomes(p, [r EXCEPT !.settled = @ \cup {r.current},
                                    !.skipped = @ \cup {r.current.package}])
  BY <1>1 DEF Preflight, HandleDuplicate
<1> HIDE DEF r, near
<1>3. CASE Abort(p)
  BY <1>2, <1>3, AbortEffect
<1>4. CASE /\ Identified(m) /\ run[p].job.skip_semver_check
           /\ Becomes(p, [r EXCEPT !.pc = "publish"])
  <2>1. Alone(p) /\ RunForm(p) /\ run'[p] = [r EXCEPT !.pc = "publish"]
    BY <1>1, <1>4, BecomesEffect
  <2> QED
    BY <1>1, <1>2, <1>4, <2>1 DEF Idle, SameBuild, SamePlan, SameSettled
<1>5. CASE /\ Identified(m) /\ ~run[p].job.skip_semver_check /\ m.version \notin series
           /\ Becomes(p, [r EXCEPT !.pc = "compare", !.neighbors = near])
  <2>1. /\ Alone(p) /\ RunForm(p)
        /\ run'[p] = [r EXCEPT !.pc = "compare", !.neighbors = near]
    BY <1>1, <1>5, BecomesEffect
  <2>2. /\ SameBuild(p) /\ SamePlan(p) /\ SameSettled(p)
        /\ run'[p].ready = run[p].ready \ {m} /\ run'[p].current = m
        /\ run'[p].unseen = {} /\ run'[p].pc = "compare" /\ run'[p].neighbors = near
        /\ run'[p].touched = run[p].touched
    BY <1>1, <2>1 DEF Idle, SameBuild, SamePlan, SameSettled
  <2> QED
    BY <1>2, <1>5, <2>1, <2>2 DEF near
<1>6. CASE /\ Identified(m) /\ m.version \in series
           /\ Becomes(p, [r EXCEPT !.settled = @ \cup {r.current},
                                   !.skipped = @ \cup {r.current.package}])
  <2>1. /\ Alone(p) /\ RunForm(p)
        /\ run'[p] = [r EXCEPT !.settled = @ \cup {r.current},
                               !.skipped = @ \cup {r.current.package}]
    BY <1>1, <1>6, BecomesEffect
  <2> QED
    BY <1>1, <1>2, <1>6, <2>1 DEF Idle, SameBuild, SamePlan, SameSettled
<1> QED
  BY <1>2, <1>3, <1>4, <1>5, <1>6

\* The comparison is passed or ends the publication.
LEMMA CompareEffect ==
  ASSUME Form, NEW p \in Publisher, Compare(p)
  PROVE  /\ Alone(p) /\ RunForm(p) /\ run[p].pc = "compare"
         /\ \/ run'[p] = Idle
            \/ /\ run'[p].pc = "publish"
               /\ SameBuild(p) /\ SamePlan(p) /\ SameSettled(p)
               /\ run'[p].ready = run[p].ready /\ run'[p].current = run[p].current
               /\ run'[p].unseen = run[p].unseen /\ run'[p].neighbors = {}
               /\ run'[p].touched = run[p].touched
<1>1. /\ run[p].pc = "compare"
      /\ \/ Abort(p)
         \/ Becomes(p, [run[p] EXCEPT !.pc = "publish", !.neighbors = {}])
  BY DEF Compare
<1>2. CASE Abort(p)
  BY <1>1, <1>2, AbortEffect
<1>3. CASE Becomes(p, [run[p] EXCEPT !.pc = "publish", !.neighbors = {}])
  <2>1. /\ Alone(p) /\ RunForm(p)
        /\ run'[p] = [run[p] EXCEPT !.pc = "publish", !.neighbors = {}]
    BY <1>3, BecomesEffect DEF Form
  <2> QED
    BY <1>1, <2>1 DEF Form, Idle, SameBuild, SamePlan, SameSettled
<1> QED
  BY <1>1, <1>2, <1>3

\* A member that is published is settled, and the next of its wave comes.
LEMMA PublishedFields ==
  ASSUME NEW p \in Publisher, Form, run'[p] = Published(run[p])
  PROVE  /\ run'[p].pc = "member"
         /\ SameBuild(p) /\ SamePlan(p) /\ SameMember(p)
         /\ run'[p].settled = run[p].settled \cup {run[p].current}
         /\ run'[p].skipped = run[p].skipped
         /\ run'[p].unseen = {} /\ run'[p].touched = run[p].touched
BY DEF Form, Published, Idle, SameBuild, SamePlan, SameMember

\* A release is in the registry, or would be.
LEMMA DeliverEffect ==
  ASSUME Form, NEW p \in Publisher, PushOci(p) \/ CopyLocal(p) \/ DryRun(p)
  PROVE  /\ run[p].pc \in {"publish", "copy"} /\ run'[p].pc = "member"
         /\ OthersSame(p) /\ RunForm(p)
         /\ SameBuild(p) /\ SamePlan(p) /\ SameMember(p)
         /\ run'[p].settled = run[p].settled \cup {run[p].current}
         /\ run'[p].skipped = run[p].skipped
         /\ run'[p].unseen = {} /\ run'[p].touched = run[p].touched
<1>1. DOMAIN Published(run[p]) = DOMAIN Idle
  BY DEF Form, Published
<1>2. CASE PushOci(p)
  <2>1. PICK content, trusted : Store(p, content, trusted, Published(run[p]))
    BY <1>2, Zenon DEF PushOci
  <2>2. run'[p] = Published(run[p]) /\ OthersSame(p) /\ RunForm(p)
    BY <1>1, <2>1, StoreEffect
  <2>3. run[p].pc \in {"publish", "copy"}
    BY <1>2 DEF PushOci
  <2> QED
    BY <2>2, <2>3, PublishedFields
<1>3. CASE CopyLocal(p)
  <2>1. PICK content, trusted : Store(p, content, trusted, Published(run[p]))
    BY <1>3, Zenon DEF CopyLocal
  <2>2. run'[p] = Published(run[p]) /\ OthersSame(p) /\ RunForm(p)
    BY <1>1, <2>1, StoreEffect
  <2>3. run[p].pc \in {"publish", "copy"}
    BY <1>3 DEF CopyLocal
  <2> QED
    BY <2>2, <2>3, PublishedFields
<1>4. CASE DryRun(p)
  BY <1>1, <1>4, BecomesEffect, AloneSame, PublishedFields DEF DryRun
<1> QED
  BY <1>2, <1>3, <1>4

\* The file is truncated.
LEMMA CreateEffect ==
  ASSUME Form, NEW p \in Publisher, CreateLocal(p)
  PROVE  /\ run[p].pc = "publish" /\ run'[p].pc = "copy"
         /\ OthersSame(p) /\ RunForm(p)
         /\ SameBuild(p) /\ SamePlan(p) /\ SameSettled(p) /\ SameMember(p)
         /\ run'[p].unseen = run[p].unseen
<1>1. PICK trusted, touched :
        Store(p, Broken, trusted, [run[p] EXCEPT !.pc = "copy", !.touched = touched])
  BY Zenon DEF CreateLocal
<1> DEFINE next == [run[p] EXCEPT !.pc = "copy", !.touched = touched]
<1>2. DOMAIN next = DOMAIN Idle
  BY DEF Form
<1>3. /\ OthersSame(p) /\ RunForm(p)
      /\ run'[p] = next
  <2> HIDE DEF next
  <2> QED
    BY <1>1, <1>2, StoreEffect DEF next
<1> QED
  BY <1>3 DEF CreateLocal, Form, Idle, SameBuild, SamePlan, SameSettled, SameMember

\* The tables stay tables.
LEMMA FormStep == Form /\ [Next]_vars => Form'
<1> SUFFICES ASSUME Form, [Next]_vars
             PROVE  Form'
  OBVIOUS
<1>1. CASE UNCHANGED vars
  BY <1>1 DEF Form, vars
<1>2. ASSUME NEW p \in Publisher, Start(p) \/ Step(p) \/ Fail(p)
      PROVE  Form'
  <2>1. RunForm(p)
    BY <1>2, StartEffect, BuildEffect, BuiltEffect, WaveEffect, ConfirmEffect,
       PreflightEffect, CompareEffect, DeliverEffect, CreateEffect, AbortEffect
       DEF Step, Fail
  <2>2. DOMAIN registry' = Package /\ DOMAIN cache' = Publisher /\ DOMAIN runs' = Publisher
    BY <1>2 DEF Form, Start, Step, Fail, Build, Built, Wave, Confirm, Preflight, Compare,
       PushOci, CreateLocal, CopyLocal, DryRun, Store
  <2> QED
    BY <2>1, <2>2 DEF Form, RunForm
<1> QED
  BY <1>1, <1>2 DEF Next

-----------------------------------------------------------------------------
(* The plan *)

\* A publication goes through its plan: what is settled is what has left the plan, and the
\* part of the wave that is done.
PlanInv(p) ==
  LET r == run[p]
      M == Members(run[p].job.checkout)
  IN  r.pc # "idle" =>
        /\ r.job \in Jobs[p]
        /\ ~Single(r.job.checkout) => ~PlanRefused(r.job.checkout)
        /\ r.plan \subseteq M
        /\ r.pc = "build" => r.plan = M /\ r.settled = {} /\ r.wave = {} /\ r.ready = {}
        /\ r.pc = "wave" => r.settled = M \ r.plan /\ r.ready = {}
        /\ r.pc \in {"member", "compare", "publish", "copy"} =>
             r.wave = First(r) /\ r.ready \subseteq r.wave /\ r.plan # {}
        /\ r.pc = "member" => r.settled = (M \ r.plan) \cup (r.wave \ r.ready)
        /\ r.pc \in {"compare", "publish", "copy"} =>
             /\ r.current \in r.wave \ r.ready
             /\ r.settled = (M \ r.plan) \cup (r.wave \ (r.ready \cup {r.current}))
        /\ r.pc = "done" => r.plan = {} /\ r.ready = {} /\ r.settled = M
        /\ r.pc \in {"idle", "build", "wave", "member", "compare", "publish", "copy", "done"}

\* What a publication publishes first is in its plan.
LEMMA FirstInPlan ==
  ASSUME NEW r
  PROVE  First(r) \subseteq r.plan
BY DEF First, TakeReady

\* A publication's plan does not depend on other publishers.
LEMMA PlanOthers ==
  ASSUME NEW q \in Publisher, PlanInv(q), SameRun(q)
  PROVE  PlanInv(q)'
BY DEF PlanInv, SameRun, SameBuild, SamePlan, SameSettled, SameMember, First

\* The plan through each step of its publisher.
LEMMA PlanOwn ==
  ASSUME Form, NEW p \in Publisher, PlanInv(p), Start(p) \/ Step(p) \/ Fail(p)
  PROVE  PlanInv(p)' /\ OthersSame(p)
<1> USE FirstInPlan
<1>1. CASE Fail(p)
  BY <1>1, AbortEffect, AloneSame DEF Fail, PlanInv, Idle
<1>2. CASE Built(p)
  BY <1>2, BuiltEffect, AloneSame DEF PlanInv, SameBuild, SamePlan, SameSettled, SameMember
<1>3. CASE Wave(p)
  <2> DEFINE M == Members(run[p].job.checkout)
  <2>1. /\ run[p].pc = "wave" /\ Alone(p) /\ SameBuild(p) /\ SameSettled(p)
        /\ run'[p].pc = IF run[p].plan = {} THEN "done" ELSE "member"
        /\ run'[p].plan = run[p].plan
        /\ run'[p].wave = First(run[p]) /\ run'[p].ready = First(run[p])
    BY <1>3, WaveEffect
  <2>2. First(run'[p]) = First(run[p])
    BY <2>1 DEF First, SameBuild
  <2>3. run'[p].settled = (M \ run'[p].plan) \cup (run'[p].wave \ run'[p].ready)
    BY <2>1 DEF PlanInv, SameSettled
  <2>4. run[p].plan = {} => run'[p].settled = M /\ run'[p].ready = {}
    BY <2>1 DEF PlanInv, SameSettled
  <2> QED
    BY <2>1, <2>2, <2>3, <2>4, AloneSame DEF PlanInv, SameBuild
<1>4. CASE Confirm(p)
  BY <1>4, ConfirmEffect, AloneSame
     DEF PlanInv, SameBuild, SamePlan, SameSettled, SameMember
<1>5. ASSUME NEW m \in run[p].ready, Preflight(p, m)
      PROVE  PlanInv(p)' /\ OthersSame(p)
  BY <1>5, PreflightEffect, AloneSame
     DEF PlanInv, SameBuild, SamePlan, SameSettled, First, Idle
<1>6. CASE Compare(p)
  BY <1>6, CompareEffect, AloneSame DEF PlanInv, SameBuild, SamePlan, SameSettled, First, Idle
<1>7. CASE PushOci(p) \/ CopyLocal(p) \/ DryRun(p)
  <2> DEFINE M == Members(run[p].job.checkout)
  <2>1. /\ run[p].pc \in {"publish", "copy"} /\ run'[p].pc = "member"
        /\ OthersSame(p) /\ SameBuild(p) /\ SamePlan(p) /\ SameMember(p)
        /\ run'[p].settled = run[p].settled \cup {run[p].current}
    BY <1>7, DeliverEffect
  <2>2. First(run'[p]) = First(run[p])
    BY <2>1 DEF First, SameBuild, SamePlan
  <2>3. run'[p].settled = (M \ run'[p].plan) \cup (run'[p].wave \ run'[p].ready)
    BY <2>1 DEF PlanInv, SamePlan, SameMember
  <2> QED
    BY <2>1, <2>2, <2>3 DEF PlanInv, SameBuild, SamePlan, SameMember
<1>8. CASE CreateLocal(p)
  BY <1>8, CreateEffect DEF PlanInv, SameBuild, SamePlan, SameSettled, SameMember, First
<1>9. ASSUME NEW m \in run[p].plan, Build(p, m)
      PROVE  PlanInv(p)' /\ OthersSame(p)
  <2>1. CASE run'[p] = Idle
    BY <1>9, <2>1, BuildEffect, AloneSame DEF PlanInv, Idle
  <2>2. CASE run'[p] # Idle
    BY <1>9, <2>2, BuildEffect, AloneSame DEF PlanInv, SamePlan, SameSettled, SameMember
  <2> QED
    BY <2>1, <2>2
<1>10. CASE Start(p)
  <2>1. OthersSame(p)
    BY <1>10, StartEffect, AloneSame
  <2>2. CASE run'[p] = Idle
    BY <2>1, <2>2 DEF PlanInv, Idle
  <2>3. CASE run'[p] # Idle
    <3>1. PICK job \in Jobs[p] :
            /\ ~Single(job.checkout) => ~PlanRefused(job.checkout)
            /\ run'[p].pc = "build" /\ run'[p].job = job
            /\ run'[p].plan = Members(job.checkout)
            /\ run'[p].wave = {} /\ run'[p].ready = {} /\ run'[p].settled = {}
      BY <1>10, <2>3, StartEffect
    <3> QED
      BY <2>1, <3>1 DEF PlanInv
  <2> QED
    BY <2>2, <2>3
<1> QED
  BY <1>1, <1>2, <1>3, <1>4, <1>5, <1>6, <1>7, <1>8, <1>9, <1>10 DEF Step

\* All plans.
Plans == \A p \in Publisher : PlanInv(p)

\* Every step keeps every plan.
LEMMA PlansStep == Form /\ Plans /\ [Next]_vars => Plans'
<1> SUFFICES ASSUME Form, Plans, [Next]_vars
             PROVE  Plans'
  OBVIOUS
<1>1. CASE UNCHANGED vars
  BY <1>1 DEF Plans, PlanInv, vars, First
<1>2. ASSUME NEW p \in Publisher, Start(p) \/ Step(p) \/ Fail(p)
      PROVE  Plans'
  BY <1>2, PlanOwn, PlanOthers DEF Plans, OthersSame
<1> QED
  BY <1>1, <1>2 DEF Next

\* A plan that is not refused has members that need no other.
LEMMA PlansGiveWaves == Plans => WaveNeverEmpty
<1> SUFFICES ASSUME Plans, NEW p \in Publisher,
                    run[p].pc = "member", run[p].plan # {}
             PROVE  run[p].wave \cap run[p].plan # {}
  BY DEF WaveNeverEmpty
<1>1. /\ run[p].wave = First(run[p])
      /\ run[p].plan \subseteq Members(run[p].job.checkout)
      /\ ~Single(run[p].job.checkout) => ~PlanRefused(run[p].job.checkout)
  BY DEF Plans, PlanInv
<1>2. CASE Single(run[p].job.checkout)
  BY <1>1, <1>2 DEF First
<1>3. CASE ~Single(run[p].job.checkout)
  <2>1. ~Cyclic(Members(run[p].job.checkout))
    BY <1>1, <1>3 DEF PlanRefused
  <2>2. run[p].plan \in (SUBSET Members(run[p].job.checkout)) \ {{}}
    BY <1>1
  <2>3. \E m \in run[p].plan : \A n \in run[p].plan : ~Needs(m, n)
    BY <2>1, <2>2 DEF Cyclic
  <2> QED
    BY <1>1, <1>3, <2>3 DEF First, TakeReady
<1> QED
  BY <1>2, <1>3

-----------------------------------------------------------------------------
(* The order of the releases *)

\* Nothing is settled in the beginning.
LEMMA OrderInit == Init => Order!Init
BY DEF Init, Order!Init, Idle, MembersOf

\* What neither changes a checkout nor settles a member is a stutter of ReleaseOrder.
LEMMA OrderUnchanged ==
  ASSUME \A p \in Publisher : run'[p].job = run[p].job /\ run'[p].settled = run[p].settled
  PROVE  UNCHANGED Order!vars
BY DEF Order!vars, MembersOf

\* One path is one member.
LEMMA SingleMember ==
  ASSUME NEW p \in Publisher, NEW job \in Jobs[p], Single(job.checkout),
         NEW m \in Members(job.checkout), NEW n \in Members(job.checkout)
  PROVE  m = n
<1>1. IsFiniteSet(DOMAIN job.checkout)
  BY PublishingAssumption
<1>2. \E path : DOMAIN job.checkout = {path}
  BY <1>1, FS_Singleton DEF Single
<1> QED
  BY <1>2 DEF Members

\* A publication that is over, or has just been asked for, begins anew.
LEMMA BeginMapped ==
  ASSUME NEW p \in Publisher, OthersSame(p), run'[p].settled = {},
         MembersOf(run'[p]) \in
           {{}} \cup UNION {{Members(j.checkout) : j \in Jobs[q]} : q \in Publisher}
  PROVE  Order!Begin(p)
<1> DEFINE members == [q \in Publisher |-> MembersOf(run[q])]
           settled == [q \in Publisher |-> run[q].settled]
<1>1. members' = [members EXCEPT ![p] = MembersOf(run'[p])]
  BY DEF OthersSame, SameRun, SameBuild, MembersOf
<1>2. settled' = [settled EXCEPT ![p] = {}]
  BY DEF OthersSame, SameRun, SameSettled
<1> QED
  BY <1>1, <1>2 DEF Order!Begin

\* A member of the wave is settled after all that it needs.
LEMMA SettleMapped ==
  ASSUME NEW p \in Publisher, OthersSame(p),
         run[p].job \in Jobs[p], run[p].plan \subseteq Members(run[p].job.checkout),
         NEW m \in First(run[p]), m \notin run[p].settled,
         Members(run[p].job.checkout) \ run[p].plan \subseteq run[p].settled,
         run'[p].job = run[p].job, run'[p].settled = run[p].settled \cup {m}
  PROVE  Order!Settle(p)
<1> DEFINE M == Members(run[p].job.checkout)
           members == [q \in Publisher |-> MembersOf(run[q])]
           settled == [q \in Publisher |-> run[q].settled]
<1>1. MembersOf(run[p]) = M
  BY PublishingAssumption DEF MembersOf
<1>2. m \in members[p] \ settled[p]
  BY <1>1, FirstInPlan
<1>3. ASSUME NEW n \in members[p] \ {m}, Needs(m, n)
      PROVE  n \in settled[p]
  <2>1. CASE Single(run[p].job.checkout)
    BY <1>1, <1>2, <1>3, <2>1, SingleMember
  <2>2. CASE ~Single(run[p].job.checkout)
    BY <1>1, <1>3, <2>2 DEF First, TakeReady
  <2> QED
    BY <2>1, <2>2
<1>4. settled' = [settled EXCEPT ![p] = @ \cup {m}]
  BY DEF OthersSame, SameRun, SameSettled
<1>5. UNCHANGED members
  BY DEF OthersSame, SameRun, SameBuild, MembersOf
<1> QED
  BY <1>2, <1>3, <1>4, <1>5 DEF Order!Settle

\* Every step begins a publication, settles a member whose needs are settled, or stutters.
LEMMA OrderStep == Form /\ Plans /\ [Next]_vars => [Order!Next]_Order!vars
<1> SUFFICES ASSUME Form, Plans, [Next]_vars
             PROVE  Order!Next \/ UNCHANGED Order!vars
  OBVIOUS
<1>1. CASE UNCHANGED vars
  BY <1>1 DEF vars, Order!vars
<1>2. ASSUME NEW p \in Publisher, Start(p) \/ Step(p) \/ Fail(p)
      PROVE  Order!Begin(p) \/ Order!Settle(p) \/ UNCHANGED Order!vars
  <2> DEFINE M == Members(run[p].job.checkout)
  <2>1. PlanInv(p) /\ OthersSame(p)
    BY <1>2, PlanOwn DEF Plans
  <2>2. ASSUME run'[p] = Idle
        PROVE  Order!Begin(p)
    BY <2>1, <2>2, BeginMapped DEF Idle, MembersOf
  <2>3. ASSUME run'[p].job = run[p].job, run'[p].settled = run[p].settled
        PROVE  UNCHANGED Order!vars
    BY <2>1, <2>3, OrderUnchanged DEF OthersSame, SameRun, SameBuild, SameSettled
  <2>4. ASSUME NEW m \in run[p].ready, Preflight(p, m)
        PROVE  Order!Begin(p) \/ Order!Settle(p) \/ UNCHANGED Order!vars
    <3>1. /\ run[p].pc = "member"
          /\ \/ run'[p] = Idle
             \/ /\ run'[p].job = run[p].job
                /\ run'[p].settled \in {run[p].settled, run[p].settled \cup {m}}
      BY <2>4, PreflightEffect DEF SameBuild, SameSettled
    <3>2. /\ run[p].job \in Jobs[p] /\ run[p].plan \subseteq M /\ m \in First(run[p])
          /\ m \notin run[p].settled /\ M \ run[p].plan \subseteq run[p].settled
      BY <2>1, <2>4, <3>1, FirstInPlan DEF PlanInv
    <3> QED
      BY <2>1, <2>2, <2>3, <3>1, <3>2, SettleMapped
  <2>5. ASSUME PushOci(p) \/ CopyLocal(p) \/ DryRun(p)
        PROVE  Order!Settle(p)
    <3> DEFINE m == run[p].current
    <3>1. /\ run[p].pc \in {"publish", "copy"} /\ run'[p].job = run[p].job
          /\ run'[p].settled = run[p].settled \cup {m}
      BY <2>5, DeliverEffect DEF SameBuild
    <3>2. /\ run[p].job \in Jobs[p] /\ run[p].plan \subseteq M /\ m \in First(run[p])
          /\ m \notin run[p].settled /\ M \ run[p].plan \subseteq run[p].settled
      BY <2>1, <3>1, FirstInPlan DEF PlanInv
    <3> QED
      BY <2>1, <3>1, <3>2, SettleMapped
  <2>6. ASSUME Start(p)
        PROVE  Order!Begin(p)
    <3>1. ASSUME NEW job \in Jobs[p], run'[p].job = job, run'[p].settled = {}
          PROVE  Order!Begin(p)
      <4>1. MembersOf(run'[p]) = Members(job.checkout)
        BY <3>1, PublishingAssumption DEF MembersOf
      <4> QED
        BY <2>1, <3>1, <4>1, BeginMapped
    <3> QED
      BY <2>2, <2>6, <3>1, StartEffect
  <2>7. CASE \/ Built(p) \/ Wave(p) \/ Confirm(p) \/ Compare(p) \/ CreateLocal(p)
             \/ \E m \in run[p].plan : Build(p, m)
    <3>1. \/ run'[p] = Idle
          \/ run'[p].job = run[p].job /\ run'[p].settled = run[p].settled
      BY <2>7, BuiltEffect, WaveEffect, ConfirmEffect, CompareEffect, CreateEffect, BuildEffect
         DEF SameBuild, SameSettled
    <3> QED
      BY <2>2, <2>3, <3>1
  <2>8. CASE Fail(p)
    BY <2>2, <2>8, AbortEffect DEF Fail
  <2> QED
    BY <1>2, <2>4, <2>5, <2>6, <2>7, <2>8 DEF Step
<1> QED
  BY <1>1, <1>2 DEF Next, Order!Next

\* In the beginning no command runs.
LEMMA PlansInit == Init => Form /\ Plans
BY DEF Init, Form, Plans, PlanInv, Idle

\* While a plan is not empty its waves are not: PublishArgs::run relies on that, its loop
\* would not end otherwise.  The argument is the plan: what is left of it is a set of
\* members of an acyclic checkout.
THEOREM PlanNeverStuck == Spec => []WaveNeverEmpty
<1>1. Form /\ Plans /\ [Next]_vars => (Form /\ Plans)'
  BY FormStep, PlansStep
<1> QED
  BY <1>1, PlansInit, PlansGiveWaves, PTL DEF Spec

\* The waves of PublishArgs::run implement the abstract order of releases: every member is
\* settled once, after all members it needs, for every checkout that is not refused.
THEOREM OrderImplemented == Spec => ReleasesOrdered
<1>1. Form /\ Plans /\ [Next]_vars => (Form /\ Plans)'
  BY FormStep, PlansStep
<1> QED
  BY <1>1, PlansInit, OrderInit, OrderStep, PTL DEF Spec, ReleasesOrdered, Order!Spec

-----------------------------------------------------------------------------
(* What is built *)

\* The packages of a member's dependencies for which the cache has another content than
\* what is listed.
Differ(p, m) ==
  LET got == Fetched(p, m)
  IN  {n \in DOMAIN got : got[n].content # Offered(run[p], n)[got[n].version]}

\* A member that is built has all its dependencies, and one directory keeps its lock file.
LEMMA BuildDetail ==
  ASSUME Form, NEW p \in Publisher, NEW m \in run[p].plan, Build(p, m), run'[p] # Idle
  PROVE  /\ m.package \notin DOMAIN run[p].data
         /\ \A n \in run[p].plan : Needs(m, n) /\ n.package \in Siblings(run[p].job) =>
              n.package \in DOMAIN run[p].data
         /\ Met(p, m) = m.needs
         /\ ~LockChanged(run[p], PinsFor(p, m))
         /\ run'[p].lock = PinsFor(p, m)
         /\ run'[p].stale = run[p].stale \cup Differ(p, m)
         /\ run'[p].data = Inserted(run[p].data, m.package, Product(m, Fetched(p, m)))
<1> DEFINE got == Fetched(p, m)
           pins == PinsFor(p, m)
           differ == Differ(p, m)
           data == Inserted(run[p].data, m.package, Product(m, got))
           next == [run[p] EXCEPT !.lock = pins, !.stale = @ \cup differ, !.data = data]
<1>1. /\ m.package \notin DOMAIN run[p].data
      /\ \A n \in run[p].plan : Needs(m, n) /\ n.package \in Siblings(run[p].job) =>
           n.package \in DOMAIN run[p].data
      /\ \/ Abort(p)
         \/ Met(p, m) = m.needs /\ ~LockChanged(run[p], pins) /\ Becomes(p, next)
  BY DEF Build, Differ
<1> HIDE DEF pins, differ, data
<1>2. DOMAIN next = DOMAIN Idle
  BY DEF Form
<1>3. run'[p] = next
  BY <1>1, <1>2, AbortEffect, BecomesEffect
<1>4. next.lock = pins /\ next.stale = run[p].stale \cup differ /\ next.data = data
  BY DEF Form, Idle
<1> QED
  BY <1>1, <1>3, <1>4, AbortEffect DEF pins, differ, data

\* A package is one member of a checkout that is not refused.
LEMMA UniquePackages ==
  ASSUME NEW p \in Publisher, NEW job \in Jobs[p],
         ~Single(job.checkout) => ~PlanRefused(job.checkout),
         NEW m \in Members(job.checkout), NEW n \in Members(job.checkout),
         m.package = n.package
  PROVE  m = n
<1>1. CASE Single(job.checkout)
  BY <1>1, SingleMember
<1>2. CASE ~Single(job.checkout)
  BY <1>2 DEF PlanRefused, Duplicates, Members
<1> QED
  BY <1>1, <1>2

\* What is built of a job's members is theirs, and says what they were built against.
WellBuilt(job, data, lock, stale) ==
  LET M == Members(job.checkout)
  IN  /\ DOMAIN data \subseteq Packages(M)
      /\ lock \subseteq Pin /\ stale \subseteq Package
      /\ Single(job.checkout) /\ DOMAIN data = {} => lock = job.lock
      /\ \A m \in M : m.package \in DOMAIN data => data[m.package].api = m.api
      /\ Single(job.checkout) /\ ~job.dry_run =>
           \A m \in M : m.package \in DOMAIN data => \A need \in m.needs :
             [package |-> need.package, requirement |-> need.version,
              version |-> data[m.package].uses[need.package].version] \in job.lock
      /\ \A m, n \in M :
           /\ Needs(m, n) /\ m.package \in DOMAIN data
           /\ n.package \in Siblings(job) \ stale
           => /\ n.package \in DOMAIN data
              /\ data[m.package].uses[n.package]
                   = [version |-> n.version, api |-> data[n.package].api]

\* A publication has built well, and everything before it begins to publish.
BuildInv(p) ==
  LET r == run[p]
  IN  r.pc # "idle" =>
        /\ WellBuilt(r.job, r.data, r.lock, r.stale)
        /\ r.pc # "build" => DOMAIN r.data = Packages(Members(r.job.checkout))

\* What is built stays as it is while nothing is built.
LEMMA BuildKept ==
  ASSUME NEW q \in Publisher, BuildInv(q), SameBuild(q),
         run[q].pc # "idle", run'[q].pc = "build" => run[q].pc = "build",
         run[q].pc = "build" /\ run'[q].pc # "build" =>
           DOMAIN run[q].data = Packages(Members(run[q].job.checkout))
  PROVE  BuildInv(q)'
BY DEF BuildInv, SameBuild

\* A dependency that can be had has been chosen from the choices.
LEMMA Chosen ==
  ASSUME NEW p, NEW m, NEW need \in Met(p, m)
  PROVE  Choice(p, need) \in Choices(run[p], need)
BY DEF Met, Choice

\* When a member has all its dependencies, each is fetched in the version of its choice.
LEMMA FetchedNeed ==
  ASSUME NEW p \in Publisher, NEW job \in Jobs[p], NEW m \in Members(job.checkout),
         Met(p, m) = m.needs, NEW need \in m.needs
  PROVE  /\ DOMAIN Fetched(p, m) = Packages(m.needs)
         /\ need.package \in DOMAIN Fetched(p, m)
         /\ Fetched(p, m)[need.package].version = Choice(p, need)
         /\ Fetched(p, m)[need.package].content
              = Obtained(p, need.package, Choice(p, need))
<1>1. DOMAIN Fetched(p, m) = Packages(m.needs) /\ need.package \in DOMAIN Fetched(p, m)
  BY DEF Fetched, Packages
<1>2. (CHOOSE x \in Met(p, m) : x.package = need.package) = need
  BY PublishingAssumption
<1>3. Fetched(p, m)[need.package]
        = [version |-> Choice(p, need),
           content |-> Obtained(p, need.package, Choice(p, need))]
  BY <1>1, <1>2 DEF Fetched
<1> QED
  BY <1>1, <1>3

\* What is listed anywhere is a version.
LEMMA OfferedVersions ==
  ASSUME NEW p \in Publisher, PlanInv(p), run[p].pc = "build",
         \A n \in Package : Known(n) \subseteq Version,
         NEW n \in Package
  PROVE  DOMAIN Offered(run[p], n) \subseteq Version
<1>1. CASE n \in Siblings(run[p].job)
  <2>1. ~Single(run[p].job.checkout)
    BY <1>1 DEF Siblings
  <2>2. \A m \in run[p].plan : m.version \in Version
    BY <2>1, PublishingAssumption DEF PlanInv, PlanRefused
  <2> QED
    BY <1>1, <2>2 DEF Offered, Overlay
<1>2. CASE n \notin Siblings(run[p].job)
  BY <1>2 DEF Offered
<1> QED
  BY <1>1, <1>2

\* What is chosen is a version.
LEMMA ChosenVersion ==
  ASSUME NEW p \in Publisher, PlanInv(p), run[p].pc = "build", run[p].lock \subseteq Pin,
         \A n \in Package : Known(n) \subseteq Version,
         NEW m \in run[p].plan, NEW need \in Met(p, m)
  PROVE  Choice(p, need) \in Version
<1>1. need.package \in Package
  BY PublishingAssumption DEF PlanInv, Met
<1>2. DOMAIN Offered(run[p], need.package) \subseteq Version
  BY <1>1, OfferedVersions
<1>3. Choices(run[p], need) \subseteq Version
  BY <1>2 DEF Choices, Pin
<1> QED
  BY <1>3, Chosen

\* A need for a member of the same publication is met by that member.
LEMMA SiblingChosen ==
  ASSUME NEW p \in Publisher, PlanInv(p), run[p].pc = "build",
         NEW m \in run[p].plan, NEW n \in run[p].plan, NEW need \in Met(p, m),
         need.package = n.package, n.package \in Siblings(run[p].job),
         n.package \in DOMAIN run[p].data
  PROVE  /\ Choice(p, need) = n.version
         /\ n.version \in DOMAIN Offered(run[p], n.package)
         /\ Offered(run[p], n.package)[n.version] = run[p].data[n.package]
<1>1. \A x \in run[p].plan : x.package = n.package => x = n
  BY UniquePackages DEF PlanInv
<1>2. Offered(run[p], n.package) = [v \in {n.version} |-> run[p].data[n.package]]
  <2>1. {x.version : x \in {x \in run[p].plan :
                              x.package = n.package /\ n.package \in DOMAIN run[p].data}}
          = {n.version}
    BY <1>1
  <2> QED
    BY <2>1 DEF Offered, Overlay
<1>3. Choices(run[p], need) \subseteq {n.version}
  BY <1>2 DEF Choices
<1> QED
  BY <1>2, <1>3, Chosen

\* Building a member keeps what is known of the members built before, and makes it known
\* of this one.
LEMMA BuildMember ==
  ASSUME Form, NEW p \in Publisher, PlanInv(p), BuildInv(p),
         \A n \in Package : Known(n) \subseteq Version,
         NEW m \in run[p].plan, Build(p, m), run'[p] # Idle
  PROVE  BuildInv(p)'
<1> DEFINE r == run[p]
           s == run'[p]
           M == Members(run[p].job.checkout)
           got == Fetched(p, m)
<1>1. /\ r.pc = "build" /\ s.pc = "build" /\ s.job = r.job
      /\ r.job \in Jobs[p] /\ r.plan = M /\ m \in M
      /\ ~Single(r.job.checkout) => ~PlanRefused(r.job.checkout)
  BY BuildEffect DEF PlanInv
<1>2. /\ m.package \notin DOMAIN r.data
      /\ \A n \in r.plan : Needs(m, n) /\ n.package \in Siblings(r.job) =>
           n.package \in DOMAIN r.data
      /\ Met(p, m) = m.needs
      /\ ~LockChanged(r, PinsFor(p, m))
      /\ s.lock = PinsFor(p, m)
      /\ s.stale = r.stale \cup Differ(p, m)
      /\ s.data = Inserted(r.data, m.package, Product(m, got))
  BY BuildDetail
<1>3. /\ DOMAIN s.data = DOMAIN r.data \cup {m.package}
      /\ s.data[m.package] = Product(m, got)
      /\ \A n \in DOMAIN r.data : s.data[n] = r.data[n]
  BY <1>2 DEF Inserted
<1>4. \A need \in m.needs :
        /\ need.package \in Package /\ need.version \in Version \cup {None}
        /\ need.package \in DOMAIN got
        /\ got[need.package].version = Choice(p, need)
        /\ got[need.package].content = Obtained(p, need.package, Choice(p, need))
        /\ Choice(p, need) \in Version
  <2> SUFFICES ASSUME NEW need \in m.needs
               PROVE  /\ need.package \in Package /\ need.version \in Version \cup {None}
                      /\ need.package \in DOMAIN got
                      /\ got[need.package].version = Choice(p, need)
                      /\ got[need.package].content
                           = Obtained(p, need.package, Choice(p, need))
                      /\ Choice(p, need) \in Version
    OBVIOUS
  <2>1. need.package \in Package /\ need.version \in Version \cup {None}
    BY <1>1, PublishingAssumption
  <2>2. Choice(p, need) \in Version
    BY <1>1, <1>2, ChosenVersion DEF BuildInv, WellBuilt
  <2> QED
    BY <1>1, <1>2, <2>1, <2>2, FetchedNeed
<1>5. s.data[m.package].api = m.api
  BY <1>3 DEF Product
<1>6. \A need \in m.needs :
        s.data[m.package].uses[need.package]
          = [version |-> Choice(p, need), api |-> got[need.package].content.api]
  BY <1>3, <1>4 DEF Product
<1>7. s.lock \subseteq Pin /\ s.stale \subseteq Package
  <2>1. s.lock \subseteq Pin
    BY <1>2, <1>4 DEF PinsFor, Pin
  <2>2. Differ(p, m) \subseteq Packages(m.needs)
    BY <1>2 DEF Differ, Fetched
  <2>3. Packages(m.needs) \subseteq Package
    BY <1>4 DEF Packages
  <2> QED
    BY <1>1, <1>2, <2>1, <2>2, <2>3 DEF BuildInv, WellBuilt
<1>8. \A x \in M : x.package = m.package => x = m
  BY <1>1, UniquePackages
<1>9. DOMAIN s.data \subseteq Packages(M) /\ DOMAIN s.data # {}
  BY <1>1, <1>3 DEF BuildInv, WellBuilt, Packages
<1>10. \A x \in M : x.package \in DOMAIN s.data => s.data[x.package].api = x.api
  BY <1>1, <1>3, <1>5, <1>8 DEF BuildInv, WellBuilt
<1>11. ASSUME Single(r.job.checkout), ~r.job.dry_run, NEW x \in M, NEW need \in x.needs
       PROVE  [package |-> need.package, requirement |-> need.version,
               version |-> s.data[x.package].uses[need.package].version] \in r.job.lock
  <2>1. x = m
    BY <1>1, <1>11, SingleMember
  <2>2. DOMAIN r.data = {}
    <3>1. DOMAIN r.data \subseteq Packages(M)
      BY <1>1 DEF BuildInv, WellBuilt
    <3>2. m \in M /\ \A y \in M : y = m
      BY <1>1, <1>11, SingleMember
    <3> HIDE DEF M
    <3>4. Packages(M) = {m.package}
      BY <3>2 DEF Packages
    <3>3. m.package \notin DOMAIN r.data
      BY <1>2
    <3> QED
      BY <3>1, <3>3, <3>4
  <2>3. PinsFor(p, m) = r.job.lock
    <3>1. r.lock = r.job.lock
      BY <1>1, <1>11, <2>2 DEF BuildInv, WellBuilt
    <3>2. PinsFor(p, m) = r.lock
      BY <1>2, <1>11 DEF LockChanged
    <3> QED
      BY <3>1, <3>2
  <2>4. [package |-> need.package, requirement |-> need.version,
         version |-> Choice(p, need)] \in PinsFor(p, m)
    BY <1>2, <1>11, <2>1 DEF PinsFor
  <2>5. s.data[x.package].uses[need.package].version = Choice(p, need)
    <3>1. s.data[m.package].uses[need.package]
            = [version |-> Choice(p, need), api |-> got[need.package].content.api]
      BY <1>6, <1>11, <2>1
    <3> HIDE DEF s, got
    <3> QED
      BY <2>1, <3>1
  <2> QED
    BY <2>3, <2>4, <2>5
<1>12. ASSUME NEW x \in M, NEW n \in M, Needs(x, n), x.package \in DOMAIN s.data,
              n.package \in Siblings(r.job) \ s.stale
       PROVE  /\ n.package \in DOMAIN s.data
              /\ s.data[x.package].uses[n.package]
                   = [version |-> n.version, api |-> s.data[n.package].api]
  <2>1. CASE x.package \in DOMAIN r.data
    <3>1. n.package \in Siblings(r.job) \ r.stale
      BY <1>2, <1>12
    <3>2. /\ n.package \in DOMAIN r.data
          /\ r.data[x.package].uses[n.package]
               = [version |-> n.version, api |-> r.data[n.package].api]
      BY <1>1, <1>12, <2>1, <3>1 DEF BuildInv, WellBuilt
    <3> QED
      BY <1>3, <2>1, <3>2
  <2>2. CASE x.package \notin DOMAIN r.data
    <3>1. x = m
      BY <1>3, <1>8, <1>12, <2>2
    <3>2. n.package \in DOMAIN r.data
      BY <1>1, <1>2, <1>12, <3>1
    <3>3. PICK need \in m.needs : need.package = n.package
      BY <1>12, <3>1 DEF Needs
    <3>4. /\ Choice(p, need) = n.version
          /\ n.version \in DOMAIN Offered(r, n.package)
          /\ Offered(r, n.package)[n.version] = r.data[n.package]
      BY <1>1, <1>2, <1>12, <3>2, <3>3, SiblingChosen
    <3>5. n.package \notin Differ(p, m)
      BY <1>2, <1>12
    <3>6. got[n.package].content = r.data[n.package]
      BY <1>4, <3>3, <3>4, <3>5 DEF Differ
    <3> QED
      BY <1>3, <1>6, <3>1, <3>2, <3>3, <3>4, <3>6
  <2> QED
    BY <2>1, <2>2
<1>13. Single(r.job.checkout) /\ ~r.job.dry_run =>
         \A x \in M : x.package \in DOMAIN s.data => \A need \in x.needs :
           [package |-> need.package, requirement |-> need.version,
            version |-> s.data[x.package].uses[need.package].version] \in r.job.lock
  BY <1>11
<1>14. \A x, n \in M :
         /\ Needs(x, n) /\ x.package \in DOMAIN s.data
         /\ n.package \in Siblings(r.job) \ s.stale
         => /\ n.package \in DOMAIN s.data
            /\ s.data[x.package].uses[n.package]
                 = [version |-> n.version, api |-> s.data[n.package].api]
  BY <1>12
<1> HIDE DEF got
<1>15. WellBuilt(r.job, s.data, s.lock, s.stale)
  <2>1. Single(r.job.checkout) /\ DOMAIN s.data = {} => s.lock = r.job.lock
    BY <1>9
  <2> HIDE DEF s
  <2> QED
    BY <1>7, <1>9, <1>10, <1>13, <1>14, <2>1 DEF WellBuilt
<1> QED
  BY <1>1, <1>15 DEF BuildInv

-----------------------------------------------------------------------------
(* What the registry has *)

\* A publisher writes a release of the package it is publishing, and of the others those
\* who are publishing the same package have not seen it.
Wrote(p, content, trusted) ==
  LET n == run[p].current.package
      v == run[p].current.version
  IN  /\ \A k \in Package : k # n => registry'[k] = registry[k]
      /\ DOMAIN registry'[n] = Known(n) \cup {v}
      /\ registry'[n][v].content = content
      /\ registry'[n][v].trusted = trusted
      /\ \A w \in Known(n) : w # v => registry'[n][w] = registry[n][w]

\* Who is at a release of the package that a publisher is publishing.
Near(q, p) ==
  /\ run[q].pc \in {"compare", "publish", "copy"}
  /\ run[q].current.package = run[p].current.package

\* What the others notice of a write.
Noticed(p) ==
  LET n == run[p].current.package
      v == run[p].current.version
  IN  \A q \in Publisher : q # p =>
        /\ run'[q].unseen = IF Near(q, p) THEN run[q].unseen \cup {v} ELSE run[q].unseen
        /\ run'[q].touched
             = IF Holds(q, n, v) THEN run[q].touched \cup {n} ELSE run[q].touched

\* A write by the fields of the registry and of the other publications.
LEMMA StoreFacts ==
  ASSUME Form, NEW p \in Publisher, NEW content, NEW trusted, NEW next,
         Store(p, content, trusted, next), run[p].current.package \in Package
  PROVE  Wrote(p, content, trusted) /\ Noticed(p)
<1> DEFINE n == run[p].current.package
           v == run[p].current.version
           release == [content |-> content, trusted |-> trusted]
<1>1. registry' = [registry EXCEPT ![n] = Inserted(registry[n], v, release)]
  BY DEF Store
<1>2. /\ \A k \in Package : k # n => registry'[k] = registry[k]
      /\ registry'[n] = Inserted(registry[n], v, release)
  BY <1>1 DEF Form
<1>3. Wrote(p, content, trusted)
  BY <1>2 DEF Wrote, Inserted, Known
<1>4. ASSUME NEW q \in Publisher, q # p
      PROVE  /\ run'[q].unseen = IF Near(q, p) THEN run[q].unseen \cup {v} ELSE run[q].unseen
             /\ run'[q].touched
                  = IF Holds(q, n, v) THEN run[q].touched \cup {n} ELSE run[q].touched
  <2>1. DOMAIN run[q] = DOMAIN Idle
    BY DEF Form
  <2>2. run'[q] = [run[q] EXCEPT !.unseen = @ \cup (IF Near(q, p) THEN {v} ELSE {}),
                                 !.touched = @ \cup (IF Holds(q, n, v) THEN {n} ELSE {})]
    BY <1>4, Zenon DEF Store, Near
  <2> QED
    BY <2>1, <2>2 DEF Idle
<1> QED
  BY <1>3, <1>4 DEF Noticed

\* The member that is being published is one of the publication's, and has a version; what
\* others touched is settled or being written.
OwnInv(p) ==
  LET r == run[p]
  IN  /\ r.pc = "idle" => /\ r.lock = {} /\ r.stale = {} /\ r.ready = {}
                          /\ DOMAIN r.data = {}
      /\ r.neighbors \cup r.unseen \subseteq Version
      /\ r.skipped \cup r.touched \subseteq Package
      /\ r.touched \subseteq
           Packages(r.settled) \cup (IF r.pc = "copy" THEN {r.current.package} ELSE {})
      /\ r.pc \in {"compare", "publish", "copy"} => r.current.version # None
      /\ r.pc = "compare" => ~r.job.skip_semver_check

\* The member that is being published is one of the checkout.
LEMMA CurrentMember ==
  ASSUME NEW p \in Publisher, PlanInv(p), OwnInv(p),
         run[p].pc \in {"compare", "publish", "copy"}
  PROVE  /\ run[p].job \in Jobs[p]
         /\ run[p].current \in Members(run[p].job.checkout)
         /\ run[p].current.package \in Package /\ run[p].current.version \in Version
<1>1. run[p].job \in Jobs[p] /\ run[p].current \in Members(run[p].job.checkout)
  BY FirstInPlan DEF PlanInv
<1> QED
  BY <1>1, PublishingAssumption DEF OwnInv

\* What is settled is a member of the checkout, and not the one being published.
LEMMA SettledMembers ==
  ASSUME NEW p \in Publisher, PlanInv(p), run[p].pc # "idle", NEW m \in run[p].settled
  PROVE  /\ m \in Members(run[p].job.checkout) /\ m.package \in Package
         /\ run[p].job \in Jobs[p]
         /\ run[p].pc \in {"compare", "publish", "copy"} =>
              m.package # run[p].current.package
<1>1. run[p].job \in Jobs[p] /\ m \in Members(run[p].job.checkout)
  BY FirstInPlan DEF PlanInv
<1>2. m.package \in Package
  BY <1>1, PublishingAssumption
<1>3. ASSUME run[p].pc \in {"compare", "publish", "copy"}
      PROVE  m.package # run[p].current.package
  <2>1. /\ run[p].current \in Members(run[p].job.checkout)
        /\ run[p].current \notin run[p].settled
    BY <1>3, FirstInPlan DEF PlanInv
  <2>2. ~Single(run[p].job.checkout) => ~PlanRefused(run[p].job.checkout)
    BY DEF PlanInv
  <2> QED
    BY <1>1, <2>1, <2>2, UniquePackages
<1> QED
  BY <1>1, <1>2, <1>3

\* The writes of the three actions that write.
LEMMA PushWrites ==
  ASSUME Form, NEW p \in Publisher, PlanInv(p), OwnInv(p), PushOci(p)
  PROVE  /\ backend = "oci" /\ run[p].pc = "publish" /\ backend' = backend
         /\ Noticed(p)
         /\ \E trusted \in BOOLEAN :
              /\ trusted => Trusted(run[p])
              /\ Wrote(p, run[p].data[run[p].current.package], trusted)
<1>1. backend = "oci" /\ run[p].pc = "publish" /\ backend' = backend
  BY DEF PushOci
<1>2. PICK trusted \in BOOLEAN :
        /\ trusted => Trusted(run[p])
        /\ Store(p, run[p].data[run[p].current.package], trusted, Published(run[p]))
  <2>1. Trusted(run[p]) \in BOOLEAN
    BY DEF Trusted
  <2> QED
    BY <2>1, Zenon DEF PushOci
<1>3. DOMAIN Published(run[p]) = DOMAIN Idle
  BY DEF Form, Published
<1>4. run[p].current.package \in Package
  BY <1>1, CurrentMember
<1>5. /\ Wrote(p, run[p].data[run[p].current.package], trusted)
      /\ Noticed(p)
  BY <1>2, <1>3, <1>4, StoreFacts
<1> QED
  BY <1>1, <1>2, <1>5

\* Whoever has the file open that a publisher opens.
Opened(p) ==
  {q \in Publisher : Writing(q, run[p].current.package, run[p].current.version)}

\* LocalBackend::publish truncates first.
LEMMA CreateWrites ==
  ASSUME Form, NEW p \in Publisher, PlanInv(p), OwnInv(p), CreateLocal(p)
  PROVE  /\ backend = "local" /\ run[p].pc = "publish" /\ backend' = backend
         /\ Noticed(p)
         /\ run'[p].touched
              = run[p].touched \cup IF Opened(p) # {} THEN {run[p].current.package} ELSE {}
         /\ \E trusted \in BOOLEAN :
              /\ trusted => Trusted(run[p])
              /\ Wrote(p, Broken, trusted)
<1> DEFINE n == run[p].current.package
           touched == run[p].touched \cup IF Opened(p) # {} THEN {n} ELSE {}
           next == [run[p] EXCEPT !.pc = "copy", !.touched = touched]
<1>1. backend = "local" /\ run[p].pc = "publish" /\ backend' = backend
  BY DEF CreateLocal
<1>2. PICK trusted \in BOOLEAN :
        /\ trusted => Trusted(run[p])
        /\ Store(p, Broken, trusted, next)
  <2>1. Trusted(run[p]) \in BOOLEAN
    BY DEF Trusted
  <2> QED
    BY <2>1, Zenon DEF CreateLocal, Opened, Writing
<1>3. DOMAIN next = DOMAIN Idle
  BY DEF Form
<1>4. run[p].current.package \in Package
  BY <1>1, CurrentMember
<1>5. Wrote(p, Broken, trusted) /\ Noticed(p) /\ run'[p] = next
  BY <1>2, <1>3, <1>4, StoreFacts, StoreEffect
<1>6. next.touched = touched
  BY DEF Form, Idle
<1> HIDE DEF next
<1> QED
  BY <1>1, <1>2, <1>5, <1>6

\* LocalBackend::publish writes what was built, or a mixture if two had the file open.
LEMMA CopyWrites ==
  ASSUME Form, NEW p \in Publisher, PlanInv(p), OwnInv(p), CopyLocal(p)
  PROVE  LET n == run[p].current.package
             v == run[p].current.version
         IN  /\ run[p].pc = "copy" /\ backend' = backend
             /\ Noticed(p)
             /\ \E content :
                  /\ content = run[p].data[n] \/ n \in run[p].touched
                  /\ Wrote(p, content, registry[n][v].trusted)
<1> DEFINE trusted == registry[run[p].current.package][run[p].current.version].trusted
<1>1. run[p].pc = "copy" /\ backend' = backend
  BY DEF CopyLocal
<1>2. PICK content :
        /\ \/ content = run[p].data[run[p].current.package]
           \/ run[p].current.package \in run[p].touched
        /\ Store(p, content, trusted, Published(run[p]))
  BY Zenon DEF CopyLocal
<1>3. DOMAIN Published(run[p]) = DOMAIN Idle
  BY DEF Form, Published
<1>4. run[p].current.package \in Package
  BY <1>1, CurrentMember
<1>5. Wrote(p, content, trusted) /\ Noticed(p)
  BY <1>2, <1>3, <1>4, StoreFacts
<1> QED
  BY <1>1, <1>2, <1>5

\* The other steps write nothing.
LEMMA QuietSteps ==
  ASSUME Form, NEW p \in Publisher, Start(p) \/ Step(p) \/ Fail(p),
         ~PushOci(p), ~CreateLocal(p), ~CopyLocal(p)
  PROVE  Alone(p) /\ UNCHANGED <<backend, registry>>
<1>1. Alone(p)
  <2>1. DryRun(p) => Alone(p)
    <3>1. DOMAIN Published(run[p]) = DOMAIN Idle
      BY DEF Form, Published
    <3> QED
      BY <3>1, BecomesEffect DEF DryRun
  <2> QED
    BY <2>1, StartEffect, BuildEffect, BuiltEffect, WaveEffect, ConfirmEffect,
       PreflightEffect, CompareEffect, AbortEffect DEF Step, Fail
<1>2. UNCHANGED <<backend, registry>>
  BY DEF Start, Step, Fail, Build, Built, Wave, Confirm, Preflight, Compare, DryRun
<1> QED
  BY <1>1, <1>2

\* What a publisher sees is what is there: who may be trusted has no release before him.
SeenInv(p) ==
  LET r == run[p]
  IN  r.pc \in {"compare", "publish"} /\ Trusted(r) =>
        r.current.version \notin Known(r.current.package)

\* A file that is being copied is in the registry; when it is trusted, it is Broken until
\* its only writer is ready.
CopyInv(p) ==
  LET n == run[p].current.package
      v == run[p].current.version
  IN  run[p].pc = "copy" =>
        /\ backend = "local" /\ v \in Known(n)
        /\ registry[n][v].trusted =>
             /\ registry[n][v].content = Broken /\ n \notin run[p].touched
             /\ \A q \in Publisher \ {p} : q \notin Opened(p)

\* Releases have versions.
RegistryOK ==
  \A n \in Package : /\ Known(n) \subseteq Version
                     /\ \A v \in Known(n) : registry[n][v].trusted \in BOOLEAN

\* The invariant of the registry: all that the property of kept releases rests on.
RInv ==
  /\ Form /\ Plans /\ RegistryOK
  /\ \A p \in Publisher : OwnInv(p) /\ SeenInv(p) /\ CopyInv(p)

\* A release stays, and is not trusted again once it was not.
LEMMA TrustStep ==
  ASSUME RInv, NEW p \in Publisher, Start(p) \/ Step(p) \/ Fail(p),
         NEW n \in Package, NEW v \in Known(n)
  PROVE  v \in Known(n)' /\ (registry'[n][v].trusted => registry[n][v].trusted)
<1>1. PlanInv(p) /\ OwnInv(p) /\ SeenInv(p) /\ CopyInv(p) /\ Form
  BY DEF RInv, Plans
<1>2. CASE PushOci(p) \/ CreateLocal(p)
  <2>1. PICK content, trusted :
          /\ trusted => Trusted(run[p])
          /\ Wrote(p, content, trusted)
          /\ run[p].pc = "publish"
    BY <1>1, <1>2, PushWrites, CreateWrites
  <2> QED
    BY <1>1, <2>1 DEF Wrote, SeenInv, Known
<1>3. CASE CopyLocal(p)
  <2>1. PICK content :
          /\ Wrote(p, content,
                   registry[run[p].current.package][run[p].current.version].trusted)
          /\ run[p].pc = "copy"
    BY <1>1, <1>3, CopyWrites
  <2> QED
    BY <1>1, <2>1 DEF Wrote, Known
<1>4. CASE ~PushOci(p) /\ ~CreateLocal(p) /\ ~CopyLocal(p)
  BY <1>1, <1>4, QuietSteps DEF Known
<1> QED
  BY <1>2, <1>3, <1>4

\* Releases have versions, whoever writes them.
LEMMA RegistryStep ==
  ASSUME RInv, NEW p \in Publisher, Start(p) \/ Step(p) \/ Fail(p)
  PROVE  RegistryOK'
<1>1. PlanInv(p) /\ OwnInv(p) /\ SeenInv(p) /\ CopyInv(p) /\ Form /\ RegistryOK
  BY DEF RInv, Plans
<1>2. ASSUME NEW content, NEW trusted \in BOOLEAN, Wrote(p, content, trusted),
             run[p].pc \in {"publish", "copy"}
      PROVE  RegistryOK'
  <2>1. run[p].current.version \in Version
    BY <1>1, <1>2, CurrentMember
  <2> QED
    BY <1>1, <1>2, <2>1 DEF RegistryOK, Wrote, Known
<1>3. CASE PushOci(p) \/ CreateLocal(p)
  BY <1>1, <1>2, <1>3, PushWrites, CreateWrites
<1>4. CASE CopyLocal(p)
  <2>1. registry[run[p].current.package][run[p].current.version].trusted \in BOOLEAN
    BY <1>1, <1>4, CopyWrites, CurrentMember DEF CopyInv, RegistryOK
  <2> QED
    BY <1>1, <1>2, <1>4, <2>1, CopyWrites
<1>5. CASE ~PushOci(p) /\ ~CreateLocal(p) /\ ~CopyLocal(p)
  BY <1>1, <1>5, QuietSteps DEF RegistryOK, Known
<1> QED
  BY <1>3, <1>4, <1>5

\* The step of one publisher, for another one.
LEMMA Elsewhere ==
  ASSUME RInv, NEW p \in Publisher, Start(p) \/ Step(p) \/ Fail(p),
         NEW q \in Publisher, q # p
  PROVE  /\ SameRun(q) /\ backend' = backend
         /\ \/ run'[q] = run[q] /\ registry' = registry
            \/ /\ run[p].pc \in {"publish", "copy"}
               /\ \E content, trusted : Wrote(p, content, trusted)
               /\ run'[q].unseen = IF Near(q, p)
                                   THEN run[q].unseen \cup {run[p].current.version}
                                   ELSE run[q].unseen
               /\ run'[q].touched
                    = IF Holds(q, run[p].current.package, run[p].current.version)
                      THEN run[q].touched \cup {run[p].current.package} ELSE run[q].touched
<1>1. PlanInv(p) /\ OwnInv(p) /\ Form
  BY DEF RInv, Plans
<1>2. SameRun(q)
  BY <1>1, PlanOwn DEF OthersSame
<1>3. CASE PushOci(p)
  BY <1>1, <1>2, <1>3, PushWrites DEF Noticed
<1>4. CASE CreateLocal(p)
  BY <1>1, <1>2, <1>4, CreateWrites DEF Noticed
<1>5. CASE CopyLocal(p)
  BY <1>1, <1>2, <1>5, CopyWrites DEF Noticed
<1>6. CASE ~PushOci(p) /\ ~CreateLocal(p) /\ ~CopyLocal(p)
  BY <1>1, <1>2, <1>6, QuietSteps DEF Alone
<1> QED
  BY <1>3, <1>4, <1>5, <1>6

\* What others do leaves the member that is being published as it is.
LEMMA OwnOthers ==
  ASSUME RInv, NEW p \in Publisher, Start(p) \/ Step(p) \/ Fail(p),
         NEW q \in Publisher, q # p
  PROVE  OwnInv(q)'
<1>1. PlanInv(p) /\ OwnInv(p) /\ OwnInv(q)
  BY DEF RInv, Plans
<1>2. SameRun(q)
  BY Elsewhere
<1> DEFINE n == run[p].current.package
           v == run[p].current.version
           own == Packages(run[q].settled)
                    \cup (IF run[q].pc = "copy" THEN {run[q].current.package} ELSE {})
<1>3. run'[q].unseen \subseteq Version /\ run'[q].touched \subseteq Package \cap own
  <2>1. run[p].pc \in {"publish", "copy"} => n \in Package /\ v \in Version
    BY <1>1, CurrentMember
  <2>2. \/ run'[q] = run[q]
        \/ /\ run[p].pc \in {"publish", "copy"}
           /\ run'[q].unseen \in {run[q].unseen, run[q].unseen \cup {v}}
           /\ run'[q].touched = IF Holds(q, n, v) THEN run[q].touched \cup {n}
                               ELSE run[q].touched
    BY Elsewhere
  <2>3. Holds(q, n, v) => n \in own
    BY DEF Holds, Writing, Packages
  <2>4. run[q].touched \subseteq Package \cap own /\ run[q].unseen \subseteq Version
    BY <1>1 DEF OwnInv
  <2> HIDE DEF own, n, v
  <2> QED
    BY <2>1, <2>2, <2>3, <2>4
<1>4. /\ run'[q].pc = run[q].pc /\ run'[q].lock = run[q].lock /\ run'[q].job = run[q].job
      /\ run'[q].stale = run[q].stale /\ run'[q].data = run[q].data
      /\ run'[q].ready = run[q].ready /\ run'[q].current = run[q].current
      /\ run'[q].neighbors = run[q].neighbors /\ run'[q].skipped = run[q].skipped
      /\ run'[q].settled = run[q].settled
  BY <1>2 DEF SameRun, SameBuild, SameSettled, SameMember
<1> QED
  BY <1>1, <1>3, <1>4 DEF OwnInv

\* What another one writes is unseen, so that nothing is trusted over it.
LEMMA SeenOthers ==
  ASSUME RInv, NEW p \in Publisher, Start(p) \/ Step(p) \/ Fail(p),
         NEW q \in Publisher, q # p
  PROVE  SeenInv(q)'
<1>1. PlanInv(q) /\ OwnInv(q) /\ SeenInv(q)
  BY DEF RInv, Plans
<1>2. SUFFICES ASSUME run'[q].pc \in {"compare", "publish"}, Trusted(run'[q])
               PROVE  run'[q].current.version \notin DOMAIN registry'[run'[q].current.package]
  BY DEF SeenInv, Known
<1>3. /\ SameRun(q) /\ run'[q].unseen = {}
      /\ run[q].pc \in {"compare", "publish"} /\ run'[q].current = run[q].current
      /\ run'[q].job = run[q].job
  <2>1. SameRun(q)
    BY Elsewhere
  <2> QED
    BY <1>2, <2>1 DEF Trusted, SameRun, SameMember, SameBuild
<1>4. /\ run[q].unseen = {}
      /\ Near(q, p) => registry' = registry
  <2>1. CASE registry' = registry /\ run'[q] = run[q]
    BY <1>3, <2>1
  <2>2. CASE run'[q].unseen = IF Near(q, p) THEN run[q].unseen \cup {run[p].current.version}
                              ELSE run[q].unseen
    BY <1>3, <2>2
  <2> QED
    BY <2>1, <2>2, Elsewhere
<1>5. run[q].current.version \notin DOMAIN registry[run[q].current.package]
  <2>1. Trusted(run[q])
    BY <1>2, <1>3, <1>4 DEF Trusted
  <2> QED
    BY <1>1, <1>3, <2>1 DEF SeenInv, Known
<1>6. CASE registry' = registry
  BY <1>3, <1>5, <1>6
<1>7. CASE registry' # registry
  <2>1. run[q].current.package # run[p].current.package
    BY <1>3, <1>4, <1>7 DEF Near
  <2>2. run[q].current.package \in Package
    BY <1>1, <1>3, CurrentMember
  <2>3. PICK content, trusted : Wrote(p, content, trusted)
    BY <1>7, Elsewhere
  <2>4. registry'[run[q].current.package] = registry[run[q].current.package]
    BY <2>1, <2>2, <2>3 DEF Wrote
  <2> QED
    BY <1>3, <1>5, <2>4
<1> QED
  BY <1>6, <1>7

\* A member that is being written is touched only by who writes the same version.
LEMMA UntouchedElsewhere ==
  ASSUME NEW p \in Publisher, NEW q \in Publisher, q # p, PlanInv(q), run[q].pc = "copy",
         Noticed(p),
         ~(/\ run[p].current.package = run[q].current.package
           /\ run[p].current.version = run[q].current.version)
  PROVE  run[q].current.package \notin run[q].touched
           => run[q].current.package \notin run'[q].touched
<1>1. \A m \in run[q].settled : m.package # run[q].current.package
  BY SettledMembers
<1> QED
  BY <1>1 DEF Noticed, Holds, Writing

\* What others do to a file that is being copied.
LEMMA CopyOthers ==
  ASSUME RInv, NEW p \in Publisher, Start(p) \/ Step(p) \/ Fail(p),
         NEW q \in Publisher, q # p
  PROVE  CopyInv(q)'
<1> DEFINE n == run[q].current.package
           v == run[q].current.version
<1>1. /\ PlanInv(q) /\ OwnInv(q) /\ SeenInv(q) /\ CopyInv(q) /\ Form
      /\ PlanInv(p) /\ OwnInv(p) /\ SeenInv(p) /\ CopyInv(p)
  BY DEF RInv, Plans
<1>2. SUFFICES ASSUME run'[q].pc = "copy"
               PROVE  CopyInv(q)'
  BY DEF CopyInv
<1>3. SameRun(q) /\ backend' = backend
  BY Elsewhere
<1>4. /\ run[q].pc = "copy" /\ run'[q].current = run[q].current
      /\ n \in Package /\ backend = "local" /\ v \in Known(n)
  BY <1>1, <1>2, <1>3, CurrentMember DEF SameRun, SameMember, CopyInv
<1>5. v \in Known(n)' /\ (registry'[n][v].trusted => registry[n][v].trusted)
  BY <1>4, TrustStep
<1>6. SUFFICES ASSUME registry'[n][v].trusted
               PROVE  /\ registry'[n][v].content = Broken /\ n \notin run'[q].touched
                      /\ \A o \in Publisher \ {q} : o \notin Opened(q)'
  BY <1>2, <1>3, <1>4, <1>5 DEF CopyInv
<1>7. /\ registry[n][v].content = Broken /\ n \notin run[q].touched
      /\ \A o \in Publisher \ {q} : o \notin Opened(q)
  BY <1>1, <1>4, <1>5, <1>6 DEF CopyInv
<1>8. \A o \in Publisher \ {p, q} : o \notin Opened(q)'
  BY <1>1, <1>4, <1>7, PlanOwn DEF Opened, Writing, OthersSame, SameRun, SameMember
<1>9. CASE PushOci(p)
  BY <1>1, <1>4, <1>9, PushWrites
<1>10. CASE CreateLocal(p)
  <2>1. PICK trusted :
          /\ trusted => Trusted(run[p])
          /\ Wrote(p, Broken, trusted) /\ Noticed(p)
          /\ run[p].pc = "publish" /\ run'[p].current = run[p].current
    BY <1>1, <1>10, CreateWrites, CreateEffect DEF SameMember
  <2>2. ~(run[p].current.package = n /\ run[p].current.version = v)
    BY <1>1, <1>4, <1>6, <2>1 DEF Wrote, SeenInv
  <2>3. registry'[n][v] = registry[n][v]
    BY <1>4, <2>1, <2>2 DEF Wrote
  <2>4. n \notin run'[q].touched /\ p \notin Opened(q)'
    BY <1>1, <1>4, <1>7, <2>1, <2>2, UntouchedElsewhere DEF Opened, Writing
  <2> QED
    BY <1>7, <1>8, <2>3, <2>4
<1>11. CASE CopyLocal(p)
  <2>1. PICK content :
          /\ Wrote(p, content,
                   registry[run[p].current.package][run[p].current.version].trusted)
          /\ Noticed(p) /\ run[p].pc = "copy" /\ run'[p].pc = "member"
    BY <1>1, <1>11, CopyWrites, DeliverEffect
  <2>2. ~(run[p].current.package = n /\ run[p].current.version = v)
    BY <1>7, <2>1 DEF Opened, Writing
  <2>3. registry'[n][v] = registry[n][v]
    BY <1>4, <2>1, <2>2 DEF Wrote
  <2>4. n \notin run'[q].touched /\ p \notin Opened(q)'
    BY <1>1, <1>4, <1>7, <2>1, <2>2, UntouchedElsewhere DEF Opened, Writing
  <2> QED
    BY <1>7, <1>8, <2>3, <2>4
<1>12. CASE ~PushOci(p) /\ ~CreateLocal(p) /\ ~CopyLocal(p)
  <2>1. Alone(p) /\ UNCHANGED <<backend, registry>>
    BY <1>1, <1>12, QuietSteps
  <2>2. run'[p].pc # "copy"
    <3>1. Idle.pc = "idle"
      BY DEF Idle
    <3>2. CASE Start(p)
      BY <1>1, <3>1, <3>2, StartEffect
    <3>6. CASE Fail(p) \/ DryRun(p) \/ Compare(p)
      BY <1>1, <3>1, <3>6, AbortEffect, DeliverEffect, CompareEffect DEF Fail
    <3>3. CASE Built(p) \/ Wave(p) \/ Confirm(p)
      BY <1>1, <3>3, BuiltEffect, WaveEffect, ConfirmEffect
    <3>4. CASE \E m \in run[p].plan : Build(p, m)
      BY <1>1, <3>1, <3>4, BuildEffect
    <3>5. CASE \E m \in run[p].ready : Preflight(p, m)
      BY <1>1, <3>1, <3>5, PreflightEffect
    <3> QED
      BY <1>12, <3>2, <3>3, <3>4, <3>5, <3>6 DEF Step
  <2>3. p \notin Opened(q)'
    BY <2>2 DEF Opened, Writing
  <2> QED
    BY <1>7, <1>8, <2>1, <2>3 DEF Alone
<1> QED
  BY <1>9, <1>10, <1>11, <1>12

\* The member that is being published, through each step of its publisher.
LEMMA OwnOwn ==
  ASSUME RInv, NEW p \in Publisher, Start(p) \/ Step(p) \/ Fail(p)
  PROVE  OwnInv(p)'
<1>1. PlanInv(p) /\ OwnInv(p) /\ Form
  BY DEF RInv, Plans
<1>2. CASE run'[p] = Idle
  BY <1>2 DEF OwnInv, Idle, Empty
<1>3. CASE Start(p) /\ run'[p] # Idle
  BY <1>1, <1>3, StartEffect DEF OwnInv
<1>4. CASE Built(p)
  BY <1>1, <1>4, BuiltEffect DEF OwnInv, SameBuild, SamePlan, SameSettled, SameMember
<1>5. CASE Wave(p)
  BY <1>1, <1>5, WaveEffect DEF OwnInv, SameBuild, SameSettled
<1>6. CASE Confirm(p)
  BY <1>1, <1>6, ConfirmEffect DEF OwnInv, SameBuild, SameSettled, SameMember
<1>7. ASSUME NEW m \in run[p].ready, Preflight(p, m), run'[p] # Idle
      PROVE  OwnInv(p)'
  <2>1. /\ run[p].pc = "member" /\ m \in Members(run[p].job.checkout)
        /\ m.version \in Version /\ m.package \in Package
    <3>1. run[p].pc = "member" /\ Identified(m)
      BY <1>1, <1>7, PreflightEffect
    <3>2. m \in Members(run[p].job.checkout) /\ run[p].job \in Jobs[p]
      BY <1>1, <3>1, FirstInPlan DEF PlanInv
    <3> QED
      BY <3>1, <3>2, PublishingAssumption DEF Identified
  <2>2. Neighbours(m.version, SemverSeries(m.version, Known(m.package))) \subseteq Version
    BY <2>1 DEF Neighbours, SemverSeries, RInv, RegistryOK
  <2>3. /\ SameBuild(p) /\ run'[p].current = m /\ run'[p].unseen = {}
        /\ run'[p].ready = run[p].ready \ {m}
        /\ run'[p].pc \in {"publish", "compare", "member"}
        /\ run'[p].pc = "compare" => ~run[p].job.skip_semver_check
        /\ run'[p].skipped \in {run[p].skipped, run[p].skipped \cup {m.package}}
        /\ run'[p].settled \in {run[p].settled, run[p].settled \cup {m}}
        /\ run'[p].touched = run[p].touched
    BY <1>1, <1>7, PreflightEffect DEF SameSettled
  <2>4. run'[p].neighbors \subseteq Version
    <3>1. run'[p].neighbors \in {run[p].neighbors,
            Neighbours(m.version, SemverSeries(m.version, Known(m.package)))}
      BY <1>1, <1>7, PreflightEffect
    <3> QED
      BY <1>1, <2>2, <3>1 DEF OwnInv
  <2> QED
    BY <1>1, <2>1, <2>3, <2>4, PublishingAssumption DEF OwnInv, SameBuild, Packages
<1>8. CASE Compare(p) /\ run'[p] # Idle
  BY <1>1, <1>8, CompareEffect DEF OwnInv, SameBuild, SamePlan, SameSettled
<1>9. CASE PushOci(p) \/ CopyLocal(p) \/ DryRun(p)
  BY <1>1, <1>9, DeliverEffect DEF OwnInv, SameBuild, SamePlan, SameMember, Packages
<1>10. CASE CreateLocal(p)
  <2>1. /\ run'[p].touched \subseteq run[p].touched \cup {run[p].current.package}
        /\ run[p].current.package \in Package
    BY <1>1, <1>10, CreateWrites, CurrentMember
  <2> QED
    BY <1>1, <1>10, <2>1, CreateEffect
       DEF OwnInv, SameBuild, SamePlan, SameSettled, SameMember
<1>11. ASSUME NEW m \in run[p].plan, Build(p, m), run'[p] # Idle
       PROVE  OwnInv(p)'
  BY <1>1, <1>11, BuildEffect DEF OwnInv, SamePlan, SameSettled, SameMember
<1>12. CASE Fail(p)
  BY <1>1, <1>2, <1>12, AbortEffect DEF Fail
<1> QED
  BY <1>2, <1>3, <1>4, <1>5, <1>6, <1>7, <1>8, <1>9, <1>10, <1>11, <1>12 DEF Step

\* A publisher comes to "compare", "publish" and "copy" by few steps.
LEMMA WaysIn ==
  ASSUME RInv, NEW p \in Publisher, Start(p) \/ Step(p) \/ Fail(p)
  PROVE  /\ run'[p].pc = "compare" => \E m \in run[p].ready : Preflight(p, m)
         /\ run'[p].pc = "publish" => Compare(p) \/ \E m \in run[p].ready : Preflight(p, m)
         /\ run'[p].pc = "copy" => CreateLocal(p)
         /\ run'[p].pc = "build" => Start(p) \/ \E m \in run[p].plan : Build(p, m)
<1>1. Form /\ Idle.pc = "idle"
  BY DEF RInv, Idle
<1>2. CASE Start(p)
  BY <1>1, <1>2, StartEffect
<1>3. CASE Fail(p)
  BY <1>1, <1>3, AbortEffect DEF Fail
<1>4. CASE PushOci(p) \/ CopyLocal(p) \/ DryRun(p)
  BY <1>1, <1>4, DeliverEffect
<1>5. CASE Compare(p)
  BY <1>1, <1>5, CompareEffect
<1>6. CASE CreateLocal(p)
  BY <1>1, <1>6, CreateEffect
<1>7. CASE Built(p) \/ Wave(p) \/ Confirm(p)
  BY <1>1, <1>7, BuiltEffect, WaveEffect, ConfirmEffect
<1>8. CASE \E m \in run[p].plan : Build(p, m)
  BY <1>1, <1>8, BuildEffect
<1>9. CASE \E m \in run[p].ready : Preflight(p, m)
  BY <1>1, <1>9, PreflightEffect
<1> QED
  BY <1>2, <1>3, <1>4, <1>5, <1>6, <1>7, <1>8, <1>9 DEF Step

\* What is seen, through each step of its publisher.
LEMMA SeenOwn ==
  ASSUME RInv, NEW p \in Publisher, Start(p) \/ Step(p) \/ Fail(p)
  PROVE  SeenInv(p)'
<1>1. Form /\ SeenInv(p)
  BY DEF RInv
<1>2. SUFFICES ASSUME run'[p].pc \in {"compare", "publish"}, Trusted(run'[p])
               PROVE  run'[p].current.version \notin DOMAIN registry'[run'[p].current.package]
  BY DEF SeenInv, Known
<1>3. CASE Compare(p)
  <2>1. /\ run[p].pc = "compare" /\ run'[p].job = run[p].job
        /\ run'[p].current = run[p].current /\ run'[p].unseen = run[p].unseen
    BY <1>1, <1>2, <1>3, CompareEffect DEF SameBuild, Idle
  <2>2. Trusted(run[p]) /\ registry' = registry
    BY <1>2, <1>3, <2>1 DEF Trusted, Compare
  <2> QED
    BY <1>1, <2>1, <2>2 DEF SeenInv, Known
<1>4. ASSUME NEW m \in run[p].ready, Preflight(p, m)
      PROVE  run'[p].current.version \notin DOMAIN registry'[run'[p].current.package]
  <2>1. /\ run'[p].current = m /\ run'[p].job = run[p].job
        /\ \/ run[p].job.skip_semver_check
           \/ m.version \notin SemverSeries(m.version, Known(m.package))
    BY <1>1, <1>2, <1>4, PreflightEffect DEF SameBuild, Idle
  <2>2. /\ m.version \notin SemverSeries(m.version, Known(m.package))
        /\ InSeries(m.version, m.version)
    BY <1>2, <2>1 DEF Trusted
  <2>3. registry' = registry
    BY <1>4 DEF Preflight
  <2> QED
    BY <2>1, <2>2, <2>3 DEF SemverSeries, Known
<1> QED
  BY <1>2, <1>3, <1>4, WaysIn

\* The file that is being copied, through each step of its publisher.
LEMMA CopyOwn ==
  ASSUME RInv, NEW p \in Publisher, Start(p) \/ Step(p) \/ Fail(p)
  PROVE  CopyInv(p)'
<1> DEFINE n == run[p].current.package
           v == run[p].current.version
<1>1. PlanInv(p) /\ OwnInv(p) /\ SeenInv(p) /\ Form
  BY DEF RInv, Plans
<1>2. SUFFICES ASSUME run'[p].pc = "copy"
               PROVE  CopyInv(p)'
  BY DEF CopyInv
<1>3. CreateLocal(p)
  BY <1>2, WaysIn
<1>4. PICK trusted :
        /\ trusted => Trusted(run[p])
        /\ Wrote(p, Broken, trusted)
        /\ run[p].pc = "publish" /\ run'[p].current = run[p].current
        /\ backend = "local" /\ backend' = backend
        /\ run'[p].touched
             = run[p].touched \cup IF Opened(p) # {} THEN {n} ELSE {}
  BY <1>1, <1>3, CreateWrites, CreateEffect DEF SameMember
<1>5. /\ v \in Known(n)' /\ registry'[n][v].content = Broken
      /\ registry'[n][v].trusted = trusted
  BY <1>4 DEF Wrote, Known
<1>6. ASSUME trusted
      PROVE  Opened(p) = {} /\ n \notin run'[p].touched
  <2>1. v \notin Known(n)
    BY <1>1, <1>4, <1>6 DEF SeenInv
  <2>2. \A q \in Publisher : CopyInv(q)
    BY DEF RInv
  <2>3. Opened(p) = {}
    BY <2>1, <2>2 DEF CopyInv, Opened, Writing
  <2>4. \A m \in run[p].settled : m.package # n
    BY <1>1, <1>4, SettledMembers
  <2>5. run[p].touched \subseteq Packages(run[p].settled)
    BY <1>1, <1>4 DEF OwnInv
  <2> QED
    BY <1>4, <2>3, <2>4, <2>5 DEF Packages
<1>7. \A q \in Publisher \ {p} : q \in Opened(p)' => q \in Opened(p)
  BY <1>1, <1>4, PlanOwn DEF Opened, Writing, OthersSame, SameRun, SameMember
<1> QED
  BY <1>4, <1>5, <1>6, <1>7 DEF CopyInv

\* The registry is empty in the beginning.
LEMMA RInvInit == Init => RInv
<1> SUFFICES ASSUME Init
             PROVE  RInv
  OBVIOUS
<1>1. Form /\ Plans
  BY PlansInit
<1>2. RegistryOK
  BY DEF Init, RegistryOK, Known, Empty
<1>3. \A p \in Publisher : OwnInv(p) /\ SeenInv(p) /\ CopyInv(p)
  BY DEF Init, Idle, Empty, OwnInv, SeenInv, CopyInv
<1> QED
  BY <1>1, <1>2, <1>3 DEF RInv

\* Every step keeps the invariant of the registry.
LEMMA RInvStep == RInv /\ [Next]_vars => RInv'
<1> SUFFICES ASSUME RInv, [Next]_vars
             PROVE  RInv'
  OBVIOUS
<1>1. Form' /\ Plans'
  BY FormStep, PlansStep DEF RInv
<1>2. CASE UNCHANGED vars
  BY <1>1, <1>2
     DEF RInv, vars, RegistryOK, OwnInv, SeenInv, CopyInv, Known, Trusted, Opened, Writing
<1>3. ASSUME NEW p \in Publisher, Start(p) \/ Step(p) \/ Fail(p)
      PROVE  RInv'
  BY <1>1, <1>3, RegistryStep, OwnOwn, OwnOthers, SeenOwn, SeenOthers, CopyOwn, CopyOthers
     DEF RInv
<1> QED
  BY <1>2, <1>3 DEF Next

\* A release is replaced as the property says.
LEMMA KeptStep ==
  ASSUME RInv, [Next]_vars,
         NEW n \in Package, NEW v \in Known(n),
         registry[n][v].content # Broken, registry'[n][v].content # registry[n][v].content
  PROVE  ~registry'[n][v].trusted
<1>1. CASE UNCHANGED vars
  BY <1>1 DEF vars
<1>2. ASSUME NEW p \in Publisher, Start(p) \/ Step(p) \/ Fail(p)
      PROVE  ~registry'[n][v].trusted
  <2>1. PlanInv(p) /\ OwnInv(p) /\ SeenInv(p) /\ CopyInv(p) /\ Form
    BY DEF RInv, Plans
  <2>2. CASE PushOci(p) \/ CreateLocal(p)
    <3>1. PICK content, trusted :
            /\ trusted => Trusted(run[p])
            /\ Wrote(p, content, trusted)
            /\ run[p].pc = "publish"
      BY <2>1, <2>2, PushWrites, CreateWrites
    <3> QED
      BY <2>1, <3>1 DEF Wrote, SeenInv
  <2>3. CASE CopyLocal(p)
    <3>1. PICK content :
            /\ Wrote(p, content,
                     registry[run[p].current.package][run[p].current.version].trusted)
            /\ run[p].pc = "copy"
      BY <2>1, <2>3, CopyWrites
    <3> QED
      BY <2>1, <3>1 DEF Wrote, CopyInv
  <2>4. CASE ~PushOci(p) /\ ~CreateLocal(p) /\ ~CopyLocal(p)
    BY <1>2, <2>1, <2>4, QuietSteps
  <2> QED
    BY <2>2, <2>3, <2>4
<1> QED
  BY <1>1, <1>2 DEF Next

\* A whole release is replaced only by one that was not checked, or whose publisher had not
\* seen it: the check for an existing version is made on a list that may be stale by the
\* time of the write, and SeenInv says when it is not.
THEOREM ReleasesAreKept == Spec => ReleasesKept
<1>1. RInv /\ [Next]_vars =>
        [\A n \in Package : \A v \in Known(n) :
           /\ registry[n][v].content # Broken
           /\ registry'[n][v].content # registry[n][v].content
           => ~registry'[n][v].trusted]_vars
  BY KeptStep
<1> QED
  BY <1>1, RInvInit, RInvStep, PTL DEF Spec, ReleasesKept

-----------------------------------------------------------------------------
(* Every publication is well built *)

\* What is built does not depend on other publishers.
LEMMA BuildOthers ==
  ASSUME NEW q \in Publisher, BuildInv(q), SameRun(q)
  PROVE  BuildInv(q)'
<1>1. CASE run[q].pc = "idle"
  BY <1>1 DEF BuildInv, SameRun
<1>2. CASE run[q].pc # "idle"
  BY <1>2, BuildKept DEF SameRun
<1> QED
  BY <1>1, <1>2

\* What is built, through each step of its publisher.
LEMMA BuildOwn ==
  ASSUME RInv, NEW p \in Publisher, BuildInv(p), Start(p) \/ Step(p) \/ Fail(p)
  PROVE  BuildInv(p)'
<1>1. Form /\ PlanInv(p) /\ \A n \in Package : Known(n) \subseteq Version
  BY DEF RInv, Plans, RegistryOK
<1>2. CASE run'[p] = Idle
  BY <1>2 DEF BuildInv, Idle
<1>3. CASE Start(p) /\ run'[p] # Idle
  <2>1. PICK job \in Jobs[p] :
          /\ run'[p].pc = "build" /\ run'[p].job = job /\ run'[p].lock = job.lock
          /\ run'[p].data = Empty /\ run'[p].stale = {}
    BY <1>1, <1>3, StartEffect
  <2>2. job.lock \subseteq Pin
    BY PublishingAssumption
  <2> QED
    BY <2>1, <2>2 DEF BuildInv, WellBuilt, Empty
<1>4. CASE Built(p)
  BY <1>1, <1>4, BuiltEffect, BuildKept DEF PlanInv
<1>5. CASE Wave(p) \/ Confirm(p)
  BY <1>1, <1>5, WaveEffect, ConfirmEffect, BuildKept
<1>6. CASE (Compare(p) \/ CreateLocal(p)) /\ run'[p] # Idle
  BY <1>1, <1>6, CompareEffect, CreateEffect, BuildKept
<1>7. CASE PushOci(p) \/ CopyLocal(p) \/ DryRun(p)
  BY <1>1, <1>7, DeliverEffect, BuildKept
<1>8. ASSUME NEW m \in run[p].ready, Preflight(p, m), run'[p] # Idle
      PROVE  BuildInv(p)'
  BY <1>1, <1>8, PreflightEffect, BuildKept
<1>9. ASSUME NEW m \in run[p].plan, Build(p, m), run'[p] # Idle
      PROVE  BuildInv(p)'
  BY <1>1, <1>9, BuildMember
<1>10. CASE Fail(p)
  BY <1>1, <1>2, <1>10, AbortEffect DEF Fail
<1> QED
  BY <1>2, <1>3, <1>4, <1>5, <1>6, <1>7, <1>8, <1>9, <1>10 DEF Step

\* All that is built.
Builds == \A p \in Publisher : BuildInv(p)

\* Nothing is built in the beginning.
LEMMA BuildsInit == Init => Builds
BY DEF Init, Builds, BuildInv, Idle

\* Every step keeps what is built as it should be.
LEMMA BuildsStep == RInv /\ Builds /\ [Next]_vars => Builds'
<1> SUFFICES ASSUME RInv, Builds, [Next]_vars
             PROVE  Builds'
  OBVIOUS
<1>1. CASE UNCHANGED vars
  BY <1>1 DEF Builds, BuildInv, vars
<1>2. ASSUME NEW p \in Publisher, Start(p) \/ Step(p) \/ Fail(p)
      PROVE  Builds'
  BY <1>2, BuildOwn, BuildOthers, Elsewhere DEF Builds
<1> QED
  BY <1>1, <1>2 DEF Next

\* Only the start of a publication counts.
LEMMA StepKeeps ==
  ASSUME NEW p \in Publisher, Step(p) \/ Fail(p)
  PROVE  UNCHANGED <<backend, runs>>
<1>1. CASE \E m \in run[p].plan : Build(p, m)
  BY <1>1 DEF Build
<1>2. CASE \E m \in run[p].ready : Preflight(p, m)
  BY <1>2 DEF Preflight
<1>3. CASE PushOci(p)
  BY <1>3 DEF PushOci
<1>4. CASE CreateLocal(p) \/ CopyLocal(p)
  BY <1>4 DEF CreateLocal, CopyLocal
<1>5. CASE Built(p) \/ Wave(p) \/ Confirm(p) \/ Compare(p) \/ DryRun(p) \/ Fail(p)
  BY <1>5 DEF Built, Wave, Confirm, Compare, DryRun, Fail
<1> QED
  BY <1>1, <1>2, <1>3, <1>4, <1>5 DEF Step

\* How often a publisher has published stays within the bound.
RunsOK == \A p \in Publisher : runs[p] \in 0 .. MaxRuns[p]

\* No publisher publishes more often than it may.
LEMMA RunsStep == Form /\ RunsOK /\ [Next]_vars => RunsOK'
<1> SUFFICES ASSUME Form, RunsOK, [Next]_vars
             PROVE  RunsOK'
  OBVIOUS
<1>1. CASE UNCHANGED vars
  BY <1>1 DEF RunsOK, vars
<1>2. ASSUME NEW p \in Publisher, Start(p)
      PROVE  RunsOK'
  <2>1. MaxRuns \in [Publisher -> Nat]
    BY PublishingAssumption
  <2>2. \A q \in Publisher : runs'[q] = IF q = p THEN runs[q] + 1 ELSE runs[q]
    BY <1>2 DEF Start, Form
  <2> QED
    BY <1>2, <2>1, <2>2 DEF RunsOK, Start
<1>3. ASSUME NEW p \in Publisher, Step(p) \/ Fail(p)
      PROVE  runs' = runs
  BY <1>3, StepKeeps
<1>4. ASSUME NEW p \in Publisher, Step(p) \/ Fail(p)
      PROVE  RunsOK'
  BY <1>3, <1>4 DEF RunsOK
<1> QED
  BY <1>1, <1>2, <1>4 DEF Next

\* No publication has been started in the beginning.
LEMMA RunsInit == Init => RunsOK
BY PublishingAssumption DEF Init, RunsOK

\* The kinds of registry do not change.
LEMMA BackendStep == backend \in {"local", "oci"} /\ [Next]_vars => backend' = backend
BY StepKeeps DEF Next, vars, Start

\* What is left of a wave is of the wave.
LEMMA ReadyInWave ==
  ASSUME NEW p \in Publisher, PlanInv(p), OwnInv(p)
  PROVE  run[p].ready \subseteq run[p].wave
BY DEF PlanInv, OwnInv

\* The invariants give the types.
LEMMA Typed ==
  ASSUME backend \in {"local", "oci"}, RunsOK, RInv, Builds
  PROVE  TypeOK
<1>1. ASSUME NEW p \in Publisher
      PROVE  LET r == run[p]
             IN  /\ runs[p] \in 0 .. MaxRuns[p]
                 /\ r.pc \in {"idle", "build", "wave", "member", "compare", "publish",
                              "copy", "done"}
                 /\ r.pc # "idle" => r.job \in Jobs[p]
                 /\ r.lock \subseteq Pin
                 /\ r.ready \subseteq r.wave
                 /\ r.neighbors \cup r.unseen \subseteq Version
                 /\ r.skipped \cup r.stale \cup r.touched \cup DOMAIN r.data \subseteq Package
                 /\ r.pc \in {"compare", "publish", "copy"} =>
                      r.current.package \in DOMAIN r.data
  <2>1. PlanInv(p) /\ OwnInv(p) /\ BuildInv(p)
    BY DEF RInv, Plans, Builds
  <2>2. run[p].ready \subseteq run[p].wave
    BY <2>1, ReadyInWave
  <2>3. CASE run[p].pc = "idle"
    BY <2>1, <2>2, <2>3 DEF OwnInv, RunsOK
  <2>4. CASE run[p].pc # "idle"
    <3>1. run[p].job \in Jobs[p]
      BY <2>1, <2>4 DEF PlanInv
    <3>2. DOMAIN run[p].data \subseteq Package
      BY <2>1, <2>4, <3>1, PublishingAssumption DEF BuildInv, WellBuilt, Packages
    <3>3. run[p].pc \in {"compare", "publish", "copy"} =>
            run[p].current.package \in DOMAIN run[p].data
      BY <2>1, CurrentMember DEF BuildInv, WellBuilt, Packages
    <3>4. run[p].pc \in {"idle", "build", "wave", "member", "compare", "publish", "copy",
                         "done"}
      BY <2>1, <2>4 DEF PlanInv
    <3> QED
      BY <2>1, <2>2, <2>4, <3>1, <3>2, <3>3, <3>4 DEF OwnInv, BuildInv, WellBuilt, RunsOK
  <2> QED
    BY <2>3, <2>4
<1> QED
  BY <1>1 DEF TypeOK, RInv, RegistryOK

\* The invariant that types and locks rest on.
IInv == backend \in {"local", "oci"} /\ RunsOK /\ RInv /\ Builds

\* The invariants hold in the beginning.
LEMMA InvInit == Init => IInv
BY RInvInit, RunsInit, BuildsInit DEF IInv, Init

\* Every step keeps the invariants.
LEMMA InvStep == IInv /\ [Next]_vars => IInv'
BY RInvStep, RunsStep, BuildsStep, BackendStep DEF IInv, RInv

\* The state of every publication, the registry and the counters keep their types.
THEOREM TypeCorrect == Spec => []TypeOK
<1>1. IInv => TypeOK
  BY Typed DEF IInv
<1> QED
  BY <1>1, InvInit, InvStep, PTL DEF Spec

\* What one directory's publication was built against is what its lock file said.
LEMMA BuiltAsLocked == IInv => PublishedAsLocked
<1> SUFFICES ASSUME IInv, NEW r \in Successful, Single(r.job.checkout),
                    NEW m \in Members(r.job.checkout), NEW need \in m.needs
             PROVE  [package |-> need.package, requirement |-> need.version,
                     version |-> r.data[m.package].uses[need.package].version]
                      \in r.job.lock
  BY DEF PublishedAsLocked
<1>1. PICK p \in Publisher : r = run[p] /\ run[p].pc = "done" /\ ~run[p].job.dry_run
  BY DEF Successful
<1>2. BuildInv(p) /\ m.package \in Packages(Members(run[p].job.checkout))
  BY <1>1 DEF IInv, Builds, Packages
<1> QED
  BY <1>1, <1>2 DEF BuildInv, WellBuilt

\* A publication of one directory was built from the versions that its wkg.lock pins,
\* because build_wit_dir is refused when the lock file would change.
THEOREM LockIsKept == Spec => []PublishedAsLocked
  BY BuiltAsLocked, InvInit, InvStep, PTL DEF Spec

-----------------------------------------------------------------------------
(* What is settled is in the registry *)

\* A member is in the registry, as it was built, unless it was skipped, or another
\* publisher wrote its version, too.
InRegistry(r, m) ==
  /\ m.version \in Known(m.package)
  /\ m.package \notin r.skipped \cup r.touched =>
       registry[m.package][m.version].content = r.data[m.package]

\* What a publication has settled is in the registry.
SettledInv(p) ==
  LET r == run[p]
  IN  r.pc # "idle" /\ ~r.job.dry_run => \A m \in r.settled : InRegistry(r, m)

\* With what is settled, the invariant that AllPublished and FitsTogether rest on.
SInv == RInv /\ \A p \in Publisher : SettledInv(p)

\* What is settled stays in the registry through what others do: whoever writes over it
\* touches it.
LEMMA SettledOthers ==
  ASSUME SInv, NEW p \in Publisher, Start(p) \/ Step(p) \/ Fail(p),
         NEW q \in Publisher, q # p
  PROVE  SettledInv(q)'
<1>1. RInv /\ SettledInv(q) /\ PlanInv(q)
  BY DEF SInv, RInv, Plans
<1>2. SameRun(q)
  BY <1>1, Elsewhere
<1>3. SUFFICES ASSUME run[q].pc # "idle", ~run[q].job.dry_run, NEW m \in run[q].settled
               PROVE  InRegistry(run[q], m)'
  BY <1>2 DEF SettledInv, SameRun, SameSettled, SameBuild, InRegistry, Known
<1>4. /\ InRegistry(run[q], m) /\ m.package \in Package
      /\ run'[q].skipped = run[q].skipped /\ run'[q].data = run[q].data
  BY <1>1, <1>2, <1>3, SettledMembers DEF SettledInv, SameRun, SameSettled, SameBuild
<1> DEFINE n == run[p].current.package
           v == run[p].current.version
<1>5. CASE run'[q] = run[q] /\ registry' = registry
  BY <1>4, <1>5 DEF InRegistry, Known
<1>6. ASSUME NEW content, NEW trusted, Wrote(p, content, trusted),
             run'[q].touched = IF Holds(q, n, v) THEN run[q].touched \cup {n}
                               ELSE run[q].touched
      PROVE  InRegistry(run[q], m)'
  <2>1. m.version \in Known(m.package)'
    BY <1>4, <1>6 DEF InRegistry, Wrote, Known
  <2>2. CASE m.package = n /\ m.version = v
    BY <1>6, <2>1, <2>2 DEF Holds, InRegistry
  <2>3. CASE ~(m.package = n /\ m.version = v)
    <3>1. registry'[m.package][m.version] = registry[m.package][m.version]
      BY <1>4, <1>6, <2>3 DEF InRegistry, Wrote
    <3> QED
      BY <1>4, <1>6, <2>1, <3>1 DEF InRegistry
  <2> QED
    BY <2>2, <2>3
<1> QED
  BY <1>1, <1>5, <1>6, Elsewhere

\* What is settled, through each step of its publisher.
LEMMA SettledOwn ==
  ASSUME SInv, NEW p \in Publisher, Start(p) \/ Step(p) \/ Fail(p)
  PROVE  SettledInv(p)'
<1> DEFINE n == run[p].current.package
           v == run[p].current.version
<1>1. /\ RInv /\ SettledInv(p) /\ PlanInv(p) /\ OwnInv(p) /\ CopyInv(p) /\ Form
  BY DEF SInv, RInv, Plans
<1>2. CASE run'[p] = Idle
  BY <1>2 DEF SettledInv, Idle
<1>3. CASE Start(p) /\ run'[p] # Idle
  BY <1>1, <1>3, StartEffect DEF SettledInv
<1>4. ASSUME NEW m \in run[p].plan, Build(p, m), run'[p] # Idle
      PROVE  SettledInv(p)'
  BY <1>1, <1>4, BuildEffect DEF SettledInv, PlanInv, SameSettled
<1>5. CASE /\ Built(p) \/ Wave(p) \/ Confirm(p) \/ Compare(p)
           /\ run'[p] # Idle
  <2>1. /\ SameBuild(p) /\ SameSettled(p) /\ run[p].pc # "idle"
        /\ registry' = registry /\ run'[p].touched = run[p].touched
    BY <1>1, <1>5, BuiltEffect, WaveEffect, ConfirmEffect, CompareEffect
       DEF Built, Wave, Confirm, Compare
  <2> QED
    BY <1>1, <2>1 DEF SettledInv, SameBuild, SameSettled, InRegistry, Known
<1>6. ASSUME NEW m \in run[p].ready, Preflight(p, m), run'[p] # Idle
      PROVE  SettledInv(p)'
  <2>1. /\ SameBuild(p) /\ run[p].pc # "idle" /\ registry' = registry
        /\ run'[p].touched = run[p].touched
        /\ \/ SameSettled(p)
           \/ /\ m.version \in SemverSeries(m.version, Known(m.package))
              /\ run'[p].settled = run[p].settled \cup {m}
              /\ run'[p].skipped = run[p].skipped \cup {m.package}
    BY <1>1, <1>6, PreflightEffect DEF Preflight
  <2> QED
    BY <1>1, <2>1
       DEF SettledInv, SameBuild, SameSettled, InRegistry, Known, SemverSeries
<1>7. CASE CreateLocal(p)
  <2>1. PICK trusted : /\ Wrote(p, Broken, trusted) /\ run[p].pc = "publish"
                       /\ SameBuild(p) /\ SameSettled(p)
                       /\ run[p].touched \subseteq run'[p].touched
    BY <1>1, <1>7, CreateWrites, CreateEffect
  <2>2. \A m \in run[p].settled : m.package \in Package /\ m.package # n
    BY <1>1, <2>1, SettledMembers
  <2> QED
    BY <1>1, <2>1, <2>2 DEF SettledInv, SameBuild, SameSettled, InRegistry, Known, Wrote
<1>8. CASE PushOci(p) \/ CopyLocal(p)
  <2>1. PICK content, trusted :
          /\ Wrote(p, content, trusted) /\ run[p].pc \in {"publish", "copy"}
          /\ n \notin run[p].touched => content = run[p].data[n]
    <3>1. CASE PushOci(p)
      BY <1>1, <3>1, PushWrites
    <3>2. CASE CopyLocal(p)
      BY <1>1, <3>2, CopyWrites
    <3> QED
      BY <1>8, <3>1, <3>2
  <2>2. /\ SameBuild(p) /\ run'[p].settled = run[p].settled \cup {run[p].current}
        /\ run'[p].skipped = run[p].skipped /\ run'[p].touched = run[p].touched
    BY <1>1, <1>8, DeliverEffect
  <2>3. \A m \in run[p].settled : m.package \in Package /\ m.package # n
    BY <1>1, <2>1, SettledMembers
  <2>4. /\ v \in DOMAIN registry'[n]
        /\ n \notin run[p].touched => registry'[n][v].content = run[p].data[n]
    BY <2>1 DEF Wrote
  <2>5. ASSUME NEW m \in run[p].settled, ~run[p].job.dry_run
        PROVE  /\ m.version \in DOMAIN registry'[m.package]
               /\ m.package \notin run[p].skipped \cup run[p].touched =>
                    registry'[m.package][m.version].content = run[p].data[m.package]
    BY <1>1, <2>1, <2>3, <2>5 DEF SettledInv, InRegistry, Known, Wrote
  <2> QED
    BY <2>2, <2>4, <2>5 DEF SettledInv, SameBuild, InRegistry, Known
<1>9. CASE DryRun(p)
  <2>1. run[p].job.dry_run /\ run'[p].job = run[p].job
    BY <1>1, <1>9, DeliverEffect DEF DryRun, SameBuild
  <2> QED
    BY <2>1 DEF SettledInv
<1>10. CASE Fail(p)
  BY <1>1, <1>2, <1>10, AbortEffect DEF Fail
<1> QED
  BY <1>2, <1>3, <1>4, <1>5, <1>6, <1>7, <1>8, <1>9, <1>10 DEF Step

\* Nothing is settled in the beginning.
LEMMA SInvInit == Init => SInv
<1> SUFFICES ASSUME Init
             PROVE  SInv
  OBVIOUS
<1>1. \A p \in Publisher : SettledInv(p)
  BY DEF Init, Idle, SettledInv
<1> QED
  BY <1>1, RInvInit DEF SInv

\* Every step keeps what is settled in the registry.
LEMMA SInvStep == SInv /\ [Next]_vars => SInv'
<1> SUFFICES ASSUME SInv, [Next]_vars
             PROVE  SInv'
  OBVIOUS
<1>1. RInv'
  BY RInvStep DEF SInv
<1>2. CASE UNCHANGED vars
  BY <1>1, <1>2 DEF SInv, SettledInv, InRegistry, Known, vars
<1>3. ASSUME NEW p \in Publisher, Start(p) \/ Step(p) \/ Fail(p)
      PROVE  SInv'
  BY <1>1, <1>3, SettledOwn, SettledOthers DEF SInv
<1> QED
  BY <1>2, <1>3 DEF Next

\* A publication that ended well is settled.
LEMMA DoneSettled ==
  ASSUME SInv, NEW r \in Successful
  PROVE  /\ \A m \in Members(r.job.checkout) : InRegistry(r, m)
         /\ \E p \in Publisher : r = run[p] /\ run[p].pc = "done" /\ ~run[p].job.dry_run
<1>1. PICK p \in Publisher : r = run[p] /\ run[p].pc = "done" /\ ~run[p].job.dry_run
  BY DEF Successful
<1>2. run[p].settled = Members(run[p].job.checkout) /\ SettledInv(p)
  BY <1>1 DEF SInv, RInv, Plans, PlanInv
<1> QED
  BY <1>1, <1>2 DEF SettledInv

\* What is settled when a publication ends well is everything.
LEMMA SettledIsPublished == SInv => AllPublished
BY DoneSettled DEF AllPublished, Delivered, InRegistry

\* What is settled fits what was built against it.
LEMMA Fitted == SInv /\ Builds => FitsTogether
<1> SUFFICES ASSUME SInv, Builds, NEW r \in Successful, NEW m \in Delivered(r),
                    NEW n \in Delivered(r), Needs(m, n),
                    n.package \in Siblings(r.job) \ (r.stale \cup r.touched)
             PROVE  r.data[m.package].uses[n.package]
                      = [version |-> n.version,
                         api |-> registry[n.package][n.version].content.api]
  BY DEF FitsTogether
<1>1. PICK p \in Publisher : r = run[p] /\ run[p].pc = "done"
  BY DoneSettled
<1>2. m \in Members(r.job.checkout) /\ n \in Members(r.job.checkout)
  BY DEF Delivered
<1>3. m.package \in DOMAIN r.data
  BY <1>1, <1>2 DEF Builds, BuildInv, WellBuilt, Packages
<1>4. r.data[m.package].uses[n.package]
        = [version |-> n.version, api |-> r.data[n.package].api]
  <2>1. WellBuilt(r.job, r.data, r.lock, r.stale)
    BY <1>1 DEF Builds, BuildInv
  <2>2. \A x, y \in Members(r.job.checkout) :
          Needs(x, y) /\ x.package \in DOMAIN r.data /\ y.package \in Siblings(r.job) \ r.stale
          => r.data[x.package].uses[y.package]
               = [version |-> y.version, api |-> r.data[y.package].api]
    BY <2>1 DEF WellBuilt
  <2> QED
    BY <2>2, <1>2, <1>3
<1>5. registry[n.package][n.version].content = r.data[n.package]
  BY <1>2, DoneSettled DEF Delivered, InRegistry
<1> QED
  BY <1>4, <1>5

\* A publication that ends well leaves all its members in the registry, and with the
\* content that was built, whole: checked or unchecked, release or pre-release, and whatever
\* others publish meanwhile, unless the member was skipped because its version was there, or
\* another publisher wrote that version, too, at the same time or later.
THEOREM EverythingPublished == Spec => []AllPublished
  BY SettledIsPublished, SInvInit, SInvStep, PTL DEF Spec

\* What is published together fits together: a member was built against what the registry
\* has of the members it needs, unless that one was skipped, or was written by another
\* publisher, too, at the same time or later, or came stale from the cache.
THEOREM MembersFit == Spec => []FitsTogether
<1>1. SInv /\ Builds /\ [Next]_vars => (SInv /\ Builds)'
  BY SInvStep, BuildsStep DEF SInv
<1> QED
  BY <1>1, SInvInit, BuildsInit, Fitted, PTL DEF Spec
=============================================================================
