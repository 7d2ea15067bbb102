-------------------------- MODULE Readiness_proofs --------------------------
(***************************************************************************)
(* What the phase of an instance promises, for every number of versions,   *)
(* values, edits and faults: a Ready reported by an undisturbed pass means *)
(* both releases are installed, and the operator follows the CRDs.         *)
(*                                                                         *)
(* The first is about one step, but it needs the whole pass: what a pass   *)
(* has read (reports) is older than what is there when it ends.  Reported  *)
(* relates the two.                                                        *)
(***************************************************************************)
EXTENDS Readiness, TLAPS

Records ==
    [spec : Specs, ready : BOOLEAN, observed : Specs \cup (Specs \X Specs),
     terminating : BOOLEAN, effect : Specs \cup (Specs \X Specs), failures : Nat]

Typed ==
    /\ object \in [Objects -> Records]
    /\ want \in [tag : Tags, values : Values]
    /\ source \in Contents \cup {None}
    /\ pos \in 0 .. 5 /\ reports \in Seq(Phases)
    /\ pos = 0 => reports = <<>>
    /\ pos > 0 => Len(reports) = pos - 1 /\ settings \in [tag : Tags, values : Values]

(* The Ready condition of a release is true only once it is installed.     *)
ReadyReleases == \A r \in Releases : object[r].ready => object[r].effect # None

Stays(r) == ~object[r].terminating /\ object[r].effect # None

(* A release this pass has read as ready is still installed.               *)
Reported ==
    pos > 0 /\ ~disturbed =>
        /\ Len(reports) > 2 /\ reports[3] = "Ready" => Stays("crds")
        /\ Len(reports) > 3 /\ reports[4] = "Ready" => Stays("workload")

ChartTyped == object["repository"].effect \in Specs

IInv == Typed /\ ChartTyped /\ ReadyReleases /\ Reported

-----------------------------------------------------------------------------
(* Steps on the objects *)

LEMMA AbsentTyped == Absent \in Records /\ Absent.spec = None /\ ~Absent.ready
                     /\ Absent.effect = None
BY DEF Absent, Records, Specs

(* The part of an object step that the invariant is about.                 *)
ObjectStep ==
    /\ object' \in [Objects -> Records] /\ ChartTyped'
    /\ \A r \in Releases :
        /\ object'[r].ready => object'[r].effect # None
        /\ Stays(r) => Stays(r)' \/ disturbed'

LEMMA WantedTyped ==
    ASSUME Typed, pos > 0, NEW o \in Objects PROVE Wanted(o) \in Specs
<1>1. o \in {"secret", "repository", "crds", "workload"}
  BY DEF Objects, Flux, Releases
<1> QED BY <1>1 DEF Typed, Wanted, Specs

LEMMA WrittenTyped ==
    ASSUME Typed, pos > 0, NEW o \in Objects
    PROVE  /\ Written(o) \in Records
           /\ Written(o).ready = object[o].ready
           /\ Written(o).terminating = object[o].terminating
           /\ Written(o).effect = object[o].effect
<1>1. object[o] \in Records /\ Wanted(o) \in Specs
  BY WantedTyped DEF Typed
<1> QED BY <1>1 DEF Written, Records

LEMMA OrderIn == ASSUME NEW i \in 1 .. Len(Order) PROVE Order[i] \in Objects
BY DEF Order, Objects, Flux, Releases

LEMMA ApplyObjectStep ==
    ASSUME IInv, ApplyObject PROVE ObjectStep
<1> DEFINE o == Order[pos]
<1>1. o \in Objects BY OrderIn DEF ApplyObject
<1>2. object' = [object EXCEPT ![o] = Written(o)] BY DEF ApplyObject
<1>3. object \in [Objects -> Records] /\ Releases \subseteq Objects /\ "repository" \in Objects
      /\ pos > 0
  BY DEF IInv, Typed, Objects, Flux, ApplyObject
<1> HIDE DEF o
<1>4. /\ Written(o) \in Records
      /\ Written(o).ready = object[o].ready
      /\ Written(o).terminating = object[o].terminating
      /\ Written(o).effect = object[o].effect
  BY <1>1, <1>3, WrittenTyped DEF IInv
<1> QED BY <1>1, <1>2, <1>3, <1>4 DEF IInv, ChartTyped, ReadyReleases, ObjectStep, Stays

LEMMA BecomesStep ==
    ASSUME IInv, NEW o \in Objects, NEW ready \in BOOLEAN,
           NEW observed \in Specs \cup (Specs \X Specs),
           NEW effect \in Specs \cup (Specs \X Specs), NEW failures \in Nat,
           Becomes(o, ready, observed, effect, failures),
           o \in Releases => \/ effect # None
                             \/ ~ready /\ effect = object[o].effect,
           o = "repository" => effect \in Specs
    PROVE  ObjectStep
<1> DEFINE to == [object[o] EXCEPT !.ready = ready, !.observed = observed,
                                   !.effect = effect, !.failures = failures]
<1>1. object \in [Objects -> Records] /\ Releases \subseteq Objects /\ "repository" \in Objects
  BY DEF IInv, Typed, Objects, Flux
<1>2. /\ to \in Records
      /\ to.ready = ready /\ to.effect = effect
      /\ to.terminating = object[o].terminating
  <2>1. object[o] \in Records BY <1>1
  <2> QED BY <2>1 DEF Records
<1>3. object' = [object EXCEPT ![o] = to] BY DEF Becomes
<1> HIDE DEF to
<1> QED BY <1>1, <1>2, <1>3 DEF IInv, ChartTyped, ReadyReleases, ObjectStep, Stays

LEMMA EffectTyped ==
    ASSUME IInv, NEW o \in Objects
    PROVE  /\ object[o].spec \in Specs /\ object[o].observed \in Specs \cup (Specs \X Specs)
           /\ object[o].effect \in Specs \cup (Specs \X Specs) /\ object[o].failures \in Nat
BY DEF IInv, Typed, Records

LEMMA ConfigTyped ==
    ASSUME IInv, NEW r \in Releases
    PROVE  Config(r) \in Specs \X Specs /\ Config(r) # None
<1>1. r \in Objects BY DEF Objects, Flux
<1>2. object[r].spec \in Specs BY <1>1, EffectTyped
<1>3. Config(r) \in Specs \X Specs BY <1>2 DEF Config, IInv, ChartTyped
<1> QED BY <1>3, ReadinessAssumption

LEMMA FetchesStep ==
    ASSUME IInv, RepositoryFetches PROVE ObjectStep
<1> DEFINE tag == object["repository"].spec
<1>1. "repository" \in Objects /\ "repository" \notin Releases
  BY DEF Objects, Flux, Releases
<1>2. tag \in Specs BY <1>1, EffectTyped
<1>3. Becomes("repository", TRUE, tag, tag, 0) BY DEF RepositoryFetches
<1> HIDE DEF tag
<1> QED BY <1>1, <1>2, <1>3, BecomesStep

LEMMA FetchFailsStep ==
    ASSUME IInv, FetchFails PROVE ObjectStep
<1> DEFINE spec == object["repository"].spec
           effect == object["repository"].effect
<1>1. "repository" \in Objects /\ "repository" \notin Releases
  BY DEF Objects, Flux, Releases
<1>2. spec \in Specs /\ effect \in Specs
  BY <1>1, EffectTyped DEF IInv, ChartTyped
<1>3. Becomes("repository", FALSE, spec, effect, 0) BY DEF FetchFails
<1> HIDE DEF spec, effect
<1> QED BY <1>1, <1>2, <1>3, BecomesStep

LEMMA ReleaseStep ==
    ASSUME IInv, NEW r \in Releases, ReleaseInstalls(r) \/ ReleaseFails(r) \/ ReleaseWaits(r)
    PROVE  ObjectStep
<1> DEFINE config == Config(r)
           effect == object[r].effect
           failures == object[r].failures
           observed == object[r].observed
           more == IF observed = config THEN failures + 1 ELSE 1
<1>1. r \in Objects /\ r # "repository" BY DEF Objects, Flux, Releases
<1>2. config \in Specs \X Specs /\ config # None BY ConfigTyped
<1>3. /\ observed \in Specs \cup (Specs \X Specs) /\ effect \in Specs \cup (Specs \X Specs)
      /\ failures \in Nat
  BY <1>1, EffectTyped
<1>4. more \in Nat BY <1>3
<1>5. CASE ReleaseInstalls(r)
  <2>1. Becomes(r, TRUE, config, config, 0) BY <1>5 DEF ReleaseInstalls
  <2> HIDE DEF config
  <2> QED BY <2>1, <1>1, <1>2, BecomesStep
<1>6. CASE ReleaseFails(r)
  <2>1. Becomes(r, FALSE, config, effect, more) BY <1>6 DEF ReleaseFails
  <2>2. effect = object[r].effect OBVIOUS
  <2> HIDE DEF config, effect, more
  <2> QED BY <2>1, <2>2, <1>1, <1>2, <1>3, <1>4, BecomesStep
<1>7. CASE ReleaseWaits(r)
  <2>1. Becomes(r, FALSE, observed, effect, failures) BY <1>7 DEF ReleaseWaits
  <2>2. effect = object[r].effect OBVIOUS
  <2> HIDE DEF observed, effect, failures
  <2> QED BY <2>1, <2>2, <1>1, <1>3, BecomesStep
<1> QED BY <1>5, <1>6, <1>7

(* Whatever was read as ready is not terminating.                          *)
LEMMA FinalizeStep ==
    ASSUME IInv, NEW o \in Flux, Finalize(o) PROVE ObjectStep
<1>1. object' = [object EXCEPT ![o] = Absent] /\ object[o].terminating BY DEF Finalize
<1>2. o \in Objects /\ Releases \subseteq Objects /\ "repository" \in Objects
  BY DEF Objects, Flux
<1>3. object \in [Objects -> Records] BY DEF IInv, Typed
<1>4. Absent.effect \in Specs BY AbsentTyped DEF Specs
<1> QED BY <1>1, <1>2, <1>3, <1>4, AbsentTyped
    DEF IInv, ChartTyped, ReadyReleases, ObjectStep, Stays

LEMMA DeletionStep ==
    ASSUME IInv, NEW o \in Objects, Deletion(o) PROVE ObjectStep
<1> DEFINE to == IF o \in Flux THEN [object[o] EXCEPT !.terminating = TRUE] ELSE Absent
<1>1. object' = [object EXCEPT ![o] = to] /\ disturbed' BY DEF Deletion
<1>2. Releases \subseteq Objects /\ "repository" \in Objects BY DEF Objects, Flux
<1>3. object \in [Objects -> Records] BY DEF IInv, Typed
<1>4. /\ to \in Records
      /\ o \in Flux => to.ready = object[o].ready /\ to.effect = object[o].effect
  <2>1. object[o] \in Records BY <1>3
  <2> QED BY <2>1, AbsentTyped DEF Records
<1>5. Releases \subseteq Flux /\ "repository" \in Flux BY DEF Flux
<1> HIDE DEF to
<1>6. object' \in [Objects -> Records] BY <1>1, <1>3, <1>4
<1>7. \A f \in Flux : object'[f].ready = object[f].ready /\ object'[f].effect = object[f].effect
  BY <1>1, <1>2, <1>3, <1>4 DEF Objects
<1> QED BY <1>1, <1>5, <1>6, <1>7 DEF IInv, ChartTyped, ReadyReleases, ObjectStep

-----------------------------------------------------------------------------
(* The invariant *)

(* The steps outside a pass leave what it has read alone.                  *)
LEMMA StayingStep ==
    ASSUME IInv, ObjectStep, UNCHANGED pass, disturbed' \in {disturbed, TRUE},
           want' \in [tag : Tags, values : Values], source' \in Contents \cup {None}
    PROVE  IInv'
<1>1. Typed' BY DEF IInv, Typed, ObjectStep, pass
<1>2. ReadyReleases' BY DEF ReadyReleases, ObjectStep
<1>3. Reported'
  <2> SUFFICES ASSUME pos' > 0, ~disturbed'
               PROVE  /\ Len(reports') > 2 /\ reports'[3] = "Ready" => Stays("crds")'
                      /\ Len(reports') > 3 /\ reports'[4] = "Ready" => Stays("workload")'
    BY DEF Reported
  <2>1. pos' = pos /\ reports' = reports BY DEF pass
  <2>2. ~disturbed OBVIOUS
  <2>3. \A r \in Releases : Stays(r) => Stays(r)' BY DEF ObjectStep
  <2> QED BY <2>1, <2>2, <2>3 DEF IInv, Reported, Releases
<1> QED BY <1>1, <1>2, <1>3 DEF IInv, ObjectStep

(* A report that reads Ready is read from an installed release.            *)
LEMMA StatusReady ==
    ASSUME NEW r \in Releases, NEW is \in Records, Status(r, is) = "Ready"
    PROVE  is.ready /\ ~is.terminating
BY DEF Status, FluxStatus, Flux

LEMMA StatusTyped ==
    ASSUME NEW o, NEW is PROVE Status(o, is) \in Phases
BY DEF Status, FluxStatus, SecretStatus, Phases

LEMMA ReportStep ==
    ASSUME IInv, ObjectStep, pos \in 1 .. Len(Order), UNCHANGED <<want, source, settings, disturbed>>,
           NEW is \in Records, Reports(Order[pos], is),
           \A r \in Releases : r = Order[pos] /\ is.ready /\ ~is.terminating => Stays(r)'
    PROVE  IInv'
<1> DEFINE status == Status(Order[pos], is)
<1>1. status \in Phases BY StatusTyped
<1>2. /\ reports' = Append(reports, status) /\ pos' = pos + 1 /\ pos \in 1 .. 4
      /\ reports \in Seq(Phases) /\ Len(reports) = pos - 1
  BY DEF Reports, IInv, Typed, Order
<1>3. pos \in {1, 2, 3, 4} /\ (pos = 3 => Order[pos] = "crds") /\ (pos = 4 => Order[pos] = "workload")
  BY <1>2 DEF Order
<1>4. \A r \in Releases : r = Order[pos] /\ status = "Ready" => Stays(r)'
  BY StatusReady
<1>5. ~disturbed => \A r \in Releases : Stays(r) => Stays(r)' BY DEF ObjectStep
<1> HIDE DEF status
<1>6. /\ reports' \in Seq(Phases) /\ Len(reports') = pos /\ pos' \in 0 .. 5
      /\ \A i \in 1 .. pos : reports'[i] = IF i = pos THEN status ELSE reports[i]
  BY <1>1, <1>2
<1>7. Typed' BY <1>2, <1>6 DEF IInv, Typed, ObjectStep
<1>8. ReadyReleases' BY DEF ReadyReleases, ObjectStep
<1>9. Reported'
  <2> SUFFICES ASSUME ~disturbed
               PROVE  /\ pos > 2 /\ reports'[3] = "Ready" => Stays("crds")'
                      /\ pos > 3 /\ reports'[4] = "Ready" => Stays("workload")'
    BY <1>6 DEF Reported
  <2>1. ASSUME pos > 2, reports'[3] = "Ready" PROVE Stays("crds")'
    <3>1. CASE pos = 3 BY <3>1, <2>1, <1>3, <1>4, <1>6 DEF Releases
    <3>2. CASE pos = 4
      <4>1. reports[3] = "Ready" /\ Len(reports) > 2 BY <3>2, <2>1, <1>2, <1>6
      <4>2. Stays("crds") BY <4>1, <3>2 DEF IInv, Reported
      <4> QED BY <4>2, <1>5 DEF Releases
    <3> QED BY <3>1, <3>2, <2>1, <1>3
  <2>2. ASSUME pos > 3, reports'[4] = "Ready" PROVE Stays("workload")'
    BY <2>2, <1>3, <1>4, <1>6 DEF Releases
  <2> QED BY <2>1, <2>2
<1> QED BY <1>7, <1>8, <1>9 DEF IInv, ObjectStep

LEMMA SameObjects ==
    ASSUME IInv, UNCHANGED object PROVE ObjectStep
BY DEF IInv, Typed, ChartTyped, ReadyReleases, ObjectStep, Stays

LEMMA PassStep ==
    ASSUME IInv, Pass PROVE IInv'
<1>1. CASE StartPass
  <2>0. <<>> \in Seq(Phases) /\ Len(<<>>) = 0 OBVIOUS
  <2>1. Typed'
    <3>1. /\ reports' \in Seq(Phases) /\ Len(reports') = 0 /\ pos' = 1 /\ ~disturbed'
          /\ settings' = want /\ UNCHANGED <<want, source, object>>
      BY <1>1, <2>0 DEF StartPass, IInv, Typed
    <3> QED BY <3>1 DEF IInv, Typed
  <2>2. ChartTyped' /\ ReadyReleases' BY <1>1 DEF StartPass, IInv, ChartTyped, ReadyReleases
  <2>3. Reported'
    <3>1. reports' = <<>> BY <1>1 DEF StartPass, IInv, Typed
    <3> QED BY <3>1, <2>0 DEF Reported
  <2> QED BY <2>1, <2>2, <2>3 DEF IInv
<1>2. CASE ApplyObject
  <2> DEFINE o == Order[pos]
  <2>1. ObjectStep BY <1>2, ApplyObjectStep
  <2>2. /\ pos \in 1 .. Len(Order) /\ Reports(o, Written(o))
        /\ UNCHANGED <<want, source, settings, disturbed>>
        /\ object' = [object EXCEPT ![o] = Written(o)]
    BY <1>2 DEF ApplyObject
  <2>3. o \in Objects BY <2>2, OrderIn
  <2> HIDE DEF o
  <2>4. Written(o) \in Records BY <2>2, <2>3, WrittenTyped DEF IInv
  <2>5. object'[o] = Written(o) BY <2>2, <2>3 DEF IInv, Typed
  <2>6. \A r \in Releases : r = o /\ Written(o).ready /\ ~Written(o).terminating => Stays(r)'
    BY <2>1, <2>5 DEF ObjectStep, Stays
  <2> QED BY <2>1, <2>2, <2>4, <2>6, ReportStep DEF o
<1>3. CASE ApplyFails
  <2> DEFINE o == Order[pos]
  <2>1. ObjectStep BY <1>3, SameObjects DEF ApplyFails
  <2>2. PICK is \in {object[o], Absent} : Reports(o, is) BY <1>3 DEF ApplyFails
  <2>3. /\ pos \in 1 .. Len(Order) /\ UNCHANGED <<want, source, settings, disturbed, object>>
    BY <1>3 DEF ApplyFails
  <2>4. o \in Objects BY <2>3, OrderIn
  <2> HIDE DEF o
  <2>5. is \in Records BY <2>2, <2>4, AbsentTyped DEF IInv, Typed
  <2>6. \A r \in Releases : r = o /\ is.ready /\ ~is.terminating => Stays(r)'
    BY <2>2, <2>3, AbsentTyped DEF IInv, ReadyReleases, Stays
  <2> QED BY <2>1, <2>2, <2>3, <2>5, <2>6, ReportStep DEF o
<1>4. CASE EndPass
  <2>0. <<>> \in Seq(Phases) OBVIOUS
  <2>1. Typed' BY <1>4, <2>0 DEF EndPass, Forget, IInv, Typed
  <2>2. ChartTyped' /\ ReadyReleases' BY <1>4 DEF EndPass, IInv, ChartTyped, ReadyReleases
  <2>3. Reported' BY <1>4 DEF EndPass, Forget, Reported
  <2> QED BY <2>1, <2>2, <2>3 DEF IInv
<1> QED BY <1>1, <1>2, <1>3, <1>4 DEF Pass

LEMMA InitInv == Init => IInv
<1> SUFFICES ASSUME Init PROVE IInv OBVIOUS
<1>1. Typed
  <2>1. <<>> \in Seq(Phases) OBVIOUS
  <2> QED BY <2>1, AbsentTyped DEF Init, Typed
<1>2. ChartTyped /\ ReadyReleases /\ Reported
  BY AbsentTyped DEF Init, ChartTyped, ReadyReleases, Reported, Releases, Objects, Flux, Specs
<1> QED BY <1>1, <1>2 DEF IInv

(* The steps of Flux and of third parties.                                 *)
LEMMA FluxStep ==
    ASSUME IInv,
           \/ RepositoryFetches \/ RepositoryFails \/ RepositoryMisses
           \/ \E r \in Releases : ReleaseInstalls(r) \/ ReleaseFails(r) \/ ReleaseWaits(r)
           \/ \E o \in Flux : Finalize(o)
    PROVE  ObjectStep /\ UNCHANGED flux
<1>1. CASE RepositoryFetches
  BY <1>1, FetchesStep DEF RepositoryFetches, flux
<1>2. CASE RepositoryFails \/ RepositoryMisses
  BY <1>2, FetchFailsStep DEF RepositoryFails, RepositoryMisses, flux
<1>3. CASE \E r \in Releases : ReleaseInstalls(r) \/ ReleaseFails(r) \/ ReleaseWaits(r)
  <2>1. PICK r \in Releases : ReleaseInstalls(r) \/ ReleaseFails(r) \/ ReleaseWaits(r) BY <1>3
  <2> QED BY <2>1, ReleaseStep DEF ReleaseInstalls, ReleaseFails, ReleaseWaits, flux
<1>4. CASE \E o \in Flux : Finalize(o)
  <2>1. PICK o \in Flux : Finalize(o) BY <1>4
  <2> QED BY <2>1, FinalizeStep DEF Finalize, flux
<1> QED BY <1>1, <1>2, <1>3, <1>4

LEMMA NextInv == IInv /\ [Next]_vars => IInv'
<1> SUFFICES ASSUME IInv, [Next]_vars PROVE IInv' OBVIOUS
<1>0. want \in [tag : Tags, values : Values] /\ source \in Contents \cup {None}
  BY DEF IInv, Typed
<1>1. CASE Pass BY <1>1, PassStep
<1>2. CASE \/ RepositoryFetches \/ RepositoryFails \/ RepositoryMisses
           \/ \E r \in Releases : ReleaseInstalls(r) \/ ReleaseFails(r) \/ ReleaseWaits(r)
           \/ \E o \in Flux : Finalize(o)
  <2>1. ObjectStep /\ UNCHANGED flux BY <1>2, FluxStep
  <2>2. UNCHANGED <<want, source, pass, disturbed>> BY <2>1 DEF flux
  <2> QED BY <2>1, <2>2, <1>0, StayingStep
<1>3. CASE \E o \in Objects : Deletion(o)
  <2>1. PICK o \in Objects : Deletion(o) BY <1>3
  <2>2. ObjectStep BY <2>1, DeletionStep
  <2>3. UNCHANGED <<want, source, pass>> /\ disturbed' = TRUE BY <2>1 DEF Deletion
  <2> QED BY <2>2, <2>3, <1>0, StayingStep
<1>4. CASE ChangeSettings
  <2>1. UNCHANGED <<source, object, pass, disturbed>> /\ want' \in [tag : Tags, values : Values]
    BY <1>4 DEF ChangeSettings
  <2> QED BY <2>1, <1>0, SameObjects, StayingStep
<1>5. CASE ChangeSource
  <2>1. UNCHANGED <<want, object, pass, disturbed>> /\ source' \in Contents \cup {None}
    BY <1>5 DEF ChangeSource
  <2> QED BY <2>1, <1>0, SameObjects, StayingStep
<1>6. CASE UNCHANGED vars
  <2>1. UNCHANGED <<want, source, object, pass, disturbed>> BY <1>6 DEF vars
  <2> QED BY <2>1, <1>0, SameObjects, StayingStep
<1> QED BY <1>1, <1>2, <1>3, <1>4, <1>5, <1>6 DEF Next

LEMMA Invariance == Spec => []IInv
<1> QED BY InitInv, NextInv, PTL DEF Spec

-----------------------------------------------------------------------------

(* The counters and the phase, which no other part depends on.             *)
Counted == phase \in {"Progressing", "Ready"} /\ edits \in 0 .. MaxEdits /\ faults \in 0 .. MaxFaults

LEMMA CountedNext == Counted /\ [Next]_vars => Counted'
<1> SUFFICES ASSUME Counted, [Next]_vars PROVE Counted' OBVIOUS
<1>1. phase' \in {phase, "Progressing", "Ready"}
  <2>1. ASSUME Pass PROVE phase' \in {phase, "Progressing", "Ready"}
    BY <2>1 DEF Pass, StartPass, ApplyObject, ApplyFails, EndPass
  <2>2. ASSUME ~Pass PROVE UNCHANGED phase
    BY <2>2 DEF Next, vars, flux, RepositoryFetches, RepositoryFails, RepositoryMisses,
        ReleaseInstalls, ReleaseFails, ReleaseWaits, Finalize, Deletion, ChangeSettings, ChangeSource
  <2> QED BY <2>1, <2>2
<1>2. UNCHANGED edits \/ Edit
  BY DEF Next, Pass, vars, flux, StartPass, ApplyObject, ApplyFails, EndPass,
      RepositoryFetches, RepositoryFails, RepositoryMisses,
      ReleaseInstalls, ReleaseFails, ReleaseWaits, Finalize, Deletion, ChangeSettings, ChangeSource
<1>3. UNCHANGED faults \/ Fault
  BY DEF Next, Pass, vars, StartPass, ApplyObject, ApplyFails, EndPass,
      RepositoryFetches, RepositoryFails, RepositoryMisses,
      ReleaseInstalls, ReleaseFails, ReleaseWaits, Finalize, Deletion, ChangeSettings, ChangeSource
<1> QED BY <1>1, <1>2, <1>3, ReadinessAssumption DEF Counted, Edit, Fault

(* Every step leaves objects, reports and counters well formed; a pass     *)
(* has read as many phases as it has visited objects.                      *)
THEOREM ReadinessTypes == Spec => []ReadinessTypeOK
<1>1. Init => Counted BY ReadinessAssumption DEF Init, Counted
<1>2. Spec => []Counted BY <1>1, CountedNext, PTL DEF Spec
<1>3. IInv /\ Counted => ReadinessTypeOK
  <2> SUFFICES ASSUME IInv, Counted PROVE ReadinessTypeOK OBVIOUS
  <2>1. Len(Order) + 1 = 5 BY DEF Order
  <2>2. DOMAIN object = Objects
        /\ \A o \in Objects : /\ object[o].ready \in BOOLEAN /\ object[o].terminating \in BOOLEAN
                              /\ object[o].failures \in Nat
    BY DEF IInv, Typed, Records
  <2>3. \A i \in DOMAIN reports : reports[i] \in Phases BY DEF IInv, Typed
  <2> QED BY <2>1, <2>2, <2>3 DEF ReadinessTypeOK, IInv, Typed, Counted
<1> QED BY <1>2, <1>3, Invariance, PTL

(* When an undisturbed pass reports Ready, both releases are installed,    *)
(* however long ago it read them.                                          *)
THEOREM ReadyIsInstalled == Spec => ReadyMeansInstalled
<1>1. IInv /\ [Next]_vars => (EndPass /\ phase' = "Ready" /\ ~disturbed
                                => \A r \in Releases : object[r].effect # None)
  <2> SUFFICES ASSUME IInv, EndPass, phase' = "Ready", ~disturbed
               PROVE  \A r \in Releases : object[r].effect # None
    OBVIOUS
  <2>1. AllResourcesReady BY DEF EndPass
  <2>2. pos = 5 /\ Len(reports) = 4 /\ reports \in Seq(Phases)
    <3>1. pos > Len(Order) BY DEF EndPass
    <3>2. Len(Order) = 4 BY DEF Order
    <3>3. pos \in 0 .. 5 /\ reports \in Seq(Phases) /\ (pos > 0 => Len(reports) = pos - 1)
      BY DEF IInv, Typed
    <3>4. pos > 4 BY <3>1, <3>2
    <3>5. pos = 5 BY <3>3, <3>4
    <3>6. Len(reports) = 5 - 1 BY <3>3, <3>5
    <3> QED BY <3>3, <3>5, <3>6
  <2>3. reports[3] = "Ready" /\ reports[4] = "Ready" BY <2>1, <2>2 DEF AllResourcesReady
  <2>4. Stays("crds") /\ Stays("workload") BY <2>2, <2>3 DEF IInv, Reported
  <2> QED BY <2>4 DEF Stays, Releases
<1> QED BY <1>1, Invariance, PTL DEF Spec, ReadyMeansInstalled

(* The release of the operator is written only by Flux, which waits for    *)
(* the CRD release to be ready, and that is ready only when installed.     *)
THEOREM OperatorFollowsCRDs == Spec => OperatorAfterCRDs
<1> DEFINE Installs ==
        object'["workload"].effect # object["workload"].effect /\ object'["workload"].effect # None
<1>1. IInv /\ [Next]_vars => (Installs => object["crds"].effect # None)
  <2> SUFFICES ASSUME IInv, [Next]_vars, Installs PROVE object["crds"].effect # None OBVIOUS
  <2>0. /\ object \in [Objects -> Records]
        /\ "workload" \in Releases /\ "workload" \in Flux /\ "workload" \in Objects
    BY DEF IInv, Typed, Objects, Flux, Releases
  <2>1. CASE ReleaseInstalls("workload")
    BY <2>1 DEF ReleaseInstalls, Runnable, DependsOn, IInv, ReadyReleases, Releases
  <2>2. ASSUME NEW o \in Objects, NEW ready, NEW observed, NEW effect, NEW failures,
               Becomes(o, ready, observed, effect, failures),
               effect = object[o].effect \/ o # "workload"
        PROVE  FALSE
    <3>1. object'["workload"].effect = object["workload"].effect
      BY <2>0, <2>2 DEF Becomes, Records
    <3> QED BY <3>1
  <2>3. ASSUME UNCHANGED object PROVE FALSE BY <2>3
  <2>4. CASE Pass
    <3>1. CASE ApplyObject
      <4> DEFINE o == Order[pos]
      <4>1. o \in Objects BY <3>1, OrderIn DEF ApplyObject
      <4>2. object' = [object EXCEPT ![o] = Written(o)] BY <3>1 DEF ApplyObject
      <4> HIDE DEF o
      <4>3. pos > 0 BY <3>1 DEF ApplyObject, IInv, Typed
      <4>4. Written(o).effect = object[o].effect BY <4>1, <4>3, WrittenTyped DEF IInv
      <4> QED BY <4>1, <4>2, <4>4, <2>0
    <3>2. CASE StartPass \/ ApplyFails \/ EndPass
      BY <3>2, <2>3 DEF StartPass, ApplyFails, EndPass
    <3> QED BY <3>1, <3>2, <2>4 DEF Pass
  <2>5. CASE RepositoryFetches \/ RepositoryFails \/ RepositoryMisses
    <3>1. "repository" \in Objects /\ "repository" # "workload" BY DEF Objects, Flux
    <3>2. PICK ready, observed, effect, failures :
            Becomes("repository", ready, observed, effect, failures)
      BY <2>5 DEF RepositoryFetches, RepositoryFails, RepositoryMisses, FetchFails
    <3> QED BY <3>1, <3>2, <2>2
  <2>6. ASSUME NEW r \in Releases,
               ReleaseInstalls(r) \/ ReleaseFails(r) \/ ReleaseWaits(r), ~ReleaseInstalls("workload")
        PROVE  FALSE
    <3>1. r \in Objects BY DEF Objects, Flux
    <3>2. PICK ready, observed, effect, failures :
            /\ Becomes(r, ready, observed, effect, failures)
            /\ effect = object[r].effect \/ r # "workload"
      BY <2>6 DEF ReleaseInstalls, ReleaseFails, ReleaseWaits
    <3> QED BY <3>1, <3>2, <2>2
  <2>7. ASSUME NEW o \in Flux, Finalize(o) PROVE FALSE
    <3>1. object'["workload"] = object["workload"] \/ object'["workload"] = Absent
      BY <2>0, <2>7 DEF Finalize, Objects
    <3> QED BY <3>1, AbsentTyped
  <2>8. ASSUME NEW o \in Objects, Deletion(o) PROVE FALSE
    <3>1. object' = [object EXCEPT ![o] =
             IF o \in Flux THEN [object[o] EXCEPT !.terminating = TRUE] ELSE Absent]
      BY <2>8 DEF Deletion
    <3>2. object'["workload"].effect = object["workload"].effect
      BY <3>1, <2>0 DEF Records
    <3> QED BY <3>2
  <2>9. CASE ChangeSettings \/ ChangeSource \/ UNCHANGED vars
    BY <2>9, <2>3 DEF ChangeSettings, ChangeSource, vars
  <2> QED BY <2>1, <2>4, <2>5, <2>6, <2>7, <2>8, <2>9 DEF Next
<1> QED BY <1>1, Invariance, PTL DEF Spec, OperatorAfterCRDs

=============================================================================
