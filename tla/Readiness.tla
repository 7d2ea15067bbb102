----------------------------- MODULE Readiness -----------------------------
(***************************************************************************)
(* What "Ready" means: the Flux resources of one instance                  *)
(* (pkg/oteloperator/flux/flux.go), the pull secret copied beside them     *)
(* (pkg/oteloperator/secret/secret.go), the status functions that read     *)
(* them back, and the phase the reconciler makes of the answers.           *)
(*                                                                         *)
(* A pass writes the objects one by one and reads the status each object   *)
(* has at that moment, while Flux fetches the chart and installs it.  The  *)
(* deletion of the instance is in OtelOperatorReconciler.                  *)
(***************************************************************************)
EXTENDS Naturals, Sequences

CONSTANTS
    Tags, Values,    \* versions of the chart; helm values
    Contents,        \* contents of the pull secret on the platform
    None,            \* absent
    InstallRetries,  \* retries of a failed installation
    MaxEdits,        \* bound: changes of the settings and of the secret
    MaxFaults,       \* bound: failed calls and deletions by third parties
    MaxTogether      \* bound: changes, failed calls and deletions

(* The values of the CRD release do not depend on the settings.            *)
CRDsOnly == "crds only"

Specs == Tags \cup Values \cup Contents \cup {CRDsOnly, None}

ASSUME ReadinessAssumption ==
    /\ InstallRetries \in Nat /\ MaxEdits \in Nat /\ MaxFaults \in Nat
    /\ MaxTogether \in Nat
    /\ None \notin Tags \cup Values \cup Contents \cup {CRDsOnly}
    /\ None \notin Specs \X Specs

Releases == {"crds", "workload"}
Flux == {"repository"} \cup Releases
Objects == {"secret"} \cup Flux

VARIABLES
    want,       \* the settings: tag of the chart, helm values
    source,     \* content of the pull secret to copy, or None
    object,     \* per object its spec (or data), None when it is absent; what
                \* Flux last said of it and for which spec; its effect: the
                \* chart fetched, or the <<chart, values>> installed
    settings,   \* those the pass has read when it started, None between passes
    pos,        \* the next object of the pass, 0 between passes
    reports,    \* the phases this pass has read so far
    failed,     \* has a call of this pass failed?
    disturbed,  \* was an object deleted by a third party during this pass?
    phase,      \* of the instance
    edits, faults

pass == <<settings, pos, reports, failed>>
vars == <<want, source, object, pass, disturbed, phase, edits, faults>>

Absent ==
    [spec |-> None, ready |-> FALSE, observed |-> None, terminating |-> FALSE,
     effect |-> None, failures |-> 0]

Exists(o) == object[o].spec # None

Init ==
    /\ want \in [tag : Tags, values : Values] /\ source \in Contents
    /\ object = [o \in Objects |-> Absent]
    /\ settings = None /\ pos = 0 /\ reports = <<>> /\ failed = FALSE /\ disturbed = FALSE
    /\ phase = "Progressing"
    /\ edits = 0 /\ faults = 0

Fault == faults < MaxFaults /\ edits + faults < MaxTogether /\ faults' = faults + 1

-----------------------------------------------------------------------------
(* The pass *)

Order == <<"secret", "repository", "crds", "workload">>

Wanted(o) ==
    CASE o = "secret" -> source
      [] o = "repository" -> settings.tag
      [] o = "crds" -> CRDsOnly
      [] o = "workload" -> settings.values

(* Mutant: objects are only written when they are created.                 *)
WrittenOnce(o) ==
    IF Exists(o) THEN object[o] ELSE [object[o] EXCEPT !.spec = Wanted(o)]

(* An existing object keeps its status; a terminating one is written, too. *)
Written(o) == [object[o] EXCEPT !.spec = Wanted(o)]

(* Mutant: what has no Ready condition yet counts as ready.                *)
FluxStatusOrReady(is) ==
    CASE is.terminating -> "Terminating"
      [] ~is.terminating /\ (is.ready \/ is.observed = None) -> "Ready"
      [] OTHER -> "Pending"

(* A Flux object is ready when its Ready condition is true, whichever      *)
(* generation that condition is of.                                        *)
FluxStatus(is) ==
    CASE is.terminating -> "Terminating"
      [] ~is.terminating /\ is.ready -> "Ready"
      [] OTHER -> "Pending"

(* A secret is ready when it exists.                                       *)
SecretStatus(is) ==
    CASE is.terminating -> "Terminating"
      [] ~is.terminating /\ is.spec # None -> "Ready"
      [] OTHER -> "Pending"

Status(o, is) == IF o \in Flux THEN FluxStatus(is) ELSE SecretStatus(is)

(* Mutant: the reports of a pass are left to the next one.                 *)
ForgetAllButReports ==
    /\ pos' = 0 /\ settings' = None
    /\ failed' = FALSE /\ disturbed' = FALSE
    /\ UNCHANGED reports

(* What the pass has read is forgotten.                                    *)
Forget ==
    /\ pos' = 0 /\ settings' = None
    /\ reports' = <<>> /\ failed' = FALSE /\ disturbed' = FALSE

(* The settings of the whole pass are read when it starts.                 *)
StartPass ==
    /\ pos = 0
    /\ settings' = want /\ pos' = 1 /\ disturbed' = FALSE
    /\ UNCHANGED <<want, source, object, reports, failed, phase, edits, faults>>

Reports(o, is) == reports' = Append(reports, Status(o, is)) /\ pos' = pos + 1

ApplyObject ==
    /\ pos \in 1 .. Len(Order)
    /\ LET o == Order[pos] IN
        /\ Wanted(o) # None
        /\ object' = [object EXCEPT ![o] = Written(o)]
        /\ Reports(o, Written(o))
    /\ UNCHANGED <<want, source, settings, failed, disturbed, phase, edits, faults>>

(* Mutant: a missing pull secret ends the pass.                            *)
StopAtMissingSecret ==
    /\ pos \in 1 .. Len(Order) /\ Wanted(Order[pos]) = None
    /\ phase' = "Progressing"
    /\ Forget
    /\ UNCHANGED <<want, source, object, edits, faults>>

(* The secret to copy is missing, or a call fails: the object stays as it  *)
(* is, and the pass goes on with the next one.  What it reports is that of *)
(* the object it got, or of an empty one.                                  *)
ApplyFails ==
    /\ pos \in 1 .. Len(Order)
    /\ LET o == Order[pos] IN
        /\ \/ Wanted(o) = None /\ UNCHANGED faults
           \/ Fault
        /\ \E is \in {object[o], Absent} : Reports(o, is)
    /\ failed' = TRUE
    /\ UNCHANGED <<want, source, settings, object, disturbed, phase, edits>>

AllResourcesReady == \A i \in DOMAIN reports : reports[i] = "Ready"

EndPass ==
    /\ pos > Len(Order)
    /\ phase' = IF ~failed /\ AllResourcesReady THEN "Ready" ELSE "Progressing"
    /\ Forget
    /\ UNCHANGED <<want, source, object, edits, faults>>

-----------------------------------------------------------------------------
(* Flux *)

(* Mutant: the workload release is written without spec.dependsOn.         *)
DependsOnNothing(r) == {}

DependsOn(r) == IF r = "workload" THEN {"crds"} ELSE {}

Running(o) == Exists(o) /\ ~object[o].terminating

Becomes(o, ready, observed, effect, failures) ==
    object' = [object EXCEPT ![o] =
        [@ EXCEPT !.ready = ready, !.observed = observed,
                  !.effect = effect, !.failures = failures]]

flux == <<want, source, pass, disturbed, phase, edits>>

Fetched == LET repo == object["repository"] IN repo.ready /\ repo.observed = repo.spec

RepositoryFetches ==
    /\ Running("repository") /\ Exists("secret") /\ ~Fetched
    /\ LET tag == object["repository"].spec IN Becomes("repository", TRUE, tag, tag, 0)
    /\ UNCHANGED <<flux, faults>>

(* The chart that was fetched last stays.                                  *)
FetchFails ==
    LET repo == object["repository"] IN Becomes("repository", FALSE, repo.spec, repo.effect, 0)

RepositoryFails == Running("repository") /\ Fault /\ FetchFails /\ UNCHANGED flux

RepositoryMisses ==
    /\ Running("repository") /\ ~Exists("secret")
    /\ FetchFails
    /\ UNCHANGED <<flux, faults>>

Config(r) == <<object["repository"].effect, object[r].spec>>

Runnable(r) == Running("repository") /\ Fetched /\ \A d \in DependsOn(r) : object[d].ready

(* Retries are configured for installations only; when there are none left *)
(* a release stays as it is until its configuration changes.               *)
Retries(r) == IF object[r].effect = None THEN InstallRetries ELSE 0
Stalled(r) == object[r].observed = Config(r) /\ object[r].failures > Retries(r)

ReleaseInstalls(r) ==
    /\ Running(r) /\ Runnable(r) /\ ~Stalled(r)
    /\ ~(object[r].ready /\ object[r].effect = Config(r))
    /\ Becomes(r, TRUE, Config(r), Config(r), 0)
    /\ UNCHANGED <<flux, faults>>

ReleaseFails(r) ==
    /\ Running(r) /\ Runnable(r) /\ ~Stalled(r) /\ object[r].effect # Config(r) /\ Fault
    /\ Becomes(r, FALSE, Config(r), object[r].effect,
               IF object[r].observed = Config(r) THEN object[r].failures + 1 ELSE 1)
    /\ UNCHANGED flux

(* The chart or a release it depends on is not ready.                      *)
ReleaseWaits(r) ==
    /\ Running(r) /\ ~Runnable(r) /\ object[r].ready
    /\ Becomes(r, FALSE, object[r].observed, object[r].effect, object[r].failures)
    /\ UNCHANGED <<flux, faults>>

(* The finalizer of Flux: a release is uninstalled before it goes.         *)
Finalize(o) ==
    /\ object[o].terminating
    /\ object' = [object EXCEPT ![o] = Absent]
    /\ UNCHANGED <<flux, faults>>

-----------------------------------------------------------------------------
(* The environment *)

Edit == edits < MaxEdits /\ edits + faults < MaxTogether /\ edits' = edits + 1

ChangeSettings ==
    /\ Edit /\ want' \in [tag : Tags, values : Values] \ {want}
    /\ UNCHANGED <<source, object, pass, disturbed, phase, faults>>

(* The pull secret is rotated, removed or put back.                        *)
ChangeSource ==
    /\ Edit /\ source' \in (Contents \cup {None}) \ {source}
    /\ UNCHANGED <<want, object, pass, disturbed, phase, faults>>

Deletion(o) ==
    /\ Running(o) /\ Fault
    /\ object' = [object EXCEPT ![o] =
        IF o \in Flux THEN [@ EXCEPT !.terminating = TRUE] ELSE Absent]
    /\ disturbed' = TRUE
    /\ UNCHANGED <<want, source, pass, phase, edits>>

-----------------------------------------------------------------------------

Pass == StartPass \/ ApplyObject \/ ApplyFails \/ EndPass

Next ==
    \/ Pass \/ RepositoryFetches \/ RepositoryFails \/ RepositoryMisses
    \/ \E r \in Releases : ReleaseInstalls(r) \/ ReleaseFails(r) \/ ReleaseWaits(r)
    \/ \E o \in Flux : Finalize(o)
    \/ \E o \in Objects : Deletion(o)
    \/ ChangeSettings \/ ChangeSource

Spec == Init /\ [][Next]_vars

(* Passes are repeated, and the controllers of Flux go on.                 *)
FairSpec ==
    /\ Spec
    /\ WF_vars(Pass) /\ WF_vars(RepositoryFetches) /\ WF_vars(RepositoryMisses)
    /\ \A r \in Releases : WF_vars(ReleaseInstalls(r)) /\ WF_vars(ReleaseWaits(r))
    /\ \A o \in Flux : WF_vars(Finalize(o))

-----------------------------------------------------------------------------
(* Properties *)

Phases == {"Terminating", "Pending", "Ready"}

ReadinessTypeOK ==
    /\ want \in [tag : Tags, values : Values] /\ source \in Contents \cup {None}
    /\ DOMAIN object = Objects
    /\ \A o \in Objects :
        /\ object[o].ready \in BOOLEAN /\ object[o].terminating \in BOOLEAN
        /\ object[o].failures \in Nat
    /\ pos \in 0 .. Len(Order) + 1 /\ (pos > 0 => Len(reports) = pos - 1)
    /\ \A i \in DOMAIN reports : reports[i] \in Phases
    /\ phase \in {"Progressing", "Ready"}
    /\ edits \in 0 .. MaxEdits /\ faults \in 0 .. MaxFaults

(* A pass that reports Ready although it read the objects one after the    *)
(* other, and Flux went on meanwhile, finds both releases installed when   *)
(* it ends, unless a third party deleted an object during that very pass.  *)
ReadyMeansInstalled ==
    [][EndPass /\ phase' = "Ready" /\ ~disturbed
        => \A r \in Releases : object[r].effect # None]_vars

(* The operator's release is never installed or upgraded while the CRDs    *)
(* are not installed, whatever fails, is deleted and comes back.           *)
OperatorAfterCRDs ==
    [][object'["workload"].effect # object["workload"].effect /\ object'["workload"].effect # None
        => object["crds"].effect # None]_vars

Current ==
    /\ object["secret"].spec = source
    /\ object["crds"].effect = <<want.tag, Wanted("crds")>>
    /\ object["workload"].effect = <<want.tag, want.values>>

(* The instance comes to rest: with the settings installed and the secret  *)
(* copied it is Ready, and it stays Progressing only if the secret to copy *)
(* is missing or Flux has given a release up.                              *)
Settles ==
    \/ <>[](phase = "Ready" /\ Current)
    \/ <>[](phase = "Progressing" /\ (source = None \/ \E r \in Releases : Stalled(r)))

(* A pull secret that is gone holds up neither the change of a setting nor *)
(* the return of an object that was deleted, as long as its copy is there. *)
RolloutGoesOn ==
    <>[](Exists("secret") /\ \A r \in Releases : ~Stalled(r))
        => <>[](object["workload"].effect = <<want.tag, want.values>>)

(* "set the service instance to `Ready` when all managed resources are     *)
(* ready": a pass that reports Ready has found its settings installed.     *)
ReadyMeansCurrent ==
    [][EndPass /\ phase' = "Ready" /\ ~disturbed
        => object["workload"].effect = <<settings.tag, settings.values>>]_vars

=============================================================================
