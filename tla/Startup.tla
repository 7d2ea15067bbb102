------------------------------ MODULE Startup ------------------------------
(***************************************************************************)
(* The two commands of the provider                                        *)
(* (cmd/service-provider-otel-operator/main.go): "init", a job that        *)
(* installs CRDs and registers the kind, and "run", the controller, of     *)
(* which several replicas may exist while a Deployment rolls.              *)
(*                                                                         *)
(* The runtime starts "run" when the job has ended without an exit code,   *)
(* and starts processes again that ended with one.                         *)
(***************************************************************************)
EXTENDS Naturals

CONSTANTS
    Replicas,        \* processes of the "run" command
    CRDs, Remote,    \* the embedded CRDs; those of the onboarding cluster
    LeaderElect,     \* the flag --leader-elect
    RenewDeadline,   \* a leader that cannot renew the lease for so long ends
    LeaseDuration,   \* a lease not renewed for so long may be taken
    None,            \* nobody
    MaxVersion,      \* bound: versions of the provider released
    MaxFaults        \* bound: failed calls, crashes and stops

ASSUME StartupAssumption ==
    /\ Remote \subseteq CRDs /\ LeaderElect \in BOOLEAN
    /\ RenewDeadline \in Nat /\ LeaseDuration \in Nat
    /\ RenewDeadline < LeaseDuration
    /\ MaxVersion \in Nat /\ MaxFaults \in Nat
    /\ None \notin Replicas

VARIABLES
    version,    \* of the provider that init was last started for
    job,        \* where init stands: "access", "crds", "gvk" or "done"
    access,     \* has init got access to the onboarding cluster?
    installed,  \* the version of each CRD on its cluster, 0 if there is none
    registered, \* the version the kind is registered for at the ServiceProvider
    deployed,   \* the version "run" is started from, 0 before the first
    replica,    \* where each process stands: "down", "access", "waiting" for
                \* the lease, "active" or "stopping"
    lease,      \* holder and age of the lease
    faults

init == <<version, job, access, installed, registered>>
run == <<deployed, replica, lease>>
vars == <<init, run, faults>>

Init ==
    /\ version = 0 /\ job = "done" /\ access = FALSE
    /\ installed = [c \in CRDs |-> 0] /\ registered = 0
    /\ deployed = 0 /\ replica = [r \in Replicas |-> "down"]
    /\ lease = [holder |-> None, age |-> 0]
    /\ faults = 0

Fault == faults < MaxFaults /\ faults' = faults + 1

-----------------------------------------------------------------------------
(* The init command *)

StartInit ==
    /\ job = "done" /\ deployed = version /\ version < MaxVersion
    /\ version' = version + 1 /\ job' = "access" /\ access' = FALSE
    /\ UNCHANGED <<installed, registered, run, faults>>

InitAccess ==
    /\ job = "access"
    /\ access' = TRUE /\ job' = "crds"
    /\ UNCHANGED <<version, installed, registered, run, faults>>

(* The error is logged and the command goes on without the cluster.        *)
InitAccessFails ==
    /\ job = "access" /\ Fault
    /\ access' = FALSE /\ job' = "crds"
    /\ UNCHANGED <<version, installed, registered, run>>

Install(crds) == installed' = [c \in CRDs |-> IF c \in crds THEN version ELSE installed[c]]

InitCRDs ==
    /\ job = "crds" /\ access
    /\ Install(CRDs)
    /\ job' = "gvk"
    /\ UNCHANGED <<version, access, registered, run, faults>>

(* Some CRD fails; this error is logged only, too.                         *)
InitCRDsFails ==
    /\ job = "crds" /\ access /\ Fault
    /\ \E crds \in SUBSET CRDs : Install(crds)
    /\ job' = "gvk"
    /\ UNCHANGED <<version, access, registered, run>>

(* Mutant: without the cluster the command waits for it once more.         *)
InitHangs ==
    /\ job = "crds" /\ ~access
    /\ \E crds \in SUBSET (CRDs \ Remote) : Install(crds)
    /\ UNCHANGED <<version, job, access, registered, run, faults>>

(* The cluster that is missing is used for the first CRD that belongs to   *)
(* it: the process panics, and the job is started again.                   *)
InitPanics ==
    /\ job = "crds" /\ ~access
    /\ \E crds \in SUBSET (CRDs \ Remote) : Install(crds)
    /\ job' = "access"
    /\ UNCHANGED <<version, access, registered, run, faults>>

InitGVK ==
    /\ job = "gvk"
    /\ registered' = version /\ job' = "done"
    /\ UNCHANGED <<version, access, installed, run, faults>>

(* The command returns, without an exit code.                              *)
InitGVKFails ==
    /\ job = "gvk" /\ Fault
    /\ job' = "done"
    /\ UNCHANGED <<version, access, installed, registered, run>>

(* No platform cluster, no POD_NAMESPACE: exit code 1, and a new attempt.  *)
InitExits ==
    /\ job # "done" /\ Fault
    /\ job' = "access"
    /\ UNCHANGED <<version, access, installed, registered, run>>

(* Mutant: the next version is started before its init.                    *)
DeployNext ==
    /\ job = "done" /\ deployed' = version + 1
    /\ UNCHANGED <<init, replica, lease, faults>>

Deploy ==
    /\ job = "done" /\ deployed' = version
    /\ UNCHANGED <<init, replica, lease, faults>>

-----------------------------------------------------------------------------
(* The run command *)

Goes(r, from, to) == replica[r] = from /\ replica' = [replica EXCEPT ![r] = to]

RunStart(r) ==
    /\ deployed > 0
    /\ Goes(r, "down", "access")
    /\ UNCHANGED <<init, deployed, lease, faults>>

RunAccess(r) ==
    /\ Goes(r, "access", "waiting")
    /\ UNCHANGED <<init, deployed, lease, faults>>

(* The error is logged; the manager is then made from the missing cluster, *)
(* which panics.  Other failures on the way to Start exit with code 1.     *)
RunFails(r) ==
    /\ \/ Goes(r, "access", "down")
       \/ Goes(r, "waiting", "down")
    /\ Fault
    /\ UNCHANGED <<init, deployed, lease>>

Served == \A c \in CRDs : installed[c] > 0

(* Mutants: a lease whose holder crashed is never taken over; the flag is  *)
(* not passed to the manager.                                              *)
FreeOnceGivenUp == ~LeaderElect \/ lease.holder = None
FreeAlways == TRUE

(* The lease is nobody's, or too old; without the flag no lease is asked   *)
(* for.  A process started again has a new identity and waits as well.     *)
Free == ~LeaderElect \/ lease.holder = None \/ lease.age >= LeaseDuration

Start(r) ==
    /\ Served /\ Free
    /\ Goes(r, "waiting", "active")
    /\ lease' = IF LeaderElect THEN [holder |-> r, age |-> 0] ELSE lease
    /\ UNCHANGED <<init, deployed, faults>>

(* The caches never see a kind that is not installed: exit code 1.         *)
StartFails(r) ==
    /\ ~Served
    /\ Goes(r, "waiting", "down")
    /\ UNCHANGED <<init, deployed, lease, faults>>

Leads(r) == lease.holder = r /\ replica[r] \in {"active", "stopping"}

Renew(r) ==
    /\ Leads(r)
    /\ lease' = [lease EXCEPT !.age = 0]
    /\ UNCHANGED <<init, deployed, replica, faults>>

(* The lease cannot be renewed in time: Start returns an error, exit code 1. *)
LoseLease(r) ==
    /\ LeaderElect /\ Leads(r) /\ lease.age = RenewDeadline /\ Fault
    /\ replica' = [replica EXCEPT ![r] = "down"]
    /\ UNCHANGED <<init, deployed, lease>>

(* A signal: the handlers under way come to their end, or to that of the   *)
(* process.                                                                *)
Stop(r) ==
    /\ Goes(r, "active", "stopping") /\ Fault
    /\ UNCHANGED <<init, deployed, lease>>

(* Start returns when they have, the lease is given up, and main returns.  *)
(* A handler that outlives the manager's grace period could go on between  *)
(* the last two; this is left out.                                         *)
Stopped(r) ==
    /\ Goes(r, "stopping", "down")
    /\ lease' = IF lease.holder = r THEN [holder |-> None, age |-> 0] ELSE lease
    /\ UNCHANGED <<init, deployed, faults>>

Crash(r) ==
    /\ replica[r] # "down" /\ Fault
    /\ replica' = [replica EXCEPT ![r] = "down"]
    /\ UNCHANGED <<init, deployed, lease>>

(* Time, as far as the lease is concerned: its holder ends, at the latest, *)
(* at the deadline.                                                        *)
Tick ==
    /\ lease.holder # None /\ lease.age < LeaseDuration
    /\ (\E r \in Replicas : Leads(r)) => lease.age < RenewDeadline
    /\ lease' = [lease EXCEPT !.age = @ + 1]
    /\ UNCHANGED <<init, deployed, replica, faults>>

InitStep == InitAccess \/ InitCRDs \/ InitPanics \/ InitGVK

Next ==
    \/ StartInit \/ InitStep \/ Deploy \/ Tick
    \/ InitAccessFails \/ InitCRDsFails \/ InitGVKFails \/ InitExits
    \/ \E r \in Replicas :
        \/ RunStart(r) \/ RunAccess(r) \/ RunFails(r)
        \/ Start(r) \/ StartFails(r) \/ Renew(r) \/ LoseLease(r)
        \/ Stop(r) \/ Stopped(r) \/ Crash(r)

Spec == Init /\ [][Next]_vars

(* Processes go on, are started again when they end, and time passes.  A   *)
(* lease that may be taken stays so until it is, so weak fairness is       *)
(* enough.                                                                 *)
FairSpec ==
    /\ Spec
    /\ WF_vars(InitStep) /\ WF_vars(Deploy) /\ WF_vars(Tick)
    /\ \A r \in Replicas :
        /\ WF_vars(RunStart(r) \/ RunAccess(r) \/ StartFails(r))
        /\ WF_vars(Renew(r)) /\ WF_vars(Start(r)) /\ WF_vars(Stopped(r))

-----------------------------------------------------------------------------
(* Properties *)

StartupTypeOK ==
    /\ version \in 0 .. MaxVersion /\ job \in {"access", "crds", "gvk", "done"}
    /\ access \in BOOLEAN
    /\ installed \in [CRDs -> 0 .. MaxVersion] /\ registered \in 0 .. MaxVersion
    /\ deployed \in 0 .. version
    /\ replica \in [Replicas -> {"down", "access", "waiting", "active", "stopping"}]
    /\ lease \in [holder : Replicas \cup {None}, age : 0 .. LeaseDuration]
    /\ faults \in 0 .. MaxFaults

Handles(r) == replica[r] \in {"active", "stopping"}

(* "Enabling this will ensure there is only one active controller          *)
(* manager": with the flag, no two processes ever handle objects, however  *)
(* they crash, stop, lose the lease and are started again.                 *)
OneActive ==
    LeaderElect => \A r, s \in Replicas : Handles(r) /\ Handles(s) => r = s

(* Whatever error of init is swallowed or ends in a panic, the job comes   *)
(* to an end.                                                              *)
InitEnds == job # "done" ~> job = "done"

(* Once the CRDs are there and "run" is started, some process handles      *)
(* objects from some time on: a lease left behind by a crash is taken over.*)
Serves == Served /\ deployed > 0 ~> [](\E r \in Replicas : Handles(r))

(* What the documentation says of the init command: it installs the CRDs   *)
(* and registers the kind before "run" is started.                         *)
InitRegisters ==
    deployed > 0 => registered >= deployed /\ \A c \in CRDs : installed[c] >= deployed

=============================================================================
