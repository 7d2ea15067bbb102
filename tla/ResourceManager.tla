--------------------------- MODULE ResourceManager ---------------------------
(***************************************************************************)
(* pkg/oteloperator/resources: the manager that applies or deletes the     *)
(* objects of one OtelOperator instance on the control-plane, workload and *)
(* platform clusters, one API call after the other, and then runs the      *)
(* orphan cleaners.  A pass is one call of Apply or Delete.  Every API     *)
(* call is a step of its own, so the API servers, the namespace            *)
(* controller, Flux, administrators and a restart of the provider act      *)
(* between any two of them.                                                *)
(*                                                                         *)
(* An object is absent, present, or terminating (deleted, waiting for a    *)
(* finalizer); all that is kept of its content is the configuration it was *)
(* last written from.  Which objects a pass manages, and in which order,   *)
(* is decided by the configuration the caller built the manager from       *)
(* (Plan); a pass may use another configuration than the pass before it.   *)
(***************************************************************************)
EXTENDS Naturals, Sequences, FiniteSets

CONSTANTS
  Objects,     \* every object some configuration manages
  Configs,     \* the configurations a manager may be built from
  Plan,        \* Plan[c]: the objects of c in the order of reconcileObjects
  DependsOn,   \* DependsOn[o]: ManagedObjectContext.DependsOn
  Needs,       \* Needs[c][o]: objects o's content is made from
  Within,      \* Within[o]: the managed namespace o lives in, if any
  Finalized,   \* objects that keep a finalizer when they are deleted
  Keeps,       \* objects whose ReconcileFunc may keep what it finds
  Creates,     \* Creates[c][h]: namespaces Flux creates for the release h
  Scopes,      \* Scopes[c][k]: the objects cleaner k lists
  MaxFaults    \* bound on failed calls, restarts and out-of-band deletions

Creators == {h \in Objects : \E c \in Configs : Creates[c][h] # {}}

Created == UNION {Creates[c][h] : c \in Configs, h \in Objects}

Desired(c) == {Plan[c][i] : i \in DOMAIN Plan[c]}

ASSUME ShapeAssumption ==
  /\ Plan \in [Configs -> Seq(Objects)]
  /\ DependsOn \in [Objects -> SUBSET Objects]
  /\ Needs \in [Configs -> [Objects -> SUBSET Objects]]
  /\ Within \in [Objects -> SUBSET Objects]
  /\ Finalized \subseteq Objects
  /\ Keeps \subseteq Objects
  /\ Creates \in [Configs -> [Objects -> SUBSET Objects]]
  /\ Scopes \in [Configs -> Seq(SUBSET Objects)]
  /\ MaxFaults \in Nat

\* A configuration names an object once.
ASSUME PlanAssumption ==
  \A c \in Configs : \A i, j \in DOMAIN Plan[c] :
     Plan[c][i] = Plan[c][j] => i = j

Cleanable(c) == UNION {Scopes[c][k] : k \in DOMAIN Scopes[c]}

\* The HelmReleases are part of every configuration and live outside the
\* managed namespaces; what they create is a namespace of the configuration
\* they were written from, which depends on nothing.
ASSUME CreatorAssumption ==
  /\ \A h \in Creators : /\ \A c \in Configs : h \in Desired(c)
                         /\ Within[h] = {}
  /\ \A c \in Configs : \A h \in Objects : Creates[c][h] \subseteq Desired(c)
  /\ \A o \in Created : DependsOn[o] = {}
  /\ Created \cap Creators = {}

\* Cleaners list Secrets and ConfigMaps: no finalizer, no namespace, no release.
ASSUME CleanerAssumption ==
  \A c \in Configs : Cleanable(c) \cap (Finalized \cup Created \cup Creators) = {}

VARIABLES
  world,     \* state of every object on its cluster
  content,   \* the configuration every object was last written from
  deleting,  \* Delete was called; Apply is not called any more
  done,      \* a Delete returned with nothing left to do
  faults,    \* faults spent so far
  \* the pass under way: the locals of reconcileObjects, lost when it ends
  mode,      \* "idle", "apply" or "delete"
  cfg,       \* the configuration the manager was built from
  stage,     \* "object": the loop over objects; "list", "clean": the cleaners
  pos,       \* index of the object or of the cleaner
  todo,      \* dependents still to be read, or orphans still to be deleted
  blocked,   \* a dependent was found, or could not be read
  result,    \* the results gathered so far
  cleanErr   \* a cleaner failed to list, or to delete an orphan

envVars  == <<world, content, deleting, done, faults>>
passVars == <<mode, cfg, stage, pos, todo, blocked, result, cleanErr>>
vars     == <<envVars, passVars>>

States  == {"absent", "present", "terminating"}
Results == {"none", "applied", "terminating", "requested", "deleted", "blocked",
            "failed"}

TypeOK ==
  /\ world \in [Objects -> States]
  /\ content \in [Objects -> Configs]
  /\ deleting \in BOOLEAN
  /\ done \in BOOLEAN
  /\ faults \in 0..MaxFaults
  /\ mode \in {"idle", "apply", "delete"}
  /\ cfg \in Configs
  /\ stage \in {"object", "list", "clean"}
  /\ pos \in Nat
  /\ todo \subseteq Objects
  /\ blocked \in BOOLEAN
  /\ result \in [Objects -> Results]
  /\ cleanErr \in BOOLEAN

NoResults == [o \in Objects |-> "none"]

Init ==
  /\ world = [o \in Objects |-> "absent"]
  /\ deleting = FALSE
  /\ done = FALSE
  /\ faults = 0
  /\ mode = "idle"
  /\ cfg \in Configs
  /\ content = [o \in Objects |-> cfg]
  /\ stage = "object"
  /\ pos = 1
  /\ todo = {}
  /\ blocked = FALSE
  /\ result = NoResults
  /\ cleanErr = FALSE

Fault == faults < MaxFaults /\ faults' = faults + 1

\* What deleting an existing object leaves behind at first.
Removed(o) == IF o \in Finalized THEN "terminating" ELSE "absent"

\* Mutation: the dependency is followed in the wrong direction.
DependenciesOnly(c, o) == Desired(c) \cap DependsOn[o]

\* The objects of the same manager that declare a dependency on o.
Dependents(c, o) == {d \in Desired(c) : o \in DependsOn[d]}

-----------------------------------------------------------------------------
(* The loop of reconcileObjects.                                           *)

\* Go to object i, or to the first cleaner after the last object.
MoveTo(m, c, i) ==
  /\ blocked' = FALSE
  /\ IF i \in DOMAIN Plan[c]
     THEN /\ stage' = "object"
          /\ pos' = i
          /\ todo' = IF m = "delete" THEN Dependents(c, Plan[c][i]) ELSE {}
     ELSE /\ stage' = "list"
          /\ pos' = 1
          /\ todo' = {}

StartPass(m, c) ==
  /\ mode = "idle"
  /\ mode' = m
  /\ cfg' = c
  /\ result' = NoResults
  /\ cleanErr' = FALSE
  /\ MoveTo(m, c, 1)
  /\ UNCHANGED <<world, content, done, faults>>

\* A key is reconciled by one worker at a time, and an object once seen with
\* a deletionTimestamp is never seen without it again.
StartApply(c)  == ~deleting /\ StartPass("apply", c) /\ UNCHANGED deleting
StartDelete(c) == StartPass("delete", c) /\ deleting' = TRUE

AtObject(m, o) ==
  /\ mode = m
  /\ stage = "object"
  /\ pos \in DOMAIN Plan[cfg]
  /\ o = Plan[cfg][pos]

Record(o, r) ==
  /\ result' = [result EXCEPT ![o] = r]
  /\ MoveTo(mode, cfg, pos + 1)
  /\ UNCHANGED <<mode, cfg, cleanErr, deleting, done>>

\* checkForDependents reads one dependent; a dependent that exists and one
\* that cannot be read both count as an error.
CheckDependent(o, d) ==
  /\ AtObject("delete", o)
  /\ todo' = todo \ {d}
  /\ \/ /\ blocked' = (blocked \/ world[d] # "absent")
        /\ UNCHANGED faults
     \/ /\ blocked' = TRUE
        /\ Fault
  /\ UNCHANGED <<world, content, deleting, done, mode, cfg, stage, pos, result,
                 cleanErr>>

\* Mutation: an object left alone is reported with a result of its own.
LeaveBlockedOrphaned(o) ==
  /\ AtObject("delete", o)
  /\ todo = {}
  /\ blocked
  /\ Record(o, "orphaned")
  /\ UNCHANGED <<world, content, faults>>

\* The object keeps its dependents' error and is left alone in this pass.
LeaveBlocked(o) ==
  /\ AtObject("delete", o)
  /\ todo = {}
  /\ blocked
  /\ Record(o, "blocked")
  /\ UNCHANGED <<world, content, faults>>

\* cl.Delete: NotFound is the only answer that counts as deleted.
DeleteObject(o) ==
  /\ AtObject("delete", o)
  /\ todo = {}
  /\ ~blocked
  /\ IF world[o] = "absent"
     THEN Record(o, "deleted") /\ UNCHANGED world
     ELSE Record(o, "requested") /\ world' = [world EXCEPT ![o] = Removed(o)]
  /\ UNCHANGED <<content, faults>>

\* The call fails; the request may have reached the API server all the same.
DeleteObjectFails(o) ==
  /\ AtObject("delete", o)
  /\ todo = {}
  /\ ~blocked
  /\ Fault
  /\ Record(o, "failed")
  /\ \/ UNCHANGED world
     \/ world[o] # "absent" /\ world' = [world EXCEPT ![o] = Removed(o)]
  /\ UNCHANGED content

Writable(o) ==
  /\ \A n \in Needs[cfg][o] : world[n] = "present"
  /\ world[o] = "absent" => \A n \in Within[o] : world[n] = "present"

\* controllerutil.CreateOrUpdate: an existing object, a terminating one too,
\* is updated in place.
Write(o) ==
  /\ Writable(o)
  /\ world' = [world EXCEPT ![o] = IF @ = "absent" THEN "present" ELSE @]
  /\ content' = [content EXCEPT ![o] = cfg]

Keep(o) == o \in Keeps /\ world[o] # "absent" /\ UNCHANGED <<world, content>>

ApplyObject(o) ==
  /\ AtObject("apply", o)
  /\ \/ /\ Write(o) \/ Keep(o)
        /\ Record(o, IF world[o] = "terminating" THEN "terminating" ELSE "applied")
     \/ ~Writable(o) /\ Record(o, "failed") /\ UNCHANGED <<world, content>>
  /\ UNCHANGED faults

\* Any of the calls fails, whether the write took effect or not.
ApplyObjectFails(o) ==
  /\ AtObject("apply", o)
  /\ Fault
  /\ Record(o, "failed")
  /\ Write(o) \/ UNCHANGED <<world, content>>

-----------------------------------------------------------------------------
(* The orphan cleaners, which run in every pass, after errors too.         *)

AtCleaner(st) == mode # "idle" /\ stage = st /\ pos \in DOMAIN Scopes[cfg]

\* Go on with the orphans that are left, or to the next cleaner.
Remaining(orphans) ==
  /\ todo' = orphans
  /\ IF orphans = {}
     THEN stage' = "list" /\ pos' = pos + 1
     ELSE stage' = "clean" /\ pos' = pos
  /\ UNCHANGED <<content, deleting, done, mode, cfg, blocked, result>>

\* Mutation: the objects to keep are ignored.
ListAll ==
  /\ AtCleaner("list")
  /\ Remaining({o \in Scopes[cfg][pos] : world[o] # "absent"})
  /\ UNCHANGED <<world, faults, cleanErr>>

ListOrphans ==
  /\ AtCleaner("list")
  /\ Remaining({o \in Scopes[cfg][pos] \ Desired(cfg) : world[o] # "absent"})
  /\ UNCHANGED <<world, faults, cleanErr>>

\* Mutation: a failed list is an empty list.
ListOrphansSwallows ==
  /\ AtCleaner("list")
  /\ Fault
  /\ Remaining({})
  /\ UNCHANGED <<world, cleanErr>>

ListOrphansFails ==
  /\ AtCleaner("list")
  /\ Fault
  /\ Remaining({})
  /\ cleanErr' = TRUE
  /\ UNCHANGED world

\* An orphan that is gone already is no error.
CleanOrphan(o) ==
  /\ AtCleaner("clean")
  /\ Remaining(todo \ {o})
  /\ world' = [world EXCEPT ![o] = "absent"]
  /\ UNCHANGED <<faults, cleanErr>>

\* One failed deletion does not stop the cleaner, whether it took effect or not.
CleanOrphanFails(o) ==
  /\ AtCleaner("clean")
  /\ Fault
  /\ Remaining(todo \ {o})
  /\ cleanErr' = TRUE
  /\ world' \in {world, [world EXCEPT ![o] = "absent"]}

-----------------------------------------------------------------------------
(* The end of a pass.                                                      *)

PassOver == mode # "idle" /\ stage = "list" /\ pos \notin DOMAIN Scopes[cfg]

\* resultsToResources' error flag, or an error of a cleaner.
PassFailed ==
  \/ cleanErr
  \/ \E o \in Desired(cfg) : result[o] \in {"blocked", "failed"}

\* Mutation: a deletion that was accepted counts as done.
AllRequested == \A o \in Desired(cfg) : result[o] \in {"deleted", "requested"}

\* Mutation: objects of other configurations are waited for.
EverythingDeleted == \A o \in Objects : result[o] = "deleted"

AllDeleted == \A o \in Desired(cfg) : result[o] = "deleted"

\* The locals of the pass are gone.
Forget ==
  /\ mode' = "idle"
  /\ stage' = "object"
  /\ pos' = 1
  /\ todo' = {}
  /\ blocked' = FALSE
  /\ result' = NoResults
  /\ cleanErr' = FALSE
  /\ UNCHANGED cfg

EndPass ==
  /\ PassOver
  /\ done' = (done \/ (mode = "delete" /\ ~PassFailed /\ AllDeleted))
  /\ Forget
  /\ UNCHANGED <<world, content, deleting, faults>>

\* The provider restarts in the middle of a pass.
Crash ==
  /\ mode # "idle"
  /\ Fault
  /\ Forget
  /\ UNCHANGED <<world, content, deleting, done>>

-----------------------------------------------------------------------------
(* The clusters and the people around the manager.                         *)

\* The namespace controller empties a terminating namespace.
SweepNamespace(o) ==
  /\ world[o] = "present"
  /\ \E n \in Within[o] : world[n] = "terminating"
  /\ world' = [world EXCEPT ![o] = Removed(o)]
  /\ UNCHANGED <<content, deleting, done, faults, passVars>>

\* The last finalizer of a terminating object is removed.
Finalize(o) ==
  /\ world[o] = "terminating"
  /\ \A d \in Objects : o \in Within[d] => world[d] = "absent"
  /\ world' = [world EXCEPT ![o] = "absent"]
  /\ UNCHANGED <<content, deleting, done, faults, passVars>>

\* Flux installs a release whose target namespace is missing
\* (Install.CreateNamespace); a terminating release is not installed.
FluxCreatesNamespace(h, o) ==
  /\ world[h] = "present"
  /\ o \in Creates[content[h]][h]
  /\ world[o] = "absent"
  /\ world' = [world EXCEPT ![o] = "present"]
  /\ UNCHANGED <<content, deleting, done, faults, passVars>>

\* Somebody else deletes a managed object.  Nobody but the provider deletes
\* a HelmRelease while the provider is in the middle of a delete pass.
Drift(o) ==
  /\ world[o] = "present"
  /\ o \in Creators => mode # "delete"
  /\ Fault
  /\ world' = [world EXCEPT ![o] = Removed(o)]
  /\ UNCHANGED <<content, deleting, done, passVars>>

-----------------------------------------------------------------------------

\* One object of the loop: its dependents, its deletion or its application.
ObjectStep(o) ==
  \/ \E d \in todo : CheckDependent(o, d)
  \/ LeaveBlocked(o)
  \/ DeleteObject(o)
  \/ DeleteObjectFails(o)
  \/ ApplyObject(o)
  \/ ApplyObjectFails(o)

CleanerStep ==
  \/ ListOrphans
  \/ ListOrphansFails
  \/ \E o \in todo : CleanOrphan(o) \/ CleanOrphanFails(o)

PassStep == (\E o \in Objects : ObjectStep(o)) \/ CleanerStep

EnvironmentStep ==
  \/ \E o \in Objects : SweepNamespace(o) \/ Finalize(o) \/ Drift(o)
  \/ \E h \in Creators, o \in Created : FluxCreatesNamespace(h, o)

Next ==
  \/ \E c \in Configs : StartApply(c) \/ StartDelete(c)
  \/ PassStep
  \/ EndPass
  \/ Crash
  \/ EnvironmentStep

Spec == Init /\ [][Next]_vars

\* The work queue hands a requeued key to a worker again and a pass runs to
\* its end; the namespace controller and Flux finish what they started.
Fairness ==
  /\ WF_vars(\E c \in Configs : StartApply(c) \/ StartDelete(c))
  /\ WF_vars(PassStep)
  /\ WF_vars(EndPass)
  /\ \A o \in Objects : WF_vars(SweepNamespace(o)) /\ WF_vars(Finalize(o))

FairSpec == Spec /\ Fairness

-----------------------------------------------------------------------------
(* Properties.                                                             *)

\* Whatever one configuration manages and another does not is listed by some
\* cleaner.
Covered ==
  \A c, d \in Configs : Desired(c) \ Desired(d) \subseteq Cleanable(d)

\* Delete reports completion (AllDeleted without an error, after which the
\* runtime removes the finalizer) only when none of the objects that any
\* earlier pass created, under whatever configuration, exists any more - and
\* none comes back afterwards.
DoneMeansGone == done => \A o \in Objects : world[o] = "absent"

\* An object is deleted only when no object of the same manager that depends
\* on it exists at that moment, not just when it was looked up: a ServiceAccount
\* outlives its token Secret, the OCIRepository its HelmReleases.
DependentsFirst ==
  [][\A o \in Objects :
       /\ mode = "delete"
       /\ result[o] = "none"
       /\ result'[o] \in {"requested", "failed"}
       => \A d \in Dependents(cfg, o) : world[d] = "absent"]_vars

\* When a pass that reports no error is over, no Secret or ConfigMap that a
\* cleaner looks after survives outside the configuration of the pass.
OrphansCleaned ==
  PassOver /\ ~PassFailed =>
    \A o \in Cleanable(cfg) \ Desired(cfg) : world[o] = "absent"

\* The manager implements the abstract teardown.
Abstract == INSTANCE Teardown WITH
  exists  <- {o \in Objects : world[o] # "absent"},
  Creates <- [h \in Objects |-> UNION {Creates[c][h] : c \in Configs}],
  closing <- deleting,
  closed  <- done

RefinesTeardown == Abstract!TSpec

\* Once the faults are spent and Delete is called again and again, as it is
\* after every error and every RequeueAfter, a teardown completes.
TeardownCompletes == deleting ~> done
=============================================================================
