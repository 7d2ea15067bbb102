----------------------- MODULE ResourceManager_proofs -----------------------
(***************************************************************************)
(* Proofs about ResourceManager for every catalogue of objects, every set  *)
(* of configurations and every number of faults.                           *)
(***************************************************************************)
EXTENDS ResourceManager, TLAPS

(***************************************************************************)
(* The inductive invariant.                                                *)
(***************************************************************************)

\* Every step of a pass knows where it is; nothing is applied once a teardown
\* has begun.
PassShape ==
  /\ pos >= 1
  /\ mode # "idle" /\ stage = "object" => pos \in DOMAIN Plan[cfg]
  /\ mode = "delete" => deleting
  /\ mode = "apply" => ~deleting
  /\ done => deleting

\* Whatever exists belongs to some configuration.
KnownObjects == \A o \in Objects : world[o] # "absent" => \E c \in Configs : o \in Desired(c)

\* The objects not reached yet have no result.
PendingResults ==
  mode # "idle" /\ stage = "object" =>
    \A i \in DOMAIN Plan[cfg] : i >= pos => result[Plan[cfg][i]] = "none"

\* Unless a dependent was found, those already read are gone.
CheckedDependents ==
  mode = "delete" /\ stage = "object" /\ ~blocked =>
    \A d \in Dependents(cfg, Plan[cfg][pos]) \ todo : world[d] = "absent"

\* A release that this pass will not report as deleted.
StillReported(h) ==
  /\ result[h] # "deleted"
  /\ result[h] = "none" => world[h] = "present"

\* An object reported as deleted stays away, except for a namespace that
\* Flux restores for a release which keeps the pass from completing.
DeletedResults ==
  mode = "delete" =>
    \A o \in Objects : result[o] = "deleted" =>
       \/ world[o] = "absent"
       \/ o \in Created /\ \E h \in Creators : StillReported(h)

\* The cleaners that ran without an error left no orphan behind.
CleanedScopes ==
  /\ mode # "idle" /\ stage = "clean" => todo \subseteq Cleanable(cfg)
  /\ mode # "idle" /\ stage \in {"list", "clean"} /\ ~cleanErr =>
       \A k \in DOMAIN Scopes[cfg] : \A o \in Scopes[cfg][k] \ Desired(cfg) :
          \/ k > pos
          \/ k = pos /\ (stage = "list" \/ o \in todo)
          \/ world[o] = "absent"

\* Completion is final where the cleaners cover what the configurations do not
\* share.
NothingAfterDone == Covered => DoneMeansGone

IInv ==
  /\ TypeOK
  /\ PassShape
  /\ KnownObjects
  /\ PendingResults
  /\ CheckedDependents
  /\ DeletedResults
  /\ CleanedScopes
  /\ NothingAfterDone

-----------------------------------------------------------------------------
(***************************************************************************)
(* Facts about the constants.                                              *)
(***************************************************************************)

\* A plan and a list of cleaners are indexed from 1 on and name objects.
LEMMA Indices ==
  ASSUME NEW c \in Configs
  PROVE  /\ Len(Plan[c]) \in Nat /\ DOMAIN Plan[c] = 1..Len(Plan[c])
         /\ \A i \in DOMAIN Plan[c] : Plan[c][i] \in Objects
         /\ Len(Scopes[c]) \in Nat /\ DOMAIN Scopes[c] = 1..Len(Scopes[c])
         /\ \A k \in DOMAIN Scopes[c] : Scopes[c][k] \subseteq Objects
BY ShapeAssumption

\* The derived sets hold objects only.
LEMMA DerivedSets ==
  ASSUME NEW c \in Configs, NEW o \in Objects
  PROVE  /\ Desired(c) \subseteq Objects
         /\ Dependents(c, o) \subseteq Objects
         /\ Cleanable(c) \subseteq Objects
<1>1. Desired(c) \subseteq Objects
  BY Indices DEF Desired
<1>2. Cleanable(c) \subseteq Objects
  BY Indices DEF Cleanable
<1> QED
  BY <1>1, <1>2 DEF Dependents

\* Namespaces that Flux creates are objects, and so are the releases.
LEMMA FluxSets ==
  /\ Created \subseteq Objects
  /\ Creators \subseteq Objects
  /\ \A c \in Configs : \A h \in Objects : Creates[c][h] \subseteq Created
<1>1. Created \subseteq Objects
  BY ShapeAssumption DEF Created
<1>2. \A c \in Configs : \A h \in Objects : Creates[c][h] \subseteq Created
  BY DEF Created
<1> QED
  BY <1>1, <1>2 DEF Creators

-----------------------------------------------------------------------------
(***************************************************************************)
(* Type correctness.                                                       *)
(***************************************************************************)

\* Moving on in a pass keeps its locals well typed.
LEMMA MoveToTypes ==
  ASSUME NEW m, NEW c \in Configs, NEW i \in Nat, MoveTo(m, c, i)
  PROVE  /\ stage' \in {"object", "list"} /\ pos' \in Nat
         /\ todo' \subseteq Objects /\ blocked' \in BOOLEAN
<1>1. CASE i \in DOMAIN Plan[c]
  <2>1. Plan[c][i] \in Objects
    BY <1>1, Indices
  <2>2. Dependents(c, Plan[c][i]) \subseteq Objects
    BY <2>1, DerivedSets
  <2> QED
    BY <1>1, <2>2 DEF MoveTo
<1>2. CASE i \notin DOMAIN Plan[c]
  <2>1. stage' = "list" /\ pos' = 1 /\ todo' = {} /\ blocked' = FALSE
    BY <1>2 DEF MoveTo
  <2> QED
    BY <2>1
<1> QED
  BY <1>1, <1>2

\* Recording a result keeps the types.
LEMMA RecordTypes ==
  ASSUME TypeOK, NEW o \in Objects, NEW r \in Results, Record(o, r)
  PROVE  /\ stage' \in {"object", "list", "clean"} /\ pos' \in Nat
         /\ todo' \subseteq Objects /\ blocked' \in BOOLEAN
         /\ result' \in [Objects -> Results]
         /\ mode' \in {"idle", "apply", "delete"} /\ cfg' \in Configs
         /\ cleanErr' \in BOOLEAN /\ deleting' \in BOOLEAN /\ done' \in BOOLEAN
<1>1. MoveTo(mode, cfg, pos + 1) /\ pos + 1 \in Nat /\ cfg \in Configs
  BY DEF Record, TypeOK
<1>2. /\ stage' \in {"object", "list"} /\ pos' \in Nat
      /\ todo' \subseteq Objects /\ blocked' \in BOOLEAN
  BY <1>1, MoveToTypes
<1>3. result' \in [Objects -> Results]
  BY DEF Record, TypeOK
<1> QED
  BY <1>2, <1>3 DEF Record, TypeOK

\* The budget of faults is never exceeded.
LEMMA FaultTypes ==
  /\ 0 \in 0..MaxFaults
  /\ TypeOK /\ (Fault \/ UNCHANGED faults) => faults' \in 0..MaxFaults
<1>1. MaxFaults \in Nat
  BY ShapeAssumption
<1> QED
  BY <1>1 DEF Fault, TypeOK

\* The initial state is well typed.
LEMMA InitTypes == Init => TypeOK
<1> SUFFICES ASSUME Init PROVE TypeOK
  OBVIOUS
<1>1. /\ world \in [Objects -> States]
      /\ result \in [Objects -> Results]
  BY DEF Init, NoResults, States, Results
<1>2. cfg \in Configs /\ content \in [Objects -> Configs]
  BY DEF Init
<1> QED
  BY <1>1, <1>2, FaultTypes DEF Init, TypeOK

\* Every step keeps the types.
LEMMA NextTypes == TypeOK /\ [Next]_vars => TypeOK'
<1> SUFFICES ASSUME TypeOK, [Next]_vars PROVE TypeOK'
  OBVIOUS
<1> USE DEF States
<1>1. ASSUME NEW c \in Configs, StartApply(c) \/ StartDelete(c) PROVE TypeOK'
  <2>1. MoveTo(mode', c, 1)
    BY <1>1 DEF StartApply, StartDelete, StartPass
  <2>2. /\ stage' \in {"object", "list"} /\ pos' \in Nat
        /\ todo' \subseteq Objects /\ blocked' \in BOOLEAN
    BY <2>1, MoveToTypes
  <2> QED
    BY <1>1, <2>2
       DEF StartApply, StartDelete, StartPass, TypeOK, NoResults, Results
<1>2. ASSUME NEW o \in Objects, NEW d \in todo, CheckDependent(o, d)
      PROVE  TypeOK'
  <2>1. blocked' \in BOOLEAN
    BY <1>2 DEF CheckDependent, TypeOK
  <2>2. faults' \in 0..MaxFaults
    BY <1>2, FaultTypes DEF CheckDependent
  <2> QED
    BY <1>2, <2>1, <2>2 DEF CheckDependent, TypeOK
<1>3. ASSUME NEW o \in Objects, LeaveBlocked(o) PROVE TypeOK'
  <2>1. Record(o, "blocked") /\ UNCHANGED <<world, content, faults>>
    BY <1>3 DEF LeaveBlocked
  <2> QED
    BY <2>1, RecordTypes DEF TypeOK, Results
<1>4. ASSUME NEW o \in Objects, DeleteObject(o) PROVE TypeOK'
  <2>1. \E r \in Results : Record(o, r)
    BY <1>4 DEF DeleteObject, Results
  <2>2. /\ world' \in [Objects -> States]
        /\ UNCHANGED <<content, faults>>
    BY <1>4 DEF DeleteObject, Removed, TypeOK
  <2> QED
    BY <2>1, <2>2, RecordTypes DEF TypeOK
<1>5. ASSUME NEW o \in Objects, DeleteObjectFails(o) PROVE TypeOK'
  <2>1. Record(o, "failed")
    BY <1>5 DEF DeleteObjectFails
  <2>2. /\ world' \in [Objects -> States]
        /\ UNCHANGED content
        /\ faults' \in 0..MaxFaults
    BY <1>5, FaultTypes DEF DeleteObjectFails, Removed, TypeOK
  <2> QED
    BY <2>1, <2>2, RecordTypes DEF TypeOK, Results
<1>6. ASSUME NEW o \in Objects, ApplyObject(o) PROVE TypeOK'
  <2>1. \E r \in Results : Record(o, r)
    BY <1>6 DEF ApplyObject, Results
  <2>2. /\ world' \in [Objects -> States]
        /\ content' \in [Objects -> Configs]
        /\ UNCHANGED faults
    BY <1>6 DEF ApplyObject, Write, Keep, TypeOK
  <2> QED
    BY <2>1, <2>2, RecordTypes DEF TypeOK
<1>7. ASSUME NEW o \in Objects, ApplyObjectFails(o) PROVE TypeOK'
  <2>1. Record(o, "failed")
    BY <1>7 DEF ApplyObjectFails
  <2>2. /\ world' \in [Objects -> States]
        /\ content' \in [Objects -> Configs]
        /\ faults' \in 0..MaxFaults
    BY <1>7, FaultTypes DEF ApplyObjectFails, Write, TypeOK
  <2> QED
    BY <2>1, <2>2, RecordTypes DEF TypeOK, Results
<1>8. ASSUME CleanerStep PROVE TypeOK'
  <2>1. ASSUME NEW orphans \in SUBSET Objects, Remaining(orphans)
        PROVE  /\ todo' \subseteq Objects
               /\ stage' \in {"object", "list", "clean"} /\ pos' \in Nat
               /\ content' \in [Objects -> Configs] /\ deleting' \in BOOLEAN
               /\ done' \in BOOLEAN /\ mode' \in {"idle", "apply", "delete"}
               /\ cfg' \in Configs /\ blocked' \in BOOLEAN
               /\ result' \in [Objects -> Results]
    BY <2>1 DEF Remaining, TypeOK
  <2>2. CASE ListOrphans
    <3> DEFINE found == {o \in Scopes[cfg][pos] \ Desired(cfg) : world[o] # "absent"}
    <3>1. found \in SUBSET Objects
      BY <2>2, Indices DEF ListOrphans, AtCleaner, TypeOK
    <3>2. Remaining(found)
      BY <2>2 DEF ListOrphans
    <3> HIDE DEF found
    <3> QED
      BY <2>1, <2>2, <3>1, <3>2 DEF ListOrphans, TypeOK
  <2>3. CASE ListOrphansFails
    <3>1. Remaining({}) /\ Fault
      BY <2>3 DEF ListOrphansFails
    <3> QED
      BY <2>1, <2>3, <3>1, FaultTypes DEF ListOrphansFails, TypeOK
  <2>4. ASSUME NEW o \in todo, CleanOrphan(o) PROVE TypeOK'
    <3>1. Remaining(todo \ {o}) /\ todo \ {o} \in SUBSET Objects
      BY <2>4 DEF CleanOrphan, TypeOK
    <3>2. world' \in [Objects -> States]
      BY <2>4 DEF CleanOrphan, TypeOK
    <3> QED
      BY <2>1, <2>4, <3>1, <3>2 DEF CleanOrphan, TypeOK
  <2>5. ASSUME NEW o \in todo, CleanOrphanFails(o) PROVE TypeOK'
    <3>1. Remaining(todo \ {o}) /\ todo \ {o} \in SUBSET Objects /\ Fault
      BY <2>5 DEF CleanOrphanFails, TypeOK
    <3> QED
      BY <2>1, <2>5, <3>1, FaultTypes DEF CleanOrphanFails, TypeOK
  <2> QED
    BY <1>8, <2>2, <2>3, <2>4, <2>5 DEF CleanerStep
<1>9. CASE EndPass
  BY <1>9 DEF EndPass, Forget, NoResults, TypeOK, Results
<1>10. CASE Crash
  BY <1>10, FaultTypes DEF Crash, Forget, NoResults, TypeOK, Results
<1>11. CASE EnvironmentStep
  <2>1. /\ world' \in [Objects -> States]
        /\ faults' \in 0..MaxFaults
        /\ UNCHANGED <<content, deleting, done, passVars>>
    BY <1>11, FaultTypes, FluxSets
       DEF EnvironmentStep, SweepNamespace, Finalize, Drift,
           FluxCreatesNamespace, Removed, TypeOK
  <2> QED
    BY <2>1 DEF passVars, TypeOK
<1>12. CASE UNCHANGED vars
  BY <1>12 DEF vars, envVars, passVars, TypeOK
<1> QED
  BY <1>1, <1>2, <1>3, <1>4, <1>5, <1>6, <1>7, <1>8, <1>9, <1>10, <1>11, <1>12
     DEF Next, PassStep, ObjectStep

\* Every reachable state is well typed, whatever faults and configurations.
THEOREM TypeCorrect == Spec => []TypeOK
BY InitTypes, NextTypes, PTL DEF Spec

-----------------------------------------------------------------------------
(***************************************************************************)
(* The inductive invariant is preserved: first what a pass does to its own *)
(* locals, then what happens to the objects.                               *)
(***************************************************************************)

Locals == PassShape /\ PendingResults /\ CheckedDependents /\ CleanedScopes

\* Moving to an object whose dependents are all still to be read, or to the
\* first cleaner, establishes what the invariant says of the locals.
LEMMA MoveToLocals ==
  ASSUME TypeOK', NEW i \in Nat, i >= 1, mode' # "idle", done' => deleting',
         mode' = "delete" => deleting', mode' = "apply" => ~deleting',
         MoveTo(mode', cfg', i),
         \A j \in DOMAIN Plan[cfg'] : j >= i => result'[Plan[cfg'][j]] = "none"
  PROVE  Locals'
<1>1. CASE i \in DOMAIN Plan[cfg']
  <2>1. /\ stage' = "object" /\ pos' = i
        /\ mode' = "delete" => todo' = Dependents(cfg', Plan[cfg'][i])
    BY <1>1 DEF MoveTo
  <2>2. PassShape' /\ PendingResults' /\ CleanedScopes'
    BY <1>1, <2>1 DEF PassShape, PendingResults, CleanedScopes
  <2>3. CheckedDependents'
    BY <2>1 DEF CheckedDependents, Dependents, Desired
  <2> QED
    BY <2>2, <2>3 DEF Locals
<1>2. CASE i \notin DOMAIN Plan[cfg']
  <2>1. stage' = "list" /\ pos' = 1
    BY <1>2 DEF MoveTo
  <2>2. DOMAIN Scopes[cfg'] = 1..Len(Scopes[cfg']) /\ Len(Scopes[cfg']) \in Nat
    BY Indices DEF TypeOK
  <2>3. PassShape' /\ PendingResults' /\ CheckedDependents'
    BY <2>1 DEF PassShape, PendingResults, CheckedDependents
  <2>4. CleanedScopes'
    BY <2>1, <2>2 DEF CleanedScopes
  <2> QED
    BY <2>3, <2>4 DEF Locals
<1> QED
  BY <1>1, <1>2

\* Recording the result of the object at hand keeps the locals in shape.
LEMMA RecordLocals ==
  ASSUME IInv, TypeOK', NEW m \in {"apply", "delete"}, NEW o \in Objects,
         AtObject(m, o), NEW r \in Results, Record(o, r)
  PROVE  Locals'
<1>1. /\ mode' = mode /\ cfg' = cfg /\ deleting' = deleting /\ done' = done
      /\ result' = [result EXCEPT ![o] = r] /\ MoveTo(mode, cfg, pos + 1)
  BY DEF Record
<1>2. /\ mode = m /\ stage = "object" /\ pos \in DOMAIN Plan[cfg]
      /\ o = Plan[cfg][pos] /\ pos \in Nat /\ pos + 1 \in Nat /\ pos + 1 >= 1
      /\ cfg \in Configs /\ (done => deleting) /\ (mode = "delete" => deleting)
      /\ (mode = "apply" => ~deleting)
  BY DEF AtObject, IInv, TypeOK, PassShape
<1>3. ASSUME NEW j \in DOMAIN Plan[cfg], j >= pos + 1
      PROVE  result'[Plan[cfg][j]] = "none"
  <2>1. DOMAIN Plan[cfg] = 1..Len(Plan[cfg]) /\ Plan[cfg][j] \in Objects
    BY <1>2, Indices
  <2>2. j >= pos /\ j # pos
    BY <1>2, <1>3, <2>1
  <2>3. Plan[cfg][j] # o
    BY <1>2, <2>2, PlanAssumption
  <2>4. result[Plan[cfg][j]] = "none"
    BY <1>2, <2>2 DEF IInv, PendingResults
  <2> QED
    BY <1>1, <2>1, <2>3, <2>4 DEF IInv, TypeOK
<1>4. /\ MoveTo(mode', cfg', pos + 1) /\ mode' # "idle" /\ (done' => deleting')
      /\ (mode' = "delete" => deleting') /\ (mode' = "apply" => ~deleting')
      /\ \A j \in DOMAIN Plan[cfg'] :
            j >= pos + 1 => result'[Plan[cfg'][j]] = "none"
  BY <1>1, <1>2, <1>3
<1> QED
  BY <1>2, <1>4, MoveToLocals

\* Forgetting the locals leaves nothing to say about them.
LEMMA ForgetLocals ==
  ASSUME TypeOK', Forget, done' => deleting'
  PROVE  Locals' /\ DeletedResults'
BY DEF Forget, Locals, PassShape, PendingResults, CheckedDependents,
       CleanedScopes, DeletedResults

\* Cleaner by cleaner, orphan by orphan, the cleaned scopes grow.  What is
\* left of the current scope is in `orphans'.
LEMMA RemainingLocals ==
  ASSUME IInv, TypeOK', mode # "idle", stage \in {"list", "clean"},
         pos \in DOMAIN Scopes[cfg],
         NEW orphans, orphans \subseteq Cleanable(cfg), Remaining(orphans),
         \A o \in Objects : world[o] = "absent" => world'[o] = "absent",
         cleanErr => cleanErr',
         ~cleanErr' => \A o \in Scopes[cfg][pos] \ Desired(cfg) :
                          o \in orphans \/ world'[o] = "absent"
  PROVE  Locals'
<1>1. /\ todo' = orphans /\ mode' = mode /\ cfg' = cfg /\ deleting' = deleting
      /\ done' = done
      /\ orphans = {} => stage' = "list" /\ pos' = pos + 1
      /\ orphans # {} => stage' = "clean" /\ pos' = pos
  BY DEF Remaining
<1>2. /\ cfg \in Configs /\ pos \in Nat /\ stage' # "object"
      /\ DOMAIN Scopes[cfg] = 1..Len(Scopes[cfg]) /\ Len(Scopes[cfg]) \in Nat
      /\ \A k \in DOMAIN Scopes[cfg] : Scopes[cfg][k] \subseteq Objects
  BY <1>1, Indices DEF IInv, TypeOK
<1>3. PassShape' /\ PendingResults' /\ CheckedDependents'
  BY <1>1, <1>2 DEF IInv, PassShape, PendingResults, CheckedDependents
<1>4. ASSUME ~cleanErr', NEW k \in DOMAIN Scopes[cfg],
             NEW o \in Scopes[cfg][k] \ Desired(cfg)
      PROVE  \/ k > pos'
             \/ k = pos' /\ (stage' = "list" \/ o \in todo')
             \/ world'[o] = "absent"
  <2>1. k \in Nat /\ o \in Objects
    BY <1>2
  <2>2. CASE k < pos
    <3>1. world[o] = "absent"
      BY <1>2, <1>4, <2>1, <2>2 DEF IInv, CleanedScopes
    <3> QED
      BY <2>1, <3>1
  <2>3. CASE k = pos
    BY <1>1, <1>2, <1>4, <2>3
  <2>4. CASE k > pos
    BY <1>1, <1>2, <2>1, <2>4
  <2> QED
    BY <1>2, <2>1, <2>2, <2>3, <2>4
<1>5. CleanedScopes'
  BY <1>1, <1>4 DEF CleanedScopes, Cleanable
<1> QED
  BY <1>3, <1>5 DEF Locals

-----------------------------------------------------------------------------

\* What the environment leaves of the invariant when an object goes away, in
\* one step or by way of a finalizer.  In a delete pass no release that is
\* still present may go away by itself.
LEMMA RemovalPreserves ==
  ASSUME IInv, TypeOK', NEW o \in Objects, world[o] # "absent",
         NEW v \in {"terminating", "absent"}, world' = [world EXCEPT ![o] = v],
         UNCHANGED <<content, deleting, done, passVars>>,
         mode = "delete" /\ o \in Creators => world[o] # "present"
  PROVE  IInv'
<1>1. \A p \in Objects : world[p] = "absent" => world'[p] = "absent"
  BY DEF IInv, TypeOK
<1>2. /\ cfg \in Configs /\ result \in [Objects -> Results]
      /\ world \in [Objects -> States]
  BY DEF IInv, TypeOK
<1>3. PassShape' /\ PendingResults'
  BY DEF IInv, PassShape, PendingResults, passVars
<1>4. KnownObjects'
  BY <1>2 DEF IInv, KnownObjects
<1>5. CheckedDependents'
  <2>1. ASSUME NEW d \in Dependents(cfg, Plan[cfg][pos]) \ todo
        PROVE  d \in Objects
    BY <1>2, DerivedSets DEF Dependents
  <2> QED
    BY <1>1, <2>1 DEF IInv, CheckedDependents, Dependents, Desired, passVars
<1>6. DeletedResults'
  <2> SUFFICES ASSUME mode = "delete", NEW p \in Objects, result[p] = "deleted"
               PROVE  \/ world'[p] = "absent"
                      \/ p \in Created /\ \E h \in Creators : StillReported(h)'
    BY DEF DeletedResults, passVars
  <2>1. CASE world[p] = "absent"
    BY <1>1, <2>1
  <2>2. ASSUME NEW h \in Creators, StillReported(h), p \in Created
        PROVE  StillReported(h)'
    BY <1>2, <2>2, FluxSets DEF StillReported, passVars
  <2> QED
    BY <2>1, <2>2 DEF IInv, DeletedResults
<1>7. CleanedScopes'
  <2>1. \A k \in DOMAIN Scopes[cfg] : Scopes[cfg][k] \subseteq Objects
    BY <1>2, Indices
  <2> QED
    BY <1>1, <2>1 DEF IInv, CleanedScopes, Cleanable, Desired, passVars
<1>8. NothingAfterDone'
  BY DEF IInv, NothingAfterDone, DoneMeansGone
<1> QED
  BY <1>3, <1>4, <1>5, <1>6, <1>7, <1>8 DEF IInv

\* A namespace that Flux restores is nobody's dependent, no orphan, and keeps
\* its release from being reported as deleted.
LEMMA FluxPreserves ==
  ASSUME IInv, TypeOK', NEW h \in Creators, NEW o \in Created,
         FluxCreatesNamespace(h, o)
  PROVE  IInv'
<1>1. /\ h \in Objects /\ o \in Objects /\ cfg \in Configs
      /\ world \in [Objects -> States] /\ content[h] \in Configs
  BY FluxSets DEF IInv, TypeOK
<1>2. /\ world[h] = "present" /\ world[o] = "absent"
      /\ o \in Creates[content[h]][h]
      /\ world' = [world EXCEPT ![o] = "present"]
      /\ UNCHANGED <<content, deleting, done, faults, passVars>>
  BY DEF FluxCreatesNamespace
<1>3. PassShape' /\ PendingResults'
  BY <1>2 DEF IInv, PassShape, PendingResults, passVars
<1>4. KnownObjects'
  <2>1. o \in Desired(content[h])
    BY <1>1, <1>2, CreatorAssumption
  <2> QED
    BY <1>1, <1>2, <2>1 DEF IInv, KnownObjects
<1>5. CheckedDependents'
  <2>1. \A d \in Dependents(cfg, Plan[cfg][pos]) : d \in Objects /\ d # o
    BY <1>1, DerivedSets, CreatorAssumption DEF Dependents
  <2> QED
    BY <1>1, <1>2, <2>1
       DEF IInv, CheckedDependents, Dependents, Desired, passVars
<1>6. DeletedResults'
  <2> SUFFICES ASSUME mode = "delete", NEW p \in Objects, result[p] = "deleted"
               PROVE  \/ world'[p] = "absent"
                      \/ p \in Created /\ \E g \in Creators : StillReported(g)'
    BY <1>2 DEF DeletedResults, passVars
  <2>1. h # o /\ h \notin Created
    BY CreatorAssumption
  <2>2. StillReported(h)
    <3>1. result[h] # "deleted"
      BY <1>1, <1>2, <2>1 DEF IInv, DeletedResults
    <3> QED
      BY <1>2, <3>1 DEF StillReported
  <2>3. \A g \in Creators : StillReported(g) => StillReported(g)'
    BY <1>1, <1>2, FluxSets DEF StillReported, passVars
  <2>4. CASE p = o
    BY <2>2, <2>3, <2>4
  <2>5. CASE p # o
    <3>1. world'[p] = world[p]
      BY <1>1, <1>2, <2>5
    <3> QED
      BY <2>3, <3>1 DEF IInv, DeletedResults
  <2> QED
    BY <2>4, <2>5
<1>7. CleanedScopes'
  <2>1. \A k \in DOMAIN Scopes[cfg] :
           Scopes[cfg][k] \subseteq Objects /\ o \notin Scopes[cfg][k]
    BY <1>1, Indices, CleanerAssumption DEF Cleanable
  <2> QED
    BY <1>1, <1>2, <2>1 DEF IInv, CleanedScopes, Cleanable, Desired, passVars
<1>8. NothingAfterDone'
  BY <1>1, <1>2 DEF IInv, NothingAfterDone, DoneMeansGone
<1> QED
  BY <1>3, <1>4, <1>5, <1>6, <1>7, <1>8 DEF IInv

-----------------------------------------------------------------------------

\* What the invariant says of the objects.
Promises == KnownObjects /\ DeletedResults /\ NothingAfterDone

\* A delete pass records anything but success without endangering the
\* promises, whatever the call does to the object at hand.
LEMMA UnsuccessfulDelete ==
  ASSUME IInv, TypeOK', NEW o \in Objects, AtObject("delete", o),
         NEW r \in {"requested", "blocked", "failed"}, Record(o, r),
         world' = world \/ (/\ world[o] # "absent"
                            /\ world' = [world EXCEPT ![o] = Removed(o)])
  PROVE  Promises'
<1>1. /\ result' = [result EXCEPT ![o] = r]
      /\ mode = "delete" /\ mode' = mode /\ cfg' = cfg /\ done' = done
      /\ result \in [Objects -> Results] /\ world \in [Objects -> States]
  BY DEF Record, AtObject, IInv, TypeOK
<1>2. \A p \in Objects : /\ world[p] = "absent" => world'[p] = "absent"
                         /\ p # o => world'[p] = world[p]
  BY <1>1
<1>3. KnownObjects'
  BY <1>2 DEF IInv, KnownObjects
<1>4. DeletedResults'
  <2> SUFFICES ASSUME NEW p \in Objects, result'[p] = "deleted"
               PROVE  \/ world'[p] = "absent"
                      \/ p \in Created /\ \E h \in Creators : StillReported(h)'
    BY DEF DeletedResults
  <2>1. result[p] = "deleted"
    BY <1>1
  <2>2. \A h \in Creators : StillReported(h) => StillReported(h)'
    BY <1>1, <1>2, FluxSets DEF StillReported
  <2> QED
    BY <1>1, <1>2, <2>1, <2>2 DEF IInv, DeletedResults
<1>5. NothingAfterDone'
  BY <1>1, <1>2 DEF IInv, NothingAfterDone, DoneMeansGone
<1> QED
  BY <1>3, <1>4, <1>5 DEF Promises

\* Steps of the loop over the objects.
LEMMA ObjectStepPreserves ==
  ASSUME IInv, TypeOK', NEW o \in Objects, ObjectStep(o)
  PROVE  IInv'
<1> USE DEF IInv
<1>1. ASSUME NEW d \in todo, CheckDependent(o, d) PROVE IInv'
  <2>1. /\ UNCHANGED <<world, content, deleting, done, mode, cfg, stage, pos, result,
                      cleanErr>>
        /\ todo' = todo \ {d} /\ stage = "object" /\ mode = "delete"
        /\ ~blocked' => ~blocked /\ world[d] = "absent"
    BY <1>1 DEF CheckDependent, AtObject, TypeOK
  <2>2. PassShape' /\ KnownObjects' /\ PendingResults' /\ CleanedScopes'
    BY <2>1 DEF PassShape, KnownObjects, PendingResults, CleanedScopes
  <2>3. CheckedDependents'
    BY <2>1 DEF CheckedDependents, Dependents, Desired
  <2>4. DeletedResults' /\ NothingAfterDone'
    BY <2>1 DEF DeletedResults, NothingAfterDone, DoneMeansGone, StillReported
  <2> QED
    BY <2>2, <2>3, <2>4
<1>2. CASE LeaveBlocked(o)
  <2>1. AtObject("delete", o) /\ Record(o, "blocked") /\ world' = world
    BY <1>2 DEF LeaveBlocked
  <2>2. Locals' /\ Promises'
    BY <2>1, RecordLocals, UnsuccessfulDelete DEF Results
  <2> QED
    BY <2>2 DEF Locals, Promises
<1>3. CASE DeleteObject(o)
  <2>1. CASE world[o] = "absent"
    <3>1. AtObject("delete", o) /\ Record(o, "deleted") /\ world' = world
      BY <1>3, <2>1 DEF DeleteObject
    <3>2. /\ result' = [result EXCEPT ![o] = "deleted"]
          /\ mode = "delete" /\ mode' = mode /\ done' = done
      BY <3>1 DEF Record, AtObject
    <3>3. KnownObjects' /\ NothingAfterDone'
      BY <3>1, <3>2 DEF KnownObjects, NothingAfterDone, DoneMeansGone
    <3>4. DeletedResults'
      <4>1. result[o] = "none"
        BY <3>1 DEF AtObject, PendingResults, TypeOK
      <4>2. \A h \in Creators : StillReported(h) => h # o
        BY <2>1, <4>1 DEF StillReported
      <4>3. \A h \in Creators : StillReported(h) => StillReported(h)'
        BY <3>1, <3>2, <4>2, FluxSets DEF StillReported, TypeOK
      <4> QED
        BY <2>1, <3>1, <3>2, <4>3 DEF DeletedResults, TypeOK
    <3>5. Locals'
      BY <3>1, RecordLocals DEF Results
    <3> QED
      BY <3>3, <3>4, <3>5 DEF Locals
  <2>2. CASE world[o] # "absent"
    <3>1. /\ AtObject("delete", o) /\ Record(o, "requested")
          /\ world' = [world EXCEPT ![o] = Removed(o)]
      BY <1>3, <2>2 DEF DeleteObject
    <3>2. Locals'
      BY <3>1, RecordLocals DEF Results
    <3>3. Promises'
      BY <2>2, <3>1, UnsuccessfulDelete
    <3> QED
      BY <3>2, <3>3 DEF Locals, Promises
  <2> QED
    BY <2>1, <2>2
<1>4. CASE DeleteObjectFails(o)
  <2>1. /\ AtObject("delete", o) /\ Record(o, "failed")
        /\ \/ world' = world
           \/ world[o] # "absent" /\ world' = [world EXCEPT ![o] = Removed(o)]
    BY <1>4 DEF DeleteObjectFails
  <2>2. Locals'
    BY <2>1, RecordLocals DEF Results
  <2>3. Promises'
    BY <2>1, UnsuccessfulDelete
  <2> QED
    BY <2>2, <2>3 DEF Locals, Promises
<1>5. CASE ApplyObject(o) \/ ApplyObjectFails(o)
  <2>1. /\ AtObject("apply", o)
        /\ \E r \in {"applied", "terminating", "failed"} : Record(o, r)
        /\ \/ world' = world
           \/ world' = [world EXCEPT ![o] = IF @ = "absent" THEN "present" ELSE @]
    BY <1>5 DEF ApplyObject, ApplyObjectFails, Write, Keep
  <2>2. /\ mode = "apply" /\ mode' = mode /\ done' = done
        /\ o \in Desired(cfg) /\ cfg \in Configs
    BY <2>1 DEF AtObject, Record, Desired, TypeOK
  <2>3. Locals'
    BY <2>1, RecordLocals DEF Results
  <2>4. KnownObjects'
    BY <2>1, <2>2 DEF KnownObjects, TypeOK
  <2>5. DeletedResults' /\ NothingAfterDone'
    BY <2>2 DEF DeletedResults, NothingAfterDone, DoneMeansGone, PassShape
  <2> QED
    BY <2>3, <2>4, <2>5 DEF Locals
<1> QED
  BY <1>1, <1>2, <1>3, <1>4, <1>5 DEF ObjectStep

\* Steps of the cleaners: what they delete is neither a release nor part of
\* the configuration of the pass.
LEMMA CleanerStepPreserves ==
  ASSUME IInv, TypeOK', CleanerStep
  PROVE  IInv'
<1> USE DEF IInv
<1>1. /\ cfg \in Configs /\ world \in [Objects -> States]
      /\ \A k \in DOMAIN Scopes[cfg] : Scopes[cfg][k] \subseteq Cleanable(cfg)
      /\ Cleanable(cfg) \subseteq Objects
      /\ Cleanable(cfg) \cap Creators = {}
  <2>1. cfg \in Configs /\ world \in [Objects -> States]
    BY DEF TypeOK
  <2>2. \A k \in DOMAIN Scopes[cfg] : Scopes[cfg][k] \subseteq Objects
    BY <2>1, Indices
  <2>3. Cleanable(cfg) \subseteq Objects
    BY <2>2 DEF Cleanable
  <2> QED
    BY <2>1, <2>3, CleanerAssumption DEF Cleanable
<1>2. ASSUME UNCHANGED <<deleting, done, mode, cfg, result>>,
             \/ world' = world
             \/ \E o \in Cleanable(cfg) : world' = [world EXCEPT ![o] = "absent"]
      PROVE  /\ Promises'
             /\ \A p \in Objects : world[p] = "absent" => world'[p] = "absent"
  <2>1. \A p \in Objects : world[p] = "absent" => world'[p] = "absent"
    BY <1>1, <1>2
  <2>2. \A h \in Creators : StillReported(h) => StillReported(h)'
    BY <1>1, <1>2, FluxSets DEF StillReported
  <2>3. KnownObjects' /\ NothingAfterDone'
    BY <1>2, <2>1 DEF KnownObjects, NothingAfterDone, DoneMeansGone
  <2>4. DeletedResults'
    BY <1>2, <2>1, <2>2 DEF DeletedResults
  <2> QED
    BY <2>1, <2>3, <2>4 DEF Promises
<1>3. ASSUME NEW orphans, orphans \subseteq Cleanable(cfg), Remaining(orphans),
             AtCleaner("list") \/ AtCleaner("clean"),
             \/ world' = world
             \/ \E o \in Cleanable(cfg) : world' = [world EXCEPT ![o] = "absent"],
             cleanErr => cleanErr',
             ~cleanErr' => \A o \in Scopes[cfg][pos] \ Desired(cfg) :
                              o \in orphans \/ world'[o] = "absent"
      PROVE  IInv'
  <2>1. UNCHANGED <<deleting, done, mode, cfg, result>>
    BY <1>3 DEF Remaining
  <2>2. /\ Promises'
        /\ \A p \in Objects : world[p] = "absent" => world'[p] = "absent"
    BY <1>2, <1>3, <2>1
  <2>3. Locals'
    BY <1>3, <2>2, RemainingLocals DEF AtCleaner
  <2> QED
    BY <2>2, <2>3 DEF Locals, Promises
<1>4. CASE ListOrphans
  <2> DEFINE found == {o \in Scopes[cfg][pos] \ Desired(cfg) : world[o] # "absent"}
  <2>1. /\ AtCleaner("list") /\ Remaining(found)
        /\ world' = world /\ cleanErr' = cleanErr
    BY <1>4 DEF ListOrphans
  <2>2. found \subseteq Cleanable(cfg)
    BY <1>1, <2>1 DEF AtCleaner
  <2>3. \A o \in Scopes[cfg][pos] \ Desired(cfg) : o \in found \/ world'[o] = "absent"
    BY <2>1
  <2> HIDE DEF found
  <2> QED
    BY <1>3, <2>1, <2>2, <2>3
<1>5. CASE ListOrphansFails
  <2>1. /\ AtCleaner("list") /\ Remaining({}) /\ world' = world /\ cleanErr'
    BY <1>5 DEF ListOrphansFails
  <2>2. {} \subseteq Cleanable(cfg)
    OBVIOUS
  <2> QED
    BY <1>3, <2>1, <2>2
<1>6. ASSUME NEW o \in todo, CleanOrphan(o) PROVE IInv'
  <2>1. /\ AtCleaner("clean") /\ Remaining(todo \ {o}) /\ cleanErr' = cleanErr
        /\ world' = [world EXCEPT ![o] = "absent"]
    BY <1>6 DEF CleanOrphan
  <2>2. todo \subseteq Cleanable(cfg)
    BY <2>1 DEF AtCleaner, CleanedScopes
  <2>3. ASSUME ~cleanErr, NEW p \in Scopes[cfg][pos] \ Desired(cfg)
        PROVE  p \in todo \ {o} \/ world'[p] = "absent"
    <3>1. p \in todo \/ world[p] = "absent"
      BY <2>1, <2>3 DEF AtCleaner, CleanedScopes, TypeOK
    <3>2. p \in Objects /\ o \in Objects
      BY <1>1, <2>1, <2>2 DEF AtCleaner
    <3> QED
      BY <1>1, <2>1, <3>1, <3>2
  <2> QED
    BY <1>3, <2>1, <2>2, <2>3
<1>7. ASSUME NEW o \in todo, CleanOrphanFails(o) PROVE IInv'
  <2>1. /\ AtCleaner("clean") /\ Remaining(todo \ {o}) /\ cleanErr'
        /\ world' = world \/ world' = [world EXCEPT ![o] = "absent"]
    BY <1>7 DEF CleanOrphanFails
  <2>2. todo \subseteq Cleanable(cfg)
    BY <2>1 DEF AtCleaner, CleanedScopes
  <2> QED
    BY <1>3, <2>1, <2>2
<1> QED
  BY <1>4, <1>5, <1>6, <1>7 DEF CleanerStep

-----------------------------------------------------------------------------
(***************************************************************************)
(* The main results.                                                       *)
(***************************************************************************)

\* A pass that succeeded in deleting everything found nothing of what it
\* manages and nothing of what its cleaners look after.
LEMMA CompletedPass ==
  ASSUME IInv, PassOver, mode = "delete", ~PassFailed, AllDeleted,
         NEW o \in Objects, o \in Desired(cfg) \cup Cleanable(cfg)
  PROVE  world[o] = "absent"
<1>1. /\ cfg \in Configs /\ pos \in Nat /\ pos >= 1 /\ stage = "list" /\ ~cleanErr
      /\ pos \notin DOMAIN Scopes[cfg]
  BY DEF IInv, TypeOK, PassShape, PassOver, PassFailed
<1>2. CASE o \in Desired(cfg)
  <2>1. \A h \in Creators : h \in Desired(cfg) /\ ~StillReported(h)
    BY <1>1, CreatorAssumption DEF AllDeleted, StillReported
  <2>2. result[o] = "deleted"
    BY <1>2 DEF AllDeleted
  <2> QED
    BY <2>1, <2>2 DEF IInv, DeletedResults
<1>3. CASE o \notin Desired(cfg) /\ o \in Cleanable(cfg)
  <2>2. PICK k \in DOMAIN Scopes[cfg] : o \in Scopes[cfg][k]
    BY <1>3 DEF Cleanable
  <2>3. k \in Nat /\ k < pos
    BY <1>1, <2>2, Indices
  <2> QED
    BY <1>1, <1>3, <2>2, <2>3 DEF IInv, CleanedScopes, PassOver
<1> QED
  BY <1>2, <1>3

\* The inductive invariant holds initially.
LEMMA InitIInv == Init => IInv
<1> SUFFICES ASSUME Init PROVE IInv
  OBVIOUS
<1>1. TypeOK
  BY InitTypes
<1>2. PassShape /\ PendingResults /\ CheckedDependents /\ CleanedScopes
  BY DEF Init, PassShape, PendingResults, CheckedDependents, CleanedScopes
<1>3. KnownObjects /\ DeletedResults /\ NothingAfterDone
  BY DEF Init, KnownObjects, DeletedResults, NothingAfterDone, DoneMeansGone
<1> QED
  BY <1>1, <1>2, <1>3 DEF IInv

\* Every step keeps the inductive invariant.
LEMMA NextIInv == IInv /\ [Next]_vars => IInv'
<1> SUFFICES ASSUME IInv, [Next]_vars PROVE IInv'
  OBVIOUS
<1>1. TypeOK'
  BY NextTypes DEF IInv
<1>2. ASSUME NEW c \in Configs, StartApply(c) \/ StartDelete(c) PROVE IInv'
  <2>1. /\ mode' # "idle" /\ cfg' = c /\ MoveTo(mode', cfg', 1)
        /\ (mode' = "delete" => deleting') /\ (mode' = "apply" => ~deleting')
        /\ (done' => deleting') /\ result' = NoResults
        /\ UNCHANGED <<world, content, done, faults>>
    BY <1>2 DEF StartApply, StartDelete, StartPass, IInv, PassShape
  <2>2. \A i \in DOMAIN Plan[cfg'] : result'[Plan[cfg'][i]] = "none"
    BY <1>2, <2>1, Indices DEF NoResults
  <2>3. Locals'
    BY <1>1, <2>1, <2>2, MoveToLocals
  <2>4. DeletedResults'
    BY <2>1 DEF DeletedResults, NoResults
  <2>5. KnownObjects' /\ NothingAfterDone'
    BY <2>1 DEF IInv, KnownObjects, NothingAfterDone, DoneMeansGone
  <2> QED
    BY <1>1, <2>3, <2>4, <2>5 DEF IInv, Locals
<1>3. ASSUME NEW o \in Objects, ObjectStep(o) PROVE IInv'
  BY <1>1, <1>3, ObjectStepPreserves
<1>4. CASE CleanerStep
  BY <1>1, <1>4, CleanerStepPreserves
<1>5. CASE EndPass
  <2>1. /\ PassOver
        /\ done' = (done \/ (mode = "delete" /\ ~PassFailed /\ AllDeleted))
        /\ Forget /\ UNCHANGED <<world, content, deleting, faults>>
    BY <1>5 DEF EndPass
  <2>2. ASSUME Covered, done', NEW o \in Objects PROVE world[o] = "absent"
    <3>1. CASE done
      BY <2>2, <3>1 DEF IInv, NothingAfterDone, DoneMeansGone
    <3>2. CASE ~done
      <4>1. mode = "delete" /\ ~PassFailed /\ AllDeleted
        BY <2>1, <2>2, <3>2
      <4>2. cfg \in Configs
        BY DEF IInv, TypeOK
      <4>3. world[o] # "absent" => o \in Desired(cfg) \cup Cleanable(cfg)
        BY <2>2, <4>2 DEF IInv, KnownObjects, Covered
      <4> QED
        BY <2>1, <4>1, <4>3, CompletedPass
    <3> QED
      BY <3>1, <3>2
  <2>3. done' => deleting'
    BY <2>1 DEF IInv, PassShape
  <2>4. Locals' /\ DeletedResults'
    BY <1>1, <2>1, <2>3, ForgetLocals
  <2>5. KnownObjects' /\ NothingAfterDone'
    BY <2>1, <2>2 DEF IInv, KnownObjects, NothingAfterDone, DoneMeansGone
  <2> QED
    BY <1>1, <2>4, <2>5 DEF IInv, Locals
<1>6. CASE Crash
  <2>1. /\ mode # "idle" /\ Forget /\ UNCHANGED <<world, content, deleting, done>>
    BY <1>6 DEF Crash
  <2>2. Locals' /\ DeletedResults'
    BY <1>1, <2>1, ForgetLocals DEF IInv, PassShape
  <2>3. KnownObjects' /\ NothingAfterDone'
    BY <2>1 DEF IInv, KnownObjects, NothingAfterDone, DoneMeansGone
  <2> QED
    BY <1>1, <2>2, <2>3 DEF IInv, Locals
<1>7. ASSUME NEW o \in Objects, SweepNamespace(o) \/ Finalize(o) \/ Drift(o)
      PROVE  IInv'
  <2>1. \E v \in {"terminating", "absent"} : world' = [world EXCEPT ![o] = v]
    BY <1>7 DEF SweepNamespace, Finalize, Drift, Removed
  <2>2. /\ world[o] # "absent" /\ UNCHANGED <<content, deleting, done, passVars>>
        /\ mode = "delete" /\ o \in Creators => world[o] # "present"
    BY <1>7, CreatorAssumption DEF SweepNamespace, Finalize, Drift
  <2> QED
    BY <1>1, <2>1, <2>2, RemovalPreserves
<1>8. ASSUME NEW h \in Creators, NEW o \in Created, FluxCreatesNamespace(h, o)
      PROVE  IInv'
  BY <1>1, <1>8, FluxPreserves
<1>9. CASE UNCHANGED vars
  BY <1>1, <1>9
     DEF IInv, vars, envVars, passVars, PassShape, KnownObjects, PendingResults,
         CheckedDependents, Dependents, Desired, DeletedResults, StillReported,
         CleanedScopes, Cleanable, NothingAfterDone, DoneMeansGone
<1> QED
  BY <1>2, <1>3, <1>4, <1>5, <1>6, <1>7, <1>8, <1>9
     DEF Next, PassStep, EnvironmentStep

\* The invariant holds in every reachable state.
LEMMA Inductive == Spec => []IInv
<1>1. Init => IInv
  BY InitIInv
<1>2. IInv /\ [Next]_vars => IInv'
  BY NextIInv
<1> QED
  BY <1>1, <1>2, PTL DEF Spec

\* Delete reports completion only when nothing that any pass ever created is
\* left, provided the cleaners cover what the configurations do not share.
THEOREM CompletionIsFinal ==
  ASSUME Covered
  PROVE  Spec => []DoneMeansGone
<1>1. IInv => DoneMeansGone
  BY DEF IInv, NothingAfterDone
<1> QED
  BY <1>1, Inductive, PTL

\* A pass that ends without an error leaves no orphan to the cleaners.
THEOREM CleanersComplete == Spec => []OrphansCleaned
<1>1. IInv => OrphansCleaned
  <2> SUFFICES ASSUME IInv, PassOver, ~PassFailed,
                      NEW o \in Cleanable(cfg) \ Desired(cfg)
               PROVE  world[o] = "absent"
    BY DEF OrphansCleaned
  <2>1. /\ cfg \in Configs /\ pos \in Nat /\ pos >= 1 /\ ~cleanErr
        /\ pos \notin DOMAIN Scopes[cfg] /\ mode # "idle" /\ stage = "list"
    BY DEF IInv, TypeOK, PassShape, PassOver, PassFailed
  <2>2. PICK k \in DOMAIN Scopes[cfg] : o \in Scopes[cfg][k]
    BY DEF Cleanable
  <2>3. k \in Nat /\ k < pos
    BY <2>1, <2>2, Indices
  <2> QED
    BY <2>1, <2>2, <2>3 DEF IInv, CleanedScopes
<1> QED
  BY <1>1, Inductive, PTL

\* No step deletes an object while one that depends on it exists.
THEOREM DependentsGoFirst == Spec => DependentsFirst
<1> DEFINE Deletes(o) == /\ mode = "delete"
                         /\ result[o] = "none"
                         /\ result'[o] \in {"requested", "failed"}
           Ordered == \A o \in Objects :
                        Deletes(o) => \A d \in Dependents(cfg, o) : world[d] = "absent"
<1>1. ASSUME IInv, [Next]_vars, NEW o \in Objects, Deletes(o)
      PROVE  \A d \in Dependents(cfg, o) : world[d] = "absent"
  <2>1. result' # result /\ result \in [Objects -> Results] /\ mode = "delete"
    BY <1>1 DEF IInv, TypeOK
  <2>2. PICK p \in Objects : ObjectStep(p)
    BY <1>1, <2>1
       DEF Next, PassStep, CleanerStep, ListOrphans, ListOrphansFails, CleanOrphan,
           CleanOrphanFails, Remaining, StartApply, StartDelete, StartPass, EndPass,
           Crash, Forget, NoResults, EnvironmentStep, SweepNamespace, Finalize, Drift,
           FluxCreatesNamespace, vars, passVars
  <2>3. DeleteObject(p) \/ DeleteObjectFails(p) \/ LeaveBlocked(p)
    BY <2>1, <2>2
       DEF ObjectStep, CheckDependent, ApplyObject, ApplyObjectFails, AtObject
  <2>4. AtObject("delete", p) /\ todo = {} /\ \E r : Record(p, r) /\ (blocked => r = "blocked")
    BY <2>3 DEF DeleteObject, DeleteObjectFails, LeaveBlocked
  <2>5. o = p /\ ~blocked
    BY <1>1, <2>1, <2>4 DEF Record
  <2> QED
    BY <1>1, <2>1, <2>4, <2>5 DEF IInv, CheckedDependents, AtObject
<1>2. IInv /\ [Next]_vars => [Ordered]_vars
  BY <1>1
<1> QED
  BY <1>2, Inductive, PTL DEF Spec, DependentsFirst

\* Where an object that exists comes from: it was there, the pass wrote it, or
\* Flux created it for a release; and it has the content it had, or the pass's.
LEMMA Origin ==
  ASSUME IInv, [Next]_vars, NEW o \in Objects, world'[o] # "absent"
  PROVE  /\ \/ world[o] # "absent"
            \/ mode = "apply" /\ o \in Desired(cfg) /\ content'[o] = cfg
            \/ \E h \in Creators : /\ world[h] # "absent"
                                  /\ o \in Creates[content[h]][h]
         /\ content'[o] = content[o] \/ (mode = "apply" /\ content'[o] = cfg)
<1>0. /\ world \in [Objects -> States] /\ content \in [Objects -> Configs]
      /\ Creators \subseteq Objects
  BY FluxSets DEF IInv, TypeOK
<1>1. CASE UNCHANGED <<world, content>>
  BY <1>1
<1>2. ASSUME NEW p \in Objects, ObjectStep(p), mode = "delete"
      PROVE  /\ content' = content
             /\ \/ world' = world
                \/ world[p] # "absent" /\ world' = [world EXCEPT ![p] = Removed(p)]
  BY <1>2 DEF ObjectStep, CheckDependent, LeaveBlocked, DeleteObject,
       DeleteObjectFails, ApplyObject, ApplyObjectFails, AtObject
<1>3. ASSUME NEW p \in Objects, ObjectStep(p), mode # "delete"
      PROVE  /\ mode = "apply" /\ p \in Desired(cfg)
             /\ \/ UNCHANGED <<world, content>>
                \/ /\ world' = [world EXCEPT ![p] = IF @ = "absent" THEN "present" ELSE @]
                   /\ content' = [content EXCEPT ![p] = cfg]
  BY <1>3 DEF ObjectStep, CheckDependent, LeaveBlocked, DeleteObject, Desired,
       DeleteObjectFails, ApplyObject, ApplyObjectFails, AtObject, Write, Keep
<1>4. CASE \E p \in Objects : ObjectStep(p)
  BY <1>0, <1>2, <1>3, <1>4
<1>5. CASE CleanerStep
  <2>1. content' = content
        /\ (world' = world \/ \E p \in todo : world' = [world EXCEPT ![p] = "absent"])
    BY <1>5 DEF CleanerStep, ListOrphans, ListOrphansFails, CleanOrphan,
                CleanOrphanFails, Remaining
  <2> QED
    BY <1>0, <2>1
<1>6. CASE \E p \in Objects : SweepNamespace(p) \/ Finalize(p) \/ Drift(p)
  <2>1. content' = content /\ \E p \in Objects, v \in {"terminating", "absent"} :
           world[p] # "absent" /\ world' = [world EXCEPT ![p] = v]
    BY <1>6 DEF SweepNamespace, Finalize, Drift, Removed
  <2> QED
    BY <1>0, <2>1
<1>7. ASSUME NEW h \in Creators, NEW p \in Created, FluxCreatesNamespace(h, p)
      PROVE  /\ content' = content /\ world[h] # "absent"
             /\ p \in Creates[content[h]][h]
             /\ world' = [world EXCEPT ![p] = "present"]
  BY <1>7 DEF FluxCreatesNamespace
<1>8. CASE \E h \in Creators, p \in Created : FluxCreatesNamespace(h, p)
  BY <1>0, <1>7, <1>8
<1> QED
  BY <1>1, <1>4, <1>5, <1>6, <1>8
     DEF Next, PassStep, EnvironmentStep, StartApply, StartDelete, StartPass,
         EndPass, Crash, vars, envVars

-----------------------------------------------------------------------------
(***************************************************************************)
(* The manager implements the abstract teardown.                           *)
(***************************************************************************)

Existing == {o \in Objects : world[o] # "absent"}

\* Initially nothing exists and no teardown is under way.
LEMMA InitRefines == Init => Abstract!TInit
BY DEF Init, Abstract!TInit

\* What a step may do to the objects that exist.
Grows(o)   == ~deleting /\ deleting' = deleting /\ o \notin Existing /\ Existing' = Existing \cup {o}
Returns(o) == /\ deleting' = deleting /\ Existing' = Existing \cup {o}
              /\ \E h \in Existing : o \in UNION {Creates[c][h] : c \in Configs}
Removes(o) == deleting' = deleting /\ o \in Existing /\ Existing' = Existing \ {o}
Closes     == ~deleting /\ deleting' = TRUE /\ Existing' = Existing
Stutters   == deleting' = deleting /\ Existing' = Existing

Moves == Stutters \/ Closes \/ \E o \in Objects : Grows(o) \/ Returns(o) \/ Removes(o)

\* One object terminates or goes, and no pass has written anything.
LEMMA RemovalMoves ==
  ASSUME IInv, NEW o \in Objects, deleting' = deleting,
         \/ world' = world
         \/ /\ world[o] # "absent"
            /\ \E v \in {"terminating", "absent"} : world' = [world EXCEPT ![o] = v]
  PROVE  Moves
<1>1. world \in [Objects -> States]
  BY DEF IInv, TypeOK
<1>2. CASE world' = world
  BY <1>2 DEF Moves, Stutters, Existing
<1>3. CASE world[o] # "absent" /\ world' = [world EXCEPT ![o] = "terminating"]
  <2>1. Existing' = Existing
    BY <1>1, <1>3 DEF Existing
  <2> QED
    BY <2>1 DEF Moves, Stutters
<1>4. CASE world[o] # "absent" /\ world' = [world EXCEPT ![o] = "absent"]
  <2>1. o \in Existing /\ Existing' = Existing \ {o}
    BY <1>1, <1>4 DEF Existing
  <2> QED
    BY <2>1 DEF Moves, Removes
<1> QED
  BY <1>2, <1>3, <1>4

\* In every step of the manager and of the clusters one object at most appears
\* or goes, and none is applied once a delete pass has begun.
LEMMA NextMoves ==
  ASSUME IInv, [Next]_vars
  PROVE  Moves
<1>1. /\ world \in [Objects -> States] /\ cfg \in Configs
      /\ Created \subseteq Objects /\ Creators \subseteq Objects
  BY FluxSets DEF IInv, TypeOK
<1>2. ASSUME NEW c \in Configs, StartApply(c) \/ StartDelete(c)
      PROVE  Moves
  <2>1. /\ Existing' = Existing
        /\ deleting' = deleting \/ (~deleting /\ deleting' = TRUE)
    BY <1>2 DEF StartApply, StartDelete, StartPass, Existing, IInv, TypeOK
  <2> QED
    BY <2>1 DEF Moves, Stutters, Closes
<1>3. ASSUME NEW o \in Objects, ObjectStep(o), mode = "delete"
      PROVE  Moves
  <2>1. deleting' = deleting
    BY <1>3 DEF ObjectStep, CheckDependent, LeaveBlocked, DeleteObject,
         DeleteObjectFails, ApplyObject, ApplyObjectFails, AtObject, Record
  <2>2. \/ world' = world
        \/ world[o] # "absent" /\ world' = [world EXCEPT ![o] = Removed(o)]
    BY <1>3 DEF ObjectStep, CheckDependent, LeaveBlocked, DeleteObject,
         DeleteObjectFails, ApplyObject, ApplyObjectFails, AtObject
  <2>3. Removed(o) \in {"terminating", "absent"}
    BY DEF Removed
  <2> QED
    BY <2>1, <2>2, <2>3, RemovalMoves
<1>4. ASSUME NEW o \in Objects, ObjectStep(o), mode # "delete"
      PROVE  Moves
  <2>1. /\ mode = "apply" /\ deleting' = deleting
        /\ \/ world' = world
           \/ world' = [world EXCEPT ![o] = IF @ = "absent" THEN "present" ELSE @]
    BY <1>4 DEF ObjectStep, CheckDependent, LeaveBlocked, DeleteObject,
         DeleteObjectFails, ApplyObject, ApplyObjectFails, AtObject, Record, Write, Keep
  <2>2. ~deleting
    BY <2>1 DEF IInv, PassShape
  <2>3. CASE Existing' = Existing
    BY <2>1, <2>3 DEF Moves, Stutters
  <2>4. CASE Existing' # Existing
    <3>1. world' = [world EXCEPT ![o] = IF @ = "absent" THEN "present" ELSE @]
      BY <2>1, <2>4 DEF Existing
    <3>2. o \notin Existing /\ Existing' = Existing \cup {o}
      <4>1. CASE world[o] = "absent"
        BY <1>1, <3>1, <4>1 DEF Existing
      <4>2. CASE world[o] # "absent"
        BY <1>1, <2>4, <3>1, <4>2 DEF Existing
      <4> QED
        BY <4>1, <4>2
    <3> QED
      BY <2>1, <2>2, <3>2 DEF Moves, Grows
  <2> QED
    BY <2>3, <2>4
<1>5. CASE CleanerStep
  <2>1. deleting' = deleting
    BY <1>5 DEF CleanerStep, ListOrphans, ListOrphansFails, CleanOrphan,
                CleanOrphanFails, Remaining
  <2>2. \/ world' = world
        \/ \E o \in Objects : world' = [world EXCEPT ![o] = "absent"]
    BY <1>5 DEF CleanerStep, ListOrphans, ListOrphansFails, CleanOrphan,
                CleanOrphanFails, IInv, TypeOK
  <2>3. \/ world' = world
        \/ \E o \in Objects : world[o] # "absent" /\ world' = [world EXCEPT ![o] = "absent"]
    BY <1>1, <2>2
  <2>4. CASE world' = world
    BY <2>1, <2>4 DEF Moves, Stutters, Existing
  <2> QED
    BY <2>1, <2>3, <2>4, RemovalMoves
<1>6. CASE EndPass \/ Crash \/ UNCHANGED vars
  BY <1>6 DEF EndPass, Crash, vars, envVars, Moves, Stutters, Existing
<1>7. ASSUME NEW o \in Objects, SweepNamespace(o) \/ Finalize(o) \/ Drift(o)
      PROVE  Moves
  <2>1. \E v \in {"terminating", "absent"} :
           world[o] # "absent" /\ world' = [world EXCEPT ![o] = v]
    BY <1>7 DEF SweepNamespace, Finalize, Drift, Removed
  <2>2. deleting' = deleting
    BY <1>7 DEF SweepNamespace, Finalize, Drift, passVars
  <2> QED
    BY <2>1, <2>2, RemovalMoves
<1>8. ASSUME NEW h \in Creators, NEW o \in Created, FluxCreatesNamespace(h, o)
      PROVE  Moves
  <2>1. /\ world[h] = "present" /\ o \in Creates[content[h]][h]
        /\ world' = [world EXCEPT ![o] = "present"]
        /\ deleting' = deleting
    BY <1>8 DEF FluxCreatesNamespace, passVars
  <2>2. /\ h \in Objects /\ h \in Existing
        /\ o \in UNION {Creates[c][h] : c \in Configs}
    BY <1>1, <2>1 DEF IInv, TypeOK, Existing
  <2>3. Existing' = Existing \cup {o}
    BY <1>1, <2>1 DEF Existing
  <2>4. o \in Objects
    BY <1>1
  <2> QED
    BY <2>1, <2>2, <2>3, <2>4 DEF Moves, Returns
<1> QED
  BY <1>2, <1>3, <1>4, <1>5, <1>6, <1>7, <1>8
     DEF Next, PassStep, EnvironmentStep

\* Every step is a step of the abstract teardown, or does not show there.
LEMMA NextRefines ==
  ASSUME Covered, IInv, IInv', [Next]_vars
  PROVE  [Abstract!TNext]_(Abstract!tvars)
<1>1. CASE done' = done
  <2>1. Moves
    BY NextMoves
  <2>2. CASE Stutters
    BY <1>1, <2>2 DEF Stutters, Existing, Abstract!tvars
  <2>3. CASE Closes
    BY <1>1, <2>3 DEF Closes, Existing, Abstract!TNext, Abstract!Close
  <2>4. ASSUME NEW o \in Objects, Grows(o) PROVE Abstract!TNext
    BY <1>1, <2>4 DEF Grows, Existing, Abstract!TNext, Abstract!Grow
  <2>5. ASSUME NEW o \in Objects, Returns(o) PROVE Abstract!TNext
    BY <1>1, <2>5 DEF Returns, Existing, Abstract!TNext, Abstract!Restore
  <2>6. ASSUME NEW o \in Objects, Removes(o) PROVE Abstract!TNext
    BY <1>1, <2>6 DEF Removes, Existing, Abstract!TNext, Abstract!Shrink
  <2> QED
    BY <2>1, <2>2, <2>3, <2>4, <2>5, <2>6 DEF Moves
<1>2. CASE done' # done
  <2>1. EndPass
    <3>1. ~(PassStep \/ EnvironmentStep)
      BY <1>2 DEF PassStep, EnvironmentStep, ObjectStep, CheckDependent,
         LeaveBlocked, DeleteObject, DeleteObjectFails, ApplyObject,
         ApplyObjectFails, AtObject, Record, CleanerStep, ListOrphans,
         ListOrphansFails, CleanOrphan, CleanOrphanFails, Remaining,
         SweepNamespace, Finalize, Drift, FluxCreatesNamespace, passVars
    <3>2. \A c \in Configs : ~StartApply(c) /\ ~StartDelete(c)
      BY <1>2 DEF StartApply, StartDelete, StartPass
    <3>3. ~Crash /\ ~UNCHANGED vars
      BY <1>2 DEF Crash, vars, envVars
    <3> QED
      BY <3>1, <3>2, <3>3 DEF Next
  <2>2. /\ world' = world /\ deleting' = deleting
        /\ done => done'
        /\ ~done /\ done' => mode = "delete"
    BY <2>1, Zenon DEF EndPass
  <2>3. done \in BOOLEAN /\ done' \in BOOLEAN
    BY DEF IInv, TypeOK
  <2>4. ~done /\ done' = TRUE
    BY <1>2, <2>2, <2>3
  <2>5. Existing = {} /\ deleting /\ Existing' = Existing
    BY <2>2, <2>4 DEF IInv, NothingAfterDone, DoneMeansGone, PassShape, Existing
  <2> QED
    BY <2>2, <2>4, <2>5 DEF Abstract!TNext, Abstract!Finish, Existing
<1> QED
  BY <1>1, <1>2

\* The manager implements the abstract teardown: from the first delete pass
\* on the managed objects only disappear, apart from what Flux restores, and
\* completion is reported when none is left.
THEOREM ImplementsTeardown ==
  ASSUME Covered
  PROVE  Spec => RefinesTeardown
<1>1. Init => Abstract!TInit
  BY InitRefines
<1>2. IInv /\ IInv' /\ [Next]_vars => [Abstract!TNext]_(Abstract!tvars)
  BY NextRefines
<1> QED
  BY <1>1, <1>2, Inductive, PTL DEF Spec, RefinesTeardown, Abstract!TSpec
=============================================================================
