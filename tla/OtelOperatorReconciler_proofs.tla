--------------------- MODULE OtelOperatorReconciler_proofs ---------------------
(***************************************************************************)
(* Theorems about the reconciler: it uses the manager as ResourceManager   *)
(* describes it, so that the theorems about the manager hold for it too;   *)
(* the finalizer outlives every object; the guard stops a teardown.        *)
(***************************************************************************)
EXTENDS OtelOperatorReconciler, ResourceManager_proofs

\* A pass runs exactly while the handler waits for it; no deletion starts
\* before the deletionTimestamp is there; a handler that is about to apply
\* started before any deletion; no handler runs without the finalizer.
HandlerShape ==
  /\ handler = "pass" <=> mode # "idle"
  /\ deleting => deletion
  /\ handler = "guard" => deletion
  /\ mode = "delete" => deletion
  /\ handler \in {"label", "build"} => ~deleting
  /\ handler # "idle" => finalizer

RInv == ReconcilerTypeOK /\ HandlerShape

-----------------------------------------------------------------------------
(* What every step does to the manager.                                    *)

LEMMA BuiltTypes ==
  ASSUME ReconcilerTypeOK, Buildable
  PROVE  Built \in Configs
<1>1. /\ seen \in Views /\ seen.settings \in Settings
      /\ ConfigOf \in [Settings -> [Bundles -> [Labels -> Configs]]]
  BY ReconcilerAssumption DEF ReconcilerTypeOK, Buildable, Views, SettingsOrNone
<1>2. seen.bundle \in Bundles /\ seen.label \in Labels
  BY <1>1 DEF Views
<1>3. ConfigOf[seen.settings] \in [Bundles -> [Labels -> Configs]]
  BY <1>1
<1> QED
  BY <1>2, <1>3 DEF Built

\* Every step of the reconciler is a step of the manager, or none.
LEMMA StepUsesManager ==
  ASSUME RInv, [ReconcilerNext]_lvars
  PROVE  [Next]_vars
<1>1. CASE BeginCreateOrUpdate
  BY <1>1 DEF BeginCreateOrUpdate, Begin
<1>2. CASE SetInstanceID
  BY <1>2 DEF SetInstanceID
<1>3. CASE SetInstanceIDFails
  BY <1>3 DEF SetInstanceIDFails
<1>4. CASE ApplyNotBuilt
  BY <1>4 DEF ApplyNotBuilt
<1>5. CASE BeginApplyPass
  <2>1. Built \in Configs /\ ~deleting
    BY <1>5, BuiltTypes DEF BeginApplyPass, RInv, HandlerShape
  <2>2. StartApply(Built)
    BY <1>5, <2>1 DEF BeginApplyPass, StartApply
  <2> QED
    BY <2>1, <2>2 DEF Next
<1>6. CASE EndApplyPass
  BY <1>6 DEF EndApplyPass, Next
<1>7. CASE BeginDelete
  BY <1>7 DEF BeginDelete, Begin
<1>8. CASE ListKind
  BY <1>8 DEF ListKind
<1>9. CASE ListKindFails
  BY <1>9 DEF ListKindFails
<1>10. CASE UserResourcesExist
  BY <1>10 DEF UserResourcesExist
<1>11. CASE DeleteNotBuilt
  BY <1>11 DEF DeleteNotBuilt
<1>12. CASE BeginDeletePass
  <2>1. Built \in Configs
    BY <1>12, BuiltTypes DEF BeginDeletePass, RInv
  <2> QED
    BY <1>12, <2>1 DEF BeginDeletePass, Next
<1>13. CASE EndDeletePass
  BY <1>13 DEF EndDeletePass, Next
<1>14. CASE SaveStatus
  BY <1>14 DEF SaveStatus
<1>15. CASE StatusLost
  BY <1>15 DEF StatusLost
<1>16. CASE CrashInPass
  BY <1>16 DEF CrashInPass, Next
<1>17. CASE ManagerStep
  BY <1>17 DEF ManagerStep, Next
<1>18. CASE PeopleStep
  BY <1>18 DEF PeopleStep, RequestDeletion, ChangeVersion, EditLabel, Edit,
               ChangeOffer, ChangeBundle, UserCreates, UserDeletes
<1>19. CASE UNCHANGED lvars
  BY <1>19 DEF lvars
<1> QED
  BY <1>1, <1>2, <1>3, <1>4, <1>5, <1>6, <1>7, <1>8, <1>9, <1>10, <1>11, <1>12,
     <1>13, <1>14, <1>15, <1>16, <1>17, <1>18, <1>19
     DEF ReconcilerNext, CreateOrUpdateStep, DeleteStep

-----------------------------------------------------------------------------
(* Types.                                                                  *)

LEMMA NoDraftTypes == NoDraft \in Drafts
BY DEF NoDraft, Drafts, SettingsOrNone

LEMMA NoViewTypes ==
  ASSUME NEW view \in Views
  PROVE  NoView \in Views
BY DEF NoView

LEMMA ListTypes ==
  ASSUME ReconcilerTypeOK
  PROVE  /\ Len(GuardLists) \in Nat
         /\ 0 \in 0..Len(GuardLists)
         /\ lists < Len(GuardLists) =>
              /\ lists + 1 \in 0..Len(GuardLists)
              /\ GuardLists[lists + 1] \in Kinds
<1>1. GuardLists \in Seq(Kinds) /\ lists \in 0..Len(GuardLists)
  BY ReconcilerAssumption DEF ReconcilerTypeOK
<1> QED
  BY <1>1

LEMMA LossTypes ==
  ASSUME ReconcilerTypeOK, Loss \/ UNCHANGED losses
  PROVE  losses' \in 0..MaxLosses
<1>1. MaxLosses \in Nat /\ losses \in 0..MaxLosses
  BY ReconcilerAssumption DEF ReconcilerTypeOK
<1> QED
  BY <1>1 DEF Loss

\* The handler starts, returns, or is over.
LEMMA BeginTypes ==
  ASSUME ReconcilerTypeOK, TypeOK', NEW stage0 \in {"label", "build", "guard"},
         NEW settings \in SettingsOrNone, Begin(stage0, settings),
         steady' \in SUBSET Kinds
  PROVE  ReconcilerTypeOK'
<1>1. [settings |-> settings, bundle |-> bundle, label |-> label] \in Views
  BY DEF Views, ReconcilerTypeOK
<1>2. [installed |-> installed, phase |-> "Progressing"] \in Drafts
  BY DEF Drafts, ReconcilerTypeOK
<1>3. 0 \in 0..Len(GuardLists)
  BY ListTypes
<1> QED
  BY <1>1, <1>2, <1>3 DEF Begin, ReconcilerTypeOK, providerVars

LEMMA ReturnTypes ==
  ASSUME ReconcilerTypeOK, TypeOK',
         NEW phase \in {"Progressing", "Ready", "Terminating"},
         NEW i \in SettingsOrNone, NEW next \in {"again", "finish"},
         Return(phase, i, next),
         UNCHANGED <<objectVars, providerVars, users, steady>>,
         Loss \/ UNCHANGED losses
  PROVE  ReconcilerTypeOK'
<1>1. [installed |-> i, phase |-> phase] \in Drafts
  BY DEF Drafts
<1>2. losses' \in 0..MaxLosses
  BY LossTypes
<1> QED
  BY <1>1, <1>2 DEF Return, ReconcilerTypeOK, objectVars, providerVars

LEMMA HandlerOverTypes ==
  ASSUME ReconcilerTypeOK, HandlerOver
  PROVE  /\ handler' = "idle" /\ seen' \in Views /\ lists' \in 0..Len(GuardLists)
         /\ blocking' \subseteq Kinds /\ steady' \subseteq Kinds
         /\ draft' \in Drafts /\ outcome' \in {"again", "finish"}
<1>1. NoView \in Views
  BY NoViewTypes DEF ReconcilerTypeOK
<1> QED
  BY <1>1, NoDraftTypes, ListTypes DEF HandlerOver

LEMMA DraftTypes ==
  ASSUME ReconcilerTypeOK
  PROVE  /\ draft.installed \in SettingsOrNone
         /\ seen.settings \in SettingsOrNone
         /\ offered[version] \in SettingsOrNone
         /\ ForDelete \in SettingsOrNone
BY DEF ReconcilerTypeOK, Drafts, Views, ForDelete

LEMMA ReconcilerInitTypes == ReconcilerInit => ReconcilerTypeOK
<1> SUFFICES ASSUME ReconcilerInit PROVE ReconcilerTypeOK
  OBVIOUS
<1>1. TypeOK
  BY InitTypes DEF ReconcilerInit
<1>2. NoView \in Views
  <2>1. [settings |-> NoSettings, bundle |-> bundle, label |-> label] \in Views
    BY DEF ReconcilerInit, Views, SettingsOrNone
  <2> QED
    BY <2>1, NoViewTypes
<1>3. 0 \in 0..Len(GuardLists) /\ 0 \in 0..MaxLosses
  BY ReconcilerAssumption
<1> QED
  BY <1>1, <1>2, <1>3, NoDraftTypes
     DEF ReconcilerInit, ReconcilerTypeOK, SettingsOrNone

LEMMA ReconcilerNextTypes ==
  ASSUME RInv, [ReconcilerNext]_lvars
  PROVE  ReconcilerTypeOK'
<1>0. ReconcilerTypeOK /\ TypeOK'
  BY StepUsesManager, NextTypes DEF RInv, ReconcilerTypeOK
<1>1. CASE BeginCreateOrUpdate
  BY <1>0, <1>1, BeginTypes, DraftTypes DEF BeginCreateOrUpdate, ReconcilerTypeOK
<1>2. CASE SetInstanceID
  <2>1. GeneratedID \in Labels
    BY ReconcilerAssumption
  <2>2. seen' \in Views
    BY <1>0, <1>2, <2>1 DEF SetInstanceID, ReconcilerTypeOK, Views
  <2> QED
    BY <1>0, <1>2, <2>1, <2>2 DEF SetInstanceID, ReconcilerTypeOK, providerVars
<1>3. CASE SetInstanceIDFails
  BY <1>0, <1>3, ReturnTypes, DraftTypes DEF SetInstanceIDFails
<1>4. CASE ApplyNotBuilt
  BY <1>0, <1>4, ReturnTypes, DraftTypes DEF ApplyNotBuilt
<1>5. CASE BeginApplyPass
  BY <1>0, <1>5 DEF BeginApplyPass, ReconcilerTypeOK, objectVars, providerVars
<1>6. CASE EndApplyPass
  BY <1>0, <1>6, ReturnTypes, DraftTypes DEF EndApplyPass
<1>7. CASE BeginDelete
  BY <1>0, <1>7, BeginTypes, DraftTypes DEF BeginDelete, ReconcilerTypeOK
<1>8. CASE ListKind
  <2>1. blocking' \subseteq Kinds /\ lists' \in 0..Len(GuardLists)
    BY <1>0, <1>8, ListTypes DEF ListKind, ReconcilerTypeOK
  <2> QED
    BY <1>0, <1>8, <2>1 DEF ListKind, ReconcilerTypeOK, objectVars, providerVars
<1>9. CASE ListKindFails
  BY <1>0, <1>9, ReturnTypes, DraftTypes DEF ListKindFails
<1>10. CASE UserResourcesExist
  BY <1>0, <1>10, ReturnTypes, DraftTypes DEF UserResourcesExist
<1>11. CASE DeleteNotBuilt
  BY <1>0, <1>11, ReturnTypes, DraftTypes DEF DeleteNotBuilt
<1>12. CASE BeginDeletePass
  BY <1>0, <1>12 DEF BeginDeletePass, ReconcilerTypeOK, objectVars, providerVars
<1>13. CASE EndDeletePass
  BY <1>0, <1>13, ReturnTypes, DraftTypes DEF EndDeletePass
<1>14. CASE SaveStatus
  <2>1. finalizer' \in BOOLEAN /\ installed' \in SettingsOrNone
    BY <1>0, <1>14, DraftTypes DEF SaveStatus
  <2> QED
    BY <1>0, <1>14, <2>1, HandlerOverTypes
       DEF SaveStatus, ReconcilerTypeOK, providerVars
<1>15. CASE StatusLost
  BY <1>0, <1>15, HandlerOverTypes, LossTypes
     DEF StatusLost, ReconcilerTypeOK, objectVars, providerVars
<1>16. CASE CrashInPass
  BY <1>0, <1>16, HandlerOverTypes
     DEF CrashInPass, ReconcilerTypeOK, objectVars, providerVars
<1>17. CASE ManagerStep
  BY <1>0, <1>17 DEF ManagerStep, restVars, ReconcilerTypeOK, objectVars,
                     providerVars, handlerVars
<1>18. ASSUME NEW v \in Versions, RequestDeletion \/ ChangeVersion(v)
       PROVE  ReconcilerTypeOK'
  BY <1>0, <1>18 DEF RequestDeletion, ChangeVersion, Edit, ReconcilerTypeOK,
                     providerVars, handlerVars
<1>19. ASSUME NEW l \in Labels, EditLabel(l) PROVE ReconcilerTypeOK'
  BY <1>0, <1>19 DEF EditLabel, Edit, ReconcilerTypeOK, providerVars, handlerVars
<1>20. ASSUME NEW v \in Versions, NEW x \in SettingsOrNone, ChangeOffer(v, x)
       PROVE  ReconcilerTypeOK'
  BY <1>0, <1>20 DEF ChangeOffer, ReconcilerTypeOK, objectVars, handlerVars
<1>21. ASSUME NEW b \in Bundles, ChangeBundle(b) PROVE ReconcilerTypeOK'
  BY <1>0, <1>21 DEF ChangeBundle, ReconcilerTypeOK, objectVars, handlerVars
<1>22. ASSUME NEW k \in Kinds, UserCreates(k) \/ UserDeletes(k)
       PROVE  ReconcilerTypeOK'
  BY <1>0, <1>22 DEF UserCreates, UserDeletes, ReconcilerTypeOK, objectVars,
                     providerVars, handlerVars
<1>23. CASE UNCHANGED lvars
  BY <1>0, <1>23 DEF lvars, ReconcilerTypeOK, objectVars, providerVars, handlerVars
<1>24. CASE RequestDeletion
  <2>1. version \in Versions
    BY <1>0 DEF ReconcilerTypeOK
  <2> QED
    BY <1>18, <1>24, <2>1
<1> QED
  BY <1>1, <1>2, <1>3, <1>4, <1>5, <1>6, <1>7, <1>8, <1>9, <1>10, <1>11, <1>12,
     <1>13, <1>14, <1>15, <1>16, <1>17, <1>18, <1>19, <1>20, <1>21, <1>22, <1>23,
     <1>24
     DEF ReconcilerNext, CreateOrUpdateStep, DeleteStep, PeopleStep

-----------------------------------------------------------------------------
(* Where the handlers and the manager stand.                               *)

\* Within a pass, and around it, mode, deleting and done stay as they are.
LEMMA PassStepKeeps ==
  ASSUME PassStep \/ EnvironmentStep
  PROVE  mode' = mode /\ deleting' = deleting /\ done' = done
<1>1. CASE CleanerStep
  BY <1>1 DEF CleanerStep, ListOrphans, ListOrphansFails, CleanOrphan,
              CleanOrphanFails, Remaining
<1>2. ASSUME NEW o \in Objects, ObjectStep(o)
      PROVE  mode' = mode /\ deleting' = deleting /\ done' = done
  BY <1>2 DEF ObjectStep, CheckDependent, LeaveBlocked, DeleteObject,
              DeleteObjectFails, ApplyObject, ApplyObjectFails, Record
<1>3. CASE EnvironmentStep
  BY <1>3 DEF EnvironmentStep, SweepNamespace, Finalize, Drift,
              FluxCreatesNamespace, passVars
<1> QED
  BY <1>1, <1>2, <1>3 DEF PassStep

LEMMA PassStepKeepsConfig ==
  ASSUME PassStep \/ EnvironmentStep
  PROVE  cfg' = cfg
<1>1. CASE CleanerStep
  BY <1>1 DEF CleanerStep, ListOrphans, ListOrphansFails, CleanOrphan,
              CleanOrphanFails, Remaining
<1>2. ASSUME NEW o \in Objects, ObjectStep(o) PROVE cfg' = cfg
  BY <1>2 DEF ObjectStep, CheckDependent, LeaveBlocked, DeleteObject,
              DeleteObjectFails, ApplyObject, ApplyObjectFails, Record
<1>3. CASE EnvironmentStep
  BY <1>3 DEF EnvironmentStep, SweepNamespace, Finalize, Drift,
              FluxCreatesNamespace, passVars
<1> QED
  BY <1>1, <1>2, <1>3 DEF PassStep

\* Between passes only the clusters and other people move.
LEMMA IdleManagerStep ==
  ASSUME ManagerStep, mode = "idle"
  PROVE  EnvironmentStep
BY DEF ManagerStep, PassStep, ObjectStep, CheckDependent, LeaveBlocked,
       DeleteObject, DeleteObjectFails, ApplyObject, ApplyObjectFails, AtObject,
       CleanerStep, ListOrphans, ListOrphansFails, CleanOrphan, CleanOrphanFails,
       AtCleaner

\* Steps of people and of the manager's surroundings do not move a handler.
LEMMA PeopleStepKeeps ==
  ASSUME PeopleStep
  PROVE  UNCHANGED <<vars, finalizer, installed, handlerVars, losses>>
         /\ (deletion => deletion')
BY DEF PeopleStep, RequestDeletion, ChangeVersion, EditLabel, Edit, ChangeOffer,
       ChangeBundle, UserCreates, UserDeletes, objectVars

LEMMA NextShape ==
  ASSUME RInv, [ReconcilerNext]_lvars
  PROVE  HandlerShape'
<1> USE DEF RInv, HandlerShape
<1>1. CASE BeginCreateOrUpdate
  BY <1>1 DEF BeginCreateOrUpdate, Begin, vars, envVars, passVars
<1>2. CASE SetInstanceID
  BY <1>2 DEF SetInstanceID, vars, envVars, passVars
<1>3. CASE SetInstanceIDFails
  BY <1>3 DEF SetInstanceIDFails, Return, objectVars, vars, envVars, passVars
<1>4. CASE ApplyNotBuilt
  BY <1>4 DEF ApplyNotBuilt, Return, objectVars, vars, envVars, passVars
<1>5. CASE BeginApplyPass
  BY <1>5 DEF BeginApplyPass, StartPass, objectVars
<1>6. CASE EndApplyPass
  BY <1>6 DEF EndApplyPass, EndPass, Forget, Return, objectVars
<1>7. CASE BeginDelete
  BY <1>7 DEF BeginDelete, Begin, vars, envVars, passVars
<1>8. CASE ListKind
  BY <1>8 DEF ListKind, objectVars, vars, envVars, passVars
<1>9. CASE ListKindFails
  BY <1>9 DEF ListKindFails, Return, objectVars, vars, envVars, passVars
<1>10. CASE UserResourcesExist
  BY <1>10 DEF UserResourcesExist, Return, objectVars, vars, envVars, passVars,
               GuardDone
<1>11. CASE DeleteNotBuilt
  BY <1>11 DEF DeleteNotBuilt, Return, objectVars, vars, envVars, passVars, GuardDone
<1>12. CASE BeginDeletePass
  BY <1>12 DEF BeginDeletePass, StartDelete, StartPass, objectVars, GuardDone
<1>13. CASE EndDeletePass
  BY <1>13 DEF EndDeletePass, EndPass, Forget, Return, objectVars
<1>14. CASE SaveStatus
  BY <1>14 DEF SaveStatus, HandlerOver, vars, envVars, passVars
<1>15. CASE StatusLost
  BY <1>15 DEF StatusLost, HandlerOver, objectVars, vars, envVars, passVars
<1>16. CASE CrashInPass
  BY <1>16 DEF CrashInPass, Crash, Forget, HandlerOver, objectVars
<1>17. CASE ManagerStep
  BY <1>17, PassStepKeeps DEF ManagerStep, restVars, objectVars, handlerVars
<1>18. CASE PeopleStep
  BY <1>18, PeopleStepKeeps DEF vars, envVars, passVars, handlerVars
<1>19. CASE UNCHANGED lvars
  BY <1>19 DEF lvars, vars, envVars, passVars, objectVars, handlerVars
<1> QED
  BY <1>1, <1>2, <1>3, <1>4, <1>5, <1>6, <1>7, <1>8, <1>9, <1>10, <1>11, <1>12,
     <1>13, <1>14, <1>15, <1>16, <1>17, <1>18, <1>19
     DEF ReconcilerNext, CreateOrUpdateStep, DeleteStep

LEMMA ReconcilerInductive == ReconcilerSpec => []RInv
<1>1. ReconcilerInit => RInv
  BY ReconcilerInitTypes DEF RInv, HandlerShape, ReconcilerInit, Init
<1>2. RInv /\ [ReconcilerNext]_lvars => RInv'
  BY ReconcilerNextTypes, NextShape DEF RInv
<1> QED
  BY <1>1, <1>2, PTL DEF ReconcilerSpec

\* The state of the handlers is well typed: whatever they read, were handed or
\* drafted is a value the code can hold.
THEOREM ReconcilerTypeCorrect == ReconcilerSpec => []ReconcilerTypeOK
<1>1. RInv => ReconcilerTypeOK
  BY DEF RInv
<1> QED
  BY <1>1, ReconcilerInductive, PTL

\* The handlers call the manager as ResourceManager assumes: one pass at a
\* time, and no Apply once Delete was called, in every interleaving with users,
\* administrators and restarts.  All theorems about the manager carry over.
THEOREM UsesManager == ReconcilerSpec => ManagerSpec
<1>1. ReconcilerInit => Init
  BY DEF ReconcilerInit
<1>2. RInv /\ [ReconcilerNext]_lvars => [Next]_vars
  BY StepUsesManager
<1> QED
  BY <1>1, <1>2, ReconcilerInductive, PTL DEF ReconcilerSpec, ManagerSpec, Spec

-----------------------------------------------------------------------------
(* The finalizer and the installed version.                                *)

\* The handler reports a finished deletion, and the finalizer goes, only after
\* the manager has reported completion; a record of an installed version is
\* never drafted away; Delete always has settings to work with when everybody
\* is orderly.
Kept ==
  /\ outcome = "finish" => done
  /\ ~finalizer => done
  /\ handler # "idle" /\ installed # NoSettings => draft.installed # NoSettings
  /\ handler = "pass" => seen.settings # NoSettings
  /\ offered[version] # NoSettings \/ installed # NoSettings
  /\ handler = "guard" => seen.settings # NoSettings

LEMMA DoneStays ==
  ASSUME [Next]_vars, done
  PROVE  done'
<1>1. CASE PassStep \/ EnvironmentStep
  BY <1>1, PassStepKeeps
<1>2. ASSUME NEW c \in Configs, StartApply(c) \/ StartDelete(c) PROVE done'
  BY <1>2 DEF StartApply, StartDelete, StartPass
<1>3. CASE EndPass
  BY <1>3, Zenon DEF EndPass
<1>4. CASE Crash
  BY <1>4 DEF Crash
<1>5. CASE UNCHANGED vars
  BY <1>5 DEF vars, envVars
<1> QED
  BY <1>1, <1>2, <1>3, <1>4, <1>5 DEF Next

\* A handler that starts.
LEMMA BeginKept ==
  ASSUME RInv, Kept, NEW stage0 \in {"label", "build", "guard"},
         NEW settings, stage0 = "guard" => settings # NoSettings,
         Begin(stage0, settings)
  PROVE  Kept'
<1>1. done' = done
  BY DEF Begin, vars, envVars
<1> QED
  BY <1>1 DEF Begin, Kept, providerVars

\* A handler that returns without a finished deletion.
LEMMA ReturnKept ==
  ASSUME RInv, Kept, done => done', handler # "idle",
         NEW phase, NEW i, NEW next, Return(phase, i, next),
         installed # NoSettings => i # NoSettings,
         next = "finish" => done',
         UNCHANGED <<objectVars, providerVars>>
  PROVE  Kept'
<1>1. draft'.installed = i /\ outcome' = next /\ handler' = "save"
  BY DEF Return
<1>2. /\ finalizer' = finalizer /\ installed' = installed
      /\ version' = version /\ offered' = offered
  BY DEF objectVars, providerVars
<1> QED
  BY <1>1, <1>2 DEF Kept

LEMMA HandlerOverKept ==
  ASSUME Kept, HandlerOver, done => done',
         ~finalizer' => ~finalizer \/ outcome = "finish",
         installed # NoSettings => installed' # NoSettings,
         UNCHANGED <<version, offered>>
  PROVE  Kept'
BY DEF Kept, HandlerOver

\* A step that leaves the handlers' part of Kept alone.
LEMMA OtherKept ==
  ASSUME Kept, done => done',
         UNCHANGED <<finalizer, installed, handler, seen, draft, outcome>>,
         offered'[version'] # NoSettings \/ installed # NoSettings
  PROVE  Kept'
BY DEF Kept

LEMMA NextKept ==
  ASSUME Orderly, RInv, Kept, [ReconcilerNext]_lvars
  PROVE  Kept'
<1>0. done => done'
  BY StepUsesManager, DoneStays
<1>1. CASE BeginCreateOrUpdate
  BY <1>1, BeginKept DEF BeginCreateOrUpdate
<1>2. CASE SetInstanceID
  <2>1. seen'.settings = seen.settings
    BY <1>2 DEF SetInstanceID, RInv, ReconcilerTypeOK, Views
  <2> QED
    BY <1>0, <1>2, <2>1 DEF SetInstanceID, Kept, providerVars
<1>3. CASE SetInstanceIDFails
  BY <1>0, <1>3, ReturnKept DEF SetInstanceIDFails, Kept
<1>4. CASE ApplyNotBuilt
  BY <1>0, <1>4, ReturnKept DEF ApplyNotBuilt, Kept
<1>5. CASE BeginApplyPass
  BY <1>0, <1>5 DEF BeginApplyPass, Buildable, Kept, objectVars, providerVars
<1>6. CASE EndApplyPass
  BY <1>0, <1>6, ReturnKept DEF EndApplyPass, Kept
<1>7. CASE BeginDelete
  <2>1. ForDelete # NoSettings
    BY DEF ForDelete, Kept
  <2> QED
    BY <1>7, <2>1, BeginKept DEF BeginDelete
<1>8. CASE ListKind
  BY <1>0, <1>8 DEF ListKind, Kept, objectVars, providerVars
<1>9. CASE ListKindFails
  BY <1>0, <1>9, ReturnKept DEF ListKindFails, Kept
<1>10. CASE UserResourcesExist
  BY <1>0, <1>10, ReturnKept DEF UserResourcesExist, GuardDone, Kept
<1>11. CASE DeleteNotBuilt
  <2>1. seen.settings # NoSettings
    BY <1>11 DEF DeleteNotBuilt, GuardDone, Kept
  <2> QED
    BY <1>0, <1>11, <2>1, ReturnKept DEF DeleteNotBuilt, GuardDone, Kept
<1>12. CASE BeginDeletePass
  BY <1>0, <1>12 DEF BeginDeletePass, GuardDone, Buildable, Kept,
     objectVars, providerVars
<1>13. CASE EndDeletePass
  <2>1. AllDeleted /\ ~PassFailed => done'
    BY <1>13, Zenon DEF EndDeletePass, EndPass
  <2>2. CASE PassFailed
    BY <1>0, <1>13, <2>2, ReturnKept DEF EndDeletePass, Kept
  <2>3. CASE ~PassFailed
    BY <1>0, <1>13, <2>1, <2>3, ReturnKept DEF EndDeletePass, Kept
  <2> QED
    BY <2>2, <2>3
<1>14. CASE SaveStatus
  <2>1. UNCHANGED <<version, offered>> /\ installed' = draft.installed
        /\ finalizer' = (outcome # "finish") /\ HandlerOver /\ handler = "save"
    BY <1>14 DEF SaveStatus, providerVars
  <2> QED
    BY <1>0, <2>1, HandlerOverKept DEF Kept
<1>15. CASE StatusLost
  BY <1>0, <1>15, HandlerOverKept DEF StatusLost, objectVars, providerVars
<1>16. CASE CrashInPass
  BY <1>0, <1>16, HandlerOverKept DEF CrashInPass, objectVars, providerVars
<1>17. CASE ManagerStep
  BY <1>0, <1>17, OtherKept
     DEF ManagerStep, restVars, objectVars, providerVars, handlerVars, Kept
<1>18. CASE PeopleStep
  <2>1. UNCHANGED <<finalizer, installed, handler, seen, draft, outcome>>
    BY <1>18, PeopleStepKeeps DEF handlerVars
  <2>2. offered'[version'] # NoSettings \/ installed # NoSettings
    BY <1>18 DEF PeopleStep, RequestDeletion, ChangeVersion, EditLabel, Edit,
                 ChangeOffer, ChangeBundle, UserCreates, UserDeletes, Recoverable,
                 objectVars, providerVars, Kept
  <2> QED
    BY <1>0, <2>1, <2>2, OtherKept
<1>19. CASE UNCHANGED lvars
  BY <1>0, <1>19, OtherKept
     DEF lvars, objectVars, providerVars, handlerVars, Kept
<1> QED
  BY <1>1, <1>2, <1>3, <1>4, <1>5, <1>6, <1>7, <1>8, <1>9, <1>10, <1>11, <1>12,
     <1>13, <1>14, <1>15, <1>16, <1>17, <1>18, <1>19
     DEF ReconcilerNext, CreateOrUpdateStep, DeleteStep

LEMMA KeptAlways ==
  ASSUME Orderly
  PROVE  ReconcilerSpec => []Kept
<1>1. ReconcilerInit => Kept
  BY DEF ReconcilerInit, Kept, Recoverable
<1>2. RInv /\ Kept /\ [ReconcilerNext]_lvars => Kept'
  BY NextKept
<1> QED
  BY <1>1, <1>2, ReconcilerInductive, PTL DEF ReconcilerSpec

\* Objects are only ever written for the generated label, and Delete works with
\* the label they were written for; so what exists belongs to OwnConfigs.
HomeObjects ==
  /\ \A o \in Objects : world[o] # "absent" =>
        label = GeneratedID /\ \E c \in OwnConfigs : o \in Desired(c)
  /\ \A h \in Creators : world[h] # "absent" => content[h] \in OwnConfigs

HomeHandlers ==
  /\ handler = "build" => seen.label = GeneratedID /\ label = GeneratedID
  /\ handler = "guard" => seen.label = label
  /\ mode = "apply" => cfg \in OwnConfigs /\ label = GeneratedID
  /\ mode = "delete" => cfg \in OwnConfigs \/ label # GeneratedID

Home == HomeObjects /\ HomeHandlers /\ DoneMeansGone

LEMMA OwnBuilt ==
  ASSUME ReconcilerTypeOK, Buildable, seen.label = GeneratedID
  PROVE  Built \in OwnConfigs
<1>1. seen.settings \in Settings \ Broken /\ seen.bundle \in Bundles
  BY DEF ReconcilerTypeOK, Buildable, Views, SettingsOrNone
<1> QED
  BY <1>1 DEF Built, OwnConfigs

LEMMA OwnTypes == OwnConfigs \subseteq Configs
<1> SUFFICES ASSUME NEW x \in Settings \ Broken, NEW b \in Bundles
             PROVE  ConfigOf[x][b][GeneratedID] \in Configs
  BY DEF OwnConfigs
<1>1. ConfigOf[x] \in [Bundles -> [Labels -> Configs]] /\ GeneratedID \in Labels
  BY ReconcilerAssumption
<1>2. ConfigOf[x][b] \in [Labels -> Configs]
  BY <1>1
<1> QED
  BY <1>1, <1>2

\* What appears was written by an apply pass, or by Flux for a release.
LEMMA NextHomeObjects ==
  ASSUME IInv, Home, [Next]_vars, label' = label \/ label' = GeneratedID
  PROVE  HomeObjects'
<1>1. ASSUME NEW o \in Objects, world'[o] # "absent"
      PROVE  label' = GeneratedID /\ \E c \in OwnConfigs : o \in Desired(c)
  <2>1. CASE world[o] # "absent"
    BY <2>1 DEF Home, HomeObjects
  <2>2. CASE mode = "apply" /\ o \in Desired(cfg)
    BY <2>2 DEF Home, HomeHandlers
  <2>3. ASSUME NEW h \in Creators, world[h] # "absent", o \in Creates[content[h]][h]
        PROVE  label' = GeneratedID /\ \E c \in OwnConfigs : o \in Desired(c)
    <3>1. h \in Objects /\ content[h] \in OwnConfigs /\ content[h] \in Configs
      BY <2>3, FluxSets, OwnTypes DEF Home, HomeObjects
    <3>2. o \in Desired(content[h])
      BY <2>3, <3>1, CreatorAssumption
    <3> QED
      BY <2>3, <3>1, <3>2 DEF Home, HomeObjects
  <2> QED
    BY <1>1, <2>1, <2>2, <2>3, Origin
<1>2. ASSUME NEW h \in Creators, world'[h] # "absent"
      PROVE  content'[h] \in OwnConfigs
  <2>1. h \in Objects
    BY FluxSets
  <2>2. ASSUME NEW g \in Creators, world[g] # "absent"
        PROVE  h \notin Creates[content[g]][g]
    <3>1. g \in Objects /\ content[g] \in Configs
      BY <2>2, FluxSets, OwnTypes DEF Home, HomeObjects
    <3> QED
      BY <3>1, FluxSets, CreatorAssumption
  <2>3. CASE world[h] # "absent"
    BY <1>2, <2>1, <2>3, Origin DEF Home, HomeObjects, HomeHandlers
  <2>4. CASE mode = "apply" /\ content'[h] = cfg
    BY <2>4 DEF Home, HomeHandlers
  <2> QED
    BY <1>2, <2>1, <2>2, <2>3, <2>4, Origin
<1> QED
  BY <1>1, <1>2 DEF HomeObjects

\* Once a teardown is complete nothing appears any more.
LEMMA GoneStaysGone ==
  ASSUME IInv, Home, [Next]_vars, done
  PROVE  DoneMeansGone'
<1>1. \A o \in Objects : world[o] = "absent"
  BY DEF Home, DoneMeansGone
<1>2. mode # "apply"
  BY DEF IInv, PassShape
<1>3. \A o \in Objects : world'[o] = "absent"
  BY <1>1, <1>2, Origin, FluxSets
<1> QED
  BY <1>3 DEF DoneMeansGone

\* A pass that completes a teardown was built for the label the objects carry.
LEMMA EndDeleteGone ==
  ASSUME CoveredAtHome, IInv, Home, EndDeletePass, done'
  PROVE  DoneMeansGone'
<1>1. /\ mode = "delete" /\ PassOver /\ world' = world
  BY DEF EndDeletePass, EndPass
<1>2. CASE done
  BY <1>1, <1>2 DEF Home, DoneMeansGone
<1>3. CASE ~done
  <2>1. ~PassFailed /\ AllDeleted
    BY <1>3, Zenon DEF EndDeletePass, EndPass
  <2>2. ASSUME NEW o \in Objects, world[o] # "absent"
        PROVE  o \in Desired(cfg) \cup Cleanable(cfg)
    <3>1. cfg \in OwnConfigs
      BY <1>1, <2>2 DEF Home, HomeObjects, HomeHandlers
    <3>2. PICK c \in OwnConfigs : o \in Desired(c)
      BY <2>2 DEF Home, HomeObjects
    <3> QED
      BY <3>1, <3>2 DEF CoveredAtHome
  <2>3. \A o \in Objects : world[o] = "absent"
    BY <1>1, <2>1, <2>2, CompletedPass
  <2> QED
    BY <1>1, <2>3 DEF DoneMeansGone
<1> QED
  BY <1>2, <1>3

\* A handler that has left "label", "build" and "guard" behind, or returned.
LEMMA HomeHandlersLeft ==
  ASSUME handler' \notin {"build", "guard"}, mode' = "idle"
  PROVE  HomeHandlers'
BY DEF HomeHandlers

LEMMA HomeHandlersKept ==
  ASSUME HomeHandlers, UNCHANGED <<handler, seen, label, mode, cfg>>
  PROVE  HomeHandlers'
BY DEF HomeHandlers

LEMMA NextHomeHandlers ==
  ASSUME Orderly, RInv, Home, [ReconcilerNext]_lvars
  PROVE  HomeHandlers' /\ (label' = label \/ label' = GeneratedID)
<1> USE DEF RInv, HandlerShape
<1>0. ReconcilerTypeOK /\ HomeHandlers
  BY DEF Home
<1>1. CASE BeginCreateOrUpdate
  BY <1>0, <1>1 DEF BeginCreateOrUpdate, Begin, HomeHandlers, vars, envVars, passVars
<1>2. CASE SetInstanceID
  <2>1. seen'.label = GeneratedID /\ label' = GeneratedID /\ handler' = "build"
    BY <1>0, <1>2 DEF SetInstanceID, ReconcilerTypeOK, Views
  <2>2. mode' = "idle"
    BY <1>2 DEF SetInstanceID, vars, envVars, passVars
  <2> QED
    BY <2>1, <2>2 DEF HomeHandlers
<1>3. CASE SetInstanceIDFails \/ ApplyNotBuilt
  BY <1>3, HomeHandlersLeft
     DEF SetInstanceIDFails, ApplyNotBuilt, Return, objectVars, vars, envVars, passVars
<1>4. CASE BeginApplyPass
  <2>1. Built \in OwnConfigs /\ label = GeneratedID
    BY <1>0, <1>4, OwnBuilt DEF BeginApplyPass, HomeHandlers
  <2> QED
    BY <1>4, <2>1 DEF BeginApplyPass, StartPass, HomeHandlers, objectVars
<1>5. CASE EndApplyPass \/ EndDeletePass
  <2>1. EndPass /\ handler' = "save" /\ label' = label
    BY <1>5 DEF EndApplyPass, EndDeletePass, Return, objectVars
  <2> QED
    BY <2>1, HomeHandlersLeft DEF EndPass, Forget
<1>6. CASE BeginDelete
  BY <1>0, <1>6 DEF BeginDelete, Begin, HomeHandlers, vars, envVars, passVars
<1>7. CASE ListKind
  BY <1>0, <1>7, HomeHandlersKept DEF ListKind, objectVars, vars, envVars, passVars
<1>8. CASE ListKindFails \/ UserResourcesExist \/ DeleteNotBuilt
  BY <1>8, HomeHandlersLeft
     DEF ListKindFails, UserResourcesExist, DeleteNotBuilt, GuardDone, Return,
         objectVars, vars, envVars, passVars
<1>9. CASE BeginDeletePass
  <2>1. Built \in OwnConfigs \/ label # GeneratedID
    BY <1>0, <1>9, OwnBuilt DEF BeginDeletePass, GuardDone, HomeHandlers
  <2> QED
    BY <1>9, <2>1 DEF BeginDeletePass, StartDelete, StartPass, HomeHandlers, objectVars
<1>10. CASE SaveStatus \/ StatusLost
  BY <1>10, HomeHandlersLeft
     DEF SaveStatus, StatusLost, HandlerOver, objectVars, vars, envVars, passVars
<1>11. CASE CrashInPass
  BY <1>11, HomeHandlersLeft DEF CrashInPass, Crash, Forget, HandlerOver, objectVars
<1>12. CASE ManagerStep
  BY <1>0, <1>12, PassStepKeeps, PassStepKeepsConfig, HomeHandlersKept
     DEF ManagerStep, restVars, objectVars, handlerVars
<1>13. CASE PeopleStep
  <2>1. label' = label
    BY <1>13 DEF PeopleStep, RequestDeletion, ChangeVersion, EditLabel, Edit,
                 ChangeOffer, ChangeBundle, UserCreates, UserDeletes, objectVars
  <2> QED
    BY <1>0, <1>13, <2>1, PeopleStepKeeps, HomeHandlersKept
       DEF vars, passVars, handlerVars
<1>14. CASE UNCHANGED lvars
  BY <1>0, <1>14, HomeHandlersKept
     DEF lvars, objectVars, handlerVars, vars, passVars
<1> QED
  BY <1>1, <1>2, <1>3, <1>4, <1>5, <1>6, <1>7, <1>8, <1>9, <1>10, <1>11, <1>12,
     <1>13, <1>14
     DEF ReconcilerNext, CreateOrUpdateStep, DeleteStep

\* Only the end of a delete pass completes a teardown.
LEMMA OnlyEndDelete ==
  ASSUME RInv, [ReconcilerNext]_lvars, ~done, done'
  PROVE  EndDeletePass
<1>1. CASE CreateOrUpdateStep
  <2>1. ~EndApplyPass
    BY Zenon DEF EndApplyPass, EndPass
  <2> QED
    BY <1>1, <2>1
       DEF CreateOrUpdateStep, BeginCreateOrUpdate, Begin, SetInstanceID,
           SetInstanceIDFails, ApplyNotBuilt, BeginApplyPass, StartPass, vars, envVars
<1>2. CASE DeleteStep
  BY <1>2
     DEF DeleteStep, BeginDelete, Begin, ListKind, ListKindFails,
         UserResourcesExist, DeleteNotBuilt, BeginDeletePass, StartDelete,
         StartPass, vars, envVars
<1>3. CASE SaveStatus \/ StatusLost \/ CrashInPass \/ UNCHANGED lvars
  BY <1>3 DEF SaveStatus, StatusLost, CrashInPass, Crash, lvars, vars, envVars
<1>4. CASE ManagerStep
  BY <1>4, PassStepKeeps DEF ManagerStep
<1>5. CASE PeopleStep
  BY <1>5, PeopleStepKeeps DEF vars, envVars
<1> QED
  BY <1>1, <1>2, <1>3, <1>4, <1>5 DEF ReconcilerNext

LEMMA NextHome ==
  ASSUME Orderly, CoveredAtHome, RInv, IInv, Home, [ReconcilerNext]_lvars
  PROVE  Home'
<1>1. [Next]_vars
  BY StepUsesManager
<1>2. HomeHandlers' /\ HomeObjects'
  BY <1>1, NextHomeHandlers, NextHomeObjects
<1>3. CASE done
  BY <1>1, <1>2, <1>3, GoneStaysGone DEF Home
<1>4. CASE ~done /\ done'
  BY <1>2, <1>4, OnlyEndDelete, EndDeleteGone DEF Home
<1>5. CASE ~done'
  BY <1>2, <1>5 DEF Home, DoneMeansGone
<1> QED
  BY <1>3, <1>4, <1>5

LEMMA HomeAlways ==
  ASSUME Orderly, CoveredAtHome
  PROVE  ReconcilerSpec => []Home
<1>1. ReconcilerSpec => []IInv
  BY UsesManager, Inductive, PTL DEF ManagerSpec
<1>2. ReconcilerInit => Home
  BY FluxSets DEF ReconcilerInit, Init, Home, HomeObjects, HomeHandlers, DoneMeansGone
<1>3. RInv /\ IInv /\ Home /\ [ReconcilerNext]_lvars => Home'
  BY NextHome
<1> QED
  BY <1>1, <1>2, <1>3, ReconcilerInductive, PTL DEF ReconcilerSpec

\* When the finalizer is gone, nothing that any pass ever created exists, on
\* any cluster, in every interleaving of handlers, edits and restarts - as long
\* as Delete has settings to work with and the cleaners cover what the
\* configurations of the instance differ in.
THEOREM FinalizerOutlivesObjects ==
  ASSUME Orderly, CoveredAtHome
  PROVE  ReconcilerSpec => []NothingLeftBehind
<1>1. Kept /\ Home => NothingLeftBehind
  BY DEF Kept, Home, DoneMeansGone, NothingLeftBehind
<1> QED
  BY <1>1, HomeAlways, KeptAlways, PTL

\* Only the save of a finished deletion removes the finalizer, and nothing
\* brings it back.
LEMMA FinalizerMoves ==
  ASSUME RInv, [ReconcilerNext]_lvars, Kept, finalizer' # finalizer
  PROVE  finalizer = TRUE /\ finalizer' = FALSE /\ done /\ UNCHANGED vars
<1>1. SaveStatus
  <2>1. ~CreateOrUpdateStep
    BY DEF CreateOrUpdateStep, BeginCreateOrUpdate, Begin, SetInstanceID,
       SetInstanceIDFails, ApplyNotBuilt, BeginApplyPass, EndApplyPass, objectVars
  <2>2. ~DeleteStep
    BY DEF DeleteStep, BeginDelete, Begin, ListKind, ListKindFails,
       UserResourcesExist, DeleteNotBuilt, BeginDeletePass, EndDeletePass,
       objectVars
  <2>3. ~(StatusLost \/ CrashInPass \/ ManagerStep \/ UNCHANGED lvars)
    BY DEF StatusLost, CrashInPass, ManagerStep, restVars, lvars, objectVars
  <2>4. ~PeopleStep
    BY DEF PeopleStep, RequestDeletion, ChangeVersion, EditLabel, Edit,
       ChangeOffer, ChangeBundle, UserCreates, UserDeletes, objectVars
  <2> QED
    BY <2>1, <2>2, <2>3, <2>4 DEF ReconcilerNext
<1>2. /\ finalizer' = (outcome # "finish") /\ UNCHANGED vars
      /\ finalizer \in BOOLEAN /\ handler = "save"
  BY <1>1 DEF SaveStatus, RInv, ReconcilerTypeOK
<1>3. CASE outcome = "finish"
  BY <1>2, <1>3 DEF Kept
<1>4. CASE outcome # "finish"
  BY <1>2, <1>4 DEF RInv, HandlerShape
<1> QED
  BY <1>3, <1>4

\* Every step is a step of the life of an instance, or does not show there.
LEMMA NextLives ==
  ASSUME RInv, IInv, Home, Kept, [ReconcilerNext]_lvars
  PROVE  [Lifecycle!TNext]_(Lifecycle!tvars)
<1>1. CASE finalizer' = finalizer
  <2>1. Moves
    BY StepUsesManager, NextMoves
  <2>2. CASE Stutters
    BY <1>1, <2>2 DEF Stutters, Existing, Lifecycle!tvars
  <2>3. CASE Closes
    BY <1>1, <2>3 DEF Closes, Existing, Lifecycle!TNext, Lifecycle!Close
  <2>4. ASSUME NEW o \in Objects, Grows(o) PROVE Lifecycle!TNext
    BY <1>1, <2>4 DEF Grows, Existing, Lifecycle!TNext, Lifecycle!Grow
  <2>5. ASSUME NEW o \in Objects, Returns(o) PROVE Lifecycle!TNext
    BY <1>1, <2>5 DEF Returns, Existing, Lifecycle!TNext, Lifecycle!Restore
  <2>6. ASSUME NEW o \in Objects, Removes(o) PROVE Lifecycle!TNext
    BY <1>1, <2>6 DEF Removes, Existing, Lifecycle!TNext, Lifecycle!Shrink
  <2> QED
    BY <2>1, <2>2, <2>3, <2>4, <2>5, <2>6 DEF Moves
<1>2. CASE finalizer' # finalizer
  <2>1. finalizer = TRUE /\ finalizer' = FALSE /\ done /\ UNCHANGED vars
    BY <1>2, FinalizerMoves
  <2>2. deleting /\ Existing = {}
    BY <2>1 DEF IInv, PassShape, Home, DoneMeansGone, Existing
  <2>3. Existing' = Existing /\ deleting' = deleting
    BY <2>1 DEF vars, envVars, Existing
  <2> QED
    BY <2>1, <2>2, <2>3 DEF Existing, Lifecycle!TNext, Lifecycle!Finish
<1> QED
  BY <1>1, <1>2

\* The reconciler with all that surrounds it keeps the promise of the abstract
\* teardown for an instance as a whole: nothing is applied once its first
\* delete pass has begun, and its finalizer goes only when nothing is left.
THEOREM ImplementsLifecycle ==
  ASSUME Orderly, CoveredAtHome
  PROVE  ReconcilerSpec => FinalizerEndsTeardown
<1>1. ReconcilerSpec => []IInv
  BY UsesManager, Inductive, PTL DEF ManagerSpec
<1>2. ReconcilerInit => Lifecycle!TInit
  BY DEF ReconcilerInit, Init, Lifecycle!TInit
<1>3. RInv /\ IInv /\ Home /\ Kept /\ [ReconcilerNext]_lvars
        => [Lifecycle!TNext]_(Lifecycle!tvars)
  BY NextLives
<1> QED
  BY <1>1, <1>2, <1>3, HomeAlways, KeptAlways, ReconcilerInductive, PTL
     DEF ReconcilerSpec, FinalizerEndsTeardown, Lifecycle!TSpec

-----------------------------------------------------------------------------
(* The recorded version.                                                   *)

\* Whatever an apply pass has come by has failed, or was written from the
\* configuration of the pass, unless its ReconcileFunc may keep what it finds.
Attempted ==
  mode = "apply" =>
    \A i \in DOMAIN Plan[cfg] : (stage = "object" => i < pos) =>
       \/ result[Plan[cfg][i]] = "failed"
       \/ Plan[cfg][i] \in Keeps
       \/ content[Plan[cfg][i]] = cfg

LEMMA ApplyAttempted ==
  ASSUME IInv, Attempted, NEW o \in Objects, ApplyObject(o) \/ ApplyObjectFails(o)
  PROVE  Attempted'
<1>1. /\ content \in [Objects -> Configs] /\ result \in [Objects -> Results]
      /\ cfg \in Configs /\ pos \in Nat
  BY DEF IInv, TypeOK
<1>2. mode = "apply" /\ stage = "object" /\ pos \in DOMAIN Plan[cfg] /\ o = Plan[cfg][pos]
  BY DEF ApplyObject, ApplyObjectFails, AtObject
<1>3. /\ DOMAIN Plan[cfg] = 1..Len(Plan[cfg]) /\ Len(Plan[cfg]) \in Nat
      /\ \A i \in DOMAIN Plan[cfg] : Plan[cfg][i] \in Objects
  BY <1>1, Indices
<1>4. PICK r : Record(o, r)
  BY DEF ApplyObject, ApplyObjectFails
<1>5. /\ cfg' = cfg
      /\ stage' = "object" => pos' = pos + 1
      /\ stage' # "object" => pos + 1 \notin DOMAIN Plan[cfg]
  BY <1>4 DEF Record, MoveTo
<1>6. /\ \A p \in Objects : p # o => result'[p] = result[p] /\ content'[p] = content[p]
      /\ result'[o] = "failed" \/ o \in Keeps \/ content'[o] = cfg
  BY <1>1 DEF ApplyObject, ApplyObjectFails, Write, Keep, Record
<1>7. ASSUME NEW i \in DOMAIN Plan[cfg], stage' = "object" => i < pos'
      PROVE  \/ result'[Plan[cfg][i]] = "failed"
             \/ Plan[cfg][i] \in Keeps
             \/ content'[Plan[cfg][i]] = cfg
  <2>1. i \in Nat /\ i <= pos
    BY <1>1, <1>2, <1>3, <1>5, <1>7
  <2>2. CASE Plan[cfg][i] = o
    BY <1>6, <2>2
  <2>3. CASE Plan[cfg][i] # o
    <3>1. i < pos
      BY <1>1, <1>2, <2>1, <2>3
    <3>2. \/ result[Plan[cfg][i]] = "failed"
          \/ Plan[cfg][i] \in Keeps
          \/ content[Plan[cfg][i]] = cfg
      BY <1>2, <1>7, <3>1 DEF Attempted
    <3> QED
      BY <1>3, <1>6, <1>7, <2>3, <3>2
  <2> QED
    BY <2>2, <2>3
<1> QED
  BY <1>5, <1>7 DEF Attempted

LEMMA NextAttempted ==
  ASSUME IInv, Attempted, [Next]_vars
  PROVE  Attempted'
<1>1. ASSUME NEW c \in Configs, StartApply(c) PROVE Attempted'
  <2>1. DOMAIN Plan[c] = 1..Len(Plan[c]) /\ Len(Plan[c]) \in Nat
    BY Indices
  <2>2. /\ cfg' = c
        /\ stage' = "object" => pos' = 1
        /\ stage' # "object" => 1 \notin DOMAIN Plan[c]
    BY <1>1 DEF StartApply, StartPass, MoveTo
  <2>3. \A i \in DOMAIN Plan[c] : ~(stage' = "object" => i < pos')
    BY <2>1, <2>2
  <2> QED
    BY <2>2, <2>3 DEF Attempted
<1>2. ASSUME NEW c \in Configs, StartDelete(c) PROVE Attempted'
  BY <1>2 DEF StartDelete, StartPass, Attempted
<1>3. ASSUME NEW o \in Objects, ObjectStep(o), mode = "delete" PROVE Attempted'
  BY <1>3, PassStepKeeps DEF PassStep, Attempted
<1>4. ASSUME NEW o \in Objects, ObjectStep(o), mode # "delete"
      PROVE  ApplyObject(o) \/ ApplyObjectFails(o)
  BY <1>4 DEF ObjectStep, CheckDependent, LeaveBlocked, DeleteObject,
              DeleteObjectFails, AtObject
<1>5. CASE CleanerStep
  BY <1>5 DEF CleanerStep, ListOrphans, ListOrphansFails, CleanOrphan,
              CleanOrphanFails, Remaining, AtCleaner, Attempted
<1>6. CASE EndPass \/ Crash
  BY <1>6 DEF EndPass, Crash, Forget, Attempted
<1>7. CASE EnvironmentStep
  BY <1>7 DEF EnvironmentStep, SweepNamespace, Finalize, Drift,
              FluxCreatesNamespace, passVars, Attempted
<1>8. CASE UNCHANGED vars
  BY <1>8 DEF vars, envVars, passVars, Attempted
<1> QED
  BY <1>1, <1>2, <1>3, <1>4, <1>5, <1>6, <1>7, <1>8, ApplyAttempted
     DEF Next, PassStep

\* An apply pass that ends without an error has written all it manages.
LEMMA PassWrites ==
  ASSUME IInv, Attempted, OrphansCleaned, PassOver, mode = "apply", ~PassFailed
  PROVE  AsWritten(cfg)
<1>1. stage = "list"
  BY DEF PassOver
<1>2. ASSUME NEW o \in Desired(cfg) \ Keeps PROVE content[o] = cfg
  <2>1. PICK i \in DOMAIN Plan[cfg] : o = Plan[cfg][i]
    BY DEF Desired
  <2> QED
    BY <1>1, <2>1 DEF PassFailed, Attempted
<1> QED
  BY <1>2 DEF OrphansCleaned, AsWritten

\* What the clusters and other people do later brings no orphan back.
LEMMA WrittenStays ==
  ASSUME EnvironmentStep, TypeOK, NEW c \in Configs, AsWritten(c)
  PROVE  /\ \A o \in Desired(c) \ Keeps : content'[o] = c
         /\ \A o \in Cleanable(c) \ Desired(c) : world'[o] = "absent"
<1>1. content' = content /\ world \in [Objects -> States]
  BY DEF TypeOK, EnvironmentStep, SweepNamespace, Finalize, Drift, FluxCreatesNamespace
<1>2. Cleanable(c) \subseteq Objects /\ Cleanable(c) \cap Created = {}
  BY DerivedSets, CleanerAssumption, Indices DEF Cleanable
<1>3. \A o \in Objects \ Created : world[o] = "absent" => world'[o] = "absent"
  BY <1>1 DEF EnvironmentStep, SweepNamespace, Finalize, Drift, FluxCreatesNamespace
<1> QED
  BY <1>1, <1>2, <1>3 DEF AsWritten

\* A pass works with the configuration its handler has built.  Until a handler
\* returns it has not changed its copy of the record; one that is about to save
\* another version has seen a pass for it through.
Recorded ==
  /\ handler = "pass" => Buildable /\ cfg = Built
  /\ handler \notin {"idle", "save"} => draft.installed = installed
  /\ handler = "save" /\ draft.installed # installed =>
       draft.installed = seen.settings /\ Buildable /\ AsWritten(Built)

LEMMA ReturnRecorded ==
  ASSUME Recorded, handler \notin {"idle", "save"}, UNCHANGED installed,
         NEW phase, NEW next, Return(phase, draft.installed, next)
  PROVE  Recorded'
BY DEF Return, Recorded

LEMMA NextRecorded ==
  ASSUME RInv, IInv, Attempted, OrphansCleaned, Recorded, [ReconcilerNext]_lvars
  PROVE  Recorded'
<1> USE DEF RInv, HandlerShape
<1>1. CASE EndApplyPass
  <2>1. /\ PassOver /\ mode = "apply" /\ handler = "pass" /\ Buildable /\ cfg = Built
        /\ draft.installed = installed
        /\ UNCHANGED <<seen, installed, content, world>> /\ handler' = "save"
    BY <1>1 DEF EndApplyPass, EndPass, Return, objectVars, Recorded
  <2>2. \/ draft'.installed = installed
        \/ draft'.installed = seen.settings /\ ~PassFailed
    BY <1>1, <2>1 DEF EndApplyPass, Return
  <2>3. ~PassFailed => AsWritten(Built)
    BY <2>1, PassWrites
  <2> QED
    BY <2>1, <2>2, <2>3 DEF Recorded, Buildable, Built, AsWritten
<1>2. CASE EndDeletePass
  BY <1>2, ReturnRecorded DEF EndDeletePass, objectVars
<1>3. CASE SetInstanceIDFails \/ ApplyNotBuilt \/ ListKindFails \/ UserResourcesExist
           \/ DeleteNotBuilt
  BY <1>3, ReturnRecorded DEF SetInstanceIDFails, ApplyNotBuilt, ListKindFails,
     UserResourcesExist, DeleteNotBuilt, GuardDone, objectVars
<1>4. CASE BeginCreateOrUpdate \/ BeginDelete
  BY <1>4 DEF BeginCreateOrUpdate, BeginDelete, Begin, Recorded
<1>5. CASE SetInstanceID \/ ListKind
  BY <1>5 DEF SetInstanceID, ListKind, objectVars, Recorded
<1>6. CASE BeginApplyPass \/ BeginDeletePass
  BY <1>6 DEF BeginApplyPass, BeginDeletePass, GuardDone, StartPass, StartDelete,
     objectVars, Recorded, Buildable, Built
<1>7. CASE SaveStatus \/ StatusLost \/ CrashInPass
  BY <1>7 DEF SaveStatus, StatusLost, CrashInPass, HandlerOver, Recorded
<1>8. CASE ManagerStep
  <2>1. UNCHANGED <<handler, draft, seen, installed, cfg>>
    BY <1>8, PassStepKeepsConfig DEF ManagerStep, restVars, handlerVars, objectVars
  <2>2. ASSUME handler = "save", draft.installed # installed
        PROVE  AsWritten(Built)'
    <3>1. EnvironmentStep
      BY <1>8, <2>2, IdleManagerStep
    <3>2. Built \in Configs
      BY <2>2, BuiltTypes DEF Recorded
    <3>3. AsWritten(Built)
      BY <2>2 DEF Recorded
    <3>4. /\ \A o \in Desired(Built) \ Keeps : content'[o] = Built
          /\ \A o \in Cleanable(Built) \ Desired(Built) : world'[o] = "absent"
      BY <3>1, <3>2, <3>3, WrittenStays DEF IInv
    <3> QED
      BY <2>1, <3>4 DEF AsWritten, Built
  <2> QED
    BY <2>1, <2>2 DEF Recorded, Buildable, Built
<1>9. CASE PeopleStep \/ UNCHANGED lvars
  <2>1. UNCHANGED <<vars, handlerVars, installed>>
    BY <1>9, PeopleStepKeeps DEF lvars, objectVars
  <2> QED
    BY <2>1 DEF Recorded, Buildable, Built, AsWritten, vars, envVars, passVars,
       handlerVars
<1> QED
  BY <1>1, <1>2, <1>3, <1>4, <1>5, <1>6, <1>7, <1>8, <1>9
     DEF ReconcilerNext, CreateOrUpdateStep, DeleteStep

\* The record changes only when a handler saves what it has drafted.
LEMMA OnlySaveRecords ==
  ASSUME [ReconcilerNext]_lvars, installed' # installed
  PROVE  SaveStatus
<1>1. CASE PeopleStep
  BY <1>1, PeopleStepKeeps
<1>2. CASE UNCHANGED lvars
  BY <1>2 DEF lvars, objectVars
<1>3. CASE ManagerStep \/ StatusLost \/ CrashInPass
  BY <1>3 DEF ManagerStep, restVars, StatusLost, CrashInPass, objectVars
<1>4. CASE CreateOrUpdateStep
  BY <1>4 DEF CreateOrUpdateStep, BeginCreateOrUpdate, Begin, SetInstanceID,
     SetInstanceIDFails, ApplyNotBuilt, BeginApplyPass, EndApplyPass, objectVars
<1>5. CASE DeleteStep
  BY <1>5 DEF DeleteStep, BeginDelete, Begin, ListKind, ListKindFails,
     UserResourcesExist, DeleteNotBuilt, BeginDeletePass, EndDeletePass, objectVars
<1> QED
  BY <1>1, <1>2, <1>3, <1>4, <1>5 DEF ReconcilerNext

\* A version is recorded as installed only after a pass has written its objects
\* and cleaned up without an error, and no save takes a record away: whoever
\* edits, deletes or withdraws what meanwhile, and whatever fails or is lost.
THEOREM RecordIsTrue == ReconcilerSpec => InstalledIsWritten
<1>1. ReconcilerSpec => []IInv /\ []OrphansCleaned
  BY UsesManager, Inductive, CleanersComplete, PTL DEF ManagerSpec
<1>2. ReconcilerInit => Attempted /\ Recorded
  BY DEF ReconcilerInit, Init, Attempted, Recorded
<1>3. RInv /\ IInv /\ OrphansCleaned /\ Attempted /\ Recorded /\ [ReconcilerNext]_lvars
        => Attempted' /\ Recorded'
  BY StepUsesManager, NextAttempted, NextRecorded
<1>4. Recorded /\ [ReconcilerNext]_lvars
        => [installed' # installed =>
              installed' = seen.settings /\ Buildable /\ AsWritten(Built)]_lvars
  <2>1. ASSUME Recorded, [ReconcilerNext]_lvars, installed' # installed
        PROVE  installed' = seen.settings /\ Buildable /\ AsWritten(Built)
    BY <2>1, OnlySaveRecords DEF SaveStatus, Recorded
  <2> QED
    BY <2>1
<1> QED
  BY <1>1, <1>2, <1>3, <1>4, ReconcilerInductive, PTL
     DEF ReconcilerSpec, InstalledIsWritten

-----------------------------------------------------------------------------
(* The guard of Delete.                                                    *)

\* What the lists made so far have established: a kind that has had instances
\* ever since the guard began, and that has been listed, was found.
GuardSound ==
  handler = "guard" =>
    /\ steady \subseteq users
    /\ \A i \in 1..lists : GuardLists[i] \in steady => GuardLists[i] \in blocking

\* A step of the guard or around it, which lists no kind.
LEMMA GuardUndisturbed ==
  ASSUME GuardSound, handler' = "guard" => handler = "guard",
         UNCHANGED <<users, steady, lists, blocking>>
  PROVE  GuardSound'
BY DEF GuardSound

LEMMA GuardLeft ==
  ASSUME handler' # "guard"
  PROVE  GuardSound'
BY DEF GuardSound

LEMMA ListKindSound ==
  ASSUME ReconcilerTypeOK, GuardSound, ListKind
  PROVE  GuardSound'
<1>1. /\ handler = "guard" /\ lists' = lists + 1 /\ lists < Len(GuardLists)
      /\ blocking' = blocking \cup ({GuardLists[lists + 1]} \cap users)
      /\ users' = users /\ steady' = steady
  BY DEF ListKind
<1>2. lists \in Nat /\ Len(GuardLists) \in Nat
  BY ReconcilerAssumption DEF ReconcilerTypeOK
<1>3. steady' \subseteq users'
  BY <1>1 DEF GuardSound
<1>4. ASSUME NEW i \in 1..lists', GuardLists[i] \in steady'
      PROVE  GuardLists[i] \in blocking'
  <2>1. CASE i = lists + 1
    BY <1>1, <1>3, <1>4, <2>1
  <2>2. CASE i # lists + 1
    <3>1. i \in 1..lists
      BY <1>1, <1>2, <1>4, <2>2
    <3> QED
      BY <1>1, <1>4, <3>1 DEF GuardSound
  <2> QED
    BY <2>1, <2>2
<1> QED
  BY <1>3, <1>4 DEF GuardSound

LEMMA PeopleGuardSound ==
  ASSUME GuardSound, PeopleStep
  PROVE  GuardSound'
<1>1. handler' = handler /\ lists' = lists /\ blocking' = blocking
  BY PeopleStepKeeps DEF handlerVars
<1>2. CASE UNCHANGED <<users, steady>>
  BY <1>1, <1>2, GuardUndisturbed
<1>3. ASSUME NEW k \in Kinds, UserCreates(k) PROVE GuardSound'
  BY <1>1, <1>3 DEF UserCreates, GuardSound
<1>4. ASSUME NEW k \in Kinds, UserDeletes(k) PROVE GuardSound'
  BY <1>1, <1>4 DEF UserDeletes, GuardSound
<1> QED
  BY <1>2, <1>3, <1>4
     DEF PeopleStep, RequestDeletion, ChangeVersion, EditLabel, Edit,
         ChangeOffer, ChangeBundle

LEMMA NextGuardSound ==
  ASSUME RInv, GuardSound, [ReconcilerNext]_lvars
  PROVE  GuardSound'
<1>0. ReconcilerTypeOK
  BY DEF RInv
<1>1. CASE CreateOrUpdateStep
  <2>1. CASE BeginCreateOrUpdate
    BY <2>1, GuardLeft DEF BeginCreateOrUpdate, Begin
  <2>2. CASE SetInstanceID \/ BeginApplyPass
    BY <2>2, GuardLeft DEF SetInstanceID, BeginApplyPass
  <2>3. CASE SetInstanceIDFails \/ ApplyNotBuilt
    BY <2>3, GuardLeft DEF SetInstanceIDFails, ApplyNotBuilt, Return
  <2>4. CASE EndApplyPass
    BY <2>4, GuardLeft DEF EndApplyPass, Return
  <2> QED
    BY <1>1, <2>1, <2>2, <2>3, <2>4 DEF CreateOrUpdateStep
<1>2. CASE DeleteStep
  <2>1. CASE BeginDelete
    <3>1. steady' = users /\ users' = users /\ lists' = 0
      BY <2>1 DEF BeginDelete, Begin
    <3> QED
      BY <3>1 DEF GuardSound
  <2>2. CASE ListKind
    BY <1>0, <2>2, ListKindSound
  <2>3. CASE ListKindFails \/ UserResourcesExist \/ DeleteNotBuilt
    BY <2>3, GuardLeft DEF ListKindFails, UserResourcesExist, DeleteNotBuilt, Return
  <2>4. CASE BeginDeletePass
    BY <2>4, GuardLeft DEF BeginDeletePass
  <2>5. CASE EndDeletePass
    BY <2>5, GuardLeft DEF EndDeletePass, Return
  <2> QED
    BY <1>2, <2>1, <2>2, <2>3, <2>4, <2>5 DEF DeleteStep
<1>3. CASE SaveStatus \/ StatusLost \/ CrashInPass
  BY <1>3, GuardLeft DEF SaveStatus, StatusLost, CrashInPass, HandlerOver
<1>4. CASE ManagerStep \/ UNCHANGED lvars
  BY <1>4, GuardUndisturbed DEF ManagerStep, restVars, lvars, handlerVars
<1>5. CASE PeopleStep
  BY <1>5, PeopleGuardSound
<1> QED
  BY <1>1, <1>2, <1>3, <1>4, <1>5 DEF ReconcilerNext

\* A kind with instances ever since the guard began keeps Delete from touching
\* any object, whatever users create and delete between two list calls, and in
\* whatever order the kinds are listed.
THEOREM GuardStopsTeardown == ReconcilerSpec => GuardStops
<1>1. ReconcilerInit => GuardSound
  BY DEF ReconcilerInit, GuardSound
<1>2. RInv /\ GuardSound /\ [ReconcilerNext]_lvars => GuardSound'
  BY NextGuardSound
<1>3. ASSUME RInv, GuardSound, BeginDeletePass
      PROVE  steady = {}
  <2>1. handler = "guard" /\ lists = Len(GuardLists) /\ blocking = {}
    BY <1>3 DEF BeginDeletePass, GuardDone
  <2>2. ASSUME NEW k \in steady PROVE FALSE
    <3>1. k \in Kinds
      BY <1>3 DEF RInv, ReconcilerTypeOK
    <3>2. PICK i \in 1..Len(GuardLists) : GuardLists[i] = k
      BY <3>1, ReconcilerAssumption
    <3> QED
      BY <1>3, <2>1, <3>2 DEF GuardSound
  <2> QED
    BY <2>2
<1>4. RInv /\ GuardSound /\ [ReconcilerNext]_lvars
        => [BeginDeletePass => steady = {}]_lvars
  BY <1>3
<1> QED
  BY <1>1, <1>2, <1>4, ReconcilerInductive, PTL DEF ReconcilerSpec, GuardStops

-----------------------------------------------------------------------------
(* Ready means present.                                                    *)

\* As long as no call failed, nobody interfered and nothing was deleted on
\* purpose, nothing terminates, and what the pass applied stays; the cleaners
\* leave the configuration of the pass alone.
Untouched ==
  /\ mode # "idle" /\ stage = "clean" => todo \cap Desired(cfg) = {}
  /\ faults = 0 /\ ~deleting =>
       /\ \A o \in Objects : world[o] # "terminating"
       /\ mode = "apply" =>
            \A o \in Objects \cap Desired(cfg) :
               result[o] = "applied" => world[o] = "present"

LEMMA FaultsCount ==
  ASSUME TypeOK, faults' = 0
  PROVE  ~Fault
BY ShapeAssumption DEF TypeOK, Fault

LEMMA MoveToStage ==
  ASSUME NEW m, NEW c, NEW i, MoveTo(m, c, i)
  PROVE  stage' \in {"object", "list"}
BY DEF MoveTo

\* One object of an apply pass.
LEMMA ApplyUntouched ==
  ASSUME IInv, Untouched, NEW o \in Objects, ApplyObject(o) \/ ApplyObjectFails(o)
  PROVE  Untouched'
<1>1. /\ world \in [Objects -> States] /\ result \in [Objects -> Results]
      /\ AtObject("apply", o) /\ mode = "apply" /\ ~deleting
  BY DEF IInv, TypeOK, PassShape, ApplyObject, ApplyObjectFails, AtObject
<1>2. PICK r : Record(o, r)
  BY DEF ApplyObject, ApplyObjectFails
<1>3. stage' \in {"object", "list"} /\ cfg' = cfg /\ mode' = mode /\ deleting' = deleting
  BY <1>2, MoveToStage DEF Record
<1>4. CASE faults' # 0
  BY <1>3, <1>4 DEF Untouched
<1>5. CASE faults' = 0
  <2>1. ApplyObject(o) /\ faults = 0
    BY <1>5, FaultsCount DEF IInv, ApplyObject, ApplyObjectFails
  <2>2. \A p \in Objects : world[p] \in {"absent", "present"}
    BY <1>1, <2>1 DEF Untouched, States
  <2>3. /\ \A p \in Objects : world'[p] # "terminating"
        /\ \A p \in Objects : p # o => world'[p] = world[p] /\ result'[p] = result[p]
        /\ result'[o] = "applied" => world'[o] = "present"
    BY <1>1, <2>1, <2>2 DEF ApplyObject, Write, Keep, Record
  <2>4. \A p \in Objects \cap Desired(cfg) :
           result'[p] = "applied" => world'[p] = "present"
    BY <1>1, <2>1, <2>3 DEF Untouched
  <2> QED
    BY <1>3, <2>3, <2>4 DEF Untouched, Desired
<1> QED
  BY <1>4, <1>5

LEMMA CleanerUntouched ==
  ASSUME IInv, Untouched, CleanerStep
  PROVE  Untouched'
<1>1. /\ UNCHANGED <<deleting, mode, cfg, result>> /\ mode # "idle"
      /\ world \in [Objects -> States]
      /\ stage' = "clean" => todo' \cap Desired(cfg) = {}
  BY DEF IInv, TypeOK, CleanerStep, ListOrphans, ListOrphansFails, CleanOrphan,
         CleanOrphanFails, Remaining, AtCleaner, Untouched
<1>2. \/ world' = world
      \/ \E o \in todo : stage = "clean" /\ world' = [world EXCEPT ![o] = "absent"]
  BY DEF CleanerStep, ListOrphans, ListOrphansFails, CleanOrphan,
         CleanOrphanFails, AtCleaner
<1>3. faults' = 0 => faults = 0
  BY FaultsCount DEF IInv, CleanerStep, ListOrphans, ListOrphansFails, CleanOrphan,
                     CleanOrphanFails
<1>4. \A o \in Objects : /\ world'[o] \in {world[o], "absent"}
                         /\ o \in Desired(cfg) => world'[o] = world[o]
  BY <1>1, <1>2 DEF Untouched
<1> QED
  BY <1>1, <1>3, <1>4 DEF Untouched, Desired

\* Without faults the clusters change nothing but what Flux creates.
LEMMA EnvironmentKeeps ==
  ASSUME IInv, Untouched, EnvironmentStep, faults' = 0, ~deleting
  PROVE  /\ faults = 0
         /\ \A o \in Objects : world'[o] \in {world[o], "present"}
<1>1. world \in [Objects -> States] /\ Created \subseteq Objects
  BY FluxSets DEF IInv, TypeOK
<1>2. \A o \in Objects : ~Drift(o)
  BY FaultsCount DEF Drift, IInv
<1>3. faults = 0
  BY <1>2 DEF EnvironmentStep, SweepNamespace, Finalize, FluxCreatesNamespace
<1>4. \A o \in Objects : world[o] # "terminating"
  BY <1>3 DEF Untouched
<1>5. \A o \in Objects : ~Finalize(o) /\ ~SweepNamespace(o)
  BY <1>4, ShapeAssumption DEF Finalize, SweepNamespace
<1>6. \E o \in Created : world' = [world EXCEPT ![o] = "present"]
  BY <1>2, <1>5 DEF EnvironmentStep, FluxCreatesNamespace
<1> QED
  BY <1>1, <1>3, <1>6

LEMMA EnvironmentUntouched ==
  ASSUME IInv, Untouched, EnvironmentStep
  PROVE  Untouched'
<1>1. UNCHANGED <<deleting, passVars>> /\ world \in [Objects -> States]
  BY DEF IInv, TypeOK, EnvironmentStep, SweepNamespace, Finalize, Drift,
         FluxCreatesNamespace, passVars
<1>2. faults' = 0 /\ ~deleting =>
         faults = 0 /\ \A o \in Objects : world'[o] \in {world[o], "present"}
  BY EnvironmentKeeps
<1> QED
  BY <1>1, <1>2 DEF Untouched, Desired, passVars

LEMMA NextUntouched ==
  ASSUME IInv, Untouched, [Next]_vars
  PROVE  Untouched'
<1>1. ASSUME NEW c \in Configs, StartApply(c) PROVE Untouched'
  <2>1. /\ result' = NoResults /\ UNCHANGED <<world, faults, deleting>>
        /\ stage' \in {"object", "list"}
    BY <1>1, MoveToStage DEF StartApply, StartPass
  <2> QED
    BY <2>1 DEF Untouched, NoResults
<1>2. ASSUME NEW c \in Configs, StartDelete(c) PROVE Untouched'
  BY <1>2, MoveToStage DEF StartDelete, StartPass, Untouched
<1>3. ASSUME NEW o \in Objects, NEW d \in todo, CheckDependent(o, d) PROVE Untouched'
  <2>1. stage' = "object" /\ deleting'
    BY <1>3 DEF CheckDependent, AtObject, IInv, PassShape
  <2> QED
    BY <2>1 DEF Untouched
<1>4. ASSUME NEW o \in Objects, LeaveBlocked(o) \/ DeleteObject(o) \/ DeleteObjectFails(o)
      PROVE  Untouched'
  <2>1. mode = "delete" /\ \E r : Record(o, r)
    BY <1>4 DEF LeaveBlocked, DeleteObject, DeleteObjectFails, AtObject
  <2>2. stage' \in {"object", "list"} /\ deleting'
    BY <2>1, MoveToStage DEF Record, IInv, PassShape
  <2> QED
    BY <2>2 DEF Untouched
<1>5. CASE EndPass \/ Crash
  <2>1. /\ Forget /\ UNCHANGED <<world, deleting>>
        /\ faults' = 0 => faults = 0
    BY <1>5, FaultsCount DEF EndPass, Crash, IInv
  <2> QED
    BY <2>1 DEF Forget, Untouched
<1>6. CASE UNCHANGED vars
  BY <1>6 DEF vars, envVars, passVars, Untouched, Desired
<1> QED
  BY <1>1, <1>2, <1>3, <1>4, <1>5, <1>6, ApplyUntouched, CleanerUntouched,
     EnvironmentUntouched
     DEF Next, PassStep, ObjectStep

\* A handler that is about to report Ready.
Reported ==
  handler = "save" /\ draft.phase = "Ready" /\ faults = 0 =>
    ~deleting /\ \A o \in Objects \cap Desired(cfg) : world[o] = "present"

LEMMA NotReady ==
  ASSUME handler' # "save" \/ draft'.phase # "Ready"
  PROVE  Reported'
BY DEF Reported

LEMMA NextReported ==
  ASSUME RInv, IInv, Untouched, Reported, [ReconcilerNext]_lvars
  PROVE  Reported'
<1> USE DEF RInv, HandlerShape
<1>1. CASE EndApplyPass
  <2>1. /\ UNCHANGED <<world, deleting, faults, cfg>> /\ ~deleting /\ mode = "apply"
    BY <1>1 DEF EndApplyPass, EndPass, Forget, IInv, PassShape
  <2>2. draft'.phase = "Ready" => \A o \in Desired(cfg) : result[o] = "applied"
    BY <1>1 DEF EndApplyPass, Return
  <2>3. ASSUME draft'.phase = "Ready", faults = 0, NEW o \in Objects \cap Desired(cfg)
        PROVE  world[o] = "present"
    BY <2>1, <2>2, <2>3 DEF Untouched
  <2> QED
    BY <2>1, <2>3 DEF Reported, Desired
<1>2. CASE EndDeletePass
  BY <1>2, NotReady DEF EndDeletePass, Return
<1>3. CASE SetInstanceIDFails \/ ApplyNotBuilt \/ ListKindFails \/ UserResourcesExist
           \/ DeleteNotBuilt
  BY <1>3, NotReady DEF SetInstanceIDFails, ApplyNotBuilt, ListKindFails,
                        UserResourcesExist, DeleteNotBuilt, Return
<1>4. CASE BeginCreateOrUpdate \/ BeginDelete
  BY <1>4, NotReady DEF BeginCreateOrUpdate, BeginDelete, Begin
<1>5. CASE SetInstanceID \/ BeginApplyPass \/ ListKind \/ BeginDeletePass
  BY <1>5, NotReady DEF SetInstanceID, BeginApplyPass, ListKind, BeginDeletePass
<1>6. CASE SaveStatus \/ StatusLost \/ CrashInPass
  BY <1>6, NotReady DEF SaveStatus, StatusLost, CrashInPass, HandlerOver
<1>7. CASE ManagerStep
  <2>1. UNCHANGED <<handler, draft>>
    BY <1>7 DEF ManagerStep, restVars, handlerVars
  <2>2. CASE handler # "save"
    BY <2>1, <2>2, NotReady
  <2>3. CASE handler = "save"
    <3>1. EnvironmentStep
      BY <1>7, <2>3, IdleManagerStep
    <3>2. /\ UNCHANGED <<deleting, cfg>> /\ world \in [Objects -> States]
      BY <3>1 DEF EnvironmentStep, SweepNamespace, Finalize, Drift,
                  FluxCreatesNamespace, passVars, IInv, TypeOK
    <3>3. faults' = 0 /\ ~deleting =>
             \A o \in Objects : world'[o] \in {world[o], "present"}
      BY <3>1, EnvironmentKeeps
    <3>4. faults' = 0 => faults = 0
      BY <3>1, FaultsCount DEF EnvironmentStep, SweepNamespace, Finalize, Drift,
                               FluxCreatesNamespace, IInv
    <3> QED
      BY <2>1, <3>2, <3>3, <3>4 DEF Reported, Desired
  <2> QED
    BY <2>2, <2>3
<1>8. CASE PeopleStep \/ UNCHANGED lvars
  <2>1. UNCHANGED <<vars, handlerVars>>
    BY <1>8, PeopleStepKeeps DEF lvars
  <2> QED
    BY <2>1 DEF Reported, Desired, vars, envVars, passVars, handlerVars
<1> QED
  BY <1>1, <1>2, <1>3, <1>4, <1>5, <1>6, <1>7, <1>8
     DEF ReconcilerNext, CreateOrUpdateStep, DeleteStep

\* Ready is reported only of a configuration whose objects are all there, as
\* long as no call failed and nobody interfered.
THEOREM ReadyIsTrue == ReconcilerSpec => []ReadyMeansPresent
<1>1. ReconcilerSpec => []IInv
  BY UsesManager, Inductive, PTL DEF ManagerSpec
<1>2. ReconcilerInit => Untouched /\ Reported
  BY DEF ReconcilerInit, Init, Untouched, Reported
<1>3. RInv /\ IInv /\ Untouched /\ Reported /\ [ReconcilerNext]_lvars
        => Untouched' /\ Reported'
  BY StepUsesManager, NextUntouched, NextReported
<1>4. IInv /\ Reported => ReadyMeansPresent
  <2>1. IInv => Desired(cfg) \subseteq Objects
    BY Indices DEF IInv, TypeOK, Desired
  <2> QED
    BY <2>1 DEF Reported, ReadyMeansPresent
<1> QED
  BY <1>1, <1>2, <1>3, <1>4, ReconcilerInductive, PTL DEF ReconcilerSpec
=============================================================================
