-------------------------- MODULE HelmValues_proofs --------------------------
(***************************************************************************)
(* Proofs about HelmValues, for every set of values an administrator may   *)
(* write, every reference and any number of faults.                        *)
(***************************************************************************)
EXTENDS HelmLists_proofs

(* Where the forced values sit, so that a later stage finds and keeps them. *)
Shaped(v) ==
    /\ DisabledComponents \cup {Operator, "crds"} \subseteq DOMAIN v
    /\ {"enabled", "crds", "automountServiceAccountToken", "manager"}
            \subseteq DOMAIN v[Operator]
    /\ "featureGatesMap" \in DOMAIN v[Operator]["manager"]
    /\ "enabled" \in DOMAIN v["defaultCRConfig"]

InHand == stage \in {"workload", "auth", "built"}

Topologies ==
    /\ InHand => Forced(built) /\ Shaped(built)
    /\ SplitTopology

(* A pass that applied everything has left a release of the settings.      *)
Mounted ==
    /\ stage \in {"idle", "workload", "auth", "built", "applied", "failed"}
    /\ stage = "applied" =>
        /\ workloadRelease # NoRelease
        /\ "custom-ca-bundle" \in workloadRelease.patches <=> caRef # None
        /\ caRef # None => bundle
    /\ BundleMounted

-----------------------------------------------------------------------------
(* JSON objects *)

(* A merged object has the keys of both, and the values of the first.      *)
LEMMA MergeAt ==
    ASSUME NEW new, NEW old
    PROVE  /\ DOMAIN Merge(new, old) = DOMAIN new \cup DOMAIN old
           /\ \A k \in DOMAIN new : Merge(new, old)[k] = new[k]
           /\ \A k \in DOMAIN old \ DOMAIN new : Merge(new, old)[k] = old[k]
BY DEF Merge

(* An object with a key other than that of null is read as it is.          *)
LEMMA OpenAt ==
    ASSUME NEW o, NEW k \in DOMAIN o, NEW j \in DOMAIN o[k], j # "null"
    PROVE  Open(o, k) = o[k]
<1>1. DOMAIN Null = {"null"}
  BY DEF Null
<1>2. o[k] # Null
  BY <1>1
<1> QED
  BY <1>2 DEF Open

-----------------------------------------------------------------------------
(* The three stages *)

(* The workload values have the forced values, whatever the user wrote.    *)
LEMMA WorkloadForced ==
    ASSUME NEW root, NEW v, v = WorkloadHelmValues(root)
    PROVE  Forced(v) /\ Shaped(v)
<1> DEFINE op == Open(root, Operator)
           forced == ForcedOperator(Open(op, "manager"))
           base == SetKubeStackDisabledDefaults(root)
           crds == [installOtel |-> FALSE, installPrometheus |-> FALSE]
<1>1. v = Set(Set(base, "crds", crds), Operator, Merge(forced, op))
  BY DEF WorkloadHelmValues, Topology
<1>2. /\ DisabledComponents \subseteq DOMAIN base
      /\ \A c \in DisabledComponents \ {"collectors"} : base[c] = [enabled |-> FALSE]
      /\ base["collectors"] = [daemon |-> [enabled |-> FALSE]]
  <2> HIDE DEF base
  <2> DEFINE off == [c \in DisabledComponents |->
                        IF c = "collectors" THEN [daemon |-> [enabled |-> FALSE]]
                                            ELSE [enabled |-> FALSE]]
  <2>1. base = Merge(off, root)
    BY DEF base, SetKubeStackDisabledDefaults
  <2>2. DOMAIN off = DisabledComponents
    OBVIOUS
  <2>3. "collectors" \in DisabledComponents
    BY DEF DisabledComponents
  <2>4. \A c \in DisabledComponents : base[c] = off[c]
    <3> HIDE DEF off
    <3> QED
      BY <2>1, <2>2, MergeAt
  <2>5. DisabledComponents \subseteq DOMAIN base
    <3> HIDE DEF off
    <3> QED
      BY <2>1, <2>2, MergeAt
  <2> QED
    BY <2>3, <2>4, <2>5
<1>3. /\ DOMAIN forced = {"enabled", "crds", "automountServiceAccountToken", "manager"}
      /\ forced["enabled"] = TRUE
      /\ forced["crds"] = [create |-> FALSE]
      /\ forced["automountServiceAccountToken"] = FALSE
      /\ forced["manager"] = Merge([featureGatesMap |-> [networkpolicy |-> FALSE]],
                                   Open(op, "manager"))
  BY DEF ForcedOperator
<1>4. /\ "featureGatesMap" \in DOMAIN forced["manager"]
      /\ forced["manager"]["featureGatesMap"] = [networkpolicy |-> FALSE]
  BY <1>3 DEF Merge
<1>5. /\ DOMAIN forced \subseteq DOMAIN Merge(forced, op)
      /\ \A k \in DOMAIN forced : Merge(forced, op)[k] = forced[k]
  <2> HIDE DEF forced, op
  <2> QED
    BY MergeAt
<1>6. /\ DisabledComponents \cup {Operator, "crds"} \subseteq DOMAIN v
      /\ v[Operator] = Merge(forced, op)
      /\ v["crds"] = crds
      /\ \A c \in DisabledComponents : v[c] = base[c]
  <2> HIDE DEF forced, op, base, crds
  <2>1. Operator # "crds" /\ \A c \in DisabledComponents : c # Operator /\ c # "crds"
    BY DEF Operator, DisabledComponents
  <2> DEFINE w == Set(base, "crds", crds)
  <2>2. /\ DOMAIN w = DOMAIN base \cup {"crds"}
        /\ w["crds"] = crds
        /\ \A j \in DOMAIN base \ {"crds"} : w[j] = base[j]
    BY DEF Set
  <2>3. /\ DOMAIN v = DOMAIN w \cup {Operator}
        /\ v[Operator] = Merge(forced, op)
        /\ \A j \in DOMAIN w \ {Operator} : v[j] = w[j]
    <3> HIDE DEF w
    <3> QED
      BY <1>1 DEF Set, w
  <2> HIDE DEF w
  <2> QED
    BY <2>1, <2>2, <2>3, <1>2
<1>7. "defaultCRConfig" \in DisabledComponents \ {"collectors"} /\ "collectors" \in DisabledComponents
  BY DEF DisabledComponents
<1>8. v["defaultCRConfig"] = [enabled |-> FALSE]
  <2> HIDE DEF base
  <2> QED
    BY <1>2, <1>6, <1>7
<1>9. Shaped(v)
  <2> HIDE DEF forced, base, op
  <2> QED
    BY <1>3, <1>4, <1>5, <1>6, <1>8 DEF Shaped
<1>10. Forced(v)
  <2> HIDE DEF forced, base, op
  <2> QED
    BY <1>2, <1>3, <1>4, <1>5, <1>6, <1>7, <1>8 DEF Forced
<1> QED
  BY <1>9, <1>10

(* The variables of the operator's manager are the only thing a stage that *)
(* injects some changes.                                                   *)
LEMMA InjectKeeps ==
    ASSUME NEW root, NEW new, NEW v, v = InjectIntoManager(root, new),
           Forced(root), Shaped(root)
    PROVE  Forced(v) /\ Shaped(v)
<1> DEFINE op == root[Operator]
           manager == op["manager"]
           envs == RemoveConflictingAndAppend(Open(manager, "extraEnvs"), new)
<1>1. Open(root, Operator) = op
  BY OpenAt DEF Shaped
<1>2. Open(op, "manager") = manager
  BY OpenAt DEF Shaped
<1>3. v = Set(root, Operator, Set(op, "manager", Set(manager, "extraEnvs", envs)))
  BY <1>1, <1>2 DEF InjectIntoManager
<1> DEFINE manager2 == Set(manager, "extraEnvs", envs)
           op2 == Set(op, "manager", manager2)
<1>4. /\ "featureGatesMap" \in DOMAIN manager2
      /\ manager2["featureGatesMap"] = manager["featureGatesMap"]
  <2> HIDE DEF envs
  <2> QED
    BY DEF Shaped, Set
<1>5. /\ DOMAIN op \subseteq DOMAIN op2
      /\ op2["manager"] = manager2
      /\ \A k \in DOMAIN op \ {"manager"} : op2[k] = op[k]
  <2> HIDE DEF manager2, op
  <2> QED
    BY DEF Set
<1>6. /\ DOMAIN root \subseteq DOMAIN v
      /\ v[Operator] = op2
      /\ \A k \in DOMAIN root \ {Operator} : v[k] = root[k]
  <2> HIDE DEF op2
  <2> QED
    BY <1>3 DEF Set, op2
<1>7. \A c \in DisabledComponents \cup {"crds"} : c # Operator
  BY DEF DisabledComponents, Operator
<1>8. "collectors" \in DisabledComponents /\ "defaultCRConfig" \in DisabledComponents
  BY DEF DisabledComponents
<1> HIDE DEF manager2, op2
<1>9. Shaped(v)
  BY <1>4, <1>5, <1>6, <1>7, <1>8 DEF Shaped
<1>10. Forced(v)
  BY <1>4, <1>5, <1>6, <1>7, <1>8 DEF Forced, Shaped
<1> QED
  BY <1>9, <1>10

(* The kubeconfig of the collectors is added next to what disables them.   *)
LEMMA CollectorsKeep ==
    ASSUME NEW root, NEW v, v = InjectKubeconfigIntoDefaultCRConfig(root),
           Forced(root), Shaped(root)
    PROVE  Forced(v) /\ Shaped(v)
<1> DEFINE config == root["defaultCRConfig"]
           With(key, new) == RemoveConflictingAndAppend(Open(config, key), <<new>>)
           added == [env |-> With("env", CollectorEnv),
                     volumeMounts |-> With("volumeMounts", KubeconfigVolume),
                     volumes |-> With("volumes", KubeconfigVolume)]
<1>1. "collectors" \in DisabledComponents /\ "defaultCRConfig" \in DisabledComponents
  BY DEF DisabledComponents
<1>2. Open(root, "defaultCRConfig") = config
  BY <1>1, OpenAt DEF Shaped
<1>3. /\ v = Set(root, "defaultCRConfig", Merge(added, config))
      /\ DOMAIN added = {"env", "volumeMounts", "volumes"}
  BY <1>2 DEF InjectKubeconfigIntoDefaultCRConfig
<1> DEFINE config2 == Merge(added, config)
<1> HIDE DEF added
<1>4. "enabled" \in DOMAIN config2 /\ config2["enabled"] = config["enabled"]
  BY <1>3 DEF Shaped, Merge
<1>5. /\ DOMAIN root \subseteq DOMAIN v
      /\ v["defaultCRConfig"] = config2
      /\ \A k \in DOMAIN root \ {"defaultCRConfig"} : v[k] = root[k]
  <2> HIDE DEF config2
  <2> QED
    BY <1>3 DEF Set, config2
<1>6. Operator # "defaultCRConfig"
  BY DEF Operator
<1> HIDE DEF config2
<1>7. Shaped(v)
  BY <1>1, <1>4, <1>5, <1>6 DEF Shaped
<1>8. Forced(v)
  BY <1>1, <1>4, <1>5, <1>6 DEF Forced, Shaped
<1> QED
  BY <1>7, <1>8

(* The control plane's release installs the CRDs and no operator.          *)
LEMMA CRDValues ==
    /\ CRDHelmValues["crds"]["installOtel"] = TRUE
    /\ CRDHelmValues[Operator] = [enabled |-> FALSE]
<1> DEFINE w == Set(SetKubeStackDisabledDefaults(Empty), "crds",
                    [installOtel |-> TRUE, installPrometheus |-> FALSE])
<1>1. CRDHelmValues = Set(w, Operator, [enabled |-> FALSE])
  BY DEF CRDHelmValues, Topology
<1>2. "crds" \in DOMAIN w /\ w["crds"]["installOtel"] = TRUE
  BY DEF Set
<1>3. "crds" # Operator
  BY DEF Operator
<1> HIDE DEF w
<1> QED
  BY <1>1, <1>2, <1>3 DEF Set

-----------------------------------------------------------------------------
(* Passes *)

(* The forced values are in the values from the first stage on, and stay.  *)
LEMMA TopologyStep ==
    ASSUME Topologies, [Next]_vars
    PROVE  Topologies'
<1> USE DEF Topologies, SplitTopology, InHand
<1>1. CASE Edit
  BY <1>1 DEF Edit, cluster
<1>2. CASE Build
  <2>1. Forced(built') /\ Shaped(built')
    BY <1>2, WorkloadForced DEF Build
  <2> QED
    BY <1>2, <2>1 DEF Build, cluster
<1>3. CASE AddAuth
  <2>1. PICK half : half = InjectIntoManager(built, AuthEnvs)
    OBVIOUS
  <2>2. Forced(half) /\ Shaped(half)
    BY <1>3, <2>1, InjectKeeps DEF AddAuth
  <2>3. built' = InjectKubeconfigIntoDefaultCRConfig(half)
    BY <1>3, <2>1 DEF AddAuth, AddAuthToHelmValues
  <2>4. Forced(built') /\ Shaped(built')
    BY <2>2, <2>3, CollectorsKeep
  <2> QED
    BY <1>3, <2>4 DEF AddAuth, cluster
<1>4. CASE AddCA
  <2>1. Forced(built') /\ Shaped(built')
    BY <1>4, InjectKeeps DEF AddCA, AddCAHelmValues
  <2> QED
    BY <1>4, <2>1 DEF AddCA, cluster
<1>5. CASE Refuse \/ Panic
  BY <1>5 DEF Refuse, Panic, cluster
<1>6. ASSUME NEW failing, Apply(failing), stage' \in {"applied", "failed"}
      PROVE  Topologies'
  BY <1>6, CRDValues DEF Apply, WorkloadSpec
<1>7. CASE ApplyAll \/ ApplySome
  BY <1>6, <1>7 DEF ApplyAll, ApplySome
<1>8. CASE Clean \/ CleanFails
  BY <1>8 DEF Clean, CleanFails, cluster
<1>9. CASE UNCHANGED vars
  BY <1>9 DEF vars, cluster
<1> QED
  BY <1>1, <1>2, <1>3, <1>4, <1>5, <1>7, <1>8, <1>9 DEF Next

(* Whatever values an administrator writes, one release installs the CRDs  *)
(* and the other runs the operator with the values it needs.               *)
THEOREM TopologyIsSplit == Spec => []SplitTopology
<1>1. Init => Topologies
  BY DEF Init, Topologies, SplitTopology, InHand
<1>2. Topologies /\ [Next]_vars => Topologies'
  BY TopologyStep
<1>3. Topologies => SplitTopology
  BY DEF Topologies
<1> QED
  BY <1>1, <1>2, <1>3, PTL DEF Spec

-----------------------------------------------------------------------------

(* A pass without errors leaves the copy of the bundle and its mount       *)
(* together, and nothing but the next pass touches either.                 *)
LEMMA MountedStep ==
    ASSUME Mounted, [Next]_vars
    PROVE  Mounted'
<1> USE DEF Mounted, BundleMounted
<1>1. CASE Edit
  BY <1>1 DEF Edit, cluster
<1>2. CASE Build \/ AddAuth \/ AddCA
  BY <1>2 DEF Build, AddAuth, AddCA, settings, cluster
<1>3. CASE Refuse \/ Panic
  BY <1>3 DEF Refuse, Panic, settings, cluster
<1>4. CASE ApplyAll
  BY <1>4 DEF ApplyAll, Apply, WorkloadSpec, Patches, NoRelease, settings
<1>5. CASE ApplySome
  BY <1>5 DEF ApplySome, Apply, WorkloadSpec, Patches, NoRelease, settings
<1>6. CASE Clean
  BY <1>6 DEF Clean, CleanBundle, settings
<1>7. CASE CleanFails
  BY <1>7 DEF CleanFails, settings, cluster
<1>8. CASE UNCHANGED vars
  BY <1>8 DEF vars, settings, cluster
<1> QED
  BY <1>1, <1>2, <1>3, <1>4, <1>5, <1>6, <1>7, <1>8 DEF Next

(* After a pass without an error the bundle is copied exactly if mounted.  *)
THEOREM BundleIsMounted == Spec => []BundleMounted
<1>1. Init => Mounted
  BY DEF Init, Mounted, BundleMounted, NoRelease
<1>2. Mounted /\ [Next]_vars => Mounted'
  BY MountedStep
<1>3. Mounted => BundleMounted
  BY DEF Mounted
<1> QED
  BY <1>1, <1>2, <1>3, PTL DEF Spec

-----------------------------------------------------------------------------
(* What the stages leave of the user's values *)

(* The workload values keep what the user wrote beside the forced ones.    *)
LEMMA WorkloadCarries ==
    ASSUME NEW root, NEW v, v = WorkloadHelmValues(root)
    PROVE  /\ Carries(root, v)
           /\ Open(v[Operator]["manager"], "extraEnvs")
                  = Open(Open(Open(root, Operator), "manager"), "extraEnvs")
<1> DEFINE op == Open(root, Operator)
           manager == Open(op, "manager")
           gates == [featureGatesMap |-> [networkpolicy |-> FALSE]]
           forced == ForcedOperator(manager)
           base == SetKubeStackDisabledDefaults(root)
           crds == [installOtel |-> FALSE, installPrometheus |-> FALSE]
<1>1. v = Set(Set(base, "crds", crds), Operator, Merge(forced, op))
  BY DEF WorkloadHelmValues, Topology
<1>2. /\ DOMAIN forced = {"enabled", "crds", "automountServiceAccountToken", "manager"}
      /\ forced["manager"] = Merge(gates, manager)
      /\ DOMAIN ForcedOperator(Empty) = DOMAIN forced
  BY DEF ForcedOperator
<1>3. \A k \in DOMAIN root \ DisabledComponents : k \in DOMAIN base /\ base[k] = root[k]
  <2> DEFINE off == [c \in DisabledComponents |->
                        IF c = "collectors" THEN [daemon |-> [enabled |-> FALSE]]
                                            ELSE [enabled |-> FALSE]]
  <2>1. base = Merge(off, root)
    BY DEF SetKubeStackDisabledDefaults
  <2>2. DOMAIN off = DisabledComponents
    OBVIOUS
  <2> HIDE DEF off, base
  <2>3. /\ DOMAIN Merge(off, root) = DOMAIN off \cup DOMAIN root
        /\ \A k \in DOMAIN root \ DOMAIN off : Merge(off, root)[k] = root[k]
    BY MergeAt
  <2> QED
    BY <2>1, <2>2, <2>3
<1>4. /\ v[Operator] = Merge(forced, op)
      /\ \A k \in DOMAIN base \ {Operator, "crds"} : k \in DOMAIN v /\ v[k] = base[k]
  <2> HIDE DEF forced, op, base, crds
  <2> QED
    BY <1>1 DEF Set
<1>5. KeepsAll(root, v, DOMAIN root \ (DisabledComponents \cup {Operator, "crds"}))
  <2> HIDE DEF base
  <2> QED
    BY <1>3, <1>4 DEF KeepsAll
<1> HIDE DEF base
<1>6. /\ KeepsAll(op, v[Operator], DOMAIN op \ DOMAIN ForcedOperator(Empty))
      /\ v[Operator]["manager"] = Merge(gates, manager)
  <2> HIDE DEF forced, op, manager, gates
  <2>1. /\ DOMAIN Merge(forced, op) = DOMAIN forced \cup DOMAIN op
        /\ \A k \in DOMAIN forced : Merge(forced, op)[k] = forced[k]
        /\ \A k \in DOMAIN op \ DOMAIN forced : Merge(forced, op)[k] = op[k]
    BY MergeAt
  <2> QED
    BY <1>2, <1>4, <2>1 DEF KeepsAll
<1>7. DOMAIN gates = {"featureGatesMap"}
  OBVIOUS
<1> HIDE DEF forced, op, gates, manager
<1>8. /\ DOMAIN Merge(gates, manager) = DOMAIN gates \cup DOMAIN manager
      /\ \A k \in DOMAIN manager \ DOMAIN gates : Merge(gates, manager)[k] = manager[k]
  BY MergeAt
<1>9. KeepsAll(manager, v[Operator]["manager"],
               DOMAIN manager \ {"featureGatesMap", "extraEnvs"})
  BY <1>6, <1>7, <1>8 DEF KeepsAll
<1>10. Open(v[Operator]["manager"], "extraEnvs") = Open(manager, "extraEnvs")
  BY <1>6, <1>7, <1>8 DEF Open
<1> QED
  BY <1>5, <1>6, <1>9, <1>10 DEF Carries, op, manager

(* A stage that injects variables touches nothing else.                    *)
LEMMA InjectCarries ==
    ASSUME NEW old, NEW root, NEW new, NEW v, v = InjectIntoManager(root, new),
           Shaped(root), Carries(old, root)
    PROVE  /\ Carries(old, v)
           /\ "extraEnvs" \in DOMAIN v[Operator]["manager"]
           /\ EnvsOf(v[Operator]) =
                  RemoveConflictingAndAppend(Open(root[Operator]["manager"], "extraEnvs"), new)
<1> DEFINE op == root[Operator]
           manager == op["manager"]
           envs == RemoveConflictingAndAppend(Open(manager, "extraEnvs"), new)
           manager2 == Set(manager, "extraEnvs", envs)
           op2 == Set(op, "manager", manager2)
<1>1. Open(root, Operator) = op
  BY OpenAt DEF Shaped
<1>2. Open(op, "manager") = manager
  BY OpenAt DEF Shaped
<1>3. v = Set(root, Operator, op2)
  BY <1>1, <1>2 DEF InjectIntoManager
<1>4. /\ "extraEnvs" \in DOMAIN manager2 /\ manager2["extraEnvs"] = envs
      /\ \A k \in DOMAIN manager \ {"extraEnvs"} :
              k \in DOMAIN manager2 /\ manager2[k] = manager[k]
  <2> HIDE DEF envs, manager
  <2> QED
    BY DEF Set
<1>5. /\ op2["manager"] = manager2
      /\ \A k \in DOMAIN op \ {"manager"} : k \in DOMAIN op2 /\ op2[k] = op[k]
  <2> HIDE DEF manager2, op
  <2> QED
    BY DEF Set
<1>6. /\ v[Operator] = op2
      /\ \A k \in DOMAIN root \ {Operator} : k \in DOMAIN v /\ v[k] = root[k]
  <2> HIDE DEF op2
  <2> QED
    BY <1>3 DEF Set
<1> HIDE DEF manager2, op2, envs
<1>7. "manager" \in DOMAIN ForcedOperator(Empty)
  BY DEF ForcedOperator
<1>8. Carries(old, v)
  BY <1>4, <1>5, <1>6, <1>7 DEF Carries, KeepsAll
<1> QED
  BY <1>4, <1>5, <1>6, <1>8 DEF EnvsOf, envs

(* The kubeconfig of the collectors is added to values that are forced.    *)
LEMMA CollectorsCarry ==
    ASSUME NEW old, NEW root, NEW v, v = InjectKubeconfigIntoDefaultCRConfig(root),
           Shaped(root), Carries(old, root)
    PROVE  Carries(old, v) /\ v[Operator] = root[Operator]
<1>1. PICK config : v = Set(root, "defaultCRConfig", config)
  BY DEF InjectKubeconfigIntoDefaultCRConfig
<1>2. Operator # "defaultCRConfig" /\ "defaultCRConfig" \in DisabledComponents
  BY DEF Operator, DisabledComponents
<1>3. \A k \in DOMAIN root \ {"defaultCRConfig"} : k \in DOMAIN v /\ v[k] = root[k]
  BY <1>1 DEF Set
<1>4. Operator \in DOMAIN root
  BY DEF Shaped
<1> QED
  BY <1>2, <1>3, <1>4 DEF Carries, KeepsAll

-----------------------------------------------------------------------------
(* The values a pass prepares *)

(* The variables of a release: those of the user and the four injected.    *)
ReleaseEnv == EnvVar \cup {HostEnv, PortEnv, KubeconfigEnv, CAEnv}

InjectedList(ref) == IF ref = None THEN AuthEnvs ELSE Append(AuthEnvs, CAEnv)

LEMMA InjectedNames ==
    /\ HostEnv.name = "KUBERNETES_SERVICE_HOST" /\ PortEnv.name = "KUBERNETES_SERVICE_PORT"
    /\ KubeconfigEnv.name = "KUBECONFIG" /\ CAEnv.name = "SSL_CERT_DIR"
BY DEF HostEnv, PortEnv, KubeconfigEnv, CAEnv

LEMMA InjectedLists ==
    /\ AuthEnvs \in Seq(ReleaseEnv) /\ Len(AuthEnvs) = 3 /\ CAEnv \in ReleaseEnv
    /\ AuthEnvs[1] = HostEnv /\ AuthEnvs[2] = PortEnv /\ AuthEnvs[3] = KubeconfigEnv
    /\ Append(AuthEnvs, CAEnv) \in Seq(ReleaseEnv) /\ Len(Append(AuthEnvs, CAEnv)) = 4
    /\ Append(AuthEnvs, CAEnv)[1] = HostEnv /\ Append(AuthEnvs, CAEnv)[2] = PortEnv
    /\ Append(AuthEnvs, CAEnv)[3] = KubeconfigEnv /\ Append(AuthEnvs, CAEnv)[4] = CAEnv
<1>1. /\ HostEnv \in ReleaseEnv /\ PortEnv \in ReleaseEnv /\ KubeconfigEnv \in ReleaseEnv
      /\ CAEnv \in ReleaseEnv
  BY DEF ReleaseEnv
<1>2. /\ AuthEnvs \in Seq(ReleaseEnv) /\ Len(AuthEnvs) = 3
      /\ AuthEnvs[1] = HostEnv /\ AuthEnvs[2] = PortEnv /\ AuthEnvs[3] = KubeconfigEnv
  BY <1>1 DEF AuthEnvs
<1> QED
  BY <1>1, <1>2

(* The variables injected are three or four, and no two have one name.     *)
LEMMA InjectedFacts ==
    ASSUME NEW ref, NEW new, new = InjectedList(ref)
    PROVE  /\ new \in Seq(ReleaseEnv) /\ Len(new) = (IF ref = None THEN 3 ELSE 4)
           /\ \A i, j \in 1..Len(new) : new[i].name = new[j].name => i = j
           /\ Injected(ref) = {new[i] : i \in 1..Len(new)}
           /\ {e.name : e \in Injected(ref)} = NamesOf(new)
           /\ Cardinality(NamesOf(new)) = Len(new)
<1> DEFINE A == {"KUBERNETES_SERVICE_HOST", "KUBERNETES_SERVICE_PORT", "KUBECONFIG"}
           B == A \cup {"SSL_CERT_DIR"}
<1>1. new \in Seq(ReleaseEnv) /\ Len(new) = (IF ref = None THEN 3 ELSE 4)
  BY InjectedLists DEF InjectedList
<1>2. /\ new[1] = HostEnv /\ new[2] = PortEnv /\ new[3] = KubeconfigEnv
      /\ ref # None => new[4] = CAEnv
  BY InjectedLists DEF InjectedList
<1>3. 1..Len(new) = (IF ref = None THEN {1, 2, 3} ELSE {1, 2, 3, 4})
  <2>1. 1..3 = {1, 2, 3} /\ 1..4 = {1, 2, 3, 4}
    OBVIOUS
  <2> QED
    BY <1>1, <2>1
<1>4. \A i, j \in 1..Len(new) : new[i].name = new[j].name => i = j
  BY <1>2, <1>3, InjectedNames
<1>5. Injected(ref) = {new[i] : i \in 1..Len(new)}
  BY <1>2, <1>3 DEF Injected
<1>6. NamesOf(new) = {new[i].name : i \in 1..Len(new)}
  BY <1>1 DEF NamesOf
<1>7. {e.name : e \in Injected(ref)} = NamesOf(new)
  BY <1>5, <1>6
<1>8. NamesOf(new) = IF ref = None THEN A ELSE B
  BY <1>2, <1>3, <1>6, InjectedNames
<1>9. Cardinality(A) = 3 /\ Cardinality(B) = 4
  <2> DEFINE A1 == {} \cup {"KUBERNETES_SERVICE_HOST"}
             A2 == A1 \cup {"KUBERNETES_SERVICE_PORT"}
             A3 == A2 \cup {"KUBECONFIG"}
  <2>1. IsFiniteSet({}) /\ Cardinality({}) = 0
    BY FS_EmptySet
  <2>2. IsFiniteSet(A1) /\ Cardinality(A1) = 1
    BY <2>1, FS_AddElement
  <2>3. "KUBERNETES_SERVICE_PORT" \notin A1 /\ "KUBECONFIG" \notin A2
    OBVIOUS
  <2>4. "SSL_CERT_DIR" \notin A3 /\ A3 = A
    OBVIOUS
  <2> HIDE DEF A1
  <2>5. IsFiniteSet(A2) /\ Cardinality(A2) = 2
    BY <2>2, <2>3, FS_AddElement
  <2> HIDE DEF A2
  <2>6. IsFiniteSet(A3) /\ Cardinality(A3) = 3
    BY <2>3, <2>5, FS_AddElement
  <2> HIDE DEF A3, A
  <2>7. Cardinality(A3 \cup {"SSL_CERT_DIR"}) = 4
    BY <2>4, <2>6, FS_AddElement
  <2> QED
    BY <2>4, <2>6, <2>7
<1> QED
  BY <1>1, <1>4, <1>5, <1>7, <1>8, <1>9

(* Whatever the user wrote, the values of a pass keep it but for what the  *)
(* code forces, and their variables are the user's others and the new.     *)
LEMMA PreparedLists ==
    ASSUME NEW input, NEW ref, UserEnvs(input) \in Seq(EnvVar),
           NEW v, v = PreparedHelmValues(Root(input), ref)
    PROVE  /\ Carries(Root(input), v)
           /\ EnvsOf(v[Operator]) =
                  RemoveConflictingAndAppend(UserEnvs(input), InjectedList(ref))
<1> DEFINE root == Root(input)
           w == WorkloadHelmValues(root)
           h == InjectIntoManager(w, AuthEnvs)
           a == InjectKubeconfigIntoDefaultCRConfig(h)
           u == UserEnvs(input)
           s == RemoveConflictingAndAppend(u, AuthEnvs)
<1>1. /\ Forced(w) /\ Shaped(w) /\ Carries(root, w)
      /\ Open(w[Operator]["manager"], "extraEnvs") = u
  BY WorkloadForced, WorkloadCarries DEF UserEnvs
<1> HIDE DEF w, root
<1>2. Forced(h) /\ Shaped(h)
  BY <1>1, InjectKeeps
<1>3. /\ Carries(root, h) /\ EnvsOf(h[Operator]) = s
      /\ "extraEnvs" \in DOMAIN h[Operator]["manager"]
  BY <1>1, InjectCarries
<1> HIDE DEF h
<1>4. Forced(a) /\ Shaped(a) /\ Carries(root, a) /\ a[Operator] = h[Operator]
  BY <1>2, <1>3, CollectorsKeep, CollectorsCarry
<1> HIDE DEF a
<1>5. v = IF ref = None THEN a ELSE InjectIntoManager(a, <<CAEnv>>)
  BY DEF PreparedHelmValues, AddAuthToHelmValues, AddCAHelmValues, root, w, h, a
<1>6. /\ u \in Seq(ReleaseEnv) /\ AuthEnvs \in Seq(ReleaseEnv) /\ Len(AuthEnvs) = 3
      /\ CAEnv \in ReleaseEnv /\ CAEnv.name \notin NamesOf(AuthEnvs)
  <2>1. EnvVar \subseteq ReleaseEnv
    BY DEF ReleaseEnv
  <2>2. u \in Seq(ReleaseEnv)
    BY <2>1, SeqMonotonic
  <2>3. DOMAIN AuthEnvs = {1, 2, 3}
    BY InjectedLists
  <2>4. CAEnv.name \notin NamesOf(AuthEnvs)
    BY <2>3, InjectedLists, InjectedNames DEF NamesOf
  <2> QED
    BY <2>2, <2>4, InjectedLists
<1>7. s # Null
  <2>1. InParts(s, Without(u, NamesOf(AuthEnvs)), AuthEnvs)
    BY <1>6, AppendedParts
  <2>2. 1 \in DOMAIN s /\ 2 \in DOMAIN s
    <3> HIDE DEF s
    <3> QED
      BY <1>6, <2>1 DEF InParts
  <2>3. DOMAIN Null = {"null"}
    BY DEF Null
  <2> HIDE DEF s
  <2>4. ASSUME s = Null
        PROVE  FALSE
    <3>1. 1 \in DOMAIN Null /\ 2 \in DOMAIN Null
      BY <2>2, <2>4
    <3>2. 1 = 2
      BY <2>3, <3>1
    <3> QED
      BY <3>2
  <2> QED
    BY <2>4
<1>8. CASE ref = None
  BY <1>3, <1>4, <1>5, <1>8 DEF InjectedList, root
<1>9. CASE ref # None
  <2>1. /\ Carries(root, v)
        /\ EnvsOf(v[Operator]) =
               RemoveConflictingAndAppend(Open(a[Operator]["manager"], "extraEnvs"), <<CAEnv>>)
    BY <1>4, <1>5, <1>9, InjectCarries
  <2>2. Open(a[Operator]["manager"], "extraEnvs") = s
    <3> HIDE DEF s
    <3> QED
      BY <1>3, <1>4, <1>7 DEF Open, EnvsOf
  <2>3. RemoveConflictingAndAppend(s, <<CAEnv>>)
            = RemoveConflictingAndAppend(u, Append(AuthEnvs, CAEnv))
    BY <1>6, OneByOne
  <2> QED
    BY <1>9, <2>1, <2>2, <2>3 DEF InjectedList, root
<1> QED
  BY <1>8, <1>9

(* What InjectedWins and UserValuesKept ask of the values, for all input.  *)
LEMMA PreparedWell ==
    ASSUME NEW input, NEW ref, UserEnvs(input) \in Seq(EnvVar),
           NEW v, v = PreparedHelmValues(Root(input), ref)
    PROVE  /\ Carries(Root(input), v)
           /\ \A new \in Injected(ref) : HasOnce(EnvsOf(v[Operator]), new)
           /\ KeepsOthers(UserEnvs(input), {new.name : new \in Injected(ref)},
                          EnvsOf(v[Operator]))
<1> DEFINE list == UserEnvs(input)
           all == InjectedList(ref)
           envs == EnvsOf(v[Operator])
<1>1. Carries(Root(input), v) /\ envs = RemoveConflictingAndAppend(list, all)
  BY PreparedLists
<1>2. list \in Seq(ReleaseEnv)
  <2>1. EnvVar \subseteq ReleaseEnv
    BY DEF ReleaseEnv
  <2> QED
    BY <2>1, SeqMonotonic
<1>3. /\ all \in Seq(ReleaseEnv)
      /\ \A i, j \in 1..Len(all) : all[i].name = all[j].name => i = j
      /\ Injected(ref) = {all[i] : i \in 1..Len(all)}
      /\ {e.name : e \in Injected(ref)} = NamesOf(all)
      /\ Cardinality(NamesOf(all)) = Len(all)
  BY InjectedFacts
<1> HIDE DEF list, all, envs
<1>4. \A i \in 1..Len(all) : HasOnce(envs, all[i])
  BY <1>1, <1>2, <1>3, AppendedOnce
<1>5. KeepsOthers(list, NamesOf(all), envs)
  BY <1>1, <1>2, <1>3, AppendedKeeps
<1> QED
  BY <1>1, <1>3, <1>4, <1>5 DEF list, envs

-----------------------------------------------------------------------------
(* The values a pass has in hand are those of the settings *)

Stages == {"idle", "workload", "auth", "built", "applied", "failed"}

AsPrepared ==
    /\ values \in Inputs /\ caRef \in CARefs /\ stage \in Stages
    /\ stage # "idle" => Buildable(values, caRef)
    /\ stage = "workload" => built = WorkloadHelmValues(Root(values))
    /\ stage = "auth" => built = AddAuthToHelmValues(WorkloadHelmValues(Root(values)))
    /\ stage = "built" => built = Prepared[<<values, caRef>>]
    /\ stage = "applied" =>
        /\ workloadRelease = WorkloadSpec(Prepared[<<values, caRef>>], caRef)
        /\ crdRelease = CRDHelmValues
        /\ caRef # None => bundle

LEMMA PreparedAt ==
    ASSUME NEW input \in Inputs, NEW ref \in CARefs, Buildable(input, ref)
    PROVE  /\ <<input, ref>> \in Usable
           /\ Prepared[<<input, ref>>] = PreparedHelmValues(Root(input), ref)
BY DEF Usable, Prepared

LEMMA AsPreparedInductive ==
    ASSUME AsPrepared, [Next]_vars
    PROVE  AsPrepared'
<1> USE DEF AsPrepared, Stages
<1>1. CASE Edit
  BY <1>1 DEF Edit
<1>2. CASE Build
  BY <1>2 DEF Build, settings
<1>3. CASE AddAuth
  BY <1>3 DEF AddAuth, settings
<1>4. CASE AddCA
  <2>1. built' = PreparedHelmValues(Root(values), caRef)
    BY <1>4 DEF AddCA, PreparedHelmValues
  <2>2. built' = Prepared[<<values, caRef>>]
    BY <1>4, <2>1, PreparedAt DEF AddCA
  <2> QED
    BY <1>4, <2>2 DEF AddCA, settings
<1>5. CASE Refuse \/ Panic
  BY <1>5 DEF Refuse, Panic, settings
<1>6. CASE ApplyAll
  BY <1>6 DEF ApplyAll, Apply, WorkloadSpec, settings
<1>7. CASE ApplySome
  BY <1>7 DEF ApplySome, Apply, settings
<1>8. CASE Clean \/ CleanFails
  BY <1>8 DEF Clean, CleanFails, settings
<1>9. CASE UNCHANGED vars
  BY <1>9 DEF vars, settings, cluster
<1> QED
  BY <1>1, <1>2, <1>3, <1>4, <1>5, <1>6, <1>7, <1>8, <1>9 DEF Next

LEMMA AsPreparedAlways == Spec => []AsPrepared
<1>1. Init => AsPrepared
  BY DEF Init, AsPrepared, Stages
<1>2. AsPrepared /\ [Next]_vars => AsPrepared'
  BY AsPreparedInductive
<1> QED
  BY <1>1, <1>2, PTL DEF Spec

(* Each injected variable is in the values once, with the provider's value, *)
(* for a list of the user of any length and content.                       *)
THEOREM InjectedVariablesWin == Spec => []InjectedWins
<1>1. AsPrepared => InjectedWins
  <2> SUFFICES ASSUME AsPrepared, stage = "built"
               PROVE  \A new \in Injected(caRef) : HasOnce(EnvsOf(built[Operator]), new)
    BY DEF InjectedWins
  <2> QED
    BY PreparedAt, PreparedWell, ListsAssumption DEF AsPrepared
<1> QED
  BY <1>1, AsPreparedAlways, PTL

(* What the code does not force reaches the release as the user wrote it.  *)
THEOREM UsersValuesAreKept == Spec => []UserValuesKept
<1>1. AsPrepared => UserValuesKept
  <2> SUFFICES ASSUME AsPrepared, stage = "built"
               PROVE  /\ Carries(Root(values), built)
                      /\ KeepsOthers(UserEnvs(values), {new.name : new \in Injected(caRef)},
                                     EnvsOf(built[Operator]))
    BY DEF UserValuesKept
  <2> QED
    BY PreparedAt, PreparedWell, ListsAssumption DEF AsPrepared
<1> QED
  BY <1>1, AsPreparedAlways, PTL

(* A pass that ends without an error leaves what the settings say.         *)
THEOREM SuccessIsCurrent == Spec => SuccessMeansCurrent
<1>1. ASSUME AsPrepared, Clean, stage = "applied"
      PROVE  Current'
  <2>1. <<values, caRef>> \in Usable /\ values' = values /\ caRef' = caRef
    BY <1>1, PreparedAt DEF AsPrepared, Clean, settings
  <2>2. /\ workloadRelease' = WorkloadSpec(Prepared[<<values, caRef>>], caRef)
        /\ crdRelease' = CRDHelmValues
    BY <1>1 DEF AsPrepared, Clean
  <2>3. bundle' = (caRef # None)
    BY <1>1 DEF AsPrepared, Clean, CleanBundle
  <2> QED
    BY <2>1, <2>2, <2>3 DEF Current, WorkloadSpec
<1>2. AsPrepared /\ [Next]_vars => [Clean /\ stage = "applied" => Current']_vars
  BY <1>1
<1> QED
  BY <1>2, AsPreparedAlways, PTL DEF Spec, SuccessMeansCurrent

(* Passes take nothing back, whatever fails in them: they write again what *)
(* is there, and the cleaner leaves a bundle that is mounted.              *)
THEOREM CurrentIsStable == Spec => CurrentStays
<1>1. ASSUME AsPrepared, Current, values' = values, caRef' = caRef, Next
      PROVE  Current'
  <2> USE DEF Current
  <2>1. CASE Edit
    BY <1>1, <2>1 DEF Edit, cluster
  <2>2. CASE Build \/ AddAuth \/ AddCA \/ Refuse \/ Panic
    BY <1>1, <2>2 DEF Build, AddAuth, AddCA, Refuse, Panic, cluster
  <2>3. ASSUME NEW failing, Apply(failing)
        PROVE  Current'
    <3>1. stage = "built" /\ built = Prepared[<<values, caRef>>]
      BY <1>1, <2>3 DEF AsPrepared, Apply
    <3>2. bundle' = (caRef # None)
      BY <1>1, <2>3 DEF Apply
    <3>3. crdRelease' = CRDHelmValues
      BY <1>1, <2>3 DEF Apply
    <3>4. /\ workloadRelease'.values = Prepared[<<values, caRef>>]
          /\ workloadRelease'.patches = Patches(caRef)
      BY <1>1, <2>3, <3>1 DEF Apply, WorkloadSpec
    <3> QED
      BY <1>1, <3>2, <3>3, <3>4
  <2>4. CASE ApplyAll \/ ApplySome
    BY <2>3, <2>4 DEF ApplyAll, ApplySome
  <2>5. CASE Clean
    BY <1>1, <2>5 DEF Clean, CleanBundle
  <2>6. CASE CleanFails
    BY <1>1, <2>6 DEF CleanFails, cluster
  <2> QED
    BY <1>1, <2>1, <2>2, <2>4, <2>5, <2>6 DEF Next
<1>2. AsPrepared /\ [Next]_vars => [UNCHANGED <<values, caRef>> /\ Current => Current']_vars
  BY <1>1
<1> QED
  BY <1>2, AsPreparedAlways, PTL DEF Spec, CurrentStays

(* No user writes the provider's own variable for the bundle himself.      *)
OwnBundle ==
    \A input \in Inputs, ref \in CARefs :
        Buildable(input, ref) =>
            \A i \in DOMAIN UserEnvs(input) : UserEnvs(input)[i] # CAEnv

(* The values of a pass mention the bundle if there is a reference to one. *)
LEMMA PreparedMentions ==
    ASSUME OwnBundle, NEW input \in Inputs, NEW ref \in CARefs, Buildable(input, ref)
    PROVE  MentionsBundle(Prepared[<<input, ref>>]) <=> ref # None
<1> DEFINE v == PreparedHelmValues(Root(input), ref)
           list == UserEnvs(input)
           all == InjectedList(ref)
           envs == EnvsOf(v[Operator])
<1>1. Prepared[<<input, ref>>] = v
  BY PreparedAt
<1>2. list \in Seq(EnvVar) /\ \A i \in DOMAIN list : list[i] # CAEnv
  BY ListsAssumption DEF OwnBundle
<1> HIDE DEF v
<1>3. CASE ref # None
  <2>1. \A new \in Injected(ref) : HasOnce(envs, new)
    BY <1>2, PreparedWell DEF v
  <2>2. HasOnce(envs, CAEnv)
    BY <1>3, <2>1 DEF Injected
  <2>3. \E i \in DOMAIN envs : envs[i] = CAEnv
    BY <2>2 DEF HasOnce
  <2> QED
    BY <1>1, <1>3, <2>3 DEF MentionsBundle
<1>4. CASE ref = None
  <2> DEFINE others == {e \in ReleaseEnv : e # CAEnv}
  <2>1. envs = RemoveConflictingAndAppend(list, all)
    BY <1>2, PreparedLists DEF v
  <2>2. list \in Seq(others)
    <3>1. \A i \in 1..Len(list) : list[i] \in others
      BY <1>2 DEF ReleaseEnv
    <3> HIDE DEF list, others
    <3> QED
      BY <1>2, <3>1, IsASeq
  <2>3. all \in Seq(others)
    <3>1. HostEnv \in others /\ PortEnv \in others /\ KubeconfigEnv \in others
      BY InjectedNames DEF ReleaseEnv
    <3> HIDE DEF others
    <3>2. AuthEnvs \in Seq(others)
      BY <3>1 DEF AuthEnvs
    <3> QED
      BY <1>4, <3>2 DEF InjectedList
  <2>4. Without(list, NamesOf(all)) \in Seq(others)
    <3> HIDE DEF others, list, all
    <3> QED
      BY <2>2, WithoutSeq
  <2>5. envs \in Seq(others)
    <3> HIDE DEF others, list, all, envs
    <3> QED
      BY <2>1, <2>3, <2>4 DEF RemoveConflictingAndAppend
  <2>6. \A i \in DOMAIN envs : envs[i] \in others
    <3> HIDE DEF others, envs
    <3> QED
      BY <2>5
  <2> QED
    BY <1>1, <1>4, <2>6 DEF MentionsBundle
<1> QED
  BY <1>3, <1>4

(* The variables of the release and its patches are made in two files and  *)
(* agree about the bundle in every release a pass has written.             *)
THEOREM BundleIsMentioned ==
    ASSUME OwnBundle
    PROVE  Spec => []BundleMentioned
<1> DEFINE Inv == AsPrepared /\ BundleMentioned
<1>1. Init => Inv
  BY DEF Init, AsPrepared, Stages, BundleMentioned
<1>2. ASSUME Inv, [Next]_vars
      PROVE  Inv'
  <2>1. AsPrepared'
    BY <1>2, AsPreparedInductive
  <2>2. CASE UNCHANGED workloadRelease
    BY <1>2, <2>1, <2>2 DEF BundleMentioned
  <2>3. ASSUME NEW failing, Apply(failing)
        PROVE  BundleMentioned'
    <3>1. "custom-ca-bundle" \in Patches(caRef) <=> caRef # None
      BY DEF Patches
    <3>2. /\ stage = "built" /\ built = Prepared[<<values, caRef>>]
          /\ MentionsBundle(built) <=> caRef # None
      BY <1>2, <2>3, PreparedMentions DEF AsPrepared, Apply
    <3>3. \/ UNCHANGED workloadRelease
          \/ workloadRelease'.values = built /\ workloadRelease'.patches = Patches(caRef)
      BY <2>3 DEF Apply, WorkloadSpec
    <3> QED
      BY <1>2, <3>1, <3>2, <3>3 DEF BundleMentioned
  <2> QED
    BY <1>2, <2>1, <2>2, <2>3 DEF Next, Edit, Build, AddAuth, AddCA, Refuse, Panic,
        ApplyAll, ApplySome, Clean, CleanFails, cluster, vars
<1>3. Inv => BundleMentioned
  OBVIOUS
<1> QED
  BY <1>1, <1>2, <1>3, PTL DEF Spec

=============================================================================
