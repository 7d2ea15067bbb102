------------------------- MODULE ObjectCatalog_proofs -------------------------
(***************************************************************************)
(* Theorems about the catalogue of createObjectManager, for any namespaces *)
(* and labels: it has the shape ResourceManager assumes, and its cleaners  *)
(* cover what the configurations of an instance differ in.  So what is     *)
(* proved of the reconciler under these assumptions holds of the objects   *)
(* this program manages.                                                   *)
(***************************************************************************)
EXTENDS ObjectCatalog, Integers, FiniteSets, TLAPS

CONSTANTS
  Settings,    \* contents of a KubeStackVersion
  Features,    \* what of them decides on the objects
  Versions, NoSettings, Broken, GeneratedID, Kinds, GuardLists, Orderly,
  MaxLosses, MaxFaults   \* as in OtelOperatorReconciler

VARIABLES
  world, content, deleting, done, faults,
  mode, cfg, stage, pos, todo, blocked, result, cleanErr,
  deletion, finalizer, version, label, installed, edited,
  offered, bundle, users,
  handler, seen, lists, blocking, steady, draft, outcome, losses

\* The catalogue as the functions ResourceManager takes.
CatalogPlan      == [c \in Configuration |-> PlanOf(c)]
CatalogDependsOn == [o \in CatalogObjects |-> DependsOnOf(o)]
CatalogNeeds     == [c \in Configuration |-> [o \in CatalogObjects |-> NeedsOf(c, o)]]
CatalogWithin    == [o \in CatalogObjects |-> WithinOf(o)]
CatalogCreates   == [c \in Configuration |-> [o \in CatalogObjects |-> CreatesOf(c, o)]]
CatalogScopes    == [c \in Configuration |-> ScopesOf(c.wl)]

\* The workload namespace is named by the label.
CatalogConfigOf ==
  [s \in Settings |-> [b \in BOOLEAN |-> [l \in WorkloadNamespaces |->
     ConfigFor(Features[s], b, l)]]]

\* The reconciler on the objects of this program.
Real == INSTANCE OtelOperatorReconciler_proofs WITH
  Objects <- CatalogObjects, Configs <- Configuration, Plan <- CatalogPlan,
  DependsOn <- CatalogDependsOn, Needs <- CatalogNeeds, Within <- CatalogWithin,
  Finalized <- CatalogFinalized, Keeps <- KeptContent,
  Creates <- CatalogCreates, Scopes <- CatalogScopes,
  Bundles <- BOOLEAN, Labels <- WorkloadNamespaces, ConfigOf <- CatalogConfigOf

\* The constants that do not come from the catalogue are what their names say.
Sensible ==
  /\ Features \in [Settings -> [cp : CPNamespaces, image : BOOLEAN, chart : BOOLEAN]]
  /\ NoSettings \notin Settings /\ Broken \subseteq Settings
  /\ GeneratedID \in WorkloadNamespaces
  /\ GuardLists \in Seq(Kinds)
  /\ \A k \in Kinds : \E i \in 1..Len(GuardLists) : GuardLists[i] = k
  /\ Orderly \in BOOLEAN
  /\ MaxLosses \in Nat /\ MaxFaults \in Nat

\* All versions name the same namespace on the control plane.
OneHome == \A s, t \in Settings : Features[s].cp = Features[t].cp

ElementsOf(s) == {s[i] : i \in DOMAIN s}

\* The place of an object's kind in the order of registration.
Rank(o) ==
  CASE o[1] = "cpNamespace"        -> 1
    [] o[1] = "serviceAccount"     -> 2
    [] o[1] = "clusterRoleBinding" -> 3
    [] o[1] = "workloadNamespace"  -> 4
    [] o[1] = "tokenSecret"        -> 5
    [] o[1] = "caConfigMap"        -> 6
    [] o[1] = "imagePullSecret"    -> 7
    [] o[1] = "chartPullSecret"    -> 8
    [] o[1] = "ociRepository"      -> 9
    [] o[1] = "crdRelease"         -> 10
    [] o[1] = "workloadRelease"    -> 11

\* The ranks in a list go up, from lo at the least to hi at the most.
Climbs(s, lo, hi) ==
  /\ \A i \in DOMAIN s : Rank(s[i]) \in lo..hi
  /\ \A i, j \in DOMAIN s : i < j => Rank(s[i]) < Rank(s[j])

\* The objects of a configuration, in no order.
PlanSet(c) ==
  {CPNamespace(c.cp), ServiceAccount(c.cp), Binding,
   WorkloadNamespace(c.wl), TokenSecret(c.wl)}
  \cup (IF c.ca THEN {CAConfigMap(c.wl)} ELSE {})
  \cup (IF c.image THEN {ImagePullSecret(c.wl)} ELSE {})
  \cup (IF c.chart THEN {ChartPullSecret} ELSE {})
  \cup {OCIRepository, CRDRelease, WorkloadRelease}

-----------------------------------------------------------------------------
(* Objects and their ranks.                                                *)

LEMMA Ranks ==
  /\ \A n : Rank(CPNamespace(n)) = 1 /\ Rank(ServiceAccount(n)) = 2
  /\ Rank(Binding) = 3
  /\ \A w : Rank(WorkloadNamespace(w)) = 4 /\ Rank(TokenSecret(w)) = 5
  /\ \A w : Rank(CAConfigMap(w)) = 6 /\ Rank(ImagePullSecret(w)) = 7
  /\ Rank(ChartPullSecret) = 8 /\ Rank(OCIRepository) = 9
  /\ Rank(CRDRelease) = 10 /\ Rank(WorkloadRelease) = 11
BY DEF Rank, CPNamespace, ServiceAccount, Binding, WorkloadNamespace, TokenSecret,
       CAConfigMap, ImagePullSecret, ChartPullSecret, OCIRepository, CRDRelease,
       WorkloadRelease

LEMMA Catalogued ==
  /\ \A n \in CPNamespaces : /\ CPNamespace(n) \in CatalogObjects
                             /\ ServiceAccount(n) \in CatalogObjects
  /\ \A w \in WorkloadNamespaces :
        /\ WorkloadNamespace(w) \in CatalogObjects
        /\ TokenSecret(w) \in CatalogObjects
        /\ CAConfigMap(w) \in CatalogObjects
        /\ ImagePullSecret(w) \in CatalogObjects
  /\ {Binding, ChartPullSecret, OCIRepository, CRDRelease, WorkloadRelease}
       \subseteq CatalogObjects
<1> DEFINE Copies(w) == {TokenSecret(w), CAConfigMap(w), ImagePullSecret(w)}
           Fixed == {Binding, ChartPullSecret} \cup {OCIRepository, CRDRelease, WorkloadRelease}
<1>1. \A o : o \in CatalogObjects <=>
         \/ o \in {CPNamespace(n) : n \in CPNamespaces}
         \/ o \in {WorkloadNamespace(w) : w \in WorkloadNamespaces}
         \/ o \in {ServiceAccount(n) : n \in CPNamespaces}
         \/ o \in UNION {Copies(w) : w \in WorkloadNamespaces}
         \/ o \in Fixed
  BY DEF CatalogObjects, Namespaces, FluxObjects
<1>f. /\ Binding \in Fixed /\ ChartPullSecret \in Fixed /\ OCIRepository \in Fixed
      /\ CRDRelease \in Fixed /\ WorkloadRelease \in Fixed
  OBVIOUS
<1> HIDE DEF Copies, Fixed
<1>2. ASSUME NEW w \in WorkloadNamespaces, NEW o \in Copies(w)
      PROVE  o \in CatalogObjects
  <2>1. o \in UNION {Copies(v) : v \in WorkloadNamespaces}
    OBVIOUS
  <2> QED
    BY <1>1, <2>1
<1>3. \A n \in CPNamespaces : /\ CPNamespace(n) \in CatalogObjects
                              /\ ServiceAccount(n) \in CatalogObjects
  BY <1>1
<1>4. \A w \in WorkloadNamespaces : WorkloadNamespace(w) \in CatalogObjects
  BY <1>1
<1>5. /\ Binding \in CatalogObjects /\ ChartPullSecret \in CatalogObjects
      /\ OCIRepository \in CatalogObjects /\ CRDRelease \in CatalogObjects
      /\ WorkloadRelease \in CatalogObjects
  BY <1>1, <1>f
<1> QED
  BY <1>2, <1>3, <1>4, <1>5 DEF Copies

LEMMA Join ==
  ASSUME NEW s \in Seq(CatalogObjects), NEW t \in Seq(CatalogObjects),
         NEW lo \in Int, NEW mid \in Int, NEW next \in Int, NEW hi \in Int,
         lo <= mid, mid < next, next <= hi,
         Climbs(s, lo, mid), Climbs(t, next, hi)
  PROVE  /\ s \o t \in Seq(CatalogObjects)
         /\ Climbs(s \o t, lo, hi)
         /\ ElementsOf(s \o t) = ElementsOf(s) \cup ElementsOf(t)
<1> DEFINE r == s \o t
<1>1. /\ r \in Seq(CatalogObjects)
      /\ DOMAIN s = 1..Len(s) /\ DOMAIN t = 1..Len(t) /\ DOMAIN r = 1..(Len(s) + Len(t))
      /\ Len(s) \in Nat /\ Len(t) \in Nat
      /\ \A i \in DOMAIN s : i \in DOMAIN r /\ r[i] = s[i]
      /\ \A i \in DOMAIN t : i + Len(s) \in DOMAIN r /\ r[i + Len(s)] = t[i]
  OBVIOUS
<1>2. ASSUME NEW i \in DOMAIN r
      PROVE  \/ i \in DOMAIN s /\ r[i] = s[i]
             \/ i > Len(s) /\ i - Len(s) \in DOMAIN t /\ r[i] = t[i - Len(s)]
  BY <1>1
<1> HIDE DEF r
<1>3. ElementsOf(r) = ElementsOf(s) \cup ElementsOf(t)
  BY <1>1, <1>2 DEF ElementsOf
<1>4. ASSUME NEW i \in DOMAIN r PROVE Rank(r[i]) \in lo..hi
  BY <1>2 DEF Climbs
<1>5. ASSUME NEW i \in DOMAIN r, NEW j \in DOMAIN r, i < j
      PROVE  Rank(r[i]) < Rank(r[j])
  <2>1. CASE i \in DOMAIN s /\ j \in DOMAIN s
    BY <1>1, <1>5, <2>1 DEF Climbs
  <2>2. CASE i \in DOMAIN s /\ j \notin DOMAIN s
    <3>1. Rank(s[i]) \in lo..mid /\ Rank(t[j - Len(s)]) \in next..hi
      BY <1>2, <2>2 DEF Climbs
    <3> QED
      BY <1>1, <1>2, <2>2, <3>1
  <2>3. CASE i \notin DOMAIN s
    <3>1. j \notin DOMAIN s
      BY <1>1, <1>5, <2>3
    <3>2. /\ i - Len(s) \in DOMAIN t /\ j - Len(s) \in DOMAIN t
          /\ i - Len(s) < j - Len(s)
          /\ r[i] = t[i - Len(s)] /\ r[j] = t[j - Len(s)]
      BY <1>1, <1>2, <1>5, <2>3, <3>1
    <3> QED
      BY <3>2 DEF Climbs
  <2> QED
    BY <2>1, <2>2, <2>3
<1> QED
  BY <1>1, <1>3, <1>4, <1>5 DEF Climbs, r

LEMMA WhenClimbs ==
  ASSUME NEW condition \in BOOLEAN, NEW o \in CatalogObjects,
         NEW r \in Int, Rank(o) = r
  PROVE  /\ When(condition, o) \in Seq(CatalogObjects)
         /\ ElementsOf(When(condition, o)) = IF condition THEN {o} ELSE {}
         /\ Climbs(When(condition, o), r, r)
<1>1. CASE condition
  <2> DEFINE s == <<o>>
  <2>1. When(condition, o) = s
    BY <1>1 DEF When
  <2>2. s \in Seq(CatalogObjects) /\ DOMAIN s = {1} /\ s[1] = o
    OBVIOUS
  <2> HIDE DEF s
  <2>3. ElementsOf(s) = {o}
    BY <2>2 DEF ElementsOf
  <2>4. Climbs(s, r, r)
    BY <2>2 DEF Climbs
  <2> QED
    BY <1>1, <2>1, <2>2, <2>3, <2>4
<1>2. CASE ~condition
  <2>1. When(condition, o) = << >>
    BY <1>2 DEF When
  <2> QED
    BY <1>2, <2>1 DEF ElementsOf, Climbs
<1> QED
  BY <1>1, <1>2

\* The plan of a configuration: what is in it, in the order of the ranks.
LEMMA PlanFacts ==
  ASSUME NEW c \in Configuration
  PROVE  /\ PlanOf(c) \in Seq(CatalogObjects)
         /\ Climbs(PlanOf(c), 1, 11)
         /\ ElementsOf(PlanOf(c)) = PlanSet(c)
<1> DEFINE core == <<CPNamespace(c.cp), ServiceAccount(c.cp), Binding,
                     WorkloadNamespace(c.wl), TokenSecret(c.wl)>>
           flux == <<OCIRepository, CRDRelease, WorkloadRelease>>
           ca   == When(c.ca, CAConfigMap(c.wl))
           img  == When(c.image, ImagePullSecret(c.wl))
           cht  == When(c.chart, ChartPullSecret)
<1>1. /\ c.cp \in CPNamespaces /\ c.wl \in WorkloadNamespaces
      /\ c.ca \in BOOLEAN /\ c.image \in BOOLEAN /\ c.chart \in BOOLEAN
  BY DEF Configuration
<1>c. /\ CAConfigMap(c.wl) \in CatalogObjects /\ Rank(CAConfigMap(c.wl)) = 6
      /\ ImagePullSecret(c.wl) \in CatalogObjects /\ Rank(ImagePullSecret(c.wl)) = 7
      /\ ChartPullSecret \in CatalogObjects /\ Rank(ChartPullSecret) = 8
      /\ 6 \in Int /\ 7 \in Int /\ 8 \in Int
  BY <1>1, Ranks, Catalogued
<1>2. /\ core \in Seq(CatalogObjects) /\ Climbs(core, 1, 5)
      /\ ElementsOf(core) = {CPNamespace(c.cp), ServiceAccount(c.cp), Binding,
                             WorkloadNamespace(c.wl), TokenSecret(c.wl)}
  BY <1>1, Ranks, Catalogued DEF Climbs, ElementsOf
<1>3. /\ flux \in Seq(CatalogObjects) /\ Climbs(flux, 9, 11)
      /\ ElementsOf(flux) = {OCIRepository, CRDRelease, WorkloadRelease}
  BY Ranks, Catalogued DEF Climbs, ElementsOf
<1>4. /\ ca \in Seq(CatalogObjects) /\ Climbs(ca, 6, 6)
      /\ ElementsOf(ca) = IF c.ca THEN {CAConfigMap(c.wl)} ELSE {}
  BY <1>1, <1>c, WhenClimbs, Zenon
<1>5. /\ img \in Seq(CatalogObjects) /\ Climbs(img, 7, 7)
      /\ ElementsOf(img) = IF c.image THEN {ImagePullSecret(c.wl)} ELSE {}
  BY <1>1, <1>c, WhenClimbs, Zenon
<1>6. /\ cht \in Seq(CatalogObjects) /\ Climbs(cht, 8, 8)
      /\ ElementsOf(cht) = IF c.chart THEN {ChartPullSecret} ELSE {}
  BY <1>1, <1>c, WhenClimbs, Zenon
<1> DEFINE upToCA == core \o ca
           upToImage == upToCA \o img
           upToChart == upToImage \o cht
<1>7. PlanOf(c) = upToChart \o flux
  BY DEF PlanOf
<1> HIDE DEF core, flux, ca, img, cht
<1>8. /\ upToCA \in Seq(CatalogObjects) /\ Climbs(upToCA, 1, 6)
      /\ ElementsOf(upToCA) = ElementsOf(core) \cup ElementsOf(ca)
  BY <1>2, <1>4, Join
<1> HIDE DEF upToCA
<1>9. /\ upToImage \in Seq(CatalogObjects) /\ Climbs(upToImage, 1, 7)
      /\ ElementsOf(upToImage) = ElementsOf(upToCA) \cup ElementsOf(img)
  BY <1>5, <1>8, Join
<1> HIDE DEF upToImage
<1>10. /\ upToChart \in Seq(CatalogObjects) /\ Climbs(upToChart, 1, 8)
       /\ ElementsOf(upToChart) = ElementsOf(upToImage) \cup ElementsOf(cht)
  BY <1>6, <1>9, Join
<1> HIDE DEF upToChart
<1>11. /\ PlanOf(c) \in Seq(CatalogObjects) /\ Climbs(PlanOf(c), 1, 11)
       /\ ElementsOf(PlanOf(c)) = ElementsOf(upToChart) \cup ElementsOf(flux)
  BY <1>3, <1>7, <1>10, Join
<1> QED
  BY <1>2, <1>3, <1>4, <1>5, <1>6, <1>8, <1>9, <1>10, <1>11 DEF PlanSet

\* A configuration names an object once.
LEMMA PlanOnce ==
  ASSUME NEW c \in Configuration, NEW i \in DOMAIN PlanOf(c),
         NEW j \in DOMAIN PlanOf(c), PlanOf(c)[i] = PlanOf(c)[j]
  PROVE  i = j
<1>1. i \in Int /\ j \in Int
  BY PlanFacts
<1>2. /\ i < j => Rank(PlanOf(c)[i]) < Rank(PlanOf(c)[j])
      /\ j < i => Rank(PlanOf(c)[j]) < Rank(PlanOf(c)[i])
      /\ Rank(PlanOf(c)[i]) \in Int
  BY PlanFacts DEF Climbs
<1> QED
  BY <1>1, <1>2

-----------------------------------------------------------------------------
(* Dependencies.                                                           *)

\* Every object of the catalogue is one of these.
LEMMA ObjectKinds ==
  ASSUME NEW o \in CatalogObjects
  PROVE  \/ \E n \in CPNamespaces : o = CPNamespace(n) \/ o = ServiceAccount(n)
         \/ \E w \in WorkloadNamespaces :
              \/ o = WorkloadNamespace(w) \/ o = TokenSecret(w)
              \/ o = CAConfigMap(w) \/ o = ImagePullSecret(w)
         \/ o \in {Binding, ChartPullSecret, OCIRepository, CRDRelease, WorkloadRelease}
<1> DEFINE Copies(w) == {TokenSecret(w), CAConfigMap(w), ImagePullSecret(w)}
<1>1. \/ o \in {CPNamespace(n) : n \in CPNamespaces}
      \/ o \in {WorkloadNamespace(w) : w \in WorkloadNamespaces}
      \/ o \in {ServiceAccount(n) : n \in CPNamespaces}
      \/ o \in UNION {Copies(w) : w \in WorkloadNamespaces}
      \/ o \in {Binding, ChartPullSecret}
      \/ o \in {OCIRepository, CRDRelease, WorkloadRelease}
  BY Zenon DEF CatalogObjects, Namespaces, FluxObjects
<1>2. ASSUME o \in UNION {Copies(w) : w \in WorkloadNamespaces}
      PROVE  \E w \in WorkloadNamespaces : o \in Copies(w)
  <2> HIDE DEF Copies
  <2> QED
    BY <1>2
<1> QED
  BY <1>1, <1>2

\* What an object needs has a lower rank.
LEMMA LowerRank ==
  ASSUME NEW c \in Configuration, NEW o \in CatalogObjects, NEW d \in Before(c, o)
  PROVE  d \in CatalogObjects /\ Rank(d) < Rank(o)
<1>1. c.cp \in CPNamespaces /\ c.wl \in WorkloadNamespaces
  BY DEF Configuration
<1>2. ASSUME NEW n \in CPNamespaces, o = CPNamespace(n) PROVE FALSE
  BY <1>2 DEF Before, DependsOnOf, NeedsOf, WithinOf, CPNamespace, TokenSecret
<1>3. ASSUME NEW n \in CPNamespaces, o = ServiceAccount(n) PROVE d = CPNamespace(n)
  BY <1>3 DEF Before, DependsOnOf, NeedsOf, WithinOf, ServiceAccount, TokenSecret
<1>4. ASSUME NEW w \in WorkloadNamespaces, o = WorkloadNamespace(w) PROVE FALSE
  BY <1>4 DEF Before, DependsOnOf, NeedsOf, WithinOf, WorkloadNamespace, TokenSecret
<1>5. ASSUME NEW w \in WorkloadNamespaces, o = TokenSecret(w)
      PROVE  d = WorkloadNamespace(w) \/ \E n \in CPNamespaces : d = ServiceAccount(n)
  BY <1>1, <1>5 DEF Before, DependsOnOf, NeedsOf, WithinOf, TokenSecret
<1>6. ASSUME NEW w \in WorkloadNamespaces, o = CAConfigMap(w) \/ o = ImagePullSecret(w)
      PROVE  d = WorkloadNamespace(w)
  BY <1>6 DEF Before, DependsOnOf, NeedsOf, WithinOf, CAConfigMap, ImagePullSecret, TokenSecret
<1>7. o \notin {Binding, ChartPullSecret, OCIRepository}
  BY DEF Before, DependsOnOf, NeedsOf, WithinOf, Binding, ChartPullSecret,
         OCIRepository, TokenSecret
<1>8. o = CRDRelease => d = OCIRepository
  BY DEF Before, DependsOnOf, NeedsOf, WithinOf, CRDRelease, TokenSecret
<1>9. o = WorkloadRelease => d = OCIRepository \/ d = CRDRelease
  BY DEF Before, DependsOnOf, NeedsOf, WithinOf, WorkloadRelease, TokenSecret
<1> QED
  BY <1>2, <1>3, <1>4, <1>5, <1>6, <1>7, <1>8, <1>9, ObjectKinds, Ranks, Catalogued

\* Objects are registered after everything they need: an apply pass finds it
\* written, and there is no circle of objects each of which keeps another one
\* from being deleted.
THEOREM RegisteredInOrder == InOrder
<1> SUFFICES ASSUME NEW c \in Configuration,
                    NEW i \in DOMAIN PlanOf(c), NEW j \in DOMAIN PlanOf(c),
                    PlanOf(c)[j] \in Before(c, PlanOf(c)[i])
             PROVE  j < i
  BY DEF InOrder
<1>1. PlanOf(c)[i] \in CatalogObjects /\ i \in Int /\ j \in Int
  BY PlanFacts
<1>2. Rank(PlanOf(c)[j]) < Rank(PlanOf(c)[i])
  BY <1>1, LowerRank
<1>3. /\ i < j => Rank(PlanOf(c)[i]) < Rank(PlanOf(c)[j])
      /\ Rank(PlanOf(c)[i]) \in Int /\ Rank(PlanOf(c)[j]) \in Int
  BY PlanFacts DEF Climbs
<1> QED
  BY <1>1, <1>2, <1>3

-----------------------------------------------------------------------------
(* The catalogue is one ResourceManager is about.                          *)

LEMMA WithinAndDependsOn ==
  ASSUME NEW o \in CatalogObjects
  PROVE  DependsOnOf(o) \subseteq CatalogObjects /\ WithinOf(o) \subseteq CatalogObjects
<1>1. ASSUME NEW n \in CPNamespaces, o = CPNamespace(n) \/ o = ServiceAccount(n)
      PROVE  /\ DependsOnOf(o) \subseteq {CPNamespace(n)}
             /\ WithinOf(o) \subseteq {CPNamespace(n)}
  BY <1>1 DEF DependsOnOf, WithinOf, CPNamespace, ServiceAccount
<1>2. ASSUME NEW w \in WorkloadNamespaces,
             \/ o = WorkloadNamespace(w) \/ o = TokenSecret(w)
             \/ o = CAConfigMap(w) \/ o = ImagePullSecret(w)
      PROVE  /\ DependsOnOf(o) \subseteq {ServiceAccount(n) : n \in CPNamespaces}
             /\ WithinOf(o) \subseteq {WorkloadNamespace(w)}
  BY <1>2 DEF DependsOnOf, WithinOf, WorkloadNamespace, TokenSecret, CAConfigMap,
              ImagePullSecret
<1>3. ASSUME o \in {Binding, ChartPullSecret, OCIRepository, CRDRelease, WorkloadRelease}
      PROVE  /\ DependsOnOf(o) \subseteq {OCIRepository, CRDRelease}
             /\ WithinOf(o) = {}
  BY <1>3 DEF DependsOnOf, WithinOf, Binding, ChartPullSecret, OCIRepository,
              CRDRelease, WorkloadRelease
<1> QED
  BY <1>1, <1>2, <1>3, ObjectKinds, Catalogued

LEMMA Namespaced ==
  ASSUME NEW c \in Configuration, NEW o
  PROVE  /\ NeedsOf(c, o) \subseteq CatalogObjects
         /\ CreatesOf(c, o) \subseteq {CPNamespace(c.cp), WorkloadNamespace(c.wl)}
         /\ CreatesOf(c, o) \subseteq CatalogObjects
         /\ CreatesOf(c, o) # {} => o \in {CRDRelease, WorkloadRelease}
<1>1. c.cp \in CPNamespaces /\ c.wl \in WorkloadNamespaces
  BY DEF Configuration
<1> QED
  BY <1>1, Catalogued DEF NeedsOf, CreatesOf

LEMMA Cleaned ==
  ASSUME NEW c \in Configuration
  PROVE  /\ CatalogScopes[c] \in Seq(SUBSET CatalogObjects)
         /\ UNION {CatalogScopes[c][k] : k \in DOMAIN CatalogScopes[c]} =
              {CAConfigMap(c.wl), TokenSecret(c.wl), ImagePullSecret(c.wl), ChartPullSecret}
<1>1. CatalogScopes[c] =
        <<{CAConfigMap(c.wl)}, {TokenSecret(c.wl), ImagePullSecret(c.wl)}, {ChartPullSecret}>>
  BY DEF CatalogScopes, ScopesOf
<1>2. c.wl \in WorkloadNamespaces
  BY DEF Configuration
<1>3. DOMAIN CatalogScopes[c] = {1, 2, 3}
  BY <1>1
<1> QED
  BY <1>1, <1>2, <1>3, Catalogued

\* Its shape.
LEMMA CatalogShape ==
  /\ CatalogPlan \in [Configuration -> Seq(CatalogObjects)]
  /\ CatalogDependsOn \in [CatalogObjects -> SUBSET CatalogObjects]
  /\ CatalogNeeds \in [Configuration -> [CatalogObjects -> SUBSET CatalogObjects]]
  /\ CatalogWithin \in [CatalogObjects -> SUBSET CatalogObjects]
  /\ CatalogFinalized \subseteq CatalogObjects
  /\ KeptContent \subseteq CatalogObjects
  /\ CatalogCreates \in [Configuration -> [CatalogObjects -> SUBSET CatalogObjects]]
  /\ CatalogScopes \in [Configuration -> Seq(SUBSET CatalogObjects)]
<1>1. CatalogPlan \in [Configuration -> Seq(CatalogObjects)]
  BY PlanFacts DEF CatalogPlan
<1>2. /\ CatalogDependsOn \in [CatalogObjects -> SUBSET CatalogObjects]
      /\ CatalogWithin \in [CatalogObjects -> SUBSET CatalogObjects]
  BY WithinAndDependsOn DEF CatalogDependsOn, CatalogWithin
<1>3. /\ CatalogNeeds \in [Configuration -> [CatalogObjects -> SUBSET CatalogObjects]]
      /\ CatalogCreates \in [Configuration -> [CatalogObjects -> SUBSET CatalogObjects]]
  BY Namespaced DEF CatalogNeeds, CatalogCreates
<1>4. CatalogFinalized \subseteq CatalogObjects /\ KeptContent \subseteq CatalogObjects
  BY Catalogued DEF CatalogFinalized, KeptContent, Namespaces, FluxObjects
<1>5. CatalogScopes \in [Configuration -> Seq(SUBSET CatalogObjects)]
  BY Cleaned DEF CatalogScopes
<1> QED
  BY <1>1, <1>2, <1>3, <1>4, <1>5

LEMMA CatalogPlans ==
  ASSUME NEW c \in Configuration
  PROVE  Real!Desired(c) = PlanSet(c)
BY PlanFacts DEF Real!Desired, CatalogPlan, ElementsOf

\* Only the releases create anything: the two namespaces.
LEMMA CatalogCreators ==
  /\ Real!Creators \subseteq {CRDRelease, WorkloadRelease}
  /\ Real!Created \subseteq Namespaces
<1>1. ASSUME NEW h \in Real!Creators PROVE h \in {CRDRelease, WorkloadRelease}
  BY Namespaced DEF Real!Creators, CatalogCreates
<1>2. ASSUME NEW o \in Real!Created PROVE o \in Namespaces
  <2>1. PICK c \in Configuration, h \in CatalogObjects : o \in CatalogCreates[c][h]
    BY DEF Real!Created
  <2>2. o \in {CPNamespace(c.cp), WorkloadNamespace(c.wl)}
    BY <2>1, Namespaced DEF CatalogCreates
  <2> QED
    BY <2>2 DEF Namespaces, Configuration
<1> QED
  BY <1>1, <1>2

LEMMA CatalogPlanOnce ==
  \A c \in Configuration : \A i, j \in DOMAIN CatalogPlan[c] :
     CatalogPlan[c][i] = CatalogPlan[c][j] => i = j
BY PlanOnce DEF CatalogPlan

LEMMA CatalogReleases ==
  /\ \A h \in Real!Creators : /\ \A c \in Configuration : h \in Real!Desired(c)
                              /\ CatalogWithin[h] = {}
  /\ \A c \in Configuration : \A h \in CatalogObjects :
        CatalogCreates[c][h] \subseteq Real!Desired(c)
  /\ \A o \in Real!Created : CatalogDependsOn[o] = {}
  /\ Real!Created \cap Real!Creators = {}
<1>1. \A h \in {CRDRelease, WorkloadRelease} :
        /\ \A c \in Configuration : h \in Real!Desired(c)
        /\ CatalogWithin[h] = {}
  BY CatalogPlans, Catalogued
     DEF PlanSet, CatalogWithin, WithinOf, CRDRelease, WorkloadRelease
<1>2. ASSUME NEW c \in Configuration, NEW h \in CatalogObjects
      PROVE  CatalogCreates[c][h] \subseteq Real!Desired(c)
  BY CatalogPlans, Namespaced DEF PlanSet, CatalogCreates
<1>3. ASSUME NEW o \in Namespaces
      PROVE  CatalogDependsOn[o] = {} /\ o \notin {CRDRelease, WorkloadRelease}
  <2>1. o \in CatalogObjects
    BY DEF CatalogObjects
  <2>2. o[1] = "cpNamespace" \/ o[1] = "workloadNamespace"
    BY DEF Namespaces, CPNamespace, WorkloadNamespace
  <2> QED
    BY <2>1, <2>2 DEF CatalogDependsOn, DependsOnOf, CRDRelease, WorkloadRelease
<1> QED
  BY <1>1, <1>2, <1>3, CatalogCreators

LEMMA CatalogCleaners ==
  \A c \in Configuration :
     Real!Cleanable(c) \cap (CatalogFinalized \cup Real!Created \cup Real!Creators) = {}
<1> SUFFICES ASSUME NEW c \in Configuration, NEW o \in Real!Cleanable(c),
                    o \in CatalogFinalized \cup Real!Created \cup Real!Creators
             PROVE  FALSE
  OBVIOUS
<1>1. Rank(o) \in {5, 6, 7, 8}
  BY Cleaned, Ranks DEF Real!Cleanable
<1>2. Rank(o) \in {1, 4, 9, 10, 11}
  BY CatalogCreators, Ranks DEF CatalogFinalized, Namespaces, FluxObjects
<1> QED
  BY <1>1, <1>2

LEMMA CatalogReconciler ==
  ASSUME Sensible
  PROVE  /\ NoSettings \notin Settings
         /\ Broken \subseteq Settings
         /\ GeneratedID \in WorkloadNamespaces
         /\ CatalogConfigOf \in [Settings -> [BOOLEAN -> [WorkloadNamespaces -> Configuration]]]
         /\ GuardLists \in Seq(Kinds)
         /\ \A k \in Kinds : \E i \in 1..Len(GuardLists) : GuardLists[i] = k
         /\ Orderly \in BOOLEAN
         /\ MaxLosses \in Nat
<1>1. ASSUME NEW s \in Settings, NEW b \in BOOLEAN, NEW l \in WorkloadNamespaces
      PROVE  ConfigFor(Features[s], b, l) \in Configuration
  BY DEF Sensible, ConfigFor, Configuration
<1> QED
  BY <1>1 DEF CatalogConfigOf, Sensible

-----------------------------------------------------------------------------
(* The reconciler on the objects of this program.                          *)

\* The cleaners look after everything that two configurations of an instance
\* differ in, whatever pull secrets and bundles come and go.
LEMMA CatalogCovered ==
  ASSUME Sensible, OneHome
  PROVE  Real!CoveredAtHome
<1> SUFFICES ASSUME NEW c \in Real!OwnConfigs, NEW d \in Real!OwnConfigs
             PROVE  Real!Desired(c) \ Real!Desired(d) \subseteq Real!Cleanable(d)
  BY DEF Real!CoveredAtHome
<1>1. ASSUME NEW e \in Real!OwnConfigs
      PROVE  /\ e \in Configuration /\ e.wl = GeneratedID
             /\ \E s \in Settings : e.cp = Features[s].cp
  <2>1. PICK s \in Settings \ Broken, b \in BOOLEAN : e = CatalogConfigOf[s][b][GeneratedID]
    BY DEF Real!OwnConfigs
  <2>2. e = ConfigFor(Features[s], b, GeneratedID)
    BY <2>1 DEF CatalogConfigOf, Sensible
  <2> QED
    BY <2>2 DEF Sensible, ConfigFor, Configuration
<1>2. /\ c \in Configuration /\ d \in Configuration
      /\ c.cp = d.cp /\ c.wl = d.wl
  BY <1>1 DEF OneHome
<1>3. PlanSet(c) \ PlanSet(d) \subseteq {CAConfigMap(d.wl), ImagePullSecret(d.wl), ChartPullSecret}
  BY <1>2 DEF PlanSet
<1> QED
  BY <1>2, <1>3, CatalogPlans, Cleaned DEF Real!Cleanable

\* Of all the objects that createObjectManager registers, under whatever
\* versions, bundles and pull secrets, none exists on any cluster once the
\* finalizer is gone - while no version moves the namespace on the control
\* plane, Delete has settings to work with, and the label is left alone.
THEOREM RealNothingLeftBehind ==
  ASSUME Sensible, OneHome, Orderly
  PROVE  Real!ReconcilerSpec => []Real!NothingLeftBehind
<1>1. Real!CoveredAtHome /\ MaxFaults \in Nat
  BY CatalogCovered DEF Sensible
<1> QED
  BY <1>1, CatalogShape, CatalogPlanOnce, CatalogReleases, CatalogCleaners,
     CatalogReconciler, Real!FinalizerOutlivesObjects

\* The whole life of an instance of this program implements the abstract
\* teardown, under the same conditions.
THEOREM RealLifecycle ==
  ASSUME Sensible, OneHome, Orderly
  PROVE  Real!ReconcilerSpec => Real!FinalizerEndsTeardown
<1>1. Real!CoveredAtHome /\ MaxFaults \in Nat
  BY CatalogCovered DEF Sensible
<1> QED
  BY <1>1, CatalogShape, CatalogPlanOnce, CatalogReleases, CatalogCleaners,
     CatalogReconciler, Real!ImplementsLifecycle

\* A pass of this program that reports no error leaves none of its own copies
\* of Secrets and bundles outside the configuration it worked with - also
\* while versions move namespaces and labels are edited.
THEOREM RealOrphansCleaned ==
  ASSUME Sensible
  PROVE  Real!ReconcilerSpec => []Real!OrphansCleaned
<1>1. MaxFaults \in Nat
  BY DEF Sensible
<1>2. Real!ReconcilerSpec => Real!Spec
  BY <1>1, CatalogShape, CatalogPlanOnce, CatalogReleases, CatalogCleaners,
     CatalogReconciler, Real!UsesManager DEF Real!ManagerSpec
<1>3. Real!Spec => []Real!OrphansCleaned
  BY <1>1, CatalogShape, CatalogPlanOnce, CatalogReleases, CatalogCleaners,
     CatalogReconciler, Real!CleanersComplete
<1> QED
  BY <1>2, <1>3
=============================================================================
