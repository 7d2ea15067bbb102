---------------------------- MODULE ObjectCatalog ----------------------------
(***************************************************************************)
(* The objects createObjectManager registers for one OtelOperator, in the  *)
(* order in which it registers them, with the dependencies it declares and *)
(* the cleaners it adds (internal/controller, authn, authz, configmap,     *)
(* secret, flux).                                                          *)
(*                                                                         *)
(* A configuration is what createObjectManager reads that changes the set  *)
(* of objects or their names: the control-plane namespace (the helm value  *)
(* namespaceOverride, or the default), the workload namespace (from the    *)
(* instance-id label), and whether a CA bundle, image pull secrets and a   *)
(* chart pull secret are configured.  All image pull secrets of a          *)
(* configuration are one object.                                           *)
(***************************************************************************)
EXTENDS Naturals, Sequences

CONSTANTS
  CPNamespaces,       \* namespaces on the control plane
  WorkloadNamespaces  \* namespaces on the workload cluster

Configuration ==
  [cp : CPNamespaces, wl : WorkloadNamespaces,
   ca : BOOLEAN, image : BOOLEAN, chart : BOOLEAN]

CPNamespace(n)       == <<"cpNamespace", n>>
ServiceAccount(n)    == <<"serviceAccount", n>>
Binding              == <<"clusterRoleBinding", "cluster">>
WorkloadNamespace(w) == <<"workloadNamespace", w>>
TokenSecret(w)       == <<"tokenSecret", w>>
CAConfigMap(w)       == <<"caConfigMap", w>>
ImagePullSecret(w)   == <<"imagePullSecret", w>>
ChartPullSecret      == <<"chartPullSecret", "tenant">>
OCIRepository        == <<"ociRepository", "tenant">>
CRDRelease           == <<"crdRelease", "tenant">>
WorkloadRelease      == <<"workloadRelease", "tenant">>

Namespaces ==
  {CPNamespace(n) : n \in CPNamespaces}
    \cup {WorkloadNamespace(w) : w \in WorkloadNamespaces}
FluxObjects == {OCIRepository, CRDRelease, WorkloadRelease}

CatalogObjects ==
  Namespaces
    \cup {ServiceAccount(n) : n \in CPNamespaces}
    \cup (UNION {{TokenSecret(w), CAConfigMap(w), ImagePullSecret(w)} :
                  w \in WorkloadNamespaces})
    \cup {Binding, ChartPullSecret}
    \cup FluxObjects

When(condition, o) == IF condition THEN <<o>> ELSE <<>>

\* The clusters are walked in the order control plane, workload, platform.
PlanOf(c) ==
  <<CPNamespace(c.cp), ServiceAccount(c.cp), Binding,
    WorkloadNamespace(c.wl), TokenSecret(c.wl)>>
  \o When(c.ca, CAConfigMap(c.wl))
  \o When(c.image, ImagePullSecret(c.wl))
  \o When(c.chart, ChartPullSecret)
  \o <<OCIRepository, CRDRelease, WorkloadRelease>>

\* Dependencies that are not part of the same manager have no effect.
DependsOnOf(o) ==
  CASE o[1] = "serviceAccount"  -> {CPNamespace(o[2])}
    [] o[1] = "tokenSecret"     -> {ServiceAccount(n) : n \in CPNamespaces}
    [] o[1] = "crdRelease"      -> {OCIRepository}
    [] o[1] = "workloadRelease" -> {OCIRepository, CRDRelease}
    [] OTHER                    -> {}

\* The namespace an object lives in, when the provider manages it.
WithinOf(o) ==
  CASE o[1] = "serviceAccount" -> {CPNamespace(o[2])}
    [] o[1] \in {"tokenSecret", "imagePullSecret", "caConfigMap"} ->
         {WorkloadNamespace(o[2])}
    [] OTHER -> {}

\* A token is requested for the ServiceAccount of the same configuration.
NeedsOf(c, o) == IF o = TokenSecret(c.wl) THEN {ServiceAccount(c.cp)} ELSE {}

\* A valid token is kept; all other objects are rewritten in every apply.
KeptContent == {TokenSecret(w) : w \in WorkloadNamespaces}

\* Target and storage namespace of the releases, Install.CreateNamespace.
CreatesOf(c, h) ==
  CASE h = CRDRelease -> {CPNamespace(c.cp)}
    [] h = WorkloadRelease -> {WorkloadNamespace(c.wl)}
    [] OTHER -> {}

\* Deleting a namespace or a Flux object waits for a controller.
CatalogFinalized == Namespaces \cup FluxObjects

\* The configmap and secret cleaners of the workload namespace w, and the
\* secret cleaner of the tenant namespace.
ScopesOf(w) ==
  <<{CAConfigMap(w)}, {TokenSecret(w), ImagePullSecret(w)}, {ChartPullSecret}>>

\* What createObjectManager takes from a KubeStackVersion, from the
\* ProviderConfig (is there a CA bundle?) and from the label.
ConfigFor(features, bundle, label) ==
  [cp |-> features.cp, wl |-> label, ca |-> bundle,
   image |-> features.image, chart |-> features.chart]

\* What has to be there before o can be written: what o declares a dependency
\* on, what its content is made from, and the namespace it lives in.
Before(c, o) == DependsOnOf(o) \cup NeedsOf(c, o) \cup WithinOf(o)

\* Every object is registered after all of these.  An apply pass, which takes
\* the objects in this order, finds them written; and no two objects wait for
\* each other to be deleted.
InOrder ==
  \A c \in Configuration : \A i, j \in DOMAIN PlanOf(c) :
     PlanOf(c)[j] \in Before(c, PlanOf(c)[i]) => j < i
=============================================================================
