---------------------------- MODULE MCHelmValues ----------------------------
(***************************************************************************)
(* Values for TLC: every place the code reads is absent, null, of another  *)
(* type, empty or filled; the lists of variables hold none, foreign ones   *)
(* and ones that conflict with an injected one, once or twice.             *)
(***************************************************************************)
EXTENDS HelmValues, TLC

CONSTANT User   \* a value of the user the code does not look into

Env(name) == [name |-> name, value |-> "of the user"]

Conflicting == <<Env("KEEP"), Env("KUBECONFIG"), Env("SSL_CERT_DIR"), Env("KEEP")>>
Repeated ==
    <<Env("KUBERNETES_SERVICE_HOST"), Env("LAST"), Env("KUBERNETES_SERVICE_HOST")>>

Managers ==
    {Null, Malformed, [resources |-> User, extraEnvs |-> Conflicting],
     [featureGatesMap |-> User, extraEnvs |-> Repeated]}
    \cup {"extraEnvs" :> e : e \in {Null, Malformed}}

Operators ==
    {Null, Malformed} \cup
    {[enabled |-> User, admissionWebhooks |-> User, manager |-> m] : m \in Managers}

Other ==
    [collectors |-> User, extraObjects |-> User, imagePullSecrets |-> <<User>>,
     namespaceOverride |-> User,
     defaultCRConfig |-> [env |-> <<Env("KEEP"), Env("KUBECONFIG")>>]]

AllInputs ==
    {None, Null, Malformed, Other, [namespaceOverride |-> Malformed],
     [imagePullSecrets |-> Malformed]}
    \cup {Operator :> o @@ Other : o \in Operators}

=============================================================================
