---------------------------- MODULE TokenRefresh ----------------------------
(***************************************************************************)
(* The access of the workload's operator to the control plane: the         *)
(* ServiceAccount, its ClusterRoleBinding and the Secret with its token    *)
(* (pkg/oteloperator/authn/serviceaccount.go, authz/clusterrolebinding.go),*)
(* kept up by apply passes that come at the poll interval.                 *)
(*                                                                         *)
(* Time is relative: what is left of the token, and how long ago the last  *)
(* pass was.  One unit stands for any fixed span; the program's own        *)
(* figures are a lifetime of an hour and a slack of a minute.              *)
(***************************************************************************)
EXTENDS Naturals

CONSTANTS
    Namespaces,       \* control-plane namespaces the settings may name
    None,             \* no ServiceAccount
    PollInterval,     \* ProviderConfig.PollInterval
    Slack,            \* the minute added to it
    Lifetime,         \* the lifetime the API server grants a token
    Late,             \* how late a pass may come: queueing, a slow pass
    Backoff,          \* how long a pass that failed may wait for its retry
    MaxDisturbances   \* bound: failures, losses and edits in a behaviour

(* A pass comes before the slack is used up, and a fresh token outlives    *)
(* the wait for the next pass.  Nothing in the code ensures the second.    *)
ASSUME TimingAssumption ==
    /\ PollInterval \in Nat /\ Slack \in Nat /\ Lifetime \in Nat
    /\ Late \in Nat /\ Backoff \in Nat /\ MaxDisturbances \in Nat
    /\ Late < Slack
    /\ PollInterval + Late < Lifetime

ASSUME NoneAssumption == None \notin Namespaces

VARIABLES
    wanted,         \* the namespace the settings name (namespaceOverride)
    offered,        \* is the version asked for in the ProviderConfig?
    accounts,       \* namespaces that hold the ServiceAccount
    bound,          \* subject of the ClusterRoleBinding
    secret,         \* the token Secret on the workload cluster
    passed,         \* the last pass ended without an error
    gap,            \* the wait the last pass asked for
    idle,           \* time since the last pass
    outage,         \* time the operator has had no access while passed
    disturbances

vars == <<wanted, offered, accounts, bound, secret, passed, gap, idle, outage,
          disturbances>>

(* from: the account the token was issued for, None once that very account *)
(* is gone; left: the lifetime left; stamped: the annotation is there.     *)
Tokens == [from : Namespaces \cup {None}, left : 0 .. Lifetime, stamped : BOOLEAN]
NoSecret == [from |-> None, left |-> 0, stamped |-> FALSE]

Init ==
    /\ wanted \in Namespaces
    /\ offered = TRUE
    /\ accounts = {} /\ bound = None /\ secret = NoSecret
    /\ passed = FALSE
    /\ gap = 0 /\ idle = 0 /\ outage = 0 /\ disturbances = 0

(* The token authenticates, and as the account that holds the rights.      *)
Access == secret.from # None /\ secret.left > 0 /\ bound = secret.from

Disturbance ==
    /\ disturbances < MaxDisturbances
    /\ disturbances' = disturbances + 1

-----------------------------------------------------------------------------
(* The apply pass *)

(* Mutants: the time until the next pass is left out of the comparison;    *)
(* the expiry is not looked at.                                            *)
RenewalDueWithinSlack == ~secret.stamped \/ secret.left < Slack
RenewalDueOnce == ~secret.stamped

(* No annotation, or it names a time before the next poll plus the slack.  *)
RenewalDue == ~secret.stamped \/ secret.left < PollInterval + Slack

(* The account and its binding are written first, whatever they hold; a    *)
(* token is asked for only when the one at hand is due, and only for an    *)
(* account that exists.  An object that fails does not stop the others.    *)
WriteAccount(failing) ==
    accounts' = IF "account" \in failing THEN accounts ELSE accounts \cup {wanted}

(* Mutant: the binding is created but never updated.                       *)
WriteBindingOnce(failing) ==
    bound' = IF "binding" \in failing \/ bound # None THEN bound ELSE wanted

WriteBinding(failing) ==
    bound' = IF "binding" \in failing THEN bound ELSE wanted

(* Mutant: a token is asked for although its account could not be created. *)
WriteTokenUnchecked(failing) ==
    secret' = IF RenewalDue /\ "token" \notin failing
              THEN [from |-> wanted, left |-> Lifetime, stamped |-> TRUE]
              ELSE secret

WriteToken(failing) ==
    secret' = IF RenewalDue /\ "token" \notin failing /\ wanted \in accounts'
              THEN [from |-> wanted, left |-> Lifetime, stamped |-> TRUE]
              ELSE secret

(* The runtime asks for the next pass after the poll interval, or sooner or *)
(* later after a failure.                                                  *)
NextPassIn(wait) == gap' = wait /\ idle' = 0

Pass ==
    /\ offered
    /\ WriteAccount({}) /\ WriteBinding({}) /\ WriteToken({})
    /\ passed' = TRUE
    /\ NextPassIn(PollInterval)
    /\ outage' = IF Access' THEN 0 ELSE outage
    /\ UNCHANGED <<wanted, offered, disturbances>>

PassFails(failing) ==
    /\ offered
    /\ Disturbance
    /\ WriteAccount(failing) /\ WriteBinding(failing) /\ WriteToken(failing)
    /\ passed' = FALSE
    /\ \E wait \in 0 .. Backoff : NextPassIn(wait)
    /\ outage' = 0
    /\ UNCHANGED <<wanted, offered>>

(* Without the version no manager is built and nothing is written; the     *)
(* error is swallowed as the user's.                                       *)
PassRefused ==
    /\ ~offered
    /\ passed' = FALSE
    /\ NextPassIn(PollInterval)
    /\ outage' = 0
    /\ UNCHANGED <<wanted, offered, accounts, bound, secret, disturbances>>

-----------------------------------------------------------------------------
(* The world around it *)

(* Bound: the outage is counted up to here, beyond what OutageBounded allows. *)
OutageCap == Lifetime + PollInterval + Slack + Late

Tick ==
    /\ idle < gap + Late
    /\ idle' = idle + 1
    /\ secret' = [secret EXCEPT !.left = IF @ = 0 THEN 0 ELSE @ - 1]
    /\ outage' = IF passed /\ ~Access
                 THEN IF outage < OutageCap THEN outage + 1 ELSE outage
                 ELSE 0
    /\ UNCHANGED <<wanted, offered, accounts, bound, passed, gap, disturbances>>

(* The account, or its namespace, is deleted on the control plane.  One    *)
(* created later under the same name does not bring its tokens back.       *)
LoseAccount(n) ==
    /\ Disturbance
    /\ n \in accounts
    /\ accounts' = accounts \ {n}
    /\ secret' = [secret EXCEPT !.from = IF @ = n THEN None ELSE @]
    /\ UNCHANGED <<wanted, offered, bound, passed, gap, idle, outage>>

LoseBinding ==
    /\ Disturbance
    /\ bound' = None
    /\ UNCHANGED <<wanted, offered, accounts, secret, passed, gap, idle, outage>>

(* The Secret is deleted, or only its annotation.                          *)
LoseSecret ==
    /\ Disturbance
    /\ secret' \in {NoSecret, [secret EXCEPT !.stamped = FALSE]}
    /\ UNCHANGED <<wanted, offered, accounts, bound, passed, gap, idle, outage>>

ChangeSettings ==
    /\ Disturbance
    /\ \/ wanted' \in Namespaces \ {wanted} /\ UNCHANGED offered
       \/ offered' = ~offered /\ UNCHANGED wanted
    /\ UNCHANGED <<accounts, bound, secret, passed, gap, idle, outage>>

Faults == (SUBSET {"account", "binding", "token"}) \ {{}}

Next ==
    \/ Pass
    \/ \E failing \in Faults : PassFails(failing)
    \/ PassRefused
    \/ Tick
    \/ \E n \in Namespaces : LoseAccount(n)
    \/ LoseBinding
    \/ LoseSecret
    \/ ChangeSettings

Spec == Init /\ [][Next]_vars

(* Time goes on, and a pass is run when it is due: the queue of the        *)
(* runtime gives every request back after its delay.                       *)
FairSpec == Spec /\ WF_vars(Tick) /\ WF_vars(Pass)

-----------------------------------------------------------------------------
(* Properties *)

(* Types; the wait for a pass is never exceeded, and a token is one of an  *)
(* account that exists.                                                    *)
TokenTypeOK ==
    /\ wanted \in Namespaces /\ offered \in BOOLEAN
    /\ accounts \subseteq Namespaces /\ bound \in Namespaces \cup {None}
    /\ secret \in Tokens /\ secret.from \in accounts \cup {None}
    /\ passed \in BOOLEAN
    /\ gap \in Nat /\ idle \in 0 .. gap + Late /\ outage \in Nat
    /\ disturbances \in 0 .. MaxDisturbances

(* Since the last pass without an error, the token it wrote or kept has    *)
(* not expired: the slack in the comparison of the ReconcileFunc covers    *)
(* the wait for the next pass.                                             *)
TokenAlive == passed /\ secret.stamped => secret.left > 0

(* A pass that keeps the token of an account that was recreated or moved   *)
(* leaves the operator without access although no pass reports an error;   *)
(* that lasts no longer than the token may be kept, and one more wait.     *)
LongestKept == IF Lifetime > PollInterval + Slack
               THEN Lifetime - (PollInterval + Slack) ELSE 0

OutageBounded == outage <= LongestKept + PollInterval + Late

(* However the account, its binding and the Secret are disturbed, and      *)
(* whatever fails: once that ends and the version is offered, the operator *)
(* gets its access back and keeps it.                                      *)
AccessRecovers == <>[]offered => <>[]Access

(* What the comment at the construction of the account promises of a pass  *)
(* that reports no error: the operator can connect to the control plane.   *)
PassGivesAccess == [][Pass => Access']_vars

=============================================================================
