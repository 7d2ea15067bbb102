------------------------- MODULE TokenRefresh_proofs -------------------------
(***************************************************************************)
(* Proofs about TokenRefresh for every poll interval, lifetime and delay   *)
(* that satisfy TimingAssumption, and any number of disturbances.          *)
(***************************************************************************)
EXTENDS TokenRefresh, TLAPS

(* What the last pass left behind, and what the time since has used up.    *)
Timing ==
    passed => /\ gap = PollInterval
              /\ outage <= idle + LongestKept
              /\ secret.stamped =>
                   /\ outage + secret.left <= Lifetime
                   /\ \/ secret.left + idle >= Lifetime
                      \/ secret.left + idle >= PollInterval + Slack

IInv ==
    /\ TokenTypeOK
    /\ Timing
    /\ ~passed => outage = 0

LEMMA LongestKeptType ==
    /\ LongestKept \in Nat
    /\ \A l \in 0 .. Lifetime : l >= PollInterval + Slack => l <= Lifetime /\ Lifetime - l <= LongestKept
  BY TimingAssumption DEF LongestKept

LEMMA NothingWaited == 0 \in Nat /\ \A g \in Nat : 0 \in 0 .. g + Late
  BY TimingAssumption

(* The first state. *)
LEMMA TokenInitially == Init => IInv
<1> SUFFICES ASSUME Init PROVE IInv
  OBVIOUS
<1>1. offered \in BOOLEAN /\ passed \in BOOLEAN
  BY Zenon DEF Init
<1>2. secret \in Tokens /\ secret.from = None
  BY TimingAssumption DEF Init, NoSecret, Tokens
<1>3. TokenTypeOK
  BY <1>1, <1>2, TimingAssumption DEF Init, TokenTypeOK
<1> QED BY <1>3 DEF Init, IInv, Timing

(* A token is only written for an account that exists. *)
LEMMA WriteTokenTypes ==
  ASSUME TokenTypeOK, NEW failing, WriteAccount(failing), WriteToken(failing)
  PROVE  /\ accounts' \subseteq Namespaces
         /\ secret' \in Tokens
         /\ secret'.from \in accounts' \cup {None}
  BY TimingAssumption, NoneAssumption
  DEF TokenTypeOK, WriteAccount, WriteToken, Tokens

(* A pass without an error ends with a fresh token, which gives access, or *)
(* keeps one that lasts for longer than the next wait.                     *)
LEMMA PassWritesOrKeeps ==
  ASSUME TokenTypeOK, Pass
  PROVE  \/ secret'.left = Lifetime /\ outage' = 0
         \/ /\ secret' = secret /\ secret.stamped
            /\ secret.left >= PollInterval + Slack
            /\ outage' = 0 \/ outage' = outage
<1>1. wanted \in accounts' /\ bound' = wanted
  BY DEF Pass, WriteAccount, WriteBinding
<1>2. CASE RenewalDue
  <2>1. secret' = [from |-> wanted, left |-> Lifetime, stamped |-> TRUE]
    BY <1>1, <1>2 DEF Pass, WriteToken
  <2>2. Access'
    BY <1>1, <2>1, TimingAssumption, NoneAssumption DEF Access, TokenTypeOK
  <2> QED BY <2>1, <2>2 DEF Pass
<1>3. CASE ~RenewalDue
  <2>1. secret' = secret
    BY <1>3 DEF Pass, WriteToken
  <2>2. secret.stamped /\ ~(secret.left < PollInterval + Slack)
    BY <1>3 DEF RenewalDue
  <2>3. secret.left >= PollInterval + Slack
    BY <2>2, TimingAssumption DEF TokenTypeOK, Tokens
  <2> QED BY <2>1, <2>2, <2>3 DEF Pass
<1> QED BY <1>2, <1>3

LEMMA TokenStep == IInv /\ [Next]_vars => IInv'
<1> SUFFICES ASSUME IInv, [Next]_vars PROVE IInv'
  OBVIOUS
<1> USE TimingAssumption, NoneAssumption, LongestKeptType
<1>1. CASE Pass
  <2>1. TokenTypeOK'
    BY <1>1, WriteTokenTypes
    DEF Pass, IInv, TokenTypeOK, WriteBinding, NextPassIn
  <2>2. passed' /\ gap' = PollInterval /\ idle' = 0
    BY <1>1 DEF Pass, NextPassIn
  <2>3. outage <= LongestKept \/ outage' = 0 \/ secret'.left = Lifetime
    BY <1>1, PassWritesOrKeeps DEF IInv, TokenTypeOK, Tokens, Timing
  <2>4. Timing'
    BY <1>1, <2>1, <2>2, PassWritesOrKeeps DEF IInv, TokenTypeOK, Tokens, Timing
  <2> QED BY <2>1, <2>2, <2>4 DEF IInv
<1>2. CASE \E failing \in Faults : PassFails(failing)
  <2>1. PICK failing \in Faults : PassFails(failing)
    BY <1>2
  <2>2. gap' \in Nat /\ idle' = 0 /\ outage' = 0
    BY <2>1 DEF PassFails, NextPassIn
  <2>3. passed' \in BOOLEAN /\ ~passed'
    BY <2>1, Zenon DEF PassFails
  <2>4. bound' \in Namespaces \cup {None}
    BY <2>1 DEF PassFails, WriteBinding, IInv, TokenTypeOK
  <2>5. /\ accounts' \subseteq Namespaces
        /\ secret' \in Tokens
        /\ secret'.from \in accounts' \cup {None}
    <3>1. TokenTypeOK /\ WriteAccount(failing) /\ WriteToken(failing)
      BY <2>1 DEF PassFails, IInv
    <3> HIDE DEF TokenTypeOK, WriteAccount, WriteToken
    <3> QED BY <3>1, WriteTokenTypes
  <2>6. disturbances' \in 0 .. MaxDisturbances
    BY <2>1 DEF PassFails, Disturbance, IInv, TokenTypeOK
  <2>7. wanted' \in Namespaces /\ offered' \in BOOLEAN
    BY <2>1, Zenon DEF PassFails, IInv, TokenTypeOK
  <2>8. outage' \in Nat /\ idle' \in 0 .. gap' + Late
    BY <2>2, NothingWaited, Zenon
  <2>9. TokenTypeOK'
    BY <2>2, <2>3, <2>4, <2>5, <2>6, <2>7, <2>8, Zenon DEF TokenTypeOK
  <2> QED BY <2>2, <2>3, <2>9 DEF IInv, Timing
<1>3. CASE PassRefused
  <2>1. passed' \in BOOLEAN /\ ~passed'
    BY <1>3, Zenon DEF PassRefused
  <2>2. TokenTypeOK'
    BY <1>3, <2>1 DEF PassRefused, NextPassIn, IInv, TokenTypeOK
  <2> QED BY <1>3, <2>1, <2>2 DEF PassRefused, IInv, Timing
<1>4. CASE Tick
  <2>1. TokenTypeOK'
    BY <1>4 DEF Tick, IInv, TokenTypeOK, Tokens, OutageCap
  <2>2. outage' \in {0, outage, outage + 1} /\ (~passed => outage' = 0)
    BY <1>4 DEF Tick
  <2>3. ASSUME passed, secret.stamped
        PROVE  secret.left > 0 /\ secret' = [secret EXCEPT !.left = @ - 1]
    BY <1>4, <2>3 DEF Tick, IInv, TokenTypeOK, Tokens, Timing
  <2>4. Timing'
    BY <1>4, <2>1, <2>2, <2>3 DEF Tick, IInv, TokenTypeOK, Tokens, Timing
  <2> QED BY <1>4, <2>1, <2>2, <2>4 DEF Tick, IInv
<1>5. CASE \E n \in Namespaces : LoseAccount(n)
  <2>1. PICK n \in Namespaces : LoseAccount(n)
    BY <1>5
  <2>2. TokenTypeOK'
    BY <2>1 DEF LoseAccount, Disturbance, IInv, TokenTypeOK, Tokens
  <2> QED BY <2>1, <2>2 DEF LoseAccount, IInv, TokenTypeOK, Tokens, Timing
<1>6. CASE LoseBinding
  BY <1>6 DEF LoseBinding, Disturbance, IInv, TokenTypeOK, Timing
<1>7. CASE LoseSecret
  <2>1. secret' \in Tokens /\ secret'.from \in accounts \cup {None}
    <3>1. CASE secret' = NoSecret
      BY <3>1 DEF NoSecret, Tokens
    <3>2. CASE secret' = [secret EXCEPT !.stamped = FALSE]
      BY <3>2 DEF IInv, TokenTypeOK, Tokens
    <3> QED BY <1>7, <3>1, <3>2 DEF LoseSecret
  <2>2. TokenTypeOK'
    BY <1>7, <2>1 DEF LoseSecret, Disturbance, IInv, TokenTypeOK
  <2>3. ~secret'.stamped
    BY <1>7 DEF LoseSecret, NoSecret, IInv, TokenTypeOK, Tokens
  <2> QED BY <1>7, <2>2, <2>3 DEF LoseSecret, IInv, Timing
<1>8. CASE ChangeSettings
  <2>1. offered' \in BOOLEAN
    BY <1>8, Zenon DEF ChangeSettings, IInv, TokenTypeOK
  <2>2. wanted' \in Namespaces
    BY <1>8 DEF ChangeSettings, IInv, TokenTypeOK
  <2>3. TokenTypeOK'
    BY <1>8, <2>1, <2>2 DEF ChangeSettings, Disturbance, IInv, TokenTypeOK
  <2> QED BY <1>8, <2>3 DEF ChangeSettings, IInv, Timing
<1>9. CASE UNCHANGED vars
  BY <1>9 DEF vars, IInv, TokenTypeOK, Timing
<1> QED BY <1>1, <1>2, <1>3, <1>4, <1>5, <1>6, <1>7, <1>8, <1>9 DEF Next

THEOREM TokenInvariant == Spec => []IInv
  BY TokenInitially, TokenStep, PTL DEF Spec

(* Every variable keeps its type, no wait is longer than the last pass     *)
(* asked for and the delay allows, and tokens belong to accounts that are. *)
THEOREM TokenTypes == Spec => []TokenTypeOK
<1>1. IInv => TokenTypeOK
  BY DEF IInv
<1> QED BY <1>1, TokenInvariant, PTL

(* With a poll interval shorter than the lifetime, and passes less than    *)
(* the slack late, no token expires between two passes without an error.   *)
THEOREM TokenStaysAlive == Spec => []TokenAlive
<1>1. IInv => TokenAlive
  BY TimingAssumption DEF IInv, Timing, TokenTypeOK, Tokens, TokenAlive
<1> QED BY <1>1, TokenInvariant, PTL

(* A kept token of the wrong account costs the operator its access for no  *)
(* longer than the lifetime beyond the next wait, and that wait.           *)
THEOREM OutageStaysBounded == Spec => []OutageBounded
<1>1. IInv => OutageBounded
  BY TimingAssumption, LongestKeptType
  DEF IInv, Timing, TokenTypeOK, OutageBounded
<1> QED BY <1>1, TokenInvariant, PTL
=============================================================================
