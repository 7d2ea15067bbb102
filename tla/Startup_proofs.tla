--------------------------- MODULE Startup_proofs ---------------------------
(***************************************************************************)
(* Proofs about Startup, for any number of processes, versions and faults. *)
(***************************************************************************)
EXTENDS Startup, TLAPS

(* With the flag, a process that handles objects holds the lease, and has  *)
(* renewed it before its deadline.                                         *)
Leading ==
    LeaderElect => \A r \in Replicas :
        Handles(r) => lease.holder = r /\ lease.age <= RenewDeadline

SInv == StartupTypeOK /\ Leading

(* The processes' part of the types.                                       *)
LEMMA StartupTypeStep ==
    ASSUME StartupTypeOK, [Next]_vars
    PROVE  StartupTypeOK'
<1> USE StartupAssumption DEF StartupTypeOK
<1>1. CASE StartInit
  <2>1. access' \in BOOLEAN
    BY <1>1, Zenon DEF StartInit
  <2>2. version' \in 0 .. MaxVersion /\ deployed' \in 0 .. version'
    BY <1>1 DEF StartInit, run
  <2> QED
    BY <1>1, <2>1, <2>2 DEF StartInit, run
<1>2. CASE InitAccess \/ InitAccessFails
  <2>1. access' \in BOOLEAN
    BY <1>2, Zenon DEF InitAccess, InitAccessFails
  <2> QED
    BY <1>2, <2>1 DEF InitAccess, InitAccessFails, Fault, run
<1>3. ASSUME NEW crds, Install(crds)
      PROVE  installed' \in [CRDs -> 0 .. MaxVersion]
  BY <1>3 DEF Install
<1>4. CASE InitCRDs \/ InitCRDsFails \/ InitPanics
  BY <1>3, <1>4 DEF InitCRDs, InitCRDsFails, InitPanics, Fault, run
<1>5. CASE InitGVK \/ InitGVKFails \/ InitExits
  BY <1>5 DEF InitGVK, InitGVKFails, InitExits, Fault, run
<1>6. CASE Deploy
  BY <1>6 DEF Deploy, init
<1>7. CASE Tick
  BY <1>7 DEF Tick, init
<1>8. ASSUME NEW r \in Replicas,
             RunStart(r) \/ RunAccess(r) \/ RunFails(r) \/ StartFails(r) \/ Stop(r)
      PROVE  StartupTypeOK'
  BY <1>8 DEF RunStart, RunAccess, RunFails, StartFails, Stop, Goes, Fault, init
<1>9. ASSUME NEW r \in Replicas, Start(r) \/ Stopped(r)
      PROVE  StartupTypeOK'
  BY <1>9 DEF Start, Stopped, Goes, init
<1>10. ASSUME NEW r \in Replicas, Renew(r) \/ LoseLease(r) \/ Crash(r)
       PROVE  StartupTypeOK'
  BY <1>10 DEF Renew, LoseLease, Crash, Fault, init
<1>11. CASE UNCHANGED vars
  BY <1>11 DEF vars, init, run
<1> QED
  BY <1>1, <1>2, <1>4, <1>5, <1>6, <1>7, <1>8, <1>9, <1>10, <1>11 DEF Next, InitStep

(* A lease that another process may take is not held by one that handles   *)
(* objects: the renew deadline comes before the lease may be taken.        *)
LEMMA LeadingStep ==
    ASSUME SInv, [Next]_vars
    PROVE  Leading'
<1> USE StartupAssumption DEF SInv, StartupTypeOK, Leading, Handles
<1>1. CASE StartInit \/ InitAccess \/ InitAccessFails \/ InitCRDs \/ InitCRDsFails
           \/ InitPanics \/ InitGVK \/ InitGVKFails \/ InitExits
  BY <1>1 DEF StartInit, InitAccess, InitAccessFails, InitCRDs, InitCRDsFails,
              InitPanics, InitGVK, InitGVKFails, InitExits, run
<1>2. CASE Deploy
  BY <1>2 DEF Deploy
<1>3. CASE Tick
  BY <1>3 DEF Tick, Leads
<1>4. ASSUME NEW r \in Replicas,
             RunStart(r) \/ RunAccess(r) \/ RunFails(r) \/ StartFails(r) \/ Stop(r)
      PROVE  Leading'
  BY <1>4 DEF RunStart, RunAccess, RunFails, StartFails, Stop, Goes
<1>5. ASSUME NEW r \in Replicas, Start(r)
      PROVE  Leading'
  <2>1. LeaderElect => \A s \in Replicas : ~Handles(s)
    BY <1>5 DEF Start, Free
  <2> QED
    BY <1>5, <2>1 DEF Start, Goes
<1>6. ASSUME NEW r \in Replicas, Stopped(r)
      PROVE  Leading'
  BY <1>6 DEF Stopped, Goes
<1>7. ASSUME NEW r \in Replicas, Renew(r) \/ LoseLease(r) \/ Crash(r)
      PROVE  Leading'
  BY <1>7 DEF Renew, LoseLease, Crash, Leads
<1>8. CASE UNCHANGED vars
  BY <1>8 DEF vars, run
<1> QED
  BY <1>1, <1>2, <1>3, <1>4, <1>5, <1>6, <1>7, <1>8 DEF Next, InitStep

LEMMA StartupInvariant == Spec => []SInv
<1>1. Init => SInv
  <2> SUFFICES ASSUME Init PROVE SInv
    OBVIOUS
  <2>1. access \in BOOLEAN
    BY Zenon DEF Init
  <2>2. StartupTypeOK
    BY <2>1, StartupAssumption DEF Init, StartupTypeOK
  <2>3. Leading
    BY DEF Init, Leading, Handles
  <2> QED
    BY <2>2, <2>3 DEF SInv
<1>2. SInv /\ [Next]_vars => SInv'
  BY StartupTypeStep, LeadingStep DEF SInv
<1> QED
  BY <1>1, <1>2, PTL DEF Spec

(* The state of both commands is well typed.                               *)
THEOREM StartupTypes == Spec => []StartupTypeOK
BY StartupInvariant, PTL DEF SInv

(* With leader election no two processes ever handle objects.              *)
THEOREM OnlyOneActive == Spec => []OneActive
<1>1. SInv => OneActive
  BY DEF SInv, Leading, OneActive
<1> QED
  BY <1>1, StartupInvariant, PTL

=============================================================================
