------------------------------ MODULE Teardown ------------------------------
(***************************************************************************)
(* What the service provider promises about the objects it manages for one *)
(* OtelOperator instance, without saying how: while the instance lives the *)
(* set of existing objects may grow and shrink; from the moment a teardown *)
(* is under way it only shrinks - except that Flux may put back a          *)
(* namespace its release targets while the release is still there; and the *)
(* teardown is declared finished only when nothing is left, after which    *)
(* nothing ever comes back.                                                *)
(***************************************************************************)
EXTENDS FiniteSets

CONSTANTS
  Objects,   \* objects the provider may manage for the instance
  Creates    \* Creates[h]: the objects that Flux creates on behalf of h

VARIABLES
  exists,    \* the objects that exist on any of the three clusters
  closing,   \* no object is applied any more
  closed     \* the teardown was reported complete

tvars == <<exists, closing, closed>>

TTypeOK ==
  /\ exists \subseteq Objects
  /\ closing \in BOOLEAN
  /\ closed \in BOOLEAN

TInit ==
  /\ exists = {}
  /\ closing = FALSE
  /\ closed = FALSE

\* Objects are applied only while no teardown is under way.
Grow ==
  /\ ~closing
  /\ \E o \in Objects \ exists : exists' = exists \cup {o}
  /\ UNCHANGED <<closing, closed>>

\* Flux may restore what a release that still exists asks for.
Restore ==
  /\ \E h \in exists : \E o \in Creates[h] : exists' = exists \cup {o}
  /\ UNCHANGED <<closing, closed>>

Shrink ==
  /\ \E o \in exists : exists' = exists \ {o}
  /\ UNCHANGED <<closing, closed>>

Close ==
  /\ ~closing
  /\ closing' = TRUE
  /\ UNCHANGED <<exists, closed>>

Finish ==
  /\ closing
  /\ exists = {}
  /\ closed' = TRUE
  /\ UNCHANGED <<exists, closing>>

TNext == Grow \/ Restore \/ Shrink \/ Close \/ Finish

TSpec == TInit /\ [][TNext]_tvars
=============================================================================
