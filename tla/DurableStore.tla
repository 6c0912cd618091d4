---------------------------- MODULE DurableStore ----------------------------
(***************************************************************************)
(* What a durable driver promises.  A state of the records is a version.   *)
(* At any time a crash may leave the storage in one of several `outcomes`; *)
(* a commit in progress adds one.  Once a commit has been acknowledged, a  *)
(* reopening finds its version or a later one, and finds it whole.         *)
(***************************************************************************)
EXTENDS Integers

CONSTANT Versions  \* the states of the records, numbered in their order

VARIABLES
  outcomes,  \* the versions a reopening may find
  acked      \* the version of the last acknowledged commit

storeVars == <<outcomes, acked>>

Init ==
  /\ outcomes = {0}
  /\ acked = 0

\* A commit of version v has begun, and may survive a crash or not; or a
\* crash, a reopening or a flush has decided between the outcomes.
Attempt(v) ==
  /\ v >= acked
  /\ outcomes' # {}
  /\ outcomes' \subseteq outcomes \union {v}
  /\ UNCHANGED acked

\* The commit of version v succeeds.
Acknowledge(v) ==
  /\ v >= acked
  /\ outcomes' = {v}
  /\ acked' = v

Next == \E v \in Versions : Attempt(v) \/ Acknowledge(v)

Spec == Init /\ [][Next]_storeVars

(***************************************************************************)
(* Whatever happens, a reopening finds a version, and none older than the  *)
(* last one acknowledged.                                                  *)
(***************************************************************************)
AcknowledgedSurvives ==
  outcomes # {} /\ \A v \in outcomes : v >= acked
=============================================================================
