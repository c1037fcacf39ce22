----------------------------- MODULE FreshServer -----------------------------
(***************************************************************************)
(* What a restart of the server promises the benchmark: it may fail, but   *)
(* when it reports success none of the JVMs that lived when it was asked   *)
(* for is left, and one that did not live then is ready.  A JVM that has   *)
(* ended never comes back.                                                 *)
(***************************************************************************)
CONSTANT JVMs

VARIABLES
  original,  \* the JVMs there were when the restart was asked for
  alive,     \* the JVMs that may still answer
  ready,     \* of these, the ones that have reported themselves ready
  ended,     \* the JVMs that are over
  result     \* what the restart reported

vars == <<original, alive, ready, ended, result>>

Init ==
  /\ original \in SUBSET JVMs
  /\ alive \in SUBSET original
  /\ ready \in SUBSET alive
  /\ ended = original \ alive
  /\ result = "none"

\* The world moves on: JVMs start, become ready and end, in any combination.
Change ==
  /\ ended \subseteq ended'
  /\ alive' \subseteq JVMs \ ended'
  /\ alive \subseteq alive' \cup ended'
  /\ ready' \subseteq alive'
  /\ UNCHANGED <<original, result>>

Succeed ==
  /\ result = "none"
  /\ alive \cap original = {} /\ ready # {}
  /\ result' = "ok"
  /\ UNCHANGED <<original, alive, ready, ended>>

\* A failed restart may have taken a JVM out of service all the same.
Fail ==
  /\ result = "none"
  /\ result' = "failed"
  /\ ready' \subseteq ready
  /\ UNCHANGED <<original, alive, ended>>

Next == Change \/ Succeed \/ Fail
Spec == Init /\ [][Next]_vars
=============================================================================
