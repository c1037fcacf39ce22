------------------------------ MODULE Campaign ------------------------------
(***************************************************************************)
(* What the benchmark matrix promises of its order: round after round,     *)
(* every run of a round as often as the round holds it and in any order,   *)
(* the next round only when nothing of this one is left.  It may stop      *)
(* early, never skip.                                                      *)
(***************************************************************************)
EXTENDS Naturals, Sequences

CONSTANTS
  Runs,     \* the runs there are
  Rounds    \* a sequence: how often each run is in the round

VARIABLES round, todo, ran, state
vars == <<round, todo, ran, state>>

Nothing == [r \in Runs |-> 0]

Init ==
  /\ round = 0 /\ state = "running"
  /\ todo = Nothing /\ ran = [k \in DOMAIN Rounds |-> Nothing]

NextRound ==
  /\ state = "running" /\ todo = Nothing /\ round < Len(Rounds)
  /\ round' = round + 1
  /\ todo' = Rounds[round + 1]
  /\ UNCHANGED <<ran, state>>

Run ==
  /\ state = "running"
  /\ \E r \in Runs : /\ todo[r] # 0
                     /\ todo' = [todo EXCEPT ![r] = @ - 1]
                     /\ ran' = [ran EXCEPT ![round][r] = @ + 1]
  /\ UNCHANGED <<round, state>>

Finish ==
  /\ state = "running" /\ todo = Nothing /\ round = Len(Rounds)
  /\ state' = "finished"
  /\ UNCHANGED <<round, todo, ran>>

Stop ==
  /\ state = "running"
  /\ state' = "stopped"
  /\ todo' \in [Runs -> Nat] /\ \A r \in Runs : todo'[r] <= todo[r]
  /\ UNCHANGED <<round, ran>>

Next == NextRound \/ Run \/ Finish \/ Stop
Spec == Init /\ [][Next]_vars
=============================================================================
