-------------------------- MODULE RestartSutProofs --------------------------
(* What harness/k8s_restart_sut.py promises, for any number of pods,        *)
(* replicas and polls.                                                      *)
EXTENDS RestartSut, FiniteSetTheorems, TLAPS

USE DEF clusterVars, scriptVars, vars

\* Every step of the cluster and of the script keeps the types.
THEOREM TypeCorrect == Spec => []TypeOK
<1>1. Init => TypeOK
  BY PollsAssumption DEF Init, TypeOK, Listed
<1>2. TypeOK /\ [Next]_vars => TypeOK'
  <2> SUFFICES ASSUME TypeOK, [Next]_vars PROVE TypeOK'
    OBVIOUS
  <2> USE DEF TypeOK
  <2>1. ASSUME NEW u \in Uids,
               CreatePod(u) \/ BecomeReady(u) \/ BecomeUnready(u) \/ Evict(u) \/ Terminated(u)
        PROVE  TypeOK'
    BY <2>1 DEF CreatePod, BecomeReady, BecomeUnready, Evict, Terminated
  <2>2. CASE ListBefore
    BY <2>2 DEF ListBefore, Listed
  <2>3. CASE PollReplaced \/ PollAgain \/ Deadline \/ ApiError
    BY <2>3, PollsAssumption DEF PollReplaced, PollAgain, Deadline, ApiError, Exit
  <2>4. ASSUME NEW u \in Uids, DeletePod(u) \/ DeleteMissing(u) \/ DeleteUnanswered(u)
        PROVE  TypeOK'
    BY <2>4 DEF DeletePod, DeleteMissing, DeleteUnanswered, MarkDeleted, Exit
  <2>5. CASE UNCHANGED vars
    BY <2>5
  <2> QED BY <2>1, <2>2, <2>3, <2>4, <2>5 DEF Next, ClusterNext, ScriptNext, Failure
<1> QED BY <1>1, <1>2, PTL DEF Spec

\* Every pod from before the call exists or is over, and from the first listing
\* on it is one of oldUids unless it was over by then.
OldKnown ==
  /\ \A u \in atStart : pod[u] # "absent"
  /\ pc \in {"delete", "poll"} \/ rc = "ok" =>
       \A u \in atStart : u \in oldUids \/ pod[u] = "gone"
  /\ rc = "ok" => \A u \in oldUids : pod[u] = "gone"
  /\ pc # "exited" => rc = "none"
  /\ pc \in {"delete", "poll"} \/ rc = "ok" => \A u \in oldUids : pod[u] # "absent"

LEMMA OldKnownInvariant == Spec => []OldKnown
<1>1. Init => OldKnown
  BY DEF Init, OldKnown, Listed
<1>2. TypeOK /\ OldKnown /\ [Next]_vars => OldKnown'
  <2> SUFFICES ASSUME TypeOK, OldKnown, [Next]_vars PROVE OldKnown'
    OBVIOUS
  <2> USE DEF TypeOK, OldKnown
  <2>1. ASSUME NEW u \in Uids,
               CreatePod(u) \/ BecomeReady(u) \/ BecomeUnready(u) \/ Evict(u) \/ Terminated(u)
        PROVE  OldKnown'
    BY <2>1 DEF CreatePod, BecomeReady, BecomeUnready, Evict, Terminated, Active
  <2>2. CASE ListBefore
    BY <2>2 DEF ListBefore, Listed
  <2>3. CASE PollReplaced
    BY <2>3 DEF PollReplaced, Replaced, Stale, Listed, Exit
  <2>4. CASE PollAgain \/ Deadline \/ ApiError
    BY <2>4 DEF PollAgain, Deadline, ApiError, Exit
  <2>5. ASSUME NEW u \in Uids, DeletePod(u) \/ DeleteMissing(u) \/ DeleteUnanswered(u)
        PROVE  OldKnown'
    BY <2>5 DEF DeletePod, DeleteMissing, DeleteUnanswered, MarkDeleted, Exit, Listed
  <2>6. CASE UNCHANGED vars
    BY <2>6
  <2> QED BY <2>1, <2>2, <2>3, <2>4, <2>5, <2>6
          DEF Next, ClusterNext, ScriptNext, Failure
<1> QED BY <1>1, <1>2, TypeCorrect, PTL DEF Spec

\* When the script reports success, no pod from before the call is left, and
\* none comes back.
THEOREM RestartIsFresh == Spec => []SuccessIsFresh
<1>1. OldKnown => SuccessIsFresh
  BY DEF OldKnown, SuccessIsFresh
<1> QED BY <1>1, OldKnownInvariant, PTL

\* What is left to delete was listed.
DeletesListed == pc = "delete" => toDelete \subseteq oldUids

\* Whatever the cluster does meanwhile, the script deletes no pod that it did not
\* list at first.
THEOREM OnlyListedAreDeleted == Spec => ReplacementsAreSpared
<1>1. Init => DeletesListed
  BY DEF Init, DeletesListed
<1>2. TypeOK /\ DeletesListed /\ [Next]_vars => DeletesListed'
  <2> SUFFICES ASSUME TypeOK, DeletesListed, [Next]_vars PROVE DeletesListed'
    OBVIOUS
  <2>1. CASE ClusterNext \/ UNCHANGED vars
    BY <2>1 DEF ClusterNext, CreatePod, BecomeReady, BecomeUnready, Evict, Terminated, DeletesListed
  <2>2. CASE ListBefore \/ PollReplaced \/ PollAgain \/ Deadline \/ ApiError
    BY <2>2 DEF ListBefore, PollReplaced, PollAgain, Deadline, ApiError, Exit, DeletesListed
  <2>3. ASSUME NEW u \in Uids, DeletePod(u) \/ DeleteMissing(u) \/ DeleteUnanswered(u)
        PROVE  DeletesListed'
    BY <2>3 DEF DeletePod, DeleteMissing, DeleteUnanswered, Exit, DeletesListed
  <2> QED BY <2>1, <2>2, <2>3 DEF Next, ScriptNext, Failure
<1>3. TypeOK /\ DeletesListed /\ [Next]_vars =>
        [\A u \in Uids : pc # "list" /\ u \notin oldUids /\ pod[u] # "terminating"
                           => pod'[u] # "terminating"]_vars
  <2> SUFFICES ASSUME TypeOK, DeletesListed, [Next]_vars, NEW u \in Uids,
                      u \notin oldUids, pod[u] # "terminating"
               PROVE  pod'[u] # "terminating"
    OBVIOUS
  <2>1. ASSUME NEW v \in Uids,
               CreatePod(v) \/ BecomeReady(v) \/ BecomeUnready(v) \/ Evict(v) \/ Terminated(v)
        PROVE  pod'[u] # "terminating"
    BY <2>1 DEF CreatePod, BecomeReady, BecomeUnready, Evict, Terminated, TypeOK
  <2>2. CASE ListBefore \/ PollReplaced \/ PollAgain \/ Deadline \/ ApiError \/ UNCHANGED vars
    BY <2>2 DEF ListBefore, PollReplaced, PollAgain, Deadline, ApiError
  <2>3. ASSUME NEW v \in Uids, DeletePod(v) \/ DeleteMissing(v) \/ DeleteUnanswered(v)
        PROVE  pod'[u] # "terminating"
    BY <2>3 DEF DeletePod, DeleteMissing, DeleteUnanswered, MarkDeleted, DeletesListed, TypeOK
  <2> QED BY <2>1, <2>2, <2>3 DEF Next, ClusterNext, ScriptNext, Failure
<1> QED BY <1>1, <1>2, <1>3, TypeCorrect, PTL DEF Spec, ReplacementsAreSpared

\* The script implements the abstract restart of FreshServer.
THEOREM RestartKeepsPromise == Spec => KeepsPromise
<1>1. Init => Promise!Init
  BY DEF Init, Promise!Init, Listed
<1>2. TypeOK /\ OldKnown /\ [Next]_vars => [Promise!Next]_Promise!vars
  <2> SUFFICES ASSUME TypeOK, OldKnown, [Next]_vars
               PROVE  Promise!Next \/ UNCHANGED Promise!vars
    BY DEF Promise!vars
  <2> USE DEF TypeOK, Promise!vars
  <2>1. ASSUME NEW u \in Uids,
               CreatePod(u) \/ BecomeReady(u) \/ BecomeUnready(u) \/ Evict(u) \/ Terminated(u)
        PROVE  Promise!Change
    BY <2>1 DEF CreatePod, BecomeReady, BecomeUnready, Evict, Terminated, Active,
                Promise!Change
  <2>2. CASE ListBefore \/ PollAgain
    BY <2>2 DEF ListBefore, PollAgain
  <2>3. CASE PollReplaced
    <3>1. \A u \in atStart : pod[u] = "gone"
      BY <2>3 DEF PollReplaced, Replaced, Stale, Listed, OldKnown
    <3>2. \E u \in Uids : pod[u] = "ready"
      BY <2>3 DEF PollReplaced, Replaced, Fresh, IsReady, Listed
    <3>3. rc = "none" /\ rc' = "ok" /\ UNCHANGED <<pod, atStart>>
      BY <2>3 DEF PollReplaced, Exit, OldKnown
    <3>4. Promise!Succeed
      BY <3>1, <3>2, <3>3 DEF Promise!Succeed
    <3> QED BY <3>4 DEF Promise!Next
  <2>4. CASE Deadline \/ ApiError
    <3>1. rc = "none" /\ rc' = "failed" /\ UNCHANGED <<pod, atStart>>
      BY <2>4 DEF Deadline, ApiError, Exit, OldKnown
    <3>2. Promise!Fail
      BY <3>1 DEF Promise!Fail
    <3> QED BY <3>2 DEF Promise!Next
  <2>5. ASSUME NEW u \in Uids, DeletePod(u) PROVE Promise!Change
    BY <2>5 DEF DeletePod, MarkDeleted, Listed, Promise!Change
  <2>6. ASSUME NEW u \in Uids, DeleteUnanswered(u) \/ DeleteMissing(u) PROVE Promise!Fail
    BY <2>6 DEF DeleteUnanswered, DeleteMissing, MarkDeleted, Exit, Listed, OldKnown,
                Promise!Fail
  <2>7. CASE UNCHANGED vars
    BY <2>7
  <2> QED BY <2>1, <2>2, <2>3, <2>4, <2>5, <2>6, <2>7
          DEF Next, ClusterNext, ScriptNext, Failure, Promise!Next
<1> QED BY <1>1, <1>2, TypeCorrect, OldKnownInvariant, PTL
        DEF Spec, KeepsPromise, Promise!Spec
-----------------------------------------------------------------------------
(* What ScriptEnds rests on *)

\* How much the script may still do: deletions, polls and its own end.
Budget ==
  CASE pc = "list"   -> Cardinality(Uids) + MaxPolls + 2
    [] pc = "delete" -> Cardinality(toDelete) + MaxPolls + 1
    [] pc = "poll"   -> (MaxPolls - polls) + 1
    [] pc = "exited" -> 0

\* Until it has exited there is something for the script to do, whatever the cluster
\* has done: list, delete a pod it listed or be told that it is gone, poll or give up.
NeverStuck == pc = "delete" => toDelete # {}

\* The cluster takes nothing from the budget, and the script lowers it with every step.
Spends == Budget \in Nat /\ (Budget' < Budget \/ (ClusterNext /\ UNCHANGED scriptVars))

\* The script cannot loop: for any number of pods and polls, and whatever the cluster
\* does in between, it has only so many steps to take and is never without one before it
\* has exited (k8s_restart_sut.py 93-121).
THEOREM ScriptHasABudget == Spec => []NeverStuck /\ [][Spends]_vars
<1>1. Init => NeverStuck
  BY DEF Init, NeverStuck
<1>2. TypeOK /\ NeverStuck /\ [Next]_vars => NeverStuck'
  <2> SUFFICES ASSUME TypeOK, NeverStuck, [Next]_vars PROVE NeverStuck'
    OBVIOUS
  <2>1. CASE ClusterNext \/ UNCHANGED vars
    BY <2>1 DEF ClusterNext, CreatePod, BecomeReady, BecomeUnready, Evict, Terminated, NeverStuck
  <2>2. CASE ListBefore \/ PollReplaced \/ PollAgain \/ Deadline \/ ApiError
    BY <2>2 DEF ListBefore, PollReplaced, PollAgain, Deadline, ApiError, Exit, NeverStuck
  <2>3. ASSUME NEW u \in Uids, DeletePod(u) \/ DeleteMissing(u) \/ DeleteUnanswered(u)
        PROVE  NeverStuck'
    BY <2>3 DEF DeletePod, DeleteMissing, DeleteUnanswered, Exit, NeverStuck
  <2> QED BY <2>1, <2>2, <2>3 DEF Next, ScriptNext, Failure
<1>3. TypeOK /\ [Next]_vars => [Spends]_vars
  <2> SUFFICES ASSUME TypeOK, Next PROVE Spends
    OBVIOUS
  <2> USE DEF TypeOK
  <2>1. /\ \A S \in SUBSET Uids : Cardinality(S) \in 0 .. Cardinality(Uids)
        /\ Cardinality(Uids) \in Nat /\ MaxPolls \in Nat /\ polls \in 0 .. MaxPolls
    BY UidsAssumption, PollsAssumption, FS_Subset, FS_CardinalityType
  <2>2. Budget \in Nat
    BY <2>1 DEF Budget
  <2>3. CASE ClusterNext
    BY <2>2, <2>3 DEF ClusterNext, CreatePod, BecomeReady, BecomeUnready, Evict, Terminated, Spends
  <2>4. ASSUME Exit("ok") \/ Exit("failed"), pc # "exited" PROVE Spends
    BY <2>1, <2>2, <2>4 DEF Exit, Budget, Spends
  <2>5. CASE ListBefore
    BY <2>1, <2>2, <2>5 DEF ListBefore, Listed, Budget, Spends
  <2>6. CASE PollAgain
    BY <2>1, <2>2, <2>6 DEF PollAgain, Budget, Spends
  <2>7. CASE PollReplaced \/ Deadline \/ ApiError
    BY <2>4, <2>7 DEF PollReplaced, Deadline, ApiError
  <2>8. ASSUME NEW u \in Uids, DeleteMissing(u) \/ DeleteUnanswered(u) PROVE Spends
    BY <2>4, <2>8 DEF DeleteMissing, DeleteUnanswered
  <2>9. ASSUME NEW u \in Uids, DeletePod(u) PROVE Spends
    <3>1. Cardinality(toDelete \ {u}) = Cardinality(toDelete) - 1
      BY <2>9, UidsAssumption, FS_Subset, FS_RemoveElement DEF DeletePod
    <3> QED BY <2>1, <2>2, <2>9, <3>1 DEF DeletePod, Budget, Spends
  <2> QED BY <2>3, <2>5, <2>6, <2>7, <2>8, <2>9 DEF Next, ScriptNext, Failure
<1> QED BY <1>1, <1>2, <1>3, TypeCorrect, PTL DEF Spec
=============================================================================
