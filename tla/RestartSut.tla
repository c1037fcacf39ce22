----------------------------- MODULE RestartSut -----------------------------
(***************************************************************************)
(* harness/k8s_restart_sut.py: restart the server by deleting its pods and *)
(* waiting for the Deployment to replace them.  The Kubernetes API and the *)
(* Deployment (deploy/openshift/sut.yaml: Recreate, one replica) are       *)
(* external; pods move between any two of the script's requests.           *)
(***************************************************************************)
EXTENDS Naturals, FiniteSets

CONSTANTS
  Uids,      \* pod uids; the cluster never uses one twice
  Replicas,  \* spec.replicas of the Deployment
  MaxPolls   \* polls that fit in --timeout, two seconds apart at least

ASSUME UidsAssumption     == IsFiniteSet(Uids)
ASSUME ReplicasAssumption == Replicas \in Nat \ {0}
ASSUME PollsAssumption    == MaxPolls \in Nat

VARIABLES
  pod,       \* state of every pod, as the API lists it
  atStart,   \* the pods that existed when the script was called
  pc,        \* where the script is
  oldUids,   \* old_uids: the pods it listed first
  toDelete,  \* of these, the ones it has not deleted yet
  polls,     \* polls made so far
  rc         \* the exit status

clusterVars == <<pod, atStart>>
scriptVars  == <<pc, oldUids, toDelete, polls, rc>>
vars        == <<clusterVars, scriptVars>>

\* A pod with a deletionTimestamp is still listed while it terminates, and a
\* failed (evicted) one until somebody deletes it.
Listed == {u \in Uids : pod[u] \notin {"absent", "gone"}}
IsReady(u) == pod[u] = "ready"
Fresh == Listed \ oldUids
Stale == Listed \cap oldUids
\* Mutation: a terminating pod does not count as stale.
ReplacedWhileTerminating ==
  /\ Fresh # {} /\ \A u \in Fresh : IsReady(u)
  /\ \A u \in Stale : pod[u] = "terminating"

\* Mutation: any ready pod will do, as it does for a health probe.
ReplacedByAnyReady == \E u \in Listed : IsReady(u)

Replaced == Fresh # {} /\ Stale = {} /\ \A u \in Fresh : IsReady(u)

-----------------------------------------------------------------------------
Active == {u \in Uids : pod[u] \in {"starting", "ready"}}

Init ==
  /\ pod \in [Uids -> {"absent", "starting", "ready", "failed", "terminating"}]
  /\ Cardinality(Active) <= Replicas
  /\ atStart = Listed
  /\ pc = "list" /\ oldUids = {} /\ toDelete = {} /\ polls = 0 /\ rc = "none"

(* The cluster *)

CreatePod(u) ==
  /\ pod[u] = "absent" /\ Cardinality(Active) < Replicas
  /\ pod' = [pod EXCEPT ![u] = "starting"]
  /\ UNCHANGED <<atStart, scriptVars>>

BecomeReady(u) ==
  /\ pod[u] = "starting"
  /\ pod' = [pod EXCEPT ![u] = "ready"]
  /\ UNCHANGED <<atStart, scriptVars>>

\* The readiness probe fails, or the container restarts within its pod.
BecomeUnready(u) ==
  /\ pod[u] = "ready"
  /\ pod' = [pod EXCEPT ![u] = "starting"]
  /\ UNCHANGED <<atStart, scriptVars>>

Evict(u) ==
  /\ u \in Active
  /\ pod' = [pod EXCEPT ![u] = "failed"]
  /\ UNCHANGED <<atStart, scriptVars>>

Terminated(u) ==
  /\ pod[u] = "terminating"
  /\ pod' = [pod EXCEPT ![u] = "gone"]
  /\ UNCHANGED <<atStart, scriptVars>>

(* The script *)

Exit(status) == pc' = "exited" /\ rc' = status

\* No token, no CA, an HTTP error, an unreachable API: ApiError, status 1.
ApiError ==
  /\ pc \in {"list", "delete", "poll"}
  /\ Exit("failed")
  /\ UNCHANGED <<clusterVars, oldUids, toDelete, polls>>

ListBefore ==
  /\ pc = "list"
  /\ oldUids' = Listed /\ toDelete' = Listed
  /\ pc' = IF Listed = {} THEN "poll" ELSE "delete"
  /\ UNCHANGED <<clusterVars, polls, rc>>

MarkDeleted(u) ==
  pod' = [pod EXCEPT ![u] = IF @ = "failed" THEN "gone" ELSE "terminating"]

\* Mutation: the loop deletes what matches now rather than what it listed.
DeleteAnyPod(u) ==
  /\ pc = "delete" /\ u \in Listed
  /\ MarkDeleted(u)
  /\ toDelete' = toDelete \ {u}
  /\ pc' = IF toDelete \subseteq {u} THEN "poll" ELSE "delete"
  /\ UNCHANGED <<atStart, oldUids, polls, rc>>

DeletePod(u) ==
  /\ pc = "delete" /\ u \in toDelete /\ u \in Listed
  /\ MarkDeleted(u)
  /\ toDelete' = toDelete \ {u}
  /\ pc' = IF toDelete = {u} THEN "poll" ELSE "delete"
  /\ UNCHANGED <<atStart, oldUids, polls, rc>>

\* A pod that went away since the listing answers 404, which is an ApiError.
DeleteMissing(u) ==
  /\ pc = "delete" /\ u \in toDelete \ Listed
  /\ Exit("failed")
  /\ UNCHANGED <<clusterVars, oldUids, toDelete, polls>>

\* The pod is deleted and the answer lost: the script ends with the other pods
\* untouched.
DeleteUnanswered(u) ==
  /\ pc = "delete" /\ u \in toDelete /\ u \in Listed
  /\ MarkDeleted(u)
  /\ Exit("failed")
  /\ UNCHANGED <<atStart, oldUids, toDelete, polls>>

PollReplaced ==
  /\ pc = "poll" /\ polls < MaxPolls
  /\ Replaced
  /\ polls' = polls + 1
  /\ Exit("ok")
  /\ UNCHANGED <<clusterVars, oldUids, toDelete>>

\* Mutation: an off-by-one lets one poll more than the time allows.
PollOnceMore ==
  /\ pc = "poll" /\ polls <= MaxPolls
  /\ ~Replaced
  /\ polls' = polls + 1
  /\ UNCHANGED <<clusterVars, pc, oldUids, toDelete, rc>>

PollAgain ==
  /\ pc = "poll" /\ polls < MaxPolls
  /\ ~Replaced
  /\ polls' = polls + 1
  /\ UNCHANGED <<clusterVars, pc, oldUids, toDelete, rc>>

\* Mutation: the loop has no deadline.
NoDeadline == pc = "poll" /\ FALSE /\ UNCHANGED vars

\* Slow requests use up the time as well, so the deadline may come early.
Deadline ==
  /\ pc = "poll"
  /\ Exit("failed")
  /\ UNCHANGED <<clusterVars, oldUids, toDelete, polls>>

-----------------------------------------------------------------------------
ClusterNext ==
  \E u \in Uids : \/ CreatePod(u) \/ BecomeReady(u) \/ BecomeUnready(u)
                  \/ Evict(u) \/ Terminated(u)

ScriptNext ==
  \/ ListBefore \/ PollReplaced \/ PollAgain \/ Deadline
  \/ \E u \in Uids : DeletePod(u) \/ DeleteMissing(u)

Failure == ApiError \/ \E u \in Uids : DeleteUnanswered(u)

Next == ClusterNext \/ ScriptNext \/ Failure

\* The script is a process that runs; the cluster owes it nothing, and neither
\* is the API obliged to fail.
Spec     == Init /\ [][Next]_vars
FairSpec == Spec /\ WF_vars(ScriptNext)

-----------------------------------------------------------------------------
(* Properties *)

TypeOK ==
  /\ pod \in [Uids -> {"absent", "starting", "ready", "failed", "terminating", "gone"}]
  /\ atStart \in SUBSET Uids
  /\ pc \in {"list", "delete", "poll", "exited"}
  /\ oldUids \in SUBSET Uids /\ toDelete \in SUBSET Uids
  /\ polls \in 0 .. MaxPolls
  /\ rc \in {"none", "ok", "failed"}

\* Status 0 means that no pod from before the call is left in any form, not
\* even one that is terminating and could still answer a health probe, and
\* that stays so.
SuccessIsFresh == rc = "ok" => \A u \in atStart : pod[u] = "gone"

\* Only pods of the first listing are ever deleted: the script cannot chase the
\* replacements the Deployment makes for them.
ReplacementsAreSpared ==
  [][\A u \in Uids : pc # "list" /\ u \notin oldUids /\ pod[u] # "terminating"
                       => pod'[u] # "terminating"]_vars

\* Whatever the API and the cluster do, the script comes back.
ScriptEnds == <>(pc = "exited")

\* The promise the matrix relies on.
Promise == INSTANCE FreshServer WITH
  JVMs <- Uids, original <- atStart,
  alive <- {u \in Uids : pod[u] \in {"starting", "ready", "terminating"}},
  ready <- {u \in Uids : pod[u] = "ready"},
  ended <- {u \in Uids : pod[u] \in {"failed", "gone"}},
  result <- rc
KeepsPromise == Promise!Spec
=============================================================================
