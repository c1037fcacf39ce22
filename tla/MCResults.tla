----------------------------- MODULE MCResults -----------------------------
(* TLC values for Results: campaigns in the shape of the local and the full  *)
(* profile of loadgen/common/env.sh cut down to a few runs, and sites of     *)
(* every kind.                                                               *)
EXTENDS Results

Run(t, c, k, rps, n) ==
  [tool |-> t, method |-> "echo", concurrency |-> c, connections |-> k,
   rps |-> rps, repeat |-> n]

\* ghz's three connection modes; two repeats beside the other tool; two rates
\* at a concurrency the closed loop does not use.
SeparateFamilies ==
  { << Run("ghz", 128, 128, 0, 1), Run("ghz", 128, 1, 0, 1), Run("ghz", 128, 8, 0, 1) >>,
    << Run("ghz", 128, 128, 0, 1), Run("ghz", 128, 128, 0, 2), Run("jmeter", 128, 128, 0, 1) >>,
    << Run("jmeter", 128, 128, 0, 1), Run("jmeter", 256, 256, 1000, 1),
       Run("jmeter", 256, 256, 5000, 1) >> }

\* One concurrency for both families.
FullProfile ==
  { << Run("ghz", 256, 8, 0, 1), Run("ghz", 256, 8, 1000, 1), Run("jmeter", 256, 256, 0, 1) >> }

Site(host, node, placements, mode, quota) ==
  [host |-> host, node |-> node, placements |-> placements, mode |-> mode, quota |-> quota]

Pod(n, ready, deleting) == [node |-> n, ready |-> ready, deleting |-> deleting]
OnFirst  == {Pod("n1", TRUE, FALSE)}
OnSecond == {Pod("n2", TRUE, FALSE)}

\* Nobody ready; a pod that is going beside its successor; two that are ready;
\* a server that a restart may move to the load generator's node or away.
Placements ==
  { {{}, {Pod("n2", FALSE, FALSE)}},
    {OnFirst},
    {{Pod("n1", TRUE, TRUE), Pod("n2", TRUE, FALSE)}},
    {{Pod("n2", TRUE, TRUE), Pod("n1", TRUE, FALSE)}},
    {OnFirst \cup OnSecond},
    {OnFirst, OnSecond} }

\* A cluster, one machine under either name and two machines; limited or not
\* where the kernel shows it.
AllSites ==
  {Site("other", {"n1"}, ps, "v2", -1) : ps \in Placements}
    \cup {Site("other", {"n1"}, {OnSecond}, mode, quota) : mode \in {"v1", "v2"}, quota \in {-1, 4}}
    \cup {Site(host, {}, {{}}, mode, -1) : host \in Hosts, mode \in {"none", "host"}}

OneMachine == {Site("loopback", {}, {{}}, "host", -1)}
=============================================================================
