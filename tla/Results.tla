------------------------------ MODULE Results ------------------------------
(***************************************************************************)
(* From the runs of a campaign to the report: what manifest.sh and the     *)
(* samplers record, analyze.py and report.py.  A run is its coordinates,   *)
(* and so are the names built from them.  What a run leaves behind is      *)
(* chosen freely: it may yield no canonical file, none with a success in   *)
(* its window, no samples of the client or too few, and no poll of the     *)
(* server inside the window.                                               *)
(***************************************************************************)
EXTENDS Cgroup, Sequences, FiniteSets

CONSTANTS
  Campaigns,  \* campaigns: the runs in the order of their file names
  Sites       \* where a campaign may run

Coordinates == {"tool", "method", "concurrency", "connections", "rps", "repeat"}
SiteFields == {"host", "node", "placements", "mode", "quota"}

\* JMeter opens one connection per thread (run-matrix.sh 231, 258).
ASSUME CampaignsAssumption == \A c \in Campaigns :
  /\ Len(c) \in Nat \ {0} /\ DOMAIN c = 1 .. Len(c)
  /\ \A i \in DOMAIN c :
       /\ DOMAIN c[i] = Coordinates /\ c[i].tool \in {"jmeter", "ghz"}
       /\ c[i].tool = "jmeter" => c[i].connections = c[i].concurrency
  /\ \A i, j \in DOMAIN c : c[i] = c[j] => i = j

\* What SUT_HOST stands for: the loopback address or "localhost", another name
\* of the load generator's machine (docker-compose's "sut"), or another machine.
Hosts == {"loopback", "alias", "other"}

\* node is NODE_NAME, a set of one name or of none outside a cluster, and
\* "unknown" is no node's name. placements are the pods there may be at a time.
\* Only a container's files show a quota.
ASSUME SitesAssumption == \A s \in Sites :
  /\ DOMAIN s = SiteFields /\ s.mode \in Modes /\ s.host \in Hosts
  /\ IsFiniteSet(s.node) /\ Cardinality(s.node) <= 1 /\ "unknown" \notin s.node
  /\ \A pods \in s.placements : IsFiniteSet(pods)
  /\ s.quota \in Int /\ (s.mode \in {"none", "host"} => s.quota <= 0)

VARIABLES
  pc,         \* manifest, runs, analyze, report, done, or failed
  campaign,   \* its runs
  site,       \* the machines it runs on
  pods,       \* the server's pods now
  manifest,   \* the node names and the host the manifest records
  next,       \* the next run
  counters,   \* periods and throttled periods of the container so far
  outcome,    \* per run: none, void (no success in its window) or served
  summary,    \* per run with a usable client-resources.json, what it says
  polled,     \* runs with a poll of the server inside their window
  runs,       \* what analysis.json lists under "runs"
  met,        \* history: per run, the periods and throttled periods it met
  known,      \* history: the nodes that served when the manifest was written
  serving     \* history: per run, the nodes that served during it

siteVars == <<campaign, site>>
placeVars == <<pods, known, serving>>
rawVars == <<counters, outcome, summary, polled, met>>
vars == <<pc, siteVars, placeVars, manifest, next, rawVars, runs>>

Runs == {campaign[i] : i \in DOMAIN campaign}
Canonical == {r \in DOMAIN outcome : outcome[r] # "none"}
Nothing == [r \in {} |-> 0]

Init ==
  /\ pc = "manifest" /\ next = 1
  /\ campaign \in Campaigns /\ site \in Sites
  /\ manifest = [node |-> {}, sut |-> {}, same |-> FALSE]
  /\ counters = <<0, 0>>
  /\ pods \in site.placements /\ known = {}
  /\ outcome = Nothing /\ summary = Nothing /\ met = Nothing /\ serving = Nothing
  /\ polled = {} /\ runs = {}

-----------------------------------------------------------------------------
(* The manifest *)

\* Mutation: a pod that is being deleted counts as ready until it is gone.
IsReadyStill(pod) == pod.ready

IsReady(pod) == pod.ready /\ ~pod.deleting

\* --print-node: the names of all nodes of ready pods; "|| echo unknown".
SutNodeName ==
  LET nodes == {p.node : p \in {q \in pods : IsReady(q)}}
  IN  IF nodes = {} THEN {"unknown"} ELSE nodes

\* The nodes whose pods a Service sends calls to.
ServingNodes(ps) == {p.node : p \in {q \in ps : q.ready /\ ~q.deleting}}

\* The node's name is read once, before the first run; the host is compared
\* with the loopback address as a string.
Capture ==
  /\ pc = "manifest" /\ pc' = "runs"
  /\ manifest' = [node |-> site.node,
                  sut  |-> IF site.node = {} THEN {} ELSE SutNodeName,
                  same |-> site.host = "loopback"]
  /\ known' = ServingNodes(pods)
  /\ UNCHANGED <<siteVars, pods, serving, next, rawVars, runs>>

-----------------------------------------------------------------------------
(* The runs *)

\* Mutation: the loop goes one run too far.
ProceedTooFar ==
  IF next > Len(campaign) THEN pc' = "analyze" /\ next' = 1
                          ELSE pc' = pc /\ next' = next + 1

Proceed ==
  IF next = Len(campaign) THEN pc' = "analyze" /\ next' = 1
                          ELSE pc' = pc /\ next' = next + 1

\* Periods pass only under a quota; in a hundred of a run's two or three are
\* throttled, and half of those of the warm-up before it.
Grown == IF site.quota > 0 THEN {<<100, 2>>, <<100, 3>>} ELSE {<<0, 0>>}
WarmUp == IF site.quota > 0 THEN <<100, 50>> ELSE <<0, 0>>
Plus(x, y) == <<x[1] + y[1], x[2] + y[2]>>

FilesAt(c) == CgroupFiles(site.mode, site.quota, c[1], c[2])

\* What sample_proc.py writes when its first sample saw one state of the
\* control group's files and its last another.
Summarize(first, last) ==
  [fraction |-> ThrottledFraction(CpuStat(first), CpuStat(last)),
   limit    |-> CpuLimit(last)]

With(f, r, v) == [x \in DOMAIN f \cup {r} |-> IF x = r THEN v ELSE f[x]]

\* The server is restarted before run r; other pods may come, on other nodes.
StartSut(r) ==
  /\ pods' \in site.placements
  /\ serving' = With(serving, r, ServingNodes(pods'))

\* A run, with a usable client file or not.
RunOne(o, grown, usable, poll) ==
  /\ pc = "runs"
  /\ StartSut(campaign[next])
  /\ LET r == campaign[next]
         start == Plus(counters, WarmUp)
         end == Plus(start, grown)
     IN  /\ counters' = end
         /\ outcome' = With(outcome, r, o)
         /\ met' = With(met, r, grown)
         /\ summary' = IF usable THEN With(summary, r, Summarize(FilesAt(start), FilesAt(end)))
                                 ELSE summary
         /\ polled' = IF poll THEN polled \cup {r} ELSE polled
  /\ Proceed
  /\ UNCHANGED <<siteVars, known, manifest, runs>>

\* Polls matter to runs that are analysed only.
SomeRun ==
  \E o \in {"none", "void", "served"}, grown \in Grown, usable \in BOOLEAN :
    \E poll \in {FALSE, o = "served"} : RunOne(o, grown, usable, poll)

-----------------------------------------------------------------------------
(* analyze.py *)

\* No completion in the window, or none that succeeded: the percentile of an
\* empty list raises the same ValueError.
Summarizes(r) == outcome[r] = "served"

\* Mutation: the first run that cannot be summarised ends the loop.
AnalyzeUntilError ==
  /\ pc = "analyze" /\ pc' = "report"
  /\ runs' = {r \in Canonical : \A i \in DOMAIN campaign : \A j \in 1 .. i :
                campaign[i] = r /\ campaign[j] \in Canonical => Summarizes(campaign[j])}
  /\ UNCHANGED <<siteVars, placeVars, manifest, next, rawVars>>

Analyze ==
  /\ pc = "analyze" /\ pc' = "report"
  /\ runs' = {r \in Canonical : Summarizes(r)}
  /\ UNCHANGED <<siteVars, placeVars, manifest, next, rawVars>>

\* analyze.py returned 1 and set -e keeps report.py from running.
NoRuns ==
  /\ pc = "report" /\ runs = {} /\ pc' = "failed"
  /\ UNCHANGED <<siteVars, placeVars, manifest, next, rawVars, runs>>

BuildReport ==
  /\ pc = "report" /\ runs # {} /\ pc' = "done"
  /\ UNCHANGED <<siteVars, placeVars, manifest, next, rawVars, runs>>

Next == Capture \/ SomeRun \/ Analyze \/ NoRuns \/ BuildReport

Spec == Init /\ [][Next]_vars

-----------------------------------------------------------------------------
(* The report, as functions of what it reads *)

Reported == pc = "done"

\* report.py's name for a run, and run_one's for its directory.
RunTag(r) == r
Directory(r) == r

ScenarioKey(r) == [c \in Coordinates \ {"repeat"} |-> r[c]]
Scenarios == {ScenarioKey(r) : r \in runs}
Group(k) == {r \in runs : ScenarioKey(r) = k}

SeriesLabel(tool, connections, concurrency) ==
  IF tool = "jmeter" THEN <<"jmeter", 0>>
  ELSE IF connections = concurrency THEN <<"ghz, connections = concurrency", 0>>
  ELSE <<"ghz, multiplexed", connections>>

Label(k) == SeriesLabel(k.tool, k.connections, k.concurrency)

\* The rows of a method's detail table and of the open-loop table.
ClosedScenarios == {k \in Scenarios : k.rps = 0}
OpenScenarios == {k \in Scenarios : k.rps # 0}

\* The scenarios that set a bar of a method's chart; the last one stays.
Bar(k) == {j \in ClosedScenarios : /\ j.method = k.method /\ Label(j) = Label(k)
                                   /\ j.concurrency = k.concurrency}

\* Mutation: runs are matched without their connections.
MatchingTopologies(k) ==
  {r \in runs : r.tool = k.tool /\ r.method = k.method /\ r.concurrency = k.concurrency}

\* The runs a row of the closed-loop tables takes its client cores from.
Matching(k) ==
  {r \in runs : /\ r.tool = k.tool /\ r.method = k.method
                /\ r.concurrency = k.concurrency /\ r.connections = k.connections}

\* ... by way of the files it finds: the runs those files are about.
CoresFrom(k) == {d \in DOMAIN summary : \E r \in Matching(k) : RunTag(r) = d}

\* The rows of the connection table: of whatever rate.
ConnectionKey(r) == <<Label(r), r.method, r.concurrency>>
ConnectionRow(r) == {q \in runs \cap polled : ConnectionKey(q) = ConnectionKey(r)}

ThrottleBanner == \E r \in DOMAIN summary : Warns(summary[r].fraction)
CpuLimits == {summary[r].limit : r \in DOMAIN summary} \ {Absent}

SameNodeBanner == manifest.node # {} /\ manifest.node = manifest.sut
SameHostBanner == manifest.same

-----------------------------------------------------------------------------
TypeOK ==
  /\ pc \in {"manifest", "runs", "analyze", "report", "done", "failed"}
  /\ campaign \in Campaigns /\ site \in Sites /\ pods \in site.placements
  /\ next \in DOMAIN campaign
  /\ counters \in Nat \X Nat
  /\ DOMAIN outcome \subseteq Runs
  /\ DOMAIN met = DOMAIN outcome /\ DOMAIN serving = DOMAIN outcome
  /\ \A r \in DOMAIN outcome : outcome[r] \in {"none", "void", "served"}
  /\ DOMAIN summary \subseteq DOMAIN outcome /\ polled \subseteq DOMAIN outcome
  /\ runs \subseteq Canonical

\* Whatever failed in other runs, a run with a success in its window is in the
\* report.  A row of the detail and open-loop tables and a bar join it with its
\* repeats only (analyze.py 212-221, 238-260, report.py 328-350); a row of the
\* connection table also joins it with other rates, whose runs have its key,
\* and with nothing else (report.py 472-477).
EveryServedRunIsReported ==
  Reported => \A r \in DOMAIN outcome : outcome[r] = "served" =>
    /\ \E k \in ClosedScenarios \cup OpenScenarios :
         /\ r \in Group(k)
         /\ \A q \in Group(k) : \A c \in Coordinates \ {"repeat"} : q[c] = r[c]
         /\ k \in ClosedScenarios => Bar(k) = {k}
    /\ \A q \in ConnectionRow(r) : \A c \in Coordinates \ {"repeat", "rps"} : q[c] = r[c]

\* A row's client cores, the denominator of RPS/core, were measured in the
\* row's own runs, in all of them that left a usable file (report.py run_tag
\* 81-88, matching 376-388).
CoresAreTheRowsOwn ==
  Reported => \A k \in ClosedScenarios :
    CoresFrom(k) = {d \in DOMAIN summary : \E r \in Group(k) : Directory(r) = d}

\* The banner is there exactly when a run whose client file is usable was
\* throttled in more than two of a hundred of its own periods, whichever files
\* the kernel offers, and the limit shown is the container's (OPENSHIFT.md 388,
\* sample_proc.py 96-156, 250-278, report.py 242-261, 295-305).
ThrottlingIsSaid ==
  Reported =>
    /\ ThrottleBanner <=> \E r \in DOMAIN summary : 50 * met[r][2] > met[r][1]
    /\ CpuLimits = IF summary # Nothing /\ site.quota > 0 THEN {<<site.quota, 1>>} ELSE {}

\* Run r shared the load generator's machine with the server.
Shared(r) == site.host # "other" \/ serving[r] \cap site.node # {}

\* The banner is about the moment of the manifest: for a run whose server is
\* where it was then, it is there exactly when the run shared its machine, as
\* long as one node served then and a server on the same machine is reached by
\* its loopback address.  A server that a restart has moved, or one that has
\* another name, goes unnoticed (k8s_restart_sut.py 121-142, manifest.sh 48-49,
\* 68, loadgen-job.yaml 114-117, run-matrix.sh 96, report.py 263-284).
SharedMachineIsSaid ==
  Reported /\ Cardinality(known) <= 1 /\ site.host # "alias" =>
    \A r \in DOMAIN outcome : serving[r] = known =>
      (SameHostBanner \/ SameNodeBanner <=> Shared(r))

\* What report.py:325-327 says: the two families are separated and never
\* rejoined, so no closed-loop row uses what an open-loop run measured.
FamiliesAreNeverRejoined ==
  Reported => \A k \in ClosedScenarios : \A d \in CoresFrom(k) : d.rps = 0
=============================================================================
