# A verification project for jmeter-vs-ghz

The repository compares two gRPC load generators, JMeter and ghz. It holds a small gRPC server that both
tools load (the *system under test*, SUT) and a harness that restarts the server, runs the tools, samples
both sides and turns what they leave into a report. This directory models the server and the harness in
TLA+, checks the models with TLC on small instances and proves the most important facts with TLAPS for
every instance.

The value of a benchmark is that its numbers mean what the report says they mean. So nearly every property
here is about one of three questions: does the server count what it does, is each run made under the
conditions the report claims, and is a figure computed from the data it claims to be computed from.

## 1. The system

### Components

| component | state it keeps | operations | modelled in |
|---|---|---|---|
| `BenchmarkServiceImpl`, `SchedulerConfig` (sut) | per call: responses sent, a delayed task; a pool of delay threads | five handlers (echo, compute, payload, server stream, bidi), the scheduled continuation of the delayed ones, cancellation | `BenchmarkServer` |
| `ServerLatencyInterceptor` | in-flight, started and completed (by code) | a call starts (two updates), `close()` (two updates, then the real close) | `BenchmarkServer` |
| `ConnectionTracker` | active, opened | transport ready, transport terminated | `BenchmarkServer` |
| `k8s_restart_sut.py` | the pods it listed first, its deadline | list, delete one by one, poll until replaced; print the server's node | `RestartSut`, promise in `FreshServer`; the node in `Results` |
| `run-matrix.sh` | the cell, what is left of its shuffled plan, `SUT_PID`, raw and canonical files | cell and plan loops, `start_sut`, `stop_sut`, `wait_for_sut`, `warm_sut`, `run_one`, the final analysis | `Matrix`, promise in `Campaign`; `run_one` in `RunOne` |
| `sample_proc.py` | its samples, `peak_cpu`, the stop flag | scan `/proc`, read each process, append, stop by signal or by itself; the control group's limit and counters | `SampleProc`, promise in `BackgroundJob`; `Cgroup` |
| `scrape_server.py` | the series of samples | poll, stop; before/after pair and delta | `RunOne`, `Window` (the series' figures) |
| `normalize.py` | none (file to file) | one request's row to one canonical record | `Normalize` (the row), `Results` (the file) |
| `analyze.py` | the list of summaries | window, percentiles, median and spread, grouping | `Statistics`, `Window`, `Results` |
| `report.py` | none | tables and banners from the analysis, the manifest and the samplers' files | `Results` (which runs feed which table, bar and banner), `Window` (client against server count) |
| `manifest.sh` | none | the machine, the two node names, the host comparison | `Results` (what the banners read) |
| `loadgen/*/run.sh`, JMeter plans, `env.sh`, `workload.sh` | none | command lines of the tools, scenario parameters | constants of `Matrix`, requests of `BenchmarkServer`, rows of `Normalize` |

### How they interact

`run-matrix.sh` is one sequential process. For each line of a cell's plan it calls the restart command
(or starts a JVM, or does nothing), polls the health URL, warms the server, scrapes its metrics, starts the
tool together with two background samplers (`sample_proc.py` on the tool's process tree, `scrape_server.py`
on the metrics endpoint), waits for the tool, kills the samplers, scrapes again and calls `normalize.py`.
At the end it calls `analyze.py` and `report.py`. Files are the only channel between those steps. The tools
talk to the server over a few TCP connections; on the server, grpc-java calls the interceptor and the handlers
from an executor, and the delayed handlers come back on a shared scheduler.

### What is hard

* **Interleaving on the server.** A call has up to three threads: its executor, a delay thread, the
  transport. `close()` may come from two of them, a cancellation may come between any two callbacks, and
  the counters are independent atomics. A deadline, a cancellation or a loss reaches the client, the call on the
  server and the server's transport at different times.
* **A cluster that moves.** Between any two requests of the restart script pods are evicted, replaced,
  become unready or disappear, and a request may take effect although its answer is lost.
* **A process tree that moves.** Between the scan of `/proc` and the read of each process the tree forks,
  exits and loses children to process 1.
* **One script, three processes in its background.** The tool and its two observers start and end at their own
  pace; a signal may come before its handler, a file after the script has moved on, and the server may die
  under all of them.
* **Shell control.** `set -e`, traps, background subshells and an inherited standard input decide what a
  failure of one step does to a campaign of several hours.
* **Two clocks and two observers.** The load's duration, the measured window and the polls of the server
  have different anchors. A scrape is stamped before it is read, and some calls are counted by one side only.
* **Counters that began earlier.** The server's series and the control group's periods are cumulative, may
  restart, and may have no line yet at the first look; a run is the difference of two looks.
* **Names.** Tags, directories, scenario keys and labels are built in several places from the same
  coordinates and must keep apart what differs.

### What makes each component correct

| component | property | in words |
|---|---|---|
| handlers | `OkIsWhole`, `EveryCallEnds`, `AtMostOneClose` | an OK means all responses were sent; whoever waits for a call that arrived is answered or reset; a call is closed once |
| interceptor | `GaugesAccount`, `AnsweredIsCounted`, `HandlerReleases` | the series add up; an OK that a client holds is counted; a handler that ran releases the gauge |
| gauges together | `LeakIsExact` | when all has settled no connection is counted, and in flight are exactly the calls that leak, by three named causes |
| restart script | `SuccessIsFresh`, `ReplacementsAreSpared`, `KeepsPromise`, `ScriptEnds` | success means a fresh server; it never deletes what it did not list; it ends |
| matrix | `PlanIsRun`, `FreshOrWarned`, `KeepsOrder`, `ScriptEnds` | every line as often as it is planned and in order, its output lost to its own repetition only; on a fresh JVM or with a warning; only a command of others holds the script up |
| one run | `FilesAreThisRuns`, `DeltaCountsTheRun`, `NothingComesLater`, `RunEnds` | its files are its own, the independent count adds up, nobody writes afterwards, it ends however the observers fared |
| sampler | `NeverOvercharged`, `StableTreeIsCharged`, `IsBackgroundJob` | never charges CPU the tool did not burn, misses none while the tree only grows, is the process `run_one` relies on |
| records and statistics | `FaithfulWithinResolution`, `NearestRank`, `OneRepeatDoesNotDecide` | what a tool's resolution allows, no less; nearest rank; one bad repeat does not decide |
| window | `DriftIsAccountedFor`, `AchievedConcurrencyIsBounded`, `LoadCoversAllButStartup` | client and server differ by three named sources only; no more concurrency than workers; load throughout |
| tables | `EveryServedRunIsReported`, `CoresAreTheRowsOwn` | no run is lost to another's failure; rows and bars are made of the runs they name |
| banners | `ThrottlingIsSaid`, `SharedMachineIsSaid` | a throttled tool and a shared machine are said, and nothing else is; of the machine, as long as no restart moves the server |

## 2. The modules

### BenchmarkServer

One variable per thing the code or gRPC keeps per call. `stage` is how far `interceptCall` has come (in-flight
raised, then started raised). `halfClose`, `cancel` and `messages` are the queued callbacks of the call's
serializing executor; `task` is its entry in the delay scheduler; `work[c, t]` is a `close()` in progress on
thread `t`, one step per atomic update (`CloseDecrement`, `CloseCount`, `CloseCall`), so that another call's
updates and a scrape fall in between. Handlers are the actions `AnswerNow`, `AnswerLater`, `HandlerThrows`,
`BidiOnNext`, `BidiOnCompleted` and `OnCancel`; the scheduler's are `RunCompute`, `RunStream` and
`StreamTaskDies`.

The two ends of a connection learn of things apart from each other. `OpenCall` is the client's alone: while the
channel connects the call is buffered, and `Arrive` brings it to the server once the connection is up. `Cancel` is the
client giving up, for its deadline, by itself or because it finds the connection gone; `Mark` is the call being
cancelled on the server, by the client's reset, the deadline that both tools send along, or a lost connection; its
callback `OnCancel` comes later still, as in grpc-java. `TransportTerminated` is the tracker's callback and nothing
else. Any of them may come first. `Reset` tells a client of a call that the server has dropped.

Sizes, counts and delays are words of a given width read as signed ints (`AsInt`), because the protocol's
`uint32` fields are Java `int`s. Histogram values and payload bytes are left out.

### RestartSut and FreshServer

`RestartSut` is `k8s_restart_sut.py` next to a Deployment: `ListBefore`, one `DeletePod` per pod, polls with a
deadline, and after each of them whatever the cluster does (`CreatePod`, `BecomeReady`, `BecomeUnready`,
`Evict`, `Terminated`). A failing request is `ApiError`, a DELETE whose answer is lost `DeleteUnanswered`,
one that meets a pod already gone `DeleteMissing`. `FreshServer` is what a caller may rely on: after success
no JVM of before is left and a new one is ready; a failure promises nothing. `KeepsPromise` is the refinement,
with `alive` mapped to the pods that may still serve. `Matrix` uses exactly that promise in
`RestartSucceeds` and `RestartFails`.

### Matrix and Campaign

`pc` is the script's position, `plan` the lines the `while read` loop has left on its standard input, `entry`
the line in hand. The JVMs are numbered in the order they are started; `server` is the one that answers.
`restart` is which of `SUT_JAR`, `SUT_RESTART_CMD` or nothing was configured. `StartJar` follows the shell:
`pin java ... &` makes `SUT_PID` a subshell, and killing that leaves the old JVM on the port (`Listen`).
`RestartSucceeds` and `RestartFails` share the loop's standard input (`Stdin`). Each unguarded failure under
`set -e` is an `Abort`. The steps of the script are of two kinds: where it goes on by itself or waits for something
with a limit (`TimedStep`), and the end of a command of others that it awaits without one (`CommandEnds`: the restart
command, the warm-up, the tool). `raw` keeps under each tag the number of the run whose output is there. `Campaign` is
the order the comparison rests on: round by round, every run of a round as often as the round holds it, nothing
skipped unless the whole campaign stops; its rounds are multisets, because a plan may hold a line twice.
`KeepsOrder` is the refinement.

### RunOne and BackgroundJob

`RunOne` is the inside of `Matrix`'s `ScrapeBefore` .. `Normalize` for one run. `pc` walks through `run_one`'s
commands one by one; `tool`, `sampler` and `series` are its three background processes; `file` says of each file
whether it is missing, left from an earlier run with this tag, or new. The server keeps its completed calls per
status and its calls in flight; it may `Die` (and its counters with it) and `Recover` at any step. A snapshot
has a line for a counter only after its first increment, which is what makes `Delta` drop a new series. `Die` may
end the series (`Abort`): an answer that is cut off raises `IncompleteRead`, which the poller does not catch.
`quick` remembers that the tool ended before both observers had their handlers, `arrived`, `opened`, `missed` and
`deathsAt` what the delta is compared with; nothing reads them.

`BackgroundJob` is the abstract process both observers are for the script: killed by a signal before its
handlers are there, and after that ending in its own time with its file written. `SampleProc!IsBackgroundJob` is the
refinement for the sampler, safety proved and liveness checked, with `over` mapped to the disappearance of the
wrapper. `scrape_server.py`'s series loop is short enough to be used as the abstract job itself, with `MayAbort`.

### SampleProc

A CPU tick is a pair of a process and a number, so cumulative times are sets and what a sample saw can be
compared with what was burned. `Scan` is `descendants()`, `Read(p)` one `/proc/<pid>/stat`, `Append` the sum
with `peak_cpu`. The tree moves by `Fork`, `Burn`, `Exit` (children go to process 1) and `Reap`. `base`,
`opened` and `scanned` are history variables that the sampler never reads. `Terminate` is the script's signal,
which kills a sampler that has not installed its handlers yet. `Job` is the refinement of `BackgroundJob`.

### Normalize and Statistics

`Normalize` holds pure operators: what ghz and JMeter write about a request (`GhzDetail`, `JMeterRow`) and
`normalize.py`'s conversions, digit by digit where a fraction loses its trailing zeros. `Statistics` feeds
requests of one tool through them into a sorted sample, beside the true latencies, and applies `Percentile`,
`TwiceMedian` and `Spread`. The same functions score the repeats of a scenario, so the sample stands for
either. `Rank` models `math.ceil(p / 100.0 * n)` as a double computes it, with the error of the factor and the
rounding of the product.

### Window

Workers send without pausing until the tool's time is up; the server's `Close` and the client's `Complete` are
separate steps of a call. `Fail` is a call that ends for its client without an answer, by its deadline or because the
server is unavailable: a record all the same. The server may close such a call later (`CloseAbandoned`) or never.
A scrape is two steps, as at `scrape_server.py:109`: `Stamp` takes the time, `Scraped` reads the counter any time
later or loses the sample, and both may be late. Afterwards `WindowStart`, `InWindow`, `Inside`, `ServerCount` and
`BusyTime` are `analyze.py`'s and `report.py`'s arithmetic over those records and samples. A scrape's series are one
counter here, read at one instant; that `total()` adds several, read one after the other, is left out.

### Results and Cgroup

A campaign from its manifest to its report: the runs as coordinates in the order of their file names, and the site,
that is the nodes, the ways the cluster may place the server's pods (`placements`) and the files the kernel shows of
the control group. `Capture` is what `manifest.sh` records, `SutNodeName` the restart script's `--print-node`, once
before the campaign. Each run begins with a restart, which places the server anew, perhaps elsewhere (`StartSut`);
`known` and `serving` remember where the server was when the manifest was written and during the runs. What a run
leaves behind is chosen freely (`SomeRun`): no canonical file, only failures, or successes; a usable client file or none; a poll
of the server inside its window or none; and how often the scheduler throttled it, on counters that began with the
container and have seen the warm-up too. `Analyze` is the loop of `analyze.py` with its `except ValueError`. The
report's tables, bars and banners are operators over the result: `Group`, `Bar`, `Matching`, `CoresFrom`,
`ConnectionRow`, `ThrottleBanner`, `CpuLimits`, `SameNodeBanner`, `SameHostBanner`. `Cgroup` holds the
conversions of `sample_proc.py`: limit, counters and throttled fraction for either hierarchy, the root group of a
host and no group at all.

## 3. The runs

| run | instance | what it shows |
|---|---|---|
| `server` | 2 calls, 1 connection, 1 delay thread, 6 request shapes, 3-bit ints, 230 000 states, fair | all safety and liveness properties of the server |
| `server_gauge_leak` | the requests the load generators send | **violated** `GaugesReturnToZero` |
| `restart` | 4 pods, 1 replica, 2 polls, any initial mix, 108 000 states, fair | the script's safety, its end, and that it implements `FreshServer` |
| `matrix` | a closed and an open cell of two runs each, all three ways to restart, one line planned twice, 1 fault, 1.3 million states, fair | plan, freshness, whose raw output is left, order and end |
| `matrix_local_shared_jvm` | one cell, `SUT_JAR`, no fault | **violated** `EveryRunIsFresh` |
| `matrix_stdin` | one cell, a restart command that reads standard input | **violated** `PlanIsRun` |
| `run_one` | 2 calls, 1 death, either tool, new or used directory, 489 000 states, fair | files, delta, silence afterwards, end |
| `sampler` | wrapper, tool, helper; one tick each, 1.1 million states, fair | the charge from above and below, the background job |
| `statistics` | samples of up to 7 requests, 60 000 states | records, percentiles, median and spread |
| `window` | 2 workers, warm-up of one tick and window of two, a failure, late and lost scrapes, 4.4 million states | agreement, concurrency and cover |
| `results` | 3 campaigns of 3 runs, 16 sites, 218 000 states | what reaches which table, bar and banner |
| `results_families_mixed` | 3 runs in the shape of the full profile | **violated** `FamiliesAreNeverRejoined` |

Deadlock is not checked: every model ends, because scripts end, calls end and a client need not call.

### Bounds, and why they are enough

* **Server.** Two calls are what the shared state needs: every property counts calls or relates one call to
  the counters, and one delay thread is the worst pool. Each of the six shapes reaches a branch of its own
  (delayed answer, negative size, an immediate stream with a count beyond the sign bit, a delayed one of two messages and
  one with a count of zero, bidi). The shapes left out, `echo` and the undelayed `compute` and `payload`, take the
  immediate stream's path with one response. A bidi client posts one message or none. Three bits make 4 the first
  negative number; a delay of one is "delayed". The calls differ in their requests only, which never change, so the
  constraint `OneOrder` takes one of the two ways to give them a pair. One connection is enough for a call to lose its
  transport at any step; what several connections could change, the gauge, is proved for any number of them.
* **Restart.** Four pods allow an old one, its replacement, the replacement of that after an eviction, and
  a pod that was terminating from the start. Two polls allow one that finds the pods in motion and one after.
* **Matrix.** A cell of three lines and one of two give every order within a cell and the step to the next. The
  connection modes are `match 2` at concurrency 2, so that one ghz line is planned twice, as the default `match 8 1`
  does at concurrency 8 and 1. `MaxFaults` bounds deaths of the server and failed restarts together, `MaxBooting` the
  JVMs that boot at once; with one of each a restart fails or a server dies at any step. The proofs have no such bound.
  The two families share their coordinates except for the rate, the closest pair of tags a plan has.
* **One run.** Two calls give one of each status, one that is in flight at a snapshot and one that is not; the
  server starts with any small count, so that a series may be new or old. One death separates "before the first
  snapshot", "between" and "after"; a second one changes nothing, because any death in between voids the claim. The
  proofs have no such bound.
* **Sampler.** Three processes give a parent that dies before its child. One tick per process is enough for
  a tick before, during and after each read.
* **Statistics.** Seven requests cover odd and even medians, the range (below four) and the quartiles (four to
  seven). Starts around a full second reach every shape of the fraction, with and without trailing zeros. The proofs
  have no such bound; where they have one, a thousand requests, the code is really off.
* **Window.** Two workers start and complete at different ticks; a window of two ticks has an inside
  and two edges, and two scrapes fit into it; a scrape takes up to the whole rest of the run or is lost. One failed call
  (`MaxFailures`) may be closed by the server before, in or after the window, or never. With any of the sources left out
  of `DriftIsAccountedFor` this instance finds a drift that the rest does not explain.
* **Results.** Every property relates at most two runs, and three give such a pair a neighbour; the three campaigns
  hold every pair that could be confused: connection modes at one concurrency, repeats beside the other tool,
  two rates beside a closed-loop run. The sites are every state of a pod before, during and after its
  replacement, a server that a restart may move to the load generator's node or away from it, both hierarchies with
  and without a quota, a host and no control group, and one machine under either of its names. A run is throttled in
  two or three of a hundred periods, on either side of the report's limit, after a warm-up throttled in half of its own.

### Fairness

* `BenchmarkServer.FairSpec`: for each call, weak fairness of what the server's threads have to do for it (its executor,
  its scheduler task, a `close()` in progress) and of the delivery of its answer or reset while the connection is up.
  These are threads of a JVM that always return, and TCP. Nothing obliges a client to call, to send or to cancel, a
  connection to come up, or a call to arrive; so `EveryCallEnds` speaks of calls that have arrived and of
  connections that are not lost.
* `RestartSut.FairSpec`: weak fairness of the script only. Its one wait has a time limit, modelled as a step that is
  enabled while it waits (`Deadline`), and its requests have timeouts. The cluster owes nothing.
* `Matrix.FairSpec`: weak fairness of `TimedStep` only, where the script goes on by itself or waits for health under
  `HealthTimeout`. The restart command (`run-matrix.sh:96`), the warm-up's ghz (`:123`) and the tool (`:183`) are awaited
  without a limit, and nobody promises that they end: `ScriptEnds` says that the script ends or stays in one of these
  for ever.
* `RunOne.FairSpec`: weak fairness of the script and of each observer, which are processes that run and whose every
  blocking call has a timeout. Nobody promises that the tool ends or that the server recovers, so `RunEnds` speaks
  of a tool that has ended.
* `SampleProc.FairSpec`: weak fairness of the sampler only, not of the tool and not of the signal.

## 4. What is proved

All theorems hold for every value of the constants that satisfies the named assumptions of the module
(finite sets of calls, connections, pods or processes; natural bounds). The proofs are in the `...Proofs` modules.

| module | theorem | says |
|---|---|---|
| `BenchmarkServerProofs` | `TypeCorrect` | `TypeOK` is invariant |
| | `CloseIsUnique` | `AtMostOneClose` |
| | `GaugesAreExact` | `GaugesAccount` |
| | `AnswersAreCounted` | `AnsweredIsCounted` |
| | `OksAreWhole` | `OkIsWhole`, for any number of calls and any width of the integers |
| | `WhoWaitsIsServed` | no call waits with nothing on its way to it: the safety `EveryCallEnds` rests on |
| | `LeakIsAccountedFor` | `LeakIsExact`: once all has settled, no connection is counted and in-flight is the number of leaked calls, by three named causes |
| `RestartSutProofs` | `TypeCorrect` | `TypeOK` is invariant |
| | `RestartIsFresh` | `SuccessIsFresh` |
| | `OnlyListedAreDeleted` | `ReplacementsAreSpared` |
| | `RestartKeepsPromise` | `RestartSut` implements `FreshServer` |
| | `ScriptHasABudget` | the script always has a step, and each lowers a budget the cluster cannot raise |
| `SampleProcProofs` | `TypeCorrect` | `TypeOK` is invariant |
| | `NoOvercharge` | `NeverOvercharged` |
| | `StableCharge` | `StableTreeIsCharged` |
| | `ImplementsBackgroundJob` | every step of `SampleProc` is one of `BackgroundJob` or a stutter |
| | `SamplerHasABudget` | after the signal, or once the wrapper is gone, each step of the sampler lowers a budget nothing can raise |
| `RunOneProofs` | `TypeCorrect` | `TypeOK` is invariant |
| | `FilesCorrect` | `FilesAreThisRuns` |
| | `NothingComesLaterCorrect` | `NothingComesLater` |
| | `DeltaCorrect` | `DeltaCountsTheRun` |
| | `NobodyIsAwaitedInVain` | `run_one` only goes forward, and waits for an observer only when that has ended or been told to |
| `MatrixProofs` | `TypeCorrect` | `TypeOK` is invariant |
| | `RunsAreFresh` | `FreshOrWarned`, for any plan and any number of faults |
| | `OrderIsKept` | `KeepsOrder`: `Matrix` implements `Campaign` for any profile, if the restart command does not read standard input |
| | `PlansAreRun` | `PlanIsRun` for any profile, if the restart command does not read standard input |
| | `CampaignAdvances` | each step of the script lowers the cells, lines and commands to come, in lexicographic order |
| `WindowProofs` | `TypeCorrect` | `TypeOK` is invariant |
| | `DriftIsExplained` | `DriftIsAccountedFor`, for any number of workers and failures and any scrapes, late or lost |
| | `LoadCovers` | `LoadCoversAllButStartup` |
| | `ConcurrencyIsBounded` | `AchievedConcurrencyIsBounded`, for any number of workers and any window |
| `StatisticsProofs` | `StatisticsTypeOK` | `TypeOK` is invariant |
| | `FaithfulRecords` | `FaithfulWithinResolution`, for any start and duration |
| | `NearestRankBelowAThousand` | `NearestRank`, if the sample has fewer than a thousand requests |
| | `PercentilesOfAnySample` | for any sample a percentile is at most one rank too high, and exact unless it is p99.9 of a whole number of thousands |
| | `P999OfAThousand` | of a thousand requests whose largest latency stands alone p99.9 is that one, so the bound above is sharp |
| | `NoRepeatDecides` | `OneRepeatDoesNotDecide`: the headline from three repeats on, the spread from five (of four, `0 10 10 10`, it does not hold) |
| `ResultsProofs` | `TypeCorrect` | `TypeOK` is invariant |
| | `ThrottlingIsReported` | `ThrottlingIsSaid` |
| | `SharingIsReported` | `SharedMachineIsSaid`: of the runs that were served where the manifest found the server, under a host name the script can recognise |
| | `ServedRunsAreReported` | `EveryServedRunIsReported`: each has its row and its bar, and a row joins no other tool or connections; other rates it may join |
| | `CoresAreOwn` | `CoresAreTheRowsOwn`, if no open-loop run has all other coordinates of a closed-loop one (`FamiliesDiffer`) |

**Server.** "At most one close" is not inductive: nothing in it says that a half-close cannot be handled after
the close has begun. `CallInv` adds, per call, what the client must have done first (`ClientFirst`), that a
close begins only after the half-close, or for bidi the cancellation, was handled (`BegunOnce`), and that at any
time at most one of executor, delay thread and scheduled task will close the call (`SoleCloser`). `Tallies` then
says that each counter is the cardinality of a set of calls: entered minus released, counted, recorded. Each step moves
one call in or out of one set, and the gauges' equations are arithmetic over those cardinalities. `Carried` does the
same for connections, which the run has only one of: the gauge counts those the server's transport holds.
`OkIsWhole` looks at the trailers, and whoever sends them sent the last response one step earlier. `Delivery` bridges
that: an OK is promised (held by somebody who is closing, or sent) only when the responses are whole; until then a
bidi call has answered what has reached it, and a scheduled task has a response left.

What a call still has to get is `Owed`: a handler that ran and has not released the gauge has handed that to its task
or to a thread that is closing, or it threw, or its stream was broken off by a cancellation (`Handed`). So nobody
waits with nothing on its way (`NoCallIsForgotten`): an answer, a reset, or a step of the server. When no connection is
left and nothing is under way, the same invariant leaves exactly three kinds of call that never release (`Leaks`), and
`Tallies` turns that into the figure the gauge shows. None of this relates what a client knows to what the server
knows, beyond that a call is sent before it arrives.

**Restart.** `OldKnown` says that from the first listing on, whatever existed at the start is in `old_uids` or
gone for good. With it a success leaves nothing of before, and each step of the script maps to a step or a
stutter of `FreshServer`; losing the answer to a DELETE maps to its `Fail`, which may take a pod out of service.
`DeletesListed` says that what is left to delete was in the first listing.

**Sampler.** The first sample is taken while the tree runs, so it is neither the CPU of the first scan nor that
of its own end. `Kept` is the key: any process still in the tree, or listed for this round, had all its ticks of the
time of the first scan counted by the first sample. So no later sum sees an old tick the first one missed, and the
difference of two sums is at most what was burned since (`Charge`). `FirstRound` establishes it,
`TreeIsLeast` and `TreeIsClosed` are about the walk over parents, `Unborn` keeps new processes out of old ticks. The
bound from below needs that nothing has ended: then every process present is in the tree (`Together`, by the
least-set argument over a fork), a round's list and its reads cover every tick of the time of its scan and every tick
of the first sample (`Covered`), and the two are disjoint (`FirstIsOld`).

**Background job.** The sampler must not end by itself while the tool is there. `NoStats` ends it when no process of its
last scan could be read, and that this means the wrapper is gone needs an invariant: `RootWatch` says that during a
round the wrapper is still on the list, was found, or is gone.

**One run.** `FilesAreThisRuns` speaks of the end of the script and is not inductive. `Stages` is its strengthening: who
is alive at each step (`Alive`), what has been written by then (`Written`), and how the observers of a tool that was
not quick can have ended (`Lasting`): neither killed nor aborted, unless the server died. `NothingComesLater` follows
from the same three. `DeltaCountsTheRun` rests on `Ledger`: as long as the server lives, its completed calls and
those in flight are the ones of the first snapshot and the ones that have arrived since, and no counter the snapshot
has falls below it. The second snapshot turns that balance into the delta by arithmetic over both statuses.

**Matrix.** `FreshOrWarned` speaks of the log. `ServerIsUnused` says why the next entry will do: after a restart that
was not reported as failed, whoever answers or is still booting has a number above every JVM of the log (`Numbered`).
A late boot of a pod from an earlier, failed restart is why the booting ones are in it. For the order, `OrderInv`
says that nothing is left of a plan when a cell ends and that the line in hand is not in it any more; with it every
step is one of `Campaign`'s or a stutter (`StepsInOrder`). Both sides count how often a line is still to do
(`Times`), which a shuffle keeps (`TimesOfShuffle`) and taking the first line lowers by one (`TimesOfTail`); so a line
may be planned twice. The condition named in the theorem is needed: `matrix_stdin` shows what a reading restart
command does. `CellsAreLists` is about the plans of any profile. For the counts and the raw output, `Account` says of
every line of the cells so far that what is to do and what has been run add up to what is planned, and of the log that
every output is there or taken by a later run of the same line (`LoadKeepsOutput`).

**Window.** The drift compares two counts that different processes made, so the proof pairs what they count, by
worker and time of sending. `Own` says that a worker's calls follow one another, `Paired` which closes and records belong
to one call and which of them came first; `Snapshots` that a scrape has counted the closes up to the instant it was read,
which is no earlier than its stamp. Two injections then give the two bounds. A call counted by one side only is one of
the three sources `DriftIsAccountedFor` names: its completion lies in the window and outside the two readings, it was in
flight at the first reading or at the window's end, or its client had given it up. A late reading of the last sample
counts no more than the calls in flight at the window's end, because nobody sends after the load's time is up, which
is not after the window's end. For the cover, `Pauseless` says that a worker of a running tool has
sent again the moment it took an answer. For the concurrency, `Busy` pairs each scored request with the ticks it took.
The records of a worker do not overlap (`Own`), so no pair is counted twice and the sum the code takes is the
cardinality of `Busy` (`SumIsBusy`); no record is longer than the timeout (`Timely`), so all pairs lie in the window
and one timeout before it, once per worker.

**Results.** The report is a function of what the runs left, so the invariants say what that is: the manifest
(`Manifested`), one entry per run made (`Made`), what each client file says (`Summaries`), and what was analysed
(`Analyzed`). `LimitIsFound`, `StatIsFound` and `WarningIsDue` are about the control group's files in every mode and for
every quota: where the warm-up's throttling cancels out. `LabelTells` is why a bar or a row of the connection table
has one topology: at one concurrency the label tells tool and connections, because JMeter opens a connection per
thread (`CampaignsAssumption`). The rates of such a row may differ (section 5). For the shared machine, the banner is
compared with where the pods were (`known`, `serving`), not with what the manifest wrote of it. `FamiliesDiffer` is a
condition of one theorem only; the full profile does not meet it, which is what `results_families_mixed` shows.

**Statistics.** A value joins a sorted list after everything no larger (`InsertAt`); so both lists, the records and the
true latencies, stay sorted and at every rank within the tool's resolution of each other (`InsertNear`). `SInv` is
that, and percentiles, median and quartiles are then statements about ranks. The rank is an integer computation with
doubles in it: `RankWithinOne` bounds what the two roundings can add to one rank; below a thousand requests they add nothing. The digits of a fraction and the binary exponent are recursive functions. The library's
induction theorems cannot be used here, so the lemmas about them (`PowersOfTen`, `RoundTrip`, `LeadingBitIs`) argue by a
least counterexample instead (`LeastExists`). For one repeat, `WhatIsLeft` says that the sample without it is sorted too; at
least one value remains on either side of the median (`MedianIsInside`) and of the quartiles (`SpreadIsInside`).

**Progress.** That something must happen needs fairness and ENABLED, which the provers do not reach. What the liveness
properties rest on besides is safety, and proved. `ScriptHasABudget`, `SamplerHasABudget`, `CampaignAdvances` and
`NobodyIsAwaitedInVain` each give a measure in the naturals, or a lexicographic one, that every step of the script lowers
and nobody else raises: so none of them can go round in circles. Three of them also say what stands in the way of a
step: the deletions of the restart script are never empty while it deletes (`NeverStuck`); `run_one` waits for an observer
only when that has ended or has its flag set, because by then it has been started (`StartedBy`) and the signal has come
(`Told`); and a round of the sampler that finds nobody is its last (`LastRound`), which needs that an exited
wrapper has no children (`RootChildless`).

Only model-checked: the temporal properties under fairness themselves (`EveryCallEnds`, `HandlerReleases`, `RunEnds`, both
`ScriptEnds` and the liveness half of `IsBackgroundJob`), because the step from a measure to "eventually" needs
ENABLED. Every invariant and every other action property of the runs that pass is proved, on the conditions the
table names.

## 5. What the code does otherwise than it says

Shown by the runs that find a violation:

* **The in-flight gauge leaks** (`server_gauge_leak`). It is lowered in `close()` only, which a call cancelled
  before its handler ran, a cancelled delayed stream and a handler that threw never reach. `LeakIsAccountedFor`
  says these are all. `report.py:68` and
  `scrape_server.py:16` say it returns to zero.
* **With `SUT_JAR` all runs share one JVM** (`matrix_local_shared_jvm`). `stop_sut` kills the subshell, not
  java; the next JVM finds the port taken and the old one answers the health check. `METHODOLOGY.md:95` says the
  server is restarted between tools.
* **A restart command that reads standard input swallows the plan** (`matrix_stdin`). `RUNBOOK.md:87` recommends
  an `ssh` command, which does.
* **Closed-loop rows take client cores from open-loop runs** (`results_families_mixed`). `report.py:379` does not
  compare the rate, and in the full profile both families run at 256. `report.py:325` says they never rejoin.

Met while modelling, without a run of their own:

* `sample_proc.py:198`: the sum is over the processes alive at the sample, and a child's time is not in its parent's;
  after an exit `peak_cpu` hides the drop until the others have burned as much again. Line 14 says the whole tree is
  summed. `SampleProc` has such behaviours once a process may burn two ticks; `StableTreeIsCharged` excludes them.
* `scrape_server.py:110`: a server that dies while it answers makes `http.client` raise `IncompleteRead`, which the
  poller does not catch, so the whole series is lost, which lines 111-112 mean to avoid (`RunOne`'s `Abort`).
* `run-matrix.sh:148`: a tag that was used before keeps its directory; `ghz/run.sh` removes no old `ghz.json`, so a ghz
  that dies at once has the earlier run's output normalised as its own (`Normalize` with an old raw file).
* `manifest.sh:68` compares the host name with `127.0.0.1` and `localhost`. Under `deploy/docker-compose.yml` the server is
  `sut`, on the same machine, and the report has no banner; `RUNBOOK.md:14-16` says such reports carry one.
  `SharedMachineIsSaid` therefore excludes the host `alias`, and fails with it.
* `loadgen-job.yaml:115` reads the server's node once, before the matrix, and every run's restart places the server anew.
  If it ends up beside the load generator, or leaves it, the banner still speaks of the first place; that it does not
  is left to the cluster's anti-affinity. `SharedMachineIsSaid` speaks of the runs where it stayed, and fails without
  that (`StartSut`).
* `report.py:472` groups the connection table by label, method and concurrency: like the client cores, its rows join runs
  of both families and of several rates.
* `report.py:536-540` puts a drift down to the window's edges alone. `DriftIsAccountedFor` has two more sources: calls in
  flight at the first reading or at the window's end, where the last reading may come late (`scrape_server.py:109` takes
  the time first), and requests that failed for their client (`analyze.py:91` counts them) and that the server closes at
  another time or never.
* `scrape_server.py:116` writes `peaks`, the reason lines 16-19 give for the series; `report.py` uses medians in the
  window and never reads them.
* `report.py:407-411` calls a method's spread an interquartile range as soon as one of its scenarios has four repeats.
* `report.py:389` takes the upper of two middle values for the client cores, a median everywhere else.
* `analyze.py:134` applies `percentile` to an empty list when a window has no success, so a run that only
  failed is skipped and in no table; line 102 promises failures their own counts.
* `run-matrix.sh:224`: with the default levels and `GHZ_CONNECTION_MODES`, `match 8 1` (`env.sh:38,43`), the plan of a
  cell at a concurrency of 8 or 1 holds one ghz line twice, under one tag; the second run overwrites the raw output of
  the first. The `matrix` run has such a line, and `OutputIsKept` says that this is all that is ever overwritten.
* `run-matrix.sh:96`, `:123` and `:183` await the restart command, the warm-up's ghz and the tool without a limit. A
  tool that hangs holds up all runs to come; `ScriptEnds` names these three and no other place.
* `run-matrix.sh:99`: a restart that leaves no healthy server ends the script, although line 93 calls it not fatal.
* `analyze.py:53`: `99.9 / 100.0` is a little high, so with exactly 1000 requests p99.9 is the largest value
  (`P999OfAThousand`).
* `analyze.py:83`: the window is anchored at the first completion and the load at the tool's start, so
  the window's last part, as long as the tool took to start, has no load. `LoadCoversAllButStartup` bounds it.
* `report.py:109` uses the polls inside the window, which are not always the nearest ones line 538 speaks of.

## 6. What is not modelled

* **Pure I/O and declarations:** `pack-results.sh`, the descriptive part of `manifest.sh`, the installers, `docker-compose.yml`, the OpenShift
  manifests, CI, the pom, the JMeter plans and Spring's entry point. They keep no state that a step could get wrong;
  where they constrain a model (one replica, `Recreate`) the model says so.
* **External programs:** grpc-java, ghz, JMeter, Kubernetes, the kernel's `/proc`. Modelled as far as the code relies
  on them and marked external in `PROJECT.json`.
* **A matrix killed from outside.** A TERM during `run_one` leaves the series poller running; nothing in the repository
  sends one but an operator.
* **Values nobody compares:** histogram buckets, payload bytes, memory and socket counts, chart geometry, wording.

## 7. Plan

The order was: the server, because every figure starts there; the restart and the matrix, because they decide
under what conditions a run is made; the observers and the arithmetic; then one run with everybody in it, and
what the report says about the site. Left, in this order:

1. The series of a scrape read one after the other, if the sum over them is to be bounded more closely.
2. The server's node read again after each restart, were the code to do so.

## 8. Running it

`tlc -workers 2 -config MCMatrix.cfg MCMatrix` checks one run, `tlapm BenchmarkServerProofs.tla` one proof module.
`PROJECT.json` lists runs, mutations, theorems, hazards and, for every definition, the lines it models. A
definition whose comment begins with "Mutation" is a plausible mistake in the code: put in the place of
the definition after it, it makes the property that guards against it fail.
