------------------------------- MODULE RunOne -------------------------------
(***************************************************************************)
(* run-matrix.sh's run_one: one measured run and everybody it involves.    *)
(* The script takes a snapshot of the server's counters, starts the tool   *)
(* and two observers, waits, ends the observers, takes the second snapshot *)
(* and normalises.  The server goes on by itself; it may die and come back *)
(* at any moment.  The observers behave as BackgroundJob says, which       *)
(* SampleProc is shown to implement.                                       *)
(***************************************************************************)
EXTENDS Integers

CONSTANTS
  MaxCalls,   \* bound on the calls the server has met, per status and in all
  MaxDeaths   \* bound on the server's deaths

ASSUME BoundsAssumption == MaxCalls \in Nat /\ MaxDeaths \in Nat

Files == {"raw", "before", "resources", "series", "after", "canonical"}
Status == {"ok", "failed"}
InFlight == "in flight"
Nothing == [k \in {} |-> 0]

VARIABLES
  pc,        \* where the script is
  kind,      \* the tool: jmeter or ghz
  tool,      \* its wrapper: none, running, zombie or gone
  sampler,   \* sample_proc.py
  series,    \* scrape_server.py --phase series
  file,      \* the run's files: none, old (an earlier run's) or new
  up,        \* whether the server answers
  count,     \* its completed calls per status
  open,      \* its calls in flight
  deaths,    \* how often it died
  before,    \* the first snapshot
  delta,     \* what server-after.json holds as "delta"
  arrived,   \* history: calls of the tool that reached the server
  opened,    \* history: calls in flight at the first snapshot
  missed,    \* history: at the second one, calls in flight or of a new series
  deathsAt,  \* history: the deaths before the first snapshot
  quick      \* history: the tool ended before both observers had their handlers

scriptVars == <<pc, kind>>
fileVars == file
serverVars == <<up, count, open, deaths, arrived>>
snapshotVars == <<before, delta, opened, missed, deathsAt>>
vars == <<scriptVars, tool, quick, sampler, series, fileVars, serverVars, snapshotVars>>

Sampler == INSTANCE BackgroundJob WITH
  job <- sampler, over <- tool = "gone", MayAbort <- FALSE
Series == INSTANCE BackgroundJob WITH
  job <- series, over <- FALSE, MayAbort <- TRUE

\* The directory is new, or an earlier run with this tag has filled it.
Init ==
  /\ pc = "before" /\ kind \in {"jmeter", "ghz"} /\ tool = "none"
  /\ sampler = Sampler!Unborn /\ series = Series!Unborn
  /\ file \in {[f \in Files |-> "none"], [f \in Files |-> "old"]}
  /\ up \in BOOLEAN /\ deaths = 0 /\ arrived = 0
  /\ count \in [Status -> 0 .. 1]
  /\ open \in 0 .. 1
  /\ before = Nothing /\ delta = Nothing
  /\ opened = 0 /\ missed = 0 /\ deathsAt = 0 /\ quick = FALSE

-----------------------------------------------------------------------------
(* The server *)

Arrive ==
  /\ up /\ tool = "running" /\ arrived < MaxCalls
  /\ open' = open + 1 /\ arrived' = arrived + 1
  /\ UNCHANGED <<scriptVars, tool, quick, sampler, series, fileVars, up, count, deaths, snapshotVars>>

\* Mutation: a call is counted again when its cancellation is delivered.
CloseTwice(s) ==
  /\ up
  /\ open' = open - 1 /\ count' = [count EXCEPT ![s] = @ + 1]
  /\ UNCHANGED <<scriptVars, tool, quick, sampler, series, fileVars, up, deaths, arrived,
                 snapshotVars>>

Close(s) ==
  /\ open > 0
  /\ open' = open - 1 /\ count' = [count EXCEPT ![s] = @ + 1]
  /\ UNCHANGED <<scriptVars, tool, quick, sampler, series, fileVars, up, deaths, arrived, snapshotVars>>

\* A scrape that is being read breaks off: IncompleteRead is no OSError.
Die ==
  /\ up /\ deaths < MaxDeaths
  /\ up' = FALSE /\ deaths' = deaths + 1
  /\ count' = [s \in Status |-> 0] /\ open' = 0
  /\ Series!Abort \/ UNCHANGED series
  /\ UNCHANGED <<scriptVars, tool, quick, sampler, fileVars, arrived, snapshotVars>>

Recover ==
  /\ ~up /\ up' = TRUE
  /\ UNCHANGED <<scriptVars, tool, quick, sampler, series, fileVars, count, open, deaths, arrived,
                 snapshotVars>>

\* A counter has a line from its first increment on, a gauge always.
Snapshot ==
  [k \in {s \in Status : count[s] > 0} \cup {InFlight} |->
     IF k = InFlight THEN open ELSE count[k]]

\* Mutation: a counter the first snapshot lacks is taken to have been zero.
DeltaFromZero(b, a) ==
  [k \in DOMAIN a |-> IF k = InFlight THEN a[k]
                      ELSE a[k] - (IF k \in DOMAIN b THEN b[k] ELSE 0)]

Delta(b, a) ==
  [k \in (DOMAIN a \cap DOMAIN b) \cup {InFlight} |->
     IF k = InFlight THEN a[k] ELSE a[k] - b[k]]

\* What a snapshot or a delta counts, over all statuses.
Completions(f) ==
  (IF "ok" \in DOMAIN f THEN f["ok"] ELSE 0) + (IF "failed" \in DOMAIN f THEN f["failed"] ELSE 0)

-----------------------------------------------------------------------------
(* The tool and the observers *)

\* The raw file is written at the end, if at all.
ToolExits ==
  /\ tool = "running" /\ tool' = "zombie"
  /\ quick' = (sampler.at # "loop" \/ series.at \in {"unborn", "boot"})
  /\ file' \in {file, [file EXCEPT !["raw"] = "new"]}
  /\ UNCHANGED <<scriptVars, sampler, series, serverVars, snapshotVars>>

\* bash collects a child when it ends, waited for or not.
Reap ==
  /\ tool = "zombie" /\ tool' = "gone"
  /\ UNCHANGED <<scriptVars, quick, sampler, series, fileVars, serverVars, snapshotVars>>

SamplerRuns ==
  /\ UNCHANGED <<scriptVars, tool, quick, series, serverVars, snapshotVars>>
  /\ Sampler!Runs
  /\ file' = IF sampler'.at = "done" THEN [file EXCEPT !["resources"] = "new"] ELSE file

SeriesRuns ==
  /\ UNCHANGED <<scriptVars, tool, quick, sampler, serverVars, snapshotVars>>
  /\ Series!Runs
  /\ file' = IF series'.at = "done" THEN [file EXCEPT !["series"] = "new"] ELSE file

-----------------------------------------------------------------------------
(* run_one *)

Step(from, to) == pc = from /\ pc' = to /\ UNCHANGED kind

ScrapeBefore ==
  /\ up /\ Step("before", "tool")
  /\ before' = Snapshot /\ opened' = open /\ deathsAt' = deaths
  /\ file' = [file EXCEPT !["before"] = "new"]
  /\ UNCHANGED <<tool, quick, sampler, series, serverVars, delta, missed>>

\* Status 1, no file, and set -e ends the script.
ScrapeFails ==
  /\ ~up /\ pc \in {"before", "after"}
  /\ Step(pc, "aborted")
  /\ UNCHANGED <<tool, quick, sampler, series, fileVars, serverVars, snapshotVars>>

\* JMeter's script removes what an earlier run left, ghz's does not.
StartTool ==
  /\ Step("tool", "sampler") /\ tool' = "running"
  /\ file' = IF kind = "jmeter" THEN [file EXCEPT !["raw"] = "none"] ELSE file
  /\ UNCHANGED <<quick, sampler, series, serverVars, snapshotVars>>

StartSampler ==
  /\ Step("sampler", "series") /\ sampler' = Sampler!Started
  /\ UNCHANGED <<tool, quick, series, fileVars, serverVars, snapshotVars>>

StartSeries ==
  /\ Step("series", "wait") /\ series' = Series!Started
  /\ UNCHANGED <<tool, quick, sampler, fileVars, serverVars, snapshotVars>>

WaitTool ==
  /\ Step("wait", "kill sampler") /\ tool \in {"zombie", "gone"} /\ tool' = "gone"
  /\ UNCHANGED <<quick, sampler, series, fileVars, serverVars, snapshotVars>>

\* Mutation: the sampler is killed for good.
KillSamplerHard ==
  /\ Step("kill sampler", "wait sampler")
  /\ sampler' = IF sampler.at \in Sampler!Ended THEN sampler ELSE Sampler!At("killed")
  /\ UNCHANGED <<tool, quick, series, fileVars, serverVars, snapshotVars>>

KillSampler ==
  /\ Step("kill sampler", "wait sampler") /\ Sampler!Signal
  /\ UNCHANGED <<tool, quick, series, fileVars, serverVars, snapshotVars>>

WaitSampler ==
  /\ Step("wait sampler", "kill series") /\ sampler.at \in Sampler!Ended
  /\ UNCHANGED <<tool, quick, sampler, series, fileVars, serverVars, snapshotVars>>

\* Mutation: the series is left to itself.
SeriesNotKilled ==
  /\ Step("kill series", "wait series")
  /\ UNCHANGED <<tool, quick, sampler, series, fileVars, serverVars, snapshotVars>>

KillSeries ==
  /\ Step("kill series", "wait series") /\ Series!Signal
  /\ UNCHANGED <<tool, quick, sampler, fileVars, serverVars, snapshotVars>>

\* Mutation: the script does not wait for the series to be written.
SeriesNotAwaited ==
  /\ Step("wait series", "after")
  /\ UNCHANGED <<tool, quick, sampler, series, fileVars, serverVars, snapshotVars>>

WaitSeries ==
  /\ Step("wait series", "after") /\ series.at \in Series!Ended
  /\ UNCHANGED <<tool, quick, sampler, series, fileVars, serverVars, snapshotVars>>

\* The calls the delta has to leave out.
Missed == open + (IF "ok" \in DOMAIN before THEN 0 ELSE count["ok"])
               + (IF "failed" \in DOMAIN before THEN 0 ELSE count["failed"])

ScrapeAfter ==
  /\ up /\ Step("after", "normalize")
  /\ delta' = Delta(before, Snapshot)
  /\ missed' = Missed
  /\ file' = [file EXCEPT !["after"] = "new"]
  /\ UNCHANGED <<tool, quick, sampler, series, serverVars, before, opened, deathsAt>>

\* Whatever raw file there is; it may not parse, which is a warning.
Normalize ==
  /\ Step("normalize", "over")
  /\ file' \in {file} \cup
       (IF file["raw"] = "none" THEN {} ELSE {[file EXCEPT !["canonical"] = file["raw"]]})
  /\ UNCHANGED <<tool, quick, sampler, series, serverVars, snapshotVars>>

-----------------------------------------------------------------------------
Script ==
  \/ ScrapeBefore \/ ScrapeFails \/ StartTool \/ StartSampler \/ StartSeries
  \/ WaitTool \/ KillSampler \/ WaitSampler \/ KillSeries \/ WaitSeries
  \/ ScrapeAfter \/ Normalize

Server == Arrive \/ Die \/ Recover \/ \E s \in Status : Close(s)

Next == Script \/ ToolExits \/ Reap \/ SamplerRuns \/ SeriesRuns \/ Server

Spec == Init /\ [][Next]_vars

\* The script and both observers are processes that run; nobody promises that
\* the tool ends or that the server recovers.
FairSpec == Spec /\ WF_vars(Script) /\ WF_vars(SamplerRuns) /\ WF_vars(SeriesRuns)

-----------------------------------------------------------------------------
(* Properties *)

TypeOK ==
  /\ pc \in {"before", "tool", "sampler", "series", "wait", "kill sampler", "wait sampler",
             "kill series", "wait series", "after", "normalize", "over", "aborted"}
  /\ kind \in {"jmeter", "ghz"} /\ tool \in {"none", "running", "zombie", "gone"}
  /\ sampler \in Sampler!Jobs /\ series \in Series!Jobs
  /\ file \in [Files -> {"none", "old", "new"}]
  /\ up \in BOOLEAN /\ quick \in BOOLEAN
  /\ count \in [Status -> Nat] /\ open \in Nat
  /\ deaths \in 0 .. MaxDeaths /\ deathsAt \in 0 .. deaths /\ arrived \in 0 .. MaxCalls
  /\ opened \in Nat /\ missed \in Nat
  /\ DOMAIN before \subseteq Status \cup {InFlight}
  /\ DOMAIN delta \subseteq Status \cup {InFlight}

\* Whatever the run's directory held before: when the tool lived long enough
\* for both observers to start and the server did not die, the files about the
\* run are the run's own (run-matrix.sh 150-190).
FilesAreThisRuns ==
  pc = "over" /\ ~quick /\ deaths = deathsAt =>
    \A f \in {"before", "resources", "series", "after"} : file[f] = "new"

\* Once run_one has returned nobody writes into the run's directory, where the
\* next run may have the same name (180-187).
NothingComesLater == [][(pc \in {"over", "aborted"}) => file' = file]_vars

\* The independent request count the two snapshots give: of the calls that were
\* in flight at the first one or came later, the delta counts all but those in
\* flight at the second and those under a status the first had no line for.
\* It holds for a server that did not die in between (scrape_server.py 76-90).
DeltaCountsTheRun ==
  pc \in {"normalize", "over"} /\ deaths = deathsAt =>
    Completions(delta) = opened + arrived - missed

\* A run whose tool has ended comes to its end, however its observers fared.
RunEnds == (tool = "zombie") ~> (pc \in {"over", "aborted"})
=============================================================================
