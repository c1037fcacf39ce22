---------------------------- MODULE RunOneProofs ----------------------------
(***************************************************************************)
(* Proofs about RunOne, for any number of calls and deaths.  Stages ties   *)
(* the script's position to who is alive (Alive), to what has been written *)
(* by then (Written) and to how the observers of a tool that was not quick *)
(* can have ended (Lasting).  Ledger balances the calls the server has met *)
(* since the first snapshot against what it has counted.                   *)
(* NobodyWaitsInVain and GoesForward are why a run comes to its end.       *)
(***************************************************************************)
EXTENDS RunOne, TLAPS

\* Each operation of an observer leaves it in a state an observer can be in.
LEMMA SamplerTyped ==
  ASSUME sampler \in Sampler!Jobs,
         Sampler!Runs \/ Sampler!Signal \/ sampler' = Sampler!Started
  PROVE  sampler' \in Sampler!Jobs
<1> USE DEF Sampler!Jobs, Sampler!Where
<1>1. ASSUME NEW w \in Sampler!Where PROVE Sampler!At(w) \in Sampler!Jobs
  BY DEF Sampler!At
<1>2. CASE Sampler!Install
  BY <1>1, <1>2 DEF Sampler!Install
<1>3. CASE Sampler!Finish
  BY <1>1, <1>3 DEF Sampler!Finish
<1>4. CASE Sampler!Signal
  <2>1. CASE sampler.at = "boot"
    BY <1>1, <1>4, <2>1 DEF Sampler!Signal
  <2>2. CASE sampler.at = "loop"
    <3>1. sampler' = [at |-> "loop", stop |-> TRUE]
      BY <1>4, <2>2 DEF Sampler!Signal
    <3> QED BY <3>1
  <2>3. CASE sampler.at \notin {"boot", "loop"}
    <3>1. sampler' = sampler
      BY <1>4, <2>3 DEF Sampler!Signal
    <3> QED BY <3>1
  <2> QED BY <2>1, <2>2, <2>3
<1>5. CASE sampler' = Sampler!Started
  BY <1>5 DEF Sampler!Started
<1> QED BY <1>2, <1>3, <1>4, <1>5 DEF Sampler!Runs

LEMMA SeriesTyped ==
  ASSUME series \in Series!Jobs,
         Series!Runs \/ Series!Signal \/ Series!Abort \/ series' = Series!Started
  PROVE  series' \in Series!Jobs
<1> USE DEF Series!Jobs, Series!Where
<1>1. ASSUME NEW w \in Series!Where PROVE Series!At(w) \in Series!Jobs
  BY DEF Series!At
<1>2. CASE Series!Install
  BY <1>1, <1>2 DEF Series!Install
<1>3. CASE Series!Finish
  BY <1>1, <1>3 DEF Series!Finish
<1>4. CASE Series!Signal
  <2>1. CASE series.at = "boot"
    BY <1>1, <1>4, <2>1 DEF Series!Signal
  <2>2. CASE series.at = "loop"
    <3>1. series' = [at |-> "loop", stop |-> TRUE]
      BY <1>4, <2>2 DEF Series!Signal
    <3> QED BY <3>1
  <2>3. CASE series.at \notin {"boot", "loop"}
    <3>1. series' = series
      BY <1>4, <2>3 DEF Series!Signal
    <3> QED BY <3>1
  <2> QED BY <2>1, <2>2, <2>3
<1>5. CASE series' = Series!Started
  BY <1>5 DEF Series!Started
<1>6. CASE Series!Abort
  BY <1>1, <1>6 DEF Series!Abort
<1> QED BY <1>2, <1>3, <1>4, <1>5, <1>6 DEF Series!Runs

LEMMA InitialJobs == Sampler!Unborn \in Sampler!Jobs /\ Series!Unborn \in Series!Jobs
BY DEF Sampler!Jobs, Sampler!Where, Sampler!Unborn, Series!Jobs, Series!Where, Series!Unborn

\* Every variable of a run keeps its type.
THEOREM TypeCorrect == Spec => []TypeOK
<1> USE BoundsAssumption DEF TypeOK, scriptVars, fileVars, serverVars, snapshotVars
<1>1. Init => TypeOK
  <2> SUFFICES ASSUME Init PROVE TypeOK
    OBVIOUS
  <2>1. sampler \in Sampler!Jobs /\ series \in Series!Jobs
    BY InitialJobs DEF Init
  <2>2. DOMAIN Nothing = {}
    BY DEF Nothing
  <2>3. file \in [Files -> {"none", "old", "new"}]
    BY DEF Init
  <2>4. count \in [Status -> Nat] /\ open \in Nat
    BY DEF Init
  <2>5. 0 \in 0 .. MaxDeaths /\ 0 \in 0 .. MaxCalls /\ 0 \in 0 .. 0 /\ 0 \in Nat
    OBVIOUS
  <2> QED BY <2>1, <2>2, <2>3, <2>4, <2>5, Zenon DEF Init
<1>2. TypeOK /\ [Next]_vars => TypeOK'
  <2> SUFFICES ASSUME TypeOK, [Next]_vars PROVE TypeOK'
    OBVIOUS
  <2>1. CASE Arrive
    <3>1. arrived' \in 0 .. MaxCalls /\ open' \in Nat
      <4>1. arrived \in 0 .. MaxCalls /\ arrived < MaxCalls /\ arrived' = arrived + 1
             /\ MaxCalls \in Nat
        BY <2>1 DEF Arrive
      <4>2. open \in Nat /\ open' = open + 1
        BY <2>1 DEF Arrive
      <4> HIDE DEF TypeOK
      <4> QED BY <4>1, <4>2
    <3> QED BY <2>1, <3>1 DEF Arrive
  <2>2. ASSUME NEW s \in Status, Close(s) PROVE TypeOK'
    <3>1. open' \in Nat /\ count' \in [Status -> Nat]
      <4>1. open \in Nat /\ open > 0 /\ open' = open - 1
        BY <2>2 DEF Close
      <4>2. count \in [Status -> Nat] /\ count' = [count EXCEPT ![s] = @ + 1]
        BY <2>2 DEF Close
      <4> HIDE DEF TypeOK
      <4>3. count[s] + 1 \in Nat
        BY <4>2
      <4>4. count' \in [Status -> Nat]
        BY <4>2, <4>3
      <4> QED BY <4>1, <4>4
    <3> QED BY <2>2, <3>1 DEF Close
  <2>3. CASE Die
    <3>1. series' \in Series!Jobs
      BY <2>3, SeriesTyped DEF Die
    <3>2. count' \in [Status -> Nat] /\ open' \in Nat
      <4>1. count' = [s \in Status |-> 0] /\ open' = 0
        BY <2>3 DEF Die
      <4> QED BY <4>1
    <3>3. deaths' \in 0 .. MaxDeaths /\ deathsAt \in 0 .. deaths'
      <4>1. deaths \in 0 .. MaxDeaths /\ deathsAt \in 0 .. deaths /\ MaxDeaths \in Nat
        OBVIOUS
      <4>2. deaths < MaxDeaths /\ deaths' = deaths + 1
        BY <2>3 DEF Die
      <4> HIDE DEF TypeOK
      <4> QED BY <4>1, <4>2
    <3> QED BY <2>3, <3>1, <3>2, <3>3 DEF Die
  <2>4. CASE Recover
    BY <2>4 DEF Recover
  <2>5. CASE ToolExits \/ Reap
    BY <2>5 DEF ToolExits, Reap, Files
  <2>6. CASE SamplerRuns
    BY <2>6, SamplerTyped DEF SamplerRuns, Files
  <2>7. CASE SeriesRuns
    BY <2>7, SeriesTyped DEF SeriesRuns, Files
  <2>8. CASE Script
    <3> USE DEF Step
    <3>1. CASE ScrapeBefore
      BY <3>1 DEF ScrapeBefore, Snapshot, Files, Status
    <3>2. CASE ScrapeAfter
      <4>1. DOMAIN Delta(before, Snapshot) \subseteq Status \cup {InFlight}
        BY DEF Delta, Snapshot
      <4>2. Missed \in Nat
        <5>1. count["ok"] \in Nat /\ count["failed"] \in Nat
          BY DEF Status
        <5>2. open \in Nat
          OBVIOUS
        <5> HIDE DEF TypeOK
        <5> QED BY <5>1, <5>2 DEF Missed
      <4> QED BY <3>2, <4>1, <4>2 DEF ScrapeAfter, Files
    <3>3. CASE StartTool
      BY <3>3 DEF StartTool, Files
    <3>4. CASE KillSampler
      BY <3>4, SamplerTyped DEF KillSampler
    <3>5. CASE KillSeries
      BY <3>5, SeriesTyped DEF KillSeries
    <3>6. CASE Normalize
      BY <3>6 DEF Normalize, Files
    <3>7. CASE StartSampler
      BY <3>7, SamplerTyped DEF StartSampler
    <3>8. CASE StartSeries
      BY <3>8, SeriesTyped DEF StartSeries
    <3>9. CASE ScrapeFails \/ WaitTool \/ WaitSampler \/ WaitSeries
      BY <3>9 DEF ScrapeFails, WaitTool, WaitSampler, WaitSeries
    <3> QED BY <2>8, <3>1, <3>2, <3>3, <3>4, <3>5, <3>6, <3>7, <3>8, <3>9 DEF Script
  <2>9. CASE UNCHANGED vars
    BY <2>9 DEF vars
  <2> QED BY <2>1, <2>2, <2>3, <2>4, <2>5, <2>6, <2>7, <2>8, <2>9 DEF Next, Server
<1> QED BY <1>1, <1>2, PTL DEF Spec

-----------------------------------------------------------------------------
(* The inductive invariant behind the properties of the files *)

BeforeSampler == {"before", "tool", "sampler"}
ToolIsOver == {"kill sampler", "wait sampler", "kill series", "wait series", "after",
               "normalize", "over"}
SamplerIsOver == {"kill series", "wait series", "after", "normalize", "over"}
SeriesIsOver == {"after", "normalize", "over"}
JobEnded == {"done", "killed", "aborted"}

\* Who is alive at each step of the script.
Alive ==
  /\ pc \in {"before", "tool"} => tool = "none"
  /\ pc \in ToolIsOver => tool = "gone"
  /\ pc \in BeforeSampler => sampler.at = "unborn"
  /\ pc \in BeforeSampler \cup {"series"} => series.at = "unborn"
  /\ pc \in SamplerIsOver => sampler.at \in JobEnded
  /\ pc \in SeriesIsOver => series.at \in JobEnded
  /\ tool = "running" => series.at # "killed"
  /\ pc = "aborted" => /\ tool \in {"none", "gone"}
                       /\ sampler.at \in JobEnded \cup {"unborn"}
                       /\ series.at \in JobEnded \cup {"unborn"}

\* What has been written by then.
Written ==
  /\ pc \notin {"before", "aborted"} => file["before"] = "new"
  /\ sampler.at = "done" => file["resources"] = "new"
  /\ series.at = "done" => file["series"] = "new"
  /\ pc \in {"normalize", "over"} => file["after"] = "new"

\* How the observers of a tool that was not quick can end.
Lasting ==
  /\ sampler.at # "aborted"
  /\ series.at = "aborted" => deaths > deathsAt
  /\ tool \in {"zombie", "gone"} /\ ~quick => sampler.at \in {"loop", "done"}
  /\ tool \in {"zombie", "gone"} /\ ~quick => series.at \in {"loop", "done", "aborted"}

Stages == Alive /\ Written /\ Lasting

\* What the operations of an observer do to its place.
LEMMA SamplerMoves ==
  ASSUME TypeOK
  PROVE  /\ Sampler!Runs => \/ sampler.at = "boot" /\ sampler'.at = "loop"
                            \/ sampler.at = "loop" /\ sampler'.at = "done"
         /\ Sampler!Signal => sampler'.at = IF sampler.at = "boot" THEN "killed" ELSE sampler.at
         /\ sampler' = Sampler!Started => sampler'.at = "boot"
BY DEF Sampler!Runs, Sampler!Install, Sampler!Finish, Sampler!Signal, Sampler!At,
       Sampler!Started

LEMMA SeriesMoves ==
  ASSUME TypeOK
  PROVE  /\ Series!Runs => \/ series.at = "boot" /\ series'.at = "loop"
                           \/ series.at = "loop" /\ series'.at = "done"
         /\ Series!Signal => series'.at = IF series.at = "boot" THEN "killed" ELSE series.at
         /\ Series!Abort => series.at = "loop" /\ series'.at = "aborted"
         /\ series' = Series!Started => series'.at = "boot"
BY DEF Series!Runs, Series!Install, Series!Finish, Series!Signal, Series!Abort, Series!At,
       Series!Started

LEMMA InitialStages == Init => Stages
BY DEF Init, Stages, Alive, Written, Lasting, Sampler!Unborn, Series!Unborn, BeforeSampler,
       ToolIsOver, SamplerIsOver, SeriesIsOver, JobEnded

\* Every step preserves the three parts.
LEMMA StagesKept == TypeOK /\ Stages /\ [Next]_vars => Stages'
<1> SUFFICES ASSUME TypeOK, Stages, [Next]_vars PROVE Stages'
  OBVIOUS
<1>t. /\ file \in [Files -> {"none", "old", "new"}]
      /\ tool \in {"none", "running", "zombie", "gone"}
      /\ deaths \in 0 .. MaxDeaths /\ deathsAt \in 0 .. deaths
  BY DEF TypeOK
<1>d. deaths + 1 > deathsAt
  BY <1>t, BoundsAssumption
<1>e. Sampler!Ended = JobEnded /\ Series!Ended = JobEnded
  BY DEF JobEnded, Sampler!Ended, Series!Ended
<1> USE <1>t DEF Stages, Alive, Written, Lasting, BeforeSampler, ToolIsOver, SamplerIsOver,
             SeriesIsOver, JobEnded, Files, scriptVars, fileVars, serverVars, snapshotVars
<1>1. CASE Arrive
  BY <1>1 DEF Arrive
<1>2. ASSUME NEW s \in Status, Close(s) PROVE Stages'
  BY <1>2 DEF Close
<1>3. CASE Die
  <2>1. deaths' = deaths + 1 /\ deathsAt' = deathsAt /\ pc' = pc /\ tool' = tool /\ quick' = quick
        /\ sampler' = sampler /\ file' = file
    BY <1>3 DEF Die
  <2>3. deaths' > deathsAt'
    BY <1>d, <2>1
  <2>2. series' = series \/ (series.at = "loop" /\ series'.at = "aborted")
    BY <1>3, SeriesMoves DEF Die
  <2> QED BY <2>1, <2>2, <2>3
<1>4. CASE Recover
  BY <1>4 DEF Recover
<1>5. CASE ToolExits
  <2>1. pc' = pc /\ sampler' = sampler /\ series' = series /\ tool = "running"
        /\ tool' = "zombie" /\ deaths' = deaths /\ deathsAt' = deathsAt
    BY <1>5 DEF ToolExits
  <2>2. \A f \in {"before", "resources", "series", "after"} : file'[f] = file[f]
    BY <1>5 DEF ToolExits
  <2>3. ~quick' => sampler.at = "loop" /\ series.at \notin {"unborn", "boot"}
    BY <1>5 DEF ToolExits
  <2>4. series.at \in {"unborn", "boot", "loop", "done", "killed", "aborted"}
    BY DEF TypeOK, Series!Jobs, Series!Where
  <2>5. series.at # "killed"
    BY <2>1
  <2> QED BY <2>1, <2>2, <2>3, <2>4, <2>5
<1>6. CASE SamplerRuns
  BY <1>6, SamplerMoves DEF SamplerRuns
<1>7. CASE SeriesRuns
  BY <1>7, SeriesMoves DEF SeriesRuns
<1>8. CASE Script
  <2> USE DEF Step
  <2>1. CASE ScrapeBefore
    BY <2>1 DEF ScrapeBefore
  <2>2. CASE ScrapeFails
    BY <2>2 DEF ScrapeFails
  <2>3. CASE StartTool
    BY <2>3 DEF StartTool
  <2>4. CASE StartSampler
    BY <2>4, SamplerMoves DEF StartSampler
  <2>5. CASE StartSeries
    BY <2>5, SeriesMoves DEF StartSeries
  <2>6. CASE WaitTool
    BY <2>6 DEF WaitTool
  <2>7. CASE KillSampler
    BY <2>7, SamplerMoves DEF KillSampler
  <2>8. CASE WaitSampler
    BY <2>8, <1>e DEF WaitSampler
  <2>9. CASE KillSeries
    BY <2>9, SeriesMoves DEF KillSeries
  <2>10. CASE WaitSeries
    BY <2>10, <1>e DEF WaitSeries
  <2>11. CASE ScrapeAfter
    BY <2>11 DEF ScrapeAfter
  <2>12. CASE Normalize
    BY <2>12 DEF Normalize
  <2> QED BY <1>8, <2>1, <2>2, <2>3, <2>4, <2>5, <2>6, <2>7, <2>8, <2>9, <2>10, <2>11, <2>12
          DEF Script
<1>9. CASE UNCHANGED vars
  BY <1>9 DEF vars
<1>10. CASE Reap
  BY <1>10 DEF Reap
<1> QED BY <1>1, <1>2, <1>3, <1>4, <1>5, <1>6, <1>7, <1>8, <1>9, <1>10 DEF Next, Server

THEOREM StagesHold == Spec => []Stages
BY InitialStages, StagesKept, TypeCorrect, PTL DEF Spec

\* The files of a run that was neither quick nor cut by a death are its own.
THEOREM FilesCorrect == Spec => []FilesAreThisRuns
<1>1. TypeOK /\ Stages => FilesAreThisRuns
  BY DEF TypeOK, Stages, Alive, Written, Lasting, FilesAreThisRuns, ToolIsOver, SamplerIsOver,
         SeriesIsOver, JobEnded
<1> QED BY <1>1, TypeCorrect, StagesHold, PTL

\* Nobody writes once the script has ended.
THEOREM NothingComesLaterCorrect == Spec => NothingComesLater
<1>1. TypeOK /\ Stages /\ [Next]_vars => [(pc \in {"over", "aborted"}) => file' = file]_vars
  <2> SUFFICES ASSUME TypeOK, Alive, Next, pc \in {"over", "aborted"} PROVE file' = file
    BY DEF Stages
  <2> USE DEF Alive, ToolIsOver, SamplerIsOver, SeriesIsOver, JobEnded, fileVars
  <2>1. tool # "running" /\ sampler.at \notin {"boot", "loop"} /\ series.at \notin {"boot", "loop"}
    OBVIOUS
  <2>2. ~Script \/ file' = file
    BY DEF Script, Step, ScrapeBefore, ScrapeFails, StartTool, StartSampler, StartSeries,
           WaitTool, KillSampler, WaitSampler, KillSeries, WaitSeries, ScrapeAfter, Normalize
  <2>3. ToolExits \/ Reap => file' = file
    BY <2>1 DEF ToolExits, Reap
  <2>4. ~SamplerRuns
    BY <2>1, SamplerMoves DEF SamplerRuns
  <2>5. ~SeriesRuns
    BY <2>1, SeriesMoves DEF SeriesRuns
  <2>6. Server => file' = file
    BY DEF Server, Arrive, Die, Recover, Close
  <2> QED BY <2>2, <2>3, <2>4, <2>5, <2>6 DEF Next
<1> QED BY <1>1, TypeCorrect, StagesHold, PTL DEF Spec, NothingComesLater

-----------------------------------------------------------------------------
(* The inductive invariant behind the independent request count *)

\* From the first snapshot on nothing is lost as long as the server lives.
Ledger ==
  /\ pc = "before" => arrived = 0
  /\ pc \notin {"before", "aborted"} /\ deaths = deathsAt =>
       /\ \A s \in Status \cap DOMAIN before : before[s] \in 1 .. count[s]
       /\ count["ok"] + count["failed"] + open = opened + arrived + Completions(before)

Counts == /\ count \in [Status -> Nat]
          /\ open \in Nat /\ arrived \in Nat /\ opened \in Nat
          /\ deaths \in Nat /\ deathsAt \in Nat /\ deathsAt <= deaths

LEMMA CountsTyped == TypeOK => Counts
<1> SUFFICES ASSUME TypeOK PROVE Counts
  OBVIOUS
<1>1. /\ count \in [Status -> Nat] /\ open \in Nat /\ opened \in Nat
      /\ arrived \in 0 .. MaxCalls /\ deaths \in 0 .. MaxDeaths /\ deathsAt \in 0 .. deaths
  BY DEF TypeOK
<1>2. deaths \in Nat /\ arrived \in Nat
  BY <1>1, BoundsAssumption
<1>3. deathsAt \in Nat /\ deathsAt <= deaths
  BY <1>1, <1>2
<1> QED BY <1>1, <1>2, <1>3 DEF Counts

LEMMA CompletionsTyped ==
  ASSUME Counts, \A s \in Status \cap DOMAIN before : before[s] \in 1 .. count[s]
  PROVE  Completions(before) \in Nat
<1>1. \A s \in Status : s \in DOMAIN before => before[s] \in Nat
  BY DEF Counts
<1>2. /\ "ok" \in DOMAIN before => before["ok"] \in Nat
      /\ "failed" \in DOMAIN before => before["failed"] \in Nat
  BY <1>1 DEF Status
<1>3. \A x, y \in Nat : x + y \in Nat /\ x + 0 \in Nat /\ 0 + y \in Nat
  OBVIOUS
<1> QED BY <1>2, <1>3 DEF Completions

LEMMA InitialLedger == Init => Ledger
BY DEF Init, Ledger

\* Taking the first snapshot opens the ledger.
LEMMA LedgerOpens == Counts /\ Ledger /\ Alive /\ ScrapeBefore => Ledger'
<1> SUFFICES ASSUME Counts, Ledger, Alive, ScrapeBefore PROVE Ledger'
  OBVIOUS
<1>1. pc' = "tool" /\ before' = Snapshot /\ opened' = open /\ count' = count /\ open' = open
      /\ arrived' = arrived /\ arrived = 0
  BY DEF ScrapeBefore, Step, serverVars, Ledger
<1>2. \A s \in Status \cap DOMAIN Snapshot : Snapshot[s] \in 1 .. count[s]
  <2> SUFFICES ASSUME NEW s \in Status \cap DOMAIN Snapshot PROVE Snapshot[s] \in 1 .. count[s]
    OBVIOUS
  <2>1. count[s] \in Nat
    BY DEF Counts
  <2>2. Snapshot[s] = count[s] /\ count[s] > 0
    BY DEF Snapshot, Status, InFlight
  <2> QED BY <2>1, <2>2
<1>3. Completions(Snapshot) = count["ok"] + count["failed"]
  <2>2. count["ok"] \in Nat /\ count["failed"] \in Nat
    BY DEF Counts, Status
  <2>3. /\ IF "ok" \in DOMAIN Snapshot THEN Snapshot["ok"] = count["ok"] ELSE count["ok"] = 0
        /\ IF "failed" \in DOMAIN Snapshot THEN Snapshot["failed"] = count["failed"]
           ELSE count["failed"] = 0
    <3>1. ASSUME NEW s \in Status, count[s] \in Nat
          PROVE  IF s \in DOMAIN Snapshot THEN Snapshot[s] = count[s] ELSE count[s] = 0
      <4>1. s \in DOMAIN Snapshot => Snapshot[s] = count[s]
        BY DEF Snapshot, Status, InFlight
      <4>2. s \notin DOMAIN Snapshot => ~(count[s] > 0)
        BY DEF Snapshot
      <4>3. ~(count[s] > 0) => count[s] = 0
        BY <3>1
      <4> QED BY <4>1, <4>2, <4>3, Zenon
    <3> QED BY <2>2, <3>1 DEF Status
  <2> QED BY <2>3 DEF Completions
<1>4. Completions(before)' = Completions(Snapshot)
  BY <1>1 DEF Completions
<1>5. count["ok"] \in Nat /\ count["failed"] \in Nat /\ open \in Nat
  BY DEF Counts, Status
<1>6. count'["ok"] + count'["failed"] + open' = opened' + arrived' + Completions(before)'
  BY <1>1, <1>3, <1>4, <1>5
<1> QED BY <1>1, <1>2, <1>6 DEF Ledger

\* A call that comes and a call that ends keep it.
LEMMA LedgerKeptByArrive == Counts /\ Ledger /\ Alive /\ Arrive => Ledger'
<1> SUFFICES ASSUME Counts, Ledger, Alive, Arrive PROVE Ledger'
  OBVIOUS
<1>1. /\ pc' = pc /\ pc # "before" /\ count' = count /\ deaths' = deaths /\ deathsAt' = deathsAt
      /\ before' = before /\ opened' = opened /\ open' = open + 1 /\ arrived' = arrived + 1
  BY DEF Arrive, Alive, scriptVars, snapshotVars
<1>2. Completions(before)' = Completions(before)
  BY <1>1 DEF Completions
<1>3. count["ok"] \in Nat /\ count["failed"] \in Nat /\ open \in Nat /\ opened \in Nat
      /\ arrived \in Nat
  BY DEF Counts, Status
<1>4. ASSUME count["ok"] + count["failed"] + open = opened + arrived + Completions(before),
             Completions(before) \in Nat
      PROVE  count["ok"] + count["failed"] + (open + 1)
               = opened + (arrived + 1) + Completions(before)
  BY <1>3, <1>4
<1>5. pc \notin {"before", "aborted"} /\ deaths = deathsAt => Completions(before) \in Nat
  BY CompletionsTyped DEF Ledger
<1> QED BY <1>1, <1>2, <1>4, <1>5 DEF Ledger

LEMMA LedgerKeptByClose ==
  ASSUME Counts, Ledger, NEW s \in Status, Close(s) PROVE Ledger'
<1>1. /\ pc' = pc /\ count' = [count EXCEPT ![s] = @ + 1] /\ deaths' = deaths
      /\ deathsAt' = deathsAt /\ before' = before /\ opened' = opened
      /\ open' = open - 1 /\ arrived' = arrived
  BY DEF Close, scriptVars, snapshotVars
<1>2. Completions(before)' = Completions(before)
  BY <1>1 DEF Completions
<1>3. /\ count["ok"] \in Nat /\ count["failed"] \in Nat
      /\ count'["ok"] \in Nat /\ count'["failed"] \in Nat
      /\ open \in Nat /\ opened \in Nat /\ arrived \in Nat
  BY <1>1 DEF Counts, Status
<1>4. count'["ok"] + count'["failed"] = count["ok"] + count["failed"] + 1
  BY <1>1, <1>3 DEF Counts, Status
<1>5. \A t \in Status : count[t] \in Nat /\ count'[t] \in Nat /\ count[t] <= count'[t]
  BY <1>1 DEF Counts
<1>6. ASSUME NEW t \in Status, before[t] \in 1 .. count[t] PROVE before[t] \in 1 .. count'[t]
  BY <1>5, <1>6
<1>7. count'["ok"] + count'["failed"] + open' = count["ok"] + count["failed"] + open
  BY <1>1, <1>3, <1>4
<1> QED BY <1>1, <1>2, <1>6, <1>7 DEF Ledger

\* All other steps leave its entries alone, or void it by a death.
LEMMA LedgerKept == TypeOK /\ Alive /\ Ledger /\ [Next]_vars => Ledger'
<1> SUFFICES ASSUME TypeOK, Alive, Ledger, [Next]_vars PROVE Ledger'
  OBVIOUS
<1>c. Counts
  BY CountsTyped
<1>1. CASE Die
  <2>1. deaths' = deaths + 1 /\ deathsAt' = deathsAt /\ pc' = pc /\ arrived' = arrived
    BY <1>1 DEF Die, scriptVars, snapshotVars
  <2>2. deaths' # deathsAt'
    BY <1>c, <2>1 DEF Counts
  <2> QED BY <2>1, <2>2 DEF Ledger
<1>2. ASSUME /\ count' = count /\ open' = open /\ opened' = opened /\ arrived' = arrived
             /\ before' = before /\ deaths' = deaths /\ deathsAt' = deathsAt
             /\ pc' = pc \/ (pc # "before" /\ pc # "aborted") \/ pc' = "aborted"
             /\ pc' # "before" \/ pc = "before"
      PROVE  Ledger'
  <2>1. Completions(before)' = Completions(before)
    BY <1>2 DEF Completions
  <2> QED BY <1>2, <2>1 DEF Ledger
<1> USE DEF scriptVars, fileVars, serverVars, snapshotVars
<1>3. CASE Script
  <2>1. CASE ScrapeBefore
    BY <1>c, <2>1, LedgerOpens
  <2>2. CASE StartTool \/ StartSampler \/ StartSeries \/ WaitTool \/ KillSampler
             \/ WaitSampler \/ KillSeries \/ WaitSeries
    BY <1>2, <2>2 DEF Step, StartTool, StartSampler, StartSeries, WaitTool, KillSampler,
       WaitSampler, KillSeries, WaitSeries
  <2>3. CASE ScrapeFails \/ ScrapeAfter \/ Normalize
    BY <1>2, <2>3 DEF Step, ScrapeFails, ScrapeAfter, Normalize
  <2> QED BY <1>3, <2>1, <2>2, <2>3 DEF Script
<1>4. CASE ToolExits \/ Reap \/ SamplerRuns \/ SeriesRuns \/ Recover
  BY <1>2, <1>4 DEF ToolExits, Reap, SamplerRuns, SeriesRuns, Recover
<1>5. CASE Arrive \/ \E s \in Status : Close(s)
  BY <1>c, <1>5, LedgerKeptByArrive, LedgerKeptByClose
<1>6. CASE UNCHANGED vars
  BY <1>2, <1>6 DEF vars
<1> QED BY <1>1, <1>3, <1>4, <1>5, <1>6 DEF Next, Server

THEOREM LedgerHolds == Spec => []Ledger
<1>1. Stages => Alive
  BY DEF Stages
<1> QED BY <1>1, InitialLedger, LedgerKept, StagesHold, TypeCorrect, PTL DEF Spec

\* What the second snapshot makes of the ledger.
LEMMA DeltaFollows ==
  ASSUME Counts, Ledger, ScrapeAfter, deaths = deathsAt
  PROVE  Completions(Delta(before, Snapshot)) = opened + arrived - Missed
<1> DEFINE inBefore(s) == s \in DOMAIN before
           d == Delta(before, Snapshot)
           b(s) == IF inBefore(s) THEN before[s] ELSE 0
           m(s) == IF inBefore(s) THEN 0 ELSE count[s]
           e(s) == IF s \in DOMAIN d THEN d[s] ELSE 0
<1>1. \A s \in Status : inBefore(s) => before[s] \in 1 .. count[s]
  BY DEF Ledger, ScrapeAfter, Step
<1>2. count["ok"] + count["failed"] + open = opened + arrived + Completions(before)
  BY DEF Ledger, ScrapeAfter, Step
<1>3. count["ok"] \in Nat /\ count["failed"] \in Nat /\ open \in Nat /\ opened \in Nat
      /\ arrived \in Nat
  BY DEF Counts, Status
<1>4. ASSUME NEW s \in Status PROVE e(s) = count[s] - b(s) - m(s) /\ b(s) \in Nat /\ m(s) \in Nat
  <2>0. count[s] \in Nat
    BY DEF Counts
  <2>1. CASE inBefore(s)
    <3>1. before[s] \in 1 .. count[s]
      BY <1>1, <2>1
    <3>2. count[s] > 0
      BY <2>0, <3>1
    <3>3. s \in DOMAIN d /\ d[s] = count[s] - before[s]
      BY <2>1, <3>2 DEF Delta, Snapshot, InFlight, Status
    <3> QED BY <2>0, <2>1, <3>1, <3>3
  <2>2. CASE ~inBefore(s)
    <3>1. s \notin DOMAIN d
      BY <2>2 DEF Delta, Snapshot, InFlight, Status
    <3> QED BY <2>0, <2>2, <3>1
  <2> QED BY <2>1, <2>2
<1>5. /\ Completions(d) = e("ok") + e("failed")
      /\ Completions(before) = b("ok") + b("failed")
      /\ Missed = open + m("ok") + m("failed")
  BY DEF Completions, Missed
<1>6. "ok" \in Status /\ "failed" \in Status
  BY DEF Status
<1> DEFINE b1 == b("ok")  b2 == b("failed")  m1 == m("ok")  m2 == m("failed")
           c1 == count["ok"]  c2 == count["failed"]
<1>7. /\ e("ok") = c1 - b1 - m1 /\ e("failed") = c2 - b2 - m2
      /\ b1 \in Nat /\ b2 \in Nat /\ m1 \in Nat /\ m2 \in Nat /\ c1 \in Nat /\ c2 \in Nat
  BY <1>3, <1>4, <1>6
<1>8. /\ c1 + c2 + open = opened + arrived + (b1 + b2)
      /\ Completions(d) = (c1 - b1 - m1) + (c2 - b2 - m2)
      /\ Missed = open + m1 + m2
  BY <1>2, <1>5, <1>7, Zenon
<1> HIDE DEF d, b1, b2, m1, m2, c1, c2
<1>9. (c1 - b1 - m1) + (c2 - b2 - m2) = opened + arrived - (open + m1 + m2)
  BY <1>3, <1>7, <1>8
<1>10. Completions(d) = opened + arrived - Missed
  BY <1>8, <1>9, Zenon
<1> QED BY <1>10 DEF d

\* The delta counts the calls of a run whose server did not die.
THEOREM DeltaCorrect == Spec => []DeltaCountsTheRun
<1>1. Init => DeltaCountsTheRun
  BY DEF Init, DeltaCountsTheRun
<1>2. TypeOK /\ Alive /\ Ledger /\ DeltaCountsTheRun /\ [Next]_vars => DeltaCountsTheRun'
  <2> SUFFICES ASSUME TypeOK, Alive, Ledger, DeltaCountsTheRun, [Next]_vars
               PROVE  DeltaCountsTheRun'
    OBVIOUS
  <2>c. Counts
    BY CountsTyped
  <2> USE DEF scriptVars, fileVars, serverVars, snapshotVars
  <2>1. CASE Die
    <3>1. deaths' = deaths + 1 /\ deathsAt' = deathsAt
      BY <2>1 DEF Die
    <3> QED BY <2>c, <3>1 DEF Counts, DeltaCountsTheRun
  <2>2. ASSUME /\ delta' = delta /\ opened' = opened /\ missed' = missed
               /\ arrived' = arrived \/ pc' \notin {"normalize", "over"}
               /\ deaths' = deaths /\ deathsAt' = deathsAt
               /\ pc' \in {"normalize", "over"} => pc \in {"normalize", "over"}
        PROVE  DeltaCountsTheRun'
    <3>1. Completions(delta)' = Completions(delta)
      BY <2>2 DEF Completions
    <3> QED BY <2>2, <3>1 DEF DeltaCountsTheRun
  <2>3. CASE Script
    <3>1. CASE ScrapeAfter
      <4>1. /\ delta' = Delta(before, Snapshot) /\ missed' = Missed /\ opened' = opened
            /\ arrived' = arrived /\ deaths' = deaths /\ deathsAt' = deathsAt
        BY <3>1 DEF ScrapeAfter
      <4>2. Completions(delta)' = Completions(Delta(before, Snapshot))
        BY <4>1 DEF Completions
      <4> QED BY <2>c, <3>1, <4>1, <4>2, DeltaFollows DEF DeltaCountsTheRun
    <3>2. CASE Normalize
      BY <2>2, <3>2 DEF Normalize, Step
    <3>3. CASE ScrapeBefore
      BY <3>3 DEF ScrapeBefore, Step, DeltaCountsTheRun
    <3>4. CASE StartTool \/ StartSampler \/ StartSeries \/ WaitTool \/ KillSampler
               \/ WaitSampler \/ KillSeries \/ WaitSeries \/ ScrapeFails
      BY <2>2, <3>4 DEF Step, StartTool, StartSampler, StartSeries, WaitTool, KillSampler,
         WaitSampler, KillSeries, WaitSeries, ScrapeFails
    <3> QED BY <2>3, <3>1, <3>2, <3>3, <3>4 DEF Script
  <2>4. CASE ToolExits \/ Reap \/ SamplerRuns \/ SeriesRuns \/ Recover
    BY <2>2, <2>4 DEF ToolExits, Reap, SamplerRuns, SeriesRuns, Recover
  <2>5. CASE Arrive
    BY <2>2, <2>5 DEF Arrive, Alive, ToolIsOver
  <2>6. CASE \E s \in Status : Close(s)
    BY <2>2, <2>6 DEF Close
  <2>7. CASE UNCHANGED vars
    BY <2>2, <2>7 DEF vars
  <2> QED BY <2>1, <2>3, <2>4, <2>5, <2>6, <2>7 DEF Next, Server
<1>3. Stages => Alive
  BY DEF Stages
<1> QED BY <1>1, <1>2, <1>3, TypeCorrect, StagesHold, LedgerHolds, PTL DEF Spec
-----------------------------------------------------------------------------
(* What RunEnds rests on *)

\* How many commands run_one has left at each place, at most.
LeftFrom(place) ==
  CASE place = "before"       -> 11
    [] place = "tool"         -> 10
    [] place = "sampler"      -> 9
    [] place = "series"       -> 8
    [] place = "wait"         -> 7
    [] place = "kill sampler" -> 6
    [] place = "wait sampler" -> 5
    [] place = "kill series"  -> 4
    [] place = "wait series"  -> 3
    [] place = "after"        -> 2
    [] place = "normalize"    -> 1
    [] place \in {"over", "aborted"} -> 0

Left == LeftFrom(pc)

LEMMA LeftIs ==
  /\ LeftFrom("before") = 11 /\ LeftFrom("tool") = 10 /\ LeftFrom("sampler") = 9
  /\ LeftFrom("series") = 8 /\ LeftFrom("wait") = 7 /\ LeftFrom("kill sampler") = 6
  /\ LeftFrom("wait sampler") = 5 /\ LeftFrom("kill series") = 4 /\ LeftFrom("wait series") = 3
  /\ LeftFrom("after") = 2 /\ LeftFrom("normalize") = 1 /\ LeftFrom("over") = 0
  /\ LeftFrom("aborted") = 0
<1>1. LeftFrom("before") = 11
  BY Zenon DEF LeftFrom
<1>2. LeftFrom("tool") = 10
  BY Zenon DEF LeftFrom
<1>3. LeftFrom("sampler") = 9
  BY Zenon DEF LeftFrom
<1>4. LeftFrom("series") = 8
  BY Zenon DEF LeftFrom
<1>5. LeftFrom("wait") = 7
  BY Zenon DEF LeftFrom
<1>6. LeftFrom("kill sampler") = 6
  BY Zenon DEF LeftFrom
<1>7. LeftFrom("wait sampler") = 5
  BY Zenon DEF LeftFrom
<1>8. LeftFrom("kill series") = 4
  BY Zenon DEF LeftFrom
<1>9. LeftFrom("wait series") = 3
  BY Zenon DEF LeftFrom
<1>10. LeftFrom("after") = 2
  BY Zenon DEF LeftFrom
<1>11. LeftFrom("normalize") = 1
  BY Zenon DEF LeftFrom
<1>12. LeftFrom("over") = 0
  BY Zenon DEF LeftFrom
<1>13. LeftFrom("aborted") = 0
  BY Zenon DEF LeftFrom
<1> QED BY <1>1, <1>2, <1>3, <1>4, <1>5, <1>6, <1>7, <1>8, <1>9, <1>10, <1>11, <1>12, <1>13, Zenon

LEMMA LeftFalls ==
  /\ LeftFrom("tool") < LeftFrom("before") /\ LeftFrom("sampler") < LeftFrom("tool")
  /\ LeftFrom("series") < LeftFrom("sampler") /\ LeftFrom("wait") < LeftFrom("series")
  /\ LeftFrom("kill sampler") < LeftFrom("wait") /\ LeftFrom("wait sampler") < LeftFrom("kill sampler")
  /\ LeftFrom("kill series") < LeftFrom("wait sampler") /\ LeftFrom("wait series") < LeftFrom("kill series")
  /\ LeftFrom("after") < LeftFrom("wait series") /\ LeftFrom("normalize") < LeftFrom("after")
  /\ LeftFrom("over") < LeftFrom("normalize") /\ LeftFrom("aborted") < LeftFrom("before")
  /\ LeftFrom("aborted") < LeftFrom("after")
<1>1. /\ 0 < 1 /\ 1 < 2 /\ 2 < 3 /\ 3 < 4 /\ 4 < 5 /\ 5 < 6 /\ 6 < 7 /\ 7 < 8 /\ 8 < 9 /\ 9 < 10
      /\ 10 < 11 /\ 0 < 11 /\ 0 < 2
  OBVIOUS
<1>2. LeftFrom("tool") < LeftFrom("before")
  BY <1>1, LeftIs, Zenon
<1>3. LeftFrom("sampler") < LeftFrom("tool")
  BY <1>1, LeftIs, Zenon
<1>4. LeftFrom("series") < LeftFrom("sampler")
  BY <1>1, LeftIs, Zenon
<1>5. LeftFrom("wait") < LeftFrom("series")
  BY <1>1, LeftIs, Zenon
<1>6. LeftFrom("kill sampler") < LeftFrom("wait")
  BY <1>1, LeftIs, Zenon
<1>7. LeftFrom("wait sampler") < LeftFrom("kill sampler")
  BY <1>1, LeftIs, Zenon
<1>8. LeftFrom("kill series") < LeftFrom("wait sampler")
  BY <1>1, LeftIs, Zenon
<1>9. LeftFrom("wait series") < LeftFrom("kill series")
  BY <1>1, LeftIs, Zenon
<1>10. LeftFrom("after") < LeftFrom("wait series")
  BY <1>1, LeftIs, Zenon
<1>11. LeftFrom("normalize") < LeftFrom("after")
  BY <1>1, LeftIs, Zenon
<1>12. LeftFrom("over") < LeftFrom("normalize")
  BY <1>1, LeftIs, Zenon
<1>13. LeftFrom("aborted") < LeftFrom("before")
  BY <1>1, LeftIs, Zenon
<1>14. LeftFrom("aborted") < LeftFrom("after")
  BY <1>1, LeftIs, Zenon
<1> QED BY <1>2, <1>3, <1>4, <1>5, <1>6, <1>7, <1>8, <1>9, <1>10, <1>11, <1>12, <1>13, <1>14, Zenon

\* An observer that run_one waits for has ended, or has been told to.
Told(observer) == observer.at \in JobEnded \/ (observer.at = "loop" /\ observer.stop)

\* Once its tool has ended, the script waits for nobody who has not been told to end.
NobodyWaitsInVain ==
  /\ pc = "wait" => tool # "none"
  /\ pc = "wait sampler" => Told(sampler)
  /\ pc = "wait series" => Told(series)

\* Who has been started by then, which NobodyWaitsInVain needs to be inductive.
StartedBy ==
  /\ pc \in {"sampler", "series", "wait"} => tool # "none"
  /\ pc \in {"series", "wait", "kill sampler"} => sampler.at # "unborn"
  /\ pc \in {"wait", "kill sampler", "wait sampler", "kill series"} => series.at # "unborn"

\* The script goes forward with every step it takes, and nobody else moves it.
GoesForward == Left \in Nat /\ (Left' < Left \/ (~Script /\ UNCHANGED scriptVars))

\* A signal tells an observer that has been started.
LEMMA SignalTells ==
  ASSUME TypeOK
  PROVE  /\ Sampler!Signal /\ sampler.at # "unborn" => Told(sampler)'
         /\ Series!Signal /\ series.at # "unborn" => Told(series)'
         /\ Sampler!Runs /\ Told(sampler) => Told(sampler)'
         /\ Series!Runs /\ Told(series) => Told(series)'
         /\ Series!Abort /\ Told(series) => Told(series)'
<1>1. /\ sampler.at \in {"unborn", "boot", "loop", "done", "killed", "aborted"}
      /\ series.at \in {"unborn", "boot", "loop", "done", "killed", "aborted"}
  BY DEF TypeOK, Sampler!Jobs, Sampler!Where, Series!Jobs, Series!Where
<1> QED BY <1>1 DEF Told, JobEnded,
           Sampler!Signal, Sampler!Runs, Sampler!Install, Sampler!Finish, Sampler!At,
           Series!Signal, Series!Runs, Series!Install, Series!Finish, Series!Abort, Series!At

LEMMA WaitsKept ==
  TypeOK /\ StartedBy /\ NobodyWaitsInVain /\ [Next]_vars => (StartedBy /\ NobodyWaitsInVain)'
<1> SUFFICES ASSUME TypeOK, StartedBy, NobodyWaitsInVain, [Next]_vars
             PROVE  (StartedBy /\ NobodyWaitsInVain)'
  OBVIOUS
<1> USE DEF StartedBy, NobodyWaitsInVain, scriptVars, fileVars, serverVars, snapshotVars
<1>1. CASE Arrive \/ Recover \/ \E s \in Status : Close(s)
  BY <1>1 DEF Arrive, Recover, Close, Told
<1>2. CASE Die
  BY <1>2, SignalTells, SeriesMoves DEF Die, Told
<1>3. CASE ToolExits \/ Reap
  BY <1>3 DEF ToolExits, Reap, Told
<1>4. CASE SamplerRuns
  <2>1. UNCHANGED <<pc, tool, series>> /\ Sampler!Runs
    BY <1>4 DEF SamplerRuns
  <2>2. sampler'.at # "unborn"
    BY <2>1, SamplerMoves
  <2> QED BY <2>1, <2>2, SignalTells DEF Told
<1>5. CASE SeriesRuns
  <2>1. UNCHANGED <<pc, tool, sampler>> /\ Series!Runs
    BY <1>5 DEF SeriesRuns
  <2>2. series'.at # "unborn"
    BY <2>1, SeriesMoves
  <2> QED BY <2>1, <2>2, SignalTells DEF Told
<1>6. CASE ScrapeBefore \/ ScrapeFails \/ StartTool \/ ScrapeAfter \/ Normalize
  BY <1>6 DEF ScrapeBefore, ScrapeFails, StartTool, ScrapeAfter, Normalize, Step
<1>7. CASE StartSampler \/ StartSeries
  BY <1>7, SamplerMoves, SeriesMoves DEF StartSampler, StartSeries, Step
<1>8. CASE WaitTool \/ WaitSampler \/ WaitSeries
  BY <1>8 DEF WaitTool, WaitSampler, WaitSeries, Step
<1>9. CASE KillSampler
  BY <1>9, SignalTells DEF KillSampler, Step
<1>10. CASE KillSeries
  BY <1>10, SignalTells DEF KillSeries, Step
<1>11. CASE UNCHANGED vars
  BY <1>11 DEF vars, Told
<1> QED BY <1>1, <1>2, <1>3, <1>4, <1>5, <1>6, <1>7, <1>8, <1>9, <1>10, <1>11
        DEF Next, Script, Server

\* A run cannot hang on its observers nor go round in circles: run_one takes each of its
\* commands at most once, and when it waits for an observer, that one has ended or is in
\* its loop with the stop flag set, however early the signal came (run-matrix.sh 150-190).
THEOREM NobodyIsAwaitedInVain == Spec => []NobodyWaitsInVain /\ [][GoesForward]_vars
<1>1. Init => StartedBy /\ NobodyWaitsInVain
  BY DEF Init, StartedBy, NobodyWaitsInVain
<1>2. Spec => [](StartedBy /\ NobodyWaitsInVain)
  BY <1>1, WaitsKept, TypeCorrect, PTL DEF Spec
<1>3. TypeOK /\ [Next]_vars => [GoesForward]_vars
  <2> SUFFICES ASSUME TypeOK, Next PROVE GoesForward
    OBVIOUS
  <2>1. Left \in Nat
    <3>1. /\ 0 \in Nat /\ 1 \in Nat /\ 2 \in Nat /\ 3 \in Nat /\ 4 \in Nat /\ 5 \in Nat
          /\ 6 \in Nat /\ 7 \in Nat /\ 8 \in Nat /\ 9 \in Nat /\ 10 \in Nat /\ 11 \in Nat
      OBVIOUS
    <3> QED BY <3>1, LeftIs, Zenon DEF TypeOK, Left
  <2>2. CASE ~Script
    BY <2>1, <2>2 DEF Next, Server, Arrive, Die, Recover, Close, ToolExits, Reap, SamplerRuns,
       SeriesRuns, GoesForward, scriptVars
  <2>3. CASE Script
    <3>1. \/ Step("before", "tool") \/ Step("before", "aborted") \/ Step("after", "aborted")
          \/ Step("tool", "sampler") \/ Step("sampler", "series") \/ Step("series", "wait")
          \/ Step("wait", "kill sampler") \/ Step("kill sampler", "wait sampler")
          \/ Step("wait sampler", "kill series") \/ Step("kill series", "wait series")
          \/ Step("wait series", "after") \/ Step("after", "normalize")
          \/ Step("normalize", "over")
      BY <2>3 DEF Script, ScrapeBefore, ScrapeFails, StartTool, StartSampler, StartSeries,
         WaitTool, KillSampler, WaitSampler, KillSeries, WaitSeries, ScrapeAfter, Normalize
    <3>2. ASSUME NEW a, NEW b, Step(a, b), LeftFrom(b) < LeftFrom(a) PROVE Left' < Left
      BY <3>2 DEF Step, Left
    <3>3. Left' < Left
      BY <3>1, <3>2, LeftFalls, Zenon
    <3> QED BY <2>1, <3>3 DEF GoesForward
  <2> QED BY <2>2, <2>3
<1> QED BY <1>2, <1>3, TypeCorrect, PTL DEF Spec
=============================================================================
