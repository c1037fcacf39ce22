------------------------------- MODULE Matrix -------------------------------
(***************************************************************************)
(* harness/run-matrix.sh: the campaign.  For every cell the plan of tool   *)
(* runs is shuffled and read line by line; before each run the server is   *)
(* restarted, waited for and warmed, and after it the tool's raw output is *)
(* normalised.  The server process is part of the module because the       *)
(* script's promises are about it: which JVM answers when a run starts.    *)
(* A restart command behaves as FreshServer promises.                      *)
(***************************************************************************)
EXTENDS Naturals, Sequences, FiniteSets

CONSTANTS
  METHODS, CONCURRENCY_LEVELS, GHZ_CONNECTION_MODES, RATE_LEVELS,  \* sequences
  REPEATS, OPEN_LOOP_CONCURRENCY,
  Match,        \* the connection mode "match"
  Family,       \* "closed", "open" or "all"
  Restarts,     \* the ways to restart the server that may be configured
  ReadsStdin,   \* the restart command reads its standard input
  MaxFaults,    \* bound on servers that die and restarts that fail
  MaxBooting    \* bound on the JVMs that are still starting when one dies

ASSUME ListsAssumption ==
  /\ METHODS \in Seq(STRING) /\ CONCURRENCY_LEVELS \in Seq(Nat) /\ RATE_LEVELS \in Seq(Nat)
  /\ GHZ_CONNECTION_MODES \in Seq(Nat \cup {Match}) /\ OPEN_LOOP_CONCURRENCY \in Nat
ASSUME FamilyAssumption == Family \in {"closed", "open", "all"}
ASSUME RestartAssumption ==
  Restarts \subseteq {"jar", "command", "none"} /\ ReadsStdin \in BOOLEAN
ASSUME BoundsAssumption == REPEATS \in Nat /\ MaxFaults \in Nat /\ MaxBooting \in Nat

VARIABLES
  restart,     \* "jar": SUT_JAR, "command": SUT_RESTART_CMD, "none": neither
  pc,          \* where the script is
  cell,        \* number of the current cell, 0 before the first
  plan,        \* what the cell's read loop has left on its standard input
  entry,       \* the line being run
  warned,      \* whether the restart for this line was reported as failed
  sutPid,      \* SUT_PID, the JVM it stands for, 0 when empty
  server,      \* the JVM that answers on the server's port, 0 for none
  booting,     \* JVMs started and not yet listening
  spawned,     \* JVMs started so far; the next one gets the next number
  faults,      \* deaths and failed restarts so far
  log,         \* the runs made, in order
  raw,         \* per tag, the run that wrote its raw output last, 0 for none
  normalized   \* per tag, the run whose output was normalised last

scriptVars == <<restart, pc, cell, plan, entry, warned, sutPid>>
serverVars == <<server, booting, spawned, faults>>
resultVars == <<log, raw, normalized>>
vars == <<scriptVars, serverVars, resultVars>>

-----------------------------------------------------------------------------
(* The plan *)

Line(t, m, c, k, r, rate) ==
  [tool |-> t, method |-> m, concurrency |-> c, connections |-> k, repeat |-> r,
   rps |-> rate]

\* Mutation: the mode is passed on unresolved.
ModeAsGiven(mode, c) == mode

ConnectionsFor(mode, c) == IF mode = Match THEN c ELSE mode

ClosedPlan(m, c, r) ==
  <<Line("jmeter", m, c, c, r, 0)>> \o
  [i \in 1 .. Len(GHZ_CONNECTION_MODES) |->
     Line("ghz", m, c, ConnectionsFor(GHZ_CONNECTION_MODES[i], c), r, 0)]

OpenPlan(rate, r) ==
  << Line("jmeter", "echo", OPEN_LOOP_CONCURRENCY, OPEN_LOOP_CONCURRENCY, r, rate),
     Line("ghz", "echo", OPEN_LOOP_CONCURRENCY, 8, r, rate) >>

\* The nested loops, flattened: the innermost one is over the repeats.
ClosedCells ==
  [n \in 1 .. Len(METHODS) * Len(CONCURRENCY_LEVELS) * REPEATS |->
     LET i == (n - 1) \div REPEATS
     IN  ClosedPlan(METHODS[(i \div Len(CONCURRENCY_LEVELS)) + 1],
                    CONCURRENCY_LEVELS[(i % Len(CONCURRENCY_LEVELS)) + 1],
                    ((n - 1) % REPEATS) + 1)]

OpenCells ==
  [n \in 1 .. Len(RATE_LEVELS) * REPEATS |->
     OpenPlan(RATE_LEVELS[((n - 1) \div REPEATS) + 1], ((n - 1) % REPEATS) + 1)]

Cells == CASE Family = "closed" -> ClosedCells
           [] Family = "open"   -> OpenCells
           [] Family = "all"    -> ClosedCells \o OpenCells

Lines == UNION {{Cells[k][i] : i \in DOMAIN Cells[k]} : k \in DOMAIN Cells}
NoLine == Line("none", "none", 0, 0, 0, 0)

\* Mutation: the rate is left out of the directory's name.
TagWithoutRate(l) == [l EXCEPT !.rps = 0]

\* The directory and file name of a run spell out all of its line.
Tag(l) == l
Tags == {Tag(l) : l \in Lines}

Shuffles(s) ==
  {[i \in DOMAIN s |-> s[p[i]]] : p \in {q \in [DOMAIN s -> DOMAIN s] :
     \A i, j \in DOMAIN s : q[i] = q[j] => i = j}}

Times(s, l) == Cardinality({i \in DOMAIN s : s[i] = l})

-----------------------------------------------------------------------------
Init ==
  /\ restart \in Restarts
  /\ pc = "cell" /\ cell = 0 /\ plan = <<>> /\ entry = NoLine
  /\ warned = FALSE /\ sutPid = 0
  /\ server = (IF restart = "jar" THEN 0 ELSE 1)
  /\ spawned = server
  /\ booting = {} /\ faults = 0
  /\ log = <<>>
  /\ raw = [t \in Tags |-> 0] /\ normalized = [t \in Tags |-> 0]

Go(label) == pc' = label
Give(label) == Go(label) /\ UNCHANGED <<restart, cell, plan, entry, warned, sutPid>>

-----------------------------------------------------------------------------
(* The server, by itself, as long as the script lasts *)

Ended == pc \in {"done", "aborted"}

\* A JVM that finds the port taken exits; behind a Service the new pod takes
\* over from one that is going.
Listen(j) ==
  /\ j \in booting /\ ~Ended
  /\ booting' = booting \ {j}
  /\ server' = IF restart = "jar" /\ server # 0 THEN server ELSE j
  /\ UNCHANGED <<scriptVars, spawned, faults, resultVars>>

\* Killed for memory, evicted, crashed.  A Deployment starts another one.
Die ==
  /\ server # 0 /\ faults < MaxFaults /\ Cardinality(booting) <= MaxBooting /\ ~Ended
  /\ server' = 0 /\ faults' = faults + 1
  /\ IF restart = "command"
     THEN spawned' = spawned + 1 /\ booting' = booting \cup {spawned + 1}
     ELSE UNCHANGED <<spawned, booting>>
  /\ UNCHANGED <<scriptVars, resultVars>>

-----------------------------------------------------------------------------
(* The cell and plan loops *)

\* Mutation: the shuffled lines lack a final newline, so read drops the last.
NextCellUnterminated ==
  /\ pc = "cell" /\ cell < Len(Cells)
  /\ cell' = cell + 1
  /\ \E s \in Shuffles(Cells[cell + 1]) : plan' = SubSeq(s, 1, Len(s) - 1)
  /\ Go("read")
  /\ UNCHANGED <<restart, entry, warned, sutPid, serverVars, resultVars>>

NextCell ==
  /\ pc = "cell" /\ cell < Len(Cells)
  /\ cell' = cell + 1
  /\ plan' \in Shuffles(Cells[cell + 1])
  /\ Go("read")
  /\ UNCHANGED <<restart, entry, warned, sutPid, serverVars, resultVars>>

LastCell ==
  /\ pc = "cell" /\ cell = Len(Cells)
  /\ Give("analyze")
  /\ UNCHANGED <<serverVars, resultVars>>

\* Mutation: the loop looks at the first line and does not consume it.
ReadLineAgain ==
  /\ pc = "read" /\ plan # <<>>
  /\ entry' = Head(plan) /\ warned' = FALSE
  /\ Go("start")
  /\ UNCHANGED <<restart, cell, plan, sutPid, serverVars, resultVars>>

ReadLine ==
  /\ pc = "read" /\ plan # <<>>
  /\ entry' = Head(plan) /\ plan' = Tail(plan) /\ warned' = FALSE
  /\ Go("start")
  /\ UNCHANGED <<restart, cell, sutPid, serverVars, resultVars>>

EndOfPlan ==
  /\ pc = "read" /\ plan = <<>>
  /\ Give("cell")
  /\ UNCHANGED <<serverVars, resultVars>>

-----------------------------------------------------------------------------
(* start_sut *)

\* The command shares the loop's standard input, so one that reads takes the
\* lines that were still to come.
Stdin == plan' = IF ReadsStdin THEN <<>> ELSE plan

RestartSucceeds ==
  /\ pc = "start" /\ restart = "command"
  /\ spawned' = spawned + 1
  /\ \/ server' = spawned + 1 /\ booting' = {}
     \/ server' = 0 /\ booting' = {spawned + 1}
  /\ Stdin /\ Go("wait")
  /\ UNCHANGED <<restart, cell, entry, warned, sutPid, faults, resultVars>>

\* Mutation: a failing restart command is ignored altogether.
RestartFailsSilently ==
  /\ pc = "start" /\ restart = "command" /\ faults < MaxFaults
  /\ faults' = faults + 1
  /\ Stdin /\ Go("wait")
  /\ UNCHANGED <<restart, cell, entry, warned, sutPid, server, booting, spawned, resultVars>>

\* Reported, and nothing is known of the server: untouched, going, gone, or
\* being replaced.
RestartFails ==
  /\ pc = "start" /\ restart = "command" /\ faults < MaxFaults
  /\ warned' = TRUE /\ faults' = faults + 1
  /\ server' \in {server, 0}
  /\ \/ UNCHANGED <<spawned, booting>>
     \/ spawned' = spawned + 1 /\ booting' = booting \cup {spawned + 1}
  /\ Stdin /\ Go("wait")
  /\ UNCHANGED <<restart, cell, entry, sutPid, resultVars>>

NoRestart ==
  /\ pc = "start" /\ restart = "none"
  /\ Give("wait")
  /\ UNCHANGED <<serverVars, resultVars>>

\* stop_sut, then a new JVM.  "pin ... java &" makes SUT_PID the subshell that
\* runs the function; killing it leaves the java process it started running.
StartJar ==
  /\ pc = "start" /\ restart = "jar"
  /\ spawned' = spawned + 1 /\ booting' = booting \cup {spawned + 1}
  /\ sutPid' = spawned + 1
  /\ Go("wait")
  /\ UNCHANGED <<restart, cell, plan, entry, warned, server, faults, resultVars>>

\* wait_for_sut: anything that answers the health URL will do.
Healthy ==
  /\ pc = "wait" /\ server # 0
  /\ Give("warm")
  /\ UNCHANGED <<serverVars, resultVars>>

\* set -e ends the script, and the EXIT trap runs stop_sut.
Abort ==
  /\ pc' = "aborted" /\ sutPid' = 0
  /\ UNCHANGED <<restart, cell, plan, entry, warned, serverVars, resultVars>>

\* Mutation: the health loop has no deadline.
WaitForever == pc = "wait" /\ FALSE /\ Abort

HealthTimeout == pc = "wait" /\ server = 0 /\ Abort

-----------------------------------------------------------------------------
(* warm_sut and run_one *)

\* The warmup run may fail without a word.
Warm ==
  /\ pc = "warm"
  /\ Give("before")
  /\ UNCHANGED <<serverVars, resultVars>>

ScrapeBefore ==
  /\ pc = "before" /\ server # 0
  /\ Give("load")
  /\ UNCHANGED <<serverVars, resultVars>>

\* Neither scrape is guarded: when the server does not answer, set -e applies.
ScrapeFails == pc \in {"before", "after"} /\ server = 0 /\ Abort

\* The tool runs and may or may not write its raw file.  JMeter's script
\* removes what an earlier run with this tag left, ghz's does not.
Load ==
  /\ pc = "load"
  /\ \E wrote \in BOOLEAN :
       /\ log' = Append(log, [cell |-> cell, line |-> entry, jvm |-> server,
                              warned |-> warned, wrote |-> wrote])
       /\ raw' = [raw EXCEPT ![Tag(entry)] =
                    IF wrote THEN Len(log) + 1
                    ELSE IF entry.tool = "jmeter" THEN 0 ELSE @]
  /\ Give("after")
  /\ UNCHANGED <<serverVars, normalized>>

ScrapeAfter ==
  /\ pc = "after" /\ server # 0
  /\ Give("normalize")
  /\ UNCHANGED <<serverVars, resultVars>>

Normalize ==
  /\ pc = "normalize" /\ raw[Tag(entry)] # 0
  /\ normalized' = [normalized EXCEPT ![Tag(entry)] = raw[Tag(entry)]]
  /\ Give("read")
  /\ UNCHANGED <<serverVars, log, raw>>

\* No raw output, or output that does not parse: a warning in the log.
NotNormalized ==
  /\ pc = "normalize"
  /\ Give("read")
  /\ UNCHANGED <<serverVars, resultVars>>

\* analyze.py ends with status 1 when there is nothing to analyse.
Analyze ==
  /\ pc = "analyze"
  /\ IF \E t \in Tags : normalized[t] # 0
     THEN Go("done") ELSE Go("aborted")
  /\ sutPid' = 0
  /\ UNCHANGED <<restart, cell, plan, entry, warned, serverVars, resultVars>>

-----------------------------------------------------------------------------
ServerNext == Die \/ \E j \in booting : Listen(j)

\* What the script does itself: commands that end, and waits with a limit of
\* their own (curl -m 3, the health loop's 60 tries, the scrapes' timeouts).
TimedStep ==
  \/ NextCell \/ LastCell \/ ReadLine \/ EndOfPlan
  \/ NoRestart \/ StartJar \/ Healthy \/ HealthTimeout
  \/ ScrapeBefore \/ ScrapeFails \/ ScrapeAfter
  \/ Normalize \/ NotNormalized \/ Analyze

\* The end of a command of others that the script waits for without a limit:
\* SUT_RESTART_CMD (line 96), the warmup's ghz (123), the tool (183).
CommandEnds == RestartSucceeds \/ RestartFails \/ Warm \/ Load

ScriptNext == TimedStep \/ CommandEnds

Next == ScriptNext \/ ServerNext

\* The script goes on where it is its own turn.  Nobody promises that a command
\* it waits for ends.
Spec     == Init /\ [][Next]_vars
FairSpec == Spec /\ WF_vars(TimedStep)

-----------------------------------------------------------------------------
(* Properties *)

LineType ==
  [tool: {"jmeter", "ghz", "none"},
   method: {METHODS[i] : i \in DOMAIN METHODS} \cup {"echo", "none"},
   concurrency: Nat, connections: Nat, repeat: Nat, rps: Nat]

TypeOK ==
  /\ restart \in Restarts
  /\ pc \in {"cell", "read", "start", "wait", "warm", "before", "load", "after",
             "normalize", "analyze", "done", "aborted"}
  /\ cell \in 0 .. Len(Cells)
  /\ entry \in LineType /\ \A i \in DOMAIN plan : plan[i] \in LineType
  /\ warned \in BOOLEAN
  /\ spawned \in Nat /\ server \in 0 .. spawned /\ sutPid \in 0 .. spawned
  /\ booting \in SUBSET (1 .. spawned)
  /\ faults \in 0 .. MaxFaults
  /\ \A n \in DOMAIN log :
       log[n] \in [cell: 1 .. Len(Cells), line: LineType, jvm: 0 .. spawned,
                   warned: BOOLEAN, wrote: BOOLEAN]
  /\ raw \in [Tags -> 0 .. Len(log)] /\ normalized \in [Tags -> 0 .. Len(log)]

\* How often line l of cell k has been run.
Made(k, l) == Cardinality({n \in DOMAIN log : log[n].cell = k /\ log[n].line = l})

\* A run's output is there until the same line is run again: a line that is
\* planned twice has one directory, and its second run takes the first one's.
OutputIsKept ==
  \A n \in DOMAIN log : log[n].wrote =>
    \/ raw[Tag(log[n].line)] = n
    \/ \E m \in n + 1 .. Len(log) : log[m].line = log[n].line

\* When the script comes to analyse, every line of every cell's plan has been
\* run as often as the plan holds it, and nothing else has; and no run has lost
\* its output to a run of another line (run-matrix.sh 12-16, 143-148, 206-266).
\* The default modes "match 8 1" plan a ghz line twice at concurrency 8 and 1
\* (env.sh 38-43, line 224): both are run, and one output is left of the two.
PlanIsRun ==
  pc \in {"analyze", "done"} =>
    /\ \A k \in DOMAIN Cells, l \in Lines : Made(k, l) = Times(Cells[k], l)
    /\ OutputIsKept

\* With a restart command, a run meets a JVM no earlier run has warmed unless
\* the log says that its restart failed.
FreshOrWarned ==
  restart = "command" => \A n \in DOMAIN log : ~log[n].warned /\ log[n].jvm # 0 =>
    \A m \in 1 .. n - 1 : log[m].jvm # log[n].jvm

\* Where the script waits for a command that nothing limits.
InCommand == pc \in {"warm", "load"} \/ (pc = "start" /\ restart = "command")

\* Nothing else holds the script up for ever, neither a server that dies or
\* stays away nor the loops: it ends, with a report or without, or one of the
\* commands it waits for never does (run-matrix.sh 75-87, 96, 123, 183).
ScriptEnds == <>Ended \/ <>[]InCommand

\* Where the line in hand has not been run yet.
Pending == {"start", "wait", "warm", "before", "load"}

\* Round by round, each run of a round as often as the round holds it: the order
\* the comparison needs (run-matrix.sh 206-266).
Order == INSTANCE Campaign WITH
  Runs <- Lines,
  Rounds <- [k \in DOMAIN Cells |-> [l \in Lines |-> Times(Cells[k], l)]],
  round <- cell,
  todo <- [l \in Lines |->
             Times(plan, l) + (IF pc \in Pending /\ entry = l THEN 1 ELSE 0)],
  ran <- [k \in DOMAIN Cells |-> [l \in Lines |-> Made(k, l)]],
  state <- CASE pc = "done" -> "finished"
             [] pc = "aborted" -> "stopped"
             [] OTHER -> "running"
KeepsOrder == Order!Spec

\* docs/METHODOLOGY.md:95 and run-matrix.sh:12: the server is restarted between
\* tools, so no run meets the JVM of an earlier one.
EveryRunIsFresh ==
  \A n \in DOMAIN log : log[n].jvm # 0 =>
    \A m \in 1 .. n - 1 : log[m].jvm # log[n].jvm
=============================================================================
