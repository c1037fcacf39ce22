----------------------------- MODULE SampleProc -----------------------------
(***************************************************************************)
(* harness/sample_proc.py next to the process tree it charges: the load    *)
(* generator's wrapper (Root) and whatever it starts.  The sampler is an   *)
(* ordinary process: between its scan of /proc and each stat it reads the  *)
(* tree goes on running, forking and exiting.  A CPU tick is a pair        *)
(* <<process, n>>, the n-th tick of that process, so a sum of cumulative   *)
(* CPU times is the number of ticks in a set.                              *)
(***************************************************************************)
EXTENDS Naturals, FiniteSets

CONSTANTS
  Pids,       \* the processes the tool may ever consist of
  Root,       \* --pid, the wrapper run_one started
  Reaper,     \* process 1, which adopts orphans
  MaxTicks    \* bound on the ticks one process burns

ASSUME PidsAssumption ==
  IsFiniteSet(Pids) /\ Root \in Pids /\ Reaper \notin Pids
ASSUME TicksAssumption == MaxTicks \in Nat

VARIABLES
  proc,      \* per process: unborn, running, zombie or gone
  parent,    \* ppid
  ticks,     \* every tick burned so far
  pc,        \* where the sampler is
  stop,      \* the flag the signal handlers set
  todo,      \* processes of this round's scan whose stat is not read yet
  found,     \* processes whose stat was read this round
  read,      \* the ticks those stats showed
  count,     \* samples taken, 2 standing for two or more
  first,     \* the ticks the first sample counted
  peak,      \* cpu_seconds of the last sample
  base,      \* history: the ticks burned when the first scan was made
  opened,    \* history: the ticks burned when the first sample was complete
  scanned    \* history: the ticks burned when the latest scan was made

treeVars == <<proc, parent, ticks>>
roundVars == <<todo, found, read>>
seriesVars == <<count, first, peak>>
histVars == <<base, opened, scanned>>
vars == <<treeVars, pc, stop, roundVars, seriesVars, histVars>>

ProcStates == {"unborn", "running", "zombie", "gone"}

\* A zombie still has its directory in /proc, with its CPU time in it.
Present == {p \in Pids : proc[p] \in {"running", "zombie"}}

\* Mutation: only --pid itself is sampled.
RootOnly == {Root}

\* Mutation: the walk also takes the wrapper's parent.
RootAndParent == {Root, parent[Root]}

\* The smallest set that holds Root and the children of its members.
Descendants ==
  {p \in Pids : \A S \in SUBSET Pids :
     Root \in S /\ (\A q \in Present : parent[q] \in S => q \in S) => p \in S}

TicksOf(p) == {t \in ticks : t[1] = p}

\* utime + stime of one process, None (nothing) once it is gone.  Times of
\* children it has waited for are in other fields and not read.
ReadProcessStat(p) == IF p \in Present THEN TicksOf(p) ELSE {}

\* Mutation: a vanished process reads as an idle one.
FoundGone(p) == {p}

Found(p) == IF p \in Present THEN {p} ELSE {}

Init ==
  /\ proc = [p \in Pids |-> IF p = Root THEN "running" ELSE "unborn"]
  /\ parent = [p \in Pids |-> Reaper]
  /\ ticks = {}
  /\ pc = "boot" /\ stop = FALSE
  /\ todo = {} /\ found = {} /\ read = {}
  /\ count = 0 /\ first = {} /\ peak = 0
  /\ base = {} /\ opened = {} /\ scanned = {}

-----------------------------------------------------------------------------
(* The load generator *)

Burn(p) ==
  /\ proc[p] = "running" /\ Cardinality(TicksOf(p)) < MaxTicks
  /\ ticks' = ticks \cup {<<p, Cardinality(TicksOf(p)) + 1>>}
  /\ UNCHANGED <<proc, parent, pc, stop, roundVars, seriesVars, histVars>>

Fork(p, c) ==
  /\ proc[p] = "running" /\ proc[c] = "unborn"
  /\ proc' = [proc EXCEPT ![c] = "running"]
  /\ parent' = [parent EXCEPT ![c] = p]
  /\ UNCHANGED <<ticks, pc, stop, roundVars, seriesVars, histVars>>

Exit(p) ==
  /\ proc[p] = "running"
  /\ proc' = [proc EXCEPT ![p] = "zombie"]
  /\ parent' = [q \in Pids |-> IF parent[q] = p THEN Reaper ELSE parent[q]]
  /\ UNCHANGED <<ticks, pc, stop, roundVars, seriesVars, histVars>>

Reap(p) ==
  /\ proc[p] = "zombie"
  /\ proc' = [proc EXCEPT ![p] = "gone"]
  /\ UNCHANGED <<parent, ticks, pc, stop, roundVars, seriesVars, histVars>>

Tree == \E p \in Pids : Burn(p) \/ Exit(p) \/ Reap(p) \/ \E c \in Pids : Fork(p, c)

-----------------------------------------------------------------------------
(* The sampler and the script that ends it *)

InstallHandlers ==
  /\ pc = "boot" /\ pc' = "loop"
  /\ UNCHANGED <<treeVars, stop, roundVars, seriesVars, histVars>>

\* run_one, after its wait for the tool has reaped Root: SIGTERM kills a
\* python that has not installed its handler yet.
Terminate ==
  /\ proc[Root] = "gone" /\ pc \notin {"done", "killed"} /\ ~stop
  /\ IF pc = "boot" THEN pc' = "killed" /\ stop' = stop
                    ELSE pc' = pc /\ stop' = TRUE
  /\ UNCHANGED <<treeVars, roundVars, seriesVars, histVars>>

Scan ==
  /\ pc = "loop" /\ ~stop
  /\ pc' = "read"
  /\ todo' = Descendants /\ found' = {} /\ read' = {}
  /\ scanned' = ticks
  /\ base' = IF count = 0 THEN ticks ELSE base
  /\ UNCHANGED <<treeVars, stop, seriesVars, opened>>

Read(p) ==
  /\ pc = "read" /\ p \in todo
  /\ todo' = todo \ {p}
  /\ found' = found \cup Found(p)
  /\ read' = read \cup ReadProcessStat(p)
  /\ UNCHANGED <<treeVars, pc, stop, seriesVars, histVars>>

PeakCpu(total) == IF total > peak THEN total ELSE peak

Append ==
  /\ pc = "read" /\ todo = {} /\ found # {}
  /\ peak' = PeakCpu(Cardinality(read))
  /\ count' = IF count = 0 THEN 1 ELSE 2
  /\ first' = IF count = 0 THEN read ELSE first
  /\ opened' = IF count = 0 THEN ticks ELSE opened
  /\ pc' = "sleep" /\ found' = {} /\ read' = {}
  /\ UNCHANGED <<treeVars, stop, todo, base, scanned>>

NoStats ==
  /\ pc = "read" /\ todo = {} /\ found = {}
  /\ pc' = "write"
  /\ UNCHANGED <<treeVars, stop, roundVars, seriesVars, histVars>>

Wake ==
  /\ pc = "sleep" /\ pc' = "loop"
  /\ UNCHANGED <<treeVars, stop, roundVars, seriesVars, histVars>>

LoopEnds ==
  /\ pc = "loop" /\ stop
  /\ pc' = "write"
  /\ UNCHANGED <<treeVars, stop, roundVars, seriesVars, histVars>>

Write ==
  /\ pc = "write" /\ pc' = "done"
  /\ UNCHANGED <<treeVars, stop, roundVars, seriesVars, histVars>>

Sampler ==
  \/ InstallHandlers \/ Scan \/ Append \/ NoStats \/ Wake \/ LoopEnds \/ Write
  \/ \E p \in Pids : Read(p)

Next == Tree \/ Sampler \/ Terminate

Spec == Init /\ [][Next]_vars

\* Only the sampler has to go on: the tool may hang, and the script's signal
\* may be late.
FairSpec == Spec /\ WF_vars(Sampler)

-----------------------------------------------------------------------------
(* What the report divides the throughput by *)

\* Mutation: the first sample is not subtracted.
LastSampleAlone == peak

CpuSeconds == peak - Cardinality(first)
Usable == count = 2

TypeOK ==
  /\ proc \in [Pids -> ProcStates]
  /\ parent \in [Pids -> Pids \cup {Reaper}]
  /\ ticks \subseteq Pids \X (1 .. MaxTicks)
  /\ pc \in {"boot", "loop", "read", "sleep", "write", "done", "killed"}
  /\ stop \in BOOLEAN
  /\ todo \subseteq Pids /\ found \subseteq Pids
  /\ read \subseteq ticks /\ first \subseteq ticks /\ base \subseteq ticks
  /\ opened \subseteq ticks /\ scanned \subseteq ticks
  /\ count \in 0 .. 2 /\ peak \in Nat

\* A tool is never charged for more CPU than its processes burned since the
\* first scan, whatever forked, exited or was orphaned between the reads
\* (sample 189-214, summarize 232).
NeverOvercharged ==
  count > 0 => CpuSeconds <= Cardinality(ticks \ base)

\* As long as no process of the tree has ended, the charge covers everything
\* burned between the end of the first sample and the last scan.
StableTreeIsCharged ==
  (\A p \in Pids : proc[p] \in {"unborn", "running"}) /\ pc = "sleep" /\ Usable
    => CpuSeconds >= Cardinality(scanned \ opened)

\* What run_one builds on: a process that a signal ends and that ends by itself
\* when the tool is gone, not before, with its file written either way
\* (182-193, 216-219).
Job == INSTANCE BackgroundJob WITH
  job <- [at |-> CASE pc = "boot" -> "boot" [] pc = "done" -> "done"
                   [] pc = "killed" -> "killed" [] OTHER -> "loop",
          stop |-> stop],
  over <- proc[Root] = "gone",
  MayAbort <- FALSE
IsBackgroundJob == Job!FairSpec
=============================================================================
