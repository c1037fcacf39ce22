-------------------------- MODULE SampleProcProofs --------------------------
(***************************************************************************)
(* For any set of processes and any number of ticks: the sampler never     *)
(* charges a tool for CPU its tree did not burn after the first scan.  The *)
(* argument is about which ticks a sample may see.  A tick of the base is  *)
(* seen later only if its process is still in the tree, and a process of   *)
(* the tree that is in the base was read by the first sample (Kept).  As   *)
(* long as none of them ends, it misses none of it either.  Once the       *)
(* signal has come or the wrapper is gone a budget of steps runs down.     *)
(***************************************************************************)
EXTENDS SampleProc, FiniteSetTheorems, TLAPS

USE PidsAssumption, TicksAssumption

\* Nobody is the child of a process that does not exist, and such a process
\* has burned nothing.
Unborn ==
  \A p \in Pids : proc[p] = "unborn" =>
    TicksOf(p) = {} /\ \A q \in Present : parent[q] # p

BaseOf(p) == {t \in base : t[1] = p}

\* During the first round: a process of the tree is still to be read, or its
\* part of the base was seen.
FirstRound ==
  pc = "read" /\ count = 0 =>
    \A p \in Descendants \cap Present : p \in todo \/ BaseOf(p) \subseteq read

\* From the first sample on: what is in the tree, or in the round's list, had
\* its part of the base counted by the first sample.
Kept ==
  count > 0 =>
    /\ \A p \in (Descendants \cup todo) \cap Present : BaseOf(p) \subseteq first
    /\ pc = "read" => read \cap base \subseteq first

Charge ==
  /\ count = 0 => peak = 0
  /\ count > 0 => peak <= Cardinality(first) + Cardinality(ticks \ base)

IInv == TypeOK /\ Unborn /\ FirstRound /\ Kept /\ Charge

-----------------------------------------------------------------------------
(* The tree *)

\* descendants() finds the children of everything it finds.
LEMMA TreeIsClosed ==
  \A q \in Present : q \in Pids /\ parent[q] \in Descendants => q \in Descendants
BY DEF Descendants

\* ... and nothing beyond a closed set that holds the root.
LEMMA TreeIsLeast ==
  ASSUME NEW S \in SUBSET Pids, Root \in S,
         \A q \in Present' : parent'[q] \in S => q \in S
  PROVE  Descendants' \subseteq S
BY DEF Descendants

LEMMA TreeInPids == Descendants \subseteq Pids /\ Root \in Descendants
BY DEF Descendants

\* Short of a fork, the tree only loses processes.
LEMMA TreeOnlyShrinks ==
  ASSUME TypeOK, Unborn,
         NEW p \in Pids,
         \/ Burn(p) \/ Exit(p) \/ Reap(p)
  PROVE  Descendants' \subseteq Descendants /\ Present' \subseteq Present
<1>1. Present' \subseteq Present
  BY DEF Present, Burn, Exit, Reap, TypeOK, ProcStates, treeVars
<1>2. \A q \in Present' : parent'[q] = parent[q] \/ parent'[q] = Reaper
  BY DEF Present, Burn, Exit, Reap, TypeOK, treeVars
<1>3. \A q \in Present' : parent'[q] \in Descendants => q \in Descendants
  BY <1>1, <1>2, TreeIsClosed, TreeInPids DEF Present
<1>4. Descendants' \subseteq Descendants
  <2>1. Descendants \in SUBSET Pids /\ Root \in Descendants  BY TreeInPids
  <2> QED  BY <2>1, <1>3, TreeIsLeast
<1> QED  BY <1>1, <1>4

LEMMA ForkAddsTheChild ==
  ASSUME TypeOK, Unborn, NEW p \in Pids, NEW c \in Pids, Fork(p, c)
  PROVE  Descendants' \subseteq Descendants \cup {c} /\ Present' = Present \cup {c}
<1>1. Present' = Present \cup {c}
  BY DEF Present, Fork, TypeOK, ProcStates
<1>2. \A q \in Present : q # c /\ parent'[q] = parent[q] /\ parent[q] # c
  BY DEF Present, Fork, TypeOK, Unborn
<1> DEFINE S == Descendants \cup {c}
<1>3. S \in SUBSET Pids /\ Root \in S  BY TreeInPids
<1>4. \A q \in Present' : parent'[q] \in S => q \in S
  BY <1>1, <1>2, TreeIsClosed DEF Present
<1>5. Descendants' \subseteq S
  <2> HIDE DEF S
  <2> QED  BY <1>3, <1>4, TreeIsLeast
<1> QED  BY <1>1, <1>5

\* Every set of ticks is finite.
LEMMA TicksFinite ==
  ASSUME NEW T \in SUBSET (Pids \X (1 .. MaxTicks))
  PROVE  IsFiniteSet(T) /\ Cardinality(T) \in Nat
<1>1. IsFiniteSet(1 .. MaxTicks)
  <2>1. 1 \in Int /\ MaxTicks \in Int  OBVIOUS
  <2> QED  BY <2>1, FS_Interval
<1>2. IsFiniteSet(Pids \X (1 .. MaxTicks))
  BY <1>1, FS_Product
<1>3. IsFiniteSet(T)  BY <1>2, FS_Subset
<1> QED  BY <1>3, FS_CardinalityType

-----------------------------------------------------------------------------
(* The invariant *)

LEMMA InitIInv == Init => IInv
<1> SUFFICES ASSUME Init PROVE IInv  OBVIOUS
<1>1. TypeOK
  <2>1. proc \in [Pids -> ProcStates]  BY DEF Init, ProcStates
  <2>2. parent \in [Pids -> Pids \cup {Reaper}]  BY DEF Init
  <2>3. ticks = {} /\ todo = {} /\ found = {} /\ read = {} /\ first = {}
    BY DEF Init
  <2>4. base = {} /\ opened = {} /\ scanned = {}  BY DEF Init
  <2>5. count = 0 /\ peak = 0 /\ stop = FALSE /\ pc = "boot"  BY DEF Init
  <2>6. ticks \subseteq Pids \X (1 .. MaxTicks) /\ todo \subseteq Pids /\ found \subseteq Pids
    BY <2>3
  <2>7. /\ read \subseteq ticks /\ first \subseteq ticks /\ base \subseteq ticks
        /\ opened \subseteq ticks /\ scanned \subseteq ticks
    BY <2>3, <2>4
  <2>8. count \in 0 .. 2 /\ peak \in Nat
    BY <2>5
  <2>9. stop \in BOOLEAN
    BY <2>5, Zenon
  <2> QED  BY <2>1, <2>2, <2>5, <2>6, <2>7, <2>8, <2>9 DEF TypeOK
<1>2. Unborn
  BY DEF Init, Unborn, Present, TicksOf
<1>3. FirstRound /\ Kept /\ Charge  BY DEF Init, FirstRound, Kept, Charge
<1> QED  BY <1>1, <1>2, <1>3 DEF IInv

\* A step of the load generator, forks apart, disturbs nothing the sampler
\* relies on.
LEMMA TreeStep ==
  ASSUME IInv, NEW p \in Pids, Burn(p) \/ Exit(p) \/ Reap(p)
  PROVE  IInv'
<1> USE DEF IInv
<1>1. /\ ticks \subseteq ticks'
      /\ UNCHANGED <<pc, stop, roundVars, seriesVars, histVars>>
  BY DEF Burn, Exit, Reap, treeVars
<1>2. TypeOK'
  <2>1. CASE Burn(p)
    <3>1. TicksOf(p) \in SUBSET (Pids \X (1 .. MaxTicks))
      BY DEF TicksOf, TypeOK
    <3>2. Cardinality(TicksOf(p)) \in Nat  BY <3>1, TicksFinite
    <3>3. Cardinality(TicksOf(p)) + 1 \in 1 .. MaxTicks
      BY <2>1, <3>2 DEF Burn
    <3> QED  BY <2>1, <3>3 DEF Burn, TypeOK, roundVars, seriesVars, histVars
  <2>2. CASE Exit(p)
    BY <2>2 DEF Exit, TypeOK, ProcStates, roundVars, seriesVars, histVars
  <2>3. CASE Reap(p)
    BY <2>3 DEF Reap, TypeOK, ProcStates, roundVars, seriesVars, histVars
  <2> QED  BY <2>1, <2>2, <2>3
<1>3. Descendants' \subseteq Descendants /\ Present' \subseteq Present
  BY TreeOnlyShrinks
<1>4. Unborn'
  <2>1. CASE Burn(p)
    BY <2>1 DEF Burn, Unborn, Present, TicksOf, TypeOK
  <2>2. CASE Exit(p)
    BY <2>2 DEF Exit, Unborn, Present, TicksOf, TypeOK
  <2>3. CASE Reap(p)
    BY <2>3 DEF Reap, Unborn, Present, TicksOf, TypeOK
  <2> QED  BY <2>1, <2>2, <2>3
<1>5. FirstRound' /\ Kept'
  BY <1>1, <1>3 DEF FirstRound, Kept, BaseOf, roundVars, seriesVars, histVars
<1>6. Charge'
  <2>1. /\ ticks' \ base \in SUBSET (Pids \X (1 .. MaxTicks))
        /\ ticks \ base \in SUBSET (ticks' \ base)
        /\ first \in SUBSET (Pids \X (1 .. MaxTicks))
    BY <1>1, <1>2 DEF TypeOK
  <2>2. IsFiniteSet(ticks' \ base) /\ Cardinality(ticks' \ base) \in Nat
    BY <2>1, TicksFinite
  <2>3. /\ Cardinality(ticks \ base) \in Nat
        /\ Cardinality(ticks \ base) <= Cardinality(ticks' \ base)
    BY <2>1, <2>2, FS_Subset, FS_CardinalityType
  <2>4. Cardinality(first) \in Nat  BY <2>1, TicksFinite
  <2> QED  BY <1>1, <2>2, <2>3, <2>4 DEF Charge, TypeOK, seriesVars, histVars
<1> QED  BY <1>2, <1>4, <1>5, <1>6

LEMMA ForkStep ==
  ASSUME IInv, NEW p \in Pids, NEW c \in Pids, Fork(p, c)
  PROVE  IInv'
<1> USE DEF IInv
<1>1. UNCHANGED <<ticks, pc, stop, roundVars, seriesVars, histVars>>
  BY DEF Fork
<1>2. TypeOK'
  BY DEF Fork, TypeOK, ProcStates, roundVars, seriesVars, histVars
<1>3. Descendants' \subseteq Descendants \cup {c} /\ Present' = Present \cup {c}
  BY ForkAddsTheChild
<1>4. BaseOf(c) = {}
  BY DEF Fork, Unborn, TicksOf, BaseOf, TypeOK
<1>5. Unborn'
  BY <1>3 DEF Fork, Unborn, Present, TicksOf, TypeOK
<1>6. FirstRound' /\ Kept'
  BY <1>1, <1>3, <1>4 DEF FirstRound, Kept, BaseOf, roundVars, seriesVars, histVars
<1>7. Charge'
  BY <1>1 DEF Charge, seriesVars, histVars
<1> QED  BY <1>2, <1>5, <1>6, <1>7

\* A step of the sampler that only moves it along, and the script's signal.
LEMMA IdleStep ==
  ASSUME IInv,
         \/ InstallHandlers \/ Terminate \/ NoStats \/ Wake \/ LoopEnds \/ Write
  PROVE  IInv'
<1> USE DEF IInv
<1>1. UNCHANGED <<treeVars, roundVars, seriesVars, histVars>>
  BY DEF InstallHandlers, Terminate, NoStats, Wake, LoopEnds, Write
<1>2. pc' \in {"loop", "sleep", "write", "done", "killed"} \/ pc' = pc
  BY DEF InstallHandlers, Terminate, NoStats, Wake, LoopEnds, Write
<1>3. TypeOK'
  BY <1>1, <1>2 DEF InstallHandlers, Terminate, NoStats, Wake, LoopEnds, Write,
     TypeOK, treeVars, roundVars, seriesVars, histVars
<1>4. Unborn'
  BY <1>1 DEF Unborn, Present, TicksOf, treeVars
<1>5. Descendants' = Descendants /\ Present' = Present
  BY <1>1 DEF Descendants, Present, treeVars
<1>6. FirstRound' /\ Kept' /\ Charge'
  BY <1>1, <1>2, <1>5 DEF FirstRound, Kept, Charge, BaseOf, treeVars, roundVars,
     seriesVars, histVars
<1> QED  BY <1>3, <1>4, <1>6

LEMMA ScanStep == ASSUME IInv, Scan PROVE IInv'
<1> USE DEF IInv
<1>1. TypeOK'
  BY TreeInPids DEF Scan, TypeOK, treeVars, seriesVars
<1>2. Unborn'
  BY DEF Scan, Unborn, Present, TicksOf, treeVars
<1>3. Descendants' = Descendants /\ Present' = Present
  BY DEF Scan, Descendants, Present, treeVars
<1>4. FirstRound'
  BY <1>3 DEF Scan, FirstRound
<1>5. Kept'
  BY <1>3 DEF Scan, Kept, BaseOf, seriesVars
<1>6. Charge'
  BY DEF Scan, Charge, treeVars, seriesVars
<1> QED  BY <1>1, <1>2, <1>4, <1>5, <1>6

LEMMA ReadStep == ASSUME IInv, NEW p \in Pids, Read(p) PROVE IInv'
<1> USE DEF IInv
<1>1. UNCHANGED <<treeVars, pc, stop, seriesVars, histVars>>
  BY DEF Read
<1>2. TypeOK'
  BY DEF Read, TypeOK, Found, ReadProcessStat, TicksOf, treeVars, seriesVars, histVars
<1>3. Unborn'
  BY <1>1 DEF Unborn, Present, TicksOf, treeVars
<1>4. Descendants' = Descendants /\ Present' = Present
  BY <1>1 DEF Descendants, Present, treeVars
<1>5. todo' = todo \ {p} /\ read' = read \cup ReadProcessStat(p) /\ p \in todo
  BY DEF Read
<1>6. p \in Present => BaseOf(p) \subseteq ReadProcessStat(p)
  BY DEF BaseOf, ReadProcessStat, TicksOf, TypeOK
<1>7. FirstRound'
  BY <1>1, <1>4, <1>5, <1>6 DEF FirstRound, BaseOf, treeVars, seriesVars, histVars
<1>8. ReadProcessStat(p) \cap base \subseteq BaseOf(p)
  BY DEF ReadProcessStat, TicksOf, BaseOf
<1>9. Kept'
  <2> SUFFICES ASSUME count > 0, pc = "read" PROVE Kept'
    BY <1>1, <1>4, <1>5 DEF Kept, BaseOf, Read, seriesVars, histVars
  <2>1. ReadProcessStat(p) \cap base \subseteq first
    <3>1. CASE p \in Present
      BY <3>1, <1>5, <1>8 DEF Kept
    <3>2. CASE p \notin Present
      BY <3>2 DEF ReadProcessStat
    <3> QED  BY <3>1, <3>2
  <2> QED  BY <2>1, <1>1, <1>4, <1>5 DEF Kept, BaseOf, seriesVars, histVars
<1>10. Charge'
  BY <1>1 DEF Charge, treeVars, seriesVars, histVars
<1> QED  BY <1>2, <1>3, <1>7, <1>9, <1>10

\* A sample is a part of what the first one counted and of what came later.
LEMMA SampleIsBounded ==
  ASSUME IInv, count > 0, pc = "read"
  PROVE  Cardinality(read) <= Cardinality(first) + Cardinality(ticks \ base)
<1> USE DEF IInv
<1>1. /\ ticks \ base \in SUBSET (Pids \X (1 .. MaxTicks))
      /\ first \in SUBSET (Pids \X (1 .. MaxTicks))
      /\ first \cup (ticks \ base) \in SUBSET (Pids \X (1 .. MaxTicks))
      /\ first \cap (ticks \ base) \in SUBSET (Pids \X (1 .. MaxTicks))
      /\ read \in SUBSET (first \cup (ticks \ base))
  BY DEF TypeOK, Kept
<1>2. /\ IsFiniteSet(first) /\ IsFiniteSet(ticks \ base)
      /\ IsFiniteSet(first \cup (ticks \ base))
      /\ Cardinality(first) \in Nat /\ Cardinality(ticks \ base) \in Nat
      /\ Cardinality(first \cap (ticks \ base)) \in Nat
      /\ Cardinality(first \cup (ticks \ base)) \in Nat
  BY <1>1, TicksFinite
<1>3. Cardinality(read) <= Cardinality(first \cup (ticks \ base)) /\ Cardinality(read) \in Nat
  BY <1>1, <1>2, FS_Subset, FS_CardinalityType
<1>4. Cardinality(first \cup (ticks \ base)) =
        Cardinality(first) + Cardinality(ticks \ base) - Cardinality(first \cap (ticks \ base))
  BY <1>2, FS_Union
<1> QED  BY <1>2, <1>3, <1>4

LEMMA AppendStep == ASSUME IInv, Append PROVE IInv'
<1> USE DEF IInv
<1>1. /\ read \in SUBSET (Pids \X (1 .. MaxTicks))
      /\ ticks \ base \in SUBSET (Pids \X (1 .. MaxTicks))
      /\ first \in SUBSET (Pids \X (1 .. MaxTicks))
  BY DEF TypeOK
<1>2. /\ Cardinality(read) \in Nat /\ Cardinality(ticks \ base) \in Nat
      /\ Cardinality(first) \in Nat
  BY <1>1, TicksFinite
<1>3. UNCHANGED <<treeVars, stop, todo, base, scanned>> /\ read' = {} /\ found' = {}
  BY DEF Append
<1>4. peak' \in Nat
  BY <1>2 DEF Append, PeakCpu, TypeOK
<1>5. TypeOK'
  BY <1>3, <1>4 DEF Append, TypeOK, treeVars
<1>6. Unborn'
  BY <1>3 DEF Unborn, Present, TicksOf, treeVars
<1>7. Descendants' = Descendants /\ Present' = Present
  BY <1>3 DEF Descendants, Present, treeVars
<1>8. FirstRound' /\ Kept'
  BY <1>3, <1>7 DEF Append, FirstRound, Kept, BaseOf, TypeOK
<1>9. Charge'
  <2>1. CASE count = 0
    BY <2>1, <1>2, <1>3 DEF Append, Charge, PeakCpu, treeVars
  <2>2. CASE count > 0
    <3>1. Cardinality(read) <= Cardinality(first) + Cardinality(ticks \ base)
      BY <2>2, SampleIsBounded DEF Append
    <3> QED  BY <2>2, <3>1, <1>3 DEF Append, Charge, PeakCpu, treeVars
  <2> QED  BY <2>1, <2>2 DEF TypeOK
<1> QED  BY <1>5, <1>6, <1>8, <1>9

THEOREM InvariantHolds == Spec => []IInv
<1>1. Init => IInv  BY InitIInv
<1>2. IInv /\ [Next]_vars => IInv'
  <2> SUFFICES ASSUME IInv, [Next]_vars PROVE IInv'  OBVIOUS
  <2>1. CASE Tree
    <3>1. PICK p \in Pids : Burn(p) \/ Exit(p) \/ Reap(p) \/ \E c \in Pids : Fork(p, c)
      BY <2>1 DEF Tree
    <3> QED  BY <3>1, TreeStep, ForkStep
  <2>2. CASE Sampler
    BY <2>2, IdleStep, ScanStep, ReadStep, AppendStep DEF Sampler
  <2>3. CASE Terminate
    BY <2>3, IdleStep
  <2>4. CASE UNCHANGED vars
    <3>1. Descendants' = Descendants /\ Present' = Present
      BY <2>4 DEF vars, treeVars, Descendants, Present
    <3> QED
      BY <2>4, <3>1 DEF IInv, TypeOK, Unborn, FirstRound, Kept, Charge, BaseOf, TicksOf,
         vars, treeVars, roundVars, seriesVars, histVars
  <2> QED  BY <2>1, <2>2, <2>3, <2>4 DEF Next
<1> QED  BY <1>1, <1>2, PTL DEF Spec

-----------------------------------------------------------------------------
(* The results *)

\* Every variable keeps its type, for any process tree (sample_proc.py 178-219).
THEOREM TypeCorrect == Spec => []TypeOK
<1>1. IInv => TypeOK  BY DEF IInv
<1> QED  BY <1>1, InvariantHolds, PTL

\* A tool is never charged for more CPU than was burned since the first scan
\* (summarize 232): the denominator of RPS/core is never too large.
THEOREM NoOvercharge == Spec => []NeverOvercharged
<1>1. IInv => NeverOvercharged
  <2> SUFFICES ASSUME IInv, count > 0
               PROVE  CpuSeconds <= Cardinality(ticks \ base)
    BY DEF NeverOvercharged
  <2>1. /\ ticks \ base \in SUBSET (Pids \X (1 .. MaxTicks))
        /\ first \in SUBSET (Pids \X (1 .. MaxTicks))
    BY DEF IInv, TypeOK
  <2>2. Cardinality(ticks \ base) \in Nat /\ Cardinality(first) \in Nat
    BY <2>1, TicksFinite
  <2> QED  BY <2>2 DEF IInv, TypeOK, Charge, CpuSeconds
<1> QED  BY <1>1, InvariantHolds, PTL

-----------------------------------------------------------------------------
(* While no process ends *)

Stable == \A p \in Pids : proc[p] \in {"unborn", "running"}

\* Nothing has left the tree.
Together == Stable => Present \subseteq Descendants

FirstIsOld == count > 0 => first \subseteq opened

\* What had been burned when the round began is read, or its process is still
\* to be read, and so is what the first sample counted.
Covered ==
  Stable /\ pc = "read" =>
    /\ \A t \in scanned : t[1] \in todo \/ t \in read
    /\ count > 0 => \A t \in first : t[1] \in todo \/ t \in read

SInv == IInv /\ Together /\ FirstIsOld /\ Covered /\ StableTreeIsCharged

\* A process that has ended never comes back.
LEMMA StableBefore == ASSUME IInv, Next, Stable' PROVE Stable
BY DEF IInv, TypeOK, ProcStates, Stable, Next, Tree, Sampler, Burn, Exit, Reap, Fork,
   Terminate, InstallHandlers, Scan, Append, NoStats, Wake, LoopEnds, Write, Read, treeVars

\* As long as none has ended, every tick is one of a running process.
LEMMA TicksOfPresent ==
  ASSUME IInv, Stable, NEW t \in ticks
  PROVE  t[1] \in Present
<1>1. t[1] \in Pids  BY DEF IInv, TypeOK
<1>2. t \in TicksOf(t[1])  BY DEF TicksOf
<1>3. proc[t[1]] # "unborn"  BY <1>1, <1>2 DEF IInv, Unborn
<1> QED  BY <1>1, <1>3 DEF Stable, Present

LEMMA ForkKeepsTogether ==
  ASSUME IInv, Present \subseteq Descendants,
         NEW p \in Pids, NEW c \in Pids, Fork(p, c)
  PROVE  Present' \subseteq Descendants'
<1>1. Present' = Present \cup {c}
  BY ForkAddsTheChild DEF IInv
<1>2. \A q \in Present : q # c /\ parent'[q] = parent[q]
  BY DEF Present, Fork, IInv, TypeOK, Unborn
<1>3. p \in Present /\ parent'[c] = p
  BY DEF Present, Fork, IInv, TypeOK
<1>4. ASSUME NEW S \in SUBSET Pids, Root \in S,
             \A q \in Present' : parent'[q] \in S => q \in S
      PROVE  Present' \subseteq S
  <2>1. \A q \in Present : parent[q] \in S => q \in S
    BY <1>1, <1>2, <1>4
  <2>2. Present \subseteq S
    BY <2>1, <1>4 DEF Descendants
  <2> QED  BY <2>2, <1>1, <1>3, <1>4
<1> QED  BY <1>1, <1>4 DEF Descendants, Present

\* A step of the load generator leaves the sampler's part alone.
LEMMA StableTreeStep ==
  ASSUME SInv, IInv', NEW p \in Pids,
         Burn(p) \/ Exit(p) \/ Reap(p) \/ \E c \in Pids : Fork(p, c)
  PROVE  SInv'
<1>1. UNCHANGED <<pc, stop, roundVars, seriesVars, histVars>>
  BY DEF Burn, Exit, Reap, Fork
<1>2. Stable' => Stable
  BY StableBefore DEF SInv, Next, Tree
<1>3. Together'
  <2>1. CASE Burn(p)
    BY <2>1 DEF SInv, Together, Stable, Present, Descendants, Burn
  <2>2. CASE Exit(p) \/ Reap(p)
    BY <2>2 DEF SInv, IInv, TypeOK, Together, Stable, Exit, Reap
  <2>3. CASE \E c \in Pids : Fork(p, c)
    <3>1. PICK c \in Pids : Fork(p, c)  BY <2>3
    <3>2. CASE Stable'
      <4>1. Present \subseteq Descendants  BY <1>2, <3>2 DEF SInv, Together
      <4> QED  BY <3>1, <4>1, ForkKeepsTogether DEF SInv, Together
    <3>3. CASE ~Stable'  BY <3>3 DEF Together
    <3> QED  BY <3>2, <3>3
  <2> QED  BY <2>1, <2>2, <2>3
<1>4. FirstIsOld' /\ Covered'
  BY <1>1, <1>2 DEF SInv, FirstIsOld, Covered, roundVars, seriesVars, histVars
<1>5. StableTreeIsCharged'
  BY <1>1, <1>2 DEF SInv, StableTreeIsCharged, Stable, Usable, CpuSeconds, seriesVars, histVars
<1> QED  BY <1>3, <1>4, <1>5 DEF SInv

LEMMA StableScanStep == ASSUME SInv, IInv', Scan PROVE SInv'
<1>1. UNCHANGED <<treeVars, stop, seriesVars, opened>>
  BY DEF Scan
<1>2. Together' /\ FirstIsOld'
  BY <1>1 DEF SInv, Together, FirstIsOld, Stable, Present, Descendants, treeVars, seriesVars
<1>3. Covered'
  <2> SUFFICES ASSUME Stable PROVE Covered'
    BY <1>1 DEF Covered, Stable, treeVars
  <2>1. \A t \in ticks : t[1] \in Descendants
    BY TicksOfPresent DEF SInv, Together
  <2>2. first' \subseteq ticks /\ scanned' \subseteq ticks /\ todo' = Descendants
    BY DEF Scan, SInv, IInv, TypeOK, seriesVars
  <2> QED  BY <2>1, <2>2 DEF Covered
<1>4. StableTreeIsCharged'
  BY DEF Scan, StableTreeIsCharged
<1> QED  BY <1>2, <1>3, <1>4 DEF SInv

LEMMA StableReadStep == ASSUME SInv, IInv', NEW p \in Pids, Read(p) PROVE SInv'
<1>1. UNCHANGED <<treeVars, pc, stop, seriesVars, histVars>>
  BY DEF Read
<1>2. Together' /\ FirstIsOld'
  BY <1>1 DEF SInv, Together, FirstIsOld, Stable, Present, Descendants, treeVars, seriesVars,
     histVars
<1>3. Covered'
  <2> SUFFICES ASSUME Stable PROVE Covered'
    BY <1>1 DEF Covered, Stable, treeVars
  <2>1. pc = "read" /\ todo' = todo \ {p} /\ read' = read \cup ReadProcessStat(p)
    BY DEF Read
  <2>2. ASSUME NEW t \in ticks, t[1] \in todo \/ t \in read
        PROVE  t[1] \in todo' \/ t \in read'
    <3>1. t[1] \in Present  BY TicksOfPresent DEF SInv
    <3>2. CASE t[1] = p  BY <2>1, <3>1, <3>2 DEF ReadProcessStat, TicksOf
    <3>3. CASE t[1] # p  BY <2>1, <2>2, <3>3
    <3> QED  BY <3>2, <3>3
  <2>3. first \subseteq ticks /\ scanned \subseteq ticks
    BY DEF SInv, IInv, TypeOK
  <2> QED  BY <1>1, <2>1, <2>2, <2>3 DEF SInv, Covered, seriesVars, histVars
<1>4. StableTreeIsCharged'
  BY <1>1 DEF Read, StableTreeIsCharged
<1> QED  BY <1>2, <1>3, <1>4 DEF SInv

\* A complete round of a stable tree holds the first sample and, beside it,
\* what was burned between the end of that and the round's scan.
LEMMA RoundCoversBoth ==
  ASSUME SInv, Stable, pc = "read", todo = {}, count > 0
  PROVE  Cardinality(read) >= Cardinality(first) + Cardinality(scanned \ opened)
<1> DEFINE late == scanned \ opened
<1>1. first \cup late \subseteq read /\ first \cap late = {}
  BY DEF SInv, Covered, FirstIsOld
<1>2. /\ read \in SUBSET (Pids \X (1 .. MaxTicks))
      /\ first \in SUBSET (Pids \X (1 .. MaxTicks))
      /\ late \in SUBSET (Pids \X (1 .. MaxTicks))
  BY DEF SInv, IInv, TypeOK
<1>3. /\ IsFiniteSet(first) /\ IsFiniteSet(late) /\ IsFiniteSet(read)
      /\ Cardinality(first) \in Nat /\ Cardinality(late) \in Nat /\ Cardinality(read) \in Nat
  BY <1>2, TicksFinite
<1> HIDE DEF late
<1>4. Cardinality(first \cup late) = Cardinality(first) + Cardinality(late)
  <2>1. Cardinality(first \cup late) =
          Cardinality(first) + Cardinality(late) - Cardinality(first \cap late)
    BY <1>3, FS_Union
  <2>2. Cardinality(first \cap late) = 0
    BY <1>1, FS_EmptySet
  <2> QED  BY <1>3, <2>1, <2>2
<1>5. Cardinality(first \cup late) <= Cardinality(read)
  BY <1>1, <1>3, FS_Subset
<1> QED  BY <1>3, <1>4, <1>5 DEF late

LEMMA StableAppendStep == ASSUME SInv, IInv', Append PROVE SInv'
<1>1. UNCHANGED <<treeVars, stop, todo, base, scanned>> /\ pc = "read" /\ pc' = "sleep" /\ todo = {}
  BY DEF Append
<1>2. Together'
  BY <1>1 DEF SInv, Together, Stable, Present, Descendants, treeVars
<1>3. FirstIsOld'
  BY DEF Append, SInv, IInv, TypeOK, FirstIsOld
<1>4. Covered'
  BY <1>1 DEF Covered
<1>5. StableTreeIsCharged'
  <2> SUFFICES ASSUME Stable, count > 0
               PROVE  StableTreeIsCharged'
    BY <1>1 DEF StableTreeIsCharged, Stable, Usable, Append, treeVars, SInv, IInv, TypeOK
  <2>1. Cardinality(read) >= Cardinality(first) + Cardinality(scanned \ opened)
    BY <1>1, RoundCoversBoth
  <2>2. /\ read \in SUBSET (Pids \X (1 .. MaxTicks))
        /\ first \in SUBSET (Pids \X (1 .. MaxTicks))
        /\ scanned \ opened \in SUBSET (Pids \X (1 .. MaxTicks))
    BY DEF SInv, IInv, TypeOK
  <2>3. /\ Cardinality(read) \in Nat /\ Cardinality(first) \in Nat
        /\ Cardinality(scanned \ opened) \in Nat
    BY <2>2, TicksFinite
  <2>4. peak' >= Cardinality(read) /\ peak' \in Nat /\ first' = first /\ opened' = opened
    BY <2>3 DEF Append, PeakCpu, SInv, IInv, TypeOK
  <2> QED  BY <1>1, <2>1, <2>3, <2>4 DEF StableTreeIsCharged, CpuSeconds
<1> QED  BY <1>2, <1>3, <1>4, <1>5 DEF SInv

LEMMA StableIdleStep ==
  ASSUME SInv, IInv',
         \/ InstallHandlers \/ Terminate \/ NoStats \/ Wake \/ LoopEnds \/ Write
  PROVE  SInv'
<1>1. UNCHANGED <<treeVars, roundVars, seriesVars, histVars>>
  BY DEF InstallHandlers, Terminate, NoStats, Wake, LoopEnds, Write
<1>2. pc' = pc \/ pc' \notin {"read", "sleep"}
  BY DEF InstallHandlers, Terminate, NoStats, Wake, LoopEnds, Write
<1>3. Together'
  BY <1>1 DEF SInv, Together, Stable, Present, Descendants, treeVars
<1>4. FirstIsOld' /\ Covered' /\ StableTreeIsCharged'
  BY <1>1, <1>2 DEF SInv, FirstIsOld, Covered, StableTreeIsCharged, Stable, Usable, CpuSeconds,
     treeVars, roundVars, seriesVars, histVars
<1> QED  BY <1>3, <1>4 DEF SInv

\* As long as no process of the tool has ended, its charge covers everything
\* burned between the end of the first sample and the last scan
\* (descendants 34-58, sample 189-214, summarize 232).
THEOREM StableCharge == Spec => []StableTreeIsCharged
<1>1. Init => SInv
  <2> SUFFICES ASSUME Init PROVE SInv  OBVIOUS
  <2>1. IInv  BY InitIInv
  <2>2. Present \subseteq {Root}  BY DEF Init, Present
  <2>3. Together  BY <2>2, TreeInPids DEF Together
  <2> QED  BY <2>1, <2>3 DEF Init, SInv, FirstIsOld, Covered, StableTreeIsCharged
<1>2. IInv /\ IInv' /\ SInv /\ [Next]_vars => SInv'
  <2> SUFFICES ASSUME IInv', SInv, [Next]_vars PROVE SInv'  OBVIOUS
  <2>1. CASE Tree
    BY <2>1, StableTreeStep DEF Tree
  <2>2. CASE Sampler
    BY <2>2, StableIdleStep, StableScanStep, StableReadStep, StableAppendStep DEF Sampler
  <2>3. CASE Terminate
    BY <2>3, StableIdleStep
  <2>4. CASE UNCHANGED vars
    <3>1. Together'
      BY <2>4 DEF SInv, Together, Stable, Present, Descendants, vars, treeVars
    <3> QED  BY <2>4, <3>1 DEF SInv, FirstIsOld, Covered, StableTreeIsCharged, Stable, Usable,
         CpuSeconds, vars, treeVars, roundVars, seriesVars, histVars
  <2> QED  BY <2>1, <2>2, <2>3, <2>4 DEF Next
<1>3. SInv => StableTreeIsCharged  BY DEF SInv
<1> QED  BY <1>1, <1>2, <1>3, InvariantHolds, PTL DEF Spec

-----------------------------------------------------------------------------
(* The refinement run_one relies on *)

\* The wrapper is missed by a round only when it is gone, and the sampler
\* writes only after a signal or such a round.
RootWatch ==
  /\ proc[Root] # "unborn"
  /\ pc = "read" /\ Root \notin todo /\ Root \notin found => proc[Root] = "gone"
  /\ pc = "write" => stop \/ proc[Root] = "gone"

\* A process that is gone stays gone, whoever forks.
LEMMA WatchTreeStep ==
  ASSUME TypeOK, RootWatch, Tree
  PROVE  /\ pc' = pc /\ stop' = stop /\ todo' = todo /\ found' = found
         /\ proc[Root] = "gone" => proc'[Root] = "gone"
         /\ RootWatch'
<1> USE DEF RootWatch, roundVars, seriesVars, histVars
<1>0. proc \in [Pids -> ProcStates] /\ Root \in Pids
  BY DEF TypeOK
<1>1. PICK p \in Pids : Burn(p) \/ Exit(p) \/ Reap(p) \/ \E c \in Pids : Fork(p, c)
  BY DEF Tree
<1>2. pc' = pc /\ stop' = stop /\ todo' = todo /\ found' = found
  BY <1>1 DEF Burn, Exit, Reap, Fork
<1>3. proc'[Root] # "unborn" /\ (proc[Root] = "gone" => proc'[Root] = "gone")
  <2>1. CASE Burn(p)
    BY <2>1 DEF Burn
  <2>2. CASE Exit(p)
    BY <1>0, <2>2 DEF Exit
  <2>3. CASE Reap(p)
    BY <1>0, <2>3 DEF Reap
  <2>4. CASE \E c \in Pids : Fork(p, c)
    BY <1>0, <2>4 DEF Fork
  <2> QED BY <1>1, <2>1, <2>2, <2>3, <2>4
<1> QED BY <1>2, <1>3

LEMMA WatchKept == IInv /\ RootWatch /\ [Next]_vars => RootWatch'
<1> SUFFICES ASSUME IInv, RootWatch, [Next]_vars PROVE RootWatch'
  OBVIOUS
<1>0. TypeOK /\ Root \in Pids
  BY DEF IInv
<1> USE DEF treeVars, roundVars, seriesVars, histVars
<1>1. CASE Tree
  BY <1>0, <1>1, WatchTreeStep
<1>2. CASE Scan
  <2>1. todo' = Descendants /\ proc' = proc /\ pc' = "read"
    BY <1>2 DEF Scan
  <2> QED BY <2>1, TreeInPids DEF RootWatch
<1>3. ASSUME NEW p \in Pids, Read(p) PROVE RootWatch'
  <2>1. /\ todo' = todo \ {p} /\ found' = found \cup Found(p) /\ proc' = proc /\ pc' = pc
        /\ stop' = stop
    BY <1>3 DEF Read
  <2>2. proc[Root] \in {"running", "zombie", "gone"}
    BY <1>0 DEF TypeOK, ProcStates, RootWatch
  <2>3. p = Root => Root \in found' \/ proc[Root] = "gone"
    BY <1>0, <2>1, <2>2 DEF Found, Present
  <2> QED BY <2>1, <2>3 DEF RootWatch
<1>4. CASE InstallHandlers \/ Append \/ Wake \/ Write
  BY <1>4 DEF InstallHandlers, Append, Wake, Write, RootWatch
<1>5. CASE NoStats \/ LoopEnds
  BY <1>5 DEF NoStats, LoopEnds, RootWatch
<1>6. CASE Terminate
  BY <1>6 DEF Terminate, RootWatch
<1>7. CASE UNCHANGED vars
  BY <1>7 DEF vars, RootWatch
<1> QED BY <1>1, <1>2, <1>3, <1>4, <1>5, <1>6, <1>7 DEF Next, Sampler

\* Every step of the sampler and its surroundings is one of the abstract job,
\* or leaves it alone.
LEMMA StepOfJob == IInv /\ RootWatch /\ [Next]_vars => [Job!Next]_(Job!vars)
<1> SUFFICES ASSUME IInv, RootWatch, [Next]_vars PROVE [Job!Next]_(Job!vars)
  OBVIOUS
<1>0. TypeOK
  BY DEF IInv
<1> DEFINE at(c) == CASE c = "boot" -> "boot" [] c = "done" -> "done"
                      [] c = "killed" -> "killed" [] OTHER -> "loop"
           job == [at |-> at(pc), stop |-> stop]
<1> USE DEF treeVars, roundVars, seriesVars, histVars
<1>u. ASSUME proc' = proc, stop' = stop, at(pc') = at(pc) PROVE UNCHANGED Job!vars
  BY <1>u DEF Job!vars
<1>1. CASE Tree
  <2>1. pc' = pc /\ stop' = stop /\ (proc[Root] = "gone" => proc'[Root] = "gone")
    BY <1>0, <1>1, WatchTreeStep
  <2>2. job' = job
    BY <2>1
  <2>3. CASE proc'[Root] = "gone"
    BY <2>2, <2>3, Zenon DEF Job!Next
  <2>4. CASE proc'[Root] # "gone"
    <3>1. (proc[Root] = "gone")' = (proc[Root] = "gone")
      BY <2>1, <2>4
    <3> QED BY <2>2, <3>1, Zenon DEF Job!vars
  <2> QED BY <2>3, <2>4
<1>2. CASE Scan \/ (\E p \in Pids : Read(p)) \/ Append \/ NoStats \/ Wake \/ LoopEnds
  <2>1. proc' = proc /\ stop' = stop /\ at(pc) = "loop" /\ at(pc') = "loop"
    BY <1>2 DEF Scan, Read, Append, NoStats, Wake, LoopEnds
  <2> HIDE DEF at
  <2> QED BY <1>u, <2>1
<1>3. CASE InstallHandlers
  <2>1. job.at = "boot" /\ job' = [at |-> "loop", stop |-> job.stop] /\ proc' = proc
    BY <1>3 DEF InstallHandlers
  <2> QED BY <2>1 DEF Job!Next, Job!Runs, Job!Install, Job!At
<1>4. CASE Write
  <2>1. job.at = "loop" /\ job' = [at |-> "done", stop |-> job.stop] /\ proc' = proc
        /\ (job.stop \/ proc[Root] = "gone")
    BY <1>4 DEF Write, RootWatch
  <2> QED BY <2>1 DEF Job!Next, Job!Runs, Job!Finish, Job!At
<1>5. CASE Terminate
  <2>1. CASE pc = "boot"
    <3>1. job.at = "boot" /\ job' = [at |-> "killed", stop |-> job.stop] /\ proc' = proc
      BY <1>5, <2>1 DEF Terminate
    <3> QED BY <3>1 DEF Job!Next, Job!Signal, Job!At
  <2>2. CASE pc # "boot"
    <3>1. job.at = "loop" /\ job' = [at |-> "loop", stop |-> TRUE] /\ proc' = proc
      BY <1>5, <2>2 DEF Terminate
    <3> QED BY <3>1 DEF Job!Next, Job!Signal
  <2> QED BY <2>1, <2>2
<1>6. CASE UNCHANGED vars
  BY <1>6, <1>u DEF vars
<1> QED BY <1>1, <1>2, <1>3, <1>4, <1>5, <1>6 DEF Next, Sampler

\* What run_one builds on, without the fairness: the sampler is a background
\* job that a signal ends, and that never ends by itself while the tool lives.
THEOREM ImplementsBackgroundJob == Spec => Job!Spec
<1>1. Init => Job!Init /\ RootWatch
  <2> SUFFICES ASSUME Init PROVE Job!Init /\ RootWatch
    OBVIOUS
  <2>1. pc = "boot" /\ stop = FALSE /\ proc[Root] = "running"
    BY DEF Init
  <2>2. (proc[Root] = "gone") = FALSE
    BY <2>1
  <2> QED BY <2>1, <2>2 DEF Job!Init, Job!Started, RootWatch
<1>2. Spec => []RootWatch
  BY <1>1, WatchKept, InvariantHolds, PTL DEF Spec
<1> QED BY <1>1, <1>2, StepOfJob, InvariantHolds, PTL DEF Spec, Job!Spec
-----------------------------------------------------------------------------
(* What the fairness of the job rests on *)

\* The sampler has been told to end, or what it observes is gone.
Told == stop \/ proc[Root] = "gone"

\* A round that finds nobody, in which NoStats will end the series.
LastRound == found = {} /\ \A p \in todo : proc[p] = "gone"

\* The steps the sampler has left at most, from then on.
Budget ==
  CASE pc \in {"done", "killed"} -> 0
    [] pc = "write" -> 1
    [] pc = "read"  -> Cardinality(todo) + (IF LastRound THEN 2 ELSE Cardinality(Pids) + 6)
    [] pc = "loop"  -> Cardinality(Pids) + 4
    [] pc \in {"boot", "sleep"} -> Cardinality(Pids) + 5

Spends == Told => /\ Budget \in Nat /\ Budget' <= Budget
                  /\ Sampler => Budget' < Budget

\* A wrapper that has exited has left no children behind.
RootChildless == proc[Root] \in {"zombie", "gone"} => \A q \in Present : parent[q] # Root

LEMMA RootChildlessKept == TypeOK /\ RootChildless /\ [Next]_vars => RootChildless'
<1> SUFFICES ASSUME TypeOK, RootChildless, [Next]_vars PROVE RootChildless'
  OBVIOUS
<1> USE DEF RootChildless, Present, TypeOK, ProcStates, treeVars
<1>1. CASE Tree
  <2>1. PICK p \in Pids : Burn(p) \/ Exit(p) \/ Reap(p) \/ \E c \in Pids : Fork(p, c)
    BY <1>1 DEF Tree
  <2>2. CASE Burn(p)
    BY <2>2 DEF Burn
  <2>3. CASE Exit(p)
    BY <2>3 DEF Exit
  <2>4. CASE Reap(p)
    BY <2>4 DEF Reap
  <2>5. CASE \E c \in Pids : Fork(p, c)
    BY <2>5 DEF Fork
  <2> QED BY <2>1, <2>2, <2>3, <2>4, <2>5
<1>2. CASE Sampler \/ Terminate \/ UNCHANGED vars
  BY <1>2 DEF Sampler, Terminate, InstallHandlers, Scan, Read, Append, NoStats, Wake, LoopEnds,
     Write, vars
<1> QED BY <1>1, <1>2 DEF Next

\* Once the wrapper is gone a scan finds nobody.
LEMMA NobodyIsLeft ==
  ASSUME RootChildless, proc[Root] = "gone"
  PROVE  Descendants \subseteq {Root}
<1>1. \A q \in Present : parent[q] \in {Root} => q \in {Root}
  BY DEF RootChildless
<1>2. {Root} \in SUBSET Pids /\ Root \in {Root}
  OBVIOUS
<1> QED BY <1>1, <1>2 DEF Descendants

\* The sampler ends: from the signal on, or from the moment the wrapper is gone, it has
\* only so many steps left, whatever the tree does meanwhile; for any set of processes
\* (sample_proc.py 179-219).
THEOREM SamplerHasABudget == Spec => [][Spends]_vars
<1>1. TypeOK /\ TypeOK' /\ RootChildless /\ [Next]_vars => [Spends]_vars
  <2> SUFFICES ASSUME TypeOK, TypeOK', RootChildless, Next, Told PROVE
         Budget \in Nat /\ Budget' <= Budget /\ (Sampler => Budget' < Budget)
    BY DEF Spends
  <2> DEFINE N == Cardinality(Pids)
  <2>1. /\ \A S \in SUBSET Pids : Cardinality(S) \in 0 .. N
        /\ N \in Nat /\ Cardinality(todo) \in 0 .. N /\ Cardinality(todo)' \in 0 .. N
    BY FS_Subset, FS_CardinalityType DEF TypeOK
  <2>2. Budget \in Nat
    BY <2>1 DEF Budget, TypeOK
  <2> HIDE DEF N
  <2>3. ASSUME Tree \/ Terminate PROVE Budget' <= Budget
    <3>1. /\ pc' = pc \/ (pc' = "killed" /\ pc = "boot")
          /\ todo' = todo /\ found' = found
          /\ \A p \in Pids : proc[p] = "gone" => proc'[p] = "gone"
      BY <2>3 DEF Tree, Terminate, Burn, Exit, Reap, Fork, TypeOK, ProcStates, roundVars, treeVars
    <3>2. LastRound => LastRound'
      BY <3>1 DEF LastRound, TypeOK
    <3> QED BY <2>1, <3>1, <3>2 DEF Budget, TypeOK, N
  <2>4. ASSUME Sampler PROVE Budget' < Budget
    <3>1. CASE InstallHandlers \/ Wake \/ LoopEnds \/ Write
      BY <2>1, <3>1 DEF InstallHandlers, Wake, LoopEnds, Write, Budget, N
    <3>2. CASE Scan
      <4>1. LastRound' /\ todo' \in SUBSET Pids /\ pc = "loop" /\ pc' = "read"
        BY <3>2, NobodyIsLeft DEF Scan, Told, LastRound, treeVars
      <4> QED BY <2>1, <4>1 DEF Budget, N
    <3>3. ASSUME NEW p \in Pids, Read(p) PROVE Budget' < Budget
      <4>1. /\ Cardinality(todo') = Cardinality(todo) - 1
            /\ pc = "read" /\ pc' = "read"
        BY <3>3, FS_Subset, FS_RemoveElement DEF Read, TypeOK
      <4>2. LastRound => LastRound'
        BY <3>3 DEF Read, LastRound, Found, Present, treeVars
      <4> QED BY <2>1, <4>1, <4>2 DEF Budget, N
    <3>4. CASE Append
      <4>1. ~LastRound /\ pc = "read" /\ pc' = "sleep"
        BY <3>4 DEF Append, LastRound
      <4> QED BY <2>1, <4>1 DEF Budget, N
    <3>5. CASE NoStats
      <4>1. LastRound /\ pc = "read" /\ pc' = "write"
        BY <3>5 DEF NoStats, LastRound
      <4> QED BY <2>1, <4>1 DEF Budget, N
    <3> QED BY <2>4, <3>1, <3>2, <3>3, <3>4, <3>5 DEF Sampler
  <2>5. Budget' \in Nat
    BY <2>1 DEF Budget, TypeOK, N
  <2> QED BY <2>2, <2>3, <2>4, <2>5 DEF Next
<1>2. Init => RootChildless
  BY DEF Init, RootChildless
<1>3. Spec => []RootChildless
  BY <1>2, RootChildlessKept, TypeCorrect, PTL DEF Spec
<1> QED BY <1>1, <1>3, TypeCorrect, PTL DEF Spec
=============================================================================
