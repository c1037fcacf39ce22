---------------------------- MODULE MatrixProofs ----------------------------
(***************************************************************************)
(* Proofs about Matrix, for any plan and any number of faults.             *)
(***************************************************************************)
EXTENDS Matrix, TLAPS, SequenceTheorems, FiniteSetTheorems

\* Where the restart of a line has been made and its run has not.
Restarted == {"wait", "warm", "before", "load"}

\* JVM j has served none of the runs made so far.
Unused(j) == \A n \in DOMAIN log : log[n].jvm < j

\* JVMs are numbered in the order they are started, and every log is a list.
Numbered ==
  /\ spawned \in Nat /\ server \in 0 .. spawned /\ booting \subseteq 1 .. spawned
  /\ \E S : log \in Seq(S)
  /\ \A n \in DOMAIN log : log[n].jvm \in 0 .. spawned

\* After a restart that was not reported as failed, whoever answers or is about
\* to answer is unused.
ServerIsUnused ==
  restart = "command" /\ pc \in Restarted /\ ~warned =>
    /\ server # 0 => Unused(server)
    /\ \A j \in booting : Unused(j)

FreshInv == Numbered /\ ServerIsUnused /\ FreshOrWarned

LEMMA InitiallyFresh == Init => FreshInv
<1> SUFFICES ASSUME Init PROVE FreshInv
  OBVIOUS
<1>1. log = <<>> /\ DOMAIN log = {} /\ log \in Seq({})
  BY DEF Init
<1>2. server \in {0, 1} /\ spawned = server /\ booting = {} /\ pc = "cell"
  BY DEF Init
<1> QED BY <1>1, <1>2 DEF FreshInv, Numbered, ServerIsUnused, FreshOrWarned, Restarted

\* A step that leaves the log alone and starts at most one JVM, the next number.
LEMMA NumberedKept ==
  ASSUME Numbered, log' = log, spawned' \in {spawned, spawned + 1},
         server' \in 0 .. spawned', booting' \subseteq 1 .. spawned'
  PROVE  Numbered'
<1>1. spawned \in Nat /\ spawned' \in Nat /\ spawned <= spawned'
  BY DEF Numbered
<1>2. \A x \in 0 .. spawned : x \in 0 .. spawned'
  BY <1>1
<1>3. \A n \in DOMAIN log' : log'[n].jvm \in 0 .. spawned'
  BY <1>2 DEF Numbered
<1> QED BY <1>1, <1>3 DEF Numbered

\* The next number is unused.
LEMMA NextIsUnused == Numbered => Unused(spawned + 1)
BY DEF Numbered, Unused

\* The one step that makes a run.
LEMMA LoadKeepsFresh == FreshInv /\ Load => FreshInv'
<1> SUFFICES ASSUME FreshInv, Load PROVE FreshInv'
  OBVIOUS
<1>1. PICK wrote \in BOOLEAN :
        log' = Append(log, [cell |-> cell, line |-> entry, jvm |-> server,
                            warned |-> warned, wrote |-> wrote])
  BY DEF Load
<1> DEFINE made == [cell |-> cell, line |-> entry, jvm |-> server,
                    warned |-> warned, wrote |-> wrote]
<1>2. PICK S : log \in Seq(S)
  BY DEF FreshInv, Numbered
<1>3. log \in Seq(S \cup {made}) /\ made \in S \cup {made}
  BY <1>2
<1>4. /\ log' \in Seq(S \cup {made})
      /\ Len(log) \in Nat /\ DOMAIN log = 1 .. Len(log) /\ DOMAIN log' = 1 .. Len(log) + 1
      /\ \A n \in 1 .. Len(log) : log'[n] = log[n]
      /\ log'[Len(log) + 1] = made
  BY <1>1, <1>3
<1>5. pc = "load" /\ pc' = "after" /\ spawned' = spawned /\ server' = server
      /\ booting' = booting /\ restart' = restart
  BY DEF Load, Give, Go, serverVars
<1>6. Numbered'
  <2>1. made.jvm \in 0 .. spawned
    BY DEF FreshInv, Numbered
  <2>2. \A n \in DOMAIN log' : log'[n].jvm \in 0 .. spawned
    BY <1>4, <2>1 DEF FreshInv, Numbered
  <2> QED BY <1>4, <1>5, <2>2 DEF FreshInv, Numbered
<1>7. ServerIsUnused'
  BY <1>5 DEF ServerIsUnused, Restarted
<1>8. FreshOrWarned'
  <2> SUFFICES ASSUME restart = "command", NEW n \in DOMAIN log', ~log'[n].warned,
                      log'[n].jvm # 0, NEW k \in 1 .. n - 1
               PROVE  log'[k].jvm # log'[n].jvm
    BY <1>5 DEF FreshOrWarned
  <2>1. k \in 1 .. Len(log) /\ log'[k] = log[k]
    BY <1>4
  <2>2. CASE n \in 1 .. Len(log)
    BY <1>4, <2>1, <2>2 DEF FreshInv, FreshOrWarned
  <2>3. CASE n = Len(log) + 1
    <3>1. log'[n].jvm = server /\ ~warned /\ server # 0
      BY <1>4, <2>3
    <3>2. log[k].jvm < server
      BY <1>4, <1>5, <2>1, <3>1 DEF FreshInv, ServerIsUnused, Restarted, Unused
    <3>3. log[k].jvm \in Nat /\ server \in Nat
      BY <1>4, <2>1 DEF FreshInv, Numbered
    <3> QED BY <2>1, <3>1, <3>2, <3>3
  <2> QED BY <1>4, <2>2, <2>3
<1> QED BY <1>6, <1>7, <1>8 DEF FreshInv

\* All other steps keep it.
LEMMA FreshKept == FreshInv /\ [Next]_vars => FreshInv'
<1> SUFFICES ASSUME FreshInv, [Next]_vars PROVE FreshInv'
  OBVIOUS
<1>n. Numbered /\ ServerIsUnused /\ FreshOrWarned
  BY DEF FreshInv
<1>t. /\ spawned \in Nat /\ server \in 0 .. spawned /\ booting \subseteq 1 .. spawned
      /\ spawned \in 0 .. spawned /\ spawned + 1 \in 0 .. spawned + 1
      /\ booting \subseteq 1 .. spawned + 1
      /\ booting \cup {spawned + 1} \subseteq 1 .. spawned + 1
      /\ server \in 0 .. spawned + 1 /\ 0 \in 0 .. spawned /\ 0 \in 0 .. spawned + 1
  BY <1>n DEF Numbered
<1>f. log' = log /\ restart' = restart => FreshOrWarned'
  BY <1>n DEF FreshOrWarned
<1>u. log' = log => \A j : Unused(j) => Unused(j)'
  BY DEF Unused
<1>next. Unused(spawned + 1)
  BY <1>n, NextIsUnused
\* Steps of the script that touch neither the server nor the log.
<1>s. ASSUME UNCHANGED serverVars, log' = log, restart' = restart,
             pc' \in Restarted => pc \in Restarted \/ restart # "command",
             pc' \in Restarted => warned' = warned
      PROVE  FreshInv'
  <2>1. Numbered'
    BY <1>s, <1>n, <1>t, NumberedKept DEF serverVars
  <2>2. ServerIsUnused'
    BY <1>s, <1>n, <1>u DEF serverVars, ServerIsUnused
  <2> QED BY <1>s, <1>f, <2>1, <2>2 DEF FreshInv
<1> USE DEF Go, Give, Restarted
<1>1. CASE NextCell
  BY <1>1, <1>s DEF NextCell, resultVars
<1>2. CASE LastCell \/ EndOfPlan \/ NoRestart \/ Healthy \/ Warm \/ ScrapeBefore \/ ScrapeAfter
           \/ NotNormalized
  BY <1>2, <1>s DEF LastCell, EndOfPlan, NoRestart, Healthy, Warm, ScrapeBefore, ScrapeAfter,
     NotNormalized, resultVars
<1>3. CASE ReadLine
  BY <1>3, <1>s DEF ReadLine, resultVars
<1>4. CASE HealthTimeout \/ ScrapeFails
  BY <1>4, <1>s DEF HealthTimeout, ScrapeFails, Abort, resultVars
<1>5. CASE Normalize \/ Analyze
  BY <1>5, <1>s DEF Normalize, Analyze, resultVars
<1>6. CASE Load
  BY <1>6, LoadKeepsFresh
<1>7. CASE RestartSucceeds
  <2>1. Numbered'
    BY <1>7, <1>n, <1>t, NumberedKept DEF RestartSucceeds, resultVars
  <2>2. ServerIsUnused'
    BY <1>7, <1>u, <1>next DEF RestartSucceeds, resultVars, ServerIsUnused
  <2> QED BY <1>7, <1>f, <2>1, <2>2 DEF FreshInv, RestartSucceeds, resultVars
<1>8. CASE RestartFails
  <2>1. Numbered'
    BY <1>8, <1>n, <1>t, NumberedKept DEF RestartFails, resultVars
  <2>2. ServerIsUnused'
    BY <1>8 DEF RestartFails, ServerIsUnused
  <2> QED BY <1>8, <1>f, <2>1, <2>2 DEF FreshInv, RestartFails, resultVars
<1>9. CASE StartJar
  <2>1. Numbered'
    BY <1>9, <1>n, <1>t, NumberedKept DEF StartJar, resultVars
  <2>2. ServerIsUnused'
    BY <1>9 DEF StartJar, ServerIsUnused
  <2> QED BY <1>9, <1>f, <2>1, <2>2 DEF FreshInv, StartJar, resultVars
<1>10. CASE Die
  <2>1. Numbered'
    BY <1>10, <1>n, <1>t, NumberedKept DEF Die, resultVars
  <2>2. ServerIsUnused'
    BY <1>10, <1>n, <1>u, <1>next DEF Die, resultVars, scriptVars, ServerIsUnused
  <2> QED BY <1>10, <1>f, <2>1, <2>2 DEF FreshInv, Die, resultVars, scriptVars
<1>11. ASSUME NEW j \in booting, Listen(j) PROVE FreshInv'
  <2>1. Numbered'
    <3>1. j \in 0 .. spawned /\ booting' \subseteq 1 .. spawned
      BY <1>11, <1>t DEF Listen
    <3> QED BY <1>11, <1>n, <1>t, <3>1, NumberedKept DEF Listen, resultVars
  <2>2. ServerIsUnused'
    BY <1>11, <1>n, <1>u DEF Listen, resultVars, scriptVars, ServerIsUnused
  <2> QED BY <1>11, <1>f, <2>1, <2>2 DEF FreshInv, Listen, resultVars, scriptVars
<1>12. CASE UNCHANGED vars
  BY <1>12, <1>s DEF vars, scriptVars, resultVars
<1> QED BY <1>1, <1>2, <1>3, <1>4, <1>5, <1>6, <1>7, <1>8, <1>9, <1>10, <1>11, <1>12
        DEF Next, ScriptNext, TimedStep, CommandEnds, ServerNext

\* For any plan, any number of faults and any way to restart: a run made after a
\* restart that was not reported as failed meets a JVM no run has met before.
THEOREM RunsAreFresh == Spec => []FreshOrWarned
<1>1. FreshInv => FreshOrWarned
  BY DEF FreshInv
<1> QED BY <1>1, InitiallyFresh, FreshKept, PTL DEF Spec

-----------------------------------------------------------------------------
(* The cells *)

LEMMA ListLengths ==
  /\ Len(METHODS) \in Nat /\ Len(CONCURRENCY_LEVELS) \in Nat
  /\ Len(GHZ_CONNECTION_MODES) \in Nat /\ Len(RATE_LEVELS) \in Nat
BY ListsAssumption, LenProperties

LEMMA ClosedPlanIsSequence ==
  ASSUME NEW mm, NEW c, NEW r
  PROVE  \E S : ClosedPlan(mm, c, r) \in Seq(S)
<1> DEFINE g(i) == Line("ghz", mm, c, ConnectionsFor(GHZ_CONNECTION_MODES[i], c), r, 0)
           G == {g(i) : i \in 1 .. Len(GHZ_CONNECTION_MODES)}
           J == Line("jmeter", mm, c, c, r, 0)
           S == G \cup {J}
<1>1. [i \in 1 .. Len(GHZ_CONNECTION_MODES) |-> g(i)] \in Seq(S)
  <2>1. \A i \in 1 .. Len(GHZ_CONNECTION_MODES) : g(i) \in S
    OBVIOUS
  <2> HIDE DEF g, S
  <2> QED BY <2>1, ListLengths, IsASeq
<1>2. <<J>> \in Seq(S)
  OBVIOUS
<1>3. ClosedPlan(mm, c, r) = <<J>> \o [i \in 1 .. Len(GHZ_CONNECTION_MODES) |-> g(i)]
  BY DEF ClosedPlan
<1> HIDE DEF S, J, g
<1>4. <<J>> \o [i \in 1 .. Len(GHZ_CONNECTION_MODES) |-> g(i)] \in Seq(S)
  BY <1>1, <1>2, ConcatProperties
<1> QED BY <1>3, <1>4

LEMMA OpenPlanIsSequence ==
  ASSUME NEW rate, NEW r
  PROVE  \E S : OpenPlan(rate, r) \in Seq(S)
<1> DEFINE a == Line("jmeter", "echo", OPEN_LOOP_CONCURRENCY, OPEN_LOOP_CONCURRENCY, r, rate)
           b == Line("ghz", "echo", OPEN_LOOP_CONCURRENCY, 8, r, rate)
<1>1. <<a, b>> \in Seq({a, b})
  OBVIOUS
<1> QED BY <1>1 DEF OpenPlan

\* A list of lists, whatever the elements of each, is one over any set that holds
\* them all.
LEMMA ListOfLists ==
  ASSUME NEW F, NEW N \in Nat, F = [n \in 1 .. N |-> F[n]],
         \A n \in 1 .. N : \E S : F[n] \in Seq(S),
         NEW T, \A n \in 1 .. N : \A i \in DOMAIN F[n] : F[n][i] \in T
  PROVE  F \in Seq(Seq(T))
<1>1. ASSUME NEW n \in 1 .. N PROVE F[n] \in Seq(T)
  <2>1. PICK S : F[n] \in Seq(S)
    OBVIOUS
  <2>2. Len(F[n]) \in Nat /\ F[n] = [i \in 1 .. Len(F[n]) |-> F[n][i]]
    BY <2>1, LenProperties
  <2>3. \A i \in 1 .. Len(F[n]) : F[n][i] \in T
    BY <2>2
  <2>4. F[n] \in [1 .. Len(F[n]) -> T]
    BY <2>2, <2>3
  <2> QED BY <2>2, <2>4, SeqDef
<1>2. F \in [1 .. N -> Seq(T)]
  BY <1>1
<1> QED BY <1>2, SeqDef

LEMMA ClosedCellsAreLists ==
  \E N \in Nat : /\ ClosedCells = [n \in 1 .. N |-> ClosedCells[n]]
                 /\ \A n \in 1 .. N : \E S : ClosedCells[n] \in Seq(S)
<1> DEFINE N == Len(METHODS) * Len(CONCURRENCY_LEVELS) * REPEATS
<1>0. \A x, y \in Nat : x * y \in Nat
  OBVIOUS
<1>1. N \in Nat
  <2>1. Len(METHODS) * Len(CONCURRENCY_LEVELS) \in Nat
    BY <1>0, ListLengths
  <2> QED BY <1>0, <2>1, BoundsAssumption
<1>2. \A n \in 1 .. N : \E S : ClosedCells[n] \in Seq(S)
  BY ClosedPlanIsSequence DEF ClosedCells
<1>3. ClosedCells = [n \in 1 .. N |-> ClosedCells[n]]
  BY DEF ClosedCells
<1> QED BY <1>1, <1>2, <1>3

LEMMA OpenCellsAreLists ==
  \E N \in Nat : /\ OpenCells = [n \in 1 .. N |-> OpenCells[n]]
                 /\ \A n \in 1 .. N : \E S : OpenCells[n] \in Seq(S)
<1> DEFINE N == Len(RATE_LEVELS) * REPEATS
<1>0. \A x, y \in Nat : x * y \in Nat
  OBVIOUS
<1>1. N \in Nat
  BY <1>0, ListLengths, BoundsAssumption
<1>2. \A n \in 1 .. N : \E S : OpenCells[n] \in Seq(S)
  BY OpenPlanIsSequence DEF OpenCells
<1>3. OpenCells = [n \in 1 .. N |-> OpenCells[n]]
  BY DEF OpenCells
<1> QED BY <1>1, <1>2, <1>3

\* The cells are a list of lists of lines, for any profile.
LEMMA CellsAreLists == Cells \in Seq(Seq(Lines))
<1> DEFINE LinesOf(F) == UNION {{F[n][i] : i \in DOMAIN F[n]} : n \in DOMAIN F}
           T == LinesOf(ClosedCells) \cup LinesOf(OpenCells)
<1>1. ClosedCells \in Seq(Seq(T))
  <2>1. PICK N \in Nat : /\ ClosedCells = [n \in 1 .. N |-> ClosedCells[n]]
                         /\ \A n \in 1 .. N : \E S : ClosedCells[n] \in Seq(S)
    BY ClosedCellsAreLists
  <2>2. \A n \in 1 .. N : \A i \in DOMAIN ClosedCells[n] : ClosedCells[n][i] \in T
    BY <2>1
  <2> HIDE DEF T
  <2> QED BY <2>1, <2>2, ListOfLists
<1>2. OpenCells \in Seq(Seq(T))
  <2>1. PICK N \in Nat : /\ OpenCells = [n \in 1 .. N |-> OpenCells[n]]
                         /\ \A n \in 1 .. N : \E S : OpenCells[n] \in Seq(S)
    BY OpenCellsAreLists
  <2>2. \A n \in 1 .. N : \A i \in DOMAIN OpenCells[n] : OpenCells[n][i] \in T
    BY <2>1
  <2> HIDE DEF T
  <2> QED BY <2>1, <2>2, ListOfLists
<1> HIDE DEF T
<1>3. ClosedCells \o OpenCells \in Seq(Seq(T))
  BY <1>1, <1>2, ConcatProperties
<1>4. Cells \in Seq(Seq(T))
  BY <1>1, <1>2, <1>3, FamilyAssumption DEF Cells
<1>5. Len(Cells) \in Nat /\ Cells = [n \in 1 .. Len(Cells) |-> Cells[n]]
  BY <1>4, LenProperties
<1>6. \A n \in 1 .. Len(Cells) : \E S : Cells[n] \in Seq(S)
  BY <1>4, ElementOfSeq
<1>7. \A n \in 1 .. Len(Cells) : \A i \in DOMAIN Cells[n] : Cells[n][i] \in Lines
  BY <1>5 DEF Lines
<1> QED BY <1>5, <1>6, <1>7, ListOfLists

-----------------------------------------------------------------------------
(* Types *)

LEMMA DivBound ==
  ASSUME NEW a \in Nat, NEW b \in Nat, NEW c \in Nat, a < c * b
  PROVE  b > 0 /\ a \div b \in Nat /\ a \div b < c /\ a % b \in Nat /\ a % b < b
<1>1. b > 0
  <2>1. b = 0 => c * b = 0
    OBVIOUS
  <2> QED BY <2>1
<1>2. a = b * (a \div b) + (a % b) /\ a \div b \in Nat /\ a % b \in Nat /\ a % b < b
  BY <1>1
<1>3. ASSUME a \div b >= c PROVE FALSE
  <2> DEFINE q == a \div b
  <2>1. q \in Nat /\ q >= c /\ a >= b * q
    BY <1>2, <1>3
  <2> HIDE DEF q
  <2>2. PICK d \in Nat : q = c + d
    <3>1. q - c \in Nat /\ q = c + (q - c)
      BY <2>1
    <3> QED BY <3>1
  <2>3. b * q = c * b + b * d
    BY <2>2
  <2>4. b * d >= 0 /\ b * d \in Int /\ c * b \in Int
    OBVIOUS
  <2> QED BY <2>1, <2>3, <2>4
<1> QED BY <1>1, <1>2, <1>3

\* Place n of a list of lists, each as long as the innermost loop.
LEMMA PlaceIsThere ==
  ASSUME NEW n \in Nat, NEW x \in Nat, NEW y \in Nat, n \in 1 .. x * y
  PROVE  ((n - 1) \div y) + 1 \in 1 .. x /\ ((n - 1) % y) + 1 \in Nat
<1>1. n - 1 \in Nat /\ x * y \in Nat /\ n - 1 < x * y
  OBVIOUS
<1>2. (n - 1) \div y \in Nat /\ (n - 1) \div y < x /\ (n - 1) % y \in Nat
  BY <1>1, DivBound
<1> QED BY <1>2

\* The methods of closed-loop lines, of open-loop lines and of no line.
MethodType == {METHODS[i] : i \in DOMAIN METHODS} \cup {"echo", "none"}

LEMMA LineIsTyped ==
  ASSUME NEW t \in {"jmeter", "ghz", "none"}, NEW mm \in MethodType, NEW c \in Nat, NEW k \in Nat,
         NEW r \in Nat, NEW rate \in Nat
  PROVE  Line(t, mm, c, k, r, rate) \in LineType
BY DEF Line, LineType, MethodType

LEMMA ClosedPlanIsTyped ==
  ASSUME NEW mm \in MethodType, NEW c \in Nat, NEW r \in Nat
  PROVE  \A i \in DOMAIN ClosedPlan(mm, c, r) : ClosedPlan(mm, c, r)[i] \in LineType
<1> DEFINE g(i) == Line("ghz", mm, c, ConnectionsFor(GHZ_CONNECTION_MODES[i], c), r, 0)
           J == Line("jmeter", mm, c, c, r, 0)
<1>1. J \in LineType
  BY LineIsTyped
<1>2. ASSUME NEW i \in 1 .. Len(GHZ_CONNECTION_MODES) PROVE g(i) \in LineType
  <2>1. GHZ_CONNECTION_MODES[i] \in Nat \cup {Match}
    BY ListsAssumption, ElementOfSeq
  <2>2. ConnectionsFor(GHZ_CONNECTION_MODES[i], c) \in Nat
    BY <2>1 DEF ConnectionsFor
  <2> QED BY <2>2, LineIsTyped
<1>3. [i \in 1 .. Len(GHZ_CONNECTION_MODES) |-> g(i)] \in Seq(LineType)
  <2> HIDE DEF g
  <2> QED BY <1>2, ListLengths, IsASeq
<1>4. <<J>> \in Seq(LineType)
  <2> HIDE DEF J
  <2> QED BY <1>1
<1>5. ClosedPlan(mm, c, r) = <<J>> \o [i \in 1 .. Len(GHZ_CONNECTION_MODES) |-> g(i)]
  BY DEF ClosedPlan
<1> HIDE DEF J, g
<1>6. ClosedPlan(mm, c, r) \in Seq(LineType)
  BY <1>3, <1>4, <1>5, ConcatProperties
<1> QED BY <1>6, LenProperties, ElementOfSeq

LEMMA OpenPlanIsTyped ==
  ASSUME NEW rate \in Nat, NEW r \in Nat
  PROVE  \A i \in DOMAIN OpenPlan(rate, r) : OpenPlan(rate, r)[i] \in LineType
<1>1. /\ Line("jmeter", "echo", OPEN_LOOP_CONCURRENCY, OPEN_LOOP_CONCURRENCY, r, rate) \in LineType
      /\ Line("ghz", "echo", OPEN_LOOP_CONCURRENCY, 8, r, rate) \in LineType
  <2>1. OPEN_LOOP_CONCURRENCY \in Nat /\ 8 \in Nat
    BY ListsAssumption
  <2>2. "echo" \in MethodType
    BY DEF MethodType
  <2> QED BY <2>1, <2>2, LineIsTyped
<1> QED BY <1>1 DEF OpenPlan

LEMMA ClosedCellsAreTyped ==
  \A n \in DOMAIN ClosedCells : \A i \in DOMAIN ClosedCells[n] : ClosedCells[n][i] \in LineType
<1> DEFINE M == Len(METHODS)
           C == Len(CONCURRENCY_LEVELS)
<1>1. M \in Nat /\ C \in Nat /\ REPEATS \in Nat
  BY ListLengths, BoundsAssumption
<1> SUFFICES ASSUME NEW n \in DOMAIN ClosedCells
             PROVE  \A i \in DOMAIN ClosedCells[n] : ClosedCells[n][i] \in LineType
  OBVIOUS
<1> DEFINE p == (n - 1) \div REPEATS
           mm == METHODS[(p \div C) + 1]
           c == CONCURRENCY_LEVELS[(p % C) + 1]
           r == ((n - 1) % REPEATS) + 1
<1>2. n \in 1 .. (M * C) * REPEATS /\ ClosedCells[n] = ClosedPlan(mm, c, r)
  BY DEF ClosedCells
<1>3. M * C \in Nat /\ (M * C) * REPEATS \in Nat
  BY <1>1
<1>4. n \in Nat /\ n - 1 \in Nat /\ n - 1 < (M * C) * REPEATS
  BY <1>2, <1>3
<1>5. p \in Nat /\ p < M * C /\ (n - 1) % REPEATS \in Nat
  BY <1>1, <1>3, <1>4, DivBound
<1> HIDE DEF p
<1>6. p \div C \in Nat /\ p \div C < M /\ p % C \in Nat /\ p % C < C
  BY <1>1, <1>5, DivBound
<1>7. (p \div C) + 1 \in 1 .. M /\ (p % C) + 1 \in 1 .. C /\ r \in Nat
  <2>1. \A x, y \in Nat : x < y => x + 1 \in 1 .. y
    OBVIOUS
  <2>2. (p \div C) + 1 \in 1 .. M /\ (p % C) + 1 \in 1 .. C
    BY <1>1, <1>6, <2>1
  <2>3. \A x \in Nat : x + 1 \in Nat
    OBVIOUS
  <2>4. r \in Nat
    BY <1>5, <2>3
  <2> QED BY <2>2, <2>4
<1>8. c \in Nat
  BY <1>7, ListsAssumption, ElementOfSeq
<1>9. mm \in MethodType
  <2>1. DOMAIN METHODS = 1 .. M
    BY ListsAssumption, LenProperties
  <2> HIDE DEF M
  <2> QED BY <1>7, <2>1 DEF MethodType
<1> HIDE DEF mm, c, r
<1> QED BY <1>2, <1>7, <1>8, <1>9, ClosedPlanIsTyped

LEMMA OpenCellsAreTyped ==
  \A n \in DOMAIN OpenCells : \A i \in DOMAIN OpenCells[n] : OpenCells[n][i] \in LineType
<1> DEFINE R == Len(RATE_LEVELS)
<1>1. R \in Nat /\ REPEATS \in Nat
  BY ListLengths, BoundsAssumption
<1> SUFFICES ASSUME NEW n \in DOMAIN OpenCells
             PROVE  \A i \in DOMAIN OpenCells[n] : OpenCells[n][i] \in LineType
  OBVIOUS
<1> DEFINE rate == RATE_LEVELS[((n - 1) \div REPEATS) + 1]
           r == ((n - 1) % REPEATS) + 1
<1>2. n \in 1 .. R * REPEATS /\ OpenCells[n] = OpenPlan(rate, r)
  BY DEF OpenCells
<1>3. R * REPEATS \in Nat
  BY <1>1
<1>4. n \in Nat
  BY <1>2, <1>3
<1>5. ((n - 1) \div REPEATS) + 1 \in 1 .. R /\ r \in Nat
  BY <1>1, <1>2, <1>4, PlaceIsThere
<1>6. rate \in Nat
  BY <1>5, ListsAssumption, ElementOfSeq
<1> HIDE DEF rate, r
<1> QED BY <1>2, <1>5, <1>6, OpenPlanIsTyped

LEMMA LinesAreTyped == Lines \subseteq LineType
<1>1. CASE Family = "closed"
  BY <1>1, ClosedCellsAreTyped DEF Lines, Cells
<1>2. CASE Family = "open"
  BY <1>2, OpenCellsAreTyped DEF Lines, Cells
<1>3. CASE Family = "all"
  <2>1. PICK N \in Nat : /\ ClosedCells = [n \in 1 .. N |-> ClosedCells[n]]
                         /\ \A n \in 1 .. N : \E S : ClosedCells[n] \in Seq(S)
    BY ClosedCellsAreLists
  <2>2. PICK K \in Nat : /\ OpenCells = [n \in 1 .. K |-> OpenCells[n]]
                         /\ \A n \in 1 .. K : \E S : OpenCells[n] \in Seq(S)
    BY OpenCellsAreLists
  <2>3. ClosedCells \in Seq(Seq(LineType))
    <3>1. DOMAIN ClosedCells = 1 .. N
      BY <2>1
    <3> QED BY <2>1, <3>1, ClosedCellsAreTyped, ListOfLists
  <2>4. OpenCells \in Seq(Seq(LineType))
    <3>1. DOMAIN OpenCells = 1 .. K
      BY <2>2
    <3> QED BY <2>2, <3>1, OpenCellsAreTyped, ListOfLists
  <2>5. Cells \in Seq(Seq(LineType))
    BY <1>3, <2>3, <2>4, ConcatProperties DEF Cells
  <2>6. \A k \in DOMAIN Cells : \A i \in DOMAIN Cells[k] : Cells[k][i] \in LineType
    <3> SUFFICES ASSUME NEW k \in DOMAIN Cells, NEW i \in DOMAIN Cells[k]
                 PROVE  Cells[k][i] \in LineType
      OBVIOUS
    <3>1. k \in 1 .. Len(Cells)
      BY <2>5, LenProperties
    <3>2. Cells[k] \in Seq(LineType)
      BY <2>5, <3>1, ElementOfSeq
    <3>3. i \in 1 .. Len(Cells[k])
      BY <3>2, LenProperties
    <3> QED BY <3>2, <3>3, ElementOfSeq
  <2> QED BY <2>6 DEF Lines
<1> QED BY <1>1, <1>2, <1>3, FamilyAssumption

\* The script's own variables. A cell is under way until the loops end.
Underway == {"read", "start", "wait", "warm", "before", "load", "after", "normalize"}

ScriptTyped ==
  /\ restart \in Restarts /\ warned \in BOOLEAN
  /\ pc \in Underway \cup {"cell", "analyze", "done", "aborted"}
  /\ cell \in 0 .. Len(Cells) /\ (pc \in Underway => cell # 0)
  /\ plan \in Seq(Lines) /\ entry \in Lines \cup {NoLine}
  /\ pc \in Underway \ {"read"} => entry \in Lines

ServerTyped ==
  /\ spawned \in Nat /\ server \in 0 .. spawned /\ sutPid \in 0 .. spawned
  /\ booting \in SUBSET (1 .. spawned) /\ faults \in 0 .. MaxFaults

RunType(jvms) == [cell: 1 .. Len(Cells), line: Lines, jvm: 0 .. jvms,
                  warned: BOOLEAN, wrote: BOOLEAN]

ResultTyped ==
  /\ log \in Seq(RunType(spawned))
  /\ raw \in [Tags -> 0 .. Len(log)] /\ normalized \in [Tags -> 0 .. Len(log)]

Typed == ScriptTyped /\ ServerTyped /\ ResultTyped

LEMMA ShuffleIsTyped ==
  ASSUME NEW S, NEW s \in Seq(S), NEW t \in Shuffles(s) PROVE t \in Seq(S)
<1>1. PICK p \in [DOMAIN s -> DOMAIN s] : t = [i \in DOMAIN s |-> s[p[i]]]
  BY DEF Shuffles
<1>2. Len(s) \in Nat /\ DOMAIN s = 1 .. Len(s)
  BY LenProperties
<1>3. t \in [1 .. Len(s) -> S]
  BY <1>1, <1>2, ElementOfSeq
<1> QED BY <1>2, <1>3, SeqDef

\* A log stays one when more JVMs have been started.
LEMMA LogIsTyped ==
  ASSUME Typed, spawned' \in Nat, spawned <= spawned'
  PROVE  log \in Seq(RunType(spawned'))
<1>1. 0 .. spawned \subseteq 0 .. spawned'
  BY DEF Typed, ServerTyped
<1>2. RunType(spawned) \subseteq RunType(spawned')
  BY <1>1 DEF RunType
<1>3. \A S, T : S \subseteq T => Seq(S) \subseteq Seq(T)
  <2> SUFFICES ASSUME NEW S, NEW T, S \subseteq T, NEW s \in Seq(S) PROVE s \in Seq(T)
    OBVIOUS
  <2>1. Len(s) \in Nat /\ s \in [1 .. Len(s) -> S]
    BY LenProperties, ElementOfSeq
  <2>2. s \in [1 .. Len(s) -> T]
    BY <2>1
  <2> QED BY <2>1, <2>2, SeqDef
<1> QED BY <1>2, <1>3 DEF Typed, ResultTyped

LEMMA InitiallyTyped == Init => Typed
<1> SUFFICES ASSUME Init PROVE Typed
  OBVIOUS
<1>1. Len(Cells) \in Nat /\ MaxFaults \in Nat
  BY CellsAreLists, LenProperties, BoundsAssumption
<1>2. ScriptTyped
  <2>1. cell = 0 /\ 0 \in 0 .. Len(Cells) /\ plan = <<>> /\ plan \in Seq(Lines)
    BY <1>1 DEF Init
  <2>2. pc = "cell" /\ entry = NoLine /\ restart \in Restarts /\ warned = FALSE
    BY DEF Init
  <2> QED BY <2>1, <2>2 DEF ScriptTyped, Underway
<1>3. ServerTyped
  BY <1>1 DEF Init, ServerTyped
<1>4. log = <<>> /\ Len(log) = 0 /\ \A S : log \in Seq(S)
  BY DEF Init
<1>5. raw = [t \in Tags |-> 0] /\ normalized = [t \in Tags |-> 0]
  BY DEF Init
<1>6. ResultTyped
  BY <1>4, <1>5 DEF ResultTyped
<1> QED BY <1>2, <1>3, <1>6 DEF Typed

LEMMA LoadIsTyped == ASSUME Typed, Load PROVE Typed'
<1>1. PICK wrote \in BOOLEAN :
        /\ log' = Append(log, [cell |-> cell, line |-> entry, jvm |-> server,
                               warned |-> warned, wrote |-> wrote])
        /\ raw' = [raw EXCEPT ![Tag(entry)] =
                     IF wrote THEN Len(log) + 1 ELSE IF entry.tool = "jmeter" THEN 0 ELSE @]
  BY DEF Load
<1> DEFINE made == [cell |-> cell, line |-> entry, jvm |-> server,
                    warned |-> warned, wrote |-> wrote]
<1>2. made \in RunType(spawned)
  <2>1. cell \in 1 .. Len(Cells) /\ entry \in Lines /\ server \in 0 .. spawned /\ warned \in BOOLEAN
    <3>1. Len(Cells) \in Nat
      BY CellsAreLists, LenProperties
    <3> QED BY <3>1 DEF Load, Typed, ScriptTyped, ServerTyped, Underway
  <2> QED BY <2>1 DEF RunType
<1>3. log \in Seq(RunType(spawned)) /\ Len(log) \in Nat
  BY LenProperties DEF Typed, ResultTyped
<1> HIDE DEF made
<1>4. log' \in Seq(RunType(spawned)) /\ Len(log') = Len(log) + 1
  BY <1>1, <1>2, <1>3, AppendProperties DEF made
<1>5. \A x \in 0 .. Len(log) : x \in 0 .. Len(log')
  BY <1>3, <1>4
<1>6. Len(log) + 1 \in 0 .. Len(log') /\ 0 \in 0 .. Len(log')
  BY <1>3, <1>4
<1>7. raw' \in [Tags -> 0 .. Len(log')] /\ normalized' \in [Tags -> 0 .. Len(log')]
  <2>1. raw \in [Tags -> 0 .. Len(log')] /\ normalized \in [Tags -> 0 .. Len(log')]
    BY <1>5 DEF Typed, ResultTyped
  <2>2. normalized' = normalized
    BY DEF Load
  <2>3. raw' \in [Tags -> 0 .. Len(log')]
    BY <1>1, <1>6, <2>1
  <2> QED BY <2>1, <2>2, <2>3
<1>8. UNCHANGED <<restart, cell, plan, entry, warned, sutPid, server, booting, spawned, faults>>
      /\ pc = "load" /\ pc' = "after"
  BY DEF Load, Give, Go, serverVars
<1>9. ScriptTyped' /\ ServerTyped'
  BY <1>8 DEF Typed, ScriptTyped, ServerTyped, Underway
<1> QED BY <1>4, <1>7, <1>8, <1>9 DEF Typed, ResultTyped

\* Steps that leave the log alone.
LEMMA ResultsAreKept ==
  ASSUME Typed, ServerTyped', spawned <= spawned', UNCHANGED resultVars PROVE ResultTyped'
<1>1. log \in Seq(RunType(spawned'))
  BY LogIsTyped DEF ServerTyped
<1>2. RunType(spawned)' = RunType(spawned')
  BY DEF RunType
<1> QED BY <1>1, <1>2 DEF Typed, ResultTyped, resultVars

LEMMA TypedStep == Typed /\ [Next]_vars => Typed'
<1> SUFFICES ASSUME Typed, [Next]_vars PROVE Typed'
  OBVIOUS
<1> USE DEF Go, Give
<1>t. ScriptTyped /\ ServerTyped /\ ResultTyped
  BY DEF Typed
<1>c. Len(Cells) \in Nat /\ DOMAIN Cells = 1 .. Len(Cells)
  BY CellsAreLists, LenProperties
<1>s. spawned \in Nat /\ spawned <= spawned
  BY <1>t DEF ServerTyped
\* Steps that concern the script alone.
<1>o. ASSUME UNCHANGED serverVars, UNCHANGED resultVars, sutPid' \in {0, sutPid}, ScriptTyped'
      PROVE  Typed'
  <2>1. ServerTyped'
    BY <1>o, <1>t DEF ServerTyped, serverVars
  <2>2. spawned' = spawned
    BY <1>o DEF serverVars
  <2> QED BY <1>o, <1>s, <2>1, <2>2, ResultsAreKept DEF Typed
\* Steps that concern the server too.
<1>b. ASSUME UNCHANGED resultVars, ScriptTyped', ServerTyped', spawned' \in {spawned, spawned + 1}
      PROVE  Typed'
  <2>1. spawned <= spawned'
    BY <1>b, <1>s
  <2> QED BY <1>b, <2>1, ResultsAreKept DEF Typed
<1>n. \A x \in 0 .. spawned : x \in 0 .. spawned + 1
  BY <1>s
<1>m. /\ \A x \in 1 .. spawned : x \in 1 .. spawned + 1
      /\ spawned + 1 \in 1 .. spawned + 1 /\ spawned + 1 \in 0 .. spawned + 1
      /\ 0 \in 0 .. spawned + 1 /\ 0 \in 0 .. spawned /\ spawned + 1 \in Nat
  BY <1>s
<1>f. faults < MaxFaults => faults + 1 \in 0 .. MaxFaults
  BY <1>t, BoundsAssumption DEF ServerTyped
<1>1. CASE NextCell
  <2>1. cell + 1 \in 1 .. Len(Cells)
    BY <1>1, <1>c, <1>t DEF NextCell, ScriptTyped
  <2>2. Cells[cell + 1] \in Seq(Lines)
    BY <1>c, <2>1, CellsAreLists, ElementOfSeq
  <2>3. plan' \in Seq(Lines)
    BY <1>1, <2>2, ShuffleIsTyped DEF NextCell
  <2>4. cell' \in 0 .. Len(Cells) /\ cell' # 0
    BY <1>1, <1>c, <2>1 DEF NextCell
  <2>5. ScriptTyped'
    BY <1>1, <1>t, <2>3, <2>4 DEF NextCell, ScriptTyped, Underway
  <2> QED BY <1>1, <1>o, <2>5 DEF NextCell
<1>2. CASE LastCell \/ EndOfPlan \/ NoRestart \/ Healthy \/ Warm \/ ScrapeBefore \/ ScrapeAfter
           \/ NotNormalized \/ HealthTimeout \/ ScrapeFails \/ Analyze
  <2>1. UNCHANGED <<restart, cell, plan, entry, warned>> /\ sutPid' \in {0, sutPid}
    BY <1>2 DEF LastCell, EndOfPlan, NoRestart, Healthy, Warm, ScrapeBefore, ScrapeAfter,
       NotNormalized, HealthTimeout, ScrapeFails, Abort, Analyze
  <2>2. pc' \in Underway \cup {"cell", "analyze", "done", "aborted"}
        /\ (pc' \in Underway => pc \in Underway)
        /\ (pc' \in Underway \ {"read"} => pc \in Underway \ {"read"})
    BY <1>2 DEF LastCell, EndOfPlan, NoRestart, Healthy, Warm, ScrapeBefore, ScrapeAfter,
       NotNormalized, HealthTimeout, ScrapeFails, Abort, Analyze, Underway
  <2>3. ScriptTyped'
    BY <1>t, <2>1, <2>2 DEF ScriptTyped
  <2>4. UNCHANGED serverVars /\ UNCHANGED resultVars
    BY <1>2 DEF LastCell, EndOfPlan, NoRestart, Healthy, Warm, ScrapeBefore, ScrapeAfter,
       NotNormalized, HealthTimeout, ScrapeFails, Abort, Analyze
  <2> QED BY <1>o, <2>1, <2>3, <2>4
<1>3. CASE ReadLine
  <2>1. Head(plan) \in Lines /\ Tail(plan) \in Seq(Lines)
    BY <1>3, <1>t, HeadTailProperties DEF ReadLine, ScriptTyped
  <2>2. ScriptTyped'
    BY <1>3, <1>t, <2>1 DEF ReadLine, ScriptTyped, Underway
  <2> QED BY <1>3, <1>o, <2>2 DEF ReadLine
<1>4. CASE RestartSucceeds \/ RestartFails \/ StartJar
  <2>0. \A S : <<>> \in Seq(S)
    OBVIOUS
  <2>1. ScriptTyped'
    BY <1>4, <1>t, <2>0 DEF RestartSucceeds, RestartFails, StartJar, Stdin, ScriptTyped, Underway
  <2>2. ServerTyped' /\ spawned' \in {spawned, spawned + 1}
    <3>1. CASE RestartSucceeds
      BY <1>t, <1>n, <1>m, <3>1 DEF RestartSucceeds, ServerTyped
    <3>2. CASE RestartFails
      BY <1>t, <1>n, <1>m, <1>f, <3>2 DEF RestartFails, ServerTyped
    <3>3. CASE StartJar
      BY <1>t, <1>n, <1>m, <3>3 DEF StartJar, ServerTyped
    <3> QED BY <1>4, <3>1, <3>2, <3>3
  <2> QED BY <1>4, <1>b, <2>1, <2>2 DEF RestartSucceeds, RestartFails, StartJar
<1>5. CASE Normalize
  <2>1. ScriptTyped' /\ ServerTyped'
    BY <1>5, <1>t DEF Normalize, ScriptTyped, ServerTyped, serverVars, Underway
  <2>2. normalized' \in [Tags -> 0 .. Len(log)]
    BY <1>5, <1>t DEF Normalize, ScriptTyped, ResultTyped, Underway, Tags
  <2>3. UNCHANGED <<log, raw, spawned>>
    BY <1>5 DEF Normalize, serverVars
  <2> QED BY <1>t, <2>1, <2>2, <2>3 DEF Typed, ResultTyped, RunType
<1>6. CASE Load
  BY <1>6, LoadIsTyped
<1>7. CASE Die \/ \E j \in booting : Listen(j)
  <2>1. ScriptTyped' /\ UNCHANGED resultVars
    BY <1>7, <1>t DEF Die, Listen, scriptVars, ScriptTyped
  <2>2. ServerTyped' /\ spawned' \in {spawned, spawned + 1}
    <3>1. CASE Die
      BY <1>t, <1>n, <1>m, <1>f, <3>1 DEF Die, ServerTyped, scriptVars
    <3>2. ASSUME NEW j \in booting, Listen(j) PROVE ServerTyped' /\ spawned' = spawned
      <4>1. j \in 0 .. spawned
        BY <1>t, <1>s DEF ServerTyped
      <4> QED BY <1>t, <3>2, <4>1 DEF Listen, ServerTyped, scriptVars
    <3> QED BY <1>7, <3>1, <3>2
  <2> QED BY <1>b, <2>1, <2>2
<1>8. CASE UNCHANGED vars
  <2>1. ScriptTyped'
    BY <1>8, <1>t DEF vars, scriptVars, ScriptTyped
  <2> QED BY <1>8, <1>o, <2>1 DEF vars, scriptVars
<1> QED BY <1>1, <1>2, <1>3, <1>4, <1>5, <1>6, <1>7, <1>8
        DEF Next, ScriptNext, TimedStep, CommandEnds, ServerNext

\* Every variable keeps its type, for any profile.
THEOREM TypeCorrect == Spec => []TypeOK
<1>1. Typed => TypeOK
  <2> SUFFICES ASSUME Typed PROVE TypeOK
    OBVIOUS
  <2>1. NoLine \in LineType
    <3>1. "none" \in MethodType
      BY DEF MethodType
    <3> QED BY <3>1, LineIsTyped DEF NoLine
  <2>2. /\ entry \in LineType
        /\ \A i \in DOMAIN plan : plan[i] \in LineType
    <3>1. \A i \in DOMAIN plan : plan[i] \in Lines
      BY LenProperties, ElementOfSeq DEF Typed, ScriptTyped
    <3> QED BY <2>1, <3>1, LinesAreTyped DEF Typed, ScriptTyped
  <2>3. ASSUME NEW n \in DOMAIN log
        PROVE  log[n] \in [cell: 1 .. Len(Cells), line: LineType, jvm: 0 .. spawned,
                           warned: BOOLEAN, wrote: BOOLEAN]
    <3>1. log[n] \in RunType(spawned)
      BY LenProperties, ElementOfSeq DEF Typed, ResultTyped
    <3> QED BY <3>1, LinesAreTyped DEF RunType
  <2> QED BY <2>2, <2>3 DEF Typed, ScriptTyped, ServerTyped, ResultTyped, TypeOK, Underway
<1> QED BY <1>1, InitiallyTyped, TypedStep, PTL DEF Spec
-----------------------------------------------------------------------------
(* Counting *)

\* Where a line stands in a list, and how often.
Places(s, l) == {i \in DOMAIN s : s[i] = l}

LEMMA TimesIsNumber ==
  ASSUME NEW S, NEW s \in Seq(S), NEW l
  PROVE  IsFiniteSet(Places(s, l)) /\ Times(s, l) \in Nat /\ Times(s, l) = Cardinality(Places(s, l))
<1>1. Len(s) \in Nat /\ DOMAIN s = 1 .. Len(s)
  BY LenProperties
<1>2. IsFiniteSet(DOMAIN s) /\ Places(s, l) \in SUBSET DOMAIN s
  BY <1>1, FS_Interval DEF Places
<1>3. IsFiniteSet(Places(s, l))
  BY <1>2, FS_Subset
<1> QED BY <1>3, FS_CardinalityType DEF Places, Times

LEMMA TimesOfNothing == \A l : Times(<<>>, l) = 0
<1> SUFFICES ASSUME NEW l PROVE Times(<<>>, l) = 0
  OBVIOUS
<1>1. {i \in DOMAIN <<>> : <<>>[i] = l} = {}
  OBVIOUS
<1> QED BY <1>1, FS_EmptySet DEF Times

\* Taking the first line of a list.
LEMMA TimesOfTail ==
  ASSUME NEW S, NEW s \in Seq(S), s # <<>>, NEW l
  PROVE  Times(s, l) = Times(Tail(s), l) + (IF Head(s) = l THEN 1 ELSE 0)
<1>1. /\ Tail(s) \in Seq(S) /\ Len(Tail(s)) = Len(s) - 1 /\ Len(s) \in Nat \ {0}
      /\ \A i \in 1 .. Len(Tail(s)) : Tail(s)[i] = s[i + 1]
  BY HeadTailProperties, EmptySeq
<1>2. DOMAIN Tail(s) = 1 .. Len(s) - 1 /\ DOMAIN s = 1 .. Len(s) /\ Head(s) = s[1]
  BY <1>1, LenProperties
<1> DEFINE A == Places(Tail(s), l)
           B == {i \in DOMAIN s : i # 1 /\ s[i] = l}
           f == [i \in A |-> i + 1]
<1>3. f \in Bijection(A, B)
  <2>1. \A i \in A : i + 1 \in B /\ i \in Nat
    BY <1>1, <1>2 DEF Places
  <2>2. f \in Injection(A, B)
    BY <2>1 DEF Injection, IsInjective
  <2>3. ASSUME NEW j \in B PROVE \E i \in A : f[i] = j
    <3>1. j - 1 \in DOMAIN Tail(s) /\ (j - 1) + 1 = j
      BY <1>1, <1>2
    <3>2. Tail(s)[j - 1] = s[j]
      BY <1>1, <1>2, <3>1
    <3>3. j - 1 \in A
      BY <3>1, <3>2 DEF Places
    <3> QED BY <3>1, <3>3
  <2>4. f \in [A -> B]
    BY <2>1
  <2>5. f \in Surjection(A, B)
    BY <2>3, <2>4 DEF Surjection
  <2> QED BY <2>2, <2>5 DEF Bijection
<1>4. IsFiniteSet(A) /\ Times(Tail(s), l) = Cardinality(A) /\ Cardinality(A) \in Nat
  BY <1>1, TimesIsNumber
<1>5. IsFiniteSet(B) /\ Cardinality(B) = Times(Tail(s), l)
  <2> HIDE DEF f, A, B
  <2> QED BY <1>3, <1>4, FS_Bijection DEF ExistsBijection
<1>6. CASE Head(s) = l
  <2>1. Places(s, l) = B \cup {1} /\ 1 \notin B
    BY <1>1, <1>2, <1>6 DEF Places
  <2> HIDE DEF B
  <2>2. Cardinality(Places(s, l)) = Cardinality(B) + 1
    BY <1>5, <2>1, FS_AddElement
  <2> QED BY <1>5, <1>6, <2>2, TimesIsNumber
<1>7. CASE Head(s) # l
  <2>1. Places(s, l) = B
    BY <1>2, <1>7 DEF Places
  <2> HIDE DEF A, B, f
  <2>2. Times(s, l) = Cardinality(B)
    BY <2>1, TimesIsNumber
  <2> QED BY <1>4, <1>5, <1>7, <2>2
<1> QED BY <1>6, <1>7

\* A shuffle holds every line as often as the list.
LEMMA TimesOfShuffle ==
  ASSUME NEW S, NEW s \in Seq(S), NEW t \in Shuffles(s), NEW l
  PROVE  Times(t, l) = Times(s, l)
<1>1. PICK p \in [DOMAIN s -> DOMAIN s] :
        /\ \A i, j \in DOMAIN s : p[i] = p[j] => i = j
        /\ t = [i \in DOMAIN s |-> s[p[i]]]
  BY DEF Shuffles
<1>2. \A j \in DOMAIN s : \E i \in DOMAIN s : p[i] = j
  <2>1. IsFiniteSet(DOMAIN s)
    BY LenProperties, FS_Interval
  <2>2. p \in Injection(DOMAIN s, DOMAIN s)
    BY <1>1 DEF Injection, IsInjective
  <2>3. p \in Surjection(DOMAIN s, DOMAIN s)
    BY <2>1, <2>2, FS_Injection
  <2> QED BY <2>3 DEF Surjection
<1> DEFINE A == Places(t, l)
           B == Places(s, l)
           f == [i \in A |-> p[i]]
<1>3. f \in Bijection(A, B)
  <2>1. \A i \in A : i \in DOMAIN s /\ p[i] \in B
    BY <1>1 DEF Places
  <2>2. f \in Injection(A, B)
    BY <1>1, <2>1 DEF Injection, IsInjective
  <2>3. ASSUME NEW j \in B PROVE \E i \in A : f[i] = j
    <3>1. PICK i \in DOMAIN s : p[i] = j
      BY <1>2 DEF Places
    <3>2. i \in A
      BY <1>1, <3>1 DEF Places
    <3> QED BY <3>1, <3>2
  <2>4. f \in [A -> B]
    BY <2>1
  <2>5. f \in Surjection(A, B)
    BY <2>3, <2>4 DEF Surjection
  <2> QED BY <2>2, <2>5 DEF Bijection
<1>4. t \in Seq(S)
  BY ShuffleIsTyped
<1>5. IsFiniteSet(A) /\ Times(t, l) = Cardinality(A) /\ Times(s, l) = Cardinality(B)
  BY <1>4, TimesIsNumber
<1> HIDE DEF f, A, B
<1> QED BY <1>3, <1>5, FS_Bijection DEF ExistsBijection

\* The runs of a line of a cell.
RunsOf(k, l) == {n \in DOMAIN log : log[n].cell = k /\ log[n].line = l}

LEMMA MadeIsNumber ==
  ASSUME Typed, NEW k, NEW l
  PROVE  IsFiniteSet(RunsOf(k, l)) /\ Made(k, l) = Cardinality(RunsOf(k, l)) /\ Made(k, l) \in Nat
<1>1. Len(log) \in Nat /\ DOMAIN log = 1 .. Len(log)
  BY LenProperties DEF Typed, ResultTyped
<1>2. IsFiniteSet(DOMAIN log) /\ RunsOf(k, l) \in SUBSET DOMAIN log
  BY <1>1, FS_Interval DEF RunsOf
<1>3. IsFiniteSet(RunsOf(k, l))
  BY <1>2, FS_Subset
<1> QED BY <1>3, FS_CardinalityType DEF RunsOf, Made

\* What a run adds to the log.
LEMMA RunIsLogged ==
  ASSUME Typed, Load
  PROVE  LET new == Len(log) + 1 IN
         /\ new \notin DOMAIN log /\ DOMAIN log' = DOMAIN log \cup {new}
         /\ \A n \in DOMAIN log : log'[n] = log[n] /\ n \in Nat /\ n < new
         /\ log'[new].cell = cell /\ log'[new].line = entry
         /\ Len(log') = new /\ new \in Nat
         /\ DOMAIN raw' = DOMAIN raw
         /\ entry \in DOMAIN raw /\ log'[new].wrote => raw'[entry] = new
         /\ \A l \in DOMAIN raw : l # entry => raw'[l] = raw[l]
<1>1. PICK wrote \in BOOLEAN :
        /\ log' = Append(log, [cell |-> cell, line |-> entry, jvm |-> server,
                               warned |-> warned, wrote |-> wrote])
        /\ raw' = [raw EXCEPT ![Tag(entry)] =
                     IF wrote THEN Len(log) + 1 ELSE IF entry.tool = "jmeter" THEN 0 ELSE @]
  BY DEF Load
<1> DEFINE made == [cell |-> cell, line |-> entry, jvm |-> server,
                    warned |-> warned, wrote |-> wrote]
<1>2. PICK S : log \in Seq(S)
  BY DEF Typed, ResultTyped
<1>3. log \in Seq(S \cup {made}) /\ made \in S \cup {made}
  BY <1>2
<1>4. /\ Len(log) \in Nat /\ DOMAIN log = 1 .. Len(log) /\ DOMAIN log' = 1 .. Len(log) + 1
      /\ Len(log') = Len(log) + 1
      /\ \A n \in 1 .. Len(log) : log'[n] = log[n]
      /\ log'[Len(log) + 1] = made
  BY <1>1, <1>3
<1>5. /\ Len(log) + 1 \notin DOMAIN log /\ DOMAIN log' = DOMAIN log \cup {Len(log) + 1}
      /\ \A n \in DOMAIN log : log'[n] = log[n] /\ n \in Nat /\ n < Len(log) + 1
  BY <1>4
<1>6. /\ DOMAIN raw' = DOMAIN raw
      /\ entry \in DOMAIN raw /\ wrote => raw'[entry] = Len(log) + 1
      /\ \A l \in DOMAIN raw : l # entry => raw'[l] = raw[l]
  BY <1>1 DEF Tag
<1> QED BY <1>4, <1>5, <1>6

LEMMA RunIsCounted ==
  ASSUME Typed, Load, NEW k, NEW l
  PROVE  Made(k, l)' = Made(k, l) + (IF k = cell /\ l = entry THEN 1 ELSE 0)
<1>1. PICK new : new = Len(log) + 1
  OBVIOUS
<1>2. /\ new \notin DOMAIN log /\ DOMAIN log' = DOMAIN log \cup {new}
      /\ \A n \in DOMAIN log : log'[n] = log[n]
      /\ log'[new].cell = cell /\ log'[new].line = entry
  BY <1>1, RunIsLogged
<1>3. IsFiniteSet(RunsOf(k, l)) /\ Made(k, l) = Cardinality(RunsOf(k, l)) /\ Made(k, l) \in Nat
  BY MadeIsNumber
<1>4. Made(k, l)' = Cardinality(RunsOf(k, l)')
  BY DEF Made, RunsOf
<1>5. CASE k = cell /\ l = entry
  <2>1. RunsOf(k, l)' = RunsOf(k, l) \cup {new} /\ new \notin RunsOf(k, l)
    BY <1>2, <1>5 DEF RunsOf
  <2>2. Cardinality(RunsOf(k, l)') = Cardinality(RunsOf(k, l)) + 1
    BY <1>3, <2>1, FS_AddElement
  <2> QED BY <1>3, <1>4, <1>5, <2>2
<1>6. CASE ~(k = cell /\ l = entry)
  <2>1. RunsOf(k, l)' = RunsOf(k, l)
    BY <1>2, <1>6 DEF RunsOf
  <2> QED BY <1>3, <1>4, <1>6, <2>1
<1> QED BY <1>5, <1>6

-----------------------------------------------------------------------------
(* The order of the runs *)

\* Nothing is left of a plan when a cell ends.
OrderInv ==
  /\ Typed
  /\ pc \in {"cell", "analyze", "done"} => plan = <<>>
  /\ pc \in {"analyze", "done"} => cell = Len(Cells)

\* The abstract campaign's variables.
Todo == [l \in Lines |-> Times(plan, l) + (IF pc \in Pending /\ entry = l THEN 1 ELSE 0)]
Ran == [k \in DOMAIN Cells |-> [l \in Lines |-> Made(k, l)]]
State == CASE pc = "done" -> "finished" [] pc = "aborted" -> "stopped" [] OTHER -> "running"

Nothing == [l \in Lines |-> 0]
Planned(k) == [l \in Lines |-> Times(Cells[k], l)]

LEMMA CountsAreNumbers ==
  Typed => Todo \in [Lines -> Nat] /\ Ran \in [DOMAIN Cells -> [Lines -> Nat]]
<1> SUFFICES ASSUME Typed
             PROVE  Todo \in [Lines -> Nat] /\ Ran \in [DOMAIN Cells -> [Lines -> Nat]]
  OBVIOUS
<1>1. \A l \in Lines : Times(plan, l) \in Nat
  BY TimesIsNumber DEF Typed, ScriptTyped
<1>2. \A k \in DOMAIN Cells, l \in Lines : Made(k, l) \in Nat
  BY MadeIsNumber
<1> QED BY <1>1, <1>2 DEF Todo, Ran

\* Between two cells, and at the end, nothing is left to do.
LEMMA NothingIsLeft == plan = <<>> /\ pc \notin Pending => Todo = Nothing
BY TimesOfNothing DEF Todo, Nothing

LEMMA InitiallyInOrder == Init => OrderInv
BY InitiallyTyped DEF Init, OrderInv

LEMMA OrderKept == ~ReadsStdin /\ OrderInv /\ [Next]_vars => OrderInv'
<1> SUFFICES ASSUME ~ReadsStdin, OrderInv, [Next]_vars PROVE OrderInv'
  OBVIOUS
<1> USE DEF Go, Give
<1>t. Typed'
  BY TypedStep DEF OrderInv
<1>1. ASSUME plan' = plan, cell' = cell,
             pc' \in {"cell", "analyze", "done"} =>
               plan = <<>> /\ (pc' # "cell" => cell = Len(Cells))
      PROVE  OrderInv'
  BY <1>1, <1>t DEF OrderInv
<1>2. CASE NextCell \/ ReadLine
  BY <1>2, <1>t DEF NextCell, ReadLine, OrderInv
<1>3. CASE LastCell \/ EndOfPlan \/ NoRestart \/ Healthy \/ Warm \/ ScrapeBefore \/ ScrapeAfter
           \/ NotNormalized
  BY <1>1, <1>3 DEF LastCell, EndOfPlan, NoRestart, Healthy, Warm, ScrapeBefore, ScrapeAfter,
     NotNormalized, OrderInv
<1>4. CASE HealthTimeout \/ ScrapeFails
  BY <1>1, <1>4 DEF HealthTimeout, ScrapeFails, Abort
<1>5. CASE Normalize \/ Analyze \/ Load
  BY <1>1, <1>5 DEF Normalize, Analyze, Load, OrderInv
<1>6. CASE RestartSucceeds \/ RestartFails \/ StartJar
  BY <1>1, <1>6 DEF RestartSucceeds, RestartFails, StartJar, Stdin
<1>7. CASE Die \/ \E j \in booting : Listen(j)
  BY <1>1, <1>7 DEF Die, Listen, scriptVars, OrderInv
<1>8. CASE UNCHANGED vars
  BY <1>1, <1>8 DEF vars, scriptVars, OrderInv
<1> QED BY <1>2, <1>3, <1>4, <1>5, <1>6, <1>7, <1>8
        DEF Next, ScriptNext, TimedStep, CommandEnds, ServerNext

\* The abstract step of each step, in the abstract variables.
OrderStep ==
  \/ State = "running" /\ Todo = Nothing /\ cell < Len(Cells) /\ cell' = cell + 1
     /\ Todo' = Planned(cell + 1) /\ Ran' = Ran /\ State' = State
  \/ State = "running" /\ cell' = cell /\ State' = State
     /\ \E l \in Lines : /\ Todo[l] # 0 /\ Todo' = [Todo EXCEPT ![l] = @ - 1]
                         /\ Ran' = [Ran EXCEPT ![cell][l] = @ + 1]
  \/ State = "running" /\ Todo = Nothing /\ cell = Len(Cells) /\ State' = "finished"
     /\ cell' = cell /\ Todo' = Todo /\ Ran' = Ran
  \/ State = "running" /\ State' = "stopped"
     /\ Todo' \in [Lines -> Nat] /\ (\A l \in Lines : Todo'[l] <= Todo[l])
     /\ cell' = cell /\ Ran' = Ran
  \/ cell' = cell /\ Todo' = Todo /\ Ran' = Ran /\ State' = State

\* The one step that makes a run.
LEMMA LoadIsInOrder == OrderInv /\ Load => OrderStep
<1> SUFFICES ASSUME OrderInv, Load PROVE OrderStep
  OBVIOUS
<1>1. /\ pc = "load" /\ pc' = "after" /\ plan' = plan /\ cell' = cell /\ entry' = entry
      /\ State = "running" /\ State' = State
  BY DEF Load, Give, Go, State
<1>2. Typed /\ Todo \in [Lines -> Nat] /\ Ran \in [DOMAIN Cells -> [Lines -> Nat]]
  BY CountsAreNumbers DEF OrderInv
<1>3. entry \in Lines /\ cell \in DOMAIN Cells
  <2>1. Len(Cells) \in Nat /\ DOMAIN Cells = 1 .. Len(Cells)
    BY CellsAreLists, LenProperties
  <2>2. entry \in Lines /\ cell \in 0 .. Len(Cells) /\ cell # 0
    BY <1>1, <1>2 DEF Typed, ScriptTyped, Underway
  <2> QED BY <2>1, <2>2
<1>4. \A l \in Lines : Times(plan, l) \in Nat
  BY <1>2, TimesIsNumber DEF Typed, ScriptTyped
<1>5. Todo[entry] # 0 /\ Todo' = [Todo EXCEPT ![entry] = @ - 1]
  <2>1. \A l \in Lines : Todo[l] = Times(plan, l) + (IF entry = l THEN 1 ELSE 0)
    BY <1>1 DEF Todo, Pending
  <2>2. Todo' = [l \in Lines |-> Times(plan, l)]
    <3>1. Todo' = [l \in Lines |-> Times(plan, l) + 0]
      BY <1>1 DEF Todo, Pending
    <3> QED BY <1>4, <3>1
  <2> DEFINE G == [Todo EXCEPT ![entry] = @ - 1]
  <2>3. \A l \in Lines : Todo'[l] = G[l]
    BY <1>2, <1>3, <1>4, <2>1, <2>2
  <2>4. DOMAIN G = Lines /\ G = [l \in Lines |-> G[l]] /\ Todo' = [l \in Lines |-> Todo'[l]]
    BY <1>2, <2>2
  <2>5. Todo[entry] # 0
    BY <1>3, <1>4, <2>1
  <2> HIDE DEF G
  <2>6. Todo' = G
    BY <2>3, <2>4
  <2> QED BY <2>5, <2>6 DEF G
<1>6. Ran' = [Ran EXCEPT ![cell][entry] = @ + 1]
  <2>1. \A k \in DOMAIN Cells, l \in Lines :
          Made(k, l)' = Made(k, l) + (IF k = cell /\ l = entry THEN 1 ELSE 0)
    BY <1>2, RunIsCounted
  <2>2. \A k \in DOMAIN Cells, l \in Lines : Ran[k][l] = Made(k, l) /\ Made(k, l) \in Nat
    BY <1>2, MadeIsNumber DEF Ran
  <2>3. Ran' = [k \in DOMAIN Cells |-> [l \in Lines |-> Made(k, l)']]
    BY DEF Ran
  <2> DEFINE G == [Ran EXCEPT ![cell][entry] = @ + 1]
  <2>4. \A k \in DOMAIN Cells : Ran'[k] = G[k]
    <3> SUFFICES ASSUME NEW k \in DOMAIN Cells PROVE Ran'[k] = G[k]
      OBVIOUS
    <3>1. Ran'[k] = [l \in Lines |-> Made(k, l)']
      BY <2>3
    <3>2. Ran[k] = [l \in Lines |-> Made(k, l)]
      BY DEF Ran
    <3>3. CASE k = cell
      <4>1. G[k] = [Ran[k] EXCEPT ![entry] = @ + 1]
        BY <1>2, <1>3, <3>3
      <4>2. \A l \in Lines : Ran'[k][l] = G[k][l]
        BY <1>3, <2>1, <2>2, <3>1, <3>2, <3>3, <4>1
      <4> QED BY <3>1, <3>2, <4>1, <4>2
    <3>4. CASE k # cell
      <4>1. G[k] = Ran[k]
        BY <1>2, <3>4
      <4>2. \A l \in Lines : Made(k, l)' = Made(k, l)
        BY <2>1, <2>2, <3>4
      <4> QED BY <3>1, <3>2, <4>1, <4>2
    <3> QED BY <3>3, <3>4
  <2>5. G \in [DOMAIN Cells -> [Lines -> Nat]] /\ DOMAIN Ran' = DOMAIN Cells
    BY <1>2, <1>3, <2>3
  <2> QED BY <2>3, <2>4, <2>5
<1> QED BY <1>1, <1>3, <1>5, <1>6 DEF OrderStep

LEMMA StepsInOrder == ~ReadsStdin /\ OrderInv /\ [Next]_vars => OrderStep
<1> SUFFICES ASSUME ~ReadsStdin, OrderInv, [Next]_vars PROVE OrderStep
  OBVIOUS
<1>r. log' = log => Ran' = Ran
  BY DEF Ran, Made
<1>t. Typed /\ Typed' /\ plan \in Seq(Lines)
  BY TypedStep DEF OrderInv, Typed, ScriptTyped
<1>c. Len(Cells) \in Nat /\ DOMAIN Cells = 1 .. Len(Cells)
  BY CellsAreLists, LenProperties
<1> USE DEF Go, Give
\* Steps that leave the plan and the line alone.
<1>s. ASSUME plan' = plan, cell' = cell, entry' = entry, log' = log,
             pc' \in Pending <=> pc \in Pending, State' = State
      PROVE  OrderStep
  <2>1. Todo' = Todo
    BY <1>s DEF Todo
  <2> QED BY <1>s, <1>r, <2>1 DEF OrderStep
\* Steps that end the script early.
<1>a. ASSUME plan' = plan, cell' = cell, entry' = entry, log' = log,
             pc' = "aborted", State = "running"
      PROVE  OrderStep
  <2>1. State' = "stopped" /\ pc' \notin Pending
    BY <1>a DEF State, Pending
  <2>2. \A l \in Lines : Times(plan, l) \in Nat
    BY <1>t, TimesIsNumber
  <2>3. Todo' = [l \in Lines |-> Times(plan, l) + 0]
    BY <1>a, <2>1 DEF Todo
  <2>4. Todo' \in [Lines -> Nat] /\ \A l \in Lines : Todo'[l] <= Todo[l]
    BY <2>2, <2>3 DEF Todo
  <2> QED BY <1>a, <1>r, <2>1, <2>4 DEF OrderStep
<1>1. CASE NextCell
  <2>1. Todo = Nothing
    BY <1>1, NothingIsLeft DEF NextCell, OrderInv, Pending
  <2>2. cell + 1 \in DOMAIN Cells
    BY <1>1, <1>c, <1>t DEF NextCell, Typed, ScriptTyped
  <2>3. Cells[cell + 1] \in Seq(Lines)
    BY <1>c, <2>2, CellsAreLists, ElementOfSeq
  <2>4. plan' \in Shuffles(Cells[cell + 1]) /\ pc' \notin Pending
    BY <1>1 DEF NextCell, Pending
  <2>5. \A l \in Lines : Times(plan', l) = Times(Cells[cell + 1], l)
                         /\ Times(plan', l) \in Nat
    BY <2>3, <2>4, TimesOfShuffle, TimesIsNumber
  <2>6. Todo' = Planned(cell + 1)
    <3>1. Todo' = [l \in Lines |-> Times(plan', l) + 0]
      BY <2>4 DEF Todo
    <3> QED BY <2>5, <3>1 DEF Planned
  <2>7. State = "running" /\ State' = "running"
    BY <1>1 DEF NextCell, State
  <2> QED BY <1>1, <1>r, <2>1, <2>6, <2>7 DEF NextCell, OrderStep, resultVars
<1>2. CASE LastCell \/ EndOfPlan \/ NoRestart \/ Healthy \/ Warm \/ ScrapeBefore \/ ScrapeAfter
           \/ NotNormalized \/ Normalize
  BY <1>2, <1>s DEF LastCell, EndOfPlan, NoRestart, Healthy, Warm, ScrapeBefore, ScrapeAfter,
     NotNormalized, Normalize, resultVars, State, Pending
<1>3. CASE ReadLine
  <2>1. /\ plan' = Tail(plan) /\ entry' = Head(plan) /\ pc \notin Pending /\ pc' \in Pending
        /\ plan # <<>>
    BY <1>3 DEF ReadLine, Pending
  <2>2. \A l \in Lines : Times(plan, l) = Times(plan', l) + (IF entry' = l THEN 1 ELSE 0)
                         /\ Times(plan, l) \in Nat
    BY <1>t, <2>1, TimesOfTail, TimesIsNumber
  <2>3. Todo' = Todo
    <3>1. Todo = [l \in Lines |-> Times(plan, l) + 0]
      BY <2>1 DEF Todo
    <3>2. Todo' = [l \in Lines |-> Times(plan', l) + (IF entry' = l THEN 1 ELSE 0)]
      BY <2>1 DEF Todo
    <3> QED BY <2>2, <3>1, <3>2
  <2>4. State' = State
    BY <1>3 DEF ReadLine, State
  <2> QED BY <1>3, <1>r, <2>3, <2>4 DEF ReadLine, OrderStep, resultVars
<1>4. CASE HealthTimeout \/ ScrapeFails
  BY <1>4, <1>a DEF HealthTimeout, ScrapeFails, Abort, resultVars, State
<1>5. CASE Analyze
  <2>1. Todo = Nothing /\ cell = Len(Cells) /\ State = "running"
    BY <1>5, NothingIsLeft DEF Analyze, OrderInv, State, Pending
  <2>2. CASE pc' = "done"
    <3>1. State' = "finished" /\ Todo' = Todo
      BY <1>5, <2>2 DEF Analyze, Todo, State, Pending
    <3> QED BY <1>5, <1>r, <2>1, <3>1 DEF Analyze, OrderStep, resultVars
  <2>3. CASE pc' = "aborted"
    BY <1>5, <1>a, <2>1, <2>3 DEF Analyze, resultVars
  <2> QED BY <1>5, <2>2, <2>3 DEF Analyze
<1>6. CASE Load
  BY <1>6, LoadIsInOrder
<1>7. CASE RestartSucceeds \/ RestartFails \/ StartJar
  BY <1>7, <1>s DEF RestartSucceeds, RestartFails, StartJar, Stdin, resultVars, State, Pending
<1>8. CASE Die \/ \E j \in booting : Listen(j)
  BY <1>8, <1>s DEF Die, Listen, scriptVars, resultVars, State
<1>9. CASE UNCHANGED vars
  BY <1>9, <1>s DEF vars, scriptVars, resultVars, State
<1> QED BY <1>1, <1>2, <1>3, <1>4, <1>5, <1>6, <1>7, <1>8, <1>9
        DEF Next, ScriptNext, TimedStep, CommandEnds, ServerNext

LEMMA InitiallyOrdered == Init => Order!Init
<1> SUFFICES ASSUME Init PROVE Order!Init
  OBVIOUS
<1>1. cell = 0 /\ plan = <<>> /\ pc = "cell" /\ DOMAIN log = {}
  BY DEF Init
<1>2. \A k, l : Made(k, l) = 0
  <2>1. \A k, l : {n \in DOMAIN log : log[n].cell = k /\ log[n].line = l} = {}
    BY <1>1
  <2> QED BY <2>1, FS_EmptySet DEF Made
<1>3. [l \in Lines |-> Times(plan, l) + (IF pc \in Pending /\ entry = l THEN 1 ELSE 0)]
        = [l \in Lines |-> 0]
  BY <1>1, TimesOfNothing DEF Pending
<1> QED BY <1>1, <1>2, <1>3 DEF Order!Init, Order!Nothing

\* Each of them is a step of the abstract campaign, or none.
LEMMA StepsAreCampaigns == OrderInv /\ OrderStep => [Order!Next]_(Order!vars)
<1> SUFFICES ASSUME OrderInv, OrderStep PROVE [Order!Next]_(Order!vars)
  OBVIOUS
<1> DEFINE Rounds == [k \in DOMAIN Cells |-> [l \in Lines |-> Times(Cells[k], l)]]
<1>1. Len(Cells) \in Nat /\ DOMAIN Cells = 1 .. Len(Cells)
  BY CellsAreLists, LenProperties
<1>2. Len(Rounds) = Len(Cells)
  <2>1. DOMAIN Rounds = 1 .. Len(Cells)
    BY <1>1
  <2> HIDE DEF Rounds
  <2> QED BY <1>1, <2>1
<1>3. cell < Len(Cells) => Rounds[cell + 1] = Planned(cell + 1)
  <2>1. cell \in 0 .. Len(Cells)
    BY DEF OrderInv, Typed, ScriptTyped
  <2>2. cell < Len(Cells) => cell + 1 \in 1 .. Len(Cells)
    BY <1>1, <2>1
  <2> QED BY <1>1, <2>2 DEF Planned
<1> QED BY <1>2, <1>3 DEF OrderStep, Todo, Ran, State, Nothing, Order!Nothing, Order!Next,
        Order!NextRound, Order!Run, Order!Finish, Order!Stop, Order!vars

\* For any profile, also one whose plans hold a line twice, any restart command that
\* leaves standard input alone and any number of faults, the script implements
\* Campaign: round by round, each run of a round as often as the round holds it, none
\* skipped unless the script stops.
THEOREM OrderIsKept == ASSUME ~ReadsStdin PROVE Spec => KeepsOrder
<1>1. OrderInv /\ [Next]_vars => OrderInv'
  BY OrderKept
<1>2. OrderInv /\ [Next]_vars => [Order!Next]_(Order!vars)
  BY StepsInOrder, StepsAreCampaigns
<1> QED BY <1>1, <1>2, InitiallyInOrder, InitiallyOrdered, PTL DEF Spec, KeepsOrder, Order!Spec
-----------------------------------------------------------------------------
(* The plan *)

\* What the log is at any time: of the cells to come nothing, of the one in hand all
\* but what is still to do, of those before it everything.
Account ==
  \A k \in DOMAIN Cells, l \in Lines :
    /\ k > cell => Ran[k][l] = 0
    /\ State # "stopped" /\ k = cell => Ran[k][l] + Todo[l] = Planned(k)[l]
    /\ State # "stopped" /\ k < cell => Ran[k][l] = Planned(k)[l]

MadeInv == OrderInv /\ Account /\ OutputIsKept

LEMMA InitiallyMade == Init => MadeInv
<1> SUFFICES ASSUME Init PROVE MadeInv
  OBVIOUS
<1>1. cell = 0 /\ DOMAIN log = {}
  BY DEF Init
<1>2. \A k \in DOMAIN Cells : k > cell /\ ~(k = cell) /\ ~(k < cell)
  BY <1>1, CellsAreLists, LenProperties
<1>3. \A k \in DOMAIN Cells, l \in Lines : Ran[k][l] = 0
  <2>1. \A k, l : {n \in DOMAIN log : log[n].cell = k /\ log[n].line = l} = {}
    BY <1>1
  <2> QED BY <2>1, FS_EmptySet DEF Ran, Made
<1>4. Account
  BY <1>2, <1>3 DEF Account
<1> QED BY <1>1, <1>4, InitiallyInOrder DEF MadeInv, OutputIsKept

\* The account is one of the abstract campaign.
LEMMA AccountKept == OrderInv /\ OrderInv' /\ Account /\ OrderStep => Account'
<1> SUFFICES ASSUME OrderInv, OrderInv', Account, OrderStep,
                    NEW k \in DOMAIN Cells, NEW l \in Lines
             PROVE  /\ k > cell' => Ran'[k][l] = 0
                    /\ State' # "stopped" /\ k = cell' => Ran'[k][l] + Todo'[l] = Planned(k)[l]
                    /\ State' # "stopped" /\ k < cell' => Ran'[k][l] = Planned(k)[l]
  BY DEF Account
<1>1. /\ Todo \in [Lines -> Nat] /\ Ran \in [DOMAIN Cells -> [Lines -> Nat]]
      /\ Todo[l] \in Nat /\ Ran[k][l] \in Nat
  BY CountsAreNumbers DEF OrderInv
<1>2. /\ Len(Cells) \in Nat /\ DOMAIN Cells = 1 .. Len(Cells) /\ cell \in Nat /\ k \in Nat
  BY CellsAreLists, LenProperties DEF OrderInv, Typed, ScriptTyped
<1>3. Planned(k)[l] \in Nat
  BY CellsAreLists, ElementOfSeq, TimesIsNumber, LenProperties DEF Planned
<1>a. /\ k > cell => Ran[k][l] = 0
      /\ State # "stopped" /\ k = cell => Ran[k][l] + Todo[l] = Planned(k)[l]
      /\ State # "stopped" /\ k < cell => Ran[k][l] = Planned(k)[l]
  BY DEF Account
<1>4. CASE State = "running" /\ Todo = Nothing /\ cell < Len(Cells) /\ cell' = cell + 1
           /\ Todo' = Planned(cell + 1) /\ Ran' = Ran /\ State' = State
  <2>1. Todo[l] = 0
    BY <1>4 DEF Nothing
  <2>2. k = cell' \/ k > cell' \/ k = cell \/ k < cell
    BY <1>2, <1>4
  <2>3. k > cell' => k > cell
    BY <1>2, <1>4
  <2>4. k = cell' => k > cell /\ Todo'[l] = Planned(k)[l]
    BY <1>2, <1>4
  <2>5. k < cell' => Ran[k][l] = Planned(k)[l]
    BY <1>1, <1>2, <1>4, <1>a, <2>1
  <2> QED BY <1>1, <1>3, <1>4, <1>a, <2>3, <2>4, <2>5
<1>5. ASSUME State = "running", cell' = cell, State' = State,
             NEW h \in Lines, Todo[h] # 0, Todo' = [Todo EXCEPT ![h] = @ - 1],
             Ran' = [Ran EXCEPT ![cell][h] = @ + 1]
      PROVE  /\ k > cell' => Ran'[k][l] = 0
             /\ State' # "stopped" /\ k = cell' => Ran'[k][l] + Todo'[l] = Planned(k)[l]
             /\ State' # "stopped" /\ k < cell' => Ran'[k][l] = Planned(k)[l]
  <2>1. CASE k = cell /\ l = h
    <3>1. Ran'[k][l] = Ran[k][l] + 1 /\ Todo'[l] = Todo[l] - 1 /\ Todo[l] # 0
      BY <1>1, <1>5, <2>1
    <3> QED BY <1>1, <1>2, <1>3, <1>5, <1>a, <2>1, <3>1
  <2>2. CASE ~(k = cell /\ l = h)
    <3>1. Ran'[k][l] = Ran[k][l]
      BY <1>1, <1>5, <2>2
    <3>2. l # h => Todo'[l] = Todo[l]
      BY <1>1, <1>5
    <3> QED BY <1>1, <1>2, <1>5, <1>a, <2>2, <3>1, <3>2
  <2> QED BY <2>1, <2>2
<1>6. CASE cell' = cell /\ Todo' = Todo /\ Ran' = Ran /\ (State' # "stopped" => State # "stopped")
  BY <1>6, <1>a
<1>7. CASE State' = "stopped" /\ cell' = cell /\ Ran' = Ran
  BY <1>7, <1>a
<1> QED BY <1>4, <1>5, <1>6, <1>7 DEF OrderStep

\* A run that is made takes nobody's output but that of its own line.
LEMMA LoadKeepsOutput == MadeInv /\ Load => OutputIsKept'
<1> SUFFICES ASSUME MadeInv, Load, NEW n \in DOMAIN log', log'[n].wrote
             PROVE  \/ raw'[log'[n].line] = n
                    \/ \E m \in n + 1 .. Len(log') : log'[m].line = log'[n].line
  BY DEF OutputIsKept, Tag
<1>t. Typed
  BY DEF MadeInv, OrderInv
<1>1. PICK new : new = Len(log) + 1
  OBVIOUS
<1>2. /\ new \in Nat /\ DOMAIN log' = DOMAIN log \cup {new} /\ Len(log') = new
      /\ \A i \in DOMAIN log : log'[i] = log[i] /\ i \in Nat /\ i < new
      /\ log'[new].line = entry
      /\ entry \in DOMAIN raw /\ log'[new].wrote => raw'[entry] = new
      /\ \A l \in DOMAIN raw : l # entry => raw'[l] = raw[l]
  BY <1>t, <1>1, RunIsLogged
<1>3. DOMAIN raw = Lines /\ entry \in Lines /\ \A i \in DOMAIN log : log[i].line \in Lines
  <2>1. DOMAIN raw = Lines
    BY <1>t DEF Typed, ResultTyped, Tags, Tag
  <2>2. entry \in Lines
    BY <1>t DEF Load, Typed, ScriptTyped, Underway
  <2>3. \A i \in DOMAIN log : log[i] \in RunType(spawned)
    BY <1>t, LenProperties, ElementOfSeq DEF Typed, ResultTyped
  <2> QED BY <2>1, <2>2, <2>3 DEF RunType
<1>4. CASE n = new
  BY <1>2, <1>3, <1>4
<1>5. CASE n \in DOMAIN log /\ log[n].line = entry
  <2>1. new \in n + 1 .. Len(log') /\ log'[new].line = log'[n].line
    BY <1>2, <1>5
  <2> QED BY <2>1
<1>6. CASE n \in DOMAIN log /\ log[n].line # entry
  <2>1. log'[n] = log[n] /\ raw'[log[n].line] = raw[log[n].line]
    BY <1>2, <1>3, <1>6
  <2>2. raw[log[n].line] = n \/ \E m \in n + 1 .. Len(log) : log[m].line = log[n].line
    BY <1>6, <2>1 DEF MadeInv, OutputIsKept, Tag
  <2>3. ASSUME NEW m \in n + 1 .. Len(log), log[m].line = log[n].line
        PROVE  m \in n + 1 .. Len(log') /\ log'[m].line = log'[n].line
    <3>1. Len(log) \in Nat /\ DOMAIN log = 1 .. Len(log)
      BY <1>t, LenProperties DEF Typed, ResultTyped
    <3>2. m \in DOMAIN log /\ m \in n + 1 .. Len(log')
      BY <1>1, <1>2, <1>6, <2>3, <3>1
    <3> QED BY <1>2, <2>1, <2>3, <3>2
  <2> QED BY <2>1, <2>2, <2>3
<1> QED BY <1>2, <1>4, <1>5, <1>6

LEMMA MadeStep == ~ReadsStdin /\ MadeInv /\ [Next]_vars => MadeInv'
<1> SUFFICES ASSUME ~ReadsStdin, MadeInv, [Next]_vars PROVE MadeInv'
  OBVIOUS
<1>1. OrderInv' /\ Account'
  BY OrderKept, StepsInOrder, AccountKept DEF MadeInv
<1>2. Load \/ (log' = log /\ raw' = raw)
  BY DEF Next, ScriptNext, TimedStep, CommandEnds, ServerNext, NextCell, LastCell, ReadLine,
     EndOfPlan, RestartSucceeds, RestartFails, NoRestart, StartJar, Healthy, HealthTimeout, Warm,
     ScrapeBefore, ScrapeFails, Abort, ScrapeAfter, Normalize, NotNormalized, Analyze, Die, Listen,
     vars, resultVars
<1>3. OutputIsKept'
  <2>1. CASE Load
    BY <2>1, LoadKeepsOutput
  <2>2. CASE log' = log /\ raw' = raw
    BY <2>2 DEF MadeInv, OutputIsKept
  <2> QED BY <1>2, <2>1, <2>2
<1> QED BY <1>1, <1>3 DEF MadeInv

\* For any profile, any restart command that leaves standard input alone and any
\* number of faults: what is analysed are the runs of the plans, each as often as it
\* is planned, and no run's output was lost but to a later run of the same line.
THEOREM PlansAreRun == ASSUME ~ReadsStdin PROVE Spec => []PlanIsRun
<1>1. MadeInv => PlanIsRun
  <2> SUFFICES ASSUME MadeInv, pc \in {"analyze", "done"}, NEW k \in DOMAIN Cells, NEW l \in Lines
               PROVE  Made(k, l) = Times(Cells[k], l)
    BY DEF PlanIsRun, MadeInv
  <2>1. Len(Cells) \in Nat /\ DOMAIN Cells = 1 .. Len(Cells)
    BY CellsAreLists, LenProperties
  <2>2. cell = Len(Cells) /\ Todo = Nothing /\ State # "stopped"
    BY NothingIsLeft DEF MadeInv, OrderInv, Pending, State
  <2>3. k = cell \/ k < cell
    BY <2>1, <2>2
  <2>4. Ran[k][l] = Made(k, l) /\ Ran[k][l] \in Nat /\ Todo[l] = 0
    BY <2>2, CountsAreNumbers DEF MadeInv, OrderInv, Ran, Nothing
  <2>5. Planned(k)[l] = Times(Cells[k], l)
    BY DEF Planned
  <2> QED BY <2>2, <2>3, <2>4, <2>5 DEF MadeInv, Account
<1>2. MadeInv /\ [Next]_vars => MadeInv'
  BY MadeStep
<1> QED BY <1>1, <1>2, InitiallyMade, PTL DEF Spec
-----------------------------------------------------------------------------
(* What ScriptEnds rests on *)

\* How far the line in hand, or the script after its last one, is from its end.
Left ==
  CASE pc = "start"     -> 10
    [] pc = "wait"      -> 9
    [] pc = "warm"      -> 8
    [] pc = "before"    -> 7
    [] pc = "load"      -> 6
    [] pc = "after"     -> 5
    [] pc = "normalize" -> 4
    [] pc = "read"      -> 3
    [] pc = "cell"      -> 2
    [] pc = "analyze"   -> 1
    [] pc \in {"done", "aborted"} -> 0

\* The script moves on to another cell of the campaign, or takes lines from the cell's
\* plan, or comes nearer to the end of the line in hand, and puts back neither.
Advances ==
  /\ Left \in Nat /\ Len(plan) \in Nat /\ Len(plan') \in Nat
  /\ \/ ServerNext /\ UNCHANGED scriptVars
     \/ cell < cell' /\ cell' <= Len(Cells)
     \/ cell' = cell /\ Len(plan') < Len(plan)
     \/ cell' = cell /\ Len(plan') = Len(plan) /\ Left' < Left

\* The campaign cannot go round in circles, for any profile, any way to restart and any
\* number of faults: each step of the script lowers, in lexicographic order, the cells to
\* come, the lines to come and the commands to come (run-matrix.sh 206-273).
THEOREM CampaignAdvances == Spec => [][Advances]_vars
<1>1. Typed /\ Typed' /\ [Next]_vars => [Advances]_vars
  <2> SUFFICES ASSUME Typed, Typed', Next PROVE Advances
    OBVIOUS
  <2> USE DEF Go, Give
  <2>1. /\ Left \in Nat /\ Len(plan) \in Nat /\ Len(plan') \in Nat /\ cell \in Nat
        /\ cell' \in 0 .. Len(Cells)
    <3>1. plan \in Seq(Lines) /\ plan' \in Seq(Lines) /\ cell \in Nat
          /\ cell' \in 0 .. Len(Cells)
      BY DEF Typed, ScriptTyped
    <3>2. Left \in Nat
      BY DEF Typed, ScriptTyped, Underway, Left
    <3> QED BY <3>1, <3>2, LenProperties
  <2>2. CASE ServerNext
    BY <2>1, <2>2 DEF ServerNext, Die, Listen, Advances
  <2>3. CASE NextCell
    BY <2>1, <2>3 DEF NextCell, Advances
  <2>4. CASE ReadLine
    <3>1. plan \in Seq(Lines) /\ plan # <<>>
      BY <2>4 DEF ReadLine, Typed, ScriptTyped
    <3>2. Len(plan') = Len(plan) - 1
      BY <2>4, <3>1, HeadTailProperties DEF ReadLine
    <3>3. cell' = cell
      BY <2>4 DEF ReadLine
    <3> QED BY <2>1, <3>2, <3>3 DEF Advances
  <2>5. ASSUME cell' = cell, plan' = plan \/ plan' = <<>>, Left' < Left
        PROVE  Advances
    <3>1. Len(<<>>) = 0
      OBVIOUS
    <3>2. Len(plan') = Len(plan) \/ Len(plan') < Len(plan)
      BY <2>1, <2>5, <3>1
    <3> QED BY <2>1, <2>5, <3>2 DEF Advances
  <2>6. CASE RestartSucceeds \/ RestartFails \/ StartJar \/ NoRestart
    <3>1. cell' = cell /\ (plan' = plan \/ plan' = <<>>) /\ pc = "start" /\ pc' = "wait"
      BY <2>6 DEF RestartSucceeds, RestartFails, StartJar, NoRestart, Stdin
    <3> QED BY <2>5, <3>1 DEF Left
  <2>7. CASE LastCell \/ EndOfPlan \/ Healthy \/ Warm \/ ScrapeBefore \/ Load \/ ScrapeAfter
             \/ Normalize \/ NotNormalized
    <3>1. cell' = cell /\ plan' = plan
      BY <2>7 DEF LastCell, EndOfPlan, Healthy, Warm, ScrapeBefore, Load, ScrapeAfter,
         Normalize, NotNormalized
    <3>2. Left' < Left
      BY <2>7 DEF LastCell, EndOfPlan, Healthy, Warm, ScrapeBefore, Load, ScrapeAfter,
         Normalize, NotNormalized, Left
    <3> QED BY <2>5, <3>1, <3>2
  <2>8. CASE HealthTimeout \/ ScrapeFails \/ Analyze
    <3>1. /\ cell' = cell /\ plan' = plan /\ pc' \in {"done", "aborted"}
          /\ pc \in {"wait", "before", "after", "analyze"}
      BY <2>8 DEF HealthTimeout, ScrapeFails, Abort, Analyze
    <3> QED BY <2>5, <3>1 DEF Left
  <2> QED BY <2>2, <2>3, <2>4, <2>6, <2>7, <2>8 DEF Next, ScriptNext, TimedStep, CommandEnds
<1> QED BY <1>1, InitiallyTyped, TypedStep, PTL DEF Spec
=============================================================================
