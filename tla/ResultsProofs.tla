---------------------------- MODULE ResultsProofs ----------------------------
(***************************************************************************)
(* What holds of Results for any campaign and any site.  The report is a   *)
(* function of what the runs left; the invariants say what that is: the    *)
(* manifest the first step wrote (Manifested), one entry per run made      *)
(* (Made), what each client file says (Summaries), and which runs were     *)
(* analysed (Analyzed).                                                    *)
(***************************************************************************)
EXTENDS Results, FiniteSetTheorems, TLAPS

Manifested ==
  pc # "manifest" =>
    /\ IsFiniteSet(known)
    /\ manifest = [node |-> site.node,
                   sut  |-> IF site.node = {} THEN {}
                            ELSE IF known = {} THEN {"unknown"} ELSE known,
                   same |-> site.host = "loopback"]

\* While the runs go on those before the next have been made.
Made ==
  /\ pc = "manifest" => DOMAIN outcome = {} /\ next = 1
  /\ pc = "runs" => DOMAIN outcome = {campaign[i] : i \in 1 .. next - 1}

\* The rest of a run is with its outcome.
Summaries ==
  /\ summary = [r \in DOMAIN summary |-> summary[r]]
  /\ \A r \in DOMAIN summary :
       /\ Warns(summary[r].fraction) <=> 50 * met[r][2] > met[r][1]
       /\ summary[r].limit = IF site.quota > 0 THEN <<site.quota, 1>> ELSE Absent

Analyzed ==
  /\ pc \in {"manifest", "runs", "analyze"} => runs = {}
  /\ pc \in {"report", "done", "failed"} => runs = {r \in Canonical : Summarizes(r)}

RInv == TypeOK /\ Manifested /\ Made /\ Summaries /\ Analyzed

-----------------------------------------------------------------------------
(* Control groups *)

LEMMA NotAbsent ==
  /\ \A x, y : <<x, y>> # Absent
  /\ \A x, y : [nr_periods |-> x, nr_throttled |-> y] # Absent
<1>1. DOMAIN Absent = {}
  BY DEF Absent
<1>2. \A x, y : DOMAIN <<x, y>> = {1, 2}
  OBVIOUS
<1>3. \A x, y : "nr_periods" \in DOMAIN [nr_periods |-> x, nr_throttled |-> y]
  OBVIOUS
<1>4. ASSUME NEW x, NEW y PROVE <<x, y>> # Absent
  <2> HIDE DEF Absent
  <2> QED BY <1>1, <1>2
<1>5. ASSUME NEW x, NEW y PROVE [nr_periods |-> x, nr_throttled |-> y] # Absent
  <2> HIDE DEF Absent
  <2> QED BY <1>1, <1>3
<1> QED BY <1>4, <1>5

\* The limit is the container's, in either hierarchy.
LEMMA LimitIsFound ==
  ASSUME NEW mode \in Modes, NEW quota \in Int, mode \in {"none", "host"} => quota <= 0,
         NEW periods, NEW throttled
  PROVE  CpuLimit(CgroupFiles(mode, quota, periods, throttled))
           = IF quota > 0 THEN <<quota, 1>> ELSE Absent
<1> DEFINE files == CgroupFiles(mode, quota, periods, throttled)
<1>1. files.cpuMax = (IF mode = "v2" THEN <<quota, 1>> ELSE Absent)
      /\ files.cfs = (IF mode = "v1" THEN <<quota, 1>> ELSE Absent)
  BY DEF CgroupFiles
<1> DEFINE found == IF files.cpuMax # Absent THEN files.cpuMax ELSE files.cfs
<1>2. found = IF mode \in {"v1", "v2"} THEN <<quota, 1>> ELSE Absent
  <2> HIDE DEF files
  <2> QED BY <1>1, NotAbsent DEF Modes
<1>3. CpuLimit(files) = IF found = Absent \/ found[1] <= 0 THEN Absent ELSE found
  BY DEF CpuLimit
<1> HIDE DEF files, found
<1>4. ASSUME mode \in {"v1", "v2"}
      PROVE  CpuLimit(files) = IF quota > 0 THEN <<quota, 1>> ELSE Absent
  <2>1. found = <<quota, 1>> /\ found # Absent /\ found[1] = quota
    BY <1>2, <1>4, NotAbsent
  <2> QED BY <1>3, <2>1
<1>5. ASSUME mode \notin {"v1", "v2"}
      PROVE  CpuLimit(files) = IF quota > 0 THEN <<quota, 1>> ELSE Absent
  <2>1. found = Absent /\ ~(quota > 0)
    BY <1>2, <1>5 DEF Modes
  <2> QED BY <1>3, <2>1
<1> QED BY <1>4, <1>5 DEF files

\* The periods are those of the container, or not counted.
LEMMA StatIsFound ==
  ASSUME NEW mode \in Modes, NEW quota, NEW periods, NEW throttled
  PROVE  CpuStat(CgroupFiles(mode, quota, periods, throttled))
           = IF mode \in {"v1", "v2"} THEN [nr_periods |-> periods, nr_throttled |-> throttled]
             ELSE Absent
<1> DEFINE stat == [nr_periods |-> periods, nr_throttled |-> throttled]
           files == CgroupFiles(mode, quota, periods, throttled)
<1>1. /\ files.cpuStat = (IF mode = "v2" THEN stat
                          ELSE IF mode = "host" THEN [usage_usec |-> 7] ELSE Absent)
      /\ files.cpuStat1 = (IF mode = "v1" THEN stat ELSE Absent)
  BY DEF CgroupFiles
<1>2. "nr_periods" \in DOMAIN stat /\ "nr_periods" \notin DOMAIN [usage_usec |-> 7]
      /\ "nr_periods" \notin DOMAIN Absent
  BY DEF Absent
<1>3. CpuStat(files) = IF "nr_periods" \in DOMAIN files.cpuStat THEN files.cpuStat
                       ELSE IF "nr_periods" \in DOMAIN files.cpuStat1 THEN files.cpuStat1 ELSE Absent
  BY DEF CpuStat
<1> HIDE DEF stat, files
<1>4. mode = "v2" => CpuStat(files) = stat
  BY <1>1, <1>2, <1>3
<1>5. mode = "v1" => CpuStat(files) = stat
  BY <1>1, <1>2, <1>3
<1>6. mode \in {"none", "host"} => CpuStat(files) = Absent
  BY <1>1, <1>2, <1>3
<1>7. CpuStat(files) = IF mode \in {"v1", "v2"} THEN stat ELSE Absent
  BY <1>4, <1>5, <1>6 DEF Modes
<1> QED BY <1>7 DEF stat, files

\* What the client file says of the periods between two states of the files.
LEMMA WarningIsDue ==
  ASSUME NEW s, s.mode \in Modes, s.quota \in Int, s.mode \in {"none", "host"} => s.quota <= 0,
         NEW c, c[1] \in Nat, c[2] \in Nat, NEW d, d[1] \in Nat, d[2] \in Nat,
         NEW g, g[1] \in Nat, g[2] \in Nat, d[1] = c[1] + g[1], d[2] = c[2] + g[2],
         s.quota > 0 => g[1] > 0, s.quota <= 0 => g[1] = 0 /\ g[2] = 0
  PROVE  Warns(ThrottledFraction(CpuStat(CgroupFiles(s.mode, s.quota, c[1], c[2])),
                                 CpuStat(CgroupFiles(s.mode, s.quota, d[1], d[2]))))
           <=> 50 * g[2] > g[1]
<1> DEFINE mode == s.mode
           quota == s.quota
           p == c[1]
           t == c[2]
           q == d[1]
           v == d[2]
           dp == g[1]
           dt == g[2]
<1>i. /\ mode \in Modes /\ quota \in Int /\ p \in Nat /\ t \in Nat /\ q \in Nat /\ v \in Nat
      /\ dp \in Nat /\ dt \in Nat
      /\ mode \in {"none", "host"} => quota <= 0
      /\ q = p + dp /\ v = t + dt
      /\ quota > 0 => dp > 0
      /\ quota <= 0 => dp = 0 /\ dt = 0
  OBVIOUS
<1> DEFINE first == CpuStat(CgroupFiles(mode, quota, p, t))
           last == CpuStat(CgroupFiles(mode, quota, q, v))
<1>1. first = IF mode \in {"v1", "v2"} THEN [nr_periods |-> p, nr_throttled |-> t] ELSE Absent
  BY <1>i, StatIsFound
<1>2. last = IF mode \in {"v1", "v2"} THEN [nr_periods |-> q, nr_throttled |-> v] ELSE Absent
  BY <1>i, StatIsFound
<1> HIDE DEF first, last, mode, quota, p, t, q, v, dp, dt
<1>3. CASE mode \in {"v1", "v2"} /\ quota > 0
  <2>1. /\ first # Absent /\ last # Absent /\ first.nr_periods = p /\ first.nr_throttled = t
        /\ last.nr_periods = q /\ last.nr_throttled = v
    BY <1>i, <1>1, <1>2, <1>3, NotAbsent
  <2>2. ThrottledFraction(first, last) = <<v - t, q - p>>
    <3>1. ~(q - p <= 0)
      BY <1>i, <1>3
    <3> QED BY <2>1, <3>1 DEF ThrottledFraction
  <2>3. ThrottledFraction(first, last) = <<dt, dp>>
    <3>1. v - t = dt /\ q - p = dp
      BY <1>i
    <3> QED BY <2>2, <3>1
  <2>4. Warns(<<dt, dp>>) <=> 100 * dt > 2 * dp
    BY NotAbsent DEF Warns
  <2>5. 100 * dt > 2 * dp <=> 50 * dt > dp
    BY <1>i
  <2> QED BY <2>3, <2>4, <2>5 DEF first, last, mode, quota, p, t, q, v, dp, dt
<1>4. CASE quota <= 0
  <2>1. ThrottledFraction(first, last) = Absent
    <3>1. CASE mode \in {"v1", "v2"}
      <4>1. first.nr_periods = p /\ last.nr_periods = p
        BY <1>i, <1>1, <1>2, <1>4, <3>1
      <4>2. p - p <= 0
        BY <1>i
      <4> QED BY <4>1, <4>2 DEF ThrottledFraction
    <3>2. CASE mode \notin {"v1", "v2"}
      BY <1>1, <3>2 DEF ThrottledFraction
    <3> QED BY <3>1, <3>2
  <2>2. ~Warns(Absent)
    BY DEF Warns
  <2>3. ~(50 * dt > dp)
    BY <1>i, <1>4
  <2> QED BY <2>1, <2>2, <2>3 DEF first, last, mode, quota, p, t, q, v, dp, dt
<1>5. quota > 0 \/ quota <= 0
  BY <1>i
<1> QED BY <1>i, <1>3, <1>4, <1>5 DEF Modes

-----------------------------------------------------------------------------
(* The invariant *)

LEMMA CampaignIs ==
  ASSUME campaign \in Campaigns
  PROVE  /\ Len(campaign) \in Nat \ {0} /\ DOMAIN campaign = 1 .. Len(campaign)
         /\ \A i, j \in DOMAIN campaign : campaign[i] = campaign[j] => i = j
  BY CampaignsAssumption

LEMMA SiteIs ==
  ASSUME site \in Sites
  PROVE  /\ site.mode \in Modes /\ site.quota \in Int
         /\ site.mode \in {"none", "host"} => site.quota <= 0
         /\ IsFiniteSet(site.node) /\ Cardinality(site.node) <= 1 /\ "unknown" \notin site.node
         /\ \A ps \in site.placements : IsFiniteSet(ps)
         /\ site.host \in Hosts
  BY SitesAssumption

LEMMA ServingIsFinite ==
  ASSUME NEW ps, IsFiniteSet(ps) PROVE IsFiniteSet(ServingNodes(ps))
<1> DEFINE S == {q \in ps : q.ready /\ ~q.deleting}
           T == {p.node : p \in S}
           f == [p \in S |-> p.node]
<1>1. IsFiniteSet(S)
  BY FS_Subset
<1>2. f \in Surjection(S, T)
  BY DEF Surjection
<1>3. IsFiniteSet(T)
  <2> HIDE DEF S, T, f
  <2> QED BY <1>1, <1>2, FS_Surjection
<1> QED BY <1>3 DEF ServingNodes

LEMMA RInvInit == Init => RInv
<1> SUFFICES ASSUME Init PROVE RInv
  OBVIOUS
<1>1. /\ pc = "manifest" /\ next = 1 /\ campaign \in Campaigns /\ site \in Sites
      /\ counters = <<0, 0>> /\ polled = {} /\ runs = {}
      /\ outcome = Nothing /\ summary = Nothing /\ met = Nothing /\ serving = Nothing
      /\ pods \in site.placements
  BY DEF Init
<1>2. DOMAIN Nothing = {} /\ Nothing = [r \in DOMAIN Nothing |-> Nothing[r]]
  BY DEF Nothing
<1>3. 1 \in DOMAIN campaign
  BY <1>1, CampaignIs
<1> HIDE DEF Nothing
<1>4. TypeOK
  BY <1>1, <1>2, <1>3 DEF TypeOK
<1> QED BY <1>1, <1>2, <1>4 DEF RInv, Manifested, Made, Summaries, Analyzed

LEMMA CaptureKeeps == ASSUME RInv, Capture PROVE RInv'
<1>1. /\ pc' = "runs" /\ pc = "manifest"
      /\ manifest' = [node |-> site.node, sut |-> IF site.node = {} THEN {} ELSE SutNodeName,
                      same |-> site.host = "loopback"]
      /\ known' = ServingNodes(pods) /\ pods' = pods /\ serving' = serving
      /\ campaign' = campaign /\ site' = site /\ next' = next /\ runs' = runs /\ counters' = counters
      /\ outcome' = outcome /\ summary' = summary /\ polled' = polled /\ met' = met
  BY DEF Capture, siteVars, rawVars
<1>2. TypeOK'
  BY <1>1 DEF RInv, TypeOK, Runs, Canonical
<1>3. Manifested'
  <2>1. IsFiniteSet(known')
    BY <1>1, SiteIs, ServingIsFinite DEF RInv, TypeOK
  <2>2. SutNodeName = IF known' = {} THEN {"unknown"} ELSE known'
    BY <1>1 DEF SutNodeName, ServingNodes, IsReady
  <2> QED BY <1>1, <2>1, <2>2 DEF Manifested
<1>4. Made'
  <2>1. DOMAIN outcome = {} /\ next = 1
    BY <1>1 DEF RInv, Made
  <2>2. {campaign[i] : i \in 1 .. next - 1} = {}
    BY <2>1
  <2> QED BY <1>1, <2>1, <2>2 DEF Made
<1> QED BY <1>1, <1>2, <1>3, <1>4 DEF RInv, Summaries, Analyzed

LEMMA RunKeeps == ASSUME RInv, SomeRun PROVE RInv'
<1>1. PICK o \in {"none", "void", "served"}, grown \in Grown, usable \in BOOLEAN :
        \E poll \in {FALSE, o = "served"} : RunOne(o, grown, usable, poll)
  BY DEF SomeRun
<1>2. PICK poll \in {FALSE, o = "served"} : RunOne(o, grown, usable, poll)
  BY <1>1
<1> DEFINE r == campaign[next]
           start == Plus(counters, WarmUp)
           end == Plus(start, grown)
           said == Summarize(FilesAt(start), FilesAt(end))
<1>3. /\ pc = "runs" /\ counters' = end /\ outcome' = With(outcome, r, o) /\ met' = With(met, r, grown)
      /\ summary' = IF usable THEN With(summary, r, said) ELSE summary
      /\ polled' = IF poll THEN polled \cup {r} ELSE polled
      /\ Proceed /\ campaign' = campaign /\ site' = site /\ manifest' = manifest /\ runs' = runs
      /\ known' = known /\ pods' \in site.placements
      /\ serving' = With(serving, r, ServingNodes(pods'))
  BY <1>2 DEF RunOne, StartSut, siteVars
<1>t. TypeOK /\ Manifested /\ Made /\ Summaries /\ Analyzed
  BY DEF RInv
<1>4. next \in 1 .. Len(campaign) /\ next \in DOMAIN campaign /\ next \in Nat
  BY <1>t, CampaignIs DEF TypeOK
<1>5. r \in Runs /\ r \notin DOMAIN outcome /\ r \notin DOMAIN summary
  <2>1. DOMAIN outcome = {campaign[i] : i \in 1 .. next - 1}
    BY <1>3, <1>t DEF Made
  <2>2. \A i \in 1 .. next - 1 : i \in DOMAIN campaign /\ i # next
    BY <1>4, <1>t, CampaignIs DEF TypeOK
  <2>3. \A i \in 1 .. next - 1 : campaign[i] # campaign[next]
    BY <1>4, <1>t, <2>2, CampaignIs DEF TypeOK
  <2> QED BY <1>4, <1>t, <2>1, <2>3 DEF Runs, TypeOK
<1>6. /\ pc' \in {"runs", "analyze"} /\ next' \in DOMAIN campaign
      /\ pc' = "runs" => next' = next + 1
  BY <1>3, <1>4, <1>t, CampaignIs DEF Proceed, TypeOK
<1>7. /\ start \in Nat \X Nat /\ end \in Nat \X Nat
      /\ grown[1] \in Nat /\ grown[2] \in Nat
      /\ end[1] = start[1] + grown[1] /\ end[2] = start[2] + grown[2]
  <2>1. WarmUp[1] \in Nat /\ WarmUp[2] \in Nat /\ grown[1] \in Nat /\ grown[2] \in Nat
    BY DEF WarmUp, Grown
  <2>2. counters[1] \in Nat /\ counters[2] \in Nat
    BY <1>t DEF TypeOK
  <2>3. start \in Nat \X Nat
    <3> HIDE DEF WarmUp
    <3> QED BY <2>1, <2>2 DEF Plus
  <2> HIDE DEF start
  <2> QED BY <2>1, <2>3 DEF Plus
<1>9. /\ Warns(said.fraction) <=> 50 * grown[2] > grown[1]
      /\ said.limit = IF site.quota > 0 THEN <<site.quota, 1>> ELSE Absent
  <2>1. /\ said.fraction = ThrottledFraction(CpuStat(FilesAt(start)), CpuStat(FilesAt(end)))
        /\ said.limit = CpuLimit(FilesAt(end))
    BY DEF Summarize
  <2>f. /\ FilesAt(start) = CgroupFiles(site.mode, site.quota, start[1], start[2])
        /\ FilesAt(end) = CgroupFiles(site.mode, site.quota, end[1], end[2])
    BY DEF FilesAt
  <2>3. /\ site.mode \in Modes /\ site.quota \in Int /\ (site.mode \in {"none", "host"} => site.quota <= 0)
        /\ start[1] \in Nat /\ start[2] \in Nat /\ end[1] \in Nat /\ end[2] \in Nat
    BY <1>7, <1>t, SiteIs DEF TypeOK
  <2>4. (site.quota > 0 => grown[1] > 0) /\ (site.quota <= 0 => grown[1] = 0 /\ grown[2] = 0)
    BY <2>3 DEF Grown
  <2> HIDE DEF start, end, said
  <2>5. Warns(said.fraction) <=> 50 * grown[2] > grown[1]
    <3> DEFINE first == CpuStat(CgroupFiles(site.mode, site.quota, start[1], start[2]))
               last == CpuStat(CgroupFiles(site.mode, site.quota, end[1], end[2]))
    <3>1. grown[1] \in Nat /\ grown[2] \in Nat /\ end[1] = start[1] + grown[1] /\ end[2] = start[2] + grown[2]
      BY <1>7
    <3>2. Warns(ThrottledFraction(first, last)) <=> 50 * grown[2] > grown[1]
      BY <2>3, <2>4, <3>1, WarningIsDue
    <3>3. said.fraction = ThrottledFraction(first, last)
      BY <2>1, <2>f
    <3> QED BY <3>2, <3>3
  <2>6. said.limit = IF site.quota > 0 THEN <<site.quota, 1>> ELSE Absent
    BY <2>1, <2>3, <2>f, LimitIsFound
  <2> QED BY <2>5, <2>6
<1> HIDE DEF start, end, said, r
<1>8. /\ DOMAIN outcome' = DOMAIN outcome \cup {r} /\ outcome'[r] = o
      /\ \A x \in DOMAIN outcome : outcome'[x] = outcome[x]
  <2>1. outcome' = [x \in DOMAIN outcome \cup {r} |-> IF x = r THEN o ELSE outcome[x]]
    BY <1>3 DEF With
  <2> QED BY <1>5, <2>1
<1>m. /\ DOMAIN met' = DOMAIN met \cup {r} /\ met'[r] = grown
      /\ \A x \in DOMAIN met : met'[x] = met[x]
  <2>1. met' = [x \in DOMAIN met \cup {r} |-> IF x = r THEN grown ELSE met[x]]
    BY <1>3 DEF With
  <2>2. r \notin DOMAIN met
    BY <1>5, <1>t DEF TypeOK
  <2> QED BY <2>1, <2>2
<1>s. ASSUME usable
      PROVE  /\ DOMAIN summary' = DOMAIN summary \cup {r} /\ summary'[r] = said
             /\ \A x \in DOMAIN summary : summary'[x] = summary[x]
             /\ summary' = [x \in DOMAIN summary' |-> summary'[x]]
  <2>1. summary' = [x \in DOMAIN summary \cup {r} |-> IF x = r THEN said ELSE summary[x]]
    BY <1>3, <1>s DEF With
  <2> QED BY <1>5, <2>1
<1>u. ~usable => summary' = summary
  BY <1>3
<1>10. TypeOK'
  <2>1. /\ DOMAIN outcome' \subseteq Runs /\ DOMAIN met' = DOMAIN outcome'
        /\ DOMAIN summary' \subseteq DOMAIN outcome' /\ polled' \subseteq DOMAIN outcome'
    BY <1>3, <1>5, <1>8, <1>m, <1>s, <1>u, <1>t DEF TypeOK
  <2>5. DOMAIN serving' = DOMAIN outcome'
    BY <1>3, <1>8, <1>t DEF TypeOK, With
  <2>2. \A x \in DOMAIN outcome' : outcome'[x] \in {"none", "void", "served"}
    BY <1>1, <1>3, <1>5, <1>8, <1>t DEF TypeOK
  <2>3. runs' = {}
    BY <1>3, <1>t DEF Analyzed
  <2>4. Runs' = Runs
    BY <1>3 DEF Runs
  <2> QED BY <1>3, <1>6, <1>7, <1>t, <2>1, <2>2, <2>3, <2>4, <2>5 DEF TypeOK
<1>11. Manifested'
  BY <1>3, <1>t DEF Manifested
<1>12. Made'
  <2> SUFFICES ASSUME pc' = "runs" PROVE DOMAIN outcome' = {campaign[i] : i \in 1 .. next' - 1}
    BY <1>3, <1>6 DEF Made
  <2>1. 1 .. next' - 1 = (1 .. next - 1) \cup {next}
    BY <1>4, <1>6
  <2>2. DOMAIN outcome' = {campaign[i] : i \in 1 .. next - 1} \cup {campaign[next]}
    BY <1>3, <1>8, <1>t DEF Made, r
  <2>3. \A i \in 1 .. next' - 1 : i \in 1 .. next - 1 \/ i = next
    BY <2>1
  <2>4. \A i \in 1 .. next - 1 : i \in 1 .. next' - 1
    BY <2>1
  <2>5. next \in 1 .. next' - 1
    BY <2>1
  <2> QED BY <2>2, <2>3, <2>4, <2>5
<1>13. Summaries'
  <2>1. met'[r] = grown /\ \A x \in DOMAIN summary : met'[x] = met[x]
    BY <1>m, <1>t DEF TypeOK
  <2>2. CASE usable
    BY <1>3, <1>9, <1>s, <1>t, <2>1, <2>2 DEF Summaries
  <2>3. CASE ~usable
    BY <1>3, <1>t, <2>1, <2>3 DEF Summaries
  <2> QED BY <2>2, <2>3
<1>14. Analyzed'
  BY <1>3, <1>6, <1>t DEF Analyzed
<1> QED BY <1>10, <1>11, <1>12, <1>13, <1>14 DEF RInv

LEMMA RInvStep == RInv /\ [Next]_vars => RInv'
<1> SUFFICES ASSUME RInv, [Next]_vars PROVE RInv'
  OBVIOUS
<1>1. CASE Analyze \/ NoRuns \/ BuildReport \/ UNCHANGED vars
  <2>1. /\ campaign' = campaign /\ site' = site /\ next' = next /\ counters' = counters
        /\ manifest' = manifest /\ outcome' = outcome /\ summary' = summary /\ polled' = polled
        /\ met' = met /\ pods' = pods /\ known' = known /\ serving' = serving
        /\ pc' \in {"report", "done", "failed"} \/ pc' = pc
        /\ pc' \in {"manifest", "runs", "analyze"} => pc' = pc
        /\ runs' = runs \/ runs' = {q \in Canonical : Summarizes(q)}
    BY <1>1 DEF Analyze, NoRuns, BuildReport, vars, siteVars, placeVars, rawVars
  <2>2. Canonical' = Canonical /\ \A q : Summarizes(q)' = Summarizes(q)
    BY <2>1 DEF Canonical, Summarizes
  <2>3. TypeOK'
    <3>1. runs' \subseteq Canonical'
      BY <2>1, <2>2 DEF RInv, TypeOK
    <3>2. pc' \in {"manifest", "runs", "analyze", "report", "done", "failed"}
      BY <2>1 DEF RInv, TypeOK
    <3> QED BY <2>1, <3>1, <3>2 DEF RInv, TypeOK, Runs
  <2>4. Manifested'
    BY <1>1, <2>1 DEF RInv, Manifested, Analyze, NoRuns, BuildReport, vars
  <2>5. Made'
    BY <2>1 DEF RInv, Made
  <2>7. Summaries'
    BY <2>1 DEF RInv, Summaries
  <2>6. Analyzed'
    BY <1>1, <2>1, <2>2 DEF RInv, Analyzed, Analyze, NoRuns, BuildReport, vars
  <2> QED BY <2>3, <2>4, <2>5, <2>6, <2>7 DEF RInv
<1> QED BY <1>1, CaptureKeeps, RunKeeps DEF Next

LEMMA RInvHolds == Spec => []RInv
BY RInvInit, RInvStep, PTL DEF Spec

\* Every variable keeps its type, for any campaign and any site.
THEOREM TypeCorrect == Spec => []TypeOK
<1>1. RInv => TypeOK
  BY DEF RInv
<1> QED BY <1>1, RInvHolds, PTL

-----------------------------------------------------------------------------
(* The report *)

\* For any campaign and any site: the report warns of throttling exactly when a
\* run was throttled in more than two of a hundred of its own periods.
THEOREM ThrottlingIsReported == Spec => []ThrottlingIsSaid
<1>1. RInv => ThrottlingIsSaid
  <2> SUFFICES ASSUME RInv
               PROVE  /\ ThrottleBanner <=> \E r \in DOMAIN summary : 50 * met[r][2] > met[r][1]
                      /\ CpuLimits = IF summary # Nothing /\ site.quota > 0
                                     THEN {<<site.quota, 1>>} ELSE {}
    BY DEF ThrottlingIsSaid
  <2>1. ThrottleBanner <=> \E r \in DOMAIN summary : 50 * met[r][2] > met[r][1]
    BY DEF RInv, Summaries, ThrottleBanner
  <2>2. summary # Nothing <=> DOMAIN summary # {}
    BY DEF RInv, Summaries, Nothing
  <2>3. \A r \in DOMAIN summary : summary[r].limit = IF site.quota > 0 THEN <<site.quota, 1>> ELSE Absent
    BY DEF RInv, Summaries
  <2>4. CpuLimits = IF summary # Nothing /\ site.quota > 0 THEN {<<site.quota, 1>>} ELSE {}
    <3>1. CASE site.quota > 0
      BY <2>2, <2>3, <3>1, NotAbsent DEF CpuLimits
    <3>2. CASE ~(site.quota > 0)
      BY <2>3, <3>2 DEF CpuLimits
    <3> QED BY <3>1, <3>2
  <2> QED BY <2>1, <2>4
<1> QED BY <1>1, RInvHolds, PTL

\* For any site, and a server that restarts may move: for a run whose server is where
\* it was when the manifest was written, the banner is there exactly when the run shared
\* its machine, as long as one node served then and SUT_HOST is no other name of the
\* load generator's machine.
THEOREM SharingIsReported == Spec => []SharedMachineIsSaid
<1>1. RInv => SharedMachineIsSaid
  <2> SUFFICES ASSUME RInv, Reported, Cardinality(known) <= 1, site.host # "alias",
                      NEW r \in DOMAIN outcome, serving[r] = known
               PROVE  SameHostBanner \/ SameNodeBanner <=> Shared(r)
    BY DEF SharedMachineIsSaid
  <2>1. /\ manifest.node = site.node /\ manifest.same = (site.host = "loopback")
        /\ manifest.sut = IF site.node = {} THEN {} ELSE IF known = {} THEN {"unknown"} ELSE known
        /\ IsFiniteSet(known)
    BY DEF RInv, Manifested, Reported
  <2>s. /\ IsFiniteSet(site.node) /\ Cardinality(site.node) <= 1 /\ "unknown" \notin site.node
        /\ site.host \in Hosts
    BY SiteIs DEF RInv, TypeOK
  <2>2. \A S : IsFiniteSet(S) /\ Cardinality(S) <= 1 => S = {} \/ \E x : S = {x}
    <3> SUFFICES ASSUME NEW S, IsFiniteSet(S), Cardinality(S) <= 1 PROVE S = {} \/ \E x : S = {x}
      OBVIOUS
    <3>1. Cardinality(S) \in Nat
      BY FS_CardinalityType
    <3>2. Cardinality(S) = 0 \/ Cardinality(S) = 1
      BY <3>1
    <3> QED BY <3>2, FS_EmptySet, FS_Singleton
  <2>3. known = {} \/ \E n : known = {n}
    BY <2>1, <2>2
  <2>4. site.node = {} \/ \E n : site.node = {n}
    BY <2>2, <2>s
  <2>5. SameNodeBanner <=> known \cap site.node # {}
    <3>1. CASE site.node = {}
      BY <2>1, <3>1 DEF SameNodeBanner
    <3>2. CASE site.node # {} /\ known = {}
      BY <2>1, <2>s, <3>2 DEF SameNodeBanner
    <3>3. ASSUME NEW n, site.node = {n}, NEW m, known = {m}
          PROVE  SameNodeBanner <=> known \cap site.node # {}
      BY <2>1, <3>3 DEF SameNodeBanner
    <3> QED BY <2>3, <2>4, <3>1, <3>2, <3>3
  <2>6. SameHostBanner <=> site.host # "other"
    BY <2>1, <2>s DEF SameHostBanner, Hosts
  <2> QED BY <2>5, <2>6 DEF Shared
<1> QED BY <1>1, RInvHolds, PTL

LEMMA RunIs ==
  ASSUME RInv, NEW r \in runs
  PROVE  r.tool \in {"jmeter", "ghz"} /\ (r.tool = "jmeter" => r.connections = r.concurrency)
<1>1. PICK i \in DOMAIN campaign : r = campaign[i]
  BY DEF RInv, TypeOK, Canonical, Runs
<1>2. campaign \in Campaigns
  BY DEF RInv, TypeOK
<1> QED BY <1>1, <1>2, CampaignsAssumption

\* At one concurrency, a series' label tells its tool and its connections.
LEMMA LabelTells ==
  ASSUME NEW p, p.tool \in {"jmeter", "ghz"}, p.tool = "jmeter" => p.connections = p.concurrency,
         NEW q, q.tool \in {"jmeter", "ghz"}, q.tool = "jmeter" => q.connections = q.concurrency,
         p.concurrency = q.concurrency, Label(p) = Label(q)
  PROVE  p.tool = q.tool /\ p.connections = q.connections
<1> DEFINE l == Label(p)
           m == Label(q)
<1>1. /\ p.tool = "jmeter" => l[1] = "jmeter"
      /\ p.tool = "ghz" /\ p.connections = p.concurrency => l[1] = "ghz, connections = concurrency"
      /\ p.tool = "ghz" /\ p.connections # p.concurrency
         => l[1] = "ghz, multiplexed" /\ l[2] = p.connections
  BY DEF Label, SeriesLabel
<1>2. /\ q.tool = "jmeter" => m[1] = "jmeter"
      /\ q.tool = "ghz" /\ q.connections = q.concurrency => m[1] = "ghz, connections = concurrency"
      /\ q.tool = "ghz" /\ q.connections # q.concurrency
         => m[1] = "ghz, multiplexed" /\ m[2] = q.connections
  BY DEF Label, SeriesLabel
<1>3. l[1] = m[1] /\ l[2] = m[2]
  OBVIOUS
<1> HIDE DEF l, m
<1> QED BY <1>1, <1>2, <1>3

\* For any campaign: whatever failed elsewhere, a run with a success in its window
\* is reported; the detail and open-loop tables and the bars join it with its repeats
\* only, the connection table with other rates too and with nothing else.
THEOREM ServedRunsAreReported == Spec => []EveryServedRunIsReported
<1>1. RInv => EveryServedRunIsReported
  <2> SUFFICES ASSUME RInv, Reported, NEW r \in DOMAIN outcome, outcome[r] = "served"
               PROVE  /\ \E k \in ClosedScenarios \cup OpenScenarios :
                           /\ r \in Group(k)
                           /\ \A q \in Group(k) : \A c \in Coordinates \ {"repeat"} : q[c] = r[c]
                           /\ k \in ClosedScenarios => Bar(k) = {k}
                      /\ \A q \in ConnectionRow(r) :
                           \A c \in Coordinates \ {"repeat", "rps"} : q[c] = r[c]
    BY DEF EveryServedRunIsReported
  <2>1. r \in runs
    BY DEF RInv, Analyzed, Reported, Canonical, Summarizes
  <2> DEFINE C == Coordinates \ {"repeat"}
             k == ScenarioKey(r)
  <2>c. "tool" \in C /\ "method" \in C /\ "concurrency" \in C /\ "connections" \in C /\ "rps" \in C
        /\ \A c \in C : c \in {"tool", "method", "concurrency", "connections", "rps"}
    BY DEF Coordinates
  <2>k. \A q : /\ ScenarioKey(q) = [c \in C |-> ScenarioKey(q)[c]]
               /\ \A c \in C : ScenarioKey(q)[c] = q[c]
    BY DEF ScenarioKey
  <2> HIDE DEF C
  <2>2. k \in ClosedScenarios \cup OpenScenarios /\ r \in Group(k)
    BY <2>1 DEF ClosedScenarios, OpenScenarios, Scenarios, Group
  <2>3. \A q \in Group(k) : \A c \in C : q[c] = r[c]
    BY <2>k DEF Group
  <2>4. k \in ClosedScenarios => Bar(k) = {k}
    <3> SUFFICES ASSUME k \in ClosedScenarios, NEW j \in Bar(k) PROVE j = k
      BY DEF Bar
    <3>1. PICK q \in runs : j = ScenarioKey(q)
      BY DEF Bar, ClosedScenarios, Scenarios
    <3>2. /\ j.tool = q.tool /\ j.method = q.method /\ j.concurrency = q.concurrency
          /\ j.connections = q.connections /\ j.rps = q.rps
          /\ k.tool = r.tool /\ k.method = r.method /\ k.concurrency = r.concurrency
          /\ k.connections = r.connections /\ k.rps = r.rps
      BY <2>c, <2>k, <3>1
    <3>3. /\ j.method = k.method /\ j.concurrency = k.concurrency /\ j.rps = 0 /\ k.rps = 0
          /\ Label(j) = Label(k)
      BY DEF Bar, ClosedScenarios
    <3>4. j.tool = k.tool /\ j.connections = k.connections
      <4>1. /\ q.tool \in {"jmeter", "ghz"} /\ (q.tool = "jmeter" => q.connections = q.concurrency)
            /\ r.tool \in {"jmeter", "ghz"} /\ (r.tool = "jmeter" => r.connections = r.concurrency)
        BY <2>1, <3>1, RunIs
      <4>2. /\ j.tool \in {"jmeter", "ghz"} /\ (j.tool = "jmeter" => j.connections = j.concurrency)
            /\ k.tool \in {"jmeter", "ghz"} /\ (k.tool = "jmeter" => k.connections = k.concurrency)
        BY <3>2, <4>1
      <4> HIDE DEF k
      <4> QED BY <3>3, <4>2, LabelTells
    <3>5. \A c \in C : j[c] = k[c]
      BY <2>c, <3>3, <3>4
    <3> QED BY <2>k, <3>1, <3>5
  <2>5. \A q \in ConnectionRow(r) : \A c \in Coordinates \ {"repeat", "rps"} : q[c] = r[c]
    <3> SUFFICES ASSUME NEW q \in ConnectionRow(r)
                 PROVE  \A c \in Coordinates \ {"repeat", "rps"} : q[c] = r[c]
      OBVIOUS
    <3>1. /\ q \in runs /\ Label(q) = Label(r)
          /\ q.concurrency = r.concurrency /\ q.method = r.method
      <4>1. ConnectionKey(q) = ConnectionKey(r) /\ q \in runs
        BY DEF ConnectionRow
      <4>2. \A a, b, c, x, y, z : <<a, b, c>> = <<x, y, z>> => a = x /\ b = y /\ c = z
        OBVIOUS
      <4> QED BY <4>1, <4>2, Zenon DEF ConnectionKey
    <3>2. /\ q.tool \in {"jmeter", "ghz"} /\ (q.tool = "jmeter" => q.connections = q.concurrency)
          /\ r.tool \in {"jmeter", "ghz"} /\ (r.tool = "jmeter" => r.connections = r.concurrency)
      BY <2>1, <3>1, RunIs
    <3>3. q.tool = r.tool /\ q.connections = r.connections
      BY <3>1, <3>2, LabelTells
    <3> QED BY <3>1, <3>3 DEF Coordinates
  <2> QED BY <2>2, <2>3, <2>4, <2>5 DEF C
<1> QED BY <1>1, RInvHolds, PTL

\* No open-loop run has all of a closed-loop run's other coordinates.
FamiliesDiffer ==
  \A c \in Campaigns : \A i, j \in DOMAIN c :
    /\ c[i].tool = c[j].tool /\ c[i].method = c[j].method
    /\ c[i].concurrency = c[j].concurrency /\ c[i].connections = c[j].connections
    /\ c[i].rps = 0
    => c[j].rps = 0

\* For any campaign whose families differ: a row's client cores were measured in the
\* row's own runs.
THEOREM CoresAreOwn == ASSUME FamiliesDiffer PROVE Spec => []CoresAreTheRowsOwn
<1>1. RInv => CoresAreTheRowsOwn
  <2> SUFFICES ASSUME RInv, Reported, NEW k \in ClosedScenarios
               PROVE  CoresFrom(k) = {d \in DOMAIN summary : \E r \in Group(k) : Directory(r) = d}
    BY DEF CoresAreTheRowsOwn
  <2> DEFINE C == Coordinates \ {"repeat"}
  <2>c. "tool" \in C /\ "method" \in C /\ "concurrency" \in C /\ "connections" \in C /\ "rps" \in C
        /\ \A c \in C : c \in {"tool", "method", "concurrency", "connections", "rps"}
    BY DEF Coordinates
  <2>k. \A q : /\ ScenarioKey(q) = [c \in C |-> ScenarioKey(q)[c]]
               /\ \A c \in C : ScenarioKey(q)[c] = q[c]
    BY DEF ScenarioKey
  <2> HIDE DEF C
  <2>1. PICK p \in runs : k = ScenarioKey(p)
    BY DEF ClosedScenarios, Scenarios
  <2>2. k.rps = 0
    BY DEF ClosedScenarios
  <2>3. /\ k.tool = p.tool /\ k.method = p.method /\ k.concurrency = p.concurrency
        /\ k.connections = p.connections /\ k.rps = p.rps
    BY <2>c, <2>k, <2>1
  <2>4. Group(k) \subseteq Matching(k)
    <3> SUFFICES ASSUME NEW q \in Group(k) PROVE q \in Matching(k)
      OBVIOUS
    <3>1. q \in runs /\ ScenarioKey(q) = k
      BY DEF Group
    <3>2. /\ k.tool = q.tool /\ k.method = q.method /\ k.concurrency = q.concurrency
          /\ k.connections = q.connections
      BY <2>c, <2>k, <3>1
    <3> QED BY <3>1, <3>2 DEF Matching
  <2>5. Matching(k) \subseteq Group(k)
    <3> SUFFICES ASSUME NEW q \in Matching(k) PROVE q \in Group(k)
      OBVIOUS
    <3>1. /\ q \in runs /\ q.tool = k.tool /\ q.method = k.method
          /\ q.concurrency = k.concurrency /\ q.connections = k.connections
      BY DEF Matching
    <3>2. PICK i \in DOMAIN campaign : p = campaign[i]
      BY DEF RInv, TypeOK, Canonical, Runs
    <3>3. PICK j \in DOMAIN campaign : q = campaign[j]
      BY <3>1 DEF RInv, TypeOK, Canonical, Runs
    <3>4. campaign \in Campaigns
      BY DEF RInv, TypeOK
    <3>5. q.rps = k.rps
      BY <2>2, <2>3, <3>1, <3>2, <3>3, <3>4 DEF FamiliesDiffer
    <3>6. \A c \in C : ScenarioKey(q)[c] = k[c]
      BY <2>c, <2>k, <3>1, <3>5
    <3>7. ScenarioKey(q) = k
      BY <2>k, <2>1, <3>6
    <3> QED BY <3>1, <3>7 DEF Group
  <2> QED BY <2>4, <2>5 DEF CoresFrom, RunTag, Directory
<1> QED BY <1>1, RInvHolds, PTL
=============================================================================
