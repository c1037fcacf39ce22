------------------------------- MODULE Cgroup -------------------------------
(***************************************************************************)
(* What sample_proc.py learns from the container's control group: its CPU  *)
(* limit and how often the scheduler took the CPU away.  The files it may  *)
(* find are those of either hierarchy, of a host's root group, or none.    *)
(***************************************************************************)
EXTENDS Integers

Modes == {"none", "host", "v1", "v2"}
Absent == <<>>

\* The files under /sys/fs/cgroup of a container with this quota (no quota is
\* "max" in cpu.max and -1 in cpu.cfs_quota_us) after these periods of which
\* some were throttled.  A host's root group counts no periods.
CgroupFiles(mode, quota, periods, throttled) ==
  LET stat == [nr_periods |-> periods, nr_throttled |-> throttled]
  IN  [cpuMax   |-> IF mode = "v2" THEN <<quota, 1>> ELSE Absent,
       cfs      |-> IF mode = "v1" THEN <<quota, 1>> ELSE Absent,
       cpuStat  |-> IF mode = "v2" THEN stat
                    ELSE IF mode = "host" THEN [usage_usec |-> 7] ELSE Absent,
       cpuStat1 |-> IF mode = "v1" THEN stat ELSE Absent]

\* A quota and its period, or Absent when there is none.
CpuLimit(files) ==
  LET found == IF files.cpuMax # Absent THEN files.cpuMax ELSE files.cfs
  IN  IF found = Absent \/ found[1] <= 0 THEN Absent ELSE found

CpuStat(files) ==
  IF "nr_periods" \in DOMAIN files.cpuStat THEN files.cpuStat
  ELSE IF "nr_periods" \in DOMAIN files.cpuStat1 THEN files.cpuStat1
  ELSE Absent

\* Mutation: the counters are read as if they began with the run.
FractionSinceBoot(first, last) ==
  IF last = Absent \/ last.nr_periods = 0 THEN Absent
  ELSE <<last.nr_throttled, last.nr_periods>>

\* throttled_periods_fraction, a numerator and a denominator, or Absent: of
\* the periods between the first and the last sample.
ThrottledFraction(first, last) ==
  IF first = Absent \/ last = Absent THEN Absent
  ELSE IF last.nr_periods - first.nr_periods <= 0 THEN Absent
  ELSE <<last.nr_throttled - first.nr_throttled, last.nr_periods - first.nr_periods>>

\* More than THROTTLE_WARN_FRACTION, two in a hundred.
Warns(fraction) == fraction # Absent /\ 100 * fraction[1] > 2 * fraction[2]
=============================================================================
