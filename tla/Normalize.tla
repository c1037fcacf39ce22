----------------------------- MODULE Normalize -----------------------------
(***************************************************************************)
(* harness/normalize.py: what a tool writes about one request and the      *)
(* canonical record made of that.  ghz writes the end of a request as text *)
(* with a fraction of a second, JMeter its start in whole milliseconds.    *)
(* A request is a record of start, end and status.  Second and Milli are   *)
(* numbers of nanoseconds, 10^9 and 10^6 in the code.                      *)
(***************************************************************************)
EXTENDS Integers, Sequences

CONSTANTS
  Digits,     \* digits of a fraction of a second
  Milli       \* JMETER_RESOLUTION_NS

ASSUME UnitsAssumption == Digits \in Nat \ {0} /\ Milli \in Nat \ {0}

PowerOfTen[k \in 0 .. Digits] == IF k = 0 THEN 1 ELSE 10 * PowerOfTen[k - 1]

Second == PowerOfTen[Digits]
Tools == {"ghz", "jmeter"}
\* A call may end in an error that has no status of its own: the code is OK.
Statuses == {"OK", "Failed", "Broken"}

-----------------------------------------------------------------------------
(* What the tools write *)

DigitsOf(n) == [i \in 1 .. Digits |-> (n \div PowerOfTen[Digits - i]) % 10]

\* Go drops trailing zeros, and the point with the last of them.
Trimmed(d) ==
  LET kept == {i \in DOMAIN d : d[i] # 0}
  IN  IF kept = {} THEN <<>>
      ELSE SubSeq(d, 1, CHOOSE i \in kept : \A j \in kept : j <= i)

Rfc3339Nano(t) == [second |-> t \div Second, fraction |-> Trimmed(DigitsOf(t % Second))]

GhzDetail(r) ==
  [timestamp |-> Rfc3339Nano(r.end), latency |-> r.end - r.start,
   status |-> IF r.status = "Failed" THEN "Failed" ELSE "OK",
   error |-> r.status # "OK"]

\* Both instants are read off a clock in whole milliseconds.
JMeterRow(r) ==
  [timeStamp |-> r.start \div Milli, elapsed |-> r.end \div Milli - r.start \div Milli,
   success |-> r.status = "OK"]

-----------------------------------------------------------------------------
(* What normalize.py makes of it *)

Number(d) ==
  LET sum[i \in 0 .. Len(d)] == IF i = 0 THEN 0 ELSE 10 * sum[i - 1] + d[i]
  IN  sum[Len(d)]

Zeros == [i \in 1 .. Digits |-> 0]

\* Mutation: the fraction is read as it stands.
UnpaddedFraction(d) == Number(d)

FractionNs(d) == Number(SubSeq(d \o Zeros, 1, Digits))

ParseRfc3339Ns(text) ==
  IF text.fraction = <<>> THEN text.second * Second
  ELSE text.second * Second + FractionNs(text.fraction)

\* Mutation: the error text is not looked at.
OkByStatus(d) == d.status = "OK"

GhzOk(d) == d.status = "OK" /\ ~d.error

NormalizeGhz(d) ==
  LET end == ParseRfc3339Ns(d.timestamp)
  IN  [start_ns |-> end - d.latency, end_ns |-> end, latency_ns |-> d.latency,
       ok |-> GhzOk(d), latency_resolution_ns |-> 1]

NormalizeJMeter(row) ==
  LET start   == row.timeStamp * Milli
      latency == row.elapsed * Milli
  IN  [start_ns |-> start, end_ns |-> start + latency, latency_ns |-> latency,
       ok |-> row.success, latency_resolution_ns |-> Milli]

Canonical(tool, r) ==
  IF tool = "ghz" THEN NormalizeGhz(GhzDetail(r)) ELSE NormalizeJMeter(JMeterRow(r))
=============================================================================
