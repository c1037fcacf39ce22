----------------------------- MODULE Statistics -----------------------------
(***************************************************************************)
(* The arithmetic of harness/analyze.py on what normalize.py hands it: the *)
(* one percentile function, and the median and spread that score repeats.  *)
(* Requests of one tool join the sample one at a time; the same sorted     *)
(* list stands for the figures of repeats, which are scored alike.         *)
(* Percentages are in tenths of a percent.  The product p/100.0 * len is   *)
(* the double Python computes: the factor is off by FactorError/1000 units *)
(* in its last place, and the product is rounded.                          *)
(***************************************************************************)
EXTENDS Normalize, FiniteSets

CONSTANTS
  Arrivals(_),  \* the requests that may join a sample of a given size
  MaxLen        \* bound on the sample's size

ASSUME MaxLenAssumption == MaxLen \in Nat
ASSUME ArrivalsAssumption ==
  \A n \in 0 .. MaxLen : \A r \in Arrivals(n) :
    r \in [start: Nat, end: Nat, status: Statuses] /\ r.start <= r.end

VARIABLES
  tool,      \* the tool that is measured
  request,   \* the request that joined last
  record,    \* its canonical record
  values,    \* the latencies of the requests that were ok, sorted
  actual     \* how long those requests took, sorted

vars == <<tool, request, record, values, actual>>

PERCENTILES == {500, 900, 950, 990, 999}

Low(S) == CHOOSE x \in S : \A y \in S : x <= y
High(S) == CHOOSE x \in S : \A y \in S : x >= y

\* Mutation: the list is scored in the order it was collected.
Collected(s, v) == <<v>> \o s

Sorted(s, v) ==
  LET k == Cardinality({i \in DOMAIN s : s[i] <= v})
  IN  SubSeq(s, 1, k) \o <<v>> \o SubSeq(s, k + 1, Len(s))

None == [none |-> TRUE]

Init ==
  /\ tool \in Tools
  /\ request = None /\ record = None
  /\ values = <<>> /\ actual = <<>>

Measure(r) ==
  /\ Len(values) < MaxLen
  /\ request' = r /\ record' = Canonical(tool, r)
  /\ IF record'.ok
     THEN /\ values' = Sorted(values, record'.latency_ns)
          /\ actual' = Sorted(actual, r.end - r.start)
     ELSE UNCHANGED <<values, actual>>
  /\ UNCHANGED tool

Next == \E r \in Arrivals(Len(values)) : Measure(r)

Spec == Init /\ [][Next]_vars

-----------------------------------------------------------------------------
(* percentile *)

\* p/100.0 - p/100 in thousandths of 2^-53, the last place of a double in
\* [1/2, 1).  25, 50 and 75 percent are exact.
FactorError(p) == CASE p = 900 -> 200   [] p = 950 -> -400
                    [] p = 990 -> -80   [] p = 999 -> 992
                    [] OTHER   -> 0

\* The largest power of two up to n: the last place of a double near n is
\* 2^-52 of it, and half of that is lost in rounding to nearest.
LeadingBit(n) ==
  LET bit[k \in 0 .. n] == IF k <= 1 THEN 1 ELSE 2 * bit[k \div 2]
  IN  bit[n]

\* ceil(p / 100.0 * n): a whole product that comes out a little high is
\* rounded up to the next integer.
CeilProduct(p, n) ==
  LET whole == (p * n) \div 1000
  IN  IF (p * n) % 1000 # 0 THEN whole + 1
      ELSE IF FactorError(p) * n > 1000 * LeadingBit(whole) THEN whole + 1
      ELSE whole

\* Mutation: the rank is floored.
FlooredRank(p, n) == High({1, (p * n) \div 1000})

Rank(p, n) == High({1, Low({CeilProduct(p, n), n})})

Percentile(s, p) == s[Rank(p, Len(s))]

\* statistics.median, doubled.
TwiceMedian(s) ==
  LET n == Len(s)
  IN  IF n % 2 = 1 THEN 2 * s[(n + 1) \div 2] ELSE s[n \div 2] + s[n \div 2 + 1]

\* Mutation: the mean of the smallest and the largest repeat.
TwiceMidrange(s) == s[1] + s[Len(s)]

Headline(s) == TwiceMedian(s)

\* Mutation: the full range, however many repeats there are.
FullRange(s) == IF s = <<>> THEN 0 ELSE s[Len(s)] - s[1]

Spread(s) ==
  IF Len(s) < 4 THEN IF s = <<>> THEN 0 ELSE s[Len(s)] - s[1]
  ELSE Percentile(s, 750) - Percentile(s, 250)

-----------------------------------------------------------------------------
(* What the module promises *)

\* The list percentile() is given is sorted, as its contract says (42-43).
TypeOK ==
  /\ tool \in Tools
  /\ record = None <=> request = None
  /\ values \in Seq(Nat) /\ actual \in Seq(Nat) /\ Len(actual) = Len(values)
  /\ \A i \in 1 .. Len(values) - 1 : values[i] <= values[i + 1]

\* Percentile(s, p) is in the sample, at least p percent of the sample is no
\* larger, and that is so of no smaller value in it.
IsNearestRank(s, p) ==
  LET v == Percentile(s, p)
      upTo == Cardinality({i \in DOMAIN s : s[i] <= v})
      below == Cardinality({i \in DOMAIN s : s[i] < v})
  IN  /\ \E i \in DOMAIN s : s[i] = v
      /\ 1000 * upTo >= p * Len(s)
      /\ 1000 * below < p * Len(s)

\* Every percentile is the nearest rank, as analyze.py:18-21 defines it.
NearestRank == values # <<>> => \A p \in PERCENTILES : IsNearestRank(values, p)

\* The sample without one of its values.
Without(i) == {values[j] : j \in DOMAIN values \ {i}}

\* One bad repeat among three or more never takes the headline out of the
\* range of the others; and with the five repeats of the full profile or more
\* it cannot make the spread exceed their range either (aggregate 158-184).
OneRepeatDoesNotDecide ==
  \A i \in DOMAIN values :
    /\ Len(values) >= 3 => /\ Headline(values) >= 2 * Low(Without(i))
                           /\ Headline(values) <= 2 * High(Without(i))
    /\ Len(values) >= 5 => Spread(values) <= High(Without(i)) - Low(Without(i))

Near(a, b, resolution) == a - b < resolution /\ b - a < resolution

\* A record says of a request when it ended, which places it in a window, when
\* it started and how long it took.
RecordIsFaithful ==
  request # None =>
    /\ Near(record.start_ns, request.start, record.latency_resolution_ns)
    /\ Near(record.end_ns, request.end, record.latency_resolution_ns)
    /\ Near(record.latency_ns, request.end - request.start, record.latency_resolution_ns)
    /\ record.end_ns - record.start_ns = record.latency_ns

\* The sample holds the latencies of exactly the requests that succeeded.
PercentilesAreFaithful ==
  /\ request # None => (record.ok <=> request.status = "OK")
  /\ values # <<>> => \A p \in PERCENTILES :
       Near(Percentile(values, p), Percentile(actual, p), record.latency_resolution_ns)

\* Both tools' records are true to within the resolution they carry, for ghz to
\* the nanosecond, and so is every percentile of a sample: the resolution
\* bounds what the tools may seem to differ by (normalize.py 14-32,
\* analyze.py 102).
FaithfulWithinResolution == RecordIsFaithful /\ PercentilesAreFaithful
=============================================================================
