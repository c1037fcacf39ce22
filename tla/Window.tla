------------------------------- MODULE Window -------------------------------
(***************************************************************************)
(* One run as the two sides of the benchmark see it.  A load generator's   *)
(* workers send, the server closes calls and counts them, the client notes *)
(* each completion later or gives up without one, and scrape_server.py's   *)
(* series mode reads the server's counter some time after the stamp it     *)
(* puts on it.  Afterwards analyze.py cuts the window out of the client's  *)
(* records and report.py sets the server's count of the same window beside *)
(* it.  Time is in ticks; what shares a tick happens in any order.         *)
(***************************************************************************)
EXTENDS Naturals, FiniteSets, FiniteSetsExt

CONSTANTS
  Workers,     \* the tool's threads or goroutines
  Warmup,      \* WARMUP_SECONDS
  Measure,     \* MEASURE_SECONDS
  Interval,    \* what the series sleeps between scrapes
  MaxStartup,  \* bound on what a worker needs before its first request
  MaxLatency,  \* the request timeout
  MaxFailures  \* bound on the calls that fail

ASSUME WorkersAssumption == IsFiniteSet(Workers) /\ Workers # {}
ASSUME TimesAssumption ==
  /\ Warmup \in Nat /\ Measure \in Nat \ {0} /\ Interval \in Nat \ {0}
  /\ MaxStartup \in Nat /\ MaxLatency \in Nat \ {0} /\ MaxFailures \in Nat

VARIABLES
  now,       \* ticks since the tool began
  worker,    \* per worker: idle, sent or served
  since,     \* per worker: when it may send, or when it sent
  closes,    \* what the server counted: whose call, sent when, closed at
  records,   \* the client's records, one per call that ended for it
  abandoned, \* calls the client gave up on before the server closed them
  scrape,    \* the stamp of the scrape under way, if there is one
  rest,      \* when the series has slept
  polls,     \* its samples: the stamp, when the counter was read, its value
  scored     \* whether the run is over and being scored

vars == <<now, worker, since, closes, records, abandoned, scrape, rest, polls, scored>>

\* Mutation: the tool is given the window's length only.
WindowOnly == Measure

\* run_one asks the tool for exactly this many seconds of load.
Duration == Warmup + Measure

Init ==
  /\ now = 0
  /\ worker = [w \in Workers |-> "idle"]
  /\ since \in [Workers -> 0 .. MaxStartup]
  /\ closes = {} /\ records = {} /\ abandoned = {}
  /\ scrape = {} /\ rest = 0 /\ polls = {}
  /\ scored = FALSE

-----------------------------------------------------------------------------
(* The calls *)

Call(w) == [worker |-> w, start |-> since[w]]
CallOf(x) == [worker |-> x.worker, start |-> x.start]

\* Mutation: the tool goes on after its time is up.
SendingOn(w) == worker[w] = "idle" /\ since[w] <= now

\* A worker that may send does so without pausing.
Sending(w) == worker[w] = "idle" /\ since[w] <= now /\ now < Duration

Send(w) ==
  /\ ~scored /\ Sending(w)
  /\ worker' = [worker EXCEPT ![w] = "sent"]
  /\ since' = [since EXCEPT ![w] = now]
  /\ UNCHANGED <<now, closes, records, abandoned, scrape, rest, polls, scored>>

\* The interceptor's close: the server's counter goes up.
Closed(c) == closes' = closes \cup {[worker |-> c.worker, start |-> c.start, at |-> now]}

Close(w) ==
  /\ worker[w] = "sent" /\ since[w] < now
  /\ worker' = [worker EXCEPT ![w] = "served"]
  /\ Closed(Call(w))
  /\ UNCHANGED <<now, since, records, abandoned, scrape, rest, polls, scored>>

\* The server gets to a call nobody waits for any more, or never does.
CloseAbandoned(c) ==
  /\ ~scored /\ c.start < now
  /\ abandoned' = abandoned \ {c}
  /\ Closed(c)
  /\ UNCHANGED <<now, worker, since, records, scrape, rest, polls, scored>>

Recorded(w, ok) ==
  /\ worker' = [worker EXCEPT ![w] = "idle"]
  /\ since' = [since EXCEPT ![w] = now]
  /\ records' = records \cup {[worker |-> w, start |-> since[w], end |-> now, ok |-> ok]}
  /\ UNCHANGED <<now, scrape, rest, polls, scored>>

Complete(w) ==
  /\ worker[w] = "served"
  /\ Recorded(w, TRUE)
  /\ UNCHANGED <<closes, abandoned>>

\* The status is an error: one the server sent, or a deadline or a broken
\* connection that the server need not know of.
Fail(w) ==
  /\ worker[w] # "idle" /\ since[w] < now
  /\ Cardinality({r \in records : ~r.ok}) < MaxFailures
  /\ Recorded(w, FALSE)
  /\ abandoned' = IF worker[w] = "sent" THEN abandoned \cup {Call(w)} ELSE abandoned
  /\ UNCHANGED closes

-----------------------------------------------------------------------------
(* The series *)

\* time_ns() is evaluated first.
Stamp ==
  /\ ~scored /\ scrape = {} /\ rest <= now
  /\ scrape' = {now}
  /\ UNCHANGED <<now, worker, since, closes, records, abandoned, rest, polls, scored>>

\* The server answers the scrape, or it is lost.  The socket's timeout bounds
\* each wait for bytes and not the scrape.
Scraped ==
  \E t \in scrape :
    /\ polls' \in {polls, polls \cup {[at |-> t, read |-> now, total |-> Cardinality(closes)]}}
    /\ scrape' = {} /\ rest' = now + Interval
    /\ UNCHANGED <<now, worker, since, closes, records, abandoned, scored>>

-----------------------------------------------------------------------------
(* Time and the end *)

Tick ==
  /\ ~scored
  /\ \A w \in Workers : ~Sending(w)
  /\ \A w \in Workers : worker[w] # "idle" => now < since[w] + MaxLatency
  /\ \/ now < Duration
     \/ \E w \in Workers : worker[w] # "idle"
  /\ now' = now + 1
  /\ UNCHANGED <<worker, since, closes, records, abandoned, scrape, rest, polls, scored>>

\* The tool has let its last requests finish; the script ends the series and
\* waits for a scrape under way.
Stop ==
  /\ ~scored /\ now >= Duration
  /\ \A w \in Workers : worker[w] = "idle"
  /\ scrape = {}
  /\ scored' = TRUE
  /\ UNCHANGED <<now, worker, since, closes, records, abandoned, scrape, rest, polls>>

Next ==
  \/ Stamp \/ Scraped \/ Tick \/ Stop
  \/ \E w \in Workers : Send(w) \/ Close(w) \/ Complete(w) \/ Fail(w)
  \/ \E c \in abandoned : CloseAbandoned(c)

Spec == Init /\ [][Next]_vars

-----------------------------------------------------------------------------
(* Scoring *)

WindowStart == Min({r.end : r \in records}) + Warmup
WindowEnd == WindowStart + Measure

\* Mutation: every record is scored.
AllRecords == records

InWindow == {r \in records : WindowStart <= r.end /\ r.end < WindowEnd}

\* Mutation: the whole series is used.
AllSamples == polls

Inside == {s \in polls : WindowStart <= s.at /\ s.at <= WindowEnd}

FirstInside == CHOOSE s \in Inside : \A q \in Inside : s.at <= q.at
LastInside == CHOOSE s \in Inside : \A q \in Inside : s.at >= q.at

\* server_completions_in_window and requests_in_window; None below two samples.
ServerCounts == Cardinality(Inside) >= 2
ServerCount == LastInside.total - FirstInside.total
ClientCount == Cardinality(InWindow)

\* Achieved concurrency times the window's length, over the successes.
BusyTime == MapThenSumSet(LAMBDA r : r.end - r.start, {r \in InWindow : r.ok})

Scored == scored /\ records # {}

-----------------------------------------------------------------------------
Calls == [worker: Workers, start: 0 .. Duration]

TypeOK ==
  /\ now \in 0 .. Duration + MaxLatency
  /\ worker \in [Workers -> {"idle", "sent", "served"}]
  /\ since \in [Workers -> 0 .. Duration + MaxLatency + MaxStartup]
  /\ \A c \in closes : CallOf(c) \in Calls /\ c.start < c.at /\ c.at <= now
  /\ \A r \in records : CallOf(r) \in Calls /\ r.start < r.end /\ r.end <= now /\ r.ok \in BOOLEAN
  /\ abandoned \subseteq Calls
  /\ Cardinality(scrape) <= 1 /\ rest \in 0 .. now + Interval
  /\ \A s \in polls : s.at <= s.read /\ s.read <= now /\ s.total <= Cardinality(closes)
  /\ scored \in BOOLEAN

\* The two sides know of a call's end at different times, and one perhaps never.
ClosedBy(r) == \E c \in closes : CallOf(c) = CallOf(r) /\ c.at <= r.end
GivenUpBefore(c) == \E r \in records : CallOf(r) = CallOf(c) /\ r.end < c.at
InFlight(t) == {r \in records : r.start < t /\ t <= r.end}

\* The drift the report prints has three sources and no other: completions before
\* the first reading or after the last, calls in flight at that reading or at the
\* window's end, and calls the client gave up on.  What the last reading holds of
\* after the window, for coming late, was in flight at its end
\* (server_completions_in_window 109-112, agreement 529-531, sample_series 109).
DriftIsAccountedFor ==
  Scored /\ ServerCounts =>
    LET from == FirstInside.read
        to   == LastInside.read
        edge   == {r \in InWindow : r.end <= from \/ r.end >= to}
        unseen == {r \in InWindow : ~ClosedBy(r)}
        orphan == {c \in closes : from <= c.at /\ c.at <= to /\ GivenUpBefore(c)}
    IN  /\ ClientCount <= ServerCount + Cardinality(edge \cup unseen \cup InFlight(from))
        /\ ServerCount <= ClientCount + Cardinality(orphan) + Cardinality(InFlight(WindowEnd))

\* Little's law over the window credits a worker with no more than the window
\* and the part of one request that began before it (summarize 143-151).
AchievedConcurrencyIsBounded ==
  Scored => BusyTime <= Cardinality(Workers) * (Measure + MaxLatency - 1)

\* run_one gives the tool the warmup and the window from its own start, and the
\* window is anchored at the first completion: there is load up to the window's
\* end less the time to that completion, and never less (run-matrix.sh 154-156,
\* measurement_window 76-85).
LoadCoversAllButStartup ==
  Scored => \E r \in records : r.end + Min({q.end : q \in records}) >= WindowEnd
=============================================================================
