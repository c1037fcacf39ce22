------------------------- MODULE MCBenchmarkServer -------------------------
(* TLC values for BenchmarkServer: 3-bit ints, so that a size or count of 4 *)
(* or more is negative in Java, and requests that reach every branch of the *)
(* handlers.                                                                *)
EXTENDS BenchmarkServer

Req(m, d, n, s) == [method |-> m, delayMs |-> d, count |-> n, size |-> s]

RequestList ==
  << Req("compute", 1, 0, 0), Req("payload", 0, 0, 5),
     Req("serverStream", 0, 6, 0), Req("serverStream", 1, 2, 0),
     Req("serverStream", 1, 0, 0), Req("bidiStream", 0, 1, 0) >>

AllRequests == {RequestList[i] : i \in DOMAIN RequestList}

\* Two calls differ in nothing but their requests, which never change: one of
\* the two ways to give them a pair of requests is enough.
OneOrder ==
  LET Place(c) == CHOOSE i \in DOMAIN RequestList : RequestList[i] = request[c]
      first == CHOOSE c \in Calls : TRUE
  IN  \A c \in Calls : Place(first) <= Place(c)

\* What loadgen/common/workload.sh sends, one of each kind.
LoadRequests ==
  { Req("echo", 0, 0, 0), Req("compute", 1, 0, 0), Req("payload", 0, 0, 3) }
=============================================================================
