---------------------------- MODULE MCStatistics ----------------------------
(* TLC values for Statistics: the first request is any that starts around a  *)
(* full second, the others come from a few; three digits to the second and   *)
(* ten "nanoseconds" to the millisecond.                                     *)
EXTENDS Statistics

Requests(starts, latencies, statuses) ==
  {[start |-> s, end |-> s + l, status |-> st] :
     s \in starts, l \in latencies, st \in statuses}

AroundASecond(n) ==
  IF n = 0 THEN Requests(985 .. 1030, {0, 1, 9, 10, 15, 100}, Statuses)
  ELSE Requests({1003, 1009}, {0, 9, 15, 31, 100}, {"OK"})
=============================================================================
