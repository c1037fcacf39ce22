---------------------------- MODULE WindowProofs ----------------------------
(***************************************************************************)
(* What holds of Window for any number of workers, any times and any polls *)
(* that come late or are lost.  The argument: a worker's calls follow one  *)
(* another (Own), so each record and each of the server's closes belongs   *)
(* to a call of its own (Paired), and a reading has counted the closes of  *)
(* before it (Snapshots).  What calls take together is counted in ticks    *)
(* (Busy).                                                                 *)
(***************************************************************************)
EXTENDS Window, FiniteSetTheorems, TLAPS

Typed ==
  /\ now \in Nat /\ scored \in BOOLEAN /\ rest \in Nat
  /\ worker \in [Workers -> {"idle", "sent", "served"}]
  /\ since \in [Workers -> Nat]
  /\ closes \in SUBSET [worker: Workers, start: Nat, at: Nat] /\ IsFiniteSet(closes)
  /\ records \in SUBSET [worker: Workers, start: Nat, end: Nat, ok: BOOLEAN] /\ IsFiniteSet(records)
  /\ abandoned \in SUBSET [worker: Workers, start: Nat]
  /\ scrape \in SUBSET Nat
  /\ polls \in SUBSET [at: Nat, read: Nat, total: Nat]

\* Nothing has happened later than now.
Past ==
  /\ \A w \in Workers : worker[w] # "idle" => since[w] <= now
  /\ \A c \in closes : c.start < c.at /\ c.at <= now
  /\ \A r \in records : r.start < r.end /\ r.end <= now

\* What a worker has behind it when it sends, waits for an answer or takes it.
Own ==
  \A w \in Workers :
    /\ \A r \in records : r.worker = w => r.end <= since[w]
    /\ \A a \in abandoned : a.worker = w => a.start < since[w]
    /\ \A c \in closes : c.worker = w =>
         c.start <= since[w] /\ (worker[w] # "served" => c.start < since[w])
    /\ worker[w] = "served" => \E c \in closes : c.worker = w /\ c.start = since[w]

\* A record, a close or an abandoned call: two of the same call.
Same(x, y) == x.worker = y.worker /\ x.start = y.start

\* A call is closed once, and has a record unless its client is about to see the
\* close.
Paired ==
  /\ \A c, d \in closes : Same(c, d) => c = d
  /\ \A a \in abandoned : \A c \in closes : ~Same(a, c)
  /\ \A a \in abandoned : \E r \in records : Same(r, a)
  /\ \A c \in closes : (\E r \in records : Same(r, c))
                       \/ (worker[c.worker] = "served" /\ c.start = since[c.worker])
  /\ \A r, q \in records : r.worker = q.worker => r = q \/ r.end <= q.start \/ q.end <= r.start

\* C is what the sample s has counted.
Counted(s, C) ==
  /\ s.total = Cardinality(C)
  /\ \A c \in C : c.at <= s.read
  /\ \A c \in closes : c.at < s.read => c \in C

\* One scrape after another.
Snapshots ==
  /\ \A s \in polls : s.at <= s.read /\ s.read < rest /\ s.read <= now
  /\ \A t \in scrape : rest <= t /\ t <= now
  /\ \A s \in polls : \E C \in SUBSET closes : Counted(s, C)
  /\ \A s, q \in polls : s.at = q.at => s = q
  /\ \A s, q \in polls : s.at < q.at => s.read < q.read

\* A run is scored when everybody has stopped.
Stopped == scored => now >= Duration /\ \A w \in Workers : worker[w] = "idle"

WInv == Typed /\ Past /\ Own /\ Paired /\ Snapshots /\ Stopped

LEMMA DurationType == Duration \in Nat
  BY TimesAssumption DEF Duration

LEMMA WInvInit == Init => WInv
<1> SUFFICES ASSUME Init PROVE WInv
  OBVIOUS
<1>1. /\ now = 0 /\ worker \in [Workers -> {"idle", "sent", "served"}] /\ since \in [Workers -> Nat]
      /\ \A w \in Workers : worker[w] = "idle"
      /\ closes = {} /\ records = {} /\ abandoned = {}
      /\ scrape = {} /\ rest = 0 /\ polls = {} /\ scored = FALSE
  BY TimesAssumption DEF Init
<1> QED BY <1>1, FS_EmptySet DEF WInv, Typed, Past, Own, Paired, Snapshots, Stopped

LEMMA SendKeeps == ASSUME WInv, NEW w \in Workers, Send(w) PROVE WInv'
<1> USE DEF WInv
<1>1. /\ ~scored /\ worker[w] = "idle" /\ since[w] <= now
      /\ worker' = [worker EXCEPT ![w] = "sent"] /\ since' = [since EXCEPT ![w] = now]
      /\ now' = now /\ closes' = closes /\ records' = records /\ abandoned' = abandoned
      /\ scrape' = scrape /\ rest' = rest /\ polls' = polls /\ scored' = scored
  BY DEF Send, Sending
<1>2. Typed'
  BY <1>1 DEF Typed
<1>3. /\ \A v \in Workers : v # w => worker'[v] = worker[v] /\ since'[v] = since[v]
      /\ worker'[w] = "sent" /\ since'[w] = now /\ now \in Nat /\ since[w] \in Nat
  BY <1>1 DEF Typed
<1>4. Past'
  BY <1>1, <1>3 DEF Past
<1>5. Own'
  <2>1. \A r \in records : r.worker = w => r.end <= now
    BY <1>1 DEF Past
  <2>2. \A a \in abandoned : a.worker = w => a.start < now
    <3>1. \A n \in Nat : n < since[w] => n < now
      BY <1>1, <1>3
    <3> QED BY <3>1 DEF Own, Typed
  <2>3. \A c \in closes : c.worker = w => c.start < now /\ c.start <= now
    <3>1. \A n \in Nat : n < since[w] => n < now /\ n <= now
      BY <1>1, <1>3
    <3> QED BY <1>1, <3>1 DEF Own, Typed
  <2> QED BY <1>1, <1>3, <2>1, <2>2, <2>3 DEF Own
<1>6. Paired'
  BY <1>1, <1>3 DEF Paired, Same, Typed
<1>7. Snapshots'
  BY <1>1 DEF Snapshots, Counted
<1>8. Stopped'
  BY <1>1 DEF Stopped
<1> QED BY <1>2, <1>4, <1>5, <1>6, <1>7, <1>8

\* A close that is later than every reading spoils none of them.
LEMMA ClosedKeepsSnapshots ==
  ASSUME Snapshots, Typed, NEW x, closes' = closes \cup {x}, x.at = now,
         UNCHANGED <<now, scrape, rest, polls>>
  PROVE  Snapshots'
<1>1. ASSUME NEW s \in polls PROVE \E C \in SUBSET closes' : Counted(s, C)'
  <2>1. PICK C \in SUBSET closes : Counted(s, C)
    BY DEF Snapshots
  <2>2. s.read <= now /\ s.read \in Nat /\ now \in Nat
    BY DEF Snapshots, Typed
  <2>3. ~(x.at < s.read)
    BY <2>2
  <2>4. Counted(s, C)'
    BY <2>1, <2>3 DEF Counted
  <2> QED BY <2>4
<1> QED BY <1>1 DEF Snapshots

LEMMA CloseKeeps == ASSUME WInv, NEW w \in Workers, Close(w) PROVE WInv'
<1> DEFINE new == [worker |-> w, start |-> since[w], at |-> now]
<1> USE DEF WInv
<1>1. /\ worker[w] = "sent" /\ since[w] < now
      /\ worker' = [worker EXCEPT ![w] = "served"] /\ closes' = closes \cup {new}
      /\ now' = now /\ since' = since /\ records' = records /\ abandoned' = abandoned
      /\ scrape' = scrape /\ rest' = rest /\ polls' = polls /\ scored' = scored
  BY DEF Close, Closed, Call
<1>2. Typed'
  <2>1. new \in [worker: Workers, start: Nat, at: Nat]
    BY DEF Typed
  <2> HIDE DEF new
  <2>2. IsFiniteSet(closes')
    BY <1>1, FS_AddElement DEF Typed
  <2> QED BY <1>1, <2>1, <2>2 DEF Typed
<1>3. /\ \A v \in Workers : v # w => worker'[v] = worker[v]
      /\ worker'[w] = "served" /\ now \in Nat /\ since[w] \in Nat
      /\ new.worker = w /\ new.start = since[w] /\ new.at = now
  BY <1>1 DEF Typed
<1> HIDE DEF new
<1>4. Past'
  BY <1>1, <1>3 DEF Past
<1>5. Own'
  BY <1>1, <1>3 DEF Own
<1>6. Paired'
  <2>1. \A c \in closes : ~Same(c, new)
    <3>1. \A n \in Nat : n < since[w] => n # since[w]
      BY <1>3
    <3> QED BY <1>1, <1>3, <3>1 DEF Own, Same, Typed
  <2>2. \A a \in abandoned : ~Same(a, new)
    <3>1. \A n \in Nat : n < since[w] => n # since[w]
      BY <1>3
    <3> QED BY <1>3, <3>1 DEF Own, Same, Typed
  <2>3. \A c, d \in closes' : Same(c, d) => c = d
    BY <1>1, <2>1 DEF Paired, Same
  <2>4. \A a \in abandoned : \A c \in closes' : ~Same(a, c)
    BY <1>1, <2>2 DEF Paired
  <2>5. \A c \in closes' : (\E r \in records : Same(r, c))
                           \/ (worker'[c.worker] = "served" /\ c.start = since[c.worker])
    BY <1>1, <1>3 DEF Paired, Typed
  <2> QED BY <1>1, <2>3, <2>4, <2>5 DEF Paired, Same
<1>7. Snapshots'
  BY <1>1, <1>3, ClosedKeepsSnapshots
<1>8. Stopped'
  BY <1>1 DEF Stopped
<1> QED BY <1>2, <1>4, <1>5, <1>6, <1>7, <1>8

LEMMA CloseAbandonedKeeps == ASSUME WInv, NEW a \in abandoned, CloseAbandoned(a) PROVE WInv'
<1> DEFINE new == [worker |-> a.worker, start |-> a.start, at |-> now]
<1> USE DEF WInv
<1>1. /\ ~scored /\ a.start < now
      /\ abandoned' = abandoned \ {a} /\ closes' = closes \cup {new}
      /\ now' = now /\ worker' = worker /\ since' = since /\ records' = records
      /\ scrape' = scrape /\ rest' = rest /\ polls' = polls /\ scored' = scored
  BY DEF CloseAbandoned, Closed
<1>2. Typed'
  <2>1. new \in [worker: Workers, start: Nat, at: Nat]
    BY DEF Typed
  <2> HIDE DEF new
  <2>2. IsFiniteSet(closes')
    BY <1>1, FS_AddElement DEF Typed
  <2> QED BY <1>1, <2>1, <2>2 DEF Typed
<1>3. /\ now \in Nat /\ a.worker \in Workers /\ a = [worker |-> a.worker, start |-> a.start]
      /\ a.start \in Nat /\ since[a.worker] \in Nat
      /\ new.worker = a.worker /\ new.start = a.start /\ new.at = now
  BY DEF Typed
<1> HIDE DEF new
<1>4. Past'
  BY <1>1, <1>3 DEF Past
<1>5. Own'
  <2>1. a.start < since[a.worker] /\ a.start <= since[a.worker]
    BY <1>3 DEF Own
  <2> QED BY <1>1, <1>3, <2>1 DEF Own
<1>6. Paired'
  <2>1. \A c \in closes : ~Same(a, c) /\ ~Same(c, new) /\ ~Same(new, c)
    BY <1>3 DEF Paired, Same
  <2>2. \A b \in abandoned : Same(b, new) => b = a
    BY <1>3 DEF Same, Typed
  <2>3. \E r \in records : Same(r, new)
    BY <1>3 DEF Paired, Same
  <2>4. \A c, d \in closes' : Same(c, d) => c = d
    BY <1>1, <2>1 DEF Paired
  <2>5. \A b \in abandoned' : \A c \in closes' : ~Same(b, c)
    BY <1>1, <2>2 DEF Paired
  <2>6. \A c \in closes' : (\E r \in records : Same(r, c))
                           \/ (worker[c.worker] = "served" /\ c.start = since[c.worker])
    BY <1>1, <2>3 DEF Paired
  <2> QED BY <1>1, <2>4, <2>5, <2>6 DEF Paired, Same
<1>7. Snapshots'
  BY <1>1, <1>3, ClosedKeepsSnapshots
<1>8. Stopped'
  BY <1>1 DEF Stopped
<1> QED BY <1>2, <1>4, <1>5, <1>6, <1>7, <1>8

\* What a record adds, whatever its status: abandoned gains the call or does not.
LEMMA RecordedKeeps ==
  ASSUME WInv, NEW w \in Workers, NEW ok \in BOOLEAN, Recorded(w, ok), closes' = closes,
         worker[w] # "idle", since[w] < now,
         \/ abandoned' = abandoned
         \/ worker[w] = "sent" /\ abandoned' = abandoned \cup {Call(w)}
  PROVE  WInv'
<1> DEFINE new == [worker |-> w, start |-> since[w], end |-> now, ok |-> ok]
           call == Call(w)
<1> USE DEF WInv
<1>1. /\ worker' = [worker EXCEPT ![w] = "idle"] /\ since' = [since EXCEPT ![w] = now]
      /\ records' = records \cup {new} /\ closes' = closes
      /\ now' = now /\ scrape' = scrape /\ rest' = rest /\ polls' = polls /\ scored' = scored
  BY DEF Recorded
<1>2. Typed'
  <2>1. new \in [worker: Workers, start: Nat, end: Nat, ok: BOOLEAN]
        /\ call \in [worker: Workers, start: Nat]
    BY DEF Typed, Call
  <2> HIDE DEF new
  <2>2. IsFiniteSet(records')
    BY <1>1, FS_AddElement DEF Typed
  <2>3. abandoned' \in SUBSET [worker: Workers, start: Nat]
    BY <2>1 DEF Typed
  <2> QED BY <1>1, <2>1, <2>2, <2>3 DEF Typed
<1>3. /\ \A v \in Workers : v # w => worker'[v] = worker[v] /\ since'[v] = since[v]
      /\ worker'[w] = "idle" /\ since'[w] = now /\ now \in Nat /\ since[w] \in Nat
  BY <1>1 DEF Typed
<1>4. /\ new.worker = w /\ new.start = since[w] /\ new.end = now
      /\ call.worker = w /\ call.start = since[w]
      /\ \A a \in abandoned' : a \in abandoned \/ (a = call /\ worker[w] = "sent")
  BY DEF Call
<1> HIDE DEF new, call
<1>5. Past'
  BY <1>1, <1>3, <1>4 DEF Past
<1>6. \A n \in Nat : n <= since[w] => n < now /\ n <= now
  BY <1>3
<1>7. Own'
  <2>1. \A r \in records' : r.worker = w => r.end <= now
    BY <1>1, <1>3, <1>4 DEF Past
  <2>2. \A a \in abandoned' : a.worker = w => a.start < now
    <3>1. \A a \in abandoned : a.worker = w => a.start < now
      <4>1. \A n \in Nat : n < since[w] => n < now
        BY <1>3
      <4> QED BY <4>1 DEF Own, Typed
    <3> QED BY <1>4, <3>1
  <2>3. \A c \in closes : c.worker = w => c.start < now /\ c.start <= now
    BY <1>6 DEF Own, Typed
  <2>4. \A v \in Workers : v # w =>
          /\ \A r \in records' : r.worker = v => r \in records
          /\ \A a \in abandoned' : a.worker = v => a \in abandoned
    BY <1>1, <1>4
  <2> QED BY <1>1, <1>3, <2>1, <2>2, <2>3, <2>4 DEF Own
<1>8. Paired'
  <2>1. \A a \in abandoned' : \A c \in closes : ~Same(a, c)
    <3>1. ASSUME worker[w] = "sent", NEW c \in closes PROVE ~Same(call, c)
      <4>1. \A n \in Nat : n < since[w] => n # since[w]
        BY <1>3
      <4> QED BY <1>4, <3>1, <4>1 DEF Own, Same, Typed
    <3> QED BY <1>4, <3>1 DEF Paired
  <2>2. \A a \in abandoned' : \E r \in records' : Same(r, a)
    <3>1. Same(new, call)
      BY <1>4 DEF Same
    <3> QED BY <1>1, <1>4, <3>1 DEF Paired
  <2>3. \A c \in closes : (\E r \in records' : Same(r, c))
                          \/ (worker'[c.worker] = "served" /\ c.start = since'[c.worker])
    <3> SUFFICES ASSUME NEW c \in closes
                 PROVE  \/ \E r \in records' : Same(r, c)
                        \/ worker'[c.worker] = "served" /\ c.start = since'[c.worker]
      OBVIOUS
    <3>1. c.worker \in Workers
      BY DEF Typed
    <3>2. CASE c.worker = w /\ c.start = since[w]
      <4>1. Same(new, c)
        BY <1>4, <3>2 DEF Same
      <4> QED BY <1>1, <4>1
    <3>3. CASE ~(c.worker = w /\ c.start = since[w])
      BY <1>1, <1>3, <3>1, <3>3 DEF Paired
    <3> QED BY <3>2, <3>3
  <2>4. \A r, q \in records' : r.worker = q.worker => r = q \/ r.end <= q.start \/ q.end <= r.start
    <3>1. \A r \in records : r.worker = w => r.end <= new.start
      BY <1>4 DEF Own
    <3> QED BY <1>1, <1>4, <3>1 DEF Paired
  <2> QED BY <1>1, <2>1, <2>2, <2>3, <2>4 DEF Paired, Same
<1>9. Snapshots'
  BY <1>1 DEF Snapshots, Counted
<1>10. Stopped'
  BY <1>1, <1>3 DEF Stopped
<1> QED BY <1>2, <1>5, <1>7, <1>8, <1>9, <1>10

\* Whom the server has served has waited.
LEMMA ServedHasWaited ==
  ASSUME WInv, NEW w \in Workers, worker[w] = "served" PROVE since[w] < now
<1>1. PICK c \in closes : c.worker = w /\ c.start = since[w]
  BY DEF WInv, Own
<1>2. c.start < c.at /\ c.at <= now /\ c.start \in Nat /\ c.at \in Nat /\ now \in Nat
  BY DEF WInv, Past, Typed
<1> QED BY <1>1, <1>2

LEMMA CompleteKeeps == ASSUME WInv, NEW w \in Workers, Complete(w) PROVE WInv'
<1>1. /\ worker[w] = "served" /\ Recorded(w, TRUE) /\ closes' = closes /\ abandoned' = abandoned
  BY DEF Complete
<1> QED BY <1>1, ServedHasWaited, RecordedKeeps

LEMMA FailKeeps == ASSUME WInv, NEW w \in Workers, Fail(w) PROVE WInv'
<1>1. /\ worker[w] # "idle" /\ since[w] < now /\ Recorded(w, FALSE) /\ closes' = closes
      /\ abandoned' = IF worker[w] = "sent" THEN abandoned \cup {Call(w)} ELSE abandoned
  BY DEF Fail
<1> QED BY <1>1, RecordedKeeps

LEMMA StampKeeps == ASSUME WInv, Stamp PROVE WInv'
<1> USE DEF WInv
<1>1. /\ rest <= now /\ scrape' = {now} /\ now' = now /\ worker' = worker /\ since' = since
      /\ closes' = closes /\ records' = records /\ abandoned' = abandoned /\ rest' = rest
      /\ polls' = polls /\ scored' = scored
  BY DEF Stamp
<1>2. Typed'
  BY <1>1 DEF Typed
<1>3. Past' /\ Own' /\ Paired' /\ Stopped'
  BY <1>1 DEF Past, Own, Paired, Same, Stopped
<1>4. Snapshots'
  BY <1>1 DEF Snapshots, Counted, Typed
<1> QED BY <1>2, <1>3, <1>4

LEMMA ScrapedKeeps == ASSUME WInv, Scraped PROVE WInv'
<1> USE DEF WInv
<1>1. PICK t \in scrape :
        /\ polls' \in {polls, polls \cup {[at |-> t, read |-> now, total |-> Cardinality(closes)]}}
        /\ scrape' = {} /\ rest' = now + Interval
        /\ now' = now /\ worker' = worker /\ since' = since /\ closes' = closes
        /\ records' = records /\ abandoned' = abandoned /\ scored' = scored
  BY DEF Scraped
<1> DEFINE new == [at |-> t, read |-> now, total |-> Cardinality(closes)]
<1>2. /\ new \in [at: Nat, read: Nat, total: Nat]
      /\ new.at = t /\ new.read = now /\ new.total = Cardinality(closes)
      /\ now \in Nat /\ t \in Nat /\ rest \in Nat /\ rest <= t /\ t <= now
      /\ \A s \in polls' : s \in polls \/ s = new
  BY <1>1, FS_CardinalityType DEF Typed, Snapshots
<1> HIDE DEF new
<1>3. Typed'
  BY <1>1, <1>2, TimesAssumption DEF Typed
<1>4. Past' /\ Own' /\ Paired' /\ Stopped'
  BY <1>1 DEF Past, Own, Paired, Same, Stopped
<1>5. Snapshots'
  <2>1. rest' \in Nat /\ now < rest' /\ \A n \in Nat : n < rest => n < rest' /\ n < t /\ n < now
    BY <1>1, <1>2, TimesAssumption
  <2>2. \A s \in polls : s.at \in Nat /\ s.read \in Nat /\ s.at <= s.read /\ s.read < rest
    BY DEF Snapshots, Typed
  <2>3. \A s \in polls : s.at < t /\ s.read < t /\ s.read < now
    <3> SUFFICES ASSUME NEW s \in polls PROVE s.at < t /\ s.read < t /\ s.read < now
      OBVIOUS
    <3>1. s.at \in Nat /\ s.read \in Nat /\ s.at <= s.read /\ s.read < rest
      BY <2>2
    <3> QED BY <1>2, <3>1
  <2>4. Counted(new, closes)
    BY <1>2 DEF Counted, Past
  <2>5. \A s \in polls' : \E C \in SUBSET closes : Counted(s, C)
    BY <1>2, <2>4 DEF Snapshots
  <2>6. \A s \in polls' : s.at <= s.read /\ s.read < rest' /\ s.read <= now
    BY <1>2, <2>1, <2>2 DEF Snapshots
  <2>7. \A s \in polls : s.at # t /\ ~(t < s.at)
    <3> SUFFICES ASSUME NEW s \in polls PROVE s.at # t /\ ~(t < s.at)
      OBVIOUS
    <3>1. s.at \in Nat /\ s.at < t
      BY <2>2, <2>3
    <3> QED BY <1>2, <3>1
  <2>8. \A s, q \in polls' : s.at = q.at => s = q
    BY <1>2, <2>7 DEF Snapshots
  <2>9. \A s, q \in polls' : s.at < q.at => s.read < q.read
    <3>1. ~(t < t)
      BY <1>2
    <3> QED BY <1>2, <2>3, <2>7, <3>1 DEF Snapshots
  <2> QED BY <1>1, <2>5, <2>6, <2>8, <2>9 DEF Snapshots, Counted
<1> QED BY <1>3, <1>4, <1>5

LEMMA TickKeeps == ASSUME WInv, Tick PROVE WInv'
<1> USE DEF WInv
<1>1. /\ now' = now + 1 /\ ~scored /\ worker' = worker /\ since' = since /\ closes' = closes
      /\ records' = records /\ abandoned' = abandoned /\ scrape' = scrape /\ rest' = rest
      /\ polls' = polls /\ scored' = scored
  BY DEF Tick
<1>2. Typed'
  BY <1>1 DEF Typed
<1>3. \A n \in Nat : n <= now => n <= now'
  BY <1>1 DEF Typed
<1>4. Past'
  BY <1>1, <1>3 DEF Past, Typed
<1>5. Own' /\ Paired' /\ Stopped'
  BY <1>1 DEF Own, Paired, Same, Stopped
<1>6. Snapshots'
  BY <1>1, <1>3 DEF Snapshots, Counted, Typed
<1> QED BY <1>2, <1>4, <1>5, <1>6

LEMMA WInvStep == WInv /\ [Next]_vars => WInv'
<1> SUFFICES ASSUME WInv, [Next]_vars PROVE WInv'
  OBVIOUS
<1>1. CASE Stop
  BY <1>1 DEF Stop, WInv, Typed, Past, Own, Paired, Same, Snapshots, Counted, Stopped
<1>2. CASE UNCHANGED vars
  BY <1>2 DEF vars, WInv, Typed, Past, Own, Paired, Same, Snapshots, Counted, Stopped
<1> QED BY <1>1, <1>2, StampKeeps, ScrapedKeeps, TickKeeps, SendKeeps, CloseKeeps, CompleteKeeps,
           FailKeeps, CloseAbandonedKeeps DEF Next

THEOREM PairingHolds == Spec => []WInv
BY WInvInit, WInvStep, PTL DEF Spec

-----------------------------------------------------------------------------
(* Types *)

\* Nobody waits longer than the request timeout, and nobody sends late.
Deadlines ==
  /\ now <= Duration + MaxLatency
  /\ rest <= now + Interval
  /\ Cardinality(scrape) <= 1
  /\ \A w \in Workers :
       /\ since[w] <= Duration + MaxLatency + MaxStartup
       /\ worker[w] # "idle" => since[w] < Duration /\ now <= since[w] + MaxLatency
  /\ \A c \in closes : c.start < Duration
  /\ \A r \in records : r.start < Duration
  /\ \A a \in abandoned : a.start < Duration

LEMMA DeadlinesInit == Init => Deadlines
<1> SUFFICES ASSUME Init PROVE Deadlines
  OBVIOUS
<1>1. /\ now = 0 /\ \A w \in Workers : worker[w] = "idle" /\ since[w] \in Nat /\ since[w] <= MaxStartup
      /\ closes = {} /\ records = {} /\ abandoned = {} /\ rest = 0 /\ Cardinality(scrape) = 0
  BY TimesAssumption, FS_EmptySet DEF Init
<1> QED BY <1>1, DurationType, TimesAssumption DEF Deadlines

LEMMA DeadlinesStep == WInv /\ Deadlines /\ [Next]_vars => Deadlines'
<1> SUFFICES ASSUME WInv, Deadlines, [Next]_vars PROVE Deadlines'
  OBVIOUS
<1>t. /\ Duration \in Nat /\ MaxLatency \in Nat /\ MaxStartup \in Nat /\ Interval \in Nat
      /\ now \in Nat /\ rest \in Nat
      /\ since \in [Workers -> Nat] /\ worker \in [Workers -> {"idle", "sent", "served"}]
  BY DurationType, TimesAssumption DEF WInv, Typed
<1>1. ASSUME NEW w \in Workers, Send(w) PROVE Deadlines'
  <2>1. now <= now + MaxLatency /\ now < Duration => now <= Duration + MaxLatency + MaxStartup
    BY <1>t
  <2> QED BY <1>1, <1>t, <2>1 DEF Send, Sending, Deadlines
<1>2. ASSUME NEW w \in Workers, Close(w) PROVE Deadlines'
  <2>1. /\ worker[w] = "sent" /\ worker' = [worker EXCEPT ![w] = "served"]
        /\ closes' = closes \cup {[worker |-> w, start |-> since[w], at |-> now]}
        /\ now' = now /\ since' = since /\ records' = records /\ abandoned' = abandoned
        /\ scrape' = scrape /\ rest' = rest
    BY <1>2 DEF Close, Closed, Call
  <2>2. \A v \in Workers : worker'[v] # "idle" => worker[v] # "idle"
    BY <1>t, <2>1
  <2>3. \A c \in closes' : c \in closes \/ c.start = since[w]
    BY <2>1
  <2> QED BY <2>1, <2>2, <2>3 DEF Deadlines
<1>3. ASSUME NEW c \in abandoned, CloseAbandoned(c) PROVE Deadlines'
  BY <1>3 DEF CloseAbandoned, Closed, Deadlines
<1>4. ASSUME NEW w \in Workers, Complete(w) \/ Fail(w) PROVE Deadlines'
  <2>1. /\ worker[w] # "idle" /\ worker' = [worker EXCEPT ![w] = "idle"]
        /\ since' = [since EXCEPT ![w] = now] /\ closes' = closes
        /\ now' = now /\ scrape' = scrape /\ rest' = rest
        /\ \A r \in records' : r \in records \/ r.start = since[w]
        /\ \A a \in abandoned' : a \in abandoned \/ a.start = since[w]
    BY <1>4 DEF Complete, Fail, Recorded, Call
  <2>2. \A v \in Workers : worker'[v] # "idle" => worker[v] # "idle" /\ since'[v] = since[v]
    BY <1>t, <2>1
  <2>3. \A v \in Workers : since'[v] = since[v] \/ since'[v] = now
    BY <1>t, <2>1
  <2>4. now <= Duration + MaxLatency + MaxStartup
    BY <1>t DEF Deadlines
  <2> QED BY <2>1, <2>2, <2>3, <2>4 DEF Deadlines
<1>5. CASE Stamp
  <2>1. Cardinality({now}) = 1
    BY FS_Singleton
  <2> QED BY <1>5, <2>1 DEF Stamp, Deadlines
<1>6. CASE Scraped
  <2>1. /\ now' = now /\ rest' = now + Interval /\ scrape' = {} /\ worker' = worker /\ since' = since
        /\ closes' = closes /\ records' = records /\ abandoned' = abandoned
    BY <1>6 DEF Scraped
  <2>2. Cardinality({}) <= 1
    BY FS_EmptySet
  <2> QED BY <1>t, <2>1, <2>2 DEF Deadlines
<1>7. CASE Tick
  <2>1. /\ now' = now + 1 /\ worker' = worker /\ since' = since /\ closes' = closes
        /\ records' = records /\ abandoned' = abandoned /\ scrape' = scrape /\ rest' = rest
        /\ \A w \in Workers : worker[w] # "idle" => now < since[w] + MaxLatency
        /\ now < Duration \/ \E w \in Workers : worker[w] # "idle"
    BY <1>7 DEF Tick
  <2>2. \A w \in Workers : worker[w] # "idle" => now + 1 <= since[w] + MaxLatency
    BY <1>t, <2>1
  <2>3. now + 1 <= Duration + MaxLatency
    <3>1. CASE now < Duration
      BY <1>t, <3>1, TimesAssumption
    <3>2. ASSUME NEW w \in Workers, worker[w] # "idle" PROVE now + 1 <= Duration + MaxLatency
      <4>1. since[w] < Duration /\ since[w] \in Nat /\ now < since[w] + MaxLatency
        BY <1>t, <2>1, <3>2 DEF Deadlines
      <4> QED BY <1>t, <4>1
    <3> QED BY <2>1, <3>1, <3>2
  <2>4. rest <= now + 1 + Interval
    BY <1>t DEF Deadlines
  <2> QED BY <2>1, <2>2, <2>3, <2>4 DEF Deadlines
<1>8. CASE Stop \/ UNCHANGED vars
  BY <1>8 DEF Stop, vars, Deadlines
<1> QED BY <1>1, <1>2, <1>3, <1>4, <1>5, <1>6, <1>7, <1>8 DEF Next

\* Every variable keeps its type, and the run ends within a timeout of its time.
THEOREM TypeCorrect == Spec => []TypeOK
<1>1. WInv /\ Deadlines => TypeOK
  <2> SUFFICES ASSUME WInv, Deadlines PROVE TypeOK
    OBVIOUS
  <2> USE DEF WInv, Typed, Deadlines
  <2>t. Duration \in Nat /\ MaxLatency \in Nat /\ MaxStartup \in Nat /\ Interval \in Nat
    BY DurationType, TimesAssumption
  <2>1. now \in 0 .. Duration + MaxLatency /\ rest \in 0 .. now + Interval
    BY <2>t
  <2>2. since \in [Workers -> 0 .. Duration + MaxLatency + MaxStartup]
    <3>1. \A w \in Workers : since[w] \in 0 .. Duration + MaxLatency + MaxStartup
      BY <2>t
    <3> QED BY <3>1
  <2>3. \A n \in Nat : n < Duration => n \in 0 .. Duration
    BY <2>t
  <2>4. \A c \in closes : CallOf(c) \in Calls
    BY <2>3 DEF CallOf, Calls
  <2>5. \A r \in records : CallOf(r) \in Calls /\ r.ok \in BOOLEAN
    BY <2>3 DEF CallOf, Calls
  <2>6. abandoned \subseteq Calls
    BY <2>3 DEF Calls
  <2>7. \A s \in polls : s.total <= Cardinality(closes)
    <3> SUFFICES ASSUME NEW s \in polls PROVE s.total <= Cardinality(closes)
      OBVIOUS
    <3>1. PICK C \in SUBSET closes : s.total = Cardinality(C)
      BY DEF Snapshots, Counted
    <3> QED BY <3>1, FS_Subset
  <2> QED BY <2>1, <2>2, <2>4, <2>5, <2>6, <2>7 DEF TypeOK, Past, Snapshots
<1>2. WInv /\ Deadlines /\ [Next]_vars => (WInv /\ Deadlines)'
  BY WInvStep, DeadlinesStep
<1> QED BY <1>1, <1>2, WInvInit, DeadlinesInit, PTL DEF Spec

-----------------------------------------------------------------------------
(* The drift *)

\* Whatever is not empty among the naturals has a least element.
LEMMA LeastExists ==
  ASSUME NEW S \in SUBSET Nat, S # {}
  PROVE  \E x \in S : \A y \in S : x <= y
<1> DEFINE R == {ss \in Nat \X Nat : ss[1] < ss[2]}
<1>1. IsWellFoundedOn(R, Nat)
  BY NatLessThanWellFounded DEF OpToRel
<1>2. PICK x \in S : \A y \in S : <<y, x>> \notin R
  <2> HIDE DEF R
  <2> QED BY <1>1, WFMin
<1>3. ASSUME NEW y \in S PROVE x <= y
  <2>1. x \in Nat /\ y \in Nat /\ ~(y < x)
    BY <1>2
  <2> QED BY <2>1
<1> QED BY <1>3

LEMMA WindowType ==
  ASSUME WInv, records # {}
  PROVE  /\ WindowStart \in Nat /\ WindowEnd \in Nat /\ WindowEnd = WindowStart + Measure
         /\ Duration <= WindowEnd
<1> DEFINE E == {r.end : r \in records}
<1>1. E \in SUBSET Nat /\ E # {}
  BY DEF WInv, Typed
<1> HIDE DEF E
<1>2. Min(E) \in E
  BY <1>1, LeastExists DEF Min
<1>3. Min(E) \in Nat
  BY <1>1, <1>2
<1> QED BY <1>3, TimesAssumption DEF WindowStart, WindowEnd, Duration, E

\* The first and the last poll in the window.
LEMMA EdgesExist ==
  ASSUME WInv, Inside # {}
  PROVE  /\ FirstInside \in Inside /\ LastInside \in Inside
         /\ \A s \in Inside : FirstInside.at <= s.at /\ s.at <= LastInside.at
<1>1. \A s \in Inside : s.at \in Nat /\ s.at <= now /\ now \in Nat
  <2> SUFFICES ASSUME NEW s \in Inside PROVE s.at \in Nat /\ s.at <= now /\ now \in Nat
    OBVIOUS
  <2>1. /\ s.at \in Nat /\ s.read \in Nat /\ now \in Nat /\ s.at <= s.read /\ s.read <= now
    BY DEF WInv, Typed, Snapshots, Inside
  <2> QED BY <2>1
<1>2. \E s \in Inside : \A q \in Inside : s.at <= q.at
  <2> DEFINE A == {s.at : s \in Inside}
  <2>1. A \in SUBSET Nat /\ A # {}
    BY <1>1
  <2>2. PICK x \in A : \A y \in A : x <= y
    <3> HIDE DEF A
    <3> QED BY <2>1, LeastExists
  <2> QED BY <2>2
<1>3. \E s \in Inside : \A q \in Inside : s.at >= q.at
  <2> DEFINE A == {now - s.at : s \in Inside}
  <2>1. A \in SUBSET Nat /\ A # {}
    BY <1>1
  <2>2. PICK x \in A : \A y \in A : x <= y
    <3> HIDE DEF A
    <3> QED BY <2>1, LeastExists
  <2>3. PICK s \in Inside : x = now - s.at
    OBVIOUS
  <2>4. ASSUME NEW q \in Inside PROVE s.at >= q.at
    <3>1. now - s.at <= now - q.at
      BY <2>2, <2>3
    <3> QED BY <1>1, <3>1
  <2> QED BY <2>4
<1>4. FirstInside \in Inside /\ \A q \in Inside : FirstInside.at <= q.at
  BY <1>2 DEF FirstInside
<1>5. LastInside \in Inside /\ \A q \in Inside : LastInside.at >= q.at
  BY <1>3 DEF LastInside
<1> QED BY <1>1, <1>4, <1>5

\* A later sample has counted what an earlier one had.
LEMMA CountsGrow ==
  ASSUME WInv, NEW s \in polls, NEW q \in polls, s.at <= q.at
  PROVE  \E C, D \in SUBSET closes : C \subseteq D /\ Counted(s, C) /\ Counted(q, D)
<1>1. PICK C \in SUBSET closes : Counted(s, C)
  BY DEF WInv, Snapshots
<1>2. PICK D \in SUBSET closes : Counted(q, D)
  BY DEF WInv, Snapshots
<1>3. CASE s = q
  BY <1>1, <1>3
<1>4. CASE s # q
  <2>1. s.at < q.at
    <3>1. s.at # q.at /\ s.at \in Nat /\ q.at \in Nat
      BY <1>4 DEF WInv, Snapshots, Typed
    <3> QED BY <3>1
  <2>2. s.read < q.read /\ s.read \in Nat /\ q.read \in Nat
    BY <2>1 DEF WInv, Snapshots, Typed
  <2>3. ASSUME NEW c \in C PROVE c \in D
    <3>1. c.at \in Nat /\ c.at <= s.read
      BY <1>1 DEF WInv, Typed, Counted
    <3>2. c.at < q.read
      BY <2>2, <3>1
    <3> QED BY <1>2, <3>2 DEF Counted
  <2> QED BY <1>1, <1>2, <2>3
<1> QED BY <1>3, <1>4

\* What is in E is at most E.
LEMMA PartBound ==
  ASSUME NEW M, IsFiniteSet(M), NEW E, IsFiniteSet(E)
  PROVE  /\ IsFiniteSet(M \ E)
         /\ Cardinality(M) \in Nat /\ Cardinality(E) \in Nat /\ Cardinality(M \ E) \in Nat
         /\ Cardinality(M) <= Cardinality(M \ E) + Cardinality(E)
<1>1. IsFiniteSet(M \ E) /\ Cardinality(M \ E) = Cardinality(M) - Cardinality(M \cap E)
  BY FS_Difference
<1>2. Cardinality(M \cap E) <= Cardinality(E) /\ IsFiniteSet(M \cap E)
  BY FS_Subset
<1> QED BY <1>1, <1>2, FS_CardinalityType

\* Two of the same call are the same record, or the same close.
LEMMA OneOfACall ==
  ASSUME WInv
  PROVE  /\ \A r, q \in records : Same(r, q) => r = q
         /\ \A c, d \in closes : Same(c, d) => c = d
<1>1. ASSUME NEW r \in records, NEW q \in records, Same(r, q) PROVE r = q
  <2>1. /\ r.worker = q.worker /\ r.start = q.start
        /\ r.start \in Nat /\ r.end \in Nat /\ q.end \in Nat /\ r.start < r.end /\ q.start < q.end
    BY <1>1 DEF WInv, Typed, Past, Same
  <2>2. ~(r.end <= q.start) /\ ~(q.end <= r.start)
    BY <2>1
  <2> QED BY <2>1, <2>2 DEF WInv, Paired
<1> QED BY <1>1 DEF WInv, Paired

\* What is used of the two readings below: S are the closes between them.
Between(S, a, b) ==
  /\ S \subseteq closes /\ a \in Nat /\ b \in Nat
  /\ \A c \in S : a <= c.at /\ c.at <= b
  /\ \A c \in closes : a < c.at /\ c.at < b => c \in S

\* Records of calls that began after the one reading, ended before the other and were
\* closed in time: the closes are counted.
LEMMA MiddleIsCounted ==
  ASSUME WInv, NEW S, NEW a, NEW b, Between(S, a, b), NEW M \in SUBSET records,
         \A r \in M : a <= r.start /\ r.end < b /\ ClosedBy(r)
  PROVE  Cardinality(M) <= Cardinality(S)
<1> DEFINE f == [r \in M |-> CHOOSE c \in S : Same(r, c)]
<1>1. ASSUME NEW r \in M PROVE f[r] \in S /\ Same(r, f[r])
  <2>1. PICK c \in closes : CallOf(c) = CallOf(r) /\ c.at <= r.end
    BY DEF ClosedBy
  <2>2. Same(r, c)
    BY <2>1 DEF CallOf, Same
  <2>3. a < c.at /\ c.at < b
    <3>1. /\ a \in Nat /\ b \in Nat /\ a <= r.start /\ r.end < b /\ c.at <= r.end
          /\ c.start < c.at /\ c.start = r.start
          /\ r.start \in Nat /\ r.end \in Nat /\ c.at \in Nat
      BY <2>1, <2>2 DEF Between, Same, WInv, Typed, Past
    <3> QED BY <3>1
  <2> QED BY <2>2, <2>3 DEF Between
<1>2. f \in [M -> S]
  BY <1>1
<1>3. ASSUME NEW r \in M, NEW q \in M, f[r] = f[q] PROVE r = q
  <2>1. Same(r, f[r]) /\ Same(q, f[r])
    BY <1>1, <1>3
  <2> HIDE DEF f
  <2> QED BY <2>1, OneOfACall DEF Same
<1> HIDE DEF f
<1>4. f \in Injection(M, S)
  BY <1>2, <1>3 DEF Injection, IsInjective
<1>5. IsFiniteSet(S)
  BY FS_Subset DEF Between, WInv, Typed
<1> QED BY <1>4, <1>5, FS_Injection

\* Closes whose calls have a record in R, one each.
LEMMA RecordedOnce ==
  ASSUME WInv, NEW S \in SUBSET closes, NEW R \in SUBSET records,
         \A c \in S : \E r \in R : Same(r, c)
  PROVE  Cardinality(S) <= Cardinality(R)
<1> DEFINE f == [c \in S |-> CHOOSE r \in R : Same(r, c)]
<1>1. \A c \in S : f[c] \in R /\ Same(f[c], c)
  OBVIOUS
<1> HIDE DEF f
<1>2. f \in [S -> R]
  BY <1>1 DEF f
<1>3. ASSUME NEW c \in S, NEW d \in S, f[c] = f[d] PROVE c = d
  BY <1>1, <1>3, OneOfACall DEF Same
<1>4. f \in Injection(S, R)
  BY <1>2, <1>3 DEF Injection, IsInjective
<1>5. IsFiniteSet(R)
  BY FS_Subset DEF WInv, Typed
<1> QED BY <1>4, <1>5, FS_Injection

\* Closes between the readings: the call's record is in the window, or it was in flight
\* at the window's end, or the client had given up on it.
LEMMA CountedIsRecorded ==
  ASSUME WInv, Deadlines, scored, records # {}, NEW S, NEW a, NEW b, Between(S, a, b), WindowStart <= a,
         NEW orphan, orphan = {c \in closes : a <= c.at /\ c.at <= b /\ GivenUpBefore(c)}
  PROVE  Cardinality(S) <= Cardinality(InWindow) + Cardinality(orphan) + Cardinality(InFlight(WindowEnd))
<1> DEFINE A == {c \in S : \E r \in InWindow : Same(r, c)}
           B == (S \ A) \ orphan
<1>1. S \subseteq closes /\ A \subseteq S /\ B \subseteq closes
      /\ InWindow \subseteq records /\ InFlight(WindowEnd) \subseteq records
      /\ IsFiniteSet(closes) /\ IsFiniteSet(records)
  BY DEF Between, InWindow, InFlight, WInv, Typed
<1>2. Cardinality(A) <= Cardinality(InWindow)
  BY <1>1, RecordedOnce
<1>3. ASSUME NEW c \in B PROVE \E r \in InFlight(WindowEnd) : Same(r, c)
  <2>1. PICK r \in records : Same(r, c)
    BY <1>1 DEF WInv, Paired, Stopped, Typed
  <2>2. ~(r.end < c.at) /\ a <= c.at /\ c.at <= b
    <3>1. c \in S /\ c \in closes /\ c \notin orphan
      BY <1>1
    <3>2. a <= c.at /\ c.at <= b
      BY <3>1 DEF Between
    <3>3. CallOf(r) = CallOf(c)
      BY <2>1 DEF CallOf, Same
    <3> HIDE DEF B
    <3> QED BY <3>1, <3>2, <3>3 DEF GivenUpBefore
  <2>3. /\ r.end \in Nat /\ r.start \in Nat /\ c.at \in Nat /\ a \in Nat /\ Duration \in Nat
        /\ WindowStart \in Nat /\ WindowEnd \in Nat /\ Duration <= WindowEnd /\ r.start < Duration
    BY <1>1, WindowType, DurationType DEF WInv, Typed, Between, Deadlines
  <2>4. r \notin InWindow
    BY <2>1
  <2>5. WindowStart <= r.end /\ r.start < WindowEnd
    <3> HIDE DEF B
    <3> QED BY <2>2, <2>3
  <2>6. WindowEnd <= r.end
    <3> HIDE DEF B
    <3> QED BY <2>3, <2>4, <2>5 DEF InWindow
  <2> QED BY <2>1, <2>5, <2>6 DEF InFlight
<1>4. Cardinality(B) <= Cardinality(InFlight(WindowEnd))
  <2> HIDE DEF B
  <2> QED BY <1>1, <1>3, RecordedOnce
<1>5. IsFiniteSet(S) /\ IsFiniteSet(A) /\ IsFiniteSet(S \ A) /\ IsFiniteSet(orphan)
  <2>1. orphan \subseteq closes
    OBVIOUS
  <2> QED BY <1>1, <2>1, FS_Subset
<1>6. /\ Cardinality(S) <= Cardinality(S \ A) + Cardinality(A)
      /\ Cardinality(S) \in Nat /\ Cardinality(A) \in Nat /\ Cardinality(S \ A) \in Nat
  <2> HIDE DEF A
  <2> QED BY <1>5, PartBound
<1>7. /\ Cardinality(S \ A) <= Cardinality(B) + Cardinality(orphan)
      /\ Cardinality(B) \in Nat /\ Cardinality(orphan) \in Nat
  <2> HIDE DEF A
  <2> QED BY <1>5, PartBound
<1>8. Cardinality(InWindow) \in Nat /\ Cardinality(InFlight(WindowEnd)) \in Nat
  BY <1>1, FS_Subset, FS_CardinalityType
<1> HIDE DEF A, B
<1> QED BY <1>2, <1>4, <1>6, <1>7, <1>8

LEMMA DriftFollows == WInv /\ Deadlines => DriftIsAccountedFor
<1> SUFFICES ASSUME WInv, Deadlines, Scored, ServerCounts
             PROVE  LET from == FirstInside.read
                        to   == LastInside.read
                        edge   == {r \in InWindow : r.end <= from \/ r.end >= to}
                        unseen == {r \in InWindow : ~ClosedBy(r)}
                        orphan == {c \in closes : from <= c.at /\ c.at <= to /\ GivenUpBefore(c)}
                    IN  /\ ClientCount <= ServerCount + Cardinality(edge \cup unseen \cup InFlight(from))
                        /\ ServerCount <= ClientCount + Cardinality(orphan)
                                          + Cardinality(InFlight(WindowEnd))
  BY DEF DriftIsAccountedFor
<1> DEFINE a == FirstInside.read
           b == LastInside.read
           edge == {r \in InWindow : r.end <= a \/ r.end >= b}
           unseen == {r \in InWindow : ~ClosedBy(r)}
           orphan == {c \in closes : a <= c.at /\ c.at <= b /\ GivenUpBefore(c)}
           apart == edge \cup unseen \cup InFlight(a)
           middle == InWindow \ apart
<1>1. Inside # {}
  BY FS_EmptySet DEF ServerCounts
<1>2. FirstInside \in Inside /\ LastInside \in Inside /\ FirstInside.at <= LastInside.at
  BY <1>1, EdgesExist
<1>3. /\ FirstInside \in polls /\ LastInside \in polls /\ a \in Nat /\ b \in Nat
      /\ WindowStart <= a
  <2>1. /\ FirstInside \in polls /\ LastInside \in polls /\ WindowStart <= FirstInside.at
        /\ FirstInside.at <= a /\ FirstInside.at \in Nat /\ a \in Nat /\ b \in Nat
    BY <1>2 DEF Inside, WInv, Typed, Snapshots
  <2>2. WindowStart \in Nat
    BY WindowType DEF Scored
  <2> HIDE DEF a, b
  <2> QED BY <2>1, <2>2
<1>4. PICK C, D \in SUBSET closes :
        C \subseteq D /\ Counted(FirstInside, C) /\ Counted(LastInside, D)
  BY <1>2, <1>3, CountsGrow
<1> DEFINE S == D \ C
<1>5. Cardinality(S) = ServerCount /\ IsFiniteSet(S) /\ Cardinality(S) \in Nat
  <2>1. IsFiniteSet(D) /\ D \cap C = C
    BY <1>4, FS_Subset DEF WInv, Typed
  <2>2. IsFiniteSet(S) /\ Cardinality(S) = Cardinality(D) - Cardinality(C)
    BY <2>1, FS_Difference
  <2>3. Cardinality(S) \in Nat
    BY <2>2, FS_CardinalityType
  <2>4. ServerCount = Cardinality(D) - Cardinality(C)
    BY <1>4 DEF ServerCount, Counted
  <2> QED BY <2>2, <2>3, <2>4
<1>6. Between(S, a, b)
  <2>1. \A c \in closes : c.at \in Nat
    BY DEF WInv, Typed
  <2>2. ASSUME NEW c \in S PROVE a <= c.at /\ c.at <= b
    <3>1. c.at \in Nat /\ ~(c.at < a) /\ c.at <= b
      BY <1>4, <2>1 DEF Counted
    <3> HIDE DEF a, b, S
    <3> QED BY <1>3, <3>1
  <2>3. ASSUME NEW c \in closes, a < c.at, c.at < b PROVE c \in S
    <3>1. c \in D
      BY <1>4, <2>3 DEF Counted
    <3>2. ~(c.at <= a)
      <4>1. c.at \in Nat
        BY <2>1
      <4> HIDE DEF a
      <4> QED BY <1>3, <2>3, <4>1
    <3> QED BY <1>4, <3>1, <3>2 DEF Counted
  <2> QED BY <1>3, <1>4, <2>2, <2>3 DEF Between
<1>7. Cardinality(middle) <= Cardinality(S)
  <2>1. middle \in SUBSET records
    BY DEF InWindow
  <2>2. ASSUME NEW r \in middle PROVE a <= r.start /\ r.end < b /\ ClosedBy(r)
    <3>1. /\ r.start \in Nat /\ r.end \in Nat /\ ClosedBy(r)
          /\ ~(r.end <= a) /\ ~(r.end >= b) /\ ~(r.start < a /\ a <= r.end)
      BY <2>1 DEF InFlight, WInv, Typed
    <3> HIDE DEF a, b, middle
    <3> QED BY <1>3, <3>1
  <2> HIDE DEF a, b, middle, S
  <2> QED BY <1>6, <2>1, <2>2, MiddleIsCounted
<1>8. IsFiniteSet(InWindow) /\ IsFiniteSet(apart)
  <2>1. InWindow \subseteq records /\ apart \subseteq records /\ IsFiniteSet(records)
    BY DEF InWindow, InFlight, WInv, Typed
  <2> HIDE DEF apart
  <2> QED BY <2>1, FS_Subset
<1>9. ClientCount <= ServerCount + Cardinality(apart)
  <2> HIDE DEF apart, S
  <2>1. /\ Cardinality(InWindow) <= Cardinality(InWindow \ apart) + Cardinality(apart)
        /\ Cardinality(InWindow) \in Nat /\ Cardinality(apart) \in Nat
        /\ Cardinality(InWindow \ apart) \in Nat
    BY <1>8, PartBound
  <2> QED BY <1>5, <1>7, <2>1 DEF ClientCount
<1>10. ServerCount <= ClientCount + Cardinality(orphan) + Cardinality(InFlight(WindowEnd))
  <2>1. scored /\ records # {}
    BY DEF Scored
  <2> HIDE DEF a, b, S
  <2>2. Cardinality(S) <= Cardinality(InWindow) + Cardinality(orphan) + Cardinality(InFlight(WindowEnd))
    BY <1>3, <1>6, <2>1, CountedIsRecorded
  <2> QED BY <1>5, <2>2 DEF ClientCount
<1> QED BY <1>9, <1>10

\* For any number of workers, any latencies and failures and any scrapes, lost or late: what
\* the report prints as drift between the two sides has the sources named.
THEOREM DriftIsExplained == Spec => []DriftIsAccountedFor
<1>1. WInv /\ Deadlines /\ [Next]_vars => (WInv /\ Deadlines)'
  BY WInvStep, DeadlinesStep
<1> QED BY <1>1, WInvInit, DeadlinesInit, DriftFollows, PTL DEF Spec

-----------------------------------------------------------------------------
(* The load's end *)

\* A worker that has been answered sends again at once, until the time is up.
Pauseless ==
  \A w \in Workers : worker[w] = "idle" /\ (\E r \in records : r.worker = w) =>
    /\ \E r \in records : r.end = since[w]
    /\ since[w] = now \/ since[w] >= Duration

LEMMA PauselessStep == WInv /\ Pauseless /\ [Next]_vars => Pauseless'
<1> SUFFICES ASSUME WInv, Pauseless, [Next]_vars PROVE Pauseless'
  OBVIOUS
<1>t. /\ Duration \in Nat /\ now \in Nat
      /\ since \in [Workers -> Nat] /\ worker \in [Workers -> {"idle", "sent", "served"}]
  BY DurationType DEF WInv, Typed
<1>1. ASSUME NEW w \in Workers, Send(w) \/ Close(w) PROVE Pauseless'
  BY <1>1, <1>t DEF Send, Close, Pauseless
<1>2. ASSUME NEW w \in Workers, NEW ok \in BOOLEAN, Recorded(w, ok) PROVE Pauseless'
  <2> DEFINE new == [worker |-> w, start |-> since[w], end |-> now, ok |-> ok]
  <2>1. new.worker = w /\ new.end = now /\ records' = records \cup {new}
    BY <1>2 DEF Recorded
  <2> HIDE DEF new
  <2> QED BY <1>2, <1>t, <2>1 DEF Recorded, Pauseless
<1>3. CASE Tick
  <2>1. /\ now' = now + 1 /\ worker' = worker /\ since' = since /\ records' = records
        /\ \A w \in Workers : ~Sending(w)
    BY <1>3 DEF Tick
  <2>2. ASSUME NEW w \in Workers, worker[w] = "idle", since[w] = now PROVE since[w] >= Duration
    BY <1>t, <2>1, <2>2 DEF Sending
  <2> QED BY <2>1, <2>2 DEF Pauseless
<1>4. CASE UNCHANGED <<now, worker, since, records>>
  BY <1>4 DEF Pauseless
<1> QED BY <1>1, <1>2, <1>3, <1>4 DEF Next, Complete, Fail, CloseAbandoned, Stamp, Scraped, Stop, vars

\* For any number of workers: load lasts to the end of the window, less the time to
\* the first completion that anchors it.
THEOREM LoadCovers == Spec => []LoadCoversAllButStartup
<1>1. Init => Pauseless
  BY DEF Init, Pauseless
<1>2. WInv /\ Pauseless => LoadCoversAllButStartup
  <2> SUFFICES ASSUME WInv, Pauseless, Scored
               PROVE  \E r \in records : r.end + Min({q.end : q \in records}) >= WindowEnd
    BY DEF LoadCoversAllButStartup
  <2>1. PICK q \in records : q.worker \in Workers
    BY DEF WInv, Typed, Scored
  <2>2. now >= Duration /\ worker[q.worker] = "idle"
    BY <2>1 DEF WInv, Stopped, Scored
  <2>3. PICK r \in records : r.end >= Duration
    BY <2>1, <2>2 DEF Pauseless
  <2> DEFINE first == Min({p.end : p \in records})
  <2>4. first + Warmup \in Nat /\ WindowEnd = first + Warmup + Measure
    BY WindowType DEF WindowStart, WindowEnd, Scored
  <2>5. r.end + first >= first + Warmup + Measure
    <3>1. first \in Nat
      <4> DEFINE E == {p.end : p \in records}
      <4>1. E \in SUBSET Nat /\ E # {}
        BY <2>1 DEF WInv, Typed
      <4> HIDE DEF E
      <4>2. Min(E) \in E
        BY <4>1, LeastExists DEF Min
      <4> QED BY <4>1, <4>2 DEF E
    <3>2. r.end \in Nat
      BY DEF WInv, Typed
    <3> HIDE DEF first
    <3> QED BY <2>3, <3>1, <3>2, TimesAssumption DEF Duration
  <2> QED BY <2>4, <2>5
<1>3. WInv /\ Pauseless /\ [Next]_vars => (WInv /\ Pauseless)'
  BY WInvStep, PauselessStep
<1> QED BY <1>1, <1>2, <1>3, WInvInit, PTL DEF Spec
-----------------------------------------------------------------------------
(* Achieved concurrency *)

\* The ticks a worker spends on the requests of R, as pairs of the worker and a tick.
Busy(R) ==
  UNION {{r.worker} \X (r.start + 1 .. r.end) : r \in R}

\* Finitely many requests in as many ticks, and no worker has two at a time.
Requests(R) ==
  /\ IsFiniteSet(R) /\ R \subseteq [worker: Workers, start: Nat, end: Nat, ok: BOOLEAN]
  /\ \A r \in R : r.start < r.end
  /\ \A r, q \in R : r.worker = q.worker => r = q \/ r.end <= q.start \/ q.end <= r.start
  /\ IsFiniteSet(Busy(R))

\* A worker spends one tick after another.
LEMMA TicksOfOne ==
  ASSUME NEW w, NEW a \in Nat, NEW b \in Nat, a < b
  PROVE  /\ IsFiniteSet({w} \X (a + 1 .. b))
         /\ Cardinality({w} \X (a + 1 .. b)) = b - a
<1> DEFINE first == a + 1
<1>1. first \in Int /\ first <= b /\ b - first + 1 = b - a
  OBVIOUS
<1> HIDE DEF first
<1>2. IsFiniteSet(first .. b) /\ Cardinality(first .. b) = b - a
  BY <1>1, FS_Interval
<1>3. IsFiniteSet({w}) /\ Cardinality({w}) = 1
  BY FS_Singleton
<1> DEFINE ticks == first .. b
<1> HIDE DEF ticks
<1>4. IsFiniteSet({w} \X ticks) /\ Cardinality({w} \X ticks) = 1 * Cardinality(ticks)
  BY <1>2, <1>3, FS_Product DEF ticks
<1> QED BY <1>2, <1>4 DEF ticks, first

\* One request adds its own ticks to those of the others.
LEMMA BusyOfOneMore ==
  ASSUME NEW R, Requests(R), NEW r \in R
  PROVE  /\ IsFiniteSet(Busy(R \ {r}))
         /\ Cardinality(Busy(R)) = (r.end - r.start) + Cardinality(Busy(R \ {r}))
<1> DEFINE own == {r.worker} \X (r.start + 1 .. r.end)
<1>0. r.worker \in Workers /\ r.start \in Nat /\ r.end \in Nat /\ r.start < r.end
  BY DEF Requests
<1>1. IsFiniteSet(own) /\ Cardinality(own) = r.end - r.start
  <2> DEFINE w == r.worker  from == r.start  to == r.end
  <2>1. from \in Nat /\ to \in Nat /\ from < to
    BY <1>0
  <2> HIDE DEF w, from, to
  <2>2. IsFiniteSet({w} \X (from + 1 .. to)) /\ Cardinality({w} \X (from + 1 .. to)) = to - from
    BY <2>1, TicksOfOne
  <2> QED BY <2>2 DEF w, from, to
<1>2. Busy(R) = own \cup Busy(R \ {r})
  BY DEF Busy
<1>3. own \cap Busy(R \ {r}) = {}
  <2> SUFFICES ASSUME NEW q \in R \ {r}, NEW c \in own, c \in {q.worker} \X (q.start + 1 .. q.end)
               PROVE  FALSE
    BY DEF Busy
  <2>1. q.start \in Nat /\ q.end \in Nat /\ q.worker = r.worker
        /\ (r.end <= q.start \/ q.end <= r.start)
    BY DEF Requests
  <2>2. c[2] \in r.start + 1 .. r.end /\ c[2] \in q.start + 1 .. q.end
    OBVIOUS
  <2> QED BY <1>0, <2>1, <2>2
<1> DEFINE others == Busy(R \ {r})
<1> HIDE DEF own, others
<1>4. IsFiniteSet(others)
  BY <1>2, FS_Subset DEF Requests, others
<1>5. Cardinality(own \cup others) = Cardinality(own) + Cardinality(others) - Cardinality({})
  BY <1>1, <1>3, <1>4, FS_Union DEF others
<1>6. Cardinality({}) = 0 /\ Cardinality(others) \in Nat
  BY <1>4, FS_EmptySet, FS_CardinalityType
<1>7. Cardinality(Busy(R)) = (r.end - r.start) + Cardinality(others)
  BY <1>0, <1>1, <1>2, <1>5, <1>6 DEF others
<1> QED BY <1>4, <1>7 DEF others

\* The fold adds up what the requests take, which is the number of their ticks.
LEMMA SumIsBusy ==
  ASSUME NEW R, Requests(R)
  PROVE  MapThenSumSet(LAMBDA r : r.end - r.start, R) = Cardinality(Busy(R))
<1> DEFINE pick(s) == CHOOSE x \in s : TRUE
           Adds(f, s) == IF s = {} THEN 0 ELSE (pick(s).end - pick(s).start) + f[s \ {pick(s)}]
           Sums(f) == f = [s \in SUBSET R |-> Adds(f, s)]
           sum == CHOOSE f : Sums(f)
           ticks == [s \in SUBSET R |-> Cardinality(Busy(s))]
<1>1. MapThenSumSet(LAMBDA r : r.end - r.start, R) = sum[R]
  BY DEF MapThenSumSet, MapThenFoldSet
<1>2. ASSUME NEW s \in SUBSET R
      PROVE  Requests(s) /\ Cardinality(Busy(s)) \in Nat
  <2>1. IsFiniteSet(s)
    BY FS_Subset DEF Requests
  <2>2. Busy(s) \subseteq Busy(R)
    BY DEF Busy
  <2>3. IsFiniteSet(Busy(s))
    BY <2>2, FS_Subset DEF Requests
  <2> QED BY <2>1, <2>3, FS_CardinalityType DEF Requests
<1>3. \A s \in SUBSET R : Cardinality(Busy(s)) = Adds(ticks, s)
  <2> SUFFICES ASSUME NEW s \in SUBSET R PROVE Cardinality(Busy(s)) = Adds(ticks, s)
    OBVIOUS
  <2>1. CASE s = {}
    BY <2>1, FS_EmptySet DEF Busy
  <2>2. CASE s # {}
    <3> DEFINE x == pick(s)
    <3>1. x \in s
      BY <2>2
    <3> HIDE DEF x
    <3>2. Cardinality(Busy(s)) = (x.end - x.start) + Cardinality(Busy(s \ {x}))
      BY <1>2, <3>1, BusyOfOneMore
    <3>3. ticks[s \ {x}] = Cardinality(Busy(s \ {x}))
      OBVIOUS
    <3> QED BY <2>2, <3>2, <3>3 DEF x
  <2> QED BY <2>1, <2>2
<1>4. Sums(ticks)
  BY <1>3
<1>5. Sums(sum)
  <2> HIDE DEF Sums, ticks
  <2> QED BY <1>4
<1>6. \A s \in SUBSET R : sum[s] = Adds(sum, s)
  <2> HIDE DEF sum, Adds
  <2> QED BY <1>5
<1> HIDE DEF sum
<1> DEFINE wrong == {s \in SUBSET R : sum[s] # Cardinality(Busy(s))}
<1>7. wrong = {}
  <2> SUFFICES ASSUME wrong # {} PROVE FALSE
    OBVIOUS
  <2> DEFINE sizes == {Cardinality(s) : s \in wrong}
  <2>1. sizes \in SUBSET Nat /\ sizes # {}
    BY FS_Subset, FS_CardinalityType DEF Requests
  <2>2. PICK n \in sizes : \A m \in sizes : n <= m
    BY <2>1, LeastExists
  <2>3. PICK s \in wrong : Cardinality(s) = n
    OBVIOUS
  <2>4. s # {}
    BY <1>6, <2>3, FS_EmptySet DEF Busy
  <2> DEFINE x == pick(s)
  <2>5. x \in s
    BY <2>4
  <2>6. sum[s] = (x.end - x.start) + sum[s \ {x}]
    BY <1>6, <2>4
  <2> HIDE DEF x
  <2>7. Cardinality(Busy(s)) = (x.end - x.start) + Cardinality(Busy(s \ {x}))
    BY <1>2, <2>5, BusyOfOneMore
  <2>8. s \ {x} \in wrong
    BY <2>6, <2>7
  <2>9. Cardinality(s \ {x}) = Cardinality(s) - 1 /\ Cardinality(s) \in Nat
    BY <1>2, <2>5, FS_RemoveElement, FS_CardinalityType DEF Requests
  <2>10. Cardinality(s \ {x}) \in sizes
    <3> HIDE DEF wrong
    <3> QED BY <2>8
  <2> HIDE DEF sizes, wrong
  <2> QED BY <2>2, <2>3, <2>9, <2>10
<1>8. R \notin wrong
  <2> HIDE DEF wrong
  <2> QED BY <1>7
<1>9. sum[R] = Cardinality(Busy(R))
  BY <1>8
<1> QED BY <1>1, <1>9

\* A request takes no longer than its timeout.
Timely == \A r \in records : r.end <= r.start + MaxLatency

LEMMA TimelyStep == WInv /\ Deadlines /\ Timely /\ [Next]_vars => Timely'
<1> SUFFICES ASSUME WInv, Deadlines, Timely, [Next]_vars PROVE Timely'
  OBVIOUS
<1>1. ASSUME NEW w \in Workers, NEW ok \in BOOLEAN, Recorded(w, ok), worker[w] # "idle" PROVE Timely'
  <2> DEFINE new == [worker |-> w, start |-> since[w], end |-> now, ok |-> ok]
  <2>1. new.start = since[w] /\ new.end = now /\ records' = records \cup {new}
        /\ worker[w] # "idle"
    BY <1>1 DEF Recorded
  <2>2. now <= since[w] + MaxLatency
    BY <2>1 DEF Deadlines
  <2> HIDE DEF new
  <2> QED BY <2>1, <2>2 DEF Timely
<1>2. CASE UNCHANGED records
  BY <1>2 DEF Timely
<1> QED BY <1>1, <1>2 DEF Next, Send, Close, Complete, Fail, CloseAbandoned, Stamp, Scraped, Tick, Stop, vars

\* The ticks of the requests that end in a window of m ticks lie in it or within a timeout
\* before it, at most one at a time for every worker.
LEMMA BusyInWindow ==
  ASSUME NEW a \in Nat, NEW b \in Nat, a < b, NEW R, IsFiniteSet(R),
         R \subseteq [worker: Workers, start: Nat, end: Nat, ok: BOOLEAN],
         \A r \in R : a <= r.end /\ r.end < b /\ r.end <= r.start + MaxLatency
  PROVE  /\ IsFiniteSet(Busy(R))
         /\ Cardinality(Busy(R)) <= Cardinality(Workers) * (b - a + MaxLatency - 1)
<1> DEFINE from == a - MaxLatency + 1
           to == b - 1
           span == from .. to
<1>1. from \in Int /\ to \in Int /\ from <= to /\ to - from + 1 = b - a + MaxLatency - 1
  BY TimesAssumption
<1>2. Busy(R) \subseteq Workers \X span
  <2> SUFFICES ASSUME NEW r \in R, NEW c \in {r.worker} \X (r.start + 1 .. r.end)
               PROVE  c \in Workers \X span
    BY DEF Busy
  <2>1. r.worker \in Workers /\ r.start \in Nat /\ r.end \in Nat
        /\ r.end < b /\ a <= r.end /\ r.end <= r.start + MaxLatency
    OBVIOUS
  <2>2. c = <<c[1], c[2]>> /\ c[1] = r.worker /\ c[2] \in r.start + 1 .. r.end
    OBVIOUS
  <2>3. c[2] \in span
    BY <2>1, <2>2, TimesAssumption
  <2> QED BY <2>1, <2>2, <2>3
<1>3. IsFiniteSet(span) /\ Cardinality(span) = b - a + MaxLatency - 1
  <2> HIDE DEF from, to
  <2> QED BY <1>1, FS_Interval
<1> HIDE DEF span
<1>4. IsFiniteSet(Workers \X span) /\ Cardinality(Workers \X span) = Cardinality(Workers) * Cardinality(span)
  BY <1>3, WorkersAssumption, FS_Product
<1> QED BY <1>2, <1>3, <1>4, FS_Subset

\* For any number of workers and any times: the requests scored in the window fill no more
\* than the window and one timeout before it, for every worker.
THEOREM ConcurrencyIsBounded == Spec => []AchievedConcurrencyIsBounded
<1>1. Init => Timely
  BY DEF Init, Timely
<1>2. WInv /\ Timely => AchievedConcurrencyIsBounded
  <2> SUFFICES ASSUME WInv, Timely, Scored
               PROVE  BusyTime <= Cardinality(Workers) * (Measure + MaxLatency - 1)
    BY DEF AchievedConcurrencyIsBounded
  <2>1. WindowStart \in Nat /\ WindowEnd \in Nat /\ WindowEnd = WindowStart + Measure
    BY WindowType DEF Scored
  <2> DEFINE R == {r \in InWindow : r.ok}
  <2>2. /\ R \subseteq records /\ IsFiniteSet(R)
        /\ R \subseteq [worker: Workers, start: Nat, end: Nat, ok: BOOLEAN]
        /\ \A r \in R : WindowStart <= r.end /\ r.end < WindowEnd /\ r.end <= r.start + MaxLatency
    BY FS_Subset DEF InWindow, WInv, Typed, Timely
  <2>3. PICK a, b \in Nat : a = WindowStart /\ b = WindowEnd
    BY <2>1
  <2>4. a < b /\ b - a = Measure
    BY <2>1, <2>3, TimesAssumption
  <2>5. /\ IsFiniteSet(Busy(R))
        /\ Cardinality(Busy(R)) <= Cardinality(Workers) * (b - a + MaxLatency - 1)
    BY <2>2, <2>3, <2>4, BusyInWindow
  <2>6. Requests(R)
    BY <2>2, <2>5 DEF Requests, WInv, Past, Paired
  <2>7. BusyTime = Cardinality(Busy(R))
    BY <2>6, SumIsBusy DEF BusyTime
  <2> QED BY <2>4, <2>5, <2>7
<1>3. WInv /\ Deadlines /\ Timely /\ [Next]_vars => (WInv /\ Deadlines /\ Timely)'
  BY WInvStep, DeadlinesStep, TimelyStep
<1> QED BY <1>1, <1>2, <1>3, WInvInit, DeadlinesInit, PTL DEF Spec
=============================================================================
