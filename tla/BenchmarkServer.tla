--------------------------- MODULE BenchmarkServer ---------------------------
(***************************************************************************)
(* The system under test: the five handlers of BenchmarkServiceImpl, the   *)
(* delay scheduler they share, and the two instruments that watch them,    *)
(* ServerLatencyInterceptor and ConnectionTracker.                         *)
(*                                                                         *)
(* grpc-java itself is external.  What the handlers rely on is modelled:   *)
(* the callbacks of one call run one at a time and in arrival order on     *)
(* that call's executor; the order can only be start, messages,            *)
(* half-close, cancel, so the queue of a call is one variable per kind of  *)
(* callback.  A cancellation first marks the call and only later runs its  *)
(* callback, and a marked call no longer receives messages or its          *)
(* half-close.                                                             *)
(*                                                                         *)
(* The two ends of a connection learn of things apart from each other.  A  *)
(* client holds its call back until its connection is up; a cancellation,  *)
(* a deadline or a loss reaches the client, the call on the server and the *)
(* server's transport filter each in a step of its own, in any order.      *)
(***************************************************************************)
EXTENDS Integers, FiniteSets

CONSTANTS
  Calls,        \* RPCs the clients may issue
  Connections,  \* client TCP connections
  Requests,     \* the requests a call may carry
  Threads,      \* benchmark.delay-scheduler-threads
  SignBit,      \* 2^31: the first word that is negative as a Java int
  MaxPayload    \* MAX_PAYLOAD_BYTES

Methods  == {"echo", "compute", "payload", "serverStream", "bidiStream"}

\* The codes the handlers close a call with; both become a counter's tag.
Statuses == {"OK", "CANCELLED"}

Words == 0 .. 2 * SignBit - 1

ASSUME CallsAssumption       == IsFiniteSet(Calls)
ASSUME ConnectionsAssumption == IsFiniteSet(Connections)
ASSUME ThreadsAssumption     == Threads \in Nat \ {0}
ASSUME WidthAssumption       == SignBit \in Nat \ {0} /\ MaxPayload \in Nat
ASSUME RequestsAssumption    ==
  Requests \subseteq [method: Methods, delayMs: Words, count: Words, size: Words]

VARIABLES
  request,    \* the request of each call, fixed by its client
  via,        \* the connection each call uses, fixed by its client
  transport,  \* each connection, as the server's transport has it
  client,     \* what the client knows of each call
  posted,     \* messages a bidi client has sent
  messages,   \* of these, the ones whose callback has not run
  halfClose,  \* the half-close callback
  cancel,     \* the cancel callback; not "no" once the call is marked
  stage,      \* has the call arrived, and how far interceptCall has come
  sent,       \* responses passed to onNext
  task,       \* the call's task in the delay scheduler
  work,       \* close() in progress, per call and thread
  closes,     \* close() calls that reached the interceptor
  trailers,   \* status the transport sends to the client
  inFlight, started, completed,  \* ServerLatencyInterceptor
  active, opened                 \* ConnectionTracker

clientVars  == <<request, via, posted>>
callVars    == <<client, messages, halfClose, cancel>>
handlerVars == <<sent, task>>
closeVars   == <<work, closes, trailers>>
rpcGauges   == <<inFlight, started, completed>>
connGauges  == <<transport, active, opened>>
vars == <<clientVars, callVars, stage, handlerVars, closeVars, rpcGauges, connGauges>>

-----------------------------------------------------------------------------
\* Request fields are unsigned on the wire and signed in Java.
AsInt(w)      == IF w >= SignBit THEN w - 2 * SignBit ELSE w
MinOf(a, b)   == IF a <= b THEN a ELSE b
MaxOf(a, b)   == IF a >= b THEN a ELSE b

Delayed(r)    == AsInt(r.delayMs) # 0
Messages(r)   == MaxOf(1, AsInt(r.count))
\* substring(0, size) throws on a negative size
Throws(r)     == r.method = "payload" /\ MinOf(AsInt(r.size), MaxPayload) < 0

\* Handlers that answer on the thread that delivered the half-close.
Immediate(r)  == \/ r.method \in {"echo", "payload"}
                 \/ r.method \in {"compute", "serverStream"} /\ ~Delayed(r)
Responses(r)  == IF r.method = "serverStream" THEN Messages(r) ELSE 1

Runners == {"executor", "scheduler"}
Idle    == [at |-> "idle", status |-> "OK"]
Closing(s) == [at |-> "decrement", status |-> s]

Marked(c)   == cancel[c] # "no"
Unanswered(c) == client[c] \in {"streaming", "waiting"}
\* The call's serializing executor is free to run its next callback.
Ready(c)    == stage[c] = "counted" /\ work[<<c, "executor">>].at = "idle"
BusyThreads == {c \in Calls : work[<<c, "scheduler">>].at # "idle"}

-----------------------------------------------------------------------------
Init ==
  /\ request \in [Calls -> Requests]
  /\ via \in [Calls -> Connections]
  /\ transport = [k \in Connections |-> "down"]
  /\ client = [c \in Calls |-> "idle"]
  /\ posted = [c \in Calls |-> 0]
  /\ messages = [c \in Calls |-> 0]
  /\ halfClose = [c \in Calls |-> "no"]
  /\ cancel = [c \in Calls |-> "no"]
  /\ stage = [c \in Calls |-> "none"]
  /\ sent = [c \in Calls |-> 0]
  /\ task = [c \in Calls |-> "none"]
  /\ work = [x \in Calls \X Runners |-> Idle]
  /\ closes = [c \in Calls |-> 0]
  /\ trailers = [c \in Calls |-> "none"]
  /\ inFlight = 0 /\ started = 0 /\ completed = [s \in Statuses |-> 0]
  /\ active = 0 /\ opened = 0

-----------------------------------------------------------------------------
(* Connections *)

TransportReady(k) ==
  /\ transport[k] = "down"
  /\ transport' = [transport EXCEPT ![k] = "ready"]
  /\ active' = active + 1
  /\ opened' = opened + 1
  /\ UNCHANGED <<clientVars, callVars, stage, handlerVars, closeVars, rpcGauges>>

\* The server's transport has noticed that the connection is gone.  Its calls are
\* marked on other threads, before or after this, and their clients find out by
\* themselves.
TransportTerminated(k) ==
  /\ transport[k] = "ready"
  /\ transport' = [transport EXCEPT ![k] = "terminated"]
  /\ active' = active - 1
  /\ UNCHANGED <<clientVars, callVars, stage, handlerVars, closeVars, rpcGauges,
                 opened>>

-----------------------------------------------------------------------------
(* Clients *)

\* All but a bidi client send their one message and the half-close with the
\* headers.  Nothing has reached the server yet: while the channel connects the
\* call is buffered.
OpenCall(c) ==
  /\ client[c] = "idle"
  /\ IF request[c].method = "bidiStream"
     THEN /\ client' = [client EXCEPT ![c] = "streaming"]
          /\ UNCHANGED halfClose
     ELSE /\ client' = [client EXCEPT ![c] = "waiting"]
          /\ halfClose' = [halfClose EXCEPT ![c] = "queued"]
  /\ UNCHANGED <<clientVars, messages, cancel, stage, handlerVars, closeVars,
                 rpcGauges, connGauges>>

\* What is written to a dead connection reaches nobody and is no step.
Writable(c) == transport[via[c]] # "terminated"

PostMessage(c) ==
  /\ client[c] = "streaming" /\ Writable(c) /\ posted[c] < Messages(request[c])
  /\ posted' = [posted EXCEPT ![c] = @ + 1]
  /\ messages' = [messages EXCEPT ![c] = @ + 1]
  /\ UNCHANGED <<request, via, client, halfClose, cancel, stage, handlerVars,
                 closeVars, rpcGauges, connGauges>>

PostHalfClose(c) ==
  /\ client[c] = "streaming" /\ Writable(c)
  /\ client' = [client EXCEPT ![c] = "waiting"]
  /\ halfClose' = [halfClose EXCEPT ![c] = "queued"]
  /\ UNCHANGED <<clientVars, messages, cancel, stage, handlerVars, closeVars,
                 rpcGauges, connGauges>>

\* The deadline expires at the client, the load generator gives up, or the
\* client finds its connection gone.  The server knows nothing of it yet.
Cancel(c) ==
  /\ Unanswered(c)
  /\ client' = [client EXCEPT ![c] = "cancelled"]
  /\ UNCHANGED <<clientVars, messages, halfClose, cancel, stage, handlerVars,
                 closeVars, rpcGauges, connGauges>>

\* A call the server has dropped is reset towards its client.
Reset(c) ==
  /\ Marked(c) /\ transport[via[c]] = "ready"
  /\ Cancel(c)

Receive(c) ==
  /\ Unanswered(c) /\ trailers[c] # "none"
  /\ ~Marked(c) /\ transport[via[c]] = "ready"
  /\ client' = [client EXCEPT ![c] = IF trailers[c] = "OK" THEN "ok" ELSE "failed"]
  /\ UNCHANGED <<clientVars, messages, halfClose, cancel, stage, handlerVars,
                 closeVars, rpcGauges, connGauges>>

-----------------------------------------------------------------------------
(* Calls reaching and leaving the server *)

\* A call its client has given up may have been on its way already.
Arrive(c) ==
  /\ client[c] # "idle" /\ stage[c] = "none" /\ transport[via[c]] = "ready"
  /\ stage' = [stage EXCEPT ![c] = "queued"]
  /\ UNCHANGED <<clientVars, callVars, handlerVars, closeVars, rpcGauges, connGauges>>

\* The client's reset arrives, the connection is lost, or the deadline every
\* call carries (GRPCSampler.deadline, ghz --timeout) expires on the server,
\* before or after it does at the client.  A call answered and received is over.
Mark(c) ==
  /\ stage[c] # "none" /\ cancel[c] = "no" /\ client[c] \notin {"ok", "failed"}
  /\ cancel' = [cancel EXCEPT ![c] = "queued"]
  /\ UNCHANGED <<clientVars, client, messages, halfClose, stage, handlerVars,
                 closeVars, rpcGauges, connGauges>>

-----------------------------------------------------------------------------
(* ServerLatencyInterceptor.interceptCall: two counters, two steps *)

EnterCall(c) ==
  /\ stage[c] = "queued"
  /\ stage' = [stage EXCEPT ![c] = "entered"]
  /\ inFlight' = inFlight + 1
  /\ UNCHANGED <<clientVars, callVars, handlerVars, closeVars, started,
                 completed, connGauges>>

CountStarted(c) ==
  /\ stage[c] = "entered"
  /\ stage' = [stage EXCEPT ![c] = "counted"]
  /\ started' = started + 1
  /\ UNCHANGED <<clientVars, callVars, handlerVars, closeVars, inFlight,
                 completed, connGauges>>

-----------------------------------------------------------------------------
(* BenchmarkServiceImpl, on the call's executor *)

\* Mutation: the handler answers without waiting for a message.
BidiOnNextUnasked(c) ==
  /\ Ready(c) /\ request[c].method = "bidiStream"
  /\ messages' = [messages EXCEPT ![c] = @ - 1]
  /\ sent' = [sent EXCEPT ![c] = @ + 1]
  /\ UNCHANGED <<clientVars, client, halfClose, cancel, stage, task, closeVars,
                 rpcGauges, connGauges>>

BidiOnNext(c) ==
  /\ Ready(c) /\ messages[c] > 0
  /\ messages' = [messages EXCEPT ![c] = @ - 1]
  /\ IF Marked(c) THEN UNCHANGED sent
                  ELSE sent' = [sent EXCEPT ![c] = @ + 1]
  /\ UNCHANGED <<clientVars, client, halfClose, cancel, stage, task, closeVars,
                 rpcGauges, connGauges>>

\* A marked call's half-close is dropped and its handler never runs.
DropHalfClose(c) ==
  /\ Ready(c) /\ messages[c] = 0
  /\ halfClose[c] = "queued" /\ Marked(c)
  /\ halfClose' = [halfClose EXCEPT ![c] = "dropped"]
  /\ UNCHANGED <<clientVars, client, messages, cancel, stage, handlerVars,
                 closeVars, rpcGauges, connGauges>>

HandleHalfClose(c) ==
  /\ Ready(c) /\ messages[c] = 0
  /\ halfClose[c] = "queued" /\ ~Marked(c)
  /\ halfClose' = [halfClose EXCEPT ![c] = "handled"]

\* onNext for each response, then onCompleted, which closes the call.
AnswerNow(c) ==
  /\ HandleHalfClose(c)
  /\ Immediate(request[c]) /\ ~Throws(request[c])
  /\ sent' = [sent EXCEPT ![c] = Responses(request[c])]
  /\ work' = [work EXCEPT ![<<c, "executor">>] = Closing("OK")]
  /\ UNCHANGED <<clientVars, client, messages, cancel, stage, task, closes,
                 trailers, rpcGauges, connGauges>>

\* gRPC closes the stream of a handler that throws, past the interceptor.
HandlerThrows(c) ==
  /\ HandleHalfClose(c)
  /\ Throws(request[c])
  /\ trailers' = [trailers EXCEPT ![c] = "UNKNOWN"]
  /\ UNCHANGED <<clientVars, client, messages, cancel, stage, handlerVars, work,
                 closes, rpcGauges, connGauges>>

AnswerLater(c) ==
  /\ HandleHalfClose(c)
  /\ request[c].method \in {"compute", "serverStream"} /\ Delayed(request[c])
  /\ task' = [task EXCEPT ![c] = "scheduled"]
  /\ UNCHANGED <<clientVars, client, messages, cancel, stage, sent, closeVars,
                 rpcGauges, connGauges>>

BidiOnCompleted(c) ==
  /\ HandleHalfClose(c)
  /\ request[c].method = "bidiStream"
  /\ work' = [work EXCEPT ![<<c, "executor">>] = Closing("OK")]
  /\ UNCHANGED <<clientVars, client, messages, cancel, stage, handlerVars,
                 closes, trailers, rpcGauges, connGauges>>

\* Mutation: onError closes the call even after onCompleted has.
OnCancelAfterCompletion(c) ==
  /\ Ready(c) /\ messages[c] = 0 /\ halfClose[c] # "queued"
  /\ cancel[c] = "queued"
  /\ cancel' = [cancel EXCEPT ![c] = "handled"]
  /\ work' = [work EXCEPT ![<<c, "executor">>] = Closing("CANCELLED")]
  /\ UNCHANGED <<clientVars, client, messages, halfClose, stage, handlerVars,
                 closes, trailers, rpcGauges, connGauges>>

\* Mutation: the interceptor's listener also releases the gauge in onCancel.
OnCancelReleases(c) ==
  /\ Ready(c) /\ messages[c] = 0 /\ halfClose[c] # "queued"
  /\ cancel[c] = "queued"
  /\ cancel' = [cancel EXCEPT ![c] = "handled"]
  /\ inFlight' = inFlight - 1
  /\ UNCHANGED <<clientVars, client, messages, halfClose, stage, handlerVars,
                 closeVars, started, completed, connGauges>>

\* Mutation: onError does not pass the cancellation on to the response observer.
OnCancelUnheard(c) ==
  /\ Ready(c) /\ messages[c] = 0 /\ halfClose[c] # "queued"
  /\ cancel[c] = "queued"
  /\ cancel' = [cancel EXCEPT ![c] = "handled"]
  /\ UNCHANGED <<clientVars, client, messages, halfClose, stage, handlerVars,
                 closeVars, rpcGauges, connGauges>>

\* Only the bidi handler has an onError to run; for the others the callback
\* does no more than tell the response observer.
OnCancel(c) ==
  /\ Ready(c) /\ messages[c] = 0 /\ halfClose[c] # "queued"
  /\ cancel[c] = "queued"
  /\ cancel' = [cancel EXCEPT ![c] = "handled"]
  /\ IF request[c].method = "bidiStream" /\ halfClose[c] # "handled"
     THEN work' = [work EXCEPT ![<<c, "executor">>] = Closing("CANCELLED")]
     ELSE UNCHANGED work
  /\ UNCHANGED <<clientVars, client, messages, halfClose, stage, handlerVars,
                 closes, trailers, rpcGauges, connGauges>>

-----------------------------------------------------------------------------
(* The delay scheduler *)

TakeThread(c) == task[c] = "scheduled" /\ Cardinality(BusyThreads) < Threads

\* Mutation: the delayed task answers but does not complete the call.
RunComputeUncompleted(c) ==
  /\ TakeThread(c) /\ request[c].method = "compute"
  /\ sent' = [sent EXCEPT ![c] = @ + 1]
  /\ task' = [task EXCEPT ![c] = "none"]
  /\ UNCHANGED <<clientVars, callVars, stage, closeVars, rpcGauges, connGauges>>

\* Mutation: the delayed task returns early when its client has cancelled.
RunComputeUnlessCancelled(c) ==
  /\ TakeThread(c) /\ request[c].method = "compute"
  /\ task' = [task EXCEPT ![c] = "none"]
  /\ IF Marked(c) THEN UNCHANGED <<sent, work>>
     ELSE /\ sent' = [sent EXCEPT ![c] = @ + 1]
          /\ work' = [work EXCEPT ![<<c, "scheduler">>] = Closing("OK")]
  /\ UNCHANGED <<clientVars, callVars, stage, closes, trailers, rpcGauges,
                 connGauges>>

RunCompute(c) ==
  /\ TakeThread(c) /\ request[c].method = "compute"
  /\ sent' = [sent EXCEPT ![c] = @ + 1]
  /\ task' = [task EXCEPT ![c] = "none"]
  /\ work' = [work EXCEPT ![<<c, "scheduler">>] = Closing("OK")]
  /\ UNCHANGED <<clientVars, callVars, stage, closes, trailers, rpcGauges,
                 connGauges>>

\* Mutation: scheduleStream stops one index early.
RunStreamShort(c) ==
  /\ TakeThread(c) /\ request[c].method = "serverStream"
  /\ cancel[c] # "handled"
  /\ sent' = [sent EXCEPT ![c] = @ + 1]
  /\ IF sent[c] + 2 >= Messages(request[c])
     THEN /\ task' = [task EXCEPT ![c] = "none"]
          /\ work' = [work EXCEPT ![<<c, "scheduler">>] = Closing("OK")]
     ELSE UNCHANGED <<task, work>>
  /\ UNCHANGED <<clientVars, callVars, stage, closes, trailers, rpcGauges,
                 connGauges>>

\* onNext, then scheduleStream(index + 1): complete, or the next task.
RunStream(c) ==
  /\ TakeThread(c) /\ request[c].method = "serverStream"
  /\ cancel[c] # "handled"
  /\ sent' = [sent EXCEPT ![c] = @ + 1]
  /\ IF sent[c] + 1 >= Messages(request[c])
     THEN /\ task' = [task EXCEPT ![c] = "none"]
          /\ work' = [work EXCEPT ![<<c, "scheduler">>] = Closing("OK")]
     ELSE UNCHANGED <<task, work>>
  /\ UNCHANGED <<clientVars, callVars, stage, closes, trailers, rpcGauges,
                 connGauges>>

\* onNext throws on a cancelled stream: the task ends and schedules no other.
StreamTaskDies(c) ==
  /\ TakeThread(c) /\ request[c].method = "serverStream"
  /\ cancel[c] = "handled"
  /\ task' = [task EXCEPT ![c] = "none"]
  /\ UNCHANGED <<clientVars, callVars, stage, sent, closeVars, rpcGauges,
                 connGauges>>

-----------------------------------------------------------------------------
(* The interceptor's close(): gauge, then timer and counter, then the call's *)
(* own close, which ignores a second one.                                    *)

\* Mutation: super.close() runs first, the timer and the counter after it.
CloseSendsFirst(c, t) ==
  /\ work[<<c, t>>].at = "decrement"
  /\ work' = [work EXCEPT ![<<c, t>>].at = "record"]
  /\ inFlight' = inFlight - 1
  /\ closes' = [closes EXCEPT ![c] = @ + 1]
  /\ trailers' = [trailers EXCEPT ![c] = work[<<c, t>>].status]
  /\ UNCHANGED <<clientVars, callVars, stage, handlerVars, started, completed,
                 connGauges>>

CloseDecrement(c, t) ==
  /\ work[<<c, t>>].at = "decrement"
  /\ work' = [work EXCEPT ![<<c, t>>].at = "record"]
  /\ inFlight' = inFlight - 1
  /\ closes' = [closes EXCEPT ![c] = @ + 1]
  /\ UNCHANGED <<clientVars, callVars, stage, handlerVars, trailers, started,
                 completed, connGauges>>

CloseCount(c, t) ==
  /\ work[<<c, t>>].at = "record"
  /\ work' = [work EXCEPT ![<<c, t>>].at = "close"]
  /\ completed' = [completed EXCEPT ![work[<<c, t>>].status] = @ + 1]
  /\ UNCHANGED <<clientVars, callVars, stage, handlerVars, closes, trailers,
                 inFlight, started, connGauges>>

CloseCall(c, t) ==
  /\ work[<<c, t>>].at = "close"
  /\ work' = [work EXCEPT ![<<c, t>>] = Idle]
  /\ trailers' = [trailers EXCEPT ![c] = IF @ = "none" THEN work[<<c, t>>].status ELSE @]
  /\ UNCHANGED <<clientVars, callVars, stage, handlerVars, closes, rpcGauges,
                 connGauges>>

-----------------------------------------------------------------------------
ClientNext(c) ==
  \/ OpenCall(c) \/ PostMessage(c) \/ PostHalfClose(c)
  \/ Cancel(c) \/ Reset(c) \/ Receive(c)

ExecutorNext(c) ==
  \/ EnterCall(c) \/ CountStarted(c)
  \/ BidiOnNext(c) \/ DropHalfClose(c) \/ AnswerNow(c) \/ HandlerThrows(c)
  \/ AnswerLater(c) \/ BidiOnCompleted(c) \/ OnCancel(c)

SchedulerNext(c) == RunCompute(c) \/ RunStream(c) \/ StreamTaskDies(c)

CloseNext(c, t) == CloseDecrement(c, t) \/ CloseCount(c, t) \/ CloseCall(c, t)

Next ==
  \/ \E k \in Connections : TransportReady(k) \/ TransportTerminated(k)
  \/ \E c \in Calls : \/ ClientNext(c) \/ Arrive(c) \/ Mark(c)
                     \/ ExecutorNext(c) \/ SchedulerNext(c)
  \/ \E c \in Calls, t \in Runners : CloseNext(c, t)

ServerNext(c) ==
  ExecutorNext(c) \/ SchedulerNext(c) \/ \E t \in Runners : CloseNext(c, t)

\* What the server has to do for a call it does in the end, and a connection that
\* is up delivers what the server sends.  Nothing obliges a client to call, to
\* half-close or to cancel, a connection to come up, or a call to arrive.
Fairness ==
  \A c \in Calls : WF_vars(ServerNext(c)) /\ WF_vars(Receive(c) \/ Reset(c))

Spec     == Init /\ [][Next]_vars
FairSpec == Spec /\ Fairness

-----------------------------------------------------------------------------
(* Properties *)

TypeOK ==
  /\ request \in [Calls -> Requests]
  /\ via \in [Calls -> Connections]
  /\ transport \in [Connections -> {"down", "ready", "terminated"}]
  /\ client \in [Calls -> {"idle", "streaming", "waiting", "ok", "failed", "cancelled"}]
  /\ posted \in [Calls -> Nat]
  /\ messages \in [Calls -> Nat]
  /\ halfClose \in [Calls -> {"no", "queued", "handled", "dropped"}]
  /\ cancel \in [Calls -> {"no", "queued", "handled"}]
  /\ stage \in [Calls -> {"none", "queued", "entered", "counted"}]
  /\ sent \in [Calls -> Nat]
  /\ task \in [Calls -> {"none", "scheduled"}]
  /\ work \in [Calls \X Runners -> [at: {"idle", "decrement", "record", "close"},
                                    status: Statuses]]
  /\ closes \in [Calls -> Nat]
  /\ trailers \in [Calls -> Statuses \cup {"none", "UNKNOWN"}]
  /\ inFlight \in Int /\ started \in Nat
  /\ completed \in [Statuses -> Nat]
  /\ active \in Int /\ opened \in Nat

\* close() runs at most once per call, whatever order the half-close, the
\* cancellation and the delay scheduler's task come in.  A second close would
\* take the in-flight gauge down for somebody else's call.
AtMostOneClose == \A c \in Calls : closes[c] <= 1

CompletedTotal == completed["OK"] + completed["CANCELLED"]
MidStart  == {c \in Calls : stage[c] = "entered"}
MidClose  == {c \in Calls : \E t \in Runners : work[<<c, t>>].at = "record"}

\* The interceptor's three series account for each other: what was started and
\* has not completed is in flight, up to the calls caught between two of the
\* updates, which are not atomic together.
GaugesAccount ==
  inFlight + CompletedTotal + Cardinality(MidClose) = started + Cardinality(MidStart)

\* A client never holds an OK the server has not counted yet, so a scrape taken
\* after the last answer cannot show fewer completions than the clients do.
AnsweredIsCounted ==
  Cardinality({c \in Calls : client[c] = "ok"}) <= completed["OK"]

\* A call that ends OK has sent all its responses: one, the whole stream, or a
\* reply to every message the client posted.
OkIsWhole ==
  \A c \in Calls : trailers[c] = "OK" =>
    sent[c] = IF request[c].method = "bidiStream" THEN posted[c]
              ELSE Responses(request[c])

\* Whoever waits for a call that has arrived is answered or told that it was
\* dropped, unless the connection is lost, with any number of delay threads: a
\* delayed call holds none while it waits.
EveryCallEnds ==
  \A c \in Calls :
    client[c] = "waiting" /\ stage[c] # "none"
      ~> ~Unanswered(c) \/ transport[via[c]] # "ready"

\* A handler that ran releases the in-flight gauge, even for a client that has
\* gone; the two exceptions are a handler that threw and a cancelled stream.
HandlerReleases ==
  \A c \in Calls :
    halfClose[c] = "handled" /\ ~Throws(request[c])
      ~> \/ closes[c] = 1
         \/ request[c].method = "serverStream" /\ cancel[c] = "handled"

\* No connection is left and nothing of any call is under way on the server.
Quiescent ==
  /\ \A k \in Connections : transport[k] # "ready"
  /\ \A c \in Calls :
       stage[c] # "none" => /\ stage[c] = "counted" /\ messages[c] = 0
                            /\ halfClose[c] # "queued" /\ cancel[c] # "queued"
                            /\ Marked(c) \/ trailers[c] # "none"
                            /\ task[c] = "none"
                            /\ \A t \in Runners : work[<<c, t>>].at = "idle"

\* harness/report.py:68 and harness/scrape_server.py:16 say both gauges are back
\* at zero once a run has ended.
GaugesReturnToZero == Quiescent => inFlight = 0 /\ active = 0

IsBidi(c) == request[c].method = "bidiStream"

\* A stream that was cancelled before its last response.
BrokenOff(c) ==
  /\ request[c].method = "serverStream"
  /\ halfClose[c] = "handled" /\ cancel[c] = "handled" /\ sent[c] < Responses(request[c])

Leaks(c) ==
  \/ ~IsBidi(c) /\ halfClose[c] = "dropped"
  \/ Throws(request[c]) /\ halfClose[c] = "handled"
  \/ BrokenOff(c)

\* What the gauges do instead: with the last connection gone and nothing under
\* way, no connection is counted, and in-flight has kept one for every call that
\* was cancelled before its handler ran, every handler that threw, and every
\* stream cancelled between two responses.  Every other call, a bidi call cut
\* anywhere among them, has been taken out of the gauge exactly once.
LeakIsExact == Quiescent => active = 0 /\ inFlight = Cardinality({c \in Calls : Leaks(c)})
=============================================================================
