------------------------ MODULE BenchmarkServerProofs ------------------------
(***************************************************************************)
(* What holds of BenchmarkServer for any number of calls, connections and  *)
(* scheduler threads and any width of int.  The argument: whoever will     *)
(* close a call is unique (SoleCloser), so the interceptor's counters are  *)
(* the cardinalities of sets of calls (Tallies), and the tracker's gauge   *)
(* is that of the set of open connections (Carried).  What a call's end    *)
(* has to leave behind (Owed) then says who still owes an answer, and      *)
(* exactly which calls never give the in-flight gauge back.                *)
(***************************************************************************)
EXTENDS BenchmarkServer, FiniteSetTheorems, TLAPS

LEMMA ResponsesType ==
  ASSUME NEW r \in Requests
  PROVE  Responses(r) \in Nat /\ Messages(r) \in Nat
  BY RequestsAssumption, WidthAssumption
  DEF Responses, Messages, MaxOf, AsInt, Words

Steps == [at: {"idle", "decrement", "record", "close"}, status: Statuses]

LEMMA BeginCloseType ==
  ASSUME work \in [Calls \X Runners -> Steps], NEW c \in Calls, NEW t \in Runners,
         NEW s \in Statuses
  PROVE  [work EXCEPT ![<<c, t>>] = Closing(s)] \in [Calls \X Runners -> Steps]
<1>1. Closing(s) \in Steps
  BY DEF Closing, Steps
<1> QED BY <1>1

LEMMA BeginCloseNext ==
  ASSUME work \in [Calls \X Runners -> Steps], NEW c \in Calls, NEW t \in Runners,
         NEW s \in Statuses,
         \/ work' = work
         \/ work' = [work EXCEPT ![<<c, t>>] = Closing(s)]
  PROVE  work' \in [Calls \X Runners -> Steps]
  BY BeginCloseType

LEMMA StepType ==
  ASSUME work \in [Calls \X Runners -> Steps], NEW c \in Calls, NEW t \in Runners,
         NEW a \in {"idle", "decrement", "record", "close"}
  PROVE  [work EXCEPT ![<<c, t>>].at = a] \in [Calls \X Runners -> Steps]
<1>1. [work[<<c, t>>] EXCEPT !.at = a] \in Steps
  BY DEF Steps
<1> QED BY <1>1

\* Every variable keeps its type through every handler and callback.
THEOREM TypeCorrect == Spec => []TypeOK
<1>1. Init => TypeOK
  BY DEF Init, TypeOK, Idle, Statuses
<1>2. TypeOK /\ [Next]_vars => TypeOK'
  <2> SUFFICES ASSUME TypeOK, [Next]_vars PROVE TypeOK'
    OBVIOUS
  <2> USE DEF TypeOK, clientVars, callVars, handlerVars, closeVars, rpcGauges, connGauges
  <2>0. work \in [Calls \X Runners -> Steps]
    BY DEF Steps
  <2>1. ASSUME NEW k \in Connections, TransportReady(k) \/ TransportTerminated(k)
        PROVE  TypeOK'
    BY <2>1 DEF TransportReady, TransportTerminated
  <2>2. ASSUME NEW c \in Calls, ClientNext(c) PROVE TypeOK'
    <3>1. CASE OpenCall(c)
      BY <3>1 DEF OpenCall
    <3>2. CASE PostMessage(c)
      BY <3>2 DEF PostMessage
    <3>3. CASE PostHalfClose(c)
      BY <3>3 DEF PostHalfClose
    <3>4. CASE Cancel(c)
      BY <3>4 DEF Cancel
    <3>5. CASE Receive(c)
      BY <3>5 DEF Receive
    <3> QED BY <2>2, <3>1, <3>2, <3>3, <3>4, <3>5 DEF ClientNext, Reset
  <2>3. ASSUME NEW c \in Calls, ExecutorNext(c) PROVE TypeOK'
    <3>1. CASE EnterCall(c)
      BY <3>1 DEF EnterCall
    <3>2. CASE CountStarted(c)
      BY <3>2 DEF CountStarted
    <3>3. CASE BidiOnNext(c)
      BY <3>3 DEF BidiOnNext
    <3>4. CASE DropHalfClose(c)
      BY <3>4 DEF DropHalfClose
    <3>5. CASE AnswerNow(c)
      BY <3>5, ResponsesType, BeginCloseType DEF AnswerNow, HandleHalfClose, Runners, Statuses, Steps
    <3>6. CASE HandlerThrows(c)
      BY <3>6 DEF HandlerThrows, HandleHalfClose
    <3>7. CASE AnswerLater(c)
      BY <3>7 DEF AnswerLater, HandleHalfClose
    <3>8. CASE BidiOnCompleted(c)
      BY <3>8, BeginCloseType DEF BidiOnCompleted, HandleHalfClose, Runners, Statuses, Steps
    <3>9. CASE OnCancel(c)
      <4>1. work' \in [Calls \X Runners -> Steps]
        <5>1. work' = work \/ work' = [work EXCEPT ![<<c, "executor">>] = Closing("CANCELLED")]
          BY <3>9 DEF OnCancel
        <5>2. "executor" \in Runners /\ "CANCELLED" \in Statuses
          BY DEF Runners, Statuses
        <5> QED BY <2>0, <5>1, <5>2, BeginCloseNext
      <4> QED BY <3>9, <4>1 DEF OnCancel, Steps
    <3> QED BY <2>3, <3>1, <3>2, <3>3, <3>4, <3>5, <3>6, <3>7, <3>8, <3>9
            DEF ExecutorNext
  <2>4. ASSUME NEW c \in Calls, SchedulerNext(c) PROVE TypeOK'
    <3>1. work' \in [Calls \X Runners -> Steps]
      <4>1. work' = work \/ work' = [work EXCEPT ![<<c, "scheduler">>] = Closing("OK")]
        BY <2>4 DEF SchedulerNext, RunCompute, RunStream, StreamTaskDies
      <4>2. "scheduler" \in Runners /\ "OK" \in Statuses
        BY DEF Runners, Statuses
      <4> QED BY <2>0, <4>1, <4>2, BeginCloseNext
    <3>2. CASE RunCompute(c)
      BY <3>1, <3>2 DEF RunCompute, Steps
    <3>3. CASE RunStream(c)
      BY <3>1, <3>3 DEF RunStream, Steps
    <3>4. CASE StreamTaskDies(c)
      BY <3>4 DEF StreamTaskDies, TakeThread
    <3> QED BY <2>4, <3>2, <3>3, <3>4 DEF SchedulerNext
  <2>5. ASSUME NEW c \in Calls, NEW t \in Runners, CloseNext(c, t) PROVE TypeOK'
    <3>1. CASE CloseDecrement(c, t)
      <4>1. work' \in [Calls \X Runners -> Steps]
        BY <3>1, StepType DEF CloseDecrement, Steps
      <4> QED BY <3>1, <4>1 DEF CloseDecrement, Steps
    <3>2. CASE CloseCount(c, t)
      <4>1. work' \in [Calls \X Runners -> Steps]
        BY <3>2, StepType DEF CloseCount, Steps
      <4>2. work[<<c, t>>].status \in Statuses
        OBVIOUS
      <4> QED BY <3>2, <4>1, <4>2 DEF CloseCount, Steps
    <3>3. CASE CloseCall(c, t)
      BY <3>3 DEF CloseCall, Idle, Statuses
    <3> QED BY <2>5, <3>1, <3>2, <3>3 DEF CloseNext
  <2>6. ASSUME NEW c \in Calls, Arrive(c) \/ Mark(c) PROVE TypeOK'
    <3>1. CASE Arrive(c)
      BY <3>1 DEF Arrive
    <3>2. CASE Mark(c)
      BY <3>2 DEF Mark
    <3> QED BY <2>6, <3>1, <3>2
  <2>7. CASE UNCHANGED vars
    BY <2>7 DEF vars
  <2> QED BY <2>1, <2>2, <2>3, <2>4, <2>5, <2>6, <2>7 DEF Next
<1> QED BY <1>1, <1>2, PTL DEF Spec
-----------------------------------------------------------------------------
(* The inductive invariant *)

Exec(c) == work[<<c, "executor">>]
Schd(c) == work[<<c, "scheduler">>]

\* What the client has done bounds which callbacks may still come.
ClientFirst(c) ==
  /\ client[c] = "idle" => stage[c] = "none"
  /\ cancel[c] # "no" => stage[c] # "none"
  /\ halfClose[c] # "no" => client[c] \notin {"idle", "streaming"}
  /\ client[c] = "ok" => trailers[c] = "OK"

\* The call has been handed to somebody who will close it, or has been closed.
Begun(c) ==
  \/ task[c] = "scheduled" \/ Exec(c).at # "idle" \/ Schd(c).at # "idle"
  \/ closes[c] # 0 \/ trailers[c] # "none"

BegunOnce(c) ==
  Begun(c) => /\ stage[c] = "counted"
              /\ \/ halfClose[c] = "handled"
                 \/ request[c].method = "bidiStream" /\ cancel[c] = "handled"

\* At any time at most one thread, or one scheduled task, will close the call,
\* and none after it has been closed.
SoleCloser(c) ==
  /\ closes[c] \in {0, 1}
  /\ Exec(c).at = "idle" \/ Schd(c).at = "idle"
  /\ task[c] = "scheduled" => /\ Exec(c).at = "idle" /\ Schd(c).at = "idle"
                              /\ closes[c] = 0 /\ trailers[c] = "none"
  /\ \A t \in Runners :
       /\ work[<<c, t>>].at = "decrement" => closes[c] = 0 /\ trailers[c] = "none"
       /\ work[<<c, t>>].at \in {"record", "close"}
            => closes[c] = 1 /\ trailers[c] = "none"
  /\ Exec(c).at = "idle" /\ Schd(c).at = "idle" /\ closes[c] = 1
       => trailers[c] \in Statuses
  /\ closes[c] = 0 => trailers[c] \notin Statuses

Entered  == {c \in Calls : stage[c] \in {"entered", "counted"}}
Counted  == {c \in Calls : stage[c] = "counted"}
Released == {c \in Calls : closes[c] = 1}
HasRecorded(c, s) ==
  \/ trailers[c] = s
  \/ \E t \in Runners : work[<<c, t>>].at = "close" /\ work[<<c, t>>].status = s
Recorded(s) == {c \in Calls : HasRecorded(c, s)}

\* Every counter is the number of calls that have come so far.
Tallies ==
  /\ inFlight = Cardinality(Entered) - Cardinality(Released)
  /\ started = Cardinality(Counted)
  /\ \A s \in Statuses : completed[s] = Cardinality(Recorded(s))

CallInv == \A c \in Calls : ClientFirst(c) /\ BegunOnce(c) /\ SoleCloser(c)

LEMMA CallInvInit == Init => CallInv
  BY DEF Init, CallInv, ClientFirst, BegunOnce, Begun, SoleCloser, Exec, Schd,
         Idle, Runners, Statuses

LEMMA CallInvStep == TypeOK /\ CallInv /\ [Next]_vars => CallInv'
<1> SUFFICES ASSUME TypeOK, CallInv, [Next]_vars, NEW d \in Calls
             PROVE  (ClientFirst(d) /\ BegunOnce(d) /\ SoleCloser(d))'
  BY DEF CallInv
<1>0. ClientFirst(d) /\ BegunOnce(d) /\ SoleCloser(d)
  BY DEF CallInv
<1> USE DEF TypeOK, ClientFirst, BegunOnce, Begun, SoleCloser, Exec, Schd, Runners,
            clientVars, callVars, handlerVars, closeVars, rpcGauges, connGauges
<1>1. ASSUME NEW k \in Connections, TransportReady(k) \/ TransportTerminated(k)
      PROVE  (ClientFirst(d) /\ BegunOnce(d) /\ SoleCloser(d))'
  BY <1>0, <1>1 DEF TransportReady, TransportTerminated
<1>2. ASSUME NEW c \in Calls, ClientNext(c)
      PROVE  (ClientFirst(d) /\ BegunOnce(d) /\ SoleCloser(d))'
  <2>1. CASE OpenCall(c)
    BY <1>0, <2>1 DEF OpenCall
  <2>2. CASE PostMessage(c)
    BY <1>0, <2>2 DEF PostMessage
  <2>3. CASE PostHalfClose(c)
    BY <1>0, <2>3 DEF PostHalfClose
  <2>4. CASE Cancel(c)
    BY <1>0, <2>4 DEF Cancel, Unanswered
  <2>5. CASE Receive(c)
    BY <1>0, <2>5 DEF Receive, Unanswered
  <2> QED BY <1>2, <2>1, <2>2, <2>3, <2>4, <2>5 DEF ClientNext, Reset
<1>3. ASSUME NEW c \in Calls, ExecutorNext(c)
      PROVE  (ClientFirst(d) /\ BegunOnce(d) /\ SoleCloser(d))'
  <2>1. CASE EnterCall(c)
    BY <1>0, <2>1 DEF EnterCall
  <2>2. CASE CountStarted(c)
    BY <1>0, <2>2 DEF CountStarted
  <2>3. CASE BidiOnNext(c)
    BY <1>0, <2>3 DEF BidiOnNext
  <2>4. CASE DropHalfClose(c)
    BY <1>0, <2>4 DEF DropHalfClose
  <2>5. CASE AnswerNow(c)
    BY <1>0, <2>5 DEF AnswerNow, HandleHalfClose, Closing, Ready, Marked, Immediate
  <2>6. CASE HandlerThrows(c)
    BY <1>0, <2>6 DEF HandlerThrows, HandleHalfClose, Statuses, Ready, Marked, Throws
  <2>7. CASE AnswerLater(c)
    BY <1>0, <2>7 DEF AnswerLater, HandleHalfClose, Ready, Marked
  <2>8. CASE BidiOnCompleted(c)
    BY <1>0, <2>8 DEF BidiOnCompleted, HandleHalfClose, Closing, Ready, Marked
  <2>9. CASE OnCancel(c)
    <3>1. CASE request[c].method = "bidiStream" /\ halfClose[c] # "handled"
      <4>1. /\ work'[<<c, "executor">>].at = "decrement"
            /\ \A x \in Calls \X Runners : x # <<c, "executor">> => work'[x] = work[x]
        BY <2>9, <3>1 DEF OnCancel, Closing
      <4>2. CASE c = d
        <5>1. Exec(d)'.at = "decrement" /\ Schd(d)' = Schd(d)
          BY <4>1, <4>2
        <5> QED BY <1>0, <2>9, <3>1, <4>2, <5>1 DEF OnCancel, Ready
      <4>3. CASE c # d
        BY <1>0, <2>9, <4>1, <4>3 DEF OnCancel
      <4> QED BY <4>2, <4>3
    <3>2. CASE ~(request[c].method = "bidiStream" /\ halfClose[c] # "handled")
      BY <1>0, <2>9, <3>2 DEF OnCancel, Ready
    <3> QED BY <3>1, <3>2
  <2> QED BY <1>3, <2>1, <2>2, <2>3, <2>4, <2>5, <2>6, <2>7, <2>8, <2>9
          DEF ExecutorNext
<1>4. ASSUME NEW c \in Calls, SchedulerNext(c)
      PROVE  (ClientFirst(d) /\ BegunOnce(d) /\ SoleCloser(d))'
  <2>1. CASE RunCompute(c)
    <3>1. /\ work'[<<c, "scheduler">>].at = "decrement"
          /\ \A x \in Calls \X Runners : x # <<c, "scheduler">> => work'[x] = work[x]
      BY <2>1 DEF RunCompute, Closing
    <3>2. CASE c = d
      <4>1. Schd(d)'.at = "decrement" /\ Exec(d)' = Exec(d)
        BY <3>1, <3>2
      <4> QED BY <1>0, <2>1, <3>2, <4>1 DEF RunCompute, TakeThread
    <3>3. CASE c # d
      BY <1>0, <2>1, <3>1, <3>3 DEF RunCompute
    <3> QED BY <3>2, <3>3
  <2>2. CASE RunStream(c)
    <3>1. CASE work' = work
      BY <1>0, <2>2, <3>1 DEF RunStream, TakeThread
    <3>2. CASE work' = [work EXCEPT ![<<c, "scheduler">>] = Closing("OK")] /\ task'[c] = "none"
      <4>1. /\ work'[<<c, "scheduler">>].at = "decrement"
            /\ \A x \in Calls \X Runners : x # <<c, "scheduler">> => work'[x] = work[x]
        BY <3>2 DEF Closing
      <4>2. CASE c = d
        <5>1. Schd(d)'.at = "decrement" /\ Exec(d)' = Exec(d)
          BY <4>1, <4>2
        <5> QED BY <1>0, <2>2, <3>2, <4>2, <5>1 DEF RunStream, TakeThread
      <4>3. CASE c # d
        BY <1>0, <2>2, <4>1, <4>3 DEF RunStream
      <4> QED BY <4>2, <4>3
    <3> QED BY <2>2, <3>1, <3>2 DEF RunStream
  <2>3. CASE StreamTaskDies(c)
    BY <1>0, <2>3 DEF StreamTaskDies, TakeThread
  <2> QED BY <1>4, <2>1, <2>2, <2>3 DEF SchedulerNext
<1>5. ASSUME NEW c \in Calls, NEW t \in Runners, CloseNext(c, t)
      PROVE  (ClientFirst(d) /\ BegunOnce(d) /\ SoleCloser(d))'
  <2>0. work \in [Calls \X Runners -> Steps]
    BY DEF Steps
  <2>1. CASE CloseDecrement(c, t)
    <3>1. /\ work'[<<c, t>>].at = "record"
          /\ \A x \in Calls \X Runners : x # <<c, t>> => work'[x] = work[x]
      BY <2>1 DEF CloseDecrement
    <3>2. CASE c = d
      <4>1. CASE t = "executor"
        <5>1. Exec(d)'.at = "record" /\ Schd(d)' = Schd(d)
          BY <3>1, <3>2, <4>1
        <5> QED BY <1>0, <2>1, <3>2, <4>1, <5>1 DEF CloseDecrement
      <4>2. CASE t = "scheduler"
        <5>1. Schd(d)'.at = "record" /\ Exec(d)' = Exec(d)
          BY <3>1, <3>2, <4>2
        <5> QED BY <1>0, <2>1, <3>2, <4>2, <5>1 DEF CloseDecrement
      <4> QED BY <4>1, <4>2
    <3>3. CASE c # d
      BY <1>0, <2>1, <3>1, <3>3 DEF CloseDecrement
    <3> QED BY <3>2, <3>3
  <2>2. CASE CloseCount(c, t)
    <3>1. /\ work'[<<c, t>>].at = "close"
          /\ \A x \in Calls \X Runners : x # <<c, t>> => work'[x] = work[x]
      BY <2>2 DEF CloseCount
    <3>2. CASE c = d
      <4>1. CASE t = "executor"
        <5>1. Exec(d)'.at = "close" /\ Schd(d)' = Schd(d)
          BY <3>1, <3>2, <4>1
        <5> QED BY <1>0, <2>2, <3>2, <4>1, <5>1 DEF CloseCount
      <4>2. CASE t = "scheduler"
        <5>1. Schd(d)'.at = "close" /\ Exec(d)' = Exec(d)
          BY <3>1, <3>2, <4>2
        <5> QED BY <1>0, <2>2, <3>2, <4>2, <5>1 DEF CloseCount
      <4> QED BY <4>1, <4>2
    <3>3. CASE c # d
      BY <1>0, <2>2, <3>1, <3>3 DEF CloseCount
    <3> QED BY <3>2, <3>3
  <2>3. CASE CloseCall(c, t)
    <3>1. /\ work'[<<c, t>>].at = "idle"
          /\ \A x \in Calls \X Runners : x # <<c, t>> => work'[x] = work[x]
      BY <2>3 DEF CloseCall, Idle
    <3>2. CASE c = d
      <4>1. CASE t = "executor"
        <5>1. Exec(d)'.at = "idle" /\ Schd(d)' = Schd(d)
          BY <3>1, <3>2, <4>1
        <5> QED BY <1>0, <2>3, <3>2, <4>1, <5>1 DEF CloseCall, Statuses
      <4>2. CASE t = "scheduler"
        <5>1. Schd(d)'.at = "idle" /\ Exec(d)' = Exec(d)
          BY <3>1, <3>2, <4>2
        <5> QED BY <1>0, <2>3, <3>2, <4>2, <5>1 DEF CloseCall, Statuses
      <4> QED BY <4>1, <4>2
    <3>3. CASE c # d
      BY <1>0, <2>3, <3>1, <3>3 DEF CloseCall
    <3> QED BY <3>2, <3>3
  <2> QED BY <1>5, <2>1, <2>2, <2>3 DEF CloseNext
<1>6. ASSUME NEW c \in Calls, Arrive(c) \/ Mark(c)
      PROVE  (ClientFirst(d) /\ BegunOnce(d) /\ SoleCloser(d))'
  BY <1>0, <1>6 DEF Arrive, Mark
<1>7. CASE UNCHANGED vars
  BY <1>0, <1>7 DEF vars
<1> QED BY <1>1, <1>2, <1>3, <1>4, <1>5, <1>6, <1>7 DEF Next

LEMMA CallInvariant == Spec => []CallInv
<1>1. TypeOK /\ CallInv /\ [Next]_vars => CallInv'
  BY CallInvStep
<1> QED BY CallInvInit, <1>1, TypeCorrect, PTL DEF Spec

\* A call's close() reaches the interceptor at most once, whatever order its
\* half-close, its cancellation and its delayed task come in.
THEOREM CloseIsUnique == Spec => []AtMostOneClose
<1>1. CallInv => AtMostOneClose
  BY DEF CallInv, SoleCloser, AtMostOneClose
<1> QED BY <1>1, CallInvariant, PTL

-----------------------------------------------------------------------------
(* Counting *)

LEMMA SubsetFinite ==
  ASSUME NEW S \in SUBSET Calls
  PROVE  IsFiniteSet(S) /\ Cardinality(S) \in Nat
  BY CallsAssumption, FS_Subset, FS_CardinalityType

LEMMA CountOneMore ==
  ASSUME NEW S \in SUBSET Calls, NEW c \in Calls, c \notin S
  PROVE  Cardinality(S \cup {c}) = Cardinality(S) + 1
  BY SubsetFinite, FS_AddElement

LEMMA CountDisjoint ==
  ASSUME NEW S \in SUBSET Calls, NEW T \in SUBSET Calls, S \cap T = {}
  PROVE  Cardinality(S \cup T) = Cardinality(S) + Cardinality(T)
<1>1. Cardinality(S \cup T) = Cardinality(S) + Cardinality(T) - Cardinality(S \cap T)
  BY SubsetFinite, FS_Union
<1> QED BY <1>1, SubsetFinite, FS_EmptySet

LEMMA TalliesInit == Init => Tallies
<1> SUFFICES ASSUME Init PROVE Tallies
  OBVIOUS
<1>1. Entered = {} /\ Counted = {} /\ Released = {}
  BY DEF Init, Entered, Counted, Released
<1>2. \A s \in Statuses : Recorded(s) = {}
  BY DEF Init, Recorded, HasRecorded, Idle, Statuses, Runners
<1>3. inFlight = 0 /\ started = 0 /\ \A s \in Statuses : completed[s] = 0
  BY DEF Init
<1> QED BY <1>1, <1>2, <1>3, FS_EmptySet DEF Tallies

\* Steps that touch none of the sets the counters count.
LEMMA TalliesSame ==
  ASSUME Tallies, UNCHANGED <<inFlight, started, completed>>,
         Entered' = Entered, Counted' = Counted, Released' = Released,
         \A s \in Statuses : Recorded(s)' = Recorded(s)
  PROVE  Tallies'
  BY DEF Tallies

\* The counted completions are unchanged when no call changes in whether it has
\* been recorded.
LEMMA RecordedSame ==
  ASSUME NEW s, \A d \in Calls : HasRecorded(d, s)' <=> HasRecorded(d, s)
  PROVE  Recorded(s)' = Recorded(s)
  BY DEF Recorded

LEMMA TalliesStep == TypeOK /\ CallInv /\ Tallies /\ [Next]_vars => Tallies'
<1> SUFFICES ASSUME TypeOK, CallInv, Tallies, [Next]_vars PROVE Tallies'
  OBVIOUS
<1> USE DEF clientVars, callVars, handlerVars, closeVars, rpcGauges, connGauges
<1>0. work \in [Calls \X Runners -> Steps]
  BY DEF TypeOK, Steps
<1>1. ASSUME UNCHANGED <<stage, work, closes, trailers, inFlight, started, completed>>
      PROVE  Tallies'
  BY <1>1, TalliesSame DEF Entered, Counted, Released, Recorded, HasRecorded
<1>2. ASSUME NEW c \in Calls, Arrive(c) PROVE Tallies'
  <2>1. stage[c] = "none" /\ stage' = [stage EXCEPT ![c] = "queued"]
    BY <1>2 DEF Arrive
  <2>2. Entered' = Entered /\ Counted' = Counted
    BY <2>1 DEF Entered, Counted, TypeOK
  <2> QED BY <1>2, <2>2, TalliesSame DEF Arrive, Released, Recorded, HasRecorded
<1>3. ASSUME NEW c \in Calls, EnterCall(c) PROVE Tallies'
  <2>1. Entered' = Entered \cup {c} /\ c \notin Entered /\ Counted' = Counted
    BY <1>3 DEF EnterCall, Entered, Counted, TypeOK
  <2>2. Released' = Released /\ \A s \in Statuses : Recorded(s)' = Recorded(s)
    BY <1>3 DEF EnterCall, Released, Recorded, HasRecorded
  <2>3. Cardinality(Entered)' = Cardinality(Entered) + 1
    BY <2>1, CountOneMore DEF Entered
  <2> QED BY <1>3, <2>1, <2>2, <2>3, SubsetFinite
          DEF EnterCall, Tallies, Entered, Released
<1>4. ASSUME NEW c \in Calls, CountStarted(c) PROVE Tallies'
  <2>1. Counted' = Counted \cup {c} /\ c \notin Counted /\ Entered' = Entered
    BY <1>4 DEF CountStarted, Entered, Counted, TypeOK
  <2>2. Released' = Released /\ \A s \in Statuses : Recorded(s)' = Recorded(s)
    BY <1>4 DEF CountStarted, Released, Recorded, HasRecorded
  <2>3. Cardinality(Counted)' = Cardinality(Counted) + 1
    BY <2>1, CountOneMore DEF Counted
  <2> QED BY <1>4, <2>1, <2>2, <2>3 DEF CountStarted, Tallies
\* A thread that begins to close has recorded nothing yet.
<1>5. ASSUME NEW c \in Calls, NEW t \in Runners, NEW s \in Statuses,
             work[<<c, t>>].at = "idle",
             work' = [work EXCEPT ![<<c, t>>] = Closing(s)],
             UNCHANGED <<stage, closes, trailers, inFlight, started, completed>>
      PROVE  Tallies'
  <2>0. /\ work'[<<c, t>>].at = "decrement"
        /\ \A x \in Calls \X Runners : x # <<c, t>> => work'[x] = work[x]
    BY <1>0, <1>5 DEF Closing
  <2>1. \A r \in Statuses : Recorded(r)' = Recorded(r)
    <3>1. \A r \in Statuses : HasRecorded(c, r)' <=> HasRecorded(c, r)
      BY <1>5, <2>0 DEF HasRecorded
    <3>2. \A r \in Statuses, d \in Calls \ {c} : HasRecorded(d, r)' <=> HasRecorded(d, r)
      BY <1>5, <2>0 DEF HasRecorded
    <3> QED BY <3>1, <3>2, RecordedSame
  <2> QED BY <1>5, <2>1, TalliesSame DEF Entered, Counted, Released
<1>6. ASSUME NEW c \in Calls, ExecutorNext(c) PROVE Tallies'
  <2>1. CASE AnswerNow(c)
    BY <1>5, <2>1 DEF AnswerNow, HandleHalfClose, Ready, Runners, Statuses
  <2>2. CASE BidiOnCompleted(c)
    BY <1>5, <2>2 DEF BidiOnCompleted, HandleHalfClose, Ready, Runners, Statuses
  <2>3. CASE OnCancel(c)
    BY <1>1, <1>5, <2>3 DEF OnCancel, Ready, Runners, Statuses
  <2>4. CASE HandlerThrows(c)
    <3>1. trailers[c] = "none"
      BY <2>4 DEF HandlerThrows, HandleHalfClose, Throws, CallInv, BegunOnce, Begun
    <3>2. \A s \in Statuses : Recorded(s)' = Recorded(s)
      BY <2>4, <3>1, RecordedSame
      DEF HandlerThrows, HandleHalfClose, HasRecorded, Statuses, TypeOK
    <3> QED BY <2>4, <3>2, TalliesSame
            DEF HandlerThrows, HandleHalfClose, Entered, Counted, Released
  <2>5. CASE BidiOnNext(c) \/ DropHalfClose(c) \/ AnswerLater(c)
    BY <1>1, <2>5 DEF BidiOnNext, DropHalfClose, AnswerLater, HandleHalfClose
  <2> QED BY <1>3, <1>4, <1>6, <2>1, <2>2, <2>3, <2>4, <2>5 DEF ExecutorNext
<1>7. ASSUME NEW c \in Calls, SchedulerNext(c) PROVE Tallies'
  <2>1. task[c] = "scheduled" => work[<<c, "scheduler">>].at = "idle"
    BY DEF CallInv, SoleCloser, Schd
  <2>2. CASE RunCompute(c)
    BY <1>5, <2>1, <2>2 DEF RunCompute, TakeThread, Runners, Statuses
  <2>3. CASE RunStream(c)
    BY <1>1, <1>5, <2>1, <2>3 DEF RunStream, TakeThread, Runners, Statuses
  <2>4. CASE StreamTaskDies(c)
    BY <1>1, <2>4 DEF StreamTaskDies
  <2> QED BY <1>7, <2>2, <2>3, <2>4 DEF SchedulerNext
<1>8. ASSUME NEW c \in Calls, NEW t \in Runners, CloseDecrement(c, t) PROVE Tallies'
  <2>1. Released' = Released \cup {c} /\ c \notin Released
    BY <1>8 DEF CloseDecrement, Released, CallInv, SoleCloser, TypeOK
  <2>2. Cardinality(Released)' = Cardinality(Released) + 1
    BY <2>1, CountOneMore DEF Released
  <2>0. /\ work'[<<c, t>>].at = "record"
        /\ \A x \in Calls \X Runners : x # <<c, t>> => work'[x] = work[x]
    BY <1>0, <1>8 DEF CloseDecrement, Steps
  <2>3. \A s \in Statuses : Recorded(s)' = Recorded(s)
    <3>1. work[<<c, t>>].at = "decrement" /\ trailers' = trailers
      BY <1>8 DEF CloseDecrement
    <3>2. \A s \in Statuses : HasRecorded(c, s)' <=> HasRecorded(c, s)
      BY <2>0, <3>1 DEF HasRecorded
    <3>3. \A s \in Statuses, d \in Calls \ {c} : HasRecorded(d, s)' <=> HasRecorded(d, s)
      BY <2>0, <3>1 DEF HasRecorded
    <3> QED BY <3>2, <3>3, RecordedSame
  <2> QED BY <1>8, <2>2, <2>3, SubsetFinite
          DEF CloseDecrement, Tallies, Entered, Counted, Released
<1>9. ASSUME NEW c \in Calls, NEW t \in Runners, CloseCount(c, t) PROVE Tallies'
  <2> DEFINE s == work[<<c, t>>].status
  <2>1. s \in Statuses /\ trailers[c] = "none"
    BY <1>0, <1>9 DEF CloseCount, Steps, CallInv, SoleCloser
  <2>2. \A u \in Runners : work[<<c, u>>].at # "close"
    BY <1>9 DEF CloseCount, CallInv, SoleCloser, Exec, Schd, Runners
  <2>3. c \notin Recorded(s)
    BY <2>1, <2>2 DEF Recorded, HasRecorded, Statuses
  <2>4. /\ work'[<<c, t>>].at = "close" /\ work'[<<c, t>>].status = s
        /\ \A x \in Calls \X Runners : x # <<c, t>> => work'[x] = work[x]
    BY <1>0, <1>9 DEF CloseCount, Steps
  <2>5. Recorded(s)' = Recorded(s) \cup {c}
    BY <1>9, <2>4 DEF CloseCount, Recorded, HasRecorded
  <2>6. \A r \in Statuses \ {s} : Recorded(r)' = Recorded(r)
    <3>1. trailers' = trailers
      BY <1>9 DEF CloseCount
    <3>2. \A r \in Statuses \ {s} : HasRecorded(c, r)' <=> HasRecorded(c, r)
      BY <2>2, <2>4, <3>1 DEF HasRecorded
    <3>3. \A r \in Statuses, d \in Calls \ {c} : HasRecorded(d, r)' <=> HasRecorded(d, r)
      BY <2>4, <3>1 DEF HasRecorded
    <3> QED BY <3>2, <3>3, RecordedSame
  <2>7. Cardinality(Recorded(s))' = Cardinality(Recorded(s)) + 1
    BY <2>3, <2>5, CountOneMore DEF Recorded
  <2> QED BY <1>9, <2>1, <2>6, <2>7
          DEF CloseCount, Tallies, Entered, Counted, Released, TypeOK
<1>10. ASSUME NEW c \in Calls, NEW t \in Runners, CloseCall(c, t) PROVE Tallies'
  <2>1. trailers[c] = "none" /\ work[<<c, t>>].status \in Statuses
    BY <1>0, <1>10 DEF CloseCall, Steps, CallInv, SoleCloser
  <2>2. \A u \in Runners : u # t => work[<<c, u>>].at = "idle"
    BY <1>10 DEF CloseCall, CallInv, SoleCloser, Exec, Schd, Runners
  <2>3. \A s \in Statuses : Recorded(s)' = Recorded(s)
    <3>1. /\ work'[<<c, t>>].at = "idle" /\ trailers'[c] = work[<<c, t>>].status
          /\ work[<<c, t>>].at = "close"
          /\ \A x \in Calls \X Runners : x # <<c, t>> => work'[x] = work[x]
          /\ \A d \in Calls \ {c} : trailers'[d] = trailers[d]
      BY <1>0, <1>10, <2>1 DEF CloseCall, Idle, TypeOK
    <3>2. \A s \in Statuses : HasRecorded(c, s)' <=> HasRecorded(c, s)
      BY <2>1, <2>2, <3>1 DEF HasRecorded, Statuses
    <3>3. \A s \in Statuses, d \in Calls \ {c} : HasRecorded(d, s)' <=> HasRecorded(d, s)
      BY <3>1 DEF HasRecorded
    <3> QED BY <3>2, <3>3, RecordedSame
  <2> QED BY <1>10, <2>3, TalliesSame DEF CloseCall, Entered, Counted, Released
<1>11. ASSUME NEW c \in Calls, ClientNext(c) \/ Mark(c) PROVE Tallies'
  BY <1>1, <1>11
  DEF ClientNext, OpenCall, PostMessage, PostHalfClose, Cancel, Reset, Receive, Mark
<1>12. ASSUME NEW k \in Connections, TransportReady(k) \/ TransportTerminated(k)
       PROVE  Tallies'
  BY <1>1, <1>12 DEF TransportReady, TransportTerminated
<1>13. CASE UNCHANGED vars
  BY <1>1, <1>13 DEF vars
<1> QED BY <1>2, <1>6, <1>7, <1>8, <1>9, <1>10, <1>11, <1>12, <1>13 DEF Next, CloseNext

LEMMA TalliesInvariant == Spec => []Tallies
<1>1. TypeOK /\ CallInv /\ Tallies /\ [Next]_vars => Tallies'
  BY TalliesStep
<1> QED BY TalliesInit, <1>1, TypeCorrect, CallInvariant, PTL DEF Spec

\* The three series of the interceptor account for each other: calls started
\* but not completed are in flight, up to those between two of the updates.
THEOREM GaugesAreExact == Spec => []GaugesAccount
<1> SUFFICES ASSUME TypeOK, CallInv, Tallies PROVE GaugesAccount
  BY TypeCorrect, CallInvariant, TalliesInvariant, PTL
<1>1. /\ Entered = Counted \cup MidStart /\ Counted \cap MidStart = {}
      /\ Counted \in SUBSET Calls /\ MidStart \in SUBSET Calls
  BY DEF Entered, Counted, MidStart
<1>2. Cardinality(Entered) = Cardinality(Counted) + Cardinality(MidStart)
  BY <1>1, CountDisjoint
<1> DEFINE Finished == Recorded("OK") \cup Recorded("CANCELLED")
<1>3. ASSUME NEW c \in Calls
      PROVE  /\ closes[c] = 1 <=> c \in Finished \/ c \in MidClose
             /\ ~(c \in Finished /\ c \in MidClose)
             /\ ~(c \in Recorded("OK") /\ c \in Recorded("CANCELLED"))
  <2>1. SoleCloser(c)
    BY DEF CallInv
  <2>2. /\ work[<<c, "executor">>] \in Steps /\ work[<<c, "scheduler">>] \in Steps
    BY DEF TypeOK, Steps, Runners
  <2> QED BY <2>1, <2>2
          DEF SoleCloser, Exec, Schd, Recorded, HasRecorded, MidClose, Runners, Steps, Statuses
<1>4. /\ Released = Finished \cup MidClose /\ Finished \cap MidClose = {}
      /\ Recorded("OK") \cap Recorded("CANCELLED") = {}
      /\ Finished \in SUBSET Calls /\ MidClose \in SUBSET Calls
      /\ Recorded("OK") \in SUBSET Calls /\ Recorded("CANCELLED") \in SUBSET Calls
  <2>1. MidClose \in SUBSET Calls
    BY DEF MidClose
  <2>2. Recorded("OK") \in SUBSET Calls /\ Recorded("CANCELLED") \in SUBSET Calls
    BY DEF Recorded
  <2> HIDE DEF Finished
  <2>3. Finished \in SUBSET Calls
    BY <2>2 DEF Finished
  <2> QED BY <1>3, <2>1, <2>2, <2>3 DEF Released
<1>5. Cardinality(Finished) = Cardinality(Recorded("OK")) + Cardinality(Recorded("CANCELLED"))
  BY <1>4, CountDisjoint
<1>6. Cardinality(Released) = Cardinality(Finished) + Cardinality(MidClose)
  BY <1>4, CountDisjoint
<1> HIDE DEF Finished
<1>7. /\ completed["OK"] = Cardinality(Recorded("OK"))
      /\ completed["CANCELLED"] = Cardinality(Recorded("CANCELLED"))
      /\ started = Cardinality(Counted)
      /\ inFlight = Cardinality(Entered) - Cardinality(Released)
  BY DEF Tallies, Statuses
<1>8. /\ Cardinality(Counted) \in Nat /\ Cardinality(MidStart) \in Nat
      /\ Cardinality(MidClose) \in Nat /\ Cardinality(Finished) \in Nat
      /\ Cardinality(Recorded("OK")) \in Nat /\ Cardinality(Recorded("CANCELLED")) \in Nat
  BY <1>1, <1>4, SubsetFinite
<1> QED BY <1>2, <1>5, <1>6, <1>7, <1>8 DEF GaugesAccount, CompletedTotal

\* The server has counted every OK a client holds: the counter is incremented
\* before the trailers are sent.
THEOREM AnswersAreCounted == Spec => []AnsweredIsCounted
<1> SUFFICES ASSUME TypeOK, CallInv, Tallies PROVE AnsweredIsCounted
  BY TypeCorrect, CallInvariant, TalliesInvariant, PTL
<1> DEFINE Answered == {c \in Calls : client[c] = "ok"}
<1>1. Answered \subseteq Recorded("OK")
  BY DEF CallInv, ClientFirst, Recorded, HasRecorded
<1>2. IsFiniteSet(Recorded("OK"))
  BY SubsetFinite DEF Recorded
<1>3. Cardinality(Answered) <= Cardinality(Recorded("OK"))
  BY <1>1, <1>2, FS_Subset
<1> QED BY <1>3 DEF AnsweredIsCounted, Tallies, Statuses

-----------------------------------------------------------------------------
(* Connections *)

Open == {k \in Connections : transport[k] = "ready"}

\* The gauge is the number of connections the server's transport holds.
Carried == active = Cardinality(Open)

LEMMA OpenFinite == IsFiniteSet(Open) /\ Cardinality(Open) \in Nat
  BY ConnectionsAssumption, FS_Subset, FS_CardinalityType DEF Open

LEMMA CarriedInit == Init => Carried
<1> SUFFICES ASSUME Init PROVE Carried  OBVIOUS
<1>1. Open = {} /\ active = 0  BY DEF Init, Open
<1> QED BY <1>1, FS_EmptySet DEF Carried

LEMMA CarriedStep == TypeOK /\ Carried /\ [Next]_vars => Carried'
<1> SUFFICES ASSUME TypeOK, Carried, [Next]_vars PROVE Carried'
  OBVIOUS
<1>1. ASSUME UNCHANGED connGauges PROVE Carried'
  BY <1>1 DEF Open, Carried, connGauges
<1>2. ASSUME NEW k \in Connections, TransportReady(k) PROVE Carried'
  <2>1. Open' = Open \cup {k} /\ k \notin Open
    BY <1>2 DEF TransportReady, Open, TypeOK
  <2>2. Cardinality(Open') = Cardinality(Open) + 1
    BY <2>1, OpenFinite, FS_AddElement
  <2>3. active' = active + 1
    BY <1>2 DEF TransportReady
  <2> QED BY <2>2, <2>3 DEF Carried
<1>3. ASSUME NEW k \in Connections, TransportTerminated(k) PROVE Carried'
  <2>1. Open' = Open \ {k} /\ k \in Open
    BY <1>3 DEF TransportTerminated, Open, TypeOK
  <2>2. Cardinality(Open') = Cardinality(Open) - 1
    BY <2>1, OpenFinite, FS_RemoveElement
  <2>3. active' = active - 1
    BY <1>3 DEF TransportTerminated
  <2> QED BY <2>2, <2>3 DEF Carried
<1>4. ASSUME NEW c \in Calls, ClientNext(c) \/ Arrive(c) \/ Mark(c) PROVE Carried'
  BY <1>1, <1>4 DEF ClientNext, OpenCall, PostMessage, PostHalfClose, Cancel, Reset, Receive,
     Arrive, Mark
<1>5. ASSUME NEW c \in Calls, ExecutorNext(c) PROVE Carried'
  BY <1>1, <1>5 DEF ExecutorNext, EnterCall, CountStarted, BidiOnNext, DropHalfClose, AnswerNow,
     HandlerThrows, AnswerLater, BidiOnCompleted, OnCancel
<1>6. ASSUME NEW c \in Calls, SchedulerNext(c) PROVE Carried'
  BY <1>1, <1>6 DEF SchedulerNext, RunCompute, RunStream, StreamTaskDies
<1>7. ASSUME NEW c \in Calls, NEW t \in Runners, CloseNext(c, t) PROVE Carried'
  BY <1>1, <1>7 DEF CloseNext, CloseDecrement, CloseCount, CloseCall
<1>8. CASE UNCHANGED vars
  BY <1>1, <1>8 DEF vars
<1> QED BY <1>2, <1>3, <1>4, <1>5, <1>6, <1>7, <1>8 DEF Next

LEMMA CarriedInvariant == Spec => []Carried
<1>1. TypeOK /\ Carried /\ [Next]_vars => Carried'
  BY CarriedStep
<1> QED BY CarriedInit, <1>1, TypeCorrect, PTL DEF Spec

-----------------------------------------------------------------------------
(* What an OK stands for *)

\* The client has been told OK, or somebody is about to.
Promised(c) ==
  \/ trailers[c] = "OK"
  \/ \E t \in Runners : work[<<c, t>>].at # "idle" /\ work[<<c, t>>].status = "OK"

Whole(c) == sent[c] = IF IsBidi(c) THEN posted[c] ELSE Responses(request[c])

\* An OK is promised with the last response. Until then a bidi call has answered
\* what has reached it, any other has answered nothing before its half-close, and
\* a scheduled task has a response left to send.
Delivery(c) ==
  /\ Promised(c) => Whole(c) /\ halfClose[c] = "handled" /\ messages[c] = 0
  /\ IsBidi(c) /\ cancel[c] = "no" => posted[c] = sent[c] + messages[c]
  /\ ~IsBidi(c) => /\ client[c] # "streaming" /\ messages[c] = 0
                   /\ halfClose[c] # "handled" => sent[c] = 0
  /\ task[c] = "scheduled" =>
       request[c].method \in {"compute", "serverStream"} /\ sent[c] < Responses(request[c])

Deliveries == \A c \in Calls : Delivery(c)

LEMMA DeliveriesInit == Init => Deliveries
<1> SUFFICES ASSUME Init, NEW c \in Calls PROVE Delivery(c)
  BY DEF Deliveries
<1>1. ~Promised(c)
  BY DEF Init, Promised, Idle
<1>2. /\ posted[c] = 0 /\ sent[c] = 0 /\ messages[c] = 0
      /\ client[c] = "idle" /\ task[c] = "none"
  BY DEF Init
<1> QED BY <1>1, <1>2 DEF Delivery

\* Who else is about to close the call, with the others' work left alone.
LEMMA NewPromise ==
  ASSUME TypeOK, NEW c \in Calls, NEW t \in Runners, NEW d \in Calls,
         NEW w \in Steps, work' = [work EXCEPT ![<<c, t>>] = w], trailers' = trailers,
         Promised(d)', d # c \/ w.at = "idle" \/ w.status # "OK"
                      \/ (work[<<c, t>>].at # "idle" /\ work[<<c, t>>].status = "OK")
  PROVE  Promised(d)
<1>1. \A x \in Calls \X Runners : work'[x] = IF x = <<c, t>> THEN w ELSE work[x]
  BY DEF TypeOK
<1>2. CASE trailers[d] = "OK"
  BY <1>2 DEF Promised
<1>3. CASE trailers[d] # "OK"
  <2>1. PICK u \in Runners : work'[<<d, u>>].at # "idle" /\ work'[<<d, u>>].status = "OK"
    BY <1>3 DEF Promised
  <2>2. CASE <<d, u>> = <<c, t>>
    BY <1>1, <2>1, <2>2 DEF Promised
  <2>3. CASE <<d, u>> # <<c, t>>
    BY <1>1, <2>1, <2>3 DEF Promised
  <2> QED BY <2>2, <2>3
<1> QED BY <1>2, <1>3

LEMMA DeliveriesStep == TypeOK /\ CallInv /\ Deliveries /\ [Next]_vars => Deliveries'
<1> SUFFICES ASSUME TypeOK, CallInv, Deliveries, [Next]_vars, NEW d \in Calls PROVE Delivery(d)'
  BY DEF Deliveries
<1>0. Delivery(d) /\ ClientFirst(d) /\ BegunOnce(d) /\ SoleCloser(d)
  BY DEF Deliveries, CallInv
<1>r. /\ request[d] \in Requests /\ Responses(request[d]) \in Nat /\ Messages(request[d]) \in Nat
      /\ sent[d] \in Nat /\ posted[d] \in Nat /\ messages[d] \in Nat
      /\ Messages(request[d]) >= 1
  <2>1. request[d] \in Requests
    BY DEF TypeOK
  <2>2. AsInt(request[d].count) \in Int
    BY <2>1, RequestsAssumption, WidthAssumption DEF AsInt, Words
  <2>3. Messages(request[d]) >= 1
    BY <2>2 DEF Messages, MaxOf
  <2> QED BY <2>1, <2>3, ResponsesType DEF TypeOK
<1>w. ASSUME work' = work, trailers' = trailers PROVE Promised(d)' = Promised(d)
  BY <1>w DEF Promised
<1> USE DEF clientVars, callVars, handlerVars, closeVars, rpcGauges, connGauges
\* Steps after which nothing the delivery speaks of has changed, or the client has gone.
<1>s. ASSUME request' = request, posted' = posted, messages' = messages, sent' = sent,
             task' = task, Promised(d)' => Promised(d),
             halfClose'[d] = halfClose[d] \/ (halfClose[d] # "handled" /\ halfClose'[d] # "handled"
                                             /\ ~Promised(d)),
             client'[d] # "streaming" \/ client'[d] = client[d] \/ IsBidi(d),
             cancel'[d] # "no" \/ cancel'[d] = cancel[d]
      PROVE  Delivery(d)'
  BY <1>0, <1>s DEF Delivery, Whole, IsBidi
<1>1. ASSUME NEW k \in Connections, TransportReady(k) \/ TransportTerminated(k) PROVE Delivery(d)'
  BY <1>1, <1>s, <1>w DEF TransportReady, TransportTerminated
<1>2. ASSUME NEW c \in Calls, OpenCall(c) \/ PostHalfClose(c) PROVE Delivery(d)'
  <2>1. halfClose'[d] = halfClose[d] \/ (halfClose[d] # "handled" /\ halfClose'[d] # "handled"
                                         /\ ~Promised(d))
    BY <1>0, <1>2 DEF OpenCall, PostHalfClose, TypeOK, ClientFirst, Delivery
  <2>2. client'[d] # "streaming" \/ client'[d] = client[d] \/ IsBidi(d)
    BY <1>2 DEF OpenCall, PostHalfClose, TypeOK, IsBidi
  <2> QED BY <1>2, <1>s, <1>w, <2>1, <2>2 DEF OpenCall, PostHalfClose
<1>3. ASSUME NEW c \in Calls, PostMessage(c) PROVE Delivery(d)'
  <2>1. CASE c = d
    <3>1. client[d] = "streaming" /\ posted'[d] = posted[d] + 1 /\ messages'[d] = messages[d] + 1
      BY <1>3, <2>1 DEF PostMessage, TypeOK
    <3>2. IsBidi(d) /\ ~Promised(d)
      BY <1>0, <3>1 DEF Delivery, ClientFirst
    <3>3. posted[d] = sent[d] + messages[d] => posted'[d] = sent[d] + messages'[d]
      BY <1>r, <3>1
    <3> QED BY <1>0, <1>3, <1>w, <3>2, <3>3 DEF PostMessage, Delivery, IsBidi
  <2>2. CASE c # d
    BY <1>0, <1>3, <1>w, <2>2 DEF PostMessage, TypeOK, Delivery, Whole, IsBidi
  <2> QED BY <2>1, <2>2
<1>4. ASSUME NEW c \in Calls, Cancel(c) PROVE Delivery(d)'
  BY <1>4, <1>s, <1>w DEF Cancel, TypeOK
<1>5. ASSUME NEW c \in Calls, Receive(c) PROVE Delivery(d)'
  BY <1>5, <1>s, <1>w DEF Receive, TypeOK
<1>6. ASSUME NEW c \in Calls, Arrive(c) \/ Mark(c) \/ EnterCall(c) \/ CountStarted(c)
      PROVE  Delivery(d)'
  BY <1>6, <1>s, <1>w DEF Arrive, Mark, EnterCall, CountStarted, TypeOK
<1>7. ASSUME NEW c \in Calls, BidiOnNext(c) PROVE Delivery(d)'
  <2>1. CASE c = d
    <3>1. messages[d] > 0 /\ messages'[d] = messages[d] - 1
      BY <1>7, <2>1 DEF BidiOnNext, TypeOK
    <3>2. IsBidi(d) /\ ~Promised(d)
      BY <1>0, <3>1 DEF Delivery
    <3>3. cancel[d] = "no" => sent'[d] = sent[d] + 1
      BY <1>7, <2>1 DEF BidiOnNext, TypeOK, Marked
    <3>4. cancel[d] = "no" => sent'[d] + messages'[d] = sent[d] + messages[d]
      BY <1>r, <3>1, <3>3
    <3> QED BY <1>0, <1>7, <1>w, <3>2, <3>4 DEF BidiOnNext, Delivery, IsBidi
  <2>2. CASE c # d
    BY <1>0, <1>7, <1>w, <2>2 DEF BidiOnNext, TypeOK, Delivery, Whole, IsBidi
  <2> QED BY <2>1, <2>2
<1>8. ASSUME NEW c \in Calls, DropHalfClose(c) PROVE Delivery(d)'
  <2>1. halfClose'[d] = halfClose[d] \/ (halfClose[d] # "handled" /\ halfClose'[d] # "handled"
                                         /\ ~Promised(d))
    BY <1>0, <1>8 DEF DropHalfClose, TypeOK, Delivery
  <2> QED BY <1>8, <1>s, <1>w, <2>1 DEF DropHalfClose
<1>9. ASSUME NEW c \in Calls, AnswerNow(c) PROVE Delivery(d)'
  <2>0. work' = [work EXCEPT ![<<c, "executor">>] = Closing("OK")] /\ Closing("OK") \in Steps
        /\ "executor" \in Runners
    BY <1>9 DEF AnswerNow, Closing, Steps, Statuses, Runners
  <2>1. CASE c = d
    <3>1. /\ messages[d] = 0 /\ sent'[d] = Responses(request[d]) /\ halfClose'[d] = "handled"
          /\ ~IsBidi(d) /\ request' = request /\ messages' = messages /\ client' = client
          /\ task' = task /\ task[d] # "scheduled"
      BY <1>0, <1>9, <2>1 DEF AnswerNow, HandleHalfClose, TypeOK, Immediate, IsBidi, BegunOnce, Begun,
         ClientFirst
    <3> QED BY <1>0, <3>1 DEF Delivery, Whole, IsBidi
  <2>2. CASE c # d
    <3>1. Promised(d)' => Promised(d)
      BY <1>9, <2>0, <2>2, NewPromise DEF AnswerNow
    <3> QED BY <1>0, <1>9, <2>2, <3>1
            DEF AnswerNow, HandleHalfClose, TypeOK, Delivery, Whole, IsBidi
  <2> QED BY <2>1, <2>2
<1>10. ASSUME NEW c \in Calls, HandlerThrows(c) PROVE Delivery(d)'
  <2>1. Promised(d)' => Promised(d)
    BY <1>10 DEF HandlerThrows, TypeOK, Promised
  <2>2. c = d => ~IsBidi(d) /\ ~Promised(d) /\ messages[d] = 0 /\ halfClose[d] # "handled"
    BY <1>0, <1>10 DEF HandlerThrows, HandleHalfClose, Throws, IsBidi, Delivery
  <2>3. c = d => task[d] # "scheduled"
    BY <1>0, <1>10, <2>2 DEF BegunOnce, Begun, HandlerThrows, HandleHalfClose, IsBidi
  <2> QED BY <1>0, <1>10, <2>1, <2>2, <2>3
          DEF HandlerThrows, HandleHalfClose, TypeOK, Delivery, Whole, IsBidi
<1>11. ASSUME NEW c \in Calls, AnswerLater(c) PROVE Delivery(d)'
  <2>1. CASE c = d
    <3>1. request[d].method \in {"compute", "serverStream"} /\ ~IsBidi(d) /\ halfClose[d] # "handled"
      BY <1>11, <2>1 DEF AnswerLater, HandleHalfClose, IsBidi
    <3>2. sent[d] = 0 /\ messages[d] = 0 /\ client[d] # "streaming" /\ ~Promised(d)
      BY <1>0, <3>1 DEF Delivery
    <3>3. sent[d] < Responses(request[d])
      <4>1. Responses(request[d]) >= 1
        BY <1>r DEF Responses
      <4> QED BY <1>r, <3>2, <4>1
    <3> QED BY <1>11, <1>w, <2>1, <3>1, <3>2, <3>3 DEF AnswerLater, HandleHalfClose, TypeOK, Delivery, IsBidi
  <2>2. CASE c # d
    BY <1>0, <1>11, <1>w, <2>2 DEF AnswerLater, HandleHalfClose, TypeOK, Delivery, Whole, IsBidi
  <2> QED BY <2>1, <2>2
<1>12. ASSUME NEW c \in Calls, BidiOnCompleted(c) PROVE Delivery(d)'
  <2>0. work' = [work EXCEPT ![<<c, "executor">>] = Closing("OK")] /\ Closing("OK") \in Steps
        /\ "executor" \in Runners
    BY <1>12 DEF BidiOnCompleted, Closing, Steps, Statuses, Runners
  <2>1. CASE c = d
    <3>1. IsBidi(d) /\ messages[d] = 0 /\ cancel[d] = "no"
      BY <1>12, <2>1 DEF BidiOnCompleted, HandleHalfClose, IsBidi, Marked
    <3>2. posted[d] = sent[d]
      BY <1>0, <1>r, <3>1 DEF Delivery
    <3>3. task[d] # "scheduled"
      BY <1>0, <3>1 DEF Delivery, IsBidi
    <3> QED BY <1>12, <2>1, <1>r, <3>1, <3>2, <3>3
            DEF BidiOnCompleted, HandleHalfClose, TypeOK, Delivery, Whole, IsBidi
  <2>2. CASE c # d
    <3>1. Promised(d)' => Promised(d)
      BY <1>12, <2>0, <2>2, NewPromise DEF BidiOnCompleted
    <3> QED BY <1>0, <1>12, <2>2, <3>1
            DEF BidiOnCompleted, HandleHalfClose, TypeOK, Delivery, Whole, IsBidi
  <2> QED BY <2>1, <2>2
<1>13. ASSUME NEW c \in Calls, OnCancel(c) PROVE Delivery(d)'
  <2>1. Promised(d)' => Promised(d)
    <3>1. CASE request[c].method = "bidiStream" /\ halfClose[c] # "handled"
      <4>1. /\ Closing("CANCELLED") \in Steps /\ Closing("CANCELLED").status # "OK"
            /\ "executor" \in Runners
        BY DEF Closing, Steps, Statuses, Runners
      <4> QED BY <1>13, <3>1, <4>1, NewPromise DEF OnCancel
    <3>2. CASE ~(request[c].method = "bidiStream" /\ halfClose[c] # "handled")
      BY <1>13, <1>w, <3>2 DEF OnCancel
    <3> QED BY <3>1, <3>2
  <2> QED BY <1>13, <1>s, <2>1 DEF OnCancel, TypeOK
<1>14. ASSUME NEW c \in Calls, RunCompute(c) \/ RunStream(c) PROVE Delivery(d)'
  <2>0. \/ work' = [work EXCEPT ![<<c, "scheduler">>] = Closing("OK")]
        \/ work' = work
    BY <1>14 DEF RunCompute, RunStream
  <2>s. Closing("OK") \in Steps /\ "scheduler" \in Runners
    BY DEF Closing, Steps, Statuses, Runners
  <2>1. CASE c = d
    <3>1. /\ task[d] = "scheduled" /\ sent'[d] = sent[d] + 1 /\ request' = request
          /\ client' = client /\ messages' = messages /\ halfClose' = halfClose
          /\ cancel' = cancel /\ posted' = posted /\ trailers' = trailers
      BY <1>14, <2>1 DEF RunCompute, RunStream, TakeThread, TypeOK
    <3>2. ~IsBidi(d) /\ halfClose[d] = "handled" /\ messages[d] = 0 /\ sent[d] < Responses(request[d])
          /\ client[d] # "streaming"
      BY <1>0, <3>1 DEF Delivery, BegunOnce, Begun, IsBidi
    <3>3. CASE sent[d] + 1 >= Responses(request[d])
      <4>1. sent'[d] = Responses(request[d])
        BY <1>r, <3>1, <3>2, <3>3
      <4>2. task'[d] # "scheduled"
        BY <1>14, <2>1, <3>3 DEF RunCompute, RunStream, TypeOK, Responses
      <4> QED BY <3>1, <3>2, <4>1, <4>2 DEF Delivery, Whole, IsBidi
    <3>4. CASE ~(sent[d] + 1 >= Responses(request[d]))
      <4>1. RunStream(d) /\ request[d].method = "serverStream"
        <5>1. ~RunCompute(d)
          BY <1>r, <3>4 DEF RunCompute, Responses
        <5> QED BY <1>14, <2>1, <5>1 DEF RunStream
      <4>2. work' = work /\ task' = task
        BY <3>4, <4>1 DEF RunStream, Responses
      <4>3. ~Promised(d)
        BY <1>0, <3>2, <1>r DEF Delivery, Whole
      <4>4. sent'[d] < Responses(request[d])
        BY <1>r, <3>1, <3>4
      <4> QED BY <1>w, <3>1, <3>2, <4>1, <4>2, <4>3, <4>4 DEF Delivery, IsBidi
    <3> QED BY <3>3, <3>4
  <2>2. CASE c # d
    <3>1. Promised(d)' => Promised(d)
      <4> SUFFICES ASSUME Promised(d)' PROVE Promised(d)
        OBVIOUS
      <4>1. trailers' = trailers
        BY <1>14 DEF RunCompute, RunStream
      <4>2. CASE work' = work
        BY <1>w, <4>1, <4>2
      <4>3. CASE work' = [work EXCEPT ![<<c, "scheduler">>] = Closing("OK")]
        BY <2>s, <2>2, <4>1, <4>3, NewPromise
      <4> QED BY <2>0, <4>2, <4>3
    <3> QED BY <1>0, <1>14, <2>2, <3>1
            DEF RunCompute, RunStream, TypeOK, Delivery, Whole, IsBidi
  <2> QED BY <2>1, <2>2
<1>15. ASSUME NEW c \in Calls, StreamTaskDies(c) PROVE Delivery(d)'
  BY <1>0, <1>15, <1>w DEF StreamTaskDies, TypeOK, Delivery, Whole, IsBidi
<1>16. ASSUME NEW c \in Calls, NEW t \in Runners, CloseDecrement(c, t) \/ CloseCount(c, t)
       PROVE  Delivery(d)'
  <2>1. PICK a \in {"record", "close"} :
          /\ work[<<c, t>>].at # "idle" /\ work' = [work EXCEPT ![<<c, t>>].at = a]
          /\ trailers' = trailers
    BY <1>16 DEF CloseDecrement, CloseCount
  <2>2. Promised(d)' => Promised(d)
    <3> DEFINE w == [work[<<c, t>>] EXCEPT !.at = a]
    <3>1. w \in Steps /\ w.status = work[<<c, t>>].status
      BY DEF TypeOK, Steps
    <3>2. work' = [work EXCEPT ![<<c, t>>] = w]
      BY <2>1 DEF TypeOK
    <3>3. \/ d # c \/ w.at = "idle" \/ w.status # "OK"
          \/ (work[<<c, t>>].at # "idle" /\ work[<<c, t>>].status = "OK")
      BY <2>1, <3>1
    <3>4. trailers' = trailers
      BY <2>1
    <3> HIDE DEF w
    <3> SUFFICES ASSUME Promised(d)' PROVE Promised(d)
      OBVIOUS
    <3> QED BY <3>1, <3>2, <3>3, <3>4, NewPromise
  <2> QED BY <1>16, <1>s, <2>2 DEF CloseDecrement, CloseCount
<1>17. ASSUME NEW c \in Calls, NEW t \in Runners, CloseCall(c, t) PROVE Delivery(d)'
  <2>1. \A x \in Calls \X Runners : work'[x] = IF x = <<c, t>> THEN Idle ELSE work[x]
    BY <1>17 DEF CloseCall, TypeOK
  <2>2. trailers'[d] = "OK" =>
          trailers[d] = "OK" \/ (d = c /\ work[<<c, t>>].at # "idle" /\ work[<<c, t>>].status = "OK")
    BY <1>17 DEF CloseCall, TypeOK
  <2>3. Promised(d)' => Promised(d)
    <3>1. CASE trailers'[d] = "OK"
      BY <2>2, <3>1 DEF Promised
    <3>2. ASSUME NEW u \in Runners, work'[<<d, u>>].at # "idle", work'[<<d, u>>].status = "OK"
          PROVE  Promised(d)
      <4>1. work'[<<d, u>>] = work[<<d, u>>]
        BY <2>1, <3>2 DEF Idle
      <4> QED BY <3>2, <4>1 DEF Promised
    <3> QED BY <3>1, <3>2 DEF Promised
  <2> QED BY <1>17, <1>s, <2>3 DEF CloseCall
<1>18. CASE UNCHANGED vars
  BY <1>18, <1>s, <1>w DEF vars
<1> QED BY <1>1, <1>2, <1>3, <1>4, <1>5, <1>6, <1>7, <1>8, <1>9, <1>10, <1>11, <1>12, <1>13, <1>14,
           <1>15, <1>16, <1>17, <1>18
        DEF Next, ClientNext, Reset, ExecutorNext, SchedulerNext, CloseNext

LEMMA DeliveriesInvariant == Spec => []Deliveries
<1>1. TypeOK /\ CallInv /\ Deliveries /\ [Next]_vars => Deliveries'
  BY DeliveriesStep
<1> QED BY DeliveriesInit, <1>1, TypeCorrect, CallInvariant, PTL DEF Spec

\* For any number of calls, any requests and any width of int: a call that ends OK
\* has sent all its responses.
THEOREM OksAreWhole == Spec => []OkIsWhole
<1>1. Deliveries => OkIsWhole
  BY DEF Deliveries, Delivery, Promised, Whole, IsBidi, OkIsWhole
<1> QED BY <1>1, DeliveriesInvariant, PTL

-----------------------------------------------------------------------------
(* What is owed *)

\* A handler that ran and has not released the gauge has left that to its task or
\* to a thread that is about to, or is one of the two that never do.
Handed(c) ==
  \/ task[c] = "scheduled" \/ Exec(c).at = "decrement" \/ Schd(c).at = "decrement"
  \/ Throws(request[c]) \/ BrokenOff(c)

\* What a call's end leaves behind, and what it has to leave behind before it ends.
Owed(c) ==
  /\ client[c] = "waiting" \/ (~IsBidi(c) /\ client[c] # "idle") => halfClose[c] # "no"
  /\ halfClose[c] = "dropped" => cancel[c] # "no"
  /\ IsBidi(c) /\ cancel[c] = "handled" =>
       halfClose[c] = "handled" \/ closes[c] = 1 \/ Exec(c).at = "decrement"
  /\ ~IsBidi(c) => trailers[c] # "CANCELLED" /\ Exec(c).status = "OK" /\ Schd(c).status = "OK"
  /\ trailers[c] = "UNKNOWN" => Throws(request[c]) /\ halfClose[c] = "handled"
  /\ Throws(request[c]) => /\ closes[c] = 0 /\ task[c] = "none"
                           /\ Exec(c).at = "idle" /\ Schd(c).at = "idle"
                           /\ halfClose[c] = "handled" => trailers[c] = "UNKNOWN"
  /\ halfClose[c] = "handled" /\ closes[c] = 0 => Handed(c)

AllOwed == \A c \in Calls : Owed(c)

LEMMA OwedInit == Init => AllOwed
<1> SUFFICES ASSUME Init, NEW c \in Calls PROVE Owed(c)
  BY DEF AllOwed
<1>1. Exec(c) = Idle /\ Schd(c) = Idle
  BY DEF Init, Exec, Schd, Runners
<1>2. /\ client[c] = "idle" /\ halfClose[c] = "no" /\ cancel[c] = "no" /\ task[c] = "none"
      /\ closes[c] = 0 /\ trailers[c] = "none"
  BY DEF Init
<1> QED BY <1>1, <1>2 DEF Owed, Idle

LEMMA OwedStep == TypeOK /\ CallInv /\ Deliveries /\ AllOwed /\ [Next]_vars => AllOwed'
<1> SUFFICES ASSUME TypeOK, CallInv, Deliveries, AllOwed, [Next]_vars, NEW d \in Calls
             PROVE  Owed(d)'
  BY DEF AllOwed
<1>0. Owed(d) /\ Delivery(d) /\ ClientFirst(d) /\ BegunOnce(d) /\ SoleCloser(d)
  BY DEF AllOwed, Deliveries, CallInv
<1>t. work \in [Calls \X Runners -> Steps] /\ Exec(d) \in Steps /\ Schd(d) \in Steps
  BY DEF TypeOK, Steps, Exec, Schd, Runners
<1> USE DEF clientVars, callVars, handlerVars, closeVars, rpcGauges, connGauges
\* Steps that leave the call alone, or that only its client takes note of.
<1>s. ASSUME request' = request, sent'[d] = sent[d], task'[d] = task[d],
             closes'[d] = closes[d], trailers'[d] = trailers[d],
             Exec(d)' = Exec(d), Schd(d)' = Schd(d),
             client'[d] = client[d], halfClose'[d] = halfClose[d], cancel'[d] = cancel[d]
      PROVE  Owed(d)'
  BY <1>0, <1>s DEF Owed, Handed, BrokenOff, IsBidi
<1>1. ASSUME NEW k \in Connections, TransportReady(k) \/ TransportTerminated(k) PROVE Owed(d)'
  BY <1>1, <1>s DEF TransportReady, TransportTerminated, Exec, Schd
\* Its client gives it up, the server drops it, or it arrives.
<1>2. ASSUME \/ client'[d] = client[d]
             \/ client'[d] # "waiting" /\ client[d] \notin {"idle", "streaming"}
             \/ client'[d] # "waiting" /\ client[d] = "streaming" /\ IsBidi(d),
             \/ cancel'[d] = cancel[d]
             \/ cancel[d] = "no" /\ cancel'[d] = "queued",
             UNCHANGED <<request, halfClose, sent, task, work, closes, trailers>>
      PROVE  Owed(d)'
  <2>1. Exec(d)' = Exec(d) /\ Schd(d)' = Schd(d)
    BY <1>2 DEF Exec, Schd
  <2>2. BrokenOff(d) => BrokenOff(d)'
    BY <1>2 DEF BrokenOff
  <2>3. Handed(d) => Handed(d)'
    BY <1>2, <2>1, <2>2 DEF Handed
  <2> QED BY <1>0, <1>2, <2>1, <2>3 DEF Owed, IsBidi
<1>3. ASSUME NEW c \in Calls, Arrive(c) \/ Mark(c) PROVE Owed(d)'
  BY <1>2, <1>3 DEF Arrive, Mark, TypeOK
<1>o. ASSUME NEW c \in Calls, c # d,
             \/ ClientNext(c) \/ ExecutorNext(c) \/ SchedulerNext(c)
             \/ \E t \in Runners : CloseNext(c, t)
      PROVE  Owed(d)'
  <2>1. CASE ClientNext(c)
    BY <1>o, <1>s, <2>1
    DEF ClientNext, OpenCall, PostMessage, PostHalfClose, Cancel, Reset, Receive, TypeOK, Exec, Schd
  <2>2. CASE ExecutorNext(c)
    <3>1. \A t \in Runners : work'[<<d, t>>] = work[<<d, t>>]
      BY <1>o, <1>t, <2>2 DEF ExecutorNext, EnterCall, CountStarted, BidiOnNext, DropHalfClose,
         AnswerNow, HandlerThrows, AnswerLater, BidiOnCompleted, OnCancel, HandleHalfClose
    <3> QED BY <1>o, <1>s, <2>2, <3>1
            DEF ExecutorNext, EnterCall, CountStarted, BidiOnNext, DropHalfClose,
                AnswerNow, HandlerThrows, AnswerLater, BidiOnCompleted, OnCancel, HandleHalfClose,
                TypeOK, Exec, Schd, Runners
  <2>3. CASE SchedulerNext(c)
    <3>1. \A t \in Runners : work'[<<d, t>>] = work[<<d, t>>]
      BY <1>o, <1>t, <2>3 DEF SchedulerNext, RunCompute, RunStream, StreamTaskDies
    <3> QED BY <1>o, <1>s, <2>3, <3>1
            DEF SchedulerNext, RunCompute, RunStream, StreamTaskDies, TypeOK, Exec, Schd, Runners
  <2>4. ASSUME NEW t \in Runners, CloseNext(c, t) PROVE Owed(d)'
    <3>1. \A u \in Runners : work'[<<d, u>>] = work[<<d, u>>]
      BY <1>o, <1>t, <2>4 DEF CloseNext, CloseDecrement, CloseCount, CloseCall
    <3> QED BY <1>o, <1>s, <2>4, <3>1
            DEF CloseNext, CloseDecrement, CloseCount, CloseCall, TypeOK, Exec, Schd, Runners
  <2> QED BY <1>o, <2>1, <2>2, <2>3, <2>4
<1>4. ASSUME ClientNext(d) PROVE Owed(d)'
  <2>0. Exec(d)' = Exec(d) /\ Schd(d)' = Schd(d)
    BY <1>4 DEF ClientNext, OpenCall, PostMessage, PostHalfClose, Cancel, Reset, Receive, Exec, Schd
  <2>1. CASE OpenCall(d)
    BY <1>0, <2>0, <2>1 DEF OpenCall, TypeOK, Owed, Handed, BrokenOff, IsBidi, ClientFirst
  <2>2. CASE PostMessage(d)
    BY <1>s, <2>0, <2>2 DEF PostMessage
  <2>3. CASE PostHalfClose(d)
    BY <1>0, <2>0, <2>3 DEF PostHalfClose, TypeOK, Owed, Handed, BrokenOff, IsBidi, ClientFirst
  <2>4. CASE Cancel(d) \/ Receive(d)
    <3>1. client[d] = "streaming" => IsBidi(d)
      BY <1>0 DEF Delivery
    <3>2. /\ client'[d] # "waiting"
          /\ client[d] = "streaming" \/ client[d] = "waiting"
      BY <2>4 DEF Cancel, Receive, TypeOK, Unanswered
    <3>3. UNCHANGED <<request, halfClose, cancel, sent, task, work, closes, trailers>>
      BY <2>4 DEF Cancel, Receive
    <3> QED BY <1>2, <3>1, <3>2, <3>3
  <2> QED BY <1>4, <2>1, <2>2, <2>3, <2>4 DEF ClientNext, Reset
\* Somebody begins to close.
<1>e. ASSUME NEW t \in Runners, NEW s \in Statuses, work' = [work EXCEPT ![<<d, t>>] = Closing(s)]
      PROVE  /\ t = "executor" => Exec(d)' = Closing(s) /\ Schd(d)' = Schd(d)
             /\ t = "scheduler" => Schd(d)' = Closing(s) /\ Exec(d)' = Exec(d)
  BY <1>e, <1>t DEF Exec, Schd, Runners
<1>5. ASSUME ExecutorNext(d) PROVE Owed(d)'
  <2>1. CASE EnterCall(d) \/ CountStarted(d)
    BY <1>s, <2>1 DEF EnterCall, CountStarted, Exec, Schd
  <2>2. CASE BidiOnNext(d)
    <3>1. ~(halfClose[d] = "handled") \/ IsBidi(d)
      BY <1>0, <2>2 DEF BidiOnNext, Delivery
    <3>2. Exec(d)' = Exec(d) /\ Schd(d)' = Schd(d)
      BY <2>2 DEF BidiOnNext, Exec, Schd
    <3> QED BY <1>0, <2>2, <3>1, <3>2 DEF BidiOnNext, Owed, Handed, BrokenOff, IsBidi
  <2>3. CASE DropHalfClose(d)
    <3>1. Exec(d)' = Exec(d) /\ Schd(d)' = Schd(d)
      BY <2>3 DEF DropHalfClose, Exec, Schd
    <3> QED BY <1>0, <2>3, <3>1
            DEF DropHalfClose, Marked, TypeOK, Owed, Handed, BrokenOff, IsBidi
  <2>4. CASE AnswerNow(d)
    <3>1. Exec(d)' = Closing("OK") /\ Schd(d)' = Schd(d)
      BY <1>e, <2>4 DEF AnswerNow, Runners, Statuses
    <3>2. /\ halfClose'[d] = "handled" /\ ~IsBidi(d) /\ ~Throws(request[d])
          /\ UNCHANGED <<request, client, cancel, task, closes, trailers>> /\ cancel[d] = "no"
      BY <2>4 DEF AnswerNow, HandleHalfClose, Immediate, IsBidi, TypeOK, Marked
    <3> QED BY <1>0, <3>1, <3>2 DEF Owed, Handed, IsBidi, Closing
  <2>5. CASE HandlerThrows(d)
    <3>1. Exec(d)' = Exec(d) /\ Schd(d)' = Schd(d)
      BY <2>5 DEF HandlerThrows, Exec, Schd
    <3>2. /\ halfClose'[d] = "handled" /\ Throws(request[d]) /\ trailers'[d] = "UNKNOWN"
          /\ UNCHANGED <<request, client, cancel, task, closes>> /\ cancel[d] = "no" /\ ~IsBidi(d)
      BY <2>5 DEF HandlerThrows, HandleHalfClose, TypeOK, Marked, Throws, IsBidi
    <3> QED BY <1>0, <3>1, <3>2 DEF Owed, Handed, IsBidi
  <2>6. CASE AnswerLater(d)
    <3>1. Exec(d)' = Exec(d) /\ Schd(d)' = Schd(d)
      BY <2>6 DEF AnswerLater, Exec, Schd
    <3>2. /\ halfClose'[d] = "handled" /\ ~Throws(request[d]) /\ task'[d] = "scheduled"
          /\ UNCHANGED <<request, client, cancel, closes, trailers>> /\ cancel[d] = "no" /\ ~IsBidi(d)
      BY <2>6 DEF AnswerLater, HandleHalfClose, TypeOK, Marked, Throws, IsBidi
    <3> QED BY <1>0, <3>1, <3>2 DEF Owed, Handed, IsBidi
  <2>7. CASE BidiOnCompleted(d)
    <3>1. Exec(d)' = Closing("OK") /\ Schd(d)' = Schd(d)
      BY <1>e, <2>7 DEF BidiOnCompleted, Runners, Statuses
    <3>2. /\ halfClose'[d] = "handled" /\ IsBidi(d) /\ ~Throws(request[d])
          /\ UNCHANGED <<request, client, cancel, task, closes, trailers>> /\ cancel[d] = "no"
      BY <2>7 DEF BidiOnCompleted, HandleHalfClose, TypeOK, Marked, Throws, IsBidi
    <3> QED BY <1>0, <3>1, <3>2 DEF Owed, Handed, IsBidi, Closing
  <2>8. CASE OnCancel(d)
    <3>0. /\ UNCHANGED <<request, client, halfClose, sent, task, closes, trailers>>
          /\ cancel'[d] = "handled" /\ cancel[d] = "queued"
      BY <2>8 DEF OnCancel, TypeOK
    <3>1. CASE request[d].method = "bidiStream" /\ halfClose[d] # "handled"
      <4>1. Exec(d)' = Closing("CANCELLED") /\ Schd(d)' = Schd(d)
        BY <1>e, <2>8, <3>1 DEF OnCancel, Runners, Statuses
      <4>2. IsBidi(d) /\ ~Throws(request[d])
        BY <3>1 DEF IsBidi, Throws
      <4> QED BY <1>0, <3>0, <3>1, <4>1, <4>2 DEF Owed, Handed, IsBidi, Closing
    <3>2. CASE ~(request[d].method = "bidiStream" /\ halfClose[d] # "handled")
      <4>1. Exec(d)' = Exec(d) /\ Schd(d)' = Schd(d)
        BY <2>8, <3>2 DEF OnCancel, Exec, Schd
      <4>2. ~BrokenOff(d)
        BY <3>0 DEF BrokenOff
      <4>3. Handed(d) => Handed(d)'
        BY <3>0, <4>1, <4>2 DEF Handed
      <4> QED BY <1>0, <3>0, <3>2, <4>1, <4>3 DEF Owed, IsBidi
    <3> QED BY <3>1, <3>2
  <2> QED BY <1>5, <2>1, <2>2, <2>3, <2>4, <2>5, <2>6, <2>7, <2>8 DEF ExecutorNext
<1>6. ASSUME SchedulerNext(d) PROVE Owed(d)'
  <2>0. task[d] = "scheduled" /\ ~IsBidi(d) /\ halfClose[d] = "handled" /\ ~Throws(request[d])
        /\ sent[d] < Responses(request[d])
    BY <1>0, <1>6 DEF SchedulerNext, RunCompute, RunStream, StreamTaskDies, TakeThread, Delivery,
       BegunOnce, Begun, IsBidi, Throws
  <2>1. UNCHANGED <<request, client, halfClose, cancel, closes, trailers>>
    BY <1>6 DEF SchedulerNext, RunCompute, RunStream, StreamTaskDies
  <2>2. CASE work' = [work EXCEPT ![<<d, "scheduler">>] = Closing("OK")]
    <3>1. Schd(d)' = Closing("OK") /\ Exec(d)' = Exec(d)
      BY <1>e, <2>2 DEF Runners, Statuses
    <3> QED BY <1>0, <2>0, <2>1, <3>1 DEF Owed, Handed, IsBidi, Closing
  <2>3. CASE work' = work /\ task' = task
    <3>1. Exec(d)' = Exec(d) /\ Schd(d)' = Schd(d)
      BY <2>3 DEF Exec, Schd
    <3> QED BY <1>0, <2>0, <2>1, <2>3, <3>1 DEF Owed, Handed, IsBidi
  <2>4. CASE StreamTaskDies(d)
    <3>1. Exec(d)' = Exec(d) /\ Schd(d)' = Schd(d) /\ sent' = sent
      BY <2>4 DEF StreamTaskDies, Exec, Schd
    <3>2. BrokenOff(d)'
      BY <2>0, <2>1, <2>4, <3>1 DEF StreamTaskDies, BrokenOff
    <3> QED BY <1>0, <2>0, <2>1, <3>1, <3>2 DEF Owed, Handed, IsBidi
  <2> QED BY <1>6, <2>2, <2>3, <2>4 DEF SchedulerNext, RunCompute, RunStream
<1>7. ASSUME NEW t \in Runners, CloseNext(d, t) PROVE Owed(d)'
  <2>0. /\ UNCHANGED <<request, client, halfClose, cancel, sent, task>>
        /\ work[<<d, t>>].at # "idle" /\ ~Throws(request[d])
    BY <1>0, <1>7 DEF CloseNext, CloseDecrement, CloseCount, CloseCall, Owed, Exec, Schd, Runners
  <2>1. CASE CloseDecrement(d, t)
    <3>1. closes'[d] = 1 /\ trailers' = trailers
      BY <1>0, <2>1 DEF CloseDecrement, TypeOK, SoleCloser
    <3>2. Exec(d)'.status = Exec(d).status /\ Schd(d)'.status = Schd(d).status
      BY <1>t, <2>1 DEF CloseDecrement, Exec, Schd, Runners, Steps
    <3> QED BY <1>0, <2>0, <3>1, <3>2 DEF Owed, IsBidi
  <2>2. CASE CloseCount(d, t)
    <3>1. closes[d] = 1 /\ closes' = closes /\ trailers' = trailers
      BY <1>0, <2>2 DEF CloseCount, SoleCloser
    <3>2. Exec(d)'.status = Exec(d).status /\ Schd(d)'.status = Schd(d).status
      BY <1>t, <2>2 DEF CloseCount, Exec, Schd, Runners, Steps
    <3> QED BY <1>0, <2>0, <3>1, <3>2 DEF Owed, IsBidi
  <2>3. CASE CloseCall(d, t)
    <3>1. closes[d] = 1 /\ closes' = closes /\ trailers[d] = "none"
      BY <1>0, <2>3 DEF CloseCall, SoleCloser
    <3>2. trailers'[d] = work[<<d, t>>].status /\ work[<<d, t>>].status \in Statuses
      BY <1>t, <2>3, <3>1 DEF CloseCall, TypeOK, Steps
    <3>3. \/ Exec(d)' = Idle /\ Schd(d)' = Schd(d) /\ trailers'[d] = Exec(d).status
          \/ Schd(d)' = Idle /\ Exec(d)' = Exec(d) /\ trailers'[d] = Schd(d).status
      BY <1>t, <2>3, <3>2 DEF CloseCall, Exec, Schd, Runners
    <3>4. trailers'[d] \in {"OK", "CANCELLED"}
      BY <3>2 DEF Statuses
    <3> QED BY <1>0, <2>0, <3>1, <3>3, <3>4 DEF Owed, IsBidi, Idle
  <2> QED BY <1>7, <2>1, <2>2, <2>3 DEF CloseNext
<1>8. CASE UNCHANGED vars
  BY <1>8, <1>s DEF vars, Exec, Schd
<1> QED BY <1>1, <1>3, <1>o, <1>4, <1>5, <1>6, <1>7, <1>8 DEF Next

LEMMA OwedInvariant == Spec => []AllOwed
<1>1. TypeOK /\ CallInv /\ Deliveries /\ AllOwed /\ [Next]_vars => AllOwed'
  BY OwedStep
<1> QED BY OwedInit, <1>1, TypeCorrect, CallInvariant, DeliveriesInvariant, PTL DEF Spec

\* Whoever waits is owed something that is still to come: the call is on its way in, a
\* callback or a task is pending, a thread is closing the call, or the answer, or the reset
\* of a call the server has dropped, is on its way out.
NoCallIsForgotten ==
  \A c \in Calls : client[c] = "waiting" =>
    \/ stage[c] # "counted" \/ messages[c] > 0 \/ halfClose[c] = "queued"
    \/ task[c] = "scheduled" \/ \E t \in Runners : work[<<c, t>>].at # "idle"
    \/ trailers[c] # "none" \/ Marked(c)

\* The safety that EveryCallEnds rests on: no call is left waiting with nothing on its way
\* to it, for any number of calls and delay threads (BenchmarkServiceImpl 61-142).
THEOREM WhoWaitsIsServed == Spec => []NoCallIsForgotten
<1>1. TypeOK /\ CallInv /\ AllOwed => NoCallIsForgotten
  <2> SUFFICES ASSUME TypeOK, CallInv, AllOwed, NEW c \in Calls, client[c] = "waiting",
                      halfClose[c] # "queued", task[c] # "scheduled", trailers[c] = "none", ~Marked(c),
                      \A t \in Runners : work[<<c, t>>].at = "idle"
               PROVE  FALSE
    BY DEF NoCallIsForgotten
  <2>1. ClientFirst(c) /\ SoleCloser(c) /\ Owed(c)
    BY DEF CallInv, AllOwed
  <2>2. cancel[c] = "no" /\ halfClose[c] = "handled"
    BY <2>1 DEF Owed, TypeOK, Marked
  <2>3. Exec(c).at = "idle" /\ Schd(c).at = "idle"
    BY DEF Exec, Schd, Runners
  <2>4. closes[c] = 0
    BY <2>1, <2>3 DEF SoleCloser, Statuses
  <2> QED BY <2>1, <2>2, <2>3, <2>4 DEF Owed, Handed, BrokenOff
<1> QED BY <1>1, TypeCorrect, CallInvariant, OwedInvariant, PTL

\* A half-close is taken from the queue only after interceptCall has returned.
Taken == \A c \in Calls : halfClose[c] \in {"handled", "dropped"} => stage[c] = "counted"

LEMMA TakenInvariant == Spec => []Taken
<1>1. Init => Taken
  BY DEF Init, Taken
<1>2. TypeOK /\ CallInv /\ Taken /\ [Next]_vars => Taken'
  <2> SUFFICES ASSUME TypeOK, CallInv, Taken, [Next]_vars, NEW d \in Calls,
                      halfClose'[d] \in {"handled", "dropped"}
               PROVE  stage'[d] = "counted"
    BY DEF Taken
  <2> USE DEF clientVars, callVars, handlerVars, closeVars, rpcGauges, connGauges
  <2>0. ClientFirst(d) /\ (halfClose[d] \in {"handled", "dropped"} => stage[d] = "counted")
    BY DEF CallInv, Taken
  <2>1. ASSUME halfClose' = halfClose, stage' = stage PROVE stage'[d] = "counted"
    BY <2>0, <2>1
  <2>2. CASE \E k \in Connections : TransportReady(k) \/ TransportTerminated(k)
    BY <2>1, <2>2 DEF TransportReady, TransportTerminated
  <2>3. ASSUME NEW c \in Calls, ClientNext(c) PROVE stage'[d] = "counted"
    BY <2>0, <2>1, <2>3
    DEF ClientNext, OpenCall, PostMessage, PostHalfClose, Cancel, Reset, Receive, TypeOK
  <2>4. ASSUME NEW c \in Calls, ExecutorNext(c) PROVE stage'[d] = "counted"
    BY <2>0, <2>1, <2>4
    DEF ExecutorNext, EnterCall, CountStarted, BidiOnNext, DropHalfClose, AnswerNow, HandlerThrows,
        AnswerLater, BidiOnCompleted, OnCancel, HandleHalfClose, Ready, TypeOK
  <2>5. ASSUME NEW c \in Calls, SchedulerNext(c) PROVE stage'[d] = "counted"
    BY <2>1, <2>5 DEF SchedulerNext, RunCompute, RunStream, StreamTaskDies
  <2>6. ASSUME NEW c \in Calls, NEW t \in Runners, CloseNext(c, t) PROVE stage'[d] = "counted"
    BY <2>1, <2>6 DEF CloseNext, CloseDecrement, CloseCount, CloseCall
  <2>7. ASSUME NEW c \in Calls, Arrive(c) \/ Mark(c) PROVE stage'[d] = "counted"
    BY <2>0, <2>1, <2>7 DEF Arrive, Mark, TypeOK
  <2>8. CASE UNCHANGED vars
    BY <2>1, <2>8 DEF vars
  <2> QED BY <2>2, <2>3, <2>4, <2>5, <2>6, <2>7, <2>8 DEF Next
<1> QED BY <1>1, <1>2, TypeCorrect, CallInvariant, PTL DEF Spec

\* How far the gauges are from what report.py:68 says of them: once nothing moves, no
\* connection is counted, and in-flight is the number of calls that leaked.
THEOREM LeakIsAccountedFor == Spec => []LeakIsExact
<1>1. TypeOK /\ CallInv /\ Tallies /\ Carried /\ Deliveries /\ AllOwed /\ Taken => LeakIsExact
  <2> SUFFICES ASSUME TypeOK, CallInv, Tallies, Carried, Deliveries, AllOwed, Taken, Quiescent
               PROVE  active = 0 /\ inFlight = Cardinality({c \in Calls : Leaks(c)})
    BY DEF LeakIsExact
  <2>1. Open = {}
    BY DEF Quiescent, Open
  <2>2. active = 0
    BY <2>1, FS_EmptySet DEF Carried
  <2>3. ASSUME NEW c \in Calls
        PROVE  stage[c] = "counted" /\ closes[c] = 0 <=> Leaks(c)
    <3>0. ClientFirst(c) /\ BegunOnce(c) /\ SoleCloser(c) /\ Delivery(c) /\ Owed(c)
      BY DEF CallInv, Deliveries, AllOwed
    <3>1. stage[c] = "counted" =>
            /\ halfClose[c] \in {"no", "handled", "dropped"}
            /\ cancel[c] = "handled" \/ trailers[c] # "none"
            /\ cancel[c] \in {"no", "handled"} /\ task[c] = "none"
            /\ Exec(c).at = "idle" /\ Schd(c).at = "idle"
      BY DEF Quiescent, TypeOK, Exec, Schd, Runners, Marked
    <3>2. ASSUME stage[c] = "counted", closes[c] = 0 PROVE Leaks(c)
      <4>1. CASE trailers[c] # "none"
        <5>1. trailers[c] = "UNKNOWN"
          BY <3>0, <3>2, <4>1 DEF SoleCloser, TypeOK
        <5> QED BY <3>0, <5>1 DEF Owed, Leaks
      <4>2. CASE cancel[c] = "handled"
        <5>1. CASE halfClose[c] = "handled"
          BY <3>0, <3>1, <3>2, <5>1 DEF Owed, Handed, Leaks
        <5>2. CASE halfClose[c] # "handled"
          BY <3>0, <3>1, <3>2, <4>2, <5>2 DEF ClientFirst, Owed, Leaks
        <5> QED BY <5>1, <5>2
      <4> QED BY <3>1, <3>2, <4>1, <4>2
    <3>3. ASSUME Leaks(c) PROVE stage[c] = "counted" /\ closes[c] = 0
      <4>1. stage[c] = "counted"
        BY <3>3 DEF Leaks, BrokenOff, Taken
      <4>2. CASE ~IsBidi(c) /\ halfClose[c] = "dropped"
        BY <3>0, <4>1, <4>2 DEF BegunOnce, Begun, IsBidi
      <4>3. CASE Throws(request[c]) /\ halfClose[c] = "handled"
        BY <3>0, <4>1, <4>3 DEF Owed
      <4>4. CASE BrokenOff(c)
        <5>1. ~IsBidi(c) /\ sent[c] < Responses(request[c])
              /\ sent[c] \in Nat /\ Responses(request[c]) \in Nat
          BY <4>4, ResponsesType DEF BrokenOff, IsBidi, TypeOK
        <5>2. trailers[c] # "OK"
          BY <3>0, <5>1 DEF Delivery, Promised, Whole
        <5>3. trailers[c] # "CANCELLED"
          BY <3>0, <5>1 DEF Owed
        <5> QED BY <3>0, <3>1, <4>1, <5>2, <5>3 DEF SoleCloser, Statuses
      <4> QED BY <3>3, <4>2, <4>3, <4>4 DEF Leaks
    <3> QED BY <3>2, <3>3
  <2> DEFINE L == {c \in Calls : Leaks(c)}
  <2>4. /\ Entered = Counted /\ Counted = Released \cup L /\ Released \cap L = {}
        /\ Released \in SUBSET Calls /\ L \in SUBSET Calls
    <3>1. \A c \in Calls : stage[c] \in {"none", "counted"} /\ closes[c] \in {0, 1}
                            /\ (closes[c] = 1 => stage[c] = "counted")
      BY DEF Quiescent, TypeOK, CallInv, SoleCloser, BegunOnce, Begun
    <3> QED BY <2>3, <3>1 DEF Entered, Counted, Released
  <2>5. Cardinality(Counted) = Cardinality(Released) + Cardinality(L)
    BY <2>4, CountDisjoint
  <2>6. inFlight = Cardinality(Counted) - Cardinality(Released)
    BY <2>4 DEF Tallies
  <2> QED
    <3>1. Cardinality(Released) \in Nat /\ Cardinality(L) \in Nat
      BY <2>4, SubsetFinite
    <3> HIDE DEF L
    <3>2. inFlight = Cardinality(L)
      BY <2>5, <2>6, <3>1
    <3> QED BY <2>2, <3>2 DEF L
<1> QED BY <1>1, TypeCorrect, CallInvariant, TalliesInvariant, CarriedInvariant,
           DeliveriesInvariant, OwedInvariant, TakenInvariant, PTL
=============================================================================
