-------------------------- MODULE EventQueue_proofs --------------------------
(* Proofs about EventQueue, for any producers, events and retry limit.       *)
EXTENDS EventQueue, SequenceTheorems, TLAPS

USE DEF callVars, queueVars, workerVars, historyVars

LEMMA AppendType ==
  ASSUME NEW S, NEW s \in Seq(S), NEW e \in S
  PROVE  Append(s, e) \in Seq(S)
OBVIOUS

LEMMA TailType ==
  ASSUME NEW S, NEW s \in Seq(S), s # <<>>
  PROVE  Tail(s) \in Seq(S) /\ Head(s) \in S
OBVIOUS

\* Type correctness: every variable keeps its type in every reachable state.
THEOREM TypeCorrect == Spec => []TypeOK
<1>1. Init => TypeOK
  <2> SUFFICES ASSUME Init PROVE TypeOK
    OBVIOUS
  <2>1. <<>> \in Seq(Events)
    OBVIOUS
  <2>2. call \in [Producers -> Events \cup {None}]
    BY DEF Init
  <2>3. 0 \in 0..MaxEventRetries
    BY RetryAssumption
  <2>. QED BY <2>1, <2>2, <2>3 DEF Init, TypeOK, WorkerStates
<1>2. TypeOK /\ [Next]_vars => TypeOK'
  <2> SUFFICES ASSUME TypeOK, [Next]_vars PROVE TypeOK'
    OBVIOUS
  <2> USE RetryAssumption DEF TypeOK, WorkerStates
  <2>1. ASSUME NEW p \in Producers, NEW e \in Events, Push(p, e) PROVE TypeOK'
    <3>1. queue' \in Seq(Events)
      BY <2>1, AppendType DEF Push, Enqueue
    <3>. QED BY <2>1, <3>1 DEF Push
  <2>2. ASSUME NEW p \in Producers, NEW e \in Events, PushFails(p, e) PROVE TypeOK'
    BY <2>2 DEF PushFails
  <2>3. ASSUME NEW p \in Producers, SetSignal(p) PROVE TypeOK'
    BY <2>3 DEF SetSignal
  <2>4. ASSUME NEW p \in Producers, AbortConnect(p) PROVE TypeOK'
    BY <2>4 DEF AbortConnect
  <2>5. CASE Connect BY <2>5 DEF Connect
  <2>6. CASE SetBackground BY <2>6 DEF SetBackground
  <2>7. CASE Free
    <3>1. queue' \in Seq(Events)
      BY <2>7 DEF Free
    <3>2. discarded' \in Seq(Events)
      BY <2>7 DEF Free
    <3>. QED BY <2>7, <3>1, <3>2 DEF Free
  <2>8. CASE Worker
    <3>0. CASE StartFails BY <3>0 DEF StartFails, Goto
    <3>1. CASE ConnectBegin BY <3>1 DEF ConnectBegin, Goto
    <3>15. CASE ConnectRetries BY <3>15 DEF ConnectRetries
    <3>2. CASE ConnectFails BY <3>2 DEF ConnectFails, Goto
    <3>3. CASE ConnectSucceeds BY <3>3 DEF ConnectSucceeds, Goto
    <3>4. CASE LoopHead BY <3>4 DEF LoopHead
    <3>5. CASE WaitReady BY <3>5 DEF WaitReady, Goto
    <3>6. CASE WaitTimeout BY <3>6 DEF WaitTimeout
    <3>7. CASE WaitFails BY <3>7 DEF WaitFails, Goto
    <3>8. CASE CheckHandles
      <4>1. abort' \in BOOLEAN
        BY <3>8, Zenon DEF CheckHandles
      <4>2. wpc' \in WorkerStates
        BY <3>8 DEF CheckHandles
      <4>3. tries' = 0 /\ net' = FALSE
        BY <3>8, Zenon DEF CheckHandles
      <4>4. UNCHANGED <<queueVars, callVars, bounded, background, historyVars>>
        BY <3>8, Zenon DEF CheckHandles
      <4>5. tries' \in 0..MaxEventRetries
        BY <4>3
      <4>6. net' \in BOOLEAN
        BY <4>3
      <4>. QED BY <4>1, <4>2, <4>4, <4>5, <4>6
    <3>9. CASE CheckHandlesFails BY <3>9 DEF CheckHandlesFails
    <3>10. CASE DrainOne
      <4>1. Head(queue) \in Events /\ queue' \in Seq(Events)
        BY <3>10, TailType DEF DrainOne
      <4>2. abort' \in BOOLEAN
        BY <3>10, Zenon DEF DrainOne
      <4>. QED BY <3>10, <4>1, <4>2, AppendType DEF DrainOne
    <3>11. CASE DrainEnds BY <3>11 DEF DrainEnds, Goto
    <3>12. CASE ResetSignal BY <3>12 DEF ResetSignal, Goto
    <3>13. CASE Teardown BY <3>13 DEF Teardown, Goto
    <3>. QED BY <2>8, <3>0, <3>1, <3>15, <3>2, <3>3, <3>4, <3>5, <3>6, <3>7, <3>8, <3>9,
                <3>10, <3>11, <3>12, <3>13 DEF Worker
  <2>9. CASE NetArrives BY <2>9 DEF NetArrives
  <2>10. CASE UNCHANGED vars BY <2>10 DEF vars
  <2>. QED BY <2>1, <2>2, <2>3, <2>4, <2>5, <2>6, <2>7, <2>8, <2>9, <2>10
           DEF Next, Caller
<1>. QED BY <1>1, <1>2, PTL DEF Spec

-----------------------------------------------------------------------------
(* What the queue operations do to the set of queued events.                 *)

LEMMA RangeAppend ==
  ASSUME NEW S, NEW s \in Seq(S), NEW e \in S
  PROVE  Range(Append(s, e)) = Range(s) \cup {e}
<1>1. Range(Append(s, e)) \subseteq Range(s) \cup {e}
  BY DEF Range
<1>2. ASSUME NEW i \in 1..Len(s) PROVE s[i] \in Range(Append(s, e))
  <2>1. i \in DOMAIN Append(s, e) /\ Append(s, e)[i] = s[i]
    OBVIOUS
  <2>. QED BY <2>1 DEF Range
<1>3. e \in Range(Append(s, e))
  <2>1. Len(s) + 1 \in DOMAIN Append(s, e) /\ Append(s, e)[Len(s) + 1] = e
    OBVIOUS
  <2>. QED BY <2>1 DEF Range
<1>4. DOMAIN s = 1..Len(s)
  OBVIOUS
<1>. QED BY <1>1, <1>2, <1>3, <1>4 DEF Range

LEMMA RangeTail ==
  ASSUME NEW S, NEW s \in Seq(S), s # <<>>
  PROVE  Range(Tail(s)) \subseteq Range(s)
BY DEF Range

LEMMA InjectiveAppend ==
  ASSUME NEW S, NEW s \in Seq(S), NEW e \in S, IsInjective(s), e \notin Range(s)
  PROVE  IsInjective(Append(s, e))
BY DEF IsInjective, Range

LEMMA ConcatType ==
  ASSUME NEW S, NEW s \in Seq(S), NEW t \in Seq(S)
  PROVE  s \o t \in Seq(S)
OBVIOUS

LEMMA ConcatAppend ==
  ASSUME NEW S, NEW s \in Seq(S), NEW t \in Seq(S), NEW e \in S
  PROVE  s \o Append(t, e) = Append(s \o t, e)
OBVIOUS

LEMMA MoveHead ==
  ASSUME NEW S, NEW s \in Seq(S), NEW t \in Seq(S), t # <<>>
  PROVE  Append(s, Head(t)) \o Tail(t) = s \o t
OBVIOUS

LEMMA ConcatEmpty ==
  ASSUME NEW S, NEW s \in Seq(S)
  PROVE  s \o <<>> = s
OBVIOUS

-----------------------------------------------------------------------------
\* A disconnect request is never stranded behind a blocked worker: whatever the
\* interleaving of push, signal, abort, connect and drain, the worker is awake
\* or the caller has still to wake it.
THEOREM DisconnectWakes == Spec => []DisconnectNeverStranded
<1>1. Init => DisconnectInvariant
  BY DEF Init, DisconnectInvariant, DisconnectPending, SignalBeforeConnect, Range
<1>2. TypeOK /\ DisconnectInvariant /\ [Next]_vars => DisconnectInvariant'
  <2> SUFFICES ASSUME TypeOK, DisconnectInvariant, [Next]_vars
               PROVE  DisconnectInvariant'
    OBVIOUS
  <2> USE EventAssumption DEF DisconnectInvariant, DisconnectPending, SignalBeforeConnect
  <2>1. ASSUME NEW p \in Producers, NEW e \in Events, Push(p, e)
        PROVE  DisconnectInvariant'
    <3>1. Range(queue') = Range(queue) \cup {e}
      BY <2>1, RangeAppend DEF Push, Enqueue, TypeOK
    <3>2. call'[p] = e /\ \A q \in Producers : call[q] # None => call'[q] = call[q]
      BY <2>1 DEF Push, Idle, TypeOK
    <3>3. e \notin Range(queue) /\ Range(queue) \subseteq Events
      BY <2>1 DEF Push, Allocated, TypeOK, Range
    <3>. QED BY <2>1, <3>1, <3>2, <3>3 DEF Push
  <2>2. ASSUME NEW p \in Producers, NEW e \in Events, PushFails(p, e)
        PROVE  DisconnectInvariant'
    BY <2>2 DEF PushFails
  <2>3. ASSUME NEW p \in Producers, SetSignal(p)
        PROVE  DisconnectInvariant'
    <3>1. \A q \in Producers : q # p => call'[q] = call[q]
      BY <2>3 DEF SetSignal, TypeOK
    <3>2. KindOf[call[p]] = "disconnect" => aborting' # {}
      BY <2>3 DEF SetSignal
    <3>. QED BY <2>3, <3>1, <3>2 DEF SetSignal
  <2>4. ASSUME NEW p \in Producers, AbortConnect(p)
        PROVE  DisconnectInvariant'
    BY <2>4 DEF AbortConnect
  <2>5. CASE Connect BY <2>5 DEF Connect
  <2>6. CASE SetBackground BY <2>6 DEF SetBackground
  <2>7. CASE Free BY <2>7 DEF Free, Range
  <2>8. CASE Worker
    <3>0. CASE StartFails BY <3>0 DEF StartFails, Goto
    <3>1. CASE ConnectBegin BY <3>1 DEF ConnectBegin, Goto
    <3>15. CASE ConnectRetries BY <3>15 DEF ConnectRetries
    <3>2. CASE ConnectFails BY <3>2 DEF ConnectFails, Goto
    <3>3. CASE ConnectSucceeds BY <3>3 DEF ConnectSucceeds, Goto
    <3>4. CASE LoopHead BY <3>4 DEF LoopHead
    <3>5. CASE WaitReady BY <3>5 DEF WaitReady, Goto
    <3>6. CASE WaitTimeout BY <3>6 DEF WaitTimeout
    <3>7. CASE WaitFails BY <3>7 DEF WaitFails, Goto
    <3>8. CASE CheckHandles
      <4>1. abort => abort'
        BY <3>8, Zenon DEF CheckHandles
      <4>2. wpc' \in {"done", "drain"}
        BY <3>8 DEF CheckHandles
      <4>3. UNCHANGED <<queueVars, callVars>>
        BY <3>8, Zenon DEF CheckHandles
      <4>. QED BY <3>8, <4>1, <4>2, <4>3 DEF CheckHandles
    <3>9. CASE CheckHandlesFails BY <3>9 DEF CheckHandlesFails
    <3>10. CASE DrainOne
      <4>1. Range(queue') \subseteq Range(queue)
        BY <3>10, RangeTail DEF DrainOne, TypeOK
      <4>2. abort => abort'
        BY <3>10, Zenon DEF DrainOne
      <4>. QED BY <3>10, <4>1, <4>2 DEF DrainOne
    <3>11. CASE DrainEnds BY <3>11 DEF DrainEnds, Goto, Range
    <3>12. CASE ResetSignal BY <3>12 DEF ResetSignal, Goto
    <3>13. CASE Teardown BY <3>13 DEF Teardown, Goto
    <3>. QED BY <2>8, <3>0, <3>1, <3>15, <3>2, <3>3, <3>4, <3>5, <3>6, <3>7, <3>8, <3>9,
                <3>10, <3>11, <3>12, <3>13 DEF Worker
  <2>9. CASE NetArrives BY <2>9 DEF NetArrives
  <2>10. CASE UNCHANGED vars BY <2>10 DEF vars
  <2>. QED BY <2>1, <2>2, <2>3, <2>4, <2>5, <2>6, <2>7, <2>8, <2>9, <2>10
           DEF Next, Caller
<1>3. TypeOK /\ DisconnectInvariant => DisconnectNeverStranded
  BY DEF TypeOK, DisconnectInvariant, DisconnectPending, DisconnectNeverStranded,
         Blocked, Ready
<1>. QED BY <1>1, <1>2, <1>3, TypeCorrect, PTL DEF Spec

-----------------------------------------------------------------------------
(* Ownership and refinement share the effect of each step on the history.    *)

\* What a step does to the events accepted so far, and to how many are handled.
HistoryStep ==
  \/ \E e \in Events \ (Range(Accepted) \cup rejected) :
       /\ open
       /\ Accepted' = Append(Accepted, e)
       /\ UNCHANGED <<handled, open, rejected>>
  \/ \E e \in Events \ Range(Accepted) :
       /\ rejected' = rejected \cup {e}
       /\ UNCHANGED <<queue, handled, discarded, open>>
  \/ /\ open
     /\ Len(handled) < Len(Accepted)
     /\ Len(handled') = Len(handled) + 1
     /\ UNCHANGED <<Accepted, open, rejected>>
  \/ /\ open
     /\ open' = FALSE
     /\ UNCHANGED <<Accepted, handled, rejected>>
  \/ UNCHANGED <<queue, handled, discarded, open, rejected>>

LEMMA AcceptedType ==
  ASSUME TypeOK
  PROVE  /\ Accepted \in Seq(Events)
         /\ Range(Accepted) \subseteq Range(queue) \cup Range(handled) \cup Range(discarded)
<1>1. handled \o queue \in Seq(Events)
  BY DEF TypeOK
<1>2. Range(handled \o queue) = Range(handled) \cup Range(queue)
  BY RangeConcatenation DEF TypeOK
<1>3. Range(Accepted) = Range(handled \o queue) \cup Range(discarded)
  <2>1. discarded \in Seq(Events)
    BY DEF TypeOK
  <2>2. Range((handled \o queue) \o discarded) = Range(handled \o queue) \cup Range(discarded)
    BY <1>1, <2>1, RangeConcatenation, ZenonT(60)
  <2>. QED BY <2>2 DEF Accepted
<1>4. Accepted \in Seq(Events)
  BY <1>1, ConcatType DEF TypeOK, Accepted
<1>. QED BY <1>2, <1>3, <1>4

LEMMA StepHistory ==
  ASSUME TypeOK, ClosedOnce, [Next]_vars
  PROVE  HistoryStep /\ ClosedOnce'
<1> USE DEF HistoryStep, ClosedOnce
<1>1. ASSUME NEW p \in Producers, NEW e \in Events, Push(p, e)
      PROVE  HistoryStep /\ ClosedOnce'
  <2>1. e \notin Range(Accepted) \cup rejected
    BY <1>1, AcceptedType DEF Push, Allocated
  <2>2. handled \o Append(queue, e) = Append(handled \o queue, e)
    BY ConcatAppend, SMTT(30) DEF TypeOK
  <2>3. handled \o queue \in Seq(Events) /\ Append(handled \o queue, e) \in Seq(Events)
    BY AppendType DEF TypeOK
  <2>4. Accepted = handled \o queue
    BY <1>1, <2>3, ConcatEmpty DEF Push, Accepted
  <2>5. Accepted' = Append(handled \o queue, e)
    BY <1>1, <2>2, <2>3, ConcatEmpty DEF Push, Enqueue, Accepted
  <2>. QED BY <1>1, <2>1, <2>4, <2>5 DEF Push
<1>2. ASSUME NEW p \in Producers, NEW e \in Events, PushFails(p, e)
      PROVE  HistoryStep /\ ClosedOnce'
  BY <1>2, AcceptedType DEF PushFails, Allocated
<1>3. CASE Free
  <2>1. Accepted = handled \o queue /\ Accepted' = handled \o queue
    <3>1. handled \o queue \in Seq(Events) /\ handled \o <<>> = handled
      BY DEF TypeOK
    <3>. QED BY <1>3, <3>1, ConcatEmpty DEF Free, Accepted
  <2>. QED BY <1>3, <2>1 DEF Free
<1>4. CASE DrainOne
  <2>1. open
    BY <1>4 DEF DrainOne
  <2>2. Accepted' = Accepted
    BY <1>4, MoveHead DEF DrainOne, Accepted, TypeOK
  <2>3. Len(handled') = Len(handled) + 1
    BY <1>4 DEF DrainOne, TypeOK
  <2>4. Len(handled) < Len(Accepted)
    <3>1. Len(queue) > 0 /\ discarded = <<>>
      BY <1>4, <2>1 DEF DrainOne, TypeOK
    <3>2. Len(Accepted) = Len(handled) + Len(queue) + Len(discarded)
      BY DEF TypeOK, Accepted
    <3>. QED BY <3>1, <3>2 DEF TypeOK
  <2>. QED BY <1>4, <2>1, <2>2, <2>3, <2>4 DEF DrainOne
<1>5. CASE \/ \E p \in Producers : SetSignal(p) \/ AbortConnect(p)
           \/ Connect \/ SetBackground \/ NetArrives \/ (Worker /\ ~DrainOne)
           \/ UNCHANGED vars
  <2>1. UNCHANGED <<queue, handled, discarded, open, rejected>>
    BY <1>5, Zenon
       DEF SetSignal, AbortConnect, Connect, SetBackground, NetArrives, vars, Worker,
           StartFails, ConnectBegin, ConnectRetries, ConnectFails, ConnectSucceeds, LoopHead, WaitReady,
           WaitTimeout, WaitFails, CheckHandles, CheckHandlesFails, DrainEnds, ResetSignal,
           Teardown
  <2>. QED BY <2>1
<1>. QED BY <1>1, <1>2, <1>3, <1>4, <1>5 DEF Next, Caller

LEMMA OwnershipInductive == Spec => []OwnershipInvariant
<1>1. Init => OwnershipInvariant
  BY DEF Init, OwnershipInvariant, EventOwnedOnce, ClosedOnce, Accepted, IsInjective, Range
<1>2. TypeOK /\ OwnershipInvariant /\ [Next]_vars => OwnershipInvariant'
  <2> SUFFICES ASSUME TypeOK, OwnershipInvariant, [Next]_vars
               PROVE  EventOwnedOnce'
    BY StepHistory DEF OwnershipInvariant
  <2>1. HistoryStep
    BY StepHistory DEF OwnershipInvariant
  <2>2. CASE \E e \in Events \ (Range(Accepted) \cup rejected) :
               Accepted' = Append(Accepted, e) /\ UNCHANGED rejected
    <3>1. PICK e \in Events \ (Range(Accepted) \cup rejected) :
                 Accepted' = Append(Accepted, e) /\ UNCHANGED rejected
      BY <2>2
    <3>2. IsInjective(Accepted')
      BY <3>1, AcceptedType, InjectiveAppend DEF OwnershipInvariant, EventOwnedOnce
    <3>3. Range(Accepted') = Range(Accepted) \cup {e}
      BY <3>1, AcceptedType, RangeAppend
    <3>. QED BY <3>1, <3>2, <3>3 DEF OwnershipInvariant, EventOwnedOnce
  <2>3. CASE \E e \in Events \ Range(Accepted) :
               rejected' = rejected \cup {e} /\ UNCHANGED Accepted
    BY <2>3 DEF OwnershipInvariant, EventOwnedOnce
  <2>4. CASE UNCHANGED <<Accepted, rejected>>
    BY <2>4 DEF OwnershipInvariant, EventOwnedOnce
  <2>. QED BY <2>1, <2>2, <2>3, <2>4 DEF HistoryStep, Accepted
<1>. QED BY <1>1, <1>2, TypeCorrect, PTL DEF Spec

\* No event is handled twice, freed twice, or handled and freed.
THEOREM OwnedOnce == Spec => []EventOwnedOnce
<1>1. OwnershipInvariant => EventOwnedOnce
  BY DEF OwnershipInvariant
<1>. QED BY <1>1, OwnershipInductive, PTL

\* The queue implements the abstract stream for any number of producers and
\* events: what callers push is taken in that order, at most once, until closed.
THEOREM QueueRefinesStream == Spec => StreamSafety
<1>1. Init => Stream!StreamInit
  BY DEF Init, Stream!StreamInit, Accepted
<1>2. TypeOK /\ OwnershipInvariant /\ [Next]_vars => [Stream!StreamNext]_(Stream!streamVars)
  <2> SUFFICES ASSUME TypeOK, OwnershipInvariant, HistoryStep
               PROVE  [Stream!StreamNext]_(Stream!streamVars)
    BY StepHistory DEF OwnershipInvariant
  <2> USE DEF Stream!StreamNext, Stream!streamVars
  <2>1. ASSUME NEW e \in Events \ (Range(Accepted) \cup rejected), open,
               Accepted' = Append(Accepted, e), UNCHANGED <<handled, open, rejected>>
        PROVE  Stream!Accept(e)
    <3>1. \A i \in 1..Len(Accepted) : Accepted[i] # e
      BY <2>1, AcceptedType DEF Range
    <3>. QED BY <2>1, <3>1 DEF Stream!Accept
  <2>2. CASE /\ open
             /\ Len(handled) < Len(Accepted)
             /\ Len(handled') = Len(handled) + 1
             /\ UNCHANGED <<Accepted, open, rejected>>
    BY <2>2 DEF Stream!Take
  <2>3. CASE open /\ open' = FALSE /\ UNCHANGED <<Accepted, handled, rejected>>
    BY <2>3 DEF Stream!Close
  <2>4. CASE UNCHANGED <<queue, handled, discarded, open>>
    BY <2>4 DEF Accepted
  <2>. QED BY <2>1, <2>2, <2>3, <2>4 DEF HistoryStep
<1>. QED BY <1>1, <1>2, TypeCorrect, OwnershipInductive, PTL
         DEF Spec, StreamSafety, Stream!StreamSpec
=============================================================================
