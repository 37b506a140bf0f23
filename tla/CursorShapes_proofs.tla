------------------------- MODULE CursorShapes_proofs -------------------------
(* Invariance proofs for CursorShapes, for any sessions, shapes and bounds,  *)
(* and any use of the addresses of earlier instances.                        *)
EXTENDS CursorShapes, SequenceTheorems, TLAPS

IInv == TypeOK /\ (page => session # 0)

-----------------------------------------------------------------------------
(* Sequences of events.                                                      *)

LEMMA BoundTypes ==
  /\ MaxSessions \in Nat /\ MaxUpdates \in Nat
  /\ MaxPayloads \in Nat /\ MaxFailures \in Nat
BY CursorAssumption

LEMMA CounterTypes ==
  ASSUME TypeOK
  PROVE  /\ posted \in Nat /\ posted <= MaxPayloads
         /\ session \in Nat /\ session <= MaxSessions
         /\ updates \in Nat /\ updates <= MaxUpdates
         /\ failures \in Nat /\ failures <= MaxFailures
<1>1. /\ posted \in 0..MaxPayloads /\ session \in 0..MaxSessions
      /\ updates \in 0..MaxUpdates /\ failures \in 0..MaxFailures
  BY DEF TypeOK
<1>. QED BY <1>1, BoundTypes

LEMMA AppendEvent ==
  ASSUME NEW q \in Seq(Event), NEW e \in Event
  PROVE  /\ Append(q, e) \in Seq(Event)
         /\ \A d \in Range(Append(q, e)) : d \in Range(q) \/ d = e
<1> HIDE DEF Event
<1>1. /\ Append(q, e) \in Seq(Event) /\ Len(Append(q, e)) = Len(q) + 1
      /\ \A i \in 1..Len(q) : Append(q, e)[i] = q[i]
      /\ Append(q, e)[Len(q) + 1] = e
  BY AppendProperties
<1>2. ASSUME NEW d \in Range(Append(q, e)) PROVE d \in Range(q) \/ d = e
  <2>1. PICK i \in 1..(Len(q) + 1) : d = Append(q, e)[i]
    BY <1>1 DEF Range
  <2>2. CASE i = Len(q) + 1
    BY <1>1, <2>1, <2>2
  <2>3. CASE i # Len(q) + 1
    <3>1. i \in 1..Len(q) /\ d = q[i]
      BY <1>1, <2>1, <2>3
    <3>. QED BY <3>1 DEF Range
  <2>. QED BY <2>2, <2>3
<1>. QED BY <1>1, <1>2

LEMMA TailEvents ==
  ASSUME NEW q \in Seq(Event), q # <<>>
  PROVE  /\ Head(q) \in Event /\ Head(q) \in Range(q)
         /\ Tail(q) \in Seq(Event) /\ Range(Tail(q)) \subseteq Range(q)
<1> HIDE DEF Event
<1>1. /\ Head(q) \in Event /\ Tail(q) \in Seq(Event) /\ Len(Tail(q)) = Len(q) - 1
      /\ \A i \in 1..Len(Tail(q)) : Tail(q)[i] = q[i + 1]
      /\ Head(q) = q[1] /\ Len(q) \in Nat /\ Len(q) > 0
  BY HeadTailProperties
<1>2. Head(q) \in Range(q)
  BY <1>1 DEF Range
<1>3. ASSUME NEW d \in Range(Tail(q)) PROVE d \in Range(q)
  <2>1. PICK i \in 1..(Len(q) - 1) : d = q[i + 1]
    BY <1>1 DEF Range
  <2>2. i + 1 \in 1..Len(q)
    BY <1>1
  <2>. QED BY <2>1, <2>2 DEF Range
<1>. QED BY <1>1, <1>2, <1>3

LEMMA RemoveEvent ==
  ASSUME NEW q \in Seq(Event), NEW k \in 1..Len(q)
  PROVE  /\ q[k] \in Event /\ q[k] \in Range(q)
         /\ RemoveAt(q, k) \in Seq(Event) /\ Range(RemoveAt(q, k)) \subseteq Range(q)
<1> HIDE DEF Event
<1> DEFINE a == SubSeq(q, 1, k - 1)
           b == SubSeq(q, k + 1, Len(q))
<1>0. Len(q) \in Nat /\ \A i \in 1..Len(q) : q[i] \in Event
  BY ElementOfSeq, LenProperties
<1>1. /\ a \in Seq(Event) /\ Len(a) = k - 1
      /\ \A i \in 1..(k - 1) : a[i] = q[i]
  <2>1. \A i \in 1..(k - 1) : q[i] \in Event
    BY <1>0
  <2>2. /\ a \in Seq(Event) /\ Len(a) = IF 1 <= k - 1 THEN k - 1 - 1 + 1 ELSE 0
        /\ \A i \in 1..(k - 1 - 1 + 1) : a[i] = q[1 + i - 1]
    BY <1>0, <2>1, SubSeqProperties
  <2>. QED BY <1>0, <2>2
<1>2. /\ b \in Seq(Event) /\ Len(b) = Len(q) - k
      /\ \A i \in 1..(Len(q) - k) : b[i] = q[k + i]
  <2>1. \A i \in (k + 1)..Len(q) : q[i] \in Event
    BY <1>0
  <2>2. /\ b \in Seq(Event) /\ Len(b) = IF k + 1 <= Len(q) THEN Len(q) - (k + 1) + 1 ELSE 0
        /\ \A i \in 1..(Len(q) - (k + 1) + 1) : b[i] = q[k + 1 + i - 1]
    BY <1>0, <2>1, SubSeqProperties
  <2>3. /\ Len(q) - (k + 1) + 1 = Len(q) - k /\ k + 1 \in Int /\ Len(q) - k \in Nat
        /\ (k + 1 <= Len(q) \/ Len(q) - k = 0)
        /\ \A i \in 1..(Len(q) - k) : k + 1 + i - 1 = k + i
    BY <1>0
  <2>4. Len(b) = Len(q) - k
    BY <2>2, <2>3, ZenonT(40)
  <2>5. ASSUME NEW i \in 1..(Len(q) - k) PROVE b[i] = q[k + i]
    BY <2>2, <2>3, Zenon
  <2>. QED BY <2>2, <2>4, <2>5, SMTT(40)
<1> HIDE DEF a, b
<1>3. /\ a \o b \in Seq(Event) /\ Len(a \o b) = Len(q) - 1
      /\ \A i \in 1..(Len(q) - 1) : (a \o b)[i] = IF i <= k - 1 THEN a[i] ELSE b[i - (k - 1)]
  <2>1. /\ a \o b \in Seq(Event) /\ Len(a \o b) = Len(a) + Len(b)
        /\ \A i \in 1..(Len(a) + Len(b)) : (a \o b)[i] = IF i <= Len(a) THEN a[i] ELSE b[i - Len(a)]
    BY <1>1, <1>2, ConcatProperties
  <2>. QED BY <1>0, <1>1, <1>2, <2>1
<1>4. ASSUME NEW d \in Range(a \o b) PROVE d \in Range(q)
  <2>1. PICK i \in 1..(Len(q) - 1) : d = (a \o b)[i]
    BY <1>3 DEF Range
  <2>2. CASE i <= k - 1
    <3>1. d = q[i] /\ i \in 1..Len(q)
      BY <1>0, <1>1, <1>3, <2>1, <2>2
    <3>. QED BY <3>1 DEF Range
  <2>3. CASE ~(i <= k - 1)
    <3>1. i - (k - 1) \in 1..(Len(q) - k) /\ k + (i - (k - 1)) = i + 1 /\ i + 1 \in 1..Len(q)
      BY <1>0, <2>3
    <3>2. d = q[i + 1]
      BY <1>2, <1>3, <2>1, <2>3, <3>1
    <3>. QED BY <3>1, <3>2 DEF Range
  <2>. QED BY <2>2, <2>3
<1>5. q[k] \in Event /\ q[k] \in Range(q)
  BY <1>0 DEF Range
<1>. QED BY <1>3, <1>4, <1>5 DEF RemoveAt, a, b

LEMMA NoEvents == <<>> \in Seq(Event) /\ Range(<<>>) = {}
<1> HIDE DEF Event
<1>1. <<>> \in Seq(Event) /\ Len(<<>>) = 0
  BY EmptySeq
<1>. QED BY <1>1 DEF Range

-----------------------------------------------------------------------------
(* Steps.                                                                    *)

LEMMA ReportType ==
  ASSUME NEW i \in Sessions, NEW shape \in Shapes \cup {Clear}, NEW n \in 0..MaxPayloads
  PROVE  /\ Report(i, shape, n) \in Event
         /\ Report(i, shape, n).inst = i /\ Report(i, shape, n).shape = shape
         /\ Report(i, shape, n).payload = n /\ Report(i, shape, n).page = 0
<1>1. 0 \in 0..MaxSessions
  BY BoundTypes
<1>. QED BY <1>1 DEF Report, Event

\* What the handlers of one instance do: a report is of that instance, and of
\* the shape reported.
LEMMA PostStep ==
  ASSUME TypeOK, NEW i \in Sessions, NEW shape \in Shapes \cup {Clear}, Post(i, shape)
  PROVE  /\ queue' \in Seq(Event)
         /\ posted' \in 0..MaxPayloads /\ posted <= posted'
         /\ failures' \in 0..MaxFailures
         /\ \A e \in Range(queue') : \/ e \in Range(queue)
                                     \/ /\ e.inst = i /\ e.shape = shape
                                        /\ e.payload <= posted'
<1>0. /\ queue \in Seq(Event) /\ posted \in 0..MaxPayloads /\ MaxPayloads \in Nat
      /\ failures \in 0..MaxFailures /\ MaxFailures \in Nat
  BY BoundTypes DEF TypeOK
<1>1. CASE shape = Clear /\ queue' = Append(queue, Report(i, Clear, 0))
           /\ UNCHANGED <<posted, failures>>
  <2> DEFINE e == Report(i, Clear, 0)
  <2>0. 0 \in 0..MaxPayloads
    BY <1>0
  <2>1. e \in Event /\ e.inst = i /\ e.shape = shape /\ e.payload = 0
    BY <1>1, <2>0, ReportType
  <2> HIDE DEF e
  <2>2. queue' = Append(queue, e)
    BY <1>1 DEF e
  <2>. QED BY <1>0, <1>1, <2>1, <2>2, AppendEvent
<1>2. CASE /\ posted < MaxPayloads /\ posted' = posted + 1
           /\ queue' = Append(queue, Report(i, shape, posted + 1))
           /\ UNCHANGED failures
  <2> DEFINE e == Report(i, shape, posted + 1)
  <2>0. /\ posted + 1 \in 0..MaxPayloads /\ posted' = posted + 1
        /\ posted' \in 0..MaxPayloads /\ posted <= posted'
    BY <1>0, <1>2
  <2>1. /\ e \in Event /\ e.inst = i /\ e.shape = shape /\ e.payload = posted'
        /\ posted' \in 0..MaxPayloads /\ posted <= posted'
    BY <2>0, ReportType
  <2> HIDE DEF e
  <2>2. queue' = Append(queue, e)
    BY <1>2 DEF e
  <2>3. posted' <= posted'
    BY <2>1
  <2>. QED BY <1>0, <1>2, <2>1, <2>2, <2>3, AppendEvent
<1>3. CASE Fails /\ UNCHANGED <<queue, posted>>
  BY <1>0, <1>3 DEF Fails
<1>. QED BY <1>1, <1>2, <1>3 DEF Post

LEMMA EventsAreTyped ==
  ASSUME NEW q \in Seq(Event), NEW e \in Range(q)
  PROVE  e \in Event /\ e.inst \in Sessions /\ e.shape \in Shapes \cup {Clear}
                     /\ e.payload \in 0..MaxPayloads /\ e.page \in 0..MaxSessions
<1>1. e \in Event
  <2> HIDE DEF Event
  <2>1. PICK i \in DOMAIN q : e = q[i]
    BY DEF Range
  <2>. QED BY <2>1
<1>. QED BY <1>1 DEF Event

WorkerTypes ==
  /\ conn \in [Sessions -> {"none", "up", "down"}]
  /\ pointer \in [Sessions -> Shapes \cup {Clear}]
  /\ cache \in [Sessions -> [Shapes -> {"none", "type only", "bitmap"}]]
  /\ last \in [of : Shapes \cup {Clear}, bitmap : BOOLEAN]
  /\ overlapped \in BOOLEAN /\ updates \in 0..MaxUpdates

\* A handler of instance i reports a shape, or nothing.
LEMMA ReportInv ==
  ASSUME IInv, NEW i \in Sessions, NEW shape \in Shapes \cup {Clear},
         Post(i, shape) \/ UNCHANGED <<queue, posted, failures>>,
         WorkerTypes', UNCHANGED <<frees, buffers, ui>>
  PROVE  IInv'
<1>0. /\ queue \in Seq(Event) /\ decoding \in Seq(Event) /\ posted \in 0..MaxPayloads
      /\ failures \in 0..MaxFailures /\ MaxPayloads \in Nat
      /\ \A e \in Range(queue) \cup Range(decoding) : e.payload <= posted
  BY BoundTypes DEF IInv, TypeOK
<1>1. /\ queue' \in Seq(Event)
      /\ posted' \in 0..MaxPayloads /\ posted <= posted'
      /\ failures' \in 0..MaxFailures
      /\ \A e \in Range(queue') : \/ e \in Range(queue)
                                  \/ /\ e.inst = i /\ e.shape = shape
                                     /\ e.payload <= posted'
  <2>1. CASE Post(i, shape)
    <3>1. TypeOK
      BY DEF IInv
    <3>. QED BY <2>1, <3>1, PostStep
  <2>2. CASE UNCHANGED <<queue, posted, failures>>
    <3>1. queue' = queue /\ posted' = posted /\ failures' = failures
      BY <2>2
    <3>2. posted \in Int
      <4>1. TypeOK
        BY DEF IInv
      <4>. QED BY <4>1, CounterTypes
    <3>3. posted <= posted'
      BY <3>1, <3>2
    <3>. QED BY <1>0, <3>1, <3>3
  <2>. QED BY <2>1, <2>2
<1>9. posted \in Int /\ posted' \in Int /\ posted <= posted'
  <2>1. TypeOK
    BY DEF IInv
  <2>2. posted' \in 0..MaxPayloads /\ posted <= posted'
    BY <1>1
  <2>. QED BY <2>1, <2>2, CounterTypes, BoundTypes
<1>2. \A e \in Range(queue) \cup Range(decoding) : e.payload <= posted'
  <2> TAKE e \in Range(queue) \cup Range(decoding)
  <2> DEFINE n == e.payload
  <2>1. n \in 0..MaxPayloads
    BY <1>0, EventsAreTyped
  <2>2. n <= posted
    BY <1>0
  <2> HIDE DEF n
  <2>3. n <= posted'
    BY <1>9, <2>1, <2>2, BoundTypes
  <2>. QED BY <2>3 DEF n
<1>3. decoding' = decoding
  BY DEF ui
<1>4. \A e \in Range(queue') \cup Range(decoding') : e.payload <= posted'
  BY <1>1, <1>2, <1>3
<1>5. buffers \subseteq 1..posted'
  <2>1. buffers \subseteq 1..posted
    BY DEF IInv, TypeOK
  <2>. QED BY <1>9, <2>1
<1>6. /\ addr \in [Sessions -> Sessions]
      /\ decoding \in Seq(Event) /\ frees \in [Payloads -> Nat]
      /\ session \in 0..MaxSessions /\ page \in BOOLEAN
      /\ overlay \in [of : 0..MaxSessions, shape : Shapes \cup {Clear}]
  BY DEF IInv, TypeOK
<1>7. UNCHANGED <<addr, decoding, frees, buffers, session, page, overlay>>
  BY DEF ui
<1>8. TypeOK'
  <2> HIDE DEF Event
  <2>. QED BY <1>1, <1>4, <1>5, <1>6, <1>7 DEF TypeOK, WorkerTypes
<1>. QED BY <1>7, <1>8 DEF IInv

\* PointerSet reports the pointer or nothing.
LEMMA PointerSetPosts ==
  ASSUME NEW i \in Sessions, NEW p \in Shapes, NEW bitmap \in BOOLEAN,
         TypeOK, PointerSet(i, p, bitmap)
  PROVE  /\ last' \in [of : Shapes \cup {Clear}, bitmap : BOOLEAN]
         /\ \/ Post(i, IF bitmap THEN p ELSE Clear)
            \/ UNCHANGED <<queue, posted, failures>>
<1> DEFINE seen == [of |-> p, bitmap |-> bitmap]
<1>1. seen \in [of : Shapes \cup {Clear}, bitmap : BOOLEAN]
  OBVIOUS
<1> HIDE DEF seen
<1>2. \/ last = seen /\ UNCHANGED <<last, queue, posted, failures>>
      \/ last' = seen /\ Post(i, IF bitmap THEN p ELSE Clear)
  BY DEF PointerSet, seen
<1>3. last \in [of : Shapes \cup {Clear}, bitmap : BOOLEAN]
  BY DEF TypeOK
<1>. QED BY <1>1, <1>2, <1>3

\* A step of the worker thread of instance i.
LEMMA WorkerInv ==
  ASSUME IInv, NEW i \in Sessions,
         \/ Connect(i) \/ UpdateSystem(i) \/ Teardown(i)
         \/ \E p \in Shapes : UpdateNew(i, p) \/ UpdateCached(i, p)
  PROVE  IInv'
<1>0. /\ TypeOK
      /\ conn \in [Sessions -> {"none", "up", "down"}]
      /\ pointer \in [Sessions -> Shapes \cup {Clear}]
      /\ cache \in [Sessions -> [Shapes -> {"none", "type only", "bitmap"}]]
      /\ last \in [of : Shapes \cup {Clear}, bitmap : BOOLEAN]
      /\ overlapped \in BOOLEAN /\ updates \in 0..MaxUpdates /\ MaxUpdates \in Nat
  BY BoundTypes DEF IInv, TypeOK
<1>1. [of |-> Clear, bitmap |-> FALSE] \in [of : Shapes \cup {Clear}, bitmap : BOOLEAN]
  OBVIOUS
<1>2. CASE Connect(i)
  <2>1. /\ conn' \in [Sessions -> {"none", "up", "down"}] /\ overlapped' \in BOOLEAN
        /\ UNCHANGED <<pointer, cache, last, updates, frees, buffers, ui, queue, posted, failures>>
    BY <1>0, <1>2 DEF Connect, bridge
  <2>2. Clear \in Shapes \cup {Clear}
    OBVIOUS
  <2>. QED BY <1>0, <2>1, <2>2, ReportInv DEF WorkerTypes
<1>3. CASE Teardown(i)
  <2>1. /\ conn' \in [Sessions -> {"none", "up", "down"}]
        /\ last' = [of |-> Clear, bitmap |-> FALSE] /\ Post(i, Clear)
        /\ UNCHANGED <<pointer, cache, overlapped, updates, frees, buffers, ui>>
    BY <1>0, <1>3 DEF Teardown, ClearCursorShape
  <2>. QED BY <1>0, <1>1, <2>1, ReportInv DEF WorkerTypes
<1>4. ASSUME NEW p \in Shapes \cup {Clear}, Update(i, p)
      PROVE  /\ updates' \in 0..MaxUpdates /\ pointer' \in [Sessions -> Shapes \cup {Clear}]
             /\ UNCHANGED <<conn, overlapped, frees, buffers, ui>>
  <2>1. /\ updates < MaxUpdates /\ updates' = updates + 1
        /\ pointer' = [pointer EXCEPT ![i] = p]
        /\ UNCHANGED <<conn, overlapped, frees, buffers, ui>>
    BY <1>4 DEF Update
  <2>2. updates' \in 0..MaxUpdates
    <3>1. updates \in Nat /\ MaxUpdates \in Nat
      BY <1>0, CounterTypes, BoundTypes
    <3>2. updates < MaxUpdates /\ updates' = updates + 1
      BY <2>1
    <3>. QED BY <3>1, <3>2
  <2>3. pointer' \in [Sessions -> Shapes \cup {Clear}]
    BY <1>0, <2>1
  <2>. QED BY <2>1, <2>2, <2>3
<1>5. CASE UpdateSystem(i)
  <2>1. /\ Update(i, Clear) /\ cache' = cache
        /\ last' = [of |-> Clear, bitmap |-> FALSE] /\ Post(i, Clear)
    BY <1>5 DEF UpdateSystem, ClearCursorShape
  <2>2. /\ updates' \in 0..MaxUpdates /\ pointer' \in [Sessions -> Shapes \cup {Clear}]
        /\ UNCHANGED <<conn, overlapped, frees, buffers, ui>>
    BY <1>4, <2>1
  <2>. QED BY <1>0, <1>1, <2>1, <2>2, ReportInv DEF WorkerTypes
<1>6. ASSUME NEW p \in Shapes, UpdateNew(i, p)
      PROVE  IInv'
  <2>1. PICK kind \in {"type only", "bitmap"} :
          /\ cache' = [cache EXCEPT ![i][p] = kind]
          /\ PointerSet(i, p, kind = "bitmap")
    BY <1>6 DEF UpdateNew
  <2>2. /\ updates' \in 0..MaxUpdates /\ pointer' \in [Sessions -> Shapes \cup {Clear}]
        /\ UNCHANGED <<conn, overlapped, frees, buffers, ui>>
    BY <1>4, <1>6 DEF UpdateNew
  <2>3. cache' \in [Sessions -> [Shapes -> {"none", "type only", "bitmap"}]]
    BY <1>0, <2>1
  <2>4. /\ last' \in [of : Shapes \cup {Clear}, bitmap : BOOLEAN]
        /\ \/ Post(i, IF kind = "bitmap" THEN p ELSE Clear)
           \/ UNCHANGED <<queue, posted, failures>>
    BY <1>0, <2>1, PointerSetPosts
  <2>5. CASE kind = "bitmap"
    BY <1>0, <2>2, <2>3, <2>4, <2>5, ReportInv DEF WorkerTypes
  <2>6. CASE kind # "bitmap"
    BY <1>0, <2>2, <2>3, <2>4, <2>6, ReportInv DEF WorkerTypes
  <2>. QED BY <2>5, <2>6
<1>7. ASSUME NEW p \in Shapes, UpdateCached(i, p)
      PROVE  IInv'
  <2>1. /\ cache' = cache /\ cache[i][p] # "none"
        /\ PointerSet(i, p, cache[i][p] = "bitmap")
    BY <1>7 DEF UpdateCached
  <2>2. /\ updates' \in 0..MaxUpdates /\ pointer' \in [Sessions -> Shapes \cup {Clear}]
        /\ UNCHANGED <<conn, overlapped, frees, buffers, ui>>
    BY <1>4, <1>7 DEF UpdateCached
  <2>3. /\ last' \in [of : Shapes \cup {Clear}, bitmap : BOOLEAN]
        /\ \/ Post(i, IF cache[i][p] = "bitmap" THEN p ELSE Clear)
           \/ UNCHANGED <<queue, posted, failures>>
    BY <1>0, <2>1, PointerSetPosts
  <2>4. CASE cache[i][p] = "bitmap"
    BY <1>0, <2>1, <2>2, <2>3, <2>4, ReportInv DEF WorkerTypes
  <2>5. CASE cache[i][p] # "bitmap"
    BY <1>0, <2>1, <2>2, <2>3, <2>5, ReportInv DEF WorkerTypes
  <2>. QED BY <2>4, <2>5
<1>. QED BY <1>2, <1>3, <1>5, <1>6, <1>7

\* A step that takes an event from the queue, or a decoding from those under
\* way, keeps the others.
LEMMA UiInv ==
  ASSUME IInv,
         queue' \in Seq(Event), decoding' \in Seq(Event),
         \A e \in Range(queue') \cup Range(decoding') : e.payload <= posted,
         frees' \in [Payloads -> Nat], buffers' \subseteq 1..posted,
         addr' \in [Sessions -> Sessions], session' \in 0..MaxSessions, page' \in BOOLEAN,
         overlay' \in [of : 0..MaxSessions, shape : Shapes \cup {Clear}],
         failures' \in 0..MaxFailures,
         UNCHANGED <<worker, posted, updates>>,
         page' => session' # 0
  PROVE  IInv'
<1>1. UNCHANGED <<conn, pointer, cache, last, overlapped, posted, updates>>
  BY DEF worker
<1> HIDE DEF Event
<1>2. WorkerTypes'
  BY <1>1, Zenon DEF IInv, TypeOK, WorkerTypes
<1>3. posted' \in 0..MaxPayloads /\ posted' = posted
  BY <1>1, Zenon DEF IInv, TypeOK
<1>4. TypeOK'
  BY <1>2, <1>3, Zenon DEF TypeOK, WorkerTypes
<1>. QED BY <1>4 DEF IInv

\* What the page makes of an event.
LEMMA ShowType ==
  ASSUME NEW i \in Sessions, NEW shape \in Shapes \cup {Clear}, Show(i, shape)
  PROVE  /\ overlay' \in [of : 0..MaxSessions, shape : Shapes \cup {Clear}]
         /\ overlay'.of = i /\ overlay'.shape = shape
<1>1. i \in 0..MaxSessions
  BY BoundTypes DEF Sessions
<1>. QED BY <1>1 DEF Show

LEMMA NothingType ==
  /\ Nothing \in [of : 0..MaxSessions, shape : Shapes \cup {Clear}]
  /\ Nothing.of = 0 /\ Nothing.shape = Clear
<1>1. 0 \in 0..MaxSessions
  BY BoundTypes
<1>. QED BY <1>1 DEF Nothing

Decoded(e) == [e EXCEPT !.page = session]

LEMMA DecodeType ==
  ASSUME TypeOK, NEW e \in Event
  PROVE  /\ Decoded(e) \in Event /\ Decoded(e).inst = e.inst /\ Decoded(e).shape = e.shape
         /\ Decoded(e).payload = e.payload /\ Decoded(e).page = session
<1>1. session \in 0..MaxSessions
  BY DEF TypeOK
<1>. QED BY <1>1 DEF Decoded, Event

\* The payload's owner changes; its number stays in range.
LEMMA WrapType ==
  ASSUME TypeOK, NEW n \in 0..posted, NEW arrives \in BOOLEAN, Wrap(n, arrives)
  PROVE  /\ frees' \in [Payloads -> Nat] /\ buffers' \subseteq 1..posted
         /\ failures' \in 0..MaxFailures
<1>0. /\ posted \in Nat /\ posted <= MaxPayloads /\ MaxPayloads \in Nat /\ MaxFailures \in Nat
      /\ frees \in [Payloads -> Nat] /\ buffers \subseteq 1..posted
      /\ failures \in 0..MaxFailures
  <2>1. /\ frees \in [Payloads -> Nat] /\ buffers \subseteq 1..posted
        /\ failures \in 0..MaxFailures
    BY DEF TypeOK
  <2>. QED BY <2>1, CounterTypes, BoundTypes
<1>1. CASE n = 0 /\ ~arrives /\ UNCHANGED <<buffers, frees, failures>>
  BY <1>0, <1>1
<1>2. CASE n # 0 /\ arrives /\ buffers' = buffers \cup {n} /\ UNCHANGED <<frees, failures>>
  <2>1. n \in 1..posted
    BY <1>0, <1>2
  <2>. QED BY <1>0, <1>2, <2>1
<1>3. CASE /\ n # 0 /\ ~arrives /\ Fails
           /\ frees' = [frees EXCEPT ![n] = @ + 1] /\ UNCHANGED buffers
  <2>1. frees' \in [Payloads -> Nat]
    BY <1>0, <1>3 DEF Payloads
  <2>2. failures' \in 0..MaxFailures
    BY <1>0, <1>3 DEF Fails
  <2>. QED BY <1>0, <1>3, <2>1, <2>2
<1>. QED BY <1>1, <1>2, <1>3 DEF Wrap

LEMMA DeliverInv ==
  ASSUME IInv, Deliver
  PROVE  IInv'
<1>0. /\ TypeOK /\ queue # <<>> /\ queue' = Tail(queue)
      /\ queue \in Seq(Event) /\ decoding \in Seq(Event)
      /\ UNCHANGED <<worker, posted, addr, session, page, updates>>
      /\ addr \in [Sessions -> Sessions] /\ session \in 0..MaxSessions /\ page \in BOOLEAN
      /\ overlay \in [of : 0..MaxSessions, shape : Shapes \cup {Clear}]
      /\ posted \in Nat
  <2>1. /\ queue # <<>> /\ queue' = Tail(queue)
        /\ UNCHANGED <<worker, posted, addr, session, page, updates>>
    BY DEF Deliver
  <2>2. TypeOK
    BY DEF IInv
  <2>3. posted \in Nat
    BY <2>2, CounterTypes
  <2>4. /\ queue \in Seq(Event) /\ decoding \in Seq(Event)
        /\ addr \in [Sessions -> Sessions] /\ session \in 0..MaxSessions /\ page \in BOOLEAN
        /\ overlay \in [of : 0..MaxSessions, shape : Shapes \cup {Clear}]
    BY <2>2 DEF TypeOK
  <2>. QED BY <2>1, <2>2, <2>3, <2>4
<1> DEFINE e == Head(queue)
<1>1. /\ e \in Event /\ e \in Range(queue)
      /\ queue' \in Seq(Event) /\ Range(queue') \subseteq Range(queue)
  BY <1>0, TailEvents
<1>2. PICK arrives \in BOOLEAN : Wrap(e.payload, arrives) /\ OnCursorShapeChanged(e, arrives)
  BY DEF Deliver
<1> HIDE DEF e
<1>3. e.payload \in 0..posted /\ e.inst \in Sessions
  <2>1. e.payload \in 0..MaxPayloads /\ MaxPayloads \in Nat /\ e.inst \in Sessions
    BY <1>0, <1>1, EventsAreTyped, BoundTypes
  <2>2. e.payload <= posted
    BY <1>0, <1>1 DEF TypeOK
  <2>. QED BY <1>0, <2>1, <2>2
<1>4. /\ frees' \in [Payloads -> Nat] /\ buffers' \subseteq 1..posted
      /\ failures' \in 0..MaxFailures
  BY <1>0, <1>2, <1>3, WrapType
<1>5. /\ decoding' \in Seq(Event)
      /\ \A d \in Range(decoding') : d \in Range(decoding) \/ d.payload = e.payload
      /\ overlay' = overlay \/ Show(e.inst, Clear)
  <2>1. \/ decoding' = Append(decoding, Decoded(e)) /\ overlay' = overlay
        \/ decoding' = decoding /\ (overlay' = overlay \/ Show(e.inst, Clear))
    BY <1>2 DEF OnCursorShapeChanged, Decode, Decoded
  <2>2. Decoded(e) \in Event /\ Decoded(e).payload = e.payload
    BY <1>0, <1>1, DecodeType
  <2> HIDE DEF Event
  <2>. QED BY <1>0, <2>1, <2>2, AppendEvent
<1>6. \A d \in Range(queue') \cup Range(decoding') : d.payload <= posted
  <2>1. \A d \in Range(queue) \cup Range(decoding) : d.payload <= posted
    BY DEF IInv, TypeOK
  <2>. QED BY <1>1, <1>5, <2>1
<1>7. overlay' \in [of : 0..MaxSessions, shape : Shapes \cup {Clear}]
  <2>1. Clear \in Shapes \cup {Clear}
    OBVIOUS
  <2>. QED BY <1>0, <1>3, <1>5, <2>1, ShowType
<1>8. /\ addr' \in [Sessions -> Sessions] /\ session' \in 0..MaxSessions /\ page' \in BOOLEAN
      /\ page' => session' # 0
  BY <1>0 DEF IInv
<1>. QED BY <1>0, <1>1, <1>4, <1>5, <1>6, <1>7, <1>8, UiInv

\* A decoding that ends is taken out, and shown or not.
LEMMA DecodeStep ==
  ASSUME TypeOK, DecodeEnds
  PROVE  \E k \in 1..Len(decoding) :
           /\ InOrder => k = 1
           /\ decoding # <<>> /\ decoding' = RemoveAt(decoding, k)
           /\ \/ /\ page /\ session = decoding[k].page
                 /\ Show(decoding[k].inst, decoding[k].shape) /\ failures' = failures
              \/ /\ ~(page /\ session = decoding[k].page)
                 /\ overlay' = overlay /\ failures' = failures
              \/ Fails /\ overlay' = overlay
           /\ UNCHANGED <<worker, bridge, addr, session, page, updates>>
<1>1. PICK k \in 1..(IF InOrder THEN 1 ELSE Len(decoding)) :
        /\ decoding # <<>> /\ decoding' = RemoveAt(decoding, k)
        /\ \/ /\ page /\ session = decoding[k].page
              /\ Show(decoding[k].inst, decoding[k].shape) /\ failures' = failures
           \/ /\ ~(page /\ session = decoding[k].page)
              /\ overlay' = overlay /\ failures' = failures
           \/ Fails /\ overlay' = overlay
        /\ UNCHANGED <<worker, bridge, addr, session, page, updates>>
  BY DEF DecodeEnds
<1>2. k \in 1..Len(decoding) /\ (InOrder => k = 1)
  <2> HIDE DEF Event
  <2>0. decoding \in Seq(Event) /\ decoding # <<>>
    BY <1>1 DEF TypeOK
  <2>1. Len(decoding) \in Nat /\ Len(decoding) > 0
    BY <2>0, EmptySeq, LenProperties
  <2>. QED BY <1>1, <2>1
<1>. QED BY <1>1, <1>2

LEMMA DecodeInv ==
  ASSUME IInv, DecodeEnds
  PROVE  IInv'
<1>0. /\ queue \in Seq(Event) /\ decoding \in Seq(Event)
      /\ addr \in [Sessions -> Sessions] /\ session \in 0..MaxSessions /\ page \in BOOLEAN
      /\ overlay \in [of : 0..MaxSessions, shape : Shapes \cup {Clear}]
      /\ failures \in 0..MaxFailures /\ MaxFailures \in Nat
      /\ frees \in [Payloads -> Nat] /\ buffers \subseteq 1..posted
      /\ \A d \in Range(queue) \cup Range(decoding) : d.payload <= posted
  BY BoundTypes DEF IInv, TypeOK
<1>1. PICK k \in 1..Len(decoding) :
        /\ decoding' = RemoveAt(decoding, k)
        /\ \/ Show(decoding[k].inst, decoding[k].shape) /\ failures' = failures
           \/ overlay' = overlay /\ failures' = failures
           \/ Fails /\ overlay' = overlay
        /\ UNCHANGED <<worker, bridge, addr, session, page, updates>>
  BY DecodeStep DEF IInv
<1> DEFINE e == decoding[k]
<1>2. /\ e \in Range(decoding)
      /\ decoding' \in Seq(Event) /\ Range(decoding') \subseteq Range(decoding)
  BY <1>0, <1>1, RemoveEvent
<1>3. e.inst \in Sessions /\ e.shape \in Shapes \cup {Clear}
  BY <1>0, <1>2, EventsAreTyped
<1>4. overlay' = overlay \/ Show(e.inst, e.shape)
  BY <1>1
<1> HIDE DEF e
<1>5. overlay' \in [of : 0..MaxSessions, shape : Shapes \cup {Clear}]
  BY <1>0, <1>3, <1>4, ShowType
<1>6. failures' \in 0..MaxFailures
  BY <1>0, <1>1 DEF Fails
<1>7. UNCHANGED <<queue, frees, buffers, addr, session, page, worker, posted, updates>>
  BY <1>1 DEF bridge
<1>8. page' => session' # 0
  BY <1>7 DEF IInv
<1>9. \A d \in Range(queue') \cup Range(decoding') : d.payload <= posted
  BY <1>0, <1>2, <1>7
<1>10. /\ queue' \in Seq(Event) /\ frees' \in [Payloads -> Nat] /\ buffers' \subseteq 1..posted
       /\ addr' \in [Sessions -> Sessions] /\ session' \in 0..MaxSessions /\ page' \in BOOLEAN
       /\ UNCHANGED <<worker, posted, updates>>
  BY <1>0, <1>7
<1>. QED BY <1>2, <1>5, <1>6, <1>8, <1>9, <1>10, UiInv

\* A page opens: the next instance, at address a.
LEMMA OpenStep ==
  ASSUME TypeOK, NEW a \in Sessions, OpenPage(a)
  PROVE  /\ session' = session + 1 /\ session' \in Sessions /\ session \in Nat
         /\ addr' = [addr EXCEPT ![session'] = a] /\ addr' \in [Sessions -> Sessions]
         /\ \A j \in Sessions : j # session' => addr'[j] = addr[j]
         /\ addr'[session'] = a
         /\ \A j \in Sessions : j <= session /\ addr[j] = a => conn[j] # "up"
         /\ ~page /\ page' = TRUE /\ overlay' = Nothing
         /\ UNCHANGED <<worker, bridge, decoding, updates, failures>>
<1>1. /\ ~page /\ session < MaxSessions
      /\ \A j \in 1..session : addr[j] = a => conn[j] # "up"
      /\ page' = TRUE /\ session' = session + 1
      /\ addr' = [addr EXCEPT ![session + 1] = a] /\ overlay' = Nothing
      /\ UNCHANGED <<worker, bridge, decoding, updates, failures>>
  BY DEF OpenPage
<1>2. addr \in [Sessions -> Sessions]
  BY DEF TypeOK
<1>3. session + 1 \in Sessions /\ session \in Nat
  BY <1>1, CounterTypes, BoundTypes DEF Sessions
<1>4. \A j \in Sessions : j <= session => j \in 1..session
  BY <1>3 DEF Sessions
<1>. QED BY <1>1, <1>2, <1>3, <1>4

LEMMA OtherInv ==
  ASSUME IInv,
         \/ (\E a \in Sessions : OpenPage(a)) \/ ClosePage
         \/ (\E n \in Payloads : Collect(n)) \/ UNCHANGED vars
  PROVE  IInv'
<1>0. /\ queue \in Seq(Event) /\ decoding \in Seq(Event)
      /\ addr \in [Sessions -> Sessions] /\ session \in 0..MaxSessions /\ page \in BOOLEAN
      /\ overlay \in [of : 0..MaxSessions, shape : Shapes \cup {Clear}]
      /\ failures \in 0..MaxFailures
      /\ frees \in [Payloads -> Nat] /\ buffers \subseteq 1..posted
      /\ \A d \in Range(queue) \cup Range(decoding) : d.payload <= posted
      /\ TypeOK /\ (page => session # 0)
  BY DEF IInv, TypeOK
<1>1. ASSUME NEW a \in Sessions, OpenPage(a)
      PROVE  IInv'
  <2>1. /\ UNCHANGED <<queue, decoding, frees, buffers, failures, worker, posted, updates>>
        /\ overlay' = Nothing /\ page' \in BOOLEAN /\ addr' \in [Sessions -> Sessions]
        /\ session' \in Sessions
    BY <1>0, <1>1, OpenStep DEF bridge
  <2>2. session' \in 0..MaxSessions /\ session' # 0
    BY <2>1, BoundTypes DEF Sessions
  <2>. QED BY <1>0, <2>1, <2>2, NothingType, UiInv
<1>2. CASE ClosePage
  <2>1. /\ UNCHANGED <<queue, decoding, frees, buffers, failures, worker, posted, updates, addr>>
        /\ overlay' = Nothing /\ page' = FALSE /\ session' = session
    BY <1>2 DEF ClosePage, bridge
  <2>. QED BY <1>0, <2>1, NothingType, UiInv
<1>3. ASSUME NEW n \in Payloads, Collect(n)
      PROVE  IInv'
  <2>1. /\ UNCHANGED <<queue, decoding, failures, worker, posted, updates, addr, session, page,
                       overlay>>
        /\ frees' \in [Payloads -> Nat] /\ buffers' \subseteq 1..posted
    BY <1>0, <1>3 DEF Collect, ui
  <2>. QED BY <1>0, <2>1, UiInv
<1>4. CASE UNCHANGED vars
  <2>1. UNCHANGED <<queue, decoding, failures, worker, posted, updates, addr, session, page,
                    overlay, frees, buffers>>
    BY <1>4 DEF vars, bridge, ui
  <2>. QED BY <1>0, <2>1, UiInv
<1>. QED BY <1>1, <1>2, <1>3, <1>4

LEMMA Inductive == Spec => []IInv
<1>1. Init => IInv
  <2> SUFFICES ASSUME Init PROVE IInv
    OBVIOUS
  <2>1. queue \in Seq(Event) /\ decoding \in Seq(Event)
        /\ Range(queue) = {} /\ Range(decoding) = {}
    BY NoEvents DEF Init
  <2>2. last \in [of : Shapes \cup {Clear}, bitmap : BOOLEAN]
    BY DEF Init
  <2>3. TypeOK
    <3> HIDE DEF Event
    <3>1. /\ addr \in [Sessions -> Sessions]
          /\ conn \in [Sessions -> {"none", "up", "down"}]
          /\ pointer \in [Sessions -> Shapes \cup {Clear}]
          /\ cache \in [Sessions -> [Shapes -> {"none", "type only", "bitmap"}]]
          /\ frees \in [Payloads -> Nat]
      BY DEF Init
    <3>2. /\ posted \in 0..MaxPayloads /\ session \in 0..MaxSessions
          /\ updates \in 0..MaxUpdates /\ failures \in 0..MaxFailures
      BY BoundTypes DEF Init
    <3>3. buffers \subseteq 1..posted /\ page \in BOOLEAN /\ overlapped \in BOOLEAN
      BY DEF Init
    <3>4. overlay \in [of : 0..MaxSessions, shape : Shapes \cup {Clear}]
      BY NothingType DEF Init
    <3>. QED BY <2>1, <2>2, <3>1, <3>2, <3>3, <3>4 DEF TypeOK
  <2>. QED BY <2>3 DEF IInv, Init
<1>2. IInv /\ [Next]_vars => IInv'
  <2> SUFFICES ASSUME IInv, [Next]_vars PROVE IInv'
    OBVIOUS
  <2>. QED BY WorkerInv, DeliverInv, DecodeInv, OtherInv DEF Next
<1>. QED BY <1>1, <1>2, PTL DEF Spec

\* Every variable keeps its type; in particular a payload's number is one that
\* was given out.
THEOREM TypeCorrect == Spec => []TypeOK
<1>1. IInv => TypeOK
  BY DEF IInv
<1>. QED BY <1>1, Inductive, PTL

-----------------------------------------------------------------------------
(* Who owns a payload.                                                       *)

Carries(q, n) == \E k \in 1..Len(q) : q[k].payload = n

Distinct(q) ==
  \A j, k \in 1..Len(q) : q[j].payload = q[k].payload /\ q[j].payload # 0 => j = k

\* A copy of a bitmap that was made is in the queue, once; or it belongs to a
\* buffer; or it was freed, once.
OneOwner ==
  /\ Distinct(queue)
  /\ \A n \in Payloads :
       /\ Carries(queue, n) => n \notin buffers /\ frees[n] = 0
       /\ n \in buffers => frees[n] = 0
       /\ n > posted => frees[n] = 0
       /\ n <= posted /\ ~Carries(queue, n) /\ n \notin buffers => frees[n] = 1

\* A bitmap that is being decoded still belongs to its buffer.
DecodedIsOwned == \A e \in Range(decoding) : e.payload \in buffers

\* What an event at the end adds.
LEMMA AppendCarries ==
  ASSUME NEW q \in Seq(Event), NEW e \in Event, Distinct(q),
         e.payload = 0 \/ ~Carries(q, e.payload)
  PROVE  /\ Distinct(Append(q, e))
         /\ \A n : Carries(Append(q, e), n) <=> Carries(q, n) \/ n = e.payload
<1> HIDE DEF Event
<1> DEFINE r == Append(q, e)
<1>1. /\ Len(q) \in Nat /\ Len(r) = Len(q) + 1
      /\ \A i \in 1..Len(q) : r[i] = q[i]
      /\ r[Len(q) + 1] = e
  BY AppendProperties, LenProperties
<1> HIDE DEF r
<1>2. ASSUME NEW j \in 1..Len(r)
      PROVE  \/ j \in 1..Len(q) /\ r[j] = q[j]
             \/ j = Len(q) + 1 /\ r[j] = e
  BY <1>1
<1>3. ASSUME NEW j \in 1..Len(r), NEW k \in 1..Len(r),
             r[j].payload = r[k].payload, r[j].payload # 0
      PROVE  j = k
  <2>1. CASE j \in 1..Len(q) /\ r[j] = q[j] /\ k \in 1..Len(q) /\ r[k] = q[k]
    BY <1>3, <2>1 DEF Distinct
  <2>2. CASE j \in 1..Len(q) /\ r[j] = q[j] /\ k = Len(q) + 1 /\ r[k] = e
    BY <1>3, <2>2 DEF Carries
  <2>3. CASE k \in 1..Len(q) /\ r[k] = q[k] /\ j = Len(q) + 1 /\ r[j] = e
    BY <1>3, <2>3 DEF Carries
  <2> QED BY <1>2, <2>1, <2>2, <2>3
<1>4. ASSUME NEW n
      PROVE  Carries(r, n) <=> Carries(q, n) \/ n = e.payload
  <2>1. ASSUME Carries(r, n) PROVE Carries(q, n) \/ n = e.payload
    <3>1. PICK j \in 1..Len(r) : r[j].payload = n
      BY <2>1 DEF Carries
    <3> QED BY <1>2, <3>1 DEF Carries
  <2>2. ASSUME Carries(q, n) PROVE Carries(r, n)
    <3>1. PICK j \in 1..Len(q) : q[j].payload = n
      BY <2>2 DEF Carries
    <3>2. j \in 1..Len(r) /\ r[j] = q[j]
      BY <1>1, <3>1
    <3> QED BY <3>1, <3>2 DEF Carries
  <2>3. ASSUME n = e.payload PROVE Carries(r, n)
    <3>1. Len(q) + 1 \in 1..Len(r)
      BY <1>1
    <3> QED BY <1>1, <2>3, <3>1 DEF Carries
  <2> QED BY <2>1, <2>2, <2>3
<1> QED BY <1>3, <1>4 DEF Distinct, r

\* What the first event takes away.
LEMMA TailCarries ==
  ASSUME NEW q \in Seq(Event), q # <<>>, Distinct(q)
  PROVE  /\ Distinct(Tail(q))
         /\ Carries(q, Head(q).payload)
         /\ Head(q).payload # 0 => ~Carries(Tail(q), Head(q).payload)
         /\ \A n : n # Head(q).payload => (Carries(Tail(q), n) <=> Carries(q, n))
<1> HIDE DEF Event
<1> DEFINE r == Tail(q)
<1>1. /\ Len(q) \in Nat /\ Len(q) > 0 /\ Len(r) = Len(q) - 1
      /\ \A i \in 1..Len(r) : r[i] = q[i + 1]
      /\ Head(q) = q[1]
  BY HeadTailProperties
<1> HIDE DEF r
<1>2. ASSUME NEW j \in 1..Len(r) PROVE j + 1 \in 1..Len(q) /\ j + 1 # 1 /\ r[j] = q[j + 1]
  BY <1>1
<1>3. ASSUME NEW j \in 1..Len(r), NEW k \in 1..Len(r),
             r[j].payload = r[k].payload, r[j].payload # 0
      PROVE  j = k
  <2> DEFINE a == j + 1
             b == k + 1
  <2>1. a \in 1..Len(q) /\ b \in 1..Len(q) /\ r[j] = q[a] /\ r[k] = q[b]
    BY <1>2
  <2>2. (a = b) => (j = k)
    BY <1>1
  <2> HIDE DEF a, b
  <2>3. q[a].payload = q[b].payload /\ q[a].payload # 0
    BY <1>3, <2>1
  <2>4. a = b
    BY <2>1, <2>3 DEF Distinct
  <2> QED BY <2>2, <2>4
<1>4. 1 \in 1..Len(q)
  BY <1>1
<1>5. Carries(q, Head(q).payload)
  BY <1>1, <1>4 DEF Carries
<1>6. ASSUME Carries(r, Head(q).payload) PROVE Head(q).payload = 0
  <2>1. PICK j \in 1..Len(r) : r[j].payload = q[1].payload
    BY <1>1, <1>6 DEF Carries
  <2> QED BY <1>1, <1>2, <1>4, <2>1 DEF Distinct
<1>7. ASSUME NEW n, n # Head(q).payload
      PROVE  Carries(r, n) <=> Carries(q, n)
  <2>1. ASSUME Carries(r, n) PROVE Carries(q, n)
    <3>1. PICK j \in 1..Len(r) : r[j].payload = n
      BY <2>1 DEF Carries
    <3> QED BY <1>2, <3>1 DEF Carries
  <2>2. ASSUME Carries(q, n) PROVE Carries(r, n)
    <3>1. PICK j \in 1..Len(q) : q[j].payload = n
      BY <2>2 DEF Carries
    <3>2. j # 1
      BY <1>1, <1>7, <3>1
    <3>3. j - 1 \in 1..Len(r) /\ (j - 1) + 1 = j
      BY <1>1, <3>2
    <3>4. r[j - 1] = q[j]
      BY <1>1, <3>3
    <3> QED BY <3>1, <3>3, <3>4 DEF Carries
  <2> QED BY <2>1, <2>2
<1> QED BY <1>3, <1>5, <1>6, <1>7 DEF Distinct, r

\* A payload that was made goes into the queue.
LEMMA PostOwner ==
  ASSUME TypeOK, OneOwner, DecodedIsOwned, NEW i \in Sessions, NEW shape \in Shapes \cup {Clear},
         Post(i, shape), UNCHANGED <<frees, buffers, decoding>>
  PROVE  OneOwner' /\ DecodedIsOwned'
<1>1. /\ queue \in Seq(Event) /\ posted \in Nat /\ posted <= MaxPayloads /\ MaxPayloads \in Nat
      /\ buffers \subseteq 1..posted
      /\ \A e \in Range(queue) : e.payload <= posted
  BY CounterTypes, BoundTypes DEF TypeOK
<1>2. DecodedIsOwned'
  BY DEF DecodedIsOwned
<1>3. CASE UNCHANGED <<queue, posted>>
  BY <1>2, <1>3 DEF OneOwner
<1>4. CASE queue' = Append(queue, Report(i, Clear, 0)) /\ posted' = posted
  <2> DEFINE e == Report(i, Clear, 0)
  <2>0. 0 \in 0..MaxPayloads /\ Clear \in Shapes \cup {Clear}
    BY <1>1
  <2>1. e \in Event /\ e.payload = 0
    BY <2>0, ReportType
  <2> HIDE DEF e
  <2>2. queue' = Append(queue, e)
    BY <1>4 DEF e
  <2>3. Distinct(queue') /\ \A n \in Payloads : Carries(queue', n) <=> Carries(queue, n)
    BY <1>1, <2>1, <2>2, AppendCarries DEF OneOwner, Payloads
  <2> QED BY <1>2, <1>4, <2>3 DEF OneOwner
<1>5. CASE /\ posted < MaxPayloads /\ posted' = posted + 1
           /\ queue' = Append(queue, Report(i, shape, posted + 1))
  <2> DEFINE e == Report(i, shape, posted + 1)
  <2>0. posted + 1 \in 0..MaxPayloads
    BY <1>1, <1>5
  <2>1. e \in Event /\ e.payload = posted + 1
    BY <2>0, ReportType
  <2> HIDE DEF e
  <2>2. queue' = Append(queue, e)
    BY <1>5 DEF e
  <2>3. ~Carries(queue, posted + 1)
    <3> SUFFICES ASSUME NEW k \in 1..Len(queue), queue[k].payload = posted + 1 PROVE FALSE
      BY DEF Carries
    <3>1. queue[k] \in Range(queue)
      <4> HIDE DEF Event
      <4>1. k \in DOMAIN queue
        BY <1>1, LenProperties
      <4> QED BY <4>1 DEF Range
    <3>2. posted + 1 <= posted
      BY <1>1, <3>1
    <3> QED BY <1>1, <3>2
  <2>4. /\ Distinct(queue')
        /\ \A n \in Payloads : Carries(queue', n) <=> Carries(queue, n) \/ n = posted + 1
    BY <1>1, <2>1, <2>2, <2>3, AppendCarries DEF OneOwner
  <2>5. ASSUME NEW n \in Payloads
        PROVE  /\ Carries(queue', n) => n \notin buffers /\ frees[n] = 0
               /\ n \in buffers => frees[n] = 0
               /\ n > posted + 1 => frees[n] = 0
               /\ n <= posted + 1 /\ ~Carries(queue', n) /\ n \notin buffers => frees[n] = 1
    <3>1. n \in Nat
      BY DEF Payloads
    <3>2. CASE n = posted + 1
      <4>1. n > posted /\ n \notin 1..posted /\ ~(n > posted + 1)
        BY <1>1, <3>2
      <4>2. frees[n] = 0 /\ n \notin buffers /\ Carries(queue', n)
        BY <1>1, <2>4, <3>2, <4>1 DEF OneOwner
      <4> QED BY <4>1, <4>2
    <3>3. CASE n # posted + 1
      <4>1. (n > posted + 1 => n > posted) /\ (n <= posted + 1 => n <= posted)
        BY <1>1, <3>1, <3>3
      <4> QED BY <2>4, <3>3, <4>1 DEF OneOwner
    <3> QED BY <3>2, <3>3
  <2> QED BY <1>2, <1>5, <2>4, <2>5 DEF OneOwner
<1> QED BY <1>3, <1>4, <1>5 DEF Post

\* CallJS_CursorShape takes one from the queue, and hands it to a buffer or
\* frees it.
LEMMA DeliverOwner ==
  ASSUME TypeOK, OneOwner, DecodedIsOwned, Deliver
  PROVE  OneOwner' /\ DecodedIsOwned'
<1>1. /\ queue \in Seq(Event) /\ decoding \in Seq(Event)
      /\ posted \in Nat /\ frees \in [Payloads -> Nat]
  BY CounterTypes DEF TypeOK
<1>2. queue # <<>> /\ queue' = Tail(queue) /\ posted' = posted
  BY DEF Deliver
<1> DEFINE e == Head(queue)
           p == e.payload
<1>3. PICK arrives \in BOOLEAN : Wrap(p, arrives) /\ OnCursorShapeChanged(e, arrives)
  BY DEF Deliver
<1>4. e \in Event /\ p \in 0..MaxPayloads /\ (p # 0 => p \in Payloads)
  <2>1. e \in Event /\ e \in Range(queue)
    BY <1>1, <1>2, TailEvents
  <2> HIDE DEF e
  <2>2. p \in 0..MaxPayloads
    BY <1>1, <2>1, EventsAreTyped
  <2> HIDE DEF p
  <2> QED BY <2>1, <2>2, BoundTypes DEF Payloads
<1>5. /\ Distinct(queue') /\ Carries(queue, p) /\ (p # 0 => ~Carries(queue', p))
      /\ \A n : n # p => (Carries(queue', n) <=> Carries(queue, n))
  BY <1>1, <1>2, TailCarries DEF OneOwner
<1> HIDE DEF e
<1>6. \/ p = 0 /\ ~arrives /\ UNCHANGED <<buffers, frees>>
      \/ p # 0 /\ arrives /\ buffers' = buffers \cup {p} /\ frees' = frees
      \/ p # 0 /\ ~arrives /\ frees' = [frees EXCEPT ![p] = @ + 1] /\ buffers' = buffers
  BY <1>3 DEF Wrap
<1>7. DecodedIsOwned'
  <2>1. \/ decoding' = decoding
        \/ arrives /\ decoding' = Append(decoding, Decoded(e))
    BY <1>3 DEF OnCursorShapeChanged, Decode, Decoded
  <2>2. Decoded(e) \in Event /\ Decoded(e).payload = p
    BY <1>4, DecodeType
  <2>3. \A d \in Range(decoding') : d \in Range(decoding) \/ (arrives /\ d.payload = p)
    <3> HIDE DEF p, Event
    <3>. QED BY <1>1, <2>1, <2>2, AppendEvent
  <2>4. buffers \subseteq buffers' /\ (arrives => p \in buffers')
    BY <1>6
  <2> QED BY <2>3, <2>4 DEF DecodedIsOwned
<1> HIDE DEF p
<1>8. ASSUME NEW n \in Payloads
      PROVE  /\ Carries(queue', n) => n \notin buffers' /\ frees'[n] = 0
             /\ n \in buffers' => frees'[n] = 0
             /\ n > posted => frees'[n] = 0
             /\ n <= posted /\ ~Carries(queue', n) /\ n \notin buffers' => frees'[n] = 1
  <2>0. /\ Carries(queue, n) => n \notin buffers /\ frees[n] = 0
        /\ n \in buffers => frees[n] = 0
        /\ n > posted => frees[n] = 0
        /\ n <= posted /\ ~Carries(queue, n) /\ n \notin buffers => frees[n] = 1
    BY DEF OneOwner
  <2>1. n # 0
    BY DEF Payloads
  <2>2. CASE n # p
    <3>1. (n \in buffers' <=> n \in buffers) /\ frees'[n] = frees[n]
      BY <1>1, <1>4, <1>6, <2>2
    <3> QED BY <1>5, <2>0, <2>2, <3>1
  <2>3. CASE n = p
    <3>1. n \notin buffers /\ frees[n] = 0 /\ ~Carries(queue', n)
      BY <1>5, <2>0, <2>1, <2>3
    <3>2. ~(n > posted)
      <4>1. PICK k \in 1..Len(queue) : queue[k].payload = n
        BY <1>5, <2>3 DEF Carries
      <4>2. queue[k] \in Range(queue)
        <5> HIDE DEF Event
        <5>1. k \in DOMAIN queue
          BY <1>1, LenProperties
        <5> QED BY <5>1 DEF Range
      <4>3. n <= posted
        BY <4>1, <4>2 DEF TypeOK
      <4> QED BY <1>1, <4>3 DEF Payloads
    <3>3. \/ n \in buffers' /\ frees'[n] = 0
          \/ n \notin buffers' /\ frees'[n] = 1
      BY <1>1, <1>6, <2>1, <2>3, <3>1
    <3> QED BY <3>1, <3>2, <3>3
  <2> QED BY <2>2, <2>3
<1> QED BY <1>2, <1>5, <1>7, <1>8 DEF OneOwner

\* The collector frees what no buffer will hold again.
LEMMA CollectOwner ==
  ASSUME TypeOK, OneOwner, DecodedIsOwned, NEW n \in Payloads, Collect(n)
  PROVE  OneOwner' /\ DecodedIsOwned'
<1>1. /\ n \in buffers /\ buffers' = buffers \ {n}
      /\ frees' = [frees EXCEPT ![n] = @ + 1]
      /\ \A e \in Range(decoding) : e.payload # n
      /\ queue' = queue /\ posted' = posted /\ decoding' = decoding
  BY DEF Collect, ui
<1>2. frees \in [Payloads -> Nat] /\ n \in 1..posted /\ posted \in Nat
  BY <1>1, CounterTypes DEF TypeOK
<1>3. DecodedIsOwned'
  BY <1>1 DEF DecodedIsOwned
<1>4. frees[n] = 0 /\ ~Carries(queue, n) /\ ~(n > posted)
  BY <1>1, <1>2 DEF OneOwner
<1>5. frees'[n] = 1 /\ \A k \in Payloads : k # n => frees'[k] = frees[k]
  BY <1>1, <1>2, <1>4
<1> QED BY <1>1, <1>3, <1>4, <1>5 DEF OneOwner

LEMMA OwnerInductive == Spec => [](OneOwner /\ DecodedIsOwned)
<1> DEFINE Inv == OneOwner /\ DecodedIsOwned
<1>1. Init => Inv
  <2> SUFFICES ASSUME Init PROVE Inv
    OBVIOUS
  <2>1. /\ queue = <<>> /\ Range(decoding) = {} /\ posted = 0 /\ buffers = {}
        /\ \A n \in Payloads : frees[n] = 0 /\ ~(n <= 0)
    BY NoEvents DEF Init, Payloads
  <2>2. Len(queue) = 0
    BY <2>1
  <2>3. \A n : ~Carries(queue, n)
    BY <2>2 DEF Carries
  <2> QED BY <2>1, <2>2, <2>3 DEF OneOwner, DecodedIsOwned, Distinct
<1>2. IInv /\ Inv /\ [Next]_vars => Inv'
  <2> SUFFICES ASSUME IInv, Inv, [Next]_vars PROVE Inv'
    OBVIOUS
  <2>0. TypeOK /\ queue \in Seq(Event) /\ decoding \in Seq(Event)
    BY DEF IInv, TypeOK
  <2>1. ASSUME UNCHANGED <<queue, posted, buffers, frees>>,
               Range(decoding') \subseteq Range(decoding)
        PROVE  Inv'
    BY <2>1 DEF OneOwner, DecodedIsOwned
  <2>2. ASSUME NEW i \in Sessions,
               \/ Connect(i) \/ UpdateSystem(i) \/ Teardown(i)
               \/ \E p \in Shapes : UpdateNew(i, p) \/ UpdateCached(i, p)
        PROVE  Inv'
    <3>1. UNCHANGED <<frees, buffers, decoding>>
      BY <2>2 DEF Connect, UpdateSystem, Teardown, UpdateNew, UpdateCached, Update, bridge, ui
    <3>2. \/ UNCHANGED <<queue, posted>>
          \/ \E shape \in Shapes \cup {Clear} : Post(i, shape)
      <4>1. CASE Connect(i)
        BY <4>1 DEF Connect, bridge
      <4>2. CASE UpdateSystem(i) \/ Teardown(i)
        BY <4>2 DEF UpdateSystem, Teardown, ClearCursorShape
      <4>3. ASSUME NEW p \in Shapes, NEW bitmap \in BOOLEAN, PointerSet(i, p, bitmap)
            PROVE  \/ UNCHANGED <<queue, posted>>
                   \/ \E shape \in Shapes \cup {Clear} : Post(i, shape)
        BY <2>0, <4>3, PointerSetPosts
      <4>4. ASSUME NEW p \in Shapes, UpdateNew(i, p) \/ UpdateCached(i, p)
            PROVE  \E bitmap \in BOOLEAN : PointerSet(i, p, bitmap)
        BY <4>4 DEF UpdateNew, UpdateCached
      <4> QED BY <2>2, <4>1, <4>2, <4>3, <4>4
    <3> QED BY <2>0, <2>1, <3>1, <3>2, PostOwner
  <2>3. CASE Deliver
    BY <2>0, <2>3, DeliverOwner
  <2>4. CASE DecodeEnds
    <3>1. UNCHANGED <<queue, posted, buffers, frees>>
      BY <2>4 DEF DecodeEnds, bridge
    <3>2. PICK k \in 1..Len(decoding) : decoding' = RemoveAt(decoding, k)
      BY <2>0, <2>4, DecodeStep
    <3>3. Range(decoding') \subseteq Range(decoding)
      BY <2>0, <3>2, RemoveEvent
    <3> QED BY <2>1, <3>1, <3>3
  <2>5. CASE (\E a \in Sessions : OpenPage(a)) \/ ClosePage \/ UNCHANGED vars
    BY <2>1, <2>5 DEF OpenPage, ClosePage, vars, bridge, ui
  <2>6. ASSUME NEW n \in Payloads, Collect(n) PROVE Inv'
    BY <2>0, <2>6, CollectOwner
  <2> QED BY <2>2, <2>3, <2>4, <2>5, <2>6 DEF Next
<1>3. Spec => [][Next]_vars /\ Init
  BY DEF Spec
<1> HIDE DEF Inv
<1>4. Spec => []Inv
  BY <1>1, <1>2, Inductive, PTL DEF Spec
<1> QED BY <1>4 DEF Inv

\* The safety half of PayloadFreedOnce: no copy of a bitmap is freed twice, by
\* CallJS_CursorShape and the finalizer or otherwise, and each copy that is not
\* freed yet is in the queue or belongs to a buffer, so that none is lost.
THEOREM NeverFreedTwice == Spec => []OneOwner
BY OwnerInductive, PTL

\* The bitmap that createPixelMap reads is not freed under it.
THEOREM DecodedNotFreed ==
  Spec => [](\A e \in Range(decoding) : e.payload \in Payloads /\ frees[e.payload] = 0)
<1>1. TypeOK /\ OneOwner /\ DecodedIsOwned
        => \A e \in Range(decoding) : e.payload \in Payloads /\ frees[e.payload] = 0
  <2> SUFFICES ASSUME TypeOK, OneOwner, DecodedIsOwned, NEW e \in Range(decoding)
               PROVE  e.payload \in Payloads /\ frees[e.payload] = 0
    OBVIOUS
  <2> DEFINE n == e.payload
  <2>1. n \in buffers
    BY DEF DecodedIsOwned
  <2> HIDE DEF n
  <2>2. n \in Payloads
    <3>1. n \in 1..posted /\ posted \in Nat /\ posted <= MaxPayloads /\ MaxPayloads \in Nat
      BY <2>1, CounterTypes, BoundTypes DEF TypeOK
    <3> QED BY <3>1 DEF Payloads
  <2>3. frees[n] = 0
    BY <2>1, <2>2 DEF OneOwner
  <2> QED BY <2>2, <2>3 DEF n
<1> QED BY <1>1, TypeCorrect, OwnerInductive, PTL

-----------------------------------------------------------------------------
(* A cursor of the page's own session is not replaced by one of an earlier    *)
(* instance at the same address.  Decodings end in order.                    *)

\* Events that pass the page's test: those of its own instance, and those of
\* earlier ones at its address.
Own   == {e \in Event : e.inst = session}
Stale == {e \in Event : e.inst # session /\ addr[e.inst] = addr[session]}

\* Those that the open page has in decoding.
OwnHere   == {e \in Own : e.page = session}
StaleHere == {e \in Stale : e.page = session}

\* No event of T comes after one of S.
Settled(q, S, T) == \A m, n \in 1..Len(q) : m < n /\ q[m] \in S => q[n] \notin T

None(q, S) == Range(q) \cap S = {}

\* The newest session is the newest instance, and no other at its address runs.
OneRuns ==
  /\ \A j \in Sessions : j > session => conn[j] = "none"
  /\ \A j \in Sessions : j # session /\ addr[j] = addr[session] => conn[j] # "up"

\* An event is of an instance that was made; the page that awaits its decoding
\* was opened for that instance or later.
EventsOld ==
  /\ \A e \in Range(queue) : e.inst <= session
  /\ \A e \in Range(decoding) : e.inst <= e.page /\ e.page <= session
  /\ \A e \in Range(decoding) : e.page = session => e \in OwnHere \cup StaleHere

\* First come the events of earlier instances, then the page's own: in the queue,
\* in decoding, and from one to the other.
OldFirst ==
  /\ Settled(queue, Own, Stale) /\ Settled(decoding, OwnHere, StaleHere)
  /\ overlay.of = session \/ ~None(decoding, OwnHere) => None(queue, Stale)
  /\ overlay.of = session /\ overlay.shape # Clear => None(decoding, StaleHere)

FifoInv == OneRuns /\ EventsOld /\ OldFirst

LEMMA AppendSettled ==
  ASSUME NEW q \in Seq(Event), NEW e \in Event, NEW S, NEW T, Settled(q, S, T),
         e \notin T \/ None(q, S)
  PROVE  Settled(Append(q, e), S, T)
<1> HIDE DEF Event
<1> DEFINE r == Append(q, e)
<1>1. /\ Len(q) \in Nat /\ Len(r) = Len(q) + 1
      /\ \A k \in 1..Len(q) : r[k] = q[k]
      /\ r[Len(q) + 1] = e
  BY AppendProperties, LenProperties
<1> HIDE DEF r
<1>2. ASSUME NEW m \in 1..Len(r), NEW n \in 1..Len(r), m < n, r[m] \in S
      PROVE  r[n] \notin T
  <2>1. m \in 1..Len(q) /\ r[m] = q[m]
    BY <1>1, <1>2
  <2>2. CASE n \in 1..Len(q)
    BY <1>1, <1>2, <2>1, <2>2 DEF Settled
  <2>3. CASE n \notin 1..Len(q)
    <3>1. r[n] = e
      <4>1. n = Len(q) + 1
        BY <1>1, <2>3
      <4>. QED BY <1>1, <4>1
    <3>2. q[m] \in Range(q)
      BY <2>1, LenProperties DEF Range
    <3>. QED BY <1>2, <2>1, <3>1, <3>2 DEF None
  <2>. QED BY <2>2, <2>3
<1>. QED BY <1>2 DEF Settled, r

LEMMA TailSettled ==
  ASSUME NEW q \in Seq(Event), q # <<>>, NEW S, NEW T, Settled(q, S, T)
  PROVE  /\ Settled(Tail(q), S, T)
         /\ Head(q) \in S => None(Tail(q), T)
<1> HIDE DEF Event
<1> DEFINE r == Tail(q)
<1>1. /\ Len(q) \in Nat /\ Len(q) > 0 /\ Len(r) = Len(q) - 1
      /\ \A k \in 1..Len(r) : r[k] = q[k + 1]
      /\ Head(q) = q[1] /\ DOMAIN r = 1..Len(r)
  BY HeadTailProperties, LenProperties
<1> HIDE DEF r
<1>2. \A k \in 1..Len(r) : k + 1 \in 1..Len(q) /\ r[k] = q[k + 1] /\ 1 < k + 1
  BY <1>1
<1>3. ASSUME NEW m \in 1..Len(r), NEW n \in 1..Len(r), m < n, r[m] \in S
      PROVE  r[n] \notin T
  <2>1. m + 1 < n + 1
    BY <1>3
  <2>. QED BY <1>2, <1>3, <2>1 DEF Settled
<1>4. ASSUME Head(q) \in S PROVE None(r, T)
  <2>1. ASSUME NEW n \in 1..Len(r) PROVE r[n] \notin T
    <3>1. 1 \in 1..Len(q)
      BY <1>1
    <3>. QED BY <1>1, <1>2, <1>4, <3>1 DEF Settled
  <2>. QED BY <1>1, <2>1 DEF None, Range
<1>. QED BY <1>3, <1>4 DEF Settled, r

LEMMA FewerNone ==
  ASSUME NEW q, NEW r, Range(r) \subseteq Range(q), NEW S, None(q, S)
  PROVE  None(r, S)
BY DEF None

\* A decoding is appended.
LEMMA AppendNone ==
  ASSUME NEW q \in Seq(Event), NEW e \in Event, NEW S
  PROVE  None(q, S) /\ e \notin S => None(Append(q, e), S)
<1>1. \A d \in Range(Append(q, e)) : d \in Range(q) \/ d = e
  BY AppendEvent
<1>. QED BY <1>1 DEF None

\* Removing the first element.
LEMMA RemoveHead ==
  ASSUME NEW q \in Seq(Event), q # <<>>
  PROVE  RemoveAt(q, 1) = Tail(q) /\ q[1] = Head(q)
<1> HIDE DEF Event
<1>1. SubSeq(q, 1, 0) = <<>> /\ Tail(q) = SubSeq(q, 2, Len(q)) /\ q[1] = Head(q)
  OBVIOUS
<1>2. RemoveAt(q, 1) = <<>> \o SubSeq(q, 2, Len(q))
  BY <1>1 DEF RemoveAt
<1>3. SubSeq(q, 2, Len(q)) \in Seq(Event)
  <2>1. Tail(q) \in Seq(Event)
    BY HeadTailProperties
  <2>. QED BY <1>1, <2>1
<1>. QED BY <1>1, <1>2, <1>3, ConcatEmptySeq

\* A step of the worker thread, whose report goes to the end of the queue.
LEMMA ReportFifo ==
  ASSUME TypeOK, FifoInv, NEW i \in Sessions,
         \/ queue' = queue
         \/ /\ conn[i] = "up"
            /\ \E shape \in Shapes \cup {Clear}, n \in 0..MaxPayloads :
                 queue' = Append(queue, Report(i, shape, n)),
         \A j \in Sessions : conn'[j] = conn[j] \/ (j = i /\ j = session)
                             \/ (conn'[j] = "down" /\ conn[j] = "up"),
         UNCHANGED ui
  PROVE  FifoInv'
<1>0. /\ queue \in Seq(Event) /\ decoding \in Seq(Event) /\ session \in Nat
      /\ UNCHANGED <<addr, session, page, decoding, overlay>>
  BY CounterTypes DEF TypeOK, ui
<1>1. OneRuns'
  <2>1. \A j \in Sessions : j > session => conn'[j] = "none"
    <3> TAKE j \in Sessions
    <3>1. j > session => j # session
      BY <1>0 DEF Sessions
    <3>. QED BY <3>1 DEF FifoInv, OneRuns
  <2>2. \A j \in Sessions : j # session /\ addr[j] = addr[session] => conn'[j] # "up"
    BY DEF FifoInv, OneRuns
  <2>. QED BY <1>0, <2>1, <2>2 DEF OneRuns
<1>2. Own' = Own /\ Stale' = Stale /\ OwnHere' = OwnHere /\ StaleHere' = StaleHere
  BY <1>0 DEF Own, Stale, OwnHere, StaleHere
<1>3. CASE queue' = queue
  <2>1. EventsOld' /\ OldFirst'
    BY <1>0, <1>2, <1>3, Zenon DEF FifoInv, EventsOld, OldFirst
  <2>. QED BY <1>1, <2>1 DEF FifoInv
<1>4. ASSUME NEW shape \in Shapes \cup {Clear}, NEW n \in 0..MaxPayloads, conn[i] = "up",
             queue' = Append(queue, Report(i, shape, n))
      PROVE  FifoInv'
  <2> DEFINE e == Report(i, shape, n)
  <2>1. e \in Event /\ e.inst = i
    BY ReportType
  <2> HIDE DEF e
  <2>2. queue' = Append(queue, e)
    BY <1>4 DEF e
  <2>3. e.inst <= session /\ e \notin Stale
    <3>1. ~(i > session) /\ i \in Nat
      BY <1>4 DEF FifoInv, OneRuns, Sessions
    <3>2. e \notin Stale
      BY <1>4, <2>1 DEF FifoInv, OneRuns, Stale
    <3>. QED BY <1>0, <2>1, <3>1, <3>2
  <2>4. \A d \in Range(queue') : d \in Range(queue) \/ d = e
    <3> HIDE DEF Event
    <3>. QED BY <1>0, <2>1, <2>2, AppendEvent
  <2>5. EventsOld'
    BY <1>0, <1>2, <2>3, <2>4 DEF FifoInv, EventsOld
  <2>6. Settled(queue', Own, Stale)
    <3> HIDE DEF Event
    <3>. QED BY <1>0, <2>1, <2>2, <2>3, AppendSettled DEF FifoInv, OldFirst
  <2>7. None(queue, Stale) => None(queue', Stale)
    BY <2>3, <2>4 DEF None
  <2>8. OldFirst'
    BY <1>0, <1>2, <2>6, <2>7 DEF FifoInv, OldFirst
  <2>. QED BY <1>1, <2>5, <2>8 DEF FifoInv
<1>. QED BY <1>3, <1>4

LEMMA WorkerFifo ==
  ASSUME TypeOK, FifoInv, NEW i \in Sessions,
         \/ Connect(i) \/ UpdateSystem(i) \/ Teardown(i)
         \/ \E p \in Shapes : UpdateNew(i, p) \/ UpdateCached(i, p)
  PROVE  FifoInv'
<1>0. conn \in [Sessions -> {"none", "up", "down"}] /\ posted \in Nat /\ MaxPayloads \in Nat
  BY CounterTypes, BoundTypes DEF TypeOK
<1>1. ASSUME NEW shape \in Shapes \cup {Clear}, Post(i, shape)
      PROVE  \/ queue' = queue
             \/ \E s \in Shapes \cup {Clear}, n \in 0..MaxPayloads :
                  queue' = Append(queue, Report(i, s, n))
  <2>1. 0 \in 0..MaxPayloads /\ (posted < MaxPayloads => posted + 1 \in 0..MaxPayloads)
    BY <1>0
  <2>2. \/ queue' = Append(queue, Report(i, shape, 0))
        \/ posted < MaxPayloads /\ queue' = Append(queue, Report(i, shape, posted + 1))
        \/ queue' = queue
    BY <1>1 DEF Post
  <2>. QED BY <1>1, <2>1, <2>2
<1>2. CASE Connect(i)
  <2>1. i = session /\ queue' = queue /\ UNCHANGED ui
        /\ \A j \in Sessions : j # i => conn'[j] = conn[j]
    BY <1>0, <1>2 DEF Connect, bridge
  <2>. QED BY <2>1, ReportFifo
<1>3. CASE Teardown(i)
  <2>1. /\ conn[i] = "up" /\ Post(i, Clear) /\ UNCHANGED ui
        /\ conn'[i] = "down" /\ \A j \in Sessions : j # i => conn'[j] = conn[j]
    BY <1>0, <1>3 DEF Teardown, ClearCursorShape
  <2>2. \A j \in Sessions : conn'[j] = conn[j] \/ (conn'[j] = "down" /\ conn[j] = "up")
    BY <2>1
  <2>3. Clear \in Shapes \cup {Clear}
    OBVIOUS
  <2>. QED BY <1>1, <2>1, <2>2, <2>3, ReportFifo
<1>4. CASE UpdateSystem(i)
  <2>1. conn[i] = "up" /\ Post(i, Clear) /\ UNCHANGED <<conn, ui>>
    BY <1>4 DEF UpdateSystem, Update, ClearCursorShape
  <2>2. Clear \in Shapes \cup {Clear}
    OBVIOUS
  <2>. QED BY <1>1, <2>1, <2>2, ReportFifo
<1>5. ASSUME NEW p \in Shapes, UpdateNew(i, p) \/ UpdateCached(i, p)
      PROVE  FifoInv'
  <2>1. PICK bitmap \in BOOLEAN : PointerSet(i, p, bitmap)
    BY <1>5 DEF UpdateNew, UpdateCached
  <2>2. \/ Post(i, IF bitmap THEN p ELSE Clear)
        \/ UNCHANGED <<queue, posted, failures>>
    BY <2>1, PointerSetPosts
  <2>3. conn[i] = "up" /\ UNCHANGED <<conn, ui>>
    BY <1>5 DEF UpdateNew, UpdateCached, Update
  <2>4. (IF bitmap THEN p ELSE Clear) \in Shapes \cup {Clear}
    OBVIOUS
  <2>. QED BY <1>1, <2>2, <2>3, <2>4, ReportFifo
<1>. QED BY <1>2, <1>3, <1>4, <1>5

\* The page's test, for the first event of the queue.
LEMMA PageTest ==
  ASSUME NEW e \in Event
  PROVE  addr[session] = addr[e.inst] <=> e \in Own \cup Stale
BY DEF Own, Stale

LEMMA DeliverFifo ==
  ASSUME TypeOK, FifoInv, Deliver
  PROVE  /\ FifoInv'
         /\ overlay.of = session => overlay'.of = session
<1> DEFINE e == Head(queue)
           d == Decoded(e)
<1>1. /\ queue # <<>> /\ queue' = Tail(queue) /\ queue \in Seq(Event) /\ decoding \in Seq(Event)
      /\ UNCHANGED <<conn, addr, session, page>> /\ session \in Nat
  BY CounterTypes DEF Deliver, worker, TypeOK
<1>2. /\ e \in Event /\ e \in Range(queue) /\ Range(queue') \subseteq Range(queue)
  BY <1>1, TailEvents
<1>3. /\ d \in Event /\ d.inst = e.inst /\ d.page = session
  BY <1>2, DecodeType
<1>4. PICK arrives \in BOOLEAN : OnCursorShapeChanged(e, arrives)
  BY DEF Deliver
<1>5. e.inst \in Sessions /\ e.inst <= session
  BY <1>1, <1>2, EventsAreTyped DEF FifoInv, EventsOld
<1> HIDE DEF e, d
<1>6. Own' = Own /\ Stale' = Stale /\ OwnHere' = OwnHere /\ StaleHere' = StaleHere
  BY <1>1 DEF Own, Stale, OwnHere, StaleHere
<1>7. (d \in OwnHere <=> e \in Own) /\ (d \in StaleHere <=> e \in Stale)
  BY <1>2, <1>3 DEF Own, Stale, OwnHere, StaleHere
<1>8. OneRuns'
  BY <1>1 DEF FifoInv, OneRuns
<1>9. /\ Settled(queue', Own, Stale)
      /\ e \in Own => None(queue', Stale)
      /\ None(queue, Stale) => None(queue', Stale) /\ e \notin Stale
  <2>1. Settled(queue, Own, Stale)
    BY DEF FifoInv, OldFirst
  <2>2. None(queue, Stale) => None(queue', Stale) /\ e \notin Stale
    BY <1>2 DEF None
  <2> HIDE DEF Event
  <2>. QED BY <1>1, <2>1, <2>2, TailSettled DEF e
<1>10. e \in Stale => overlay.of # session /\ None(decoding, OwnHere)
  BY <1>9 DEF FifoInv, OldFirst
<1>11. \/ decoding' = decoding /\ overlay' = overlay
       \/ e \in Own \cup Stale /\ decoding' = Append(decoding, d) /\ overlay' = overlay
       \/ e \in Own \cup Stale /\ decoding' = decoding /\ Show(e.inst, Clear)
  <2>1. addr[session] = addr[e.inst] <=> e \in Own \cup Stale
    BY <1>2, PageTest
  <2>. QED BY <1>4, <2>1 DEF OnCursorShapeChanged, Decode, Decoded, d
<1>12. CASE decoding' = decoding /\ overlay' = overlay
  <2>1. EventsOld'
    BY <1>1, <1>2, <1>6, <1>12 DEF FifoInv, EventsOld
  <2>2. OldFirst'
    BY <1>1, <1>6, <1>9, <1>12, Zenon DEF FifoInv, OldFirst
  <2>. QED BY <1>8, <1>12, <2>1, <2>2 DEF FifoInv
<1>13. CASE e \in Own \cup Stale /\ decoding' = Append(decoding, d) /\ overlay' = overlay
  <2>1. \A c \in Range(decoding') : c \in Range(decoding) \/ c = d
    <3> HIDE DEF Event
    <3>. QED BY <1>1, <1>3, <1>13, AppendEvent
  <2>2. d.inst <= d.page /\ d.page <= session /\ d \in OwnHere \cup StaleHere
    BY <1>1, <1>3, <1>5, <1>7, <1>13
  <2>3. EventsOld'
    BY <1>1, <1>2, <1>6, <2>1, <2>2 DEF FifoInv, EventsOld
  <2>4. d \notin StaleHere \/ None(decoding, OwnHere)
    BY <1>7, <1>10
  <2>5. Settled(decoding', OwnHere, StaleHere)
    <3>1. Settled(decoding, OwnHere, StaleHere)
      BY DEF FifoInv, OldFirst
    <3> HIDE DEF Event
    <3>. QED BY <1>1, <1>3, <1>13, <2>4, <3>1, AppendSettled
  <2>6. overlay.of = session \/ ~None(decoding', OwnHere) => None(queue', Stale)
    <3>1. ~None(decoding', OwnHere) => ~None(decoding, OwnHere) \/ d \in OwnHere
      BY <2>1 DEF None
    <3>. QED BY <1>7, <1>9, <3>1 DEF FifoInv, OldFirst
  <2>7. overlay.of = session /\ overlay.shape # Clear => None(decoding', StaleHere)
    <3>1. None(decoding, StaleHere) /\ d \notin StaleHere => None(decoding', StaleHere)
      BY <2>1 DEF None
    <3>. QED BY <1>7, <1>10, <3>1 DEF FifoInv, OldFirst
  <2>8. OldFirst'
    BY <1>1, <1>6, <1>9, <1>13, <2>5, <2>6, <2>7, Zenon DEF OldFirst
  <2>. QED BY <1>8, <1>13, <2>3, <2>8 DEF FifoInv
<1>14. CASE e \in Own \cup Stale /\ decoding' = decoding /\ Show(e.inst, Clear)
  <2>1. EventsOld'
    BY <1>1, <1>2, <1>6, <1>14 DEF FifoInv, EventsOld
  <2>2. overlay'.of = e.inst /\ overlay'.shape = Clear
    BY <1>5, <1>14, ShowType
  <2>3. overlay'.of = session => e \in Own
    BY <1>2, <2>2 DEF Own
  <2>4. overlay.of = session => e \in Own
    BY <1>10, <1>14
  <2>5. overlay'.of = session \/ ~None(decoding, OwnHere) => None(queue', Stale)
    BY <1>9, <2>3 DEF FifoInv, OldFirst
  <2>6. Settled(decoding, OwnHere, StaleHere)
    BY DEF FifoInv, OldFirst
  <2>7. OldFirst'
    BY <1>1, <1>6, <1>9, <1>14, <2>2, <2>5, <2>6, Zenon DEF OldFirst
  <2>8. overlay.of = session => overlay'.of = session
    BY <2>2, <2>4 DEF Own
  <2>. QED BY <1>8, <2>1, <2>7, <2>8 DEF FifoInv
<1>. QED BY <1>11, <1>12, <1>13, <1>14

LEMMA DecodeFifo ==
  ASSUME InOrder, TypeOK, FifoInv, DecodeEnds
  PROVE  /\ FifoInv'
         /\ overlay.of = session /\ overlay.shape # Clear => overlay'.of = session
<1> DEFINE d == Head(decoding)
<1>1. PICK k \in 1..Len(decoding) :
        /\ k = 1 /\ decoding # <<>> /\ decoding' = RemoveAt(decoding, k)
        /\ \/ /\ session = decoding[k].page
              /\ Show(decoding[k].inst, decoding[k].shape)
           \/ overlay' = overlay
        /\ UNCHANGED <<worker, bridge, addr, session, page, updates>>
  BY DecodeStep
<1>2. decoding \in Seq(Event)
  BY DEF TypeOK
<1>3. /\ decoding' = Tail(decoding)
      /\ (session = d.page /\ Show(d.inst, d.shape)) \/ overlay' = overlay
  <2>1. RemoveAt(decoding, 1) = Tail(decoding) /\ decoding[1] = d
    BY <1>1, <1>2, RemoveHead
  <2>. QED BY <1>1, <2>1
<1>4. UNCHANGED <<conn, queue, addr, session, page>>
  BY <1>1 DEF worker, bridge
<1>5. /\ d \in Event /\ d \in Range(decoding) /\ Range(decoding') \subseteq Range(decoding)
  BY <1>1, <1>2, <1>3, TailEvents
<1>6. d.inst \in Sessions /\ d.shape \in Shapes \cup {Clear}
  BY <1>2, <1>5, EventsAreTyped
<1>7. Own' = Own /\ Stale' = Stale /\ OwnHere' = OwnHere /\ StaleHere' = StaleHere
  BY <1>4 DEF Own, Stale, OwnHere, StaleHere
<1>8. /\ Settled(decoding', OwnHere, StaleHere)
      /\ d \in OwnHere => None(decoding', StaleHere)
  <2>1. Settled(decoding, OwnHere, StaleHere)
    BY DEF FifoInv, OldFirst
  <2> HIDE DEF Event
  <2>. QED BY <1>1, <1>2, <1>3, <2>1, TailSettled
<1>9. d.page = session => d \in OwnHere \cup StaleHere
  BY <1>5 DEF FifoInv, EventsOld
<1> HIDE DEF d
<1>10. OneRuns' /\ EventsOld'
  <2>1. OneRuns'
    BY <1>4 DEF FifoInv, OneRuns
  <2>2. EventsOld'
    BY <1>4, <1>5, <1>7 DEF FifoInv, EventsOld
  <2>. QED BY <2>1, <2>2
<1>11. None(decoding, OwnHere) => None(decoding', OwnHere)
  BY <1>5, FewerNone
<1>12. None(decoding, StaleHere) => None(decoding', StaleHere) /\ d \notin StaleHere
  BY <1>5 DEF None
<1>13. CASE overlay' = overlay
  <2>1. OldFirst'
    BY <1>4, <1>7, <1>8, <1>11, <1>12, <1>13, Zenon DEF FifoInv, OldFirst
  <2>. QED BY <1>10, <1>13, <2>1 DEF FifoInv
<1>14. CASE session = d.page /\ Show(d.inst, d.shape)
  <2>1. overlay'.of = d.inst
    BY <1>6, <1>14, ShowType
  <2>2. d.inst = session => d \in OwnHere
    BY <1>5, <1>14 DEF OwnHere, Own
  <2>3. d \in OwnHere => ~None(decoding, OwnHere)
    BY <1>5 DEF None
  <2>4. overlay'.of = session \/ ~None(decoding', OwnHere) => None(queue, Stale)
    BY <1>11, <2>1, <2>2, <2>3 DEF FifoInv, OldFirst
  <2>5. overlay'.of = session => None(decoding', StaleHere)
    BY <1>8, <2>1, <2>2
  <2>6. Settled(queue, Own, Stale)
    BY DEF FifoInv, OldFirst
  <2>7. OldFirst'
    BY <1>4, <1>7, <1>8, <2>4, <2>5, <2>6, Zenon DEF OldFirst
  <2>8. overlay.of = session /\ overlay.shape # Clear => d \in OwnHere
    BY <1>9, <1>12, <1>14 DEF FifoInv, OldFirst
  <2>9. d \in OwnHere => d.inst = session
    BY DEF OwnHere, Own
  <2>. QED BY <1>10, <2>1, <2>7, <2>8, <2>9 DEF FifoInv
<1>. QED BY <1>3, <1>13, <1>14

LEMMA PageFifo ==
  ASSUME TypeOK, FifoInv, ClosePage \/ \E a \in Sessions : OpenPage(a)
  PROVE  FifoInv'
<1>0. session \in Nat /\ queue \in Seq(Event) /\ decoding \in Seq(Event)
  BY CounterTypes DEF TypeOK
<1>1. ASSUME NEW a \in Sessions, OpenPage(a)
      PROVE  FifoInv'
  <2>1. /\ session' = session + 1 /\ session' \in Sessions
        /\ \A j \in Sessions : j # session' => addr'[j] = addr[j]
        /\ addr'[session'] = a
        /\ \A j \in Sessions : j <= session /\ addr[j] = a => conn[j] # "up"
        /\ overlay' = Nothing
        /\ UNCHANGED <<conn, queue, decoding>>
    BY <1>1, OpenStep DEF worker, bridge
  <2>2. \A j \in Sessions : j > session => conn[j] = "none"
    BY DEF FifoInv, OneRuns
  <2>3. OneRuns'
    <3>1. \A j \in Sessions : j > session' => conn'[j] = "none"
      <4>1. \A j \in Sessions : j > session' => j > session
        BY <1>0, <2>1 DEF Sessions
      <4>. QED BY <2>1, <2>2, <4>1
    <3>2. ASSUME NEW j \in Sessions, j # session', addr'[j] = addr'[session'] PROVE conn'[j] # "up"
      <4>1. addr[j] = a
        BY <2>1, <3>2
      <4>2. j <= session \/ j > session
        BY <1>0 DEF Sessions
      <4>. QED BY <2>1, <2>2, <4>1, <4>2
    <3>. QED BY <3>1, <3>2 DEF OneRuns
  <2>4. /\ \A e \in Range(queue) : e.inst <= session'
        /\ \A e \in Range(queue) : e.inst # session'
        /\ \A e \in Range(decoding) : e.inst <= e.page /\ e.page <= session'
        /\ \A e \in Range(decoding) : e.page # session'
    <3>1. ASSUME NEW e \in Range(queue) PROVE e.inst <= session' /\ e.inst # session'
      <4>1. e.inst \in Sessions /\ e.inst <= session
        BY <1>0, EventsAreTyped DEF FifoInv, EventsOld
      <4>2. \A n \in Sessions : n <= session => n <= session' /\ n # session'
        BY <1>0, <2>1 DEF Sessions
      <4>. QED BY <4>1, <4>2
    <3>2. ASSUME NEW e \in Range(decoding)
          PROVE  e.inst <= e.page /\ e.page <= session' /\ e.page # session'
      <4>1. e.page \in 0..MaxSessions /\ e.inst <= e.page /\ e.page <= session
        BY <1>0, EventsAreTyped DEF FifoInv, EventsOld
      <4>2. \A n \in 0..MaxSessions : n <= session => n <= session' /\ n # session'
        BY <1>0, <2>1, BoundTypes
      <4>. QED BY <4>1, <4>2
    <3>. QED BY <3>1, <3>2
  <2>5. EventsOld'
    BY <2>1, <2>4 DEF EventsOld
  <2>6. None(queue', Own') /\ None(decoding', OwnHere') /\ None(decoding', StaleHere')
    BY <2>1, <2>4 DEF None, Own, Stale, OwnHere, StaleHere
  <2>7. overlay'.of # session'
    <3>1. overlay'.of = 0
      BY <2>1, NothingType
    <3>. QED BY <1>0, <2>1, <3>1
  <2>8. \A n \in 1..Len(queue') : queue'[n] \notin Own'
    BY <1>0, <2>1, <2>6, LenProperties DEF None, Range
  <2>9. \A n \in 1..Len(decoding') : decoding'[n] \notin OwnHere'
    BY <1>0, <2>1, <2>6, LenProperties DEF None, Range
  <2>10. OldFirst'
    BY <2>6, <2>7, <2>8, <2>9 DEF OldFirst, Settled
  <2>. QED BY <2>3, <2>5, <2>10 DEF FifoInv
<1>2. CASE ClosePage
  <2>1. /\ UNCHANGED <<conn, queue, decoding, addr, session>> /\ overlay' = Nothing
    BY <1>2 DEF ClosePage, worker, bridge
  <2>2. Own' = Own /\ Stale' = Stale /\ OwnHere' = OwnHere /\ StaleHere' = StaleHere
    BY <2>1 DEF Own, Stale, OwnHere, StaleHere
  <2>3. OneRuns' /\ EventsOld'
    BY <2>1, <2>2, Zenon DEF FifoInv, OneRuns, EventsOld
  <2>4. overlay'.of = 0 /\ overlay'.shape = Clear
    BY <2>1, NothingType
  <2>5. session = 0 => None(queue, Stale)
    <3> SUFFICES ASSUME session = 0, NEW e \in Range(queue) PROVE FALSE
      BY DEF None
    <3>1. e.inst \in Sessions /\ e.inst <= 0
      BY <1>0, EventsAreTyped DEF FifoInv, EventsOld
    <3>. QED BY <3>1 DEF Sessions
  <2>6. OldFirst'
    BY <2>1, <2>2, <2>4, <2>5, Zenon DEF FifoInv, OldFirst
  <2>. QED BY <2>3, <2>6 DEF FifoInv
<1>. QED BY <1>1, <1>2

LEMMA StillFifo ==
  ASSUME FifoInv, UNCHANGED <<conn, queue, ui>>
  PROVE  FifoInv'
<1>1. UNCHANGED <<conn, queue, addr, session, decoding, overlay>>
  BY DEF ui
<1>2. Own' = Own /\ Stale' = Stale /\ OwnHere' = OwnHere /\ StaleHere' = StaleHere
  BY <1>1 DEF Own, Stale, OwnHere, StaleHere
<1>. QED BY <1>1, <1>2, Zenon DEF FifoInv, OneRuns, EventsOld, OldFirst

\* Steps of which the queue and the page know nothing.
LEMMA OtherFifo ==
  ASSUME TypeOK, FifoInv, (\E n \in Payloads : Collect(n)) \/ UNCHANGED vars
  PROVE  FifoInv' /\ UNCHANGED ui
<1>1. UNCHANGED <<conn, queue, ui>>
  BY DEF Collect, vars, worker, bridge
<1>. QED BY <1>1, StillFifo

LEMMA FifoInductive ==
  ASSUME InOrder
  PROVE  Spec => []FifoInv
<1>1. Init => FifoInv
  <2> SUFFICES ASSUME Init PROVE FifoInv
    OBVIOUS
  <2>1. /\ queue = <<>> /\ decoding = <<>> /\ Range(queue) = {} /\ Range(decoding) = {}
        /\ \A j \in Sessions : conn[j] = "none"
    BY NoEvents DEF Init
  <2>2. Len(queue) = 0 /\ Len(decoding) = 0
    BY <2>1
  <2>3. OneRuns /\ EventsOld
    BY <2>1 DEF OneRuns, EventsOld
  <2>4. OldFirst
    BY <2>1, <2>2 DEF OldFirst, Settled, None
  <2>. QED BY <2>3, <2>4 DEF FifoInv
<1>2. IInv /\ FifoInv /\ [Next]_vars => FifoInv'
  <2> SUFFICES ASSUME IInv, FifoInv, [Next]_vars PROVE FifoInv'
    OBVIOUS
  <2>0. TypeOK
    BY DEF IInv
  <2>. QED BY <2>0, WorkerFifo, DeliverFifo, DecodeFifo, PageFifo, OtherFifo DEF Next
<1>. QED BY <1>1, <1>2, Inductive, PTL DEF Spec

\* Once a page shows a cursor of its own session, no event of an earlier instance
\* at the same address replaces it or takes it away, for any number of sessions
\* at any addresses, if decodings end in order: such events were all posted before
\* the first of the page's own (the test of the instance in the page's callback,
\* which lets them through).
THEOREM OwnCursorAlwaysStays ==
  ASSUME InOrder
  PROVE  Spec => OwnCursorStays
<1> DEFINE Kept == page /\ page' /\ overlay.of = session /\ overlay.shape # Clear
                     => overlay'.of = session
<1>1. IInv /\ FifoInv /\ [Next]_vars => [Kept]_vars
  <2> SUFFICES ASSUME IInv, FifoInv, Next, page, page', overlay.of = session,
                      overlay.shape # Clear
               PROVE  overlay'.of = session
    OBVIOUS
  <2>0. TypeOK
    BY DEF IInv
  <2>1. ASSUME NEW i \in Sessions,
               \/ Connect(i) \/ UpdateSystem(i) \/ Teardown(i)
               \/ \E p \in Shapes : UpdateNew(i, p) \/ UpdateCached(i, p)
        PROVE  overlay'.of = session
    <3>1. UNCHANGED ui
      BY <2>1 DEF Connect, UpdateSystem, Teardown, UpdateNew, UpdateCached, Update
    <3>. QED BY <3>1 DEF ui
  <2>2. CASE Deliver
    BY <2>0, <2>2, DeliverFifo
  <2>3. CASE DecodeEnds
    BY <2>0, <2>3, DecodeFifo
  <2>4. CASE ClosePage \/ \E a \in Sessions : OpenPage(a)
    BY <2>4 DEF ClosePage, OpenPage
  <2>5. ASSUME NEW n \in Payloads, Collect(n) PROVE overlay'.of = session
    BY <2>5 DEF Collect, ui
  <2>. QED BY <2>1, <2>2, <2>3, <2>4, <2>5 DEF Next
<1>2. Spec => [][Kept]_vars
  BY <1>1, Inductive, FifoInductive, PTL DEF Spec
<1>. QED BY <1>2 DEF OwnCursorStays

-----------------------------------------------------------------------------
(* The safety half of ShapeArrives.  Decodings end in order.                 *)

\* The shape that the server has left in place in the session of the open page.
Wanted(s) ==
  /\ failures = 0 /\ ~overlapped /\ page /\ conn[session] = "up"
  /\ pointer[session] = s /\ cache[session][s] = "bitmap"

NoneOf(q, i) == \A k \in 1..Len(q) : q[k].inst # i

\* The last event of session i in q is one of shape s.
LastOf(q, i, s) ==
  \E k \in 1..Len(q) :
    /\ q[k].inst = i /\ q[k].shape = s
    /\ \A j \in k + 1..Len(q) : q[j].inst # i

\* The shape is the last of its session in the queue; or the last one being
\* decoded, with nothing of the session behind it; or it is shown.
OnItsWay(s) ==
  \/ LastOf(queue, session, s)
  \/ /\ NoneOf(queue, session)
     /\ \/ LastOf(decoding, session, s)
        \/ NoneOf(decoding, session) /\ overlay = [of |-> session, shape |-> s]

WantedIsOnItsWay == \A s \in Shapes : Wanted(s) => OnItsWay(s)

\* What Pointer_Set compares with is the pointer of the one session there is, as
\* long as no two overlapped.
LastIsCurrent ==
  ~overlapped =>
    /\ \A i, j \in Sessions : conn[i] = "up" /\ conn[j] = "up" => i = j
    /\ \A i \in Sessions :
         conn[i] = "up" =>
           /\ last.of = pointer[i]
           /\ last.bitmap <=> pointer[i] \in Shapes /\ cache[i][pointer[i]] = "bitmap"
    /\ (\A i \in Sessions : conn[i] # "up") => last = [of |-> Clear, bitmap |-> FALSE]
    /\ \A i \in Sessions : conn[i] = "none" => pointer[i] = Clear
    /\ \A i \in Sessions : i > session => conn[i] = "none"

\* A shape has a bitmap to show.
ShapesCarry == \A e \in Range(queue) : e.shape # Clear => e.payload # 0

LEMMA AppendLast ==
  ASSUME NEW q \in Seq(Event), NEW e \in Event, NEW i
  PROVE  /\ e.inst = i => LastOf(Append(q, e), i, e.shape)
         /\ e.inst # i =>
              /\ NoneOf(q, i) => NoneOf(Append(q, e), i)
              /\ \A s : LastOf(q, i, s) => LastOf(Append(q, e), i, s)
<1> HIDE DEF Event
<1> DEFINE r == Append(q, e)
<1>1. /\ Len(q) \in Nat /\ Len(r) = Len(q) + 1
      /\ \A k \in 1..Len(q) : r[k] = q[k]
      /\ r[Len(q) + 1] = e
  BY AppendProperties, LenProperties
<1> HIDE DEF r
<1>2. \A k \in 1..Len(r) : \/ k \in 1..Len(q) /\ r[k] = q[k]
                           \/ k = Len(q) + 1 /\ r[k] = e
  BY <1>1
<1>3. ASSUME e.inst = i PROVE LastOf(r, i, e.shape)
  <2>1. Len(q) + 1 \in 1..Len(r) /\ (Len(q) + 1) + 1..Len(r) = {}
    BY <1>1
  <2>. QED BY <1>1, <1>3, <2>1 DEF LastOf
<1>4. ASSUME e.inst # i, NoneOf(q, i) PROVE NoneOf(r, i)
  BY <1>2, <1>4 DEF NoneOf
<1>5. ASSUME NEW s, e.inst # i, LastOf(q, i, s) PROVE LastOf(r, i, s)
  <2>1. PICK k \in 1..Len(q) : /\ q[k].inst = i /\ q[k].shape = s
                               /\ \A j \in k + 1..Len(q) : q[j].inst # i
    BY <1>5 DEF LastOf
  <2>2. k \in 1..Len(r) /\ r[k] = q[k]
    BY <1>1
  <2>3. ASSUME NEW j \in k + 1..Len(r) PROVE r[j].inst # i
    <3>1. j \in 1..Len(r) /\ (j \in 1..Len(q) => j \in k + 1..Len(q))
      BY <1>1
    <3>. QED BY <1>2, <1>5, <2>1, <3>1
  <2>. QED BY <2>1, <2>2, <2>3 DEF LastOf
<1>. QED BY <1>3, <1>4, <1>5 DEF r

LEMMA TailLast ==
  ASSUME NEW q \in Seq(Event), q # <<>>, NEW i
  PROVE  /\ NoneOf(q, i) => Head(q).inst # i /\ NoneOf(Tail(q), i)
         /\ \A s : LastOf(q, i, s) =>
                     \/ LastOf(Tail(q), i, s)
                     \/ Head(q).inst = i /\ Head(q).shape = s /\ NoneOf(Tail(q), i)
<1> HIDE DEF Event
<1> DEFINE r == Tail(q)
<1>1. /\ Len(q) \in Nat /\ Len(q) > 0 /\ Len(r) = Len(q) - 1
      /\ \A k \in 1..Len(r) : r[k] = q[k + 1]
      /\ Head(q) = q[1]
  BY HeadTailProperties
<1> HIDE DEF r
<1>2. 1 \in 1..Len(q) /\ \A k \in 1..Len(r) : k + 1 \in 1..Len(q) /\ r[k] = q[k + 1]
  BY <1>1
<1>3. ASSUME NoneOf(q, i) PROVE Head(q).inst # i /\ NoneOf(r, i)
  BY <1>1, <1>2, <1>3 DEF NoneOf
<1>4. ASSUME NEW s, LastOf(q, i, s)
      PROVE  LastOf(r, i, s) \/ (Head(q).inst = i /\ Head(q).shape = s /\ NoneOf(r, i))
  <2>1. PICK k \in 1..Len(q) : /\ q[k].inst = i /\ q[k].shape = s
                               /\ \A j \in k + 1..Len(q) : q[j].inst # i
    BY <1>4 DEF LastOf
  <2>2. ASSUME NEW j \in 1..Len(r), j + 1 \in k + 1..Len(q) PROVE r[j].inst # i
    BY <1>2, <2>1, <2>2
  <2>3. CASE k = 1
    <3>1. \A j \in 1..Len(r) : j + 1 \in k + 1..Len(q)
      BY <1>1, <2>3
    <3>2. NoneOf(r, i)
      BY <2>2, <3>1 DEF NoneOf
    <3>. QED BY <1>1, <2>1, <2>3, <3>2
  <2>4. CASE k # 1
    <3>1. k - 1 \in 1..Len(r) /\ (k - 1) + 1 = k
      BY <1>1, <2>4
    <3>2. r[k - 1].inst = i /\ r[k - 1].shape = s
      <4>1. r[k - 1] = q[(k - 1) + 1]
        BY <1>2, <3>1
      <4>. QED BY <2>1, <3>1, <4>1
    <3>3. ASSUME NEW j \in (k - 1) + 1..Len(r) PROVE r[j].inst # i
      <4>1. j \in 1..Len(r) /\ j + 1 \in k + 1..Len(q)
        BY <1>1, <3>1
      <4>. QED BY <2>2, <4>1
    <3>. QED BY <3>1, <3>2, <3>3 DEF LastOf
  <2>. QED BY <2>3, <2>4
<1>. QED BY <1>3, <1>4 DEF r

LEMMA NothingLast == \A i : NoneOf(<<>>, i) /\ \A s : ~LastOf(<<>>, i, s)
BY DEF NoneOf, LastOf

\* What the cursor shown depends on.
ShownInv == WantedIsOnItsWay /\ LastIsCurrent /\ ShapesCarry

\* A report by instance i: the last event of its session is of that shape.
LEMMA PostShown ==
  ASSUME TypeOK, ShapesCarry, NEW i \in Sessions, NEW shape \in Shapes \cup {Clear},
         Post(i, shape)
  PROVE  /\ ShapesCarry'
         /\ failures' = 0 => failures = 0 /\ LastOf(queue', i, shape)
<1>0. /\ queue \in Seq(Event) /\ posted \in 0..MaxPayloads /\ MaxPayloads \in Nat
      /\ failures \in Nat
  BY BoundTypes, CounterTypes DEF TypeOK
<1>1. ASSUME NEW e \in Event, e.inst = i, e.shape = shape,
             e.shape # Clear => e.payload # 0,
             queue' = Append(queue, e), failures' = failures
      PROVE  /\ ShapesCarry'
             /\ failures' = 0 => failures = 0 /\ LastOf(queue', i, shape)
  <2>1. \A d \in Range(queue') : d \in Range(queue) \/ d = e
    BY <1>0, <1>1, AppendEvent
  <2>2. ShapesCarry'
    BY <1>1, <2>1 DEF ShapesCarry
  <2>3. LastOf(queue', i, shape)
    BY <1>0, <1>1, AppendLast
  <2>. QED BY <1>1, <2>2, <2>3
<1>2. CASE shape = Clear /\ queue' = Append(queue, Report(i, Clear, 0))
           /\ UNCHANGED <<posted, failures>>
  <2> DEFINE e == Report(i, Clear, 0)
  <2>0. 0 \in 0..MaxPayloads
    BY <1>0
  <2>1. e \in Event /\ e.inst = i /\ e.shape = shape /\ e.shape = Clear
    BY <1>2, <2>0, ReportType
  <2> HIDE DEF e
  <2>2. queue' = Append(queue, e) /\ failures' = failures
    BY <1>2 DEF e
  <2>. QED BY <1>1, <2>1, <2>2
<1>3. CASE /\ posted < MaxPayloads
           /\ queue' = Append(queue, Report(i, shape, posted + 1))
           /\ UNCHANGED failures
  <2> DEFINE e == Report(i, shape, posted + 1)
  <2>0. posted + 1 \in 0..MaxPayloads /\ posted + 1 # 0
    BY <1>0, <1>3
  <2>1. e \in Event /\ e.inst = i /\ e.shape = shape /\ e.payload # 0
    BY <2>0, ReportType
  <2> HIDE DEF e
  <2>2. queue' = Append(queue, e) /\ failures' = failures
    BY <1>3 DEF e
  <2>. QED BY <1>1, <2>1, <2>2
<1>4. CASE Fails /\ UNCHANGED <<queue, posted>>
  <2>1. failures' # 0 /\ queue' = queue
    BY <1>0, <1>4 DEF Fails
  <2>. QED BY <2>1 DEF ShapesCarry
<1>. QED BY <1>2, <1>3, <1>4 DEF Post

\* The server sets the pointer p of instance i, with its bitmap or without.
Sets(i, p, bitmap) ==
  /\ conn[i] = "up"
  /\ pointer' = [pointer EXCEPT ![i] = p]
  /\ bitmap <=> p \in Shapes /\ cache'[i][p] = "bitmap"
  /\ \A j \in Sessions : j # i => cache'[j] = cache[j]
  /\ last' = [of |-> p, bitmap |-> bitmap]
  /\ \/ Post(i, IF bitmap THEN p ELSE Clear)
     \/ last' = last /\ UNCHANGED <<queue, failures>>
  /\ UNCHANGED <<conn, overlapped, ui>>

LEMMA UpdateSets ==
  ASSUME TypeOK, NEW i \in Sessions,
         UpdateSystem(i) \/ \E p \in Shapes : UpdateNew(i, p) \/ UpdateCached(i, p)
  PROVE  \E p \in Shapes \cup {Clear}, bitmap \in BOOLEAN : Sets(i, p, bitmap)
<1>0. /\ pointer \in [Sessions -> Shapes \cup {Clear}] /\ Clear \notin Shapes
      /\ cache \in [Sessions -> [Shapes -> {"none", "type only", "bitmap"}]]
  BY CursorAssumption DEF TypeOK
<1>1. CASE UpdateSystem(i)
  <2>1. Sets(i, Clear, FALSE)
    BY <1>0, <1>1 DEF UpdateSystem, Update, ClearCursorShape, Sets
  <2>. QED BY <2>1
<1>2. ASSUME NEW p \in Shapes, NEW bitmap \in BOOLEAN, Update(i, p), PointerSet(i, p, bitmap),
             bitmap <=> cache'[i][p] = "bitmap",
             \A j \in Sessions : j # i => cache'[j] = cache[j]
      PROVE  Sets(i, p, bitmap)
  <2>1. /\ conn[i] = "up" /\ pointer' = [pointer EXCEPT ![i] = p]
        /\ UNCHANGED <<conn, overlapped, ui>>
    BY <1>2 DEF Update
  <2>2. /\ last' = [of |-> p, bitmap |-> bitmap]
        /\ \/ Post(i, IF bitmap THEN p ELSE Clear)
           \/ last' = last /\ UNCHANGED <<queue, failures>>
    BY <1>2 DEF PointerSet
  <2>. QED BY <1>2, <2>1, <2>2, Zenon DEF Sets
<1>3. ASSUME NEW p \in Shapes, UpdateNew(i, p)
      PROVE  \E q \in Shapes \cup {Clear}, bitmap \in BOOLEAN : Sets(i, q, bitmap)
  <2>1. PICK kind \in {"type only", "bitmap"} :
           /\ cache' = [cache EXCEPT ![i][p] = kind]
           /\ PointerSet(i, p, kind = "bitmap")
    BY <1>3 DEF UpdateNew
  <2>2. /\ kind = "bitmap" <=> cache'[i][p] = "bitmap"
        /\ \A j \in Sessions : j # i => cache'[j] = cache[j]
    BY <1>0, <2>1
  <2>3. Sets(i, p, kind = "bitmap")
    BY <1>2, <1>3, <2>1, <2>2 DEF UpdateNew
  <2>4. (kind = "bitmap") \in BOOLEAN /\ p \in Shapes \cup {Clear}
    OBVIOUS
  <2>. QED BY <2>3, <2>4
<1>4. ASSUME NEW p \in Shapes, UpdateCached(i, p)
      PROVE  \E q \in Shapes \cup {Clear}, bitmap \in BOOLEAN : Sets(i, q, bitmap)
  <2>1. /\ cache' = cache /\ PointerSet(i, p, cache[i][p] = "bitmap") /\ Update(i, p)
    BY <1>4 DEF UpdateCached
  <2>2. Sets(i, p, cache[i][p] = "bitmap")
    BY <1>2, <2>1
  <2>3. (cache[i][p] = "bitmap") \in BOOLEAN /\ p \in Shapes \cup {Clear}
    OBVIOUS
  <2>. QED BY <2>2, <2>3
<1>. QED BY <1>1, <1>3, <1>4

LEMMA SetsShown ==
  ASSUME TypeOK, ShownInv, page => session # 0,
         NEW i \in Sessions, NEW p \in Shapes \cup {Clear}, NEW bitmap \in BOOLEAN,
         Sets(i, p, bitmap)
  PROVE  ShownInv'
<1>0. /\ pointer \in [Sessions -> Shapes \cup {Clear}] /\ Clear \notin Shapes
      /\ conn \in [Sessions -> {"none", "up", "down"}]
      /\ failures \in Nat /\ session \in Nat /\ session <= MaxSessions /\ MaxSessions \in Nat
  BY CursorAssumption, CounterTypes, BoundTypes DEF TypeOK
<1>1. /\ conn[i] = "up" /\ pointer' = [pointer EXCEPT ![i] = p]
      /\ bitmap <=> p \in Shapes /\ cache'[i][p] = "bitmap"
      /\ last' = [of |-> p, bitmap |-> bitmap]
      /\ conn' = conn /\ session' = session /\ page' = page
      /\ decoding' = decoding /\ overlay' = overlay /\ overlapped' = overlapped
  BY DEF Sets, ui
<1>2. ~overlapped => \A j \in Sessions : conn[j] = "up" => j = i
  BY <1>1 DEF ShownInv, LastIsCurrent
<1>3. last'.of = p /\ (last'.bitmap <=> bitmap) /\ pointer'[i] = p
  BY <1>0, <1>1
<1>4. LastIsCurrent'
  <2> SUFFICES ASSUME ~overlapped PROVE LastIsCurrent'
    BY <1>1 DEF LastIsCurrent
  <2>1. \A j \in Sessions : conn'[j] = "none" => pointer'[j] = Clear
    <3>1. \A j \in Sessions : conn'[j] = "none" => pointer[j] = Clear /\ j # i
      BY <1>1 DEF ShownInv, LastIsCurrent
    <3>. QED BY <1>0, <1>1, <3>1
  <2>2. \A j \in Sessions : j > session' => conn'[j] = "none"
    BY <1>1 DEF ShownInv, LastIsCurrent
  <2>3. \A j, k \in Sessions : conn'[j] = "up" /\ conn'[k] = "up" => j = k
    BY <1>1, <1>2
  <2>4. ASSUME NEW j \in Sessions, conn'[j] = "up"
        PROVE  /\ last'.of = pointer'[j]
               /\ last'.bitmap <=> pointer'[j] \in Shapes /\ cache'[j][pointer'[j]] = "bitmap"
    <3>1. j = i
      BY <1>1, <1>2, <2>4
    <3>2. last'.bitmap <=> p \in Shapes /\ cache'[i][p] = "bitmap"
      BY <1>1, <1>3
    <3>. QED BY <1>3, <3>1, <3>2
  <2>5. ~\A j \in Sessions : conn'[j] # "up"
    BY <1>1
  <2>. QED BY <2>1, <2>2, <2>3, <2>4, <2>5 DEF LastIsCurrent
<1>5. CASE Post(i, IF bitmap THEN p ELSE Clear)
  <2>1. (IF bitmap THEN p ELSE Clear) \in Shapes \cup {Clear}
    OBVIOUS
  <2>2. /\ ShapesCarry'
        /\ failures' = 0 => LastOf(queue', i, IF bitmap THEN p ELSE Clear)
    BY <1>5, <2>1, PostShown DEF ShownInv
  <2>3. ASSUME NEW s \in Shapes, Wanted(s)' PROVE OnItsWay(s)'
    <3>1. failures' = 0 /\ session' = i /\ p = s /\ bitmap
      <4>1. /\ failures' = 0 /\ ~overlapped /\ conn[session] = "up" /\ pointer'[session] = s
            /\ cache'[session][s] = "bitmap" /\ page
        BY <1>1, <2>3 DEF Wanted
      <4>2. session = i
        <5>1. session \in Sessions
          BY <1>0, <4>1 DEF Sessions
        <5>. QED BY <1>2, <4>1, <5>1
      <4>3. p = s
        BY <1>3, <4>1, <4>2
      <4>. QED BY <1>1, <4>1, <4>2, <4>3
    <3>2. LastOf(queue', session', s)
      BY <2>2, <3>1
    <3>. QED BY <3>2 DEF OnItsWay, LastOf
  <2>. QED BY <1>4, <2>2, <2>3 DEF ShownInv, WantedIsOnItsWay
<1>6. CASE last' = last /\ UNCHANGED <<queue, failures>>
  <2>1. ShapesCarry'
    BY <1>6 DEF ShownInv, ShapesCarry
  <2>2. ASSUME NEW s \in Shapes, Wanted(s)' PROVE OnItsWay(s)'
    <3>1. /\ failures = 0 /\ ~overlapped /\ conn[session] = "up" /\ pointer'[session] = s
          /\ cache'[session][s] = "bitmap" /\ page
      BY <1>1, <1>6, <2>2 DEF Wanted
    <3>2. session = i
      <4>1. session \in Sessions
        BY <1>0, <3>1 DEF Sessions
      <4>. QED BY <1>2, <3>1, <4>1
    <3>3. p = s /\ bitmap
      BY <1>1, <1>3, <3>1, <3>2
    <3>4. last.of = s /\ last.bitmap
      BY <1>3, <1>6, <3>3
    <3>5. pointer[i] = s /\ cache[i][s] = "bitmap"
      BY <1>1, <3>1, <3>4 DEF ShownInv, LastIsCurrent
    <3>6. Wanted(s)
      BY <3>1, <3>2, <3>5 DEF Wanted
    <3>7. OnItsWay(s)
      BY <3>6 DEF ShownInv, WantedIsOnItsWay
    <3>. QED BY <1>1, <1>6, <3>7 DEF OnItsWay, LastOf, NoneOf
  <2>. QED BY <1>4, <2>1, <2>2 DEF ShownInv, WantedIsOnItsWay
<1>. QED BY <1>5, <1>6 DEF Sets

\* A session begins or ends.
LEMMA SessionShown ==
  ASSUME TypeOK, ShownInv, page => session # 0,
         NEW i \in Sessions, Connect(i) \/ Teardown(i)
  PROVE  ShownInv'
<1>0. /\ pointer \in [Sessions -> Shapes \cup {Clear}] /\ Clear \notin Shapes
      /\ conn \in [Sessions -> {"none", "up", "down"}]
      /\ session \in Nat /\ session <= MaxSessions /\ MaxSessions \in Nat
      /\ page => session \in Sessions
  <2>1. /\ pointer \in [Sessions -> Shapes \cup {Clear}] /\ Clear \notin Shapes
        /\ conn \in [Sessions -> {"none", "up", "down"}]
    BY CursorAssumption DEF TypeOK
  <2>2. session \in Nat /\ session <= MaxSessions /\ MaxSessions \in Nat
    BY CounterTypes, BoundTypes
  <2>. QED BY <2>1, <2>2 DEF Sessions
<1>1. CASE Connect(i)
  <2>1. /\ session = i /\ conn[i] = "none" /\ conn' = [conn EXCEPT ![i] = "up"]
        /\ overlapped' = (overlapped \/ \E j \in Sessions : conn[j] = "up")
        /\ UNCHANGED <<pointer, cache, last, queue, page, session, failures>>
    BY <1>1 DEF Connect, bridge, ui
  <2>2. ASSUME ~overlapped'
        PROVE  LastIsCurrent' /\ \A s \in Shapes : ~Wanted(s)'
    <3>0. ~overlapped /\ \A j \in Sessions : conn[j] # "up"
      BY <2>1, <2>2
    <3>1. pointer[i] = Clear /\ last = [of |-> Clear, bitmap |-> FALSE]
      BY <2>1, <3>0 DEF ShownInv, LastIsCurrent
    <3>2. \A j \in Sessions : conn'[j] = "up" <=> j = i
      BY <1>0, <2>1, <3>0
    <3>3. last'.of = Clear /\ ~last'.bitmap /\ pointer' = pointer
      BY <2>1, <3>1
    <3>4. \A j \in Sessions :
            conn'[j] = "up" =>
              /\ last'.of = pointer'[j]
              /\ last'.bitmap <=> pointer'[j] \in Shapes /\ cache'[j][pointer'[j]] = "bitmap"
      BY <1>0, <3>1, <3>2, <3>3
    <3>5. \A j \in Sessions : conn'[j] = "none" => conn[j] = "none"
      BY <1>0, <2>1
    <3>6. \A j \in Sessions : j > session' => conn'[j] = "none"
      BY <1>0, <2>1, <3>0 DEF ShownInv, LastIsCurrent, Sessions
    <3>7. LastIsCurrent'
      BY <2>1, <3>0, <3>2, <3>4, <3>5, <3>6 DEF ShownInv, LastIsCurrent
    <3>8. \A s \in Shapes : ~Wanted(s)'
      BY <1>0, <2>1, <3>1 DEF Wanted
    <3>. QED BY <3>7, <3>8
  <2>3. overlapped' => LastIsCurrent' /\ \A s \in Shapes : ~Wanted(s)'
    BY DEF LastIsCurrent, Wanted
  <2>. QED BY <2>1, <2>2, <2>3 DEF ShownInv, WantedIsOnItsWay, ShapesCarry
<1>2. CASE Teardown(i)
  <2>1. /\ conn[i] = "up" /\ conn' = [conn EXCEPT ![i] = "down"]
        /\ last' = [of |-> Clear, bitmap |-> FALSE] /\ Post(i, Clear)
        /\ UNCHANGED <<pointer, overlapped, page, session>>
    BY <1>2 DEF Teardown, ClearCursorShape, ui
  <2>2. ASSUME ~overlapped'
        PROVE  LastIsCurrent' /\ \A s \in Shapes : ~Wanted(s)'
    <3>0. ~overlapped
      BY <2>1, <2>2
    <3>1. \A j \in Sessions : conn'[j] # "up" /\ (conn'[j] = "none" => conn[j] = "none")
      BY <1>0, <2>1, <3>0 DEF ShownInv, LastIsCurrent
    <3>2. \A j \in Sessions : j > session' => conn'[j] = "none"
      BY <1>0, <2>1, <3>0 DEF ShownInv, LastIsCurrent
    <3>3. LastIsCurrent'
      BY <2>1, <3>0, <3>1, <3>2 DEF ShownInv, LastIsCurrent
    <3>4. \A s \in Shapes : ~Wanted(s)'
      BY <1>0, <2>1, <3>1 DEF Wanted
    <3>. QED BY <3>3, <3>4
  <2>3. overlapped' => LastIsCurrent' /\ \A s \in Shapes : ~Wanted(s)'
    BY DEF LastIsCurrent, Wanted
  <2>4. ShapesCarry'
    <3>1. Clear \in Shapes \cup {Clear}
      OBVIOUS
    <3>. QED BY <2>1, <3>1, PostShown DEF ShownInv
  <2>. QED BY <2>2, <2>3, <2>4 DEF ShownInv, WantedIsOnItsWay
<1>. QED BY <1>1, <1>2

\* An event of the newest instance can only be decoded for the newest page.
LEMMA OwnAreHere ==
  ASSUME FifoInv, TypeOK, NEW k \in 1..Len(decoding)
  PROVE  /\ decoding[k] \in Range(decoding)
         /\ decoding[k].inst = session => decoding[k] \in OwnHere
<1>1. decoding \in Seq(Event) /\ session \in Nat
  BY CounterTypes DEF TypeOK
<1> DEFINE e == decoding[k]
<1>2. e \in Range(decoding)
  <2> HIDE DEF Event
  <2>1. k \in DOMAIN decoding
    BY <1>1, LenProperties
  <2>. QED BY <2>1 DEF Range
<1> HIDE DEF e
<1>3. e \in Event /\ e.page \in 0..MaxSessions /\ e.inst <= e.page /\ e.page <= session
  BY <1>1, <1>2, EventsAreTyped DEF FifoInv, EventsOld
<1>4. e.inst = session => e.page = session
  <2> DEFINE n == e.page
  <2>1. n \in 0..MaxSessions /\ n <= session /\ (e.inst = session => session <= n)
    BY <1>3
  <2> HIDE DEF n
  <2>2. session <= n => n = session
    BY <1>1, <2>1, BoundTypes
  <2>. QED BY <2>1, <2>2 DEF n
<1>5. e.inst = session => e \in OwnHere
  BY <1>3, <1>4 DEF OwnHere, Own
<1>. QED BY <1>2, <1>5 DEF e

\* The JS thread runs the next event.
LEMMA DeliverShown ==
  ASSUME TypeOK, ShownInv, FifoInv, Deliver
  PROVE  ShownInv'
<1> DEFINE e == Head(queue)
           d == Decoded(e)
<1>1. /\ queue # <<>> /\ queue' = Tail(queue) /\ queue \in Seq(Event) /\ decoding \in Seq(Event)
      /\ UNCHANGED <<conn, pointer, cache, last, overlapped, addr, session, page>>
      /\ failures \in Nat
  BY CounterTypes DEF Deliver, worker, TypeOK
<1>2. /\ e \in Event /\ e \in Range(queue) /\ Range(queue') \subseteq Range(queue)
  BY <1>1, TailEvents
<1>3. PICK arrives \in BOOLEAN : Wrap(e.payload, arrives) /\ OnCursorShapeChanged(e, arrives)
  BY DEF Deliver
<1>4. /\ NoneOf(queue, session) => e.inst # session /\ NoneOf(queue', session)
      /\ \A s : LastOf(queue, session, s) =>
                  \/ LastOf(queue', session, s)
                  \/ e.inst = session /\ e.shape = s /\ NoneOf(queue', session)
  BY <1>1, TailLast
<1>5. e.shape # Clear => e.payload # 0
  BY <1>2 DEF ShownInv, ShapesCarry
<1>6. d \in Event /\ d.inst = e.inst /\ d.shape = e.shape
  BY <1>2, DecodeType
<1>7. arrives => decoding' = Append(decoding, d) \/ decoding' = decoding
  BY <1>3 DEF OnCursorShapeChanged, Decode, Decoded
<1>8. page /\ arrives /\ addr[session] = addr[e.inst] => decoding' = Append(decoding, d)
  BY <1>3 DEF OnCursorShapeChanged, Decode, Decoded
<1>9. addr[session] # addr[e.inst] => decoding' = decoding /\ overlay' = overlay
  BY <1>3 DEF OnCursorShapeChanged
<1> HIDE DEF e, d
<1>10. LastIsCurrent' /\ ShapesCarry'
  BY <1>1, <1>2 DEF ShownInv, LastIsCurrent, ShapesCarry
<1>11. failures' = 0 => failures = 0 /\ (arrives <=> e.payload # 0)
  BY <1>1, <1>3 DEF Wrap, Fails
<1>12. ASSUME NEW s \in Shapes, Wanted(s)' PROVE OnItsWay(s)'
  <2>1. Wanted(s) /\ page /\ failures' = 0
    BY <1>1, <1>11, <1>12 DEF Wanted
  <2>2. OnItsWay(s)
    BY <2>1 DEF ShownInv, WantedIsOnItsWay
  <2>3. CASE LastOf(queue', session, s)
    BY <1>1, <2>3 DEF OnItsWay, LastOf
  <2>4. CASE e.inst = session /\ e.shape = s /\ NoneOf(queue', session)
    <3>1. arrives
      BY <1>5, <1>11, <2>1, <2>4, CursorAssumption
    <3>2. decoding' = Append(decoding, d)
      BY <1>8, <2>1, <2>4, <3>1
    <3>3. LastOf(decoding', session, s)
      BY <1>1, <1>6, <2>4, <3>2, AppendLast
    <3>. QED BY <1>1, <2>4, <3>3 DEF OnItsWay, LastOf, NoneOf
  <2>5. CASE NoneOf(queue, session)
    <3>1. e.inst # session /\ NoneOf(queue', session)
      BY <1>4, <2>5
    <3>2. ~LastOf(queue, session, s)
      BY <2>5 DEF LastOf, NoneOf
    <3>3. \/ LastOf(decoding, session, s)
          \/ NoneOf(decoding, session) /\ overlay = [of |-> session, shape |-> s]
      BY <2>2, <3>2 DEF OnItsWay
    <3>4. overlay.of = session \/ ~None(decoding, OwnHere)
      <4>1. CASE LastOf(decoding, session, s)
        <5>1. PICK k \in 1..Len(decoding) : decoding[k].inst = session
          BY <4>1 DEF LastOf
        <5>2. decoding[k] \in OwnHere /\ decoding[k] \in Range(decoding)
          BY <1>1, <5>1, OwnAreHere
        <5>. QED BY <5>2 DEF None
      <4>2. CASE overlay = [of |-> session, shape |-> s]
        BY <4>2
      <4>. QED BY <3>3, <4>1, <4>2
    <3>5. e \notin Stale
      BY <1>2, <3>4 DEF FifoInv, OldFirst, None
    <3>6. decoding' = decoding /\ overlay' = overlay
      BY <1>2, <1>9, <3>1, <3>5 DEF Stale
    <3>. QED BY <1>1, <3>1, <3>3, <3>6 DEF OnItsWay, LastOf, NoneOf
  <2>. QED BY <1>4, <2>2, <2>3, <2>4, <2>5 DEF OnItsWay
<1>. QED BY <1>10, <1>12 DEF ShownInv, WantedIsOnItsWay

\* A decoding ends: the first one, in order.
LEMMA DecodeShown ==
  ASSUME InOrder, TypeOK, ShownInv, FifoInv, DecodeEnds
  PROVE  ShownInv'
<1> DEFINE d == Head(decoding)
<1>0. PICK k \in 1..Len(decoding) :
        /\ k = 1 /\ decoding # <<>> /\ decoding' = RemoveAt(decoding, k)
        /\ \/ /\ page /\ session = decoding[k].page
              /\ Show(decoding[k].inst, decoding[k].shape) /\ failures' = failures
           \/ /\ ~(page /\ session = decoding[k].page)
              /\ overlay' = overlay /\ failures' = failures
           \/ Fails /\ overlay' = overlay
        /\ UNCHANGED <<worker, bridge, addr, session, page, updates>>
  BY DecodeStep
<1>1. /\ decoding # <<>> /\ decoding \in Seq(Event) /\ failures \in Nat
      /\ UNCHANGED <<conn, pointer, cache, last, overlapped, queue, session, page>>
  BY <1>0, CounterTypes DEF worker, bridge, TypeOK
<1>2. decoding' = Tail(decoding) /\ decoding[1] = d
  <2>1. RemoveAt(decoding, 1) = Tail(decoding) /\ decoding[1] = d
    BY <1>1, RemoveHead
  <2>. QED BY <1>0, <2>1
<1>3. failures' = 0 =>
        /\ failures = 0
        /\ \/ session = d.page /\ overlay' = [of |-> d.inst, shape |-> d.shape]
           \/ ~(page /\ session = d.page) /\ overlay' = overlay
  BY <1>0, <1>1, <1>2 DEF Fails, Show
<1>4. /\ NoneOf(decoding, session) => d.inst # session /\ NoneOf(decoding', session)
      /\ \A s : LastOf(decoding, session, s) =>
                  \/ LastOf(decoding', session, s)
                  \/ d.inst = session /\ d.shape = s /\ NoneOf(decoding', session)
  BY <1>1, <1>2, TailLast
<1>5. d \in Event /\ d \in Range(decoding) /\ (d.inst = session => d.page = session)
  <2>1. d \in Event /\ d \in Range(decoding)
    BY <1>1, TailEvents
  <2>2. d.inst = session => d \in OwnHere
    <3>1. 1 \in 1..Len(decoding)
      BY <1>0
    <3>. QED BY <1>1, <1>2, <3>1, OwnAreHere
  <2>. QED BY <2>1, <2>2 DEF OwnHere
<1> HIDE DEF d
<1>6. LastIsCurrent' /\ ShapesCarry'
  BY <1>1 DEF ShownInv, LastIsCurrent, ShapesCarry
<1>7. ASSUME NEW s \in Shapes, Wanted(s)' PROVE OnItsWay(s)'
  <2>1. Wanted(s) /\ page /\ failures' = 0
    BY <1>1, <1>3, <1>7 DEF Wanted
  <2>2. OnItsWay(s)
    BY <2>1 DEF ShownInv, WantedIsOnItsWay
  <2>3. CASE LastOf(queue, session, s)
    BY <1>1, <2>3 DEF OnItsWay, LastOf
  <2>4. ASSUME NoneOf(queue, session),
               \/ LastOf(decoding', session, s)
               \/ NoneOf(decoding', session) /\ overlay' = [of |-> session, shape |-> s]
        PROVE  OnItsWay(s)'
    BY <1>1, <2>4 DEF OnItsWay, LastOf, NoneOf
  <2>5. CASE NoneOf(queue, session) /\ LastOf(decoding, session, s)
    <3>1. d.inst = session /\ d.shape = s => overlay' = [of |-> session, shape |-> s]
      BY <1>3, <1>5, <2>1
    <3>. QED BY <1>4, <2>4, <2>5, <3>1
  <2>6. CASE /\ NoneOf(queue, session) /\ NoneOf(decoding, session)
             /\ overlay = [of |-> session, shape |-> s]
    <3>1. d.inst # session /\ NoneOf(decoding', session)
      BY <1>4, <2>6
    <3>2. overlay.of = session /\ overlay.shape # Clear
      BY <2>6, CursorAssumption
    <3>3. d.page # session
      <4>1. d.page = session => d \in OwnHere \cup StaleHere
        BY <1>5 DEF FifoInv, EventsOld
      <4>2. d \notin StaleHere
        BY <1>5, <3>2 DEF FifoInv, OldFirst, None
      <4>3. d \notin OwnHere
        BY <3>1 DEF OwnHere, Own
      <4>. QED BY <4>1, <4>2, <4>3
    <3>4. overlay' = [of |-> session, shape |-> s]
      BY <1>3, <2>1, <2>6, <3>3
    <3>. QED BY <2>4, <2>6, <3>1, <3>4
  <2>. QED BY <2>2, <2>3, <2>5, <2>6 DEF OnItsWay
<1>. QED BY <1>6, <1>7 DEF ShownInv, WantedIsOnItsWay

\* The page comes or goes; the collector.
LEMMA PageShown ==
  ASSUME TypeOK, ShownInv, FifoInv, ClosePage \/ \E a \in Sessions : OpenPage(a)
  PROVE  ShownInv'
<1>1. UNCHANGED <<conn, pointer, cache, last, overlapped, queue>> /\ session \in Nat
  BY CounterTypes DEF OpenPage, ClosePage, worker, bridge
<1>2. CASE \E a \in Sessions : OpenPage(a)
  <2>1. session' = session + 1 /\ session + 1 \in Sessions
    <3>1. session' = session + 1 /\ session < MaxSessions
      BY <1>2 DEF OpenPage
    <3>. QED BY <1>1, <3>1, BoundTypes DEF Sessions
  <2>2. conn'[session'] = "none"
    BY <1>1, <2>1 DEF FifoInv, OneRuns
  <2>3. \A j \in Sessions : j > session' => j > session
    BY <1>1, <2>1 DEF Sessions
  <2>4. LastIsCurrent' /\ ShapesCarry'
    BY <1>1, <2>3 DEF ShownInv, LastIsCurrent, ShapesCarry
  <2>. QED BY <2>2, <2>4 DEF ShownInv, WantedIsOnItsWay, Wanted
<1>3. CASE ClosePage
  <2>1. ~page' /\ session' = session
    BY <1>3 DEF ClosePage
  <2>2. LastIsCurrent' /\ ShapesCarry'
    BY <1>1, <2>1 DEF ShownInv, LastIsCurrent, ShapesCarry
  <2>. QED BY <2>1, <2>2 DEF ShownInv, WantedIsOnItsWay, Wanted
<1>. QED BY <1>2, <1>3

LEMMA StillShown ==
  ASSUME ShownInv, UNCHANGED <<conn, pointer, cache, last, overlapped, queue, session, page,
                               decoding, overlay, failures>>
  PROVE  ShownInv'
BY DEF ShownInv, WantedIsOnItsWay, Wanted, OnItsWay, LastOf, NoneOf, LastIsCurrent, ShapesCarry

LEMMA ShownInductive ==
  ASSUME InOrder
  PROVE  Spec => []ShownInv
<1>1. Init => ShownInv
  <2> SUFFICES ASSUME Init PROVE ShownInv
    OBVIOUS
  <2>1. ShapesCarry
    BY NoEvents DEF Init, ShapesCarry
  <2>2. LastIsCurrent
    BY DEF Init, LastIsCurrent
  <2>3. ~page
    BY DEF Init
  <2>. QED BY <2>1, <2>2, <2>3 DEF ShownInv, WantedIsOnItsWay, Wanted
<1>2. IInv /\ FifoInv /\ ShownInv /\ [Next]_vars => ShownInv'
  <2> SUFFICES ASSUME IInv, FifoInv, ShownInv, [Next]_vars PROVE ShownInv'
    OBVIOUS
  <2>0. TypeOK /\ (page => session # 0)
    BY DEF IInv
  <2>1. ASSUME NEW i \in Sessions, Connect(i) \/ Teardown(i) PROVE ShownInv'
    BY <2>0, <2>1, SessionShown
  <2>2. ASSUME NEW i \in Sessions,
               UpdateSystem(i) \/ \E p \in Shapes : UpdateNew(i, p) \/ UpdateCached(i, p)
        PROVE  ShownInv'
    BY <2>0, <2>2, UpdateSets, SetsShown
  <2>3. CASE Deliver
    BY <2>0, <2>3, DeliverShown
  <2>4. CASE DecodeEnds
    BY <2>0, <2>4, DecodeShown
  <2>5. CASE ClosePage \/ \E a \in Sessions : OpenPage(a)
    BY <2>0, <2>5, PageShown
  <2>6. ASSUME NEW n \in Payloads, Collect(n) PROVE ShownInv'
    BY <2>6, StillShown DEF Collect, worker, ui
  <2>7. CASE UNCHANGED vars
    BY <2>7, StillShown DEF vars, worker, bridge, ui
  <2>. QED BY <2>1, <2>2, <2>3, <2>4, <2>5, <2>6, <2>7 DEF Next
<1>. QED BY <1>1, <1>2, Inductive, FifoInductive, PTL DEF Spec

\* The safety half of ShapeArrives, when decodings end in order: a shape that the
\* server has left in place, that no failure has dropped, while no sessions have
\* overlapped, is the last of its session on its way or is the one shown.  A
\* report that Pointer_Set leaves out is never one the page still needs, and no
\* event of an earlier instance at the address takes the shape away.
THEOREM ShapeIsOnItsWay ==
  ASSUME InOrder
  PROVE  Spec => []WantedIsOnItsWay
<1>1. ShownInv => WantedIsOnItsWay
  BY DEF ShownInv
<1>. QED BY <1>1, ShownInductive, PTL

\* In particular, it is shown once nothing is on its way.
THEOREM ShapeIsShown ==
  ASSUME InOrder
  PROVE  Spec => [](\A s \in Shapes :
                      Wanted(s) /\ queue = <<>> /\ decoding = <<>>
                        => overlay = [of |-> session, shape |-> s])
<1>1. WantedIsOnItsWay =>
        \A s \in Shapes : Wanted(s) /\ queue = <<>> /\ decoding = <<>>
                            => overlay = [of |-> session, shape |-> s]
  BY NothingLast DEF WantedIsOnItsWay, OnItsWay
<1>. QED BY <1>1, ShapeIsOnItsWay, PTL
=============================================================================
