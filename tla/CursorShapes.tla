---------------------------- MODULE CursorShapes ----------------------------
(***************************************************************************)
(* The remote cursor on its way from the server to the overlay that the    *)
(* session page draws: the pointer callbacks of harmonyos_freerdp.cpp on   *)
(* an instance's worker thread, which leave out a shape that was already   *)
(* reported; the thread-safe function of harmonyos_napi.cpp, which carries *)
(* a copy of the bitmap to the JS thread and gives it to the collector;    *)
(* the page of SessionPage.ets, which decodes the bitmap asynchronously.   *)
(* What was reported last is kept once for all instances, and the page      *)
(* knows an instance by its address, which a later one may have again once *)
(* the thread of the first has ended.  The copy kept for the comparison is *)
(* taken to be allocated.                                                  *)
(***************************************************************************)
EXTENDS Integers, Sequences, SequencesExt

CONSTANTS
  Shapes,               \* pointers
  Clear,                \* no pointer of the session's own: null, default
  InOrder,              \* createPixelMap ends in the order of its calls
  MaxSessions, MaxUpdates, MaxPayloads, MaxFailures   \* bounds of the model

ASSUME CursorAssumption ==
  /\ Clear \notin Shapes
  /\ InOrder \in BOOLEAN
  /\ {MaxSessions, MaxUpdates, MaxPayloads, MaxFailures} \subseteq Nat

VARIABLES
  addr,                 \* the instances: address, named by its first user,
  conn, pointer, cache, \* connection, the server's pointer, the cached
                        \* pointers, with or without a bitmap
  last,                 \* g_lastCursor...: what was reported last
  queue, posted,        \* the thread-safe function's queue; payloads made
  frees,                \* how often each payload was freed
  buffers,              \* payloads that belong to an ArrayBuffer
  session, page,        \* the newest instance; its page is open
  decoding,             \* calls of createPixelMap that are awaited
  overlay,              \* cursorPixelMap, while cursorVisible; of: the instance
                        \* whose event put it there or took it away
  overlapped,           \* history: a session began while another was up
  updates, failures     \* counters

worker == <<conn, pointer, cache, last, overlapped>>
bridge == <<queue, posted, frees, buffers>>
ui     == <<addr, session, page, decoding, overlay>>
vars   == <<worker, bridge, ui, updates, failures>>

Sessions == 1..MaxSessions
Payloads == 1..MaxPayloads

\* page: the page that awaits the decoding, of the event of a call.
Event == [inst : Sessions, shape : Shapes \cup {Clear}, payload : 0..MaxPayloads,
          page : 0..MaxSessions]

Nothing == [of |-> 0, shape |-> Clear]

TypeOK ==
  /\ addr \in [Sessions -> Sessions]
  /\ conn \in [Sessions -> {"none", "up", "down"}]
  /\ pointer \in [Sessions -> Shapes \cup {Clear}]
  /\ cache \in [Sessions -> [Shapes -> {"none", "type only", "bitmap"}]]
  /\ last \in [of : Shapes \cup {Clear}, bitmap : BOOLEAN]
  /\ queue \in Seq(Event) /\ decoding \in Seq(Event)
  /\ posted \in 0..MaxPayloads
  /\ \A e \in Range(queue) \cup Range(decoding) : e.payload <= posted
  /\ frees \in [Payloads -> Nat] /\ buffers \subseteq 1..posted
  /\ session \in 0..MaxSessions /\ page \in BOOLEAN
  /\ overlay \in [of : 0..MaxSessions, shape : Shapes \cup {Clear}]
  /\ overlapped \in BOOLEAN
  /\ updates \in 0..MaxUpdates /\ failures \in 0..MaxFailures

Init ==
  /\ addr = [i \in Sessions |-> i]
  /\ conn = [i \in Sessions |-> "none"]
  /\ pointer = [i \in Sessions |-> Clear]
  /\ cache = [i \in Sessions |-> [p \in Shapes |-> "none"]]
  /\ last = [of |-> Clear, bitmap |-> FALSE]
  /\ queue = <<>> /\ posted = 0
  /\ frees = [n \in Payloads |-> 0] /\ buffers = {}
  /\ session = 0 /\ page = FALSE
  /\ decoding = <<>> /\ overlay = Nothing /\ overlapped = FALSE
  /\ updates = 0 /\ failures = 0

\* An allocation, or a decoding, fails.
Fails == failures < MaxFailures /\ failures' = failures + 1

-----------------------------------------------------------------------------
(* The worker thread of instance i.                                          *)

Report(i, shape, n) == [inst |-> i, shape |-> shape, payload |-> n, page |-> 0]

\* Mutants, here and below: what a plausible bug would make of the definition
\* that follows.  No specification uses them.
MutantPostUncounted(i, shape) ==
  /\ posted < MaxPayloads
  /\ queue' = Append(queue, Report(i, shape, IF shape = Clear THEN 0 ELSE posted + 1))
  /\ UNCHANGED <<posted, failures>>

\* OnCursorShapeChangedImpl: a bitmap is copied, or the event is dropped.
Post(i, shape) ==
  \/ /\ shape = Clear
     /\ queue' = Append(queue, Report(i, Clear, 0))
     /\ UNCHANGED <<posted, failures>>
  \/ /\ shape # Clear /\ posted < MaxPayloads
     /\ posted' = posted + 1
     /\ queue' = Append(queue, Report(i, shape, posted + 1))
     /\ UNCHANGED failures
  \/ /\ shape # Clear /\ Fails
     /\ UNCHANGED <<queue, posted>>

\* SetNull, SetDefault: always reported.
ClearCursorShape(i) ==
  /\ last' = [of |-> Clear, bitmap |-> FALSE]
  /\ Post(i, Clear)

\* Pointer_Set of a pointer that has, or has not, its bitmap.
PointerSet(i, p, bitmap) ==
  LET seen == [of |-> p, bitmap |-> bitmap] IN
  \/ last = seen /\ UNCHANGED <<last, queue, posted, failures>>
  \/ /\ last # seen
     /\ last' = seen
     /\ Post(i, IF bitmap THEN p ELSE Clear)

Connect(i) ==
  /\ session = i /\ conn[i] = "none"
  /\ conn' = [conn EXCEPT ![i] = "up"]
  /\ overlapped' = (overlapped \/ \E j \in Sessions : conn[j] = "up")
  /\ UNCHANGED <<pointer, cache, last, bridge, ui, updates, failures>>

Update(i, p) ==
  /\ conn[i] = "up" /\ updates < MaxUpdates
  /\ updates' = updates + 1
  /\ pointer' = [pointer EXCEPT ![i] = p]
  /\ UNCHANGED <<conn, overlapped, frees, buffers, ui>>

\* A new pointer is decoded, put into the cache and set at once.  One that has
\* no bitmap, for its size, its format or want of memory, is known by its type.
UpdateNew(i, p) ==
  /\ Update(i, p)
  /\ \E kind \in {"type only", "bitmap"} :
       /\ cache' = [cache EXCEPT ![i][p] = kind]
       /\ PointerSet(i, p, kind = "bitmap")

UpdateCached(i, p) ==
  /\ Update(i, p)
  /\ cache[i][p] # "none"
  /\ PointerSet(i, p, cache[i][p] = "bitmap")
  /\ UNCHANGED cache

UpdateSystem(i) ==
  /\ Update(i, Clear)
  /\ ClearCursorShape(i)
  /\ UNCHANGED cache

MutantTeardownKeepsShape(i) ==
  /\ conn[i] = "up"
  /\ conn' = [conn EXCEPT ![i] = "down"]
  /\ Post(i, Clear)
  /\ UNCHANGED <<pointer, cache, last, overlapped, frees, buffers, ui, updates>>

\* The end of a session: freerdp_disconnect frees the pointer cache, which
\* sets the default pointer first.
Teardown(i) ==
  /\ conn[i] = "up"
  /\ conn' = [conn EXCEPT ![i] = "down"]
  /\ ClearCursorShape(i)
  /\ UNCHANGED <<pointer, cache, overlapped, frees, buffers, ui, updates>>

-----------------------------------------------------------------------------
(* The JS thread.                                                            *)

MutantWrapFreesTwice(n, arrives) ==
  \/ /\ n = 0 /\ ~arrives
     /\ UNCHANGED <<buffers, frees, failures>>
  \/ /\ n # 0 /\ arrives
     /\ buffers' = buffers \cup {n}
     /\ UNCHANGED <<frees, failures>>
  \/ /\ n # 0 /\ ~arrives /\ Fails
     /\ frees' = [frees EXCEPT ![n] = @ + 2]
     /\ UNCHANGED buffers

\* CallJS_CursorShape makes the payload an ArrayBuffer, whose finalizer frees
\* it; if it cannot, it frees the payload and passes an empty buffer.
Wrap(n, arrives) ==
  \/ /\ n = 0 /\ ~arrives
     /\ UNCHANGED <<buffers, frees, failures>>
  \/ /\ n # 0 /\ arrives
     /\ buffers' = buffers \cup {n}
     /\ UNCHANGED <<frees, failures>>
  \/ /\ n # 0 /\ ~arrives /\ Fails
     /\ frees' = [frees EXCEPT ![n] = @ + 1]
     /\ UNCHANGED buffers

Show(i, shape) == overlay' = [of |-> i, shape |-> shape]

Decode(e) == decoding' = Append(decoding, [e EXCEPT !.page = session])

MutantAnyInstance(e, arrives) ==
  \/ /\ page
     /\ \/ arrives /\ Decode(e) /\ UNCHANGED overlay
        \/ ~arrives /\ Show(e.inst, Clear) /\ UNCHANGED decoding
  \/ /\ ~page
     /\ UNCHANGED <<decoding, overlay>>

\* The page's callback, and onCursorShapeChanged up to its await.
OnCursorShapeChanged(e, arrives) ==
  \/ /\ page /\ addr[session] = addr[e.inst]
     /\ \/ arrives /\ Decode(e) /\ UNCHANGED overlay
        \/ ~arrives /\ Show(e.inst, Clear) /\ UNCHANGED decoding
  \/ /\ ~(page /\ addr[session] = addr[e.inst])
     /\ UNCHANGED <<decoding, overlay>>

Deliver ==
  /\ queue # <<>>
  /\ queue' = Tail(queue)
  /\ \E arrives \in BOOLEAN :
       /\ Wrap(Head(queue).payload, arrives)
       /\ OnCursorShapeChanged(Head(queue), arrives)
  /\ UNCHANGED <<worker, posted, addr, session, page, updates>>

\* onCursorShapeChanged after its await.  The page that awaited may be closed.
DecodeEnds ==
  \E k \in 1..(IF InOrder THEN 1 ELSE Len(decoding)) :
    /\ decoding # <<>>
    /\ decoding' = RemoveAt(decoding, k)
    /\ \/ /\ page /\ session = decoding[k].page
          /\ Show(decoding[k].inst, decoding[k].shape)
          /\ UNCHANGED failures
       \/ /\ ~(page /\ session = decoding[k].page)
          /\ UNCHANGED <<overlay, failures>>
       \/ Fails /\ UNCHANGED overlay
    /\ UNCHANGED <<worker, bridge, addr, session, page, updates>>

\* The collector runs the finalizer of a buffer that nothing refers to.
Collect(n) ==
  /\ n \in buffers
  /\ \A e \in Range(decoding) : e.payload # n
  /\ buffers' = buffers \ {n}
  /\ frees' = [frees EXCEPT ![n] = @ + 1]
  /\ UNCHANGED <<worker, queue, posted, ui, updates, failures>>

\* aboutToAppear, aboutToDisappear.  The new page's instance has the address of
\* none whose thread has still to end.
OpenPage(a) ==
  /\ ~page /\ session < MaxSessions /\ a <= session + 1
  /\ \A j \in 1..session : addr[j] = a => conn[j] # "up"
  /\ page' = TRUE /\ session' = session + 1
  /\ addr' = [addr EXCEPT ![session + 1] = a]
  /\ overlay' = Nothing
  /\ UNCHANGED <<worker, bridge, decoding, updates, failures>>

ClosePage ==
  /\ page
  /\ page' = FALSE
  /\ overlay' = Nothing
  /\ UNCHANGED <<worker, bridge, addr, session, decoding, updates, failures>>

Next ==
  \/ \E i \in Sessions :
       \/ Connect(i) \/ UpdateSystem(i) \/ Teardown(i)
       \/ \E p \in Shapes : UpdateNew(i, p) \/ UpdateCached(i, p)
  \/ Deliver \/ DecodeEnds \/ ClosePage
  \/ \E a \in Sessions : OpenPage(a)
  \/ \E n \in Payloads : Collect(n)

Spec == Init /\ [][Next]_vars

\* The JS thread runs its callbacks, a decoding ends, the collector collects.
FairSpec ==
  /\ Spec
  /\ WF_vars(Deliver) /\ WF_vars(DecodeEnds)
  /\ \A n \in Payloads : WF_vars(Collect(n))

-----------------------------------------------------------------------------
(* Properties.                                                               *)

\* Every copy of a bitmap is freed, once: by whoever owns it at the end, also of
\* an event that no page listens to, of a page closed during the decoding, and
\* when no ArrayBuffer could be made (the ownership comment of CursorShapeData).
PayloadFreedOnce == \A n \in Payloads : (posted >= n) ~> [](frees[n] = 1)

\* Once the page shows a cursor of its own session, nothing but that session's
\* events replaces it or takes it away, though events of an earlier instance with
\* the same address may have been in the queue or in decoding when the page opened
\* (the test of the instance in the page's callback lets those through).
OwnCursorStays ==
  [][page /\ page' /\ overlay.of = session /\ overlay.shape # Clear
       => overlay'.of = session]_vars

\* A cursor that the server leaves in place is shown in the end, on every page:
\* a shape left out because it was reported before is one that this page has
\* (the comparison in Pointer_Set and its reset at the end of a session); unless
\* sessions overlapped, which share what was reported last (README, section 7).
ShapeArrives ==
  \A s \in Shapes :
    <>[](/\ failures = 0 /\ ~overlapped /\ page /\ conn[session] = "up"
         /\ pointer[session] = s /\ cache[session][s] = "bitmap")
      => <>[](overlay = [of |-> session, shape |-> s])

-----------------------------------------------------------------------------
(* What the code does not keep (README, section 7).                          *)

\* The overlay shows only cursors of the page's own session (the test of the
\* instance in the page's callback, which compares addresses).
OnlyOwnCursors == overlay.shape # Clear => page /\ overlay.of = session
=============================================================================
