----------------------------- MODULE EventQueue -----------------------------
(***************************************************************************)
(* One native FreeRDP instance seen from its event queue.  ArkTS calls     *)
(* (the producers) push input, clipboard and disconnect events; the        *)
(* instance's worker thread connects, blocks in WaitForMultipleObjects and *)
(* drains the queue.  The queue is a locked FIFO (winpr wQueue) plus a     *)
(* manual-reset event that push sets and the drain resets.                 *)
(*   harmonyos_event.c       - init, uninit, push, check_handle            *)
(*   harmonyos_freerdp.cpp   - run loop, thread function, send_*,          *)
(*                             disconnect, free                            *)
(*   libfreerdp core         - the abort event                             *)
(***************************************************************************)
EXTENDS Naturals, Sequences, Functions

CONSTANTS
  Producers,           \* threads that call the freerdp_harmonyos_* functions
  Events,              \* heap addresses of the events they allocate
  KindOf,              \* HARMONYOS_EVENT_TYPE of each event
  MaxEventRetries,     \* MAX_EVENT_RETRIES of the run loop
  None                 \* "no event"

Kinds == {"input", "clipboard", "disconnect"}

ASSUME EventAssumption ==
  /\ KindOf \in [Events -> Kinds]
  /\ None \notin Events

ASSUME RetryAssumption == MaxEventRetries \in Nat \ {0}

VARIABLES
  queue,               \* eq->queue
  signal,              \* eq->event, a manual-reset event
  open,                \* the queue exists: client_new ran, client_free has not
  call,                \* call[p]: the event whose push p has to finish, or None
  aborting,            \* producers inside disconnect, push done, abort not yet
  abort,               \* rdp->abortEvent, what freerdp_shall_disconnect reads
  wpc,                 \* where the worker thread is
  tries,               \* retries of freerdp_check_event_handles so far
  bounded,             \* the current wait has the background timeout
  background,          \* g_isInBackgroundMode
  net,                 \* a FreeRDP handle is signalled: server data to process
  handled,             \* history: events taken by the drain, in order
  discarded,           \* history: events freed unhandled by uninit
  rejected             \* history: events freed because the enqueue failed

queueVars   == <<queue, signal, open>>
callVars    == <<call, aborting>>
workerVars  == <<wpc, tries, bounded>>
historyVars == <<handled, discarded, rejected>>
vars == <<queueVars, callVars, abort, workerVars, background, net, historyVars>>

WorkerStates == {"new", "starting", "connecting", "check", "wait", "dispatch",
                 "retry", "drain", "reset", "done", "stopped"}

TypeOK ==
  /\ queue \in Seq(Events)
  /\ signal \in BOOLEAN
  /\ open \in BOOLEAN
  /\ call \in [Producers -> Events \cup {None}]
  /\ aborting \in SUBSET Producers
  /\ abort \in BOOLEAN
  /\ wpc \in WorkerStates
  /\ tries \in 0..MaxEventRetries
  /\ bounded \in BOOLEAN
  /\ background \in BOOLEAN
  /\ net \in BOOLEAN
  /\ handled \in Seq(Events)
  /\ discarded \in Seq(Events)
  /\ rejected \in SUBSET Events

\* harmonyos_client_new has run harmonyos_event_queue_init; no thread yet.
Init ==
  /\ queue = <<>>
  /\ signal = FALSE
  /\ open = TRUE
  /\ call = [p \in Producers |-> None]
  /\ aborting = {}
  /\ abort = FALSE
  /\ wpc = "new"
  /\ tries = 0
  /\ bounded = FALSE
  /\ background = FALSE
  /\ net = FALSE
  /\ handled = <<>>
  /\ discarded = <<>>
  /\ rejected = {}

-----------------------------------------------------------------------------
(* The callers' side.                                                      *)

Idle(p) == call[p] = None /\ p \notin aborting

\* Events that exist already; calloc returns another address.
Allocated == Range(queue) \cup Range(handled) \cup Range(discarded) \cup rejected

\* Mutants, here and below: what a plausible bug would make of the definition
\* that follows.  No specification uses them.
MutantEnqueueFirst(e) == queue' = <<e>> \o queue

\* Queue_Enqueue appends under the queue's own lock.
Enqueue(e) == queue' = Append(queue, e)

\* freerdp_harmonyos_send_* or _disconnect: allocate, then the first half of
\* harmonyos_push_event.
Push(p, e) ==
  /\ open
  /\ Idle(p)
  /\ e \in Events \ Allocated
  /\ Enqueue(e)
  /\ call' = [call EXCEPT ![p] = e]
  /\ UNCHANGED <<signal, open, aborting, abort, workerVars, background, net, historyVars>>

\* Queue_Enqueue could not grow the array: the caller frees the event.
PushFails(p, e) ==
  /\ open
  /\ Idle(p)
  /\ e \in Events \ Allocated
  /\ rejected' = rejected \cup {e}
  /\ UNCHANGED <<queueVars, callVars, abort, workerVars, background, net, handled, discarded>>

\* SetEvent(eq->event), the second half of the push.  A disconnect goes on to
\* freerdp_abort_connect_context.
SetSignal(p) ==
  /\ call[p] # None
  /\ signal' = TRUE
  /\ call' = [call EXCEPT ![p] = None]
  /\ aborting' = IF KindOf[call[p]] = "disconnect" THEN aborting \cup {p} ELSE aborting
  /\ UNCHANGED <<queue, open, abort, workerVars, background, net, historyVars>>

MutantAbortForgotten(p) ==
  /\ p \in aborting
  /\ aborting' = aborting \ {p}
  /\ UNCHANGED <<queueVars, call, abort, workerVars, background, net, historyVars>>

AbortConnect(p) ==
  /\ p \in aborting
  /\ abort' = TRUE
  /\ aborting' = aborting \ {p}
  /\ UNCHANGED <<queueVars, call, workerVars, background, net, historyVars>>

\* freerdp_harmonyos_connect: CreateThread.
Connect ==
  /\ open
  /\ wpc = "new"
  /\ wpc' = "starting"
  /\ UNCHANGED <<queueVars, callVars, abort, tries, bounded, background, net, historyVars>>

\* freerdp_harmonyos_enter_background_mode / _exit_background_mode.
SetBackground ==
  /\ open
  /\ background' = ~background
  /\ UNCHANGED <<queueVars, callVars, abort, workerVars, net, historyVars>>

\* freerdp_harmonyos_free once the worker has exited (or was never created):
\* harmonyos_event_queue_uninit frees what is left in the queue.
Free ==
  /\ open
  /\ wpc \in {"new", "stopped"}
  /\ \A p \in Producers : Idle(p)
  /\ open' = FALSE
  /\ queue' = <<>>
  /\ discarded' = queue
  /\ UNCHANGED <<signal, callVars, abort, workerVars, background, net, handled, rejected>>

-----------------------------------------------------------------------------
(* The worker thread: harmonyos_thread_func and harmonyos_freerdp_run.     *)

Goto(from, to) == wpc = from /\ wpc' = to

\* freerdp_client_start fails: no connection is attempted.
StartFails ==
  /\ Goto("starting", "stopped")
  /\ UNCHANGED <<queueVars, callVars, abort, tries, bounded, background, net, historyVars>>

\* freerdp_connect_begin resets the abort event, whatever was requested before.
ConnectBegin ==
  /\ Goto("starting", "connecting")
  /\ abort' = FALSE
  /\ UNCHANGED <<queueVars, callVars, tries, bounded, background, net, historyVars>>

\* The transport failed: freerdp_connect goes on with freerdp_reconnect, which
\* resets the abort event again (an abort does not replace that last error, by
\* which freerdp_reconnect would know it).
ConnectRetries ==
  /\ wpc = "connecting"
  /\ abort' = FALSE
  /\ UNCHANGED <<queueVars, callVars, workerVars, background, net, historyVars>>

\* freerdp_connect fails: it disconnects, which sets the abort event.
ConnectFails ==
  /\ Goto("connecting", "done")
  /\ abort' = TRUE
  /\ UNCHANGED <<queueVars, callVars, tries, bounded, background, net, historyVars>>

ConnectSucceeds ==
  /\ Goto("connecting", "check")
  /\ UNCHANGED <<queueVars, callVars, abort, tries, bounded, background, net, historyVars>>

\* The head of the loop.  The wait's timeout is chosen from the background flag
\* here, before the wait.
LoopHead ==
  /\ wpc = "check"
  /\ \/ /\ ~abort
        /\ wpc' = "wait"
        /\ bounded' = background
     \/ /\ wpc' = "done"       \* shall_disconnect, or no event handles
        /\ UNCHANGED bounded
  /\ UNCHANGED <<queueVars, callVars, abort, tries, background, net, historyVars>>

Ready == signal \/ abort \/ net

WaitReady ==
  /\ Goto("wait", "dispatch")
  /\ Ready
  /\ UNCHANGED <<queueVars, callVars, abort, tries, bounded, background, net, historyVars>>

\* The background timeout.  The flag is read again: still in the background, the
\* loop goes on without draining, or leaves when the network counts as dead.
WaitTimeout ==
  /\ wpc = "wait"
  /\ bounded
  /\ ~Ready
  /\ IF background THEN wpc' \in {"check", "done"} ELSE wpc' = "dispatch"
  /\ UNCHANGED <<queueVars, callVars, abort, tries, bounded, background, net, historyVars>>

WaitFails ==
  /\ Goto("wait", "done")
  /\ UNCHANGED <<queueVars, callVars, abort, tries, bounded, background, net, historyVars>>

MutantDrainOnSignal ==
  /\ wpc \in {"dispatch", "retry"}
  /\ net' = FALSE
  /\ UNCHANGED abort \/ (net /\ abort' = TRUE)
  /\ wpc' = IF abort' THEN "done" ELSE IF signal THEN "drain" ELSE "check"
  /\ tries' = 0
  /\ UNCHANGED <<queueVars, callVars, bounded, background, historyVars>>

\* freerdp_check_event_handles succeeds.  Processing server data may end the
\* session, which sets the abort event; the loop tests it before draining.
CheckHandles ==
  /\ wpc \in {"dispatch", "retry"}
  /\ net' = FALSE
  /\ UNCHANGED abort \/ (net /\ abort' = TRUE)
  /\ wpc' = IF abort' THEN "done" ELSE "drain"
  /\ tries' = 0
  /\ UNCHANGED <<queueVars, callVars, bounded, background, historyVars>>

MutantRetriesUnbounded ==
  /\ wpc \in {"dispatch", "retry"}
  /\ wpc' = "retry"
  /\ tries' = tries + 1
  /\ UNCHANGED <<queueVars, callVars, abort, bounded, background, net, historyVars>>

\* It fails: retry after 50 ms, give up after MAX_EVENT_RETRIES retries.
CheckHandlesFails ==
  /\ wpc \in {"dispatch", "retry"}
  /\ IF tries = MaxEventRetries
     THEN wpc' = "done" /\ UNCHANGED tries
     ELSE wpc' = "retry" /\ tries' = tries + 1
  /\ UNCHANGED <<queueVars, callVars, abort, bounded, background, net, historyVars>>

MutantDrainPeeks ==
  /\ wpc = "drain"
  /\ queue # <<>>
  /\ UNCHANGED queue
  /\ handled' = Append(handled, Head(queue))
  /\ abort' = (abort \/ KindOf[Head(queue)] = "disconnect")
  /\ wpc' = "reset"
  /\ UNCHANGED <<signal, open, callVars, tries, bounded, background, net, discarded, rejected>>

\* One round of harmonyos_check_handle's loop: dequeue, act on the event, free it.
DrainOne ==
  /\ wpc = "drain"
  /\ queue # <<>>
  /\ queue' = Tail(queue)
  /\ handled' = Append(handled, Head(queue))
  /\ abort' = (abort \/ KindOf[Head(queue)] = "disconnect")
  /\ UNCHANGED <<signal, open, callVars, workerVars, background, net, discarded, rejected>>

\* Queue_Dequeue returned NULL: the loop is left ...
DrainEnds ==
  /\ Goto("drain", "reset")
  /\ queue = <<>>
  /\ UNCHANGED <<queueVars, callVars, abort, tries, bounded, background, net, historyVars>>

\* ... and only then is the event reset.
ResetSignal ==
  /\ Goto("reset", "check")
  /\ signal' = FALSE
  /\ UNCHANGED <<queue, open, callVars, abort, tries, bounded, background, net, historyVars>>

MutantExitKeepsRunning ==
  /\ Goto("done", "check")
  /\ UNCHANGED <<queueVars, callVars, abort, tries, bounded, background, net, historyVars>>

\* freerdp_disconnect (sets the abort event), onDisconnected, ExitThread.
Teardown ==
  /\ Goto("done", "stopped")
  /\ abort' = TRUE
  /\ UNCHANGED <<queueVars, callVars, tries, bounded, background, net, historyVars>>

\* The server sends something while the connection is up.
NetArrives ==
  /\ wpc \in WorkerStates \ {"new", "starting", "connecting", "done", "stopped"}
  /\ net' = TRUE
  /\ UNCHANGED <<queueVars, callVars, abort, workerVars, background, historyVars>>

-----------------------------------------------------------------------------
Caller == \E p \in Producers :
            \/ \E e \in Events : Push(p, e) \/ PushFails(p, e)
            \/ SetSignal(p)
            \/ AbortConnect(p)

Worker == \/ StartFails \/ ConnectBegin \/ ConnectRetries \/ ConnectFails \/ ConnectSucceeds
          \/ LoopHead \/ WaitReady \/ WaitTimeout \/ WaitFails
          \/ CheckHandles \/ CheckHandlesFails
          \/ DrainOne \/ DrainEnds \/ ResetSignal \/ Teardown

Next == Caller \/ Connect \/ SetBackground \/ Free \/ Worker \/ NetArrives

Spec == Init /\ [][Next]_vars

\* The worker thread is scheduled, and a caller that began a push finishes it.
\* Users, the server and the application's lifecycle owe nothing.
Fairness == /\ WF_vars(Worker)
            /\ \A p \in Producers : WF_vars(SetSignal(p)) /\ WF_vars(AbortConnect(p))

FairSpec == Spec /\ Fairness

-----------------------------------------------------------------------------
(* Properties                                                              *)

Accepted == handled \o queue \o discarded

\* No event is handled twice, handled and freed, or freed twice: every event the
\* queue accepted has one place in its history, and a rejected one has none.
\* (harmonyos_push_event hands ownership over; check_handle, uninit and the
\* failing caller each free what they own.)
EventOwnedOnce ==
  /\ IsInjective(Accepted)
  /\ Range(Accepted) \cap rejected = {}

\* Why: the queue exists exactly until uninit empties it into discarded.
ClosedOnce == (open => discarded = <<>>) /\ (~open => queue = <<>>)

OwnershipInvariant == EventOwnedOnce /\ ClosedOnce

Blocked == wpc = "wait" /\ ~Ready

\* A disconnect request never sleeps: the worker is never blocked while a
\* DISCONNECT event is queued and its caller has returned.  The event alone can
\* miss its wake-up, and the abort alone is erased by freerdp_connect; the
\* code relies on doing both.
DisconnectNeverStranded ==
  \A e \in Range(queue) :
    KindOf[e] = "disconnect" /\ Blocked => \E p \in Producers : call[p] = e \/ p \in aborting

\* Why: a queued DISCONNECT still has its caller at work, or the abort event set,
\* or the signal set with no reset about to clear it; and as long as freerdp_connect
\* may clear the abort event, the signal is set.
DisconnectPending ==
  \A e \in Range(queue) :
    KindOf[e] = "disconnect" =>
      \/ \E p \in Producers : call[p] = e
      \/ aborting # {}
      \/ abort
      \/ signal /\ wpc # "reset"

SignalBeforeConnect ==
  wpc \in {"new", "starting", "connecting"} =>
    \A e \in Range(queue) : signal \/ \E p \in Producers : call[p] = e

DisconnectInvariant == DisconnectPending /\ SignalBeforeConnect

\* A worker that has been created stops after a disconnect request, whatever the
\* state of the connection when the request came.
DisconnectStopsWorker ==
  \A e \in Events :
    (KindOf[e] = "disconnect" /\ e \in Range(Accepted) /\ wpc # "new") ~> (wpc = "stopped")

Unhandled(e) == e \in Range(queue) /\ wpc \notin {"new", "stopped"}

\* As long as the server keeps sending, every accepted event is handled (or the
\* session ends): the drain runs on every wake-up, not only when its own event
\* is signalled, so traffic repairs a missed wake-up.
HandledUnderTraffic ==
  []<>net => \A e \in Events : Unhandled(e) ~> ~Unhandled(e)

\* Every key press reaches the remote while the session lasts, traffic or not:
\* what the code does not keep (README, section 7).
EveryInputHandled ==
  \A e \in Events : Unhandled(e) ~> ~Unhandled(e)

\* The queue implements the abstract stream: FIFO, at most once, closed for good.
Stream == INSTANCE InputStream
            WITH accepted <- Accepted, taken <- Len(handled), closed <- ~open

StreamSafety == Stream!StreamSpec
=============================================================================
