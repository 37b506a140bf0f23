# A verification of the HarmonyOS FreeRDP client

This directory holds TLA+ specifications of the client's own code, the TLC runs
that check them on small instances, and TLAPS proofs of results that hold for
every instance. Paths below are relative to the repository; `cpp/` stands for
`entry/src/main/cpp/`, `ets/` for `entry/src/main/ets/`, `FreeRDP/` for
`entry/libs/FreeRDP/`.

1. [The system](#1-the-system)
2. [What is hard about it](#2-what-is-hard-about-it)
3. [The modules and the code](#3-the-modules-and-the-code)
4. [The runs](#4-the-runs)
5. [Fairness](#5-fairness)
6. [What is proved](#6-what-is-proved)
7. [What the runs found](#7-what-the-runs-found)
8. [What is not modelled](#8-what-is-not-modelled)
9. [Plan](#9-plan)

## 1. The system

The application is a remote desktop client. ArkTS pages and services run on one
JS main thread; a NAPI module gives them a native library written in C and C++;
that library drives FreeRDP, which is vendored with a few of the project's own
adaptations inside (the OHAudio backend, the drive channel's notification of an
opened file). Every connected instance has a worker thread; the audio service
calls back from a thread of its own.

```
 SessionPage.ets ── NetworkManager.ets          JS main thread
        │                  │
      LibFreeRDP.ets  (instances by address, callbacks)
        │ calls                     ▲ thread-safe functions
 harmonyos_napi.cpp ────────────────┤
        │                           │
 harmonyos_freerdp.cpp, harmonyos_event.c       one worker thread per instance
        │   (queue, abort event, surface mutex)
     libfreerdp ── rdpsnd_main.c ── rdpsnd_ohos.c ◄── OHAudio callback thread
```

| Component | State it keeps | Operations | Talks to | Correct when |
|---|---|---|---|---|
| Native event queue and worker thread (`cpp/harmonyos_event.c`, `cpp/harmonyos_freerdp.cpp`) | locked FIFO, manual-reset event, abort event, background flag | send cursor, key, unicode and clipboard events, connect, disconnect, free; the run loop | JS thread pushes, the worker drains into libfreerdp | each event has one owner and is handled once, in order; a disconnect always stops the worker |
| OHAudio backend (`rdpsnd_ohos.c`, driven by `rdpsnd_main.c`) | ring buffer under a lock, renderer, cached volume | open, play, set volume, close, free; the service's callback | the channel on the worker thread, the audio service | the newest bytes are kept without a gap; nothing stale is played; the threads never wait for each other for good; teardown is safe |
| Instance lifecycle (`ets/services/LibFreeRDP.ets`, `freerdp_harmonyos_free`, `harmonyos_thread_func`, the thread-safe functions of `cpp/harmonyos_napi.cpp`) | `instanceState`, `pendingFree`, the contexts, the worker's stage, posted calls | newInstance, connect, disconnect, cancelConnection, freeInstance; success and disconnect callbacks | the page and the manager above, the worker below | a context is freed exactly once, never under its thread; the state agrees with the sessions there are |
| Session and reconnection (`ets/pages/SessionPage.ets`, `ets/services/NetworkManager.ets`) | current session, phase, attempts, timer; the page's instance, state and background service | open, go back, close; network available and lost; the reconnection | LibFreeRDP's calls and callbacks | one instance per session; a timer serves only the session it was started for; attempts end |
| Surface renderer (`cpp/harmonyos_freerdp.cpp`) | native window, active context, viewport, GDI buffers, one mutex | end paint, desktop resize, set and release surface, set viewport and display mode | worker threads and the JS thread | nothing that is being drawn is freed, nothing freed is drawn |
| Cursor shapes (same file, `cpp/harmonyos_napi.cpp`, `SessionPage.ets`) | what was reported last, the payloads on their way, decodings awaited, the overlay | pointer new, set, null, default, free; the page's callback | worker threads report, the JS thread decodes and draws | a page's own cursor is not taken away by an earlier session's; one that stays is shown; every bitmap is freed once |
| Display channel, frame snapshots (same file) | two globals for the channel's context and owner; snapshot buffers | send monitor layout | worker thread writes, JS thread reads | the channel used belongs to the instance meant |
| Background mode, keepalive (same file) | flag, suppression, last activity | enter, exit, keepalive, status check | page, run loop | a background session stays alive |
| Compatibility layer (`cpp/freerdp_client_compat.c`) | sixteen context slots, a monitor and a flag beside each | find or make a slot, reconnect with back-off, monitor | native library | slots are independent, none is lost |
| NAPI bridge (`cpp/harmonyos_napi.cpp`) | one thread-safe function per callback | conversion of arguments, posting and running of calls | both sides | a payload is freed once |
| Clipboard channel (`cpp/harmonyos_cliprdr.c`) | channel context | format list, data request and response | never initialised in this repository | - |
| File-open notification (`FreeRDP/channels/drive/client/drive_main.c`) | last path and time | notify, with a three second debounce | drive channel, JS thread | one notification per open |
| Touch gestures (`SessionPage.ets`) | the primary finger, flags of the gesture, the hold timer, the last tap, the wheel's rest | touch down, move, up, cancel; hold timer; pinch and pan | LibFreeRDP's cursor events | no button stays pressed; a double click is two taps; the wheel follows the finger |
| Resize watchdog (`SessionPage.ets`) | pending size, retry count, retry timer | surface and settings changes, the timer, changes of the session | the native resize request, the display channel | a desktop that lies the wrong way is put right or given up, with no stale size |
| IME bridge (`SessionPage.ets`) | tracked text, last preview, expected empty event | text changed, will delete, focus lost | the hidden field and the input method above, key events below | the remote text is what the user meant |
| Background service, audio focus, session manager, clipboard manager (`ets/services`, `ets/utils`) | running flags, handlers | start, stop, lock, interrupt | the system's background tasks and audio session | start and stop come in pairs |
| Session state, bookmarks, settings, keyboards, abilities | forms, tables, the Preferences store | sequential user interface | - | - |

How they interact: a call goes down on the JS thread, directly. Input and a
disconnect go through the event queue to the worker; a disconnect also sets the
abort event, without the queue. Reports come up through thread-safe functions,
which the JS thread runs later; the reports of the end of a session decide when
LibFreeRDP frees it. The renderer's globals are the only state that worker
threads of different instances share.

## 2. What is hard about it

`PROJECT.json` lists the hazards, each at the line where it bites, with the
properties that watch it. In short:

- **Signal, queue and abort are three steps.** A push enqueues and then signals;
  the drain empties and then resets; a disconnect pushes and then aborts; and
  `freerdp_connect_begin` clears whatever abort came before it.
- **An instance is an address.** Reports come late, through several
  thread-safe functions, and name an instance by an address that may be freed
  or have a new owner by then.
- **free waits at most three seconds** for a worker and then frees in any case.
- **connect only starts a thread.** Its outcome comes as a callback, when the
  reconnection has already taken it for a connection.
- **The page and the manager do not know the same instance** after a
  reconnection, and their states follow events in whatever order these come.
- **The audio callback interleaves** with open, close and free, which take the
  ring's lock in one place and wait for the callback in another.
- **Some users of the renderer's globals take its mutex and some do not.**
- **Touches, recognisers and the hold timer** share the gesture's flags, and a
  touch's end may never be reported.
- **A resize request is answered late, differently or never**, while the phone
  turns on and the session comes and goes.
- **The input method's events overlap**: a commit may be shown as a preview once
  more, a deletion may be vetoed and happen all the same.
- **A cursor travels through two threads and an await**, and one that was
  reported before is not reported again.

## 3. The modules and the code

Every definition that stands for code has an entry in the `map` of
`PROJECT.json` with the lines it stands for. Definitions keep the code's names.
Operators named `Mutant...` are what a plausible bug would make of the definition
after them; no specification uses them. They show that each property can be
broken by the code it speaks of.

### EventQueue and InputStream

`EventQueue` is one native instance seen from its queue. `queue`, `signal` and
`open` are `harmonyosEventQueue`; `call[p]` is a caller between `Queue_Enqueue`
and `SetEvent`, `aborting` one between the push and
`freerdp_abort_connect_context`; `wpc` is the place of the worker thread in
`harmonyos_thread_func` and `harmonyos_freerdp_run`. Every lock-protected
operation and every system call that another thread can observe is one action:
push, signal and abort are three; the wait's timeout is chosen (`LoopHead`)
before the wait and the background flag is read again after it (`WaitTimeout`);
a drain is one action per event, the empty dequeue, then the reset.
`libfreerdp`'s own part is small: `ConnectBegin` clears the abort event, and
`ConnectRetries` does so again, since `freerdp_connect` goes through
`freerdp_reconnect` when the transport failed; `CheckHandles` may set it,
`freerdp_disconnect` does. Event contents are
abstracted to the three kinds the code tells apart: input, clipboard,
disconnect. The histories `handled`, `discarded` and `rejected` say who freed
an event.

`InputStream` is what callers rely on: accepted events are taken in order, once,
until the stream is closed. `EventQueue` implements it with
`accepted <- handled \o queue \o discarded` (`StreamSafety`).

### AudioRing and AudioFifo

`AudioRing` has the ring (`ring`, `head`, `tail`, `used`, as in the code), the
renderer, both volumes, the channel's `isOpen`, format and deferred volume, the
lock's owner, and the places of the two threads. Bytes are numbered as they
arrive, so that losing, repeating or reordering one shows. A wave may be larger
than the ring; Stop, Start and the creation of a renderer may fail, as the code
provides. So may `OH_AudioRenderer_SetVolume`: the code logs it, keeps the volume
for the next renderer and does not try again, which `refused` records until the
next attempt (`RendererSetVolume`). A wave that lags too far behind is dropped
(`DropWave`). Stop and Release return when no callback is in flight; that is
OHAudio's documented behaviour and external to the code. The channel runs on the
worker thread because `harmonyos_pre_connect` makes channels synchronous.

`AudioFifo` is the drop-oldest FIFO, with silence for what is missing.
`FifoSafety` is the refinement, `pending <- Contents`.

### InstanceLifecycle

Instances are numbered in the order they are made and have an address each;
`At(a)` is what a native call with address `a` reaches. `instanceState` and
`pendingFree` are LibFreeRDP's maps (the first as the set of addresses mapped to
true), `calls` the posted and not yet run calls of the thread-safe functions,
`worker[i]` the stages of `harmonyos_thread_func`. `freeing` is the instance for
which `freerdp_harmonyos_free` waits; the main thread does nothing else
meanwhile. Three constants state what the code does not decide:

- `Reuse`: the allocator may return the address of a freed context again.
- `InOrder`: calls of *different* thread-safe functions run in the order they
  were posted. N-API promises order only within one function; success and
  disconnected use two. `StateIsTruthful` and `ReleasedIsFreed` need it, and so does
  the session's `PhaseIsTruthful`: of callbacks out of order (the hazard at
  `cpp/harmonyos_napi.cpp:275`) the runs show nothing. `FreedOnce` and
  `ReleasedIsOwed` are proved without it.
- `Prompt`: a worker whose abort event is set ends within the three seconds.

`ConnectBegins` is `freerdp_connect_begin` and, while connecting, the retry of
`freerdp_reconnect`: both reset the abort event. A retry ends as the first try does,
with the callbacks and their outcome open.

A thread whose context is freed under it may do anything; the model lets it
carry on, marks the context `torn`, and states the properties that would be
meaningless then under `NoUseAfterFree`. Failed allocations are left out here:
`EventQueue` has the push that fails.

### Session

`Session` puts the page and the reconnection manager on top of
InstanceLifecycle, whose variables it shares: each of its actions that calls
LibFreeRDP is a conjunction with one of `L!NewInstance`, `L!Connect`, .... A
handler that makes two such calls takes two steps and holds the main thread
between them (`task`); worker threads move in between, no other handler does.
`ClosePage` is `cleanup` up to its `await`, `CleanupEnds` the rest, so that another
page may open between the two. Every outcome of newInstance,
setConnectionInfo and connect is there. Not split further: `MarkConnected` and
`MarkDisconnected` are the manager's part of a callback, in the same action as
the page's. A second `initialize` registers the handlers again; they are
idempotent, so one firing stands for two.

The module uses InstanceLifecycle's actions; that the instances then behave as that
module says holds by this construction and is no result of its own. It is of use in
the proofs: what is proved of an instance holds of a session's.

`up` is the network as its last event told, `net` is `isNetworkAvailable`. The two
differ because `initialize` writes what `hasDefaultNet` answers after an `await`:
`probe` holds the answers that may still come, those true at some time since the
call, and `NetProbed` writes one of them, or none if the call threw. A page opened
before the answer to the last one's call shares it. `stranded` is a history: an attempt
failed while `net` was false and nothing follows it.

No address is used again here: the n-th instance has address n. What a reused
address adds is reachable only when an instance is freed under its thread, whose late
report then meets a third instance at that address: then the timer could find the
session still known as connected and `doReconnect` would take its branch for that
(`NetworkManager.ets:301-306`). The branch is left out, and so no result about
Session speaks of reused addresses. `NoStrayTimer` says that without reuse the
timer never finds that case.

### Renderer

`Renderer` has what the threads share to draw: `window`, `active`
(`g_activeContext`), the holder of `g_nativeWindow_mutex`, each context's buffer
(`gdi`) and whether a region is marked (`invalid`). Worker threads connect,
paint, resize and tear down; the main thread redraws, sets and releases the
surface, frees, and marks the desktop on leaving the background. `end_paint`
publishes the active context before it takes the mutex, and `post_disconnect`
frees the buffer without taking it: both are so in the model. `ctx` says whether a
context is live, was given back after its thread had ended (`Free`), or under it
(`FreeTimesOut`): free waits three seconds for the thread, logs that and goes on. A
`torn` context's thread carries on, one of the things it may do.
`ConnectFails` has the failure returns of `post_connect`, with the buffer made or
not; `freerdp_disconnect` follows. The pixels and the viewport's geometry are abstracted away; a redraw for
`set_display_mode` differs from one for `set_viewport` in nothing that is kept.

### TouchGesture and RemoteMouse

`TouchGesture` is `onSessionTouch` with all it calls, one action per case: the
primary finger down, a second finger down in time for a right click, moves that
begin a scroll, scroll, or drag, and the cases of `handlePrimaryEnd` in the order in
which the code tests them. A coordinate is one number, a time an age in ticks. The
hold timer and the recognisers' `onActionStart` interleave freely. `Vanish` is a
finger whose end no handler sees; the code's stale-finger check (`Stale`) answers it.
`sent` keeps the messages of the last handler that sent any; `turned` and `start`
are histories of the wheel.

`RemoteMouse` is what the remote desktop may expect of a mouse: press, drag,
release; clicks at one spot; a wheel that turns with the button up. After a lost
touch it promises nothing until the button is up. `RemoteSeesAMouse` is the
refinement.

### DesktopResize

`watch` is `pendingResizeW`, `pendingResizeH`, `resizeRetryCount` and whether the timer is
armed. `MaybeRequestDesktopResize`, `CheckResizeResult` and `SendResizeRequest` are
functions from a watch to a watch and what is sent, as one handler may call two of
them. Sizes are model values of which some are `Landscape`: the code asks for a
desktop only when the orientations differ. The server and the channel are
external: the server honours a request (rounding the size, keeping the
orientation), drops it, or answers with the size it has, and it may go on doing
either of these for ever. `lost` counts what became of the present series.
`connectionState` changes as its handlers allow, in any order; Session says which
orders really come.

### ImeBridge

`base` and `preview` are the hidden field, `imeTrackedValue`, `imeLastPreview` and
`imeVetoExpectedEmpty` the page's own state, `remote` the text that the key events have
produced on the other side, `meant` the text the user meant. `OnImeTextChanged` and
the three outcomes of `onImeWillDelete` are translated; which events the field and
the input method raise is external and taken from what the handlers and their
comments expect. A commit may come without preview, with an empty one, or with
itself as a preview and an event that ends it later. Its definitions carry the
prefix `Ime` where TouchGesture has one of the same name: both are input of the
session page, and their proofs share a module (`PageInput_proofs`).

### CursorShapes

`conn`, `pointer` and `cache` are the instances' sessions and pointer caches, `last`
the globals that `Pointer_Set` compares with, `queue` the thread-safe function,
`frees` and `buffers` the ownership of each copied bitmap, `decoding` the awaited
calls of `createPixelMap`, `overlay` the page's `cursorPixelMap`. An allocation or a
decoding may fail. `addr` gives the page's instances their addresses: the page's
callback compares addresses, and a new instance may have that of one whose thread has
ended, while reports of the old one are still queued. `overlay.of` remembers whose event
the overlay came from. `overlapped` is a history: a session began while another was
up. What the code does not decide is the constant `InOrder` (decodings end in the
order in which they began).

Left out: the status of `napi_call_threadsafe_function`, which the code ignores
(`cpp/harmonyos_napi.cpp:388`), and the early returns of `CallJS_CursorShape` (`:211`,
`:214`): both occur while the environment is torn down, and leak the copy or skip the
page. Nor is an instance covered whose context is freed under its running thread; its
reports may come at any later time, from an address in use again.

## 4. The runs

| Run | States | What it checks |
|---|---|---|
| `EventQueue_traffic` | 105,388 | ownership, FIFO refinement, no stranded disconnect, a disconnect stops the worker, traffic repairs a lost wake-up |
| `AudioRing_sound` | 354,516 | FIFO refinement, no stale audio, the volume unless it was refused, safe teardown, operations end |
| `Lifecycle_inorder` | 52,139 | freed once; truthful state and every released instance freed when callbacks keep their order |
| `Lifecycle_lostabort` | violation | no context is freed under its thread |
| `Session_reconnect` | 445,316 | no stray timer, no second instance of a live session, an attempt under way for a page that waits for a lost session, no end missed, attempts end if the network is there |
| `Session_stuck` | violation | a reconnection flagged is under way |
| `Renderer_locks` | 198,128 | active context alive, resize and window changes exclude drawing |
| `Renderer_teardown` | violation | the buffer outlives the drawing |
| `Touch_gestures` | 184,916 | no stuck button, the wheel adds up, refinement of RemoteMouse, a tap is decided |
| `Resize_watchdog` | 165,900 | no stale size is asked for, a mismatch is put right unless a series was lost or refused, requests come to rest with the answers |
| `Ime_bridge` | 36,207 | the remote text is the one meant, a composition harms nothing |
| `Cursor_overlay` | 340,132 | bitmaps freed once and in the end, a page's own cursor stays, a cursor that stays is shown |

The bounds, and why they are enough:

- **EventQueue**: two callers and three events, one of each kind, so that pushes
  overlap each other, the drain and the disconnect; `MaxEventRetries` 2 has a
  first, a middle and a last try. The code's callers are all on the main thread
  today, but its functions lock and so promise more; two callers subsume one.
- **AudioRing**: capacity 3 with chunks of 1, 2 and 4 bytes covers smaller than,
  about as large as, and larger than the ring, and both positions wrap;
  `MaxBytes` 6 fills the ring twice; two formats and `MaxOpens` 2 make one
  format change, which is where state of the old renderer could survive.
- **InstanceLifecycle**: two addresses and two instances make one succeed or run
  beside another; with `Reuse` the second may have the first one's address. The
  `inorder` run has slow workers (`Prompt` false), the other one prompt ones, so
  that what it shows does not depend on slowness.
- **Session**: two instances are the page's and one of a reconnection, or two
  pages'; the network and the pages come and go freely, any number of times.
  `MaxAttempts` 2 has a first and a last attempt. Addresses are not reused (section 3).
  What takes three instances, a page beside another page's reconnection, is left to
  the theorems of section 6, which hold for any number. Callbacks keep their order
  (`InOrder`), which `PhaseIsTruthful` needs and the other theorems do not.
- **Renderer**: three instances: one ending, one drawing, one connecting.
- **TouchGesture**: two fingers make a primary and a second one, and a finger that
  comes while a lost one is still held to be the primary. Four places with a slop of
  one and a wheel step of two have taps that stray, scrolls with a rest, and steps
  forwards and backwards; the delays are 1 < 2 < 3 < 4 ticks, in the order of the
  code's 120, 250, 300 and 350 ms.
- **DesktopResize**: one landscape and two portrait sizes: the second portrait size
  is a pending one that is not the surface's any more. Two rotations go and come
  back; three changes lose a session and bring it again; `RESIZE_MAX_RETRY` is the
  code's 3. `MaxInFlight` 3 bounds what is under way between page and server.
- **ImeBridge**: two letters and the words `a`, `b`, `ab`: a composition that grows,
  one that breaks off, and common prefixes; texts of up to six letters over a field
  of three, so that it overflows and is replaced; a remote text that is not empty before.
- **CursorShapes**: two pointers, two sessions, one after the other or overlapping,
  the second at the first one's address or at another, three updates, three payloads
  and one failure: the second page can see the first one's pointer again, which is
  what the comparison must not leave out, and have the first one's reports in its
  queue and its decodings.

Deadlock is not checked: every one of these systems may end (a freed queue, a
freed device, no more instances), and the model of `desktop_resize` contains a
thread that waits for itself (section 7).

## 5. Fairness

- **EventQueue**: the worker thread is scheduled (weak fairness of its steps as
  a whole), and a caller that has begun a push finishes it. Nobody has to push,
  disconnect or free; the server has to send only where the property says so
  (`[]<>net`).
- **AudioRing**: strong fairness of the channel thread's steps and of the
  callback's. Each is often blocked for a moment by the other: the lock is
  taken and given back again and again, so no step is enabled continuously.
  A callback takes microseconds of a period of milliseconds and both critical
  sections are short, so a waiting thread does get its turn. Neither the server
  nor the audio service has to call.
- **InstanceLifecycle**: worker threads are scheduled, posted calls are run,
  waits end. The server need not end a session: `RunBreaks` has no fairness.
- **Session**: an armed timer fires and a handler that was begun finishes (one
  condition, as the main thread does one of them at a time), free's wait ends, the
  threads are scheduled. The user need not close the page, and the network
  need not change or come back: `AttemptsEnd` speaks of behaviours in which it is
  there whenever the manager is reconnecting, `[](reconnecting => net)`.
- **TouchGesture**: time passes and a due hold timer fires. No finger need ever
  lift.
- **DesktopResize**: a view that was made loads, callbacks and due timers run, and
  the server answers or drops what reaches it. Nothing makes it grant a request:
  an attempt that is dropped or refused counts as lost, and `EventuallyFills` excuses
  a series lost as a whole.
- **CursorShapes**: the JS thread runs its calls, a decoding ends, the collector
  collects what nothing refers to. The server need not send anything.

ImeBridge and Renderer are checked for safety only.

## 6. What is proved

All theorems are about `Spec` without fairness, for every value of the constants
that satisfies the module's ASSUMEs.

- `EventQueue_proofs` (any callers, events and retry limit)
  - `TypeCorrect`.
  - `DisconnectWakes`: `[]DisconnectNeverStranded`. The property is not
    inductive: it says nothing of a worker that is not blocked yet.
    `DisconnectInvariant` is the strengthening: a queued disconnect has its caller
    still at work, or the abort set, or the signal set with no reset about to
    clear it, and before `freerdp_connect_begin` erases the abort every queued
    event is signalled.
  - `OwnedOnce`: `[]EventOwnedOnce`. The accepted events, `handled \o queue \o
    discarded`, only change by an append of an event that nothing holds; the lemmas
    on injective sequences and on ranges carry it, and `ClosedOnce` says that a
    closed queue is empty.
  - `QueueRefinesStream`: `StreamSafety`. Initial states map to initial
    states and every step to an `Accept`, a `Take`, the `Close` or a stutter
    (`StepHistory`).
- `InstanceLifecycle_proofs` (any number of instances, addresses reused or not,
  callbacks in any order)
  - `TypeCorrect`, `FreedOnceCorrect`: `[]FreedOnce`. The invariant adds that an
    address has at most one live instance, the last made there (`LiveIsLast`),
    and that `pendingFree` only holds addresses of live instances, known as
    connected, that are not being freed (`PendingIsLive`): the deferred free
    then reaches a live context, and the immediate one cannot have come before.
  - `StateStaysTruthful`: `InOrder` implies `[]StateIsTruthful`. `TruthInvariant`
    adds that every posted success still has the end of its session ahead of it, in
    the worker or behind it in the queue (`EndFollows`), that a posted call names an
    instance made, with its address (`Stored`), and `Truth`, the property without its
    premise: it holds even of sessions whose context was freed under their thread.
  - `ReleasedIsRemembered`: an instance passed to `freeInstance` and not freed yet is
    being freed or in `pendingFree` (`ReleasedIsOwed`), with addresses reused and
    callbacks in any order. `ReleasedNotInVain`: with `InOrder` it also has a
    disconnect callback of its address still to come. Together they are the safety
    half of `ReleasedIsFreed`: all that fairness adds is that the callback comes.
  - `DeferredFreeIsPrompt`: `DeferredFreeFindsThreadDone` without reuse of
    addresses. `DeferredInvariant` says that an address then names one instance and
    that each posted end is of a thread that is ending (`Faithful`); with reuse the
    property is false (section 7), and `OneInstance` is exactly what fails.
- `Session_proofs` (any number of instances and attempts)
  - `TypeCorrect`. A handler that has made an instance connects that one
    (`MadeExists`), so that what `InstanceLifecycle_proofs` shows of a step can be cited
    for the instances of a session (`StepRefines`, `LifecycleStep`).
  - `LostSessionAlwaysTried`: `[]LostSessionIsTried`. The flag is not enough: while
    reconnecting, the timer is armed or `doReconnect` is at work, or the last attempt
    failed with no network known (`ReconnectingIsFor`). The two exceptions, such a
    failure and the end of all attempts, are in the statement.
  - `NoTimerIsStray`, `NoSecondIsStarted`: `[]NoStrayTimer` and `NoSecondInstance`.
    `InstancesInvariant` says that an address names one instance and that a posted
    end is of a thread that is ending; `ManagerInvariant` that a disconnected session has
    lost its thread (`LostIsIdle`), that a session outlives its page only while the
    page's cleanup waits (`Owned`), and that an attempt is of a session whose thread
    has ended, or is under the eyes of such a cleanup (`TriesTheLost`).
  - `PhaseStaysTruthful`: with `InOrder`, a session that the manager takes for connected
    or connecting has its end still to come, or no thread was made for it
    (`PhaseIsTruthful`). It bounds the harm of declaring a reconnection successful
    when its thread was only started. TLC refutes it without `InOrder`.
  - `ClosedPageLeavesNothing`: the instance of a closed page was released, and while
    it lives it is being freed or in `pendingFree`. `PageIsReleased` says the
    first half; `ReleasedIsOwed` of InstanceLifecycle, cited step by step, gives
    the second.
  - `AttemptStaysUnderWay`, `AttemptsOnlyAdvance`: what of `AttemptsEnd` needs no
    fairness. If the network is there whenever the manager is reconnecting, that means
    that the timer is armed or `doReconnect` at work (a failure without the network is
    what `Session_stuck` shows). And the timer is armed again only by a failure that
    counts, so that a series has at most `MaxAttempts`.
- `AudioRing_proofs` (any capacity, chunk sizes, formats and volumes)
  - `TypeCorrect`; the wave in `play` is one that was sent (`WaveIsSent`), which
    bounds what the ring is given.
  - `TeardownSafe`: `[]CallbackSafe`, from who holds the lock (`LockIsHeld`) and from a
    callback in flight having a renderer (`CallbackNeedsRenderer`).
  - `NoDeadlock`, from the same invariant: the channel, which waits for the lock and,
    in Stop and Release, for the callback, and the callback, which waits for the lock,
    never wait for each other.
  - `VolumeAlwaysFollows`: `[]VolumeFollows`, from `VolumeInv`: the backend's cache and
    the channel's deferred volume agree at each stage, and the renderer plays at the
    cached volume unless the audio service refused just that one.
  - `NothingStale` (`NoStaleAudio`), from `RingIsOfRenderer`: what the ring holds
    arrived for the renderer there is.
  - `RingIsFifo` (`FifoSafety`): the refinement of `AudioFifo`, from `RingIsNewest`:
    the head is `used` bytes after the tail, and the byte x places after the tail is
    number `received - used + x`. Lemmas on positions modulo the capacity
    (`Wrapped`, `Steps`, `Places`, `SameEnd`) carry it through a write that drops,
    wraps, or replaces the whole ring.
- `Renderer_proofs` (any instances)
  - `TypeCorrect`, `ActiveAlwaysAlive`, `WindowSafe`, `ResizeExclusive`. The
    invariant is the conjunction of the type, `MutexIsHeld` (the mutex belongs to
    whoever draws or resizes), `ActiveIsAlive` and `WindowOutlivesDrawing`. The active
    context may be one that free gave back under its running thread; that is the
    exception `ActiveIsAlive` states, and section 7 what it means.
- `PageInput_proofs`, TouchGesture (any fingers, coordinates, slops and delays)
  - `TypeCorrect`, `ButtonIsReleased` (`[]NoStuckButton`), `TapIsRemembered`
    (`[]TapMemory`: while a double click may still come, the last thing sent is the
    click it would double), `WheelIsExact` (`[]WheelFollowsFinger`) and
    `ImplementsRemoteMouse`. The invariant says which of the gesture's flags can
    hold together (`Modes`) and ties the remote button to `tapButtonSent` and the
    primary finger to the glass as long as no touch was lost (`Button`).
- `PageInput_proofs`, ImeBridge (any texts, any limit of the field)
  - `ImeTypeCorrect`; `TypedAsMeant` (`[]RemoteIsMeant`) and `CompositionsAreHarmless`
    (`[]CompositionIsHarmless`), both for `~EndAfterOverflow`: a selected field has no
    composition left to end. With it both fail, in the way section 7 describes.
  - The properties speak of moments between compositions only, so `ImeInv` has one part
    for each stage: without a composition the page tracks the field (`Quiet`); during
    one, what is tracked and the remote text are longer by the same preview
    (`Composing`); before the event that ends it, the field ends in the commit where
    the remote text ends in what was sent for it (`Ending`); a field that overflowed
    is selected and no longer tracked (`Overflowed`); a vetoed deletion left a text
    behind it (`Vetoed`).
  - What `SendDifference` does is the lemma `Difference`: the backspaces and letters
    it sends change the end of the remote text as the end of the field changed,
    whatever stands before either. It rests on the longest common prefix of two
    texts, whose existence is a fact on bounded sets of numbers (`HasMaximum`,
    `LongestKeeps`), and on how texts split and join (`Split`, `SplitEnd`, `Rejoin`).
- `DesktopResize_proofs` (any sizes, any number of attempts, any conduct of the server)
  - `TypeCorrect`; `WatchIsTimed` (`[]PendingIsWatched`: a pending request is under the
    timer's watch and its series is counted); `TargetIsFresh`
    (`[]AsksForThisSurface`), whose invariant is what each function of the
    watchdog returns (`GoodOutcome`); `RequestsWhileConnected`.
  - `TurnedDesktopIsSought`: as long as the page shows a desktop that lies the wrong
    way, a request for this surface is under watch, or all attempts of a series were lost,
    or one of them is still under way, or its answer is (`SoughtOrLost`). The invariant
    accounts for the attempts of a series (`SeriesAccounted`, and after giving up
    `GivenUpAccounted`): those not lost are the last ones in the queue to
    the server, as a rotation may begin a series while older requests are under way,
    or a report of their orientation is coming back.
- `CursorShapes_proofs` (any sessions at any addresses, pointers and bounds)
  - `TypeCorrect`.
  - `NeverFreedTwice`: a copy of a bitmap that was made is once in the queue, or
    belongs to one buffer, or was freed once (`OneOwner`); `DecodedNotFreed`: the bitmap
    that `createPixelMap` reads is not freed under it (`DecodedIsOwned`). Both hold for
    decodings that end in any order.
  - `OwnCursorAlwaysStays`: with `InOrder`, `OwnCursorStays`, sessions overlapping or
    not. `FifoInv` says why: an instance gets an address only when the last thread
    there has ended, so that its reports are behind all the earlier ones', in the queue
    (`OldFirst`) and among the decodings, and once one of its own is shown none of the
    others is left (`OneRuns`, `EventsOld`).
  - `ShapeIsOnItsWay`, `ShapeIsShown`: with `InOrder` and while no sessions have
    overlapped, a shape that the server left in place and no failure dropped is the last of
    its session in the queue, or the last being decoded with nothing behind it, or the
    one shown (`WantedIsOnItsWay`). The invariant adds that what `Pointer_Set` compares
    with is the pointer of the one session that is up (`LastIsCurrent`): a report
    left out is one the page has had. TLC refutes `ShapeArrives` without either
    condition (section 7).

Every invariant that a run checks is stated by a theorem. Only model-checked: what
needs fairness, as liveness and `ENABLED` are out of the prover's reach. Of
`PayloadFreedOnce`, `ShapeArrives`, `ReleasedIsFreed`, `OperationsEnd`, `EventuallyFills`
and `AttemptsEnd` the safety half is proved, and what is left to TLC is that the last
step comes; that a disconnect stops the worker, that input is handled under traffic,
that a tap is decided and that the watchdog comes to rest (`GivesUpUnanswered`) are left
to TLC whole. No theorem rests on induction over recursive definitions.

## 7. What the runs found

Each of these is a violation run with a counterexample; `PROJECT.json` quotes the
line of the repository that says otherwise.

- **Lost abort** (`Lifecycle_lostabort`, `cpp/harmonyos_freerdp.cpp:1394`). An
  instance freed right after connect: the abort comes before
  `freerdp_connect_begin`, which clears it, the wait runs out, and the context is
  freed under its thread.
- **Stuck reconnection** (`Session_stuck`, `ets/services/NetworkManager.ets:273`).
  The network goes while an attempt fails: `isReconnecting` stays set, and no
  later `netAvailable` starts anything.
- **Buffer freed under a drawing** (`Renderer_teardown`,
  `cpp/harmonyos_freerdp.cpp:909`). `post_disconnect` calls `gdi_free` without the mutex.

The modules also state, under the heading *what the code does not keep*, properties
that TLC refutes in seconds when they are put into a cfg; they have no run of their
own. The cfg to change is given with each:

- **Lost wake-up** (`EveryInputHandled`, `EventQueue_traffic` without a disconnect;
  `cpp/harmonyos_event.c:203`). The event is reset after the drain loop; a push that
  signals between the last empty dequeue and the reset stays queued until something
  else wakes the worker. `HandledUnderTraffic` shows how the harm is limited: any
  server traffic drains the queue too.
- **Recycled address** (`DeferredFreeFindsThreadDone`, `Lifecycle_inorder` with
  `Prompt`; `ets/services/LibFreeRDP.ets:276`). A report still under way for a freed
  instance is taken for one of a new instance at the same address and frees it while
  it runs. Without reuse of addresses the property holds, for any number of
  instances (`DeferredFreeIsPrompt`).
- **Spinner without end** (`WaitHasAnEnd`, `Session_reconnect`;
  `ets/pages/SessionPage.ets:725`). A loss of the network that the connection
  outlives leaves the page waiting. `LostSessionIsTried` is what does hold: a page
  that waits for a session known to be lost has an attempt under way.
- **Untried loss** (`EveryLossIsTried`, `Session_reconnect`;
  `ets/services/NetworkManager.ets:85`). Only `netAvailable` starts the attempts. A
  session that ends while the network is there is marked disconnected and left so until
  the network changes.
- **Rival sessions** (`OneSession`, `Session_reconnect` with `Limit` 3 and the
  invariants and step properties only; `ets/services/NetworkManager.ets:182`). The
  instance a reconnection made is known
  to the manager only; closing the page frees the page's own, and the next page runs
  beside the other. For the same reason the page ignores the reports of the new
  instance, its cursor among them, and sends its touches, heartbeats and resize
  requests to the old one. It takes three instances: with `Limit` 2 the property holds.
- **Timer of a forgotten session** (`NeverASecondInstance`, `Session_reconnect` with
  `Limit` 3, without the liveness property;
  `ets/pages/SessionPage.ets:892`). A page is closed with a reconnection armed and its
  cleanup waits for the background service; a new page opens and connects; the timer,
  not cancelled yet, makes another instance of the new page's session. It takes a
  cleanup that waits longer than the timer has left. Outside that wait
  `NoSecondInstance` holds.
- **Stubborn server** (`GivesUp`, `Resize_watchdog`;
  `ets/pages/SessionPage.ets:640`). A server that answers each request with the
  desktop it has (`ServerRefuses`) is asked for ever: the answer ends the watch only after
  `RESIZE_MAX_RETRY`, and `onNegotiatedSettings` then begins a new series, although
  the comment at line 375 has the page give up after several failures and keep the
  letterbox. Its two calls in a row also send
  the second attempt at once, not after the 1500 ms of the timer. With a server that
  falls silent the page does give up (`GivesUpUnanswered`).
- **Torn context published** (`ActiveNeverTorn`, `Renderer_locks`;
  `cpp/harmonyos_freerdp.cpp:1394`). A thread that outlives its context, freed after
  the three seconds, makes it the active one again at its next `end_paint`; the main
  thread's next redraw reads it.
- **Retyped field** (`RemoteIsMeant`, `Ime_bridge` with `EndAfterOverflow`). After an
  overflow `imeTrackedValue` is empty while the field still shows its text; an event
  that ends the composition then types the whole field again. Whether the input
  method raises it for a field that was just selected, the code cannot know; its
  comment (`SessionPage.ets:1796`) takes the next event to be new input.
- **Cursor of an earlier session** (`OnlyOwnCursors`, `Cursor_overlay`;
  `SessionPage.ets:255`). The page's test compares addresses. A shape of an earlier
  instance still in the queue, or on its way, when the new page's instance gets its
  address is shown by the new page. It goes when the page's own first report
  comes, for which `OwnCursorStays` and `ShapeArrives` speak.
- **Older cursor** (`ShapeArrives` and `OwnCursorStays`, `Cursor_overlay` with
  `InOrder` false; `SessionPage.ets:1261`). Two decodings that end the other way round
  leave the older shape, which may be an earlier session's.
- **Shape left out** (`ShapeArrives` without `~overlapped`, `Cursor_overlay`;
  `cpp/harmonyos_freerdp.cpp:739`). The comparison in `Pointer_Set` is one for all
  instances: of sessions that overlap, the second may not report a shape that its page
  has not had.

Also seen while modelling:

- `desktop_resize` holds the mutex while `gdi_resize` ends a paint under way, whose
  `end_paint` takes the same mutex. With a region marked by
  `exit_background_mode` the thread waits for itself (`stuck` in `Renderer`).
- `reconnectAttempts` is never changed, so `harmonyos_thread_func` reports a
  refused connection as a disconnection and `OnConnectionFailure` never comes
  (`cpp/harmonyos_freerdp.cpp:1247`).
- A reconnection is declared successful when its thread has been created
  (`NetworkManager.ets:374`).
- `cleanup` clears the session info after an await; when another page has opened
  meanwhile, its session is forgotten (`SessionPage.ets:895`).
- An instance whose `setConnectionInfo` failed in `doReconnect` is never freed.
- The ring's overflow counter counts writes, not bytes as its comment says
  (`rdpsnd_ohos.c:72`, `:110`).
- A clear event does not wait for a decoding under way: a cursor that the server has
  hidden comes back when the decoding ends (`SessionPage.ets:1245`).
- When the copy kept for `Pointer_Set`'s comparison cannot be allocated, its length
  stays set and the next comparison reads through a null pointer
  (`cpp/harmonyos_freerdp.cpp:743`).
- After an overflow of the IME field one deletion is lost, as the code's own comment
  accepts; a character outside the basic plane is deleted with two backspaces.
- `onConnectionSuccess` awaits the background service before it starts the heartbeat.
  A page closed meanwhile has stopped a heartbeat that was not running; the one
  started afterwards, and the background task, never stop (`SessionPage.ets:617`,
  `ets/services/RdpBackgroundService.ets:45`). A start that comes while a stop is
  under way finds `isRunning` and does nothing.
- The display channel's context and owner are two globals that the worker thread
  writes one after the other and the JS thread tests one after the other, without a
  lock: the owner tests (`cpp/harmonyos_freerdp.cpp:403`, `:2409`) do not exclude that a
  new instance's channel is cleared or used by an old one between the two.

## 8. What is not modelled

The components marked `not_modelled` or `partly` in `PROJECT.json`, with reasons
there. In short:

- The user interface's forms and tables, the abilities and the JNI stubs have no
  shared state and no ordering to get wrong.
- The clipboard channel, the clipboard manager, the session manager's handlers, the
  audio focus and the compatibility layer's slots have no callers in the repository.
- FreeRDP, WinPR, OpenSSL, zlib and the other vendored libraries, about 1.3 million
  lines, are not this project's code. They appear only through what its correctness
  depends on: the abort event, the queue's lock, the sound channel's calls, the
  pointer cache. The modules cover the concurrent core of the project's own code,
  which is a small share of the repository.
- Wording, pixels, key codes, view transforms and command lines are data the
  properties do not tell apart.
- The background service with the page's heartbeat, and the display channel's globals
  shared by two instances: what they promise does not hold across their awaits, or
  without their missing lock (section 7), and a model would show that and nothing more.

Within modelled parts: ImeBridge leaves out key events that cannot be sent, a moved
caret, backspaces before the event that ends a composition, and a composition that
outgrows the field (a bound in the guard of `Compose`); CursorShapes takes
the comparison's own copy to be allocated and leaves out what section 3 names;
AudioRing is one life of a device: a dynamic channel that closes frees it, and one that
opens again begins with a new one (`rdpsnd_main.c:1652-1669`, `:1711-1736`), which is left
out; TouchGesture has one coordinate; Session has no reused addresses and one
reconnection handler per event, as section 3 explains; no handler of the page throws.

## 9. Plan

Done: the event queue, the audio backend, the instance lifecycle, the session
above it and the renderer, because an error there loses input, memory or a session,
and because each later module uses what the earlier ones established (Session is
composed with InstanceLifecycle; InstanceLifecycle's worker is EventQueue's, coarser).
Then the page's own machines: touches, the resize watchdog, the input method and
the cursor, each beside the others, as they share nothing but the page.

Left, in order:

1. Theorems: a measure that bounds the attempts of a series of the watchdog, as
   `AttemptsOnlyAdvance` does for the reconnection.
2. `BackgroundService` with the heartbeat, once the code says what is to hold across
   its awaits.
3. The display channel's globals for two instances, in `Renderer`.
4. The file-open notification's debounce.
