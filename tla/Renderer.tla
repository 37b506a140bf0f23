------------------------------ MODULE Renderer ------------------------------
(***************************************************************************)
(* What the worker threads and the JS main thread share to draw the remote *)
(* desktop: the native window, the active context, and each context's GDI  *)
(* frame buffer (harmonyos_freerdp.cpp).  g_nativeWindow_mutex is meant to *)
(* guard them; end_paint, post_disconnect and exit_background_mode do not  *)
(* take it.  The main thread is in one native call at a time.              *)
(***************************************************************************)
EXTENDS Integers

CONSTANTS
  Instances,           \* the instances made in the life of the library
  None, JS             \* no instance; the main thread

ASSUME RendererAssumption == None \notin Instances /\ JS \notin Instances /\ None # JS

VARIABLES
  window,              \* g_nativeWindow is set
  active,              \* g_activeContext: an instance, or None
  mutex,               \* holder of g_nativeWindow_mutex: an instance's thread, JS or None
  ctx,                 \* ctx[i]: live, or given back: freed, or torn from under its thread
  worker,              \* worker[i]: where the thread of instance i is
  gdi,                 \* gdi[i]: context->gdi: none, ready, or dangling while gdi_free runs
  invalid,             \* invalid[i]: hwnd->ninvalid >= 1
  drawn                \* the instance whose buffer the main thread draws, or None

vars == <<window, active, mutex, ctx, worker, gdi, invalid, drawn>>

WorkerStates == {"none", "up", "painting", "drawing", "resizing", "stuck", "failed", "closing",
                 "done"}

\* context->gdi points to a buffer between post_connect and post_disconnect only,
\* and to freed memory while gdi_free runs only.
BufferFits(state, buffer) ==
  /\ state \in {"none", "resizing", "done"} => buffer = "none"
  /\ state \in {"painting", "drawing", "stuck"} => buffer = "ready"
  /\ buffer = "dangling" => state = "closing"
  /\ buffer = "ready" => state # "closing"

TypeOK ==
  /\ window \in BOOLEAN
  /\ active \in Instances \cup {None}
  /\ mutex \in Instances \cup {JS, None}
  /\ ctx \in [Instances -> {"live", "freed", "torn"}]
  /\ worker \in [Instances -> WorkerStates]
  /\ gdi \in [Instances -> {"none", "ready", "dangling"}]
  /\ \A i \in Instances : BufferFits(worker[i], gdi[i])
  /\ invalid \in [Instances -> BOOLEAN]
  /\ drawn \in Instances \cup {None}

Init ==
  /\ window = FALSE
  /\ active = None
  /\ mutex = None
  /\ ctx = [i \in Instances |-> "live"]
  /\ worker = [i \in Instances |-> "none"]
  /\ gdi = [i \in Instances |-> "none"]
  /\ invalid = [i \in Instances |-> FALSE]
  /\ drawn = None

Goto(i, from, to) ==
  /\ worker[i] = from
  /\ worker' = [worker EXCEPT ![i] = to]

Mark(i, flag) == invalid' = [invalid EXCEPT ![i] = flag]

\* render_to_surface_unlocked goes on only with a window and a buffer to read.
CanDraw(i) == window /\ gdi[i] # "none"

-----------------------------------------------------------------------------
(* The thread of instance i.                                                *)

\* post_connect: gdi_init.
PostConnect(i) ==
  /\ Goto(i, "none", "up")
  /\ gdi' = [gdi EXCEPT ![i] = "ready"]
  /\ UNCHANGED <<window, active, mutex, ctx, invalid, drawn>>

\* gdi_init failed, or register_pointer after it, or nothing got as far as
\* post_connect: freerdp_connect goes on to freerdp_disconnect.
ConnectFails(i) ==
  /\ Goto(i, "none", "failed")
  /\ gdi' \in {gdi, [gdi EXCEPT ![i] = "ready"]}
  /\ UNCHANGED <<window, active, mutex, ctx, invalid, drawn>>

\* An update has drawn into the buffer; end_paint publishes its context.
EndPaint(i) ==
  /\ gdi[i] = "ready"
  /\ Goto(i, "up", "painting")
  /\ Mark(i, TRUE)
  /\ active' = i
  /\ UNCHANGED <<window, mutex, ctx, gdi, drawn>>

\* update_begin_paint resets the region; end_paint has nothing to show.
EmptyUpdate(i) ==
  /\ worker[i] = "up"
  /\ gdi[i] = "ready"
  /\ Mark(i, FALSE)
  /\ UNCHANGED <<window, active, mutex, ctx, worker, gdi, drawn>>

\* render_to_surface.
Draw(i) ==
  /\ mutex = None
  /\ CanDraw(i)
  /\ Goto(i, "painting", "drawing")
  /\ mutex' = i
  /\ UNCHANGED <<window, active, ctx, gdi, invalid, drawn>>

DrawEnds(i) ==
  /\ Goto(i, "drawing", "up")
  /\ mutex' = None
  /\ Mark(i, FALSE)
  /\ UNCHANGED <<window, active, ctx, gdi, drawn>>

\* No window, or no buffer from it: ArkTS is told instead.
NotDrawn(i) ==
  /\ mutex = None
  /\ Goto(i, "painting", "up")
  /\ Mark(i, FALSE)
  /\ UNCHANGED <<window, active, mutex, ctx, gdi, drawn>>

\* Mutants, here and below: what a plausible bug would make of the definition
\* that follows.  No specification uses them.
MutantResizeUnlocked(i) ==
  /\ gdi[i] = "ready"
  /\ Goto(i, "up", "resizing")
  /\ gdi' = [gdi EXCEPT ![i] = "none"]
  /\ UNCHANGED <<window, active, mutex, ctx, invalid, drawn>>

\* desktop_resize takes the mutex and calls gdi_resize, which first ends the paint
\* that may be under way: with a region to show, end_paint asks for the mutex that
\* its own thread holds.
Resize(i) ==
  /\ mutex = None
  /\ gdi[i] = "ready"
  /\ mutex' = i
  /\ \/ /\ ~invalid[i]
        /\ Goto(i, "up", "resizing")
        /\ gdi' = [gdi EXCEPT ![i] = "none"]
        /\ UNCHANGED active
     \/ /\ invalid[i]
        /\ Goto(i, "up", "stuck")
        /\ active' = i
        /\ UNCHANGED gdi
  /\ UNCHANGED <<window, ctx, invalid, drawn>>

\* gdi_init_primary gave a new buffer, or failed and left none.
ResizeEnds(i) ==
  /\ Goto(i, "resizing", "up")
  /\ mutex' = None
  /\ \/ gdi' = [gdi EXCEPT ![i] = "ready"]
     \/ UNCHANGED gdi
  /\ UNCHANGED <<window, active, ctx, invalid, drawn>>

\* post_disconnect: gdi_free frees the buffer and the structure ...
GdiFree(i) ==
  /\ Goto(i, "up", "closing") \/ Goto(i, "failed", "closing")
  /\ gdi' = [gdi EXCEPT ![i] = IF gdi[i] = "ready" THEN "dangling" ELSE "none"]
  /\ UNCHANGED <<window, active, mutex, ctx, invalid, drawn>>

MutantGdiKeepsPointer(i) ==
  /\ Goto(i, "closing", "done")
  /\ UNCHANGED <<window, active, mutex, ctx, gdi, invalid, drawn>>

\* ... and then clears the pointer to them.  The thread ends.
GdiFreed(i) ==
  /\ Goto(i, "closing", "done")
  /\ gdi' = [gdi EXCEPT ![i] = "none"]
  /\ UNCHANGED <<window, active, mutex, ctx, invalid, drawn>>

-----------------------------------------------------------------------------
(* The main thread.                                                         *)

\* set_viewport and set_display_mode draw the active context again.
Redraw ==
  /\ mutex = None
  /\ active # None
  /\ CanDraw(active)
  /\ mutex' = JS
  /\ drawn' = active
  /\ UNCHANGED <<window, active, ctx, worker, gdi, invalid>>

RedrawEnds ==
  /\ drawn # None
  /\ drawn' = None
  /\ mutex' = None
  /\ UNCHANGED <<window, active, ctx, worker, gdi, invalid>>

\* set_surface_id: a window it replaces is released first, its successor may fail.
SetSurface ==
  /\ mutex = None
  /\ drawn = None
  /\ window' \in BOOLEAN
  /\ active' = IF window THEN None ELSE active
  /\ UNCHANGED <<mutex, ctx, worker, gdi, invalid, drawn>>

MutantReleaseUnlocked ==
  /\ drawn = None
  /\ window' = FALSE
  /\ active' = None
  /\ UNCHANGED <<mutex, ctx, worker, gdi, invalid, drawn>>

ReleaseSurface ==
  /\ mutex = None
  /\ drawn = None
  /\ window' = FALSE
  /\ active' = None
  /\ UNCHANGED <<mutex, ctx, worker, gdi, invalid, drawn>>

MutantFreeKeepsActive(i) ==
  /\ mutex = None
  /\ drawn = None
  /\ ctx[i] = "live" /\ ctx' = [ctx EXCEPT ![i] = "freed"]
  /\ worker[i] \in {"none", "done"}
  /\ worker' = [worker EXCEPT ![i] = "done"]
  /\ UNCHANGED <<window, active, mutex, gdi, invalid, drawn>>

\* free, after its wait for the thread (InstanceLifecycle has the wait).
Free(i) ==
  /\ mutex = None
  /\ drawn = None
  /\ ctx[i] = "live" /\ ctx' = [ctx EXCEPT ![i] = "freed"]
  /\ worker[i] \in {"none", "done"}
  /\ worker' = [worker EXCEPT ![i] = "done"]
  /\ active' = None
  /\ UNCHANGED <<window, mutex, gdi, invalid, drawn>>

\* The wait times out: free says so and goes on.  On a freed context the thread
\* may do anything; that it carries on is the outcome modelled.
FreeTimesOut(i) ==
  /\ mutex = None
  /\ drawn = None
  /\ ctx[i] = "live" /\ ctx' = [ctx EXCEPT ![i] = "torn"]
  /\ worker[i] # "done"
  /\ active' = None
  /\ UNCHANGED <<window, mutex, worker, gdi, invalid, drawn>>

\* exit_background_mode marks the whole desktop for drawing, beside the thread.
ExitBackground(i) ==
  /\ drawn = None
  /\ ctx[i] = "live"
  /\ gdi[i] = "ready"
  /\ Mark(i, TRUE)
  /\ UNCHANGED <<window, active, mutex, ctx, worker, gdi, drawn>>

-----------------------------------------------------------------------------

Thread(i) ==
  \/ PostConnect(i) \/ ConnectFails(i) \/ EndPaint(i) \/ EmptyUpdate(i) \/ Draw(i) \/ DrawEnds(i) \/ NotDrawn(i)
  \/ Resize(i) \/ ResizeEnds(i) \/ GdiFree(i) \/ GdiFreed(i)

MainThread ==
  \/ Redraw \/ RedrawEnds \/ SetSurface \/ ReleaseSurface
  \/ \E i \in Instances : Free(i) \/ FreeTimesOut(i) \/ ExitBackground(i)

Next == MainThread \/ \E i \in Instances : Thread(i)

Spec == Init /\ [][Next]_vars

-----------------------------------------------------------------------------

Drawing(i) == worker[i] = "drawing" \/ drawn = i

\* The active context is one that was connected and that free has not given back,
\* whichever thread left it there; unless free gave it back under its own running
\* thread, after the 3 seconds it waits for that (README, section 7).
ActiveIsAlive == active # None => worker[active] # "none" /\ ctx[active] # "freed"

\* gdi_resize never replaces a buffer that is being drawn (desktop_resize: the UI
\* thread may be reading it).
ResizeIsExclusive == \A i \in Instances : worker[i] = "resizing" => ~Drawing(i)

\* The window is not destroyed under a drawing, of any instance, by any thread.
WindowOutlivesDrawing == \A i \in Instances : Drawing(i) => window

\* The mutex belongs to the one who draws or resizes, and to nobody else: what the
\* two properties above rest on.
MutexIsHeld ==
  /\ \A i \in Instances : mutex = i <=> worker[i] \in {"drawing", "resizing", "stuck"}
  /\ mutex = JS <=> drawn # None

-----------------------------------------------------------------------------
(* What the code does not keep (README, section 7).                          *)

\* The active context is never a freed one: a thread that outlives its context
\* publishes it again.
ActiveNeverTorn == active # None => ctx[active] = "live"

\* A buffer is not freed under a drawing of the main thread, by a disconnection
\* no more than by a resize (desktop_resize: without the lock, a use after free).
BufferOutlivesDrawing == drawn # None => gdi[drawn] # "dangling"

=============================================================================
