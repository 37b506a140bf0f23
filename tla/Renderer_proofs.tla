--------------------------- MODULE Renderer_proofs ---------------------------
(* Invariance proofs for Renderer, for any set of instances.  The mutex      *)
(* invariant gives the two exclusions; ActiveIsAlive rests on free waiting   *)
(* for the thread before it clears g_activeContext: a context that counts as *)
(* freed, and not as torn, has no thread left to publish it.                 *)
EXTENDS Renderer, TLAPS

FreedIsDone == \A i \in Instances : ctx[i] = "freed" => worker[i] = "done"

IInv == TypeOK /\ MutexIsHeld /\ FreedIsDone /\ ActiveIsAlive /\ WindowOutlivesDrawing

\* The initial state satisfies the invariant.
LEMMA InitInv == Init => IInv
<1> SUFFICES ASSUME Init PROVE IInv
  OBVIOUS
<1>1. \A i \in Instances : /\ ctx[i] = "live" /\ worker[i] = "none" /\ gdi[i] = "none"
                           /\ invalid[i] = FALSE /\ BufferFits(worker[i], gdi[i])
  BY DEF Init, BufferFits
<1>2. TypeOK
  BY <1>1 DEF Init, TypeOK, WorkerStates
<1>3. MutexIsHeld
  BY <1>1, RendererAssumption DEF Init, MutexIsHeld
<1>4. FreedIsDone /\ ActiveIsAlive /\ WindowOutlivesDrawing
  BY <1>1, RendererAssumption DEF Init, FreedIsDone, ActiveIsAlive, WindowOutlivesDrawing, Drawing
<1>. QED BY <1>2, <1>3, <1>4 DEF IInv

\* A step of the thread of instance j preserves the invariant.
LEMMA ThreadInv ==
  ASSUME IInv, NEW j \in Instances, Thread(j)
  PROVE  IInv'
<1> USE RendererAssumption DEF IInv, TypeOK, MutexIsHeld, FreedIsDone, ActiveIsAlive,
      WindowOutlivesDrawing, Drawing, WorkerStates, BufferFits, Goto, Mark, CanDraw
<1>1. CASE PostConnect(j)
  BY <1>1 DEF PostConnect
<1>11. CASE ConnectFails(j)
  BY <1>11 DEF ConnectFails
<1>2. CASE EndPaint(j)
  BY <1>2 DEF EndPaint
<1>3. CASE EmptyUpdate(j)
  BY <1>3 DEF EmptyUpdate
<1>4. CASE Draw(j)
  BY <1>4 DEF Draw
<1>5. CASE DrawEnds(j)
  BY <1>5 DEF DrawEnds
<1>6. CASE NotDrawn(j)
  BY <1>6 DEF NotDrawn
<1>7. CASE Resize(j)
  BY <1>7 DEF Resize
<1>8. CASE ResizeEnds(j)
  BY <1>8 DEF ResizeEnds
<1>9. CASE GdiFree(j)
  BY <1>9 DEF GdiFree
<1>10. CASE GdiFreed(j)
  BY <1>10 DEF GdiFreed
<1> QED BY <1>1, <1>2, <1>3, <1>4, <1>5, <1>6, <1>7, <1>8, <1>9, <1>10, <1>11 DEF Thread

\* So does a step of the main thread.
LEMMA MainThreadInv ==
  ASSUME IInv, MainThread
  PROVE  IInv'
<1> USE RendererAssumption DEF IInv, TypeOK, MutexIsHeld, FreedIsDone, ActiveIsAlive,
      WindowOutlivesDrawing, Drawing, WorkerStates, BufferFits, Mark, CanDraw
<1>1. CASE Redraw
  BY <1>1 DEF Redraw
<1>2. CASE RedrawEnds
  BY <1>2 DEF RedrawEnds
<1>3. CASE SetSurface
  BY <1>3 DEF SetSurface
<1>4. CASE ReleaseSurface
  BY <1>4 DEF ReleaseSurface
<1>5. ASSUME NEW i \in Instances, Free(i)
      PROVE  IInv'
  BY <1>5 DEF Free
<1>7. ASSUME NEW i \in Instances, FreeTimesOut(i)
      PROVE  IInv'
  BY <1>7 DEF FreeTimesOut
<1>6. ASSUME NEW i \in Instances, ExitBackground(i)
      PROVE  IInv'
  BY <1>6 DEF ExitBackground
<1> QED BY <1>1, <1>2, <1>3, <1>4, <1>5, <1>6, <1>7 DEF MainThread

LEMMA Inductive == Spec => []IInv
<1>1. IInv /\ [Next]_vars => IInv'
  <2> SUFFICES ASSUME IInv, [Next]_vars PROVE IInv'
    OBVIOUS
  <2>1. CASE UNCHANGED vars
    BY <2>1 DEF vars, IInv, TypeOK, MutexIsHeld, FreedIsDone, ActiveIsAlive, WindowOutlivesDrawing, Drawing
  <2>2. CASE Next
    BY <2>2, ThreadInv, MainThreadInv DEF Next
  <2> QED BY <2>1, <2>2
<1> QED BY InitInv, <1>1, PTL DEF Spec

\* Every variable keeps its type.
THEOREM TypeCorrect == Spec => []TypeOK
BY Inductive, PTL DEF IInv

\* Whatever end_paint published without the mutex, the active context is never one
\* that freerdp_harmonyos_free has given back after its thread.
THEOREM ActiveAlwaysAlive == Spec => []ActiveIsAlive
BY Inductive, PTL DEF IInv

\* set_surface_id and release_surface never destroy a window that is drawn to.
THEOREM WindowSafe == Spec => []WindowOutlivesDrawing
BY Inductive, PTL DEF IInv

\* A desktop resize never frees a buffer that a thread is drawing from.
THEOREM ResizeExclusive == Spec => []ResizeIsExclusive
<1>1. IInv => ResizeIsExclusive
  BY RendererAssumption DEF IInv, TypeOK, MutexIsHeld, ResizeIsExclusive, Drawing
<1> QED BY Inductive, <1>1, PTL
=============================================================================
