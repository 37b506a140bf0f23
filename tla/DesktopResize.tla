--------------------------- MODULE DesktopResize ---------------------------
(***************************************************************************)
(* The resize watchdog of SessionPage.ets.  In FILL mode, when the phone   *)
(* is turned so that surface and desktop no longer lie the same way, the   *)
(* page asks the server for a desktop of the surface's size and repeats    *)
(* the request on a timer, up to RESIZE_MAX_RETRY times.  The answers, the *)
(* timer, further rotations and the session's changes of state interleave. *)
(* The display channel and the server are modelled by what a request meets *)
(* there; Session says which of the state changes really come.             *)
(***************************************************************************)
EXTENDS Integers, Sequences

CONSTANTS
  Size, Landscape,        \* sizes, and those wider than high
  None,                   \* 0, where a size is not known or not pending
  RESIZE_MAX_RETRY,
  MaxRotations, MaxChanges, MaxInFlight    \* bounds of the model

ASSUME ResizeAssumption ==
  /\ Landscape \subseteq Size /\ None \notin Size
  /\ RESIZE_MAX_RETRY \in Nat \ {0}
  /\ {MaxRotations, MaxChanges, MaxInFlight} \subseteq Nat

VARIABLES
  displayMode,            \* FIT or FILL, chosen when the page appears
  connectionState,
  surface,                \* surfaceWidth and surfaceHeight, or None
  desktop,                \* desktopWidth and desktopHeight
  loading,                \* the view was made anew, its onLoad is to come
  watch,                  \* pendingResizeW and H, resizeRetryCount, and whether
                          \* resizeRetryTimer is armed
  channel,                \* the page's instance is active, owns the display
                          \* channel, and the channel is open
  remote,                 \* the server's desktop
  requests, reports,      \* under way to the server, and back to the page
  lost,                   \* history: requests lost or refused since the series began
  rotations, changes      \* how many there were

pageVars == <<displayMode, connectionState, surface, desktop, loading>>
netVars  == <<channel, remote, reports>>
bounds   == <<rotations, changes>>
vars == <<pageVars, watch, netVars, requests, lost, bounds>>

Watches == [pending : Size \cup {None}, count : 0..RESIZE_MAX_RETRY, timer : BOOLEAN]
NoWatch == [pending |-> None, count |-> 0, timer |-> FALSE]

TypeOK ==
  /\ displayMode \in {"FIT", "FILL"}
  /\ connectionState \in {"DISCONNECTED", "CONNECTING", "CONNECTED", "RECONNECTING"}
  /\ surface \in Size \cup {None}
  /\ desktop \in Size
  /\ loading \in BOOLEAN
  /\ watch \in Watches
  /\ channel \in BOOLEAN
  /\ remote \in Size
  /\ requests \in Seq(Size) /\ reports \in Seq(Size)
  /\ lost \in 0..RESIZE_MAX_RETRY
  /\ rotations \in Nat /\ changes \in Nat

\* The worker's post_connect reports the size that was negotiated.
Init ==
  /\ displayMode \in {"FIT", "FILL"}
  /\ connectionState = "CONNECTING"
  /\ surface = None /\ desktop \in Landscape /\ loading = FALSE
  /\ watch = NoWatch
  /\ channel = FALSE /\ remote \in Size
  /\ requests = <<>> /\ reports = <<remote>>
  /\ lost = 0 /\ rotations = 0 /\ changes = 0

Mismatch(s, d) == (s \in Landscape) # (d \in Landscape)

-----------------------------------------------------------------------------
(* The watchdog's functions change a watch and send requests: each returns   *)
(* the watch and what it sends, given what the page knows.                   *)

Outcome(w, sent) == [watch |-> w, sent |-> sent]

\* Mutants, here and below: what a plausible bug would make of the definition
\* that follows.  No specification uses them.
MutantSendUncounted(w) ==
  Outcome([pending |-> w.pending, count |-> w.count, timer |-> TRUE], <<w.pending>>)

\* sendResizeRequest, whose callers have tested the connection.
SendResizeRequest(w) ==
  Outcome([pending |-> w.pending, count |-> w.count + 1, timer |-> TRUE], <<w.pending>>)

MutantOneWatchAtATime(w, state, s, d) ==
  IF /\ state = "CONNECTED" /\ displayMode = "FILL"
     /\ s # None /\ Mismatch(s, d)
     /\ w.pending = None
  THEN SendResizeRequest([pending |-> s, count |-> 0, timer |-> w.timer])
  ELSE Outcome(w, <<>>)

MaybeRequestDesktopResize(w, state, s, d) ==
  IF /\ state = "CONNECTED" /\ displayMode = "FILL"
     /\ s # None /\ Mismatch(s, d)
     /\ w.pending # s
  THEN SendResizeRequest([pending |-> s, count |-> 0, timer |-> w.timer])
  ELSE Outcome(w, <<>>)

MutantGivesUpEarly(w, state, s, d) ==
  IF w.pending = None THEN Outcome(w, <<>>)
  ELSE IF /\ state = "CONNECTED" /\ displayMode = "FILL"
          /\ Mismatch(s, d)
          /\ w.count < RESIZE_MAX_RETRY - 1
       THEN SendResizeRequest(w)
       ELSE Outcome(NoWatch, <<>>)

\* checkResizeResult: done, given up, or sent again.
CheckResizeResult(w, state, s, d) ==
  IF w.pending = None THEN Outcome(w, <<>>)
  ELSE IF /\ state = "CONNECTED" /\ displayMode = "FILL"
          /\ Mismatch(s, d)
          /\ w.count < RESIZE_MAX_RETRY
       THEN SendResizeRequest(w)
       ELSE Outcome(NoWatch, <<>>)

\* Lost attempts are counted up to a whole series.
UpTo(n) == IF n < RESIZE_MAX_RETRY THEN n ELSE RESIZE_MAX_RETRY

\* requestDesktopResize refuses what does not find the channel.
Request(outcome) ==
  LET begins == outcome.sent # <<>> /\ outcome.watch.count <= Len(outcome.sent)
      refused == IF channel THEN 0 ELSE Len(outcome.sent)
  IN /\ watch' = outcome.watch
     /\ requests' = IF channel THEN requests \o outcome.sent ELSE requests
     /\ lost' = UpTo(IF begins THEN refused ELSE lost + refused)

-----------------------------------------------------------------------------
(* What the page hears of.                                                   *)

\* updateSurfaceMetrics, after the view's area changed.
UpdateSurfaceMetrics(s) ==
  /\ surface' = s
  /\ Request(MaybeRequestDesktopResize(watch, connectionState, s, desktop))

Rotate(s) ==
  /\ connectionState = "CONNECTED" /\ ~loading /\ s # surface
  /\ rotations < MaxRotations /\ rotations' = rotations + 1
  /\ UpdateSurfaceMetrics(s)
  /\ UNCHANGED <<displayMode, connectionState, desktop, loading, netVars, changes>>

\* The view exists in the state CONNECTED only; a new one finds the phone as
\* it lies by then.
SurfaceLoads(s) ==
  /\ loading /\ loading' = FALSE
  /\ UpdateSurfaceMetrics(s)
  /\ UNCHANGED <<displayMode, connectionState, desktop, netVars, bounds>>

Becomes(state) ==
  /\ changes < MaxChanges /\ changes' = changes + 1
  /\ connectionState' = state
  /\ loading' = IF state # "CONNECTED" THEN FALSE
                ELSE IF connectionState # "CONNECTED" THEN TRUE ELSE loading
  /\ UNCHANGED <<displayMode, surface, desktop, netVars, rotations>>

\* onConnectionSuccess.
OnConnectionSuccess ==
  /\ Becomes("CONNECTED")
  /\ Request(MaybeRequestDesktopResize(watch, "CONNECTED", surface, desktop))

\* onReconnectSuccess, onNetworkLost, onConnectionFailure: the watch goes on.
\* (One that finds the page in the state already changes nothing.)
OtherChange ==
  /\ \E state \in {"CONNECTED", "RECONNECTING", "DISCONNECTED"} \ {connectionState} :
       Becomes(state)
  /\ UNCHANGED <<watch, requests, lost>>

\* onDisconnected.
OnDisconnected ==
  /\ Becomes("DISCONNECTED")
  /\ watch' = NoWatch
  /\ UNCHANGED <<requests, lost>>

\* onNegotiatedSettings: a request for the new size, if one is due, and then
\* the check of whatever is pending.
OnNegotiatedSettings ==
  /\ reports # <<>>
  /\ reports' = Tail(reports)
  /\ desktop' = Head(reports)
  /\ LET asked == MaybeRequestDesktopResize(watch, connectionState, surface, Head(reports))
         checked == CheckResizeResult(asked.watch, connectionState, surface, Head(reports))
     IN Request(Outcome(checked.watch, asked.sent \o checked.sent))
  /\ UNCHANGED <<displayMode, connectionState, surface, loading, channel, remote, bounds>>

\* The retry timer; the last conjunct is a bound of the model.
RetryTimer ==
  /\ watch.timer
  /\ Request(CheckResizeResult([watch EXCEPT !.timer = FALSE], connectionState,
                               surface, desktop))
  /\ UNCHANGED <<pageVars, netVars, bounds>>
  /\ Len(requests) + Len(reports) < MaxInFlight

-----------------------------------------------------------------------------
(* The display channel and the server.                                       *)

\* The channel opens some time after the connection, and closes; what is under
\* way is lost with it.
ChannelConnected ==
  /\ ~channel /\ channel' = TRUE
  /\ changes < MaxChanges /\ changes' = changes + 1
  /\ UNCHANGED <<pageVars, watch, remote, reports, requests, lost, rotations>>

ChannelDisconnected ==
  /\ channel /\ channel' = FALSE
  /\ requests' = <<>> /\ lost' = UpTo(lost + Len(requests))
  /\ UNCHANGED <<pageVars, watch, remote, reports, bounds>>

\* The server may round the size, and keeps its orientation.
ServerHonours ==
  /\ requests # <<>> /\ requests' = Tail(requests)
  /\ \E s \in Size : /\ ~Mismatch(s, Head(requests))
                     /\ remote' = s
                     /\ reports' = Append(reports, s)
  /\ UNCHANGED <<pageVars, watch, channel, lost, bounds>>

\* It drops requests, whole series of them too.
ServerDrops ==
  /\ requests # <<>> /\ requests' = Tail(requests)
  /\ lost' = UpTo(lost + 1)
  /\ UNCHANGED <<pageVars, watch, netVars, bounds>>

\* It resets its graphics at the size it has, for ever if it likes.
ServerRefuses ==
  /\ requests # <<>> /\ requests' = Tail(requests)
  /\ lost' = UpTo(lost + 1)
  /\ reports' = Append(reports, remote)
  /\ UNCHANGED <<pageVars, watch, channel, remote, bounds>>

ServerReports ==
  /\ changes < MaxChanges /\ changes' = changes + 1
  /\ reports' = Append(reports, remote)
  /\ UNCHANGED <<pageVars, watch, channel, remote, requests, lost, rotations>>

ServerAnswers == ServerHonours \/ ServerDrops \/ ServerRefuses

Next ==
  \/ \E s \in Size : Rotate(s) \/ SurfaceLoads(s)
  \/ OnConnectionSuccess \/ OtherChange \/ OnDisconnected
  \/ OnNegotiatedSettings
  \/ RetryTimer
  \/ ChannelConnected \/ ChannelDisconnected
  \/ ServerAnswers \/ ServerReports

Spec == Init /\ [][Next]_vars

\* A view that was made loads, callbacks and timers that are due run, and the
\* server answers or drops what reaches it.
FairSpec ==
  /\ Spec
  /\ WF_vars(\E s \in Size : SurfaceLoads(s))
  /\ WF_vars(OnNegotiatedSettings) /\ WF_vars(RetryTimer) /\ WF_vars(ServerAnswers)

-----------------------------------------------------------------------------
(* Properties.                                                               *)

\* A request that is pending while the desktop lies the wrong way is for the
\* surface as it is now, so that no retry asks for a size the phone no longer
\* has (maybeRequestDesktopResize and checkResizeResult, whose tests differ).
AsksForThisSurface ==
  connectionState = "CONNECTED" /\ watch.pending # None /\ Mismatch(surface, desktop)
    => watch.pending = surface

\* A pending request is always under the timer's watch, and no series has more
\* attempts than RESIZE_MAX_RETRY: nothing stays pending for good.
PendingIsWatched ==
  /\ watch.pending # None <=> watch.timer
  /\ watch.pending # None <=> watch.count > 0

\* A request leaves the page only while it is connected, also when the timer
\* set before a loss of the network fires after it.
OnlyWhileConnected ==
  [][Len(requests') > Len(requests)
       => connectionState' = "CONNECTED" /\ displayMode = "FILL"]_vars

WantsFill ==
  /\ displayMode = "FILL" /\ connectionState = "CONNECTED" /\ channel
  /\ surface # None /\ Mismatch(surface, desktop)

\* A desktop that lies the wrong way is put right, unless the session or the
\* channel is lost meanwhile or every attempt of a series was.
EventuallyFills ==
  WantsFill ~> ~WantsFill \/ lost >= RESIZE_MAX_RETRY

\* The watchdog gives up: once no more answers come, whatever the server and
\* the channel do with the requests, these stop too (maybeRequestDesktopResize:
\* retried when a timeout finds it without effect, given up after several
\* failures, the letterbox kept).
GivesUpUnanswered ==
  <>[](reports = <<>>) => <>[](requests = <<>> /\ watch.pending = None)

-----------------------------------------------------------------------------
(* What the code does not keep (README, section 7).                          *)

\* It gives up with a server that answers each request by the desktop it has,
\* too: there every such answer ends a series and begins the next.
GivesUp == <>[](requests = <<>> /\ watch.pending = None)
=============================================================================
