----------------------- MODULE DesktopResize_proofs ------------------------
(* Proofs for DesktopResize, for any sizes, any number of attempts, and any  *)
(* number of rotations and changes.  AsksForThisSurface is not inductive: a  *)
(* lost session keeps its watch and comes back with it.  The invariant says  *)
(* the same of every state of the session, which holds because the surface   *)
(* changes in the connected state only and a report that comes in another    *)
(* state ends the watch.                                                     *)
EXTENDS DesktopResize, SequenceTheorems, TLAPS

\* A watch is consistent, and for a surface that is known, in FILL mode.
GoodWatch(w) ==
  /\ w \in Watches
  /\ w.pending # None <=> w.timer
  /\ w.pending # None <=> w.count > 0

Fits(w, s, d) ==
  w.pending # None => /\ displayMode = "FILL" /\ s # None
                      /\ Mismatch(s, d) => w.pending = s

IInv ==
  /\ TypeOK
  /\ GoodWatch(watch)
  /\ Fits(watch, surface, desktop)
  /\ loading => connectionState = "CONNECTED"

\* What the outcome of a function of the watchdog must be.
GoodOutcome(o, s, d) ==
  /\ GoodWatch(o.watch) /\ Fits(o.watch, s, d)
  /\ o.sent \in Seq(Size)

\* An outcome has the watch and the requests it was made of.
LEMMA OutcomeFields ==
  ASSUME NEW w, NEW sent
  PROVE  Outcome(w, sent).watch = w /\ Outcome(w, sent).sent = sent
BY DEF Outcome

\* The empty watch is consistent and fits every surface.
LEMMA NoWatchFits ==
  /\ GoodWatch(NoWatch)
  /\ \A s \in Size \cup {None}, d \in Size : GoodOutcome(Outcome(NoWatch, <<>>), s, d)
<1>1. NoWatch \in Watches
  BY ResizeAssumption DEF NoWatch, Watches
<1>2. GoodWatch(NoWatch)
  BY <1>1 DEF GoodWatch, NoWatch
<1>3. \A s \in Size \cup {None}, d \in Size : Fits(NoWatch, s, d)
  BY DEF Fits, NoWatch
<1>4. <<>> \in Seq(Size)
  OBVIOUS
<1> QED BY <1>2, <1>3, <1>4, OutcomeFields DEF GoodOutcome

\* A request leaves a consistent watch.
LEMMA SendFacts ==
  ASSUME NEW p \in Size, NEW c \in 0..(RESIZE_MAX_RETRY - 1), NEW t \in BOOLEAN,
         NEW w, w = [pending |-> p, count |-> c, timer |-> t]
  PROVE  /\ SendResizeRequest(w).sent = <<p>>
         /\ SendResizeRequest(w).watch.pending = p
         /\ GoodWatch(SendResizeRequest(w).watch)
<1> DEFINE n == [pending |-> p, count |-> c + 1, timer |-> TRUE]
<1>1. SendResizeRequest(w) = Outcome(n, <<p>>)
  BY DEF SendResizeRequest
<1>2. n \in Watches
  BY ResizeAssumption DEF Watches
<1>3. GoodWatch(n)
  BY <1>2, ResizeAssumption DEF GoodWatch
<1>4. n.pending = p
  OBVIOUS
<1> HIDE DEF n
<1> QED BY <1>1, <1>3, <1>4, OutcomeFields

\* maybeRequestDesktopResize makes the watch fit a new surface or desktop, if
\* the page is connected; it sends in that state and in FILL mode only.
LEMMA MaybeFacts ==
  ASSUME NEW w, GoodWatch(w), NEW s \in Size \cup {None}, NEW d \in Size, NEW state,
         w.pending # None => displayMode = "FILL" /\ s # None,
         state = "CONNECTED" \/ Fits(w, s, d)
  PROVE  LET o == MaybeRequestDesktopResize(w, state, s, d) IN
         /\ GoodOutcome(o, s, d)
         /\ o.sent # <<>> => state = "CONNECTED" /\ displayMode = "FILL"
<1>1. CASE /\ state = "CONNECTED" /\ displayMode = "FILL"
           /\ s # None /\ Mismatch(s, d)
           /\ w.pending # s
  <2> DEFINE n == [pending |-> s, count |-> 0, timer |-> w.timer]
  <2>1. MaybeRequestDesktopResize(w, state, s, d) = SendResizeRequest(n)
    BY <1>1 DEF MaybeRequestDesktopResize
  <2>2. s \in Size /\ w.timer \in BOOLEAN /\ 0 \in 0..(RESIZE_MAX_RETRY - 1)
    BY <1>1, ResizeAssumption DEF GoodWatch, Watches
  <2>3. /\ SendResizeRequest(n).sent = <<s>>
        /\ SendResizeRequest(n).watch.pending = s
        /\ GoodWatch(SendResizeRequest(n).watch)
    BY <2>2, SendFacts
  <2> HIDE DEF n
  <2>4. Fits(SendResizeRequest(n).watch, s, d)
    BY <1>1, <2>3 DEF Fits
  <2>5. SendResizeRequest(n).sent \in Seq(Size)
    BY <2>2, <2>3
  <2> QED BY <1>1, <2>1, <2>3, <2>4, <2>5 DEF GoodOutcome
<1>2. CASE ~(/\ state = "CONNECTED" /\ displayMode = "FILL"
             /\ s # None /\ Mismatch(s, d)
             /\ w.pending # s)
  <2>1. MaybeRequestDesktopResize(w, state, s, d) = [watch |-> w, sent |-> <<>>]
    BY <1>2 DEF MaybeRequestDesktopResize, Outcome
  <2>2. Fits(w, s, d)
    BY <1>2 DEF Fits
  <2> QED BY <2>1, <2>2 DEF GoodOutcome
<1> QED BY <1>1, <1>2

\* checkResizeResult keeps a watch that fits, or ends it; out of the connected
\* state it ends every watch.  Whether the timer is armed does not matter.
LEMMA CheckFacts ==
  ASSUME NEW w, w \in Watches, w.pending # None <=> w.count > 0,
         NEW s \in Size \cup {None}, NEW d \in Size, NEW state,
         w.pending = None => ~w.timer,
         state = "CONNECTED" => Fits(w, s, d)
  PROVE  LET o == CheckResizeResult(w, state, s, d) IN
         /\ GoodOutcome(o, s, d)
         /\ o.sent # <<>> => state = "CONNECTED" /\ displayMode = "FILL"
<1>1. CASE w.pending = None
  <2>1. CheckResizeResult(w, state, s, d) = [watch |-> w, sent |-> <<>>]
    BY <1>1 DEF CheckResizeResult, Outcome
  <2>2. GoodWatch(w) /\ Fits(w, s, d)
    BY <1>1 DEF GoodWatch, Fits
  <2> QED BY <2>1, <2>2 DEF GoodOutcome
<1>2. CASE /\ w.pending # None
           /\ state = "CONNECTED" /\ displayMode = "FILL" /\ Mismatch(s, d)
           /\ w.count < RESIZE_MAX_RETRY
  <2>1. CheckResizeResult(w, state, s, d) = SendResizeRequest(w)
    BY <1>2 DEF CheckResizeResult
  <2>2. /\ w = [pending |-> w.pending, count |-> w.count, timer |-> w.timer]
        /\ w.pending \in Size /\ w.timer \in BOOLEAN
        /\ w.count \in 0..(RESIZE_MAX_RETRY - 1)
    BY <1>2, ResizeAssumption DEF Watches
  <2>3. /\ SendResizeRequest(w).sent = <<w.pending>>
        /\ SendResizeRequest(w).watch.pending = w.pending
        /\ GoodWatch(SendResizeRequest(w).watch)
    BY <2>2, SendFacts
  <2>4. Fits(SendResizeRequest(w).watch, s, d)
    BY <1>2, <2>3 DEF Fits
  <2>5. SendResizeRequest(w).sent \in Seq(Size)
    BY <2>2, <2>3
  <2> QED BY <1>2, <2>1, <2>3, <2>4, <2>5 DEF GoodOutcome
<1>3. CASE /\ w.pending # None
           /\ ~(/\ state = "CONNECTED" /\ displayMode = "FILL" /\ Mismatch(s, d)
                /\ w.count < RESIZE_MAX_RETRY)
  <2>1. CheckResizeResult(w, state, s, d) = Outcome(NoWatch, <<>>)
    BY <1>3 DEF CheckResizeResult
  <2>2. Outcome(NoWatch, <<>>).sent = <<>>
    BY DEF Outcome
  <2> QED BY <2>1, <2>2, NoWatchFits
<1> QED BY <1>1, <1>2, <1>3

\* Requesting takes over the watch and sends at most what it is given.
LEMMA RequestFacts ==
  ASSUME TypeOK, NEW o, o.sent \in Seq(Size), o.watch \in Watches, Request(o)
  PROVE  /\ watch' = o.watch
         /\ requests' \in Seq(Size)
         /\ lost' \in 0..RESIZE_MAX_RETRY
         /\ o.sent = <<>> => requests' = requests
<1>1. requests \o o.sent \in Seq(Size) /\ (o.sent = <<>> => requests \o o.sent = requests)
  BY DEF TypeOK
<1>2. requests' \in {requests, requests \o o.sent}
  BY DEF Request
<1>3. \A n \in Nat : UpTo(n) \in 0..RESIZE_MAX_RETRY
  BY ResizeAssumption DEF UpTo
<1>4. Len(o.sent) \in Nat
  OBVIOUS
<1>5. lost' \in 0..RESIZE_MAX_RETRY
  <2> DEFINE r == IF channel THEN 0 ELSE Len(o.sent)
  <2>1. r \in Nat /\ lost + r \in Nat
    BY <1>4, ResizeAssumption DEF TypeOK
  <2>2. \E n \in {r, lost + r} : lost' = UpTo(n)
    BY DEF Request
  <2> QED BY <1>3, <2>1, <2>2
<1> QED BY <1>1, <1>2, <1>5 DEF Request, TypeOK

-----------------------------------------------------------------------------

\* The initial state satisfies the invariant.
LEMMA InitInv == Init => IInv
<1> SUFFICES ASSUME Init PROVE IInv
  OBVIOUS
<1>1. GoodWatch(watch) /\ Fits(watch, surface, desktop)
  BY NoWatchFits DEF Init, NoWatch, Fits
<1>2. requests \in Seq(Size) /\ reports \in Seq(Size)
  BY DEF Init
<1>3. watch \in Watches /\ desktop \in Size /\ 0 \in 0..RESIZE_MAX_RETRY
  BY <1>1, ResizeAssumption DEF Init, GoodWatch
<1>4. TypeOK
  BY <1>2, <1>3 DEF Init, TypeOK
<1> QED BY <1>1, <1>4 DEF Init, IInv

\* A new surface is taken over, with a request if one is due.
LEMMA MetricsInv ==
  ASSUME IInv, NEW s \in Size, connectionState = "CONNECTED",
         UpdateSurfaceMetrics(s)
  PROVE  /\ surface' = s
         /\ watch' \in Watches /\ GoodWatch(watch')
         /\ Fits(watch', s, desktop)
         /\ requests' \in Seq(Size) /\ lost' \in 0..RESIZE_MAX_RETRY
         /\ requests' # requests => displayMode = "FILL"
<1> DEFINE o == MaybeRequestDesktopResize(watch, connectionState, s, desktop)
<1>1. surface' = s /\ Request(o)
  BY DEF UpdateSurfaceMetrics
<1>2. /\ GoodOutcome(o, s, desktop)
      /\ o.sent # <<>> => displayMode = "FILL"
  <2>1. /\ GoodWatch(watch) /\ desktop \in Size
        /\ watch.pending # None => displayMode = "FILL" /\ s # None
    BY ResizeAssumption DEF IInv, TypeOK, Fits
  <2> QED BY <2>1, MaybeFacts
<1> HIDE DEF o
<1>3. /\ watch' = o.watch
      /\ requests' \in Seq(Size) /\ lost' \in 0..RESIZE_MAX_RETRY
      /\ o.sent = <<>> => requests' = requests
  BY <1>1, <1>2, RequestFacts DEF IInv, GoodOutcome, GoodWatch
<1> QED BY <1>1, <1>2, <1>3 DEF GoodOutcome, GoodWatch

\* A report is taken over: a request if one is due, then the check.
LEMMA ReportInv ==
  ASSUME IInv, OnNegotiatedSettings
  PROVE  /\ desktop' \in Size /\ reports' \in Seq(Size)
         /\ watch' \in Watches /\ GoodWatch(watch')
         /\ Fits(watch', surface, desktop')
         /\ requests' \in Seq(Size) /\ lost' \in 0..RESIZE_MAX_RETRY
         /\ requests' # requests => connectionState = "CONNECTED" /\ displayMode = "FILL"
<1> DEFINE d == Head(reports)
           asked == MaybeRequestDesktopResize(watch, connectionState, surface, d)
           checked == CheckResizeResult(asked.watch, connectionState, surface, d)
           o == Outcome(checked.watch, asked.sent \o checked.sent)
<1>1. d \in Size /\ desktop' = d /\ reports' \in Seq(Size)
  BY DEF OnNegotiatedSettings, IInv, TypeOK
<1>2. Request(o)
  BY DEF OnNegotiatedSettings
<1> HIDE DEF d
<1>3. CASE connectionState = "CONNECTED"
  <2>1. /\ GoodOutcome(asked, surface, d)
        /\ asked.sent # <<>> => displayMode = "FILL"
    BY <1>1, <1>3, MaybeFacts DEF IInv, TypeOK, Fits
  <2> HIDE DEF asked
  <2>2. /\ GoodOutcome(checked, surface, d)
        /\ checked.sent # <<>> => displayMode = "FILL"
    <3>1. /\ asked.watch \in Watches
          /\ asked.watch.pending # None <=> asked.watch.count > 0
          /\ asked.watch.pending = None => ~asked.watch.timer
          /\ Fits(asked.watch, surface, d)
      BY <2>1 DEF GoodOutcome, GoodWatch
    <3>2. surface \in Size \cup {None}
      BY DEF IInv, TypeOK
    <3> QED BY <1>1, <1>3, <3>1, <3>2, CheckFacts
  <2> HIDE DEF checked
  <2>3. /\ asked.sent \o checked.sent \in Seq(Size)
        /\ asked.sent \o checked.sent # <<>> => displayMode = "FILL"
    BY <2>1, <2>2 DEF GoodOutcome
  <2>4. o.watch = checked.watch /\ o.sent = asked.sent \o checked.sent
    BY OutcomeFields
  <2> HIDE DEF o
  <2>5. /\ watch' = o.watch
        /\ requests' \in Seq(Size) /\ lost' \in 0..RESIZE_MAX_RETRY
        /\ o.sent = <<>> => requests' = requests
    BY <1>2, <2>2, <2>3, <2>4, RequestFacts DEF IInv, GoodOutcome, GoodWatch
  <2> QED BY <1>1, <1>3, <2>2, <2>3, <2>4, <2>5 DEF GoodOutcome, GoodWatch
<1>4. CASE connectionState # "CONNECTED"
  <2>1. asked = Outcome(watch, <<>>)
    BY <1>4 DEF MaybeRequestDesktopResize
  <2>2. asked.watch = watch /\ asked.sent = <<>>
    BY <2>1, OutcomeFields
  <2> HIDE DEF asked
  <2>3. /\ GoodOutcome(checked, surface, d)
        /\ checked.sent = <<>>
    BY <1>1, <1>4, <2>2, CheckFacts DEF GoodWatch, IInv, TypeOK
  <2> HIDE DEF checked
  <2>4. o.watch = checked.watch /\ o.sent = <<>>
    BY <2>2, <2>3, OutcomeFields
  <2> HIDE DEF o
  <2>5. /\ watch' = o.watch
        /\ requests' \in Seq(Size) /\ lost' \in 0..RESIZE_MAX_RETRY
        /\ o.sent = <<>> => requests' = requests
    BY <1>2, <2>3, <2>4, RequestFacts DEF IInv, GoodOutcome, GoodWatch
  <2> QED BY <1>1, <2>3, <2>4, <2>5 DEF GoodOutcome, GoodWatch
<1> QED BY <1>3, <1>4

\* The retry timer's callback.
LEMMA TimerInv ==
  ASSUME IInv, RetryTimer
  PROVE  /\ watch' \in Watches /\ GoodWatch(watch')
         /\ Fits(watch', surface, desktop)
         /\ requests' \in Seq(Size) /\ lost' \in 0..RESIZE_MAX_RETRY
         /\ requests' # requests => connectionState = "CONNECTED" /\ displayMode = "FILL"
<1> DEFINE w == [watch EXCEPT !.timer = FALSE]
           o == CheckResizeResult(w, connectionState, surface, desktop)
<1>1. /\ w \in Watches /\ w.pending = watch.pending /\ w.count = watch.count
      /\ ~w.timer
  BY DEF IInv, TypeOK, Watches
<1>2. Request(o)
  BY DEF RetryTimer
<1> HIDE DEF w
<1>3. /\ GoodOutcome(o, surface, desktop)
      /\ o.sent # <<>> => connectionState = "CONNECTED" /\ displayMode = "FILL"
  BY <1>1, CheckFacts DEF IInv, TypeOK, GoodWatch, Fits
<1> HIDE DEF o
<1>4. /\ watch' = o.watch
      /\ requests' \in Seq(Size) /\ lost' \in 0..RESIZE_MAX_RETRY
      /\ o.sent = <<>> => requests' = requests
  BY <1>2, <1>3, RequestFacts DEF IInv, GoodOutcome, GoodWatch
<1> QED BY <1>3, <1>4 DEF GoodOutcome, GoodWatch

\* A connection that succeeds asks for what is due.
LEMMA SuccessInv ==
  ASSUME IInv, OnConnectionSuccess
  PROVE  /\ watch' \in Watches /\ GoodWatch(watch')
         /\ Fits(watch', surface, desktop)
         /\ requests' \in Seq(Size) /\ lost' \in 0..RESIZE_MAX_RETRY
         /\ requests' # requests => displayMode = "FILL"
<1> DEFINE o == MaybeRequestDesktopResize(watch, "CONNECTED", surface, desktop)
<1>1. Request(o)
  BY DEF OnConnectionSuccess
<1>2. /\ GoodOutcome(o, surface, desktop)
      /\ o.sent # <<>> => displayMode = "FILL"
  BY MaybeFacts DEF IInv, TypeOK, Fits
<1> HIDE DEF o
<1>3. /\ watch' = o.watch
      /\ requests' \in Seq(Size) /\ lost' \in 0..RESIZE_MAX_RETRY
      /\ o.sent = <<>> => requests' = requests
  BY <1>1, <1>2, RequestFacts DEF IInv, GoodOutcome, GoodWatch
<1> QED BY <1>2, <1>3 DEF GoodOutcome, GoodWatch

\* Appending a size to a sequence of sizes.
LEMMA AppendSize ==
  ASSUME NEW q \in Seq(Size), NEW e \in Size
  PROVE  Append(q, e) \in Seq(Size)
OBVIOUS

\* The channel and the server leave the page alone.
LEMMA NetworkInv ==
  ASSUME IInv, ChannelConnected \/ ChannelDisconnected \/ ServerAnswers \/ ServerReports
  PROVE  IInv' /\ Len(requests') <= Len(requests)
<1>0. /\ Len(requests) \in Nat /\ reports \in Seq(Size) /\ remote \in Size
      /\ \A s \in Size : Append(reports, s) \in Seq(Size)
  BY AppendSize DEF IInv, TypeOK
<1>1. UNCHANGED <<pageVars, watch>>
  BY DEF ChannelConnected, ChannelDisconnected, ServerAnswers, ServerHonours,
         ServerDrops, ServerRefuses, ServerReports
<1>2. \A n \in Nat : UpTo(n) \in 0..RESIZE_MAX_RETRY
  BY ResizeAssumption DEF UpTo
<1>3. CASE ChannelConnected \/ ServerReports
  <2>1. /\ requests' = requests /\ lost' = lost /\ rotations' = rotations
        /\ changes' \in Nat /\ remote' = remote /\ channel' \in BOOLEAN
        /\ reports' \in Seq(Size)
    <3>1. CASE ChannelConnected
      BY <1>0, <3>1 DEF ChannelConnected, IInv, TypeOK
    <3>2. CASE ServerReports
      BY <1>0, <3>2 DEF ServerReports, IInv, TypeOK
    <3> QED BY <1>3, <3>1, <3>2
  <2> QED BY <1>0, <1>1, <2>1 DEF IInv, TypeOK, pageVars, Fits
<1>4. CASE ChannelDisconnected
  <2>1. lost + Len(requests) \in Nat
    BY ResizeAssumption DEF IInv, TypeOK
  <2>2. lost' \in 0..RESIZE_MAX_RETRY
    BY <1>2, <1>4, <2>1 DEF ChannelDisconnected
  <2>3. requests' = <<>> /\ Len(requests') <= Len(requests)
    BY <1>0, <1>4 DEF ChannelDisconnected
  <2>4. requests' \in Seq(Size)
    BY <2>3
  <2>5. TypeOK'
    BY <1>1, <1>4, <2>2, <2>4 DEF ChannelDisconnected, IInv, TypeOK, pageVars, bounds
  <2> QED BY <1>1, <2>3, <2>5 DEF IInv, pageVars, Fits
<1>5. CASE ServerAnswers
  <2>1. requests # <<>> /\ requests' = Tail(requests) /\ UNCHANGED <<channel, bounds>>
    BY <1>5 DEF ServerAnswers, ServerHonours, ServerDrops, ServerRefuses, netVars
  <2>2. requests' \in Seq(Size) /\ Len(requests') <= Len(requests)
    BY <2>1 DEF IInv, TypeOK
  <2>3. reports' \in Seq(Size) /\ remote' \in Size
    BY <1>0, <1>5 DEF ServerAnswers, ServerHonours, ServerDrops, ServerRefuses, netVars
  <2>4. lost' \in 0..RESIZE_MAX_RETRY
    <3>0. lost \in 0..RESIZE_MAX_RETRY /\ lost + 1 \in Nat
      BY ResizeAssumption DEF IInv, TypeOK
    <3>1. CASE ServerHonours
      BY <3>0, <3>1, ResizeAssumption DEF ServerHonours
    <3>2. CASE ServerDrops \/ ServerRefuses
      BY <1>2, <3>0, <3>2 DEF ServerDrops, ServerRefuses
    <3> QED BY <1>5, <3>1, <3>2 DEF ServerAnswers
  <2>5. TypeOK'
    BY <1>1, <2>1, <2>2, <2>3, <2>4 DEF IInv, TypeOK, pageVars, bounds
  <2> QED BY <1>1, <2>2, <2>5 DEF IInv, pageVars, Fits
<1> QED BY <1>3, <1>4, <1>5

\* A change of the session's state keeps the types, and a view that is to load
\* belongs to the connected state.
LEMMA BecomesFacts ==
  ASSUME TypeOK, loading => connectionState = "CONNECTED",
         NEW state \in {"CONNECTED", "RECONNECTING", "DISCONNECTED"}, Becomes(state)
  PROVE  /\ connectionState' = state /\ loading' \in BOOLEAN /\ changes' \in Nat
         /\ loading' => connectionState' = "CONNECTED"
         /\ UNCHANGED <<displayMode, surface, desktop, channel, remote, reports, rotations>>
<1>1. /\ connectionState' = state /\ changes' \in Nat
      /\ UNCHANGED <<displayMode, surface, desktop, channel, remote, reports, rotations>>
  BY DEF Becomes, netVars, TypeOK
<1>2. loading \in BOOLEAN
  BY DEF TypeOK
<1>3. CASE state # "CONNECTED"
  <2>1. loading' = FALSE
    BY <1>3 DEF Becomes
  <2> QED BY <1>1, <2>1
<1>4. CASE state = "CONNECTED"
  <2>1. loading' \in {TRUE, loading}
    BY <1>4 DEF Becomes
  <2>2. loading' \in BOOLEAN
    BY <1>2, <2>1
  <2> QED BY <1>1, <1>4, <2>2
<1> QED BY <1>3, <1>4

\* Every step preserves the invariant and requests only while connected.
LEMMA StepInv ==
  ASSUME IInv, [Next]_vars
  PROVE  /\ IInv'
         /\ Len(requests') > Len(requests)
              => connectionState' = "CONNECTED" /\ displayMode = "FILL"
<1> USE DEF IInv, TypeOK, bounds, netVars
<1>0. ~(Len(requests) > Len(requests))
  OBVIOUS
<1>1. ASSUME NEW s \in Size, Rotate(s)
      PROVE  IInv' /\ connectionState' = "CONNECTED"
                   /\ (requests' # requests => displayMode = "FILL")
  BY <1>1, MetricsInv DEF Rotate, Fits
<1>2. ASSUME NEW s \in Size, SurfaceLoads(s)
      PROVE  IInv' /\ connectionState' = "CONNECTED"
                   /\ (requests' # requests => displayMode = "FILL")
  BY <1>2, MetricsInv DEF SurfaceLoads, Fits
<1>3. CASE OnConnectionSuccess
  BY <1>3, SuccessInv, BecomesFacts DEF OnConnectionSuccess, Fits
<1>4. CASE OtherChange
  <2>1. PICK state \in {"CONNECTED", "RECONNECTING", "DISCONNECTED"} : Becomes(state)
    BY <1>4 DEF OtherChange
  <2>2. IInv' /\ requests' = requests
    BY <1>4, <2>1, BecomesFacts DEF OtherChange, Fits
  <2> QED BY <1>0, <2>2
<1>5. CASE OnDisconnected
  <2>1. watch' = NoWatch /\ watch' \in Watches /\ GoodWatch(watch') /\ requests' = requests
    BY <1>5, NoWatchFits DEF OnDisconnected, GoodWatch
  <2>2. Fits(watch, surface, desktop)'
    BY <2>1 DEF Fits, NoWatch
  <2>3. IInv'
    BY <1>5, <2>1, <2>2, BecomesFacts DEF OnDisconnected
  <2> QED BY <1>0, <2>1, <2>3
<1>6. CASE OnNegotiatedSettings
  <2>1. UNCHANGED <<displayMode, connectionState, surface, loading, channel, remote, bounds>>
    BY <1>6 DEF OnNegotiatedSettings
  <2> QED BY <1>6, <2>1, ReportInv DEF Fits
<1>7. CASE RetryTimer
  <2>1. UNCHANGED <<pageVars, netVars, bounds>>
    BY <1>7 DEF RetryTimer
  <2> QED BY <1>7, <2>1, TimerInv DEF Fits, pageVars
<1>8. CASE ChannelConnected \/ ChannelDisconnected \/ ServerAnswers \/ ServerReports
  BY <1>8, NetworkInv
<1>9. CASE UNCHANGED vars
  BY <1>9 DEF vars, pageVars, Fits
<1> QED
  BY <1>1, <1>2, <1>3, <1>4, <1>5, <1>6, <1>7, <1>8, <1>9 DEF Next

\* The invariant holds in every reachable state.
LEMMA Invariance == Spec => []IInv
BY InitInv, StepInv, PTL DEF Spec

\* The variables keep their types.
THEOREM TypeCorrect == Spec => []TypeOK
<1>1. IInv => TypeOK
  BY DEF IInv
<1> QED BY Invariance, <1>1, PTL

\* A pending request is under the timer's watch.
THEOREM WatchIsTimed == Spec => []PendingIsWatched
<1>1. IInv => PendingIsWatched
  BY DEF IInv, GoodWatch, PendingIsWatched
<1> QED BY Invariance, <1>1, PTL

\* No retry asks for a size that the phone no longer has.
THEOREM TargetIsFresh == Spec => []AsksForThisSurface
<1>1. IInv => AsksForThisSurface
  BY DEF IInv, Fits, AsksForThisSurface
<1> QED BY Invariance, <1>1, PTL

\* Requests are sent only while the session is connected.
THEOREM RequestsWhileConnected == Spec => OnlyWhileConnected
<1>1. IInv /\ [Next]_vars
       => [Len(requests') > Len(requests)
             => connectionState' = "CONNECTED" /\ displayMode = "FILL"]_vars
  BY StepInv
<1> QED BY Invariance, <1>1, PTL DEF Spec, OnlyWhileConnected

-----------------------------------------------------------------------------
(* A series of attempts is accounted for: each one was lost, is under way,   *)
(* or has an answer under way.  Rotations begin new series while requests of *)
(* older ones are still under way, so the attempts of a series are the last  *)
(* ones in the queue.                                                        *)

\* A size in q has the orientation of s.
Among(q, s) == \E n \in 1..Len(q) : ~Mismatch(q[n], s)

\* The last k sizes in q have.
LastAre(q, k, s) ==
  /\ k <= Len(q)
  /\ \A n \in Len(q) - k + 1..Len(q) : ~Mismatch(q[n], s)

Accounted(s, count) == Among(reports, s) \/ LastAre(requests, count - lost, s)

SeriesAccounted == watch.pending # None => Accounted(watch.pending, watch.count)

\* The page shows a desktop that lies the wrong way.
LiesWrong ==
  /\ displayMode = "FILL" /\ connectionState = "CONNECTED" /\ ~loading
  /\ surface # None /\ Mismatch(surface, desktop)

GivenUpAccounted ==
  LiesWrong /\ watch.pending = None => Accounted(surface, RESIZE_MAX_RETRY)

\* Sizes of the same orientation.
LEMMA Orientation ==
  ASSUME NEW a, NEW b
  PROVE  /\ Mismatch(a, b) <=> Mismatch(b, a)
         /\ ~Mismatch(a, a)
         /\ \A c : ~Mismatch(a, b) /\ ~Mismatch(b, c) => ~Mismatch(a, c)
BY Zenon DEF Mismatch

\* A series that begins with n requests of size s is accounted for.
LEMMA Begin ==
  ASSUME TypeOK, NEW o, Request(o), NEW s \in Size, o.sent \in {<<s>>, <<s, s>>},
         o.watch.count <= Len(o.sent), Len(o.sent) <= RESIZE_MAX_RETRY
  PROVE  LastAre(requests', Len(o.sent) - lost', s)
<1>1. requests \in Seq(Size) /\ Len(requests) \in Nat /\ RESIZE_MAX_RETRY \in Nat
  BY ResizeAssumption DEF TypeOK
<1>2. /\ o.sent \in Seq(Size) /\ o.sent # <<>> /\ Len(o.sent) \in 1..2
      /\ \A n \in 1..Len(o.sent) : o.sent[n] = s
  <2>1. CASE o.sent = <<s>>
    BY <2>1
  <2>2. CASE o.sent = <<s, s>>
    BY <2>2
  <2> QED BY <2>1, <2>2
<1>3. CASE channel
  <2>1. requests' = requests \o o.sent /\ lost' = UpTo(0)
    BY <1>2, <1>3 DEF Request
  <2>2. lost' = 0
    BY <2>1, ResizeAssumption DEF UpTo
  <2>3. /\ Len(requests') = Len(requests) + Len(o.sent)
        /\ \A n \in Len(requests) + 1..Len(requests) + Len(o.sent) :
             requests'[n] = o.sent[n - Len(requests)]
    BY <1>1, <1>2, <2>1
  <2>4. \A n \in Len(requests) + 1..Len(requests) + Len(o.sent) : requests'[n] = s
    BY <1>1, <1>2, <2>3
  <2> QED BY <1>1, <1>2, <2>2, <2>3, <2>4, Orientation DEF LastAre
<1>4. CASE ~channel
  <2>1. requests' = requests /\ lost' = UpTo(Len(o.sent))
    BY <1>2, <1>4 DEF Request
  <2>2. lost' = Len(o.sent)
    BY <1>1, <1>2, <2>1 DEF UpTo
  <2> QED BY <1>1, <1>2, <2>1, <2>2 DEF LastAre
<1> QED BY <1>3, <1>4

\* One more request of a series.
LEMMA Continue ==
  ASSUME TypeOK, NEW o, Request(o), NEW s \in Size, o.sent = <<s>>,
         NEW c \in Nat \ {0}, c < RESIZE_MAX_RETRY, o.watch.count = c + 1,
         LastAre(requests, c - lost, s)
  PROVE  LastAre(requests', (c + 1) - lost', s)
<1>1. /\ requests \in Seq(Size) /\ Len(requests) \in Nat /\ RESIZE_MAX_RETRY \in Nat
      /\ lost \in Nat
  BY ResizeAssumption DEF TypeOK
<1>2. o.sent # <<>> /\ Len(o.sent) = 1 /\ ~(o.watch.count <= Len(o.sent))
  BY SMT
<1>3. CASE channel
  <2>1. requests' = requests \o <<s>> /\ lost' = UpTo(lost + 0)
    BY <1>2, <1>3 DEF Request
  <2>2. lost' = lost
    BY <1>1, <2>1, ResizeAssumption DEF UpTo, TypeOK
  <2>3. /\ Len(requests') = Len(requests) + 1
        /\ requests'[Len(requests) + 1] = s
        /\ \A n \in 1..Len(requests) : requests'[n] = requests[n]
    BY <1>1, <2>1
  <2>4. (c + 1) - lost' <= Len(requests')
    BY <1>1, <2>2, <2>3 DEF LastAre
  <2>5. ASSUME NEW n \in Len(requests') - ((c + 1) - lost') + 1..Len(requests')
        PROVE  ~Mismatch(requests'[n], s)
    <3>1. CASE n = Len(requests) + 1
      BY <2>3, <3>1, Orientation
    <3>2. CASE n # Len(requests) + 1
      <4>1. n \in Len(requests) - (c - lost) + 1..Len(requests)
        BY <1>1, <2>2, <2>3, <3>2
      <4>2. c - lost <= Len(requests) /\ ~Mismatch(requests[n], s)
        BY <4>1 DEF LastAre
      <4>3. n \in 1..Len(requests)
        BY <1>1, <4>1, <4>2
      <4> QED BY <2>3, <4>2, <4>3
    <3> QED BY <3>1, <3>2
  <2> QED BY <2>4, <2>5 DEF LastAre
<1>4. CASE ~channel
  <2>1. requests' = requests /\ lost' = UpTo(lost + 1)
    BY <1>2, <1>4 DEF Request
  <2>2. CASE lost < RESIZE_MAX_RETRY
    <3>1. lost' = lost + 1
      BY <1>1, <2>1, <2>2 DEF UpTo
    <3>2. (c + 1) - lost' = c - lost
      BY <1>1, <3>1
    <3> QED BY <2>1, <3>2 DEF LastAre
  <2>3. CASE ~(lost < RESIZE_MAX_RETRY)
    <3>1. lost' = RESIZE_MAX_RETRY
      BY <1>1, <2>1, <2>3 DEF UpTo
    <3>2. (c + 1) - lost' \in Int /\ (c + 1) - lost' <= 0
      BY <1>1, <3>1
    <3> QED BY <1>1, <2>1, <3>2 DEF LastAre
  <2> QED BY <2>2, <2>3
<1> QED BY <1>3, <1>4

\* Nothing is sent.
LEMMA NothingSent ==
  ASSUME TypeOK, NEW o, Request(o), o.sent = <<>>
  PROVE  requests' = requests /\ lost' = lost /\ watch' = o.watch
<1>1. requests \o <<>> = requests /\ lost \in 0..RESIZE_MAX_RETRY /\ RESIZE_MAX_RETRY \in Nat
  BY ResizeAssumption DEF TypeOK
<1>2. lost' = UpTo(lost + 0)
  BY DEF Request
<1> QED BY <1>1, <1>2 DEF Request, UpTo

\* Another report is taken over.
LEMMA OtherReport ==
  ASSUME TypeOK, NEW s, reports # <<>>, reports' = Tail(reports), Mismatch(s, Head(reports)),
         Among(reports, s)
  PROVE  Among(reports', s)
<1>1. PICK n \in 1..Len(reports) : ~Mismatch(reports[n], s)
  BY DEF Among
<1>2. n # 1
  BY <1>1, Orientation
<1>3. /\ Len(reports) \in Nat /\ Len(Tail(reports)) = Len(reports) - 1
      /\ Tail(reports)[n - 1] = reports[n]
  BY <1>2 DEF TypeOK
<1>4. n - 1 \in 1..Len(reports')
  BY <1>2, <1>3
<1> QED BY <1>1, <1>3, <1>4 DEF Among

\* maybeRequestDesktopResize begins a series, or nothing is due.
Begins(o, state, s, d) ==
  /\ state = "CONNECTED" /\ displayMode = "FILL" /\ s \in Size /\ Mismatch(s, d)
  /\ o.sent = <<s>>
  /\ o.watch = [pending |-> s, count |-> 1, timer |-> TRUE]

NothingDue(o, w, state, s, d) ==
  /\ o.sent = <<>> /\ o.watch = w
  /\ state = "CONNECTED" /\ displayMode = "FILL" /\ s # None /\ Mismatch(s, d)
       => w.pending = s

LEMMA MaybeCases ==
  ASSUME NEW w, NEW state, NEW s \in Size \cup {None}, NEW d, NEW o,
         o = MaybeRequestDesktopResize(w, state, s, d)
  PROVE  Begins(o, state, s, d) \/ NothingDue(o, w, state, s, d)
<1> USE DEF Begins, NothingDue
<1>1. CASE /\ state = "CONNECTED" /\ displayMode = "FILL"
           /\ s # None /\ Mismatch(s, d)
           /\ w.pending # s
  <2> DEFINE n == [pending |-> s, count |-> 0, timer |-> w.timer]
  <2>1. MaybeRequestDesktopResize(w, state, s, d) = SendResizeRequest(n)
    BY <1>1 DEF MaybeRequestDesktopResize
  <2>2. SendResizeRequest(n) = Outcome([pending |-> s, count |-> 1, timer |-> TRUE], <<s>>)
    BY DEF SendResizeRequest
  <2> QED BY <1>1, <2>1, <2>2, OutcomeFields
<1>2. CASE ~(/\ state = "CONNECTED" /\ displayMode = "FILL"
             /\ s # None /\ Mismatch(s, d)
             /\ w.pending # s)
  <2>1. MaybeRequestDesktopResize(w, state, s, d) = Outcome(w, <<>>)
    BY <1>2 DEF MaybeRequestDesktopResize
  <2> QED BY <1>2, <2>1, OutcomeFields
<1> QED BY <1>1, <1>2

\* checkResizeResult finds nothing pending, sends again, or ends the watch: done,
\* out of place, or given up.
NothingPending(o, w) == w.pending = None /\ o.sent = <<>> /\ o.watch = w

SendsAgain(o, w) ==
  /\ w.pending # None /\ w.count < RESIZE_MAX_RETRY
  /\ o.sent = <<w.pending>>
  /\ o.watch = [pending |-> w.pending, count |-> w.count + 1, timer |-> TRUE]

Ends(o, w, state, s, d) ==
  /\ state = "CONNECTED" /\ displayMode = "FILL" /\ Mismatch(s, d)
       => ~(w.count < RESIZE_MAX_RETRY)
  /\ o.sent = <<>> /\ o.watch = NoWatch

LEMMA CheckCases ==
  ASSUME NEW w, NEW state, NEW s, NEW d, NEW o, o = CheckResizeResult(w, state, s, d)
  PROVE  \/ NothingPending(o, w)
         \/ /\ state = "CONNECTED" /\ displayMode = "FILL" /\ Mismatch(s, d)
            /\ SendsAgain(o, w)
         \/ w.pending # None /\ Ends(o, w, state, s, d)
<1> USE DEF NothingPending, SendsAgain, Ends
<1> DEFINE on == state = "CONNECTED" /\ displayMode = "FILL" /\ Mismatch(s, d)
<1>1. CASE w.pending = None
  <2>1. CheckResizeResult(w, state, s, d) = Outcome(w, <<>>)
    BY <1>1 DEF CheckResizeResult
  <2> QED BY <1>1, <2>1, OutcomeFields
<1>2. CASE w.pending # None /\ on /\ w.count < RESIZE_MAX_RETRY
  <2>1. CheckResizeResult(w, state, s, d)
          = Outcome([pending |-> w.pending, count |-> w.count + 1, timer |-> TRUE],
                    <<w.pending>>)
    BY <1>2 DEF CheckResizeResult, SendResizeRequest
  <2> QED BY <1>2, <2>1, OutcomeFields
<1>3. CASE w.pending # None /\ ~(on /\ w.count < RESIZE_MAX_RETRY)
  <2>1. CheckResizeResult(w, state, s, d) = Outcome(NoWatch, <<>>)
    BY <1>3 DEF CheckResizeResult
  <2> QED BY <1>3, <2>1, OutcomeFields
<1> QED BY <1>1, <1>2, <1>3

SeriesInv == SeriesAccounted /\ GivenUpAccounted

\* Asking for a surface: a series that begins is accounted for, and one that
\* goes on is as before.
LEMMA AskKeeps ==
  ASSUME TypeOK, SeriesAccounted, NEW state, NEW s \in Size \cup {None}, reports' = reports,
         Request(MaybeRequestDesktopResize(watch, state, s, desktop))
  PROVE  /\ SeriesAccounted'
         /\ state = "CONNECTED" /\ displayMode = "FILL" /\ s # None /\ Mismatch(s, desktop)
              => watch'.pending # None
<1> DEFINE o == MaybeRequestDesktopResize(watch, state, s, desktop)
<1>0. /\ Request(o) /\ watch' = o.watch
      /\ o = MaybeRequestDesktopResize(watch, state, s, desktop)
  BY DEF Request
<1> HIDE DEF o
<1>1. Begins(o, state, s, desktop) \/ NothingDue(o, watch, state, s, desktop)
  BY <1>0, MaybeCases
<1>2. CASE Begins(o, state, s, desktop)
  <2>1. /\ o.watch.count = 1 /\ o.sent = <<s>> /\ Len(o.sent) = 1 /\ s \in Size
        /\ watch'.pending = s /\ watch'.count = 1
    BY <1>0, <1>2 DEF Begins
  <2>2. LastAre(requests', 1 - lost', s)
    <3>1. /\ Len(o.sent) <= RESIZE_MAX_RETRY /\ o.watch.count <= Len(o.sent)
          /\ o.sent \in {<<s>>, <<s, s>>}
      BY <2>1, ResizeAssumption
    <3>2. LastAre(requests', Len(o.sent) - lost', s)
      BY <1>0, <2>1, <3>1, Begin
    <3> QED BY <2>1, <3>2
  <2> QED BY <2>1, <2>2, ResizeAssumption DEF SeriesAccounted, Accounted
<1>3. CASE NothingDue(o, watch, state, s, desktop)
  <2>1. requests' = requests /\ lost' = lost /\ watch' = watch
    BY <1>0, <1>3, NothingSent DEF NothingDue
  <2> QED BY <1>3, <2>1 DEF SeriesAccounted, Accounted, NothingDue
<1> QED BY <1>1, <1>2, <1>3

\* A view that changes its size, or loads, and a connection that succeeds.
LEMMA AskInv ==
  ASSUME IInv, SeriesInv,
         \/ \E s \in Size : Rotate(s) \/ SurfaceLoads(s)
         \/ OnConnectionSuccess
  PROVE  SeriesInv'
<1> USE DEF IInv
<1>1. ASSUME NEW s \in Size, Rotate(s) \/ SurfaceLoads(s) PROVE SeriesInv'
  <2>1. /\ Request(MaybeRequestDesktopResize(watch, connectionState, s, desktop))
        /\ surface' = s /\ reports' = reports
        /\ UNCHANGED <<displayMode, connectionState, desktop>>
    BY <1>1 DEF Rotate, SurfaceLoads, UpdateSurfaceMetrics, netVars
  <2> QED BY <2>1, AskKeeps DEF SeriesInv, GivenUpAccounted, LiesWrong
<1>2. CASE OnConnectionSuccess
  <2>1. /\ Request(MaybeRequestDesktopResize(watch, "CONNECTED", surface, desktop))
        /\ reports' = reports
        /\ UNCHANGED <<displayMode, surface, desktop>>
    BY <1>2 DEF OnConnectionSuccess, Becomes, netVars
  <2>2. surface \in Size \cup {None}
    BY DEF TypeOK
  <2> QED BY <2>1, <2>2, AskKeeps DEF SeriesInv, GivenUpAccounted, LiesWrong
<1> QED BY <1>1, <1>2

\* Checking keeps a series accounted for, whether it sends again or gives up.
LEMMA CheckKeeps ==
  ASSUME IInv, NEW w \in Watches, NEW d \in Size, NEW o,
         o = CheckResizeResult(w, connectionState, surface, d),
         Request(o), w.pending # None, w.count > 0,
         connectionState = "CONNECTED" /\ displayMode = "FILL" /\ Mismatch(surface, d)
           => w.pending = surface,
         Among(reports', w.pending) \/ LastAre(requests, w.count - lost, w.pending)
  PROVE  /\ watch'.pending # None
              => \/ Among(reports', watch'.pending)
                 \/ LastAre(requests', watch'.count - lost', watch'.pending)
         /\ connectionState = "CONNECTED" /\ displayMode = "FILL" /\ Mismatch(surface, d)
              => \/ watch'.pending # None
                 \/ Among(reports', surface)
                 \/ LastAre(requests', RESIZE_MAX_RETRY - lost', surface)
<1>0. watch' = o.watch /\ w.count \in 0..RESIZE_MAX_RETRY /\ w.pending \in Size
  BY DEF Request, Watches
<1>1. CASE SendsAgain(o, w)
  <2>1. o.watch.count = w.count + 1 /\ w.count \in Nat \ {0} /\ o.sent = <<w.pending>>
    BY <1>0, <1>1, ResizeAssumption DEF SendsAgain
  <2>2. Among(reports', w.pending) \/ LastAre(requests', (w.count + 1) - lost', w.pending)
    BY <1>0, <1>1, <2>1, Continue DEF IInv, SendsAgain
  <2>3. watch'.pending = w.pending /\ watch'.count = w.count + 1
    BY <1>0, <1>1 DEF SendsAgain
  <2>4. Among(reports', watch'.pending) \/ LastAre(requests', watch'.count - lost', watch'.pending)
    BY <2>2, <2>3, Zenon
  <2>5. watch'.pending # None
    BY <2>3
  <2> QED BY <2>4, <2>5
<1>2. CASE Ends(o, w, connectionState, surface, d)
  <2>1. requests' = requests /\ lost' = lost /\ watch' = NoWatch
    BY <1>2, NothingSent DEF IInv, Ends
  <2>2. watch'.pending = None
    BY <2>1 DEF NoWatch
  <2>3. ~(w.count < RESIZE_MAX_RETRY) => w.count = RESIZE_MAX_RETRY
    BY <1>0, ResizeAssumption
  <2>4. ASSUME connectionState = "CONNECTED" /\ displayMode = "FILL" /\ Mismatch(surface, d)
        PROVE  Among(reports', surface) \/ LastAre(requests', RESIZE_MAX_RETRY - lost', surface)
    BY <1>2, <2>1, <2>3, <2>4 DEF Ends
  <2> QED BY <2>2, <2>4
<1> QED BY <1>1, <1>2, CheckCases DEF NothingPending

\* The timer.
LEMMA TimerSeries ==
  ASSUME IInv, SeriesInv, RetryTimer
  PROVE  SeriesInv'
<1> DEFINE w == [watch EXCEPT !.timer = FALSE]
           o == CheckResizeResult(w, connectionState, surface, desktop)
<1>1. /\ w \in Watches /\ w.pending = watch.pending /\ w.count = watch.count
      /\ w.pending # None /\ w.count > 0
  BY DEF IInv, TypeOK, Watches, GoodWatch, RetryTimer
<1>2. /\ Request(o) /\ UNCHANGED <<displayMode, connectionState, surface, desktop, loading>>
      /\ reports' = reports
  BY DEF RetryTimer, pageVars, netVars
<1>3. o = CheckResizeResult(w, connectionState, surface, desktop)
  OBVIOUS
<1> HIDE DEF w, o
<1>4. /\ connectionState = "CONNECTED" /\ displayMode = "FILL" /\ Mismatch(surface, desktop)
           => w.pending = surface
      /\ Among(reports', w.pending) \/ LastAre(requests, w.count - lost, w.pending)
      /\ desktop \in Size
  BY <1>1, <1>2 DEF IInv, TypeOK, Fits, SeriesInv, SeriesAccounted, Accounted
<1>5. /\ watch'.pending # None
           => \/ Among(reports', watch'.pending)
              \/ LastAre(requests', watch'.count - lost', watch'.pending)
      /\ connectionState = "CONNECTED" /\ displayMode = "FILL" /\ Mismatch(surface, desktop)
           => \/ watch'.pending # None
              \/ Among(reports', surface)
              \/ LastAre(requests', RESIZE_MAX_RETRY - lost', surface)
  BY <1>1, <1>2, <1>3, <1>4, CheckKeeps
<1> QED BY <1>2, <1>5 DEF SeriesInv, SeriesAccounted, GivenUpAccounted, LiesWrong, Accounted

LEMMA TwoRequests == ASSUME NEW s PROVE <<s>> \o <<s>> = <<s, s>>
<1>1. <<s>> \in Seq({s}) /\ <<s, s>> \in Seq({s}) /\ Len(<<s>>) = 1 /\ Len(<<s, s>>) = 2
  OBVIOUS
<1>2. <<s>> \o <<s>> \in Seq({s}) /\ Len(<<s>> \o <<s>>) = 2
  BY <1>1
<1>3. \A n \in 1..2 : (<<s>> \o <<s>>)[n] = <<s, s>>[n]
  BY <1>1
<1> QED BY <1>1, <1>2, <1>3, SeqEqual

\* A report: a series that begins has one request or two; one that goes on keeps
\* the answer it waits for, as an answer ends it.
LEMMA ReportSeries ==
  ASSUME IInv, SeriesInv, OnNegotiatedSettings
  PROVE  SeriesInv'
<1> DEFINE d == Head(reports)
           asked == MaybeRequestDesktopResize(watch, connectionState, surface, d)
           checked == CheckResizeResult(asked.watch, connectionState, surface, d)
           o == Outcome(checked.watch, asked.sent \o checked.sent)
<1>1. /\ d \in Size /\ desktop' = d /\ reports # <<>> /\ reports' = Tail(reports)
      /\ surface \in Size \cup {None}
      /\ UNCHANGED <<displayMode, connectionState, surface, loading>>
  BY SMTT(40) DEF OnNegotiatedSettings, IInv, TypeOK
<1>2. /\ Request(o) /\ watch' = o.watch
      /\ o.watch = checked.watch /\ o.sent = asked.sent \o checked.sent
  BY OutcomeFields, Zenon DEF OnNegotiatedSettings, Request
<1>3. /\ asked = MaybeRequestDesktopResize(watch, connectionState, surface, d)
      /\ checked = CheckResizeResult(asked.watch, connectionState, surface, d)
      /\ d = Head(reports)
  OBVIOUS
<1> HIDE DEF o, asked, checked, d
<1>4. CASE Begins(asked, connectionState, surface, d)
  <2>1. /\ asked.sent = <<surface>> /\ surface \in Size /\ surface # None
        /\ asked.watch.pending = surface /\ asked.watch.count = 1
    BY <1>4, ResizeAssumption DEF Begins
  <2>2. CASE SendsAgain(checked, asked.watch)
    <3>1. /\ checked.sent = <<surface>> /\ 1 < RESIZE_MAX_RETRY
          /\ watch'.pending = surface /\ o.watch.count = 2 /\ watch'.count = 2
      BY <1>2, <2>1, <2>2 DEF SendsAgain
    <3>2. o.sent = <<surface, surface>>
      BY <1>2, <2>1, <3>1, TwoRequests
    <3>3. Len(o.sent) = 2 /\ o.sent \in {<<surface>>, <<surface, surface>>}
      BY <3>2
    <3>4. Len(o.sent) <= RESIZE_MAX_RETRY /\ o.watch.count <= Len(o.sent)
      BY <3>1, <3>3, ResizeAssumption
    <3>5. LastAre(requests', Len(o.sent) - lost', surface)
      BY <1>2, <2>1, <3>3, <3>4, Begin DEF IInv
    <3>6. LastAre(requests', watch'.count - lost', surface)
      BY <3>1, <3>3, <3>5
    <3> QED BY <2>1, <3>1, <3>6
            DEF SeriesInv, SeriesAccounted, GivenUpAccounted, Accounted
  <2>3. CASE Ends(checked, asked.watch, connectionState, surface, d)
    <3>1. RESIZE_MAX_RETRY = 1
      BY <1>4, <2>1, <2>3, ResizeAssumption DEF Ends, Begins
    <3>2. o.watch = NoWatch /\ checked.sent = <<>>
      BY <1>2, <2>3 DEF Ends
    <3>3. o.watch.count = 0 /\ watch'.pending = None
      BY <1>2, <3>2 DEF NoWatch
    <3>4. o.sent = <<surface>>
      BY <1>2, <2>1, <3>2
    <3>5. Len(o.sent) = 1 /\ o.sent \in {<<surface>>, <<surface, surface>>}
      BY <3>4
    <3>6. LastAre(requests', Len(o.sent) - lost', surface)
      BY <1>2, <2>1, <3>1, <3>3, <3>5, Begin DEF IInv
    <3>7. LastAre(requests', RESIZE_MAX_RETRY - lost', surface)
      BY <3>1, <3>5, <3>6
    <3> QED BY <1>1, <3>3, <3>7
            DEF SeriesInv, SeriesAccounted, GivenUpAccounted, Accounted
  <2> QED BY <1>3, <2>1, <2>2, <2>3, CheckCases DEF NothingPending
<1>5. CASE NothingDue(asked, watch, connectionState, surface, d)
  <2>1. /\ asked.watch = watch /\ asked.sent = <<>>
        /\ connectionState = "CONNECTED" /\ displayMode = "FILL" /\ surface # None
             /\ Mismatch(surface, d) => watch.pending = surface
    BY <1>5 DEF NothingDue
  <2>2. checked = CheckResizeResult(watch, connectionState, surface, d)
    BY <1>3, <2>1
  <2>3. \/ NothingPending(checked, watch)
        \/ SendsAgain(checked, watch)
        \/ Ends(checked, watch, connectionState, surface, d)
    BY <2>2, CheckCases
  <2>4. checked.sent \in Seq(Size)
    <3>1. CASE NothingPending(checked, watch) \/ Ends(checked, watch, connectionState, surface, d)
      <4>1. checked.sent = <<>>
        BY <3>1 DEF NothingPending, Ends
      <4> QED BY <4>1
    <3>2. CASE SendsAgain(checked, watch)
      <4>1. watch.pending \in Size /\ checked.sent = <<watch.pending>>
        BY <3>2 DEF SendsAgain, IInv, TypeOK, Watches
      <4> QED BY <4>1
    <3> QED BY <2>3, <3>1, <3>2
  <2>5. o.sent = checked.sent /\ o.watch = checked.watch
    BY <1>2, <2>1, <2>4
  <2>6. CASE watch.pending = None
    <3>1. o.sent = <<>> /\ o.watch = watch
      <4>1. NothingPending(checked, watch)
        BY <2>2, <2>6, CheckCases DEF SendsAgain
      <4> QED BY <2>5, <4>1 DEF NothingPending
    <3>2. watch' = watch
      BY <1>2, <3>1
    <3> QED BY <1>1, <2>1, <2>6, <3>2
            DEF SeriesInv, SeriesAccounted, GivenUpAccounted, LiesWrong
  <2>7. CASE watch.pending # None
    <3>1. CASE connectionState = "CONNECTED" /\ Mismatch(surface, d)
      <4>1. displayMode = "FILL" /\ surface # None /\ watch.pending = surface
        BY <2>1, <2>7, <3>1 DEF IInv, Fits
      <4>2. Among(reports', surface) \/ LastAre(requests, watch.count - lost, surface)
        BY <1>1, <1>3, <2>7, <3>1, <4>1, OtherReport
           DEF IInv, SeriesInv, SeriesAccounted, Accounted
      <4>3. watch \in Watches /\ watch.count > 0
        BY <2>7 DEF IInv, TypeOK, GoodWatch
      <4>4. Request(checked)
        BY <1>2, <2>5 DEF Request
      <4>5. /\ watch'.pending # None
                 => \/ Among(reports', watch'.pending)
                    \/ LastAre(requests', watch'.count - lost', watch'.pending)
            /\ connectionState = "CONNECTED" /\ displayMode = "FILL" /\ Mismatch(surface, d)
                 => \/ watch'.pending # None
                    \/ Among(reports', surface)
                    \/ LastAre(requests', RESIZE_MAX_RETRY - lost', surface)
        BY <1>1, <1>3, <2>1, <2>7, <4>1, <4>2, <4>3, <4>4, CheckKeeps
      <4> QED BY <1>1, <3>1, <4>1, <4>5
              DEF SeriesInv, SeriesAccounted, GivenUpAccounted, LiesWrong, Accounted
    <3>2. CASE ~(connectionState = "CONNECTED" /\ Mismatch(surface, d))
      <4>1. checked.watch = NoWatch
        BY <1>3, <2>1, <2>7, <3>2, CheckCases DEF NothingPending, Ends
      <4>2. watch'.pending = None
        BY <1>2, <2>5, <4>1 DEF NoWatch
      <4> QED BY <1>1, <3>2, <4>2 DEF SeriesInv, SeriesAccounted, GivenUpAccounted, LiesWrong
    <3> QED BY <3>1, <3>2
  <2> QED BY <2>6, <2>7
<1> QED BY <1>1, <1>3, <1>4, <1>5, MaybeCases

\* The channel and the server keep an attempt accounted for: a request becomes a
\* report of its orientation, or it is lost.
LEMMA NetworkKeeps ==
  ASSUME TypeOK, ChannelConnected \/ ChannelDisconnected \/ ServerAnswers \/ ServerReports,
         NEW s \in Size, NEW c \in 0..RESIZE_MAX_RETRY, Accounted(s, c)
  PROVE  Among(reports', s) \/ LastAre(requests', c - lost', s)
<1>1. /\ requests \in Seq(Size) /\ Len(requests) \in Nat /\ reports \in Seq(Size)
      /\ remote \in Size /\ RESIZE_MAX_RETRY \in Nat /\ lost \in 0..RESIZE_MAX_RETRY
      /\ c \in Nat /\ c <= RESIZE_MAX_RETRY
  BY ResizeAssumption DEF TypeOK
<1>2. ASSUME NEW r \in Size, Among(reports, s)
      PROVE  Among(Append(reports, r), s)
  <2>1. PICK n \in 1..Len(reports) : ~Mismatch(reports[n], s)
    BY <1>2 DEF Among
  <2>2. n \in 1..Len(Append(reports, r)) /\ Append(reports, r)[n] = reports[n]
    BY <1>1
  <2> QED BY <2>1, <2>2 DEF Among
<1>3. CASE ChannelConnected \/ ServerReports
  <2>1. /\ requests' = requests /\ lost' = lost
        /\ reports' = reports \/ reports' = Append(reports, remote)
    BY <1>3 DEF ChannelConnected, ServerReports
  <2> QED BY <1>1, <1>2, <2>1 DEF Accounted
<1>4. CASE ChannelDisconnected
  <2>1. reports' = reports /\ requests' = <<>> /\ lost' = UpTo(lost + Len(requests))
    BY <1>4 DEF ChannelDisconnected
  <2>2. ASSUME LastAre(requests, c - lost, s)
        PROVE  LastAre(requests', c - lost', s)
    <3>1. c - lost <= Len(requests)
      BY <2>2 DEF LastAre
    <3>2. lost' \in Nat /\ c <= lost'
      BY <1>1, <2>1, <3>1 DEF UpTo
    <3>3. Len(requests') = 0
      BY <2>1
    <3>4. c - lost' \in Int /\ c - lost' <= 0
      <4>1. \A p, q \in Nat : p <= q => p - q \in Int /\ p - q <= 0
        OBVIOUS
      <4>2. c \in Nat /\ lost' \in Nat /\ c <= lost'
        BY <1>1, <3>2
      <4> QED BY ONLY <4>1, <4>2
    <3>5. \A n \in 0 - (c - lost') + 1..0 : FALSE
      BY <3>4
    <3> QED BY <3>3, <3>4, <3>5 DEF LastAre
  <2> QED BY <2>1, <2>2 DEF Accounted
<1>5. CASE ServerAnswers
  <2>1. requests # <<>> /\ requests' = Tail(requests)
    BY <1>5 DEF ServerAnswers, ServerHonours, ServerDrops, ServerRefuses
  <2>2. /\ Len(requests) >= 1 /\ Len(requests') = Len(requests) - 1
        /\ Head(requests) = requests[1]
        /\ \A n \in 1..Len(requests') : requests'[n] = requests[n + 1]
    BY <1>1, <2>1
  <2>3. \/ reports' = reports
        \/ \E r \in Size : reports' = Append(reports, r)
    BY <1>1, <1>5 DEF ServerAnswers, ServerHonours, ServerDrops, ServerRefuses, netVars
  <2>4. CASE Among(reports, s)
    BY <1>2, <2>3, <2>4
  <2>5. CASE LastAre(requests, c - lost, s)
    <3>1. /\ c - lost <= Len(requests)
          /\ \A n \in Len(requests) - (c - lost) + 1..Len(requests) : ~Mismatch(requests[n], s)
      BY <2>5 DEF LastAre
    <3>2. CASE ServerHonours
      <4>1. PICK r \in Size : ~Mismatch(r, Head(requests)) /\ reports' = Append(reports, r)
        BY <3>2 DEF ServerHonours
      <4>2. lost' = lost
        BY <3>2 DEF ServerHonours
      <4>3. CASE c - lost = Len(requests)
        <5>1. ~Mismatch(requests[1], s)
          BY <1>1, <2>2, <3>1, <4>3
        <5>2. ~Mismatch(r, s)
          BY <2>2, <4>1, <5>1, Orientation
        <5>3. /\ Len(reports) + 1 \in 1..Len(reports')
              /\ reports'[Len(reports) + 1] = r
          BY <1>1, <4>1
        <5> QED BY <5>2, <5>3 DEF Among
      <4>4. CASE c - lost # Len(requests)
        <5>1. c - lost' <= Len(requests')
          BY <1>1, <2>2, <3>1, <4>2, <4>4
        <5>2. ASSUME NEW n \in Len(requests') - (c - lost') + 1..Len(requests')
              PROVE  ~Mismatch(requests'[n], s)
          <6>1. /\ n + 1 \in Len(requests) - (c - lost) + 1..Len(requests)
                /\ n \in 1..Len(requests')
            BY <1>1, <2>2, <4>2, <5>1
          <6> QED BY <2>2, <3>1, <6>1
        <5> QED BY <5>1, <5>2 DEF LastAre
      <4> QED BY <4>3, <4>4
    <3>3. CASE ServerDrops \/ ServerRefuses
      <4>1. lost' = UpTo(lost + 1)
        BY <3>3 DEF ServerDrops, ServerRefuses
      <4>2. /\ lost' \in Nat /\ lost' <= RESIZE_MAX_RETRY
            /\ lost' = lost + 1 \/ (lost' = RESIZE_MAX_RETRY /\ lost' = lost)
        BY <1>1, <4>1 DEF UpTo
      <4>3. c - lost' <= Len(requests')
        BY <1>1, <2>2, <3>1, <4>2
      <4>4. ASSUME NEW n \in Len(requests') - (c - lost') + 1..Len(requests')
            PROVE  ~Mismatch(requests'[n], s)
        <5>1. /\ n + 1 \in Len(requests) - (c - lost) + 1..Len(requests)
              /\ n \in 1..Len(requests')
          BY <1>1, <2>2, <4>2, <4>3
        <5> QED BY <2>2, <3>1, <5>1
      <4> QED BY <4>3, <4>4 DEF LastAre
    <3> QED BY <1>5, <3>2, <3>3 DEF ServerAnswers
  <2> QED BY <2>4, <2>5 DEF Accounted
<1> QED BY <1>3, <1>4, <1>5

\* And so it does for the series as a whole.
LEMMA NetworkSeries ==
  ASSUME IInv, SeriesInv, ChannelConnected \/ ChannelDisconnected \/ ServerAnswers \/ ServerReports
  PROVE  SeriesInv'
<1>1. UNCHANGED <<pageVars, watch>>
  BY DEF ChannelConnected, ChannelDisconnected, ServerAnswers, ServerHonours,
         ServerDrops, ServerRefuses, ServerReports
<1>2. /\ watch.pending # None => watch.pending \in Size
      /\ watch.count \in 0..RESIZE_MAX_RETRY /\ RESIZE_MAX_RETRY \in 0..RESIZE_MAX_RETRY
      /\ surface # None => surface \in Size
  BY ResizeAssumption DEF IInv, TypeOK, Watches
<1>3. watch.pending # None =>
        \/ Among(reports', watch.pending)
        \/ LastAre(requests', watch.count - lost', watch.pending)
  BY <1>2, NetworkKeeps DEF IInv, SeriesInv, SeriesAccounted
<1>4. LiesWrong /\ watch.pending = None =>
        Among(reports', surface) \/ LastAre(requests', RESIZE_MAX_RETRY - lost', surface)
  BY <1>2, NetworkKeeps DEF IInv, SeriesInv, GivenUpAccounted, LiesWrong
<1> QED BY <1>1, <1>3, <1>4
        DEF SeriesInv, SeriesAccounted, GivenUpAccounted, LiesWrong, Accounted, pageVars

\* Every step keeps the series accounted for.
LEMMA SeriesStep ==
  ASSUME IInv, SeriesInv, [Next]_vars
  PROVE  SeriesInv'
<1>1. CASE (\E s \in Size : Rotate(s) \/ SurfaceLoads(s)) \/ OnConnectionSuccess
  BY <1>1, AskInv
<1>2. CASE OtherChange
  <2>1. /\ UNCHANGED <<watch, requests, lost, reports>>
        /\ connectionState' = "CONNECTED" => loading'
    BY <1>2 DEF OtherChange, Becomes, netVars
  <2> QED BY <2>1 DEF SeriesInv, SeriesAccounted, GivenUpAccounted, LiesWrong, Accounted
<1>3. CASE OnDisconnected
  <2>1. watch'.pending = None /\ connectionState' = "DISCONNECTED"
    BY <1>3 DEF OnDisconnected, Becomes, NoWatch
  <2> QED BY <2>1 DEF SeriesInv, SeriesAccounted, GivenUpAccounted, LiesWrong
<1>4. CASE UNCHANGED vars
  BY <1>4 DEF vars, pageVars, netVars, SeriesInv, SeriesAccounted, GivenUpAccounted,
              LiesWrong, Accounted
<1> QED BY <1>1, <1>2, <1>3, <1>4, TimerSeries, ReportSeries, NetworkSeries DEF Next

\* The safety half of EventuallyFills, whatever the server does: as long as the
\* page shows a desktop that lies the wrong way, a request for this surface is
\* under watch; or every attempt of a series was lost; or one is still under
\* way, or its answer.  The watchdog never just forgets.
SoughtOrLost ==
  LiesWrong =>
    \/ watch.pending = surface
    \/ lost = RESIZE_MAX_RETRY
    \/ Among(requests, surface)
    \/ Among(reports, surface)

THEOREM TurnedDesktopIsSought == Spec => []SoughtOrLost
<1>1. Init => SeriesInv
  BY DEF Init, SeriesInv, SeriesAccounted, GivenUpAccounted, LiesWrong, NoWatch
<1>2. Spec => []SeriesInv
  BY <1>1, SeriesStep, Invariance, PTL DEF Spec
<1>3. IInv /\ SeriesInv => SoughtOrLost
  <2> SUFFICES ASSUME IInv, SeriesInv, LiesWrong, lost # RESIZE_MAX_RETRY,
                      ~Among(reports, surface)
               PROVE  watch.pending = surface \/ Among(requests, surface)
    BY DEF SoughtOrLost
  <2>1. CASE watch.pending # None
    BY <2>1 DEF IInv, Fits, LiesWrong
  <2>2. CASE watch.pending = None
    <3>1. LastAre(requests, RESIZE_MAX_RETRY - lost, surface)
      BY <2>2 DEF SeriesInv, GivenUpAccounted, Accounted
    <3>2. /\ Len(requests) \in Nat /\ RESIZE_MAX_RETRY - lost \in Nat \ {0}
      BY ResizeAssumption DEF IInv, TypeOK
    <3>3. Len(requests) \in 1..Len(requests) /\ ~Mismatch(requests[Len(requests)], surface)
      BY <3>1, <3>2 DEF LastAre
    <3> QED BY <3>3 DEF Among
  <2> QED BY <2>1, <2>2
<1> QED BY <1>2, <1>3, Invariance, PTL
=============================================================================
