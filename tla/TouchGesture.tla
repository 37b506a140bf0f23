---------------------------- MODULE TouchGesture ----------------------------
(***************************************************************************)
(* The touch handling of SessionPage.ets: fingers on the session view      *)
(* become clicks, drags, right clicks and wheel turns of the remote mouse. *)
(* The first finger is the primary one; what its gesture is, is decided by *)
(* how far it moves, by the hold timer, by a second finger, and by the     *)
(* pinch and pan recognisers, whose callbacks interleave with the touches. *)
(* A coordinate is one number; times are ages in clock ticks, which stop   *)
(* growing once no comparison can tell them apart.  A field that is read   *)
(* only under a flag is kept with the flag: twoFinger, lastTap, scroll.    *)
(***************************************************************************)
EXTENDS Integers, Sequences

CONSTANTS
  Finger, None,         \* touch ids; None is -1, and what is not there
  Place,                \* coordinates
  TAP_SLOP, DOUBLE_TAP_DIST, TWO_FINGER_TAP_SLOP, SCROLL_WHEEL_STEP,
  TWO_FINGER_TAP, HOLD_DELAY, TWO_FINGER_LIFT, DOUBLE_TAP    \* in ticks

ASSUME TouchAssumption ==
  /\ Place \subseteq Int
  /\ {TAP_SLOP, DOUBLE_TAP_DIST, TWO_FINGER_TAP_SLOP} \subseteq Nat
  /\ SCROLL_WHEEL_STEP \in Nat \ {0}
  /\ {TWO_FINGER_TAP, HOLD_DELAY, TWO_FINGER_LIFT, DOUBLE_TAP} \subseteq Nat
  /\ TWO_FINGER_TAP < HOLD_DELAY

Taps == [at : Place, age : 0..(DOUBLE_TAP + 1)]
Scrolls == [last : Place, accum : Int, start : Place, turned : Int]
Ages == 0..(TWO_FINGER_LIFT + 1)

ASSUME NoneAssumption ==
  None \notin Finger /\ None \notin Int /\ None \notin Taps /\ None \notin Scrolls

VARIABLES
  down,               \* the fingers on the glass (event.touches)
  activeTouchId, tapPending, tapButtonSent, touchCancelled,
  holdPressTimer,     \* armed
  tapDown,            \* where the primary finger came down
  primaryAge,         \* since primaryDownMs
  twoFinger,          \* twoFingerPending: None, or the age of twoFingerDownMs
  lastTap,            \* None (lastTapTime = 0), or where it was, and its age
  scroll,             \* scrolling: None, or scrollLast and wheelAccum, with
                      \* the history of its start and of the steps turned
  held, lost, sent    \* as in RemoteMouse

mouseVars == <<held, lost, sent>>
vars == <<down, activeTouchId, tapPending, tapButtonSent, touchCancelled,
          holdPressTimer, tapDown, primaryAge, twoFinger, lastTap, scroll,
          mouseVars>>

Mouse == INSTANCE RemoteMouse

Messages == Seq(Mouse!Message)
Msg(flags, p) == [flags |-> flags, at |-> p]
Distance(p, q) == IF p > q THEN p - q ELSE q - p

TypeOK ==
  /\ down \subseteq Finger
  /\ activeTouchId \in Finger \cup {None}
  /\ tapPending \in BOOLEAN /\ tapButtonSent \in BOOLEAN
  /\ touchCancelled \in BOOLEAN /\ holdPressTimer \in BOOLEAN
  /\ tapDown \in Place
  /\ primaryAge \in 0..HOLD_DELAY
  /\ twoFinger \in {None} \cup Ages
  /\ lastTap \in {None} \cup Taps
  /\ scroll \in {None} \cup Scrolls
  /\ held \in BOOLEAN /\ lost \in BOOLEAN
  /\ sent \in Messages

Init ==
  /\ down = {} /\ activeTouchId = None
  /\ tapPending = FALSE /\ tapButtonSent = FALSE /\ touchCancelled = FALSE
  /\ holdPressTimer = FALSE
  /\ tapDown \in Place /\ primaryAge = HOLD_DELAY
  /\ twoFinger = None /\ lastTap = None /\ scroll = None
  /\ Mouse!MouseInit

-----------------------------------------------------------------------------
(* LibFreeRDP.sendCursorEvent, and what the remote button does on it.        *)

Flags(msgs) == {msgs[i].flags : i \in DOMAIN msgs}

Send(msgs) ==
  /\ sent' = IF msgs = <<>> THEN sent ELSE msgs
  /\ held' = IF "up" \in Flags(msgs) THEN FALSE
             ELSE IF "down" \in Flags(msgs) THEN TRUE ELSE held
  /\ lost' = IF "up" \in Flags(msgs) THEN FALSE ELSE lost

-----------------------------------------------------------------------------
(* onSessionTouch, TouchType.Down.                                           *)

\* cancelTapTracking, up to twoFingerPending.
CancelTapTracking ==
  /\ holdPressTimer' = FALSE
  /\ tapPending' = FALSE
  /\ touchCancelled' = TRUE
  /\ lastTap' = None
  /\ scroll' = None
  /\ UNCHANGED tapButtonSent

\* A finger that vanished without an Up loses its place to the new one.
Stale(f) == activeTouchId # None /\ activeTouchId \notin down \cup {f}

BeginPrimaryTouch(f, p) ==
  /\ activeTouchId = None \/ Stale(f)
  /\ activeTouchId' = f
  /\ primaryAge' = 0
  /\ tapDown' = p
  /\ tapPending' = TRUE /\ tapButtonSent' = FALSE /\ touchCancelled' = FALSE
  /\ holdPressTimer' = TRUE
  /\ scroll' = IF Stale(f) THEN None ELSE scroll
  /\ twoFinger' = IF Stale(f) THEN None ELSE twoFinger
  /\ UNCHANGED <<lastTap, mouseVars>>

OnSecondaryTouchDown(f) ==
  /\ activeTouchId \in down /\ f # activeTouchId
  /\ ~tapButtonSent /\ ~touchCancelled /\ scroll = None
  /\ primaryAge <= TWO_FINGER_TAP
  /\ CancelTapTracking
  /\ twoFinger' = 0
  /\ UNCHANGED <<activeTouchId, tapDown, primaryAge, mouseVars>>

\* A finger too late for a right click is ignored; so is a new finger that
\* was given the id of a vanished primary one, and is taken for it.
IgnoredDown(f) ==
  /\ \/ f = activeTouchId
     \/ /\ activeTouchId \in down
        /\ \/ tapButtonSent \/ touchCancelled \/ scroll # None
           \/ primaryAge > TWO_FINGER_TAP
  /\ UNCHANGED <<activeTouchId, tapPending, tapButtonSent, touchCancelled,
                 holdPressTimer, tapDown, primaryAge, twoFinger, lastTap,
                 scroll, mouseVars>>

TouchDown(f, p) ==
  /\ f \notin down
  /\ down' = down \cup {f}
  /\ BeginPrimaryTouch(f, p) \/ OnSecondaryTouchDown(f) \/ IgnoredDown(f)

-----------------------------------------------------------------------------
(* handlePrimaryMove: cancelled gestures ignore it.                          *)

\* The whole steps in a way, towards zero.
Steps(way) == IF way >= 0 THEN way \div SCROLL_WHEEL_STEP
                          ELSE -((-way) \div SCROLL_WHEEL_STEP)

\* Mutants, here and below: what a plausible bug would make of the definition
\* that follows.  No specification uses them.
MutantWheelDropsRest(way, p) ==
  LET n == Steps(way) IN
  /\ scroll' = [last |-> p, accum |-> 0, start |-> scroll.start,
                turned |-> scroll.turned + n]
  /\ Send([i \in 1..Distance(n, 0) |->
             Msg(IF n > 0 THEN "wheel" ELSE "wheel negative", p)])

\* sendAccumulatedWheel: one wheel message for every full step.
SendAccumulatedWheel(way, p) ==
  LET n == Steps(way) IN
  /\ scroll' = [last |-> p, accum |-> way - n * SCROLL_WHEEL_STEP,
                start |-> scroll.start, turned |-> scroll.turned + n]
  /\ Send([i \in 1..Distance(n, 0) |->
             Msg(IF n > 0 THEN "wheel" ELSE "wheel negative", p)])

MoveScrolls(p) ==
  /\ scroll # None
  /\ SendAccumulatedWheel(scroll.accum + (p - scroll.last), p)
  /\ UNCHANGED <<tapPending, holdPressTimer>>

MutantScrollBeginsWithMove(p) ==
  /\ scroll = None /\ tapPending
  /\ Distance(p, tapDown) > TAP_SLOP
  /\ holdPressTimer' = FALSE
  /\ tapPending' = FALSE
  /\ scroll' = [last |-> p, accum |-> 0, start |-> p, turned |-> 0]
  /\ Send(<<Msg("move", p)>>)

MoveBeginsScroll(p) ==
  /\ scroll = None /\ tapPending
  /\ Distance(p, tapDown) > TAP_SLOP
  /\ holdPressTimer' = FALSE
  /\ tapPending' = FALSE
  /\ scroll' = [last |-> p, accum |-> 0, start |-> p, turned |-> 0]
  /\ UNCHANGED mouseVars

MoveDrags(p) ==
  /\ scroll = None /\ ~tapPending /\ tapButtonSent
  /\ Send(<<Msg("move", p)>>)
  /\ UNCHANGED <<tapPending, holdPressTimer, scroll>>

TouchMove(p) ==
  /\ activeTouchId \in down /\ ~touchCancelled
  /\ MoveScrolls(p) \/ MoveBeginsScroll(p) \/ MoveDrags(p)
  /\ UNCHANGED <<down, activeTouchId, tapButtonSent, touchCancelled, tapDown,
                 primaryAge, twoFinger, lastTap>>

-----------------------------------------------------------------------------
(* handlePrimaryEnd, its cases in the order in which the code tests them.    *)
(* type is TouchType.Up or TouchType.Cancel.                                 *)

EndScroll ==
  scroll # None /\ lastTap' = None /\ UNCHANGED mouseVars

EndTwoFinger(type, p) ==
  /\ scroll = None /\ twoFinger # None
  /\ Send(IF /\ type = "Up"
             /\ twoFinger <= TWO_FINGER_LIFT
             /\ Distance(p, tapDown) <= TWO_FINGER_TAP_SLOP
          THEN <<Msg("right down", p), Msg("right up", p)>> ELSE <<>>)
  /\ UNCHANGED lastTap

EndCancelled(p) ==
  /\ scroll = None /\ twoFinger = None /\ touchCancelled
  /\ Send(IF tapButtonSent THEN <<Msg("up", p)>> ELSE <<>>)
  /\ UNCHANGED lastTap

\* handleTap: the second click of a double goes where the first one went.
Double ==
  /\ lastTap # None
  /\ lastTap.age <= DOUBLE_TAP
  /\ Distance(tapDown, lastTap.at) <= DOUBLE_TAP_DIST

HandleTap ==
  LET at == IF Double THEN lastTap.at ELSE tapDown IN
  /\ Send(<<Msg("down", at), Msg("up", at)>>)
  /\ lastTap' = IF Double THEN None ELSE [at |-> at, age |-> 0]

EndTap(type) ==
  /\ scroll = None /\ twoFinger = None /\ ~touchCancelled /\ tapPending
  /\ \/ type = "Up" /\ HandleTap
     \/ type = "Cancel" /\ UNCHANGED <<lastTap, mouseVars>>

MutantEndDragOnUpOnly(type, p) ==
  /\ scroll = None /\ twoFinger = None /\ ~touchCancelled /\ ~tapPending
  /\ tapButtonSent
  /\ Send(IF type = "Up" THEN <<Msg("up", p)>> ELSE <<>>)
  /\ lastTap' = None

EndDrag(type, p) ==
  /\ scroll = None /\ twoFinger = None /\ ~touchCancelled /\ ~tapPending
  /\ tapButtonSent
  /\ Send(<<Msg("up", p)>>)
  /\ lastTap' = None

\* resetTapTracking, which touches neither the timer nor the remote button.
ResetTapTracking ==
  /\ tapPending' = FALSE /\ tapButtonSent' = FALSE /\ touchCancelled' = FALSE
  /\ scroll' = None /\ twoFinger' = None

TouchEnd(type, p) ==
  /\ activeTouchId \in down
  /\ down' = down \ {activeTouchId}
  /\ activeTouchId' = None
  /\ holdPressTimer' = FALSE
  /\ \/ EndScroll
     \/ EndTwoFinger(type, p)
     \/ EndCancelled(p)
     \/ EndTap(type)
     \/ EndDrag(type, p)
  /\ ResetTapTracking
  /\ UNCHANGED <<tapDown, primaryAge>>

\* Another finger lifts: ignored.
SecondaryEnd(f) ==
  /\ f \in down /\ f # activeTouchId
  /\ down' = down \ {f}
  /\ UNCHANGED <<activeTouchId, tapPending, tapButtonSent, touchCancelled,
                 holdPressTimer, tapDown, primaryAge, twoFinger, lastTap,
                 scroll, mouseVars>>

\* The primary finger leaves and no Up or Cancel reaches the handler: the view
\* was taken out of the tree, or the handler returned before it looked.
Vanish ==
  /\ activeTouchId \in down
  /\ down' = down \ {activeTouchId}
  /\ lost' = TRUE
  /\ UNCHANGED <<activeTouchId, tapPending, tapButtonSent, touchCancelled,
                 holdPressTimer, tapDown, primaryAge, twoFinger, lastTap,
                 scroll, held, sent>>

-----------------------------------------------------------------------------
(* The hold timer, the local gestures and the clock.                         *)

MutantHoldKeepsPending ==
  /\ holdPressTimer /\ primaryAge >= HOLD_DELAY
  /\ holdPressTimer' = FALSE
  /\ tapPending /\ UNCHANGED tapPending
  /\ Send(<<Msg("down", tapDown)>>)
  /\ tapButtonSent' = TRUE
  /\ UNCHANGED <<down, activeTouchId, touchCancelled, tapDown, primaryAge,
                 twoFinger, lastTap, scroll>>

HoldFires ==
  /\ holdPressTimer /\ primaryAge >= HOLD_DELAY
  /\ holdPressTimer' = FALSE
  /\ tapPending' = FALSE
  /\ IF tapPending
     THEN Send(<<Msg("down", tapDown)>>) /\ tapButtonSent' = TRUE
     ELSE UNCHANGED <<tapButtonSent, mouseVars>>
  /\ UNCHANGED <<down, activeTouchId, touchCancelled, tapDown, primaryAge,
                 twoFinger, lastTap, scroll>>

\* onActionStart of the pinch and of the pan gesture, each for two fingers.
LocalGestureStarts ==
  /\ \E f, g \in down : f # g
  /\ twoFinger' = None
  /\ \/ ~tapButtonSent /\ CancelTapTracking
     \/ /\ tapButtonSent
        /\ UNCHANGED <<holdPressTimer, tapPending, tapButtonSent,
                       touchCancelled, lastTap, scroll>>
  /\ UNCHANGED <<down, activeTouchId, tapDown, primaryAge, mouseVars>>

Older(age, limit) == IF age < limit THEN age + 1 ELSE age

Tick ==
  /\ primaryAge' = Older(primaryAge, HOLD_DELAY)
  /\ twoFinger' = IF twoFinger = None THEN None
                  ELSE Older(twoFinger, TWO_FINGER_LIFT + 1)
  /\ lastTap' = IF lastTap = None THEN None
                ELSE [lastTap EXCEPT !.age = Older(@, DOUBLE_TAP + 1)]
  /\ UNCHANGED <<down, activeTouchId, tapPending, tapButtonSent, touchCancelled,
                 holdPressTimer, tapDown, scroll, mouseVars>>

Next ==
  \/ \E f \in Finger, p \in Place : TouchDown(f, p)
  \/ \E p \in Place : TouchMove(p)
  \/ \E type \in {"Up", "Cancel"}, p \in Place : TouchEnd(type, p)
  \/ \E f \in Finger : SecondaryEnd(f)
  \/ Vanish
  \/ HoldFires
  \/ LocalGestureStarts
  \/ Tick

Spec == Init /\ [][Next]_vars

\* Time passes and a due timer's callback runs; the fingers owe us nothing.
FairSpec == Spec /\ WF_vars(Tick) /\ WF_vars(HoldFires)

-----------------------------------------------------------------------------
(* Properties.                                                               *)

\* With no finger on the glass, and none lost, the remote button is up,
\* whichever order fingers, recognisers and the hold timer came in
\* (handlePrimaryEnd's unconditional releases).
NoStuckButton == down = {} /\ ~lost => ~held

\* While a tap may still become the second of a double (lastTapTime > 0), the
\* last thing the remote saw was that tap's click, at the remembered spot: no
\* drag, wheel or right click came between (the resets of lastTapTime).
TapMemory ==
  lastTap # None /\ ~lost /\ (tapPending \/ activeTouchId = None)
    => sent = <<Msg("down", lastTap.at), Msg("up", lastTap.at)>>

\* The wheel steps sent and the rest kept add up to the finger's way, and the
\* rest is less than a step, however the way is cut into move events
\* (sendAccumulatedWheel).
WheelFollowsFinger ==
  scroll # None =>
    /\ scroll.turned * SCROLL_WHEEL_STEP + scroll.accum = scroll.last - scroll.start
    /\ Distance(scroll.accum, 0) < SCROLL_WHEEL_STEP

\* The remote desktop sees a well-behaved mouse: RemoteMouse is implemented.
RemoteSeesAMouse == Mouse!MouseSpec

\* A finger that came down does not stay undecided: it lifts, moves, is joined
\* by another, or the hold timer presses the button; or it was lost and a new
\* finger takes its place (primaryAge is 0 again).
TapIsDecided == tapPending /\ primaryAge > 0 ~> ~tapPending \/ primaryAge = 0
=============================================================================
