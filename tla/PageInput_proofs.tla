-------------------------- MODULE PageInput_proofs --------------------------
(* Proofs for the two machines that turn input on the session page into      *)
(* remote input: TouchGesture, for any fingers, coordinates and delays, and  *)
(* ImeBridge, for any texts.                                                 *)
EXTENDS TouchGesture, ImeBridge, SequenceTheorems, WellFoundedInduction, TLAPS

-----------------------------------------------------------------------------
(* TouchGesture: the button and the memory of taps, and that RemoteMouse is  *)
(* implemented.  The invariant says which flags can hold together, and ties  *)
(* the remote button to tapButtonSent as long as no touch was lost.          *)

Modes ==
  /\ holdPressTimer <=> tapPending
  /\ tapPending => /\ activeTouchId # None
                   /\ ~tapButtonSent /\ ~touchCancelled /\ scroll = None
  /\ tapButtonSent => activeTouchId # None /\ ~touchCancelled /\ scroll = None
  /\ scroll # None => activeTouchId # None /\ ~touchCancelled
  /\ twoFinger # None => activeTouchId # None /\ touchCancelled
  /\ touchCancelled => lastTap = None

Button ==
  /\ ~lost => (held <=> tapButtonSent)
  /\ ~lost /\ activeTouchId # None => activeTouchId \in down

Memory ==
  lastTap # None /\ ~lost /\ ~tapButtonSent /\ scroll = None
    => sent = <<Msg("down", lastTap.at), Msg("up", lastTap.at)>>

IInv == TypeOK /\ Modes /\ Button /\ Memory

\* Ages begin at 0, stay in their bounds as they grow, and are not None.
LEMMA AgeFacts ==
  /\ 0 \in 0..HOLD_DELAY /\ HOLD_DELAY \in 0..HOLD_DELAY
  /\ 0 \in Ages /\ None \notin Ages
  /\ 0 \in 0..(DOUBLE_TAP + 1)
  /\ \A a \in 0..HOLD_DELAY : Older(a, HOLD_DELAY) \in 0..HOLD_DELAY
  /\ \A a \in Ages : Older(a, TWO_FINGER_LIFT + 1) \in Ages
  /\ \A a \in 0..(DOUBLE_TAP + 1) : Older(a, DOUBLE_TAP + 1) \in 0..(DOUBLE_TAP + 1)
<1>1. /\ HOLD_DELAY \in Nat /\ TWO_FINGER_LIFT \in Nat /\ DOUBLE_TAP \in Nat
      /\ None \notin Int
  BY TouchAssumption, NoneAssumption
<1> QED BY <1>1 DEF Ages, Older

\* What sending one message does, by its flags.
LEMMA SendOne ==
  ASSUME NEW p \in Place, NEW f \in {"down", "move", "up"}, Send(<<Msg(f, p)>>)
  PROVE  /\ sent' = <<Msg(f, p)>>
         /\ held' = (IF f = "up" THEN FALSE ELSE IF f = "down" THEN TRUE ELSE held)
         /\ lost' = (IF f = "up" THEN FALSE ELSE lost)
<1> DEFINE msgs == <<Msg(f, p)>>
<1>1. Flags(msgs) = {f}
  BY DEF Flags, Msg
<1>2. msgs # <<>>
  OBVIOUS
<1>3. Send(msgs)
  OBVIOUS
<1> HIDE DEF msgs
<1>4. /\ sent' = msgs
      /\ held' = (IF f = "up" THEN FALSE ELSE IF f = "down" THEN TRUE ELSE held)
      /\ lost' = (IF f = "up" THEN FALSE ELSE lost)
  BY <1>1, <1>2, <1>3 DEF Send
<1> QED BY <1>4 DEF msgs

\* Two messages have the indices 1 and 2.
LEMMA TwoIndices == \A a, b : DOMAIN <<a, b>> = {1, 2}
OBVIOUS

\* A click leaves the button up, a right click does not touch it.
LEMMA SendTwo ==
  ASSUME NEW p \in Place, NEW f \in {"down", "right down"},
         NEW g \in {"up", "right up"}, Send(<<Msg(f, p), Msg(g, p)>>),
         f = "down" <=> g = "up"
  PROVE  /\ sent' = <<Msg(f, p), Msg(g, p)>>
         /\ held' = (IF g = "up" THEN FALSE ELSE held)
         /\ lost' = (IF g = "up" THEN FALSE ELSE lost)
<1> DEFINE msgs == <<Msg(f, p), Msg(g, p)>>
<1>1. Flags(msgs) = {f, g}
  <2>1. DOMAIN msgs = {1, 2}
    BY TwoIndices
  <2>2. msgs[1].flags = f /\ msgs[2].flags = g
    BY DEF Msg
  <2> HIDE DEF msgs
  <2> QED BY <2>1, <2>2 DEF Flags
<1>2. msgs # <<>>
  OBVIOUS
<1>3. Send(msgs)
  OBVIOUS
<1> HIDE DEF msgs
<1>4. /\ sent' = msgs
      /\ held' = (IF g = "up" THEN FALSE ELSE held)
      /\ lost' = (IF g = "up" THEN FALSE ELSE lost)
  BY <1>1, <1>2, <1>3 DEF Send
<1> QED BY <1>4 DEF msgs

\* Nothing sent, nothing changed.
LEMMA SendNothing ==
  ASSUME Send(<<>>)
  PROVE  UNCHANGED mouseVars
<1>1. Flags(<<>>) = {}
  BY DEF Flags
<1>2. sent' = sent
  BY DEF Send
<1>3. held' = held /\ lost' = lost
  BY <1>1 DEF Send
<1> QED BY <1>2, <1>3 DEF mouseVars

\* The number of wheel steps in a way is an integer, its size a natural number.
LEMMA StepsInt ==
  ASSUME NEW way \in Int
  PROVE  Steps(way) \in Int /\ Distance(Steps(way), 0) \in Nat
BY TouchAssumption DEF Steps, Distance

\* What the gestures send are sequences of messages.
LEMMA PairIsSeq ==
  ASSUME NEW S, NEW a \in S, NEW b \in S
  PROVE  <<>> \in Seq(S) /\ <<a>> \in Seq(S) /\ <<a, b>> \in Seq(S)
OBVIOUS

LEMMA SeqRepeat ==
  ASSUME NEW S, NEW a \in S, NEW k \in Nat
  PROVE  [i \in 1..k |-> a] \in Seq(S)
OBVIOUS

LEMMA MessageSeq ==
  ASSUME NEW p \in Place,
         NEW f \in {"down", "move", "up", "right down", "right up"},
         NEW g \in {"up", "right up"}
  PROVE  <<Msg(f, p)>> \in Messages /\ <<Msg(f, p), Msg(g, p)>> \in Messages
<1>1. Msg(f, p) \in Mouse!Message /\ Msg(g, p) \in Mouse!Message
  BY DEF Msg, Mouse!Message
<1> QED BY <1>1, PairIsSeq DEF Messages

\* Turning the wheel does not touch the button.
LEMMA SendWheel ==
  ASSUME TypeOK, NEW n \in Int, NEW k \in Nat, NEW p \in Place,
         Send([i \in 1..k |-> Msg(IF n > 0 THEN "wheel" ELSE "wheel negative", p)])
  PROVE  /\ UNCHANGED <<held, lost>>
         /\ sent' \in Messages
         /\ sent' # sent => \E w \in {"wheel", "wheel negative"} :
                              \A i \in DOMAIN sent' : sent'[i] = Msg(w, p)
<1> DEFINE w == IF n > 0 THEN "wheel" ELSE "wheel negative"
           msgs == [i \in 1..k |-> Msg(w, p)]
<1>1. w \in {"wheel", "wheel negative"}
  OBVIOUS
<1>2. Send(msgs)
  OBVIOUS
<1> HIDE DEF w
<1>3. Msg(w, p) \in Mouse!Message /\ Msg(w, p).flags = w
  BY <1>1 DEF Msg, Mouse!Message
<1>4. msgs \in Messages
  BY <1>3, SeqRepeat DEF Messages
<1>5. /\ DOMAIN msgs = 1..k
      /\ \A i \in DOMAIN msgs : msgs[i] = Msg(w, p)
  OBVIOUS
<1> HIDE DEF msgs
<1>6. Flags(msgs) \subseteq {w}
  BY <1>3, <1>5 DEF Flags
<1>7. "up" \notin Flags(msgs) /\ "down" \notin Flags(msgs)
  BY <1>1, <1>6
<1>8. UNCHANGED <<held, lost>> /\ sent' \in {sent, msgs}
  BY <1>2, <1>7 DEF Send
<1> QED BY <1>1, <1>4, <1>5, <1>8 DEF TypeOK

-----------------------------------------------------------------------------

\* The initial state satisfies the invariant.
LEMMA InitInv == Init => IInv
<1>1. <<>> \in Messages
  BY DEF Messages
<1> QED
  BY <1>1, AgeFacts, NoneAssumption
     DEF Init, Mouse!MouseInit, IInv, TypeOK, Modes, Button, Memory

\* A finger that comes down preserves the invariant.
LEMMA DownInv ==
  ASSUME IInv, NEW f \in Finger, NEW p \in Place, TouchDown(f, p)
  PROVE  IInv'
<1> USE NoneAssumption
    DEF IInv, TypeOK, Modes, Button, Memory, mouseVars, TouchDown
<1>1. CASE BeginPrimaryTouch(f, p)
  <2> USE <1>1 DEF BeginPrimaryTouch, Stale
  <2>1. TypeOK'
    BY AgeFacts
  <2>2. Modes'
    OBVIOUS
  <2>3. Button'
    OBVIOUS
  <2>4. Memory'
    OBVIOUS
  <2> QED BY <2>1, <2>2, <2>3, <2>4
<1>2. CASE OnSecondaryTouchDown(f)
  <2> USE <1>2 DEF OnSecondaryTouchDown, CancelTapTracking
  <2>1. TypeOK'
    BY AgeFacts
  <2>2. Modes'
    OBVIOUS
  <2>3. Button'
    OBVIOUS
  <2>4. Memory'
    OBVIOUS
  <2> QED BY <2>1, <2>2, <2>3, <2>4
<1>3. CASE IgnoredDown(f)
  BY <1>3 DEF IgnoredDown
<1> QED BY <1>1, <1>2, <1>3

\* So does a move.
LEMMA MoveInv ==
  ASSUME IInv, NEW p \in Place, TouchMove(p)
  PROVE  IInv'
<1> USE NoneAssumption
    DEF IInv, TypeOK, Modes, Button, Memory, mouseVars, TouchMove
<1>1. CASE MoveScrolls(p)
  <2> DEFINE way == scroll.accum + (p - scroll.last)
             n == Steps(way)
  <2>1. scroll \in Scrolls
    BY <1>1 DEF MoveScrolls
  <2>2. way \in Int
    <3>1. scroll.accum \in Int /\ scroll.last \in Int /\ p \in Int
      BY <2>1, TouchAssumption DEF Scrolls
    <3> QED BY <3>1
  <2>3. n \in Int /\ Distance(n, 0) \in Nat
    BY <2>2, StepsInt
  <2>4. /\ scroll' = [last |-> p, accum |-> way - n * SCROLL_WHEEL_STEP,
                      start |-> scroll.start, turned |-> scroll.turned + n]
        /\ Send([i \in 1..Distance(n, 0) |->
                   Msg(IF n > 0 THEN "wheel" ELSE "wheel negative", p)])
        /\ UNCHANGED <<tapPending, holdPressTimer>>
    BY <1>1 DEF MoveScrolls, SendAccumulatedWheel
  <2> HIDE DEF way, n
  <2>5. UNCHANGED <<held, lost>> /\ sent' \in Messages
    BY <2>3, <2>4, SendWheel
  <2>6. scroll' \in Scrolls
    <3>1. way - n * SCROLL_WHEEL_STEP \in Int /\ scroll.turned + n \in Int
      BY <2>1, <2>2, <2>3, TouchAssumption DEF Scrolls
    <3> QED BY <2>1, <2>4, <3>1 DEF Scrolls
  <2>7. scroll # None /\ scroll' # None
    BY <1>1, <2>6 DEF MoveScrolls
  <2>8. UNCHANGED <<down, activeTouchId, tapButtonSent, touchCancelled, tapDown,
                    primaryAge, twoFinger, lastTap, tapPending, holdPressTimer,
                    held, lost>>
    BY <2>4, <2>5
  <2>9. TypeOK'
    BY <2>5, <2>6, <2>8
  <2>10. Modes'
    BY <2>7, <2>8
  <2>11. Button'
    BY <2>8
  <2>12. Memory'
    BY <2>7
  <2> HIDE DEF TypeOK, Modes, Button, Memory
  <2> QED BY <2>9, <2>10, <2>11, <2>12
<1>2. CASE MoveBeginsScroll(p)
  <2>1. scroll' \in Scrolls
    BY <1>2 DEF MoveBeginsScroll, Scrolls
  <2> QED BY <1>2, <2>1 DEF MoveBeginsScroll
<1>3. CASE MoveDrags(p)
  <2>1. sent' = <<Msg("move", p)>> /\ held' = held /\ lost' = lost
    BY <1>3, SendOne DEF MoveDrags
  <2>2. sent' \in Messages
    BY <2>1, MessageSeq
  <2> QED BY <1>3, <2>1, <2>2 DEF MoveDrags
<1> QED BY <1>1, <1>2, <1>3
---------------------------------------------------------

\* What the end of a gesture sends and remembers, whichever it was.
LEMMA EndSends ==
  ASSUME IInv, NEW type \in {"Up", "Cancel"}, NEW p \in Place, TouchEnd(type, p)
  PROVE  /\ held' \in BOOLEAN /\ lost' \in BOOLEAN /\ sent' \in Messages
         /\ lastTap' \in {None} \cup Taps
         /\ ~lost' => ~held'
         /\ lastTap' # None /\ ~lost'
              => sent' = <<Msg("down", lastTap'.at), Msg("up", lastTap'.at)>>
<1> USE NoneAssumption DEF IInv, TypeOK, Modes, Button, Memory, mouseVars
<1>1. CASE EndScroll
  BY <1>1 DEF EndScroll
<1>2. CASE EndTwoFinger(type, p)
  <2>1. ~tapButtonSent /\ lastTap' = None
    BY <1>2 DEF EndTwoFinger
  <2>2. CASE Send(<<Msg("right down", p), Msg("right up", p)>>)
    <3>1. /\ sent' = <<Msg("right down", p), Msg("right up", p)>>
          /\ held' = held /\ lost' = lost
      BY <2>2, SendTwo
    <3>2. sent' \in Messages
      BY <3>1, MessageSeq
    <3> QED BY <2>1, <3>1, <3>2
  <2>3. CASE Send(<<>>)
    BY <2>1, <2>3, SendNothing
  <2> QED BY <1>2, <2>2, <2>3 DEF EndTwoFinger
<1>3. CASE EndCancelled(p)
  <2>1. ~tapButtonSent /\ Send(<<>>) /\ lastTap' = lastTap
    BY <1>3 DEF EndCancelled
  <2> QED BY <1>3, <2>1, SendNothing DEF EndCancelled
<1>4. CASE EndTap(type)
  <2>1. CASE HandleTap
    <3> DEFINE at == IF Double THEN lastTap.at ELSE tapDown
    <3>1. at \in Place
      BY DEF Double, Taps
    <3>2. Send(<<Msg("down", at), Msg("up", at)>>)
      BY <2>1 DEF HandleTap
    <3>3. lastTap' = IF Double THEN None ELSE [at |-> at, age |-> 0]
      BY <2>1 DEF HandleTap
    <3> HIDE DEF at
    <3>4. /\ sent' = <<Msg("down", at), Msg("up", at)>>
          /\ held' = FALSE /\ lost' = FALSE
      BY <3>1, <3>2, SendTwo
    <3>5. sent' \in Messages
      BY <3>1, <3>4, MessageSeq
    <3>6. [at |-> at, age |-> 0] \in Taps
      BY <3>1, AgeFacts DEF Taps
    <3> QED BY <3>3, <3>4, <3>5, <3>6
  <2>2. CASE UNCHANGED <<lastTap, mouseVars>>
    BY <1>4, <2>2 DEF EndTap
  <2> QED BY <1>4, <2>1, <2>2 DEF EndTap
<1>5. CASE EndDrag(type, p)
  <2>1. sent' = <<Msg("up", p)>> /\ held' = FALSE /\ lost' = FALSE
    BY <1>5, SendOne DEF EndDrag
  <2>2. sent' \in Messages
    BY <2>1, MessageSeq
  <2> QED BY <1>5, <2>1, <2>2 DEF EndDrag
<1> QED BY <1>1, <1>2, <1>3, <1>4, <1>5 DEF TouchEnd

\* So does the end of a gesture.
LEMMA EndInv ==
  ASSUME IInv, NEW type \in {"Up", "Cancel"}, NEW p \in Place, TouchEnd(type, p)
  PROVE  IInv'
<1>1. /\ activeTouchId' = None /\ ~holdPressTimer' /\ ~tapPending'
      /\ ~tapButtonSent' /\ ~touchCancelled' /\ scroll' = None /\ twoFinger' = None
      /\ down' \subseteq Finger /\ UNCHANGED <<tapDown, primaryAge>>
      /\ tapPending' \in BOOLEAN /\ tapButtonSent' \in BOOLEAN
      /\ touchCancelled' \in BOOLEAN /\ holdPressTimer' \in BOOLEAN
  BY DEF TouchEnd, ResetTapTracking, IInv, TypeOK
<1>2. TypeOK'
  BY <1>1, EndSends DEF IInv, TypeOK
<1>3. Modes'
  BY <1>1 DEF Modes
<1>4. Button' /\ Memory'
  BY <1>1, EndSends DEF Button, Memory
<1> QED BY <1>2, <1>3, <1>4 DEF IInv

\* So do the other fingers, a lost one, and the recognisers.
LEMMA OtherFingersInv ==
  ASSUME IInv,
         \/ \E f \in Finger : SecondaryEnd(f)
         \/ Vanish \/ LocalGestureStarts
  PROVE  IInv'
<1>1. CASE \E f \in Finger : SecondaryEnd(f)
  BY <1>1, NoneAssumption
     DEF SecondaryEnd, IInv, TypeOK, Modes, Button, Memory, mouseVars
<1>2. CASE Vanish
  BY <1>2, NoneAssumption DEF Vanish, IInv, TypeOK, Modes, Button, Memory, mouseVars
<1>3. ASSUME LocalGestureStarts, ~tapButtonSent
      PROVE  IInv'
  <2>1. /\ twoFinger' = None /\ holdPressTimer' = FALSE /\ tapPending' = FALSE
        /\ touchCancelled' = TRUE /\ lastTap' = None /\ scroll' = None
        /\ UNCHANGED <<down, activeTouchId, tapDown, primaryAge, tapButtonSent, mouseVars>>
    BY <1>3 DEF LocalGestureStarts, CancelTapTracking
  <2>2. TypeOK'
    BY <2>1 DEF IInv, TypeOK, mouseVars
  <2>3. Modes' /\ Button' /\ Memory'
    BY <1>3, <2>1 DEF IInv, Modes, Button, Memory, mouseVars
  <2> QED BY <2>2, <2>3 DEF IInv
<1>4. ASSUME LocalGestureStarts, tapButtonSent
      PROVE  IInv'
  <2>1. /\ twoFinger' = None
        /\ UNCHANGED <<down, activeTouchId, tapDown, primaryAge, mouseVars, holdPressTimer,
                       tapPending, tapButtonSent, touchCancelled, lastTap, scroll>>
    BY <1>4 DEF LocalGestureStarts, CancelTapTracking
  <2>2. TypeOK'
    BY <2>1 DEF IInv, TypeOK, mouseVars
  <2>3. Modes' /\ Button' /\ Memory'
    BY <1>4, <2>1 DEF IInv, Modes, Button, Memory, mouseVars
  <2> QED BY <2>2, <2>3 DEF IInv
<1> QED BY <1>1, <1>2, <1>3, <1>4

\* So does the hold timer.
LEMMA HoldInv ==
  ASSUME IInv, HoldFires
  PROVE  IInv'
<1> USE NoneAssumption DEF IInv, TypeOK, Modes, Button, Memory, mouseVars
<1>1. tapPending /\ Send(<<Msg("down", tapDown)>>) /\ tapButtonSent' = TRUE
  BY DEF HoldFires
<1>2. sent' = <<Msg("down", tapDown)>> /\ held' = TRUE /\ lost' = lost
  BY <1>1, SendOne
<1>3. sent' \in Messages
  BY <1>2, MessageSeq
<1> QED BY <1>1, <1>2, <1>3 DEF HoldFires

\* So does the clock: it changes ages only.
LEMMA TickInv ==
  ASSUME IInv, Tick
  PROVE  IInv'
<1> USE NoneAssumption, AgeFacts
    DEF IInv, TypeOK, Modes, Button, Memory, mouseVars, Tick
<1>1. primaryAge' \in 0..HOLD_DELAY
  OBVIOUS
<1>2. twoFinger' \in {None} \cup Ages /\ (twoFinger' = None <=> twoFinger = None)
  OBVIOUS
<1>3. CASE lastTap = None
  BY <1>1, <1>2, <1>3
<1>4. CASE lastTap # None
  <2>1. /\ lastTap \in Taps
        /\ lastTap' = [lastTap EXCEPT !.age = Older(@, DOUBLE_TAP + 1)]
    BY <1>4
  <2>2. lastTap' \in Taps /\ lastTap'.at = lastTap.at
    BY <2>1 DEF Taps
  <2> QED BY <1>1, <1>2, <1>4, <2>2
<1> QED BY <1>3, <1>4

\* A step that changes nothing preserves the invariant.
LEMMA StutterInv ==
  ASSUME IInv, UNCHANGED vars
  PROVE  IInv'
BY DEF vars, mouseVars, IInv, TypeOK, Modes, Button, Memory

\* The invariant is inductive.
LEMMA Invariance == Spec => []IInv
<1>1. IInv /\ [Next]_vars => IInv'
  BY DownInv, MoveInv, EndInv, OtherFingersInv, HoldInv, TickInv, StutterInv
     DEF Next
<1> QED BY InitInv, <1>1, PTL DEF Spec

\* The variables keep their types.
THEOREM TypeCorrect == Spec => []TypeOK
<1>1. IInv => TypeOK
  BY DEF IInv
<1> QED BY Invariance, <1>1, PTL

\* With no finger on the glass, and none lost, the remote button is up.
THEOREM ButtonIsReleased == Spec => []NoStuckButton
<1>1. IInv => NoStuckButton
  BY NoneAssumption DEF IInv, Button, Modes, NoStuckButton
<1> QED BY Invariance, <1>1, PTL

\* A tap is remembered only while its click is the last thing that was sent.
THEOREM TapIsRemembered == Spec => []TapMemory
<1>1. IInv => TapMemory
  BY DEF IInv, Memory, Modes, TapMemory
<1> QED BY Invariance, <1>1, PTL

-----------------------------------------------------------------------------
(* The wheel.                                                                *)

\* What is left of a way after its whole steps is less than a step.
LEMMA RestOfWay ==
  ASSUME NEW way \in Int
  PROVE  Distance(way - Steps(way) * SCROLL_WHEEL_STEP, 0) < SCROLL_WHEEL_STEP
<1> DEFINE S == SCROLL_WHEEL_STEP
<1>1. S \in Nat \ {0}
  BY TouchAssumption
<1> HIDE DEF S
<1>2. \A w \in Nat : w - (w \div S) * S \in 0..(S - 1)
  BY <1>1
<1>3. CASE way >= 0
  <2>1. Steps(way) = way \div S
    BY <1>3 DEF Steps, S
  <2>2. way - Steps(way) * S \in 0..(S - 1)
    BY <1>2, <1>3, <2>1
  <2> QED BY <1>1, <2>2 DEF Distance, S
<1>4. CASE way < 0
  <2> DEFINE q == (-way) \div S
  <2>1. Steps(way) = -q
    BY <1>4 DEF Steps, S
  <2>2. q \in Int
    BY <1>1
  <2>3. (-way) - q * S \in 0..(S - 1)
    BY <1>2, <1>4
  <2> HIDE DEF q
  <2>4. way - (-q) * S = -((-way) - q * S)
    BY <1>1, <2>2
  <2> QED BY <1>1, <2>1, <2>3, <2>4 DEF Distance, S
<1> QED BY <1>3, <1>4

\* The wheel steps sent and the rest kept add up to the finger's way.
THEOREM WheelIsExact == Spec => []WheelFollowsFinger
<1> DEFINE S == SCROLL_WHEEL_STEP
<1>1. S \in Nat \ {0} /\ Place \subseteq Int
  BY TouchAssumption
<1>2. Init => WheelFollowsFinger
  BY DEF Init, WheelFollowsFinger
<1>3. IInv /\ WheelFollowsFinger /\ [Next]_vars => WheelFollowsFinger'
  <2> SUFFICES ASSUME IInv, WheelFollowsFinger, [Next]_vars, scroll' # None
               PROVE  WheelFollowsFinger'
    BY DEF WheelFollowsFinger
  <2>1. CASE UNCHANGED scroll
    BY <2>1 DEF WheelFollowsFinger
  <2>2. ASSUME NEW p \in Place, MoveScrolls(p)
        PROVE  WheelFollowsFinger'
    <3> DEFINE way == scroll.accum + (p - scroll.last)
               n == Steps(way)
    <3>1. /\ scroll # None
          /\ scroll' = [last |-> p, accum |-> way - n * S,
                        start |-> scroll.start, turned |-> scroll.turned + n]
      BY <2>2 DEF MoveScrolls, SendAccumulatedWheel
    <3>2. scroll \in Scrolls
      BY <3>1 DEF IInv, TypeOK
    <3>3. /\ scroll.accum \in Int /\ scroll.last \in Int /\ p \in Int
          /\ scroll.start \in Int /\ scroll.turned \in Int
      BY <1>1, <3>2 DEF Scrolls
    <3>4. way \in Int
      BY <3>3
    <3>5. n \in Int /\ Distance(way - n * S, 0) < S
      BY <3>4, StepsInt, RestOfWay
    <3>6. scroll.turned * S + scroll.accum = scroll.last - scroll.start
      BY <3>1 DEF WheelFollowsFinger
    <3> HIDE DEF n, S
    <3>7. (scroll.turned + n) * S = scroll.turned * S + n * S
      BY <1>1, <3>3, <3>5
    <3>8. scroll.turned * S \in Int /\ n * S \in Int
      BY <1>1, <3>3, <3>5
    <3>9. (scroll.turned + n) * S + (way - n * S) = p - scroll.start
      BY <3>3, <3>4, <3>5, <3>6, <3>7, <3>8
    <3> QED BY <3>1, <3>5, <3>9 DEF WheelFollowsFinger, S
  <2>3. ASSUME NEW p \in Place, MoveBeginsScroll(p)
        PROVE  WheelFollowsFinger'
    <3>1. scroll' = [last |-> p, accum |-> 0, start |-> p, turned |-> 0]
      BY <2>3 DEF MoveBeginsScroll
    <3>2. p \in Int
      BY <1>1
    <3> QED BY <1>1, <3>1, <3>2 DEF WheelFollowsFinger, Distance
  <2>4. UNCHANGED scroll \/ scroll' = None
        \/ \E p \in Place : MoveScrolls(p) \/ MoveBeginsScroll(p)
    BY DEF Next, vars, TouchDown, BeginPrimaryTouch, OnSecondaryTouchDown,
           IgnoredDown, CancelTapTracking, TouchMove, MoveDrags, TouchEnd,
           ResetTapTracking, SecondaryEnd, Vanish, HoldFires,
           LocalGestureStarts, Tick
  <2> QED BY <2>1, <2>2, <2>3, <2>4
<1> QED BY Invariance, <1>2, <1>3, PTL DEF Spec

-----------------------------------------------------------------------------
(* The refinement: every step is one of RemoteMouse, or leaves it alone.     *)

\* A move drags with the button down, or turns the wheel with it up.
LEMMA MoveRefines ==
  ASSUME IInv, NEW p \in Place, TouchMove(p)
  PROVE  [Mouse!MouseNext]_(Mouse!mouseVars)
<1> USE DEF Mouse!mouseVars, mouseVars
<1>1. CASE MoveScrolls(p)
  <2> DEFINE way == scroll.accum + (p - scroll.last)
             n == Steps(way)
  <2>1. /\ Send([i \in 1..Distance(n, 0) |->
                   Msg(IF n > 0 THEN "wheel" ELSE "wheel negative", p)])
        /\ scroll # None
    BY <1>1 DEF MoveScrolls, SendAccumulatedWheel
  <2>2. scroll \in Scrolls
    BY <2>1 DEF IInv, TypeOK
  <2>3. scroll.accum \in Int /\ scroll.last \in Int /\ p \in Int
    BY <2>2, TouchAssumption DEF Scrolls
  <2>4. n \in Int /\ Distance(n, 0) \in Nat
    BY <2>3, StepsInt
  <2> HIDE DEF way, n
  <2>5. /\ UNCHANGED <<held, lost>>
        /\ sent' # sent => \E w \in {"wheel", "wheel negative"} :
                             \A i \in DOMAIN sent' : sent'[i] = Msg(w, p)
    BY <2>1, <2>4, SendWheel DEF IInv
  <2>6. lost \/ ~held
    BY <2>1 DEF IInv, Modes, Button, TypeOK
  <2>7. CASE sent' # sent /\ ~lost
    <3>1. Mouse!Turn
      BY <2>5, <2>6, <2>7 DEF Mouse!Turn, Mouse!Msg, Msg
    <3> QED BY <3>1, <2>5, <2>7 DEF Mouse!MouseNext
  <2> QED BY <2>5, <2>7 DEF Mouse!MouseNext, Mouse!Recover
<1>2. CASE MoveBeginsScroll(p)
  BY <1>2 DEF MoveBeginsScroll
<1>3. CASE MoveDrags(p)
  <2>1. tapButtonSent /\ Send(<<Msg("move", p)>>)
    BY <1>3 DEF MoveDrags
  <2>2. sent' = <<Msg("move", p)>> /\ held' = held /\ lost' = lost
    BY <2>1, SendOne
  <2>3. CASE ~lost
    <3>1. held
      BY <2>1, <2>3 DEF IInv, Button
    <3>2. Mouse!Drag
      BY <2>2, <3>1 DEF Mouse!Drag, Mouse!Msg, Msg
    <3> QED BY <2>2, <2>3, <3>2 DEF Mouse!MouseNext
  <2> QED BY <2>2, <2>3 DEF Mouse!MouseNext, Mouse!Recover
<1> QED BY <1>1, <1>2, <1>3 DEF TouchMove

\* The end of a gesture clicks with the button up, or releases it.
LEMMA EndRefines ==
  ASSUME IInv, NEW type \in {"Up", "Cancel"}, NEW p \in Place, TouchEnd(type, p)
  PROVE  [Mouse!MouseNext]_(Mouse!mouseVars)
<1> USE DEF Mouse!mouseVars, mouseVars
<1>1. CASE EndScroll
  BY <1>1 DEF EndScroll
<1>2. CASE EndTwoFinger(type, p)
  <2>1. lost \/ ~held
    BY <1>2 DEF EndTwoFinger, IInv, Modes, Button, TypeOK
  <2>2. CASE Send(<<Msg("right down", p), Msg("right up", p)>>)
    <3>1. /\ sent' = <<Msg("right down", p), Msg("right up", p)>>
          /\ held' = held /\ lost' = lost
      BY <2>2, SendTwo
    <3>2. CASE ~lost
      <4>1. Mouse!Click
        BY <2>1, <3>1, <3>2 DEF Mouse!Click, Mouse!Msg, Msg
      <4> QED BY <3>1, <3>2, <4>1 DEF Mouse!MouseNext
    <3> QED BY <3>1, <3>2 DEF Mouse!MouseNext, Mouse!Recover
  <2>3. CASE Send(<<>>)
    BY <2>3, SendNothing
  <2> QED BY <1>2, <2>2, <2>3 DEF EndTwoFinger
<1>3. CASE EndCancelled(p)
  <2>1. Send(<<>>)
    BY <1>3 DEF EndCancelled, IInv, Modes
  <2> QED BY <2>1, SendNothing
<1>4. CASE EndTap(type)
  <2>1. lost \/ ~held
    BY <1>4 DEF EndTap, IInv, Modes, Button, TypeOK
  <2>2. CASE HandleTap
    <3> DEFINE at == IF Double THEN lastTap.at ELSE tapDown
    <3>1. at \in Place
      BY DEF Double, Taps, IInv, TypeOK
    <3>2. Send(<<Msg("down", at), Msg("up", at)>>)
      BY <2>2 DEF HandleTap
    <3> HIDE DEF at
    <3>3. /\ sent' = <<Msg("down", at), Msg("up", at)>>
          /\ held' = FALSE /\ lost' = FALSE
      BY <3>1, <3>2, SendTwo
    <3>4. CASE ~lost
      <4>1. Mouse!Click
        BY <2>1, <3>1, <3>3, <3>4 DEF Mouse!Click, Mouse!Msg, Msg, IInv, TypeOK
      <4> QED BY <3>3, <3>4, <4>1 DEF Mouse!MouseNext, IInv, TypeOK
    <3> QED BY <3>3, <3>4 DEF Mouse!MouseNext, Mouse!Recover
  <2>3. CASE UNCHANGED <<lastTap, mouseVars>>
    BY <2>3
  <2> QED BY <1>4, <2>2, <2>3 DEF EndTap
<1>5. CASE EndDrag(type, p)
  <2>1. sent' = <<Msg("up", p)>> /\ held' = FALSE /\ lost' = FALSE
    BY <1>5, SendOne DEF EndDrag
  <2>2. CASE ~lost
    <3>1. held
      BY <1>5, <2>2 DEF EndDrag, IInv, Button
    <3>2. Mouse!Release
      BY <2>1, <3>1 DEF Mouse!Release, Mouse!Msg, Msg
    <3> QED BY <2>1, <2>2, <3>2 DEF Mouse!MouseNext, IInv, TypeOK
  <2> QED BY <2>1, <2>2 DEF Mouse!MouseNext, Mouse!Recover
<1> QED BY <1>1, <1>2, <1>3, <1>4, <1>5 DEF TouchEnd

\* The hold timer presses the button, which was up.
LEMMA HoldRefines ==
  ASSUME IInv, HoldFires
  PROVE  [Mouse!MouseNext]_(Mouse!mouseVars)
<1>1. tapPending /\ Send(<<Msg("down", tapDown)>>)
  BY DEF HoldFires, IInv, Modes
<1>2. tapDown \in Place /\ (lost \/ ~held)
  BY <1>1 DEF IInv, TypeOK, Modes, Button
<1>3. sent' = <<Msg("down", tapDown)>> /\ held' = TRUE /\ lost' = lost
  BY <1>1, <1>2, SendOne
<1>4. CASE ~lost
  <2>1. Mouse!Press
    BY <1>2, <1>3, <1>4 DEF Mouse!Press, Mouse!Msg, Msg, IInv, TypeOK
  <2> QED BY <1>3, <1>4, <2>1 DEF Mouse!MouseNext
<1> QED BY <1>3, <1>4 DEF Mouse!MouseNext, Mouse!Recover

\* The other actions send nothing; a lost touch is one of RemoteMouse's.
LEMMA OthersRefine ==
  ASSUME \/ \E f \in Finger, p \in Place : TouchDown(f, p)
         \/ \E f \in Finger : SecondaryEnd(f)
         \/ Vanish \/ LocalGestureStarts \/ Tick \/ UNCHANGED vars
  PROVE  [Mouse!MouseNext]_(Mouse!mouseVars)
<1>1. CASE \E f \in Finger, p \in Place : TouchDown(f, p)
  <2>1. UNCHANGED mouseVars
    BY <1>1 DEF TouchDown, BeginPrimaryTouch, OnSecondaryTouchDown, IgnoredDown
  <2> QED BY <2>1 DEF mouseVars, Mouse!mouseVars
<1>2. CASE \E f \in Finger : SecondaryEnd(f)
  BY <1>2 DEF SecondaryEnd, mouseVars, Mouse!mouseVars
<1>3. CASE Vanish
  BY <1>3 DEF Vanish, Mouse!MouseNext, Mouse!LoseTouch
<1>4. CASE LocalGestureStarts \/ Tick \/ UNCHANGED vars
  BY <1>4 DEF LocalGestureStarts, Tick, vars, mouseVars, Mouse!mouseVars
<1> QED BY <1>1, <1>2, <1>3, <1>4

\* The touch handling drives a well-behaved mouse: RemoteMouse is implemented.
THEOREM ImplementsRemoteMouse == Spec => RemoteSeesAMouse
<1>1. Init => Mouse!MouseInit
  BY DEF Init
<1>2. IInv /\ [Next]_vars => [Mouse!MouseNext]_(Mouse!mouseVars)
  BY MoveRefines, EndRefines, HoldRefines, OthersRefine DEF Next
<1> QED BY Invariance, <1>1, <1>2, PTL DEF Spec, Mouse!MouseSpec, RemoteSeesAMouse

-----------------------------------------------------------------------------
(* ImeBridge.  Up to Difference: how texts are cut and put together, and     *)
(* what sending a difference does to the remote text.  The invariant says    *)
(* how far the field, what the page tracks and the two remote texts may      *)
(* differ before, during and after a composition.                            *)

Below == {p \in Nat \X Nat : p[1] < p[2]}

LEMMA BelowIsWellFounded == IsWellFoundedOn(Below, Nat)
BY NatLessThanWellFounded DEF OpToRel, Below

\* A set of numbers that has a bound has a greatest one.
LEMMA HasMaximum ==
  ASSUME NEW L, L \subseteq Nat, L # {}, NEW b \in Nat, \A n \in L : n <= b
  PROVE  \E m \in L : \A n \in L : n <= m
<1> DEFINE T == {b - n : n \in L}
<1>1. T \subseteq Nat
  <2> SUFFICES ASSUME NEW n \in L PROVE b - n \in Nat
    OBVIOUS
  <2>1. n \in Nat /\ n <= b
    OBVIOUS
  <2> QED BY <2>1
<1>2. T # {}
  <2>1. PICK n : n \in L
    OBVIOUS
  <2>2. b - n \in T
    BY <2>1
  <2> QED BY <2>2
<1>3. PICK x \in T : \A y \in T : ~(<<y, x>> \in Below)
  <2> HIDE DEF T
  <2> QED BY <1>1, <1>2, BelowIsWellFounded, WFMin
<1>4. \A y \in T : ~(y < x)
  BY <1>1, <1>3 DEF Below
<1>5. PICK m \in L : x = b - m
  OBVIOUS
<1>6. \A n \in L : b - n \in T
  OBVIOUS
<1>7. \A n \in L : ~(b - n < b - m)
  <2> HIDE DEF T
  <2> QED BY <1>4, <1>5, <1>6
<1> QED BY <1>7

\* The first n letters of a text.
LEMMA FirstLetters ==
  ASSUME NEW S, NEW a \in Seq(S), NEW n \in 0..Len(a)
  PROVE  /\ SubSeq(a, 1, n) \in Seq(S)
         /\ Len(SubSeq(a, 1, n)) = n
         /\ \A i \in 1..n : SubSeq(a, 1, n)[i] = a[i]
<1>1. Len(a) \in Nat /\ n \in Int /\ \A i \in 1..n : a[i] \in S
  BY LenProperties, ElementOfSeq
<1>2. /\ SubSeq(a, 1, n) \in Seq(S)
      /\ Len(SubSeq(a, 1, n)) = IF 1 <= n THEN n-1+1 ELSE 0
      /\ \A i \in 1 .. n-1+1 : SubSeq(a, 1, n)[i] = a[1+i-1]
  BY <1>1, SubSeqProperties
<1> QED BY <1>1, <1>2

\* The common prefixes of two texts.
LEMMA CommonPrefix ==
  ASSUME NEW S, NEW a \in Seq(S), NEW b \in Seq(S), NEW p
  PROVE  p \in CommonPrefixes({a, b})
           <=> \E n \in 0..Len(a) : /\ n <= Len(b) /\ p = SubSeq(a, 1, n)
                                    /\ p = SubSeq(b, 1, n)
<1>1. Len(a) \in Nat /\ Len(b) \in Nat
  BY LenProperties
<1>2. ASSUME NEW n \in 0..Len(a), n <= Len(b),
             p = SubSeq(a, 1, n), p = SubSeq(b, 1, n)
      PROVE  p \in CommonPrefixes({a, b})
  <2>1. p \in Seq(S) /\ Len(p) = n
    BY <1>2, FirstLetters
  <2>2. SubSeq(p, 1, Len(p)) = p
    BY <2>1, SubSeqFull
  <2>3. IsPrefix(p, a) /\ IsPrefix(p, b)
    BY <1>1, <1>2, <2>1, <2>2 DEF IsPrefix
  <2>4. p \in Prefixes(a)
    BY <1>2, SMTT(40) DEF Prefixes
  <2> QED BY <2>3, <2>4 DEF CommonPrefixes
<1>3. ASSUME p \in CommonPrefixes({a, b})
      PROVE  \E n \in 0..Len(a) : /\ n <= Len(b) /\ p = SubSeq(a, 1, n)
                                  /\ p = SubSeq(b, 1, n)
  <2>1. IsPrefix(p, a) /\ IsPrefix(p, b) /\ p \in Prefixes(a) \cup Prefixes(b)
    BY <1>3 DEF CommonPrefixes
  <2>2. p \in Seq(S)
    BY <2>1, FirstLetters DEF Prefixes
  <2>3. SubSeq(p, 1, Len(p)) = p /\ Len(p) \in Nat
    BY <2>2, SubSeqFull, LenProperties
  <2>4. /\ Len(p) <= Len(a) /\ p = SubSeq(a, 1, Len(p))
        /\ Len(p) <= Len(b) /\ p = SubSeq(b, 1, Len(p))
    BY <2>1, <2>3 DEF IsPrefix
  <2>5. Len(p) \in 0..Len(a)
    BY <1>1, <2>3, <2>4
  <2> QED BY <2>4, <2>5, Zenon
<1> QED BY <1>2, <1>3

\* How much the longest common prefix of two texts keeps of them.
LEMMA LongestKeeps ==
  ASSUME NEW S, NEW a \in Seq(S), NEW b \in Seq(S)
  PROVE  LET k == Len(LongestCommonPrefix({a, b})) IN
         /\ k \in 0..Len(a) /\ k <= Len(b)
         /\ SubSeq(a, 1, k) = SubSeq(b, 1, k)
         /\ \A n \in 0..Len(a) :
              n <= Len(b) /\ SubSeq(a, 1, n) = SubSeq(b, 1, n) => n <= k
<1> DEFINE C == CommonPrefixes({a, b})
           L == {Len(p) : p \in C}
           longest == LongestCommonPrefix({a, b})
<1>1. Len(a) \in Nat /\ Len(b) \in Nat
  BY LenProperties
<1>2. \A p \in C : /\ Len(p) \in 0..Len(a) /\ Len(p) <= Len(b)
                   /\ p = SubSeq(a, 1, Len(p)) /\ p = SubSeq(b, 1, Len(p))
  BY CommonPrefix, FirstLetters
<1>3. \A n \in 0..Len(a) :
        n <= Len(b) /\ SubSeq(a, 1, n) = SubSeq(b, 1, n)
          => SubSeq(a, 1, n) \in C /\ Len(SubSeq(a, 1, n)) = n
  BY CommonPrefix, FirstLetters
<1>4. C # {}
  <2>1. SubSeq(a, 1, 0) = <<>> /\ SubSeq(b, 1, 0) = <<>>
    BY SubSeqEmpty
  <2>2. 0 \in 0..Len(a) /\ 0 <= Len(b)
    BY <1>1
  <2>3. SubSeq(a, 1, 0) \in C
    BY <1>3, <2>1, <2>2
  <2> QED BY <2>3
<1>5. PICK m \in L : \A n \in L : n <= m
  <2>1. L \subseteq Nat /\ L # {} /\ \A n \in L : n <= Len(a)
    <3>1. \A p \in C : Len(p) \in Nat /\ Len(p) <= Len(a)
      BY <1>1, <1>2
    <3> HIDE DEF C
    <3>2. PICK p : p \in C
      BY <1>4
    <3>3. Len(p) \in L
      BY <3>2
    <3> QED BY <3>1, <3>3
  <2> HIDE DEF L
  <2> QED BY <1>1, <2>1, HasMaximum
<1>6. \E p \in C : \A q \in C : Len(q) <= Len(p)
  BY <1>5
<1>7. longest \in C /\ \A q \in C : Len(q) <= Len(longest)
  BY <1>6 DEF LongestCommonPrefix
<1> HIDE DEF C, longest
<1>8. \A n \in 0..Len(a) :
        n <= Len(b) /\ SubSeq(a, 1, n) = SubSeq(b, 1, n) => n <= Len(longest)
  BY <1>3, <1>7
<1>9. /\ Len(longest) \in 0..Len(a) /\ Len(longest) <= Len(b)
      /\ SubSeq(a, 1, Len(longest)) = SubSeq(b, 1, Len(longest))
  BY <1>2, <1>7
<1> QED BY <1>8, <1>9 DEF longest
\* The letters of texts: what a concatenation consists of.
LEMMA Letters ==
  ASSUME NEW S, NEW a \in Seq(S), NEW b \in Seq(S)
  PROVE  /\ a \o b \in Seq(S)
         /\ Len(a) \in Nat /\ Len(b) \in Nat
         /\ Len(a \o b) = Len(a) + Len(b)
         /\ \A i \in 1..Len(a) : (a \o b)[i] = a[i]
         /\ \A i \in 1..Len(b) : (a \o b)[Len(a) + i] = b[i]
<1>1. Len(a) \in Nat /\ Len(b) \in Nat
  BY LenProperties
<1>2. /\ a \o b \in Seq(S)
      /\ Len(a \o b) = Len(a) + Len(b)
      /\ \A i \in 1 .. Len(a) + Len(b) :
           (a \o b)[i] = IF i <= Len(a) THEN a[i] ELSE b[i - Len(a)]
  BY ConcatProperties
<1> QED BY <1>1, <1>2

\* The letters after the first m.
LEMMA MiddleLetters ==
  ASSUME NEW S, NEW a \in Seq(S), NEW m \in 0..Len(a)
  PROVE  /\ SubSeq(a, m + 1, Len(a)) \in Seq(S)
         /\ Len(SubSeq(a, m + 1, Len(a))) = Len(a) - m
         /\ \A i \in 1..(Len(a) - m) : SubSeq(a, m + 1, Len(a))[i] = a[m + i]
<1>1. Len(a) \in Nat /\ m + 1 \in Int /\ \A i \in (m + 1)..Len(a) : a[i] \in S
  BY LenProperties, ElementOfSeq
<1>2. /\ SubSeq(a, m + 1, Len(a)) \in Seq(S)
      /\ Len(SubSeq(a, m + 1, Len(a)))
           = IF m + 1 <= Len(a) THEN Len(a) - (m + 1) + 1 ELSE 0
      /\ \A i \in 1 .. Len(a) - (m + 1) + 1 :
           SubSeq(a, m + 1, Len(a))[i] = a[(m + 1) + i - 1]
  BY <1>1, SubSeqProperties
<1> QED BY <1>1, <1>2

\* What is left of two texts when the end, or the start, is cut in the second.
LEMMA Split ==
  ASSUME NEW S, NEW a \in Seq(S), NEW b \in Seq(S), NEW n \in 0..Len(b)
  PROVE  SubSeq(a \o b, 1, Len(a) + n) = a \o SubSeq(b, 1, n)
<1> DEFINE x == SubSeq(a \o b, 1, Len(a) + n)
           y == SubSeq(b, 1, n)
<1>1. /\ Len(a) \in Nat /\ Len(b) \in Nat /\ a \o b \in Seq(S)
      /\ Len(a) + n \in 0..Len(a \o b)
      /\ \A i \in 1..Len(a) : (a \o b)[i] = a[i]
      /\ \A i \in 1..Len(b) : (a \o b)[Len(a) + i] = b[i]
  BY Letters
<1>2. x \in Seq(S) /\ Len(x) = Len(a) + n /\ \A i \in 1..(Len(a) + n) : x[i] = (a \o b)[i]
  BY <1>1, FirstLetters
<1>3. y \in Seq(S) /\ Len(y) = n /\ \A i \in 1..n : y[i] = b[i]
  BY FirstLetters
<1> HIDE DEF x, y
<1>4. /\ a \o y \in Seq(S) /\ Len(a \o y) = Len(a) + n
      /\ \A i \in 1..Len(a) : (a \o y)[i] = a[i]
      /\ \A i \in 1..n : (a \o y)[Len(a) + i] = y[i]
  <2>1. /\ a \o y \in Seq(S) /\ Len(a \o y) = Len(a) + Len(y)
        /\ \A i \in 1..Len(a) : (a \o y)[i] = a[i]
        /\ \A i \in 1..Len(y) : (a \o y)[Len(a) + i] = y[i]
    <3>1. y \in Seq(S)
      BY <1>3
    <3> QED BY <3>1, Letters
  <2> QED BY <1>3, <2>1
<1>5. ASSUME NEW i \in 1..(Len(a) + n) PROVE x[i] = (a \o y)[i]
  <2>1. CASE i \in 1..Len(a)
    BY <1>1, <1>2, <1>4, <2>1
  <2>2. CASE i \notin 1..Len(a)
    <3>1. PICK j \in 1..n : i = Len(a) + j
      <4>1. i - Len(a) \in 1..n /\ i = Len(a) + (i - Len(a))
        BY <1>1, <2>2
      <4> QED BY <4>1
    <3>2. x[i] = b[j]
      BY <1>1, <1>2, <3>1, SMTT(40)
    <3> QED BY <1>3, <1>4, <3>1, <3>2
  <2> QED BY <2>1, <2>2
<1>6. x = a \o y
  BY <1>2, <1>4, <1>5, SeqEqual
<1> QED BY <1>6 DEF x, y

LEMMA SplitEnd ==
  ASSUME NEW S, NEW a \in Seq(S), NEW b \in Seq(S), NEW n \in 0..Len(b)
  PROVE  SubSeq(a \o b, Len(a) + n + 1, Len(a \o b)) = SubSeq(b, n + 1, Len(b))
<1> DEFINE x == SubSeq(a \o b, (Len(a) + n) + 1, Len(a \o b))
           y == SubSeq(b, n + 1, Len(b))
<1>1. /\ Len(a) \in Nat /\ Len(b) \in Nat /\ a \o b \in Seq(S)
      /\ Len(a) + n \in 0..Len(a \o b) /\ Len(a \o b) = Len(a) + Len(b)
      /\ \A i \in 1..Len(b) : (a \o b)[Len(a) + i] = b[i]
  BY Letters
<1>2. /\ x \in Seq(S) /\ Len(x) = Len(a \o b) - (Len(a) + n)
      /\ \A i \in 1..(Len(a \o b) - (Len(a) + n)) : x[i] = (a \o b)[(Len(a) + n) + i]
  BY <1>1, MiddleLetters
<1>3. y \in Seq(S) /\ Len(y) = Len(b) - n /\ \A i \in 1..(Len(b) - n) : y[i] = b[n + i]
  BY MiddleLetters
<1> HIDE DEF x, y
<1>4. ASSUME NEW i \in 1..(Len(b) - n) PROVE x[i] = y[i]
  <2>1. (Len(a) + n) + i = Len(a) + (n + i) /\ n + i \in 1..Len(b)
    BY <1>1
  <2>2. i \in 1..(Len(a \o b) - (Len(a) + n))
    BY <1>1
  <2>3. x[i] = (a \o b)[(Len(a) + n) + i]
    BY <1>2, <2>2
  <2> QED BY <1>1, <1>3, <2>1, <2>3
<1>5. Len(x) = Len(b) - n
  BY <1>1, <1>2
<1>6. x = y
  BY <1>2, <1>3, <1>4, <1>5, SeqEqual
<1> QED BY <1>6 DEF x, y
\* Texts with the same start that are equal have the same end.
LEMMA CancelStart ==
  ASSUME NEW S, NEW a \in Seq(S), NEW b \in Seq(S), NEW c \in Seq(S), a \o b = a \o c
  PROVE  b = c
BY ConcatSimplifications, Zenon

\* A text is its two ends.
LEMMA Rejoin ==
  ASSUME NEW S, NEW M \in Seq(S), NEW q \in Seq(S), NEW j \in 0..Len(q)
  PROVE  (M \o SubSeq(q, 1, j)) \o SubSeq(q, j + 1, Len(q)) = M \o q
<1> DEFINE x == SubSeq(q, 1, j)
           y == SubSeq(q, j + 1, Len(q))
<1>1. x \in Seq(S)
  BY FirstLetters
<1>2. y \in Seq(S)
  BY MiddleLetters
<1>3. /\ Len(q) \in Nat /\ 1 \in 1..(Len(q) + 1)
      /\ j \in (1 - 1)..Len(q) /\ Len(q) \in j..Len(q)
  BY LenProperties
<1>4. x \o y = SubSeq(q, 1, Len(q))
  BY <1>3, ConcatAdjacentSubSeq
<1>5. x \o y = q
  BY <1>4, SubSeqFull
<1> HIDE DEF x, y
<1>6. (M \o x) \o y = M \o (x \o y)
  BY <1>1, <1>2, ConcatAssociative, SMTT(40)
<1>7. (M \o x) \o y = M \o q
  BY <1>5, <1>6
<1> QED BY <1>7 DEF x, y

\* What SendDifference types and deletes changes the end of the remote text as
\* the end of the field changed, whatever stands before either.
LEMMA Difference ==
  ASSUME NEW S, NEW B \in Seq(S), NEW M \in Seq(S), NEW s \in Seq(S), NEW q \in Seq(S),
         imeTrackedValue = B \o s, remote = M \o s, SendDifference(B \o q)
  PROVE  remote' = M \o q
<1> DEFINE a == B \o s
           b == B \o q
           k == Len(LongestCommonPrefix({a, b}))
           j == k - Len(B)
<1>1. /\ a \in Seq(S) /\ b \in Seq(S)
      /\ Len(B) \in Nat /\ Len(s) \in Nat /\ Len(q) \in Nat /\ Len(M) \in Nat
      /\ Len(a) = Len(B) + Len(s) /\ Len(b) = Len(B) + Len(q)
      /\ Len(M \o s) = Len(M) + Len(s)
  BY Letters
<1>2. /\ k \in 0..Len(a) /\ k <= Len(b)
      /\ SubSeq(a, 1, k) = SubSeq(b, 1, k)
      /\ \A n \in 0..Len(a) :
           n <= Len(b) /\ SubSeq(a, 1, n) = SubSeq(b, 1, n) => n <= k
  <2> HIDE DEF a, b
  <2> QED BY <1>1, LongestKeeps
<1>3. Len(B) <= k
  <2>1. 0 \in 0..Len(s) /\ 0 \in 0..Len(q)
    BY <1>1
  <2>2. SubSeq(a, 1, Len(B) + 0) = B \o SubSeq(s, 1, 0)
    BY <2>1, Split
  <2>3. SubSeq(b, 1, Len(B) + 0) = B \o SubSeq(q, 1, 0)
    BY <2>1, Split
  <2>4. SubSeq(s, 1, 0) = SubSeq(q, 1, 0)
    BY SubSeqEmpty
  <2> HIDE DEF a, b, k
  <2>5. Len(B) + 0 \in 0..Len(a) /\ Len(B) + 0 <= Len(b)
    BY <1>1
  <2>6. Len(B) + 0 <= k
    BY <1>2, <2>2, <2>3, <2>4, <2>5
  <2> QED BY <1>1, <2>6
<1>4. j \in 0..Len(s) /\ j \in 0..Len(q) /\ k = Len(B) + j /\ Len(a) - k = Len(s) - j
  <2> HIDE DEF a, b, k
  <2> QED BY <1>1, <1>2, <1>3
<1>5. SubSeq(s, 1, j) = SubSeq(q, 1, j)
  <2> HIDE DEF k, j
  <2>1. SubSeq(a, 1, k) = B \o SubSeq(s, 1, j)
    BY <1>4, Split, ZenonT(60)
  <2>2. SubSeq(b, 1, k) = B \o SubSeq(q, 1, j)
    BY <1>4, Split, ZenonT(60)
  <2>3. SubSeq(s, 1, j) \in Seq(S) /\ SubSeq(q, 1, j) \in Seq(S)
    BY <1>4, FirstLetters
  <2> HIDE DEF a, b
  <2>4. B \o SubSeq(s, 1, j) = B \o SubSeq(q, 1, j)
    BY <1>2, <2>1, <2>2
  <2> QED BY <2>3, <2>4, CancelStart
<1>6. remote' = Back(M \o s, Len(a) - k) \o SubSeq(b, k + 1, Len(b))
  BY DEF SendDifference
<1> HIDE DEF k, j
<1>7. Back(M \o s, Len(a) - k) = M \o SubSeq(s, 1, j)
  <2>1. Len(M \o s) - (Len(a) - k) = Len(M) + j
    <3> HIDE DEF a, b
    <3> QED BY <1>1, <1>4
  <2>2. SubSeq(M \o s, 1, Len(M) + j) = M \o SubSeq(s, 1, j)
    BY <1>4, Split, ZenonT(60)
  <2> QED BY <2>1, <2>2 DEF Back
<1>8. SubSeq(b, k + 1, Len(b)) = SubSeq(q, j + 1, Len(q))
  BY <1>4, SplitEnd
<1>9. (M \o SubSeq(q, 1, j)) \o SubSeq(q, j + 1, Len(q)) = M \o q
  BY <1>4, Rejoin
<1> QED BY <1>5, <1>6, <1>7, <1>8, <1>9
\* Going back to the start of a tracked text deletes as much remotely.
LEMMA DifferenceBack ==
  ASSUME NEW S, NEW a \in Seq(S), NEW n \in 0..Len(a),
         imeTrackedValue = a, SendDifference(Back(a, n)), remote \in Seq(S)
  PROVE  remote' = Back(remote, n)
<1> DEFINE m == Len(a) - n
           b == SubSeq(a, 1, m)
           k == Len(LongestCommonPrefix({a, b}))
<1>1. Len(a) \in Nat /\ m \in 0..Len(a) /\ Len(a) - m = n
  BY LenProperties
<1>2. b \in Seq(S) /\ Len(b) = m
  BY <1>1, FirstLetters
<1>3. SubSeq(b, 1, m) = b
  BY <1>2, SubSeqFull
<1>4. k \in 0..Len(a) /\ k <= m /\ (SubSeq(a, 1, m) = SubSeq(b, 1, m) => m <= k)
  <2>1. /\ k \in 0..Len(a) /\ k <= Len(b)
        /\ \A i \in 0..Len(a) :
             i <= Len(b) /\ SubSeq(a, 1, i) = SubSeq(b, 1, i) => i <= k
    <3> HIDE DEF b
    <3> QED BY <1>2, LongestKeeps
  <2> HIDE DEF m, b, k
  <2> QED BY <1>1, <1>2, <2>1
<1>5. k = m
  <2>1. SubSeq(a, 1, m) = SubSeq(b, 1, m)
    BY <1>3
  <2> HIDE DEF m, b, k
  <2> QED BY <1>1, <1>4, <2>1
<1>6. remote' = Back(remote, Len(a) - k) \o SubSeq(b, k + 1, Len(b))
  BY DEF SendDifference, Back
<1> HIDE DEF m, b, k
<1>7. SubSeq(b, k + 1, Len(b)) = <<>>
  BY <1>1, <1>2, <1>5, SubSeqEmpty
<1>8. Back(remote, n) \in Seq(S)
  <2>1. Len(remote) \in Nat /\ n \in Nat
    BY <1>1, LenProperties
  <2>2. CASE n <= Len(remote)
    <3>1. Len(remote) - n \in 0..Len(remote)
      BY <2>1, <2>2
    <3> QED BY <3>1, FirstLetters DEF Back
  <2>3. CASE n > Len(remote)
    <3>1. 1 \in Int /\ Len(remote) - n \in Int /\ Len(remote) - n < 1
      BY <2>1, <2>3
    <3>2. Back(remote, n) = <<>>
      BY <3>1, SubSeqEmpty DEF Back
    <3> QED BY <3>2, EmptySeq
  <2> QED BY <2>1, <2>2, <2>3
<1> QED BY <1>1, <1>5, <1>6, <1>7, <1>8, ConcatEmptySeq

-----------------------------------------------------------------------------

Alphabet == (UNION {Range(p) : p \in Pieces}) \cup Range(RemoteText)

\* Without a composition the remote text is what was meant, and the page tracks
\* the field, unless the field is selected.
Quiet == preview = <<>> /\ ~ending => remote = meant /\ (selected \/ imeTrackedValue = base)

\* During a composition both may have more at the end: a preview already sent.
Composing ==
  preview # <<>> => /\ ~selected
                    /\ \E s \in Text : imeTrackedValue = base \o s /\ remote = meant \o s

\* Before the event that ends a composition, its end c is in the field and is
\* meant, and s was sent in its place.
Ending ==
  ending /\ ~selected =>
    \E B, M, c, s \in Text : /\ base = B \o c /\ imeTrackedValue = B \o s
                             /\ meant = M \o c /\ remote = M \o s

\* A selected field is one that overflowed.
Overflowed == selected => imeTrackedValue = <<>> /\ remote = meant /\ base # <<>>

\* A vetoed deletion left a text in a field without a composition.
Vetoed ==
  imeVetoExpectedEmpty => preview = <<>> /\ ~ending /\ ~selected /\ base # <<>>

ImeInv ==
  /\ ImeTypeOK
  /\ Quiet /\ Composing /\ Ending /\ Overflowed /\ Vetoed
  /\ ending => preview = <<>>

LEMMA Texts ==
  /\ Text = Seq(Alphabet)
  /\ <<>> \in Text /\ RemoteText \in Text
  /\ \A p \in Pieces : p \in Text /\ p # <<>> /\ p # NoPreview
<1>1. Text = Seq(Alphabet)
  BY DEF Text, Alphabet
<1>2. \A p \in Pieces \cup {RemoteText} : p \in Seq(Range(p)) /\ Range(p) \subseteq Alphabet
  <2>1. \A p \in Pieces \cup {RemoteText} : p \in Seq(Range(p))
    BY ImeAssumption, Zenon
  <2>2. \A p \in Pieces \cup {RemoteText} : Range(p) \subseteq Alphabet
    <3> SUFFICES ASSUME NEW p \in Pieces \cup {RemoteText}, NEW x \in Range(p)
                 PROVE  x \in Alphabet
      OBVIOUS
    <3>1. CASE p = RemoteText
      <4>1. x \in Range(RemoteText)
        BY <3>1
      <4> QED BY <4>1 DEF Alphabet
    <3>2. CASE p \in Pieces
      <4>1. Range(p) \in {Range(r) : r \in Pieces}
        BY <3>2, Zenon
      <4>2. x \in UNION {Range(r) : r \in Pieces}
        BY <4>1, Zenon
      <4> QED BY <4>2, Zenon DEF Alphabet
    <3> QED BY <3>1, <3>2, Zenon
  <2> QED BY <2>1, <2>2
<1>3. \A p \in Pieces \cup {RemoteText} : p \in Seq(Alphabet)
  BY <1>2, SeqMonotonic
<1>4. \A p \in Pieces : p # <<>> /\ p # NoPreview
  BY ImeAssumption
<1> QED BY <1>1, <1>3, <1>4, EmptySeq

\* Texts may be put together and cut.
LEMMA TextOps ==
  ASSUME NEW x \in Text
  PROVE  /\ Len(x) \in Nat
         /\ \A y \in Text : x \o y \in Text /\ Len(x \o y) = Len(x) + Len(y)
         /\ \A n \in Nat : Back(x, n) \in Text
         /\ x \o <<>> = x /\ <<>> \o x = x
<1>1. x \in Seq(Alphabet)
  BY Texts
<1>2. Len(x) \in Nat
  BY <1>1, LenProperties
<1>3. \A y \in Text : x \o y \in Text /\ Len(x \o y) = Len(x) + Len(y)
  BY <1>1, Texts, Letters
<1>4. ASSUME NEW n \in Nat PROVE Back(x, n) \in Text
  <2>1. CASE n <= Len(x)
    <3>1. Len(x) - n \in 0..Len(x)
      BY <1>2, <2>1
    <3>2. SubSeq(x, 1, Len(x) - n) \in Seq(Alphabet)
      BY <1>1, <3>1, FirstLetters
    <3> QED BY <3>2, Texts DEF Back
  <2>2. CASE n > Len(x)
    <3>1. 1 \in Int /\ Len(x) - n \in Int /\ Len(x) - n < 1
      BY <1>2, <2>2
    <3> QED BY <3>1, SubSeqEmpty, Texts DEF Back
  <2> QED BY <1>2, <2>1, <2>2
<1>5. x \o <<>> = x /\ <<>> \o x = x
  BY <1>1, ConcatEmptySeq
<1> QED BY <1>2, <1>3, <1>4, <1>5

\* The initial state, and each step, in any state of the invariant.
LEMMA ImeInitInv == ImeInit => ImeInv
<1> SUFFICES ASSUME ImeInit PROVE ImeInv
  OBVIOUS
<1>1. ImeTypeOK
  BY Texts DEF ImeInit, ImeTypeOK
<1>2. /\ preview = <<>> /\ ~selected /\ ~ending /\ ~imeVetoExpectedEmpty
      /\ remote = meant /\ imeTrackedValue = base
  BY DEF ImeInit
<1> QED BY <1>1, <1>2, Zenon DEF ImeInv, Quiet, Composing, Ending, Overflowed, Vetoed

\* onImeTextChanged keeps what it sees back, or sends it.
LEMMA Answer ==
  ASSUME ImeTypeOK, NEW value \in Text, NEW shown,
         imeVetoExpectedEmpty => value # <<>>, OnImeTextChanged(value, shown)
  PROVE  /\ imeVetoExpectedEmpty' = FALSE
         /\ \/ /\ shown # NoPreview /\ IsCompositionPreview(value, shown)
               /\ imeLastPreview' = shown /\ selected' = FALSE
               /\ UNCHANGED <<imeTrackedValue, remote>>
            \/ /\ imeLastPreview' = <<>> /\ SendDifference(value)
               /\ selected' \in BOOLEAN
               /\ Len(value) <= IME_BRIDGE_MAX_LEN => ~selected'
               /\ value = <<>> => ~selected'
               /\ imeTrackedValue' = IF selected' THEN <<>> ELSE value
<1>1. /\ imeVetoExpectedEmpty' = (imeVetoExpectedEmpty /\ value = <<>>)
      /\ \/ /\ shown # NoPreview /\ IsCompositionPreview(value, shown)
            /\ imeLastPreview' = shown /\ selected' = FALSE
            /\ UNCHANGED <<imeTrackedValue, remote>>
         \/ Commit(value)
  BY Zenon DEF OnImeTextChanged
<1>2. imeVetoExpectedEmpty' = FALSE
  BY <1>1
<1>3. ASSUME Commit(value)
      PROVE  /\ imeLastPreview' = <<>> /\ SendDifference(value)
             /\ selected' \in BOOLEAN
             /\ Len(value) <= IME_BRIDGE_MAX_LEN => ~selected'
             /\ value = <<>> => ~selected'
             /\ imeTrackedValue' = IF selected' THEN <<>> ELSE value
  <2>1. /\ imeLastPreview' = <<>> /\ SendDifference(value)
        /\ selected' = (Len(value) > IME_BRIDGE_MAX_LEN)
        /\ imeTrackedValue' = IF selected' THEN <<>> ELSE value
    BY <1>3, Zenon DEF Commit
  <2>2. /\ Len(value) \in Nat /\ IME_BRIDGE_MAX_LEN \in Nat \ {0}
        /\ value = <<>> => Len(value) = 0
    <3>1. IME_BRIDGE_MAX_LEN \in Nat \ {0}
      BY ImeAssumption, Zenon
    <3> QED BY <3>1, TextOps
  <2>6. value = <<>> => ~(Len(value) > IME_BRIDGE_MAX_LEN)
    BY <2>2
  <2>7. value = <<>> => ~selected'
    BY <2>1, <2>6
  <2>3. Len(value) <= IME_BRIDGE_MAX_LEN => ~(Len(value) > IME_BRIDGE_MAX_LEN)
    BY <2>2
  <2>4. selected' \in BOOLEAN
    BY <2>1
  <2>5. Len(value) <= IME_BRIDGE_MAX_LEN => ~selected'
    BY <2>1, <2>3
  <2> QED BY <2>1, <2>4, <2>5, <2>7, Zenon
<1> QED BY <1>1, <1>2, <1>3, Zenon

\* How the page stands before the next event of the field.
LEMMA Start ==
  ASSUME ImeInv, ~ending
  PROVE  /\ Kept \in Text
         /\ \E s \in Text : imeTrackedValue = Kept \o s /\ remote = meant \o s
         /\ imeVetoExpectedEmpty => Kept # <<>>
<1>1. ImeTypeOK
  BY DEF ImeInv
<1>2. Kept \in Text
  BY <1>1, Texts DEF Kept, ImeTypeOK
<1>3. imeVetoExpectedEmpty => Kept # <<>>
  BY Zenon DEF ImeInv, Vetoed, Kept
<1>4. <<>> \in Text /\ <<>> \o <<>> = <<>> /\ meant \o <<>> = meant /\ base \o <<>> = base
  BY <1>1, Texts, TextOps DEF ImeTypeOK
<1>5. ASSUME preview # <<>>
      PROVE  \E s \in Text : imeTrackedValue = Kept \o s /\ remote = meant \o s
  BY <1>5, Zenon DEF ImeInv, Composing, Kept
<1>6. ASSUME preview = <<>>, selected
      PROVE  \E s \in Text : imeTrackedValue = Kept \o s /\ remote = meant \o s
  <2>1. Kept = <<>> /\ imeTrackedValue = <<>> /\ remote = meant
    BY <1>6, Zenon DEF ImeInv, Overflowed, Kept
  <2> QED BY <1>4, <2>1
<1>7. ASSUME preview = <<>>, ~selected
      PROVE  \E s \in Text : imeTrackedValue = Kept \o s /\ remote = meant \o s
  <2>1. Kept = base /\ imeTrackedValue = base /\ remote = meant
    BY <1>7, Zenon DEF ImeInv, Quiet, Kept
  <2> QED BY <1>4, <2>1
<1>8. \E s \in Text : imeTrackedValue = Kept \o s /\ remote = meant \o s
  BY <1>5, <1>6, <1>7, Zenon
<1> QED BY <1>2, <1>3, <1>8, Zenon

\* A held preview leaves what was sent, a commit sends value: either way the
\* page stands as it stood, with another end.
LEMMA AnswerSends ==
  ASSUME ImeTypeOK, NEW B \in Text, NEW M \in Text, NEW s \in Text, NEW q \in Text,
         imeTrackedValue = B \o s, remote = M \o s, SendDifference(B \o q)
  PROVE  remote' = M \o q
<1>1. B \in Seq(Alphabet) /\ M \in Seq(Alphabet) /\ s \in Seq(Alphabet) /\ q \in Seq(Alphabet)
  BY Texts
<1> QED BY <1>1, Difference

LEMMA ComposeInv ==
  ASSUME ImeInv, NEW q \in Pieces \cup {<<>>}, Compose(q)
  PROVE  ImeInv'
<1>1. /\ ImeTypeOK /\ ~ending
      /\ Len(Kept \o q) <= IME_BRIDGE_MAX_LEN
      /\ base' = Kept /\ preview' = q /\ meant' = meant /\ ending' = ending
      /\ OnImeTextChanged(Kept \o q, q)
  BY Zenon DEF Compose, ImeInv
<1>2. /\ q \in Text /\ Kept \in Text /\ base \in Text /\ remote \in Text /\ meant \in Text
      /\ imeTrackedValue \in Text /\ <<>> \in Text
  BY <1>1, Start, Texts DEF ImeTypeOK
<1>3. PICK s \in Text : imeTrackedValue = Kept \o s /\ remote = meant \o s
  BY <1>1, Start
<1>4. /\ Kept \o q \in Text /\ meant \o q \in Text
      /\ Kept \o <<>> = Kept /\ meant \o <<>> = meant
  BY <1>2, TextOps
<1>5. imeVetoExpectedEmpty => Kept \o q # <<>>
  <2>1. Kept # <<>> => Kept \o q # <<>>
    BY <1>2, Texts, ConcatEqualIffEmpty
  <2> QED BY <1>1, <2>1, Start, Zenon
<1>6. /\ imeVetoExpectedEmpty' = FALSE
      /\ \/ /\ q # NoPreview /\ IsCompositionPreview(Kept \o q, q)
            /\ imeLastPreview' = q /\ selected' = FALSE
            /\ UNCHANGED <<imeTrackedValue, remote>>
         \/ /\ imeLastPreview' = <<>> /\ SendDifference(Kept \o q)
            /\ selected' = FALSE
            /\ imeTrackedValue' = Kept \o q
  BY <1>1, <1>4, <1>5, Answer, Zenon
<1>7. /\ imeVetoExpectedEmpty' = FALSE /\ selected' = FALSE /\ imeLastPreview' \in Text
      /\ \E t \in Text : /\ imeTrackedValue' = Kept \o t /\ remote' = meant \o t
                         /\ q = <<>> => t = <<>>
  <2>1. CASE /\ IsCompositionPreview(Kept \o q, q)
             /\ imeLastPreview' = q /\ selected' = FALSE
             /\ UNCHANGED <<imeTrackedValue, remote>>
    <3>1. q = <<>> => s = <<>>
      <4>1. q = <<>> => Kept \o q = imeTrackedValue
        BY <2>1, Zenon DEF IsCompositionPreview
      <4> QED BY <1>2, <1>3, <4>1, Texts, CancelStart
    <3> QED BY <1>2, <1>3, <1>6, <2>1, <3>1
  <2>2. CASE /\ imeLastPreview' = <<>> /\ SendDifference(Kept \o q)
             /\ selected' = FALSE
             /\ imeTrackedValue' = Kept \o q
    <3>1. remote' = meant \o q
      BY <1>1, <1>2, <1>3, <2>2, AnswerSends, ZenonT(60)
    <3> QED BY <1>2, <1>6, <2>2, <3>1
  <2> QED BY <1>6, <2>1, <2>2, Zenon
<1>8. PICK t \in Text : /\ imeTrackedValue' = Kept \o t /\ remote' = meant \o t
                        /\ q = <<>> => t = <<>>
  BY <1>7, Zenon
<1>9. imeTrackedValue' \in Text /\ remote' \in Text
  <2>1. Kept \o t \in Text /\ meant \o t \in Text
    BY <1>2, TextOps
  <2> QED BY <1>8, <2>1, Zenon
<1>10. ImeTypeOK'
  BY <1>1, <1>2, <1>7, <1>9 DEF ImeTypeOK
<1>11. q = <<>> => imeTrackedValue' = base' /\ remote' = meant'
  BY <1>1, <1>4, <1>8, Zenon
<1>12. Quiet'
  BY <1>1, <1>11, Zenon DEF Quiet
<1>13. Composing'
  BY <1>1, <1>7, <1>8, Zenon DEF Composing, Text
<1> QED BY <1>1, <1>7, <1>10, <1>12, <1>13, Zenon DEF ImeInv, Ending, Overflowed, Vetoed

LEMMA CommitTextInv ==
  ASSUME ImeInv, NEW t \in Pieces, NEW shown \in {NoPreview, <<>>, t}, CommitText(t, shown)
  PROVE  ImeInv'
<1>1. /\ ImeTypeOK /\ ~ending
      /\ base' = Kept \o t /\ preview' = <<>> /\ meant' = meant \o t
      /\ ending' = (shown = t)
      /\ OnImeTextChanged(Kept \o t, shown)
  BY Zenon DEF CommitText, ImeInv
<1>2. /\ t \in Text /\ t # <<>> /\ Kept \in Text /\ meant \in Text /\ <<>> \in Text
      /\ imeTrackedValue \in Text /\ remote \in Text
  BY <1>1, Start, Texts DEF ImeTypeOK
<1>3. PICK s \in Text : imeTrackedValue = Kept \o s /\ remote = meant \o s
  BY <1>1, Start
<1>4. /\ Kept \o t \in Text /\ meant \o t \in Text
      /\ (Kept \o t) \o <<>> = Kept \o t /\ (meant \o t) \o <<>> = meant \o t
  BY <1>2, TextOps
<1>5. Kept \o t # <<>>
  BY <1>2, Texts, ConcatEqualIffEmpty
<1>6. /\ imeVetoExpectedEmpty' = FALSE
      /\ \/ /\ shown # NoPreview /\ IsCompositionPreview(Kept \o t, shown)
            /\ imeLastPreview' = shown /\ selected' = FALSE
            /\ UNCHANGED <<imeTrackedValue, remote>>
         \/ /\ imeLastPreview' = <<>> /\ SendDifference(Kept \o t)
            /\ selected' \in BOOLEAN
            /\ imeTrackedValue' = IF selected' THEN <<>> ELSE Kept \o t
  BY <1>1, <1>4, <1>5, Answer, Zenon
<1>7. CASE /\ shown # NoPreview /\ IsCompositionPreview(Kept \o t, shown)
           /\ imeLastPreview' = shown /\ selected' = FALSE
           /\ UNCHANGED <<imeTrackedValue, remote>>
  <2>1. ImeTypeOK'
    BY <1>1, <1>2, <1>4, <1>6, <1>7 DEF ImeTypeOK
  <2>2. shown # t => imeTrackedValue' = base' /\ remote' = meant'
    <3>1. shown # t => shown = <<>>
      BY <1>7, Zenon
    <3>2. shown # t => Kept \o t = imeTrackedValue
      BY <1>7, <3>1, Zenon DEF IsCompositionPreview
    <3>3. shown # t => s = t
      BY <1>2, <1>3, <3>2, Texts, CancelStart
    <3> QED BY <1>1, <1>3, <1>7, <3>3
  <2>3. Quiet'
    BY <1>1, <2>2, Zenon DEF Quiet
  <2>4. Ending'
    <3>1. /\ base' = Kept \o t /\ imeTrackedValue' = Kept \o s
          /\ meant' = meant \o t /\ remote' = meant \o s
      BY <1>1, <1>3, <1>7
    <3> QED BY <1>2, <3>1, Zenon DEF Ending, Text
  <2> QED BY <1>1, <1>6, <1>7, <2>1, <2>3, <2>4, Zenon DEF ImeInv, Composing, Overflowed, Vetoed
<1>8. CASE /\ imeLastPreview' = <<>> /\ SendDifference(Kept \o t)
           /\ selected' \in BOOLEAN
           /\ imeTrackedValue' = IF selected' THEN <<>> ELSE Kept \o t
  <2>1. remote' = meant \o t
    BY <1>1, <1>2, <1>3, <1>8, AnswerSends, ZenonT(60)
  <2>2. ImeTypeOK'
    <3>1. imeTrackedValue' \in Text
      BY <1>2, <1>4, <1>8, Zenon
    <3>2. ending' \in BOOLEAN
      BY <1>1
    <3> QED BY <1>1, <1>2, <1>4, <1>6, <1>8, <2>1, <3>1, <3>2, Zenon DEF ImeTypeOK, Text
  <2>3. /\ selected' => imeTrackedValue' = <<>>
        /\ ~selected' => imeTrackedValue' = base'
        /\ remote' = meant'
    BY <1>1, <1>8, <2>1, Zenon
  <2>4. Ending'
    <3>1. ~selected' => /\ base' = (Kept \o t) \o <<>> /\ imeTrackedValue' = (Kept \o t) \o <<>>
                        /\ meant' = (meant \o t) \o <<>> /\ remote' = (meant \o t) \o <<>>
      BY <1>1, <1>4, <2>1, <2>3, Zenon
    <3> QED BY <1>2, <1>4, <3>1, Zenon DEF Ending, Text
  <2> QED BY <1>1, <1>5, <1>6, <2>2, <2>3, <2>4, Zenon
          DEF ImeInv, Quiet, Composing, Overflowed, Vetoed
<1> QED BY <1>6, <1>7, <1>8, Zenon

\* A field that was selected when its composition ended has no event to end it,
\* or the page would type the field once more.
LEMMA EndCompositionInv ==
  ASSUME ImeInv, ~EndAfterOverflow, EndComposition
  PROVE  ImeInv'
<1>1. /\ ImeTypeOK /\ ending /\ preview = <<>> /\ ~imeVetoExpectedEmpty
      /\ ending' = FALSE /\ base' = base /\ preview' = preview /\ meant' = meant
  BY Zenon DEF EndComposition, ImeInv, Vetoed
<1>2. <<>> \in Text /\ base \in Text /\ remote \in Text /\ meant \in Text
  BY <1>1, Texts DEF ImeTypeOK
<1>3. CASE selected
  <2>1. UNCHANGED <<selected, imeTrackedValue, imeLastPreview, imeVetoExpectedEmpty, remote>>
    BY <1>3, Zenon DEF EndComposition
  <2>2. ImeTypeOK'
    BY <1>1, <2>1, Zenon DEF ImeTypeOK, Text
  <2> QED BY <1>1, <1>3, <2>1, <2>2, Zenon
          DEF ImeInv, Quiet, Composing, Ending, Overflowed, Vetoed
<1>4. CASE ~selected
  <2>1. OnImeTextChanged(base, <<>>)
    BY <1>4, Zenon DEF EndComposition
  <2>2. PICK B, M, c, s \in Text : /\ base = B \o c /\ imeTrackedValue = B \o s
                                   /\ meant = M \o c /\ remote = M \o s
    BY <1>1, <1>4, Zenon DEF ImeInv, Ending
  <2>3. /\ imeVetoExpectedEmpty' = FALSE
        /\ \/ /\ IsCompositionPreview(base, <<>>)
              /\ imeLastPreview' = <<>> /\ selected' = FALSE
              /\ UNCHANGED <<imeTrackedValue, remote>>
           \/ /\ imeLastPreview' = <<>> /\ SendDifference(base)
              /\ selected' \in BOOLEAN /\ (base = <<>> => ~selected')
              /\ imeTrackedValue' = IF selected' THEN <<>> ELSE base
    BY <1>1, <1>2, <2>1, Answer, Zenon
  <2>4. /\ selected' \in BOOLEAN /\ remote' = meant
        /\ imeTrackedValue' = IF selected' THEN <<>> ELSE base
    <3>1. CASE /\ IsCompositionPreview(base, <<>>) /\ selected' = FALSE
               /\ UNCHANGED <<imeTrackedValue, remote>>
      <4>1. base = imeTrackedValue
        BY <3>1, Zenon DEF IsCompositionPreview
      <4>2. c = s
        BY <2>2, <4>1, Texts, CancelStart
      <4> QED BY <2>2, <3>1, <4>1, <4>2
    <3>2. CASE /\ SendDifference(base) /\ selected' \in BOOLEAN
               /\ imeTrackedValue' = IF selected' THEN <<>> ELSE base
      <4>1. remote' = M \o c
        BY <1>1, <2>2, <3>2, AnswerSends
      <4> QED BY <2>2, <3>2, <4>1, Zenon
    <3> QED BY <2>3, <3>1, <3>2, Zenon
  <2>7. base = <<>> => ~selected'
    BY <2>3, Zenon
  <2>5. imeTrackedValue' \in Text /\ imeLastPreview' \in Text
    BY <1>2, <2>3, <2>4, Zenon
  <2>6. ImeTypeOK'
    BY <1>1, <1>2, <2>3, <2>4, <2>5 DEF ImeTypeOK
  <2> QED BY <1>1, <2>3, <2>4, <2>6, <2>7, Zenon
          DEF ImeInv, Quiet, Composing, Ending, Overflowed, Vetoed
<1> QED BY <1>3, <1>4

LEMMA BlurInv ==
  ASSUME ImeInv, Blur
  PROVE  ImeInv'
<1>1. /\ ImeTypeOK /\ ~ending
      /\ base' = base \o preview /\ preview' = <<>> /\ meant' = meant \o preview
      /\ ending' = (preview # <<>>) /\ imeLastPreview' = <<>>
      /\ UNCHANGED <<selected, imeTrackedValue, imeVetoExpectedEmpty, remote>>
  BY Zenon DEF Blur, ImeInv, field
<1>2. /\ base \in Text /\ meant \in Text /\ preview \in Text /\ <<>> \in Text
      /\ base \o preview \in Text /\ meant \o preview \in Text
      /\ base \o <<>> = base /\ meant \o <<>> = meant
  BY <1>1, Texts, TextOps DEF ImeTypeOK
<1>3. ImeTypeOK'
  <2>1. ending' \in BOOLEAN
    BY <1>1
  <2> QED BY <1>1, <1>2, <2>1, Zenon DEF ImeTypeOK, Text
<1>4. CASE preview = <<>>
  <2>1. base' = base /\ meant' = meant /\ ending' = FALSE
    BY <1>1, <1>2, <1>4
  <2> QED BY <1>1, <1>3, <1>4, <2>1, Zenon
          DEF ImeInv, Quiet, Composing, Ending, Overflowed, Vetoed
<1>5. CASE preview # <<>>
  <2>1. PICK s \in Text : imeTrackedValue = base \o s /\ remote = meant \o s
    BY <1>5, Zenon DEF ImeInv, Composing
  <2>2. ~selected' /\ ~imeVetoExpectedEmpty' /\ ending'
    BY <1>1, <1>5, Zenon DEF ImeInv, Composing, Vetoed
  <2>3. Ending'
    <3>1. /\ base' = base \o preview /\ imeTrackedValue' = base \o s
          /\ meant' = meant \o preview /\ remote' = meant \o s
      BY <1>1, <2>1
    <3> QED BY <1>2, <3>1, Zenon DEF Ending, Text
  <2> QED BY <1>1, <1>3, <2>2, <2>3, Zenon DEF ImeInv, Quiet, Composing, Overflowed, Vetoed
<1> QED BY <1>4, <1>5

LEMMA DeleteInv ==
  ASSUME ImeInv, NEW n \in 0..Len(base), Delete(n)
  PROVE  ImeInv'
<1> DEFINE m == IF n = 0 THEN 1 ELSE n
<1>1. /\ ImeTypeOK /\ ~ending /\ preview = <<>> /\ remote = meant
      /\ selected \/ imeTrackedValue = base
      /\ selected => imeTrackedValue = <<>> /\ base # <<>> /\ ~imeVetoExpectedEmpty
      /\ preview' = preview /\ ending' = ending
      /\ meant' = IF selected THEN meant ELSE Back(meant, m)
      /\ VetoedDelete(n) \/ DeleteOnEmpty(n) \/ AllowedDelete(n)
  BY Zenon DEF Delete, ImeInv, Quiet, Overflowed, Vetoed
<1>2. /\ base \in Text /\ imeTrackedValue \in Text /\ imeLastPreview \in Text
      /\ remote \in Text /\ meant \in Text /\ <<>> \in Text
      /\ selected \in BOOLEAN /\ imeVetoExpectedEmpty \in BOOLEAN
      /\ Len(base) \in Nat /\ Back(meant, m) \in Text
      /\ base # <<>> => Len(base) > 0
  <2>1. m \in Nat
    OBVIOUS
  <2>2. /\ base \in Text /\ imeTrackedValue \in Text /\ imeLastPreview \in Text
        /\ remote \in Text /\ meant \in Text /\ <<>> \in Text
        /\ selected \in BOOLEAN /\ imeVetoExpectedEmpty \in BOOLEAN
    BY <1>1, Texts, Zenon DEF ImeTypeOK
  <2>3. base # <<>> => Len(base) \in Nat \ {0}
    BY <2>2, Texts, EmptySeq
  <2>4. Len(base) \in Nat /\ (base # <<>> => Len(base) > 0)
    BY <2>2, <2>3, TextOps
  <2>5. Back(meant, m) \in Text
    BY <2>1, <2>2, TextOps
  <2> QED BY <2>2, <2>4, <2>5
<1>3. n = 0 => base = <<>>
  BY DEF Delete
<1> HIDE DEF m
<1>4. meant' \in Text
  BY <1>1, <1>2, Zenon
<1>5. CASE VetoedDelete(n)
  <2>1. /\ imeTrackedValue = base /\ base # <<>> /\ ~selected /\ n >= Len(base)
        /\ remote' = Back(remote, Len(base))
        /\ UNCHANGED <<selected, imeLastPreview>>
        /\ \/ imeVetoExpectedEmpty' = TRUE /\ UNCHANGED <<base, imeTrackedValue>>
           \/ imeVetoExpectedEmpty' = FALSE /\ imeTrackedValue' = <<>> /\ base' = <<>>
    BY <1>1, <1>5, Zenon DEF VetoedDelete
  <2>2. m = Len(base)
    <3>1. n >= Len(base)
      BY <2>1
    <3> QED BY <1>2, <1>3, <2>1, <3>1 DEF m
  <2>3. remote' = meant'
    BY <1>1, <2>1, <2>2, Zenon
  <2>4. ImeTypeOK'
    BY <1>1, <1>2, <1>4, <2>1, <2>3, Zenon DEF ImeTypeOK, Text
  <2>5. imeTrackedValue' = base' /\ (imeVetoExpectedEmpty' => base' # <<>>) /\ ~selected'
    BY <2>1, Zenon
  <2> QED BY <1>1, <2>3, <2>4, <2>5, Zenon
          DEF ImeInv, Quiet, Composing, Ending, Overflowed, Vetoed
<1>6. CASE DeleteOnEmpty(n)
  <2>1. /\ imeTrackedValue = <<>> /\ n = 0 /\ remote' = Back(remote, 1)
        /\ UNCHANGED <<base, selected, imeTrackedValue, imeLastPreview, imeVetoExpectedEmpty>>
    BY <1>6, Zenon DEF DeleteOnEmpty
  <2>2. m = 1
    BY <2>1 DEF m
  <2>3. ~selected /\ remote' = meant'
    BY <1>1, <1>3, <2>1, <2>2, Zenon
  <2>4. ImeTypeOK'
    BY <1>1, <1>2, <1>4, <2>1, <2>3, Zenon DEF ImeTypeOK, Text
  <2> QED BY <1>1, <2>1, <2>3, <2>4, Zenon
          DEF ImeInv, Quiet, Composing, Ending, Overflowed, Vetoed
<1>7. CASE AllowedDelete(n)
  <2>1. /\ imeTrackedValue = <<>> => n # 0
        /\ imeTrackedValue # <<>> => n < Len(imeTrackedValue)
        /\ base' = Back(base, n)
        /\ OnImeTextChanged(base', NoPreview)
    BY <1>7, Zenon DEF AllowedDelete
  <2>2. n # 0
    BY <1>1, <1>3, <2>1, Zenon
  <2>3. n \in Nat /\ base' \in Text /\ m = n
    BY <1>2, <2>1, <2>2, TextOps DEF m
  <2>4. imeVetoExpectedEmpty => base' # <<>>
    <3> SUFFICES ASSUME imeVetoExpectedEmpty PROVE base' # <<>>
      OBVIOUS
    <3>1. base # <<>> /\ imeTrackedValue = base
      BY <1>1, Zenon DEF ImeInv, Vetoed
    <3>2. n < Len(base)
      BY <2>1, <3>1
    <3>3. Len(base) - n \in 0..Len(base) /\ Len(base) - n # 0
      BY <1>2, <2>3, <3>2
    <3>4. Len(base') = Len(base) - n
      BY <1>2, <2>1, <3>3, Texts, FirstLetters DEF Back
    <3> QED BY <3>3, <3>4
  <2>5. /\ imeVetoExpectedEmpty' = FALSE
        /\ imeLastPreview' = <<>> /\ SendDifference(base')
        /\ selected' \in BOOLEAN /\ (base' = <<>> => ~selected')
        /\ imeTrackedValue' = IF selected' THEN <<>> ELSE base'
    BY <1>1, <2>1, <2>3, <2>4, Answer, Zenon
  <2>6. remote' = meant'
    <3>1. CASE selected
      <4>1. n = Len(base)
        BY <2>2, <3>1 DEF Delete
      <4>2. base' = <<>>
        <5>1. Len(base) - n < 1 /\ Len(base) - n \in Int
          BY <1>2, <4>1
        <5> QED BY <2>1, <5>1, SubSeqEmpty DEF Back
      <4>3. <<>> \o <<>> = <<>> /\ meant \o <<>> = meant
        BY <1>2, TextOps
      <4>4. imeTrackedValue = <<>> \o <<>> /\ remote = meant \o <<>> /\ SendDifference(<<>> \o <<>>)
        BY <1>1, <2>5, <3>1, <4>2, <4>3, Zenon
      <4>5. remote' = meant \o <<>>
        <5>1. ImeTypeOK /\ <<>> \in Text /\ meant \in Text
          BY <1>1, <1>2, Zenon
        <5> QED BY <4>4, <5>1, AnswerSends
      <4> QED BY <1>1, <3>1, <4>3, <4>5, Zenon
    <3>2. CASE ~selected
      <4>1. base \in Seq(Alphabet) /\ remote \in Seq(Alphabet) /\ n \in 0..Len(base)
        BY <1>2, Texts
      <4>2. imeTrackedValue = base /\ SendDifference(Back(base, n))
        BY <1>1, <2>1, <2>5, <3>2, Zenon
      <4>3. remote' = Back(remote, n)
        BY <4>1, <4>2, DifferenceBack
      <4> QED BY <1>1, <2>3, <3>2, <4>3, Zenon
    <3> QED BY <3>1, <3>2
  <2>7. ImeTypeOK'
    BY <1>1, <1>2, <1>4, <2>3, <2>5, <2>6, Zenon DEF ImeTypeOK, Text
  <2>8. /\ selected' => imeTrackedValue' = <<>> /\ base' # <<>>
        /\ ~selected' => imeTrackedValue' = base'
    BY <2>5, Zenon
  <2> QED BY <1>1, <2>5, <2>6, <2>7, <2>8, Zenon
          DEF ImeInv, Quiet, Composing, Ending, Overflowed, Vetoed
<1> QED BY <1>1, <1>5, <1>6, <1>7, Zenon

LEMMA ImeStutterInv ==
  ASSUME ImeInv, UNCHANGED imeVars
  PROVE  ImeInv'
<1>1. UNCHANGED <<base, preview, selected, imeTrackedValue, imeLastPreview,
                  imeVetoExpectedEmpty, remote, meant, ending>>
  BY Zenon DEF imeVars
<1>2. /\ ImeTypeOK' /\ Quiet' /\ Overflowed' /\ Vetoed' /\ (ending' => preview' = <<>>)
  BY <1>1, Zenon DEF ImeInv, ImeTypeOK, Text, Quiet, Overflowed, Vetoed
<1>3. Composing'
  BY <1>1 DEF ImeInv, Text, Composing
<1>4. Ending'
  BY <1>1, ZenonT(40) DEF ImeInv, Text, Ending
<1> QED BY <1>2, <1>3, <1>4, Zenon DEF ImeInv

LEMMA ImeInductive ==
  ASSUME ~EndAfterOverflow
  PROVE  ImeSpec => []ImeInv
<1>1. ImeInv /\ [ImeNext]_imeVars => ImeInv'
  <2> SUFFICES ASSUME ImeInv, [ImeNext]_imeVars
               PROVE  ImeInv'
    OBVIOUS
  <2>1. ASSUME NEW q \in Pieces \cup {<<>>}, Compose(q) PROVE ImeInv'
    BY <2>1, ComposeInv
  <2>2. ASSUME NEW t \in Pieces, NEW shown \in {NoPreview, <<>>, t}, CommitText(t, shown)
        PROVE  ImeInv'
    BY <2>2, CommitTextInv
  <2>3. CASE EndComposition
    BY <2>3, EndCompositionInv
  <2>4. CASE Blur
    BY <2>4, BlurInv
  <2>5. ASSUME NEW n \in 0..Len(base), Delete(n) PROVE ImeInv'
    BY <2>5, DeleteInv
  <2>6. CASE UNCHANGED imeVars
    BY <2>6, ImeStutterInv
  <2> QED BY <2>1, <2>2, <2>3, <2>4, <2>5, <2>6, Zenon DEF ImeNext
<1> QED BY ImeInitInv, <1>1, PTL DEF ImeSpec

\* Between compositions the remote text is what the user meant.
THEOREM TypedAsMeant ==
  ASSUME ~EndAfterOverflow
  PROVE  ImeSpec => []RemoteIsMeant
<1>1. ImeInv => RemoteIsMeant
  BY Zenon DEF ImeInv, Quiet, RemoteIsMeant
<1> QED BY ImeInductive, <1>1, PTL

\* A composition costs none of the text before it.
THEOREM CompositionsAreHarmless ==
  ASSUME ~EndAfterOverflow
  PROVE  ImeSpec => []CompositionIsHarmless
<1>1. ImeInv => CompositionIsHarmless
  <2> SUFFICES ASSUME ImeInv, preview # <<>> PROVE IsPrefix(meant, remote)
    BY Zenon DEF CompositionIsHarmless
  <2>1. PICK s \in Text : remote = meant \o s
    BY Zenon DEF ImeInv, Composing
  <2>2. meant \in Text
    BY DEF ImeInv, ImeTypeOK
  <2>3. /\ meant \in Seq(Alphabet) /\ s \in Seq(Alphabet)
        /\ Len(meant) \in Nat /\ Len(s) \in Nat /\ 0 \in 0..Len(s)
        /\ Len(remote) = Len(meant) + Len(s)
    BY <2>1, <2>2, Texts, TextOps
  <2>4. SubSeq(meant \o s, 1, Len(meant) + 0) = meant \o SubSeq(s, 1, 0)
    BY <2>3, Split
  <2>5. meant \o SubSeq(s, 1, 0) = meant /\ SubSeq(meant, 1, Len(meant)) = meant
    BY <2>2, <2>3, SubSeqEmpty, SubSeqFull, TextOps
  <2>6. SubSeq(remote, 1, Len(meant)) = meant
    BY <2>1, <2>3, <2>4, <2>5
  <2> QED BY <2>3, <2>5, <2>6 DEF IsPrefix
<1> QED BY ImeInductive, <1>1, PTL

-----------------------------------------------------------------------------
(* Types, whatever ends a composition.                                       *)

LEMMA SendType ==
  ASSUME ImeTypeOK, NEW value \in Text, SendDifference(value)
  PROVE  remote' \in Text
<1> DEFINE k == Len(LongestCommonPrefix({imeTrackedValue, value}))
<1>1. /\ imeTrackedValue \in Seq(Alphabet) /\ value \in Seq(Alphabet) /\ remote \in Text
  BY Texts DEF ImeTypeOK
<1>2. k \in 0..Len(imeTrackedValue) /\ k <= Len(value)
  BY <1>1, LongestKeeps
<1>3. remote' = Back(remote, Len(imeTrackedValue) - k) \o SubSeq(value, k + 1, Len(value))
  BY DEF SendDifference
<1> HIDE DEF k
<1>4. Len(imeTrackedValue) \in Nat /\ Len(value) \in Nat
  BY <1>1, LenProperties
<1>5. Len(imeTrackedValue) - k \in Nat /\ k \in 0..Len(value)
  BY <1>2, <1>4
<1>6. Back(remote, Len(imeTrackedValue) - k) \in Text
  BY <1>1, <1>5, TextOps
<1>7. SubSeq(value, k + 1, Len(value)) \in Seq(Alphabet)
  BY <1>1, <1>5, MiddleLetters
<1> QED BY <1>3, <1>6, <1>7, Texts, TextOps

LEMMA AnswerType ==
  ASSUME ImeTypeOK, NEW value \in Text, NEW shown \in Text \cup {NoPreview},
         OnImeTextChanged(value, shown)
  PROVE  /\ selected' \in BOOLEAN /\ imeVetoExpectedEmpty' \in BOOLEAN
         /\ imeTrackedValue' \in Text /\ imeLastPreview' \in Text /\ remote' \in Text
<1>1. imeTrackedValue \in Text /\ imeLastPreview \in Text /\ remote \in Text /\ <<>> \in Text
  BY Texts DEF ImeTypeOK
<1>2. CASE value = <<>> /\ imeVetoExpectedEmpty
  BY <1>1, <1>2, Zenon DEF OnImeTextChanged
<1>3. CASE ~(value = <<>> /\ imeVetoExpectedEmpty)
  <2>1. imeVetoExpectedEmpty => value # <<>>
    BY <1>3, Zenon
  <2>2. /\ imeVetoExpectedEmpty' = FALSE
        /\ \/ /\ shown # NoPreview
              /\ imeLastPreview' = shown /\ selected' = FALSE
              /\ UNCHANGED <<imeTrackedValue, remote>>
           \/ /\ imeLastPreview' = <<>> /\ SendDifference(value)
              /\ selected' \in BOOLEAN
              /\ imeTrackedValue' = IF selected' THEN <<>> ELSE value
    BY <2>1, Answer, Zenon
  <2>3. SendDifference(value) => remote' \in Text
    BY SendType
  <2> QED BY <1>1, <2>2, <2>3, Zenon
<1> QED BY <1>2, <1>3

\* The field, what the page tracks and both texts consist of what was typed and
\* of what stood there.
THEOREM ImeTypeCorrect == ImeSpec => []ImeTypeOK
<1>1. ImeInit => ImeTypeOK
  BY ImeInitInv, Zenon DEF ImeInv
<1>2. ImeTypeOK /\ [ImeNext]_imeVars => ImeTypeOK'
  <2> SUFFICES ASSUME ImeTypeOK, [ImeNext]_imeVars
               PROVE  ImeTypeOK'
    OBVIOUS
  <2>1. /\ base \in Text /\ preview \in Text /\ imeTrackedValue \in Text
        /\ remote \in Text /\ meant \in Text /\ imeLastPreview \in Text /\ <<>> \in Text
        /\ selected \in BOOLEAN /\ imeVetoExpectedEmpty \in BOOLEAN /\ ending \in BOOLEAN
    BY Texts, Zenon DEF ImeTypeOK
  <2>2. /\ Kept \in Text
        /\ \A t \in Text : Kept \o t \in Text /\ meant \o t \in Text /\ base \o t \in Text
    <3>1. Kept \in Text
      BY <2>1, Zenon DEF Kept
    <3> QED BY <2>1, <3>1, TextOps
  <2>3. ASSUME NEW q \in Pieces \cup {<<>>}, Compose(q) PROVE ImeTypeOK'
    <3>1. /\ base' = Kept /\ preview' = q /\ UNCHANGED <<meant, ending>>
          /\ OnImeTextChanged(Kept \o q, q)
      BY <2>3, Zenon DEF Compose
    <3>2. q \in Text
      BY <2>1, Texts
    <3>3. Kept \o q \in Text
      BY <2>2, <3>2
    <3> QED BY <2>1, <2>2, <3>1, <3>2, <3>3, AnswerType, Zenon DEF ImeTypeOK, Text
  <2>4. ASSUME NEW t \in Pieces, NEW shown \in {NoPreview, <<>>, t}, CommitText(t, shown)
        PROVE  ImeTypeOK'
    <3>1. /\ base' = Kept \o t /\ preview' = <<>> /\ meant' = meant \o t
          /\ ending' = (shown = t) /\ OnImeTextChanged(Kept \o t, shown)
      BY <2>4, Zenon DEF CommitText
    <3>2. t \in Text /\ shown \in Text \cup {NoPreview}
      BY <2>1, Texts
    <3>3. Kept \o t \in Text /\ meant \o t \in Text
      BY <2>2, <3>2
    <3>4. ending' \in BOOLEAN
      BY <3>1
    <3> QED BY <2>1, <3>1, <3>2, <3>3, <3>4, AnswerType, Zenon DEF ImeTypeOK, Text
  <2>5. CASE EndComposition
    <3>1. /\ ending' = FALSE /\ UNCHANGED <<base, preview, meant>>
          /\ \/ UNCHANGED <<selected, imeTrackedValue, imeLastPreview,
                           imeVetoExpectedEmpty, remote>>
             \/ OnImeTextChanged(base, <<>>)
      BY <2>5, Zenon DEF EndComposition
    <3> QED BY <2>1, <3>1, AnswerType, Zenon DEF ImeTypeOK, Text
  <2>6. CASE Blur
    <3>1. /\ base' = base \o preview /\ preview' = <<>> /\ meant' = meant \o preview
          /\ ending' = (preview # <<>>) /\ imeLastPreview' = <<>>
          /\ UNCHANGED <<selected, imeTrackedValue, imeVetoExpectedEmpty, remote>>
      BY <2>6, Zenon DEF Blur, field
    <3>2. ending' \in BOOLEAN
      BY <3>1
    <3> QED BY <2>1, <2>2, <3>1, <3>2, Zenon DEF ImeTypeOK, Text
  <2>7. ASSUME NEW n \in 0..Len(base), Delete(n) PROVE ImeTypeOK'
    <3> DEFINE m == IF n = 0 THEN 1 ELSE n
    <3>1. /\ UNCHANGED <<preview, ending>>
          /\ meant' = IF selected THEN meant ELSE Back(meant, m)
          /\ VetoedDelete(n) \/ DeleteOnEmpty(n) \/ AllowedDelete(n)
      BY <2>7, Zenon DEF Delete
    <3>2. n \in Nat /\ m \in Nat /\ Len(imeTrackedValue) \in Nat /\ 1 \in Nat
      BY <2>1, TextOps
    <3> HIDE DEF m
    <3>3. /\ Back(meant, m) \in Text /\ Back(base, n) \in Text
          /\ Back(remote, Len(imeTrackedValue)) \in Text /\ Back(remote, 1) \in Text
      BY <2>1, <3>2, TextOps
    <3>4. meant' \in Text
      BY <2>1, <3>1, <3>3, Zenon
    <3>5. CASE VetoedDelete(n)
      BY <2>1, <3>1, <3>3, <3>4, <3>5, Zenon DEF VetoedDelete, ImeTypeOK, Text
    <3>6. CASE DeleteOnEmpty(n)
      BY <2>1, <3>1, <3>3, <3>4, <3>6, Zenon DEF DeleteOnEmpty, ImeTypeOK, Text
    <3>7. CASE AllowedDelete(n)
      <4>1. base' = Back(base, n) /\ OnImeTextChanged(base', NoPreview)
        BY <3>7, Zenon DEF AllowedDelete
      <4>2. base' \in Text /\ NoPreview \in Text \cup {NoPreview}
        BY <3>3, <4>1
      <4> QED BY <2>1, <3>1, <3>4, <4>1, <4>2, AnswerType, Zenon DEF ImeTypeOK, Text
    <3> QED BY <3>1, <3>5, <3>6, <3>7, Zenon
  <2>8. CASE UNCHANGED imeVars
    BY <2>8, Zenon DEF ImeTypeOK, Text, imeVars
  <2> QED BY <2>3, <2>4, <2>5, <2>6, <2>7, <2>8, Zenon DEF ImeNext
<1> QED BY <1>1, <1>2, PTL DEF ImeSpec
=============================================================================
