-------------------------- MODULE AudioRing_proofs --------------------------
(* Proofs for AudioRing, for any capacity, sizes, formats and volumes.  The  *)
(* bytes in the ring are always the last ones received, without a gap: that  *)
(* gives the refinement of AudioFifo and, with what close and open empty,    *)
(* the absence of stale sound.                                               *)
EXTENDS AudioRing, SequenceTheorems, TLAPS

-----------------------------------------------------------------------------
(* Positions in the ring.                                                    *)

\* A position is brought back into the ring by one subtraction.
LEMMA Modulo ==
  ASSUME NEW a \in Nat
  PROVE  /\ a % Capacity \in 0..Capacity - 1
         /\ a < Capacity => a % Capacity = a
         /\ a >= Capacity /\ a < 2 * Capacity => a % Capacity = a - Capacity
<1>1. a % Capacity \in 0..Capacity - 1
  BY SizeAssumption, SMT
<1>2. ASSUME a < Capacity PROVE a % Capacity = a
  BY <1>2, SizeAssumption, SMT
<1>3. ASSUME a >= Capacity, a < 2 * Capacity PROVE a % Capacity = a - Capacity
  BY <1>3, SizeAssumption, SMT
<1>. QED BY <1>1, <1>2, <1>3

\* a, brought back into the ring by at most one subtraction.
Wrap(a) == IF a < Capacity THEN a ELSE a - Capacity

LEMMA Wrapped ==
  ASSUME NEW a \in Int, 0 <= a, a < 2 * Capacity
  PROVE  /\ a % Capacity = Wrap(a)
         /\ Wrap(a) \in 0..Capacity - 1
<1>1. a \in Nat /\ Capacity \in Nat \ {0}
  BY SizeAssumption
<1>2. Wrap(a) \in 0..Capacity - 1
  BY <1>1 DEF Wrap
<1>. QED BY <1>1, <1>2, Modulo DEF Wrap

\* Two steps round the ring are one.
LEMMA Steps ==
  ASSUME NEW t \in 0..Capacity - 1, NEW n \in 0..Capacity, NEW z \in 0..Capacity,
         n + z <= Capacity
  PROVE  (((t + n) % Capacity) + z) % Capacity = (t + (n + z)) % Capacity
<1>0. Capacity \in Nat \ {0}
  BY SizeAssumption
<1> DEFINE s == (t + n) % Capacity
<1>1. s = Wrap(t + n) /\ s \in 0..Capacity - 1
  <2>1. t + n \in Int /\ 0 <= t + n /\ t + n < 2 * Capacity
    BY <1>0
  <2>. QED BY <2>1, Wrapped
<1> HIDE DEF s
<1>2. (s + z) % Capacity = Wrap(s + z)
  BY <1>0, <1>1, Wrapped
<1>3. (t + (n + z)) % Capacity = Wrap(t + (n + z))
  BY <1>0, Wrapped
<1>4. Wrap(s + z) = Wrap(t + (n + z))
  BY <1>0, <1>1 DEF Wrap
<1>. QED BY <1>2, <1>3, <1>4 DEF s

\* The place of byte z after the new tail, counted from the head: the ring of
\* size u begins at t and loses n bytes.
PlacedAt(t, u, n, z) ==
  /\ (((t + n) % Capacity) + z) % Capacity \in 0..Capacity - 1
  /\ (((((t + n) % Capacity) + z) % Capacity) + Capacity - ((t + u) % Capacity)) % Capacity
       = IF n + z < u THEN n + z + Capacity - u ELSE n + z - u

LEMMA Places ==
  ASSUME NEW t \in 0..Capacity - 1, NEW u \in 0..Capacity, NEW n \in 0..u,
         NEW z \in 0..Capacity - 1, n + z < u + Capacity
  PROVE  PlacedAt(t, u, n, z)
<1>0. Capacity \in Nat \ {0}
  BY SizeAssumption
<1> DEFINE s == (t + n) % Capacity
           h == (t + u) % Capacity
           p == (s + z) % Capacity
           q == (p + Capacity - h) % Capacity
<1>1. s = Wrap(t + n) /\ s \in 0..Capacity - 1
  <2>1. t + n \in Int /\ 0 <= t + n /\ t + n < 2 * Capacity
    BY <1>0
  <2>. QED BY <2>1, Wrapped
<1>2. h = Wrap(t + u) /\ h \in 0..Capacity - 1
  <2>1. t + u \in Int /\ 0 <= t + u /\ t + u < 2 * Capacity
    BY <1>0
  <2>. QED BY <2>1, Wrapped
<1> HIDE DEF s, h
<1>3. p = Wrap(s + z) /\ p \in 0..Capacity - 1
  BY <1>0, <1>1, Wrapped
<1> HIDE DEF p
<1>4. q = Wrap(p + Capacity - h)
  BY <1>0, <1>2, <1>3, Wrapped
<1>5. Wrap(p + Capacity - h) = IF n + z < u THEN n + z + Capacity - u ELSE n + z - u
  BY <1>0, <1>1, <1>2, <1>3 DEF Wrap
<1>. QED BY <1>3, <1>4, <1>5 DEF s, h, p, PlacedAt

\* The head stays u bytes after the tail, when n are dropped and k are added.
LEMMA SameEnd ==
  ASSUME NEW t \in 0..Capacity - 1, NEW u \in 0..Capacity, NEW n \in 0..u,
         NEW k \in 0..Capacity, u + k - n <= Capacity
  PROVE  (((t + n) % Capacity) + (u - n + k)) % Capacity = (((t + u) % Capacity) + k) % Capacity
<1>0. Capacity \in Nat \ {0}
  BY SizeAssumption
<1> DEFINE s == (t + n) % Capacity
           h == (t + u) % Capacity
<1>1. s = Wrap(t + n) /\ s \in 0..Capacity - 1
  <2>1. t + n \in Int /\ 0 <= t + n /\ t + n < 2 * Capacity
    BY <1>0
  <2>. QED BY <2>1, Wrapped
<1>2. h = Wrap(t + u) /\ h \in 0..Capacity - 1
  <2>1. t + u \in Int /\ 0 <= t + u /\ t + u < 2 * Capacity
    BY <1>0
  <2>. QED BY <2>1, Wrapped
<1> HIDE DEF s, h
<1>3. (s + (u - n + k)) % Capacity = Wrap(s + (u - n + k))
  <2>1. s + (u - n + k) \in Int /\ 0 <= s + (u - n + k) /\ s + (u - n + k) < 2 * Capacity
    BY <1>0, <1>1
  <2>. QED BY <2>1, Wrapped
<1>4. (h + k) % Capacity = Wrap(h + k)
  <2>1. h + k \in Int /\ 0 <= h + k /\ h + k < 2 * Capacity
    BY <1>0, <1>2
  <2>. QED BY <2>1, Wrapped
<1>5. Wrap(s + (u - n + k)) = Wrap(h + k)
  BY <1>0, <1>1, <1>2 DEF Wrap
<1>. QED BY <1>3, <1>4, <1>5 DEF s, h

\* What RingWrite stores, and where, has its type.
LEMMA WriteType ==
  ASSUME TypeOK, NEW k \in Nat, RingWrite(k)
  PROVE  /\ ring' \in [0..Capacity - 1 -> Nat]
         /\ head' \in 0..Capacity - 1 /\ tail' \in 0..Capacity - 1
         /\ used' \in 0..Capacity /\ received' \in Nat
<1> USE SizeAssumption DEF TypeOK
<1> DEFINE size  == Smaller(k, Capacity)
           reset == k > Capacity
           need  == IF size > Capacity - used THEN size - (Capacity - used) ELSE 0
           from  == IF reset THEN 0 ELSE head
           at(i) == (i + Capacity - from) % Capacity
<1>1. size \in 0..Capacity /\ size <= k /\ need \in 0..used /\ from \in 0..Capacity - 1
  BY DEF Smaller
<1>2. used - need + size \in 0..Capacity
  BY <1>1 DEF Smaller
<1>3. /\ ring' = [i \in 0..Capacity - 1 |->
                    IF at(i) < size THEN received + (k - size) + at(i) + 1 ELSE ring[i]]
      /\ head' = (from + size) % Capacity
      /\ tail' = IF reset THEN 0 ELSE (tail + need) % Capacity
      /\ used' = IF reset THEN size ELSE used - need + size
      /\ received' = received + k
  BY DEF RingWrite
<1>4. \A i \in 0..Capacity - 1 : at(i) \in Nat
  BY <1>1, Modulo
<1>5. head' \in 0..Capacity - 1
  <2>1. from + size \in Nat
    BY <1>1
  <2>2. (from + size) % Capacity \in 0..Capacity - 1
    BY <2>1, Modulo
  <2>. QED BY <2>2, <1>3
<1>6. tail' \in 0..Capacity - 1
  <2>1. tail + need \in Nat
    BY <1>1, SMTT(40)
  <2>2. (tail + need) % Capacity \in 0..Capacity - 1
    BY <2>1, Modulo
  <2>. QED BY <2>2, <1>3, SMTT(40)
<1>7. \A i \in 0..Capacity - 1 :
         (IF at(i) < size THEN received + (k - size) + at(i) + 1 ELSE ring[i]) \in Nat
  BY <1>1, <1>4, SMTT(40)
<1>8. ring' \in [0..Capacity - 1 -> Nat]
  BY <1>3, <1>7
<1>9. used' \in 0..Capacity /\ received' \in Nat
  BY <1>1, <1>2, <1>3
<1>. QED BY <1>5, <1>6, <1>8, <1>9

LEMMA ReadType ==
  ASSUME TypeOK, NEW n \in Nat, RingRead(n)
  PROVE  /\ ring' = ring /\ head' = head
         /\ tail' \in 0..Capacity - 1 /\ used' \in 0..Capacity
         /\ out' \in Seq(Nat)
<1> USE SizeAssumption DEF TypeOK
<1> DEFINE size == Smaller(n, used)
<1>1. size \in 0..used /\ size <= n
  BY DEF Smaller
<1>2. tail + size \in Nat
  BY <1>1
<1>3. tail' \in 0..Capacity - 1
  BY <1>2, Modulo DEF RingRead
<1>4. \A i \in 1..used : Contents[i] \in Nat
  <2> TAKE i \in 1..used
  <2>1. tail + i - 1 \in Nat
    OBVIOUS
  <2>2. (tail + i - 1) % Capacity \in 0..Capacity - 1
    BY <2>1, Modulo
  <2>3. ring[(tail + i - 1) % Capacity] \in Nat
    BY <2>2
  <2>. QED BY <2>3 DEF Contents
<1>5. \A i \in 1..n : (IF i <= size THEN Contents[i] ELSE Silence) \in Nat
  BY <1>1, <1>4 DEF Silence
<1>6. out' = [i \in 1..n |-> IF i <= size THEN Contents[i] ELSE Silence]
  BY DEF RingRead
<1>7. out' \in [1..n -> Nat]
  BY <1>5, <1>6
<1>8. out' \in Seq(Nat)
  BY <1>7
<1>9. ring' = ring /\ head' = head /\ used' \in 0..Capacity
  BY <1>1, SMTT(40) DEF RingRead
<1>. QED BY <1>3, <1>8, <1>9

-----------------------------------------------------------------------------
(* Types.                                                                    *)

\* The variables that are not the ring's; wave, an opaque record, and the ring's.
PlainTypes ==
  /\ renderer \in {"none", "stopped", "running"}
  /\ rendererVolume \in Volumes
  /\ refused \in BOOLEAN
  /\ started \in BOOLEAN
  /\ volume \in Volumes
  /\ isOpen \in BOOLEAN
  /\ format \in Formats \cup {NoFormat}
  /\ asked \in Volumes
  /\ applyVolume \in BOOLEAN
  /\ pc \in ChannelStates
  /\ lock \in {"nobody", "channel", "audio"}
  /\ cb \in {"out", "called", "reading"}
  /\ opens \in Nat

Waves == [format : Formats \cup {NoFormat}, size : Nat]

RingTypes ==
  /\ ring \in [0..Capacity - 1 -> Nat]
  /\ head \in 0..Capacity - 1
  /\ tail \in 0..Capacity - 1
  /\ used \in 0..Capacity
  /\ received \in Nat
  /\ firstByte \in Nat
  /\ out \in Seq(Nat)

LEMMA TypeParts == TypeOK <=> PlainTypes /\ wave \in Waves /\ RingTypes
BY DEF TypeOK, PlainTypes, Waves, RingTypes

LEMMA InitType == Init => TypeOK
<1> SUFFICES ASSUME Init PROVE TypeOK
  OBVIOUS
<1>1. PlainTypes
  BY VolumeAssumption DEF Init, PlainTypes, ChannelStates
<1>2. wave \in Waves
  BY DEF Init, NoWave, Waves
<1>3. RingTypes
  BY SizeAssumption DEF Init, RingTypes
<1>. QED BY <1>1, <1>2, <1>3, TypeParts

\* While a wave is being handled, it is one that the server sent.
WaveIsSent ==
  pc \in {"closeStop", "closeReset", "closing", "destroy", "create",
          "openReset", "opening", "play", "write", "writing"}
    => wave.size \in WriteSizes

LEMMA WaveSent == Spec => []WaveIsSent
<1>1. Init => WaveIsSent
  BY DEF Init, WaveIsSent
<1>2. WaveIsSent /\ [Next]_vars => WaveIsSent'
  <2> SUFFICES ASSUME WaveIsSent, [Next]_vars PROVE WaveIsSent'
    OBVIOUS
  <2> USE DEF WaveIsSent, Goto
  <2>1. ASSUME NEW f \in Formats, NEW k \in WriteSizes, RecvWave(f, k) PROVE WaveIsSent'
    BY <2>1 DEF RecvWave
  <2>2. CASE UNCHANGED vars \/ Disconnect \/ \E v \in Volumes : RecvVolume(v)
    BY <2>2 DEF vars, RecvVolume, Disconnect
  <2>3. CASE CloseStop \/ ResetLock \/ CloseReset \/ DestroyRenderer \/ CreateRenderer
               \/ CreateFails \/ OpenDone
    BY <2>3 DEF CloseStop, ResetLock, CloseReset, DestroyRenderer, CreateRenderer,
       CreateFails, OpenDone
  <2>4. CASE Free \/ PlayStart \/ PlayNotOpen \/ DropWave \/ PlayLock \/ PlayWrite
    BY <2>4 DEF Free, PlayStart, PlayNotOpen, DropWave, PlayLock, PlayWrite
  <2>5. CASE CallbackBegins \/ CallbackEnds
    BY <2>5 DEF CallbackBegins, CallbackEnds, CallbackLock, CallbackRead
  <2>. QED BY <2>1, <2>2, <2>3, <2>4, <2>5 DEF Next, Server, Channel
<1>. QED BY <1>1, <1>2, PTL DEF Spec

\* What a step may do to the ring and the bytes it counts.
RingStep ==
  \/ /\ RingReset
     /\ UNCHANGED <<received, firstByte, out>>
  \/ \E k \in WriteSizes : RingWrite(k) /\ UNCHANGED <<firstByte, out>>
  \/ \E n \in ReadSizes : RingRead(n) /\ UNCHANGED <<received, firstByte>>
  \/ /\ UNCHANGED <<ringVars, received, out>>
     /\ firstByte' \in {firstByte, received + 1}

LEMMA StepOfRing == WaveIsSent /\ [Next]_vars => RingStep
<1> SUFFICES ASSUME WaveIsSent, [Next]_vars PROVE RingStep
  OBVIOUS
<1> USE DEF RingStep, historyVars
<1>1. CASE UNCHANGED vars
  BY <1>1 DEF vars, ringVars
<1>2. CASE Server
  BY <1>2 DEF Server, RecvWave, RecvVolume, Disconnect, ringVars
<1>3. CASE CloseStop \/ ResetLock \/ DestroyRenderer \/ CreateFails
  BY <1>3 DEF CloseStop, ResetLock, DestroyRenderer, CreateFails, ringVars
<1>4. CASE CreateRenderer
  BY <1>4 DEF CreateRenderer, ringVars
<1>5. CASE CloseReset \/ OpenDone
  BY <1>5 DEF CloseReset, OpenDone
<1>6. CASE Free \/ PlayStart \/ PlayNotOpen \/ DropWave \/ PlayLock
  BY <1>6 DEF Free, PlayStart, PlayNotOpen, DropWave, PlayLock, ringVars
<1>7. CASE PlayWrite
  <2>1. wave.size \in WriteSizes
    BY <1>7 DEF WaveIsSent, PlayWrite, Goto
  <2>. QED BY <2>1, <1>7 DEF PlayWrite
<1>8. CASE CallbackBegins \/ CallbackLock
  BY <1>8 DEF CallbackBegins, CallbackLock, ringVars
<1>9. ASSUME NEW n \in ReadSizes, CallbackRead(n) PROVE RingStep
  BY <1>9 DEF CallbackRead
<1>. QED BY <1>1, <1>2, <1>3, <1>4, <1>5, <1>6, <1>7, <1>8, <1>9
         DEF Next, Channel, CallbackEnds

LEMMA RingTypeStep == TypeOK /\ RingStep => RingTypes'
<1> SUFFICES ASSUME TypeOK, RingStep PROVE RingTypes'
  OBVIOUS
<1>1. CASE RingReset /\ UNCHANGED <<received, firstByte, out>>
  BY <1>1, SizeAssumption DEF RingReset, TypeOK, RingTypes
<1>2. ASSUME NEW k \in WriteSizes, RingWrite(k), UNCHANGED <<firstByte, out>>
      PROVE RingTypes'
  <2>1. k \in Nat
    BY SizeAssumption
  <2>. QED BY <2>1, <1>2, WriteType DEF TypeOK, RingTypes
<1>3. ASSUME NEW n \in ReadSizes, RingRead(n), UNCHANGED <<received, firstByte>>
      PROVE RingTypes'
  <2>1. n \in Nat
    BY SizeAssumption
  <2>. QED BY <2>1, <1>3, ReadType DEF TypeOK, RingTypes
<1>4. CASE UNCHANGED <<ringVars, received, out>> /\ firstByte' \in {firstByte, received + 1}
  BY <1>4 DEF TypeOK, RingTypes, ringVars
<1>. QED BY <1>1, <1>2, <1>3, <1>4 DEF RingStep

LEMMA WaveStep == TypeOK /\ [Next]_vars => wave' \in Waves
<1> SUFFICES ASSUME TypeOK, [Next]_vars PROVE wave' \in Waves
  OBVIOUS
<1>1. wave \in Waves /\ NoWave \in Waves
  BY DEF TypeOK, Waves, NoWave
<1>2. ASSUME NEW f \in Formats, NEW k \in WriteSizes, RecvWave(f, k) PROVE wave' \in Waves
  BY <1>2, SizeAssumption DEF RecvWave, Waves
<1>3. ASSUME ~ \E f \in Formats, k \in WriteSizes : RecvWave(f, k)
      PROVE  wave' \in {wave, NoWave}
  BY <1>3 DEF Next, vars, Server, RecvVolume, Disconnect, Channel, CloseStop,
     ResetLock, CloseReset, DestroyRenderer, CreateRenderer, CreateFails, OpenDone, Free,
     PlayStart, PlayNotOpen, DropWave, PlayLock, PlayWrite, CallbackBegins, CallbackEnds,
     CallbackLock, CallbackRead
<1>. QED BY <1>1, <1>2, <1>3

LEMMA PlainStep == TypeOK /\ [Next]_vars => PlainTypes'
<1> SUFFICES ASSUME TypeOK, [Next]_vars PROVE PlainTypes'
  OBVIOUS
<1> USE VolumeAssumption
    DEF PlainTypes, Goto, Acquire, Release, ChannelStates,
        playerVars, deviceVars, historyVars
<1>0. PlainTypes /\ wave.format \in Formats \cup {NoFormat}
  BY DEF TypeOK
<1>1. CASE UNCHANGED vars
  BY <1>0, <1>1 DEF vars
<1>2. CASE Disconnect \/ \E f \in Formats, k \in WriteSizes : RecvWave(f, k)
  BY <1>0, <1>2 DEF RecvWave, Disconnect
<1>9. ASSUME NEW v \in Volumes, RecvVolume(v) PROVE PlainTypes'
  <2>1. /\ rendererVolume' \in Volumes /\ volume' \in Volumes /\ refused' \in BOOLEAN
        /\ applyVolume' \in BOOLEAN /\ asked' \in Volumes
    BY <1>0, <1>9 DEF RecvVolume, ApplyVolume, SetVolume, RendererSetVolume
  <2>. QED BY <1>0, <1>9, <2>1 DEF RecvVolume
<1>3. CASE CloseStop \/ ResetLock \/ CloseReset
  BY <1>0, <1>3, ZenonT(40) DEF CloseStop, ResetLock, CloseReset
<1>4. CASE DestroyRenderer \/ CreateFails
  BY <1>0, <1>4 DEF DestroyRenderer, CreateFails
<1>10. CASE CreateRenderer
  <2>1. rendererVolume' \in Volumes /\ refused' \in BOOLEAN
    <3>1. volume \in Volumes
      BY <1>0
    <3>2. \/ rendererVolume' = volume /\ refused' = FALSE
          \/ rendererVolume' = FullVolume /\ refused' = TRUE
          \/ rendererVolume' = FullVolume /\ refused' = FALSE
      BY <1>10, Zenon DEF CreateRenderer, RendererSetVolume
    <3>. QED BY <3>1, <3>2
  <2>2. opens' \in Nat
    BY <1>0, <1>10 DEF CreateRenderer
  <2>. QED BY <1>0, <1>10, <2>1, <2>2 DEF CreateRenderer
<1>5. CASE OpenDone
  <2>1. /\ rendererVolume' \in Volumes /\ volume' \in Volumes
        /\ refused' \in BOOLEAN /\ applyVolume' \in BOOLEAN
    BY <1>0, <1>5 DEF OpenDone, ApplyVolume, SetVolume, RendererSetVolume
  <2>. QED BY <1>0, <1>5, <2>1 DEF OpenDone
<1>6. CASE Free \/ PlayStart
  BY <1>0, <1>6 DEF Free, PlayStart
<1>11. CASE PlayNotOpen \/ DropWave
  BY <1>0, <1>11 DEF PlayNotOpen, DropWave
<1>7. CASE PlayLock \/ PlayWrite
  BY <1>0, <1>7 DEF PlayLock, PlayWrite
<1>8. CASE CallbackBegins \/ CallbackEnds
  BY <1>0, <1>8 DEF CallbackBegins, CallbackEnds, CallbackLock, CallbackRead
<1>. QED BY <1>1, <1>2, <1>3, <1>4, <1>5, <1>6, <1>7, <1>8, <1>9, <1>10, <1>11 DEF Next, Server, Channel

\* Every variable keeps its type; in particular every position stays in the ring.
THEOREM TypeCorrect == Spec => []TypeOK
<1>1. TypeOK /\ WaveIsSent /\ [Next]_vars => TypeOK'
  <2> SUFFICES ASSUME TypeOK, WaveIsSent, [Next]_vars PROVE TypeOK'
    OBVIOUS
  <2>1. PlainTypes' /\ wave' \in Waves /\ RingTypes'
    BY PlainStep, WaveStep, RingTypeStep, StepOfRing
  <2>. QED BY <2>1 DEF TypeOK, PlainTypes, Waves, RingTypes
<1>. QED BY InitType, <1>1, WaveSent, PTL DEF Spec

-----------------------------------------------------------------------------
(* Teardown.                                                                 *)

\* The lock belongs to whoever is in a critical section; a callback needs a
\* running renderer, of which nothing is left where one is made or all is freed.
LockIsHeld ==
  /\ lock = "channel" <=> pc \in {"closing", "opening", "shutting", "writing"}
  /\ lock = "audio" <=> cb = "reading"

CallbackNeedsRenderer ==
  /\ cb # "out" => renderer = "running"
  /\ pc \in {"create", "freed"} => renderer = "none"

TeardownInv == PlainTypes /\ LockIsHeld /\ CallbackNeedsRenderer

LEMMA TeardownStep ==
  ASSUME TypeOK, TeardownInv, [Next]_vars
  PROVE  TeardownInv'
<1>0. PlainTypes'
  BY PlainStep
<1> SUFFICES LockIsHeld' /\ CallbackNeedsRenderer'
  BY <1>0 DEF TeardownInv
<1> USE DEF TeardownInv, PlainTypes, ChannelStates, LockIsHeld, CallbackNeedsRenderer,
        Goto, Acquire, Release, CallbackOut, playerVars, deviceVars
<1>1. CASE UNCHANGED vars
  BY <1>1 DEF vars
<1>2. CASE Server
  BY <1>2 DEF Server, RecvWave, RecvVolume, Disconnect
<1>3. CASE CloseStop
  BY <1>3 DEF CloseStop
<1>4. CASE ResetLock
  BY <1>4 DEF ResetLock
<1>5. CASE CloseReset
  BY <1>5 DEF CloseReset
<1>6. CASE DestroyRenderer \/ CreateRenderer \/ CreateFails
  BY <1>6 DEF DestroyRenderer, CreateRenderer, CreateFails
<1>7. CASE OpenDone
  BY <1>7 DEF OpenDone
<1>8. CASE Free \/ PlayStart \/ PlayNotOpen \/ DropWave
  BY <1>8 DEF Free, PlayStart, PlayNotOpen, DropWave
<1>9. CASE PlayLock \/ PlayWrite
  BY <1>9 DEF PlayLock, PlayWrite
<1>10. CASE CallbackBegins \/ CallbackEnds
  BY <1>10 DEF CallbackBegins, CallbackEnds, CallbackLock, CallbackRead
<1>. QED BY <1>1, <1>2, <1>3, <1>4, <1>5, <1>6, <1>7, <1>8, <1>9, <1>10 DEF Next, Channel

LEMMA Teardown == Spec => []TeardownInv
<1>1. Init => TeardownInv
  <2> SUFFICES ASSUME Init PROVE TeardownInv
    OBVIOUS
  <2>1. PlainTypes
    BY InitType, TypeParts
  <2>2. LockIsHeld /\ CallbackNeedsRenderer
    BY DEF Init, LockIsHeld, CallbackNeedsRenderer
  <2>. QED BY <2>1, <2>2 DEF TeardownInv
<1>2. TypeOK /\ TeardownInv /\ [Next]_vars => TeardownInv'
  BY TeardownStep
<1>. QED BY <1>1, <1>2, TypeCorrect, PTL DEF Spec

\* Once rdpsnd_ohos_free has given back the ring and its lock, no callback is in
\* one or can begin one, whatever Stop and Start did before it.
THEOREM TeardownSafe == Spec => []CallbackSafe
<1>1. TeardownInv => CallbackSafe
  BY DEF TeardownInv, PlainTypes, LockIsHeld, CallbackNeedsRenderer, CallbackSafe
<1>. QED BY <1>1, Teardown, PTL

\* The channel waits for the lock, or in Stop or Release for the callback in
\* flight; the callback waits for the lock.
ChannelWaits ==
  \/ pc \in {"closeReset", "openReset", "shutReset", "write"} /\ lock = "audio"
  \/ pc \in {"closeStop", "shutStop"} /\ renderer # "none" /\ started /\ ~CallbackOut
  \/ pc \in {"destroy", "free"} /\ ~CallbackOut

CallbackWaits == cb = "called" /\ lock = "channel"

\* The safety half of OperationsEnd: the two threads never wait for each other.
\* Stop and Release, which wait for a callback, are called without the lock that
\* a callback may be waiting for; and a callback that has the lock gives it back.
THEOREM NoDeadlock == Spec => []~(ChannelWaits /\ CallbackWaits)
<1>1. TeardownInv => ~(ChannelWaits /\ CallbackWaits)
  BY DEF TeardownInv, LockIsHeld, ChannelWaits, CallbackWaits
<1>. QED BY <1>1, Teardown, PTL

-----------------------------------------------------------------------------
(* Volume.                                                                   *)

\* The renderer plays at the cached volume unless the audio service refused that;
\* the cached volume is the one asked for unless that waits to be applied; it does
\* not wait once the device is open, and only a device that is open, or about to
\* be, has a renderer.
VolumeInv ==
  /\ applyVolume \/ volume = asked
  /\ renderer # "none" => rendererVolume = volume \/ refused
  /\ isOpen => ~applyVolume
  /\ renderer # "none" => isOpen \/ pc \in {"openReset", "opening"}

LEMMA VolumeStep ==
  ASSUME TypeOK, VolumeInv, [Next]_vars
  PROVE  VolumeInv'
<1>0. applyVolume \in BOOLEAN /\ isOpen \in BOOLEAN
  BY DEF TypeOK
<1> USE DEF VolumeInv, Goto, playerVars, deviceVars
<1>1. CASE UNCHANGED vars
  BY <1>0, <1>1 DEF vars
<1>2. CASE Disconnect \/ \E f \in Formats, k \in WriteSizes : RecvWave(f, k)
  BY <1>0, <1>2 DEF RecvWave, Disconnect
<1>3. ASSUME NEW v \in Volumes, RecvVolume(v) PROVE VolumeInv'
  <2>1. CASE isOpen
    BY <1>0, <1>3, <2>1 DEF RecvVolume, ApplyVolume, SetVolume, RendererSetVolume
  <2>2. CASE ~isOpen
    BY <1>0, <1>3, <2>2 DEF RecvVolume, ApplyVolume
  <2>. QED BY <2>1, <2>2
<1>4. CASE CloseStop \/ ResetLock \/ CloseReset
  BY <1>0, <1>4 DEF CloseStop, ResetLock, CloseReset
<1>5. CASE DestroyRenderer \/ CreateRenderer \/ CreateFails
  BY <1>0, <1>5 DEF DestroyRenderer, CreateRenderer, RendererSetVolume, CreateFails
<1>6. CASE OpenDone
  <2>1. CASE applyVolume
    BY <1>0, <1>6, <2>1 DEF OpenDone, ApplyVolume, SetVolume, RendererSetVolume
  <2>2. CASE ~applyVolume
    BY <1>0, <1>6, <2>2 DEF OpenDone, ApplyVolume
  <2>. QED BY <2>1, <2>2
<1>7. CASE Free \/ PlayStart \/ PlayNotOpen \/ DropWave \/ PlayLock \/ PlayWrite
  BY <1>0, <1>7 DEF Free, PlayStart, PlayNotOpen, DropWave, PlayLock, PlayWrite
<1>8. CASE CallbackBegins \/ CallbackEnds
  BY <1>0, <1>8 DEF CallbackBegins, CallbackEnds, CallbackLock, CallbackRead
<1>. QED BY <1>1, <1>2, <1>3, <1>4, <1>5, <1>6, <1>7, <1>8 DEF Next, Server, Channel

\* The volume kept for a renderer is the one asked for last, whether that came
\* before the device was open, while it was, or before another format replaced the
\* renderer; the renderer plays at it unless the audio service refused it.
THEOREM VolumeAlwaysFollows == Spec => []VolumeFollows
<1>1. Init => VolumeInv
  BY DEF Init, VolumeInv
<1>2. TypeOK /\ VolumeInv /\ [Next]_vars => VolumeInv'
  BY VolumeStep
<1>3. VolumeInv => VolumeFollows
  BY DEF VolumeInv, VolumeFollows
<1>. QED BY <1>1, <1>2, <1>3, TypeCorrect, PTL DEF Spec

-----------------------------------------------------------------------------
(* The ring's contents.                                                      *)

\* The ring holds the bytes received last, in order and without a gap.
RingIsNewest ==
  /\ head = (tail + used) % Capacity
  /\ \A x \in 1..used : ring[(tail + x - 1) % Capacity] = received - used + x

\* A step of the ring alone keeps it so.
LEMMA WriteNewest ==
  ASSUME TypeOK, RingIsNewest, NEW k \in Nat, RingWrite(k)
  PROVE  RingIsNewest'
<1>0. /\ Capacity \in Nat \ {0} /\ tail \in 0..Capacity - 1 /\ used \in 0..Capacity
      /\ received \in Nat /\ head = (tail + used) % Capacity
  BY SizeAssumption DEF TypeOK, RingIsNewest
<1> DEFINE size  == Smaller(k, Capacity)
           reset == k > Capacity
           need  == IF size > Capacity - used THEN size - (Capacity - used) ELSE 0
           from  == IF reset THEN 0 ELSE head
           at(i) == (i + Capacity - from) % Capacity
<1>1. /\ \A i \in 0..Capacity - 1 :
            ring'[i] = IF at(i) < size THEN received + (k - size) + at(i) + 1 ELSE ring[i]
      /\ head' = (from + size) % Capacity
      /\ tail' = IF reset THEN 0 ELSE (tail + need) % Capacity
      /\ used' = IF reset THEN size ELSE used - need + size
      /\ received' = received + k
  BY DEF RingWrite
<1>2. CASE reset
  <2>1. size = Capacity /\ from = 0 /\ tail' = 0 /\ used' = Capacity
    BY <1>0, <1>1, <1>2 DEF Smaller
  <2>2. head' = (tail' + used') % Capacity
    BY <1>1, <2>1
  <2>3. ASSUME NEW x \in 1..used'
        PROVE  ring'[(tail' + x - 1) % Capacity] = received' - used' + x
    <3>1. x - 1 \in 0..Capacity - 1 /\ tail' + x - 1 = x - 1
      BY <1>0, <2>1
    <3>2. (x - 1) % Capacity = x - 1
      <4>1. 0 <= x - 1 /\ x - 1 < 2 * Capacity /\ Wrap(x - 1) = x - 1
        BY <1>0, <3>1 DEF Wrap
      <4>. QED BY <3>1, <4>1, Wrapped
    <3>3. at(x - 1) = x - 1
      <4>1. /\ x - 1 + Capacity - from = x - 1 + Capacity /\ x - 1 + Capacity \in Int
            /\ 0 <= x - 1 + Capacity /\ x - 1 + Capacity < 2 * Capacity
            /\ Wrap(x - 1 + Capacity) = x - 1
        BY <1>0, <2>1, <3>1 DEF Wrap
      <4>. QED BY <4>1, Wrapped
    <3>4. ring'[x - 1] = received + (k - size) + (x - 1) + 1
      BY <1>0, <1>1, <2>1, <3>1, <3>3
    <3>5. received + (k - size) + (x - 1) + 1 = received' - used' + x
      BY <1>0, <1>1, <2>1
    <3>. QED BY <3>1, <3>2, <3>4, <3>5
  <2>. QED BY <2>2, <2>3 DEF RingIsNewest
<1>3. CASE ~reset
  <2>1. /\ size = k /\ from = head /\ tail' = (tail + need) % Capacity
        /\ used' = used - need + k /\ used' \in 0..Capacity
        /\ need \in 0..used /\ k \in 0..Capacity /\ used + k - need <= Capacity
    BY <1>0, <1>1, <1>3 DEF Smaller
  <2> HIDE DEF need, size
  <2>2. head' = (tail' + used') % Capacity
    <3>1. head' = (head + k) % Capacity
      BY <1>1, <2>1
    <3>2. (((tail + need) % Capacity) + used') % Capacity
             = (((tail + used) % Capacity) + k) % Capacity
      BY <1>0, <2>1, SameEnd
    <3>. QED BY <1>0, <2>1, <3>1, <3>2
  <2>3. ASSUME NEW x \in 1..used'
        PROVE  ring'[(tail' + x - 1) % Capacity] = received' - used' + x
    <3> DEFINE z == x - 1
               p == (tail' + z) % Capacity
    <3>1. /\ z \in 0..Capacity - 1 /\ need + z < used + Capacity
          /\ tail' + x - 1 = tail' + z
      BY <1>0, <2>1, Modulo
    <3> HIDE DEF z
    <3>2. /\ p \in 0..Capacity - 1
          /\ at(p) = IF need + z < used THEN need + z + Capacity - used ELSE need + z - used
      <4> DEFINE q == (((tail + need) % Capacity) + z) % Capacity
      <4>1. /\ q \in 0..Capacity - 1
            /\ (q + Capacity - ((tail + used) % Capacity)) % Capacity
                 = IF need + z < used THEN need + z + Capacity - used ELSE need + z - used
        <5>1. /\ tail \in 0..Capacity - 1 /\ used \in 0..Capacity /\ need \in 0..used
              /\ z \in 0..Capacity - 1 /\ need + z < used + Capacity
          BY <1>0, <2>1, <3>1
        <5>2. PlacedAt(tail, used, need, z)
          BY <5>1, Places
        <5>. QED BY <5>2 DEF PlacedAt
      <4>2. p = q
        BY <2>1
      <4> HIDE DEF p, q
      <4>. QED BY <1>0, <2>1, <4>1, <4>2
    <3>3. ring'[p] = IF at(p) < k THEN received + at(p) + 1 ELSE ring[p]
      <4>1. ring'[p] = IF at(p) < size THEN received + (k - size) + at(p) + 1 ELSE ring[p]
        BY <1>1, <3>2
      <4>2. received + (k - size) = received
        BY <1>0, <2>1
      <4>. QED BY <2>1, <4>1, <4>2
    <3> HIDE DEF at
    <3>4. CASE need + z < used
      <4>1. ~(at(p) < k)
        BY <1>0, <2>1, <3>1, <3>2, <3>4
      <4>2. need + x \in 1..used
        BY <1>0, <2>1, <3>1, <3>4 DEF z
      <4>3. ring[(tail + (need + x) - 1) % Capacity] = received - used + (need + x)
        BY <4>2 DEF RingIsNewest
      <4>4. p = (tail + (need + z)) % Capacity
        <5>1. need + z <= Capacity /\ z \in 0..Capacity /\ need \in 0..Capacity
          BY <1>0, <2>1, <3>1, <3>4
        <5>2. (((tail + need) % Capacity) + z) % Capacity = (tail + (need + z)) % Capacity
          BY <1>0, <5>1, Steps
        <5>. QED BY <2>1, <5>2
      <4>5. tail + (need + x) - 1 = tail + (need + z)
        BY <1>0, <2>1 DEF z
      <4>6. received - used + (need + x) = received' - used' + x
        BY <1>0, <1>1, <2>1
      <4>. QED BY <3>1, <3>3, <4>1, <4>3, <4>4, <4>5, <4>6
    <3>5. CASE ~(need + z < used)
      <4>1. at(p) < k
        BY <1>0, <2>1, <3>1, <3>2, <3>5 DEF z
      <4>2. received + at(p) + 1 = received' - used' + x
        BY <1>0, <1>1, <2>1, <3>1, <3>2, <3>5 DEF z
      <4>. QED BY <3>1, <3>3, <4>1, <4>2
    <3>. QED BY <3>4, <3>5
  <2>. QED BY <2>2, <2>3 DEF RingIsNewest
<1>. QED BY <1>2, <1>3

LEMMA ReadNewest ==
  ASSUME TypeOK, RingIsNewest, NEW n \in Nat, RingRead(n), UNCHANGED received
  PROVE  RingIsNewest'
<1>0. /\ Capacity \in Nat \ {0} /\ tail \in 0..Capacity - 1 /\ used \in 0..Capacity
      /\ received \in Nat
  BY SizeAssumption DEF TypeOK
<1> DEFINE size == Smaller(n, used)
<1>1. size \in 0..used
  BY <1>0 DEF Smaller
<1>2. /\ ring' = ring /\ head' = head /\ received' = received
      /\ tail' = (tail + size) % Capacity /\ used' = used - size
  BY DEF RingRead
<1> HIDE DEF size
<1>3. head' = (tail' + used') % Capacity
  <2>1. used' \in 0..Capacity /\ size + used' = used
    BY <1>0, <1>1, <1>2
  <2>2. (tail' + used') % Capacity = (tail + (size + used')) % Capacity
    <3>1. (((tail + size) % Capacity) + used') % Capacity = (tail + (size + used')) % Capacity
      <4>1. tail \in 0..Capacity - 1 /\ size \in 0..Capacity /\ used' \in 0..Capacity
              /\ size + used' <= Capacity
        BY <1>0, <1>1, <1>2
      <4>. QED BY <4>1, Steps
    <3>. QED BY <1>2, <3>1
  <2>. QED BY <1>2, <2>1, <2>2 DEF RingIsNewest
<1>4. ASSUME NEW x \in 1..used'
      PROVE  ring'[(tail' + x - 1) % Capacity] = received' - used' + x
  <2> DEFINE z == x - 1
  <2>1. /\ z \in 0..Capacity /\ size + z <= Capacity /\ size + x \in 1..used
        /\ tail' + x - 1 = tail' + z
        /\ tail + (size + x) - 1 = tail + (size + z)
    BY <1>0, <1>1, <1>2, Modulo
  <2> HIDE DEF z
  <2>2. (tail' + z) % Capacity = (tail + (size + z)) % Capacity
    <3>1. (((tail + size) % Capacity) + z) % Capacity = (tail + (size + z)) % Capacity
      <4>1. tail \in 0..Capacity - 1 /\ size \in 0..Capacity /\ z \in 0..Capacity
              /\ size + z <= Capacity
        BY <1>0, <1>1, <2>1
      <4>. QED BY <4>1, Steps
    <3>. QED BY <1>2, <3>1
  <2>3. ring[(tail + (size + x) - 1) % Capacity] = received - used + (size + x)
    BY <2>1 DEF RingIsNewest
  <2>4. received - used + (size + x) = received' - used' + x
    BY <1>0, <1>1, <1>2
  <2>. QED BY <1>2, <2>1, <2>2, <2>3, <2>4
<1>. QED BY <1>3, <1>4 DEF RingIsNewest

LEMMA NewestStep == TypeOK /\ RingIsNewest /\ RingStep => RingIsNewest'
<1> SUFFICES ASSUME TypeOK, RingIsNewest, RingStep PROVE RingIsNewest'
  OBVIOUS
<1>1. CASE RingReset /\ UNCHANGED <<received, firstByte, out>>
  <2>1. 0 + 0 = 0 /\ 0 % Capacity = 0
    BY SizeAssumption, Modulo
  <2>. QED BY <1>1, <2>1 DEF RingReset, RingIsNewest
<1>2. ASSUME NEW k \in WriteSizes, RingWrite(k) PROVE RingIsNewest'
  <2>1. k \in Nat
    BY SizeAssumption
  <2>. QED BY <1>2, <2>1, WriteNewest
<1>3. ASSUME NEW n \in ReadSizes, RingRead(n), UNCHANGED received PROVE RingIsNewest'
  <2>1. n \in Nat
    BY SizeAssumption
  <2>. QED BY <1>3, <2>1, ReadNewest
<1>4. CASE UNCHANGED <<ringVars, received, out>>
  BY <1>4 DEF ringVars, RingIsNewest
<1>. QED BY <1>1, <1>2, <1>3, <1>4 DEF RingStep

LEMMA Newest == Spec => []RingIsNewest
<1>1. Init => RingIsNewest
  <2>1. 0 + 0 = 0 /\ 0 % Capacity = 0
    BY SizeAssumption, Modulo
  <2>. QED BY <2>1 DEF Init, RingIsNewest
<1>2. TypeOK /\ WaveIsSent /\ RingIsNewest /\ [Next]_vars => RingIsNewest'
  BY NewestStep, StepOfRing
<1>. QED BY <1>1, <1>2, TypeCorrect, WaveSent, PTL DEF Spec

-----------------------------------------------------------------------------
(* Stale sound.                                                              *)

\* All of it has arrived for the present renderer: the ring is empty when one is
\* made.
RingIsOfRenderer ==
  /\ firstByte + used <= received + 1
  /\ pc \in {"destroy", "create"} => used = 0

LEMMA OfRendererStep ==
  ASSUME TypeOK, RingIsOfRenderer, [Next]_vars
  PROVE  RingIsOfRenderer'
<1> USE DEF RingIsOfRenderer, Goto, Acquire, Release, historyVars, ringVars
<1>0. used \in Nat /\ used <= Capacity /\ received \in Nat /\ firstByte \in Nat /\ Capacity \in Nat
  BY SizeAssumption DEF TypeOK
<1>1. CASE UNCHANGED vars
  BY <1>0, <1>1 DEF vars
<1>2. CASE Server
  BY <1>0, <1>2 DEF Server, RecvWave, RecvVolume, Disconnect
<1>3. CASE CloseStop \/ ResetLock
  BY <1>0, <1>3 DEF CloseStop, ResetLock
<1>4. CASE CloseReset \/ OpenDone
  <2>1. used' = 0 /\ received' = received /\ firstByte' = firstByte
    <3>1. CASE CloseReset
      BY <3>1 DEF CloseReset, RingReset
    <3>2. CASE OpenDone
      BY <3>2 DEF OpenDone, RingReset
    <3>. QED BY <1>4, <3>1, <3>2
  <2>. QED BY <1>0, <2>1
<1>5. CASE DestroyRenderer \/ CreateFails
  BY <1>0, <1>5 DEF DestroyRenderer, CreateFails
<1>6. CASE CreateRenderer
  <2>1. used = 0 /\ used' = 0 /\ received' = received /\ firstByte' = received + 1 /\ pc' = "openReset"
    BY <1>6 DEF CreateRenderer
  <2>. QED BY <1>0, <2>1
<1>7. CASE Free \/ PlayStart \/ PlayNotOpen \/ DropWave \/ PlayLock
  BY <1>0, <1>7 DEF Free, PlayStart, PlayNotOpen, DropWave, PlayLock
<1>8. CASE PlayWrite
  <2>1. wave.size \in Nat
    BY DEF TypeOK
  <2>2. /\ used' <= used + wave.size /\ used' <= Capacity /\ used' \in Int
        /\ received' = received + wave.size
    BY <1>0, <1>8, <2>1, SMTT(30) DEF PlayWrite, RingWrite, Smaller
  <2>. QED BY <1>0, <1>8, <2>1, <2>2 DEF PlayWrite
<1>9. CASE CallbackBegins \/ CallbackLock
  BY <1>0, <1>9 DEF CallbackBegins, CallbackLock
<1>10. ASSUME NEW n \in ReadSizes, CallbackRead(n) PROVE RingIsOfRenderer'
  BY <1>0, <1>10, SizeAssumption DEF CallbackRead, RingRead, Smaller
<1>. QED BY <1>1, <1>2, <1>3, <1>4, <1>5, <1>6, <1>7, <1>8, <1>9, <1>10
         DEF Next, Channel, CallbackEnds

LEMMA OfRenderer == Spec => []RingIsOfRenderer
<1>1. Init => RingIsOfRenderer
  BY DEF Init, RingIsOfRenderer
<1>2. TypeOK /\ RingIsOfRenderer /\ [Next]_vars => RingIsOfRenderer'
  BY OfRendererStep
<1>. QED BY <1>1, <1>2, TypeCorrect, PTL DEF Spec

\* What Contents are when the ring holds the newest bytes.
LEMMA ContentsAre ==
  ASSUME TypeOK, RingIsNewest
  PROVE  Contents = [i \in 1..used |-> received - used + i]
BY DEF RingIsNewest, Contents, TypeOK

\* A callback plays bytes that arrived for the present renderer, or silence:
\* never the end of a sound in the format of the one before.
THEOREM NothingStale == Spec => NoStaleAudio
<1>1. ASSUME TypeOK, RingIsNewest, RingIsOfRenderer, [Next]_vars, cb = "reading", cb' = "out"
      PROVE  \A i \in DOMAIN out' : out'[i] = Silence \/ out'[i] \in firstByte..received
  <2>0. used \in Nat /\ received \in Nat /\ firstByte \in Nat
    BY <1>1, SizeAssumption DEF TypeOK
  <2>1. PICK n \in ReadSizes : CallbackRead(n)
    BY <1>1 DEF Next, vars, Server, RecvWave, RecvVolume, Disconnect, Channel, CloseStop,
       ResetLock, CloseReset, DestroyRenderer, CreateRenderer, CreateFails, OpenDone, Free,
       PlayStart, PlayNotOpen, DropWave, PlayLock, PlayWrite, CallbackBegins, CallbackEnds,
       CallbackLock
  <2>2. n \in Nat
    BY SizeAssumption
  <2>3. out' = [i \in 1..n |-> IF i <= Smaller(n, used) THEN Contents[i] ELSE Silence]
    BY <2>1 DEF CallbackRead, RingRead
  <2>4. ASSUME NEW i \in 1..n PROVE out'[i] = Silence \/ out'[i] \in firstByte..received
    <3>1. CASE i <= Smaller(n, used)
      <4>1. i \in 1..used
        BY <2>0, <2>2, <3>1 DEF Smaller
      <4>2. out'[i] = received - used + i
        BY <1>1, <2>3, <3>1, <4>1, ContentsAre
      <4>. QED BY <1>1, <2>0, <4>1, <4>2 DEF RingIsOfRenderer
    <3>2. CASE ~(i <= Smaller(n, used))
      BY <2>3, <3>2
    <3>. QED BY <3>1, <3>2
  <2>. QED BY <2>3, <2>4
<1>2. TypeOK /\ RingIsNewest /\ RingIsOfRenderer /\ [Next]_vars =>
        [cb = "reading" /\ cb' = "out" =>
           \A i \in DOMAIN out' : out'[i] = Silence \/ out'[i] \in firstByte..received]_vars
  BY <1>1
<1>. QED BY <1>2, TypeCorrect, Newest, OfRenderer, PTL DEF Spec, NoStaleAudio

-----------------------------------------------------------------------------
(* Refinement of AudioFifo.                                                  *)

\* n bytes of the stream, from the one after a on.
Run(a, n) == [i \in 1..n |-> a + i]

LEMMA RunFacts ==
  ASSUME NEW a \in Int, NEW n \in Nat
  PROVE  /\ Run(a, n) \in Seq(Int) /\ Len(Run(a, n)) = n
         /\ \A i \in 1..n : Run(a, n)[i] = a + i
<1>1. Run(a, n) \in [1..n -> Int]
  BY DEF Run
<1>. QED BY <1>1 DEF Run

\* Runs that follow each other make one run, and part of a run is one.
LEMMA JoinRuns ==
  ASSUME NEW a \in Int, NEW n \in Nat, NEW k \in Nat
  PROVE  Run(a, n) \o Run(a + n, k) = Run(a, n + k)
<1> DEFINE s == Run(a, n)
           t == Run(a + n, k)
           u == Run(a, n + k)
<1>1. /\ s \in Seq(Int) /\ Len(s) = n /\ \A i \in 1..n : s[i] = a + i
      /\ t \in Seq(Int) /\ Len(t) = k /\ \A i \in 1..k : t[i] = a + n + i
      /\ u \in Seq(Int) /\ Len(u) = n + k /\ \A i \in 1..(n + k) : u[i] = a + i
  <2>1. a + n \in Int /\ n + k \in Nat
    OBVIOUS
  <2>. QED BY <2>1, RunFacts
<1> HIDE DEF s, t, u
<1>2. /\ s \o t \in Seq(Int) /\ Len(s \o t) = n + k
      /\ \A i \in 1..(n + k) : (s \o t)[i] = IF i <= n THEN s[i] ELSE t[i - n]
  BY <1>1, ConcatProperties, ZenonT(60)
<1>3. \A i \in 1..(n + k) : (s \o t)[i] = u[i]
  <2> TAKE i \in 1..(n + k)
  <2>1. CASE i <= n
    BY <1>1, <1>2, <2>1
  <2>2. CASE ~(i <= n)
    <3>1. i - n \in 1..k /\ a + n + (i - n) = a + i
      BY <2>2
    <3>. QED BY <1>1, <1>2, <2>2, <3>1, ZenonT(40)
  <2>. QED BY <2>1, <2>2
<1>4. s \o t = u
  BY <1>1, <1>2, <1>3, SeqEqual
<1>. QED BY <1>4 DEF s, t, u

LEMMA PartOfRun ==
  ASSUME NEW a \in Int, NEW n \in Nat, NEW m \in 0..n
  PROVE  SubSeq(Run(a, n), m + 1, n) = Run(a + m, n - m)
<1> DEFINE s == Run(a, n)
           t == Run(a + m, n - m)
<1>1. /\ s \in Seq(Int) /\ Len(s) = n /\ \A i \in 1..n : s[i] = a + i
      /\ t \in Seq(Int) /\ Len(t) = n - m /\ \A i \in 1..(n - m) : t[i] = a + m + i
  <2>1. a + m \in Int /\ n - m \in Nat
    OBVIOUS
  <2>. QED BY <2>1, RunFacts
<1> HIDE DEF s, t
<1>2. /\ SubSeq(s, m + 1, n) \in Seq(Int)
      /\ Len(SubSeq(s, m + 1, n)) = n - m
      /\ \A i \in 1..(n - m) : SubSeq(s, m + 1, n)[i] = s[m + i]
  <2>1. m + 1 \in Int /\ n \in Int /\ \A i \in (m + 1)..n : s[i] \in Int
    BY <1>1
  <2>2. /\ SubSeq(s, m + 1, n) \in Seq(Int)
        /\ Len(SubSeq(s, m + 1, n)) = IF m + 1 <= n THEN n - (m + 1) + 1 ELSE 0
        /\ \A i \in 1..(n - (m + 1) + 1) : SubSeq(s, m + 1, n)[i] = s[m + 1 + i - 1]
    BY <2>1, SubSeqProperties
  <2>3. n - (m + 1) + 1 = n - m /\ \A i \in 1..(n - m) : m + 1 + i - 1 = m + i
    OBVIOUS
  <2>. QED BY <2>2, <2>3
<1>3. \A i \in 1..(n - m) : SubSeq(s, m + 1, n)[i] = t[i]
  <2> TAKE i \in 1..(n - m)
  <2>1. m + i \in 1..n /\ a + (m + i) = a + m + i
    OBVIOUS
  <2>. QED BY <1>1, <1>2, <2>1
<1>4. SubSeq(s, m + 1, n) = t
  BY <1>1, <1>2, <1>3, SeqEqual
<1>. QED BY <1>4 DEF s, t

\* The ring's contents are the run of the bytes received last.
LEMMA ContentsRun ==
  ASSUME TypeOK, RingIsNewest
  PROVE  /\ Contents = Run(received - used, used)
         /\ Len(Contents) = used
         /\ used \in 0..Capacity /\ received \in Nat /\ Capacity \in Nat \ {0}
<1>1. used \in 0..Capacity /\ received \in Nat /\ Capacity \in Nat \ {0}
  BY SizeAssumption DEF TypeOK
<1>2. Contents = Run(received - used, used)
  BY ContentsAre DEF Run
<1>3. received - used \in Int /\ used \in Nat
  BY <1>1
<1>. QED BY <1>1, <1>2, <1>3, RunFacts

LEMMA EmptyRun == \A a \in Int : Run(a, 0) = <<>>
<1> TAKE a \in Int
<1>1. Run(a, 0) \in Seq(Int) /\ Len(Run(a, 0)) = 0
  BY RunFacts
<1>. QED BY <1>1, EmptySeq

LEMMA WriteIsWrite ==
  ASSUME TypeOK, RingIsNewest, TypeOK', RingIsNewest',
         NEW k \in WriteSizes, RingWrite(k), out' = out
  PROVE  Fifo!Write(k)
<1>0. k \in Nat
  BY SizeAssumption
<1>1. /\ Contents = Run(received - used, used)
      /\ used \in 0..Capacity /\ received \in Nat /\ Capacity \in Nat \ {0}
  BY ContentsRun
<1>2. Contents' = Run(received' - used', used')
  <2>1. Contents' = [i \in 1..used' |-> received' - used' + i]
    BY DEF RingIsNewest, Contents, TypeOK
  <2>. QED BY <2>1 DEF Run
<1>3. received' = received + k /\ used' = IF used + k <= Capacity THEN used + k ELSE Capacity
  BY <1>0, <1>1 DEF RingWrite, Smaller
<1>4. Fifo!Fresh(k) = Run(received, k)
  BY DEF Fifo!Fresh, Run
<1>5. Contents \o Fifo!Fresh(k) = Run(received - used, used + k)
  <2>1. received - used \in Int /\ used \in Nat /\ (received - used) + used = received
    BY <1>1
  <2>2. Run(received - used, used) \o Run((received - used) + used, k)
          = Run(received - used, used + k)
    BY <1>0, <2>1, JoinRuns
  <2>. QED BY <1>1, <1>4, <2>1, <2>2
<1>6. Len(Run(received - used, used + k)) = used + k
  <2>1. received - used \in Int /\ used + k \in Nat
    BY <1>0, <1>1
  <2>. QED BY <2>1, RunFacts
<1>7. Fifo!Newest(Run(received - used, used + k)) = Run(received' - used', used')
  <2>1. CASE used + k <= Capacity
    <3>1. received' - used' = received - used /\ used' = used + k
      BY <1>0, <1>1, <1>3, <2>1
    <3>. QED BY <1>6, <2>1, <3>1 DEF Fifo!Newest
  <2>2. CASE ~(used + k <= Capacity)
    <3> DEFINE m == used + k - Capacity
    <3>1. /\ m \in 0..(used + k) /\ used + k \in Nat /\ received - used \in Int
          /\ (received - used) + m = received' - used' /\ (used + k) - m = used'
      BY <1>0, <1>1, <1>3, <2>2
    <3>2. (used + k) - Capacity + 1 = m + 1
      BY <1>0, <1>1
    <3> HIDE DEF m
    <3>3. \A a \in Int, l \in Nat : \A i \in 0..l :
             SubSeq(Run(a, l), i + 1, l) = Run(a + i, l - i)
      BY PartOfRun
    <3>4. SubSeq(Run(received - used, used + k), m + 1, used + k)
            = Run((received - used) + m, (used + k) - m)
      BY <3>1, <3>3
    <3>5. Fifo!Newest(Run(received - used, used + k))
            = SubSeq(Run(received - used, used + k), m + 1, used + k)
      <4> DEFINE s == Run(received - used, used + k)
      <4>1. Len(s) = used + k /\ ~(Len(s) <= Capacity)
        BY <1>6, <2>2
      <4> HIDE DEF s
      <4>2. Fifo!Newest(s) = SubSeq(s, Len(s) - Capacity + 1, Len(s))
        BY <4>1 DEF Fifo!Newest
      <4>3. Len(s) - Capacity + 1 = m + 1
        BY <3>2, <4>1
      <4>4. Fifo!Newest(s) = SubSeq(s, m + 1, used + k)
        BY <4>1, <4>2, <4>3
      <4>. QED BY <4>4 DEF s
    <3>6. Run((received - used) + m, (used + k) - m) = Run(received' - used', used')
      BY <3>1
    <3>. QED BY <3>4, <3>5, <3>6
  <2>. QED BY <2>1, <2>2
<1>. QED BY <1>2, <1>3, <1>5, <1>7 DEF Fifo!Write

LEMMA ReadIsRead ==
  ASSUME TypeOK, RingIsNewest, TypeOK', RingIsNewest',
         NEW n \in ReadSizes, RingRead(n), received' = received
  PROVE  Fifo!Read(n)
<1>0. n \in Nat
  BY SizeAssumption
<1>1. /\ Contents = Run(received - used, used) /\ Len(Contents) = used
      /\ used \in 0..Capacity /\ received \in Nat /\ Capacity \in Nat \ {0}
  BY ContentsRun
<1>2. Contents' = Run(received' - used', used')
  <2>1. Contents' = [i \in 1..used' |-> received' - used' + i]
    BY DEF RingIsNewest, Contents, TypeOK
  <2>. QED BY <2>1 DEF Run
<1>3. out' = [i \in 1..n |-> IF i <= Len(Contents) THEN Contents[i] ELSE Fifo!Silence]
  <2>1. \A i \in 1..n : i <= Smaller(n, used) <=> i <= used
    BY <1>0, <1>1 DEF Smaller
  <2>2. out' = [i \in 1..n |-> IF i <= Smaller(n, used) THEN Contents[i] ELSE Silence]
    BY DEF RingRead
  <2>3. out' = [i \in 1..n |-> IF i <= used THEN Contents[i] ELSE Silence]
    BY <2>1, <2>2
  <2>. QED BY <1>1, <2>3 DEF Silence, Fifo!Silence
<1>4. CASE n >= used
  <2>1. used' = 0 /\ received' - used' \in Int
    BY <1>0, <1>1, <1>4 DEF RingRead, Smaller
  <2>2. Contents' = <<>>
    BY <1>2, <2>1, EmptyRun
  <2>. QED BY <1>1, <1>3, <1>4, <2>2 DEF Fifo!Read
<1>5. CASE ~(n >= used)
  <2>1. /\ used' = used - n /\ n \in 0..used /\ used \in Nat /\ received - used \in Int
        /\ received' - used' = (received - used) + n
    BY <1>0, <1>1, <1>5 DEF RingRead, Smaller
  <2>2. SubSeq(Run(received - used, used), n + 1, used) = Run((received - used) + n, used - n)
    BY <2>1, PartOfRun
  <2>3. Contents' = SubSeq(Contents, n + 1, Len(Contents))
    BY <1>1, <1>2, <2>1, <2>2
  <2>. QED BY <1>1, <1>3, <1>5, <2>3 DEF Fifo!Read
<1>. QED BY <1>4, <1>5

LEMMA StepIsFifoStep ==
  ASSUME TypeOK, RingIsNewest, TypeOK', RingIsNewest', RingStep
  PROVE  [Fifo!FifoNext]_(Fifo!fifoVars)
<1> USE DEF Fifo!FifoNext, Fifo!fifoVars
<1>1. CASE RingReset /\ UNCHANGED <<received, firstByte, out>>
  <2>1. used' = 0 /\ received' \in Int
    BY <1>1 DEF RingReset, TypeOK
  <2>2. Contents' = <<>>
    BY <2>1 DEF Contents
  <2>. QED BY <1>1, <2>2 DEF Fifo!Clear
<1>2. ASSUME NEW k \in WriteSizes, RingWrite(k), UNCHANGED <<firstByte, out>>
      PROVE  Fifo!FifoNext
  BY <1>2, WriteIsWrite
<1>3. ASSUME NEW n \in ReadSizes, RingRead(n), UNCHANGED <<received, firstByte>>
      PROVE  Fifo!FifoNext
  BY <1>3, ReadIsRead
<1>4. CASE UNCHANGED <<ringVars, received, out>>
  BY <1>4 DEF ringVars, Contents
<1>. QED BY <1>1, <1>2, <1>3, <1>4 DEF RingStep

\* Whatever the two threads do, the ring is the drop-oldest FIFO that AudioFifo
\* describes, for any capacity: what was not yet played is the newest of what was
\* received, and a callback gets its oldest bytes and silence for the rest.
THEOREM RingIsFifo == Spec => FifoSafety
<1>1. Init => Fifo!FifoInit
  <2> SUFFICES ASSUME Init PROVE Fifo!FifoInit
    OBVIOUS
  <2>1. used = 0 /\ received = 0 /\ out = <<>>
    BY DEF Init
  <2>2. Contents = <<>>
    BY <2>1 DEF Contents
  <2>. QED BY <2>1, <2>2 DEF Fifo!FifoInit
<1>2. TypeOK /\ RingIsNewest /\ WaveIsSent /\ TypeOK' /\ RingIsNewest' /\ [Next]_vars
        => [Fifo!FifoNext]_(Fifo!fifoVars)
  BY StepIsFifoStep, StepOfRing
<1>. QED BY <1>1, <1>2, TypeCorrect, Newest, WaveSent, PTL
         DEF Spec, FifoSafety, Fifo!FifoSpec
=============================================================================
