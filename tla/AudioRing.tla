----------------------------- MODULE AudioRing -----------------------------
(***************************************************************************)
(* The OHAudio sound backend (channels/rdpsnd/client/ohos/rdpsnd_ohos.c)   *)
(* under the rdpsnd channel that drives it (rdpsnd_main.c).  The channel   *)
(* runs on the session's worker thread (harmonyos_pre_connect makes the    *)
(* channels synchronous); the audio service calls rdpsnd_ohos_write_cb     *)
(* from a thread of its own while the renderer runs.  They share the ring  *)
(* buffer under a critical section; the renderer belongs to the channel.   *)
(* Bytes are numbered in the order the server sends them.                  *)
(***************************************************************************)
EXTENDS Integers, Sequences

CONSTANTS
  Capacity,            \* RDPSND_OHOS_RING_CAPACITY
  WriteSizes,          \* sizes of the wave PDUs' payloads
  ReadSizes,           \* audioDataSize of the callbacks
  Formats,             \* format numbers negotiated with the server
  NoFormat,            \* "no format yet"
  Volumes,             \* volumes the server may set
  FullVolume,          \* volume 0xFFFFFFFF, and the volume of a new renderer
  MaxBytes,            \* bound: bytes the server sends in all
  MaxOpens             \* bound: renderers created in all

ASSUME SizeAssumption ==
  /\ Capacity \in Nat \ {0}
  /\ WriteSizes \subseteq Nat \ {0}
  /\ ReadSizes \subseteq Nat \ {0}

ASSUME BoundAssumption == MaxBytes \in Nat /\ MaxOpens \in Nat

ASSUME VolumeAssumption == FullVolume \in Volumes

Silence == 0


VARIABLES
  ring,                \* ohos->ring
  head, tail, used,    \* ringHead, ringTail, ringUsed
  renderer,            \* the OHAudio renderer: none, stopped or running
  rendererVolume,      \* the volume the renderer plays at
  refused,             \* history: the audio service refused the last volume set on it
  started,             \* ohos->started
  volume,              \* ohos->volume
  isOpen,              \* rdpsnd->isOpen
  format,              \* rdpsnd->wCurrentFormatNo
  asked,               \* rdpsnd->volume, full until the server asks
  applyVolume,         \* rdpsnd->applyVolume
  pc,                  \* where the channel thread is
  wave,                \* the wave PDU it is handling: format and size
  lock,                \* owner of ohos->lock
  cb,                  \* where the audio service's callback is
  received,            \* history: bytes handed to the ring so far
  opens,               \* history: renderers created
  firstByte,           \* history: first byte received for the present renderer
  out                  \* history: the buffer the last callback filled

ringVars    == <<ring, head, tail, used>>
playerVars  == <<renderer, rendererVolume, refused, started, volume>>
deviceVars  == <<isOpen, format, asked, applyVolume>>
historyVars == <<received, opens, firstByte, out>>
vars == <<ringVars, playerVars, deviceVars, pc, wave, lock, cb, historyVars>>

ChannelStates == {"idle", "closeStop", "closeReset", "closing", "destroy", "create",
                  "openReset", "opening", "play", "write", "writing",
                  "shutStop", "shutReset", "shutting", "free", "freed"}

TypeOK ==
  /\ ring \in [0..Capacity - 1 -> Nat]
  /\ head \in 0..Capacity - 1
  /\ tail \in 0..Capacity - 1
  /\ used \in 0..Capacity
  /\ renderer \in {"none", "stopped", "running"}
  /\ rendererVolume \in Volumes
  /\ refused \in BOOLEAN
  /\ started \in BOOLEAN
  /\ volume \in Volumes
  /\ isOpen \in BOOLEAN
  /\ format \in Formats \cup {NoFormat}
  /\ asked \in Volumes
  /\ applyVolume \in BOOLEAN
  /\ pc \in ChannelStates
  /\ wave \in [format : Formats \cup {NoFormat}, size : Nat]
  /\ lock \in {"nobody", "channel", "audio"}
  /\ cb \in {"out", "called", "reading"}
  /\ received \in Nat
  /\ opens \in Nat
  /\ firstByte \in Nat
  /\ out \in Seq(Nat)

NoWave == [format |-> NoFormat, size |-> 0]

\* The subsystem entry has allocated the plugin and its ring.
Init ==
  /\ ring = [i \in 0..Capacity - 1 |-> 0]
  /\ head = 0 /\ tail = 0 /\ used = 0
  /\ renderer = "none" /\ rendererVolume = FullVolume /\ refused = FALSE
  /\ started = FALSE /\ volume = FullVolume
  /\ isOpen = FALSE /\ format = NoFormat
  /\ asked = FullVolume /\ applyVolume = FALSE
  /\ pc = "idle" /\ wave = NoWave
  /\ lock = "nobody" /\ cb = "out"
  /\ received = 0 /\ opens = 0 /\ firstByte = 1 /\ out = <<>>

-----------------------------------------------------------------------------
(* The ring buffer: rdpsnd_ohos_ring_reset, _write and _read.              *)

Smaller(a, b) == IF a < b THEN a ELSE b

\* The bytes in the ring, oldest first.
Contents == [i \in 1..used |-> ring[(tail + i - 1) % Capacity]]

\* Mutants, here and below: what a plausible bug would make of the definition
\* that follows.  No specification uses them.
MutantResetKeepsUsed ==
  /\ head' = 0
  /\ tail' = 0
  /\ UNCHANGED <<ring, used>>

RingReset ==
  /\ head' = 0
  /\ tail' = 0
  /\ used' = 0
  /\ UNCHANGED <<ring>>

MutantWriteOverfills(k) ==
  LET size == Smaller(k, Capacity)
  IN /\ head' = (head + size) % Capacity
     /\ used' = used + size
     /\ received' = received + k
     /\ UNCHANGED <<ring, tail>>

\* A chunk larger than the ring keeps its newest part and empties the ring first;
\* a chunk that does not fit drops the oldest bytes.  The memcpy loop puts byte j
\* of what is kept j places after the head.
RingWrite(k) ==
  LET size  == Smaller(k, Capacity)
      reset == k > Capacity
      need  == IF size > Capacity - used THEN size - (Capacity - used) ELSE 0
      from  == IF reset THEN 0 ELSE head
  IN /\ ring' = [i \in 0..Capacity - 1 |->
                   LET j == (i + Capacity - from) % Capacity
                   IN IF j < size THEN received + (k - size) + j + 1 ELSE ring[i]]
     /\ head' = (from + size) % Capacity
     /\ tail' = IF reset THEN 0 ELSE (tail + need) % Capacity
     /\ used' = IF reset THEN size ELSE used - need + size
     /\ received' = received + k

MutantReadSkipsAhead(n) ==
  LET size == Smaller(n, used)
  IN /\ out' = [i \in 1..n |-> IF i <= size THEN Contents[i] ELSE Silence]
     /\ tail' = (tail + n) % Capacity
     /\ used' = used - size
     /\ UNCHANGED <<ring, head>>

\* The pending bytes first, silence for the rest.
RingRead(n) ==
  LET size == Smaller(n, used)
  IN /\ out' = [i \in 1..n |-> IF i <= size THEN Contents[i] ELSE Silence]
     /\ tail' = (tail + size) % Capacity
     /\ used' = used - size
     /\ UNCHANGED <<ring, head>>

-----------------------------------------------------------------------------
(* The critical section, and the channel thread's program counter.         *)

Goto(from, to) == pc = from /\ pc' = to

Acquire(t) == lock \in {"nobody", t} /\ lock' = t

Release(t) == lock = t /\ lock' = "nobody"

\* OHAudio's Stop and Release return once no callback is in flight.
CallbackOut == cb = "out"

-----------------------------------------------------------------------------
(* rdpsnd_main.c on the channel thread.                                    *)

\* A wave PDU: the device is closed and opened again when it is not open in that
\* format (rdpsnd_ensure_device_is_open); then the wave is played.
RecvWave(f, k) ==
  /\ pc = "idle"
  /\ received + k <= MaxBytes
  /\ wave' = [format |-> f, size |-> k]
  /\ IF isOpen /\ f = format
     THEN pc' = "play"
     ELSE opens < MaxOpens /\ pc' = "closeStop"
  /\ UNCHANGED <<ringVars, playerVars, deviceVars, lock, cb, historyVars>>

\* OH_AudioRenderer_SetVolume on a renderer that plays at w: a failure is only
\* logged, by both callers.
RendererSetVolume(v, w) ==
  \/ rendererVolume' = v /\ refused' = FALSE
  \/ rendererVolume' = w /\ refused' = TRUE

\* rdpsnd_ohos_set_volume: cached, and set on the renderer if there is one.
SetVolume(v) ==
  /\ volume' = v
  /\ \/ renderer # "none" /\ RendererSetVolume(v, rendererVolume)
     \/ renderer = "none" /\ UNCHANGED <<rendererVolume, refused>>

\* rdpsnd_apply_volume with the flag and the value it is to apply.
ApplyVolume(opened, flag, v) ==
  IF opened /\ flag
  THEN SetVolume(v) /\ applyVolume' = FALSE
  ELSE UNCHANGED <<volume, rendererVolume, refused>> /\ applyVolume' = flag

\* A volume PDU.
RecvVolume(v) ==
  /\ pc = "idle"
  /\ asked' = v
  /\ ApplyVolume(isOpen, TRUE, v)
  /\ UNCHANGED <<ringVars, renderer, started, isOpen, format, pc, wave, lock, cb, historyVars>>

\* The channel goes down: Close, then Free.
Disconnect ==
  /\ Goto("idle", "shutStop")
  /\ UNCHANGED <<ringVars, playerVars, deviceVars, wave, lock, cb, historyVars>>

-----------------------------------------------------------------------------
(* rdpsnd_ohos_close, _open and _free on the channel thread.               *)

\* Stop the renderer; a Stop that fails leaves it running and started set.
CloseStop ==
  /\ \/ Goto("closeStop", "closeReset") \/ Goto("shutStop", "shutReset")
  /\ IF renderer # "none" /\ started
     THEN /\ CallbackOut
          /\ \/ renderer' = "stopped" /\ started' = FALSE
             \/ UNCHANGED <<renderer, started>>
     ELSE UNCHANGED <<renderer, started>>
  /\ UNCHANGED <<ringVars, rendererVolume, refused, volume, deviceVars, wave, lock, cb, historyVars>>

ResetLock ==
  /\ \/ Goto("closeReset", "closing")
     \/ Goto("openReset", "opening")
     \/ Goto("shutReset", "shutting")
  /\ Acquire("channel")
  /\ UNCHANGED <<ringVars, playerVars, deviceVars, wave, cb, historyVars>>

\* The end of close, followed by the Open (or Free) that called for it.
CloseReset ==
  /\ Goto("closing", "destroy") \/ Goto("shutting", "free")
  /\ RingReset
  /\ Release("channel")
  /\ UNCHANGED <<playerVars, deviceVars, wave, cb, historyVars>>

\* rdpsnd_ohos_destroy_renderer: Stop, Release, forget the renderer.
DestroyRenderer ==
  /\ Goto("destroy", "create")
  /\ CallbackOut
  /\ renderer' = "none"
  /\ started' = FALSE
  /\ UNCHANGED <<ringVars, rendererVolume, refused, volume, deviceVars, wave, lock, cb, historyVars>>

MutantVolumeNotReplayed ==
  /\ Goto("create", "openReset")
  /\ renderer' = "stopped"
  /\ rendererVolume' = FullVolume /\ refused' = FALSE
  /\ opens' = opens + 1
  /\ firstByte' = received + 1
  /\ UNCHANGED <<ringVars, started, volume, deviceVars, wave, lock, cb, received, out>>

\* Build the stream and replay the cached volume, unless none was ever set.
CreateRenderer ==
  /\ Goto("create", "openReset")
  /\ renderer' = "stopped"
  /\ \/ volume # FullVolume /\ RendererSetVolume(volume, FullVolume)
     \/ volume = FullVolume /\ rendererVolume' = FullVolume /\ refused' = FALSE
  /\ opens' = opens + 1
  /\ firstByte' = received + 1
  /\ UNCHANGED <<ringVars, started, volume, deviceVars, wave, lock, cb, received, out>>

\* Builder or renderer could not be made and what there is of them is destroyed:
\* the wave is lost.  isOpen keeps the value it had.  The channel reports an error
\* that ends the session, but waves may still arrive before it does.
CreateFails ==
  /\ Goto("create", "idle")
  /\ wave' = NoWave
  /\ UNCHANGED <<ringVars, playerVars, deviceVars, lock, cb, historyVars>>

\* The end of open; the device counts as open and gets a volume that waited.
OpenDone ==
  /\ Goto("opening", "play")
  /\ RingReset
  /\ Release("channel")
  /\ isOpen' = TRUE
  /\ format' = wave.format
  /\ ApplyVolume(TRUE, applyVolume, asked)
  /\ UNCHANGED <<renderer, started, asked, wave, cb, historyVars>>

MutantFreeKeepsRenderer ==
  /\ Goto("free", "freed")
  /\ UNCHANGED <<ringVars, playerVars, deviceVars, wave, lock, cb, historyVars>>

\* rdpsnd_ohos_free: destroy the renderer, then the lock and the ring.
Free ==
  /\ Goto("free", "freed")
  /\ CallbackOut
  /\ renderer' = "none"
  /\ started' = FALSE
  /\ UNCHANGED <<ringVars, rendererVolume, refused, volume, deviceVars, wave, lock, cb, historyVars>>

-----------------------------------------------------------------------------
(* rdpsnd_ohos_play on the channel thread.                                 *)

\* The deferred start, on the first data; a Start that fails is tried again at
\* the next wave.
PlayStart ==
  /\ Goto("play", "write")
  /\ renderer # "none"
  /\ IF ~started
     THEN \/ renderer' = "running" /\ started' = TRUE
          \/ UNCHANGED <<renderer, started>>
     ELSE UNCHANGED <<renderer, started>>
  /\ UNCHANGED <<ringVars, rendererVolume, refused, volume, deviceVars, wave, lock, cb, historyVars>>

\* rdpsnd_treat_wave drops the wave when the playback lags behind.
DropWave ==
  /\ Goto("play", "idle")
  /\ wave' = NoWave
  /\ UNCHANGED <<ringVars, playerVars, deviceVars, lock, cb, historyVars>>

\* Play before open: the wave is dropped.
PlayNotOpen ==
  /\ Goto("play", "idle")
  /\ renderer = "none"
  /\ wave' = NoWave
  /\ UNCHANGED <<ringVars, playerVars, deviceVars, lock, cb, historyVars>>

PlayLock ==
  /\ Goto("write", "writing")
  /\ Acquire("channel")
  /\ UNCHANGED <<ringVars, playerVars, deviceVars, wave, cb, historyVars>>

MutantPlayKeepsLock ==
  /\ Goto("writing", "idle")
  /\ RingWrite(wave.size)
  /\ lock = "channel"
  /\ wave' = NoWave
  /\ UNCHANGED <<playerVars, deviceVars, lock, cb, opens, firstByte, out>>

PlayWrite ==
  /\ Goto("writing", "idle")
  /\ RingWrite(wave.size)
  /\ Release("channel")
  /\ wave' = NoWave
  /\ UNCHANGED <<playerVars, deviceVars, cb, opens, firstByte, out>>

-----------------------------------------------------------------------------
(* rdpsnd_ohos_write_cb on the audio service's thread.                     *)

CallbackBegins ==
  /\ renderer = "running"
  /\ cb = "out"
  /\ cb' = "called"
  /\ UNCHANGED <<ringVars, playerVars, deviceVars, pc, wave, lock, historyVars>>

CallbackLock ==
  /\ cb = "called"
  /\ Acquire("audio")
  /\ cb' = "reading"
  /\ UNCHANGED <<ringVars, playerVars, deviceVars, pc, wave, historyVars>>

CallbackRead(n) ==
  /\ cb = "reading"
  /\ RingRead(n)
  /\ Release("audio")
  /\ cb' = "out"
  /\ UNCHANGED <<playerVars, deviceVars, pc, wave, received, opens, firstByte>>

-----------------------------------------------------------------------------
Server == \/ \E f \in Formats, k \in WriteSizes : RecvWave(f, k)
          \/ \E v \in Volumes : RecvVolume(v)
          \/ Disconnect

Channel == \/ CloseStop \/ ResetLock \/ CloseReset
           \/ DestroyRenderer \/ CreateRenderer \/ CreateFails \/ OpenDone \/ Free
           \/ PlayStart \/ DropWave \/ PlayNotOpen \/ PlayLock \/ PlayWrite

CallbackEnds == CallbackLock \/ \E n \in ReadSizes : CallbackRead(n)

Next == Server \/ Channel \/ CallbackBegins \/ CallbackEnds

Spec == Init /\ [][Next]_vars

\* Both threads run, and one that waits for the lock, or for a callback to return,
\* gets its turn: a callback lasts microseconds of a period of milliseconds, so the
\* lock is free almost always.  The server and the audio service owe nothing.
Fairness == SF_vars(Channel) /\ SF_vars(CallbackEnds)

FairSpec == Spec /\ Fairness

-----------------------------------------------------------------------------
(* Properties                                                              *)

\* A callback never plays sound that arrived for an earlier renderer (an earlier
\* format), nor sound that was not received: close and open both empty the ring.
NoStaleAudio ==
  [][cb = "reading" /\ cb' = "out" =>
       \A i \in DOMAIN out' : out'[i] = Silence \/ out'[i] \in firstByte..received]_vars

\* Once a renderer is in use, the volume kept for the next one is the one that the
\* server asked for last, also when it asked before the device was open or before
\* a format change replaced the renderer; and the renderer plays at it, unless the
\* audio service refused just that volume: the call is logged and not repeated.
VolumeFollows ==
  renderer # "none" /\ pc \in {"idle", "play", "write", "writing"} =>
    /\ volume = asked
    /\ rendererVolume = asked \/ refused

\* No callback is running, and none can start, once the ring and its lock are freed.
CallbackSafe ==
  pc = "freed" => cb = "out" /\ renderer = "none" /\ lock = "nobody"

\* The two threads never wait for each other for good: every channel operation
\* and every callback ends, although Stop and Release wait for the callback and
\* the callback waits for the lock.
OperationsEnd ==
  /\ pc \notin {"idle", "freed"} ~> pc \in {"idle", "freed"}
  /\ cb # "out" ~> cb = "out"

\* Ring, lock and threads implement the drop-oldest FIFO.
Fifo == INSTANCE AudioFifo WITH pending <- Contents

FifoSafety == Fifo!FifoSpec
=============================================================================
