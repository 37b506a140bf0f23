----------------------------- MODULE AudioFifo -----------------------------
(***************************************************************************)
(* What the audio backend promises: a stream of PCM bytes, numbered in the *)
(* order the server sent them, passes through a buffer of bounded size.    *)
(* When it is full the oldest bytes give way; the reader always gets as    *)
(* much as it asked for, the pending bytes first and silence after them.   *)
(***************************************************************************)
EXTENDS Integers, Sequences

CONSTANTS
  Capacity,                 \* bytes the buffer holds at most
  WriteSizes,               \* sizes of the chunks the server sends
  ReadSizes                 \* sizes of the buffers the reader asks for

VARIABLES
  pending,                  \* bytes waiting to be played, oldest first
  received,                 \* bytes received so far; the last is number received
  out                       \* what the last read returned

fifoVars == <<pending, received, out>>

Silence == 0

\* The newest bytes of s that fit.
Newest(s) ==
  IF Len(s) <= Capacity THEN s ELSE SubSeq(s, Len(s) - Capacity + 1, Len(s))

\* The bytes that k more bytes of the stream consist of.
Fresh(k) == [i \in 1..k |-> received + i]

FifoInit ==
  /\ pending = <<>>
  /\ received = 0
  /\ out = <<>>

Write(k) ==
  /\ pending' = Newest(pending \o Fresh(k))
  /\ received' = received + k
  /\ UNCHANGED out

Read(n) ==
  /\ out' = [i \in 1..n |-> IF i <= Len(pending) THEN pending[i] ELSE Silence]
  /\ pending' = IF n >= Len(pending) THEN <<>> ELSE SubSeq(pending, n + 1, Len(pending))
  /\ UNCHANGED received

\* The stream is closed or reopened: what is pending is forgotten.
Clear ==
  /\ pending' = <<>>
  /\ UNCHANGED <<received, out>>

FifoNext ==
  \/ \E k \in WriteSizes : Write(k)
  \/ \E n \in ReadSizes : Read(n)
  \/ Clear

FifoSpec == FifoInit /\ [][FifoNext]_fifoVars
=============================================================================
