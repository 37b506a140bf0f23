---------------------------- MODULE MCAudioRing ----------------------------
(* Small instances of AudioRing: a ring of a few bytes, chunks smaller than, *)
(* as large as and larger than the ring.                                     *)
EXTENDS AudioRing
=============================================================================
