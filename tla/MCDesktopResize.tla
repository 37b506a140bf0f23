-------------------------- MODULE MCDesktopResize --------------------------
(* One landscape and two portrait sizes, and the code's three attempts; two  *)
(* rotations, and a few changes of the session and the channel.              *)
EXTENDS DesktopResize
=============================================================================
