--------------------------- MODULE MCTouchGesture ---------------------------
(* Two fingers on a line of four places; a tap may stray by one place, the   *)
(* wheel turns every two, and the delays are 1 < 2 < 3 < 4 ticks, in the      *)
(* order of 120 < 250 < 300 < 350 ms.                                        *)
EXTENDS TouchGesture

Places == 0..3
=============================================================================
