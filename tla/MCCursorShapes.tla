-------------------------- MODULE MCCursorShapes --------------------------
(* Two pointers, whose bitmaps may be missing; two sessions, the second at    *)
(* the address of the first or not, one after the other or overlapping.       *)
EXTENDS CursorShapes
=============================================================================
