----------------------------- MODULE MCRenderer -----------------------------
(* Three instances: one being freed, one torn down, one connecting.          *)
EXTENDS Renderer
=============================================================================
