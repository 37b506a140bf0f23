----------------------------- MODULE MCSession -----------------------------
(* Small instances of Session: two instances in all, pages opened and closed *)
(* in turn, the network coming and going freely.                             *)
EXTENDS Session
=============================================================================
