---------------------------- MODULE MCEventQueue ----------------------------
(* Small instances of EventQueue: events are model values whose kinds are   *)
(* fixed here.                                                              *)
EXTENDS EventQueue

CONSTANTS k1, k2, k3, d1

\* Two inputs and a disconnect.
MCKindOf == [e \in Events |-> IF e = d1 THEN "disconnect" ELSE "input"]

\* Two inputs, a clipboard event and a disconnect.
MCKindOfAll == [e \in Events |-> CASE e = d1 -> "disconnect"
                                   [] e = k3 -> "clipboard"
                                   [] OTHER -> "input"]
=============================================================================
