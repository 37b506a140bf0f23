---------------------------- MODULE MCImeBridge ----------------------------
(* Two letters: a and ab are one composition growing, b breaks its chain; the *)
(* remote text box is not empty to begin with; and a field of four letters    *)
(* overflows.                                                                 *)
EXTENDS ImeBridge

Words == {<<"a">>, <<"b">>, <<"a", "b">>}
There == <<"b">>
=============================================================================
