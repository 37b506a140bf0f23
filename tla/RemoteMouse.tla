---------------------------- MODULE RemoteMouse ----------------------------
(* What the remote desktop may expect of the mouse that a touch screen       *)
(* drives: one button at a time, a press followed by moves and its release,  *)
(* clicks at one spot, and a wheel that turns only while no button is down.  *)
(* A finger whose lifting is never reported may leave the button down; then  *)
(* nothing is promised until the button is up again.                         *)
EXTENDS Integers, Sequences

CONSTANT Place

VARIABLES
  held,   \* the remote left button is down
  lost,   \* a finger was lost since the button was last released
  sent    \* the mouse messages of the last handler that sent any

mouseVars == <<held, lost, sent>>

Message == [flags : {"down", "move", "up", "right down", "right up",
                     "wheel", "wheel negative"},
            at : Place]

Msg(flags, p) == [flags |-> flags, at |-> p]

MouseInit == held = FALSE /\ lost = FALSE /\ sent = <<>>

LoseTouch == lost' = TRUE /\ UNCHANGED <<held, sent>>

Press ==
  /\ ~held /\ held' = TRUE
  /\ \E p \in Place : sent' = <<Msg("down", p)>>

Drag ==
  /\ held /\ UNCHANGED held
  /\ \E p \in Place : sent' = <<Msg("move", p)>>

Release ==
  /\ held /\ held' = FALSE
  /\ \E p \in Place : sent' = <<Msg("up", p)>>

Click ==
  /\ ~held /\ UNCHANGED held
  /\ \E p \in Place : \/ sent' = <<Msg("down", p), Msg("up", p)>>
                      \/ sent' = <<Msg("right down", p), Msg("right up", p)>>

Turn ==
  /\ ~held /\ UNCHANGED held
  /\ \E p \in Place, w \in {"wheel", "wheel negative"} :
       \A i \in DOMAIN sent' : sent'[i] = Msg(w, p)

\* After a lost touch anything may come, but order returns with the button up.
Recover == lost /\ (lost' \/ ~held')

MouseNext ==
  \/ LoseTouch
  \/ Recover
  \/ ~lost /\ UNCHANGED lost /\ (Press \/ Drag \/ Release \/ Click \/ Turn)

MouseSpec == MouseInit /\ [][MouseNext]_mouseVars
=============================================================================
