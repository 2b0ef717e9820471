---------------------------- MODULE PanelCanvas ----------------------------
(***************************************************************************)
(* What the drawing calls of led_panel.c promise: two pictures the size of *)
(* the virtual display, one to draw on and one on show; a call paints the  *)
(* pixels it names that are on the display and no other; and a viewer sees *)
(* every pixel of the picture on show in the brightness it was painted in. *)
(***************************************************************************)
EXTENDS Integers

CONSTANTS
  Width, Height,  \* VIRT_WIDTH, VIRT_HEIGHT
  Black,          \* the level of a pixel that is not painted
  Levels,         \* the levels a pixel may have
  Strokes         \* what one call may paint: functions from pixels to levels

Pixels == (0 .. Width - 1) \X (0 .. Height - 1)
Pictures == [Pixels -> Levels]

VARIABLES
  picture,  \* the picture drawn on
  shown,    \* the picture on show
  seen      \* what the last complete scan let a viewer see

vars == <<picture, shown, seen>>

BlackPicture == [p \in Pixels |-> Black]

Init == picture = BlackPicture /\ shown = BlackPicture /\ seen = BlackPicture

Clear == picture' = BlackPicture /\ UNCHANGED <<shown, seen>>

Paint(stroke) ==
  /\ picture' = [p \in Pixels |-> IF p \in DOMAIN stroke THEN stroke[p] ELSE picture[p]]
  /\ UNCHANGED <<shown, seen>>

Exchange == picture' = shown /\ shown' = picture /\ UNCHANGED seen

View == seen' = shown /\ UNCHANGED <<picture, shown>>

Next == Clear \/ (\E stroke \in Strokes : Paint(stroke)) \/ Exchange \/ View

Spec == Init /\ [][Next]_vars
=============================================================================
