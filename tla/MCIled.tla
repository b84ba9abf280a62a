------------------------------- MODULE MCIled -------------------------------
(***************************************************************************)
(* Values for the constants of Iled: a strip, two panels, one of them      *)
(* upright and serpentine, requests that are refused, and a small and a    *)
(* scaled framebuffer.                                                     *)
(***************************************************************************)
EXTENDS Iled

Fast == [resolution |-> 4, name |-> "fast"]
Slow == [resolution |-> 3, name |-> "slow"]
MCTimings == {Fast, Slow}

Straight == [h_edge |-> "Left", v_edge |-> "Top", axis |-> "Row", serpentine |-> TRUE]
Strips == [h_edge |-> "Right", v_edge |-> "Bottom", axis |-> "Column", serpentine |-> TRUE]

MCDefaultIled == [width |-> 1, height |-> 1, layout |-> Straight, timing |-> Fast, csv |-> 70]

Asked(w, h, l, t, bits, csv) ==
  [width |-> w, height |-> h, layout |-> l, timing |-> t, bits |-> bits, csv |-> csv]

MCRequests ==
  { Asked(3, 2, Strips, Fast, 32, 72),
    Asked(2, 0, [Straight EXCEPT !.h_edge = "Right"], Slow, 24, 80),    \* unreadable at the next start
    Asked(7, 1, Straight, Fast, 32, 71),    \* too many LEDs
    Asked(1, 1, Straight, Slow, 4, 70),     \* not whole bytes
    Asked(1, 2, Straight, Slow, 24, 81) }   \* too long to store

(* Dimensions whose product wraps around. *)
WideRequests == MCRequests \cup {Asked(16, 16, Straight, Fast, 32, 72)}

Unmapped == [width |-> 2, height |-> 2, iled |-> None]
MCDefaultNodem == Unmapped
MCNodemConfigs ==
  { Unmapped,
    [width |-> 2, height |-> 2, iled |-> [x |-> 0, y |-> 0, scale_x |-> 1, scale_y |-> 1]],
    [width |-> 1, height |-> 4, iled |-> [x |-> -1, y |-> 1, scale_x |-> 2, scale_y |-> 1]] }

(* A page with a pixel in a corner, and one with the others. *)
MCDrawn(c, w, h) ==
  LET all == (0..(w - 1)) \X (0..(h - 1))
  IN  IF c = "corner" THEN {<<w - 1, 0>>} ELSE all \ {<<w - 1, 0>>}
=============================================================================
