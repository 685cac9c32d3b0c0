----------------------------- MODULE MCUserInput -----------------------------
(* Two points of the screen, the Power button and one other. *)
EXTENDS UserInput

MCPlaces == {"left", "right"}
MCButtons == {"power", "app"}
=============================================================================
