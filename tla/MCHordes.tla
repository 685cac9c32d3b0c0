------------------------------ MODULE MCHordes ------------------------------
(* Hordes of two and three, a single Gremlin, and the ways to leave a depth *)
(* out; the last depth is met at a switch, between two, or before the first. *)
EXTENDS Hordes

Info(start, stop, switch, max) ==
  [start |-> start, stop |-> stop, switchDepth |-> switch, maxDepth |-> max]

MCInfos ==
  {Info(0, 1, 2, 3), Info(0, 2, 1, 2), Info(1, 2, 3, 2), Info(1, 1, 2, 2),
   Info(0, 1, Forever, 2), Info(0, 1, 0, 2), Info(0, 1, 1, Forever), Info(0, 0, 1, Forever)}
=============================================================================
