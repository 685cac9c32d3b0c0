---------------------------- MODULE MCEmSession ----------------------------
(***************************************************************************)
(* The session, for TLC.  A run is a set of Features with the bounds that  *)
(* make them meet: two stoppers, so that one is made while another holds;  *)
(* loops three deep, so that a call into the ROM is interrupted by another.*)
(***************************************************************************)
EXTENDS EmSessionProperties
=============================================================================
