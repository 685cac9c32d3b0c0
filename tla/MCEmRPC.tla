------------------------------- MODULE MCEmRPC -------------------------------
(* Three scripts: the walks have a first wait, one in the middle and a last. *)
EXTENDS EmRPC

CONSTANTS c1, c2, c3
MCClients == {c1, c2, c3}
=============================================================================
