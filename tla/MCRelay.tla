------------------------------ MODULE MCRelay ------------------------------
(***************************************************************************)
(* Small instance of Relay.  The array of ten buffers is scaled to three;  *)
(* clients ask for averages below, inside and above the limits.            *)
(***************************************************************************)
EXTENDS Relay

MCAskedScans == {0, 2, 4}
MCAskedPoints == {1, 2}
=============================================================================
