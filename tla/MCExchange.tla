----------------------------- MODULE MCExchange ----------------------------
(***************************************************************************)
(* Small instance of Exchange: a sensor with one parameter that has two    *)
(* values, a host that also asks for a parameter the sensor does not have. *)
(***************************************************************************)
EXTENDS Exchange

MCParams == {1}
MCAskedParams == {0, 1}
MCValues == {5, 6}
MCScanNumbers == {7}
=============================================================================
