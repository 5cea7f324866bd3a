------------------------------- MODULE MCUart ------------------------------
(***************************************************************************)
(* Small instance of Uart: frames of three and four words in a buffer of   *)
(* five; the other words look, when they are taken for a length, like no   *)
(* data, like too many data and like a negative number.                    *)
(***************************************************************************)
EXTENDS Uart

MCLengths == {0, 1}
MCDataWords == {0, 9, -1}
MCDisturbances == {"gap", "pipelining", "error"}
MCTimeouts == {0, 10}
=============================================================================
