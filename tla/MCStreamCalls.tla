--------------------------- MODULE MCStreamCalls ----------------------------
(***************************************************************************)
(* StreamCalls with the two timeouts the program uses.                     *)
(***************************************************************************)
EXTENDS StreamCalls

MCTimeouts == {0, 10}
=============================================================================
