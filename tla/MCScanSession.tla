--------------------------- MODULE MCScanSession ----------------------------
(***************************************************************************)
(* Small instance of ScanSession: a clock of a few ticks, of which a       *)
(* session takes two or three, and a sensor that measures a few scans.     *)
(***************************************************************************)
EXTENDS ScanSession
=============================================================================
