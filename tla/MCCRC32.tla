------------------------------ MODULE MCCRC32 -------------------------------
(***************************************************************************)
(* Small instance of CRC32: messages of up to five bytes, so that bursts   *)
(* of 32 bits and longer damage both occur.                                *)
(***************************************************************************)
EXTENDS CRC32

MCBytes == {{}, {0, 1, 4, 5}}
MCErrors == {{}, {7}, {0, 5}, 0 .. 7}
=============================================================================
