----------------------------- MODULE MCProgram ------------------------------
(***************************************************************************)
(* Program in all its modes; there is nothing to bound.                    *)
(***************************************************************************)
EXTENDS Program
=============================================================================
