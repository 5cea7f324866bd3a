------------------------------- MODULE MCMenu -------------------------------
(***************************************************************************)
(* Small instance of Menu: a sensor whose parameter IDs have a gap, and a  *)
(* user who types 0, IDs it has and IDs it does not have.                  *)
(***************************************************************************)
EXTENDS Menu

MCParams == {1, 2, 4}
MCValues == {5, 6}
MCScanNumbers == {7}
MCAskedParams == {0, 2, 4, 5}
MCAskedValues == {5, 9}
=============================================================================
