---------------------------- MODULE MCAveraging -----------------------------
(***************************************************************************)
(* Small instance of Averaging: one or two scans of up to two points, with *)
(* and without pulse widths; scans of three and four points, of which      *)
(* groups of two, three and more than there are, are averaged; and scans   *)
(* of one point more than MAX_POINTS_PER_SCAN allows.  The distances are   *)
(* both sentinels and numbers of both signs whose means are not integers.  *)
(***************************************************************************)
EXTENDS Averaging

LayoutOf(params, echoes, content, points) ==
  [params |-> params, echoes |-> echoes, content |-> content,
   points |-> points]

MCSmall == {LayoutOf(9, 0, 4, 0), LayoutOf(9, 0, 4, 2), LayoutOf(9, 1, 8, 2)}
MCLarge == {LayoutOf(9, 0, 4, 4), LayoutOf(9, 1, 8, 3)}
MCTooLarge == {LayoutOf(9, 1, 4, 5)}
MCLayouts == MCSmall \cup MCLarge \cup MCTooLarge
MCDistances == {NoEcho, Noise, -4, 7}
MCPulseWidths == {3, 6}
MCGraphStart == -3

MCAsked ==
  [layout : MCSmall, scans : {1, 2}, points : {1, 2}]
  \cup [layout : MCLarge, scans : {1}, points : {2, 3, 6}]
  \cup [layout : MCTooLarge, scans : {1}, points : {2}]
=============================================================================
