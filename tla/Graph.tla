------------------------------- MODULE Graph --------------------------------
(***************************************************************************)
(* The graphs of logScan() of ScanPrint and of Scan2Print: one line for a  *)
(* distance, a bar as long as the distance is beyond GRAPH_START, or a     *)
(* word where there is no distance.  A line is what follows the number of  *)
(* the point and, in ScanPrint, of the distances in its group.             *)
(***************************************************************************)
EXTENDS ScanFrame

CONSTANTS
  GRAPH_START,     \* the distance at the left edge, 15000 in the code
  GRAPH_STEP       \* the distance of one column, 500 in the code

ASSUME GraphAssumption == GRAPH_START \in Int /\ GRAPH_STEP \in Nat \ {0}

Low == [word |-> "Low", columns |-> 0]
NoiseLine == [word |-> "Noise", columns |-> 0]

Bar(d) ==
  [word |-> "|", columns |-> Max({0, Quotient(d - GRAPH_START, GRAPH_STEP)})]

Line(d) ==
  IF d = NoEcho THEN Low ELSE IF d = Noise THEN NoiseLine ELSE Bar(d)

(* The distances of a scan in the order of the two loops: all the echoes   *)
(* of a point before the next point.                                       *)
ScannedDistances(scan) ==
  LET echoes == scan.mNumberOfEchoes
  IN  [s \in 1 .. scan.mNumberOfPoints * echoes |->
         scan.mScanData[(s - 1) \div echoes][(s - 1) % echoes].mDistance]

-----------------------------------------------------------------------------
(* ScanPrint::logScan() averages while it prints, in a loop of its own:    *)
(* cnt, sum and valid are lCnt, lDistanceSum and lSumCnt, lines the lines  *)
(* printed.  An average is always a bar, only a group without a distance   *)
(* is a word.                                                              *)

NoGroup(lines) == [cnt |-> 0, sum |-> 0, valid |-> 0, lines |-> lines]

(* Mutant of CountDistance: the sum starts at what a distance that does    *)
(* not count has left there.                                               *)
CountDistanceOnto(g, d) ==
  CASE Valid(d) -> [g EXCEPT !.cnt = @ + 1, !.valid = @ + 1, !.sum = Int32(@ + d)]
    [] ~Valid(d) /\ g.valid = 0 -> [g EXCEPT !.cnt = @ + 1, !.sum = d]
    [] OTHER -> [g EXCEPT !.cnt = @ + 1]

CountDistance(g, d) ==
  LET before == IF g.valid = 0 THEN 0 ELSE g.sum
  IN  CASE Valid(d) -> [g EXCEPT !.cnt = @ + 1, !.valid = @ + 1,
                                 !.sum = Int32(before + d)]
        [] ~Valid(d) /\ g.valid = 0 -> [g EXCEPT !.cnt = @ + 1, !.sum = d]
        [] OTHER -> [g EXCEPT !.cnt = @ + 1]

GroupLine(g) ==
  IF g.valid > 0 THEN Bar(Quotient(g.sum, g.valid))
  ELSE IF g.sum = NoEcho THEN Low ELSE NoiseLine

PrintGroup(g) == NoGroup(Append(g.lines, GroupLine(g)))

PrintNext(g, d, k) ==
  LET h == CountDistance(g, d) IN IF h.cnt = k THEN PrintGroup(h) ELSE h

GroupLines(distances, k) ==
  LET group[i \in 0 .. Len(distances)] ==
        IF i = 0 THEN NoGroup(<<>>)
        ELSE PrintNext(group[i - 1], distances[i], k)
      last == group[Len(distances)]
  IN  IF last.cnt # 0 THEN PrintGroup(last).lines ELSE last.lines

(* An empty scan, which has no parameters, is not drawn.                   *)
ScanPrintGraph(scan, mPointAvgNumber) ==
  IF scan.mNumberOfParameter = 0 THEN <<>>
  ELSE GroupLines(ScannedDistances(scan), mPointAvgNumber)

Scan2PrintGraph(scan) ==
  LET distances == ScannedDistances(scan)
  IN  IF scan.mNumberOfParameter = 0 THEN <<>>
      ELSE [i \in DOMAIN distances |-> Line(distances[i])]
=============================================================================
