----------------------------- MODULE ScanFrame ------------------------------
(***************************************************************************)
(* The answer to GSCN and GSC2: its layout, how the command classes parse  *)
(* it and how the relay averages scans and points inside it.               *)
(*                                                                         *)
(* A frame is a function from 0 to its last word, as the code indexes it:  *)
(* 0 the command ID, 1 the length in bytes, 2 the number of parameters, 3  *)
(* the first parameter; the number of points and the data follow.  The CRC *)
(* behind them, which the relay computes anew for every frame it sends, is *)
(* left out.                                                               *)
(***************************************************************************)
EXTENDS ErrorID, FiniteSetsExt, Sequences

CONSTANTS
  INT32_MAX,             \* the largest int32_t; small instances scale it
  MAX_POINTS_PER_SCAN,   \* 4000 in the code
  MAX_NUMBER_OF_ECHOS    \* 4 in the code

ASSUME ScanFrameAssumption ==
  /\ INT32_MAX \in Nat \ {0}
  /\ MAX_POINTS_PER_SCAN \in Nat
  /\ MAX_NUMBER_OF_ECHOS \in Nat \ {0}

NUMBER_OF_SCAN_PARAMETER == 10
PARAMETER_NUMBER_OF_ECHOES == 4
PARAMETER_DATA_CONTENT == 8
NO_DATABLOCK == 0
DATABLOCK_WITH_DISTANCES == 4

(* Distances that are none: 0x80000000 and 0x7FFFFFFF.                     *)
NoEcho == -INT32_MAX - 1
Noise == INT32_MAX
Valid(d) == d \notin {NoEcho, Noise}

(* Arithmetic of int32_t: the value of a sum that overflowed, and division *)
(* rounding toward zero.                                                   *)
Int32(x) ==
  ((x + INT32_MAX + 1) % (2 * INT32_MAX + 2)) - INT32_MAX - 1
Quotient(a, b) == IF a >= 0 THEN a \div b ELSE -((-a) \div b)

(* The sum of f[0] to f[n - 1].                                            *)
Total(f, n) ==
  LET sum[i \in 0 .. n] == IF i = 0 THEN 0 ELSE sum[i - 1] + f[i - 1]
  IN  sum[n]

-----------------------------------------------------------------------------
(* Reading the fields of a frame.                                          *)

Parameter(f, k) ==
  IF k < f[2] /\ k < NUMBER_OF_SCAN_PARAMETER THEN f[3 + k] ELSE 0

PointsAt(f) == 3 + f[2]
DataAt(f) == 4 + f[2]

(* If 0, then the master echo is transferred instead of the number.        *)
Echoes(f) ==
  IF Parameter(f, PARAMETER_NUMBER_OF_ECHOES) = 0 THEN 1
  ELSE Parameter(f, PARAMETER_NUMBER_OF_ECHOES)

InLimits(f) ==
  Echoes(f) <= MAX_NUMBER_OF_ECHOS /\ f[PointsAt(f)] <= MAX_POINTS_PER_SCAN

(* Words of one echo: a distance, and a pulse width except in content 4.   *)
EchoWords(f) ==
  IF Parameter(f, PARAMETER_DATA_CONTENT) = DATABLOCK_WITH_DISTANCES
  THEN 1 ELSE 2

-----------------------------------------------------------------------------
(* parseScan(): a frame in host byte order becomes a Scan_t.               *)

ClearedScan ==
  [mNumberOfParameter |-> 0, mParameter |-> <<>>, mNumberOfPoints |-> 0,
   mNumberOfEchoes |-> 0, mScanData |-> <<>>]

ScanData(f) ==
  IF Parameter(f, PARAMETER_DATA_CONTENT) = NO_DATABLOCK THEN <<>>
  ELSE [p \in 0 .. f[PointsAt(f)] - 1 |-> [e \in 0 .. Echoes(f) - 1 |->
         LET w == DataAt(f) + (p * Echoes(f) + e) * EchoWords(f)
         IN  [mDistance |-> f[w],
              mPulseWidth |-> IF EchoWords(f) = 2 THEN f[w + 1] ELSE 0]]]

ParseScan(f) ==
  LET known == Min({f[2], NUMBER_OF_SCAN_PARAMETER})
  IN  IF InLimits(f)
      THEN [result |-> ERR_SUCCESS, scan |->
             [mNumberOfParameter |-> known,
              mParameter |-> [k \in 0 .. known - 1 |-> f[3 + k]],
              mNumberOfPoints |-> f[PointsAt(f)],
              mNumberOfEchoes |-> Echoes(f),
              mScanData |-> ScanData(f)]]
      ELSE [result |-> ERR_BUFFER_OVERFLOW, scan |-> ClearedScan]

(* GSC2Command holds the code of GSCNCommand a second time.                *)
ParseScanGSC2(f) == ParseScan(f)

-----------------------------------------------------------------------------
(* convertRELAY_Sensor_Client_GSCN_GSC2_ScanAvg(): the last echo of every  *)
(* point of frame f is replaced by its average over the n frames kept in   *)
(* rcvd, the last of which is f.                                           *)

(* The sum and the counters of the loop over the frames.                   *)
NoScan == [sum |-> 0, cnt |-> 0, noEcho |-> 0, noise |-> 0]

AddScan(a, d) ==
  CASE d = NoEcho -> [a EXCEPT !.noEcho = @ + 1]
    [] d = Noise -> [a EXCEPT !.noise = @ + 1]
    [] OTHER -> [a EXCEPT !.sum = @ + d, !.cnt = @ + 1]

MeanDistance(rcvd, n, w) ==
  LET scans[i \in 0 .. n] ==
        IF i = 0 THEN NoScan ELSE AddScan(scans[i - 1], rcvd[i - 1][w])
      all == scans[n]
  IN  IF all.cnt # 0 THEN Quotient(all.sum, all.cnt)
      ELSE IF all.noEcho > all.noise THEN NoEcho ELSE Noise

MeanPulseWidth(rcvd, n, w) ==
  Quotient(Total([i \in 0 .. n - 1 |-> rcvd[i][w]], n), n)

ScanAverage(f, rcvd, n) ==
  LET size == EchoWords(f)
      distances == {DataAt(f) + (p * Echoes(f) + Echoes(f) - 1) * size :
                      p \in 0 .. f[PointsAt(f)] - 1}
  IN  IF ~InLimits(f) THEN f
      ELSE [w \in DOMAIN f |->
             IF w \in distances THEN MeanDistance(rcvd, n, w)
             ELSE IF size = 2 /\ w - 1 \in distances
             THEN MeanPulseWidth(rcvd, n, w)
             ELSE f[w]]

-----------------------------------------------------------------------------
(* convertRELAY_Sensor_Client_GSCN_GSC2_PointAvg(): one pass over all the  *)
(* echoes of all the points.  cnt, sum and valid are the local variables   *)
(* lCnt, lDistanceSum and lSumCnt; sent are the distances written back.    *)

EmptyGroup(sent) == [cnt |-> 0, sum |-> 0, valid |-> 0, sent |-> sent]

(* Mutant of AddDistance: Noise counts as a distance.                      *)
AddDistanceWithNoise(g, d) ==
  [g EXCEPT
    !.cnt = @ + 1,
    !.valid = IF d # NoEcho THEN @ + 1 ELSE @,
    !.sum = IF d # NoEcho THEN Int32(IF g.valid = 0 THEN d ELSE @ + d)
            ELSE IF g.valid = 0 THEN d ELSE @]

AddDistance(g, d) ==
  [g EXCEPT
    !.cnt = @ + 1,
    !.valid = IF Valid(d) THEN @ + 1 ELSE @,
    !.sum = IF Valid(d) THEN Int32(IF g.valid = 0 THEN d ELSE @ + d)
            ELSE IF g.valid = 0 THEN d ELSE @]

(* Mutant of SendGroup: the sum is divided by the number of points of the  *)
(* group, also of those without a distance.                                *)
SendGroupByCount(g) ==
  EmptyGroup(Append(g.sent, IF g.valid > 0 THEN Quotient(g.sum, g.cnt)
                            ELSE g.sum))

SendGroup(g) ==
  EmptyGroup(Append(g.sent, IF g.valid > 0 THEN Quotient(g.sum, g.valid)
                            ELSE g.sum))

(* One turn of the loop: a group of k distances is sent.                   *)
NextDistance(g, d, k) ==
  LET h == AddDistance(g, d) IN IF h.cnt = k THEN SendGroup(h) ELSE h

(* Mutant of GroupMeans: the last group is dropped when it is not full.    *)
GroupMeansFull(distances, k) ==
  LET group[i \in 0 .. Len(distances)] ==
        IF i = 0 THEN EmptyGroup(<<>>)
        ELSE NextDistance(group[i - 1], distances[i], k)
  IN  group[Len(distances)].sent

(* One distance for every k of a sequence of distances, and one for those  *)
(* that are left.                                                          *)
GroupMeans(distances, k) ==
  LET group[i \in 0 .. Len(distances)] ==
        IF i = 0 THEN EmptyGroup(<<>>)
        ELSE NextDistance(group[i - 1], distances[i], k)
      last == group[Len(distances)]
  IN  IF last.cnt # 0 THEN SendGroup(last).sent ELSE last.sent

(* Mutant of SentDistances: pulse widths are read as distances.            *)
SentDistancesAllWords(f, k) ==
  GroupMeans([s \in 1 .. f[PointsAt(f)] * Echoes(f) |-> f[DataAt(f) + s - 1]], k)

SentDistances(f, k) ==
  GroupMeans([s \in 1 .. f[PointsAt(f)] * Echoes(f) |->
                f[DataAt(f) + (s - 1) * EchoWords(f)]], k)

(* Mutant of PointAverage: the length of the frame stays as it was.        *)
PointAverageKeepsLength(f, k) ==
  LET sent == SentDistances(f, k)
      size == EchoWords(f)
  IN  IF ~InLimits(f) THEN f
      ELSE [w \in 0 .. DataAt(f) + size * Len(sent) - 1 |->
             IF w = 12 THEN Len(sent)
             ELSE IF w >= DataAt(f) /\ (w - DataAt(f)) % size = 0
             THEN sent[(w - DataAt(f)) \div size + 1]
             ELSE f[w]]

(* The distances move to the front of the data, the pulse widths between   *)
(* them stay where they were.  The number of points is always written to   *)
(* word 12.                                                                *)
PointAverage(f, k) ==
  LET sent == SentDistances(f, k)
      size == EchoWords(f)
      length == 4 + 4 * f[2] + 4 + 4 * size * Len(sent)
  IN  IF ~InLimits(f) THEN f
      ELSE [w \in 0 .. DataAt(f) + size * Len(sent) - 1 |->
             IF w = 1 THEN length
             ELSE IF w = 12 THEN Len(sent)
             ELSE IF w >= DataAt(f) /\ (w - DataAt(f)) % size = 0
             THEN sent[(w - DataAt(f)) \div size + 1]
             ELSE f[w]]
=============================================================================
