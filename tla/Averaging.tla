----------------------------- MODULE Averaging ------------------------------
(***************************************************************************)
(* What the averages of the relay contain: the client asks for an average  *)
(* of g_GSC2_ScanAvgNumber scans and of g_GSC2_PointAvgNumber points, the  *)
(* sensor's scans arrive one by one, the last of them is averaged in place *)
(* and parsed by the client.  Module Relay has the order of the datagrams, *)
(* this one what is in them.                                               *)
(***************************************************************************)
EXTENDS Graph

CONSTANTS
  Layouts,         \* layouts of the sensor's scans, see Layout below
  Distances,       \* distances that occur in the sensor's scans
  PulseWidths,     \* pulse widths that occur in the sensor's scans
  Asked            \* what the client asks for, at which layout, see Asks

Layout == [params : 9 .. 2 * NUMBER_OF_SCAN_PARAMETER, echoes : Nat,
           content : {4, 7, 8}, points : Nat]

Asks == [layout : Layouts, scans : 1 .. 10, points : Nat \ {0}]

ASSUME AveragingAssumption ==
  /\ Layouts \subseteq Layout
  /\ Distances \subseteq NoEcho .. Noise
  /\ PulseWidths \subseteq 0 .. INT32_MAX
  /\ Asked \subseteq Asks

VARIABLES
  phase,                  \* "collecting", "complete", "averaged", "sent"
                          \* or "parsed"
  layout,                 \* layout of the sensor's scans
  g_GSC2_ScanAvgNumber,
  g_GSC2_PointAvgNumber,
  g_GSC2_GSCN_rcvd_data,  \* frames collected so far, the first at 0
  data,                   \* the relay's buffer: the frame received last
  parsed                  \* what the client's parseScan() returned

vars == <<phase, layout, g_GSC2_ScanAvgNumber, g_GSC2_PointAvgNumber,
          g_GSC2_GSCN_rcvd_data, data, parsed>>

NoFrame == <<>>
NotParsed == [result |-> ERR_IO, scan |-> ClearedScan]

SampleWords(l) == IF l.content = DATABLOCK_WITH_DISTANCES THEN 1 ELSE 2

(* The sensor's frame of layout l with the data d.                         *)
SensorFrame(l, d) ==
  LET words == Cardinality(DOMAIN d)
  IN  [w \in 0 .. 3 + l.params + words |->
         CASE w = 0 -> 0
           [] w = 1 -> 8 + 4 * l.params + 4 * words
           [] w = 2 -> l.params
           [] w = 3 + PARAMETER_NUMBER_OF_ECHOES -> l.echoes
           [] w = 3 + PARAMETER_DATA_CONTENT -> l.content
           [] w = 3 + l.params -> l.points
           [] w > 3 + l.params -> d[w - 4 - l.params]
           [] OTHER -> 0]

(* All the data a scan of layout l can have.                               *)
SensorData(l) ==
  LET samples == l.points * (IF l.echoes = 0 THEN 1 ELSE l.echoes)
      size == SampleWords(l)
  IN  {[w \in 0 .. samples * size - 1 |->
          IF size = 2 /\ w % 2 = 1 THEN pw[w \div size] ELSE d[w \div size]] :
         d \in [0 .. samples - 1 -> Distances],
         pw \in [0 .. (IF size = 2 THEN samples ELSE 0) - 1 -> PulseWidths]}

Init ==
  /\ phase = "parsed"
  /\ layout \in Layouts
  /\ g_GSC2_ScanAvgNumber = 1
  /\ g_GSC2_PointAvgNumber = 1
  /\ g_GSC2_GSCN_rcvd_data = <<>>
  /\ data = NoFrame
  /\ parsed = NotParsed

(* The relay averages when one of the two numbers is greater than 1.       *)
ClientAsks(l, n, k) ==
  /\ phase = "parsed"
  /\ n > 1 \/ k > 1
  /\ phase' = "collecting"
  /\ layout' = l
  /\ g_GSC2_ScanAvgNumber' = n
  /\ g_GSC2_PointAvgNumber' = k
  /\ g_GSC2_GSCN_rcvd_data' = <<>>
  /\ data' = NoFrame
  /\ parsed' = NotParsed

(* convertRELAY_Sensor_Client_GSCN_GSC2() with a good frame: keep it, and  *)
(* ask for another one until there are enough.                             *)
KeepScan(d) ==
  LET cnt == Cardinality(DOMAIN g_GSC2_GSCN_rcvd_data)
  IN  /\ phase = "collecting"
      /\ data' = SensorFrame(layout, d)
      /\ g_GSC2_GSCN_rcvd_data' =
           [i \in 0 .. cnt |-> IF i = cnt THEN data'
                               ELSE g_GSC2_GSCN_rcvd_data[i]]
      /\ phase' = IF cnt + 1 < g_GSC2_ScanAvgNumber THEN "collecting"
                  ELSE "complete"
      /\ UNCHANGED <<layout, g_GSC2_ScanAvgNumber, g_GSC2_PointAvgNumber,
                     parsed>>

ScanAvg ==
  /\ phase = "complete"
  /\ data' = ScanAverage(data, g_GSC2_GSCN_rcvd_data, g_GSC2_ScanAvgNumber)
  /\ phase' = "averaged"
  /\ UNCHANGED <<layout, g_GSC2_ScanAvgNumber, g_GSC2_PointAvgNumber,
                 g_GSC2_GSCN_rcvd_data, parsed>>

PointAvg ==
  /\ phase = "averaged"
  /\ data' = PointAverage(data, g_GSC2_PointAvgNumber)
  /\ phase' = "sent"
  /\ UNCHANGED <<layout, g_GSC2_ScanAvgNumber, g_GSC2_PointAvgNumber,
                 g_GSC2_GSCN_rcvd_data, parsed>>

(* The client has received the frame and parses it.                        *)
ClientParses ==
  /\ phase = "sent"
  /\ parsed' = ParseScanGSC2(data)
  /\ phase' = "parsed"
  /\ UNCHANGED <<layout, g_GSC2_ScanAvgNumber, g_GSC2_PointAvgNumber,
                 g_GSC2_GSCN_rcvd_data, data>>

Next ==
  \/ \E a \in Asked : ClientAsks(a.layout, a.scans, a.points)
  \/ \E d \in SensorData(layout) : KeepScan(d)
  \/ ScanAvg
  \/ PointAvg
  \/ ClientParses

Spec == Init /\ [][Next]_vars

-----------------------------------------------------------------------------
(* Properties.                                                             *)

(* The frame the relay sends is one parseScan() reads to its end and not   *)
(* beyond: parameters, points and echoes it names account for its length,  *)
(* and its length for its words.                                           *)
ReplyWellFormed ==
  phase = "sent" =>
    /\ DOMAIN data = 0 .. data[1] \div 4 + 1
    /\ data[1] = 8 + 4 * data[2]
                 + 4 * EchoWords(data) * data[PointsAt(data)] * Echoes(data)

(* What the reference definitions below average: the distances of the n    *)
(* scans at point p, as parseScan() would have read them.                  *)
Scan(i) == ParseScan(g_GSC2_GSCN_rcvd_data[i]).scan
Scans == DOMAIN g_GSC2_GSCN_rcvd_data
DistanceIn(i, p) == Scan(i).mScanData[p][0].mDistance
Group(g) == {p \in 0 .. layout.points - 1 : p \div g_GSC2_PointAvgNumber = g}
HeardIn(g) ==
  {d \in {DistanceIn(i, p) : i \in Scans, p \in Group(g)} : Valid(d)}

Averaged == phase = "parsed" /\ data # NoFrame
Averages == parsed.scan.mScanData

(* A scan the client can hold is averaged into one it can hold, with one   *)
(* point for every group of neighbouring points, the last possibly smaller *)
(* (an answer beyond the limits is passed on and refused by parseScan()).  *)
EveryGroupSent ==
  Averaged =>
    IF layout.points <= MAX_POINTS_PER_SCAN
    THEN /\ parsed.result = ERR_SUCCESS
         /\ parsed.scan.mNumberOfPoints =
              Cardinality({p \div g_GSC2_PointAvgNumber :
                             p \in 0 .. layout.points - 1})
    ELSE parsed.result = ERR_BUFFER_OVERFLOW

(* No Echo and Noise do not count: an average is a distance exactly when   *)
(* some scan heard an echo of some point of the group, and lies between    *)
(* the distances that were heard.                                          *)
AverageAmongHeard ==
  Averaged /\ parsed.result = ERR_SUCCESS =>
    \A g \in DOMAIN Averages :
      LET d == Averages[g][0].mDistance
      IN  IF HeardIn(g) = {} THEN ~Valid(d)
          ELSE \E low, high \in HeardIn(g) : low <= d /\ d <= high

(* The mean of the scans at a point, and of those means over a group: what *)
(* the two passes over the words of the frame compute.                     *)
ScanMean(p) ==
  LET heard == {i \in Scans : Valid(DistanceIn(i, p))}
      NumberOf(d) == Cardinality({i \in Scans : DistanceIn(i, p) = d})
      sum == Total([i \in Scans |-> IF i \in heard THEN DistanceIn(i, p) ELSE 0],
                   Cardinality(Scans))
  IN  IF heard # {} THEN Quotient(sum, Cardinality(heard))
      ELSE IF NumberOf(NoEcho) > NumberOf(Noise) THEN NoEcho ELSE Noise

GroupMean(g) ==
  LET heard == {p \in Group(g) : Valid(ScanMean(p))}
      sum == Total([p \in 0 .. layout.points - 1 |->
                      IF p \in heard THEN ScanMean(p) ELSE 0], layout.points)
  IN  IF heard # {} THEN Quotient(sum, Cardinality(heard))
      ELSE ScanMean(Max(Group(g)))

(* The distances of the answer are the means of the groups, although they  *)
(* are written over the distances that are still to be averaged; without a *)
(* point average the pulse widths are the means of the scans.              *)
AveragesAreMeans ==
  Averaged /\ parsed.result = ERR_SUCCESS =>
    \A g \in DOMAIN Averages :
      /\ Averages[g][0].mDistance = GroupMean(g)
      /\ g_GSC2_PointAvgNumber = 1 =>
           Averages[g][0].mPulseWidth =
             Quotient(Total([i \in Scans |->
                               Scan(i).mScanData[g][0].mPulseWidth],
                            Cardinality(Scans)),
                      Cardinality(Scans))

(* The two menu entries draw the same graph: SCANPR averages groups of the *)
(* sensor's points while it draws them, SCN2PR draws the scan in which the *)
(* relay has averaged the same groups.                                     *)
GraphsAgree ==
  Averaged /\ parsed.result = ERR_SUCCESS /\ g_GSC2_ScanAvgNumber = 1 =>
    ScanPrintGraph(Scan(0), g_GSC2_PointAvgNumber) = Scan2PrintGraph(parsed.scan)
=============================================================================
