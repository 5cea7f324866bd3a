------------------------------- MODULE Relay -------------------------------
(***************************************************************************)
(* The relay modes RELAY_N and RELAY_U: one loop that passes the datagrams *)
(* of a client (a socket or the UART) to the sensor and the datagrams of   *)
(* the sensor to the client.  The sensor does not know GSC2: the relay     *)
(* turns it into GSCN requests, collects ScanAvgNumber answers and sends   *)
(* the client one answer with their average.                               *)
(*                                                                         *)
(* A scan is named by the client request it was asked for.  The numbers    *)
(* chain, by and seq are not in the datagrams; no action of the relay      *)
(* decides anything by them.                                               *)
(***************************************************************************)
EXTENDS Integers, FiniteSets

CONSTANTS
  ScanAvgMax,      \* largest ScanAvgNumber the relay accepts (10)
  RcvdBuffers,     \* length of g_GSC2_GSCN_rcvd_data (10)
  AskedScans,      \* scan averages clients ask for
  AskedPoints,     \* point averages clients ask for
  ClientBlocks,    \* reading the client waits until a datagram is there
  SensorBlocks,    \* reading the sensor waits until a datagram is there
  Lossy,           \* the network loses and corrupts datagrams
  LateAnswers,     \* the client may time out while its answer is under way
  ScansFit,        \* a GSCN answer fits into the relay's buffer (8 KB)
  DamagesRequests, \* a damaged request of the client reaches the relay
  MaxCalls         \* bound: number of requests the client sends

ASSUME RelayAssumption ==
  /\ ScanAvgMax \in Nat \ {0}
  /\ RcvdBuffers \in Nat
  /\ ScanAvgMax <= RcvdBuffers
  /\ AskedScans \subseteq Int
  /\ AskedPoints \subseteq Int
  /\ {ClientBlocks, SensorBlocks, Lossy, LateAnswers} \subseteq BOOLEAN
  /\ {ScansFit, DamagesRequests} \subseteq BOOLEAN
  /\ MaxCalls \in Nat

VARIABLES
  pc,                        \* what the loop does next
  g_GSC2_flag,               \* GSCN answers are being averaged
  g_GSC2_GSCN_send_data,     \* the GSCN request to repeat
  g_GSC2_ScanAvgNumber,
  g_GSC2_ScanAvgNumber_cnt,
  g_GSC2_PointAvgNumber,
  g_GSC2_GSCN_rcvd_data,     \* the GSCN answers collected
  net,                       \* datagrams in flight or in a receive queue
  cpc,                       \* the client: "idle" or "waiting"
  cseq,                      \* number of requests the client has sent
  cur,                       \* the client's current or last request
  result,                    \* what the client's last call ended with
  lost                       \* history: a datagram of the call was lost

averageVars == <<g_GSC2_flag, g_GSC2_GSCN_send_data, g_GSC2_ScanAvgNumber,
                 g_GSC2_ScanAvgNumber_cnt, g_GSC2_PointAvgNumber,
                 g_GSC2_GSCN_rcvd_data>>
clientVars == <<cpc, cseq, cur, result, lost>>
vars == <<pc, averageVars, net, clientVars>>

(* What the client asks for; "OTHER" stands for the commands the relay     *)
(* passes on unchanged.                                                    *)
Asked == [id : {"GSC2", "OTHER"}, n : Int, p : Int]

Indices == 0 .. RcvdBuffers - 1

Requests == [kind : {"request"}, seq : Nat, body : Asked]
Forwards == [kind : {"forward"}, chain : Nat, by : Nat, id : {"GSCN", "OTHER"}]
Replies == [kind : {"reply"}, chain : Nat, by : Nat,
            id : {"GSCN", "OTHER", "ERR", "JUNK"}, intact : BOOLEAN]
Answers == [kind : {"answer"}, chain : Nat, id : {"GSCN", "OTHER", "ERR", "JUNK"},
            intact : BOOLEAN, number : Nat, scans : SUBSET Nat, points : Int]
Timeout == [kind |-> "timeout"]

Init ==
  /\ pc = "client"
  /\ g_GSC2_flag = FALSE
  /\ g_GSC2_GSCN_send_data = 0
  /\ g_GSC2_ScanAvgNumber = 1
  /\ g_GSC2_ScanAvgNumber_cnt = 0
  /\ g_GSC2_PointAvgNumber = 1
  /\ g_GSC2_GSCN_rcvd_data = [i \in Indices |-> 0]
  /\ net = {}
  /\ cpc = "idle"
  /\ cseq = 0
  /\ cur = [id |-> "OTHER", n |-> 0, p |-> 0]
  /\ result = Timeout
  /\ lost = FALSE

-----------------------------------------------------------------------------
(* From the client to the sensor.                                          *)

(* Mutant of ScanAvg: no upper limit.                                      *)
ScanAvgUnlimited(n) == IF n < 1 THEN 1 ELSE n

ScanAvg(n) == IF n < 1 THEN 1 ELSE IF n > ScanAvgMax THEN ScanAvgMax ELSE n
PointAvg(p) == IF p < 1 THEN 1 ELSE p

(* Mutant of ConvertGSC2: the count of the average before is not reset.    *)
ConvertGSC2KeepsCount(m) ==
  LET n == ScanAvg(m.body.n)
      p == PointAvg(m.body.p)
      averaging == p > 1 \/ n > 1
  IN  /\ g_GSC2_ScanAvgNumber' = n
      /\ g_GSC2_PointAvgNumber' = p
      /\ g_GSC2_flag' = averaging
      /\ g_GSC2_GSCN_send_data' =
           IF averaging THEN m.seq ELSE g_GSC2_GSCN_send_data
      /\ UNCHANGED <<g_GSC2_ScanAvgNumber_cnt, g_GSC2_GSCN_rcvd_data>>

(* convertRELAY_Client_Sensor_GSC2_GSCN(): take the averages from GSC2; if *)
(* there is something to average, collect the answers from now on and keep *)
(* the GSCN request, of which the name of its scans is kept here.          *)
ConvertGSC2(m) ==
  LET n == ScanAvg(m.body.n)
      p == PointAvg(m.body.p)
      averaging == p > 1 \/ n > 1
  IN  /\ g_GSC2_ScanAvgNumber' = n
      /\ g_GSC2_PointAvgNumber' = p
      /\ g_GSC2_flag' = averaging
      /\ g_GSC2_ScanAvgNumber_cnt' =
           IF averaging THEN 0 ELSE g_GSC2_ScanAvgNumber_cnt
      /\ g_GSC2_GSCN_send_data' =
           IF averaging THEN m.seq ELSE g_GSC2_GSCN_send_data
      /\ UNCHANGED g_GSC2_GSCN_rcvd_data

(* Mutant of ConvertClientSensor: a command that is not GSC2 does not end  *)
(* averaging.                                                              *)
ConvertClientSensorKeepsFlag(m) ==
  IF m.body.id = "GSC2" THEN ConvertGSC2(m) ELSE UNCHANGED averageVars

(* convertRELAY_Client_Sensor(): any request of the client ends averaging. *)
ConvertClientSensor(m) ==
  IF m.body.id = "GSC2" THEN ConvertGSC2(m)
  ELSE /\ g_GSC2_flag' = FALSE
       /\ UNCHANGED <<g_GSC2_GSCN_send_data, g_GSC2_ScanAvgNumber,
                      g_GSC2_ScanAvgNumber_cnt, g_GSC2_PointAvgNumber,
                      g_GSC2_GSCN_rcvd_data>>

Forward(chain, by, id) ==
  [kind |-> "forward", chain |-> chain, by |-> by, id |-> id]

(* First half of the loop: a datagram of the client goes to the sensor.    *)
RelayRequest(m) ==
  /\ pc = "client"
  /\ m \in net
  /\ m.kind = "request"
  /\ ConvertClientSensor(m)
  /\ net' = (net \ {m}) \cup
       {Forward(m.seq, m.seq, IF m.body.id = "GSC2" THEN "GSCN" ELSE "OTHER")}
  /\ pc' = "sensor"
  /\ UNCHANGED clientVars

(* Mutant of NoRequest: the loop starts again before it has read from the  *)
(* sensor.                                                                 *)
NoRequestContinues ==
  /\ pc = "client"
  /\ ~ClientBlocks
  /\ \A m \in net : m.kind # "request"
  /\ pc' = "client"
  /\ UNCHANGED <<averageVars, net, clientVars>>

(* read() of the client returns 0 or an error when nothing has arrived,    *)
(* unless the connection is a blocking one: then the loop stays in read(). *)
NoRequest ==
  /\ pc = "client"
  /\ ~ClientBlocks
  /\ \A m \in net : m.kind # "request"
  /\ pc' = "sensor"
  /\ UNCHANGED <<averageVars, net, clientVars>>

-----------------------------------------------------------------------------
(* From the sensor to the client.                                          *)

(* The answer made from reply m: the average of number scans, with an      *)
(* average of points neighbouring points.                                  *)
Answer(m, number, scans, points, intact) ==
  [kind |-> "answer", chain |-> m.chain, id |-> m.id, intact |-> intact,
   number |-> number, scans |-> scans, points |-> points]

(* A GSCN answer while averaging.                                          *)
Collected(m) == g_GSC2_flag /\ m.id = "GSCN"

TakesReply(m) ==
  /\ pc = "sensor"
  /\ m \in net
  /\ m.kind = "reply"
  /\ pc' = "key"
  /\ UNCHANGED clientVars

(* Nothing to average: the datagram is passed on as it is.                 *)
PassReply(m) ==
  /\ TakesReply(m)
  /\ ~Collected(m)
  /\ net' = (net \ {m}) \cup {Answer(m, 1, {m.by}, 1, m.intact)}
  /\ UNCHANGED averageVars

Resend(m) == Forward(m.chain, g_GSC2_GSCN_send_data, "GSCN")

(* Mutant of RejectReply: the rejected answer is counted.                  *)
RejectReplyCounts(m) ==
  /\ TakesReply(m)
  /\ Collected(m)
  /\ ~m.intact
  /\ g_GSC2_ScanAvgNumber_cnt' = g_GSC2_ScanAvgNumber_cnt + 1
  /\ net' = (net \ {m}) \cup
       {IF g_GSC2_ScanAvgNumber_cnt' < g_GSC2_ScanAvgNumber THEN Resend(m)
        ELSE Answer(m, g_GSC2_ScanAvgNumber,
                    {g_GSC2_GSCN_rcvd_data[i] :
                       i \in 0 .. g_GSC2_ScanAvgNumber - 1},
                    g_GSC2_PointAvgNumber, TRUE)}
  /\ UNCHANGED <<g_GSC2_flag, g_GSC2_GSCN_send_data, g_GSC2_ScanAvgNumber,
                 g_GSC2_PointAvgNumber, g_GSC2_GSCN_rcvd_data>>

(* convertRELAY_Sensor_Client_GSCN_GSC2(): an answer that is too short or  *)
(* has a wrong CRC is dropped, the request is repeated.                    *)
RejectReply(m) ==
  /\ TakesReply(m)
  /\ Collected(m)
  /\ ~m.intact
  /\ net' = (net \ {m}) \cup {Resend(m)}
  /\ UNCHANGED averageVars

(* Mutant of CollectReply: the request is not repeated while answers are   *)
(* missing.                                                                *)
CollectReplyWithoutResend(m) ==
  /\ TakesReply(m)
  /\ Collected(m)
  /\ m.intact
  /\ g_GSC2_GSCN_rcvd_data' =
       [g_GSC2_GSCN_rcvd_data EXCEPT ![g_GSC2_ScanAvgNumber_cnt] = m.by]
  /\ g_GSC2_ScanAvgNumber_cnt' = g_GSC2_ScanAvgNumber_cnt + 1
  /\ net' = (net \ {m}) \cup
       IF g_GSC2_ScanAvgNumber_cnt' < g_GSC2_ScanAvgNumber THEN {}
       ELSE {Answer(m, g_GSC2_ScanAvgNumber,
                    {g_GSC2_GSCN_rcvd_data'[i] :
                       i \in 0 .. g_GSC2_ScanAvgNumber - 1},
                    g_GSC2_PointAvgNumber, TRUE)}
  /\ UNCHANGED <<g_GSC2_flag, g_GSC2_GSCN_send_data, g_GSC2_ScanAvgNumber,
                 g_GSC2_PointAvgNumber>>

(* A good answer is kept, and counted for ever: the count is not reset     *)
(* when the average is sent.  (Writing past the last buffer, which         *)
(* IndexInBounds excludes, changes no buffer here.)                        *)
CollectReply(m) ==
  /\ TakesReply(m)
  /\ Collected(m)
  /\ m.intact
  /\ g_GSC2_GSCN_rcvd_data' =
       [g_GSC2_GSCN_rcvd_data EXCEPT ![g_GSC2_ScanAvgNumber_cnt] = m.by]
  /\ g_GSC2_ScanAvgNumber_cnt' = g_GSC2_ScanAvgNumber_cnt + 1
  /\ LET averaged == {g_GSC2_GSCN_rcvd_data'[i] :
                        i \in 0 .. g_GSC2_ScanAvgNumber - 1}
     IN  net' = (net \ {m}) \cup
           {IF g_GSC2_ScanAvgNumber_cnt' < g_GSC2_ScanAvgNumber THEN Resend(m)
            ELSE Answer(m, g_GSC2_ScanAvgNumber, averaged,
                        g_GSC2_PointAvgNumber, TRUE)}
  /\ UNCHANGED <<g_GSC2_flag, g_GSC2_GSCN_send_data, g_GSC2_ScanAvgNumber,
                 g_GSC2_PointAvgNumber>>

NoReply ==
  /\ pc = "sensor"
  /\ ~SensorBlocks
  /\ \A m \in net : m.kind # "reply"
  /\ pc' = "key"
  /\ UNCHANGED <<averageVars, net, clientVars>>

(* The loop ends with the key q, Q or ESC.                                 *)
PollKey ==
  /\ pc = "key"
  /\ pc' \in {"client", "stopped"}
  /\ UNCHANGED <<averageVars, net, clientVars>>

RelayStep ==
  \/ \E m \in net : RelayRequest(m)
  \/ NoRequest
  \/ \E m \in net : PassReply(m)
  \/ \E m \in net : RejectReply(m)
  \/ \E m \in net : CollectReply(m)
  \/ NoReply
  \/ PollKey

-----------------------------------------------------------------------------
(* The client, the sensor and the network.                                 *)

ClientSends ==
  /\ cpc = "idle"
  /\ cseq < MaxCalls
  /\ cseq' = cseq + 1
  /\ cur' \in [id : {"GSC2"}, n : AskedScans, p : AskedPoints]
              \cup {[id |-> "OTHER", n |-> 0, p |-> 0]}
  /\ net' = net \cup {[kind |-> "request", seq |-> cseq', body |-> cur']}
  /\ cpc' = "waiting"
  /\ lost' = FALSE
  /\ UNCHANGED <<pc, averageVars, result>>

ClientReceives(m) ==
  /\ cpc = "waiting"
  /\ m \in net
  /\ m.kind = "answer"
  /\ result' = m
  /\ net' = net \ {m}
  /\ cpc' = "idle"
  /\ UNCHANGED <<pc, averageVars, cseq, cur, lost>>

ClientTimesOut ==
  /\ cpc = "waiting"
  /\ LateAnswers \/ net = {}
  /\ result' = Timeout
  /\ cpc' = "idle"
  /\ UNCHANGED <<pc, averageVars, net, cseq, cur, lost>>

(* A scan that does not fit is cut off by the relay's read(): to the relay *)
(* it is an answer whose checksum is wrong.                                *)
SensorServes(m) ==
  /\ m \in net
  /\ m.kind = "forward"
  /\ \E id \in {m.id, "ERR"} :
       net' = (net \ {m}) \cup
         {[kind |-> "reply", chain |-> m.chain, by |-> m.by, id |-> id,
           intact |-> id # "GSCN" \/ ScansFit]}
  /\ UNCHANGED <<pc, averageVars, clientVars>>

Lose(m) ==
  /\ Lossy
  /\ m \in net
  /\ net' = net \ {m}
  /\ lost' = TRUE
  /\ UNCHANGED <<pc, averageVars, cpc, cseq, cur, result>>

(* What a damaged datagram can look like.  The averages are all the relay  *)
(* reads of a request; it does not check its checksum and sends a new one. *)
Damaged(m) ==
  IF m.kind \in {"reply", "answer"}
  THEN {[m EXCEPT !.id = id, !.intact = FALSE] : id \in {m.id, "JUNK"}}
  ELSE IF DamagesRequests /\ m.kind = "request"
  THEN {[m EXCEPT !.body = [id |-> m.body.id, n |-> n, p |-> p]] :
          n \in AskedScans, p \in AskedPoints}
  ELSE {}

Corrupt(m) ==
  /\ Lossy
  /\ m \in net
  /\ \E d \in Damaged(m) : net' = (net \ {m}) \cup {d}
  /\ UNCHANGED <<pc, averageVars, clientVars>>

Next ==
  \/ RelayStep
  \/ ClientSends
  \/ \E m \in net : ClientReceives(m)
  \/ ClientTimesOut
  \/ \E m \in net : SensorServes(m)
  \/ \E m \in net : Lose(m)
  \/ \E m \in net : Corrupt(m)

Spec == Init /\ [][Next]_vars

(* The loop runs, the sensor answers what reaches it, the client reads.    *)
Fairness ==
  /\ WF_vars(RelayStep)
  /\ WF_vars(\E m \in net : SensorServes(m))
  /\ WF_vars(\E m \in net : ClientReceives(m))

FairSpec == Spec /\ Fairness

-----------------------------------------------------------------------------
(* Properties.                                                             *)

TypeOK ==
  /\ pc \in {"client", "sensor", "key", "stopped"}
  /\ g_GSC2_flag \in BOOLEAN
  /\ g_GSC2_GSCN_send_data \in Nat
  /\ g_GSC2_ScanAvgNumber \in 1 .. ScanAvgMax
  /\ g_GSC2_ScanAvgNumber_cnt \in Nat
  /\ g_GSC2_PointAvgNumber \in Nat \ {0}
  /\ g_GSC2_GSCN_rcvd_data \in [Indices -> Nat]
  /\ net \subseteq Requests \cup Forwards \cup Replies \cup Answers
  /\ cpc \in {"idle", "waiting"}
  /\ cseq \in Nat
  /\ cur \in Asked
  /\ result \in Answers \cup {Timeout}
  /\ lost \in BOOLEAN

(* An answer is stored inside g_GSC2_GSCN_rcvd_data: the loop never stores *)
(* a GSCN answer it did not have a buffer for.                             *)
IndexInBounds ==
  \A m \in net :
    pc = "sensor" /\ m.kind = "reply" /\ Collected(m) /\ m.intact =>
      g_GSC2_ScanAvgNumber_cnt \in Indices

(* The scans and the point average of a good answer to GSC2 are those the  *)
(* client asked for, within the relay's limits, and every scan in it was   *)
(* requested from the sensor after this GSC2 had reached the relay.        *)
AveragesAsAsked(a) ==
  a.kind = "answer" /\ a.id = "GSCN" /\ a.intact /\ cur.id = "GSC2" =>
    /\ a.number = ScanAvg(cur.n)
    /\ a.scans = {cseq}
    /\ a.points = PointAvg(cur.p)

(* What the client receives is the average it asked for: lost datagrams,   *)
(* repeated requests and rejected answers leave no stale or missing scan   *)
(* in the average convertRELAY_Sensor_Client_GSCN_GSC2 sends.              *)
AverageIsTheOneAsked == cpc = "idle" => AveragesAsAsked(result)

(* Why: with a client that waits long enough, at most one datagram is in   *)
(* flight.  While it is between the relay and the sensor, the variables of *)
(* the relay belong to the client's current request and the buffers below  *)
(* the count hold scans of that request.                                   *)
AveragingFor(c, n) ==
  /\ g_GSC2_ScanAvgNumber = ScanAvg(c.n)
  /\ g_GSC2_PointAvgNumber = PointAvg(c.p)
  /\ g_GSC2_flag <=> (g_GSC2_PointAvgNumber > 1 \/ g_GSC2_ScanAvgNumber > 1)
  /\ g_GSC2_flag =>
       /\ g_GSC2_ScanAvgNumber_cnt < g_GSC2_ScanAvgNumber
       /\ g_GSC2_GSCN_send_data = n
       /\ \A i \in 0 .. g_GSC2_ScanAvgNumber_cnt - 1 :
            g_GSC2_GSCN_rcvd_data[i] = n

OneInFlight == \A m, n \in net : m = n

BelongsToCall(m) ==
  /\ m.kind = "request" => m.seq = cseq /\ m.body = cur
  /\ m.kind \in {"forward", "reply"} =>
       /\ m.by = cseq
       /\ cur.id = "GSC2" => AveragingFor(cur, cseq)
       /\ cur.id = "OTHER" => ~g_GSC2_flag /\ m.id # "GSCN"
  /\ m.kind = "answer" => AveragesAsAsked(m)

(* The relay's globals and the one datagram in flight always belong to the *)
(* client's current request; nothing is left over when the client is idle. *)
RelayInv ==
  /\ cpc = "idle" => net = {}
  /\ OneInFlight
  /\ \A m \in net : BelongsToCall(m)

(* What is in flight is made for the client's current request and, where   *)
(* its checksum is right, is of its kind or a refusal.                     *)
Wanted == IF cur.id = "GSC2" THEN "GSCN" ELSE "OTHER"

AnswersCall(m) ==
  /\ m.kind = "forward" => m.chain = cseq /\ m.id = Wanted
  /\ m.kind \in {"reply", "answer"} =>
       m.chain = cseq /\ (m.intact => m.id \in {"ERR", Wanted})

AnswersInv == \A m \in net : AnswersCall(m)

(* The relay and the sensor behind it are to a client a sensor that can    *)
(* average: of all the datagrams the relay makes, repeats, collects and    *)
(* drops the client sees one answer to its request, or none.               *)
Promise == INSTANCE AverageCall WITH phase <- cpc, number <- cseq, call <- cur
AverageCallSpec == Promise!Spec

(* Every call is answered unless one of its datagrams is lost: a damaged   *)
(* answer of the sensor is requested again, so that damage which ends some *)
(* day keeps no client of testRELAY_NET_NET or testRELAY_UART_NET waiting. *)
EveryCallAnswered ==
  <>[][\A m \in net : ~Corrupt(m)]_vars =>
    (cpc = "waiting" ~>
       (cpc = "idle" /\ result # Timeout) \/ lost \/ pc = "stopped")

(* "if new data is available on the console, send it to the serial port":  *)
(* the loop takes what the sensor has sent.                                *)
SensorDataTaken ==
  (\E m \in net : m.kind = "reply") ~>
    (\A m \in net : m.kind # "reply") \/ pc = "stopped"
=============================================================================
