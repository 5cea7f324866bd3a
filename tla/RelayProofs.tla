---------------------------- MODULE RelayProofs ----------------------------
(***************************************************************************)
(* Theorems about Relay: type correctness on every network; that the index *)
(* into the array of answers stays in bounds and that an average is the    *)
(* one the client asked for, when the client waits long enough and its     *)
(* requests reach the relay as they were sent or not at all.               *)
(***************************************************************************)
EXTENDS Relay, TLAPS

USE DEF averageVars, clientVars

(* The limits convertRELAY_Client_Sensor_GSC2_GSCN puts on what it reads.  *)
LEMMA AverageLimits ==
  ASSUME NEW n \in Int, NEW p \in Int
  PROVE  ScanAvg(n) \in 1 .. ScanAvgMax /\ PointAvg(p) \in Nat \ {0}
  BY RelayAssumption DEF ScanAvg, PointAvg

-----------------------------------------------------------------------------
(* Type correctness.                                                       *)

LEMMA TypeInit == Init => TypeOK
<1> SUFFICES ASSUME Init PROVE TypeOK
  OBVIOUS
<1>1. [id |-> "OTHER", n |-> 0, p |-> 0] \in Asked
  BY DEF Asked
<1>2. [i \in Indices |-> 0] \in [Indices -> Nat]
  OBVIOUS
<1>3. /\ g_GSC2_ScanAvgNumber \in 1 .. ScanAvgMax
      /\ g_GSC2_PointAvgNumber \in Nat \ {0}
      /\ g_GSC2_ScanAvgNumber_cnt \in Nat
      /\ g_GSC2_GSCN_send_data \in Nat
      /\ cseq \in Nat
  BY RelayAssumption DEF Init
<1>4. cur \in Asked /\ g_GSC2_GSCN_rcvd_data \in [Indices -> Nat]
  BY <1>1, <1>2 DEF Init
<1>5. /\ pc \in {"client", "sensor", "key", "stopped"}
      /\ g_GSC2_flag \in BOOLEAN
      /\ net \subseteq Requests \cup Forwards \cup Replies \cup Answers
      /\ cpc \in {"idle", "waiting"}
      /\ result \in Answers \cup {Timeout}
      /\ lost \in BOOLEAN
  BY DEF Init
<1> QED BY <1>3, <1>4, <1>5 DEF TypeOK

LEMMA RequestType ==
  ASSUME TypeOK, NEW m \in net, RelayRequest(m)
  PROVE  TypeOK'
<1>1. m \in Requests
  BY DEF RelayRequest, TypeOK, Forwards, Replies, Answers
<1>2. m.seq \in Nat /\ m.body \in Asked
  BY <1>1 DEF Requests
<1>3. ScanAvg(m.body.n) \in 1 .. ScanAvgMax /\ PointAvg(m.body.p) \in Nat \ {0}
  BY <1>2, AverageLimits DEF Asked
<1> DEFINE f == Forward(m.seq, m.seq,
                        IF m.body.id = "GSC2" THEN "GSCN" ELSE "OTHER")
<1>4. f \in Forwards
  BY <1>2 DEF Forward, Forwards
<1>5. net' = (net \ {m}) \cup {f} /\ pc' = "sensor" /\ UNCHANGED clientVars
  BY DEF RelayRequest
<1> HIDE DEF f
<1>6. /\ g_GSC2_flag' \in BOOLEAN
      /\ g_GSC2_ScanAvgNumber' \in 1 .. ScanAvgMax
      /\ g_GSC2_PointAvgNumber' \in Nat \ {0}
      /\ g_GSC2_ScanAvgNumber_cnt' \in Nat
      /\ g_GSC2_GSCN_send_data' \in Nat
      /\ g_GSC2_GSCN_rcvd_data' \in [Indices -> Nat]
  <2>1. CASE m.body.id = "GSC2"
    <3>1. ConvertGSC2(m)
      BY <2>1 DEF RelayRequest, ConvertClientSensor
    <3> QED BY <1>2, <1>3, <3>1 DEF ConvertGSC2, TypeOK
  <2>2. CASE m.body.id # "GSC2"
    BY <2>2 DEF RelayRequest, ConvertClientSensor, TypeOK
  <2> QED BY <2>1, <2>2
<1> QED BY <1>4, <1>5, <1>6 DEF TypeOK

LEMMA ReplyKind ==
  ASSUME TypeOK, NEW m \in net, TakesReply(m)
  PROVE  m \in Replies
  BY DEF TakesReply, TypeOK, Forwards, Requests, Answers

LEMMA CollectType ==
  ASSUME TypeOK, NEW m \in net, CollectReply(m)
  PROVE  TypeOK'
<1>1. m \in Replies
  BY ReplyKind DEF CollectReply
<1>2. g_GSC2_GSCN_rcvd_data' \in [Indices -> Nat]
  BY <1>1 DEF CollectReply, TypeOK, Replies
<1> DEFINE averaged == {g_GSC2_GSCN_rcvd_data'[i] :
                          i \in 0 .. g_GSC2_ScanAvgNumber - 1}
<1>3. averaged \subseteq Nat
  <2>1. 0 .. g_GSC2_ScanAvgNumber - 1 \subseteq Indices
    BY RelayAssumption DEF TypeOK, Indices
  <2> QED BY <1>2, <2>1
<1> HIDE DEF averaged
<1>4. Answer(m, g_GSC2_ScanAvgNumber, averaged, g_GSC2_PointAvgNumber, TRUE)
        \in Answers
  BY <1>1, <1>3, RelayAssumption DEF Answer, Answers, Replies, TypeOK
<1>5. Resend(m) \in Forwards
  BY <1>1 DEF Resend, Forward, Forwards, Replies, TypeOK
<1>6. net' \subseteq Requests \cup Forwards \cup Replies \cup Answers
  BY <1>4, <1>5 DEF CollectReply, TypeOK, averaged
<1>7. /\ pc' = "key"
      /\ g_GSC2_ScanAvgNumber_cnt' = g_GSC2_ScanAvgNumber_cnt + 1
      /\ UNCHANGED <<g_GSC2_flag, g_GSC2_GSCN_send_data, g_GSC2_ScanAvgNumber,
                     g_GSC2_PointAvgNumber, clientVars>>
  BY DEF CollectReply, TakesReply
<1> QED BY <1>2, <1>6, <1>7 DEF TypeOK

(* Damage leaves a reply a reply and an answer an answer, whose checksum   *)
(* is wrong, and a request a request.                                      *)
LEMMA DamagedType ==
  ASSUME TypeOK, NEW m \in net, NEW d \in Damaged(m)
  PROVE  d \in Requests \cup Replies \cup Answers
<1>1. CASE m.kind \in {"reply", "answer"}
  <2>1. m \in Replies \cup Answers
    BY <1>1 DEF TypeOK, Requests, Forwards
  <2>2. PICK id \in {m.id, "JUNK"} : d = [m EXCEPT !.id = id, !.intact = FALSE]
    BY <1>1 DEF Damaged
  <2>3. CASE m \in Replies
    BY <2>2, <2>3 DEF Replies
  <2>4. CASE m \in Answers
    BY <2>2, <2>4 DEF Answers
  <2> QED BY <2>1, <2>3, <2>4
<1>2. CASE m.kind \notin {"reply", "answer"}
  <2>1. m.kind = "request"
    BY <1>2 DEF Damaged
  <2>2. m \in Requests
    BY <2>1 DEF TypeOK, Forwards, Replies, Answers
  <2>3. PICK n \in AskedScans, p \in AskedPoints :
          d = [m EXCEPT !.body = [id |-> m.body.id, n |-> n, p |-> p]]
    BY <1>2, <2>1 DEF Damaged
  <2>4. [id |-> m.body.id, n |-> n, p |-> p] \in Asked
    BY <2>2, RelayAssumption DEF Requests, Asked
  <2> QED BY <2>2, <2>3, <2>4 DEF Requests
<1> QED BY <1>1, <1>2

LEMMA TypeStep == TypeOK /\ [Next]_vars => TypeOK'
<1> SUFFICES ASSUME TypeOK, [Next]_vars PROVE TypeOK'
  OBVIOUS
<1>1. ASSUME NEW m \in net, PassReply(m) PROVE TypeOK'
  <2>1. m \in Replies
    BY <1>1, ReplyKind DEF PassReply
  <2>2. Answer(m, 1, {m.by}, 1, m.intact) \in Answers
    BY <2>1 DEF Answer, Answers, Replies
  <2> QED BY <1>1, <2>2 DEF PassReply, TakesReply, TypeOK
<1>2. ASSUME NEW m \in net, RejectReply(m) PROVE TypeOK'
  <2>1. m \in Replies
    BY <1>2, ReplyKind DEF RejectReply
  <2>2. Resend(m) \in Forwards
    BY <2>1 DEF Resend, Forward, Forwards, Replies, TypeOK
  <2> QED BY <1>2, <2>2 DEF RejectReply, TakesReply, TypeOK
<1>3. CASE RelayStep
  <2>1. CASE NoRequest \/ NoReply \/ PollKey
    BY <2>1 DEF NoRequest, NoReply, PollKey, TypeOK
  <2> QED BY <1>1, <1>2, <1>3, <2>1, RequestType, CollectType DEF RelayStep
<1>4. CASE ClientSends
  <2>1. cur' \in Asked
    <3>1. cur' \in [id : {"GSC2"}, n : AskedScans, p : AskedPoints]
                     \cup {[id |-> "OTHER", n |-> 0, p |-> 0]}
      BY <1>4 DEF ClientSends
    <3>2. CASE cur' \in [id : {"GSC2"}, n : AskedScans, p : AskedPoints]
      BY <3>2, RelayAssumption DEF Asked
    <3>3. CASE cur' = [id |-> "OTHER", n |-> 0, p |-> 0]
      BY <3>3 DEF Asked
    <3> QED BY <3>1, <3>2, <3>3
  <2>2. [kind |-> "request", seq |-> cseq', body |-> cur'] \in Requests
    BY <1>4, <2>1 DEF ClientSends, Requests, TypeOK
  <2>3. net' \subseteq Requests \cup Forwards \cup Replies \cup Answers
    BY <1>4, <2>2 DEF ClientSends, TypeOK
  <2>4. cseq' \in Nat
    BY <1>4 DEF ClientSends, TypeOK
  <2>5. lost' \in BOOLEAN
    BY <1>4 DEF ClientSends
  <2>6. cpc' = "waiting" /\ UNCHANGED <<pc, averageVars, result>>
    BY <1>4 DEF ClientSends
  <2> QED BY <2>1, <2>3, <2>4, <2>5, <2>6 DEF TypeOK
<1>5. ASSUME NEW m \in net, ClientReceives(m) PROVE TypeOK'
  <2>1. m \in Answers
    BY <1>5 DEF ClientReceives, TypeOK, Requests, Forwards, Replies
  <2> QED BY <1>5, <2>1 DEF ClientReceives, TypeOK
<1>6. CASE ClientTimesOut
  BY <1>6 DEF ClientTimesOut, TypeOK
<1>7. ASSUME NEW m \in net, SensorServes(m) PROVE TypeOK'
  <2>1. m \in Forwards
    BY <1>7 DEF SensorServes, TypeOK, Requests, Replies, Answers
  <2>2. PICK id \in {m.id, "ERR"} :
          net' = (net \ {m}) \cup
            {[kind |-> "reply", chain |-> m.chain, by |-> m.by, id |-> id,
              intact |-> id # "GSCN" \/ ScansFit]}
    BY <1>7 DEF SensorServes
  <2>3. [kind |-> "reply", chain |-> m.chain, by |-> m.by, id |-> id,
         intact |-> id # "GSCN" \/ ScansFit] \in Replies
    BY <2>1, RelayAssumption DEF Forwards, Replies
  <2> QED BY <1>7, <2>2, <2>3 DEF SensorServes, TypeOK
<1>8. ASSUME NEW m \in net, Lose(m) PROVE TypeOK'
  BY <1>8 DEF Lose, TypeOK
<1>9. ASSUME NEW m \in net, Corrupt(m) PROVE TypeOK'
  <2>1. PICK d \in Damaged(m) : net' = (net \ {m}) \cup {d}
    BY <1>9 DEF Corrupt
  <2>2. d \in Requests \cup Replies \cup Answers
    BY DamagedType
  <2> QED BY <1>9, <2>1, <2>2 DEF Corrupt, TypeOK
<1>10. CASE UNCHANGED vars
  BY <1>10 DEF vars, TypeOK
<1> QED BY <1>3, <1>4, <1>5, <1>6, <1>7, <1>8, <1>9, <1>10 DEF Next

(* Whatever is lost, corrupted or late, the relay's variables keep their   *)
(* types; in particular 1 <= g_GSC2_ScanAvgNumber <= ScanAvgMax whatever a *)
(* client asks for.                                                        *)
THEOREM RelayTypeCorrect == Spec => []TypeOK
  BY TypeInit, TypeStep, PTL DEF Spec

-----------------------------------------------------------------------------
(* The relay's variables belong to the client's current request.           *)

LEMMA RelayInvInit == Init => RelayInv
  BY DEF Init, RelayInv, OneInFlight

(* The invariant after a step that leaves at most one datagram.            *)
LEMMA SingleDatagram ==
  ASSUME NEW m, net' \subseteq {m}, cpc' = "waiting", BelongsToCall(m)'
  PROVE  RelayInv'
  BY DEF RelayInv, OneInFlight

LEMMA WaitingWhileInFlight ==
  ASSUME TypeOK, RelayInv, NEW m \in net
  PROVE  cpc = "waiting" /\ net = {m}
  BY DEF TypeOK, RelayInv, OneInFlight

LEMMA RelayRequestStep ==
  ASSUME TypeOK, RelayInv, NEW m \in net, RelayRequest(m)
  PROVE  RelayInv'
<1>1. m.seq = cseq /\ m.body = cur
  BY DEF RelayInv, BelongsToCall, RelayRequest
<1>0. PICK f : f = Forward(cseq, cseq, IF cur.id = "GSC2" THEN "GSCN" ELSE "OTHER")
  OBVIOUS
<1>2. net' = {f} /\ UNCHANGED clientVars
  BY <1>0, <1>1, WaitingWhileInFlight DEF RelayRequest
<1>3. f.kind = "forward" /\ f.by = cseq /\ (cur.id = "OTHER" => f.id = "OTHER")
  BY <1>0 DEF Forward
<1>4. ASSUME cur.id = "GSC2" PROVE AveragingFor(cur, cseq)'
  <2>1. ConvertGSC2(m)
    BY <1>1, <1>4 DEF RelayRequest, ConvertClientSensor
  <2>2. ScanAvg(cur.n) \in 1 .. ScanAvgMax /\ PointAvg(cur.p) \in Nat \ {0}
    BY AverageLimits DEF TypeOK, Asked
  <2>3. /\ g_GSC2_ScanAvgNumber' = ScanAvg(cur'.n)
        /\ g_GSC2_PointAvgNumber' = PointAvg(cur'.p)
        /\ g_GSC2_flag' <=> (g_GSC2_PointAvgNumber' > 1 \/ g_GSC2_ScanAvgNumber' > 1)
    BY <1>1, <1>2, <2>1 DEF ConvertGSC2
  <2>4. g_GSC2_flag' => g_GSC2_ScanAvgNumber_cnt' = 0 /\ g_GSC2_GSCN_send_data' = cseq'
    BY <1>1, <1>2, <2>1 DEF ConvertGSC2
  <2>5. 0 < g_GSC2_ScanAvgNumber'
    BY <1>2, <2>2, <2>3
  <2>6. g_GSC2_flag' =>
          \A i \in 0 .. g_GSC2_ScanAvgNumber_cnt' - 1 :
            g_GSC2_GSCN_rcvd_data'[i] = cseq'
    BY <2>4
  <2> QED BY <1>2, <2>3, <2>4, <2>5, <2>6 DEF AveragingFor
<1>5. ASSUME cur.id = "OTHER" PROVE ~g_GSC2_flag'
  BY <1>1, <1>5 DEF RelayRequest, ConvertClientSensor
<1>6. BelongsToCall(f)'
  BY <1>2, <1>3, <1>4, <1>5 DEF BelongsToCall
<1>7. cpc' = "waiting"
  BY <1>2, WaitingWhileInFlight
<1> QED BY <1>2, <1>6, <1>7, SingleDatagram

LEMMA ReplyBelongs ==
  ASSUME TypeOK, RelayInv, NEW m \in net, TakesReply(m)
  PROVE  /\ m.by = cseq
         /\ cur.id = "GSC2" => AveragingFor(cur, cseq)
         /\ cur.id = "OTHER" => ~g_GSC2_flag /\ m.id # "GSCN"
         /\ cpc' = "waiting"
         /\ net = {m}
         /\ UNCHANGED <<cseq, cur>>
  BY WaitingWhileInFlight DEF TakesReply, RelayInv, BelongsToCall

LEMMA PassReplyStep ==
  ASSUME TypeOK, RelayInv, NEW m \in net, PassReply(m)
  PROVE  RelayInv'
<1> DEFINE a == Answer(m, 1, {m.by}, 1, m.intact)
<1>1. TakesReply(m) /\ net' = (net \ {m}) \cup {a}
  BY DEF PassReply
<1>2. /\ a.kind = "answer" /\ a.id = m.id /\ a.number = 1
      /\ a.scans = {m.by} /\ a.points = 1
  BY DEF Answer
<1> HIDE DEF a
<1>3. ASSUME a.id = "GSCN", cur.id = "GSC2"
      PROVE  ScanAvg(cur.n) = 1 /\ PointAvg(cur.p) = 1
  <2>1. AveragingFor(cur, cseq) /\ ~g_GSC2_flag
    BY <1>1, <1>2, <1>3, ReplyBelongs DEF PassReply, Collected
  <2>2. ScanAvg(cur.n) \in 1 .. ScanAvgMax /\ PointAvg(cur.p) \in Nat \ {0}
    BY AverageLimits DEF TypeOK, Asked
  <2> QED BY <2>1, <2>2, RelayAssumption DEF AveragingFor
<1>4. AveragesAsAsked(a)'
  BY <1>1, <1>2, <1>3, ReplyBelongs DEF AveragesAsAsked
<1>5. BelongsToCall(a)'
  BY <1>2, <1>4 DEF BelongsToCall
<1> QED BY <1>1, <1>5, ReplyBelongs, SingleDatagram

LEMMA RejectReplyStep ==
  ASSUME TypeOK, RelayInv, NEW m \in net, RejectReply(m)
  PROVE  RelayInv'
<1>1. TakesReply(m) /\ g_GSC2_flag /\ UNCHANGED averageVars
  BY DEF RejectReply, Collected
<1>2. PICK f : f = Resend(m)
  OBVIOUS
<1>5. net' = {f}
  BY <1>1, <1>2, ReplyBelongs DEF RejectReply
<1>3. cur.id = "GSC2"
  BY <1>1, ReplyBelongs DEF TypeOK, Asked
<1>4. AveragingFor(cur, cseq)'
  BY <1>1, <1>3, ReplyBelongs DEF AveragingFor
<1>6. BelongsToCall(f)'
  <2>1. f.kind = "forward" /\ f.by = cseq
    BY <1>1, <1>2, <1>3, ReplyBelongs DEF Resend, Forward, AveragingFor
  <2> QED BY <1>1, <1>3, <1>4, <2>1, ReplyBelongs DEF BelongsToCall
<1> QED BY <1>1, <1>5, <1>6, ReplyBelongs, SingleDatagram

LEMMA CollectReplyStep ==
  ASSUME TypeOK, RelayInv, NEW m \in net, CollectReply(m)
  PROVE  RelayInv'
<1>1. /\ TakesReply(m)
      /\ g_GSC2_flag
      /\ m.id = "GSCN"
      /\ UNCHANGED <<g_GSC2_flag, g_GSC2_GSCN_send_data, g_GSC2_ScanAvgNumber,
                     g_GSC2_PointAvgNumber>>
  BY DEF CollectReply, Collected
<1>2. cur.id = "GSC2" /\ AveragingFor(cur, cseq) /\ m.by = cseq
  BY <1>1, ReplyBelongs DEF TypeOK, Asked
<1> DEFINE cnt == g_GSC2_ScanAvgNumber_cnt
           number == g_GSC2_ScanAvgNumber
           averaged == {g_GSC2_GSCN_rcvd_data'[i] : i \in 0 .. number - 1}
<1>3. /\ cnt \in Nat /\ number \in 1 .. ScanAvgMax /\ cnt < number
      /\ cnt \in Indices
      /\ cnt' = cnt + 1
  BY <1>1, <1>2, RelayAssumption DEF TypeOK, AveragingFor, Indices, CollectReply
<1>4. \A i \in 0 .. cnt' - 1 : g_GSC2_GSCN_rcvd_data'[i] = cseq
  <2>1. g_GSC2_GSCN_rcvd_data' = [g_GSC2_GSCN_rcvd_data EXCEPT ![cnt] = cseq]
    BY <1>2 DEF CollectReply
  <2>2. \A i \in 0 .. cnt - 1 : i \in Indices /\ g_GSC2_GSCN_rcvd_data[i] = cseq
    <3>1. \A i \in 0 .. cnt - 1 : i \in Indices
      BY <1>3, RelayAssumption DEF Indices
    <3>2. \A i \in 0 .. cnt - 1 : g_GSC2_GSCN_rcvd_data[i] = cseq
      BY <1>1, <1>2 DEF AveragingFor
    <3> QED BY <3>1, <3>2
  <2>3. g_GSC2_GSCN_rcvd_data \in [Indices -> Nat]
    BY DEF TypeOK
  <2>4. \A i \in 0 .. cnt' - 1 : i = cnt \/ i \in 0 .. cnt - 1
    BY <1>3
  <2> QED BY <1>3, <2>1, <2>2, <2>3, <2>4
<1>5. CASE cnt' < number
  <2>1. PICK f : f = Resend(m)
    OBVIOUS
  <2>2. net' = {f}
    BY <1>1, <1>5, <2>1, ReplyBelongs DEF CollectReply
  <2>3. AveragingFor(cur, cseq)'
    BY <1>1, <1>2, <1>4, <1>5, ReplyBelongs DEF AveragingFor
  <2>4. f.kind = "forward" /\ f.by = cseq
    BY <1>1, <1>2, <2>1 DEF Resend, Forward, AveragingFor
  <2>5. BelongsToCall(f)'
    BY <1>1, <1>2, <2>3, <2>4, ReplyBelongs DEF BelongsToCall
  <2> QED BY <1>1, <2>2, <2>5, ReplyBelongs, SingleDatagram
<1>6. CASE ~(cnt' < number)
  <2>1. PICK a : a = Answer(m, number, averaged, g_GSC2_PointAvgNumber, TRUE)
    OBVIOUS
  <2>2. net' = {a}
    BY <1>1, <1>6, <2>1, ReplyBelongs DEF CollectReply
  <2>3. averaged = {cseq}
    <3>1. cnt' = number
      BY <1>3, <1>6
    <3>2. 0 \in 0 .. number - 1
      BY <1>3
    <3> QED BY <1>4, <3>1, <3>2
  <2> HIDE DEF averaged
  <2>4. /\ a.kind = "answer" /\ a.number = number
        /\ a.scans = {cseq} /\ a.points = g_GSC2_PointAvgNumber
    BY <2>1, <2>3 DEF Answer
  <2>5. AveragesAsAsked(a)'
    BY <1>1, <1>2, <2>4, ReplyBelongs DEF AveragesAsAsked, AveragingFor
  <2>6. BelongsToCall(a)'
    BY <2>4, <2>5 DEF BelongsToCall
  <2> QED BY <1>1, <2>2, <2>6, ReplyBelongs, SingleDatagram
<1> QED BY <1>5, <1>6

LEMMA RelayInvStep ==
  ASSUME ~LateAnswers, ~DamagesRequests
  PROVE  TypeOK /\ RelayInv /\ [Next]_vars => RelayInv'
<1> SUFFICES ASSUME TypeOK, RelayInv, [Next]_vars PROVE RelayInv'
  OBVIOUS
<1>1. ASSUME UNCHANGED <<averageVars, net, clientVars>> PROVE RelayInv'
  BY <1>1 DEF RelayInv, OneInFlight, BelongsToCall, AveragingFor, AveragesAsAsked
<1>2. CASE RelayStep
  <2>1. CASE NoRequest \/ NoReply \/ PollKey
    BY <1>1, <2>1 DEF NoRequest, NoReply, PollKey
  <2> QED BY <1>2, <2>1, RelayRequestStep, PassReplyStep, RejectReplyStep,
             CollectReplyStep DEF RelayStep
<1>3. CASE ClientSends
  <2>1. PICK m : m = [kind |-> "request", seq |-> cseq', body |-> cur']
    OBVIOUS
  <2>2. net' = {m} /\ cpc' = "waiting"
    BY <1>3, <2>1 DEF ClientSends, RelayInv
  <2>3. BelongsToCall(m)'
    BY <2>1 DEF BelongsToCall
  <2> QED BY <2>2, <2>3, SingleDatagram
<1>4. ASSUME NEW m \in net, ClientReceives(m) PROVE RelayInv'
  <2>1. net' = {}
    BY <1>4, WaitingWhileInFlight DEF ClientReceives
  <2> QED BY <2>1 DEF RelayInv, OneInFlight
<1>5. CASE ClientTimesOut
  <2>1. net' = {}
    BY <1>5 DEF ClientTimesOut
  <2> QED BY <2>1 DEF RelayInv, OneInFlight
<1>6. ASSUME NEW m \in net, SensorServes(m) PROVE RelayInv'
  <2>1. PICK id \in {m.id, "ERR"} :
          net' = (net \ {m}) \cup
            {[kind |-> "reply", chain |-> m.chain, by |-> m.by, id |-> id,
              intact |-> id # "GSCN" \/ ScansFit]}
    BY <1>6 DEF SensorServes
  <2>2. PICK r : r = [kind |-> "reply", chain |-> m.chain, by |-> m.by,
                      id |-> id, intact |-> id # "GSCN" \/ ScansFit]
    OBVIOUS
  <2>3. net' = {r} /\ cpc' = "waiting"
    BY <1>6, <2>1, <2>2, WaitingWhileInFlight DEF SensorServes
  <2>4. BelongsToCall(m) /\ m.kind = "forward"
    BY <1>6 DEF RelayInv, SensorServes
  <2>5. r.kind = "reply" /\ r.by = m.by /\ r.id = id
    BY <2>2
  <2>6. BelongsToCall(r)'
    BY <1>6, <2>1, <2>4, <2>5 DEF SensorServes, BelongsToCall, AveragingFor
  <2> QED BY <2>3, <2>6, SingleDatagram
<1>7. ASSUME NEW m \in net, Lose(m) PROVE RelayInv'
  <2>1. net' = {}
    BY <1>7, WaitingWhileInFlight DEF Lose
  <2> QED BY <2>1 DEF RelayInv, OneInFlight
<1>8. ASSUME NEW m \in net, Corrupt(m) PROVE RelayInv'
  <2>1. PICK r \in Damaged(m) : net' = (net \ {m}) \cup {r}
    BY <1>8 DEF Corrupt
  <2>4. BelongsToCall(m) /\ m.kind \in {"reply", "answer"}
    BY DEF RelayInv, Damaged
  <2>2. PICK id \in {m.id, "JUNK"} : r = [m EXCEPT !.id = id, !.intact = FALSE]
    BY <2>4 DEF Damaged
  <2>3. net' = {r} /\ cpc' = "waiting"
    BY <1>8, <2>1, WaitingWhileInFlight DEF Corrupt
  <2>5. m \in Replies \cup Answers
    BY <2>4 DEF TypeOK, Requests, Forwards
  <2>6. r.kind = m.kind /\ r.id = id /\ r.intact = FALSE
    BY <2>2, <2>5 DEF Replies, Answers
  <2>7. m.kind = "reply" => r.by = m.by
    BY <2>2, <2>5 DEF Replies, Answers
  <2>8. BelongsToCall(r)'
    BY <1>8, <2>1, <2>4, <2>6, <2>7
       DEF Corrupt, BelongsToCall, AveragingFor, AveragesAsAsked
  <2> QED BY <2>3, <2>8, SingleDatagram
<1>9. CASE UNCHANGED vars
  BY <1>1, <1>9 DEF vars
<1> QED BY <1>2, <1>3, <1>4, <1>5, <1>6, <1>7, <1>8, <1>9 DEF Next

(* While the client waits long enough, one datagram at most is under way   *)
(* and the relay's globals belong to the request it was made for.          *)
THEOREM RelayInvariant ==
  ASSUME ~LateAnswers, ~DamagesRequests
  PROVE  Spec => []RelayInv
<1>1. TypeOK /\ RelayInv /\ [Next]_vars => RelayInv'
  BY RelayInvStep
<1> QED BY <1>1, RelayInvInit, RelayTypeCorrect, PTL DEF Spec

(* The answers of the sensor are never stored past the end of              *)
(* g_GSC2_GSCN_rcvd_data, however many are lost or corrupted.              *)
THEOREM IndexCorrect ==
  ASSUME ~LateAnswers, ~DamagesRequests
  PROVE  Spec => []IndexInBounds
<1>1. TypeOK /\ RelayInv => IndexInBounds
  <2> SUFFICES ASSUME TypeOK, RelayInv, NEW m \in net, m.kind = "reply",
                      g_GSC2_flag, m.id = "GSCN"
               PROVE  g_GSC2_ScanAvgNumber_cnt \in Indices
    BY DEF IndexInBounds, Collected
  <2>1. BelongsToCall(m)
    BY DEF RelayInv
  <2>2. cur.id = "GSC2"
    BY <2>1 DEF BelongsToCall, TypeOK, Asked
  <2>3. AveragingFor(cur, cseq)
    BY <2>1, <2>2 DEF BelongsToCall
  <2>4. g_GSC2_ScanAvgNumber_cnt < g_GSC2_ScanAvgNumber
    BY <2>3 DEF AveragingFor
  <2> QED BY <2>4, RelayAssumption DEF TypeOK, Indices
<1> QED BY <1>1, RelayInvariant, RelayTypeCorrect, PTL

(* What the client receives is the average of the number of scans it asked *)
(* for, all requested from the sensor for this very call.                  *)
THEOREM AverageCorrect ==
  ASSUME ~LateAnswers, ~DamagesRequests
  PROVE  Spec => []AverageIsTheOneAsked
<1>1. Init => AverageIsTheOneAsked
  BY DEF Init, AverageIsTheOneAsked, AveragesAsAsked, Timeout
<1>2. TypeOK /\ RelayInv /\ AverageIsTheOneAsked /\ [Next]_vars
        => AverageIsTheOneAsked'
  <2> SUFFICES ASSUME TypeOK, RelayInv, AverageIsTheOneAsked, [Next]_vars
               PROVE  AverageIsTheOneAsked'
    OBVIOUS
  <2>1. ASSUME NEW m \in net, ClientReceives(m) PROVE AverageIsTheOneAsked'
    BY <2>1 DEF ClientReceives, RelayInv, BelongsToCall, AverageIsTheOneAsked,
       AveragesAsAsked
  <2>2. CASE ClientTimesOut
    BY <2>2 DEF ClientTimesOut, AverageIsTheOneAsked, AveragesAsAsked, Timeout
  <2>3. CASE ClientSends
    BY <2>3 DEF ClientSends, AverageIsTheOneAsked
  <2>4. CASE UNCHANGED <<cpc, cseq, cur, result>>
    BY <2>4 DEF AverageIsTheOneAsked, AveragesAsAsked
  <2>5. ASSUME NEW m \in net, SensorServes(m) \/ Lose(m) \/ Corrupt(m)
        PROVE  UNCHANGED <<cpc, cseq, cur, result>>
    BY <2>5 DEF SensorServes, Lose, Corrupt
  <2>6. RelayStep => UNCHANGED <<cpc, cseq, cur, result>>
    BY DEF RelayStep, RelayRequest, NoRequest, PassReply, RejectReply,
       CollectReply, TakesReply, NoReply, PollKey
  <2> QED BY <2>1, <2>2, <2>3, <2>4, <2>5, <2>6 DEF Next, vars
<1> QED BY <1>1, <1>2, RelayInvariant, RelayTypeCorrect, PTL DEF Spec

-----------------------------------------------------------------------------
(* The relay implements AverageCall.                                       *)

LEMMA AnswersInvInit == Init => AnswersInv
  BY DEF Init, AnswersInv

(* The invariant after a step that leaves at most one datagram.            *)
LEMMA SingleForward ==
  ASSUME NEW f, net' \subseteq {f}, UNCHANGED <<cseq, cur>>,
         f.kind = "forward", f.chain = cseq, f.id = Wanted
  PROVE  AnswersInv'
  BY DEF AnswersInv, AnswersCall, Wanted

LEMMA SingleReply ==
  ASSUME NEW r, net' \subseteq {r}, UNCHANGED <<cseq, cur>>,
         r.kind \in {"reply", "answer"}, r.chain = cseq,
         r.intact => r.id \in {"ERR", Wanted}
  PROVE  AnswersInv'
  BY DEF AnswersInv, AnswersCall, Wanted

LEMMA AnswersTakesReply ==
  ASSUME TypeOK, RelayInv, AnswersInv, NEW m \in net, TakesReply(m)
  PROVE  /\ net = {m}
         /\ UNCHANGED <<cseq, cur>>
         /\ m.chain = cseq
         /\ m.intact => m.id \in {"ERR", Wanted}
         /\ Collected(m) => Wanted = "GSCN"
<1>1. Collected(m) => cur.id = "GSC2"
  BY ReplyBelongs DEF Collected, TypeOK, Asked
<1> QED BY <1>1, ReplyBelongs DEF TakesReply, AnswersInv, AnswersCall, Wanted

LEMMA AnswersRelayStep ==
  ASSUME TypeOK, RelayInv, AnswersInv, RelayStep
  PROVE  AnswersInv'
<1>1. ASSUME UNCHANGED <<net, clientVars>> PROVE AnswersInv'
  BY <1>1 DEF AnswersInv, AnswersCall, Wanted
<1>2. ASSUME NEW m \in net, RelayRequest(m) PROVE AnswersInv'
  <2>1. m.seq = cseq /\ m.body = cur
    BY <1>2 DEF RelayInv, BelongsToCall, RelayRequest
  <2>2. PICK f : f = Forward(cseq, cseq, Wanted)
    OBVIOUS
  <2>3. net' = {f} /\ UNCHANGED <<cseq, cur>>
    BY <1>2, <2>1, <2>2, WaitingWhileInFlight DEF RelayRequest, Wanted
  <2> QED BY <2>2, <2>3, SingleForward DEF Forward
<1>3. ASSUME NEW m \in net, PassReply(m) PROVE AnswersInv'
  <2>1. TakesReply(m)
    BY <1>3 DEF PassReply
  <2>2. net' = {Answer(m, 1, {m.by}, 1, m.intact)}
    BY <1>3, <2>1, AnswersTakesReply DEF PassReply
  <2> QED BY <2>1, <2>2, AnswersTakesReply, SingleReply DEF Answer
<1>4. ASSUME NEW m \in net, RejectReply(m) PROVE AnswersInv'
  <2>1. TakesReply(m) /\ Collected(m)
    BY <1>4 DEF RejectReply
  <2>2. net' = {Resend(m)}
    BY <1>4, <2>1, AnswersTakesReply DEF RejectReply
  <2> QED BY <2>1, <2>2, AnswersTakesReply, SingleForward DEF Resend, Forward
<1>5. ASSUME NEW m \in net, CollectReply(m) PROVE AnswersInv'
  <2>1. TakesReply(m) /\ Collected(m) /\ m.id = "GSCN"
    BY <1>5 DEF CollectReply, Collected
  <2>2. PICK averaged :
          net' = {IF g_GSC2_ScanAvgNumber_cnt' < g_GSC2_ScanAvgNumber
                  THEN Resend(m)
                  ELSE Answer(m, g_GSC2_ScanAvgNumber, averaged,
                              g_GSC2_PointAvgNumber, TRUE)}
    BY <1>5, <2>1, AnswersTakesReply DEF CollectReply
  <2>3. CASE net' = {Resend(m)}
    BY <2>1, <2>3, AnswersTakesReply, SingleForward DEF Resend, Forward
  <2>4. CASE net' = {Answer(m, g_GSC2_ScanAvgNumber, averaged,
                            g_GSC2_PointAvgNumber, TRUE)}
    BY <2>1, <2>4, AnswersTakesReply, SingleReply DEF Answer
  <2> QED BY <2>2, <2>3, <2>4
<1>6. CASE NoRequest \/ NoReply \/ PollKey
  BY <1>1, <1>6 DEF NoRequest, NoReply, PollKey
<1> QED BY <1>2, <1>3, <1>4, <1>5, <1>6 DEF RelayStep

LEMMA AnswersStep ==
  ASSUME ~LateAnswers, ~DamagesRequests
  PROVE  TypeOK /\ RelayInv /\ AnswersInv /\ [Next]_vars => AnswersInv'
<1> SUFFICES ASSUME TypeOK, RelayInv, AnswersInv, [Next]_vars
             PROVE  AnswersInv'
  OBVIOUS
<1>1. CASE ClientSends
  BY <1>1 DEF ClientSends, RelayInv, AnswersInv, AnswersCall
<1>2. ASSUME NEW m \in net, ClientReceives(m) \/ Lose(m) PROVE AnswersInv'
  BY <1>2, WaitingWhileInFlight DEF ClientReceives, Lose, AnswersInv
<1>3. CASE ClientTimesOut
  BY <1>3 DEF ClientTimesOut, AnswersInv
<1>4. ASSUME NEW m \in net, SensorServes(m) PROVE AnswersInv'
  <2>1. PICK id \in {m.id, "ERR"} :
          net' = {[kind |-> "reply", chain |-> m.chain, by |-> m.by, id |-> id,
                   intact |-> id # "GSCN" \/ ScansFit]}
    BY <1>4, WaitingWhileInFlight DEF SensorServes
  <2>2. m.chain = cseq /\ m.id = Wanted /\ UNCHANGED <<cseq, cur>>
    BY <1>4 DEF SensorServes, AnswersInv, AnswersCall
  <2>3. PICK r : r = [kind |-> "reply", chain |-> m.chain, by |-> m.by,
                      id |-> id, intact |-> id # "GSCN" \/ ScansFit]
    OBVIOUS
  <2>4. r.kind = "reply" /\ r.chain = cseq /\ r.id \in {"ERR", Wanted}
    BY <2>2, <2>3
  <2> QED BY <2>1, <2>2, <2>3, <2>4, SingleReply
<1>5. ASSUME NEW m \in net, Corrupt(m) PROVE AnswersInv'
  <2>1. PICK r \in Damaged(m) : net' = {r}
    BY <1>5, WaitingWhileInFlight DEF Corrupt
  <2>2. m.kind \in {"reply", "answer"} /\ UNCHANGED <<cseq, cur>>
    BY <1>5 DEF Corrupt, Damaged
  <2>3. m \in Replies \cup Answers
    BY <2>2 DEF TypeOK, Requests, Forwards
  <2>4. PICK id \in {m.id, "JUNK"} : r = [m EXCEPT !.id = id, !.intact = FALSE]
    BY <2>2 DEF Damaged
  <2>5. r.kind = m.kind /\ r.chain = m.chain /\ ~r.intact
    BY <2>3, <2>4 DEF Replies, Answers
  <2>6. m.chain = cseq
    BY <2>2 DEF AnswersInv, AnswersCall
  <2> QED BY <2>1, <2>2, <2>5, <2>6, SingleReply
<1>6. CASE UNCHANGED vars
  BY <1>6 DEF vars, AnswersInv, AnswersCall, Wanted
<1> QED BY <1>1, <1>2, <1>3, <1>4, <1>5, <1>6, AnswersRelayStep DEF Next

LEMMA PromiseInit == Init => Promise!Init
  BY DEF Init, Promise!Init, Promise!Other, Promise!NoAnswer, Timeout

(* The limits of the code are those of the promise.                        *)
LEMMA LimitsKept ==
  ASSUME NEW n \in Int, NEW p \in Int
  PROVE  Promise!ScansFor(ScanAvg(n), n) /\ Promise!PointsFor(PointAvg(p), p)
  BY RelayAssumption DEF ScanAvg, PointAvg, Promise!ScansFor, Promise!PointsFor

LEMMA ReceiveKeepsPromise ==
  ASSUME TypeOK, RelayInv, AnswersInv, NEW m \in net, ClientReceives(m)
  PROVE  Promise!Receive
<1>1. /\ cpc = "waiting" /\ cpc' = "idle"
      /\ m.kind = "answer" /\ result' = m
      /\ UNCHANGED <<cseq, cur>>
  BY DEF ClientReceives
<1>2. m.chain = cseq /\ (m.intact => m.id \in {"ERR", Wanted})
  BY <1>1 DEF AnswersInv, AnswersCall
<1>3. AveragesAsAsked(m)
  BY <1>1 DEF RelayInv, BelongsToCall
<1>4. cur.id \in {"GSC2", "OTHER"} /\ cur.n \in Int /\ cur.p \in Int
  BY DEF TypeOK, Asked
<1>5. ASSUME m.intact PROVE Promise!GoodAnswer(m)
  <2>1. CASE cur.id = "OTHER" \/ m.id = "ERR"
    BY <1>2, <1>5, <2>1 DEF Wanted, Promise!GoodAnswer
  <2>2. CASE cur.id = "GSC2" /\ m.id = "GSCN"
    <3>1. /\ m.number = ScanAvg(cur.n) /\ m.points = PointAvg(cur.p)
          /\ m.scans = {cseq}
      BY <1>1, <1>3, <1>5, <2>2 DEF AveragesAsAsked
    <3>2. /\ Promise!ScansFor(m.number, cur.n)
          /\ Promise!PointsFor(m.points, cur.p)
      BY <1>4, <3>1, LimitsKept
    <3> QED BY <2>2, <3>1, <3>2 DEF Promise!GoodAnswer
  <2> QED BY <1>2, <1>4, <1>5, <2>1, <2>2 DEF Wanted
<1>6. result'.intact => Promise!GoodAnswer(result')
  BY <1>1, <1>5
<1> QED BY <1>1, <1>2, <1>6 DEF Promise!Receive

LEMMA PromiseStep ==
  TypeOK /\ RelayInv /\ AnswersInv /\ [Next]_vars => [Promise!Next]_Promise!vars
<1> SUFFICES ASSUME TypeOK, RelayInv, AnswersInv, [Next]_vars
             PROVE  Promise!Next \/ UNCHANGED <<cpc, cseq, cur, result>>
  BY DEF Promise!vars
<1>1. CASE ClientSends
  BY <1>1 DEF ClientSends, Promise!Next, Promise!Ask, Promise!Other
<1>2. ASSUME NEW m \in net, ClientReceives(m) PROVE Promise!Next
  BY <1>2, ReceiveKeepsPromise DEF Promise!Next
<1>3. CASE ClientTimesOut
  BY <1>3 DEF ClientTimesOut, Timeout, Promise!Next, Promise!GiveUp,
     Promise!NoAnswer
<1>4. CASE RelayStep
  BY <1>4 DEF RelayStep, RelayRequest, NoRequest, PassReply, RejectReply,
     CollectReply, TakesReply, NoReply, PollKey
<1>5. ASSUME NEW m \in net, SensorServes(m) \/ Lose(m) \/ Corrupt(m)
      PROVE  UNCHANGED <<cpc, cseq, cur, result>>
  BY <1>5 DEF SensorServes, Lose, Corrupt
<1>6. CASE UNCHANGED vars
  BY <1>6 DEF vars
<1> QED BY <1>1, <1>2, <1>3, <1>4, <1>5, <1>6 DEF Next

(* The relay with the sensor behind it implements AverageCall: what a      *)
(* client gets is an answer to its current request, of the kind it asked   *)
(* for and with the averages it asked for, or a refusal, or nothing.       *)
THEOREM RelayImplementsAverageCall ==
  ASSUME ~LateAnswers, ~DamagesRequests
  PROVE  Spec => AverageCallSpec
<1>1. TypeOK /\ RelayInv /\ AnswersInv /\ [Next]_vars => AnswersInv'
  BY AnswersStep
<1> QED BY <1>1, AnswersInvInit, RelayTypeCorrect, RelayInvariant,
           PromiseInit, PromiseStep, PTL
        DEF Spec, AverageCallSpec, Promise!Spec
=============================================================================
