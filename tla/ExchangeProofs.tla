--------------------------- MODULE ExchangeProofs --------------------------
(***************************************************************************)
(* Theorems about Exchange.  Type correctness holds on every network; that *)
(* an answer reports the state of the sensor, and that the exchange is a   *)
(* call of the sensor, hold when an answer is read before the timeout or   *)
(* not at all, no datagram is duplicated and the host is little-endian.    *)
(***************************************************************************)
EXTENDS Exchange, TLAPS

-----------------------------------------------------------------------------
(* Error codes.                                                            *)

(* intToError() maps every integer to ERR_SUCCESS or to an error code of   *)
(* the program: no value received from the sensor leaves the table.        *)
LEMMA IntToErrorType ==
  ASSUME NEW n \in Int
  PROVE  IntToError(n) \in ErrorCodes \cup {ERR_SUCCESS}
<1>1. ErrorIndex(n) \in 0 .. 22
  BY DEF ErrorIndex, ERR_LASTERROR, ELASTERROR, ERR_INVALID_HANDLE
<1>2. \A i \in 0 .. 22 : ErrorTable[i + 1] \in ErrorCodes \cup {ERR_SUCCESS}
  BY DEF ErrorTable, ErrorCodes, ERR_LASTERROR, ELASTERROR, ERR_SUCCESS,
         ERR_SYSTEM_NOT_READY, ERR_FRONT_SCREEN_NOT_CLEAR,
         ERR_TEMPERATURE_OUT_OF_RANGE, ERR_KEM_SCAN_UNIT_FAILURE, ERR_KEM_UNIT,
         ERR_SERIAL_VERSION, ERR_CONFIGURATION_ERROR, ERR_FATAL_SYSTEM_ERROR,
         ERR_BUFFER_OVERFLOW, ERR_INDEX_OUT_OF_RANGE, ERR_DIV_BY_ZERO,
         ERR_INVALID_HANDLE, ERR_UNSUPPORTED_FUNCTION, ERR_ACCESS_DENIED,
         ERR_INVALID_PARAMETER, ERR_UNKNOWN_COMMAND, ERR_CRC, ERR_USER_BREAK,
         ERR_TIMEOUT, ERR_WRITE, ERR_READ, ERR_IO
<1> QED BY <1>1, <1>2 DEF IntToError

(* An error code of the program goes through intToError() unchanged, so a  *)
(* refusal of the sensor is never turned into ERR_SUCCESS.                 *)
LEMMA IntToErrorOfCode ==
  ASSUME NEW n \in ErrorCodes
  PROVE  IntToError(n) = n
<1>1. n \in ERR_LASTERROR + 1 .. ERR_LASTERROR + 22
  BY DEF ErrorCodes, ERR_SYSTEM_NOT_READY, ERR_IO
<1>2. ErrorIndex(n) = n - ERR_LASTERROR
  BY <1>1 DEF ErrorIndex, ERR_LASTERROR, ELASTERROR
<1>3. \A i \in 1 .. 22 : ErrorTable[i + 1] = ERR_LASTERROR + i
  BY DEF ErrorTable, ERR_LASTERROR, ELASTERROR, ERR_SUCCESS,
         ERR_SYSTEM_NOT_READY, ERR_FRONT_SCREEN_NOT_CLEAR,
         ERR_TEMPERATURE_OUT_OF_RANGE, ERR_KEM_SCAN_UNIT_FAILURE, ERR_KEM_UNIT,
         ERR_SERIAL_VERSION, ERR_CONFIGURATION_ERROR, ERR_FATAL_SYSTEM_ERROR,
         ERR_BUFFER_OVERFLOW, ERR_INDEX_OUT_OF_RANGE, ERR_DIV_BY_ZERO,
         ERR_INVALID_HANDLE, ERR_UNSUPPORTED_FUNCTION, ERR_ACCESS_DENIED,
         ERR_INVALID_PARAMETER, ERR_UNKNOWN_COMMAND, ERR_CRC, ERR_USER_BREAK,
         ERR_TIMEOUT, ERR_WRITE, ERR_READ, ERR_IO
<1>4. n - ERR_LASTERROR \in 1 .. 22
  BY <1>1 DEF ERR_LASTERROR, ELASTERROR
<1> QED BY <1>1, <1>2, <1>3, <1>4 DEF IntToError, ERR_LASTERROR, ELASTERROR

(* The failures of the program itself are error codes, success is none.    *)
LEMMA ErrorsAreNotSuccess ==
  /\ ERR_SUCCESS \notin ErrorCodes
  /\ {ERR_WRITE, ERR_READ, ERR_CRC, ERR_IO} \subseteq ErrorCodes
  BY DEF ErrorCodes, ERR_SUCCESS, ERR_SYSTEM_NOT_READY, ERR_IO, ERR_WRITE,
         ERR_READ, ERR_CRC, ERR_LASTERROR, ELASTERROR

-----------------------------------------------------------------------------
(* What serving a command does.                                            *)

(* What the sensor puts into the answer to an accepted command.            *)
LEMMA AnswerValuesType ==
  ASSUME NEW c \in Commands, NEW prm \in [Params -> Values], Accepts(c)
  PROVE  AnswerValues(c, prm) \subseteq Int
<1> USE SensorAssumption
<1>1. CASE c.id = "GVER"
  BY <1>1 DEF AnswerValues, FirmwareVersion
<1>2. CASE c.id \in {"GPIN", "GPRM"}
  <2>1. prm[c.p] \in Int
    BY <1>2 DEF Accepts
  <2> QED BY <1>2, <2>1 DEF AnswerValues
<1>3. CASE c.id = "SPRM"
  BY <1>3 DEF AnswerValues
<1>4. CASE c.id = "SCAN"
  BY <1>4 DEF AnswerValues, Commands
<1>5. CASE c.id = "GSCN"
  BY <1>5 DEF AnswerValues
<1> QED BY <1>1, <1>2, <1>3, <1>4, <1>5 DEF Accepts

(* Serving a command: a refusal changes nothing and carries an error code, *)
(* an answer carries a value of the command and the effect of the command. *)
LEMMA ServedCases ==
  ASSUME NEW c \in Commands, NEW prm, NEW scn, NEW e \in Served(c, prm, scn)
  PROVE  \/ /\ ~Accepts(c)
            /\ e.answer = Refused(Refusal(c))
            /\ e.param = prm
            /\ e.scanning = scn
         \/ /\ Accepts(c)
            /\ \E w \in AnswerValues(c, prm) :
                 /\ e.answer = Answered(c, w)
                 /\ e.param = IF c.id = "SPRM" THEN [prm EXCEPT ![c.p] = w] ELSE prm
                 /\ e.scanning = IF c.id = "SCAN" THEN w # 0 ELSE scn
  BY DEF Served

LEMMA RefusalType ==
  ASSUME NEW c
  PROVE  Refusal(c) \in ErrorCodes
  BY DEF Refusal, ErrorCodes, ERR_SYSTEM_NOT_READY, ERR_IO,
         ERR_INVALID_PARAMETER, ERR_UNKNOWN_COMMAND, ERR_LASTERROR, ELASTERROR

LEMMA ErrorCodesAreIntegers == ErrorCodes \subseteq Int
  BY DEF ErrorCodes, ERR_SYSTEM_NOT_READY, ERR_IO, ERR_LASTERROR, ELASTERROR

(* Serving a command gives an answer and leaves the sensor in a state.     *)
LEMMA ServedType ==
  ASSUME NEW c \in Commands, NEW prm \in [Params -> Values],
         NEW scn \in BOOLEAN, NEW e \in Served(c, prm, scn)
  PROVE  /\ e.answer \in Answers
         /\ e.param \in [Params -> Values]
         /\ e.scanning \in BOOLEAN
<1>1. CASE ~Accepts(c)
  <2>1. Refusal(c) \in Int
    BY RefusalType, ErrorCodesAreIntegers
  <2>2. /\ e.answer = Refused(Refusal(c))
        /\ e.param = prm
        /\ e.scanning = scn
    BY <1>1, ServedCases
  <2> QED BY <2>1, <2>2 DEF Refused, Answers, AnswerIDs
<1>2. CASE Accepts(c)
  <2>1. PICK w \in AnswerValues(c, prm) :
          /\ e.answer = Answered(c, w)
          /\ e.param = IF c.id = "SPRM" THEN [prm EXCEPT ![c.p] = w] ELSE prm
          /\ e.scanning = IF c.id = "SCAN" THEN w # 0 ELSE scn
    BY <1>2, ServedCases
  <2>2. w \in Int
    BY <1>2, AnswerValuesType
  <2>3. e.answer \in Answers
    BY <2>1, <2>2 DEF Answered, Answers, AnswerIDs, Commands
  <2>4. e.param \in [Params -> Values]
    BY <2>1 DEF AnswerValues
  <2>5. e.scanning \in BOOLEAN
    BY <2>1
  <2> QED BY <2>3, <2>4, <2>5
<1> QED BY <1>1, <1>2

-----------------------------------------------------------------------------
(* Type correctness.                                                       *)

LEMMA PerformSends ==
  ASSUME Perform, TypeOK
  PROVE  \E c \in Commands : SendCommand(c)
<1> USE SensorAssumption, ExchangeAssumption DEF Commands, CommandIDs
<1>1. CASE GVERCommand
  BY <1>1 DEF GVERCommand
<1>2. CASE \E p \in AskedParams : GPINCommand(p) \/ GPRMCommand(p)
  BY <1>2 DEF GPINCommand, GPRMCommand
<1>3. CASE \E p \in AskedParams, v \in Values : SPRMCommand(p, v)
  BY <1>3 DEF SPRMCommand
<1>4. CASE \E v \in {0, 1} : SCANCommand(v)
  BY <1>4 DEF SCANCommand
<1>5. CASE GSCNCommand
  BY <1>5 DEF GSCNCommand
<1>6. CASE GSC2Command
  BY <1>6 DEF GSC2Command
<1> QED BY <1>1, <1>2, <1>3, <1>4, <1>5, <1>6 DEF Perform

LEMMA TypeInit == Init => TypeOK
<1> SUFFICES ASSUME Init PROVE TypeOK
  OBVIOUS
<1>1. ERR_IO \in ErrorCodes
  BY DEF ErrorCodes, ERR_SYSTEM_NOT_READY, ERR_IO, ERR_LASTERROR, ELASTERROR
<1>2. served \in [seq : Nat, answer : Answers]
  BY DEF Init, Answers, AnswerIDs
<1>3. cur \in Commands
  BY DEF Init, Commands, CommandIDs
<1>4. outcome \in [result : ErrorCodes \cup {ERR_SUCCESS}, value : Int]
  BY <1>1 DEF Init
<1>5. mBuffer \in Frames \cup {NoFrame}
  BY DEF Init
<1> QED
  BY <1>2, <1>3, <1>4, <1>5 DEF Init, TypeOK

LEMMA TypeStep == TypeOK /\ [Next]_vars => TypeOK'
<1> SUFFICES ASSUME TypeOK, [Next]_vars PROVE TypeOK'
  OBVIOUS
<1>0. ERR_WRITE \in ErrorCodes /\ ERR_READ \in ErrorCodes /\ ERR_CRC \in ErrorCodes
  BY DEF ErrorCodes, ERR_SYSTEM_NOT_READY, ERR_IO, ERR_WRITE, ERR_READ, ERR_CRC,
         ERR_LASTERROR, ELASTERROR
<1>1. CASE Perform
  <2>1. PICK c \in Commands : SendCommand(c)
    BY <1>1, PerformSends
  <2>2. Request(seq + 1, c) \in Requests
    BY DEF Request, Requests, TypeOK
  <2> QED BY <1>0, <2>1, <2>2 DEF SendCommand, TypeOK, sensorVars
<1>2. CASE ReadFails \/ ReadEmpty
  BY <1>0, <1>2 DEF ReadFails, ReadEmpty, TimedOut, TypeOK, sensorVars
<1>3. ASSUME NEW f \in net, ReadAnswer(f) PROVE TypeOK'
  <2>1. f \in Frames
    BY <1>3 DEF ReadAnswer, TypeOK, Requests
  <2>2. net' \subseteq net
    BY <1>3 DEF ReadAnswer, Delivered
  <2> DEFINE result == IF f.intact THEN CheckErrors(f.body) ELSE ERR_CRC
             value == IF result = ERR_SUCCESS THEN Extract(cur.id, f.body) ELSE 0
  <2>3. result \in ErrorCodes \cup {ERR_SUCCESS}
    <3>1. IntToError(f.body.v) \in ErrorCodes \cup {ERR_SUCCESS}
      BY <2>1, IntToErrorType DEF Frames, Answers
    <3> QED BY <1>0, <3>1 DEF CheckErrors
  <2>4. value \in Int
    <3>1. Extract(cur.id, f.body) \in Int
      BY <2>1 DEF Extract, Frames, Answers, TypeOK, Commands, CommandIDs
    <3> QED BY <3>1
  <2>5. outcome' = [result |-> result, value |-> value]
    BY <1>3 DEF ReadAnswer
  <2> HIDE DEF result, value
  <2>6. outcome' \in [result : ErrorCodes \cup {ERR_SUCCESS}, value : Int]
    BY <2>3, <2>4, <2>5
  <2> QED BY <1>3, <2>1, <2>2, <2>6 DEF ReadAnswer, TypeOK, sensorVars
<1>4. ASSUME NEW m \in net, SensorServes(m) PROVE TypeOK'
  <2>1. PICK e \in Served(m.body, param, scanning) :
          /\ param' = e.param
          /\ scanning' = e.scanning
          /\ served' = [seq |-> m.seq, answer |-> e.answer]
          /\ Delivered(m, {Frame(m.seq, e.answer)})
    BY <1>4 DEF SensorServes
  <2>2. m \in Requests
    BY <1>4 DEF SensorServes, TypeOK, Frames
  <2>3. e.answer \in Answers /\ e.param \in [Params -> Values] /\ e.scanning \in BOOLEAN
    BY <2>2, ServedType DEF Requests, TypeOK
  <2>4. Frame(m.seq, e.answer) \in Frames
    BY <2>2, <2>3 DEF Frame, Frames, Requests
  <2>5. net' \subseteq Requests \cup Frames
    BY <2>1, <2>4 DEF Delivered, TypeOK
  <2> QED
    BY <1>4, <2>1, <2>2, <2>3, <2>5 DEF SensorServes, TypeOK, hostVars, Requests
<1>5. ASSUME NEW m \in net, Lose(m) PROVE TypeOK'
  BY <1>5 DEF Lose, TypeOK, hostVars, sensorVars
<1>6. ASSUME NEW m \in net, Corrupt(m) PROVE TypeOK'
  <2>1. m \in Frames
    BY <1>6 DEF Corrupt, TypeOK, Requests
  <2>2. [m EXCEPT !.intact = FALSE] \in Frames
    BY <2>1 DEF Frames
  <2> QED BY <1>6, <2>2 DEF Corrupt, TypeOK, hostVars, sensorVars
<1>7. CASE UNCHANGED vars
  BY <1>7 DEF vars, TypeOK
<1> QED BY <1>1, <1>2, <1>3, <1>4, <1>5, <1>6, <1>7 DEF Next

(* The exchange is type correct on every network: whatever the sensor and  *)
(* the network do, performCommand() returns ERR_SUCCESS or an error code   *)
(* of ErrorID.h, and an integer value.                                     *)
THEOREM ExchangeTypeCorrect == Spec => []TypeOK
  BY TypeInit, TypeStep, PTL DEF Spec

-----------------------------------------------------------------------------
(* At most one datagram is in flight, and it belongs to the current call.  *)

LEMMA ExchangeInvInit == Init => ExchangeInv
  BY DEF Init, ExchangeInv, QuietWhenIdle, OneInFlight, RequestInFlight,
         AnswerInFlight

(* What the sensor answers to the command it serves is truthful about the  *)
(* state the service leaves the sensor in.                                 *)
LEMMA ServedTruthful ==
  ASSUME TypeOK, NEW c \in Commands, NEW e \in Served(c, param, scanning),
         param' = e.param, scanning' = e.scanning
  PROVE  \/ e.answer.id = "ERR" /\ e.answer.v \in ErrorCodes
         \/ /\ e.answer.id = c.id
            /\ e.answer.p = c.p
            /\ c.id \in {"GPIN", "GPRM", "SPRM"} =>
                 c.p \in Params /\ e.answer.v = param'[c.p]
            /\ c.id = "SCAN" => (scanning' <=> c.v # 0)
<1>1. CASE ~Accepts(c)
  <2>1. e.answer = Refused(Refusal(c))
    BY <1>1, ServedCases
  <2> QED BY <2>1, RefusalType DEF Refused
<1>2. CASE Accepts(c)
  <2>1. PICK w \in AnswerValues(c, param) :
          /\ e.answer = Answered(c, w)
          /\ e.param = IF c.id = "SPRM" THEN [param EXCEPT ![c.p] = w] ELSE param
          /\ e.scanning = IF c.id = "SCAN" THEN w # 0 ELSE scanning
    BY <1>2, ServedCases
  <2>2. e.answer.id = c.id /\ e.answer.p = c.p /\ e.answer.v = w
    BY <2>1 DEF Answered
  <2>3. ASSUME c.id \in {"GPIN", "GPRM", "SPRM"}
        PROVE  c.p \in Params /\ e.answer.v = param'[c.p]
    <3>1. c.p \in Params
      BY <1>2, <2>3 DEF Accepts
    <3>2. param' = IF c.id = "SPRM" THEN [param EXCEPT ![c.p] = w] ELSE param
      BY <2>1
    <3>3. param \in [Params -> Values]
      BY DEF TypeOK
    <3>4. CASE c.id = "SPRM"
      BY <2>2, <3>1, <3>2, <3>3, <3>4
    <3>5. CASE c.id \in {"GPIN", "GPRM"}
      BY <2>1, <2>2, <3>1, <3>2, <3>5 DEF AnswerValues
    <3> QED BY <2>3, <3>4, <3>5
  <2>4. ASSUME c.id = "SCAN" PROVE scanning' <=> c.v # 0
    BY <2>1, <2>4 DEF AnswerValues
  <2> QED BY <2>2, <2>3, <2>4
<1> QED BY <1>1, <1>2

LEMMA ExchangeInvStep ==
  ASSUME PromptNetwork
  PROVE  TypeOK /\ ExchangeInv /\ [Next]_vars => ExchangeInv'
<1> SUFFICES ASSUME TypeOK, ExchangeInv, [Next]_vars PROVE ExchangeInv'
  OBVIOUS
<1> USE DEF ExchangeInv
<1>0. seq \in Nat /\ served.seq \in Nat
  BY DEF TypeOK
<1>1. CASE Perform
  <2>1. PICK c \in Commands : SendCommand(c)
    BY <1>1, PerformSends
  <2>2. net = {} /\ seq' = seq + 1 /\ cur' = c /\ UNCHANGED served
    BY <2>1 DEF SendCommand, QuietWhenIdle, sensorVars
  <2>3. CASE net' = net \cup {Request(seq + 1, c)} /\ pc' = "reading"
    BY <1>0, <2>2, <2>3 DEF Request, QuietWhenIdle, OneInFlight,
       RequestInFlight, AnswerInFlight
  <2>4. CASE UNCHANGED <<pc, net>>
    BY <1>0, <2>2, <2>4 DEF QuietWhenIdle, OneInFlight,
       RequestInFlight, AnswerInFlight
  <2> QED BY <2>1, <2>3, <2>4 DEF SendCommand
<1>2. CASE ReadFails \/ ReadEmpty
  <2>1. net' = {} /\ UNCHANGED <<seq, served>>
    BY <1>2 DEF ReadFails, ReadEmpty, TimedOut, PromptNetwork, sensorVars
  <2> QED BY <2>1 DEF QuietWhenIdle, OneInFlight, RequestInFlight,
          AnswerInFlight
<1>3. ASSUME NEW f \in net, ReadAnswer(f) PROVE ExchangeInv'
  <2>1. net' = net \ {f} /\ UNCHANGED <<seq, served>>
    BY <1>3 DEF ReadAnswer, Delivered, PromptNetwork, sensorVars
  <2>2. net' = {}
    BY <2>1 DEF OneInFlight
  <2> QED BY <2>1, <2>2 DEF QuietWhenIdle, OneInFlight, RequestInFlight,
          AnswerInFlight
<1>4. ASSUME NEW m \in net, SensorServes(m) PROVE ExchangeInv'
  <2>1. PICK e \in Served(m.body, param, scanning) :
          /\ param' = e.param
          /\ scanning' = e.scanning
          /\ served' = [seq |-> m.seq, answer |-> e.answer]
          /\ Delivered(m, {Frame(m.seq, e.answer)})
    BY <1>4 DEF SensorServes
  <2>2. m.seq = seq /\ m.body = cur
    BY <1>4 DEF SensorServes, RequestInFlight
  <2>3. net' = {Frame(seq, e.answer)}
    BY <2>1, <2>2 DEF Delivered, PromptNetwork, OneInFlight
  <2>4. UNCHANGED <<pc, cur, seq>> /\ pc # "idle"
    BY <1>4 DEF SensorServes, hostVars, QuietWhenIdle
  <2>5. served' = [seq |-> seq', answer |-> e.answer]
    BY <2>1, <2>2, <2>4
  <2>6. Truthful(cur, e.answer)'
    <3>1. cur \in Commands
      BY DEF TypeOK
    <3> QED BY <2>1, <2>2, <2>4, <3>1, ServedTruthful DEF Truthful
  <2>7. e.answer = Frame(seq, e.answer).body
    BY DEF Frame
  <2>8. AnswerInFlight'
    <3> SUFFICES ASSUME NEW n \in net'
                 PROVE  /\ n.seq = seq'
                        /\ served' = [seq |-> seq', answer |-> n.body]
                        /\ Truthful(cur, n.body)'
      BY DEF AnswerInFlight
    <3>1. n.seq = seq' /\ n.body = e.answer
      BY <2>3, <2>4 DEF Frame
    <3> QED BY <2>5, <2>6, <3>1 DEF Truthful
  <2>9. OneInFlight' /\ RequestInFlight' /\ QuietWhenIdle'
    BY <2>3, <2>4 DEF OneInFlight, RequestInFlight, QuietWhenIdle, Frame
  <2> QED BY <1>0, <2>4, <2>5, <2>8, <2>9
<1>5. ASSUME NEW m \in net, Lose(m) PROVE ExchangeInv'
  <2>1. net' \subseteq net /\ UNCHANGED <<pc, cur, seq, param, scanning, served>>
    BY <1>5 DEF Lose, hostVars, sensorVars
  <2> QED BY <2>1 DEF QuietWhenIdle, OneInFlight, RequestInFlight,
          AnswerInFlight, Truthful
<1>6. ASSUME NEW m \in net, Corrupt(m) PROVE ExchangeInv'
  <2> DEFINE n == [m EXCEPT !.intact = FALSE]
  <2>1. m \in Frames
    BY <1>6 DEF Corrupt, TypeOK, Requests
  <2>2. n.kind = "answer" /\ n.seq = m.seq /\ n.body = m.body
    BY <2>1 DEF Frames
  <2>3. net' = {n} /\ UNCHANGED <<pc, cur, seq, param, scanning, served>>
    BY <1>6 DEF Corrupt, hostVars, sensorVars, OneInFlight
  <2>4. m.kind = "answer" /\ pc # "idle"
    BY <1>6 DEF Corrupt, QuietWhenIdle
  <2> HIDE DEF n
  <2> QED BY <2>2, <2>3, <2>4 DEF QuietWhenIdle, OneInFlight,
          RequestInFlight, AnswerInFlight, Truthful
<1>7. CASE UNCHANGED vars
  BY <1>7 DEF vars, QuietWhenIdle, OneInFlight, RequestInFlight,
     AnswerInFlight, Truthful
<1> QED BY <1>1, <1>2, <1>3, <1>4, <1>5, <1>6, <1>7 DEF Next

(* On a prompt network the socket of an idle host is empty and the one     *)
(* datagram in flight belongs to the request sendCommand() waits for.      *)
THEOREM ExchangeInvariant ==
  ASSUME PromptNetwork
  PROVE  Spec => []ExchangeInv
<1>1. TypeOK /\ ExchangeInv /\ [Next]_vars => ExchangeInv'
  BY ExchangeInvStep
<1> QED BY <1>1, ExchangeInvInit, ExchangeTypeCorrect, PTL DEF Spec

-----------------------------------------------------------------------------
(* What a successful command means.                                        *)

ResultsTrue == ActualValueReturned /\ ScanStateReached /\ RefusalsReported

(* A frame is taken for a success only when it is not a refusal.           *)
LEMMA SuccessIsNoRefusal ==
  ASSUME ~BigEndian, TypeOK, NEW f \in net, ReadAnswer(f), AnswerInFlight,
         outcome'.result = ERR_SUCCESS
  PROVE  /\ f.body.id # "ERR"
         /\ Truthful(cur, f.body)
         /\ outcome'.value = Extract(cur.id, f.body)
<1>1. f.kind = "answer" /\ f.body \in Answers
  BY DEF ReadAnswer, TypeOK, Requests, Frames
<1>2. Truthful(cur, f.body)
  BY <1>1 DEF AnswerInFlight
<1>3. f.intact /\ CheckErrors(f.body) = ERR_SUCCESS
  BY ErrorsAreNotSuccess DEF ReadAnswer
<1>4. ASSUME f.body.id = "ERR" PROVE FALSE
  <2>1. CheckErrors(f.body) = IntToError(f.body.v)
    BY <1>4 DEF CheckErrors, IsErrorID
  <2>2. f.body.v \in ErrorCodes
    BY <1>2, <1>4 DEF Truthful, TypeOK, Commands, CommandIDs
  <2> QED BY <1>3, <2>1, <2>2, IntToErrorOfCode, ErrorsAreNotSuccess
<1>5. outcome'.value = Extract(cur.id, f.body)
  BY <1>3 DEF ReadAnswer
<1> QED BY <1>2, <1>4, <1>5

LEMMA ResultsStep ==
  ASSUME PromptNetwork, ~BigEndian
  PROVE  TypeOK /\ ExchangeInv /\ ResultsTrue /\ [Next]_vars => ResultsTrue'
<1> SUFFICES ASSUME TypeOK, ExchangeInv, ResultsTrue, [Next]_vars
             PROVE  ResultsTrue'
  OBVIOUS
<1> USE DEF ResultsTrue, ActualValueReturned, ScanStateReached, RefusalsReported
<1>1. CASE Perform
  <2>1. PICK c \in Commands : SendCommand(c)
    BY <1>1, PerformSends
  <2>2. ~ Succeeded'
    BY <2>1, ErrorsAreNotSuccess DEF SendCommand, Succeeded
  <2> QED BY <2>2
<1>2. CASE ReadFails \/ ReadEmpty
  <2>1. ~ Succeeded'
    BY <1>2, ErrorsAreNotSuccess DEF ReadFails, ReadEmpty, Succeeded
  <2> QED BY <2>1
<1>3. ASSUME NEW f \in net, ReadAnswer(f) PROVE ResultsTrue'
  <2> SUFFICES ASSUME outcome'.result = ERR_SUCCESS PROVE ResultsTrue'
    BY DEF Succeeded
  <2>1. /\ f.body.id # "ERR"
        /\ Truthful(cur, f.body)
        /\ outcome'.value = Extract(cur.id, f.body)
    BY <1>3, SuccessIsNoRefusal DEF ExchangeInv
  <2>2. /\ UNCHANGED <<cur, param, scanning>>
        /\ mBuffer' = f
        /\ f.kind = "answer"
    BY <1>3 DEF ReadAnswer, sensorVars
  <2>3. ActualValueReturned'
    BY <2>1, <2>2 DEF Truthful, Extract
  <2>4. ScanStateReached'
    BY <2>1, <2>2 DEF Truthful
  <2>5. RefusalsReported'
    BY <2>1, <2>2
  <2> QED BY <2>3, <2>4, <2>5
<1>4. ASSUME NEW m \in net, SensorServes(m) PROVE ResultsTrue'
  <2>1. ~ Succeeded'
    BY <1>4 DEF SensorServes, Succeeded, hostVars, ExchangeInv, QuietWhenIdle
  <2> QED BY <2>1
<1>5. ASSUME NEW m \in net, Lose(m) \/ Corrupt(m) PROVE ResultsTrue'
  BY <1>5 DEF Lose, Corrupt, hostVars, sensorVars, Succeeded
<1>6. CASE UNCHANGED vars
  BY <1>6 DEF vars, Succeeded
<1> QED BY <1>1, <1>2, <1>3, <1>4, <1>5, <1>6 DEF Next

LEMMA ResultsInit == Init => ResultsTrue
<1>1. Init => ~ Succeeded
  BY ErrorsAreNotSuccess DEF Init, Succeeded
<1> QED BY <1>1 DEF ResultsTrue, ActualValueReturned, ScanStateReached,
        RefusalsReported

LEMMA ResultsHold ==
  ASSUME PromptNetwork, ~BigEndian
  PROVE  Spec => []ResultsTrue
<1>1. TypeOK /\ ExchangeInv /\ ResultsTrue /\ [Next]_vars => ResultsTrue'
  BY ResultsStep
<1>2. Spec => []ExchangeInv
  BY ExchangeInvariant
<1> QED BY <1>1, <1>2, ResultsInit, ExchangeTypeCorrect, PTL DEF Spec

(* On a prompt network a little-endian host that gets ERR_SUCCESS from     *)
(* GPRM or SPRM holds the value the sensor's parameter really has.         *)
THEOREM ActualValueCorrect ==
  ASSUME PromptNetwork, ~BigEndian
  PROVE  Spec => []ActualValueReturned
<1>1. ResultsTrue => ActualValueReturned
  BY DEF ResultsTrue
<1> QED BY <1>1, ResultsHold, PTL

(* On a prompt network ERR_SUCCESS from SCAN means that the scan process   *)
(* of the sensor is in the state asked for.                                *)
THEOREM ScanStateCorrect ==
  ASSUME PromptNetwork, ~BigEndian
  PROVE  Spec => []ScanStateReached
<1>1. ResultsTrue => ScanStateReached
  BY DEF ResultsTrue
<1> QED BY <1>1, ResultsHold, PTL

(* On a prompt network a little-endian host never reports a refusal of the *)
(* sensor as a success.                                                    *)
THEOREM RefusalsAreReported ==
  ASSUME PromptNetwork, ~BigEndian
  PROVE  Spec => []RefusalsReported
<1>1. ResultsTrue => RefusalsReported
  BY DEF ResultsTrue
<1> QED BY <1>1, ResultsHold, PTL

-----------------------------------------------------------------------------
(* The exchange is a call of the sensor.                                   *)

LEMMA CallErrors ==
  /\ Call!ErrorCodes = ErrorCodes
  /\ Call!ERR_SUCCESS = ERR_SUCCESS
  /\ Call!ERR_IO = ERR_IO
  BY DEF Call!ErrorCodes, Call!ERR_SUCCESS, Call!ERR_IO,
     Call!ERR_SYSTEM_NOT_READY, Call!ERR_LASTERROR, Call!ELASTERROR,
     ErrorCodes, ERR_SUCCESS, ERR_IO, ERR_SYSTEM_NOT_READY, ERR_LASTERROR,
     ELASTERROR

LEMMA CallServed ==
  ASSUME NEW c, NEW prm, NEW scn
  PROVE  Call!Served(c, prm, scn) = Served(c, prm, scn)
<1>1. Call!Accepts(c) <=> Accepts(c)
  BY DEF Call!Accepts, Accepts
<1>2. Call!AnswerValues(c, prm) = AnswerValues(c, prm)
  BY DEF Call!AnswerValues, AnswerValues, Call!FirmwareVersion, FirmwareVersion
<1>3. Call!Refusal(c) = Refusal(c)
  BY DEF Call!Refusal, Refusal, Call!ERR_INVALID_PARAMETER,
     Call!ERR_UNKNOWN_COMMAND, Call!ERR_LASTERROR, Call!ELASTERROR,
     ERR_INVALID_PARAMETER, ERR_UNKNOWN_COMMAND, ERR_LASTERROR, ELASTERROR
<1>4. \A v : Call!Answered(c, v) = Answered(c, v) /\ Call!Refused(v) = Refused(v)
  BY DEF Call!Answered, Answered, Call!Refused, Refused
<1> QED BY <1>1, <1>2, <1>3, <1>4 DEF Call!Served, Served

LEMMA CallInit == Init => Call!Init
  BY CallErrors DEF Init, Call!Init

LEMMA CallStep ==
  ASSUME PromptNetwork, ~BigEndian
  PROVE  TypeOK /\ ExchangeInv /\ [Next]_vars => [Call!Next]_Call!vars
<1> SUFFICES ASSUME TypeOK, ExchangeInv, [Next]_vars
             PROVE  [Call!Next]_Call!vars
  OBVIOUS
<1>0. seq \in Nat /\ served.seq \in Nat /\ served.seq <= seq
  BY DEF TypeOK, ExchangeInv
<1>1. CASE Perform
  <2>1. PICK c \in Commands : SendCommand(c)
    BY <1>1, PerformSends
  <2>2. CASE pc' = "reading" /\ UNCHANGED outcome
    <3>1. Call!Invoke
      BY <1>0, <2>1, <2>2 DEF Call!Invoke, Call!Commands, Call!CommandIDs,
         Commands, CommandIDs, SendCommand, sensorVars
    <3> QED BY <3>1 DEF Call!Next
  <2>3. CASE outcome' = [result |-> ERR_WRITE, value |-> 0] /\ UNCHANGED pc
    <3>1. Call!InvokeFails
      BY <2>1, <2>3, CallErrors, ErrorsAreNotSuccess DEF Call!InvokeFails, Call!Failed,
         Call!Commands, Call!CommandIDs, Commands, CommandIDs, SendCommand,
         sensorVars
    <3> QED BY <3>1 DEF Call!Next
  <2> QED BY <2>1, <2>2, <2>3 DEF SendCommand
<1>2. CASE ReadFails \/ ReadEmpty
  <2>1. Call!ReturnFails
    BY <1>2, CallErrors, ErrorsAreNotSuccess DEF ReadFails, ReadEmpty, TimedOut,
       Call!ReturnFails, Call!Failed, sensorVars
  <2> QED BY <2>1 DEF Call!Next
<1>3. ASSUME NEW f \in net, ReadAnswer(f) PROVE Call!Next
  <2>1. /\ pc = "reading" /\ pc' = "idle"
        /\ UNCHANGED <<cur, seq, param, scanning, served>>
        /\ f.kind = "answer"
    BY <1>3 DEF ReadAnswer, sensorVars
  <2>2. served = [seq |-> seq, answer |-> f.body]
    BY <2>1 DEF ExchangeInv, AnswerInFlight
  <2>3. CASE outcome'.result = ERR_SUCCESS
    <3>1. /\ f.body.id # "ERR"
          /\ Truthful(cur, f.body)
          /\ outcome'.value = Extract(cur.id, f.body)
      BY <1>3, <2>3, SuccessIsNoRefusal DEF ExchangeInv
    <3>2. outcome' = [result |-> ERR_SUCCESS,
                      value |-> IF cur.id = "SCAN" THEN 0 ELSE f.body.v]
      <4> DEFINE value == IF cur.id = "SCAN" THEN 0 ELSE f.body.v
      <4>1. f.body.id = cur.id /\ f.body.p = cur.p
        BY <3>1 DEF Truthful
      <4>2. outcome'.value = value
        BY <3>1, <4>1, SensorAssumption DEF Extract, Truthful
      <4>3. outcome' = [result |-> outcome'.result, value |-> outcome'.value]
        BY <1>3 DEF ReadAnswer
      <4> QED BY <2>3, <4>2, <4>3
    <3>3. Call!ReturnAnswer
      BY <2>1, <2>2, <3>1, <3>2, CallErrors DEF Call!ReturnAnswer, Truthful
    <3> QED BY <3>3 DEF Call!Next
  <2>4. CASE outcome'.result # ERR_SUCCESS
    <3>1. Call!Failed(outcome')
      <4>1. IntToError(f.body.v) \in ErrorCodes \cup {ERR_SUCCESS}
        BY <2>1, IntToErrorType DEF TypeOK, Requests, Frames, Answers
      <4>2. outcome'.result \in ErrorCodes /\ outcome'.value = 0
        BY <1>3, <2>4, <4>1, ErrorsAreNotSuccess DEF ReadAnswer, CheckErrors
      <4> QED BY <4>2, CallErrors DEF Call!Failed
    <3>2. Call!ReturnFails
      BY <2>1, <2>2, <3>1 DEF Call!ReturnFails
    <3> QED BY <3>2 DEF Call!Next
  <2> QED BY <2>3, <2>4
<1>4. ASSUME NEW m \in net, SensorServes(m) PROVE Call!Next
  <2>1. /\ pc = "reading" /\ UNCHANGED <<pc, cur, seq, outcome>>
        /\ m.seq = seq /\ m.body = cur /\ served.seq # seq
    BY <1>0, <1>4 DEF SensorServes, hostVars, ExchangeInv, QuietWhenIdle,
       RequestInFlight, TypeOK
  <2>2. Call!Serve
    BY <1>4, <2>1, CallServed DEF SensorServes, Call!Serve
  <2> QED BY <2>2 DEF Call!Next
<1>5. ASSUME NEW m \in net, Lose(m) \/ Corrupt(m) PROVE UNCHANGED Call!vars
  BY <1>5 DEF Lose, Corrupt, hostVars, sensorVars, Call!vars
<1>6. CASE UNCHANGED vars
  BY <1>6 DEF vars, Call!vars
<1> QED BY <1>1, <1>2, <1>3, <1>4, <1>5, <1>6 DEF Next

(* On a prompt network, whatever it loses or corrupts, performCommand() on *)
(* a little-endian host implements a call of the sensor: it is served at   *)
(* most once, and it fails or returns the answer to this very command.     *)
THEOREM ExchangeImplementsCall ==
  ASSUME PromptNetwork, ~BigEndian
  PROVE  Spec => CallSpec
<1>1. TypeOK /\ ExchangeInv /\ [Next]_vars => [Call!Next]_Call!vars
  BY CallStep
<1>2. Spec => []ExchangeInv
  BY ExchangeInvariant
<1> QED BY <1>1, <1>2, CallInit, ExchangeTypeCorrect, PTL
        DEF Spec, CallSpec, Call!Spec
=============================================================================
