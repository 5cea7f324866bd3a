------------------------------ MODULE Exchange -----------------------------
(***************************************************************************)
(* One command at a time over a data stream: performCommand() of the       *)
(* command classes, CommandBase::sendCommand() below them, read() and      *)
(* write() of ClientSocket (a timeout is a failure) or of ClientUART (a    *)
(* timeout is an empty read), the network and the sensor.                  *)
(*                                                                         *)
(* A request carries no number the sensor would repeat, and the host       *)
(* neither compares the ID of an answer with the ID of its request nor     *)
(* empties the socket before it sends: whatever datagram the socket has    *)
(* next is taken as the answer.  The field seq below only distinguishes    *)
(* datagrams of the same contents; no action of the host reads it.         *)
(***************************************************************************)
EXTENDS Sensor

CONSTANTS
  AskedParams,     \* parameter IDs the user types in
  mTimeout,        \* socket timeout in seconds; 0 disables it
  BigEndian,       \* byte order of the machine the host runs on
  LateAnswers,     \* an answer may take longer than the timeout
  Duplicates,      \* the network may deliver a datagram twice
  MaxRequests      \* bound: number of commands the host performs

ASSUME ExchangeAssumption ==
  /\ AskedParams \subseteq Int
  /\ mTimeout \in Nat
  /\ BigEndian \in BOOLEAN
  /\ LateAnswers \in BOOLEAN
  /\ Duplicates \in BOOLEAN
  /\ MaxRequests \in Nat

VARIABLES
  pc,          \* "idle", or "reading" while sendCommand() waits in recv()
  cur,         \* mCommand: the request of the command being performed
  seq,         \* number of the current request
  mBuffer,     \* the frame last received by a command object, or NoFrame
  outcome,     \* what performCommand() returned last: result and value
  net,         \* datagrams in flight or in the socket's receive queue
  param,       \* the sensor's parameters
  scanning,    \* whether the sensor's scan process runs
  served       \* history: the request the sensor served last, its answer

hostVars == <<pc, cur, seq, mBuffer, outcome>>
sensorVars == <<param, scanning, served>>
vars == <<pc, cur, seq, mBuffer, outcome, net, param, scanning, served>>

Requests == [kind : {"request"}, seq : Nat, body : Commands]
Frames == [kind : {"answer"}, seq : Nat, body : Answers, intact : BOOLEAN]
NoFrame == [kind |-> "none"]

Request(n, c) == [kind |-> "request", seq |-> n, body |-> c]
Frame(n, a) == [kind |-> "answer", seq |-> n, body |-> a, intact |-> TRUE]

Init ==
  /\ pc = "idle"
  /\ cur = [id |-> "GVER", p |-> 0, v |-> 0]
  /\ seq = 0
  /\ mBuffer = NoFrame
  /\ outcome = [result |-> ERR_IO, value |-> 0]
  /\ net = {}
  /\ param \in [Params -> Values]
  /\ scanning = FALSE
  /\ served = [seq |-> 0, answer |-> [id |-> "ERR", p |-> 0, v |-> 0]]

(* Datagram m is handed to its receiver, which sends those of replies; a   *)
(* network that duplicates may keep a copy of m.                           *)
Delivered(m, replies) ==
  \/ net' = (net \ {m}) \cup replies
  \/ Duplicates /\ net' = net \cup replies

-----------------------------------------------------------------------------
(* The host.                                                               *)

(* Mutant of SendCommand: write() reports a failure after the datagram has *)
(* left.                                                                   *)
SendCommandFailsLate(c) ==
  /\ pc = "idle"
  /\ seq < MaxRequests
  /\ seq' = seq + 1
  /\ cur' = c
  /\ net' = net \cup {Request(seq + 1, c)}
  /\ \/ pc' = "reading" /\ UNCHANGED outcome
     \/ outcome' = [result |-> ERR_WRITE, value |-> 0] /\ UNCHANGED pc
  /\ UNCHANGED <<mBuffer, sensorVars>>

(* sendCommand() up to the read: write the request.  Every result field of *)
(* the command was cleared before, so a failure leaves the value 0.        *)
SendCommand(c) ==
  /\ pc = "idle"
  /\ seq < MaxRequests
  /\ seq' = seq + 1
  /\ cur' = c
  /\ \/ /\ net' = net \cup {Request(seq + 1, c)}
        /\ pc' = "reading"
        /\ UNCHANGED outcome
     \/ /\ outcome' = [result |-> ERR_WRITE, value |-> 0]
        /\ UNCHANGED <<pc, net>>
  /\ UNCHANGED <<mBuffer, sensorVars>>

GVERCommand == SendCommand([id |-> "GVER", p |-> 0, v |-> 0])
GPINCommand(p) == SendCommand([id |-> "GPIN", p |-> p, v |-> 0])
GPRMCommand(p) == SendCommand([id |-> "GPRM", p |-> p, v |-> 0])
SPRMCommand(p, v) == SendCommand([id |-> "SPRM", p |-> p, v |-> v])
SCANCommand(v) == SendCommand([id |-> "SCAN", p |-> 0, v |-> v])
GSCNCommand == SendCommand([id |-> "GSCN", p |-> 0, v |-> 0])
GSC2Command == SendCommand([id |-> "GSC2", p |-> 1, v |-> 1])

(* The command ID "ERR\0" read as an integer equals the constant           *)
(* 0x00525245 on little-endian machines only.                              *)
IsErrorID(id) == id = "ERR" /\ ~BigEndian

(* Mutant of CheckErrors: the error number is not converted; or the answer *)
(* is not looked at.                                                       *)
CheckErrorsRaw(a) ==
  IF IsErrorID(a.id) THEN ErrorIndex(a.v) ELSE ERR_SUCCESS
CheckErrorsNever(a) == ERR_SUCCESS

CheckErrors(a) == IF IsErrorID(a.id) THEN IntToError(a.v) ELSE ERR_SUCCESS

(* The value performCommand() takes from a good answer to command id.  The *)
(* scans in answers to GSCN and GSC2 are within the limits of parseScan(), *)
(* whose ERR_BUFFER_OVERFLOW is in module ScanFrame.                       *)
Extract(id, a) ==
  IF id = "SCAN" \/ (id = "GPIN" /\ a.p = 0) THEN 0 ELSE a.v

(* recv() returned the datagram f: check the CRC, then for an ERR answer.  *)
ReadAnswer(f) ==
  /\ pc = "reading"
  /\ f \in net
  /\ f.kind = "answer"
  /\ mBuffer' = f
  /\ LET result == IF f.intact THEN CheckErrors(f.body) ELSE ERR_CRC
     IN  outcome' = [result |-> result,
                     value |-> IF result = ERR_SUCCESS
                               THEN Extract(cur.id, f.body) ELSE 0]
  /\ pc' = "idle"
  /\ Delivered(f, {})
  /\ UNCHANGED <<cur, seq, sensorVars>>

(* Mutant of TimedOut: the timeout is enabled by 0 only.                   *)
TimedOutInverted ==
  /\ pc = "reading"
  /\ mTimeout = 0
  /\ LateAnswers \/ net = {}

(* read() gives up while it waits: its timeout expired.  With timeout 0    *)
(* there is no SO_RCVTIMEO limit.                                          *)
TimedOut ==
  /\ pc = "reading"
  /\ mTimeout # 0
  /\ LateAnswers \/ net = {}

(* Mutant of ReadFails: the result of recv() is not checked; the value of  *)
(* the command before is not cleared.                                      *)
ReadFailsUnchecked ==
  /\ TimedOut
  /\ outcome' = [result |-> ERR_SUCCESS, value |-> 0]
  /\ pc' = "idle"
  /\ UNCHANGED <<cur, seq, mBuffer, net, sensorVars>>
ReadFailsKeepsValue ==
  /\ TimedOut
  /\ outcome' = [outcome EXCEPT !.result = ERR_READ]
  /\ pc' = "idle"
  /\ UNCHANGED <<cur, seq, mBuffer, net, sensorVars>>

(* recv() of a socket fails after the timeout: read() returns less than 0. *)
ReadFails ==
  /\ TimedOut
  /\ outcome' = [result |-> ERR_READ, value |-> 0]
  /\ pc' = "idle"
  /\ UNCHANGED <<cur, seq, mBuffer, net, sensorVars>>

(* Mutant of ReadEmpty: the checksum of no bytes is accepted, the frame    *)
(* received before is parsed again.                                        *)
ReadEmptyPasses ==
  /\ TimedOut
  /\ outcome' = [result |-> ERR_SUCCESS,
                 value |-> IF mBuffer.kind = "answer"
                           THEN Extract(cur.id, mBuffer.body) ELSE 0]
  /\ pc' = "idle"
  /\ UNCHANGED <<cur, seq, mBuffer, net, sensorVars>>

(* read() of the UART returns 0 after the timeout, which is no failure to  *)
(* sendCommand().  checkCRC() compares the checksum of no bytes, 0, with   *)
(* the word before mBuffer, where a 32-bit build has the pointer to the    *)
(* virtual methods: never 0.  The frame received before stays in mBuffer.  *)
ReadEmpty ==
  /\ TimedOut
  /\ outcome' = [result |-> ERR_CRC, value |-> 0]
  /\ pc' = "idle"
  /\ UNCHANGED <<cur, seq, mBuffer, net, sensorVars>>

-----------------------------------------------------------------------------
(* The sensor and the network.                                             *)

SensorServes(m) ==
  /\ m \in net
  /\ m.kind = "request"
  /\ \E e \in Served(m.body, param, scanning) :
       /\ param' = e.param
       /\ scanning' = e.scanning
       /\ served' = [seq |-> m.seq, answer |-> e.answer]
       /\ Delivered(m, {Frame(m.seq, e.answer)})
  /\ UNCHANGED hostVars

Lose(m) ==
  /\ m \in net
  /\ net' = net \ {m}
  /\ UNCHANGED <<hostVars, sensorVars>>

Corrupt(f) ==
  /\ f \in net
  /\ f.kind = "answer"
  /\ net' = (net \ {f}) \cup {[f EXCEPT !.intact = FALSE]}
  /\ UNCHANGED <<hostVars, sensorVars>>

-----------------------------------------------------------------------------
Perform ==
  \/ GVERCommand
  \/ \E p \in AskedParams : GPINCommand(p) \/ GPRMCommand(p)
  \/ \E p \in AskedParams, v \in Values : SPRMCommand(p, v)
  \/ \E v \in {0, 1} : SCANCommand(v)
  \/ GSCNCommand
  \/ GSC2Command

Next ==
  \/ Perform
  \/ ReadFails
  \/ ReadEmpty
  \/ \E m \in net : ReadAnswer(m)
  \/ \E m \in net : SensorServes(m)
  \/ \E m \in net : Lose(m)
  \/ \E m \in net : Corrupt(m)

Spec == Init /\ [][Next]_vars

(* read() returns once a frame is there or its timeout has expired; the    *)
(* sensor answers the requests that reach it.                          *)
Fairness ==
  /\ WF_vars(\E m \in net : ReadAnswer(m))
  /\ WF_vars(ReadFails \/ ReadEmpty)
  /\ WF_vars(\E m \in net : SensorServes(m))

FairSpec == Spec /\ Fairness

-----------------------------------------------------------------------------
(* Properties.                                                             *)

TypeOK ==
  /\ pc \in {"idle", "reading"}
  /\ cur \in Commands
  /\ seq \in Nat
  /\ mBuffer \in Frames \cup {NoFrame}
  /\ outcome \in [result : ErrorCodes \cup {ERR_SUCCESS}, value : Int]
  /\ net \subseteq Requests \cup Frames
  /\ param \in [Params -> Values]
  /\ scanning \in BOOLEAN
  /\ served \in [seq : Nat, answer : Answers]

Succeeded == pc = "idle" /\ outcome.result = ERR_SUCCESS

(* When GPRM or SPRM returned ERR_SUCCESS, the value handed to the caller  *)
(* is the one the sensor's parameter has (GPRMCommand::performCommand and  *)
(* SPRMCommand::performCommand return "the actual value set").             *)
ActualValueReturned ==
  Succeeded /\ cur.id \in {"GPRM", "SPRM"} =>
    cur.p \in Params /\ outcome.value = param[cur.p]

(* When SCAN returned ERR_SUCCESS, the sensor's scan process is in the     *)
(* state that was asked for: SCANCommand::performCommand hands on the      *)
(* result of sendCommand().                                                *)
ScanStateReached ==
  Succeeded /\ cur.id = "SCAN" => (scanning <=> cur.v # 0)

(* An answer whose ID is ERR is never reported as a success: checkErrors() *)
(* finds every refusal of the sensor.                                      *)
RefusalsReported ==
  Succeeded => mBuffer.kind = "answer" /\ mBuffer.body.id # "ERR"

(* Every command ends: sendCommand() does not wait for ever in read().     *)
ExchangeEnds == pc = "reading" ~> pc = "idle"

-----------------------------------------------------------------------------
(* Why these properties hold on a network that neither delays an answer    *)
(* beyond the timeout nor duplicates: at most one datagram is in flight,   *)
(* only while the host reads, and it belongs to the current request.       *)

PromptNetwork == ~LateAnswers /\ ~Duplicates

(* Answer a says about the sensor's present state what command c asked.    *)
Truthful(c, a) ==
  \/ a.id = "ERR" /\ a.v \in ErrorCodes
  \/ /\ a.id = c.id
     /\ a.p = c.p
     /\ c.id \in {"GPIN", "GPRM", "SPRM"} =>
          c.p \in Params /\ a.v = param[c.p]
     /\ c.id = "SCAN" => (scanning <=> c.v # 0)

QuietWhenIdle == pc = "idle" => net = {}

OneInFlight == \A m, n \in net : m = n

RequestInFlight ==
  \A m \in net : m.kind = "request" =>
    m.seq = seq /\ m.body = cur /\ served.seq < seq

AnswerInFlight ==
  \A m \in net : m.kind = "answer" =>
    /\ m.seq = seq
    /\ served = [seq |-> seq, answer |-> m.body]
    /\ Truthful(cur, m.body)

(* The number of datagrams in flight, and what they say, is the same       *)
(* whatever sendCommand() did before: an idle host has an empty socket,    *)
(* so the next datagram it reads answers the request it sent last.         *)
ExchangeInv ==
  /\ QuietWhenIdle
  /\ OneInFlight
  /\ RequestInFlight
  /\ AnswerInFlight
  /\ served.seq <= seq

-----------------------------------------------------------------------------
(* The exchange implements a call of the sensor.                           *)
Call == INSTANCE SensorCall WITH
  phase <- IF pc = "idle" THEN "idle"
           ELSE IF served.seq = seq THEN "served" ELSE "called",
  call <- cur,
  answer <- served.answer

CallSpec == Call!Spec
=============================================================================
