----------------------------- MODULE SensorCall ----------------------------
(***************************************************************************)
(* What a command object promises its caller: performCommand() is a call   *)
(* of the sensor.  Between the invocation and the return the sensor serves *)
(* the command at most once; the call either fails, whether or not it was  *)
(* served, or it succeeds with the answer to this very command.  There is  *)
(* no network in this module.                                              *)
(***************************************************************************)
EXTENDS Sensor

VARIABLES
  param,       \* the sensor's parameters
  scanning,    \* whether the sensor's scan process runs
  phase,       \* "idle", "called" or "served"
  call,        \* the command of the current or last call
  answer,      \* the sensor's latest answer
  outcome      \* result and value handed to the caller

vars == <<param, scanning, phase, call, answer, outcome>>

Init ==
  /\ param \in [Params -> Values]
  /\ scanning = FALSE
  /\ phase = "idle"
  /\ call = [id |-> "GVER", p |-> 0, v |-> 0]
  /\ answer = [id |-> "ERR", p |-> 0, v |-> 0]
  /\ outcome = [result |-> ERR_IO, value |-> 0]

Failed(o) == o.result \in ErrorCodes /\ o.value = 0

Invoke ==
  /\ phase = "idle"
  /\ call' \in Commands
  /\ phase' = "called"
  /\ UNCHANGED <<param, scanning, answer, outcome>>

(* The command could not even be sent.                                     *)
InvokeFails ==
  /\ phase = "idle"
  /\ call' \in Commands
  /\ Failed(outcome')
  /\ UNCHANGED <<param, scanning, phase, answer>>

Serve ==
  /\ phase = "called"
  /\ \E e \in Served(call, param, scanning) :
       /\ answer' = e.answer
       /\ param' = e.param
       /\ scanning' = e.scanning
  /\ phase' = "served"
  /\ UNCHANGED <<call, outcome>>

ReturnFails ==
  /\ phase # "idle"
  /\ Failed(outcome')
  /\ phase' = "idle"
  /\ UNCHANGED <<param, scanning, call, answer>>

(* SCAN has no result but its success; the others return a value.          *)
ReturnAnswer ==
  /\ phase = "served"
  /\ answer.id = call.id
  /\ outcome' = [result |-> ERR_SUCCESS,
                 value |-> IF call.id = "SCAN" THEN 0 ELSE answer.v]
  /\ phase' = "idle"
  /\ UNCHANGED <<param, scanning, call, answer>>

Next == Invoke \/ InvokeFails \/ Serve \/ ReturnFails \/ ReturnAnswer

Spec == Init /\ [][Next]_vars
=============================================================================
