------------------------------ MODULE Sensor -------------------------------
(***************************************************************************)
(* The laser sensor at the other end of the connection.  It is not part of *)
(* the repository: what it does with a command is taken from the way the   *)
(* command classes use it (the request they build, the answer they parse). *)
(* A command either has an effect on the parameters or on the scan process *)
(* and is answered under its own command ID, or it is refused with an      *)
(* answer whose ID is "ERR" and whose payload is a negative error code.    *)
(***************************************************************************)
EXTENDS ErrorID

CONSTANTS
  Params,          \* IDs of the parameters this sensor has
  Values,          \* values a parameter can have
  ScanNumbers      \* scan numbers that occur in GSCN answers

ASSUME SensorAssumption ==
  /\ Params \subseteq Int
  /\ 0 \notin Params
  /\ Values \subseteq Int
  /\ ScanNumbers \subseteq Int

FirmwareVersion == 1

CommandIDs == {"GVER", "GPIN", "GPRM", "SPRM", "SCAN", "GSCN", "GSC2"}
AnswerIDs == CommandIDs \cup {"ERR"}

(* A request without its framing: command ID and up to two integers.       *)
Commands == [id : CommandIDs, p : Int, v : Int]
Answers == [id : AnswerIDs, p : Int, v : Int]

Answered(c, v) == [id |-> c.id, p |-> c.p, v |-> v]
Refused(code) == [id |-> "ERR", p |-> 0, v |-> code]

(* A command the sensor knows, about a parameter it has.                   *)
Accepts(c) ==
  \/ c.id \in {"GVER", "SCAN", "GSCN"}
  \/ c.id \in {"GPIN", "GPRM", "SPRM"} /\ c.p \in Params

Refusal(c) ==
  IF c.id \in {"GPIN", "GPRM", "SPRM"} THEN ERR_INVALID_PARAMETER
  ELSE ERR_UNKNOWN_COMMAND

(* The values that can be in the answer to an accepted command.  The value *)
(* programmed by SPRM is the sensor's choice (it may clamp the one asked   *)
(* for); GSCN is answered with the latest scan whatever its number is.     *)
AnswerValues(c, prm) ==
  IF c.id = "GVER" THEN {FirmwareVersion}
  ELSE IF c.id = "SPRM" THEN Values
  ELSE IF c.id = "SCAN" THEN {c.v}
  ELSE IF c.id = "GSCN" THEN ScanNumbers
  ELSE {prm[c.p]}

(* The possible results of serving command c: the answer, and the sensor's *)
(* parameters (prm before) and scan process (scn before) afterwards.       *)
Served(c, prm, scn) ==
  IF Accepts(c)
  THEN {[answer |-> Answered(c, w),
         param |-> IF c.id = "SPRM" THEN [prm EXCEPT ![c.p] = w] ELSE prm,
         scanning |-> IF c.id = "SCAN" THEN w # 0 ELSE scn] :
          w \in AnswerValues(c, prm)}
  ELSE {[answer |-> Refused(Refusal(c)), param |-> prm, scanning |-> scn]}
=============================================================================
