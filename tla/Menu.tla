-------------------------------- MODULE Menu --------------------------------
(***************************************************************************)
(* The menu entries 1 to 3: testGVER, testGPRM and testSPRM, which ask the *)
(* user for numbers and perform commands one after the other.  testSPRM    *)
(* first lists the parameters: it asks for parameter 1, 2, ... until a     *)
(* command fails, and uses the same variable for the ID the user types.    *)
(*                                                                         *)
(* A command is a call of module SensorCall, which Exchange implements;    *)
(* the steps of that module are composed with those of the menu here.      *)
(***************************************************************************)
EXTENDS Sensor, Sequences

CONSTANTS
  AskedParams,     \* parameter IDs the user types in
  AskedValues      \* parameter values the user types in

ASSUME MenuAssumption ==
  /\ AskedParams \subseteq Int
  /\ AskedValues \subseteq Int

VARIABLES
  param,             \* the sensor's parameters
  scanning,          \* whether the sensor's scan process runs
  phase,             \* of the call: "idle", "called" or "served"
  call,              \* the command of the current or last call
  answer,            \* the sensor's latest answer
  outcome,           \* result and value of the last call
  pc,                \* where the host is: the menu, a prompt or a command
  lParameterID,
  lParameterValue,
  list,              \* the lines testSPRM has printed
  cut,               \* history: the listing did not end with a refusal
  typed              \* history: lParameterID is a number the user typed

callVars == <<param, scanning, phase, call, answer, outcome>>
menuVars == <<pc, lParameterID, lParameterValue, list, cut, typed>>
vars == <<callVars, menuVars>>

Call == INSTANCE SensorCall

Init ==
  /\ Call!Init
  /\ pc = "menu"
  /\ lParameterID = 0
  /\ lParameterValue = 0
  /\ list = <<>>
  /\ cut = FALSE
  /\ typed = FALSE

-----------------------------------------------------------------------------
(* The steps of performCommand(): the request is sent; or the command      *)
(* fails, before or after it; or it succeeds.                              *)

Sends(c) == call' = c /\ Call!Invoke /\ UNCHANGED menuVars

Error(code) == [result |-> code, value |-> 0]

WriteFails(c) ==
  /\ call' = c
  /\ outcome' = Error(ERR_WRITE)
  /\ Call!InvokeFails

(* The sensor has refused the command and its answer has arrived.          *)
RefusalArrived == phase = "served" /\ answer.id = "ERR"

ReturnsRefusal ==
  /\ RefusalArrived
  /\ outcome' = Error(IntToError(answer.v))
  /\ Call!ReturnFails

ReadFails ==
  /\ outcome' \in {Error(ERR_READ), Error(ERR_CRC)}
  /\ Call!ReturnFails

Fails(c) == WriteFails(c) \/ ReadFails \/ ReturnsRefusal

-----------------------------------------------------------------------------
(* testGVER() and testGPRM().                                              *)

Command(id, p, v) == [id |-> id, p |-> p, v |-> v]

TestGVER ==
  /\ pc = "menu"
  /\ phase = "idle"
  /\ pc' = "GVER"
  /\ UNCHANGED <<callVars, lParameterID, lParameterValue, list, cut, typed>>

RequestVersion ==
  /\ pc = "GVER"
  /\ \/ Sends(Command("GVER", 0, 0))
     \/ /\ Fails(Command("GVER", 0, 0)) \/ Call!ReturnAnswer
        /\ pc' = "menu"
        /\ UNCHANGED <<lParameterID, lParameterValue, list, cut, typed>>

(* The prompt included: what is no number leaves the ID 0.                 *)
TestGPRM ==
  /\ pc = "menu"
  /\ phase = "idle"
  /\ pc' = "GPRM"
  /\ lParameterID' \in AskedParams \cup {0}
  /\ lParameterValue' = 0
  /\ UNCHANGED <<callVars, list, cut, typed>>

RequestParameter ==
  /\ pc = "GPRM"
  /\ \/ Sends(Command("GPRM", lParameterID, 0))
     \/ /\ \/ Fails(Command("GPRM", lParameterID, 0)) /\ UNCHANGED lParameterValue
           \/ Call!ReturnAnswer /\ lParameterValue' = outcome'.value
        /\ pc' = "menu"
        /\ UNCHANGED <<lParameterID, list, cut, typed>>

-----------------------------------------------------------------------------
(* testSPRM().                                                             *)

TestSPRM ==
  /\ pc = "menu"
  /\ phase = "idle"
  /\ pc' = "listing"
  /\ lParameterID' = 1
  /\ lParameterValue' = 0
  /\ list' = <<>>
  /\ cut' = FALSE
  /\ typed' = FALSE
  /\ UNCHANGED callVars

(* Mutant of PrintParameter: the ID is incremented before it is printed;   *)
(* it is not incremented.                                                  *)
PrintParameterNextID ==
  /\ Call!ReturnAnswer
  /\ list' = Append(list, [id |-> lParameterID + 1, value |-> outcome'.value])
  /\ lParameterID' = lParameterID + 1
  /\ UNCHANGED <<pc, lParameterValue, cut, typed>>
PrintParameterSameID ==
  /\ Call!ReturnAnswer
  /\ list' = <<[id |-> lParameterID, value |-> outcome'.value]>>
  /\ UNCHANGED <<pc, lParameterID, lParameterValue, cut, typed>>

(* A line of the listing.                                                  *)
PrintParameter ==
  /\ Call!ReturnAnswer
  /\ list' = Append(list, [id |-> lParameterID, value |-> outcome'.value])
  /\ lParameterID' = lParameterID + 1
  /\ UNCHANGED <<pc, lParameterValue, cut, typed>>

(* The listing ends with a refusal, or is cut off by any other failure.    *)
ListingFails ==
  \/ ReturnsRefusal /\ cut' = FALSE
  \/ (WriteFails(Command("GPIN", lParameterID, 0)) \/ ReadFails) /\ cut' = TRUE

(* Mutant of EndListing: a line is printed before the result is looked at; *)
(* the counter starts again.                                               *)
EndListingWithLine ==
  /\ ListingFails
  /\ pc' = "id"
  /\ list' = Append(list, [id |-> lParameterID, value |-> outcome'.value])
  /\ UNCHANGED <<lParameterID, lParameterValue, typed>>
EndListingRestarts ==
  /\ ListingFails
  /\ pc' = "id"
  /\ lParameterID' = 1
  /\ UNCHANGED <<lParameterValue, list, typed>>

(* The first command that fails ends the listing, whatever the reason.     *)
(* lParameterID keeps the ID of that command.                              *)
EndListing ==
  /\ ListingFails
  /\ pc' = "id"
  /\ UNCHANGED <<lParameterID, lParameterValue, list, typed>>

ListParameters ==
  /\ pc = "listing"
  /\ Sends(Command("GPIN", lParameterID, 0)) \/ PrintParameter \/ EndListing

(* 0 returns to the menu.  What is no number stays in the input, so that   *)
(* neither this prompt nor the next one reads anything: lParameterID is    *)
(* that of the listing and lParameterValue is 0.                           *)
PromptID ==
  /\ pc = "id"
  /\ \/ \E p \in AskedParams :
          /\ lParameterID' = p
          /\ typed' = TRUE
          /\ pc' = IF p = 0 THEN "menu" ELSE "value"
     \/ pc' = "SPRM" /\ UNCHANGED <<lParameterID, typed>>
  /\ UNCHANGED <<callVars, lParameterValue, list, cut>>

PromptValue ==
  /\ pc = "value"
  /\ lParameterValue' \in AskedValues \cup {lParameterValue}
  /\ pc' = "SPRM"
  /\ UNCHANGED <<callVars, lParameterID, list, cut, typed>>

(* The value the sensor has actually set replaces the one asked for.       *)
SetParameter ==
  /\ pc = "SPRM"
  /\ \/ Sends(Command("SPRM", lParameterID, lParameterValue))
     \/ /\ \/ /\ Fails(Command("SPRM", lParameterID, lParameterValue))
              /\ UNCHANGED lParameterValue
           \/ Call!ReturnAnswer /\ lParameterValue' = outcome'.value
        /\ pc' = "menu"
        /\ UNCHANGED <<lParameterID, list, cut, typed>>

-----------------------------------------------------------------------------
SensorServes == Call!Serve /\ UNCHANGED menuVars

Performs ==
  \/ RequestVersion
  \/ RequestParameter
  \/ ListParameters
  \/ SetParameter

Next ==
  \/ TestGVER
  \/ TestGPRM
  \/ TestSPRM
  \/ PromptID
  \/ PromptValue
  \/ Performs
  \/ SensorServes

Spec == Init /\ [][Next]_vars

(* performCommand() comes to its end (ExchangeEnds of module Exchange).    *)
(* The user need not type anything.                                        *)
FairSpec == Spec /\ WF_vars(Performs)

-----------------------------------------------------------------------------
(* Properties.                                                             *)

TypeOK ==
  /\ pc \in {"menu", "GVER", "GPRM", "listing", "id", "value", "SPRM"}
  /\ phase \in {"idle", "called", "served"}
  /\ call \in Commands
  /\ answer \in Answers
  /\ outcome \in [result : ErrorCodes \cup {ERR_SUCCESS}, value : Int]
  /\ param \in [Params -> Values]
  /\ scanning \in BOOLEAN
  /\ lParameterID \in Int
  /\ lParameterValue \in Int
  /\ list \in Seq([id : Params, value : Values])
  /\ cut \in BOOLEAN
  /\ typed \in BOOLEAN

(* The listing the user chooses from: the parameters from 1 on without a   *)
(* gap, each with the value the sensor has, and, unless a command was lost *)
(* on the way, all of them up to the first ID the sensor does not have.    *)
ListAccurate ==
  pc \in {"listing", "id", "value"} =>
    /\ \A i \in 1 .. Len(list) :
         i \in Params /\ list[i] = [id |-> i, value |-> param[i]]
    /\ pc # "listing" /\ ~cut => Len(list) + 1 \notin Params

(* The listing comes to an end: the loop of testSPRM() asks for a finite   *)
(* number of parameters.                                                   *)
ListingEnds == pc = "listing" ~> pc = "id"

(* A parameter of the sensor changes only by testSPRM(), and it is the one *)
(* whose ID the user has typed.  The other ID that can be in lParameterID, *)
(* the one the listing stopped at, is harmless because the sensor does not *)
(* have it, unless the listing stopped because a command was lost.         *)
NothingMistyped ==
  [][\A p \in Params : param'[p] # param[p] =>
       pc = "SPRM" /\ p = lParameterID /\ (typed \/ cut)]_vars

(* Why: the call under way is that of the place the host is at, and an     *)
(* answer to GPIN says what the sensor has; lParameterID counts the lines  *)
(* until the user types another number.                                    *)
CallOfThisPlace ==
  /\ phase # "idle" => pc \in {"GVER", "GPRM", "listing", "SPRM"}
  /\ phase # "idle" /\ pc \in {"GVER", "GPRM"} => call.id # "SPRM"
  /\ phase # "idle" /\ pc = "listing" => call = Command("GPIN", lParameterID, 0)
  /\ phase # "idle" /\ pc = "SPRM" => call.id = "SPRM" /\ call.p = lParameterID

ListingAnswered ==
  pc = "listing" /\ phase = "served" =>
    IF lParameterID \in Params
    THEN answer.id = "GPIN" /\ answer.v = param[lParameterID]
    ELSE answer.id = "ERR"

StaleIDHarmless ==
  /\ pc \in {"listing", "id"} => lParameterID = Len(list) + 1 /\ ~typed
  /\ pc = "value" => typed
  /\ pc = "SPRM" /\ ~typed /\ ~cut => lParameterID \notin Params

MenuInv ==
  /\ CallOfThisPlace
  /\ ListingAnswered
  /\ StaleIDHarmless
  /\ ListAccurate
=============================================================================
