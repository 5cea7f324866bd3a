----------------------------- MODULE MenuProofs ----------------------------
(***************************************************************************)
(* Theorems about Menu: type correctness, that the listing of testSPRM is  *)
(* accurate, and that no parameter is changed whose ID nobody has typed.   *)
(***************************************************************************)
EXTENDS Menu, TLAPS

-----------------------------------------------------------------------------
(* Serving a command, as in ExchangeProofs.                                *)

(* The failures of the program itself are error codes, success is none.    *)
LEMMA ErrorsAreNotSuccess ==
  /\ ERR_SUCCESS \notin ErrorCodes
  /\ {ERR_WRITE, ERR_READ, ERR_CRC, ERR_IO} \subseteq ErrorCodes
  BY DEF ErrorCodes, ERR_SUCCESS, ERR_SYSTEM_NOT_READY, ERR_IO, ERR_WRITE,
         ERR_READ, ERR_CRC, ERR_LASTERROR, ELASTERROR

(* What the sensor puts into the answer to an accepted command.            *)
LEMMA AnswerValuesType ==
  ASSUME NEW c \in Commands, NEW prm \in [Params -> Values], Accepts(c)
  PROVE  AnswerValues(c, prm) \subseteq Int
<1> USE SensorAssumption
<1>1. CASE c.id = "GVER"
  BY <1>1 DEF AnswerValues, FirmwareVersion
<1>2. CASE c.id \in {"GPIN", "GPRM"}
  <2>1. prm[c.p] \in Int
    BY <1>2 DEF Accepts
  <2> QED BY <1>2, <2>1 DEF AnswerValues
<1>3. CASE c.id = "SPRM"
  BY <1>3 DEF AnswerValues
<1>4. CASE c.id = "SCAN"
  BY <1>4 DEF AnswerValues, Commands
<1>5. CASE c.id = "GSCN"
  BY <1>5 DEF AnswerValues
<1> QED BY <1>1, <1>2, <1>3, <1>4, <1>5 DEF Accepts

(* Serving a command: a refusal changes nothing and carries an error code, *)
(* an answer carries a value of the command and the effect of the command. *)
LEMMA ServedCases ==
  ASSUME NEW c \in Commands, NEW prm, NEW scn, NEW e \in Served(c, prm, scn)
  PROVE  \/ /\ ~Accepts(c)
            /\ e.answer = Refused(Refusal(c))
            /\ e.param = prm
            /\ e.scanning = scn
         \/ /\ Accepts(c)
            /\ \E w \in AnswerValues(c, prm) :
                 /\ e.answer = Answered(c, w)
                 /\ e.param = IF c.id = "SPRM" THEN [prm EXCEPT ![c.p] = w] ELSE prm
                 /\ e.scanning = IF c.id = "SCAN" THEN w # 0 ELSE scn
  BY DEF Served

LEMMA RefusalType ==
  ASSUME NEW c
  PROVE  Refusal(c) \in ErrorCodes
  BY DEF Refusal, ErrorCodes, ERR_SYSTEM_NOT_READY, ERR_IO,
         ERR_INVALID_PARAMETER, ERR_UNKNOWN_COMMAND, ERR_LASTERROR, ELASTERROR

LEMMA ErrorCodesAreIntegers == ErrorCodes \subseteq Int
  BY DEF ErrorCodes, ERR_SYSTEM_NOT_READY, ERR_IO, ERR_LASTERROR, ELASTERROR

(* Serving a command gives an answer and leaves the sensor in a state.     *)
LEMMA ServedType ==
  ASSUME NEW c \in Commands, NEW prm \in [Params -> Values],
         NEW scn \in BOOLEAN, NEW e \in Served(c, prm, scn)
  PROVE  /\ e.answer \in Answers
         /\ e.param \in [Params -> Values]
         /\ e.scanning \in BOOLEAN
<1>1. CASE ~Accepts(c)
  <2>1. Refusal(c) \in Int
    BY RefusalType, ErrorCodesAreIntegers
  <2>2. /\ e.answer = Refused(Refusal(c))
        /\ e.param = prm
        /\ e.scanning = scn
    BY <1>1, ServedCases
  <2> QED BY <2>1, <2>2 DEF Refused, Answers, AnswerIDs
<1>2. CASE Accepts(c)
  <2>1. PICK w \in AnswerValues(c, prm) :
          /\ e.answer = Answered(c, w)
          /\ e.param = IF c.id = "SPRM" THEN [prm EXCEPT ![c.p] = w] ELSE prm
          /\ e.scanning = IF c.id = "SCAN" THEN w # 0 ELSE scn
    BY <1>2, ServedCases
  <2>2. w \in Int
    BY <1>2, AnswerValuesType
  <2>3. e.answer \in Answers
    BY <2>1, <2>2 DEF Answered, Answers, AnswerIDs, Commands
  <2>4. e.param \in [Params -> Values]
    BY <2>1 DEF AnswerValues
  <2>5. e.scanning \in BOOLEAN
    BY <2>1
  <2> QED BY <2>3, <2>4, <2>5
<1> QED BY <1>1, <1>2

-----------------------------------------------------------------------------
(* The steps of a call, in the terms of this module.                       *)

LEMMA CallNames ==
  /\ Call!ErrorCodes = ErrorCodes
  /\ Call!ERR_SUCCESS = ERR_SUCCESS
  /\ Call!ERR_IO = ERR_IO
  BY DEF Call!ErrorCodes, Call!ERR_SUCCESS, Call!ERR_IO,
     Call!ERR_SYSTEM_NOT_READY, Call!ERR_LASTERROR, Call!ELASTERROR,
     ErrorCodes, ERR_SUCCESS, ERR_IO, ERR_SYSTEM_NOT_READY, ERR_LASTERROR,
     ELASTERROR

LEMMA CallServed ==
  ASSUME NEW c, NEW prm, NEW scn
  PROVE  Call!Served(c, prm, scn) = Served(c, prm, scn)
<1>1. Call!Accepts(c) <=> Accepts(c)
  BY DEF Call!Accepts, Accepts
<1>2. Call!AnswerValues(c, prm) = AnswerValues(c, prm)
  BY DEF Call!AnswerValues, AnswerValues, Call!FirmwareVersion, FirmwareVersion
<1>3. Call!Refusal(c) = Refusal(c)
  BY DEF Call!Refusal, Refusal, Call!ERR_INVALID_PARAMETER,
     Call!ERR_UNKNOWN_COMMAND, Call!ERR_LASTERROR, Call!ELASTERROR,
     ERR_INVALID_PARAMETER, ERR_UNKNOWN_COMMAND, ERR_LASTERROR, ELASTERROR
<1>4. \A v : Call!Answered(c, v) = Answered(c, v) /\ Call!Refused(v) = Refused(v)
  BY DEF Call!Answered, Answered, Call!Refused, Refused
<1> QED BY <1>1, <1>2, <1>3, <1>4 DEF Call!Served, Served

Outcomes == [result : ErrorCodes \cup {ERR_SUCCESS}, value : Int]

LEMMA SendsStep ==
  ASSUME NEW c, Sends(c)
  PROVE  /\ c \in Commands
         /\ call' = c
         /\ phase' = "called"
         /\ phase = "idle"
         /\ UNCHANGED <<param, scanning, answer, outcome>>
         /\ UNCHANGED menuVars
  BY DEF Sends, Call!Invoke, Call!Commands, Call!CommandIDs, Commands, CommandIDs

(* A command that fails has no effect on the sensor from here on.          *)
LEMMA FailsStep ==
  ASSUME NEW c, Fails(c), TypeOK
  PROVE  /\ phase' = "idle"
         /\ call' \in Commands
         /\ outcome' \in Outcomes
         /\ UNCHANGED <<param, scanning, answer>>
<1>1. ASSUME NEW code, outcome' = Error(code), Call!Failed(outcome')
      PROVE  outcome' \in Outcomes
  BY <1>1, CallNames DEF Error, Call!Failed, Outcomes
<1>2. CASE WriteFails(c)
  <2>1. Call!InvokeFails /\ outcome' = Error(ERR_WRITE)
    BY <1>2 DEF WriteFails
  <2> QED BY <1>1, <2>1 DEF Call!InvokeFails, Call!Commands, Call!CommandIDs,
          Commands, CommandIDs
<1>3. CASE ReadFails \/ ReturnsRefusal
  <2>1. Call!ReturnFails /\ \E code : outcome' = Error(code)
    BY <1>3 DEF ReadFails, ReturnsRefusal
  <2> QED BY <1>1, <2>1 DEF Call!ReturnFails, TypeOK
<1> QED BY <1>2, <1>3 DEF Fails

LEMMA ReturnAnswerStep ==
  ASSUME Call!ReturnAnswer, TypeOK
  PROVE  /\ phase = "served"
         /\ phase' = "idle"
         /\ answer.id = call.id
         /\ outcome' = [result |-> ERR_SUCCESS,
                        value |-> IF call.id = "SCAN" THEN 0 ELSE answer.v]
         /\ outcome' \in Outcomes
         /\ outcome'.value \in Int
         /\ UNCHANGED <<param, scanning, call, answer>>
<1>1. answer.v \in Int
  BY DEF TypeOK, Answers
<1>2. outcome' = [result |-> ERR_SUCCESS,
                  value |-> IF call.id = "SCAN" THEN 0 ELSE answer.v]
  BY CallNames DEF Call!ReturnAnswer
<1>3. outcome' \in Outcomes /\ outcome'.value \in Int
  BY <1>1, <1>2 DEF Outcomes
<1> QED BY <1>2, <1>3 DEF Call!ReturnAnswer

LEMMA ServesStep ==
  ASSUME SensorServes, TypeOK
  PROVE  /\ phase = "called" /\ phase' = "served"
         /\ UNCHANGED <<call, outcome>>
         /\ UNCHANGED menuVars
         /\ \E e \in Served(call, param, scanning) :
              /\ answer' = e.answer
              /\ param' = e.param
              /\ scanning' = e.scanning
         /\ answer' \in Answers
         /\ param' \in [Params -> Values]
         /\ scanning' \in BOOLEAN
<1>1. PICK e \in Served(call, param, scanning) :
        /\ answer' = e.answer
        /\ param' = e.param
        /\ scanning' = e.scanning
  BY CallServed DEF SensorServes, Call!Serve
<1>2. e.answer \in Answers /\ e.param \in [Params -> Values] /\ e.scanning \in BOOLEAN
  BY ServedType DEF TypeOK
<1> QED BY <1>1, <1>2 DEF SensorServes, Call!Serve

-----------------------------------------------------------------------------
(* Type correctness and the invariant, action by action.                   *)

IInv == TypeOK /\ MenuInv

LEMMA InitIInv == Init => IInv
<1> SUFFICES ASSUME Init PROVE IInv
  OBVIOUS
<1>1. /\ param \in [Params -> Values] /\ scanning = FALSE /\ phase = "idle"
      /\ call = [id |-> "GVER", p |-> 0, v |-> 0]
      /\ answer = [id |-> "ERR", p |-> 0, v |-> 0]
      /\ outcome = [result |-> ERR_IO, value |-> 0]
  BY CallNames DEF Init, Call!Init
<1>2. call \in Commands /\ answer \in Answers
  BY <1>1 DEF Commands, CommandIDs, Answers, AnswerIDs
<1>3. outcome \in [result : ErrorCodes \cup {ERR_SUCCESS}, value : Int]
  BY <1>1, ErrorsAreNotSuccess
<1>4. /\ pc = "menu" /\ lParameterID = 0 /\ lParameterValue = 0 /\ list = <<>>
      /\ cut = FALSE /\ typed = FALSE
  BY DEF Init
<1>5. list \in Seq([id : Params, value : Values])
  BY <1>4
<1>6. TypeOK
  BY <1>1, <1>2, <1>3, <1>4, <1>5 DEF TypeOK
<1>7. MenuInv
  BY <1>1, <1>4 DEF MenuInv, CallOfThisPlace, ListingAnswered, StaleIDHarmless,
     ListAccurate
<1> QED BY <1>6, <1>7 DEF IInv

(* A step that begins a call.                                              *)
LEMMA SendsIInv ==
  ASSUME IInv, NEW c, Sends(c),
         pc \in {"GVER", "GPRM", "listing", "SPRM"},
         pc \in {"GVER", "GPRM"} => c.id # "SPRM",
         pc = "listing" => c = Command("GPIN", lParameterID, 0),
         pc = "SPRM" => c.id = "SPRM" /\ c.p = lParameterID
  PROVE  IInv'
<1>1. TypeOK'
  BY SendsStep DEF IInv, TypeOK, menuVars
<1>2. CallOfThisPlace' /\ ListingAnswered' /\ StaleIDHarmless' /\ ListAccurate'
  BY SendsStep DEF IInv, MenuInv, CallOfThisPlace, ListingAnswered,
     StaleIDHarmless, ListAccurate, menuVars, Command
<1> QED BY <1>1, <1>2 DEF IInv, MenuInv

(* A step that brings a call to its end and the host back to the menu.     *)
LEMMA ReturnsIInv ==
  ASSUME IInv, phase' = "idle", pc' = "menu",
         call' \in Commands, outcome' \in Outcomes, lParameterValue' \in Int,
         UNCHANGED <<param, scanning, answer, lParameterID, list, cut, typed>>
  PROVE  IInv'
<1>1. TypeOK'
  BY DEF IInv, TypeOK, Outcomes
<1>2. MenuInv'
  BY DEF MenuInv, CallOfThisPlace, ListingAnswered, StaleIDHarmless, ListAccurate
<1> QED BY <1>1, <1>2 DEF IInv

LEMMA RequestVersionStep == IInv /\ RequestVersion => IInv'
<1> SUFFICES ASSUME IInv, RequestVersion PROVE IInv'
  OBVIOUS
<1> DEFINE c == Command("GVER", 0, 0)
<1>0. pc = "GVER" /\ c.id = "GVER"
  BY DEF RequestVersion, Command
<1> HIDE DEF c
<1>1. CASE Sends(c)
  BY <1>0, <1>1, SendsIInv
<1>2. CASE /\ Fails(c) \/ Call!ReturnAnswer
           /\ pc' = "menu"
           /\ UNCHANGED <<lParameterID, lParameterValue, list, cut, typed>>
  <2>1. /\ phase' = "idle" /\ call' \in Commands /\ outcome' \in Outcomes
        /\ UNCHANGED <<param, scanning, answer>>
    BY <1>2, FailsStep, ReturnAnswerStep DEF IInv, TypeOK
  <2>2. lParameterValue' \in Int
    BY <1>2 DEF IInv, TypeOK
  <2> QED BY <1>2, <2>1, <2>2, ReturnsIInv
<1> QED BY <1>1, <1>2 DEF RequestVersion, c

LEMMA RequestParameterStep == IInv /\ RequestParameter => IInv'
<1> SUFFICES ASSUME IInv, RequestParameter PROVE IInv'
  OBVIOUS
<1> DEFINE c == Command("GPRM", lParameterID, 0)
<1>0. pc = "GPRM" /\ c.id = "GPRM"
  BY DEF RequestParameter, Command
<1> HIDE DEF c
<1>1. CASE Sends(c)
  BY <1>0, <1>1, SendsIInv
<1>2. CASE /\ \/ Fails(c) /\ UNCHANGED lParameterValue
              \/ Call!ReturnAnswer /\ lParameterValue' = outcome'.value
           /\ pc' = "menu"
           /\ UNCHANGED <<lParameterID, list, cut, typed>>
  <2>1. /\ phase' = "idle" /\ call' \in Commands /\ outcome' \in Outcomes
        /\ UNCHANGED <<param, scanning, answer>>
        /\ lParameterValue' \in Int
    BY <1>2, FailsStep, ReturnAnswerStep DEF IInv, TypeOK
  <2> QED BY <1>2, <2>1, ReturnsIInv
<1> QED BY <1>1, <1>2 DEF RequestParameter, c

LEMMA SetParameterStep == IInv /\ SetParameter => IInv'
<1> SUFFICES ASSUME IInv, SetParameter PROVE IInv'
  OBVIOUS
<1> DEFINE c == Command("SPRM", lParameterID, lParameterValue)
<1>0. pc = "SPRM" /\ c.id = "SPRM" /\ c.p = lParameterID
  BY DEF SetParameter, Command
<1> HIDE DEF c
<1>1. CASE Sends(c)
  BY <1>0, <1>1, SendsIInv
<1>2. CASE /\ \/ Fails(c) /\ UNCHANGED lParameterValue
              \/ Call!ReturnAnswer /\ lParameterValue' = outcome'.value
           /\ pc' = "menu"
           /\ UNCHANGED <<lParameterID, list, cut, typed>>
  <2>1. /\ phase' = "idle" /\ call' \in Commands /\ outcome' \in Outcomes
        /\ UNCHANGED <<param, scanning, answer>>
        /\ lParameterValue' \in Int
    BY <1>2, FailsStep, ReturnAnswerStep DEF IInv, TypeOK
  <2> QED BY <1>2, <2>1, ReturnsIInv
<1> QED BY <1>1, <1>2 DEF SetParameter, c

(* A line is printed: the answer is that to the ID of the counter, so the  *)
(* line says what the sensor has, and the list grows by it.                *)
LEMMA PrintParameterStep ==
  ASSUME IInv, pc = "listing", PrintParameter
  PROVE  IInv'
<1> DEFINE line == [id |-> lParameterID, value |-> outcome'.value]
<1>1. /\ phase = "served" /\ phase' = "idle"
      /\ answer.id = call.id
      /\ outcome' \in Outcomes /\ outcome'.value \in Int
      /\ UNCHANGED <<param, scanning, call, answer>>
  BY ReturnAnswerStep DEF PrintParameter, IInv
<1>2. /\ call = Command("GPIN", lParameterID, 0)
      /\ outcome'.value = answer.v
  <2>1. call = Command("GPIN", lParameterID, 0)
    BY <1>1 DEF IInv, MenuInv, CallOfThisPlace
  <2>2. call.id # "SCAN"
    BY <2>1 DEF Command
  <2> QED BY <2>1, <2>2, ReturnAnswerStep DEF PrintParameter, IInv
<1>3. lParameterID \in Params /\ outcome'.value = param[lParameterID]
  BY <1>1, <1>2 DEF IInv, MenuInv, ListingAnswered, Command
<1>4. line \in [id : Params, value : Values]
  BY <1>3 DEF IInv, TypeOK
<1>5. /\ list' = Append(list, line) /\ lParameterID' = lParameterID + 1
      /\ UNCHANGED <<pc, lParameterValue, cut, typed>>
  BY DEF PrintParameter
<1>6. lParameterID = Len(list) + 1
  BY DEF IInv, MenuInv, StaleIDHarmless
<1>7. list \in Seq([id : Params, value : Values]) /\ Len(list) \in Nat
  BY DEF IInv, TypeOK
<1>8. list' \in Seq([id : Params, value : Values]) /\ Len(list') = Len(list) + 1
  BY <1>4, <1>5, <1>7
<1>9. \A j \in 1 .. Len(list') :
        j \in Params /\ list'[j] = [id |-> j, value |-> param'[j]]
  <2> SUFFICES ASSUME NEW j \in 1 .. Len(list')
               PROVE  j \in Params /\ list'[j] = [id |-> j, value |-> param'[j]]
    OBVIOUS
  <2>1. CASE j = Len(list) + 1
    <3>1. list'[j] = line
      BY <1>4, <1>5, <1>7, <2>1
    <3> QED BY <1>1, <1>3, <1>6, <2>1, <3>1
  <2>2. CASE j \in 1 .. Len(list)
    <3>1. list'[j] = list[j]
      BY <1>4, <1>5, <1>7, <2>2
    <3> QED BY <1>1, <2>2, <3>1 DEF IInv, MenuInv, ListAccurate
  <2> QED BY <1>7, <1>8, <2>1, <2>2
<1> HIDE DEF line
<1>10. TypeOK'
  <2>1. lParameterID' \in Int
    BY <1>5, <1>6, <1>7
  <2>2. call' \in Commands /\ answer' \in Answers /\ param' \in [Params -> Values]
    BY <1>1 DEF IInv, TypeOK
  <2>3. scanning' \in BOOLEAN /\ cut' \in BOOLEAN /\ typed' \in BOOLEAN
    BY <1>1, <1>5 DEF IInv, TypeOK
  <2>4. outcome' \in [result : ErrorCodes \cup {ERR_SUCCESS}, value : Int]
    BY <1>1 DEF Outcomes
  <2>5. lParameterValue' \in Int /\ pc' = "listing"
    BY <1>5 DEF IInv, TypeOK
  <2> QED BY <1>1, <1>8, <2>1, <2>2, <2>3, <2>4, <2>5 DEF TypeOK
<1>11. StaleIDHarmless'
  BY <1>5, <1>6, <1>7, <1>8 DEF IInv, MenuInv, StaleIDHarmless
<1>12. CallOfThisPlace' /\ ListingAnswered' /\ ListAccurate'
  BY <1>1, <1>5, <1>9 DEF CallOfThisPlace, ListingAnswered, ListAccurate
<1> QED BY <1>10, <1>11, <1>12 DEF IInv, MenuInv

(* The listing stops: after a refusal the sensor has no parameter of the   *)
(* ID the counter stands at.                                               *)
LEMMA EndListingStep ==
  ASSUME IInv, pc = "listing", EndListing
  PROVE  IInv'
<1> DEFINE c == Command("GPIN", lParameterID, 0)
<1>1. Fails(c) /\ cut' \in BOOLEAN
  BY DEF EndListing, ListingFails, Fails
<1>2. /\ phase' = "idle" /\ call' \in Commands /\ outcome' \in Outcomes
      /\ UNCHANGED <<param, scanning, answer>>
  BY <1>1, FailsStep DEF IInv
<1>3. pc' = "id" /\ UNCHANGED <<lParameterID, lParameterValue, list, typed>>
  BY DEF EndListing
<1>4. TypeOK'
  BY <1>1, <1>2, <1>3 DEF IInv, TypeOK, Outcomes
<1>5. lParameterID = Len(list) + 1 /\ ~typed
  BY DEF IInv, MenuInv, StaleIDHarmless
<1>6. ASSUME ~cut' PROVE Len(list) + 1 \notin Params
  <2>1. ReturnsRefusal
    BY <1>6 DEF EndListing, ListingFails
  <2>2. phase = "served" /\ answer.id = "ERR"
    BY <2>1 DEF ReturnsRefusal, RefusalArrived
  <2> QED BY <1>5, <2>2 DEF IInv, MenuInv, ListingAnswered
<1>7. ListAccurate'
  BY <1>2, <1>3, <1>6 DEF IInv, MenuInv, ListAccurate
<1>8. CallOfThisPlace' /\ ListingAnswered' /\ StaleIDHarmless'
  BY <1>2, <1>3, <1>5 DEF CallOfThisPlace, ListingAnswered, StaleIDHarmless
<1> QED BY <1>4, <1>7, <1>8 DEF IInv, MenuInv

LEMMA ListParametersStep == IInv /\ ListParameters => IInv'
<1> SUFFICES ASSUME IInv, ListParameters PROVE IInv'
  OBVIOUS
<1>1. pc = "listing"
  BY DEF ListParameters
<1>2. CASE Sends(Command("GPIN", lParameterID, 0))
  BY <1>1, <1>2, SendsIInv
<1>3. CASE PrintParameter
  BY <1>1, <1>3, PrintParameterStep
<1>4. CASE EndListing
  BY <1>1, <1>4, EndListingStep
<1> QED BY <1>2, <1>3, <1>4 DEF ListParameters

(* The sensor serves the command of this place: only SPRM changes a        *)
(* parameter, and the answer to GPIN has the value the parameter has.      *)
LEMMA ServesIInv ==
  ASSUME IInv, SensorServes
  PROVE  /\ IInv'
         /\ \A p \in Params : param'[p] # param[p] =>
              pc = "SPRM" /\ p = lParameterID
<1>1. /\ phase = "called" /\ phase' = "served"
      /\ UNCHANGED <<call, outcome>> /\ UNCHANGED menuVars
      /\ answer' \in Answers
      /\ param' \in [Params -> Values]
      /\ scanning' \in BOOLEAN
  BY ServesStep DEF IInv
<1>2. PICK e \in Served(call, param, scanning) :
        answer' = e.answer /\ param' = e.param /\ scanning' = e.scanning
  BY ServesStep DEF IInv
<1>3. call \in Commands /\ param \in [Params -> Values]
  BY DEF IInv, TypeOK
<1>4. \/ ~Accepts(call) /\ answer' = Refused(Refusal(call)) /\ param' = param
      \/ /\ Accepts(call)
         /\ \E w \in AnswerValues(call, param) :
              /\ answer' = Answered(call, w)
              /\ param' = IF call.id = "SPRM" THEN [param EXCEPT ![call.p] = w]
                          ELSE param
  BY <1>2, <1>3, ServedCases
<1>5. call.id # "SPRM" => param' = param
  BY <1>4
<1>6. \A p \in Params : param'[p] # param[p] => call.id = "SPRM" /\ p = call.p
  BY <1>3, <1>4
<1>7. call.id = "SPRM" => pc = "SPRM" /\ call.p = lParameterID
  BY <1>1 DEF IInv, MenuInv, CallOfThisPlace, Command
<1>8. TypeOK'
  BY <1>1 DEF IInv, TypeOK, menuVars
<1>9. ListAccurate' /\ StaleIDHarmless' /\ CallOfThisPlace'
  BY <1>1, <1>5, <1>7 DEF IInv, MenuInv, ListAccurate, StaleIDHarmless,
     CallOfThisPlace, menuVars
<1>10. ListingAnswered'
  <2> SUFFICES ASSUME pc = "listing"
               PROVE  IF lParameterID \in Params
                      THEN answer'.id = "GPIN" /\ answer'.v = param'[lParameterID]
                      ELSE answer'.id = "ERR"
    BY <1>1 DEF ListingAnswered, menuVars
  <2>1. call.id = "GPIN" /\ call.p = lParameterID
    BY <1>1 DEF IInv, MenuInv, CallOfThisPlace, Command
  <2>2. Accepts(call) <=> lParameterID \in Params
    BY <2>1 DEF Accepts
  <2>3. CASE Accepts(call)
    <3>1. PICK w \in AnswerValues(call, param) :
            answer' = Answered(call, w) /\ param' = param
      BY <1>4, <2>1, <2>3
    <3>2. w = param[lParameterID]
      BY <2>1 DEF AnswerValues
    <3> QED BY <2>1, <2>2, <2>3, <3>1, <3>2 DEF Answered
  <2>4. CASE ~Accepts(call)
    BY <1>4, <2>2, <2>4 DEF Refused
  <2> QED BY <2>3, <2>4
<1> QED BY <1>6, <1>7, <1>8, <1>9, <1>10 DEF IInv, MenuInv

(* Choosing a menu entry; the prompts.                                     *)
LEMMA ChooseStep == IInv /\ (TestGVER \/ TestGPRM \/ TestSPRM) => IInv'
<1> SUFFICES ASSUME IInv, TestGVER \/ TestGPRM \/ TestSPRM PROVE IInv'
  OBVIOUS
<1>1. phase = "idle" /\ UNCHANGED callVars
  BY DEF TestGVER, TestGPRM, TestSPRM
<1>2. /\ pc' \in {"GVER", "GPRM", "listing"}
      /\ lParameterID' \in Int /\ lParameterValue' \in Int
      /\ cut' \in BOOLEAN /\ typed' \in BOOLEAN
      /\ list' \in Seq([id : Params, value : Values])
  <2>1. CASE TestGVER
    BY <2>1 DEF TestGVER, IInv, TypeOK
  <2>2. CASE TestGPRM
    <3>1. lParameterID' \in Int
      BY <2>2, MenuAssumption DEF TestGPRM
    <3> QED BY <2>2, <3>1 DEF TestGPRM, IInv, TypeOK
  <2>3. CASE TestSPRM
    <3>1. list' = <<>> /\ cut' = FALSE /\ typed' = FALSE
      BY <2>3 DEF TestSPRM
    <3>2. list' \in Seq([id : Params, value : Values])
      BY <3>1
    <3>3. lParameterID' \in Int /\ lParameterValue' \in Int /\ pc' = "listing"
      BY <2>3 DEF TestSPRM
    <3> QED BY <3>1, <3>2, <3>3
  <2> QED BY <2>1, <2>2, <2>3
<1>3. pc' = "listing" => lParameterID' = 1 /\ list' = <<>> /\ ~typed'
  BY DEF TestGVER, TestGPRM, TestSPRM
<1>4. TypeOK'
  BY <1>1, <1>2 DEF IInv, TypeOK, callVars
<1>5. CallOfThisPlace' /\ ListingAnswered'
  BY <1>1, <1>2 DEF CallOfThisPlace, ListingAnswered, callVars
<1>6. StaleIDHarmless' /\ ListAccurate'
  BY <1>1, <1>2, <1>3 DEF StaleIDHarmless, ListAccurate, callVars
<1> QED BY <1>4, <1>5, <1>6 DEF IInv, MenuInv

LEMMA PromptStep == IInv /\ (PromptID \/ PromptValue) => IInv'
<1> SUFFICES ASSUME IInv, PromptID \/ PromptValue PROVE IInv'
  OBVIOUS
<1>0. phase = "idle" /\ UNCHANGED callVars /\ UNCHANGED <<list, cut>>
  BY DEF PromptID, PromptValue, IInv, MenuInv, CallOfThisPlace, TypeOK
<1>1. /\ pc' \in {"menu", "value", "SPRM"}
      /\ lParameterID' \in Int /\ lParameterValue' \in Int /\ typed' \in BOOLEAN
  <2>1. CASE PromptID
    <3>1. lParameterID' \in Int
      BY <2>1, MenuAssumption DEF PromptID, IInv, TypeOK
    <3>2. typed' \in BOOLEAN
      BY <2>1 DEF PromptID, IInv, TypeOK
    <3>3. pc' \in {"menu", "value", "SPRM"} /\ UNCHANGED lParameterValue
      BY <2>1 DEF PromptID
    <3> QED BY <3>1, <3>2, <3>3 DEF IInv, TypeOK
  <2>2. CASE PromptValue
    <3>1. lParameterValue' \in Int
      BY <2>2, MenuAssumption DEF PromptValue, IInv, TypeOK
    <3>2. pc' = "SPRM" /\ UNCHANGED <<lParameterID, typed>>
      BY <2>2 DEF PromptValue
    <3> QED BY <3>1, <3>2 DEF IInv, TypeOK
  <2> QED BY <2>1, <2>2
<1>2. TypeOK'
  BY <1>0, <1>1 DEF IInv, TypeOK, callVars
<1>3. CallOfThisPlace' /\ ListingAnswered'
  BY <1>0, <1>1 DEF CallOfThisPlace, ListingAnswered, callVars
<1>4. ListAccurate'
  <2>1. pc' = "value" => pc = "id"
    BY DEF PromptID, PromptValue
  <2> QED BY <1>0, <1>1, <2>1 DEF IInv, MenuInv, ListAccurate, callVars
<1>5. StaleIDHarmless'
  <2>0. pc' = "value" => typed'
    BY DEF PromptID, PromptValue
  <2> SUFFICES ASSUME pc' = "SPRM", ~typed', ~cut'
               PROVE  lParameterID' \notin Params
    BY <1>1, <2>0 DEF StaleIDHarmless
  <2>1. CASE PromptID
    <3>1. pc = "id" /\ UNCHANGED <<lParameterID, typed>>
      BY <2>1 DEF PromptID
    <3> QED BY <1>0, <3>1 DEF IInv, MenuInv, StaleIDHarmless, ListAccurate
  <2>2. CASE PromptValue
    <3>1. pc = "value" /\ UNCHANGED <<lParameterID, typed>>
      BY <2>2 DEF PromptValue
    <3> QED BY <1>0, <3>1 DEF IInv, MenuInv, StaleIDHarmless
  <2> QED BY <2>1, <2>2
<1> QED BY <1>2, <1>3, <1>4, <1>5 DEF IInv, MenuInv

LEMMA IInvStep == IInv /\ [Next]_vars => IInv'
<1>1. ASSUME IInv, UNCHANGED vars PROVE IInv'
  BY <1>1 DEF vars, callVars, menuVars, IInv, TypeOK, MenuInv, CallOfThisPlace,
     ListingAnswered, StaleIDHarmless, ListAccurate
<1> QED BY <1>1, ChooseStep, PromptStep, RequestVersionStep,
        RequestParameterStep, ListParametersStep, SetParameterStep, ServesIInv
        DEF Next, Performs

LEMMA IInvHolds == Spec => []IInv
  BY InitIInv, IInvStep, PTL DEF Spec

-----------------------------------------------------------------------------
(* What follows.                                                           *)

(* The variables of testGVER, testGPRM and testSPRM and of their calls     *)
(* keep their types; every line listed is that of a parameter.             *)
THEOREM MenuTypeCorrect == Spec => []TypeOK
<1>1. IInv => TypeOK
  BY DEF IInv
<1> QED BY <1>1, IInvHolds, PTL

(* Whatever parameters the sensor has, testSPRM lists the first of them    *)
(* without a gap and with the values they have; and all of them up to the  *)
(* first ID the sensor lacks, unless a command failed on the way.          *)
THEOREM ListIsAccurate == Spec => []ListAccurate
<1>1. IInv => ListAccurate
  BY DEF IInv, MenuInv
<1> QED BY <1>1, IInvHolds, PTL

(* A parameter changes only where testSPRM sets the one whose ID the user  *)
(* has typed, or the one where a failed command has cut off the listing.   *)
THEOREM NothingIsMistyped == Spec => NothingMistyped
<1> DEFINE A == \A p \in Params : param'[p] # param[p] =>
                  pc = "SPRM" /\ p = lParameterID /\ (typed \/ cut)
<1>1. IInv /\ [Next]_vars => [A]_vars
  <2> SUFFICES ASSUME IInv, Next PROVE A
    OBVIOUS
  <2>1. CASE SensorServes
    <3> SUFFICES ASSUME NEW p \in Params, param'[p] # param[p]
                 PROVE  pc = "SPRM" /\ p = lParameterID /\ (typed \/ cut)
      OBVIOUS
    <3>1. pc = "SPRM" /\ p = lParameterID
      BY <2>1, ServesIInv
    <3> QED BY <3>1 DEF IInv, MenuInv, StaleIDHarmless
  <2>2. CASE TestGVER \/ TestGPRM \/ TestSPRM \/ PromptID \/ PromptValue
    <3>1. UNCHANGED param
      BY <2>2 DEF TestGVER, TestGPRM, TestSPRM, PromptID, PromptValue, callVars
    <3> QED BY <3>1
  <2>3. CASE Performs
    <3>1. \/ \E c : Sends(c) \/ Fails(c)
          \/ Call!ReturnAnswer
      BY <2>3 DEF Performs, RequestVersion, RequestParameter, ListParameters,
         SetParameter, PrintParameter, EndListing, ListingFails, Fails
    <3>2. UNCHANGED param
      BY <3>1, SendsStep, FailsStep, ReturnAnswerStep DEF IInv
    <3> QED BY <3>2
  <2> QED BY <2>1, <2>2, <2>3 DEF Next
<1> QED BY <1>1, IInvHolds, PTL DEF Spec, NothingMistyped
=============================================================================
