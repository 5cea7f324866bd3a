------------------------- MODULE ScanSessionProofs --------------------------
(***************************************************************************)
(* Theorems about ScanSession: type correctness, that the period the user  *)
(* asks for is scanned, that every missed scan is counted once, and that   *)
(* the sensor's scan process is stopped after a successful run().          *)
(***************************************************************************)
EXTENDS ScanSession, WellFoundedInduction, TLAPS

Classes == {"ScanSequence", "Scan2Sequence", "ScanPrint", "Scan2Print"}
ScanCommands == [id : {"GSCN", "GSC2"}, scans : Nat \ {0}, points : Nat \ {0}]
Outcomes == {ERR_SUCCESS, ERR_READ, ERR_WRITE}

-----------------------------------------------------------------------------
(* The operators of the model.                                             *)

LEMMA OutcomesDiffer == ERR_READ # ERR_SUCCESS /\ ERR_WRITE # ERR_SUCCESS
  BY DEF ERR_READ, ERR_WRITE, ERR_SUCCESS, ERR_LASTERROR, ELASTERROR

(* A set of natural numbers that is not empty has a least element.         *)
LEMMA MinIsLeast ==
  ASSUME NEW S \in SUBSET Nat, S # {}
  PROVE  Min(S) \in S /\ \A n \in S : Min(S) <= n
<1>1. PICK m \in S : \A n \in S : <<n, m>> \notin OpToRel(<, Nat)
  BY NatLessThanWellFounded, WFMin, Zenon
<1>2. \A n \in Nat : <<n, m>> \in OpToRel(<, Nat) <=>
                    <<n, m>> \in Nat \X Nat /\ <<n, m>>[1] < <<n, m>>[2]
  BY Zenon DEF OpToRel
<1>3. \A n \in S : ~ (n < m)
  BY <1>1, <1>2, Zenon
<1>4. \A n \in S : m <= n
  BY <1>3
<1> QED BY <1>4 DEF Min

LEMMA MinIsTheLeast ==
  ASSUME NEW S \in SUBSET Nat, NEW m \in S, \A n \in S : m <= n
  PROVE  Min(S) = m
<1>1. Min(S) \in S /\ \A n \in S : Min(S) <= n
  BY DEF Min
<1>2. Min(S) <= m /\ m <= Min(S) /\ Min(S) \in Nat /\ m \in Nat
  BY <1>1
<1> QED BY <1>2

LEMMA MaxIsGreatest ==
  ASSUME NEW S \in SUBSET Nat, NEW m \in S, \A n \in S : n <= m
  PROVE  Max(S) = m
<1>1. \A n \in S : m >= n
  OBVIOUS
<1>2. Max(S) \in S /\ \A n \in S : Max(S) >= n
  BY <1>1 DEF Max
<1>3. Max(S) >= m /\ m >= Max(S) /\ Max(S) \in Nat /\ m \in Nat
  BY <1>1, <1>2
<1> QED BY <1>3

(* Every way to start a session is Run, for some class and some command.   *)
Starts == \E c \in Classes, cmd \in ScanCommands, period \in 0 .. CLOCK_MAX :
            Run(c, cmd, period)

LEMMA SessionsStart ==
  ASSUME \/ \E period \in Periods : RunScanSequence(period)
         \/ \E period \in Periods, n \in Averages : RunScan2Sequence(period, n)
         \/ RunScanPrint
         \/ \E n, k \in Averages : RunScan2Print(n, k)
  PROVE  Starts
<1>1. GSCN \in ScanCommands
  BY DEF GSCN, ScanCommands
<1>2. \A n \in Averages : Average(n) \in Nat \ {0}
  BY ScanSessionAssumption DEF Average
<1>3. \A n, k \in Averages :
        GSC2(n, 1) \in ScanCommands /\ GSC2(n, Average(k)) \in ScanCommands
  BY <1>2 DEF GSC2, ScanCommands
<1>4. Periods \subseteq 0 .. CLOCK_MAX /\ 0 \in 0 .. CLOCK_MAX
  BY ScanSessionAssumption
<1> QED BY <1>1, <1>3, <1>4 DEF Starts, Classes, RunScanSequence,
        RunScan2Sequence, RunScanPrint, RunScan2Print

LEMMA NextSteps ==
  Next => \/ Starts
          \/ StartScan
          \/ \E key \in BOOLEAN : Loop(key)
          \/ SensorAnswers
          \/ ScanFails
          \/ LogScan
          \/ StopScan
          \/ Measure
          \/ Tick
  BY SessionsStart DEF Next, HostStep

-----------------------------------------------------------------------------
(* Type correctness.                                                       *)

LEMMA InitTypeOK == Init => TypeOK
<1> SUFFICES ASSUME Init PROVE TypeOK
  OBVIOUS
<1>1. clock \in 0 .. CLOCK_MAX /\ elapsed \in 0 .. CLOCK_MAX + 1
  BY ScanSessionAssumption DEF Init
<1>2. command \in ScanCommands
  BY DEF Init, ScanCommands
<1>3. got \subseteq 1 .. MaxScans /\ reported \subseteq 1 .. MaxScans
  BY DEF Init
<1>4. scanning \in BOOLEAN
  BY DEF Init
<1>5. 0 \in 0 .. MaxScans /\ 0 \in 0 .. CLOCK_MAX
  BY ScanSessionAssumption
<1> QED BY <1>1, <1>2, <1>3, <1>4, <1>5 DEF Init, TypeOK, ScanCommands

LEMMA SCANCommandOutcome ==
  ASSUME NEW on \in BOOLEAN, SCANCommand(on), scanning \in BOOLEAN
  PROVE  scanning' \in BOOLEAN /\ result' \in Outcomes
  BY DEF SCANCommand, Outcomes

LEMMA LogScanType ==
  ASSUME TypeOK, LogScan
  PROVE  mScanNumber' \in 0 .. MaxScans /\ got' \subseteq 1 .. MaxScans
         /\ reported' \subseteq 1 .. MaxScans
<1>1. CASE mScan = 0
  BY <1>1 DEF LogScan, TypeOK, logVars
<1>2. CASE mScan # 0
  <2>1. mScan \in 1 .. MaxScans /\ mScanNumber' = mScan /\ got' = got \cup {mScan}
    BY <1>2 DEF LogScan, TypeOK
  <2>2. \/ reported' = reported
        \/ reported' = reported \cup (mScan - LostScans .. mScan - 1)
    BY <1>2 DEF LogScan
  <2>3. mScan - LostScans .. mScan - 1 \subseteq 1 .. MaxScans
    BY <2>1, ScanSessionAssumption DEF LostScans, TypeOK
  <2>4. mScanNumber' \in 0 .. MaxScans
    BY <2>1, ScanSessionAssumption
  <2>5. got' \subseteq 1 .. MaxScans
    BY <2>1 DEF TypeOK
  <2> QED BY <2>2, <2>3, <2>4, <2>5 DEF TypeOK
<1> QED BY <1>1, <1>2

LEMMA TickType ==
  ASSUME TypeOK, Tick
  PROVE  /\ clock' \in 0 .. CLOCK_MAX
         /\ elapsed' = IF elapsed = CLOCK_MAX + 1 THEN elapsed ELSE elapsed + 1
         /\ elapsed' \in 0 .. CLOCK_MAX + 1
<1>1. clock' \in 0 .. CLOCK_MAX
  BY ScanSessionAssumption DEF TypeOK, Tick
<1> DEFINE m == IF elapsed = CLOCK_MAX + 1 THEN elapsed ELSE elapsed + 1
<1>2. elapsed \in 0 .. CLOCK_MAX + 1 /\ CLOCK_MAX \in Nat
  BY ScanSessionAssumption DEF TypeOK
<1>3. {elapsed + 1, CLOCK_MAX + 1} \in SUBSET Nat
  BY <1>2
<1>4. /\ m \in {elapsed + 1, CLOCK_MAX + 1}
      /\ m <= elapsed + 1 /\ m <= CLOCK_MAX + 1
      /\ m \in 0 .. CLOCK_MAX + 1
  BY <1>2
<1>5. Min({elapsed + 1, CLOCK_MAX + 1}) = m
  BY <1>3, <1>4, MinIsTheLeast
<1> QED BY <1>1, <1>4, <1>5 DEF Tick

LEMMA TypeOKStep == TypeOK /\ [Next]_vars => TypeOK'
<1> SUFFICES ASSUME TypeOK, [Next]_vars PROVE TypeOK'
  OBVIOUS
<1>1. CASE Starts
  <2>1. PICK c \in Classes, cmd \in ScanCommands, period \in 0 .. CLOCK_MAX :
          Run(c, cmd, period)
    BY <1>1 DEF Starts
  <2> QED BY <2>1, ScanSessionAssumption
          DEF Run, TypeOK, Classes, ScanCommands, sensorVars
<1>2. CASE StartScan
  BY <1>2, SCANCommandOutcome
     DEF StartScan, TypeOK, Outcomes, sessionVars, logVars, timeVars
<1>3. CASE \E key \in BOOLEAN : Loop(key)
  <2>1. /\ mStartTime' \in {0, mStartTime}
        /\ pc' \in {"stop", "asking"}
        /\ ended' \in {"no", "time", "key"}
        /\ UNCHANGED <<sessionVars, logVars, result, mScan, timeVars, sensorVars>>
    BY <1>3 DEF Loop
  <2>2. 0 \in 0 .. CLOCK_MAX
    BY ScanSessionAssumption
  <2> QED BY <2>1, <2>2 DEF TypeOK, sessionVars, logVars, timeVars, sensorVars
<1>4. CASE SensorAnswers
  BY <1>4 DEF SensorAnswers, TypeOK, sessionVars, logVars, timeVars, sensorVars
<1>5. CASE ScanFails
  BY <1>5, ScanSessionAssumption
     DEF ScanFails, TypeOK, sessionVars, logVars, timeVars, sensorVars
<1>6. CASE LogScan
  <2>1. UNCHANGED <<sessionVars, mStartTime, result, mScan, timeVars,
                    sensorVars, ended>> /\ pc' = "loop"
    BY <1>6 DEF LogScan
  <2> QED BY <1>6, <2>1, LogScanType
          DEF TypeOK, sessionVars, timeVars, sensorVars
<1>7. CASE StopScan
  BY <1>7, SCANCommandOutcome
     DEF StopScan, TypeOK, Outcomes, sessionVars, logVars, timeVars
<1>8. CASE Measure
  BY <1>8, ScanSessionAssumption
     DEF Measure, TypeOK, sessionVars, logVars, timeVars
<1>9. CASE Tick
  <2>1. UNCHANGED <<pc, sessionVars, mStartTime, logVars, result, mScan,
                    sensorVars, ended>>
    BY <1>9 DEF Tick
  <2> QED BY <1>9, <2>1, TickType DEF TypeOK, sessionVars, logVars, sensorVars
<1>10. CASE UNCHANGED vars
  BY <1>10 DEF vars, TypeOK
<1> QED BY <1>1, <1>2, <1>3, <1>4, <1>5, <1>6, <1>7, <1>8, <1>9, <1>10, NextSteps

LEMMA TypeOKHolds == Spec => []TypeOK
  BY InitTypeOK, TypeOKStep, PTL DEF Spec

-----------------------------------------------------------------------------
(* The time of a session.                                                  *)

LEMMA PeriodStep ==
  ASSUME ~ClockWraps, TypeOK, PeriodInv, [Next]_vars
  PROVE  PeriodInv'
<1>1. /\ CLOCK_MAX \in Nat \ {0}
      /\ clock \in 1 .. CLOCK_MAX /\ elapsed \in 0 .. CLOCK_MAX + 1
      /\ mStartTime \in 0 .. CLOCK_MAX /\ mScanPeriod \in 0 .. CLOCK_MAX
  BY ScanSessionAssumption DEF TypeOK, PeriodInv
<1>2. InLoop => (Expired <=> mScanPeriod # 0 /\ mScanPeriod < elapsed)
  <2> SUFFICES ASSUME InLoop, mScanPeriod # 0
               PROVE  Expired <=> mScanPeriod < elapsed
    BY DEF Expired
  <2>1. mStartTime + mScanPeriod < CLOCK_MAX /\ elapsed = clock - mStartTime
    BY DEF PeriodInv
  <2>2. (mStartTime + mScanPeriod) % (CLOCK_MAX + 1) = mStartTime + mScanPeriod
    BY <1>1, <2>1
  <2> QED BY <1>1, <2>1, <2>2 DEF Expired
<1>3. CASE Starts
  <2>1. PICK c \in Classes, cmd \in ScanCommands, period \in 0 .. CLOCK_MAX :
          Run(c, cmd, period)
    BY <1>3 DEF Starts
  <2>2. /\ mScanPeriod' = period /\ mStartTime' = clock /\ clock' = clock
        /\ elapsed' = 0 /\ ended' = "no"
        /\ period # 0 => clock + period < CLOCK_MAX
    BY <2>1 DEF Run
  <2> QED BY <1>1, <2>2 DEF PeriodInv, PeriodScanned
<1>4. CASE \E key \in BOOLEAN : Loop(key)
  <2>1. PICK key \in BOOLEAN : Loop(key)
    BY <1>4
  <2>2. /\ InLoop
        /\ UNCHANGED <<mScanPeriod, clock, elapsed>>
        /\ pc' = IF IsTerminated(key) THEN "stop" ELSE "asking"
        /\ mStartTime' = IF Expired THEN 0 ELSE mStartTime
        /\ ended' = IF Expired THEN "time" ELSE IF key THEN "key" ELSE "no"
    BY <2>1 DEF Loop, InLoop, PeriodInv, sessionVars, timeVars
  <2>3. CASE Expired
    BY <1>1, <1>2, <2>2, <2>3 DEF IsTerminated, PeriodInv, PeriodScanned, InLoop
  <2>4. CASE ~Expired /\ key
    BY <2>2, <2>4 DEF IsTerminated, PeriodInv, PeriodScanned, InLoop
  <2>5. CASE ~Expired /\ ~key
    BY <2>2, <2>5 DEF IsTerminated, PeriodInv, PeriodScanned, InLoop
  <2> QED BY <2>3, <2>4, <2>5
<1>5. CASE Tick
  <2>1. /\ elapsed' = IF elapsed = CLOCK_MAX + 1 THEN elapsed ELSE elapsed + 1
        /\ UNCHANGED <<pc, ended, mStartTime, mScanPeriod>>
    BY <1>5, TickType DEF Tick, sessionVars
  <2>2. clock' = clock + 1
    BY <1>1, <1>5 DEF Tick
  <2>3. InLoop => elapsed' = clock' - mStartTime
    BY <1>1, <2>1, <2>2 DEF PeriodInv
  <2>4. PeriodScanned'
    BY <1>1, <2>1 DEF PeriodInv, PeriodScanned
  <2> QED BY <1>1, <2>1, <2>2, <2>3, <2>4 DEF PeriodInv, InLoop
<1>6. CASE \/ StartScan \/ SensorAnswers \/ ScanFails \/ LogScan \/ StopScan
           \/ Measure \/ UNCHANGED vars
  <2>1. /\ UNCHANGED <<clock, elapsed, ended, mStartTime, mScanPeriod>>
        /\ InLoop' => InLoop
    BY <1>6 DEF StartScan, SensorAnswers, ScanFails, LogScan, StopScan, Measure,
       vars, sessionVars, timeVars, InLoop
  <2> QED BY <2>1 DEF PeriodInv, PeriodScanned
<1> QED BY <1>3, <1>4, <1>5, <1>6, NextSteps

-----------------------------------------------------------------------------
(* The count of the scans.                                                 *)

LEMMA CountStep ==
  ASSUME TypeOK, CountInv, [Next]_vars
  PROVE  CountInv'
<1>1. /\ mScanNumber \in Nat /\ latest \in Nat /\ mScan \in Nat
      /\ got \subseteq Nat /\ reported \subseteq Nat
  BY ScanSessionAssumption DEF TypeOK
<1>2. CASE Starts
  <2>1. PICK c \in Classes, cmd \in ScanCommands, period \in 0 .. CLOCK_MAX :
          Run(c, cmd, period)
    BY <1>2 DEF Starts
  <2>2. /\ mScanNumber' = 0 /\ got' = {} /\ reported' = {} /\ latest' = latest
        /\ pc' = "start"
    BY <2>1 DEF Run, sensorVars
  <2> QED BY <1>1, <2>2 DEF CountInv
<1>3. CASE SensorAnswers
  <2>1. /\ mScan' = latest /\ UNCHANGED <<class, latest, mScanNumber, got, reported>>
    BY <1>3 DEF SensorAnswers, sessionVars, logVars, sensorVars
  <2> QED BY <1>1, <2>1 DEF CountInv, PrintsLostScans
<1>4. CASE LogScan
  <2>1. pc = "answered" /\ pc' = "loop" /\ UNCHANGED <<class, latest>>
    BY <1>4 DEF LogScan, sessionVars, sensorVars
  <2>2. CASE mScan = 0
    <3>1. UNCHANGED <<mScanNumber, got, reported>>
      BY <1>4, <2>2 DEF LogScan, logVars
    <3> QED BY <2>1, <3>1 DEF CountInv, PrintsLostScans
  <2>3. CASE mScan # 0
    <3>1. /\ mScanNumber' = mScan /\ got' = got \cup {mScan}
          /\ reported' = IF PrintsLostScans /\ 0 < LostScans
                         THEN reported \cup (mScan - LostScans .. mScan - 1)
                         ELSE reported
      BY <1>4, <2>3 DEF LogScan
    <3>2. mScanNumber <= mScan /\ mScan <= latest
      BY <2>1, <2>3 DEF CountInv
    <3>3. mScan \notin reported
      BY <1>1, <2>3, <3>2 DEF CountInv
    <3> DEFINE lost == mScanNumber + 1 .. mScan - 1
    <3>4. LostScans = mScan - mScanNumber - 1
      BY DEF LostScans
    <3>5. mScan - LostScans .. mScan - 1 = lost
      BY <1>1, <3>4
    <3>6. reported' = IF PrintsLostScans THEN reported \cup lost ELSE reported
      <4>1. ~ (0 < LostScans) => lost = {}
        BY <1>1, <3>4
      <4> QED BY <3>1, <3>5, <4>1
    <3> HIDE DEF lost
    <3>7. /\ lost \cap {mScan} = {}
          /\ lost \cap (1 .. mScanNumber) = {}
          /\ lost \cup {mScan} \cup (1 .. mScanNumber) \subseteq 1 .. mScan
      BY <1>1, <2>3, <3>2 DEF lost
    <3>8. got \cap reported = {} /\ got \cup reported \subseteq 1 .. mScanNumber
      BY DEF CountInv
    <3>9. got' \cap reported' = {}
      BY <3>1, <3>3, <3>6, <3>7, <3>8
    <3>10. got' \cup reported' \subseteq 1 .. mScanNumber'
      BY <3>1, <3>6, <3>7, <3>8
    <3>11. ASSUME PrintsLostScans PROVE got' \cup reported' = 1 .. mScanNumber'
      <4>1. 1 .. mScan = 1 .. mScanNumber \cup lost \cup {mScan}
        BY <1>1, <2>3, <3>2 DEF lost
      <4> QED BY <3>1, <3>6, <3>11, <4>1 DEF CountInv
    <3> QED BY <1>1, <2>1, <2>3, <3>1, <3>2, <3>9, <3>10, <3>11
            DEF CountInv, PrintsLostScans
  <2> QED BY <2>2, <2>3
<1>5. CASE Measure
  <2>1. latest' = latest + 1 /\ UNCHANGED <<pc, class, mScan, mScanNumber, got, reported>>
    BY <1>5 DEF Measure, sessionVars, logVars
  <2> QED BY <1>1, <2>1 DEF CountInv, PrintsLostScans
<1>6. CASE \/ StartScan \/ (\E key \in BOOLEAN : Loop(key)) \/ ScanFails
           \/ StopScan \/ Tick \/ UNCHANGED vars
  <2>1. /\ UNCHANGED <<class, latest, mScanNumber, got, reported>>
        /\ pc' = "answered" => pc = "answered" /\ mScan' = mScan
    BY <1>6 DEF StartScan, Loop, ScanFails, StopScan, Tick, vars, sessionVars,
       logVars, sensorVars
  <2> QED BY <2>1 DEF CountInv, PrintsLostScans
<1> QED BY <1>2, <1>3, <1>4, <1>5, <1>6, NextSteps

-----------------------------------------------------------------------------
(* What follows.                                                           *)

(* The variables of a session and of the sensor keep their types; however  *)
(* often a scan is missed, only numbers of measured scans are counted.     *)
THEOREM ScanSessionTypeCorrect == Spec => []TypeOK
  BY TypeOKHolds

(* While the millisecond clock does not wrap, isTerminated() lets a        *)
(* session end by time only when more than the period the user asked for   *)
(* has passed, whatever commands failed meanwhile.                         *)
THEOREM PeriodIsScanned ==
  ASSUME ~ClockWraps
  PROVE  Spec => []PeriodScanned
<1>1. Init => PeriodInv
  BY ScanSessionAssumption DEF Init, PeriodInv, PeriodScanned, InLoop
<1>2. TypeOK /\ PeriodInv /\ [Next]_vars => PeriodInv'
  BY PeriodStep
<1>3. PeriodInv => PeriodScanned
  BY DEF PeriodInv
<1> QED BY <1>1, <1>2, <1>3, TypeOKHolds, PTL DEF Spec

(* LostScans counts each scan that logScan() has not seen, and counts it   *)
(* once: the numbers up to the last scan are split between those received  *)
(* and those reported, however often a scan is received again.             *)
THEOREM MissedScansAreCounted == Spec => []LostScansAreCounted
<1>1. Init => CountInv
  BY DEF Init, CountInv, PrintsLostScans
<1>2. TypeOK /\ CountInv /\ [Next]_vars => CountInv'
  BY CountStep
<1>3. ASSUME TypeOK, CountInv PROVE LostScansAreCounted
  <2> SUFFICES ASSUME PrintsLostScans, got # {}, NEW n \in Min(got) .. Max(got)
               PROVE  (n \in got) # (n \in reported)
    BY DEF LostScansAreCounted
  <2>1. mScanNumber \in Nat /\ got \in SUBSET Nat /\ mScanNumber \in got
    BY <1>3, ScanSessionAssumption DEF TypeOK, CountInv
  <2>2. \A m \in got : 1 <= m /\ m <= mScanNumber
    BY <1>3, <2>1 DEF CountInv
  <2>3. Max(got) = mScanNumber
    BY <2>1, <2>2, MaxIsGreatest
  <2>4. Min(got) \in got
    BY <2>1, MinIsLeast
  <2>5. n \in 1 .. mScanNumber
    <3>1. Min(got) \in Nat /\ 1 <= Min(got)
      BY <2>1, <2>2, <2>4
    <3> QED BY <2>1, <2>3, <3>1
  <2>6. n \in got \cup reported /\ ~ (n \in got /\ n \in reported)
    BY <1>3, <2>5 DEF CountInv
  <2> QED BY <2>6, Zenon
<1> QED BY <1>1, <1>2, <1>3, TypeOKHolds, PTL DEF Spec

(* A run() that returned ERR_SUCCESS has stopped the sensor, although its  *)
(* SCAN(1), and SCAN(0) of earlier sessions, may have failed half-way.     *)
THEOREM ScannerIsStopped == Spec => []ScannerStopped
<1>1. Init => ScannerStopped
  BY DEF Init, ScannerStopped
<1>2. ASSUME ScannerStopped, [Next]_vars PROVE ScannerStopped'
  <2>1. CASE Starts \/ StartScan \/ (\E key \in BOOLEAN : Loop(key))
             \/ SensorAnswers \/ ScanFails \/ LogScan
    <3>1. pc' # "menu"
      BY <2>1 DEF Starts, Run, StartScan, Loop, SensorAnswers, ScanFails, LogScan
    <3> QED BY <3>1 DEF ScannerStopped
  <2>2. CASE StopScan
    <3>1. result' = ERR_SUCCESS => scanning' = FALSE
      BY <2>2, OutcomesDiffer DEF StopScan, SCANCommand
    <3> QED BY <3>1, Zenon DEF ScannerStopped
  <2>3. CASE Measure \/ Tick \/ UNCHANGED vars
    <3>1. pc' = pc /\ result' = result /\ scanning' = scanning
      BY <2>3 DEF Measure, Tick, vars, sensorVars
    <3> QED BY <1>2, <3>1, Zenon DEF ScannerStopped
  <2> QED BY <1>2, <2>1, <2>2, <2>3, NextSteps
<1> QED BY <1>1, <1>2, PTL DEF Spec
=============================================================================
