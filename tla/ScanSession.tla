---------------------------- MODULE ScanSession -----------------------------
(***************************************************************************)
(* A scan session: run() of the classes ScanSequence, Scan2Sequence,       *)
(* ScanPrint and Scan2Print.  It starts the sensor's scan process, asks    *)
(* for the latest scan until the period has passed or a key is pressed,    *)
(* counts the scans it missed and stops the scan process.                  *)
(*                                                                         *)
(* The commands are the calls of module SensorCall: each fails, or returns *)
(* an answer to this very command; a failed SCAN may have had its effect.  *)
(***************************************************************************)
EXTENDS ErrorID, FiniteSetsExt

CONSTANTS
  CLOCK_MAX,       \* largest value of getMilliseconds(), 2^32 - 1 in the code
  ClockWraps,      \* the clock may pass CLOCK_MAX during the sessions
  Periods,         \* scan periods the user types in, in ticks; 0 infinite
  Averages,        \* averages the user types in
  MaxScans         \* bound: number of scans the sensor measures

ASSUME ScanSessionAssumption ==
  /\ CLOCK_MAX \in Nat \ {0}
  /\ ClockWraps \in BOOLEAN
  /\ Periods \subseteq 0 .. CLOCK_MAX
  /\ Averages \subseteq Int
  /\ MaxScans \in Nat

VARIABLES
  pc,              \* "menu", "start", "loop", "asking", "answered", "stop"
  class,           \* the class whose run() is, or was, running
  command,         \* the command the loop sends, with its averages
  mScanPeriod,
  mStartTime,      \* 0: "not started"
  mScanNumber,     \* number of the last scan received, 0: none yet
  result,          \* the local variable of run(), its return value
  mScan,           \* number of the scan received, 0: an empty scan
  clock,           \* what getMilliseconds() returns
  scanning,        \* whether the sensor's scan process runs
  latest,          \* number of the latest scan measured by the sensor
  elapsed,         \* history: ticks since the session was started
  ended,           \* history: "no", or why the loop ended: "time" or "key"
  got,             \* history: numbers of the scans this session received
  reported         \* history: numbers of the scans it reported as lost

sessionVars == <<class, command, mScanPeriod>>
timeVars == <<clock, elapsed>>
sensorVars == <<scanning, latest>>
logVars == <<mScanNumber, got, reported>>
vars == <<pc, class, command, mScanPeriod, mStartTime, mScanNumber, result,
          mScan, clock, scanning, latest, elapsed, ended, got,
          reported>>

Init ==
  /\ pc = "menu"
  /\ class = "ScanSequence"
  /\ command = [id |-> "GSCN", scans |-> 1, points |-> 1]
  /\ mScanPeriod = 0
  /\ mStartTime = 0
  /\ mScanNumber = 0
  /\ result = ERR_SUCCESS
  /\ mScan = 0
  /\ clock \in IF ClockWraps THEN 0 .. CLOCK_MAX ELSE {1}
  /\ scanning = FALSE
  /\ latest = 0
  /\ elapsed = 0
  /\ ended = "no"
  /\ got = {}
  /\ reported = {}

-----------------------------------------------------------------------------
(* The four classes: what run() asks the user, and the command it repeats. *)

(* The beginning of run().  While the clock is not to wrap, a period has   *)
(* to end before CLOCK_MAX.                                                *)
Run(c, cmd, period) ==
  /\ pc = "menu"
  /\ ClockWraps \/ period = 0 \/ clock + period < CLOCK_MAX
  /\ pc' = "start"
  /\ class' = c
  /\ command' = cmd
  /\ mScanPeriod' = period
  /\ mStartTime' = clock
  /\ mScanNumber' = 0
  /\ result' = ERR_SUCCESS
  /\ elapsed' = 0
  /\ ended' = "no"
  /\ got' = {}
  /\ reported' = {}
  /\ UNCHANGED <<mScan, clock, sensorVars>>

(* Mutant of Average: what the user types in is not checked.               *)
AverageUnchecked(n) == n

Average(n) == IF n <= 0 THEN 1 ELSE n

GSCN == [id |-> "GSCN", scans |-> 1, points |-> 1]
GSC2(n, k) == [id |-> "GSC2", scans |-> Average(n), points |-> k]

RunScanSequence(period) == Run("ScanSequence", GSCN, period)
RunScan2Sequence(period, n) == Run("Scan2Sequence", GSC2(n, 1), period)

(* The graphs average points themselves (ScanPrint) or let the relay do it *)
(* (Scan2Print); they do not ask for a period and end with a key.          *)
RunScanPrint == Run("ScanPrint", GSCN, 0)
RunScan2Print(n, k) == Run("Scan2Print", GSC2(n, Average(k)), 0)

-----------------------------------------------------------------------------
(* The rest of run().                                                      *)

(* A call of SCAN(on): it succeeds, is lost, or only its answer is lost.   *)
SCANCommand(on) ==
  \/ scanning' = on /\ result' = ERR_SUCCESS
  \/ scanning' \in {scanning, on} /\ result' \in {ERR_READ, ERR_WRITE}

(* The loop is entered whatever the result is.                             *)
StartScan ==
  /\ pc = "start"
  /\ SCANCommand(TRUE)
  /\ pc' = "loop"
  /\ UNCHANGED <<sessionVars, mStartTime, logVars, mScan, timeVars, latest,
                 ended>>

(* Mutant of Expired: the session ends with the last tick of the period.   *)
ExpiredEarly ==
  mScanPeriod # 0 /\ (mStartTime + mScanPeriod) % (CLOCK_MAX + 1) <= clock

Expired ==
  mScanPeriod # 0 /\ (mStartTime + mScanPeriod) % (CLOCK_MAX + 1) < clock

IsTerminated(key) == mStartTime = 0 \/ Expired \/ key

(* The head of the loop; key: ESC, q or Q was pressed.                     *)
Loop(key) ==
  /\ pc = "loop"
  /\ pc' = IF IsTerminated(key) THEN "stop" ELSE "asking"
  /\ mStartTime' = IF Expired THEN 0 ELSE mStartTime
  /\ ended' = IF mStartTime = 0 \/ Expired THEN "time"
              ELSE IF key THEN "key" ELSE "no"
  /\ UNCHANGED <<sessionVars, logVars, result, mScan, timeVars, sensorVars>>

(* The sensor answers GSCN, number 0, with its latest scan.                *)
SensorAnswers ==
  /\ pc = "asking"
  /\ mScan' = latest
  /\ result' = ERR_SUCCESS
  /\ pc' = "answered"
  /\ UNCHANGED <<sessionVars, mStartTime, logVars, timeVars, sensorVars,
                 ended>>

(* Mutant of ScanFails: the command is repeated without a look at the      *)
(* time.                                                                   *)
ScanFailsRetries ==
  /\ pc = "asking"
  /\ mScan' = 0
  /\ result' \in {ERR_READ, ERR_WRITE}
  /\ pc' = "asking"
  /\ UNCHANGED <<sessionVars, mStartTime, logVars, timeVars, sensorVars,
                 ended>>

(* performCommand() fails: the scan stays cleared, the error is logged.    *)
ScanFails ==
  /\ pc = "asking"
  /\ mScan' = 0
  /\ result' \in {ERR_READ, ERR_WRITE}
  /\ pc' = "loop"
  /\ UNCHANGED <<sessionVars, mStartTime, logVars, timeVars, sensorVars,
                 ended>>

(* Mutant of LostScans: the scan received last is counted, too.            *)
LostScansAndLast == mScan - mScanNumber

LostScans == mScan - mScanNumber - 1

(* The classes that print the number of lost scans; the graphs do not.     *)
PrintsLostScans == class \in {"ScanSequence", "Scan2Sequence"}

(* processScan() and logScan().                                            *)
LogScan ==
  /\ pc = "answered"
  /\ IF mScan = 0 THEN UNCHANGED logVars
     ELSE /\ mScanNumber' = mScan
          /\ got' = got \cup {mScan}
          /\ reported' = IF PrintsLostScans /\ 0 < LostScans
                         THEN reported \cup (mScan - LostScans .. mScan - 1)
                         ELSE reported
  /\ pc' = "loop"
  /\ UNCHANGED <<sessionVars, mStartTime, result, mScan, timeVars, sensorVars,
                 ended>>

(* Mutant of StopScan: run() returns the result of the last scan.          *)
StopScanUnchecked ==
  /\ pc = "stop"
  /\ scanning' \in {scanning, FALSE}
  /\ pc' = "menu"
  /\ UNCHANGED <<sessionVars, mStartTime, logVars, result, mScan, timeVars,
                 latest, ended>>

(* The end of run(): its result is that of SCAN(0) alone.                  *)
StopScan ==
  /\ pc = "stop"
  /\ SCANCommand(FALSE)
  /\ pc' = "menu"
  /\ UNCHANGED <<sessionVars, mStartTime, logVars, mScan, timeVars, latest,
                 ended>>

-----------------------------------------------------------------------------
(* The sensor and the clock.                                               *)

Measure ==
  /\ scanning
  /\ latest < MaxScans
  /\ latest' = latest + 1
  /\ UNCHANGED <<pc, sessionVars, mStartTime, logVars, result, mScan,
                 timeVars, scanning, ended>>

(* The time of a session is counted up to what the longest period needs.   *)
Tick ==
  /\ ClockWraps \/ clock < CLOCK_MAX
  /\ clock' = (clock + 1) % (CLOCK_MAX + 1)
  /\ elapsed' = Min({elapsed + 1, CLOCK_MAX + 1})
  /\ UNCHANGED <<pc, sessionVars, mStartTime, logVars, result, mScan,
                 sensorVars, ended>>

HostStep ==
  \/ StartScan
  \/ \E key \in BOOLEAN : Loop(key)
  \/ SensorAnswers
  \/ ScanFails
  \/ LogScan
  \/ StopScan

Next ==
  \/ \E period \in Periods : RunScanSequence(period)
  \/ \E period \in Periods, n \in Averages : RunScan2Sequence(period, n)
  \/ RunScanPrint
  \/ \E n, k \in Averages : RunScan2Print(n, k)
  \/ HostStep
  \/ Measure
  \/ Tick

Spec == Init /\ [][Next]_vars

(* Every command returns (ExchangeEnds) and time passes.                   *)
Fairness == WF_vars(HostStep) /\ WF_vars(Tick)

FairSpec == Spec /\ Fairness

-----------------------------------------------------------------------------
(* Properties.                                                             *)

TypeOK ==
  /\ pc \in {"menu", "start", "loop", "asking", "answered", "stop"}
  /\ class \in {"ScanSequence", "Scan2Sequence", "ScanPrint", "Scan2Print"}
  /\ command \in [id : {"GSCN", "GSC2"}, scans : Nat \ {0},
                  points : Nat \ {0}]
  /\ mScanPeriod \in 0 .. CLOCK_MAX
  /\ mStartTime \in 0 .. CLOCK_MAX
  /\ mScanNumber \in 0 .. MaxScans
  /\ result \in {ERR_SUCCESS, ERR_READ, ERR_WRITE}
  /\ mScan \in 0 .. MaxScans
  /\ clock \in 0 .. CLOCK_MAX
  /\ scanning \in BOOLEAN
  /\ latest \in 0 .. MaxScans
  /\ elapsed \in 0 .. CLOCK_MAX + 1
  /\ ended \in {"no", "time", "key"}
  /\ got \subseteq 1 .. MaxScans
  /\ reported \subseteq 1 .. MaxScans

(* A session nobody interrupts scans for the period the user asked for:    *)
(* isTerminated() does not report the end of the period before it passed.  *)
PeriodScanned == ended = "time" => mScanPeriod # 0 /\ elapsed > mScanPeriod

(* Every scan the sensor measured between the first and the last one a     *)
(* session received was either received or counted once as lost, whatever  *)
(* requests failed in between and however often a scan was received again. *)
LostScansAreCounted ==
  PrintsLostScans /\ pc # "start" /\ got # {} =>
    \A n \in Min(got) .. Max(got) : (n \in got) # (n \in reported)

(* When run() returned ERR_SUCCESS the sensor's scan process is stopped,   *)
(* whatever happened to the start command or to earlier sessions.          *)
ScannerStopped == pc = "menu" /\ result = ERR_SUCCESS => ~scanning

(* A session with a period comes to its end, also when every command of it *)
(* fails.                                                                  *)
SessionEnds == pc = "start" /\ mScanPeriod # 0 ~> pc = "menu"

-----------------------------------------------------------------------------
(* Parts of the inductive invariants the properties are proved from.       *)

(* run() is between its start message and its stop message.                *)
InLoop == pc \in {"start", "loop", "asking", "answered"}

(* The period still runs, and the clock says for how long; or it is over.  *)
PeriodInv ==
  /\ 0 < clock
  /\ InLoop =>
       /\ ended = "no"
       /\ mStartTime # 0
       /\ elapsed = clock - mStartTime
       /\ mScanPeriod # 0 => mStartTime + mScanPeriod < CLOCK_MAX
  /\ PeriodScanned

(* The scans up to the last one received are those received and, where     *)
(* the class counts them, those lost; the scan at hand is not older.       *)
CountInv ==
  /\ mScanNumber <= latest
  /\ pc = "answered" /\ mScan # 0 => mScanNumber <= mScan /\ mScan <= latest
  /\ mScanNumber = 0 => got = {}
  /\ mScanNumber # 0 => mScanNumber \in got
  /\ got \cap reported = {}
  /\ got \cup reported \subseteq 1 .. mScanNumber
  /\ PrintsLostScans => got \cup reported = 1 .. mScanNumber
=============================================================================
