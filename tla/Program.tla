------------------------------ MODULE Program -------------------------------
(***************************************************************************)
(* main(): in each of the four modes, the connections the mode needs are   *)
(* opened one after the other, used by the menu or the relay loop, and     *)
(* closed; when one cannot be opened the program returns ERR_IO.           *)
(***************************************************************************)
EXTENDS Streams

CONSTANT Modes       \* the modes the program is started in

AllModes == {"NET", "UART", "RELAY_N", "RELAY_U"}

ASSUME ProgramAssumption == Modes \subseteq AllModes

VARIABLES
  pc,             \* "start", "client", "uart", "sensor", "running",
                  \* "cleanup", "return" or "exit"
  mode,           \* argv[1]
  lClientSocket,
  lSensorSocket,
  lClientUART,
  log,            \* whether lTerminalLogFile is open
  status,         \* what main() returns
  opened          \* history: the streams open() succeeded for

streams == <<lClientSocket, lSensorSocket, lClientUART>>
vars == <<pc, mode, lClientSocket, lSensorSocket, lClientUART, log, status,
          opened>>

Init ==
  /\ pc = "start"
  /\ mode \in Modes
  /\ lClientSocket \in NewSockets
  /\ lSensorSocket \in NewSockets
  /\ lClientUART = NewUart
  /\ log = FALSE
  /\ status = 0
  /\ opened = {}

(* Mutant of Timeout: the relays wait like the menu.                       *)
TimeoutOfMenu == 10

(* The relays poll (timeout 0), the menu waits ten seconds.                *)
Timeout == IF mode \in {"RELAY_N", "RELAY_U"} THEN 0 ELSE 10

-----------------------------------------------------------------------------
(* The arguments are taken; a terminal log file may be opened.             *)
Start ==
  /\ pc = "start"
  /\ log' \in BOOLEAN
  /\ pc' = CASE mode = "NET" -> "sensor"
             [] mode = "RELAY_N" -> "client"
             [] OTHER -> "uart"
  /\ UNCHANGED <<mode, streams, status, opened>>

(* Mutant of Abort: the status is that of the stream; or it is forgotten.  *)
AbortWithStreamError ==
  /\ log' = FALSE
  /\ status' = ERR_INVALID_HANDLE
  /\ pc' = "return"
AbortQuietly ==
  /\ log' = FALSE
  /\ pc' = "return"
  /\ UNCHANGED status

(* A connection cannot be opened: close the log file and return.           *)
Abort ==
  /\ log' = FALSE
  /\ status' = ERR_IO
  /\ pc' = "return"

Proceed(stream, next) ==
  /\ opened' = opened \cup {stream}
  /\ pc' = next
  /\ UNCHANGED <<log, status>>

(* The sockets are not open yet: setTimeout() only stores the timeout.     *)
OpenClient ==
  /\ pc = "client"
  /\ \E t \in SocketSetTimeout(lClientSocket, Timeout) :
       \E o \in SocketOpen(t.stream) :
         /\ lClientSocket' = o.stream
         /\ IF o.result = ERR_SUCCESS THEN Proceed("client", "sensor")
            ELSE Abort /\ UNCHANGED opened
  /\ UNCHANGED <<mode, lSensorSocket, lClientUART>>

OpenUart ==
  /\ pc = "uart"
  /\ \E c \in UartConfig(lClientUART, Timeout) :
       IF c.result # ERR_SUCCESS
       THEN lClientUART' = c.stream /\ Abort /\ UNCHANGED opened
       ELSE \E o \in UartOpen(c.stream) :
              /\ lClientUART' = o.stream
              /\ IF o.result = ERR_SUCCESS
                 THEN Proceed("uart",
                              IF mode = "UART" THEN "running" ELSE "sensor")
                 ELSE Abort /\ UNCHANGED opened
  /\ UNCHANGED <<mode, lClientSocket, lSensorSocket>>

(* On failure RELAY_U closes the UART, RELAY_N the sensor socket itself.   *)
OpenSensor ==
  /\ pc = "sensor"
  /\ \E t \in SocketSetTimeout(lSensorSocket, Timeout) :
       \E o \in SocketOpen(t.stream) :
         IF o.result = ERR_SUCCESS
         THEN /\ lSensorSocket' = o.stream
              /\ Proceed("sensor", "running")
              /\ UNCHANGED lClientUART
         ELSE /\ lSensorSocket' = IF mode = "RELAY_N"
                                  THEN SocketClosed(o.stream) ELSE o.stream
              /\ lClientUART' = IF mode = "RELAY_U"
                                THEN UartClosed(lClientUART) ELSE lClientUART
              /\ Abort
              /\ UNCHANGED opened
  /\ UNCHANGED <<mode, lClientSocket>>

(* The user leaves the menu or the relay loop.                             *)
Leave ==
  /\ pc = "running"
  /\ pc' = "cleanup"
  /\ UNCHANGED <<mode, streams, log, status, opened>>

(* Mutant of CleanUp: the log file is not closed.                          *)
CleanUpKeepsLog ==
  /\ pc = "cleanup"
  /\ lSensorSocket' = SocketClosed(lSensorSocket)
  /\ lClientSocket' = SocketClosed(lClientSocket)
  /\ lClientUART' = UartClosed(lClientUART)
  /\ pc' = "return"
  /\ UNCHANGED <<mode, log, status, opened>>

CleanUp ==
  /\ pc = "cleanup"
  /\ lSensorSocket' = SocketClosed(lSensorSocket)
  /\ lClientSocket' = SocketClosed(lClientSocket)
  /\ lClientUART' = UartClosed(lClientUART)
  /\ log' = FALSE
  /\ pc' = "return"
  /\ UNCHANGED <<mode, status, opened>>

(* main() returns: the destructors close what is still open.               *)
Destroy ==
  /\ pc = "return"
  /\ lSensorSocket' = SocketClosed(lSensorSocket)
  /\ lClientSocket' = SocketClosed(lClientSocket)
  /\ lClientUART' = UartClosed(lClientUART)
  /\ pc' = "exit"
  /\ UNCHANGED <<mode, log, status, opened>>

Next ==
  \/ Start
  \/ OpenClient
  \/ OpenUart
  \/ OpenSensor
  \/ Leave
  \/ CleanUp
  \/ Destroy

Spec == Init /\ [][Next]_vars

-----------------------------------------------------------------------------
(* Properties.                                                             *)

TypeOK ==
  /\ pc \in {"start", "client", "uart", "sensor", "running", "cleanup",
             "return", "exit"}
  /\ mode \in AllModes
  /\ lClientSocket \in Sockets
  /\ lSensorSocket \in Sockets
  /\ lClientUART \in Uarts
  /\ log \in BOOLEAN
  /\ status \in {0, ERR_IO}
  /\ opened \subseteq {"client", "uart", "sensor"}

(* The streams a mode reads and writes.                                    *)
Needs(m) ==
  CASE m = "NET" -> {"sensor"}
    [] m = "UART" -> {"uart"}
    [] m = "RELAY_N" -> {"client", "sensor"}
    [] m = "RELAY_U" -> {"uart", "sensor"}

(* When the menu or the relay loop runs, every connection of the mode has  *)
(* a working handle behind it: open() "returns ERR_SUCCESS if the data     *)
(* stream could be opened successfully" and main() stops at any failure.   *)
StreamsUsable ==
  pc = "running" =>
    /\ "client" \in Needs(mode) =>
         lClientSocket.mIsOpen /\ lClientSocket.handle = "connected"
    /\ "sensor" \in Needs(mode) =>
         lSensorSocket.mIsOpen /\ lSensorSocket.handle = "connected"
    /\ "uart" \in Needs(mode) =>
         lClientUART.mIsOpen /\ lClientUART.handle = "open"

(* Whatever failed in whatever order, a connection that was opened is      *)
(* closed when the program ends, and so is the terminal log file.          *)
EverythingClosed ==
  pc = "exit" =>
    /\ "client" \in opened => lClientSocket.handle = "closed"
    /\ "sensor" \in opened => lSensorSocket.handle = "closed"
    /\ "uart" \in opened => lClientUART.handle = "closed"
    /\ ~log

(* main() returns 0 exactly when every connection of the mode was opened.  *)
FailureReported == pc = "exit" => (status = 0 <=> opened = Needs(mode))

(* In the relay loop no read() waits for data: either side may speak first *)
(* and the loop has to look at both.                                       *)
RelayPolls ==
  pc = "running" /\ mode \in {"RELAY_N", "RELAY_U"} =>
    /\ lSensorSocket.waits = "never"
    /\ mode = "RELAY_N" => lClientSocket.waits = "never"
    /\ mode = "RELAY_U" => lClientUART.waits = "never"
-----------------------------------------------------------------------------
(* Parts of the inductive invariant the properties are proved from.        *)

Connected(s) ==
  s.mIsOpen /\ s.handle = "connected" /\ s.waits = SocketWaits(Timeout)

(* On Linux the handle of an open port may be the -1 of a failed open().   *)
PortOpen(u) ==
  /\ u.mIsOpen
  /\ u.handle = "open" \/ (Platform = "Linux" /\ u.handle = "invalid")
  /\ u.waits = IF Timeout = 0 THEN "never" ELSE "timeout"

(* A stream that was opened works until main() or its destructor closes    *)
(* it; one that was not opened is not taken for open.                      *)
Kept(stream, s, works) ==
  IF stream \in opened
  THEN \/ works /\ pc # "exit"
       \/ ~s.mIsOpen /\ s.handle = "closed" /\ pc \in {"return", "exit"}
  ELSE ~s.mIsOpen

StreamsInv ==
  /\ Kept("client", lClientSocket, Connected(lClientSocket))
  /\ Kept("sensor", lSensorSocket, Connected(lSensorSocket))
  /\ Kept("uart", lClientUART, PortOpen(lClientUART))
  /\ pc \in {"start", "uart"} => lClientUART.handle = "none"

(* What is opened when, and what becomes of the status and the log file.   *)
OrderInv ==
  /\ pc \in {"start", "client", "uart"} => opened = {}
  /\ pc = "client" => mode = "RELAY_N"
  /\ pc = "uart" => mode \in {"UART", "RELAY_U"}
  /\ pc = "sensor" => mode # "UART" /\ opened = Needs(mode) \ {"sensor"}
  /\ pc \in {"running", "cleanup"} => opened = Needs(mode)
  /\ pc \in {"return", "exit"} => (status = 0 <=> opened = Needs(mode)) /\ ~log
  /\ pc \notin {"return", "exit"} => status = 0
=============================================================================
