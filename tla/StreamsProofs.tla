--------------------------- MODULE StreamsProofs ----------------------------
(***************************************************************************)
(* Theorems about the two modules that use the streams.  About StreamCalls:*)
(* what each operation does to the handle and to mIsOpen, in every order.  *)
(* About Program, type correctness, that main() uses only connections that *)
(* work, closes each one it opened, returns 0 exactly when all were        *)
(* opened, and that its relay loop never waits for one side.               *)
(***************************************************************************)
EXTENDS Program, StreamCalls, TLAPS

-----------------------------------------------------------------------------
(* The operations, called in any order.                                    *)

(* What isOpen() promises of a socket; and of a port, on Windows, when it   *)
(* is not opened a second time.                                            *)
SocketReady(s) ==
  /\ s \in Sockets
  /\ s.mIsOpen => s.handle = "connected" /\ s.waits = SocketWaits(s.mTimeout)
OpenedOnce == Platform = "Windows" /\ ~Reopens
PortReady(u) == u \in Uarts /\ (OpenedOnce => (u.mIsOpen => u.handle = "open"))

LEMMA SocketOpenReady ==
  ASSUME NEW s, SocketReady(s), NEW o \in SocketOpen(s)
  PROVE  SocketReady(o.stream)
<1>1. CASE s.handle = "new"
  <2>1. ~s.mIsOpen
    BY <1>1 DEF SocketReady
  <2>2. \/ o.stream = s
        \/ o.stream = [s EXCEPT !.handle = "bound"]
        \/ o.stream = [s EXCEPT !.handle = "connected"]
        \/ o.stream = [s EXCEPT !.handle = "connected", !.mIsOpen = TRUE,
                                !.waits = SocketWaits(s.mTimeout)]
    BY DEF SocketOpen, Outcome
  <2>3. SocketWaits(s.mTimeout) \in Waits
    BY DEF SocketWaits, Waits
  <2> QED BY <2>1, <2>2, <2>3 DEF SocketReady, Sockets
<1>2. CASE s.handle # "new"
  BY <1>2 DEF SocketOpen, Outcome
<1> QED BY <1>1, <1>2

(* setTimeout() of an open socket closes it first: whether it can be       *)
(* opened again or not, isOpen() tells the truth.                          *)
LEMMA SocketSetTimeoutReady ==
  ASSUME NEW s, SocketReady(s), NEW timeout \in Nat,
         NEW o \in SocketSetTimeout(s, timeout)
  PROVE  SocketReady(o.stream)
<1> DEFINE t == [s EXCEPT !.mTimeout = timeout]
<1>1. t \in Sockets /\ t.mIsOpen = s.mIsOpen
  BY DEF SocketReady, Sockets
<1>2. CASE s.mIsOpen
  <2>1. o \in SocketOpen(SocketClosed(t))
    BY <1>1, <1>2 DEF SocketSetTimeout
  <2>2. SocketReady(SocketClosed(t))
    BY <1>1, <1>2 DEF SocketReady, SocketClosed, Sockets
  <2> QED BY <2>1, <2>2, SocketOpenReady
<1>3. CASE ~s.mIsOpen
  <2>1. o.stream = t
    BY <1>1, <1>3 DEF SocketSetTimeout, Outcome
  <2> QED BY <1>1, <1>3, <2>1 DEF SocketReady
<1> QED BY <1>2, <1>3

LEMMA UartConfigReady ==
  ASSUME NEW u, PortReady(u), NEW timeout \in Nat, NEW o \in UartConfig(u, timeout)
  PROVE  PortReady(o.stream)
<1>1. o.stream = u \/ o.stream = [u EXCEPT !.mTimeout = timeout]
  BY DEF UartConfig, Outcome
<1> QED BY <1>1 DEF PortReady, Uarts

(* The failures of open() leave mIsOpen as it is, which is false when the   *)
(* port is opened once.                                                    *)
LEMMA UartOpenReady ==
  ASSUME NEW u, PortReady(u), u.mIsOpen => Reopens, NEW o \in UartOpen(u)
  PROVE  PortReady(o.stream)
<1>1. CASE Platform = "Linux"
  <2>1. \/ o.stream = u
        \/ \E h \in {"open", "invalid"} : o.stream = UartOpened(u, h)
    BY <1>1 DEF UartOpen, LinuxUartOpen, Outcome
  <2> QED BY <1>1, <2>1 DEF PortReady, OpenedOnce, Uarts, UartOpened, Waits
<1>2. CASE Platform = "Windows"
  <2>1. \/ \E h \in {"open", "invalid", "lost"} : o.stream = [u EXCEPT !.handle = h]
        \/ o.stream = UartOpened(u, "open")
    BY <1>2 DEF UartOpen, WinUartOpen, Outcome
  <2>2. CASE \E h \in {"open", "invalid", "lost"} : o.stream = [u EXCEPT !.handle = h]
    <3>1. OpenedOnce => ~u.mIsOpen
      BY DEF OpenedOnce
    <3> QED BY <2>2, <3>1 DEF PortReady, Uarts
  <2>3. CASE o.stream = UartOpened(u, "open")
    BY <2>3 DEF PortReady, Uarts, UartOpened, Waits
  <2> QED BY <2>1, <2>2, <2>3
<1> QED BY <1>1, <1>2, StreamsAssumption

LEMMA UartClosedReady ==
  ASSUME NEW u, PortReady(u)
  PROVE  PortReady(UartClosed(u))
  BY DEF PortReady, UartClosed, Uarts

LEMMA FileOperations ==
  ASSUME NEW f \in Files
  PROVE  /\ \A o \in FileOpen(f) \cup FileRead(f) : o.stream \in Files
         /\ FileClosed(f) \in Files
<1>1. ASSUME NEW o \in FileOpen(f) PROVE o.stream \in Files
  <2> DEFINE absent == [mFileHandle |-> "0", fileOpen |-> FALSE]
             present == [mFileHandle |-> "FILE", fileOpen |-> TRUE]
  <2>1. absent \in Files /\ present \in Files
    BY DEF Files
  <2>2. FileOpen(f) = {Outcome(absent, ERR_INVALID_PARAMETER),
                       Outcome(present, ERR_SUCCESS)}
    BY DEF FileOpen
  <2> HIDE DEF absent, present
  <2>3. o.stream = absent \/ o.stream = present
    BY <2>2 DEF Outcome
  <2> QED BY <2>1, <2>3
<1>2. ASSUME NEW o \in FileRead(f) PROVE o.stream \in Files
  BY DEF FileRead, Outcome
<1>3. FileClosed(f) \in Files
  BY DEF Files, FileClosed
<1> QED BY <1>1, <1>2, <1>3

-----------------------------------------------------------------------------
(* The invariant of StreamCalls.                                           *)

ReadyInv ==
  StreamsTypeOK /\ OpenSocketReady /\ (OpenedOnce => OpenPortReady)

LEMMA ReadyInvIs ==
  ReadyInv <=> /\ SocketReady(socket) /\ PortReady(uart)
               /\ file \in Files
               /\ port \in {"unnamed", "named", "stuck"}
  BY DEF ReadyInv, StreamsTypeOK, OpenSocketReady, OpenPortReady, SocketReady,
         PortReady

LEMMA InitReadyInv == NewStreams => ReadyInv
<1> SUFFICES ASSUME NewStreams PROVE ReadyInv
  OBVIOUS
<1>1. PICK h \in {"none", "new"} :
        socket = [handle |-> h, mIsOpen |-> FALSE, mTimeout |-> 0,
                  waits |-> "forever"]
  BY DEF NewStreams, NewSockets
<1>2. SocketReady(socket)
  BY <1>1 DEF SocketReady, Sockets, Waits
<1>3. PortReady(uart)
  BY DEF NewStreams, NewUart, PortReady, Uarts, Waits
<1>4. file \in Files /\ port = "unnamed"
  BY DEF NewStreams, NewFile, Files
<1> QED BY <1>2, <1>3, <1>4, ReadyInvIs

LEMMA ReadyInvStep == ReadyInv /\ [AnyCall]_callVars => ReadyInv'
<1> DEFINE Ports == {"unnamed", "named", "stuck"}
<1> SUFFICES ASSUME ReadyInv, [AnyCall]_callVars
             PROVE  /\ SocketReady(socket') /\ PortReady(uart')
                    /\ file' \in Files
                    /\ port' \in Ports
  BY DEF ReadyInv, StreamsTypeOK, OpenSocketReady, OpenPortReady, SocketReady,
         PortReady
<1>1. /\ SocketReady(socket) /\ PortReady(uart) /\ file \in Files
      /\ port \in Ports
  BY ReadyInvIs
<1>2. CASE OpenSocket
  BY <1>1, <1>2, SocketOpenReady DEF OpenSocket
<1>3. CASE \E t \in Timeouts : SetTimeout(t)
  BY <1>1, <1>3, SocketSetTimeoutReady, StreamCallsAssumption
     DEF SetTimeout
<1>4. CASE CloseSocket
  <2>1. SocketReady(SocketClosed(socket))
    BY <1>1 DEF SocketReady, SocketClosed, Sockets
  <2> QED BY <1>1, <1>4, <2>1 DEF CloseSocket
<1>5. CASE \E t \in Timeouts : ConfigPort(t)
  BY <1>1, <1>5, UartConfigReady, StreamCallsAssumption
     DEF ConfigPort
<1>6. CASE OpenPort
  BY <1>1, <1>6, UartOpenReady DEF OpenPort
<1>7. CASE ClosePort
  BY <1>1, <1>7, UartClosedReady DEF ClosePort
<1>8. CASE OpenFile \/ ReadFile
  BY <1>1, <1>8, FileOperations DEF OpenFile, ReadFile
<1>9. CASE CloseFile
  BY <1>1, <1>9, FileOperations DEF CloseFile
<1>10. CASE UNCHANGED callVars
  BY <1>1, <1>10 DEF callVars
<1> QED BY <1>2, <1>3, <1>4, <1>5, <1>6, <1>7, <1>8, <1>9, <1>10 DEF AnyCall

LEMMA ReadyInvHolds == AnyOrder => []ReadyInv
  BY InitReadyInv, ReadyInvStep, PTL DEF AnyOrder

(* What close() finds: a port that is held is one that isOpen() knows of.  *)
HeldOpen(u) == u.handle # "lost" /\ (u.handle = "open" => u.mIsOpen)

LEMMA UartOpenHeld ==
  ASSUME NEW u \in Uarts, HeldOpen(u), ~u.mIsOpen,
         NEW o \in UartOpen(u), ~SettingFailed(o)
  PROVE  HeldOpen(o.stream)
<1>1. u.handle \notin {"open", "lost"}
  BY DEF HeldOpen
<1>2. \/ o.stream = u
      \/ \E h \in {"open", "invalid"} : o.stream = [u EXCEPT !.handle = h]
      \/ \E h \in {"open", "invalid"} : o.stream = UartOpened(u, h)
  BY <1>1 DEF UartOpen, LinuxUartOpen, WinUartOpen, Outcome
<1>3. CASE o.stream = u
  BY <1>3
<1>4. CASE \E h \in {"open", "invalid"} : o.stream = [u EXCEPT !.handle = h]
  BY <1>4 DEF SettingFailed, HeldOpen, Uarts
<1>5. CASE \E h \in {"open", "invalid"} : o.stream = UartOpened(u, h)
  BY <1>5 DEF UartOpened, HeldOpen, Uarts
<1> QED BY <1>2, <1>3, <1>4, <1>5

LEMMA UartClosedHeld ==
  ASSUME NEW u \in Uarts, HeldOpen(u)
  PROVE  HeldOpen(UartClosed(u))
  BY DEF UartClosed, HeldOpen, Uarts

HeldInv == uart \in Uarts /\ (port # "stuck" => HeldOpen(uart))

LEMMA HeldInvStep ==
  ASSUME ~Reopens, HeldInv, ReadyInv', [AnyCall]_callVars
  PROVE  HeldInv'
<1>1. uart' \in Uarts
  BY DEF ReadyInv, StreamsTypeOK
<1>2. CASE UNCHANGED <<uart, port>>
  BY <1>2 DEF HeldInv
<1>3. ASSUME NEW t \in Timeouts, ConfigPort(t) PROVE HeldInv'
  <2>1. PICK o \in UartConfig(uart, t) :
          /\ uart' = o.stream
          /\ (port' = "named" /\ port = "unnamed") \/ port' = port
    BY <1>3 DEF ConfigPort
  <2>2. uart' = uart \/ uart' = [uart EXCEPT !.mTimeout = t]
    BY <2>1 DEF UartConfig, Outcome
  <2>3. uart'.handle = uart.handle /\ uart'.mIsOpen = uart.mIsOpen
    BY <2>2 DEF HeldInv, Uarts
  <2>4. HeldOpen(uart) => HeldOpen(uart')
    BY <2>3 DEF HeldOpen
  <2> QED BY <1>1, <2>1, <2>4 DEF HeldInv
<1>4. CASE OpenPort
  <2>1. PICK o \in UartOpen(uart) :
          /\ uart' = o.stream
          /\ port' = IF SettingFailed(o) THEN "stuck" ELSE port
    BY <1>4 DEF OpenPort
  <2>2. ~uart.mIsOpen
    BY <1>4 DEF OpenPort
  <2>3. ASSUME port' # "stuck" PROVE HeldOpen(uart')
    <3>1. port # "stuck" /\ ~SettingFailed(o)
      BY <2>1, <2>3
    <3> QED BY <2>1, <2>2, <3>1, UartOpenHeld DEF HeldInv
  <2> QED BY <1>1, <2>3 DEF HeldInv
<1>5. CASE ClosePort
  BY <1>1, <1>5, UartClosedHeld DEF ClosePort, HeldInv
<1> QED BY <1>2, <1>3, <1>4, <1>5 DEF AnyCall, callVars, OpenSocket, SetTimeout,
        CloseSocket, OpenFile, ReadFile, CloseFile

LEMMA HeldPorts == ASSUME ~Reopens PROVE AnyOrder => []HeldInv
<1>1. NewStreams => HeldInv
  BY DEF NewStreams, NewUart, HeldInv, HeldOpen, Uarts, Waits
<1>2. HeldInv /\ ReadyInv' /\ [AnyCall]_callVars => HeldInv'
  BY HeldInvStep
<1> QED BY <1>1, <1>2, ReadyInvHolds, PTL DEF AnyOrder

-----------------------------------------------------------------------------
(* What follows for StreamCalls.                                           *)

(* The stream objects keep their types.                                    *)
THEOREM StreamCallsTypeCorrect == AnyOrder => []StreamsTypeOK
<1>1. ReadyInv => StreamsTypeOK
  BY DEF ReadyInv
<1> QED BY <1>1, ReadyInvHolds, PTL

(* On both platforms, with every timeout and in every order of the calls,  *)
(* a socket of which isOpen() is true is connected, and read() waits as    *)
(* the timeout set last says.                                              *)
THEOREM OpenSocketsAreReady == AnyOrder => []OpenSocketReady
<1>1. ReadyInv => OpenSocketReady
  BY DEF ReadyInv
<1> QED BY <1>1, ReadyInvHolds, PTL

(* isOpen() tells the truth of a UART, too, in every order of the calls    *)
(* that does not open an open port again: it is true on Windows only with  *)
(* the handle of the port, and as long as no setting has failed it is true *)
(* of every port that is held, so that close() releases it.                *)
THEOREM IsOpenIsAccurate ==
  ASSUME Platform = "Windows", ~Reopens
  PROVE  AnyOrder => []IsOpenAccurate
<1>1. ReadyInv => OpenSocketReady /\ OpenPortReady
  BY DEF ReadyInv, OpenedOnce
<1>2. HeldInv => HeldPortKnown
  BY DEF HeldInv, HeldOpen, HeldPortKnown
<1>3. ReadyInv /\ HeldInv => IsOpenAccurate
  BY <1>1, <1>2 DEF IsOpenAccurate
<1> QED BY <1>3, ReadyInvHolds, HeldPorts, PTL

-----------------------------------------------------------------------------
(* What main() does to a stream that is not open.                          *)

LEMMA ErrorsDiffer ==
  /\ ERR_INVALID_HANDLE # ERR_SUCCESS
  /\ ERR_CONFIGURATION_ERROR # ERR_SUCCESS
  /\ ERR_IO # ERR_SUCCESS
  /\ ERR_IO # 0
  BY DEF ERR_INVALID_HANDLE, ERR_CONFIGURATION_ERROR, ERR_IO, ERR_SUCCESS,
     ERR_LASTERROR, ELASTERROR

LEMMA TimeoutType == Timeout \in Nat /\ SocketWaits(Timeout) \in Waits
  BY DEF Timeout, SocketWaits, Waits

(* setTimeout() and open() of main(): the socket is connected and waits as *)
(* it was told to, or the object is not open.                              *)
LEMMA SocketOpens ==
  ASSUME NEW s \in Sockets, ~s.mIsOpen,
         NEW t \in SocketSetTimeout(s, Timeout), NEW o \in SocketOpen(t.stream)
  PROVE  /\ o.stream \in Sockets
         /\ o.result = ERR_SUCCESS => Connected(o.stream)
         /\ o.result # ERR_SUCCESS => ~o.stream.mIsOpen
<1> DEFINE u == [s EXCEPT !.mTimeout = Timeout]
<1>1. u \in Sockets /\ ~u.mIsOpen /\ u.mTimeout = Timeout
  BY TimeoutType DEF Sockets
<1>2. t.stream = u
  BY <1>1 DEF SocketSetTimeout, Outcome
<1> HIDE DEF u
<1> DEFINE failed == Outcome(u, ERR_INVALID_HANDLE)
           bound == Outcome([u EXCEPT !.handle = "bound"], ERR_INVALID_HANDLE)
           connected == Outcome([u EXCEPT !.handle = "connected", !.mIsOpen = TRUE,
                                          !.waits = SocketWaits(u.mTimeout)],
                                ERR_SUCCESS)
           unlimited == Outcome([u EXCEPT !.handle = "connected"],
                                ERR_INVALID_HANDLE)
<1>3. o \in {failed, bound, connected, unlimited}
  BY <1>2 DEF SocketOpen
<1>4. CASE o \in {failed, bound, unlimited}
  <2>1. o.result = ERR_INVALID_HANDLE
    BY <1>4 DEF Outcome
  <2>2. o.stream \in Sockets /\ ~o.stream.mIsOpen
    BY <1>1, <1>4 DEF Outcome, Sockets
  <2> QED BY <2>1, <2>2, ErrorsDiffer
<1>5. CASE o = connected
  <2>1. o.result = ERR_SUCCESS /\ Connected(o.stream)
    BY <1>1, <1>5 DEF Outcome, Connected, Sockets
  <2>2. o.stream \in Sockets
    BY <1>1, <1>5, TimeoutType DEF Outcome, Sockets
  <2> QED BY <2>1, <2>2
<1> QED BY <1>3, <1>4, <1>5

(* open() of a port that was never opened.                                 *)
LEMMA PortOpens ==
  ASSUME NEW u \in Uarts, ~u.mIsOpen, u.handle = "none", u.mTimeout = Timeout,
         NEW o \in UartOpen(u)
  PROVE  /\ o.stream \in Uarts
         /\ o.result = ERR_SUCCESS => PortOpen(o.stream)
         /\ o.result # ERR_SUCCESS => ~o.stream.mIsOpen
<1>1. Platform = "Linux" \/ Platform = "Windows"
  BY StreamsAssumption
<1>2. CASE o.result = ERR_SUCCESS
  <2>1. \/ o.stream = UartOpened(u, "open")
        \/ Platform = "Linux" /\ o.stream = UartOpened(u, "invalid")
    BY <1>2, ErrorsDiffer DEF UartOpen, LinuxUartOpen, WinUartOpen, Outcome
  <2>2. o.stream \in Uarts
    BY <2>1 DEF UartOpened, Uarts, Waits
  <2>3. PortOpen(o.stream)
    BY <2>1 DEF UartOpened, PortOpen, Uarts
  <2> QED BY <1>2, <2>2, <2>3
<1>3. CASE o.result # ERR_SUCCESS
  <2>1. \/ o.stream = u
        \/ o.stream = [u EXCEPT !.handle = "invalid"]
        \/ o.stream = [u EXCEPT !.handle = "open"]
    BY <1>1, <1>3 DEF UartOpen, LinuxUartOpen, WinUartOpen, Outcome
  <2> QED BY <1>3, <2>1 DEF Uarts
<1> QED BY <1>2, <1>3

LEMMA SocketCloses ==
  ASSUME NEW s \in Sockets
  PROVE  /\ SocketClosed(s) \in Sockets
         /\ ~SocketClosed(s).mIsOpen
         /\ s.mIsOpen => SocketClosed(s).handle = "closed"
         /\ ~s.mIsOpen => SocketClosed(s) = s
  BY DEF SocketClosed, Sockets

LEMMA PortCloses ==
  ASSUME NEW u \in Uarts
  PROVE  /\ UartClosed(u) \in Uarts
         /\ ~UartClosed(u).mIsOpen
         /\ u.mIsOpen /\ u.handle # "lost" => UartClosed(u).handle = "closed"
         /\ ~u.mIsOpen => UartClosed(u) = u
  BY DEF UartClosed, Uarts

-----------------------------------------------------------------------------
(* The invariant of Program, action by action.                             *)

IInv == TypeOK /\ StreamsInv /\ OrderInv

LEMMA InitIInv == Init => IInv
<1> SUFFICES ASSUME Init PROVE IInv
  OBVIOUS
<1>1. /\ lClientSocket \in Sockets /\ ~lClientSocket.mIsOpen
      /\ lSensorSocket \in Sockets /\ ~lSensorSocket.mIsOpen
  <2>1. ASSUME NEW s \in NewSockets PROVE s \in Sockets /\ ~s.mIsOpen
    <3>1. PICK h \in {"none", "new"} :
            s = [handle |-> h, mIsOpen |-> FALSE, mTimeout |-> 0,
                 waits |-> "forever"]
      BY <2>1 DEF NewSockets
    <3> QED BY <3>1 DEF Sockets, Waits
  <2> QED BY <2>1 DEF Init
<1>2. lClientUART \in Uarts /\ ~lClientUART.mIsOpen /\ lClientUART.handle = "none"
  BY DEF Init, NewUart, Uarts, Waits
<1>3. pc = "start" /\ mode \in AllModes /\ log = FALSE /\ status = 0 /\ opened = {}
  BY ProgramAssumption DEF Init
<1>4. TypeOK
  BY <1>1, <1>2, <1>3 DEF TypeOK
<1>5. StreamsInv
  BY <1>1, <1>2, <1>3 DEF StreamsInv, Kept
<1>6. OrderInv
  BY <1>3 DEF OrderInv
<1> QED BY <1>4, <1>5, <1>6 DEF IInv

(* The open streams are told apart by the mode and by where main() is.     *)
LEMMA Modal ==
  ASSUME TypeOK
  PROVE  /\ mode = "NET" => Needs(mode) = {"sensor"}
         /\ mode = "UART" => Needs(mode) = {"uart"}
         /\ mode = "RELAY_N" => Needs(mode) = {"client", "sensor"}
         /\ mode = "RELAY_U" => Needs(mode) = {"uart", "sensor"}
         /\ mode \in {"NET", "UART", "RELAY_N", "RELAY_U"}
  BY DEF TypeOK, AllModes, Needs

LEMMA StartIInv == IInv /\ Start => IInv'
<1> SUFFICES ASSUME IInv, Start PROVE IInv'
  OBVIOUS
<1>1. /\ pc = "start" /\ opened = {} /\ status = 0
      /\ UNCHANGED <<mode, lClientSocket, lSensorSocket, lClientUART, status, opened>>
      /\ log' \in BOOLEAN
      /\ pc' = CASE mode = "NET" -> "sensor" [] mode = "RELAY_N" -> "client"
                 [] OTHER -> "uart"
  BY DEF Start, streams, IInv, OrderInv
<1>2. TypeOK'
  <2>1. pc' \in {"sensor", "client", "uart"}
    BY <1>1
  <2> QED BY <1>1, <2>1, Zenon DEF IInv, TypeOK
<1>3. StreamsInv'
  <2>1. pc' \in {"sensor", "client", "uart"}
    BY <1>1
  <2> QED BY <1>1, <2>1 DEF IInv, StreamsInv, Kept
<1>4. OrderInv'
  BY <1>1, Modal DEF IInv, OrderInv
<1> QED BY <1>2, <1>3, <1>4 DEF IInv

LEMMA OpenClientIInv == IInv /\ OpenClient => IInv'
<1> SUFFICES ASSUME IInv, OpenClient PROVE IInv'
  OBVIOUS
<1>1. /\ pc = "client" /\ mode = "RELAY_N" /\ opened = {} /\ status = 0
      /\ UNCHANGED <<mode, lSensorSocket, lClientUART>>
      /\ lClientSocket \in Sockets /\ ~lClientSocket.mIsOpen
  BY DEF OpenClient, IInv, OrderInv, TypeOK, StreamsInv, Kept
<1> DEFINE Ends(o) ==
        /\ lClientSocket' = o.stream
        /\ IF o.result = ERR_SUCCESS THEN Proceed("client", "sensor")
           ELSE Abort /\ UNCHANGED opened
<1>2. PICK t \in SocketSetTimeout(lClientSocket, Timeout) :
         \E o \in SocketOpen(t.stream) : Ends(o)
  BY DEF OpenClient
<1>3. PICK o \in SocketOpen(t.stream) : Ends(o)
  BY <1>2
<1>4. /\ lClientSocket' \in Sockets
      /\ o.result = ERR_SUCCESS => Connected(lClientSocket')
      /\ o.result # ERR_SUCCESS => ~lClientSocket'.mIsOpen
  BY <1>1, <1>3, SocketOpens
<1>5. CASE o.result = ERR_SUCCESS
  <2>1. pc' = "sensor" /\ opened' = {"client"} /\ log' = log /\ status' = 0
    BY <1>1, <1>3, <1>5 DEF Proceed
  <2>2. TypeOK'
    BY <1>1, <1>4, <2>1 DEF IInv, TypeOK
  <2>3. StreamsInv'
    BY <1>1, <1>4, <1>5, <2>1 DEF IInv, StreamsInv, Kept, Connected, Timeout
  <2>4. OrderInv'
    BY <1>1, <2>1, Modal DEF IInv, OrderInv, Needs
  <2> QED BY <2>2, <2>3, <2>4 DEF IInv
<1>6. CASE o.result # ERR_SUCCESS
  <2>1. pc' = "return" /\ opened' = {} /\ log' = FALSE /\ status' = ERR_IO
    BY <1>1, <1>3, <1>6 DEF Abort
  <2>2. TypeOK'
    BY <1>1, <1>4, <2>1 DEF IInv, TypeOK
  <2>3. StreamsInv'
    BY <1>1, <1>4, <1>6, <2>1 DEF IInv, StreamsInv, Kept
  <2>4. OrderInv'
    BY <1>1, <2>1, ErrorsDiffer DEF IInv, OrderInv, Needs
  <2> QED BY <2>2, <2>3, <2>4 DEF IInv
<1> QED BY <1>5, <1>6

LEMMA OpenUartIInv == IInv /\ OpenUart => IInv'
<1> SUFFICES ASSUME IInv, OpenUart PROVE IInv'
  OBVIOUS
<1>1. /\ pc = "uart" /\ mode \in {"UART", "RELAY_U"} /\ opened = {} /\ status = 0
      /\ UNCHANGED <<mode, lClientSocket, lSensorSocket>>
      /\ lClientUART \in Uarts /\ ~lClientUART.mIsOpen
      /\ lClientUART.handle = "none"
  BY DEF OpenUart, IInv, OrderInv, TypeOK, StreamsInv, Kept
<1>2. PICK c \in UartConfig(lClientUART, Timeout) :
       IF c.result # ERR_SUCCESS
       THEN lClientUART' = c.stream /\ Abort /\ UNCHANGED opened
       ELSE \E o \in UartOpen(c.stream) :
              /\ lClientUART' = o.stream
              /\ IF o.result = ERR_SUCCESS
                 THEN Proceed("uart",
                              IF mode = "UART" THEN "running" ELSE "sensor")
                 ELSE Abort /\ UNCHANGED opened
  BY DEF OpenUart
<1>3. /\ c.result # ERR_SUCCESS => c.stream = lClientUART
      /\ c.result = ERR_SUCCESS => c.stream = [lClientUART EXCEPT !.mTimeout = Timeout]
  BY ErrorsDiffer DEF UartConfig, Outcome
<1>4. \/ /\ lClientUART' \in Uarts /\ PortOpen(lClientUART')
         /\ Proceed("uart", IF mode = "UART" THEN "running" ELSE "sensor")
      \/ lClientUART' \in Uarts /\ ~lClientUART'.mIsOpen /\ Abort /\ UNCHANGED opened
  <2>1. CASE c.result # ERR_SUCCESS
    BY <1>1, <1>2, <1>3, <2>1
  <2>2. CASE c.result = ERR_SUCCESS
    <3>1. PICK o \in UartOpen(c.stream) :
              /\ lClientUART' = o.stream
              /\ IF o.result = ERR_SUCCESS
                 THEN Proceed("uart",
                              IF mode = "UART" THEN "running" ELSE "sensor")
                 ELSE Abort /\ UNCHANGED opened
      BY <1>2, <2>2
    <3>2. /\ c.stream \in Uarts /\ ~c.stream.mIsOpen /\ c.stream.handle = "none"
          /\ c.stream.mTimeout = Timeout
      BY <1>1, <1>3, <2>2, TimeoutType DEF Uarts
    <3> QED BY <3>1, <3>2, PortOpens
  <2> QED BY <2>1, <2>2
<1>5. CASE /\ lClientUART' \in Uarts /\ PortOpen(lClientUART')
           /\ Proceed("uart", IF mode = "UART" THEN "running" ELSE "sensor")
  <2>1. /\ pc' = IF mode = "UART" THEN "running" ELSE "sensor"
        /\ opened' = {"uart"} /\ log' = log /\ status' = 0
    BY <1>1, <1>5 DEF Proceed
  <2>2. TypeOK'
    BY <1>1, <1>5, <2>1 DEF IInv, TypeOK
  <2>3. StreamsInv'
    BY <1>1, <1>5, <2>1 DEF IInv, StreamsInv, Kept, PortOpen, Timeout
  <2>4. OrderInv'
    BY <1>1, <2>1, Modal DEF IInv, OrderInv, Needs
  <2> QED BY <2>2, <2>3, <2>4 DEF IInv
<1>6. CASE lClientUART' \in Uarts /\ ~lClientUART'.mIsOpen /\ Abort /\ UNCHANGED opened
  <2>1. pc' = "return" /\ opened' = {} /\ log' = FALSE /\ status' = ERR_IO
    BY <1>1, <1>6 DEF Abort
  <2>2. TypeOK'
    BY <1>1, <1>6, <2>1 DEF IInv, TypeOK
  <2>3. StreamsInv'
    BY <1>1, <1>6, <2>1 DEF IInv, StreamsInv, Kept
  <2>4. OrderInv'
    BY <1>1, <2>1, ErrorsDiffer DEF IInv, OrderInv, Needs
  <2> QED BY <2>2, <2>3, <2>4 DEF IInv
<1> QED BY <1>4, <1>5, <1>6

LEMMA OpenSensorIInv == IInv /\ OpenSensor => IInv'
<1> SUFFICES ASSUME IInv, OpenSensor PROVE IInv'
  OBVIOUS
<1>1. /\ pc = "sensor" /\ mode # "UART" /\ opened = Needs(mode) \ {"sensor"}
      /\ status = 0 /\ UNCHANGED <<mode, lClientSocket>>
      /\ lSensorSocket \in Sockets /\ ~lSensorSocket.mIsOpen
      /\ "sensor" \in Needs(mode)
  BY Modal DEF OpenSensor, IInv, OrderInv, TypeOK, StreamsInv, Kept
<1> DEFINE Ends(o) ==
         IF o.result = ERR_SUCCESS
         THEN /\ lSensorSocket' = o.stream
              /\ Proceed("sensor", "running")
              /\ UNCHANGED lClientUART
         ELSE /\ lSensorSocket' = IF mode = "RELAY_N"
                                  THEN SocketClosed(o.stream) ELSE o.stream
              /\ lClientUART' = IF mode = "RELAY_U"
                                THEN UartClosed(lClientUART) ELSE lClientUART
              /\ Abort
              /\ UNCHANGED opened
<1>2. PICK t \in SocketSetTimeout(lSensorSocket, Timeout) :
         \E o \in SocketOpen(t.stream) : Ends(o)
  BY DEF OpenSensor
<1>3. PICK o \in SocketOpen(t.stream) : Ends(o)
  BY <1>2
<1>4. /\ o.stream \in Sockets
      /\ o.result = ERR_SUCCESS => Connected(o.stream)
      /\ o.result # ERR_SUCCESS => ~o.stream.mIsOpen
  BY <1>1, <1>3, SocketOpens
<1>5. CASE o.result = ERR_SUCCESS
  <2>1. /\ pc' = "running" /\ opened' = opened \cup {"sensor"} /\ log' = log
        /\ status' = 0 /\ lSensorSocket' = o.stream /\ lClientUART' = lClientUART
    BY <1>1, <1>3, <1>5 DEF Proceed
  <2>2. TypeOK'
    BY <1>1, <1>4, <2>1 DEF IInv, TypeOK
  <2>3. StreamsInv'
    BY <1>1, <1>4, <1>5, <2>1 DEF IInv, StreamsInv, Kept, Connected, PortOpen, Timeout
  <2>4. OrderInv'
    BY <1>1, <2>1, Modal DEF IInv, OrderInv, Needs
  <2> QED BY <2>2, <2>3, <2>4 DEF IInv
<1>6. CASE o.result # ERR_SUCCESS
  <2>1. /\ pc' = "return" /\ opened' = opened /\ log' = FALSE /\ status' = ERR_IO
        /\ lSensorSocket' = o.stream
    BY <1>3, <1>4, <1>6, SocketCloses DEF Abort
  <2>2. lClientUART \in Uarts
    BY DEF IInv, TypeOK
  <2>3. /\ lClientUART' \in Uarts
        /\ \/ lClientUART' = lClientUART
           \/ "uart" \in opened /\ lClientUART' = UartClosed(lClientUART)
    BY <1>1, <1>3, <1>6, <2>2, PortCloses DEF Needs
  <2>4. TypeOK'
    BY <1>1, <1>4, <2>1, <2>3 DEF IInv, TypeOK
  <2>5. StreamsInv'
    <3>1. Kept("client", lClientSocket, Connected(lClientSocket))'
      BY <1>1, <2>1 DEF IInv, StreamsInv, Kept, Connected, Timeout
    <3>2. Kept("sensor", lSensorSocket, Connected(lSensorSocket))'
      BY <1>1, <1>4, <1>6, <2>1 DEF Kept
    <3>3. Kept("uart", lClientUART, PortOpen(lClientUART))'
      <4>1. CASE lClientUART' = lClientUART
        BY <1>1, <2>1, <4>1 DEF IInv, StreamsInv, Kept, PortOpen, Timeout
      <4>2. CASE "uart" \in opened /\ lClientUART' = UartClosed(lClientUART)
        <5>1. lClientUART.mIsOpen /\ lClientUART.handle # "lost"
          BY <1>1, <4>2 DEF IInv, StreamsInv, Kept, PortOpen
        <5> QED BY <2>1, <2>2, <4>2, <5>1, PortCloses DEF Kept
      <4> QED BY <2>3, <4>1, <4>2
    <3> QED BY <2>1, <3>1, <3>2, <3>3 DEF StreamsInv
  <2>6. OrderInv'
    BY <1>1, <2>1, ErrorsDiffer DEF IInv, OrderInv, Needs
  <2> QED BY <2>4, <2>5, <2>6 DEF IInv
<1> QED BY <1>5, <1>6

LEMMA LeaveIInv == IInv /\ Leave => IInv'
<1> SUFFICES ASSUME IInv, Leave PROVE IInv'
  OBVIOUS
<1>1. /\ pc = "running" /\ pc' = "cleanup"
      /\ UNCHANGED <<mode, lClientSocket, lSensorSocket, lClientUART, log, status, opened>>
  BY DEF Leave, streams
<1>2. TypeOK'
  BY <1>1, Zenon DEF IInv, TypeOK
<1>3. StreamsInv'
  BY <1>1 DEF IInv, StreamsInv, Kept, Connected, PortOpen, Timeout
<1>4. OrderInv'
  BY <1>1 DEF IInv, OrderInv, Needs
<1> QED BY <1>2, <1>3, <1>4 DEF IInv

(* The cleanup code and the destructors close the streams alike.           *)
LEMMA ClosingIInv ==
  ASSUME IInv, CleanUp \/ Destroy
  PROVE  IInv'
<1>1. /\ lClientSocket \in Sockets /\ lSensorSocket \in Sockets
      /\ lClientUART \in Uarts
  BY DEF IInv, TypeOK
<1>2. /\ lClientSocket' = SocketClosed(lClientSocket)
      /\ lSensorSocket' = SocketClosed(lSensorSocket)
      /\ lClientUART' = UartClosed(lClientUART)
      /\ UNCHANGED <<mode, status, opened>>
      /\ pc' \in {"return", "exit"} /\ pc # "exit"
  BY DEF CleanUp, Destroy
<1>3. ~log'
  BY DEF CleanUp, Destroy, IInv, OrderInv
<1>4. TypeOK'
  <2>1. log' \in BOOLEAN
    BY DEF CleanUp, Destroy, IInv, TypeOK
  <2> QED BY <1>1, <1>2, <2>1, SocketCloses, PortCloses DEF IInv, TypeOK
<1>5. StreamsInv'
  <2>1. Kept("client", lClientSocket, Connected(lClientSocket))'
    BY <1>1, <1>2, SocketCloses DEF IInv, StreamsInv, Kept, Connected
  <2>2. Kept("sensor", lSensorSocket, Connected(lSensorSocket))'
    BY <1>1, <1>2, SocketCloses DEF IInv, StreamsInv, Kept, Connected
  <2>3. Kept("uart", lClientUART, PortOpen(lClientUART))'
    BY <1>1, <1>2, PortCloses DEF IInv, StreamsInv, Kept, PortOpen
  <2> QED BY <1>2, <2>1, <2>2, <2>3 DEF StreamsInv
<1>6. OrderInv'
  <2>1. status = 0 <=> opened = Needs(mode)
    <3>1. CASE CleanUp
      BY <3>1 DEF CleanUp, IInv, OrderInv
    <3>2. CASE Destroy
      BY <3>2 DEF Destroy, IInv, OrderInv
    <3> QED BY <3>1, <3>2
  <2> QED BY <1>2, <1>3, <2>1 DEF OrderInv, Needs
<1> QED BY <1>4, <1>5, <1>6 DEF IInv

LEMMA IInvStep == IInv /\ [Next]_vars => IInv'
<1>1. ASSUME IInv, UNCHANGED vars PROVE IInv'
  <2>1. /\ UNCHANGED <<pc, mode, lClientSocket, lSensorSocket, lClientUART>>
        /\ UNCHANGED <<log, status, opened>>
    BY <1>1 DEF vars
  <2>2. TypeOK'
    BY <1>1, <2>1, Zenon DEF IInv, TypeOK
  <2>3. StreamsInv'
    BY <1>1, <2>1 DEF IInv, StreamsInv, Kept, Connected, PortOpen, Timeout
  <2>4. OrderInv'
    BY <1>1, <2>1 DEF IInv, OrderInv, Needs
  <2> QED BY <2>2, <2>3, <2>4 DEF IInv
<1> QED BY <1>1, StartIInv, OpenClientIInv, OpenUartIInv, OpenSensorIInv,
        LeaveIInv, ClosingIInv DEF Next

LEMMA IInvHolds == Spec => []IInv
  BY InitIInv, IInvStep, PTL DEF Spec

-----------------------------------------------------------------------------
(* What follows for Program.                                               *)

(* The variables of main() keep their types.                               *)
THEOREM ProgramTypeCorrect == Spec => []TypeOK
<1>1. IInv => TypeOK
  BY DEF IInv
<1> QED BY <1>1, IInvHolds, PTL

(* The menu and the relay loop run only when every connection of the mode  *)
(* has a working handle behind it.  On Linux, where open() of a UART takes *)
(* the -1 of a failure for a handle, this is so in the modes without one.  *)
THEOREM ConnectionsAreUsable ==
  ASSUME Platform = "Windows" \/ Modes \subseteq {"NET", "RELAY_N"}
  PROVE  Spec => []StreamsUsable
<1>1. Init => mode \in Modes
  BY DEF Init
<1>2. mode \in Modes /\ [Next]_vars => (mode \in Modes)'
  <2> SUFFICES ASSUME [Next]_vars PROVE mode' = mode
    OBVIOUS
  <2> QED BY DEF Next, Start, OpenClient, OpenUart, OpenSensor, Leave, CleanUp,
             Destroy, vars
<1>3. ASSUME IInv, mode \in Modes PROVE StreamsUsable
  <2> SUFFICES ASSUME pc = "running" PROVE StreamsUsable
    BY DEF StreamsUsable
  <2>1. opened = Needs(mode)
    BY <1>3 DEF IInv, OrderInv
  <2>2. /\ "client" \in opened => Connected(lClientSocket)
        /\ "sensor" \in opened => Connected(lSensorSocket)
        /\ "uart" \in opened => PortOpen(lClientUART)
    BY <1>3 DEF IInv, StreamsInv, Kept
  <2>3. "uart" \in opened => Platform = "Windows"
    BY <1>3, <2>1 DEF Needs
  <2> QED BY <2>1, <2>2, <2>3 DEF StreamsUsable, Connected, PortOpen
<1> QED BY <1>1, <1>2, <1>3, IInvHolds, PTL DEF Spec

(* Whichever connection could not be opened, the cleanup code of the mode  *)
(* and the destructors together close all that were; the log file, too.    *)
THEOREM EverythingIsClosed == Spec => []EverythingClosed
<1>1. ASSUME IInv PROVE EverythingClosed
  BY <1>1 DEF IInv, StreamsInv, OrderInv, Kept, EverythingClosed
<1> QED BY <1>1, IInvHolds, PTL

(* The return value of main() tells whether every open() succeeded.        *)
THEOREM FailureIsReported == Spec => []FailureReported
<1>1. IInv => FailureReported
  BY DEF IInv, OrderInv, FailureReported
<1> QED BY <1>1, IInvHolds, PTL

(* On Windows setTimeout(0) before open() makes every stream of a relay a  *)
(* polling one, so that no side of the relay is waited for.                *)
THEOREM RelayIsPolling ==
  ASSUME Platform = "Windows"
  PROVE  Spec => []RelayPolls
<1>1. ASSUME IInv PROVE RelayPolls
  <2> SUFFICES ASSUME pc = "running", mode \in {"RELAY_N", "RELAY_U"}
               PROVE  RelayPolls
    BY DEF RelayPolls
  <2>1. opened = Needs(mode) /\ Timeout = 0 /\ SocketWaits(Timeout) = "never"
    BY <1>1 DEF IInv, OrderInv, Timeout, SocketWaits
  <2>2. /\ "client" \in opened => Connected(lClientSocket)
        /\ "sensor" \in opened => Connected(lSensorSocket)
        /\ "uart" \in opened => PortOpen(lClientUART)
    BY <1>1 DEF IInv, StreamsInv, Kept
  <2> QED BY <2>1, <2>2 DEF RelayPolls, Connected, PortOpen, Needs
<1> QED BY <1>1, IInvHolds, PTL
=============================================================================
