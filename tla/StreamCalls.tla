----------------------------- MODULE StreamCalls ----------------------------
(***************************************************************************)
(* A socket, a UART and a file stream whose public methods are called in   *)
(* any order, as the interface IDataStream lets its users do.  Module      *)
(* Program has the one order main() uses; no name of its own is used here, *)
(* so that one module has the theorems about both.                         *)
(***************************************************************************)
EXTENDS Streams

CONSTANTS
  Reopens,         \* open() may be called of a UART that is open
  Timeouts         \* timeouts that are set

ASSUME StreamCallsAssumption ==
  Reopens \in BOOLEAN /\ Timeouts \subseteq Nat

VARIABLES
  socket, uart, file,
  port             \* history: "unnamed", "named" since config(), "stuck" since
                   \* one of its settings failed in open()

callVars == <<socket, uart, file, port>>

NewStreams ==
  /\ socket \in NewSockets
  /\ uart = NewUart
  /\ file = NewFile
  /\ port = "unnamed"

-----------------------------------------------------------------------------
OpenSocket ==
  /\ \E o \in SocketOpen(socket) : socket' = o.stream
  /\ UNCHANGED <<uart, file, port>>

SetTimeout(t) ==
  /\ \E o \in SocketSetTimeout(socket, t) : socket' = o.stream
  /\ UNCHANGED <<uart, file, port>>

CloseSocket ==
  /\ socket' = SocketClosed(socket)
  /\ UNCHANGED <<uart, file, port>>

ConfigPort(t) ==
  /\ \E o \in UartConfig(uart, t) :
       /\ uart' = o.stream
       /\ port' = IF o.result = ERR_SUCCESS /\ port = "unnamed"
                  THEN "named" ELSE port
  /\ UNCHANGED <<socket, file>>

(* The port was opened, but then one of its settings failed.               *)
SettingFailed(o) == o.stream.handle = "open" /\ ~o.stream.mIsOpen

(* Without config() there is no name of a port to open, and nothing that   *)
(* close() would do.                                                       *)
OpenPort ==
  /\ port # "unnamed"
  /\ uart.mIsOpen => Reopens
  /\ \E o \in UartOpen(uart) :
       /\ uart' = o.stream
       /\ port' = IF SettingFailed(o) THEN "stuck" ELSE port
  /\ UNCHANGED <<socket, file>>

ClosePort ==
  /\ port # "unnamed"
  /\ uart' = UartClosed(uart)
  /\ UNCHANGED <<socket, file, port>>

OpenFile ==
  /\ \E o \in FileOpen(file) : file' = o.stream
  /\ UNCHANGED <<socket, uart, port>>

(* read() of a file that is not open is not a legal call.                  *)
ReadFile ==
  /\ file.fileOpen
  /\ \E o \in FileRead(file) : file' = o.stream
  /\ UNCHANGED <<socket, uart, port>>

CloseFile ==
  /\ file' = FileClosed(file)
  /\ UNCHANGED <<socket, uart, port>>

AnyCall ==
  \/ OpenSocket
  \/ \E t \in Timeouts : SetTimeout(t)
  \/ CloseSocket
  \/ \E t \in Timeouts : ConfigPort(t)
  \/ OpenPort
  \/ ClosePort
  \/ OpenFile
  \/ ReadFile
  \/ CloseFile

AnyOrder == NewStreams /\ [][AnyCall]_callVars

-----------------------------------------------------------------------------
(* Properties.                                                             *)

(* In whatever order the methods are called, isOpen() of a socket "returns *)
(* true if the socket is ready to be used": its handle is connected, and   *)
(* read() waits as the timeout set last says, also when setTimeout() was   *)
(* called of an open socket.                                               *)
OpenSocketReady ==
  socket.mIsOpen =>
    /\ socket.handle = "connected"
    /\ socket.waits = SocketWaits(socket.mTimeout)

(* The same of a UART: when isOpen() is true, hComm is the handle of the   *)
(* port, whatever open() and close() failed or did nothing before.  On     *)
(* Windows, of a user who does not open an open port again: that replaces  *)
(* hComm by INVALID_HANDLE_VALUE and leaves mIsOpen as it is.              *)
OpenPortReady == uart.mIsOpen => uart.handle = "open"

(* close() does nothing where isOpen() is false, so that it can "release   *)
(* any system resources" only if a port that is held is one that isOpen()  *)
(* knows of.  Of such a user, and until a setting of the port has failed   *)
(* after CreateFile(): mIsOpen is false then, and the port held until the  *)
(* process ends.                                                           *)
HeldPortKnown ==
  port # "stuck" => (uart.handle \in {"open", "lost"} => uart.mIsOpen)

(* In whatever order the methods are called and whatever fails, isOpen()   *)
(* tells the truth of a socket and of a UART.                              *)
IsOpenAccurate == OpenSocketReady /\ OpenPortReady /\ HeldPortKnown

(* What the records and the history may hold, for the proof.               *)
StreamsTypeOK ==
  /\ socket \in Sockets
  /\ uart \in Uarts
  /\ file \in Files
  /\ port \in {"unnamed", "named", "stuck"}
=============================================================================
