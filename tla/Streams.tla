------------------------------ MODULE Streams -------------------------------
(***************************************************************************)
(* The objects behind the interface IDataStream: ClientSocket, ClientUART  *)
(* and CommandFileStream.  A stream is a record; an operation is the set   *)
(* of its outcomes: what has become of the stream, and the value returned. *)
(* The outcomes differ in what the operating system lets succeed.          *)
(***************************************************************************)
EXTENDS ErrorID

CONSTANT Platform    \* "Linux" or "Windows"

ASSUME StreamsAssumption == Platform \in {"Linux", "Windows"}

Outcome(s, r) == [stream |-> s, result |-> r]

(* How long a read() waits for data.                                       *)
Waits == {"forever", "timeout", "never"}

-----------------------------------------------------------------------------
(* ClientSocket.  Its handle is "none" if socket() failed, "new", "bound"  *)
(* to the local port, "connected", or "closed".                            *)

Sockets == [handle : {"none", "new", "bound", "connected", "closed"},
            mIsOpen : BOOLEAN, mTimeout : Nat, waits : Waits]

NewSockets ==
  {[handle |-> h, mIsOpen |-> FALSE, mTimeout |-> 0, waits |-> "forever"] :
     h \in {"none", "new"}}

(* With timeout 0 SO_RCVTIMEO does not limit recv() on Linux; on Windows   *)
(* the socket is made a non-blocking one instead.                          *)
SocketWaits(timeout) ==
  IF timeout # 0 THEN "timeout"
  ELSE IF Platform = "Windows" THEN "never" ELSE "forever"

(* bind() succeeds once for a socket, then connect(), then setting the     *)
(* timeout; what has succeeded before a failure is not undone.             *)
SocketOpen(s) ==
  {Outcome(s, ERR_INVALID_HANDLE)}
  \cup IF s.handle # "new" THEN {}
       ELSE {Outcome([s EXCEPT !.handle = "bound"], ERR_INVALID_HANDLE),
             Outcome([s EXCEPT !.handle = "connected", !.mIsOpen = TRUE,
                               !.waits = SocketWaits(s.mTimeout)],
                     ERR_SUCCESS)}
            \cup IF Platform = "Windows" /\ s.mTimeout = 0 THEN {}
                 ELSE {Outcome([s EXCEPT !.handle = "connected"],
                               ERR_INVALID_HANDLE)}

SocketClosed(s) ==
  IF s.mIsOpen THEN [s EXCEPT !.handle = "closed", !.mIsOpen = FALSE] ELSE s

(* A new timeout is applied to an open connection by opening it again.     *)
SocketSetTimeout(s, timeout) ==
  LET t == [s EXCEPT !.mTimeout = timeout]
  IN  IF t.mIsOpen THEN SocketOpen(SocketClosed(t))
      ELSE {Outcome(t, ERR_SUCCESS)}

-----------------------------------------------------------------------------
(* ClientUART.  Its handle is "none", "open", "closed", "invalid" if       *)
(* opening the device returned -1, or "lost" if this value has replaced    *)
(* the handle of an open port.                                             *)

Uarts == [handle : {"none", "open", "closed", "invalid", "lost"},
          mIsOpen : BOOLEAN, mTimeout : Nat, waits : Waits]

NewUart ==
  [handle |-> "none", mIsOpen |-> FALSE, mTimeout |-> 0, waits |-> "never"]

(* config(): a baud rate the platform does not have is refused.            *)
UartConfig(u, timeout) ==
  {Outcome(u, ERR_CONFIGURATION_ERROR),
   Outcome([u EXCEPT !.mTimeout = timeout], ERR_SUCCESS)}

UartOpened(u, h) ==
  [u EXCEPT !.handle = h, !.mIsOpen = TRUE,
            !.waits = IF u.mTimeout = 0 THEN "never" ELSE "timeout"]

(* The device file does not exist, or is opened; only a file descriptor 0  *)
(* is taken for a failure of open().                                       *)
LinuxUartOpen(u) ==
  {Outcome(u, ERR_INVALID_HANDLE),
   Outcome(UartOpened(u, "invalid"), ERR_SUCCESS),
   Outcome(UartOpened(u, "open"), ERR_SUCCESS)}

(* Mutant of WinUartOpen: the result of CreateFile() is not checked.       *)
WinUartOpenUnchecked(u) ==
  {Outcome(UartOpened(u, "invalid"), ERR_SUCCESS),
   Outcome([u EXCEPT !.handle = "open"], ERR_INVALID_HANDLE),
   Outcome(UartOpened(u, "open"), ERR_SUCCESS)}

(* CreateFile() fails, a setting of the port opened fails, or all succeed. *)
(* A port is not shared: one that is open cannot be opened again.          *)
WinUartOpen(u) ==
  IF u.handle \in {"open", "lost"}
  THEN {Outcome([u EXCEPT !.handle = "lost"], ERR_INVALID_HANDLE)}
  ELSE {Outcome([u EXCEPT !.handle = "invalid"], ERR_INVALID_HANDLE),
        Outcome([u EXCEPT !.handle = "open"], ERR_INVALID_HANDLE),
        Outcome(UartOpened(u, "open"), ERR_SUCCESS)}

UartOpen(u) ==
  IF Platform = "Linux" THEN LinuxUartOpen(u) ELSE WinUartOpen(u)

UartClosed(u) ==
  IF u.mIsOpen
  THEN [u EXCEPT !.handle = IF @ = "lost" THEN @ ELSE "closed",
                 !.mIsOpen = FALSE]
  ELSE u

-----------------------------------------------------------------------------
(* CommandFileStream.  mFileHandle is 0 or a FILE, which is open or not.   *)

Files == [mFileHandle : {"0", "FILE"}, fileOpen : BOOLEAN]

NewFile == [mFileHandle |-> "0", fileOpen |-> FALSE]

FileIsOpen(f) == f.mFileHandle # "0"

FileOpen(f) ==
  {Outcome([mFileHandle |-> "0", fileOpen |-> FALSE], ERR_INVALID_PARAMETER),
   Outcome([mFileHandle |-> "FILE", fileOpen |-> TRUE], ERR_SUCCESS)}

FileClosed(f) == IF FileIsOpen(f) THEN [f EXCEPT !.fileOpen = FALSE] ELSE f

(* fread() returns the number of items read, at most 1 here, which is      *)
(* compared with 4.                                                        *)
FileRead(f) == {Outcome(f, ERR_READ)}
=============================================================================
