------------------------------ MODULE ErrorID ------------------------------
(***************************************************************************)
(* The error numbers of the program (ErrorID.h) and the conversion of an   *)
(* integer received from the sensor into one of them (ErrorID.c).          *)
(***************************************************************************)
EXTENDS Integers

(* __ELASTERROR and __ERR_LASTERROR: the codes are numbered upwards from   *)
(* -2022, the last one, ERR_IO, is -2000.                                  *)
ELASTERROR == 2000
ERR_LASTERROR == -ELASTERROR - 22

ERR_SUCCESS == 0
ERR_SYSTEM_NOT_READY == ERR_LASTERROR + 1
ERR_FRONT_SCREEN_NOT_CLEAR == ERR_LASTERROR + 2
ERR_TEMPERATURE_OUT_OF_RANGE == ERR_LASTERROR + 3
ERR_KEM_SCAN_UNIT_FAILURE == ERR_LASTERROR + 4
ERR_KEM_UNIT == ERR_LASTERROR + 5
ERR_SERIAL_VERSION == ERR_LASTERROR + 6
ERR_CONFIGURATION_ERROR == ERR_LASTERROR + 7
ERR_FATAL_SYSTEM_ERROR == ERR_LASTERROR + 8
ERR_BUFFER_OVERFLOW == ERR_LASTERROR + 9
ERR_INDEX_OUT_OF_RANGE == ERR_LASTERROR + 10
ERR_DIV_BY_ZERO == ERR_LASTERROR + 11
ERR_INVALID_HANDLE == ERR_LASTERROR + 12
ERR_UNSUPPORTED_FUNCTION == ERR_LASTERROR + 13
ERR_ACCESS_DENIED == ERR_LASTERROR + 14
ERR_INVALID_PARAMETER == ERR_LASTERROR + 15
ERR_UNKNOWN_COMMAND == ERR_LASTERROR + 16
ERR_CRC == ERR_LASTERROR + 17
ERR_USER_BREAK == ERR_LASTERROR + 18
ERR_TIMEOUT == ERR_LASTERROR + 19
ERR_WRITE == ERR_LASTERROR + 20
ERR_READ == ERR_LASTERROR + 21
ERR_IO == ERR_LASTERROR + 22

(* The table intToError() indexes, in the order of the source.             *)
ErrorTable ==
  << ERR_SUCCESS, ERR_SYSTEM_NOT_READY, ERR_FRONT_SCREEN_NOT_CLEAR,
     ERR_TEMPERATURE_OUT_OF_RANGE, ERR_KEM_SCAN_UNIT_FAILURE, ERR_KEM_UNIT,
     ERR_SERIAL_VERSION, ERR_CONFIGURATION_ERROR, ERR_FATAL_SYSTEM_ERROR,
     ERR_BUFFER_OVERFLOW, ERR_INDEX_OUT_OF_RANGE, ERR_DIV_BY_ZERO,
     ERR_INVALID_HANDLE, ERR_UNSUPPORTED_FUNCTION, ERR_ACCESS_DENIED,
     ERR_INVALID_PARAMETER, ERR_UNKNOWN_COMMAND, ERR_CRC, ERR_USER_BREAK,
     ERR_TIMEOUT, ERR_WRITE, ERR_READ, ERR_IO >>

(* The index intToError() computes (the C array starts at 0).              *)
ErrorIndex(n) ==
  IF 0 <= n THEN 0
  ELSE IF ERR_LASTERROR < n /\ -ELASTERROR >= n
       THEN n - ERR_LASTERROR
       ELSE ERR_INVALID_HANDLE - ERR_LASTERROR

IntToError(n) == ErrorTable[ErrorIndex(n) + 1]

ErrorCodes == ERR_SYSTEM_NOT_READY .. ERR_IO
=============================================================================
