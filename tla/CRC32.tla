------------------------------- MODULE CRC32 --------------------------------
(***************************************************************************)
(* The checksum at the end of every frame: class CRC32, table-driven.  A   *)
(* word or a byte is the set of the positions of its bits that are 1.      *)
(* Besides the message that is added byte by byte, the module follows a    *)
(* copy of it that was damaged on its way.                                 *)
(***************************************************************************)
EXTENDS FiniteSetsExt, Sequences

CONSTANTS
  Bytes,           \* bytes that occur in the messages
  Errors,          \* error patterns that hit a byte; {} leaves it intact
  MaxLength        \* bound: bytes in a message

CRC32_WIDTH == 32
CRC32_POLYNOMIAL == {0, 1, 2, 4, 5, 7, 8, 10, 11, 12, 16, 22, 23, 26}
CRC32_INITIAL_REMAINDER == 0 .. CRC32_WIDTH - 1
CRC32_FINAL_XOR_VALUE == 0 .. CRC32_WIDTH - 1

Byte == SUBSET (0 .. 7)
Word == SUBSET (0 .. CRC32_WIDTH - 1)

ASSUME CRC32Assumption ==
  Bytes \subseteq Byte /\ Errors \subseteq Byte /\ MaxLength \in Nat

VARIABLES
  mRemainder,      \* of the message added so far
  damaged,         \* the remainder of the damaged copy
  message,         \* history: the bytes added
  error            \* history: the bits of the message that are damaged

vars == <<mRemainder, damaged, message, error>>

-----------------------------------------------------------------------------
(* Swaps the first and the last of n bits, and so on.                      *)
Reflect(value, n) == {n - 1 - b : b \in value}

ShiftLeft(value, n) == {b + n : b \in value} \cap 0 .. CRC32_WIDTH - 1
ShiftRight(value, n) == {b - n : b \in value} \cap 0 .. CRC32_WIDTH - 1

(* One step of the division by the polynomial, most significant bit first.  *)
DivisionStep(rest) ==
  SymDiff(ShiftLeft(rest, 1),
          IF CRC32_WIDTH - 1 \in rest THEN CRC32_POLYNOMIAL ELSE {})

(* Mutant of TableEntry: seven steps instead of eight.                     *)
TableEntrySevenSteps(code) ==
  LET step[i \in 0 .. 7] ==
        IF i = 0 THEN ShiftLeft(Reflect(code, 8), CRC32_WIDTH - 8)
        ELSE DivisionStep(step[i - 1])
  IN  Reflect(step[7], CRC32_WIDTH)

(* The table entry of a byte: eight steps of the polynomial division.      *)
TableEntry(code) ==
  LET step[i \in 0 .. 8] ==
        IF i = 0 THEN ShiftLeft(Reflect(code, 8), CRC32_WIDTH - 8)
        ELSE DivisionStep(step[i - 1])
  IN  Reflect(step[8], CRC32_WIDTH)

sCRCTable == [code \in Byte |-> TableEntry(code)]

(* Mutant of AddByte: the index is masked with 0x7F.                       *)
AddByteSevenBits(remainder, byte) ==
  SymDiff(ShiftRight(remainder, 8),
          sCRCTable[SymDiff(remainder \cap 0 .. 7, byte) \cap 0 .. 6])

AddByte(remainder, byte) ==
  SymDiff(ShiftRight(remainder, 8),
          sCRCTable[SymDiff(remainder \cap 0 .. 7, byte)])

Get(remainder) == SymDiff(remainder, CRC32_FINAL_XOR_VALUE)

-----------------------------------------------------------------------------
Init ==
  /\ mRemainder = CRC32_INITIAL_REMAINDER
  /\ damaged = CRC32_INITIAL_REMAINDER
  /\ message = <<>>
  /\ error = {}

(* add() of one more byte, which in the copy has the bits e inverted.      *)
Add(byte, e) ==
  /\ Len(message) < MaxLength
  /\ mRemainder' = AddByte(mRemainder, byte)
  /\ damaged' = AddByte(damaged, SymDiff(byte, e))
  /\ error' = error \cup {8 * Len(message) + b : b \in e}
  /\ message' = Append(message, byte)

(* get(data, len) starts with clear().                                     *)
Clear ==
  /\ message # <<>>
  /\ mRemainder' = CRC32_INITIAL_REMAINDER
  /\ damaged' = CRC32_INITIAL_REMAINDER
  /\ message' = <<>>
  /\ error' = {}

Next ==
  \/ \E byte \in Bytes, e \in Errors : Add(byte, e)
  \/ Clear

Spec == Init /\ [][Next]_vars

-----------------------------------------------------------------------------
(* Properties.                                                             *)

(* The reference: the message divided by the polynomial bit by bit, least  *)
(* significant bit first, as the standard defines it.                      *)
SerialStep(rest, bit) ==
  SymDiff(ShiftRight(rest, 1),
          IF (0 \in rest) # bit THEN Reflect(CRC32_POLYNOMIAL, CRC32_WIDTH)
          ELSE {})

BitSerial(m) ==
  LET division[n \in 0 .. 8 * Len(m)] ==
        IF n = 0 THEN CRC32_INITIAL_REMAINDER
        ELSE SerialStep(division[n - 1],
                        (n - 1) % 8 \in m[(n - 1) \div 8 + 1])
  IN  division[8 * Len(m)]

(* "A table-driven implementation ... that conforms to the CRC-32-IEEE     *)
(* 802.3 Ethernet Standard".                                               *)
ConformsToStandard == mRemainder = BitSerial(message)

(* checkCRC() notices every damage of a message within 32 successive bits. *)
BurstsDetected ==
  error # {} /\ Max(error) - Min(error) < CRC32_WIDTH =>
    Get(damaged) # Get(mRemainder)
=============================================================================
