---------------------------- MODULE CRC32Proofs -----------------------------
(***************************************************************************)
(* Theorems about CRC32: the table computes the sum the standard defines   *)
(* bit by bit, and no burst of damage up to the width of the register      *)
(* leaves the sum as it was.                                               *)
(***************************************************************************)
EXTENDS CRC32, WellFoundedInduction, TLAPS

-----------------------------------------------------------------------------
(* Recursion over an index.                                                *)

(* A set of natural numbers that is not empty has a least element.         *)
LEMMA LeastElement ==
  ASSUME NEW S \in SUBSET Nat, S # {}
  PROVE  \E m \in S : \A n \in S : m <= n
<1>1. PICK m \in S : \A n \in S : <<n, m>> \notin OpToRel(<, Nat)
  BY NatLessThanWellFounded, WFMin, Zenon
<1>2. \A n \in Nat : <<n, m>> \in OpToRel(<, Nat) <=>
                    <<n, m>> \in Nat \X Nat /\ <<n, m>>[1] < <<n, m>>[2]
  BY Zenon DEF OpToRel
<1>3. \A n \in S : ~ (n < m)
  BY <1>1, <1>2, Zenon
<1> QED BY <1>3

(* A set that has 0, and with every number below n the next one, has all.  *)
LEMMA UpTo ==
  ASSUME NEW n \in Nat, NEW S, 0 \in S,
         \A i \in 1 .. n : i - 1 \in S => i \in S
  PROVE  \A i \in 0 .. n : i \in S
<1> SUFFICES ASSUME NEW k \in 0 .. n, k \notin S PROVE FALSE
  OBVIOUS
<1> DEFINE Bad == {i \in 0 .. n : i \notin S}
<1>1. Bad \in SUBSET Nat /\ Bad # {}
  OBVIOUS
<1>2. PICK m \in Bad : \A i \in Bad : m <= i
  BY <1>1, LeastElement
<1>3. m \in 0 .. n /\ m \notin S /\ m # 0
  BY <1>2
<1>4. m - 1 \in 0 .. n /\ m - 1 \notin Bad
  BY <1>2, <1>3
<1>5. m - 1 \in S
  BY <1>4
<1> QED BY <1>3, <1>5

(* The values of a loop: base before the first of its n turns, and after    *)
(* turn i what h[i] makes of the value before.                             *)
IsLoop(f, n, S, base, h) ==
  /\ f \in [0 .. n -> S]
  /\ f[0] = base
  /\ \A i \in 1 .. n : f[i] = h[i][f[i - 1]]

(* A recursive function exists: h gives each value from the index and from *)
(* the value before.                                                       *)
LEMMA Recursion ==
  ASSUME NEW n \in Nat, NEW S, NEW base \in S, NEW h \in [1 .. n -> [S -> S]]
  PROVE  \E f : IsLoop(f, n, S, base, h)
<1> DEFINE Up(k, f) == f[0] = base /\ \A i \in 1 .. k : f[i] = h[i][f[i - 1]]
           Good == {k \in 0 .. n : \E f \in [0 .. k -> S] : Up(k, f)}
<1>1. 0 \in Good
  <2> DEFINE f == [i \in 0 .. 0 |-> base]
  <2>1. f \in [0 .. 0 -> S] /\ Up(0, f)
    OBVIOUS
  <2> HIDE DEF f, Up
  <2>2. 0 \in 0 .. n
    OBVIOUS
  <2> QED BY <2>1, <2>2
<1>2. ASSUME NEW k \in 1 .. n, k - 1 \in Good PROVE k \in Good
  <2>1. PICK f \in [0 .. k - 1 -> S] : Up(k - 1, f)
    BY <1>2
  <2> DEFINE last == h[k][f[k - 1]]
             g == [i \in 0 .. k |-> IF i = k THEN last ELSE f[i]]
  <2>2. last \in S
    <3>1. f[k - 1] \in S
      BY <2>1
    <3> QED BY <3>1
  <2>3. g[k - 1] = f[k - 1] /\ g[k] = last
    OBVIOUS
  <2> HIDE DEF last
  <2>4. g \in [0 .. k -> S]
    BY <2>2
  <2>5. g[0] = base
    BY <2>1
  <2>6. \A i \in 1 .. k - 1 : g[i] = h[i][g[i - 1]]
    BY <2>1
  <2> HIDE DEF g
  <2>7. \A i \in 1 .. k : g[i] = h[i][g[i - 1]]
    BY <2>3, <2>6 DEF last
  <2>8. Up(k, g)
    BY <2>5, <2>7
  <2> HIDE DEF Up
  <2> QED BY <2>4, <2>8
<1> HIDE DEF Good
<1>3. \A i \in 0 .. n : i \in Good
  BY <1>1, <1>2, UpTo
<1>4. PICK f \in [0 .. n -> S] : Up(n, f)
  BY <1>3 DEF Good
<1> QED BY <1>4 DEF IsLoop

-----------------------------------------------------------------------------
(* The operators on words, bit by bit.                                     *)

(* Exclusive or.                                                           *)
LEMMA InSymDiff ==
  ASSUME NEW x, NEW y, NEW k
  PROVE  k \in SymDiff(x, y) <=> ~(k \in x <=> k \in y)
  BY Zenon DEF SymDiff

(* The shifts, which lose what they move over the ends of the word.        *)
LEMMA InShiftRight ==
  ASSUME NEW x \in Word, NEW n \in Nat, NEW k
  PROVE  k \in ShiftRight(x, n) <=> k \in 0 .. 31 /\ k + n \in x
<1>1. x \subseteq 0 .. 31
  BY DEF Word, CRC32_WIDTH
<1>2. k \in ShiftRight(x, n) => k \in 0 .. 31 /\ k + n \in x
  BY <1>1 DEF ShiftRight, CRC32_WIDTH
<1>3. ASSUME k \in 0 .. 31, k + n \in x PROVE k \in ShiftRight(x, n)
  <2>1. k = (k + n) - n
    BY <1>3
  <2> QED BY <2>1, <1>3 DEF ShiftRight, CRC32_WIDTH
<1> QED BY <1>2, <1>3

LEMMA InShiftLeft ==
  ASSUME NEW x \in Word, NEW n \in Nat, NEW k
  PROVE  k \in ShiftLeft(x, n) <=> k \in 0 .. 31 /\ k - n \in x
<1>1. x \subseteq 0 .. 31
  BY DEF Word, CRC32_WIDTH
<1>2. k \in ShiftLeft(x, n) => k \in 0 .. 31 /\ k - n \in x
  BY <1>1 DEF ShiftLeft, CRC32_WIDTH
<1>3. ASSUME k \in 0 .. 31, k - n \in x PROVE k \in ShiftLeft(x, n)
  <2>1. k = (k - n) + n
    BY <1>3
  <2> QED BY <2>1, <1>3 DEF ShiftLeft, CRC32_WIDTH
<1> QED BY <1>2, <1>3

(* reflect() swaps the first bit of n and the last, and so on.             *)
LEMMA InReflect ==
  ASSUME NEW n \in Nat, NEW x \in SUBSET (0 .. n - 1), NEW k
  PROVE  k \in Reflect(x, n) <=> k \in 0 .. n - 1 /\ n - 1 - k \in x
<1>1. k \in Reflect(x, n) => k \in 0 .. n - 1 /\ n - 1 - k \in x
  BY DEF Reflect
<1>2. ASSUME k \in 0 .. n - 1, n - 1 - k \in x PROVE k \in Reflect(x, n)
  <2>1. k = n - 1 - (n - 1 - k)
    BY <1>2
  <2> QED BY <2>1, <1>2 DEF Reflect
<1> QED BY <1>1, <1>2

(* The results are words.                                                  *)
LEMMA WordOperators ==
  /\ \A x, y \in Word : SymDiff(x, y) \in Word
  /\ \A x \in Word, n \in Nat : ShiftRight(x, n) \in Word /\ ShiftLeft(x, n) \in Word
  /\ \A x \in Word : Reflect(x, CRC32_WIDTH) \in Word
  /\ CRC32_POLYNOMIAL \in Word
  /\ Reflect(CRC32_POLYNOMIAL, CRC32_WIDTH) \in Word
  /\ Byte \subseteq Word
<1>1. \A x, y \in Word : SymDiff(x, y) \in Word
  BY DEF Word, SymDiff
<1>2. \A x \in Word, n \in Nat : ShiftRight(x, n) \in Word /\ ShiftLeft(x, n) \in Word
  BY DEF Word, ShiftRight, ShiftLeft
<1>3. \A x \in Word : Reflect(x, CRC32_WIDTH) \in Word
  BY DEF Word, Reflect, CRC32_WIDTH
<1>4. CRC32_POLYNOMIAL \in Word
  BY DEF Word, CRC32_POLYNOMIAL, CRC32_WIDTH
<1>5. Byte \subseteq Word
  BY DEF Byte, Word, CRC32_WIDTH
<1> QED BY <1>1, <1>2, <1>3, <1>4, <1>5

(* The polynomial of the serial division.                                  *)
Feedback == Reflect(CRC32_POLYNOMIAL, CRC32_WIDTH)

LEMMA FeedbackBits ==
  Feedback \in Word /\ \A k \in 0 .. 31 : k \in Feedback <=> 31 - k \in CRC32_POLYNOMIAL
<1>1. CRC32_POLYNOMIAL \in SUBSET (0 .. 32 - 1)
  BY DEF CRC32_POLYNOMIAL
<1>2. Feedback = Reflect(CRC32_POLYNOMIAL, 32)
  BY DEF Feedback, CRC32_WIDTH
<1>3. \A k \in 0 .. 31 : k \in Feedback <=> 32 - 1 - k \in CRC32_POLYNOMIAL
  BY <1>1, <1>2, InReflect
<1> QED BY <1>3, WordOperators DEF Feedback

(* A bit that leaves the register at its end comes back at the top.        *)
LEMMA FeedbackTop == 31 \in Feedback
  BY FeedbackBits DEF CRC32_POLYNOMIAL

(* One step of the serial division, and of the division for the table.     *)
LEMMA InSerialStep ==
  ASSUME NEW x \in Word, NEW bit \in BOOLEAN
  PROVE  /\ SerialStep(x, bit) \in Word
         /\ \A k \in 0 .. 31 :
              k \in SerialStep(x, bit) <=>
                ~(k + 1 \in x <=> ~(0 \in x <=> bit) /\ k \in Feedback)
<1> DEFINE poly == IF (0 \in x) # bit THEN Feedback ELSE {}
<1>1. SerialStep(x, bit) = SymDiff(ShiftRight(x, 1), poly)
  BY DEF SerialStep, Feedback
<1>2. poly \in Word
  BY FeedbackBits DEF Word
<1>3. ASSUME NEW k \in 0 .. 31
      PROVE  k \in poly <=> ~(0 \in x <=> bit) /\ k \in Feedback
  OBVIOUS
<1> HIDE DEF poly
<1>4. ASSUME NEW k \in 0 .. 31
      PROVE  k \in ShiftRight(x, 1) <=> k + 1 \in x
  BY InShiftRight
<1>5. ASSUME NEW k \in 0 .. 31
      PROVE  k \in SymDiff(ShiftRight(x, 1), poly) <=>
                ~(k + 1 \in x <=> ~(0 \in x <=> bit) /\ k \in Feedback)
  <2>1. k \in SymDiff(ShiftRight(x, 1), poly) <=>
          ~(k \in ShiftRight(x, 1) <=> k \in poly)
    BY InSymDiff, Zenon
  <2> QED BY <2>1, <1>3, <1>4, Zenon
<1> QED BY <1>1, <1>2, <1>5, WordOperators

LEMMA InDivisionStep ==
  ASSUME NEW x \in Word
  PROVE  /\ DivisionStep(x) \in Word
         /\ \A k \in 0 .. 31 :
              k \in DivisionStep(x) <=>
                ~(k - 1 \in x <=> 31 \in x /\ k \in CRC32_POLYNOMIAL)
<1> DEFINE poly == IF 31 \in x THEN CRC32_POLYNOMIAL ELSE {}
<1>1. DivisionStep(x) = SymDiff(ShiftLeft(x, 1), poly)
  BY DEF DivisionStep, CRC32_WIDTH
<1>2. poly \in Word
  BY WordOperators DEF Word
<1>3. ASSUME NEW k \in 0 .. 31
      PROVE  k \in poly <=> 31 \in x /\ k \in CRC32_POLYNOMIAL
  OBVIOUS
<1> HIDE DEF poly
<1>4. ASSUME NEW k \in 0 .. 31
      PROVE  k \in ShiftLeft(x, 1) <=> k - 1 \in x
  BY InShiftLeft
<1>5. ASSUME NEW k \in 0 .. 31
      PROVE  k \in SymDiff(ShiftLeft(x, 1), poly) <=>
                ~(k - 1 \in x <=> 31 \in x /\ k \in CRC32_POLYNOMIAL)
  <2>1. k \in SymDiff(ShiftLeft(x, 1), poly) <=>
          ~(k \in ShiftLeft(x, 1) <=> k \in poly)
    BY InSymDiff, Zenon
  <2> QED BY <2>1, <1>3, <1>4, Zenon
<1> QED BY <1>1, <1>2, <1>5, WordOperators

(* Two words with the same bits are the same.                              *)
LEMMA SameBits ==
  ASSUME NEW x \in Word, NEW y \in Word, \A k \in 0 .. 31 : k \in x <=> k \in y
  PROVE  x = y
<1>1. x \subseteq 0 .. 31 /\ y \subseteq 0 .. 31
  BY DEF Word, CRC32_WIDTH
<1>2. \A k : k \in x <=> k \in y
  BY <1>1, Zenon
<1> QED BY <1>2, Zenon

-----------------------------------------------------------------------------
(* The table: the reflected division is the serial one.                    *)

(* Reflecting turns a step of the table's division into a serial one.      *)
LEMMA ReflectedStep ==
  ASSUME NEW x \in Word
  PROVE  Reflect(DivisionStep(x), 32) = SerialStep(Reflect(x, 32), FALSE)
<1> DEFINE r == Reflect(x, 32)
<1>1. r \in Word /\ \A k \in 0 .. 31 : k \in r <=> 31 - k \in x
  <2>1. x \in SUBSET (0 .. 32 - 1)
    BY DEF Word, CRC32_WIDTH
  <2>2. \A k \in 0 .. 31 : k \in r <=> 32 - 1 - k \in x
    BY <2>1, InReflect
  <2> QED BY <2>2, WordOperators DEF CRC32_WIDTH
<1>2. DivisionStep(x) \in Word /\ Reflect(DivisionStep(x), 32) \in Word
  BY InDivisionStep, WordOperators DEF CRC32_WIDTH
<1>3. SerialStep(r, FALSE) \in Word
  BY <1>1, InSerialStep
<1>4. ASSUME NEW k \in 0 .. 31
      PROVE  k \in Reflect(DivisionStep(x), 32) <=> k \in SerialStep(r, FALSE)
  <2>1. k \in Reflect(DivisionStep(x), 32) <=> 31 - k \in DivisionStep(x)
    BY <1>2, InReflect DEF Word, CRC32_WIDTH
  <2>2. 31 - k \in DivisionStep(x) <=>
          ~((31 - k) - 1 \in x <=> 31 \in x /\ 31 - k \in CRC32_POLYNOMIAL)
    BY InDivisionStep
  <2>3. k \in SerialStep(r, FALSE) <=>
          ~(k + 1 \in r <=> 0 \in r /\ k \in Feedback)
    BY <1>1, InSerialStep
  <2>4. 0 \in r <=> 31 \in x
    BY <1>1
  <2>5. k \in Feedback <=> 31 - k \in CRC32_POLYNOMIAL
    BY FeedbackBits
  <2>6. k + 1 \in r <=> (31 - k) - 1 \in x
    <3>1. CASE k < 31
      BY <3>1, <1>1
    <3>2. CASE k = 31
      <4>1. k + 1 \notin 0 .. 31 /\ (31 - k) - 1 \notin 0 .. 31
        BY <3>2
      <4> QED BY <4>1, <1>1 DEF Word, CRC32_WIDTH
    <3> QED BY <3>1, <3>2
  <2> QED BY <2>1, <2>2, <2>3, <2>4, <2>5, <2>6, Zenon
<1> DEFINE left == Reflect(DivisionStep(x), 32)
           right == SerialStep(r, FALSE)
<1>5. left \in Word /\ right \in Word /\ \A k \in 0 .. 31 : k \in left <=> k \in right
  BY <1>2, <1>3, <1>4
<1> HIDE DEF left, right
<1>6. left = right
  BY <1>5, SameBits
<1> QED BY <1>6 DEF left, right

(* The division of a sum is the sum of the divisions.                      *)
LEMMA SerialLinear ==
  ASSUME NEW x \in Word, NEW y \in Word
  PROVE  SerialStep(SymDiff(x, y), FALSE)
           = SymDiff(SerialStep(x, FALSE), SerialStep(y, FALSE))
<1> DEFINE d == SymDiff(x, y)
           sx == SerialStep(x, FALSE)
           sy == SerialStep(y, FALSE)
<1>1. d \in Word /\ \A k : k \in d <=> ~(k \in x <=> k \in y)
  BY WordOperators, InSymDiff
<1>2. /\ sx \in Word /\ sy \in Word /\ SymDiff(sx, sy) \in Word
      /\ SerialStep(d, FALSE) \in Word
  BY <1>1, WordOperators, InSerialStep
<1>3. ASSUME NEW k \in 0 .. 31
      PROVE  k \in SerialStep(d, FALSE) <=> k \in SymDiff(sx, sy)
  <2>1. k \in SerialStep(d, FALSE) <=> ~(k + 1 \in d <=> 0 \in d /\ k \in Feedback)
    BY <1>1, InSerialStep
  <2>2. k \in sx <=> ~(k + 1 \in x <=> 0 \in x /\ k \in Feedback)
    BY InSerialStep
  <2>3. k \in sy <=> ~(k + 1 \in y <=> 0 \in y /\ k \in Feedback)
    BY InSerialStep
  <2>4. k \in SymDiff(sx, sy) <=> ~(k \in sx <=> k \in sy)
    BY InSymDiff
  <2>5. /\ k + 1 \in d <=> ~(k + 1 \in x <=> k + 1 \in y)
        /\ 0 \in d <=> ~(0 \in x <=> 0 \in y)
    BY <1>1
  <2> HIDE DEF d, sx, sy
  <2> QED BY <2>1, <2>2, <2>3, <2>4, <2>5
<1> HIDE DEF d, sx, sy
<1> QED BY <1>2, <1>3, SameBits DEF d, sx, sy

(* A step of the serial division by a bit that is 0, and several of them.  *)
Step(x) == SerialStep(x, FALSE)
TwoSteps(x) == Step(Step(x))
FourSteps(x) == TwoSteps(TwoSteps(x))
EightSteps(x) == FourSteps(FourSteps(x))

LEMMA StepsType ==
  ASSUME NEW x \in Word
  PROVE  /\ Step(x) \in Word
         /\ TwoSteps(x) \in Word
         /\ FourSteps(x) \in Word
         /\ EightSteps(x) \in Word
<1>1. \A y \in Word : Step(y) \in Word
  BY InSerialStep DEF Step
<1>2. \A y \in Word : TwoSteps(y) \in Word
  BY <1>1 DEF TwoSteps
<1>3. \A y \in Word : FourSteps(y) \in Word
  BY <1>2 DEF FourSteps
<1> QED BY <1>1, <1>2, <1>3 DEF EightSteps

LEMMA StepsLinear ==
  ASSUME NEW x \in Word, NEW y \in Word
  PROVE  EightSteps(SymDiff(x, y)) = SymDiff(EightSteps(x), EightSteps(y))
<1>1. \A a, b \in Word : Step(SymDiff(a, b)) = SymDiff(Step(a), Step(b))
  BY SerialLinear DEF Step
<1>2. \A a, b \in Word : TwoSteps(SymDiff(a, b)) = SymDiff(TwoSteps(a), TwoSteps(b))
  BY <1>1, StepsType DEF TwoSteps
<1>3. \A a, b \in Word : FourSteps(SymDiff(a, b)) = SymDiff(FourSteps(a), FourSteps(b))
  BY <1>2, StepsType DEF FourSteps
<1> QED BY <1>3, StepsType DEF EightSteps

(* Bits that are not near the end are only shifted.                        *)
LEMMA StepShifts ==
  ASSUME NEW x \in Word, 0 \notin x
  PROVE  Step(x) = ShiftRight(x, 1)
<1> DEFINE left == Step(x)
           right == ShiftRight(x, 1)
<1>1. left \in Word /\ right \in Word
  BY StepsType, WordOperators
<1>2. ASSUME NEW k \in 0 .. 31 PROVE k \in left <=> k \in right
  BY InSerialStep, InShiftRight DEF Step
<1> HIDE DEF left, right
<1>3. left = right
  BY <1>1, <1>2, SameBits
<1> QED BY <1>3 DEF left, right

(* Two shifts are one.                                                     *)
LEMMA ShiftsAdd ==
  ASSUME NEW x \in Word, NEW m \in Nat, NEW n \in Nat
  PROVE  ShiftRight(ShiftRight(x, m), n) = ShiftRight(x, m + n)
<1> DEFINE y == ShiftRight(x, m)
           left == ShiftRight(y, n)
           right == ShiftRight(x, m + n)
<1>1. y \in Word /\ left \in Word /\ right \in Word
  BY WordOperators
<1>2. ASSUME NEW k \in 0 .. 31 PROVE k \in left <=> k \in right
  <2>1. k \in left <=> k + n \in y
    BY <1>1, InShiftRight
  <2>2. k + n \in y <=> k + n \in 0 .. 31 /\ (k + n) + m \in x
    BY InShiftRight
  <2>3. k \in right <=> k + (m + n) \in x
    BY InShiftRight
  <2>4. (k + n) + m = k + (m + n)
    OBVIOUS
  <2>5. k + (m + n) \in x => k + n \in 0 .. 31
    BY DEF Word, CRC32_WIDTH
  <2> HIDE DEF left, right, y
  <2> QED BY <2>1, <2>2, <2>3, <2>4, <2>5
<1> HIDE DEF left, right
<1>3. left = right
  BY <1>1, <1>2, SameBits
<1> QED BY <1>3 DEF left, right

(* Eight steps of a word without its last byte.                            *)
LEMMA StepsShift ==
  ASSUME NEW x \in Word, x \cap 0 .. 7 = {}
  PROVE  EightSteps(x) = ShiftRight(x, 8)
<1>1. ASSUME NEW w \in Word, NEW n \in Nat, NEW d \in Nat,
             \A k \in 0 .. n + d - 1 : k \notin w
      PROVE  \A k \in 0 .. n - 1 : k \notin ShiftRight(w, d)
  <2> SUFFICES ASSUME NEW k \in 0 .. n - 1 PROVE k \notin ShiftRight(w, d)
    OBVIOUS
  <2>1. k + d \in 0 .. n + d - 1
    OBVIOUS
  <2> QED BY <1>1, <2>1, InShiftRight
<1>2. ASSUME NEW w \in Word, \A k \in 0 .. 1 : k \notin w
      PROVE  TwoSteps(w) = ShiftRight(w, 2)
  <2>1. Step(w) = ShiftRight(w, 1) /\ Step(w) \in Word
    BY <1>2, StepShifts, StepsType
  <2>2. 0 \notin Step(w)
    <3>1. 0 + 1 \notin w
      BY <1>2
    <3> QED BY <2>1, <3>1, InShiftRight
  <2>3. Step(Step(w)) = ShiftRight(ShiftRight(w, 1), 1)
    BY <2>1, <2>2, StepShifts
  <2>4. ShiftRight(ShiftRight(w, 1), 1) = ShiftRight(w, 1 + 1)
    BY ShiftsAdd
  <2> QED BY <2>3, <2>4 DEF TwoSteps
<1>3. ASSUME NEW w \in Word, \A k \in 0 .. 3 : k \notin w
      PROVE  FourSteps(w) = ShiftRight(w, 4)
  <2>1. TwoSteps(w) = ShiftRight(w, 2) /\ TwoSteps(w) \in Word
    BY <1>2, <1>3, StepsType
  <2>2. \A k \in 0 .. 1 : k \notin TwoSteps(w)
    <3>1. \A k \in 0 .. 2 + 2 - 1 : k \notin w
      BY <1>3
    <3>2. \A k \in 0 .. 2 - 1 : k \notin ShiftRight(w, 2)
      BY <1>1, <3>1
    <3> QED BY <2>1, <3>2
  <2>3. TwoSteps(TwoSteps(w)) = ShiftRight(ShiftRight(w, 2), 2)
    BY <1>2, <2>1, <2>2
  <2>4. ShiftRight(ShiftRight(w, 2), 2) = ShiftRight(w, 2 + 2)
    BY ShiftsAdd
  <2> QED BY <2>3, <2>4 DEF FourSteps
<1>4. \A k \in 0 .. 7 : k \notin x
  OBVIOUS
<1>5. FourSteps(x) = ShiftRight(x, 4) /\ FourSteps(x) \in Word
  BY <1>3, <1>4, StepsType
<1>6. \A k \in 0 .. 3 : k \notin FourSteps(x)
  <2>1. \A k \in 0 .. 4 + 4 - 1 : k \notin x
    BY <1>4
  <2>2. \A k \in 0 .. 4 - 1 : k \notin ShiftRight(x, 4)
    BY <1>1, <2>1
  <2> QED BY <1>5, <2>2
<1>7. FourSteps(FourSteps(x)) = ShiftRight(ShiftRight(x, 4), 4)
  BY <1>3, <1>5, <1>6
<1>8. ShiftRight(ShiftRight(x, 4), 4) = ShiftRight(x, 4 + 4)
  BY ShiftsAdd
<1> QED BY <1>7, <1>8 DEF EightSteps

(* The loop in the constructor of CRC32 goes through the eight values it   *)
(* is meant to go through.                                                 *)
LEMMA TableLoop ==
  ASSUME NEW base \in Word
  PROVE  LET step[i \in 0 .. 8] == IF i = 0 THEN base ELSE DivisionStep(step[i - 1])
         IN  step \in [0 .. 8 -> Word] /\ step[0] = base
             /\ \A i \in 1 .. 8 : step[i] = DivisionStep(step[i - 1])
<1> DEFINE F(g) == [i \in 0 .. 8 |-> IF i = 0 THEN base ELSE DivisionStep(g[i - 1])]
           step == CHOOSE g : g = F(g)
<1>1. PICK h \in [1 .. 8 -> [Word -> Word]] :
        \A i \in 1 .. 8, x \in Word : h[i][x] = DivisionStep(x)
  <2> DEFINE h == [i \in 1 .. 8 |-> [x \in Word |-> DivisionStep(x)]]
  <2>1. h \in [1 .. 8 -> [Word -> Word]]
    BY InDivisionStep
  <2>2. \A i \in 1 .. 8, x \in Word : h[i][x] = DivisionStep(x)
    OBVIOUS
  <2> HIDE DEF h
  <2> QED BY <2>1, <2>2
<1>2. PICK f : IsLoop(f, 8, Word, base, h)
  BY Recursion
<1>3. f \in [0 .. 8 -> Word] /\ f[0] = base
  BY <1>2 DEF IsLoop
<1>4. \A i \in 1 .. 8 : f[i] = DivisionStep(f[i - 1])
  BY <1>1, <1>2 DEF IsLoop
<1>5. f = F(f)
  BY <1>3, <1>4
<1>6. step = F(step)
  BY <1>5
<1> HIDE DEF step
<1>7. step[0] = base /\ \A i \in 1 .. 8 : step[i] = DivisionStep(step[i - 1])
  BY <1>6
<1>8. DOMAIN step = 0 .. 8 /\ step = [i \in 0 .. 8 |-> step[i]]
  BY <1>6
<1>9. \A i \in 0 .. 8 : step[i] \in Word
  <2> DEFINE T == {i \in 0 .. 8 : step[i] \in Word}
  <2>1. 0 \in T
    BY <1>7
  <2>2. \A i \in 1 .. 8 : i - 1 \in T => i \in T
    BY <1>7, InDivisionStep
  <2> HIDE DEF T
  <2>3. \A i \in 0 .. 8 : i \in T
    BY <2>1, <2>2, UpTo
  <2> QED BY <2>3 DEF T
<1>10. step \in [0 .. 8 -> Word]
  BY <1>8, <1>9
<1> QED BY <1>7, <1>10 DEF step

(* The table has what eight serial steps make of a byte.                   *)
LEMMA TableEntryIsSerial ==
  ASSUME NEW c \in Byte
  PROVE  TableEntry(c) = EightSteps(c)
<1> DEFINE base == ShiftLeft(Reflect(c, 8), CRC32_WIDTH - 8)
           step == CHOOSE g : g = [i \in 0 .. 8 |-> IF i = 0 THEN base
                                                    ELSE DivisionStep(g[i - 1])]
           R(i) == Reflect(step[i], 32)
<1>1. Reflect(c, 8) \in Word /\ c \in Word /\ c \in SUBSET (0 .. 8 - 1)
  <2>1. c \in SUBSET (0 .. 8 - 1)
    BY DEF Byte
  <2>2. Reflect(c, 8) \in SUBSET (0 .. 31)
    BY <2>1, InReflect
  <2> QED BY <2>1, <2>2, WordOperators DEF Word, CRC32_WIDTH
<1>2. base \in Word
  BY <1>1, WordOperators DEF CRC32_WIDTH
<1>3. Reflect(base, 32) = c
  <2> DEFINE left == Reflect(base, 32)
  <2>1. left \in Word /\ c \in Word
    BY <1>1, <1>2, WordOperators DEF CRC32_WIDTH
  <2>2. ASSUME NEW k \in 0 .. 31 PROVE k \in left <=> k \in c
    <3>1. base \in SUBSET (0 .. 32 - 1)
      BY <1>2 DEF Word, CRC32_WIDTH
    <3>2. k \in left <=> 32 - 1 - k \in base
      BY <3>1, InReflect
    <3>3. 31 - k \in base <=> (31 - k) - 24 \in Reflect(c, 8)
      BY <1>1, InShiftLeft DEF CRC32_WIDTH
    <3>4. (31 - k) - 24 \in Reflect(c, 8) <=>
            (31 - k) - 24 \in 0 .. 8 - 1 /\ 8 - 1 - ((31 - k) - 24) \in c
      BY <1>1, InReflect
    <3>5. 8 - 1 - ((31 - k) - 24) = k /\ 32 - 1 - k = 31 - k
      OBVIOUS
    <3>6. k \in c => (31 - k) - 24 \in 0 .. 8 - 1
      BY <1>1
    <3> HIDE DEF left, base
    <3> QED BY <3>2, <3>3, <3>4, <3>5, <3>6
  <2> HIDE DEF left
  <2>3. left = c
    BY <2>1, <2>2, SameBits
  <2> QED BY <2>3 DEF left
<1> HIDE DEF base
<1>4. /\ step \in [0 .. 8 -> Word] /\ step[0] = base
      /\ \A i \in 1 .. 8 : step[i] = DivisionStep(step[i - 1])
  BY <1>2, TableLoop
<1>5. TableEntry(c) = R(8)
  BY DEF TableEntry, CRC32_WIDTH, base
<1> HIDE DEF step
<1>6. ASSUME NEW i \in 1 .. 8 PROVE R(i) = Step(R(i - 1))
  <2>1. step[i - 1] \in Word /\ step[i] = DivisionStep(step[i - 1])
    BY <1>4
  <2> QED BY <2>1, ReflectedStep DEF Step
<1>7. R(0) = c
  BY <1>3, <1>4
<1> HIDE DEF R
<1>8. /\ R(1) = Step(R(0)) /\ R(2) = Step(R(1)) /\ R(3) = Step(R(2))
      /\ R(4) = Step(R(3)) /\ R(5) = Step(R(4)) /\ R(6) = Step(R(5))
      /\ R(7) = Step(R(6)) /\ R(8) = Step(R(7))
  <2>1. /\ R(1) = Step(R(1 - 1)) /\ R(2) = Step(R(2 - 1)) /\ R(3) = Step(R(3 - 1))
        /\ R(4) = Step(R(4 - 1)) /\ R(5) = Step(R(5 - 1)) /\ R(6) = Step(R(6 - 1))
        /\ R(7) = Step(R(7 - 1)) /\ R(8) = Step(R(8 - 1))
    BY <1>6
  <2> QED BY <2>1
<1> QED BY <1>5, <1>7, <1>8 DEF EightSteps, FourSteps, TwoSteps

(* add() of a byte: eight steps of the division.                           *)
LEMMA AddByteIsSerial ==
  ASSUME NEW r \in Word, NEW b \in Byte
  PROVE  AddByte(r, b) = EightSteps(SymDiff(r, b))
<1> DEFINE low == SymDiff(r \cap 0 .. 7, b)
           high == r \ (0 .. 7)
<1>1. low \in Byte /\ low \in Word /\ high \in Word /\ high \cap 0 .. 7 = {}
  BY WordOperators DEF Byte, Word, SymDiff
<1>2. SymDiff(r, b) = SymDiff(high, low)
  BY DEF SymDiff, Byte
<1>3. ShiftRight(r, 8) = ShiftRight(high, 8)
  <2> DEFINE left == ShiftRight(r, 8)
             right == ShiftRight(high, 8)
  <2>1. left \in Word /\ right \in Word
    BY <1>1, WordOperators
  <2>2. ASSUME NEW k \in 0 .. 31 PROVE k \in left <=> k \in right
    <3>1. k \in left <=> k + 8 \in r
      BY InShiftRight
    <3>2. k \in right <=> k + 8 \in high
      BY <1>1, InShiftRight
    <3>3. k + 8 \notin 0 .. 7
      OBVIOUS
    <3> HIDE DEF left, right
    <3> QED BY <3>1, <3>2, <3>3
  <2> HIDE DEF left, right
  <2>3. left = right
    BY <2>1, <2>2, SameBits
  <2> QED BY <2>3 DEF left, right
<1>4. sCRCTable[low] = EightSteps(low)
  BY <1>1, TableEntryIsSerial DEF sCRCTable
<1>5. AddByte(r, b) = SymDiff(EightSteps(high), EightSteps(low))
  BY <1>1, <1>3, <1>4, StepsShift DEF AddByte
<1> QED BY <1>1, <1>2, <1>5, StepsLinear

-----------------------------------------------------------------------------
(* The reference: the message divided bit by bit.                          *)

(* Adding the next bit of a byte in a step, or the byte before the steps.  *)
LEMMA SerialByteStep ==
  ASSUME NEW b \in Byte, NEW old \in Word, NEW i \in 1 .. 8,
         NEW bit \in BOOLEAN, bit <=> i - 1 \in b
  PROVE  SymDiff(SerialStep(old, bit), ShiftRight(b, i))
           = Step(SymDiff(old, ShiftRight(b, i - 1)))
<1> DEFINE new == SerialStep(old, bit)
           before == ShiftRight(b, i - 1)
           after == ShiftRight(b, i)
           sum == SymDiff(old, before)
           left == SymDiff(new, after)
           right == Step(sum)
<1>1. b \in Word /\ i \in Nat /\ i - 1 \in Nat
  BY WordOperators
<1>2. before \in Word /\ after \in Word
  BY <1>1, WordOperators
<1>3. /\ new \in Word
      /\ \A k \in 0 .. 31 :
           k \in new <=> ~(k + 1 \in old <=> ~(0 \in old <=> bit) /\ k \in Feedback)
  BY InSerialStep
<1>4. \A k \in 0 .. 31 : k \in after <=> k + i \in b
  BY <1>1, InShiftRight
<1>5. \A k \in 0 .. 31 : k + 1 \in before <=> k + i \in b
  <2> SUFFICES ASSUME NEW k \in 0 .. 31 PROVE k + 1 \in before <=> k + i \in b
    OBVIOUS
  <2>1. k + 1 \in before <=> k + 1 \in 0 .. 31 /\ (k + 1) + (i - 1) \in b
    BY <1>1, InShiftRight
  <2>2. (k + 1) + (i - 1) = k + i
    BY <1>1
  <2>3. k + i \in b => k + 1 \in 0 .. 31
    BY <1>1 DEF Byte
  <2> QED BY <2>1, <2>2, <2>3
<1>6. 0 \in before <=> bit
  <2>1. 0 \in before <=> 0 \in 0 .. 31 /\ 0 + (i - 1) \in b
    BY <1>1, InShiftRight
  <2> QED BY <2>1
<1>7. sum \in Word
  BY <1>2, WordOperators
<1>8. \A k : k \in sum <=> ~(k \in old <=> k \in before)
  BY InSymDiff, Zenon
<1> HIDE DEF new, before, after, sum
<1>9. left \in Word /\ right \in Word
  BY <1>2, <1>3, <1>7, WordOperators, StepsType
<1>10. ASSUME NEW k \in 0 .. 31 PROVE k \in left <=> k \in right
  <2>1. k \in left <=> ~(k \in new <=> k \in after)
    BY InSymDiff, Zenon
  <2>2. k \in right <=> ~(k + 1 \in sum <=> 0 \in sum /\ k \in Feedback)
    BY <1>7, InSerialStep DEF Step
  <2> HIDE DEF left, right
  <2> QED BY <1>3, <1>4, <1>5, <1>6, <1>8, <2>1, <2>2
<1> HIDE DEF left, right
<1>11. left = right
  BY <1>9, <1>10, SameBits
<1> QED BY <1>11 DEF left, right, new, before, after, sum

(* Eight serial steps with the bits of a byte are eight steps with bits    *)
(* that are 0, when the byte is added first.                               *)
LEMMA SerialByte ==
  ASSUME NEW b \in Byte, NEW s \in [0 .. 8 -> Word],
         \A i \in 1 .. 8 : s[i] = SerialStep(s[i - 1], i - 1 \in b)
  PROVE  s[8] = EightSteps(SymDiff(s[0], b))
<1> DEFINE X(i) == SymDiff(s[i], ShiftRight(b, i))
<1>1. ASSUME NEW i \in 1 .. 8 PROVE X(i) = Step(X(i - 1))
  <2>1. s[i - 1] \in Word /\ (i - 1 \in b) \in BOOLEAN
    OBVIOUS
  <2> QED BY <2>1, SerialByteStep
<1>2. X(0) = SymDiff(s[0], b)
  <2>1. ShiftRight(b, 0) = b
    <3>1. \A k \in 0 .. 31 : k \in ShiftRight(b, 0) <=> k + 0 \in b
      BY WordOperators, InShiftRight
    <3>2. ShiftRight(b, 0) \in Word /\ b \in Word
      BY WordOperators
    <3> QED BY <3>1, <3>2, SameBits
  <2> QED BY <2>1
<1>3. X(8) = s[8]
  <2>1. ShiftRight(b, 8) = {}
    BY DEF ShiftRight, Byte, CRC32_WIDTH
  <2> QED BY <2>1 DEF SymDiff
<1> HIDE DEF X
<1>4. /\ X(1) = Step(X(0)) /\ X(2) = Step(X(1)) /\ X(3) = Step(X(2))
      /\ X(4) = Step(X(3)) /\ X(5) = Step(X(4)) /\ X(6) = Step(X(5))
      /\ X(7) = Step(X(6)) /\ X(8) = Step(X(7))
  <2>1. /\ X(1) = Step(X(1 - 1)) /\ X(2) = Step(X(2 - 1)) /\ X(3) = Step(X(3 - 1))
        /\ X(4) = Step(X(4 - 1)) /\ X(5) = Step(X(5 - 1)) /\ X(6) = Step(X(6 - 1))
        /\ X(7) = Step(X(7 - 1)) /\ X(8) = Step(X(8 - 1))
    BY <1>1
  <2> QED BY <2>1
<1> QED BY <1>2, <1>3, <1>4 DEF EightSteps, FourSteps, TwoSteps

(* Bit i of a message, counted from 1.                                     *)
Bit(m, i) == (i - 1) % 8 \in m[(i - 1) \div 8 + 1]

(* f is the division of m, step by step.                                   *)
IsDivision(f, m) ==
  /\ f \in [0 .. 8 * Len(m) -> Word]
  /\ f[0] = CRC32_INITIAL_REMAINDER
  /\ \A i \in 1 .. 8 * Len(m) : f[i] = SerialStep(f[i - 1], Bit(m, i))

(* The division of the reference exists, for messages of every length.     *)
LEMMA BitSerialDivides ==
  ASSUME NEW m \in Seq(Byte)
  PROVE  \E f : IsDivision(f, m) /\ BitSerial(m) = f[8 * Len(m)]
<1> DEFINE n == 8 * Len(m)
           base == CRC32_INITIAL_REMAINDER
           F(g) == [i \in 0 .. n |-> IF i = 0 THEN base
                                     ELSE SerialStep(g[i - 1], Bit(m, i))]
           division == CHOOSE g : g = F(g)
<1>1. n \in Nat /\ base \in Word
  BY DEF CRC32_INITIAL_REMAINDER, Word
<1>2. BitSerial(m) = division[n]
  BY DEF BitSerial, Bit
<1> HIDE DEF n, base
<1>3. \A i : Bit(m, i) \in BOOLEAN
  BY DEF Bit
<1>4. \A x \in Word : \A i : SerialStep(x, Bit(m, i)) \in Word
  BY <1>3, InSerialStep
<1>5. PICK h \in [1 .. n -> [Word -> Word]] :
        \A i \in 1 .. n, x \in Word : h[i][x] = SerialStep(x, Bit(m, i))
  <2> DEFINE h == [i \in 1 .. n |-> [x \in Word |-> SerialStep(x, Bit(m, i))]]
  <2>1. h \in [1 .. n -> [Word -> Word]]
    BY <1>4
  <2>2. \A i \in 1 .. n, x \in Word : h[i][x] = SerialStep(x, Bit(m, i))
    OBVIOUS
  <2> HIDE DEF h
  <2> QED BY <2>1, <2>2
<1>6. PICK f : IsLoop(f, n, Word, base, h)
  BY <1>1, Recursion
<1>7. /\ f \in [0 .. n -> Word] /\ f[0] = base
      /\ \A i \in 1 .. n : f[i] = SerialStep(f[i - 1], Bit(m, i))
  BY <1>1, <1>5, <1>6 DEF IsLoop
<1>8. f = F(f)
  BY <1>1, <1>7
<1>9. division = F(division)
  BY <1>8
<1> HIDE DEF division
<1>10. /\ division[0] = base /\ DOMAIN division = 0 .. n
       /\ division = [i \in 0 .. n |-> division[i]]
  BY <1>1, <1>9
<1>11. ASSUME NEW i \in 1 .. n
       PROVE  /\ division[i] = SerialStep(division[i - 1], Bit(m, i))
              /\ division[i - 1] \in Word => division[i] \in Word
  <2>1. i \in 0 .. n /\ i # 0
    BY <1>1
  <2>2. F(division)[i] = SerialStep(division[i - 1], Bit(m, i))
    BY <2>1
  <2> HIDE DEF F
  <2> QED BY <1>4, <1>9, <2>2
<1>12. \A i \in 0 .. n : division[i] \in Word
  <2> DEFINE T == {i \in 0 .. n : division[i] \in Word}
  <2>1. 0 \in T
    BY <1>1, <1>10
  <2>2. \A i \in 1 .. n : i - 1 \in T => i \in T
    BY <1>1, <1>11
  <2> HIDE DEF T
  <2>3. \A i \in 0 .. n : i \in T
    BY <1>1, <2>1, <2>2, UpTo
  <2> QED BY <2>3 DEF T
<1>13. IsDivision(division, m)
  <2>1. division \in [0 .. n -> Word]
    BY <1>10, <1>12
  <2> QED BY <1>10, <1>11, <2>1 DEF IsDivision, n, base
<1> QED BY <1>2, <1>13 DEF n

(* One more byte in the reference.                                         *)
LEMMA BitSerialAppend ==
  ASSUME NEW m \in Seq(Byte), NEW b \in Byte
  PROVE  /\ BitSerial(m) \in Word
         /\ BitSerial(Append(m, b)) = EightSteps(SymDiff(BitSerial(m), b))
<1> DEFINE n == 8 * Len(m)
           a == Append(m, b)
<1>1. /\ a \in Seq(Byte) /\ Len(a) = Len(m) + 1 /\ 8 * Len(a) = n + 8
      /\ a[Len(m) + 1] = b /\ \A i \in 1 .. Len(m) : a[i] = m[i]
      /\ n \in Nat
  OBVIOUS
<1> HIDE DEF a
<1>2. PICK f : IsDivision(f, m) /\ BitSerial(m) = f[n]
  BY BitSerialDivides
<1>3. PICK g : IsDivision(g, a) /\ BitSerial(a) = g[8 * Len(a)]
  BY <1>1, BitSerialDivides
<1>4. \A i \in 0 .. n : f[i] = g[i]
  <2> DEFINE T == {i \in 0 .. n : f[i] = g[i]}
  <2>1. 0 \in T
    BY <1>1, <1>2, <1>3 DEF IsDivision
  <2>2. ASSUME NEW i \in 1 .. n, i - 1 \in T PROVE i \in T
    <3>1. (i - 1) \div 8 + 1 \in 1 .. Len(m)
      OBVIOUS
    <3>2. Bit(m, i) = Bit(a, i)
      BY <1>1, <3>1 DEF Bit
    <3>3. f[i] = SerialStep(f[i - 1], Bit(m, i))
      BY <1>2 DEF IsDivision
    <3>4. g[i] = SerialStep(g[i - 1], Bit(a, i))
      BY <1>1, <1>3 DEF IsDivision
    <3> QED BY <2>2, <3>2, <3>3, <3>4
  <2> HIDE DEF T
  <2>3. \A i \in 0 .. n : i \in T
    BY <1>1, <2>1, <2>2, UpTo
  <2> QED BY <2>3 DEF T
<1> DEFINE s == [j \in 0 .. 8 |-> g[n + j]]
<1>5. s \in [0 .. 8 -> Word]
  BY <1>1, <1>3 DEF IsDivision
<1>6. ASSUME NEW j \in 1 .. 8 PROVE s[j] = SerialStep(s[j - 1], j - 1 \in b)
  <2>1. n + j \in 1 .. 8 * Len(a)
    BY <1>1
  <2>2. g[n + j] = SerialStep(g[n + j - 1], Bit(a, n + j))
    BY <1>3, <2>1 DEF IsDivision
  <2>3. (n + j - 1) % 8 = j - 1 /\ (n + j - 1) \div 8 = Len(m)
    OBVIOUS
  <2>4. Bit(a, n + j) = (j - 1 \in b)
    BY <1>1, <2>3 DEF Bit
  <2>5. s[j] = g[n + j] /\ s[j - 1] = g[n + (j - 1)] /\ n + (j - 1) = n + j - 1
    BY <1>1
  <2> HIDE DEF s, n
  <2> QED BY <2>2, <2>4, <2>5
<1>7. s[0] = g[n] /\ s[8] = g[n + 8]
  BY <1>1
<1> HIDE DEF s
<1>8. s[8] = EightSteps(SymDiff(s[0], b))
  BY <1>5, <1>6, SerialByte
<1>9. f[n] \in Word /\ g[n] = f[n]
  BY <1>1, <1>2, <1>4 DEF IsDivision
<1> QED BY <1>1, <1>2, <1>3, <1>7, <1>8, <1>9 DEF a

-----------------------------------------------------------------------------
(* The bits of a difference between two remainders.                        *)

(* While the division goes on, a difference moves down by one place in a   *)
(* step, or is at the top again.                                           *)
LEMMA HighBitStaysHigh ==
  ASSUME NEW x \in Word, NEW t \in Int, \E k \in x : k >= t
  PROVE  \E k \in Step(x) : k >= t - 1
<1>1. PICK k \in x : k >= t
  OBVIOUS
<1>2. x \subseteq 0 .. 31 /\ k \in 0 .. 31
  BY DEF Word, CRC32_WIDTH
<1>3. \A i \in 0 .. 31 :
        i \in Step(x) <=> ~(i + 1 \in x <=> 0 \in x /\ i \in Feedback)
  BY InSerialStep DEF Step
<1>4. CASE 0 \in x
  <2>1. 31 + 1 \notin x
    BY <1>2
  <2>2. 31 \in Step(x)
    BY <1>3, <1>4, <2>1, FeedbackTop
  <2> QED BY <1>1, <1>2, <2>2
<1>5. CASE 0 \notin x
  <2>1. k - 1 \in 0 .. 31 /\ (k - 1) + 1 = k
    BY <1>2, <1>5
  <2>2. k - 1 \in Step(x)
    BY <1>3, <1>5, <2>1
  <2> QED BY <1>1, <1>2, <2>2
<1> QED BY <1>4, <1>5

(* The same over the eight steps of a byte.                                *)
LEMMA HighBitAfterByte ==
  ASSUME NEW x \in Word, NEW t \in Int, \E k \in x : k >= t
  PROVE  \E k \in EightSteps(x) : k >= t - 8
<1>1. ASSUME NEW w \in Word, NEW u \in Int, \E k \in w : k >= u
      PROVE  TwoSteps(w) \in Word /\ \E k \in TwoSteps(w) : k >= u - 2
  <2>1. Step(w) \in Word /\ TwoSteps(w) \in Word
    BY StepsType
  <2>2. \E k \in Step(w) : k >= u - 1
    BY <1>1, HighBitStaysHigh
  <2>3. \E k \in Step(Step(w)) : k >= (u - 1) - 1
    BY <2>1, <2>2, HighBitStaysHigh
  <2>4. (u - 1) - 1 = u - 2
    OBVIOUS
  <2> QED BY <2>1, <2>3, <2>4 DEF TwoSteps
<1>2. ASSUME NEW w \in Word, NEW u \in Int, \E k \in w : k >= u
      PROVE  FourSteps(w) \in Word /\ \E k \in FourSteps(w) : k >= u - 4
  <2>1. TwoSteps(w) \in Word /\ \E k \in TwoSteps(w) : k >= u - 2
    BY <1>1, <1>2
  <2>2. \E k \in TwoSteps(TwoSteps(w)) : k >= (u - 2) - 2
    BY <1>1, <2>1
  <2>3. (u - 2) - 2 = u - 4
    OBVIOUS
  <2> QED BY <2>2, <2>3, StepsType DEF FourSteps
<1>3. FourSteps(x) \in Word /\ \E k \in FourSteps(x) : k >= t - 4
  BY <1>2
<1>4. \E k \in FourSteps(FourSteps(x)) : k >= (t - 4) - 4
  BY <1>2, <1>3
<1>5. (t - 4) - 4 = t - 8
  OBVIOUS
<1> QED BY <1>4, <1>5 DEF EightSteps

(* The lowest bit of x is d places away from the end, or left the register *)
(* -d steps ago and a bit above it is still there.                         *)
LowestAt(d, x) ==
  IF d >= 0 THEN d \in x /\ \A k \in x : k >= d
  ELSE \E k \in x : k >= 32 + d

(* A step takes the lowest bit one place on.                               *)
LEMMA LowestMoves ==
  ASSUME NEW x \in Word, NEW d \in -31 .. 31, LowestAt(d, x)
  PROVE  LowestAt(d - 1, Step(x))
<1>1. x \subseteq 0 .. 31
  BY DEF Word, CRC32_WIDTH
<1>2. Step(x) \in Word
  BY StepsType
<1>3. \A i \in 0 .. 31 :
        i \in Step(x) <=> ~(i + 1 \in x <=> 0 \in x /\ i \in Feedback)
  BY InSerialStep DEF Step
<1>4. CASE d > 0
  <2>1. d \in x /\ \A k \in x : k >= d
    BY <1>4 DEF LowestAt
  <2>2. 0 \notin x
    BY <1>4, <2>1
  <2>3. d - 1 \in 0 .. 31 /\ (d - 1) + 1 = d
    BY <1>4
  <2>4. d - 1 \in Step(x)
    BY <1>3, <2>1, <2>2, <2>3
  <2>5. ASSUME NEW k \in Step(x) PROVE k >= d - 1
    <3>1. k \in 0 .. 31
      BY <1>2 DEF Word, CRC32_WIDTH
    <3>2. k + 1 \in x
      BY <1>3, <2>2, <3>1
    <3> QED BY <2>1, <3>1, <3>2
  <2> QED BY <1>4, <2>4, <2>5 DEF LowestAt
<1>5. CASE d = 0
  <2>1. 0 \in x
    BY <1>5 DEF LowestAt
  <2>2. 31 + 1 \notin x
    BY <1>1
  <2>3. 31 \in Step(x)
    BY <1>3, <2>1, <2>2, FeedbackTop
  <2> QED BY <1>5, <2>3 DEF LowestAt
<1>6. CASE d < 0
  <2>1. \E k \in x : k >= 32 + d
    BY <1>6 DEF LowestAt
  <2>2. 32 + d \in Int
    OBVIOUS
  <2>3. \E k \in Step(x) : k >= (32 + d) - 1
    BY <2>1, <2>2, HighBitStaysHigh
  <2>4. (32 + d) - 1 = 32 + (d - 1) /\ ~(d - 1 >= 0)
    BY <1>6
  <2> QED BY <2>3, <2>4 DEF LowestAt
<1> QED BY <1>4, <1>5, <1>6

(* What the first damaged byte leaves in the register: a bit as high as    *)
(* the first damaged bit requires.                                         *)
LEMMA FirstDamage ==
  ASSUME NEW e \in Byte, NEW low \in e, \A k \in e : k >= low
  PROVE  \E k \in EightSteps(e) : k >= 24 + low
<1>1. low \in 0 .. 7
  BY DEF Byte
<1>2. e \in Word /\ LowestAt(low, e)
  <2>1. e \in Word
    BY WordOperators
  <2>2. LowestAt(low, e)
    BY <1>1 DEF LowestAt
  <2> QED BY <2>1, <2>2
<1>3. ASSUME NEW w \in Word, NEW d \in -20 .. 20, LowestAt(d, w)
      PROVE  TwoSteps(w) \in Word /\ LowestAt(d - 2, TwoSteps(w))
  <2>1. Step(w) \in Word /\ TwoSteps(w) \in Word
    BY StepsType
  <2>2. LowestAt(d - 1, Step(w))
    BY <1>3, LowestMoves
  <2>3. LowestAt((d - 1) - 1, Step(Step(w)))
    BY <2>1, <2>2, LowestMoves
  <2>4. (d - 1) - 1 = d - 2
    OBVIOUS
  <2> QED BY <2>1, <2>3, <2>4 DEF TwoSteps
<1>4. ASSUME NEW w \in Word, NEW d \in -10 .. 10, LowestAt(d, w)
      PROVE  FourSteps(w) \in Word /\ LowestAt(d - 4, FourSteps(w))
  <2>1. TwoSteps(w) \in Word /\ LowestAt(d - 2, TwoSteps(w))
    BY <1>3, <1>4
  <2>2. LowestAt((d - 2) - 2, TwoSteps(TwoSteps(w)))
    BY <1>3, <2>1
  <2>3. (d - 2) - 2 = d - 4
    OBVIOUS
  <2> QED BY <2>2, <2>3, StepsType DEF FourSteps
<1>5. FourSteps(e) \in Word /\ LowestAt(low - 4, FourSteps(e))
  BY <1>1, <1>2, <1>4
<1>6. LowestAt((low - 4) - 4, FourSteps(FourSteps(e)))
  BY <1>1, <1>4, <1>5
<1>7. (low - 4) - 4 = low - 8 /\ ~(low - 8 >= 0) /\ 32 + (low - 8) = 24 + low
  BY <1>1
<1> QED BY <1>6, <1>7 DEF EightSteps, LowestAt

-----------------------------------------------------------------------------
(* The invariant.                                                          *)

(* The difference of the two remainders.                                   *)
Difference == SymDiff(damaged, mRemainder)

(* The first damaged bit is low, and the damage ends less than 32 bits     *)
(* behind it.                                                              *)
BurstFrom(low) ==
  /\ low \in error
  /\ \A k \in error : low <= k /\ k - low < 32

TypeInv ==
  /\ message \in Seq(Byte)
  /\ mRemainder \in Word
  /\ damaged \in Word
  /\ error \subseteq 0 .. 8 * Len(message) - 1

(* Undamaged messages have one remainder; after a burst the remainders     *)
(* differ in a bit so high that the bits of the message that are less than *)
(* 32 behind the first damaged one cannot make up for it.                  *)
DifferenceInv ==
  /\ error = {} => Difference = {}
  /\ \A low \in error :
       BurstFrom(low) =>
         \E k \in Difference : k + 8 * Len(message) - low >= 32

CRCInv == TypeInv /\ ConformsToStandard /\ DifferenceInv

(* The reference of no bytes, and the invariant at the start.              *)
LEMMA EmptyMessage == BitSerial(<<>>) = CRC32_INITIAL_REMAINDER
<1>1. <<>> \in Seq(Byte) /\ Len(<<>>) = 0
  OBVIOUS
<1>2. PICK f : IsDivision(f, <<>>) /\ BitSerial(<<>>) = f[8 * Len(<<>>)]
  BY <1>1, BitSerialDivides
<1>3. 8 * Len(<<>>) = 0
  BY <1>1
<1> QED BY <1>2, <1>3 DEF IsDivision

LEMMA NothingAdded ==
  ASSUME mRemainder = CRC32_INITIAL_REMAINDER,
         damaged = CRC32_INITIAL_REMAINDER, message = <<>>, error = {}
  PROVE  CRCInv
<1>1. TypeInv
  BY DEF TypeInv, Word, CRC32_INITIAL_REMAINDER
<1>2. Difference = {}
  BY DEF Difference, SymDiff
<1> QED BY <1>1, <1>2, EmptyMessage DEF CRCInv, DifferenceInv, ConformsToStandard

(* The remainders after one more byte, and their difference.               *)
LEMMA AddedByte ==
  ASSUME NEW r \in Word, NEW d \in Word, NEW b \in Byte, NEW e \in Byte
  PROVE  /\ AddByte(r, b) \in Word
         /\ AddByte(d, SymDiff(b, e)) \in Word
         /\ SymDiff(d, r) \in Word
         /\ SymDiff(AddByte(d, SymDiff(b, e)), AddByte(r, b))
              = EightSteps(SymDiff(SymDiff(d, r), e))
<1>1. SymDiff(b, e) \in Byte /\ b \in Word /\ e \in Word
  BY WordOperators DEF SymDiff, Byte
<1>2. /\ SymDiff(r, b) \in Word /\ SymDiff(d, r) \in Word
      /\ SymDiff(d, SymDiff(b, e)) \in Word
  BY <1>1, WordOperators
<1>3. /\ AddByte(r, b) = EightSteps(SymDiff(r, b))
      /\ AddByte(d, SymDiff(b, e)) = EightSteps(SymDiff(d, SymDiff(b, e)))
  BY <1>1, AddByteIsSerial
<1>4. SymDiff(SymDiff(d, SymDiff(b, e)), SymDiff(r, b)) = SymDiff(SymDiff(d, r), e)
  BY DEF SymDiff
<1> QED BY <1>2, <1>3, <1>4, StepsType, StepsLinear

(* A byte keeps what is said of the difference: damage within 32 bits      *)
(* cannot cancel a bit that is higher than its last bit reaches.           *)
LEMMA AddKeepsDifference ==
  ASSUME TypeInv, DifferenceInv, TypeInv',
         NEW b \in Byte, NEW e \in Byte, Add(b, e)
  PROVE  DifferenceInv'
<1> DEFINE n == 8 * Len(message)
           w == SymDiff(Difference, e)
<1>1. /\ Difference \in Word /\ w \in Word /\ e \in Word
      /\ Difference' = EightSteps(w)
  BY AddedByte, WordOperators DEF TypeInv, Difference, Add
<1>2. n \in Nat /\ 8 * Len(message)' = n + 8
  BY DEF Add, TypeInv
<1>3. error' = error \cup {n + k : k \in e}
  BY DEF Add
<1>4. Difference \subseteq 0 .. 31 /\ e \subseteq 0 .. 7 /\ error \subseteq 0 .. n - 1
  BY <1>1 DEF Word, CRC32_WIDTH, Byte, TypeInv
<1>5. ASSUME error' = {} PROVE Difference' = {}
  <2>1. error = {} /\ e = {}
    BY <1>3, <1>5
  <2>2. Difference = {}
    BY <2>1 DEF DifferenceInv
  <2>3. w = {} /\ w \cap 0 .. 7 = {}
    BY <2>1, <2>2 DEF SymDiff
  <2>4. EightSteps(w) = ShiftRight(w, 8)
    BY <1>1, <2>3, StepsShift
  <2> QED BY <1>1, <2>3, <2>4 DEF ShiftRight
<1>6. ASSUME NEW low \in error', BurstFrom(low)'
      PROVE  \E k \in Difference' : k + (n + 8) - low >= 32
  <2>1. \A k \in error' : low <= k /\ k - low < 32
    BY <1>6 DEF BurstFrom
  <2>2. CASE error = {}
    <3>1. Difference = {}
      BY <2>2 DEF DifferenceInv
    <3>2. w = e
      BY <3>1 DEF SymDiff
    <3>3. PICK first \in e : low = n + first
      BY <1>3, <2>2
    <3>4. ASSUME NEW k \in e PROVE k >= first
      <4>1. n + k \in error'
        BY <1>3
      <4> QED BY <1>2, <1>4, <2>1, <3>3, <4>1
    <3>5. \E k \in EightSteps(e) : k >= 24 + first
      BY <3>4, FirstDamage
    <3>6. PICK k \in Difference' : k >= 24 + first
      BY <1>1, <3>2, <3>5
    <3>7. k \in 0 .. 31
      BY <1>1, StepsType DEF Word, CRC32_WIDTH
    <3> QED BY <1>2, <1>4, <3>3, <3>6, <3>7
  <2>3. CASE error # {}
    <3>1. low \in error
      <4>1. PICK k \in error : k \in 0 .. n - 1
        BY <1>4, <2>3
      <4>2. low <= k
        BY <1>3, <2>1
      <4>3. \A i \in e : n + i >= n
        BY <1>2, <1>4
      <4> QED BY <1>2, <1>3, <1>4, <4>1, <4>2, <4>3
    <3>2. BurstFrom(low)
      BY <1>3, <2>1, <3>1 DEF BurstFrom
    <3>3. PICK k \in Difference : k + n - low >= 32
      BY <3>1, <3>2 DEF DifferenceInv
    <3>4. k \notin e
      <4> SUFFICES ASSUME k \in e PROVE FALSE
        OBVIOUS
      <4>1. n + k \in error'
        BY <1>3
      <4>2. (n + k) - low < 32
        BY <2>1, <4>1
      <4> QED BY <1>2, <1>4, <3>1, <3>3, <4>2
    <3>5. k \in w /\ k \in Int
      BY <1>4, <3>4 DEF SymDiff
    <3>6. \E i \in EightSteps(w) : i >= k - 8
      BY <1>1, <3>5, HighBitAfterByte
    <3>7. PICK i \in Difference' : i >= k - 8
      BY <1>1, <3>6
    <3>8. i \in 0 .. 31
      BY <1>1, StepsType DEF Word, CRC32_WIDTH
    <3> QED BY <1>2, <1>4, <3>1, <3>3, <3>5, <3>7, <3>8
  <2> QED BY <2>2, <2>3
<1> HIDE DEF n
<1> QED BY <1>2, <1>5, <1>6 DEF DifferenceInv

(* add() and clear() keep the invariant.                                   *)
LEMMA AddKeepsInv ==
  ASSUME CRCInv, NEW b \in Byte, NEW e \in Byte, Add(b, e)
  PROVE  CRCInv'
<1>1. TypeInv /\ ConformsToStandard /\ DifferenceInv
  BY DEF CRCInv
<1>2. mRemainder' \in Word /\ damaged' \in Word
  BY <1>1, AddedByte DEF TypeInv, Add
<1>3. message' \in Seq(Byte) /\ Len(message') = Len(message) + 1 /\ Len(message) \in Nat
  BY <1>1 DEF TypeInv, Add
<1>4. error' \subseteq 0 .. 8 * Len(message') - 1
  <2>1. error' = error \cup {8 * Len(message) + k : k \in e} /\ e \subseteq 0 .. 7
    BY DEF Add, Byte
  <2>2. error \subseteq 0 .. 8 * Len(message) - 1
    BY <1>1 DEF TypeInv
  <2> QED BY <1>3, <2>1, <2>2
<1>5. TypeInv'
  BY <1>2, <1>3, <1>4 DEF TypeInv
<1>6. ConformsToStandard'
  <2>1. mRemainder' = EightSteps(SymDiff(mRemainder, b))
    BY <1>1, AddByteIsSerial DEF Add, TypeInv
  <2>2. message' = Append(message, b) /\ message \in Seq(Byte)
    BY <1>1 DEF Add, TypeInv
  <2>3. BitSerial(Append(message, b)) = EightSteps(SymDiff(BitSerial(message), b))
    BY <2>2, BitSerialAppend
  <2>4. mRemainder = BitSerial(message)
    BY <1>1 DEF ConformsToStandard
  <2>5. mRemainder' = BitSerial(Append(message, b))
    BY <2>1, <2>3, <2>4
  <2> QED BY <2>2, <2>5 DEF ConformsToStandard
<1>7. DifferenceInv'
  BY <1>1, <1>5, AddKeepsDifference
<1> QED BY <1>5, <1>6, <1>7 DEF CRCInv

LEMMA InitInv == Init => CRCInv
  BY NothingAdded DEF Init

LEMMA InvStep == CRCInv /\ [Next]_vars => CRCInv'
<1> SUFFICES ASSUME CRCInv, [Next]_vars PROVE CRCInv'
  OBVIOUS
<1>1. CASE \E b \in Bytes, e \in Errors : Add(b, e)
  BY <1>1, AddKeepsInv, CRC32Assumption
<1>2. CASE Clear
  <2>1. /\ mRemainder' = CRC32_INITIAL_REMAINDER
        /\ damaged' = CRC32_INITIAL_REMAINDER
        /\ message' = <<>>
        /\ error' = {}
    BY <1>2 DEF Clear
  <2>2. TypeInv'
    BY <2>1 DEF TypeInv, Word, CRC32_INITIAL_REMAINDER
  <2>3. Difference' = {}
    BY <2>1 DEF Difference, SymDiff
  <2>4. ConformsToStandard'
    BY <2>1, EmptyMessage DEF ConformsToStandard
  <2>5. DifferenceInv'
    BY <2>1, <2>3 DEF DifferenceInv
  <2> QED BY <2>2, <2>4, <2>5 DEF CRCInv
<1>3. CASE UNCHANGED vars
  BY <1>3 DEF vars, CRCInv, TypeInv, ConformsToStandard, DifferenceInv,
              Difference, BurstFrom
<1> QED BY <1>1, <1>2, <1>3 DEF Next

LEMMA InvHolds == Spec => []CRCInv
  BY InitInv, InvStep, PTL DEF Spec

-----------------------------------------------------------------------------
(* What follows.                                                           *)

(* For every message the table-driven sum is the one the standard defines. *)
THEOREM SumIsStandard == Spec => []ConformsToStandard
<1>1. CRCInv => ConformsToStandard
  BY DEF CRCInv
<1> QED BY <1>1, InvHolds, PTL

(* The least and the greatest of the damaged bits.                         *)
LEMMA MinMax ==
  ASSUME NEW n \in Nat, NEW S \in SUBSET (0 .. n), S # {}
  PROVE  /\ Min(S) \in S /\ Max(S) \in S
         /\ \A k \in S : Min(S) <= k /\ k <= Max(S)
<1>1. \E m \in S : \A k \in S : m <= k
  BY LeastElement
<1>2. Min(S) \in S /\ \A k \in S : Min(S) <= k
  BY <1>1 DEF Min
<1>3. \E m \in S : \A k \in S : m >= k
  <2> DEFINE R == {n - k : k \in S}
  <2>1. R \in SUBSET Nat /\ R # {}
    <3>1. PICK k \in S : TRUE
      OBVIOUS
    <3>2. n - k \in R
      BY <3>1
    <3>3. \A i \in S : n - i \in Nat
      OBVIOUS
    <3> QED BY <3>2, <3>3
  <2>2. PICK m \in R : \A k \in R : m <= k
    BY <2>1, LeastElement
  <2>3. PICK i \in S : m = n - i
    OBVIOUS
  <2>4. ASSUME NEW k \in S PROVE i >= k
    <3>1. n - i <= n - k
      BY <2>2, <2>3
    <3> QED BY <3>1
  <2> QED BY <2>4
<1>4. Max(S) \in S /\ \A k \in S : Max(S) >= k
  BY <1>3 DEF Max
<1> QED BY <1>2, <1>4

(* Damage within 32 successive bits changes the sum, in messages of every  *)
(* length.                                                                 *)
THEOREM EveryBurstIsDetected == Spec => []BurstsDetected
<1>1. CRCInv => BurstsDetected
  <2> SUFFICES ASSUME CRCInv, error # {}, Max(error) - Min(error) < CRC32_WIDTH
               PROVE  Get(damaged) # Get(mRemainder)
    BY DEF BurstsDetected
  <2> DEFINE n == 8 * Len(message)
             low == Min(error)
  <2>1. /\ n \in Nat /\ error \subseteq 0 .. n - 1 /\ error \subseteq 0 .. n
        /\ damaged \in Word /\ mRemainder \in Word
    BY DEF CRCInv, TypeInv
  <2>2. /\ Min(error) \in error /\ Max(error) \in error
        /\ \A k \in error : Min(error) <= k /\ k <= Max(error)
    BY <2>1, MinMax
  <2>3. \A k \in error : low <= k /\ k - low < 32
    <3> SUFFICES ASSUME NEW k \in error PROVE low <= k /\ k - low < 32
      OBVIOUS
    <3>1. low <= k /\ k <= Max(error)
      BY <2>2
    <3>2. Max(error) - low < 32
      BY DEF CRC32_WIDTH
    <3>3. error \subseteq Int
      <4> HIDE DEF n
      <4> QED BY <2>1
    <3>4. low \in Int /\ k \in Int /\ Max(error) \in Int
      BY <2>2, <3>3
    <3> HIDE DEF low
    <3> QED BY <3>1, <3>2, <3>4
  <2>4. BurstFrom(low)
    BY <2>2, <2>3 DEF BurstFrom
  <2>5. Difference # {}
    BY <2>2, <2>4 DEF CRCInv, DifferenceInv
  <2>6. PICK k : k \in Difference
    BY <2>5
  <2>7. ~(k \in damaged <=> k \in mRemainder)
    BY <2>6, InSymDiff, Zenon DEF Difference
  <2>8. ~(k \in Get(damaged) <=> k \in Get(mRemainder))
    BY <2>7, InSymDiff, Zenon DEF Get
  <2> QED BY <2>8
<1> QED BY <1>1, InvHolds, PTL
=============================================================================
