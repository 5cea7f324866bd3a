-------------------------- MODULE AveragingProofs ---------------------------
(***************************************************************************)
(* Theorems about Averaging: the frame the relay sends is consistent, has  *)
(* a point for every group, and holds the means of the groups, which lie   *)
(* among the distances heard; and the two menu entries draw one graph.     *)
(***************************************************************************)
EXTENDS Averaging, FiniteSetTheorems, WellFoundedInduction, TLAPS

-----------------------------------------------------------------------------
(* Recursion over an index, as in CRC32Proofs.                             *)

(* A set of natural numbers that is not empty has a least element.         *)
LEMMA LeastElement ==
  ASSUME NEW S \in SUBSET Nat, S # {}
  PROVE  \E m \in S : \A n \in S : m <= n
<1>1. PICK m \in S : \A n \in S : <<n, m>> \notin OpToRel(<, Nat)
  BY NatLessThanWellFounded, WFMin, Zenon
<1>2. \A n \in Nat : <<n, m>> \in OpToRel(<, Nat) <=>
                    <<n, m>> \in Nat \X Nat /\ <<n, m>>[1] < <<n, m>>[2]
  BY Zenon DEF OpToRel
<1>3. \A n \in S : ~ (n < m)
  BY <1>1, <1>2, Zenon
<1> QED BY <1>3

(* A set that has 0, and with every number below n the next one, has all.  *)
LEMMA UpTo ==
  ASSUME NEW n \in Nat, NEW S, 0 \in S,
         \A i \in 1 .. n : i - 1 \in S => i \in S
  PROVE  \A i \in 0 .. n : i \in S
<1> SUFFICES ASSUME NEW k \in 0 .. n, k \notin S PROVE FALSE
  OBVIOUS
<1> DEFINE Bad == {i \in 0 .. n : i \notin S}
<1>1. Bad \in SUBSET Nat /\ Bad # {}
  OBVIOUS
<1>2. PICK m \in Bad : \A i \in Bad : m <= i
  BY <1>1, LeastElement
<1>3. m \in 0 .. n /\ m \notin S /\ m # 0
  BY <1>2
<1>4. m - 1 \in 0 .. n /\ m - 1 \notin Bad
  BY <1>2, <1>3
<1>5. m - 1 \in S
  BY <1>4
<1> QED BY <1>3, <1>5

(* The values of a loop: base before the first of its n turns, and after    *)
(* turn i what h[i] makes of the value before.                             *)
IsLoop(f, n, S, base, h) ==
  /\ f \in [0 .. n -> S]
  /\ f[0] = base
  /\ \A i \in 1 .. n : f[i] = h[i][f[i - 1]]

(* A recursive function exists: h gives each value from the index and from *)
(* the value before.                                                       *)
LEMMA Recursion ==
  ASSUME NEW n \in Nat, NEW S, NEW base \in S, NEW h \in [1 .. n -> [S -> S]]
  PROVE  \E f : IsLoop(f, n, S, base, h)
<1> DEFINE Up(k, f) == f[0] = base /\ \A i \in 1 .. k : f[i] = h[i][f[i - 1]]
           Good == {k \in 0 .. n : \E f \in [0 .. k -> S] : Up(k, f)}
<1>1. 0 \in Good
  <2> DEFINE f == [i \in 0 .. 0 |-> base]
  <2>1. f \in [0 .. 0 -> S] /\ Up(0, f)
    OBVIOUS
  <2> HIDE DEF f, Up
  <2>2. 0 \in 0 .. n
    OBVIOUS
  <2> QED BY <2>1, <2>2
<1>2. ASSUME NEW k \in 1 .. n, k - 1 \in Good PROVE k \in Good
  <2>1. PICK f \in [0 .. k - 1 -> S] : Up(k - 1, f)
    BY <1>2
  <2> DEFINE last == h[k][f[k - 1]]
             g == [i \in 0 .. k |-> IF i = k THEN last ELSE f[i]]
  <2>2. last \in S
    <3>1. f[k - 1] \in S
      BY <2>1
    <3> QED BY <3>1
  <2>3. g[k - 1] = f[k - 1] /\ g[k] = last
    OBVIOUS
  <2> HIDE DEF last
  <2>4. g \in [0 .. k -> S]
    BY <2>2
  <2>5. g[0] = base
    BY <2>1
  <2>6. \A i \in 1 .. k - 1 : g[i] = h[i][g[i - 1]]
    BY <2>1
  <2> HIDE DEF g
  <2>7. \A i \in 1 .. k : g[i] = h[i][g[i - 1]]
    BY <2>3, <2>6 DEF last
  <2>8. Up(k, g)
    BY <2>5, <2>7
  <2> HIDE DEF Up
  <2> QED BY <2>4, <2>8
<1> HIDE DEF Good
<1>3. \A i \in 0 .. n : i \in Good
  BY <1>1, <1>2, UpTo
<1>4. PICK f \in [0 .. n -> S] : Up(n, f)
  BY <1>3 DEF Good
<1> QED BY <1>4 DEF IsLoop

-----------------------------------------------------------------------------
(* Sums and quotients.                                                     *)

(* The quotient rounded toward zero lies between the bounds of the mean.   *)
LEMMA Division ==
  ASSUME NEW p \in Nat, NEW k \in Nat \ {0}
  PROVE  /\ p \div k \in Nat
         /\ k * (p \div k) <= p
         /\ p < k * (p \div k) + k
  OBVIOUS

LEMMA DivisionIsUnique ==
  ASSUME NEW p \in Nat, NEW k \in Nat \ {0}, NEW g \in Nat,
         k * g <= p, p < k * g + k
  PROVE  p \div k = g
  BY Division

LEMMA QuotientBetween ==
  ASSUME NEW a \in Int, NEW n \in Nat \ {0}, NEW low \in Int, NEW high \in Int,
         n * low <= a, a <= n * high
  PROVE  /\ Quotient(a, n) \in Int
         /\ low <= Quotient(a, n)
         /\ Quotient(a, n) <= high
<1>1. CASE a >= 0
  BY <1>1, Division DEF Quotient
<1>2. CASE a < 0
  <2> DEFINE q == (-a) \div n
  <2>1. Quotient(a, n) = -q
    BY <1>2 DEF Quotient
  <2>2. q \in Nat /\ n * q <= -a /\ -a < n * q + n
    BY <1>2, Division
  <2> HIDE DEF q
  <2> QED BY <2>1, <2>2
<1> QED BY <1>1, <1>2

LEMMA QuotientType ==
  ASSUME NEW a \in Int, NEW n \in Nat \ {0}
  PROVE  Quotient(a, n) \in Int
  BY Division DEF Quotient

(* The sums that Total computes on its way.                                *)
IsSum(s, f, n) ==
  /\ s \in [0 .. n -> Int]
  /\ s[0] = 0
  /\ \A i \in 1 .. n : s[i] = s[i - 1] + f[i - 1]

Integers(f, n) == \A i \in 0 .. n - 1 : f[i] \in Int

LEMMA TotalIsSum ==
  ASSUME NEW n \in Nat, NEW f, Integers(f, n)
  PROVE  \E s : IsSum(s, f, n) /\ Total(f, n) = s[n]
<1> DEFINE F(g) == [i \in 0 .. n |-> IF i = 0 THEN 0 ELSE g[i - 1] + f[i - 1]]
           sum == CHOOSE g : g = F(g)
           turns == [i \in 1 .. n |-> [v \in Int |-> v + f[i - 1]]]
<1>1. \A i \in 1 .. n : f[i - 1] \in Int
  BY DEF Integers
<1>2. PICK h \in [1 .. n -> [Int -> Int]] :
        \A i \in 1 .. n : \A v \in Int : h[i][v] = v + f[i - 1]
  <2>1. turns \in [1 .. n -> [Int -> Int]]
    BY <1>1
  <2>2. \A i \in 1 .. n : \A v \in Int : turns[i][v] = v + f[i - 1]
    OBVIOUS
  <2> HIDE DEF turns
  <2> QED BY <2>1, <2>2
<1> HIDE DEF turns
<1> DEFINE base == 0
           S == Int
<1>3. PICK s : IsLoop(s, n, S, base, h)
  <2>1. base \in S /\ h \in [1 .. n -> [S -> S]]
    OBVIOUS
  <2> HIDE DEF base, S
  <2> QED BY <2>1, Recursion
<1>4. s = F(s)
  <2>1. s \in [0 .. n -> Int] /\ s[0] = 0
    BY <1>3 DEF IsLoop
  <2>2. ASSUME NEW i \in 1 .. n PROVE s[i] = s[i - 1] + f[i - 1]
    <3>1. s[i] = h[i][s[i - 1]]
      BY <1>3 DEF IsLoop
    <3>2. s[i - 1] \in Int
      BY <2>1
    <3> QED BY <1>2, <3>1, <3>2
  <2>3. \A i \in 0 .. n : s[i] = F(s)[i]
    BY <2>1, <2>2
  <2> QED BY <2>1, <2>3
<1> HIDE DEF F
<1>5. sum = F(sum)
  BY <1>4
<1>6. Total(f, n) = sum[n]
  BY DEF Total, F
<1> HIDE DEF sum
<1>7. DOMAIN sum = 0 .. n /\ sum = [i \in 0 .. n |-> sum[i]]
  BY <1>5 DEF F
<1>8. /\ sum[0] = 0
      /\ \A i \in 1 .. n : sum[i] = sum[i - 1] + f[i - 1]
  <2>1. \A i \in 0 .. n : F(sum)[i] = IF i = 0 THEN 0 ELSE sum[i - 1] + f[i - 1]
    BY DEF F
  <2>2. \A i \in 0 .. n : sum[i] = IF i = 0 THEN 0 ELSE sum[i - 1] + f[i - 1]
    BY <1>5, <2>1
  <2> QED BY <2>2
<1> DEFINE Same == {i \in 0 .. n : sum[i] = s[i]}
<1>9. \A i \in 0 .. n : i \in Same
  <2>1. 0 \in Same
    BY <1>4, <1>8 DEF F
  <2>2. ASSUME NEW i \in 1 .. n, i - 1 \in Same PROVE i \in Same
    <3>1. sum[i - 1] = s[i - 1] /\ sum[i] = sum[i - 1] + f[i - 1]
      BY <1>8, <2>2
    <3>2. s[i] = s[i - 1] + f[i - 1]
      <4>1. F(s)[i] = s[i - 1] + f[i - 1]
        BY DEF F
      <4> QED BY <1>4, <4>1
    <3>3. sum[i] = s[i]
      BY <3>1, <3>2
    <3> QED BY <3>3
  <2> HIDE DEF Same
  <2> QED BY <2>1, <2>2, UpTo
<1>10. IsSum(sum, f, n)
  <2>1. s \in [0 .. n -> Int]
    BY <1>3 DEF IsLoop
  <2>2. \A i \in 0 .. n : sum[i] \in Int
    BY <1>9, <2>1
  <2> QED BY <1>7, <1>8, <2>2 DEF IsSum
<1> QED BY <1>6, <1>10

LEMMA SumsAgree ==
  ASSUME NEW n \in Nat, NEW m \in 0 .. n, NEW f, NEW g,
         \A i \in 0 .. m - 1 : f[i] = g[i],
         NEW s, IsSum(s, f, n), NEW t, IsSum(t, g, m)
  PROVE  s[m] = t[m]
<1> DEFINE Same == {i \in 0 .. m : s[i] = t[i]}
<1>1. 0 \in Same
  BY DEF IsSum
<1>2. ASSUME NEW i \in 1 .. m, i - 1 \in Same PROVE i \in Same
  <2>1. i \in 1 .. n /\ i - 1 \in 0 .. m - 1 /\ s[i - 1] = t[i - 1]
    BY <1>2
  <2>2. s[i] = s[i - 1] + f[i - 1] /\ t[i] = t[i - 1] + g[i - 1]
    BY <2>1 DEF IsSum
  <2> QED BY <2>1, <2>2
<1> HIDE DEF Same
<1>3. \A i \in 0 .. m : i \in Same
  BY <1>1, <1>2, UpTo
<1> QED BY <1>3 DEF Same

(* Total adds one value after the other.                                   *)
LEMMA TotalAdds ==
  ASSUME NEW n \in Nat, NEW f, Integers(f, n)
  PROVE  /\ \A i \in 0 .. n : Total(f, i) \in Int
         /\ Total(f, 0) = 0
         /\ \A i \in 1 .. n : Total(f, i) = Total(f, i - 1) + f[i - 1]
<1>1. PICK s : IsSum(s, f, n)
  BY TotalIsSum
<1>2. ASSUME NEW i \in 0 .. n PROVE Total(f, i) = s[i]
  <2>1. i \in Nat /\ Integers(f, i)
    BY DEF Integers
  <2>2. PICK t : IsSum(t, f, i) /\ Total(f, i) = t[i]
    BY <2>1, TotalIsSum
  <2>3. s[i] = t[i]
    BY <1>1, <2>2, SumsAgree
  <2> QED BY <2>2, <2>3
<1> QED BY <1>1, <1>2 DEF IsSum

(* It depends on the values it adds only.                                  *)
LEMMA TotalSame ==
  ASSUME NEW n \in Nat, NEW f, NEW g, Integers(f, n),
         \A i \in 0 .. n - 1 : f[i] = g[i]
  PROVE  Total(f, n) = Total(g, n)
<1>1. Integers(g, n)
  BY DEF Integers
<1>2. PICK s : IsSum(s, f, n) /\ Total(f, n) = s[n]
  BY TotalIsSum
<1>3. PICK t : IsSum(t, g, n) /\ Total(g, n) = t[n]
  BY <1>1, TotalIsSum
<1>4. n \in 0 .. n
  OBVIOUS
<1>5. s[n] = t[n]
  BY <1>2, <1>3, <1>4, SumsAgree
<1> QED BY <1>2, <1>3, <1>5

-----------------------------------------------------------------------------
(* Counting, and the mean of the values that count.                        *)

(* There are n numbers below n.                                            *)
LEMMA IntervalSize ==
  ASSUME NEW n \in Nat
  PROVE  Cardinality(0 .. n - 1) = n
<1> DEFINE first == 0
           last == n - 1
           size == Cardinality(first .. last)
<1>1. first \in Int /\ last \in Int
  OBVIOUS
<1>2. size = IF first > last THEN 0 ELSE last - first + 1
  <2> HIDE DEF first, last
  <2> QED BY <1>1, FS_Interval
<1> HIDE DEF size
<1>3. size = n
  BY <1>2
<1> QED BY <1>3 DEF size

Below(S, k) == S \cap (0 .. k - 1)

LEMMA BelowSets ==
  ASSUME NEW n \in Nat, NEW S \in SUBSET (0 .. n - 1)
  PROVE  /\ Below(S, 0) = {} /\ Below(S, n) = S
         /\ \A k : Below(S, k) \subseteq S
         /\ \A k \in 1 .. n :
              /\ k - 1 \in S => /\ Below(S, k) = Below(S, k - 1) \cup {k - 1}
                               /\ k - 1 \notin Below(S, k - 1)
              /\ k - 1 \notin S => Below(S, k) = Below(S, k - 1)
<1>1. \A i \in S : i \in 0 .. n - 1
  OBVIOUS
<1>2. Below(S, 0) = {}
  BY <1>1 DEF Below
<1>3. Below(S, n) = S
  BY <1>1 DEF Below
<1>4. \A k : Below(S, k) \subseteq S
  BY DEF Below
<1>5. ASSUME NEW k \in 1 .. n
      PROVE  /\ k - 1 \in S => /\ Below(S, k) = Below(S, k - 1) \cup {k - 1}
                              /\ k - 1 \notin Below(S, k - 1)
             /\ k - 1 \notin S => Below(S, k) = Below(S, k - 1)
  <2>1. 0 .. k - 1 = (0 .. (k - 1) - 1) \cup {k - 1} /\ k - 1 \notin 0 .. (k - 1) - 1
    OBVIOUS
  <2> QED BY <2>1, Zenon DEF Below
<1> QED BY <1>2, <1>3, <1>4, <1>5

LEMMA BelowCounts ==
  ASSUME NEW n \in Nat, NEW S \in SUBSET (0 .. n - 1)
  PROVE  /\ \A k : IsFiniteSet(Below(S, k)) /\ Cardinality(Below(S, k)) \in Nat
         /\ Below(S, 0) = {} /\ Cardinality(Below(S, 0)) = 0
         /\ Below(S, n) = S
         /\ Cardinality(S) \in Nat
         /\ S # {} => Cardinality(S) \in Nat \ {0}
<1>1. IsFiniteSet(S)
  <2>1. IsFiniteSet(0 .. n - 1)
    BY FS_Interval
  <2> QED BY <2>1, FS_Subset
<1>2. ASSUME NEW k
      PROVE  IsFiniteSet(Below(S, k)) /\ Cardinality(Below(S, k)) \in Nat
  <2>1. Below(S, k) \subseteq S
    BY BelowSets
  <2> QED BY <1>1, <2>1, FS_Subset, FS_CardinalityType
<1>3. Below(S, 0) = {} /\ Below(S, n) = S
  BY BelowSets
<1>4. Cardinality(S) \in Nat /\ (S # {} => Cardinality(S) # 0)
  BY <1>1, FS_CardinalityType, FS_EmptySet
<1>5. Cardinality(Below(S, 0)) = 0
  BY <1>3, FS_EmptySet
<1> QED BY <1>2, <1>3, <1>4, <1>5

LEMMA CountNext ==
  ASSUME NEW n \in Nat, NEW S \in SUBSET (0 .. n - 1), NEW k \in 1 .. n
  PROVE  /\ Cardinality(Below(S, k - 1)) \in Nat
         /\ k - 1 \in S => Cardinality(Below(S, k)) = Cardinality(Below(S, k - 1)) + 1
         /\ k - 1 \notin S => Cardinality(Below(S, k)) = Cardinality(Below(S, k - 1))
<1>1. IsFiniteSet(Below(S, k - 1)) /\ Cardinality(Below(S, k - 1)) \in Nat
  BY BelowCounts
<1>2. CASE k - 1 \in S
  <2>1. Below(S, k) = Below(S, k - 1) \cup {k - 1} /\ k - 1 \notin Below(S, k - 1)
    BY <1>2, BelowSets
  <2>2. Cardinality(Below(S, k)) = Cardinality(Below(S, k - 1)) + 1
    BY <1>1, <2>1, FS_AddElement
  <2> QED BY <1>1, <1>2, <2>2
<1>3. CASE k - 1 \notin S
  <2>1. Below(S, k) = Below(S, k - 1)
    BY <1>3, BelowSets
  <2> QED BY <1>1, <1>3, <2>1
<1> QED BY <1>1, <1>2, <1>3

(* One more value, y, and the bound x of the values before it.             *)
LEMMA LowerBound ==
  ASSUME NEW c \in Nat, NEW x \in Int, NEW t \in Int, c * x <= t, NEW y \in Int
  PROVE  /\ x <= y => (c + 1) * x <= t + y
         /\ y <= x => (c + 1) * y <= t + y
<1>1. (c + 1) * x = c * x + x /\ (c + 1) * y = c * y + y
  OBVIOUS
<1>2. y <= x => c * y <= c * x
  OBVIOUS
<1>3. c * x \in Int /\ c * y \in Int
  OBVIOUS
<1> QED BY <1>1, <1>2, <1>3

LEMMA UpperBound ==
  ASSUME NEW c \in Nat, NEW x \in Int, NEW t \in Int, t <= c * x, NEW y \in Int
  PROVE  /\ y <= x => t + y <= (c + 1) * x
         /\ x <= y => t + y <= (c + 1) * y
<1>1. (c + 1) * x = c * x + x /\ (c + 1) * y = c * y + y
  OBVIOUS
<1>2. x <= y => c * x <= c * y
  OBVIOUS
<1>3. c * x \in Int /\ c * y \in Int
  OBVIOUS
<1> QED BY <1>1, <1>2, <1>3

(* g has the values of f in S, and 0 elsewhere.                            *)
Part(g, f, S, n) == \A i \in 0 .. n - 1 : g[i] = IF i \in S THEN f[i] ELSE 0

LEMMA PartIntegers ==
  ASSUME NEW n \in Nat, NEW S \in SUBSET (0 .. n - 1), NEW f, NEW g,
         \A i \in S : f[i] \in Int, Part(g, f, S, n)
  PROVE  Integers(g, n)
  BY DEF Integers, Part

(* The sum of some values lies between multiples of two of them.           *)
LEMMA SumAmong ==
  ASSUME NEW n \in Nat, NEW S \in SUBSET (0 .. n - 1), S # {},
         NEW f, \A i \in S : f[i] \in Int, NEW g, Part(g, f, S, n)
  PROVE  \E a, b \in S : /\ Cardinality(S) * f[a] <= Total(g, n)
                         /\ Total(g, n) <= Cardinality(S) * f[b]
<1> DEFINE Num(k) == Cardinality(Below(S, k))
           Bounds(k, a, b) == Num(k) * f[a] <= Total(g, k) /\ Total(g, k) <= Num(k) * f[b]
           Good == {k \in 0 .. n :
                      IF Below(S, k) = {} THEN Total(g, k) = 0
                      ELSE \E a, b \in Below(S, k) : Bounds(k, a, b)}
<1>1. /\ \A k \in 0 .. n : Total(g, k) \in Int
      /\ Total(g, 0) = 0
      /\ \A k \in 1 .. n : Total(g, k) = Total(g, k - 1) + g[k - 1]
  BY PartIntegers, TotalAdds
<1>2. 0 \in Good
  BY <1>1, BelowCounts
<1>3. ASSUME NEW k \in 1 .. n, k - 1 \in Good PROVE k \in Good
  <2> DEFINE y == f[k - 1]
             t == Total(g, k - 1)
             c == Num(k - 1)
  <2>1. t \in Int /\ Total(g, k) = t + g[k - 1] /\ k - 1 \in 0 .. n
    BY <1>1
  <2>2. c \in Nat
    BY BelowCounts
  <2>3. CASE k - 1 \notin S
    <3>1. Below(S, k) = Below(S, k - 1)
      BY <2>3, BelowSets
    <3>2. g[k - 1] = 0
      BY <2>3 DEF Part
    <3>3. Total(g, k) = t
      BY <2>1, <3>2
    <3> QED BY <1>3, <3>1, <3>3
  <2>4. CASE k - 1 \in S
    <3>1. Num(k) = c + 1
      BY <2>4, CountNext
    <3>2. y \in Int /\ Total(g, k) = t + y
      BY <2>1, <2>4 DEF Part
    <3>3. k - 1 \in Below(S, k) /\ Below(S, k - 1) \subseteq Below(S, k)
      BY <2>4, BelowSets
    <3>4. CASE Below(S, k - 1) = {}
      <4>1. t = 0 /\ c = 0
        BY <1>3, <3>4, BelowCounts
      <4>2. Bounds(k, k - 1, k - 1)
        BY <3>1, <3>2, <4>1
      <4> QED BY <3>3, <4>2
    <3>5. CASE Below(S, k - 1) # {}
      <4>1. PICK a, b \in Below(S, k - 1) : Bounds(k - 1, a, b)
        BY <1>3, <3>5
      <4>2. a \in S /\ b \in S /\ f[a] \in Int /\ f[b] \in Int
        BY DEF Below
      <4>3. c * f[a] <= t /\ t <= c * f[b]
        BY <4>1
      <4> HIDE DEF c, t, y
      <4>4. \E i \in Below(S, k) : (c + 1) * f[i] <= t + y
        <5>1. CASE f[a] <= y
          BY <2>1, <2>2, <3>2, <3>3, <4>2, <4>3, <5>1, LowerBound
        <5>2. CASE y <= f[a]
          BY <2>1, <2>2, <3>2, <3>3, <4>2, <4>3, <5>2, LowerBound DEF y
        <5> QED BY <3>2, <4>2, <5>1, <5>2
      <4>5. \E i \in Below(S, k) : t + y <= (c + 1) * f[i]
        <5>1. CASE y <= f[b]
          BY <2>1, <2>2, <3>2, <3>3, <4>2, <4>3, <5>1, UpperBound
        <5>2. CASE f[b] <= y
          BY <2>1, <2>2, <3>2, <3>3, <4>2, <4>3, <5>2, UpperBound DEF y
        <5> QED BY <3>2, <4>2, <5>1, <5>2
      <4> QED BY <3>1, <3>2, <3>3, <4>4, <4>5
    <3> QED BY <3>4, <3>5
  <2> QED BY <2>3, <2>4
<1> HIDE DEF Good
<1>4. \A k \in 0 .. n : k \in Good
  BY <1>2, <1>3, UpTo
<1>5. n \in Good /\ Below(S, n) = S
  BY <1>4, BelowCounts
<1> QED BY <1>5 DEF Good

(* The mean of some values lies among them.                                *)
LEMMA MeanAmong ==
  ASSUME NEW n \in Nat, NEW S \in SUBSET (0 .. n - 1), S # {},
         NEW f, \A i \in S : f[i] \in Int, NEW g, Part(g, f, S, n)
  PROVE  /\ Quotient(Total(g, n), Cardinality(S)) \in Int
         /\ \E a, b \in S :
              /\ f[a] <= Quotient(Total(g, n), Cardinality(S))
              /\ Quotient(Total(g, n), Cardinality(S)) <= f[b]
<1>1. PICK a, b \in S : /\ Cardinality(S) * f[a] <= Total(g, n)
                        /\ Total(g, n) <= Cardinality(S) * f[b]
  BY SumAmong
<1>2. Total(g, n) \in Int
  BY PartIntegers, TotalAdds
<1>3. Cardinality(S) \in Nat \ {0}
  BY BelowCounts
<1> QED BY <1>1, <1>2, <1>3, QuotientBetween

-----------------------------------------------------------------------------
(* The average over the scans.                                             *)

LEMMA Sentinels ==
  /\ NoEcho \in Int /\ Noise \in Int /\ NoEcho < 0 /\ 0 < Noise
  /\ ~Valid(NoEcho) /\ ~Valid(Noise)
  /\ \A d \in NoEcho .. Noise : d \in Int /\ (Valid(d) <=> NoEcho < d /\ d < Noise)
  BY ScanFrameAssumption DEF NoEcho, Noise, Valid

ScanSums == [sum : Int, cnt : Int, noEcho : Int, noise : Int]

LEMMA AddScanFields ==
  ASSUME NEW a \in ScanSums, NEW d \in NoEcho .. Noise
  PROVE  /\ AddScan(a, d) \in ScanSums
         /\ AddScan(a, d).sum = a.sum + (IF Valid(d) THEN d ELSE 0)
         /\ AddScan(a, d).cnt = a.cnt + (IF Valid(d) THEN 1 ELSE 0)
         /\ AddScan(a, d).noEcho = a.noEcho + (IF d = NoEcho THEN 1 ELSE 0)
         /\ AddScan(a, d).noise = a.noise + (IF d = Noise THEN 1 ELSE 0)
<1>1. d \in Int /\ NoEcho # Noise
  BY Sentinels
<1>2. CASE d = NoEcho
  <2>1. AddScan(a, d) = [a EXCEPT !.noEcho = @ + 1]
    BY <1>1, <1>2 DEF AddScan
  <2>2. ~Valid(d) /\ d # Noise
    BY <1>1, <1>2, Sentinels
  <2> QED BY <1>2, <2>1, <2>2 DEF ScanSums
<1>3. CASE d = Noise
  <2>1. AddScan(a, d) = [a EXCEPT !.noise = @ + 1]
    BY <1>1, <1>3 DEF AddScan
  <2>2. ~Valid(d) /\ d # NoEcho
    BY <1>1, <1>3, Sentinels
  <2> QED BY <1>3, <2>1, <2>2 DEF ScanSums
<1>4. CASE d # NoEcho /\ d # Noise
  <2>1. AddScan(a, d) = [a EXCEPT !.sum = @ + d, !.cnt = @ + 1]
    BY <1>4 DEF AddScan
  <2>2. Valid(d)
    BY <1>4 DEF Valid
  <2>3. a.sum \in Int /\ a.cnt \in Int /\ a.noEcho \in Int /\ a.noise \in Int
    BY DEF ScanSums
  <2>4. /\ AddScan(a, d).sum = a.sum + d
        /\ AddScan(a, d).cnt = a.cnt + 1
        /\ AddScan(a, d).noEcho = a.noEcho
        /\ AddScan(a, d).noise = a.noise
        /\ AddScan(a, d) \in ScanSums
    <3>1. a = [sum |-> a.sum, cnt |-> a.cnt, noEcho |-> a.noEcho, noise |-> a.noise]
      BY DEF ScanSums
    <3>2. AddScan(a, d) = [sum |-> a.sum + d, cnt |-> a.cnt + 1,
                           noEcho |-> a.noEcho, noise |-> a.noise]
      BY <2>1, <3>1
    <3>3. a.sum + d \in Int /\ a.cnt + 1 \in Int
      BY <1>1, <2>3
    <3> QED BY <2>3, <3>2, <3>3 DEF ScanSums
  <2> QED BY <1>1, <1>4, <2>2, <2>3, <2>4
<1> QED BY <1>2, <1>3, <1>4

(* V has the scans in which x is a distance.                               *)
HeardAt(V, x, n) ==
  V \in SUBSET (0 .. n - 1) /\ \A i \in 0 .. n - 1 : i \in V <=> Valid(x[i])

(* The loop over the frames; x has the distances at the word.              *)
IsScanLoop(s, x, n) ==
  /\ s \in [0 .. n -> ScanSums]
  /\ s[0] = NoScan
  /\ \A i \in 1 .. n : s[i] = AddScan(s[i - 1], x[i - 1])

LEMMA MeanDistanceLoops ==
  ASSUME NEW n \in Nat, NEW rcvd, NEW w, NEW x,
         \A i \in 0 .. n - 1 : x[i] \in NoEcho .. Noise /\ rcvd[i][w] = x[i]
  PROVE  \E s : /\ IsScanLoop(s, x, n)
                /\ MeanDistance(rcvd, n, w) =
                     IF s[n].cnt # 0 THEN Quotient(s[n].sum, s[n].cnt)
                     ELSE IF s[n].noEcho > s[n].noise THEN NoEcho ELSE Noise
<1> DEFINE F(g) == [i \in 0 .. n |->
                      IF i = 0 THEN NoScan ELSE AddScan(g[i - 1], rcvd[i - 1][w])]
           scans == CHOOSE g : g = F(g)
           turns == [i \in 1 .. n |-> [a \in ScanSums |-> AddScan(a, x[i - 1])]]
<1>1. NoScan \in ScanSums
  BY DEF NoScan, ScanSums
<1>2. PICK h \in [1 .. n -> [ScanSums -> ScanSums]] :
        \A i \in 1 .. n : \A a \in ScanSums : h[i][a] = AddScan(a, x[i - 1])
  <2>1. turns \in [1 .. n -> [ScanSums -> ScanSums]]
    <3>1. ASSUME NEW i \in 1 .. n, NEW a \in ScanSums
          PROVE  AddScan(a, x[i - 1]) \in ScanSums
      BY AddScanFields
    <3> QED BY <3>1
  <2>2. \A i \in 1 .. n : \A a \in ScanSums : turns[i][a] = AddScan(a, x[i - 1])
    OBVIOUS
  <2> HIDE DEF turns
  <2> QED BY <2>1, <2>2
<1> HIDE DEF turns
<1>3. PICK s : IsLoop(s, n, ScanSums, NoScan, h)
  BY <1>1, Recursion
<1>4. s \in [0 .. n -> ScanSums] /\ s[0] = NoScan
  BY <1>3 DEF IsLoop
<1>5. ASSUME NEW i \in 1 .. n PROVE s[i] = AddScan(s[i - 1], x[i - 1])
  <2>1. s[i] = h[i][s[i - 1]] /\ s[i - 1] \in ScanSums
    BY <1>3, <1>4 DEF IsLoop
  <2> QED BY <1>2, <2>1
<1>6. s = F(s)
  <2>1. ASSUME NEW i \in 0 .. n PROVE s[i] = F(s)[i]
    <3>1. CASE i = 0
      BY <1>4, <3>1
    <3>2. CASE i # 0
      <4>1. i \in 1 .. n /\ rcvd[i - 1][w] = x[i - 1]
        BY <3>2
      <4> QED BY <1>5, <3>2, <4>1
    <3> QED BY <3>1, <3>2
  <2> QED BY <1>4, <2>1
<1> HIDE DEF F
<1>7. scans = F(scans)
  BY <1>6
<1>8. MeanDistance(rcvd, n, w) =
        IF scans[n].cnt # 0 THEN Quotient(scans[n].sum, scans[n].cnt)
        ELSE IF scans[n].noEcho > scans[n].noise THEN NoEcho ELSE Noise
  BY DEF MeanDistance, F
<1> HIDE DEF scans
<1>9. /\ scans[0] = NoScan
      /\ \A i \in 1 .. n : scans[i] = AddScan(scans[i - 1], x[i - 1])
  <2>1. \A i \in 0 .. n : F(scans)[i] =
          IF i = 0 THEN NoScan ELSE AddScan(scans[i - 1], rcvd[i - 1][w])
    BY DEF F
  <2>2. \A i \in 0 .. n : scans[i] =
          IF i = 0 THEN NoScan ELSE AddScan(scans[i - 1], rcvd[i - 1][w])
    BY <1>7, <2>1
  <2> QED BY <2>2
<1> DEFINE Same == {i \in 0 .. n : scans[i] = s[i]}
<1>10. \A i \in 0 .. n : i \in Same
  <2>1. 0 \in Same
    BY <1>4, <1>9
  <2>2. ASSUME NEW i \in 1 .. n, i - 1 \in Same PROVE i \in Same
    <3>1. scans[i - 1] = s[i - 1]
      BY <2>2
    <3> QED BY <1>5, <1>9, <3>1
  <2> HIDE DEF Same
  <2> QED BY <2>1, <2>2, UpTo
<1>11. scans[n] = s[n]
  BY <1>10
<1>12. IsScanLoop(s, x, n)
  BY <1>4, <1>5 DEF IsScanLoop
<1> QED BY <1>8, <1>11, <1>12

(* What the loop has counted and added: the distances heard.               *)
LEMMA ScanLoopCounts ==
  ASSUME NEW n \in Nat, NEW x, \A i \in 0 .. n - 1 : x[i] \in NoEcho .. Noise,
         NEW s, IsScanLoop(s, x, n),
         NEW V, HeardAt(V, x, n),
         NEW g, Part(g, x, V, n)
  PROVE  /\ s[n].sum = Total(g, n)
         /\ s[n].cnt = Cardinality(V)
         /\ s[n].noEcho = Cardinality({i \in 0 .. n - 1 : x[i] = NoEcho})
         /\ s[n].noise = Cardinality({i \in 0 .. n - 1 : x[i] = Noise})
<1> DEFINE E == {i \in 0 .. n - 1 : x[i] = NoEcho}
           X == {i \in 0 .. n - 1 : x[i] = Noise}
           Good == {k \in 0 .. n : /\ s[k].sum = Total(g, k)
                                   /\ s[k].cnt = Cardinality(Below(V, k))
                                   /\ s[k].noEcho = Cardinality(Below(E, k))
                                   /\ s[k].noise = Cardinality(Below(X, k))}
<1>1. \A i \in 0 .. n - 1 : /\ i \in V <=> Valid(x[i])
                            /\ i \in E <=> x[i] = NoEcho
                            /\ i \in X <=> x[i] = Noise
  BY DEF HeardAt
<1>2. V \in SUBSET (0 .. n - 1) /\ E \in SUBSET (0 .. n - 1) /\ X \in SUBSET (0 .. n - 1)
  BY DEF HeardAt
<1>3. Integers(g, n)
  <2>1. \A i \in V : x[i] \in Int
    BY <1>2, Sentinels
  <2> QED BY <1>2, <2>1, PartIntegers
<1> HIDE DEF E, X
<1>4. 0 \in Good
  <2>1. s[0] = NoScan
    BY DEF IsScanLoop
  <2> QED BY <1>2, <1>3, <2>1, BelowCounts, TotalAdds DEF NoScan
<1>5. ASSUME NEW k \in 1 .. n, k - 1 \in Good PROVE k \in Good
  <2> DEFINE d == x[k - 1]
             a == s[k - 1]
  <2>1. d \in NoEcho .. Noise /\ k - 1 \in 0 .. n - 1
    OBVIOUS
  <2>2. a \in ScanSums /\ s[k] = AddScan(a, d)
    BY DEF IsScanLoop
  <2>3. /\ a.sum = Total(g, k - 1)
        /\ a.cnt = Cardinality(Below(V, k - 1))
        /\ a.noEcho = Cardinality(Below(E, k - 1))
        /\ a.noise = Cardinality(Below(X, k - 1))
    BY <1>5
  <2>4. Total(g, k) = Total(g, k - 1) + (IF Valid(d) THEN d ELSE 0)
    <3>1. g[k - 1] = IF Valid(d) THEN d ELSE 0
      BY <1>1, <2>1 DEF Part
    <3> QED BY <1>3, <3>1, TotalAdds
  <2>5. Cardinality(Below(V, k)) = Cardinality(Below(V, k - 1))
                                     + (IF Valid(d) THEN 1 ELSE 0)
    <3>1. k - 1 \in V <=> Valid(d)
      BY <1>1, <2>1
    <3> HIDE DEF d
    <3> QED BY <1>2, <3>1, CountNext
  <2>6. Cardinality(Below(E, k)) = Cardinality(Below(E, k - 1))
                                     + (IF d = NoEcho THEN 1 ELSE 0)
    <3>1. k - 1 \in E <=> d = NoEcho
      BY <1>1, <2>1
    <3> HIDE DEF d
    <3> QED BY <1>2, <3>1, CountNext
  <2>7. Cardinality(Below(X, k)) = Cardinality(Below(X, k - 1))
                                     + (IF d = Noise THEN 1 ELSE 0)
    <3>1. k - 1 \in X <=> d = Noise
      BY <1>1, <2>1
    <3> HIDE DEF d
    <3> QED BY <1>2, <3>1, CountNext
  <2> HIDE DEF d, a
  <2> QED BY <2>1, <2>2, <2>3, <2>4, <2>5, <2>6, <2>7, AddScanFields
<1> HIDE DEF Good
<1>6. \A k \in 0 .. n : k \in Good
  BY <1>4, <1>5, UpTo
<1>7. n \in Good /\ Below(V, n) = V /\ Below(E, n) = E /\ Below(X, n) = X
  BY <1>2, <1>6, BelowCounts
<1> QED BY <1>7 DEF Good, E, X

HowMany(x, n, d) == Cardinality({i \in 0 .. n - 1 : x[i] = d})

(* The mean of the scans at a word.                                        *)
LEMMA MeanDistanceIs ==
  ASSUME NEW n \in Nat, NEW rcvd, NEW w, NEW x,
         \A i \in 0 .. n - 1 : x[i] \in NoEcho .. Noise /\ rcvd[i][w] = x[i],
         NEW V, HeardAt(V, x, n),
         NEW g, Part(g, x, V, n)
  PROVE  MeanDistance(rcvd, n, w) =
           IF V # {} THEN Quotient(Total(g, n), Cardinality(V))
           ELSE IF HowMany(x, n, NoEcho) > HowMany(x, n, Noise)
           THEN NoEcho ELSE Noise
<1>1. PICK s : /\ IsScanLoop(s, x, n)
               /\ MeanDistance(rcvd, n, w) =
                    IF s[n].cnt # 0 THEN Quotient(s[n].sum, s[n].cnt)
                    ELSE IF s[n].noEcho > s[n].noise THEN NoEcho ELSE Noise
  BY MeanDistanceLoops
<1>2. /\ s[n].sum = Total(g, n)
      /\ s[n].cnt = Cardinality(V)
      /\ s[n].noEcho = HowMany(x, n, NoEcho)
      /\ s[n].noise = HowMany(x, n, Noise)
  BY <1>1, ScanLoopCounts DEF HowMany
<1>3. V # {} <=> Cardinality(V) # 0
  <2>1. V \in SUBSET (0 .. n - 1)
    BY DEF HeardAt
  <2>2. V = {} => Cardinality(V) = 0
    BY FS_EmptySet
  <2> QED BY <2>1, <2>2, BelowCounts
<1> QED BY <1>1, <1>2, <1>3

(* It is a distance exactly when some scan heard an echo there, and then   *)
(* among the distances heard.                                              *)
LEMMA MeanDistanceAmong ==
  ASSUME NEW n \in Nat, NEW rcvd, NEW w, NEW x,
         \A i \in 0 .. n - 1 : x[i] \in NoEcho .. Noise /\ rcvd[i][w] = x[i]
  PROVE  /\ MeanDistance(rcvd, n, w) \in NoEcho .. Noise
         /\ Valid(MeanDistance(rcvd, n, w)) =>
              \E a, b \in 0 .. n - 1 :
                /\ Valid(x[a]) /\ x[a] <= MeanDistance(rcvd, n, w)
                /\ Valid(x[b]) /\ MeanDistance(rcvd, n, w) <= x[b]
         /\ (\E a \in 0 .. n - 1 : Valid(x[a])) => Valid(MeanDistance(rcvd, n, w))
<1> DEFINE V == {i \in 0 .. n - 1 : Valid(x[i])}
           g == [i \in 0 .. n - 1 |-> IF i \in V THEN x[i] ELSE 0]
           m == MeanDistance(rcvd, n, w)
<1>1. Part(g, x, V, n)
  BY DEF Part
<1>2. V \in SUBSET (0 .. n - 1) /\ \A i \in V : x[i] \in Int
  BY Sentinels
<1>3. \A i \in 0 .. n - 1 : i \in V <=> Valid(x[i])
  OBVIOUS
<1>4. HeardAt(V, x, n)
  BY DEF HeardAt
<1> HIDE DEF V, g
<1>5. m = IF V # {} THEN Quotient(Total(g, n), Cardinality(V))
          ELSE IF HowMany(x, n, NoEcho) > HowMany(x, n, Noise)
          THEN NoEcho ELSE Noise
  BY <1>1, <1>4, MeanDistanceIs
<1> HIDE DEF m
<1>6. CASE V = {}
  <2>1. m \in {NoEcho, Noise}
    BY <1>5, <1>6
  <2>2. m \in NoEcho .. Noise /\ ~Valid(m)
    BY <2>1, Sentinels
  <2> QED BY <1>3, <1>6, <2>2 DEF m
<1>7. CASE V # {}
  <2>1. m = Quotient(Total(g, n), Cardinality(V))
    BY <1>5, <1>7
  <2>2. m \in Int /\ \E a, b \in V : x[a] <= m /\ m <= x[b]
    BY <1>1, <1>2, <1>7, <2>1, MeanAmong
  <2>3. PICK a, b \in V : x[a] <= m /\ m <= x[b]
    BY <2>2
  <2>4. a \in 0 .. n - 1 /\ b \in 0 .. n - 1 /\ Valid(x[a]) /\ Valid(x[b])
    BY <1>2, <1>3
  <2>5. m \in NoEcho .. Noise /\ Valid(m)
    BY <2>2, <2>3, <2>4, Sentinels
  <2> QED BY <2>3, <2>4, <2>5 DEF m
<1> QED BY <1>6, <1>7

-----------------------------------------------------------------------------
(* The average over the points.                                            *)

LEMMA Int32Is ==
  /\ \A x \in Int : Int32(x) \in NoEcho .. Noise
  /\ \A x \in NoEcho .. Noise : Int32(x) = x
<1> DEFINE m == 2 * INT32_MAX + 2
<1>1. m \in Nat \ {0} /\ INT32_MAX \in Nat
  BY ScanFrameAssumption
<1>2. ASSUME NEW x \in Int
      PROVE  (x + INT32_MAX + 1) % m \in 0 .. m - 1
  <2> HIDE DEF m
  <2> QED BY <1>1
<1>3. ASSUME NEW y \in 0 .. m - 1
      PROVE  y % m = y
  <2> HIDE DEF m
  <2> QED BY <1>1
<1>4. ASSUME NEW x \in Int PROVE Int32(x) \in NoEcho .. Noise
  BY <1>1, <1>2 DEF Int32, NoEcho, Noise
<1>5. ASSUME NEW x \in NoEcho .. Noise PROVE Int32(x) = x
  <2>1. x + INT32_MAX + 1 \in 0 .. m - 1 /\ x \in Int
    BY <1>1 DEF NoEcho, Noise
  <2>2. (x + INT32_MAX + 1) % m = x + INT32_MAX + 1
    BY <1>3, <2>1
  <2> QED BY <1>1, <2>1, <2>2 DEF Int32
<1> QED BY <1>4, <1>5

GroupStates == [cnt : Nat, sum : Int, valid : Nat, sent : Seq(Int)]

LEMMA EmptyGroupType ==
  ASSUME NEW sent \in Seq(Int)
  PROVE  EmptyGroup(sent) \in GroupStates
  BY DEF EmptyGroup, GroupStates

LEMMA AddDistanceFields ==
  ASSUME NEW g \in GroupStates, NEW d \in NoEcho .. Noise
  PROVE  /\ AddDistance(g, d) \in GroupStates
         /\ AddDistance(g, d).cnt = g.cnt + 1
         /\ AddDistance(g, d).sent = g.sent
         /\ AddDistance(g, d).valid = g.valid + (IF Valid(d) THEN 1 ELSE 0)
         /\ Valid(d) => AddDistance(g, d).sum =
                          IF g.valid = 0 THEN d ELSE Int32(g.sum + d)
         /\ ~Valid(d) => AddDistance(g, d).sum = IF g.valid = 0 THEN d ELSE g.sum
<1> DEFINE valid == IF Valid(d) THEN g.valid + 1 ELSE g.valid
           sum == IF Valid(d) THEN Int32(IF g.valid = 0 THEN d ELSE g.sum + d)
                  ELSE IF g.valid = 0 THEN d ELSE g.sum
<1>1. g.cnt \in Nat /\ g.sum \in Int /\ g.valid \in Nat /\ g.sent \in Seq(Int)
  BY DEF GroupStates
<1>2. AddDistance(g, d) = [g EXCEPT !.cnt = g.cnt + 1, !.valid = valid, !.sum = sum]
  BY Zenon DEF AddDistance
<1>3. /\ AddDistance(g, d).cnt = g.cnt + 1
      /\ AddDistance(g, d).sent = g.sent
      /\ AddDistance(g, d).valid = valid
      /\ AddDistance(g, d).sum = sum
  <2> HIDE DEF valid, sum
  <2> QED BY <1>2 DEF GroupStates
<1>4. d \in Int /\ Int32(d) = d
  BY Int32Is, Sentinels
<1>5. valid \in Nat /\ sum \in Int
  <2>1. Int32(IF g.valid = 0 THEN d ELSE g.sum + d) \in NoEcho .. Noise
    <3>1. (IF g.valid = 0 THEN d ELSE g.sum + d) \in Int
      BY <1>1, <1>4
    <3> QED BY <3>1, Int32Is
  <2>2. Int32(IF g.valid = 0 THEN d ELSE g.sum + d) \in Int
    BY <2>1, Sentinels
  <2> QED BY <1>1, <1>4, <2>2
<1>6. /\ valid = g.valid + (IF Valid(d) THEN 1 ELSE 0)
      /\ Valid(d) => sum = IF g.valid = 0 THEN d ELSE Int32(g.sum + d)
      /\ ~Valid(d) => sum = IF g.valid = 0 THEN d ELSE g.sum
  BY <1>1, <1>4
<1> HIDE DEF valid, sum
<1>7. g.cnt + 1 \in Nat
  BY <1>1
<1>8. [g EXCEPT !.cnt = g.cnt + 1, !.valid = valid, !.sum = sum] \in GroupStates
  BY <1>5, <1>7 DEF GroupStates
<1> QED BY <1>2, <1>3, <1>6, <1>8

(* What is sent for a group: the mean, or the last distance if none counts.*)
MeanToSend(g) == IF g.valid > 0 THEN Quotient(g.sum, g.valid) ELSE g.sum

LEMMA SendGroupFields ==
  ASSUME NEW g \in GroupStates
  PROVE  /\ SendGroup(g) \in GroupStates
         /\ SendGroup(g).cnt = 0
         /\ SendGroup(g).valid = 0
         /\ SendGroup(g).sent = Append(g.sent, MeanToSend(g))
         /\ MeanToSend(g) \in Int
<1>1. g.sum \in Int /\ g.valid \in Nat /\ g.sent \in Seq(Int)
  BY DEF GroupStates
<1>2. MeanToSend(g) \in Int
  <2>1. CASE g.valid > 0
    <3>1. g.valid \in Nat \ {0}
      BY <1>1, <2>1
    <3>2. Quotient(g.sum, g.valid) \in Int
      BY <1>1, <3>1, QuotientType
    <3> QED BY <2>1, <3>2 DEF MeanToSend
  <2> QED BY <1>1, <2>1 DEF MeanToSend
<1>3. SendGroup(g) = EmptyGroup(Append(g.sent, MeanToSend(g)))
  BY DEF SendGroup, MeanToSend
<1>4. Append(g.sent, MeanToSend(g)) \in Seq(Int)
  BY <1>1, <1>2
<1> HIDE DEF MeanToSend
<1>5. EmptyGroup(Append(g.sent, MeanToSend(g))) \in GroupStates
  BY <1>4, EmptyGroupType
<1> QED BY <1>2, <1>3, <1>5 DEF EmptyGroup

IsGroupLoop(s, d, k) ==
  /\ s \in [0 .. Len(d) -> GroupStates]
  /\ s[0] = EmptyGroup(<<>>)
  /\ \A i \in 1 .. Len(d) : s[i] = NextDistance(s[i - 1], d[i], k)

LEMMA NextDistanceType ==
  ASSUME NEW g \in GroupStates, NEW d \in NoEcho .. Noise, NEW k
  PROVE  NextDistance(g, d, k) \in GroupStates
  BY AddDistanceFields, SendGroupFields DEF NextDistance

LEMMA Elements ==
  ASSUME NEW S, NEW d \in Seq(S)
  PROVE  Len(d) \in Nat /\ DOMAIN d = 1 .. Len(d) /\ \A i \in 1 .. Len(d) : d[i] \in S
  OBVIOUS

LEMMA GroupMeansLoops ==
  ASSUME NEW d \in Seq(NoEcho .. Noise), NEW k
  PROVE  \E s : /\ IsGroupLoop(s, d, k)
                /\ GroupMeans(d, k) = IF s[Len(d)].cnt # 0 THEN SendGroup(s[Len(d)]).sent
                                      ELSE s[Len(d)].sent
<1> DEFINE n == Len(d)
           F(g) == [i \in 0 .. n |->
                      IF i = 0 THEN EmptyGroup(<<>>)
                      ELSE NextDistance(g[i - 1], d[i], k)]
           group == CHOOSE g : g = F(g)
           base == EmptyGroup(<<>>)
           turns == [i \in 1 .. n |-> [g \in GroupStates |-> NextDistance(g, d[i], k)]]
<1>1. base \in GroupStates
  <2>1. <<>> \in Seq(Int)
    OBVIOUS
  <2> QED BY <2>1, EmptyGroupType
<1>2. n \in Nat /\ \A i \in 1 .. n : d[i] \in NoEcho .. Noise
  BY Elements
<1>3. GroupMeans(d, k) = IF group[n].cnt # 0 THEN SendGroup(group[n]).sent
                         ELSE group[n].sent
  BY DEF GroupMeans
<1>4. n = Len(d)
  OBVIOUS
<1> HIDE DEF n
<1>5. PICK h \in [1 .. n -> [GroupStates -> GroupStates]] :
        \A i \in 1 .. n : \A g \in GroupStates : h[i][g] = NextDistance(g, d[i], k)
  <2>1. turns \in [1 .. n -> [GroupStates -> GroupStates]]
    BY <1>2, NextDistanceType
  <2>2. \A i \in 1 .. n : \A g \in GroupStates : turns[i][g] = NextDistance(g, d[i], k)
    OBVIOUS
  <2> HIDE DEF turns
  <2> QED BY <2>1, <2>2
<1> HIDE DEF turns
<1>6. PICK s : IsLoop(s, n, GroupStates, base, h)
  <2> HIDE DEF base
  <2> QED BY <1>1, <1>2, Recursion
<1>7. s \in [0 .. n -> GroupStates] /\ s[0] = base
  BY <1>6 DEF IsLoop
<1>8. ASSUME NEW i \in 1 .. n PROVE s[i] = NextDistance(s[i - 1], d[i], k)
  <2>1. s[i] = h[i][s[i - 1]] /\ s[i - 1] \in GroupStates
    BY <1>2, <1>6, <1>7 DEF IsLoop
  <2> QED BY <1>5, <2>1
<1>9. s = F(s)
  <2>1. ASSUME NEW i \in 0 .. n PROVE s[i] = F(s)[i]
    <3>1. CASE i = 0
      BY <1>7, <3>1
    <3>2. CASE i # 0
      BY <1>2, <1>8, <3>2
    <3> QED BY <3>1, <3>2
  <2> HIDE DEF base
  <2> QED BY <1>7, <2>1
<1> HIDE DEF F
<1>10. group = F(group)
  BY <1>9
<1> HIDE DEF group
<1>11. /\ group[0] = base
       /\ \A i \in 1 .. n : group[i] = NextDistance(group[i - 1], d[i], k)
  <2>1. \A i \in 0 .. n : F(group)[i] =
          IF i = 0 THEN base ELSE NextDistance(group[i - 1], d[i], k)
    BY DEF F
  <2>2. \A i \in 0 .. n : group[i] =
          IF i = 0 THEN base ELSE NextDistance(group[i - 1], d[i], k)
    BY <1>10, <2>1
  <2> HIDE DEF base
  <2> QED BY <1>2, <2>2
<1> DEFINE Same == {i \in 0 .. n : group[i] = s[i]}
<1>12. \A i \in 0 .. n : i \in Same
  <2>1. 0 \in Same
    BY <1>2, <1>7, <1>11
  <2>2. ASSUME NEW i \in 1 .. n, i - 1 \in Same PROVE i \in Same
    <3>1. group[i - 1] = s[i - 1]
      BY <2>2
    <3> QED BY <1>8, <1>11, <3>1
  <2> HIDE DEF Same
  <2> QED BY <1>2, <2>1, <2>2, UpTo
<1>13. group[n] = s[n]
  BY <1>2, <1>12
<1>14. IsGroupLoop(s, d, k)
  BY <1>4, <1>7, <1>8 DEF IsGroupLoop
<1> QED BY <1>3, <1>4, <1>13, <1>14

-----------------------------------------------------------------------------
(* ScanPrint::logScan() has the loop a second time, and prints lines.      *)

(* What the locals of a group hold: without a distance, No Echo or Noise;  *)
(* with one, this distance; with several, a sum that may have overflowed.  *)
Shown(g) ==
  /\ g \in GroupStates
  /\ g.cnt # 0 /\ g.valid = 0 => g.sum \in {NoEcho, Noise}
  /\ g.valid = 1 => g.sum \in NoEcho .. Noise /\ Valid(g.sum)
  /\ g.valid > 1 => g.sum \in NoEcho .. Noise

LEMMA ShownEmpty ==
  ASSUME NEW sent \in Seq(Int)
  PROVE  Shown(EmptyGroup(sent))
<1>1. EmptyGroup(sent) \in GroupStates
  BY EmptyGroupType
<1> QED BY <1>1 DEF Shown, EmptyGroup

LEMMA ShownAdd ==
  ASSUME NEW g, Shown(g), NEW d \in NoEcho .. Noise
  PROVE  Shown(AddDistance(g, d)) /\ AddDistance(g, d).cnt # 0
<1> DEFINE h == AddDistance(g, d)
<1>1. g \in GroupStates /\ g.cnt \in Nat /\ g.valid \in Nat /\ g.sum \in Int
  BY DEF Shown, GroupStates
<1>2. /\ h \in GroupStates
      /\ h.cnt = g.cnt + 1
      /\ h.valid = g.valid + (IF Valid(d) THEN 1 ELSE 0)
      /\ Valid(d) => h.sum = IF g.valid = 0 THEN d ELSE Int32(g.sum + d)
      /\ ~Valid(d) => h.sum = IF g.valid = 0 THEN d ELSE g.sum
  BY <1>1, AddDistanceFields
<1>3. d \in Int /\ Int32(g.sum + d) \in NoEcho .. Noise
  BY <1>1, Int32Is, Sentinels
<1> HIDE DEF h
<1>4. h.cnt # 0
  BY <1>1, <1>2
<1>5. ASSUME Valid(d) PROVE Shown(h)
  <2>1. h.valid = g.valid + 1 /\ h.valid # 0
    BY <1>1, <1>2, <1>5
  <2>2. CASE g.valid = 0
    <3>1. h.valid = 1 /\ ~(h.valid > 1)
      BY <2>1, <2>2
    <3>2. h.sum = d
      BY <1>2, <1>5, <2>2
    <3> QED BY <1>2, <1>5, <2>1, <3>1, <3>2 DEF Shown
  <2>3. CASE g.valid # 0
    <3>1. h.valid > 1 /\ h.valid # 1
      BY <1>1, <2>1, <2>3
    <3>2. h.sum = Int32(g.sum + d)
      BY <1>2, <1>5, <2>3
    <3>3. h.sum \in NoEcho .. Noise
      BY <1>3, <3>2
    <3> QED BY <1>2, <2>1, <3>1, <3>3 DEF Shown
  <2> QED BY <2>2, <2>3
<1>6. ASSUME ~Valid(d) PROVE Shown(h)
  <2>1. h.valid = g.valid
    BY <1>1, <1>2, <1>6
  <2>2. CASE g.valid = 0
    <3>1. h.sum \in {NoEcho, Noise}
      BY <1>2, <1>6, <2>2 DEF Valid
    <3>2. h.valid # 1 /\ ~(h.valid > 1)
      BY <2>1, <2>2
    <3> QED BY <1>2, <3>1, <3>2 DEF Shown
  <2>3. CASE g.valid # 0
    <3>1. h.sum = g.sum
      BY <1>2, <1>6, <2>3
    <3> QED BY <1>2, <2>1, <2>3, <3>1 DEF Shown
  <2> QED BY <2>2, <2>3
<1> QED BY <1>4, <1>5, <1>6 DEF h

(* The mean of two or more, overflow or not, is no sentinel.               *)
LEMMA HalfOfIt ==
  ASSUME NEW m \in Nat \ {0}, NEW p \in 0 .. m + 1, NEW v \in Nat, v > 1
  PROVE  /\ p \div v \in Nat
         /\ p \div v < m + 1
         /\ p <= m => p \div v < m
<1> DEFINE q == p \div v
<1>1. q \in Nat /\ v * q <= p
  BY Division
<1> HIDE DEF q
<1>2. 2 * q <= v * q
  BY <1>1
<1>3. 2 * q <= p /\ v * q \in Int
  BY <1>1, <1>2
<1>4. q < m + 1 /\ (p <= m => q < m)
  BY <1>1, <1>3
<1> QED BY <1>1, <1>4 DEF q

LEMMA MeanIsDistance ==
  ASSUME NEW g, Shown(g), g.valid > 0
  PROVE  Valid(Quotient(g.sum, g.valid))
<1>1. g.valid \in Nat /\ g.sum \in Int /\ INT32_MAX \in Nat \ {0}
  BY ScanFrameAssumption DEF Shown, GroupStates
<1>2. CASE g.valid = 1
  <2>1. Quotient(g.sum, 1) = g.sum
    BY <1>1 DEF Quotient
  <2> QED BY <1>2, <2>1 DEF Shown
<1>3. CASE g.valid # 1
  <2> DEFINE s == g.sum
             v == g.valid
             m == INT32_MAX
  <2>1. v \in Nat /\ v > 1 /\ s \in -m - 1 .. m
    BY <1>1, <1>3 DEF Shown, NoEcho, Noise
  <2>2. m \in Nat \ {0}
    BY <1>1
  <2>3. Quotient(s, v) > -m - 1 /\ Quotient(s, v) < m
    <3> HIDE DEF s, v, m
    <3>1. CASE s >= 0
      <4>1. s \in 0 .. m + 1 /\ s <= m
        BY <2>1, <2>2, <3>1
      <4>2. s \div v \in Nat /\ s \div v < m
        BY <2>1, <2>2, <4>1, HalfOfIt
      <4>3. Quotient(s, v) = s \div v
        BY <3>1 DEF Quotient
      <4> QED BY <2>2, <4>2, <4>3
    <3>2. CASE ~(s >= 0)
      <4>1. -s \in 0 .. m + 1
        BY <2>1, <2>2, <3>2
      <4>2. (-s) \div v \in Nat /\ (-s) \div v < m + 1
        BY <2>1, <2>2, <4>1, HalfOfIt
      <4>3. Quotient(s, v) = -((-s) \div v)
        BY <3>2 DEF Quotient
      <4> QED BY <2>2, <4>2, <4>3
    <3> QED BY <3>1, <3>2
  <2>4. Quotient(s, v) # -m - 1 /\ Quotient(s, v) # m
    <3> HIDE DEF s, v, m
    <3> QED BY <2>2, <2>3
  <2> QED BY <2>4 DEF Valid, NoEcho, Noise
<1> QED BY <1>2, <1>3

(* The group of the relay as ScanPrint has it: the lines in place of the   *)
(* distances sent.                                                         *)
LinesOf(sent) == [i \in DOMAIN sent |-> Line(sent[i])]
Printed(g) ==
  [cnt |-> g.cnt, sum |-> g.sum, valid |-> g.valid, lines |-> LinesOf(g.sent)]

LEMMA PrintedCounts ==
  ASSUME NEW g \in GroupStates, NEW d \in NoEcho .. Noise
  PROVE  CountDistance(Printed(g), d) = Printed(AddDistance(g, d))
<1> DEFINE h == AddDistance(g, d)
           L == LinesOf(g.sent)
<1>1. /\ h.cnt = g.cnt + 1
      /\ h.sent = g.sent
      /\ h.valid = g.valid + (IF Valid(d) THEN 1 ELSE 0)
      /\ Valid(d) => h.sum = IF g.valid = 0 THEN d ELSE Int32(g.sum + d)
      /\ ~Valid(d) => h.sum = IF g.valid = 0 THEN d ELSE g.sum
  BY AddDistanceFields
<1>2. g.cnt \in Nat /\ g.valid \in Nat /\ g.sum \in Int /\ d \in Int
  BY Sentinels DEF GroupStates
<1>3. Int32(d) = d /\ 0 + d = d
  BY <1>2, Int32Is
<1>4. Printed(h) = [cnt |-> g.cnt + 1, sum |-> h.sum, valid |-> h.valid, lines |-> L]
  BY <1>1 DEF Printed
<1> HIDE DEF h, L
<1> DEFINE P == [cnt |-> g.cnt, sum |-> g.sum, valid |-> g.valid, lines |-> L]
<1>5. Printed(g) = P
  BY DEF Printed, L
<1>6. ASSUME Valid(d) PROVE CountDistance(P, d) = Printed(h)
  <2> DEFINE before == IF g.valid = 0 THEN 0 ELSE g.sum
  <2>1. CountDistance(P, d) = [cnt |-> g.cnt + 1, sum |-> Int32(before + d),
                               valid |-> g.valid + 1, lines |-> L]
    BY <1>6 DEF CountDistance
  <2>2. h.sum = Int32(before + d)
    <3>1. CASE g.valid = 0
      BY <1>1, <1>3, <1>6, <3>1
    <3>2. CASE g.valid # 0
      BY <1>1, <1>6, <3>2
    <3> QED BY <3>1, <3>2
  <2>3. h.valid = g.valid + 1
    BY <1>1, <1>2, <1>6
  <2> HIDE DEF before, P
  <2> QED BY <1>4, <2>1, <2>2, <2>3
<1>7. ASSUME ~Valid(d) PROVE CountDistance(P, d) = Printed(h)
  <2>1. h.valid = g.valid
    BY <1>1, <1>2, <1>7
  <2>2. CASE g.valid = 0
    <3>1. CountDistance(P, d) =
            [cnt |-> g.cnt + 1, sum |-> d, valid |-> g.valid, lines |-> L]
      BY <1>7, <2>2 DEF CountDistance
    <3>2. h.sum = d
      BY <1>1, <1>7, <2>2
    <3> HIDE DEF P
    <3> QED BY <1>4, <2>1, <3>1, <3>2
  <2>3. CASE g.valid # 0
    <3>1. CountDistance(P, d) =
            [cnt |-> g.cnt + 1, sum |-> g.sum, valid |-> g.valid, lines |-> L]
      BY <1>7, <2>3 DEF CountDistance
    <3>2. h.sum = g.sum
      BY <1>1, <1>7, <2>3
    <3> HIDE DEF P
    <3> QED BY <1>4, <2>1, <3>1, <3>2
  <2> QED BY <2>2, <2>3
<1> HIDE DEF P
<1> QED BY <1>5, <1>6, <1>7 DEF h

LEMMA PrintedPrints ==
  ASSUME NEW g, Shown(g), g.cnt # 0
  PROVE  PrintGroup(Printed(g)) = Printed(SendGroup(g))
<1> DEFINE m == MeanToSend(g)
           L == LinesOf(g.sent)
<1>1. g \in GroupStates /\ g.valid \in Nat /\ g.sent \in Seq(Int)
  BY DEF Shown, GroupStates
<1>2. m \in Int
  BY <1>1, SendGroupFields
<1>3. GroupLine(Printed(g)) = Line(m)
  <2>1. Printed(g).valid = g.valid /\ Printed(g).sum = g.sum
    BY DEF Printed
  <2>2. CASE g.valid > 0
    <3>1. m = Quotient(g.sum, g.valid) /\ Valid(m)
      BY <2>2, MeanIsDistance DEF MeanToSend
    <3>2. Line(m) = Bar(m)
      BY <3>1 DEF Line, Valid
    <3> QED BY <2>1, <2>2, <3>1, <3>2 DEF GroupLine
  <2>3. CASE ~(g.valid > 0)
    <3>1. m = g.sum /\ m \in {NoEcho, Noise}
      BY <1>1, <2>3 DEF MeanToSend, Shown
    <3>2. NoEcho # Noise
      BY Sentinels
    <3> HIDE DEF m
    <3> QED BY <2>1, <2>3, <3>1, <3>2 DEF GroupLine, Line
  <2> QED BY <2>2, <2>3
<1>4. SendGroup(g) = EmptyGroup(Append(g.sent, m))
  BY DEF SendGroup, MeanToSend
<1> HIDE DEF m
<1>5. LinesOf(Append(g.sent, m)) = Append(L, Line(m))
  <2>1. /\ Len(g.sent) \in Nat /\ DOMAIN g.sent = 1 .. Len(g.sent)
        /\ DOMAIN Append(g.sent, m) = 1 .. Len(g.sent) + 1
        /\ \A i \in 1 .. Len(g.sent) : Append(g.sent, m)[i] = g.sent[i]
        /\ Append(g.sent, m)[Len(g.sent) + 1] = m
    BY <1>1, <1>2
  <2> DEFINE n == Len(g.sent)
  <2>2. L = [i \in 1 .. n |-> Line(g.sent[i])]
    BY <2>1 DEF LinesOf
  <2>3. LinesOf(Append(g.sent, m)) = [i \in 1 .. n + 1 |-> Line(Append(g.sent, m)[i])]
    BY <2>1 DEF LinesOf
  <2>4. Append(L, Line(m)) = [i \in 1 .. n + 1 |-> IF i = n + 1 THEN Line(m) ELSE L[i]]
    <3>1. n \in Nat
      BY <2>1
    <3> HIDE DEF n, L
    <3> DEFINE S == {Line(g.sent[i]) : i \in 1 .. n} \cup {Line(m)}
    <3>2. L \in [1 .. n -> S] /\ Line(m) \in S
      BY <2>2
    <3> HIDE DEF S
    <3>3. L \in Seq(S) /\ Len(L) = n
      BY <3>1, <3>2
    <3> DEFINE A == Append(L, Line(m))
    <3>4. A \in Seq(S) /\ Len(A) = n + 1
      BY <3>2, <3>3
    <3>5. A = [i \in 1 .. n + 1 |-> A[i]]
      <4> HIDE DEF A
      <4> QED BY <3>1, <3>4
    <3>6. \A i \in 1 .. n + 1 : A[i] = IF i = n + 1 THEN Line(m) ELSE L[i]
      BY <3>1, <3>2, <3>3
    <3> HIDE DEF A
    <3> QED BY <3>5, <3>6 DEF A
  <2>5. ASSUME NEW i \in 1 .. n + 1
        PROVE  Line(Append(g.sent, m)[i]) = IF i = n + 1 THEN Line(m) ELSE L[i]
    <3>1. CASE i = n + 1
      BY <2>1, <3>1
    <3>2. CASE i # n + 1
      <4>1. i \in 1 .. n
        BY <2>1, <3>2
      <4>2. L[i] = Line(g.sent[i])
        BY <2>2, <4>1
      <4> QED BY <2>1, <3>2, <4>1, <4>2
    <3> QED BY <3>1, <3>2
  <2> HIDE DEF n, L
  <2> QED BY <2>3, <2>4, <2>5
<1>6. Printed(g).lines = L
  BY DEF Printed
<1>7. PrintGroup(Printed(g)) = NoGroup(Append(L, Line(m)))
  BY <1>3, <1>6 DEF PrintGroup
<1>8. Printed(SendGroup(g)) = NoGroup(LinesOf(Append(g.sent, m)))
  BY <1>4 DEF Printed, EmptyGroup, NoGroup
<1> QED BY <1>5, <1>7, <1>8

LEMMA PrintedNext ==
  ASSUME NEW g, Shown(g), NEW d \in NoEcho .. Noise, NEW k
  PROVE  /\ Shown(NextDistance(g, d, k))
         /\ PrintNext(Printed(g), d, k) = Printed(NextDistance(g, d, k))
<1> DEFINE h == AddDistance(g, d)
<1>1. Shown(h) /\ h.cnt # 0
  BY ShownAdd
<1>2. CountDistance(Printed(g), d) = Printed(h)
  BY PrintedCounts DEF Shown
<1> HIDE DEF h
<1>3. Printed(h).cnt = h.cnt
  BY DEF Printed
<1>4. PrintGroup(Printed(h)) = Printed(SendGroup(h))
  BY <1>1, PrintedPrints
<1>5. Shown(SendGroup(h))
  <2>1. h \in GroupStates /\ h.sent \in Seq(Int)
    BY <1>1 DEF Shown, GroupStates
  <2>2. MeanToSend(h) \in Int
    BY <2>1, SendGroupFields
  <2>3. SendGroup(h) = EmptyGroup(Append(h.sent, MeanToSend(h)))
    BY DEF SendGroup, MeanToSend
  <2>4. Append(h.sent, MeanToSend(h)) \in Seq(Int)
    BY <2>1, <2>2
  <2> QED BY <2>3, <2>4, ShownEmpty
<1>6. NextDistance(g, d, k) = IF h.cnt = k THEN SendGroup(h) ELSE h
  BY DEF NextDistance, h
<1>7. PrintNext(Printed(g), d, k) =
        IF Printed(h).cnt = k THEN PrintGroup(Printed(h)) ELSE Printed(h)
  BY <1>2 DEF PrintNext
<1> QED BY <1>1, <1>3, <1>4, <1>5, <1>6, <1>7

(* The two loops agree: ScanPrint prints the lines of the distances the     *)
(* relay would send.                                                       *)
LEMMA LoopsAgree ==
  ASSUME NEW d \in Seq(NoEcho .. Noise), NEW k
  PROVE  GroupLines(d, k) = LinesOf(GroupMeans(d, k))
<1> DEFINE n == Len(d)
           F(g) == [i \in 0 .. n |->
                      IF i = 0 THEN NoGroup(<<>>)
                      ELSE PrintNext(g[i - 1], d[i], k)]
           group == CHOOSE g : g = F(g)
<1>1. PICK s : /\ IsGroupLoop(s, d, k)
               /\ GroupMeans(d, k) = IF s[n].cnt # 0 THEN SendGroup(s[n]).sent
                                     ELSE s[n].sent
  BY GroupMeansLoops
<1>2. n \in Nat /\ \A i \in 1 .. n : d[i] \in NoEcho .. Noise
  BY Elements
<1>3. s[0] = EmptyGroup(<<>>) /\ \A i \in 1 .. n : s[i] = NextDistance(s[i - 1], d[i], k)
  BY <1>1 DEF IsGroupLoop
<1>4. GroupLines(d, k) = IF group[n].cnt # 0 THEN PrintGroup(group[n]).lines
                         ELSE group[n].lines
  BY DEF GroupLines
<1> HIDE DEF n
<1> DEFINE Good == {i \in 0 .. n : Shown(s[i])}
<1>5. \A i \in 0 .. n : i \in Good
  <2>1. 0 \in Good
    <3>1. <<>> \in Seq(Int)
      OBVIOUS
    <3>2. Shown(s[0])
      BY <1>3, <3>1, ShownEmpty
    <3> QED BY <1>2, <3>2
  <2>2. ASSUME NEW i \in 1 .. n, i - 1 \in Good PROVE i \in Good
    <3>1. Shown(s[i - 1])
      BY <2>2
    <3> QED BY <1>2, <1>3, <3>1, PrintedNext
  <2> HIDE DEF Good
  <2> QED BY <1>2, <2>1, <2>2, UpTo
<1>6. Printed(s[0]) = NoGroup(<<>>)
  <2>1. LinesOf(<<>>) = <<>>
    BY DEF LinesOf
  <2> QED BY <1>3, <2>1 DEF Printed, NoGroup, EmptyGroup
<1>7. ASSUME NEW i \in 1 .. n
      PROVE  PrintNext(Printed(s[i - 1]), d[i], k) = Printed(s[i])
  <2>1. i - 1 \in 0 .. n
    BY <1>2
  <2>2. Shown(s[i - 1])
    BY <1>5, <2>1
  <2> QED BY <1>2, <1>3, <2>2, PrintedNext
<1> DEFINE t == [i \in 0 .. n |-> Printed(s[i])]
<1>8. t = F(t)
  <2>1. ASSUME NEW i \in 0 .. n PROVE t[i] = F(t)[i]
    <3>1. CASE i = 0
      BY <1>6, <3>1
    <3>2. CASE i # 0
      <4>1. i \in 1 .. n /\ i - 1 \in 0 .. n
        BY <1>2, <3>2
      <4>2. t[i - 1] = Printed(s[i - 1])
        BY <4>1
      <4> QED BY <1>7, <3>2, <4>1, <4>2
    <3> QED BY <3>1, <3>2
  <2> QED BY <2>1
<1>9. t[0] = NoGroup(<<>>) /\ \A i \in 0 .. n : t[i] = Printed(s[i])
  BY <1>2, <1>6
<1> HIDE DEF t, F
<1>10. group = F(group)
  BY <1>8
<1> HIDE DEF group
<1>11. /\ group[0] = NoGroup(<<>>)
       /\ \A i \in 1 .. n : group[i] = PrintNext(group[i - 1], d[i], k)
  <2>1. \A i \in 0 .. n : F(group)[i] =
          IF i = 0 THEN NoGroup(<<>>) ELSE PrintNext(group[i - 1], d[i], k)
    BY DEF F
  <2>2. \A i \in 0 .. n : group[i] =
          IF i = 0 THEN NoGroup(<<>>) ELSE PrintNext(group[i - 1], d[i], k)
    BY <1>10, <2>1
  <2> QED BY <1>2, <2>2
<1> DEFINE Same == {i \in 0 .. n : group[i] = Printed(s[i])}
<1>12. \A i \in 0 .. n : i \in Same
  <2>1. 0 \in Same
    BY <1>2, <1>6, <1>11
  <2>2. ASSUME NEW i \in 1 .. n, i - 1 \in Same PROVE i \in Same
    <3>1. group[i - 1] = Printed(s[i - 1])
      BY <2>2
    <3> QED BY <1>7, <1>11, <3>1
  <2> HIDE DEF Same
  <2> QED BY <1>2, <2>1, <2>2, UpTo
<1>13. group[n] = Printed(s[n]) /\ Shown(s[n])
  BY <1>2, <1>5, <1>12
<1>14. /\ Printed(s[n]).cnt = s[n].cnt
       /\ Printed(s[n]).lines = LinesOf(s[n].sent)
       /\ Printed(SendGroup(s[n])).lines = LinesOf(SendGroup(s[n]).sent)
  BY DEF Printed
<1>15. CASE s[n].cnt # 0
  <2>1. PrintGroup(Printed(s[n])) = Printed(SendGroup(s[n]))
    BY <1>13, <1>15, PrintedPrints
  <2> QED BY <1>1, <1>4, <1>13, <1>14, <1>15, <2>1 DEF n
<1>16. CASE s[n].cnt = 0
  BY <1>1, <1>4, <1>13, <1>14, <1>16 DEF n
<1> QED BY <1>15, <1>16

-----------------------------------------------------------------------------
(* How many groups there are.                                              *)

(* One turn of the loop, for a group that is not full before it.           *)
LEMMA NextDistanceFields ==
  ASSUME NEW g \in GroupStates, NEW d \in NoEcho .. Noise,
         NEW k \in Nat \ {0}, g.cnt < k
  PROVE  /\ g.cnt + 1 # k => NextDistance(g, d, k) = AddDistance(g, d)
         /\ g.cnt + 1 = k => NextDistance(g, d, k) = SendGroup(AddDistance(g, d))
  BY AddDistanceFields DEF NextDistance

LEMMA NextIndex ==
  ASSUME NEW i \in Nat, NEW j \in Nat, NEW c \in Nat, i - 1 = j + c
  PROVE  i = j + (c + 1)
  OBVIOUS

(* After i turns the groups sent and the open one have the first i         *)
(* distances, and the open one is not full.                                *)
GroupsAccount(s, d, k) ==
  \A i \in 0 .. Len(d) : s[i].cnt < k /\ i = k * Len(s[i].sent) + s[i].cnt

LEMMA GroupLoopAccounts ==
  ASSUME NEW d \in Seq(NoEcho .. Noise), NEW k \in Nat \ {0},
         NEW s, IsGroupLoop(s, d, k)
  PROVE  GroupsAccount(s, d, k)
<1> DEFINE m == Len(d)
           Good == {i \in 0 .. m : s[i].cnt < k /\ i = k * Len(s[i].sent) + s[i].cnt}
<1>1. m \in Nat /\ \A i \in 1 .. m : d[i] \in NoEcho .. Noise
  BY Elements
<1>2. s \in [0 .. m -> GroupStates]
  BY DEF IsGroupLoop
<1>3. 0 \in Good
  <2>1. s[0].cnt = 0 /\ s[0].sent = <<>>
    BY DEF IsGroupLoop, EmptyGroup
  <2>2. Len(s[0].sent) = 0
    BY <2>1
  <2>3. 0 \in 0 .. m
    BY <1>1
  <2> HIDE DEF m
  <2> QED BY <2>1, <2>2, <2>3
<1>4. ASSUME NEW i \in 1 .. m, i - 1 \in Good PROVE i \in Good
  <2> DEFINE g == s[i - 1]
             h == AddDistance(g, d[i])
  <2>1. g \in GroupStates /\ d[i] \in NoEcho .. Noise
    BY <1>1, <1>2
  <2>2. g.cnt < k /\ i - 1 = k * Len(g.sent) + g.cnt
    BY <1>4
  <2>3. s[i] = NextDistance(g, d[i], k)
    BY DEF IsGroupLoop
  <2>4. h \in GroupStates /\ h.cnt = g.cnt + 1 /\ h.sent = g.sent
    BY <2>1, AddDistanceFields
  <2>5. g.cnt \in Nat /\ g.sent \in Seq(Int) /\ Len(g.sent) \in Nat
    BY <2>1 DEF GroupStates
  <2>6. i \in Nat
    BY <1>1
  <2>7. s[i].cnt < k /\ i = k * Len(s[i].sent) + s[i].cnt
    <3>1. CASE g.cnt + 1 # k
      <4>1. s[i] = h
        BY <2>1, <2>2, <2>3, <3>1, NextDistanceFields
      <4> HIDE DEF g, h, m
      <4>2. s[i].cnt = g.cnt + 1 /\ Len(s[i].sent) = Len(g.sent)
        BY <2>4, <4>1
      <4>3. k * Len(g.sent) \in Nat /\ k * Len(s[i].sent) = k * Len(g.sent)
        BY <2>5, <4>2
      <4>4. i = k * Len(g.sent) + (g.cnt + 1)
        BY <2>2, <2>5, <2>6, <4>3, NextIndex
      <4> QED BY <2>2, <2>5, <3>1, <4>2, <4>3, <4>4
    <3>2. CASE g.cnt + 1 = k
      <4>1. s[i] = SendGroup(h)
        BY <2>1, <2>2, <2>3, <3>2, NextDistanceFields
      <4> HIDE DEF h
      <4>2. s[i].cnt = 0 /\ s[i].sent = Append(h.sent, MeanToSend(h))
        BY <2>4, <4>1, SendGroupFields
      <4> HIDE DEF g
      <4>3. Len(s[i].sent) = Len(g.sent) + 1
        BY <2>4, <2>5, <4>2
      <4>4. k * Len(s[i].sent) = k * Len(g.sent) + k /\ k * Len(g.sent) \in Nat
        BY <2>5, <4>3
      <4> HIDE DEF m
      <4>5. i = k * Len(g.sent) + k
        BY <2>2, <2>5, <2>6, <3>2, <4>4, NextIndex
      <4> QED BY <4>2, <4>4, <4>5
    <3> QED BY <3>1, <3>2
  <2> QED BY <2>7
<1> HIDE DEF Good
<1>5. \A i \in 0 .. m : i \in Good
  BY <1>1, <1>3, <1>4, UpTo
<1> QED BY <1>5 DEF Good, GroupsAccount

(* The loop sends one distance for every group of k neighbours.            *)
LEMMA GroupsFound ==
  ASSUME NEW d \in Seq(NoEcho .. Noise), NEW k \in Nat \ {0}
  PROVE  /\ GroupMeans(d, k) \in Seq(Int)
         /\ Len(GroupMeans(d, k)) <= Len(d)
         /\ k = 1 => Len(GroupMeans(d, k)) = Len(d)
         /\ {p \div k : p \in 0 .. Len(d) - 1} = 0 .. Len(GroupMeans(d, k)) - 1
         /\ \A q \in 0 .. Len(GroupMeans(d, k)) - 1 : k * q < Len(d)
<1> DEFINE m == Len(d)
           sent == GroupMeans(d, k)
<1>1. m \in Nat
  BY Elements
<1>2. PICK s : /\ IsGroupLoop(s, d, k)
               /\ sent = IF s[m].cnt # 0 THEN SendGroup(s[m]).sent ELSE s[m].sent
  BY GroupMeansLoops
<1> DEFINE g == s[m]
<1>3. g \in GroupStates
  BY <1>1, <1>2 DEF IsGroupLoop
<1>4. g.cnt < k /\ m = k * Len(g.sent) + g.cnt
  <2>1. m \in 0 .. m
    BY <1>1
  <2> QED BY <1>2, <2>1, GroupLoopAccounts DEF GroupsAccount
<1>5. g.cnt \in Nat /\ g.sent \in Seq(Int) /\ Len(g.sent) \in Nat
  BY <1>3 DEF GroupStates
<1>6. /\ sent \in Seq(Int)
      /\ Len(sent) \in Nat
      /\ g.cnt # 0 => Len(sent) = Len(g.sent) + 1
      /\ g.cnt = 0 => Len(sent) = Len(g.sent)
  <2>1. SendGroup(g).sent = Append(g.sent, MeanToSend(g)) /\ MeanToSend(g) \in Int
    BY <1>3, SendGroupFields
  <2>2. sent = IF g.cnt # 0 THEN Append(g.sent, MeanToSend(g)) ELSE g.sent
    BY <1>2, <2>1
  <2> HIDE DEF sent, g
  <2> QED BY <1>5, <2>1, <2>2
<1> DEFINE N == Len(sent)
<1> HIDE DEF m, sent, g
<1>7. /\ N \in Nat
      /\ m <= k * N
      /\ \A q \in 0 .. N - 1 : k * q < m
      /\ N <= m
  <2>1. CASE g.cnt = 0
    <3>1. N = Len(g.sent)
      BY <1>6, <2>1
    <3> HIDE DEF N
    <3>2. m = k * N
      BY <1>4, <1>5, <2>1, <3>1
    <3>3. ASSUME NEW q \in 0 .. N - 1 PROVE k * q < m
      <4>1. q + 1 <= N /\ q \in Nat /\ N \in Nat
        BY <1>5, <3>1
      <4>2. k * (q + 1) <= k * N
        BY <4>1
      <4>3. k * (q + 1) = k * q + k /\ k * q \in Nat /\ k * N \in Nat
        BY <4>1
      <4> QED BY <3>2, <4>2, <4>3
    <3> QED BY <1>5, <3>1, <3>2, <3>3
  <2>2. CASE g.cnt # 0
    <3>1. N = Len(g.sent) + 1
      BY <1>6, <2>2
    <3> DEFINE L == Len(g.sent)
    <3>2. L \in Nat /\ N = L + 1 /\ m = k * L + g.cnt /\ g.cnt < k /\ g.cnt > 0
      BY <1>4, <1>5, <2>2, <3>1
    <3> HIDE DEF N, L
    <3>3. k * (L + 1) = k * L + k /\ L <= k * L
      BY <3>2
    <3>4. ASSUME NEW q \in 0 .. N - 1 PROVE k * q < m
      <4>1. q <= L /\ q \in Nat
        BY <3>2
      <4>2. k * q <= k * L /\ k * q \in Nat /\ k * L \in Nat
        BY <3>2, <4>1
      <4>3. k * q < k * L + g.cnt
        <5> DEFINE a == k * q
                   b == k * L
                   c == g.cnt
        <5>1. a \in Nat /\ b \in Nat /\ c \in Nat /\ a <= b /\ c > 0
          BY <1>5, <3>2, <4>2
        <5> HIDE DEF a, b, c
        <5>2. a < b + c
          BY <5>1
        <5> QED BY <5>2 DEF a, b, c
      <4> QED BY <3>2, <4>3
    <3> QED BY <1>5, <3>2, <3>3, <3>4
  <2> QED BY <1>5, <2>1, <2>2
<1>8. {p \div k : p \in 0 .. m - 1} = 0 .. N - 1
  <2> HIDE DEF N
  <2>1. ASSUME NEW p \in 0 .. m - 1 PROVE p \div k \in 0 .. N - 1
    <3> DEFINE q == p \div k
    <3>1. q \in Nat /\ k * q <= p
      BY <1>1, Division DEF m
    <3> HIDE DEF q
    <3>2. k * q < k * N
      BY <1>1, <1>7, <3>1 DEF m
    <3>3. q < N
      BY <1>7, <3>1, <3>2
    <3> QED BY <1>7, <3>1, <3>3 DEF q
  <2>2. ASSUME NEW q \in 0 .. N - 1 PROVE q \in {p \div k : p \in 0 .. m - 1}
    <3>1. q \in Nat /\ k * q < m /\ k * q \in Nat
      BY <1>7
    <3>2. k * q \in 0 .. m - 1
      BY <1>1, <3>1 DEF m
    <3>3. (k * q) \div k = q
      <4> DEFINE p == k * q
      <4>1. p \in Nat /\ k * q <= p /\ p < k * q + k
        BY <3>1
      <4> HIDE DEF p
      <4>2. p \div k = q
        BY <3>1, <4>1, DivisionIsUnique
      <4> QED BY <4>2 DEF p
    <3> QED BY <3>2, <3>3
  <2> QED BY <2>1, <2>2
<1>9. k = 1 => N = m
  <2>1. ASSUME k = 1 PROVE m <= N
    <3> HIDE DEF N
    <3> QED BY <1>7, <2>1
  <2> HIDE DEF N
  <2> QED BY <1>1, <1>7, <2>1 DEF m
<1> QED BY <1>6, <1>7, <1>8, <1>9 DEF m, sent

(* The groups of k neighbours are as many as their numbers.                *)
LEMMA GroupCount ==
  ASSUME NEW m \in Nat, NEW k \in Nat \ {0}, NEW N \in Nat,
         {p \div k : p \in 0 .. m - 1} = 0 .. N - 1
  PROVE  Cardinality({p \div k : p \in 0 .. m - 1}) = N
  BY IntervalSize

-----------------------------------------------------------------------------
(* What is sent for a group.                                               *)

(* A set of natural numbers below n that is not empty has a greatest one.  *)
LEMMA GreatestInSet ==
  ASSUME NEW n \in Nat, NEW S \in SUBSET (0 .. n - 1), S # {}
  PROVE  Max(S) \in S
<1> DEFINE Rest == {n - p : p \in S}
<1>1. Rest \in SUBSET Nat /\ Rest # {}
  <2>1. \A p \in S : n - p \in Nat
    <3> TAKE p \in S
    <3>1. p \in 0 .. n - 1
      OBVIOUS
    <3> QED BY <3>1
  <2> QED BY <2>1
<1>2. PICK r \in Rest : \A s \in Rest : r <= s
  BY <1>1, LeastElement
<1>3. PICK p \in S : r = n - p
  BY <1>2
<1>4. \A s \in S : p >= s
  <2> TAKE s \in S
  <2>1. r <= n - s
    BY <1>2
  <2> QED BY <1>3, <2>1
<1> QED BY <1>3, <1>4 DEF Max

LEMMA NoneCounted ==
  ASSUME NEW n \in Nat, NEW S \in SUBSET (0 .. n - 1), NEW k
  PROVE  Cardinality(Below(S, k)) = 0 <=> Below(S, k) = {}
  BY BelowCounts, FS_EmptySet

(* A sum starts at the first value and ends at the last one.               *)
LEMMA SumStarts ==
  ASSUME NEW n \in Nat, NEW S \in SUBSET (0 .. n - 1),
         NEW f, \A i \in S : f[i] \in Int, NEW g, Part(g, f, S, n),
         NEW k \in 0 .. n, Below(S, k) = {}
  PROVE  Total(g, k) = 0
<1> DEFINE Good == {j \in 0 .. k : Total(g, j) = 0}
<1>1. /\ Total(g, 0) = 0
      /\ \A i \in 1 .. n : Total(g, i) = Total(g, i - 1) + g[i - 1]
  BY PartIntegers, TotalAdds
<1>2. 0 \in Good
  BY <1>1
<1>3. ASSUME NEW j \in 1 .. k, j - 1 \in Good PROVE j \in Good
  <2>1. j - 1 \notin S
    BY DEF Below
  <2>2. g[j - 1] = 0
    BY <2>1 DEF Part
  <2>3. Total(g, j) = Total(g, j - 1) + g[j - 1] /\ Total(g, j - 1) = 0
    BY <1>1, <1>3
  <2>4. Total(g, j) = 0
    BY <2>2, <2>3
  <2> QED BY <2>4
<1> HIDE DEF Good
<1>4. \A j \in 0 .. k : j \in Good
  BY <1>2, <1>3, UpTo
<1> QED BY <1>4 DEF Good

LEMMA SumEnds ==
  ASSUME NEW n \in Nat, NEW S \in SUBSET (0 .. n - 1),
         NEW f, \A i \in S : f[i] \in Int, NEW g, Part(g, f, S, n),
         NEW k \in 0 .. n, \A i \in S : i < k
  PROVE  Total(g, n) = Total(g, k)
<1> DEFINE Good == {j \in 0 .. n : j < k \/ Total(g, j) = Total(g, k)}
<1>1. /\ \A i \in 0 .. n : Total(g, i) \in Int
      /\ \A i \in 1 .. n : Total(g, i) = Total(g, i - 1) + g[i - 1]
  BY PartIntegers, TotalAdds
<1>2. 0 \in Good
  OBVIOUS
<1>3. ASSUME NEW j \in 1 .. n, j - 1 \in Good PROVE j \in Good
  <2>1. CASE j <= k
    BY <2>1
  <2>2. CASE j > k
    <3>1. j - 1 \notin S /\ j - 1 \in 0 .. n
      BY <2>2
    <3>2. g[j - 1] = 0
      BY <3>1 DEF Part
    <3>3. Total(g, j) = Total(g, j - 1) + g[j - 1] /\ Total(g, j - 1) = Total(g, k)
      BY <1>1, <1>3, <2>2
    <3>4. Total(g, j) = Total(g, k)
      BY <1>1, <3>2, <3>3
    <3> QED BY <3>4
  <2> QED BY <2>1, <2>2
<1> HIDE DEF Good
<1>4. \A j \in 0 .. n : j \in Good
  BY <1>2, <1>3, UpTo
<1> QED BY <1>4 DEF Good

(* Of m distances x in groups of k: those of group q, those of them that   *)
(* count, x with the others 0, and the mean of the group.                  *)
GroupOf(q, m, k) == {p \in 0 .. m - 1 : p \div k = q}
HeardOf(q, x, m, k) == {p \in GroupOf(q, m, k) : Valid(x[p])}
PartOf(x, S, m) == [p \in 0 .. m - 1 |-> IF p \in S THEN x[p] ELSE 0]
MeanOf(q, x, m, k) ==
  LET heard == HeardOf(q, x, m, k)
  IN  IF heard # {} THEN Quotient(Total(PartOf(x, heard, m), m), Cardinality(heard))
      ELSE x[Max(GroupOf(q, m, k))]

(* The distances, and a bound B of those that count that no sum of a group *)
(* exceeds.                                                                *)
AreDistances(x, m) == \A p \in 0 .. m - 1 : x[p] \in NoEcho .. Noise
WithinBound(x, m, k, B) ==
  /\ \A p \in 0 .. m - 1 : Valid(x[p]) => -B <= x[p] /\ x[p] <= B
  /\ k * B <= INT32_MAX \/ m * B <= INT32_MAX

LEMMA HeardSets ==
  ASSUME NEW m \in Nat, NEW k \in Nat \ {0}, NEW x, AreDistances(x, m), NEW q
  PROVE  /\ HeardOf(q, x, m, k) \in SUBSET (0 .. m - 1)
         /\ \A p \in HeardOf(q, x, m, k) : x[p] \in Int
         /\ Part(PartOf(x, HeardOf(q, x, m, k), m), x, HeardOf(q, x, m, k), m)
<1>1. HeardOf(q, x, m, k) \in SUBSET (0 .. m - 1)
  BY DEF HeardOf, GroupOf
<1>2. \A p \in HeardOf(q, x, m, k) : x[p] \in Int
  BY <1>1, Sentinels DEF AreDistances
<1>3. Part(PartOf(x, HeardOf(q, x, m, k), m), x, HeardOf(q, x, m, k), m)
  <2> DEFINE S == HeardOf(q, x, m, k)
  <2> HIDE DEF S
  <2>1. Part(PartOf(x, S, m), x, S, m)
    BY DEF Part, PartOf
  <2> QED BY <2>1 DEF S
<1> QED BY <1>1, <1>2, <1>3

(* The open group q after i turns: its counters and its sum.               *)
OpenGroup(h, i, q, x, m, k, B) ==
  LET heard == HeardOf(q, x, m, k)
  IN  /\ h.valid = Cardinality(Below(heard, i))
      /\ h.valid <= h.cnt
      /\ h.valid > 0 => /\ h.sum = Total(PartOf(x, heard, m), i)
                        /\ -(h.valid * B) <= h.sum
                        /\ h.sum <= h.valid * B
      /\ h.valid = 0 /\ h.cnt > 0 => h.sum = x[i - 1]

(* A sum within the bound does not overflow.                               *)
LEMMA SumFits ==
  ASSUME NEW v \in Nat, NEW B \in Nat, NEW k \in Nat, NEW m \in Nat,
         k * B <= INT32_MAX \/ m * B <= INT32_MAX, v + 1 <= k, v + 1 <= m,
         NEW a \in Int, -(v * B) <= a, a <= v * B,
         NEW y \in Int, -B <= y, y <= B
  PROVE  /\ Int32(a + y) = a + y
         /\ -((v + 1) * B) <= a + y
         /\ a + y <= (v + 1) * B
<1>1. (v + 1) * B = v * B + B /\ v * B \in Nat /\ (v + 1) * B \in Nat
  OBVIOUS
<1>2. (v + 1) * B <= k * B /\ (v + 1) * B <= m * B /\ k * B \in Nat /\ m * B \in Nat
  OBVIOUS
<1>3. (v + 1) * B <= INT32_MAX
  BY <1>1, <1>2, ScanFrameAssumption
<1> DEFINE b == v * B
           c == (v + 1) * B
<1>4. b \in Nat /\ c \in Nat /\ c = b + B /\ c <= INT32_MAX /\ -b <= a /\ a <= b
  BY <1>1, <1>3
<1> HIDE DEF b, c
<1>5. -c <= a + y /\ a + y <= c
  BY <1>4
<1>6. a + y \in NoEcho .. Noise
  BY <1>4, <1>5, ScanFrameAssumption DEF NoEcho, Noise
<1> QED BY <1>5, <1>6, Int32Is DEF c

(* The next distance belongs to the open group.                            *)
LEMMA AddToGroup ==
  ASSUME NEW m \in Nat, NEW k \in Nat \ {0}, NEW B \in Nat, NEW x,
         AreDistances(x, m), WithinBound(x, m, k, B),
         NEW g \in GroupStates, NEW i \in 1 .. m, NEW q \in Nat,
         g.cnt < k, i - 1 = k * q + g.cnt, OpenGroup(g, i - 1, q, x, m, k, B)
  PROVE  OpenGroup(AddDistance(g, x[i - 1]), i, q, x, m, k, B)
<1> DEFINE V == HeardOf(q, x, m, k)
           f == PartOf(x, V, m)
           y == x[i - 1]
           h == AddDistance(g, y)
<1>1. /\ V \in SUBSET (0 .. m - 1)
      /\ \A p \in V : x[p] \in Int
      /\ Part(f, x, V, m)
  BY HeardSets
<1>2. y \in NoEcho .. Noise /\ y \in Int /\ i - 1 \in 0 .. m - 1
  <2>1. i - 1 \in 0 .. m - 1
    OBVIOUS
  <2> QED BY <2>1, Sentinels DEF AreDistances
<1>3. g.cnt \in Nat /\ g.sum \in Int /\ g.valid \in Nat
  BY DEF GroupStates
<1>4. /\ h.cnt = g.cnt + 1
      /\ h.valid = g.valid + (IF Valid(y) THEN 1 ELSE 0)
      /\ Valid(y) => h.sum = IF g.valid = 0 THEN y ELSE Int32(g.sum + y)
      /\ ~Valid(y) => h.sum = IF g.valid = 0 THEN y ELSE g.sum
  BY <1>2, AddDistanceFields
<1>5. i - 1 \in V <=> Valid(y)
  <2>1. (i - 1) \div k = q
    <3> DEFINE p == i - 1
               a == k * q
    <3>1. p \in Nat /\ a \in Nat /\ p = a + g.cnt
      OBVIOUS
    <3>2. a <= p /\ p < a + k
      <4> HIDE DEF p, a
      <4> QED BY <1>3, <3>1
    <3> HIDE DEF p
    <3>3. p \div k = q
      BY <3>1, <3>2, DivisionIsUnique
    <3> QED BY <3>3 DEF p
  <2> QED BY <1>2, <2>1 DEF HeardOf, GroupOf
<1>6. /\ Cardinality(Below(V, i - 1)) \in Nat
      /\ i - 1 \in V => Cardinality(Below(V, i)) = Cardinality(Below(V, i - 1)) + 1
      /\ i - 1 \notin V => Cardinality(Below(V, i)) = Cardinality(Below(V, i - 1))
  BY <1>1, CountNext
<1>7. /\ Total(f, i - 1) \in Int
      /\ Total(f, i) = Total(f, i - 1) + f[i - 1]
      /\ i - 1 \in V => f[i - 1] = y
      /\ i - 1 \notin V => f[i - 1] = 0
  <2>1. Integers(f, m)
    BY <1>1, PartIntegers
  <2>2. i - 1 \in 0 .. m
    OBVIOUS
  <2> QED BY <1>1, <1>2, <2>1, <2>2, TotalAdds DEF Part
<1>8. /\ g.valid = Cardinality(Below(V, i - 1))
      /\ g.valid <= g.cnt
      /\ g.valid > 0 => /\ g.sum = Total(f, i - 1)
                        /\ -(g.valid * B) <= g.sum
                        /\ g.sum <= g.valid * B
  BY DEF OpenGroup
<1>9. g.valid = 0 => Total(f, i - 1) = 0
  <2>1. i - 1 \in 0 .. m
    OBVIOUS
  <2>2. g.valid = 0 => Below(V, i - 1) = {}
    BY <1>1, <1>8, NoneCounted
  <2> QED BY <1>1, <2>1, <2>2, SumStarts
<1>10. Valid(y) => -B <= y /\ y <= B
  BY <1>2 DEF WithinBound
<1>11. g.valid + 1 <= k /\ g.valid + 1 <= m
  <2> DEFINE a == k * q
  <2>1. a \in Nat /\ i - 1 = a + g.cnt
    OBVIOUS
  <2> HIDE DEF a
  <2> QED BY <1>3, <1>8, <2>1
<1>12. OpenGroup(h, i, q, x, m, k, B) <=>
         /\ h.valid = Cardinality(Below(V, i))
         /\ h.valid <= h.cnt
         /\ h.valid > 0 => /\ h.sum = Total(f, i)
                           /\ -(h.valid * B) <= h.sum
                           /\ h.sum <= h.valid * B
         /\ h.valid = 0 /\ h.cnt > 0 => h.sum = y
  BY DEF OpenGroup
<1> HIDE DEF h, V, f, y
<1>13. ASSUME ~Valid(y) PROVE OpenGroup(h, i, q, x, m, k, B)
  <2>1. h.valid = g.valid /\ Total(f, i) = Total(f, i - 1)
    BY <1>3, <1>4, <1>5, <1>7, <1>13
  <2>2. g.valid # 0 => h.sum = g.sum
    BY <1>4, <1>13
  <2>3. g.valid = 0 => h.sum = y
    BY <1>4, <1>13
  <2>4. h.valid = Cardinality(Below(V, i)) /\ h.valid <= h.cnt
    BY <1>3, <1>4, <1>5, <1>6, <1>8, <1>13, <2>1
  <2>5. h.valid > 0 => /\ h.sum = Total(f, i)
                       /\ -(h.valid * B) <= h.sum
                       /\ h.sum <= h.valid * B
    BY <1>3, <1>8, <2>1, <2>2
  <2> QED BY <1>3, <1>12, <2>1, <2>3, <2>4, <2>5
<1>14. ASSUME Valid(y) PROVE OpenGroup(h, i, q, x, m, k, B)
  <2>1. h.valid = g.valid + 1 /\ Total(f, i) = Total(f, i - 1) + y
    BY <1>4, <1>5, <1>7, <1>14
  <2>2. /\ h.sum = Total(f, i)
        /\ -((g.valid + 1) * B) <= h.sum
        /\ h.sum <= (g.valid + 1) * B
    <3>1. CASE g.valid = 0
      <4>1. h.sum = y /\ Total(f, i) = y
        BY <1>2, <1>4, <1>9, <1>14, <2>1, <3>1
      <4>2. (g.valid + 1) * B = B
        BY <3>1
      <4> QED BY <1>10, <1>14, <4>1, <4>2
    <3>2. CASE g.valid > 0
      <4>1. h.sum = Int32(g.sum + y) /\ g.sum = Total(f, i - 1)
        BY <1>4, <1>8, <1>14, <3>2
      <4>2. k * B <= INT32_MAX \/ m * B <= INT32_MAX
        BY DEF WithinBound
      <4>3. /\ Int32(g.sum + y) = g.sum + y
            /\ -((g.valid + 1) * B) <= g.sum + y
            /\ g.sum + y <= (g.valid + 1) * B
        BY <1>2, <1>3, <1>8, <1>10, <1>11, <1>14, <3>2, <4>2, SumFits
      <4> QED BY <2>1, <4>1, <4>3
    <3> QED BY <1>3, <3>1, <3>2
  <2>3. h.valid = Cardinality(Below(V, i)) /\ h.valid <= h.cnt /\ h.valid > 0
    BY <1>3, <1>4, <1>5, <1>6, <1>8, <1>14, <2>1
  <2> QED BY <1>12, <2>1, <2>2, <2>3
<1> QED BY <1>13, <1>14 DEF h, y

(* A group that is full, or the last, is sent as its mean.                 *)
LEMMA SentMean ==
  ASSUME NEW m \in Nat, NEW k \in Nat \ {0}, NEW B, NEW x, AreDistances(x, m),
         NEW h \in GroupStates, NEW i \in 1 .. m, NEW q \in Nat,
         h.cnt > 0, h.cnt <= k, h.cnt = k \/ i = m, i = k * q + h.cnt,
         OpenGroup(h, i, q, x, m, k, B)
  PROVE  MeanToSend(h) = MeanOf(q, x, m, k)
<1> DEFINE G == GroupOf(q, m, k)
           V == HeardOf(q, x, m, k)
           f == PartOf(x, V, m)
<1>1. /\ V \in SUBSET (0 .. m - 1)
      /\ \A p \in V : x[p] \in Int
      /\ Part(f, x, V, m)
  BY HeardSets
<1>2. h.cnt \in Nat /\ h.valid \in Nat
  BY DEF GroupStates
<1>3. /\ i - 1 \in G
      /\ \A p \in G : p <= i - 1 /\ p \in 0 .. m - 1
  <2> DEFINE a == k * q
  <2>1. a \in Nat /\ i = a + h.cnt
    OBVIOUS
  <2>2. i - 1 \in 0 .. m - 1
    OBVIOUS
  <2>3. (i - 1) \div k = q
    <3> DEFINE p == i - 1
    <3>1. p \in Nat /\ a <= p /\ p < a + k
      <4> HIDE DEF a
      <4> QED BY <1>2, <2>1
    <3> HIDE DEF p
    <3>2. p \div k = q
      BY <3>1, DivisionIsUnique
    <3> QED BY <3>2 DEF p
  <2>4. ASSUME NEW p \in G PROVE p <= i - 1 /\ p \in 0 .. m - 1
    <3>1. p \in 0 .. m - 1 /\ p \div k = q
      BY DEF GroupOf
    <3>2. p < a + k
      BY <3>1, Division
    <3> HIDE DEF a
    <3> QED BY <1>2, <2>1, <3>1, <3>2
  <2> QED BY <2>2, <2>3, <2>4 DEF GroupOf
<1>4. \A p \in V : p \in G /\ p < i
  <2>1. \A p \in V : p \in G
    BY DEF HeardOf
  <2> QED BY <1>3, <2>1
<1>5. /\ h.valid = Cardinality(Below(V, i))
      /\ h.valid > 0 => h.sum = Total(f, i)
      /\ h.valid = 0 => h.sum = x[i - 1]
  BY DEF OpenGroup
<1>6. MeanOf(q, x, m, k) = IF V # {} THEN Quotient(Total(f, m), Cardinality(V))
                           ELSE x[Max(G)]
  BY DEF MeanOf
<1>7. Max(G) = i - 1
  <2> HIDE DEF G
  <2>1. \A p \in G : p \in Int
    BY <1>3
  <2> QED BY <1>3, <2>1 DEF Max
<1> HIDE DEF G, V, f
<1>8. Below(V, i) = V
  <2>1. \A p \in V : p \in 0 .. i - 1
    BY <1>1, <1>4
  <2> QED BY <2>1, Zenon DEF Below
<1>9. Total(f, m) = Total(f, i)
  <2>1. i \in 0 .. m
    OBVIOUS
  <2> QED BY <1>1, <1>4, <2>1, SumEnds
<1>10. V = {} <=> h.valid = 0
  BY <1>1, <1>5, <1>8, NoneCounted
<1> QED BY <1>2, <1>5, <1>6, <1>7, <1>8, <1>9, <1>10 DEF MeanToSend

(* Nothing of a group is known before its first distance.                  *)
LEMMA GroupOpens ==
  ASSUME NEW m \in Nat, NEW k \in Nat \ {0}, NEW B, NEW x, AreDistances(x, m),
         NEW g, g.cnt = 0, g.valid = 0, NEW i \in 0 .. m, NEW q \in Nat, i = k * q
  PROVE  OpenGroup(g, i, q, x, m, k, B)
<1> DEFINE V == HeardOf(q, x, m, k)
<1>1. V \in SUBSET (0 .. m - 1)
  BY HeardSets
<1>2. Below(V, i) = {}
  <2> SUFFICES ASSUME NEW p \in Below(V, i) PROVE FALSE
    OBVIOUS
  <2>1. p \in 0 .. m - 1 /\ p < i /\ p \div k = q
    BY DEF Below, HeardOf, GroupOf
  <2>2. k * q <= p
    BY <2>1, Division
  <2> QED BY <2>1, <2>2
<1>3. Cardinality(Below(V, i)) = 0
  BY <1>2, FS_EmptySet
<1> QED BY <1>3 DEF OpenGroup

(* The groups sent after i turns, and the one that is open.                *)
MeansSent(s, i, x, m, k, B) ==
  /\ \A q \in 0 .. Len(s[i].sent) - 1 : s[i].sent[q + 1] = MeanOf(q, x, m, k)
  /\ OpenGroup(s[i], i, Len(s[i].sent), x, m, k, B)

LEMMA AppendedElements ==
  ASSUME NEW t \in Seq(Int), NEW v \in Int
  PROVE  /\ Len(Append(t, v)) = Len(t) + 1
         /\ \A j \in 1 .. Len(t) : Append(t, v)[j] = t[j]
         /\ Append(t, v)[Len(t) + 1] = v
  OBVIOUS

LEMMA GroupLoopMeans ==
  ASSUME NEW d \in Seq(NoEcho .. Noise), NEW k \in Nat \ {0}, NEW B \in Nat,
         NEW x, \A p \in 0 .. Len(d) - 1 : x[p] = d[p + 1],
         WithinBound(x, Len(d), k, B), NEW s, IsGroupLoop(s, d, k)
  PROVE  \A i \in 0 .. Len(d) : MeansSent(s, i, x, Len(d), k, B)
<1> DEFINE m == Len(d)
           Good == {i \in 0 .. m : MeansSent(s, i, x, m, k, B)}
<1>1. m \in Nat /\ \A i \in 1 .. m : d[i] \in NoEcho .. Noise
  BY Elements
<1>2. s \in [0 .. m -> GroupStates]
  BY DEF IsGroupLoop
<1>3. AreDistances(x, m)
  <2>1. ASSUME NEW p \in 0 .. m - 1 PROVE x[p] \in NoEcho .. Noise
    <3>1. p + 1 \in 1 .. m /\ x[p] = d[p + 1]
      BY <1>1
    <3> QED BY <1>1, <3>1
  <2> QED BY <2>1 DEF AreDistances
<1>4. \A i \in 0 .. m : s[i].cnt < k /\ i = k * Len(s[i].sent) + s[i].cnt
  BY GroupLoopAccounts DEF GroupsAccount
<1>5. 0 \in Good
  <2>1. s[0].cnt = 0 /\ s[0].valid = 0 /\ s[0].sent = <<>>
    BY DEF IsGroupLoop, EmptyGroup
  <2>2. Len(s[0].sent) = 0
    BY <2>1
  <2>3. 0 \in 0 .. m /\ 0 = k * 0
    BY <1>1
  <2> HIDE DEF m
  <2>4. OpenGroup(s[0], 0, 0, x, m, k, B)
    BY <1>1, <1>3, <2>1, <2>3, GroupOpens
  <2> QED BY <2>2, <2>3, <2>4 DEF MeansSent
<1>6. ASSUME NEW i \in 1 .. m, i - 1 \in Good PROVE i \in Good
  <2> DEFINE g == s[i - 1]
             q == Len(g.sent)
             y == x[i - 1]
             h == AddDistance(g, y)
  <2>1. i - 1 \in 0 .. m /\ i - 1 \in 0 .. m - 1 /\ i \in Nat
    BY <1>1
  <2>2. y = d[i] /\ y \in NoEcho .. Noise
    <3>1. x[i - 1] = d[(i - 1) + 1] /\ (i - 1) + 1 = i
      BY <1>1, <2>1
    <3> QED BY <1>1, <3>1
  <2>3. g \in GroupStates
    BY <1>2, <2>1
  <2>4. g.cnt < k /\ i - 1 = k * q + g.cnt
    BY <1>4, <2>1
  <2>5. g.cnt \in Nat /\ g.sent \in Seq(Int) /\ q \in Nat
    BY <2>3 DEF GroupStates
  <2>6. s[i] = NextDistance(g, y, k)
    BY <2>2 DEF IsGroupLoop
  <2>7. h \in GroupStates /\ h.cnt = g.cnt + 1 /\ h.sent = g.sent
    BY <2>2, <2>3, AddDistanceFields
  <2>8. /\ \A j \in 0 .. q - 1 : g.sent[j + 1] = MeanOf(j, x, m, k)
        /\ OpenGroup(g, i - 1, q, x, m, k, B)
    BY <1>6 DEF MeansSent
  <2>9. OpenGroup(h, i, q, x, m, k, B)
    <3> HIDE DEF m, g, q
    <3> QED BY <1>1, <1>3, <2>3, <2>4, <2>5, <2>8, AddToGroup DEF m
  <2>10. s[i].cnt < k /\ i = k * Len(s[i].sent) + s[i].cnt
    BY <1>1, <1>4
  <2>11. CASE g.cnt + 1 # k
    <3>1. s[i] = h
      BY <2>2, <2>3, <2>4, <2>6, <2>11, NextDistanceFields
    <3> HIDE DEF h, g
    <3> QED BY <2>7, <2>8, <2>9, <3>1 DEF MeansSent
  <2>12. CASE g.cnt + 1 = k
    <3>1. s[i] = SendGroup(h)
      BY <2>2, <2>3, <2>4, <2>6, <2>12, NextDistanceFields
    <3>2. i = k * q + h.cnt
      <4> HIDE DEF m, g, h, q
      <4>1. k * q \in Nat
        BY <2>5
      <4>2. i = k * q + (g.cnt + 1)
        BY <2>1, <2>4, <2>5, <4>1, NextIndex
      <4> QED BY <2>7, <4>2
    <3>3. MeanToSend(h) = MeanOf(q, x, m, k)
      <4> HIDE DEF m, g, h, q
      <4>1. h.cnt = k /\ h.cnt > 0 /\ h.cnt <= k
        BY <2>7, <2>12
      <4>2. m \in Nat /\ q \in Nat /\ h \in GroupStates
        BY <1>1, <2>5, <2>7
      <4> QED BY <1>3, <2>9, <3>2, <4>1, <4>2, SentMean
    <3>4. /\ s[i].cnt = 0
          /\ s[i].valid = 0
          /\ s[i].sent = Append(g.sent, MeanToSend(h))
          /\ MeanToSend(h) \in Int
      <4> HIDE DEF m, g, h, q
      <4> QED BY <2>7, <3>1, SendGroupFields
    <3>5. /\ Len(s[i].sent) = q + 1
          /\ \A j \in 1 .. q : s[i].sent[j] = g.sent[j]
          /\ s[i].sent[q + 1] = MeanToSend(h)
      <4> HIDE DEF m, g, h
      <4> QED BY <2>5, <3>4, AppendedElements
    <3> HIDE DEF m, g, h, q
    <3>6. \A j \in 0 .. Len(s[i].sent) - 1 : s[i].sent[j + 1] = MeanOf(j, x, m, k)
      <4>1. ASSUME NEW j \in 0 .. q PROVE s[i].sent[j + 1] = MeanOf(j, x, m, k)
        <5>1. CASE j = q
          BY <3>3, <3>5, <5>1
        <5>2. CASE j # q
          <6>1. j \in 0 .. q - 1 /\ j + 1 \in 1 .. q
            BY <2>5, <5>2
          <6> QED BY <2>8, <3>5, <6>1 DEF g
        <5> QED BY <5>1, <5>2
      <4>2. Len(s[i].sent) - 1 = q
        BY <2>5, <3>5
      <4> QED BY <4>1, <4>2
    <3>7. OpenGroup(s[i], i, Len(s[i].sent), x, m, k, B)
      <4>1. i = k * Len(s[i].sent) /\ Len(s[i].sent) \in Nat /\ i \in 0 .. m
        <5>1. k * (q + 1) = k * q + k
          BY <2>5
        <5>2. i = k * q + k
          BY <2>7, <2>12, <3>2
        <5> QED BY <1>1, <2>5, <3>5, <5>1, <5>2
      <4> QED BY <1>1, <1>3, <3>4, <4>1, GroupOpens
    <3> QED BY <3>6, <3>7 DEF MeansSent
  <2> QED BY <2>11, <2>12
<1> HIDE DEF Good
<1>7. \A i \in 0 .. m : i \in Good
  BY <1>1, <1>5, <1>6, UpTo
<1> QED BY <1>7 DEF Good

(* Every distance sent is the mean of its group.                           *)
LEMMA GroupMeansAre ==
  ASSUME NEW d \in Seq(NoEcho .. Noise), NEW k \in Nat \ {0}, NEW B \in Nat,
         NEW x, \A p \in 0 .. Len(d) - 1 : x[p] = d[p + 1],
         WithinBound(x, Len(d), k, B)
  PROVE  \A q \in 0 .. Len(GroupMeans(d, k)) - 1 :
           GroupMeans(d, k)[q + 1] = MeanOf(q, x, Len(d), k)
<1> DEFINE m == Len(d)
           sent == GroupMeans(d, k)
<1>1. m \in Nat /\ m \in 0 .. m /\ \A i \in 1 .. m : d[i] \in NoEcho .. Noise
  <2>1. m \in Nat /\ \A i \in 1 .. m : d[i] \in NoEcho .. Noise
    BY Elements
  <2> HIDE DEF m
  <2> QED BY <2>1
<1>2. PICK s : /\ IsGroupLoop(s, d, k)
               /\ sent = IF s[m].cnt # 0 THEN SendGroup(s[m]).sent ELSE s[m].sent
  BY GroupMeansLoops
<1> DEFINE h == s[m]
           q == Len(h.sent)
<1>3. h \in GroupStates
  BY <1>1, <1>2 DEF IsGroupLoop
<1>4. h.cnt < k /\ m = k * q + h.cnt
  BY <1>1, <1>2, GroupLoopAccounts DEF GroupsAccount
<1>5. h.cnt \in Nat /\ h.sent \in Seq(Int) /\ q \in Nat
  BY <1>3 DEF GroupStates
<1>6. /\ \A j \in 0 .. q - 1 : h.sent[j + 1] = MeanOf(j, x, m, k)
      /\ OpenGroup(h, m, q, x, m, k, B)
  BY <1>1, <1>2, GroupLoopMeans DEF MeansSent
<1>7. CASE h.cnt = 0
  <2>1. sent = h.sent
    BY <1>2, <1>7
  <2> QED BY <1>6, <2>1
<1>8. CASE h.cnt # 0
  <2>1. sent = Append(h.sent, MeanToSend(h)) /\ MeanToSend(h) \in Int
    BY <1>2, <1>3, <1>8, SendGroupFields
  <2>2. AreDistances(x, m)
    <3>1. ASSUME NEW p \in 0 .. m - 1 PROVE x[p] \in NoEcho .. Noise
      <4>1. p + 1 \in 1 .. m /\ x[p] = d[p + 1]
        BY <1>1
      <4> QED BY <1>1, <4>1
    <3> QED BY <3>1 DEF AreDistances
  <2>3. m \in 1 .. m
    <3> DEFINE a == k * q
    <3>1. a \in Nat
      BY <1>5
    <3>2. m = a + h.cnt
      BY <1>4, Zenon
    <3> HIDE DEF a, m, h
    <3> QED BY <1>5, <1>8, <3>1, <3>2
  <2>4. MeanToSend(h) = MeanOf(q, x, m, k)
    <3>1. h.cnt > 0 /\ h.cnt <= k
      BY <1>4, <1>5, <1>8
    <3> HIDE DEF m, h, q
    <3> QED BY <1>1, <1>3, <1>4, <1>5, <1>6, <2>2, <2>3, <3>1, SentMean
  <2>5. /\ Len(sent) = q + 1
        /\ \A j \in 1 .. q : sent[j] = h.sent[j]
        /\ sent[q + 1] = MeanToSend(h)
    <3> HIDE DEF m, h, sent
    <3> QED BY <1>5, <2>1, AppendedElements
  <2>6. ASSUME NEW j \in 0 .. q PROVE sent[j + 1] = MeanOf(j, x, m, k)
    <3> HIDE DEF m, h, q, sent
    <3>1. CASE j = q
      BY <2>4, <2>5, <3>1
    <3>2. CASE j # q
      <4>1. j \in 0 .. q - 1 /\ j + 1 \in 1 .. q
        BY <1>5, <3>2
      <4> QED BY <1>6, <2>5, <4>1 DEF h
    <3> QED BY <3>1, <3>2
  <2>7. Len(sent) - 1 = q
    BY <1>5, <2>5
  <2> QED BY <2>6, <2>7
<1> QED BY <1>7, <1>8

-----------------------------------------------------------------------------
(* The frames: nine parameters, and one echo for every point.              *)

OneEcho(l) == l \in Layout /\ l.params = 9 /\ l.echoes <= 1

(* A frame of layout l with n points: its header accounts for its words.   *)
IsFrame(f, l, n) ==
  /\ DOMAIN f = 0 .. 12 + n * SampleWords(l)
  /\ f[1] = 44 + 4 * (n * SampleWords(l))
  /\ f[2] = 9
  /\ f[7] = l.echoes
  /\ f[11] = l.content
  /\ f[12] = n

(* The word of the distance of point p.                                    *)
At(l, p) == 13 + p * SampleWords(l)

LEMMA LayoutFields ==
  ASSUME NEW l, OneEcho(l)
  PROVE  /\ l.params = 9
         /\ l.echoes \in {0, 1}
         /\ l.content \in {4, 7, 8}
         /\ l.points \in Nat
         /\ SampleWords(l) = 1 \/ SampleWords(l) = 2
         /\ SampleWords(l) = 1 <=> l.content = 4
  BY DEF OneEcho, Layout, SampleWords, DATABLOCK_WITH_DISTANCES

LEMMA FrameFields ==
  ASSUME NEW l, OneEcho(l), NEW n \in Nat, NEW f, IsFrame(f, l, n)
  PROVE  /\ PointsAt(f) = 12 /\ DataAt(f) = 13
         /\ Echoes(f) = 1 /\ EchoWords(f) = SampleWords(l)
         /\ f[PointsAt(f)] = n
         /\ Parameter(f, PARAMETER_DATA_CONTENT) # NO_DATABLOCK
         /\ InLimits(f) <=> n <= MAX_POINTS_PER_SCAN
<1>1. PointsAt(f) = 12 /\ DataAt(f) = 13
  BY DEF IsFrame, PointsAt, DataAt
<1>2. Parameter(f, PARAMETER_NUMBER_OF_ECHOES) = l.echoes
  BY DEF IsFrame, Parameter, PARAMETER_NUMBER_OF_ECHOES, NUMBER_OF_SCAN_PARAMETER
<1>3. Parameter(f, PARAMETER_DATA_CONTENT) = l.content
  BY DEF IsFrame, Parameter, PARAMETER_DATA_CONTENT, NUMBER_OF_SCAN_PARAMETER
<1>4. Echoes(f) = 1
  <2>1. l.echoes \in {0, 1}
    BY LayoutFields
  <2> QED BY <1>2, <2>1 DEF Echoes
<1>5. EchoWords(f) = SampleWords(l)
  BY <1>3 DEF EchoWords, SampleWords
<1>6. f[PointsAt(f)] = n
  BY <1>1 DEF IsFrame
<1>7. InLimits(f) <=> n <= MAX_POINTS_PER_SCAN
  BY <1>4, <1>6, ScanFrameAssumption DEF InLimits
<1>8. l.content # NO_DATABLOCK
  BY LayoutFields DEF NO_DATABLOCK
<1> QED BY <1>1, <1>3, <1>4, <1>5, <1>6, <1>7, <1>8

(* The words of a frame of n points: the header, the distances and the     *)
(* pulse widths are three different things.                                *)
LEMMA Words ==
  ASSUME NEW l, OneEcho(l), NEW n \in Nat
  PROVE  /\ \A p \in 0 .. n - 1 :
              /\ At(l, p) \in 13 .. 12 + n * SampleWords(l)
              /\ SampleWords(l) = 2 =>
                   /\ At(l, p) + 1 \in 13 .. 12 + n * SampleWords(l)
                   /\ \A q \in 0 .. n - 1 : At(l, p) + 1 # At(l, q)
         /\ n * SampleWords(l) \in Nat
<1>1. SampleWords(l) = 1 \/ SampleWords(l) = 2
  BY LayoutFields
<1>2. CASE SampleWords(l) = 1
  <2>1. \A p \in 0 .. n - 1 : At(l, p) = 13 + p
    BY <1>2 DEF At
  <2>2. n * SampleWords(l) = n
    BY <1>2
  <2> QED BY <1>2, <2>1, <2>2
<1>3. CASE SampleWords(l) = 2
  <2>1. \A p \in 0 .. n - 1 : At(l, p) = 13 + 2 * p
    BY <1>3 DEF At
  <2>2. n * SampleWords(l) = 2 * n
    BY <1>3
  <2> QED BY <2>1, <2>2
<1> QED BY <1>1, <1>2, <1>3

(* The data of a frame: n distances, and the pulse widths if there are any.*)
HasData(f, l, n) ==
  \A p \in 0 .. n - 1 :
    /\ f[At(l, p)] \in NoEcho .. Noise
    /\ SampleWords(l) = 2 => f[At(l, p) + 1] \in Int

(* What the client reads from a frame within the limits.                   *)
LEMMA ParsedScan ==
  ASSUME NEW l, OneEcho(l), NEW n \in Nat, NEW f, IsFrame(f, l, n),
         n <= MAX_POINTS_PER_SCAN
  PROVE  /\ ParseScan(f).result = ERR_SUCCESS
         /\ ParseScan(f).scan.mNumberOfParameter = 9
         /\ ParseScan(f).scan.mNumberOfPoints = n
         /\ ParseScan(f).scan.mNumberOfEchoes = 1
         /\ DOMAIN ParseScan(f).scan.mScanData = 0 .. n - 1
         /\ \A p \in 0 .. n - 1 :
              /\ ParseScan(f).scan.mScanData[p][0].mDistance = f[At(l, p)]
              /\ SampleWords(l) = 1 =>
                   ParseScan(f).scan.mScanData[p][0].mPulseWidth = 0
              /\ SampleWords(l) = 2 =>
                   ParseScan(f).scan.mScanData[p][0].mPulseWidth = f[At(l, p) + 1]
<1>1. /\ DataAt(f) = 13 /\ Echoes(f) = 1 /\ EchoWords(f) = SampleWords(l)
      /\ f[PointsAt(f)] = n /\ InLimits(f)
      /\ Parameter(f, PARAMETER_DATA_CONTENT) # NO_DATABLOCK
  BY FrameFields
<1> DEFINE z == SampleWords(l)
           scan == ParseScan(f).scan
           word(p, e) == 13 + (p * 1 + e) * z
<1>2. Min({f[2], NUMBER_OF_SCAN_PARAMETER}) = 9
  <2>1. f[2] = 9
    BY DEF IsFrame
  <2> QED BY <2>1 DEF Min, NUMBER_OF_SCAN_PARAMETER
<1>3. /\ ParseScan(f).result = ERR_SUCCESS
      /\ scan.mNumberOfParameter = 9
      /\ scan.mNumberOfPoints = n
      /\ scan.mNumberOfEchoes = 1
      /\ scan.mScanData = ScanData(f)
  BY <1>1, <1>2 DEF ParseScan
<1>4. ScanData(f) = [p \in 0 .. n - 1 |-> [e \in 0 .. 0 |->
        [mDistance |-> f[word(p, e)],
         mPulseWidth |-> IF z = 2 THEN f[word(p, e) + 1] ELSE 0]]]
  BY <1>1 DEF ScanData
<1>5. ASSUME NEW p \in 0 .. n - 1
      PROVE  scan.mScanData[p][0] =
               [mDistance |-> f[At(l, p)],
                mPulseWidth |-> IF z = 2 THEN f[At(l, p) + 1] ELSE 0]
  <2>1. scan.mScanData[p] = [e \in 0 .. 0 |->
          [mDistance |-> f[word(p, e)],
           mPulseWidth |-> IF z = 2 THEN f[word(p, e) + 1] ELSE 0]]
    BY <1>3, <1>4
  <2>2. word(p, 0) = At(l, p)
    <3>1. p * 1 + 0 = p
      OBVIOUS
    <3> QED BY <3>1 DEF At
  <2>3. 0 \in 0 .. 0
    OBVIOUS
  <2> HIDE DEF scan, z
  <2> QED BY <2>1, <2>2, <2>3
<1>6. DOMAIN scan.mScanData = 0 .. n - 1
  BY <1>3, <1>4
<1> HIDE DEF scan
<1>7. ASSUME NEW p \in 0 .. n - 1
      PROVE  /\ scan.mScanData[p][0].mDistance = f[At(l, p)]
             /\ SampleWords(l) = 1 => scan.mScanData[p][0].mPulseWidth = 0
             /\ SampleWords(l) = 2 =>
                  scan.mScanData[p][0].mPulseWidth = f[At(l, p) + 1]
  <2> DEFINE echo == scan.mScanData[p][0]
             a == f[At(l, p)]
             b == f[At(l, p) + 1]
  <2>1. echo = [mDistance |-> a, mPulseWidth |-> IF z = 2 THEN b ELSE 0]
    BY <1>5
  <2> HIDE DEF echo, a, b
  <2>2. echo.mDistance = a /\ echo.mPulseWidth = IF z = 2 THEN b ELSE 0
    BY <2>1
  <2> QED BY <2>2 DEF echo, a, b
<1> QED BY <1>3, <1>6, <1>7 DEF scan

LEMMA ParsedBeyond ==
  ASSUME NEW l, OneEcho(l), NEW n \in Nat, NEW f, IsFrame(f, l, n),
         ~(n <= MAX_POINTS_PER_SCAN)
  PROVE  ParseScan(f).result = ERR_BUFFER_OVERFLOW
<1>1. ~InLimits(f)
  BY FrameFields
<1> QED BY <1>1 DEF ParseScan

(* The sensor's frame, and what its data are.                              *)
LEMMA SensorFrameIs ==
  ASSUME NEW l, OneEcho(l), NEW d \in SensorData(l)
  PROVE  /\ IsFrame(SensorFrame(l, d), l, l.points)
         /\ HasData(SensorFrame(l, d), l, l.points)
         /\ \A p \in 0 .. l.points - 1 : SensorFrame(l, d)[At(l, p)] \in Distances
<1> DEFINE n == l.points
           z == SampleWords(l)
           f == SensorFrame(l, d)
<1>1. n \in Nat /\ l.params = 9 /\ l.echoes \in {0, 1} /\ (z = 1 \/ z = 2)
  BY LayoutFields
<1> DEFINE samples == n * (IF l.echoes = 0 THEN 1 ELSE l.echoes)
<1>2. samples = n
  BY <1>1
<1>3. n * z \in Nat
  BY Words, <1>1
<1>4. PICK dd \in [0 .. samples - 1 -> Distances],
            pw \in [0 .. (IF z = 2 THEN samples ELSE 0) - 1 -> PulseWidths] :
         d = [w \in 0 .. samples * z - 1 |->
                IF z = 2 /\ w % 2 = 1 THEN pw[w \div z] ELSE dd[w \div z]]
  <2> DEFINE D == [0 .. samples - 1 -> Distances]
             P == [0 .. (IF z = 2 THEN samples ELSE 0) - 1 -> PulseWidths]
             F(dd, pw) == [w \in 0 .. samples * z - 1 |->
                             IF z = 2 /\ w % 2 = 1 THEN pw[w \div z]
                             ELSE dd[w \div z]]
  <2>1. SensorData(l) = {F(dd, pw) : dd \in D, pw \in P}
    BY DEF SensorData
  <2> HIDE DEF D, P, F
  <2>2. \E dd \in D, pw \in P : d = F(dd, pw)
    BY <2>1
  <2> QED BY <2>2 DEF D, P, F
<1> HIDE DEF samples, n, z
<1>5. /\ dd \in [0 .. n - 1 -> Distances]
      /\ pw \in [0 .. (IF z = 2 THEN n ELSE 0) - 1 -> PulseWidths]
      /\ d = [w \in 0 .. n * z - 1 |->
                IF z = 2 /\ w % 2 = 1 THEN pw[w \div z] ELSE dd[w \div z]]
  BY <1>2, <1>4
<1> USE DEF n, z
<1>6. DOMAIN d = 0 .. n * z - 1
  BY <1>5
<1>7. Cardinality(DOMAIN d) = n * z
  BY <1>3, <1>6, IntervalSize
<1>8. f = [w \in 0 .. 3 + 9 + n * z |->
             CASE w = 0 -> 0
               [] w = 1 -> 8 + 4 * 9 + 4 * (n * z)
               [] w = 2 -> 9
               [] w = 3 + 4 -> l.echoes
               [] w = 3 + 8 -> l.content
               [] w = 3 + 9 -> n
               [] w > 3 + 9 -> d[w - 4 - 9]
               [] OTHER -> 0]
  BY <1>1, <1>7 DEF SensorFrame, PARAMETER_NUMBER_OF_ECHOES, PARAMETER_DATA_CONTENT
<1> HIDE DEF f, z, n
<1>9. IsFrame(f, l, n)
  <2> DEFINE words == n * z
  <2>1. words \in Nat
    BY <1>3
  <2> HIDE DEF words
  <2>2. f = [w \in 0 .. 3 + 9 + words |->
               CASE w = 0 -> 0
                 [] w = 1 -> 8 + 4 * 9 + 4 * words
                 [] w = 2 -> 9
                 [] w = 3 + 4 -> l.echoes
                 [] w = 3 + 8 -> l.content
                 [] w = 3 + 9 -> n
                 [] w > 3 + 9 -> d[w - 4 - 9]
                 [] OTHER -> 0]
    BY <1>8 DEF words
  <2>3. /\ DOMAIN f = 0 .. 12 + words
        /\ f[1] = 44 + 4 * words
        /\ f[2] = 9
        /\ f[7] = l.echoes
        /\ f[11] = l.content
        /\ f[12] = n
    BY <2>1, <2>2
  <2> QED BY <2>3 DEF IsFrame, words, z
<1>10. ASSUME NEW w \in 13 .. 12 + n * z PROVE f[w] = d[w - 13]
  <2> DEFINE words == n * z
  <2>1. words \in Nat /\ w \in 13 .. 12 + words
    BY <1>3
  <2>2. w \in 0 .. 3 + 9 + n * z /\ ~ (w <= 12) /\ w \in Int /\ w - 4 - 9 = w - 13
    <3> HIDE DEF words
    <3>1. w \in 0 .. 3 + 9 + words /\ ~ (w <= 12) /\ w \in Int /\ w - 4 - 9 = w - 13
      BY <2>1
    <3> QED BY <3>1 DEF words
  <2> HIDE DEF words
  <2> QED BY <1>8, <2>2
<1>11. ASSUME NEW p \in 0 .. n - 1
       PROVE  /\ f[At(l, p)] \in Distances
              /\ z = 2 => f[At(l, p) + 1] \in PulseWidths
  <2>1. At(l, p) \in 13 .. 12 + n * z /\ At(l, p) = 13 + p * z
    BY <1>1, Words DEF z, At
  <2>2. f[At(l, p)] = d[At(l, p) - 13]
    BY <1>10, <2>1
  <2>3. dd[p] \in Distances
    BY <1>5
  <2>4. CASE z = 1
    <3>1. At(l, p) - 13 = p /\ n * z = n /\ p \div 1 = p
      BY <1>1, <2>1, <2>4
    <3>2. d[p] = dd[p]
      BY <1>5, <2>4, <3>1
    <3> QED BY <2>2, <2>3, <2>4, <3>1, <3>2
  <2>5. CASE z = 2
    <3>1. At(l, p) = 13 + 2 * p /\ n * z = 2 * n
      BY <1>1, <2>1, <2>5
    <3>2. /\ At(l, p) - 13 = 2 * p /\ (2 * p) % 2 # 1 /\ (2 * p) \div 2 = p
          /\ 2 * p \in 0 .. 2 * n - 1
      BY <1>1, <3>1
    <3>3. d[2 * p] = dd[p]
      BY <1>5, <2>5, <3>1, <3>2
    <3>4. /\ At(l, p) + 1 \in 13 .. 12 + n * z
          /\ (At(l, p) + 1) - 13 = 2 * p + 1
          /\ (2 * p + 1) % 2 = 1 /\ (2 * p + 1) \div 2 = p
          /\ 2 * p + 1 \in 0 .. 2 * n - 1
      BY <1>1, <3>1
    <3>5. d[2 * p + 1] = pw[p]
      BY <1>5, <2>5, <3>1, <3>4
    <3>6. pw[p] \in PulseWidths
      <4>1. p \in 0 .. (IF z = 2 THEN n ELSE 0) - 1
        BY <2>5
      <4> QED BY <1>5, <4>1
    <3>7. f[At(l, p) + 1] = d[2 * p + 1]
      BY <1>10, <3>4
    <3> QED BY <2>2, <2>3, <3>2, <3>3, <3>5, <3>6, <3>7
  <2> QED BY <1>1, <2>4, <2>5
<1>12. Distances \subseteq NoEcho .. Noise /\ PulseWidths \subseteq Int
  BY AveragingAssumption
<1>13. HasData(f, l, n)
  BY <1>11, <1>12 DEF HasData, z
<1> QED BY <1>9, <1>11, <1>13 DEF f, n

-----------------------------------------------------------------------------
(* The averages of a frame.                                                *)

LEMMA ScanAverageIs ==
  ASSUME NEW l, OneEcho(l), NEW n \in Nat, n <= MAX_POINTS_PER_SCAN,
         NEW N \in Nat \ {0}, NEW rcvd,
         \A i \in 0 .. N - 1 : IsFrame(rcvd[i], l, n) /\ HasData(rcvd[i], l, n),
         NEW f, IsFrame(f, l, n)
  PROVE  LET g == ScanAverage(f, rcvd, N)
         IN  /\ IsFrame(g, l, n)
             /\ \A p \in 0 .. n - 1 :
                  /\ g[At(l, p)] = MeanDistance(rcvd, N, At(l, p))
                  /\ SampleWords(l) = 2 =>
                       g[At(l, p) + 1] = MeanPulseWidth(rcvd, N, At(l, p) + 1)
             /\ HasData(g, l, n)
<1> DEFINE z == SampleWords(l)
           A == {At(l, p) : p \in 0 .. n - 1}
           g == ScanAverage(f, rcvd, N)
<1>1. /\ DataAt(f) = 13 /\ Echoes(f) = 1 /\ EchoWords(f) = z
      /\ f[PointsAt(f)] = n /\ InLimits(f)
  BY FrameFields
<1>2. {13 + (p * 1 + 1 - 1) * z : p \in 0 .. n - 1} = A
  <2>1. \A p \in 0 .. n - 1 : 13 + (p * 1 + 1 - 1) * z = At(l, p)
    <3> TAKE p \in 0 .. n - 1
    <3>1. p * 1 + 1 - 1 = p
      OBVIOUS
    <3> QED BY <3>1 DEF At
  <2> QED BY <2>1
<1>3. g = [w \in DOMAIN f |->
             IF w \in A THEN MeanDistance(rcvd, N, w)
             ELSE IF z = 2 /\ w - 1 \in A THEN MeanPulseWidth(rcvd, N, w)
             ELSE f[w]]
  BY <1>1, <1>2 DEF ScanAverage
<1>4. DOMAIN f = 0 .. 12 + n * z /\ n * z \in Nat
  BY Words DEF IsFrame
<1>5. \A w \in A : w \in Int /\ w >= 13
  <2>1. \A p \in 0 .. n - 1 : At(l, p) \in 13 .. 12 + n * z
    BY Words
  <2> QED BY <1>4, <2>1
<1> HIDE DEF g, A, z
<1>6. \A w \in 0 .. 12 : g[w] = f[w]
  <2> TAKE w \in 0 .. 12
  <2>1. w \notin A /\ w - 1 \notin A
    BY <1>5
  <2>2. w \in DOMAIN f
    <3> DEFINE words == n * z
    <3> HIDE DEF words
    <3>1. words \in Nat /\ DOMAIN f = 0 .. 12 + words
      BY <1>4 DEF words
    <3> QED BY <3>1
  <2> QED BY <1>3, <2>1, <2>2
<1>7. IsFrame(g, l, n)
  <2>1. DOMAIN g = DOMAIN f
    BY <1>3
  <2>2. g[1] = f[1] /\ g[2] = f[2] /\ g[7] = f[7] /\ g[11] = f[11] /\ g[12] = f[12]
    BY <1>6
  <2> QED BY <2>1, <2>2 DEF IsFrame
<1>8. ASSUME NEW p \in 0 .. n - 1
      PROVE  /\ g[At(l, p)] = MeanDistance(rcvd, N, At(l, p))
             /\ z = 2 => g[At(l, p) + 1] = MeanPulseWidth(rcvd, N, At(l, p) + 1)
  <2>1. At(l, p) \in A /\ At(l, p) \in DOMAIN f
    <3>1. At(l, p) \in 13 .. 12 + n * z
      BY Words DEF z
    <3>2. At(l, p) \in 0 .. 12 + n * z
      <4> DEFINE words == n * z
                 a == At(l, p)
      <4> HIDE DEF words, a
      <4>1. words \in Nat /\ a \in 13 .. 12 + words
        BY <1>4, <3>1 DEF words, a
      <4>2. a \in 0 .. 12 + words
        BY <4>1
      <4> QED BY <4>2 DEF words, a
    <3> QED BY <1>4, <3>2 DEF A
  <2>2. z = 2 => /\ At(l, p) + 1 \notin A
                 /\ (At(l, p) + 1) - 1 \in A
                 /\ At(l, p) + 1 \in DOMAIN f
    <3> HAVE z = 2
    <3>1. /\ At(l, p) + 1 \in 13 .. 12 + n * z
          /\ \A q \in 0 .. n - 1 : At(l, p) + 1 # At(l, q)
      BY Words DEF z
    <3>2. At(l, p) + 1 \notin A
      BY <3>1 DEF A
    <3>3. (At(l, p) + 1) - 1 = At(l, p)
      BY <1>5, <2>1
    <3>4. At(l, p) + 1 \in 0 .. 12 + n * z
      <4> DEFINE words == n * z
                 a == At(l, p) + 1
      <4> HIDE DEF words, a
      <4>1. words \in Nat /\ a \in 13 .. 12 + words
        BY <1>4, <3>1 DEF words, a
      <4>2. a \in 0 .. 12 + words
        BY <4>1
      <4> QED BY <4>2 DEF words, a
    <3> QED BY <1>4, <2>1, <3>2, <3>3, <3>4
  <2>3. g[At(l, p)] = MeanDistance(rcvd, N, At(l, p))
    BY <1>3, <2>1
  <2>4. z = 2 => g[At(l, p) + 1] = MeanPulseWidth(rcvd, N, At(l, p) + 1)
    BY <1>3, <2>2
  <2> QED BY <2>3, <2>4
<1>9. HasData(g, l, n)
  <2>1. ASSUME NEW p \in 0 .. n - 1
        PROVE  MeanDistance(rcvd, N, At(l, p)) \in NoEcho .. Noise
    <3> DEFINE w == At(l, p)
               x == [i \in 0 .. N - 1 |-> rcvd[i][w]]
    <3>1. \A i \in 0 .. N - 1 : x[i] \in NoEcho .. Noise /\ rcvd[i][w] = x[i]
      BY DEF HasData
    <3> HIDE DEF w, x
    <3> QED BY <3>1, MeanDistanceAmong DEF w
  <2>2. ASSUME NEW p \in 0 .. n - 1, z = 2
        PROVE  MeanPulseWidth(rcvd, N, At(l, p) + 1) \in Int
    <3> DEFINE w == At(l, p) + 1
               x == [i \in 0 .. N - 1 |-> rcvd[i][w]]
    <3>1. \A i \in 0 .. N - 1 : x[i] \in Int
      BY <2>2 DEF HasData, z
    <3>2. Integers(x, N) /\ N \in 0 .. N
      BY <3>1 DEF Integers
    <3>3. MeanPulseWidth(rcvd, N, w) = Quotient(Total(x, N), N)
      BY DEF MeanPulseWidth
    <3> HIDE DEF w, x
    <3>4. Total(x, N) \in Int
      BY <3>2, TotalAdds
    <3>5. Quotient(Total(x, N), N) \in Int
      BY <3>4, QuotientType
    <3> QED BY <3>3, <3>5 DEF w
  <2> QED BY <1>8, <2>1, <2>2 DEF HasData, z
<1> QED BY <1>7, <1>8, <1>9 DEF g, z

(* The distances of a frame in their order.                                *)
DistancesOf(f, l, n) == [s \in 1 .. n |-> f[At(l, s - 1)]]

LEMMA DistancesType ==
  ASSUME NEW l, NEW n \in Nat, NEW f, HasData(f, l, n)
  PROVE  /\ DistancesOf(f, l, n) \in Seq(NoEcho .. Noise)
         /\ Len(DistancesOf(f, l, n)) = n
         /\ \A p \in 0 .. n - 1 : DistancesOf(f, l, n)[p + 1] = f[At(l, p)]
<1> DEFINE d == DistancesOf(f, l, n)
<1>1. ASSUME NEW p \in 0 .. n - 1 PROVE d[p + 1] = f[At(l, p)]
  <2>1. p + 1 \in 1 .. n /\ (p + 1) - 1 = p
    OBVIOUS
  <2> QED BY <2>1 DEF DistancesOf
<1>2. ASSUME NEW s \in 1 .. n PROVE d[s] \in NoEcho .. Noise
  <2>1. s - 1 \in 0 .. n - 1
    OBVIOUS
  <2> QED BY <2>1 DEF DistancesOf, HasData
<1>3. d = [s \in 1 .. n |-> d[s]]
  BY DEF DistancesOf
<1> HIDE DEF d
<1>4. d \in Seq(NoEcho .. Noise) /\ Len(d) = n
  <2> DEFINE S == NoEcho .. Noise
  <2>1. d \in [1 .. n -> S]
    BY <1>2, <1>3
  <2> HIDE DEF S
  <2>2. d \in Seq(S) /\ Len(d) = n
    BY <2>1
  <2> QED BY <2>2 DEF S
<1> QED BY <1>1, <1>4 DEF d

LEMMA PointAverageIs ==
  ASSUME NEW l, OneEcho(l), NEW n \in Nat, n <= MAX_POINTS_PER_SCAN,
         NEW k \in Nat \ {0}, NEW f, IsFrame(f, l, n), HasData(f, l, n)
  PROVE  LET sent == GroupMeans(DistancesOf(f, l, n), k)
             g == PointAverage(f, k)
         IN  /\ Len(sent) \in Nat
             /\ IsFrame(g, l, Len(sent))
             /\ \A q \in 0 .. Len(sent) - 1 :
                  /\ g[At(l, q)] = sent[q + 1]
                  /\ SampleWords(l) = 2 => g[At(l, q) + 1] = f[At(l, q) + 1]
<1> DEFINE z == SampleWords(l)
           sent == GroupMeans(DistancesOf(f, l, n), k)
           g == PointAverage(f, k)
           M == Len(sent)
<1>1. /\ DataAt(f) = 13 /\ Echoes(f) = 1 /\ EchoWords(f) = z
      /\ f[PointsAt(f)] = n /\ InLimits(f)
  BY FrameFields
<1>2. SentDistances(f, k) = sent
  <2>1. n * 1 = n
    OBVIOUS
  <2>2. [s \in 1 .. n * 1 |-> f[13 + (s - 1) * z]] = DistancesOf(f, l, n)
    BY <2>1 DEF DistancesOf, At
  <2> QED BY <1>1, <2>2 DEF SentDistances
<1>3. f[2] = 9 /\ f[7] = l.echoes /\ f[11] = l.content
  BY DEF IsFrame
<1>4. sent \in Seq(Int) /\ M \in Nat
  <2>1. sent \in Seq(Int)
    BY DistancesType, GroupsFound
  <2> HIDE DEF sent
  <2> QED BY <2>1
<1> DEFINE words == z * M
<1>5. z \in {1, 2}
  BY LayoutFields
<1>6. g = [w \in 0 .. 13 + words - 1 |->
             IF w = 1 THEN 4 + 4 * 9 + 4 + 4 * z * M
             ELSE IF w = 12 THEN M
             ELSE IF w >= 13 /\ (w - 13) % z = 0 THEN sent[(w - 13) \div z + 1]
             ELSE f[w]]
  BY <1>1, <1>2, <1>3 DEF PointAverage
<1> HIDE DEF g, sent, M, z
<1>7. words \in Nat /\ M * z = words /\ 4 * z * M = 4 * words
  <2>1. CASE z = 1
    BY <1>4, <2>1
  <2>2. CASE z = 2
    BY <1>4, <2>2
  <2> QED BY <1>5, <2>1, <2>2
<1> HIDE DEF words
<1>8. /\ DOMAIN g = 0 .. 12 + words
      /\ g[1] = 44 + 4 * words
      /\ g[2] = 9 /\ g[7] = l.echoes /\ g[11] = l.content
      /\ g[12] = M
  <2>1. DOMAIN g = 0 .. 13 + words - 1 /\ 13 + words - 1 = 12 + words
    BY <1>6, <1>7
  <2>2. /\ 1 \in 0 .. 13 + words - 1 /\ 2 \in 0 .. 13 + words - 1
        /\ 7 \in 0 .. 13 + words - 1 /\ 11 \in 0 .. 13 + words - 1
        /\ 12 \in 0 .. 13 + words - 1
    BY <1>7
  <2>3. g[1] = 4 + 4 * 9 + 4 + 4 * z * M
    BY <1>6, <2>2
  <2>4. g[2] = f[2] /\ g[7] = f[7] /\ g[11] = f[11]
    BY <1>6, <2>2
  <2>5. g[12] = M
    BY <1>6, <2>2
  <2>6. g[1] = 44 + 4 * words
    BY <1>7, <2>3
  <2> QED BY <1>3, <2>1, <2>4, <2>5, <2>6
<1>9. IsFrame(g, l, M)
  BY <1>7, <1>8 DEF IsFrame, z
<1>10. ASSUME NEW q \in 0 .. M - 1
       PROVE  /\ g[At(l, q)] = sent[q + 1]
              /\ z = 2 => g[At(l, q) + 1] = f[At(l, q) + 1]
  <2>1. At(l, q) = 13 + q * z
    BY DEF At, z
  <2>2. CASE z = 1
    <3>1. /\ At(l, q) = 13 + q /\ words = M
      BY <1>4, <1>7, <2>1, <2>2
    <3>2. /\ 13 + q \in 0 .. 13 + words - 1
          /\ 13 + q >= 13 /\ (13 + q) - 13 = q /\ q % 1 = 0 /\ q \div 1 = q
          /\ 13 + q # 1 /\ 13 + q # 12
      BY <1>4, <3>1
    <3>3. g[13 + q] = sent[q + 1]
      BY <1>6, <2>2, <3>2
    <3> QED BY <2>2, <3>1, <3>3
  <2>3. CASE z = 2
    <3>1. /\ At(l, q) = 13 + 2 * q /\ words = 2 * M
      BY <1>4, <1>7, <2>1, <2>3
    <3>2. /\ 13 + 2 * q \in 0 .. 13 + words - 1
          /\ 13 + 2 * q >= 13 /\ (13 + 2 * q) - 13 = 2 * q
          /\ (2 * q) % 2 = 0 /\ (2 * q) \div 2 = q
          /\ 13 + 2 * q # 1 /\ 13 + 2 * q # 12
      BY <1>4, <3>1
    <3>3. g[13 + 2 * q] = sent[q + 1]
      BY <1>6, <2>3, <3>2
    <3>4. /\ 14 + 2 * q \in 0 .. 13 + words - 1
          /\ (14 + 2 * q) - 13 = 2 * q + 1 /\ (2 * q + 1) % 2 # 0
          /\ 14 + 2 * q # 1 /\ 14 + 2 * q # 12
          /\ (13 + 2 * q) + 1 = 14 + 2 * q
      BY <1>4, <3>1
    <3>5. g[14 + 2 * q] = f[14 + 2 * q]
      BY <1>6, <2>3, <3>4
    <3> QED BY <3>1, <3>3, <3>4, <3>5
  <2> QED BY <1>5, <2>2, <2>3
<1> QED BY <1>4, <1>9, <1>10 DEF g, sent, M, z

-----------------------------------------------------------------------------
(* The invariant: what the relay holds is computed from the scans it kept. *)

(* What is asked for in the instance that is checked: nine parameters, as  *)
(* word 12 is taken for the number of points, and one echo for every point.*)
OneEchoAsked == \A a \in Asked : OneEcho(a.layout)

(* No sum of a group overflows.                                            *)
SumsFit ==
  \E B \in Nat :
    /\ \A d \in Distances : Valid(d) => -B <= d /\ d <= B
    /\ \A a \in Asked : a.points * B <= INT32_MAX \/ a.layout.points * B <= INT32_MAX

(* A frame as the sensor sends it.                                         *)
IsScan(f) ==
  /\ IsFrame(f, layout, layout.points)
  /\ HasData(f, layout, layout.points)
  /\ \A p \in 0 .. layout.points - 1 : f[At(layout, p)] \in Distances

Collected(cnt) ==
  /\ DOMAIN g_GSC2_GSCN_rcvd_data = 0 .. cnt - 1
  /\ \A i \in 0 .. cnt - 1 : IsScan(g_GSC2_GSCN_rcvd_data[i])

WasAsked ==
  \E a \in Asked : /\ layout = a.layout
                   /\ g_GSC2_ScanAvgNumber = a.scans
                   /\ g_GSC2_PointAvgNumber = a.points

LastScan == g_GSC2_GSCN_rcvd_data[g_GSC2_ScanAvgNumber - 1]
AveragedScan == ScanAverage(LastScan, g_GSC2_GSCN_rcvd_data, g_GSC2_ScanAvgNumber)
Answer == PointAverage(AveragedScan, g_GSC2_PointAvgNumber)

Collecting ==
  /\ phase = "collecting"
  /\ WasAsked
  /\ \E cnt \in 0 .. g_GSC2_ScanAvgNumber - 1 : Collected(cnt)

Computed ==
  /\ WasAsked
  /\ Collected(g_GSC2_ScanAvgNumber)
  /\ \/ phase = "complete" /\ data = LastScan
     \/ phase = "averaged" /\ data = AveragedScan
     \/ phase = "sent" /\ data = Answer
     \/ phase = "parsed" /\ data = Answer /\ parsed = ParseScan(data)

AveragingInv ==
  \/ phase = "parsed" /\ data = NoFrame
  \/ Collecting
  \/ Computed

LEMMA AskedFields ==
  ASSUME WasAsked
  PROVE  /\ g_GSC2_ScanAvgNumber \in 1 .. 10
         /\ g_GSC2_PointAvgNumber \in Nat \ {0}
         /\ OneEchoAsked => OneEcho(layout)
         /\ layout.points \in Nat
<1>1. PICK a \in Asked : /\ layout = a.layout
                         /\ g_GSC2_ScanAvgNumber = a.scans
                         /\ g_GSC2_PointAvgNumber = a.points
  BY DEF WasAsked
<1>2. a \in Asks
  BY AveragingAssumption
<1>3. a.layout \in Layout /\ a.scans \in 1 .. 10 /\ a.points \in Nat \ {0}
  BY <1>2, AveragingAssumption DEF Asks
<1> QED BY <1>1, <1>3 DEF OneEchoAsked, Layout

LEMMA KeepScanStep ==
  ASSUME OneEchoAsked, Collecting, NEW d \in SensorData(layout), KeepScan(d)
  PROVE  AveragingInv'
<1> DEFINE N == g_GSC2_ScanAvgNumber
           rcvd == g_GSC2_GSCN_rcvd_data
<1>1. PICK c \in 0 .. N - 1 : Collected(c)
  BY DEF Collecting
<1>2. WasAsked /\ N \in 1 .. 10 /\ OneEcho(layout)
  BY AskedFields DEF Collecting
<1>3. c \in Nat /\ c + 1 <= N
  BY <1>2
<1>4. DOMAIN rcvd = 0 .. c - 1 /\ \A i \in 0 .. c - 1 : IsScan(rcvd[i])
  BY <1>1 DEF Collected
<1>5. Cardinality(DOMAIN rcvd) = c
  BY <1>3, <1>4, IntervalSize
<1>6. /\ data' = SensorFrame(layout, d)
      /\ rcvd' = [i \in 0 .. c |-> IF i = c THEN data' ELSE rcvd[i]]
      /\ phase' = IF c + 1 < N THEN "collecting" ELSE "complete"
      /\ layout' = layout /\ N' = N
      /\ g_GSC2_PointAvgNumber' = g_GSC2_PointAvgNumber
  BY <1>5, Zenon DEF KeepScan
<1>7. WasAsked'
  BY <1>2, <1>6 DEF WasAsked
<1>8. IsScan(data')
  BY <1>2, <1>6, SensorFrameIs DEF IsScan
<1>9. ASSUME NEW i \in 0 .. c PROVE IsScan(rcvd'[i])
  <2>1. CASE i = c
    <3>1. rcvd'[i] = data'
      BY <1>6, <2>1
    <3> QED BY <1>8, <3>1
  <2>2. CASE i # c
    <3>1. rcvd'[i] = rcvd[i] /\ i \in 0 .. c - 1
      BY <1>3, <1>6, <2>2
    <3> QED BY <1>4, <3>1
  <2> QED BY <2>1, <2>2
<1>10. Collected(c + 1)'
  <2>1. DOMAIN rcvd' = 0 .. c /\ (c + 1) - 1 = c
    BY <1>3, <1>6
  <2>2. ASSUME NEW i \in 0 .. c PROVE IsScan(g_GSC2_GSCN_rcvd_data[i])'
    <3>1. IsScan(rcvd'[i]) /\ layout' = layout
      BY <1>6, <1>9
    <3> QED BY <3>1 DEF IsScan
  <2> QED BY <2>1, <2>2 DEF Collected
<1>11. CASE c + 1 < N
  <2>1. phase' = "collecting" /\ c + 1 \in 0 .. N' - 1
    BY <1>2, <1>3, <1>6, <1>11
  <2> QED BY <1>7, <1>10, <2>1 DEF AveragingInv, Collecting
<1>12. CASE ~(c + 1 < N)
  <2>1. phase' = "complete" /\ c + 1 = N' /\ N' - 1 = c
    BY <1>2, <1>3, <1>6, <1>12
  <2>2. rcvd'[c] = data'
    BY <1>3, <1>6
  <2>3. data' = LastScan'
    BY <2>1, <2>2 DEF LastScan
  <2>4. Collected(g_GSC2_ScanAvgNumber)'
    BY <1>10, <2>1
  <2> QED BY <1>7, <2>1, <2>3, <2>4 DEF AveragingInv, Computed
<1> QED BY <1>11, <1>12

LEMMA AveragingInvInit == Init => AveragingInv
  BY DEF Init, AveragingInv

(* A step that keeps the scans and the numbers keeps what follows.         *)
LEMMA KeptScans ==
  ASSUME Computed,
         UNCHANGED <<layout, g_GSC2_ScanAvgNumber, g_GSC2_PointAvgNumber,
                     g_GSC2_GSCN_rcvd_data>>
  PROVE  /\ WasAsked' /\ Collected(g_GSC2_ScanAvgNumber)'
         /\ AveragedScan' = AveragedScan /\ Answer' = Answer
<1>1. WasAsked'
  BY DEF Computed, WasAsked
<1>2. Collected(g_GSC2_ScanAvgNumber)'
  BY DEF Computed, Collected, IsScan
<1>3. LastScan' = LastScan
  BY DEF LastScan
<1>4. AveragedScan' = AveragedScan
  BY <1>3 DEF AveragedScan
<1>5. Answer' = Answer
  BY <1>4 DEF Answer
<1> QED BY <1>1, <1>2, <1>4, <1>5

LEMMA AveragingInvStep ==
  ASSUME OneEchoAsked, AveragingInv, [Next]_vars
  PROVE  AveragingInv'
<1>1. ASSUME NEW a \in Asked, ClientAsks(a.layout, a.scans, a.points)
      PROVE  AveragingInv'
  <2>1. /\ phase' = "collecting" /\ layout' = a.layout
        /\ g_GSC2_ScanAvgNumber' = a.scans /\ g_GSC2_PointAvgNumber' = a.points
        /\ g_GSC2_GSCN_rcvd_data' = <<>>
    BY <1>1 DEF ClientAsks
  <2>2. a.scans \in 1 .. 10
    BY AveragingAssumption DEF Asks
  <2>3. WasAsked'
    BY <2>1 DEF WasAsked
  <2>4. Collected(0)'
    <3>1. DOMAIN <<>> = 0 .. 0 - 1 /\ 0 .. 0 - 1 = {}
      OBVIOUS
    <3> QED BY <2>1, <3>1 DEF Collected
  <2>5. 0 \in 0 .. g_GSC2_ScanAvgNumber' - 1
    BY <2>1, <2>2
  <2> QED BY <2>1, <2>3, <2>4, <2>5 DEF AveragingInv, Collecting
<1>2. ASSUME NEW d \in SensorData(layout), KeepScan(d)
      PROVE  AveragingInv'
  <2>1. Collecting
    BY <1>2 DEF KeepScan, AveragingInv, Computed
  <2> QED BY <1>2, <2>1, KeepScanStep
<1>3. CASE ScanAvg
  <2>1. phase = "complete" /\ Computed /\ data = LastScan
    BY <1>3 DEF ScanAvg, AveragingInv, Collecting, Computed
  <2>2. phase' = "averaged" /\ data' = AveragedScan
    BY <1>3, <2>1 DEF ScanAvg, AveragedScan
  <2> QED BY <1>3, <2>1, <2>2, KeptScans DEF ScanAvg, AveragingInv, Computed
<1>4. CASE PointAvg
  <2>1. phase = "averaged" /\ Computed /\ data = AveragedScan
    BY <1>4 DEF PointAvg, AveragingInv, Collecting, Computed
  <2>2. phase' = "sent" /\ data' = Answer
    BY <1>4, <2>1 DEF PointAvg, Answer
  <2> QED BY <1>4, <2>1, <2>2, KeptScans DEF PointAvg, AveragingInv, Computed
<1>5. CASE ClientParses
  <2>1. phase = "sent" /\ Computed /\ data = Answer
    BY <1>5 DEF ClientParses, AveragingInv, Collecting, Computed
  <2>2. phase' = "parsed" /\ data' = data /\ parsed' = ParseScan(data')
    BY <1>5 DEF ClientParses, ParseScanGSC2
  <2> QED BY <1>5, <2>1, <2>2, KeptScans DEF ClientParses, AveragingInv, Computed
<1>6. CASE UNCHANGED vars
  <2>1. CASE phase = "parsed" /\ data = NoFrame
    BY <1>6, <2>1 DEF AveragingInv, vars
  <2>2. CASE Collecting
    BY <1>6, <2>2 DEF AveragingInv, Collecting, WasAsked, Collected, IsScan, vars
  <2>3. CASE Computed
    <3>1. /\ WasAsked' /\ Collected(g_GSC2_ScanAvgNumber)'
          /\ AveragedScan' = AveragedScan /\ Answer' = Answer
      BY <1>6, <2>3, KeptScans DEF vars
    <3>2. LastScan' = LastScan /\ phase' = phase /\ data' = data /\ parsed' = parsed
      BY <1>6 DEF vars, LastScan
    <3> QED BY <2>3, <3>1, <3>2 DEF AveragingInv, Computed
  <2> QED BY <2>1, <2>2, <2>3 DEF AveragingInv
<1> QED BY <1>1, <1>2, <1>3, <1>4, <1>5, <1>6 DEF Next

LEMMA AveragingInvHolds ==
  ASSUME OneEchoAsked
  PROVE  Spec => []AveragingInv
<1>1. AveragingInv /\ [Next]_vars => AveragingInv'
  BY AveragingInvStep
<1> QED BY <1>1, AveragingInvInit, PTL DEF Spec

-----------------------------------------------------------------------------
(* What the relay sends.                                                   *)

(* The distances averaged over the scans.                                  *)
AveragedDistances == DistancesOf(AveragedScan, layout, layout.points)
Sent == GroupMeans(AveragedDistances, g_GSC2_PointAvgNumber)

(* A scan that is too large is sent as it is.                              *)
LEMMA AnswerBeyond ==
  ASSUME OneEchoAsked, Computed, ~(layout.points <= MAX_POINTS_PER_SCAN)
  PROVE  OneEcho(layout) /\ IsFrame(Answer, layout, layout.points)
<1>1. OneEcho(layout) /\ layout.points \in Nat /\ g_GSC2_ScanAvgNumber \in 1 .. 10
  BY AskedFields DEF Computed
<1>2. IsFrame(LastScan, layout, layout.points)
  <2>1. g_GSC2_ScanAvgNumber - 1 \in 0 .. g_GSC2_ScanAvgNumber - 1
    BY <1>1
  <2> QED BY <2>1 DEF Computed, Collected, IsScan, LastScan
<1>3. ~InLimits(LastScan)
  BY <1>1, <1>2, FrameFields
<1>4. AveragedScan = LastScan
  BY <1>3 DEF AveragedScan, ScanAverage
<1>5. Answer = LastScan
  BY <1>3, <1>4 DEF Answer, PointAverage
<1> QED BY <1>1, <1>2, <1>5

(* Otherwise the distances sent are those of the groups, in a frame of as  *)
(* many points.                                                            *)
LEMMA AnswerWithin ==
  ASSUME OneEchoAsked, Computed, layout.points <= MAX_POINTS_PER_SCAN
  PROVE  LET n == layout.points
             N == g_GSC2_ScanAvgNumber
             rcvd == g_GSC2_GSCN_rcvd_data
         IN  /\ OneEcho(layout) /\ n \in Nat /\ N \in Nat \ {0}
             /\ g_GSC2_PointAvgNumber \in Nat \ {0}
             /\ IsFrame(AveragedScan, layout, n)
             /\ \A p \in 0 .. n - 1 :
                  /\ AveragedScan[At(layout, p)] = MeanDistance(rcvd, N, At(layout, p))
                  /\ SampleWords(layout) = 2 =>
                       AveragedScan[At(layout, p) + 1] =
                         MeanPulseWidth(rcvd, N, At(layout, p) + 1)
             /\ AveragedDistances \in Seq(NoEcho .. Noise)
             /\ Len(AveragedDistances) = n
             /\ \A p \in 0 .. n - 1 :
                  AveragedDistances[p + 1] = MeanDistance(rcvd, N, At(layout, p))
             /\ Len(Sent) \in 0 .. n
             /\ g_GSC2_PointAvgNumber = 1 => Len(Sent) = n
             /\ {p \div g_GSC2_PointAvgNumber : p \in 0 .. n - 1} = 0 .. Len(Sent) - 1
             /\ IsFrame(Answer, layout, Len(Sent))
             /\ \A q \in 0 .. Len(Sent) - 1 :
                  /\ Answer[At(layout, q)] = Sent[q + 1]
                  /\ SampleWords(layout) = 2 =>
                       Answer[At(layout, q) + 1] = AveragedScan[At(layout, q) + 1]
<1> DEFINE n == layout.points
           N == g_GSC2_ScanAvgNumber
           k == g_GSC2_PointAvgNumber
           rcvd == g_GSC2_GSCN_rcvd_data
<1>1. OneEcho(layout) /\ n \in Nat /\ N \in 1 .. 10 /\ k \in Nat \ {0}
  BY AskedFields DEF Computed
<1>2. N \in Nat \ {0} /\ N - 1 \in 0 .. N - 1
  BY <1>1
<1>3. \A i \in 0 .. N - 1 : IsFrame(rcvd[i], layout, n) /\ HasData(rcvd[i], layout, n)
  BY DEF Computed, Collected, IsScan
<1>4. IsFrame(LastScan, layout, n)
  BY <1>2, <1>3 DEF LastScan
<1>5. /\ IsFrame(AveragedScan, layout, n)
      /\ \A p \in 0 .. n - 1 :
           /\ AveragedScan[At(layout, p)] = MeanDistance(rcvd, N, At(layout, p))
           /\ SampleWords(layout) = 2 =>
                AveragedScan[At(layout, p) + 1] =
                  MeanPulseWidth(rcvd, N, At(layout, p) + 1)
      /\ HasData(AveragedScan, layout, n)
  BY <1>1, <1>2, <1>3, <1>4, ScanAverageIs DEF AveragedScan
<1>6. /\ AveragedDistances \in Seq(NoEcho .. Noise)
      /\ Len(AveragedDistances) = n
      /\ \A p \in 0 .. n - 1 : AveragedDistances[p + 1] = AveragedScan[At(layout, p)]
  BY <1>1, <1>5, DistancesType DEF AveragedDistances
<1>7. /\ Len(Sent) \in Nat
      /\ IsFrame(Answer, layout, Len(Sent))
      /\ \A q \in 0 .. Len(Sent) - 1 :
           /\ Answer[At(layout, q)] = Sent[q + 1]
           /\ SampleWords(layout) = 2 =>
                Answer[At(layout, q) + 1] = AveragedScan[At(layout, q) + 1]
  BY <1>1, <1>5, PointAverageIs DEF Answer, Sent, AveragedDistances
<1>8. /\ Len(Sent) <= n
      /\ k = 1 => Len(Sent) = n
      /\ {p \div k : p \in 0 .. n - 1} = 0 .. Len(Sent) - 1
  BY <1>1, <1>6, GroupsFound DEF Sent
<1>9. Len(Sent) \in 0 .. n
  BY <1>1, <1>7, <1>8
<1> QED BY <1>1, <1>2, <1>5, <1>6, <1>7, <1>8, <1>9

-----------------------------------------------------------------------------
(* The frame is consistent, and every group is sent.                       *)

LEMMA FrameConsistent ==
  ASSUME NEW l, OneEcho(l), NEW n \in Nat, NEW f, IsFrame(f, l, n)
  PROVE  /\ DOMAIN f = 0 .. f[1] \div 4 + 1
         /\ f[1] = 8 + 4 * f[2] + 4 * EchoWords(f) * f[PointsAt(f)] * Echoes(f)
<1> DEFINE words == n * SampleWords(l)
<1>1. Echoes(f) = 1 /\ EchoWords(f) = SampleWords(l) /\ f[PointsAt(f)] = n
  BY FrameFields
<1>2. SampleWords(l) = 1 \/ SampleWords(l) = 2
  BY LayoutFields
<1>3. words \in Nat /\ 4 * SampleWords(l) * n * 1 = 4 * words
  <2>1. CASE SampleWords(l) = 1
    BY <2>1
  <2>2. CASE SampleWords(l) = 2
    BY <2>2
  <2> QED BY <1>2, <2>1, <2>2
<1>4. DOMAIN f = 0 .. 12 + words /\ f[1] = 44 + 4 * words /\ f[2] = 9
  BY DEF IsFrame
<1> HIDE DEF words
<1>5. (44 + 4 * words) \div 4 + 1 = 12 + words
  BY <1>3
<1> QED BY <1>1, <1>3, <1>4, <1>5

(* The frame the relay sends is one parseScan() reads to its end and not   *)
(* beyond, whatever averages were asked for.                               *)
THEOREM ReplyIsWellFormed ==
  ASSUME OneEchoAsked
  PROVE  Spec => []ReplyWellFormed
<1>1. ASSUME AveragingInv, phase = "sent"
      PROVE  /\ DOMAIN data = 0 .. data[1] \div 4 + 1
             /\ data[1] = 8 + 4 * data[2]
                          + 4 * EchoWords(data) * data[PointsAt(data)] * Echoes(data)
  <2>1. Computed /\ data = Answer
    BY <1>1 DEF AveragingInv, Collecting, Computed
  <2>2. OneEcho(layout) /\ \E n \in Nat : IsFrame(Answer, layout, n)
    <3>1. CASE layout.points <= MAX_POINTS_PER_SCAN
      <4>1. OneEcho(layout) /\ IsFrame(Answer, layout, Len(Sent)) /\ Len(Sent) \in Nat
        BY <2>1, <3>1, AnswerWithin
      <4> QED BY <4>1
    <3>2. CASE ~(layout.points <= MAX_POINTS_PER_SCAN)
      <4>1. layout.points \in Nat
        BY <2>1, AskedFields DEF Computed
      <4> QED BY <2>1, <3>2, <4>1, AnswerBeyond
    <3> QED BY <3>1, <3>2
  <2> QED BY <2>1, <2>2, FrameConsistent
<1>2. AveragingInv => ReplyWellFormed
  BY <1>1 DEF ReplyWellFormed
<1> QED BY <1>2, AveragingInvHolds, PTL

(* An answer that was averaged is the one parsed.                          *)
LEMMA AveragedIsComputed ==
  ASSUME AveragingInv, Averaged
  PROVE  Computed /\ data = Answer /\ parsed = ParseScan(Answer)
  BY DEF AveragingInv, Averaged, Collecting, Computed

(* A scan the client can hold is averaged into one it can hold, with one   *)
(* point for every group; a larger one is refused.                         *)
THEOREM EveryGroupIsSent ==
  ASSUME OneEchoAsked
  PROVE  Spec => []EveryGroupSent
<1>1. ASSUME AveragingInv, Averaged, layout.points <= MAX_POINTS_PER_SCAN
      PROVE  /\ parsed.result = ERR_SUCCESS
             /\ parsed.scan.mNumberOfPoints =
                  Cardinality({p \div g_GSC2_PointAvgNumber :
                                 p \in 0 .. layout.points - 1})
  <2>1. Computed /\ parsed = ParseScan(Answer)
    BY <1>1, AveragedIsComputed
  <2> DEFINE n == layout.points
             k == g_GSC2_PointAvgNumber
             M == Len(Sent)
  <2>2. /\ OneEcho(layout) /\ n \in Nat /\ k \in Nat \ {0}
        /\ M \in 0 .. n /\ IsFrame(Answer, layout, M)
        /\ {p \div k : p \in 0 .. n - 1} = 0 .. M - 1
    BY <1>1, <2>1, AnswerWithin
  <2>3. M \in Nat /\ M <= MAX_POINTS_PER_SCAN
    BY <1>1, <2>2, ScanFrameAssumption
  <2>4. parsed.result = ERR_SUCCESS /\ parsed.scan.mNumberOfPoints = M
    BY <2>1, <2>2, <2>3, ParsedScan
  <2>5. Cardinality({p \div k : p \in 0 .. n - 1}) = M
    BY <2>2, <2>3, GroupCount
  <2> QED BY <2>4, <2>5
<1>2. ASSUME AveragingInv, Averaged, ~(layout.points <= MAX_POINTS_PER_SCAN)
      PROVE  parsed.result = ERR_BUFFER_OVERFLOW
  <2>1. Computed /\ parsed = ParseScan(Answer)
    BY <1>2, AveragedIsComputed
  <2>2. OneEcho(layout) /\ IsFrame(Answer, layout, layout.points)
    BY <1>2, <2>1, AnswerBeyond
  <2>3. layout.points \in Nat
    BY <2>1, AskedFields DEF Computed
  <2> QED BY <1>2, <2>1, <2>2, <2>3, ParsedBeyond
<1>3. AveragingInv => EveryGroupSent
  BY <1>1, <1>2 DEF EveryGroupSent
<1> QED BY <1>3, AveragingInvHolds, PTL

-----------------------------------------------------------------------------
(* One graph.                                                              *)

(* The average of one scan is the scan.                                    *)
LEMMA MeanOfOneScan ==
  ASSUME NEW rcvd, NEW w, rcvd[0][w] \in NoEcho .. Noise
  PROVE  MeanDistance(rcvd, 1, w) = rcvd[0][w]
<1> DEFINE y == rcvd[0][w]
           x == [i \in 0 .. 0 |-> y]
           m == MeanDistance(rcvd, 1, w)
           last == 1 - 1
<1>1. \A i \in 0 .. 1 - 1 : x[i] \in NoEcho .. Noise /\ rcvd[i][w] = x[i]
  OBVIOUS
<1>2. 0 .. 1 - 1 = {0} /\ x[0] = y
  OBVIOUS
<1> HIDE DEF x
<1>3. /\ m \in NoEcho .. Noise
      /\ Valid(m) => \E a, b \in 0 .. 1 - 1 : /\ Valid(x[a]) /\ x[a] <= m
                                              /\ Valid(x[b]) /\ m <= x[b]
      /\ (\E a \in 0 .. 1 - 1 : Valid(x[a])) => Valid(m)
  BY <1>1, MeanDistanceAmong
<1> HIDE DEF m, y
<1>4. CASE Valid(y)
  <2>1. y <= m /\ m <= y
    BY <1>2, <1>3, <1>4
  <2>2. y \in Int /\ m \in Int
    BY <1>3, Sentinels DEF y
  <2> QED BY <2>1, <2>2 DEF m, y
<1>5. CASE ~Valid(y)
  <2> DEFINE V == {}
             g == [i \in 0 .. 0 |-> 0]
  <2>1. HeardAt(V, x, 1)
    BY <1>2, <1>5 DEF HeardAt
  <2>2. Part(g, x, V, 1)
    BY DEF Part
  <2> HIDE DEF V, g
  <2>3. m = IF V # {} THEN Quotient(Total(g, 1), Cardinality(V))
            ELSE IF HowMany(x, 1, NoEcho) > HowMany(x, 1, Noise)
            THEN NoEcho ELSE Noise
    BY <1>1, <2>1, <2>2, MeanDistanceIs DEF m
  <2>4. y = NoEcho \/ y = Noise
    BY <1>5 DEF Valid
  <2>5. NoEcho # Noise
    BY Sentinels
  <2>6. Cardinality({0}) = 1 /\ Cardinality({}) = 0
    BY FS_Singleton, FS_EmptySet
  <2>7. CASE y = NoEcho
    <3>1. {i \in 0 .. 1 - 1 : x[i] = NoEcho} = {0} /\ {i \in 0 .. 1 - 1 : x[i] = Noise} = {}
      BY <1>2, <2>5, <2>7
    <3>2. m = NoEcho
      BY <2>3, <2>6, <3>1 DEF V, HowMany
    <3> QED BY <2>7, <3>2 DEF m, y
  <2>8. CASE y = Noise
    <3>1. {i \in 0 .. 1 - 1 : x[i] = NoEcho} = {} /\ {i \in 0 .. 1 - 1 : x[i] = Noise} = {0}
      BY <1>2, <2>5, <2>8
    <3>2. m = Noise
      BY <2>3, <2>6, <3>1 DEF V, HowMany
    <3> QED BY <2>8, <3>2 DEF m, y
  <2> QED BY <2>4, <2>7, <2>8
<1> QED BY <1>4, <1>5

(* The distances drawn are those of the frame.                             *)
LEMMA Scanned ==
  ASSUME NEW l, OneEcho(l), NEW n \in Nat, NEW f, IsFrame(f, l, n),
         n <= MAX_POINTS_PER_SCAN
  PROVE  /\ ScannedDistances(ParseScan(f).scan) = DistancesOf(f, l, n)
         /\ ParseScan(f).scan.mNumberOfParameter # 0
<1> DEFINE scan == ParseScan(f).scan
<1>1. /\ scan.mNumberOfParameter = 9
      /\ scan.mNumberOfPoints = n
      /\ scan.mNumberOfEchoes = 1
      /\ \A p \in 0 .. n - 1 : scan.mScanData[p][0].mDistance = f[At(l, p)]
  BY ParsedScan
<1> HIDE DEF scan
<1>2. ScannedDistances(scan) =
        [s \in 1 .. n * 1 |-> scan.mScanData[(s - 1) \div 1][(s - 1) % 1].mDistance]
  BY <1>1 DEF ScannedDistances
<1>3. n * 1 = n
  OBVIOUS
<1>4. ASSUME NEW s \in 1 .. n
      PROVE  scan.mScanData[(s - 1) \div 1][(s - 1) % 1].mDistance = f[At(l, s - 1)]
  <2>1. (s - 1) \div 1 = s - 1 /\ (s - 1) % 1 = 0 /\ s - 1 \in 0 .. n - 1
    OBVIOUS
  <2> QED BY <1>1, <2>1
<1>5. ScannedDistances(scan) = DistancesOf(f, l, n)
  BY <1>2, <1>3, <1>4 DEF DistancesOf
<1> QED BY <1>1, <1>5 DEF scan

LEMMA AcceptedIsWithin ==
  ASSUME OneEchoAsked, AveragingInv, Averaged, parsed.result = ERR_SUCCESS
  PROVE  /\ Computed /\ parsed = ParseScan(Answer)
         /\ layout.points <= MAX_POINTS_PER_SCAN
<1>1. Computed /\ parsed = ParseScan(Answer)
  BY AveragedIsComputed
<1>2. ASSUME ~(layout.points <= MAX_POINTS_PER_SCAN) PROVE FALSE
  <2>1. OneEcho(layout) /\ IsFrame(Answer, layout, layout.points)
    BY <1>1, <1>2, AnswerBeyond
  <2>2. layout.points \in Nat
    BY <1>1, AskedFields DEF Computed
  <2>3. parsed.result = ERR_BUFFER_OVERFLOW
    BY <1>1, <1>2, <2>1, <2>2, ParsedBeyond
  <2> QED BY <2>3 DEF ERR_SUCCESS, ERR_BUFFER_OVERFLOW, ERR_LASTERROR, ELASTERROR
<1> QED BY <1>1, <1>2

(* SCANPR, which averages the points while it draws them, and SCN2PR,      *)
(* which draws what the relay has averaged, draw the same graph.           *)
THEOREM OneGraphIsDrawn ==
  ASSUME OneEchoAsked
  PROVE  Spec => []GraphsAgree
<1>1. ASSUME AveragingInv, Averaged, parsed.result = ERR_SUCCESS,
             g_GSC2_ScanAvgNumber = 1
      PROVE  ScanPrintGraph(Scan(0), g_GSC2_PointAvgNumber)
               = Scan2PrintGraph(parsed.scan)
  <2> DEFINE n == layout.points
             k == g_GSC2_PointAvgNumber
             M == Len(Sent)
             f == g_GSC2_GSCN_rcvd_data[0]
  <2>1. Computed /\ parsed = ParseScan(Answer) /\ n <= MAX_POINTS_PER_SCAN
    BY <1>1, AcceptedIsWithin
  <2>2. /\ OneEcho(layout) /\ n \in Nat /\ k \in Nat \ {0}
        /\ \A p \in 0 .. n - 1 :
             AveragedScan[At(layout, p)] =
               MeanDistance(g_GSC2_GSCN_rcvd_data, 1, At(layout, p))
        /\ AveragedDistances \in Seq(NoEcho .. Noise)
        /\ M \in 0 .. n /\ IsFrame(Answer, layout, M)
        /\ \A q \in 0 .. M - 1 : Answer[At(layout, q)] = Sent[q + 1]
    BY <1>1, <2>1, AnswerWithin
  <2>3. IsFrame(f, layout, n) /\ HasData(f, layout, n)
    <3>1. 0 \in 0 .. g_GSC2_ScanAvgNumber - 1
      BY <1>1
    <3> QED BY <2>1, <3>1 DEF Computed, Collected, IsScan
  <2>4. AveragedDistances = DistancesOf(f, layout, n)
    <3>1. ASSUME NEW s \in 1 .. n
          PROVE  AveragedScan[At(layout, s - 1)] = f[At(layout, s - 1)]
      <4>1. s - 1 \in 0 .. n - 1
        BY <2>2
      <4>2. f[At(layout, s - 1)] \in NoEcho .. Noise
        BY <2>3, <4>1 DEF HasData
      <4> QED BY <2>2, <4>1, <4>2, MeanOfOneScan
    <3> QED BY <3>1 DEF AveragedDistances, DistancesOf
  <2>5. /\ ScannedDistances(Scan(0)) = DistancesOf(f, layout, n)
        /\ Scan(0).mNumberOfParameter # 0
    BY <2>1, <2>2, <2>3, Scanned DEF Scan
  <2>6. ScanPrintGraph(Scan(0), k) = LinesOf(Sent)
    BY <2>2, <2>4, <2>5, LoopsAgree DEF ScanPrintGraph, Sent
  <2>7. M \in Nat /\ M <= MAX_POINTS_PER_SCAN
    BY <2>1, <2>2, ScanFrameAssumption
  <2>8. DistancesOf(Answer, layout, M) = Sent
    <3>1. Sent \in Seq(Int)
      BY <2>2, GroupsFound DEF Sent
    <3>2. DOMAIN Sent = 1 .. M /\ Sent = [s \in 1 .. M |-> Sent[s]]
      BY <3>1
    <3>3. ASSUME NEW s \in 1 .. M PROVE Answer[At(layout, s - 1)] = Sent[s]
      <4>1. s - 1 \in 0 .. M - 1 /\ (s - 1) + 1 = s
        BY <2>7
      <4> QED BY <2>2, <4>1
    <3> HIDE DEF M
    <3> QED BY <3>2, <3>3 DEF DistancesOf
  <2>9. Scan2PrintGraph(parsed.scan) = LinesOf(Sent)
    BY <2>1, <2>2, <2>7, <2>8, Scanned DEF Scan2PrintGraph, LinesOf
  <2> QED BY <2>6, <2>9
<1>2. AveragingInv => GraphsAgree
  BY <1>1 DEF GraphsAgree
<1> QED BY <1>2, AveragingInvHolds, PTL

-----------------------------------------------------------------------------
(* The averages are the means of the groups.                               *)

(* What parseScan() would have read from the scans.                        *)
LEMMA ScansRead ==
  ASSUME OneEchoAsked, Computed, layout.points <= MAX_POINTS_PER_SCAN
  PROVE  /\ Scans = 0 .. g_GSC2_ScanAvgNumber - 1
         /\ Cardinality(Scans) = g_GSC2_ScanAvgNumber
         /\ \A i \in Scans, p \in 0 .. layout.points - 1 :
              /\ DistanceIn(i, p) = g_GSC2_GSCN_rcvd_data[i][At(layout, p)]
              /\ DistanceIn(i, p) \in NoEcho .. Noise
              /\ DistanceIn(i, p) \in Distances
              /\ SampleWords(layout) = 1 => Scan(i).mScanData[p][0].mPulseWidth = 0
              /\ SampleWords(layout) = 2 =>
                   Scan(i).mScanData[p][0].mPulseWidth =
                     g_GSC2_GSCN_rcvd_data[i][At(layout, p) + 1]
<1> DEFINE N == g_GSC2_ScanAvgNumber
           n == layout.points
           rcvd == g_GSC2_GSCN_rcvd_data
<1>1. OneEcho(layout) /\ n \in Nat /\ N \in 1 .. 10
  BY AskedFields DEF Computed
<1>2. Scans = 0 .. N - 1 /\ \A i \in 0 .. N - 1 : IsScan(rcvd[i])
  BY DEF Scans, Computed, Collected
<1>3. Cardinality(Scans) = N
  <2>1. N \in Nat
    BY <1>1
  <2> QED BY <1>2, <2>1, IntervalSize
<1>4. ASSUME NEW i \in Scans, NEW p \in 0 .. n - 1
      PROVE  /\ DistanceIn(i, p) = rcvd[i][At(layout, p)]
             /\ rcvd[i][At(layout, p)] \in NoEcho .. Noise
             /\ rcvd[i][At(layout, p)] \in Distances
             /\ SampleWords(layout) = 1 => Scan(i).mScanData[p][0].mPulseWidth = 0
             /\ SampleWords(layout) = 2 =>
                  Scan(i).mScanData[p][0].mPulseWidth = rcvd[i][At(layout, p) + 1]
  <2>1. /\ IsFrame(rcvd[i], layout, n)
        /\ rcvd[i][At(layout, p)] \in NoEcho .. Noise
        /\ rcvd[i][At(layout, p)] \in Distances
    BY <1>2, <1>4 DEF IsScan, HasData
  <2>2. /\ Scan(i).mScanData[p][0].mDistance = rcvd[i][At(layout, p)]
        /\ SampleWords(layout) = 1 => Scan(i).mScanData[p][0].mPulseWidth = 0
        /\ SampleWords(layout) = 2 =>
             Scan(i).mScanData[p][0].mPulseWidth = rcvd[i][At(layout, p) + 1]
    BY <1>1, <2>1, ParsedScan DEF Scan
  <2> QED BY <2>1, <2>2 DEF DistanceIn
<1> QED BY <1>2, <1>3, <1>4

(* The mean of the scans at a point is what the relay computes there.      *)
LEMMA ScanMeanIs ==
  ASSUME OneEchoAsked, Computed, layout.points <= MAX_POINTS_PER_SCAN,
         NEW p \in 0 .. layout.points - 1
  PROVE  /\ ScanMean(p) = MeanDistance(g_GSC2_GSCN_rcvd_data, g_GSC2_ScanAvgNumber,
                                       At(layout, p))
         /\ ScanMean(p) \in NoEcho .. Noise
         /\ Valid(ScanMean(p)) =>
              \E a, b \in Scans :
                /\ Valid(DistanceIn(a, p)) /\ DistanceIn(a, p) <= ScanMean(p)
                /\ Valid(DistanceIn(b, p)) /\ ScanMean(p) <= DistanceIn(b, p)
         /\ (\E a \in Scans : Valid(DistanceIn(a, p))) => Valid(ScanMean(p))
<1> DEFINE N == g_GSC2_ScanAvgNumber
           rcvd == g_GSC2_GSCN_rcvd_data
           w == At(layout, p)
           x == [i \in Scans |-> DistanceIn(i, p)]
           heard == {i \in Scans : Valid(DistanceIn(i, p))}
           g == [i \in Scans |-> IF i \in heard THEN DistanceIn(i, p) ELSE 0]
           m == MeanDistance(rcvd, N, w)
<1>1. N \in Nat
  BY AskedFields DEF Computed
<1>2. /\ Scans = 0 .. N - 1
      /\ Cardinality(Scans) = N
      /\ \A i \in Scans : /\ x[i] \in NoEcho .. Noise
                          /\ rcvd[i][w] = x[i]
                          /\ x[i] = DistanceIn(i, p)
  BY ScansRead
<1>3. HeardAt(heard, x, N)
  BY <1>2 DEF HeardAt
<1>4. Part(g, x, heard, N)
  BY <1>2 DEF Part
<1>5. /\ Cardinality({i \in Scans : DistanceIn(i, p) = NoEcho}) = HowMany(x, N, NoEcho)
      /\ Cardinality({i \in Scans : DistanceIn(i, p) = Noise}) = HowMany(x, N, Noise)
  <2>1. /\ {i \in Scans : DistanceIn(i, p) = NoEcho} = {i \in 0 .. N - 1 : x[i] = NoEcho}
        /\ {i \in Scans : DistanceIn(i, p) = Noise} = {i \in 0 .. N - 1 : x[i] = Noise}
    BY <1>2
  <2> QED BY <2>1 DEF HowMany
<1>6. ScanMean(p) =
        IF heard # {} THEN Quotient(Total(g, N), Cardinality(heard))
        ELSE IF Cardinality({i \in Scans : DistanceIn(i, p) = NoEcho})
                  > Cardinality({i \in Scans : DistanceIn(i, p) = Noise})
        THEN NoEcho ELSE Noise
  BY <1>2 DEF ScanMean
<1> HIDE DEF x, heard, g, w, N, rcvd
<1>7. \A i \in 0 .. N - 1 : x[i] \in NoEcho .. Noise /\ rcvd[i][w] = x[i]
  BY <1>2
<1>8. m = IF heard # {} THEN Quotient(Total(g, N), Cardinality(heard))
          ELSE IF HowMany(x, N, NoEcho) > HowMany(x, N, Noise)
          THEN NoEcho ELSE Noise
  BY <1>1, <1>3, <1>4, <1>7, MeanDistanceIs
<1>9. ScanMean(p) = m
  BY <1>5, <1>6, <1>8
<1>10. /\ m \in NoEcho .. Noise
       /\ Valid(m) => \E a, b \in 0 .. N - 1 : /\ Valid(x[a]) /\ x[a] <= m
                                               /\ Valid(x[b]) /\ m <= x[b]
       /\ (\E a \in 0 .. N - 1 : Valid(x[a])) => Valid(m)
  BY <1>1, <1>7, MeanDistanceAmong
<1> HIDE DEF m
<1>11. Valid(m) => \E a, b \in Scans :
                     /\ Valid(DistanceIn(a, p)) /\ DistanceIn(a, p) <= m
                     /\ Valid(DistanceIn(b, p)) /\ m <= DistanceIn(b, p)
  BY <1>2, <1>10
<1>12. (\E a \in Scans : Valid(DistanceIn(a, p))) => Valid(m)
  BY <1>2, <1>10
<1>13. ScanMean(p) = MeanDistance(rcvd, N, w)
  BY <1>9 DEF m
<1> QED BY <1>9, <1>10, <1>11, <1>12, <1>13 DEF w, N, rcvd

PointMeans == [p \in 0 .. layout.points - 1 |-> ScanMean(p)]

LEMMA PointMeansFit ==
  ASSUME OneEchoAsked, SumsFit, Computed, layout.points <= MAX_POINTS_PER_SCAN
  PROVE  \E B \in Nat :
           WithinBound(PointMeans, layout.points, g_GSC2_PointAvgNumber, B)
<1>1. PICK B \in Nat :
        /\ \A d \in Distances : Valid(d) => -B <= d /\ d <= B
        /\ \A a \in Asked : a.points * B <= INT32_MAX \/ a.layout.points * B <= INT32_MAX
  BY DEF SumsFit
<1>2. \/ g_GSC2_PointAvgNumber * B <= INT32_MAX
      \/ layout.points * B <= INT32_MAX
  <2>1. PICK a \in Asked : layout = a.layout /\ g_GSC2_PointAvgNumber = a.points
    BY DEF Computed, WasAsked
  <2> QED BY <1>1, <2>1
<1>3. ASSUME NEW p \in 0 .. layout.points - 1, Valid(PointMeans[p])
      PROVE  -B <= PointMeans[p] /\ PointMeans[p] <= B
  <2> DEFINE m == ScanMean(p)
  <2>1. PointMeans[p] = m
    BY DEF PointMeans
  <2>2. m \in Int
    BY ScanMeanIs, Sentinels
  <2>3. PICK a, b \in Scans :
          /\ Valid(DistanceIn(a, p)) /\ DistanceIn(a, p) <= m
          /\ Valid(DistanceIn(b, p)) /\ m <= DistanceIn(b, p)
    BY <1>3, <2>1, ScanMeanIs
  <2>4. /\ DistanceIn(a, p) \in Distances /\ DistanceIn(a, p) \in NoEcho .. Noise
        /\ DistanceIn(b, p) \in Distances /\ DistanceIn(b, p) \in NoEcho .. Noise
    BY ScansRead
  <2>5. -B <= DistanceIn(a, p) /\ DistanceIn(b, p) <= B
    BY <1>1, <2>3, <2>4
  <2>6. DistanceIn(a, p) \in Int /\ DistanceIn(b, p) \in Int
    BY <2>4, Sentinels
  <2> HIDE DEF m
  <2> QED BY <2>1, <2>2, <2>3, <2>5, <2>6
<1> QED BY <1>2, <1>3 DEF WithinBound

(* What is sent for a group is the mean of the means of its points.        *)
LEMMA SentMeans ==
  ASSUME OneEchoAsked, SumsFit, Computed, layout.points <= MAX_POINTS_PER_SCAN,
         NEW q \in 0 .. Len(Sent) - 1
  PROVE  /\ Sent[q + 1] = MeanOf(q, PointMeans, layout.points, g_GSC2_PointAvgNumber)
         /\ Sent[q + 1] = GroupMean(q)
         /\ AreDistances(PointMeans, layout.points)
         /\ GroupOf(q, layout.points, g_GSC2_PointAvgNumber) = Group(q)
<1> DEFINE n == layout.points
           k == g_GSC2_PointAvgNumber
           x == PointMeans
           heard == HeardOf(q, x, n, k)
<1>1. /\ n \in Nat /\ k \in Nat \ {0}
      /\ AveragedDistances \in Seq(NoEcho .. Noise)
      /\ Len(AveragedDistances) = n
      /\ \A p \in 0 .. n - 1 :
           AveragedDistances[p + 1] =
             MeanDistance(g_GSC2_GSCN_rcvd_data, g_GSC2_ScanAvgNumber, At(layout, p))
  BY AnswerWithin
<1>2. \A p \in 0 .. n - 1 : x[p] = ScanMean(p)
  BY DEF PointMeans
<1>3. \A p \in 0 .. n - 1 : x[p] = AveragedDistances[p + 1]
  BY <1>1, <1>2, ScanMeanIs
<1>4. PICK B \in Nat : WithinBound(x, n, k, B)
  BY PointMeansFit
<1>5. Sent[q + 1] = MeanOf(q, x, n, k)
  BY <1>1, <1>3, <1>4, GroupMeansAre DEF Sent
<1>6. AreDistances(x, n)
  BY <1>2, ScanMeanIs DEF AreDistances
<1>7. GroupOf(q, n, k) = Group(q)
  BY DEF GroupOf, Group
<1>8. heard = {p \in Group(q) : Valid(ScanMean(p))}
  BY <1>2, <1>7 DEF HeardOf, Group
<1>9. PartOf(x, heard, n) = [p \in 0 .. n - 1 |-> IF p \in heard THEN ScanMean(p) ELSE 0]
  <2> HIDE DEF heard, x, n
  <2> QED BY <1>2 DEF PartOf
<1>10. heard = {} => x[Max(Group(q))] = ScanMean(Max(Group(q)))
  <2>1. q \in {p \div k : p \in 0 .. n - 1}
    BY AnswerWithin
  <2>2. PICK p \in 0 .. n - 1 : p \div k = q
    BY <2>1
  <2>3. Group(q) \in SUBSET (0 .. n - 1) /\ Group(q) # {}
    BY <2>2 DEF Group
  <2>4. Max(Group(q)) \in Group(q)
    BY <1>1, <2>3, GreatestInSet
  <2> QED BY <1>2, <2>3, <2>4
<1>11. MeanOf(q, x, n, k) = GroupMean(q)
  <2> HIDE DEF x, n, k
  <2>1. MeanOf(q, x, n, k) =
          IF heard # {} THEN Quotient(Total(PartOf(x, heard, n), n), Cardinality(heard))
          ELSE x[Max(GroupOf(q, n, k))]
    BY DEF MeanOf
  <2> HIDE DEF heard
  <2>2. GroupMean(q) =
          IF heard # {}
          THEN Quotient(Total([p \in 0 .. n - 1 |-> IF p \in heard THEN ScanMean(p) ELSE 0],
                              n), Cardinality(heard))
          ELSE ScanMean(Max(Group(q)))
    BY <1>8 DEF GroupMean, n
  <2> QED BY <1>7, <1>9, <1>10, <2>1, <2>2
<1> QED BY <1>5, <1>6, <1>7, <1>11

(* The scan the client reads.                                              *)
LEMMA AnswerRead ==
  ASSUME OneEchoAsked, Computed, parsed = ParseScan(Answer),
         layout.points <= MAX_POINTS_PER_SCAN
  PROVE  /\ DOMAIN Averages = 0 .. Len(Sent) - 1
         /\ \A q \in 0 .. Len(Sent) - 1 :
              /\ Averages[q][0].mDistance = Sent[q + 1]
              /\ SampleWords(layout) = 1 => Averages[q][0].mPulseWidth = 0
              /\ SampleWords(layout) = 2 =>
                   Averages[q][0].mPulseWidth = AveragedScan[At(layout, q) + 1]
<1> DEFINE M == Len(Sent)
<1>1. /\ OneEcho(layout) /\ layout.points \in Nat
      /\ M \in 0 .. layout.points /\ IsFrame(Answer, layout, M)
      /\ \A q \in 0 .. M - 1 :
           /\ Answer[At(layout, q)] = Sent[q + 1]
           /\ SampleWords(layout) = 2 =>
                Answer[At(layout, q) + 1] = AveragedScan[At(layout, q) + 1]
  BY AnswerWithin
<1>2. M \in Nat /\ M <= MAX_POINTS_PER_SCAN
  BY <1>1, ScanFrameAssumption
<1>3. /\ DOMAIN Averages = 0 .. M - 1
      /\ \A q \in 0 .. M - 1 :
           /\ Averages[q][0].mDistance = Answer[At(layout, q)]
           /\ SampleWords(layout) = 1 => Averages[q][0].mPulseWidth = 0
           /\ SampleWords(layout) = 2 =>
                Averages[q][0].mPulseWidth = Answer[At(layout, q) + 1]
  BY <1>1, <1>2, ParsedScan DEF Averages
<1> QED BY <1>1, <1>3

(* Without a point average the pulse widths are the means of the scans.    *)
LEMMA PulseWidthsSent ==
  ASSUME OneEchoAsked, Computed, parsed = ParseScan(Answer),
         layout.points <= MAX_POINTS_PER_SCAN, g_GSC2_PointAvgNumber = 1,
         NEW q \in 0 .. Len(Sent) - 1
  PROVE  Averages[q][0].mPulseWidth =
           Quotient(Total([i \in Scans |-> Scan(i).mScanData[q][0].mPulseWidth],
                          Cardinality(Scans)),
                    Cardinality(Scans))
<1> DEFINE N == g_GSC2_ScanAvgNumber
           n == layout.points
           rcvd == g_GSC2_GSCN_rcvd_data
           g == [i \in Scans |-> Scan(i).mScanData[q][0].mPulseWidth]
<1>1. /\ OneEcho(layout) /\ N \in Nat \ {0} /\ n \in Nat /\ Len(Sent) = n
      /\ q \in 0 .. n - 1
  BY AnswerWithin
<1>2. /\ Scans = 0 .. N - 1
      /\ Cardinality(Scans) = N
      /\ \A i \in Scans :
           /\ SampleWords(layout) = 1 => g[i] = 0
           /\ SampleWords(layout) = 2 => g[i] = rcvd[i][At(layout, q) + 1]
  BY <1>1, ScansRead
<1>3. /\ SampleWords(layout) = 1 => Averages[q][0].mPulseWidth = 0
      /\ SampleWords(layout) = 2 =>
           Averages[q][0].mPulseWidth = MeanPulseWidth(rcvd, N, At(layout, q) + 1)
  BY <1>1, AnswerRead, AnswerWithin
<1> SUFFICES Averages[q][0].mPulseWidth = Quotient(Total(g, N), N)
  BY <1>2
<1>4. g = [i \in 0 .. N - 1 |-> g[i]]
  BY <1>2
<1> DEFINE pulse == Averages[q][0].mPulseWidth
           z == SampleWords(layout)
<1>5. z = 1 \/ z = 2
  BY <1>1, LayoutFields
<1> HIDE DEF g
<1>6. CASE z = 1
  <2>1. pulse = 0
    BY <1>3, <1>6
  <2>2. Part(g, g, {}, N)
    BY <1>2, <1>6 DEF Part
  <2>3. Total(g, N) = 0
    <3> DEFINE S == {}
    <3>1. S \in SUBSET (0 .. N - 1) /\ Below(S, N) = {} /\ N \in 0 .. N
      BY <1>1 DEF Below
    <3>2. \A i \in S : g[i] \in Int
      OBVIOUS
    <3>3. Part(g, g, S, N)
      BY <2>2
    <3> HIDE DEF S, N
    <3> QED BY <1>1, <3>1, <3>2, <3>3, SumStarts
  <2>4. Quotient(0, N) = 0
    <3> HIDE DEF N
    <3>1. N * 0 = 0
      BY <1>1
    <3>2. 0 \div N = 0
      BY <1>1
    <3> QED BY <3>2 DEF Quotient
  <2> QED BY <2>1, <2>3, <2>4
<1>7. CASE z = 2
  <2>1. pulse = MeanPulseWidth(rcvd, N, At(layout, q) + 1)
    BY <1>3, <1>7
  <2>2. [i \in 0 .. N - 1 |-> rcvd[i][At(layout, q) + 1]] = g
    BY <1>2, <1>4, <1>7
  <2> QED BY <2>1, <2>2 DEF MeanPulseWidth
<1> QED BY <1>5, <1>6, <1>7

(* The distances of the answer are the means of the groups of the means of *)
(* the scans, although they are written over the distances that are still  *)
(* to be averaged; without a point average the pulse widths are means too. *)
THEOREM AnswerIsTheMeans ==
  ASSUME OneEchoAsked, SumsFit
  PROVE  Spec => []AveragesAreMeans
<1>1. ASSUME AveragingInv, Averaged, parsed.result = ERR_SUCCESS,
             NEW q \in DOMAIN Averages
      PROVE  /\ Averages[q][0].mDistance = GroupMean(q)
             /\ g_GSC2_PointAvgNumber = 1 =>
                  Averages[q][0].mPulseWidth =
                    Quotient(Total([i \in Scans |->
                                      Scan(i).mScanData[q][0].mPulseWidth],
                                   Cardinality(Scans)),
                             Cardinality(Scans))
  <2>1. /\ Computed /\ parsed = ParseScan(Answer)
        /\ layout.points <= MAX_POINTS_PER_SCAN
    BY <1>1, AcceptedIsWithin
  <2>2. q \in 0 .. Len(Sent) - 1 /\ Averages[q][0].mDistance = Sent[q + 1]
    BY <1>1, <2>1, AnswerRead
  <2>3. Sent[q + 1] = GroupMean(q)
    BY <2>1, <2>2, SentMeans
  <2> QED BY <2>1, <2>2, <2>3, PulseWidthsSent
<1>2. AveragingInv => AveragesAreMeans
  BY <1>1 DEF AveragesAreMeans
<1> QED BY <1>2, AveragingInvHolds, PTL

-----------------------------------------------------------------------------
(* The averages lie among the distances heard.                             *)

LEMMA MeanHeard ==
  ASSUME OneEchoAsked, SumsFit, Computed, layout.points <= MAX_POINTS_PER_SCAN,
         NEW q \in 0 .. Len(Sent) - 1
  PROVE  IF HeardIn(q) = {} THEN ~Valid(Sent[q + 1])
         ELSE \E low, high \in HeardIn(q) : low <= Sent[q + 1] /\ Sent[q + 1] <= high
<1> DEFINE n == layout.points
           k == g_GSC2_PointAvgNumber
           x == PointMeans
           V == HeardOf(q, x, n, k)
           f == PartOf(x, V, n)
           m == Sent[q + 1]
<1>1. n \in Nat /\ k \in Nat \ {0} /\ q \in {p \div k : p \in 0 .. n - 1}
  BY AnswerWithin
<1>2. /\ m = IF V # {} THEN Quotient(Total(f, n), Cardinality(V))
             ELSE x[Max(GroupOf(q, n, k))]
      /\ AreDistances(x, n)
      /\ GroupOf(q, n, k) = Group(q)
  BY SentMeans DEF MeanOf
<1>3. /\ V \in SUBSET (0 .. n - 1) /\ \A p \in V : x[p] \in Int
      /\ Part(f, x, V, n)
  BY <1>1, <1>2, HeardSets
<1>4. \A p \in 0 .. n - 1 : x[p] = ScanMean(p)
  BY DEF PointMeans
<1>5. Group(q) \in SUBSET (0 .. n - 1)
  BY DEF Group
<1>6. V = {p \in Group(q) : Valid(ScanMean(p))}
  BY <1>2, <1>4, <1>5 DEF HeardOf
<1>7. ASSUME NEW p \in Group(q), NEW i \in Scans, Valid(DistanceIn(i, p))
      PROVE  DistanceIn(i, p) \in HeardIn(q)
  BY <1>7 DEF HeardIn
<1>8. ASSUME NEW p \in V
      PROVE  \E low, high \in HeardIn(q) : low <= x[p] /\ x[p] <= high
  <2>1. p \in Group(q) /\ p \in 0 .. n - 1 /\ Valid(ScanMean(p)) /\ x[p] = ScanMean(p)
    BY <1>4, <1>5, <1>6
  <2>2. PICK a, b \in Scans :
          /\ Valid(DistanceIn(a, p)) /\ DistanceIn(a, p) <= ScanMean(p)
          /\ Valid(DistanceIn(b, p)) /\ ScanMean(p) <= DistanceIn(b, p)
    BY <2>1, ScanMeanIs
  <2> QED BY <1>7, <2>1, <2>2
<1>9. ASSUME HeardIn(q) # {} PROVE V # {}
  <2>1. PICK p \in Group(q), i \in Scans : Valid(DistanceIn(i, p))
    BY <1>9 DEF HeardIn
  <2>2. Valid(ScanMean(p))
    BY <1>5, <2>1, ScanMeanIs
  <2> QED BY <1>6, <2>1, <2>2
<1>10. \A d \in HeardIn(q) : d \in Int
  <2> TAKE d \in HeardIn(q)
  <2>1. PICK i \in Scans, p \in Group(q) : d = DistanceIn(i, p)
    BY DEF HeardIn
  <2>2. DistanceIn(i, p) \in NoEcho .. Noise
    BY <1>5, <2>1, ScansRead
  <2> QED BY <2>1, <2>2, Sentinels
<1>11. CASE V = {}
  <2>1. HeardIn(q) = {}
    BY <1>9, <1>11
  <2>2. Group(q) # {}
    BY <1>1 DEF Group
  <2>3. Max(Group(q)) \in Group(q)
    BY <1>1, <1>5, <2>2, GreatestInSet
  <2>4. ~Valid(ScanMean(Max(Group(q)))) /\ Max(Group(q)) \in 0 .. n - 1
    BY <1>5, <1>6, <1>11, <2>3
  <2>5. m = ScanMean(Max(Group(q)))
    BY <1>2, <1>4, <1>11, <2>4
  <2> QED BY <2>1, <2>4, <2>5
<1>12. CASE V # {}
  <2>1. m = Quotient(Total(f, n), Cardinality(V))
    BY <1>2, <1>12
  <2>2. PICK a, b \in V : x[a] <= m /\ m <= x[b] /\ m \in Int
    <3> HIDE DEF V, f, m, x, n
    <3>1. /\ Quotient(Total(f, n), Cardinality(V)) \in Int
          /\ \E a, b \in V : /\ x[a] <= Quotient(Total(f, n), Cardinality(V))
                             /\ Quotient(Total(f, n), Cardinality(V)) <= x[b]
      BY <1>1, <1>3, <1>12, MeanAmong
    <3> QED BY <2>1, <3>1
  <2>3. PICK low \in HeardIn(q) : low <= x[a]
    BY <1>8
  <2>4. PICK high \in HeardIn(q) : x[b] <= high
    BY <1>8
  <2>5. x[a] \in Int /\ x[b] \in Int /\ low \in Int /\ high \in Int
    BY <1>3, <1>10
  <2> HIDE DEF m, x
  <2>6. low <= m /\ m <= high
    BY <2>2, <2>3, <2>4, <2>5
  <2>7. HeardIn(q) # {}
    BY <2>3
  <2> QED BY <2>3, <2>4, <2>6, <2>7 DEF m
<1> QED BY <1>11, <1>12

(* An average is a distance exactly when some scan heard an echo of some   *)
(* point of the group, and lies between the distances that were heard.     *)
THEOREM AveragesAreAmongHeard ==
  ASSUME OneEchoAsked, SumsFit
  PROVE  Spec => []AverageAmongHeard
<1>1. ASSUME AveragingInv, Averaged, parsed.result = ERR_SUCCESS,
             NEW q \in DOMAIN Averages
      PROVE  IF HeardIn(q) = {} THEN ~Valid(Averages[q][0].mDistance)
             ELSE \E low, high \in HeardIn(q) :
                    /\ low <= Averages[q][0].mDistance
                    /\ Averages[q][0].mDistance <= high
  <2>1. /\ Computed /\ parsed = ParseScan(Answer)
        /\ layout.points <= MAX_POINTS_PER_SCAN
    BY <1>1, AcceptedIsWithin
  <2>2. q \in 0 .. Len(Sent) - 1 /\ Averages[q][0].mDistance = Sent[q + 1]
    BY <1>1, <2>1, AnswerRead
  <2> DEFINE m == Averages[q][0].mDistance
  <2>3. IF HeardIn(q) = {} THEN ~Valid(Sent[q + 1])
        ELSE \E low, high \in HeardIn(q) : low <= Sent[q + 1] /\ Sent[q + 1] <= high
    BY <2>1, <2>2, MeanHeard
  <2> HIDE DEF m
  <2> QED BY <2>2, <2>3
<1>2. AveragingInv => AverageAmongHeard
  BY <1>1 DEF AverageAmongHeard
<1> QED BY <1>2, AveragingInvHolds, PTL
=============================================================================
