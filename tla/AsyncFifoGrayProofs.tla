------------------------ MODULE AsyncFifoGrayProofs ------------------------
(***************************************************************************)
(* The Gray-coded FIFO makes only the steps of the FIFO on positions, for  *)
(* every number of address bits: a Gray code changes in one bit from each  *)
(* position to the next, determines its position, and that of the position *)
(* one lap away is got by inverting its two highest bits.                  *)
(***************************************************************************)
EXTENDS AsyncFifoGray, WellFoundedInduction, TLAPS

Depth == Pow[ASize]
Position == 0 .. 2 * Depth - 1

\* What the bits of a number are made of: its quotients by the powers of two.
Quot(b, i) == b \div Pow[i]

-----------------------------------------------------------------------------
(* Induction and division *)

\* A set of natural numbers that is not empty has a least element.
LEMMA Least ==
  ASSUME NEW T \in SUBSET Nat, NEW t \in T
  PROVE  \E x \in T : \A y \in T : x <= y
<1> DEFINE below == OpToRel(<, Nat)
<1>1. IsWellFoundedOn(below, Nat)
  BY NatLessThanWellFounded
<1>2. \A x, y \in Nat : <<y, x>> \in below <=> y < x
  BY DEF OpToRel
<1> HIDE DEF below
<1>3. T \subseteq Nat /\ T # {}
  OBVIOUS
<1>4. PICK x \in T : \A y \in T : ~(<<y, x>> \in below)
  BY <1>1, <1>3, WFMin, Zenon
<1>5. \A y \in T : y \in Nat /\ ~(y < x)
  BY <1>2, <1>3, <1>4
<1> QED
  BY <1>3, <1>5

\* A set of numbers that has 0, and the next of each number it has, has them all.
LEMMA SetInduction ==
  ASSUME NEW S, 0 \in S, \A n \in Nat : n \in S => n + 1 \in S
  PROVE  \A n \in Nat : n \in S
<1> DEFINE T == {n \in Nat : n \notin S}
<1>1. SUFFICES ASSUME NEW t \in T PROVE FALSE
  OBVIOUS
<1>2. PICK x \in T : \A y \in T : x <= y
  BY Least
<1>3. x \in Nat /\ x # 0 /\ x - 1 \in Nat
  BY <1>2
<1>4. x - 1 \in S
  BY <1>2, <1>3
<1> QED
  BY <1>2, <1>3, <1>4

\* Quotient and remainder are the only ones there are.
LEMMA DivisionUnique ==
  ASSUME NEW a \in Nat, NEW d \in Nat \ {0}, NEW q \in Nat, NEW r \in Nat, r < d, a = d * q + r
  PROVE  a \div d = q
<1> DEFINE q1 == a \div d
           r1 == a % d
<1>1. q1 \in Int /\ r1 \in Nat /\ r1 < d /\ a = d * q1 + r1
  BY SMT
<1> HIDE DEF q1, r1
<1>2. ASSUME NEW k \in Nat, NEW s \in Int, NEW t \in Int, s = t + 1 + k
      PROVE  d * s >= d * t + d
  <2>1. d * s = d * t + d + d * k
    BY <1>2
  <2>2. d * k \in Nat /\ d * t \in Int
    OBVIOUS
  <2> QED
    BY <2>1, <2>2
<1>3. d * q \in Int /\ d * q1 \in Int
  BY <1>1
<1>4. ASSUME q1 < q PROVE FALSE
  <2>1. q - q1 - 1 \in Nat /\ q = q1 + 1 + (q - q1 - 1)
    BY <1>1, <1>4
  <2>2. d * q >= d * q1 + d
    BY <1>1, <1>2, <2>1
  <2> QED
    BY <1>1, <1>3, <2>2
<1>5. ASSUME q < q1 PROVE FALSE
  <2>1. q1 - q - 1 \in Nat /\ q1 = q + 1 + (q1 - q - 1)
    BY <1>1, <1>5
  <2>2. d * q1 >= d * q + d
    BY <1>1, <1>2, <2>1
  <2> QED
    BY <1>1, <1>3, <2>2
<1> QED
  BY <1>1, <1>4, <1>5 DEF q1

\* Division by p, and by 2 * p: the bit between them.
LEMMA NextBit ==
  ASSUME NEW a \in Nat, NEW p \in Nat \ {0}
  PROVE  a \div p = 2 * (a \div (2 * p)) + ((a \div p) % 2)
<1> DEFINE d == a \div p
           r == a % p
           e == d \div 2
           f == d % 2
<1>1. d \in Nat /\ r \in Nat /\ r < p /\ a = p * d + r
  BY SMT
<1>2. e \in Nat /\ f \in {0, 1} /\ d = 2 * e + f
  <2> HIDE DEF d
  <2> QED
    BY <1>1
<1> HIDE DEF d, r, e, f
<1>3. p * f + r \in Nat /\ p * f + r < 2 * p
  <2>1. CASE f = 0
    BY <1>1, <2>1
  <2>2. CASE f = 1
    BY <1>1, <2>2
  <2> QED
    BY <1>2, <2>1, <2>2
<1>4. a = (2 * p) * e + (p * f + r)
  BY <1>1, <1>2
<1>5. a \div (2 * p) = e
  BY <1>2, <1>3, <1>4, DivisionUnique
<1> QED
  BY <1>2, <1>5 DEF d, f

LEMMA PowTypes ==
  /\ ASize \in Nat /\ ASize >= 2 /\ Pow[0] = 1
  /\ \A n \in 0 .. ASize + 1 : Pow[n] \in Nat \ {0}
  /\ \A n \in 0 .. ASize : Pow[n + 1] = 2 * Pow[n]
  /\ Depth \in Nat \ {0} /\ Pow[ASize + 1] = 2 * Depth
<1>1. ASize \in 0 .. ASize + 1 /\ ASize \in 0 .. ASize
  BY ASizeAssumption
<1> QED
  BY <1>1, ASizeAssumption, PowAssumption DEF Depth

\* The depth is a multiple of each power below it, and an even one of each but itself.
LEMMA PowSplit ==
  ASSUME NEW i \in 0 .. ASize
  PROVE  Depth = Pow[i] * Pow[ASize - i]
<1> DEFINE S == {k \in Nat : k <= ASize => Depth = Pow[k] * Pow[ASize - k]}
<1>1. 0 \in S
  BY PowTypes DEF Depth
<1>2. ASSUME NEW k \in Nat, k \in S PROVE k + 1 \in S
  <2>1. SUFFICES ASSUME k + 1 <= ASize PROVE Depth = Pow[k + 1] * Pow[ASize - (k + 1)]
    OBVIOUS
  <2>2. k \in 0 .. ASize /\ ASize - (k + 1) \in 0 .. ASize /\ (ASize - (k + 1)) + 1 = ASize - k
    BY <2>1, PowTypes
  <2>3. Pow[k + 1] = 2 * Pow[k] /\ Pow[ASize - k] = 2 * Pow[ASize - (k + 1)]
    BY <2>2, PowTypes
  <2>4. Pow[k] \in Nat /\ Pow[ASize - (k + 1)] \in Nat
    <3>1. k \in 0 .. ASize + 1 /\ ASize - (k + 1) \in 0 .. ASize + 1
      BY <2>1, <2>2, PowTypes
    <3> QED
      BY <3>1, PowTypes
  <2>5. Depth = Pow[k] * Pow[ASize - k]
    BY <1>2, <2>2
  <2> QED
    BY <2>3, <2>4, <2>5
<1> HIDE DEF S
<1>3. i \in S
  BY <1>1, <1>2, SetInduction
<1> QED
  BY <1>3 DEF S

-----------------------------------------------------------------------------
(* Quotients *)

LEMMA QuotTypes ==
  ASSUME NEW b \in Nat
  PROVE  /\ Quot(b, 0) = b
         /\ \A i \in 0 .. ASize + 1 : Quot(b, i) \in Nat
         /\ \A i \in 0 .. ASize : /\ Quot(b, i) = 2 * Quot(b, i + 1) + Bit(b, i)
                                  /\ Bit(b, i) \in {0, 1}
         /\ \A i \in 0 .. ASize + 1 : Bit(b, i) = Quot(b, i) % 2
         /\ b < 2 * Depth => Quot(b, ASize + 1) = 0
<1>1. Quot(b, 0) = b
  BY PowTypes DEF Quot
<1>2. ASSUME NEW i \in 0 .. ASize + 1 PROVE Quot(b, i) \in Nat
  <2>1. Pow[i] \in Nat \ {0}
    BY PowTypes
  <2> HIDE DEF Depth
  <2> QED
    BY <2>1, SMT DEF Quot
<1>3. \A i \in 0 .. ASize + 1 : Bit(b, i) = Quot(b, i) % 2
  BY DEF Bit, Quot
<1>4. ASSUME NEW i \in 0 .. ASize
      PROVE  Quot(b, i) = 2 * Quot(b, i + 1) + Bit(b, i) /\ Bit(b, i) \in {0, 1}
  <2>1. i \in 0 .. ASize + 1
    BY PowTypes
  <2>2. Pow[i] \in Nat \ {0} /\ Pow[i + 1] = 2 * Pow[i]
    BY <2>1, PowTypes
  <2>3. b \div Pow[i] = 2 * (b \div (2 * Pow[i])) + ((b \div Pow[i]) % 2)
    BY <2>2, NextBit
  <2> QED
    BY <1>2, <1>3, <2>1, <2>2, <2>3 DEF Quot
<1>5. ASSUME b < 2 * Depth PROVE Quot(b, ASize + 1) = 0
  <2>1. 2 * Depth \in Nat \ {0} /\ b = (2 * Depth) * 0 + b
    BY PowTypes
  <2>2. b \div (2 * Depth) = 0
    BY <1>5, <2>1, DivisionUnique
  <2> QED
    BY <2>2, PowTypes DEF Quot
<1> QED
  BY <1>1, <1>2, <1>3, <1>4, <1>5

\* A bit of the Gray code is the parity of two quotients.
LEMMA GrayBit ==
  ASSUME NEW b \in Nat
  PROVE  /\ GrayCode(b) \in [Bits -> {0, 1}]
         /\ \A i \in Bits : GrayCode(b)[i] = (Quot(b, i) + Quot(b, i + 1)) % 2
<1>1. ASSUME NEW i \in Bits
      PROVE  (Bit(b, i) + Bit(b, i + 1)) % 2 = (Quot(b, i) + Quot(b, i + 1)) % 2
             /\ (Bit(b, i) + Bit(b, i + 1)) % 2 \in {0, 1}
  <2>1. i \in 0 .. ASize + 1 /\ i + 1 \in 0 .. ASize + 1
    BY PowTypes DEF Bits
  <2>2. /\ Quot(b, i) \in Nat /\ Quot(b, i + 1) \in Nat
        /\ Bit(b, i) = Quot(b, i) % 2 /\ Bit(b, i + 1) = Quot(b, i + 1) % 2
    BY <2>1, QuotTypes
  <2> QED
    BY <2>2
<1> QED
  BY <1>1 DEF GrayCode

\* A Gray code determines its position: from the highest bit down, it determines the quotients.
LEMMA GrayInjective ==
  ASSUME NEW a \in Position, NEW b \in Position, GrayCode(a) = GrayCode(b)
  PROVE  a = b
<1>t. a \in Nat /\ b \in Nat /\ a < 2 * Depth /\ b < 2 * Depth
  BY PowTypes DEF Position
<1> DEFINE S == {k \in Nat : k <= ASize + 1 => Quot(a, ASize + 1 - k) = Quot(b, ASize + 1 - k)}
<1>1. 0 \in S
  <2>1. ASize + 1 - 0 = ASize + 1
    BY PowTypes
  <2> QED
    BY <1>t, <2>1, QuotTypes
<1>2. ASSUME NEW k \in Nat, k \in S PROVE k + 1 \in S
  <2>1. SUFFICES ASSUME k + 1 <= ASize + 1 PROVE Quot(a, ASize - k) = Quot(b, ASize - k)
    <3>1. ASize + 1 - (k + 1) = ASize - k
      BY PowTypes
    <3> QED
      BY <2>1, <3>1
  <2> DEFINE i == ASize - k
  <2>a. ASize \in Nat
    BY PowTypes
  <2>2. i \in 0 .. ASize /\ i \in Bits /\ ASize + 1 - k = i + 1
    BY <2>1, <2>a DEF Bits
  <2>i. i \in 0 .. ASize + 1 /\ i + 1 \in 0 .. ASize + 1
    BY <2>2, PowTypes
  <2>3. Quot(a, i + 1) = Quot(b, i + 1)
    <3>1. k <= ASize + 1
      BY <2>1, <2>a
    <3>2. Quot(a, ASize + 1 - k) = Quot(b, ASize + 1 - k)
      BY <1>2, <3>1
    <3> QED
      BY <2>2, <3>2
  <2>4. (Quot(a, i) + Quot(a, i + 1)) % 2 = (Quot(b, i) + Quot(b, i + 1)) % 2
    BY <1>t, <2>2, GrayBit
  <2> HIDE DEF i
  <2>5. /\ Quot(a, i) = 2 * Quot(a, i + 1) + Bit(a, i) /\ Bit(a, i) \in {0, 1}
        /\ Quot(b, i) = 2 * Quot(b, i + 1) + Bit(b, i) /\ Bit(b, i) \in {0, 1}
        /\ Quot(a, i + 1) \in Nat
    BY <1>t, <2>2, <2>i, QuotTypes
  <2>6. Quot(a, i) = Quot(b, i)
    BY <2>3, <2>4, <2>5
  <2> QED
    BY <2>6 DEF i
<1> HIDE DEF S
<1>3. ASize + 1 \in Nat /\ ASize + 1 \in S
  BY <1>1, <1>2, SetInduction, PowTypes
<1>4. ASize + 1 - (ASize + 1) = 0
  BY PowTypes
<1>5. Quot(a, 0) = Quot(b, 0)
  BY <1>3, <1>4 DEF S
<1> QED
  BY <1>t, <1>5, QuotTypes

-----------------------------------------------------------------------------
(* The next number *)

\* The quotient by Pow[i] goes on with b.
Carried(b, i) == Quot(b + 1, i) = Quot(b, i) + 1

\* When a number goes on by one, each quotient goes on by one or stays, and goes on only when
\* the one below it does.
LEMMA Carry ==
  ASSUME NEW b \in Nat
  PROVE  /\ \A i \in 0 .. ASize + 1 : Carried(b, i) \/ Quot(b + 1, i) = Quot(b, i)
         /\ \A i \in 0 .. ASize : Carried(b, i + 1) => Carried(b, i)
<1> DEFINE S == {k \in Nat : k <= ASize + 1 => Carried(b, k) \/ Quot(b + 1, k) = Quot(b, k)}
<1>1. 0 \in S
  BY QuotTypes DEF Carried
<1>2. ASSUME NEW k \in 0 .. ASize, Carried(b, k) \/ Quot(b + 1, k) = Quot(b, k)
      PROVE  /\ Carried(b, k + 1) \/ Quot(b + 1, k + 1) = Quot(b, k + 1)
             /\ Carried(b, k + 1) => Carried(b, k)
  <2>1. k \in 0 .. ASize + 1 /\ k + 1 \in 0 .. ASize + 1
    BY PowTypes
  <2>2. /\ Quot(b, k) = 2 * Quot(b, k + 1) + Bit(b, k) /\ Bit(b, k) \in {0, 1}
        /\ Quot(b, k + 1) \in Nat /\ Quot(b, k) \in Nat
    BY <2>1, QuotTypes
  <2>3. /\ Quot(b + 1, k) = 2 * Quot(b + 1, k + 1) + Bit(b + 1, k) /\ Bit(b + 1, k) \in {0, 1}
        /\ Quot(b + 1, k + 1) \in Nat /\ Quot(b + 1, k) \in Nat
    BY <2>1, QuotTypes
  <2> QED
    BY <1>2, <2>2, <2>3 DEF Carried
<1>3. ASSUME NEW k \in Nat, k \in S PROVE k + 1 \in S
  <2>1. SUFFICES ASSUME k + 1 <= ASize + 1
                 PROVE  Carried(b, k + 1) \/ Quot(b + 1, k + 1) = Quot(b, k + 1)
    OBVIOUS
  <2>2. k \in 0 .. ASize /\ k <= ASize + 1
    BY <2>1, PowTypes
  <2>3. Carried(b, k) \/ Quot(b + 1, k) = Quot(b, k)
    BY <1>3, <2>2
  <2> QED
    BY <1>2, <2>2, <2>3
<1> HIDE DEF S
<1>4. \A k \in Nat : k \in S
  BY <1>1, <1>3, SetInduction
<1>5. \A i \in 0 .. ASize + 1 : Carried(b, i) \/ Quot(b + 1, i) = Quot(b, i)
  BY <1>4, PowTypes DEF S
<1>6. \A i \in 0 .. ASize : i \in 0 .. ASize + 1
  BY PowTypes
<1> QED
  BY <1>2, <1>5, <1>6

\* A carry that does not reach a quotient does not reach the ones above it.
LEMMA CarryStops ==
  ASSUME NEW b \in Nat, NEW i \in 0 .. ASize + 1, ~Carried(b, i)
  PROVE  \A j \in i .. ASize + 1 : ~Carried(b, j)
<1> DEFINE S == {k \in Nat : i + k <= ASize + 1 => ~Carried(b, i + k)}
<1>1. 0 \in S
  BY PowTypes
<1>2. ASSUME NEW k \in Nat, k \in S PROVE k + 1 \in S
  <2>1. SUFFICES ASSUME i + (k + 1) <= ASize + 1 PROVE ~Carried(b, i + (k + 1))
    OBVIOUS
  <2>2. i + k \in 0 .. ASize /\ i + k <= ASize + 1 /\ i + (k + 1) = (i + k) + 1
    BY <2>1, PowTypes
  <2>3. ~Carried(b, i + k)
    BY <1>2, <2>2
  <2> QED
    BY <2>2, <2>3, Carry
<1> HIDE DEF S
<1>3. ASSUME NEW j \in i .. ASize + 1 PROVE ~Carried(b, j)
  <2>1. j - i \in Nat /\ i + (j - i) = j /\ i + (j - i) <= ASize + 1
    BY PowTypes
  <2>2. j - i \in S
    BY <1>1, <1>2, <2>1, SetInduction
  <2> QED
    BY <2>1, <2>2 DEF S
<1> QED
  BY <1>3

\* A bit of the Gray code changes only where the carry stops.
LEMMA GrayStep ==
  ASSUME NEW b \in Nat, NEW i \in Bits, GrayCode(b + 1)[i] # GrayCode(b)[i]
  PROVE  Carried(b, i) /\ ~Carried(b, i + 1)
<1>1. i \in 0 .. ASize /\ i \in 0 .. ASize + 1 /\ i + 1 \in 0 .. ASize + 1
  BY PowTypes DEF Bits
<1>2. /\ GrayCode(b)[i] = (Quot(b, i) + Quot(b, i + 1)) % 2
      /\ GrayCode(b + 1)[i] = (Quot(b + 1, i) + Quot(b + 1, i + 1)) % 2
  BY GrayBit
<1>3. /\ Quot(b, i) \in Nat /\ Quot(b, i + 1) \in Nat
      /\ Quot(b + 1, i) \in Nat /\ Quot(b + 1, i + 1) \in Nat
  BY <1>1, QuotTypes
<1>4. /\ Carried(b, i) \/ Quot(b + 1, i) = Quot(b, i)
      /\ Carried(b, i + 1) \/ Quot(b + 1, i + 1) = Quot(b, i + 1)
      /\ Carried(b, i + 1) => Carried(b, i)
  BY <1>1, Carry
<1> QED
  BY <1>2, <1>3, <1>4 DEF Carried

\* So no two bits do.
LEMMA OneBitChanges ==
  ASSUME NEW b \in Nat, NEW i \in Bits, NEW j \in Bits,
         GrayCode(b + 1)[i] # GrayCode(b)[i], GrayCode(b + 1)[j] # GrayCode(b)[j]
  PROVE  i = j
<1>1. ASSUME NEW m \in Bits, NEW n \in Bits, m < n, ~Carried(b, m + 1), Carried(b, n)
      PROVE  FALSE
  <2>1. m + 1 \in 0 .. ASize + 1 /\ n \in m + 1 .. ASize + 1
    BY <1>1, PowTypes DEF Bits
  <2> QED
    BY <1>1, <2>1, CarryStops
<1>2. /\ Carried(b, i) /\ ~Carried(b, i + 1) /\ Carried(b, j) /\ ~Carried(b, j + 1)
  BY GrayStep
<1>3. i \in Int /\ j \in Int
  BY DEF Bits
<1> QED
  BY <1>1, <1>2, <1>3

-----------------------------------------------------------------------------
(* One lap on *)

LEMMA QuotLap ==
  ASSUME NEW p \in 0 .. Depth, NEW i \in 0 .. ASize
  PROVE  Quot(p + Depth, i) = Quot(p, i) + Pow[ASize - i]
<1> DEFINE d == Pow[i]
           m == Pow[ASize - i]
           q == p \div d
           r == p % d
<1>1. i \in 0 .. ASize + 1 /\ ASize - i \in 0 .. ASize + 1
  BY PowTypes
<1>2. d \in Nat \ {0} /\ m \in Nat \ {0} /\ p \in Nat
  BY <1>1, PowTypes
<1>3. Depth = d * m
  BY PowSplit
<1> HIDE DEF d, m
<1>4. q \in Nat /\ r \in Nat /\ r < d /\ p = d * q + r
  BY <1>2, SMT
<1> HIDE DEF q, r
<1>5. p + Depth = d * (q + m) + r
  BY <1>2, <1>3, <1>4
<1>6. q + m \in Nat /\ p + Depth \in Nat
  BY <1>2, <1>4, PowTypes
<1>7. (p + Depth) \div d = q + m
  BY <1>2, <1>4, <1>5, <1>6, DivisionUnique
<1> QED
  BY <1>7 DEF Quot, d, m, q

\* The powers below the depth are even fractions of it.
LEMMA LapParity ==
  ASSUME NEW i \in 0 .. ASize
  PROVE  /\ Pow[ASize - i] \in Nat
         /\ i = ASize => Pow[ASize - i] = 1
         /\ i < ASize => Pow[ASize - i] % 2 = 0
<1>1. ASize - i \in 0 .. ASize + 1 /\ Pow[ASize - i] \in Nat
  BY PowTypes
<1>2. ASSUME i = ASize PROVE Pow[ASize - i] = 1
  <2>1. ASize - i = 0
    BY <1>2, PowTypes
  <2> QED
    BY <2>1, PowTypes
<1>3. ASSUME i < ASize PROVE Pow[ASize - i] % 2 = 0
  <2>1. ASize - i - 1 \in 0 .. ASize /\ (ASize - i - 1) + 1 = ASize - i
    BY <1>3, PowTypes
  <2>2. Pow[ASize - i - 1] \in Nat
    <3>1. ASize - i - 1 \in 0 .. ASize + 1
      BY <2>1, PowTypes
    <3> QED
      BY <3>1, PowTypes
  <2>3. Pow[ASize - i] = 2 * Pow[ASize - i - 1]
    BY <2>1, PowTypes
  <2> QED
    BY <2>2, <2>3
<1> QED
  BY <1>1, <1>2, <1>3

\* The code of the position one lap away: the two highest bits are inverted.
LEMMA GrayLap ==
  ASSUME NEW p \in 0 .. Depth - 1
  PROVE  GrayCode(p + Depth) = OneLap(GrayCode(p))
<1>1. p \in Nat /\ p + Depth \in Nat /\ p \in 0 .. Depth /\ p < 2 * Depth /\ p + Depth < 2 * Depth
  BY PowTypes
<1>2. ASSUME NEW i \in Bits PROVE GrayCode(p + Depth)[i] = OneLap(GrayCode(p))[i]
  <2>a. ASize \in Nat /\ i \in 0 .. ASize
    BY PowTypes DEF Bits
  <2>1. i \in 0 .. ASize + 1 /\ i + 1 \in 0 .. ASize + 1
    BY <2>a
  <2>2. /\ GrayCode(p)[i] = (Quot(p, i) + Quot(p, i + 1)) % 2
        /\ GrayCode(p + Depth)[i] = (Quot(p + Depth, i) + Quot(p + Depth, i + 1)) % 2
    BY <1>1, GrayBit
  <2>3. Quot(p, i) \in Nat /\ Quot(p, i + 1) \in Nat
    BY <1>1, <2>1, QuotTypes
  <2>4. Quot(p + Depth, i) = Quot(p, i) + Pow[ASize - i]
    BY <1>1, <2>a, QuotLap
  <2>5. OneLap(GrayCode(p))[i] = IF i >= ASize - 1 THEN 1 - GrayCode(p)[i] ELSE GrayCode(p)[i]
    BY DEF OneLap
  <2>6. CASE i = ASize
    <3>1. Quot(p, i + 1) = 0 /\ Quot(p + Depth, i + 1) = 0
      BY <1>1, <2>6, QuotTypes
    <3>2. Pow[ASize - i] = 1
      BY <2>a, <2>6, LapParity
    <3> QED
      BY <2>a, <2>2, <2>3, <2>4, <2>5, <2>6, <3>1, <3>2
  <2>7. CASE i # ASize
    <3>1. i < ASize /\ i + 1 \in 0 .. ASize
      BY <2>a, <2>7
    <3>2. Quot(p + Depth, i + 1) = Quot(p, i + 1) + Pow[ASize - (i + 1)]
      BY <1>1, <3>1, QuotLap
    <3>3. Pow[ASize - i] \in Nat /\ Pow[ASize - i] % 2 = 0
      BY <2>a, <3>1, LapParity
    <3>4. Pow[ASize - (i + 1)] \in Nat
      BY <3>1, LapParity
    <3>5. CASE i = ASize - 1
      <4>1. Pow[ASize - (i + 1)] = 1
        BY <2>a, <3>1, <3>5, LapParity
      <4> QED
        BY <2>a, <2>2, <2>3, <2>4, <2>5, <3>2, <3>3, <3>5, <4>1
    <3>6. CASE i # ASize - 1
      <4>0. i + 1 < ASize /\ ~(i >= ASize - 1)
        BY <2>a, <3>1, <3>6
      <4>1. Pow[ASize - (i + 1)] % 2 = 0
        BY <3>1, <4>0, LapParity
      <4> QED
        BY <2>a, <2>2, <2>3, <2>4, <2>5, <3>2, <3>3, <3>4, <4>0, <4>1
    <3> QED
      BY <3>5, <3>6
  <2> QED
    BY <2>6, <2>7
<1>3. GrayCode(p + Depth) = [i \in Bits |-> GrayCode(p + Depth)[i]]
  BY DEF GrayCode
<1>4. OneLap(GrayCode(p)) = [i \in Bits |-> OneLap(GrayCode(p))[i]]
  BY DEF OneLap
<1> QED
  BY <1>2, <1>3, <1>4

LEMMA GrayZero == GrayCode(0) = Zeros
<1>1. ASSUME NEW i \in 0 .. ASize + 1 PROVE Bit(0, i) = 0
  <2>1. Pow[i] \in Nat \ {0} /\ 0 = Pow[i] * 0 + 0
    BY PowTypes
  <2>2. 0 \div Pow[i] = 0
    BY <2>1, DivisionUnique
  <2> QED
    BY <2>2 DEF Bit
<1>2. \A i \in Bits : i \in 0 .. ASize + 1 /\ i + 1 \in 0 .. ASize + 1
  BY PowTypes DEF Bits
<1> QED
  BY <1>1, <1>2 DEF GrayCode, Zeros

\* The highest position's code has one bit, and the next position is 0.
LEMMA GrayWraps ==
  ASSUME NEW i \in Bits, i # ASize
  PROVE  GrayCode(2 * Depth - 1)[i] = 0
<1> DEFINE b == 2 * Depth - 1
<1>1. b \in Nat /\ b < 2 * Depth /\ b + 1 = 2 * Depth /\ 2 * Depth \in Nat /\ Depth + Depth = 2 * Depth
  BY PowTypes
<1>2. ASize \in Nat /\ i \in 0 .. ASize /\ i + 1 \in 0 .. ASize /\ ASize + 1 \in 0 .. ASize + 1
  BY PowTypes DEF Bits
<1>3. Quot(b, ASize + 1) = 0
  BY <1>1, QuotTypes
<1>4. Quot(b + 1, ASize + 1) = 1
  <2>1. 2 * Depth \in Nat \ {0} /\ 2 * Depth = (2 * Depth) * 1 + 0
    BY PowTypes
  <2>2. (2 * Depth) \div (2 * Depth) = 1
    BY <2>1, DivisionUnique
  <2> QED
    BY <1>1, <2>2, PowTypes DEF Quot
<1> HIDE DEF b
<1>5. Carried(b, ASize + 1)
  BY <1>3, <1>4 DEF Carried
<1>6. Carried(b, i + 1)
  <2>1. i + 1 \in 0 .. ASize + 1 /\ ASize + 1 \in i + 1 .. ASize + 1
    BY <1>2
  <2> QED
    BY <1>1, <1>5, <2>1, CarryStops
<1>7. GrayCode(b)[i] = GrayCode(b + 1)[i]
  BY <1>1, <1>6, GrayStep
<1>8. ASSUME NEW k \in 0 .. ASize PROVE Quot(2 * Depth, k) = 2 * Pow[ASize - k] /\ Pow[ASize - k] \in Nat
  <2>1. k \in 0 .. ASize + 1 /\ 0 \in 0 .. Depth /\ Depth \in 0 .. Depth /\ 0 + Depth = Depth
    BY PowTypes
  <2>2. Pow[ASize - k] \in Nat
    BY LapParity
  <2>3. Quot(0, k) = 0
    <3>1. Pow[k] \in Nat \ {0} /\ 0 = Pow[k] * 0 + 0
      BY <2>1, PowTypes
    <3> QED
      BY <3>1, DivisionUnique DEF Quot
  <2>4. Quot(0 + Depth, k) = Quot(0, k) + Pow[ASize - k]
    BY <2>1, QuotLap
  <2>5. Quot(Depth + Depth, k) = Quot(Depth, k) + Pow[ASize - k]
    BY <2>1, QuotLap
  <2> QED
    BY <1>1, <2>1, <2>2, <2>3, <2>4, <2>5
<1>9. GrayCode(2 * Depth)[i] = (Quot(2 * Depth, i) + Quot(2 * Depth, i + 1)) % 2
  BY <1>1, GrayBit
<1>10. GrayCode(2 * Depth)[i] = 0
  BY <1>2, <1>8, <1>9
<1> QED
  BY <1>1, <1>7, <1>10 DEF b

-----------------------------------------------------------------------------
(* Positions *)

LEMMA Ring ==
  /\ Position \subseteq Nat /\ 0 \in Position /\ Position = Fifo!Position
  /\ \A p \in Position : Fifo!Plus(p, 1) \in Position /\ Fifo!Plus(p, Depth) \in Position
  /\ 0 .. Pow[ASize + 1] - 1 = Position
  BY PowTypes DEF Position, Depth, Fifo!Position, Fifo!Plus

\* From a position to the next one a Gray code changes in one bit.
LEMMA GrayNext ==
  ASSUME NEW p \in Position, NEW i \in Bits, NEW j \in Bits,
         GrayCode(Fifo!Plus(p, 1))[i] # GrayCode(p)[i],
         GrayCode(Fifo!Plus(p, 1))[j] # GrayCode(p)[j]
  PROVE  i = j
<1>1. CASE p = 2 * Depth - 1
  <2>1. ASSUME NEW k \in Bits, k # ASize PROVE GrayCode(Fifo!Plus(p, 1))[k] = GrayCode(p)[k]
    <3>1. GrayCode(p)[k] = 0
      BY <1>1, <2>1, GrayWraps
    <3>a. Fifo!Plus(p, 1) = 0
      BY <1>1, PowTypes DEF Position, Depth, Fifo!Plus
    <3>2. GrayCode(Fifo!Plus(p, 1)) = Zeros
      BY <3>a, GrayZero
    <3> QED
      BY <3>1, <3>2 DEF Zeros
  <2> QED
    BY <2>1
<1>2. CASE p # 2 * Depth - 1
  <2>1. Fifo!Plus(p, 1) = p + 1 /\ p \in Nat
    BY <1>2, PowTypes DEF Position, Depth, Fifo!Plus
  <2> QED
    BY <2>1, OneBitChanges
<1> QED
  BY <1>1, <1>2

\* So what a synchroniser catches of a pointer that changes is the old or the new pointer.
LEMMA CaughtIsOldOrNew ==
  ASSUME NEW p \in Position, NEW q \in {p, Fifo!Plus(p, 1)}, NEW g \in Caught(GrayCode(p), GrayCode(q))
  PROVE  g = GrayCode(p) \/ g = GrayCode(q)
<1>1. p \in Nat /\ q \in Nat
  BY Ring
<1>2. /\ g \in [Bits -> {0, 1}] /\ GrayCode(p) \in [Bits -> {0, 1}] /\ GrayCode(q) \in [Bits -> {0, 1}]
      /\ \A i \in Bits : g[i] = GrayCode(p)[i] \/ g[i] = GrayCode(q)[i]
  BY <1>1, GrayBit DEF Caught
<1>3. SUFFICES ASSUME g # GrayCode(p) PROVE g = GrayCode(q)
  OBVIOUS
<1>4. PICK i \in Bits : g[i] # GrayCode(p)[i]
  BY <1>2, <1>3
<1>5. \A j \in Bits : GrayCode(q)[j] # GrayCode(p)[j] => i = j
  BY <1>2, <1>4, GrayNext
<1> QED
  BY <1>2, <1>4, <1>5

LEMMA DecodeCode ==
  ASSUME NEW p \in Position
  PROVE  Decode(GrayCode(p)) = p
<1>1. \A b \in Position : GrayCode(b) = GrayCode(p) => b = p
  BY GrayInjective
<1> HIDE DEF Position
<1> QED
  BY <1>1, Ring DEF Decode

\* The full test on Gray codes is the test on positions.
LEMMA LapCode ==
  ASSUME NEW w \in Position, NEW r \in Position
  PROVE  GrayCode(w) = OneLap(GrayCode(r)) <=> w = Fifo!Plus(r, Depth)
<1>1. OneLap(GrayCode(r)) = GrayCode(Fifo!Plus(r, Depth))
  <2>1. CASE r < Depth
    <3>1. r \in 0 .. Depth - 1 /\ Fifo!Plus(r, Depth) = r + Depth
      BY <2>1, PowTypes DEF Position, Depth, Fifo!Plus
    <3> QED
      BY <3>1, GrayLap
  <2>2. CASE ~(r < Depth)
    <3> DEFINE s == r - Depth
    <3>1. s \in 0 .. Depth - 1 /\ Fifo!Plus(r, Depth) = s /\ r = s + Depth /\ s \in Nat
      BY <2>2, PowTypes DEF Position, Depth, Fifo!Plus
    <3> HIDE DEF s
    <3>2. GrayCode(r) = OneLap(GrayCode(s))
      BY <3>1, GrayLap
    <3>3. GrayCode(s) \in [Bits -> {0, 1}]
      BY <3>1, GrayBit
    <3>4. \A i \in Bits : GrayCode(s)[i] \in {0, 1}
      BY <3>3
    <3>5. OneLap(OneLap(GrayCode(s))) = [i \in Bits |-> GrayCode(s)[i]]
      BY <3>4 DEF OneLap
    <3> QED
      BY <3>1, <3>2, <3>3, <3>5
  <2> QED
    BY <2>1, <2>2
<1>2. Fifo!Plus(r, Depth) \in Position
  BY Ring
<1> QED
  BY <1>1, <1>2, GrayInjective

-----------------------------------------------------------------------------
(* The refinement *)

\* The pointers are published in Gray code, and what the flip-flops hold is the code of a position.
Codes == {GrayCode(p) : p \in Position}
GInv ==
    /\ wbin \in Position /\ wptr = GrayCode(wbin) /\ rbin \in Position /\ rptr = GrayCode(rbin)
    /\ wq1_rptr \in Codes /\ wq2_rptr \in Codes /\ rq1_wptr \in Codes /\ rq2_wptr \in Codes

LEMMA CodesDecode ==
  ASSUME NEW g \in Codes
  PROVE  Decode(g) \in Position /\ GrayCode(Decode(g)) = g
  BY DecodeCode DEF Codes

LEMMA ZeroCode == Zeros \in Codes /\ Decode(Zeros) = 0
  BY GrayZero, Ring, DecodeCode DEF Codes

LEMMA NextPositions ==
  ASSUME GInv
  PROVE  /\ \A winc : Fifo!WbinNext(winc) \in {wbin, Fifo!Plus(wbin, 1)} /\ Fifo!WbinNext(winc) \in Position
         /\ \A rinc : Fifo!RbinNext(rinc) \in {rbin, Fifo!Plus(rbin, 1)} /\ Fifo!RbinNext(rinc) \in Position
  BY Ring DEF GInv, Fifo!WbinNext, Fifo!RbinNext

\* An edge of either clock that catches a pointer's code is one that catches the pointer.
LEMMA WriteSideMaps ==
  ASSUME GInv, NEW winc, NEW wdata, NEW p \in Position, WriteSide(winc, wdata, GrayCode(p))
  PROVE  /\ Fifo!WriteSide(winc, wdata, p)
         /\ wbin' \in Position /\ wptr' = GrayCode(wbin') /\ wq1_rptr' \in Codes /\ wq2_rptr' \in Codes
<1> DEFINE w == Fifo!WbinNext(winc)
<1>1. w \in Position
  BY NextPositions
<1>2. /\ wbin' = w /\ wptr' = GrayCode(w) /\ wfull' = (GrayCode(w) = OneLap(wq2_rptr))
      /\ mem' = IF winc /\ ~wfull THEN [mem EXCEPT ![Fifo!AddrOf(wbin)] = wdata] ELSE mem
      /\ wq1_rptr' = GrayCode(p) /\ wq2_rptr' = wq1_rptr
  BY DEF WriteSide
<1> HIDE DEF w
<1>3. wq1_rptr' \in Codes /\ wq2_rptr' \in Codes
  BY <1>2 DEF GInv, Codes
<1>4. Decode(wq1_rptr') = p /\ Decode(wq2_rptr') = Decode(wq1_rptr)
  BY <1>2, DecodeCode
<1>5. wfull' = (w = Fifo!Plus(Decode(wq2_rptr), Depth))
  <2>1. Decode(wq2_rptr) \in Position /\ GrayCode(Decode(wq2_rptr)) = wq2_rptr
    BY CodesDecode DEF GInv
  <2>2. GrayCode(w) = OneLap(wq2_rptr) <=> w = Fifo!Plus(Decode(wq2_rptr), Depth)
    BY <1>1, <2>1, LapCode
  <2> QED
    BY <1>2, <2>2
<1>6. Fifo!WriteSide(winc, wdata, p)
  BY <1>2, <1>4, <1>5 DEF w, Fifo!WriteSide, Fifo!FullVal, Depth
<1> QED
  BY <1>1, <1>2, <1>3, <1>6

LEMMA ReadSideMaps ==
  ASSUME GInv, NEW rinc, NEW p \in Position, ReadSide(rinc, GrayCode(p))
  PROVE  /\ Fifo!ReadSide(rinc, p)
         /\ rbin' \in Position /\ rptr' = GrayCode(rbin') /\ rq1_wptr' \in Codes /\ rq2_wptr' \in Codes
<1> DEFINE r == Fifo!RbinNext(rinc)
<1>1. r \in Position
  BY NextPositions
<1>2. /\ rbin' = r /\ rptr' = GrayCode(r) /\ rempty' = (GrayCode(r) = rq2_wptr)
      /\ rdata' = IF rinc THEN mem[Fifo!AddrOf(rbin)] ELSE rdata
      /\ rq1_wptr' = GrayCode(p) /\ rq2_wptr' = rq1_wptr
  BY DEF ReadSide
<1> HIDE DEF r
<1>3. rq1_wptr' \in Codes /\ rq2_wptr' \in Codes
  BY <1>2 DEF GInv, Codes
<1>4. Decode(rq1_wptr') = p /\ Decode(rq2_wptr') = Decode(rq1_wptr)
  BY <1>2, DecodeCode
<1>5. rempty' = (r = Decode(rq2_wptr))
  <2>1. Decode(rq2_wptr) \in Position /\ GrayCode(Decode(rq2_wptr)) = rq2_wptr
    BY CodesDecode DEF GInv
  <2> QED
    BY <1>1, <1>2, <2>1, GrayInjective
<1>6. Fifo!ReadSide(rinc, p)
  BY <1>2, <1>4, <1>5 DEF r, Fifo!ReadSide, Fifo!EmptyVal
<1> QED
  BY <1>1, <1>2, <1>3, <1>6

LEMMA InitMaps == Init => GInv /\ Fifo!Init
<1>1. Init => GInv
  BY ZeroCode, GrayZero, Ring DEF Init, GInv
<1>2. Init => Fifo!Init
  BY ZeroCode DEF Init, Fifo!Init
<1> QED
  BY <1>1, <1>2

LEMMA NextMaps == GInv /\ [Next]_vars => GInv' /\ [Fifo!Next]_Fifo!vars
<1> SUFFICES ASSUME GInv, [Next]_vars PROVE GInv' /\ [Fifo!Next]_Fifo!vars
  OBVIOUS
<1>1. ASSUME NEW winc \in BOOLEAN, NEW wdata \in Data, WClk(winc, wdata)
      PROVE  GInv' /\ Fifo!WClk(winc, wdata)
  <2>1. WriteSide(winc, wdata, GrayCode(rbin)) /\ rbin \in Position /\ UNCHANGED rvars
    BY <1>1 DEF WClk, GInv
  <2>2. /\ Fifo!WriteSide(winc, wdata, rbin)
        /\ wbin' \in Position /\ wptr' = GrayCode(wbin') /\ wq1_rptr' \in Codes /\ wq2_rptr' \in Codes
    BY <2>1, WriteSideMaps
  <2>3. GInv'
    BY <2>1, <2>2 DEF GInv, rvars
  <2> QED
    BY <2>1, <2>2, <2>3 DEF Fifo!WClk, Fifo!rvars, rvars
<1>2. ASSUME NEW rinc \in BOOLEAN, RClk(rinc)
      PROVE  GInv' /\ Fifo!RClk(rinc)
  <2>1. ReadSide(rinc, GrayCode(wbin)) /\ wbin \in Position /\ UNCHANGED wvars
    BY <1>2 DEF RClk, GInv
  <2>2. /\ Fifo!ReadSide(rinc, wbin)
        /\ rbin' \in Position /\ rptr' = GrayCode(rbin') /\ rq1_wptr' \in Codes /\ rq2_wptr' \in Codes
    BY <2>1, ReadSideMaps
  <2>3. GInv'
    BY <2>1, <2>2 DEF GInv, wvars
  <2> QED
    BY <2>1, <2>2, <2>3 DEF Fifo!RClk, Fifo!wvars, wvars
<1>3. ASSUME NEW winc \in BOOLEAN, NEW rinc \in BOOLEAN, NEW wdata \in Data, BothClk(winc, wdata, rinc)
      PROVE  GInv' /\ Fifo!BothClk(winc, wdata, rinc)
  <2>1. PICK r \in Caught(rptr, GrayCode(Fifo!RbinNext(rinc))),
             w \in Caught(wptr, GrayCode(Fifo!WbinNext(winc))) :
           WriteSide(winc, wdata, r) /\ ReadSide(rinc, w)
    BY <1>3 DEF BothClk
  <2>2. PICK rp \in {rbin, Fifo!RbinNext(rinc)} : r = GrayCode(rp) /\ rp \in Position
    BY <2>1, NextPositions, CaughtIsOldOrNew DEF GInv
  <2>3. PICK wp \in {wbin, Fifo!WbinNext(winc)} : w = GrayCode(wp) /\ wp \in Position
    BY <2>1, NextPositions, CaughtIsOldOrNew DEF GInv
  <2>4. /\ Fifo!WriteSide(winc, wdata, rp)
        /\ wbin' \in Position /\ wptr' = GrayCode(wbin') /\ wq1_rptr' \in Codes /\ wq2_rptr' \in Codes
    BY <2>1, <2>2, WriteSideMaps
  <2>5. /\ Fifo!ReadSide(rinc, wp)
        /\ rbin' \in Position /\ rptr' = GrayCode(rbin') /\ rq1_wptr' \in Codes /\ rq2_wptr' \in Codes
    BY <2>1, <2>3, ReadSideMaps
  <2>6. GInv'
    BY <2>4, <2>5 DEF GInv
  <2>7. Fifo!BothClk(winc, wdata, rinc)
    BY <2>4, <2>5 DEF Fifo!BothClk
  <2> QED
    BY <2>6, <2>7
<1>4. CASE Reset
  <2>1. GInv'
    BY <1>4, ZeroCode, GrayZero, Ring DEF Reset, GInv
  <2>2. Fifo!Reset
    BY <1>4, ZeroCode DEF Reset, Fifo!Reset
  <2> QED
    BY <2>1, <2>2 DEF Fifo!Next
<1>5. CASE UNCHANGED vars
  <2>1. GInv'
    BY <1>5 DEF GInv, vars, wvars, rvars
  <2>2. UNCHANGED Fifo!vars
    BY <1>5 DEF Fifo!vars, vars, wvars, rvars
  <2> QED
    BY <2>1, <2>2
<1> QED
  BY <1>1, <1>2, <1>3, <1>4, <1>5 DEF Next, Fifo!Next

\* For every number of address bits: whatever mixture of old and new bits the synchronisers
\* catch, and whenever the clocks strike, the Gray-coded FIFO is the FIFO on positions.
THEOREM GrayImplementsFifo == Spec => ImplementsFifo
<1>1. Spec => Fifo!Init /\ [][Fifo!Next]_Fifo!vars
  BY InitMaps, NextMaps, PTL DEF Spec
<1> QED
  BY <1>1 DEF ImplementsFifo, Fifo!Spec
=============================================================================
