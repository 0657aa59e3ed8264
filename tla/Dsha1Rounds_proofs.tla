-------------------------- MODULE Dsha1Rounds_proofs --------------------------
(***************************************************************************)
(* transform() computes what FIPS 180-4 says, for every message: the laws  *)
(* of 32-bit words that the two need (and that their sum is the sum of     *)
(* uint32_t), the schedule, the rotating names.                            *)
(***************************************************************************)
EXTENDS Dsha1Rounds, WellFoundedInduction, TLAPS

-----------------------------------------------------------------------------
(* Words *)

LEMMA WordsAreClosed ==
    ASSUME NEW x \in uint32, NEW y \in uint32, NEW n \in Nat
    PROVE  /\ XorW(x, y) \in uint32 /\ AndW(x, y) \in uint32 /\ OrW(x, y) \in uint32
           /\ Plus(x, y) \in uint32 /\ Rot(x, n) \in uint32
<1>1. XorW(x, y) \in uint32 /\ AndW(x, y) \in uint32 /\ OrW(x, y) \in uint32
  BY DEF uint32, XorW, AndW, OrW
<1>2. Plus(x, y) \in uint32
  BY DEF uint32, Plus
<1>3. \A m \in x : (m + n) % 32 \in 0 .. 31
  BY DEF uint32, Bits
<1> QED
  BY <1>1, <1>2, <1>3 DEF uint32, Bits, Rot

LEMMA HalvesAreWords == \A high, low : Halves(high, low) \in uint32
  BY DEF Halves, uint32

\* What the code writes for Ch, Parity and Maj, with fewer operations.
LEMMA FunctionsAre ==
    ASSUME NEW x \in uint32, NEW y \in uint32, NEW z \in uint32
    PROVE  /\ f1(x, y, z) = Fips!Ch(x, y, z)
           /\ f2(x, y, z) = Fips!Parity(x, y, z)
           /\ f3(x, y, z) = Fips!Maj(x, y, z)
<1>1. f1(x, y, z) = Fips!Ch(x, y, z)
  BY DEF uint32, f1, Fips!Ch, XorW, AndW, Fips!XorW, Fips!AndW, Fips!Complement, Fips!Bits, Bits
<1>2. f2(x, y, z) = Fips!Parity(x, y, z)
  BY DEF f2, Fips!Parity, XorW, Fips!XorW
<1>3. f3(x, y, z) = Fips!Maj(x, y, z)
  BY DEF f3, Fips!Maj, OrW, AndW, Fips!XorW, Fips!AndW
<1> QED
  BY <1>1, <1>2, <1>3

LEMMA SameWords ==
    ASSUME NEW x, NEW y, NEW n
    PROVE  /\ Fips!XorW(x, y) = XorW(x, y) /\ Fips!Plus(x, y) = Plus(x, y)
           /\ Fips!Rot(x, n) = Rot(x, n) /\ Fips!Halves(x, y) = Halves(x, y)
<1>1. Fips!XorW(x, y) = XorW(x, y)
  BY DEF Fips!XorW, XorW
<1>2. Fips!Plus(x, y) = Plus(x, y)
  BY DEF Fips!Plus, Plus, Fips!Carries, Carries, Fips!Bits, Bits
<1>3. Fips!Rot(x, n) = Rot(x, n)
  BY DEF Fips!Rot, Rot
<1>4. Fips!Halves(x, y) = Halves(x, y)
  BY DEF Fips!Halves, Halves, Fips!Bits, Bits
<1> QED
  BY <1>1, <1>2, <1>3, <1>4

LEMMA XorOrder ==
    ASSUME NEW a, NEW b, NEW c, NEW d
    PROVE  XorW(XorW(a, b), XorW(c, d)) = XorW(XorW(b, c), XorW(d, a))
  BY DEF XorW

-----------------------------------------------------------------------------
(* Sums *)

\* Nothing is carried into the lowest place, and what is carried into the next one is
\* the full adder's carry.
LEMMA CarryStep ==
    ASSUME NEW x \in uint32, NEW y \in uint32
    PROVE  /\ ~Carries(x, y, 0)
           /\ \A n \in Nat : Carries(x, y, n + 1) <=>
                  (n \in x /\ n \in y) \/ ((n \in x \/ n \in y) /\ Carries(x, y, n))
<1>0. \A m \in x \cap y : m \in Nat
  BY DEF uint32, Bits
<1>1. ~Carries(x, y, 0)
  BY <1>0 DEF Carries
<1>2. ASSUME NEW n \in Nat
      PROVE  Carries(x, y, n + 1) <=>
                 (n \in x /\ n \in y) \/ ((n \in x \/ n \in y) /\ Carries(x, y, n))
  <2>1. ASSUME Carries(x, y, n + 1)
        PROVE  (n \in x /\ n \in y) \/ ((n \in x \/ n \in y) /\ Carries(x, y, n))
    <3>1. PICK m \in x \cap y : m < n + 1 /\ \A j \in m + 1 .. n : j \in x \cup y
      BY <2>1 DEF Carries
    <3>2. m \in Nat
      BY <1>0
    <3>3. CASE m = n
      BY <3>3
    <3>4. CASE m < n
      <4>1. n \in x \cup y /\ \A j \in m + 1 .. n - 1 : j \in x \cup y
        BY <3>1, <3>2, <3>4
      <4> QED
        BY <3>4, <4>1 DEF Carries
    <3> QED
      BY <3>1, <3>2, <3>3, <3>4
  <2>2. ASSUME n \in x, n \in y PROVE Carries(x, y, n + 1)
    BY <2>2 DEF Carries
  <2>3. ASSUME n \in x \cup y, Carries(x, y, n) PROVE Carries(x, y, n + 1)
    <3>1. PICK m \in x \cap y : m < n /\ \A j \in m + 1 .. n - 1 : j \in x \cup y
      BY <2>3 DEF Carries
    <3>2. m \in Nat
      BY <1>0
    <3>3. m < n + 1 /\ \A j \in m + 1 .. n : j \in x \cup y
      BY <2>3, <3>1, <3>2
    <3> QED
      BY <3>3 DEF Carries
  <2> QED
    BY <2>1, <2>2, <2>3
<1> QED
  BY <1>1, <1>2

LEMMA PlusCommutes ==
    ASSUME NEW x, NEW y
    PROVE  Plus(x, y) = Plus(y, x)
<1>1. \A n : Carries(x, y, n) <=> Carries(y, x, n)
  BY DEF Carries
<1> QED
  BY <1>1 DEF Plus

\* A carry as a number.
Carried(x, y, n) == IF Carries(x, y, n) THEN 1 ELSE 0
Bit(x, n) == IF n \in x THEN 1 ELSE 0

LEMMA FullAdder ==
    ASSUME NEW x \in uint32, NEW y \in uint32, NEW n \in Bits
    PROVE  /\ Carried(x, y, n) \in {0, 1} /\ Carried(x, y, n + 1) \in {0, 1}
           /\ Bit(x, n) \in {0, 1} /\ Bit(y, n) \in {0, 1} /\ Bit(Plus(x, y), n) \in {0, 1}
           /\ Bit(Plus(x, y), n) + 2 * Carried(x, y, n + 1)
                = Bit(x, n) + Bit(y, n) + Carried(x, y, n)
<1>1. n \in Plus(x, y) <=> (Carries(x, y, n) <=> (n \in x <=> n \in y))
  BY DEF Plus
<1>2. Carries(x, y, n + 1) <=>
          (n \in x /\ n \in y) \/ ((n \in x \/ n \in y) /\ Carries(x, y, n))
  BY CarryStep DEF Bits
<1> QED
  BY <1>1, <1>2 DEF Carried, Bit

\* Induction: a set that has 0, and with a number the next one, has them all.
LEMMA Induction ==
    ASSUME NEW S, 0 \in S, \A n \in Nat : n \in S => n + 1 \in S
    PROVE  Nat \subseteq S
<1> DEFINE T == Nat \ S
           R == OpToRel(<, Nat)
<1>1. \A x, y \in Nat : <<x, y>> \in R <=> x < y
  BY DEF OpToRel
<1>2. IsWellFoundedOn(R, Nat)
  BY NatLessThanWellFounded
<1> HIDE DEF R
<1> SUFFICES ASSUME T # {} PROVE FALSE
  OBVIOUS
<1>3. T \subseteq Nat
  OBVIOUS
<1> HIDE DEF T
<1>4. PICK x \in T : \A y \in T : ~(<<y, x>> \in R)
  BY <1>2, <1>3, WFMin, Zenon
<1>5. x \in Nat /\ x \notin S /\ x # 0
  BY DEF T
<1>6. x - 1 \in Nat /\ <<x - 1, x>> \in R
  BY <1>1, <1>5
<1>7. x - 1 \in S
  BY <1>4, <1>6 DEF T
<1>8. (x - 1) + 1 \in S
  BY <1>6, <1>7
<1> QED
  BY <1>5, <1>8

\* However three words are added, as much is carried in total into every place.
LEMMA PlusAssociates ==
    ASSUME NEW x \in uint32, NEW y \in uint32, NEW z \in uint32
    PROVE  Plus(Plus(x, y), z) = Plus(x, Plus(y, z))
<1> DEFINE l(n) == Carried(x, y, n) + Carried(Plus(x, y), z, n)
           r(n) == Carried(y, z, n) + Carried(x, Plus(y, z), n)
           S == {n \in Nat : n \in 0 .. 32 => l(n) = r(n)}
<1>1. Plus(x, y) \in uint32 /\ Plus(y, z) \in uint32
  BY WordsAreClosed
<1>2. ASSUME NEW n \in Bits, l(n) = r(n)
      PROVE  /\ l(n + 1) = r(n + 1)
             /\ Bit(Plus(Plus(x, y), z), n) = Bit(Plus(x, Plus(y, z)), n)
  <2>1. /\ Bit(Plus(x, y), n) + 2 * Carried(x, y, n + 1)
             = Bit(x, n) + Bit(y, n) + Carried(x, y, n)
        /\ Carried(x, y, n) \in {0, 1} /\ Carried(x, y, n + 1) \in {0, 1}
        /\ Bit(Plus(x, y), n) \in {0, 1}
        /\ Bit(x, n) \in {0, 1} /\ Bit(y, n) \in {0, 1}
    BY FullAdder
  <2>2. /\ Bit(Plus(Plus(x, y), z), n) + 2 * Carried(Plus(x, y), z, n + 1)
             = Bit(Plus(x, y), n) + Bit(z, n) + Carried(Plus(x, y), z, n)
        /\ Carried(Plus(x, y), z, n) \in {0, 1} /\ Carried(Plus(x, y), z, n + 1) \in {0, 1}
        /\ Bit(Plus(Plus(x, y), z), n) \in {0, 1} /\ Bit(z, n) \in {0, 1}
    BY <1>1, FullAdder
  <2>3. /\ Bit(Plus(y, z), n) + 2 * Carried(y, z, n + 1)
             = Bit(y, n) + Bit(z, n) + Carried(y, z, n)
        /\ Carried(y, z, n) \in {0, 1} /\ Carried(y, z, n + 1) \in {0, 1}
        /\ Bit(Plus(y, z), n) \in {0, 1}
    BY FullAdder
  <2>4. /\ Bit(Plus(x, Plus(y, z)), n) + 2 * Carried(x, Plus(y, z), n + 1)
             = Bit(x, n) + Bit(Plus(y, z), n) + Carried(x, Plus(y, z), n)
        /\ Carried(x, Plus(y, z), n) \in {0, 1} /\ Carried(x, Plus(y, z), n + 1) \in {0, 1}
        /\ Bit(Plus(x, Plus(y, z)), n) \in {0, 1}
    BY <1>1, FullAdder
  <2> QED
    BY <1>2, <2>1, <2>2, <2>3, <2>4
<1>3. 0 \in S
  BY <1>1, CarryStep DEF Carried
<1>4. ASSUME NEW n \in Nat, n \in S PROVE n + 1 \in S
  <2>1. n + 1 \in 0 .. 32 => n \in Bits
    BY DEF Bits
  <2> QED
    BY <1>2, <1>4, <2>1 DEF Bits
<1> HIDE DEF S
<1>5. Nat \subseteq S
  BY <1>3, <1>4, Induction
<1>6. \A n \in Bits : l(n) = r(n)
  BY <1>5 DEF S, Bits
<1>7. ASSUME NEW n \in Bits
      PROVE  n \in Plus(Plus(x, y), z) <=> n \in Plus(x, Plus(y, z))
  BY <1>2, <1>6 DEF Bit
<1> QED
  BY <1>7 DEF Plus

\* The two orders in which the terms of a round are added.
LEMMA SumOrder ==
    ASSUME NEW a \in uint32, NEW e \in uint32, NEW k0 \in uint32, NEW w0 \in uint32
    PROVE  Plus(a, Plus(Plus(e, k0), w0)) = Plus(e, Plus(a, Plus(k0, w0)))
<1>1. Plus(k0, w0) \in uint32
  BY WordsAreClosed
<1>2. Plus(Plus(e, k0), w0) = Plus(e, Plus(k0, w0))
  BY PlusAssociates
<1>3. Plus(a, Plus(e, Plus(k0, w0))) = Plus(Plus(a, e), Plus(k0, w0))
  BY <1>1, PlusAssociates
<1>4. Plus(Plus(e, a), Plus(k0, w0)) = Plus(e, Plus(a, Plus(k0, w0)))
  BY <1>1, PlusAssociates
<1> QED
  BY <1>2, <1>3, <1>4, PlusCommutes

-----------------------------------------------------------------------------
(* Words as numbers *)

\* The byte from place n on.
Byte(x, n) ==
    Bit(x, n) + 2 * Bit(x, n + 1) + 4 * Bit(x, n + 2) + 8 * Bit(x, n + 3)
    + 16 * Bit(x, n + 4) + 32 * Bit(x, n + 5) + 64 * Bit(x, n + 6) + 128 * Bit(x, n + 7)

\* Eight full adders in a row add a byte.
LEMMA ByteAdder ==
    ASSUME NEW x \in uint32, NEW y \in uint32, NEW n \in {0, 8, 16, 24}
    PROVE  /\ Byte(x, n) \in 0 .. 255
           /\ Carried(x, y, n) \in {0, 1} /\ Carried(x, y, n + 8) \in {0, 1}
           /\ Byte(Plus(x, y), n) + 256 * Carried(x, y, n + 8)
                = Byte(x, n) + Byte(y, n) + Carried(x, y, n)
<1> DEFINE p == Plus(x, y)
           c(j) == Carried(x, y, j)
<1>1. ASSUME NEW j \in Bits
      PROVE  /\ c(j) \in {0, 1} /\ c(j + 1) \in {0, 1}
             /\ Bit(x, j) \in {0, 1} /\ Bit(p, j) \in {0, 1}
             /\ Bit(p, j) + 2 * c(j + 1) = Bit(x, j) + Bit(y, j) + c(j)
             /\ Bit(y, j) \in {0, 1}
  BY FullAdder
<1>2. ASSUME NEW j \in 0 .. 7
      PROVE  n + j \in Bits /\ (n + j) + 1 = n + (j + 1)
  BY DEF Bits
<1> HIDE DEF p, c
<1>3. ASSUME NEW j \in 0 .. 7
      PROVE  /\ c(n + j) \in {0, 1} /\ c(n + (j + 1)) \in {0, 1}
             /\ Bit(x, n + j) \in {0, 1} /\ Bit(y, n + j) \in {0, 1} /\ Bit(p, n + j) \in {0, 1}
             /\ Bit(p, n + j) + 2 * c(n + (j + 1)) = Bit(x, n + j) + Bit(y, n + j) + c(n + j)
  BY <1>1, <1>2
<1>4. n + 0 = n
  OBVIOUS
<1>a. /\ c(n) \in {0, 1} /\ c(n + 1) \in {0, 1} /\ Bit(x, n) \in {0, 1}
      /\ Bit(y, n) \in {0, 1} /\ Bit(p, n) \in {0, 1}
      /\ Bit(p, n) + 2 * c(n + 1) = Bit(x, n) + Bit(y, n) + c(n)
  BY <1>3, <1>4
<1>b. /\ c(n + 2) \in {0, 1} /\ Bit(x, n + 1) \in {0, 1}
      /\ Bit(y, n + 1) \in {0, 1} /\ Bit(p, n + 1) \in {0, 1}
      /\ Bit(p, n + 1) + 2 * c(n + 2) = Bit(x, n + 1) + Bit(y, n + 1) + c(n + 1)
  BY <1>3
<1>c. /\ c(n + 3) \in {0, 1} /\ Bit(x, n + 2) \in {0, 1}
      /\ Bit(y, n + 2) \in {0, 1} /\ Bit(p, n + 2) \in {0, 1}
      /\ Bit(p, n + 2) + 2 * c(n + 3) = Bit(x, n + 2) + Bit(y, n + 2) + c(n + 2)
  BY <1>3
<1>d. /\ c(n + 4) \in {0, 1} /\ Bit(x, n + 3) \in {0, 1}
      /\ Bit(y, n + 3) \in {0, 1} /\ Bit(p, n + 3) \in {0, 1}
      /\ Bit(p, n + 3) + 2 * c(n + 4) = Bit(x, n + 3) + Bit(y, n + 3) + c(n + 3)
  BY <1>3
<1>e. /\ c(n + 5) \in {0, 1} /\ Bit(x, n + 4) \in {0, 1}
      /\ Bit(y, n + 4) \in {0, 1} /\ Bit(p, n + 4) \in {0, 1}
      /\ Bit(p, n + 4) + 2 * c(n + 5) = Bit(x, n + 4) + Bit(y, n + 4) + c(n + 4)
  BY <1>3
<1>f. /\ c(n + 6) \in {0, 1} /\ Bit(x, n + 5) \in {0, 1}
      /\ Bit(y, n + 5) \in {0, 1} /\ Bit(p, n + 5) \in {0, 1}
      /\ Bit(p, n + 5) + 2 * c(n + 6) = Bit(x, n + 5) + Bit(y, n + 5) + c(n + 5)
  BY <1>3
<1>g. /\ c(n + 7) \in {0, 1} /\ Bit(x, n + 6) \in {0, 1}
      /\ Bit(y, n + 6) \in {0, 1} /\ Bit(p, n + 6) \in {0, 1}
      /\ Bit(p, n + 6) + 2 * c(n + 7) = Bit(x, n + 6) + Bit(y, n + 6) + c(n + 6)
  BY <1>3
<1>h. /\ c(n + 8) \in {0, 1} /\ Bit(x, n + 7) \in {0, 1}
      /\ Bit(y, n + 7) \in {0, 1} /\ Bit(p, n + 7) \in {0, 1}
      /\ Bit(p, n + 7) + 2 * c(n + 8) = Bit(x, n + 7) + Bit(y, n + 7) + c(n + 7)
  BY <1>3
<1>5. Byte(p, n) + 256 * c(n + 8) = Byte(x, n) + Byte(y, n) + c(n) /\ Byte(x, n) \in 0 .. 255
  BY <1>a, <1>b, <1>c, <1>d, <1>e, <1>f, <1>g, <1>h, SMTT(30) DEF Byte
<1> QED
  BY <1>a, <1>h, <1>5 DEF p, c

\* The values of uint32_t.
WordCount == 4294967296

\* Four bytes, lowest first.
Bytes(b0, b1, b2, b3) == b0 + 256 * (b1 + 256 * (b2 + 256 * b3))

Value(x) == Bytes(Byte(x, 0), Byte(x, 8), Byte(x, 16), Byte(x, 24))

SumOfBytes(x0, x1, x2, x3, y0, y1, y2, y3, p0, p1, p2, p3) ==
    Bytes(p0, p1, p2, p3) = (Bytes(x0, x1, x2, x3) + Bytes(y0, y1, y2, y3)) % WordCount

\* The addition of the rounds is that of uint32_t: the sum of the numbers, modulo 2^32
\* (dsha1.h:79-82,181-185).
THEOREM PlusAddsNumbers ==
    ASSUME NEW x \in uint32, NEW y \in uint32
    PROVE  Value(Plus(x, y)) = (Value(x) + Value(y)) % WordCount
<1> DEFINE p == Plus(x, y)
           c(j) == Carried(x, y, j)
<1>0. p \in uint32
  BY WordsAreClosed
<1>1. ASSUME NEW n \in {0, 8, 16, 24}
      PROVE  /\ Byte(x, n) \in 0 .. 255 /\ Byte(y, n) \in 0 .. 255 /\ Byte(p, n) \in 0 .. 255
             /\ c(n + 8) \in {0, 1}
             /\ Byte(p, n) + 256 * c(n + 8) = Byte(x, n) + Byte(y, n) + c(n)
  BY <1>0, ByteAdder
<1>2. c(0) = 0
  BY CarryStep DEF Carried
<1> HIDE DEF p, c
<1>3. /\ Byte(x, 0) \in 0 .. 255 /\ Byte(y, 0) \in 0 .. 255 /\ Byte(p, 0) \in 0 .. 255
      /\ c(8) \in {0, 1} /\ Byte(p, 0) + 256 * c(8) = Byte(x, 0) + Byte(y, 0)
  <2>1. 0 + 8 = 8
    OBVIOUS
  <2>2. /\ Byte(x, 0) \in 0 .. 255 /\ Byte(y, 0) \in 0 .. 255 /\ Byte(p, 0) \in 0 .. 255
        /\ c(8) \in {0, 1} /\ Byte(p, 0) + 256 * c(8) = Byte(x, 0) + Byte(y, 0) + 0
    BY <1>1, <1>2, <2>1, Zenon
  <2>3. \A a, b \in 0 .. 255 : a + b + 0 = a + b
    OBVIOUS
  <2> QED
    BY <2>2, <2>3, Zenon
<1>4. /\ Byte(x, 8) \in 0 .. 255 /\ Byte(y, 8) \in 0 .. 255 /\ Byte(p, 8) \in 0 .. 255
      /\ c(16) \in {0, 1} /\ Byte(p, 8) + 256 * c(16) = Byte(x, 8) + Byte(y, 8) + c(8)
  <2>1. 8 + 8 = 16
    OBVIOUS
  <2> QED
    BY <1>1, <2>1, Zenon
<1>5. /\ Byte(x, 16) \in 0 .. 255 /\ Byte(y, 16) \in 0 .. 255 /\ Byte(p, 16) \in 0 .. 255
      /\ c(24) \in {0, 1} /\ Byte(p, 16) + 256 * c(24) = Byte(x, 16) + Byte(y, 16) + c(16)
  <2>1. 16 + 8 = 24
    OBVIOUS
  <2> QED
    BY <1>1, <2>1, Zenon
<1>6. /\ Byte(x, 24) \in 0 .. 255 /\ Byte(y, 24) \in 0 .. 255 /\ Byte(p, 24) \in 0 .. 255
      /\ c(32) \in {0, 1} /\ Byte(p, 24) + 256 * c(32) = Byte(x, 24) + Byte(y, 24) + c(24)
  <2>1. 24 + 8 = 32
    OBVIOUS
  <2> QED
    BY <1>1, <2>1, Zenon
<1> HIDE DEF c
<1>7. Bytes(Byte(p, 0), Byte(p, 8), Byte(p, 16), Byte(p, 24))
        = (Bytes(Byte(x, 0), Byte(x, 8), Byte(x, 16), Byte(x, 24))
           + Bytes(Byte(y, 0), Byte(y, 8), Byte(y, 16), Byte(y, 24))) % WordCount
  <2>c. PICK c1 \in {0, 1}, c2 \in {0, 1}, c3 \in {0, 1}, c4 \in {0, 1} :
            c1 = c(8) /\ c2 = c(16) /\ c3 = c(24) /\ c4 = c(32)
    BY <1>3, <1>4, <1>5, <1>6
  <2>1. ASSUME NEW x0 \in 0 .. 255, NEW x1 \in 0 .. 255, NEW x2 \in 0 .. 255, NEW x3 \in 0 .. 255,
               NEW y0 \in 0 .. 255, NEW y1 \in 0 .. 255, NEW y2 \in 0 .. 255, NEW y3 \in 0 .. 255,
               NEW p0 \in 0 .. 255, NEW p1 \in 0 .. 255, NEW p2 \in 0 .. 255, NEW p3 \in 0 .. 255,
               p0 + 256 * c1 = x0 + y0, p1 + 256 * c2 = x1 + y1 + c1,
               p2 + 256 * c3 = x2 + y2 + c2, p3 + 256 * c4 = x3 + y3 + c3
        PROVE  SumOfBytes(x0, x1, x2, x3, y0, y1, y2, y3, p0, p1, p2, p3)
    <3> DEFINE r == Bytes(p0, p1, p2, p3)
               sum == Bytes(x0, x1, x2, x3) + Bytes(y0, y1, y2, y3)
    <3>1. r < WordCount
      BY <2>1, SMT DEF Bytes, WordCount
    <3>2. r \in Nat /\ sum \in Nat
      BY <2>1, SMT DEF Bytes
    <3>3. r = sum \/ r + WordCount = sum
      BY <2>1, SMT DEF Bytes, WordCount
    <3>4. \A z, u \in Nat : z < WordCount /\ (z = u \/ z + WordCount = u) => z = u % WordCount
      BY SMT DEF WordCount
    <3> HIDE DEF r, sum
    <3>5. r = sum % WordCount
      BY <3>1, <3>2, <3>3, <3>4, Zenon
    <3> QED
      BY <3>5, Zenon DEF r, sum, SumOfBytes
  <2>2. SumOfBytes(Byte(x, 0), Byte(x, 8), Byte(x, 16), Byte(x, 24),
                   Byte(y, 0), Byte(y, 8), Byte(y, 16), Byte(y, 24),
                   Byte(p, 0), Byte(p, 8), Byte(p, 16), Byte(p, 24))
    BY <1>3, <1>4, <1>5, <1>6, <2>c, <2>1
  <2> QED
    BY <2>2, Zenon DEF SumOfBytes
<1> QED
  BY <1>7, Zenon DEF Value, p

-----------------------------------------------------------------------------
(* The schedule.  That there is a function with the equation of FIPS180 is shown first: *)
(* the schedules up to m words exist, by induction.                                     *)

Following(g, block, n) == IF n = 16 THEN block ELSE Fips!Extended(g[n - 1])

LEMMA SchedulesExist ==
    ASSUME NEW block
    PROVE  \A m \in Nat : \E g : \A n \in 16 .. m : g[n] = Following(g, block, n)
<1> DEFINE Upto(g, m) == \A n \in 16 .. m : g[n] = Following(g, block, n)
           S == {m \in Nat : \E g : Upto(g, m)}
<1>1. 0 \in S
  OBVIOUS
<1>2. ASSUME NEW m \in Nat, m \in S PROVE m + 1 \in S
  <2>1. PICK h : Upto(h, m)
    BY <1>2
  <2> DEFINE g == [n \in 16 .. m + 1 |-> IF n = m + 1 THEN Following(h, block, n) ELSE h[n]]
  <2>2. ASSUME NEW n \in 16 .. m + 1 PROVE g[n] = Following(g, block, n)
    <3>1. Following(g, block, n) = Following(h, block, n)
      <4>1. CASE n = 16
        BY <4>1 DEF Following
      <4>2. CASE n # 16
        <5>1. n - 1 \in 16 .. m
          BY <4>2
        <5>2. g[n - 1] = h[n - 1]
          BY <5>1
        <5> HIDE DEF g
        <5> QED
          BY <4>2, <5>2 DEF Following
      <4> QED
        BY <4>1, <4>2
    <3>2. g[n] = Following(h, block, n)
      BY <2>1
    <3> QED
      BY <3>1, <3>2
  <2> HIDE DEF g
  <2>3. Upto(g, m + 1)
    BY <2>2
  <2> QED
    BY <2>3
<1> HIDE DEF S
<1>3. Nat \subseteq S
  BY <1>1, <1>2, Induction
<1> QED
  BY <1>3 DEF S

LEMMA ScheduleIs ==
    ASSUME NEW block
    PROVE  \E g : /\ \A n \in 16 .. 80 : g[n] = Following(g, block, n)
                  /\ Fips!Schedule(block) = g[80]
<1>1. PICK h : \A n \in 16 .. 80 : h[n] = Following(h, block, n)
  BY SchedulesExist
<1> DEFINE v == [n \in 16 .. 80 |-> h[n]]
<1>2. ASSUME NEW n \in 16 .. 80 PROVE v[n] = Following(v, block, n)
  <2>1. CASE n = 16
    BY <1>1, <2>1 DEF Following
  <2>2. CASE n # 16
    <3>1. n - 1 \in 16 .. 80
      BY <2>2
    <3>2. v[n - 1] = h[n - 1] /\ v[n] = h[n]
      BY <3>1
    <3> HIDE DEF v
    <3> QED
      BY <1>1, <2>2, <3>2 DEF Following
  <2> QED
    BY <2>1, <2>2
<1>3. v = [n \in 16 .. 80 |-> Following(v, block, n)]
  BY <1>2
<1> HIDE DEF v
<1>4. \E u : u = [n \in 16 .. 80 |-> IF n = 16 THEN block ELSE Fips!Extended(u[n - 1])]
  BY <1>3 DEF Following
<1> DEFINE u == CHOOSE u : u = [n \in 16 .. 80 |-> IF n = 16 THEN block ELSE Fips!Extended(u[n - 1])]
<1>5. u = [n \in 16 .. 80 |-> IF n = 16 THEN block ELSE Fips!Extended(u[n - 1])]
  BY <1>4
<1>6. Fips!Schedule(block) = u[80]
  BY DEF Fips!Schedule
<1> HIDE DEF u
<1>7. \A n \in 16 .. 80 : u[n] = Following(u, block, n)
  BY <1>5 DEF Following
<1> QED
  BY <1>6, <1>7

LEMMA Appended ==
    ASSUME NEW S, NEW p \in Seq(S), NEW e \in S
    PROVE  /\ Append(p, e) \in Seq(S) /\ Len(Append(p, e)) = Len(p) + 1
           /\ \A j \in 1 .. Len(p) : Append(p, e)[j] = p[j]
           /\ Append(p, e)[Len(p) + 1] = e
OBVIOUS

LEMMA FunctionIsSequence ==
    ASSUME NEW S, NEW n \in Nat, NEW p \in [1 .. n -> S]
    PROVE  p \in Seq(S) /\ Len(p) = n
OBVIOUS

LEMMA BlockIsSequence ==
    ASSUME NEW block \in Block
    PROVE  block \in Seq(uint32) /\ Len(block) = 16
<1>1. 16 \in Nat
  OBVIOUS
<1> QED
  BY <1>1, FunctionIsSequence, Zenon DEF Block

Recurrence(W, j) == Rot(XorW(XorW(W[j - 3], W[j - 8]), XorW(W[j - 14], W[j - 16])), 1)

LEMMA ExtendedIs ==
    ASSUME NEW W \in Seq(uint32), Len(W) >= 16
    PROVE  /\ Fips!Extended(W) \in Seq(uint32)
           /\ Len(Fips!Extended(W)) = Len(W) + 1
           /\ \A j \in 1 .. Len(W) : Fips!Extended(W)[j] = W[j]
           /\ Fips!Extended(W)[Len(W) + 1] = Recurrence(W, Len(W) + 1)
           /\ Recurrence(W, Len(W) + 1) \in uint32
<1> DEFINE n == Len(W)
<1>1. n \in Nat /\ n >= 16
  OBVIOUS
<1>2. W[n - 2] \in uint32 /\ W[n - 7] \in uint32 /\ W[n - 13] \in uint32 /\ W[n - 15] \in uint32
  OBVIOUS
<1>3. (n + 1) - 3 = n - 2 /\ (n + 1) - 8 = n - 7 /\ (n + 1) - 14 = n - 13 /\ (n + 1) - 16 = n - 15
  BY <1>1
<1> HIDE DEF n
<1>4. Recurrence(W, n + 1) = Rot(XorW(XorW(W[n - 2], W[n - 7]), XorW(W[n - 13], W[n - 15])), 1)
  BY <1>3 DEF Recurrence
<1>5. Recurrence(W, n + 1) \in uint32
  <2>1. XorW(W[n - 2], W[n - 7]) \in uint32 /\ XorW(W[n - 13], W[n - 15]) \in uint32
    BY <1>1, <1>2, WordsAreClosed
  <2>2. XorW(XorW(W[n - 2], W[n - 7]), XorW(W[n - 13], W[n - 15])) \in uint32
    BY <1>1, <2>1, WordsAreClosed
  <2>3. 1 \in Nat
    OBVIOUS
  <2> QED
    BY <1>4, <2>2, <2>3, WordsAreClosed
<1>6. Fips!Extended(W) = Append(W, Recurrence(W, n + 1))
  BY <1>4, SameWords DEF Fips!Extended, n
<1> QED
  BY <1>5, <1>6, Appended DEF n

Scheduled(W, block, n) ==
    /\ W \in Seq(uint32)
    /\ Len(W) = n
    /\ \A j \in 1 .. 16 : W[j] = block[j]
    /\ \A j \in 17 .. n : W[j] = Recurrence(W, j)

LEMMA ScheduleBegins ==
    ASSUME NEW block \in Block
    PROVE  Scheduled(block, block, 16)
<1>1. \A j \in 17 .. 16 : FALSE
  OBVIOUS
<1> QED
  BY <1>1, BlockIsSequence, Zenon DEF Scheduled

LEMMA ScheduleGrows ==
    ASSUME NEW block, NEW n \in Nat, n >= 16, NEW W, Scheduled(W, block, n)
    PROVE  Scheduled(Fips!Extended(W), block, n + 1)
<1> DEFINE V == Fips!Extended(W)
<1>1. W \in Seq(uint32) /\ Len(W) = n
  BY DEF Scheduled
<1>2. /\ V \in Seq(uint32) /\ Len(V) = n + 1
      /\ \A j \in 1 .. n : V[j] = W[j]
      /\ V[n + 1] = Recurrence(W, n + 1)
  BY <1>1, ExtendedIs
<1> HIDE DEF V
<1>3. ASSUME NEW j \in 1 .. 16 PROVE V[j] = block[j]
  BY <1>2 DEF Scheduled
<1>4. ASSUME NEW j \in 17 .. n + 1 PROVE V[j] = Recurrence(V, j)
  <2>1. V[j] = Recurrence(W, j)
    <3>1. CASE j = n + 1
      BY <1>2, <3>1
    <3>2. CASE j # n + 1
      <4>1. j \in 17 .. n /\ j \in 1 .. n
        BY <3>2
      <4> QED
        BY <1>2, <4>1 DEF Scheduled
    <3> QED
      BY <3>1, <3>2
  <2>2. j - 3 \in 1 .. n /\ j - 8 \in 1 .. n /\ j - 14 \in 1 .. n /\ j - 16 \in 1 .. n
    OBVIOUS
  <2>3. Recurrence(V, j) = Recurrence(W, j)
    BY <1>2, <2>2 DEF Recurrence
  <2> QED
    BY <2>1, <2>3
<1> QED
  BY <1>2, <1>3, <1>4 DEF Scheduled, V

\* The schedule of a block: its words, and the recurrence of the standard.
LEMMA ScheduleWords ==
    ASSUME NEW block \in Block
    PROVE  /\ \A j \in 1 .. 80 : Fips!Schedule(block)[j] \in uint32
           /\ \A j \in 1 .. 16 : Fips!Schedule(block)[j] = block[j]
           /\ \A j \in 17 .. 80 : Fips!Schedule(block)[j] = Recurrence(Fips!Schedule(block), j)
<1>1. PICK g : /\ \A n \in 16 .. 80 : g[n] = Following(g, block, n)
               /\ Fips!Schedule(block) = g[80]
  BY ScheduleIs
<1> DEFINE S == {n \in Nat : n \in 16 .. 80 => Scheduled(g[n], block, n)}
<1>2. 0 \in S
  OBVIOUS
<1>3. ASSUME NEW n \in Nat, n \in S PROVE n + 1 \in S
  <2> SUFFICES ASSUME n + 1 \in 16 .. 80 PROVE Scheduled(g[n + 1], block, n + 1)
    OBVIOUS
  <2>1. CASE n + 1 = 16
    <3>1. g[n + 1] = block
      BY <1>1, <2>1 DEF Following
    <3> QED
      BY <2>1, <3>1, ScheduleBegins
  <2>2. CASE n + 1 # 16
    <3>1. n >= 16 /\ n \in 16 .. 80 /\ Scheduled(g[n], block, n)
      BY <1>3, <2>2
    <3>2. g[n + 1] = Fips!Extended(g[n])
      BY <1>1, <2>2 DEF Following
    <3> QED
      BY <3>1, <3>2, ScheduleGrows
  <2> QED
    BY <2>1, <2>2
<1> HIDE DEF S
<1>4. Nat \subseteq S
  BY <1>2, <1>3, Induction
<1>5. Scheduled(g[80], block, 80)
  BY <1>4 DEF S
<1> DEFINE W == g[80]
<1>6. ASSUME NEW n, n = 80, Scheduled(W, block, n)
      PROVE  \A j \in 1 .. 80 : W[j] \in uint32
  <2> HIDE DEF W
  <2>1. W \in Seq(uint32) /\ Len(W) = n
    BY <1>6, Zenon DEF Scheduled
  <2>2. \A j \in 1 .. n : W[j] \in uint32
    BY <2>1
  <2> QED
    BY <1>6, <2>2
<1>7. \A j \in 1 .. 80 : W[j] \in uint32
  BY <1>5, <1>6, Zenon
<1> QED
  BY <1>1, <1>5, <1>7, Zenon DEF Scheduled

-----------------------------------------------------------------------------
(* The rounds *)

\* The variable that plays a part plays the next one in the next round.
LEMMA NamesRotate ==
    ASSUME NEW i \in Nat
    PROVE  /\ \A n \in 0 .. 4 : Name(n, i) \in 1 .. 5
           /\ \A n \in 0 .. 4 : \A m \in 0 .. 4 : Name(n, i) = Name(m, i) => n = m
           /\ \A n \in 0 .. 3 : Name(n + 1, i + 1) = Name(n, i)
           /\ Name(0, i + 1) = Name(4, i)
  BY DEF Name

\* Before the first round and after the last one every variable plays its own part.
LEMMA NamesReturn == \A n \in 1 .. 5 : Name(n - 1, 0) = n /\ Name(n - 1, 80) = n
  BY DEF Name

LEMMA FivePlaces ==
    ASSUME NEW h, h = [n \in 1 .. 5 |-> h[n]]
    PROVE  h = <<h[1], h[2], h[3], h[4], h[5]>>
OBVIOUS

LEMMA FiveWords ==
    ASSUME NEW a, NEW b, NEW c, NEW d, NEW e
    PROVE  /\ <<a, b, c, d, e>> = [n \in 1 .. 5 |-> <<a, b, c, d, e>>[n]]
           /\ \A S : a \in S /\ b \in S /\ c \in S /\ d \in S /\ e \in S
                => <<a, b, c, d, e>> \in [1 .. 5 -> S]
OBVIOUS

RoundsInv ==
    /\ chunks \in Seq(Block)
    /\ s \in [1 .. 5 -> uint32]
    /\ reg \in [1 .. 5 -> uint32]
    /\ w \in [0 .. 15 -> uint32]
    /\ t \in 0 .. 81
    /\ t <= 80 => chunks # <<>>
    /\ t <= 80 => \A i \in 0 .. 79 :
           i < t /\ t <= i + 16 => w[i % 16] = Fips!Schedule(Head(chunks))[i + 1]

\* The word of a round is the one of the schedule.
LEMMA WordIsScheduled ==
    ASSUME RoundsInv, t < 80
    PROVE  /\ Word(t, Head(chunks)) = Fips!Schedule(Head(chunks))[t + 1]
           /\ Word(t, Head(chunks)) \in uint32
<1> DEFINE block == Head(chunks)
           W == Fips!Schedule(block)
<1>1. block \in Block /\ t \in 0 .. 79
  <2>1. t \in 0 .. 79 /\ t <= 80 /\ chunks \in Seq(Block)
    BY DEF RoundsInv
  <2>2. chunks # <<>>
    BY <2>1 DEF RoundsInv
  <2> QED
    BY <2>1, <2>2
<1> HIDE DEF block
<1>2. /\ \A j \in 1 .. 80 : W[j] \in uint32
      /\ \A j \in 1 .. 16 : W[j] = block[j]
      /\ \A j \in 17 .. 80 : W[j] = Recurrence(W, j)
  BY <1>1, ScheduleWords
<1>3. \A i \in 0 .. 79 : i < t /\ t <= i + 16 => w[i % 16] = W[i + 1]
  <2>1. t <= 80
    BY <1>1
  <2> QED
    BY <2>1, Zenon DEF RoundsInv, block
<1> HIDE DEF W
<1>4. Word(t, block) = W[t + 1]
  <2>1. CASE t < 16
    BY <1>1, <1>2, <2>1 DEF Word
  <2>2. CASE t >= 16
    <3>1. w[t % 16] = W[t - 15]
      <4>1. (t - 16) % 16 = t % 16 /\ t - 16 \in 0 .. 79
        BY <1>1, <2>2
      <4> QED
        BY <1>1, <1>3, <2>2, <4>1
    <3>2. w[(t + 13) % 16] = W[t - 2]
      <4>1. (t - 3) % 16 = (t + 13) % 16 /\ t - 3 \in 0 .. 79
        BY <1>1, <2>2
      <4> QED
        BY <1>1, <1>3, <2>2, <4>1
    <3>3. w[(t + 8) % 16] = W[t - 7]
      <4>1. (t - 8) % 16 = (t + 8) % 16 /\ t - 8 \in 0 .. 79
        BY <1>1, <2>2
      <4> QED
        BY <1>1, <1>3, <2>2, <4>1
    <3>4. w[(t + 2) % 16] = W[t - 13]
      <4>1. (t - 14) % 16 = (t + 2) % 16 /\ t - 14 \in 0 .. 79
        BY <1>1, <2>2
      <4> QED
        BY <1>1, <1>3, <2>2, <4>1
    <3>5. Word(t, block) = Rot(XorW(XorW(W[t - 15], W[t - 2]), XorW(W[t - 7], W[t - 13])), 1)
      BY <1>1, <2>2, <3>1, <3>2, <3>3, <3>4 DEF Word, left
    <3>6. W[t + 1] = Recurrence(W, t + 1)
      BY <1>1, <1>2, <2>2
    <3>7. /\ (t + 1) - 3 = t - 2 /\ (t + 1) - 8 = t - 7
          /\ (t + 1) - 14 = t - 13 /\ (t + 1) - 16 = t - 15
      BY <1>1
    <3> QED
      BY <3>5, <3>6, <3>7, XorOrder DEF Recurrence
  <2> QED
    BY <1>1, <2>1, <2>2
<1> QED
  BY <1>1, <1>2, <1>4 DEF block, W

LEMMA ConstantsAre ==
    ASSUME NEW i \in 0 .. 79
    PROVE  k(i) \in uint32 /\ Fips!Constant(i) = k(i)
<1>1. i \div 20 + 1 \in 1 .. 4
  OBVIOUS
<1>2. k1 \in uint32 /\ k2 \in uint32 /\ k3 \in uint32 /\ k4 \in uint32
  BY HalvesAreWords DEF k1, k2, k3, k4
<1>3. k(i) \in uint32
  BY <1>1, <1>2 DEF k
<1>4. Fips!Constant(i) = k(i)
  BY SameWords DEF k, k1, k2, k3, k4, Fips!Constant
<1> QED
  BY <1>3, <1>4

LEMMA StartsAlike ==
    /\ initialize = Fips!H0
    /\ initialize \in [1 .. 5 -> uint32]
<1>1. initialize = Fips!H0
  BY SameWords DEF initialize, Fips!H0
<1>2. initialize \in [1 .. 5 -> uint32]
  BY FiveWords, HalvesAreWords DEF initialize
<1> QED
  BY <1>1, <1>2

-----------------------------------------------------------------------------
(* A round is a step of the standard *)

v == [n \in 1 .. 5 |-> reg[Name(n - 1, t % 81)]]

\* What the variable that plays e becomes, in the code and in the standard, when r are
\* the working variables.
Sum(i, r, word) ==
    Plus(r[5], Plus(Plus(Rot(r[1], 5), f(i, r[2], r[3], r[4])), Plus(k(i), word)))
StandardSum(i, r, word) ==
    Fips!Plus(Fips!Plus(Fips!Rot(r[1], 5), Fips!Function(i, r[2], r[3], r[4])),
              Fips!Plus(Fips!Plus(r[5], Fips!Constant(i)), word))

LEMMA RoundSum ==
    ASSUME NEW i \in 0 .. 79, NEW r \in [1 .. 5 -> uint32], NEW word \in uint32
    PROVE  /\ Sum(i, r, word) \in uint32
           /\ Sum(i, r, word) = StandardSum(i, r, word)
<1> DEFINE a == r[1]
           b == r[2]
           c == r[3]
           d == r[4]
           e == r[5]
<1>0. a \in uint32 /\ b \in uint32 /\ c \in uint32 /\ d \in uint32 /\ e \in uint32
  OBVIOUS
<1> HIDE DEF a, b, c, d, e
<1> DEFINE F == f(i, b, c, d)
           A == Plus(Rot(a, 5), F)
<1>1. f1(b, c, d) \in uint32 /\ f2(b, c, d) \in uint32 /\ f3(b, c, d) \in uint32
  BY <1>0 DEF uint32, f1, f2, f3, XorW, AndW, OrW
<1>2. F \in uint32
  BY <1>1 DEF f
<1>3. F = Fips!Function(i, b, c, d)
  BY <1>0, FunctionsAre DEF f, Fips!Function
<1> HIDE DEF F
<1>4. 5 \in Nat
  OBVIOUS
<1>5. Rot(a, 5) \in uint32
  BY <1>0, <1>4, WordsAreClosed
<1>6. A \in uint32
  BY <1>2, <1>4, <1>5, WordsAreClosed
<1>7. k(i) \in uint32 /\ Fips!Constant(i) = k(i)
  BY ConstantsAre
<1>8. Plus(k(i), word) \in uint32
  BY <1>4, <1>7, WordsAreClosed
<1>9. Plus(A, Plus(k(i), word)) \in uint32
  BY <1>4, <1>6, <1>8, WordsAreClosed
<1>10. Plus(e, Plus(A, Plus(k(i), word))) \in uint32
  BY <1>0, <1>4, <1>9, WordsAreClosed
<1>11. Plus(A, Plus(Plus(e, k(i)), word)) = Plus(e, Plus(A, Plus(k(i), word)))
  BY <1>0, <1>6, <1>7, SumOrder
<1>12. StandardSum(i, r, word) = Plus(A, Plus(Plus(e, k(i)), word))
  <2>1. Fips!Plus(Fips!Rot(a, 5), F) = A
    BY SameWords
  <2>2. Fips!Plus(Fips!Plus(e, k(i)), word) = Plus(Plus(e, k(i)), word)
    BY SameWords
  <2>3. Fips!Plus(A, Plus(Plus(e, k(i)), word)) = Plus(A, Plus(Plus(e, k(i)), word))
    BY SameWords
  <2> HIDE DEF A
  <2> QED
    BY <1>3, <1>7, <2>1, <2>2, <2>3 DEF StandardSum, a, b, c, d, e
<1> QED
  BY <1>10, <1>11, <1>12 DEF Sum, F, a, b, c, d, e

LEMMA RoundIsStep ==
    ASSUME RoundsInv, Round
    PROVE  RoundsInv' /\ Fips!Step
<1> DEFINE part(n) == reg[Name(n, t)]
           word == Word(t, Head(chunks))
           e == Sum(t, v, word)
<1>1. /\ t \in 0 .. 79 /\ t' = t + 1
      /\ reg' = [reg EXCEPT ![Name(4, t)] = e, ![Name(1, t)] = Rot(part(1), 30)]
      /\ w' = [w EXCEPT ![t % 16] = word]
      /\ UNCHANGED <<input, chunks, s>>
  <2> DEFINE sum == Plus(Plus(Rot(part(0), 5), f(t, part(1), part(2), part(3))), Plus(k(t), word))
  <2>1. /\ t < 80 /\ t' = t + 1
        /\ reg' = [reg EXCEPT ![Name(4, t)] = Plus(@, sum), ![Name(1, t)] = Rot(@, 30)]
        /\ w' = [w EXCEPT ![t % 16] = word]
        /\ UNCHANGED <<input, chunks, s>>
    BY DEF Round
  <2>2. t \in 0 .. 79 /\ t \in Nat
    BY <2>1 DEF RoundsInv
  <2>3. Name(4, t) # Name(1, t) /\ Name(4, t) \in 1 .. 5 /\ Name(1, t) \in 1 .. 5
    BY <2>2, NamesRotate
  <2>4. Plus(part(4), sum) = e
    <3>1. v[1] = part(0) /\ v[2] = part(1) /\ v[3] = part(2) /\ v[4] = part(3) /\ v[5] = part(4)
      BY <2>2 DEF v
    <3> HIDE DEF part, word
    <3> QED
      BY <3>1, Zenon DEF Sum
  <2> HIDE DEF sum, word, e
  <2> QED
    BY <2>1, <2>2, <2>3, <2>4 DEF RoundsInv
<1>2. word = Fips!Schedule(Head(chunks))[t + 1] /\ word \in uint32
  BY <1>1, WordIsScheduled
<1>3. /\ Name(0, t) \in 1 .. 5 /\ Name(1, t) \in 1 .. 5 /\ Name(2, t) \in 1 .. 5
      /\ Name(3, t) \in 1 .. 5 /\ Name(4, t) \in 1 .. 5
      /\ Name(0, t) \notin {Name(1, t), Name(4, t)} /\ Name(1, t) # Name(4, t)
      /\ Name(2, t) \notin {Name(1, t), Name(4, t)} /\ Name(3, t) \notin {Name(1, t), Name(4, t)}
  <2>1. t \in Nat
    BY <1>1
  <2> QED
    BY <2>1, NamesRotate
<1>4. /\ part(0) \in uint32 /\ part(1) \in uint32 /\ part(2) \in uint32
      /\ part(3) \in uint32 /\ part(4) \in uint32
  BY <1>3 DEF RoundsInv
<1> HIDE DEF word
<1>5. e \in uint32 /\ e = StandardSum(t, v, word)
  <2>1. t % 81 = t
    BY <1>1
  <2>2. v \in [1 .. 5 -> uint32]
    BY <1>4, <2>1 DEF v
  <2> HIDE DEF v
  <2> QED
    BY <1>1, <1>2, <2>2, RoundSum
<1>6. Rot(part(1), 30) \in uint32
  <2>1. 30 \in Nat
    OBVIOUS
  <2> QED
    BY <1>4, <2>1, WordsAreClosed
<1> HIDE DEF e
<1>7. /\ reg'[Name(4, t)] = e /\ reg'[Name(1, t)] = Rot(part(1), 30)
      /\ reg'[Name(0, t)] = part(0) /\ reg'[Name(2, t)] = part(2) /\ reg'[Name(3, t)] = part(3)
      /\ reg' \in [1 .. 5 -> uint32]
  BY <1>1, <1>3, <1>5, <1>6 DEF RoundsInv
<1>8. RoundsInv'
  <2>1. w' \in [0 .. 15 -> uint32] /\ w'[t % 16] = word
    BY <1>1, <1>2 DEF RoundsInv
  <2>2. ASSUME NEW i \in 0 .. 79, i < t + 1, t + 1 <= i + 16
        PROVE  w'[i % 16] = Fips!Schedule(Head(chunks))[i + 1]
    <3>1. CASE i = t
      BY <1>2, <2>1, <3>1
    <3>2. CASE i # t
      <4>1. i % 16 # t % 16 /\ i < t /\ t <= i + 16 /\ i % 16 \in 0 .. 15
        BY <1>1, <2>2, <3>2
      <4>2. w'[i % 16] = w[i % 16]
        BY <1>1, <4>1 DEF RoundsInv
      <4>3. t <= 80
        BY <1>1
      <4> QED
        BY <4>1, <4>2, <4>3, Zenon DEF RoundsInv
    <3> QED
      BY <3>1, <3>2
  <2>3. t' \in 0 .. 81 /\ chunks' = chunks /\ s' = s /\ chunks # <<>>
    BY <1>1 DEF RoundsInv
  <2> QED
    BY <1>1, <1>7, <2>1, <2>2, <2>3 DEF RoundsInv
<1>9. v = <<part(0), part(1), part(2), part(3), part(4)>>
  <2>1. t % 81 = t
    BY <1>1
  <2>2. /\ v = [n \in 1 .. 5 |-> v[n]]
        /\ v[1] = part(0) /\ v[2] = part(1) /\ v[3] = part(2) /\ v[4] = part(3) /\ v[5] = part(4)
    BY <2>1 DEF v
  <2> QED
    BY <2>2, FivePlaces
<1>10. v' = <<e, part(0), Rot(part(1), 30), part(2), part(3)>>
  <2>1. t' % 81 = t + 1
    BY <1>1
  <2>2. /\ Name(0, t + 1) = Name(4, t) /\ Name(1, t + 1) = Name(0, t)
        /\ Name(2, t + 1) = Name(1, t) /\ Name(3, t + 1) = Name(2, t)
        /\ Name(4, t + 1) = Name(3, t)
    <3>1. t \in Nat
      BY <1>1
    <3> QED
      BY <3>1, NamesRotate
  <2>3. /\ v' = [n \in 1 .. 5 |-> v'[n]]
        /\ v'[1] = reg'[Name(0, t + 1)] /\ v'[2] = reg'[Name(1, t + 1)]
        /\ v'[3] = reg'[Name(2, t + 1)] /\ v'[4] = reg'[Name(3, t + 1)]
        /\ v'[5] = reg'[Name(4, t + 1)]
    BY <2>1 DEF v
  <2>4. v' = <<v'[1], v'[2], v'[3], v'[4], v'[5]>>
    BY <2>3, FivePlaces
  <2> QED
    BY <1>7, <2>2, <2>3, <2>4
<1>11. /\ v[1] = part(0) /\ v[2] = part(1) /\ v[3] = part(2) /\ v[4] = part(3) /\ v[5] = part(4)
  BY <1>9
<1>12. Rot(part(1), 30) = Fips!Rot(part(1), 30)
  BY SameWords
<1>13. /\ Fips!Schedule(Head(chunks))[t + 1] = word
       /\ v' = <<StandardSum(t, v, Fips!Schedule(Head(chunks))[t + 1]),
                 v[1], Fips!Rot(v[2], 30), v[3], v[4]>>
  BY <1>2, <1>5, <1>10, <1>11, <1>12
<1>14. t < 80 /\ t' = t + 1 /\ UNCHANGED <<chunks, s>>
  BY <1>1
<1>15. Fips!Step
  BY <1>13, <1>14, Zenon DEF Fips!Step, v, StandardSum
<1> QED
  BY <1>8, <1>15

-----------------------------------------------------------------------------
(* transform() implements the standard *)

\* Before the first round and after the last one, with every variable in its own part.
LEMMA OwnParts ==
    ASSUME NEW i, i \in {0, 80, 81}, NEW h, h \in [1 .. 5 -> uint32]
    PROVE  [n \in 1 .. 5 |-> h[Name(n - 1, i % 81)]] = h
<1>1. i % 81 = 0 \/ i % 81 = 80
  OBVIOUS
<1> QED
  BY <1>1, NamesReturn

LEMMA RoundsBegin == RoundsInit => RoundsInv /\ Fips!Init
<1> SUFFICES ASSUME RoundsInit PROVE RoundsInv /\ Fips!Init
  OBVIOUS
<1>1. chunks \in Messages /\ chunks \in Seq(Block) /\ t = 81 /\ s = initialize /\ reg = initialize
  BY MessagesAreBlocks DEF RoundsInit
<1>2. w \in [0 .. 15 -> uint32]
  BY HalvesAreWords DEF RoundsInit
<1>3. v = reg
  BY <1>1, StartsAlike, OwnParts DEF v
<1>4. RoundsInv
  BY <1>1, <1>2, StartsAlike DEF RoundsInv
<1>5. Fips!Init
  BY <1>1, <1>3, StartsAlike, Zenon DEF Fips!Init, v
<1> QED
  BY <1>4, <1>5

LEMMA RoundsStep ==
    RoundsInv /\ [RoundsNext]_roundsVars => RoundsInv' /\ [Fips!Next]_<<chunks, s, v, t>>
<1> SUFFICES ASSUME RoundsInv, [RoundsNext]_roundsVars
             PROVE  RoundsInv' /\ [Fips!Next]_<<chunks, s, v, t>>
  OBVIOUS
<1>a. /\ chunks \in Seq(Block) /\ s \in [1 .. 5 -> uint32] /\ reg \in [1 .. 5 -> uint32]
      /\ w \in [0 .. 15 -> uint32] /\ t \in 0 .. 81
      /\ t <= 80 => chunks # <<>>
  BY DEF RoundsInv
<1>1. CASE Begin
  <2>1. t = 81 /\ chunks # <<>> /\ reg' = s /\ t' = 0 /\ UNCHANGED <<input, chunks, s, w>>
    BY <1>1 DEF Begin
  <2>2. RoundsInv'
    BY <1>a, <2>1 DEF RoundsInv
  <2>3. v' = s
    BY <1>a, <2>1, OwnParts DEF v
  <2>4. Fips!Prepare
    BY <2>1, <2>3, Zenon DEF Fips!Prepare, v
  <2> QED
    BY <2>2, <2>4 DEF Fips!Next
<1>2. CASE Round
  BY <1>2, RoundIsStep DEF Fips!Next
<1>3. CASE End
  <2>1. /\ t = 80 /\ s' = [r \in 1 .. 5 |-> Plus(s[r], reg[r])] /\ chunks' = Tail(chunks)
        /\ t' = 81 /\ UNCHANGED <<input, reg, w>>
    BY <1>3 DEF End
  <2>2. Tail(chunks) \in Seq(Block)
    BY <1>a, <2>1
  <2>3. s' \in [1 .. 5 -> uint32]
    <3>1. \A r \in 1 .. 5 : s[r] \in uint32 /\ reg[r] \in uint32
      BY <1>a
    <3>2. \A r \in 1 .. 5 : Plus(s[r], reg[r]) \in uint32
      BY <3>1 DEF Plus, uint32
    <3> QED
      BY <2>1, <3>2
  <2>4. RoundsInv'
    BY <1>a, <2>1, <2>2, <2>3 DEF RoundsInv
  <2>5. v = reg /\ v' = reg
    BY <1>a, <2>1, OwnParts DEF v
  <2>6. s' = [r \in 1 .. 5 |-> Fips!Plus(s[r], v[r])]
    BY <2>1, <2>5, SameWords
  <2>7. Fips!Add
    BY <2>1, <2>5, <2>6, Zenon DEF Fips!Add, v
  <2> QED
    BY <2>4, <2>7 DEF Fips!Next
<1>4. CASE NewInput
  <2>1. /\ t = 81 /\ chunks = <<>> /\ chunks' \in Messages /\ s' = initialize
        /\ UNCHANGED <<reg, w, t>>
    BY <1>4 DEF NewInput
  <2>2. RoundsInv'
    BY <1>a, <2>1, MessagesAreBlocks, StartsAlike DEF RoundsInv
  <2>3. v' = v
    BY <2>1 DEF v
  <2>4. Fips!NewMessage
    BY <2>1, <2>3, StartsAlike, Zenon DEF Fips!NewMessage, v
  <2> QED
    BY <2>2, <2>4 DEF Fips!Next
<1>5. CASE UNCHANGED roundsVars
  BY <1>5 DEF roundsVars, RoundsInv, v
<1> QED
  BY <1>1, <1>2, <1>3, <1>4, <1>5 DEF RoundsNext

\* The rounds with their rotated names and their 16 words are SHA-1 as the standard has
\* it: for every message, and not only for those whose digests are known
\* (dsha1.h:63-190).
THEOREM TransformIsStandard == RoundsSpec => RoundsAreStandard
  BY RoundsBegin, RoundsStep, PTL DEF RoundsSpec, RoundsAreStandard, Fips!Spec, Fips!fipsVars, v

=============================================================================
