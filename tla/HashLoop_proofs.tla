--------------------------- MODULE HashLoop_proofs ---------------------------
(* The counter never goes round, its text is its number, and the search tries every *)
(* number it should: for every width and every difficulty.                          *)
EXTENDS HashLoop, WellFoundedInduction, TLAPS

-----------------------------------------------------------------------------
(* The bound *)

LEMMA Division ==
    ASSUME NEW a \in Nat, NEW d \in Nat \ {0}
    PROVE  a % d \in 0 .. d - 1 /\ a \div d \in Int /\ a = d * (a \div d) + (a % d)
OBVIOUS

\* A multiple of 4 leaves a multiple of 4 when it is divided by one.
LEMMA FoursStay ==
    ASSUME NEW Q \in Nat \ {0}, NEW x \in Nat
    PROVE  /\ (4 * x) % (4 * Q) \in 0 .. 4 * Q - 1
           /\ \E y \in Int : (4 * x) % (4 * Q) = 4 * y
<1> DEFINE m == (4 * x) % (4 * Q)
           q == (4 * x) \div (4 * Q)
<1>1. 4 * x \in Nat /\ 4 * Q \in Nat \ {0}
  OBVIOUS
<1>2. m \in 0 .. 4 * Q - 1 /\ q \in Int
  BY <1>1, Division
<1>3. 4 * x = (4 * Q) * q + m
  BY <1>1, Division
<1>4. (4 * Q) * q = 4 * (Q * q) /\ Q * q \in Int
  BY <1>2
<1>5. m = 4 * (x - Q * q) /\ x - Q * q \in Int
  <2> HIDE DEF m, q
  <2> QED BY <1>2, <1>3, <1>4
<1> QED
  BY <1>2, <1>5

\* The difficulty of a job is less than the greatest number there is (mining.cpp:145).
LEMMA ScaledInRange ==
    ASSUME NEW parsed \in Nat
    PROVE  Scaled(parsed) \in Nat /\ Scaled(parsed) < Words - 1
<1>1. Quarter \in Nat \ {0}
  BY WordsFitDigits
<1>2. parsed * 100 = 4 * (25 * parsed) /\ 25 * parsed \in Nat
  OBVIOUS
<1>3. Scaled(parsed) = (4 * (25 * parsed)) % (4 * Quarter)
  BY <1>2 DEF Scaled, Words
<1>4. Scaled(parsed) \in 0 .. 4 * Quarter - 1
  BY <1>1, <1>2, <1>3, FoursStay
<1>5. PICK y \in Int : Scaled(parsed) = 4 * y
  BY <1>1, <1>2, <1>3, FoursStay
<1> HIDE DEF Scaled
<1> QED
  BY <1>1, <1>4, <1>5 DEF Words

Bounds ==
    /\ difficulty \in Nat
    /\ counter.val \in Nat
    /\ NeverGoesRound

THEOREM BoundsInvariant == HashSpec => []Bounds
<1>0. Quarter \in Nat \ {0} /\ Words \in Nat /\ Words >= 4 /\ Parsed \subseteq Nat
  BY WordsFitDigits DEF Words
<1>1. HashInit => Bounds
  BY <1>0 DEF HashInit, Bounds, NeverGoesRound, reset
<1>2. Bounds /\ [HashNext]_hashVars => Bounds'
  <2> SUFFICES ASSUME Bounds, [HashNext]_hashVars PROVE Bounds'
    OBVIOUS
  <2>1. ASSUME NEW p \in Parsed, NEW n \in Results \cup {NoResult}, Job(p, n) PROVE Bounds'
    <3>1. p \in Nat
      BY <1>0
    <3>2. difficulty' \in Nat /\ difficulty' < Words - 1
      BY <2>1, <3>1, ScaledInRange DEF Job
    <3>3. counter'.val = 0
      BY <2>1 DEF Job, reset
    <3>4. \A d \in Nat : 0 <= d + 1
      OBVIOUS
    <3>5. (difficulty \in Nat)' /\ (difficulty < Words - 1)'
      BY <3>2
    <3>6. (counter.val \in Nat)'
      BY <3>3
    <3>7. (counter.val <= difficulty + 1)'
      BY <3>2, <3>3, <3>4
    <3> QED
      BY <3>5, <3>6, <3>7 DEF Bounds, NeverGoesRound
  <2>2. CASE Miss
    <3>1. counter'.val = (counter.val + 1) % Words
      BY <2>2 DEF Miss, Increment
    <3>2. difficulty' = difficulty /\ counter.val <= difficulty
      BY <2>2 DEF Miss, InLoop
    <3>3. (counter.val + 1) % Words = counter.val + 1
      BY <1>0, <3>2 DEF Bounds, NeverGoesRound
    <3> QED
      BY <1>0, <3>1, <3>2, <3>3 DEF Bounds, NeverGoesRound
  <2>3. CASE Leave \/ Share \/ Complete \/ Toggle
    BY <2>3 DEF Leave, Share, Complete, Toggle, Bounds, NeverGoesRound
  <2>4. CASE UNCHANGED hashVars
    BY <2>4 DEF hashVars, Bounds, NeverGoesRound
  <2> QED
    BY <2>1, <2>2, <2>3, <2>4 DEF HashNext, Mine
<1> QED
  BY <1>1, <1>2, PTL DEF HashSpec

\* Whatever the width of an unsigned int, and whatever strtoul gives, the number of the
\* hash loop never wraps (mining.cpp:47,145).
THEOREM CounterNeverWraps == HashSpec => []NeverGoesRound
<1>1. Bounds => NeverGoesRound
  BY DEF Bounds
<1> QED
  BY <1>1, BoundsInvariant, PTL

-----------------------------------------------------------------------------
(* The decimal of a number *)

\* Induction: a set that has every number all of whose predecessors it has, has them all.
LEMMA StrongInduction ==
    ASSUME NEW S, \A n \in Nat : (\A k \in 0 .. n - 1 : k \in S) => n \in S
    PROVE  Nat \subseteq S
<1> DEFINE T == Nat \ S
           R == OpToRel(<, Nat)
<1>1. \A x, y \in Nat : <<x, y>> \in R <=> x < y
  BY DEF OpToRel
<1>2. IsWellFoundedOn(R, Nat)
  BY NatLessThanWellFounded
<1> HIDE DEF R
<1> SUFFICES ASSUME T # {} PROVE FALSE
  OBVIOUS
<1>3. T \subseteq Nat
  OBVIOUS
<1> HIDE DEF T
<1>4. PICK x \in T : \A y \in T : ~(<<y, x>> \in R)
  BY <1>2, <1>3, WFMin, Zenon
<1>5. x \in Nat /\ \A k \in 0 .. x - 1 : k \in Nat /\ k \notin T
  <2>1. x \in Nat
    BY <1>3
  <2>2. ASSUME NEW k \in 0 .. x - 1 PROVE k \in Nat /\ k \notin T
    <3>1. k \in Nat /\ k < x
      BY <2>1
    <3>2. <<k, x>> \in R
      BY <1>1, <2>1, <3>1
    <3> QED
      BY <1>4, <3>1, <3>2
  <2> QED
    BY <2>1, <2>2
<1>6. x \in S
  BY <1>5 DEF T
<1> QED
  BY <1>4, <1>6 DEF T

LEMMA Tens ==
    ASSUME NEW n \in Nat
    PROVE  /\ n % 10 \in 0 .. 9 /\ n \div 10 \in Nat /\ n = 10 * (n \div 10) + (n % 10)
           /\ n >= 10 => n \div 10 \in 1 .. n - 1
OBVIOUS

-----------------------------------------------------------------------------
(* The decimal of a number.  That there is a function with Decimal's equation is shown *)
(* first: the tables of the numbers up to n exist, by induction, and agree.            *)

Step(g, n) == IF n < 10 THEN <<n>> ELSE Append(g[n \div 10], n % 10)
IsTable(g, n) == \A k \in 0 .. n : g[k] = Step(g, k)

LEMMA TablesAgree ==
    ASSUME NEW g, NEW h, NEW n \in Nat, IsTable(g, n), IsTable(h, n)
    PROVE  \A k \in 0 .. n : g[k] = h[k]
<1> DEFINE S == {k \in Nat : k \in 0 .. n => g[k] = h[k]}
<1>1. ASSUME NEW k \in Nat, \A j \in 0 .. k - 1 : j \in S PROVE k \in S
  <2> SUFFICES ASSUME k \in 0 .. n PROVE g[k] = h[k]
    OBVIOUS
  <2>1. g[k] = Step(g, k) /\ h[k] = Step(h, k)
    BY DEF IsTable
  <2>2. CASE k < 10
    BY <2>1, <2>2 DEF Step
  <2>3. CASE k >= 10
    <3>1. k \div 10 \in 0 .. k - 1 /\ k \div 10 \in 0 .. n
      BY <2>3, Tens
    <3>2. g[k \div 10] = h[k \div 10]
      BY <1>1, <3>1
    <3>3. ~(k < 10)
      BY <2>3
    <3> QED
      BY <2>1, <3>2, <3>3 DEF Step
  <2> QED
    BY <2>2, <2>3
<1> HIDE DEF S
<1>2. Nat \subseteq S
  BY <1>1, StrongInduction
<1>3. \A k \in 0 .. n : k \in Nat
  OBVIOUS
<1> QED
  BY <1>2, <1>3 DEF S

LEMMA TablesExist == \A n \in Nat : \E g : IsTable(g, n)
<1> DEFINE S == {n \in Nat : \E g : IsTable(g, n)}
<1>1. ASSUME NEW n \in Nat, \A k \in 0 .. n - 1 : k \in S PROVE n \in S
  <2>1. \E h : \A k \in 0 .. n - 1 : h[k] = Step(h, k)
    <3>1. CASE n = 0
      BY <3>1
    <3>2. CASE n # 0
      <4>1. n - 1 \in S
        BY <1>1, <3>2
      <4> QED
        BY <4>1 DEF IsTable
    <3> QED
      BY <3>1, <3>2
  <2>2. PICK h : \A k \in 0 .. n - 1 : h[k] = Step(h, k)
    BY <2>1
  <2> DEFINE g == [k \in 0 .. n |-> IF k = n THEN Step(h, n) ELSE h[k]]
  <2>3. ASSUME NEW k \in 0 .. n PROVE g[k] = Step(g, k)
    <3>1. Step(g, k) = Step(h, k)
      <4>1. CASE k < 10
        BY <4>1 DEF Step
      <4>2. CASE k >= 10
        <5>1. k \div 10 \in 0 .. n - 1
          BY <4>2, Tens
        <5>2. g[k \div 10] = h[k \div 10]
          BY <5>1
        <5> HIDE DEF g
        <5> QED
          BY <5>2 DEF Step
      <4> QED
        BY <4>1, <4>2
    <3>2. g[k] = Step(h, k)
      BY <2>2
    <3> QED
      BY <3>1, <3>2
  <2> QED
    BY <2>3 DEF IsTable
<1> HIDE DEF S
<1>2. Nat \subseteq S
  BY <1>1, StrongInduction
<1> QED
  BY <1>2 DEF S

LEMMA DecimalIs == Decimal = [n \in Nat |-> Step(Decimal, n)]
<1> DEFINE table(n) == CHOOSE g : IsTable(g, n)
           f == [n \in Nat |-> table(n)[n]]
<1>1. \A n \in Nat : IsTable(table(n), n)
  BY TablesExist
<1> HIDE DEF table
<1>2. ASSUME NEW n \in Nat PROVE f[n] = Step(f, n)
  <2>1. IsTable(table(n), n) /\ f[n] = Step(table(n), n)
    BY <1>1 DEF IsTable
  <2>2. CASE n < 10
    BY <2>1, <2>2 DEF Step
  <2>3. CASE n >= 10
    <3> DEFINE m == n \div 10
    <3>1. m \in Nat /\ m \in 0 .. n
      BY <2>3, Tens
    <3> HIDE DEF m
    <3>2. IsTable(table(m), m) /\ IsTable(table(n), m) /\ m \in 0 .. m
      BY <1>1, <3>1 DEF IsTable
    <3>3. table(n)[m] = table(m)[m]
      BY <3>1, <3>2, TablesAgree
    <3>4. f[m] = table(n)[m]
      BY <3>1, <3>3
    <3> HIDE DEF f
    <3> QED
      BY <2>1, <3>4 DEF Step, m
  <2> QED
    BY <2>2, <2>3
<1>3. f = [n \in Nat |-> Step(f, n)]
  BY <1>2
<1> HIDE DEF f
<1>4. \E d : d = [n \in Nat |-> IF n < 10 THEN <<n>> ELSE Append(d[n \div 10], n % 10)]
  BY <1>3 DEF Step
<1> QED
  BY <1>4 DEF Decimal, Step

LEMMA DecimalOfDigit ==
    ASSUME NEW n \in Nat, n < 10
    PROVE  Decimal[n] = <<n>>
  BY DecimalIs DEF Step

LEMMA DecimalOfTens ==
    ASSUME NEW n \in Nat, n >= 10
    PROVE  Decimal[n] = Append(Decimal[n \div 10], n % 10)
<1>1. ~(n < 10)
  OBVIOUS
<1> QED
  BY <1>1, DecimalIs DEF Step

LEMMA Appended ==
    ASSUME NEW S, NEW s \in Seq(S), NEW e \in S
    PROVE  /\ Append(s, e) \in Seq(S) /\ Len(Append(s, e)) = Len(s) + 1
           /\ \A k \in 1 .. Len(s) : Append(s, e)[k] = s[k]
           /\ Append(s, e)[Len(s) + 1] = e
OBVIOUS

LEMMA SequenceIs ==
    ASSUME NEW S, NEW s \in Seq(S), NEW l, Len(s) = l
    PROVE  s = [k \in 1 .. l |-> s[k]]
OBVIOUS

LEMMA DecimalType == \A n \in Nat : Decimal[n] \in Seq(0 .. 9) /\ Len(Decimal[n]) \in Nat \ {0}
<1> DEFINE S == {n \in Nat : Decimal[n] \in Seq(0 .. 9) /\ Len(Decimal[n]) \in Nat \ {0}}
<1>1. ASSUME NEW n \in Nat, \A k \in 0 .. n - 1 : k \in S PROVE n \in S
  <2>1. CASE n < 10
    <3>1. Decimal[n] = <<n>> /\ n \in 0 .. 9
      BY <2>1, DecimalOfDigit
    <3>2. \A e \in 0 .. 9 : <<e>> \in Seq(0 .. 9) /\ Len(<<e>>) \in Nat \ {0}
      OBVIOUS
    <3> QED
      BY <3>1, <3>2
  <2>2. CASE n >= 10
    <3>1. n \div 10 \in 0 .. n - 1 /\ n % 10 \in 0 .. 9
      BY <2>2, Tens
    <3>2. Decimal[n \div 10] \in Seq(0 .. 9)
      BY <1>1, <3>1
    <3>3. /\ Append(Decimal[n \div 10], n % 10) \in Seq(0 .. 9)
          /\ Len(Append(Decimal[n \div 10], n % 10)) = Len(Decimal[n \div 10]) + 1
      BY <3>1, <3>2, Appended
    <3>4. Decimal[n] = Append(Decimal[n \div 10], n % 10)
      BY <2>2, DecimalOfTens
    <3>5. Len(Decimal[n \div 10]) \in Nat
      BY <3>2
    <3>6. Decimal[n] \in Seq(0 .. 9) /\ Len(Decimal[n]) = Len(Decimal[n \div 10]) + 1
      BY <3>3, <3>4
    <3> QED
      BY <3>5, <3>6
  <2> QED
    BY <2>1, <2>2
<1> HIDE DEF S
<1>2. Nat \subseteq S
  BY <1>1, StrongInduction
<1> QED
  BY <1>2 DEF S

\* A greater number has no shorter decimal.
LEMMA DecimalGrows == \A n \in Nat : \A m \in 0 .. n : Len(Decimal[m]) <= Len(Decimal[n])
<1> DEFINE S == {n \in Nat : \A m \in 0 .. n : Len(Decimal[m]) <= Len(Decimal[n])}
<1>1. ASSUME NEW n \in Nat, \A k \in 0 .. n - 1 : k \in S PROVE n \in S
  <2> SUFFICES ASSUME NEW m \in 0 .. n PROVE Len(Decimal[m]) <= Len(Decimal[n])
    OBVIOUS
  <2>1. CASE m < 10
    <3>1. Len(Decimal[m]) = 1
      BY <2>1, DecimalOfDigit
    <3> QED
      BY <3>1, DecimalType
  <2>2. CASE m >= 10
    <3> DEFINE a == m \div 10
               b == n \div 10
    <3>1. a \in Nat /\ b \in 0 .. n - 1 /\ a <= b /\ m % 10 \in 0 .. 9 /\ n % 10 \in 0 .. 9
      BY <2>2, Tens
    <3>2. Decimal[m] = Append(Decimal[a], m % 10) /\ Decimal[n] = Append(Decimal[b], n % 10)
      BY <2>2, DecimalOfTens
    <3>3. Decimal[a] \in Seq(0 .. 9) /\ Decimal[b] \in Seq(0 .. 9) /\ b \in Nat
      BY <3>1, DecimalType
    <3>4. Len(Decimal[a]) <= Len(Decimal[b])
      BY <1>1, <3>1
    <3> HIDE DEF a, b
    <3>5. Len(Decimal[m]) = Len(Decimal[a]) + 1 /\ Len(Decimal[n]) = Len(Decimal[b]) + 1
      BY <3>1, <3>2, <3>3, Appended
    <3> QED
      BY <3>3, <3>4, <3>5
  <2> QED
    BY <2>1, <2>2
<1> HIDE DEF S
<1>2. Nat \subseteq S
  BY <1>1, StrongInduction
<1> QED
  BY <1>2 DEF S

\* Two numbers have two decimals.
LEMMA DecimalsDiffer == \A n \in Nat : \A m \in Nat : Decimal[m] = Decimal[n] => m = n
<1> DEFINE S == {n \in Nat : \A m \in Nat : Decimal[m] = Decimal[n] => m = n}
<1>1. ASSUME NEW n \in Nat, \A k \in 0 .. n - 1 : k \in S PROVE n \in S
  <2> SUFFICES ASSUME NEW m \in Nat, Decimal[m] = Decimal[n] PROVE m = n
    OBVIOUS
  <2>1. ASSUME NEW k \in Nat, k >= 10
        PROVE  /\ k \div 10 \in Nat /\ k % 10 \in 0 .. 9 /\ k = 10 * (k \div 10) + (k % 10)
               /\ Decimal[k \div 10] \in Seq(0 .. 9) /\ Len(Decimal[k \div 10]) >= 1
               /\ Decimal[k] = Append(Decimal[k \div 10], k % 10)
               /\ Len(Decimal[k]) = Len(Decimal[k \div 10]) + 1
    <3>1. k \div 10 \in Nat /\ k % 10 \in 0 .. 9 /\ k = 10 * (k \div 10) + (k % 10)
      BY Tens
    <3>2. Decimal[k \div 10] \in Seq(0 .. 9) /\ Len(Decimal[k \div 10]) >= 1
      BY <3>1, DecimalType
    <3>3. Decimal[k] = Append(Decimal[k \div 10], k % 10)
      BY <2>1, DecimalOfTens
    <3> QED
      BY <3>1, <3>2, <3>3, Appended
  <2>2. ASSUME NEW k \in Nat, k < 10 PROVE Decimal[k] = <<k>> /\ Len(Decimal[k]) <= 1
    <3>1. Decimal[k] = <<k>>
      BY <2>2, DecimalOfDigit
    <3>2. Len(<<k>>) <= 1
      OBVIOUS
    <3> QED
      BY <3>1, <3>2, Zenon
  <2>3. CASE n < 10
    <3>1. m < 10
      <4>1. SUFFICES ASSUME m >= 10 PROVE FALSE
        OBVIOUS
      <4> DEFINE l == Len(Decimal[m \div 10])
      <4>2. Len(Decimal[m]) = l + 1 /\ l >= 1
        BY <2>1, <4>1
      <4>3. Len(Decimal[m]) <= 1
        BY <2>2, <2>3
      <4>4. l \in Nat
        <5>1. Decimal[m \div 10] \in Seq(0 .. 9)
          BY <2>1, <4>1
        <5> QED
          BY <5>1
      <4> HIDE DEF l
      <4> QED
        BY <4>2, <4>3, <4>4
    <3>2. <<m>> = <<n>>
      BY <2>2, <2>3, <3>1
    <3> QED
      BY <3>2
  <2>4. CASE n >= 10
    <3>1. m >= 10
      BY <2>1, <2>2, <2>4
    <3> DEFINE a == Decimal[m \div 10]
               b == Decimal[n \div 10]
    <3>2. /\ a \in Seq(0 .. 9) /\ b \in Seq(0 .. 9) /\ m % 10 \in 0 .. 9 /\ n % 10 \in 0 .. 9
          /\ Append(a, m % 10) = Append(b, n % 10)
      BY <2>1, <2>4, <3>1
    <3>3. a = b /\ m % 10 = n % 10
      <4> HIDE DEF a, b
      <4> QED BY <3>2
    <3>4. n \div 10 \in 0 .. n - 1 /\ m \div 10 \in Nat
      BY <2>4, Tens
    <3>5. m \div 10 = n \div 10
      BY <1>1, <3>3, <3>4
    <3> QED
      BY <2>1, <2>4, <3>1, <3>3, <3>5
  <2> QED
    BY <2>3, <2>4
<1> HIDE DEF S
<1>2. Nat \subseteq S
  BY <1>1, StrongInduction
<1> QED
  BY <1>2 DEF S

\* All digits from k on are nines, and k is none, or the front.
Stops(digits, s) ==
    /\ s \in 0 .. Len(digits)
    /\ s # 0 => digits[s] < 9
    /\ \A k \in s + 1 .. Len(digits) : digits[k] = 9

Successor(digits, s) ==
    IF s = 0 THEN [k \in 1 .. Len(digits) + 1 |-> IF k = 1 THEN 1 ELSE 0]
    ELSE [k \in 1 .. Len(digits) |->
             IF k < s THEN digits[k] ELSE IF k = s THEN digits[k] + 1 ELSE 0]

\* A decimal is counted up by adding one to its last digit that is no nine, or, if there
\* is none, by a one in front; the nines after it become zeros.
LEMMA DecimalCarries ==
    \A n \in Nat : \E s \in 0 .. Len(Decimal[n]) :
        Stops(Decimal[n], s) /\ Decimal[n + 1] = Successor(Decimal[n], s)
<1> DEFINE S == {n \in Nat : \E s \in 0 .. Len(Decimal[n]) :
                    Stops(Decimal[n], s) /\ Decimal[n + 1] = Successor(Decimal[n], s)}
<1>1. ASSUME NEW n \in Nat, \A k \in 0 .. n - 1 : k \in S PROVE n \in S
  <2> SUFFICES \E s \in 0 .. Len(Decimal[n]) :
                   Stops(Decimal[n], s) /\ Decimal[n + 1] = Successor(Decimal[n], s)
    OBVIOUS
  <2>1. CASE n < 9
    <3>1. Decimal[n] = <<n>> /\ Decimal[n + 1] = <<n + 1>>
      BY <2>1, DecimalOfDigit
    <3>2. Stops(<<n>>, 1)
      BY <2>1 DEF Stops
    <3>3. Successor(<<n>>, 1) = <<n + 1>>
      BY <2>1 DEF Successor
    <3> QED
      BY <3>1, <3>2, <3>3 DEF Stops
  <2>2. CASE n = 9
    <3>1. Decimal[9] = <<9>> /\ Decimal[1] = <<1>>
      BY DecimalOfDigit
    <3>2. Decimal[10] = Append(Decimal[1], 0)
      <4>1. 10 \div 10 = 1 /\ 10 % 10 = 0 /\ 10 \in Nat /\ 10 >= 10
        OBVIOUS
      <4> QED
        BY <4>1, DecimalOfTens
    <3>3. Append(<<1>>, 0) = [k \in 1 .. 2 |-> IF k = 1 THEN 1 ELSE 0]
      OBVIOUS
    <3>4. Stops(<<9>>, 0)
      BY DEF Stops
    <3>5. Successor(<<9>>, 0) = [k \in 1 .. 2 |-> IF k = 1 THEN 1 ELSE 0]
      BY DEF Successor
    <3> QED
      BY <2>2, <3>1, <3>2, <3>3, <3>4, <3>5 DEF Stops
  <2>3. CASE n > 9
    <3> DEFINE a == n \div 10
               d == n % 10
               D == Decimal[a]
               l == Len(D)
    <3>1. a \in 0 .. n - 1 /\ a \in Nat /\ d \in 0 .. 9 /\ n = 10 * a + d
      BY <2>3, Tens
    <3>2. D \in Seq(0 .. 9) /\ l \in Nat \ {0}
      BY <3>1, DecimalType
    <3>3. Decimal[n] = Append(D, d)
      BY <2>3, DecimalOfTens
    <3>4. Decimal[n + 1] = Append(Decimal[(n + 1) \div 10], (n + 1) % 10)
      BY <2>3, DecimalOfTens
    <3>5. a \in S
      BY <1>1, <3>1
    <3> HIDE DEF a, d, D
    <3>6. Append(D, d) \in Seq(0 .. 9) /\ Len(Append(D, d)) = l + 1
      BY <3>1, <3>2, Appended
    <3>7. (\A k \in 1 .. l : Append(D, d)[k] = D[k]) /\ Append(D, d)[l + 1] = d
      BY <3>1, <3>2, Appended
    <3> HIDE DEF l
    <3>8. CASE d < 9
      <4>1. (n + 1) \div 10 = a /\ (n + 1) % 10 = d + 1
        BY <3>1, <3>8
      <4>2. Decimal[n + 1] = Append(D, d + 1)
        BY <3>4, <4>1 DEF D
      <4>3. Stops(Append(D, d), l + 1)
        BY <3>1, <3>2, <3>6, <3>7, <3>8 DEF Stops
      <4>4. /\ Append(D, d + 1) \in Seq(0 .. 9) /\ Len(Append(D, d + 1)) = l + 1
            /\ \A k \in 1 .. l : Append(D, d + 1)[k] = D[k]
            /\ Append(D, d + 1)[l + 1] = d + 1
        <5>1. d + 1 \in 0 .. 9
          BY <3>1, <3>8
        <5> QED
          BY <3>2, <5>1, Appended DEF l
      <4>5. Append(D, d + 1) = [k \in 1 .. l + 1 |-> Append(D, d + 1)[k]]
        BY <4>4
      <4>6. Successor(Append(D, d), l + 1) =
                [k \in 1 .. l + 1 |-> IF k < l + 1 THEN D[k] ELSE d + 1]
        BY <3>2, <3>6, <3>7 DEF Successor
      <4>7. Append(D, d + 1) = Successor(Append(D, d), l + 1)
        BY <3>2, <4>4, <4>5, <4>6
      <4> QED
        BY <3>3, <4>2, <4>3, <4>7 DEF Stops
    <3>9. CASE d = 9
      <4>1. (n + 1) \div 10 = a + 1 /\ (n + 1) % 10 = 0
        BY <3>1, <3>9
      <4>2. Decimal[n + 1] = Append(Decimal[a + 1], 0)
        BY <3>4, <4>1
      <4>3. PICK s \in 0 .. l : Stops(D, s) /\ Decimal[a + 1] = Successor(D, s)
        BY <3>5 DEF D, l
      <4>4. Stops(Append(D, d), s)
        BY <3>1, <3>2, <3>6, <3>7, <3>9, <4>3 DEF Stops, l
      <4>5. Decimal[a + 1] \in Seq(0 .. 9)
        BY <3>1, DecimalType
      <4>6. Append(Successor(D, s), 0) = Successor(Append(D, d), s)
        <5> DEFINE E == Successor(D, s)
                   m == IF s = 0 THEN l + 1 ELSE l
        <5>1. E \in Seq(0 .. 9) /\ DOMAIN E = 1 .. m /\ m \in Nat
          BY <3>2, <4>3, <4>5 DEF Successor, l
        <5>2. \A k \in 1 .. m : E[k] =
                  IF s = 0 THEN IF k = 1 THEN 1 ELSE 0
                  ELSE IF k < s THEN D[k] ELSE IF k = s THEN D[k] + 1 ELSE 0
          BY DEF Successor, l
        <5> HIDE DEF E
        <5>3. Len(E) = m
          BY <5>1
        <5> HIDE DEF m
        <5>4. /\ Append(E, 0) \in Seq(0 .. 9) /\ Len(Append(E, 0)) = m + 1
              /\ \A k \in 1 .. m : Append(E, 0)[k] = E[k]
              /\ Append(E, 0)[m + 1] = 0
          BY <5>1, <5>3, Appended
        <5>5. Append(E, 0) = [k \in 1 .. m + 1 |-> Append(E, 0)[k]]
          BY <5>4, SequenceIs
        <5>6. Successor(Append(D, d), s) = [k \in 1 .. m + 1 |-> IF k = m + 1 THEN 0 ELSE E[k]]
          <6> DEFINE F == Append(D, d)
          <6>1. CASE s = 0
            <7>1. Successor(F, s) = [k \in 1 .. l + 1 + 1 |-> IF k = 1 THEN 1 ELSE 0] /\ m = l + 1
              BY <3>6, <6>1 DEF Successor, m
            <7>2. \A k \in 1 .. m : E[k] = IF k = 1 THEN 1 ELSE 0
              BY <5>2, <6>1
            <7> QED
              BY <3>2, <7>1, <7>2
          <6>2. CASE s # 0
            <7>1. m = l /\ Successor(F, s) =
                      [k \in 1 .. l + 1 |-> IF k < s THEN F[k] ELSE IF k = s THEN F[k] + 1 ELSE 0]
              BY <3>6, <6>2 DEF Successor, m
            <7>2. \A k \in 1 .. l : E[k] = IF k < s THEN F[k] ELSE IF k = s THEN F[k] + 1 ELSE 0
              BY <3>7, <5>2, <6>2, <7>1
            <7>3. ~(l + 1 < s) /\ l + 1 # s
              BY <3>2, <4>3
            <7>4. \A k \in 1 .. l + 1 : k # l + 1 => k \in 1 .. l
              BY <3>2
            <7> HIDE DEF F
            <7> DEFINE G == [k \in 1 .. l + 1 |->
                                IF k < s THEN F[k] ELSE IF k = s THEN F[k] + 1 ELSE 0]
            <7>5. ASSUME NEW k \in 1 .. l + 1 PROVE G[k] = IF k = l + 1 THEN 0 ELSE E[k]
              BY <7>2, <7>3, <7>4
            <7>6. G = [k \in 1 .. l + 1 |-> IF k = l + 1 THEN 0 ELSE E[k]]
              BY <7>5
            <7>7. Successor(F, s) = G
              BY <7>1
            <7>8. m = l
              BY <7>1
            <7> HIDE DEF G
            <7> QED
              BY <7>6, <7>7, <7>8 DEF F
          <6> QED
            BY <6>1, <6>2
        <5> QED
          BY <5>1, <5>4, <5>5, <5>6 DEF E
      <4> QED
        BY <3>3, <4>2, <4>3, <4>4, <4>6 DEF Stops
    <3> QED
      BY <3>1, <3>8, <3>9
  <2> QED
    BY <2>1, <2>2, <2>3
<1> HIDE DEF S
<1>2. Nat \subseteq S
  BY <1>1, StrongInduction
<1> QED
  BY <1>2 DEF S

-----------------------------------------------------------------------------
(* The counter *)

\* The buffer holds the number's decimal at its end, and zeros before it.
IsCounter(c) ==
    /\ c.buffer \in [0 .. max_digits - 1 -> 0 .. 9]
    /\ c.val \in Nat
    /\ c.len \in 1 .. max_digits
    /\ \A d \in 0 .. max_digits - c.len - 1 : c.buffer[d] = 0
    /\ Text(c) = Decimal[c.val]

LEMMA ResetCounts == IsCounter(reset)
<1>1. max_digits \in Nat \ {0}
  BY WordsFitDigits
<1>2. Text(reset) = <<0>>
  BY <1>1 DEF Text, reset
<1>3. Decimal[0] = <<0>>
  BY DecimalOfDigit
<1> QED
  BY <1>1, <1>2, <1>3 DEF IsCounter, reset

\* operator++ counts: as long as there is a number to come, its decimal fits the buffer
\* (counter.h:33-46).
LEMMA IncrementCounts ==
    ASSUME NEW c, IsCounter(c), c.val + 1 <= Words - 1
    PROVE  IsCounter(Increment(c)) /\ Increment(c).val = c.val + 1
<1> DEFINE n   == c.val
           D   == Decimal[n]
           l   == c.len
           off == max_digits - l
           b   == c.buffer
           at  == StopsAt(b)
<1>1. max_digits \in Nat \ {0} /\ Words \in Nat /\ Len(Decimal[Words - 1]) <= max_digits
  BY WordsFitDigits DEF Words
<1>2. /\ b \in [0 .. max_digits - 1 -> 0 .. 9] /\ n \in Nat /\ l \in 1 .. max_digits
      /\ \A d \in 0 .. off - 1 : b[d] = 0
  BY DEF IsCounter
<1>3. D = [k \in 1 .. l |-> b[off + k - 1]]
  BY DEF IsCounter, Text
<1>4. D \in Seq(0 .. 9)
  BY <1>2, DecimalType
<1> HIDE DEF D
<1>5. Len(D) = l
  BY <1>1, <1>2, <1>3, <1>4
<1>6. off \in 0 .. max_digits - 1 /\ off + l = max_digits
  BY <1>1, <1>2
<1>7. PICK s \in 0 .. l : Stops(D, s) /\ Decimal[n + 1] = Successor(D, s)
  BY <1>2, <1>5, DecimalCarries DEF D
\* A decimal of nines alone has room in front.
<1>8. s = 0 => off > 0
  <2> SUFFICES ASSUME s = 0, off = 0 PROVE FALSE
    BY <1>6
  <2>1. Decimal[n + 1] = [k \in 1 .. l + 1 |-> IF k = 1 THEN 1 ELSE 0]
    BY <1>5, <1>7 DEF Successor
  <2>2. Decimal[n + 1] \in Seq(0 .. 9)
    BY <1>2, DecimalType
  <2>3. Len(Decimal[n + 1]) = l + 1
    BY <1>1, <1>2, <2>1, <2>2
  <2>4. Words - 1 \in Nat /\ n + 1 \in 0 .. Words - 1
    BY <1>1, <1>2
  <2>5. Len(Decimal[n + 1]) <= Len(Decimal[Words - 1])
    BY <2>4, DecimalGrows
  <2>6. Len(Decimal[Words - 1]) \in Nat
    BY <2>4, DecimalType
  <2> QED
    BY <1>1, <1>2, <1>6, <2>3, <2>5, <2>6
<1> HIDE DEF off, b, l, n
<1> DEFINE p == off + s - 1
<1>9. p \in 0 .. max_digits - 1
  BY <1>1, <1>2, <1>6, <1>7, <1>8
\* The digit at p is no nine, and those after it are.
<1>10. b[p] < 9 /\ \A d \in p + 1 .. max_digits - 1 : b[d] = 9
  <2>1. CASE s = 0
    <3>1. p = off - 1 /\ p \in 0 .. off - 1
      BY <1>6, <1>8, <2>1
    <3>2. ASSUME NEW d \in p + 1 .. max_digits - 1 PROVE b[d] = 9
      <4>1. d - off + 1 \in 1 .. l /\ off + (d - off + 1) - 1 = d /\ d - off + 1 \in s + 1 .. l
        BY <1>1, <1>2, <1>6, <2>1, <3>1
      <4> QED
        BY <1>3, <1>5, <1>7, <4>1 DEF Stops
    <3>3. b[p] = 0
      BY <1>2, <3>1
    <3> QED
      BY <3>2, <3>3
  <2>2. CASE s # 0
    <3>1. s \in 1 .. l
      BY <1>2, <1>7, <2>2
    <3>2. b[p] = D[s]
      BY <1>3, <3>1
    <3>3. ASSUME NEW d \in p + 1 .. max_digits - 1 PROVE b[d] = 9
      <4>1. d - off + 1 \in 1 .. l /\ off + (d - off + 1) - 1 = d /\ d - off + 1 \in s + 1 .. l
        BY <1>1, <1>2, <1>6, <3>1
      <4> QED
        BY <1>3, <1>5, <1>7, <4>1 DEF Stops
    <3> QED
      BY <1>7, <2>2, <3>2, <3>3 DEF Stops
  <2> QED
    BY <2>1, <2>2
<1>11. at = p
  <2> DEFINE Stop(q) == (q # -1 => b[q] < 9) /\ \A d \in q + 1 .. max_digits - 1 : b[d] = 9
  <2>1. at = CHOOSE q \in -1 .. max_digits - 1 : Stop(q)
    BY DEF StopsAt
  <2>2. p \in -1 .. max_digits - 1 /\ Stop(p)
    BY <1>1, <1>9, <1>10
  <2>3. ASSUME NEW q \in -1 .. max_digits - 1, Stop(q) PROVE q = p
    <3>1. ~(q < p)
      <4> SUFFICES ASSUME q < p PROVE FALSE
        OBVIOUS
      <4>1. p \in q + 1 .. max_digits - 1
        BY <1>1, <1>9
      <4> QED
        BY <1>10, <2>3, <4>1
    <3>2. ~(p < q)
      <4> SUFFICES ASSUME p < q PROVE FALSE
        OBVIOUS
      <4>1. q \in p + 1 .. max_digits - 1 /\ q # -1
        BY <1>1, <1>9
      <4> QED
        BY <1>10, <2>3, <4>1
    <3> QED
      BY <1>1, <1>9, <3>1, <3>2
  <2> HIDE DEF Stop
  <2> QED
    BY <2>1, <2>2, <2>3
<1> HIDE DEF at, p
<1> DEFINE e == Increment(c)
           m == IF s = 0 THEN l + 1 ELSE l
<1>12. /\ e.buffer = [d \in DOMAIN b \cup {at} |->
                          IF d = at THEN (IF at = -1 THEN 1 ELSE b[d] + 1)
                          ELSE IF d > at THEN 0 ELSE b[d]]
       /\ e.val = (n + 1) % Words
       /\ e.len = IF max_digits - at > l THEN max_digits - at ELSE l
  BY DEF Increment, at, b, l, n
<1>13. \A d \in 0 .. max_digits - 1 :
           e.buffer[d] = IF d = p THEN b[d] + 1 ELSE IF d > p THEN 0 ELSE b[d]
  BY <1>2, <1>9, <1>11, <1>12
<1>14. e.buffer \in [0 .. max_digits - 1 -> 0 .. 9]
  <2>1. DOMAIN e.buffer = 0 .. max_digits - 1
    BY <1>2, <1>9, <1>11, <1>12
  <2>2. \A d \in 0 .. max_digits - 1 : e.buffer[d] \in 0 .. 9
    BY <1>2, <1>10, <1>13
  <2>3. e.buffer = [d \in 0 .. max_digits - 1 |-> e.buffer[d]]
    BY <1>12, <2>1
  <2> HIDE DEF e
  <2> QED
    BY <2>2, <2>3
<1>15. e.val = n + 1
  <2>1. \A w \in Nat : \A x \in 0 .. w - 1 : x % w = x
    OBVIOUS
  <2>2. n + 1 \in 0 .. Words - 1
    BY <1>1, <1>2 DEF n
  <2> HIDE DEF e
  <2> QED
    BY <1>1, <1>12, <2>1, <2>2
<1>16. e.len = m /\ m \in 1 .. max_digits
  BY <1>1, <1>2, <1>6, <1>7, <1>8, <1>11, <1>12 DEF p
<1> HIDE DEF e
<1>17. \A d \in 0 .. max_digits - m - 1 : e.buffer[d] = 0
  <2> SUFFICES ASSUME NEW d \in 0 .. max_digits - m - 1 PROVE e.buffer[d] = 0
    OBVIOUS
  <2>1. d \in 0 .. max_digits - 1 /\ d \in 0 .. off - 1 /\ d < p
    BY <1>1, <1>2, <1>6, <1>7, <1>8, <1>9 DEF p
  <2> QED
    BY <1>2, <1>9, <1>13, <2>1
<1>18. Text(e) = [k \in 1 .. m |-> e.buffer[max_digits - m + k - 1]]
  BY <1>16 DEF Text
<1>19. Successor(D, s) = [k \in 1 .. m |->
           IF s = 0 THEN IF k = 1 THEN 1 ELSE 0
           ELSE IF k < s THEN D[k] ELSE IF k = s THEN D[k] + 1 ELSE 0]
  BY <1>5 DEF Successor
<1>20. ASSUME NEW k \in 1 .. m
       PROVE  e.buffer[max_digits - m + k - 1] =
                  IF s = 0 THEN IF k = 1 THEN 1 ELSE 0
                  ELSE IF k < s THEN D[k] ELSE IF k = s THEN D[k] + 1 ELSE 0
  <2> DEFINE d == max_digits - m + k - 1
  <2>1. d \in 0 .. max_digits - 1
    BY <1>1, <1>2, <1>16
  <2>2. e.buffer[d] = IF d = p THEN b[d] + 1 ELSE IF d > p THEN 0 ELSE b[d]
    BY <1>13, <2>1
  <2>3. CASE s = 0
    <3>1. d = p + (k - 1) /\ k - 1 \in Nat
      BY <1>1, <1>2, <1>6, <2>3 DEF p
    <3>2. b[p] = 0
      <4>1. p \in 0 .. off - 1
        BY <1>6, <1>8, <2>3 DEF p
      <4> QED
        BY <1>2, <4>1
    <3>3. e.buffer[d] = IF k = 1 THEN 1 ELSE 0
      <4> HIDE DEF d
      <4> QED
        BY <1>9, <2>2, <3>1, <3>2
    <3> QED
      BY <2>3, <3>3
  <2>4. CASE s # 0
    <3>1. m = l /\ d = off + k - 1 /\ k \in 1 .. l /\ d = p + (k - s)
      BY <1>1, <1>2, <1>6, <1>7, <2>4 DEF p
    <3>2. D[k] = b[d]
      BY <1>3, <3>1
    <3>3. e.buffer[d] = IF k < s THEN D[k] ELSE IF k = s THEN D[k] + 1 ELSE 0
      <4> HIDE DEF d, m
      <4> QED
        BY <1>2, <1>7, <1>9, <2>2, <3>1, <3>2
    <3> QED
      BY <2>4, <3>3
  <2> QED
    BY <2>3, <2>4
<1>21. Text(e) = Decimal[n + 1]
  <2> HIDE DEF m
  <2> QED
    BY <1>7, <1>18, <1>19, <1>20
<1>22. IsCounter(e)
  <2> HIDE DEF m
  <2> QED
    BY <1>2, <1>14, <1>15, <1>16, <1>17, <1>21 DEF IsCounter
<1> QED
  BY <1>15, <1>22 DEF e, n

-----------------------------------------------------------------------------
(* The search *)

\* A search that is under way has passed no number whose hash is expected.
SearchInv ==
    /\ IsCounter(counter)
    /\ result \in Nat \cup {NoResult}
    /\ phase = "mining" => sent = NoResult /\ (result # NoResult => result >= counter.val)
    /\ SearchIsRight

THEOREM SearchInvariant == HashSpec => []SearchInv
<1>0. Quarter \in Nat \ {0} /\ Words \in Nat /\ Results \subseteq Nat
  BY WordsFitDigits DEF Words
<1>1. HashInit => SearchInv
  BY ResetCounts DEF HashInit, SearchInv, SearchIsRight
<1>2. Bounds /\ SearchInv /\ [HashNext]_hashVars => SearchInv'
  <2> SUFFICES ASSUME Bounds, SearchInv, [HashNext]_hashVars PROVE SearchInv'
    OBVIOUS
  <2>1. ASSUME NEW p \in Parsed, NEW n \in Results \cup {NoResult}, Job(p, n) PROVE SearchInv'
    <3>1. counter' = reset /\ result' = n /\ sent' = NoResult /\ outcome' = "none"
      BY <2>1 DEF Job
    <3>2. IsCounter(counter')
      BY <3>1, ResetCounts
    <3>3. counter'.val = 0 /\ n \in Nat \cup {NoResult}
      BY <1>0, <3>1 DEF reset
    <3>4. SearchIsRight'
      BY <3>1 DEF SearchIsRight
    <3> QED
      BY <3>1, <3>2, <3>3, <3>4 DEF SearchInv
  <2>2. CASE Miss
    <3>1. /\ counter' = Increment(counter) /\ phase = "mining" /\ counter.val <= difficulty
          /\ ~Matches
          /\ UNCHANGED <<phase, difficulty, result, sent, outcome>>
      BY <2>2 DEF Miss, InLoop
    <3>2. difficulty \in Nat /\ difficulty < Words - 1 /\ counter.val \in Nat
      BY DEF Bounds, NeverGoesRound
    <3>3. IsCounter(counter') /\ counter'.val = counter.val + 1
      <4>1. counter.val + 1 <= Words - 1
        BY <1>0, <3>1, <3>2
      <4> QED
        BY <3>1, <4>1, IncrementCounts DEF SearchInv
    <3>4. result # NoResult => result # counter.val
      BY <3>1 DEF SearchInv, IsCounter, Matches
    <3>5. result # NoResult => result >= counter'.val
      BY <3>1, <3>2, <3>3, <3>4 DEF SearchInv
    <3>6. SearchIsRight'
      BY <3>1 DEF SearchInv, SearchIsRight
    <3> QED
      BY <3>1, <3>3, <3>5, <3>6 DEF SearchInv
  <2>3. CASE Share
    <3>1. /\ counter.val <= difficulty /\ Matches /\ sent' = counter.val /\ outcome' = "share"
          /\ phase' = "asking" /\ UNCHANGED <<counter, difficulty, result>>
      BY <2>3 DEF Share, InLoop
    <3>2. result \in Nat /\ counter.val \in Nat /\ Decimal[counter.val] = Decimal[result]
      BY <3>1 DEF SearchInv, IsCounter, Matches
    <3>3. counter.val = result
      BY <3>2, DecimalsDiffer
    <3>4. SearchIsRight'
      BY <3>1, <3>3 DEF SearchIsRight
    <3> QED
      BY <3>1, <3>4 DEF SearchInv
  <2>4. CASE Leave
    BY <2>4 DEF Leave, InLoop, SearchInv, SearchIsRight
  <2>5. CASE Complete
    <3>1. /\ counter.val > difficulty /\ outcome' = "complete" /\ phase = "mining"
          /\ phase' = "asking" /\ UNCHANGED <<counter, difficulty, result, sent>>
      BY <2>5 DEF Complete
    <3>2. difficulty \in Nat /\ counter.val \in Nat
      BY DEF Bounds
    <3>3. result # NoResult => result > difficulty
      BY <3>1, <3>2 DEF SearchInv
    <3>4. SearchIsRight'
      BY <3>1, <3>3 DEF SearchInv, SearchIsRight
    <3> QED
      BY <3>1, <3>4 DEF SearchInv
  <2>6. CASE Toggle \/ UNCHANGED hashVars
    BY <2>6 DEF Toggle, hashVars, SearchInv, SearchIsRight
  <2> QED
    BY <2>1, <2>2, <2>3, <2>4, <2>5, <2>6 DEF HashNext, Mine
<1> QED
  BY <1>1, <1>2, BoundsInvariant, PTL DEF HashSpec

\* What is hashed is the decimal of the number that is counted and sent: for every number
\* of an unsigned int and every buffer that has room for the greatest (counter.h:11-52).
THEOREM CounterTextIsNumber == HashSpec => []TextIsNumber
<1>1. SearchInv => TextIsNumber
  BY DEF SearchInv, IsCounter, TextIsNumber
<1> QED
  BY <1>1, SearchInvariant, PTL

\* The number sent is the one whose hash the pool expects, and a search that gives up has
\* tried every number up to the difficulty (mining.cpp:43-84).
THEOREM SearchesAreRight == HashSpec => []SearchIsRight
<1>1. SearchInv => SearchIsRight
  BY DEF SearchInv
<1> QED
  BY <1>1, SearchInvariant, PTL

===============================================================================
