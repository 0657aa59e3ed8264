-------------------------------- MODULE Word32 --------------------------------
(***************************************************************************)
(* uint32_t: a word is the set of the places where it has a 1; place 0 is  *)
(* the lowest.                                                             *)
(***************************************************************************)
LOCAL INSTANCE Integers
LOCAL INSTANCE Sequences

Bits == 0 .. 31

uint32 == SUBSET Bits

XorW(x, y) == (x \ y) \cup (y \ x)
AndW(x, y) == x \cap y
OrW(x, y)  == x \cup y
Complement(x) == Bits \ x

\* Adding x and y carries into place n: it began at a place below, and every place in
\* between passed it on.
Carries(x, y, n) == \E m \in x \cap y : m < n /\ \A k \in m + 1 .. n - 1 : k \in x \cup y

\* The sum modulo 2^32: what is carried out of the highest place is lost.
Plus(x, y) == {n \in Bits : Carries(x, y, n) <=> (n \in x <=> n \in y)}

\* (x << n) | (x >> (32 - n)), for n from 0 to 31.
Rot(x, n) == {(m + n) % 32 : m \in x}

\* The word of two 16-bit halves.
Halves(high, low) ==
    LET Power == <<1, 2, 4, 8, 16, 32, 64, 128, 256, 512, 1024, 2048, 4096, 8192, 16384, 32768>>
    IN  {n \in Bits : ((IF n < 16 THEN low ELSE high) \div Power[(n % 16) + 1]) % 2 = 1}

===============================================================================
