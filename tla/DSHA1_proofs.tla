----------------------------- MODULE DSHA1_proofs -----------------------------
(* The hash's buffer and its digests: what is written is hashed, and nothing else. *)
EXTENDS DSHA1, TLAPS

\* The padding is 1 to 64 bytes and leaves room for exactly the size (dsha1.h:41).
THEOREM PaddingCompletes ==
    ASSUME NEW n \in Nat
    PROVE  PadLen(n) \in 1 .. 64 /\ (n + PadLen(n) + 8) % 64 = 0
<1> DEFINE r == n % 64
           q == n \div 64
<1>1. r \in 0 .. 63 /\ q \in Nat /\ n = 64 * q + r
  OBVIOUS
<1>2. PadLen(n) = 1 + ((119 - r) % 64)
  BY DEF PadLen
<1> HIDE DEF r, q
<1>3. CASE r <= 55
  BY <1>1, <1>2, <1>3
<1>4. CASE r > 55
  BY <1>1, <1>2, <1>4
<1> QED
  BY <1>1, <1>3, <1>4

Buffer(buf) == DOMAIN buf = 0 .. 63

\* An object is a record, and its buffer has 64 bytes.
Object(h) == h = [bytes |-> h.bytes, s |-> h.s, buf |-> h.buf] /\ h.bytes \in Nat /\ Buffer(h.buf)

LEMMA Blocks64 ==
    ASSUME NEW x \in Nat
    PROVE  x % 64 \in 0 .. 63 /\ x \div 64 \in Nat /\ x = 64 * (x \div 64) + (x % 64)
OBVIOUS

LEMMA Blocks64Are ==
    ASSUME NEW a \in Nat, NEW b \in 0 .. 63
    PROVE  (64 * a + b) \div 64 = a /\ (64 * a + b) % 64 = b
OBVIOUS

\* What is read from a pointer are as many bytes as are asked for, and the data's where
\* it has some.
Reading(data, at, n) == {From(data, at, n)[k] : k \in 1 .. n}

IsReading(f, data, at, n) ==
    /\ f \in Seq(Reading(data, at, n)) /\ Len(f) = n
    /\ \A k \in 1 .. n : at + k \in 1 .. Len(data) => f[k] = data[at + k]

LEMMA FromReads ==
    ASSUME NEW D, NEW data \in Seq(D), NEW at \in Nat, NEW n \in Nat
    PROVE  IsReading(From(data, at, n), data, at, n)
<1> DEFINE e(k) == IF at + k \in 1 .. Len(data) THEN data[at + k] ELSE <<"behind", at + k>>
           f    == [k \in 1 .. n |-> e(k)]
<1>1. From(data, at, n) = f
  BY DEF From
<1>2. \A k \in 1 .. n : at + k \in 1 .. Len(data) => e(k) = data[at + k]
  OBVIOUS
<1> HIDE DEF e
<1>3. f \in Seq({f[k] : k \in 1 .. n}) /\ Len(f) = n /\ \A k \in 1 .. n : f[k] = e(k)
  OBVIOUS
<1> HIDE DEF f
<1> QED
  BY <1>1, <1>2, <1>3 DEF Reading, IsReading

LEMMA CopyInBounds ==
    ASSUME NEW buf, Buffer(buf), NEW at \in 0 .. 63, NEW S, NEW data \in Seq(S), at + Len(data) <= 64
    PROVE  Buffer(Copy(buf, at, data))
<1>1. DOMAIN Copy(buf, at, data) = DOMAIN buf \cup (at .. at + Len(data) - 1)
  BY DEF Copy
<1>2. at .. at + Len(data) - 1 \subseteq 0 .. 63
  <2>1. Len(data) \in Nat
    OBVIOUS
  <2>2. \A l \in Nat : at + l <= 64 => at .. at + l - 1 \subseteq 0 .. 63
    OBVIOUS
  <2> QED
    BY <2>1, <2>2
<1> QED
  BY <1>1, <1>2 DEF Buffer

\* A write fills the buffer to its end, or not at all; then it began with a block, or all
\* of it goes into the buffer (dsha1.h:16-23).
LEMMA FillIs ==
    ASSUME NEW h, h.bytes \in Nat, NEW len \in Nat
    PROVE  /\ Fill(h, len) \in 0 .. 63 /\ (h.bytes % 64) + Fill(h, len) <= 64
           /\ Fill(h, len) = 0 => h.bytes % 64 = 0 \/ (h.bytes % 64) + len < 64
           /\ (h.bytes % 64) + len = 64 /\ len < 64 => Fill(h, len) = len
           /\ h.bytes % 64 = 0 \/ (h.bytes % 64) + len < 64 => Fill(h, len) = 0
<1> DEFINE r == h.bytes % 64
<1>1. r \in 0 .. 63
  BY Blocks64
<1>2. Fill(h, len) = IF r # 0 /\ r + len >= 64 THEN 64 - r ELSE 0
  BY DEF Fill
<1> HIDE DEF r
<1>3. /\ Fill(h, len) \in 0 .. 63 /\ r + Fill(h, len) <= 64
      /\ Fill(h, len) = 0 => r = 0 \/ r + len < 64
      /\ r + len = 64 /\ len < 64 => Fill(h, len) = len
      /\ r = 0 \/ r + len < 64 => Fill(h, len) = 0
  BY <1>1, <1>2
<1> QED
  BY <1>3 DEF r

\* write() stays in the buffer whatever is written: what it fills up it fills to the end,
\* and what it keeps is less than a block (dsha1.h:15-35).
LEMMA WriteInBounds ==
    ASSUME NEW h, Object(h), NEW D, NEW data \in Seq(D), NEW len \in Nat
    PROVE  /\ Object(Write(h, data, len))
           /\ Write(h, data, len).bytes = h.bytes + Fill(h, len) + len
<1> DEFINE bufsize == h.bytes % 64
           fill    == Fill(h, len)
           head    == From(data, 0, fill)
           full    == Copy(h.buf, bufsize, head)
           at      == IF fill # 0 THEN 0 ELSE bufsize
           rest    == len % 64
           from    == fill + 64 * (len \div 64)
           kept    == From(data, from, rest)
<1>1. h.bytes \in Nat /\ Buffer(h.buf)
  BY DEF Object
<1>2. bufsize \in 0 .. 63 /\ rest \in 0 .. 63 /\ len \div 64 \in Nat
  BY <1>1, Blocks64
<1>3. /\ fill \in 0 .. 63 /\ bufsize + fill <= 64
      /\ fill = 0 => bufsize = 0 \/ bufsize + len < 64
  BY <1>1, FillIs
<1>4. /\ Write(h, data, len).buf = Copy(full, at, kept)
      /\ Write(h, data, len).bytes = h.bytes + fill + len
      /\ Write(h, data, len) = [bytes |-> Write(h, data, len).bytes, s |-> Write(h, data, len).s,
                                buf |-> Write(h, data, len).buf]
  BY DEF Write
<1>5. bufsize + len < 64 => rest = len
  <2>1. \A x \in 0 .. 63 : x % 64 = x
    OBVIOUS
  <2> HIDE DEF bufsize
  <2>2. bufsize + len < 64 => len \in 0 .. 63
    BY <1>2
  <2> QED
    BY <2>1, <2>2
<1> HIDE DEF bufsize, fill, rest
<1>6. head \in Seq(Reading(data, 0, fill)) /\ Len(head) = fill
  <2>1. 0 \in Nat /\ fill \in Nat
    BY <1>3
  <2> QED
    BY <2>1, FromReads DEF IsReading
<1> HIDE DEF head
<1>7. Buffer(full)
  <2>1. bufsize \in 0 .. 63 /\ bufsize + Len(head) <= 64
    BY <1>2, <1>3, <1>6
  <2> QED
    BY <1>1, <1>6, <2>1, CopyInBounds
<1> HIDE DEF full
<1>8. kept \in Seq(Reading(data, from, rest)) /\ Len(kept) = rest
  <2>1. from \in Nat /\ rest \in Nat
    BY <1>2, <1>3
  <2> HIDE DEF from
  <2> QED
    BY <2>1, FromReads DEF IsReading
<1> HIDE DEF kept
<1>9. at \in 0 .. 63 /\ at + rest <= 64
  BY <1>2, <1>3, <1>5
<1> HIDE DEF at
<1>10. Buffer(Copy(full, at, kept))
  <2>1. at + Len(kept) <= 64
    BY <1>8, <1>9
  <2> QED
    BY <1>7, <1>8, <1>9, <2>1, CopyInBounds
<1>11. h.bytes + fill + len \in Nat
  BY <1>1, <1>3
<1> QED
  BY <1>4, <1>10, <1>11 DEF Object, fill

\* The bytes of a text have a length, and are where they belong.
LEMMA BytesAre ==
    ASSUME NEW o, NEW n \in Nat
    PROVE  /\ Bytes(o, n) \in Seq({<<o, k>> : k \in 1 .. n})
           /\ Len(Bytes(o, n)) = n
           /\ \A k \in 1 .. n : Bytes(o, n)[k] = <<o, k>>
  BY DEF Bytes

LEMMA FinalizeInBounds ==
    ASSUME NEW h, Object(h)
    PROVE  Object(Finalize(h))
<1> DEFINE n      == PadLen(h.bytes)
           padded == Write(h, Pad(64), n)
<1>1. n \in Nat
  BY PaddingCompletes DEF Object
<1> HIDE DEF n
<1>2. Pad(64) \in Seq({<<"pad", v>> : v \in {128, 0}})
  BY DEF Pad
<1>3. Object(padded)
  BY <1>1, <1>2, WriteInBounds
<1> HIDE DEF padded
<1>4. SizeDesc(h.bytes) \in Seq({<<"size", 8 * h.bytes, k>> : k \in 1 .. 8})
  BY DEF SizeDesc
<1>5. Object(Write(padded, SizeDesc(h.bytes), 8))
  BY <1>3, <1>4, WriteInBounds
<1> QED
  BY <1>5 DEF Finalize, padded, n

\* What Copy leaves in the buffer, in bounds: the data, and around it what was there.
CopyAt(buf, at, data, i) ==
    IF at <= i /\ i < at + Len(data) THEN data[i - at + 1] ELSE buf[i]

IsCopied(buf, at, data) ==
    \A i \in 0 .. 63 : Copy(buf, at, data)[i] = CopyAt(buf, at, data, i)

LEMMA CopyReads ==
    ASSUME NEW buf, Buffer(buf), NEW at \in 0 .. 63, NEW S, NEW data \in Seq(S),
           at + Len(data) <= 64
    PROVE  IsCopied(buf, at, data)
<1> SUFFICES ASSUME NEW i \in 0 .. 63
             PROVE  Copy(buf, at, data)[i] = CopyAt(buf, at, data, i)
  BY DEF IsCopied
<1>1. i \in DOMAIN buf \cup (at .. at + Len(data) - 1)
  BY DEF Buffer
<1>2. i \in at .. at + Len(data) - 1 <=> at <= i /\ i < at + Len(data)
  <2>1. Len(data) \in Nat
    OBVIOUS
  <2>2. \A l \in Nat : i \in at .. at + l - 1 <=> at <= i /\ i < at + l
    OBVIOUS
  <2> QED
    BY <2>1, <2>2
<1> QED
  BY <1>1, <1>2 DEF Copy, CopyAt

\* A sequence after a sequence.
LEMMA ConcatReads ==
    ASSUME NEW S, NEW a \in Seq(S), NEW b \in Seq(S)
    PROVE  /\ a \o b \in Seq(S) /\ Len(a \o b) = Len(a) + Len(b)
           /\ \A i \in 1 .. Len(a) : (a \o b)[i] = a[i]
           /\ \A i \in 1 .. Len(b) : (a \o b)[Len(a) + i] = b[i]
OBVIOUS

\* The object holds the message m, a sequence over S: as many bytes, its whole blocks
\* transformed, and the rest of it in the buffer.
Represents(h, m, S) ==
    /\ Object(h) /\ m \in Seq(S) /\ h.bytes = Len(m)
    /\ h.s \in Seq([1 .. 64 -> S]) /\ Len(h.s) = Len(m) \div 64
    /\ \A n \in 1 .. Len(h.s) : \A k \in 1 .. 64 : h.s[n][k] = m[64 * (n - 1) + k]
    /\ \A k \in 1 .. Len(m) % 64 : h.buf[k - 1] = m[64 * (Len(m) \div 64) + k]

\* A message that an object holds, and a text after it.
Grows(h, m, text, S) ==
    /\ h.bytes % 64 \in 0 .. 63 /\ h.bytes \div 64 \in Nat /\ Len(text) \in Nat
    /\ m \o text \in Seq(S)
    /\ Len(m \o text) = 64 * (h.bytes \div 64) + (h.bytes % 64) + Len(text)
    /\ \A i \in 1 .. 64 * (h.bytes \div 64) + (h.bytes % 64) : (m \o text)[i] = m[i]
    /\ \A i \in 1 .. Len(text) :
          (m \o text)[64 * (h.bytes \div 64) + (h.bytes % 64) + i] = text[i]

LEMMA MessageGrows ==
    ASSUME NEW S, NEW m, NEW h, Represents(h, m, S), NEW text \in Seq(S)
    PROVE  Grows(h, m, text, S)
<1>1. h.bytes = Len(m) /\ m \in Seq(S)
  BY DEF Represents
<1>2. Len(m) \in Nat
  BY <1>1
<1>3. h.bytes % 64 \in 0 .. 63 /\ h.bytes \div 64 \in Nat
      /\ Len(m) = 64 * (h.bytes \div 64) + (h.bytes % 64)
  BY <1>1, <1>2, Blocks64
<1>4. /\ m \o text \in Seq(S) /\ Len(m \o text) = Len(m) + Len(text)
      /\ \A i \in 1 .. Len(m) : (m \o text)[i] = m[i]
      /\ \A i \in 1 .. Len(text) : (m \o text)[Len(m) + i] = text[i]
  BY <1>1, ConcatReads
<1>5. Len(text) \in Nat
  OBVIOUS
<1> QED
  BY <1>3, <1>4, <1>5, Zenon DEF Grows

\* write() appends what does not fill a buffer that holds something (dsha1.h:15-35).
LEMMA WriteAppends ==
    ASSUME NEW S, NEW m, NEW h, Represents(h, m, S), NEW text \in Seq(S),
           NEW data \in Seq(S), Len(text) <= Len(data),
           \A i \in 1 .. Len(text) : data[i] = text[i],
           h.bytes % 64 = 0 \/ (h.bytes % 64) + Len(text) < 64
    PROVE  Represents(Write(h, data, Len(text)), m \o text, S)
<1> DEFINE l      == Len(text)
           r      == h.bytes % 64
           q      == h.bytes \div 64
           M      == m \o text
           whole  == l \div 64
           rest   == l % 64
           full   == Copy(h.buf, r, From(data, 0, 0))
           kept   == From(data, 64 * whole, rest)
           blocks == [n \in 1 .. whole |-> From(data, 64 * (n - 1), 64)]
           w      == Write(h, data, l)
<1>1. /\ h.bytes \in Nat /\ h.bytes = Len(m) /\ Buffer(h.buf) /\ Object(h)
      /\ h.s \in Seq([1 .. 64 -> S]) /\ Len(h.s) = q
      /\ \A n \in 1 .. q : \A k \in 1 .. 64 : h.s[n][k] = m[64 * (n - 1) + k]
      /\ \A k \in 1 .. r : h.buf[k - 1] = m[64 * q + k]
  BY DEF Represents, Object
<1>2. /\ r \in 0 .. 63 /\ q \in Nat /\ l \in Nat
      /\ M \in Seq(S) /\ Len(M) = 64 * q + r + l
      /\ \A i \in 1 .. 64 * q + r : M[i] = m[i]
      /\ \A i \in 1 .. l : M[64 * q + r + i] = text[i]
  <2>1. Grows(h, m, text, S)
    BY MessageGrows
  <2> QED
    BY <2>1, Zenon DEF Grows
<1>3. r = 0 \/ r + l < 64
  OBVIOUS
<1>4. Fill(h, l) = 0
  BY <1>1, <1>2, <1>3, FillIs
<1>5. whole \in Nat /\ rest \in 0 .. 63 /\ l = 64 * whole + rest
  BY <1>2, Blocks64
<1>6. /\ w.s = h.s \o (<<>> \o blocks) /\ w.buf = Copy(full, r, kept)
      /\ w.bytes = h.bytes + l /\ Object(w)
  <2>1. w.s = h.s \o Transformed(h, data, l)
    BY DEF Write
  <2>2. Transformed(h, data, l) = <<>> \o [n \in 1 .. whole |-> From(data, 0 + 64 * (n - 1), 64)]
    BY <1>4 DEF Transformed
  <2>3. \A n \in 1 .. whole : 0 + 64 * (n - 1) = 64 * (n - 1)
    BY <1>5
  <2>4. [n \in 1 .. whole |-> From(data, 0 + 64 * (n - 1), 64)] = blocks
    <3> HIDE DEF whole
    <3> QED
      BY <2>3
  <2>5. w.buf = Copy(full, r, From(data, 0 + 64 * whole, rest))
    BY <1>4 DEF Write
  <2>6. 0 + 64 * whole = 64 * whole
    BY <1>5
  <2>7. Object(w) /\ w.bytes = h.bytes + Fill(h, l) + l
    <3>1. Object(h) /\ l \in Nat
      BY <1>1, <1>2
    <3> HIDE DEF l
    <3> QED
      BY <3>1, WriteInBounds
  <2>8. h.bytes + 0 + l = h.bytes + l
    BY <1>1, <1>2
  <2> HIDE DEF w, blocks, whole, rest, r, full
  <2>9. From(data, 0 + 64 * whole, rest) = kept
    BY <2>6
  <2>10. w.bytes = h.bytes + l
    BY <1>4, <2>7, <2>8
  <2> HIDE DEF l, kept
  <2> QED
    BY <2>1, <2>2, <2>4, <2>5, <2>7, <2>9, <2>10
<1>7. \A i \in 1 .. l : data[i] = text[i] /\ i \in 1 .. Len(data) /\ text[i] \in S
  <2>1. \A i \in 1 .. l : i \in 1 .. Len(data) /\ text[i] \in S
    BY <1>2
  <2> QED
    BY <2>1
<1> HIDE DEF l, r, q, M, w
<1>8. ASSUME NEW n \in 1 .. whole
      PROVE  /\ blocks[n] \in [1 .. 64 -> S]
             /\ \A k \in 1 .. 64 : blocks[n][k] = text[64 * (n - 1) + k]
  <2>1. blocks[n] = From(data, 64 * (n - 1), 64)
    OBVIOUS
  <2>2. 64 * (n - 1) \in Nat /\ 64 \in Nat
    BY <1>5
  <2>3. \A k \in 1 .. 64 : 64 * (n - 1) + k \in 1 .. l
    <3>1. n \in Nat /\ 1 <= n /\ n <= whole
      BY <1>5
    <3> HIDE DEF whole
    <3> QED
      BY <1>2, <1>5, <3>1
  <2> DEFINE o == 64 * (n - 1)
             f == From(data, o, 64)
  <2> HIDE DEF o, blocks, whole
  <2>4. /\ f \in Seq(Reading(data, o, 64)) /\ Len(f) = 64
        /\ \A k \in 1 .. 64 : o + k \in 1 .. Len(data) => f[k] = data[o + k]
    <3>1. o \in Nat /\ 64 \in Nat
      BY <2>2 DEF o
    <3> QED
      BY <3>1, FromReads DEF IsReading
  <2> HIDE DEF f
  <2>5. \A k \in 1 .. 64 : f[k] = text[o + k] /\ f[k] \in S
    <3>1. \A k \in 1 .. 64 : o + k \in 1 .. l
      BY <2>3 DEF o
    <3>2. \A k \in 1 .. 64 : o + k \in 1 .. Len(data) /\ data[o + k] = text[o + k] /\ text[o + k] \in S
      BY <1>7, <3>1
    <3> QED
      BY <2>4, <3>2
  <2>6. f \in [1 .. 64 -> S]
    <3>1. \A T : \A c \in Seq(T) : DOMAIN c = 1 .. Len(c) /\ c = [i \in 1 .. Len(c) |-> c[i]]
      OBVIOUS
    <3>2. f = [i \in 1 .. 64 |-> f[i]]
      BY <2>4, <3>1
    <3> QED
      BY <2>5, <3>2
  <2> QED
    BY <2>1, <2>5, <2>6 DEF f, o
<1>9. blocks \in Seq([1 .. 64 -> S]) /\ Len(blocks) = whole
  <2> DEFINE T    == [1 .. 64 -> S]
             g(n) == From(data, 64 * (n - 1), 64)
  <2>1. \A n \in 1 .. whole : g(n) \in T
    BY <1>8
  <2> HIDE DEF g, T, whole
  <2>2. [n \in 1 .. whole |-> g(n)] \in Seq(T) /\ Len([n \in 1 .. whole |-> g(n)]) = whole
    BY <1>5, <2>1
  <2> QED
    BY <2>2 DEF g, T
<1> HIDE DEF blocks
<1>10. Buffer(full) /\ \A i \in 0 .. 63 : full[i] = h.buf[i]
  <2> DEFINE none == From(data, 0, 0)
  <2>1. 0 \in Nat
    OBVIOUS
  <2>2. none \in Seq(Reading(data, 0, 0)) /\ Len(none) = 0
    BY <2>1, FromReads DEF IsReading
  <2> HIDE DEF none
  <2>3. r + Len(none) <= 64
    BY <1>2, <2>2
  <2>4. Buffer(Copy(h.buf, r, none))
    BY <1>1, <1>2, <2>2, <2>3, CopyInBounds
  <2>5. ASSUME NEW i \in 0 .. 63 PROVE Copy(h.buf, r, none)[i] = h.buf[i]
    <3>1. ~(r <= i /\ i < r + Len(none))
      BY <1>2, <2>2
    <3>2. Copy(h.buf, r, none)[i] = CopyAt(h.buf, r, none, i)
      <4> DEFINE b == h.buf
      <4>1. Buffer(b) /\ r \in 0 .. 63 /\ none \in Seq(Reading(data, 0, 0)) /\ r + Len(none) <= 64
        BY <1>1, <1>2, <2>2, <2>3
      <4> HIDE DEF b
      <4>2. IsCopied(b, r, none)
        BY <4>1, CopyReads
      <4> QED
        BY <4>2 DEF b, IsCopied
    <3> QED
      BY <3>1, <3>2 DEF CopyAt
  <2> QED
    BY <2>4, <2>5 DEF none
<1> HIDE DEF full
<1>12. kept \in Seq(Reading(data, 64 * whole, rest)) /\ Len(kept) = rest /\ \A k \in 1 .. rest : kept[k] = text[64 * whole + k]
  <2> HIDE DEF whole, rest
  <2>1. 64 * whole \in Nat /\ rest \in Nat /\ \A k \in 1 .. rest : 64 * whole + k \in 1 .. l
    BY <1>2, <1>5
  <2>2. /\ kept \in Seq(Reading(data, 64 * whole, rest)) /\ Len(kept) = rest
        /\ \A k \in 1 .. rest : 64 * whole + k \in 1 .. Len(data) => kept[k] = data[64 * whole + k]
    <3>1. IsReading(kept, data, 64 * whole, rest)
      BY <2>1, FromReads
    <3> QED
      BY <3>1 DEF IsReading
  <2> HIDE DEF kept
  <2> QED
    BY <1>7, <2>1, <2>2
<1> HIDE DEF kept, whole, rest
<1>13. Len(M) = 64 * (q + whole) + (r + rest) /\ r + rest \in 0 .. 63 /\ (r = 0 \/ whole = 0)
  BY <1>2, <1>3, <1>5
<1>14. Len(M) \div 64 = q + whole /\ Len(M) % 64 = r + rest
  <2> DEFINE a == q + whole
             b == r + rest
  <2>1. a \in Nat /\ b \in 0 .. 63 /\ Len(M) = 64 * a + b
    BY <1>2, <1>5, <1>13
  <2> HIDE DEF a, b
  <2>2. Len(M) \div 64 = a /\ Len(M) % 64 = b
    BY <2>1, Blocks64Are
  <2> QED
    BY <2>2 DEF a, b
\* The blocks.
<1>15. /\ w.s \in Seq([1 .. 64 -> S]) /\ Len(w.s) = q + whole
       /\ \A n \in 1 .. q : w.s[n] = h.s[n]
       /\ \A n \in 1 .. whole : w.s[q + n] = blocks[n]
  <2> DEFINE T == [1 .. 64 -> S]
  <2>1. h.s \in Seq(T) /\ blocks \in Seq(T)
    BY <1>1, <1>9
  <2> HIDE DEF T
  <2>2. <<>> \o blocks = blocks
    BY <2>1
  <2>3. /\ h.s \o blocks \in Seq(T) /\ Len(h.s \o blocks) = Len(h.s) + Len(blocks)
        /\ \A n \in 1 .. Len(h.s) : (h.s \o blocks)[n] = h.s[n]
        /\ \A n \in 1 .. Len(blocks) : (h.s \o blocks)[Len(h.s) + n] = blocks[n]
    BY <2>1, ConcatReads
  <2> QED
    BY <1>1, <1>6, <1>9, <2>2, <2>3 DEF T
<1>16. ASSUME NEW n \in 1 .. q + whole, NEW k \in 1 .. 64
       PROVE  w.s[n][k] = M[64 * (n - 1) + k]
  <2>1. CASE n <= q
    <3>0. q \in Nat /\ r \in 0 .. 63 /\ n \in 1 .. q
      BY <1>2, <1>5, <2>1
    <3>1. n \in 1 .. q /\ 64 * (n - 1) + k \in 1 .. 64 * q + r
      BY <3>0
    <3>2. h.s[n][k] = m[64 * (n - 1) + k]
      BY <1>1, <3>1
    <3> QED
      BY <1>2, <1>15, <3>1, <3>2
  <2>2. CASE n > q
    <3> DEFINE j == n - q
    <3>1. /\ j \in 1 .. whole /\ q + j = n /\ r = 0
          /\ 64 * (j - 1) + k \in 1 .. l
          /\ 64 * q + r + (64 * (j - 1) + k) = 64 * (n - 1) + k
      BY <1>2, <1>5, <1>13, <2>2
    <3> HIDE DEF j
    <3>2. w.s[n] = blocks[j]
      BY <1>15, <3>1
    <3>3. blocks[j][k] = text[64 * (j - 1) + k]
      BY <1>8, <3>1
    <3>4. M[64 * q + r + (64 * (j - 1) + k)] = text[64 * (j - 1) + k]
      BY <1>2, <3>1
    <3> QED
      BY <3>1, <3>2, <3>3, <3>4
  <2> QED
    BY <1>2, <1>5, <2>1, <2>2
\* The buffer.
<1>17. ASSUME NEW k \in 1 .. r + rest
       PROVE  w.buf[k - 1] = M[64 * (q + whole) + k]
  <2>1. k - 1 \in 0 .. 63 /\ r + Len(kept) <= 64
    BY <1>2, <1>5, <1>12, <1>13
  <2>2. w.buf[k - 1] = IF r <= k - 1 /\ k - 1 < r + Len(kept) THEN kept[k - 1 - r + 1] ELSE full[k - 1]
    <3>1. Copy(full, r, kept)[k - 1] = CopyAt(full, r, kept, k - 1)
      <4>1. /\ r \in 0 .. 63 /\ Buffer(full) /\ kept \in Seq(Reading(data, 64 * whole, rest))
            /\ k - 1 \in 0 .. 63 /\ r + Len(kept) <= 64
        BY <1>2, <1>10, <1>12, <2>1
      <4>2. IsCopied(full, r, kept)
        BY <4>1, CopyReads
      <4> QED
        BY <4>1, <4>2 DEF IsCopied
    <3> QED
      BY <1>6, <3>1 DEF CopyAt
  <2>3. CASE k > r
    <3> DEFINE j == k - r
    <3>1. /\ j \in 1 .. rest /\ k - 1 - r + 1 = j /\ r <= k - 1 /\ k - 1 < r + Len(kept)
          /\ 64 * whole + j \in 1 .. l
          /\ 64 * q + r + (64 * whole + j) = 64 * (q + whole) + k
      BY <1>2, <1>5, <1>12, <2>3
    <3> HIDE DEF j
    <3>2. w.buf[k - 1] = kept[j]
      BY <2>2, <3>1
    <3>3. kept[j] = text[64 * whole + j]
      BY <1>12, <3>1
    <3>4. M[64 * q + r + (64 * whole + j)] = text[64 * whole + j]
      BY <1>2, <3>1
    <3> QED
      BY <3>1, <3>2, <3>3, <3>4
  <2>4. CASE k <= r
    <3>1. /\ whole = 0 /\ ~(r <= k - 1) /\ k \in 1 .. r
          /\ 64 * (q + whole) + k = 64 * q + k /\ 64 * q + k \in 1 .. 64 * q + r
      BY <1>2, <1>5, <1>13, <2>4
    <3>2. w.buf[k - 1] = h.buf[k - 1]
      BY <1>10, <2>1, <2>2, <3>1
    <3>3. h.buf[k - 1] = m[64 * q + k] /\ M[64 * q + k] = m[64 * q + k]
      BY <1>1, <1>2, <3>1
    <3> QED
      BY <3>1, <3>2, <3>3
  <2> QED
    BY <1>2, <1>5, <2>3, <2>4
<1>18. w.bytes = Len(M)
  <2>1. h.bytes = 64 * q + r
    BY <1>1, Blocks64 DEF q, r
  <2> QED
    BY <1>2, <1>6, <2>1
<1>19. Represents(w, M, S)
  <2>1. Len(w.s) = Len(M) \div 64
    BY <1>14, <1>15
  <2>2. \A n \in 1 .. Len(w.s) : \A k \in 1 .. 64 : w.s[n][k] = M[64 * (n - 1) + k]
    BY <1>15, <1>16
  <2>3. \A k \in 1 .. Len(M) % 64 : w.buf[k - 1] = M[64 * (Len(M) \div 64) + k]
    BY <1>14, <1>17
  <2> QED
    BY <1>2, <1>6, <1>15, <1>18, <2>1, <2>2, <2>3 DEF Represents
<1> QED
  BY <1>19 DEF w, M, l

\* The transformed blocks s are the message m, and all of it.
IsDigestOf(s, m) ==
    /\ 64 * Len(s) = Len(m)
    /\ \A n \in 1 .. Len(s) : \A k \in 1 .. 64 : s[n][k] = m[64 * (n - 1) + k]

\* A write that just fills the buffer completes the blocks (dsha1.h:17-23).
LEMMA WriteCompletes ==
    ASSUME NEW S, NEW m, NEW h, Represents(h, m, S), NEW text \in Seq(S),
           Len(text) < 64, (h.bytes % 64) + Len(text) = 64
    PROVE  IsDigestOf(Write(h, text, Len(text)).s, m \o text)
<1> DEFINE l      == Len(text)
           r      == h.bytes % 64
           q      == h.bytes \div 64
           M      == m \o text
           head   == From(text, 0, l)
           full   == Copy(h.buf, r, head)
           filled == <<Contents(full)>>
           s      == Write(h, text, l).s
<1>1. /\ h.bytes \in Nat /\ Buffer(h.buf)
      /\ h.s \in Seq([1 .. 64 -> S]) /\ Len(h.s) = q
      /\ \A n \in 1 .. q : \A k \in 1 .. 64 : h.s[n][k] = m[64 * (n - 1) + k]
      /\ \A k \in 1 .. r : h.buf[k - 1] = m[64 * q + k]
  BY DEF Represents, Object
<1>2. /\ r \in 0 .. 63 /\ q \in Nat /\ l \in Nat
      /\ M \in Seq(S) /\ Len(M) = 64 * q + r + l
      /\ \A i \in 1 .. 64 * q + r : M[i] = m[i]
      /\ \A i \in 1 .. l : M[64 * q + r + i] = text[i]
  <2>1. Grows(h, m, text, S)
    BY MessageGrows
  <2> QED
    BY <2>1, Zenon DEF Grows
<1>3. r + l = 64 /\ l < 64
  OBVIOUS
<1>4. Fill(h, l) = l /\ l # 0
  <2>1. h.bytes \in Nat /\ l \in Nat
    BY <1>1, <1>2
  <2> HIDE DEF l
  <2>2. Fill(h, l) = l
    BY <1>3, <2>1, FillIs
  <2> HIDE DEF r
  <2>3. l # 0
    BY <1>2, <1>3
  <2> QED
    BY <2>2, <2>3
<1>5. s = h.s \o filled
  <2>1. s = h.s \o Transformed(h, text, l)
    BY DEF Write
  <2>2. Transformed(h, text, l) = filled \o [n \in 1 .. l \div 64 |-> From(text, l + 64 * (n - 1), 64)]
    BY <1>4 DEF Transformed
  <2>3. l \div 64 = 0
    <3>1. \A x \in 0 .. 63 : x \div 64 = 0
      OBVIOUS
    <3> HIDE DEF l, r
    <3>2. l \in 0 .. 63
      BY <1>2, <1>3
    <3> QED
      BY <3>1, <3>2
  <2> HIDE DEF s, filled, l
  <2>4. [n \in 1 .. l \div 64 |-> From(text, l + 64 * (n - 1), 64)] = <<>>
    BY <2>3
  <2>5. filled \o <<>> = filled
    BY DEF filled
  <2> QED
    BY <2>1, <2>2, <2>4, <2>5
<1> HIDE DEF l, r, q, M, s
<1>6. head \in Seq(Reading(text, 0, l)) /\ Len(head) = l /\ \A k \in 1 .. l : head[k] = text[k]
  <2>1. 0 \in Nat /\ \A k \in 1 .. l : 0 + k = k /\ k \in 1 .. Len(text)
    BY <1>2 DEF l
  <2>2. /\ head \in Seq(Reading(text, 0, l)) /\ Len(head) = l
        /\ \A k \in 1 .. l : 0 + k \in 1 .. Len(text) => head[k] = text[0 + k]
    <3>1. 0 \in Nat /\ l \in Nat
      BY <1>2
    <3>2. IsReading(head, text, 0, l)
      BY <3>1, FromReads
    <3> QED
      BY <3>2 DEF IsReading
  <2> QED
    BY <2>1, <2>2
<1> HIDE DEF head
<1>7. ASSUME NEW k \in 1 .. 64 PROVE Contents(full)[k] = M[64 * q + k]
  <2>1. Contents(full)[k] = full[k - 1] /\ k - 1 \in 0 .. 63
    BY DEF Contents
  <2>2. full[k - 1] = IF r <= k - 1 /\ k - 1 < r + Len(head) THEN head[k - 1 - r + 1] ELSE h.buf[k - 1]
    <3>1. /\ r \in 0 .. 63 /\ r + Len(head) <= 64 /\ Buffer(h.buf)
          /\ head \in Seq(Reading(text, 0, l)) /\ k - 1 \in 0 .. 63
      BY <1>1, <1>2, <1>3, <1>6, <2>1
    <3>2. full[k - 1] = CopyAt(h.buf, r, head, k - 1)
      <4> DEFINE b == h.buf
                 D == Reading(text, 0, l)
      <4>1. Buffer(b)
        BY <3>1
      <4> HIDE DEF b
      <4>2. r \in 0 .. 63 /\ head \in Seq(D) /\ r + Len(head) <= 64
        BY <3>1
      <4> HIDE DEF D
      <4>3. IsCopied(b, r, head)
        BY <4>1, <4>2, CopyReads
      <4> QED
        BY <3>1, <4>3 DEF b, IsCopied
    <3> QED
      BY <3>2 DEF CopyAt
  <2> HIDE DEF full
  <2>3. CASE k <= r
    <3>1. ~(r <= k - 1) /\ k \in 1 .. r /\ 64 * q + k \in 1 .. 64 * q + r
      BY <1>2, <2>3
    <3>2. h.buf[k - 1] = m[64 * q + k] /\ M[64 * q + k] = m[64 * q + k]
      BY <1>1, <1>2, <3>1
    <3> QED
      BY <2>1, <2>2, <3>1, <3>2
  <2>4. CASE k > r
    <3> DEFINE j == k - r
    <3>1. /\ j \in 1 .. l /\ k - 1 - r + 1 = j /\ r <= k - 1 /\ k - 1 < r + Len(head)
          /\ 64 * q + r + j = 64 * q + k
      BY <1>2, <1>3, <1>6, <2>4
    <3> HIDE DEF j
    <3>2. head[j] = text[j] /\ M[64 * q + r + j] = text[j]
      BY <1>2, <1>6, <3>1
    <3> QED
      BY <2>1, <2>2, <3>1, <3>2
  <2> QED
    BY <1>2, <2>3, <2>4
<1>8. Len(s) = q + 1 /\ (\A n \in 1 .. q : s[n] = h.s[n]) /\ s[q + 1] = Contents(full)
  <2> DEFINE T == [1 .. 64 -> S] \cup {Contents(full)}
             c == Contents(full)
  <2>1. h.s \in Seq(T) /\ c \in T
    <3>1. \A U, V : \A x \in Seq(U) : U \subseteq V => x \in Seq(V)
      OBVIOUS
    <3>2. [1 .. 64 -> S] \subseteq T /\ c \in T
      OBVIOUS
    <3> HIDE DEF T
    <3> QED
      BY <1>1, <3>1, <3>2
  <2> HIDE DEF T, c
  <2>2. /\ Len(h.s \o <<c>>) = Len(h.s) + 1
        /\ \A n \in 1 .. Len(h.s) : (h.s \o <<c>>)[n] = h.s[n]
        /\ (h.s \o <<c>>)[Len(h.s) + 1] = c
    BY <2>1
  <2> QED
    BY <1>1, <1>5, <2>2 DEF c
<1> HIDE DEF full, filled
<1>9. ASSUME NEW n \in 1 .. q + 1, NEW k \in 1 .. 64
      PROVE  s[n][k] = M[64 * (n - 1) + k]
  <2>1. CASE n <= q
    <3>1. n \in 1 .. q /\ 64 * (n - 1) + k \in 1 .. 64 * q + r
      BY <1>2, <2>1
    <3>2. h.s[n][k] = m[64 * (n - 1) + k]
      BY <1>1, <3>1
    <3> QED
      BY <1>2, <1>8, <3>1, <3>2
  <2>2. CASE n > q
    <3>1. n = q + 1 /\ 64 * (n - 1) + k = 64 * q + k
      BY <1>2, <2>2
    <3> QED
      BY <1>7, <1>8, <3>1
  <2> QED
    BY <1>2, <2>1, <2>2
<1>10. 64 * Len(s) = Len(M)
  BY <1>2, <1>3, <1>8
<1>11. IsDigestOf(s, M)
  BY <1>8, <1>9, <1>10 DEF IsDigestOf
<1> QED
  BY <1>11 DEF s, M, l

-----------------------------------------------------------------------------
(* A digest *)

Byte ==
    {<<o, k>> : o \in {"hash", "nonce"}, k \in Nat} \cup {<<"pad", v>> : v \in {0, 128}}
        \cup {<<"size", n, k>> : n \in Nat, k \in 1 .. 8}

LEMMA PaddingIsBytes ==
    ASSUME NEW n \in Nat
    PROVE  /\ Pad(PadLen(n)) \in Seq(Byte) /\ Len(Pad(PadLen(n))) = PadLen(n)
           /\ SizeDesc(n) \in Seq(Byte) /\ Len(SizeDesc(n)) = 8
<1>1. PadLen(n) \in Nat
  <2>1. PadLen(n) \in 1 .. 64
    BY PaddingCompletes, Zenon
  <2>2. \A l \in 1 .. 64 : l \in Nat
    OBVIOUS
  <2> QED
    BY <2>1, <2>2, Zenon
<1>2. \A k : <<"pad", IF k = 1 THEN 128 ELSE 0>> \in Byte
  BY DEF Byte
<1>3. \A l \in Nat : Pad(l) \in Seq(Byte) /\ Len(Pad(l)) = l
  BY <1>2 DEF Pad
<1>4. \A l \in Nat : SizeDesc(l) \in Seq(Byte) /\ Len(SizeDesc(l)) = 8
  <2> SUFFICES ASSUME NEW l \in Nat PROVE SizeDesc(l) \in Seq(Byte) /\ Len(SizeDesc(l)) = 8
    OBVIOUS
  <2>1. \A k \in 1 .. 8 : <<"size", 8 * l, k>> \in Byte
    BY DEF Byte
  <2> QED
    BY <2>1 DEF SizeDesc
<1> QED
  BY <1>1, <1>3, <1>4

\* The padding of FIPS 180 is the one finalize() writes: no other number of zeros below a
\* block's brings the message to 56 bytes modulo 64 (dsha1.h:37-48).
LEMMA PaddedIs ==
    ASSUME NEW m, Len(m) \in Nat
    PROVE  Padded(m) = m \o Pad(PadLen(Len(m))) \o SizeDesc(Len(m))
<1> DEFINE n     == Len(m)
           zeros == CHOOSE k \in 0 .. 63 : (Len(m) + 1 + k) % 64 = 56
           pad   == PadLen(n)
<1>1. n \in Nat /\ pad \in 1 .. 64 /\ (n + pad + 8) % 64 = 0
  BY PaddingCompletes
<1> HIDE DEF n, pad
<1>2. ASSUME NEW k \in 0 .. 63
      PROVE  (n + 1 + k) % 64 = 56 <=> k = pad - 1
  <2> DEFINE p == pad - 1
             x == n + 1 + k
             y == n + pad + 8
  <2>1. p \in 0 .. 63 /\ y = x + 8 + (p - k) /\ x \in Nat /\ y \in Nat
    BY <1>1
  <2>2. y % 64 = 0
    BY <1>1
  <2>3. x % 64 \in 0 .. 63 /\ x \div 64 \in Nat /\ x = 64 * (x \div 64) + (x % 64)
    BY <2>1, Blocks64
  <2>4. y \div 64 \in Nat /\ y = 64 * (y \div 64) + 0
    BY <2>1, <2>2, Blocks64
  <2> HIDE DEF p, x, y
  <2>5. x % 64 = 56 <=> k = p
    BY <2>1, <2>3, <2>4
  <2> QED
    BY <2>5 DEF p, x
<1>3. zeros = pad - 1
  <2>1. \E k \in 0 .. 63 : (Len(m) + 1 + k) % 64 = 56
    <3>1. pad - 1 \in 0 .. 63
      BY <1>1
    <3> QED
      BY <1>2, <3>1 DEF n
  <2>2. zeros \in 0 .. 63 /\ (Len(m) + 1 + zeros) % 64 = 56
    BY <2>1
  <2> HIDE DEF zeros
  <2> QED
    BY <1>2, <2>2 DEF n
<1>4. Padded(m) = m \o Pad(1 + zeros) \o SizeDesc(n)
  BY DEF Padded, n
<1> HIDE DEF zeros
<1>5. 1 + zeros = pad
  BY <1>1, <1>3
<1> QED
  BY <1>4, <1>5 DEF n, pad

\* finalize() hashes the message padded, when the padding and the length end the block
\* (dsha1.h:37-48).
LEMMA FinalizeDigests ==
    ASSUME NEW m, NEW h, Represents(h, m, Byte), Len(m) % 64 <= 55
    PROVE  IsDigestOf(Finalize(h).s, Padded(m))
<1> DEFINE n      == Len(m)
           l      == PadLen(n)
           text   == Pad(l)
           size   == SizeDesc(n)
           padded == Write(h, Pad(64), l)
<1>1. n \in Nat /\ h.bytes = n
  BY DEF Represents
<1>2. n % 64 \in 0 .. 63 /\ n \div 64 \in Nat /\ n = 64 * (n \div 64) + (n % 64)
  BY <1>1, Blocks64
<1>3. l \in 1 .. 64 /\ (n % 64) + l = 56
  <2> DEFINE r == n % 64
  <2>1. PadLen(n) = 1 + ((119 - r) % 64)
    BY DEF PadLen
  <2>2. r \in 0 .. 55
    <3>1. r \in 0 .. 63 /\ r <= 55
      BY <1>2
    <3> HIDE DEF r
    <3> QED
      BY <3>1
  <2> HIDE DEF r, n
  <2>3. PadLen(n) = 56 - r
    BY <2>1, <2>2
  <2>4. PadLen(n) \in 1 .. 64 /\ r + PadLen(n) = 56
    BY <2>2, <2>3
  <2> QED
    BY <2>4 DEF r
<1>4. text \in Seq(Byte) /\ Len(text) = l /\ size \in Seq(Byte) /\ Len(size) = 8
  BY <1>1, PaddingIsBytes
<1>5. Pad(64) \in Seq(Byte) /\ Len(Pad(64)) = 64
  <2>1. \A k : <<"pad", IF k = 1 THEN 128 ELSE 0>> \in Byte
    BY DEF Byte
  <2>2. \A x \in Nat : Pad(x) \in Seq(Byte) /\ Len(Pad(x)) = x
    BY <2>1 DEF Pad
  <2>3. 64 \in Nat
    OBVIOUS
  <2> QED
    BY <2>2, <2>3, Zenon
<1>6. \A i \in 1 .. l : Pad(64)[i] = text[i]
  <2> HIDE DEF l
  <2> SUFFICES ASSUME NEW i \in 1 .. l PROVE Pad(64)[i] = Pad(l)[i]
    BY DEF text
  <2>1. i \in 1 .. 64
    BY <1>3
  <2>2. ASSUME NEW n1, NEW n2, i \in 1 .. n1, i \in 1 .. n2 PROVE Pad(n1)[i] = Pad(n2)[i]
    BY <2>2, Zenon DEF Pad
  <2> QED
    BY <2>1, <2>2, Zenon
<1> HIDE DEF l, text, size, padded, n
<1>7. Represents(padded, m \o text, Byte)
  <2>1. h.bytes % 64 = 0 \/ (h.bytes % 64) + Len(text) < 64
    BY <1>1, <1>2, <1>3, <1>4
  <2> DEFINE data == Pad(64)
  <2>2. data \in Seq(Byte) /\ Len(data) = 64 /\ \A i \in 1 .. l : data[i] = text[i]
    BY <1>5, <1>6
  <2> HIDE DEF data
  <2>3. Len(text) <= Len(data) /\ \A i \in 1 .. Len(text) : data[i] = text[i]
    BY <1>3, <1>4, <2>2
  <2>4. Represents(Write(h, data, Len(text)), m \o text, Byte)
    BY <1>4, <2>1, <2>2, <2>3, WriteAppends
  <2> QED
    BY <1>4, <2>4 DEF data, padded
<1>8. (padded.bytes % 64) + Len(size) = 64 /\ Len(size) < 64
  <2>1. padded.bytes = Len(m \o text) /\ m \in Seq(Byte)
    BY <1>7 DEF Represents
  <2>2. Len(m \o text) = n + l
    BY <1>4, <2>1, ConcatReads DEF n
  <2> DEFINE q == n \div 64
             r == n % 64
  <2>a. /\ q \in Nat /\ r \in 0 .. 63 /\ n = 64 * q + r
        /\ l \in 1 .. 64 /\ r + l = 56
    BY <1>2, <1>3
  <2> HIDE DEF q, r
  <2>3. q \in Nat /\ n + l = 64 * q + 56
    BY <2>a
  <2>4. (n + l) % 64 = 56
    <3>1. 56 \in 0 .. 63
      OBVIOUS
    <3>2. (64 * q + 56) % 64 = 56
      BY <2>3, <3>1, Blocks64Are
    <3> QED
      BY <2>3, <3>2
  <2> QED
    BY <1>4, <2>1, <2>2, <2>4
<1>9. IsDigestOf(Write(padded, size, Len(size)).s, (m \o text) \o size)
  BY <1>4, <1>7, <1>8, WriteCompletes
<1>10. Finalize(h) = Write(padded, size, 8)
  BY <1>1 DEF Finalize, padded, size, l
<1>11. Padded(m) = (m \o text) \o size
  BY <1>1, PaddedIs DEF n, text, size, l
<1> QED
  BY <1>4, <1>9, <1>10, <1>11

-----------------------------------------------------------------------------
(* The use made of it *)

\* From the first job on the object holds the last block hash, and nothing of what was
\* there before; a digest is of the hash it holds and of the nonce; no buffer is left.
HashInv ==
    /\ Object(dsha1) /\ Object(ctx)
    /\ stage = "job" => hash_len \in Nat /\ Represents(dsha1, Bytes("hash", hash_len), Byte)
    /\ DigestIsOfMessage

THEOREM HashInvariant == DSHA1Spec => []HashInv
<1>1. DSHA1Init => HashInv
  <2> SUFFICES ASSUME DSHA1Init PROVE HashInv
    OBVIOUS
  <2>1. PICK n \in Garbage : dsha1 = [bytes |-> n, s |-> <<>>, buf |-> [k \in 0 .. 63 |-> <<"junk", k>>]]
    BY DEF DSHA1Init
  <2>2. n \in Nat
    BY LensAreNatural
  <2>3. Object(dsha1)
    BY <2>1, <2>2 DEF Object, Buffer
  <2>4. stage = "new" /\ message = <<>> /\ ctx = dsha1
    BY DEF DSHA1Init
  <2> QED
    BY <2>3, <2>4 DEF HashInv, DigestIsOfMessage
<1>2. HashInv /\ [DSHA1Next]_dsha1Vars => HashInv'
  <2> SUFFICES ASSUME HashInv, [DSHA1Next]_dsha1Vars PROVE HashInv'
    OBVIOUS
  <2>1. CASE Warmup
    <3>1. Object(Write(dsha1, Bytes("warm", 15), 20))
      <4>1. Bytes("warm", 15) \in Seq({<<"warm", k>> : k \in 1 .. 15})
        BY BytesAre
      <4>2. Object(dsha1) /\ 20 \in Nat
        BY DEF HashInv
      <4> QED
        BY <4>1, <4>2, WriteInBounds
    <3>2. Object(Finalize(Write(dsha1, Bytes("warm", 15), 20)))
      BY <3>1, FinalizeInBounds
    <3>3. DigestIsOfMessage'
      BY <2>1 DEF Warmup, HashInv, DigestIsOfMessage, FitsTheBlock, hashArray
    <3> QED
      BY <2>1, <3>2, <3>3 DEF Warmup, HashInv
  <2>2. ASSUME NEW n \in HashLens, BeginJob(n) PROVE HashInv'
    <3> DEFINE h == Reset(dsha1)
               m == Bytes("hash", n)
    <3>1. n \in Nat
      BY LensAreNatural
    <3>2. Represents(h, <<>>, Byte) /\ h.bytes % 64 = 0
      <4>1. h = [bytes |-> 0, s |-> <<>>, buf |-> dsha1.buf] /\ Buffer(dsha1.buf)
        BY DEF Reset, HashInv, Object
      <4> HIDE DEF h
      <4>2. Object(h)
        BY <4>1 DEF Object
      <4>3. h.bytes = 0 /\ h.s = <<>> /\ Len(<<>>) = 0 /\ 0 \div 64 = 0 /\ 0 % 64 = 0
        BY <4>1
      <4>4. \A T : <<>> \in Seq(T)
        OBVIOUS
      <4> QED
        BY <4>2, <4>3, <4>4 DEF Represents
    <3>3. m \in Seq(Byte) /\ Len(m) = n
      <4>1. \A k \in 1 .. n : <<"hash", k>> \in Byte
        BY DEF Byte
      <4> QED
        BY <3>1, <4>1 DEF Bytes
    <3>4. <<>> \o m = m
      BY <3>3
    <3> HIDE DEF h, m
    <3>5. Represents(Write(h, m, n), m, Byte)
      <4>1. Len(m) <= Len(m) /\ \A i \in 1 .. Len(m) : m[i] = m[i]
        BY <3>1, <3>3
      <4>2. Represents(Write(h, m, Len(m)), <<>> \o m, Byte)
        BY <3>2, <3>3, <4>1, WriteAppends
      <4> QED
        BY <3>3, <3>4, <4>2
    <3>6. dsha1' = Write(h, m, n) /\ hash_len' = n /\ message' = <<>> /\ ctx' = ctx
      BY <2>2 DEF BeginJob, h, m
    <3>7. DigestIsOfMessage'
      BY <3>6 DEF DigestIsOfMessage
    <3>8. Object(Write(h, m, n))
      BY <3>5 DEF Represents
    <3> QED
      BY <3>1, <3>5, <3>6, <3>7, <3>8 DEF HashInv, m
  <2>3. ASSUME NEW n \in NonceLens, HashNonce(n) PROVE HashInv'
    <3> DEFINE h     == Bytes("hash", hash_len)
               d     == Bytes("nonce", n)
               fed   == Write(dsha1, d, n)
               last  == Finalize(fed)
    <3>1. /\ n \in Nat /\ n > 0 /\ hash_len \in Nat /\ Represents(dsha1, h, Byte)
          /\ Object(dsha1) /\ stage = "job"
      BY <2>3, LensAreNatural DEF HashNonce, HashInv
    <3>2. d \in Seq(Byte) /\ Len(d) = n
      <4>1. \A k \in 1 .. n : <<"nonce", k>> \in Byte
        BY DEF Byte
      <4> QED
        BY <3>1, <4>1 DEF Bytes
    <3>3. /\ ctx' = last /\ message' = h \o d
          /\ UNCHANGED <<stage, dsha1, hash_len>>
      BY <2>3 DEF HashNonce
    <3>4. Len(h) = hash_len /\ h \in Seq(Byte)
      BY <3>1, BytesAre DEF Represents
    <3> HIDE DEF h, d
    <3>5. Object(last)
      <4>1. Object(fed)
        BY <3>1, <3>2, WriteInBounds
      <4> HIDE DEF fed
      <4> QED
        BY <4>1, FinalizeInBounds
    <3>6. Len(h \o d) = hash_len + n
      BY <3>2, <3>4, ConcatReads
    <3>7. ASSUME (hash_len % 64) + n <= 55
          PROVE  IsDigestOf(last.s, Padded(h \o d))
      <4>1. dsha1.bytes = hash_len
        BY <3>1, <3>4 DEF Represents
      <4>2. (dsha1.bytes % 64) + Len(d) < 64
        <5> DEFINE r == hash_len % 64
        <5>1. r \in 0 .. 63 /\ r + n <= 55
          BY <3>1, <3>7, Blocks64
        <5> HIDE DEF r
        <5>2. r + n < 64
          BY <3>1, <5>1
        <5> QED
          BY <3>2, <4>1, <5>2 DEF r
      <4>3. Len(d) <= Len(d) /\ \A i \in 1 .. Len(d) : d[i] = d[i]
        BY <3>1, <3>2
      <4>4. Represents(Write(dsha1, d, Len(d)), h \o d, Byte)
        BY <3>1, <3>2, <4>2, <4>3, WriteAppends
      <4>5. Represents(fed, h \o d, Byte)
        BY <3>2, <4>4
      <4> HIDE DEF fed
      <4>6. Len(h \o d) % 64 <= 55
        <5> DEFINE r == hash_len % 64
                   q == hash_len \div 64
        <5>1. r \in 0 .. 63 /\ q \in Nat /\ hash_len = 64 * q + r /\ r + n <= 55
          BY <3>1, <3>7, Blocks64
        <5> HIDE DEF r, q
        <5>2. r + n \in 0 .. 63 /\ hash_len + n = 64 * q + (r + n)
          BY <3>1, <5>1
        <5>3. (64 * q + (r + n)) % 64 = r + n
          BY <5>1, <5>2, Blocks64Are
        <5> QED
          BY <3>6, <5>1, <5>2, <5>3
      <4> QED
        BY <4>5, <4>6, FinalizeDigests
    <3> HIDE DEF last
    <3>8. DigestIsOfMessage'
      <4> SUFFICES ASSUME message' # <<>>, FitsTheBlock' PROVE IsDigestOf(hashArray', Padded(message'))
        BY DEF DigestIsOfMessage, IsDigestOf
      <4>1. (hash_len % 64) + n <= 55
        <5>1. (hash_len % 64) + (Len(h \o d) - hash_len) <= 55
          BY <3>3 DEF FitsTheBlock
        <5>2. Len(h \o d) - hash_len = n
          BY <3>1, <3>6
        <5> QED
          BY <5>1, <5>2
      <4>2. IsDigestOf(last.s, Padded(h \o d))
        BY <3>7, <4>1
      <4>3. hashArray' = last.s /\ message' = h \o d
        BY <3>3 DEF hashArray
      <4> QED
        BY <4>2, <4>3
    <3>9. Represents(dsha1', Bytes("hash", hash_len'), Byte) /\ hash_len' \in Nat /\ Object(dsha1')
      BY <3>1, <3>3 DEF h
    <3> QED
      BY <3>3, <3>5, <3>8, <3>9 DEF HashInv
  <2>4. CASE UNCHANGED dsha1Vars
    BY <2>4 DEF dsha1Vars, HashInv, DigestIsOfMessage, FitsTheBlock, hashArray
  <2> QED
    BY <2>1, <2>2, <2>3, <2>4 DEF DSHA1Next
<1> QED
  BY <1>1, <1>2, PTL DEF DSHA1Spec

\* A digest is that of the job's hash and the nonce, padded as FIPS 180 says: of every hash
\* whose last block takes the nonce, the 0x80 and the length, after any number of jobs,
\* and whatever the byte count of the new object was (dsha1.h:13-61; mining.cpp:43-52).
THEOREM DigestsAreOfMessages == DSHA1Spec => []DigestIsOfMessage
<1>1. HashInv => DigestIsOfMessage
  BY DEF HashInv
<1> QED
  BY <1>1, HashInvariant, PTL

\* The pool's hashes, of 40 digits, and a nonce of an unsigned int, of at most 10, are
\* among these: all the miner's digests are right (mining.cpp:43-52; counter.h:21).
THEOREM MinersDigestsFit ==
    ASSUME hash_len = 40, Len(message) - hash_len \in 1 .. 10
    PROVE  FitsTheBlock
<1>1. 40 % 64 = 40
  OBVIOUS
<1>2. \A n \in 1 .. 10 : 40 + n <= 55
  OBVIOUS
<1> QED
  BY <1>1, <1>2 DEF FitsTheBlock

\* No write leaves the buffer, with any count of bytes in a new object, any hash and any
\* nonce, those included whose digest is wrong; and what is kept of a hash is its last
\* bytes (dsha1.h:13,15-35,50-61).
THEOREM BufferIsKept == DSHA1Spec => []BufferHoldsRest
<1>1. HashInv => BufferHoldsRest
  <2> SUFFICES ASSUME HashInv PROVE BufferHoldsRest
    OBVIOUS
  <2>1. DOMAIN dsha1.buf = 0 .. 63 /\ DOMAIN ctx.buf = 0 .. 63
    BY DEF HashInv, Object, Buffer
  <2>2. ASSUME stage = "job", NEW k \in 1 .. dsha1.bytes % 64
        PROVE  dsha1.buf[k - 1] = <<"hash", 64 * (dsha1.bytes \div 64) + k>>
    <3>1. /\ hash_len \in Nat /\ dsha1.bytes = hash_len
          /\ dsha1.buf[k - 1] = Bytes("hash", hash_len)[64 * (hash_len \div 64) + k]
      BY <2>2, BytesAre DEF HashInv, Represents
    <3>2. 64 * (hash_len \div 64) + k \in 1 .. hash_len
      BY <3>1, Blocks64
    <3> QED
      BY <3>1, <3>2, BytesAre
  <2> QED
    BY <2>1, <2>2 DEF BufferHoldsRest
<1> QED
  BY <1>1, HashInvariant, PTL

===============================================================================
