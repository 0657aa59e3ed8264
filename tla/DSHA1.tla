-------------------------------- MODULE DSHA1 --------------------------------
(***************************************************************************)
(* The buffering and padding of the hash (dsha1.h:15-61), used the way     *)
(* mine() uses it: one object per miner, warmed up once, reset for every   *)
(* job, fed with the last block hash, and copied for every nonce.          *)
(*                                                                         *)
(* transform() is abstract here: the words s[] are the sequence of the     *)
(* 64-byte blocks transformed since initialize().  Dsha1Rounds models what *)
(* it does with one block.  A byte is a pair of where it comes from and    *)
(* its position there, so that a byte hashed from the wrong place shows.   *)
(***************************************************************************)
EXTENDS Integers, Sequences

CONSTANTS
    Garbage,      \* what the indeterminate `bytes` of a new object may hold
    HashLens,     \* lengths of last_block_hash; 40 when the pool is in order
    NonceLens     \* lengths of the nonce's decimal; 1 to 10

ASSUME LensAreNatural ==
    Garbage \subseteq Nat /\ HashLens \subseteq Nat /\ NonceLens \subseteq Nat \ {0}

VARIABLES
    stage,
    dsha1,        \* the object of the job: bytes, buf, s
    hash_len,     \* last_block_hash.length()
    message,      \* the hash and the nonce of the job's last digest; empty: none yet
    ctx           \* the last copy of the object, finalized

dsha1Vars == <<stage, dsha1, hash_len, message, ctx>>

\* The last digest: the blocks it was computed from.
hashArray == ctx.s

Bytes(origin, n) == [k \in 1 .. n |-> <<origin, k>>]

\* n bytes from data + at, wherever data ends: a byte read behind its end is some byte,
\* and none of the data's.
From(data, at, n) ==
    [k \in 1 .. n |-> IF at + k \in 1 .. Len(data) THEN data[at + k] ELSE <<"behind", at + k>>]

-----------------------------------------------------------------------------
(* The object *)

\* memcpy(buf + at, data, Len(data)): outside of buf, too, if the code were wrong.
Copy(buf, at, data) ==
    [k \in DOMAIN buf \cup (at .. at + Len(data) - 1) |->
        IF k \in at .. at + Len(data) - 1 THEN data[k - at + 1] ELSE buf[k]]

Contents(buf) == [k \in 1 .. 64 |-> buf[k - 1]]

\* How many bytes go into a buffer that the write fills up.
Fill(h, len) ==
    LET bufsize == h.bytes % 64 IN IF bufsize # 0 /\ bufsize + len >= 64 THEN 64 - bufsize ELSE 0

\* What is transformed, the buffer first.  Filling it takes nothing off `len`: the blocks
\* behind it, and the rest, are counted as if all of the data were still to come.
Transformed(h, data, len) ==
    LET fill == Fill(h, len)
        full == Copy(h.buf, h.bytes % 64, From(data, 0, fill))
    IN  (IF fill # 0 THEN <<Contents(full)>> ELSE <<>>)
            \o [n \in 1 .. len \div 64 |-> From(data, fill + 64 * (n - 1), 64)]

\* Seeded fault: a buffer that was filled up is still taken to be filled.
WriteKeepsBufsize(h, data, len) ==
    LET fill == Fill(h, len)
        full == Copy(h.buf, h.bytes % 64, From(data, 0, fill))
    IN  [bytes |-> h.bytes + fill + len,
         s     |-> h.s \o Transformed(h, data, len),
         buf   |-> Copy(full, h.bytes % 64, From(data, fill + 64 * (len \div 64), len % 64))]

\* write(): fill up the buffer, transform blocks where they are, keep the rest.
Write(h, data, len) ==
    LET fill == Fill(h, len)
        full == Copy(h.buf, h.bytes % 64, From(data, 0, fill))
    IN  [bytes |-> h.bytes + fill + len,
         s     |-> h.s \o Transformed(h, data, len),
         buf   |-> Copy(full, IF fill # 0 THEN 0 ELSE h.bytes % 64,
                        From(data, fill + 64 * (len \div 64), len % 64))]

\* The array `pad` has 64 bytes: 0x80, and zeros; it is written as far as PadLen.
PadLen(bytes) == 1 + ((119 - (bytes % 64)) % 64)
Pad(n) == [k \in 1 .. n |-> <<"pad", IF k = 1 THEN 128 ELSE 0>>]
SizeDesc(bytes) == [k \in 1 .. 8 |-> <<"size", 8 * bytes, k>>]

\* Seeded fault: the size is written as it is after the padding.
FinalizeLateSize(h) ==
    LET padded == Write(h, Pad(64), PadLen(h.bytes)) IN Write(padded, SizeDesc(padded.bytes), 8)

\* finalize(): the size is that of the message, taken before the padding.
Finalize(h) == Write(Write(h, Pad(64), PadLen(h.bytes)), SizeDesc(h.bytes), 8)

\* reset(): buf keeps the bytes of the job before.
Reset(h) == [bytes |-> 0, s |-> <<>>, buf |-> h.buf]

-----------------------------------------------------------------------------
(* The use made of it *)

\* DSHA1(): s is initialized, bytes and buf are not.
DSHA1Init ==
    /\ stage = "new"
    /\ \E n \in Garbage : dsha1 = [bytes |-> n, s |-> <<>>, buf |-> [k \in 0 .. 63 |-> <<"junk", k>>]]
    /\ hash_len = 0 /\ message = <<>> /\ ctx = dsha1

\* MiningJob(): 20 bytes are read of a literal of 15.
Warmup ==
    /\ stage = "new"
    /\ stage' = "idle"
    /\ dsha1' = Finalize(Write(dsha1, Bytes("warm", 15), 20))
    /\ UNCHANGED <<hash_len, message, ctx>>

\* mine(): a job begins (mining.cpp:43).
BeginJob(n) ==
    /\ stage \in {"idle", "job"}
    /\ stage' = "job"
    /\ dsha1' = Write(Reset(dsha1), Bytes("hash", n), n)
    /\ hash_len' = n /\ message' = <<>>
    /\ UNCHANGED ctx

\* mine(): one nonce, hashed in a copy (mining.cpp:51-52).
HashNonce(n) ==
    /\ stage = "job"
    /\ ctx' = Finalize(Write(dsha1, Bytes("nonce", n), n))
    /\ message' = Bytes("hash", hash_len) \o Bytes("nonce", n)
    /\ UNCHANGED <<stage, dsha1, hash_len>>

DSHA1Next ==
    \/ Warmup
    \/ \E n \in HashLens : BeginJob(n)
    \/ \E n \in NonceLens : HashNonce(n)

DSHA1Spec == DSHA1Init /\ [][DSHA1Next]_dsha1Vars

-----------------------------------------------------------------------------
(* Properties *)

\* FIPS 180: one 0x80, as few zeros as bring the message to 56 modulo 64, its length.
Padded(m) ==
    LET zeros == CHOOSE k \in 0 .. 63 : (Len(m) + 1 + k) % 64 = 56
    IN  m \o Pad(1 + zeros) \o SizeDesc(Len(m))

\* A nonce that leaves room, in the block where the hash ends, for the 0x80 and the
\* length.  With the 40 digits of the pool's hashes every nonce does.
FitsTheBlock == (hash_len % 64) + (Len(message) - hash_len) <= 55

\* A digest is that of the job's hash and the nonce, and of nothing else: not of what
\* the buffer held before, the nonce before, or the warm-up, whatever the object's
\* uninitialized byte count was (dsha1.h:13,50-61; mining.cpp:43-52).  It is so only when
\* no write has data left over from a block it fills up (dsha1.h:17-23).
DigestIsOfMessage ==
    message # <<>> /\ FitsTheBlock =>
        /\ 64 * Len(hashArray) = Len(Padded(message))
        /\ \A n \in 1 .. Len(hashArray) : \A k \in 1 .. 64 :
              hashArray[n][k] = Padded(message)[64 * (n - 1) + k]

\* The bytes kept for the next write are those written last, and no write leaves the
\* buffer's bounds: the warm-up's, with any byte count, and those of a digest, with any
\* length, although a write that fills the buffer up takes more than there is of the data
\* (dsha1.h:13,15-35).
BufferHoldsRest ==
    /\ DOMAIN dsha1.buf = 0 .. 63 /\ DOMAIN ctx.buf = 0 .. 63
    /\ stage = "job" =>
         \A k \in 1 .. dsha1.bytes % 64 :
             dsha1.buf[k - 1] = <<"hash", 64 * (dsha1.bytes \div 64) + k>>

=============================================================================
