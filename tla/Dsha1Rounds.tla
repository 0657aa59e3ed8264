----------------------------- MODULE Dsha1Rounds -----------------------------
(***************************************************************************)
(* transform() (dsha1.h:63-190): the 80 rounds, written out in the code.   *)
(* The working variables never move: the rounds name them in turn.  The    *)
(* schedule is 16 words that are overwritten as it goes round.             *)
(***************************************************************************)
EXTENDS Integers, Sequences, Word32

CONSTANTS
    Messages,    \* sequences of blocks
    Digests      \* of each message, what the standard gives for it

\* 64 bytes, as words.
Block == [1 .. 16 -> uint32]

ASSUME MessagesAreBlocks == Messages \subseteq Seq(Block)

VARIABLES
    input, chunks,   \* what is hashed, and its blocks that are left
    s,
    reg,               \* a, b, c, d, e
    w,                 \* w0 to w15
    t                  \* the round; 80: after the last, 81: not in transform()

roundsVars == <<input, chunks, s, reg, w, t>>

k1 == Halves(\h5A82, \h7999)
k2 == Halves(\h6ED9, \hEBA1)
k3 == Halves(\h8F1B, \hBCDC)
k4 == Halves(\hCA62, \hC1D6)

f1(b, c, d) == XorW(d, AndW(b, XorW(c, d)))
f2(b, c, d) == XorW(XorW(b, c), d)
\* Seeded fault: | for &.
f3Or(b, c, d) == OrW(OrW(b, c), AndW(d, OrW(b, c)))
f3(b, c, d) == OrW(AndW(b, c), AndW(d, OrW(b, c)))

left(x) == Rot(x, 1)

initialize ==
    <<Halves(\h6745, \h2301), Halves(\hEFCD, \hAB89), Halves(\h98BA, \hDCFE), Halves(\h1032, \h5476), Halves(\hC3D2, \hE1F0)>>

\* Round 0 is called with a, b, c, d, e, round 1 with e, a, b, c, d, and so on: the
\* variable that plays part n (0 for a) in round i.
Name(n, i) == ((n - i) % 5) + 1

f(i, b, c, d) ==
    IF i < 20 THEN f1(b, c, d)
    ELSE IF i >= 40 /\ i < 60 THEN f3(b, c, d)
    ELSE f2(b, c, d)

k(i) == <<k1, k2, k3, k4>>[i \div 20 + 1]

\* readBE32() for the first 16 words; the words of the pool's bytes are taken as given.
Word(i, chunk) ==
    IF i < 16 THEN chunk[i + 1]
    ELSE left(XorW(XorW(w[i % 16], w[(i + 13) % 16]), XorW(w[(i + 8) % 16], w[(i + 2) % 16])))

RoundsInit ==
    /\ input \in Messages /\ chunks = input
    /\ s = initialize /\ reg = initialize
    /\ w = [i \in 0 .. 15 |-> Halves(0, 0)]
    /\ t = 81

Begin ==
    /\ t = 81 /\ chunks # <<>>
    /\ reg' = s
    /\ t' = 0
    /\ UNCHANGED <<input, chunks, s, w>>

\* Round(): e += (a <<< 5) + f + k + w; b = b <<< 30.  (The last three rounds do not
\* keep their word; nobody reads w13 to w15 after them.)
Round ==
    /\ t < 80
    /\ LET part(n) == reg[Name(n, t)]
           word    == Word(t, Head(chunks))
           sum     == Plus(Plus(Rot(part(0), 5), f(t, part(1), part(2), part(3))), Plus(k(t), word))
       IN  /\ reg' = [reg EXCEPT ![Name(4, t)] = Plus(@, sum), ![Name(1, t)] = Rot(@, 30)]
           /\ w' = [w EXCEPT ![t % 16] = word]
    /\ t' = t + 1
    /\ UNCHANGED <<input, chunks, s>>

End ==
    /\ t = 80
    /\ s' = [r \in 1 .. 5 |-> Plus(s[r], reg[r])]
    /\ chunks' = Tail(chunks)
    /\ t' = 81
    /\ UNCHANGED <<input, reg, w>>

\* reset(): the schedule keeps its words.
NewInput ==
    /\ t = 81 /\ chunks = <<>>
    /\ input' \in Messages /\ chunks' = input'
    /\ s' = initialize
    /\ UNCHANGED <<reg, w, t>>

RoundsNext == Begin \/ Round \/ End \/ NewInput

RoundsSpec == RoundsInit /\ [][RoundsNext]_roundsVars

-----------------------------------------------------------------------------
(* Properties *)

Fips == INSTANCE FIPS180
    WITH todo <- chunks, H <- s, v <- [n \in 1 .. 5 |-> reg[Name(n - 1, t % 81)]]

\* Round by round the named variables are the working variables of the standard, and
\* the 16 words its schedule of 80 (dsha1.h:63-190).
RoundsAreStandard == Fips!Spec

\* The digest of every message is the one published (or computed by another program).
KnownDigests == t = 81 /\ chunks = <<>> => s = Digests[input]

\* The rounds are those of FIPS180; and the digests are the known ones, so that this
\* module and FIPS180 do not err together.
ImplementsFIPS180 == RoundsAreStandard /\ []KnownDigests

==============================================================================
