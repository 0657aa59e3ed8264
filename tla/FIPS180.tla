------------------------------- MODULE FIPS180 -------------------------------
(***************************************************************************)
(* The hash computation of SHA-1 as FIPS 180-4, 6.1.2, writes it down: the *)
(* message schedule of a block in full, and 80 steps that each move the    *)
(* five working variables on by one place.                                 *)
(***************************************************************************)
EXTENDS Integers, Sequences, Word32

CONSTANT Messages     \* sequences of blocks; a block is a sequence of 16 words

VARIABLES
    todo,     \* the blocks of the message that are left
    H,        \* the hash value
    v,        \* the working variables a, b, c, d, e
    t         \* the step; 80: all done, 81: between two blocks

fipsVars == <<todo, H, v, t>>

H0 == <<Halves(\h6745, \h2301), Halves(\hEFCD, \hAB89), Halves(\h98BA, \hDCFE), Halves(\h1032, \h5476), Halves(\hC3D2, \hE1F0)>>

Ch(x, y, z) == XorW(AndW(x, y), AndW(Complement(x), z))
Parity(x, y, z) == XorW(x, XorW(y, z))
Maj(x, y, z) == XorW(AndW(x, y), XorW(AndW(x, z), AndW(y, z)))

Function(n, x, y, z) ==
    IF n < 20 THEN Ch(x, y, z)
    ELSE IF n < 40 \/ n >= 60 THEN Parity(x, y, z)
    ELSE Maj(x, y, z)

Constant(n) ==
    <<Halves(\h5A82, \h7999), Halves(\h6ED9, \hEBA1), Halves(\h8F1B, \hBCDC), Halves(\hCA62, \hC1D6)>>[n \div 20 + 1]

\* The words of a schedule, with one more.
Extended(W) ==
    LET n == Len(W)
    IN  Append(W, Rot(XorW(XorW(W[n - 2], W[n - 7]), XorW(W[n - 13], W[n - 15])), 1))

\* The 80 words of a block's schedule.
Schedule(block) ==
    LET upTo[n \in 16 .. 80] == IF n = 16 THEN block ELSE Extended(upTo[n - 1])
    IN  upTo[80]

Init ==
    /\ todo \in Messages
    /\ H = H0 /\ v = H0
    /\ t = 81

Prepare == t = 81 /\ todo # <<>> /\ v' = H /\ t' = 0 /\ UNCHANGED <<todo, H>>

Step ==
    /\ t < 80
    /\ LET a == v[1]
           b == v[2]
           T == Plus(Plus(Rot(a, 5), Function(t, b, v[3], v[4])),
                     Plus(Plus(v[5], Constant(t)), Schedule(Head(todo))[t + 1]))
       IN  v' = <<T, a, Rot(b, 30), v[3], v[4]>>
    /\ t' = t + 1
    /\ UNCHANGED <<todo, H>>

Add ==
    /\ t = 80
    /\ H' = [r \in 1 .. 5 |-> Plus(H[r], v[r])]
    /\ todo' = Tail(todo)
    /\ t' = 81
    /\ UNCHANGED v

NewMessage == t = 81 /\ todo = <<>> /\ todo' \in Messages /\ H' = H0 /\ UNCHANGED <<v, t>>

Next == Prepare \/ Step \/ Add \/ NewMessage

Spec == Init /\ [][Next]_fipsVars

==============================================================================
