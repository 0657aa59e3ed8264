------------------------------- MODULE HashLoop -------------------------------
(***************************************************************************)
(* The search for the nonce of one job (mining.cpp:43-84) with the counter *)
(* it counts with (counter.h:11-52), which keeps a number and its decimal  *)
(* side by side: the text is hashed, the number bounds the loop and is     *)
(* sent to the pool.                                                       *)
(*                                                                         *)
(* A hash stands for the text it was computed from; DSHA1 and Dsha1Rounds  *)
(* model how.  The pool's expected hash is that of a number's decimal      *)
(* after the last block hash, or of nothing the miner can reach.           *)
(***************************************************************************)
EXTENDS Integers, Sequences

CONSTANTS
    Quarter,      \* a quarter of the values of an unsigned int: 2^30
    max_digits,   \* 10
    Parsed,       \* the numbers strtoul may give for the difficulty
    Results       \* the numbers whose hash the pool may expect

Words == 4 * Quarter

\* What the pool hashes: std::to_string() of the result, say.
Decimal[n \in Nat] == IF n < 10 THEN <<n>> ELSE Append(Decimal[n \div 10], n % 10)

ASSUME WordsFitDigits ==
    /\ Quarter \in Nat \ {0} /\ max_digits \in Nat \ {0}
    /\ Len(Decimal[Words - 1]) <= max_digits
    /\ Parsed \subseteq 0 .. Words - 1
    /\ Results \subseteq Nat

NoResult == -1

VARIABLES
    phase,        \* "asking", "mining"
    counter,      \* buffer (the digits), val, len
    difficulty,
    result,       \* the number whose hash is expected; NoResult: of none
    config_ready, \* is_ready of the config
    outcome,      \* how the search before ended: "share", "complete", "left", "none"
    sent          \* the number submitted with the last share

hashVars == <<phase, counter, difficulty, result, config_ready, outcome, sent>>

-----------------------------------------------------------------------------
(* Counter<max_digits> *)

reset == [buffer |-> [c \in 0 .. max_digits - 1 |-> 0], val |-> 0, len |-> 1]

\* inc_string() goes left over the nines and adds one to the digit it stops at; it does
\* not stop at the buffer's begin.
StopsAt(buffer) ==
    CHOOSE c \in -1 .. max_digits - 1 :
        /\ c # -1 => buffer[c] < 9
        /\ \A d \in c + 1 .. max_digits - 1 : buffer[d] = 9

\* Seeded fault: the length counts the nines and not the digit before them.
IncrementShort(c) ==
    LET at     == StopsAt(c.buffer)
        digits == max_digits - at - 1
    IN  [buffer |-> [d \in DOMAIN c.buffer \cup {at} |->
                        IF d = at THEN (IF at = -1 THEN 1 ELSE c.buffer[d] + 1)
                        ELSE IF d > at THEN 0 ELSE c.buffer[d]],
         val |-> (c.val + 1) % Words,
         len |-> IF digits > c.len THEN digits ELSE c.len]

\* operator++
Increment(c) ==
    LET at     == StopsAt(c.buffer)
        digits == max_digits - at
    IN  [buffer |-> [d \in DOMAIN c.buffer \cup {at} |->
                        IF d = at THEN (IF at = -1 THEN 1 ELSE c.buffer[d] + 1)
                        ELSE IF d > at THEN 0 ELSE c.buffer[d]],
         val |-> (c.val + 1) % Words,
         len |-> IF digits > c.len THEN digits ELSE c.len]

\* c_str(), strlen()
Text(c) == [k \in 1 .. c.len |-> c.buffer[max_digits - c.len + k - 1]]

-----------------------------------------------------------------------------
(* mine() *)

HashInit ==
    /\ phase = "asking" /\ counter = reset /\ difficulty = 0 /\ result = NoResult
    /\ config_ready = TRUE /\ outcome = "none" /\ sent = NoResult

\* Seeded fault: the difficulty is taken as it comes.
ScaledPlain(parsed) == parsed

\* parse(): the difficulty in hashes, in 32 bits (mining.cpp:145).
Scaled(parsed) == (parsed * 100) % Words

\* askForJob() has brought a job, and the loop begins.
Job(parsed, n) ==
    /\ phase = "asking" /\ config_ready
    /\ phase' = "mining"
    /\ difficulty' = Scaled(parsed)
    /\ result' = n
    /\ counter' = reset
    /\ outcome' = "none" /\ sent' = NoResult
    /\ UNCHANGED config_ready

InLoop == phase = "mining" /\ counter.val <= difficulty

Matches == result # NoResult /\ Text(counter) = Decimal[result]

\* The config is checked after the hash and before the comparison.
Leave ==
    /\ InLoop /\ ~config_ready
    /\ phase' = "asking" /\ outcome' = "left"
    /\ UNCHANGED <<counter, difficulty, result, config_ready, sent>>

\* submit(), and the next job.
Share ==
    /\ InLoop /\ config_ready /\ Matches
    /\ phase' = "asking" /\ outcome' = "share" /\ sent' = counter.val
    /\ UNCHANGED <<counter, difficulty, result, config_ready>>

Miss ==
    /\ InLoop /\ config_ready /\ ~Matches
    /\ counter' = Increment(counter)
    /\ UNCHANGED <<phase, difficulty, result, config_ready, outcome, sent>>

\* Seeded fault: the last number is not tried.
CompleteEarly ==
    /\ phase = "mining" /\ counter.val >= difficulty
    /\ phase' = "asking" /\ outcome' = "complete"
    /\ UNCHANGED <<counter, difficulty, result, config_ready, sent>>

\* The loop is at its bound: nothing is submitted.
Complete ==
    /\ phase = "mining" /\ counter.val > difficulty
    /\ phase' = "asking" /\ outcome' = "complete"
    /\ UNCHANGED <<counter, difficulty, result, config_ready, sent>>

\* The main loop withdraws the pool's node, or fetches one.
Toggle ==
    /\ config_ready' = ~config_ready
    /\ UNCHANGED <<phase, counter, difficulty, result, outcome, sent>>

Mine == Leave \/ Share \/ Miss \/ Complete

HashNext == Mine \/ Toggle \/ \E p \in Parsed : \E n \in Results \cup {NoResult} : Job(p, n)

HashSpec == HashInit /\ [][HashNext]_hashVars

-----------------------------------------------------------------------------
(* Properties *)

\* The text that is hashed is the decimal of the number that bounds the loop and is
\* sent, with no zero in front, and no digit is written outside of the buffer, whose
\* check is commented out (counter.h:33-46).
TextIsNumber ==
    /\ DOMAIN counter.buffer = 0 .. max_digits - 1
    /\ Text(counter) = Decimal[counter.val]

\* Every search comes to its end, for the number never goes round: the bound is never the greatest number there is, not
\* even of a difficulty that is out of strtoul's range or wraps when it is multiplied
\* (mining.cpp:47,140-145).
NeverGoesRound ==
    /\ difficulty < Words - 1
    /\ counter.val <= difficulty + 1

\* A share is sent with the number the pool asked for, and a search that completes
\* without one has tried them all (mining.cpp:47-82).
SearchIsRight ==
    /\ outcome = "share" => sent = result /\ result <= difficulty
    /\ outcome = "complete" /\ result # NoResult => result > difficulty
    /\ outcome # "share" => sent = NoResult

===============================================================================
