------------------------------- MODULE MCParts -------------------------------
(***************************************************************************)
(* The small parts for TLC, in one run.  They have no state in common:     *)
(* `part` is the one that runs, the others stay in an initial state, so    *)
(* that what is explored is the sum of their states and not the product.   *)
(***************************************************************************)
EXTENDS HashLoop, DSHA1, Dsha1Rounds, LoopTimers, MCWebConfig, JobRequest, ShareEvents,
        MCMessages

VARIABLE part

Parts == {"hash", "dsha1", "rounds", "timers", "web", "request", "events"}

partsVars == <<part, hashVars, dsha1Vars, roundsVars, timersVars, webVars, requestVars, eventsVars>>

\* Where there are several initial states, a part that does not run has one of them.
Init ==
    /\ part \in Parts
    /\ HashInit /\ DSHA1Init /\ RoundsInit /\ TimersInit /\ WebInit /\ RequestInit /\ EventsInit
    /\ part # "dsha1" => dsha1.bytes = 0
    /\ part # "rounds" => input = abc
    /\ part # "web" => yaml = Empty
    /\ part # "request" => known = [user |-> TRUE, key |-> TRUE]

Next ==
    \/ part = "hash" /\ HashNext
       /\ UNCHANGED <<part, dsha1Vars, roundsVars, timersVars, webVars, requestVars, eventsVars>>
    \/ part = "dsha1" /\ DSHA1Next
       /\ UNCHANGED <<part, hashVars, roundsVars, timersVars, webVars, requestVars, eventsVars>>
    \/ part = "rounds" /\ RoundsNext
       /\ UNCHANGED <<part, hashVars, dsha1Vars, timersVars, webVars, requestVars, eventsVars>>
    \/ part = "timers" /\ TimersNext
       /\ UNCHANGED <<part, hashVars, dsha1Vars, roundsVars, webVars, requestVars, eventsVars>>
    \/ part = "web" /\ WebNext
       /\ UNCHANGED <<part, hashVars, dsha1Vars, roundsVars, timersVars, requestVars, eventsVars>>
    \/ part = "request" /\ RequestNext
       /\ UNCHANGED <<part, hashVars, dsha1Vars, roundsVars, timersVars, webVars, eventsVars>>
    \/ part = "events" /\ EventsNext
       /\ UNCHANGED <<part, hashVars, dsha1Vars, roundsVars, timersVars, webVars, requestVars>>

Spec == Init /\ [][Next]_partsVars /\ EventsFairness

-----------------------------------------------------------------------------
(* Values for the constants *)

\* Of an unsigned int of 10 bits: with and without a carry, and one that wraps.
Difficulties == {0, 1, 2, 10, 11, 41, 1023}
\* Around the carries, and out of reach.
Nonces == {0, 9, 10, 76, 77, 99, 100, 999, 1000, 5000}

\* The last block hash has 40 bytes; the others are on both sides of the edges of a block:
\* 45 and 10 just leave room for the padding, 46 and 10 do not, 63 and 1 fill the block.
AnyByteCount == {0, 44, 63, 1000}
HashLengths == {0, 40, 45, 46, 63, 104, 119}
NonceLengths == {1, 9, 10}

==============================================================================
