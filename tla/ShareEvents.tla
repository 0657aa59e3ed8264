------------------------------ MODULE ShareEvents ------------------------------
(***************************************************************************)
(* The event of a found share (mining.cpp:61-79, duco.cpp:138-143): it is  *)
(* raised in the miner's task and handled in the main loop, by way of the  *)
(* scheduler's queue of deferred calls.                                    *)
(***************************************************************************)
EXTENDS Naturals, FiniteSets

CONSTANTS
    Cores,
    MaxShares      \* bound: shares found

ASSUME EventsAssumption == IsFiniteSet(Cores) /\ MaxShares \in Nat

VARIABLES
    pc,            \* of each miner: "mine", "submit", "call"
    found,         \* shares counted by all of them
    deferred,      \* calls in the scheduler's queue
    events,        \* calls of share_found_callback
    deleted        \* the cores whose task is deleted

eventsVars == <<pc, found, deferred, events, deleted>>

EventsInit ==
    /\ pc = [c \in Cores |-> "mine"]
    /\ found = 0 /\ deferred = 0 /\ events = 0 /\ deleted = {}

MinerGoto(c, from, to) ==
    /\ c \notin deleted
    /\ pc[c] = from /\ pc' = [pc EXCEPT ![c] = to]

\* mine() finds the nonce, and counts the share.
Find(c) ==
    /\ found < MaxShares
    /\ MinerGoto(c, "mine", "submit")
    /\ found' = found + 1
    /\ UNCHANGED <<deferred, events, deleted>>

\* submit() comes back, whatever the verdict, and also if there is none.
Submit(c) ==
    /\ MinerGoto(c, "submit", "call")
    /\ UNCHANGED <<found, deferred, events, deleted>>

\* Seeded fault: a call takes the place of one that is still in the queue.
CallbackReplaces(c) ==
    /\ MinerGoto(c, "call", "mine")
    /\ deferred' = 1
    /\ UNCHANGED <<found, events, deleted>>

\* on_share_found_callback(): defer() without a name, from the miner's task.
Callback(c) ==
    /\ MinerGoto(c, "call", "mine")
    /\ deferred' = deferred + 1
    /\ UNCHANGED <<found, events, deleted>>

\* The main loop takes the next call of the queue.
RunDeferred ==
    /\ deferred > 0
    /\ deferred' = deferred - 1 /\ events' = events + 1
    /\ UNCHANGED <<pc, found, deleted>>

\* stop(): the task ends where it is.
Delete(c) ==
    /\ deleted' = deleted \cup {c}
    /\ UNCHANGED <<pc, found, deferred, events>>

Miner(c) == Find(c) \/ Submit(c) \/ Callback(c)

EventsNext == RunDeferred \/ \E c \in Cores : Miner(c) \/ Delete(c)

EventsSpec == EventsInit /\ [][EventsNext]_eventsVars

\* The tasks and the main loop run on. That submit() ends takes a pool that answers on
\* the ESP32 (PoolFairness of DucoESP32) and nothing on the ESP8266 (PassEnds of
\* DucoESP8266).
EventsFairness ==
    /\ WF_eventsVars(RunDeferred)
    /\ \A c \in Cores : WF_eventsVars(Submit(c) \/ Callback(c))

-----------------------------------------------------------------------------
(* Properties *)

\* Every share that was counted has one event: told, queued, or to come of the miner that
\* is at it, where a deleted one keeps it for good (mining.cpp:61-79; duco.cpp:138-143).
OneEventPerShare ==
    found = events + deferred + Cardinality({c \in Cores : pc[c] # "mine"})

\* No event is lost or doubled, and with the miners running on the main loop hears of
\* every share (duco.cpp:138-143).
SharesAreTold ==
    \A n \in 1 .. MaxShares :
        [](OneEventPerShare /\ (found >= n => <>(events >= n \/ deleted # {})))

===============================================================================
