----------------------------- MODULE DucoClaims ------------------------------
(***************************************************************************)
(* What comments and log lines of the source say of the program and the    *)
(* program does not do.  Each claim is stated as the source has it; a run  *)
(* of its own shows a behaviour of DucoESP32 that contradicts it.          *)
(***************************************************************************)
EXTENDS DucoESP32, FiniteSets

VARIABLE outdated   \* history: open connections older than some new config

\* A new config may also pass as a plain step of DucoNext, and connections go
\* unnoticed then: outdated holds no connection too many.

ClaimsInit == DucoInit /\ outdated = {}

ClaimsNext ==
    \/ SyncWebConfig /\ outdated' = {c \in Cores : is_connected[c]}
    \/ DucoNext /\ outdated' = {c \in outdated : is_connected'[c]}

ClaimsSpec == ClaimsInit /\ [][ClaimsNext]_<<vars, outdated>>

\* "Share found, exit loop to request the next job" (mining.cpp:81): of one job,
\* one share is sent. It is sent again when the request for the next job fails in a
\* way that leaves some line in client_buffer: mine() goes by the buffer alone and
\* hashes the old job once more.
ShareOncePerJob ==
    [][\A c \in Cores : pc[c] = "submit" /\ pc'[c] = "wait" => work[c] = "fresh"
      ]_<<vars, outdated>>

\* "Configuration changed! Applying new credentials and reconnecting..."
\* (duco.cpp:99): no job is asked for on a connection older than the new config.
\* connectToNode() uses the open connection again.
Reconnects ==
    [][\A c \in outdated : ~(pc[c] = "ask" /\ pc'[c] = "wait")]_<<vars, outdated>>

\* "Duco needs 1 socket per Miner" (__init__.py:77): fetch_pool_node() opens one
\* more while the miners' connections are still open.
SocketBudget ==
    Cardinality({c \in Cores : client_sock[c] # NoNode})
        + (IF main = "request" THEN 1 ELSE 0) <= Cardinality(Cores)

\* The program's own fairness, and a pool that may fall silent.
SilentPoolSpec == ClaimsSpec /\ TaskFairness /\ MainFairness

\* "Timeout after 120s. Invalidating connection..." (mining_esp32.cpp:119): a wait
\* ends, answered or not. The clock is looked at only after read() has returned,
\* and read() on a blocking socket returns with a byte, an end or an error.
WaitTimesOut == \A c \in Cores : pc[c] = "read" ~> pc[c] # "read"

=============================================================================
