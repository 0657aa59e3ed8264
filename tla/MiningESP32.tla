----------------------------- MODULE MiningESP32 -----------------------------
(***************************************************************************)
(* The miner tasks of the ESP32 build: mining_esp32.cpp and the shared     *)
(* mining.cpp.  Every core runs `for (;;) current_job->mine();` in a       *)
(* FreeRTOS task of its own (duco_esp32.cpp:100-102).  The tasks share one *)
(* MiningConfig with each other and with the ESPHome main loop; each task  *)
(* talks to the pool over one TCP connection of its own.                   *)
(*                                                                         *)
(* A step of a task is the code between two accesses to state that another *)
(* task can change (the config, the connection).  The main loop appears    *)
(* here only through the ways it touches that state (the environment       *)
(* actions at the end); DucoESP32 models it in full and implements this    *)
(* specification.                                                          *)
(*                                                                         *)
(* What a line of text says is kept only as far as the code tells lines    *)
(* apart: see Line.  Hashing is one nondeterministic outcome: the share is *)
(* found, or the loop ends without it.                                     *)
(***************************************************************************)
EXTENDS Naturals, Sequences

CONSTANTS
    Cores,            \* one miner task per core (SOC_CPU_CORES_NUM)
    Nodes,            \* pool nodes the Poolpicker may name (host and port)
    NoNode,           \* an empty host; a null client_sock
    HalfWritten,      \* a host read while another task assigns it
    ERROR_THRESHOLD,  \* mining.h:19, 55 in the code
    ShareCap,         \* bound: share counters stop counting here
    MaxSkipped,       \* bound: replies left unread on one connection
    Garbled           \* TRUE when the pool may answer with any line at all

ASSUME ConstantsAssumption ==
    /\ NoNode \notin Nodes
    /\ HalfWritten \notin Nodes
    /\ NoNode # HalfWritten
    /\ ERROR_THRESHOLD \in Nat \ {0}
    /\ ShareCap \in Nat
    /\ MaxSkipped \in Nat
    /\ Garbled \in BOOLEAN

VARIABLES
    \* MiningConfig, shared by every task (duco.h:42-57)
    is_ready,
    host,
    \* one MiningJob per core (mining.h:29-87)
    pc,                     \* where in mine() the task is; "none": no task
    want,                   \* the reply waitForClientData() was called for
    client_buffer,
    work,                   \* the hashes held: none, a job, a job whose share was sent
    is_connected,
    client_sock,            \* the node the socket was opened to
    errors,
    share_count,
    accepted_share_count,
    \* the connection, as the pool sees it
    owed,                   \* replies sent, or still to be sent, that are unread
    skipped                 \* waits given up before reading, on this connection

config == <<is_ready, host>>
socket == <<is_connected, client_sock, owed, skipped>>
counters == <<errors, share_count, accepted_share_count>>
miningVars == <<is_ready, host, pc, want, client_buffer, work, is_connected,
                client_sock, errors, share_count, accepted_share_count,
                owed, skipped>>

(***************************************************************************)
(* The lines the code tells apart: nothing (the empty string), a blank     *)
(* line ("???\n" in the code), a job, a job whose difficulty is no number, *)
(* a line with GOOD in it, and any other (a version, a rejection).         *)
(***************************************************************************)
Line == {"nothing", "blank", "job", "baddiff", "GOOD", "other"}
Empty == {"nothing", "blank"}   \* mine() has no job to hash (mining.cpp:40)
Reply == {"version", "job", "result"}
Busy == {"mine", "connect", "open", "dial", "retry", "wait", "read", "lost",
         "ask", "hash", "submit"}

\* What the pool may answer to each request (external: the Duino-Coin pool).
Answers == {<<"version", "other">>, <<"job", "job">>, <<"result", "GOOD">>, <<"result", "other">>}
Lines(reply) == {line \in Line \ {"nothing"} : Garbled \/ <<reply, line>> \in Answers}

\* What is in client_buffer when the connection ends inside a line: of a job also less
\* than its three tokens, or an empty difficulty.
CutLines(reply) ==
    {"nothing", "other"} \cup (Lines(reply) \ {"blank"})
        \cup {line \in {"baddiff"} : reply = "job"}

TypeOK ==
    /\ is_ready \in BOOLEAN
    /\ host \in Nodes \cup {NoNode, HalfWritten}
    /\ pc \in [Cores -> Busy \cup {"none"}]
    /\ want \in [Cores -> Reply \cup {"none"}]
    /\ client_buffer \in [Cores -> Line]
    /\ work \in [Cores -> {"none", "fresh", "sent"}]
    /\ is_connected \in [Cores -> BOOLEAN]
    /\ client_sock \in [Cores -> Nodes \cup {NoNode, HalfWritten}]
    /\ errors \in [Cores -> 0 .. ERROR_THRESHOLD]
    /\ share_count \in [Cores -> 0 .. ShareCap]
    /\ accepted_share_count \in [Cores -> 0 .. ShareCap]
    /\ owed \in [Cores -> Seq(Reply)]
    /\ skipped \in [Cores -> 0 .. MaxSkipped]

(***************************************************************************)
(* Power-on: the config is not ready, every job is new.  A core whose      *)
(* xTaskCreatePinnedToCore failed has a job and no task, for its result is *)
(* not looked at (duco_esp32.cpp:53,57).                                   *)
(***************************************************************************)
Init ==
    /\ is_ready = FALSE
    /\ host = NoNode
    /\ pc \in [Cores -> {"mine", "none"}]
    /\ want = [c \in Cores |-> "none"]
    /\ client_buffer = [c \in Cores |-> "nothing"]
    /\ work = [c \in Cores |-> "none"]
    /\ is_connected = [c \in Cores |-> FALSE]
    /\ client_sock = [c \in Cores |-> NoNode]
    /\ errors = [c \in Cores |-> 0]
    /\ share_count = [c \in Cores |-> 0]
    /\ accepted_share_count = [c \in Cores |-> 0]
    /\ owed = [c \in Cores |-> <<>>]
    /\ skipped = [c \in Cores |-> 0]

-----------------------------------------------------------------------------
(* Helpers of the task's steps *)

\* The task of core c is at `from` and goes on at `to`.
Goto(c, from, to) == pc[c] = from /\ pc' = [pc EXCEPT ![c] = to]

\* errors counts up to the threshold: only problem() reads it.
CountError(c) ==
    errors' = [errors EXCEPT ![c] = IF @ < ERROR_THRESHOLD THEN @ + 1 ELSE @]

CountShare(n) == IF n < ShareCap THEN n + 1 ELSE n

problem(c) == errors[c] >= ERROR_THRESHOLD

\* A request goes out on the connection and the task waits for its reply.
Send(c, from, reply) ==
    /\ Goto(c, from, "wait")
    /\ want' = [want EXCEPT ![c] = reply]
    /\ owed' = [owed EXCEPT ![c] = Append(@, reply)]
    /\ UNCHANGED <<is_connected, client_sock, skipped>>

\* Seeded fault: client_sock.reset() without is_connected = false.
CloseSocketKeepsFlag(c) ==
    /\ client_sock' = [client_sock EXCEPT ![c] = NoNode]
    /\ owed' = [owed EXCEPT ![c] = <<>>]
    /\ skipped' = [skipped EXCEPT ![c] = 0]
    /\ UNCHANGED is_connected

\* is_connected = false; client_sock.reset(): the pool's answers die with it.
CloseSocket(c) ==
    /\ is_connected' = [is_connected EXCEPT ![c] = FALSE]
    /\ client_sock' = [client_sock EXCEPT ![c] = NoNode]
    /\ owed' = [owed EXCEPT ![c] = <<>>]
    /\ skipped' = [skipped EXCEPT ![c] = 0]

\* Seeded fault: the connection is lost and the other cores are not told.
DropConnectionSilently(c) == CloseSocket(c) /\ UNCHANGED config

\* The connection is found broken: is_ready = false makes loop() fetch a node.
DropConnection(c) ==
    /\ CloseSocket(c)
    /\ is_ready' = FALSE
    /\ UNCHANGED host

-----------------------------------------------------------------------------
(* Seeded faults: what the steps below must not be *)

\* A version is awaited on a connection that was open before.
ConnectReuseAwaits(c) ==
    /\ is_ready
    /\ is_connected[c]
    /\ Goto(c, "connect", "wait")
    /\ want' = [want EXCEPT ![c] = "version"]
    /\ UNCHANGED <<config, client_buffer, work, socket, counters>>

\* The node's version is not read.
DialConnectedDeaf(c) ==
    /\ client_sock[c] # NoNode
    /\ Goto(c, "dial", "ask")
    /\ is_connected' = [is_connected EXCEPT ![c] = TRUE]
    /\ owed' = [owed EXCEPT ![c] = <<"version">>]
    /\ skipped' = [skipped EXCEPT ![c] = 0]
    /\ UNCHANGED <<config, want, client_buffer, work, client_sock, counters>>

\* The 100 seconds are noticed and the loop goes on.
DialTimeoutGoesOn(c) ==
    /\ Goto(c, "retry", "open")
    /\ is_ready' = FALSE
    /\ UNCHANGED <<host, want, client_buffer, work, socket, counters>>

\* A job of three tokens is taken for too short.
ParseOffByOne(c, line) ==
    /\ CountError(c)
    /\ client_buffer' = [client_buffer EXCEPT ![c] = line]
    /\ pc' = [pc EXCEPT ![c] = IF line \in Empty THEN "mine" ELSE "hash"]
    /\ UNCHANGED <<work, share_count, accepted_share_count>>

\* share_count++ is missing.
HashFoundUncounted(c) ==
    /\ is_ready
    /\ work[c] # "none"
    /\ Goto(c, "hash", "submit")
    /\ UNCHANGED <<config, want, client_buffer, work, socket, counters>>

\* The late verdict that askForJob() reads as a job is counted after all.
ParseCreditsGood(c, line) ==
    /\ \/ line \in {"job", "GOOD"} /\ UNCHANGED errors
       \/ line \notin {"job", "GOOD"} /\ CountError(c)
    /\ accepted_share_count' = [accepted_share_count EXCEPT
            ![c] = IF line = "GOOD" THEN CountShare(@) ELSE @]
    /\ client_buffer' = [client_buffer EXCEPT ![c] = line]
    /\ work' = [work EXCEPT ![c] = IF line \in {"job", "baddiff"} THEN "fresh" ELSE @]
    /\ pc' = [pc EXCEPT ![c] = IF line \in Empty THEN "mine" ELSE "hash"]
    /\ UNCHANGED share_count

\* The verdict on a share is not waited for.
SubmitSendNoWait(c) ==
    /\ is_ready
    /\ is_connected[c]
    /\ Goto(c, "submit", "mine")
    /\ owed' = [owed EXCEPT ![c] = Append(@, "result")]
    /\ work' = [work EXCEPT ![c] = "sent"]
    /\ UNCHANGED <<config, want, client_buffer, is_connected, client_sock,
                   skipped, counters>>

-----------------------------------------------------------------------------
(* mine() and connectToNode() *)

\* mine(): nothing is done until the config is ready.
MineStart(c) ==
    /\ is_ready
    /\ Goto(c, "mine", "connect")
    /\ UNCHANGED <<config, want, client_buffer, work, socket, counters>>

\* connectToNode() reads is_ready again; mine() goes on if a connection is open.
ConnectReturn(c) ==
    /\ ~is_ready
    /\ Goto(c, "connect", IF is_connected[c] THEN "ask" ELSE "mine")
    /\ UNCHANGED <<config, want, client_buffer, work, socket, counters>>

\* An open connection is used again, whatever node it leads to.
ConnectReuse(c) ==
    /\ is_ready
    /\ is_connected[c]
    /\ Goto(c, "connect", "ask")
    /\ UNCHANGED <<config, want, client_buffer, work, socket, counters>>

ConnectDial(c) ==
    /\ is_ready
    /\ ~is_connected[c]
    /\ Goto(c, "connect", "open")
    /\ UNCHANGED <<config, want, client_buffer, work, socket, counters>>

\* A new socket, and the address read from the config.
DialOpen(c) ==
    /\ Goto(c, "open", "dial")
    /\ client_sock' = [client_sock EXCEPT ![c] = host]
    /\ UNCHANGED <<config, want, client_buffer, work, is_connected, owed,
                   skipped, counters>>

\* connect() succeeds; the node sends its version unasked.
DialConnected(c) ==
    /\ client_sock[c] # NoNode
    /\ Goto(c, "dial", "wait")
    /\ want' = [want EXCEPT ![c] = "version"]
    /\ is_connected' = [is_connected EXCEPT ![c] = TRUE]
    /\ owed' = [owed EXCEPT ![c] = <<"version">>]
    /\ skipped' = [skipped EXCEPT ![c] = 0]
    /\ UNCHANGED <<config, client_buffer, work, client_sock, counters>>

\* connect() fails: the socket is freed for the two seconds' sleep.
DialFailed(c) ==
    /\ Goto(c, "dial", "retry")
    /\ client_sock' = [client_sock EXCEPT ![c] = NoNode]
    /\ UNCHANGED <<config, want, client_buffer, work, is_connected, owed,
                   skipped, counters>>

\* Less than 100 seconds since the first attempt: once more, ready or not.
DialRetry(c) ==
    /\ Goto(c, "retry", "open")
    /\ UNCHANGED <<config, want, client_buffer, work, socket, counters>>

\* More than 100 seconds: the node is given up for every core.
DialTimeout(c) ==
    /\ Goto(c, "retry", "mine")
    /\ is_ready' = FALSE
    /\ UNCHANGED <<host, want, client_buffer, work, socket, counters>>

-----------------------------------------------------------------------------
(* parse(), the verdict in submit(), and the way back from waitForClientData() *)

\* askForJob() after its wait: parse() keeps the old job when it fails, except
\* for a difficulty that is no number, which fails after the hashes were taken.
\* mine() then goes by the buffer alone, not by what parse() returned.
Parse(c, line) ==
    /\ work' = [work EXCEPT ![c] = IF line \in {"job", "baddiff"} THEN "fresh" ELSE @]
    /\ \/ line = "job" /\ UNCHANGED errors
       \/ line # "job" /\ CountError(c)
    /\ client_buffer' = [client_buffer EXCEPT ![c] = line]
    /\ pc' = [pc EXCEPT ![c] = IF line \in Empty THEN "mine" ELSE "hash"]
    /\ UNCHANGED <<share_count, accepted_share_count>>

\* submit() after its wait: anything but GOOD, silence included, is an error.
Judge(c, line) ==
    /\ \/ /\ line = "GOOD"
          /\ errors' = [errors EXCEPT ![c] = 0]
          /\ accepted_share_count' = [accepted_share_count EXCEPT ![c] = CountShare(@)]
       \/ /\ line # "GOOD"
          /\ CountError(c)
          /\ UNCHANGED accepted_share_count
    /\ client_buffer' = [client_buffer EXCEPT ![c] = "nothing"]
    /\ pc' = [pc EXCEPT ![c] = "mine"]
    /\ UNCHANGED <<share_count, work>>

\* connectToNode() after its wait: any line, or none, will do for a version.
Greet(c, line, connected) ==
    /\ client_buffer' = [client_buffer EXCEPT ![c] = line]
    /\ pc' = [pc EXCEPT ![c] = IF connected THEN "ask" ELSE "lost"]
    /\ UNCHANGED <<work, counters>>

\* waitForClientData() returns to its caller with `line` in the buffer.
Deliver(c, line, connected) ==
    /\ want' = [want EXCEPT ![c] = "none"]
    /\ \/ want[c] = "version" /\ Greet(c, line, connected)
       \/ want[c] = "job"     /\ Parse(c, line)
       \/ want[c] = "result"  /\ Judge(c, line)

-----------------------------------------------------------------------------
(* waitForClientData() *)

\* is_ready was cleared since the request: the reply is left in the connection.
WaitSkip(c) ==
    /\ pc[c] = "wait"
    /\ ~is_ready
    /\ skipped[c] < MaxSkipped
    /\ skipped' = [skipped EXCEPT ![c] = @ + 1]
    /\ Deliver(c, "nothing", TRUE)
    /\ UNCHANGED <<config, is_connected, client_sock, owed>>

WaitBegin(c) ==
    /\ is_ready
    /\ Goto(c, "wait", "read")
    /\ UNCHANGED <<config, want, client_buffer, work, socket, counters>>

\* The next line of the stream, whichever request it answers.
ReadLine(c) ==
    /\ pc[c] = "read"
    /\ owed[c] # <<>>
    /\ \E line \in Lines(Head(owed[c])) : Deliver(c, line, TRUE)
    /\ owed' = [owed EXCEPT ![c] = Tail(@)]
    /\ UNCHANGED <<config, is_connected, client_sock, skipped>>

\* Closed by the pool, a read error, or 120 seconds gone when a byte arrives.
ReadLost(c) ==
    /\ pc[c] = "read"
    /\ \E line \in IF owed[c] = <<>> THEN {"nothing"} ELSE CutLines(Head(owed[c])) :
         Deliver(c, line, FALSE)
    /\ DropConnection(c)

\* connectToNode() lowers is_ready once more after the wait has done so.
ConnectLost(c) ==
    /\ Goto(c, "lost", "mine")
    /\ is_ready' = FALSE
    /\ UNCHANGED <<host, want, client_buffer, work, socket, counters>>

-----------------------------------------------------------------------------
(* askForJob(), the hash loop, submit() *)

\* Not ready any more: what is in the buffer decides whether mine() goes on.
AskSkip(c) ==
    /\ ~is_ready
    /\ Goto(c, "ask", IF client_buffer[c] \in Empty THEN "mine" ELSE "hash")
    /\ UNCHANGED <<config, want, client_buffer, work, socket, counters>>

AskSend(c) ==
    /\ is_ready
    /\ Send(c, "ask", "job")
    /\ UNCHANGED <<config, client_buffer, work, counters>>

AskSendFails(c) ==
    /\ is_ready
    /\ Goto(c, "ask", IF client_buffer[c] \in Empty THEN "mine" ELSE "hash")
    /\ DropConnection(c)
    /\ UNCHANGED <<want, client_buffer, work, counters>>

\* The nonce is found at an iteration that read is_ready as true.
HashFound(c) ==
    /\ is_ready
    /\ work[c] # "none"
    /\ Goto(c, "hash", "submit")
    /\ share_count' = [share_count EXCEPT ![c] = CountShare(@)]
    /\ UNCHANGED <<config, want, client_buffer, work, socket, errors,
                   accepted_share_count>>

\* is_ready was cleared, or no nonce up to the difficulty fits the hashes.
HashEnd(c) ==
    /\ Goto(c, "hash", "mine")
    /\ UNCHANGED <<config, want, client_buffer, work, socket, counters>>

SubmitSkip(c) ==
    /\ ~is_ready \/ ~is_connected[c]
    /\ Goto(c, "submit", "mine")
    /\ UNCHANGED <<config, want, client_buffer, work, socket, counters>>

SubmitSend(c) ==
    /\ is_ready
    /\ is_connected[c]
    /\ Send(c, "submit", "result")
    /\ work' = [work EXCEPT ![c] = "sent"]
    /\ UNCHANGED <<config, client_buffer, counters>>

SubmitSendFails(c) ==
    /\ is_ready
    /\ is_connected[c]
    /\ Goto(c, "submit", "mine")
    /\ DropConnection(c)
    /\ UNCHANGED <<want, client_buffer, work, counters>>

-----------------------------------------------------------------------------
(* What the main loop does to the state the tasks use: the environment *)

\* The node is withdrawn: network loss, missing identity, a new config, a fetch.
Withdraw ==
    /\ is_ready' = FALSE
    /\ UNCHANGED <<host, pc, want, client_buffer, work, socket, counters>>

\* fetch_pool_node() assigns host, in steps a dialling task can observe.
WriteHost(h) ==
    /\ host' = h
    /\ UNCHANGED <<is_ready, pc, want, client_buffer, work, socket, counters>>

Publish ==
    /\ is_ready' = TRUE
    /\ UNCHANGED <<host, pc, want, client_buffer, work, socket, counters>>

\* stop(): vTaskDelete() ends a task wherever it is; its job stays as it was. (At once:
\* that a task running on the other core ends a moment later is not modelled.)
KillTask(c) ==
    /\ pc[c] # "none"
    /\ pc' = [pc EXCEPT ![c] = "none"]
    /\ want' = [want EXCEPT ![c] = "none"]
    /\ UNCHANGED <<config, client_buffer, work, socket, counters>>

\* stop(): delete job[c], and the connection with it.
FreeJob(c) ==
    /\ client_buffer' = [client_buffer EXCEPT ![c] = "nothing"]
    /\ work' = [work EXCEPT ![c] = "none"]
    /\ errors' = [errors EXCEPT ![c] = 0]
    /\ share_count' = [share_count EXCEPT ![c] = 0]
    /\ accepted_share_count' = [accepted_share_count EXCEPT ![c] = 0]
    /\ CloseSocket(c)
    /\ UNCHANGED <<config, pc, want>>

\* The device reboots, by safe_reboot() or by a panic: back to Init.
Restart ==
    /\ is_ready' = FALSE
    /\ host' = NoNode
    /\ pc' \in [Cores -> {"mine", "none"}]
    /\ want' = [c \in Cores |-> "none"]
    /\ client_buffer' = [c \in Cores |-> "nothing"]
    /\ work' = [c \in Cores |-> "none"]
    /\ is_connected' = [c \in Cores |-> FALSE]
    /\ client_sock' = [c \in Cores |-> NoNode]
    /\ errors' = [c \in Cores |-> 0]
    /\ share_count' = [c \in Cores |-> 0]
    /\ accepted_share_count' = [c \in Cores |-> 0]
    /\ owed' = [c \in Cores |-> <<>>]
    /\ skipped' = [c \in Cores |-> 0]

-----------------------------------------------------------------------------
Connect(c) ==
    \/ ConnectReturn(c) \/ ConnectReuse(c) \/ ConnectDial(c)
    \/ DialOpen(c) \/ DialConnected(c) \/ DialFailed(c)
    \/ DialRetry(c) \/ DialTimeout(c) \/ ConnectLost(c)

Wait(c) == WaitSkip(c) \/ WaitBegin(c) \/ ReadLine(c) \/ ReadLost(c)

Work(c) ==
    \/ MineStart(c)
    \/ AskSkip(c) \/ AskSend(c) \/ AskSendFails(c)
    \/ HashFound(c) \/ HashEnd(c)
    \/ SubmitSkip(c) \/ SubmitSend(c) \/ SubmitSendFails(c)

\* One pass through mine(), a step at a time.
Mine(c) == Connect(c) \/ Wait(c) \/ Work(c)

\* The tasks rely on the main loop for the conditions here: a node is written
\* while none is on offer, and offered when it is whole; a task is deleted when no
\* node is on offer, and its job when the task is gone. DucoESP32 meets them.
MainLoop ==
    \/ Withdraw
    \/ Restart
    \/ host \in Nodes /\ Publish
    \/ ~is_ready /\ \E h \in Nodes \cup {HalfWritten} : WriteHost(h)
    \/ ~is_ready /\ \E c \in Cores : KillTask(c)
    \/ ~is_ready /\ \E c \in Cores : pc[c] = "none" /\ FreeJob(c)

Next == MainLoop \/ \E c \in Cores : Mine(c)

Spec == Init /\ [][Next]_miningVars

-----------------------------------------------------------------------------
(* Properties *)

\* Every reply of the pool is read by the request it answers, except those whose
\* wait was given up because is_ready fell (mining_esp32.cpp:84): a connection
\* lags by exactly the number of waits given up on it, never more, never less.
LagIsSkippedWaits ==
    \A c \in Cores : is_connected[c] /\ pc[c] # "none" =>
        Len(owed[c]) = skipped[c] + (IF want[c] = "none" THEN 0 ELSE 1)

\* On a connection where no wait was given up, the line read next answers the
\* request that waits for it: a verdict is never taken for a job, nor a job for a
\* verdict (askForJob() and submit() both take "the next line", :90-99).
AnswersTheRequest ==
    \A c \in Cores : want[c] # "none" /\ skipped[c] = 0 => owed[c] = <<want[c]>>

\* A task that blocks in read() waits for something the pool has sent or will
\* send: miner and pool are never both waiting for the other to speak. The socket
\* has no receive timeout (:34-35), so such a wait would not end.
NeverWaitsForNothing ==
    \A c \in Cores : pc[c] = "read" => is_connected[c] /\ owed[c] # <<>>

\* No more shares are accepted than were found, so that update_sensors() never
\* reports an accept rate above 100 % (duco_esp32.cpp:382), although a GOOD that
\* is read late is credited to another share than the one it was sent for.
AcceptedWithinFound ==
    \A c \in Cores : accepted_share_count[c] <= share_count[c]

\* Whoever loses a connection withdraws the node in the same step: no core goes
\* on asking a node that a task has just seen fail until loop() fetches anew.
LossWithdrawsNode ==
    [][\A c \in Cores : is_connected[c] /\ ~is_connected'[c] => ~is_ready']_miningVars

\* When the pool speaks its own language (Garbled is FALSE), a job request counts
\* as an error only on a connection that is lost or lags: errors, and with them the
\* reboot at ERROR_THRESHOLD, are never earned in step with the pool.
JobErrorHasCause ==
    [][\A c \in Cores : want[c] = "job" /\ errors'[c] > errors[c] =>
          ~is_connected'[c] \/ skipped'[c] > 0]_miningVars

\* What AcceptedWithinFound needs to be inductive: a share under judgement is
\* counted as found and not yet as accepted (or the count is at its cap).
ShareUnderJudgement ==
    \A c \in Cores : pc[c] = "submit" \/ want[c] = "result" =>
        accepted_share_count[c] < share_count[c] \/ share_count[c] = ShareCap

\* Where in mine() the flag and the pointer of the connection agree.
SocketState ==
    \A c \in Cores :
        /\ want[c] # "none" <=> pc[c] \in {"wait", "read"}
        /\ pc[c] \in {"wait", "read", "ask"} => is_connected[c]
        /\ pc[c] \in {"open", "dial", "retry", "lost"} => ~is_connected[c]
        /\ is_connected[c] => client_sock[c] # NoNode
        /\ ~is_connected[c] => owed[c] = <<>> /\ skipped[c] = 0

\* A node is on offer only once it is written in full (duco_esp32.cpp:255-262).
ReadyNodeIsWhole == is_ready => host \in Nodes

Ledger == INSTANCE ShareLedger
    WITH pending <- {c \in Cores : pc[c] = "submit" \/ want[c] = "result"}

\* Through all waits given up, lost connections and deleted tasks, a share is
\* counted once when found and accepted at most once while it is open: no verdict is
\* counted outside a submit() (mining_esp32.cpp:165-175).
ImplementsLedger == Ledger!Spec

\* The inductive invariant.
IInv ==
    /\ TypeOK
    /\ SocketState
    /\ ReadyNodeIsWhole
    /\ LagIsSkippedWaits
    /\ AnswersTheRequest
    /\ AcceptedWithinFound
    /\ ShareUnderJudgement

=============================================================================
