----------------------------- MODULE DucoESP8266 -----------------------------
(***************************************************************************)
(* The ESP8266 build: duco_esp8266.cpp and mining_esp8266.cpp.  There are  *)
(* no tasks.  loop() runs the one miner itself, a pass at a time, so that  *)
(* nothing on the device interleaves with mine(); what does interleave is  *)
(* the network: the pool answers late, in pieces or not at all, and closes *)
(* the connection at any point.                                            *)
(*                                                                         *)
(* Three things differ from the ESP32: the wait for a reply times out, a   *)
(* line that stalls for a second is handed over in two pieces, and a       *)
(* failed send does not withdraw the node.                                 *)
(***************************************************************************)
EXTENDS Naturals, Sequences

CONSTANTS
    Nodes,
    NoNode,           \* an empty host, no connection, the empty pool sensor
    ERROR_THRESHOLD,  \* mining.h:19, 55 in the code
    ShareCap,         \* bound: the share counters stop counting here
    MaxCut,           \* bound: lines cut in two on one connection
    Garbled           \* TRUE when the pool may answer with any line at all

ASSUME ESP8266Assumption ==
    /\ NoNode \notin Nodes
    /\ ERROR_THRESHOLD \in Nat \ {0}
    /\ ShareCap \in Nat
    /\ MaxCut \in Nat
    /\ Garbled \in BOOLEAN

VARIABLES
    pc,               \* where in loop() and mine() the device is
    \* MiningConfig
    is_ready, host,
    identified,       \* DUCO_USER and RIG_IDENTIFIER are not empty
    \* job[0]
    job,              \* it is not null
    want, client_buffer, work, is_connected,
    errors, share_count, accepted_share_count,
    \* client_sock, and the connection as the pool sees it
    link,             \* none (stopped), open, closed (by the pool or the network)
    owed,             \* lines sent, or still to be sent, that are unread
    cut,              \* lines handed over in two pieces, on this connection
    \* the sensors' last states; 0 stands for a sum never published
    status, pool, accepted_shares, total_shares

config == <<is_ready, host, identified>>
counters == <<errors, share_count, accepted_share_count>>
socket == <<is_connected, link, owed, cut>>
sensors == <<status, pool, accepted_shares, total_shares>>
vars == <<pc, is_ready, host, identified, job, want, client_buffer, work, is_connected,
          errors, share_count, accepted_share_count, link, owed, cut,
          status, pool, accepted_shares, total_shares>>

\* The lines the code tells apart, as in MiningESP32. "???" is one of the others:
\* readStringUntil() drops the '\n' that mine() and parse() compare it with.
Line == {"nothing", "job", "baddiff", "GOOD", "other"}
Reply == {"version", "job", "result"}
Owed == Reply \cup {"rest"}    \* rest: of a line whose beginning was handed over

\* A whole line, as the pool sends it (external: the Duino-Coin pool).
Answers ==
    {<<"version", "other">>, <<"job", "job">>, <<"result", "GOOD">>, <<"result", "other">>,
     <<"rest", "nothing">>, <<"rest", "other">>, <<"rest", "job">>}
Lines(reply) == {line \in Line : Garbled \/ <<reply, line>> \in Answers}

\* The beginning of one: a job may lack its difficulty, or a digit of it.
Cuts(reply) == {line \in Line \ {"nothing"} :
                  \/ Garbled \/ line = "other" \/ <<reply, line>> \in Answers
                  \/ reply \in {"job", "rest"} /\ line = "baddiff"}

Mining == {"connect", "dial", "retry", "wait", "ask", "hash", "submit"}

TypeOK ==
    /\ pc \in Mining \cup {"idle", "pass", "after", "stopped"}
    /\ is_ready \in BOOLEAN /\ host \in Nodes \cup {NoNode} /\ identified \in BOOLEAN
    /\ job \in BOOLEAN
    /\ want \in Reply \cup {"none"}
    /\ client_buffer \in Line
    /\ work \in {"none", "held"}
    /\ is_connected \in BOOLEAN
    /\ errors \in 0 .. ERROR_THRESHOLD
    /\ share_count \in 0 .. ShareCap /\ accepted_share_count \in 0 .. ShareCap
    /\ link \in {"none", "open", "closed"}
    /\ owed \in Seq(Owed)
    /\ cut \in 0 .. MaxCut
    /\ status \in BOOLEAN /\ pool \in Nodes \cup {NoNode}
    /\ accepted_shares \in 0 .. ShareCap /\ total_shares \in 0 .. ShareCap

\* setup() and start(): a job, no node. The web fields may still be empty.
Init ==
    /\ pc = "idle"
    /\ is_ready = FALSE /\ host = NoNode /\ identified \in BOOLEAN
    /\ job = TRUE
    /\ want = "none" /\ client_buffer = "nothing" /\ work = "none" /\ is_connected = FALSE
    /\ errors = 0 /\ share_count = 0 /\ accepted_share_count = 0
    /\ link = "none" /\ owed = <<>> /\ cut = 0
    /\ status = FALSE /\ pool = NoNode /\ accepted_shares = 0 /\ total_shares = 0

-----------------------------------------------------------------------------
CountError == errors' = IF errors < ERROR_THRESHOLD THEN errors + 1 ELSE errors

CountShare(n) == IF n < ShareCap THEN n + 1 ELSE n

problem == job /\ errors >= ERROR_THRESHOLD

\* client_sock.stop(): what the pool still sends dies with the connection.
StopClient == link' = "none" /\ owed' = <<>> /\ cut' = 0

\* client_sock.connected(): also while data is left to read.
Connected == link = "open" \/ (link = "closed" /\ owed # <<>>)

\* A request is written. A connection closed by the pool may take it all the same.
Send(reply) ==
    /\ link # "none"
    /\ pc' = "wait"
    /\ want' = reply
    /\ client_buffer' = "nothing"
    /\ owed' = IF link = "open" THEN Append(owed, reply) ELSE owed
    /\ UNCHANGED <<is_connected, link, cut>>

\* write() returns 0: the connection is given up, the node is not.
SendFails ==
    /\ is_connected' = FALSE
    /\ StopClient

-----------------------------------------------------------------------------
(* Seeded faults: what the steps below must not be *)

\* The 100 seconds are noticed and the loop goes on.
DialTimeoutGoesOn ==
    /\ pc = "retry"
    /\ pc' = "dial"
    /\ is_ready' = FALSE
    /\ UNCHANGED <<host, identified, job, want, client_buffer, work, socket, counters, sensors>>

\* The node is not withdrawn.
DialTimeoutKeepsNode ==
    /\ pc = "retry"
    /\ pc' = IF is_connected THEN "ask" ELSE "after"
    /\ UNCHANGED <<config, job, want, client_buffer, work, socket, counters, sensors>>

\* share_count++ is missing.
HashFoundUncounted ==
    /\ pc = "hash" /\ is_ready /\ work # "none"
    /\ pc' = "submit"
    /\ UNCHANGED <<config, job, want, client_buffer, work, socket, counters, sensors>>

-----------------------------------------------------------------------------
(* waitForClientData() returns to its caller with `line` in the buffer *)

\* connectToNode(): any line, or none, will do for a version.
Greet(connected) ==
    /\ pc' = IF connected THEN "ask" ELSE "after"
    /\ is_ready' = (is_ready /\ connected)
    /\ UNCHANGED <<work, counters>>

\* askForJob(): what parse() keeps and what it counts. mine() goes by the buffer.
Parse(line) ==
    /\ work' = IF line \in {"job", "baddiff"} THEN "held" ELSE work
    /\ \/ line = "job" /\ UNCHANGED errors
       \/ line # "job" /\ CountError
    /\ pc' = IF line = "nothing" THEN "after" ELSE "hash"
    /\ UNCHANGED <<is_ready, share_count, accepted_share_count>>

\* submit(): anything but GOOD, silence included, is an error.
Judge(line) ==
    /\ \/ /\ line = "GOOD"
          /\ errors' = 0
          /\ accepted_share_count' = CountShare(accepted_share_count)
       \/ /\ line # "GOOD"
          /\ CountError
          /\ UNCHANGED accepted_share_count
    /\ pc' = "after"
    /\ UNCHANGED <<is_ready, share_count, work>>

Deliver(line, connected) ==
    /\ pc = "wait"
    /\ want' = "none"
    /\ client_buffer' = IF want = "result" THEN "nothing" ELSE line
    /\ is_connected' = connected
    /\ \/ want = "version" /\ Greet(connected)
       \/ want = "job"     /\ Parse(line)
       \/ want = "result"  /\ Judge(line)
    /\ UNCHANGED <<host, identified, job, sensors>>

\* Seeded fault: the wait ends after 10 seconds, the connection does not.
WaitTimeoutKeepsLink ==
    /\ link = "open"
    /\ Deliver("nothing", TRUE)
    /\ UNCHANGED <<link, owed, cut>>

-----------------------------------------------------------------------------
(* waitForClientData() *)

\* The next line of the stream, whichever request it answers.
WaitRead ==
    /\ owed # <<>>
    /\ \E line \in Lines(Head(owed)) : Deliver(line, TRUE)
    /\ owed' = Tail(owed)
    /\ UNCHANGED <<link, cut>>

\* readStringUntil() waits one second for the next byte and then returns what it has;
\* the rest comes later, if the connection holds.
WaitCut ==
    /\ owed # <<>>
    /\ cut < MaxCut
    /\ \E line \in Cuts(Head(owed)) : Deliver(line, TRUE)
    /\ \/ link = "open" /\ owed' = <<"rest">> \o Tail(owed)
       \/ link = "closed" /\ owed' = <<>>
    /\ cut' = cut + 1
    /\ UNCHANGED link

\* Closed by the pool and nothing left to read.
WaitClosed ==
    /\ link = "closed" /\ owed = <<>>
    /\ Deliver("nothing", FALSE)
    /\ UNCHANGED <<link, owed, cut>>

\* 10 seconds without a byte, whether or not the reply is on its way.
WaitTimeout ==
    /\ link = "open"
    /\ Deliver("nothing", FALSE)
    /\ StopClient

-----------------------------------------------------------------------------
(* mine(): connectToNode(), askForJob(), the hash loop, submit() *)

ConnectReuse ==
    /\ pc = "connect"
    /\ is_connected /\ Connected
    /\ pc' = "ask"
    /\ UNCHANGED <<config, job, want, client_buffer, work, socket, counters, sensors>>

\* is_connected stays as it was: TRUE, when the pool closed an idle connection.
ConnectDial ==
    /\ pc = "connect"
    /\ ~(is_connected /\ Connected)
    /\ pc' = "dial"
    /\ UNCHANGED <<config, job, want, client_buffer, work, socket, counters, sensors>>

\* The node sends its version unasked.
DialConnected ==
    /\ pc = "dial"
    /\ pc' = "wait"
    /\ want' = "version"
    /\ client_buffer' = "nothing"
    /\ is_connected' = TRUE
    /\ link' = "open" /\ owed' = <<"version">> /\ cut' = 0
    /\ UNCHANGED <<config, job, work, counters, sensors>>

DialFailed ==
    /\ pc = "dial"
    /\ pc' = "retry"
    /\ StopClient
    /\ UNCHANGED <<config, job, want, client_buffer, work, is_connected, counters, sensors>>

\* Less than 100 seconds since the first attempt.
DialRetry ==
    /\ pc = "retry"
    /\ pc' = "dial"
    /\ UNCHANGED <<config, job, want, client_buffer, work, socket, counters, sensors>>

\* More than 100 seconds: the node is given up; mine() goes on by is_connected alone.
DialTimeout ==
    /\ pc = "retry"
    /\ pc' = IF is_connected THEN "ask" ELSE "after"
    /\ is_ready' = FALSE
    /\ UNCHANGED <<host, identified, job, want, client_buffer, work, socket, counters, sensors>>

AskSend ==
    /\ pc = "ask"
    /\ Send("job")
    /\ UNCHANGED <<config, job, work, counters, sensors>>

\* No request, and no error counted: the buffer decides whether mine() goes on.
AskSendFails ==
    /\ pc = "ask"
    /\ pc' = IF client_buffer = "nothing" THEN "after" ELSE "hash"
    /\ SendFails
    /\ UNCHANGED <<config, job, want, client_buffer, work, counters, sensors>>

HashFound ==
    /\ pc = "hash" /\ is_ready /\ work # "none"
    /\ pc' = "submit"
    /\ share_count' = CountShare(share_count)
    /\ UNCHANGED <<config, job, want, client_buffer, work, socket, errors,
                   accepted_share_count, sensors>>

\* The node was given up, or no nonce up to the difficulty fits the hashes.
HashEnd ==
    /\ pc = "hash"
    /\ pc' = "after"
    /\ UNCHANGED <<config, job, want, client_buffer, work, socket, counters, sensors>>

SubmitSend ==
    /\ pc = "submit"
    /\ Send("result")
    /\ UNCHANGED <<config, job, work, counters, sensors>>

SubmitSendFails ==
    /\ pc = "submit"
    /\ pc' = "after"
    /\ SendFails
    /\ UNCHANGED <<config, job, want, client_buffer, work, counters, sensors>>

-----------------------------------------------------------------------------
(* loop(), around mine() *)

\* update_sensors(): status and pool on every pass, the totals with a node and when
\* UPDATE_INTERVAL has passed.
UpdateSensors ==
    /\ pc = "idle"
    /\ pc' = "pass"
    /\ status' = is_ready
    /\ pool' = IF is_ready THEN host ELSE NoNode
    /\ \/ UNCHANGED <<accepted_shares, total_shares>>
       \/ /\ is_ready
          /\ accepted_shares' = IF job THEN accepted_share_count ELSE 0
          /\ total_shares' = IF job THEN share_count ELSE 0
    /\ UNCHANGED <<config, job, want, client_buffer, work, socket, counters>>

\* No network, or nobody to mine for: the node is withdrawn and the pass ends.
PassBlocked ==
    /\ pc = "pass"
    /\ pc' = "idle"
    /\ is_ready' = FALSE
    /\ UNCHANGED <<host, identified, job, want, client_buffer, work, socket, counters, sensors>>

\* A pass without a check, or one that finds no problem.
PassRuns ==
    /\ pc = "pass" /\ identified
    /\ pc' = IF is_ready /\ job THEN "connect" ELSE "after"
    /\ UNCHANGED <<config, job, want, client_buffer, work, socket, counters, sensors>>

AfterReady ==
    /\ pc = "after" /\ is_ready
    /\ pc' = "idle"
    /\ UNCHANGED <<config, job, want, client_buffer, work, socket, counters, sensors>>

\* Not ready: CHECK_INTERVAL has not passed, or the fetch fails at one of its exits.
FetchNothing ==
    /\ pc = "after" /\ ~is_ready
    /\ pc' = "idle"
    /\ UNCHANGED <<config, job, want, client_buffer, work, socket, counters, sensors>>

Fetch ==
    /\ pc = "after" /\ ~is_ready
    /\ pc' = "idle"
    /\ is_ready' = TRUE
    /\ host' \in Nodes
    /\ UNCHANGED <<identified, job, want, client_buffer, work, socket, counters, sensors>>

-----------------------------------------------------------------------------
(* Between two passes, and from outside *)

\* sync_web_config() with a change; a field once filled is never emptied.
SyncWebConfig ==
    /\ pc = "idle"
    /\ is_ready' = FALSE
    /\ identified' \in {identified, TRUE}
    /\ UNCHANGED <<pc, host, job, want, client_buffer, work, socket, counters, sensors>>

\* on_ota_global_state(): disable_loop(), then stop() deletes the job.
OtaStart ==
    /\ pc = "idle"
    /\ pc' = "stopped"
    /\ is_ready' = FALSE
    /\ job' = FALSE
    /\ errors' = 0 /\ share_count' = 0 /\ accepted_share_count' = 0
    /\ client_buffer' = "nothing" /\ work' = "none" /\ is_connected' = FALSE
    /\ StopClient
    /\ UNCHANGED <<host, identified, want, sensors>>

\* The pool closes, or the network drops the connection; what has come is kept.
PoolCloses ==
    /\ link = "open"
    /\ link' = "closed"
    /\ \E n \in 0 .. Len(owed) : owed' = SubSeq(owed, 1, n)
    /\ UNCHANGED <<pc, config, job, want, client_buffer, work, is_connected, counters, cut,
                   sensors>>

PowerOn ==
    /\ pc' = "idle"
    /\ is_ready' = FALSE /\ host' = NoNode /\ identified' \in BOOLEAN
    /\ job' = TRUE
    /\ want' = "none" /\ client_buffer' = "nothing" /\ work' = "none" /\ is_connected' = FALSE
    /\ errors' = 0 /\ share_count' = 0 /\ accepted_share_count' = 0
    /\ link' = "none" /\ owed' = <<>> /\ cut' = 0
    /\ status' = FALSE /\ pool' = NoNode /\ accepted_shares' = 0 /\ total_shares' = 0

\* Seeded fault: the check that finds the problem only logs it.
CheckLogs ==
    /\ pc = "pass" /\ identified /\ problem
    /\ pc' = "idle"
    /\ UNCHANGED <<config, job, want, client_buffer, work, socket, counters, sensors>>

\* The check is due and finds the problem: safe_reboot().
CheckReboot == pc = "pass" /\ identified /\ problem /\ PowerOn

\* A panic, a watchdog, the end of an update, the power.
Restart == PowerOn

-----------------------------------------------------------------------------
Wait == WaitRead \/ WaitCut \/ WaitClosed \/ WaitTimeout

Mine ==
    \/ ConnectReuse \/ ConnectDial \/ DialConnected \/ DialFailed \/ DialRetry \/ DialTimeout
    \/ Wait \/ AskSend \/ AskSendFails
    \/ HashFound \/ HashEnd \/ SubmitSend \/ SubmitSendFails

Loop ==
    \/ UpdateSensors \/ PassBlocked \/ PassRuns \/ CheckReboot
    \/ AfterReady \/ FetchNothing \/ Fetch

Next == Mine \/ Loop \/ SyncWebConfig \/ OtaStart \/ PoolCloses \/ Restart

Spec == Init /\ [][Next]_vars

\* The device runs on; 100 seconds of failed dials pass (each lasts two at least);
\* the network is up again and again when a check falls due.
Fairness ==
    /\ WF_vars(Mine)
    /\ WF_vars(Loop)
    /\ SF_vars(DialTimeout)
    /\ SF_vars(PassRuns)
    /\ SF_vars(CheckReboot)

FairSpec == Spec /\ Fairness

-----------------------------------------------------------------------------
(* Properties *)

\* A connection that holds lags behind by the lines that were cut in two, and by
\* nothing else: a late reply never meets a later request, for its connection is
\* stopped when the 10 seconds are over (mining_esp8266.cpp:72-77).
LagIsCuts ==
    is_connected /\ link = "open" => Len(owed) = IF want = "none" THEN cut ELSE cut + 1

\* On a connection without a cut line, the line read next answers the request that
\* waits for it.
AnswersTheRequest ==
    want # "none" /\ link = "open" /\ cut = 0 => owed = <<want>>

\* The accept rate on display is never above 100 %, and what is on display is behind
\* the counters, never ahead (duco_esp8266.cpp:180-217).
ShownWithinCounted ==
    /\ accepted_shares <= total_shares
    /\ job => total_shares <= share_count /\ accepted_shares <= accepted_share_count

\* With a pool that speaks its own language, a job request counts as an error only on
\* a connection that is lost, closing, or has had a line cut in two.
JobErrorHasCause ==
    [][want = "job" /\ errors' > errors =>
          ~is_connected' \/ cut' > 0 \/ link = "closed"]_vars

Ledger == INSTANCE ShareLedger
    WITH Cores <- {0}, pending <- IF pc = "submit" \/ want = "result" THEN {0} ELSE {},
         share_count <- [c \in {0} |-> share_count],
         accepted_share_count <- [c \in {0} |-> accepted_share_count]

\* A share is counted once when found and accepted at most once while it is open.
ImplementsLedger == Ledger!Spec

\* Every pass ends, though the pool falls silent or the network fails at any point: the
\* 10 seconds of a wait and the 100 seconds of dialling are all that holds loop() up. (On
\* the ESP32 a wait may last for ever.) A line once begun is taken to end or to stall: a
\* pool that sends a byte a second and no '\n' would hold readStringUntil() for ever.
PassEnds == pc \in Mining ~> pc \notin Mining

\* A device that has no connection finds one or gives its node up: it does not stay
\* with a node that cannot be reached.
NodeIsReached == (is_ready /\ link = "none") ~> (link # "none" \/ ~is_ready)

\* A miner with too many errors recovers, or the device restarts, or an update
\* deletes the miner.
ProblemEnds == problem ~> ~problem

\* Where the flag and the connection agree.
LinkState ==
    /\ want # "none" <=> pc = "wait"
    /\ pc = "wait" => link # "none"
    /\ pc \in {"wait", "ask", "hash", "submit"} /\ link # "none" => is_connected
    /\ link = "none" => owed = <<>> /\ cut = 0
    /\ link = "open" => is_connected
    /\ pc = "retry" => link = "none"
    /\ pc = "stopped" => ~job /\ ~is_ready
    /\ ~job => pc = "stopped"

\* A share under judgement is counted as found and not yet as accepted.
ShareUnderJudgement ==
    /\ accepted_share_count <= share_count
    /\ pc = "submit" \/ want = "result" =>
         accepted_share_count < share_count \/ share_count = ShareCap

\* The inductive invariant.
ESP8266Inv ==
    /\ TypeOK
    /\ LinkState
    /\ (is_ready => host \in Nodes)
    /\ LagIsCuts
    /\ AnswersTheRequest
    /\ ShareUnderJudgement
    /\ ShownWithinCounted

=============================================================================
