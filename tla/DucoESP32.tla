------------------------------ MODULE DucoESP32 ------------------------------
(***************************************************************************)
(* The ESP32 component as a whole: the miner tasks of MiningESP32 and the  *)
(* ESPHome main loop with Duco's part in it, which watches the miners,     *)
(* fetches a pool node, takes a new identity from the web page, stops      *)
(* everything for a firmware update and reboots the device                 *)
(* (duco_esp32.cpp, duco.cpp).                                             *)
(*                                                                         *)
(* The main loop is one more task: its steps interleave with the miners'.  *)
(* Its timers (CHECK_INTERVAL) and the network are left out: whatever      *)
(* loop() may do on some pass it may do on any.  So are the sensors and    *)
(* the component's warning status, which nothing here reads.               *)
(***************************************************************************)
EXTENDS MiningESP32

VARIABLES
    main,           \* where the main loop is
    identified,     \* DUCO_USER and RIG_IDENTIFIER are not empty
    job,            \* the cores whose job[] is not null
    miner_handles   \* the cores whose miner_handles[] is not null

ASSUME CoresAssumption == Cores \subseteq Nat

fleet == <<job, miner_handles>>
ducoVars == <<main, identified, job, miner_handles>>
vars == <<miningVars, ducoVars>>

Fetching == {"resolve", "request", "commit", "publish"}
Stopping == {"stop", "free"}
MainState == {"idle", "reboot", "stopped"} \cup Fetching \cup Stopping

DucoTypeOK ==
    /\ TypeOK
    /\ main \in MainState
    /\ identified \in BOOLEAN
    /\ job \subseteq Cores
    /\ miner_handles \subseteq Cores

\* setup() and start(): every core gets a job, and a task if it can be created.
DucoInit ==
    /\ Init
    /\ main = "idle"
    /\ identified \in BOOLEAN
    /\ job = Cores
    /\ miner_handles = {c \in Cores : pc[c] # "none"}

MainGoto(from, to) == main = from /\ main' = to

-----------------------------------------------------------------------------
(* Seeded faults: what the steps below must not be *)

\* The pool is asked for a node without an identity.
LoopFetchUnidentified ==
    /\ ~is_ready
    /\ MainGoto("idle", "resolve")
    /\ Withdraw
    /\ UNCHANGED <<identified, fleet>>

\* A node in use is refreshed without lowering is_ready first.
LoopFetchUnderLease ==
    /\ identified
    /\ MainGoto("idle", "resolve")
    /\ UNCHANGED <<miningVars, identified, fleet>>

\* problem() asks for more errors than the threshold.
LoopProblemOffByOne ==
    /\ identified
    /\ \E c \in job : errors[c] > ERROR_THRESHOLD
    /\ MainGoto("idle", "reboot")
    /\ UNCHANGED <<miningVars, identified, fleet>>

\* is_ready goes up before host, port and node_id are all assigned.
FetchAnsweredReady ==
    /\ MainGoto("request", "commit")
    /\ is_ready' = TRUE
    /\ host' = HalfWritten
    /\ UNCHANGED <<pc, want, client_buffer, work, socket, counters, identified, fleet>>

\* The node is stored and is_ready forgotten.
FetchPublishForgets ==
    /\ MainGoto("publish", "idle")
    /\ UNCHANGED <<miningVars, identified, fleet>>

NextToStop(c) == c \in miner_handles /\ \A d \in miner_handles : c <= d

\* The job is deleted under a running task.
StopTaskSpared(c) ==
    /\ MainGoto("stop", "free")
    /\ NextToStop(c)
    /\ UNCHANGED <<miningVars, identified, fleet>>

\* The handle is not set to null.
StopJobKeepsHandle(c) ==
    /\ MainGoto("free", "stop")
    /\ NextToStop(c)
    /\ FreeJob(c)
    /\ job' = job \ {c}
    /\ UNCHANGED <<identified, miner_handles>>

\* Only the first cores are stopped.
StopDoneEarly ==
    /\ MainGoto("stop", "stopped")
    /\ UNCHANGED <<miningVars, identified, fleet>>

-----------------------------------------------------------------------------
(* loop() *)

\* No network, or no identity yet: the node is withdrawn on every pass.
LoopBlocked ==
    /\ main = "idle"
    /\ Withdraw
    /\ UNCHANGED ducoVars

\* check_for_problem(): some job has too many errors, a reboot is due in a second.
LoopProblem ==
    /\ identified
    /\ \E c \in job : problem(c)
    /\ MainGoto("idle", "reboot")
    /\ UNCHANGED <<miningVars, identified, fleet>>

LoopFetch ==
    /\ identified
    /\ ~is_ready
    /\ MainGoto("idle", "resolve")
    /\ Withdraw
    /\ UNCHANGED <<identified, fleet>>

-----------------------------------------------------------------------------
(* fetch_pool_node() *)

\* No address, no socket, no connection, a bad answer: again in a minute.
FetchFail ==
    /\ main \in {"resolve", "request"}
    /\ main' = "idle"
    /\ Withdraw
    /\ UNCHANGED <<identified, fleet>>

\* The name is resolved, a socket opened to the Poolpicker and the request sent.
FetchConnect ==
    /\ MainGoto("resolve", "request")
    /\ UNCHANGED <<miningVars, identified, fleet>>

\* A node is found in the answer; host, port and node_id are being assigned.
FetchAnswered ==
    /\ MainGoto("request", "commit")
    /\ WriteHost(HalfWritten)
    /\ UNCHANGED <<identified, fleet>>

FetchStored ==
    /\ MainGoto("commit", "publish")
    /\ \E n \in Nodes : WriteHost(n)
    /\ UNCHANGED <<identified, fleet>>

FetchPublish ==
    /\ MainGoto("publish", "idle")
    /\ Publish
    /\ UNCHANGED <<identified, fleet>>

-----------------------------------------------------------------------------
(* Callbacks that run between two passes of loop() *)

\* sync_web_config() with something new in it; with nothing new it does nothing.
SyncWebConfig ==
    /\ main \in {"idle", "stopped"}
    /\ Withdraw
    /\ identified' \in {identified, TRUE}
    /\ UNCHANGED <<main, fleet>>

\* on_ota_global_state(OTA_STARTED): no loop() from here on, and stop() begins.
OtaStart ==
    /\ main \in {"idle", "stopped"}
    /\ main' = "stop"
    /\ Withdraw
    /\ UNCHANGED <<identified, fleet>>

-----------------------------------------------------------------------------
(* stop(): the tasks are deleted in the order of their cores *)

StopTask(c) ==
    /\ MainGoto("stop", "free")
    /\ NextToStop(c)
    /\ KillTask(c)
    /\ UNCHANGED <<identified, fleet>>

StopJob(c) ==
    /\ MainGoto("free", "stop")
    /\ NextToStop(c)
    /\ FreeJob(c)
    /\ job' = job \ {c}
    /\ miner_handles' = miner_handles \ {c}
    /\ UNCHANGED identified

StopDone ==
    /\ MainGoto("stop", "stopped")
    /\ miner_handles = {}
    /\ UNCHANGED <<miningVars, identified, fleet>>

-----------------------------------------------------------------------------
(* Reboots *)

\* Everything is built anew; the identity is the YAML file's until the next sync.
Boot ==
    /\ Restart
    /\ main' = "idle"
    /\ identified' \in BOOLEAN
    /\ job' = Cores
    /\ miner_handles' = {c \in Cores : pc'[c] # "none"}

\* safe_reboot() after the second's delay, whatever the miners did in it; or the
\* end of the firmware update.
Reboot == main \in {"reboot", "stopped"} /\ Boot

\* socket_ip() has no socket to give: the null pointer is used at once
\* (mining_esp32.cpp:34-35), and the device panics.
CorePanic(c) == pc[c] = "open" /\ Boot

-----------------------------------------------------------------------------
CoreStep(c) == Mine(c) /\ UNCHANGED ducoVars

Loop == LoopBlocked \/ LoopProblem \/ LoopFetch

Fetch == FetchFail \/ FetchConnect \/ FetchAnswered \/ FetchStored \/ FetchPublish

Stop == StopDone \/ \E c \in Cores : StopTask(c) \/ StopJob(c)

DucoNext ==
    \/ Loop \/ Fetch \/ Stop
    \/ SyncWebConfig \/ OtaStart \/ Reboot
    \/ \E c \in Cores : CoreStep(c) \/ CorePanic(c)

DucoSpec == DucoInit /\ [][DucoNext]_vars

-----------------------------------------------------------------------------
(***************************************************************************)
(* Fairness.  The scheduler runs every task and the main loop again and    *)
(* again.  The network comes back (LoopFetch), the Poolpicker answers in   *)
(* the end with a node (FetchConnect, FetchAnswered), and a node that      *)
(* cannot be reached runs into the 100 seconds (DialTimeout).  These are   *)
(* strong: one failed attempt, or one reading of a flag that flips, may    *)
(* come between two enabled moments.  That a read ends is the pool's part  *)
(* and stated apart: it answers what it owes, and closes nothing.          *)
(***************************************************************************)
Running(c) == (Connect(c) \/ WaitSkip(c) \/ WaitBegin(c) \/ Work(c)) /\ UNCHANGED ducoVars

TaskFairness ==
    \A c \in Cores :
        /\ SF_vars(Running(c))
        /\ SF_vars(DialTimeout(c) /\ UNCHANGED ducoVars)

MainFairness ==
    /\ SF_vars(LoopProblem)
    /\ SF_vars(LoopFetch)
    /\ SF_vars(FetchConnect)
    /\ SF_vars(FetchAnswered)
    /\ WF_vars(Fetch)
    /\ WF_vars(Stop)
    /\ WF_vars(main = "reboot" /\ Reboot)

PoolFairness == \A c \in Cores : WF_vars(ReadLine(c) /\ UNCHANGED ducoVars)

FairSpec == DucoSpec /\ TaskFairness /\ MainFairness /\ PoolFairness

-----------------------------------------------------------------------------
(* Properties *)

\* The miners see of the main loop only what MiningESP32 allows: a node is written
\* while none is on offer and offered when it is whole, a task is deleted when no
\* node is on offer and its job when the task is gone. All that MiningESP32 says of
\* the tasks therefore holds in the running component.
ImplementsMining == Spec

Lease == INSTANCE NodeLease WITH lease <- IF is_ready THEN host ELSE NoNode

\* No task ever finds one node exchanged for another, or half of one, while
\* is_ready stays true (the fields are read without a lock).
ImplementsLease == Lease!Spec

\* delete job[c] comes after the end of the task that runs on it, and no step of
\* the task remains (duco_esp32.cpp:68-75): no use of a freed MiningJob.
NoUseAfterFree == \A c \in Cores : pc[c] # "none" => c \in job

\* After stop() nothing mines and no pool connection of a deleted miner is left
\* open, whatever the miners were doing when the update began.
StoppedIsQuiet ==
    main = "stopped" =>
        /\ ~is_ready
        /\ \A c \in Cores : pc[c] = "none" /\ client_sock[c] = NoNode

\* A node is on offer only to a device that has an identity: no job is asked for in
\* the name of nobody (duco_esp32.cpp:27-33).
ReadyIsIdentified == is_ready => identified

\* While the main loop fetches a node or stops the miners, nobody raises is_ready:
\* it is the only one that does.
FlagIsDown ==
    main \in Fetching \cup Stopping \cup {"stopped"} => ~is_ready

\* The main loop's tables and the tasks agree, between two steps of stop() too, and
\* a core without a task has no connection.
HandlesAreTasks ==
    /\ miner_handles \subseteq job
    /\ \A c \in Cores :
         /\ pc[c] # "none" <=> c \in miner_handles /\ ~(main = "free" /\ NextToStop(c))
         /\ c \notin miner_handles => client_sock[c] = NoNode
    /\ main = "stopped" => miner_handles = {}

\* What the steps of a fetch rely on from one to the next.
FetchInOrder ==
    /\ main \in Fetching \/ is_ready => identified
    /\ main = "publish" => host \in Nodes

\* The inductive invariant.
DucoInv ==
    /\ DucoTypeOK
    /\ FlagIsDown
    /\ HandlesAreTasks
    /\ FetchInOrder

-----------------------------------------------------------------------------
(* Liveness *)

Down == main \in Stopping \cup {"stopped"}

\* A miner with too many errors gets over them or the device reboots: it is never
\* left to err for ever (check_for_problem()), a firmware update apart.
ProblemEnds ==
    \A c \in Cores : problem(c) ~> ~problem(c) \/ main = "reboot" \/ Down

\* A node that was lost is replaced by another, if the Poolpicker has one to give:
\* until then the device can only reboot, into an identity or into none.
NodeReturns ==
    ~is_ready /\ identified ~> is_ready \/ ~identified \/ main = "reboot" \/ Down

\* Every pass of mine() comes to its end, whatever becomes of is_ready and the
\* node in it: a task is stuck neither in the dial loop nor in a wait, provided the
\* pool answers what it was asked.
MineReturns == \A c \in Cores : []<>(pc[c] \in {"mine", "none"})

=============================================================================
