------------------------------- MODULE Sensors -------------------------------
(***************************************************************************)
(* update_sensors() (duco_esp32.cpp:277-396): what the device reports of   *)
(* its miners.  It runs at the head of every pass of loop() and reads, one *)
(* after the other and without a lock, what the tasks go on changing.      *)
(*                                                                         *)
(* Of the rest of the component this module knows what is proved of it:    *)
(* the counters move as ShareLedger says (MiningESP32 implements it), and  *)
(* a node is revoked before another is offered (NodeLease, which DucoESP32 *)
(* implements).                                                            *)
(*                                                                         *)
(* The loads are memory_order_relaxed; they are taken to happen in the     *)
(* order of the program.  hashrate, ping and share_rate are always         *)
(* published together and are one variable, rates.                         *)
(***************************************************************************)
EXTENDS Naturals

CONSTANTS
    SOC_CPU_CORES_NUM,
    Nodes,
    NoNode,       \* no node; the empty text of the pool sensor
    ShareCap      \* bound: the counters stop counting here

ASSUME SensorsAssumption ==
    /\ SOC_CPU_CORES_NUM \in Nat \ {0}
    /\ NoNode \notin Nodes
    /\ ShareCap \in Nat

Cores == 0 .. SOC_CPU_CORES_NUM - 1

VARIABLES
    \* the miners
    share_count, accepted_share_count, pending,
    problems,           \* cores whose job has too many errors
    \* the main loop
    main, is_ready, host,
    job, miner_handles, \* the cores whose entry is not null
    \* locals of update_sensors()
    is_system_ready, i, total_accepted, total_shares_count,
    \* the sensors' last states; 0 stands for a sum never published
    status, pool, cores_status, rates, accepted_shares, total_shares, accept_rate

ledgerVars == <<share_count, accepted_share_count, pending>>
miners == <<ledgerVars, problems>>
fleet == <<job, miner_handles>>
locals == <<is_system_ready, i, total_accepted, total_shares_count>>
sums == <<accepted_shares, total_shares, accept_rate>>
sensors == <<status, pool, cores_status, rates, sums>>
vars == <<miners, main, is_ready, host, fleet, locals, sensors>>

Ledger == INSTANCE ShareLedger

Sign == {"unknown", "task", "job", "errors", "fine"}   \* the signs ~ - X *

TypeOK ==
    /\ share_count \in [Cores -> 0 .. ShareCap]
    /\ accepted_share_count \in [Cores -> 0 .. ShareCap]
    /\ pending \subseteq Cores /\ problems \subseteq Cores
    /\ main \in {"idle", "cores", "accepted", "found", "publish", "stop", "stopped"}
    /\ is_ready \in BOOLEAN /\ host \in Nodes \cup {NoNode}
    /\ job \subseteq Cores /\ miner_handles \subseteq Cores
    /\ is_system_ready \in BOOLEAN /\ i \in Nat
    /\ total_accepted \in Nat /\ total_shares_count \in Nat
    /\ status \in BOOLEAN /\ pool \in Nodes \cup {NoNode}
    /\ cores_status \in [Cores -> Sign]
    /\ rates \in {"nan", "numbers"}
    /\ accepted_shares \in Nat /\ total_shares \in Nat
    /\ accept_rate \in [accepted : Nat, found : Nat]

Init ==
    /\ Ledger!Init
    /\ problems = {}
    /\ main = "idle" /\ is_ready = FALSE /\ host = NoNode
    /\ job = Cores /\ miner_handles \in SUBSET Cores
    /\ is_system_ready = FALSE /\ i = 0 /\ total_accepted = 0 /\ total_shares_count = 0
    /\ status = FALSE /\ pool = NoNode
    /\ cores_status = [c \in Cores |-> "unknown"]
    /\ rates = "nan"
    /\ accepted_shares = 0 /\ total_shares = 0
    /\ accept_rate = [accepted |-> 0, found |-> 0]

-----------------------------------------------------------------------------
(* Seeded faults: what the steps below must not be *)

\* disable_loop() is forgotten.
StopDoneLoops ==
    /\ main = "stop" /\ miner_handles = {}
    /\ main' = "idle"
    /\ UNCHANGED <<miners, is_ready, host, fleet, locals, sensors>>

\* A pool that is shown is not replaced by another.
UpdateStatusKeepsPool ==
    /\ main = "idle"
    /\ is_system_ready' = is_ready
    /\ status' = is_ready
    /\ pool' = IF ~is_ready THEN NoNode ELSE IF pool = NoNode THEN host ELSE pool
    /\ main' \in {"idle", "cores"}
    /\ UNCHANGED <<miners, is_ready, host, fleet, i, total_accepted, total_shares_count,
                   cores_status, rates, sums>>

-----------------------------------------------------------------------------
(* update_sensors() *)

\* Every pass: the node is looked at once, status and pool follow. Then the sums,
\* if UPDATE_INTERVAL has passed.
UpdateStatus ==
    /\ main = "idle"
    /\ is_system_ready' = is_ready
    /\ status' = is_ready
    /\ pool' = IF is_ready THEN host ELSE NoNode
    /\ main' \in {"idle", "cores"}
    /\ UNCHANGED <<miners, is_ready, host, fleet, i, total_accepted, total_shares_count,
                   cores_status, rates, sums>>

\* A handle that is not null belongs to a live task: the sign ~ (eDeleted, eInvalid)
\* is shown for none.
SignOf(c) ==
    IF c \notin job THEN "job" ELSE IF c \in problems THEN "errors" ELSE "fine"

UpdateCores ==
    /\ main = "cores"
    /\ cores_status' = [c \in Cores |-> SignOf(c)]
    /\ i' = 0 /\ total_accepted' = 0 /\ total_shares_count' = 0
    /\ main' = "accepted"
    /\ UNCHANGED <<miners, is_ready, host, fleet, is_system_ready, status, pool, rates, sums>>

NotReady ==
    /\ main = "accepted" /\ ~is_system_ready
    /\ rates' = "nan"
    /\ main' = "idle"
    /\ UNCHANGED <<miners, is_ready, host, fleet, locals, status, pool, cores_status, sums>>

\* For core i, accepted is read first,
ReadAccepted ==
    /\ main = "accepted" /\ is_system_ready
    /\ total_accepted' = total_accepted + (IF i \in job THEN accepted_share_count[i] ELSE 0)
    /\ main' = "found"
    /\ UNCHANGED <<miners, is_ready, host, fleet, is_system_ready, i, total_shares_count,
                   sensors>>

\* and found later.
ReadFound ==
    /\ main = "found"
    /\ total_shares_count' = total_shares_count + (IF i \in job THEN share_count[i] ELSE 0)
    /\ i' = i + 1
    /\ main' = IF i + 1 \in Cores THEN "accepted" ELSE "publish"
    /\ UNCHANGED <<miners, is_ready, host, fleet, is_system_ready, total_accepted, sensors>>

PublishSums ==
    /\ main = "publish"
    /\ rates' = "numbers"
    /\ accepted_shares' = total_accepted
    /\ total_shares' = total_shares_count
    /\ accept_rate' = IF total_shares_count > 0
                      THEN [accepted |-> total_accepted, found |-> total_shares_count]
                      ELSE accept_rate
    /\ main' = "idle"
    /\ UNCHANGED <<miners, is_ready, host, fleet, locals, status, pool, cores_status>>

-----------------------------------------------------------------------------
(* What goes on around it *)

\* The tasks, at any time.
Mine(c) ==
    /\ c \in miner_handles
    /\ Ledger!Find(c) \/ Ledger!Accept(c) \/ Ledger!Drop(c)
    /\ UNCHANGED <<problems, main, is_ready, host, fleet, locals, sensors>>

CountErrors(c) ==
    /\ problems' \in {problems \cup {c}, problems \ {c}}
    /\ UNCHANGED <<ledgerVars, main, is_ready, host, fleet, locals, sensors>>

\* A task gives the node up, or the main loop does.
Withdraw ==
    /\ is_ready' = FALSE
    /\ UNCHANGED <<miners, main, host, fleet, locals, sensors>>

\* fetch_pool_node(), later in the same pass.
Fetch ==
    /\ main = "idle" /\ ~is_ready
    /\ is_ready' = TRUE
    /\ host' \in Nodes
    /\ UNCHANGED <<miners, main, fleet, locals, sensors>>

\* A firmware update begins: no pass of loop() from here on.
OtaStart ==
    /\ main = "idle"
    /\ main' = "stop"
    /\ is_ready' = FALSE
    /\ UNCHANGED <<miners, host, fleet, locals, sensors>>

\* stop() for one core: the task is deleted, a share it had open dropped, then the
\* job with its counters.
StopCore(c) ==
    /\ main = "stop" /\ c \in miner_handles
    /\ Ledger!Clear(c)
    /\ problems' = problems \ {c}
    /\ job' = job \ {c}
    /\ miner_handles' = miner_handles \ {c}
    /\ UNCHANGED <<main, is_ready, host, locals, sensors>>

StopDone ==
    /\ main = "stop" /\ miner_handles = {}
    /\ main' = "stopped"
    /\ UNCHANGED <<miners, is_ready, host, fleet, locals, sensors>>

\* check_for_problem(), the end of an update, or a panic: everything is as in Init.
Reboot ==
    /\ Ledger!Reboot
    /\ problems' = {}
    /\ main' = "idle" /\ is_ready' = FALSE /\ host' = NoNode
    /\ job' = Cores /\ miner_handles' \in SUBSET Cores
    /\ is_system_ready' = FALSE /\ i' = 0 /\ total_accepted' = 0 /\ total_shares_count' = 0
    /\ status' = FALSE /\ pool' = NoNode
    /\ cores_status' = [c \in Cores |-> "unknown"]
    /\ rates' = "nan"
    /\ accepted_shares' = 0 /\ total_shares' = 0
    /\ accept_rate' = [accepted |-> 0, found |-> 0]

-----------------------------------------------------------------------------
\* Seeded fault: of every core, found is read before accepted.
ReadFoundFirst ==
    /\ main = "accepted" /\ is_system_ready
    /\ total_shares_count' = total_shares_count + (IF i \in job THEN share_count[i] ELSE 0)
    /\ main' = "found"
    /\ UNCHANGED <<miners, is_ready, host, fleet, is_system_ready, i, total_accepted, sensors>>

ReadAcceptedSecond ==
    /\ main = "found"
    /\ total_accepted' = total_accepted + (IF i \in job THEN accepted_share_count[i] ELSE 0)
    /\ i' = i + 1
    /\ main' = IF i + 1 \in Cores THEN "accepted" ELSE "publish"
    /\ UNCHANGED <<miners, is_ready, host, fleet, is_system_ready, total_shares_count, sensors>>

UpdateFoundFirst == UpdateCores \/ NotReady \/ ReadFoundFirst \/ ReadAcceptedSecond \/ PublishSums

Update == UpdateCores \/ NotReady \/ ReadAccepted \/ ReadFound \/ PublishSums

Next ==
    \/ UpdateStatus \/ Update
    \/ Withdraw \/ Fetch \/ OtaStart \/ StopDone \/ Reboot
    \/ \E c \in Cores : Mine(c) \/ CountErrors(c) \/ StopCore(c)

Spec == Init /\ [][Next]_vars

\* loop() is called again and again, and UPDATE_INTERVAL passes again and again.
Fairness ==
    /\ SF_vars(UpdateStatus /\ main' = "cores")
    /\ WF_vars(Update)

FairSpec == Spec /\ Fairness

-----------------------------------------------------------------------------
(* Properties *)

\* The accept rate on display is never above 100 %, although its two sums are taken
\* core by core while the tasks count on: of every core, accepted is read before
\* found (duco_esp32.cpp:349-350,382).
RateWithin100 == accept_rate.accepted <= accept_rate.found

\* The totals on display never fall but by a reboot: no sum is published from jobs
\* that a firmware update has deleted (duco.cpp:33, duco_esp32.cpp:370-375).
TotalsNeverFall ==
    [][\/ total_shares' >= total_shares /\ accepted_shares' >= accepted_shares
       \/ Reboot]_vars

Down == main \in {"stop", "stopped"}

\* A node that is withdrawn and not replaced disappears from the status, and the
\* rates become NAN, however often the tasks lower the flag between two reads of it.
WithdrawnIsShown ==
    ~is_ready ~> is_ready \/ Down \/ (~status /\ pool = NoNode /\ rates = "nan")

\* A node that stays on offer comes to be the one on display (:287-292).
NodeIsShown == \A n \in Nodes : (is_ready /\ host = n) ~> (pool = n \/ ~is_ready \/ host # n)

\* Withdrawn or exchanged between any two reads, the node on display is in the end the
\* one on offer (duco_esp32.cpp:277-344).
DisplayFollowsNode == WithdrawnIsShown /\ NodeIsShown

\* What RateWithin100 needs to be inductive: the counters agree core by core, and
\* so do the partial sums, the core in hand included.
SharesAgree ==
    \A c \in Cores :
        /\ accepted_share_count[c] <= share_count[c]
        /\ c \in pending => accepted_share_count[c] < share_count[c] \/ share_count[c] = ShareCap

Found(c) == IF c \in job THEN share_count[c] ELSE 0

SumsAgree ==
    /\ main \in {"accepted", "found"} => i \in Cores
    /\ main \in {"accepted", "publish"} => total_accepted <= total_shares_count
    /\ main = "found" => total_accepted <= total_shares_count + Found(i)

SensorsInv == TypeOK /\ SharesAgree /\ SumsAgree /\ RateWithin100

=============================================================================
