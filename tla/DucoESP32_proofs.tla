-------------------------- MODULE DucoESP32_proofs ---------------------------
(***************************************************************************)
(* Proofs about DucoESP32, for every set of cores and nodes and every      *)
(* value of the bounds.  The main loop implements the environment that     *)
(* MiningESP32 assumes, so that every theorem about the tasks holds in the *)
(* component; with them DucoInv is inductive.                              *)
(***************************************************************************)
EXTENDS DucoESP32, MiningESP32_proofs

USE CoresAssumption

-----------------------------------------------------------------------------
(* A step of a task, seen from the main loop *)

\* A task steps only while it exists, ends by no step of its own, keeps to its own
\* connection, and never raises is_ready.
LEMMA TaskFrame ==
  ASSUME TypeOK, NEW c \in Cores, Mine(c)
  PROVE  /\ pc[c] # "none" /\ pc'[c] # "none"
         /\ \A d \in Cores \ {c} : pc'[d] = pc[d] /\ client_sock'[d] = client_sock[d]
         /\ is_ready' => is_ready
         /\ host' = host
<1>1. CASE Connect(c)
  BY <1>1 DEF Connect, ConnectReturn, ConnectReuse, ConnectDial, DialOpen, DialConnected,
      DialFailed, DialRetry, DialTimeout, ConnectLost, Goto, config, socket, TypeOK
<1>2. CASE Wait(c)
  <2>1. ASSUME NEW line, NEW connected, Deliver(c, line, connected)
        PROVE  pc'[c] # "none" /\ \A d \in Cores \ {c} : pc'[d] = pc[d]
    BY <2>1 DEF Deliver, Greet, Parse, Judge, TypeOK
  <2>2. CASE WaitSkip(c)
    BY <2>1, <2>2 DEF WaitSkip, config
  <2>3. CASE WaitBegin(c)
    BY <2>3 DEF WaitBegin, Goto, config, socket, TypeOK
  <2>4. CASE ReadLine(c)
    BY <2>1, <2>4 DEF ReadLine, config
  <2>5. CASE ReadLost(c)
    BY <2>1, <2>5 DEF ReadLost, DropConnection, CloseSocket, TypeOK
  <2> QED BY <1>2, <2>2, <2>3, <2>4, <2>5 DEF Wait
<1>3. CASE Work(c)
  BY <1>3 DEF Work, MineStart, AskSkip, AskSend, AskSendFails, HashFound, HashEnd,
      SubmitSkip, SubmitSend, SubmitSendFails, Send, DropConnection, CloseSocket, Goto,
      config, socket, TypeOK
<1> QED BY <1>1, <1>2, <1>3 DEF Mine

-----------------------------------------------------------------------------
(* Refinement *)

LEMMA DucoInitMining == DucoInit => Init
  BY DEF DucoInit

\* Each step of the main loop is one the tasks are ready for.
LEMMA DucoStepMining ==
  ASSUME DucoInv, [DucoNext]_vars
  PROVE  [Next]_miningVars
<1>1. CASE Loop
  BY <1>1 DEF Loop, LoopBlocked, LoopProblem, LoopFetch, Next, MainLoop
<1>2. CASE Fetch
  <2>1. CASE FetchFail
    BY <2>1 DEF FetchFail, Next, MainLoop
  <2>2. CASE FetchConnect
    BY <2>2 DEF FetchConnect
  <2>3. CASE FetchAnswered
    BY <2>3 DEF FetchAnswered, MainGoto, DucoInv, FlagIsDown, Fetching, Next, MainLoop
  <2>4. CASE FetchStored
    BY <2>4 DEF FetchStored, MainGoto, DucoInv, FlagIsDown, Fetching, Next, MainLoop
  <2>5. CASE FetchPublish
    BY <2>5 DEF FetchPublish, MainGoto, DucoInv, FetchInOrder, Next, MainLoop
  <2> QED BY <1>2, <2>1, <2>2, <2>3, <2>4, <2>5 DEF Fetch
<1>3. CASE Stop
  <2>1. CASE StopDone
    BY <2>1 DEF StopDone
  <2>2. ASSUME NEW c \in Cores, StopTask(c) PROVE Next
    BY <2>2 DEF StopTask, MainGoto, DucoInv, FlagIsDown, Stopping, Next, MainLoop
  <2>3. ASSUME NEW c \in Cores, StopJob(c) PROVE Next
    BY <2>3 DEF StopJob, MainGoto, DucoInv, FlagIsDown, HandlesAreTasks, Stopping, Next,
        MainLoop
  <2> QED BY <1>3, <2>1, <2>2, <2>3 DEF Stop
<1>4. CASE SyncWebConfig \/ OtaStart
  BY <1>4 DEF SyncWebConfig, OtaStart, Next, MainLoop
<1>5. CASE Reboot \/ \E c \in Cores : CorePanic(c)
  BY <1>5 DEF Reboot, CorePanic, Boot, Next, MainLoop
<1>6. CASE \E c \in Cores : CoreStep(c)
  BY <1>6 DEF CoreStep, Next
<1>7. CASE UNCHANGED vars
  BY <1>7 DEF vars
<1> QED BY <1>1, <1>2, <1>3, <1>4, <1>5, <1>6, <1>7 DEF DucoNext

-----------------------------------------------------------------------------
(* The invariant *)

\* Only one core is the next to be stopped.
LEMMA NextToStopUnique ==
  ASSUME miner_handles \subseteq Cores, NEW c \in Cores, NEW d \in Cores,
         NextToStop(c), NextToStop(d)
  PROVE  c = d
<1>1. c \in Nat /\ d \in Nat /\ c <= d /\ d <= c
  BY DEF NextToStop
<1> QED BY <1>1

\* Between two updates a core has a task exactly if its handle is not null.
LEMMA HandlesWithoutStop ==
  ASSUME HandlesAreTasks, main # "free", NEW c \in Cores
  PROVE  pc[c] # "none" <=> c \in miner_handles
  BY DEF HandlesAreTasks

LEMMA InitDuco == DucoInit => DucoInv
<1> SUFFICES ASSUME DucoInit PROVE DucoInv
  OBVIOUS
<1>1. TypeOK
  BY InitIInv DEF DucoInit, IInv
<1>2. HandlesAreTasks
  BY DEF DucoInit, Init, HandlesAreTasks
<1>3. QED
  BY <1>1, <1>2 DEF DucoInit, Init, DucoInv, DucoTypeOK, MainState, FlagIsDown,
      FetchInOrder, Fetching, Stopping

\* A step that leaves the tasks, their sockets and their handles alone, and neither
\* begins nor ends the deletion of a job.
LEMMA HandlesUndisturbed ==
  ASSUME HandlesAreTasks, UNCHANGED <<pc, client_sock, job, miner_handles>>,
         main \notin Stopping, main' \notin {"free", "stopped"}
  PROVE  HandlesAreTasks'
  BY DEF HandlesAreTasks, NextToStop, Stopping

LEMMA BootDuco ==
  ASSUME Boot
  PROVE  FlagIsDown' /\ HandlesAreTasks' /\ FetchInOrder'
         /\ main' \in MainState /\ identified' \in BOOLEAN
         /\ job' \subseteq Cores /\ miner_handles' \subseteq Cores
<1>1. HandlesAreTasks'
  BY DEF Boot, Restart, HandlesAreTasks
<1>2. FlagIsDown' /\ FetchInOrder'
  BY DEF Boot, Restart, FlagIsDown, FetchInOrder, Fetching, Stopping
<1>3. main' \in MainState
  BY DEF Boot, MainState
<1>4. QED
  BY <1>1, <1>2, <1>3 DEF Boot

LEMMA StepDuco ==
  ASSUME IInv, DucoInv, [DucoNext]_vars
  PROVE  IInv' /\ DucoInv'
<1>1. IInv'
  BY DucoStepMining, StepIInv
<1> DEFINE Rest == /\ main' \in MainState /\ identified' \in BOOLEAN
                   /\ job' \subseteq Cores /\ miner_handles' \subseteq Cores
                   /\ FlagIsDown' /\ HandlesAreTasks' /\ FetchInOrder'
<1> SUFFICES Rest
  BY <1>1 DEF IInv, DucoInv, DucoTypeOK
<1> USE DEF DucoInv, DucoTypeOK
<1>2. CASE Loop
  <2>1. main' \in {"idle", "reboot", "resolve"} /\ main = "idle"
        /\ UNCHANGED <<pc, client_sock, job, miner_handles, identified>>
    BY <1>2 DEF Loop, LoopBlocked, LoopProblem, LoopFetch, MainGoto, Withdraw, miningVars,
        ducoVars, fleet, socket
  <2>2. HandlesAreTasks'
    BY <2>1, HandlesUndisturbed DEF Stopping
  <2>3. /\ main' = "resolve" => ~is_ready' /\ identified
        /\ is_ready' => is_ready
    BY <1>2 DEF Loop, LoopBlocked, LoopProblem, LoopFetch, MainGoto, Withdraw, miningVars,
        ducoVars
  <2>4. FlagIsDown' /\ FetchInOrder'
    BY <2>1, <2>3 DEF FlagIsDown, FetchInOrder, Fetching, Stopping
  <2> QED BY <2>1, <2>2, <2>4 DEF MainState, Fetching
<1>3. CASE Fetch
  <2>1. main \in Fetching /\ main' \in Fetching \cup {"idle"}
        /\ UNCHANGED <<pc, client_sock, job, miner_handles, identified>>
    BY <1>3 DEF Fetch, FetchFail, FetchConnect, FetchAnswered, FetchStored, FetchPublish,
        MainGoto, Withdraw, WriteHost, Publish, Fetching, miningVars, fleet, socket
  <2>2. HandlesAreTasks'
    BY <2>1, HandlesUndisturbed DEF Stopping, Fetching
  <2>3. FlagIsDown'
    BY <1>3 DEF Fetch, FetchFail, FetchConnect, FetchAnswered, FetchStored, FetchPublish,
        MainGoto, Withdraw, WriteHost, Publish, FlagIsDown, Fetching, Stopping, miningVars
  <2>4. FetchInOrder'
    BY <1>3, <2>1 DEF Fetch, FetchFail, FetchConnect, FetchAnswered, FetchStored,
        FetchPublish, MainGoto, Withdraw, WriteHost, FetchInOrder, Fetching, miningVars
  <2> QED BY <2>1, <2>2, <2>3, <2>4 DEF MainState, Fetching
<1>4. CASE StopDone
  <2>1. HandlesAreTasks'
    BY <1>4 DEF StopDone, MainGoto, HandlesAreTasks, fleet, miningVars, NextToStop
  <2> QED
    BY <1>4, <2>1 DEF StopDone, MainGoto, MainState, fleet, miningVars, FlagIsDown,
        FetchInOrder, Fetching, Stopping
<1>5. ASSUME NEW c \in Cores, StopTask(c) PROVE Rest
  <2>1. main = "stop" /\ main' = "free" /\ UNCHANGED <<is_ready, identified, job, miner_handles>>
    BY <1>5 DEF StopTask, MainGoto, KillTask, config, fleet
  <2>2. UNCHANGED client_sock /\ pc' = [pc EXCEPT ![c] = "none"]
    BY <1>5 DEF StopTask, KillTask, socket
  <2>3. ASSUME NEW d \in Cores
        PROVE  pc'[d] # "none" <=> d \in miner_handles /\ ~NextToStop(d)
    <3>1. CASE d = c
      BY <1>5, <2>2, <3>1 DEF StopTask, TypeOK
    <3>2. CASE d # c
      BY <1>5, <2>1, <2>2, <3>2, HandlesWithoutStop, NextToStopUnique DEF StopTask, TypeOK
    <3> QED BY <3>1, <3>2
  <2>4. HandlesAreTasks'
    BY <2>1, <2>2, <2>3 DEF HandlesAreTasks, NextToStop
  <2> QED BY <2>1, <2>4 DEF MainState, Stopping, FlagIsDown, FetchInOrder, Fetching
<1>6. ASSUME NEW c \in Cores, StopJob(c) PROVE Rest
  <2>1. main = "free" /\ main' = "stop" /\ UNCHANGED <<is_ready, identified, pc>>
        /\ job' = job \ {c} /\ miner_handles' = miner_handles \ {c}
    BY <1>6 DEF StopJob, MainGoto, FreeJob, config
  <2>2. client_sock' = [client_sock EXCEPT ![c] = NoNode]
    BY <1>6 DEF StopJob, FreeJob, CloseSocket
  <2>3. ASSUME NEW d \in Cores
        PROVE  /\ pc'[d] # "none" <=> d \in miner_handles'
               /\ d \notin miner_handles' => client_sock'[d] = NoNode
    <3>1. CASE d = c
      BY <1>6, <2>1, <2>2, <3>1 DEF StopJob, HandlesAreTasks, TypeOK
    <3>2. CASE d # c
      <4>1. ~NextToStop(d)
        BY <1>6, <3>2, NextToStopUnique DEF StopJob
      <4> QED BY <2>1, <2>2, <3>2, <4>1 DEF HandlesAreTasks, TypeOK
    <3> QED BY <3>1, <3>2
  <2>4. HandlesAreTasks'
    BY <2>1, <2>3 DEF HandlesAreTasks
  <2> QED BY <2>1, <2>4 DEF MainState, Stopping, FlagIsDown, FetchInOrder, Fetching
<1>7. CASE SyncWebConfig
  <2>1. main \in {"idle", "stopped"} /\ ~is_ready'
        /\ UNCHANGED <<main, pc, client_sock, job, miner_handles>>
        /\ identified' \in BOOLEAN
    BY <1>7 DEF SyncWebConfig, Withdraw, socket, fleet
  <2>2. HandlesAreTasks'
    BY <2>1 DEF HandlesAreTasks
  <2> QED BY <2>1, <2>2 DEF FlagIsDown, FetchInOrder, Fetching
<1>8. CASE OtaStart
  <2>1. main \in {"idle", "stopped"} /\ main' = "stop" /\ ~is_ready'
        /\ UNCHANGED <<pc, client_sock, job, miner_handles, identified>>
    BY <1>8 DEF OtaStart, Withdraw, socket, fleet
  <2>2. HandlesAreTasks'
    BY <2>1, HandlesUndisturbed DEF Stopping
  <2> QED BY <2>1, <2>2 DEF MainState, Stopping, FlagIsDown, FetchInOrder, Fetching
<1>9. CASE Reboot \/ \E c \in Cores : CorePanic(c)
  BY <1>9, BootDuco DEF Reboot, CorePanic
<1>10. ASSUME NEW c \in Cores, CoreStep(c) PROVE Rest
  <2>1. UNCHANGED <<main, identified, job, miner_handles>> /\ Mine(c)
    BY <1>10 DEF CoreStep, ducoVars
  <2>2. /\ pc[c] # "none" /\ pc'[c] # "none"
        /\ \A d \in Cores \ {c} : pc'[d] = pc[d] /\ client_sock'[d] = client_sock[d]
        /\ is_ready' => is_ready
        /\ host' = host
    BY <2>1, TaskFrame
  <2>3. c \in miner_handles
    BY <2>2 DEF HandlesAreTasks
  <2>4. HandlesAreTasks'
    BY <2>1, <2>2, <2>3 DEF HandlesAreTasks, NextToStop
  <2> QED BY <2>1, <2>2, <2>4 DEF FlagIsDown, FetchInOrder
<1>11. CASE UNCHANGED vars
  BY <1>11 DEF vars, miningVars, ducoVars, HandlesAreTasks, NextToStop, FlagIsDown,
      FetchInOrder
<1> QED
  BY <1>2, <1>3, <1>4, <1>5, <1>6, <1>7, <1>8, <1>9, <1>10, <1>11 DEF DucoNext, Stop

-----------------------------------------------------------------------------
(* Theorems *)

\* The main loop's tables, the tasks, the flag and the identity agree in every
\* reachable state, and the tasks keep all that MiningESP32 says of them.
THEOREM DucoInvariance == DucoSpec => [](IInv /\ DucoInv)
<1>1. DucoInit => IInv /\ DucoInv
  BY InitDuco, InitIInv, DucoInitMining
<1>2. IInv /\ DucoInv /\ [DucoNext]_vars => (IInv /\ DucoInv)'
  BY StepDuco
<1> QED BY <1>1, <1>2, PTL DEF DucoSpec

\* The component implements the specification of its tasks: what MiningESP32
\* assumes of the main loop (duco_esp32.cpp:19-89,255-262) is what the main loop does.
THEOREM Implements == DucoSpec => ImplementsMining
<1>1. DucoInv /\ [DucoNext]_vars => [Next]_miningVars
  BY DucoStepMining
<1> QED BY <1>1, DucoInitMining, DucoInvariance, PTL DEF DucoSpec, ImplementsMining, Spec

\* A node on offer is never written to.
LEMMA OfferIsStable ==
  ASSUME IInv, DucoInv, [DucoNext]_vars, is_ready, is_ready'
  PROVE  host' = host
<1>1. CASE MainLoop
  BY <1>1 DEF MainLoop, Withdraw, Restart, Publish
<1>2. CASE \E c \in Cores : Mine(c)
  BY <1>2, TaskFrame DEF IInv
<1>3. CASE UNCHANGED miningVars
  BY <1>3 DEF miningVars
<1> QED BY <1>1, <1>2, <1>3, DucoStepMining DEF Next

\* No task ever finds one node exchanged for another, or half of one, while is_ready
\* stays true, although host, port and node_id are read without a lock
\* (duco_esp32.cpp:255-262, mining_esp32.cpp:39).
THEOREM LeaseKept == DucoSpec => ImplementsLease
<1> DEFINE held == IF is_ready THEN host ELSE NoNode
<1>1. DucoInit => Lease!Init
  BY DEF DucoInit, Init, Lease!Init
<1>2. ASSUME IInv, DucoInv, [DucoNext]_vars, IInv'
      PROVE  [Lease!Next]_held
  <2>1. (is_ready => host \in Nodes) /\ (is_ready' => host' \in Nodes)
    BY <1>2 DEF IInv, ReadyNodeIsWhole
  <2>2. CASE is_ready /\ is_ready'
    BY <1>2, <2>2, OfferIsStable
  <2>3. CASE is_ready /\ ~is_ready'
    BY <2>1, <2>3, ConstantsAssumption DEF Lease!Next, Lease!Revoke
  <2>4. CASE ~is_ready /\ is_ready'
    BY <2>1, <2>4, ConstantsAssumption DEF Lease!Next, Lease!Grant
  <2>5. CASE ~is_ready /\ ~is_ready'
    BY <2>5
  <2> QED BY <2>2, <2>3, <2>4, <2>5
<1> QED
  BY <1>1, <1>2, DucoInvariance, PTL DEF DucoSpec, ImplementsLease, Lease!Spec

\* stop() never deletes a MiningJob that a task may still run on
\* (duco_esp32.cpp:68-75).
THEOREM JobOutlivesTask == DucoSpec => []NoUseAfterFree
<1>1. DucoInv => NoUseAfterFree
  BY DEF DucoInv, HandlesAreTasks, NoUseAfterFree
<1> QED BY <1>1, DucoInvariance, PTL

\* Wherever in mine() the update caught the tasks, after stop() there is no task, no
\* node on offer, and no pool connection (duco_esp32.cpp:63-89).
THEOREM StopIsComplete == DucoSpec => []StoppedIsQuiet
<1>1. DucoInv => StoppedIsQuiet
  BY DEF DucoInv, FlagIsDown, HandlesAreTasks, StoppedIsQuiet
<1> QED BY <1>1, DucoInvariance, PTL

\* No node is offered to a device without an identity (duco_esp32.cpp:27-33,
\* duco.cpp:68-103).
THEOREM NobodyMines == DucoSpec => []ReadyIsIdentified
<1>1. DucoInv => ReadyIsIdentified
  BY DEF DucoInv, FetchInOrder, ReadyIsIdentified
<1> QED BY <1>1, DucoInvariance, PTL

=============================================================================
