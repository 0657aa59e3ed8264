-------------------------- MODULE DucoESP8266_proofs --------------------------
(***************************************************************************)
(* Proofs about DucoESP8266, for any nodes, any threshold and any bounds:  *)
(* ESP8266Inv is inductive; from it follow the pairing of requests and     *)
(* replies, the sums on display, the causes of errors, the share ledger    *)
(* and the node lease.                                                     *)
(***************************************************************************)
EXTENDS DucoESP8266, SequenceTheorems, TLAPS

USE ESP8266Assumption

-----------------------------------------------------------------------------
(* The lines a connection owes *)

LEMMA OwedAppend ==
    ASSUME NEW s \in Seq(Owed), NEW r \in Reply
    PROVE  /\ Append(s, r) \in Seq(Owed)
           /\ Len(Append(s, r)) = Len(s) + 1
           /\ Len(s) = 0 => Append(s, r) = <<r>>
  <1>1. r \in Owed  BY DEF Owed
  <1>2. Append(s, r) \in Seq(Owed) /\ Len(Append(s, r)) = Len(s) + 1
    BY <1>1
  <1>3. ASSUME Len(s) = 0 PROVE Append(s, r) = <<r>>
    BY <1>3
  <1> QED  BY <1>2, <1>3

LEMMA OwedTail ==
    ASSUME NEW s \in Seq(Owed), s # <<>>
    PROVE  /\ Tail(s) \in Seq(Owed) /\ Len(Tail(s)) = Len(s) - 1
           /\ <<"rest">> \o Tail(s) \in Seq(Owed) /\ Len(<<"rest">> \o Tail(s)) = Len(s)
  <1>1. Tail(s) \in Seq(Owed) /\ Len(Tail(s)) = Len(s) - 1
    OBVIOUS
  <1>2. <<"rest">> \in Seq(Owed) /\ Len(<<"rest">>) = 1
    BY DEF Owed
  <1> QED  BY <1>1, <1>2, ConcatProperties

LEMMA OwedPrefix ==
    ASSUME NEW s \in Seq(Owed), NEW n \in 0 .. Len(s)
    PROVE  SubSeq(s, 1, n) \in Seq(Owed)
  BY SubSeqProperties

LEMMA OwedLen ==
    ASSUME NEW s \in Seq(Owed)
    PROVE  Len(s) \in Nat /\ (Len(s) = 0 <=> s = <<>>)
  BY EmptySeq

LEMMA OwedOne ==
    /\ <<>> \in Seq(Owed) /\ Len(<<>>) = 0
    /\ \A r \in Reply : <<r>> \in Seq(Owed) /\ Len(<<r>>) = 1
  BY DEF Owed

LEMMA Counts ==
    ASSUME TypeOK
    PROVE  /\ CountShare(share_count) \in 0 .. ShareCap
           /\ CountShare(accepted_share_count) \in 0 .. ShareCap
           /\ CountError => errors' \in 0 .. ERROR_THRESHOLD
  BY DEF TypeOK, CountShare, CountError

-----------------------------------------------------------------------------
LEMMA PowerOnInv ==
    ASSUME PowerOn
    PROVE  ESP8266Inv'
  <1>1. TypeOK'
    <2>1. /\ is_ready' \in BOOLEAN /\ identified' \in BOOLEAN /\ job' \in BOOLEAN
          /\ is_connected' \in BOOLEAN /\ status' \in BOOLEAN
      BY Zenon DEF PowerOn
    <2>2. owed' \in Seq(Owed)
      BY OwedOne DEF PowerOn
    <2>3. /\ pc' \in Mining \cup {"idle", "pass", "after", "stopped"}
          /\ host' \in Nodes \cup {NoNode} /\ pool' \in Nodes \cup {NoNode}
          /\ want' \in Reply \cup {"none"} /\ client_buffer' \in Line
          /\ work' \in {"none", "held"} /\ link' \in {"none", "open", "closed"}
      BY Zenon DEF PowerOn, Line
    <2>4. /\ errors' \in 0 .. ERROR_THRESHOLD /\ cut' \in 0 .. MaxCut
          /\ share_count' \in 0 .. ShareCap /\ accepted_share_count' \in 0 .. ShareCap
          /\ accepted_shares' \in 0 .. ShareCap /\ total_shares' \in 0 .. ShareCap
      BY DEF PowerOn
    <2> QED  BY <2>1, <2>2, <2>3, <2>4 DEF TypeOK
  <1>2. LinkState' /\ LagIsCuts' /\ AnswersTheRequest'
    BY DEF PowerOn, LinkState, LagIsCuts, AnswersTheRequest
  <1>3. ShareUnderJudgement' /\ ShownWithinCounted'
    BY DEF PowerOn, ShareUnderJudgement, ShownWithinCounted
  <1> QED  BY <1>1, <1>2, <1>3 DEF PowerOn, ESP8266Inv

LEMMA ESP8266Init == Init => ESP8266Inv
  <1> SUFFICES ASSUME Init PROVE ESP8266Inv
    OBVIOUS
  <1>1. TypeOK
    <2>1. /\ is_ready \in BOOLEAN /\ identified \in BOOLEAN /\ job \in BOOLEAN
          /\ is_connected \in BOOLEAN /\ status \in BOOLEAN
      BY Zenon DEF Init
    <2>2. owed \in Seq(Owed)
      BY OwedOne DEF Init
    <2>3. /\ pc \in Mining \cup {"idle", "pass", "after", "stopped"}
          /\ host \in Nodes \cup {NoNode} /\ pool \in Nodes \cup {NoNode}
          /\ want \in Reply \cup {"none"} /\ client_buffer \in Line
          /\ work \in {"none", "held"} /\ link \in {"none", "open", "closed"}
      BY Zenon DEF Init, Line, Mining
    <2>4. /\ errors \in 0 .. ERROR_THRESHOLD /\ cut \in 0 .. MaxCut
          /\ share_count \in 0 .. ShareCap /\ accepted_share_count \in 0 .. ShareCap
          /\ accepted_shares \in 0 .. ShareCap /\ total_shares \in 0 .. ShareCap
      BY DEF Init
    <2> QED  BY <2>1, <2>2, <2>3, <2>4 DEF TypeOK
  <1>2. LinkState /\ LagIsCuts /\ AnswersTheRequest
    BY DEF Init, LinkState, LagIsCuts, AnswersTheRequest
  <1>3. ShareUnderJudgement /\ ShownWithinCounted
    BY DEF Init, ShareUnderJudgement, ShownWithinCounted
  <1> QED  BY <1>1, <1>2, <1>3 DEF Init, ESP8266Inv

\* A wait that ends, by what it does to the connection.
LEMMA WaitStep ==
    ASSUME ESP8266Inv, Wait
    PROVE  ESP8266Inv'
  <1>a. /\ TypeOK /\ LinkState /\ LagIsCuts /\ AnswersTheRequest
        /\ ShareUnderJudgement /\ ShownWithinCounted
        /\ is_ready => host \in Nodes
    BY DEF ESP8266Inv
  <1>b. owed \in Seq(Owed) /\ cut \in 0 .. MaxCut  BY <1>a DEF TypeOK
  <1>c. PICK line \in Line, connected \in BOOLEAN : Deliver(line, connected)
    BY DEF Wait, WaitRead, WaitCut, WaitClosed, WaitTimeout, Lines, Cuts, Line
  <1>d. /\ owed' \in Seq(Owed) /\ cut' \in 0 .. MaxCut
        /\ link' \in {"none", "open", "closed"}
        /\ link' = "none" => owed' = <<>> /\ cut' = 0
        /\ link' = "open" => /\ link = "open" /\ is_connected'
                             /\ Len(owed') - cut' = Len(owed) - cut - 1
    <2>1. CASE WaitRead
      BY <1>a, <1>b, <2>1, OwedTail, OwedLen DEF WaitRead, Deliver, TypeOK, LinkState
    <2>2. CASE WaitCut
      <3>1. owed # <<>> /\ cut < MaxCut /\ cut' = cut + 1 /\ link' = link /\ is_connected'
        BY <2>2 DEF WaitCut, Deliver
      <3>2. link # "none"  BY <1>a, <2>2 DEF WaitCut, Deliver, LinkState
      <3>3. CASE link = "open"
        <4>1. owed' = <<"rest">> \o Tail(owed)  BY <2>2, <3>3 DEF WaitCut
        <4>2. owed' \in Seq(Owed) /\ Len(owed') = Len(owed)
          BY <1>b, <3>1, <4>1, OwedTail
        <4>3. Len(owed) \in Nat  BY <1>b, OwedLen
        <4> QED  BY <1>b, <3>1, <3>3, <4>2, <4>3
      <3>4. CASE link = "closed"
        BY <1>b, <2>2, <3>1, <3>4, OwedOne DEF WaitCut
      <3> QED  BY <1>a, <3>2, <3>3, <3>4 DEF TypeOK
    <2>3. CASE WaitClosed
      BY <1>a, <1>b, <2>3 DEF WaitClosed, TypeOK
    <2>4. CASE WaitTimeout
      BY <2>4, OwedOne DEF WaitTimeout, StopClient
    <2> QED  BY <2>1, <2>2, <2>3, <2>4 DEF Wait
  <1>1. want' = "none" /\ pc = "wait" /\ want \in Reply /\ is_connected' = connected
    BY <1>a, <1>c DEF Deliver, LinkState, TypeOK
  <1>2. /\ pc' \in {"ask", "after", "hash"}
        /\ is_ready' = TRUE => is_ready
        /\ is_ready' \in BOOLEAN
        /\ UNCHANGED <<host, identified, job, sensors>>
        /\ client_buffer' \in Line
    BY <1>a, <1>c DEF Deliver, Greet, Parse, Judge, TypeOK, Line
  <1>3. /\ work' \in {"none", "held"}
        /\ errors' \in 0 .. ERROR_THRESHOLD
    BY <1>a, <1>c, Counts DEF Deliver, Greet, Parse, Judge, TypeOK, counters
  <1>4. /\ share_count' = share_count
        /\ \/ accepted_share_count' = accepted_share_count
           \/ want = "result" /\ accepted_share_count' = CountShare(accepted_share_count)
    BY <1>c DEF Deliver, Greet, Parse, Judge, counters
  <1>5. TypeOK'
    BY <1>a, <1>c, <1>d, <1>1, <1>2, <1>3, <1>4, Counts
       DEF TypeOK, Mining, Line, sensors
  <1>6. LinkState'
    <2>1. ASSUME NEW l \in Line, Deliver(l, TRUE) PROVE is_connected'
      BY <2>1, Zenon DEF Deliver
    <2>2. ASSUME Deliver("nothing", FALSE) PROVE pc' = "after"
      BY <2>2, Zenon DEF Deliver, Greet, Parse, Judge
    <2>3. is_connected' \/ pc' = "after"
      BY <2>1, <2>2 DEF Wait, WaitRead, WaitCut, WaitClosed, WaitTimeout, Lines, Cuts
    <2>4. job' = job /\ job /\ pc # "stopped"
      BY <1>a, <1>1, <1>2, Zenon DEF LinkState
    <2> QED  BY <1>a, <1>d, <1>1, <1>2, <2>3, <2>4 DEF LinkState
  <1>7. LagIsCuts' /\ AnswersTheRequest'
    <2>1. Len(owed') \in Nat /\ Len(owed) \in Nat  BY <1>b, <1>d, OwedLen
    <2>2. CASE link' = "open"
      <3>1. Len(owed) = cut + 1
        BY <1>a, <1>d, <1>1, <2>2 DEF LagIsCuts, LinkState, TypeOK
      <3>2. Len(owed') = cut' /\ cut' \in Nat
        BY <1>b, <1>d, <2>1, <2>2, <3>1
      <3>3. want' = "none"  BY <1>1
      <3>4. LagIsCuts'  BY <3>2, <3>3, Zenon DEF LagIsCuts
      <3>5. AnswersTheRequest'  BY <3>3, Zenon DEF AnswersTheRequest
      <3> QED  BY <3>4, <3>5
    <2>3. CASE link' # "open"
      BY <2>3 DEF LagIsCuts, AnswersTheRequest
    <2> QED  BY <2>2, <2>3
  <1>8. ShareUnderJudgement' /\ ShownWithinCounted'
    BY <1>a, <1>1, <1>2, <1>4 DEF ShareUnderJudgement, ShownWithinCounted, CountShare, TypeOK,
       sensors
  <1> QED  BY <1>a, <1>2, <1>5, <1>6, <1>7, <1>8 DEF ESP8266Inv

\* A step that moves on, and may withdraw the node, but does not touch the connection.
LEMMA SameLink ==
    ASSUME ESP8266Inv,
           UNCHANGED <<host, identified, job, want, client_buffer, work, socket, counters, sensors>>,
           pc \notin {"wait", "submit", "stopped"},
           pc' \in {"ask", "dial", "after", "idle", "connect"},
           pc' = "ask" => is_connected \/ link = "none",
           is_ready' = FALSE \/ is_ready' = is_ready
    PROVE  ESP8266Inv'
  <1>a. /\ TypeOK /\ LinkState /\ LagIsCuts /\ AnswersTheRequest
        /\ ShareUnderJudgement /\ ShownWithinCounted
        /\ is_ready => host \in Nodes
    BY DEF ESP8266Inv
  <1>1. TypeOK'
    <2>1. /\ is_ready' \in BOOLEAN /\ identified' \in BOOLEAN /\ job' \in BOOLEAN
          /\ is_connected' \in BOOLEAN /\ status' \in BOOLEAN
      BY <1>a, Zenon DEF TypeOK, socket, counters, sensors
    <2>2. owed' \in Seq(Owed)
      BY <1>a, OwedOne DEF TypeOK, socket, counters, sensors
    <2>3. /\ pc' \in Mining \cup {"idle", "pass", "after", "stopped"}
          /\ host' \in Nodes \cup {NoNode} /\ pool' \in Nodes \cup {NoNode}
          /\ want' \in Reply \cup {"none"} /\ client_buffer' \in Line
          /\ work' \in {"none", "held"} /\ link' \in {"none", "open", "closed"}
      BY <1>a, Zenon DEF TypeOK, socket, counters, sensors, Line, Mining
    <2>4. /\ errors' \in 0 .. ERROR_THRESHOLD /\ cut' \in 0 .. MaxCut
          /\ share_count' \in 0 .. ShareCap /\ accepted_share_count' \in 0 .. ShareCap
          /\ accepted_shares' \in 0 .. ShareCap /\ total_shares' \in 0 .. ShareCap
      BY <1>a DEF TypeOK, socket, counters, sensors
    <2> QED  BY <2>1, <2>2, <2>3, <2>4 DEF TypeOK
  <1>2. LinkState' /\ LagIsCuts' /\ AnswersTheRequest'
    BY <1>a DEF LinkState, LagIsCuts, AnswersTheRequest, socket
  <1>3. ShareUnderJudgement' /\ ShownWithinCounted'
    BY <1>a DEF ShareUnderJudgement, ShownWithinCounted, counters, sensors
  <1> QED  BY <1>a, <1>1, <1>2, <1>3 DEF ESP8266Inv

\* The steps of connectToNode().
LEMMA ConnectStep ==
    ASSUME ESP8266Inv,
           \/ ConnectReuse \/ ConnectDial \/ DialConnected
           \/ DialFailed \/ DialRetry \/ DialTimeout
    PROVE  ESP8266Inv'
  <1>a. /\ TypeOK /\ LinkState /\ LagIsCuts /\ AnswersTheRequest
        /\ ShareUnderJudgement /\ ShownWithinCounted
        /\ is_ready => host \in Nodes
    BY DEF ESP8266Inv
  <1>1. CASE ConnectReuse \/ ConnectDial \/ DialRetry \/ DialTimeout
    <2>1. /\ UNCHANGED <<host, identified, job, want, client_buffer, work, socket, counters, sensors>>
          /\ pc \in {"connect", "retry"} /\ pc' \in {"ask", "dial", "after"}
      BY <1>1 DEF ConnectReuse, ConnectDial, DialRetry, DialTimeout, config
    <2>2. is_ready' = FALSE \/ is_ready' = is_ready
      BY <1>1, Zenon DEF ConnectReuse, ConnectDial, DialRetry, DialTimeout, config
    <2>3. pc' = "ask" => is_connected \/ link = "none"
      BY <1>a, <1>1 DEF ConnectReuse, ConnectDial, DialRetry, DialTimeout, LinkState
    <2> QED  BY <1>a, <2>1, <2>2, <2>3, SameLink
  <1>2. CASE DialConnected
    BY <1>a, <1>2, OwedOne DEF DialConnected, config, counters,
       sensors, ESP8266Inv, TypeOK, LinkState, LagIsCuts, AnswersTheRequest,
       ShareUnderJudgement, ShownWithinCounted, Mining, Reply, Line
  <1>3. CASE DialFailed
    BY <1>a, <1>3, OwedOne DEF DialFailed, StopClient, config, counters,
       sensors, ESP8266Inv, TypeOK, LinkState, LagIsCuts, AnswersTheRequest,
       ShareUnderJudgement, ShownWithinCounted, Mining
  <1> QED  BY <1>1, <1>2, <1>3

\* The steps of askForJob(), the hash loop and submit().
LEMMA WorkStep ==
    ASSUME ESP8266Inv,
           \/ AskSend \/ AskSendFails \/ HashFound \/ HashEnd \/ SubmitSend \/ SubmitSendFails
    PROVE  ESP8266Inv'
  <1>a. /\ TypeOK /\ LinkState /\ LagIsCuts /\ AnswersTheRequest
        /\ ShareUnderJudgement /\ ShownWithinCounted
        /\ is_ready => host \in Nodes
    BY DEF ESP8266Inv
  <1>b. owed \in Seq(Owed) /\ cut \in 0 .. MaxCut  BY <1>a DEF TypeOK
  <1>1. ASSUME NEW r \in Reply, Send(r), want = "none",
               UNCHANGED <<config, job, work, counters, sensors>>,
               pc \in {"ask", "submit"}, r = "result" => pc = "submit"
        PROVE  ESP8266Inv'
    <2>1. Len(owed) \in Nat /\ (Len(owed) = 0 <=> owed = <<>>)  BY <1>b, OwedLen
    <2>2. /\ Append(owed, r) \in Seq(Owed)
          /\ Len(Append(owed, r)) = Len(owed) + 1
          /\ Len(owed) = 0 => Append(owed, r) = <<r>>
      BY <1>b, OwedAppend
    <2>3. owed' \in Seq(Owed)
      BY <1>1, <1>b, <2>2 DEF Send
    <2>4. TypeOK'
      BY <1>a, <1>1, <2>3 DEF Send, TypeOK, config, counters, sensors, Mining, Line
    <2>5. LinkState'
      <3>1. is_connected /\ link # "none" /\ job /\ pc # "stopped"
        BY <1>a, <1>1 DEF LinkState, Send
      <3>2. pc' = "wait" /\ want' # "none" /\ link' = link
        BY <1>1 DEF Send, Reply
      <3>3. is_connected' = is_connected /\ job' = job  BY <1>1, Zenon DEF Send
      <3>4. is_connected' /\ job'  BY <3>1, <3>3
      <3>5. link' # "none"  BY <3>1, <3>2
      <3> QED  BY <3>2, <3>4, <3>5, Zenon DEF LinkState
    <2>6. LagIsCuts' /\ AnswersTheRequest'
      BY <1>a, <1>b, <1>1, <2>1, <2>2 DEF Send, LagIsCuts, AnswersTheRequest, LinkState, Reply
    <2>7. ShareUnderJudgement' /\ ShownWithinCounted'
      BY <1>a, <1>1 DEF Send, ShareUnderJudgement, ShownWithinCounted, counters, sensors
    <2> QED  BY <1>a, <1>1, <2>4, <2>5, <2>6, <2>7 DEF ESP8266Inv, config
  <1>2. CASE AskSend
    BY <1>a, <1>1, <1>2 DEF AskSend, LinkState, Reply
  <1>3. CASE SubmitSend
    BY <1>a, <1>1, <1>3 DEF SubmitSend, LinkState, Reply
  <1>4. CASE AskSendFails \/ SubmitSendFails
    <2>1. /\ UNCHANGED <<config, job, want, client_buffer, work, counters, sensors>>
          /\ pc \in {"ask", "submit"} /\ pc' \in {"hash", "after"}
          /\ is_connected' = FALSE /\ link' = "none" /\ owed' = <<>> /\ cut' = 0
      BY <1>4 DEF AskSendFails, SubmitSendFails, SendFails, StopClient
    <2>2. TypeOK'
      <3>1. /\ is_ready' \in BOOLEAN /\ identified' \in BOOLEAN /\ job' \in BOOLEAN
            /\ is_connected' \in BOOLEAN /\ status' \in BOOLEAN
        BY <1>a, <2>1, Zenon DEF TypeOK, config, counters, sensors
      <3>2. owed' \in Seq(Owed)
        BY <1>a, <2>1, OwedOne DEF TypeOK, config, counters, sensors
      <3>3. /\ pc' \in Mining \cup {"idle", "pass", "after", "stopped"}
            /\ host' \in Nodes \cup {NoNode} /\ pool' \in Nodes \cup {NoNode}
            /\ want' \in Reply \cup {"none"} /\ client_buffer' \in Line
            /\ work' \in {"none", "held"} /\ link' \in {"none", "open", "closed"}
        BY <1>a, <2>1, Zenon DEF TypeOK, config, counters, sensors, Line, Mining
      <3>4. /\ errors' \in 0 .. ERROR_THRESHOLD /\ cut' \in 0 .. MaxCut
            /\ share_count' \in 0 .. ShareCap /\ accepted_share_count' \in 0 .. ShareCap
            /\ accepted_shares' \in 0 .. ShareCap /\ total_shares' \in 0 .. ShareCap
        BY <1>a, <2>1 DEF TypeOK, config, counters, sensors
      <3> QED  BY <3>1, <3>2, <3>3, <3>4 DEF TypeOK
    <2>3. LinkState' /\ LagIsCuts' /\ AnswersTheRequest'
      BY <1>a, <2>1 DEF LinkState, LagIsCuts, AnswersTheRequest, config
    <2>4. ShareUnderJudgement' /\ ShownWithinCounted'
      BY <1>a, <2>1 DEF ShareUnderJudgement, ShownWithinCounted, counters, sensors
    <2> QED  BY <1>a, <2>1, <2>2, <2>3, <2>4 DEF ESP8266Inv, config
  <1>5. CASE HashFound
    BY <1>a, <1>5, Counts DEF HashFound, config, socket, CountShare,
       sensors, ESP8266Inv, TypeOK, LinkState, LagIsCuts, AnswersTheRequest,
       ShareUnderJudgement, ShownWithinCounted, Mining
  <1>6. CASE HashEnd
    BY <1>a, <1>6 DEF HashEnd, config, socket, counters,
       sensors, ESP8266Inv, TypeOK, LinkState, LagIsCuts, AnswersTheRequest,
       ShareUnderJudgement, ShownWithinCounted, Mining
  <1> QED  BY <1>2, <1>3, <1>4, <1>5, <1>6

\* The steps of loop() around mine().
LEMMA LoopStep ==
    ASSUME ESP8266Inv, Loop
    PROVE  ESP8266Inv'
  <1>a. /\ TypeOK /\ LinkState /\ LagIsCuts /\ AnswersTheRequest
        /\ ShareUnderJudgement /\ ShownWithinCounted
        /\ is_ready => host \in Nodes
    BY DEF ESP8266Inv
  <1>1. CASE UpdateSensors
    BY <1>a, <1>1 DEF UpdateSensors, config, socket, counters,
       ESP8266Inv, TypeOK, LinkState, LagIsCuts, AnswersTheRequest,
       ShareUnderJudgement, ShownWithinCounted, Mining
  <1>2. CASE PassBlocked \/ PassRuns \/ AfterReady \/ FetchNothing
    <2>1. /\ UNCHANGED <<host, identified, job, want, client_buffer, work, socket, counters, sensors>>
          /\ pc \in {"pass", "after"} /\ pc' \in {"idle", "connect", "after"}
      BY <1>2 DEF PassBlocked, PassRuns, AfterReady, FetchNothing, config
    <2>2. is_ready' = FALSE \/ is_ready' = is_ready
      BY <1>2, Zenon DEF PassBlocked, PassRuns, AfterReady, FetchNothing, config
    <2> QED  BY <1>a, <2>1, <2>2, SameLink
  <1>3. CASE Fetch
    BY <1>a, <1>3 DEF Fetch, socket, counters,
       sensors, ESP8266Inv, TypeOK, LinkState, LagIsCuts, AnswersTheRequest,
       ShareUnderJudgement, ShownWithinCounted, Mining
  <1>4. CASE CheckReboot
    BY <1>4, PowerOnInv DEF CheckReboot
  <1> QED  BY <1>1, <1>2, <1>3, <1>4 DEF Loop

LEMMA OutsideStep ==
    ASSUME ESP8266Inv, SyncWebConfig \/ OtaStart \/ PoolCloses \/ Restart
    PROVE  ESP8266Inv'
  <1>a. /\ TypeOK /\ LinkState /\ LagIsCuts /\ AnswersTheRequest
        /\ ShareUnderJudgement /\ ShownWithinCounted
        /\ is_ready => host \in Nodes
    BY DEF ESP8266Inv
  <1>1. CASE SyncWebConfig
    BY <1>a, <1>1 DEF SyncWebConfig, socket, counters,
       sensors, ESP8266Inv, TypeOK, LinkState, LagIsCuts, AnswersTheRequest,
       ShareUnderJudgement, ShownWithinCounted, Mining
  <1>2. CASE OtaStart
    <2>1. TypeOK'
      <3>1. /\ is_ready' \in BOOLEAN /\ identified' \in BOOLEAN /\ job' \in BOOLEAN
            /\ is_connected' \in BOOLEAN /\ status' \in BOOLEAN
        BY <1>a, <1>2, Zenon DEF OtaStart, StopClient, TypeOK, sensors
      <3>2. owed' \in Seq(Owed)
        BY <1>a, <1>2, OwedOne DEF OtaStart, StopClient, TypeOK, sensors
      <3>3. /\ pc' \in Mining \cup {"idle", "pass", "after", "stopped"}
            /\ host' \in Nodes \cup {NoNode} /\ pool' \in Nodes \cup {NoNode}
            /\ want' \in Reply \cup {"none"} /\ client_buffer' \in Line
            /\ work' \in {"none", "held"} /\ link' \in {"none", "open", "closed"}
        BY <1>a, <1>2, Zenon DEF OtaStart, StopClient, TypeOK, sensors, Line, Mining
      <3>4. /\ errors' \in 0 .. ERROR_THRESHOLD /\ cut' \in 0 .. MaxCut
            /\ share_count' \in 0 .. ShareCap /\ accepted_share_count' \in 0 .. ShareCap
            /\ accepted_shares' \in 0 .. ShareCap /\ total_shares' \in 0 .. ShareCap
        BY <1>a, <1>2 DEF OtaStart, StopClient, TypeOK, sensors
      <3> QED  BY <3>1, <3>2, <3>3, <3>4 DEF TypeOK
    <2>2. LinkState' /\ LagIsCuts' /\ AnswersTheRequest'
      BY <1>a, <1>2 DEF OtaStart, StopClient, LinkState, LagIsCuts, AnswersTheRequest
    <2>3. ShareUnderJudgement' /\ ShownWithinCounted'
      BY <1>a, <1>2 DEF OtaStart, LinkState, ShareUnderJudgement, ShownWithinCounted, sensors
    <2> QED  BY <1>2, <2>1, <2>2, <2>3 DEF OtaStart, ESP8266Inv
  <1>3. CASE PoolCloses
    <2>1. owed' \in Seq(Owed)
      BY <1>a, <1>3, OwedPrefix DEF PoolCloses, TypeOK
    <2> QED  BY <1>a, <1>3, <2>1 DEF PoolCloses, config, counters,
             sensors, ESP8266Inv, TypeOK, LinkState, LagIsCuts, AnswersTheRequest,
             ShareUnderJudgement, ShownWithinCounted
  <1>4. CASE Restart
    BY <1>4, PowerOnInv DEF Restart
  <1> QED  BY <1>1, <1>2, <1>3, <1>4

LEMMA ESP8266Step == ESP8266Inv /\ [Next]_vars => ESP8266Inv'
  <1> SUFFICES ASSUME ESP8266Inv, [Next]_vars PROVE ESP8266Inv'
    OBVIOUS
  <1>1. CASE Next
    BY <1>1, WaitStep, ConnectStep, WorkStep, LoopStep, OutsideStep DEF Next, Mine
  <1>2. CASE UNCHANGED vars
    BY <1>2 DEF vars, ESP8266Inv, TypeOK, LinkState, LagIsCuts, AnswersTheRequest,
       ShareUnderJudgement, ShownWithinCounted
  <1> QED  BY <1>1, <1>2

-----------------------------------------------------------------------------
\* The inductive invariant of the ESP8266 build.
THEOREM ESP8266Safe == Spec => []ESP8266Inv
  BY ESP8266Init, ESP8266Step, PTL DEF Spec

\* Requests and replies stay paired: a connection lags by the lines cut in two and by
\* nothing else, through timeouts, closed connections and failed sends
\* (mining_esp8266.cpp:58-80).
THEOREM ESP8266Pairing == Spec => [](LagIsCuts /\ AnswersTheRequest)
  <1>1. ESP8266Inv => LagIsCuts /\ AnswersTheRequest  BY DEF ESP8266Inv
  <1> QED  BY <1>1, ESP8266Safe, PTL

\* What is on display never exceeds what is counted, nor accepted what was found
\* (duco_esp8266.cpp:174-217).
THEOREM ESP8266Display == Spec => []ShownWithinCounted
  <1>1. ESP8266Inv => ShownWithinCounted  BY DEF ESP8266Inv
  <1> QED  BY <1>1, ESP8266Safe, PTL

\* With a pool that speaks its own language, a job request that counts as an error met a
\* lost or closing connection, or one that has had a line cut in two
\* (mining_esp8266.cpp:58-80,138-200; mining.cpp:105-150).
THEOREM ESP8266JobErrors == ASSUME ~Garbled PROVE Spec => JobErrorHasCause
  <1> DEFINE Rises == want = "job" /\ errors' > errors
             Cause == ~is_connected' \/ cut' > 0 \/ link = "closed"
  <1>1. ASSUME ESP8266Inv, [Next]_vars, Rises PROVE Cause
    <2>a. /\ errors \in 0 .. ERROR_THRESHOLD /\ cut \in 0 .. MaxCut
          /\ link \in {"none", "open", "closed"} /\ owed \in Seq(Owed)
          /\ pc = "wait" => link # "none"
          /\ AnswersTheRequest
      BY <1>1 DEF ESP8266Inv, TypeOK, LinkState
    <2>b. errors' # errors /\ errors' # 0 /\ want = "job"
      BY <1>1, <2>a
    <2>1. CASE Wait
      <3>1. CASE WaitRead
        <4>1. PICK line \in Lines(Head(owed)) : Deliver(line, TRUE)
          BY <3>1 DEF WaitRead
        <4>2. line # "job" /\ pc = "wait"
          BY <2>b, <4>1, Zenon DEF Deliver, Parse
        <4>3. CASE link = "open" /\ cut = 0
          <5>1. owed = <<"job">>
            BY <2>a, <2>b, <4>3, Zenon DEF AnswersTheRequest
          <5>2. Head(owed) = "job"
            BY <5>1
          <5> QED  BY <4>1, <4>2, <5>2 DEF Lines, Answers
        <4>4. CASE cut # 0
          BY <2>a, <3>1, <4>4 DEF WaitRead
        <4> QED  BY <2>a, <4>2, <4>3, <4>4
      <3>2. CASE WaitCut
        BY <2>a, <3>2 DEF WaitCut
      <3>3. CASE WaitClosed \/ WaitTimeout
        <4>1. is_connected' = FALSE
          BY <3>3, Zenon DEF WaitClosed, WaitTimeout, Deliver
        <4> QED  BY <4>1
      <3> QED  BY <2>1, <3>1, <3>2, <3>3 DEF Wait
    <2>2. CASE Mine /\ ~Wait
      BY <2>b, <2>2, Zenon DEF Mine, ConnectReuse, ConnectDial, DialConnected, DialFailed,
         DialRetry, DialTimeout, AskSend, AskSendFails, HashFound, HashEnd, SubmitSend,
         SubmitSendFails, counters
    <2>3. CASE Loop
      BY <2>b, <2>3, Zenon DEF Loop, UpdateSensors, PassBlocked, PassRuns, CheckReboot,
         PowerOn, AfterReady, FetchNothing, Fetch, counters
    <2>4. CASE SyncWebConfig \/ OtaStart \/ PoolCloses \/ Restart \/ UNCHANGED vars
      BY <2>b, <2>4, Zenon DEF SyncWebConfig, OtaStart, PoolCloses, Restart, PowerOn, vars,
         counters
    <2> QED  BY <1>1, <2>1, <2>2, <2>3, <2>4 DEF Next
  <1>2. ESP8266Inv /\ [Next]_vars => [Rises => Cause]_vars
    BY <1>1
  <1> QED  BY <1>2, ESP8266Safe, PTL DEF Spec, JobErrorHasCause

-----------------------------------------------------------------------------
(* The share ledger *)

Open == pc = "submit" \/ want = "result"

ledger == <<[c \in {0} |-> share_count], [c \in {0} |-> accepted_share_count],
            IF Open THEN {0} ELSE {}>>

\* What a step may do to the share: nothing, or one step of the ledger.
LEMMA LedgerQuiet ==
    ASSUME share_count' = share_count, accepted_share_count' = accepted_share_count,
           Open' <=> Open
    PROVE  ledger' = ledger
  BY DEF ledger

LEMMA LedgerFind ==
    ASSUME ~Open, Open', share_count' = CountShare(share_count),
           accepted_share_count' = accepted_share_count
    PROVE  Ledger!Next
  <1>1. Ledger!Find(0)
    BY DEF Ledger!Find, Ledger!CountShare, CountShare, Open
  <1> QED  BY <1>1 DEF Ledger!Next

LEMMA LedgerAccept ==
    ASSUME Open, ~Open', share_count' = share_count,
           accepted_share_count' = CountShare(accepted_share_count)
    PROVE  Ledger!Next
  <1>1. Ledger!Accept(0)
    BY DEF Ledger!Accept, Ledger!CountShare, CountShare, Open
  <1> QED  BY <1>1 DEF Ledger!Next

LEMMA LedgerDrop ==
    ASSUME Open, ~Open', share_count' = share_count,
           accepted_share_count' = accepted_share_count
    PROVE  Ledger!Next
  <1>1. Ledger!Drop(0)
    BY DEF Ledger!Drop, Open
  <1> QED  BY <1>1 DEF Ledger!Next

LEMMA LedgerStep == ESP8266Inv /\ [Next]_vars => [Ledger!Next]_ledger
  <1> SUFFICES ASSUME ESP8266Inv, [Next]_vars PROVE Ledger!Next \/ ledger' = ledger
    BY DEF ledger
  <1>a. (want # "none" <=> pc = "wait") /\ want \in Reply \cup {"none"}
    BY DEF ESP8266Inv, LinkState, TypeOK
  <1>1. CASE Wait
    <2>1. PICK line, connected : Deliver(line, connected)
      BY <1>1 DEF Wait, WaitRead, WaitCut, WaitClosed, WaitTimeout
    <2>2. want' = "none" /\ pc = "wait" /\ pc' # "submit" /\ ~Open'
      BY <2>1, Zenon DEF Deliver, Greet, Parse, Judge, Open
    <2>3. CASE want = "result"
      <3>1. Open  BY <2>3 DEF Open
      <3>2. /\ share_count' = share_count
            /\ \/ accepted_share_count' = accepted_share_count
               \/ accepted_share_count' = CountShare(accepted_share_count)
        BY <2>1, <2>3 DEF Deliver, Judge
      <3> QED  BY <2>2, <3>1, <3>2, LedgerAccept, LedgerDrop
    <2>4. CASE want # "result"
      <3>1. ~Open  BY <2>2, <2>4 DEF Open
      <3>2. share_count' = share_count /\ accepted_share_count' = accepted_share_count
        BY <2>1, <2>4 DEF Deliver, Greet, Parse, counters
      <3> QED  BY <2>2, <3>1, <3>2, LedgerQuiet
    <2> QED  BY <2>3, <2>4
  <1>2. CASE HashFound
    <2>1. ~Open /\ Open'
      BY <1>a, <1>2 DEF HashFound, Open, Reply
    <2> QED  BY <1>2, <2>1, LedgerFind DEF HashFound
  <1>3. CASE SubmitSend
    <2>1. Open /\ Open'
      BY <1>3 DEF SubmitSend, Send, Open
    <2> QED  BY <1>3, <2>1, LedgerQuiet DEF SubmitSend, counters
  <1>4. CASE SubmitSendFails
    <2>1. Open /\ ~Open'
      BY <1>a, <1>4 DEF SubmitSendFails, Open, Reply
    <2> QED  BY <1>4, <2>1, LedgerDrop DEF SubmitSendFails, counters
  <1>5. CASE CheckReboot \/ Restart
    <2>1. share_count' = 0 /\ accepted_share_count' = 0 /\ ~Open'
      BY <1>5 DEF CheckReboot, Restart, PowerOn, Open
    <2>2. Ledger!Reboot
      BY <2>1 DEF Ledger!Reboot, Open
    <2> QED  BY <2>2 DEF Ledger!Next
  <1>6. CASE OtaStart
    <2>1. share_count' = 0 /\ accepted_share_count' = 0 /\ ~Open'
      BY <1>a, <1>6 DEF OtaStart, Open
    <2>2. Ledger!Reboot
      BY <2>1 DEF Ledger!Reboot, Open
    <2> QED  BY <2>2 DEF Ledger!Next
  <1>7. CASE \/ ConnectReuse \/ ConnectDial \/ DialConnected \/ DialFailed \/ DialRetry
             \/ DialTimeout \/ AskSend \/ AskSendFails \/ HashEnd
    <2>1. share_count' = share_count /\ accepted_share_count' = accepted_share_count
      BY <1>7 DEF ConnectReuse, ConnectDial, DialConnected, DialFailed, DialRetry,
         DialTimeout, AskSend, AskSendFails, HashEnd, counters
    <2>2. ~Open /\ ~Open'
      BY <1>a, <1>7 DEF ConnectReuse, ConnectDial, DialConnected, DialFailed, DialRetry,
         DialTimeout, AskSend, Send, AskSendFails, HashEnd, Open
    <2> QED  BY <2>1, <2>2, LedgerQuiet
  <1>8. CASE \/ UpdateSensors \/ PassBlocked \/ PassRuns \/ AfterReady \/ FetchNothing \/ Fetch
             \/ SyncWebConfig
    <2>1. share_count' = share_count /\ accepted_share_count' = accepted_share_count
      BY <1>8 DEF UpdateSensors, PassBlocked, PassRuns, AfterReady, FetchNothing, Fetch,
         SyncWebConfig, counters
    <2>2. ~Open /\ ~Open'
      BY <1>a, <1>8 DEF UpdateSensors, PassBlocked, PassRuns, AfterReady, FetchNothing, Fetch,
         SyncWebConfig, Open
    <2> QED  BY <2>1, <2>2, LedgerQuiet
  <1>9. CASE PoolCloses \/ UNCHANGED vars
    <2>1. /\ share_count' = share_count /\ accepted_share_count' = accepted_share_count
          /\ pc' = pc /\ want' = want
      BY <1>9 DEF PoolCloses, vars, counters
    <2> QED  BY <2>1, LedgerQuiet DEF Open
  <1> QED
    BY <1>1, <1>2, <1>3, <1>4, <1>5, <1>6, <1>7, <1>8, <1>9 DEF Next, Mine, Loop

\* The ESP8266 build implements the share ledger.
THEOREM ESP8266Ledger == Spec => ImplementsLedger
  <1>1. Init => Ledger!Init
    BY DEF Init, Ledger!Init
  <1> QED  BY <1>1, LedgerStep, ESP8266Safe, PTL
       DEF Spec, ImplementsLedger, Ledger!Spec, Ledger!ledgerVars, ledger, Open

=============================================================================
