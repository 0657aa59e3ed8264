------------------------- MODULE MiningESP32_proofs --------------------------
(***************************************************************************)
(* Proofs about MiningESP32, for every set of cores, every set of nodes,   *)
(* every threshold and every value of the bounds.                          *)
(*                                                                         *)
(* The invariant IInv is inductive: the lemmas below take the steps of a   *)
(* task one by one, and under a step the parts of IInv one by one where    *)
(* the step disturbs them.  The theorems follow from it.                   *)
(***************************************************************************)
EXTENDS MiningESP32, SequenceTheorems, TLAPS

USE ConstantsAssumption

-----------------------------------------------------------------------------
(* Sequences of replies *)

LEMMA NoReplies == <<>> \in Seq(Reply) /\ Len(<<>>) = 0
  OBVIOUS

LEMMA LenReplies ==
  ASSUME NEW s \in Seq(Reply)
  PROVE  Len(s) \in Nat /\ (Len(s) = 0 <=> s = <<>>)
  BY EmptySeq

LEMMA AppendReply ==
  ASSUME NEW s \in Seq(Reply), NEW r \in Reply
  PROVE  /\ Append(s, r) \in Seq(Reply)
         /\ Len(Append(s, r)) = Len(s) + 1
         /\ Len(s) = 0 => Append(s, r) = <<r>>
<1>1. Append(s, r) \in Seq(Reply) /\ Len(Append(s, r)) = Len(s) + 1
  OBVIOUS
<1>2. ASSUME Len(s) = 0 PROVE Append(s, r) = <<r>>
  BY <1>2
<1> QED BY <1>1, <1>2

LEMMA TailReplies ==
  ASSUME NEW s \in Seq(Reply), s # <<>>
  PROVE  Tail(s) \in Seq(Reply) /\ Len(Tail(s)) = Len(s) - 1
  OBVIOUS

-----------------------------------------------------------------------------
(* What the helpers of the steps establish *)

\* With is_ready down, nothing has to be said of host.
LEMMA FlagLowered ==
  ASSUME is_ready' = FALSE
  PROVE  is_ready' \in BOOLEAN /\ ReadyNodeIsWhole'
  BY DEF ReadyNodeIsWhole

\* CloseSocket(c) ends the connection of core c and of no other core.
LEMMA SocketClosed ==
  ASSUME TypeOK, NEW c \in Cores, CloseSocket(c)
  PROVE  /\ is_connected' \in [Cores -> BOOLEAN]
         /\ client_sock' \in [Cores -> Nodes \cup {NoNode, HalfWritten}]
         /\ owed' \in [Cores -> Seq(Reply)]
         /\ skipped' \in [Cores -> 0 .. MaxSkipped]
         /\ ~is_connected'[c] /\ owed'[c] = <<>> /\ skipped'[c] = 0
         /\ \A d \in Cores \ {c} :
              /\ is_connected'[d] = is_connected[d]
              /\ client_sock'[d] = client_sock[d]
              /\ owed'[d] = owed[d]
              /\ skipped'[d] = skipped[d]
  BY NoReplies DEF CloseSocket, TypeOK

\* A request that goes out in step with the pool is the only one unanswered.
LEMMA SentReply ==
  ASSUME IInv, NEW c \in Cores, NEW from \in {"ask", "submit"}, NEW r \in Reply,
         is_connected[c], Send(c, from, r)
  PROVE  LagIsSkippedWaits' /\ AnswersTheRequest'
<1>1. /\ owed' = [owed EXCEPT ![c] = Append(owed[c], r)]
      /\ want' = [want EXCEPT ![c] = r]
      /\ pc' = [pc EXCEPT ![c] = "wait"] /\ pc[c] = from
      /\ UNCHANGED <<is_connected, client_sock, skipped>>
  BY DEF Send, Goto
<1>2. /\ owed \in [Cores -> Seq(Reply)] /\ skipped \in [Cores -> 0 .. MaxSkipped]
      /\ want \in [Cores -> Reply \cup {"none"}]
      /\ pc \in [Cores -> Busy \cup {"none"}]
      /\ r # "none"
  BY DEF IInv, TypeOK, Reply
<1>3. want[c] = "none" /\ pc[c] # "none"
  BY <1>1 DEF IInv, SocketState
<1>4. Len(owed[c]) = skipped[c]
  <2>1. Len(owed[c]) = skipped[c] + 0
    BY <1>3 DEF IInv, LagIsSkippedWaits
  <2> QED BY <1>2, <2>1
<1>5. owed[c] \in Seq(Reply) /\ owed'[c] = Append(owed[c], r)
  BY <1>1, <1>2
<1>6. Len(owed'[c]) = skipped[c] + 1 /\ (skipped[c] = 0 => owed'[c] = <<r>>)
  BY <1>4, <1>5, AppendReply
<1>7. LagIsSkippedWaits'
  BY <1>1, <1>2, <1>6 DEF IInv, LagIsSkippedWaits
<1>8. AnswersTheRequest'
  BY <1>1, <1>2, <1>6 DEF IInv, AnswersTheRequest
<1> QED BY <1>7, <1>8

-----------------------------------------------------------------------------
(* The steps of mine() and connectToNode() *)

\* is_ready falls and nothing else changes but the place of the task.
LEMMA GivenUp ==
  ASSUME IInv, NEW c \in Cores, NEW from \in {"retry", "lost"}, Goto(c, from, "mine"),
         is_ready' = FALSE,
         UNCHANGED <<host, want, client_buffer, work, socket, counters>>
  PROVE  IInv'
<1>1. is_ready' \in BOOLEAN /\ ReadyNodeIsWhole'
  BY FlagLowered
<1>2. pc' = [pc EXCEPT ![c] = "mine"] /\ pc[c] = from
  BY DEF Goto
<1> QED
  BY <1>1, <1>2 DEF socket, counters, IInv, TypeOK, SocketState, LagIsSkippedWaits,
      AnswersTheRequest, AcceptedWithinFound, ShareUnderJudgement, Busy

LEMMA ConnectStep ==
  ASSUME IInv, NEW c \in Cores, Connect(c)
  PROVE  IInv'
<1>1. ASSUME ConnectReturn(c) PROVE IInv'
  BY <1>1 DEF ConnectReturn, Goto, config, socket, counters,
      IInv, TypeOK, SocketState, ReadyNodeIsWhole, LagIsSkippedWaits,
      AnswersTheRequest, AcceptedWithinFound, ShareUnderJudgement, Busy, Reply, Line
<1>2. ASSUME ConnectReuse(c) PROVE IInv'
  BY <1>2 DEF ConnectReuse, Goto, config, socket, counters,
      IInv, TypeOK, SocketState, ReadyNodeIsWhole, LagIsSkippedWaits,
      AnswersTheRequest, AcceptedWithinFound, ShareUnderJudgement, Busy, Reply, Line
<1>3. ASSUME ConnectDial(c) PROVE IInv'
  BY <1>3 DEF ConnectDial, Goto, config, socket, counters,
      IInv, TypeOK, SocketState, ReadyNodeIsWhole, LagIsSkippedWaits,
      AnswersTheRequest, AcceptedWithinFound, ShareUnderJudgement, Busy, Reply, Line
<1>4. ASSUME DialOpen(c) PROVE IInv'
  BY <1>4 DEF DialOpen, Goto, config, socket, counters,
      IInv, TypeOK, SocketState, ReadyNodeIsWhole, LagIsSkippedWaits,
      AnswersTheRequest, AcceptedWithinFound, ShareUnderJudgement, Busy, Reply, Line
<1>5. ASSUME DialConnected(c) PROVE IInv'
  BY <1>5 DEF DialConnected, Goto, config, socket, counters,
      IInv, TypeOK, SocketState, ReadyNodeIsWhole, LagIsSkippedWaits,
      AnswersTheRequest, AcceptedWithinFound, ShareUnderJudgement, Busy, Reply, Line
<1>6. ASSUME DialFailed(c) PROVE IInv'
  BY <1>6 DEF DialFailed, Goto, config, socket, counters,
      IInv, TypeOK, SocketState, ReadyNodeIsWhole, LagIsSkippedWaits,
      AnswersTheRequest, AcceptedWithinFound, ShareUnderJudgement, Busy, Reply, Line
<1>7. ASSUME DialRetry(c) PROVE IInv'
  BY <1>7 DEF DialRetry, Goto, config, socket, counters,
      IInv, TypeOK, SocketState, ReadyNodeIsWhole, LagIsSkippedWaits,
      AnswersTheRequest, AcceptedWithinFound, ShareUnderJudgement, Busy, Reply, Line
<1>8. ASSUME DialTimeout(c) PROVE IInv'
  BY <1>8, GivenUp DEF DialTimeout
<1>9. ASSUME ConnectLost(c) PROVE IInv'
  BY <1>9, GivenUp DEF ConnectLost
<1> QED BY <1>1, <1>2, <1>3, <1>4, <1>5, <1>6, <1>7, <1>8, <1>9 DEF Connect

-----------------------------------------------------------------------------
(* The steps of waitForClientData() *)

\* The places a task can be at when a wait has returned to its caller.
Returned(connected) == {"mine", "hash"} \cup (IF connected THEN {"ask"} ELSE {"lost"})

LEMMA ErrorCounted ==
  ASSUME TypeOK, NEW c \in Cores, CountError(c)
  PROVE  errors' \in [Cores -> 0 .. ERROR_THRESHOLD]
<1> DEFINE more == IF errors[c] < ERROR_THRESHOLD THEN errors[c] + 1 ELSE errors[c]
<1>1. errors' = [errors EXCEPT ![c] = more]
  BY DEF CountError
<1>2. errors \in [Cores -> 0 .. ERROR_THRESHOLD] /\ errors[c] \in 0 .. ERROR_THRESHOLD
  BY DEF TypeOK
<1>3. more \in 0 .. ERROR_THRESHOLD
  BY <1>2
<1> HIDE DEF more
<1> QED BY <1>1, <1>2, <1>3

LEMMA ShareCounted ==
  ASSUME NEW n \in 0 .. ShareCap, NEW m \in 0 .. ShareCap, n <= m
  PROVE  /\ CountShare(n) \in 0 .. ShareCap
         /\ n < m \/ m = ShareCap => CountShare(n) <= m
  BY DEF CountShare

\* The end of a wait, seen from the invariant.
LEMMA Delivered ==
  ASSUME IInv, NEW c \in Cores, NEW line \in Line, NEW connected \in BOOLEAN,
         Deliver(c, line, connected)
  PROVE  /\ want' = [want EXCEPT ![c] = "none"]
         /\ \E to \in Returned(connected) : pc' = [pc EXCEPT ![c] = to]
         /\ client_buffer' \in [Cores -> Line]
         /\ work' \in [Cores -> {"none", "fresh", "sent"}]
         /\ errors' \in [Cores -> 0 .. ERROR_THRESHOLD]
         /\ share_count' = share_count
         /\ accepted_share_count' \in [Cores -> 0 .. ShareCap]
         /\ AcceptedWithinFound' /\ ShareUnderJudgement'
<1>1. CASE want[c] = "version" /\ Greet(c, line, connected)
  <2>1. UNCHANGED <<work, errors, share_count, accepted_share_count>>
    BY <1>1 DEF Greet, counters
  <2> QED
    BY <1>1, <2>1 DEF Deliver, Greet, Returned, IInv, TypeOK, AcceptedWithinFound,
        ShareUnderJudgement, Line
<1>2. CASE want[c] = "job" /\ Parse(c, line)
  <2>1. errors' \in [Cores -> 0 .. ERROR_THRESHOLD]
    <3>1. TypeOK
      BY DEF IInv
    <3>2. UNCHANGED errors \/ CountError(c)
      BY <1>2 DEF Parse
    <3> QED BY <3>1, <3>2, ErrorCounted DEF TypeOK
  <2> QED
    BY <1>2, <2>1 DEF Deliver, Parse, Returned, IInv, TypeOK, AcceptedWithinFound,
        ShareUnderJudgement, Line
<1>3. CASE want[c] = "result" /\ Judge(c, line)
  <2>1. errors' \in [Cores -> 0 .. ERROR_THRESHOLD]
    <3>1. TypeOK
      BY DEF IInv
    <3>2. CASE errors' = [errors EXCEPT ![c] = 0]
      BY <3>1, <3>2 DEF TypeOK
    <3>3. CASE CountError(c)
      BY <3>1, <3>3, ErrorCounted
    <3> QED BY <1>3, <3>2, <3>3 DEF Judge
  <2>2. /\ client_buffer' = [client_buffer EXCEPT ![c] = "nothing"]
        /\ pc' = [pc EXCEPT ![c] = "mine"]
        /\ want' = [want EXCEPT ![c] = "none"]
        /\ UNCHANGED <<share_count, work>>
    BY <1>3 DEF Deliver, Judge
  <2>3. \/ accepted_share_count' = accepted_share_count
        \/ accepted_share_count' =
             [accepted_share_count EXCEPT ![c] = CountShare(accepted_share_count[c])]
    BY <1>3 DEF Judge
  <2>4. /\ accepted_share_count[c] \in 0 .. ShareCap /\ share_count[c] \in 0 .. ShareCap
        /\ accepted_share_count[c] <= share_count[c]
        /\ accepted_share_count[c] < share_count[c] \/ share_count[c] = ShareCap
    BY <1>3 DEF IInv, TypeOK, AcceptedWithinFound, ShareUnderJudgement
  <2>5. /\ CountShare(accepted_share_count[c]) \in 0 .. ShareCap
        /\ CountShare(accepted_share_count[c]) <= share_count[c]
    BY <2>4, ShareCounted
  <2>6. /\ accepted_share_count' \in [Cores -> 0 .. ShareCap]
        /\ AcceptedWithinFound' /\ ShareUnderJudgement'
    BY <2>2, <2>3, <2>5 DEF IInv, TypeOK, AcceptedWithinFound, ShareUnderJudgement
  <2> QED
    BY <2>1, <2>2, <2>6 DEF IInv, TypeOK, Returned, Line
<1> QED BY <1>1, <1>2, <1>3 DEF Deliver

LEMMA WaitStep ==
  ASSUME IInv, NEW c \in Cores, Wait(c)
  PROVE  IInv'
<1>1. ASSUME WaitSkip(c) PROVE IInv'
  <2>1. /\ pc[c] = "wait" /\ skipped[c] < MaxSkipped
        /\ skipped' = [skipped EXCEPT ![c] = skipped[c] + 1]
        /\ Deliver(c, "nothing", TRUE)
        /\ UNCHANGED <<is_ready, host, is_connected, client_sock, owed>>
    BY <1>1 DEF WaitSkip, config
  <2>2. want[c] # "none" /\ is_connected[c]
    BY <2>1 DEF IInv, SocketState
  <2>3. PICK to \in {"mine", "hash", "ask"} : pc' = [pc EXCEPT ![c] = to]
    BY <2>1, Delivered DEF Returned, Line
  <2>4. want' = [want EXCEPT ![c] = "none"]
    BY <2>1, Delivered DEF Line
  <2>5. TypeOK'
    <3>1. skipped' \in [Cores -> 0 .. MaxSkipped]
      BY <2>1 DEF IInv, TypeOK
    <3>2. "nothing" \in Line
      BY DEF Line
    <3> QED BY <2>1, <2>3, <2>4, <3>1, <3>2, Delivered DEF IInv, TypeOK, Busy
  <2>6. SocketState' /\ ReadyNodeIsWhole'
    BY <2>1, <2>2, <2>3, <2>4 DEF IInv, TypeOK, SocketState, ReadyNodeIsWhole
  <2>7. LagIsSkippedWaits'
    BY <2>1, <2>2, <2>3, <2>4 DEF IInv, TypeOK, LagIsSkippedWaits
  <2>8. AnswersTheRequest'
    BY <2>1, <2>3, <2>4 DEF IInv, TypeOK, AnswersTheRequest
  <2>9. AcceptedWithinFound' /\ ShareUnderJudgement'
    BY <2>1, Delivered DEF Line
  <2> QED BY <2>5, <2>6, <2>7, <2>8, <2>9 DEF IInv
<1>2. ASSUME WaitBegin(c) PROVE IInv'
  BY <1>2 DEF WaitBegin, Goto, config, socket, counters, IInv, TypeOK, SocketState,
      ReadyNodeIsWhole, LagIsSkippedWaits, AnswersTheRequest, AcceptedWithinFound,
      ShareUnderJudgement, Busy
<1>3. ASSUME ReadLine(c) PROVE IInv'
  <2>1. PICK line \in Line : Deliver(c, line, TRUE)
    BY <1>3 DEF ReadLine, Lines
  <2>2. /\ pc[c] = "read" /\ owed[c] # <<>>
        /\ owed' = [owed EXCEPT ![c] = Tail(owed[c])]
        /\ UNCHANGED <<is_ready, host, is_connected, client_sock, skipped>>
    BY <1>3 DEF ReadLine, config
  <2>3. want[c] # "none" /\ is_connected[c]
    BY <2>2 DEF IInv, SocketState
  <2>4. PICK to \in {"mine", "hash", "ask"} : pc' = [pc EXCEPT ![c] = to]
    BY <2>1, Delivered DEF Returned
  <2>5. want' = [want EXCEPT ![c] = "none"]
    BY <2>1, Delivered
  <2>6. owed[c] \in Seq(Reply) /\ Len(owed[c]) = skipped[c] + 1
    BY <2>2, <2>3 DEF IInv, TypeOK, LagIsSkippedWaits
  <2>7. owed' \in [Cores -> Seq(Reply)] /\ Len(owed'[c]) = skipped[c]
    BY <2>2, <2>6, TailReplies DEF IInv, TypeOK
  <2>8. TypeOK'
    BY <2>1, <2>2, <2>4, <2>5, <2>7, Delivered DEF IInv, TypeOK, Busy
  <2>9. SocketState' /\ ReadyNodeIsWhole'
    BY <2>2, <2>3, <2>4, <2>5 DEF IInv, TypeOK, SocketState, ReadyNodeIsWhole
  <2>10. LagIsSkippedWaits'
    BY <2>2, <2>4, <2>5, <2>7 DEF IInv, TypeOK, LagIsSkippedWaits
  <2>11. AnswersTheRequest'
    BY <2>2, <2>5 DEF IInv, TypeOK, AnswersTheRequest
  <2>12. AcceptedWithinFound' /\ ShareUnderJudgement'
    BY <2>1, Delivered
  <2> QED BY <2>8, <2>9, <2>10, <2>11, <2>12 DEF IInv
<1>4. ASSUME ReadLost(c) PROVE IInv'
  <2>1. PICK line \in Line : Deliver(c, line, FALSE)
    BY <1>4 DEF ReadLost, CutLines, Lines, Line
  <2>2. pc[c] = "read" /\ CloseSocket(c) /\ is_ready' = FALSE /\ host' = host
    BY <1>4 DEF ReadLost, DropConnection
  <2>3. PICK to \in {"mine", "hash", "lost"} : pc' = [pc EXCEPT ![c] = to]
    BY <2>1, Delivered DEF Returned
  <2>4. want' = [want EXCEPT ![c] = "none"]
    BY <2>1, Delivered
  <2>5. is_ready' \in BOOLEAN /\ ReadyNodeIsWhole'
    BY <2>2, FlagLowered
  <2>6. TypeOK
    BY DEF IInv
  <2>7. TypeOK'
    BY <2>1, <2>2, <2>3, <2>4, <2>5, <2>6, Delivered, SocketClosed DEF TypeOK, Busy
  <2>8. /\ ~is_connected'[c] /\ owed'[c] = <<>> /\ skipped'[c] = 0
        /\ want'[c] = "none" /\ pc'[c] = to
        /\ \A d \in Cores \ {c} :
             /\ is_connected'[d] = is_connected[d] /\ client_sock'[d] = client_sock[d]
             /\ owed'[d] = owed[d] /\ skipped'[d] = skipped[d]
             /\ want'[d] = want[d] /\ pc'[d] = pc[d]
    BY <2>2, <2>3, <2>4, <2>6, SocketClosed DEF TypeOK
  <2>9. SocketState' /\ LagIsSkippedWaits' /\ AnswersTheRequest'
    BY <2>8 DEF IInv, SocketState, LagIsSkippedWaits, AnswersTheRequest
  <2>10. AcceptedWithinFound' /\ ShareUnderJudgement'
    BY <2>1, Delivered
  <2> QED BY <2>5, <2>7, <2>8, <2>9, <2>10 DEF IInv
<1> QED BY <1>1, <1>2, <1>3, <1>4 DEF Wait

-----------------------------------------------------------------------------
(* The steps of askForJob(), the hash loop and submit() *)

\* A request cannot be sent: the connection is closed, the node withdrawn.
LEMMA SendFailed ==
  ASSUME IInv, NEW c \in Cores, pc[c] \in {"ask", "submit"}, DropConnection(c),
         NEW to \in {"mine", "hash"}, pc' = [pc EXCEPT ![c] = to],
         UNCHANGED <<want, client_buffer, work, counters>>
  PROVE  IInv'
<1>1. TypeOK /\ want[c] = "none"
  BY DEF IInv, SocketState
<1>2. /\ CloseSocket(c) /\ host' = host /\ is_ready' \in BOOLEAN /\ ReadyNodeIsWhole'
      /\ UNCHANGED <<want, client_buffer, work, errors, share_count, accepted_share_count>>
  BY FlagLowered DEF DropConnection, counters
<1>3. /\ pc' \in [Cores -> Busy \cup {"none"}] /\ pc'[c] = to
      /\ \A d \in Cores \ {c} : pc'[d] = pc[d]
  BY <1>1 DEF TypeOK, Busy
<1>4. TypeOK'
  BY <1>1, <1>2, <1>3, SocketClosed DEF TypeOK
<1>5. /\ ~is_connected'[c] /\ owed'[c] = <<>> /\ skipped'[c] = 0
      /\ \A d \in Cores \ {c} :
           /\ is_connected'[d] = is_connected[d] /\ client_sock'[d] = client_sock[d]
           /\ owed'[d] = owed[d] /\ skipped'[d] = skipped[d]
  BY <1>1, <1>2, SocketClosed
<1>6. SocketState' /\ LagIsSkippedWaits' /\ AnswersTheRequest'
  BY <1>1, <1>2, <1>3, <1>5 DEF IInv, SocketState, LagIsSkippedWaits, AnswersTheRequest
<1>7. AcceptedWithinFound' /\ ShareUnderJudgement'
  BY <1>2, <1>3 DEF IInv, AcceptedWithinFound, ShareUnderJudgement
<1> QED BY <1>2, <1>4, <1>6, <1>7 DEF IInv

LEMMA WorkStep ==
  ASSUME IInv, NEW c \in Cores, Work(c)
  PROVE  IInv'
<1>1. ASSUME MineStart(c) PROVE IInv'
  BY <1>1 DEF MineStart, Goto, config, socket, counters,
      IInv, TypeOK, SocketState, ReadyNodeIsWhole, LagIsSkippedWaits,
      AnswersTheRequest, AcceptedWithinFound, ShareUnderJudgement, Busy
<1>2. ASSUME AskSkip(c) PROVE IInv'
  BY <1>2 DEF AskSkip, Goto, config, socket, counters,
      IInv, TypeOK, SocketState, ReadyNodeIsWhole, LagIsSkippedWaits,
      AnswersTheRequest, AcceptedWithinFound, ShareUnderJudgement, Busy
<1>3. ASSUME AskSend(c) PROVE IInv'
  <2>1. /\ Send(c, "ask", "job") /\ is_connected[c]
        /\ is_ready' = is_ready /\ host' = host
        /\ UNCHANGED <<client_buffer, errors, share_count, accepted_share_count>>
        /\ UNCHANGED work
    BY <1>3 DEF AskSend, Send, Goto, IInv, SocketState, config, counters
  <2>2. LagIsSkippedWaits' /\ AnswersTheRequest'
    BY <2>1, SentReply DEF Reply
  <2>3. owed' \in [Cores -> Seq(Reply)]
    BY <2>1, AppendReply DEF Send, IInv, TypeOK, Reply
  <2>4. TypeOK'
    BY <2>1, <2>3 DEF Send, Goto, IInv, TypeOK, Busy, Reply
  <2>5. SocketState' /\ ReadyNodeIsWhole'
    BY <2>1 DEF Send, Goto, IInv, TypeOK, SocketState, ReadyNodeIsWhole
  <2>6. AcceptedWithinFound' /\ ShareUnderJudgement'
    BY <2>1 DEF Send, Goto, IInv, TypeOK, AcceptedWithinFound, ShareUnderJudgement
  <2> QED BY <2>2, <2>4, <2>5, <2>6 DEF IInv
<1>4. ASSUME AskSendFails(c) PROVE IInv'
  BY <1>4, SendFailed DEF AskSendFails, Goto, Empty
<1>5. ASSUME HashFound(c) PROVE IInv'
  BY <1>5 DEF HashFound, CountShare, Goto, config, socket, counters,
      IInv, TypeOK, SocketState, ReadyNodeIsWhole, LagIsSkippedWaits,
      AnswersTheRequest, AcceptedWithinFound, ShareUnderJudgement, Busy
<1>6. ASSUME HashEnd(c) PROVE IInv'
  BY <1>6 DEF HashEnd, Goto, config, socket, counters,
      IInv, TypeOK, SocketState, ReadyNodeIsWhole, LagIsSkippedWaits,
      AnswersTheRequest, AcceptedWithinFound, ShareUnderJudgement, Busy
<1>7. ASSUME SubmitSkip(c) PROVE IInv'
  BY <1>7 DEF SubmitSkip, Goto, config, socket, counters,
      IInv, TypeOK, SocketState, ReadyNodeIsWhole, LagIsSkippedWaits,
      AnswersTheRequest, AcceptedWithinFound, ShareUnderJudgement, Busy
<1>8. ASSUME SubmitSend(c) PROVE IInv'
  <2>1. /\ Send(c, "submit", "result") /\ is_connected[c]
        /\ is_ready' = is_ready /\ host' = host
        /\ UNCHANGED <<client_buffer, errors, share_count, accepted_share_count>>
        /\ work' = [work EXCEPT ![c] = "sent"]
    BY <1>8 DEF SubmitSend, Send, Goto, IInv, SocketState, config, counters
  <2>2. LagIsSkippedWaits' /\ AnswersTheRequest'
    BY <2>1, SentReply DEF Reply
  <2>3. owed' \in [Cores -> Seq(Reply)]
    BY <2>1, AppendReply DEF Send, IInv, TypeOK, Reply
  <2>4. TypeOK'
    BY <2>1, <2>3 DEF Send, Goto, IInv, TypeOK, Busy, Reply
  <2>5. SocketState' /\ ReadyNodeIsWhole'
    BY <2>1 DEF Send, Goto, IInv, TypeOK, SocketState, ReadyNodeIsWhole
  <2>6. AcceptedWithinFound' /\ ShareUnderJudgement'
    BY <2>1 DEF Send, Goto, IInv, TypeOK, AcceptedWithinFound, ShareUnderJudgement
  <2> QED BY <2>2, <2>4, <2>5, <2>6 DEF IInv
<1>9. ASSUME SubmitSendFails(c) PROVE IInv'
  BY <1>9, SendFailed DEF SubmitSendFails, Goto, Empty
<1> QED BY <1>1, <1>2, <1>3, <1>4, <1>5, <1>6, <1>7, <1>8, <1>9 DEF Work

-----------------------------------------------------------------------------
(* The steps of the main loop *)

LEMMA MainLoopStep ==
  ASSUME IInv, MainLoop
  PROVE  IInv'
<1>1. ASSUME Withdraw PROVE IInv'
  <2>1. is_ready' \in BOOLEAN /\ ReadyNodeIsWhole'
    BY <1>1, FlagLowered DEF Withdraw
  <2> QED
    BY <1>1, <2>1 DEF Withdraw, socket, counters, IInv, TypeOK, SocketState,
        LagIsSkippedWaits, AnswersTheRequest, AcceptedWithinFound, ShareUnderJudgement
<1>2. ASSUME Restart PROVE IInv'
  <2>1. is_ready' \in BOOLEAN /\ ReadyNodeIsWhole'
    BY <1>2, FlagLowered DEF Restart
  <2>2. owed' \in [Cores -> Seq(Reply)]
    BY <1>2, NoReplies DEF Restart
  <2>3. TypeOK'
    BY <1>2, <2>1, <2>2 DEF Restart, TypeOK, Busy, Line
  <2> QED
    BY <1>2, <2>1, <2>3 DEF Restart, IInv, SocketState, LagIsSkippedWaits,
        AnswersTheRequest, AcceptedWithinFound, ShareUnderJudgement
<1>3. ASSUME host \in Nodes, Publish PROVE IInv'
  BY <1>3 DEF Publish, socket, counters, IInv, TypeOK, SocketState, ReadyNodeIsWhole,
      LagIsSkippedWaits, AnswersTheRequest, AcceptedWithinFound, ShareUnderJudgement
<1>4. ASSUME ~is_ready, NEW h \in Nodes \cup {HalfWritten}, WriteHost(h) PROVE IInv'
  BY <1>4 DEF WriteHost, socket, counters, IInv, TypeOK, SocketState, ReadyNodeIsWhole,
      LagIsSkippedWaits, AnswersTheRequest, AcceptedWithinFound, ShareUnderJudgement
<1>5. ASSUME NEW c \in Cores, KillTask(c) PROVE IInv'
  BY <1>5 DEF KillTask, config, socket, counters, IInv, TypeOK, SocketState,
      ReadyNodeIsWhole, LagIsSkippedWaits, AnswersTheRequest, AcceptedWithinFound,
      ShareUnderJudgement
<1>6. ASSUME NEW c \in Cores, pc[c] = "none", FreeJob(c) PROVE IInv'
  <2>1. TypeOK /\ want[c] = "none"
    BY <1>6 DEF IInv, SocketState
  <2>2. /\ CloseSocket(c) /\ UNCHANGED <<is_ready, host, pc, want>>
        /\ client_buffer' = [client_buffer EXCEPT ![c] = "nothing"]
        /\ work' = [work EXCEPT ![c] = "none"]
        /\ errors' = [errors EXCEPT ![c] = 0]
        /\ share_count' = [share_count EXCEPT ![c] = 0]
        /\ accepted_share_count' = [accepted_share_count EXCEPT ![c] = 0]
    BY <1>6 DEF FreeJob, config
  <2>3. TypeOK'
    BY <2>1, <2>2, SocketClosed DEF TypeOK, Line
  <2>4. /\ ~is_connected'[c] /\ owed'[c] = <<>> /\ skipped'[c] = 0
        /\ \A d \in Cores \ {c} :
             /\ is_connected'[d] = is_connected[d] /\ client_sock'[d] = client_sock[d]
             /\ owed'[d] = owed[d] /\ skipped'[d] = skipped[d]
    BY <2>1, <2>2, SocketClosed
  <2>5. SocketState' /\ ReadyNodeIsWhole' /\ LagIsSkippedWaits' /\ AnswersTheRequest'
    BY <1>6, <2>1, <2>2, <2>4 DEF IInv, SocketState, ReadyNodeIsWhole, LagIsSkippedWaits,
        AnswersTheRequest
  <2>6. AcceptedWithinFound' /\ ShareUnderJudgement'
    BY <1>6, <2>1, <2>2 DEF IInv, TypeOK, AcceptedWithinFound, ShareUnderJudgement
  <2> QED BY <2>3, <2>5, <2>6 DEF IInv
<1> QED BY <1>1, <1>2, <1>3, <1>4, <1>5, <1>6 DEF MainLoop

-----------------------------------------------------------------------------
(* The theorems *)

LEMMA InitIInv == Init => IInv
<1> SUFFICES ASSUME Init PROVE IInv
  OBVIOUS
<1>1. owed \in [Cores -> Seq(Reply)]
  BY NoReplies DEF Init
<1>2. /\ pc \in [Cores -> Busy \cup {"none"}]
      /\ want \in [Cores -> Reply \cup {"none"}]
      /\ client_buffer \in [Cores -> Line]
      /\ work \in [Cores -> {"none", "fresh", "sent"}]
  BY DEF Init, Busy, Line
<1>3. /\ errors \in [Cores -> 0 .. ERROR_THRESHOLD]
      /\ share_count \in [Cores -> 0 .. ShareCap]
      /\ accepted_share_count \in [Cores -> 0 .. ShareCap]
      /\ skipped \in [Cores -> 0 .. MaxSkipped]
  BY DEF Init
<1>4. TypeOK
  BY <1>1, <1>2, <1>3 DEF Init, TypeOK
<1> QED
  BY <1>4 DEF Init, IInv, SocketState, ReadyNodeIsWhole, LagIsSkippedWaits,
      AnswersTheRequest, AcceptedWithinFound, ShareUnderJudgement

LEMMA StepIInv == IInv /\ [Next]_miningVars => IInv'
<1> SUFFICES ASSUME IInv, [Next]_miningVars PROVE IInv'
  OBVIOUS
<1>1. CASE MainLoop
  BY <1>1, MainLoopStep
<1>2. ASSUME NEW c \in Cores, Mine(c) PROVE IInv'
  BY <1>2, ConnectStep, WaitStep, WorkStep DEF Mine
<1>3. CASE UNCHANGED miningVars
  BY <1>3 DEF miningVars, IInv, TypeOK, SocketState, ReadyNodeIsWhole, LagIsSkippedWaits,
      AnswersTheRequest, AcceptedWithinFound, ShareUnderJudgement
<1> QED BY <1>1, <1>2, <1>3 DEF Next

\* The inductive invariant holds of the miner tasks, however many there are and
\* whatever the pool and the main loop do.
THEOREM Invariance == Spec => []IInv
<1> QED BY InitIInv, StepIInv, PTL DEF Spec

\* A connection lags by exactly the waits given up on it, and one that does not lag
\* answers the request that waits for it (waitForClientData()).
THEOREM Lag == Spec => [](LagIsSkippedWaits /\ AnswersTheRequest)
<1>1. IInv => LagIsSkippedWaits /\ AnswersTheRequest
  BY DEF IInv
<1> QED BY <1>1, Invariance, PTL

\* The line read next on a connection that does not lag is the answer to the request
\* that waits for it (waitForClientData()).
THEOREM Pairing == Spec => []AnswersTheRequest
<1>1. IInv => AnswersTheRequest
  BY DEF IInv
<1> QED BY <1>1, Invariance, PTL

\* A task that blocks in read() is owed a line by the pool: no miner and pool wait
\* for each other.
THEOREM NoMutualWait == Spec => []NeverWaitsForNothing
<1>1. ASSUME IInv PROVE NeverWaitsForNothing
  <2> SUFFICES ASSUME NEW c \in Cores, pc[c] = "read"
               PROVE  is_connected[c] /\ owed[c] # <<>>
    BY DEF NeverWaitsForNothing
  <2>1. is_connected[c] /\ want[c] # "none"
    BY <1>1 DEF IInv, SocketState
  <2>2. Len(owed[c]) = skipped[c] + 1 /\ skipped[c] \in Nat
    BY <1>1, <2>1 DEF IInv, TypeOK, LagIsSkippedWaits
  <2> QED BY <2>1, <2>2, NoReplies
<1> QED BY <1>1, Invariance, PTL

\* No job counts more accepted shares than it has found (submit()).
THEOREM AcceptRate == Spec => []AcceptedWithinFound
<1>1. IInv => AcceptedWithinFound
  BY DEF IInv
<1> QED BY <1>1, Invariance, PTL

\* Every step that loses a connection withdraws the node.
THEOREM LossIsTold == Spec => LossWithdrawsNode
<1> DEFINE Told == \A c \in Cores : is_connected[c] /\ ~is_connected'[c] => ~is_ready'
<1>1. ASSUME IInv, [Next]_miningVars PROVE [Told]_miningVars
  <2>1. CASE MainLoop
    <3>1. ASSUME Withdraw PROVE Told
      BY <3>1 DEF Withdraw
    <3>2. ASSUME Restart PROVE Told
      BY <3>2 DEF Restart
    <3>3. ASSUME Publish PROVE Told
      BY <3>3 DEF Publish, socket
    <3>4. ASSUME NEW h \in Nodes \cup {HalfWritten}, WriteHost(h) PROVE Told
      BY <3>4 DEF WriteHost, socket
    <3>5. ASSUME ~is_ready, NEW c \in Cores, KillTask(c) \/ FreeJob(c) PROVE Told
      BY <3>5 DEF KillTask, FreeJob, config
    <3> QED BY <2>1, <3>1, <3>2, <3>3, <3>4, <3>5 DEF MainLoop
  <2>2. ASSUME NEW c \in Cores, Connect(c) PROVE Told
    <3>1. CASE DialConnected(c)
      BY <1>1, <3>1 DEF DialConnected, IInv, TypeOK
    <3>2. CASE DialOpen(c) \/ DialFailed(c)
      BY <3>2 DEF DialOpen, DialFailed
    <3>3. UNCHANGED is_connected \/ DialConnected(c) \/ DialOpen(c) \/ DialFailed(c)
      BY <2>2 DEF Connect, ConnectReturn, ConnectReuse, ConnectDial, DialRetry,
          DialTimeout, ConnectLost, socket
    <3> QED BY <3>1, <3>2, <3>3
  <2>3. ASSUME NEW c \in Cores, Wait(c) PROVE Told
    BY <2>3 DEF Wait, WaitSkip, WaitBegin, ReadLine, ReadLost, DropConnection, socket
  <2>4. ASSUME NEW c \in Cores, Work(c) PROVE Told
    BY <2>4 DEF Work, MineStart, AskSkip, AskSend, AskSendFails, HashFound, HashEnd,
        SubmitSkip, SubmitSend, SubmitSendFails, Send, DropConnection, socket
  <2> QED BY <1>1, <2>1, <2>2, <2>3, <2>4 DEF Next, Mine
<1> QED BY <1>1, Invariance, PTL DEF Spec, LossWithdrawsNode

\* If the pool answers each request in kind, a request for a job counts as an error
\* only on a connection that is lost or that lags behind (askForJob()).
THEOREM JobErrors == ASSUME ~Garbled PROVE Spec => JobErrorHasCause
<1> DEFINE Rises(c) == want[c] = "job" /\ errors'[c] > errors[c]
           Cause(c) == ~is_connected'[c] \/ skipped'[c] > 0
           HasCause == \A c \in Cores : Rises(c) => Cause(c)
<1>1. ASSUME IInv, [Next]_miningVars PROVE [HasCause]_miningVars
  <2>1. CASE MainLoop
    <3>1. UNCHANGED errors \/ Restart \/ \E c \in Cores : FreeJob(c)
      BY <2>1 DEF MainLoop, Withdraw, Publish, WriteHost, KillTask, counters
    <3>2. CASE Restart
      BY <1>1, <3>2 DEF Restart, IInv, TypeOK
    <3>3. ASSUME NEW c \in Cores, FreeJob(c) PROVE HasCause
      BY <1>1, <3>3 DEF FreeJob, IInv, TypeOK
    <3>4. CASE UNCHANGED errors
      BY <1>1, <3>4 DEF IInv, TypeOK
    <3> QED BY <3>1, <3>2, <3>3, <3>4
  <2>2. ASSUME NEW c \in Cores, UNCHANGED errors PROVE HasCause
    BY <1>1, <2>2 DEF IInv, TypeOK
  <2>3. ASSUME NEW c \in Cores, Connect(c) PROVE HasCause
    BY <2>2, <2>3 DEF Connect, ConnectReturn, ConnectReuse, ConnectDial, DialOpen,
        DialConnected, DialFailed, DialRetry, DialTimeout, ConnectLost, counters
  <2>4. ASSUME NEW c \in Cores, Work(c) PROVE HasCause
    BY <2>2, <2>4 DEF Work, MineStart, AskSkip, AskSend, AskSendFails, HashFound, HashEnd,
        SubmitSkip, SubmitSend, SubmitSendFails, counters
  <2>5. ASSUME NEW c \in Cores, Wait(c) PROVE HasCause
    <3>1. CASE WaitBegin(c)
      BY <2>2, <3>1 DEF WaitBegin, counters
    <3>2. ASSUME NEW d \in Cores, Rises(d), NEW line \in Line, NEW connected \in BOOLEAN,
                 Deliver(c, line, connected)
          PROVE  d = c /\ line # "job"
      <4>1. CASE want[c] = "version" /\ Greet(c, line, connected)
        BY <1>1, <3>2, <4>1 DEF Greet, counters, IInv, TypeOK
      <4>2. CASE want[c] = "job" /\ Parse(c, line)
        BY <1>1, <3>2, <4>2 DEF Parse, CountError, IInv, TypeOK
      <4>3. CASE want[c] = "result" /\ Judge(c, line)
        BY <1>1, <3>2, <4>3 DEF Judge, CountError, IInv, TypeOK
      <4> QED BY <3>2, <4>1, <4>2, <4>3 DEF Deliver
    <3>3. CASE WaitSkip(c)
      <4>1. skipped'[c] > 0
        BY <1>1, <3>3 DEF WaitSkip, IInv, TypeOK
      <4>2. Deliver(c, "nothing", TRUE) /\ "nothing" \in Line
        BY <3>3 DEF WaitSkip, Line
      <4>3. ASSUME NEW d \in Cores, Rises(d) PROVE d = c
        BY <3>2, <4>2, <4>3
      <4> QED BY <4>1, <4>3
    <3>4. CASE ReadLost(c)
      <4>1. ~is_connected'[c]
        BY <1>1, <3>4, SocketClosed DEF ReadLost, DropConnection, IInv
      <4>2. PICK line \in Line : Deliver(c, line, FALSE)
        BY <3>4 DEF ReadLost, CutLines, Lines, Line
      <4> QED BY <3>2, <4>1, <4>2
    <3>5. CASE ReadLine(c)
      <4>1. PICK line \in Lines(Head(owed[c])) : Deliver(c, line, TRUE)
        BY <3>5 DEF ReadLine
      <4>2. line \in Line /\ pc[c] = "read" /\ skipped' = skipped
        BY <3>5, <4>1 DEF ReadLine, Lines
      <4>3. want[c] # "none" /\ skipped[c] \in Nat
        BY <1>1, <4>2 DEF IInv, TypeOK, SocketState
      <4>4. ASSUME NEW d \in Cores, Rises(d), skipped[c] = 0 PROVE FALSE
        <5>1. d = c /\ line # "job" /\ want[c] = "job"
          BY <3>2, <4>1, <4>2, <4>4
        <5>2. Head(owed[c]) = "job"
          BY <1>1, <4>3, <4>4, <5>1 DEF IInv, AnswersTheRequest
        <5> QED BY <4>1, <5>1, <5>2 DEF Lines, Answers
      <4>5. ASSUME NEW d \in Cores, Rises(d) PROVE d = c
        BY <3>2, <4>1, <4>2, <4>5
      <4>6. skipped[c] # 0 => skipped'[c] > 0
        BY <4>2, <4>3
      <4> QED BY <4>4, <4>5, <4>6
    <3> QED BY <2>5, <3>1, <3>3, <3>4, <3>5 DEF Wait
  <2> QED BY <1>1, <2>1, <2>3, <2>4, <2>5 DEF Next, Mine
<1> QED BY <1>1, Invariance, PTL DEF Spec, JobErrorHasCause

-----------------------------------------------------------------------------
(* The share counters *)

Judged(c) == pc[c] = "submit" \/ want[c] = "result"
PendingCores == {c \in Cores : Judged(c)}

\* A step of the task of core c, seen from the ledger.
LEMMA LedgerFrame ==
  ASSUME NEW c \in Cores, \A d \in Cores \ {c} : pc'[d] = pc[d] /\ want'[d] = want[d]
  PROVE  /\ Judged(c) = Judged(c)' => PendingCores' = PendingCores
         /\ Judged(c) /\ ~Judged(c)' => c \in PendingCores /\ PendingCores' = PendingCores \ {c}
         /\ ~Judged(c) /\ Judged(c)' => c \notin PendingCores /\ PendingCores' = PendingCores \cup {c}
  BY DEF Judged, PendingCores

\* A step that counts nothing and opens no share is one of the ledger, or none.
LEMMA LedgerQuiet ==
  ASSUME NEW c \in Cores, \A d \in Cores \ {c} : pc'[d] = pc[d] /\ want'[d] = want[d],
         UNCHANGED <<share_count, accepted_share_count>>,
         Judged(c)' => Judged(c)
  PROVE  [Ledger!Next]_(Ledger!ledgerVars)
<1>1. CASE Judged(c) /\ ~Judged(c)'
  <2>1. Ledger!Drop(c)
    BY <1>1, LedgerFrame DEF Ledger!Drop, PendingCores, Judged
  <2> QED BY <2>1 DEF Ledger!Next
<1>2. CASE Judged(c) = Judged(c)'
  BY <1>2, LedgerFrame DEF Ledger!ledgerVars, PendingCores, Judged
<1> QED BY <1>1, <1>2 DEF Judged

\* The ledger sees of the tasks what LedgerQuiet allows, except a share found and a
\* verdict GOOD.
LEMMA LedgerTask ==
  ASSUME IInv, NEW c \in Cores, Mine(c)
  PROVE  [Ledger!Next]_(Ledger!ledgerVars)
<1> DEFINE Frame == \A d \in Cores \ {c} : pc'[d] = pc[d] /\ want'[d] = want[d]
           Counts == UNCHANGED <<share_count, accepted_share_count>>
<1>1. /\ pc \in [Cores -> Busy \cup {"none"}] /\ want \in [Cores -> Reply \cup {"none"}]
      /\ share_count \in [Cores -> 0 .. ShareCap]
      /\ accepted_share_count \in [Cores -> 0 .. ShareCap]
      /\ want[c] # "none" <=> pc[c] \in {"wait", "read"}
  BY DEF IInv, TypeOK, SocketState
<1>2. CASE Connect(c)
  <2>1. Frame /\ Counts
    BY <1>1, <1>2 DEF Connect, ConnectReturn, ConnectReuse, ConnectDial, DialOpen,
        DialConnected, DialFailed, DialRetry, DialTimeout, ConnectLost, Goto, counters
  <2>2. ~Judged(c)'
    BY <1>1, <1>2 DEF Connect, ConnectReturn, ConnectReuse, ConnectDial, DialOpen,
        DialConnected, DialFailed, DialRetry, DialTimeout, ConnectLost, Goto, Judged
  <2> QED BY <2>1, <2>2, LedgerQuiet
<1>3. ASSUME NEW line \in Line, NEW connected \in BOOLEAN, Deliver(c, line, connected)
      PROVE  [Ledger!Next]_(Ledger!ledgerVars)
  <2>1. Frame /\ ~Judged(c)'
    BY <1>1, <1>3, Delivered DEF Returned, Judged
  <2>2. CASE Counts
    BY <2>1, <2>2, LedgerQuiet
  <2>3. CASE want[c] = "result" /\ Judge(c, line) /\ ~Counts
    <3>1. c \in PendingCores /\ PendingCores' = PendingCores \ {c}
      BY <2>1, <2>3, LedgerFrame DEF Judged
    <3>2. Ledger!Accept(c)
      BY <1>1, <2>3, <3>1 DEF Judge, Ledger!Accept, Ledger!CountShare, CountShare,
          PendingCores, Judged
    <3> QED BY <3>2 DEF Ledger!Next
  <2> QED BY <1>3, <2>2, <2>3 DEF Deliver, Greet, Parse, counters
<1>4. CASE Wait(c)
  <2>1. CASE WaitBegin(c)
    <3>1. Frame /\ Counts /\ (Judged(c)' => Judged(c))
      BY <1>1, <2>1 DEF WaitBegin, Goto, counters, Judged
    <3> QED BY <3>1, LedgerQuiet
  <2>2. CASE WaitSkip(c)
    BY <1>3, <2>2 DEF WaitSkip, Line
  <2>3. CASE ReadLine(c)
    BY <1>3, <2>3 DEF ReadLine, Lines
  <2>4. CASE ReadLost(c)
    BY <1>3, <2>4 DEF ReadLost, CutLines, Lines, Line
  <2> QED BY <1>4, <2>1, <2>2, <2>3, <2>4 DEF Wait
<1>5. CASE HashFound(c)
  <2>1. Frame /\ ~Judged(c) /\ Judged(c)'
    BY <1>1, <1>5 DEF HashFound, Goto, Judged
  <2>2. c \notin PendingCores /\ PendingCores' = PendingCores \cup {c}
    BY <2>1, LedgerFrame
  <2>3. Ledger!Find(c)
    BY <1>5, <2>2 DEF HashFound, Ledger!Find, Ledger!CountShare, CountShare, PendingCores, Judged
  <2> QED BY <2>3 DEF Ledger!Next
<1>6. CASE Work(c) /\ ~HashFound(c)
  <2>1. Frame /\ Counts
    BY <1>1, <1>6 DEF Work, MineStart, AskSkip, AskSend, AskSendFails, HashEnd, SubmitSkip,
        SubmitSend, SubmitSendFails, Send, Goto, counters
  <2>2. Judged(c)' => Judged(c)
    BY <1>1, <1>6 DEF Work, MineStart, AskSkip, AskSend, AskSendFails, HashEnd, SubmitSkip,
        SubmitSend, SubmitSendFails, Send, Goto, Judged
  <2> QED BY <2>1, <2>2, LedgerQuiet
<1> QED BY <1>2, <1>4, <1>5, <1>6 DEF Mine

LEMMA LedgerStep ==
  ASSUME IInv, [Next]_miningVars
  PROVE  [Ledger!Next]_(Ledger!ledgerVars)
<1>1. CASE Restart
  <2>1. Ledger!Reboot
    BY <1>1 DEF Restart, Ledger!Reboot
  <2> QED BY <2>1 DEF Ledger!Next
<1>2. ASSUME NEW c \in Cores, KillTask(c) PROVE [Ledger!Next]_(Ledger!ledgerVars)
  <2>1. /\ UNCHANGED <<share_count, accepted_share_count>> /\ ~Judged(c)'
        /\ \A d \in Cores \ {c} : pc'[d] = pc[d] /\ want'[d] = want[d]
    BY <1>2 DEF KillTask, counters, IInv, TypeOK, Judged
  <2> QED BY <2>1, LedgerQuiet
<1>3. ASSUME NEW c \in Cores, pc[c] = "none", FreeJob(c)
      PROVE  [Ledger!Next]_(Ledger!ledgerVars)
  <2>1. Ledger!Clear(c)
    BY <1>3 DEF FreeJob, Ledger!Clear, IInv, SocketState
  <2> QED BY <2>1 DEF Ledger!Next
<1>4. CASE UNCHANGED <<pc, want, share_count, accepted_share_count>>
  BY <1>4 DEF Ledger!ledgerVars
<1>5. ASSUME NEW c \in Cores, Mine(c) PROVE [Ledger!Next]_(Ledger!ledgerVars)
  BY <1>5, LedgerTask
<1>6. CASE MainLoop
  BY <1>1, <1>2, <1>3, <1>4, <1>6 DEF MainLoop, Withdraw, Publish, WriteHost, counters
<1>7. CASE UNCHANGED miningVars
  BY <1>4, <1>7 DEF miningVars
<1> QED BY <1>5, <1>6, <1>7 DEF Next

\* The miner tasks implement the ledger of shares: counted once when found, accepted
\* at most once while open (mine(), submit()).
THEOREM LedgerKept == Spec => ImplementsLedger
<1>1. Init => Ledger!Init
  BY DEF Init, Ledger!Init
<1> QED BY <1>1, Invariance, LedgerStep, PTL DEF Spec, ImplementsLedger, Ledger!Spec

=============================================================================
