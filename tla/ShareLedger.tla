----------------------------- MODULE ShareLedger -----------------------------
(***************************************************************************)
(* What a miner promises about its share counters, whatever the build: a   *)
(* share is counted once when it is found, stays open until a verdict is   *)
(* read or the attempt to get one is given up, and is accepted at most     *)
(* once in that time.  Verdicts carry no name, so that the one credited    *)
(* may have been meant for an earlier share; the sums hold all the same.   *)
(***************************************************************************)
EXTENDS Naturals

CONSTANTS
    Cores,
    ShareCap    \* bound: the counters stop counting here

VARIABLES
    share_count,
    accepted_share_count,
    pending     \* the cores whose share is found and not yet judged

ledgerVars == <<share_count, accepted_share_count, pending>>

CountShare(n) == IF n < ShareCap THEN n + 1 ELSE n

Init ==
    /\ share_count = [c \in Cores |-> 0]
    /\ accepted_share_count = [c \in Cores |-> 0]
    /\ pending = {}

Find(c) ==
    /\ c \notin pending
    /\ pending' = pending \cup {c}
    /\ share_count' = [share_count EXCEPT ![c] = CountShare(@)]
    /\ UNCHANGED accepted_share_count

Accept(c) ==
    /\ c \in pending
    /\ pending' = pending \ {c}
    /\ accepted_share_count' = [accepted_share_count EXCEPT ![c] = CountShare(@)]
    /\ UNCHANGED share_count

\* Rejected, not sent, or its task deleted.
Drop(c) ==
    /\ c \in pending
    /\ pending' = pending \ {c}
    /\ UNCHANGED <<share_count, accepted_share_count>>

\* The job is deleted, and its counters with it.
Clear(c) ==
    /\ c \notin pending
    /\ share_count' = [share_count EXCEPT ![c] = 0]
    /\ accepted_share_count' = [accepted_share_count EXCEPT ![c] = 0]
    /\ UNCHANGED pending

Reboot ==
    /\ share_count' = [c \in Cores |-> 0]
    /\ accepted_share_count' = [c \in Cores |-> 0]
    /\ pending' = {}

Next == Reboot \/ \E c \in Cores : Find(c) \/ Accept(c) \/ Drop(c) \/ Clear(c)

Spec == Init /\ [][Next]_ledgerVars

=============================================================================
