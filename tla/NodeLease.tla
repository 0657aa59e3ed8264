------------------------------ MODULE NodeLease ------------------------------
(***************************************************************************)
(* What the config promises the miner tasks about the pool node.  A node   *)
(* is on lease while is_ready is true.  Every task reads is_ready and then *)
(* uses host, port and node_id without a lock, so a node must never be     *)
(* exchanged under a lease: one node is revoked, for every task, before    *)
(* another is granted, and what is granted is a node in full.              *)
(***************************************************************************)
CONSTANTS
    Nodes,
    NoNode    \* no node on lease: not one of Nodes

VARIABLE lease   \* the node on lease, or NoNode

Init == lease = NoNode

Grant == lease = NoNode /\ lease' \in Nodes

Revoke == lease # NoNode /\ lease' = NoNode

Next == Grant \/ Revoke

Spec == Init /\ [][Next]_lease

=============================================================================
