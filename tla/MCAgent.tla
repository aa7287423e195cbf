------------------------------- MODULE MCAgent -------------------------------
(***************************************************************************)
(* Instances of Agent for TLC: the target states one node is served.       *)
(***************************************************************************)
EXTENDS Agent

CONSTANTS p0, p1, p2

\* A secondary waits, then joins; the list of addresses may change its order.
Hold == [role |-> "secondary", started |-> FALSE, newCluster |-> FALSE, incoming |-> p0]
Join(p) == [role |-> "secondary", started |-> TRUE, newCluster |-> FALSE, incoming |-> p]

\* A primary bootstraps, with no incoming address.
Boot == [role |-> "primary", started |-> TRUE, newCluster |-> TRUE, incoming |-> p0]

AllTargets == {Boot, Hold, Join(p1), Join(p2)}

AllPeers == {p0, p1, p2}
==============================================================================
