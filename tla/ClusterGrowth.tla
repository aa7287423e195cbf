----------------------------- MODULE ClusterGrowth -----------------------------
(***************************************************************************)
(* What the controllers promise of a cluster's membership: it grows node   *)
(* by node up to the replicas, each time only after all its nodes have     *)
(* reported ready; and a controller manager that starts anew starts from   *)
(* the beginning.                                                          *)
(***************************************************************************)
EXTENDS Integers

CONSTANTS
  Size,    \* how many nodes the cluster is to have
  Origin   \* the nodes it starts with

VARIABLES
  members,  \* the cluster's nodes
  ready     \* the nodes that reported ready

Init == members = Origin /\ ready = {}

BecomeReady(n) ==
  /\ n \in members
  /\ ready' = ready \cup {n}
  /\ UNCHANGED members

\* A cluster without nodes gets its first one, 0.
Found ==
  /\ members = {}
  /\ members' = {0}
  /\ UNCHANGED ready

\* The next number, behind node 1; a cluster that began with 0 stays as it is.
Grow ==
  \E n \in 2 .. Size :
    /\ n \notin members
    /\ 1 .. (n - 1) \subseteq members
    /\ members \subseteq ready
    /\ members' = members \cup {n}
    /\ UNCHANGED ready

StartAnew == members' = Origin /\ ready' = {}

Next == (\E n \in members : BecomeReady(n)) \/ Found \/ Grow \/ StartAnew

Spec == Init /\ [][Next]_<<members, ready>>
==============================================================================
