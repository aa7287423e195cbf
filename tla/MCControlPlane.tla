---------------------------- MODULE MCControlPlane ----------------------------
(***************************************************************************)
(* Instances of ControlPlane for TLC.                                      *)
(***************************************************************************)
EXTENDS ControlPlane, TLC

NotReady == [prepared |-> FALSE, wsrep |-> "other", routed |-> TRUE]
IsReady == [prepared |-> TRUE, wsrep |-> "Primary", routed |-> TRUE]
Unrouted == [prepared |-> TRUE, wsrep |-> "other", routed |-> FALSE]

TwoReadings == {NotReady, IsReady}
ThreeReadings == {NotReady, IsReady, Unrouted}

SeededAgents == 1 .. Replicas
UnseededAgents == {0, Replicas}

Symmetry == Permutations(ClusterIters) \cup Permutations(NodeIters)
==============================================================================
