------------------------ MODULE MCK8sControllerManager ------------------------
(***************************************************************************)
(* Instances of K8sControllerManager for TLC.                              *)
(***************************************************************************)
EXTENDS K8sControllerManager

NotReady == [prepared |-> FALSE, wsrep |-> "other", routed |-> TRUE]
IsReady == [prepared |-> TRUE, wsrep |-> "Primary", routed |-> TRUE]

TwoReadings == {NotReady, IsReady}
TwoAgents == 1 .. 2
===============================================================================
