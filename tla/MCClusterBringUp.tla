--------------------------- MODULE MCClusterBringUp ---------------------------
(***************************************************************************)
(* Instances of ClusterBringUp for TLC.                                    *)
(***************************************************************************)
EXTENDS ClusterBringUp

NotReady == [prepared |-> FALSE, wsrep |-> "other", routed |-> TRUE]
IsReady == [prepared |-> TRUE, wsrep |-> "Primary", routed |-> TRUE]

TwoReadings == {NotReady, IsReady}

AllAgents == 1 .. Replicas
==============================================================================
