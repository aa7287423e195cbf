--------------------------- MODULE MCGaleraOperator ---------------------------
(***************************************************************************)
(* Instances of GaleraOperator for TLC.                                    *)
(***************************************************************************)
EXTENDS GaleraOperator

NotReady == [prepared |-> FALSE, wsrep |-> "other", routed |-> TRUE]
IsReady == [prepared |-> TRUE, wsrep |-> "Primary", routed |-> TRUE]

TwoReadings == {NotReady, IsReady}

AllAgents == 1 .. Replicas

\* Bounds: one heartbeat is handled at a time, which loses little since handlers of
\* two nodes touch different records; and an agent collects none for the state API
\* while its last one is handled, be it after its container was replaced.
OneAtATime ==
  /\ Cardinality(hbJobs) <= 1
  /\ \A j \in hbJobs : report[j.agent] = None

\* No step and no property of the runs depends on heardReady.
WithoutHistory == <<gr, clusterJobs, nodeJobs, hbJobs, agents, ran>>
==============================================================================
