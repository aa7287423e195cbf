---------------------------- MODULE ClusterBringUp ----------------------------
(***************************************************************************)
(* ControlPlane in a process that goes on: its timers fire, what was begun *)
(* is carried on, and the agents of the nodes do what they were told.      *)
(*                                                                         *)
(* Of the iterations of the node controller some, Undisturbed, begin when  *)
(* nothing is under way and end before anything else begins.  Iterations   *)
(* take milliseconds and have periods of seconds, like the heartbeats and  *)
(* the cluster controller's, and the timers of the processes drift: that   *)
(* such iterations come again and again is assumed here, that all are so   *)
(* is not.  Any other iteration, request or create may overlap as it likes *)
(* and take back what was stored.                                          *)
(*                                                                         *)
(* A restart leads back to the initial state, with nothing known of the    *)
(* agents, so what follows the last one is a behaviour of this module.     *)
(***************************************************************************)
EXTENDS ControlPlane

CONSTANT Undisturbed  \* labels of the iterations that nothing overlaps

ASSUME UndisturbedAssumption == Undisturbed \subseteq NodeIters

-------------------------------------------------------------------------------
\* No reconcile and no heartbeat request is under way.
Idle == clusterJobs = {} /\ nodeJobs = {} /\ hbJobs = {}

\* An iteration begins that nothing will overlap.
BeginUndisturbed == Idle /\ \E i \in Undisturbed : ListNodes(i)

\* Anything else begins.  A heartbeat of a node that is not in the storage changes
\* nothing but the requests under way (HeartbeatWrite); such ones are left out.
Begin ==
  /\ \A j \in nodeJobs : j.iter \notin Undisturbed
  /\ \/ \E i \in ClusterIters : ListClusterNodes(i)
     \/ \E i \in NodeIters \ Undisturbed : ListNodes(i)
     \/ \E a \in Agent \cap DOMAIN gr, r \in Readings : ReceiveHeartbeat(a, r)

CarryOn ==
  \/ \E j \in clusterJobs : CreateNode(j)
  \/ \E j \in nodeJobs : ReconcileStep(j)
  \/ \E j \in hbJobs : StoreHeartbeat(j)

BringUpNext == BeginUndisturbed \/ Begin \/ CarryOn

-------------------------------------------------------------------------------
(* Fairness.                                                               *)

Told(n) == n \in DOMAIN gr /\ gr[n].started

\* A heartbeat of the agent is handled with nothing else under way; if the node was
\* told to start, it says that the node is ready.
HeardAlone(n) ==
  /\ clusterJobs = {} /\ nodeJobs = {}
  /\ \E j \in hbJobs : /\ hbJobs = {j} /\ j.agent = n
                       /\ Told(n) => Ready(j.rec.hb)
                       /\ StoreHeartbeat(j)

\* Goroutines run on; each agent's heartbeats go on and, again and again, say that
\* a node told to start is ready, which is what Settles and GetsPrepared of Agent
\* come to; and what undisturbed iterations could find again and again, of any node
\* or of one that is ready, one of them finds at last.
Fairness ==
  /\ WF_vars(\E i \in ClusterIters : ListClusterNodes(i))
  /\ WF_vars(\E j \in clusterJobs : CreateNode(j))
  /\ WF_vars(\E j \in nodeJobs : ReconcileStep(j))
  /\ \A n \in Agent : []<><<n \in DOMAIN gr => HeardAlone(n)>>_vars
  /\ SF_vars(BeginUndisturbed)
  /\ \A n \in Agent : SF_vars(Told(n) /\ Ready(gr[n].hb) /\ BeginUndisturbed)

BringUpSpec == Init /\ [][BringUpNext]_vars /\ Fairness

(* The controllers bring the whole cluster up: although reconciles and     *)
(* heartbeats take back statuses and target states that were stored        *)
(* between their reads and their writes, all nodes the cluster should have *)
(* come to exist and, at one time, to be ACTIVE with nothing under way     *)
(* that could take that back, and so they stay                             *)
(* (process_new_cluster.go:79-114, process_new_node.go:36-92,              *)
(* server.go:113-137).                                                     *)
ClusterComesUp == <>[](\A n \in 1 .. Replicas : LeftAlone(n))
==============================================================================
