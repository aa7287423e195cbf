----------------------------- MODULE ControlPlane -----------------------------
(***************************************************************************)
(* The controller-manager process: the cluster and the node controller,    *)
(* the goroutines their iterations start, and the state API's heartbeat    *)
(* handler, all working on the in-memory storage.                          *)
(*                                                                         *)
(* A storage operation is atomic (it holds the storage mutex); everything  *)
(* between two operations of a goroutine interleaves with the others.  A   *)
(* goroutine in flight is a record that holds what it read and will write: *)
(*                                                                         *)
(*   clusterJobs  a cluster reconcile between GetNodesByCluster and        *)
(*                CreateResource                                           *)
(*   nodeJobs     a node reconcile that holds the copy of the node its     *)
(*                iteration listed ("listed"), or a joining secondary's    *)
(*                new target state not yet stored ("joining")              *)
(*   hbJobs       a heartbeat request between GetGeneralResource and       *)
(*                UpdateGeneralResource                                    *)
(*                                                                         *)
(* doIteration does not wait for the goroutines it starts.  Iterations are *)
(* told apart by a label; a label is free once its goroutines are done, so *)
(* the number of labels bounds how many iterations overlap.                *)
(***************************************************************************)
EXTENDS ClusterController, NodeController, StateApi

CONSTANTS
  ClusterIters,  \* labels of cluster-controller iterations
  NodeIters,     \* labels of node-controller iterations
  Agent,         \* the nodes whose agent runs; an agent may run before its
                 \* node is in the storage
  Readings,      \* what an agent's heartbeat can say about its node
  MayRestart     \* whether the process may crash and start again

Reading == [prepared : BOOLEAN, wsrep : {"Primary", "other"}, routed : BOOLEAN]

ASSUME AgentAssumption == Agent \subseteq Name
ASSUME ReadingsAssumption == Readings \subseteq Reading
ASSUME MayRestartAssumption == MayRestart \in BOOLEAN

VARIABLES
  gr,           \* the storage's map, node resources only
  clusterJobs,
  nodeJobs,
  hbJobs,
  heardReady    \* history: agents a ready heartbeat was accepted from since
                \* the process started

vars == <<gr, clusterJobs, nodeJobs, hbJobs, heardReady>>

ClusterJob == [iter : ClusterIters, name : Name, rec : NodeRecord]
NodeJob == [iter : NodeIters, phase : {"listed", "joining"}, name : Name,
            rec : NodeRecord]
HbJob == [agent : Agent, name : Name \cup {NoName}, rec : NodeRecord]

TypeOK ==
  /\ IsStore(gr)
  /\ clusterJobs \subseteq ClusterJob
  /\ nodeJobs \subseteq NodeJob
  /\ hbJobs \subseteq HbJob
  /\ heardReady \subseteq Agent

Init ==
  /\ gr = Seed
  /\ clusterJobs = {}
  /\ nodeJobs = {}
  /\ hbJobs = {}
  /\ heardReady = {}

-------------------------------------------------------------------------------
(* The cluster controller.                                                 *)

\* An iteration's reconcile lists the cluster's nodes.  The copy of the cluster
\* it was started with never changes, so nothing is lost by taking the listing
\* of the cluster, the start of the goroutine and the listing of its nodes as
\* one step.  When there is nothing to create the goroutine ends here.
ListClusterNodes(i) ==
  /\ \A j \in clusterJobs : j.iter # i
  /\ \E c \in ProcessNewCluster(gr) :
       clusterJobs' = clusterJobs \cup {[iter |-> i, name |-> c.name, rec |-> c.rec]}
  /\ UNCHANGED <<gr, nodeJobs, hbJobs, heardReady>>

\* The reconcile stores the node it decided on.
CreateNode(j) ==
  /\ j \in clusterJobs
  /\ gr' = CreateResource(gr, j.name, j.rec)
  /\ clusterJobs' = clusterJobs \ {j}
  /\ UNCHANGED <<nodeJobs, hbJobs, heardReady>>

-------------------------------------------------------------------------------
(* The node controller.                                                    *)

\* GetResources copies every node, and doIteration starts a goroutine for each.
\* A goroutine that has nothing to do is left out.
ListNodes(i) ==
  /\ \A j \in nodeJobs : j.iter # i
  /\ \E n \in DOMAIN gr : ToProcess(gr[n])
  /\ nodeJobs' = nodeJobs \cup
       {[iter |-> i, phase |-> "listed", name |-> n, rec |-> gr[n]] :
          n \in {m \in DOMAIN gr : ToProcess(gr[m])}}
  /\ UNCHANGED <<gr, clusterJobs, hbJobs, heardReady>>

\* A ready node is finalized: its listed copy, now ACTIVE, replaces the record.
FinalizeNode(j) ==
  /\ j \in nodeJobs
  /\ j.phase = "listed"
  /\ j.rec.role \in {"primary", "secondary"}
  /\ Ready(j.rec.hb)
  /\ gr' = UpdateGeneralResource(gr, j.name, Finalize(j.rec))
  /\ nodeJobs' = nodeJobs \ {j}
  /\ UNCHANGED <<clusterJobs, hbJobs, heardReady>>

\* A primary that is not ready is told again to bootstrap.
RequeuePrimary(j) ==
  /\ j \in nodeJobs
  /\ j.phase = "listed"
  /\ j.rec.role = "primary"
  /\ ~Ready(j.rec.hb)
  /\ gr' = UpdateGeneralResource(gr, j.name, ResetPrimary(j.rec))
  /\ nodeJobs' = nodeJobs \ {j}
  /\ UNCHANGED <<clusterJobs, hbJobs, heardReady>>

\* A secondary that is not ready collects the addresses of the cluster's nodes;
\* its reconcile fails when one of them is empty.
CollectAddresses(j) ==
  /\ j \in nodeJobs
  /\ j.phase = "listed"
  /\ j.rec.role = "secondary"
  /\ ~Ready(j.rec.hb)
  /\ \/ /\ AddressesKnown(gr)
        /\ \E list \in NodesByCluster(gr) :
             nodeJobs' = (nodeJobs \ {j}) \cup
               {[j EXCEPT !.phase = "joining", !.rec = JoinSecondary(j.rec, gr, list)]}
     \/ /\ ~AddressesKnown(gr)
        /\ nodeJobs' = nodeJobs \ {j}
  /\ UNCHANGED <<gr, clusterJobs, hbJobs, heardReady>>

\* The secondary's new target state replaces its record.
StoreJoin(j) ==
  /\ j \in nodeJobs
  /\ j.phase = "joining"
  /\ gr' = UpdateGeneralResource(gr, j.name, j.rec)
  /\ nodeJobs' = nodeJobs \ {j}
  /\ UNCHANGED <<clusterJobs, hbJobs, heardReady>>

-------------------------------------------------------------------------------
(* The state API.  An agent sends one heartbeat at a time.                 *)

Report(a, r) == [heard |-> TRUE, prepared |-> r.prepared, wsrep |-> r.wsrep,
                 ip |-> IF r.routed THEN a ELSE NilAddress]

\* handleHeartbeat stamps the report and reads the node it is about.
ReceiveHeartbeat(a, r) ==
  /\ \A j \in hbJobs : j.agent # a
  /\ LET w == HeartbeatWrite(gr, a, Report(a, r))
     IN  hbJobs' = hbJobs \cup {[agent |-> a, name |-> w.name, rec |-> w.rec]}
  /\ heardReady' = IF a \in DOMAIN gr /\ Ready(Report(a, r))
                   THEN heardReady \cup {a} ELSE heardReady
  /\ UNCHANGED <<gr, clusterJobs, nodeJobs>>

\* handleHeartbeat stores the copy it read, with the report in it.
StoreHeartbeat(j) ==
  /\ j \in hbJobs
  /\ gr' = UpdateGeneralResource(gr, j.name, j.rec)
  /\ hbJobs' = hbJobs \ {j}
  /\ UNCHANGED <<clusterJobs, nodeJobs, heardReady>>

-------------------------------------------------------------------------------
\* The process dies, or is told to stop, and starts again.  The storage is
\* memory: it is seeded anew and the goroutines and requests are gone.
Restart ==
  /\ MayRestart
  /\ gr' = Seed
  /\ clusterJobs' = {}
  /\ nodeJobs' = {}
  /\ hbJobs' = {}
  /\ heardReady' = {}

\* What a goroutine that reconciles a node does next.
ReconcileStep(j) ==
  FinalizeNode(j) \/ RequeuePrimary(j) \/ CollectAddresses(j) \/ StoreJoin(j)

Next ==
  \/ \E i \in ClusterIters : ListClusterNodes(i)
  \/ \E j \in clusterJobs : CreateNode(j)
  \/ \E i \in NodeIters : ListNodes(i)
  \/ \E j \in nodeJobs : FinalizeNode(j)
  \/ \E j \in nodeJobs : RequeuePrimary(j)
  \/ \E j \in nodeJobs : CollectAddresses(j)
  \/ \E j \in nodeJobs : StoreJoin(j)
  \/ \E a \in Agent, r \in Readings : ReceiveHeartbeat(a, r)
  \/ \E j \in hbJobs : StoreHeartbeat(j)
  \/ Restart

Spec == Init /\ [][Next]_vars

-------------------------------------------------------------------------------
(* Safety.                                                                 *)

\* The cluster's first node: the seeded node-1, or the one the controller made.
FirstName == IF Seeded THEN 1 ELSE 0

(* Whatever the controllers, the heartbeats and stale copies do to the     *)
(* records, the state API tells one agent only, and always the same one,   *)
(* that it is the primary and has to bootstrap a new Galera cluster        *)
(* (process_new_cluster.go:74 counts primaries, nothing else defends it).  *)
OneBootstrapper ==
  \A n \in DOMAIN gr : \A t \in Served(gr, n) :
    /\ (t.role = "primary") <=> (n = FirstName)
    /\ (t.role = "secondary") <=> (n # FirstName)
    /\ t.newCluster <=> (n = FirstName)

(* Nodes are numbered without a gap and never exceed the replicas, even    *)
(* when overlapping iterations decide from stale listings                  *)
(* (process_new_cluster.go:86-113 checks and creates in two steps).        *)
Contiguous == Seeded => \E k \in 1 .. Replicas : DOMAIN gr = 1 .. k

(* A node is ACTIVE only after its agent reported ready, and a further     *)
(* node exists only after every node before it had reported ready since    *)
(* the process started (process_new_cluster.go:79, process_new_node.go:36).*)
StagedGrowth ==
  Seeded => \A n \in DOMAIN gr :
    /\ gr[n].status = "ACTIVE" => n \in heardReady
    /\ 1 .. (n - 1) \subseteq heardReady

(* A secondary that is told to start is told an address for itself and for *)
(* every node created before it ("<nil>" stands for an agent that found    *)
(* none), and never an empty one (process_new_node.go:72-84).              *)
JoinListsPredecessors ==
  \A n \in DOMAIN gr : \A t \in Served(gr, n) :
    t.role = "secondary" /\ t.started =>
      /\ EmptyAddress \notin Range(t.incoming)
      /\ NilAddress \notin Range(t.incoming) => 1 .. n \subseteq Range(t.incoming)

(* While the process runs, a node once heard of is never again a node that *)
(* was not, whatever stale copies are stored; unless overlapping cluster   *)
(* iterations both decided to create it and the second does so late        *)
(* (storage.go:134 stores over an existing key).                           *)
HeartbeatNeverLost ==
  [][\A n \in DOMAIN gr :
       gr[n].hb.heard =>
         \/ gr' = Seed
         \/ n \in DOMAIN gr' /\ gr'[n].hb.heard
         \/ \E j \in clusterJobs : j.name = n /\ CreateNode(j)]_vars

\* An ACTIVE node that no reconcile in flight is about; what heartbeats in flight
\* will store of it differs from its record in the heartbeat only.
LeftAlone(n) ==
  /\ n \in DOMAIN gr /\ gr[n].status = "ACTIVE"
  /\ \A j \in clusterJobs \cup nodeJobs : j.name # n
  /\ \A j \in hbJobs : j.name = n => j.rec = [gr[n] EXCEPT !.hb = j.rec.hb]

(* Such a node is left alone as long as the process runs: whatever its     *)
(* heartbeats say and whatever becomes of the other nodes, its status and  *)
(* the target state it is served stay as they are, be they right or wrong  *)
(* (node.go:43, process_new_cluster.go:86-113, server.go:113-137).         *)
ActiveIsLeftAlone ==
  [][\A n \in DOMAIN gr :
       LeftAlone(n) =>
         \/ Restart
         \/ LeftAlone(n)' /\ Served(gr, n)' = Served(gr, n)]_vars

(* The checks before a create never hold up a cluster that is ready for    *)
(* its next node: there is always the one primary they ask for, and the    *)
(* number they come to is a new one; a cluster with two primaries or none  *)
(* would be passed over without an error for ever                          *)
(* (process_new_cluster.go:74-92).                                         *)
NextNodeIsDue ==
  Seeded /\ AllActive(gr) /\ Cardinality(DOMAIN gr) < Replicas =>
    \E c \in ProcessNewCluster(gr) : c.name \notin DOMAIN gr

(* The other branch: a cluster stored without nodes gets a first node      *)
(* whose Status is never set, which the node controller therefore never    *)
(* processes, and the cluster never grows past it                          *)
(* (process_new_cluster.go:28, node.go:43).                                *)
UnseededStalls ==
  ~Seeded => /\ DOMAIN gr \subseteq {0}
             /\ \A n \in DOMAIN gr : gr[n].status = ""
             /\ nodeJobs = {}
-------------------------------------------------------------------------------
(* The abstract cluster.                                                   *)

Growth == INSTANCE ClusterGrowth WITH
  Size    <- Replicas,
  Origin  <- DOMAIN Seed,
  members <- DOMAIN gr,
  ready   <- heardReady

(* However many iterations overlap and however stale the copies they work  *)
(* on, the controllers grow the cluster as ClusterGrowth does: by the next *)
(* node only, and only when every node there is has reported ready         *)
(* (process_new_cluster.go:53-116, storage.go:124-136).                    *)
GrowsInStages == Growth!Spec

==============================================================================
