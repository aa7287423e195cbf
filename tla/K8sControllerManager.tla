-------------------------- MODULE K8sControllerManager --------------------------
(***************************************************************************)
(* The k8s-controller-manager process: the storage and the state API of    *)
(* ControlPlane, no node controller, and a cluster controller that lists   *)
(* GaleraCluster objects in Kubernetes instead of the storage.             *)
(*                                                                         *)
(* It asks for version betav1 of them and keeps nothing of what it finds;  *)
(* what its Reconcile would do is what ControlPlane's cluster controller   *)
(* does.                                                                   *)
(***************************************************************************)
EXTENDS ControlPlane

CONSTANTS
  Cluster,     \* names of GaleraCluster objects users may declare
  SeedCluster, \* the name of the cluster the storage is seeded with
  Versions     \* versions of GaleraCluster the installed definition serves

VARIABLES
  declared,  \* objects there are
  listing    \* how the last listing went: "none" yet, "listed", "refused" for
             \* a version that is not served, "failed" for another error

k8s == <<declared, listing>>
k8sVars == <<vars, k8s>>

K8sTypeOK ==
  /\ TypeOK
  /\ declared \subseteq Cluster
  /\ listing \in {"none", "listed", "refused", "failed"}

K8sInit ==
  /\ Init
  /\ declared = {}
  /\ listing = "none"

-------------------------------------------------------------------------------
AskedVersion == "betav1"

\* The version the repository's own definition serves.
CRDVersion == "v1alpha1"

Outcomes == {"failed"} \cup
            (IF AskedVersion \in Versions THEN {"listed"} ELSE {"refused"})

\* Mutant: what is found is returned, as clusters to be created.
ReturnsFound(found) == {[name |-> c, status |-> "CREATING"] : c \in found}

\* Every object is unmarshalled and logged; none is put into the result.
GetResources(found) == {}

\* GetNodesByCluster: the nodes in the storage are the seeded cluster's.
NodesOf(c) == IF c = SeedCluster THEN gr ELSE EmptyStore

\* The nodes processNewCluster, a copy of the other process's, would create.
ProcessCluster(c) == ProcessNewCluster(NodesOf(c))

\* The reconcile of a cluster, up to the create it goes on to make.
ReconcileCluster(i, r) ==
  {[iter |-> i, name |-> n.name, rec |-> n.rec] :
     n \in IF r.status = "CREATING" THEN ProcessCluster(r.name) ELSE {}}

\* An iteration: the listing, and a reconcile of each resource it returned.
Iterate(i) ==
  \E outcome \in Outcomes :
    /\ listing' = outcome
    /\ clusterJobs' = clusterJobs \cup
         UNION {ReconcileCluster(i, r) :
                  r \in IF outcome = "listed" THEN GetResources(declared) ELSE {}}
    /\ UNCHANGED <<gr, nodeJobs, hbJobs, heardReady, declared>>

\* Users declare clusters and withdraw them.
Declare(c) ==
  /\ c \notin declared
  /\ declared' = declared \cup {c}
  /\ UNCHANGED <<vars, listing>>

Withdraw(c) ==
  /\ c \in declared
  /\ declared' = declared \ {c}
  /\ UNCHANGED <<vars, listing>>

\* The state API, which ControlPlane's agents go on talking to.
ServeHeartbeats ==
  /\ \/ \E a \in Agent, r \in Readings : ReceiveHeartbeat(a, r)
     \/ \E j \in hbJobs : StoreHeartbeat(j)
  /\ UNCHANGED k8s

K8sRestart ==
  /\ Restart
  /\ listing' = "none"
  /\ UNCHANGED declared

K8sNext ==
  \/ \E i \in ClusterIters : Iterate(i)
  \/ \E c \in Cluster : Declare(c) \/ Withdraw(c)
  \/ ServeHeartbeats
  \/ K8sRestart

K8sSpec == K8sInit /\ [][K8sNext]_k8sVars

-------------------------------------------------------------------------------
(* Safety.                                                                 *)

(* Whatever is declared and whatever the agents report, this process keeps *)
(* the seeded node as it was seeded, but for its heartbeat: no declared    *)
(* cluster gets a node, and the seeded one never becomes ACTIVE nor grows, *)
(* even when its node is ready (cluster.go:35, 71, main.go:64, 68).        *)
DeclarationsIgnored ==
  /\ clusterJobs = {} /\ nodeJobs = {}
  /\ DOMAIN gr = DOMAIN Seed
  /\ \A n \in DOMAIN gr : /\ Served(gr, n) = Served(Seed, n)
                          /\ gr[n].status = Seed[n].status

(* The repository's definition of GaleraCluster serves a version the       *)
(* controller asks for: its listings are never refused                     *)
(* (manifests/clusters.galera.operator.crd.yaml:18-19, cluster.go:37-41).  *)
AskedIsServed == Versions = {CRDVersion} => listing # "refused"
===============================================================================
