----------------------- MODULE K8sControllerManagerProofs -----------------------
(***************************************************************************)
(* Proofs about K8sControllerManager, for any replicas, agents, clusters   *)
(* and versions: its steps are ControlPlane's, and only heartbeats change  *)
(* the seeded storage.                                                     *)
(***************************************************************************)
EXTENDS K8sControllerManager, ControlPlaneProofs

\* An iteration changes nothing in the storage or of the goroutines.
LEMMA IterateSteps ==
  ASSUME NEW i \in ClusterIters, Iterate(i)
  PROVE  UNCHANGED vars
<1>1. PICK outcome \in Outcomes :
        /\ clusterJobs' = clusterJobs \cup
             UNION {ReconcileCluster(i, r) :
                      r \in IF outcome = "listed" THEN GetResources(declared) ELSE {}}
        /\ UNCHANGED <<gr, nodeJobs, hbJobs, heardReady>>
  BY DEF Iterate
<1>2. (IF outcome = "listed" THEN GetResources(declared) ELSE {}) = {}
  BY DEF GetResources
<1>3. clusterJobs' = clusterJobs
  BY <1>1, <1>2
<1> QED BY <1>1, <1>3 DEF vars

LEMMA K8sSteps == [K8sNext]_k8sVars => [ServeHeartbeats \/ Restart]_vars
<1>1. ASSUME NEW c \in Cluster, Declare(c) \/ Withdraw(c) PROVE UNCHANGED vars
  BY <1>1 DEF Declare, Withdraw
<1>2. ASSUME UNCHANGED k8sVars PROVE UNCHANGED vars
  BY <1>2 DEF k8sVars
<1> QED BY <1>1, <1>2, IterateSteps DEF K8sNext, K8sRestart

(* What this process does to the storage, controller-manager does too, so  *)
(* what is proved of that one holds here as well.                          *)
THEOREM K8sRunsControlPlane == K8sSpec => Spec
<1>1. [K8sNext]_k8sVars => [Next]_vars
  BY K8sSteps DEF ServeHeartbeats, Next
<1>2. K8sInit => Init
  BY DEF K8sInit
<1> QED BY <1>1, <1>2, PTL DEF K8sSpec, Spec

-------------------------------------------------------------------------------
LEMMA K8sTypeStep ==
  K8sTypeOK /\ [K8sNext]_k8sVars =>
    declared' \subseteq Cluster /\ listing' \in {"none", "listed", "refused", "failed"}
<1> SUFFICES ASSUME K8sTypeOK, [K8sNext]_k8sVars
             PROVE  /\ declared' \subseteq Cluster
                    /\ listing' \in {"none", "listed", "refused", "failed"}
  OBVIOUS
<1>1. ASSUME NEW i \in ClusterIters, Iterate(i)
      PROVE  listing' \in {"none", "listed", "refused", "failed"} /\ UNCHANGED declared
  BY <1>1 DEF Iterate, Outcomes
<1>2. CASE \E i \in ClusterIters : Iterate(i)
  BY <1>1, <1>2 DEF K8sTypeOK
<1>3. CASE \E c \in Cluster : Declare(c) \/ Withdraw(c)
  BY <1>3 DEF Declare, Withdraw, K8sTypeOK
<1>4. CASE ServeHeartbeats \/ K8sRestart \/ UNCHANGED k8sVars
  BY <1>4 DEF ServeHeartbeats, K8sRestart, k8s, k8sVars, K8sTypeOK
<1> QED BY <1>2, <1>3, <1>4 DEF K8sNext

(* The process's state keeps its type for any replicas, agents and         *)
(* declared clusters.                                                      *)
THEOREM K8sTypeCorrect == K8sSpec => []K8sTypeOK
<1>1. K8sInit => K8sTypeOK
  BY TypeInit DEF K8sInit, K8sTypeOK
<1>2. K8sTypeOK /\ TypeOK' /\ [K8sNext]_k8sVars => K8sTypeOK'
  BY K8sTypeStep DEF K8sTypeOK
<1> QED BY <1>1, <1>2, K8sRunsControlPlane, TypeCorrect, PTL DEF K8sSpec

-------------------------------------------------------------------------------
\* A record that differs from the seeded one in its heartbeat at most.
AsSeeded(rec, n) ==
  /\ rec.status = Seed[n].status
  /\ rec.role = Seed[n].role
  /\ rec.started = Seed[n].started
  /\ rec.newCluster = Seed[n].newCluster
  /\ rec.incoming = Seed[n].incoming

\* A heartbeat that is being stored changes nothing but the heartbeat.
PlainInv ==
  /\ clusterJobs = {} /\ nodeJobs = {}
  /\ DOMAIN gr = DOMAIN Seed
  /\ \A n \in DOMAIN gr : AsSeeded(gr[n], n)
  /\ \A j \in hbJobs : j.name \in DOMAIN gr => AsSeeded(j.rec, j.name)

LEMMA PlainInit == Init => PlainInv
BY DEF Init, PlainInv, AsSeeded

LEMMA ReceivePlain ==
  ASSUME TypeOK, PlainInv, NEW a \in Agent, NEW r \in Readings, ReceiveHeartbeat(a, r)
  PROVE  PlainInv'
<1> DEFINE w == HeartbeatWrite(gr, a, Report(a, r))
<1>1. w.name \in DOMAIN gr => AsSeeded(w.rec, w.name)
  <2>1. CASE a \in DOMAIN gr
    <3>1. w.name = a /\ w.rec = [gr[a] EXCEPT !.hb = Report(a, r)]
      BY <2>1 DEF HeartbeatWrite, GetGeneralResource
    <3>2. gr[a] \in NodeRecord
      BY <2>1 DEF TypeOK, IsStore
    <3>3. /\ w.rec.status = gr[a].status /\ w.rec.role = gr[a].role
          /\ w.rec.started = gr[a].started /\ w.rec.newCluster = gr[a].newCluster
          /\ w.rec.incoming = gr[a].incoming
      BY <3>1, <3>2 DEF NodeRecord
    <3> QED BY <2>1, <3>1, <3>3 DEF PlainInv, AsSeeded
  <2>2. CASE a \notin DOMAIN gr
    <3>1. w.name = NoName
      BY <2>2 DEF HeartbeatWrite, GetGeneralResource
    <3>2. NoName \notin DOMAIN gr
      BY ReplicasAssumption DEF TypeOK, IsStore, NoName, Name
    <3> QED BY <3>1, <3>2
  <2> QED BY <2>1, <2>2
<1>2. UNCHANGED <<gr, clusterJobs, nodeJobs>>
      /\ hbJobs' = hbJobs \cup {[agent |-> a, name |-> w.name, rec |-> w.rec]}
  BY DEF ReceiveHeartbeat
<1> HIDE DEF w
<1> QED BY <1>1, <1>2 DEF PlainInv

LEMMA StorePlain ==
  ASSUME PlainInv, NEW j \in hbJobs, StoreHeartbeat(j)
  PROVE  PlainInv'
<1>1. /\ gr' = UpdateGeneralResource(gr, j.name, j.rec) /\ hbJobs' \subseteq hbJobs
      /\ UNCHANGED <<clusterJobs, nodeJobs>>
  BY DEF StoreHeartbeat
<1>2. DOMAIN gr' = DOMAIN gr
  BY <1>1 DEF UpdateGeneralResource
<1>3. \A n \in DOMAIN gr : AsSeeded(gr'[n], n)
  BY <1>1 DEF UpdateGeneralResource, PlainInv, AsSeeded
<1> QED BY <1>1, <1>2, <1>3 DEF PlainInv, AsSeeded

LEMMA PlainStep == TypeOK /\ PlainInv /\ [ServeHeartbeats \/ Restart]_vars => PlainInv'
<1>1. CASE ServeHeartbeats
  BY <1>1, ReceivePlain, StorePlain DEF ServeHeartbeats
<1>2. CASE Restart
  BY <1>2 DEF Restart, PlainInv, AsSeeded
<1>3. CASE UNCHANGED vars
  BY <1>3 DEF vars, PlainInv, AsSeeded
<1> QED BY <1>1, <1>2, <1>3

(* For any number of agents and whatever they report and users declare,    *)
(* nothing of the seeded storage changes but heartbeats (cluster.go:35,    *)
(* 71, main.go:64, 68).                                                    *)
THEOREM DeclarationsIgnoredHolds == K8sSpec => []DeclarationsIgnored
<1>1. PlainInv => DeclarationsIgnored
  BY DEF PlainInv, DeclarationsIgnored, AsSeeded, Served
<1>2. K8sInit => PlainInv
  BY PlainInit DEF K8sInit
<1> QED BY <1>1, <1>2, PlainStep, K8sSteps, K8sRunsControlPlane, TypeCorrect, PTL
        DEF K8sSpec
===============================================================================
