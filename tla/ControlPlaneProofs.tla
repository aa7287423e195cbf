-------------------------- MODULE ControlPlaneProofs --------------------------
(***************************************************************************)
(* Proofs about ControlPlane, for every number of replicas, of overlapping *)
(* iterations and of agents.                                               *)
(***************************************************************************)
EXTENDS ControlPlane, FiniteSetTheorems, TLAPS

-------------------------------------------------------------------------------
(* Types.                                                                  *)

\* The values the records are made of are in their types.
LEMMA ValueTypes ==
  /\ ZeroRecord \in NodeRecord
  /\ SeedNode \in NodeRecord
  /\ FirstNode \in NodeRecord
  /\ SecondaryNode \in NodeRecord
BY DEF ZeroRecord, SeedNode, FirstNode, SecondaryNode, NodeRecord, NoHeartbeat,
       Heartbeat, Address, EmptyAddress

\* Every storage operation yields a storage.
LEMMA StoreTypes ==
  ASSUME NEW store, IsStore(store), NEW rec \in NodeRecord
  PROVE  /\ \A name \in Name : IsStore(CreateResource(store, name, rec))
         /\ \A name : IsStore(UpdateGeneralResource(store, name, rec))
         /\ \A name \in DOMAIN store : store[name] \in NodeRecord
         /\ \A name \in Name :
              /\ GetGeneralResource(store, name).name \in {name, NoName}
              /\ GetGeneralResource(store, name).rec \in NodeRecord
BY ValueTypes DEF IsStore, CreateResource, UpdateGeneralResource, GetGeneralResource

LEMMA SeedType == IsStore(Seed)
BY ValueTypes, ReplicasAssumption
   DEF Seed, IsStore, EmptyStore, CreateResource, Name

\* The nodes the storage holds are finitely many.
LEMMA NodesFinite ==
  ASSUME NEW store, IsStore(store)
  PROVE  /\ IsFiniteSet(DOMAIN store)
         /\ Cardinality(DOMAIN store) \in Nat
         /\ DOMAIN store # {} => Cardinality(DOMAIN store) \in Nat \ {0}
<1>1. IsFiniteSet(Name)
  BY FS_Interval, ReplicasAssumption DEF Name
<1>2. IsFiniteSet(DOMAIN store)
  BY <1>1, FS_Subset DEF IsStore
<1>3. Cardinality(DOMAIN store) \in Nat
  BY <1>2, FS_CardinalityType
<1> QED BY <1>2, <1>3, FS_EmptySet

\* The addresses of the nodes are a list, with nothing in it but their addresses and
\* none of these left out, whatever order the nodes were listed in.
LEMMA AddressList ==
  ASSUME NEW store, IsStore(store), NEW list \in NodesByCluster(store)
  PROVE  /\ Addresses(store, list) \in Seq(Address)
         /\ Range(Addresses(store, list)) = {store[n].hb.ip : n \in DOMAIN store}
<1> DEFINE size == Cardinality(DOMAIN store)
<1>1. /\ size \in Nat
      /\ list \in [1 .. size -> DOMAIN store]
      /\ \A n \in DOMAIN store : \E i \in 1 .. size : list[i] = n
  BY NodesFinite DEF NodesByCluster, Bijection, Injection, Surjection
<1>2. \A n \in DOMAIN store : store[n].hb.ip \in Address
  BY DEF IsStore, NodeRecord, Heartbeat
<1> HIDE DEF size
<1>3. Addresses(store, list) = [i \in 1 .. size |-> store[list[i]].hb.ip]
  BY <1>1 DEF Addresses
<1>4. Addresses(store, list) \in Seq(Address)
  BY <1>1, <1>2, <1>3
<1>5. Range(Addresses(store, list)) = {store[list[i]].hb.ip : i \in 1 .. size}
  BY <1>3 DEF Range
<1>6. {store[list[i]].hb.ip : i \in 1 .. size} = {store[n].hb.ip : n \in DOMAIN store}
  BY <1>1
<1> QED BY <1>4, <1>5, <1>6

\* The controllers' changes of a record keep it a record.
LEMMA ChangeTypes ==
  ASSUME NEW rec \in NodeRecord
  PROVE  /\ Finalize(rec) \in NodeRecord
         /\ ResetPrimary(rec) \in NodeRecord
         /\ \A nodes : IsStore(nodes) => \A list \in NodesByCluster(nodes) :
              JoinSecondary(rec, nodes, list) \in NodeRecord
         /\ \A hb \in Heartbeat : [rec EXCEPT !.hb = hb] \in NodeRecord
<1>1. Finalize(rec) \in NodeRecord
  BY DEF Finalize, NodeRecord
<1>2. ResetPrimary(rec) \in NodeRecord
  <2>1. <<>> \in Seq(Address)
    OBVIOUS
  <2> QED BY <2>1 DEF ResetPrimary, NodeRecord
<1>3. ASSUME NEW nodes, IsStore(nodes), NEW list \in NodesByCluster(nodes)
      PROVE  JoinSecondary(rec, nodes, list) \in NodeRecord
  <2>1. Addresses(nodes, list) \in Seq(Address)
    BY <1>3, AddressList
  <2> QED BY <2>1 DEF JoinSecondary, NodeRecord
<1>4. ASSUME NEW hb \in Heartbeat
      PROVE  [rec EXCEPT !.hb = hb] \in NodeRecord
  BY DEF NodeRecord
<1> QED BY <1>1, <1>2, <1>3, <1>4

LEMMA ReportType ==
  ASSUME NEW a \in Agent, NEW r \in Readings
  PROVE  Report(a, r) \in Heartbeat
BY AgentAssumption, ReadingsAssumption
   DEF Report, Heartbeat, Reading, Address

\* A secondary's goroutine ends, or carries on with the addresses it collected.
LEMMA Collecting ==
  ASSUME TypeOK, NEW j \in nodeJobs, CollectAddresses(j)
  PROVE  /\ UNCHANGED <<gr, clusterJobs, hbJobs, heardReady>>
         /\ \/ nodeJobs' = nodeJobs \ {j}
            \/ \E list \in NodesByCluster(gr), t \in NodeJob :
                 /\ AddressesKnown(gr) /\ j.rec.role = "secondary"
                 /\ t.name = j.name /\ t.iter = j.iter
                 /\ t.rec = JoinSecondary(j.rec, gr, list)
                 /\ nodeJobs' = (nodeJobs \ {j}) \cup {t}
<1>1. CASE ~AddressesKnown(gr)
  BY <1>1 DEF CollectAddresses
<1>2. CASE AddressesKnown(gr)
  <2>1. PICK list \in NodesByCluster(gr) :
          nodeJobs' = (nodeJobs \ {j}) \cup
            {[j EXCEPT !.phase = "joining", !.rec = JoinSecondary(j.rec, gr, list)]}
    BY <1>2 DEF CollectAddresses
  <2> DEFINE t == [j EXCEPT !.phase = "joining", !.rec = JoinSecondary(j.rec, gr, list)]
  <2>2. JoinSecondary(j.rec, gr, list) \in NodeRecord
    BY ChangeTypes DEF TypeOK, NodeJob
  <2>3. t \in NodeJob /\ t.name = j.name /\ t.iter = j.iter
        /\ t.rec = JoinSecondary(j.rec, gr, list)
    BY <2>2 DEF TypeOK, NodeJob
  <2>4. UNCHANGED <<gr, clusterJobs, hbJobs, heardReady>> /\ j.rec.role = "secondary"
    BY DEF CollectAddresses
  <2>5. nodeJobs' = (nodeJobs \ {j}) \cup {t}
    BY <2>1
  <2> HIDE DEF t
  <2> QED BY <1>2, <2>3, <2>4, <2>5
<1> QED BY <1>1, <1>2

\* What the cluster controller creates has a node's name and is a node.
LEMMA CreatedType ==
  ASSUME NEW store, IsStore(store), NEW c \in ProcessNewCluster(store)
  PROVE  c.name \in Name /\ c.rec \in NodeRecord
<1>1. CASE DOMAIN store = {}
  BY <1>1, ValueTypes, ReplicasAssumption DEF ProcessNewCluster, Name
<1>2. CASE DOMAIN store # {}
  BY <1>2, NodesFinite, ValueTypes, ReplicasAssumption
     DEF ProcessNewCluster, SecondaryDue, SecondaryName, Name
<1> QED BY <1>1, <1>2

LEMMA TypeInit == Init => TypeOK
BY SeedType DEF Init, TypeOK

LEMMA TypeStep == TypeOK /\ [Next]_vars => TypeOK'
<1> SUFFICES ASSUME TypeOK, [Next]_vars PROVE TypeOK'
  OBVIOUS
<1> USE DEF TypeOK
<1>1. ASSUME NEW i \in ClusterIters, ListClusterNodes(i) PROVE TypeOK'
  BY <1>1, CreatedType DEF ListClusterNodes, ClusterJob
<1>2. ASSUME NEW j \in clusterJobs, CreateNode(j) PROVE TypeOK'
  BY <1>2, StoreTypes DEF CreateNode, ClusterJob
<1>3. ASSUME NEW i \in NodeIters, ListNodes(i) PROVE TypeOK'
  BY <1>3 DEF ListNodes, NodeJob, IsStore
<1>4. ASSUME NEW j \in nodeJobs, FinalizeNode(j) PROVE TypeOK'
  BY <1>4, StoreTypes, ChangeTypes DEF FinalizeNode, NodeJob
<1>5. ASSUME NEW j \in nodeJobs, RequeuePrimary(j) PROVE TypeOK'
  BY <1>5, StoreTypes, ChangeTypes DEF RequeuePrimary, NodeJob
<1>6. ASSUME NEW j \in nodeJobs, CollectAddresses(j) PROVE TypeOK'
  BY <1>6, Collecting
<1>7. ASSUME NEW j \in nodeJobs, StoreJoin(j) PROVE TypeOK'
  BY <1>7, StoreTypes DEF StoreJoin, NodeJob
<1>8. ASSUME NEW a \in Agent, NEW r \in Readings, ReceiveHeartbeat(a, r)
      PROVE  TypeOK'
  <2> DEFINE w == HeartbeatWrite(gr, a, Report(a, r))
  <2>1. a \in Name
    BY AgentAssumption
  <2>2. w.name \in Name \cup {NoName} /\ w.rec \in NodeRecord
    BY <2>1, StoreTypes, ChangeTypes, ReportType, ValueTypes DEF HeartbeatWrite
  <2>3. [agent |-> a, name |-> w.name, rec |-> w.rec] \in HbJob
    BY <2>2 DEF HbJob
  <2> QED BY <1>8, <2>3 DEF ReceiveHeartbeat
<1>9. ASSUME NEW j \in hbJobs, StoreHeartbeat(j) PROVE TypeOK'
  BY <1>9, StoreTypes DEF StoreHeartbeat, HbJob
<1>10. CASE Restart
  BY <1>10, SeedType DEF Restart
<1>11. CASE UNCHANGED vars
  BY <1>11 DEF vars
<1> QED BY <1>1, <1>2, <1>3, <1>4, <1>5, <1>6, <1>7, <1>8, <1>9, <1>10, <1>11
        DEF Next

\* Storage and goroutines hold well-formed node records only: no node outside
\* the cluster's names is ever stored, the zero node of a heartbeat from an
\* unknown agent included (server.go:113-137).
THEOREM TypeCorrect == Spec => []TypeOK
<1>1. Init => TypeOK
  BY TypeInit
<1>2. TypeOK /\ [Next]_vars => TypeOK'
  BY TypeStep
<1> QED BY <1>1, <1>2, PTL DEF Spec
-------------------------------------------------------------------------------
(* One bootstrapper.  OneBootstrapper speaks of the records the state API  *)
(* serves; it is not inductive, since a goroutine may store another one.   *)
(* Every record in flight has to fit the name it will be stored under.     *)

RoleFits(n, rec) ==
  /\ (rec.role = "primary") <=> (n = FirstName)
  /\ (rec.role = "secondary") <=> (n # FirstName)
  /\ rec.newCluster <=> (n = FirstName)

RoleInv ==
  /\ Seeded => 1 \in DOMAIN gr
  /\ \A n \in DOMAIN gr : RoleFits(n, gr[n])
  /\ \A j \in clusterJobs : RoleFits(j.name, j.rec)
  /\ \A j \in nodeJobs : RoleFits(j.name, j.rec)
  /\ \A j \in hbJobs : j.name # NoName => RoleFits(j.name, j.rec)

LEMMA SeedRoles ==
  /\ Seeded => 1 \in DOMAIN Seed
  /\ \A n \in DOMAIN Seed : RoleFits(n, Seed[n])
BY DEF Seed, EmptyStore, CreateResource, RoleFits, FirstName, SeedNode

\* The record the cluster controller creates fits its name: a node that is not
\* the first is numbered from 2 on, because the nodes listed are at least one.
LEMMA CreatedRole ==
  ASSUME NEW store, IsStore(store), Seeded => 1 \in DOMAIN store,
         NEW c \in ProcessNewCluster(store)
  PROVE  RoleFits(c.name, c.rec)
<1>1. CASE DOMAIN store = {}
  <2>1. c = [name |-> 0, rec |-> FirstNode]
    BY <1>1 DEF ProcessNewCluster
  <2>2. FirstName = 0
    BY <1>1 DEF FirstName
  <2> QED BY <2>1, <2>2 DEF RoleFits, FirstNode
<1>2. CASE DOMAIN store # {}
  <2>1. Cardinality(DOMAIN store) \in Nat \ {0}
    BY <1>2, NodesFinite
  <2>2. c = [name |-> SecondaryName(store), rec |-> SecondaryNode]
    BY <1>2 DEF ProcessNewCluster
  <2>3. SecondaryName(store) # FirstName
    BY <2>1 DEF SecondaryName, FirstName
  <2> QED BY <2>2, <2>3 DEF RoleFits, SecondaryNode
<1> QED BY <1>1, <1>2

\* Storing a record that fits its name keeps the storage fitting.
LEMMA CreateRoles ==
  ASSUME NEW store, \A n \in DOMAIN store : RoleFits(n, store[n]),
         NEW name, NEW rec, RoleFits(name, rec)
  PROVE  LET new == CreateResource(store, name, rec)
         IN  /\ DOMAIN store \subseteq DOMAIN new
             /\ \A n \in DOMAIN new : RoleFits(n, new[n])
BY DEF CreateResource

LEMMA UpdateRoles ==
  ASSUME NEW store, \A n \in DOMAIN store : RoleFits(n, store[n]),
         NEW name, NEW rec, name \in DOMAIN store => RoleFits(name, rec)
  PROVE  LET new == UpdateGeneralResource(store, name, rec)
         IN  /\ DOMAIN store = DOMAIN new
             /\ \A n \in DOMAIN new : RoleFits(n, new[n])
BY DEF UpdateGeneralResource

\* The controllers' and the heartbeat handler's changes keep a record fitting.
LEMMA ChangeRoles ==
  ASSUME NEW rec \in NodeRecord, NEW name, RoleFits(name, rec)
  PROVE  /\ RoleFits(name, Finalize(rec))
         /\ rec.role = "primary" => RoleFits(name, ResetPrimary(rec))
         /\ \A nodes, list : rec.role = "secondary" =>
                               RoleFits(name, JoinSecondary(rec, nodes, list))
         /\ \A hb : RoleFits(name, [rec EXCEPT !.hb = hb])
BY DEF RoleFits, NodeRecord, Finalize, ResetPrimary, JoinSecondary

LEMMA RoleInit == Init => RoleInv
BY SeedRoles DEF Init, RoleInv

LEMMA RoleStep == TypeOK /\ RoleInv /\ [Next]_vars => RoleInv'
<1> SUFFICES ASSUME TypeOK, RoleInv, [Next]_vars PROVE RoleInv'
  OBVIOUS
<1> USE DEF RoleInv
<1>0. /\ IsStore(gr)
      /\ \A j \in clusterJobs : j.name \in Name /\ j.rec \in NodeRecord
      /\ \A j \in nodeJobs : j.name \in Name /\ j.rec \in NodeRecord
      /\ NoName \notin DOMAIN gr
  BY DEF TypeOK, ClusterJob, NodeJob, HbJob, IsStore, Name, NoName
<1>1. ASSUME NEW i \in ClusterIters, ListClusterNodes(i) PROVE RoleInv'
  BY <1>0, <1>1, CreatedRole DEF ListClusterNodes
<1>2. ASSUME NEW j \in clusterJobs, CreateNode(j) PROVE RoleInv'
  BY <1>2, CreateRoles DEF CreateNode
<1>3. ASSUME NEW i \in NodeIters, ListNodes(i) PROVE RoleInv'
  BY <1>3 DEF ListNodes
<1>4. ASSUME NEW j \in nodeJobs, FinalizeNode(j) PROVE RoleInv'
  BY <1>0, <1>4, UpdateRoles, ChangeRoles DEF FinalizeNode
<1>5. ASSUME NEW j \in nodeJobs, RequeuePrimary(j) PROVE RoleInv'
  BY <1>0, <1>5, UpdateRoles, ChangeRoles DEF RequeuePrimary
<1>6. ASSUME NEW j \in nodeJobs, CollectAddresses(j) PROVE RoleInv'
  <2>1. \A list : j.rec.role = "secondary" =>
                     RoleFits(j.name, JoinSecondary(j.rec, gr, list))
    BY <1>0, ChangeRoles
  <2> QED BY <1>6, <2>1, Collecting
<1>7. ASSUME NEW j \in nodeJobs, StoreJoin(j) PROVE RoleInv'
  BY <1>7, UpdateRoles DEF StoreJoin
<1>8. ASSUME NEW a \in Agent, NEW r \in Readings, ReceiveHeartbeat(a, r)
      PROVE  RoleInv'
  <2> DEFINE w == HeartbeatWrite(gr, a, Report(a, r))
  <2>1. CASE a \in DOMAIN gr
    <3>1. w.name = a /\ w.rec = [gr[a] EXCEPT !.hb = Report(a, r)]
      BY <2>1 DEF HeartbeatWrite, GetGeneralResource
    <3>2. gr[a] \in NodeRecord /\ RoleFits(a, gr[a])
      BY <1>0, <2>1 DEF IsStore
    <3>3. RoleFits(a, [gr[a] EXCEPT !.hb = Report(a, r)])
      BY <3>2, ChangeRoles
    <3>4. RoleFits(w.name, w.rec)
      BY <3>1, <3>3
    <3> QED BY <1>8, <3>4 DEF ReceiveHeartbeat
  <2>2. CASE a \notin DOMAIN gr
    <3>1. w.name = NoName
      BY <2>2 DEF HeartbeatWrite, GetGeneralResource
    <3> QED BY <1>8, <3>1 DEF ReceiveHeartbeat
  <2> QED BY <2>1, <2>2
<1>9. ASSUME NEW j \in hbJobs, StoreHeartbeat(j) PROVE RoleInv'
  <2>1. j.name \in DOMAIN gr => RoleFits(j.name, j.rec)
    BY <1>0
  <2>2. DOMAIN gr' = DOMAIN gr /\ \A n \in DOMAIN gr' : RoleFits(n, gr'[n])
    BY <1>9, <2>1, UpdateRoles DEF StoreHeartbeat
  <2> QED BY <1>9, <2>2 DEF StoreHeartbeat
<1>10. CASE Restart
  BY <1>10, SeedRoles DEF Restart
<1>11. CASE UNCHANGED vars
  BY <1>11 DEF vars, RoleFits, FirstName
<1> QED BY <1>1, <1>2, <1>3, <1>4, <1>5, <1>6, <1>7, <1>8, <1>9, <1>10, <1>11
        DEF Next

\* Exactly one node, and always the same one, is told to bootstrap a cluster
\* (process_new_cluster.go:21, process_new_node.go:34-98).
THEOREM OneBootstrapperHolds == Spec => []OneBootstrapper
<1>1. TypeOK /\ RoleInv => OneBootstrapper
  BY DEF OneBootstrapper, RoleInv, RoleFits, Served
<1> QED BY <1>1, TypeInit, TypeStep, RoleInit, RoleStep, PTL DEF Spec
-------------------------------------------------------------------------------
(* Numbering.  A creation in flight was decided from a listing that may be *)
(* stale by now, so the strengthening bounds the name it will use: one the *)
(* storage has already, or the next one.                                   *)

NamingInv ==
  Seeded => \E k \in 1 .. Replicas :
    /\ DOMAIN gr = 1 .. k
    /\ \A j \in clusterJobs : j.name \in 2 .. (k + 1) /\ j.name <= Replicas

\* What an iteration creates after listing nodes 1 to k is node k + 1, and only
\* when all of them are active and fewer than the replicas.
LEMMA CreatedName ==
  ASSUME NEW store, NEW k \in 1 .. Replicas, DOMAIN store = 1 .. k,
         NEW c \in ProcessNewCluster(store)
  PROVE  /\ c = [name |-> k + 1, rec |-> SecondaryNode]
         /\ k < Replicas
         /\ AllActive(store)
<1>1. k \in Nat /\ 1 \in DOMAIN store
  BY ReplicasAssumption
<1>2. Cardinality(DOMAIN store) = k
  BY <1>1, FS_Interval
<1> QED BY <1>1, <1>2 DEF ProcessNewCluster, SecondaryDue, SecondaryName

LEMMA NamingInit == Init => NamingInv
<1> SUFFICES ASSUME Init, Seeded PROVE NamingInv
  BY DEF NamingInv
<1>1. DOMAIN gr = 1 .. 1 /\ clusterJobs = {}
  BY DEF Init, Seed, CreateResource, EmptyStore
<1> QED BY <1>1, ReplicasAssumption DEF NamingInv

LEMMA NamingStep == TypeOK /\ NamingInv /\ [Next]_vars => NamingInv'
<1> SUFFICES ASSUME TypeOK, NamingInv, [Next]_vars, Seeded PROVE NamingInv'
  BY DEF NamingInv
<1>k. PICK k \in 1 .. Replicas :
        /\ DOMAIN gr = 1 .. k
        /\ \A j \in clusterJobs : j.name \in 2 .. (k + 1) /\ j.name <= Replicas
  BY DEF NamingInv
<1>0. k \in Nat /\ Replicas \in Nat
  BY ReplicasAssumption
<1>1. ASSUME NEW i \in ClusterIters, ListClusterNodes(i) PROVE NamingInv'
  <2>1. PICK c \in ProcessNewCluster(gr) :
          clusterJobs' = clusterJobs \cup {[iter |-> i, name |-> c.name, rec |-> c.rec]}
    BY <1>1 DEF ListClusterNodes
  <2>2. c.name = k + 1 /\ k < Replicas
    BY <1>k, <2>1, CreatedName
  <2>3. \A j \in clusterJobs' : j.name \in 2 .. (k + 1) /\ j.name <= Replicas
    BY <1>0, <1>k, <2>1, <2>2
  <2> QED BY <1>1, <1>k, <2>3 DEF ListClusterNodes, NamingInv
<1>2. ASSUME NEW j \in clusterJobs, CreateNode(j) PROVE NamingInv'
  <2>1. DOMAIN gr' = (1 .. k) \cup {j.name}
    BY <1>2, <1>k DEF CreateNode, CreateResource
  <2>2. CASE j.name = k + 1
    <3>1. DOMAIN gr' = 1 .. (k + 1)
      BY <1>0, <2>1, <2>2
    <3>2. k + 1 \in 1 .. Replicas
      BY <1>0, <1>k, <2>2
    <3>3. \A i \in clusterJobs' : i.name \in 2 .. (k + 2) /\ i.name <= Replicas
      BY <1>0, <1>2, <1>k DEF CreateNode
    <3> QED BY <1>0, <3>1, <3>2, <3>3 DEF NamingInv
  <2>3. CASE j.name # k + 1
    <3>1. DOMAIN gr' = 1 .. k
      BY <1>0, <1>k, <2>1, <2>3
    <3> QED BY <1>2, <1>k, <3>1 DEF CreateNode, NamingInv
  <2> QED BY <2>2, <2>3
<1>3. ASSUME clusterJobs' = clusterJobs, DOMAIN gr' = DOMAIN gr PROVE NamingInv'
  BY <1>3, <1>k DEF NamingInv
<1>4. ASSUME NEW name, NEW rec, gr' = UpdateGeneralResource(gr, name, rec)
      PROVE  DOMAIN gr' = DOMAIN gr
  BY <1>4 DEF UpdateGeneralResource
<1>5. CASE \E i \in NodeIters : ListNodes(i)
  BY <1>5, <1>3 DEF ListNodes
<1>6. CASE \E j \in nodeJobs : FinalizeNode(j) \/ RequeuePrimary(j) \/ StoreJoin(j)
  BY <1>6, <1>3, <1>4 DEF FinalizeNode, RequeuePrimary, StoreJoin
<1>7. CASE \E j \in nodeJobs : CollectAddresses(j)
  BY <1>7, <1>3 DEF CollectAddresses
<1>8. CASE \E a \in Agent, r \in Readings : ReceiveHeartbeat(a, r)
  BY <1>8, <1>3 DEF ReceiveHeartbeat
<1>9. CASE \E j \in hbJobs : StoreHeartbeat(j)
  BY <1>9, <1>3, <1>4 DEF StoreHeartbeat
<1>10. CASE Restart
  <2>1. DOMAIN gr' = 1 .. 1 /\ clusterJobs' = {}
    BY <1>10 DEF Restart, Seed, CreateResource, EmptyStore
  <2> QED BY <2>1, ReplicasAssumption DEF NamingInv
<1>11. CASE UNCHANGED vars
  BY <1>11, <1>3 DEF vars
<1> QED BY <1>1, <1>2, <1>5, <1>6, <1>7, <1>8, <1>9, <1>10, <1>11 DEF Next

\* However iterations overlap, nodes are numbered 1 to k and k never exceeds
\* the replicas (process_new_cluster.go:86-113).
THEOREM ContiguousHolds == Spec => []Contiguous
<1>1. NamingInv => Contiguous
  BY DEF NamingInv, Contiguous
<1> QED BY <1>1, TypeInit, TypeStep, NamingInit, NamingStep, PTL DEF Spec
-------------------------------------------------------------------------------
(* Staged growth.  A record is vouched for when it is neither ACTIVE nor   *)
(* about to be found ready without its agent having reported so.  Stale    *)
(* copies are vouched for too, because heardReady only grows until the     *)
(* process restarts and every copy is gone.                                *)

Vouched(n, rec, heard) == rec.status = "ACTIVE" \/ Ready(rec.hb) => n \in heard

ReadyInv ==
  Seeded =>
    /\ \A n \in DOMAIN gr : /\ Vouched(n, gr[n], heardReady)
                            /\ 1 .. (n - 1) \subseteq heardReady
    /\ \A j \in clusterJobs : /\ Vouched(j.name, j.rec, heardReady)
                              /\ 1 .. (j.name - 1) \subseteq heardReady
    /\ \A j \in nodeJobs : Vouched(j.name, j.rec, heardReady)
    /\ \A j \in hbJobs : j.name # NoName => Vouched(j.name, j.rec, heardReady)

LEMMA ReadyInit == Init => ReadyInv
BY DEF Init, ReadyInv, Seed, CreateResource, EmptyStore, Vouched, SeedNode, Ready,
       NoHeartbeat

LEMMA ChangeVouched ==
  ASSUME NEW rec \in NodeRecord, NEW n, NEW heard, Vouched(n, rec, heard)
  PROVE  /\ Ready(rec.hb) => Vouched(n, Finalize(rec), heard)
         /\ Vouched(n, ResetPrimary(rec), heard)
         /\ \A nodes, list : Vouched(n, JoinSecondary(rec, nodes, list), heard)
         /\ \A hb \in Heartbeat : (Ready(hb) => n \in heard)
                                   => Vouched(n, [rec EXCEPT !.hb = hb], heard)
BY DEF Vouched, NodeRecord, Heartbeat, Ready, Finalize, ResetPrimary, JoinSecondary

LEMMA UpdateVouched ==
  ASSUME NEW heard, NEW store, \A n \in DOMAIN store : Vouched(n, store[n], heard),
         NEW name, NEW rec, name \in DOMAIN store => Vouched(name, rec, heard)
  PROVE  LET new == UpdateGeneralResource(store, name, rec)
         IN  DOMAIN store = DOMAIN new /\ \A n \in DOMAIN new : Vouched(n, new[n], heard)
BY DEF UpdateGeneralResource

LEMMA ReadyStep ==
  TypeOK /\ NamingInv /\ ReadyInv /\ [Next]_vars => ReadyInv'
<1> SUFFICES ASSUME TypeOK, NamingInv, ReadyInv, [Next]_vars, Seeded
             PROVE  ReadyInv'
  BY DEF ReadyInv
<1> USE DEF ReadyInv
<1>0. /\ IsStore(gr)
      /\ \A j \in nodeJobs : j.name \in Name /\ j.rec \in NodeRecord
      /\ NoName \notin DOMAIN gr
  BY DEF TypeOK, NodeJob, IsStore, Name, NoName
<1>1. ASSUME NEW i \in ClusterIters, ListClusterNodes(i) PROVE ReadyInv'
  <2>1. PICK c \in ProcessNewCluster(gr) :
          clusterJobs' = clusterJobs \cup {[iter |-> i, name |-> c.name, rec |-> c.rec]}
    BY <1>1 DEF ListClusterNodes
  <2>2. PICK k \in 1 .. Replicas : DOMAIN gr = 1 .. k
    BY DEF NamingInv
  <2>3. k \in Nat /\ c = [name |-> k + 1, rec |-> SecondaryNode] /\ AllActive(gr)
    BY <2>2, CreatedName, ReplicasAssumption
  <2>4. 1 .. k \subseteq heardReady
    BY <2>2, <2>3 DEF AllActive, Vouched
  <2>5. Vouched(c.name, c.rec, heardReady) /\ 1 .. (c.name - 1) \subseteq heardReady
    BY <2>3, <2>4 DEF Vouched, SecondaryNode, Ready, NoHeartbeat
  <2> QED BY <1>1, <2>1, <2>5 DEF ListClusterNodes
<1>2. ASSUME NEW j \in clusterJobs, CreateNode(j) PROVE ReadyInv'
  BY <1>2 DEF CreateNode, CreateResource
<1>3. ASSUME NEW i \in NodeIters, ListNodes(i) PROVE ReadyInv'
  BY <1>3 DEF ListNodes
<1>4. ASSUME NEW j \in nodeJobs, NEW rec, Vouched(j.name, rec, heardReady),
             gr' = UpdateGeneralResource(gr, j.name, rec), nodeJobs' = nodeJobs \ {j},
             UNCHANGED <<clusterJobs, hbJobs, heardReady>>
      PROVE  ReadyInv'
  <2>1. DOMAIN gr' = DOMAIN gr /\ \A n \in DOMAIN gr' : Vouched(n, gr'[n], heardReady)
    BY <1>4, UpdateVouched
  <2> QED BY <1>4, <2>1
<1>5. ASSUME NEW j \in nodeJobs, FinalizeNode(j) PROVE ReadyInv'
  BY <1>0, <1>4, <1>5, ChangeVouched DEF FinalizeNode
<1>6. ASSUME NEW j \in nodeJobs, RequeuePrimary(j) PROVE ReadyInv'
  BY <1>0, <1>4, <1>6, ChangeVouched DEF RequeuePrimary
<1>7. ASSUME NEW j \in nodeJobs, StoreJoin(j) PROVE ReadyInv'
  BY <1>4, <1>7 DEF StoreJoin
<1>8. ASSUME NEW j \in nodeJobs, CollectAddresses(j) PROVE ReadyInv'
  <2>1. \A list : Vouched(j.name, JoinSecondary(j.rec, gr, list), heardReady)
    BY <1>0, ChangeVouched
  <2> QED BY <1>8, <2>1, Collecting
<1>9. ASSUME NEW a \in Agent, NEW r \in Readings, ReceiveHeartbeat(a, r)
      PROVE  ReadyInv'
  <2> DEFINE w == HeartbeatWrite(gr, a, Report(a, r))
  <2>1. \A n, rec : Vouched(n, rec, heardReady) => Vouched(n, rec, heardReady')
    BY <1>9 DEF ReceiveHeartbeat, Vouched
  <2>2. heardReady \subseteq heardReady' /\ UNCHANGED <<gr, clusterJobs, nodeJobs>>
    BY <1>9 DEF ReceiveHeartbeat
  <2>3. w.name # NoName => Vouched(w.name, w.rec, heardReady')
    <3>1. CASE a \in DOMAIN gr
      <4>1. w.name = a /\ w.rec = [gr[a] EXCEPT !.hb = Report(a, r)]
        BY <3>1 DEF HeartbeatWrite, GetGeneralResource
      <4>2. Ready(Report(a, r)) => a \in heardReady'
        BY <1>9, <3>1 DEF ReceiveHeartbeat
      <4>3. gr[a] \in NodeRecord /\ Vouched(a, gr[a], heardReady')
        BY <1>0, <2>1, <3>1 DEF IsStore
      <4> QED BY <4>1, <4>2, <4>3, ReportType, ChangeVouched
    <3>2. CASE a \notin DOMAIN gr
      BY <3>2 DEF HeartbeatWrite, GetGeneralResource
    <3> QED BY <3>1, <3>2
  <2>4. hbJobs' = hbJobs \cup {[agent |-> a, name |-> w.name, rec |-> w.rec]}
    BY <1>9 DEF ReceiveHeartbeat
  <2> HIDE DEF w
  <2>5. \A j \in hbJobs' : j.name # NoName => Vouched(j.name, j.rec, heardReady')
    BY <2>1, <2>3, <2>4
  <2>6. \A n \in DOMAIN gr' : /\ Vouched(n, gr'[n], heardReady')
                             /\ 1 .. (n - 1) \subseteq heardReady'
    BY <2>1, <2>2
  <2>7. \A j \in clusterJobs' : /\ Vouched(j.name, j.rec, heardReady')
                               /\ 1 .. (j.name - 1) \subseteq heardReady'
    BY <2>1, <2>2
  <2>8. \A j \in nodeJobs' : Vouched(j.name, j.rec, heardReady')
    BY <2>1, <2>2
  <2> QED BY <2>5, <2>6, <2>7, <2>8
<1>10. ASSUME NEW j \in hbJobs, StoreHeartbeat(j) PROVE ReadyInv'
  <2>1. j.name \in DOMAIN gr => Vouched(j.name, j.rec, heardReady)
    BY <1>0
  <2>2. DOMAIN gr' = DOMAIN gr /\ \A n \in DOMAIN gr' : Vouched(n, gr'[n], heardReady)
    BY <1>10, <2>1, UpdateVouched DEF StoreHeartbeat
  <2> QED BY <1>10, <2>2 DEF StoreHeartbeat
<1>11. CASE Restart
  BY <1>11 DEF Restart, Seed, CreateResource, EmptyStore, Vouched, SeedNode, Ready,
               NoHeartbeat
<1>12. CASE UNCHANGED vars
  BY <1>12 DEF vars
<1> QED BY <1>1, <1>2, <1>3, <1>5, <1>6, <1>7, <1>8, <1>9, <1>10, <1>11, <1>12
        DEF Next

\* No node is ACTIVE and none is added behind it before its agent reported ready
\* (process_new_cluster.go:79, process_new_node.go:36).
THEOREM StagedGrowthHolds == Spec => []StagedGrowth
<1>1. ReadyInv => StagedGrowth
  BY DEF ReadyInv, StagedGrowth, Vouched
<1> QED BY <1>1, TypeInit, TypeStep, NamingInit, NamingStep, ReadyInit, ReadyStep,
           PTL DEF Spec
-------------------------------------------------------------------------------
(* The branch of a cluster stored without nodes.                           *)

NoStatus(rec) == rec.status = ""

StallInv ==
  ~Seeded =>
    /\ DOMAIN gr \subseteq {0}
    /\ \A n \in DOMAIN gr : NoStatus(gr[n])
    /\ nodeJobs = {}
    /\ \A j \in clusterJobs : j.name = 0 /\ NoStatus(j.rec)
    /\ \A j \in hbJobs : NoStatus(j.rec)

LEMMA StallInit == Init => StallInv
BY DEF Init, StallInv, Seed, EmptyStore

LEMMA StallStep == TypeOK /\ StallInv /\ [Next]_vars => StallInv'
<1> SUFFICES ASSUME TypeOK, StallInv, [Next]_vars, ~Seeded PROVE StallInv'
  BY DEF StallInv
<1> USE DEF StallInv
<1>1. ASSUME NEW i \in ClusterIters, ListClusterNodes(i) PROVE StallInv'
  <2>1. PICK c \in ProcessNewCluster(gr) :
          clusterJobs' = clusterJobs \cup {[iter |-> i, name |-> c.name, rec |-> c.rec]}
    BY <1>1 DEF ListClusterNodes
  <2>2. DOMAIN gr = {}
    BY <2>1 DEF ProcessNewCluster, SecondaryDue, AllActive, NoStatus
  <2>3. c = [name |-> 0, rec |-> FirstNode]
    BY <2>1, <2>2 DEF ProcessNewCluster
  <2>4. c.name = 0 /\ NoStatus(c.rec)
    BY <2>3 DEF FirstNode, NoStatus
  <2>5. gr' = gr /\ nodeJobs' = nodeJobs /\ hbJobs' = hbJobs
    BY <1>1 DEF ListClusterNodes
  <2>6. \A j \in clusterJobs' : j.name = 0 /\ NoStatus(j.rec)
    BY <2>1, <2>4
  <2> QED BY <2>5, <2>6
<1>2. ASSUME NEW j \in clusterJobs, CreateNode(j) PROVE StallInv'
  BY <1>2 DEF CreateNode, CreateResource
<1>3. ASSUME NEW i \in NodeIters, ListNodes(i) PROVE FALSE
  BY <1>3 DEF ListNodes, ToProcess, NoStatus
<1>4. ASSUME NEW a \in Agent, NEW r \in Readings, ReceiveHeartbeat(a, r)
      PROVE  StallInv'
  <2> DEFINE w == HeartbeatWrite(gr, a, Report(a, r))
  <2>1. NoStatus(w.rec)
    <3>1. CASE a \in DOMAIN gr
      <4>1. gr[a] \in NodeRecord /\ w.rec = [gr[a] EXCEPT !.hb = Report(a, r)]
        BY <3>1 DEF HeartbeatWrite, GetGeneralResource, TypeOK, IsStore
      <4> QED BY <3>1, <4>1 DEF NodeRecord, NoStatus
    <3>2. CASE a \notin DOMAIN gr
      BY <3>2 DEF HeartbeatWrite, GetGeneralResource, ZeroRecord, NoStatus
    <3> QED BY <3>1, <3>2
  <2>2. hbJobs' = hbJobs \cup {[agent |-> a, name |-> w.name, rec |-> w.rec]}
    BY <1>4 DEF ReceiveHeartbeat
  <2>3. gr' = gr /\ clusterJobs' = clusterJobs /\ nodeJobs' = nodeJobs
    BY <1>4 DEF ReceiveHeartbeat
  <2> HIDE DEF w
  <2>4. \A j \in hbJobs' : NoStatus(j.rec)
    BY <2>1, <2>2
  <2> QED BY <2>3, <2>4
<1>5. ASSUME NEW j \in hbJobs, StoreHeartbeat(j) PROVE StallInv'
  BY <1>5 DEF StoreHeartbeat, UpdateGeneralResource
<1>6. CASE Restart
  BY <1>6 DEF Restart, Seed, EmptyStore
<1>7. CASE UNCHANGED vars
  BY <1>7 DEF vars
<1> QED BY <1>1, <1>2, <1>3, <1>4, <1>5, <1>6, <1>7 DEF Next

\* A cluster stored without nodes never gets past its first node
\* (process_new_cluster.go:28, node.go:43).
THEOREM UnseededStallsHolds == Spec => []UnseededStalls
<1>1. StallInv => UnseededStalls
  BY DEF StallInv, UnseededStalls, NoStatus
<1> QED BY <1>1, TypeInit, TypeStep, StallInit, StallStep, PTL DEF Spec

-------------------------------------------------------------------------------
(* Addresses.  What a joining secondary is told was collected earlier and  *)
(* is carried by copies ever since; every copy lists the predecessors.     *)

ListsPredecessors(n, rec) ==
  rec.role = "secondary" /\ rec.started =>
    /\ EmptyAddress \notin Range(rec.incoming)
    /\ NilAddress \notin Range(rec.incoming) => 1 .. n \subseteq Range(rec.incoming)

\* A node's record holds no other node's address.
Addressed(n, rec) ==
  /\ rec.hb.ip \in {EmptyAddress, NilAddress, n}
  /\ ListsPredecessors(n, rec)

JoinInv ==
  Seeded =>
    /\ \A n \in DOMAIN gr : Addressed(n, gr[n])
    /\ \A j \in clusterJobs : Addressed(j.name, j.rec)
    /\ \A j \in nodeJobs : j.name \in DOMAIN gr /\ Addressed(j.name, j.rec)
    /\ \A j \in hbJobs : j.name # NoName => Addressed(j.name, j.rec)

LEMMA JoinInit == Init => JoinInv
BY DEF Init, JoinInv, Seed, CreateResource, EmptyStore, Addressed, ListsPredecessors,
       SeedNode, NoHeartbeat

LEMMA UpdateAddressed ==
  ASSUME NEW store, \A n \in DOMAIN store : Addressed(n, store[n]),
         NEW name, NEW rec, name \in DOMAIN store => Addressed(name, rec)
  PROVE  LET new == UpdateGeneralResource(store, name, rec)
         IN  DOMAIN store = DOMAIN new /\ \A n \in DOMAIN new : Addressed(n, new[n])
BY DEF UpdateGeneralResource

LEMMA ChangeAddressed ==
  ASSUME NEW rec \in NodeRecord, NEW n, Addressed(n, rec)
  PROVE  /\ Addressed(n, Finalize(rec))
         /\ Addressed(n, ResetPrimary(rec))
         /\ \A hb \in Heartbeat : hb.ip \in {EmptyAddress, NilAddress, n}
                                   => Addressed(n, [rec EXCEPT !.hb = hb])
BY DEF Addressed, ListsPredecessors, NodeRecord, Heartbeat, Finalize, ResetPrimary

\* The addresses collected from nodes 1 to k, all known, are those of 1 to k
\* unless one of them is "<nil>".
LEMMA JoinAddressed ==
  ASSUME NEW store, IsStore(store), NEW k \in Nat, DOMAIN store = 1 .. k,
         \A m \in DOMAIN store : Addressed(m, store[m]), AddressesKnown(store),
         NEW n \in 1 .. k, NEW rec \in NodeRecord, Addressed(n, rec),
         NEW list \in NodesByCluster(store)
  PROVE  Addressed(n, JoinSecondary(rec, store, list))
<1> DEFINE ips == {store[m].hb.ip : m \in DOMAIN store}
<1>1. EmptyAddress \notin ips
  BY DEF AddressesKnown
<1>2. ASSUME NilAddress \notin ips PROVE 1 .. n \subseteq ips
  <2>1. \A m \in 1 .. n : m \in DOMAIN store
    OBVIOUS
  <2>2. \A m \in DOMAIN store : store[m].hb.ip \in ips
    OBVIOUS
  <2>3. \A m \in DOMAIN store : store[m].hb.ip = m
    BY <1>1, <1>2, <2>2 DEF Addressed
  <2> QED BY <2>1, <2>2, <2>3
<1>3. /\ Range(JoinSecondary(rec, store, list).incoming) = ips
      /\ JoinSecondary(rec, store, list).hb = rec.hb
  BY AddressList DEF JoinSecondary, NodeRecord
<1> HIDE DEF ips
<1> QED BY <1>1, <1>2, <1>3 DEF Addressed, ListsPredecessors

LEMMA JoinStep == TypeOK /\ NamingInv /\ JoinInv /\ [Next]_vars => JoinInv'
<1> SUFFICES ASSUME TypeOK, NamingInv, JoinInv, [Next]_vars, Seeded
             PROVE  JoinInv'
  BY DEF JoinInv
<1> USE DEF JoinInv
<1>0. /\ IsStore(gr)
      /\ \A j \in nodeJobs : j.name \in Name /\ j.rec \in NodeRecord
      /\ NoName \notin DOMAIN gr
  BY DEF TypeOK, NodeJob, IsStore, Name, NoName
<1>k. PICK k \in 1 .. Replicas : DOMAIN gr = 1 .. k
  BY DEF NamingInv
<1>1. ASSUME NEW i \in ClusterIters, ListClusterNodes(i) PROVE JoinInv'
  <2>1. PICK c \in ProcessNewCluster(gr) :
          clusterJobs' = clusterJobs \cup {[iter |-> i, name |-> c.name, rec |-> c.rec]}
    BY <1>1 DEF ListClusterNodes
  <2>2. c = [name |-> k + 1, rec |-> SecondaryNode]
    BY <1>k, <2>1, CreatedName
  <2>3. Addressed(c.name, c.rec)
    BY <2>2 DEF Addressed, ListsPredecessors, SecondaryNode, NoHeartbeat
  <2> QED BY <1>1, <2>1, <2>3 DEF ListClusterNodes
<1>2. ASSUME NEW j \in clusterJobs, CreateNode(j) PROVE JoinInv'
  BY <1>2 DEF CreateNode, CreateResource
<1>3. ASSUME NEW i \in NodeIters, ListNodes(i) PROVE JoinInv'
  BY <1>3 DEF ListNodes
<1>4. ASSUME NEW j \in nodeJobs, NEW rec, Addressed(j.name, rec),
             gr' = UpdateGeneralResource(gr, j.name, rec), nodeJobs' = nodeJobs \ {j},
             UNCHANGED <<clusterJobs, hbJobs>>
      PROVE  JoinInv'
  <2>1. DOMAIN gr' = DOMAIN gr /\ \A n \in DOMAIN gr' : Addressed(n, gr'[n])
    BY <1>4, UpdateAddressed
  <2> QED BY <1>4, <2>1
<1>5. ASSUME NEW j \in nodeJobs, FinalizeNode(j) PROVE JoinInv'
  BY <1>0, <1>4, <1>5, ChangeAddressed DEF FinalizeNode
<1>6. ASSUME NEW j \in nodeJobs, RequeuePrimary(j) PROVE JoinInv'
  BY <1>0, <1>4, <1>6, ChangeAddressed DEF RequeuePrimary
<1>7. ASSUME NEW j \in nodeJobs, StoreJoin(j) PROVE JoinInv'
  BY <1>4, <1>7 DEF StoreJoin
<1>8. ASSUME NEW j \in nodeJobs, CollectAddresses(j) PROVE JoinInv'
  <2>1. j.rec \in NodeRecord /\ j.name \in 1 .. k /\ k \in Nat
    BY <1>0, <1>k, ReplicasAssumption
  <2>2. AddressesKnown(gr) => \A list \in NodesByCluster(gr) :
          Addressed(j.name, JoinSecondary(j.rec, gr, list))
    BY <1>0, <1>k, <2>1, JoinAddressed
  <2> QED BY <1>8, <2>2, Collecting
<1>9. ASSUME NEW a \in Agent, NEW r \in Readings, ReceiveHeartbeat(a, r)
      PROVE  JoinInv'
  <2> DEFINE w == HeartbeatWrite(gr, a, Report(a, r))
  <2>1. w.name # NoName => Addressed(w.name, w.rec)
    <3>1. CASE a \in DOMAIN gr
      <4>1. w.name = a /\ w.rec = [gr[a] EXCEPT !.hb = Report(a, r)]
        BY <3>1 DEF HeartbeatWrite, GetGeneralResource
      <4>2. gr[a] \in NodeRecord /\ Addressed(a, gr[a])
        BY <1>0, <3>1 DEF IsStore
      <4>3. Report(a, r).ip \in {EmptyAddress, NilAddress, a}
        BY DEF Report
      <4> QED BY <4>1, <4>2, <4>3, ReportType, ChangeAddressed
    <3>2. CASE a \notin DOMAIN gr
      BY <3>2 DEF HeartbeatWrite, GetGeneralResource
    <3> QED BY <3>1, <3>2
  <2>2. /\ hbJobs' = hbJobs \cup {[agent |-> a, name |-> w.name, rec |-> w.rec]}
        /\ UNCHANGED <<gr, clusterJobs, nodeJobs>>
    BY <1>9 DEF ReceiveHeartbeat
  <2> HIDE DEF w
  <2> QED BY <2>1, <2>2
<1>10. ASSUME NEW j \in hbJobs, StoreHeartbeat(j) PROVE JoinInv'
  <2>1. j.name \in DOMAIN gr => Addressed(j.name, j.rec)
    BY <1>0
  <2>2. DOMAIN gr' = DOMAIN gr /\ \A n \in DOMAIN gr' : Addressed(n, gr'[n])
    BY <1>10, <2>1, UpdateAddressed DEF StoreHeartbeat
  <2> QED BY <1>10, <2>2 DEF StoreHeartbeat
<1>11. CASE Restart
  BY <1>11 DEF Restart, Seed, CreateResource, EmptyStore, Addressed, ListsPredecessors,
               SeedNode, NoHeartbeat
<1>12. CASE UNCHANGED vars
  BY <1>12 DEF vars
<1> QED BY <1>1, <1>2, <1>3, <1>5, <1>6, <1>7, <1>8, <1>9, <1>10, <1>11, <1>12
        DEF Next

\* A secondary is never told to start with an empty address or without one of
\* its predecessors (process_new_node.go:72-84).
THEOREM JoinListsPredecessorsHolds == Spec => []JoinListsPredecessors
<1>1. TypeOK /\ RoleInv /\ StallInv /\ JoinInv => JoinListsPredecessors
  <2> SUFFICES ASSUME TypeOK, RoleInv, StallInv, JoinInv,
                      NEW n \in DOMAIN gr, gr[n].role = "secondary", gr[n].started
               PROVE  /\ EmptyAddress \notin Range(gr[n].incoming)
                      /\ NilAddress \notin Range(gr[n].incoming)
                           => 1 .. n \subseteq Range(gr[n].incoming)
    BY DEF JoinListsPredecessors, Served
  <2>1. Seeded
    BY DEF RoleInv, RoleFits, FirstName, StallInv
  <2> QED BY <2>1 DEF JoinInv, Addressed, ListsPredecessors
<1> QED BY <1>1, TypeInit, TypeStep, RoleInit, RoleStep, NamingInit, NamingStep,
           StallInit, StallStep, JoinInit, JoinStep, PTL DEF Spec
-------------------------------------------------------------------------------
(* Heartbeats.  Every copy of a node in flight that could be stored over   *)
(* its record was heard of, but for those of a creation.                   *)

Heard(rec) == rec.hb.heard

HeardInv ==
  /\ \A j \in nodeJobs : Heard(j.rec)
  /\ \A j \in hbJobs : j.name # NoName => Heard(j.rec)

\* One step keeps what was heard, or starts the process anew.
HeardKept ==
  \A n \in DOMAIN gr :
    gr[n].hb.heard => gr' = Seed \/ (n \in DOMAIN gr' /\ gr'[n].hb.heard)

\* The same, but for a node that is created again.
HeardKeptUnlessCreated ==
  \A n \in DOMAIN gr :
    gr[n].hb.heard => \/ gr' = Seed
                      \/ n \in DOMAIN gr' /\ gr'[n].hb.heard
                      \/ \E j \in clusterJobs : j.name = n /\ CreateNode(j)

LEMMA HeardInit == Init => HeardInv
BY DEF Init, HeardInv

LEMMA ChangeHeard ==
  ASSUME NEW rec \in NodeRecord
  PROVE  /\ Heard(rec) => Heard(Finalize(rec)) /\ Heard(ResetPrimary(rec))
         /\ \A nodes, list : Heard(rec) => Heard(JoinSecondary(rec, nodes, list))
         /\ \A hb : hb.heard => Heard([rec EXCEPT !.hb = hb])
BY DEF Heard, NodeRecord, Finalize, ResetPrimary, JoinSecondary

\* Updating with a record that was heard of keeps every heartbeat.
LEMMA UpdateHeard ==
  ASSUME NEW name, NEW rec, name \in DOMAIN gr => Heard(rec),
         gr' = UpdateGeneralResource(gr, name, rec)
  PROVE  DOMAIN gr' = DOMAIN gr /\ HeardKept
BY DEF UpdateGeneralResource, HeardKept, Heard

LEMMA HeardStep ==
  ASSUME TypeOK, HeardInv, [Next]_vars
  PROVE  HeardInv' /\ HeardKeptUnlessCreated
<1> USE DEF HeardInv
<1>0. /\ IsStore(gr)
      /\ \A j \in nodeJobs : j.rec \in NodeRecord
      /\ NoName \notin DOMAIN gr
  BY DEF TypeOK, ClusterJob, NodeJob, IsStore, Name, NoName
<1>k. HeardKept => HeardKeptUnlessCreated
  BY DEF HeardKept, HeardKeptUnlessCreated
<1>g. ASSUME gr' = gr PROVE HeardKeptUnlessCreated
  BY <1>g DEF HeardKeptUnlessCreated
<1>1. ASSUME NEW i \in ClusterIters, ListClusterNodes(i)
      PROVE  HeardInv' /\ HeardKeptUnlessCreated
  BY <1>1, <1>g DEF ListClusterNodes
<1>2. ASSUME NEW j \in clusterJobs, CreateNode(j)
      PROVE  HeardInv' /\ HeardKeptUnlessCreated
  <2>1. \A n \in DOMAIN gr \ {j.name} : n \in DOMAIN gr' /\ gr'[n] = gr[n]
    BY <1>2 DEF CreateNode, CreateResource
  <2>2. HeardKeptUnlessCreated
    BY <1>2, <2>1 DEF HeardKeptUnlessCreated
  <2> QED BY <1>2, <2>2 DEF CreateNode
<1>3. ASSUME NEW i \in NodeIters, ListNodes(i)
      PROVE  HeardInv' /\ HeardKeptUnlessCreated
  BY <1>3, <1>g DEF ListNodes, ToProcess, Heard
<1>4. ASSUME NEW j \in nodeJobs, FinalizeNode(j)
      PROVE  HeardInv' /\ HeardKeptUnlessCreated
  BY <1>k, <1>0, <1>4, UpdateHeard, ChangeHeard DEF FinalizeNode
<1>5. ASSUME NEW j \in nodeJobs, RequeuePrimary(j)
      PROVE  HeardInv' /\ HeardKeptUnlessCreated
  BY <1>k, <1>0, <1>5, UpdateHeard, ChangeHeard DEF RequeuePrimary
<1>6. ASSUME NEW j \in nodeJobs, CollectAddresses(j)
      PROVE  HeardInv' /\ HeardKeptUnlessCreated
  <2>1. \A list : Heard(JoinSecondary(j.rec, gr, list))
    BY <1>0, ChangeHeard
  <2> QED BY <1>6, <1>g, <2>1, Collecting
<1>7. ASSUME NEW j \in nodeJobs, StoreJoin(j)
      PROVE  HeardInv' /\ HeardKeptUnlessCreated
  BY <1>k, <1>7, UpdateHeard DEF StoreJoin
<1>8. ASSUME NEW a \in Agent, NEW r \in Readings, ReceiveHeartbeat(a, r)
      PROVE  HeardInv' /\ HeardKeptUnlessCreated
  <2> DEFINE w == HeartbeatWrite(gr, a, Report(a, r))
  <2>1. w.name # NoName => Heard(w.rec)
    <3>1. CASE a \in DOMAIN gr
      <4>1. gr[a] \in NodeRecord /\ w.rec = [gr[a] EXCEPT !.hb = Report(a, r)]
        BY <1>0, <3>1 DEF HeartbeatWrite, GetGeneralResource, IsStore
      <4>2. Report(a, r).heard
        BY DEF Report
      <4> QED BY <4>1, <4>2, ChangeHeard
    <3>2. CASE a \notin DOMAIN gr
      BY <3>2 DEF HeartbeatWrite, GetGeneralResource
    <3> QED BY <3>1, <3>2
  <2>2. hbJobs' = hbJobs \cup {[agent |-> a, name |-> w.name, rec |-> w.rec]}
    BY <1>8 DEF ReceiveHeartbeat
  <2>3. gr' = gr /\ clusterJobs' = clusterJobs /\ nodeJobs' = nodeJobs
    BY <1>8 DEF ReceiveHeartbeat
  <2> HIDE DEF w
  <2> QED BY <1>g, <2>1, <2>2, <2>3
<1>9. ASSUME NEW j \in hbJobs, StoreHeartbeat(j)
      PROVE  HeardInv' /\ HeardKeptUnlessCreated
  <2>1. j.name \in DOMAIN gr => Heard(j.rec)
    BY <1>0
  <2> QED BY <1>k, <1>9, <2>1, UpdateHeard DEF StoreHeartbeat
<1>10. CASE Restart
  BY <1>10 DEF Restart, HeardKeptUnlessCreated
<1>11. CASE UNCHANGED vars
  BY <1>11, <1>g DEF vars
<1> QED BY <1>1, <1>2, <1>3, <1>4, <1>5, <1>6, <1>7, <1>8, <1>9, <1>10, <1>11
        DEF Next

\* However iterations and requests interleave, a heartbeat is erased by nothing but
\* a second create of its node (storage.go:134).
THEOREM HeartbeatNeverLostHolds == Spec => HeartbeatNeverLost
<1>1. TypeOK /\ HeardInv /\ [Next]_vars => HeardInv' /\ HeardKeptUnlessCreated
  BY HeardStep
<1>2. HeardKeptUnlessCreated => [HeardKeptUnlessCreated]_vars
  OBVIOUS
<1>3. Spec => [][HeardKeptUnlessCreated]_vars
  BY <1>1, <1>2, TypeInit, TypeStep, HeardInit, PTL DEF Spec
<1> QED BY <1>3 DEF HeartbeatNeverLost, HeardKeptUnlessCreated

-------------------------------------------------------------------------------
(* With one cluster iteration at a time a creation in flight is for a node *)
(* the storage does not have.                                              *)

Serial == \A h, i \in ClusterIters : h = i

FreshInv ==
  /\ \A h, i \in clusterJobs : h = i
  /\ \A j \in clusterJobs : j.name \notin DOMAIN gr

LEMMA FreshInit == Init => FreshInv
BY DEF Init, FreshInv

\* The name of a node to be created is free.
LEMMA CreatedFresh ==
  ASSUME NamingInv, StallInv, NEW c \in ProcessNewCluster(gr)
  PROVE  c.name \notin DOMAIN gr
<1>1. CASE Seeded
  <2>1. PICK k \in 1 .. Replicas : DOMAIN gr = 1 .. k
    BY <1>1 DEF NamingInv
  <2>2. c = [name |-> k + 1, rec |-> SecondaryNode] /\ k \in Nat
    BY <2>1, CreatedName, ReplicasAssumption
  <2> QED BY <2>1, <2>2
<1>2. CASE ~Seeded
  <2>1. DOMAIN gr = {}
    BY <1>2 DEF StallInv, NoStatus, ProcessNewCluster, SecondaryDue, AllActive
  <2> QED BY <2>1
<1> QED BY <1>1, <1>2

LEMMA FreshStep ==
  ASSUME Serial, TypeOK, NamingInv, StallInv, FreshInv, [Next]_vars
  PROVE  FreshInv'
<1> USE DEF FreshInv
<1>1. ASSUME NEW i \in ClusterIters, ListClusterNodes(i) PROVE FreshInv'
  <2>1. clusterJobs = {}
    BY <1>1 DEF ListClusterNodes, Serial, TypeOK, ClusterJob
  <2>2. PICK c \in ProcessNewCluster(gr) :
          clusterJobs' = {[iter |-> i, name |-> c.name, rec |-> c.rec]}
    BY <1>1, <2>1 DEF ListClusterNodes
  <2>3. c.name \notin DOMAIN gr
    BY CreatedFresh
  <2> QED BY <1>1, <2>2, <2>3 DEF ListClusterNodes
<1>2. ASSUME NEW j \in clusterJobs, CreateNode(j) PROVE FreshInv'
  BY <1>2 DEF CreateNode
<1>3. ASSUME NEW name, NEW rec, gr' = UpdateGeneralResource(gr, name, rec),
             clusterJobs' = clusterJobs
      PROVE  FreshInv'
  BY <1>3 DEF UpdateGeneralResource
<1>4. ASSUME UNCHANGED <<gr, clusterJobs>> PROVE FreshInv'
  BY <1>4
<1>5. CASE Restart
  BY <1>5 DEF Restart
<1> QED BY <1>1, <1>2, <1>3, <1>4, <1>5
        DEF Next, vars, ListNodes, FinalizeNode, RequeuePrimary, CollectAddresses,
            StoreJoin, ReceiveHeartbeat, StoreHeartbeat

\* Without overlapping cluster iterations no heartbeat is ever erased, because no
\* node is created twice (process_new_cluster.go:86-113).
THEOREM SerialKeepsHeartbeats ==
  ASSUME Serial
  PROVE  Spec => [][HeardKept]_vars
<1>1. TypeOK /\ NamingInv /\ StallInv /\ FreshInv /\ [Next]_vars => FreshInv'
  BY FreshStep
<1>2. FreshInv /\ HeardKeptUnlessCreated => [HeardKept]_vars
  BY DEF FreshInv, HeardKeptUnlessCreated, HeardKept
<1>3. Spec => [][HeardKeptUnlessCreated]_vars
  BY HeartbeatNeverLostHolds DEF HeartbeatNeverLost, HeardKeptUnlessCreated
<1>4. [HeardKeptUnlessCreated]_vars /\ FreshInv => [HeardKept]_vars
  BY <1>2
<1> QED BY <1>1, <1>3, <1>4, TypeInit, TypeStep, NamingInit, NamingStep, StallInit,
           StallStep, FreshInit, PTL DEF Spec
-------------------------------------------------------------------------------
(* The next node.                                                          *)

LEMMA OnePrimary ==
  ASSUME Seeded, RoleInv
  PROVE  Cardinality(Primaries(gr)) = 1
<1>1. Primaries(gr) = {1}
  BY DEF RoleInv, RoleFits, FirstName, Primaries
<1> QED BY <1>1, FS_Singleton

\* A cluster whose nodes are all ACTIVE gets its next node while it may have one
\* (process_new_cluster.go:74-92).
THEOREM NextNodeIsDueHolds == Spec => []NextNodeIsDue
<1>1. RoleInv /\ NamingInv /\ StallInv => NextNodeIsDue
  <2> SUFFICES ASSUME RoleInv, NamingInv, StallInv, Seeded, AllActive(gr),
                      Cardinality(DOMAIN gr) < Replicas
               PROVE  \E c \in ProcessNewCluster(gr) : c.name \notin DOMAIN gr
    BY DEF NextNodeIsDue
  <2>1. SecondaryDue(gr)
    BY OnePrimary DEF SecondaryDue
  <2>2. DOMAIN gr # {}
    BY DEF RoleInv
  <2>3. ProcessNewCluster(gr) # {}
    BY <2>1, <2>2 DEF ProcessNewCluster
  <2> QED BY <2>3, CreatedFresh
<1> QED BY <1>1, TypeInit, TypeStep, RoleInit, RoleStep, NamingInit, NamingStep,
           StallInit, StallStep, PTL DEF Spec

-------------------------------------------------------------------------------
(* Nodes left alone.  A creation that begins is for a node the storage     *)
(* does not have, a reconcile that begins is of a CREATING node, and a     *)
(* heartbeat that begins copies the record as it is.                       *)

LEMMA AloneStep ==
  ASSUME TypeOK, NamingInv, StallInv, [Next]_vars, NEW n \in DOMAIN gr, LeftAlone(n)
  PROVE  Restart \/ (LeftAlone(n)' /\ Served(gr, n)' = Served(gr, n))
<1> DEFINE Kept == LeftAlone(n)' /\ Served(gr, n)' = Served(gr, n)
<1>0. gr[n] \in NodeRecord
  BY DEF TypeOK, IsStore
<1>u. ASSUME n \in DOMAIN gr', gr'[n] = gr[n], hbJobs' = hbJobs,
             \A j \in clusterJobs' \cup nodeJobs' : j.name # n
      PROVE  Kept
  BY <1>u DEF LeftAlone, Served
<1>1. ASSUME NEW i \in ClusterIters, ListClusterNodes(i) PROVE Kept
  <2>1. PICK c \in ProcessNewCluster(gr) :
          clusterJobs' = clusterJobs \cup {[iter |-> i, name |-> c.name, rec |-> c.rec]}
    BY <1>1 DEF ListClusterNodes
  <2>2. c.name # n
    BY CreatedFresh
  <2>3. UNCHANGED <<gr, nodeJobs, hbJobs>>
    BY <1>1 DEF ListClusterNodes
  <2> QED BY <1>u, <2>1, <2>2, <2>3 DEF LeftAlone
<1>2. ASSUME NEW j \in clusterJobs, CreateNode(j) PROVE Kept
  <2>1. n \in DOMAIN gr' /\ gr'[n] = gr[n]
    BY <1>2 DEF CreateNode, CreateResource, LeftAlone
  <2> QED BY <1>2, <1>u, <2>1 DEF CreateNode, LeftAlone
<1>3. ASSUME NEW i \in NodeIters, ListNodes(i) PROVE Kept
  <2>1. \A j \in nodeJobs' : j.name # n
    BY <1>3 DEF ListNodes, ToProcess, LeftAlone
  <2> QED BY <1>3, <1>u, <2>1 DEF ListNodes, LeftAlone
<1>4. ASSUME NEW j \in nodeJobs, NEW rec, gr' = UpdateGeneralResource(gr, j.name, rec),
             nodeJobs' = nodeJobs \ {j}, UNCHANGED <<clusterJobs, hbJobs>>
      PROVE  Kept
  <2>1. n \in DOMAIN gr' /\ gr'[n] = gr[n]
    BY <1>4 DEF UpdateGeneralResource, LeftAlone
  <2> QED BY <1>4, <1>u, <2>1 DEF LeftAlone
<1>5. ASSUME NEW j \in nodeJobs, FinalizeNode(j) \/ RequeuePrimary(j) \/ StoreJoin(j)
      PROVE  Kept
  BY <1>4, <1>5 DEF FinalizeNode, RequeuePrimary, StoreJoin
<1>6. ASSUME NEW j \in nodeJobs, CollectAddresses(j) PROVE Kept
  BY <1>6, <1>u, Collecting DEF LeftAlone
<1>7. ASSUME NEW a \in Agent, NEW r \in Readings, ReceiveHeartbeat(a, r) PROVE Kept
  <2> DEFINE w == HeartbeatWrite(gr, a, Report(a, r))
  <2>1. UNCHANGED <<gr, clusterJobs, nodeJobs>>
        /\ hbJobs' = hbJobs \cup {[agent |-> a, name |-> w.name, rec |-> w.rec]}
    BY <1>7 DEF ReceiveHeartbeat
  <2>2. w.name = n => w.rec = [gr[n] EXCEPT !.hb = w.rec.hb]
    <3>1. CASE a \in DOMAIN gr
      <4>1. w.name = a /\ w.rec = [gr[a] EXCEPT !.hb = Report(a, r)]
        BY <3>1 DEF HeartbeatWrite, GetGeneralResource
      <4>2. [gr[n] EXCEPT !.hb = Report(a, r)].hb = Report(a, r)
        BY <1>0 DEF NodeRecord
      <4> QED BY <4>1, <4>2
    <3>2. CASE a \notin DOMAIN gr
      <4>1. w.name = NoName
        BY <3>2 DEF HeartbeatWrite, GetGeneralResource
      <4>2. n # NoName
        BY ReplicasAssumption DEF TypeOK, IsStore, NoName, Name
      <4> QED BY <4>1, <4>2
    <3> QED BY <3>1, <3>2
  <2> HIDE DEF w
  <2> QED BY <2>1, <2>2 DEF LeftAlone
<1>8. ASSUME NEW j \in hbJobs, StoreHeartbeat(j) PROVE Kept
  <2>1. /\ gr' = UpdateGeneralResource(gr, j.name, j.rec) /\ hbJobs' = hbJobs \ {j}
        /\ UNCHANGED <<clusterJobs, nodeJobs>>
    BY <1>8 DEF StoreHeartbeat
  <2>2. CASE j.name # n
    <3>1. n \in DOMAIN gr' /\ gr'[n] = gr[n]
      BY <2>1, <2>2 DEF UpdateGeneralResource
    <3> QED BY <2>1, <3>1 DEF LeftAlone, Served
  <2>3. CASE j.name = n
    <3>1. n \in DOMAIN gr' /\ gr'[n] = [gr[n] EXCEPT !.hb = j.rec.hb]
      BY <2>1, <2>3 DEF UpdateGeneralResource, LeftAlone
    <3>2. \A hb : [gr'[n] EXCEPT !.hb = hb] = [gr[n] EXCEPT !.hb = hb]
      BY <1>0, <3>1 DEF NodeRecord
    <3>3. /\ gr'[n].status = gr[n].status /\ gr'[n].role = gr[n].role
          /\ gr'[n].started = gr[n].started /\ gr'[n].newCluster = gr[n].newCluster
          /\ gr'[n].incoming = gr[n].incoming
      BY <1>0, <3>1 DEF NodeRecord
    <3>4. LeftAlone(n)'
      <4>1. ASSUME NEW k \in hbJobs', k.name = n
            PROVE  k.rec = [gr'[n] EXCEPT !.hb = k.rec.hb]
        <5>1. k.rec = [gr[n] EXCEPT !.hb = k.rec.hb]
          BY <2>1, <4>1 DEF LeftAlone
        <5>2. [gr'[n] EXCEPT !.hb = k.rec.hb] = [gr[n] EXCEPT !.hb = k.rec.hb]
          BY <3>2
        <5> QED BY <5>1, <5>2
      <4>2. \A k \in clusterJobs' \cup nodeJobs' : k.name # n
        BY <2>1 DEF LeftAlone
      <4>3. n \in DOMAIN gr' /\ gr'[n].status = "ACTIVE"
        BY <3>1, <3>3 DEF LeftAlone
      <4> QED BY <4>1, <4>2, <4>3 DEF LeftAlone
    <3>5. Served(gr, n)' = Served(gr, n)
      BY <3>1, <3>3 DEF Served
    <3> QED BY <3>4, <3>5
  <2> QED BY <2>2, <2>3
<1>9. CASE UNCHANGED vars
  BY <1>9 DEF vars, LeftAlone
<1> HIDE DEF Kept
<1> QED BY <1>1, <1>2, <1>3, <1>5, <1>6, <1>7, <1>8, <1>9 DEF Next, Kept

\* An ACTIVE node that nothing in flight is about is left to itself
\* (node.go:43, process_new_cluster.go:86-113, server.go:113-137).
THEOREM ActiveIsLeftAloneHolds == Spec => ActiveIsLeftAlone
<1>1. TypeOK /\ NamingInv /\ StallInv /\ [Next]_vars
        => [\A n \in DOMAIN gr :
              LeftAlone(n) =>
                \/ Restart
                \/ LeftAlone(n)' /\ Served(gr, n)' = Served(gr, n)]_vars
  BY AloneStep
<1> QED BY <1>1, TypeInit, TypeStep, NamingInit, NamingStep, StallInit, StallStep,
           PTL DEF Spec, ActiveIsLeftAlone

-------------------------------------------------------------------------------
(* The abstract cluster.                                                   *)

LEMMA GrowthInit == Init => Growth!Init
BY DEF Init, Growth!Init

LEMMA GrowthStep ==
  ASSUME NamingInv, ReadyInv, StallInv, [Next]_vars
  PROVE  [Growth!Next]_<<DOMAIN gr, heardReady>>
<1>1. ASSUME NEW j \in clusterJobs, CreateNode(j)
      PROVE  [Growth!Next]_<<DOMAIN gr, heardReady>>
  <2>1. DOMAIN gr' = DOMAIN gr \cup {j.name} /\ heardReady' = heardReady
    BY <1>1 DEF CreateNode, CreateResource
  <2>2. CASE Seeded
    <3>1. PICK k \in 1 .. Replicas :
            /\ DOMAIN gr = 1 .. k
            /\ \A i \in clusterJobs : i.name \in 2 .. (k + 1) /\ i.name <= Replicas
      BY <2>2 DEF NamingInv
    <3>2. k \in Nat /\ Replicas \in Nat /\ j.name \in 2 .. (k + 1) /\ j.name <= Replicas
      BY <3>1, ReplicasAssumption
    <3>3. CASE j.name = k + 1
      <4>1. 1 .. k \subseteq heardReady
        BY <2>2, <3>2, <3>3 DEF ReadyInv
      <4>2. DOMAIN gr \subseteq heardReady
        BY <3>1, <4>1
      <4>3. j.name \in 2 .. Replicas /\ j.name \notin DOMAIN gr
        BY <3>1, <3>2, <3>3
      <4>4. 1 .. (j.name - 1) \subseteq DOMAIN gr
        BY <3>1, <3>2, <3>3
      <4> QED BY <2>1, <4>2, <4>3, <4>4 DEF Growth!Next, Growth!Grow
    <3>4. CASE j.name # k + 1
      <4>1. j.name \in DOMAIN gr
        BY <3>1, <3>2, <3>4
      <4> QED BY <2>1, <4>1
    <3> QED BY <3>3, <3>4
  <2>3. CASE ~Seeded
    <3>1. j.name = 0 /\ DOMAIN gr \subseteq {0}
      BY <2>3 DEF StallInv
    <3> QED BY <2>1, <3>1 DEF Growth!Next, Growth!Found
  <2> QED BY <2>2, <2>3
<1>2. ASSUME NEW a \in Agent, NEW r \in Readings, ReceiveHeartbeat(a, r)
      PROVE  [Growth!Next]_<<DOMAIN gr, heardReady>>
  <2>1. CASE a \in DOMAIN gr /\ Ready(Report(a, r))
    BY <1>2, <2>1 DEF ReceiveHeartbeat, Growth!Next, Growth!BecomeReady
  <2>2. CASE ~(a \in DOMAIN gr /\ Ready(Report(a, r)))
    BY <1>2, <2>2 DEF ReceiveHeartbeat
  <2> QED BY <2>1, <2>2
<1>3. CASE Restart
  BY <1>3 DEF Restart, Growth!Next, Growth!StartAnew
<1>4. ASSUME gr' = gr, heardReady' = heardReady
      PROVE  [Growth!Next]_<<DOMAIN gr, heardReady>>
  BY <1>4
<1>5. ASSUME NEW name, NEW rec, gr' = UpdateGeneralResource(gr, name, rec),
             heardReady' = heardReady
      PROVE  [Growth!Next]_<<DOMAIN gr, heardReady>>
  BY <1>5 DEF UpdateGeneralResource
<1>6. CASE \E i \in ClusterIters : ListClusterNodes(i)
  BY <1>4, <1>6 DEF ListClusterNodes
<1>7. CASE \E i \in NodeIters : ListNodes(i)
  BY <1>4, <1>7 DEF ListNodes
<1>8. CASE \E j \in nodeJobs : FinalizeNode(j) \/ RequeuePrimary(j) \/ StoreJoin(j)
  BY <1>5, <1>8 DEF FinalizeNode, RequeuePrimary, StoreJoin
<1>9. CASE \E j \in nodeJobs : CollectAddresses(j)
  BY <1>4, <1>9 DEF CollectAddresses
<1>10. CASE \E j \in hbJobs : StoreHeartbeat(j)
  BY <1>5, <1>10 DEF StoreHeartbeat
<1>11. CASE UNCHANGED vars
  BY <1>4, <1>11 DEF vars
<1> QED BY <1>1, <1>2, <1>3, <1>6, <1>7, <1>8, <1>9, <1>10, <1>11 DEF Next

\* The controllers implement the abstract cluster: it grows by the next node only and
\* only when all its nodes have reported ready (process_new_cluster.go:53-116).
THEOREM GrowsInStagesHolds == Spec => GrowsInStages
<1>1. NamingInv /\ ReadyInv /\ StallInv /\ [Next]_vars
        => [Growth!Next]_<<DOMAIN gr, heardReady>>
  BY GrowthStep
<1> QED BY <1>1, GrowthInit, TypeInit, TypeStep, NamingInit, NamingStep, ReadyInit,
           ReadyStep, StallInit, StallStep, PTL DEF Spec, GrowsInStages, Growth!Spec
==============================================================================
