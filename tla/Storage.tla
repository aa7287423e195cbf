------------------------------- MODULE Storage -------------------------------
(***************************************************************************)
(* The controller manager's in-memory storage: the map gr of resources,    *)
(* the operations its clients call under the storage mutex, and the node   *)
(* record (betav1 Spec with AgentTargetState and Heartbeat) it holds.      *)
(*                                                                         *)
(* Init creates one resource of kind Galera and nothing ever writes it     *)
(* again, so the cluster is the constant Replicas and gr holds the node    *)
(* resources.  Every operation copies its argument or its result, so an    *)
(* operation is a function from the map to a map or to a record.           *)
(***************************************************************************)
EXTENDS Integers, FiniteSets, Sequences, Functions

CONSTANTS
  Replicas,   \* Spec.Replicas of the seeded cluster (3 in storage.go)
  Seeded,     \* TRUE: Init stored the cluster and node-1;
              \* FALSE: Init stopped after the cluster, NewStorage drops its error
  AnyOrder    \* TRUE: nodes are listed in any order, as Go ranges over a map;
              \* FALSE: by number, a bound for properties that orders do not matter to

ASSUME ReplicasAssumption == Replicas \in Nat \ {0}
ASSUME SeededAssumption == Seeded \in BOOLEAN
ASSUME AnyOrderAssumption == AnyOrder \in BOOLEAN

(***************************************************************************)
(* Node names.  The number i > 0 is "node-i", 0 is "<cluster>-node-0".     *)
(* NoName is the empty name of a zero NodeTargetState (its key is "//").   *)
(***************************************************************************)
Name == 0 .. Replicas
NoName == -1

(***************************************************************************)
(* Addresses.  An agent's address is the number of its node; EmptyAddress  *)
(* is "" and NilAddress is "<nil>", what net.IP(nil).String() yields when  *)
(* the agent found no route.                                               *)
(***************************************************************************)
EmptyAddress == -1
NilAddress == -2
Address == Name \cup {EmptyAddress, NilAddress}

(***************************************************************************)
(* A heartbeat as the controllers read it.  heard is "Timestamp is not     *)
(* zero"; wsrep keeps apart only the value the controllers compare with.   *)
(***************************************************************************)
Heartbeat == [heard    : BOOLEAN,
              prepared : BOOLEAN,
              wsrep    : {"Primary", "other"},
              ip       : Address]

NoHeartbeat == [heard |-> FALSE, prepared |-> FALSE, wsrep |-> "other",
                ip |-> EmptyAddress]

NodeRecord == [status     : {"", "CREATING", "ACTIVE"},
               role       : {"", "primary", "secondary"},
               started    : BOOLEAN,         \* MariaDBStarted
               newCluster : BOOLEAN,         \* GaleraNewCluster
               incoming   : Seq(Address),    \* Galera.IncomingAddresses
               hb         : Heartbeat]

\* The zero value of NodeTargetState.Spec.
ZeroRecord == [status |-> "", role |-> "", started |-> FALSE,
               newCluster |-> FALSE, incoming |-> <<>>, hb |-> NoHeartbeat]

\* The storage's map, as far as node resources go.
IsStore(s) == DOMAIN s \subseteq Name /\ s \in [DOMAIN s -> NodeRecord]

EmptyStore == [n \in {} |-> ZeroRecord]

(***************************************************************************)
(* Operations.                                                             *)
(***************************************************************************)

\* CreateResource stores the resource whether or not the key is taken.
CreateResource(store, name, rec) ==
  [m \in DOMAIN store \cup {name} |-> IF m = name THEN rec ELSE store[m]]

\* Mutant: an update that does not look whether the key exists.
UpdateUnchecked(store, name, rec) == CreateResource(store, name, rec)

\* UpdateGeneralResource fails, and changes nothing, when the key is missing.
UpdateGeneralResource(store, name, rec) ==
  IF name \in DOMAIN store THEN [store EXCEPT ![name] = rec] ELSE store

\* GetGeneralResource followed by FromGeneralTargetState: a missing key gives
\* the zero resource, whose empty Spec does not unmarshal and stays zero.
GetGeneralResource(store, name) ==
  IF name \in DOMAIN store THEN [name |-> name, rec |-> store[name]]
                           ELSE [name |-> NoName, rec |-> ZeroRecord]

\* GetNodesByCluster ranges over the map: the orders its nodes may come in.
NodesByCluster(store) ==
  {list \in Bijection(1 .. Cardinality(DOMAIN store), DOMAIN store) :
     AnyOrder \/ \A i, k \in DOMAIN list : i < k => list[i] < list[k]}

\* The node Init stores: role primary, asked to bootstrap, no heartbeat yet.
SeedNode == [status |-> "CREATING", role |-> "primary", started |-> TRUE,
             newCluster |-> TRUE, incoming |-> <<>>, hb |-> NoHeartbeat]

Seed == IF Seeded THEN CreateResource(EmptyStore, 1, SeedNode) ELSE EmptyStore
==============================================================================
