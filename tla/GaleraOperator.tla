---------------------------- MODULE GaleraOperator ----------------------------
(***************************************************************************)
(* The whole operator: the controller-manager process of ControlPlane and  *)
(* one agent per node that keeps AgentPromise.                             *)
(*                                                                         *)
(* They meet in the state API only.  An agent fetches what the storage     *)
(* holds for its node at that moment and may act on it much later; a       *)
(* heartbeat says what was true when it was collected and may arrive much  *)
(* later, or never, or at a controller manager that has started anew.      *)
(***************************************************************************)
EXTENDS ControlPlane

CONSTANTS
  None,     \* as in AgentPromise
  Mortal    \* the agents whose container may be replaced

ASSUME MortalAssumption == Mortal \subseteq Agent

VARIABLES
  task, launched, running, prepared, report,  \* as in AgentPromise
  ran   \* history: nodes whose MariaDB was ever started

agents == <<task, launched, running, prepared, report>>
operator == <<vars, agents, ran>>

Promise == INSTANCE AgentPromise WITH
  Node   <- Agent,
  List   <- Seq(Address),
  served <- [n \in Agent |-> Served(gr, n)]

ASSUME NoneIsNothing ==
  /\ None \notin Seq(Address)
  /\ None \notin Promise!Target
  /\ None \notin Promise!Report

OperatorTypeOK ==
  /\ TypeOK
  /\ task \in [Agent -> Promise!Target \cup {None}]
  /\ launched \in [Agent -> BOOLEAN]
  /\ running \in [Agent -> {None} \cup Seq(Address)]
  /\ prepared \in [Agent -> BOOLEAN]
  /\ report \in [Agent -> Promise!Report \cup {None}]
  /\ ran \subseteq Agent

OperatorInit ==
  /\ Init
  /\ task = [n \in Agent |-> None]
  /\ launched = [n \in Agent |-> FALSE]
  /\ running = [n \in Agent |-> None]
  /\ prepared = [n \in Agent |-> FALSE]
  /\ report = [n \in Agent |-> None]
  /\ ran = {}

-------------------------------------------------------------------------------
(* The control plane's own steps.                                          *)

ControllerStep ==
  /\ \/ \E i \in ClusterIters : ListClusterNodes(i)
     \/ \E j \in clusterJobs : CreateNode(j)
     \/ \E i \in NodeIters : ListNodes(i)
     \/ \E j \in nodeJobs : ReconcileStep(j)
     \/ \E j \in hbJobs : StoreHeartbeat(j)
  /\ UNCHANGED <<agents, ran>>

ManagerRestarts == Restart /\ UNCHANGED <<agents, ran>>

-------------------------------------------------------------------------------
(* The agents' steps.                                                      *)

\* The agent asks for its node's target state; a 404 gives it none.
Fetch(n) == Promise!Fetch(n) /\ UNCHANGED <<vars, ran>>

\* The reading of its node that a heartbeat carries to the state API.
Says(r, heartbeat) ==
  r.prepared = heartbeat.prepared /\ r.wsrep = heartbeat.wsrep

GiveUp(n) == Promise!GiveUp(n) /\ UNCHANGED <<vars, ran>>

Launch(n) ==
  /\ Promise!Launch(n)
  /\ ran' = ran \cup {n}
  /\ UNCHANGED vars

Finish(n) == Promise!Finish(n) /\ UNCHANGED <<vars, ran>>

End(n) == Promise!End(n) /\ UNCHANGED <<vars, ran>>

\* Readings bounds what a collection can find.
Collect(n) ==
  /\ Promise!Collect(n)
  /\ \E r \in Readings : Says(r, report'[n])
  /\ UNCHANGED <<vars, ran>>

\* The state API begins to handle the heartbeat; the address in it is the agent's,
\* or none if the agent found no route.
Deliver(n) ==
  /\ Promise!Send(n)
  /\ \E r \in Readings :
       /\ Says(r, report[n])
       /\ ReceiveHeartbeat(n, r)
  /\ UNCHANGED ran

\* Nobody listens: the controller manager is down or out of reach.
Lose(n) == Promise!Send(n) /\ UNCHANGED <<vars, ran>>

Die(n) == n \in Mortal /\ Promise!Die(n) /\ UNCHANGED <<vars, ran>>

OperatorNext ==
  \/ ControllerStep
  \/ ManagerRestarts
  \/ \E n \in Agent : Fetch(n)
  \/ \E n \in Agent : GiveUp(n)
  \/ \E n \in Agent : Launch(n)
  \/ \E n \in Agent : Finish(n)
  \/ \E n \in Agent : End(n)
  \/ \E n \in Agent : Collect(n)
  \/ \E n \in Agent : Deliver(n)
  \/ \E n \in Agent : Lose(n)
  \/ \E n \in Agent : Die(n)

OperatorSpec == OperatorInit /\ [][OperatorNext]_operator

-------------------------------------------------------------------------------
(* Safety.                                                                 *)

(* The nodes' MariaDBs are first started in the order of their numbers,    *)
(* each after all before it were started, although target states are acted *)
(* on late, heartbeats arrive late and the controller manager forgets what *)
(* it knew (process_new_cluster.go:79-86, process_new_node.go:36,          *)
(* bootstrap_new_cluster.go:62-67).                                        *)
StartsInTurn == Seeded => \A n \in ran : (1 .. (n - 1)) \cap Agent \subseteq ran

(* A node is ACTIVE only if its MariaDB was started, and a further node    *)
(* exists only if that is true of all before it: what the controllers know *)
(* by heartbeats alone is so (process_new_node.go:36, 64, hb.go:165-184).  *)
GrowsOnRunning ==
  Seeded => \A n \in DOMAIN gr :
    /\ gr[n].status = "ACTIVE" => n \in ran
    /\ 1 .. (n - 1) \subseteq ran

(* A MariaDB that runs knows where to find the cluster: only the first     *)
(* node's bootstraps one, every other one was given an address for itself  *)
(* and for each node before it ("<nil>" for an agent without a route) and  *)
(* never an empty one, which Galera would take for a new cluster           *)
(* (process_new_node.go:72-84, bootstrap_new_cluster.go:81-82).            *)
JoinersKnowPredecessors ==
  \A n \in Agent :
    /\ task[n] # None /\ Promise!Acts(task[n]) =>
         (task[n].newCluster <=> n = FirstName)
    /\ running[n] # None /\ n # FirstName =>
         /\ EmptyAddress \notin Range(running[n])
         /\ NilAddress \notin Range(running[n]) => 1 .. n \subseteq Range(running[n])

\* The target states an agent may act on: the one served and the one in hand.
Orders(n) == Served(gr, n) \cup ({task[n]} \ {None})

\* A node left alone whose MariaDB is down and that is not told to start it.
LeftDown(n) ==
  /\ LeftAlone(n)
  /\ running[n] = None
  /\ \A t \in Orders(n) : ~Promise!Acts(t)

(* Such a node's MariaDB stays down, whatever its agent does or reports    *)
(* and whatever becomes of the other nodes, until the controller manager   *)
(* forgets the node (node.go:43, process_new_node.go:64).                  *)
DownUntilForgotten ==
  [][\A n \in Agent : LeftDown(n) => LeftDown(n)' \/ ManagerRestarts]_operator

\* A node left alone that runs with this list of addresses or not at all, and may be
\* told to start with no other.
Settled(n, list) ==
  /\ LeftAlone(n)
  /\ running[n] \in {None, list}
  /\ \A t \in Orders(n) : Promise!Acts(t) => t.incoming = list

\* The lists of addresses the node's MariaDB runs with or may be told of.
ListsAbout(n) == ({running[n]} \ {None}) \cup {t.incoming : t \in Orders(n)}

(* Such a node keeps to its list, order included, although every listing   *)
(* of the nodes may come in another one: heartbeats, the other nodes'      *)
(* joins and target states fetched long ago make no restart of its MariaDB *)
(* due, and one that ended is started with the same list, until the        *)
(* controller manager forgets the node (node.go:43,                        *)
(* process_new_node.go:73, bootstrap_new_cluster.go:81-104).               *)
SettledStays ==
  [][\A n \in {m \in Agent : LeftAlone(m)} : \A list \in ListsAbout(n) :
       Settled(n, list) => Settled(n, list)' \/ ManagerRestarts]_operator
==============================================================================
