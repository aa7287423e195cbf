-------------------------- MODULE ClusterController --------------------------
(***************************************************************************)
(* The cluster controller's decision: what processNewCluster creates,      *)
(* given the nodes GetNodesByCluster listed.  The cluster's status is      *)
(* CREATING for ever, so every Reconcile of it takes this path.            *)
(***************************************************************************)
EXTENDS Storage

Primaries(nodes) == {n \in DOMAIN nodes : nodes[n].role = "primary"}

AllActive(nodes) == \A n \in DOMAIN nodes : nodes[n].status = "ACTIVE"

\* Mutant: the first node gets the status a seeded node has.
FirstNodeCreating ==
  [status |-> "CREATING", role |-> "primary", started |-> TRUE,
   newCluster |-> TRUE, incoming |-> <<>>, hb |-> NoHeartbeat]

\* The first node of a cluster that has none.  Its Status is not set.
FirstNode == [status |-> "", role |-> "primary", started |-> TRUE,
              newCluster |-> TRUE, incoming |-> <<>>, hb |-> NoHeartbeat]

\* Mutant: the role is copied from the first node's.
SecondaryNodePrimary == [status |-> "CREATING", role |-> "primary", started |-> FALSE,
                         newCluster |-> FALSE, incoming |-> <<>>, hb |-> NoHeartbeat]

SecondaryNode == [status |-> "CREATING", role |-> "secondary", started |-> FALSE,
                  newCluster |-> FALSE, incoming |-> <<>>, hb |-> NoHeartbeat]

\* Mutant: the number of the last node instead of the next one.
SecondaryNameReused(nodes) == Cardinality(DOMAIN nodes)

\* The code counts every listed node as active, so the count is their number.
SecondaryName(nodes) == Cardinality(DOMAIN nodes) + 1

\* Mutants: one node too many, nodes not waited for.
SecondaryDueExtra(nodes) ==
  /\ Cardinality(Primaries(nodes)) = 1
  /\ AllActive(nodes)
  /\ Cardinality(DOMAIN nodes) <= Replicas

SecondaryDueEarly(nodes) ==
  /\ Cardinality(Primaries(nodes)) = 1
  /\ Cardinality(DOMAIN nodes) < Replicas

\* A secondary is due when there is exactly one primary, every listed node is
\* ACTIVE and there are fewer nodes than replicas.
SecondaryDue(nodes) ==
  /\ Cardinality(Primaries(nodes)) = 1
  /\ AllActive(nodes)
  /\ Cardinality(DOMAIN nodes) < Replicas

\* The resources processNewCluster goes on to create: none or one.
ProcessNewCluster(nodes) ==
  IF DOMAIN nodes = {}
  THEN {[name |-> 0, rec |-> FirstNode]}
  ELSE IF SecondaryDue(nodes)
       THEN {[name |-> SecondaryName(nodes), rec |-> SecondaryNode]}
       ELSE {}
==============================================================================
