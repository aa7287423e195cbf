---------------------------- MODULE NodeController ----------------------------
(***************************************************************************)
(* The node controller's decisions, as operators on the node record that   *)
(* doIteration listed before it started the reconciling goroutine.         *)
(***************************************************************************)
EXTENDS Storage

\* What makes a new node ready, for a primary and for a secondary alike.
Ready(hb) == hb.prepared /\ hb.wsrep = "Primary"

\* Mutant: a node is processed whatever its status.
ToProcessAny(rec) == rec.hb.heard

\* Reconcile does something only for a CREATING node that was heard of.
ToProcess(rec) == rec.status = "CREATING" /\ rec.hb.heard

\* finalize after a successful processNewPrimary or processNewSecondary.
Finalize(rec) == [rec EXCEPT !.status = "ACTIVE"]

\* Mutant: setting the target state from scratch drops the heartbeat too.
ResetPrimaryForgets(rec) ==
  [rec EXCEPT !.started = TRUE, !.newCluster = TRUE, !.role = "primary",
              !.incoming = <<>>, !.hb = NoHeartbeat]

\* processNewPrimary on a node that is not ready: the agent's target state is
\* set again from scratch, which clears the incoming addresses.
ResetPrimary(rec) ==
  [rec EXCEPT !.started = TRUE, !.newCluster = TRUE, !.role = "primary",
              !.incoming = <<>>]

\* Mutant: an empty address is no reason to give up.
AddressesUnchecked(nodes) == TRUE

\* processNewSecondary gives up when a node of the cluster has no address.
AddressesKnown(nodes) ==
  \A n \in DOMAIN nodes : nodes[n].hb.ip # EmptyAddress

\* The addresses of the nodes, in the order they were listed in.
Addresses(nodes, list) == [i \in DOMAIN list |-> nodes[list[i]].hb.ip]

\* Mutant: the node is told whom to join, but not to start.
JoinSecondaryHeld(rec, nodes, list) ==
  [rec EXCEPT !.incoming = Addresses(nodes, list), !.newCluster = FALSE]

\* processNewSecondary otherwise: the node may start, with the addresses of
\* every node of the cluster, and never bootstraps.
JoinSecondary(rec, nodes, list) ==
  [rec EXCEPT !.incoming = Addresses(nodes, list),
              !.started = TRUE, !.newCluster = FALSE]
==============================================================================
