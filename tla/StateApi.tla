------------------------------- MODULE StateApi -------------------------------
(***************************************************************************)
(* The state API's handlers, as operators on the storage.                  *)
(***************************************************************************)
EXTENDS Storage

\* The write handleHeartbeat goes on to make.  The handler does not return
\* after it answered 404: it carries on with the zero node, whose empty name
\* UpdateGeneralResource will not find.
HeartbeatWrite(store, agent, report) ==
  LET node == GetGeneralResource(store, agent)
  IN  [name |-> node.name, rec |-> [node.rec EXCEPT !.hb = report]]

\* What handleTargetState serves: the record's AgentTargetState, or 404.
Served(store, name) ==
  IF name \in DOMAIN store
  THEN {[role       |-> store[name].role,
         started    |-> store[name].started,
         newCluster |-> store[name].newCluster,
         incoming   |-> store[name].incoming]}
  ELSE {}
==============================================================================
