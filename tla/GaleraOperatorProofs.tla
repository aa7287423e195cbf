------------------------- MODULE GaleraOperatorProofs -------------------------
(***************************************************************************)
(* Proofs about GaleraOperator, for any number of replicas, any overlap of *)
(* iterations, and any of the agents mortal.                               *)
(*                                                                         *)
(* The control plane's part of a step is a step of ControlPlane, so what   *)
(* is proved of ControlPlane holds here; what the agents hold in hand      *)
(* (a target state, a heartbeat) is tied to the history of starts.         *)
(***************************************************************************)
EXTENDS GaleraOperator, ControlPlaneProofs

\* Every step of the operator is one of the control plane or leaves it alone.
LEMMA ControlSteps == [OperatorNext]_operator => [Next]_vars
<1>1. ASSUME ControllerStep PROVE Next
  BY <1>1 DEF ControllerStep, Next, ReconcileStep
<1>2. ASSUME ManagerRestarts PROVE Next
  BY <1>2 DEF ManagerRestarts, Next
<1>3. ASSUME NEW n \in Agent, Deliver(n) PROVE Next
  BY <1>3 DEF Deliver, Next
<1>4. ASSUME NEW n \in Agent,
             Fetch(n) \/ GiveUp(n) \/ Launch(n) \/ Finish(n) \/ End(n) \/ Collect(n)
             \/ Lose(n) \/ Die(n)
      PROVE  UNCHANGED vars
  BY <1>4 DEF Fetch, GiveUp, Launch, Finish, End, Collect, Lose, Die
<1>5. ASSUME UNCHANGED operator PROVE UNCHANGED vars
  BY <1>5 DEF operator
<1> QED BY <1>1, <1>2, <1>3, <1>4, <1>5 DEF OperatorNext

LEMMA ControlInit == OperatorInit => Init
BY DEF OperatorInit

\* What the control plane does, it does in the operator too.
THEOREM OperatorRunsControlPlane == OperatorSpec => Spec
BY ControlInit, ControlSteps, PTL DEF OperatorSpec, Spec

\* What is known of the storage by ControlPlaneProofs.
StorageFacts == TypeOK /\ OneBootstrapper /\ StagedGrowth /\ JoinListsPredecessors

LEMMA StorageFactsHold == OperatorSpec => []StorageFacts
BY OperatorRunsControlPlane, TypeCorrect, OneBootstrapperHolds, StagedGrowthHolds,
   JoinListsPredecessorsHolds, PTL DEF StorageFacts

-------------------------------------------------------------------------------
(* Types.                                                                  *)

AgentsTypeOK ==
  /\ task \in [Agent -> Promise!Target \cup {None}]
  /\ launched \in [Agent -> BOOLEAN]
  /\ running \in [Agent -> {None} \cup Seq(Address)]
  /\ prepared \in [Agent -> BOOLEAN]
  /\ report \in [Agent -> Promise!Report \cup {None}]
  /\ ran \subseteq Agent

\* The target states served are those an agent knows what to do with.
LEMMA ServedTargets ==
  ASSUME TypeOK, OneBootstrapper, NEW n
  PROVE  Served(gr, n) \subseteq Promise!Target
<1> SUFFICES ASSUME n \in DOMAIN gr PROVE Served(gr, n) \subseteq Promise!Target
  BY DEF Served
<1>1. gr[n] \in NodeRecord
  BY DEF TypeOK, IsStore
<1>2. PICK t : Served(gr, n) = {t} /\ t = [role |-> gr[n].role, started |-> gr[n].started,
                 newCluster |-> gr[n].newCluster, incoming |-> gr[n].incoming]
  BY DEF Served
<1>3. t.role \in {"primary", "secondary"}
  BY <1>2 DEF OneBootstrapper
<1>4. /\ gr[n].started \in BOOLEAN /\ gr[n].newCluster \in BOOLEAN
      /\ gr[n].incoming \in Seq(Address)
  BY <1>1 DEF NodeRecord
<1>5. t \in Promise!Target
  BY <1>2, <1>3, <1>4 DEF Promise!Target
<1> QED BY <1>2, <1>5

LEMMA AgentsTypeInit == OperatorInit => AgentsTypeOK
BY DEF OperatorInit, AgentsTypeOK

\* What a target state in hand and a list MariaDB runs with can be.
LEMMA TaskTypes ==
  ASSUME NEW t \in Promise!Target
  PROVE  t.incoming \in Seq(Address)
BY DEF Promise!Target

LEMMA AgentsTypeStep ==
  ASSUME StorageFacts, AgentsTypeOK, [OperatorNext]_operator
  PROVE  AgentsTypeOK'
<1> USE DEF AgentsTypeOK
<1>1. ASSUME UNCHANGED <<agents, ran>> PROVE AgentsTypeOK'
  BY <1>1 DEF agents
<1>2. ASSUME NEW n \in Agent, Fetch(n) PROVE AgentsTypeOK'
  <2>1. PICK t \in Served(gr, n) : task' = [task EXCEPT ![n] = t]
    BY <1>2 DEF Fetch, Promise!Fetch
  <2>2. t \in Promise!Target
    BY <2>1, ServedTargets DEF StorageFacts
  <2> QED BY <1>2, <2>1, <2>2 DEF Fetch, Promise!Fetch
<1>3. ASSUME NEW n \in Agent, GiveUp(n) PROVE AgentsTypeOK'
  BY <1>3 DEF GiveUp, Promise!GiveUp
<1>4. ASSUME NEW n \in Agent, Launch(n) PROVE AgentsTypeOK'
  <2>1. task[n].incoming \in Seq(Address)
    BY <1>4, TaskTypes DEF Launch, Promise!Launch
  <2> QED BY <1>4, <2>1 DEF Launch, Promise!Launch
<1>5. ASSUME NEW n \in Agent, Finish(n) PROVE AgentsTypeOK'
  BY <1>5 DEF Finish, Promise!Finish
<1>6. ASSUME NEW n \in Agent, End(n) PROVE AgentsTypeOK'
  BY <1>6 DEF End, Promise!End
<1>7. ASSUME NEW n \in Agent, Collect(n) PROVE AgentsTypeOK'
  <2>1. PICK r \in Promise!Report : report' = [report EXCEPT ![n] = r]
    BY <1>7 DEF Collect, Promise!Collect, Promise!Report
  <2>2. UNCHANGED <<task, launched, running, prepared, ran>>
    BY <1>7 DEF Collect, Promise!Collect
  <2> QED BY <2>1, <2>2
<1>8. ASSUME NEW n \in Agent, Deliver(n) \/ Lose(n) PROVE AgentsTypeOK'
  BY <1>8 DEF Deliver, Lose, Promise!Send
<1>9. ASSUME NEW n \in Agent, Die(n) PROVE AgentsTypeOK'
  BY <1>9 DEF Die, Promise!Die
<1>10. CASE ControllerStep \/ ManagerRestarts \/ UNCHANGED operator
  BY <1>1, <1>10 DEF ControllerStep, ManagerRestarts, operator
<1> QED BY <1>2, <1>3, <1>4, <1>5, <1>6, <1>7, <1>8, <1>9, <1>10 DEF OperatorNext

\* The operator keeps its types.
THEOREM OperatorTypeCorrect == OperatorSpec => []OperatorTypeOK
<1>1. StorageFacts /\ AgentsTypeOK /\ [OperatorNext]_operator => AgentsTypeOK'
  BY AgentsTypeStep
<1>2. StorageFacts /\ AgentsTypeOK => OperatorTypeOK
  BY DEF StorageFacts, AgentsTypeOK, OperatorTypeOK
<1> QED BY <1>1, <1>2, AgentsTypeInit, StorageFactsHold, PTL DEF OperatorSpec

-------------------------------------------------------------------------------
(* The order of the first starts.  Everything that says a node is ready -  *)
(* the flag, a heartbeat on its way, what the controllers heard - says     *)
(* that its MariaDB was started, however old it is; and a target state in  *)
(* hand was served when all the nodes before it had been heard of.         *)

StartInv ==
  Seeded =>
    /\ heardReady \subseteq ran
    /\ \A n \in Agent :
         /\ launched[n] \/ prepared[n] => n \in ran
         /\ report[n] # None /\ report[n].prepared => n \in ran
         /\ task[n] # None => (1 .. (n - 1)) \cap Agent \subseteq ran
    /\ \A n \in ran : (1 .. (n - 1)) \cap Agent \subseteq ran

LEMMA StartInit == OperatorInit => StartInv
BY DEF OperatorInit, Init, StartInv

\* The control plane learns of readiness from a heartbeat only.
LEMMA HeardSteps ==
  ControllerStep \/ ManagerRestarts => heardReady' \subseteq heardReady
BY DEF ControllerStep, ManagerRestarts, ListClusterNodes, CreateNode, ListNodes,
       ReconcileStep, FinalizeNode, RequeuePrimary, CollectAddresses, StoreJoin,
       StoreHeartbeat, Restart

LEMMA StartStep ==
  ASSUME StorageFacts, AgentsTypeOK, StartInv, [OperatorNext]_operator
  PROVE  StartInv'
<1> SUFFICES ASSUME Seeded PROVE StartInv'
  BY DEF StartInv
<1> USE DEF StartInv
<1>1. CASE ControllerStep \/ ManagerRestarts
  <2>1. UNCHANGED <<agents, ran>> /\ heardReady' \subseteq heardReady
    BY <1>1, HeardSteps DEF ControllerStep, ManagerRestarts
  <2> QED BY <2>1 DEF agents
<1>2. ASSUME NEW n \in Agent, Fetch(n) PROVE StartInv'
  <2>1. n \in DOMAIN gr
    BY <1>2 DEF Fetch, Promise!Fetch, Served
  <2>2. (1 .. (n - 1)) \cap Agent \subseteq ran
    BY <2>1 DEF StorageFacts, StagedGrowth
  <2>3. /\ \A m \in Agent : m # n => task'[m] = task[m]
        /\ UNCHANGED <<vars, launched, prepared, report, ran>>
    BY <1>2 DEF Fetch, Promise!Fetch, AgentsTypeOK
  <2> QED BY <2>2, <2>3 DEF vars
<1>3. ASSUME NEW n \in Agent, GiveUp(n) PROVE StartInv'
  BY <1>3 DEF GiveUp, Promise!GiveUp, vars, AgentsTypeOK
<1>4. ASSUME NEW n \in Agent, Launch(n) PROVE StartInv'
  <2>1. /\ task[n] # None /\ ran' = ran \cup {n}
        /\ UNCHANGED <<heardReady, task, prepared, report>>
        /\ \A m \in Agent : m # n => launched'[m] = launched[m]
    BY <1>4 DEF Launch, Promise!Launch, vars, AgentsTypeOK
  <2> QED BY <2>1
<1>5. ASSUME NEW n \in Agent, Finish(n) PROVE StartInv'
  <2>1. /\ launched[n] /\ UNCHANGED <<heardReady, report, ran>>
        /\ \A m \in Agent : m # n => prepared'[m] = prepared[m]
        /\ \A m \in Agent : launched'[m] => launched[m]
        /\ \A m \in Agent : task'[m] # None => task[m] # None
    BY <1>5 DEF Finish, Promise!Finish, vars, AgentsTypeOK
  <2> QED BY <2>1
<1>6. ASSUME NEW n \in Agent, End(n) PROVE StartInv'
  BY <1>6 DEF End, Promise!End, vars
<1>7. ASSUME NEW n \in Agent, Collect(n) PROVE StartInv'
  <2>1. PICK p \in {FALSE, prepared[n]}, w \in {"Primary", "other"} :
          report' = [report EXCEPT ![n] = [prepared |-> p, wsrep |-> w]]
    BY <1>7 DEF Collect, Promise!Collect
  <2>2. UNCHANGED <<heardReady, task, launched, prepared, ran>>
    BY <1>7 DEF Collect, Promise!Collect, vars
  <2>3. /\ report'[n] = [prepared |-> p, wsrep |-> w]
        /\ \A m \in Agent : m # n => report'[m] = report[m]
    BY <2>1 DEF AgentsTypeOK
  <2>4. p => n \in ran
    <3>1. CASE p = FALSE
      BY <3>1
    <3>2. CASE p = prepared[n]
      BY <3>2
    <3> QED BY <3>1, <3>2
  <2>5. report'[n].prepared = p
    BY <2>3
  <2> QED BY <2>2, <2>3, <2>4, <2>5
<1>8. ASSUME NEW n \in Agent, Deliver(n) PROVE StartInv'
  <2>1. PICK r \in Readings : Says(r, report[n]) /\ ReceiveHeartbeat(n, r)
    BY <1>8 DEF Deliver
  <2>2. heardReady' \subseteq heardReady \cup {n}
    BY <2>1 DEF ReceiveHeartbeat
  <2>3. n \notin heardReady /\ n \in heardReady' => report[n].prepared
    BY <2>1 DEF ReceiveHeartbeat, Ready, Report, Says
  <2>4. /\ report[n] # None /\ UNCHANGED <<task, launched, prepared, ran>>
        /\ \A m \in Agent : report'[m] \in {None, report[m]}
    BY <1>8 DEF Deliver, Promise!Send, AgentsTypeOK
  <2>5. heardReady' \subseteq ran
    BY <2>2, <2>3, <2>4
  <2>6. \A m \in Agent : report'[m] # None /\ report'[m].prepared => m \in ran
    BY <2>4
  <2> QED BY <2>4, <2>5, <2>6
<1>9. ASSUME NEW n \in Agent, Lose(n) PROVE StartInv'
  <2>1. /\ UNCHANGED <<heardReady, task, launched, prepared, ran>>
        /\ \A m \in Agent : report'[m] \in {None, report[m]}
    BY <1>9 DEF Lose, Promise!Send, AgentsTypeOK, vars
  <2> QED BY <2>1
<1>10. ASSUME NEW n \in Agent, Die(n) PROVE StartInv'
  <2>1. /\ UNCHANGED <<heardReady, ran>>
        /\ \A m \in Agent : /\ report'[m] \in {None, report[m]}
                            /\ task'[m] \in {None, task[m]}
                            /\ launched'[m] => launched[m]
                            /\ prepared'[m] => prepared[m]
    BY <1>10 DEF Die, Promise!Die, AgentsTypeOK, vars
  <2>2. \A m \in Agent : report'[m] # None /\ report'[m].prepared => m \in ran
    BY <2>1
  <2> QED BY <2>1, <2>2
<1>11. CASE UNCHANGED operator
  BY <1>11 DEF operator, agents, vars
<1> QED BY <1>1, <1>2, <1>3, <1>4, <1>5, <1>6, <1>7, <1>8, <1>9, <1>10, <1>11
        DEF OperatorNext

LEMMA StartFacts == OperatorSpec => [](StorageFacts /\ AgentsTypeOK /\ StartInv)
<1>1. StorageFacts /\ AgentsTypeOK /\ [OperatorNext]_operator => AgentsTypeOK'
  BY AgentsTypeStep
<1>2. StorageFacts /\ AgentsTypeOK /\ StartInv /\ [OperatorNext]_operator => StartInv'
  BY StartStep
<1> QED BY <1>1, <1>2, AgentsTypeInit, StartInit, StorageFactsHold, PTL DEF OperatorSpec

\* The nodes' MariaDBs are first started one after the other, in order
\* (process_new_cluster.go:79-86, bootstrap_new_cluster.go:62-67).
THEOREM StartsInTurnHolds == OperatorSpec => []StartsInTurn
<1>1. StartInv => StartsInTurn
  BY DEF StartInv, StartsInTurn
<1> QED BY <1>1, StartFacts, PTL

\* What the controllers take for running was started once
\* (process_new_node.go:36, 64, hb.go:165-184).
THEOREM GrowsOnRunningHolds == OperatorSpec => []GrowsOnRunning
<1>1. StorageFacts /\ StartInv => GrowsOnRunning
  BY DEF StorageFacts, StartInv, StagedGrowth, GrowsOnRunning
<1> QED BY <1>1, StartFacts, PTL

-------------------------------------------------------------------------------
(* What a MariaDB is started with.                                         *)

\* A list of addresses a node other than the first may join.
Joinable(n, list) ==
  /\ EmptyAddress \notin Range(list)
  /\ NilAddress \notin Range(list) => 1 .. n \subseteq Range(list)

TaskFits(n, t) ==
  /\ t.newCluster <=> n = FirstName
  /\ t.role = "secondary" <=> n # FirstName
  /\ t.role = "secondary" /\ t.started => Joinable(n, t.incoming)

ListInv ==
  \A n \in Agent :
    /\ task[n] # None => TaskFits(n, task[n])
    /\ running[n] # None /\ n # FirstName => Joinable(n, running[n])

LEMMA ListInit == OperatorInit => ListInv
BY DEF OperatorInit, ListInv

LEMMA ServedFits ==
  ASSUME OneBootstrapper, JoinListsPredecessors, NEW n, NEW t \in Served(gr, n)
  PROVE  TaskFits(n, t)
<1>1. n \in DOMAIN gr
  BY DEF Served
<1> QED BY <1>1 DEF OneBootstrapper, JoinListsPredecessors, TaskFits, Joinable

LEMMA ListStep ==
  ASSUME StorageFacts, AgentsTypeOK, ListInv, [OperatorNext]_operator
  PROVE  ListInv'
<1> USE DEF ListInv
<1>1. ASSUME UNCHANGED <<task, running>> PROVE ListInv'
  BY <1>1
<1>2. ASSUME NEW n \in Agent, Fetch(n) PROVE ListInv'
  <2>1. PICK t \in Served(gr, n) : task' = [task EXCEPT ![n] = t]
    BY <1>2 DEF Fetch, Promise!Fetch
  <2>2. TaskFits(n, t)
    BY <2>1, ServedFits DEF StorageFacts
  <2>3. task'[n] = t /\ running' = running /\ \A m \in Agent : m # n => task'[m] = task[m]
    BY <1>2, <2>1 DEF Fetch, Promise!Fetch, AgentsTypeOK
  <2> QED BY <2>2, <2>3
<1>3. ASSUME NEW n \in Agent, Launch(n) PROVE ListInv'
  <2>1. /\ task' = task /\ task[n] # None /\ Promise!Acts(task[n])
        /\ running'[n] = task[n].incoming
        /\ \A m \in Agent : m # n => running'[m] = running[m]
    BY <1>3 DEF Launch, Promise!Launch, AgentsTypeOK
  <2>2. n # FirstName => Joinable(n, task[n].incoming)
    BY <2>1 DEF TaskFits, Promise!Acts
  <2> QED BY <2>1, <2>2
<1>4. ASSUME NEW n \in Agent, GiveUp(n) \/ Finish(n) \/ End(n) \/ Die(n)
      PROVE  ListInv'
  <2>1. \A m \in Agent : task'[m] \in {None, task[m]} /\ running'[m] \in {None, running[m]}
    BY <1>4 DEF GiveUp, Finish, End, Die, Promise!GiveUp, Promise!Finish, Promise!End,
                Promise!Die, AgentsTypeOK
  <2> QED BY <2>1
<1>5. ASSUME NEW n \in Agent, Collect(n) \/ Deliver(n) \/ Lose(n) PROVE ListInv'
  BY <1>1, <1>5 DEF Collect, Deliver, Lose, Promise!Collect, Promise!Send
<1>6. CASE ControllerStep \/ ManagerRestarts \/ UNCHANGED operator
  BY <1>1, <1>6 DEF ControllerStep, ManagerRestarts, operator, agents
<1> QED BY <1>2, <1>3, <1>4, <1>5, <1>6 DEF OperatorNext

\* Only the first node's MariaDB bootstraps, every other one is started with the
\* addresses of its predecessors (process_new_node.go:72-84,
\* bootstrap_new_cluster.go:81-82).
THEOREM JoinersKnowPredecessorsHolds == OperatorSpec => []JoinersKnowPredecessors
<1>1. StorageFacts /\ AgentsTypeOK /\ ListInv /\ [OperatorNext]_operator => ListInv'
  BY ListStep
<1>2. ListInv => JoinersKnowPredecessors
  BY DEF ListInv, TaskFits, Joinable, JoinersKnowPredecessors
<1> QED BY <1>1, <1>2, ListInit, StartFacts, PTL DEF OperatorSpec

-------------------------------------------------------------------------------
(* What Agent assumes of the rest of the system.                           *)

\* A node is served target states of the kind its agent expects, for ever of the role
\* its number gives it.
ServedWell ==
  \A n \in Agent :
    /\ Served(gr, n) \subseteq Promise!Target
    /\ \A t \in Served(gr, n) : t.role = IF n = FirstName THEN "primary" ELSE "secondary"

LEMMA ServedWellHolds == TypeOK /\ OneBootstrapper => ServedWell
<1> SUFFICES ASSUME TypeOK, OneBootstrapper, NEW n \in Agent
             PROVE  /\ Served(gr, n) \subseteq Promise!Target
                    /\ \A t \in Served(gr, n) :
                         t.role = IF n = FirstName THEN "primary" ELSE "secondary"
  BY DEF ServedWell
<1>1. \A t \in Served(gr, n) : n \in DOMAIN gr
  BY DEF Served
<1> QED BY <1>1, ServedTargets DEF OneBootstrapper

LEMMA PromiseInits == OperatorInit /\ ServedWell => Promise!Init
BY DEF OperatorInit, Promise!Init, ServedWell

LEMMA PromiseSteps ==
  ASSUME ServedWell, ServedWell', [OperatorNext]_operator
  PROVE  [Promise!Next]_<<[n \in Agent |-> Served(gr, n)], agents>>
<1> DEFINE s == [n \in Agent |-> Served(gr, n)]
<1>1. ASSUME UNCHANGED agents PROVE [Promise!Next]_<<s, agents>>
  <2>1. /\ s' \in [Agent -> SUBSET Promise!Target]
        /\ \A n \in Agent : \A t \in s[n], u \in s'[n] : t.role = u.role
    BY DEF ServedWell
  <2> QED BY <1>1, <2>1 DEF Promise!Next, Promise!Serve, Promise!agents, agents
<1>2. ASSUME UNCHANGED gr, NEW n \in Agent, Promise!AgentStep(n)
      PROVE  [Promise!Next]_<<s, agents>>
  <2>1. s' = s
    BY <1>2
  <2> QED BY <1>2, <2>1 DEF Promise!Next
<1>3. CASE ControllerStep \/ ManagerRestarts \/ UNCHANGED operator
  BY <1>1, <1>3 DEF ControllerStep, ManagerRestarts, operator
<1>4. ASSUME NEW n \in Agent,
             \/ Fetch(n) \/ GiveUp(n) \/ Launch(n) \/ Finish(n) \/ End(n) \/ Collect(n)
             \/ Lose(n) \/ Die(n)
      PROVE  [Promise!Next]_<<s, agents>>
  <2>1. UNCHANGED gr
    BY <1>4 DEF Fetch, GiveUp, Launch, Finish, End, Collect, Lose, Die, vars
  <2>2. Promise!AgentStep(n)
    BY <1>4 DEF Fetch, GiveUp, Launch, Finish, End, Collect, Lose, Die,
                Promise!AgentStep
  <2> QED BY <1>2, <2>1, <2>2
<1>5. ASSUME NEW n \in Agent, Deliver(n) PROVE [Promise!Next]_<<s, agents>>
  <2>1. UNCHANGED gr
    BY <1>5 DEF Deliver, ReceiveHeartbeat
  <2>2. Promise!AgentStep(n)
    BY <1>5 DEF Deliver, Promise!AgentStep
  <2> QED BY <1>2, <2>1, <2>2
<1> QED BY <1>3, <1>4, <1>5 DEF OperatorNext

\* To the agents the control plane is what AgentPromise assumes around them: it never
\* serves a node another role than before, restarts and lost updates included
\* (node.go:59-74, server.go:147-182).  This is what Agent takes for granted.
THEOREM OperatorKeepsAgentPromise == OperatorSpec => Promise!Spec
<1>1. ServedWell /\ ServedWell' /\ [OperatorNext]_operator
        => [Promise!Next]_<<[n \in Agent |-> Served(gr, n)], Promise!agents>>
  BY PromiseSteps DEF Promise!agents, agents
<1>2. StorageFacts => ServedWell
  BY ServedWellHolds DEF StorageFacts
<1> QED BY <1>1, <1>2, PromiseInits, StorageFactsHold, PTL
        DEF OperatorSpec, Promise!Spec
-------------------------------------------------------------------------------
(* The control plane's guarantees.                                         *)

\* The storage's guarantees hold while agents act on them late, die and are replaced:
\* one node bootstraps, the cluster grows by the next node only, no heartbeat is lost
\* but to a second create (process_new_cluster.go:53-116, storage.go:134).
THEOREM OperatorKeepsGuarantees ==
  OperatorSpec => /\ [](OneBootstrapper /\ Contiguous /\ StagedGrowth)
                  /\ HeartbeatNeverLost /\ ActiveIsLeftAlone /\ GrowsInStages
<1>1. Spec => [](OneBootstrapper /\ Contiguous /\ StagedGrowth)
  BY OneBootstrapperHolds, ContiguousHolds, StagedGrowthHolds, PTL
<1>2. Spec => HeartbeatNeverLost /\ ActiveIsLeftAlone /\ GrowsInStages
  BY HeartbeatNeverLostHolds, ActiveIsLeftAloneHolds, GrowsInStagesHolds
<1> QED BY <1>1, <1>2, OperatorRunsControlPlane

-------------------------------------------------------------------------------
(* Nodes left alone: their target state stays, so an agent's orders only   *)
(* become fewer.                                                           *)

ControlFacts == TypeOK /\ NamingInv /\ StallInv

LEMMA ControlFactsHold == OperatorSpec => []ControlFacts
<1>1. Spec => []ControlFacts
  BY TypeInit, TypeStep, NamingInit, NamingStep, StallInit, StallStep, PTL
     DEF Spec, ControlFacts
<1> QED BY <1>1, OperatorRunsControlPlane, PTL

LEMMA ControlLeavesAlone ==
  ASSUME ControlFacts, [OperatorNext]_operator, ~ManagerRestarts,
         NEW n \in Agent, LeftAlone(n)
  PROVE  LeftAlone(n)' /\ Served(gr, n)' = Served(gr, n)
<1>0. n \in DOMAIN gr
  BY DEF LeftAlone
<1>1. Next => Restart \/ (LeftAlone(n)' /\ Served(gr, n)' = Served(gr, n))
  BY <1>0, AloneStep DEF ControlFacts
<1>2. CASE ControllerStep
  <2>1. Next
    BY <1>2 DEF ControllerStep, Next, ReconcileStep
  <2>2. ~Restart
    BY <1>2 DEF ControllerStep, ManagerRestarts
  <2> QED BY <1>1, <2>1, <2>2
<1>3. ASSUME NEW m \in Agent, Deliver(m)
      PROVE  LeftAlone(n)' /\ Served(gr, n)' = Served(gr, n)
  <2>1. Next
    BY <1>3 DEF Deliver, Next
  <2>2. ~Restart
    BY <1>3 DEF Deliver, ReceiveHeartbeat, Restart
  <2> QED BY <1>1, <2>1, <2>2
<1>4. ASSUME UNCHANGED vars
      PROVE  LeftAlone(n)' /\ Served(gr, n)' = Served(gr, n)
  BY <1>4 DEF vars, LeftAlone
<1>5. CASE \/ \E m \in Agent : \/ Fetch(m) \/ GiveUp(m) \/ Launch(m) \/ Finish(m)
                               \/ End(m) \/ Collect(m) \/ Lose(m) \/ Die(m)
           \/ UNCHANGED operator
  BY <1>4, <1>5 DEF Fetch, GiveUp, Launch, Finish, End, Collect, Lose, Die, operator
<1> QED BY <1>2, <1>3, <1>5 DEF OperatorNext

\* A target state comes into an agent's hand from the state API only, and a list of
\* addresses into its MariaDB from a target state in hand that says to start.
LEMMA AgentSteps ==
  ASSUME AgentsTypeOK, [OperatorNext]_operator, NEW n \in Agent
  PROVE  /\ task'[n] \in {None, task[n]} \cup Served(gr, n)
         /\ \/ running'[n] \in {None, running[n]}
            \/ /\ task[n] # None /\ Promise!Acts(task[n])
               /\ running[n] = None /\ running'[n] = task[n].incoming
<1> USE DEF AgentsTypeOK
<1>1. ASSUME NEW m \in Agent, Fetch(m)
      PROVE  /\ task'[n] \in {None, task[n]} \cup Served(gr, n)
             /\ running' = running
  BY <1>1 DEF Fetch, Promise!Fetch
<1>2. ASSUME NEW m \in Agent, Launch(m)
      PROVE  /\ task' = task
             /\ \/ running'[n] = running[n]
                \/ /\ task[n] # None /\ Promise!Acts(task[n])
                   /\ running[n] = None /\ running'[n] = task[n].incoming
  BY <1>2 DEF Launch, Promise!Launch
<1>3. ASSUME NEW m \in Agent, GiveUp(m) \/ Finish(m) \/ End(m) \/ Die(m)
      PROVE  task'[n] \in {None, task[n]} /\ running'[n] \in {None, running[n]}
  BY <1>3 DEF GiveUp, Finish, End, Die, Promise!GiveUp, Promise!Finish, Promise!End,
              Promise!Die
<1>4. ASSUME NEW m \in Agent, Collect(m) \/ Deliver(m) \/ Lose(m)
      PROVE  task' = task /\ running' = running
  BY <1>4 DEF Collect, Deliver, Lose, Promise!Collect, Promise!Send
<1>5. CASE ControllerStep \/ ManagerRestarts \/ UNCHANGED operator
  BY <1>5 DEF ControllerStep, ManagerRestarts, operator, agents
<1> QED BY <1>1, <1>2, <1>3, <1>4, <1>5 DEF OperatorNext

LEMMA OrdersShrink ==
  ASSUME ControlFacts, AgentsTypeOK, [OperatorNext]_operator, ~ManagerRestarts,
         NEW n \in Agent, LeftAlone(n)
  PROVE  LeftAlone(n)' /\ Orders(n)' \subseteq Orders(n)
BY ControlLeavesAlone, AgentSteps DEF Orders

LEMMA DownStep ==
  ASSUME ControlFacts, AgentsTypeOK, [OperatorNext]_operator, ~ManagerRestarts,
         NEW n \in Agent, LeftDown(n)
  PROVE  LeftDown(n)'
<1>1. LeftAlone(n)' /\ Orders(n)' \subseteq Orders(n)
  BY OrdersShrink DEF LeftDown
<1>2. ~(task[n] # None /\ Promise!Acts(task[n]))
  BY DEF LeftDown, Orders
<1>3. running'[n] = None
  BY <1>2, AgentSteps DEF LeftDown
<1>4. \A t \in Orders(n)' : ~Promise!Acts(t)
  BY <1>1 DEF LeftDown
<1> QED BY <1>1, <1>3, <1>4 DEF LeftDown, Promise!Acts

\* Nothing starts the MariaDB of a node left down but a controller manager that has
\* forgotten the node (node.go:43, process_new_node.go:64).
THEOREM DownUntilForgottenHolds == OperatorSpec => DownUntilForgotten
<1>1. ControlFacts /\ AgentsTypeOK /\ [OperatorNext]_operator
        => [\A n \in Agent : LeftDown(n) => LeftDown(n)' \/ ManagerRestarts]_operator
  BY DownStep
<1> QED BY <1>1, ControlFactsHold, StartFacts, PTL DEF OperatorSpec, DownUntilForgotten

LEMMA SettledStep ==
  ASSUME ControlFacts, AgentsTypeOK, [OperatorNext]_operator, ~ManagerRestarts,
         NEW n \in Agent, NEW list, Settled(n, list)
  PROVE  Settled(n, list)'
<1>1. LeftAlone(n)' /\ Orders(n)' \subseteq Orders(n)
  BY OrdersShrink DEF Settled
<1>2. task[n] # None /\ Promise!Acts(task[n]) => task[n].incoming = list
  BY DEF Settled, Orders
<1>3. running'[n] \in {None, list}
  BY <1>2, AgentSteps DEF Settled
<1>4. \A t \in Orders(n)' : Promise!Acts(t) => t.incoming = list
  BY <1>1 DEF Settled
<1> QED BY <1>1, <1>3, <1>4 DEF Settled, Promise!Acts

\* A node left alone keeps to its list of addresses, whatever orders the nodes are
\* listed in for the others (node.go:43, process_new_node.go:73).
THEOREM SettledStaysHolds == OperatorSpec => SettledStays
<1>1. ControlFacts /\ AgentsTypeOK /\ [OperatorNext]_operator
        => [\A n \in {m \in Agent : LeftAlone(m)} : \A list \in ListsAbout(n) :
              Settled(n, list) => Settled(n, list)' \/ ManagerRestarts]_operator
  BY SettledStep
<1> QED BY <1>1, ControlFactsHold, StartFacts, PTL DEF OperatorSpec, SettledStays
==============================================================================
