# galera-k8s-operator in TLA+

The operator brings up a MariaDB Galera cluster. A controller manager keeps the
cluster's and the nodes' records in memory and reconciles them; an agent in each
MariaDB container reports heartbeats, fetches its node's target state and runs
MariaDB accordingly. The modules here model both sides, and both together, from
the Go source; TLC checks them on small instances, and TLAPS proves the safety
properties for every value of the constants.

Run `tlc -config <run>.cfg <module>` for a run of the table below and
`tlapm <module>.tla` for a proof module.

## The system

| part | state | operations | talks to |
|---|---|---|---|
| in-memory storage (`in-memory-storage/`) | map of resources under a mutex | create (overwrites), get, update (must exist), list; seeded by `Init` | called by both controllers and the state API |
| controller manager (`controller-manager/`) | the registered controllers | one ticker loop per controller; an iteration lists resources and starts a goroutine for each in a place of its limiter, without waiting for them; ends on a cancelled context | calls the controllers |
| cluster controller (`controller/cluster/`) | none of its own | `processNewCluster`: first node, or a further secondary once every node is ACTIVE | storage |
| node controller (`controller/node/`) | none of its own | `processNewNode`: primary requeued, secondary told addresses and to start, ready nodes finalized | storage |
| state API (`state-api/`) | none of its own | `POST heartbeat` (read, put the report in, write back), `GET target-state` | storage; called by agents |
| heartbeat collector (`agent/hb-collector/`) | the last heartbeat | collects every 10 s and sends; `Collect` returns the cached one | MariaDB manager, MariaDB, state API |
| target-state manager and reconciler (`agent/target-state-*/`) | `galera.cnf`, the prepared flag | every 5 s: fetch, take the last heartbeat, write the file, restart MariaDB, touch the flag | state API, collector, MariaDB manager |
| MariaDB manager (`agent/mariadb/manager/`) | status, process, two mutexes | run, stop, get status; a finalizer goroutine per run | the MariaDB process |
| MariaDB service (`agent/mariadb/service/`) | none | `ParseGraState`, `Databases`, `Users`, `GetWsrepInfo`: read the lines of a file or the rows of a query | MariaDB; only `GetWsrepInfo` is called, by the collector |
| Kubernetes cluster controller (`k8s-controller/`, `cmd/k8s-controller-manager/`) | a storage of its own process | lists custom resources of version `betav1`, returns none | Kubernetes, storage, state API |
| task manager and tasks (`agent/task-*`, `agent/tasks/`) | `galera.cnf` | every 5 s: fetch a task, put a built-in bootstrap task in its place, write the file, restart MariaDB | state API, MariaDB manager; started by no `main` |

What makes it hard: nothing but single storage operations is atomic. Iterations
overlap, every writer replaces a whole record with a copy it read earlier, and
three kinds of writers (cluster reconciles, node reconciles, heartbeats) do so
concurrently. Both processes lose their memory when they restart, the agent may
also lose its files. The agent decides on a cached status that can be older than
the process it is about. `RunMariaDB` takes a lock that another goroutine
releases. The list of hazards, each at its line, is in `PROJECT.json`.

What makes each part correct:

- control plane: one node and always the same is told to bootstrap; nodes are
  numbered without gaps and never exceed the replicas; the cluster grows only
  after all its nodes were ready; a secondary starts with all the addresses it
  needs; what was learnt of a node is not forgotten; the cluster comes up.
- MariaDB manager: at most one process; the published status and the handle are
  those of the process that runs; a restart really starts one, and returns.
- agent: MariaDB runs with the file on disk; prepared means started; no needless
  restarts but those explained by a stale status; the target state is reached.
- the whole: MariaDBs first start in the order of their nodes; the cluster grows
  on running ones; only the first node bootstraps, and any other has the addresses
  of those before it; a node that is ACTIVE is not restarted any more, and what a
  fault takes from it is known.
- controller manager: full limiters delay reconciles and drop none; iterations end;
  the process ends when told to.
- MariaDB service: a result without an error is whole; what is broken off is never
  taken for something else.
- task manager: a cluster is bootstrapped once per set of files; a torn file is
  repaired.
- Kubernetes controller: nothing but heartbeats changes, as long as its listing
  drops what it finds.

The repository holds no tests and its README is empty, so the code itself and
its comments are the reference. `utils.Atoi` uses `strconv` without importing
it; the models take it as the import being there.

## Modules

### Control plane

`Storage` holds the records and the storage's operations as functions on the map
of nodes. The cluster resource is written once, by `Init`, so it is the constant
`Replicas`. `Seeded = FALSE` stands for an `Init` that stopped after the cluster,
whose error `NewStorage` drops. Names and addresses are numbers: `i` is `node-i`,
0 the `<cluster>-node-0` of the controller's first node, and an agent's address
is its node's number. `NilAddress` is the `"<nil>"` an agent without a route
reports, `EmptyAddress` the empty string of a node never heard of.

`ClusterController`, `NodeController` and `StateApi` hold the decisions as
operators: which record is created, what a reconcile writes, what a heartbeat
request writes (the zero node after an unanswered 404), what is served.

`ControlPlane` composes them. A goroutine in flight is a record in `clusterJobs`,
`nodeJobs` or `hbJobs` that holds the copy it read:

| action | code |
|---|---|
| `ListClusterNodes`, `CreateNode` | `doIteration`, `processNewCluster` up to and from `CreateResource` |
| `ListNodes` | `doIteration` and `GetResources` of the node controller: a copy and a goroutine per node |
| `FinalizeNode`, `RequeuePrimary` | `processNewPrimary`/`processNewSecondary` of a ready node, then `finalize`; a primary that is not ready |
| `CollectAddresses`, `StoreJoin` | `processNewSecondary` around `UpdateGeneralResource` |
| `ReceiveHeartbeat`, `StoreHeartbeat` | `handleHeartbeat` around `UpdateGeneralResource` |
| `Restart` | the process dies or is stopped, the storage is seeded anew |

A goroutine that will do nothing is not started in the model: it changes no state.
An agent has one heartbeat request in flight, because its collector sends them from
one loop. A request that the agent gave up on when its container was replaced may
live on in the server; it is an abstraction that the next one waits for it.

The list of incoming addresses is a sequence, in any order that ranging over the
storage's map may give (`NodesByCluster`). No guard of the controllers reads the
order, and only agents compare lists; so `AnyOrder = FALSE`, nodes in the order of
their numbers, is the bound of the runs without agents that are about other things.

`ClusterGrowth` is what the controllers promise of the membership: found a first
node, add the next number only when all nodes have reported ready, start anew after
a restart. `ControlPlane` implements it (`GrowsInStages`) with the nodes in the
storage as members and `heardReady` as the ready ones.

`ClusterBringUp` is `ControlPlane` in a process that goes on. It adds no step; it
tells apart iterations of the node controller that nothing overlaps
(`BeginUndisturbed`) and states what is assumed of timers and agents (see Fairness).
A restart would lead back to its initial state, with nothing known of the agents, so
what follows the last restart is one of its behaviours.

### Agent

`MariaDBManager` models the manager with its locks: `started` explicitly, `mu` by
making each section under it one step (its holder waits for nothing).
Finalizers are records with a phase. A nil process crashes the agent.
`ProcessSupervisor` is what the manager promises: start only when nothing runs
and the last end has been published. `MariaDBManager` implements it with
`alive <- Alive, status <- State`.

`Agent` models the collector, the reconciling loop and the files, and uses the
supervisor's promise for MariaDB. A collection has three steps (flag, status,
done) because its result replaces the last heartbeat only after MariaDB was
queried; both the collector's loop and the reconciling loop collect. A fact
carries `old`, a history bit: the status was read before the last process was
started. `everStarted` and `missed` are history, too. `galera.cnf` is determined by the list of
addresses, since the agent's own address does not change; two orders of the same
addresses are two values.

`AgentPromise` is what the other side may rely on, for all agents at once: start
only on a target state that says so and with its addresses, one MariaDB at a time,
touch the flag only after a start, and report no more than flag and Galera say.
`Agent` implements it (`PromiseKept`); every failure of the reconciler shows there
as a reconcile that gives up or a MariaDB that ends. What `Agent` relies on of the
manager is `ProcessSupervisor` by construction: `MayStart` waits for its `Free`.
That the manager's lock and finalizer come to no more than that is what
`MariaDBManager` is shown to do, and there only.

### The whole operator

`GaleraOperator` is `ControlPlane` with an `AgentPromise` per node, whose `served`
is what the state API serves of the storage at that moment. Only two actions join
them: `Fetch` reads the storage, and `Deliver` turns an agent's heartbeat into a
`ReceiveHeartbeat`. `Lose` drops it. A task fetched and a report collected stay in
the agent's hands for any time, over restarts of the controller manager too.
`Readings` bounds what collections and routes can be; `Mortal` are the agents whose
container may be replaced at any time (`Die`). `ran` is history: whose MariaDB ever
started.

### Processes and services

| module | action | code |
|---|---|---|
| `ControllerManager` | `Tick`, `CheckContext`, `StartReconcile`, `EndIteration` | `runController`, `doIteration`: the ticker, the check before each resource, the send into the limiter, the end of the loop |
| | `ReconcileEnds` | the goroutine's end, which gives its place back; one of an earlier iteration gives it back to a limiter nobody uses any more |
| | `LoopFails`, `ListenFails` | errors that are fatal to the process |
| | `Listen`, `Arrive`, `Answer`, `Shutdown` | `Start` of the state API and its shutdown goroutine |
| | `Signal`, `MainReturns`, `Exit` | `main` from the signal to its deferred cancel, the end of the process |
| `K8sControllerManager` | `Iterate` | listing with its possible outcomes, and the reconciles of what `GetResources` returned |
| | `Declare`, `Withdraw`, `ServeHeartbeats`, `K8sRestart` | users, agents, the process's end; on `ControlPlane`'s state |
| `TaskManager` | `GetNextTask`, `Handle` | an iteration of `RunForever` up to the handler |
| | `LeaveConf`, `RewriteConf`, `ConfFails`, `StopMariaDB`, `RunMariaDB` | `Execute` and `ConfigureGalera` with their failures |
| | `MariaDBEnds`, `PublishEnd`, `AgentDies` | the process, the manager's finalizer, the container |
| `MariaDBService` | `Open`, `OpenFails`, `TakeValue`, `TakeRow`, `BadItem`, `End`, `Breaks` | the four functions, line by line and row by row |

A failed `RunMariaDB` in `TaskManager` is `AgentDies`: the run is always the first
of its process, and the finalizer of a first start that failed has no process to
wait for. The Kubernetes controller's `processNewCluster` is a copy of the other's,
so `K8sControllerManager` uses `ClusterController`.

`MC*` modules give the constants their values. `*Proofs` modules hold the
theorems.

## Runs

| run | properties | bounds and what they let happen |
|---|---|---|
| `cp_overlap` | `OneBootstrapper`, `JoinListsPredecessors`, `StagedGrowth`, `HeartbeatNeverLost`, `GrowsInStages`, `NextNodeIsDue`, `ActiveIsLeftAlone` | 3 replicas (the code's number), two overlapping cluster iterations, one of nodes, agents that are ready or not, restarts |
| `cp_unseeded` | `TypeOK`, `UnseededStalls` | the storage without node-1; agents for the first node and for one that never exists, unready, ready or without a route; two overlapping iterations of each controller; restarts |
| `cp_bringup` | `ClusterComesUp` | 3 replicas, so that the last node needs two ACTIVE at once; iterations of both controllers and a heartbeat of each agent that overlap and revert statuses and target states, and undisturbed iterations of the node controller between them |
| `mm_callers` | `TypeOK`, `AliveIsRunning`, `RunAlwaysStarts`, `StopReaches`, `Supervised`, `RunReturns` | 3 callers, so that two wait for the lock a third holds; 2 process ids, so that one is reused |
| `ag_node` | `ConfigInForce`, `PreparedMeansStarted`, `OnlyStaleFactsRestart`, `ConvergedStays`, `PromiseKept`, `Settles`, `GetsPrepared` | a primary, or a secondary that waits and is then served two orders of addresses; every failure and death |
| `op_safe` | `StartsInTurn`, `GrowsOnRunning`, `JoinersKnowPredecessors`, `DownUntilForgotten`, `SettledStays` | 2 replicas with their agents, one iteration of each controller in flight, addresses listed in both orders, restarts of the controller manager, the second node's container replaced at any time; one heartbeat handled at a time, and none collected by an agent whose last one is being handled (`OneAtATime`) |
| `cm_loops` | `TypeOK`, `LeavesNoneOut`, `IterationsEnd`, `EndsWhenTold` | both controllers, 3 resources on 2 places, so that an iteration waits; 2 reconciles left over when the next begins; 1 request, a signal |
| `cm_shutdown` | `ShutdownIsGraceful` *(violated)* | the same instance |
| `tm_tasks` | `BootstrapsOnce`, `DownForGood`, `Configures` | three tasks the server may hand out, or none |
| `sv_read` | `NothingLeftOut`, `LastValueCounts` | every file and result of up to 3 items, so that a key comes twice with another between; 5 values, one of them not a number and not a default |
| `k8_ignored` | `DeclarationsIgnored` | the definition serves `betav1`; two clusters, the seeded one and another; two agents, ready or not; restarts |
| `k8_refused` | `AskedIsServed` *(violated)* | the definition is the repository's, which serves `v1alpha1` |

Runs that check a liveness property take the fair specification; fairness takes no
reachable state and no step away, so the same run checks the safety properties.

The runs check the type invariants of the control plane, the manager and the
controller-manager process, which say more than types there (which jobs there can be,
that there is a process to wait for, that a limiter is never overfull). The other type
invariants rest on their proofs, and so do invariants that a property of a run
implies or that are a step towards one: `Contiguous` (implied by `GrowsInStages`),
`LockHandedOver`, `WaitsOnlyForEnding` and `UnpreparedIsMissed`.

The view of `op_safe` leaves out `heardReady`, which no step and no property of that
run depends on. Two labels for cluster iterations suffice to have one reconcile decide from a
listing that another has outdated, which is all that overlap can do; the node
controller's overlap changes one record at a time. `cp_unseeded` has two labels of
either; in `cp_bringup` an undisturbed iteration overlaps none, so one more is what
there is beside it, and one label of cluster iterations leaves out second creates
(with the code's timers they take a reconcile of over ten seconds); in `cp_overlap` the node controller's second label is left to
the proofs, as is any other number. `op_safe` takes one label each, because the
agents' delays multiply the states. Symmetry is used over labels in `cp_unseeded`,
which checks invariants only. The counters of `ControllerManager` are
bounded by `MaxResources` and `MaxEarlier`; all other state is finite. Nothing may
deadlock, and every run checks that but `cm_loops` and `cm_shutdown`, whose process
ends, and `sv_read`, where a behaviour is one call.

Facts the runs taught and the properties respect:

- With two overlapping cluster iterations a second create may reset a node that was
  already heard of (`storage.go:134`): it is the exception in `HeartbeatNeverLost`.
  With one at a time it never happens (`SerialKeepsHeartbeats`). With the code's
  timers a second one overlaps only if a reconcile takes over ten seconds.
- With a second caller a restart need not come to its end: the process started after
  one's `StopMariaDB` is stopped by nobody, the exception in `RunReturns`.
  `StopReaches` says that there is no other way to be kept waiting. The agent
  has one caller.
- If `TouchFile` fails once, the node is not reported prepared: MariaDB runs, so every
  later reconcile returns before it would touch the file
  (`bootstrap_new_cluster.go:53`), and the node never becomes ACTIVE. The history
  variable `missed` marks that failure, the exception in `GetsPrepared`;
  `UnpreparedIsMissed` says that nothing else leaves a running MariaDB unprepared.
- The cluster does not recover from every fault. A secondary that reports ready
  before it was told to start (the controller manager restarted), or whose record a
  heartbeat overwrote, becomes ACTIVE with `started` unset
  (`process_new_node.go:64`), and ACTIVE nodes are not reconciled (`node.go:43`). If
  its container is then replaced, nothing tells it to start, and
  `DownUntilForgotten` says that only a restart of the controller manager, which
  forgets the node, ends it.
- A first node whose container is replaced is served the same target state and
  bootstraps again (`bootstrap_new_cluster.go:62`), while the others keep the first
  cluster. The runs let only the secondary be replaced, and no property says that
  there is one Galera cluster.
- A secondary that is not ready is told its addresses at each iteration, in the
  random order of a Go map (`process_new_node.go:73`), and its agent compares the
  text of `galera.cnf` (`bootstrap_new_cluster.go:81-104`): it is restarted when only
  the order changed, and may be again and again before it is ready. Once it is ACTIVE
  and nothing about it is in flight the order it may be told no longer changes. But
  if the list last stored is not the one it runs with, it is restarted once even
  then; so `SettledStays` speaks of a node that runs with one list, if at all, and
  can be told of no other.
- The task manager puts a built-in task in the place of the one it fetched, even when
  there was none (`task-manager/manager.go:102`), and starts MariaDB only after it
  wrote `galera.cnf`, so a MariaDB that ends, or an agent that dies between the two,
  stays down (`DownForGood`).
- `GetWsrepInfo` is the one function that does not ask `rows.Err()`: a lost
  connection looks like the end of its rows (`mariadb.go:200`), so `NothingLeftOut`
  excludes it and `LastValueCounts` says what is left.

None of these contradicts anything the repository says; they are recorded as
hazards. Two disagreements are recorded as findings, each with a violated run:

- `cm_shutdown`: the state API's "graceful shutdown" with a timeout
  (`server.go:75-86`) runs in a goroutine that nothing waits for; `main` ends right
  after it cancelled the context, requests or not.
- `k8_refused`: the controller lists version `betav1` of a resource whose definition
  in `manifests/` serves `v1alpha1` only.

## Fairness

`mm_callers` assumes that goroutines go on, that a mutex is not kept from a goroutine
for ever (Go's mutexes have a starvation mode for this), that a dead agent's
container is started again, and that MariaDB ends after SIGTERM.

`ag_node` assumes the same of the agent's loops, and `CalmsDown`: from some time
on nothing fails, the target state stays, and the collector does not read the
status in the middle of a restart. The last is needed because the 10 s and the
5 s timer could resonate: a status read between stop and start, used after the
start, restarts MariaDB again (TLC shows that loop when the assumption is dropped).

`cp_bringup` assumes `Fairness` of `ClusterBringUp`:

- goroutines and requests are carried on, and the cluster controller's loop goes on
  (weak fairness);
- each agent's heartbeats go on, and again and again one is handled while no
  reconcile and no other request is under way. If the node is told to start then, it
  says that the node is ready: what `Settles` and `GetsPrepared` of `ag_node` come
  to, together with Galera letting a running MariaDB in. It includes that a joining
  MariaDB gets ready between two iterations again and again, although another order
  of addresses may restart it at each;
- undisturbed iterations come again and again, and find at last what is there again
  and again: any node to process, and one that is told to start and ready (strong
  fairness). Reconciles and requests take milliseconds; iterations have a period of
  ten seconds, heartbeats of ten, and the timers of different processes drift.

Every other iteration, request and create may overlap as it likes. What is left to
show is that the statuses and target states they revert do not keep the cluster from
growing: node 3 needs two nodes ACTIVE in one listing, and at the end all three are
so for good. An assumption that is not made is that reverting ever stops; that
ACTIVE nodes that are left alone stay so is the controllers' doing.

Liveness of the whole operator is by this decomposition, `ClusterComesUp` for the
controllers on what `Settles` and `GetsPrepared` show of one agent; no run checks it
of `GaleraOperator`.

`cm_loops` assumes that goroutines run on: reconciles, the loops, `main`. Nothing is
assumed of the tickers, the server, or the signal.

`tm_tasks` assumes that the task manager's loop goes on. Neither its HTTP client nor
the agent's has a timeout, so that a fetch comes to an end, with an answer or an
error, is an assumption about the network and the state API, here and in `ag_node`.
It also assumes `CalmsDown`: from some
time on the agent does not die and writing does not fail.

## Proofs

Every theorem holds for all values of the constants that satisfy the named
assumptions of the modules: any number of replicas, agents, labels, callers,
processes, and any sets of target states. TLC was asked about each formula
before it was proved.

`ControlPlaneProofs`. Type correctness goes by actions; `IsStore` describes the
storage as a function on whatever nodes exist. No safety property is inductive by
itself, because a stale copy in flight may be stored at any time. So each
strengthening says of every job what the property says of the storage:

- `OneBootstrapperHolds` from `RoleInv`: every record, stored or held by a job,
  fits its name's role, and a job carries a name whose record exists.
- `ContiguousHolds` from `NamingInv`: a create in flight is for a name at most one
  past the last node.
- `StagedGrowthHolds` from `ReadyInv`: every ACTIVE status and every ready
  heartbeat, wherever a copy of it is, is vouched for by the history variable.
- `UnseededStallsHolds` from `StallInv`: no copy of the first node has a status.
- `JoinListsPredecessorsHolds` from `JoinInv`: a list of addresses, stored or in
  flight, covers all nodes up to its own.
- `HeartbeatNeverLostHolds` from `HeardInv`: every copy in flight that may be stored
  over a record was heard of. `SerialKeepsHeartbeats` adds `FreshInv` under `Serial`
  (one cluster-iteration label): a create in flight is for a node that does not exist
  yet.
- `NextNodeIsDueHolds` from `RoleInv`, `NamingInv` and `StallInv`: node 1 is there
  and the only primary, and the names have no gap, so the next number is free.
- `ActiveIsLeftAloneHolds` from `NamingInv` and `StallInv`, one action at a time: no
  job but a restart can be started that would change an ACTIVE node's status, role or
  addresses, once none is in flight. The create of another node is the case that needs
  the naming.
- `GrowsInStagesHolds`: `ControlPlane` implements `ClusterGrowth`, step by step, with
  `NamingInv` and `ReadyInv` at the creates.

`MariaDBManagerProofs`. `SemaphoreInv` says that the lock is held by one
`RunMariaDB` or by the one finalizer it was handed to. `ProcessInv`, on top of it,
says that a live process has a finalizer that has not waited for it yet. From both
follow `AliveIsRunningHolds`, `RunAlwaysStartsHolds`, `LockHandedOverHolds` and, action
by action, the refinement `SupervisedHolds`. `StopReachesHolds` follows from `ReachStep`,
which looks at each way a process can appear behind a caller; `SoleCallerIsNeverKept`
is its consequence for a program with one caller, as the agent is: a restart never
waits for a MariaDB that nobody told to end.

`AgentProofs`. `ConfigInForce` is inductive. `PreparedMeansStartedHolds` follows
the flag through `PreparedInv` from disk into collections and the last heartbeat.
`OnlyStaleFactsRestartHolds` combines `ConfigInForce` with `FactInv`: a status that
is not older than the running process says "running".

`RestartInv` adds that a live process has the status "running", which is why
StopMariaDB is called for it; `WaitsOnlyForEndingHolds` and `UnpreparedIsMissedHolds`
follow. `ConvergedStaysHolds` shows that no step of either loop, failures included,
undoes a converged agent. `PromiseKeptHolds` is the refinement of `AgentPromise`, one
step of `Agent` at a time.

`GaleraOperatorProofs`. `OperatorRunsControlPlane` shows that every step of the
operator is one of `ControlPlane` or leaves it alone, which makes all theorems about
it theorems about the operator. `OperatorKeepsAgentPromise` shows the same for the
agents' side and `AgentPromise`; its environment step is where it is shown that the
role served to a node never changes, which `Agent` assumes of its target states. So
either side's assumptions about the other are discharged. On top of these,
`StartInv` carries readiness from the running MariaDB through flag, heartbeat,
request and storage, and gives `StartsInTurnHolds` and `GrowsOnRunningHolds`.
`ListInv` carries a list of addresses from the storage through the task to the
running MariaDB, and gives `JoinersKnowPredecessorsHolds`.
`OperatorKeepsGuarantees` spells out which of the control plane's guarantees the
operator inherits. `OrdersShrink` is the lemma about what an agent may still act on:
for a node that is left alone, the target states in its agent's hands and the one it
can fetch only become fewer. With it `DownUntilForgottenHolds` shows that a node left
down gets no order to start, and `SettledStaysHolds` that one that runs with a list
of addresses, or is down and can be told of one list only, is told of no other order
of them, however the storage's map is ranged over.

`ControllerManagerProofs`. A reconcile is started into a free place only
(`TypeCorrect`), and `LeavesNoneOutHolds` follows from `WaitsForOne`: a loop that
waits for a place has a resource to start one for.

`K8sControllerManagerProofs`. `K8sRunsControlPlane` makes the process a
`ControlPlane` whose controllers do nothing. `PlainInv` says that what heartbeats
in flight carry differs from the seeded node in its heartbeat only, and gives
`DeclarationsIgnoredHolds`.

`TaskManagerProofs`. `OnceStarted` says that MariaDB runs or was run only on a
`galera.cnf` that is right, and gives both theorems.

`MariaDBServiceProofs`. `Taken` is the loop's invariant: what was found is the last
value, or the list of all values, of the items before `pos`. It holds for files and
results of any length, without induction over data, because each step adds one item.

Only model-checked: the liveness properties `RunReturns`, `Settles`,
`GetsPrepared`, `ClusterComesUp`, `IterationsEnd`,
`EndsWhenTold` and `Configures`. Liveness under fairness is out of the prover's
reach. What is proved of them is the safety they rest on: that nothing is in the way
of the progress, and that what was reached is kept.

| liveness property | proved |
|---|---|
| `RunReturns` | the lock is always somebody's who will release it (`LockHandedOver`); the process waited for was told to end (`StopReaches`) |
| `Settles`, `GetsPrepared` | a restart waits only for a MariaDB that ends (`WaitsOnlyForEnding`); convergence is not undone (`ConvergedStays`); only a failed touch leaves a node unprepared (`UnpreparedIsMissed`) |
| `ClusterComesUp` | a cluster that is ready and too small has a next node to create (`NextNodeIsDue`); an ACTIVE node stays so (`ActiveIsLeftAlone`) |
| `IterationsEnd`, `EndsWhenTold` | a loop that waits for a place has a resource to start a reconcile for (`WaitsForOne`) |

`Configures` has no such part. Every invariant and step property of a passing run is
proved.

## Not modelled

- Galera itself (membership, state transfer, split brain): a heartbeat's cluster
  status is an arbitrary reading, of a MariaDB that runs.
- HTTP routing and middleware, JSON (the round trip of a record is the identity),
  logging, configuration files, and processor time (the collector's loop spins on
  its `default:` branch).
- `DeleteGeneralResource`, `RunMariadb` of the agent's utilities, the tasks'
  `ToJSON` and `FromJSON`, and the Kubernetes controller's `dto` conversion: nothing
  calls them.
- The `pods` package, which is empty, and images, manifests and build files but for
  the version the resource definition serves.
- Two clusters in one storage: nothing creates the second.

## Plan

Done, in this order: the control plane, the MariaDB manager with its abstract
specification, the agent; then what the agents promise and the operator composed
of both sides, the growth refinement, the controller-manager process, the
Kubernetes process, the task manager, the MariaDB service.

Left, should the code grow into it:

1. A model of Galera's membership behind `wsrep`, and with it a property about the
   first node's second bootstrap, once the code says how that node should rejoin.
2. Two clusters in one storage, once the Kubernetes controller returns what it
   lists; node names are not qualified by their cluster
   (`process_new_cluster.go:92`).
3. The composition with three replicas and overlapping iterations in TLC; today its
   safety rests on the proofs, and its liveness on the decomposition into
   `ClusterBringUp` and `Agent`.
4. The task manager as a second caller of `MariaDBManager`, once a `main` starts it.
