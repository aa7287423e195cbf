------------------------------ MODULE AgentProofs ------------------------------
(***************************************************************************)
(* Proofs about Agent, for any target states and lists of addresses.       *)
(***************************************************************************)
EXTENDS Agent, TLAPS

USE TargetsAssumption, ValuesAssumption, NoneAssumption

LEMMA FactIsNoNone == ASSUME NEW f \in Fact \cup {None}
                      PROVE  AsOld(f) \in Fact \cup {None}
BY DEF AsOld, Fact

LEMMA CollectionSteps ==
  ASSUME NEW c \in Collection, NEW p \in BOOLEAN, NEW s \in Status
  PROVE  /\ [c EXCEPT !.phase = "files", !.got.prepared = p] \in Collection
         /\ [c.got EXCEPT !.status = s, !.old = FALSE] \in Fact
         /\ [c EXCEPT !.phase = "idle", !.got = NoFact] \in Collection
         /\ [c EXCEPT !.got.old = TRUE] \in Collection
<1>1. NoFact \in Fact
  BY DEF NoFact, Fact, Status
<1>2. c.got \in Fact
  BY DEF Collection
<1>3. /\ [c.got EXCEPT !.prepared = p] \in Fact
      /\ [c.got EXCEPT !.old = TRUE] \in Fact
      /\ [c.got EXCEPT !.status = s, !.old = FALSE] \in Fact
  BY <1>2 DEF Fact
<1> QED BY <1>1, <1>2, <1>3 DEF Collection

-------------------------------------------------------------------------------
(* Types.                                                                  *)

LEMMA AgentTypeInit == Init => TypeOK
<1>1. NoCollection \in [Collector -> Collection]
  BY DEF NoCollection, NoFact, Collection, Fact, Status
<1> QED BY <1>1 DEF Init, TypeOK, Status

LEMMA AgentTypeStep == TypeOK /\ [Next]_vars => TypeOK'
<1> SUFFICES ASSUME TypeOK, [Next]_vars PROVE TypeOK'
  OBVIOUS
<1> USE DEF TypeOK, loop, collector, files, mariadb
<1>1. ASSUME NEW w \in Collector, CollectFiles(w) PROVE TypeOK'
  <2>1. [col[w] EXCEPT !.phase = "files", !.got.prepared = prepared] \in Collection
    BY CollectionSteps
  <2>2. col' \in [Collector -> Collection]
    BY <1>1, <2>1 DEF CollectFiles
  <2> QED BY <1>1, <2>2 DEF CollectFiles
<1>2. ASSUME NEW w \in Collector, CollectStatus(w) PROVE TypeOK'
  <2> DEFINE got == [col[w].got EXCEPT !.status = status, !.old = FALSE]
  <2>1. got \in Fact
    BY CollectionSteps
  <2>2. col' = [col EXCEPT ![w] = [phase |-> "status", got |-> got]]
    BY <1>2 DEF CollectStatus, Collection
  <2>3. col' \in [Collector -> Collection]
    BY <2>1, <2>2 DEF Collection
  <2> QED BY <1>2, <2>3 DEF CollectStatus
<1>3. ASSUME NEW w \in Collector, CollectDone(w) PROVE TypeOK'
  <2>1. [col[w] EXCEPT !.phase = "idle", !.got = NoFact] \in Collection
    BY CollectionSteps DEF Status
  <2>2. col' \in [Collector -> Collection] /\ lastState' \in Fact
    BY <1>3, <2>1 DEF CollectDone, Collection
  <2>3. col[w].got.prepared \in BOOLEAN
    BY DEF Collection, Fact
  <2>4. sending' \in Report \cup {None}
    BY <1>3, <2>3 DEF CollectDone, Report
  <2> QED BY <1>3, <2>2, <2>4 DEF CollectDone
<1>18. CASE SendHeartbeat
  BY <1>18 DEF SendHeartbeat
<1>4. CASE Fetch
  BY <1>4 DEF Fetch
<1>5. CASE TakeFact
  BY <1>5 DEF TakeFact
<1>6. CASE LeaveConf
  BY <1>6 DEF LeaveConf
<1>7. CASE RewriteConf
  BY <1>7 DEF RewriteConf, Target
<1>8. CASE ConfFails
  BY <1>8 DEF ConfFails
<1>9. CASE StopMariaDB
  BY <1>9 DEF StopMariaDB
<1>10. CASE RunMariaDB
  <2>1. \A w \in Collector : [col[w] EXCEPT !.got.old = TRUE] \in Collection
    BY CollectionSteps
  <2>2. col' \in [Collector -> Collection]
    BY <1>10, <2>1 DEF RunMariaDB
  <2>3. fact' \in Fact \cup {None} /\ lastState' \in Fact \cup {None}
    BY <1>10, FactIsNoNone DEF RunMariaDB
  <2>4. fact' # None
    BY <1>10 DEF RunMariaDB, MayStart, Supervisor!Free, AsOld, Fact
  <2> QED BY <1>10, <2>2, <2>3, <2>4 DEF RunMariaDB, MayStart, Supervisor!Free, Status
<1>11. CASE RunFails
  BY <1>11 DEF RunFails
<1>12. CASE TouchPrepared
  <2>1. prepared' \in BOOLEAN
    BY <1>12 DEF TouchPrepared
  <2>2. missed' \in BOOLEAN
    BY <1>12, Zenon DEF TouchPrepared
  <2>3. /\ pc' = "idle"
        /\ UNCHANGED <<served, ts, fact, collector, conf, alive, asked, status,
                       inForce, everStarted>>
    BY <1>12, Zenon DEF TouchPrepared
  <2> HIDE <1>12
  <2> QED BY <2>1, <2>2, <2>3
<1>13. CASE MariaDBEnds
  <2>1. alive' \in BOOLEAN
    BY <1>13 DEF MariaDBEnds
  <2>2. UNCHANGED <<served, loop, collector, files, asked, status, inForce,
                    everStarted, missed>>
    BY <1>13 DEF MariaDBEnds
  <2> HIDE <1>13
  <2> QED BY <2>1, <2>2
<1>14. CASE PublishEnd
  BY <1>14 DEF PublishEnd, Status
<1>15. ASSUME NEW t \in Targets, Serve(t) PROVE TypeOK'
  BY <1>15 DEF Serve
<1>16. CASE AgentDies
  <2>1. NoCollection \in [Collector -> Collection]
    BY DEF NoCollection, NoFact, Collection, Fact, Status
  <2> QED BY <1>16, <2>1 DEF AgentDies, Status
<1>17. CASE UNCHANGED vars
  BY <1>17 DEF vars
<1> QED BY <1>1, <1>2, <1>3, <1>4, <1>5, <1>6, <1>7, <1>8, <1>9, <1>10, <1>11, <1>12,
           <1>13, <1>14, <1>15, <1>16, <1>17, <1>18 DEF Next

\* The loops' local variables, the files and the published status keep their
\* types; a reconcile that acts has a heartbeat to act on (handler.go:82, hb.go:133).
THEOREM AgentTypeCorrect == Spec => []TypeOK
BY AgentTypeInit, AgentTypeStep, PTL DEF Spec

-------------------------------------------------------------------------------
(* galera.cnf and the running process.  ConfigInForce is inductive: the    *)
(* file changes on the way to a restart, and only the restart leaves it.   *)

LEMMA ConfigStep == TypeOK /\ ConfigInForce /\ [Next]_vars => ConfigInForce'
<1> SUFFICES ASSUME TypeOK, ConfigInForce, [Next]_vars PROVE ConfigInForce'
  OBVIOUS
<1> USE DEF TypeOK, ConfigInForce, loop, collector, files, mariadb
<1>1. ASSUME NEW w \in Collector, CollectFiles(w) \/ CollectStatus(w) \/ CollectDone(w)
      PROVE  ConfigInForce'
  BY <1>1 DEF CollectFiles, CollectStatus, CollectDone
<1>12. CASE SendHeartbeat
  BY <1>12 DEF SendHeartbeat
<1>2. CASE Fetch \/ TakeFact
  BY <1>2 DEF Fetch, TakeFact
<1>3. CASE LeaveConf \/ RewriteConf
  BY <1>3 DEF LeaveConf, RewriteConf
<1>4. CASE ConfFails
  BY <1>4 DEF ConfFails
<1>5. CASE StopMariaDB
  BY <1>5 DEF StopMariaDB
<1>6. CASE RunMariaDB \/ RunFails
  BY <1>6 DEF RunMariaDB, RunFails, MayStart, Supervisor!Free
<1>7. CASE TouchPrepared
  BY <1>7 DEF TouchPrepared
<1>8. CASE MariaDBEnds \/ PublishEnd
  BY <1>8 DEF MariaDBEnds, PublishEnd
<1>9. ASSUME NEW t \in Targets, Serve(t) PROVE ConfigInForce'
  BY <1>9 DEF Serve
<1>10. CASE AgentDies
  BY <1>10 DEF AgentDies
<1>11. CASE UNCHANGED vars
  BY <1>11 DEF vars
<1> QED BY <1>1, <1>2, <1>3, <1>4, <1>5, <1>6, <1>7, <1>8, <1>9, <1>10, <1>11, <1>12 DEF Next

\* MariaDB runs with the galera.cnf on disk (bootstrap_new_cluster.go:49-62).
THEOREM ConfigInForceHolds == Spec => []ConfigInForce
<1>1. Init => ConfigInForce
  BY DEF Init, ConfigInForce
<1> QED BY <1>1, AgentTypeInit, AgentTypeStep, ConfigStep, PTL DEF Spec

-------------------------------------------------------------------------------
(* The prepared flag.  Wherever a copy of it is, MariaDB was started       *)
(* before: on disk, in the last heartbeat, in a collection under way.      *)

PreparedInv ==
  /\ PreparedMeansStarted
  /\ pc = "started" => everStarted
  /\ \A w \in Collector : col[w].got.prepared => everStarted

LEMMA PreparedStep == TypeOK /\ PreparedInv /\ [Next]_vars => PreparedInv'
<1> SUFFICES ASSUME TypeOK, PreparedInv, [Next]_vars PROVE PreparedInv'
  OBVIOUS
<1> USE DEF TypeOK, PreparedInv, PreparedMeansStarted, loop, collector, files, mariadb
<1>1. ASSUME NEW w \in Collector, CollectFiles(w) PROVE PreparedInv'
  <2>1. \A v \in Collector : col'[v].got.prepared = (IF v = w THEN prepared
                                                     ELSE col[v].got.prepared)
    BY <1>1 DEF CollectFiles, Collection, Fact
  <2> QED BY <1>1, <2>1 DEF CollectFiles
<1>2. ASSUME NEW w \in Collector, CollectStatus(w) PROVE PreparedInv'
  <2>1. \A v \in Collector : col'[v].got.prepared = col[v].got.prepared
    BY <1>2 DEF CollectStatus, Collection, Fact
  <2> QED BY <1>2, <2>1 DEF CollectStatus
<1>3. ASSUME NEW w \in Collector, CollectDone(w) PROVE PreparedInv'
  <2>1. \A v \in Collector : col'[v].got.prepared => col[v].got.prepared
    BY <1>3 DEF CollectDone, Collection, NoFact
  <2> QED BY <1>3, <2>1 DEF CollectDone
<1>12. CASE SendHeartbeat
  BY <1>12 DEF SendHeartbeat
<1>4. CASE Fetch \/ TakeFact \/ LeaveConf \/ RewriteConf
  BY <1>4 DEF Fetch, TakeFact, LeaveConf, RewriteConf
<1>5. CASE ConfFails \/ StopMariaDB \/ RunFails
  BY <1>5 DEF ConfFails, StopMariaDB, RunFails
<1>6. CASE RunMariaDB
  BY <1>6 DEF RunMariaDB
<1>7. CASE TouchPrepared
  BY <1>7 DEF TouchPrepared
<1>8. CASE MariaDBEnds \/ PublishEnd
  BY <1>8 DEF MariaDBEnds, PublishEnd
<1>9. ASSUME NEW t \in Targets, Serve(t) PROVE PreparedInv'
  BY <1>9 DEF Serve
<1>10. CASE AgentDies
  <2>1. \A w \in Collector : ~NoCollection[w].got.prepared
    BY DEF NoCollection, NoFact
  <2> QED BY <1>10, <2>1 DEF AgentDies
<1>11. CASE UNCHANGED vars
  BY <1>11 DEF vars
<1> QED BY <1>1, <1>2, <1>3, <1>4, <1>5, <1>6, <1>7, <1>8, <1>9, <1>10, <1>11, <1>12 DEF Next

\* No heartbeat says prepared of an agent that never started MariaDB
\* (bootstrap_new_cluster.go:62-70, hb.go:165).
THEOREM PreparedMeansStartedHolds == Spec => []PreparedMeansStarted
<1>1. Init => PreparedInv
  BY DEF Init, PreparedInv, PreparedMeansStarted, NoCollection, NoFact
<1>2. PreparedInv => PreparedMeansStarted
  BY DEF PreparedInv
<1> QED BY <1>1, <1>2, AgentTypeInit, AgentTypeStep, PreparedStep, PTL DEF Spec

-------------------------------------------------------------------------------
(* Facts.  A status read since the running process was started says        *)
(* "running", wherever it has got to.                                      *)

Truthful(f) == alive /\ ~f.old => f.status = "running"

FactInv ==
  /\ alive => status = "running"
  /\ fact # None => Truthful(fact)
  /\ lastState # None => Truthful(lastState)
  /\ \A w \in Collector : col[w].phase = "status" => Truthful(col[w].got)

LEMMA FactStep == TypeOK /\ FactInv /\ [Next]_vars => FactInv'
<1> SUFFICES ASSUME TypeOK, FactInv, [Next]_vars PROVE FactInv'
  OBVIOUS
<1> USE DEF TypeOK, FactInv, Truthful, loop, collector, files, mariadb
<1>1. ASSUME NEW w \in Collector, CollectFiles(w) PROVE FactInv'
  <2>1. \A v \in Collector : col'[v].phase = "status" => v # w /\ col'[v] = col[v]
    BY <1>1 DEF CollectFiles, Collection
  <2> QED BY <1>1, <2>1 DEF CollectFiles
<1>2. ASSUME NEW w \in Collector, CollectStatus(w) PROVE FactInv'
  <2>1. \A v \in Collector : v # w => col'[v] = col[v]
    BY <1>2 DEF CollectStatus
  <2>2. col'[w].got.status = status /\ ~col'[w].got.old
    BY <1>2 DEF CollectStatus, Collection, Fact
  <2> QED BY <1>2, <2>1, <2>2 DEF CollectStatus
<1>3. ASSUME NEW w \in Collector, CollectDone(w) PROVE FactInv'
  <2>1. \A v \in Collector : col'[v].phase = "status" => col'[v] = col[v]
    BY <1>3 DEF CollectDone, Collection
  <2> QED BY <1>3, <2>1 DEF CollectDone
<1>11. CASE SendHeartbeat
  BY <1>11 DEF SendHeartbeat
<1>4. CASE Fetch \/ TakeFact \/ LeaveConf \/ RewriteConf
  BY <1>4 DEF Fetch, TakeFact, LeaveConf, RewriteConf
<1>5. CASE ConfFails \/ StopMariaDB \/ RunFails \/ TouchPrepared
  <2>1. UNCHANGED <<fact, lastState, col, alive, status>>
    BY <1>5 DEF ConfFails, StopMariaDB, RunFails, TouchPrepared
  <2> QED BY <2>1
<1>6. CASE RunMariaDB
  <2>1. \A f \in Fact \cup {None} : AsOld(f) # None => AsOld(f).old
    BY DEF AsOld, Fact
  <2>2. (fact' # None => fact'.old) /\ (lastState' # None => lastState'.old)
    BY <1>6, <2>1 DEF RunMariaDB
  <2>3. \A w \in Collector : col'[w].got.old
    BY <1>6 DEF RunMariaDB, Collection, Fact
  <2>4. status' = "running"
    BY <1>6 DEF RunMariaDB
  <2> QED BY <2>2, <2>3, <2>4
<1>7. CASE MariaDBEnds \/ PublishEnd
  BY <1>7 DEF MariaDBEnds, PublishEnd
<1>8. ASSUME NEW t \in Targets, Serve(t) PROVE FactInv'
  BY <1>8 DEF Serve
<1>9. CASE AgentDies
  <2>1. \A w \in Collector : NoCollection[w].phase = "idle"
    BY DEF NoCollection
  <2> QED BY <1>9, <2>1 DEF AgentDies
<1>10. CASE UNCHANGED vars
  BY <1>10 DEF vars
<1> QED BY <1>1, <1>2, <1>3, <1>4, <1>5, <1>6, <1>7, <1>8, <1>9, <1>10, <1>11 DEF Next

\* A MariaDB with the right configuration is restarted only on a fact that is
\* older than the process (bootstrap_new_cluster.go:53, hb.go:133-147).
THEOREM OnlyStaleFactsRestartHolds == Spec => OnlyStaleFactsRestart
<1>1. Init => ConfigInForce /\ FactInv
  BY DEF Init, ConfigInForce, FactInv, NoCollection
<1>2. TypeOK /\ ConfigInForce /\ FactInv /\ [Next]_vars
        => [pc = "collected" /\ pc' = "stopping" /\ alive /\ inForce = ts.incoming
              => fact.old \/ conf = Torn]_vars
  <2> SUFFICES ASSUME TypeOK, ConfigInForce, FactInv, Next, pc = "collected",
                      pc' = "stopping", alive, inForce = ts.incoming
               PROVE  fact.old \/ conf = Torn
    OBVIOUS
  <2>1. LeaveConf \/ RewriteConf
    BY DEF Next, CollectFiles, CollectStatus, CollectDone, SendHeartbeat, Fetch, TakeFact,
           ConfFails, StopMariaDB, RunMariaDB, RunFails, MayStart, Supervisor!Free,
           TouchPrepared,
           MariaDBEnds, PublishEnd, Serve, AgentDies, loop
  <2>2. CASE LeaveConf
    BY <2>2 DEF LeaveConf, FactInv, Truthful, TypeOK, Fact
  <2>3. CASE RewriteConf
    BY <2>3 DEF RewriteConf, ConfDiffers, ConfigInForce
  <2> QED BY <2>1, <2>2, <2>3
<1> QED BY <1>1, <1>2, AgentTypeInit, AgentTypeStep, ConfigStep, FactStep, PTL
        DEF Spec, OnlyStaleFactsRestart

-------------------------------------------------------------------------------
(* A restart.  While MariaDB runs its status says so, and then StopMariaDB *)
(* reaches it.                                                             *)

RestartInv ==
  /\ alive => status = "running"
  /\ WaitsOnlyForEnding
  /\ UnpreparedIsMissed

LEMMA RestartInit == Init => RestartInv
BY DEF Init, RestartInv, WaitsOnlyForEnding, UnpreparedIsMissed

LEMMA RestartStep == TypeOK /\ RestartInv /\ [Next]_vars => RestartInv'
<1> SUFFICES ASSUME TypeOK, RestartInv, [Next]_vars PROVE RestartInv'
  OBVIOUS
<1> USE DEF TypeOK, RestartInv, WaitsOnlyForEnding, UnpreparedIsMissed,
            loop, collector, files, mariadb
<1>1. ASSUME NEW w \in Collector, CollectFiles(w) \/ CollectStatus(w) \/ CollectDone(w)
      PROVE  RestartInv'
  BY <1>1 DEF CollectFiles, CollectStatus, CollectDone
<1>2. CASE SendHeartbeat \/ Fetch \/ TakeFact
  BY <1>2 DEF SendHeartbeat, Fetch, TakeFact
<1>3. CASE LeaveConf \/ RewriteConf \/ ConfFails
  BY <1>3 DEF LeaveConf, RewriteConf, ConfFails
<1>4. CASE StopMariaDB
  <2>1. alive => asked'
    BY <1>4 DEF StopMariaDB
  <2>2. UNCHANGED <<alive, status, prepared, missed>> /\ pc = "stopping"
    BY <1>4 DEF StopMariaDB
  <2> HIDE <1>4
  <2> QED BY <2>1, <2>2
<1>5. CASE RunMariaDB \/ RunFails
  BY <1>5 DEF RunMariaDB, RunFails, MayStart, Supervisor!Free
<1>6. CASE TouchPrepared
  <2>1. prepared' \/ missed'
    BY <1>6, Zenon DEF TouchPrepared
  <2>2. pc' = "idle" /\ UNCHANGED <<alive, status, asked>>
    BY <1>6, Zenon DEF TouchPrepared
  <2> HIDE <1>6
  <2> QED BY <2>1, <2>2
<1>7. CASE MariaDBEnds \/ PublishEnd
  BY <1>7 DEF MariaDBEnds, PublishEnd
<1>8. ASSUME NEW t \in Targets, Serve(t) PROVE RestartInv'
  BY <1>8 DEF Serve
<1>9. CASE AgentDies
  BY <1>9 DEF AgentDies
<1>10. CASE UNCHANGED vars
  BY <1>10 DEF vars
<1> QED BY <1>1, <1>2, <1>3, <1>4, <1>5, <1>6, <1>7, <1>8, <1>9, <1>10 DEF Next

\* A restart waits for no MariaDB that was not told to end
\* (bootstrap_new_cluster.go:59-62, manager.go:47, 106-123).
THEOREM WaitsOnlyForEndingHolds == Spec => []WaitsOnlyForEnding
<1>1. RestartInv => WaitsOnlyForEnding
  BY DEF RestartInv
<1> QED BY <1>1, AgentTypeInit, AgentTypeStep, RestartInit, RestartStep, PTL DEF Spec

\* A MariaDB that runs on a node not prepared is one whose flag is about to be
\* touched or could not be (bootstrap_new_cluster.go:62-70).
THEOREM UnpreparedIsMissedHolds == Spec => []UnpreparedIsMissed
<1>1. RestartInv => UnpreparedIsMissed
  BY DEF RestartInv
<1> QED BY <1>1, AgentTypeInit, AgentTypeStep, RestartInit, RestartStep, PTL DEF Spec

-------------------------------------------------------------------------------
(* Convergence.  No step of the agent itself leaves Converged.             *)

LEMMA ConvergedStep ==
  ASSUME TypeOK, Converged, [Next]_vars, alive', served' = served
  PROVE  Converged'
<1> USE DEF TypeOK, Converged, loop, collector, files, mariadb
<1>1. ASSUME NEW w \in Collector, CollectFiles(w) PROVE Converged'
  <2>1. \A v \in Collector : col'[v].phase = "status" => col'[v] = col[v]
    BY <1>1 DEF CollectFiles, Collection
  <2> QED BY <1>1, <2>1 DEF CollectFiles
<1>2. ASSUME NEW w \in Collector, CollectStatus(w) PROVE Converged'
  <2>1. \A v \in Collector : v # w => col'[v] = col[v]
    BY <1>2 DEF CollectStatus
  <2>2. col'[w].got.status = "running"
    BY <1>2 DEF CollectStatus, Collection, Fact
  <2>3. \A v \in Collector : col'[v].phase = "status" => col'[v].got.status = "running"
    BY <2>1, <2>2
  <2> QED BY <1>2, <2>3 DEF CollectStatus
<1>3. ASSUME NEW w \in Collector, CollectDone(w) PROVE Converged'
  <2>1. \A v \in Collector : col'[v].phase = "status" => col'[v] = col[v]
    BY <1>3 DEF CollectDone, Collection
  <2>2. lastState'.status = "running"
    BY <1>3 DEF CollectDone
  <2> QED BY <1>3, <2>1, <2>2 DEF CollectDone
<1>4. CASE SendHeartbeat \/ Fetch
  BY <1>4 DEF SendHeartbeat, Fetch
<1>5. CASE TakeFact
  BY <1>5 DEF TakeFact
<1>6. CASE LeaveConf \/ RewriteConf \/ ConfFails
  BY <1>6 DEF LeaveConf, RewriteConf, ConfFails, ConfDiffers
<1>7. CASE StopMariaDB \/ RunMariaDB \/ RunFails
  BY <1>7 DEF StopMariaDB, RunMariaDB, RunFails, MayStart, Supervisor!Free
<1>8. CASE TouchPrepared
  BY <1>8 DEF TouchPrepared
<1>9. CASE MariaDBEnds \/ PublishEnd
  BY <1>9 DEF MariaDBEnds, PublishEnd
<1>10. ASSUME NEW t \in Targets, Serve(t) PROVE Converged'
  BY <1>10 DEF Serve
<1>11. CASE AgentDies
  BY <1>11 DEF AgentDies
<1>12. CASE UNCHANGED vars
  BY <1>12 DEF vars
<1> QED BY <1>1, <1>2, <1>3, <1>4, <1>5, <1>6, <1>7, <1>8, <1>9, <1>10, <1>11, <1>12
        DEF Next

\* Once MariaDB runs as asked and every heartbeat knows it, the agent leaves it alone
\* (bootstrap_new_cluster.go:49-58, hb.go:133-189).
THEOREM ConvergedStaysHolds == Spec => ConvergedStays
<1>1. TypeOK /\ [Next]_vars
        => [Converged => Converged' \/ ~alive' \/ served' # served]_vars
  BY ConvergedStep
<1> QED BY <1>1, AgentTypeInit, AgentTypeStep, PTL DEF Spec, ConvergedStays

-------------------------------------------------------------------------------
(* The abstract agent.                                                     *)

\* A reconcile that has got past Collect is one that acts, past configureGalera
\* the file is what the target state asks for; a collection holds no flag that
\* is not set, and none is made for sending while a heartbeat is sent.
PromiseInv ==
  /\ pc \in {"collected", "stopping", "starting"} => Acts(ts)
  /\ pc \in {"stopping", "starting"} => conf = ts.incoming
  /\ alive => inForce \in Peers
  /\ \A w \in Collector : col[w].got.prepared => prepared
  /\ col["heartbeat"].phase # "idle" => sending = None

LEMMA PromiseInvStep == TypeOK /\ PromiseInv /\ [Next]_vars => PromiseInv'
<1> SUFFICES ASSUME TypeOK, PromiseInv, [Next]_vars PROVE PromiseInv'
  OBVIOUS
<1> USE DEF TypeOK, PromiseInv, loop, collector, files, mariadb
<1>1. ASSUME NEW w \in Collector, CollectFiles(w) PROVE PromiseInv'
  <2>1. \A v \in Collector : col'[v].got.prepared = (IF v = w THEN prepared
                                                     ELSE col[v].got.prepared)
    BY <1>1 DEF CollectFiles, Collection, Fact
  <2>2. \A v \in Collector : v # w => col'[v] = col[v]
    BY <1>1 DEF CollectFiles
  <2> QED BY <1>1, <2>1, <2>2 DEF CollectFiles, Collector
<1>2. ASSUME NEW w \in Collector, CollectStatus(w) PROVE PromiseInv'
  <2>1. \A v \in Collector : col'[v].got.prepared = col[v].got.prepared
    BY <1>2 DEF CollectStatus, Collection, Fact
  <2>2. \A v \in Collector : v # w => col'[v] = col[v]
    BY <1>2 DEF CollectStatus
  <2> QED BY <1>2, <2>1, <2>2 DEF CollectStatus, Collector
<1>3. ASSUME NEW w \in Collector, CollectDone(w) PROVE PromiseInv'
  <2>1. \A v \in Collector : col'[v].got.prepared => col[v].got.prepared
    BY <1>3 DEF CollectDone, Collection, NoFact
  <2>2. \A v \in Collector : v # w => col'[v] = col[v]
    BY <1>3 DEF CollectDone
  <2>3. col'[w].phase = "idle"
    BY <1>3 DEF CollectDone, Collection
  <2> QED BY <1>3, <2>1, <2>2, <2>3 DEF CollectDone, Collector
<1>4. CASE SendHeartbeat
  BY <1>4 DEF SendHeartbeat
<1>5. CASE Fetch \/ TakeFact
  BY <1>5 DEF Fetch, TakeFact
<1>6. CASE LeaveConf \/ RewriteConf \/ ConfFails
  BY <1>6 DEF LeaveConf, RewriteConf, ConfFails, ConfDiffers
<1>7. CASE StopMariaDB \/ RunFails
  BY <1>7 DEF StopMariaDB, RunFails, MayStart, Supervisor!Free
<1>8. CASE RunMariaDB
  <2>1. \A v \in Collector : col'[v].got.prepared = col[v].got.prepared
    BY <1>8 DEF RunMariaDB, Collection, Fact
  <2>2. inForce' \in Peers
    BY <1>8 DEF RunMariaDB, MayStart, Supervisor!Free, Target
  <2>3. \A v \in Collector : col'[v].phase = col[v].phase
    BY <1>8 DEF RunMariaDB, Collection, Fact
  <2> QED BY <1>8, <2>1, <2>2, <2>3 DEF RunMariaDB, Collector
<1>9. CASE TouchPrepared
  BY <1>9 DEF TouchPrepared
<1>10. CASE MariaDBEnds \/ PublishEnd
  BY <1>10 DEF MariaDBEnds, PublishEnd
<1>11. ASSUME NEW t \in Targets, Serve(t) PROVE PromiseInv'
  BY <1>11 DEF Serve
<1>12. CASE AgentDies
  <2>1. \A w \in Collector : ~NoCollection[w].got.prepared /\ NoCollection[w].phase = "idle"
    BY DEF NoCollection, NoFact
  <2> QED BY <1>12, <2>1 DEF AgentDies, Collector
<1>13. CASE UNCHANGED vars
  BY <1>13 DEF vars
<1> QED BY <1>1, <1>2, <1>3, <1>4, <1>5, <1>6, <1>7, <1>8, <1>9, <1>10, <1>11,
           <1>12, <1>13 DEF Next

LEMMA OnlyThis == ASSUME NEW x, NEW y
                  PROVE  /\ This(x)["this"] = x
                         /\ [This(x) EXCEPT !["this"] = y] = This(y)
BY DEF This

LEMMA PromiseInit == Init => Promise!Init
<1> SUFFICES ASSUME Init PROVE Promise!Init
  OBVIOUS
<1>1. This({served}) \in [{"this"} -> SUBSET Target]
  BY DEF Init, This
<1> QED BY <1>1 DEF Init, Promise!Init, This, Target, Promise!Target

LEMMA PromiseStep ==
  TypeOK /\ PromiseInv /\ [Next]_vars
    => [Promise!Next]_<<This({served}), Promise!agents>>
<1> SUFFICES ASSUME TypeOK, PromiseInv, Next
             PROVE  Promise!Next \/ UNCHANGED <<This({served}), Promise!agents>>
  BY DEF vars, loop, collector, files, mariadb, Promise!agents, This
<1> USE DEF TypeOK, PromiseInv, loop, collector, files, mariadb, This
<1>a. ASSUME Promise!AgentStep("this"), UNCHANGED served PROVE Promise!Next
  BY <1>a DEF Promise!Next
<1>b. ASSUME UNCHANGED <<served, loop, sending, alive, inForce, prepared>>
      PROVE  UNCHANGED <<This({served}), Promise!agents>>
  BY <1>b DEF Promise!agents
<1>1. ASSUME NEW w \in Collector, CollectFiles(w) \/ CollectStatus(w)
      PROVE  UNCHANGED <<This({served}), Promise!agents>>
  BY <1>1, <1>b DEF CollectFiles, CollectStatus
<1>2. ASSUME NEW w \in Collector, CollectDone(w)
      PROVE  Promise!Next \/ UNCHANGED <<This({served}), Promise!agents>>
  <2>1. CASE w = "reconcile"
    BY <1>2, <2>1, <1>b DEF CollectDone
  <2>2. CASE w = "heartbeat"
    <3>1. PICK x \in {"other"} \cup {y \in {"Primary"} : alive} :
            sending' = [prepared |-> col["heartbeat"].got.prepared, wsrep |-> x]
      BY <1>2, <2>2 DEF CollectDone
    <3> DEFINE p == col["heartbeat"].got.prepared
    <3>2. p \in {FALSE, prepared}
      <4>1. p \in BOOLEAN /\ (p => prepared)
        BY DEF Collection, Fact, Collector
      <4> QED BY <4>1
    <3>3. x \in {"other"} \cup {y \in {"Primary"} : This(IF alive THEN inForce ELSE None)["this"] # None}
      BY <3>1, NoneAssumption
    <3>4. UNCHANGED <<pc, ts, alive, inForce, prepared, served>>
      BY <1>2 DEF CollectDone
    <3>5. This(sending)["this"] = None
      BY <1>2, <2>2 DEF CollectDone, Collector
    <3>6. This(sending') = [This(sending) EXCEPT !["this"] = [prepared |-> p, wsrep |-> x]]
      BY <3>1
    <3> HIDE DEF p
    <3>7. Promise!Collect("this")
      BY <3>2, <3>3, <3>4, <3>5, <3>6 DEF Promise!Collect
    <3> QED BY <3>7, <1>a, <3>4 DEF Promise!AgentStep
  <2> QED BY <2>1, <2>2 DEF Collector
<1>3. CASE SendHeartbeat
  <2>1. Promise!Send("this")
    BY <1>3 DEF SendHeartbeat, Promise!Send
  <2> QED BY <2>1, <1>a, <1>3 DEF SendHeartbeat, Promise!AgentStep
<1>4. CASE Fetch
  <2>1. Promise!Fetch("this")
    BY <1>4 DEF Fetch, Promise!Fetch
  <2> QED BY <2>1, <1>a, <1>4 DEF Fetch, Promise!AgentStep
<1>5. ASSUME pc \in {"fetched", "collected", "starting"}, pc' = "idle",
             UNCHANGED <<served, ts, sending, alive, inForce, prepared>>
      PROVE  Promise!Next
  <2>1. Promise!GiveUp("this")
    BY <1>5 DEF Promise!GiveUp
  <2> QED BY <2>1, <1>a, <1>5 DEF Promise!AgentStep
<1>6. ASSUME pc \in {"fetched", "collected", "stopping"},
             pc' \in {"collected", "stopping", "starting"},
             UNCHANGED <<served, ts, sending, alive, inForce, prepared>>
      PROVE  UNCHANGED <<This({served}), Promise!agents>>
  BY <1>6 DEF Promise!agents
<1>7. CASE TakeFact \/ LeaveConf \/ RewriteConf \/ ConfFails
  <2>1. /\ pc \in {"fetched", "collected"}
        /\ pc' \in {"idle", "collected", "stopping"}
        /\ UNCHANGED <<served, ts, sending, alive, inForce, prepared>>
    BY <1>7 DEF TakeFact, LeaveConf, RewriteConf, ConfFails
  <2> QED BY <2>1, <1>5, <1>6
<1>8. CASE StopMariaDB
  BY <1>8, <1>6 DEF StopMariaDB
<1>9. CASE RunFails
  BY <1>9, <1>5 DEF RunFails, MayStart, Supervisor!Free
<1>10. CASE RunMariaDB
  <2>1. Promise!Launch("this")
    BY <1>10 DEF RunMariaDB, MayStart, Supervisor!Free, Promise!Launch, Promise!Acts,
                    Acts
  <2> QED BY <2>1, <1>a, <1>10 DEF RunMariaDB, Promise!AgentStep
<1>11. CASE TouchPrepared
  <2>1. Promise!Finish("this")
    BY <1>11 DEF TouchPrepared, Promise!Finish
  <2> QED BY <2>1, <1>a, <1>11 DEF TouchPrepared, Promise!AgentStep
<1>12. CASE MariaDBEnds
  <2>1. Promise!End("this")
    BY <1>12 DEF MariaDBEnds, Promise!End
  <2> QED BY <2>1, <1>a, <1>12 DEF MariaDBEnds, Promise!AgentStep
<1>13. CASE PublishEnd
  BY <1>13, <1>b DEF PublishEnd
<1>14. ASSUME NEW t \in Targets, Serve(t) PROVE Promise!Next
  <2>1. This({served'}) \in [{"this"} -> SUBSET Promise!Target]
    BY <1>14 DEF Serve, Target, Promise!Target
  <2>2. Promise!Serve /\ UNCHANGED Promise!agents
    BY <1>14, <2>1 DEF Serve, Promise!Serve, Promise!agents
  <2> QED BY <2>2 DEF Promise!Next
<1>15. CASE AgentDies
  <2>1. Promise!Die("this")
    BY <1>15 DEF AgentDies, Promise!Die
  <2> QED BY <2>1, <1>a, <1>15 DEF AgentDies, Promise!AgentStep
<1> QED BY <1>1, <1>2, <1>3, <1>4, <1>7, <1>8, <1>9, <1>10, <1>11, <1>12, <1>13,
           <1>14, <1>15 DEF Next

\* Agent implements AgentPromise, for any target states and lists of addresses
\* (handler.go:86-99, bootstrap_new_cluster.go:49-70, hb.go:165-189).
THEOREM PromiseKeptHolds == Spec => PromiseKept
<1>1. Init => PromiseInv
  BY DEF Init, PromiseInv, NoCollection, NoFact
<1> QED BY <1>1, AgentTypeInit, AgentTypeStep, PromiseInvStep, PromiseInit,
           PromiseStep, PTL DEF Spec, PromiseKept, Promise!Spec
===============================================================================
