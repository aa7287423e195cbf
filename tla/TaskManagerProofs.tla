--------------------------- MODULE TaskManagerProofs ---------------------------
(***************************************************************************)
(* What TaskManager's safety rests on, for any tasks: whatever is started  *)
(* was started after galera.cnf became right, and that happens once.       *)
(***************************************************************************)
EXTENDS TaskManager, TLAPS

\* MariaDB and its status are traces of a start, and a start of a right file.
OnceStarted ==
  /\ alive \/ status # "unknown" => started
  /\ started => conf = "right"
  /\ pc \in {"stopping", "starting"} => conf = "right"

IInv == TypeOK /\ OnceStarted /\ BootstrapsOnce

LEMMA InitIInv == Init => IInv
BY DEF Init, IInv, TypeOK, OnceStarted, BootstrapsOnce

\* The iteration's steps, up to the start of MariaDB.
LEMMA IterationStep ==
  ASSUME IInv,
         \/ \E t \in Task \cup {NoTask} : GetNextTask(t)
         \/ Handle \/ LeaveConf \/ RewriteConf \/ ConfFails
         \/ StopMariaDB \/ RunMariaDB
  PROVE  IInv'
<1>0. IInv
  OBVIOUS
<1>1. CASE \E t \in Task \cup {NoTask} : GetNextTask(t)
  BY <1>0, <1>1 DEF GetNextTask, IInv, TypeOK, OnceStarted, BootstrapsOnce, mariadb
<1>2. CASE Handle \/ LeaveConf
  BY <1>0, <1>2 DEF Handle, LeaveConf, IInv, TypeOK, OnceStarted, BootstrapsOnce, mariadb
<1>3. CASE RewriteConf
  BY <1>0, <1>3 DEF RewriteConf, IInv, TypeOK, OnceStarted, BootstrapsOnce, mariadb
<1>4. CASE ConfFails
  BY <1>0, <1>4 DEF ConfFails, IInv, TypeOK, OnceStarted, BootstrapsOnce, mariadb
<1>5. CASE StopMariaDB
  BY <1>0, <1>5 DEF StopMariaDB, IInv, TypeOK, OnceStarted, BootstrapsOnce
<1>6. CASE RunMariaDB
  BY <1>0, <1>6 DEF RunMariaDB, IInv, TypeOK, OnceStarted, BootstrapsOnce
<1> QED BY <1>1, <1>2, <1>3, <1>4, <1>5, <1>6

LEMMA SurroundingStep ==
  ASSUME IInv, MariaDBEnds \/ PublishEnd \/ AgentDies \/ UNCHANGED vars
  PROVE  IInv'
<1>0. IInv
  OBVIOUS
<1>1. CASE MariaDBEnds
  BY <1>0, <1>1 DEF MariaDBEnds, IInv, TypeOK, OnceStarted, BootstrapsOnce
<1>2. CASE PublishEnd
  BY <1>0, <1>2 DEF PublishEnd, IInv, TypeOK, OnceStarted, BootstrapsOnce
<1>3. CASE AgentDies
  <2>1. TypeOK'
    BY <1>0, <1>3 DEF AgentDies, IInv, TypeOK
  <2>2. OnceStarted'
    BY <1>0, <1>3 DEF AgentDies, IInv, TypeOK, OnceStarted
  <2>3. BootstrapsOnce'
    BY <1>3 DEF AgentDies, BootstrapsOnce
  <2> QED BY <2>1, <2>2, <2>3 DEF IInv
<1>4. CASE UNCHANGED vars
  BY <1>0, <1>4 DEF vars, mariadb, IInv, TypeOK, OnceStarted, BootstrapsOnce
<1> QED BY <1>1, <1>2, <1>3, <1>4

LEMMA Inductive == Spec => []IInv
<1>1. IInv /\ [Next]_vars => IInv'
  BY IterationStep, SurroundingStep DEF Next
<1> QED BY <1>1, InitIInv, PTL DEF Spec

(* The task manager's state keeps its type whatever the server answers.    *)
THEOREM TypeCorrect == Spec => []TypeOK
<1>1. IInv => TypeOK
  BY DEF IInv
<1> QED BY <1>1, Inductive, PTL

(* Handling the same task for ever bootstraps one Galera cluster only on   *)
(* the same files (bootstrap.go:32-49).                                    *)
THEOREM BootstrapsOnceHolds == Spec => []BootstrapsOnce
<1>1. IInv => BootstrapsOnce
  BY DEF IInv
<1> QED BY <1>1, Inductive, PTL

(* A MariaDB that is down on a right galera.cnf stays down until the       *)
(* container is replaced (bootstrap.go:37-39).                             *)
THEOREM DownForGoodHolds == Spec => DownForGood
<1>1. [Next]_vars => [Down => Down' \/ conf' = "none"]_vars
  <2> SUFFICES ASSUME Next, Down PROVE Down' \/ conf' = "none"
    BY DEF Down
  <2>1. CASE AgentDies \/ MariaDBEnds \/ PublishEnd
    BY <2>1 DEF AgentDies, MariaDBEnds, PublishEnd, Down
  <2>2. CASE StopMariaDB \/ RunMariaDB \/ RewriteConf
    BY <2>2 DEF StopMariaDB, RunMariaDB, RewriteConf, Down
  <2>3. CASE \/ \E t \in Task \cup {NoTask} : GetNextTask(t)
             \/ Handle \/ LeaveConf \/ ConfFails
    BY <2>3 DEF GetNextTask, Handle, LeaveConf, ConfFails, Down, mariadb
  <2> QED BY <2>1, <2>2, <2>3 DEF Next
<1> QED BY <1>1, PTL DEF Spec, DownForGood
===============================================================================
