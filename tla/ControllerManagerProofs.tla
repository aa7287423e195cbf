------------------------ MODULE ControllerManagerProofs ------------------------
(***************************************************************************)
(* What ControllerManager's safety rests on, for any number of             *)
(* controllers, places, resources and requests.                            *)
(***************************************************************************)
EXTENDS ControllerManager, TLAPS

\* An iteration that waits for a place has a resource to start.
WaitsForOne == \A c \in Controller : loop[c] = "send" => todo[c] > 0

IInv == TypeOK /\ WaitsForOne /\ LeavesNoneOut

LEMMA InitIInv == Init => IInv
<1> SUFFICES ASSUME Init PROVE IInv
  OBVIOUS
<1>1. 0 \in 0 .. Places /\ 0 \in Nat
  BY PlacesAssumption
<1>2. TypeOK
  BY <1>1 DEF Init, TypeOK
<1>3. WaitsForOne /\ LeavesNoneOut
  BY DEF Init, WaitsForOne, LeavesNoneOut
<1> QED BY <1>2, <1>3 DEF IInv

LEMMA TickStep ==
  ASSUME IInv, NEW c \in Controller, NEW n \in 0 .. MaxResources, Tick(c, n)
  PROVE  IInv'
<1>0. IInv /\ n \in Nat
  BY BoundsAssumption
<1>1. TypeOK'
  <2>1. earlier[c] + working[c] \in Nat
    BY <1>0, PlacesAssumption DEF IInv, TypeOK
  <2>2. 0 \in 0 .. Places
    BY PlacesAssumption
  <2> QED BY <1>0, <2>1, <2>2 DEF Tick, IInv, TypeOK, api
<1>2. WaitsForOne'
  BY <1>0 DEF Tick, IInv, TypeOK, WaitsForOne
<1>3. LeavesNoneOut'
  BY <1>0 DEF Tick, IInv, TypeOK, LeavesNoneOut
<1> QED BY <1>1, <1>2, <1>3 DEF IInv

\* The steps of an iteration, from resource to resource.
LEMMA IterationStep ==
  ASSUME IInv, NEW c \in Controller,
         CheckContext(c) \/ StartReconcile(c) \/ EndIteration(c)
  PROVE  IInv'
<1>0. IInv
  OBVIOUS
<1>1. CASE CheckContext(c)
  BY <1>0, <1>1 DEF CheckContext, IInv, TypeOK, WaitsForOne, LeavesNoneOut, api
<1>2. CASE StartReconcile(c)
  <2>1. todo[c] - 1 \in Nat
    BY <1>0, <1>2 DEF StartReconcile, IInv, TypeOK, WaitsForOne
  <2>2. working[c] + 1 \in 0 .. Places
    BY <1>0, <1>2, PlacesAssumption DEF StartReconcile, IInv, TypeOK
  <2>3. TypeOK'
    BY <1>0, <1>2, <2>1, <2>2 DEF StartReconcile, IInv, TypeOK, api
  <2>4. WaitsForOne' /\ LeavesNoneOut'
    BY <1>0, <1>2 DEF StartReconcile, IInv, TypeOK, WaitsForOne, LeavesNoneOut
  <2> QED BY <2>3, <2>4 DEF IInv
<1>3. CASE EndIteration(c)
  BY <1>0, <1>3 DEF EndIteration, IInv, TypeOK, WaitsForOne, LeavesNoneOut, api
<1> QED BY <1>1, <1>2, <1>3

LEMMA ReconcileEndsStep ==
  ASSUME IInv, NEW c \in Controller, ReconcileEnds(c)
  PROVE  IInv'
<1>1. TypeOK'
  <2>1. working[c] > 0 => working[c] - 1 \in 0 .. Places
    BY PlacesAssumption DEF IInv, TypeOK
  <2>2. earlier[c] > 0 => earlier[c] - 1 \in Nat
    BY DEF IInv, TypeOK
  <2> QED BY <2>1, <2>2 DEF ReconcileEnds, IInv, TypeOK, api
<1>2. WaitsForOne' /\ LeavesNoneOut'
  BY DEF ReconcileEnds, IInv, WaitsForOne, LeavesNoneOut
<1> QED BY <1>1, <1>2 DEF IInv

\* main and the server never touch the loops, and a cancelled context stays so.
LEMMA OtherStep ==
  ASSUME IInv,
         \/ \E c \in Controller : LoopFails(c)
         \/ Listen \/ ListenFails \/ Shutdown
         \/ \E r \in Request : Arrive(r) \/ Answer(r)
         \/ Signal \/ MainReturns \/ Exit
         \/ UNCHANGED vars
  PROVE  IInv'
<1>1. UNCHANGED loops /\ (cancelled => cancelled')
  BY DEF LoopFails, Listen, ListenFails, Shutdown, Arrive, Answer, Signal,
         MainReturns, Exit, vars, loops
<1>2. TypeOK'
  BY DEF IInv, TypeOK, LoopFails, Listen, ListenFails, Shutdown, Arrive, Answer,
         Signal, MainReturns, Exit, vars, loops, api
<1>3. WaitsForOne' /\ LeavesNoneOut'
  BY <1>1 DEF IInv, WaitsForOne, LeavesNoneOut, loops
<1> QED BY <1>2, <1>3 DEF IInv

LEMMA IInvStep == IInv /\ [Next]_vars => IInv'
<1> SUFFICES ASSUME IInv, [Next]_vars PROVE IInv'
  OBVIOUS
<1>1. ASSUME NEW c \in Controller, ControllerNext(c) PROVE IInv'
  <2>1. CASE \E n \in 0 .. MaxResources : Tick(c, n)
    BY <2>1, TickStep
  <2>2. CASE CheckContext(c) \/ StartReconcile(c) \/ EndIteration(c)
    BY <2>2, IterationStep
  <2>3. CASE ReconcileEnds(c)
    BY <2>3, ReconcileEndsStep
  <2>4. CASE LoopFails(c)
    BY <2>4, OtherStep
  <2> QED BY <1>1, <2>1, <2>2, <2>3, <2>4 DEF ControllerNext
<1>2. CASE ~(\E c \in Controller : ControllerNext(c))
  BY <1>2, OtherStep DEF Next
<1> QED BY <1>1, <1>2

LEMMA Inductive == Spec => []IInv
BY InitIInv, IInvStep, PTL DEF Spec

(* The process's state keeps its type; no limiter holds more reconciles    *)
(* than it has places (controller_manager.go:89-107).                      *)
THEOREM TypeCorrect == Spec => []TypeOK
<1>1. IInv => TypeOK
  BY DEF IInv
<1> QED BY <1>1, Inductive, PTL

(* However many resources a controller lists and however slow reconciles   *)
(* are, an iteration starts one for each unless the process is stopping    *)
(* (controller_manager.go:91-108).                                         *)
THEOREM LeavesNoneOutHolds == Spec => []LeavesNoneOut
<1>1. IInv => LeavesNoneOut
  BY DEF IInv
<1> QED BY <1>1, Inductive, PTL
===============================================================================
