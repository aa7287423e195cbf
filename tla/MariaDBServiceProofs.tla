-------------------------- MODULE MariaDBServiceProofs --------------------------
(***************************************************************************)
(* What MariaDBService's results rest on, for files and queries of any     *)
(* length: the invariant of its loops.                                     *)
(***************************************************************************)
EXTENDS MariaDBService, TLAPS

\* What the loops have made of the items they have taken.
Taken ==
  /\ \A i \in 1 .. pos : items[i].key # "bad"
  /\ \A k \in Key(op) : IsLast(k, Default[k], values[k])
  /\ op \in Lists => /\ Len(list) = pos
                     /\ \A i \in 1 .. pos : list[i] = items[i].value

LoopInv ==
  /\ phase = "called" => pos = 0 /\ ~failed /\ values = Default /\ list = <<>>
  /\ phase = "reading" => ~failed /\ Taken

IInv == TypeOK /\ LoopInv /\ NothingLeftOut /\ LastValueCounts

LEMMA KeysAreKeys == \A o \in Op : Key(o) \subseteq GraKey \cup WsrepKey
BY DEF Key, Op, Lists, GraKey, WsrepKey

LEMMA UpcomingType ==
  ASSUME TypeOK, pos < Len(items)
  PROVE  /\ pos \in Nat /\ Len(items) \in Nat
         /\ Upcoming \in Item(op) /\ Upcoming.value \in Value
<1>1. items \in Seq(Item(op)) /\ pos \in 0 .. Len(items)
  BY DEF TypeOK
<1>2. pos \in Nat /\ Len(items) \in Nat
  BY <1>1
<1>3. Upcoming \in Item(op)
  BY <1>1, <1>2 DEF Upcoming
<1> QED BY <1>2, <1>3 DEF Item

LEMMA DefaultType == Default \in [GraKey \cup WsrepKey -> Value]
BY DefaultsAssumption DEF Default, GraKey, WsrepKey

LEMMA NoSizeInGraState == "WSREP_CLUSTER_SIZE" \notin Key("ParseGraState")
BY DEF Key, GraKey

LEMMA InitIInv == Init => IInv
<1> SUFFICES ASSUME Init PROVE IInv
  OBVIOUS
<1>1. items \in Seq(Item(op)) /\ Len(items) \in Nat
  <2>1. PICK n \in 0 .. MaxItems : items \in [1 .. n -> Item(op)]
    BY DEF Init
  <2>2. n \in Nat
    BY <2>1, MaxItemsAssumption
  <2> QED BY <2>1, <2>2
<1>2. TypeOK
  <2>1. pos \in 0 .. Len(items)
    BY <1>1 DEF Init
  <2>2. values \in [GraKey \cup WsrepKey -> Value] /\ list \in Seq(Value)
    BY DefaultType DEF Init
  <2> QED BY <1>1, <2>1, <2>2 DEF Init, TypeOK
<1>3. LoopInv /\ NothingLeftOut /\ LastValueCounts
  BY DEF Init, LoopInv, NothingLeftOut, LastValueCounts
<1> QED BY <1>2, <1>3 DEF IInv

LEMMA OpenStep == ASSUME IInv, Open PROVE IInv'
<1>1. TypeOK'
  BY DEF Open, IInv, TypeOK
<1>2. Taken'
  <2>1. pos' = 0 /\ values' = Default /\ list' = <<>>
    BY DEF Open, IInv, LoopInv
  <2> QED BY <2>1 DEF Taken, IsLast
<1>3. LoopInv'
  BY <1>2 DEF Open, IInv, LoopInv
<1>4. NothingLeftOut' /\ LastValueCounts'
  BY DEF Open, NothingLeftOut, LastValueCounts
<1> QED BY <1>1, <1>3, <1>4 DEF IInv

\* A value that was not found is its default; only ParseGraState returns it with
\* an error.
LEMMA OpenFailsStep == ASSUME IInv, OpenFails PROVE IInv'
<1>1. TypeOK'
  BY DEF OpenFails, IInv, TypeOK
<1>2. LoopInv' /\ NothingLeftOut'
  BY DEF OpenFails, LoopInv, NothingLeftOut
<1>3. LastValueCounts'
  <2>1. pos' = 0 /\ values' = Default /\ failed'
    BY DEF OpenFails, IInv, LoopInv
  <2>2. op' = "ParseGraState" => \A k \in Key(op') : k # "WSREP_CLUSTER_SIZE"
    BY NoSizeInGraState
  <2> QED BY <2>1, <2>2 DEF LastValueCounts, IsLast
<1> QED BY <1>1, <1>2, <1>3 DEF IInv

\* One more item and its value, if its key is one looked for.
LEMMA TakeValueStep ==
  ASSUME IInv, NEW o \in {"ParseGraState", "GetWsrepInfo"}, TakeValue(o)
  PROVE  IInv'
<1>0. /\ IInv /\ op = o /\ op \in Op /\ op \notin Lists /\ phase = "reading"
      /\ pos \in Nat /\ pos < Len(items) /\ pos' = pos + 1 /\ items' = items /\ op' = op
      /\ Upcoming \in Item(op) /\ Upcoming.value \in Value
      /\ Upcoming.key # "bad" /\ Len(items) \in Nat
  <2>1. IInv /\ op = o /\ phase = "reading" /\ pos < Len(items) /\ pos' = pos + 1
        /\ items' = items /\ op' = op /\ Upcoming.key # "bad"
    BY DEF TakeValue, Reads
  <2>2. op \in Op /\ op \notin Lists
    BY <2>1 DEF Op, Lists
  <2> QED BY <2>1, <2>2, UpcomingType DEF IInv
<1>1. TypeOK'
  BY <1>0, KeysAreKeys DEF TakeValue, IInv, TypeOK
<1>2. \A k \in Key(op) : IsLast(k, Default[k], values[k])'
  <2>1. SUFFICES ASSUME NEW k \in Key(op)
                 PROVE  IsLast(k, Default[k], values[k])'
    OBVIOUS
  <2>2. IsLast(k, Default[k], values[k])
    BY <1>0 DEF IInv, LoopInv, Taken
  <2>3. CASE Upcoming.key = k
    <3>1. values'[k] = items[pos + 1].value
      BY <1>0, <2>3, KeysAreKeys DEF TakeValue, IInv, TypeOK, Upcoming
    <3> QED BY <1>0, <2>3, <3>1 DEF IsLast, Upcoming
  <2>4. CASE Upcoming.key # k
    <3>1. values'[k] = values[k]
      BY <1>0, <2>4, KeysAreKeys DEF TakeValue, IInv, TypeOK
    <3> QED BY <1>0, <2>2, <2>4, <3>1 DEF IsLast, Upcoming
  <2> QED BY <2>3, <2>4
<1>3. Taken'
  BY <1>0, <1>2 DEF IInv, LoopInv, Taken, Upcoming
<1>4. LoopInv' /\ NothingLeftOut' /\ LastValueCounts'
  BY <1>0, <1>3 DEF TakeValue, IInv, LoopInv, NothingLeftOut, LastValueCounts
<1> QED BY <1>1, <1>4 DEF IInv

LEMMA TakeRowStep ==
  ASSUME IInv, NEW o \in Lists, TakeRow(o)
  PROVE  IInv'
<1>0. /\ IInv /\ op = o /\ op \in Lists /\ phase = "reading"
      /\ pos \in Nat /\ pos < Len(items) /\ pos' = pos + 1 /\ items' = items /\ op' = op
      /\ Upcoming.value \in Value /\ list \in Seq(Value) /\ Key(op) = {}
      /\ Upcoming.key # "bad" /\ Len(items) \in Nat
  <2>1. IInv /\ op = o /\ op \in Lists /\ phase = "reading" /\ pos < Len(items)
        /\ pos' = pos + 1 /\ items' = items /\ op' = op /\ Upcoming.key # "bad"
    BY DEF TakeRow, Reads
  <2>2. Key(op) = {}
    BY <2>1 DEF Key, Lists
  <2>3. list \in Seq(Value)
    BY DEF IInv, TypeOK
  <2> QED BY <2>1, <2>2, <2>3, UpcomingType DEF IInv
<1>1. TypeOK'
  BY <1>0 DEF TakeRow, IInv, TypeOK
<1>2. Taken'
  <2>1. Len(list) = pos /\ \A i \in 1 .. pos : list[i] = items[i].value
    BY <1>0 DEF IInv, LoopInv, Taken
  <2>2. Len(list') = pos + 1 /\ \A i \in 1 .. pos + 1 : list'[i] = items[i].value
    BY <1>0, <2>1 DEF TakeRow, Upcoming
  <2> QED BY <1>0, <2>2 DEF IInv, LoopInv, Taken, Upcoming
<1>3. LoopInv' /\ NothingLeftOut' /\ LastValueCounts'
  BY <1>0, <1>2 DEF TakeRow, IInv, LoopInv, NothingLeftOut, LastValueCounts
<1> QED BY <1>1, <1>3 DEF IInv

\* An error returned out of the loop.
LEMMA FailStep == ASSUME IInv, phase = "reading", Fail PROVE IInv'
<1>1. TypeOK'
  BY DefaultType DEF Fail, IInv, TypeOK
<1>2. LoopInv' /\ NothingLeftOut'
  BY DEF Fail, LoopInv, NothingLeftOut
<1>3. LastValueCounts'
  <2>1. CASE op = "ParseGraState"
    <3>1. \A k \in Key(op) : k # "WSREP_CLUSTER_SIZE" /\ IsLast(k, Default[k], values[k])
      BY <2>1, NoSizeInGraState DEF IInv, LoopInv, Taken
    <3> QED BY <2>1, <3>1 DEF Fail, LastValueCounts, IsLast
  <2>2. CASE op # "ParseGraState"
    BY <2>2 DEF Fail, LastValueCounts
  <2> QED BY <2>1, <2>2
<1> QED BY <1>1, <1>2, <1>3 DEF IInv

\* A result without an error, at the end of the items or, for GetWsrepInfo, before.
LEMMA SucceedStep ==
  ASSUME IInv, phase = "reading", Succeed, op = "GetWsrepInfo" \/ pos = Len(items)
  PROVE  IInv'
<1>0. /\ Taken /\ values \in [GraKey \cup WsrepKey -> Value] /\ op \in Op
      /\ Key(op) \subseteq GraKey \cup WsrepKey
      /\ "WSREP_CLUSTER_SIZE" \in GraKey \cup WsrepKey
  BY KeysAreKeys DEF IInv, LoopInv, TypeOK, WsrepKey
<1>1. TypeOK'
  BY <1>0, NumberAssumption, DefaultsAssumption DEF Succeed, IInv, TypeOK, Atoi
<1>2. LoopInv' /\ NothingLeftOut'
  BY <1>0 DEF Succeed, LoopInv, NothingLeftOut, Taken
<1>3. LastValueCounts'
  <2>1. SUFFICES ASSUME NEW k \in Key(op)
                 PROVE  IF k = "WSREP_CLUSTER_SIZE"
                        THEN \E v \in Value : /\ IsLast(k, Default[k], v)
                                              /\ values'[k] = Atoi(v)
                        ELSE IsLast(k, Default[k], values'[k])
    BY DEF Succeed, LastValueCounts, IsLast
  <2>2. IsLast(k, Default[k], values[k]) /\ values[k] \in Value
    BY <1>0 DEF Taken
  <2>3. CASE k = "WSREP_CLUSTER_SIZE"
    <3>1. op = "GetWsrepInfo"
      BY <1>0, <2>3 DEF Key, Op, Lists, GraKey
    <3>2. values'[k] = Atoi(values[k])
      BY <1>0, <2>3, <3>1 DEF Succeed
    <3> QED BY <2>2, <2>3, <3>2
  <2>4. CASE k # "WSREP_CLUSTER_SIZE"
    <3>1. values'[k] = values[k]
      BY <1>0, <2>4 DEF Succeed
    <3> QED BY <2>2, <2>4, <3>1
  <2> QED BY <2>3, <2>4
<1> QED BY <1>1, <1>2, <1>3 DEF IInv

LEMMA IInvStep == IInv /\ [Next]_vars => IInv'
<1> SUFFICES ASSUME IInv, [Next]_vars PROVE IInv'
  OBVIOUS
<1>1. CASE Open \/ OpenFails
  BY <1>1, OpenStep, OpenFailsStep
<1>2. CASE TakeValue("ParseGraState") \/ TakeValue("GetWsrepInfo")
  BY <1>2, TakeValueStep
<1>3. CASE \E o \in Lists : TakeRow(o)
  BY <1>3, TakeRowStep
<1>4. CASE BadItem \/ End \/ Breaks
  BY <1>4, FailStep, SucceedStep DEF BadItem, End, Breaks
<1>5. CASE UNCHANGED vars
  BY <1>5 DEF vars, IInv, TypeOK, LoopInv, Taken, NothingLeftOut, LastValueCounts, IsLast
<1> QED BY <1>1, <1>2, <1>3, <1>4, <1>5 DEF Next

LEMMA Inductive == Spec => []IInv
BY InitIInv, IInvStep, PTL DEF Spec

(* The functions' state keeps its type, for files and queries of any       *)
(* length: no loop reads past the end of its items.                        *)
THEOREM TypeCorrect == Spec => []TypeOK
<1>1. IInv => TypeOK
  BY DEF IInv
<1> QED BY <1>1, Inductive, PTL

(* For files and queries of any length, a result without an error is whole *)
(* (mariadb.go:55-59, 103-107, 154-158).                                   *)
THEOREM NothingLeftOutHolds == Spec => []NothingLeftOut
<1>1. IInv => NothingLeftOut
  BY DEF IInv
<1> QED BY <1>1, Inductive, PTL

(* For files and queries of any length, wherever they break, what is       *)
(* returned of a key is the last value read of it or its default           *)
(* (mariadb.go:45-52, 200-216).                                            *)
THEOREM LastValueCountsHolds == Spec => []LastValueCounts
<1>1. IInv => LastValueCounts
  BY DEF IInv
<1> QED BY <1>1, Inductive, PTL
===============================================================================
