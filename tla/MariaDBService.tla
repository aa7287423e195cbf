----------------------------- MODULE MariaDBService -----------------------------
(***************************************************************************)
(* The agent's MariaDB service: ParseGraState, which reads the lines of    *)
(* grastate.dat, and Databases, Users and GetWsrepInfo, which read the     *)
(* rows of a query.  Each reads its lines or rows one after another, stops *)
(* at the first it cannot take, and may lose the file or the connection    *)
(* between two of them.  Only GetWsrepInfo is called, by the heartbeat     *)
(* collector.  They keep nothing between calls, so a behaviour is a call.  *)
(*                                                                         *)
(* A line or row is an item: a key with its value.  The key of a line      *)
(* without exactly one colon, or of a row that does not scan, is "bad";    *)
(* "other" stands for comments, empty lines and keys nobody asks for.      *)
(***************************************************************************)
EXTENDS Integers, Sequences

CONSTANTS
  Value,     \* values of lines and rows
  Number,    \* those that strconv.Atoi takes
  MaxItems   \* bound on the lines of a file and the rows of a query

ASSUME NumberAssumption == Number \subseteq Value
ASSUME DefaultsAssumption == {"", "0", "-1"} \subseteq Value /\ "" \notin Number
ASSUME MaxItemsAssumption == MaxItems \in Nat

VARIABLES
  op,       \* the function called
  items,    \* the lines or rows there are
  pos,      \* how many of them were taken
  phase,    \* "called", "reading" or "returned"
  failed,   \* whether it returned an error
  values,   \* the values it looks for, by key
  list      \* the list it makes

vars == <<op, items, pos, phase, failed, values, list>>

Lists == {"Databases", "Users"}
Op == {"ParseGraState", "GetWsrepInfo"} \cup Lists

\* The keys each function looks for, and what it returns of one it does not find.
GraKey == {"seqno", "safe_to_bootstrap"}
WsrepKey == {"WSREP_CLUSTER_STATUS", "WSREP_CLUSTER_SIZE", "WSREP_INCOMING_ADDRESSES"}
Key(o) == CASE o = "ParseGraState" -> GraKey
            [] o = "GetWsrepInfo"  -> WsrepKey
            [] OTHER               -> {}

Default == [k \in GraKey \cup WsrepKey |->
              IF k = "seqno" THEN "-1" ELSE IF k = "safe_to_bootstrap" THEN "0" ELSE ""]

Item(o) == [key : Key(o) \cup {"other", "bad"}, value : Value]

\* utils.Atoi: what is no number reads as 0.
Atoi(v) == IF v \in Number THEN v ELSE "0"

TypeOK ==
  /\ op \in Op
  /\ items \in Seq(Item(op))
  /\ pos \in 0 .. Len(items)
  /\ phase \in {"called", "reading", "returned"}
  /\ failed \in BOOLEAN
  /\ values \in [GraKey \cup WsrepKey -> Value]
  /\ list \in Seq(Value)

Init ==
  /\ op \in Op
  /\ \E n \in 0 .. MaxItems : items \in [1 .. n -> Item(op)]
  /\ pos = 0 /\ phase = "called" /\ failed = FALSE
  /\ values = Default /\ list = <<>>

-------------------------------------------------------------------------------
\* The file, or the database and the rows of the query, are opened.
Open ==
  /\ phase = "called"
  /\ phase' = "reading"
  /\ UNCHANGED <<op, items, pos, failed, values, list>>

\* Opening the file fails, or opening the database, pinging it, preparing or
\* querying.
OpenFails ==
  /\ phase = "called"
  /\ phase' = "returned" /\ failed' = TRUE
  /\ UNCHANGED <<op, items, pos, values, list>>

Upcoming == items[pos + 1]

Reads(o) == phase = "reading" /\ op = o /\ pos < Len(items)

\* Mutant: a key keeps the first value it was given.
TakeFirstValue(o) ==
  /\ Reads(o)
  /\ Upcoming.key # "bad"
  /\ pos' = pos + 1
  /\ values' = IF Upcoming.key \in Key(o) /\ values[Upcoming.key] = Default[Upcoming.key]
               THEN [values EXCEPT ![Upcoming.key] = Upcoming.value] ELSE values
  /\ UNCHANGED <<op, items, phase, failed, list>>

\* A line of grastate.dat, or a status variable: a later value replaces an
\* earlier one of the same key.
TakeValue(o) ==
  /\ Reads(o)
  /\ Upcoming.key # "bad"
  /\ pos' = pos + 1
  /\ values' = IF Upcoming.key \in Key(o)
               THEN [values EXCEPT ![Upcoming.key] = Upcoming.value] ELSE values
  /\ UNCHANGED <<op, items, phase, failed, list>>

\* A database or a user.
TakeRow(o) ==
  /\ Reads(o)
  /\ Upcoming.key # "bad"
  /\ pos' = pos + 1
  /\ list' = Append(list, Upcoming.value)
  /\ UNCHANGED <<op, items, phase, failed, values>>

\* The functions return an error: ParseGraState with what it has read so far,
\* the others with nothing.
Fail ==
  /\ phase' = "returned" /\ failed' = TRUE
  /\ values' = IF op = "ParseGraState" THEN values ELSE Default
  /\ list' = <<>>
  /\ UNCHANGED <<op, items, pos>>

\* A line or row it cannot take.  (Scan never returns the ErrNoRows that Databases
\* asks for; only QueryRow does.)
BadItem ==
  /\ phase = "reading" /\ pos < Len(items)
  /\ Upcoming.key = "bad"
  /\ Fail

\* The end of the loop without an error; GetWsrepInfo converts the size.
Succeed ==
  /\ phase' = "returned"
  /\ values' = IF op = "GetWsrepInfo"
               THEN [values EXCEPT !["WSREP_CLUSTER_SIZE"] = Atoi(@)] ELSE values
  /\ UNCHANGED <<op, items, pos, failed, list>>

End ==
  /\ phase = "reading" /\ pos = Len(items)
  /\ Succeed

\* Mutant: no function asks rows.Err() or scanner.Err() after its loop.
BreaksSilently == phase = "reading" /\ Succeed

\* The file or the connection is lost.  GetWsrepInfo is the one that does not ask
\* rows.Err() and returns what it has got.
Breaks ==
  /\ phase = "reading"
  /\ \/ op = "GetWsrepInfo" /\ Succeed
     \/ op # "GetWsrepInfo" /\ Fail

Next ==
  \/ Open \/ OpenFails
  \/ TakeValue("ParseGraState") \/ TakeValue("GetWsrepInfo")
  \/ \E o \in Lists : TakeRow(o)
  \/ BadItem \/ End \/ Breaks

Spec == Init /\ [][Next]_vars

-------------------------------------------------------------------------------
(* Safety.                                                                 *)

(* A result without an error is whole: every line or row was taken, and a  *)
(* list holds all rows in their order.  GetWsrepInfo promises no such      *)
(* thing: a lost connection looks like the end of its rows                 *)
(* (mariadb.go:55-59, 103-107, 154-158, and 200-217 without).              *)
NothingLeftOut ==
  phase = "returned" /\ ~failed /\ op # "GetWsrepInfo" =>
    /\ pos = Len(items)
    /\ \A i \in 1 .. pos : items[i].key # "bad"
    /\ op \in Lists => /\ Len(list) = Len(items)
                       /\ \A i \in 1 .. Len(items) : list[i] = items[i].value

\* v is the last value of k among the items taken, or d if they have none.
IsLast(k, d, v) ==
  \/ \E i \in 1 .. pos : /\ items[i].key = k
                         /\ items[i].value = v
                         /\ \A j \in (i + 1) .. pos : items[j].key # k
  \/ v = d /\ \A i \in 1 .. pos : items[i].key # k

(* Whatever was lost, what is returned of a key is the last value that was *)
(* read of it, or its default: an interrupted GetWsrepInfo may say less    *)
(* than the server, never something else, and a broken grastate.dat is     *)
(* read up to the break (mariadb.go:19-20, 45-52, 200-216).                *)
LastValueCounts ==
  phase = "returned" /\ (op = "ParseGraState" \/ ~failed) =>
    \A k \in Key(op) :
      IF k = "WSREP_CLUSTER_SIZE"
      THEN \E v \in Value : IsLast(k, Default[k], v) /\ values[k] = Atoi(v)
      ELSE IsLast(k, Default[k], values[k])
===============================================================================
