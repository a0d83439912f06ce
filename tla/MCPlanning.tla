----------------------------- MODULE MCPlanning -----------------------------
(* What is decided before rows move: which tables and in which order        *)
(* (Dependencies), with which column types (ColumnTypes), when              *)
(* (ScheduleClock), and between which databases (Endpoints).  The four do   *)
(* not meet in the code.  One run checks them side by side: one of them is  *)
(* at work, the others stand still.                                         *)
EXTENDS Dependencies, ColumnTypes, ScheduleClock, Endpoints, TLC

VARIABLE active

Number(p, s) == [type |-> "NUMBER", prec |-> p, scale |-> s, length |-> 22]
OfLength(T, n) == {[type |-> t, prec |-> 0, scale |-> 0, length |-> n] : t \in T}

AllColumns ==
  {Number(0, Unlimited), Number(0, 0), Number(0, 2), Number(0, -2), Number(4, 0),
   Number(5, 0), Number(9, 0), Number(10, 0), Number(18, 0), Number(19, 0), Number(38, 0),
   Number(10, 2), Number(38, 8), Number(5, -4), Number(2, 8)}
  \cup {[type |-> "FLOAT", prec |-> 38, scale |-> 0, length |-> 22],
        [type |-> "BINARY_FLOAT", prec |-> 7, scale |-> 0, length |-> 4],
        [type |-> "BINARY_DOUBLE", prec |-> 15, scale |-> 0, length |-> 8]}
  \cup OfLength({"CHAR", "NCHAR", "VARCHAR2", "NVARCHAR2", "RAW", "ROWID", "INTERVAL"}, 10)
  \cup OfLength({"CLOB", "NCLOB", "UROWID", "BLOB"}, 4000)
  \cup OfLength({"LONG", "LONG_RAW", "XMLTYPE", "JSON", "BFILE"}, 0)
  \cup OfLength({"VARCHAR2"}, 9000)
  \cup {[type |-> t, prec |-> 0, scale |-> s, length |-> 11] :
          t \in {"TIMESTAMP", "TIMESTAMP_TZ"}, s \in {0, 6, 9}}
  \cup OfLength({"DATE"}, 7)

AllValues ==
  [size : Sizes, decimals : {0, 2, 8}, length : {0}]
  \cup [size : {0}, decimals : {0, 6, 7, 9}, length : {0}]
  \cup [size : {0}, decimals : {0}, length : {1, 10, 18, 50, 4000, 9000}]

AllForms == {"int64", "float64", "text"}

AllExpressions ==
  {"@every5min", "@hourly", "@daily", "0 */4 * * *", "0 */6 * * *", "0 */12 * * *", "other"}
AllZones == {-300, 0, 60, 240, 330}

\* A plan's part that stands still.
DepParked ==
  /\ edges = {} /\ selected = {} /\ frontier = <<>> /\ at = 1 /\ next = <<>>
  /\ closure = {} /\ depth = [t \in Tables |-> 0]
  /\ requiredBy = [t \in Tables |-> {}] /\ order = <<>>
ColParked == column = Number(4, 0) /\ stage = "new" /\ sampled = {} /\ type = NoType
ClockParked ==
  expr = "@daily" /\ zone = 0 /\ clock = 0 /\ announced = Never /\ due = FALSE

\* Connections and jobs stand still in EndInit.
Init ==
  /\ EndInit
  /\ \/ active = "tables"    /\ DepInit   /\ ColParked /\ ClockParked
     \/ active = "columns"   /\ DepParked /\ ColInit   /\ ClockParked
     \/ active = "clock"     /\ DepParked /\ ColParked /\ ClockInit
     \/ active = "endpoints" /\ DepParked /\ ColParked /\ ClockParked

Next ==
  /\ UNCHANGED active
  /\ \/ active = "tables"    /\ DepNext   /\ UNCHANGED <<colVars, clockVars, endVars>>
     \/ active = "columns"   /\ ColNext   /\ UNCHANGED <<depVars, clockVars, endVars>>
     \/ active = "clock"     /\ ClockNext /\ UNCHANGED <<depVars, colVars, endVars>>
     \/ active = "endpoints" /\ EndNext   /\ UNCHANGED <<depVars, colVars, clockVars>>

Spec == Init /\ [][Next]_<<active, depVars, colVars, clockVars, endVars>>

\* Connections, jobs and servers of a kind are interchangeable.
Alike == Permutations(Ids) \cup Permutations(Jobs) \cup Permutations(Servers)

\* The variables of the four parts keep their types.
PlanTypeOK == DepTypeOK /\ ColTypeOK /\ ClockTypeOK /\ EndTypeOK
=============================================================================
