-------------------------- MODULE EndpointsProofs --------------------------
(***************************************************************************)
(* Theorems about Endpoints, for any connections, databases and jobs, and  *)
(* any number of edits.                                                    *)
(***************************************************************************)
EXTENDS Endpoints, TLAPS

JobRow == [type : JobType, src : Ids \cup {None}, dst : Ids \cup {None},
           status : {"none", "pending", "running", "paused", "failed",
                     "cancelled", "completed"}]

\* A job names two connections once it is there, and has no tasks before.
JobsNameConnections ==
  \A j \in Jobs :
    /\ jobs[j].status # "none" => jobs[j].src \in Ids /\ jobs[j].dst \in Ids
    /\ jobs[j].status = "none" => place[j] = 0

\* A run is one of a job that is there, and copies from an Oracle database
\* to a SQL Server.
RunHasJob ==
  /\ run.stage = "idle" => run = Idle
  /\ run.stage # "idle" => run.job \in Jobs /\ jobs[run.job].status # "none"
  /\ run.stage \in {"source", "found", "copying"} => run.from \in Databases
  /\ run.stage \in {"found", "copying"} => run.to \in Databases
  /\ run.stage = "copying" => run.from \in Oracles /\ run.to \in Servers

\* What a run has looked up is what it would find now, but for an edit.
RunBelongs ==
  /\ run.stage \in {"source", "found", "copying"} /\ jobs[run.job].src \notin touched
     => run.from = conns[jobs[run.job].src]
  /\ run.stage \in {"found", "copying"} /\ jobs[run.job].dst \notin touched
     => run.to = conns[jobs[run.job].dst]

EndTypes == EndTypeOK /\ JobsNameConnections /\ RunHasJob

\* A server without tables has no rows, and a run has made tables before it
\* copies.
NoTablesNoRows ==
  /\ \A s \in Servers : s \notin filled => rows[s] = {}
  /\ run.stage = "copying" => run.to \in filled

\* The parts a job has put behind it are where its connections lead.
CopiedIsThere ==
  \A j \in Jobs :
    LET s == jobs[j].src
        d == jobs[j].dst
    IN
    jobs[j].type # "incremental" /\ place[j] > 1 /\ s \notin touched /\ d \notin touched
    => /\ conns[s] \in Oracles /\ conns[d] \in Servers
       /\ conns[d] \notin touched
          => \A p \in 1 .. place[j] - 1 : <<j, conns[s], p>> \in rows[conns[d]]

EndInv ==
  EndTypes /\ RunBelongs /\ NoTablesNoRows /\ CopiedIsThere /\ CursorsBelong /\ BulkStartsClean

-----------------------------------------------------------------------------
\* Rows of the jobs table.

\* A new row of the jobs table (CreateJob in internal/store/store.go).
LEMMA InsertType ==
  ASSUME jobs \in [Jobs -> JobRow],
         NEW j \in Jobs, NEW t \in JobType, NEW s \in Ids, NEW d \in Ids, Insert(j, t, s, d)
  PROVE  /\ jobs' \in [Jobs -> JobRow]
         /\ jobs'[j] = [type |-> t, src |-> s, dst |-> d, status |-> "pending"]
         /\ \A i \in Jobs : i # j => jobs'[i] = jobs[i]
<1> DEFINE row == [type |-> t, src |-> s, dst |-> d, status |-> "pending"]
<1>1. row \in JobRow
  BY DEF JobRow
<1>2. jobs' = [jobs EXCEPT ![j] = row]
  BY DEF Insert
<1> HIDE DEF row
<1>3. jobs' \in [Jobs -> JobRow] /\ jobs'[j] = row /\ \A i \in Jobs : i # j => jobs'[i] = jobs[i]
  BY <1>1, <1>2
<1>4. QED
  BY <1>3 DEF row

\* A row whose status is set (UpdateJob, PrepareJobResume).
LEMMA StatusType ==
  ASSUME jobs \in [Jobs -> JobRow], NEW j \in Jobs, jobs[j].status # "none",
         NEW new \in {"pending", "running", "paused", "failed", "cancelled", "completed"},
         jobs' = [jobs EXCEPT ![j].status = new]
  PROVE  /\ jobs' \in [Jobs -> JobRow]
         /\ jobs'[j].status = new
         /\ jobs'[j].type = jobs[j].type /\ jobs'[j].src = jobs[j].src /\ jobs'[j].dst = jobs[j].dst
         /\ \A i \in Jobs : i # j => jobs'[i] = jobs[i]
<1>1. jobs[j] \in JobRow
  OBVIOUS
<1>2. jobs'[j] = [jobs[j] EXCEPT !.status = new]
  OBVIOUS
<1>3. jobs'[j] \in JobRow
  BY <1>1, <1>2 DEF JobRow
<1>4. jobs' \in [Jobs -> JobRow] /\ \A i \in Jobs : i # j => jobs'[i] = jobs[i]
  BY <1>3
<1>5. QED
  BY <1>1, <1>2, <1>4 DEF JobRow

\* What a step does to the rows of the jobs table: they keep their job's type
\* and connections, and a job that is new names two.
JobsKeep ==
  \A j \in Jobs :
    IF jobs[j].status = "none"
      THEN jobs'[j].status # "none" => jobs'[j].status = "pending"
                                       /\ jobs'[j].src \in Ids /\ jobs'[j].dst \in Ids
      ELSE /\ jobs'[j].status # "none" /\ jobs'[j].type = jobs[j].type
           /\ jobs'[j].src = jobs[j].src /\ jobs'[j].dst = jobs[j].dst

\* The cursor that a copying run saves.
LEMMA SaveSyncType ==
  ASSUME EndTypes, run.stage = "copying", SaveSync
  PROVE  /\ sync' \in [Ids \X Ids -> {<<>>} \cup Oracles \X Servers]
         /\ \A p \in Ids \X Ids :
              sync'[p] = IF p = <<jobs[run.job].src, jobs[run.job].dst>>
                           THEN <<run.from, run.to>> ELSE sync[p]
<1>1. jobs[run.job].src \in Ids /\ jobs[run.job].dst \in Ids
  BY DEF EndTypes, RunHasJob, JobsNameConnections
<1>2. run.from \in Oracles /\ run.to \in Servers
  BY DEF EndTypes, RunHasJob
<1>3. sync \in [Ids \X Ids -> {<<>>} \cup Oracles \X Servers]
  BY DEF EndTypes, EndTypeOK
<1> DEFINE key == <<jobs[run.job].src, jobs[run.job].dst>>
           val == <<run.from, run.to>>
<1>4. key \in Ids \X Ids /\ val \in {<<>>} \cup Oracles \X Servers
  BY <1>1, <1>2
<1>5. sync' = [sync EXCEPT ![key] = val]
  BY DEF SaveSync, SyncKey
<1> HIDE DEF key, val
<1>6. /\ sync' \in [Ids \X Ids -> {<<>>} \cup Oracles \X Servers]
      /\ \A p \in Ids \X Ids : sync'[p] = IF p = key THEN val ELSE sync[p]
  BY <1>3, <1>4, <1>5
<1>7. QED
  BY <1>6 DEF key, val

\* At first everything has its type.
LEMMA InitTypes == EndInit => EndTypes
<1> SUFFICES ASSUME EndInit
             PROVE  EndTypes
  OBVIOUS
<1>1. \A j \in Jobs : jobs[j] = NoRow /\ place[j] = 0
  BY DEF EndInit
<1>2. EndTypeOK
  <2>1. NoRow \in JobRow
    BY DEF NoRow, JobRow, JobType
  <2>2. jobs \in [Jobs -> JobRow]
    BY <2>1 DEF EndInit
  <2>3. run = [stage |-> "idle", job |-> None, from |-> None, to |-> None, fresh |-> FALSE]
    BY DEF EndInit, Idle
  <2>4. run \in [stage : {"idle", "started", "source", "found", "copying"},
                job : Jobs \cup {None}, from : Databases \cup {None},
                to : Databases \cup {None}, fresh : BOOLEAN]
    BY <2>3
  <2>5. place \in [Jobs -> 0 .. Parts + 1] /\ edits \in 0 .. MaxEdits
    BY EndpointAssumption DEF EndInit
  <2>6. sync \in [Ids \X Ids -> {<<>>} \cup Oracles \X Servers]
    BY DEF EndInit
  <2>7. /\ conns \in [Ids -> Databases \cup {None}] /\ plan \subseteq Ids \X Ids
        /\ rows \in [Servers -> SUBSET (Jobs \X Oracles \X (1 .. Parts))]
        /\ filled \subseteq Servers /\ touched \subseteq Ids \cup Servers
    BY DEF EndInit
  <2>8. QED
    BY <2>2, <2>4, <2>5, <2>6, <2>7 DEF EndTypeOK, JobRow
<1>3. JobsNameConnections
  BY <1>1 DEF JobsNameConnections, NoRow
<1>4. RunHasJob
  BY DEF EndInit, RunHasJob, Idle
<1>5. QED
  BY <1>2, <1>3, <1>4 DEF EndTypes

\* Every step keeps the types, what a row says of its job, and what a run has
\* found.
LEMMA TypesStep ==
  ASSUME EndTypes, [EndNext]_endVars
  PROVE  EndTypes' /\ JobsKeep
<1> USE EndpointAssumption
<1>t. jobs \in [Jobs -> JobRow] /\ EndTypeOK
  BY DEF EndTypes, EndTypeOK, JobRow
<1>r. run.stage # "idle" => run.job \in Jobs /\ jobs[run.job].status # "none"
  BY DEF EndTypes, RunHasJob
<1>1. ASSUME NEW c \in Ids, PostConnection(c) \/ PutConnection(c) \/ DeleteConnection(c)
      PROVE  EndTypes' /\ JobsKeep
  <2>1. conns' \in [Ids -> Databases \cup {None}]
    <3>1. PICK db \in Databases \cup {None} : conns' = [conns EXCEPT ![c] = db]
      BY <1>1 DEF PostConnection, PutConnection, DeleteConnection
    <3>2. QED
      BY <3>1, <1>t DEF EndTypeOK
  <2>2. edits' \in 0 .. MaxEdits /\ touched' \subseteq Ids \cup Servers
    BY <1>1, <1>t DEF EndTypeOK, PostConnection, PutConnection, DeleteConnection, Edit
  <2>3. UNCHANGED <<plan, jobs, place, sync, filled, rows, run>>
    BY <1>1 DEF PostConnection, PutConnection, DeleteConnection
  <2>4. EndTypeOK'
    BY <2>1, <2>2, <2>3, <1>t DEF EndTypeOK
  <2>5. QED
    BY <2>3, <2>4 DEF EndTypes, JobsNameConnections, RunHasJob, JobsKeep
<1>2. ASSUME PutSettings
      PROVE  EndTypes' /\ JobsKeep
  <2>1. EndTypeOK'
    BY <1>2, <1>t DEF EndTypeOK, PutSettings
  <2>2. QED
    BY <1>2, <2>1 DEF EndTypes, JobsNameConnections, RunHasJob, JobsKeep, PutSettings
<1>3. ASSUME NEW s \in Servers, DropTables(s)
      PROVE  EndTypes' /\ JobsKeep
  <2>1. rows' \in [Servers -> SUBSET (Jobs \X Oracles \X (1 .. Parts))]
    BY <1>3, <1>t DEF EndTypeOK, DropTables
  <2>2. edits' \in 0 .. MaxEdits /\ touched' \subseteq Ids \cup Servers
    BY <1>3, <1>t DEF EndTypeOK, DropTables, Edit
  <2>3. EndTypeOK'
    BY <1>3, <2>1, <2>2, <1>t DEF EndTypeOK, DropTables
  <2>4. QED
    BY <1>3, <2>3 DEF EndTypes, JobsNameConnections, RunHasJob, JobsKeep, DropTables
<1>4. ASSUME NEW j \in Jobs, CreateJob(j) \/ SchedCreate(j)
      PROVE  EndTypes' /\ JobsKeep
  <2>1. PICK t \in JobType, s \in Ids, d \in Ids : Insert(j, t, s, d)
    <3>1. CASE CreateJob(j)
      BY <3>1 DEF CreateJob
    <3>2. CASE SchedCreate(j)
      <4>1. PICK p \in plan : Insert(j, "incremental", p[1], p[2])
        BY <3>2 DEF SchedCreate
      <4>2. p[1] \in Ids /\ p[2] \in Ids
        BY <1>t DEF EndTypeOK
      <4>3. QED
        BY <4>1, <4>2 DEF JobType
    <3>3. QED
      BY <1>4, <3>1, <3>2
  <2>2. /\ jobs[j].status = "none"
        /\ UNCHANGED <<conns, plan, place, sync, filled, rows, run, edits, touched>>
    BY <1>4 DEF CreateJob, SchedCreate
  <2>3. /\ jobs' \in [Jobs -> JobRow]
        /\ jobs'[j] = [type |-> t, src |-> s, dst |-> d, status |-> "pending"]
        /\ \A i \in Jobs : i # j => jobs'[i] = jobs[i]
    BY <2>1, <1>t, InsertType
  <2>4. JobsKeep
    BY <2>2, <2>3 DEF JobsKeep
  <2>5. EndTypeOK'
    BY <2>2, <2>3, <1>t DEF EndTypeOK, JobRow
  <2>6. JobsNameConnections'
    BY <2>2, <2>3 DEF EndTypes, JobsNameConnections
  <2>7. RunHasJob'
    BY <2>2, <2>3 DEF EndTypes, RunHasJob
  <2>8. QED
    BY <2>4, <2>5, <2>6, <2>7 DEF EndTypes
<1>5. ASSUME NEW j \in Jobs, StartJob(j)
      PROVE  EndTypes' /\ JobsKeep
  <2>1. jobs[j].status # "none" /\ jobs' = [jobs EXCEPT ![j].status = "pending"]
    BY <1>5 DEF StartJob
  <2>2. /\ jobs' \in [Jobs -> JobRow] /\ jobs'[j].status = "pending"
        /\ jobs'[j].type = jobs[j].type /\ jobs'[j].src = jobs[j].src /\ jobs'[j].dst = jobs[j].dst
        /\ \A i \in Jobs : i # j => jobs'[i] = jobs[i]
    BY <2>1, <1>t, StatusType
  <2>3. run' = [stage |-> "started", job |-> j, from |-> None, to |-> None, fresh |-> FALSE]
    BY <1>5 DEF StartJob, Idle
  <2>4. UNCHANGED <<conns, plan, place, sync, filled, rows, edits, touched>>
    BY <1>5 DEF StartJob
  <2>5. JobsKeep
    BY <2>1, <2>2 DEF EndTypes, JobsNameConnections, JobsKeep
  <2>6. EndTypeOK'
    BY <2>2, <2>3, <2>4, <1>t DEF EndTypeOK, JobRow
  <2>7. JobsNameConnections'
    BY <2>1, <2>2, <2>4 DEF EndTypes, JobsNameConnections
  <2>8. RunHasJob'
    BY <2>2, <2>3 DEF RunHasJob, Idle
  <2>9. QED
    BY <2>5, <2>6, <2>7, <2>8 DEF EndTypes
<1>6. ASSUME ReadSource
      PROVE  EndTypes' /\ JobsKeep
  <2>1. run.job \in Jobs /\ jobs[run.job].status # "none"
    BY <1>6, <1>r DEF ReadSource
  <2>2. conns[jobs[run.job].src] \in Databases
    BY <1>6, <2>1, <1>t DEF ReadSource, EndTypes, JobsNameConnections, EndTypeOK
  <2>3. /\ run'.stage = "source" /\ run'.job = run.job /\ run'.from = conns[jobs[run.job].src]
        /\ run'.to = run.to /\ run'.fresh = run.fresh
        /\ run' \in [stage : {"idle", "started", "source", "found", "copying"},
                     job : Jobs \cup {None}, from : Databases \cup {None},
                     to : Databases \cup {None}, fresh : BOOLEAN]
    BY <1>6, <2>2, <1>t DEF ReadSource, EndTypeOK
  <2>4. UNCHANGED <<conns, plan, jobs, place, sync, filled, rows, edits, touched>>
    BY <1>6 DEF ReadSource
  <2>5. EndTypeOK'
    BY <2>3, <2>4, <1>t DEF EndTypeOK
  <2>6. RunHasJob'
    BY <2>1, <2>2, <2>3, <2>4 DEF RunHasJob
  <2>7. QED
    BY <2>4, <2>5, <2>6 DEF EndTypes, JobsNameConnections, JobsKeep
<1>7. ASSUME ReadDest
      PROVE  EndTypes' /\ JobsKeep
  <2>1. run.job \in Jobs /\ jobs[run.job].status # "none" /\ run.from \in Databases
    BY <1>7, <1>r DEF ReadDest, EndTypes, RunHasJob
  <2>2. conns[jobs[run.job].dst] \in Databases
    BY <1>7, <2>1, <1>t DEF ReadDest, EndTypes, JobsNameConnections, EndTypeOK
  <2>3. /\ run'.stage = "found" /\ run'.job = run.job /\ run'.to = conns[jobs[run.job].dst]
        /\ run'.from = run.from /\ run'.fresh = run.fresh
        /\ run' \in [stage : {"idle", "started", "source", "found", "copying"},
                     job : Jobs \cup {None}, from : Databases \cup {None},
                     to : Databases \cup {None}, fresh : BOOLEAN]
    BY <1>7, <2>2, <1>t DEF ReadDest, EndTypeOK
  <2>4. UNCHANGED <<conns, plan, jobs, place, sync, filled, rows, edits, touched>>
    BY <1>7 DEF ReadDest
  <2>5. EndTypeOK'
    BY <2>3, <2>4, <1>t DEF EndTypeOK
  <2>6. RunHasJob'
    BY <2>1, <2>2, <2>3, <2>4 DEF RunHasJob
  <2>7. QED
    BY <2>4, <2>5, <2>6 DEF EndTypes, JobsNameConnections, JobsKeep
<1>8. ASSUME Begin
      PROVE  EndTypes' /\ JobsKeep
  <2>1. run.job \in Jobs /\ jobs[run.job].status # "none"
    BY <1>8, <1>r DEF Begin
  <2>2. /\ jobs' \in [Jobs -> JobRow] /\ jobs'[run.job].status = "running"
        /\ jobs'[run.job].type = jobs[run.job].type
        /\ jobs'[run.job].src = jobs[run.job].src /\ jobs'[run.job].dst = jobs[run.job].dst
        /\ \A i \in Jobs : i # run.job => jobs'[i] = jobs[i]
    BY <1>8, <2>1, <1>t, StatusType DEF Begin
  <2>3. /\ run'.stage = "copying" /\ run'.job = run.job /\ run'.to = run.to
        /\ run'.from = run.from
        /\ run' \in [stage : {"idle", "started", "source", "found", "copying"},
                     job : Jobs \cup {None}, from : Databases \cup {None},
                     to : Databases \cup {None}, fresh : BOOLEAN]
    BY <1>8, <1>t DEF Begin, EndTypeOK
  <2>4. /\ run.from \in Oracles /\ run.to \in Servers /\ filled' = filled \cup {run.to}
        /\ UNCHANGED <<conns, plan, place, sync, rows, edits, touched>>
    BY <1>8 DEF Begin
  <2>5. JobsKeep
    BY <2>1, <2>2 DEF JobsKeep, EndTypes, JobsNameConnections
  <2>6. EndTypeOK'
    BY <2>2, <2>3, <2>4, <1>t DEF EndTypeOK, JobRow
  <2>7. JobsNameConnections'
    BY <2>1, <2>2, <2>4 DEF EndTypes, JobsNameConnections
  <2>8. RunHasJob'
    BY <2>1, <2>2, <2>3, <2>4 DEF RunHasJob, Databases
  <2>9. QED
    BY <2>5, <2>6, <2>7, <2>8 DEF EndTypes
<1>9. ASSUME Copy
      PROVE  EndTypes' /\ JobsKeep
  <2>1. /\ run.job \in Jobs /\ jobs[run.job].status # "none"
        /\ run.from \in Oracles /\ run.to \in Servers
    BY <1>9, <1>r DEF Copy, EndTypes, RunHasJob
  <2>2. /\ place[run.job] \in 0 .. Parts
        /\ place' = [place EXCEPT ![run.job] = place[run.job] + 1]
        /\ rows' = IF place[run.job] = 0 THEN rows
                   ELSE [rows EXCEPT ![run.to] = @ \cup {<<run.job, run.from, place[run.job]>>}]
        /\ UNCHANGED <<conns, plan, jobs, sync, filled, run, edits, touched>>
    BY <1>9, <2>1, <1>t DEF Copy, TasksOf, EndTypeOK
  <2>3. place' \in [Jobs -> 0 .. Parts + 1]
    BY <2>1, <2>2, <1>t DEF EndTypeOK
  <2>4. rows' \in [Servers -> SUBSET (Jobs \X Oracles \X (1 .. Parts))]
    <3>1. CASE place[run.job] = 0
      BY <3>1, <2>2, <1>t DEF EndTypeOK
    <3>2. CASE place[run.job] # 0
      <4>1. <<run.job, run.from, place[run.job]>> \in Jobs \X Oracles \X (1 .. Parts)
        BY <3>2, <2>1, <2>2
      <4>2. rows[run.to] \cup {<<run.job, run.from, place[run.job]>>}
              \in SUBSET (Jobs \X Oracles \X (1 .. Parts))
        BY <4>1, <2>1, <1>t DEF EndTypeOK
      <4>3. QED
        BY <4>2, <3>2, <2>1, <2>2, <1>t DEF EndTypeOK
    <3>3. QED
      BY <3>1, <3>2
  <2>5. EndTypeOK'
    BY <2>2, <2>3, <2>4, <1>t DEF EndTypeOK
  <2>6. JobsNameConnections'
    BY <2>1, <2>2, <1>t DEF EndTypes, JobsNameConnections, EndTypeOK
  <2>7. QED
    BY <2>2, <2>5, <2>6 DEF EndTypes, RunHasJob, JobsKeep
<1>10. ASSUME Baseline
       PROVE  EndTypes' /\ JobsKeep
  <2>1. sync' \in [Ids \X Ids -> {<<>>} \cup Oracles \X Servers]
    BY <1>10, <1>r, SaveSyncType DEF Baseline, EndTypes
  <2>2. UNCHANGED <<conns, plan, jobs, place, filled, rows, run, edits, touched>>
    BY <1>10 DEF Baseline
  <2>3. EndTypeOK'
    BY <2>1, <2>2, <1>t DEF EndTypeOK
  <2>4. QED
    BY <2>2, <2>3 DEF EndTypes, JobsNameConnections, RunHasJob, JobsKeep
<1>11. ASSUME Synchronise \/ Complete \/ Break
       PROVE  EndTypes' /\ JobsKeep
  <2>1. run.job \in Jobs /\ jobs[run.job].status # "none"
    BY <1>11, <1>r DEF Synchronise, Complete, Break, EndTypes, RunHasJob
  <2>2. PICK new \in {"paused", "failed", "cancelled", "completed"} : End(new)
    BY <1>11 DEF Synchronise, Complete, Break
  <2>3. sync' \in [Ids \X Ids -> {<<>>} \cup Oracles \X Servers]
    <3>1. CASE SaveSync /\ run.stage = "copying"
      BY <3>1, SaveSyncType
    <3>2. CASE UNCHANGED sync
      BY <3>2, <1>t DEF EndTypeOK
    <3>3. QED
      BY <1>11, <3>1, <3>2 DEF Synchronise, Complete, Break
  <2>4. /\ jobs' \in [Jobs -> JobRow] /\ jobs'[run.job].status = new
        /\ jobs'[run.job].type = jobs[run.job].type
        /\ jobs'[run.job].src = jobs[run.job].src /\ jobs'[run.job].dst = jobs[run.job].dst
        /\ \A i \in Jobs : i # run.job => jobs'[i] = jobs[i]
    BY <2>1, <2>2, <1>t, StatusType DEF End
  <2>5. run' = Idle /\ UNCHANGED <<conns, plan, place, filled, rows, edits, touched>>
    BY <2>2 DEF End
  <2>6. Idle \in [stage : {"idle", "started", "source", "found", "copying"},
                  job : Jobs \cup {None}, from : Databases \cup {None},
                  to : Databases \cup {None}, fresh : BOOLEAN]
    BY DEF Idle
  <2>7. EndTypeOK'
    BY <2>3, <2>4, <2>5, <2>6, <1>t DEF EndTypeOK, JobRow
  <2>8. JobsKeep
    BY <2>1, <2>4 DEF JobsKeep, EndTypes, JobsNameConnections
  <2>9. JobsNameConnections'
    BY <2>1, <2>4, <2>5 DEF EndTypes, JobsNameConnections
  <2>10. RunHasJob'
    BY <2>5 DEF RunHasJob, Idle
  <2>11. QED
    BY <2>7, <2>8, <2>9, <2>10 DEF EndTypes
<1>12. CASE UNCHANGED endVars
  BY <1>12 DEF endVars, EndTypes, EndTypeOK, JobsNameConnections, RunHasJob, JobsKeep
<1>13. QED
  BY <1>1, <1>2, <1>3, <1>4, <1>5, <1>6, <1>7, <1>8, <1>9, <1>10, <1>11, <1>12 DEF EndNext

-----------------------------------------------------------------------------
\* Connections and databases.

\* What is edited may change; else only a connection that led nowhere may.
Edited ==
  /\ touched \subseteq touched'
  /\ \A c \in Ids : c \notin touched' /\ conns[c] # None => conns'[c] = conns[c]
  /\ \A s \in Servers : s \notin touched' => rows[s] \subseteq rows'[s]

\* Every step keeps to that: requests that edit are counted, runs do not edit.
LEMMA EditedStep ==
  ASSUME EndTypes, [EndNext]_endVars
  PROVE  Edited
<1>t. /\ conns \in [Ids -> Databases \cup {None}]
      /\ rows \in [Servers -> SUBSET (Jobs \X Oracles \X (1 .. Parts))]
  BY DEF EndTypes, EndTypeOK
<1>1. ASSUME NEW c \in Ids, PostConnection(c)
      PROVE  Edited
  BY <1>1, <1>t DEF Edited, PostConnection
<1>2. ASSUME NEW c \in Ids, PutConnection(c) \/ DeleteConnection(c)
      PROVE  Edited
  <2>1. touched \subseteq touched' /\ (conns[c] # None => c \in touched') /\ rows' = rows
    BY <1>2 DEF PutConnection, DeleteConnection, Edit
  <2>2. \A d \in Ids \ {c} : conns'[d] = conns[d]
    BY <1>2, <1>t DEF PutConnection, DeleteConnection
  <2>3. QED
    BY <2>1, <2>2 DEF Edited
<1>3. ASSUME NEW s \in Servers, DropTables(s)
      PROVE  Edited
  BY <1>3, <1>t DEF Edited, DropTables, Edit
<1>4. CASE Copy
  <2>1. run.to \in Servers /\ touched' = touched /\ conns' = conns
    BY <1>4 DEF Copy, EndTypes, RunHasJob
  <2>2. \A s \in Servers : rows[s] \subseteq rows'[s]
    BY <1>4, <1>t, <2>1 DEF Copy
  <2>3. QED
    BY <2>1, <2>2 DEF Edited
<1>5. ASSUME NEW j \in Jobs, CreateJob(j) \/ SchedCreate(j) \/ StartJob(j)
      PROVE  Edited
  BY <1>5 DEF Edited, CreateJob, SchedCreate, StartJob
<1>6. CASE PutSettings \/ ReadSource \/ ReadDest \/ Begin \/ Baseline
  BY <1>6 DEF Edited, PutSettings, ReadSource, ReadDest, Begin, Baseline
<1>7. CASE Synchronise \/ Complete \/ Break
  BY <1>7 DEF Edited, Synchronise, Complete, Break, End
<1>8. CASE UNCHANGED endVars
  BY <1>8 DEF Edited, endVars
<1>9. QED
  BY <1>1, <1>2, <1>3, <1>4, <1>5, <1>6, <1>7, <1>8 DEF EndNext

\* What a step does to the run: it stays that of its job, and what it has
\* looked up stays, or is looked up now.
LEMMA RunStep ==
  ASSUME EndTypes, [EndNext]_endVars
  PROVE  \/ run' = run
         \/ run'.stage \in {"idle", "started"}
         \/ ReadSource \/ ReadDest
         \/ Begin /\ run'.job = run.job /\ run'.from = run.from /\ run'.to = run.to
                  /\ run'.stage = "copying"
<1>1. ASSUME NEW c \in Ids, PostConnection(c) \/ PutConnection(c) \/ DeleteConnection(c)
      PROVE  run' = run
  BY <1>1 DEF PostConnection, PutConnection, DeleteConnection
<1>2. ASSUME NEW s \in Servers, DropTables(s)
      PROVE  run' = run
  BY <1>2 DEF DropTables
<1>3. ASSUME NEW j \in Jobs, CreateJob(j) \/ SchedCreate(j)
      PROVE  run' = run
  BY <1>3 DEF CreateJob, SchedCreate
<1>4. ASSUME NEW j \in Jobs, StartJob(j)
      PROVE  run'.stage = "started"
  BY <1>4 DEF StartJob, Idle
<1>5. CASE PutSettings \/ Copy \/ Baseline
  BY <1>5 DEF PutSettings, Copy, Baseline
<1>6. ASSUME Begin
      PROVE  /\ run'.job = run.job /\ run'.from = run.from /\ run'.to = run.to
             /\ run'.stage = "copying"
  BY <1>6 DEF Begin, EndTypes, EndTypeOK
<1>7. ASSUME Synchronise \/ Complete \/ Break
      PROVE  run'.stage = "idle"
  BY <1>7 DEF Synchronise, Complete, Break, End, Idle
<1>8. CASE UNCHANGED endVars
  BY <1>8 DEF endVars
<1>9. QED
  BY <1>1, <1>2, <1>3, <1>4, <1>5, <1>6, <1>7, <1>8 DEF EndNext

\* What a run found where its job's connections lead, it would find there still.
LEMMA RunBelongsStep ==
  ASSUME EndTypes, RunBelongs, [EndNext]_endVars
  PROVE  RunBelongs'
<1>1. EndTypes' /\ JobsKeep
  BY TypesStep
<1>2. Edited
  BY EditedStep
<1>3. None \notin Databases
  BY EndpointAssumption
\* The job of a run that goes on keeps its connections.
<1>4. ASSUME run'.job = run.job, run.stage # "idle"
      PROVE  /\ jobs'[run.job].src = jobs[run.job].src /\ jobs'[run.job].dst = jobs[run.job].dst
             /\ jobs[run.job].src \in Ids /\ jobs[run.job].dst \in Ids
  BY <1>1, <1>4 DEF JobsKeep, EndTypes, RunHasJob, JobsNameConnections
\* What leads to a database leads there still.
<1>5. ASSUME NEW c \in Ids, NEW db \in Databases,
             c \notin touched => db = conns[c], c \notin touched'
      PROVE  db = conns'[c]
  BY <1>2, <1>3, <1>5 DEF Edited
<1>6. CASE run' = run
  <2>1. CASE run.stage \in {"source", "found", "copying"}
    <3>1. jobs'[run.job].src \notin touched' => run.from = conns'[jobs'[run.job].src]
      BY <1>4, <1>5, <1>6, <2>1 DEF RunBelongs, EndTypes, RunHasJob
    <3>2. run.stage # "source" /\ jobs'[run.job].dst \notin touched'
            => run.to = conns'[jobs'[run.job].dst]
      BY <1>4, <1>5, <1>6, <2>1 DEF RunBelongs, EndTypes, RunHasJob
    <3>3. QED
      BY <1>6, <2>1, <3>1, <3>2 DEF RunBelongs
  <2>2. CASE run.stage \notin {"source", "found", "copying"}
    BY <1>6, <2>2 DEF RunBelongs
  <2>3. QED
    BY <2>1, <2>2
<1>7. CASE run'.stage \in {"idle", "started"}
  BY <1>7 DEF RunBelongs
<1>8. CASE ReadSource
  <2>1. /\ run'.stage = "source" /\ run'.job = run.job /\ run'.from = conns[jobs[run.job].src]
        /\ conns' = conns /\ jobs' = jobs
    BY <1>8 DEF ReadSource, EndTypes, EndTypeOK
  <2>2. QED
    BY <2>1 DEF RunBelongs
<1>9. CASE ReadDest
  <2>1. /\ run.stage = "source" /\ run'.stage = "found" /\ run'.job = run.job
        /\ run'.from = run.from /\ run'.to = conns[jobs[run.job].dst]
        /\ conns' = conns /\ jobs' = jobs /\ touched' = touched
    BY <1>9 DEF ReadDest, EndTypes, EndTypeOK
  <2>2. QED
    BY <2>1 DEF RunBelongs
<1>10. CASE Begin /\ run'.job = run.job /\ run'.from = run.from /\ run'.to = run.to
                  /\ run'.stage = "copying"
  <2>1. run.stage = "found" /\ conns' = conns /\ touched' = touched
    BY <1>10 DEF Begin
  <2>2. QED
    BY <1>4, <1>10, <2>1 DEF RunBelongs
<1>11. QED
  BY <1>6, <1>7, <1>8, <1>9, <1>10, RunStep

\* A cursor is saved by a copying run only.
LEMMA SyncStep ==
  ASSUME EndTypes, [EndNext]_endVars
  PROVE  UNCHANGED sync \/ (run.stage = "copying" /\ SaveSync /\ UNCHANGED <<conns, touched>>)
<1>1. ASSUME NEW c \in Ids, PostConnection(c) \/ PutConnection(c) \/ DeleteConnection(c)
      PROVE  UNCHANGED sync
  BY <1>1 DEF PostConnection, PutConnection, DeleteConnection
<1>2. ASSUME NEW s \in Servers, DropTables(s)
      PROVE  UNCHANGED sync
  BY <1>2 DEF DropTables
<1>3. ASSUME NEW j \in Jobs, CreateJob(j) \/ SchedCreate(j) \/ StartJob(j)
      PROVE  UNCHANGED sync
  BY <1>3 DEF CreateJob, SchedCreate, StartJob
<1>4. CASE PutSettings \/ ReadSource \/ ReadDest \/ Begin \/ Copy \/ Complete \/ Break
  BY <1>4 DEF PutSettings, ReadSource, ReadDest, Begin, Copy, Complete, Break
<1>5. CASE Baseline \/ Synchronise
  BY <1>5 DEF Baseline, Synchronise, End
<1>6. CASE UNCHANGED endVars
  BY <1>6 DEF endVars
<1>7. QED
  BY <1>1, <1>2, <1>3, <1>4, <1>5, <1>6 DEF EndNext

\* So the cursor it saves under their ids is one of the databases they lead to.
LEMMA CursorsStep ==
  ASSUME EndTypes, RunBelongs, CursorsBelong, [EndNext]_endVars
  PROVE  CursorsBelong'
<1>1. Edited
  BY EditedStep
<1>2. None \notin Databases
  BY EndpointAssumption
<1>3. CASE UNCHANGED sync
  <2> SUFFICES ASSUME NEW s \in Ids, NEW d \in Ids, sync[<<s, d>>] # <<>>,
                      s \notin touched', d \notin touched'
               PROVE  sync[<<s, d>>] = <<conns'[s], conns'[d]>>
    BY <1>3 DEF CursorsBelong
  <2>1. sync[<<s, d>>] = <<conns[s], conns[d]>>
    BY <1>1 DEF CursorsBelong, Edited
  <2>2. sync[<<s, d>>] \in Oracles \X Servers
    BY DEF EndTypes, EndTypeOK
  <2>3. conns[s] # None /\ conns[d] # None
    BY <1>2, <2>1, <2>2 DEF Databases
  <2>4. QED
    BY <1>1, <2>1, <2>3 DEF Edited
<1>4. CASE run.stage = "copying" /\ SaveSync /\ UNCHANGED <<conns, touched>>
  <2> SUFFICES ASSUME NEW s \in Ids, NEW d \in Ids, sync'[<<s, d>>] # <<>>,
                      s \notin touched, d \notin touched
               PROVE  sync'[<<s, d>>] = <<conns[s], conns[d]>>
    BY <1>4 DEF CursorsBelong
  <2>1. sync'[<<s, d>>] = IF <<s, d>> = <<jobs[run.job].src, jobs[run.job].dst>>
                            THEN <<run.from, run.to>> ELSE sync[<<s, d>>]
    BY <1>4, SaveSyncType
  <2>2. CASE <<s, d>> = <<jobs[run.job].src, jobs[run.job].dst>>
    <3>1. s = jobs[run.job].src /\ d = jobs[run.job].dst
      BY <2>2
    <3>2. run.from = conns[s] /\ run.to = conns[d]
      BY <1>4, <3>1 DEF RunBelongs
    <3>3. QED
      BY <2>1, <2>2, <3>2
  <2>3. CASE <<s, d>> # <<jobs[run.job].src, jobs[run.job].dst>>
    BY <2>1, <2>3 DEF CursorsBelong
  <2>4. QED
    BY <2>2, <2>3
<1>5. QED
  BY <1>3, <1>4, SyncStep

-----------------------------------------------------------------------------
\* Rows.

\* Rows change when tables are dropped, and when a part is copied.
LEMMA RowsStep ==
  ASSUME EndTypes, [EndNext]_endVars
  PROVE  \/ rows' = rows /\ filled \subseteq filled'
         \/ \E s \in Servers : DropTables(s)
         \/ Copy
<1>1. ASSUME NEW c \in Ids, PostConnection(c) \/ PutConnection(c) \/ DeleteConnection(c)
      PROVE  rows' = rows /\ filled \subseteq filled'
  BY <1>1 DEF PostConnection, PutConnection, DeleteConnection
<1>2. ASSUME NEW j \in Jobs, CreateJob(j) \/ SchedCreate(j) \/ StartJob(j)
      PROVE  rows' = rows /\ filled \subseteq filled'
  BY <1>2 DEF CreateJob, SchedCreate, StartJob
<1>3. ASSUME PutSettings \/ ReadSource \/ ReadDest \/ Begin \/ Baseline
      PROVE  rows' = rows /\ filled \subseteq filled'
  BY <1>3 DEF PutSettings, ReadSource, ReadDest, Begin, Baseline
<1>4. ASSUME Synchronise \/ Complete \/ Break
      PROVE  rows' = rows /\ filled \subseteq filled'
  BY <1>4 DEF Synchronise, Complete, Break, End
<1>5. CASE UNCHANGED endVars
  BY <1>5 DEF endVars
<1>6. QED
  BY <1>1, <1>2, <1>3, <1>4, <1>5 DEF EndNext

\* Tables come before rows.
LEMMA NoTablesStep ==
  ASSUME EndTypes, NoTablesNoRows, [EndNext]_endVars
  PROVE  NoTablesNoRows'
<1>t. rows \in [Servers -> SUBSET (Jobs \X Oracles \X (1 .. Parts))]
  BY DEF EndTypes, EndTypeOK
<1>1. ASSUME NEW s \in Servers, s \notin filled'
      PROVE  rows'[s] = {}
  <2>1. CASE rows' = rows /\ filled \subseteq filled'
    BY <1>1, <2>1 DEF NoTablesNoRows
  <2>2. ASSUME NEW d \in Servers, DropTables(d)
        PROVE  rows'[s] = {}
    BY <1>1, <1>t, <2>2 DEF DropTables, NoTablesNoRows
  <2>3. CASE Copy
    <3>1. run.to \in Servers /\ run.to \in filled /\ filled' = filled
      BY <2>3 DEF Copy, EndTypes, RunHasJob, NoTablesNoRows
    <3>2. rows'[s] = rows[s]
      BY <1>1, <1>t, <2>3, <3>1 DEF Copy
    <3>3. QED
      BY <1>1, <3>1, <3>2 DEF NoTablesNoRows
  <2>4. QED
    BY <2>1, <2>2, <2>3, RowsStep
<1>2. run'.stage = "copying" => run'.to \in filled'
  <2>1. CASE run' = run
    <3>1. run.stage = "copying" => run.to \in filled
      BY DEF NoTablesNoRows
    <3>2. ASSUME NEW s \in Servers, DropTables(s)
          PROVE  run.stage = "copying" => run.to \in filled'
      BY <3>1, <3>2 DEF DropTables
    <3>3. ASSUME Copy
          PROVE  filled' = filled
      BY <3>3 DEF Copy
    <3>4. QED
      BY <2>1, <3>1, <3>2, <3>3, RowsStep
  <2>2. ASSUME ReadSource \/ ReadDest
        PROVE  run'.stage # "copying"
    BY <2>2 DEF ReadSource, ReadDest, EndTypes, EndTypeOK
  <2>3. CASE Begin /\ run'.to = run.to
    BY <2>3 DEF Begin
  <2>4. QED
    BY <2>1, <2>2, <2>3, RunStep
<1>3. QED
  BY <1>1, <1>2 DEF NoTablesNoRows

\* A first run that found no tables finds no rows but its own.
LEMMA BulkStep ==
  ASSUME EndTypes, NoTablesNoRows, BulkStartsClean, [EndNext]_endVars
  PROVE  BulkStartsClean'
<1>t. rows \in [Servers -> SUBSET (Jobs \X Oracles \X (1 .. Parts))]
  BY DEF EndTypes, EndTypeOK
<1>1. JobsKeep
  BY TypesStep
<1>2. CASE run' = run /\ run.stage = "copying"
  <2>1. run.job \in Jobs /\ run.to \in Servers /\ jobs[run.job].status # "none"
    BY <1>2 DEF EndTypes, RunHasJob
  <2>2. jobs'[run.job].type = jobs[run.job].type
    BY <1>1, <2>1 DEF JobsKeep
  <2>3. ASSUME NEW r \in rows'[run.to]
        PROVE  r \in rows[run.to] \/ r[1] = run.job
    <3>1. CASE rows' = rows
      BY <3>1
    <3>2. ASSUME NEW s \in Servers, DropTables(s)
          PROVE  rows'[run.to] = rows[run.to]
      BY <1>t, <2>1, <3>2 DEF DropTables
    <3>3. ASSUME Copy
          PROVE  r \in rows[run.to] \/ r = <<run.job, run.from, TasksOf(run.job)>>
      BY <1>t, <2>1, <3>3 DEF Copy
    <3>4. QED
      BY <3>1, <3>2, <3>3, RowsStep
  <2>4. QED
    BY <1>2, <2>2, <2>3 DEF BulkStartsClean
<1>3. CASE run' = run /\ run.stage # "copying"
  BY <1>3 DEF BulkStartsClean
<1>4. CASE run'.stage \in {"idle", "started"}
  BY <1>4 DEF BulkStartsClean
<1>5. CASE ReadSource \/ ReadDest
  <2>1. run'.stage # "copying"
    BY <1>5 DEF ReadSource, ReadDest, EndTypes, EndTypeOK
  <2>2. QED
    BY <2>1 DEF BulkStartsClean
<1>6. CASE Begin /\ run'.job = run.job /\ run'.to = run.to
  <2>1. run.job \in Jobs /\ run.to \in Servers /\ jobs[run.job].status # "none"
    BY <1>6 DEF Begin, EndTypes, RunHasJob
  <2>2. jobs'[run.job].type = jobs[run.job].type
    BY <1>1, <2>1 DEF JobsKeep
  <2>3. run'.fresh = (TasksOf(run.job) = 0) /\ rows' = rows /\ ~ Blocked(run.job)
    BY <1>6 DEF Begin, EndTypes, EndTypeOK
  <2>4. run'.fresh /\ jobs[run.job].type = "bulk" => rows[run.to] = {}
    BY <2>1, <2>3 DEF Blocked, NoTablesNoRows
  <2>5. QED
    BY <1>6, <2>2, <2>3, <2>4 DEF BulkStartsClean
<1>7. QED
  BY <1>2, <1>3, <1>4, <1>5, <1>6, RunStep

\* A job moves on by copying only.
LEMMA PlaceStep ==
  ASSUME [EndNext]_endVars
  PROVE  place' = place \/ Copy
<1>1. ASSUME NEW c \in Ids, PostConnection(c) \/ PutConnection(c) \/ DeleteConnection(c)
      PROVE  place' = place
  BY <1>1 DEF PostConnection, PutConnection, DeleteConnection
<1>2. ASSUME NEW s \in Servers, DropTables(s)
      PROVE  place' = place
  BY <1>2 DEF DropTables
<1>3. ASSUME NEW j \in Jobs, CreateJob(j) \/ SchedCreate(j) \/ StartJob(j)
      PROVE  place' = place
  BY <1>3 DEF CreateJob, SchedCreate, StartJob
<1>4. ASSUME PutSettings \/ ReadSource \/ ReadDest \/ Begin \/ Baseline
      PROVE  place' = place
  BY <1>4 DEF PutSettings, ReadSource, ReadDest, Begin, Baseline
<1>5. ASSUME Synchronise \/ Complete \/ Break
      PROVE  place' = place
  BY <1>5 DEF Synchronise, Complete, Break, End
<1>6. CASE UNCHANGED endVars
  BY <1>6 DEF endVars
<1>7. QED
  BY <1>1, <1>2, <1>3, <1>4, <1>5, <1>6 DEF EndNext

\* Every part that a job has behind it is where it should be.
LEMMA CopiedStep ==
  ASSUME EndTypes, RunBelongs, CopiedIsThere, [EndNext]_endVars
  PROVE  CopiedIsThere'
<1>t. /\ rows \in [Servers -> SUBSET (Jobs \X Oracles \X (1 .. Parts))]
      /\ place \in [Jobs -> 0 .. Parts + 1] /\ Parts \in Nat \ {0}
      /\ None \notin Databases
  BY EndpointAssumption DEF EndTypes, EndTypeOK
<1>k. JobsKeep
  BY TypesStep
<1>e. Edited
  BY EditedStep
<1> SUFFICES ASSUME NEW j \in Jobs
             PROVE  LET s == jobs'[j].src
                        d == jobs'[j].dst
                    IN
                    jobs'[j].type # "incremental" /\ place'[j] > 1
                    /\ s \notin touched' /\ d \notin touched'
                    => /\ conns'[s] \in Oracles /\ conns'[d] \in Servers
                       /\ conns'[d] \notin touched'
                          => \A p \in 1 .. place'[j] - 1 :
                               <<j, conns'[s], p>> \in rows'[conns'[d]]
  BY DEF CopiedIsThere
<1> DEFINE s == jobs[j].src
           d == jobs[j].dst
<1>1. CASE jobs[j].status = "none"
  <2>1. place[j] = 0
    BY <1>1 DEF EndTypes, JobsNameConnections
  <2>2. place'[j] = 0
    <3>1. ASSUME Copy
          PROVE  j # run.job /\ place'[j] = place[j]
      BY <1>1, <1>t, <3>1 DEF Copy, EndTypes, RunHasJob
    <3>2. QED
      BY <2>1, <3>1, PlaceStep
  <2>3. QED
    BY <2>2
<1>2. CASE jobs[j].status # "none"
  <2>1. jobs'[j].type = jobs[j].type /\ jobs'[j].src = s /\ jobs'[j].dst = d
    BY <1>2, <1>k DEF JobsKeep
  <2>2. s \in Ids /\ d \in Ids
    BY <1>2 DEF EndTypes, JobsNameConnections
  <2>3. CASE place'[j] = place[j]
    <3>1. ASSUME jobs[j].type # "incremental", place[j] > 1, s \notin touched', d \notin touched'
          PROVE  /\ conns'[s] \in Oracles /\ conns'[d] \in Servers
                 /\ conns'[d] \notin touched'
                    => \A p \in 1 .. place[j] - 1 : <<j, conns'[s], p>> \in rows'[conns'[d]]
      <4>1. s \notin touched /\ d \notin touched
        BY <1>e, <3>1 DEF Edited
      <4>2. /\ conns[s] \in Oracles /\ conns[d] \in Servers
            /\ conns[d] \notin touched
               => \A p \in 1 .. place[j] - 1 : <<j, conns[s], p>> \in rows[conns[d]]
        BY <3>1, <4>1 DEF CopiedIsThere
      <4>3. conns'[s] = conns[s] /\ conns'[d] = conns[d]
        BY <1>e, <1>t, <2>2, <3>1, <4>2 DEF Edited, Databases
      <4>4. conns[d] \notin touched'
              => conns[d] \notin touched /\ rows[conns[d]] \subseteq rows'[conns[d]]
        BY <1>e, <4>2 DEF Edited
      <4>5. QED
        BY <4>2, <4>3, <4>4
    <3>2. QED
      BY <2>1, <2>3, <3>1
  <2>4. CASE Copy /\ j = run.job
    <3>1. /\ place[j] \in 0 .. Parts + 1 /\ place'[j] = place[j] + 1
          /\ UNCHANGED <<conns, jobs, touched>>
          /\ run.from \in Oracles /\ run.to \in Servers
      BY <1>t, <2>4 DEF Copy, TasksOf, EndTypes, RunHasJob
    <3>2. ASSUME place[j] > 0, s \notin touched, d \notin touched
          PROVE  run.from = conns[s] /\ run.to = conns[d]
      BY <2>4, <3>2 DEF Copy, RunBelongs
    <3>3. ASSUME jobs[j].type # "incremental", place[j] + 1 > 1, s \notin touched, d \notin touched,
                 conns[d] \notin touched, NEW p \in 1 .. (place[j] + 1) - 1
          PROVE  <<j, conns[s], p>> \in rows'[conns[d]]
      <4>1. rows'[run.to] = rows[run.to] \cup {<<j, run.from, place[j]>>}
        BY <1>t, <2>4, <3>1, <3>3 DEF Copy, TasksOf
      <4>2. CASE p = place[j]
        BY <3>1, <3>2, <3>3, <4>1, <4>2
      <4>3. CASE p # place[j]
        <5>1. p \in 1 .. place[j] - 1 /\ place[j] > 1
          BY <3>1, <3>3, <4>3
        <5>2. <<j, conns[s], p>> \in rows[conns[d]]
          BY <3>3, <5>1 DEF CopiedIsThere
        <5>3. QED
          BY <3>1, <3>2, <3>3, <4>1, <5>2
      <4>4. QED
        BY <4>2, <4>3
    <3>4. place'[j] > 1 => place[j] > 0 /\ place[j] + 1 > 1
      BY <3>1
    <3>5. QED
      BY <3>1, <3>2, <3>3, <3>4
  <2>5. ASSUME Copy, j # run.job
        PROVE  place'[j] = place[j]
    BY <1>t, <2>5 DEF Copy
  <2>6. QED
    BY <2>3, <2>4, <2>5, PlaceStep
<1>3. QED
  BY <1>1, <1>2

-----------------------------------------------------------------------------
\* At first nothing is connected and nothing copied.
LEMMA InitEndInv == EndInit => EndInv
<1> SUFFICES ASSUME EndInit
             PROVE  EndInv
  OBVIOUS
<1>1. EndTypes
  BY InitTypes
<1>2. run.stage = "idle"
  BY DEF EndInit, Idle
<1>3. \A j \in Jobs : place[j] = 0 /\ jobs[j].status = "none"
  BY DEF EndInit, NoRow
<1>4. RunBelongs /\ BulkStartsClean
  BY <1>2 DEF RunBelongs, BulkStartsClean
<1>5. NoTablesNoRows /\ CursorsBelong
  BY <1>2 DEF EndInit, NoTablesNoRows, CursorsBelong
<1>6. CopiedIsThere
  BY <1>3 DEF CopiedIsThere
<1>7. QED
  BY <1>1, <1>4, <1>5, <1>6 DEF EndInv

\* All of this holds at all times.
THEOREM EndInvariant == EndSpec => []EndInv
<1>1. EndInv /\ [EndNext]_endVars => EndInv'
  BY TypesStep, RunBelongsStep, NoTablesStep, CopiedStep, CursorsStep, BulkStep DEF EndInv
<1>2. QED
  BY InitEndInv, <1>1, PTL DEF EndSpec

\* The parts a job's task rows record are in the database its destination
\* leads to, from the one its source leads to, through any number of runs, each
\* of which looks both up anew (Runner.run), and any requests in between, unless
\* one of the three was edited.
THEOREM RecordedPartsAreThere == EndSpec => []RecordedIsThere
<1>1. EndInv => RecordedIsThere
  <2> SUFFICES ASSUME EndInv, NEW j \in Jobs, jobs[j].type # "incremental",
                      touched \cap {jobs[j].src, jobs[j].dst, conns[jobs[j].dst]} = {},
                      NEW p \in 1 .. Parts, p < place[j]
               PROVE  <<j, conns[jobs[j].src], p>> \in rows[conns[jobs[j].dst]]
    BY DEF RecordedIsThere
  <2>1. place[j] \in 0 .. Parts + 1 /\ Parts \in Nat \ {0}
    BY EndpointAssumption DEF EndInv, EndTypes, EndTypeOK
  <2>2. place[j] > 1 /\ p \in 1 .. place[j] - 1
    BY <2>1
  <2>3. /\ jobs[j].src \notin touched /\ jobs[j].dst \notin touched
        /\ conns[jobs[j].dst] \notin touched
    OBVIOUS
  <2>4. QED
    BY <2>2, <2>3 DEF EndInv, CopiedIsThere
<1>2. QED
  BY EndInvariant, <1>1, PTL

\* The cursor in sync_state under a pair of ids was read in the databases these
\* lead to, unless one was edited (engine.RunBulk, RunIncremental).
THEOREM CursorsBelongToTheirPair == EndSpec => []CursorsBelong
<1>1. EndInv => CursorsBelong
  BY DEF EndInv
<1>2. QED
  BY EndInvariant, <1>1, PTL

\* The check before a bulk job's first tables (DestinationMustBeEmpty, repeated
\* by the run) leaves it alone in its destination while it copies, whatever
\* other jobs were created, run, resumed and retried in between.
THEOREM BulkJobsStartClean == EndSpec => []BulkStartsClean
<1>1. EndInv => BulkStartsClean
  BY DEF EndInv
<1>2. QED
  BY EndInvariant, <1>1, PTL
=============================================================================
