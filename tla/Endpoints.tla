----------------------------- MODULE Endpoints -----------------------------
(***************************************************************************)
(* From which database to which a job moves rows.  A job names its two     *)
(* connections by id, the connections name servers, and both are looked up *)
(* anew by each run, while what a job has reached (its task rows) and what *)
(* a pair of connections has been synchronised to (sync_state) is kept by  *)
(* id.  Connections can be edited and deleted at any time                  *)
(* (internal/api/server.go, internal/store/store.go, Runner.run).          *)
(*                                                                         *)
(* A connection is the database (and schema) it leads to; its type is the  *)
(* kind of that.                                                           *)
(* The rows of a source are a few parts, copied one after the other; what  *)
(* becomes of the rows of a part is the matter of TableCopy, and how many  *)
(* tables a job leaves out that of TablePool.  One run at a time and crashes are that of  *)
(* JobRunner.  Schema samples, which copy a few rows, are left out.        *)
(***************************************************************************)
EXTENDS Naturals, FiniteSets

CONSTANTS Ids,       \* connections
          Oracles,   \* Oracle databases
          Servers,   \* SQL Server databases
          Jobs,      \* jobs
          Parts,     \* parts of a source
          MaxEdits   \* bound: connections edited or deleted, tables dropped

None == "none"
Databases == Oracles \cup Servers

ASSUME EndpointAssumption ==
  /\ Oracles \cap Servers = {} /\ None \notin Databases
  /\ Ids \cap Databases = {}
  /\ Parts \in Nat \ {0} /\ MaxEdits \in Nat

VARIABLES
  conns,     \* for each id: the database it leads to, or None
  plan,      \* the pair of connections the schedule names, if it does
  jobs,      \* rows of the jobs table
  place,     \* their task rows: 0 none, else the next part to copy
  sync,      \* sync_state: the databases a pair's cursor was read in
  filled,    \* servers that have tables
  rows,      \* for each server: <<job, source, part>>
  run,       \* the run
  edits,     \* history: number of edits
  touched    \* history: connections changed, servers whose tables were dropped

endVars == <<conns, plan, jobs, place, sync, filled, rows, run, edits, touched>>

JobType == {"bulk", "range", "incremental"}
Idle == [stage |-> "idle", job |-> None, from |-> None, to |-> None, fresh |-> FALSE]
NoRow == [type |-> "bulk", src |-> None, dst |-> None, status |-> "none"]

EndTypeOK ==
  /\ conns \in [Ids -> Databases \cup {None}]
  /\ plan \subseteq Ids \X Ids
  /\ jobs \in [Jobs -> [type : JobType, src : Ids \cup {None}, dst : Ids \cup {None},
                        status : {"none", "pending", "running", "paused", "failed",
                                  "cancelled", "completed"}]]
  /\ place \in [Jobs -> 0 .. Parts + 1]
  /\ sync \in [Ids \X Ids -> {<<>>} \cup Oracles \X Servers]
  /\ filled \subseteq Servers
  /\ rows \in [Servers -> SUBSET (Jobs \X Oracles \X (1 .. Parts))]
  /\ run \in [stage : {"idle", "started", "source", "found", "copying"},
              job : Jobs \cup {None}, from : Databases \cup {None},
              to : Databases \cup {None}, fresh : BOOLEAN]
  /\ edits \in 0 .. MaxEdits /\ touched \subseteq Ids \cup Servers

EndInit ==
  /\ conns = [c \in Ids |-> None] /\ plan = {}
  /\ jobs = [j \in Jobs |-> NoRow] /\ place = [j \in Jobs |-> 0]
  /\ sync = [p \in Ids \X Ids |-> <<>>]
  /\ filled = {} /\ rows = [s \in Servers |-> {}]
  /\ run = Idle /\ edits = 0 /\ touched = {}

-----------------------------------------------------------------------------
\* Requests.  A name that ends in a _Word is a faulty variant of the
\* definition that follows it.

Edit(t) == edits < MaxEdits /\ edits' = edits + 1 /\ touched' = touched \cup t

\* POST /connections: a new id (a body that names one is a PUT).
PostConnection(c) ==
  /\ conns[c] = None /\ c \notin touched
  /\ \E db \in Databases : conns' = [conns EXCEPT ![c] = db]
  /\ UNCHANGED <<plan, jobs, place, sync, filled, rows, run, edits, touched>>

\* PUT /connections/{id}: nothing is checked, not even that it exists.
PutConnection(c) ==
  /\ \E db \in Databases \ {conns[c]} : conns' = [conns EXCEPT ![c] = db]
  /\ Edit(IF conns[c] = None THEN {} ELSE {c})
  /\ UNCHANGED <<plan, jobs, place, sync, filled, rows, run>>

\* DELETE /connections/{id}: jobs and schedule keep the id.
DeleteConnection(c) ==
  /\ conns[c] # None
  /\ conns' = [conns EXCEPT ![c] = None]
  /\ Edit({c})
  /\ UNCHANGED <<plan, jobs, place, sync, filled, rows, run>>

\* PUT /settings, as to the schedule.
PutSettings ==
  /\ plan' \in {{}} \cup {{p} : p \in Ids \X Ids}
  /\ UNCHANGED <<conns, jobs, place, sync, filled, rows, run, edits, touched>>

\* The tables of a server are dropped there.
DropTables(s) ==
  /\ s \in filled /\ run.to # s
  /\ filled' = filled \ {s} /\ rows' = [rows EXCEPT ![s] = {}]
  /\ Edit({s})
  /\ UNCHANGED <<conns, plan, jobs, place, sync, run>>

Insert(j, t, s, d) ==
  jobs' = [jobs EXCEPT ![j] = [type |-> t, src |-> s, dst |-> d, status |-> "pending"]]

\* POST /jobs: the pair must lead from Oracle to SQL Server, and a bulk job
\* to a server without tables.
CreateJob(j) ==
  /\ jobs[j].status = "none"
  /\ \E t \in JobType, s, d \in Ids :
       /\ conns[s] \in Oracles /\ conns[d] \in Servers
       /\ t = "bulk" => conns[d] \notin filled
       /\ Insert(j, t, s, d)
  /\ UNCHANGED <<conns, plan, place, sync, filled, rows, run, edits, touched>>

\* The scheduler's tick, when no job is active: the pair is not checked.
SchedCreate(j) ==
  /\ jobs[j].status = "none"
  /\ \A i \in Jobs : jobs[i].status \notin {"pending", "running", "paused"}
  /\ \E p \in plan : Insert(j, "incremental", p[1], p[2])
  /\ UNCHANGED <<conns, plan, place, sync, filled, rows, run, edits, touched>>

-----------------------------------------------------------------------------
\* The run.

StartJob(j) ==
  /\ run = Idle
  /\ jobs[j].status \in {"pending", "paused", "failed"}
  /\ jobs' = [jobs EXCEPT ![j].status = "pending"]
  /\ run' = [Idle EXCEPT !.stage = "started", !.job = j]
  /\ UNCHANGED <<conns, plan, place, sync, filled, rows, edits, touched>>

ReadSource ==
  /\ run.stage = "started"
  /\ conns[jobs[run.job].src] # None
  /\ run' = [run EXCEPT !.stage = "source", !.from = conns[jobs[run.job].src]]
  /\ UNCHANGED <<conns, plan, jobs, place, sync, filled, rows, edits, touched>>

ReadDest ==
  /\ run.stage = "source"
  /\ conns[jobs[run.job].dst] # None
  /\ run' = [run EXCEPT !.stage = "found", !.to = conns[jobs[run.job].dst]]
  /\ UNCHANGED <<conns, plan, jobs, place, sync, filled, rows, edits, touched>>

TasksOf_AnyJob(j) ==
  CHOOSE p \in {place[i] : i \in Jobs} : \A i \in Jobs : place[i] <= p

\* ListTableTasks
TasksOf(j) == place[j]

Blocked_AtCreation(j) == FALSE

\* DestinationMustBeEmpty, unless the job has task rows.
Blocked(j) == jobs[j].type = "bulk" /\ TasksOf(j) = 0 /\ run.to \in filled

\* Both databases are opened as what they should be, and tables are created.
Begin ==
  /\ run.stage = "found"
  /\ run.from \in Oracles /\ run.to \in Servers /\ ~ Blocked(run.job)
  /\ run' = [run EXCEPT !.stage = "copying", !.fresh = TasksOf(run.job) = 0]
  /\ jobs' = [jobs EXCEPT ![run.job].status = "running"]
  /\ filled' = filled \cup {run.to}
  /\ UNCHANGED <<conns, plan, place, sync, rows, edits, touched>>

\* The first task row is written, or the next part is copied.
Copy ==
  LET j == run.job
      p == TasksOf(j)
  IN
  /\ run.stage = "copying" /\ jobs[j].type # "incremental"
  /\ p <= Parts
  /\ place' = [place EXCEPT ![j] = p + 1]
  /\ rows' = IF p = 0 THEN rows ELSE [rows EXCEPT ![run.to] = @ \cup {<<j, run.from, p>>}]
  /\ UNCHANGED <<conns, plan, jobs, sync, filled, run, edits, touched>>

SyncKey_Swapped(s, d) == <<d, s>>

\* The id of a row of sync_state.
SyncKey(s, d) == <<s, d>>

SaveSync ==
  sync' = [sync EXCEPT ![SyncKey(jobs[run.job].src, jobs[run.job].dst)] = <<run.from, run.to>>]

\* A bulk job leaves a baseline for what it has copied, if it can read one.
Baseline ==
  /\ run.stage = "copying" /\ jobs[run.job].type = "bulk"
  /\ TasksOf(run.job) > 1
  /\ SaveSync
  /\ UNCHANGED <<conns, plan, jobs, place, filled, rows, run, edits, touched>>

End(status) ==
  /\ jobs' = [jobs EXCEPT ![run.job].status = status]
  /\ run' = Idle
  /\ UNCHANGED <<conns, plan, place, filled, rows, edits, touched>>

\* An incremental run saves a baseline, if GetSyncState finds none, or where
\* its changes led it.
Synchronise ==
  LET known == sync[SyncKey(jobs[run.job].src, jobs[run.job].dst)] # <<>> IN
  /\ run.stage = "copying" /\ jobs[run.job].type = "incremental"
  /\ SaveSync \/ (known /\ UNCHANGED sync)
  /\ End("completed")

\* Every worker has sent its message, a failed one too: a job may be completed
\* with parts left out.
Complete ==
  /\ run.stage = "copying" /\ jobs[run.job].type # "incremental"
  /\ End("completed") /\ UNCHANGED sync

\* A stop, or an error: a connection that is missing or leads nowhere, a
\* destination that is not empty, a failing database.
Break ==
  /\ run # Idle
  /\ \E status \in {"paused", "failed", "cancelled"} : End(status)
  /\ UNCHANGED sync

EndNext ==
  \/ \E c \in Ids : PostConnection(c) \/ PutConnection(c) \/ DeleteConnection(c)
  \/ PutSettings
  \/ \E s \in Servers : DropTables(s)
  \/ \E j \in Jobs : CreateJob(j) \/ SchedCreate(j) \/ StartJob(j)
  \/ ReadSource \/ ReadDest \/ Begin \/ Copy \/ Baseline \/ Synchronise \/ Complete \/ Break

EndSpec == EndInit /\ [][EndNext]_endVars

-----------------------------------------------------------------------------
\* What a job's task rows record as copied came from the database its source
\* leads to and is in the one its destination leads to, through any number of
\* runs, each of which looks both up anew - unless one of these was edited (a
\* resumed run does not notice that it goes on in another database), or the
\* tables were dropped (it does not notice that either).
RecordedIsThere ==
  \A j \in Jobs :
    LET s == jobs[j].src
        d == jobs[j].dst
    IN
    /\ jobs[j].status # "none"
    /\ jobs[j].type # "incremental"
    /\ touched \cap {s, d, conns[d]} = {}
    => \A p \in 1 .. Parts : p < place[j] => <<j, conns[s], p>> \in rows[conns[d]]

\* The cursor kept for a pair of connections was read in the databases they
\* lead to, unless one of them was edited: the next incremental run then
\* looks in one database for changes since a moment of another.
CursorsBelong ==
  \A s, d \in Ids :
    sync[<<s, d>>] # <<>> /\ touched \cap {s, d} = {}
    => sync[<<s, d>>] = <<conns[s], conns[d]>>

\* A bulk job's first copying run has the destination to itself, however many
\* bulk jobs were created while it was empty and whatever ran in between.
BulkStartsClean ==
  run.stage = "copying" /\ run.fresh /\ jobs[run.job].type = "bulk"
  => \A r \in rows[run.to] : r[1] = run.job
=============================================================================
