----------------------------- MODULE TablePool -----------------------------
(***************************************************************************)
(* The four engine runs of internal/migrate (RunBulk, RunDateRangeBackup,  *)
(* RunSchemaSample, RunIncremental) as far as they share one shape: read   *)
(* the job's table tasks, walk over the tables, start one goroutine per    *)
(* unfinished table under a semaphore, collect what they report on two     *)
(* channels.  One job is run up to MaxRuns times; it is resumed after a    *)
(* pause or a failure.                                                     *)
(*                                                                         *)
(* A run does not wait for the goroutines it started when it returns       *)
(* early.  They live on beside those of the next run, hold their own       *)
(* copies of the task records, and write them to the same rows.            *)
(*                                                                         *)
(* What a worker copies is not modelled here: copying a table succeeds or  *)
(* returns an error.  A message on a channel carries nothing the collector *)
(* uses but its arrival; it is represented by the table it came from.      *)
(***************************************************************************)
EXTENDS Naturals, FiniteSets

CONSTANTS Tables,    \* the tables the job covers
          Dateless,  \* those without a date column (date-range runs skip them)
          Parallel,  \* jobs.parallel_tables
          Modes,     \* the job types considered
          MaxRuns    \* bound: how often the job is started

ASSUME TableAssumption ==
  /\ IsFiniteSet(Tables) /\ Tables # {} /\ Dateless \subseteq Tables
  /\ Parallel \in Nat \ {0} /\ MaxRuns \in Nat
  /\ Modes \subseteq {"bulk", "range", "sample", "incremental"}

VARIABLES
  mode,     \* jobs.type
  job,      \* jobs.status
  started,  \* jobs.started_at is set
  counted,  \* jobs.tables_done
  task,     \* table_tasks.status of each table; "none" before the row exists
  dest,     \* tables that exist in the destination schema
  n,        \* number of the current (or last) run
  main,     \* where that run is
  stop,     \* for each run: its context is cancelled
  seen,     \* tables the current run read as completed when it began
  visited,  \* tables its first loop (schema, scan) has been through
  pending,  \* for each run: the tables it starts workers for
  heard,    \* workers the current run's collector has received done from
  worker,   \* for each run and table: the worker goroutine
  errCh,    \* for each run: errors in the channel
  done,     \* for each run: messages in the channel done
  alone     \* history: no worker of an earlier run was left when it began

jobVars  == <<mode, job, started, counted>>
runVars  == <<n, main, seen, visited, pending, heard, alone>>
chanVars == <<errCh, done>>
vars == <<jobVars, task, dest, runVars, stop, worker, chanVars>>

Runs == 1 .. MaxRuns
JobStatus  == {"pending", "running", "paused", "failed", "completed"}
TaskStatus == {"none", "running", "paused", "failed", "completed"}
MainPC == {"idle", "connecting", "scanning", "launching", "collecting", "returned"}

\* A worker: spawned (nothing done yet), copying (its task row says running),
\* erred or copied (copyTable has returned), reporting (about to send on
\* errCh), leaving (about to run its deferred function), over.  "left" is the
\* status it gave its task row in the end.
WorkerPC == {"none", "spawned", "copying", "erred", "copied", "reporting",
             "leaving", "over"}
Worker == [pc : WorkerPC, left : {"none", "paused", "failed", "completed"}]
NoWorker == [pc |-> "none", left |-> "none"]

Live(r, t) == worker[r][t].pc \notin {"none", "over"}
\* Between its first and its last write to the task row.
Writing(r, t) == worker[r][t].pc \in {"copying", "erred", "copied"}

TypeOK ==
  /\ mode \in Modes
  /\ job \in JobStatus /\ started \in BOOLEAN /\ counted \in Nat
  /\ task \in [Tables -> TaskStatus]
  /\ dest \subseteq Tables
  /\ n \in 0 .. MaxRuns /\ main \in MainPC
  /\ stop \in [Runs -> BOOLEAN]
  /\ seen \subseteq Tables /\ visited \subseteq Tables
  /\ pending \in [Runs -> SUBSET Tables] /\ heard \subseteq Tables
  /\ worker \in [Runs -> [Tables -> Worker]]
  /\ errCh \in [Runs -> SUBSET Tables] /\ done \in [Runs -> SUBSET Tables]
  /\ alone \in BOOLEAN

Init ==
  /\ mode \in Modes
  /\ job = "pending" /\ started = FALSE /\ counted = 0
  /\ task = [t \in Tables |-> "none"]
  /\ dest = {}
  /\ n = 0 /\ main = "idle" /\ alone = TRUE
  /\ stop = [r \in Runs |-> FALSE]
  /\ seen = {} /\ visited = {} /\ heard = {}
  /\ pending = [r \in Runs |-> {}]
  /\ worker = [r \in Runs |-> [t \in Tables |-> NoWorker]]
  /\ errCh = [r \in Runs |-> {}] /\ done = [r \in Runs |-> {}]

-----------------------------------------------------------------------------
\* As in JobRunner, a name that ends in a _Word is a faulty variant of the
\* definition that follows it; no action uses it.

\* The goroutine Runner.run, inside Engine.Run*.

\* Runner.StartJob.
StartRun ==
  /\ main = "idle"
  /\ n < MaxRuns
  /\ job \in {"pending", "paused", "failed"}
  /\ n' = n + 1
  /\ main' = "connecting"
  /\ job' = IF job = "pending" THEN job ELSE "running"
  /\ alone' = \A r \in Runs, t \in Tables : ~ Live(r, t)
  /\ UNCHANGED <<mode, started, counted, task, dest, stop, seen, visited,
                 pending, heard, worker, chanVars>>

\* Runner.PauseJob.
PauseRun ==
  /\ main # "idle"
  /\ ~ stop[n]
  /\ stop' = [stop EXCEPT ![n] = TRUE]
  /\ UNCHANGED <<jobVars, task, dest, runVars, worker, chanVars>>

\* ListTableTasks, and what makes the run a resumed one.
Completed == {t \in Tables : task[t] = "completed"}
Resuming == started /\ \E t \in Tables : task[t] # "none"

\* RunBulk refuses a destination that has tables, unless it resumes.
Blocked == mode = "bulk" /\ ~ Resuming /\ dest # {}

\* Both databases were opened, which takes a context that is not cancelled.
Begin ==
  /\ main = "connecting"
  /\ ~ stop[n]
  /\ ~ Blocked
  /\ started' = TRUE
  /\ job' = "running"
  /\ seen' = Completed
  /\ visited' = {} /\ heard' = {}
  /\ main' = "scanning"
  /\ UNCHANGED <<mode, counted, task, dest, n, stop, pending, alone, worker, chanVars>>

\* A date-range run with dates skips a table without a date column: its task
\* is completed on the spot, in every run.
Skips(t) == mode = "range" /\ t \in Dateless

\* Body of the first loop: schema (which creates the table) or scan.  It begins
\* with a look at the context (in an incremental run, with a query under it).
\* A sample run leaves a completed table alone.
Visit(t) ==
  /\ main = "scanning"
  /\ ~ stop[n]
  /\ t \notin visited
  /\ visited' = visited \cup {t}
  /\ task' = IF Skips(t) THEN [task EXCEPT ![t] = "completed"] ELSE task
  /\ dest' = IF Skips(t) \/ mode = "incremental" \/ (mode = "sample" /\ t \in seen)
             THEN dest ELSE dest \cup {t}
  /\ job' = "running"
  /\ UNCHANGED <<mode, started, counted, n, main, stop, seen, pending, heard,
                 alone, worker, chanVars>>

Remaining_All == {t \in Tables : ~ Skips(t)}
Remaining_Untried == {t \in Tables : task[t] = "none" /\ ~ Skips(t)}

\* The tables left to do are those that were not completed at the beginning.
Remaining == {t \in Tables : t \notin seen /\ ~ Skips(t)}

\* A resumed incremental run that finds nothing left to do is completed at
\* once; the progress count stays as an earlier run left it.
NothingLeft ==
  /\ main = "scanning"
  /\ visited = Tables
  /\ mode = "incremental" /\ Remaining = {}
  /\ job' = "completed"
  /\ main' = "idle"
  /\ UNCHANGED <<mode, started, counted, task, dest, n, stop, seen, visited,
                 pending, heard, alone, worker, chanVars>>

Scanned ==
  /\ main = "scanning"
  /\ visited = Tables
  /\ mode = "incremental" => Remaining # {}
  /\ counted' = Cardinality(seen) + Cardinality({t \in Tables : Skips(t)})
  /\ job' = "running"
  /\ pending' = [pending EXCEPT ![n] = Remaining]
  /\ main' = "launching"
  /\ UNCHANGED <<mode, started, task, dest, n, stop, seen, visited, heard,
                 alone, worker, chanVars>>

\* The semaphore: workers of the current run that have not released it.
InUse == Cardinality({t \in Tables : Live(n, t)})

\* case sem <- struct{}{} of the launch loop (either case may be taken when
\* the context is cancelled as well).
Launch(t) ==
  /\ main = "launching"
  /\ t \in pending[n]
  /\ worker[n][t].pc = "none"
  /\ InUse < Parallel
  /\ worker' = [worker EXCEPT ![n][t].pc = "spawned"]
  /\ UNCHANGED <<jobVars, task, dest, runVars, stop, chanVars>>

Launched ==
  /\ main = "launching"
  /\ \A t \in pending[n] : worker[n][t].pc # "none"
  /\ main' = "collecting"
  /\ UNCHANGED <<jobVars, task, dest, n, seen, visited, pending, heard, alone,
                 stop, worker, chanVars>>

\* case <-done of the collector.
HearDone(t) ==
  /\ main = "collecting"
  /\ heard # pending[n]
  /\ t \in done[n]
  /\ done' = [done EXCEPT ![n] = @ \ {t}]
  /\ heard' = heard \cup {t}
  /\ counted' = counted + 1
  /\ job' = "running"
  /\ UNCHANGED <<mode, started, task, dest, n, main, seen, visited, pending,
                 alone, stop, worker, errCh>>

\* case err := <-errCh.
HearError(t) ==
  /\ main = "collecting"
  /\ heard # pending[n]
  /\ t \in errCh[n]
  /\ errCh' = [errCh EXCEPT ![n] = @ \ {t}]
  /\ main' = "returned"
  /\ UNCHANGED <<jobVars, task, dest, n, seen, visited, pending, heard, alone,
                 stop, worker, done>>

\* case <-ctx.Done(), of the body of either loop and of the collector's.
SeeStop ==
  /\ \/ main = "scanning" /\ visited # Tables
     \/ main = "launching" /\ \E t \in pending[n] : worker[n][t].pc = "none"
     \/ main = "collecting" /\ heard # pending[n]
  /\ stop[n]
  /\ main' = "returned"
  /\ UNCHANGED <<jobVars, task, dest, n, seen, visited, pending, heard, alone,
                 stop, worker, chanVars>>

\* Connecting, listing or describing tables, or creating one fails, or the
\* destination is not empty.
Fail ==
  /\ main = "connecting" \/ (main = "scanning" /\ visited # Tables)
  /\ main' = "returned"
  /\ UNCHANGED <<jobVars, task, dest, n, seen, visited, pending, heard, alone,
                 stop, worker, chanVars>>

\* The collector's loop is through: the run has succeeded.
Finish ==
  /\ main = "collecting"
  /\ heard = pending[n]
  /\ job' = "completed"
  /\ main' = "idle"
  /\ UNCHANGED <<mode, started, counted, task, dest, n, seen, visited, pending,
                 heard, alone, stop, worker, chanVars>>

Settle_Typo ==
  /\ main = "returned"
  /\ job' = IF stop[n] THEN "paused" ELSE "error"
  /\ main' = "idle"
  /\ UNCHANGED <<mode, started, counted, task, dest, n, seen, visited, pending,
                 heard, alone, stop, worker, chanVars>>

\* The run has returned an error: Runner.run's verdict (paused also if the
\* error is a chunk timeout).
Settle ==
  /\ main = "returned"
  /\ job' \in IF stop[n] THEN {"paused"} ELSE {"failed", "paused"}
  /\ main' = "idle"
  /\ UNCHANGED <<mode, started, counted, task, dest, n, seen, visited, pending,
                 heard, alone, stop, worker, chanVars>>

-----------------------------------------------------------------------------
\* The worker goroutine of run r for table t.  It may be an orphan: r < n, or
\* run r has returned.

\* First write to the task row.  An incremental worker writes the job row too.
Take(r, t) ==
  /\ worker[r][t].pc = "spawned"
  /\ worker' = [worker EXCEPT ![r][t].pc = "copying"]
  /\ task' = [task EXCEPT ![t] = "running"]
  /\ job' = IF mode = "incremental" THEN "running" ELSE job
  /\ UNCHANGED <<mode, started, counted, dest, runVars, stop, chanVars>>

\* copyTable (syncTableIncremental) returns; once the context is cancelled, at
\* its next look at it or its next query, with an error.
CopyReturns(r, t) ==
  /\ worker[r][t].pc = "copying"
  /\ \E pc \in {"erred", "copied"} :
        /\ pc = "copied" => ~ stop[r]
        /\ worker' = [worker EXCEPT ![r][t].pc = pc]
  /\ UNCHANGED <<jobVars, task, dest, runVars, stop, chanVars>>

GiveUp_PauseUnsaved(r, t) ==
  /\ worker[r][t].pc = "erred"
  /\ IF stop[r]
     THEN /\ worker' = [worker EXCEPT ![r][t] = [pc |-> "leaving", left |-> "paused"]]
          /\ UNCHANGED task
     ELSE /\ worker' = [worker EXCEPT ![r][t] = [pc |-> "reporting", left |-> "failed"]]
          /\ task' = [task EXCEPT ![t] = "failed"]
  /\ UNCHANGED <<jobVars, dest, runVars, stop, chanVars>>

GiveUp_Silent(r, t) ==
  /\ worker[r][t].pc = "erred"
  /\ LET s == IF stop[r] THEN "paused" ELSE "failed" IN
     /\ worker' = [worker EXCEPT ![r][t] = [pc |-> "leaving", left |-> s]]
     /\ task' = [task EXCEPT ![t] = s]
  /\ UNCHANGED <<jobVars, dest, runVars, stop, chanVars>>

\* It returned an error: the task is paused if the context is cancelled, and
\* failed otherwise.  (A sample worker that cannot count the destination's
\* rows does not look at the context.)
GiveUp(r, t) ==
  /\ worker[r][t].pc = "erred"
  /\ \/ /\ stop[r]
        /\ worker' = [worker EXCEPT ![r][t] = [pc |-> "leaving", left |-> "paused"]]
        /\ task' = [task EXCEPT ![t] = "paused"]
     \/ /\ ~ stop[r] \/ mode = "sample"
        /\ worker' = [worker EXCEPT ![r][t] = [pc |-> "reporting", left |-> "failed"]]
        /\ task' = [task EXCEPT ![t] = "failed"]
  /\ UNCHANGED <<jobVars, dest, runVars, stop, chanVars>>

\* It returned nil.
Complete(r, t) ==
  /\ worker[r][t].pc = "copied"
  /\ worker' = [worker EXCEPT ![r][t] = [pc |-> "leaving", left |-> "completed"]]
  /\ task' = [task EXCEPT ![t] = "completed"]
  /\ UNCHANGED <<jobVars, dest, runVars, stop, chanVars>>

Room_Parallel(r) == Parallel

\* Both channels are made with room for one message of each table.
Room(r) == Cardinality(pending[r])

ReportError(r, t) ==
  /\ worker[r][t].pc = "reporting"
  /\ Cardinality(errCh[r]) < Room(r)
  /\ errCh' = [errCh EXCEPT ![r] = @ \cup {t}]
  /\ worker' = [worker EXCEPT ![r][t].pc = "leaving"]
  /\ UNCHANGED <<jobVars, task, dest, runVars, stop, done>>

SendsDone_Always(r, t) == TRUE

\* Whether a worker sends on done: from a deferred function, hence always,
\* but in an incremental run only after a success.
SendsDone(r, t) == mode = "incremental" => worker[r][t].left = "completed"

\* The deferred function (with, in an incremental run, the send before it).
Leave(r, t) ==
  /\ worker[r][t].pc = "leaving"
  /\ IF SendsDone(r, t)
     THEN /\ Cardinality(done[r]) < Room(r)
          /\ done' = [done EXCEPT ![r] = @ \cup {t}]
     ELSE UNCHANGED done
  /\ worker' = [worker EXCEPT ![r][t].pc = "over"]
  /\ UNCHANGED <<jobVars, task, dest, runVars, stop, errCh>>

-----------------------------------------------------------------------------
MainNext ==
  \/ StartRun \/ PauseRun
  \/ Begin \/ NothingLeft \/ Scanned \/ Launched \/ SeeStop \/ Fail \/ Finish \/ Settle
  \/ \E t \in Tables : Visit(t) \/ Launch(t) \/ HearDone(t) \/ HearError(t)

WorkerNext(r, t) ==
  \/ Take(r, t) \/ CopyReturns(r, t) \/ GiveUp(r, t) \/ Complete(r, t)
  \/ ReportError(r, t) \/ Leave(r, t)

Next == MainNext \/ \E r \in Runs, t \in Tables : WorkerNext(r, t)

Spec == Init /\ [][Next]_vars

\* A run's own steps, without the requests that start and pause it.  Go runs
\* every goroutine that can run, and copyTable returns: tables are finite and
\* each chunk has a timeout.
RunSteps ==
  \/ Begin \/ NothingLeft \/ Scanned \/ Launched \/ SeeStop \/ Fail \/ Finish \/ Settle
  \/ \E t \in Tables : Visit(t) \/ Launch(t) \/ HearDone(t) \/ HearError(t)

FairSpec ==
  /\ Spec
  /\ WF_vars(RunSteps)
  /\ \A r \in Runs, t \in Tables : WF_vars(WorkerNext(r, t))

-----------------------------------------------------------------------------
\* A task row never stays at running with nobody at work on the table: every
\* way out of a worker, an orphan's included, rewrites the row first.
RunningTaskHasWorker ==
  \A t \in Tables : task[t] = "running" => \E r \in Runs : Writing(r, t)

\* A run that reports success has heard from every worker it started, and none
\* of them is left behind.  In an incremental run each of them succeeded.
CompletedRunIsOver ==
  main = "idle" /\ job = "completed" =>
    \A t \in pending[n] :
      /\ ~ Live(n, t)
      /\ worker[n][t].left # "none"
      /\ mode = "incremental" => worker[n][t].left = "completed"

\* The task rows agree with that, if no worker of an earlier run was left when
\* the run began: no table is forgotten or shown as being worked on, and a
\* completed incremental job has completed all its tables.
CompletedJobIsTruthful ==
  main = "idle" /\ job = "completed" /\ alone =>
    \A t \in Tables :
      /\ task[t] \in {"completed", "failed", "paused"}
      /\ mode = "incremental" => task[t] = "completed"

\* A job that completes shows all its tables as done.  Two exceptions: a
\* resumed date-range run counts twice the tables it skipped before (as
\* completed, and as skipped), and a resumed incremental run that found nothing
\* left to do does not count at all, so that the number an earlier, stopped run
\* had reached stays, which may be too small but never too large.
CountsEveryTable ==
  main = "idle" /\ job = "completed" =>
    \/ counted = Cardinality(Tables) + Cardinality({t \in seen : Skips(t)})
    \/ /\ mode = "incremental" /\ seen = Tables
       /\ counted <= Cardinality(Tables)

\* No run hangs: not in the launch loop for want of a slot, and not in the
\* collector for want of a message.
RunEnds == (main # "idle") ~> (main = "idle")

\* No worker hangs either, although nobody may be left to read its channels.
WorkersEnd == \A r \in Runs, t \in Tables : Live(r, t) ~> ~ Live(r, t)

-----------------------------------------------------------------------------
\* What the documentation says, which the code does not keep.

\* README.md:130, of Bulk migration: "loads all rows".  A bulk job that is
\* shown as completed has completed every table.
CompletedBulkLoadedAll ==
  mode = "bulk" /\ job = "completed" => \A t \in Tables : task[t] = "completed"

\* web/static/index.html:100, of a paused migration: "Adjust settings and
\* resume".  A job that has been started before is not refused because the
\* destination holds the tables it created.
ResumeIsNotBlocked == ~ (main = "connecting" /\ started /\ Blocked)
=============================================================================
