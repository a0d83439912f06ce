----------------------------- MODULE TableCopy -----------------------------
(***************************************************************************)
(* Copying one table (copyTable in internal/migrate/engine.go) with the    *)
(* resilient writer of internal/dbconn/insert_resilient.go, as the workers *)
(* of RunBulk, RunDateRangeBackup and RunSchemaSample call it.             *)
(*                                                                         *)
(* Rows are numbered in ROWID order and do not change during the copy.     *)
(* The worker reads a chunk after its cursor, writes it in transactions    *)
(* that are split when they fail, moves the cursor, and goes on.  A run    *)
(* that returns closes the databases; its worker may live on beside the    *)
(* next run's, with its own copy of the task record.                       *)
(*                                                                         *)
(* One step is one transaction, one read or one write of the task row.     *)
(* Writes to the local store succeed.                                      *)
(***************************************************************************)
EXTENDS Integers, FiniteSets

CONSTANTS N,           \* rows of the table
          Bad,         \* rows the destination refuses in any form
          Coercible,   \* rows it takes only after CoerceRowForMSSQL
          Settings,    \* what a job can be set to: [batch, range, cap]
          Created,     \* the settings a job is created with
          SampleRows,  \* SchemaSampleRowsPerTable
          MergeLimit,  \* rows whose parameters fit in one MERGE
          Modes,       \* job types considered
          MaxRuns,     \* bound: runs of the job
          MaxFaults    \* bound: transactions that fail for no lasting reason

Rows == 1 .. N
Setting == [batch : Nat \ {0}, range : SUBSET Rows, cap : Nat]

ASSUME CopyAssumption ==
  /\ N \in Nat /\ Bad \subseteq Rows /\ Coercible \subseteq Rows
  /\ Created \subseteq Settings /\ \A s \in Settings : s \in Setting
  /\ SampleRows \in Nat \ {0} /\ MergeLimit \in Nat \ {0}
  /\ Modes \subseteq {"bulk", "range", "sample"}
  /\ MaxRuns \in Nat /\ MaxFaults \in Nat

VARIABLES
  mode, keyed,  \* jobs.type; whether the table has a primary key
  settings,     \* batch size, date range and row cap in the job row
  n, main,      \* number of the latest run; whether it is "on"
  stop,         \* for each run: its context is cancelled
  closed,       \* for each run: it has returned and closed its databases
  snap,         \* the task row as the latest run read it when it began
  task,         \* the row of table_tasks
  dest,         \* how often each row is in the destination table
  logged,       \* rows in insert_failures
  worker,       \* for each run: its copyTable goroutine
  common,       \* history: rows in the date range of every run so far
  faults,       \* history: transactions that failed for no lasting reason
  events        \* history: what has happened that weakens a promise

jobVars  == <<mode, keyed, settings>>
runVars  == <<n, main, stop, closed, snap>>
dataVars == <<dest, logged>>
history  == <<common, faults, events>>
vars == <<jobVars, runVars, task, dataVars, worker, history>>

Runs == 1 .. MaxRuns
Task == [status : {"none", "running", "paused", "failed", "completed"},
         cursor : 0 .. N, count : Nat]

\* A worker: taken (a sample worker that has not looked at the destination),
\* ready (to prepare the table), looping (before a read), writing (a chunk),
\* erred or copied (copyTable has returned), over.
Worker ==
  [pc      : {"none", "taken", "ready", "looping", "writing", "erred", "copied", "over"},
   set     : Setting,            \* what its run works with
   last    : 0 .. N,             \* lastRowID
   total   : Nat,                \* rows inserted, those of earlier runs included
   chunk   : SUBSET Rows,        \* the rows read
   short   : BOOLEAN,            \* fewer of them than asked for
   parts   : SUBSET SUBSET Rows, \* partitions still to be tried
   singles : SUBSET Rows,        \* rows handleFailedRow has still to try
   coerced : BOOLEAN,            \* the next of them was refused as it is
   late    : BOOLEAN,            \* the time of the chunk is over
   saved   : BOOLEAN]            \* copyTable has written the task row

NoWorker == [pc |-> "none", set |-> [batch |-> 1, range |-> {}, cap |-> 0],
             last |-> 0, total |-> 0, chunk |-> {}, short |-> FALSE, parts |-> {},
             singles |-> {}, coerced |-> FALSE, late |-> FALSE, saved |-> FALSE]

Live(r) == worker[r].pc \notin {"none", "over"}

Event == {"ambiguous", \* a transaction took effect and reported an error
          "overlap",   \* a run began while an earlier worker was alive
          "reset",     \* a table that could not be prepared lost its count
          "capped",    \* a worker stopped at the row cap
          "skipped",   \* a sample worker found rows and left them alone
          "cut",       \* a row was given up because of a stop, timeout or close
          "patched"}   \* the settings were changed between two runs

TypeOK ==
  /\ mode \in Modes /\ keyed \in BOOLEAN /\ settings \in Settings
  /\ n \in 0 .. MaxRuns /\ main \in {"idle", "on", "finished"}
  /\ stop \in [Runs -> BOOLEAN] /\ closed \in [Runs -> BOOLEAN]
  /\ snap \in Task /\ task \in Task
  /\ dest \in [Rows -> Nat] /\ logged \subseteq Rows
  /\ worker \in [Runs -> Worker]
  /\ common \subseteq Rows /\ faults \in 0 .. MaxFaults /\ events \subseteq Event

Init ==
  /\ mode \in Modes /\ keyed \in BOOLEAN /\ settings \in Created
  /\ n = 0 /\ main = "idle"
  /\ stop = [r \in Runs |-> FALSE] /\ closed = [r \in Runs |-> FALSE]
  /\ task = [status |-> "none", cursor |-> 0, count |-> 0] /\ snap = task
  /\ dest = [x \in Rows |-> 0] /\ logged = {}
  /\ worker = [r \in Runs |-> NoWorker]
  /\ common = Rows /\ faults = 0 /\ events = {}

-----------------------------------------------------------------------------
\* A name that ends in a _Word is a faulty variant of the definition that
\* follows it; no action uses it.

\* The job and its runs.

\* What a run makes of the settings: only a date-range run has bounds, and a
\* sample run has a batch and a cap of its own.
Effective(s) ==
  [batch |-> IF mode = "sample" THEN SampleRows ELSE s.batch,
   range |-> IF mode = "range" THEN s.range ELSE Rows,
   cap   |-> IF mode = "sample" THEN SampleRows ELSE s.cap]

\* A run begins: job row and task rows are read.
Start ==
  /\ main = "idle" /\ n < MaxRuns
  /\ n' = n + 1 /\ main' = "on"
  /\ snap' = task
  /\ common' = common \cap Effective(settings).range
  /\ events' = events \cup IF \E r \in Runs : Live(r) THEN {"overlap"} ELSE {}
  /\ UNCHANGED <<jobVars, stop, closed, task, dataVars, worker, faults>>

\* The body of the launch loop and the first write of the goroutine: a table
\* that was completed when the run began is left alone.
Launch ==
  /\ main = "on"
  /\ worker[n].pc = "none"
  /\ snap.status # "completed"
  /\ worker' = [worker EXCEPT ![n] =
       [NoWorker EXCEPT !.pc = IF mode = "sample" THEN "taken" ELSE "ready",
                        !.set = Effective(settings),
                        !.last = snap.cursor, !.total = snap.count]]
  /\ task' = [snap EXCEPT !.status = "running"]
  /\ UNCHANGED <<jobVars, runVars, dataVars, history>>

\* PauseJob or CancelJob.
Stop ==
  /\ main = "on" /\ ~ stop[n]
  /\ stop' = [stop EXCEPT ![n] = TRUE]
  /\ UNCHANGED <<jobVars, n, main, closed, snap, task, dataVars, worker, history>>

\* The run returns, at any moment: because of the stop, or of an error of
\* this table or of another one.  Its deferred calls close the databases.
Return ==
  /\ main = "on"
  /\ main' = "idle"
  /\ closed' = [closed EXCEPT ![n] = TRUE]
  /\ UNCHANGED <<jobVars, n, stop, snap, task, dataVars, worker, history>>

\* Or it completes the job, when no worker is left.
Finish ==
  /\ main = "on"
  /\ worker[n].pc = "over" \/ (worker[n].pc = "none" /\ snap.status = "completed")
  /\ main' = "finished"
  /\ closed' = [closed EXCEPT ![n] = TRUE]
  /\ UNCHANGED <<jobVars, n, stop, snap, task, dataVars, worker, history>>

\* PATCH /jobs/{id}, allowed while the job is paused or failed.
Patch ==
  /\ main = "idle" /\ n \in 1 .. MaxRuns - 1
  /\ settings' \in Settings \ {settings}
  /\ events' = events \cup {"patched"}
  /\ UNCHANGED <<mode, keyed, runVars, task, dataVars, worker, common, faults>>

-----------------------------------------------------------------------------
\* The worker of run r.

Become(r, w) == worker' = [worker EXCEPT ![r] = w]
Note(e) == events' = events \cup e

\* UpsertTableTask with the worker's own record.
Save(w, status) == task' = [status |-> status, cursor |-> w.last, count |-> w.total]

\* The worker's context or connection is gone: its transactions cannot begin.
Dead(r) == stop[r] \/ closed[r] \/ worker[r].late

\* A sample worker counts the destination's rows: it may fail to (the table
\* fails, whatever the context), find some (the table is done), or find none.
CountRows(r) ==
  LET w == worker[r] IN
  /\ w.pc = "taken"
  /\ \/ /\ Save(w, "failed") /\ Become(r, [NoWorker EXCEPT !.pc = "over"])
        /\ UNCHANGED events
     \/ /\ ~ Dead(r) /\ \E x \in Rows : dest[x] > 0
        /\ Save([w EXCEPT !.total = 0], "completed")
        /\ Become(r, [NoWorker EXCEPT !.pc = "over"])
        /\ Note({"skipped"})
     \/ /\ ~ Dead(r) /\ \A x \in Rows : dest[x] = 0
        /\ Become(r, [w EXCEPT !.pc = "ready"])
        /\ UNCHANGED <<task, events>>
  /\ UNCHANGED <<jobVars, runVars, dataVars, common, faults>>

\* PrepareDestinationTableInferred.  If it fails copyTable returns 0 rows,
\* while the task record keeps its cursor.
Prepare(r) ==
  LET w == worker[r] IN
  /\ w.pc = "ready"
  /\ \/ /\ ~ Dead(r)
        /\ Become(r, [w EXCEPT !.pc = "looping"])
        /\ UNCHANGED events
     \/ /\ Become(r, [w EXCEPT !.pc = "erred", !.total = 0])
        /\ Note(IF w.total > 0 THEN {"reset"} ELSE {})
  /\ UNCHANGED <<jobVars, runVars, task, dataVars, common, faults>>

EffectiveBatch_NoRemainder(w) ==
  IF w.set.cap = 0 \/ w.total < w.set.cap THEN w.set.batch ELSE 0

\* effectiveBatch: what the cap leaves of the batch size.
EffectiveBatch(w) ==
  IF w.set.cap = 0 THEN w.set.batch
  ELSE IF w.total >= w.set.cap THEN 0
  ELSE IF w.set.cap - w.total < w.set.batch THEN w.set.cap - w.total ELSE w.set.batch

Short_OffByOne(c, b) == Cardinality(c) <= b

\* A chunk that is not full is the last one.
Short(c, b) == Cardinality(c) < b

\* The first k members of S (one set, or none if S is smaller).
Firsts(S, k) ==
  {C \in SUBSET S : Cardinality(C) = k /\ \A x \in C, y \in S \ C : x < y}

Ahead_Inclusive(w) == {x \in w.set.range : x >= w.last}

\* fetchFullChunk: rows of the date range after the cursor, in ROWID order.
Ahead(w) == {x \in w.set.range : x > w.last}

\* The loop's context check and a failing read leave by the same way.
ReadFails(r) ==
  LET w == worker[r] IN
  /\ w.pc = "looping"
  /\ stop[r] \/ EffectiveBatch(w) > 0
  /\ Become(r, [w EXCEPT !.pc = "erred"])
  /\ UNCHANGED <<jobVars, runVars, task, dataVars, history>>

\* Nothing may be read any more: the cap is reached.
ReachCap(r) ==
  LET w == worker[r] IN
  /\ w.pc = "looping" /\ ~ stop[r]
  /\ EffectiveBatch(w) = 0
  /\ Become(r, [w EXCEPT !.pc = "copied"])
  /\ Note({"capped"})
  /\ UNCHANGED <<jobVars, runVars, task, dataVars, common, faults>>

Read(r) ==
  LET w == worker[r]
      b == EffectiveBatch(w)
  IN
  /\ w.pc = "looping" /\ ~ stop[r] /\ ~ closed[r]
  /\ b > 0
  /\ IF Ahead(w) = {}
     THEN Become(r, [w EXCEPT !.pc = "copied"])
     ELSE \E c \in Firsts(Ahead(w), b)
                     \cup IF Cardinality(Ahead(w)) < b THEN {Ahead(w)} ELSE {} :
            Become(r, [w EXCEPT !.pc = "writing", !.chunk = c, !.parts = {c},
                                !.short = Short(c, b), !.late = FALSE])
  /\ UNCHANGED <<jobVars, runVars, task, dataVars, history>>

\* The chunk's own deadline passes.  (In a read it makes the read fail.)
Expire(r) ==
  /\ worker[r].pc = "writing" /\ ~ Dead(r)
  /\ worker' = [worker EXCEPT ![r].late = TRUE]
  /\ UNCHANGED <<jobVars, runVars, task, dataVars, history>>

-----------------------------------------------------------------------------
\* WriteRowsMSSQL: the chunk is one partition at first.  It never returns an
\* error.  Date-range backups upsert.

Upsert == mode = "range"
Merge  == Upsert /\ keyed     \* mergeChunk inserts if there is no key

\* Inserting a row again violates the key, if there is one.
Duplicate(x) == keyed /\ ~ Upsert /\ dest[x] > 0
Misfit(x) == x \in Bad \cup Coercible
Oversize(P) == Merge /\ Cardinality(P) > MergeLimit

\* One transaction of bulkInsertMSSQL or one MERGE, committed.
Insert(P) ==
  dest' = [x \in Rows |-> IF x \notin P THEN dest[x]
                          ELSE IF Merge THEN 1 ELSE dest[x] + 1]

\* Partitions and single rows are worked through from the left.
Leftmost(w, P) == \A x \in P, y \in (UNION w.parts) \cup w.singles : y \in P \/ x < y

SplitAt_Tailless(w, P, i) ==
  [w EXCEPT !.parts = ((@ \ {P}) \cup {{x \in P : x < i}}) \ {{}},
            !.singles = @ \cup {i}]

\* writeRowsBulkSplitAt: the failing row is known.
SplitAt(w, P, i) ==
  [w EXCEPT !.parts = ((@ \ {P}) \cup {{x \in P : x < i}, {x \in P : x > i}}) \ {{}},
            !.singles = @ \cup {i}]

\* rows[:mid] with mid = len(rows) / 2
Halves(P) == Firsts(P, Cardinality(P) \div 2)

\* writeRowsBulkUnknownFailure, writeRowsMergePartition: it is not.
Halve(w, P) ==
  IF Cardinality(P) = 1
  THEN {[w EXCEPT !.parts = @ \ {P}, !.singles = @ \cup P]}
  ELSE {[w EXCEPT !.parts = (@ \ {P}) \cup {L, P \ L}] : L \in Halves(P)}

PartGoesIn(r, P) ==
  LET w == worker[r] IN
  /\ ~ Dead(r) /\ ~ Oversize(P)
  /\ \A x \in P : ~ Misfit(x) /\ ~ Duplicate(x)
  /\ Insert(P)
  /\ Become(r, [w EXCEPT !.parts = @ \ {P}, !.total = @ + Cardinality(P)])
  /\ UNCHANGED <<faults, events>>

\* It fails, and would again.  CopyIn reports the first row it cannot
\* convert; other failures show when the batch is flushed or begun.
PartFails(r, P) ==
  LET w == worker[r] IN
  /\ \/ /\ Dead(r) \/ Oversize(P) \/ \E x \in P : Misfit(x) \/ Duplicate(x)
        /\ \E v \in Halve(w, P) : Become(r, v)
     \/ /\ ~ Dead(r) /\ ~ Upsert
        /\ \E i \in P : /\ Misfit(i) /\ \A x \in P : Misfit(x) => i <= x
                        /\ Become(r, SplitAt(w, P, i))
  /\ UNCHANGED <<dest, faults, events>>

\* It fails for a passing reason, at a row or in the commit, which may have
\* taken effect.  (A stop that breaks a commit is this step, then the stop.)
PartFaults(r, P) ==
  LET w == worker[r] IN
  /\ ~ Dead(r) /\ faults < MaxFaults /\ faults' = faults + 1
  /\ \/ /\ \E v \in Halve(w, P) : Become(r, v)
        /\ UNCHANGED <<dest, events>>
     \/ /\ ~ Upsert
        /\ \E i \in P : Become(r, SplitAt(w, P, i))
        /\ UNCHANGED <<dest, events>>
     \/ /\ ~ Oversize(P) /\ \A x \in P : ~ Misfit(x) /\ ~ Duplicate(x)
        /\ \E v \in Halve(w, P) : Become(r, v)
        /\ Insert(P) /\ Note({"ambiguous"})

WritePart(r) ==
  /\ worker[r].pc = "writing"
  /\ \E P \in worker[r].parts :
       /\ Leftmost(worker[r], P)
       /\ PartGoesIn(r, P) \/ PartFails(r, P) \/ PartFaults(r, P)
  /\ UNCHANGED <<jobVars, runVars, task, logged, common>>

Takes_AsIs(r, x) == x \notin Bad \cup Coercible /\ ~ Duplicate(x)

\* What the destination says of a single row: first as it is, then coerced.
Takes(r, x) ==
  /\ x \notin Bad /\ ~ Duplicate(x)
  /\ x \in Coercible => worker[r].coerced

RowGoesIn_Uncounted(r, x) ==
  /\ ~ Dead(r) /\ Takes(r, x)
  /\ Insert({x})
  /\ Become(r, [worker[r] EXCEPT !.singles = @ \ {x}, !.coerced = FALSE])
  /\ UNCHANGED <<logged, faults, events>>

RowGoesIn(r, x) ==
  /\ ~ Dead(r) /\ Takes(r, x)
  /\ Insert({x})
  /\ Become(r, [worker[r] EXCEPT !.singles = @ \ {x}, !.coerced = FALSE, !.total = @ + 1])
  /\ UNCHANGED <<logged, faults, events>>

GiveUpRow_Unlogged(r, x) ==
  /\ logged' = logged
  /\ Become(r, [worker[r] EXCEPT !.singles = @ \ {x}, !.coerced = FALSE])

\* The second refusal: the row is written down and skipped.
GiveUpRow(r, x) ==
  /\ logged' = logged \cup {x}
  /\ Become(r, [worker[r] EXCEPT !.singles = @ \ {x}, !.coerced = FALSE])

RowFails(r, x) ==
  /\ \/ /\ Dead(r) \/ ~ Takes(r, x)
        /\ UNCHANGED <<dest, faults>>
        /\ Note(IF Dead(r) /\ worker[r].coerced THEN {"cut"} ELSE {})
     \/ /\ ~ Dead(r) /\ faults < MaxFaults /\ faults' = faults + 1
        /\ \/ UNCHANGED <<dest, events>>
           \/ Takes(r, x) /\ Insert({x}) /\ Note({"ambiguous"})
  /\ IF worker[r].coerced
     THEN GiveUpRow(r, x)
     ELSE /\ worker' = [worker EXCEPT ![r].coerced = TRUE]
          /\ UNCHANGED logged

\* handleFailedRow, one try.
WriteRow(r) ==
  /\ worker[r].pc = "writing"
  /\ \E x \in worker[r].singles :
       /\ Leftmost(worker[r], {x})
       /\ RowGoesIn(r, x) \/ RowFails(r, x)
  /\ UNCHANGED <<jobVars, runVars, task, common>>

\* After the chunk: the cursor moves to its last row; the task row is written
\* the first time, then if three seconds have passed.
ChunkDone(r) ==
  LET w == worker[r] IN
  /\ w.pc = "writing" /\ w.parts = {} /\ w.singles = {}
  /\ \E c \in w.chunk :
       LET capped == w.set.cap > 0 /\ w.total >= w.set.cap
           v == [w EXCEPT !.last = c, !.chunk = {}, !.late = FALSE, !.short = FALSE,
                          !.pc = IF capped \/ w.short THEN "copied" ELSE "looping"]
       IN
       /\ \A x \in w.chunk : x <= c
       /\ Note(IF capped THEN {"capped"} ELSE {})
       /\ \/ Become(r, [v EXCEPT !.saved = TRUE]) /\ Save(v, "running")
          \/ w.saved /\ Become(r, v) /\ UNCHANGED task
  /\ UNCHANGED <<jobVars, runVars, dataVars, common, faults>>

GiveUp_Cancelled(r) ==
  /\ worker[r].pc = "erred"
  /\ Save(worker[r], IF stop[r] THEN "cancelled" ELSE "failed")
  /\ Become(r, [NoWorker EXCEPT !.pc = "over"])
  /\ UNCHANGED <<jobVars, runVars, dataVars, history>>

GiveUp_Stale(r) ==
  /\ worker[r].pc = "erred"
  /\ Save([worker[r] EXCEPT !.last = snap.cursor], IF stop[r] THEN "paused" ELSE "failed")
  /\ Become(r, [NoWorker EXCEPT !.pc = "over"])
  /\ UNCHANGED <<jobVars, runVars, dataVars, history>>

\* copyTable returned an error, or nil: the last write of the task row.
GiveUp(r) ==
  /\ worker[r].pc = "erred"
  /\ Save(worker[r], IF stop[r] THEN "paused" ELSE "failed")
  /\ Become(r, [NoWorker EXCEPT !.pc = "over"])
  /\ UNCHANGED <<jobVars, runVars, dataVars, history>>

Complete(r) ==
  /\ worker[r].pc = "copied"
  /\ Save(worker[r], "completed")
  /\ Become(r, [NoWorker EXCEPT !.pc = "over"])
  /\ UNCHANGED <<jobVars, runVars, dataVars, history>>

-----------------------------------------------------------------------------
WorkerStep(r) ==
  \/ CountRows(r) \/ Prepare(r) \/ ReadFails(r) \/ ReachCap(r) \/ Read(r)
  \/ WritePart(r) \/ WriteRow(r) \/ ChunkDone(r) \/ GiveUp(r) \/ Complete(r)

Next ==
  \/ Start \/ Launch \/ Stop \/ Return \/ Finish \/ Patch
  \/ \E r \in Runs : WorkerStep(r) \/ Expire(r)

Spec == Init /\ [][Next]_vars

-----------------------------------------------------------------------------
Settled == {x \in Rows : dest[x] > 0 \/ x \in logged}
Present == {x \in Rows : dest[x] > 0}
Never(E) == events \cap E = {}

\* The cursor in the task row never hides a row: what lies before it, in the
\* date range of every run, has arrived or is in insert_failures - with
\* splits, retries, coercions, stops, timeouts, late workers and stale task
\* records.  (engine.go copyTable, insert_resilient.go)
AccountedFor == \A x \in common : x <= task.cursor => x \in Settled

\* A table marked completed has all rows that were in every run's range,
\* arrived or logged, unless the row cap or a filled destination ended it.
CompletedCovers ==
  task.status = "completed" /\ Never({"capped", "skipped"}) => common \subseteq Settled

\* A row arrives once or is logged once, never both, across pauses, failures
\* and resumptions, unless a worker outlives its run or the server reports an
\* error for what it committed.
ExactlyOnce ==
  Never({"overlap", "ambiguous"}) =>
    \A x \in Rows : dest[x] <= 1 /\ ~ (dest[x] = 1 /\ x \in logged)

\* Between runs rows_done is the number of rows in the destination, unless
\* preparing the table failed on the way (which resets it), and with the
\* exceptions of ExactlyOnce.
CountIsExact ==
  /\ Never({"overlap", "ambiguous", "reset", "skipped"})
  /\ task.status \in {"paused", "failed", "completed"}
  => task.count = Cardinality(Present)

\* max_rows_per_table: no row arrives beyond the cap of a worker that is at
\* work, counting the rows of earlier runs, with the exceptions of
\* CountIsExact.
CapHolds ==
  [][\A r \in Runs :
       Live(r) /\ worker[r].set.cap > 0 /\ Present' # Present
       /\ events' \cap {"overlap", "ambiguous", "reset"} = {}
       => Cardinality(Present') <= worker[r].set.cap]_vars

\* A row the destination would take is lost only to a stop, a timeout or a
\* closing run - or to failures of all its tries: three if it fits as it is.
GoodRowsSurvive ==
  "cut" \notin events =>
    \A x \in logged \ Bad : dest[x] > 0 \/ faults >= IF x \in Coercible THEN 1 ELSE 3

\* A worker cannot go on for ever: each of its steps (the passing of time
\* apart) leaves it less to do, counting rows not read, rows and partitions
\* not written, tries of a row left, and where it is in copyTable.
StageRank == [none |-> 0, taken |-> 6, ready |-> 5, looping |-> 3, writing |-> 4,
              erred |-> 2, copied |-> 1, over |-> 0]
WorkLeft(w) ==
  StageRank[w.pc]
  + 5 * Cardinality({x \in w.set.range \ w.chunk : x > w.last})
  + 4 * Cardinality(UNION w.parts) - Cardinality(w.parts)
  + 2 * Cardinality(w.singles) - IF w.coerced THEN 1 ELSE 0
EveryStepCounts ==
  [][\A r \in Runs : Live(r) /\ worker'[r] # worker[r] =>
       \/ worker'[r] = [worker[r] EXCEPT !.late = TRUE]
       \/ WorkLeft(worker'[r]) < WorkLeft(worker[r])]_vars

\* The copy keeps the promise of CopyPromise.
Promised == INSTANCE CopyPromise WITH
  settled <- Settled, claimed <- {x \in common : x <= task.cursor}
KeepsPromise == Promised!Promise
=============================================================================
