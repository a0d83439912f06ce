-------------------------- MODULE IncrementalSync --------------------------
(***************************************************************************)
(* Following the changes of one table with a primary key: the baseline the *)
(* bulk job leaves behind, and the incremental runs that read rows whose   *)
(* stamp is above the saved cursor (syncTableIncremental, fetchIncremental *)
(* and captureSyncHighWater in internal/migrate/engine.go).                *)
(*                                                                         *)
(* The stamp is the watermark column, the key itself, or ORA_ROWSCN; the   *)
(* cursor is the one in sync_state, and 0 means that there is none.  A     *)
(* version counts the changes of a row.  The source changes all the time.  *)
(* A run that returns early leaves its worker beside the next run's, and   *)
(* the process may die; the next job starts from sync_state.  Whether      *)
(* there is one is left open: the schedule creates none while the row of   *)
(* an earlier job stays at pending, running or paused.                     *)
(***************************************************************************)
EXTENDS Naturals, FiniteSets

CONSTANTS N,           \* keys of the table
          Block,       \* keys that share a block (and so their ORA_ROWSCN)
          Batch,       \* jobs.batch_size
          Lag,         \* how far a watermark may lie behind the latest
          SyncModes,   \* ways of detecting changes considered
          Slots,       \* bound: workers alive at the same time
          MaxStamp,    \* bound on stamps
          MaxChanges   \* bound on the changes of the source

Keys == 1 .. N

ASSUME SyncAssumption ==
  /\ N \in Nat /\ Block \subseteq Keys /\ Batch \in Nat \ {0} /\ Lag \in Nat
  /\ SyncModes \subseteq {"watermark", "max_key", "ora_rowscn"}
  /\ MaxStamp \in Nat \ {0} /\ N <= MaxStamp /\ MaxChanges \in Nat

VARIABLES
  mode,     \* sync_state.sync_mode
  src,      \* for each key: version (0: no such row) and stamp
  now,      \* the highest stamp given so far
  changes,  \* how many changes there were
  dest,     \* for each key: the version in the destination
  at,       \* keys the bulk copy has been through
  cursor,   \* the cursor in sync_state
  worker,   \* the goroutines
  excused   \* history: rows that a known weakness may leave behind

source == <<mode, src, now, changes>>
vars == <<source, dest, at, cursor, worker, excused>>

Row == [ver : 0 .. MaxChanges + 1, stamp : 0 .. MaxStamp]

\* A worker: free, loading (the bulk copy), ready (incremental, cursor read),
\* capturing and captured (a baseline), looping, fetched (a chunk), written,
\* finishing.  alone: no other worker has been alive since it began.
Worker ==
  [pc    : {"free", "loading", "ready", "capturing", "captured", "looping",
            "fetched", "written", "finishing"},
   bulk  : BOOLEAN,                     \* the bulk job's worker
   alone : BOOLEAN,
   cur   : 0 .. MaxStamp,               \* the cursor in hand
   next  : 0 .. MaxStamp,               \* the one after the chunk
   rows  : SUBSET Keys,                 \* the chunk
   image : [Keys -> 0 .. MaxChanges + 1],  \* its rows as they were read
   tied  : SUBSET Keys]                 \* rows left out with its last stamp

Blank == [k \in Keys |-> 0]
NoWorker == [pc |-> "free", bulk |-> FALSE, alone |-> TRUE, cur |-> 0, next |-> 0, rows |-> {},
             image |-> Blank, tied |-> {}]

TypeOK ==
  /\ mode \in SyncModes
  /\ src \in [Keys -> Row] /\ now \in 0 .. MaxStamp /\ changes \in 0 .. MaxChanges
  /\ dest \in [Keys -> 0 .. MaxChanges + 1] /\ at \in 0 .. N
  /\ cursor \in 0 .. MaxStamp
  /\ worker \in [Slots -> Worker]
  /\ excused \subseteq Keys

\* A bulk job has been started; some rows exist (their stamps are equal, as
\* after a bulk load of the source, unless the stamp is the key).
Init ==
  /\ mode \in SyncModes
  /\ \E S \in SUBSET Keys :
       src = [k \in Keys |-> IF k \notin S THEN [ver |-> 0, stamp |-> 0]
                             ELSE [ver |-> 1, stamp |-> IF mode = "max_key" THEN k ELSE 1]]
  /\ now = 1 /\ changes = 0
  /\ dest = Blank /\ at = 0 /\ cursor = 0 /\ excused = {}
  /\ \E first \in Slots :
       worker = [w \in Slots |-> IF w = first THEN [NoWorker EXCEPT !.pc = "loading", !.bulk = TRUE]
                                 ELSE NoWorker]

Exists(k) == src[k].ver > 0
Live(w) == worker[w].pc # "free"

-----------------------------------------------------------------------------
\* The source.  A name that ends in a _Word is a faulty variant of the
\* definition that follows it.

\* Some cursor, saved or in hand, is at or beyond stamp s, so that no later
\* read will ask for it.
Reached(s) ==
  cursor >= s \/ \E w \in Slots : worker[w].cur >= s \/ worker[w].next >= s

\* The bulk copy is past the row, and a baseline is still to be captured: none
\* is saved, or a worker that saw none is about to, or found none (an empty
\* table) and will save that.
BeforeBaseline(k) ==
  /\ at >= k
  /\ \/ cursor = 0
     \/ \E w \in Slots : /\ worker[w].pc \in {"ready", "capturing", "captured", "finishing"}
                        /\ worker[w].cur = 0

\* The stamps a change of row k may carry.  A watermark is set by the
\* application, before it commits; the key never changes; a commit number is
\* always new.
Stamps(k) ==
  CASE mode = "watermark"  -> {s \in 1 .. MaxStamp : s + Lag >= now /\ s <= now + 1}
    [] mode = "max_key"    -> {k}
    [] mode = "ora_rowscn" -> {now + 1} \cap 1 .. MaxStamp

\* Insert or update a row; ORA_ROWSCN is kept for a whole block.
Change(k) ==
  /\ changes < MaxChanges /\ changes' = changes + 1
  /\ \E s \in Stamps(k) :
       LET marked == IF mode = "ora_rowscn" /\ k \in Block
                     THEN {j \in Block : Exists(j)} \cup {k} ELSE {k}
           behind == {j \in marked : Reached(s) \/ BeforeBaseline(j)}
       IN
       /\ now' = IF s > now THEN s ELSE now
       /\ src' = [j \in Keys |->
            [ver   |-> IF j = k THEN src[j].ver + 1 ELSE src[j].ver,
             stamp |-> IF j \in marked THEN s ELSE src[j].stamp]]
       /\ excused' = (excused \ marked) \cup (behind \cap (excused \cup {k}))
  /\ UNCHANGED <<mode, dest, at, cursor, worker>>

-----------------------------------------------------------------------------
\* The workers.

Become(w, v) == worker' = [worker EXCEPT ![w] = v]
HighWater == LET marks == {0} \cup {src[k].stamp : k \in {j \in Keys : Exists(j)}}
             IN  CHOOSE m \in marks : \A s \in marks : s <= m

\* RunBulk's worker: the rows one after the other, then the baseline.
Load(w) ==
  /\ worker[w].pc = "loading"
  /\ IF at < N
     THEN /\ at' = at + 1
          /\ dest' = [dest EXCEPT ![at + 1] = src[at + 1].ver]
          /\ UNCHANGED worker
     ELSE Become(w, [worker[w] EXCEPT !.pc = "capturing"]) /\ UNCHANGED <<at, dest>>
  /\ UNCHANGED <<source, cursor, excused>>

\* An incremental run begins (after the bulk copy), perhaps beside a worker
\* of an earlier one: GetSyncState, and the worker that uses it.
Begin(w) ==
  /\ at = N /\ ~ Live(w)
  /\ \A v \in Slots : worker[v].pc # "loading"
  /\ worker' = [v \in Slots |->
       IF v = w THEN [NoWorker EXCEPT !.pc = "ready", !.cur = cursor,
                                      !.alone = \A u \in Slots : ~ Live(u)]
       ELSE IF Live(v) THEN [worker[v] EXCEPT !.alone = FALSE] ELSE worker[v]]
  /\ UNCHANGED <<source, dest, at, cursor, excused>>

NeedsBaseline_Always(w) == TRUE

\* incrementalNeedsBaseline
NeedsBaseline(w) == worker[w].cur = 0

Decide(w) ==
  /\ worker[w].pc = "ready"
  /\ Become(w, [worker[w] EXCEPT !.pc = IF NeedsBaseline(w) THEN "capturing" ELSE "looping"])
  /\ UNCHANGED <<source, dest, at, cursor, excused>>

\* captureSyncHighWater; a failure leaves everything as it is.
Capture(w) ==
  /\ worker[w].pc = "capturing"
  /\ Become(w, [worker[w] EXCEPT !.pc = "captured", !.cur = HighWater])
  /\ UNCHANGED <<source, dest, at, cursor, excused>>

\* A lost connection, a stop, a missing privilege, or a cursor whose saved
\* text the session does not convert back: the worker returns.
Abort(w) ==
  /\ worker[w].pc \in {"ready", "capturing", "looping"}
  /\ Become(w, NoWorker)
  /\ UNCHANGED <<source, dest, at, cursor, excused>>

\* An incremental run saves it again at its end.
SaveBaseline(w) ==
  /\ worker[w].pc = "captured"
  /\ cursor' = worker[w].cur
  /\ Become(w, IF worker[w].bulk THEN NoWorker ELSE [worker[w] EXCEPT !.pc = "finishing"])
  /\ UNCHANGED <<source, dest, at, excused>>


\* WHERE stamp > cursor
Changed(w) == {k \in Keys : Exists(k) /\ src[k].stamp > worker[w].cur}

\* ORDER BY stamp FETCH NEXT Batch ROWS ONLY: rows with equal stamps come in
\* any order, and the chunk may end among them.
Chunks(S) ==
  {C \in SUBSET S : /\ Cardinality(C) = IF Cardinality(S) < Batch THEN Cardinality(S) ELSE Batch
                    /\ \A x \in C, y \in S \ C : src[x].stamp <= src[y].stamp}

NextCursor_HighWater(C) == HighWater

NextCursor_OffByOne(C) ==
  1 + LET marks == {src[k].stamp : k \in C} IN CHOOSE m \in marks : \A s \in marks : s <= m

\* The stamp of the chunk's last row.
NextCursor(C) ==
  LET marks == {src[k].stamp : k \in C} IN CHOOSE m \in marks : \A s \in marks : s <= m

\* fetchIncremental
Fetch(w) ==
  /\ worker[w].pc = "looping"
  /\ IF Changed(w) = {}
     THEN Become(w, [worker[w] EXCEPT !.pc = "finishing"])
     ELSE \E C \in Chunks(Changed(w)) :
            Become(w, [worker[w] EXCEPT
              !.pc = "fetched", !.rows = C, !.next = NextCursor(C),
              !.image = [k \in Keys |-> IF k \in C THEN src[k].ver ELSE 0],
              !.tied = {k \in Changed(w) \ C : \E c \in C : src[k].stamp = src[c].stamp}])
  /\ UNCHANGED <<source, dest, at, cursor, excused>>

\* WriteRowsMSSQL: rows are merged; after a stop, a timeout or the return of
\* the run those that are left are logged and skipped (TableCopy has the
\* details).  A MERGE that was under way may still land.
Write(w) ==
  /\ worker[w].pc = "fetched"
  /\ \E landed \in SUBSET worker[w].rows :
       LET stale == {k \in landed : ~ worker[w].alone /\ worker[w].image[k] < dest[k]} IN
       /\ dest' = [k \in Keys |-> IF k \in landed THEN worker[w].image[k] ELSE dest[k]]
       /\ excused' = excused \cup (worker[w].rows \ landed) \cup stale
  /\ Become(w, [worker[w] EXCEPT !.pc = "written"])
  /\ UNCHANGED <<source, at, cursor>>

\* UpsertSyncState after the chunk; a chunk that is not full is the last.
SaveCursor(w) ==
  /\ worker[w].pc = "written"
  /\ cursor' = worker[w].next
  /\ excused' = excused \cup {k \in worker[w].tied : src[k].stamp <= cursor'}
  /\ Become(w, [NoWorker EXCEPT !.alone = worker[w].alone, !.cur = worker[w].next,
                  !.pc = IF Cardinality(worker[w].rows) < Batch THEN "finishing" ELSE "looping"])
  /\ UNCHANGED <<source, dest, at>>

\* The worker in RunIncremental saves what it was given back, once more.
FinalSave(w) ==
  /\ worker[w].pc = "finishing"
  /\ cursor' = worker[w].cur
  /\ Become(w, NoWorker)
  /\ UNCHANGED <<source, dest, at, excused>>

\* The process dies.  A new job starts from the database; it takes a user, if
\* the dead one's row has stayed at running, for the schedule then waits for
\* ever (ActiveJob).
Crash ==
  /\ at = N
  /\ \E w \in Slots : Live(w)
  /\ worker' = [w \in Slots |-> NoWorker]
  /\ UNCHANGED <<source, dest, at, cursor, excused>>

-----------------------------------------------------------------------------
WorkerStep(w) ==
  \/ Load(w) \/ Decide(w) \/ Capture(w) \/ SaveBaseline(w) \/ Fetch(w)
  \/ Write(w) \/ SaveCursor(w) \/ FinalSave(w)

Next ==
  \/ \E k \in Keys : Change(k)
  \/ \E w \in Slots : Begin(w) \/ WorkerStep(w) \/ Abort(w)
  \/ Crash

Safety == Init /\ [][Next]_vars

\* A worker goes on while it can: queries return or time out.  Nothing is said
\* of runs, which may not begin again and may all be broken off.
Spec == Safety /\ \A w \in Slots : WF_vars(WorkerStep(w))

Begins == \E w \in Slots : Begin(w)
Breaks == Crash \/ \E w \in Slots : Abort(w)

-----------------------------------------------------------------------------
Missing(k) == Exists(k) /\ dest[k] # src[k].ver

\* A row that differs is one the next run will read, or one a known weakness
\* left behind: its stamp was at or below a cursor already reached when it
\* was committed; it changed between its bulk copy and the baseline; it was
\* cut off from rows with the same stamp by the end of a chunk; it was given
\* up in a broken write; or a worker that outlived its run wrote an older
\* image over it.  Crashes and repeated chunks add nothing to the list.
NothingElseIsMissed ==
  \A k \in Keys : Missing(k) => src[k].stamp > cursor \/ k \in excused

\* Only a worker that outlives its run takes the cursor back.
CursorGoesForward ==
  [][cursor' < cursor =>
       \E w \in Slots : worker'[w] # worker[w] /\ ~ worker[w].alone]_vars

=============================================================================
