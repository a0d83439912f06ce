----------------------- MODULE IncrementalSyncProofs -----------------------
(***************************************************************************)
(* Theorems about IncrementalSync, for any table, batch and way of         *)
(* detecting changes, any number of changes, and any number of workers     *)
(* that outlive their runs.                                                *)
(***************************************************************************)
EXTENDS IncrementalSync, FiniteSetTheorems, WellFoundedInduction, TLAPS

\* Rows have no more versions than there were changes, and a stamp; a commit
\* number is not beyond the latest.  What is in the destination, or was read,
\* is a version of the source.
Versioned ==
  /\ \A k \in Keys :
       /\ src[k].ver <= changes + 1
       /\ Exists(k) => src[k].stamp > 0
       /\ mode = "ora_rowscn" => src[k].stamp <= now
       /\ dest[k] <= src[k].ver
  /\ \A w \in Slots : \A k \in Keys : worker[w].image[k] <= src[k].ver

\* A worker that has been alone is alone, has read what the destination does
\* not have, and finds its own cursor in sync_state.
AloneKnows ==
  \A w \in Slots : worker[w].alone /\ Live(w) =>
    /\ \A v \in Slots : v # w => ~ Live(v)
    /\ worker[w].pc = "fetched" => \A k \in worker[w].rows : dest[k] <= worker[w].image[k]
    /\ cursor = IF worker[w].pc \in {"loading", "capturing", "captured"} THEN 0 ELSE worker[w].cur

\* Where a worker is tells what it has in hand.
Stages ==
  \A w \in Slots :
    /\ ~ Live(w) => worker[w].cur = 0 /\ worker[w].next = 0
    /\ worker[w].pc = "loading" => worker[w].alone /\ worker[w].cur = 0
    /\ worker[w].pc \notin {"free", "loading"} => at = N
    /\ worker[w].pc = "capturing" => worker[w].cur = 0
    /\ worker[w].pc \in {"looping", "fetched", "written"} => worker[w].cur > 0
    /\ worker[w].pc \in {"fetched", "written"} => worker[w].next > worker[w].cur

\* A baseline is still to be captured.
BaselineDue ==
  \/ cursor = 0
  \/ \E w \in Slots : /\ worker[w].pc \in {"ready", "capturing", "captured", "finishing"}
                      /\ worker[w].cur = 0

Lost(k) == Missing(k) /\ k \notin excused

\* Until it is, every row the bulk copy is past has arrived, or is excused.
BaselineIsTrue == BaselineDue => \A k \in Keys : k <= at => ~ Lost(k)

\* Every cursor, saved or in hand, leaves what is lost to later reads.
Safe(c) == \A k \in Keys : Lost(k) => src[k].stamp > c

CursorsAreSafe == Safe(cursor) /\ \A w \in Slots : Safe(worker[w].cur)

\* So will the cursor after a chunk, but for the rows of the chunk until they
\* are written, and those cut off by its end.
ChunksAreSafe ==
  \A w \in Slots : \A k \in Keys : Lost(k) =>
    /\ worker[w].pc = "fetched" =>
         \/ src[k].stamp > worker[w].next
         \/ k \in worker[w].tied
         \/ k \in worker[w].rows /\ worker[w].image[k] = src[k].ver
    /\ worker[w].pc = "written" => src[k].stamp > worker[w].next \/ k \in worker[w].tied

Sound == TypeOK /\ Versioned /\ Stages
SyncInv == Sound /\ AloneKnows /\ BaselineIsTrue /\ CursorsAreSafe /\ ChunksAreSafe

-----------------------------------------------------------------------------
\* Stamps.

\* A nonempty set of numbers up to M has a greatest one (the least of their
\* distances from M).
LEMMA GreatestExists ==
  ASSUME NEW M \in Nat, NEW S, S \subseteq 0 .. M, S # {}
  PROVE  \E m \in S : \A s \in S : s <= m
<1> DEFINE T == {M - s : s \in S}
<1>1. T \subseteq Nat /\ T # {}
  <2>1. \A s \in S : M - s \in Nat
    OBVIOUS
  <2>2. PICK s \in S : TRUE
    OBVIOUS
  <2>3. M - s \in T
    OBVIOUS
  <2>4. QED
    BY <2>1, <2>3
<1>2. PICK x \in T : \A y \in T : ~ (<<y, x>> \in OpToRel(<, Nat))
  <2> HIDE DEF T
  <2>1. QED
    BY <1>1, WFMin, NatLessThanWellFounded
<1>3. \A y \in T : ~ (y < x)
  BY <1>1, <1>2 DEF OpToRel
<1>4. PICK m \in S : x = M - m
  OBVIOUS
<1>5. ASSUME NEW s \in S
      PROVE  s <= m
  <2>1. ~ (M - s < M - m)
    BY <1>3, <1>4
  <2>2. s \in 0 .. M /\ m \in 0 .. M
    OBVIOUS
  <2>3. QED
    BY <2>1, <2>2
<1>6. QED
  BY <1>5

\* captureSyncHighWater: the greatest stamp of a row.
LEMMA HighWaterType ==
  ASSUME TypeOK
  PROVE  HighWater \in 0 .. MaxStamp
<1> DEFINE marks == {0} \cup {src[k].stamp : k \in {j \in Keys : Exists(j)}}
<1>1. marks \subseteq 0 .. MaxStamp /\ marks # {} /\ MaxStamp \in Nat
  BY SyncAssumption DEF TypeOK, Row
<1>2. \E m \in marks : \A s \in marks : s <= m
  <2> HIDE DEF marks
  <2>1. QED
    BY <1>1, GreatestExists
<1>3. HighWater = CHOOSE m \in marks : \A s \in marks : s <= m
  BY DEF HighWater
<1> HIDE DEF marks
<1>4. QED
  BY <1>1, <1>2, <1>3

\* A chunk of what has changed is not empty.
LEMMA ChunkIsNotEmpty ==
  ASSUME NEW S \in SUBSET Keys, S # {}, NEW C \in Chunks(S)
  PROVE  C # {} /\ C \subseteq S /\ \A x \in C, y \in S \ C : src[x].stamp <= src[y].stamp
<1>1. IsFiniteSet(S)
  <2>1. IsFiniteSet(Keys)
    BY SyncAssumption, FS_Interval DEF Keys
  <2>2. QED
    BY <2>1, FS_Subset
<1>2. Cardinality(S) \in Nat /\ Cardinality(S) # 0
  BY <1>1, FS_CardinalityType, FS_EmptySet
<1>3. Cardinality(C) # 0
  BY <1>2, SyncAssumption DEF Chunks
<1>4. C # {}
  BY <1>3, FS_EmptySet
<1>5. QED
  BY <1>4 DEF Chunks

\* The cursor after it is the greatest stamp of the chunk.
LEMMA NextCursorIsGreatest ==
  ASSUME TypeOK, NEW C \in SUBSET Keys, C # {}
  PROVE  /\ NextCursor(C) \in 0 .. MaxStamp
         /\ \E c \in C : NextCursor(C) = src[c].stamp
         /\ \A c \in C : src[c].stamp <= NextCursor(C)
<1> DEFINE marks == {src[k].stamp : k \in C}
<1>1. marks \subseteq 0 .. MaxStamp /\ marks # {} /\ MaxStamp \in Nat
  BY SyncAssumption DEF TypeOK, Row
<1>2. NextCursor(C) = CHOOSE m \in marks : \A s \in marks : s <= m
  BY DEF NextCursor
<1>3. NextCursor(C) \in marks /\ \A s \in marks : s <= NextCursor(C)
  <2> HIDE DEF marks
  <2>1. \E m \in marks : \A s \in marks : s <= m
    BY <1>1, GreatestExists
  <2>2. QED
    BY <1>2, <2>1
<1>4. QED
  BY <1>1, <1>3

-----------------------------------------------------------------------------
\* What the steps do.

\* A free worker is a worker.
LEMMA NoWorkerType == NoWorker \in Worker
<1>1. Blank \in [Keys -> 0 .. MaxChanges + 1]
  BY SyncAssumption DEF Blank
<1>2. QED
  BY <1>1, SyncAssumption DEF NoWorker, Worker

Others(w) == \A v \in Slots : v # w => worker'[v] = worker[v]

\* Replacing one worker.
LEMMA BecomeType ==
  ASSUME worker \in [Slots -> Worker], NEW w \in Slots, NEW v \in Worker, Become(w, v)
  PROVE  worker' \in [Slots -> Worker] /\ worker'[w] = v /\ Others(w)
BY DEF Become, Others

\* A worker that goes on to another stage with what it has in hand.
GoesOn(w, pc) ==
  /\ worker'[w].pc = pc /\ worker'[w].bulk = worker[w].bulk
  /\ worker'[w].alone = worker[w].alone
  /\ worker'[w].cur = worker[w].cur /\ worker'[w].next = worker[w].next
  /\ worker'[w].rows = worker[w].rows /\ worker'[w].image = worker[w].image
  /\ worker'[w].tied = worker[w].tied

\* That is what setting its stage does.
LEMMA GoesOnType ==
  ASSUME worker \in [Slots -> Worker], NEW w \in Slots,
         NEW pc \in {"capturing", "looping", "written", "finishing"},
         Become(w, [worker[w] EXCEPT !.pc = pc])
  PROVE  worker' \in [Slots -> Worker] /\ GoesOn(w, pc) /\ Others(w)
<1> DEFINE v == [worker[w] EXCEPT !.pc = pc]
<1>1. worker[w] \in Worker
  OBVIOUS
<1>2. v \in Worker
  BY <1>1 DEF Worker
<1>3. /\ v.pc = pc /\ v.bulk = worker[w].bulk /\ v.alone = worker[w].alone
      /\ v.cur = worker[w].cur /\ v.next = worker[w].next /\ v.rows = worker[w].rows
      /\ v.image = worker[w].image /\ v.tied = worker[w].tied
  BY <1>1 DEF Worker
<1> HIDE DEF v
<1>4. worker' \in [Slots -> Worker] /\ worker'[w] = v /\ Others(w)
  BY <1>2, BecomeType DEF v
<1>5. QED
  BY <1>3, <1>4 DEF GoesOn

\* A worker that returns.
Returns(w) ==
  /\ worker'[w].pc = "free" /\ worker'[w].alone
  /\ worker'[w].cur = 0 /\ worker'[w].next = 0 /\ worker'[w].image = Blank

\* That is what becoming free does.
LEMMA ReturnsType ==
  ASSUME worker \in [Slots -> Worker], NEW w \in Slots, Become(w, NoWorker)
  PROVE  worker' \in [Slots -> Worker] /\ Returns(w) /\ Others(w)
<1>1. worker' \in [Slots -> Worker] /\ worker'[w] = NoWorker /\ Others(w)
  BY NoWorkerType, BecomeType
<1>2. QED
  BY <1>1 DEF Returns, NoWorker

\* A change of row k, with the stamp s for all rows of M.
Commits(k, s, M) ==
  /\ k \in M /\ \A j \in M : j # k => mode = "ora_rowscn" /\ Exists(j)
  /\ mode = "ora_rowscn" => s = now + 1
  /\ now' = IF s > now THEN s ELSE now
  /\ \A j \in Keys : /\ src'[j].ver = IF j = k THEN src[j].ver + 1 ELSE src[j].ver
                     /\ src'[j].stamp = IF j \in M THEN s ELSE src[j].stamp
  /\ \A j \in Keys : j \in excused' <=>
       IF j \in M THEN (Reached(s) \/ BeforeBaseline(j)) /\ (j \in excused \/ j = k)
                  ELSE j \in excused
  /\ src' \in [Keys -> [ver : Nat, stamp : 0 .. MaxStamp]]
  /\ changes' = changes + 1 /\ changes < MaxChanges
  /\ UNCHANGED <<mode, dest, at, cursor, worker>>

\* That is what every change is, however the stamps are given.
LEMMA ChangeEffect ==
  ASSUME TypeOK, NEW k \in Keys, Change(k)
  PROVE  \E s \in 1 .. MaxStamp, M \in SUBSET Keys : Commits(k, s, M)
<1> DEFINE marked(s) == IF mode = "ora_rowscn" /\ k \in Block
                          THEN {j \in Block : Exists(j)} \cup {k} ELSE {k}
           behind(s) == {j \in marked(s) : Reached(s) \/ BeforeBaseline(j)}
<1>1. PICK s \in Stamps(k) :
        /\ now' = IF s > now THEN s ELSE now
        /\ src' = [j \in Keys |->
             [ver   |-> IF j = k THEN src[j].ver + 1 ELSE src[j].ver,
              stamp |-> IF j \in marked(s) THEN s ELSE src[j].stamp]]
        /\ excused' = (excused \ marked(s)) \cup (behind(s) \cap (excused \cup {k}))
  BY DEF Change
<1>2. s \in 1 .. MaxStamp /\ (mode = "ora_rowscn" => s = now + 1)
  BY SyncAssumption DEF TypeOK, Stamps, Keys
<1>3. /\ k \in marked(s) /\ marked(s) \in SUBSET Keys
      /\ \A j \in marked(s) : j # k => mode = "ora_rowscn" /\ Exists(j)
  BY SyncAssumption
<1>4. \A j \in Keys : j \in excused' <=>
        IF j \in marked(s) THEN (Reached(s) \/ BeforeBaseline(j)) /\ (j \in excused \/ j = k)
                           ELSE j \in excused
  <2>1. \A j \in Keys : j \in behind(s) <=> j \in marked(s) /\ (Reached(s) \/ BeforeBaseline(j))
    OBVIOUS
  <2> HIDE DEF marked, behind
  <2>2. QED
    BY <1>1, <1>3, <2>1
<1>5. \A j \in Keys : /\ src'[j].ver = IF j = k THEN src[j].ver + 1 ELSE src[j].ver
                      /\ src'[j].stamp = IF j \in marked(s) THEN s ELSE src[j].stamp
  <2> HIDE DEF marked, behind
  <2>1. QED
    BY <1>1
<1>6. /\ changes' = changes + 1 /\ changes < MaxChanges
      /\ UNCHANGED <<mode, dest, at, cursor, worker>>
  BY DEF Change
<1>7. now' = IF s > now THEN s ELSE now
  BY <1>1
<1> HIDE DEF marked, behind
<1>8. src' \in [Keys -> [ver : Nat, stamp : 0 .. MaxStamp]]
  <2>1. \A j \in Keys : src[j].ver \in Nat /\ src[j].stamp \in 0 .. MaxStamp /\ s \in 0 .. MaxStamp
    BY <1>2, SyncAssumption DEF TypeOK, Row
  <2>2. QED
    BY <1>1, <2>1
<1>9. Commits(k, s, marked(s))
  BY <1>2, <1>3, <1>4, <1>5, <1>6, <1>7, <1>8 DEF Commits
<1>10. QED
  BY <1>2, <1>3, <1>9

\* The bulk copy takes one row, or has taken all.
Loads(w) ==
  /\ worker[w].pc = "loading" /\ UNCHANGED <<source, cursor, excused>>
  /\ \/ /\ at < N /\ at' = at + 1 /\ UNCHANGED worker
        /\ \A k \in Keys : dest'[k] = IF k = at + 1 THEN src[k].ver ELSE dest[k]
     \/ /\ at = N /\ UNCHANGED <<at, dest>>
        /\ GoesOn(w, "capturing") /\ Others(w)

\* That is RunBulk's worker (copyTable, then captureSyncHighWater).
LEMMA LoadEffect ==
  ASSUME TypeOK, NEW w \in Slots, Load(w)
  PROVE  Loads(w) /\ worker' \in [Slots -> Worker]
         /\ dest' \in [Keys -> 0 .. MaxChanges + 1] /\ at' \in 0 .. N
<1>t. /\ worker \in [Slots -> Worker] /\ at \in 0 .. N /\ N \in Nat
      /\ dest \in [Keys -> 0 .. MaxChanges + 1] /\ src \in [Keys -> Row]
  BY SyncAssumption DEF TypeOK
<1>1. worker[w].pc = "loading" /\ UNCHANGED <<source, cursor, excused>>
  BY DEF Load
<1>2. CASE at < N
  <2>1. at' = at + 1 /\ dest' = [dest EXCEPT ![at + 1] = src[at + 1].ver] /\ UNCHANGED worker
    BY <1>2 DEF Load
  <2>2. at + 1 \in Keys /\ src[at + 1].ver \in 0 .. MaxChanges + 1
    BY <1>2, <1>t DEF Keys, Row
  <2>3. QED
    BY <1>1, <1>2, <1>t, <2>1, <2>2 DEF Loads
<1>3. CASE ~ (at < N)
  <2>1. Become(w, [worker[w] EXCEPT !.pc = "capturing"]) /\ UNCHANGED <<at, dest>> /\ at = N
    BY <1>3, <1>t DEF Load
  <2>2. worker' \in [Slots -> Worker] /\ GoesOn(w, "capturing") /\ Others(w)
    BY <1>t, <2>1, GoesOnType
  <2>3. QED
    BY <1>1, <1>t, <2>1, <2>2 DEF Loads
<1>4. QED
  BY <1>2, <1>3

\* A run begins beside those that are alive.
Enters(w) ==
  /\ at = N /\ ~ Live(w) /\ \A v \in Slots : worker[v].pc # "loading"
  /\ worker'[w].pc = "ready" /\ worker'[w].cur = cursor /\ worker'[w].next = 0
  /\ worker'[w].image = Blank
  /\ worker'[w].alone => \A u \in Slots : ~ Live(u)
  /\ \A v \in Slots : v # w =>
       \/ worker'[v] = worker[v] /\ ~ Live(v)
       \/ /\ ~ worker'[v].alone /\ Live(v)
          /\ worker'[v].pc = worker[v].pc /\ worker'[v].cur = worker[v].cur
          /\ worker'[v].next = worker[v].next /\ worker'[v].rows = worker[v].rows
          /\ worker'[v].image = worker[v].image /\ worker'[v].tied = worker[v].tied
  /\ UNCHANGED <<source, dest, at, cursor, excused>>

\* That is GetSyncState and the worker started after it.
LEMMA BeginEffect ==
  ASSUME TypeOK, NEW w \in Slots, Begin(w)
  PROVE  Enters(w) /\ worker' \in [Slots -> Worker]
<1> DEFINE first == [NoWorker EXCEPT !.pc = "ready", !.cur = cursor,
                                     !.alone = \A u \in Slots : ~ Live(u)]
           other(v) == [worker[v] EXCEPT !.alone = FALSE]
<1>t. worker \in [Slots -> Worker] /\ cursor \in 0 .. MaxStamp
  BY DEF TypeOK
<1>1. /\ first \in Worker
      /\ first.pc = "ready" /\ first.cur = cursor /\ first.next = 0 /\ first.image = Blank
      /\ first.alone => \A u \in Slots : ~ Live(u)
  BY <1>t, NoWorkerType DEF NoWorker, Worker
<1>2. ASSUME NEW v \in Slots
      PROVE  /\ other(v) \in Worker
             /\ ~ other(v).alone /\ other(v).pc = worker[v].pc /\ other(v).cur = worker[v].cur
             /\ other(v).next = worker[v].next /\ other(v).rows = worker[v].rows
             /\ other(v).image = worker[v].image /\ other(v).tied = worker[v].tied
  <2>1. worker[v] \in Worker
    BY <1>t
  <2>2. QED
    BY <2>1 DEF Worker
<1>3. worker' = [v \in Slots |-> IF v = w THEN first ELSE IF Live(v) THEN other(v) ELSE worker[v]]
  BY DEF Begin
<1>4. /\ at = N /\ ~ Live(w) /\ \A v \in Slots : worker[v].pc # "loading"
      /\ UNCHANGED <<source, dest, at, cursor, excused>>
  BY DEF Begin
<1> HIDE DEF first, other
<1>5. worker' \in [Slots -> Worker]
  BY <1>t, <1>1, <1>2, <1>3
<1>6. worker'[w] = first
  BY <1>3
<1>7. \A v \in Slots : v # w => worker'[v] = IF Live(v) THEN other(v) ELSE worker[v]
  BY <1>3
<1>8. QED
  BY <1>1, <1>2, <1>4, <1>5, <1>6, <1>7 DEF Enters

\* incrementalNeedsBaseline looks at the cursor it was given.
LEMMA DecideEffect ==
  ASSUME TypeOK, NEW w \in Slots, Decide(w)
  PROVE  /\ worker' \in [Slots -> Worker] /\ Others(w) /\ worker[w].pc = "ready"
         /\ GoesOn(w, IF worker[w].cur = 0 THEN "capturing" ELSE "looping")
         /\ UNCHANGED <<source, dest, at, cursor, excused>>
<1> DEFINE pc == IF worker[w].cur = 0 THEN "capturing" ELSE "looping"
<1>1. Become(w, [worker[w] EXCEPT !.pc = pc]) /\ worker[w].pc = "ready"
      /\ UNCHANGED <<source, dest, at, cursor, excused>>
  BY DEF Decide, NeedsBaseline
<1>2. pc \in {"capturing", "looping", "written", "finishing"}
  OBVIOUS
<1> HIDE DEF pc
<1>3. worker' \in [Slots -> Worker] /\ GoesOn(w, pc) /\ Others(w)
  BY <1>1, <1>2, GoesOnType DEF TypeOK
<1>4. QED
  BY <1>1, <1>3 DEF pc

\* A baseline is captured: the greatest stamp.
LEMMA CaptureEffect ==
  ASSUME TypeOK, NEW w \in Slots, Capture(w)
  PROVE  /\ worker' \in [Slots -> Worker] /\ Others(w)
         /\ worker[w].pc = "capturing" /\ worker'[w].pc = "captured"
         /\ worker'[w].cur = HighWater /\ worker'[w].next = worker[w].next
         /\ worker'[w].alone = worker[w].alone /\ worker'[w].image = worker[w].image
         /\ UNCHANGED <<source, dest, at, cursor, excused>>
<1> DEFINE v == [worker[w] EXCEPT !.pc = "captured", !.cur = HighWater]
<1>1. Become(w, v) /\ worker[w].pc = "capturing"
      /\ UNCHANGED <<source, dest, at, cursor, excused>>
  BY DEF Capture
<1>2. worker[w] \in Worker /\ HighWater \in 0 .. MaxStamp
  BY HighWaterType DEF TypeOK
<1>3. /\ v \in Worker /\ v.pc = "captured" /\ v.cur = HighWater /\ v.next = worker[w].next
      /\ v.alone = worker[w].alone /\ v.image = worker[w].image
  BY <1>2 DEF Worker
<1> HIDE DEF v
<1>4. worker' \in [Slots -> Worker] /\ worker'[w] = v /\ Others(w)
  BY <1>1, <1>3, BecomeType DEF TypeOK
<1>5. QED
  BY <1>1, <1>3, <1>4

\* An error: the worker is gone, and nothing else has changed.
LEMMA AbortEffect ==
  ASSUME TypeOK, NEW w \in Slots, Abort(w)
  PROVE  /\ worker' \in [Slots -> Worker] /\ Others(w) /\ Returns(w)
         /\ UNCHANGED <<source, dest, at, cursor, excused>>
BY ReturnsType DEF TypeOK, Abort

\* The baseline is saved, by the bulk job for good.
LEMMA SaveBaselineEffect ==
  ASSUME TypeOK, NEW w \in Slots, SaveBaseline(w)
  PROVE  /\ worker' \in [Slots -> Worker] /\ Others(w)
         /\ worker[w].pc = "captured" /\ cursor' = worker[w].cur
         /\ Returns(w) \/ GoesOn(w, "finishing")
         /\ UNCHANGED <<source, dest, at, excused>>
<1>1. /\ worker[w].pc = "captured" /\ cursor' = worker[w].cur
      /\ UNCHANGED <<source, dest, at, excused>>
  BY DEF SaveBaseline
<1>2. CASE worker[w].bulk
  BY <1>1, <1>2, ReturnsType DEF TypeOK, SaveBaseline
<1>3. CASE ~ worker[w].bulk
  <2>1. Become(w, [worker[w] EXCEPT !.pc = "finishing"])
    BY <1>3 DEF SaveBaseline
  <2>2. QED
    BY <1>1, <2>1, GoesOnType DEF TypeOK
<1>4. QED
  BY <1>2, <1>3

\* A worker reads a chunk C of what has changed.
Fetches(w, C) ==
  /\ C # {} /\ C \subseteq Changed(w)
  /\ \A x \in C, y \in Changed(w) \ C : src[x].stamp <= src[y].stamp
  /\ worker'[w].pc = "fetched" /\ worker'[w].cur = worker[w].cur
  /\ worker'[w].alone = worker[w].alone /\ worker'[w].rows = C
  /\ \E c \in C : worker'[w].next = src[c].stamp
  /\ \A c \in C : src[c].stamp <= worker'[w].next
  /\ \A k \in Keys : worker'[w].image[k] = IF k \in C THEN src[k].ver ELSE 0
  /\ worker'[w].tied = {k \in Changed(w) \ C : \E c \in C : src[k].stamp = src[c].stamp}

\* That is fetchIncremental, unless there is nothing left.
LEMMA FetchEffect ==
  ASSUME TypeOK, NEW w \in Slots, Fetch(w)
  PROVE  /\ worker' \in [Slots -> Worker] /\ Others(w) /\ worker[w].pc = "looping"
         /\ \/ GoesOn(w, "finishing")
            \/ \E C \in SUBSET Keys : Fetches(w, C)
         /\ UNCHANGED <<source, dest, at, cursor, excused>>
<1>t. worker \in [Slots -> Worker] /\ worker[w] \in Worker /\ src \in [Keys -> Row]
  BY DEF TypeOK
<1>1. worker[w].pc = "looping" /\ UNCHANGED <<source, dest, at, cursor, excused>>
  BY DEF Fetch
<1>2. CASE Changed(w) = {}
  <2>1. Become(w, [worker[w] EXCEPT !.pc = "finishing"])
    BY <1>2 DEF Fetch
  <2>2. QED
    BY <1>1, <1>t, <2>1, GoesOnType
<1>3. CASE Changed(w) # {}
  <2> DEFINE read(C) == [k \in Keys |-> IF k \in C THEN src[k].ver ELSE 0]
             tied(C) == {k \in Changed(w) \ C : \E c \in C : src[k].stamp = src[c].stamp}
             v(C) == [worker[w] EXCEPT !.pc = "fetched", !.rows = C, !.next = NextCursor(C),
                                       !.image = read(C), !.tied = tied(C)]
  <2>1. PICK C \in Chunks(Changed(w)) : Become(w, v(C))
    BY <1>3 DEF Fetch
  <2>2. /\ C # {} /\ C \subseteq Changed(w) /\ C \in SUBSET Keys
        /\ \A x \in C, y \in Changed(w) \ C : src[x].stamp <= src[y].stamp
    <3>1. Changed(w) \in SUBSET Keys
      BY DEF Changed
    <3>2. QED
      BY <1>3, <3>1, ChunkIsNotEmpty
  <2>3. /\ NextCursor(C) \in 0 .. MaxStamp /\ \E c \in C : NextCursor(C) = src[c].stamp
        /\ \A c \in C : src[c].stamp <= NextCursor(C)
    BY <2>2, NextCursorIsGreatest
  <2>4. read(C) \in [Keys -> 0 .. MaxChanges + 1]
    BY <1>t, SyncAssumption DEF Row
  <2>5. tied(C) \in SUBSET Keys
    BY DEF Changed
  <2>6. \A k \in Keys : read(C)[k] = IF k \in C THEN src[k].ver ELSE 0
    OBVIOUS
  <2> HIDE DEF read, tied
  <2>7. /\ v(C) \in Worker /\ v(C).pc = "fetched" /\ v(C).cur = worker[w].cur
        /\ v(C).alone = worker[w].alone /\ v(C).rows = C /\ v(C).next = NextCursor(C)
        /\ v(C).image = read(C) /\ v(C).tied = tied(C)
    BY <1>t, <2>2, <2>3, <2>4, <2>5 DEF Worker
  <2> HIDE DEF v
  <2>8. worker' \in [Slots -> Worker] /\ worker'[w] = v(C) /\ Others(w)
    BY <1>t, <2>1, <2>7, BecomeType
  <2>9. Fetches(w, C)
    <3>1. worker'[w].tied = {k \in Changed(w) \ C : \E c \in C : src[k].stamp = src[c].stamp}
      BY <2>7, <2>8 DEF tied
    <3>2. QED
      BY <2>2, <2>3, <2>6, <2>7, <2>8, <3>1 DEF Fetches
  <2>10. QED
    BY <1>1, <2>2, <2>8, <2>9
<1>4. QED
  BY <1>2, <1>3

\* A chunk is written, as far as it lands.
Lands(w, landed) ==
  /\ \A k \in Keys : dest'[k] = IF k \in landed THEN worker[w].image[k] ELSE dest[k]
  /\ \A k \in Keys : k \in excused' <=>
       \/ k \in excused
       \/ k \in worker[w].rows \ landed
       \/ k \in landed /\ ~ worker[w].alone /\ worker[w].image[k] < dest[k]

\* That is what a write does, whatever part of it lands.
LEMMA WriteEffect ==
  ASSUME TypeOK, NEW w \in Slots, Write(w)
  PROVE  /\ worker' \in [Slots -> Worker] /\ Others(w) /\ worker[w].pc = "fetched"
         /\ GoesOn(w, "written")
         /\ \E landed \in SUBSET worker[w].rows : Lands(w, landed)
         /\ dest' \in [Keys -> 0 .. MaxChanges + 1] /\ excused' \subseteq Keys
         /\ UNCHANGED <<source, at, cursor>>
<1>t. worker \in [Slots -> Worker] /\ worker[w] \in Worker /\ excused \subseteq Keys
      /\ dest \in [Keys -> 0 .. MaxChanges + 1]
  BY DEF TypeOK
<1>1. worker[w].pc = "fetched" /\ Become(w, [worker[w] EXCEPT !.pc = "written"])
      /\ UNCHANGED <<source, at, cursor>>
  BY DEF Write
<1>2. worker' \in [Slots -> Worker] /\ GoesOn(w, "written") /\ Others(w)
  BY <1>t, <1>1, GoesOnType
<1>3. PICK landed \in SUBSET worker[w].rows :
        /\ dest' = [k \in Keys |-> IF k \in landed THEN worker[w].image[k] ELSE dest[k]]
        /\ excused' = (excused \cup (worker[w].rows \ landed))
             \cup {k \in landed : ~ worker[w].alone /\ worker[w].image[k] < dest[k]}
  BY DEF Write
<1>4. worker[w].rows \subseteq Keys /\ worker[w].image \in [Keys -> 0 .. MaxChanges + 1]
  BY <1>t DEF Worker
<1>5. dest' \in [Keys -> 0 .. MaxChanges + 1] /\ excused' \subseteq Keys
  BY <1>t, <1>3, <1>4
<1>6. Lands(w, landed)
  BY <1>3 DEF Lands
<1>7. QED
  BY <1>1, <1>2, <1>3, <1>5, <1>6

\* The cursor is saved, and what was cut off at it.
LEMMA SaveCursorEffect ==
  ASSUME TypeOK, NEW w \in Slots, SaveCursor(w)
  PROVE  /\ worker' \in [Slots -> Worker] /\ Others(w) /\ worker[w].pc = "written"
         /\ worker'[w].pc \in {"looping", "finishing"} /\ worker'[w].alone = worker[w].alone
         /\ worker'[w].cur = worker[w].next /\ worker'[w].next = 0 /\ worker'[w].image = Blank
         /\ cursor' = worker[w].next
         /\ excused' = excused \cup {k \in worker[w].tied : src[k].stamp <= worker[w].next}
         /\ UNCHANGED <<source, dest, at>>
<1> DEFINE pc == IF Cardinality(worker[w].rows) < Batch THEN "finishing" ELSE "looping"
           v == [NoWorker EXCEPT !.alone = worker[w].alone, !.cur = worker[w].next, !.pc = pc]
<1>1. /\ worker[w].pc = "written" /\ cursor' = worker[w].next /\ Become(w, v)
      /\ excused' = excused \cup {k \in worker[w].tied : src[k].stamp <= worker[w].next}
      /\ UNCHANGED <<source, dest, at>>
  BY DEF SaveCursor
<1>2. worker[w] \in Worker /\ pc \in {"looping", "finishing"}
  BY DEF TypeOK
<1> HIDE DEF pc
<1>3. /\ v \in Worker /\ v.pc = pc /\ v.alone = worker[w].alone
      /\ v.cur = worker[w].next /\ v.next = 0 /\ v.image = Blank
  BY <1>2, NoWorkerType DEF Worker, NoWorker
<1> HIDE DEF v
<1>4. worker' \in [Slots -> Worker] /\ worker'[w] = v /\ Others(w)
  BY <1>1, <1>3, BecomeType DEF TypeOK
<1>5. QED
  BY <1>1, <1>2, <1>3, <1>4

\* The last save of an incremental run.
LEMMA FinalSaveEffect ==
  ASSUME TypeOK, NEW w \in Slots, FinalSave(w)
  PROVE  /\ worker' \in [Slots -> Worker] /\ Others(w) /\ Returns(w)
         /\ worker[w].pc = "finishing" /\ cursor' = worker[w].cur
         /\ UNCHANGED <<source, dest, at, excused>>
BY ReturnsType DEF TypeOK, FinalSave

\* After a crash there are no workers.
LEMMA CrashEffect ==
  ASSUME TypeOK, Crash
  PROVE  /\ worker' \in [Slots -> Worker] /\ \A w \in Slots : Returns(w)
         /\ UNCHANGED <<source, dest, at, cursor, excused>>
<1>1. worker' = [w \in Slots |-> NoWorker] /\ UNCHANGED <<source, dest, at, cursor, excused>>
  BY DEF Crash
<1>2. QED
  BY <1>1, NoWorkerType DEF Returns, NoWorker

-----------------------------------------------------------------------------
\* Types and versions.

\* At first there is one worker, that loads.
LEMMA InitSound == Init => Sound /\ \A w \in Slots : worker[w].pc \in {"free", "loading"}
<1> SUFFICES ASSUME Init
             PROVE  Sound /\ \A w \in Slots : worker[w].pc \in {"free", "loading"}
  OBVIOUS
<1> USE SyncAssumption DEF Keys
<1>1. PICK S \in SUBSET Keys :
        src = [k \in Keys |-> IF k \notin S THEN [ver |-> 0, stamp |-> 0]
                              ELSE [ver |-> 1, stamp |-> IF mode = "max_key" THEN k ELSE 1]]
  BY DEF Init
<1>2. ASSUME NEW k \in Keys
      PROVE  /\ src[k] \in Row /\ src[k].ver \in {0, 1} /\ (src[k].ver = 1 => src[k].stamp > 0)
             /\ mode = "ora_rowscn" => src[k].stamp \in {0, 1}
  <2>1. CASE k \notin S
    <3>1. src[k] = [ver |-> 0, stamp |-> 0]
      BY <1>1, <2>1
    <3>2. QED
      BY <3>1 DEF Row
  <2>2. CASE k \in S
    <3>1. src[k] = [ver |-> 1, stamp |-> IF mode = "max_key" THEN k ELSE 1]
      BY <1>1, <2>2
    <3>2. QED
      BY <3>1 DEF Row
  <2>3. QED
    BY <2>1, <2>2
<1>3. src \in [Keys -> Row]
  BY <1>1, <1>2
<1>4. PICK first \in Slots :
        worker = [w \in Slots |-> IF w = first THEN [NoWorker EXCEPT !.pc = "loading", !.bulk = TRUE]
                                  ELSE NoWorker]
  BY DEF Init
<1> DEFINE v == [NoWorker EXCEPT !.pc = "loading", !.bulk = TRUE]
<1>5. v \in Worker /\ v.pc = "loading" /\ v.alone /\ v.cur = 0 /\ v.next = 0 /\ v.image = Blank
  BY NoWorkerType DEF NoWorker, Worker
<1>6. NoWorker.pc = "free" /\ NoWorker.cur = 0 /\ NoWorker.next = 0 /\ NoWorker.image = Blank
  BY DEF NoWorker
<1> HIDE DEF v
<1>7. worker = [w \in Slots |-> IF w = first THEN v ELSE NoWorker]
  BY <1>4 DEF v
<1>8. worker \in [Slots -> Worker]
  BY <1>5, <1>7, NoWorkerType
<1>9. ASSUME NEW w \in Slots
      PROVE  /\ worker[w].pc \in {"free", "loading"}
             /\ worker[w].pc = "loading" => worker[w].alone
             /\ worker[w].cur = 0 /\ worker[w].next = 0 /\ worker[w].image = Blank
  BY <1>5, <1>6, <1>7
<1>10. dest = Blank /\ Blank \in [Keys -> 0 .. MaxChanges + 1] /\ \A k \in Keys : Blank[k] = 0
  BY DEF Init, Blank
<1>11. TypeOK
  BY <1>3, <1>8, <1>10 DEF Init, TypeOK
<1>12. Versioned
  BY <1>2, <1>9, <1>10 DEF Init, Versioned, Exists
<1>13. Stages
  BY <1>9 DEF Stages
<1>14. QED
  BY <1>9, <1>11, <1>12, <1>13 DEF Sound

\* A change makes one version more, with a stamp.
LEMMA ChangeTypes ==
  ASSUME Sound, NEW k \in Keys, Change(k)
  PROVE  TypeOK' /\ Versioned'
<1>1. PICK s \in 1 .. MaxStamp, M \in SUBSET Keys : Commits(k, s, M)
  BY ChangeEffect DEF Sound
<1>t. /\ changes \in 0 .. MaxChanges /\ now \in 0 .. MaxStamp /\ src \in [Keys -> Row]
      /\ MaxChanges \in Nat /\ MaxStamp \in Nat
      /\ dest \in [Keys -> 0 .. MaxChanges + 1]
      /\ \A w \in Slots : worker[w].image \in [Keys -> 0 .. MaxChanges + 1]
  BY SyncAssumption DEF Sound, TypeOK, Worker
<1>2. changes' \in 0 .. MaxChanges /\ changes' = changes + 1 /\ now' \in 0 .. MaxStamp
      /\ now' >= now /\ now' >= s
  BY <1>1, <1>t DEF Commits
<1>3. ASSUME NEW j \in Keys
      PROVE  /\ src'[j].ver \in 0 .. MaxChanges + 1 /\ src'[j].ver <= changes' + 1
             /\ src[j].ver <= src'[j].ver
             /\ src'[j].ver > 0 => src'[j].stamp > 0
             /\ mode' = "ora_rowscn" => src'[j].stamp <= now'
  <2>1. /\ src[j].ver \in 0 .. MaxChanges + 1 /\ src[j].ver <= changes + 1
        /\ src[j].stamp \in 0 .. MaxStamp
        /\ src[j].ver > 0 => src[j].stamp > 0
        /\ mode = "ora_rowscn" => src[j].stamp <= now
    BY <1>t DEF Sound, Versioned, Exists, Row
  <2>2. /\ src'[j].ver = IF j = k THEN src[j].ver + 1 ELSE src[j].ver
        /\ src'[j].stamp = IF j \in M THEN s ELSE src[j].stamp
        /\ k \in M /\ mode' = mode
    BY <1>1 DEF Commits
  <2>3. QED
    BY <1>t, <1>2, <2>1, <2>2
<1>4. src' \in [Keys -> Row]
  <2>1. src' \in [Keys -> [ver : Nat, stamp : 0 .. MaxStamp]]
    BY <1>1 DEF Commits
  <2>2. \A j \in Keys : src'[j] \in Row
    BY <1>3, <2>1 DEF Row
  <2>3. QED
    BY <2>1, <2>2
<1>5. excused' \subseteq Keys
  <2>1. \A x \in excused' : x \in excused \/ x \in Keys
    BY DEF Change
  <2>2. QED
    BY <2>1 DEF Sound, TypeOK
<1>6. UNCHANGED <<mode, dest, at, cursor, worker>>
  BY <1>1 DEF Commits
<1>7. TypeOK'
  BY <1>2, <1>4, <1>5, <1>6 DEF Sound, TypeOK
<1>8. Versioned'
  <2>1. \A j \in Keys : /\ src[j].ver \in Nat /\ src'[j].ver \in Nat
                        /\ dest[j] \in Nat /\ dest[j] <= src[j].ver
                        /\ \A w \in Slots : worker[w].image[j] \in Nat
                                            /\ worker[w].image[j] <= src[j].ver
    BY <1>3, <1>t DEF Sound, Versioned, Row
  <2>2. \A j \in Keys : /\ dest[j] <= src'[j].ver
                        /\ \A w \in Slots : worker[w].image[j] <= src'[j].ver
    BY <1>3, <2>1
  <2>3. QED
    BY <1>3, <1>6, <2>2 DEF Versioned, Exists
<1>9. QED
  BY <1>7, <1>8

\* Every step keeps the types.
LEMMA TypeStep ==
  ASSUME Sound, [Next]_vars
  PROVE  TypeOK'
<1>t. TypeOK /\ HighWater \in 0 .. MaxStamp
  BY HighWaterType DEF Sound
<1>1. ASSUME NEW k \in Keys, Change(k)
      PROVE  TypeOK'
  BY <1>1, ChangeTypes
<1>2. ASSUME NEW w \in Slots, Load(w)
      PROVE  TypeOK'
  <2>1. Loads(w) /\ worker' \in [Slots -> Worker]
        /\ dest' \in [Keys -> 0 .. MaxChanges + 1] /\ at' \in 0 .. N
    BY <1>2, <1>t, LoadEffect
  <2>2. QED
    BY <1>t, <2>1 DEF Loads, TypeOK, source
<1>3. ASSUME NEW w \in Slots, Write(w)
      PROVE  TypeOK'
  <2>1. worker' \in [Slots -> Worker]
        /\ dest' \in [Keys -> 0 .. MaxChanges + 1] /\ excused' \subseteq Keys
        /\ UNCHANGED <<source, at, cursor>>
    BY <1>3, <1>t, WriteEffect
  <2>2. QED
    BY <1>t, <2>1 DEF TypeOK, source
<1>4. ASSUME NEW w \in Slots, Begin(w)
      PROVE  TypeOK'
  <2>1. worker' \in [Slots -> Worker] /\ Enters(w)
    BY <1>4, <1>t, BeginEffect
  <2>2. QED
    BY <1>t, <2>1 DEF TypeOK, source, Enters
<1>5. ASSUME worker' \in [Slots -> Worker], UNCHANGED <<source, dest, at, cursor, excused>>
      PROVE  TypeOK'
  BY <1>t, <1>5 DEF TypeOK, source
<1>6. ASSUME NEW w \in Slots, Decide(w) \/ Capture(w) \/ Abort(w) \/ Fetch(w)
      PROVE  TypeOK'
  BY <1>5, <1>6, <1>t, DecideEffect, CaptureEffect, AbortEffect, FetchEffect
<1>7. ASSUME NEW w \in Slots, SaveBaseline(w) \/ FinalSave(w)
      PROVE  TypeOK'
  <2>1. /\ worker' \in [Slots -> Worker] /\ cursor' = worker[w].cur
        /\ UNCHANGED <<source, dest, at, excused>>
    BY <1>7, <1>t, SaveBaselineEffect, FinalSaveEffect
  <2>2. worker[w].cur \in 0 .. MaxStamp
    BY <1>t DEF TypeOK, Worker
  <2>3. QED
    BY <1>t, <2>1, <2>2 DEF TypeOK, source
<1>8. ASSUME NEW w \in Slots, SaveCursor(w)
      PROVE  TypeOK'
  <2>1. /\ worker' \in [Slots -> Worker] /\ cursor' = worker[w].next
        /\ excused' = excused \cup {k \in worker[w].tied : src[k].stamp <= worker[w].next}
        /\ UNCHANGED <<source, dest, at>>
    BY <1>8, <1>t, SaveCursorEffect
  <2>2. worker[w].next \in 0 .. MaxStamp /\ worker[w].tied \subseteq Keys
    BY <1>t DEF TypeOK, Worker
  <2>3. excused' \subseteq Keys
    BY <1>t, <2>1, <2>2 DEF TypeOK
  <2>4. QED
    BY <1>t, <2>1, <2>2, <2>3 DEF TypeOK, source
<1>9. CASE Crash
  BY <1>5, <1>9, <1>t, CrashEffect
<1>10. CASE UNCHANGED vars
  BY <1>10, <1>t DEF vars, source, TypeOK
<1>11. QED
  BY <1>1, <1>2, <1>3, <1>4, <1>6, <1>7, <1>8, <1>9, <1>10 DEF Next, WorkerStep

\* Images are read when a chunk is, and given up with the worker.
LEMMA ImageStep ==
  ASSUME Sound, [Next]_vars, UNCHANGED source, NEW w \in Slots, NEW k \in Keys
  PROVE  worker'[w].image[k] \in {worker[w].image[k], src[k].ver, 0}
<1>t. TypeOK
  BY DEF Sound
<1>b. Blank[k] = 0
  BY DEF Blank
<1>1. ASSUME NEW j \in Keys, Change(j)
      PROVE  worker' = worker
  BY <1>1 DEF Change
<1>2. ASSUME NEW v \in Slots, WorkerStep(v) \/ Abort(v)
      PROVE  \/ worker'[w].image[k] = worker[w].image[k]
             \/ worker'[w].image[k] = src[k].ver
             \/ worker'[w].image[k] = 0
  <2>1. CASE w # v
    <3>1. Others(v) \/ worker' = worker
      BY <1>2, <1>t, LoadEffect, DecideEffect, CaptureEffect, SaveBaselineEffect, FetchEffect,
         WriteEffect, SaveCursorEffect, FinalSaveEffect, AbortEffect DEF WorkerStep, Loads
    <3>2. QED
      BY <2>1, <3>1 DEF Others
  <2>2. CASE w = v
    <3>1. CASE Load(v) \/ Decide(v) \/ Write(v)
      BY <2>2, <3>1, <1>t, LoadEffect, DecideEffect, WriteEffect DEF Loads, GoesOn
    <3>2. CASE Capture(v) \/ SaveBaseline(v)
      BY <2>2, <3>2, <1>t, <1>b, CaptureEffect, SaveBaselineEffect DEF GoesOn, Returns
    <3>3. CASE Fetch(v)
      BY <2>2, <3>3, <1>t, FetchEffect DEF GoesOn, Fetches
    <3>4. CASE SaveCursor(v) \/ FinalSave(v) \/ Abort(v)
      BY <2>2, <3>4, <1>t, <1>b, SaveCursorEffect, FinalSaveEffect, AbortEffect DEF Returns
    <3>5. QED
      BY <1>2, <3>1, <3>2, <3>3, <3>4 DEF WorkerStep
  <2>3. QED
    BY <2>1, <2>2
<1>3. ASSUME NEW v \in Slots, Begin(v)
      PROVE  worker'[w].image[k] = worker[w].image[k] \/ worker'[w].image[k] = 0
  <2>1. Enters(v)
    BY <1>3, <1>t, BeginEffect
  <2>2. CASE w # v
    BY <2>1, <2>2 DEF Enters
  <2>3. CASE w = v
    BY <2>1, <2>3, <1>b DEF Enters
  <2>4. QED
    BY <2>2, <2>3
<1>4. ASSUME Crash
      PROVE  worker'[w].image[k] = 0
  BY <1>4, <1>t, <1>b, CrashEffect DEF Returns
<1>5. CASE UNCHANGED vars
  BY <1>5 DEF vars
<1>6. QED
  BY <1>1, <1>2, <1>3, <1>4, <1>5 DEF Next

\* Only a loading or a writing worker changes the destination: to what the
\* source holds, or to an image.
LEMMA DestStep ==
  ASSUME Sound, [Next]_vars
  PROVE  \/ UNCHANGED dest
         \/ \E w \in Slots : Load(w) /\ \A k \in Keys : dest'[k] \in {dest[k], src[k].ver}
         \/ \E w \in Slots : Write(w) /\ \A k \in Keys : dest'[k] \in {dest[k], worker[w].image[k]}
<1>t. TypeOK
  BY DEF Sound
<1>1. ASSUME NEW k \in Keys, Change(k)
      PROVE  UNCHANGED dest
  BY <1>1 DEF Change
<1>2. ASSUME NEW w \in Slots, Load(w)
      PROVE  UNCHANGED dest \/ \A k \in Keys : dest'[k] \in {dest[k], src[k].ver}
  BY <1>2, <1>t, LoadEffect DEF Loads
<1>3. ASSUME NEW w \in Slots, Write(w)
      PROVE  \A k \in Keys : dest'[k] \in {dest[k], worker[w].image[k]}
  BY <1>3, <1>t, WriteEffect DEF Lands
<1>4. ASSUME NEW w \in Slots, Begin(w) \/ Decide(w) \/ Capture(w) \/ SaveBaseline(w) \/ Fetch(w)
                              \/ SaveCursor(w) \/ FinalSave(w) \/ Abort(w)
      PROVE  UNCHANGED dest
  BY <1>4 DEF Begin, Decide, Capture, SaveBaseline, Fetch, SaveCursor, FinalSave, Abort
<1>5. CASE Crash \/ UNCHANGED vars
  BY <1>5 DEF Crash, vars
<1>6. QED
  BY <1>1, <1>2, <1>3, <1>4, <1>5 DEF Next, WorkerStep

\* Only a change changes the source.
LEMMA QuietOrChange ==
  ASSUME [Next]_vars
  PROVE  UNCHANGED source \/ \E k \in Keys : Change(k)
<1>1. ASSUME NEW w \in Slots, Begin(w) \/ WorkerStep(w) \/ Abort(w)
      PROVE  UNCHANGED source
  <2>1. CASE Begin(w) \/ Abort(w) \/ Load(w) \/ Decide(w) \/ Capture(w)
    BY <2>1 DEF Begin, Abort, Load, Decide, Capture
  <2>2. CASE SaveBaseline(w) \/ Fetch(w) \/ Write(w) \/ SaveCursor(w) \/ FinalSave(w)
    BY <2>2 DEF SaveBaseline, Fetch, Write, SaveCursor, FinalSave
  <2>3. QED
    BY <1>1, <2>1, <2>2 DEF WorkerStep
<1>2. CASE Crash \/ UNCHANGED vars
  BY <1>2 DEF Crash, vars
<1>3. QED
  BY <1>1, <1>2 DEF Next

\* Every step keeps the destination and the images behind the source.
LEMMA VersionedStep ==
  ASSUME Sound, [Next]_vars
  PROVE  Versioned'
<1>1. CASE \E k \in Keys : Change(k)
  BY <1>1, ChangeTypes
<1>2. CASE UNCHANGED source
  <2>1. /\ \A k \in Keys : src[k].ver \in Nat /\ dest[k] \in Nat
        /\ \A k \in Keys : dest[k] <= src[k].ver
        /\ \A w \in Slots, k \in Keys : worker[w].image[k] <= src[k].ver
    BY SyncAssumption DEF Sound, TypeOK, Versioned, Row
  <2>2. \A k \in Keys : dest'[k] <= src[k].ver
    BY <2>1, DestStep
  <2>3. \A w \in Slots, k \in Keys : worker'[w].image[k] <= src[k].ver
    BY <1>2, <2>1, ImageStep
  <2>4. UNCHANGED <<mode, src, now, changes>>
    BY <1>2 DEF source
  <2>5. QED
    BY <2>2, <2>3, <2>4 DEF Sound, Versioned, Exists
<1>3. QED
  BY <1>1, <1>2, QuietOrChange

\* Every step leaves each worker with what its stage needs.
LEMMA StagesStep ==
  ASSUME Sound, [Next]_vars
  PROVE  Stages'
<1>t. TypeOK /\ Stages
  BY DEF Sound
<1>a. at \in 0 .. N /\ N \in Nat /\ cursor \in Nat
      /\ \A w \in Slots : worker[w].cur \in Nat /\ worker[w].next \in Nat
  BY <1>t, SyncAssumption DEF TypeOK, Worker
<1> DEFINE Stage(w) ==
             /\ ~ Live(w) => worker[w].cur = 0 /\ worker[w].next = 0
             /\ worker[w].pc = "loading" => worker[w].alone /\ worker[w].cur = 0
             /\ worker[w].pc \notin {"free", "loading"} => at = N
             /\ worker[w].pc = "capturing" => worker[w].cur = 0
             /\ worker[w].pc \in {"looping", "fetched", "written"} => worker[w].cur > 0
             /\ worker[w].pc \in {"fetched", "written"} => worker[w].next > worker[w].cur
<1>s. \A w \in Slots : Stage(w)
  BY <1>t DEF Stages
<1> SUFFICES ASSUME NEW v \in Slots
             PROVE  Stage(v)'
  BY DEF Stages
<1>k. ASSUME worker'[v] = worker[v], at' = at
      PROVE  Stage(v)'
  BY <1>k, <1>s DEF Live
<1>r. ASSUME Returns(v)
      PROVE  Stage(v)'
  BY <1>r DEF Returns, Live
<1>1. ASSUME NEW k \in Keys, Change(k)
      PROVE  Stage(v)'
  BY <1>1, <1>k DEF Change
<1>2. ASSUME NEW w \in Slots, Load(w)
      PROVE  Stage(v)'
  <2>1. Loads(w)
    BY <1>2, <1>t, LoadEffect
  <2>2. CASE at < N /\ at' = at + 1 /\ UNCHANGED worker
    <3>1. worker[v].pc \in {"free", "loading"}
      BY <1>a, <1>s, <2>2
    <3>2. QED
      BY <1>s, <2>2, <3>1 DEF Live
  <2>3. CASE at = N /\ at' = at /\ GoesOn(w, "capturing") /\ Others(w)
    <3>1. worker[w].pc = "loading"
      BY <2>1 DEF Loads
    <3>2. CASE v = w
      BY <1>s, <2>3, <3>1, <3>2 DEF GoesOn, Live
    <3>3. QED
      BY <1>k, <2>3, <3>2 DEF Others
  <2>4. QED
    BY <2>1, <2>2, <2>3 DEF Loads
<1>3. ASSUME NEW w \in Slots, Begin(w)
      PROVE  Stage(v)'
  <2>1. Enters(w)
    BY <1>3, <1>t, BeginEffect
  <2>2. worker[v].pc # "loading" /\ at' = at /\ at = N
    BY <2>1 DEF Enters
  <2>3. CASE v = w
    BY <2>1, <2>2, <2>3 DEF Enters, Live
  <2>4. CASE v # w
    <3>1. /\ worker'[v].pc = worker[v].pc /\ worker'[v].cur = worker[v].cur
          /\ worker'[v].next = worker[v].next
      BY <2>1, <2>4 DEF Enters
    <3>2. QED
      BY <1>s, <2>2, <3>1 DEF Live
  <2>5. QED
    BY <2>3, <2>4
<1>4. ASSUME NEW w \in Slots, Decide(w)
      PROVE  Stage(v)'
  <2>1. /\ Others(w) /\ worker[w].pc = "ready" /\ at' = at
        /\ GoesOn(w, IF worker[w].cur = 0 THEN "capturing" ELSE "looping")
    BY <1>4, <1>t, DecideEffect
  <2>2. CASE v = w
    BY <1>a, <1>s, <2>1, <2>2 DEF GoesOn, Live
  <2>3. QED
    BY <1>k, <2>1, <2>2 DEF Others
<1>5. ASSUME NEW w \in Slots, Capture(w)
      PROVE  Stage(v)'
  <2>1. Others(w) /\ worker[w].pc = "capturing" /\ worker'[w].pc = "captured" /\ at' = at
    BY <1>5, <1>t, CaptureEffect
  <2>2. CASE v = w
    BY <1>s, <2>1, <2>2 DEF Live
  <2>3. QED
    BY <1>k, <2>1, <2>2 DEF Others
<1>6. ASSUME NEW w \in Slots, Abort(w) \/ FinalSave(w)
      PROVE  Stage(v)'
  <2>1. Others(w) /\ Returns(w) /\ at' = at
    BY <1>6, <1>t, AbortEffect, FinalSaveEffect
  <2>2. QED
    BY <1>k, <1>r, <2>1 DEF Others
<1>7. ASSUME NEW w \in Slots, SaveBaseline(w)
      PROVE  Stage(v)'
  <2>1. /\ Others(w) /\ worker[w].pc = "captured" /\ at' = at
        /\ Returns(w) \/ GoesOn(w, "finishing")
    BY <1>7, <1>t, SaveBaselineEffect
  <2>2. CASE v = w /\ GoesOn(w, "finishing")
    BY <1>s, <2>1, <2>2 DEF GoesOn, Live
  <2>3. QED
    BY <1>k, <1>r, <2>1, <2>2 DEF Others
<1>8. ASSUME NEW w \in Slots, Fetch(w)
      PROVE  Stage(v)'
  <2>1. /\ Others(w) /\ worker[w].pc = "looping" /\ at' = at
        /\ \/ GoesOn(w, "finishing")
           \/ \E C \in SUBSET Keys : Fetches(w, C)
    BY <1>8, <1>t, FetchEffect
  <2>2. CASE v = w /\ GoesOn(w, "finishing")
    BY <1>s, <2>1, <2>2 DEF GoesOn, Live
  <2>3. ASSUME NEW C \in SUBSET Keys, Fetches(w, C), v = w
        PROVE  Stage(v)'
    <3>1. worker'[w].next > worker[w].cur
      BY <2>3 DEF Fetches, Changed
    <3>2. QED
      BY <1>s, <2>1, <2>3, <3>1 DEF Fetches, Live
  <2>4. QED
    BY <1>k, <2>1, <2>2, <2>3 DEF Others
<1>9. ASSUME NEW w \in Slots, Write(w)
      PROVE  Stage(v)'
  <2>1. Others(w) /\ worker[w].pc = "fetched" /\ at' = at /\ GoesOn(w, "written")
    BY <1>9, <1>t, WriteEffect
  <2>2. CASE v = w
    BY <1>s, <2>1, <2>2 DEF GoesOn, Live
  <2>3. QED
    BY <1>k, <2>1, <2>2 DEF Others
<1>10. ASSUME NEW w \in Slots, SaveCursor(w)
       PROVE  Stage(v)'
  <2>1. /\ Others(w) /\ worker[w].pc = "written" /\ at' = at
        /\ worker'[w].pc \in {"looping", "finishing"} /\ worker'[w].cur = worker[w].next
    BY <1>10, <1>t, SaveCursorEffect
  <2>2. CASE v = w
    <3>1. worker[w].next > worker[w].cur /\ worker[w].cur > 0 /\ at = N
      BY <1>s, <2>1
    <3>2. worker'[w].cur > 0
      BY <1>a, <2>1, <3>1
    <3>3. QED
      BY <2>1, <2>2, <3>1, <3>2 DEF Live
  <2>3. QED
    BY <1>k, <2>1, <2>2 DEF Others
<1>11. CASE Crash
  BY <1>11, <1>r, <1>t, CrashEffect
<1>12. CASE UNCHANGED vars
  BY <1>12, <1>k DEF vars
<1>13. QED
  BY <1>1, <1>2, <1>3, <1>4, <1>5, <1>6, <1>7, <1>8, <1>9, <1>10, <1>11, <1>12
     DEF Next, WorkerStep

-----------------------------------------------------------------------------
\* A worker that is alone.

\* Every step takes from a lone worker what it knows, or company.
LEMMA AloneStep ==
  ASSUME Sound, AloneKnows, [Next]_vars
  PROVE  AloneKnows'
<1>t. TypeOK
  BY DEF Sound
<1> DEFINE Knows(w) ==
             worker[w].alone /\ Live(w) =>
               /\ \A u \in Slots : u # w => ~ Live(u)
               /\ worker[w].pc = "fetched" =>
                    \A k \in worker[w].rows : dest[k] <= worker[w].image[k]
               /\ cursor = IF worker[w].pc \in {"loading", "capturing", "captured"}
                             THEN 0 ELSE worker[w].cur
<1>s. \A w \in Slots : Knows(w)
  BY DEF AloneKnows
<1> SUFFICES ASSUME NEW v \in Slots
             PROVE  Knows(v)'
  BY DEF AloneKnows
<1>r. ASSUME worker'[v].pc = "free"
      PROVE  Knows(v)'
  BY <1>r DEF Live
\* Where another worker takes the step, this one was not alone.
<1>o. ASSUME NEW w \in Slots, Live(w), Others(w), v # w
      PROVE  Knows(v)'
  <2>1. worker'[v] = worker[v] /\ ~ (worker[v].alone /\ Live(v))
    BY <1>o, <1>s DEF Others
  <2>2. QED
    BY <2>1 DEF Live
\* A worker that takes it stays alone.
<1>l. ASSUME Others(v), worker'[v].alone => worker[v].alone, Live(v)
      PROVE  worker'[v].alone => \A u \in Slots : u # v => ~ Live(u)'
  BY <1>l, <1>s DEF Others, Live
<1>1. ASSUME NEW k \in Keys, Change(k)
      PROVE  Knows(v)'
  BY <1>1, <1>s DEF Change, Live
<1>2. ASSUME NEW w \in Slots, Load(w)
      PROVE  Knows(v)'
  <2>1. Loads(w) /\ Live(w) /\ worker[w].pc = "loading" /\ worker[w].alone
    BY <1>2, <1>t, LoadEffect DEF Loads, Live, Sound, Stages
  <2>2. CASE worker' = worker /\ cursor' = cursor
    <3>1. CASE v = w
      BY <1>s, <2>1, <2>2, <3>1 DEF Live
    <3>2. CASE v # w
      BY <1>s, <2>1, <2>2, <3>2 DEF Live
    <3>3. QED
      BY <3>1, <3>2
  <2>3. CASE GoesOn(w, "capturing") /\ Others(w) /\ cursor' = cursor
    <3>1. CASE v = w
      <4>1. cursor = 0
        BY <1>s, <2>1, <3>1
      <4>2. worker'[v].alone => \A u \in Slots : u # v => ~ Live(u)'
        BY <1>l, <2>1, <2>3, <3>1 DEF GoesOn
      <4>3. QED
        BY <2>3, <3>1, <4>1, <4>2 DEF GoesOn
    <3>2. QED
      BY <1>o, <2>1, <2>3, <3>1
  <2>4. QED
    BY <2>1, <2>2, <2>3 DEF Loads
<1>3. ASSUME NEW w \in Slots, Begin(w)
      PROVE  Knows(v)'
  <2>1. Enters(w)
    BY <1>3, <1>t, BeginEffect
  <2>2. CASE v = w
    <3>1. worker'[v].alone => \A u \in Slots : u # v => ~ Live(u)'
      BY <2>1, <2>2 DEF Enters, Live
    <3>2. worker'[v].pc = "ready" /\ cursor' = worker'[v].cur
      BY <2>1, <2>2 DEF Enters
    <3>3. QED
      BY <3>1, <3>2
  <2>3. CASE v # w
    BY <2>1, <2>3 DEF Enters, Live
  <2>4. QED
    BY <2>2, <2>3
<1>4. ASSUME NEW w \in Slots, Decide(w)
      PROVE  Knows(v)'
  <2>1. /\ Others(w) /\ worker[w].pc = "ready" /\ Live(w) /\ cursor' = cursor
        /\ GoesOn(w, IF worker[w].cur = 0 THEN "capturing" ELSE "looping")
    BY <1>4, <1>t, DecideEffect DEF Live
  <2>2. CASE v = w
    <3>1. worker'[v].alone => \A u \in Slots : u # v => ~ Live(u)'
      BY <1>l, <2>1, <2>2 DEF GoesOn
    <3>2. worker[v].alone => cursor = worker[v].cur
      BY <1>s, <2>1, <2>2
    <3>3. QED
      BY <2>1, <2>2, <3>1, <3>2 DEF GoesOn
  <2>3. QED
    BY <1>o, <2>1, <2>2
<1>5. ASSUME NEW w \in Slots, Capture(w)
      PROVE  Knows(v)'
  <2>1. /\ Others(w) /\ worker[w].pc = "capturing" /\ Live(w) /\ cursor' = cursor
        /\ worker'[w].pc = "captured" /\ worker'[w].alone = worker[w].alone
    BY <1>5, <1>t, CaptureEffect DEF Live
  <2>2. CASE v = w
    <3>1. worker'[v].alone => \A u \in Slots : u # v => ~ Live(u)'
      BY <1>l, <2>1, <2>2
    <3>2. worker[v].alone => cursor = 0
      BY <1>s, <2>1, <2>2
    <3>3. QED
      BY <2>1, <2>2, <3>1, <3>2
  <2>3. QED
    BY <1>o, <2>1, <2>2
<1>6. ASSUME NEW w \in Slots, Abort(w) \/ FinalSave(w)
      PROVE  Knows(v)'
  <2>1. Others(w) /\ Returns(w) /\ Live(w)
    BY <1>6, <1>t, AbortEffect, FinalSaveEffect DEF Abort, FinalSave, Live
  <2>2. QED
    BY <1>o, <1>r, <2>1 DEF Returns
<1>7. ASSUME NEW w \in Slots, SaveBaseline(w)
      PROVE  Knows(v)'
  <2>1. /\ Others(w) /\ worker[w].pc = "captured" /\ Live(w) /\ cursor' = worker[w].cur
        /\ Returns(w) \/ GoesOn(w, "finishing")
    BY <1>7, <1>t, SaveBaselineEffect DEF Live
  <2>2. CASE v = w /\ GoesOn(w, "finishing")
    <3>1. worker'[v].alone => \A u \in Slots : u # v => ~ Live(u)'
      BY <1>l, <2>1, <2>2 DEF GoesOn
    <3>2. QED
      BY <2>1, <2>2, <3>1 DEF GoesOn
  <2>3. QED
    BY <1>o, <1>r, <2>1, <2>2 DEF Returns
<1>8. ASSUME NEW w \in Slots, Fetch(w)
      PROVE  Knows(v)'
  <2>1. /\ Others(w) /\ worker[w].pc = "looping" /\ Live(w) /\ cursor' = cursor /\ dest' = dest
        /\ \/ GoesOn(w, "finishing")
           \/ \E C \in SUBSET Keys : Fetches(w, C)
    BY <1>8, <1>t, FetchEffect DEF Live
  <2>2. CASE v = w
    <3>1. worker[v].alone => cursor = worker[v].cur
      BY <1>s, <2>1, <2>2
    <3>2. CASE GoesOn(w, "finishing")
      <4>1. worker'[v].alone => \A u \in Slots : u # v => ~ Live(u)'
        BY <1>l, <2>1, <2>2, <3>2 DEF GoesOn
      <4>2. QED
        BY <2>1, <2>2, <3>1, <3>2, <4>1 DEF GoesOn
    <3>3. ASSUME NEW C \in SUBSET Keys, Fetches(w, C)
          PROVE  Knows(v)'
      <4>1. worker'[v].alone => \A u \in Slots : u # v => ~ Live(u)'
        BY <1>l, <2>1, <2>2, <3>3 DEF Fetches
      <4>2. \A k \in worker'[v].rows : dest'[k] <= worker'[v].image[k]
        BY <2>1, <2>2, <3>3 DEF Fetches, Sound, Versioned
      <4>3. worker'[v].pc = "fetched" /\ worker'[v].cur = worker[v].cur
            /\ worker'[v].alone = worker[v].alone
        BY <2>2, <3>3 DEF Fetches
      <4>4. QED
        BY <2>1, <3>1, <4>1, <4>2, <4>3
    <3>4. QED
      BY <2>1, <3>2, <3>3
  <2>3. QED
    BY <1>o, <2>1, <2>2
<1>9. ASSUME NEW w \in Slots, Write(w)
      PROVE  Knows(v)'
  <2>1. Others(w) /\ worker[w].pc = "fetched" /\ Live(w) /\ cursor' = cursor /\ GoesOn(w, "written")
    BY <1>9, <1>t, WriteEffect DEF Live
  <2>2. CASE v = w
    <3>1. worker'[v].alone => \A u \in Slots : u # v => ~ Live(u)'
      BY <1>l, <2>1, <2>2 DEF GoesOn
    <3>2. worker[v].alone => cursor = worker[v].cur
      BY <1>s, <2>1, <2>2
    <3>3. QED
      BY <2>1, <2>2, <3>1, <3>2 DEF GoesOn
  <2>3. QED
    BY <1>o, <2>1, <2>2
<1>10. ASSUME NEW w \in Slots, SaveCursor(w)
       PROVE  Knows(v)'
  <2>1. /\ Others(w) /\ worker[w].pc = "written" /\ Live(w) /\ cursor' = worker'[w].cur
        /\ worker'[w].pc \in {"looping", "finishing"} /\ worker'[w].alone = worker[w].alone
    BY <1>10, <1>t, SaveCursorEffect DEF Live
  <2>2. CASE v = w
    <3>1. worker'[v].alone => \A u \in Slots : u # v => ~ Live(u)'
      BY <1>l, <2>1, <2>2
    <3>2. QED
      BY <2>1, <2>2, <3>1
  <2>3. QED
    BY <1>o, <2>1, <2>2
<1>11. CASE Crash
  BY <1>11, <1>r, <1>t, CrashEffect DEF Returns
<1>12. CASE UNCHANGED vars
  BY <1>12, <1>s DEF vars, Live
<1>13. QED
  BY <1>1, <1>2, <1>3, <1>4, <1>5, <1>6, <1>7, <1>8, <1>9, <1>10, <1>11, <1>12
     DEF Next, WorkerStep

-----------------------------------------------------------------------------
\* What is lost.

\* A baseline that is still to be captured was so before.
LEMMA DueStep ==
  ASSUME Sound, AloneKnows, [Next]_vars, BaselineDue'
  PROVE  BaselineDue
<1>t. TypeOK
  BY DEF Sound
<1> DEFINE due == {"ready", "capturing", "captured", "finishing"}
<1>a. /\ \A w \in Slots : worker[w].cur \in Nat /\ worker[w].next \in Nat
      /\ cursor \in Nat
  BY <1>t, SyncAssumption DEF TypeOK, Worker
<1>1. ASSUME NEW k \in Keys, Change(k)
      PROVE  BaselineDue
  BY <1>1 DEF Change, BaselineDue
<1>o. ASSUME NEW w \in Slots, Others(w), cursor' = 0 => BaselineDue,
             worker'[w].pc \in due /\ worker'[w].cur = 0 => BaselineDue
      PROVE  BaselineDue
  <2>1. CASE cursor' = 0
    BY <1>o, <2>1
  <2>2. ASSUME NEW v \in Slots, worker'[v].pc \in due, worker'[v].cur = 0
        PROVE  BaselineDue
    <3>1. CASE v = w
      BY <1>o, <2>2, <3>1
    <3>2. CASE v # w
      BY <1>o, <2>2, <3>2 DEF Others, BaselineDue
    <3>3. QED
      BY <3>1, <3>2
  <2>3. QED
    BY <2>1, <2>2 DEF BaselineDue
<1>2. ASSUME NEW w \in Slots, Load(w)
      PROVE  BaselineDue
  <2>1. Loads(w) /\ Live(w) /\ worker[w].pc = "loading" /\ worker[w].alone
    BY <1>2, <1>t, LoadEffect DEF Loads, Live, Sound, Stages
  <2>2. cursor = 0
    BY <2>1 DEF AloneKnows
  <2>3. QED
    BY <2>2 DEF BaselineDue
<1>3. ASSUME NEW w \in Slots, Begin(w)
      PROVE  BaselineDue
  <2>1. Enters(w)
    BY <1>3, <1>t, BeginEffect
  <2>2. CASE cursor = 0
    BY <2>2 DEF BaselineDue
  <2>3. CASE cursor # 0
    <3>1. PICK v \in Slots : worker'[v].pc \in due /\ worker'[v].cur = 0
      BY <2>1, <2>3 DEF Enters, BaselineDue
    <3>2. v # w
      BY <2>1, <2>3, <3>1 DEF Enters
    <3>3. worker[v].pc \in due /\ worker[v].cur = 0
      BY <2>1, <3>1, <3>2 DEF Enters
    <3>4. QED
      BY <3>3 DEF BaselineDue
  <2>4. QED
    BY <2>2, <2>3
<1>4. ASSUME NEW w \in Slots, Decide(w)
      PROVE  BaselineDue
  <2>1. /\ Others(w) /\ worker[w].pc = "ready" /\ cursor' = cursor
        /\ worker'[w].cur = worker[w].cur
    BY <1>4, <1>t, DecideEffect DEF GoesOn
  <2>2. QED
    BY <1>o, <2>1 DEF BaselineDue
<1>5. ASSUME NEW w \in Slots, Capture(w)
      PROVE  BaselineDue
  BY <1>5 DEF Capture, Sound, Stages, BaselineDue
<1>6. ASSUME NEW w \in Slots, Abort(w)
      PROVE  BaselineDue
  <2>1. Others(w) /\ worker'[w].pc = "free" /\ cursor' = cursor
    BY <1>6, <1>t, AbortEffect DEF Returns
  <2>2. QED
    BY <1>o, <2>1 DEF BaselineDue
<1>7. ASSUME NEW w \in Slots, SaveBaseline(w) \/ FinalSave(w)
      PROVE  BaselineDue
  <2>1. /\ Others(w) /\ worker[w].pc \in {"captured", "finishing"} /\ cursor' = worker[w].cur
        /\ worker'[w].pc = "free" \/ worker'[w].cur = worker[w].cur
    BY <1>7, <1>t, SaveBaselineEffect, FinalSaveEffect DEF Returns, GoesOn
  <2>2. QED
    BY <1>o, <2>1 DEF BaselineDue
<1>8. ASSUME NEW w \in Slots, Fetch(w)
      PROVE  BaselineDue
  <2>1. /\ Others(w) /\ worker[w].pc = "looping" /\ cursor' = cursor
        /\ worker'[w].cur = worker[w].cur
    BY <1>8, <1>t, FetchEffect DEF GoesOn, Fetches
  <2>2. worker[w].cur # 0
    BY <1>a, <2>1 DEF Sound, Stages
  <2>3. QED
    BY <1>o, <2>1, <2>2 DEF BaselineDue
<1>9. ASSUME NEW w \in Slots, Write(w)
      PROVE  BaselineDue
  <2>1. Others(w) /\ cursor' = cursor /\ worker'[w].pc = "written"
    BY <1>9, <1>t, WriteEffect DEF GoesOn
  <2>2. QED
    BY <1>o, <2>1 DEF BaselineDue
<1>10. ASSUME NEW w \in Slots, SaveCursor(w)
       PROVE  BaselineDue
  <2>1. /\ Others(w) /\ worker[w].pc = "written"
        /\ cursor' = worker[w].next /\ worker'[w].cur = worker[w].next
    BY <1>10, <1>t, SaveCursorEffect
  <2>2. worker[w].next # 0
    BY <1>a, <2>1 DEF Sound, Stages
  <2>3. QED
    BY <1>o, <2>1, <2>2
<1>11. CASE Crash
  BY <1>11, <1>t, CrashEffect DEF Returns, BaselineDue
<1>12. CASE UNCHANGED vars
  BY <1>12 DEF vars, BaselineDue
<1>13. QED
  BY <1>1, <1>2, <1>3, <1>4, <1>5, <1>6, <1>7, <1>8, <1>9, <1>10, <1>11, <1>12
     DEF Next, WorkerStep

\* A write loses nothing that was not lost, and leaves nothing lost that it
\* was to write: a row that has changed since it was read was missing before.
LEMMA WriteLosesNothing ==
  ASSUME Sound, AloneKnows, NEW w \in Slots, Write(w), NEW k \in Keys, Lost(k)'
  PROVE  Lost(k) /\ ~ (k \in worker[w].rows /\ worker[w].image[k] = src[k].ver)
<1>t. TypeOK
  BY DEF Sound
<1>1. worker[w].pc = "fetched" /\ UNCHANGED source
  BY <1>t, WriteEffect
<1>2. PICK landed \in SUBSET worker[w].rows : Lands(w, landed)
  BY <1>t, WriteEffect
<1>3. /\ src' = src /\ src[k].ver > 0 /\ dest'[k] # src[k].ver /\ k \notin excused'
  BY <1>1 DEF source, Lost, Missing, Exists
<1>4. k \notin excused /\ k \notin worker[w].rows \ landed
      /\ (k \in landed /\ ~ worker[w].alone => ~ (worker[w].image[k] < dest[k]))
  BY <1>2, <1>3 DEF Lands
<1>5. CASE k \notin landed
  <2>1. dest'[k] = dest[k] /\ k \notin worker[w].rows
    BY <1>2, <1>4, <1>5 DEF Lands
  <2>2. QED
    BY <1>3, <1>4, <2>1 DEF Lost, Missing, Exists
<1>6. CASE k \in landed
  <2>1. dest'[k] = worker[w].image[k] /\ k \in worker[w].rows
    BY <1>2, <1>6 DEF Lands
  <2>2. /\ worker[w].image[k] \in Nat /\ dest[k] \in Nat /\ src[k].ver \in Nat
        /\ worker[w].image[k] <= src[k].ver
    BY <1>t, SyncAssumption DEF TypeOK, Worker, Row, Sound, Versioned
  <2>3. dest[k] <= worker[w].image[k]
    <3>1. CASE worker[w].alone
      BY <1>1, <2>1, <3>1 DEF AloneKnows, Live
    <3>2. CASE ~ worker[w].alone
      BY <1>4, <1>6, <2>2, <3>2
    <3>3. QED
      BY <3>1, <3>2
  <2>4. worker[w].image[k] # src[k].ver /\ dest[k] # src[k].ver
    BY <1>3, <2>1, <2>2, <2>3
  <2>5. QED
    BY <1>3, <1>4, <2>4 DEF Lost, Missing, Exists
<1>7. QED
  BY <1>5, <1>6

\* Nothing is lost but by a change, and the bulk copy passes nothing lost.
LEMMA LostStep ==
  ASSUME Sound, AloneKnows, [Next]_vars, UNCHANGED source, NEW k \in Keys, Lost(k)'
  PROVE  Lost(k) /\ (k <= at' => k <= at)
<1>t. TypeOK /\ src' = src
  BY DEF Sound, source
<1>1. ASSUME UNCHANGED <<source, dest, at, excused>>
      PROVE  Lost(k) /\ at' = at
  BY <1>t, <1>1 DEF Lost, Missing, Exists
<1>2. ASSUME NEW w \in Slots, Load(w)
      PROVE  Lost(k) /\ (k <= at' => k <= at)
  <2>1. Loads(w)
    BY <1>2, <1>t, LoadEffect
  <2>2. CASE at' = at /\ dest' = dest
    BY <1>1, <2>1, <2>2 DEF Loads
  <2>3. CASE /\ at' = at + 1
             /\ \A j \in Keys : dest'[j] = IF j = at + 1 THEN src[j].ver ELSE dest[j]
    <3>1. k # at + 1
      BY <1>t, <2>3 DEF Lost, Missing
    <3>2. dest'[k] = dest[k] /\ (k <= at' => k <= at)
      BY <1>t, <2>3, <3>1, SyncAssumption DEF TypeOK, Keys
    <3>3. excused' = excused
      BY <2>1 DEF Loads
    <3>4. QED
      BY <1>t, <3>2, <3>3 DEF Lost, Missing, Exists
  <2>4. QED
    BY <2>1, <2>2, <2>3 DEF Loads
<1>3. ASSUME NEW w \in Slots, Write(w)
      PROVE  Lost(k) /\ at' = at
  BY <1>3, <1>t, WriteLosesNothing, WriteEffect
<1>4. ASSUME NEW w \in Slots, SaveCursor(w)
      PROVE  Lost(k) /\ at' = at
  <2>1. excused \subseteq excused' /\ UNCHANGED <<dest, at>>
    BY <1>4, <1>t, SaveCursorEffect
  <2>2. QED
    BY <1>t, <2>1 DEF Lost, Missing, Exists
<1>5. ASSUME NEW w \in Slots, Begin(w) \/ Decide(w) \/ Capture(w) \/ SaveBaseline(w) \/ Fetch(w)
                              \/ FinalSave(w) \/ Abort(w)
      PROVE  UNCHANGED <<source, dest, at, excused>>
  BY <1>5 DEF Begin, Decide, Capture, SaveBaseline, Fetch, FinalSave, Abort
<1>6. ASSUME Crash \/ UNCHANGED vars
      PROVE  UNCHANGED <<source, dest, at, excused>>
  BY <1>6 DEF Crash, vars
<1>7. ASSUME NEW j \in Keys, Change(j)
      PROVE  FALSE
  <2>1. changes' = changes + 1 /\ changes \in Nat
    BY <1>7, <1>t, SyncAssumption DEF Change, TypeOK
  <2>2. QED
    BY <2>1 DEF source
<1>8. QED
  BY <1>1, <1>2, <1>3, <1>4, <1>5, <1>6, <1>7 DEF Next, WorkerStep

\* A row lost after a change was lost before, with no later stamp; or it is
\* the one that changed, beyond every cursor, and the baseline (if it is due)
\* will not pass it.
LEMMA ChangeLoses ==
  ASSUME Sound, NEW k \in Keys, Change(k), NEW j \in Keys, Lost(j)'
  PROVE  \/ /\ Lost(j) /\ src'[j].ver = src[j].ver /\ src[j].stamp <= src'[j].stamp
         \/ /\ BaselineDue => ~ (j <= at)
            /\ src'[j].stamp > cursor
            /\ \A w \in Slots : src'[j].stamp > worker[w].cur /\ src'[j].stamp > worker[w].next
<1>t. TypeOK
  BY DEF Sound
<1>1. PICK s \in 1 .. MaxStamp, M \in SUBSET Keys : Commits(k, s, M)
  BY <1>t, ChangeEffect
<1>2. /\ src[j].ver \in Nat /\ src[j].stamp \in Nat /\ now \in Nat /\ cursor \in Nat /\ at \in Nat
      /\ \A w \in Slots : worker[w].cur \in Nat /\ worker[w].next \in Nat
  BY <1>t, SyncAssumption DEF TypeOK, Row, Worker
<1>3. /\ src'[j].ver = IF j = k THEN src[j].ver + 1 ELSE src[j].ver
      /\ src'[j].stamp = IF j \in M THEN s ELSE src[j].stamp
      /\ dest' = dest /\ k \in M
  BY <1>1 DEF Commits
<1>4. CASE j \notin M
  <2>1. j \notin excused /\ j # k
    BY <1>1, <1>3, <1>4 DEF Commits, Lost
  <2>2. QED
    BY <1>2, <1>3, <1>4, <2>1 DEF Lost, Missing, Exists
<1>5. CASE j \in M /\ (Reached(s) \/ BeforeBaseline(j))
  <2>1. j \notin excused /\ j # k
    BY <1>1, <1>5 DEF Commits, Lost
  <2>2. mode = "ora_rowscn" /\ s = now + 1
    BY <1>1, <1>5, <2>1 DEF Commits
  <2>3. src[j].stamp <= s
    BY <1>2, <2>2 DEF Sound, Versioned
  <2>4. QED
    BY <1>3, <1>5, <2>1, <2>3 DEF Lost, Missing, Exists
<1>6. CASE j \in M /\ ~ Reached(s) /\ ~ BeforeBaseline(j)
  <2>1. s > cursor /\ \A w \in Slots : s > worker[w].cur /\ s > worker[w].next
    BY <1>2, <1>6 DEF Reached
  <2>2. BaselineDue => ~ (j <= at)
    BY <1>2, <1>6 DEF BeforeBaseline, BaselineDue, Keys
  <2>3. QED
    BY <1>3, <1>6, <2>1, <2>2
<1>7. QED
  BY <1>4, <1>5, <1>6

\* A row that the bulk copy has passed may change before the baseline is
\* captured: then it is excused, and nothing else is lost.
LEMMA BaselineStep ==
  ASSUME Sound, AloneKnows, BaselineIsTrue, [Next]_vars
  PROVE  BaselineIsTrue'
<1> SUFFICES ASSUME BaselineDue', NEW j \in Keys, j <= at', Lost(j)'
             PROVE  FALSE
  BY DEF BaselineIsTrue
<1>1. BaselineDue
  BY DueStep
<1>2. CASE UNCHANGED source
  BY <1>1, <1>2, LostStep DEF BaselineIsTrue
<1>3. ASSUME NEW k \in Keys, Change(k)
      PROVE  FALSE
  <2>1. at' = at
    BY <1>3 DEF Change
  <2>2. QED
    BY <1>1, <1>3, <2>1, ChangeLoses DEF BaselineIsTrue
<1>4. QED
  BY <1>2, <1>3, QuietOrChange

-----------------------------------------------------------------------------
\* Cursors.

\* Where the cursor in sync_state and those in hand come from.
LEMMA CursorSource ==
  ASSUME Sound, [Next]_vars, UNCHANGED source
  PROVE  /\ \/ cursor' = cursor
            \/ \E w \in Slots : cursor' = worker[w].cur
            \/ \E w \in Slots : SaveCursor(w) /\ cursor' = worker[w].next
         /\ \A v \in Slots :
              \/ worker'[v].cur \in {worker[v].cur, cursor, 0}
              \/ Capture(v)
              \/ SaveCursor(v) /\ worker'[v].cur = worker[v].next
<1>t. TypeOK
  BY DEF Sound
<1> DEFINE Saved == \/ cursor' = cursor
                    \/ \E w \in Slots : cursor' = worker[w].cur
                    \/ \E w \in Slots : SaveCursor(w) /\ cursor' = worker[w].next
           Held(v) == \/ worker'[v].cur \in {worker[v].cur, cursor, 0}
                      \/ Capture(v)
                      \/ SaveCursor(v) /\ worker'[v].cur = worker[v].next
<1>o. ASSUME NEW w \in Slots, Others(w), Held(w), NEW v \in Slots
      PROVE  Held(v)
  BY <1>o DEF Others
<1>1. ASSUME NEW w \in Slots, Load(w)
      PROVE  Saved /\ \A v \in Slots : Held(v)
  <2>1. Loads(w)
    BY <1>1, <1>t, LoadEffect
  <2>2. QED
    BY <2>1 DEF Loads, GoesOn, Others
<1>2. ASSUME NEW w \in Slots, Begin(w)
      PROVE  Saved /\ \A v \in Slots : Held(v)
  <2>1. Enters(w)
    BY <1>2, <1>t, BeginEffect
  <2>2. QED
    BY <2>1 DEF Enters
<1>3. ASSUME NEW w \in Slots, Decide(w) \/ Capture(w) \/ Fetch(w) \/ Write(w) \/ Abort(w)
      PROVE  cursor' = cursor /\ Others(w) /\ Held(w)
  BY <1>3, <1>t, DecideEffect, CaptureEffect, FetchEffect, WriteEffect, AbortEffect
     DEF GoesOn, Fetches, Returns
<1>4. ASSUME NEW w \in Slots, SaveBaseline(w) \/ FinalSave(w)
      PROVE  cursor' = worker[w].cur /\ Others(w) /\ Held(w)
  BY <1>4, <1>t, SaveBaselineEffect, FinalSaveEffect DEF GoesOn, Returns
<1>5. ASSUME NEW w \in Slots, SaveCursor(w)
      PROVE  Saved /\ Others(w) /\ Held(w)
  BY <1>5, <1>t, SaveCursorEffect
<1>6. CASE Crash
  BY <1>6, <1>t, CrashEffect DEF Returns
<1>7. CASE UNCHANGED vars
  BY <1>7 DEF vars
<1>8. ASSUME NEW k \in Keys, Change(k)
      PROVE  cursor' = cursor /\ worker' = worker
  BY <1>8 DEF Change
<1>9. QED
  BY <1>o, <1>1, <1>2, <1>3, <1>4, <1>5, <1>6, <1>7, <1>8 DEF Next, WorkerStep

\* What is lost after the cursor of a chunk is saved is beyond it: what was
\* cut off at it is excused.
LEMMA SaveCursorIsSafe ==
  ASSUME Sound, AloneKnows, ChunksAreSafe, [Next]_vars, NEW w \in Slots, SaveCursor(w),
         NEW k \in Keys, Lost(k)'
  PROVE  src'[k].stamp > worker[w].next
<1>1. /\ worker[w].pc = "written" /\ UNCHANGED source
      /\ excused' = excused \cup {j \in worker[w].tied : src[j].stamp <= worker[w].next}
  BY SaveCursorEffect DEF Sound
<1>2. Lost(k) /\ src' = src
  BY <1>1, LostStep DEF source
<1>3. src[k].stamp > worker[w].next \/ k \in worker[w].tied
  BY <1>1, <1>2 DEF ChunksAreSafe
<1>4. k \notin excused'
  BY DEF Lost
<1>5. src[k].stamp \in Nat /\ worker[w].next \in Nat
  BY SyncAssumption DEF Sound, TypeOK, Row, Worker
<1>6. QED
  BY <1>1, <1>2, <1>3, <1>4, <1>5

\* So every cursor leaves what is lost to later reads.
LEMMA CursorsStep ==
  ASSUME SyncInv, [Next]_vars
  PROVE  CursorsAreSafe'
<1> USE DEF SyncInv
<1>s. Versioned' /\ TypeOK'
  BY VersionedStep, TypeStep
<1>1. CASE UNCHANGED source
  <2>k. ASSUME NEW c, Safe(c)
        PROVE  \A j \in Keys : Lost(j)' => src'[j].stamp > c
    BY <1>1, <2>k, LostStep DEF Safe, source
  <2>0. \A j \in Keys : Lost(j)' => src'[j].stamp > 0
    BY <1>s DEF Versioned, Lost, Missing
  <2>1. \A j \in Keys : Lost(j)' => src'[j].stamp > cursor'
    <3>1. ASSUME NEW w \in Slots, SaveCursor(w), cursor' = worker[w].next
          PROVE  \A j \in Keys : Lost(j)' => src'[j].stamp > cursor'
      BY <3>1, SaveCursorIsSafe
    <3>2. QED
      BY <1>1, <2>k, <3>1, CursorSource DEF CursorsAreSafe
  <2>2. ASSUME NEW w \in Slots
        PROVE  \A j \in Keys : Lost(j)' => src'[j].stamp > worker'[w].cur
    <3>1. CASE worker'[w].cur \in {worker[w].cur, cursor, 0}
      BY <2>k, <2>0, <3>1 DEF CursorsAreSafe
    <3>2. CASE Capture(w)
      <4>1. BaselineDue /\ at = N
        BY <3>2 DEF Capture, Sound, Stages, BaselineDue
      <4>2. \A j \in Keys : ~ Lost(j)
        BY <4>1, SyncAssumption DEF BaselineIsTrue, Keys
      <4>3. QED
        BY <1>1, <4>2, LostStep
    <3>3. CASE SaveCursor(w) /\ worker'[w].cur = worker[w].next
      BY <3>3, SaveCursorIsSafe
    <3>4. QED
      BY <1>1, <3>1, <3>2, <3>3, CursorSource
  <2>3. QED
    BY <2>1, <2>2 DEF CursorsAreSafe, Safe
<1>2. ASSUME NEW k \in Keys, Change(k)
      PROVE  CursorsAreSafe'
  <2>1. cursor' = cursor /\ worker' = worker
    BY <1>2 DEF Change
  <2>2. ASSUME NEW c \in Nat, Safe(c), NEW j \in Keys, Lost(j)', src'[j].stamp > c \/ Lost(j)
        PROVE  src'[j].stamp > c \/ ~ (src[j].stamp <= src'[j].stamp)
    <3>1. src[j].stamp \in Nat /\ src'[j].stamp \in Nat
      BY <1>s, SyncAssumption DEF Sound, TypeOK, Row
    <3>2. QED
      BY <2>2, <3>1 DEF Safe
  <2>3. cursor \in Nat /\ \A w \in Slots : worker[w].cur \in Nat
    BY SyncAssumption DEF Sound, TypeOK, Worker
  <2>4. \A j \in Keys : Lost(j)' => src'[j].stamp > cursor
    BY <1>2, <2>2, <2>3, ChangeLoses DEF CursorsAreSafe
  <2>5. \A w \in Slots, j \in Keys : Lost(j)' => src'[j].stamp > worker[w].cur
    BY <1>2, <2>2, <2>3, ChangeLoses DEF CursorsAreSafe
  <2>6. QED
    BY <2>1, <2>4, <2>5 DEF CursorsAreSafe, Safe
<1>3. QED
  BY <1>1, <1>2, QuietOrChange

\* What a worker that holds a chunk after a step that is not a change did in
\* it: fetched it, wrote it, or nothing.
LEMMA ChunkSource ==
  ASSUME Sound, [Next]_vars, UNCHANGED source, NEW v \in Slots,
         worker'[v].pc \in {"fetched", "written"}
  PROVE  \/ /\ worker'[v].pc = worker[v].pc /\ worker'[v].next = worker[v].next
            /\ worker'[v].rows = worker[v].rows /\ worker'[v].image = worker[v].image
            /\ worker'[v].tied = worker[v].tied
         \/ worker'[v].pc = "fetched" /\ Fetch(v) /\ \E C \in SUBSET Keys : Fetches(v, C)
         \/ /\ Write(v) /\ worker[v].pc = "fetched" /\ worker'[v].pc = "written"
            /\ worker'[v].next = worker[v].next /\ worker'[v].tied = worker[v].tied
<1>t. TypeOK
  BY DEF Sound
<1> DEFINE Kept ==
             /\ worker'[v].pc = worker[v].pc /\ worker'[v].next = worker[v].next
             /\ worker'[v].rows = worker[v].rows /\ worker'[v].image = worker[v].image
             /\ worker'[v].tied = worker[v].tied
<1>1. ASSUME NEW w \in Slots, Others(w), v # w
      PROVE  Kept
  BY <1>1 DEF Others
<1>2. ASSUME NEW w \in Slots, Load(w)
      PROVE  Kept
  <2>1. worker' = worker \/ (GoesOn(w, "capturing") /\ Others(w))
    BY <1>2, <1>t, LoadEffect DEF Loads
  <2>2. QED
    BY <1>1, <2>1 DEF GoesOn
<1>3. ASSUME NEW w \in Slots, Begin(w)
      PROVE  Kept
  <2>1. Enters(w)
    BY <1>3, <1>t, BeginEffect
  <2>2. v # w
    BY <2>1 DEF Enters
  <2>3. QED
    BY <2>1, <2>2 DEF Enters
<1>4. ASSUME NEW w \in Slots, Decide(w) \/ Capture(w) \/ Abort(w) \/ SaveBaseline(w)
                              \/ SaveCursor(w) \/ FinalSave(w)
      PROVE  Kept
  <2>1. Others(w) /\ worker'[w].pc \notin {"fetched", "written"}
    BY <1>4, <1>t, DecideEffect, CaptureEffect, AbortEffect, SaveBaselineEffect,
       SaveCursorEffect, FinalSaveEffect DEF GoesOn, Returns
  <2>2. QED
    BY <1>1, <2>1
<1>5. ASSUME NEW w \in Slots, Fetch(w)
      PROVE  Kept \/ (Fetch(v) /\ \E C \in SUBSET Keys : Fetches(v, C))
  <2>1. /\ Others(w)
        /\ GoesOn(w, "finishing") \/ \E C \in SUBSET Keys : Fetches(w, C)
    BY <1>5, <1>t, FetchEffect
  <2>2. QED
    BY <1>1, <1>5, <2>1 DEF GoesOn
<1>6. ASSUME NEW w \in Slots, Write(w)
      PROVE  \/ Kept
             \/ /\ Write(v) /\ worker[v].pc = "fetched" /\ worker'[v].pc = "written"
                /\ worker'[v].next = worker[v].next /\ worker'[v].tied = worker[v].tied
  <2>1. Others(w) /\ GoesOn(w, "written") /\ worker[w].pc = "fetched"
    BY <1>6, <1>t, WriteEffect
  <2>2. QED
    BY <1>1, <1>6, <2>1 DEF GoesOn
<1>7. CASE Crash
  BY <1>7, <1>t, CrashEffect DEF Returns
<1>8. CASE UNCHANGED vars
  BY <1>8 DEF vars
<1>9. ASSUME NEW j \in Keys, Change(j)
      PROVE  Kept
  BY <1>9 DEF Change
<1>10. (\E C \in SUBSET Keys : Fetches(v, C)) => worker'[v].pc = "fetched"
  BY DEF Fetches
<1>11. QED
  BY <1>2, <1>3, <1>4, <1>5, <1>6, <1>7, <1>8, <1>9, <1>10 DEF Next, WorkerStep

\* What is lost is in a chunk of all that has changed, or not before its end.
LEMMA FetchIsSafe ==
  ASSUME Sound, CursorsAreSafe, NEW w \in Slots, NEW C \in SUBSET Keys, Fetches(w, C),
         NEW k \in Keys, Lost(k)
  PROVE  \/ src[k].stamp > worker'[w].next
         \/ k \in worker'[w].tied
         \/ k \in worker'[w].rows /\ worker'[w].image[k] = src[k].ver
<1>1. k \in Changed(w)
  BY DEF CursorsAreSafe, Safe, Changed, Lost, Missing
<1>2. CASE k \in C
  BY <1>2 DEF Fetches
<1>3. CASE k \notin C
  <2>1. PICK c \in C : worker'[w].next = src[c].stamp
    BY DEF Fetches
  <2>2. src[c].stamp <= src[k].stamp
    BY <1>1, <1>3, <2>1 DEF Fetches
  <2>3. src[c].stamp \in Nat /\ src[k].stamp \in Nat
    BY SyncAssumption DEF Sound, TypeOK, Row
  <2>4. CASE src[k].stamp = src[c].stamp
    BY <1>1, <1>3, <2>4 DEF Fetches
  <2>5. CASE src[k].stamp # src[c].stamp
    BY <2>1, <2>2, <2>3, <2>5
  <2>6. QED
    BY <2>4, <2>5
<1>4. QED
  BY <1>2, <1>3

\* And so does the cursor after a chunk.
LEMMA ChunksStep ==
  ASSUME SyncInv, [Next]_vars
  PROVE  ChunksAreSafe'
<1> USE DEF SyncInv
<1> DEFINE Holds(v, k) ==
             /\ worker[v].pc = "fetched" =>
                  \/ src[k].stamp > worker[v].next
                  \/ k \in worker[v].tied
                  \/ k \in worker[v].rows /\ worker[v].image[k] = src[k].ver
             /\ worker[v].pc = "written" =>
                  src[k].stamp > worker[v].next \/ k \in worker[v].tied
<1>s. \A v \in Slots, k \in Keys : Lost(k) => Holds(v, k)
  BY DEF ChunksAreSafe
<1> SUFFICES ASSUME NEW v \in Slots, NEW k \in Keys, Lost(k)'
             PROVE  Holds(v, k)'
  BY DEF ChunksAreSafe
<1>1. CASE UNCHANGED source
  <2>1. Lost(k) /\ src' = src
    BY <1>1, LostStep DEF source
  <2>2. CASE worker'[v].pc \notin {"fetched", "written"}
    BY <2>2
  <2>3. CASE /\ worker'[v].pc = worker[v].pc /\ worker'[v].next = worker[v].next
             /\ worker'[v].rows = worker[v].rows /\ worker'[v].image = worker[v].image
             /\ worker'[v].tied = worker[v].tied
    BY <1>s, <2>1, <2>3
  <2>4. ASSUME NEW C \in SUBSET Keys, Fetches(v, C), worker'[v].pc = "fetched"
        PROVE  Holds(v, k)'
    <3>1. \/ src[k].stamp > worker'[v].next
          \/ k \in worker'[v].tied
          \/ k \in worker'[v].rows /\ worker'[v].image[k] = src[k].ver
      BY <2>1, <2>4, FetchIsSafe
    <3>2. QED
      BY <2>1, <2>4, <3>1
  <2>5. CASE /\ Write(v) /\ worker[v].pc = "fetched" /\ worker'[v].pc = "written"
             /\ worker'[v].next = worker[v].next /\ worker'[v].tied = worker[v].tied
    <3>1. ~ (k \in worker[v].rows /\ worker[v].image[k] = src[k].ver)
      BY <2>5, WriteLosesNothing
    <3>2. src[k].stamp > worker[v].next \/ k \in worker[v].tied
      BY <1>s, <2>1, <2>5, <3>1
    <3>3. QED
      BY <2>1, <2>5, <3>2
  <2>6. QED
    BY <1>1, <2>2, <2>3, <2>4, <2>5, ChunkSource
<1>2. ASSUME NEW j \in Keys, Change(j)
      PROVE  Holds(v, k)'
  <2>1. worker' = worker
    BY <1>2 DEF Change
  <2>2. CASE /\ Lost(k) /\ src'[k].ver = src[k].ver /\ src[k].stamp <= src'[k].stamp
    <3>1. src[k].stamp \in Nat /\ src'[k].stamp \in Nat /\ worker[v].next \in Nat
      BY TypeStep, SyncAssumption DEF Sound, TypeOK, Row, Worker
    <3>2. src[k].stamp > worker[v].next => src'[k].stamp > worker[v].next
      BY <2>2, <3>1
    <3>3. QED
      BY <1>s, <2>1, <2>2, <3>2
  <2>3. CASE src'[k].stamp > worker[v].next
    BY <2>1, <2>3
  <2>4. QED
    BY <1>2, <2>2, <2>3, ChangeLoses
<1>3. QED
  BY <1>1, <1>2, QuietOrChange

-----------------------------------------------------------------------------
\* At first nothing is lost: there is no cursor.
LEMMA InitSyncInv == Init => SyncInv
<1> SUFFICES ASSUME Init
             PROVE  SyncInv
  OBVIOUS
<1>1. Sound /\ \A w \in Slots : worker[w].pc \in {"free", "loading"}
  BY InitSound
<1>2. \A w \in Slots : worker[w].cur = 0
  BY <1>1 DEF Sound, Stages, Live
<1>3. AloneKnows
  <2>1. PICK first \in Slots :
          worker = [w \in Slots |-> IF w = first
                      THEN [NoWorker EXCEPT !.pc = "loading", !.bulk = TRUE] ELSE NoWorker]
    BY DEF Init
  <2>2. \A w \in Slots : w # first => worker[w].pc = "free"
    BY <2>1 DEF NoWorker
  <2>3. cursor = 0
    BY DEF Init
  <2>4. QED
    BY <1>1, <2>2, <2>3 DEF AloneKnows, Live
<1>4. BaselineIsTrue
  BY SyncAssumption DEF Init, BaselineIsTrue, Keys
<1>5. CursorsAreSafe
  BY <1>1, <1>2 DEF Init, CursorsAreSafe, Safe, Sound, Versioned, Lost, Missing
<1>6. ChunksAreSafe
  BY <1>1 DEF ChunksAreSafe
<1>7. QED
  BY <1>1, <1>3, <1>4, <1>5, <1>6 DEF SyncInv

\* All of this holds at all times.
THEOREM SyncInvariant == Safety => []SyncInv
<1>1. SyncInv /\ [Next]_vars => SyncInv'
  <2> SUFFICES ASSUME SyncInv, [Next]_vars
               PROVE  SyncInv'
    OBVIOUS
  <2>1. Sound'
    BY TypeStep, VersionedStep, StagesStep DEF SyncInv, Sound
  <2>2. AloneKnows' /\ BaselineIsTrue'
    BY AloneStep, BaselineStep DEF SyncInv
  <2>3. CursorsAreSafe' /\ ChunksAreSafe'
    BY CursorsStep, ChunksStep
  <2>4. QED
    BY <2>1, <2>2, <2>3 DEF SyncInv
<1>2. QED
  BY InitSyncInv, <1>1, PTL DEF Safety

\* The variables keep their types: captureSyncHighWater and the end of a chunk
\* give a stamp, whatever the rows.
THEOREM SyncTypeCorrect == Safety => []TypeOK
<1>1. SyncInv => TypeOK
  BY DEF SyncInv, Sound
<1>2. QED
  BY SyncInvariant, <1>1, PTL

\* Whatever the order of changes, runs, workers that outlive their run, broken
\* writes and crashes: a row that differs is ahead of the cursor saved in
\* sync_state, or one of the listed weaknesses left it behind.
THEOREM NothingElseIsLeftBehind == Safety => []NothingElseIsMissed
<1>1. SyncInv => NothingElseIsMissed
  BY DEF SyncInv, CursorsAreSafe, Safe, Lost, NothingElseIsMissed
<1>2. QED
  BY SyncInvariant, <1>1, PTL

\* A worker that is alone finds its cursor where it left it: it takes the one
\* in sync_state forward only.
THEOREM OnlyStragglersGoBack == Safety => CursorGoesForward
<1>1. SyncInv /\ [Next]_vars =>
        [cursor' < cursor => \E w \in Slots : worker'[w] # worker[w] /\ ~ worker[w].alone]_vars
  <2> SUFFICES ASSUME SyncInv, [Next]_vars, cursor' < cursor
               PROVE  \E w \in Slots : worker'[w] # worker[w] /\ ~ worker[w].alone
    OBVIOUS
  <2>t. /\ TypeOK /\ cursor \in Nat
        /\ \A w \in Slots : worker[w].cur \in Nat /\ worker[w].next \in Nat
    BY SyncAssumption DEF SyncInv, Sound, TypeOK, Worker
  <2>1. cursor' # cursor
    BY <2>t
  <2>2. ASSUME NEW w \in Slots, SaveBaseline(w) \/ FinalSave(w)
        PROVE  worker'[w] # worker[w] /\ ~ worker[w].alone
    <3>1. /\ cursor' = worker[w].cur /\ worker[w].pc \in {"captured", "finishing"}
          /\ worker'[w].pc # worker[w].pc
      BY <2>2, <2>t, SaveBaselineEffect, FinalSaveEffect DEF Returns, GoesOn
    <3>2. worker[w].alone => cursor = IF worker[w].pc = "captured" THEN 0 ELSE worker[w].cur
      BY <3>1 DEF SyncInv, AloneKnows, Live
    <3>3. QED
      BY <2>t, <3>1, <3>2
  <2>3. ASSUME NEW w \in Slots, SaveCursor(w)
        PROVE  worker'[w] # worker[w] /\ ~ worker[w].alone
    <3>1. cursor' = worker[w].next /\ worker[w].pc = "written" /\ worker'[w].pc # worker[w].pc
      BY <2>3, <2>t, SaveCursorEffect
    <3>2. worker[w].alone => cursor = worker[w].cur
      BY <3>1 DEF SyncInv, AloneKnows, Live
    <3>3. worker[w].next > worker[w].cur
      BY <3>1 DEF SyncInv, Sound, Stages
    <3>4. QED
      BY <2>t, <3>1, <3>2, <3>3
  <2>4. ASSUME NEW w \in Slots, Begin(w) \/ Load(w) \/ Decide(w) \/ Capture(w) \/ Fetch(w)
                                \/ Write(w) \/ Abort(w)
        PROVE  cursor' = cursor
    BY <2>4 DEF Begin, Load, Decide, Capture, Fetch, Write, Abort
  <2>5. ASSUME Crash \/ UNCHANGED vars \/ \E k \in Keys : Change(k)
        PROVE  cursor' = cursor
    BY <2>5 DEF Crash, vars, Change
  <2>6. QED
    BY <2>1, <2>2, <2>3, <2>4, <2>5 DEF Next, WorkerStep
<1>2. QED
  BY SyncInvariant, <1>1, PTL DEF Safety, CursorGoesForward
=============================================================================
