-------------------------- MODULE TableCopyProofs --------------------------
(***************************************************************************)
(* Theorems about TableCopy, for any table, any settings, and any number   *)
(* of runs and failing transactions.                                       *)
(***************************************************************************)
EXTENDS TableCopy, FiniteSetTheorems, TLAPS

\* A set of rows is finite.
LEMMA RowsAreFinite ==
  ASSUME NEW S, S \subseteq Rows
  PROVE  IsFiniteSet(S) /\ Cardinality(S) \in Nat
<1>1. IsFiniteSet(Rows)
  BY CopyAssumption, FS_Interval DEF Rows
<1>2. QED
  BY <1>1, FS_Subset, FS_CardinalityType

\* What a run works with is a setting.
LEMMA EffectiveIsSetting ==
  ASSUME NEW s \in Settings
  PROVE  Effective(s) \in Setting
<1>1. s \in Setting
  BY CopyAssumption
<1>2. QED
  BY <1>1, CopyAssumption DEF Effective, Setting, Rows

LEMMA NoWorkerIsWorker == NoWorker \in Worker
<1>1. NoWorker.set \in Setting
  BY DEF NoWorker, Setting
<1>2. QED
  BY <1>1, CopyAssumption DEF NoWorker, Worker, Rows

\* Replacing one worker.
LEMMA BecomeType ==
  ASSUME worker \in [Runs -> Worker], NEW r \in Runs, NEW w \in Worker, Become(r, w)
  PROVE  /\ worker' \in [Runs -> Worker] /\ worker'[r] = w
         /\ \A q \in Runs : q # r => worker'[q] = worker[q]
  BY DEF Become

\* What a worker with a chunk has left to try may change, but not get lost.
Resorts(w, v) ==
  /\ v \in Worker
  /\ v.pc = w.pc /\ v.set = w.set /\ v.last = w.last /\ v.chunk = w.chunk /\ v.short = w.short
  /\ (UNION w.parts) \cup w.singles \subseteq (UNION v.parts) \cup v.singles

LEMMA HalveResorts ==
  ASSUME NEW w \in Worker, NEW P \in w.parts, NEW v \in Halve(w, P)
  PROVE  Resorts(w, v)
<1>1. P \subseteq Rows
  BY DEF Worker
<1>2. CASE Cardinality(P) = 1
  <2>1. v = [w EXCEPT !.parts = @ \ {P}, !.singles = @ \cup P]
    BY <1>2 DEF Halve
  <2>2. v \in Worker
    BY <2>1, <1>1 DEF Worker
  <2>3. v.parts = w.parts \ {P} /\ v.singles = w.singles \cup P
    BY <2>1 DEF Worker
  <2>4. (UNION w.parts) \cup w.singles \subseteq (UNION v.parts) \cup v.singles
    BY <2>3
  <2>5. v.pc = w.pc /\ v.set = w.set /\ v.last = w.last /\ v.chunk = w.chunk /\ v.short = w.short
    BY <2>1 DEF Worker
  <2>6. QED
    BY <2>2, <2>4, <2>5 DEF Resorts
<1>3. CASE Cardinality(P) # 1
  <2>1. PICK L \in Halves(P) : v = [w EXCEPT !.parts = (@ \ {P}) \cup {L, P \ L}]
    BY <1>3 DEF Halve
  <2>2. L \subseteq P
    BY DEF Halves, Firsts
  <2>3. v \in Worker
    BY <2>1, <2>2, <1>1 DEF Worker
  <2>4. v.parts = (w.parts \ {P}) \cup {L, P \ L} /\ v.singles = w.singles
    BY <2>1 DEF Worker
  <2>5. ASSUME NEW x \in UNION w.parts
        PROVE  x \in UNION v.parts
    <3>1. PICK Q \in w.parts : x \in Q
      OBVIOUS
    <3>2. CASE Q # P
      BY <3>1, <3>2, <2>4
    <3>3. CASE Q = P
      <4>1. x \in L \/ x \in P \ L
        BY <3>1, <3>3
      <4>2. L \in v.parts /\ P \ L \in v.parts
        BY <2>4
      <4>3. QED
        BY <4>1, <4>2
    <3>4. QED
      BY <3>2, <3>3
  <2>6. v.pc = w.pc /\ v.set = w.set /\ v.last = w.last /\ v.chunk = w.chunk /\ v.short = w.short
    BY <2>1 DEF Worker
  <2>7. (UNION w.parts) \cup w.singles \subseteq (UNION v.parts) \cup v.singles
    BY <2>4, <2>5
  <2>8. QED
    BY <2>3, <2>6, <2>7 DEF Resorts
<1>4. QED
  BY <1>2, <1>3

LEMMA SplitResorts ==
  ASSUME NEW w \in Worker, NEW P \in w.parts, NEW i \in P
  PROVE  Resorts(w, SplitAt(w, P, i))
<1> DEFINE v == SplitAt(w, P, i)
<1>1. P \subseteq Rows /\ Rows \subseteq Int
  BY DEF Worker, Rows
<1> DEFINE parts == ((w.parts \ {P}) \cup {{x \in P : x < i}, {x \in P : x > i}}) \ {{}}
           singles == w.singles \cup {i}
<1>2. v \in Worker
  <2>1. w.parts \in SUBSET SUBSET Rows /\ w.singles \in SUBSET Rows
    BY DEF Worker
  <2>2. parts \in SUBSET SUBSET Rows /\ singles \in SUBSET Rows
    BY <1>1, <2>1
  <2>3. v = [w EXCEPT !.parts = parts, !.singles = singles]
    BY DEF SplitAt
  <2> HIDE DEF parts, singles, v
  <2>4. QED
    BY <2>2, <2>3 DEF Worker
<1>3. /\ v.parts = ((w.parts \ {P}) \cup {{x \in P : x < i}, {x \in P : x > i}}) \ {{}}
      /\ v.singles = w.singles \cup {i}
  BY DEF SplitAt, Worker
<1>4. ASSUME NEW x \in UNION w.parts
      PROVE  x \in (UNION v.parts) \cup v.singles
  <2>1. PICK Q \in w.parts : x \in Q
    OBVIOUS
  <2>2. CASE Q # P
    BY <2>1, <2>2, <1>3
  <2>3. CASE Q = P
    <3>1. x = i \/ x < i \/ x > i
      BY <1>1, <2>1, <2>3
    <3>2. CASE x = i
      BY <3>2, <1>3
    <3>3. CASE x < i
      <4>1. x \in {y \in P : y < i}
        BY <2>1, <2>3, <3>3
      <4>2. QED
        BY <4>1, <1>3
    <3>4. CASE x > i
      <4>1. x \in {y \in P : y > i}
        BY <2>1, <2>3, <3>4
      <4>2. QED
        BY <4>1, <1>3
    <3>5. QED
      BY <3>1, <3>2, <3>3, <3>4
  <2>4. QED
    BY <2>2, <2>3
<1>5. (UNION w.parts) \cup w.singles \subseteq (UNION v.parts) \cup v.singles
  BY <1>3, <1>4
<1>6. v.pc = w.pc /\ v.set = w.set /\ v.last = w.last /\ v.chunk = w.chunk /\ v.short = w.short
  BY DEF SplitAt, Worker
<1>7. QED
  BY <1>2, <1>5, <1>6 DEF Resorts

\* A transaction adds rows and takes none away.
LEMMA InsertAdds ==
  ASSUME dest \in [Rows -> Nat], NEW P, Insert(P)
  PROVE  /\ dest' \in [Rows -> Nat]
         /\ \A x \in Rows : dest[x] > 0 => dest'[x] > 0
         /\ \A x \in P \cap Rows : dest'[x] > 0
<1>1. ASSUME NEW x \in Rows
      PROVE  dest'[x] = IF x \notin P THEN dest[x] ELSE IF Merge THEN 1 ELSE dest[x] + 1
  BY <1>1 DEF Insert
<1>2. dest' = [x \in Rows |-> dest'[x]]
  BY DEF Insert
<1>3. ASSUME NEW x \in Rows
      PROVE  dest'[x] \in Nat /\ (dest[x] > 0 => dest'[x] > 0) /\ (x \in P => dest'[x] > 0)
  <2>1. dest[x] \in Nat
    OBVIOUS
  <2>2. QED
    BY <1>1, <2>1
<1>4. QED
  BY <1>2, <1>3

\* The writer's steps: the worker stays at its chunk, and what it no longer
\* has to try is in the destination or in the log.
Writes(r) ==
  /\ \E v \in Worker :
       /\ Become(r, v)
       /\ v.pc = worker[r].pc /\ v.set = worker[r].set
       /\ v.last = worker[r].last /\ v.chunk = worker[r].chunk
       /\ v.short = worker[r].short
       /\ \A x \in (UNION worker[r].parts) \cup worker[r].singles :
            x \in (UNION v.parts) \cup v.singles \/ dest'[x] > 0 \/ x \in logged'
  /\ dest' \in [Rows -> Nat] /\ \A x \in Rows : dest[x] > 0 => dest'[x] > 0
  /\ logged' \subseteq Rows /\ logged \subseteq logged'
  /\ faults' \in 0 .. MaxFaults /\ events' \subseteq Event

LEMMA PartWrites ==
  ASSUME TypeOK, NEW r \in Runs, WritePart(r)
  PROVE  Writes(r)
<1> DEFINE w == worker[r]
<1>1. w \in Worker /\ dest \in [Rows -> Nat] /\ events \subseteq Event /\ faults \in 0 .. MaxFaults
      /\ logged \subseteq Rows
  BY DEF TypeOK
<1>2. logged' = logged
  BY DEF WritePart
<1>3. PICK P \in w.parts : PartGoesIn(r, P) \/ PartFails(r, P) \/ PartFaults(r, P)
  BY DEF WritePart
<1>4. P \subseteq Rows
  BY <1>1 DEF Worker
<1>5. ASSUME NEW v, Resorts(w, v), Become(r, v),
             dest' \in [Rows -> Nat], \A x \in Rows : dest[x] > 0 => dest'[x] > 0,
             faults' \in 0 .. MaxFaults, events' \subseteq Event
      PROVE  Writes(r)
  <2>1. /\ v \in Worker /\ v.pc = w.pc /\ v.set = w.set
        /\ v.last = w.last /\ v.chunk = w.chunk /\ v.short = w.short
        /\ (UNION w.parts) \cup w.singles \subseteq (UNION v.parts) \cup v.singles
    BY <1>5 DEF Resorts
  <2>2. QED
    BY <1>1, <1>2, <1>5, <2>1 DEF Writes
<1>6. CASE PartGoesIn(r, P)
  <2> DEFINE v == [w EXCEPT !.parts = @ \ {P}, !.total = @ + Cardinality(P)]
  <2>1. Cardinality(P) \in Nat
    BY <1>4, RowsAreFinite
  <2>2. v \in Worker
    <3>1. w.total + Cardinality(P) \in Nat
      BY <1>1, <2>1 DEF Worker
    <3>2. \A k \in Nat : [w EXCEPT !.parts = @ \ {P}, !.total = k] \in Worker
      BY <1>1 DEF Worker
    <3>3. v = [w EXCEPT !.parts = @ \ {P}, !.total = w.total + Cardinality(P)]
      OBVIOUS
    <3>4. QED
      BY <3>1, <3>2, <3>3, Zenon
  <2>3. /\ v.pc = w.pc /\ v.set = w.set /\ v.last = w.last /\ v.chunk = w.chunk /\ v.short = w.short
        /\ v.parts = w.parts \ {P} /\ v.singles = w.singles
    BY <1>1 DEF Worker
  <2>4. Become(r, v) /\ Insert(P) /\ UNCHANGED <<faults, events>>
    BY <1>6 DEF PartGoesIn
  <2>5. /\ dest' \in [Rows -> Nat] /\ \A x \in Rows : dest[x] > 0 => dest'[x] > 0
        /\ \A x \in P : dest'[x] > 0
    BY <1>1, <1>4, <2>4, InsertAdds
  <2>6. ASSUME NEW x \in (UNION w.parts) \cup w.singles
        PROVE  x \in (UNION v.parts) \cup v.singles \/ dest'[x] > 0
    <3>1. CASE x \in w.singles
      BY <3>1, <2>3
    <3>2. CASE x \in UNION w.parts
      <4>1. PICK Q \in w.parts : x \in Q
        BY <3>2
      <4>2. Q = P \/ Q \in v.parts
        BY <2>3
      <4>3. QED
        BY <4>1, <4>2, <2>5
    <3>3. QED
      BY <3>1, <3>2
  <2> HIDE DEF v
  <2>7. QED
    BY <1>1, <1>2, <2>2, <2>3, <2>4, <2>5, <2>6 DEF Writes
<1>7. CASE PartFails(r, P)
  <2>1. dest' = dest /\ faults' = faults /\ events' = events
    BY <1>7 DEF PartFails
  <2>2. \/ \E v \in Halve(w, P) : Become(r, v)
        \/ \E i \in P : Become(r, SplitAt(w, P, i))
    BY <1>7 DEF PartFails
  <2>3. QED
    BY <1>1, <1>5, <2>1, <2>2, HalveResorts, SplitResorts
<1>8. CASE PartFaults(r, P)
  <2>1. faults' \in 0 .. MaxFaults
    BY <1>1, <1>8, CopyAssumption DEF PartFaults
  <2>2. events' \subseteq Event
    BY <1>1, <1>8 DEF PartFaults, Note, Event
  <2>3. dest' \in [Rows -> Nat] /\ \A x \in Rows : dest[x] > 0 => dest'[x] > 0
    BY <1>1, <1>8, InsertAdds DEF PartFaults
  <2>4. \/ \E v \in Halve(w, P) : Become(r, v)
        \/ \E i \in P : Become(r, SplitAt(w, P, i))
    BY <1>8 DEF PartFaults
  <2>5. QED
    BY <1>1, <1>5, <2>1, <2>2, <2>3, <2>4, HalveResorts, SplitResorts
<1>9. QED
  BY <1>3, <1>6, <1>7, <1>8

LEMMA RowWrites ==
  ASSUME TypeOK, NEW r \in Runs, WriteRow(r)
  PROVE  Writes(r)
<1> DEFINE w == worker[r]
<1>1. w \in Worker /\ dest \in [Rows -> Nat] /\ events \subseteq Event /\ faults \in 0 .. MaxFaults
      /\ logged \subseteq Rows
  BY DEF TypeOK
<1>2. PICK x \in w.singles : RowGoesIn(r, x) \/ RowFails(r, x)
  BY DEF WriteRow
<1>3. x \in Rows
  BY <1>1, <1>2 DEF Worker
<1>4. CASE RowGoesIn(r, x)
  <2> DEFINE v == [w EXCEPT !.singles = @ \ {x}, !.coerced = FALSE, !.total = @ + 1]
  <2>1. v \in Worker
    <3>1. w.total + 1 \in Nat
      BY <1>1 DEF Worker
    <3>2. \A k \in Nat :
            [w EXCEPT !.singles = @ \ {x}, !.coerced = FALSE, !.total = k] \in Worker
      BY <1>1 DEF Worker
    <3>3. v = [w EXCEPT !.singles = @ \ {x}, !.coerced = FALSE, !.total = w.total + 1]
      OBVIOUS
    <3>4. QED
      BY <3>1, <3>2, <3>3, Zenon
  <2>2. /\ v.pc = w.pc /\ v.set = w.set /\ v.last = w.last /\ v.chunk = w.chunk /\ v.short = w.short
        /\ v.parts = w.parts /\ v.singles = w.singles \ {x}
    BY <1>1 DEF Worker
  <2>3. Become(r, v) /\ Insert({x}) /\ UNCHANGED <<logged, faults, events>>
    BY <1>4 DEF RowGoesIn
  <2>4. /\ dest' \in [Rows -> Nat] /\ \A y \in Rows : dest[y] > 0 => dest'[y] > 0
        /\ dest'[x] > 0
    BY <1>1, <1>3, <2>3, InsertAdds
  <2> HIDE DEF v
  <2>5. QED
    BY <1>1, <2>1, <2>2, <2>3, <2>4 DEF Writes
<1>5. CASE RowFails(r, x)
  <2>1. dest' \in [Rows -> Nat] /\ \A y \in Rows : dest[y] > 0 => dest'[y] > 0
    BY <1>1, <1>5, InsertAdds DEF RowFails
  <2>2. faults' \in 0 .. MaxFaults
    BY <1>1, <1>5, CopyAssumption DEF RowFails
  <2>3. events' \subseteq Event
    BY <1>1, <1>5 DEF RowFails, Note, Event
  <2>4. CASE w.coerced
    <3> DEFINE v == [w EXCEPT !.singles = @ \ {x}, !.coerced = FALSE]
    <3>1. v \in Worker
      BY <1>1 DEF Worker
    <3>2. /\ v.pc = w.pc /\ v.set = w.set /\ v.last = w.last
          /\ v.chunk = w.chunk /\ v.short = w.short
          /\ v.parts = w.parts /\ v.singles = w.singles \ {x}
      BY <1>1 DEF Worker
    <3>3. Become(r, v) /\ logged' = logged \cup {x}
      BY <1>5, <2>4 DEF RowFails, GiveUpRow
    <3> HIDE DEF v
    <3>4. QED
      BY <1>1, <1>3, <2>1, <2>2, <2>3, <3>1, <3>2, <3>3 DEF Writes
  <2>5. CASE ~ w.coerced
    <3> DEFINE v == [w EXCEPT !.coerced = TRUE]
    <3>1. v \in Worker
      BY <1>1 DEF Worker
    <3>2. /\ v.pc = w.pc /\ v.set = w.set /\ v.last = w.last
          /\ v.chunk = w.chunk /\ v.short = w.short
          /\ v.parts = w.parts /\ v.singles = w.singles
      BY <1>1 DEF Worker
    <3>3. Become(r, v) /\ logged' = logged
      BY <1>5, <2>5 DEF RowFails, Become
    <3> HIDE DEF v
    <3>4. QED
      BY <1>1, <2>1, <2>2, <2>3, <3>1, <3>2, <3>3 DEF Writes
  <2>6. QED
    BY <2>4, <2>5
<1>6. QED
  BY <1>2, <1>4, <1>5

LEMMA InitTypes == Init => TypeOK
<1> SUFFICES ASSUME Init PROVE TypeOK
  OBVIOUS
<1>1. worker \in [Runs -> Worker]
  BY NoWorkerIsWorker DEF Init
<1>2. n \in 0 .. MaxRuns /\ faults \in 0 .. MaxFaults
  BY CopyAssumption DEF Init
<1>3. task \in Task /\ snap \in Task
  BY CopyAssumption DEF Init, Task
<1>4. settings \in Settings
  BY CopyAssumption DEF Init
<1>5. dest \in [Rows -> Nat] /\ logged \subseteq Rows /\ common \subseteq Rows
  BY DEF Init
<1>6. QED
  BY <1>1, <1>2, <1>3, <1>4, <1>5 DEF Init, TypeOK

\* What a worker writes to its task row.
LEMMA SaveType ==
  ASSUME NEW w \in Worker, NEW s \in {"running", "paused", "failed", "completed"}, Save(w, s)
  PROVE  task' \in Task /\ task'.cursor = w.last
  BY DEF Save, Task, Worker

\* Reading: the chunk is what lies ahead of the cursor, up to its last row.
LEMMA ReadTakes ==
  ASSUME NEW r \in Runs, worker \in [Runs -> Worker], Read(r), Ahead(worker[r]) # {}
  PROVE  \E c \in SUBSET Ahead(worker[r]), s \in BOOLEAN :
           /\ \A x \in c, y \in Ahead(worker[r]) \ c : x < y
           /\ s => c = Ahead(worker[r])
           /\ Become(r, [worker[r] EXCEPT !.pc = "writing", !.chunk = c, !.parts = {c},
                                          !.short = s, !.late = FALSE])
<1> DEFINE w == worker[r]
           b == EffectiveBatch(w)
<1>1. PICK c \in Firsts(Ahead(w), b) \cup IF Cardinality(Ahead(w)) < b THEN {Ahead(w)} ELSE {} :
        Become(r, [w EXCEPT !.pc = "writing", !.chunk = c, !.parts = {c},
                            !.short = Short(c, b), !.late = FALSE])
  BY DEF Read
<1>2. c \in SUBSET Ahead(w) /\ \A x \in c, y \in Ahead(w) \ c : x < y
  BY <1>1 DEF Firsts
<1>3. Short(c, b) \in BOOLEAN
  BY DEF Short
<1>4. Short(c, b) => c = Ahead(w)
  <2>1. b \in Int
    BY DEF EffectiveBatch, Worker, Setting
  <2>2. Cardinality(c) = b => ~ Short(c, b)
    BY <2>1 DEF Short
  <2>3. Cardinality(c) = b \/ c = Ahead(w)
    BY <1>1 DEF Firsts
  <2>4. QED
    BY <2>2, <2>3
<1>5. QED
  BY <1>1, <1>2, <1>3, <1>4

\* A step of the worker of run r, as to its record and its task row.
LEMMA WorkerStepTypes ==
  ASSUME TypeOK, NEW r \in Runs, WorkerStep(r) \/ Expire(r)
  PROVE  TypeOK'
<1> DEFINE w == worker[r]
<1>1. /\ w \in Worker /\ task \in Task /\ worker \in [Runs -> Worker] /\ events \subseteq Event
      /\ dest \in [Rows -> Nat]
  BY DEF TypeOK
<1>2. [NoWorker EXCEPT !.pc = "over"] \in Worker
  BY NoWorkerIsWorker DEF Worker
<1> USE DEF jobVars, runVars, dataVars, history
<1>3. ASSUME worker' \in [Runs -> Worker], task' \in Task, events' \subseteq Event,
             UNCHANGED <<jobVars, runVars, dataVars, common, faults>>
      PROVE  TypeOK'
  BY <1>3 DEF TypeOK
<1>4. ASSUME NEW v \in Worker, Become(r, v)
      PROVE  worker' \in [Runs -> Worker]
  BY <1>1, <1>4, BecomeType
<1>5. CASE CountRows(r)
  <2>1. [w EXCEPT !.total = 0] \in Worker /\ [w EXCEPT !.pc = "ready"] \in Worker
    BY <1>1 DEF Worker
  <2>2. worker' \in [Runs -> Worker]
    BY <1>2, <1>4, <1>5, <2>1 DEF CountRows
  <2>3. task' \in Task
    BY <1>1, <1>5, <2>1, SaveType DEF CountRows
  <2>4. events' \subseteq Event
    BY <1>1, <1>5 DEF CountRows, Note, Event
  <2>5. QED
    BY <1>3, <1>5, <2>2, <2>3, <2>4 DEF CountRows
<1>6. CASE Prepare(r)
  <2>1. [w EXCEPT !.pc = "looping"] \in Worker /\ [w EXCEPT !.pc = "erred", !.total = 0] \in Worker
    BY <1>1 DEF Worker
  <2>2. worker' \in [Runs -> Worker]
    BY <1>4, <1>6, <2>1 DEF Prepare
  <2>3. events' \subseteq Event
    BY <1>1, <1>6 DEF Prepare, Note, Event
  <2>4. QED
    BY <1>1, <1>3, <1>6, <2>2, <2>3 DEF Prepare
<1>7. CASE ReadFails(r)
  <2>1. [w EXCEPT !.pc = "erred"] \in Worker
    BY <1>1 DEF Worker
  <2>2. QED
    BY <1>1, <1>3, <1>4, <1>7, <2>1 DEF ReadFails
<1>8. CASE ReachCap(r)
  <2>1. [w EXCEPT !.pc = "copied"] \in Worker
    BY <1>1 DEF Worker
  <2>2. events' \subseteq Event
    BY <1>1, <1>8 DEF ReachCap, Note, Event
  <2>3. QED
    BY <1>1, <1>3, <1>4, <1>8, <2>1, <2>2 DEF ReachCap
<1>9. CASE Read(r)
  <2>1. [w EXCEPT !.pc = "copied"] \in Worker
    BY <1>1 DEF Worker
  <2>2. \A c \in SUBSET Rows, s \in BOOLEAN :
          [w EXCEPT !.pc = "writing", !.chunk = c, !.parts = {c}, !.short = s, !.late = FALSE]
            \in Worker
    BY <1>1 DEF Worker
  <2>3. Ahead(w) \subseteq Rows
    BY <1>1 DEF Ahead, Worker, Setting
  <2>4. worker' \in [Runs -> Worker]
    <3>1. CASE Ahead(w) = {}
      BY <1>4, <1>9, <2>1, <3>1 DEF Read
    <3>2. CASE Ahead(w) # {}
      BY <1>1, <1>4, <1>9, <2>2, <2>3, <3>2, ReadTakes
    <3>3. QED
      BY <3>1, <3>2
  <2>5. QED
    BY <1>1, <1>3, <1>9, <2>4 DEF Read
<1>10. CASE WritePart(r) \/ WriteRow(r)
  <2>1. Writes(r)
    BY <1>10, PartWrites, RowWrites
  <2>2. worker' \in [Runs -> Worker]
    BY <1>4, <2>1 DEF Writes
  <2>3. UNCHANGED <<jobVars, runVars, task, common>>
    BY <1>10 DEF WritePart, WriteRow
  <2>4. QED
    BY <2>1, <2>2, <2>3 DEF TypeOK, Writes
<1>11. CASE ChunkDone(r)
  <2>1. PICK c \in w.chunk :
          \E p \in {"copied", "looping"} :
            \E v \in {[w EXCEPT !.last = c, !.chunk = {}, !.late = FALSE, !.short = FALSE,
                                !.pc = p]} :
              \/ Become(r, [v EXCEPT !.saved = TRUE]) /\ Save(v, "running")
              \/ w.saved /\ Become(r, v) /\ UNCHANGED task
    BY <1>11 DEF ChunkDone
  <2>2. PICK p \in {"copied", "looping"} :
          \E v \in {[w EXCEPT !.last = c, !.chunk = {}, !.late = FALSE, !.short = FALSE,
                              !.pc = p]} :
            \/ Become(r, [v EXCEPT !.saved = TRUE]) /\ Save(v, "running")
            \/ w.saved /\ Become(r, v) /\ UNCHANGED task
    BY <2>1
  <2> DEFINE v == [w EXCEPT !.last = c, !.chunk = {}, !.late = FALSE, !.short = FALSE, !.pc = p]
  <2>3. v \in Worker /\ [v EXCEPT !.saved = TRUE] \in Worker
    <3>1. c \in 0 .. N
      BY <1>1, CopyAssumption DEF Worker, Rows
    <3>2. QED
      BY <1>1, <3>1 DEF Worker
  <2> HIDE DEF v
  <2>4. \/ Become(r, [v EXCEPT !.saved = TRUE]) /\ Save(v, "running")
        \/ w.saved /\ Become(r, v) /\ UNCHANGED task
    BY <2>2 DEF v
  <2>5. worker' \in [Runs -> Worker] /\ task' \in Task
    BY <1>1, <1>4, <2>3, <2>4, SaveType
  <2>6. events' \subseteq Event
    BY <1>1, <1>11 DEF ChunkDone, Note, Event
  <2>7. QED
    BY <1>3, <1>11, <2>5, <2>6 DEF ChunkDone
<1>12. CASE GiveUp(r)
  <2>1. task' \in Task
    BY <1>1, <1>12, SaveType DEF GiveUp
  <2>2. QED
    BY <1>1, <1>2, <1>3, <1>4, <1>12, <2>1 DEF GiveUp
<1>13. CASE Complete(r)
  <2>1. task' \in Task
    BY <1>1, <1>13, SaveType DEF Complete
  <2>2. QED
    BY <1>1, <1>2, <1>3, <1>4, <1>13, <2>1 DEF Complete
<1>14. CASE Expire(r)
  <2>1. [w EXCEPT !.late = TRUE] \in Worker
    BY <1>1 DEF Worker
  <2>2. worker' = [worker EXCEPT ![r] = [w EXCEPT !.late = TRUE]]
    BY <1>14 DEF Expire
  <2>3. QED
    BY <1>1, <1>3, <1>14, <2>1, <2>2 DEF Expire
<1>15. QED
  BY <1>5, <1>6, <1>7, <1>8, <1>9, <1>10, <1>11, <1>12, <1>13, <1>14 DEF WorkerStep

LEMMA NextTypes ==
  ASSUME TypeOK, [Next]_vars
  PROVE  TypeOK'
<1> USE DEF jobVars, runVars, dataVars, history
<1>1. CASE Start
  <2>1. n' \in 0 .. MaxRuns
    BY <1>1, CopyAssumption DEF Start, TypeOK
  <2>2. events' \subseteq Event
    BY <1>1 DEF Start, TypeOK, Event
  <2>3. QED
    BY <1>1, <2>1, <2>2 DEF Start, TypeOK
<1>2. CASE Launch
  <2>1. Effective(settings) \in Setting
    BY EffectiveIsSetting DEF TypeOK
  <2>2. snap \in Task
    BY DEF TypeOK
  <2>3. \A p \in {"taken", "ready"} :
          [NoWorker EXCEPT !.pc = p, !.set = Effective(settings),
                           !.last = snap.cursor, !.total = snap.count] \in Worker
    BY <2>1, <2>2, NoWorkerIsWorker DEF Worker, Task
  <2>4. worker' \in [Runs -> Worker]
    BY <1>2, <2>3 DEF Launch, TypeOK
  <2>5. task' \in Task
    BY <1>2, <2>2 DEF Launch, Task
  <2>6. QED
    BY <1>2, <2>4, <2>5 DEF Launch, TypeOK
<1>3. CASE Stop
  BY <1>3 DEF Stop, TypeOK
<1>4. CASE Return
  BY <1>4 DEF Return, TypeOK
<1>5. CASE Finish
  BY <1>5 DEF Finish, TypeOK
<1>6. CASE Patch
  BY <1>6 DEF Patch, TypeOK, Event
<1>7. CASE \E r \in Runs : WorkerStep(r) \/ Expire(r)
  BY <1>7, WorkerStepTypes
<1>8. CASE UNCHANGED vars
  BY <1>8 DEF TypeOK, vars
<1>9. QED
  BY <1>1, <1>2, <1>3, <1>4, <1>5, <1>6, <1>7, <1>8 DEF Next

\* The variables of the copy keep their types.
THEOREM TypeCorrect == Spec => []TypeOK
  BY InitTypes, NextTypes, PTL DEF Spec

-----------------------------------------------------------------------------
\* Up to position c, every row of C is in S.
Covered(C, S, c) == \A x \in C : x <= c => x \in S

\* A worker knows what lies before its cursor to be settled; its chunk leaves
\* out no row between the cursor and its last row; and what the chunk has is
\* settled or still to be tried.
WorkerCovers(w, C, S) ==
  /\ Covered(C, S, w.last)
  /\ w.pc \notin {"none", "over"} => C \subseteq w.set.range
  /\ w.pc = "writing" =>
       /\ \A x \in C, c \in w.chunk : w.last < x /\ x <= c => x \in w.chunk
       /\ w.chunk \subseteq S \cup (UNION w.parts) \cup w.singles

\* The inductive invariant: a task row may be overwritten with the record of
\* any worker or with the one the run has read, so all of them must be safe.
CopyInv ==
  /\ TypeOK
  /\ Covered(common, Settled, task.cursor)
  /\ Covered(common, Settled, snap.cursor)
  /\ main = "on" => common \subseteq Effective(settings).range
  /\ \A r \in Runs : WorkerCovers(worker[r], common, Settled)

\* Fewer rows to cover, more rows settled.
LEMMA CoverStays ==
  ASSUME NEW C, NEW D \in SUBSET C, NEW S, NEW T, S \subseteq T
  PROVE  /\ \A c : Covered(C, S, c) => Covered(D, T, c)
         /\ \A w : WorkerCovers(w, C, S) => WorkerCovers(w, D, T)
<1>1. ASSUME NEW c, Covered(C, S, c)
      PROVE  Covered(D, T, c)
  BY <1>1 DEF Covered
<1>2. ASSUME NEW w, WorkerCovers(w, C, S)
      PROVE  WorkerCovers(w, D, T)
  <2>1. Covered(D, T, w.last)
    BY <1>1, <1>2 DEF WorkerCovers
  <2>2. w.pc \notin {"none", "over"} => D \subseteq w.set.range
    BY <1>2 DEF WorkerCovers
  <2>3. ASSUME w.pc = "writing"
        PROVE  /\ \A x \in D, c \in w.chunk : w.last < x /\ x <= c => x \in w.chunk
               /\ w.chunk \subseteq T \cup (UNION w.parts) \cup w.singles
    BY <1>2, <2>3 DEF WorkerCovers
  <2>4. QED
    BY <2>1, <2>2, <2>3 DEF WorkerCovers
<1>3. QED
  BY <1>1, <1>2

\* Rows stay settled, and the rows in every run's range do not become more.
LEMMA SettledGrows ==
  ASSUME TypeOK, [Next]_vars
  PROVE  /\ Settled \subseteq Settled' /\ common' \subseteq common
         /\ UNCHANGED <<dest, logged>> \/ UNCHANGED <<task, common>>
<1> USE DEF jobVars, runVars, dataVars, history
<1>1. CASE UNCHANGED <<dest, logged>>
  <2>1. Settled' = Settled
    BY <1>1 DEF Settled
  <2>2. common' \subseteq common
    BY DEF Next, vars, Start, Launch, Stop, Return, Finish, Patch, WorkerStep, CountRows, Prepare,
           ReadFails, ReachCap, Read, WritePart, WriteRow, ChunkDone, GiveUp, Complete, Expire
  <2>3. QED
    BY <1>1, <2>1, <2>2
<1>2. CASE \E r \in Runs : WritePart(r) \/ WriteRow(r)
  <2>1. PICK r \in Runs : WritePart(r) \/ WriteRow(r)
    BY <1>2
  <2>2. Writes(r)
    BY <2>1, PartWrites, RowWrites
  <2>3. Settled \subseteq Settled'
    BY <2>2 DEF Settled, Writes
  <2>4. UNCHANGED <<task, common>>
    BY <2>1 DEF WritePart, WriteRow
  <2>5. QED
    BY <2>3, <2>4
<1>3. UNCHANGED <<dest, logged>> \/ \E r \in Runs : WritePart(r) \/ WriteRow(r)
  <2>1. CASE Start \/ Launch \/ Stop \/ Return \/ Finish \/ Patch \/ UNCHANGED vars
    BY <2>1 DEF vars, Start, Launch, Stop, Return, Finish, Patch
  <2>2. ASSUME NEW r \in Runs,
               CountRows(r) \/ Prepare(r) \/ ReadFails(r) \/ ReachCap(r) \/ Read(r)
        PROVE  UNCHANGED <<dest, logged>>
    BY <2>2 DEF CountRows, Prepare, ReadFails, ReachCap, Read
  <2>3. ASSUME NEW r \in Runs, ChunkDone(r) \/ GiveUp(r) \/ Complete(r) \/ Expire(r)
        PROVE  UNCHANGED <<dest, logged>>
    BY <2>3 DEF ChunkDone, GiveUp, Complete, Expire
  <2>4. QED
    BY <2>1, <2>2, <2>3 DEF Next, WorkerStep
<1>4. QED
  BY <1>1, <1>2, <1>3

\* A worker at its start or end has no position.
LEMMA NothingCovers ==
  ASSUME NEW C \in SUBSET Rows, NEW S, NEW w, w.last = 0, w.pc \in {"none", "over"}
  PROVE  WorkerCovers(w, C, S)
<1>1. Covered(C, S, w.last)
  BY CopyAssumption DEF Covered, Rows
<1>2. QED
  BY <1>1 DEF WorkerCovers

\* A worker without a chunk that stays where it is.
LEMMA StayCovers ==
  ASSUME NEW C, NEW S, NEW w, NEW v, WorkerCovers(w, C, S),
         w.pc \notin {"none", "over"}, v.pc # "writing", v.last = w.last, v.set = w.set
  PROVE  WorkerCovers(v, C, S)
  BY DEF WorkerCovers

LEMMA InitCovers == Init => CopyInv
<1> SUFFICES ASSUME Init PROVE CopyInv
  OBVIOUS
<1>1. TypeOK
  BY InitTypes
<1>2. Covered(common, Settled, task.cursor) /\ Covered(common, Settled, snap.cursor)
  BY CopyAssumption DEF Init, Covered, Rows
<1>3. main # "on"
  BY DEF Init
<1>4. ASSUME NEW r \in Runs
      PROVE  WorkerCovers(worker[r], common, Settled)
  <2>1. worker[r] = NoWorker /\ common = Rows
    BY DEF Init
  <2>2. QED
    BY <2>1, NothingCovers DEF NoWorker
<1>5. QED
  BY <1>1, <1>2, <1>3, <1>4 DEF CopyInv

\* What a step of run r's worker has to show: where it is afterwards, and what
\* it wrote to the task row.
LEMMA OneMoves ==
  ASSUME CopyInv, TypeOK', [Next]_vars, NEW r \in Runs,
         UNCHANGED <<jobVars, runVars, common>>,
         \A q \in Runs : q # r => worker'[q] = worker[q],
         WorkerCovers(worker'[r], common', Settled'),
         task'.cursor = task.cursor \/ task'.cursor = worker[r].last
           \/ Covered(common', Settled', task'.cursor)
  PROVE  CopyInv'
<1>1. Settled \subseteq Settled' /\ common' \subseteq common
  BY SettledGrows DEF CopyInv
<1>2. Covered(common', Settled', task'.cursor)
  <2>1. Covered(common, Settled, task.cursor) /\ Covered(common, Settled, worker[r].last)
    BY DEF CopyInv, WorkerCovers
  <2>2. QED
    BY <1>1, <2>1, CoverStays
<1>3. Covered(common', Settled', snap'.cursor)
  <2>1. snap' = snap
    BY DEF runVars
  <2>2. QED
    BY <1>1, <2>1, CoverStays DEF CopyInv
<1>4. main' = "on" => common' \subseteq Effective(settings)'.range
  BY DEF CopyInv, jobVars, runVars, Effective
<1>5. ASSUME NEW q \in Runs
      PROVE  WorkerCovers(worker'[q], common', Settled')
  <2>1. CASE q = r
    BY <2>1
  <2>2. CASE q # r
    <3>1. WorkerCovers(worker[q], common, Settled) /\ worker'[q] = worker[q]
      BY <2>2 DEF CopyInv
    <3>2. QED
      BY <1>1, <3>1, CoverStays
  <2>3. QED
    BY <2>1, <2>2
<1>6. QED
  BY <1>2, <1>3, <1>4, <1>5 DEF CopyInv

\* Reading: what lies between the cursor and the last row read is read.
LEMMA ReadCovers ==
  ASSUME TypeOK, NEW r \in Runs, Read(r), Ahead(worker[r]) # {},
         WorkerCovers(worker[r], common, Settled)
  PROVE  WorkerCovers(worker'[r], common, Settled)
<1> DEFINE w == worker[r]
<1>1. w \in Worker /\ worker \in [Runs -> Worker] /\ common \subseteq Rows /\ w.pc = "looping"
  BY DEF TypeOK, Read
<1>2. PICK c \in SUBSET Ahead(w), s \in BOOLEAN :
        /\ \A x \in c, y \in Ahead(w) \ c : x < y
        /\ Become(r, [w EXCEPT !.pc = "writing", !.chunk = c, !.parts = {c},
                               !.short = s, !.late = FALSE])
  BY <1>1, ReadTakes
<1> DEFINE v == [w EXCEPT !.pc = "writing", !.chunk = c, !.parts = {c}, !.short = s, !.late = FALSE]
<1>3. worker'[r] = v
  BY <1>1, <1>2 DEF Become
<1>4. v.chunk = c /\ v.parts = {c} /\ v.last = w.last /\ v.set = w.set /\ v.pc = "writing"
  BY <1>1 DEF Worker
<1>5. common \subseteq v.set.range /\ Covered(common, Settled, v.last)
  BY <1>1, <1>4 DEF WorkerCovers
<1>6. ASSUME NEW x \in common, NEW y \in c, w.last < x, x <= y
      PROVE  x \in c
  <2>1. x \in Ahead(w)
    BY <1>4, <1>5, <1>6 DEF Ahead
  <2>2. x \in Int /\ y \in Int
    <3>1. y \in Rows
      BY <1>1 DEF Ahead, Worker, Setting
    <3>2. QED
      BY <1>1, <3>1 DEF Rows
  <2>3. ~ y < x
    BY <1>6, <2>2
  <2>4. QED
    BY <1>2, <2>1, <2>3
<1>7. v.chunk \subseteq Settled \cup (UNION v.parts) \cup v.singles
  BY <1>4
<1>8. WorkerCovers(v, common, Settled)
  BY <1>4, <1>5, <1>6, <1>7 DEF WorkerCovers
<1>9. QED
  BY <1>3, <1>8

\* Writing: what a worker no longer has to try is settled.
LEMMA WritesCover ==
  ASSUME TypeOK, NEW r \in Runs, Writes(r), Settled \subseteq Settled',
         WorkerCovers(worker[r], common, Settled), worker[r].pc = "writing"
  PROVE  WorkerCovers(worker'[r], common, Settled')
<1> DEFINE w == worker[r]
<1>1. w \in Worker /\ worker \in [Runs -> Worker] /\ common \subseteq Rows
  BY DEF TypeOK
<1>2. PICK v \in Worker :
        /\ Become(r, v)
        /\ v.pc = w.pc /\ v.set = w.set /\ v.last = w.last /\ v.chunk = w.chunk
        /\ \A x \in (UNION w.parts) \cup w.singles :
             x \in (UNION v.parts) \cup v.singles \/ dest'[x] > 0 \/ x \in logged'
  BY DEF Writes
<1>3. worker'[r] = v
  BY <1>1, <1>2 DEF Become
<1>4. ASSUME NEW x \in w.chunk
      PROVE  x \in Settled' \cup (UNION v.parts) \cup v.singles
  <2>1. x \in Settled \/ x \in (UNION w.parts) \cup w.singles
    BY DEF WorkerCovers
  <2>2. x \in Rows
    BY <1>1 DEF Worker
  <2>3. dest'[x] > 0 \/ x \in logged' => x \in Settled'
    BY <2>2 DEF Settled
  <2>4. QED
    BY <1>2, <2>1, <2>3
<1>5. Covered(common, Settled', v.last)
  BY <1>2 DEF WorkerCovers, Covered
<1>6. common \subseteq v.set.range
  BY <1>2 DEF WorkerCovers
<1>7. \A x \in common, c \in v.chunk : v.last < x /\ x <= c => x \in v.chunk
  BY <1>2 DEF WorkerCovers
<1>8. QED
  BY <1>2, <1>3, <1>4, <1>5, <1>6, <1>7 DEF WorkerCovers

\* A chunk that is done moves the cursor over settled rows.
LEMMA ChunkCovers ==
  ASSUME TypeOK, NEW r \in Runs, ChunkDone(r), WorkerCovers(worker[r], common, Settled)
  PROVE  /\ WorkerCovers(worker'[r], common, Settled)
         /\ task'.cursor = task.cursor \/ Covered(common, Settled, task'.cursor)
<1> DEFINE w == worker[r]
<1>1. w \in Worker /\ worker \in [Runs -> Worker] /\ common \subseteq Rows
  BY DEF TypeOK
<1>2. PICK c \in w.chunk, p \in {"copied", "looping"}, s \in BOOLEAN :
        /\ \A x \in w.chunk : x <= c
        /\ Become(r, [w EXCEPT !.last = c, !.chunk = {}, !.late = FALSE, !.short = FALSE,
                               !.pc = p, !.saved = s])
        /\ task'.cursor = c \/ task' = task
  <2>1. PICK c \in w.chunk :
          /\ \A x \in w.chunk : x <= c
          /\ \E p \in {"copied", "looping"} :
               \/ /\ Become(r, [[w EXCEPT !.last = c, !.chunk = {}, !.late = FALSE,
                                          !.short = FALSE, !.pc = p] EXCEPT !.saved = TRUE])
                  /\ Save([w EXCEPT !.last = c, !.chunk = {}, !.late = FALSE,
                                    !.short = FALSE, !.pc = p], "running")
               \/ /\ w.saved
                  /\ Become(r, [w EXCEPT !.last = c, !.chunk = {}, !.late = FALSE,
                                         !.short = FALSE, !.pc = p])
                  /\ UNCHANGED task
    BY DEF ChunkDone
  <2>2. PICK p \in {"copied", "looping"} :
          \/ /\ Become(r, [[w EXCEPT !.last = c, !.chunk = {}, !.late = FALSE,
                                     !.short = FALSE, !.pc = p] EXCEPT !.saved = TRUE])
             /\ Save([w EXCEPT !.last = c, !.chunk = {}, !.late = FALSE,
                               !.short = FALSE, !.pc = p], "running")
          \/ /\ w.saved
             /\ Become(r, [w EXCEPT !.last = c, !.chunk = {}, !.late = FALSE,
                                    !.short = FALSE, !.pc = p])
             /\ UNCHANGED task
    BY <2>1
  <2> DEFINE v(s) == [w EXCEPT !.last = c, !.chunk = {}, !.late = FALSE, !.short = FALSE,
                               !.pc = p, !.saved = s]
  <2>3. CASE Become(r, [[w EXCEPT !.last = c, !.chunk = {}, !.late = FALSE,
                                  !.short = FALSE, !.pc = p] EXCEPT !.saved = TRUE])
             /\ Save([w EXCEPT !.last = c, !.chunk = {}, !.late = FALSE,
                               !.short = FALSE, !.pc = p], "running")
    <3>1. [[w EXCEPT !.last = c, !.chunk = {}, !.late = FALSE, !.short = FALSE, !.pc = p]
             EXCEPT !.saved = TRUE] = v(TRUE)
      BY <1>1 DEF Worker
    <3>2. task'.cursor = c
      BY <1>1, <2>3 DEF Save, Worker
    <3>3. Become(r, v(TRUE))
      BY <2>3, <3>1 DEF Become
    <3>4. QED
      BY <2>1, <3>2, <3>3
  <2>4. CASE w.saved /\ Become(r, [w EXCEPT !.last = c, !.chunk = {}, !.late = FALSE,
                                            !.short = FALSE, !.pc = p])
             /\ UNCHANGED task
    <3>1. [w EXCEPT !.last = c, !.chunk = {}, !.late = FALSE, !.short = FALSE, !.pc = p]
            = v(w.saved)
      BY <1>1 DEF Worker
    <3>2. w.saved \in BOOLEAN
      BY <1>1 DEF Worker
    <3>3. Become(r, v(w.saved))
      BY <2>4, <3>1 DEF Become
    <3>4. QED
      BY <2>1, <2>4, <3>2, <3>3
  <2>5. QED
    BY <2>2, <2>3, <2>4
<1> DEFINE v == [w EXCEPT !.last = c, !.chunk = {}, !.late = FALSE, !.short = FALSE,
                          !.pc = p, !.saved = s]
<1>3. worker'[r] = v
  BY <1>1, <1>2 DEF Become
<1>4. v.last = c /\ v.set = w.set /\ v.pc = p
  BY <1>1 DEF Worker
<1>5. w.pc = "writing" /\ w.parts = {} /\ w.singles = {}
  BY DEF ChunkDone
<1>6. Covered(common, Settled, c)
  <2>1. SUFFICES ASSUME NEW x \in common, x <= c
                 PROVE  x \in Settled
    BY DEF Covered
  <2>2. x \in Int /\ w.last \in Int
    BY <1>1, CopyAssumption DEF Rows, Worker
  <2>3. CASE x <= w.last
    BY <2>3 DEF WorkerCovers, Covered
  <2>4. CASE w.last < x
    <3>1. x \in w.chunk
      BY <1>5, <2>1, <2>4 DEF WorkerCovers
    <3>2. QED
      BY <1>5, <3>1 DEF WorkerCovers
  <2>5. QED
    BY <2>2, <2>3, <2>4
<1>7. common \subseteq v.set.range
  BY <1>4, <1>5 DEF WorkerCovers
<1>8. WorkerCovers(v, common, Settled)
  BY <1>2, <1>4, <1>6, <1>7 DEF WorkerCovers
<1>9. QED
  BY <1>2, <1>3, <1>6, <1>8

LEMMA WorkerStepCovers ==
  ASSUME CopyInv, NEW r \in Runs, WorkerStep(r) \/ Expire(r)
  PROVE  CopyInv'
<1> DEFINE w == worker[r]
           over == [NoWorker EXCEPT !.pc = "over"]
<1>1. /\ TypeOK /\ w \in Worker /\ worker \in [Runs -> Worker] /\ common \subseteq Rows
      /\ WorkerCovers(w, common, Settled)
  BY DEF CopyInv, TypeOK
<1>2. [Next]_vars
  BY DEF Next
<1>3. TypeOK' /\ Settled \subseteq Settled'
  BY <1>1, <1>2, NextTypes, SettledGrows
<1>4. ASSUME NEW v \in Worker, Become(r, v)
      PROVE  worker'[r] = v /\ \A q \in Runs : q # r => worker'[q] = worker[q]
  BY <1>1, <1>4, BecomeType
<1>5. over \in Worker /\ over.last = 0 /\ over.pc = "over"
  BY NoWorkerIsWorker DEF Worker, NoWorker
<1>6. WorkerCovers(over, common, Settled)
  BY <1>1, <1>5, NothingCovers
<1> HIDE DEF over
<1>7. ASSUME UNCHANGED <<jobVars, runVars, common, dest, logged>>,
             NEW v \in Worker, Become(r, v), WorkerCovers(v, common, Settled),
             task'.cursor = task.cursor \/ task'.cursor = w.last
               \/ Covered(common, Settled, task'.cursor)
      PROVE  CopyInv'
  <2>1. Settled' = Settled /\ common' = common
    BY <1>7 DEF Settled
  <2>2. worker'[r] = v /\ \A q \in Runs : q # r => worker'[q] = worker[q]
    BY <1>4, <1>7
  <2>3. WorkerCovers(worker'[r], common', Settled')
    BY <1>7, <2>1, <2>2
  <2>4. task'.cursor = task.cursor \/ task'.cursor = w.last
          \/ Covered(common', Settled', task'.cursor)
    BY <1>7, <2>1
  <2>5. UNCHANGED <<jobVars, runVars, common>>
    BY <1>7
  <2>6. QED
    BY <1>2, <1>3, <2>2, <2>3, <2>4, <2>5, OneMoves
<1>8. CASE CountRows(r)
  <2>1. UNCHANGED <<jobVars, runVars, common, dest, logged>> /\ w.pc = "taken"
    BY <1>8 DEF CountRows, dataVars
  <2>2. /\ [w EXCEPT !.pc = "ready"] \in Worker
        /\ [w EXCEPT !.pc = "ready"].last = w.last /\ [w EXCEPT !.pc = "ready"].set = w.set
        /\ [w EXCEPT !.pc = "ready"].pc = "ready"
    BY <1>1 DEF Worker
  <2>3. WorkerCovers([w EXCEPT !.pc = "ready"], common, Settled)
    BY <1>1, <2>1, <2>2, StayCovers
  <2>4. [w EXCEPT !.total = 0] \in Worker /\ [w EXCEPT !.total = 0].last = w.last
    BY <1>1 DEF Worker
  <2>5. \/ Become(r, over) /\ task'.cursor = w.last
        \/ Become(r, [w EXCEPT !.pc = "ready"]) /\ task' = task
    BY <1>1, <1>8, <2>4, SaveType DEF CountRows, over
  <2>6. QED
    BY <1>5, <1>6, <1>7, <2>1, <2>2, <2>3, <2>5
<1>9. CASE Prepare(r)
  <2>1. UNCHANGED <<jobVars, runVars, common, dest, logged, task>> /\ w.pc = "ready"
    BY <1>9 DEF Prepare, dataVars
  <2>2. PICK v \in {[w EXCEPT !.pc = "looping"], [w EXCEPT !.pc = "erred", !.total = 0]} :
          Become(r, v)
    BY <1>9 DEF Prepare
  <2>3. v \in Worker /\ v.last = w.last /\ v.set = w.set /\ v.pc # "writing"
    <3>1. CASE v = [w EXCEPT !.pc = "looping"]
      BY <1>1, <3>1 DEF Worker
    <3>2. CASE v = [w EXCEPT !.pc = "erred", !.total = 0]
      BY <1>1, <3>2 DEF Worker
    <3>3. QED
      BY <2>2, <3>1, <3>2
  <2>4. WorkerCovers(v, common, Settled)
    BY <1>1, <2>1, <2>3, StayCovers
  <2>5. QED
    BY <1>7, <2>1, <2>2, <2>3, <2>4
<1>10. CASE ReadFails(r) \/ ReachCap(r) \/ (Read(r) /\ Ahead(w) = {})
  <2>1. UNCHANGED <<jobVars, runVars, common, dest, logged, task>> /\ w.pc = "looping"
    BY <1>10 DEF ReadFails, ReachCap, Read, dataVars, history
  <2>2. PICK v \in {[w EXCEPT !.pc = "erred"], [w EXCEPT !.pc = "copied"]} : Become(r, v)
    BY <1>10 DEF ReadFails, ReachCap, Read
  <2>3. v \in Worker /\ v.last = w.last /\ v.set = w.set /\ v.pc # "writing"
    <3>1. CASE v = [w EXCEPT !.pc = "erred"]
      BY <1>1, <3>1 DEF Worker
    <3>2. CASE v = [w EXCEPT !.pc = "copied"]
      BY <1>1, <3>2 DEF Worker
    <3>3. QED
      BY <2>2, <3>1, <3>2
  <2>4. WorkerCovers(v, common, Settled)
    BY <1>1, <2>1, <2>3, StayCovers
  <2>5. QED
    BY <1>7, <2>1, <2>2, <2>3, <2>4
<1>11. CASE Read(r) /\ Ahead(w) # {}
  <2>1. UNCHANGED <<jobVars, runVars, common, dest, logged, task>>
    BY <1>11 DEF Read, dataVars, history
  <2>2. WorkerCovers(worker'[r], common, Settled)
    BY <1>1, <1>11, ReadCovers
  <2>3. PICK v : Become(r, v)
    BY <1>1, <1>11, ReadTakes
  <2>4. worker'[r] = v /\ v \in Worker
    BY <1>1, <1>3, <2>3 DEF Become, TypeOK
  <2>5. QED
    BY <1>7, <2>1, <2>2, <2>3, <2>4
<1>12. CASE WritePart(r) \/ WriteRow(r)
  <2>1. Writes(r) /\ w.pc = "writing"
    BY <1>1, <1>12, PartWrites, RowWrites DEF WritePart, WriteRow
  <2>2. UNCHANGED <<jobVars, runVars, task, common>>
    BY <1>12 DEF WritePart, WriteRow
  <2>3. WorkerCovers(worker'[r], common', Settled')
    BY <1>1, <1>3, <2>1, <2>2, WritesCover
  <2>4. \A q \in Runs : q # r => worker'[q] = worker[q]
    BY <1>4, <2>1 DEF Writes
  <2>5. QED
    BY <1>2, <1>3, <2>2, <2>3, <2>4, OneMoves
<1>13. CASE ChunkDone(r)
  <2>1. UNCHANGED <<jobVars, runVars, common, dest, logged>>
    BY <1>13 DEF ChunkDone, dataVars
  <2>2. /\ WorkerCovers(worker'[r], common, Settled)
        /\ task'.cursor = task.cursor \/ Covered(common, Settled, task'.cursor)
    BY <1>1, <1>13, ChunkCovers
  <2>3. PICK v : Become(r, v)
    BY <1>13 DEF ChunkDone
  <2>4. worker'[r] = v /\ v \in Worker
    BY <1>1, <1>3, <2>3 DEF Become, TypeOK
  <2>5. QED
    BY <1>7, <2>1, <2>2, <2>3, <2>4
<1>14. CASE GiveUp(r) \/ Complete(r)
  <2>1. UNCHANGED <<jobVars, runVars, common, dest, logged>> /\ Become(r, over)
    BY <1>14 DEF GiveUp, Complete, dataVars, history, over
  <2>2. task'.cursor = w.last
    BY <1>1, <1>14, SaveType DEF GiveUp, Complete
  <2>3. QED
    BY <1>5, <1>6, <1>7, <2>1, <2>2
<1>15. CASE Expire(r)
  <2> DEFINE v == [w EXCEPT !.late = TRUE]
  <2>1. UNCHANGED <<jobVars, runVars, common, dest, logged, task>>
    BY <1>15 DEF Expire, dataVars, history
  <2>2. Become(r, v)
    BY <1>15 DEF Expire, Become
  <2>3. /\ v \in Worker /\ v.pc = w.pc /\ v.last = w.last /\ v.set = w.set
        /\ v.chunk = w.chunk /\ v.parts = w.parts /\ v.singles = w.singles
    BY <1>1 DEF Worker
  <2> HIDE DEF v
  <2>4. WorkerCovers(v, common, Settled)
    BY <1>1, <2>3 DEF WorkerCovers
  <2>5. QED
    BY <1>7, <2>1, <2>2, <2>3, <2>4
<1>16. QED
  BY <1>8, <1>9, <1>10, <1>11, <1>12, <1>13, <1>14, <1>15 DEF WorkerStep

LEMMA NextCovers ==
  ASSUME CopyInv, [Next]_vars
  PROVE  CopyInv'
<1> USE DEF jobVars, runVars, dataVars, history
<1>1. TypeOK /\ TypeOK' /\ Settled \subseteq Settled' /\ common' \subseteq common
  BY NextTypes, SettledGrows DEF CopyInv
<1>2. ASSUME NEW r \in Runs, worker'[r] = worker[r]
      PROVE  WorkerCovers(worker'[r], common', Settled')
  BY <1>1, <1>2, CoverStays DEF CopyInv
<1>3. Covered(common', Settled', task.cursor) /\ Covered(common', Settled', snap.cursor)
  BY <1>1, CoverStays DEF CopyInv
<1>4. CASE Start
  <2>1. /\ worker' = worker /\ task' = task /\ snap' = task
        /\ common' = common \cap Effective(settings).range
        /\ UNCHANGED <<mode, settings>>
    BY <1>4 DEF Start
  <2>2. common' \subseteq Effective(settings)'.range
    BY <2>1 DEF Effective
  <2>3. QED
    BY <1>1, <1>2, <1>3, <2>1, <2>2 DEF CopyInv
<1>5. CASE Launch
  <2>1. UNCHANGED <<mode, settings, main, snap, common>> /\ main = "on" /\ snap \in Task
    BY <1>1, <1>5 DEF Launch, TypeOK
  <2>2. task'.cursor = snap.cursor
    BY <1>5, <2>1 DEF Launch, Task
  <2>3. ASSUME NEW r \in Runs, r = n
        PROVE  WorkerCovers(worker'[r], common', Settled')
    <3>1. PICK p \in {"taken", "ready"} :
            worker' = [worker EXCEPT ![n] =
              [NoWorker EXCEPT !.pc = p, !.set = Effective(settings),
                               !.last = snap.cursor, !.total = snap.count]]
      BY <1>5 DEF Launch
    <3>2. /\ worker'[r].pc = p /\ worker'[r].set = Effective(settings)
          /\ worker'[r].last = snap.cursor
      BY <1>1, <2>3, <3>1 DEF TypeOK, NoWorker
    <3>3. common' \subseteq Effective(settings).range
      BY <2>1 DEF CopyInv
    <3>4. QED
      BY <1>3, <3>1, <3>2, <3>3 DEF WorkerCovers
  <2>4. ASSUME NEW r \in Runs
        PROVE  WorkerCovers(worker'[r], common', Settled')
    <3>1. CASE r = n
      BY <2>3, <3>1
    <3>2. CASE r # n
      <4>1. worker'[r] = worker[r]
        BY <1>5, <3>2 DEF Launch
      <4>2. QED
        BY <1>2, <4>1
    <3>3. QED
      BY <3>1, <3>2
  <2>5. main' = "on" => common' \subseteq Effective(settings)'.range
    BY <2>1 DEF CopyInv, Effective
  <2>6. QED
    BY <1>1, <1>3, <2>1, <2>2, <2>4, <2>5 DEF CopyInv
<1>6. CASE Stop \/ Return \/ Finish \/ Patch \/ UNCHANGED vars
  <2>1. /\ UNCHANGED <<worker, task, snap, common, mode>>
        /\ main' = "on" => main = "on" /\ settings' = settings
    BY <1>6 DEF Stop, Return, Finish, Patch, vars
  <2>2. main' = "on" => common' \subseteq Effective(settings)'.range
    BY <2>1 DEF CopyInv, Effective
  <2>3. QED
    BY <1>1, <1>2, <1>3, <2>1, <2>2 DEF CopyInv
<1>7. CASE \E r \in Runs : WorkerStep(r) \/ Expire(r)
  BY <1>7, WorkerStepCovers
<1>8. QED
  BY <1>4, <1>5, <1>6, <1>7 DEF Next

\* The inductive invariant holds throughout.
THEOREM CopyInvariant == Spec => []CopyInv
  BY InitCovers, NextCovers, PTL DEF Spec

\* The cursor in the task row never hides a row: for any table, batch size,
\* number of runs, orphan workers, stops, timeouts and failing transactions.
\* (engine.go copyTable, insert_resilient.go)
THEOREM RowsAreAccountedFor == Spec => []AccountedFor
<1>1. CopyInv => AccountedFor
  BY DEF CopyInv, Covered, AccountedFor
<1>2. QED
  BY <1>1, CopyInvariant, PTL

\* The copy keeps CopyPromise: what is settled stays so, and progress is only
\* claimed over settled rows.
THEOREM CopyKeepsPromise == Spec => KeepsPromise
<1> DEFINE claimed == {x \in common : x <= task.cursor}
<1>1. Init => Promised!PromiseInit
  <2> SUFFICES ASSUME Init PROVE Promised!PromiseInit
    OBVIOUS
  <2>2. \A x \in Rows : ~ (dest[x] > 0) /\ x \notin logged
    BY DEF Init
  <2>3. Settled = {}
    BY <2>2 DEF Settled
  <2>4. \A x \in common : ~ (x <= task.cursor)
    BY CopyAssumption DEF Init, Rows
  <2>5. claimed = {}
    BY <2>4
  <2>6. QED
    BY <2>3, <2>5 DEF Promised!PromiseInit
<1>2. CopyInv /\ CopyInv' /\ [Next]_vars => [Promised!PromiseNext]_<<Settled, claimed>>
  <2>1. SUFFICES ASSUME CopyInv, CopyInv', [Next]_vars
                 PROVE  Promised!PromiseNext
    OBVIOUS
  <2>2. /\ Settled \subseteq Settled'
        /\ UNCHANGED <<dest, logged>> \/ UNCHANGED <<task, common>>
    BY <2>1, SettledGrows DEF CopyInv
  <2>3. CASE UNCHANGED <<task, common>>
    <3>1. claimed' = claimed /\ Settled' \subseteq Rows
      BY <2>3 DEF Settled
    <3>2. QED
      BY <2>2, <3>1 DEF Promised!PromiseNext, Promised!Account
  <2>4. CASE UNCHANGED <<dest, logged>>
    <3>1. Settled' = Settled
      BY <2>4 DEF Settled
    <3>2. claimed' \subseteq Settled'
      BY <2>1 DEF CopyInv, Covered
    <3>3. QED
      BY <3>1, <3>2 DEF Promised!PromiseNext, Promised!Claim
  <2>5. QED
    BY <2>2, <2>3, <2>4
<1>3. QED
  BY <1>1, <1>2, CopyInvariant, PTL DEF Spec, KeepsPromise, Promised!Promise

-----------------------------------------------------------------------------
\* A worker that has copied the table has settled it, and a chunk known to be
\* the last has all rows that were left.
Ends(w, C, S) ==
  /\ w.pc = "copied" => C \subseteq S
  /\ w.pc = "writing" /\ w.short => \A x \in C : w.last < x => x \in w.chunk

\* Inductive with CopyInv, as long as neither the row cap nor a filled
\* destination has ended a copy.
Uncut == Never({"capped", "skipped"})
EndInv ==
  Uncut => /\ task.status = "completed" => common \subseteq Settled
           /\ \A r \in Runs : Ends(worker[r], common, Settled)

LEMMA EventsGrow ==
  ASSUME [Next]_vars
  PROVE  events \subseteq events'
<1> USE DEF jobVars, runVars, dataVars, history
<1>1. CASE Start \/ Launch \/ Stop \/ Return \/ Finish \/ Patch \/ UNCHANGED vars
  BY <1>1 DEF vars, Start, Launch, Stop, Return, Finish, Patch
<1>2. ASSUME NEW r \in Runs, WritePart(r)
      PROVE  events \subseteq events'
  BY <1>2 DEF WritePart, PartGoesIn, PartFails, PartFaults, Note
<1>3. ASSUME NEW r \in Runs, WriteRow(r)
      PROVE  events \subseteq events'
  BY <1>3 DEF WriteRow, RowGoesIn, RowFails, Note
<1>4. ASSUME NEW r \in Runs,
             CountRows(r) \/ Prepare(r) \/ ReadFails(r) \/ ReachCap(r) \/ Read(r)
      PROVE  events \subseteq events'
  BY <1>4 DEF CountRows, Prepare, ReadFails, ReachCap, Read, Note
<1>5. ASSUME NEW r \in Runs, ChunkDone(r)
      PROVE  events \subseteq events'
  BY <1>5 DEF ChunkDone, Note
<1>6. ASSUME NEW r \in Runs, GiveUp(r) \/ Complete(r) \/ Expire(r)
      PROVE  events \subseteq events'
  BY <1>6 DEF GiveUp, Complete, Expire
<1>7. QED
  BY <1>1, <1>2, <1>3, <1>4, <1>5, <1>6 DEF Next, WorkerStep

LEMMA EndStays ==
  ASSUME NEW C, NEW D \in SUBSET C, NEW S, NEW T, S \subseteq T, NEW w, Ends(w, C, S)
  PROVE  Ends(w, D, T)
  BY DEF Ends

\* What has to be shown of a worker's step.
LEMMA OneEnds ==
  ASSUME CopyInv, EndInv, [Next]_vars, NEW r \in Runs,
         \A q \in Runs : q # r => worker'[q] = worker[q],
         Uncut' => Ends(worker'[r], common', Settled'),
         Uncut' /\ task'.status = "completed" =>
           task.status = "completed" \/ common' \subseteq Settled'
  PROVE  EndInv'
<1>1. Settled \subseteq Settled' /\ common' \subseteq common /\ events \subseteq events'
  BY SettledGrows, EventsGrow DEF CopyInv
<1>2. Uncut' => Uncut
  BY <1>1 DEF Uncut, Never
<1>3. ASSUME Uncut', NEW q \in Runs
      PROVE  Ends(worker'[q], common', Settled')
  <2>1. CASE q = r
    BY <1>3, <2>1
  <2>2. CASE q # r
    BY <1>1, <1>2, <1>3, <2>2, EndStays DEF EndInv
  <2>3. QED
    BY <2>1, <2>2
<1>4. ASSUME Uncut', task'.status = "completed"
      PROVE  common' \subseteq Settled'
  BY <1>1, <1>2, <1>4 DEF EndInv
<1>5. QED
  BY <1>3, <1>4 DEF EndInv

LEMMA WorkerStepEnds ==
  ASSUME CopyInv, EndInv, NEW r \in Runs, WorkerStep(r) \/ Expire(r)
  PROVE  EndInv'
<1> DEFINE w == worker[r]
<1>1. /\ TypeOK /\ w \in Worker /\ worker \in [Runs -> Worker] /\ common \subseteq Rows
      /\ WorkerCovers(w, common, Settled) /\ task \in Task
  BY DEF CopyInv, TypeOK
<1>2. [Next]_vars
  BY DEF Next
<1>3. TypeOK' /\ Settled \subseteq Settled' /\ common' \subseteq common /\ events \subseteq events'
  BY <1>1, <1>2, NextTypes, SettledGrows, EventsGrow
<1>4. Uncut' => Uncut /\ Ends(w, common, Settled)
  BY <1>3 DEF Uncut, Never, EndInv
<1>5. ASSUME NEW v, Become(r, v)
      PROVE  worker'[r] = v /\ \A q \in Runs : q # r => worker'[q] = worker[q]
  BY <1>1, <1>5 DEF Become
<1>6. \A x \in common : x \in Int
  BY <1>1 DEF Rows
<1>7. w.last \in Int
  BY <1>1, CopyAssumption DEF Worker
<1>8. ASSUME NEW v, Become(r, v), v.pc \notin {"writing", "copied"},
             task' = task \/ task'.status # "completed"
      PROVE  EndInv'
  BY <1>2, <1>5, <1>8, OneEnds DEF Ends
<1>9. CASE CountRows(r)
  <2>1. CASE "skipped" \in events'
    <3>1. ~ Uncut'
      BY <2>1 DEF Uncut, Never
    <3>2. QED
      BY <3>1 DEF EndInv
  <2>2. CASE "skipped" \notin events'
    <3>1. \/ Save(w, "failed") /\ Become(r, [NoWorker EXCEPT !.pc = "over"])
          \/ Become(r, [w EXCEPT !.pc = "ready"]) /\ task' = task
      BY <1>9, <2>2 DEF CountRows, Note
    <3>2. [NoWorker EXCEPT !.pc = "over"].pc = "over" /\ [w EXCEPT !.pc = "ready"].pc = "ready"
      BY <1>1 DEF NoWorker, Worker
    <3> DEFINE g == [NoWorker EXCEPT !.pc = "over"]
               v == [w EXCEPT !.pc = "ready"]
    <3>3. Save(w, "failed") => task'.status # "completed"
      BY DEF Save
    <3>4. g.pc \notin {"writing", "copied"} /\ v.pc \notin {"writing", "copied"}
      BY <3>2
    <3>5. (Become(r, g) /\ Save(w, "failed")) \/ (Become(r, v) /\ task' = task)
      BY <3>1
    <3> HIDE DEF g, v
    <3>6. QED
      BY <1>8, <3>3, <3>4, <3>5
  <2>3. QED
    BY <2>1, <2>2
<1>10. CASE Prepare(r) \/ ReadFails(r)
  <2>1. PICK v \in {[w EXCEPT !.pc = "looping"], [w EXCEPT !.pc = "erred", !.total = 0],
                    [w EXCEPT !.pc = "erred"]} : Become(r, v)
    BY <1>10 DEF Prepare, ReadFails
  <2>2. v.pc \in {"looping", "erred"}
    BY <1>1, <2>1 DEF Worker
  <2>3. task' = task
    BY <1>10 DEF Prepare, ReadFails
  <2>4. QED
    BY <1>8, <2>1, <2>2, <2>3
<1>11. CASE ReachCap(r)
  <2>1. ~ Uncut'
    BY <1>11 DEF ReachCap, Note, Uncut, Never
  <2>2. QED
    BY <2>1 DEF EndInv
<1>12. CASE Read(r) /\ Ahead(w) = {}
  <2> DEFINE v == [w EXCEPT !.pc = "copied"]
  <2>1. Become(r, v) /\ task' = task /\ w.pc = "looping"
    BY <1>12 DEF Read
  <2>2. v.pc = "copied"
    BY <1>1 DEF Worker
  <2>3. common \subseteq Settled
    <3>1. SUFFICES ASSUME NEW x \in common PROVE x \in Settled
      OBVIOUS
    <3>2. x \in w.set.range
      BY <1>1, <2>1 DEF WorkerCovers
    <3>3. x <= w.last
      BY <1>6, <1>7, <1>12, <3>2 DEF Ahead
    <3>4. QED
      BY <1>1, <3>3 DEF WorkerCovers, Covered
  <2>4. Ends(v, common', Settled')
    BY <1>3, <2>2, <2>3 DEF Ends
  <2>5. QED
    BY <1>2, <1>5, <2>1, <2>4, OneEnds
<1>13. CASE Read(r) /\ Ahead(w) # {}
  <2>1. PICK c \in SUBSET Ahead(w), s \in BOOLEAN :
          /\ s => c = Ahead(w)
          /\ Become(r, [w EXCEPT !.pc = "writing", !.chunk = c, !.parts = {c},
                                 !.short = s, !.late = FALSE])
    BY <1>1, <1>13, ReadTakes
  <2> DEFINE v == [w EXCEPT !.pc = "writing", !.chunk = c, !.parts = {c}, !.short = s,
                            !.late = FALSE]
  <2>2. v.pc = "writing" /\ v.chunk = c /\ v.short = s /\ v.last = w.last
    BY <1>1 DEF Worker
  <2>3. task' = task /\ w.pc = "looping"
    BY <1>13 DEF Read
  <2>4. common \subseteq w.set.range
    BY <1>1, <2>3 DEF WorkerCovers
  <2>5. Ends(v, common', Settled')
    BY <1>3, <2>1, <2>2, <2>4 DEF Ends, Ahead
  <2>6. QED
    BY <1>2, <1>5, <2>1, <2>3, <2>5, OneEnds
<1>14. CASE WritePart(r) \/ WriteRow(r)
  <2>1. Writes(r) /\ w.pc = "writing" /\ task' = task
    BY <1>1, <1>14, PartWrites, RowWrites DEF WritePart, WriteRow
  <2>2. PICK v \in Worker : /\ Become(r, v) /\ v.pc = w.pc /\ v.last = w.last
                            /\ v.chunk = w.chunk /\ v.short = w.short
    BY <2>1 DEF Writes
  <2>3. Uncut' => Ends(v, common', Settled')
    BY <1>3, <1>4, <2>1, <2>2 DEF Ends
  <2>4. QED
    BY <1>2, <1>5, <2>1, <2>2, <2>3, OneEnds
<1>15. CASE ChunkDone(r)
  <2>1. w.pc = "writing" /\ w.parts = {} /\ w.singles = {}
    BY <1>15 DEF ChunkDone
  <2>2. PICK v \in Worker : Become(r, v)
    <3>1. PICK v : Become(r, v)
      BY <1>15 DEF ChunkDone
    <3>2. v \in Worker
      BY <1>3, <1>5, <3>1 DEF TypeOK
    <3>3. QED
      BY <3>1, <3>2
  <2>3. worker'[r] = v
    BY <1>5, <2>2
  <2>4. /\ v.pc \in {"copied", "looping"}
        /\ v.pc = "copied" => w.short \/ "capped" \in events'
    <3> DEFINE capped == w.set.cap > 0 /\ w.total >= w.set.cap
               After(c) == [w EXCEPT !.last = c, !.chunk = {}, !.late = FALSE, !.short = FALSE,
                              !.pc = IF capped \/ w.short THEN "copied" ELSE "looping"]
    <3>1. /\ events' = events \cup IF capped THEN {"capped"} ELSE {}
          /\ \E c \in w.chunk : \/ Become(r, [After(c) EXCEPT !.saved = TRUE])
                               \/ Become(r, After(c))
      BY <1>15 DEF ChunkDone, Note
    <3>2. PICK c \in w.chunk : v = [After(c) EXCEPT !.saved = TRUE] \/ v = After(c)
      BY <1>5, <2>3, <3>1
    <3>3. After(c).pc = (IF capped \/ w.short THEN "copied" ELSE "looping")
      BY <1>1 DEF Worker
    <3>4. v.pc = (IF capped \/ w.short THEN "copied" ELSE "looping")
      <4>1. DOMAIN w = DOMAIN NoWorker
        BY <1>1 DEF Worker, NoWorker
      <4>2. "pc" \in DOMAIN After(c)
        BY <4>1 DEF NoWorker
      <4> HIDE DEF After
      <4>3. [After(c) EXCEPT !.saved = TRUE].pc = After(c).pc
        BY <4>2
      <4>4. QED
        BY <3>2, <3>3, <4>3
    <3> HIDE DEF capped, After
    <3>5. QED
      BY <3>1, <3>4
  <2>5. task' = task \/ task'.status # "completed"
    BY <1>15 DEF ChunkDone, Save
  <2>6. ASSUME Uncut', v.pc = "copied"
        PROVE  common \subseteq Settled
    <3>1. w.short
      BY <2>4, <2>6 DEF Uncut, Never
    <3>2. SUFFICES ASSUME NEW x \in common PROVE x \in Settled
      OBVIOUS
    <3>3. CASE x <= w.last
      BY <1>1, <3>3 DEF WorkerCovers, Covered
    <3>4. CASE w.last < x
      <4>1. x \in w.chunk
        BY <1>4, <2>1, <2>6, <3>1, <3>4 DEF Ends
      <4>2. QED
        BY <1>1, <2>1, <4>1 DEF WorkerCovers
    <3>5. QED
      BY <1>6, <1>7, <3>3, <3>4
  <2>7. Uncut' => Ends(v, common', Settled')
    BY <1>3, <2>4, <2>6 DEF Ends
  <2>8. QED
    BY <1>2, <1>5, <2>2, <2>5, <2>7, OneEnds
<1>16. CASE GiveUp(r)
  <2>1. Become(r, [NoWorker EXCEPT !.pc = "over"]) /\ task'.status # "completed"
    BY <1>16 DEF GiveUp, Save
  <2>2. [NoWorker EXCEPT !.pc = "over"].pc = "over"
    BY DEF NoWorker
  <2>3. QED
    BY <1>8, <2>1, <2>2
<1>17. CASE Complete(r)
  <2>1. Become(r, [NoWorker EXCEPT !.pc = "over"]) /\ w.pc = "copied"
    BY <1>17 DEF Complete
  <2>2. [NoWorker EXCEPT !.pc = "over"].pc = "over"
    BY DEF NoWorker
  <2>3. Uncut' => common' \subseteq Settled'
    BY <1>3, <1>4, <2>1 DEF Ends
  <2>4. QED
    BY <1>2, <1>5, <2>1, <2>2, <2>3, OneEnds DEF Ends
<1>18. CASE Expire(r)
  <2> DEFINE v == [w EXCEPT !.late = TRUE]
  <2>1. Become(r, v) /\ task' = task
    BY <1>18 DEF Expire, Become
  <2>2. v.pc = w.pc /\ v.last = w.last /\ v.chunk = w.chunk /\ v.short = w.short
    BY <1>1 DEF Worker
  <2>3. Uncut' => Ends(v, common', Settled')
    BY <1>3, <1>4, <2>2 DEF Ends
  <2>4. QED
    BY <1>2, <1>5, <2>1, <2>3, OneEnds
<1>19. QED
  BY <1>9, <1>10, <1>11, <1>12, <1>13, <1>14, <1>15, <1>16, <1>17, <1>18 DEF WorkerStep

LEMMA NextEnds ==
  ASSUME CopyInv, EndInv, [Next]_vars
  PROVE  EndInv'
<1> USE DEF jobVars, runVars, dataVars, history
<1>1. /\ TypeOK /\ Settled \subseteq Settled' /\ common' \subseteq common
      /\ Uncut' => Uncut
  <2>1. events \subseteq events'
    BY EventsGrow
  <2>2. QED
    BY <2>1, SettledGrows DEF CopyInv, Uncut, Never
<1>2. CASE Launch
  <2>1. task'.status = "running"
    BY <1>1, <1>2 DEF Launch, TypeOK, Task
  <2>2. ASSUME NEW q \in Runs, Uncut'
        PROVE  Ends(worker'[q], common', Settled')
    <3>1. CASE q = n
      <4>1. PICK p \in {"taken", "ready"} :
              worker' = [worker EXCEPT ![n] =
                [NoWorker EXCEPT !.pc = p, !.set = Effective(settings),
                                 !.last = snap.cursor, !.total = snap.count]]
        BY <1>2 DEF Launch
      <4>2. worker'[q].pc = p
        BY <1>1, <3>1, <4>1 DEF TypeOK, NoWorker
      <4>3. QED
        BY <4>1, <4>2 DEF Ends
    <3>2. CASE q # n
      <4>1. worker'[q] = worker[q]
        BY <1>2, <3>2 DEF Launch
      <4>2. QED
        BY <1>1, <2>2, <4>1, EndStays DEF EndInv
    <3>3. QED
      BY <3>1, <3>2
  <2>3. QED
    BY <2>1, <2>2 DEF EndInv
<1>3. CASE Start \/ Stop \/ Return \/ Finish \/ Patch \/ UNCHANGED vars
  <2>1. UNCHANGED <<worker, task>>
    BY <1>3 DEF Start, Stop, Return, Finish, Patch, vars
  <2>2. QED
    BY <1>1, <2>1, EndStays DEF EndInv
<1>4. CASE \E r \in Runs : WorkerStep(r) \/ Expire(r)
  BY <1>4, WorkerStepEnds
<1>5. QED
  BY <1>2, <1>3, <1>4 DEF Next

\* A table marked completed has every row of every run's range, arrived or
\* logged, unless the row cap or a filled destination ended the copy.
\* (engine.go copyTable)
THEOREM CompletionCovers == Spec => []CompletedCovers
<1>1. Init => EndInv
  BY DEF Init, EndInv, Ends, NoWorker
<1>2. EndInv => CompletedCovers
  BY DEF EndInv, CompletedCovers, Uncut
<1>3. QED
  BY <1>1, <1>2, CopyInvariant, NextEnds, PTL DEF Spec
=============================================================================
