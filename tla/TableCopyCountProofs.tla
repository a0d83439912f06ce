------------------------ MODULE TableCopyCountProofs ------------------------
(***************************************************************************)
(* Theorems about the number of rows a copy brings (TableCopy): that a row *)
(* comes once, that rows_done counts what came, that the row cap holds,    *)
(* which rows are given up, and that every step of a worker counts.        *)
(***************************************************************************)
EXTENDS TableCopyProofs

\* What a worker with a chunk has still to try.
Untried(w) == (UNION w.parts) \cup w.singles

\* The writer's bookkeeping: partitions and single rows share no row, and a
\* row is coerced only when it is the next in line.
Tidy(w) ==
  /\ w.pc # "writing" =>
       w.chunk = {} /\ w.parts = {} /\ w.singles = {} /\ ~ w.coerced
  /\ w.pc = "writing" =>
       /\ w.chunk # {} /\ \A x \in w.chunk : w.last < x
       /\ {} \notin w.parts /\ \A P, Q \in w.parts : P = Q \/ P \cap Q = {}
       /\ (UNION w.parts) \cap w.singles = {}
       /\ Untried(w) \subseteq w.chunk
       /\ w.coerced => \E x \in w.singles : Leftmost(w, {x})

\* The rows a chunk may still bring stay below the cap.
CapLeft(w) ==
  w.pc = "writing" /\ w.set.cap > 0 => w.total + Cardinality(Untried(w)) <= w.set.cap

\* Inductive with TypeOK; a run to come has no worker.
TidyInv ==
  /\ \A r \in Runs : Tidy(worker[r]) /\ CapLeft(worker[r])
  /\ \A r \in Runs : r > n => worker[r].pc = "none"
  /\ main = "on" => n \in Runs

\* Nothing has been written of a row that a worker has yet to read or to try.
Untouched(x) == dest[x] = 0 /\ x \notin logged
Fresh(w) == {x \in Rows : x > w.last /\ x \notin w.chunk} \cup Untried(w)
Once(x) == dest[x] <= 1 /\ ~ (dest[x] = 1 /\ x \in logged)
Idle == \A r \in Runs : ~ Live(r)

\* Inductive with these: before a run that finds a worker alive, and before a
\* commit that reports an error, there is one worker at most, what it has
\* before it is untouched, and the task row says so between two workers.
OnceInv ==
  Never({"overlap", "ambiguous"}) =>
    /\ \A x \in Rows : Once(x)
    /\ \A r \in Runs : Live(r) => r = n /\ \A x \in Fresh(worker[r]) : Untouched(x)
    /\ Idle => \A x \in Rows : x > task.cursor => Untouched(x)
    /\ main = "on" /\ worker[n].pc = "none" => snap = task

\* Inductive with these, before a count is reset: the worker's count, or that
\* of the task row between two workers, is the number of rows that arrived.
CountInv ==
  Never({"overlap", "ambiguous", "reset"}) =>
    /\ \A r \in Runs : Live(r) =>
         /\ worker[r].total = Cardinality(Present) /\ task.status = "running"
         /\ "skipped" \notin events
    /\ Idle => "skipped" \in events \/ task.count = Cardinality(Present)
    /\ "skipped" \in events => task.status = "completed"

\* What the failed tries of a row that fits say of it.
Excuse(r, x, k) == dest[x] > 0 \/ Dead(r) \/ faults >= k
Fits(x) == x \notin Bad \cup Coercible

\* Inductive with TypeOK and TidyInv: why a row that fits is tried singly, and
\* why it is then coerced.
TriesInv ==
  \A r \in Runs : worker[r].pc = "writing" =>
    \A x \in worker[r].singles : Fits(x) =>
      /\ Excuse(r, x, 1)
      /\ worker[r].coerced /\ Leftmost(worker[r], {x}) => Excuse(r, x, 2)

-----------------------------------------------------------------------------
\* Set and record facts about a worker's bookkeeping.

LEMMA WorkerSets ==
  ASSUME NEW w \in Worker
  PROVE  /\ UNION w.parts \subseteq Rows /\ w.singles \subseteq Rows /\ w.chunk \subseteq Rows
         /\ Untried(w) \subseteq Rows
         /\ IsFiniteSet(w.parts) /\ Cardinality(w.parts) \in Nat
         /\ w.last \in Int /\ w.total \in Nat /\ w.set.cap \in Nat /\ w.set.batch \in Nat
         /\ w.set.batch > 0 /\ w.set.range \subseteq Rows
<1>1. w.parts \in SUBSET SUBSET Rows /\ w.singles \subseteq Rows /\ w.chunk \subseteq Rows
  BY DEF Worker
<1>2. IsFiniteSet(SUBSET Rows)
  BY RowsAreFinite, FS_SUBSET
<1>3. IsFiniteSet(w.parts)
  BY <1>1, <1>2, FS_Subset
<1>4. w.last \in Int /\ w.total \in Nat /\ w.set \in Setting
  BY CopyAssumption DEF Worker
<1>5. w.set.cap \in Nat /\ w.set.batch \in Nat /\ w.set.batch > 0 /\ w.set.range \subseteq Rows
  BY <1>4 DEF Setting
<1>6. QED
  BY <1>1, <1>3, <1>4, <1>5, FS_CardinalityType DEF Untried

\* What a chunk has left, in steps: a row of a partition may need four, and a
\* partition that falls apart leaves one partition more.
Load(w) ==
  4 * Cardinality(UNION w.parts) - Cardinality(w.parts) + 2 * Cardinality(w.singles)

\* The worker stays where it is, and has tried P (a failed partition) in vain:
\* the rows s are to be tried singly, the rest in the partitions Q.
SameChunk(w, v) ==
  /\ v \in Worker
  /\ v.pc = w.pc /\ v.set = w.set /\ v.last = w.last /\ v.chunk = w.chunk
  /\ v.short = w.short /\ v.late = w.late

Pieces(P, Q, s) ==
  /\ (UNION Q) \cup s = P /\ (UNION Q) \cap s = {}
  /\ {} \notin Q /\ \A A, B \in Q : A = B \/ A \cap B = {}
  /\ \/ \E i : s = {i}
     \/ s = {} /\ \E L, R : L # R /\ Q = {L, R}

Sorts(w, v, P) ==
  /\ SameChunk(w, v) /\ v.coerced = w.coerced /\ v.total = w.total
  /\ \E Q, s : /\ Pieces(P, Q, s)
               /\ v.parts = (w.parts \ {P}) \cup Q /\ v.singles = w.singles \cup s

LEMMA HalveSorts ==
  ASSUME NEW w \in Worker, NEW P \in w.parts, P # {}, NEW v \in Halve(w, P)
  PROVE  /\ Sorts(w, v, P)
         /\ \A x \in v.singles \ w.singles : P = {x}
<1>1. P \subseteq Rows /\ v \in Worker /\ IsFiniteSet(P) /\ Cardinality(P) \in Nat
  <2>1. P \subseteq Rows
    BY DEF Worker
  <2>2. QED
    BY <2>1, HalveResorts, RowsAreFinite DEF Resorts
<1>2. CASE Cardinality(P) = 1
  <2>1. v = [w EXCEPT !.parts = @ \ {P}, !.singles = @ \cup P]
    BY <1>2 DEF Halve
  <2>2. /\ v.parts = (w.parts \ {P}) \cup {} /\ v.singles = w.singles \cup P
        /\ SameChunk(w, v) /\ v.coerced = w.coerced /\ v.total = w.total
    BY <1>1, <2>1 DEF Worker, SameChunk
  <2>3. PICK i : P = {i}
    BY <1>1, <1>2, FS_Singleton
  <2>4. Pieces(P, {}, P)
    BY <2>3 DEF Pieces
  <2>5. Sorts(w, v, P)
    BY <2>2, <2>4 DEF Sorts
  <2>6. QED
    BY <2>2, <2>3, <2>5
<1>3. CASE Cardinality(P) # 1
  <2>1. PICK L \in Halves(P) : v = [w EXCEPT !.parts = (@ \ {P}) \cup {L, P \ L}]
    BY <1>3 DEF Halve
  <2>2. L \subseteq P /\ Cardinality(L) = Cardinality(P) \div 2
    BY DEF Halves, Firsts
  <2>3. Cardinality(P) # 0
    BY <1>1, FS_EmptySet
  <2>4. Cardinality(L) # 0 /\ Cardinality(L) # Cardinality(P)
    BY <1>1, <1>3, <2>2, <2>3
  <2>5. L # {} /\ L # P
    BY <2>4, FS_EmptySet
  <2>6. /\ v.parts = (w.parts \ {P}) \cup {L, P \ L} /\ v.singles = w.singles \cup {}
        /\ SameChunk(w, v) /\ v.coerced = w.coerced /\ v.total = w.total
    BY <1>1, <2>1 DEF Worker, SameChunk
  <2>7. Pieces(P, {L, P \ L}, {})
    <3>1. L # P \ L /\ {} \notin {L, P \ L} /\ UNION {L, P \ L} = P
      BY <2>2, <2>5
    <3>2. \A A, B \in {L, P \ L} : A = B \/ A \cap B = {}
      BY <2>2
    <3>3. QED
      BY <3>1, <3>2 DEF Pieces
  <2>8. Sorts(w, v, P)
    BY <2>6, <2>7 DEF Sorts
  <2>9. QED
    BY <2>6, <2>8
<1>4. QED
  BY <1>2, <1>3

LEMMA SplitSorts ==
  ASSUME NEW w \in Worker, Tidy(w), w.pc = "writing", NEW P \in w.parts, NEW i \in P
  PROVE  Sorts(w, SplitAt(w, P, i), P) /\ SplitAt(w, P, i).singles = w.singles \cup {i}
<1> DEFINE v == SplitAt(w, P, i)
           A == {x \in P : x < i}
           B == {x \in P : x > i}
           Q == {A, B} \ {{}}
<1>1. P \subseteq Rows /\ Rows \subseteq Int
  BY DEF Worker, Rows
<1>2. /\ v.parts = ((w.parts \ {P}) \cup {A, B}) \ {{}} /\ v.singles = w.singles \cup {i}
      /\ v.coerced = w.coerced /\ v.total = w.total
      /\ v.pc = w.pc /\ v.set = w.set /\ v.last = w.last /\ v.chunk = w.chunk
      /\ v.short = w.short /\ v.late = w.late
  BY DEF SplitAt, Worker
<1>3. SameChunk(w, v)
  BY <1>2, SplitResorts DEF Resorts, SameChunk
<1>4. v.parts = (w.parts \ {P}) \cup Q
  <2>1. {} \notin w.parts
    BY DEF Tidy
  <2>2. QED
    BY <1>2, <2>1
<1>5. Pieces(P, Q, {i})
  <2>1. A \cap B = {} /\ i \notin A /\ i \notin B /\ A \cup B \cup {i} = P
    <3>1. \A x \in P : x \in Int
      BY <1>1
    <3>2. \A x : x \in A <=> x \in P /\ x < i
      OBVIOUS
    <3>3. \A x : x \in B <=> x \in P /\ x > i
      OBVIOUS
    <3> HIDE DEF A, B
    <3>4. \A x \in P : x \in A \/ x \in B \/ x = i
      BY <3>1, <3>2, <3>3
    <3>5. i \notin A /\ i \notin B /\ A \cap B = {}
      BY <3>1, <3>2, <3>3
    <3>6. QED
      BY <3>2, <3>3, <3>4, <3>5
  <2>2. UNION Q = A \cup B
    <3> HIDE DEF A, B
    <3>1. ASSUME NEW x \in A PROVE x \in UNION Q
      <4>1. A \in Q
        BY <3>1
      <4>2. QED
        BY <3>1, <4>1
    <3>2. ASSUME NEW x \in B PROVE x \in UNION Q
      <4>1. B \in Q
        BY <3>2
      <4>2. QED
        BY <3>2, <4>1
    <3>3. UNION Q \subseteq A \cup B
      OBVIOUS
    <3>4. QED
      BY <3>1, <3>2, <3>3
  <2>3. \A C, D \in Q : C = D \/ C \cap D = {}
    <3> HIDE DEF A, B
    <3>1. QED
      BY <2>1
  <2>4. {} \notin Q
    OBVIOUS
  <2> HIDE DEF Q, A, B
  <2>5. QED
    BY <2>1, <2>2, <2>3, <2>4 DEF Pieces
<1> HIDE DEF v, Q
<1>6. Sorts(w, v, P)
  BY <1>2, <1>3, <1>4, <1>5 DEF Sorts
<1>7. QED
  BY <1>2, <1>6 DEF v

\* The leftmost partition is tried while no row is being coerced.
LEMMA CoercedComesFirst ==
  ASSUME NEW w \in Worker, Tidy(w), w.pc = "writing", NEW P \in w.parts, Leftmost(w, P)
  PROVE  ~ w.coerced
<1>1. SUFFICES ASSUME w.coerced PROVE FALSE
  OBVIOUS
<1>2. PICK x \in w.singles : Leftmost(w, {x})
  BY <1>1 DEF Tidy
<1>3. PICK y \in P : TRUE
  BY DEF Tidy
<1>4. x \in Int /\ y \in Int /\ x \notin P
  <2>1. x \in Rows /\ y \in Rows /\ y \in UNION w.parts
    BY <1>2, <1>3, WorkerSets
  <2>2. x \notin UNION w.parts
    BY <1>2 DEF Tidy
  <2>3. QED
    BY <2>1, <2>2 DEF Rows
<1>5. y < x
  BY <1>2, <1>3, <1>4 DEF Leftmost
<1>6. x < y
  BY <1>2, <1>3, <1>4 DEF Leftmost
<1>7. QED
  BY <1>4, <1>5, <1>6

\* A row alone in front of the others is the only one there.
LEMMA OneIsFirst ==
  ASSUME NEW w \in Worker, NEW x \in w.singles, NEW y \in w.singles,
         Leftmost(w, {x}), Leftmost(w, {y})
  PROVE  x = y
<1>1. x \in Int /\ y \in Int
  BY DEF Worker, Rows
<1>2. QED
  BY <1>1 DEF Leftmost

LEMMA SortsKeeps ==
  ASSUME NEW w \in Worker, Tidy(w), w.pc = "writing", NEW P \in w.parts, Leftmost(w, P),
         NEW v, Sorts(w, v, P)
  PROVE  Tidy(v) /\ Untried(v) = Untried(w) /\ Load(v) < Load(w) /\ ~ v.coerced
<1>1. PICK Q, s : /\ Pieces(P, Q, s)
                  /\ v.parts = (w.parts \ {P}) \cup Q /\ v.singles = w.singles \cup s
  BY DEF Sorts
<1>2. /\ (UNION Q) \cup s = P /\ (UNION Q) \cap s = {}
      /\ {} \notin Q /\ \A A, B \in Q : A = B \/ A \cap B = {}
  BY <1>1 DEF Pieces
<1>3. /\ v \in Worker /\ v.pc = w.pc /\ v.last = w.last /\ v.chunk = w.chunk
      /\ v.coerced = w.coerced
  BY DEF Sorts, SameChunk
<1>4. /\ {} \notin w.parts /\ \A A, B \in w.parts : A = B \/ A \cap B = {}
      /\ (UNION w.parts) \cap w.singles = {} /\ Untried(w) \subseteq w.chunk
      /\ w.chunk # {} /\ \A x \in w.chunk : w.last < x
  BY DEF Tidy
<1>5. ~ v.coerced
  BY <1>3, CoercedComesFirst
<1>6. UNION v.parts = (UNION w.parts) \ s
  <2>1. ASSUME NEW A \in v.parts, NEW x \in A
        PROVE  x \in UNION w.parts /\ x \notin s
    <3>1. CASE A \in Q
      BY <1>2, <2>1, <3>1
    <3>2. CASE A \in w.parts \ {P}
      <4>1. A \cap P = {}
        BY <1>4, <3>2
      <4>2. QED
        BY <1>2, <2>1, <3>2, <4>1
    <3>3. QED
      BY <1>1, <2>1, <3>1, <3>2
  <2>2. ASSUME NEW A \in w.parts, NEW x \in A, x \notin s
        PROVE  x \in UNION v.parts
    <3>1. CASE A = P
      <4>1. PICK B \in Q : x \in B
        BY <1>2, <2>2, <3>1
      <4>2. QED
        BY <1>1, <4>1
    <3>2. CASE A # P
      BY <1>1, <2>2, <3>2
    <3>3. QED
      BY <3>1, <3>2
  <2>3. QED
    BY <2>1, <2>2
<1>7. s \subseteq UNION w.parts /\ s \cap w.singles = {}
  BY <1>2, <1>4
<1>8. Untried(v) = Untried(w)
  BY <1>1, <1>6, <1>7 DEF Untried
<1>9. \A A, B \in v.parts : A = B \/ A \cap B = {}
  <2>1. ASSUME NEW A \in v.parts, NEW B \in v.parts, A # B
        PROVE  A \cap B = {}
    <3>1. \A C \in Q : C \subseteq P
      BY <1>2
    <3>2. \A C \in w.parts \ {P} : C \cap P = {}
      BY <1>4
    <3>3. A \in Q \/ A \in w.parts \ {P}
      BY <1>1, <2>1
    <3>4. B \in Q \/ B \in w.parts \ {P}
      BY <1>1, <2>1
    <3>5. CASE A \in Q /\ B \in Q
      BY <1>2, <2>1, <3>5
    <3>6. CASE A \in Q /\ B \in w.parts \ {P}
      BY <3>1, <3>2, <3>6
    <3>7. CASE A \in w.parts \ {P} /\ B \in Q
      BY <3>1, <3>2, <3>7
    <3>8. CASE A \in w.parts \ {P} /\ B \in w.parts \ {P}
      BY <1>4, <2>1, <3>8
    <3>9. QED
      BY <3>3, <3>4, <3>5, <3>6, <3>7, <3>8
  <2>2. QED
    BY <2>1
<1>10. Tidy(v)
  <2>1. {} \notin v.parts
    BY <1>1, <1>2, <1>4
  <2>2. (UNION v.parts) \cap v.singles = {}
    BY <1>1, <1>4, <1>6
  <2>3. QED
    BY <1>3, <1>4, <1>5, <1>8, <1>9, <2>1, <2>2 DEF Tidy
<1>11. Load(v) < Load(w)
  <2> DEFINE u == Cardinality(UNION w.parts)
             p == Cardinality(w.parts)
             k == Cardinality(w.singles)
  <2>1. /\ IsFiniteSet(UNION w.parts) /\ IsFiniteSet(w.parts) /\ IsFiniteSet(w.singles)
        /\ u \in Nat /\ p \in Nat /\ k \in Nat
    BY WorkerSets, RowsAreFinite
  <2>2. IsFiniteSet(w.parts \ {P}) /\ Cardinality(w.parts \ {P}) = p - 1
    BY <2>1, FS_RemoveElement
  <2>3. CASE \E i : s = {i}
    <3>1. PICK i : s = {i}
      BY <2>3
    <3>2. i \in UNION w.parts /\ i \notin w.singles
      BY <1>7, <3>1
    <3>3. Cardinality(UNION v.parts) = u - 1
      <4>1. UNION v.parts = (UNION w.parts) \ {i}
        BY <1>6, <3>1
      <4>2. Cardinality((UNION w.parts) \ {i}) = Cardinality(UNION w.parts) - 1
        BY <2>1, <3>2, FS_RemoveElement
      <4>3. QED
        BY <4>1, <4>2
    <3>4. Cardinality(v.singles) = k + 1
      BY <1>1, <2>1, <3>1, <3>2, FS_AddElement
    <3>5. Cardinality(v.parts) \in Nat /\ Cardinality(v.parts) >= p - 1
      <4>1. IsFiniteSet(v.parts)
        BY <1>3, WorkerSets
      <4>2. w.parts \ {P} \in SUBSET v.parts
        BY <1>1
      <4>3. QED
        BY <2>2, <4>1, <4>2, FS_Subset, FS_CardinalityType
    <3> HIDE DEF u, p, k
    <3>6. QED
      BY <2>1, <3>3, <3>4, <3>5 DEF Load, u, p, k
  <2>4. CASE s = {} /\ \E L, R : L # R /\ Q = {L, R}
    <3>1. PICK L, R : L # R /\ Q = {L, R}
      BY <2>4
    <3>2. Cardinality(UNION v.parts) = u /\ Cardinality(v.singles) = k
      <4>1. UNION v.parts = UNION w.parts /\ v.singles = w.singles
        BY <1>1, <1>6, <2>4
      <4>2. QED
        BY <4>1
    <3>3. L \notin w.parts \ {P} /\ R \notin w.parts \ {P}
      <4>1. \A C \in Q : C # {} /\ C \subseteq P
        BY <1>2
      <4>2. \A C \in w.parts \ {P} : C \cap P = {}
        BY <1>4
      <4>3. \A C \in Q : C \notin w.parts \ {P}
        BY <4>1, <4>2
      <4>4. QED
        BY <3>1, <4>3
    <3>4. /\ IsFiniteSet((w.parts \ {P}) \cup {L})
          /\ Cardinality((w.parts \ {P}) \cup {L}) = p
      <4> DEFINE rest == w.parts \ {P}
      <4>1. IsFiniteSet(rest) /\ Cardinality(rest) = p - 1 /\ L \notin rest
        BY <2>2, <3>3
      <4> HIDE DEF rest, p
      <4>2. IsFiniteSet(rest \cup {L}) /\ Cardinality(rest \cup {L}) = p - 1 + 1
        BY <4>1, FS_AddElement
      <4>3. p - 1 + 1 = p
        BY <2>1
      <4>4. QED
        BY <4>2, <4>3 DEF rest
    <3>5. R \notin (w.parts \ {P}) \cup {L}
      BY <3>1, <3>3
    <3>6. Cardinality(((w.parts \ {P}) \cup {L}) \cup {R}) = p + 1
      BY <3>4, <3>5, FS_AddElement
    <3>7. v.parts = ((w.parts \ {P}) \cup {L}) \cup {R}
      BY <1>1, <3>1
    <3>8. Cardinality(v.parts) = p + 1
      BY <3>6, <3>7
    <3> HIDE DEF u, p, k
    <3>9. QED
      BY <2>1, <3>2, <3>8 DEF Load, u, p, k
  <2>5. QED
    BY <1>1, <2>3, <2>4 DEF Pieces
<1>12. QED
  BY <1>5, <1>8, <1>10, <1>11

\* A partition or a row that is done leaves the rest as it was.
LEMMA PartLeaves ==
  ASSUME NEW w \in Worker, Tidy(w), w.pc = "writing", NEW P \in w.parts, Leftmost(w, P),
         NEW v, SameChunk(w, v), v.parts = w.parts \ {P}, v.singles = w.singles,
         v.coerced = w.coerced
  PROVE  /\ Tidy(v) /\ Untried(v) = Untried(w) \ P /\ Load(v) < Load(w)
         /\ Cardinality(Untried(v)) = Cardinality(Untried(w)) - Cardinality(P)
         /\ P \subseteq Untried(w) /\ P # {}
<1>1. /\ {} \notin w.parts /\ \A A, B \in w.parts : A = B \/ A \cap B = {}
      /\ (UNION w.parts) \cap w.singles = {} /\ Untried(w) \subseteq w.chunk
      /\ w.chunk # {} /\ \A x \in w.chunk : w.last < x
  BY DEF Tidy
<1>2. /\ v \in Worker /\ v.pc = w.pc /\ v.last = w.last /\ v.chunk = w.chunk
      /\ ~ v.coerced
  BY CoercedComesFirst DEF SameChunk
<1>3. UNION v.parts = (UNION w.parts) \ P
  BY <1>1
<1>4. P \subseteq UNION w.parts /\ P \cap w.singles = {} /\ P # {}
  BY <1>1
<1>5. Untried(v) = Untried(w) \ P /\ P \subseteq Untried(w)
  BY <1>3, <1>4 DEF Untried
<1>6. Tidy(v)
  <2>1. Untried(v) \subseteq v.chunk /\ (UNION v.parts) \cap v.singles = {}
    BY <1>1, <1>2, <1>3, <1>5
  <2>2. QED
    BY <1>1, <1>2, <2>1 DEF Tidy
<1>7. /\ IsFiniteSet(UNION w.parts) /\ IsFiniteSet(w.parts) /\ IsFiniteSet(w.singles)
      /\ IsFiniteSet(Untried(w)) /\ Cardinality(Untried(w)) \in Nat
      /\ Cardinality(UNION w.parts) \in Nat /\ Cardinality(w.parts) \in Nat
      /\ Cardinality(w.singles) \in Nat
  BY WorkerSets, RowsAreFinite
<1>8. Cardinality(P) \in Nat /\ Cardinality(P) # 0
  <2>1. IsFiniteSet(P)
    BY <1>4, <1>7, FS_Subset
  <2>2. QED
    BY <1>4, <2>1, FS_CardinalityType, FS_EmptySet
<1>9. Cardinality(Untried(v)) = Cardinality(Untried(w)) - Cardinality(P)
  <2>1. Untried(w) \cap P = P
    BY <1>5
  <2>2. QED
    BY <1>5, <1>7, <2>1, FS_Difference
<1>10. Cardinality(UNION v.parts) = Cardinality(UNION w.parts) - Cardinality(P)
  <2>1. (UNION w.parts) \cap P = P
    BY <1>4
  <2>2. QED
    BY <1>3, <1>7, <2>1, FS_Difference
<1>11. Cardinality(v.parts) = Cardinality(w.parts) - 1
  BY <1>7, FS_RemoveElement
<1>12. Load(v) < Load(w)
  BY <1>7, <1>8, <1>10, <1>11 DEF Load
<1>13. QED
  BY <1>4, <1>5, <1>6, <1>9, <1>12

LEMMA RowLeaves ==
  ASSUME NEW w \in Worker, Tidy(w), w.pc = "writing", NEW x \in w.singles,
         NEW v, SameChunk(w, v), v.parts = w.parts, v.singles = w.singles \ {x}, ~ v.coerced
  PROVE  /\ Tidy(v) /\ Untried(v) = Untried(w) \ {x} /\ Load(v) = Load(w) - 2
         /\ Cardinality(Untried(v)) = Cardinality(Untried(w)) - 1
         /\ x \in Untried(w)
<1>1. /\ {} \notin w.parts /\ \A A, B \in w.parts : A = B \/ A \cap B = {}
      /\ (UNION w.parts) \cap w.singles = {} /\ Untried(w) \subseteq w.chunk
      /\ w.chunk # {} /\ \A y \in w.chunk : w.last < y
  BY DEF Tidy
<1>2. v \in Worker /\ v.pc = w.pc /\ v.last = w.last /\ v.chunk = w.chunk
  BY DEF SameChunk
<1>3. Untried(v) = Untried(w) \ {x} /\ x \in Untried(w)
  BY <1>1 DEF Untried
<1>4. Tidy(v)
  <2>1. Untried(v) \subseteq v.chunk /\ (UNION v.parts) \cap v.singles = {}
    BY <1>1, <1>2, <1>3
  <2>2. QED
    BY <1>1, <1>2, <2>1 DEF Tidy
<1>5. /\ IsFiniteSet(w.singles) /\ IsFiniteSet(Untried(w)) /\ Cardinality(Untried(w)) \in Nat
      /\ Cardinality(UNION w.parts) \in Nat /\ Cardinality(w.parts) \in Nat
      /\ Cardinality(w.singles) \in Nat
  BY WorkerSets, RowsAreFinite
<1>6. Cardinality(Untried(v)) = Cardinality(Untried(w)) - 1
  BY <1>3, <1>5, FS_RemoveElement
<1>7. Cardinality(v.singles) = Cardinality(w.singles) - 1
  BY <1>5, FS_RemoveElement
<1>8. Load(v) = Load(w) - 2
  BY <1>5, <1>7 DEF Load
<1>9. QED
  BY <1>3, <1>4, <1>6, <1>8

LEMMA CoercionKeeps ==
  ASSUME NEW w \in Worker, Tidy(w), w.pc = "writing", NEW x \in w.singles, Leftmost(w, {x}),
         NEW v, SameChunk(w, v), v.parts = w.parts, v.singles = w.singles, v.coerced
  PROVE  Tidy(v) /\ Untried(v) = Untried(w) /\ Load(v) = Load(w)
<1>1. v.pc = w.pc /\ v.last = w.last /\ v.chunk = w.chunk
  BY DEF SameChunk
<1>2. Leftmost(v, {x})
  BY DEF Leftmost
<1>3. QED
  BY <1>1, <1>2 DEF Tidy, Untried, Load

-----------------------------------------------------------------------------
\* What the steps of the worker of run r do, field by field.

Alone(r) == UNCHANGED runVars /\ \A q \in Runs : q # r => worker'[q] = worker[q]

\* A partition or a row goes in; or it is tried in vain.
PartDone(r, P) ==
  LET w == worker[r]
      v == worker'[r]
  IN /\ SameChunk(w, v) /\ v.coerced = w.coerced
     /\ v.parts = w.parts \ {P} /\ v.singles = w.singles
     /\ v.total = w.total + Cardinality(P)
     /\ Insert(P) /\ faults' = faults /\ events' = events

PartSorted(r, P) ==
  LET w == worker[r]
      v == worker'[r]
  IN /\ Sorts(w, v, P)
     /\ faults' \in {faults, faults + 1}
     /\ \/ dest' = dest /\ events' = events
        \/ Insert(P) /\ events' = events \cup {"ambiguous"}
     /\ \A x \in v.singles \ w.singles : Fits(x) => dest[x] > 0 \/ Dead(r) \/ faults' >= 1

RowDone(r, x) ==
  LET w == worker[r]
      v == worker'[r]
  IN /\ SameChunk(w, v) /\ ~ v.coerced
     /\ v.parts = w.parts /\ v.singles = w.singles \ {x}
     /\ v.total = w.total + 1
     /\ Insert({x}) /\ UNCHANGED <<logged, faults, events>>

RowTried(r, x) ==
  LET w == worker[r]
      v == worker'[r]
  IN /\ SameChunk(w, v) /\ v.parts = w.parts /\ v.total = w.total
     /\ \/ w.coerced /\ ~ v.coerced /\ v.singles = w.singles \ {x} /\ logged' = logged \cup {x}
        \/ ~ w.coerced /\ v.coerced /\ v.singles = w.singles /\ logged' = logged
     /\ \/ /\ dest' = dest /\ faults' = faults
           /\ events' = events \cup IF Dead(r) /\ w.coerced THEN {"cut"} ELSE {}
           /\ Dead(r) \/ ~ Takes(r, x)
        \/ /\ ~ Dead(r) /\ faults' = faults + 1
           /\ \/ dest' = dest /\ events' = events
              \/ Insert({x}) /\ events' = events \cup {"ambiguous"}

LEMMA PartEffect ==
  ASSUME TypeOK, NEW r \in Runs, Tidy(worker[r]), WritePart(r)
  PROVE  /\ Alone(r) /\ worker[r].pc = "writing"
         /\ UNCHANGED <<task, logged, common>>
         /\ \E P \in worker[r].parts :
              Leftmost(worker[r], P) /\ (PartDone(r, P) \/ PartSorted(r, P))
<1> DEFINE w == worker[r]
<1>1. w \in Worker /\ worker \in [Runs -> Worker] /\ faults \in Nat
  BY DEF TypeOK
<1>2. PICK P \in w.parts :
        Leftmost(w, P) /\ (PartGoesIn(r, P) \/ PartFails(r, P) \/ PartFaults(r, P))
  BY DEF WritePart
<1>3. w.pc = "writing" /\ UNCHANGED <<task, logged, common>> /\ UNCHANGED runVars
  BY DEF WritePart
<1>4. P # {} /\ P \subseteq Rows
  BY <1>1, <1>2, <1>3 DEF Tidy, Worker
<1>5. ASSUME NEW v, Become(r, v)
      PROVE  worker'[r] = v /\ \A q \in Runs : q # r => worker'[q] = worker[q]
  BY <1>1, <1>5 DEF Become
<1>6. CASE PartGoesIn(r, P)
  <2> DEFINE v == [w EXCEPT !.parts = @ \ {P}, !.total = @ + Cardinality(P)]
  <2>1. Become(r, v) /\ Insert(P) /\ UNCHANGED <<faults, events>>
    BY <1>6 DEF PartGoesIn
  <2>2. v \in Worker
    <3>1. w.total + Cardinality(P) \in Nat
      BY <1>1, <1>4, RowsAreFinite DEF Worker
    <3>2. \A k \in Nat : [w EXCEPT !.parts = @ \ {P}, !.total = k] \in Worker
      BY <1>1 DEF Worker
    <3>3. v = [w EXCEPT !.parts = @ \ {P}, !.total = w.total + Cardinality(P)]
      OBVIOUS
    <3>4. QED
      BY <3>1, <3>2, <3>3, Zenon
  <2>3. /\ v.pc = w.pc /\ v.set = w.set /\ v.last = w.last /\ v.chunk = w.chunk
        /\ v.short = w.short /\ v.late = w.late /\ v.coerced = w.coerced
        /\ v.parts = w.parts \ {P} /\ v.singles = w.singles
        /\ v.total = w.total + Cardinality(P)
    BY <1>1 DEF Worker
  <2> HIDE DEF v
  <2>4. worker'[r] = v /\ \A q \in Runs : q # r => worker'[q] = worker[q]
    BY <1>5, <2>1
  <2>5. PartDone(r, P)
    BY <2>1, <2>2, <2>3, <2>4 DEF PartDone, SameChunk
  <2>6. QED
    BY <1>2, <1>3, <2>4, <2>5 DEF Alone
<1>7. ASSUME NEW v \in Halve(w, P), Become(r, v),
             faults' \in {faults, faults + 1},
             \/ dest' = dest /\ events' = events
             \/ Insert(P) /\ events' = events \cup {"ambiguous"},
             faults' >= 1 \/ Dead(r) \/ Oversize(P) \/ \E x \in P : Misfit(x) \/ Duplicate(x)
      PROVE  PartSorted(r, P) /\ Alone(r)
  <2>1. worker'[r] = v /\ \A q \in Runs : q # r => worker'[q] = worker[q]
    BY <1>5, <1>7
  <2>2. Sorts(w, v, P) /\ \A x \in v.singles \ w.singles : P = {x}
    BY <1>1, <1>4, HalveSorts
  <2>3. ASSUME NEW x \in v.singles \ w.singles, Fits(x)
        PROVE  dest[x] > 0 \/ Dead(r) \/ faults' >= 1
    <3>1. P = {x}
      BY <2>2
    <3>2. ~ Oversize(P)
      <4>1. Cardinality({x}) = 1
        BY FS_Singleton
      <4>2. QED
        BY <3>1, <4>1, CopyAssumption DEF Oversize
    <3>3. QED
      BY <1>7, <2>3, <3>1, <3>2 DEF Misfit, Fits, Duplicate
  <2>4. QED
    BY <1>3, <1>7, <2>1, <2>2, <2>3 DEF PartSorted, Alone
<1>8. ASSUME NEW i \in P, Become(r, SplitAt(w, P, i)),
             faults' \in {faults, faults + 1}, dest' = dest, events' = events,
             faults' >= 1 \/ Misfit(i)
      PROVE  PartSorted(r, P) /\ Alone(r)
  <2> DEFINE v == SplitAt(w, P, i)
  <2>1. worker'[r] = v /\ \A q \in Runs : q # r => worker'[q] = worker[q]
    BY <1>5, <1>8
  <2>2. Sorts(w, v, P) /\ v.singles = w.singles \cup {i}
    BY <1>1, <1>3, SplitSorts
  <2> HIDE DEF v
  <2>3. ASSUME NEW x \in v.singles \ w.singles, Fits(x)
        PROVE  faults' >= 1
    BY <1>8, <2>2, <2>3 DEF Misfit, Fits
  <2>4. QED
    BY <1>3, <1>8, <2>1, <2>2, <2>3 DEF PartSorted, Alone
<1>9. CASE PartFails(r, P)
  <2>1. dest' = dest /\ events' = events /\ faults' = faults
    BY <1>9 DEF PartFails
  <2>2. \/ /\ Dead(r) \/ Oversize(P) \/ \E x \in P : Misfit(x) \/ Duplicate(x)
           /\ \E v \in Halve(w, P) : Become(r, v)
        \/ \E i \in P : Misfit(i) /\ Become(r, SplitAt(w, P, i))
    BY <1>9 DEF PartFails
  <2>3. PartSorted(r, P) /\ Alone(r)
    BY <1>7, <1>8, <2>1, <2>2
  <2>4. QED
    BY <1>2, <1>3, <2>3
<1>10. CASE PartFaults(r, P)
  <2>1. faults' = faults + 1 /\ faults' >= 1
    BY <1>1, <1>10 DEF PartFaults
  <2>2. \/ /\ \E v \in Halve(w, P) : Become(r, v)
           /\ \/ dest' = dest /\ events' = events
              \/ Insert(P) /\ events' = events \cup {"ambiguous"}
        \/ /\ \E i \in P : Become(r, SplitAt(w, P, i))
           /\ dest' = dest /\ events' = events
    BY <1>10 DEF PartFaults, Note
  <2>3. PartSorted(r, P) /\ Alone(r)
    BY <1>7, <1>8, <2>1, <2>2
  <2>4. QED
    BY <1>2, <1>3, <2>3
<1>11. QED
  BY <1>2, <1>6, <1>9, <1>10

LEMMA RowEffect ==
  ASSUME TypeOK, NEW r \in Runs, WriteRow(r)
  PROVE  /\ Alone(r) /\ worker[r].pc = "writing"
         /\ UNCHANGED <<task, common>>
         /\ \E x \in worker[r].singles :
              Leftmost(worker[r], {x}) /\ (RowDone(r, x) \/ RowTried(r, x))
<1> DEFINE w == worker[r]
<1>1. w \in Worker /\ worker \in [Runs -> Worker] /\ faults \in Nat
  BY DEF TypeOK
<1>2. PICK x \in w.singles : Leftmost(w, {x}) /\ (RowGoesIn(r, x) \/ RowFails(r, x))
  BY DEF WriteRow
<1>3. w.pc = "writing" /\ UNCHANGED <<task, common>> /\ UNCHANGED runVars
  BY DEF WriteRow
<1>4. ASSUME NEW v, Become(r, v)
      PROVE  worker'[r] = v /\ \A q \in Runs : q # r => worker'[q] = worker[q]
  BY <1>1, <1>4 DEF Become
<1>5. CASE RowGoesIn(r, x)
  <2> DEFINE v == [w EXCEPT !.singles = @ \ {x}, !.coerced = FALSE, !.total = @ + 1]
  <2>1. Become(r, v) /\ Insert({x}) /\ UNCHANGED <<logged, faults, events>>
    BY <1>5 DEF RowGoesIn
  <2>2. v \in Worker
    <3>1. w.total + 1 \in Nat
      BY <1>1 DEF Worker
    <3>2. \A k \in Nat :
            [w EXCEPT !.singles = @ \ {x}, !.coerced = FALSE, !.total = k] \in Worker
      BY <1>1 DEF Worker
    <3>3. v = [w EXCEPT !.singles = @ \ {x}, !.coerced = FALSE, !.total = w.total + 1]
      OBVIOUS
    <3>4. QED
      BY <3>1, <3>2, <3>3, Zenon
  <2>3. /\ v.pc = w.pc /\ v.set = w.set /\ v.last = w.last /\ v.chunk = w.chunk
        /\ v.short = w.short /\ v.late = w.late /\ v.coerced = FALSE
        /\ v.parts = w.parts /\ v.singles = w.singles \ {x} /\ v.total = w.total + 1
    BY <1>1 DEF Worker
  <2> HIDE DEF v
  <2>4. worker'[r] = v /\ \A q \in Runs : q # r => worker'[q] = worker[q]
    BY <1>4, <2>1
  <2>5. RowDone(r, x)
    BY <2>1, <2>2, <2>3, <2>4 DEF RowDone, SameChunk
  <2>6. QED
    BY <1>2, <1>3, <2>4, <2>5 DEF Alone
<1>6. CASE RowFails(r, x)
  <2>1. \/ /\ dest' = dest /\ faults' = faults
           /\ events' = events \cup IF Dead(r) /\ w.coerced THEN {"cut"} ELSE {}
           /\ Dead(r) \/ ~ Takes(r, x)
        \/ /\ ~ Dead(r) /\ faults' = faults + 1
           /\ \/ dest' = dest /\ events' = events
              \/ Insert({x}) /\ events' = events \cup {"ambiguous"}
    BY <1>6 DEF RowFails, Note
  <2>2. CASE w.coerced
    <3> DEFINE v == [w EXCEPT !.singles = @ \ {x}, !.coerced = FALSE]
    <3>1. Become(r, v) /\ logged' = logged \cup {x}
      BY <1>6, <2>2 DEF RowFails, GiveUpRow
    <3>2. /\ v \in Worker /\ v.pc = w.pc /\ v.set = w.set /\ v.last = w.last
          /\ v.chunk = w.chunk /\ v.short = w.short /\ v.late = w.late /\ v.coerced = FALSE
          /\ v.parts = w.parts /\ v.singles = w.singles \ {x} /\ v.total = w.total
      BY <1>1 DEF Worker
    <3> HIDE DEF v
    <3>3. worker'[r] = v /\ \A q \in Runs : q # r => worker'[q] = worker[q]
      BY <1>4, <3>1
    <3>4. SameChunk(w, worker'[r])
      BY <3>2, <3>3 DEF SameChunk
    <3>5. RowTried(r, x)
      BY <2>1, <2>2, <3>1, <3>2, <3>3, <3>4 DEF RowTried
    <3>6. QED
      BY <1>2, <1>3, <3>3, <3>5 DEF Alone
  <2>3. CASE ~ w.coerced
    <3> DEFINE v == [w EXCEPT !.coerced = TRUE]
    <3>1. Become(r, v) /\ logged' = logged
      BY <1>6, <2>3 DEF RowFails, Become
    <3>2. /\ v \in Worker /\ v.pc = w.pc /\ v.set = w.set /\ v.last = w.last
          /\ v.chunk = w.chunk /\ v.short = w.short /\ v.late = w.late /\ v.coerced = TRUE
          /\ v.parts = w.parts /\ v.singles = w.singles /\ v.total = w.total
      BY <1>1 DEF Worker
    <3> HIDE DEF v
    <3>3. worker'[r] = v /\ \A q \in Runs : q # r => worker'[q] = worker[q]
      BY <1>4, <3>1
    <3>4. SameChunk(w, worker'[r])
      BY <3>2, <3>3 DEF SameChunk
    <3>5. RowTried(r, x)
      BY <2>1, <2>3, <3>1, <3>2, <3>3, <3>4 DEF RowTried
    <3>6. QED
      BY <1>2, <1>3, <3>3, <3>5 DEF Alone
  <2>4. QED
    BY <2>2, <2>3
<1>7. QED
  BY <1>2, <1>5, <1>6

\* A worker without a chunk.
Resting(w) ==
  w.pc # "writing" /\ w.chunk = {} /\ w.parts = {} /\ w.singles = {} /\ ~ w.coerced

\* It goes on to its next stage, without a chunk.
GoesOn(r) ==
  LET w == worker[r]
      v == worker'[r]
  IN /\ Resting(w) /\ Resting(v) /\ v \in Worker
     /\ v.pc \in {"ready", "looping", "erred", "copied"} /\ w.pc \notin {"none", "over"}
     /\ StageRank[v.pc] < StageRank[w.pc]
     /\ v.set = w.set /\ v.last = w.last
     /\ v.total = w.total \/ "reset" \in events'
     /\ task' = task
     /\ "skipped" \in events' => "skipped" \in events

\* It is over, and has written the task row.
Leaves(r) ==
  LET w == worker[r]
  IN /\ Resting(w) /\ w.pc \in {"taken", "erred", "copied"}
     /\ worker'[r] = [NoWorker EXCEPT !.pc = "over"]
     /\ task'.cursor = w.last
     /\ \/ task'.count = w.total /\ events' = events
        \/ task'.status = "completed" /\ events' = events \cup {"skipped"}

\* It reads a chunk that the cap allows.
Reads(r, c) ==
  LET w == worker[r]
      v == worker'[r]
  IN /\ Resting(w) /\ w.pc = "looping"
     /\ c # {} /\ c \subseteq w.set.range /\ \A x \in c : w.last < x
     /\ w.set.cap > 0 => w.total + Cardinality(c) <= w.set.cap
     /\ v \in Worker /\ v.pc = "writing" /\ v.set = w.set /\ v.last = w.last
     /\ v.total = w.total /\ v.chunk = c /\ v.parts = {c} /\ v.singles = {}
     /\ ~ v.coerced /\ ~ v.late
     /\ task' = task /\ events' = events

\* Its chunk is done.
EndsChunk(r, c) ==
  LET w == worker[r]
      v == worker'[r]
  IN /\ w.pc = "writing" /\ w.parts = {} /\ w.singles = {}
     /\ c \in w.chunk /\ \A x \in w.chunk : x <= c
     /\ v \in Worker /\ v.pc \in {"looping", "copied"} /\ v.set = w.set
     /\ v.last = c /\ v.total = w.total
     /\ v.chunk = {} /\ v.parts = {} /\ v.singles = {} /\ v.coerced = w.coerced
     /\ task' = task \/ task'.status = "running"
     /\ "skipped" \in events' => "skipped" \in events

LEMMA TurnEffect ==
  ASSUME TypeOK, NEW r \in Runs, Tidy(worker[r]),
         \/ CountRows(r) \/ Prepare(r) \/ ReadFails(r) \/ ReachCap(r)
         \/ Read(r) /\ Ahead(worker[r]) = {}
         \/ GiveUp(r) \/ Complete(r)
  PROVE  Alone(r) /\ UNCHANGED <<dest, logged, common, faults>> /\ (GoesOn(r) \/ Leaves(r))
<1> DEFINE w == worker[r]
           over == [NoWorker EXCEPT !.pc = "over"]
<1>1. w \in Worker /\ worker \in [Runs -> Worker]
  BY DEF TypeOK
<1>2. UNCHANGED <<dest, logged, common, faults>> /\ UNCHANGED runVars
  BY DEF CountRows, Prepare, ReadFails, ReachCap, Read, GiveUp, Complete, dataVars, history
<1>3. ASSUME NEW v, Become(r, v)
      PROVE  worker'[r] = v /\ Alone(r)
  BY <1>1, <1>2, <1>3 DEF Become, Alone
<1>4. w.pc \in {"taken", "ready", "looping", "erred", "copied"} /\ Resting(w)
  <2>1. w.pc \in {"taken", "ready", "looping", "erred", "copied"}
    BY DEF CountRows, Prepare, ReadFails, ReachCap, Read, GiveUp, Complete
  <2>2. QED
    BY <2>1 DEF Tidy, Resting
<1>5. ASSUME NEW p \in {"ready", "looping", "erred", "copied"}, NEW k \in Nat,
             Become(r, [w EXCEPT !.pc = p, !.total = k]),
             StageRank[p] < StageRank[w.pc], k = w.total \/ "reset" \in events',
             task' = task, "skipped" \in events' => "skipped" \in events
      PROVE  Alone(r) /\ GoesOn(r)
  <2> DEFINE v == [w EXCEPT !.pc = p, !.total = k]
  <2>1. /\ v \in Worker /\ v.pc = p /\ v.set = w.set /\ v.last = w.last /\ v.total = k
        /\ v.chunk = w.chunk /\ v.parts = w.parts /\ v.singles = w.singles
        /\ v.coerced = w.coerced
    BY <1>1 DEF Worker
  <2> HIDE DEF v
  <2>2. worker'[r] = v /\ Alone(r)
    BY <1>3, <1>5 DEF v
  <2>3. Resting(v)
    BY <1>4, <2>1 DEF Resting
  <2>4. v.pc \in {"ready", "looping", "erred", "copied"}
    BY <2>1
  <2>5. GoesOn(r)
    BY <1>4, <1>5, <2>1, <2>2, <2>3, <2>4 DEF GoesOn
  <2>6. QED
    BY <2>2, <2>5
<1>6. ASSUME NEW p, Become(r, [w EXCEPT !.pc = p])
      PROVE  Become(r, [w EXCEPT !.pc = p, !.total = w.total]) /\ w.total \in Nat
  <2>1. [w EXCEPT !.pc = p] = [w EXCEPT !.pc = p, !.total = w.total]
    BY <1>1 DEF Worker
  <2>2. w.total \in Nat
    BY <1>1 DEF Worker
  <2>3. QED
    BY <1>6, <2>1, <2>2
<1>7. ASSUME NEW u \in Worker, NEW st, Become(r, over), Save(u, st), u.last = w.last,
             w.pc \in {"taken", "erred", "copied"},
             \/ u.total = w.total /\ events' = events
             \/ st = "completed" /\ events' = events \cup {"skipped"}
      PROVE  Alone(r) /\ Leaves(r)
  <2>1. worker'[r] = over /\ Alone(r)
    BY <1>3, <1>7
  <2>2. task'.cursor = u.last /\ task'.count = u.total /\ task'.status = st
    BY <1>7 DEF Save
  <2>3. QED
    BY <1>4, <1>7, <2>1, <2>2 DEF Leaves
<1>8. CASE CountRows(r)
  <2>1. w.pc = "taken"
    BY <1>8 DEF CountRows
  <2>2. \/ Save(w, "failed") /\ Become(r, over) /\ events' = events
        \/ /\ Save([w EXCEPT !.total = 0], "completed") /\ Become(r, over)
           /\ events' = events \cup {"skipped"}
        \/ Become(r, [w EXCEPT !.pc = "ready"]) /\ task' = task /\ events' = events
    BY <1>8 DEF CountRows, Note
  <2>3. CASE Save(w, "failed") /\ Become(r, over) /\ events' = events
    BY <1>1, <1>2, <1>7, <2>1, <2>3
  <2>4. CASE /\ Save([w EXCEPT !.total = 0], "completed") /\ Become(r, over)
             /\ events' = events \cup {"skipped"}
    <3>1. [w EXCEPT !.total = 0] \in Worker /\ [w EXCEPT !.total = 0].last = w.last
      BY <1>1 DEF Worker
    <3>2. QED
      BY <1>2, <1>7, <2>1, <2>4, <3>1
  <2>5. CASE Become(r, [w EXCEPT !.pc = "ready"]) /\ task' = task /\ events' = events
    <3>1. StageRank["ready"] < StageRank[w.pc]
      BY <2>1 DEF StageRank
    <3>2. QED
      BY <1>2, <1>5, <1>6, <2>5, <3>1
  <2>6. QED
    BY <2>2, <2>3, <2>4, <2>5
<1>9. CASE Prepare(r)
  <2>1. w.pc = "ready" /\ task' = task
    BY <1>9 DEF Prepare
  <2>2. \/ Become(r, [w EXCEPT !.pc = "looping"]) /\ events' = events
        \/ /\ Become(r, [w EXCEPT !.pc = "erred", !.total = 0])
           /\ events' = events \cup IF w.total > 0 THEN {"reset"} ELSE {}
    BY <1>9 DEF Prepare, Note
  <2>3. StageRank["looping"] < StageRank[w.pc] /\ StageRank["erred"] < StageRank[w.pc]
    BY <2>1 DEF StageRank
  <2>4. CASE Become(r, [w EXCEPT !.pc = "looping"]) /\ events' = events
    BY <1>2, <1>5, <1>6, <2>1, <2>3, <2>4
  <2>5. CASE /\ Become(r, [w EXCEPT !.pc = "erred", !.total = 0])
             /\ events' = events \cup IF w.total > 0 THEN {"reset"} ELSE {}
    <3>1. w.total \in Nat
      BY <1>1 DEF Worker
    <3>2. 0 = w.total \/ "reset" \in events'
      BY <2>5, <3>1
    <3>3. "skipped" \in events' => "skipped" \in events
      BY <2>5
    <3>4. QED
      BY <1>2, <1>5, <2>1, <2>3, <2>5, <3>2, <3>3
  <2>6. QED
    BY <2>2, <2>4, <2>5
<1>10. CASE ReadFails(r) \/ ReachCap(r) \/ (Read(r) /\ Ahead(w) = {})
  <2>1. w.pc = "looping" /\ task' = task
    BY <1>10 DEF ReadFails, ReachCap, Read
  <2>2. PICK p \in {"erred", "copied"} : Become(r, [w EXCEPT !.pc = p])
    BY <1>10 DEF ReadFails, ReachCap, Read
  <2>3. StageRank[p] < StageRank[w.pc]
    BY <2>1 DEF StageRank
  <2>4. "skipped" \in events' => "skipped" \in events
    <3>1. CASE ReadFails(r) \/ Read(r)
      BY <3>1 DEF ReadFails, Read, history
    <3>2. CASE ReachCap(r)
      BY <3>2 DEF ReachCap, Note
    <3>3. QED
      BY <1>10, <3>1, <3>2
  <2>5. QED
    BY <1>2, <1>5, <1>6, <2>1, <2>2, <2>3, <2>4
<1>11. CASE GiveUp(r) \/ Complete(r)
  <2>1. w.pc \in {"erred", "copied"} /\ Become(r, over) /\ events' = events
    BY <1>11 DEF GiveUp, Complete, history
  <2>2. PICK st : Save(w, st)
    BY <1>11 DEF GiveUp, Complete
  <2>3. QED
    BY <1>1, <1>2, <1>7, <2>1, <2>2
<1>12. QED
  BY <1>8, <1>9, <1>10, <1>11

LEMMA ReadEffect ==
  ASSUME TypeOK, NEW r \in Runs, Tidy(worker[r]), Read(r), Ahead(worker[r]) # {}
  PROVE  /\ Alone(r) /\ UNCHANGED <<dest, logged, common, faults>>
         /\ \E c \in SUBSET Rows : Reads(r, c)
<1> DEFINE w == worker[r]
           b == EffectiveBatch(w)
<1>1. w \in Worker /\ worker \in [Runs -> Worker]
  BY DEF TypeOK
<1>2. /\ UNCHANGED <<dest, logged, common, faults>> /\ UNCHANGED runVars
      /\ task' = task /\ events' = events /\ w.pc = "looping" /\ b > 0
  BY DEF Read, dataVars, history
<1>3. Resting(w)
  BY <1>2 DEF Tidy, Resting
<1>4. PICK c \in Firsts(Ahead(w), b) \cup IF Cardinality(Ahead(w)) < b THEN {Ahead(w)} ELSE {} :
        Become(r, [w EXCEPT !.pc = "writing", !.chunk = c, !.parts = {c},
                            !.short = Short(c, b), !.late = FALSE])
  BY DEF Read
<1>5. /\ w.last \in Int /\ w.total \in Nat /\ w.set.cap \in Nat /\ w.set.batch \in Nat
      /\ w.set.batch > 0 /\ w.set.range \subseteq Rows
  BY <1>1, WorkerSets
<1>6. Ahead(w) \subseteq w.set.range /\ \A x \in Ahead(w) : w.last < x
  BY <1>5 DEF Ahead, Rows
<1>7. c \subseteq Ahead(w) /\ (Cardinality(c) = b \/ (c = Ahead(w) /\ Cardinality(c) < b))
  <2> HIDE DEF b
  <2>1. CASE c \in Firsts(Ahead(w), b)
    BY <2>1 DEF Firsts
  <2>2. CASE Cardinality(Ahead(w)) < b /\ c = Ahead(w)
    BY <2>2
  <2>3. c \in Firsts(Ahead(w), b) \/ (Cardinality(Ahead(w)) < b /\ c = Ahead(w))
    BY <1>4
  <2>4. QED
    BY <2>1, <2>2, <2>3
<1>8. b \in Nat /\ (w.set.cap > 0 => w.total + b <= w.set.cap)
  BY <1>2, <1>5 DEF EffectiveBatch
<1>9. c \subseteq Rows /\ Cardinality(c) \in Nat
  BY <1>5, <1>6, <1>7, RowsAreFinite
<1>10. c # {}
  <2>1. CASE Cardinality(c) = b
    <3>1. Cardinality(c) # 0
      BY <1>2, <1>8, <2>1
    <3>2. QED
      BY <3>1, FS_EmptySet
  <2>2. CASE c = Ahead(w)
    BY <2>2
  <2>3. QED
    BY <1>7, <2>1, <2>2
<1>11. w.set.cap > 0 => w.total + Cardinality(c) <= w.set.cap
  <2> HIDE DEF b
  <2>1. Cardinality(c) <= b
    BY <1>7, <1>8, <1>9
  <2>2. QED
    BY <1>5, <1>8, <1>9, <2>1
<1> DEFINE v == [w EXCEPT !.pc = "writing", !.chunk = c, !.parts = {c},
                          !.short = Short(c, b), !.late = FALSE]
<1>12. /\ v.pc = "writing" /\ v.set = w.set /\ v.last = w.last /\ v.total = w.total
       /\ v.chunk = c /\ v.parts = {c} /\ v.singles = w.singles /\ v.coerced = w.coerced
       /\ v.late = FALSE
  BY <1>1 DEF Worker
<1>13. v \in Worker
  <2>1. Short(c, b) \in BOOLEAN
    BY DEF Short
  <2>2. \A s \in BOOLEAN, d \in SUBSET Rows :
          [w EXCEPT !.pc = "writing", !.chunk = d, !.parts = {d}, !.short = s, !.late = FALSE]
            \in Worker
    BY <1>1 DEF Worker
  <2>3. QED
    BY <1>9, <2>1, <2>2
<1>14. worker'[r] = v /\ Alone(r)
  BY <1>1, <1>2, <1>4 DEF Become, Alone
<1> HIDE DEF v
<1>15. Reads(r, c)
  <2>1. v.singles = {} /\ ~ v.coerced
    BY <1>3, <1>12 DEF Resting
  <2>2. c \subseteq w.set.range /\ \A x \in c : w.last < x
    BY <1>6, <1>7
  <2>3. QED
    BY <1>2, <1>3, <1>10, <1>11, <1>12, <1>13, <1>14, <2>1, <2>2 DEF Reads
<1>16. QED
  BY <1>2, <1>9, <1>14, <1>15

LEMMA ChunkEffect ==
  ASSUME TypeOK, NEW r \in Runs, ChunkDone(r)
  PROVE  /\ Alone(r) /\ UNCHANGED <<dest, logged, common, faults>>
         /\ \E c \in Rows : EndsChunk(r, c)
<1> DEFINE w == worker[r]
           capped == w.set.cap > 0 /\ w.total >= w.set.cap
           stage == IF capped \/ w.short THEN "copied" ELSE "looping"
<1>1. w \in Worker /\ worker \in [Runs -> Worker]
  BY DEF TypeOK
<1>2. /\ UNCHANGED <<dest, logged, common, faults>> /\ UNCHANGED runVars
      /\ w.pc = "writing" /\ w.parts = {} /\ w.singles = {}
      /\ events' = events \cup IF capped THEN {"capped"} ELSE {}
  BY DEF ChunkDone, Note, dataVars
<1>3. PICK c \in w.chunk :
        /\ \A x \in w.chunk : x <= c
        /\ \E v \in {[w EXCEPT !.last = c, !.chunk = {}, !.late = FALSE, !.short = FALSE,
                               !.pc = stage]} :
             \/ Become(r, [v EXCEPT !.saved = TRUE]) /\ Save(v, "running")
             \/ w.saved /\ Become(r, v) /\ UNCHANGED task
  BY DEF ChunkDone
<1> DEFINE v == [w EXCEPT !.last = c, !.chunk = {}, !.late = FALSE, !.short = FALSE,
                          !.pc = stage]
<1>4. \/ Become(r, [v EXCEPT !.saved = TRUE]) /\ Save(v, "running")
      \/ Become(r, v) /\ task' = task
  BY <1>3
<1>5. c \in Rows /\ c \in 0 .. N
  BY <1>1, CopyAssumption DEF Worker, Rows
<1> HIDE DEF capped
<1>6. /\ v \in Worker /\ v.pc = stage /\ v.set = w.set /\ v.last = c /\ v.total = w.total
      /\ v.chunk = {} /\ v.parts = w.parts /\ v.singles = w.singles /\ v.coerced = w.coerced
  BY <1>1, <1>5 DEF Worker
<1>7. stage \in {"looping", "copied"}
  OBVIOUS
<1> HIDE DEF v, stage
<1> DEFINE u == [v EXCEPT !.saved = TRUE]
<1>8. /\ u \in Worker /\ u.pc = v.pc /\ u.set = v.set /\ u.last = v.last /\ u.total = v.total
      /\ u.chunk = v.chunk /\ u.parts = v.parts /\ u.singles = v.singles
      /\ u.coerced = v.coerced
  BY <1>6 DEF Worker
<1> HIDE DEF u
<1>9. worker'[r] \in {v, u} /\ Alone(r)
  BY <1>1, <1>2, <1>4 DEF Become, Alone, u
<1>10. task' = task \/ task'.status = "running"
  BY <1>4 DEF Save
<1>11. "skipped" \in events' => "skipped" \in events
  BY <1>2
<1>12. EndsChunk(r, c)
  <2>1. CASE worker'[r] = v
    BY <1>2, <1>3, <1>6, <1>7, <1>10, <1>11, <2>1 DEF EndsChunk
  <2>2. CASE worker'[r] = u
    BY <1>2, <1>3, <1>6, <1>7, <1>8, <1>10, <1>11, <2>2 DEF EndsChunk
  <2>3. QED
    BY <1>9, <2>1, <2>2
<1>13. QED
  BY <1>2, <1>5, <1>9, <1>12

\* The clock runs out.
Ages(r) ==
  LET w == worker[r]
      v == worker'[r]
  IN /\ v \in Worker /\ v.pc = w.pc /\ v.set = w.set /\ v.last = w.last /\ v.chunk = w.chunk
     /\ v.total = w.total /\ v.parts = w.parts /\ v.singles = w.singles
     /\ v.coerced = w.coerced /\ v.late

LEMMA ExpireEffect ==
  ASSUME TypeOK, NEW r \in Runs, Expire(r)
  PROVE  /\ Alone(r) /\ UNCHANGED <<dest, logged, common, faults, task, events>>
         /\ worker[r].pc = "writing" /\ Ages(r)
         /\ worker'[r] = [worker[r] EXCEPT !.late = TRUE]
<1> DEFINE w == worker[r]
           v == [w EXCEPT !.late = TRUE]
<1>1. w \in Worker /\ worker \in [Runs -> Worker]
  BY DEF TypeOK
<1>2. /\ v \in Worker /\ v.pc = w.pc /\ v.set = w.set /\ v.last = w.last /\ v.chunk = w.chunk
      /\ v.total = w.total /\ v.parts = w.parts /\ v.singles = w.singles
      /\ v.coerced = w.coerced /\ v.late = TRUE
  BY <1>1 DEF Worker
<1> HIDE DEF v
<1>3. worker' = [worker EXCEPT ![r] = v]
  BY DEF Expire, v
<1>4. worker'[r] = v /\ \A q \in Runs : q # r => worker'[q] = worker[q]
  BY <1>1, <1>3
<1>5. UNCHANGED <<dest, logged, common, faults, task, events>> /\ UNCHANGED runVars
      /\ w.pc = "writing"
  BY DEF Expire, dataVars, history
<1>6. QED
  BY <1>2, <1>4, <1>5 DEF Alone, Ages, v

\* A launch.
LEMMA LaunchEffect ==
  ASSUME TypeOK, main = "on", n \in Runs, Launch
  PROVE  /\ UNCHANGED runVars /\ UNCHANGED <<dest, logged, common, faults, events>>
         /\ \A q \in Runs : q # n => worker'[q] = worker[q]
         /\ worker[n].pc = "none" /\ snap.status # "completed"
         /\ worker'[n] \in Worker /\ Resting(worker'[n]) /\ worker'[n].pc \in {"taken", "ready"}
         /\ worker'[n].last = snap.cursor /\ worker'[n].total = snap.count
         /\ task'.cursor = snap.cursor /\ task'.status = "running"
<1>1. /\ worker \in [Runs -> Worker] /\ snap \in Task /\ settings \in Settings
  BY DEF TypeOK
<1>2. /\ UNCHANGED runVars /\ UNCHANGED <<dest, logged, common, faults, events>>
      /\ worker[n].pc = "none" /\ snap.status # "completed"
      /\ task' = [snap EXCEPT !.status = "running"]
  BY DEF Launch, dataVars, history
<1>3. PICK p \in {"taken", "ready"} :
        worker' = [worker EXCEPT ![n] =
          [NoWorker EXCEPT !.pc = p, !.set = Effective(settings),
                           !.last = snap.cursor, !.total = snap.count]]
  BY DEF Launch
<1> DEFINE v == [NoWorker EXCEPT !.pc = p, !.set = Effective(settings),
                                 !.last = snap.cursor, !.total = snap.count]
<1>4. v \in Worker
  BY <1>1, NoWorkerIsWorker, EffectiveIsSetting DEF Worker, Task
<1>5. /\ v.pc = p /\ v.last = snap.cursor /\ v.total = snap.count
      /\ v.chunk = {} /\ v.parts = {} /\ v.singles = {} /\ v.coerced = FALSE
  BY DEF NoWorker
<1> HIDE DEF v
<1>6. worker'[n] = v /\ \A q \in Runs : q # n => worker'[q] = worker[q]
  BY <1>1, <1>3 DEF v
<1>7. Resting(v)
  BY <1>5 DEF Resting
<1>8. task'.cursor = snap.cursor /\ task'.status = "running"
  BY <1>1, <1>2 DEF Task
<1>9. QED
  BY <1>2, <1>4, <1>5, <1>6, <1>7, <1>8

\* Every step of a worker is one of these.
LEMMA StepEffect ==
  ASSUME TypeOK, NEW r \in Runs, Tidy(worker[r]), WorkerStep(r)
  PROVE  /\ Alone(r) /\ common' = common
         /\ \/ /\ UNCHANGED <<dest, logged, faults>>
               /\ \/ GoesOn(r) \/ Leaves(r)
                  \/ \E c \in SUBSET Rows : Reads(r, c)
                  \/ \E c \in Rows : EndsChunk(r, c)
            \/ /\ worker[r].pc = "writing" /\ UNCHANGED <<task, logged>>
               /\ \E P \in worker[r].parts :
                    Leftmost(worker[r], P) /\ (PartDone(r, P) \/ PartSorted(r, P))
            \/ /\ worker[r].pc = "writing" /\ task' = task
               /\ \E x \in worker[r].singles :
                    Leftmost(worker[r], {x}) /\ (RowDone(r, x) \/ RowTried(r, x))
<1>1. CASE Read(r)
  BY <1>1, TurnEffect, ReadEffect
<1>2. CASE CountRows(r) \/ Prepare(r) \/ ReadFails(r) \/ ReachCap(r) \/ GiveUp(r) \/ Complete(r)
  BY <1>2, TurnEffect
<1>3. CASE ChunkDone(r)
  BY <1>3, ChunkEffect
<1>4. CASE WritePart(r)
  BY <1>4, PartEffect
<1>5. CASE WriteRow(r)
  BY <1>5, RowEffect
<1>6. QED
  BY <1>1, <1>2, <1>3, <1>4, <1>5 DEF WorkerStep

LEMMA WorkerEffect ==
  ASSUME TypeOK, NEW r \in Runs, Tidy(worker[r]), WorkerStep(r) \/ Expire(r)
  PROVE  /\ Alone(r) /\ common' = common
         /\ \/ /\ UNCHANGED <<dest, logged, faults>>
               /\ \/ GoesOn(r) \/ Leaves(r)
                  \/ \E c \in SUBSET Rows : Reads(r, c)
                  \/ \E c \in Rows : EndsChunk(r, c)
                  \/ worker[r].pc = "writing" /\ Ages(r) /\ UNCHANGED <<task, events>>
            \/ /\ worker[r].pc = "writing" /\ UNCHANGED <<task, logged>>
               /\ \E P \in worker[r].parts :
                    Leftmost(worker[r], P) /\ (PartDone(r, P) \/ PartSorted(r, P))
            \/ /\ worker[r].pc = "writing" /\ task' = task
               /\ \E x \in worker[r].singles :
                    Leftmost(worker[r], {x}) /\ (RowDone(r, x) \/ RowTried(r, x))
<1>1. CASE Expire(r)
  BY <1>1, ExpireEffect
<1>2. CASE WorkerStep(r)
  BY <1>2, StepEffect
<1>3. QED
  BY <1>1, <1>2

-----------------------------------------------------------------------------
\* The writer's bookkeeping stays in order.

LEMMA RestingIsTidy ==
  ASSUME NEW w, Resting(w)
  PROVE  Tidy(w) /\ CapLeft(w)
BY DEF Resting, Tidy, CapLeft

LEMMA OverRests ==
  Resting([NoWorker EXCEPT !.pc = "over"]) /\ [NoWorker EXCEPT !.pc = "over"].pc = "over"
BY DEF Resting, NoWorker

LEMMA EffectTidy ==
  ASSUME TypeOK, NEW r \in Runs, Tidy(worker[r]), CapLeft(worker[r]), WorkerStep(r) \/ Expire(r)
  PROVE  Tidy(worker'[r]) /\ CapLeft(worker'[r])
<1> DEFINE w == worker[r]
           v == worker'[r]
<1>1. w \in Worker
  BY DEF TypeOK
<1>2. Untried(w) \subseteq Rows /\ Cardinality(Untried(w)) \in Nat /\ w.total \in Nat
      /\ w.set.cap \in Nat
  BY <1>1, WorkerSets, RowsAreFinite
<1>3. CASE GoesOn(r) \/ Leaves(r)
  BY <1>3, RestingIsTidy, OverRests DEF GoesOn, Leaves
<1>4. ASSUME NEW c \in SUBSET Rows, Reads(r, c)
      PROVE  Tidy(v) /\ CapLeft(v)
  <2>1. Untried(v) = c
    BY <1>4 DEF Reads, Untried
  <2>2. Tidy(v)
    BY <1>4, <2>1 DEF Reads, Tidy
  <2>3. CapLeft(v)
    BY <1>4, <2>1 DEF Reads, CapLeft
  <2>4. QED
    BY <2>2, <2>3
<1>5. ASSUME NEW c \in Rows, EndsChunk(r, c)
      PROVE  Tidy(v) /\ CapLeft(v)
  <2>1. ~ w.coerced
    BY <1>5 DEF EndsChunk, Tidy
  <2>2. Resting(v)
    BY <1>5, <2>1 DEF EndsChunk, Resting
  <2>3. QED
    BY <2>2, RestingIsTidy
<1>6. CASE w.pc = "writing" /\ Ages(r)
  <2>1. Untried(v) = Untried(w) /\ \A x : Leftmost(w, {x}) => Leftmost(v, {x})
    BY <1>6 DEF Ages, Untried, Leftmost
  <2>2. Tidy(v)
    BY <1>6, <2>1 DEF Ages, Tidy
  <2>3. CapLeft(v)
    BY <1>6, <2>1 DEF Ages, CapLeft
  <2>4. QED
    BY <2>2, <2>3
<1>7. ASSUME w.pc = "writing", NEW P \in w.parts, Leftmost(w, P), PartDone(r, P)
      PROVE  Tidy(v) /\ CapLeft(v)
  <2>1. /\ SameChunk(w, v) /\ v.parts = w.parts \ {P} /\ v.singles = w.singles
        /\ v.coerced = w.coerced /\ v.total = w.total + Cardinality(P)
    BY <1>7 DEF PartDone
  <2>2. Tidy(v) /\ Cardinality(Untried(v)) = Cardinality(Untried(w)) - Cardinality(P)
    BY <1>1, <1>7, <2>1, PartLeaves
  <2>3. Cardinality(P) \in Nat
    BY <1>1, RowsAreFinite DEF Worker
  <2>4. CapLeft(v)
    <3>1. v.set = w.set /\ v.pc = w.pc
      BY <2>1 DEF SameChunk
    <3>2. v.total + Cardinality(Untried(v)) = w.total + Cardinality(Untried(w))
      BY <1>2, <2>1, <2>2, <2>3
    <3>3. QED
      BY <1>7, <3>1, <3>2 DEF CapLeft
  <2>5. QED
    BY <2>2, <2>4
<1>8. ASSUME w.pc = "writing", NEW P \in w.parts, Leftmost(w, P), PartSorted(r, P)
      PROVE  Tidy(v) /\ CapLeft(v)
  <2>1. Sorts(w, v, P)
    BY <1>8 DEF PartSorted
  <2>2. Tidy(v) /\ Untried(v) = Untried(w)
    BY <1>1, <1>8, <2>1, SortsKeeps
  <2>3. CapLeft(v)
    BY <1>8, <2>1, <2>2 DEF Sorts, SameChunk, CapLeft
  <2>4. QED
    BY <2>2, <2>3
<1>9. ASSUME w.pc = "writing", NEW x \in w.singles, Leftmost(w, {x}), RowDone(r, x)
      PROVE  Tidy(v) /\ CapLeft(v)
  <2>1. /\ SameChunk(w, v) /\ v.parts = w.parts /\ v.singles = w.singles \ {x}
        /\ ~ v.coerced /\ v.total = w.total + 1
    BY <1>9 DEF RowDone
  <2>2. Tidy(v) /\ Cardinality(Untried(v)) = Cardinality(Untried(w)) - 1
    BY <1>1, <1>9, <2>1, RowLeaves
  <2>3. CapLeft(v)
    <3>1. v.set = w.set /\ v.pc = w.pc
      BY <2>1 DEF SameChunk
    <3>2. v.total + Cardinality(Untried(v)) = w.total + Cardinality(Untried(w))
      BY <1>2, <2>1, <2>2
    <3>3. QED
      BY <1>9, <3>1, <3>2 DEF CapLeft
  <2>4. QED
    BY <2>2, <2>3
<1>10. ASSUME w.pc = "writing", NEW x \in w.singles, Leftmost(w, {x}), RowTried(r, x)
       PROVE  Tidy(v) /\ CapLeft(v)
  <2>1. /\ SameChunk(w, v) /\ v.parts = w.parts /\ v.total = w.total
        /\ \/ ~ v.coerced /\ v.singles = w.singles \ {x}
           \/ v.coerced /\ v.singles = w.singles
    BY <1>10 DEF RowTried
  <2>2. Tidy(v) /\ \/ Cardinality(Untried(v)) = Cardinality(Untried(w)) - 1
                   \/ Cardinality(Untried(v)) = Cardinality(Untried(w))
    BY <1>1, <1>10, <2>1, RowLeaves, CoercionKeeps
  <2>3. CapLeft(v)
    <3>1. v.set = w.set /\ v.pc = w.pc
      BY <2>1 DEF SameChunk
    <3>2. v.total + Cardinality(Untried(v)) <= w.total + Cardinality(Untried(w))
      BY <1>2, <2>1, <2>2
    <3>3. w.set.cap > 0 => w.total + Cardinality(Untried(w)) <= w.set.cap
      BY <1>10 DEF CapLeft
    <3>4. w.set.cap > 0 => v.total + Cardinality(Untried(v)) <= w.set.cap
      BY <1>2, <2>1, <2>2, <3>2, <3>3
    <3>5. QED
      BY <3>1, <3>4 DEF CapLeft
  <2>4. QED
    BY <2>2, <2>3
<1>11. QED
  BY <1>3, <1>4, <1>5, <1>6, <1>7, <1>8, <1>9, <1>10, WorkerEffect

LEMMA StepIsLive ==
  ASSUME TypeOK, NEW r \in Runs, Tidy(worker[r]), WorkerStep(r) \/ Expire(r)
  PROVE  Live(r)
BY WorkerEffect DEF GoesOn, Leaves, Reads, EndsChunk, Live

LEMMA NextTidy ==
  ASSUME TypeOK, TidyInv, [Next]_vars
  PROVE  TidyInv'
<1> USE DEF jobVars, runVars, dataVars, history
<1>1. n \in Nat /\ MaxRuns \in Nat
  BY CopyAssumption DEF TypeOK
<1>2. CASE Start
  <2>1. worker' = worker /\ n' = n + 1 /\ n < MaxRuns
    BY <1>2 DEF Start
  <2>2. n' \in Runs /\ \A r \in Runs : r > n' => r > n
    BY <1>1, <2>1 DEF Runs
  <2>3. QED
    BY <2>1, <2>2 DEF TidyInv
<1>3. CASE Launch
  <2>1. main = "on" /\ n \in Runs
    BY <1>3 DEF Launch, TidyInv
  <2>2. /\ Resting(worker'[n]) /\ n' = n /\ main' = main
        /\ \A q \in Runs : q # n => worker'[q] = worker[q]
    BY <1>3, <2>1, LaunchEffect
  <2>3. \A q \in Runs : Tidy(worker'[q]) /\ CapLeft(worker'[q])
    BY <2>2, RestingIsTidy DEF TidyInv
  <2>4. \A q \in Runs : q > n => worker'[q].pc = "none"
    BY <1>1, <2>2 DEF TidyInv
  <2>5. QED
    BY <2>1, <2>2, <2>3, <2>4 DEF TidyInv
<1>4. CASE Stop \/ Return \/ Finish \/ Patch \/ UNCHANGED vars
  <2>1. worker' = worker /\ n' = n /\ (main' = "on" => main = "on")
    BY <1>4 DEF Stop, Return, Finish, Patch, vars
  <2>2. QED
    BY <2>1 DEF TidyInv
<1>5. ASSUME NEW r \in Runs, WorkerStep(r) \/ Expire(r)
      PROVE  TidyInv'
  <2>1. Tidy(worker[r]) /\ CapLeft(worker[r])
    BY DEF TidyInv
  <2>2. Tidy(worker'[r]) /\ CapLeft(worker'[r]) /\ Live(r)
    BY <1>5, <2>1, EffectTidy, StepIsLive
  <2>3. n' = n /\ main' = main /\ \A q \in Runs : q # r => worker'[q] = worker[q]
    BY <1>5, <2>1, WorkerEffect DEF Alone
  <2>4. ~ (r > n)
    BY <2>2 DEF TidyInv, Live
  <2>5. QED
    BY <2>2, <2>3, <2>4 DEF TidyInv
<1>6. QED
  BY <1>2, <1>3, <1>4, <1>5 DEF Next

LEMMA InitTidy == Init => TidyInv
BY DEF Init, TidyInv, Tidy, CapLeft, NoWorker

-----------------------------------------------------------------------------
\* Every step counts.

Unread(w) == {x \in w.set.range \ w.chunk : x > w.last}

LEMMA WorkLeftIs ==
  ASSUME NEW w \in Worker
  PROVE  /\ WorkLeft(w) = StageRank[w.pc] + 5 * Cardinality(Unread(w)) + Load(w)
                          - IF w.coerced THEN 1 ELSE 0
         /\ StageRank[w.pc] \in Nat /\ IsFiniteSet(Unread(w))
         /\ Cardinality(Unread(w)) \in Nat /\ Load(w) \in Int
<1>1. Unread(w) \subseteq Rows /\ UNION w.parts \subseteq Rows /\ w.singles \subseteq Rows
      /\ Cardinality(w.parts) \in Nat
  BY WorkerSets DEF Unread
<1>2. IsFiniteSet(Unread(w)) /\ Cardinality(Unread(w)) \in Nat
      /\ Cardinality(UNION w.parts) \in Nat /\ Cardinality(w.singles) \in Nat
  BY <1>1, RowsAreFinite
<1>3. StageRank[w.pc] \in Nat
  BY DEF Worker, StageRank
<1>4. Load(w) \in Int
  BY <1>1, <1>2 DEF Load
<1>5. WorkLeft(w) = StageRank[w.pc] + 5 * Cardinality(Unread(w)) + Load(w)
                    - IF w.coerced THEN 1 ELSE 0
  <2>1. \A a, b, c, d, e \in Int, f \in {0, 1} :
          a + 5 * b + 4 * c - d + 2 * e - f = a + 5 * b + (4 * c - d + 2 * e) - f
    OBVIOUS
  <2>2. WorkLeft(w) = StageRank[w.pc] + 5 * Cardinality(Unread(w))
                      + 4 * Cardinality(UNION w.parts) - Cardinality(w.parts)
                      + 2 * Cardinality(w.singles) - IF w.coerced THEN 1 ELSE 0
    BY DEF WorkLeft, Unread
  <2>3. (IF w.coerced THEN 1 ELSE 0) \in {0, 1}
    OBVIOUS
  <2>4. QED
    BY <1>1, <1>2, <1>3, <2>1, <2>2, <2>3 DEF Load
<1>6. QED
  BY <1>2, <1>3, <1>4, <1>5

LEMMA StepCounts ==
  ASSUME TypeOK, TypeOK', NEW r \in Runs, Tidy(worker[r]), WorkerStep(r)
  PROVE  WorkLeft(worker'[r]) < WorkLeft(worker[r])
<1> DEFINE w == worker[r]
           v == worker'[r]
<1>1. w \in Worker /\ v \in Worker
  BY DEF TypeOK
<1> DEFINE cw == IF w.coerced THEN 1 ELSE 0
           cv == IF v.coerced THEN 1 ELSE 0
           uw == Cardinality(Unread(w))
           uv == Cardinality(Unread(v))
<1>2. /\ WorkLeft(w) = StageRank[w.pc] + 5 * uw + Load(w) - cw
      /\ WorkLeft(v) = StageRank[v.pc] + 5 * uv + Load(v) - cv
      /\ StageRank[w.pc] \in Nat /\ StageRank[v.pc] \in Nat /\ uw \in Nat /\ uv \in Nat
      /\ Load(w) \in Int /\ Load(v) \in Int
  BY <1>1, WorkLeftIs
<1>3. cw \in {0, 1} /\ cv \in {0, 1} /\ (~ w.coerced => cw = 0) /\ (~ v.coerced => cv = 0)
      /\ (w.coerced => cw = 1) /\ (v.coerced => cv = 1)
  OBVIOUS
<1>4. v.set = w.set /\ v.chunk = w.chunk /\ v.last = w.last => uv = uw
  BY DEF Unread
<1>5. v.parts = w.parts /\ v.singles = w.singles => Load(v) = Load(w)
  BY DEF Load
<1>6. v.pc = w.pc => StageRank[v.pc] = StageRank[w.pc]
  OBVIOUS
<1>7. v.coerced = w.coerced => cv = cw
  OBVIOUS
<1>8. ASSUME NEW u, u.parts = {}, u.singles = {}
      PROVE  Load(u) = 0
  <2>1. Cardinality({}) = 0
    BY FS_EmptySet
  <2>2. UNION u.parts = {}
    BY <1>8
  <2>3. QED
    BY <1>8, <2>1, <2>2 DEF Load
<1> HIDE DEF w, v, cw, cv, uw, uv
<1>9. CASE GoesOn(r)
  <2>1. /\ Resting(w) /\ Resting(v) /\ StageRank[v.pc] < StageRank[w.pc]
        /\ v.set = w.set /\ v.last = w.last
    BY <1>9 DEF GoesOn, w, v
  <2>2. uv = uw /\ Load(v) = Load(w) /\ cv = 0 /\ cw = 0
    BY <1>3, <1>4, <1>5, <2>1 DEF Resting
  <2>3. QED
    BY <1>2, <2>1, <2>2 DEF w, v
<1>10. CASE Leaves(r)
  <2>1. Resting(w) /\ w.pc \in {"taken", "erred", "copied"} /\ v = [NoWorker EXCEPT !.pc = "over"]
    BY <1>10 DEF Leaves, w, v
  <2>2. /\ v.set.range = {} /\ v.parts = {} /\ v.singles = {} /\ v.pc = "over" /\ ~ v.coerced
    BY <2>1 DEF NoWorker
  <2>3. uv = 0
    <3>1. Unread(v) = {}
      BY <2>2 DEF Unread
    <3>2. QED
      BY <3>1, FS_EmptySet DEF uv
  <2>4. Load(v) = 0 /\ Load(w) = 0
    BY <1>8, <2>1, <2>2 DEF Resting
  <2>5. StageRank[v.pc] = 0 /\ StageRank[w.pc] >= 1
    BY <2>1, <2>2 DEF StageRank
  <2>6. cv = 0 /\ cw = 0
    BY <1>3, <2>1, <2>2 DEF Resting
  <2>7. QED
    BY <1>2, <2>3, <2>4, <2>5, <2>6 DEF w, v
<1>11. ASSUME NEW c \in SUBSET Rows, Reads(r, c)
       PROVE  WorkLeft(v) < WorkLeft(w)
  <2>1. /\ Resting(w) /\ w.pc = "looping"
        /\ c # {} /\ c \subseteq w.set.range /\ \A x \in c : w.last < x
        /\ v.pc = "writing" /\ v.set = w.set /\ v.last = w.last
        /\ v.chunk = c /\ v.parts = {c} /\ v.singles = {} /\ ~ v.coerced
    BY <1>11 DEF Reads, w, v
  <2>2. Cardinality(c) \in Nat /\ Cardinality(c) # 0
    <3>1. IsFiniteSet(c) /\ Cardinality(c) \in Nat
      BY RowsAreFinite
    <3>2. QED
      BY <2>1, <3>1, FS_EmptySet
  <2>3. uv = uw - Cardinality(c)
    <3>1. IsFiniteSet(Unread(w)) /\ w.last \in Int /\ w.set.range \subseteq Int
      BY <1>1, WorkLeftIs, WorkerSets DEF Rows
    <3>2. Unread(v) = Unread(w) \ c /\ Unread(w) \cap c = c
      BY <2>1, <3>1 DEF Unread, Resting
    <3>3. Cardinality(Unread(w) \ c) = Cardinality(Unread(w)) - Cardinality(Unread(w) \cap c)
      BY <3>1, FS_Difference
    <3>4. QED
      BY <3>2, <3>3 DEF uv, uw
  <2>4. Load(v) = 4 * Cardinality(c) - 1
    <3>1. UNION v.parts = c
      BY <2>1
    <3>2. Cardinality(v.parts) = 1
      <4>1. v.parts = {c}
        BY <2>1
      <4>2. Cardinality({c}) = 1
        BY FS_Singleton
      <4>3. QED
        BY <4>1, <4>2
    <3>3. Cardinality(v.singles) = 0
      BY <2>1, FS_EmptySet
    <3>4. Cardinality(UNION v.parts) = Cardinality(c)
      BY <3>1, Zenon
    <3>5. QED
      BY <2>2, <3>2, <3>3, <3>4 DEF Load
  <2>5. Load(w) = 0 /\ cv = 0 /\ cw = 0
    BY <1>3, <1>8, <2>1 DEF Resting
  <2>6. StageRank[v.pc] = 4 /\ StageRank[w.pc] = 3
    BY <2>1 DEF StageRank
  <2>7. QED
    BY <1>2, <2>2, <2>3, <2>4, <2>5, <2>6
<1>12. ASSUME NEW c \in Rows, EndsChunk(r, c)
       PROVE  WorkLeft(v) < WorkLeft(w)
  <2>1. /\ w.pc = "writing" /\ w.parts = {} /\ w.singles = {}
        /\ c \in w.chunk /\ \A x \in w.chunk : x <= c
        /\ v.pc \in {"looping", "copied"} /\ v.set = w.set /\ v.last = c
        /\ v.chunk = {} /\ v.parts = {} /\ v.singles = {} /\ v.coerced = w.coerced
    BY <1>12 DEF EndsChunk, w, v
  <2>2. w.last < c
    BY <2>1 DEF Tidy, w
  <2>3. uv <= uw
    <3>1. IsFiniteSet(Unread(w)) /\ w.last \in Int /\ w.set.range \subseteq Int /\ c \in Int
      BY <1>1, WorkLeftIs, WorkerSets DEF Rows
    <3>2. Unread(v) \subseteq Unread(w)
      BY <2>1, <2>2, <3>1 DEF Unread
    <3>3. QED
      BY <3>1, <3>2, FS_Subset DEF uv, uw
  <2>4. Load(v) = 0 /\ Load(w) = 0 /\ cv = cw
    BY <1>7, <1>8, <2>1
  <2>5. StageRank[v.pc] < StageRank[w.pc]
    BY <2>1 DEF StageRank
  <2>6. QED
    BY <1>2, <1>3, <2>3, <2>4, <2>5
<1>13. ASSUME w.pc = "writing", NEW P \in w.parts, Leftmost(w, P),
              PartDone(r, P) \/ PartSorted(r, P)
       PROVE  WorkLeft(v) < WorkLeft(w)
  <2>1. SameChunk(w, v) /\ v.coerced = w.coerced
    BY <1>13 DEF PartDone, PartSorted, Sorts, w, v
  <2>2. Load(v) < Load(w)
    <3>1. CASE PartDone(r, P)
      BY <1>1, <1>13, <2>1, <3>1, PartLeaves DEF PartDone, w, v
    <3>2. CASE PartSorted(r, P)
      BY <1>1, <1>13, <3>2, SortsKeeps DEF PartSorted, w, v
    <3>3. QED
      BY <1>13, <3>1, <3>2
  <2>3. uv = uw /\ cv = cw /\ StageRank[v.pc] = StageRank[w.pc]
    BY <1>4, <1>6, <1>7, <2>1 DEF SameChunk
  <2>4. QED
    BY <1>2, <1>3, <2>2, <2>3
<1>14. ASSUME w.pc = "writing", NEW x \in w.singles, Leftmost(w, {x}),
              RowDone(r, x) \/ RowTried(r, x)
       PROVE  WorkLeft(v) < WorkLeft(w)
  <2>1. SameChunk(w, v) /\ v.parts = w.parts
    BY <1>14 DEF RowDone, RowTried, w, v
  <2>2. uv = uw /\ StageRank[v.pc] = StageRank[w.pc]
    BY <1>4, <1>6, <2>1 DEF SameChunk
  <2>3. \/ ~ v.coerced /\ v.singles = w.singles \ {x}
        \/ ~ w.coerced /\ v.coerced /\ v.singles = w.singles
    BY <1>14 DEF RowDone, RowTried, w, v
  <2>4. CASE ~ v.coerced /\ v.singles = w.singles \ {x}
    <3>1. Load(v) = Load(w) - 2
      BY <1>1, <1>14, <2>1, <2>4, RowLeaves DEF w
    <3>2. QED
      BY <1>2, <1>3, <2>2, <2>4, <3>1
  <2>5. CASE ~ w.coerced /\ v.coerced /\ v.singles = w.singles
    <3>1. Load(v) = Load(w) /\ cv = 1 /\ cw = 0
      BY <1>3, <1>5, <2>1, <2>5
    <3>2. QED
      BY <1>2, <2>2, <3>1
  <2>6. QED
    BY <2>3, <2>4, <2>5
<1>15. QED
  BY <1>9, <1>10, <1>11, <1>12, <1>13, <1>14, StepEffect DEF w, v

\* The writer's bookkeeping stays in order, and no chunk is larger than the
\* row cap allows.
THEOREM TidyInvariant == Spec => [](TypeOK /\ TidyInv)
<1>1. Init => TypeOK /\ TidyInv
  BY InitTypes, InitTidy
<1>2. TypeOK /\ TidyInv /\ [Next]_vars => (TypeOK /\ TidyInv)'
  BY NextTypes, NextTidy
<1>3. QED
  BY <1>1, <1>2, PTL DEF Spec

\* A worker cannot go on for ever: whatever happens beside it, each of its
\* steps leaves it less to read, to write, to split or to try again.
\* (engine.go copyTable, insert_resilient.go)
THEOREM EveryStepTakesFromTheWork == Spec => EveryStepCounts
<1> DEFINE Counts ==
      \A r \in Runs : Live(r) /\ worker'[r] # worker[r] =>
        \/ worker'[r] = [worker[r] EXCEPT !.late = TRUE]
        \/ WorkLeft(worker'[r]) < WorkLeft(worker[r])
<1>1. ASSUME TypeOK, TidyInv, [Next]_vars
      PROVE  Counts
  <2> USE DEF jobVars, runVars, dataVars, history
  <2>1. TypeOK'
    BY <1>1, NextTypes
  <2>2. SUFFICES ASSUME NEW r \in Runs, Live(r), worker'[r] # worker[r]
                 PROVE  \/ worker'[r] = [worker[r] EXCEPT !.late = TRUE]
                        \/ WorkLeft(worker'[r]) < WorkLeft(worker[r])
    OBVIOUS
  <2>3. CASE Launch
    <3>1. main = "on" /\ n \in Runs
      BY <1>1, <2>3 DEF Launch, TidyInv
    <3>2. worker[n].pc = "none" /\ \A q \in Runs : q # n => worker'[q] = worker[q]
      BY <1>1, <2>3, <3>1, LaunchEffect
    <3>3. QED
      BY <2>2, <3>2 DEF Live
  <2>4. CASE Start \/ Stop \/ Return \/ Finish \/ Patch \/ UNCHANGED vars
    BY <2>2, <2>4 DEF Start, Stop, Return, Finish, Patch, vars
  <2>5. ASSUME NEW q \in Runs, WorkerStep(q) \/ Expire(q)
        PROVE  \/ worker'[r] = [worker[r] EXCEPT !.late = TRUE]
               \/ WorkLeft(worker'[r]) < WorkLeft(worker[r])
    <3>1. Tidy(worker[q])
      BY <1>1 DEF TidyInv
    <3>2. q = r
      BY <1>1, <2>2, <2>5, <3>1, WorkerEffect DEF Alone
    <3>3. CASE Expire(q)
      BY <1>1, <3>2, <3>3, ExpireEffect
    <3>4. CASE WorkerStep(q)
      BY <1>1, <2>1, <3>1, <3>2, <3>4, StepCounts
    <3>5. QED
      BY <2>5, <3>3, <3>4
  <2>6. QED
    BY <1>1, <2>3, <2>4, <2>5 DEF Next
<1>2. QED
  BY <1>1, TidyInvariant, PTL DEF Spec, EveryStepCounts, Counts

-----------------------------------------------------------------------------
\* Which rows are given up.

\* What arrived stays, and faults are only counted up.
LEMMA WorkerGrows ==
  ASSUME TypeOK, NEW r \in Runs, Tidy(worker[r]), WorkerStep(r) \/ Expire(r)
  PROVE  faults' >= faults /\ \A x \in Rows : dest[x] > 0 => dest'[x] > 0
<1>1. faults \in Nat /\ dest \in [Rows -> Nat]
  BY DEF TypeOK
<1>2. faults' \in {faults, faults + 1} /\ (dest' = dest \/ \E P : Insert(P))
  <2>1. CASE UNCHANGED <<dest, logged, faults>>
    BY <2>1
  <2>2. CASE \E P \in worker[r].parts : PartDone(r, P) \/ PartSorted(r, P)
    BY <2>2 DEF PartDone, PartSorted
  <2>3. CASE \E x \in worker[r].singles : RowDone(r, x) \/ RowTried(r, x)
    BY <2>3 DEF RowDone, RowTried
  <2>4. QED
    BY <2>1, <2>2, <2>3, WorkerEffect
<1>3. QED
  BY <1>1, <1>2, InsertAdds

\* An excuse stays one while the worker is at its chunk.
LEMMA ExcuseStays ==
  ASSUME NEW r, NEW x \in Rows, NEW k \in Nat, Excuse(r, x, k),
         dest[x] > 0 => dest'[x] > 0, faults \in Nat, faults' \in Nat, faults' >= faults,
         stop[r] => stop'[r], closed[r] => closed'[r],
         worker[r].late => worker'[r].late
  PROVE  Excuse(r, x, k)'
BY DEF Excuse, Dead

LEMMA EffectTries ==
  ASSUME TypeOK, TypeOK', NEW r \in Runs, Tidy(worker[r]), TriesInv, WorkerStep(r) \/ Expire(r)
  PROVE  TriesInv'
<1> DEFINE w == worker[r]
           v == worker'[r]
<1>1. w \in Worker /\ faults \in Nat /\ faults' \in Nat /\ dest \in [Rows -> Nat]
  BY DEF TypeOK
<1>2. /\ stop' = stop /\ closed' = closed /\ faults' >= faults
      /\ \A q \in Runs : q # r => worker'[q] = worker[q]
      /\ \A x \in Rows : dest[x] > 0 => dest'[x] > 0
  BY WorkerEffect, WorkerGrows DEF Alone, runVars
<1> DEFINE Excused(q) ==
      worker[q].pc = "writing" =>
        \A x \in worker[q].singles : Fits(x) =>
          /\ Excuse(q, x, 1)
          /\ worker[q].coerced /\ Leftmost(worker[q], {x}) => Excuse(q, x, 2)
<1>3. ASSUME NEW q \in Runs, q # r
      PROVE  Excused(q)'
  <2>1. worker'[q] = worker[q] /\ Excused(q)
    BY <1>2, <1>3 DEF TriesInv
  <2>2. \A x \in worker[q].singles : x \in Rows
    BY DEF TypeOK, Worker
  <2>3. ASSUME NEW x \in worker[q].singles, NEW k \in Nat, Excuse(q, x, k)
        PROVE  Excuse(q, x, k)'
    BY <1>1, <1>2, <2>1, <2>2, <2>3, ExcuseStays
  <2>4. ASSUME NEW x
        PROVE  Leftmost(worker'[q], {x}) <=> Leftmost(worker[q], {x})
    BY <2>1
  <2>5. QED
    BY <2>1, <2>3, <2>4
<1>4. Excused(r)'
  <2>1. Excused(r)
    BY DEF TriesInv
  <2>2. ASSUME NEW x \in w.singles, NEW k \in Nat, Excuse(r, x, k), w.late => v.late
        PROVE  Excuse(r, x, k)'
    <3>1. x \in Rows
      BY <1>1, <2>2 DEF Worker
    <3>2. QED
      BY <1>1, <1>2, <2>2, <3>1, ExcuseStays
  <2>3. CASE v.pc # "writing"
    BY <2>3
  <2>4. ASSUME NEW c, Reads(r, c)
        PROVE  Excused(r)'
    BY <2>4 DEF Reads
  <2>5. CASE w.pc = "writing" /\ Ages(r)
    BY <2>5 DEF Ages, Excuse, Dead
  <2>6. ASSUME w.pc = "writing", NEW P \in w.parts, PartDone(r, P), Leftmost(w, P)
        PROVE  Excused(r)'
    <3>1. v.singles = w.singles /\ ~ v.coerced /\ v.late = w.late
      BY <1>1, <2>6, CoercedComesFirst DEF PartDone, SameChunk
    <3>2. QED
      BY <2>1, <2>2, <2>6, <3>1
  <2>7. ASSUME w.pc = "writing", NEW P \in w.parts, PartSorted(r, P), Leftmost(w, P)
        PROVE  Excused(r)'
    <3>1. ~ v.coerced /\ v.late = w.late /\ v \in Worker
      BY <1>1, <2>7, CoercedComesFirst DEF PartSorted, Sorts, SameChunk
    <3>2. \A x \in v.singles \ w.singles :
            Fits(x) => dest[x] > 0 \/ Dead(r) \/ faults' >= 1
      BY <2>7 DEF PartSorted
    <3>3. ASSUME NEW x \in v.singles \ w.singles, Fits(x)
          PROVE  Excuse(r, x, 1)'
      <4>1. x \in Rows
        BY <3>1 DEF Worker
      <4>2. QED
        BY <1>2, <3>1, <3>2, <3>3, <4>1 DEF Excuse, Dead
    <3>4. QED
      BY <2>1, <2>2, <2>7, <3>1, <3>3
  <2>8. ASSUME w.pc = "writing", NEW x \in w.singles, RowDone(r, x)
        PROVE  Excused(r)'
    <3>1. v.singles = w.singles \ {x} /\ ~ v.coerced /\ v.late = w.late
      BY <2>8 DEF RowDone, SameChunk
    <3>2. QED
      BY <2>1, <2>2, <2>8, <3>1
  <2>9. ASSUME w.pc = "writing", NEW x \in w.singles, Leftmost(w, {x}), RowTried(r, x)
        PROVE  Excused(r)'
    <3>1. v.parts = w.parts /\ v.late = w.late
      BY <2>9 DEF RowTried, SameChunk
    <3>2. CASE ~ v.coerced
      <4>1. v.singles \subseteq w.singles
        BY <2>9 DEF RowTried
      <4>2. QED
        BY <2>1, <2>2, <2>9, <3>1, <3>2, <4>1
    <3>3. CASE v.coerced
      <4>1. ~ w.coerced /\ v.singles = w.singles
        BY <2>9, <3>3 DEF RowTried
      <4>2. ASSUME NEW y \in v.singles, Fits(y)
            PROVE  Excuse(r, y, 1)'
        BY <2>1, <2>2, <2>9, <3>1, <4>1, <4>2
      <4>3. ASSUME NEW y \in v.singles, Fits(y), Leftmost(v, {y})
            PROVE  Excuse(r, y, 2)'
        <5>1. Leftmost(w, {y})
          BY <3>1, <4>1, <4>3 DEF Leftmost
        <5>2. y = x
          BY <1>1, <2>9, <4>1, <5>1, OneIsFirst
        <5>3. Excuse(r, x, 1)
          BY <2>1, <2>9, <4>3, <5>2
        <5>4. \/ Dead(r) \/ ~ Takes(r, x)
              \/ ~ Dead(r) /\ faults' = faults + 1
          BY <2>9 DEF RowTried
        <5>5. ~ Takes(r, x) => dest[x] > 0
          BY <4>3, <5>2 DEF Takes, Duplicate, Fits
        <5>6. Dead(r) \/ dest[x] > 0 \/ faults' >= 2
          BY <1>1, <5>3, <5>4, <5>5 DEF Excuse
        <5>7. x \in Rows
          BY <1>1, <2>9 DEF Worker
        <5>8. QED
          BY <1>2, <3>1, <5>2, <5>6, <5>7 DEF Excuse, Dead
      <4>4. QED
        BY <4>2, <4>3
    <3>4. QED
      BY <3>2, <3>3
  <2>10. GoesOn(r) \/ Leaves(r) \/ (\E c \in Rows : EndsChunk(r, c)) => v.pc # "writing"
    BY OverRests DEF GoesOn, Leaves, EndsChunk
  <2>11. QED
    BY <2>3, <2>4, <2>5, <2>6, <2>7, <2>8, <2>9, <2>10, WorkerEffect
<1>5. QED
  BY <1>3, <1>4 DEF TriesInv

LEMMA NextTries ==
  ASSUME TypeOK, TidyInv, TriesInv, [Next]_vars
  PROVE  TriesInv'
<1> USE DEF jobVars, runVars, dataVars, history
<1>1. TypeOK'
  BY NextTypes
<1>2. faults \in Nat /\ dest \in [Rows -> Nat] /\ worker \in [Runs -> Worker]
  BY DEF TypeOK
<1>3. CASE Start \/ Launch \/ Stop \/ Return \/ Finish \/ Patch \/ UNCHANGED vars
  <2>1. /\ dest' = dest /\ faults' = faults
        /\ \A q \in Runs : (stop[q] => stop'[q]) /\ (closed[q] => closed'[q])
    <3>1. dest' = dest /\ faults' = faults
      BY <1>3 DEF Start, Launch, Stop, Return, Finish, Patch, vars
    <3>2. stop \in [Runs -> BOOLEAN] /\ closed \in [Runs -> BOOLEAN]
      BY DEF TypeOK
    <3>3. stop' \in {stop, [stop EXCEPT ![n] = TRUE]}
          /\ closed' \in {closed, [closed EXCEPT ![n] = TRUE]}
      BY <1>3 DEF Start, Launch, Stop, Return, Finish, Patch, vars
    <3>4. QED
      BY <3>1, <3>2, <3>3
  <2>2. \A q \in Runs : worker'[q] = worker[q] \/ worker'[q].pc # "writing"
    <3>1. CASE Launch
      <4>1. main = "on" /\ n \in Runs
        BY <3>1 DEF Launch, TidyInv
      <4>2. Resting(worker'[n]) /\ \A q \in Runs : q # n => worker'[q] = worker[q]
        BY <3>1, <4>1, LaunchEffect
      <4>3. QED
        BY <4>2 DEF Resting
    <3>2. CASE Start \/ Stop \/ Return \/ Finish \/ Patch \/ UNCHANGED vars
      BY <3>2 DEF Start, Stop, Return, Finish, Patch, vars
    <3>3. QED
      BY <1>3, <3>1, <3>2
  <2>3. ASSUME NEW q \in Runs, worker'[q].pc = "writing",
               NEW x \in worker'[q].singles, Fits(x)
        PROVE  /\ Excuse(q, x, 1)'
               /\ worker'[q].coerced /\ Leftmost(worker'[q], {x}) => Excuse(q, x, 2)'
    <3>1. worker'[q] = worker[q]
      BY <2>2, <2>3
    <3>2. x \in Rows
      BY <1>2, <2>3, <3>1 DEF Worker
    <3>3. \A k \in Nat : Excuse(q, x, k) => Excuse(q, x, k)'
      BY <1>2, <2>1, <3>1, <3>2, ExcuseStays
    <3>4. /\ Excuse(q, x, 1)
          /\ worker[q].coerced /\ Leftmost(worker[q], {x}) => Excuse(q, x, 2)
      BY <2>3, <3>1 DEF TriesInv
    <3>5. QED
      BY <3>1, <3>3, <3>4
  <2>4. QED
    BY <2>3 DEF TriesInv
<1>4. ASSUME NEW r \in Runs, WorkerStep(r) \/ Expire(r)
      PROVE  TriesInv'
  BY <1>1, <1>4, EffectTries DEF TidyInv
<1>5. QED
  BY <1>3, <1>4 DEF Next

LEMMA NextSurvive ==
  ASSUME TypeOK, TidyInv, TriesInv, GoodRowsSurvive, [Next]_vars
  PROVE  GoodRowsSurvive'
<1> USE DEF jobVars, runVars, dataVars, history
<1>1. events \subseteq events' /\ faults \in Nat /\ dest \in [Rows -> Nat] /\ logged \subseteq Rows
  BY EventsGrow DEF TypeOK
<1> DEFINE Bought(x) == dest[x] > 0 \/ faults >= IF x \in Coercible THEN 1 ELSE 3
<1>2. ASSUME logged' = logged, faults' \in Nat, faults' >= faults,
             \A x \in Rows : dest[x] > 0 => dest'[x] > 0
      PROVE  GoodRowsSurvive'
  <2>1. ASSUME "cut" \notin events', NEW x \in logged \ Bad
        PROVE  Bought(x)'
    <3>1. Bought(x) /\ x \in Rows
      BY <1>1, <2>1 DEF GoodRowsSurvive
    <3>2. QED
      BY <1>1, <1>2, <3>1
  <2>2. QED
    BY <1>2, <2>1 DEF GoodRowsSurvive
<1>3. CASE Start \/ Launch \/ Stop \/ Return \/ Finish \/ Patch \/ UNCHANGED vars
  <2>1. logged' = logged /\ dest' = dest /\ faults' = faults
    BY <1>3 DEF Start, Launch, Stop, Return, Finish, Patch, vars
  <2>2. QED
    BY <1>1, <1>2, <2>1
<1>4. ASSUME NEW r \in Runs, WorkerStep(r) \/ Expire(r)
      PROVE  GoodRowsSurvive'
  <2> DEFINE w == worker[r]
  <2>1. Tidy(w)
    BY DEF TidyInv
  <2>2. TypeOK' /\ faults' \in Nat
    BY NextTypes DEF TypeOK
  <2>3. faults' >= faults /\ \A x \in Rows : dest[x] > 0 => dest'[x] > 0
    BY <1>4, <2>1, WorkerGrows
  <2>4. CASE logged' = logged
    BY <1>2, <2>2, <2>3, <2>4
  <2>5. CASE logged' # logged
    <3>1. PICK x \in w.singles : Leftmost(w, {x}) /\ w.pc = "writing" /\ RowTried(r, x)
      BY <1>4, <2>1, <2>5, WorkerEffect DEF RowDone
    <3>2. w.coerced /\ logged' = logged \cup {x} /\ x \in Rows
      BY <2>5, <3>1 DEF RowTried, TypeOK, Worker
    <3>3. ASSUME "cut" \notin events', x \notin Bad
          PROVE  Bought(x)'
      <4>1. \/ ~ Dead(r) /\ ~ Takes(r, x)
            \/ ~ Dead(r) /\ faults' = faults + 1
        BY <3>1, <3>2, <3>3 DEF RowTried
      <4>2. ~ Takes(r, x) => dest'[x] > 0
        BY <2>3, <3>2, <3>3 DEF Takes, Duplicate
      <4>3. Fits(x) => Excuse(r, x, 2)
        BY <3>1, <3>2 DEF TriesInv
      <4>4. CASE faults' = faults + 1 /\ ~ Dead(r)
        <5>1. CASE x \in Coercible
          BY <1>1, <4>4, <5>1
        <5>2. CASE x \notin Coercible
          BY <1>1, <2>3, <3>2, <3>3, <4>3, <4>4, <5>2 DEF Fits, Excuse
        <5>3. QED
          BY <5>1, <5>2
      <4>5. QED
        BY <4>1, <4>2, <4>4
    <3>4. ASSUME "cut" \notin events', NEW y \in logged \ Bad
          PROVE  Bought(y)'
      <4>1. Bought(y) /\ y \in Rows
        BY <1>1, <3>4 DEF GoodRowsSurvive
      <4>2. QED
        BY <1>1, <2>2, <2>3, <4>1
    <3>5. QED
      BY <3>2, <3>3, <3>4 DEF GoodRowsSurvive
  <2>6. QED
    BY <2>4, <2>5
<1>5. QED
  BY <1>3, <1>4 DEF Next

\* A row the destination would take is given up only after a stop, a timeout
\* or a closing run, or after its last try failed too: the third if it fits
\* as it is, the first if it has to be coerced. (insert_resilient.go
\* handleFailedRow, writeRowsBulkUnknownFailure)
THEOREM RowsThatFitSurvive == Spec => []GoodRowsSurvive
<1>1. Init => TriesInv /\ GoodRowsSurvive
  BY DEF Init, TriesInv, NoWorker, GoodRowsSurvive
<1>2. TypeOK /\ TidyInv /\ TriesInv /\ GoodRowsSurvive /\ [Next]_vars
        => TriesInv' /\ GoodRowsSurvive'
  BY NextTries, NextSurvive
<1>3. QED
  BY <1>1, <1>2, TidyInvariant, PTL DEF Spec

-----------------------------------------------------------------------------
\* Rows come once.

Quiet == Never({"overlap", "ambiguous"})
Calm  == Never({"overlap", "ambiguous", "reset"})

LEMMA QuietBefore ==
  ASSUME [Next]_vars
  PROVE  (Quiet' => Quiet) /\ (Calm' => Calm) /\ (Calm => Quiet)
BY EventsGrow DEF Quiet, Calm, Never

\* Rows that were not there come once, the others stay as they are.
LEMMA InsertOnce ==
  ASSUME NEW P \in SUBSET Rows, Insert(P), \A x \in P : dest[x] = 0
  PROVE  /\ \A x \in P : dest'[x] = 1
         /\ \A x \in Rows \ P : dest'[x] = dest[x]
<1>1. ASSUME NEW x \in Rows
      PROVE  dest'[x] = IF x \notin P THEN dest[x] ELSE IF Merge THEN 1 ELSE dest[x] + 1
  BY <1>1 DEF Insert
<1>2. QED
  BY <1>1

\* What a step of a worker may touch: rows its worker had yet to try, and
\* will not try again.
Touches(r, S) ==
  /\ S \subseteq Fresh(worker[r]) /\ S \subseteq Rows
  /\ Fresh(worker'[r]) \subseteq Fresh(worker[r]) \ S
  /\ \A x \in Rows \ S : dest'[x] = dest[x] /\ (x \in logged' <=> x \in logged)
  /\ \A x \in S : Untouched(x) => Once(x)'

LEMMA UntouchedIsOnce ==
  ASSUME NEW x, Untouched(x)
  PROVE  Once(x)
BY DEF Untouched, Once

LEMMA PartTouches ==
  ASSUME TypeOK, NEW r \in Runs, Tidy(worker[r]), worker[r].pc = "writing",
         NEW P \in worker[r].parts, Leftmost(worker[r], P), PartDone(r, P), logged' = logged,
         \A x \in P : dest[x] = 0
  PROVE  Touches(r, P)
<1> DEFINE w == worker[r]
           v == worker'[r]
<1>1. w \in Worker
  BY DEF TypeOK
<1>2. /\ SameChunk(w, v) /\ v.parts = w.parts \ {P} /\ v.singles = w.singles
      /\ v.coerced = w.coerced /\ Insert(P)
  BY DEF PartDone
<1>3. Untried(v) = Untried(w) \ P /\ P \subseteq Untried(w)
  BY <1>1, <1>2, PartLeaves
<1>4. P \subseteq Rows /\ P \subseteq w.chunk
  BY <1>1, <1>3, WorkerSets DEF Tidy
<1>5. Fresh(v) \subseteq Fresh(w) \ P
  BY <1>2, <1>3, <1>4 DEF Fresh, SameChunk
<1>6. /\ \A x \in P : dest'[x] = 1
      /\ \A x \in Rows \ P : dest'[x] = dest[x]
  BY <1>2, <1>4, InsertOnce
<1>7. QED
  BY <1>3, <1>4, <1>5, <1>6 DEF Touches, Fresh, Untouched, Once

LEMMA RowTouches ==
  ASSUME TypeOK, NEW r \in Runs, Tidy(worker[r]), worker[r].pc = "writing",
         NEW x \in worker[r].singles, Leftmost(worker[r], {x}),
         \/ RowDone(r, x) /\ dest[x] = 0
         \/ RowTried(r, x) /\ dest' = dest
  PROVE  \E S \in {{x}, {}} : Touches(r, S) /\ (RowDone(r, x) => S = {x})
<1> DEFINE w == worker[r]
           v == worker'[r]
<1>1. w \in Worker /\ x \in Rows
  BY DEF TypeOK, Worker
<1>2. SameChunk(w, v) /\ v.parts = w.parts
  BY DEF RowDone, RowTried
<1>3. x \in Untried(w) /\ x \in w.chunk
  BY DEF Untried, Tidy
<1>4. CASE ~ v.coerced /\ v.singles = w.singles \ {x}
  <2>1. Untried(v) = Untried(w) \ {x}
    BY <1>1, <1>2, <1>4, RowLeaves
  <2>2. Fresh(v) \subseteq Fresh(w) \ {x}
    BY <1>2, <1>3, <2>1 DEF Fresh, SameChunk
  <2>3. \A y \in Rows \ {x} : dest'[y] = dest[y] /\ (y \in logged' <=> y \in logged)
    <3>1. CASE RowDone(r, x) /\ dest[x] = 0
      BY <1>1, <3>1, InsertOnce DEF RowDone
    <3>2. CASE RowTried(r, x) /\ dest' = dest
      BY <3>2 DEF RowTried
    <3>3. QED
      BY <3>1, <3>2
  <2>4. Untouched(x) => Once(x)'
    <3>1. CASE RowDone(r, x) /\ dest[x] = 0
      <4>1. dest'[x] = 1 /\ logged' = logged
        BY <1>1, <3>1, InsertOnce DEF RowDone
      <4>2. QED
        BY <4>1 DEF Untouched, Once
    <3>2. CASE dest' = dest
      BY <3>2 DEF Untouched, Once
    <3>3. QED
      BY <3>1, <3>2
  <2>5. Touches(r, {x})
    BY <1>1, <1>3, <2>2, <2>3, <2>4 DEF Touches, Fresh
  <2>6. QED
    BY <2>5
<1>5. CASE v.coerced /\ v.singles = w.singles /\ RowTried(r, x)
  <2>1. ~ RowDone(r, x)
    BY <1>5 DEF RowDone
  <2>2. dest' = dest /\ logged' = logged
    BY <1>5, <2>1 DEF RowTried
  <2>3. Fresh(v) \subseteq Fresh(w)
    BY <1>2, <1>5 DEF Fresh, Untried, SameChunk
  <2>4. Touches(r, {})
    BY <2>2, <2>3 DEF Touches
  <2>5. QED
    BY <2>1, <2>4
<1>6. QED
  BY <1>4, <1>5 DEF RowDone, RowTried

\* Without overlap and ambiguity, the worker that takes a step touches only
\* rows no worker had touched.
LEMMA EffectTouches ==
  ASSUME TypeOK, NEW r \in Runs, Tidy(worker[r]), Quiet', WorkerStep(r) \/ Expire(r),
         \A x \in Fresh(worker[r]) : Untouched(x)
  PROVE  /\ Alone(r) /\ common' = common
         /\ \/ Leaves(r) /\ UNCHANGED <<dest, logged>>
            \/ /\ Live(r)' /\ \E S : Touches(r, S)
<1> DEFINE w == worker[r]
           v == worker'[r]
<1>1. w \in Worker
  BY DEF TypeOK
<1>2. "ambiguous" \notin events'
  BY DEF Quiet, Never
<1>3. ASSUME UNCHANGED <<dest, logged>>, Fresh(v) \subseteq Fresh(w)
      PROVE  \E S : Touches(r, S)
  <2>1. Touches(r, {})
    BY <1>3 DEF Touches
  <2>2. QED
    BY <2>1
<1>4. CASE GoesOn(r) /\ UNCHANGED <<dest, logged>>
  <2>1. Fresh(v) \subseteq Fresh(w) /\ Live(r)'
    BY <1>4 DEF GoesOn, Resting, Fresh, Untried, Live
  <2>2. QED
    BY <1>3, <1>4, <2>1, WorkerEffect
<1>5. ASSUME NEW c \in SUBSET Rows, Reads(r, c), UNCHANGED <<dest, logged>>
      PROVE  Live(r)' /\ \E S : Touches(r, S)
  <2>1. Untried(v) = c
    BY <1>5 DEF Reads, Untried
  <2>2. c \subseteq Fresh(w)
    <3>1. w.last \in Int
      BY <1>1, WorkerSets
    <3>2. \A x \in c : x \in Int
      BY DEF Rows
    <3>3. QED
      BY <1>5, <3>1, <3>2 DEF Reads, Fresh, Resting
  <2>3. Fresh(v) \subseteq Fresh(w) /\ Live(r)'
    BY <1>5, <2>1, <2>2 DEF Reads, Fresh, Resting, Live
  <2>4. QED
    BY <1>3, <1>5, <2>3
<1>6. ASSUME NEW c \in Rows, EndsChunk(r, c), UNCHANGED <<dest, logged>>
      PROVE  Live(r)' /\ \E S : Touches(r, S)
  <2>1. /\ w.pc = "writing" /\ c \in w.chunk /\ \A x \in w.chunk : x <= c
        /\ v.last = c /\ v.chunk = {} /\ v.parts = {} /\ v.singles = {}
        /\ v.pc \in {"looping", "copied"}
    BY <1>6 DEF EndsChunk
  <2>2. w.last < c /\ w.last \in Int /\ c \in Int /\ \A x \in Rows : x \in Int
    BY <1>1, <2>1, WorkerSets DEF Tidy, Rows
  <2>3. Untried(v) = {}
    BY <2>1 DEF Untried
  <2>4. Fresh(v) \subseteq Fresh(w)
    BY <2>1, <2>2, <2>3 DEF Fresh
  <2>5. QED
    BY <1>3, <1>6, <2>1, <2>4 DEF Live
<1>7. CASE w.pc = "writing" /\ Ages(r) /\ UNCHANGED <<dest, logged>>
  <2>1. Fresh(v) \subseteq Fresh(w) /\ Live(r)'
    BY <1>7 DEF Ages, Fresh, Untried, Live
  <2>2. QED
    BY <1>3, <1>7, <2>1, WorkerEffect
<1>8. ASSUME w.pc = "writing", logged' = logged, NEW P \in w.parts, Leftmost(w, P),
             PartDone(r, P) \/ PartSorted(r, P)
      PROVE  Live(r)' /\ \E S : Touches(r, S)
  <2>1. SameChunk(w, v)
    BY <1>8 DEF PartDone, PartSorted, Sorts
  <2>2. Live(r)'
    BY <1>8, <2>1 DEF SameChunk, Live
  <2>3. CASE PartDone(r, P)
    <3>1. P \subseteq Untried(w)
      BY <1>8 DEF Untried
    <3>2. \A x \in P : dest[x] = 0
      BY <3>1 DEF Fresh, Untouched
    <3>3. Touches(r, P)
      BY <1>8, <2>3, <3>2, PartTouches
    <3>4. QED
      BY <2>2, <3>3
  <2>4. CASE PartSorted(r, P)
    <3>1. dest' = dest
      BY <1>2, <2>4 DEF PartSorted
    <3>2. Untried(v) = Untried(w)
      BY <1>1, <1>8, <2>4, SortsKeeps DEF PartSorted
    <3>3. Fresh(v) \subseteq Fresh(w)
      BY <2>1, <3>2 DEF Fresh, SameChunk
    <3>4. QED
      BY <1>3, <1>8, <2>2, <3>1, <3>3
  <2>5. QED
    BY <1>8, <2>3, <2>4
<1>9. ASSUME w.pc = "writing", NEW x \in w.singles, Leftmost(w, {x}),
             RowDone(r, x) \/ RowTried(r, x)
      PROVE  Live(r)' /\ \E S : Touches(r, S)
  <2>1. Live(r)'
    BY <1>9 DEF RowDone, RowTried, SameChunk, Live
  <2>2. dest[x] = 0
    BY <1>9 DEF Fresh, Untried, Untouched
  <2>3. RowTried(r, x) => dest' = dest
    BY <1>2 DEF RowTried
  <2>4. \E S \in {{x}, {}} : Touches(r, S)
    BY <1>9, <2>2, <2>3, RowTouches
  <2>5. QED
    BY <2>1, <2>4
<1>10. QED
  BY <1>4, <1>5, <1>6, <1>7, <1>8, <1>9, WorkerEffect

LEMMA NextOnce ==
  ASSUME TypeOK, TidyInv, OnceInv, [Next]_vars
  PROVE  OnceInv'
<1> USE DEF jobVars, runVars, dataVars, history
<1>1. SUFFICES ASSUME Quiet' PROVE OnceInv'
  BY DEF OnceInv, Quiet
<1>2. Quiet
  BY <1>1, QuietBefore
<1>3. /\ \A x \in Rows : Once(x)
      /\ \A r \in Runs : Live(r) => r = n /\ \A x \in Fresh(worker[r]) : Untouched(x)
      /\ Idle => \A x \in Rows : x > task.cursor => Untouched(x)
      /\ main = "on" /\ worker[n].pc = "none" => snap = task
  BY <1>2 DEF OnceInv, Quiet
<1>4. TypeOK'
  BY NextTypes
<1>5. CASE Start
  <2>1. /\ UNCHANGED <<task, dest, logged, worker>> /\ snap' = task
        /\ events' = events \cup IF \E r \in Runs : Live(r) THEN {"overlap"} ELSE {}
    BY <1>5 DEF Start
  <2>2. \A r \in Runs : ~ Live(r)
    BY <1>1, <2>1 DEF Quiet, Never
  <2>3. \A r \in Runs : ~ Live(r)'
    BY <2>1, <2>2 DEF Live
  <2>4. \A x \in Rows : Once(x)' /\ (x > task'.cursor => Untouched(x)')
    BY <1>3, <2>1, <2>2 DEF Once, Untouched, Idle
  <2>5. QED
    BY <2>1, <2>3, <2>4 DEF OnceInv
<1>6. CASE Launch
  <2>1. main = "on" /\ n \in Runs
    BY <1>6 DEF Launch, TidyInv
  <2>2. /\ UNCHANGED runVars /\ UNCHANGED <<dest, logged, common, faults, events>>
        /\ \A q \in Runs : q # n => worker'[q] = worker[q]
        /\ worker[n].pc = "none"
        /\ Resting(worker'[n]) /\ worker'[n].pc \in {"taken", "ready"}
        /\ worker'[n].last = snap.cursor
    BY <1>6, <2>1, LaunchEffect
  <2>3. Idle /\ snap = task
    BY <1>3, <2>1, <2>2 DEF Idle, Live
  <2>4. ASSUME NEW x \in Fresh(worker'[n])
        PROVE  Untouched(x)'
    <3>1. x \in Rows /\ x > snap.cursor
      BY <2>2, <2>4 DEF Fresh, Untried, Resting
    <3>2. QED
      BY <1>3, <2>2, <2>3, <3>1 DEF Untouched
  <2>5. ASSUME NEW q \in Runs, Live(q)'
        PROVE  q = n
    BY <2>2, <2>3, <2>5 DEF Live, Idle
  <2>6. Live(n)'
    BY <2>2 DEF Live
  <2>7. \A x \in Rows : Once(x)'
    BY <1>3, <2>2 DEF Once
  <2>8. n' = n /\ worker'[n].pc # "none" /\ ~ Idle'
    BY <2>1, <2>2, <2>6 DEF Idle
  <2>9. QED
    BY <2>4, <2>5, <2>7, <2>8 DEF OnceInv
<1>7. CASE Stop \/ Return \/ Finish \/ Patch \/ UNCHANGED vars
  <2>1. /\ UNCHANGED <<task, dest, logged, worker, n, snap>> /\ (main' = "on" => main = "on")
    BY <1>7 DEF Stop, Return, Finish, Patch, vars
  <2>2. \A x : (Once(x)' <=> Once(x)) /\ (Untouched(x)' <=> Untouched(x))
    BY <2>1 DEF Once, Untouched
  <2>3. (Idle' <=> Idle) /\ \A q \in Runs : (Live(q)' <=> Live(q))
    BY <2>1 DEF Live, Idle
  <2>4. QED
    BY <1>3, <2>1, <2>2, <2>3 DEF OnceInv
<1>8. ASSUME NEW r \in Runs, WorkerStep(r) \/ Expire(r)
      PROVE  OnceInv'
  <2>1. Tidy(worker[r])
    BY DEF TidyInv
  <2>2. Live(r) /\ r = n
    BY <1>3, <1>8, <2>1, StepIsLive
  <2>3. \A x \in Fresh(worker[r]) : Untouched(x)
    BY <1>3, <2>2
  <2>4. /\ Alone(r)
        /\ \/ Leaves(r) /\ UNCHANGED <<dest, logged>>
           \/ Live(r)' /\ \E S : Touches(r, S)
    BY <1>1, <1>8, <2>1, <2>3, EffectTouches
  <2>5. n' = n /\ \A q \in Runs : q # n => worker'[q] = worker[q] /\ ~ Live(q)'
    <3>1. n' = n /\ \A q \in Runs : q # n => worker'[q] = worker[q]
      BY <2>2, <2>4 DEF Alone
    <3>2. \A q \in Runs : q # n => ~ Live(q)
      BY <1>3
    <3>3. QED
      BY <3>1, <3>2 DEF Live
  <2>6. CASE Leaves(r) /\ UNCHANGED <<dest, logged>>
    <3>1. /\ Resting(worker[r]) /\ worker'[r] = [NoWorker EXCEPT !.pc = "over"]
          /\ task'.cursor = worker[r].last
      BY <2>6 DEF Leaves
    <3>2. worker'[r].pc = "over" /\ ~ Live(r)'
      BY <3>1, OverRests DEF Live
    <3>3. \A x \in Rows : x > task'.cursor => Untouched(x)'
      BY <2>3, <2>6, <3>1 DEF Fresh, Resting, Untouched
    <3>4. \A x \in Rows : Once(x)'
      BY <1>3, <2>6 DEF Once
    <3>5. QED
      BY <2>2, <2>5, <3>2, <3>3, <3>4 DEF OnceInv
  <2>7. ASSUME Live(r)', NEW S, Touches(r, S)
        PROVE  OnceInv'
    <3>1. /\ S \subseteq Fresh(worker[r]) /\ S \subseteq Rows
          /\ Fresh(worker'[r]) \subseteq Fresh(worker[r]) \ S
          /\ \A x \in Rows \ S : dest'[x] = dest[x] /\ (x \in logged' <=> x \in logged)
          /\ \A x \in S : Untouched(x) => Once(x)'
      BY <2>7 DEF Touches
    <3>2. Fresh(worker'[r]) \subseteq Rows
      BY <1>4, WorkerSets DEF TypeOK, Fresh
    <3>3. \A x \in Rows : Once(x)'
      BY <1>3, <2>3, <3>1 DEF Once
    <3>4. \A x \in Fresh(worker'[r]) : Untouched(x)'
      BY <2>3, <3>1, <3>2 DEF Untouched
    <3>5. ~ Idle' /\ worker'[n].pc # "none"
      BY <2>2, <2>7 DEF Idle, Live
    <3>6. QED
      BY <2>2, <2>5, <3>3, <3>4, <3>5 DEF OnceInv
  <2>8. QED
    BY <2>4, <2>6, <2>7
<1>9. QED
  BY <1>5, <1>6, <1>7, <1>8 DEF Next

LEMMA InitOnce == Init => OnceInv
BY DEF Init, OnceInv, Once, Live, Idle, Untouched, NoWorker

\* A row arrives once or is logged once, never both, across pauses, failures
\* and resumptions, unless a worker outlives its run or the server reports an
\* error for what it committed. (engine.go copyTable, insert_resilient.go)
THEOREM RowsComeOnce == Spec => []ExactlyOnce
<1>1. TypeOK /\ TidyInv /\ OnceInv /\ [Next]_vars => OnceInv'
  BY NextOnce
<1>2. OnceInv => ExactlyOnce
  BY DEF OnceInv, Once, ExactlyOnce
<1>3. QED
  BY <1>1, <1>2, InitOnce, TidyInvariant, PTL DEF Spec

-----------------------------------------------------------------------------
\* rows_done.

LEMMA PresentIsFinite ==
  /\ Present \subseteq Rows /\ IsFiniteSet(Present) /\ Cardinality(Present) \in Nat
<1>1. Present \subseteq Rows
  BY DEF Present
<1>2. QED
  BY <1>1, RowsAreFinite

\* Rows that were not there add up.
LEMMA InsertCounts ==
  ASSUME dest \in [Rows -> Nat], NEW P \in SUBSET Rows, Insert(P), \A x \in P : dest[x] = 0
  PROVE  Cardinality(Present') = Cardinality(Present) + Cardinality(P)
<1>1. /\ \A x \in P : dest'[x] = 1
      /\ \A x \in Rows \ P : dest'[x] = dest[x]
  BY InsertOnce
<1>2. Present' = Present \cup P /\ Present \cap P = {}
  BY <1>1 DEF Present
<1>3. IsFiniteSet(Present) /\ IsFiniteSet(P)
  BY PresentIsFinite, RowsAreFinite
<1>4. Cardinality(Present) \in Nat /\ Cardinality(P) \in Nat /\ Cardinality({}) = 0
  BY PresentIsFinite, RowsAreFinite, FS_EmptySet
<1>5. Cardinality(Present \cup P)
        = Cardinality(Present) + Cardinality(P) - Cardinality(Present \cap P)
  BY <1>3, FS_Union
<1>6. Cardinality(Present \cap P) = 0
  BY <1>2, <1>4
<1>7. Cardinality(Present') = Cardinality(Present \cup P)
  BY <1>2
<1>8. QED
  BY <1>4, <1>5, <1>6, <1>7

\* Without overlap and ambiguity, what a step brings is what it counts.
LEMMA EffectCounts ==
  ASSUME TypeOK, NEW r \in Runs, Tidy(worker[r]), Quiet', WorkerStep(r) \/ Expire(r),
         \A x \in Fresh(worker[r]) : Untouched(x)
  PROVE  \/ GoesOn(r) /\ Present' = Present
         \/ Leaves(r) /\ Present' = Present
         \/ /\ Live(r)' /\ worker'[r].set = worker[r].set
            /\ "skipped" \in events' => "skipped" \in events
            /\ task' = task \/ task'.status = "running"
            /\ \/ worker'[r].total = worker[r].total /\ Present' = Present
               \/ /\ worker[r].pc = "writing" /\ events' = events
                  /\ \E k \in Nat : /\ k <= Cardinality(Untried(worker[r]))
                                    /\ worker'[r].total = worker[r].total + k
                                    /\ Cardinality(Present') = Cardinality(Present) + k
<1> DEFINE w == worker[r]
           v == worker'[r]
<1>1. w \in Worker /\ dest \in [Rows -> Nat]
  BY DEF TypeOK
<1>2. "ambiguous" \notin events'
  BY DEF Quiet, Never
<1>3. dest' = dest => Present' = Present
  BY DEF Present
<1>4. ASSUME NEW c, Reads(r, c), dest' = dest
      PROVE  /\ Live(r)' /\ v.set = w.set /\ events' = events /\ task' = task
             /\ v.total = w.total /\ Present' = Present
  BY <1>3, <1>4 DEF Reads, Live
<1>5. ASSUME NEW c, EndsChunk(r, c), dest' = dest
      PROVE  /\ Live(r)' /\ v.set = w.set /\ ("skipped" \in events' => "skipped" \in events)
             /\ (task' = task \/ task'.status = "running")
             /\ v.total = w.total /\ Present' = Present
  BY <1>3, <1>5 DEF EndsChunk, Live
<1>6. CASE w.pc = "writing" /\ Ages(r) /\ UNCHANGED <<task, events, dest>>
  <2>1. Live(r)' /\ v.set = w.set /\ v.total = w.total /\ Present' = Present
    BY <1>3, <1>6 DEF Ages, Live
  <2>2. QED
    BY <1>6, <2>1
<1>7. \A P \in w.parts : P \subseteq Untried(w)
  BY DEF Untried
<1>8. Untried(w) \subseteq Fresh(w) /\ Untried(w) \subseteq Rows /\ IsFiniteSet(Untried(w))
  BY <1>1, WorkerSets, RowsAreFinite DEF Fresh
<1>9. ASSUME w.pc = "writing", NEW P \in w.parts, PartDone(r, P), task' = task
      PROVE  /\ Live(r)' /\ v.set = w.set /\ events' = events
             /\ \E k \in Nat : /\ k <= Cardinality(Untried(w))
                               /\ v.total = w.total + k
                               /\ Cardinality(Present') = Cardinality(Present) + k
  <2>1. \A x \in P : dest[x] = 0
    BY <1>7, <1>8 DEF Untouched
  <2>2. P \in SUBSET Rows /\ Insert(P) /\ v.total = w.total + Cardinality(P) /\ events' = events
    BY <1>7, <1>8, <1>9 DEF PartDone
  <2>3. Cardinality(Present') = Cardinality(Present) + Cardinality(P)
    BY <1>1, <2>1, <2>2, InsertCounts
  <2>4. Cardinality(P) \in Nat /\ Cardinality(P) <= Cardinality(Untried(w))
    BY <1>7, <1>8, <2>2, RowsAreFinite, FS_Subset
  <2>5. Live(r)' /\ v.set = w.set
    BY <1>9 DEF PartDone, SameChunk, Live
  <2>6. QED
    BY <2>2, <2>3, <2>4, <2>5
<1>10. ASSUME w.pc = "writing", NEW P \in w.parts, PartSorted(r, P)
       PROVE  /\ Live(r)' /\ v.set = w.set /\ events' = events
              /\ v.total = w.total /\ Present' = Present
  <2>1. dest' = dest /\ events' = events
    BY <1>2, <1>10 DEF PartSorted
  <2>2. QED
    BY <1>3, <1>10, <2>1 DEF PartSorted, Sorts, SameChunk, Live
<1>11. ASSUME w.pc = "writing", NEW x \in w.singles, RowDone(r, x)
       PROVE  /\ Live(r)' /\ v.set = w.set /\ events' = events
              /\ \E k \in Nat : /\ k <= Cardinality(Untried(w))
                                /\ v.total = w.total + k
                                /\ Cardinality(Present') = Cardinality(Present) + k
  <2>1. x \in Untried(w) /\ dest[x] = 0 /\ x \in Rows
    <3>1. x \in Untried(w)
      BY <1>11 DEF Untried
    <3>2. QED
      BY <1>8, <3>1 DEF Untouched
  <2>2. Insert({x}) /\ v.total = w.total + 1 /\ events' = events
    BY <1>11 DEF RowDone
  <2>3. Cardinality({x}) = 1
    BY FS_Singleton
  <2>4. Cardinality(Present') = Cardinality(Present) + Cardinality({x})
    BY <1>1, <2>1, <2>2, InsertCounts
  <2>5. 1 <= Cardinality(Untried(w))
    <3>1. {x} \in SUBSET Untried(w)
      BY <2>1
    <3>2. QED
      BY <1>8, <2>3, <3>1, FS_Subset
  <2>6. Live(r)' /\ v.set = w.set
    BY <1>11 DEF RowDone, SameChunk, Live
  <2>7. Cardinality(Present') = Cardinality(Present) + 1 /\ 1 \in Nat
    BY <2>3, <2>4
  <2>8. QED
    BY <2>2, <2>5, <2>6, <2>7
<1>12. ASSUME w.pc = "writing", NEW x \in w.singles, RowTried(r, x)
       PROVE  /\ Live(r)' /\ v.set = w.set
              /\ ("skipped" \in events' => "skipped" \in events)
              /\ v.total = w.total /\ Present' = Present
  <2>1. dest' = dest /\ ("skipped" \in events' => "skipped" \in events)
    BY <1>2, <1>12 DEF RowTried
  <2>2. QED
    BY <1>3, <1>12, <2>1 DEF RowTried, SameChunk, Live
<1>13. CASE GoesOn(r) \/ Leaves(r)
  <2>1. dest' = dest
    BY <1>13, WorkerEffect DEF GoesOn, Leaves, Resting
  <2>2. QED
    BY <1>3, <1>13, <2>1
<1>14. CASE UNCHANGED <<dest, logged, faults>> /\ \E c \in SUBSET Rows : Reads(r, c)
  BY <1>4, <1>14
<1>15. CASE UNCHANGED <<dest, logged, faults>> /\ \E c \in Rows : EndsChunk(r, c)
  BY <1>5, <1>15
<1>16. CASE /\ w.pc = "writing" /\ UNCHANGED <<task, logged>>
            /\ \E P \in w.parts : PartDone(r, P) \/ PartSorted(r, P)
  BY <1>9, <1>10, <1>16
<1>17. CASE /\ w.pc = "writing" /\ task' = task
            /\ \E x \in w.singles : RowDone(r, x) \/ RowTried(r, x)
  BY <1>11, <1>12, <1>17
<1>18. QED
  BY <1>6, <1>13, <1>14, <1>15, <1>16, <1>17, WorkerEffect

LEMMA NextCount ==
  ASSUME TypeOK, TidyInv, OnceInv, CountInv, [Next]_vars
  PROVE  CountInv'
<1> USE DEF jobVars, runVars, dataVars, history
<1>1. SUFFICES ASSUME Calm' PROVE CountInv'
  BY DEF CountInv, Calm
<1>2. Calm /\ Quiet /\ Quiet' /\ "reset" \notin events'
  BY <1>1, QuietBefore DEF Calm, Quiet, Never
<1>3. /\ \A r \in Runs : Live(r) =>
           /\ worker[r].total = Cardinality(Present) /\ task.status = "running"
           /\ "skipped" \notin events
      /\ Idle => "skipped" \in events \/ task.count = Cardinality(Present)
      /\ "skipped" \in events => task.status = "completed"
  BY <1>2 DEF CountInv, Calm
<1>4. /\ \A r \in Runs : Live(r) => r = n /\ \A x \in Fresh(worker[r]) : Untouched(x)
      /\ main = "on" /\ worker[n].pc = "none" => snap = task
  BY <1>2 DEF OnceInv, Quiet
<1>5. CASE Start \/ Stop \/ Return \/ Finish \/ Patch \/ UNCHANGED vars
  <2>1. /\ UNCHANGED <<task, dest, worker>>
        /\ "skipped" \in events' <=> "skipped" \in events
    BY <1>5 DEF Start, Stop, Return, Finish, Patch, vars
  <2>2. Present' = Present
    BY <2>1 DEF Present
  <2>3. (Idle' <=> Idle) /\ \A q \in Runs : (Live(q)' <=> Live(q))
    BY <2>1 DEF Live, Idle
  <2>4. QED
    BY <1>3, <2>1, <2>2, <2>3 DEF CountInv
<1>6. CASE Launch
  <2>1. main = "on" /\ n \in Runs
    BY <1>6 DEF Launch, TidyInv
  <2>2. /\ UNCHANGED <<dest, events>>
        /\ \A q \in Runs : q # n => worker'[q] = worker[q]
        /\ worker[n].pc = "none" /\ snap.status # "completed"
        /\ worker'[n].pc \in {"taken", "ready"} /\ worker'[n].total = snap.count
        /\ task'.status = "running"
    BY <1>6, <2>1, LaunchEffect
  <2>3. Idle /\ snap = task
    BY <1>4, <2>1, <2>2 DEF Idle, Live
  <2>4. "skipped" \notin events /\ task.count = Cardinality(Present)
    BY <1>3, <2>2, <2>3
  <2>5. Present' = Present
    BY <2>2 DEF Present
  <2>6. ASSUME NEW q \in Runs, Live(q)'
        PROVE  q = n
    BY <2>2, <2>3, <2>6 DEF Live, Idle
  <2>7. ~ Idle'
    BY <2>1, <2>2 DEF Live, Idle
  <2>8. QED
    BY <2>2, <2>3, <2>4, <2>5, <2>6, <2>7 DEF CountInv
<1>7. ASSUME NEW r \in Runs, WorkerStep(r) \/ Expire(r)
      PROVE  CountInv'
  <2>1. Tidy(worker[r])
    BY DEF TidyInv
  <2>2. Live(r) /\ r = n
    BY <1>4, <1>7, <2>1, StepIsLive
  <2>3. \A x \in Fresh(worker[r]) : Untouched(x)
    BY <1>4, <2>2
  <2>4. Alone(r)
    BY <1>7, <2>1, WorkerEffect
  <2>5. \A q \in Runs : q # r => ~ Live(q)'
    <3>1. \A q \in Runs : q # r => ~ Live(q)
      BY <1>4, <2>2
    <3>2. QED
      BY <2>4, <3>1 DEF Live, Alone
  <2>6. /\ worker[r].total = Cardinality(Present) /\ task.status = "running"
        /\ "skipped" \notin events
    BY <1>3, <2>2
  <2>7. CASE GoesOn(r) /\ Present' = Present
    <3>1. /\ Live(r)' /\ worker'[r].total = worker[r].total /\ task' = task
          /\ "skipped" \notin events'
      BY <1>2, <2>6, <2>7 DEF GoesOn, Live
    <3>2. QED
      BY <2>5, <2>6, <2>7, <3>1 DEF CountInv, Idle
  <2>8. CASE Leaves(r) /\ Present' = Present
    <3>1. \A q \in Runs : ~ Live(q)'
      BY <2>5, <2>8, OverRests DEF Leaves, Live
    <3>2. \/ task'.count = worker[r].total /\ events' = events
          \/ task'.status = "completed" /\ events' = events \cup {"skipped"}
      BY <2>8 DEF Leaves
    <3>3. QED
      BY <2>6, <2>8, <3>1, <3>2 DEF CountInv
  <2>9. CASE /\ Live(r)' /\ "skipped" \notin events' /\ task'.status = "running"
             /\ worker'[r].total = Cardinality(Present')
    BY <2>5, <2>9 DEF CountInv, Idle
  <2>10. QED
    BY <1>2, <1>7, <2>1, <2>3, <2>6, <2>7, <2>8, <2>9, EffectCounts
<1>8. QED
  BY <1>5, <1>6, <1>7 DEF Next

LEMMA InitCount == Init => CountInv
<1> SUFFICES ASSUME Init PROVE CountInv
  OBVIOUS
<1>1. Present = {}
  BY DEF Init, Present
<1>2. Cardinality(Present) = 0
  BY <1>1, FS_EmptySet
<1>3. QED
  BY <1>2 DEF Init, CountInv, Live, Idle, NoWorker

LEMMA Inductive == Spec => [](TypeOK /\ TidyInv /\ OnceInv /\ CountInv)
<1>1. TypeOK /\ TidyInv /\ OnceInv /\ CountInv /\ [Next]_vars => (OnceInv /\ CountInv)'
  BY NextOnce, NextCount
<1>2. Init => OnceInv /\ CountInv
  BY InitOnce, InitCount
<1>3. QED
  BY <1>1, <1>2, TidyInvariant, PTL DEF Spec

\* Between runs rows_done is the number of rows in the destination, unless
\* preparing the table failed on the way (which resets it), and with the
\* exceptions of ExactlyOnce. (engine.go copyTable)
THEOREM RowsDoneIsExact == Spec => []CountIsExact
<1>1. ASSUME TypeOK, CountInv
      PROVE  CountIsExact
  <2>1. SUFFICES ASSUME Never({"overlap", "ambiguous", "reset", "skipped"}),
                        task.status \in {"paused", "failed", "completed"}
                 PROVE  task.count = Cardinality(Present)
    BY DEF CountIsExact
  <2>2. Never({"overlap", "ambiguous", "reset"}) /\ "skipped" \notin events
    BY <2>1 DEF Never
  <2>3. Idle
    BY <1>1, <2>1, <2>2 DEF CountInv, Idle
  <2>4. QED
    BY <1>1, <2>2, <2>3 DEF CountInv
<1>2. QED
  BY <1>1, Inductive, PTL

\* max_rows_per_table: no row arrives beyond the cap of a worker that is at
\* work, counting the rows of earlier runs, with the exceptions of
\* CountIsExact. (engine.go copyTable, effectiveBatch)
THEOREM TheCapHolds == Spec => CapHolds
<1> DEFINE Capped ==
      \A r \in Runs :
        Live(r) /\ worker[r].set.cap > 0 /\ Present' # Present
        /\ events' \cap {"overlap", "ambiguous", "reset"} = {}
        => Cardinality(Present') <= worker[r].set.cap
<1>1. ASSUME TypeOK, TidyInv, OnceInv, CountInv, [Next]_vars
      PROVE  Capped
  <2> USE DEF jobVars, runVars, dataVars, history
  <2>1. SUFFICES ASSUME NEW r \in Runs, Live(r), worker[r].set.cap > 0, Present' # Present, Calm'
                 PROVE  Cardinality(Present') <= worker[r].set.cap
    BY DEF Calm, Never
  <2>2. Calm /\ Quiet /\ Quiet'
    BY <1>1, <2>1, QuietBefore DEF Calm, Quiet, Never
  <2>3. dest' # dest
    BY <2>1 DEF Present
  <2>4. PICK q \in Runs : WorkerStep(q) \/ Expire(q)
    <3>1. ~ (Start \/ Launch \/ Stop \/ Return \/ Finish \/ Patch \/ UNCHANGED vars)
      BY <2>3 DEF Start, Launch, Stop, Return, Finish, Patch, vars
    <3>2. QED
      BY <1>1, <3>1 DEF Next
  <2>5. Tidy(worker[q]) /\ Tidy(worker[r]) /\ CapLeft(worker[r])
    BY <1>1 DEF TidyInv
  <2>6. q = r
    <3>1. Live(q)
      BY <1>1, <2>4, <2>5, StepIsLive
    <3>2. QED
      BY <1>1, <2>1, <2>2, <3>1 DEF OnceInv, Quiet
  <2>7. \A x \in Fresh(worker[r]) : Untouched(x)
    BY <1>1, <2>1, <2>2 DEF OnceInv, Quiet
  <2>8. PICK k \in Nat : /\ worker[r].pc = "writing"
                         /\ k <= Cardinality(Untried(worker[r]))
                         /\ Cardinality(Present') = Cardinality(Present) + k
    BY <1>1, <2>1, <2>2, <2>4, <2>5, <2>6, <2>7, EffectCounts
  <2>9. worker[r].total = Cardinality(Present)
    BY <1>1, <2>1, <2>2 DEF CountInv, Calm
  <2>10. worker[r].total + Cardinality(Untried(worker[r])) <= worker[r].set.cap
    BY <2>1, <2>5, <2>8 DEF CapLeft
  <2>11. /\ worker[r].total \in Nat /\ worker[r].set.cap \in Nat
         /\ Cardinality(Untried(worker[r])) \in Nat
    <3>1. worker[r] \in Worker
      BY <1>1 DEF TypeOK
    <3>2. QED
      BY <3>1, WorkerSets, RowsAreFinite
  <2>12. QED
    BY <2>8, <2>9, <2>10, <2>11
<1>2. QED
  BY <1>1, Inductive, PTL DEF Spec, CapHolds, Capped
=============================================================================
