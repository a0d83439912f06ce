-------------------------- MODULE TablePoolProofs --------------------------
(***************************************************************************)
(* Theorems about TablePool, for any finite set of tables, any degree of   *)
(* parallelism and any number of runs.                                     *)
(***************************************************************************)
EXTENDS TablePool, FiniteSetTheorems, TLAPS

\* Replacing one worker's record, and what that leaves alone.
LEMMA WorkerSettles ==
  ASSUME worker \in [Runs -> [Tables -> Worker]], NEW r \in Runs, NEW t \in Tables,
         NEW w \in Worker
  PROVE  /\ [worker EXCEPT ![r][t] = w] \in [Runs -> [Tables -> Worker]]
         /\ [worker EXCEPT ![r][t] = w][r][t] = w
         /\ \A q \in Runs, u \in Tables :
              q # r \/ u # t => [worker EXCEPT ![r][t] = w][q][u] = worker[q][u]
  OBVIOUS

\* Moving one worker on.
LEMMA WorkerMove ==
  ASSUME worker \in [Runs -> [Tables -> Worker]], NEW r \in Runs, NEW t \in Tables,
         NEW pc \in WorkerPC
  PROVE  /\ [worker EXCEPT ![r][t].pc = pc] \in [Runs -> [Tables -> Worker]]
         /\ [worker EXCEPT ![r][t].pc = pc][r][t].pc = pc
         /\ [worker EXCEPT ![r][t].pc = pc][r][t].left = worker[r][t].left
         /\ \A q \in Runs, u \in Tables :
              q # r \/ u # t => [worker EXCEPT ![r][t].pc = pc][q][u] = worker[q][u]
<1> DEFINE w == [worker[r][t] EXCEPT !.pc = pc]
<1>1. w \in Worker /\ w.pc = pc /\ w.left = worker[r][t].left
  BY DEF Worker
<1>2. [worker EXCEPT ![r][t].pc = pc] = [worker EXCEPT ![r][t] = w]
  OBVIOUS
<1>3. QED
  BY <1>1, <1>2, WorkerSettles

\* The number of some of the tables is a number.
LEMMA CountIsNat ==
  ASSUME NEW S, S \subseteq Tables
  PROVE  Cardinality(S) \in Nat
  BY TableAssumption, FS_Subset, FS_CardinalityType

\* Two disjoint sets of tables are no more than all of them.
LEMMA CountApart ==
  ASSUME NEW A, NEW B, A \subseteq Tables, B \subseteq Tables, A \cap B = {}
  PROVE  Cardinality(A) + Cardinality(B) <= Cardinality(Tables)
<1>1. IsFiniteSet(Tables) /\ IsFiniteSet(A) /\ IsFiniteSet(B)
  BY TableAssumption, FS_Subset
<1>2. Cardinality(A) \in Nat /\ Cardinality(B) \in Nat
  BY CountIsNat
<1>3. Cardinality(A \cap B) = 0
  BY FS_EmptySet
<1>4. Cardinality(A \cup B) = Cardinality(A) + Cardinality(B) - Cardinality(A \cap B)
  BY <1>1, FS_Union
<1>5. Cardinality(A \cup B) <= Cardinality(Tables)
  BY <1>1, FS_Subset
<1>6. QED
  BY <1>2, <1>3, <1>4, <1>5

LEMMA InitTypes == Init => TypeOK
<1> SUFFICES ASSUME Init PROVE TypeOK
  OBVIOUS
<1>1. worker \in [Runs -> [Tables -> Worker]]
  BY DEF Init, Worker, NoWorker, WorkerPC
<1>2. n \in 0 .. MaxRuns /\ counted \in Nat
  BY TableAssumption DEF Init
<1>3. QED
  BY <1>1, <1>2 DEF Init, TypeOK, JobStatus, TaskStatus, MainPC

\* While a run is under way, or after one has succeeded, there is a current run.
RunHasNumber == (main # "idle" \/ job = "completed") => n \in Runs

LEMMA NextTypes ==
  ASSUME TypeOK, RunHasNumber, [Next]_vars
  PROVE  TypeOK'
<1> USE DEF TypeOK, JobStatus, TaskStatus, MainPC, jobVars, runVars, chanVars
<1>1. ASSUME StartRun
      PROVE  TypeOK'
  <2>1. n' \in 0 .. MaxRuns
    BY <1>1, TableAssumption DEF StartRun
  <2>2. alone' \in BOOLEAN
    BY <1>1, Zenon DEF StartRun
  <2>3. QED
    BY <1>1, <2>1, <2>2 DEF StartRun
<1>2. ASSUME PauseRun
      PROVE  TypeOK'
  BY <1>2 DEF PauseRun
<1>3. ASSUME Begin
      PROVE  TypeOK'
  BY <1>3 DEF Begin, Completed
<1>4. ASSUME NothingLeft
      PROVE  TypeOK'
  BY <1>4 DEF NothingLeft
<1>5. ASSUME Scanned
      PROVE  TypeOK'
  <2>1. counted' \in Nat
    <3>1. Cardinality(seen) \in Nat
      BY CountIsNat
    <3>2. Cardinality({t \in Tables : Skips(t)}) \in Nat
      BY CountIsNat
    <3>3. QED
      BY <1>5, <3>1, <3>2 DEF Scanned
  <2>2. pending' \in [Runs -> SUBSET Tables]
    BY <1>5 DEF Scanned, Remaining
  <2>3. QED
    BY <1>5, <2>1, <2>2 DEF Scanned
<1>6. ASSUME Launched
      PROVE  TypeOK'
  BY <1>6 DEF Launched
<1>7. ASSUME SeeStop
      PROVE  TypeOK'
  BY <1>7 DEF SeeStop
<1>8. ASSUME Fail
      PROVE  TypeOK'
  BY <1>8 DEF Fail
<1>9. ASSUME Finish
      PROVE  TypeOK'
  BY <1>9 DEF Finish
<1>10. ASSUME Settle
      PROVE  TypeOK'
  BY <1>10 DEF Settle
<1>11. ASSUME NEW t \in Tables, Visit(t)
      PROVE  TypeOK'
  BY <1>11 DEF Visit
<1>12. ASSUME NEW t \in Tables, Launch(t)
      PROVE  TypeOK'
  <2>1. n \in Runs
    BY <1>12 DEF Launch, RunHasNumber
  <2>2. worker' = [worker EXCEPT ![n][t].pc = "spawned"] /\ "spawned" \in WorkerPC
    BY <1>12 DEF Launch, WorkerPC
  <2>3. worker' \in [Runs -> [Tables -> Worker]]
    BY <2>1, <2>2, WorkerMove
  <2>4. QED
    BY <1>12, <2>3 DEF Launch
<1>13. ASSUME NEW t \in Tables, HearDone(t)
      PROVE  TypeOK'
  <2>1. done' \in [Runs -> SUBSET Tables]
    BY <1>13 DEF HearDone
  <2>2. counted' \in Nat /\ heard' \subseteq Tables
    BY <1>13 DEF HearDone, RunHasNumber
  <2>3. QED
    BY <1>13, <2>1, <2>2 DEF HearDone
<1>14. ASSUME NEW t \in Tables, HearError(t)
      PROVE  TypeOK'
  BY <1>14 DEF HearError
<1>15. ASSUME NEW r \in Runs, NEW t \in Tables, Take(r, t)
      PROVE  TypeOK'
  <2>1. worker' = [worker EXCEPT ![r][t].pc = "copying"] /\ "copying" \in WorkerPC
    BY <1>15 DEF Take, WorkerPC
  <2>2. worker' \in [Runs -> [Tables -> Worker]]
    BY <2>1, WorkerMove
  <2>3. QED
    BY <1>15, <2>2 DEF Take
<1>16. ASSUME NEW r \in Runs, NEW t \in Tables, CopyReturns(r, t)
      PROVE  TypeOK'
  <2>1. PICK pc \in WorkerPC : worker' = [worker EXCEPT ![r][t].pc = pc]
    BY <1>16 DEF CopyReturns, WorkerPC
  <2>2. worker' \in [Runs -> [Tables -> Worker]]
    BY <2>1, WorkerMove
  <2>3. QED
    BY <1>16, <2>2 DEF CopyReturns
<1>17. ASSUME NEW r \in Runs, NEW t \in Tables, GiveUp(r, t)
      PROVE  TypeOK'
  <2>1. PICK w \in Worker : worker' = [worker EXCEPT ![r][t] = w]
    BY <1>17 DEF GiveUp, Worker, WorkerPC
  <2>2. worker' \in [Runs -> [Tables -> Worker]]
    BY <2>1, WorkerSettles
  <2>3. QED
    BY <1>17, <2>2 DEF GiveUp
<1>18. ASSUME NEW r \in Runs, NEW t \in Tables, Complete(r, t)
      PROVE  TypeOK'
  <2>1. PICK w \in Worker : worker' = [worker EXCEPT ![r][t] = w]
    BY <1>18 DEF Complete, Worker, WorkerPC
  <2>2. worker' \in [Runs -> [Tables -> Worker]]
    BY <2>1, WorkerSettles
  <2>3. QED
    BY <1>18, <2>2 DEF Complete
<1>19. ASSUME NEW r \in Runs, NEW t \in Tables, ReportError(r, t)
      PROVE  TypeOK'
  <2>1. worker' = [worker EXCEPT ![r][t].pc = "leaving"] /\ "leaving" \in WorkerPC
    BY <1>19 DEF ReportError, WorkerPC
  <2>2. worker' \in [Runs -> [Tables -> Worker]]
    BY <2>1, WorkerMove
  <2>3. QED
    BY <1>19, <2>2 DEF ReportError
<1>20. ASSUME NEW r \in Runs, NEW t \in Tables, Leave(r, t)
      PROVE  TypeOK'
  <2>1. worker' = [worker EXCEPT ![r][t].pc = "over"] /\ "over" \in WorkerPC
    BY <1>20 DEF Leave, WorkerPC
  <2>2. worker' \in [Runs -> [Tables -> Worker]]
    BY <2>1, WorkerMove
  <2>3. QED
    BY <1>20, <2>2 DEF Leave
<1>21. CASE UNCHANGED vars
  BY <1>21 DEF vars
<1>22. QED
  BY <1>1, <1>2, <1>3, <1>4, <1>5, <1>6, <1>7, <1>8, <1>9, <1>10, <1>11, <1>12,
     <1>13, <1>14, <1>15, <1>16, <1>17, <1>18, <1>19, <1>20, <1>21
     DEF Next, MainNext, WorkerNext

LEMMA NumberStep ==
  ASSUME TypeOK, RunHasNumber, [Next]_vars
  PROVE  RunHasNumber'
<1> USE DEF TypeOK, RunHasNumber, Runs, jobVars, runVars, chanVars
<1>1. ASSUME StartRun
      PROVE  RunHasNumber'
  BY <1>1, TableAssumption DEF StartRun
<1>2. ASSUME PauseRun
      PROVE  RunHasNumber'
  BY <1>2 DEF PauseRun
<1>3. ASSUME Begin
      PROVE  RunHasNumber'
  BY <1>3 DEF Begin
<1>4. ASSUME NothingLeft
      PROVE  RunHasNumber'
  BY <1>4 DEF NothingLeft
<1>5. ASSUME Scanned
      PROVE  RunHasNumber'
  BY <1>5 DEF Scanned
<1>6. ASSUME Launched
      PROVE  RunHasNumber'
  BY <1>6 DEF Launched
<1>7. ASSUME SeeStop
      PROVE  RunHasNumber'
  BY <1>7 DEF SeeStop
<1>8. ASSUME Fail
      PROVE  RunHasNumber'
  BY <1>8 DEF Fail
<1>9. ASSUME Finish
      PROVE  RunHasNumber'
  BY <1>9 DEF Finish
<1>10. ASSUME Settle
      PROVE  RunHasNumber'
  BY <1>10 DEF Settle
<1>11. ASSUME NEW t \in Tables, Visit(t)
      PROVE  RunHasNumber'
  BY <1>11 DEF Visit
<1>12. ASSUME NEW t \in Tables, Launch(t)
      PROVE  RunHasNumber'
  BY <1>12 DEF Launch
<1>13. ASSUME NEW t \in Tables, HearDone(t)
      PROVE  RunHasNumber'
  BY <1>13 DEF HearDone
<1>14. ASSUME NEW t \in Tables, HearError(t)
      PROVE  RunHasNumber'
  BY <1>14 DEF HearError
<1>15. ASSUME NEW r \in Runs, NEW t \in Tables, Take(r, t)
      PROVE  RunHasNumber'
  BY <1>15 DEF Take
<1>16. ASSUME NEW r \in Runs, NEW t \in Tables, CopyReturns(r, t)
      PROVE  RunHasNumber'
  BY <1>16 DEF CopyReturns
<1>17. ASSUME NEW r \in Runs, NEW t \in Tables, GiveUp(r, t)
      PROVE  RunHasNumber'
  BY <1>17 DEF GiveUp
<1>18. ASSUME NEW r \in Runs, NEW t \in Tables, Complete(r, t)
      PROVE  RunHasNumber'
  BY <1>18 DEF Complete
<1>19. ASSUME NEW r \in Runs, NEW t \in Tables, ReportError(r, t)
      PROVE  RunHasNumber'
  BY <1>19 DEF ReportError
<1>20. ASSUME NEW r \in Runs, NEW t \in Tables, Leave(r, t)
      PROVE  RunHasNumber'
  BY <1>20 DEF Leave
<1>21. CASE UNCHANGED vars
  BY <1>21 DEF vars
<1>22. QED
  BY <1>1, <1>2, <1>3, <1>4, <1>5, <1>6, <1>7, <1>8, <1>9, <1>10, <1>11, <1>12,
     <1>13, <1>14, <1>15, <1>16, <1>17, <1>18, <1>19, <1>20, <1>21
     DEF Next, MainNext, WorkerNext

\* Every variable keeps its type.
THEOREM TypeCorrect == Spec => [](TypeOK /\ RunHasNumber)
<1>1. Init => TypeOK /\ RunHasNumber
  BY InitTypes DEF Init, RunHasNumber
<1>2. TypeOK /\ RunHasNumber /\ [Next]_vars => TypeOK' /\ RunHasNumber'
  BY NextTypes, NumberStep
<1>3. QED
  BY <1>1, <1>2, PTL DEF Spec

\* A worker that is over stays as it is, and the job keeps its type.
OverStays ==
  /\ mode' = mode
  /\ \A q \in Runs, u \in Tables : worker[q][u].pc = "over" => worker'[q][u] = worker[q][u]

LEMMA OverIsOver ==
  ASSUME TypeOK, RunHasNumber, [Next]_vars
  PROVE  OverStays
<1> USE DEF TypeOK, OverStays, jobVars, runVars, chanVars
<1>1. ASSUME StartRun
      PROVE  OverStays
  BY <1>1 DEF StartRun
<1>2. ASSUME PauseRun
      PROVE  OverStays
  BY <1>2 DEF PauseRun
<1>3. ASSUME Begin
      PROVE  OverStays
  BY <1>3 DEF Begin
<1>4. ASSUME NothingLeft
      PROVE  OverStays
  BY <1>4 DEF NothingLeft
<1>5. ASSUME Scanned
      PROVE  OverStays
  BY <1>5 DEF Scanned
<1>6. ASSUME Launched
      PROVE  OverStays
  BY <1>6 DEF Launched
<1>7. ASSUME SeeStop
      PROVE  OverStays
  BY <1>7 DEF SeeStop
<1>8. ASSUME Fail
      PROVE  OverStays
  BY <1>8 DEF Fail
<1>9. ASSUME Finish
      PROVE  OverStays
  BY <1>9 DEF Finish
<1>10. ASSUME Settle
      PROVE  OverStays
  BY <1>10 DEF Settle
<1>11. ASSUME NEW t \in Tables, Visit(t)
      PROVE  OverStays
  BY <1>11 DEF Visit
<1>12. ASSUME NEW t \in Tables, Launch(t)
      PROVE  OverStays
  <2>1. n \in Runs
    BY <1>12 DEF Launch, RunHasNumber
  <2>2. worker' = [worker EXCEPT ![n][t].pc = "spawned"] /\ "spawned" \in WorkerPC
    BY <1>12 DEF Launch, WorkerPC
  <2>3. worker[n][t].pc # "over"
    BY <1>12 DEF Launch
  <2>4. QED
    BY <1>12, <2>1, <2>2, <2>3, WorkerMove DEF Launch
<1>13. ASSUME NEW t \in Tables, HearDone(t)
      PROVE  OverStays
  BY <1>13 DEF HearDone
<1>14. ASSUME NEW t \in Tables, HearError(t)
      PROVE  OverStays
  BY <1>14 DEF HearError
<1>15. ASSUME NEW r \in Runs, NEW t \in Tables, Take(r, t)
      PROVE  OverStays
  <2>1. worker' = [worker EXCEPT ![r][t].pc = "copying"] /\ "copying" \in WorkerPC
    BY <1>15 DEF Take, WorkerPC
  <2>2. worker[r][t].pc # "over"
    BY <1>15 DEF Take
  <2>3. QED
    BY <1>15, <2>1, <2>2, WorkerMove DEF Take
<1>16. ASSUME NEW r \in Runs, NEW t \in Tables, CopyReturns(r, t)
      PROVE  OverStays
  <2>1. PICK pc \in WorkerPC : worker' = [worker EXCEPT ![r][t].pc = pc]
    BY <1>16 DEF CopyReturns, WorkerPC
  <2>2. worker[r][t].pc # "over"
    BY <1>16 DEF CopyReturns
  <2>3. QED
    BY <1>16, <2>1, <2>2, WorkerMove DEF CopyReturns
<1>17. ASSUME NEW r \in Runs, NEW t \in Tables, GiveUp(r, t)
      PROVE  OverStays
  <2>1. PICK w \in Worker : worker' = [worker EXCEPT ![r][t] = w]
    BY <1>17 DEF GiveUp, Worker, WorkerPC
  <2>2. worker[r][t].pc # "over"
    BY <1>17 DEF GiveUp
  <2>3. QED
    BY <1>17, <2>1, <2>2, WorkerSettles DEF GiveUp
<1>18. ASSUME NEW r \in Runs, NEW t \in Tables, Complete(r, t)
      PROVE  OverStays
  <2>1. PICK w \in Worker : worker' = [worker EXCEPT ![r][t] = w]
    BY <1>18 DEF Complete, Worker, WorkerPC
  <2>2. worker[r][t].pc # "over"
    BY <1>18 DEF Complete
  <2>3. QED
    BY <1>18, <2>1, <2>2, WorkerSettles DEF Complete
<1>19. ASSUME NEW r \in Runs, NEW t \in Tables, ReportError(r, t)
      PROVE  OverStays
  <2>1. worker' = [worker EXCEPT ![r][t].pc = "leaving"] /\ "leaving" \in WorkerPC
    BY <1>19 DEF ReportError, WorkerPC
  <2>2. worker[r][t].pc # "over"
    BY <1>19 DEF ReportError
  <2>3. QED
    BY <1>19, <2>1, <2>2, WorkerMove DEF ReportError
<1>20. ASSUME NEW r \in Runs, NEW t \in Tables, Leave(r, t)
      PROVE  OverStays
  <2>1. worker' = [worker EXCEPT ![r][t].pc = "over"] /\ "over" \in WorkerPC
    BY <1>20 DEF Leave, WorkerPC
  <2>2. worker[r][t].pc # "over"
    BY <1>20 DEF Leave
  <2>3. QED
    BY <1>20, <2>1, <2>2, WorkerMove DEF Leave
<1>21. CASE UNCHANGED vars
  BY <1>21 DEF vars
<1>22. QED
  BY <1>1, <1>2, <1>3, <1>4, <1>5, <1>6, <1>7, <1>8, <1>9, <1>10, <1>11, <1>12,
     <1>13, <1>14, <1>15, <1>16, <1>17, <1>18, <1>19, <1>20, <1>21
     DEF Next, MainNext, WorkerNext

\* Every worker but one stays where it is.
OthersSame(r, t) ==
  \A q \in Runs, u \in Tables : q # r \/ u # t => worker'[q][u] = worker[q][u]

LEMMA OneWorkerMoves ==
  ASSUME RunningTaskHasWorker, NEW r \in Runs, NEW t \in Tables, OthersSame(r, t),
         \A u \in Tables : u # t => task'[u] = task[u],
         task'[t] = "running" =>
           Writing(r, t)' \/ (task[t] = "running" /\ ~ Writing(r, t))
  PROVE  RunningTaskHasWorker'
<1> SUFFICES ASSUME NEW u \in Tables, task'[u] = "running"
             PROVE  \E q \in Runs : Writing(q, u)'
  BY DEF RunningTaskHasWorker
<1>1. CASE u = t /\ Writing(r, t)'
  BY <1>1
<1>2. CASE u = t /\ task[t] = "running" /\ ~ Writing(r, t)
  <2>1. PICK q \in Runs : Writing(q, t)
    BY <1>2 DEF RunningTaskHasWorker
  <2>2. worker'[q][t] = worker[q][t]
    BY <1>2, <2>1 DEF OthersSame
  <2>3. QED
    BY <1>2, <2>1, <2>2 DEF Writing
<1>3. CASE u # t
  <2>1. PICK q \in Runs : Writing(q, u)
    BY <1>3 DEF RunningTaskHasWorker
  <2>2. worker'[q][u] = worker[q][u]
    BY <1>3 DEF OthersSame
  <2>3. QED
    BY <2>1, <2>2 DEF Writing
<1>4. QED
  BY <1>1, <1>2, <1>3

LEMMA RunningTaskStep ==
  ASSUME TypeOK, RunHasNumber, RunningTaskHasWorker, [Next]_vars
  PROVE  RunningTaskHasWorker'
<1> USE DEF TypeOK, jobVars, runVars, chanVars
<1>1. ASSUME StartRun
      PROVE  RunningTaskHasWorker'
  BY <1>1 DEF StartRun, RunningTaskHasWorker, Writing
<1>2. ASSUME PauseRun
      PROVE  RunningTaskHasWorker'
  BY <1>2 DEF PauseRun, RunningTaskHasWorker, Writing
<1>3. ASSUME Begin
      PROVE  RunningTaskHasWorker'
  BY <1>3 DEF Begin, RunningTaskHasWorker, Writing
<1>4. ASSUME NothingLeft
      PROVE  RunningTaskHasWorker'
  BY <1>4 DEF NothingLeft, RunningTaskHasWorker, Writing
<1>5. ASSUME Scanned
      PROVE  RunningTaskHasWorker'
  BY <1>5 DEF Scanned, RunningTaskHasWorker, Writing
<1>6. ASSUME Launched
      PROVE  RunningTaskHasWorker'
  BY <1>6 DEF Launched, RunningTaskHasWorker, Writing
<1>7. ASSUME SeeStop
      PROVE  RunningTaskHasWorker'
  BY <1>7 DEF SeeStop, RunningTaskHasWorker, Writing
<1>8. ASSUME Fail
      PROVE  RunningTaskHasWorker'
  BY <1>8 DEF Fail, RunningTaskHasWorker, Writing
<1>9. ASSUME Finish
      PROVE  RunningTaskHasWorker'
  BY <1>9 DEF Finish, RunningTaskHasWorker, Writing
<1>10. ASSUME Settle
      PROVE  RunningTaskHasWorker'
  BY <1>10 DEF Settle, RunningTaskHasWorker, Writing
<1>11. ASSUME NEW t \in Tables, Visit(t)
      PROVE  RunningTaskHasWorker'
  <2>1. \A u \in Tables : task'[u] = "running" => task[u] = "running"
    BY <1>11 DEF Visit
  <2>2. worker' = worker
    BY <1>11 DEF Visit
  <2>3. QED
    BY <2>1, <2>2 DEF RunningTaskHasWorker, Writing
<1>12. ASSUME NEW t \in Tables, Launch(t)
      PROVE  RunningTaskHasWorker'
  <2>1. n \in Runs
    BY <1>12 DEF Launch, RunHasNumber
  <2>2. worker' = [worker EXCEPT ![n][t].pc = "spawned"] /\ "spawned" \in WorkerPC
    BY <1>12 DEF Launch, WorkerPC
  <2>3. OthersSame(n, t)
    BY <2>1, <2>2, WorkerMove DEF OthersSame
  <2>4. task' = task /\ ~ Writing(n, t)
    BY <1>12 DEF Launch, Writing
  <2>5. QED
    BY <2>1, <2>3, <2>4, OneWorkerMoves
<1>13. ASSUME NEW t \in Tables, HearDone(t)
      PROVE  RunningTaskHasWorker'
  BY <1>13 DEF HearDone, RunningTaskHasWorker, Writing
<1>14. ASSUME NEW t \in Tables, HearError(t)
      PROVE  RunningTaskHasWorker'
  BY <1>14 DEF HearError, RunningTaskHasWorker, Writing
<1>15. ASSUME NEW r \in Runs, NEW t \in Tables, Take(r, t)
      PROVE  RunningTaskHasWorker'
  <2>1. worker' = [worker EXCEPT ![r][t].pc = "copying"] /\ "copying" \in WorkerPC
    BY <1>15 DEF Take, WorkerPC
  <2>2. worker'[r][t].pc = "copying" /\ OthersSame(r, t)
    BY <2>1, WorkerMove DEF OthersSame
  <2>3. QED
    BY <1>15, <2>2, OneWorkerMoves DEF Take, Writing
<1>16. ASSUME NEW r \in Runs, NEW t \in Tables, CopyReturns(r, t)
      PROVE  RunningTaskHasWorker'
  <2>1. PICK pc \in {"erred", "copied"} : worker' = [worker EXCEPT ![r][t].pc = pc]
    BY <1>16 DEF CopyReturns
  <2>2. pc \in WorkerPC
    BY DEF WorkerPC
  <2>3. worker'[r][t].pc = pc /\ OthersSame(r, t)
    BY <2>1, <2>2, WorkerMove DEF OthersSame
  <2>4. Writing(r, t)' /\ task' = task
    BY <1>16, <2>3 DEF CopyReturns, Writing
  <2>5. QED
    BY <2>3, <2>4, OneWorkerMoves
<1>17. ASSUME NEW r \in Runs, NEW t \in Tables, GiveUp(r, t)
      PROVE  RunningTaskHasWorker'
  <2>1. PICK w \in Worker : worker' = [worker EXCEPT ![r][t] = w]
    BY <1>17 DEF GiveUp, Worker, WorkerPC
  <2>2. OthersSame(r, t)
    BY <2>1, WorkerSettles DEF OthersSame
  <2>3. task'[t] # "running" /\ \A u \in Tables : u # t => task'[u] = task[u]
    BY <1>17 DEF GiveUp
  <2>4. QED
    BY <2>2, <2>3, OneWorkerMoves
<1>18. ASSUME NEW r \in Runs, NEW t \in Tables, Complete(r, t)
      PROVE  RunningTaskHasWorker'
  <2>1. PICK w \in Worker : worker' = [worker EXCEPT ![r][t] = w]
    BY <1>18 DEF Complete, Worker, WorkerPC
  <2>2. OthersSame(r, t)
    BY <2>1, WorkerSettles DEF OthersSame
  <2>3. task'[t] # "running" /\ \A u \in Tables : u # t => task'[u] = task[u]
    BY <1>18 DEF Complete
  <2>4. QED
    BY <2>2, <2>3, OneWorkerMoves
<1>19. ASSUME NEW r \in Runs, NEW t \in Tables, ReportError(r, t)
      PROVE  RunningTaskHasWorker'
  <2>1. worker' = [worker EXCEPT ![r][t].pc = "leaving"] /\ "leaving" \in WorkerPC
    BY <1>19 DEF ReportError, WorkerPC
  <2>2. worker'[r][t].pc = "leaving" /\ OthersSame(r, t)
    BY <2>1, WorkerMove DEF OthersSame
  <2>3. QED
    BY <1>19, <2>2, OneWorkerMoves DEF ReportError, Writing
<1>20. ASSUME NEW r \in Runs, NEW t \in Tables, Leave(r, t)
      PROVE  RunningTaskHasWorker'
  <2>1. worker' = [worker EXCEPT ![r][t].pc = "over"] /\ "over" \in WorkerPC
    BY <1>20 DEF Leave, WorkerPC
  <2>2. worker'[r][t].pc = "over" /\ OthersSame(r, t)
    BY <2>1, WorkerMove DEF OthersSame
  <2>3. QED
    BY <1>20, <2>2, OneWorkerMoves DEF Leave, Writing
<1>21. CASE UNCHANGED vars
  BY <1>21 DEF vars, RunningTaskHasWorker, Writing
<1>22. QED
  BY <1>1, <1>2, <1>3, <1>4, <1>5, <1>6, <1>7, <1>8, <1>9, <1>10, <1>11, <1>12,
     <1>13, <1>14, <1>15, <1>16, <1>17, <1>18, <1>19, <1>20, <1>21
     DEF Next, MainNext, WorkerNext

\* A worker past its last write to the task row remembers what it wrote.
LeftIsSet ==
  \A r \in Runs, t \in Tables :
    worker[r][t].pc \in {"reporting", "leaving", "over"} => worker[r][t].left # "none"

LEMMA LeftStep ==
  ASSUME TypeOK, RunHasNumber, LeftIsSet, [Next]_vars
  PROVE  LeftIsSet'
<1> USE DEF TypeOK, LeftIsSet, jobVars, runVars, chanVars
<1>1. ASSUME StartRun
      PROVE  LeftIsSet'
  BY <1>1 DEF StartRun
<1>2. ASSUME PauseRun
      PROVE  LeftIsSet'
  BY <1>2 DEF PauseRun
<1>3. ASSUME Begin
      PROVE  LeftIsSet'
  BY <1>3 DEF Begin
<1>4. ASSUME NothingLeft
      PROVE  LeftIsSet'
  BY <1>4 DEF NothingLeft
<1>5. ASSUME Scanned
      PROVE  LeftIsSet'
  BY <1>5 DEF Scanned
<1>6. ASSUME Launched
      PROVE  LeftIsSet'
  BY <1>6 DEF Launched
<1>7. ASSUME SeeStop
      PROVE  LeftIsSet'
  BY <1>7 DEF SeeStop
<1>8. ASSUME Fail
      PROVE  LeftIsSet'
  BY <1>8 DEF Fail
<1>9. ASSUME Finish
      PROVE  LeftIsSet'
  BY <1>9 DEF Finish
<1>10. ASSUME Settle
      PROVE  LeftIsSet'
  BY <1>10 DEF Settle
<1>11. ASSUME NEW t \in Tables, Visit(t)
      PROVE  LeftIsSet'
  BY <1>11 DEF Visit
<1>12. ASSUME NEW t \in Tables, Launch(t)
      PROVE  LeftIsSet'
  <2>1. n \in Runs
    BY <1>12 DEF Launch, RunHasNumber
  <2>2. worker' = [worker EXCEPT ![n][t].pc = "spawned"] /\ "spawned" \in WorkerPC
    BY <1>12 DEF Launch, WorkerPC
  <2>3. QED
    BY <1>12, <2>1, <2>2, WorkerMove DEF Launch
<1>13. ASSUME NEW t \in Tables, HearDone(t)
      PROVE  LeftIsSet'
  BY <1>13 DEF HearDone
<1>14. ASSUME NEW t \in Tables, HearError(t)
      PROVE  LeftIsSet'
  BY <1>14 DEF HearError
<1>15. ASSUME NEW r \in Runs, NEW t \in Tables, Take(r, t)
      PROVE  LeftIsSet'
  <2>1. worker' = [worker EXCEPT ![r][t].pc = "copying"] /\ "copying" \in WorkerPC
    BY <1>15 DEF Take, WorkerPC
  <2>2. QED
    BY <1>15, <2>1, WorkerMove DEF Take
<1>16. ASSUME NEW r \in Runs, NEW t \in Tables, CopyReturns(r, t)
      PROVE  LeftIsSet'
  <2>1. PICK pc \in {"erred", "copied"} : worker' = [worker EXCEPT ![r][t].pc = pc]
    BY <1>16 DEF CopyReturns
  <2>2. pc \in WorkerPC
    BY DEF WorkerPC
  <2>3. worker'[r][t].pc = pc /\ \A q \in Runs, u \in Tables :
          q # r \/ u # t => worker'[q][u] = worker[q][u]
    BY <2>1, <2>2, WorkerMove
  <2>4. QED
    BY <2>3
<1>17. ASSUME NEW r \in Runs, NEW t \in Tables, GiveUp(r, t)
      PROVE  LeftIsSet'
  <2>1. PICK w \in Worker : worker' = [worker EXCEPT ![r][t] = w] /\ w.left # "none"
    <3> DEFINE pcs == {"reporting", "leaving"}
               left == {"paused", "failed", "completed"}
    <3>1. \E p \in pcs, l \in left : worker' = [worker EXCEPT ![r][t] = [pc |-> p, left |-> l]]
      BY <1>17 DEF GiveUp
    <3>2. \A p \in pcs, l \in left : [pc |-> p, left |-> l] \in Worker
      BY DEF Worker, WorkerPC
    <3>3. QED
      BY <3>1, <3>2
  <2>2. QED
    BY <1>17, <2>1, WorkerSettles DEF GiveUp
<1>18. ASSUME NEW r \in Runs, NEW t \in Tables, Complete(r, t)
      PROVE  LeftIsSet'
  <2>1. PICK w \in Worker : worker' = [worker EXCEPT ![r][t] = w] /\ w.left # "none"
    <3> DEFINE pcs == {"reporting", "leaving"}
               left == {"paused", "failed", "completed"}
    <3>1. \E p \in pcs, l \in left : worker' = [worker EXCEPT ![r][t] = [pc |-> p, left |-> l]]
      BY <1>18 DEF Complete
    <3>2. \A p \in pcs, l \in left : [pc |-> p, left |-> l] \in Worker
      BY DEF Worker, WorkerPC
    <3>3. QED
      BY <3>1, <3>2
  <2>2. QED
    BY <1>18, <2>1, WorkerSettles DEF Complete
<1>19. ASSUME NEW r \in Runs, NEW t \in Tables, ReportError(r, t)
      PROVE  LeftIsSet'
  <2>1. worker' = [worker EXCEPT ![r][t].pc = "leaving"] /\ "leaving" \in WorkerPC
    BY <1>19 DEF ReportError, WorkerPC
  <2>2. QED
    BY <1>19, <2>1, WorkerMove DEF ReportError
<1>20. ASSUME NEW r \in Runs, NEW t \in Tables, Leave(r, t)
      PROVE  LeftIsSet'
  <2>1. worker' = [worker EXCEPT ![r][t].pc = "over"] /\ "over" \in WorkerPC
    BY <1>20 DEF Leave, WorkerPC
  <2>2. QED
    BY <1>20, <2>1, WorkerMove DEF Leave
<1>21. CASE UNCHANGED vars
  BY <1>21 DEF vars
<1>22. QED
  BY <1>1, <1>2, <1>3, <1>4, <1>5, <1>6, <1>7, <1>8, <1>9, <1>10, <1>11, <1>12,
     <1>13, <1>14, <1>15, <1>16, <1>17, <1>18, <1>19, <1>20, <1>21
     DEF Next, MainNext, WorkerNext

\* A message on done comes from a worker that is over, and in an incremental
\* run from one that succeeded ...
MessagesFromFinished ==
  \A r \in Runs : \A t \in done[r] : worker[r][t].pc = "over" /\ SendsDone(r, t)

LEMMA MessageStep ==
  ASSUME TypeOK, RunHasNumber, MessagesFromFinished, [Next]_vars
  PROVE  MessagesFromFinished'
<1>a. OverStays
  BY OverIsOver
<1> USE <1>a DEF TypeOK, OverStays, MessagesFromFinished, SendsDone, jobVars, runVars, chanVars
<1>1. ASSUME StartRun
      PROVE  MessagesFromFinished'
  BY <1>1 DEF StartRun
<1>2. ASSUME PauseRun
      PROVE  MessagesFromFinished'
  BY <1>2 DEF PauseRun
<1>3. ASSUME Begin
      PROVE  MessagesFromFinished'
  BY <1>3 DEF Begin
<1>4. ASSUME NothingLeft
      PROVE  MessagesFromFinished'
  BY <1>4 DEF NothingLeft
<1>5. ASSUME Scanned
      PROVE  MessagesFromFinished'
  BY <1>5 DEF Scanned
<1>6. ASSUME Launched
      PROVE  MessagesFromFinished'
  BY <1>6 DEF Launched
<1>7. ASSUME SeeStop
      PROVE  MessagesFromFinished'
  BY <1>7 DEF SeeStop
<1>8. ASSUME Fail
      PROVE  MessagesFromFinished'
  BY <1>8 DEF Fail
<1>9. ASSUME Finish
      PROVE  MessagesFromFinished'
  BY <1>9 DEF Finish
<1>10. ASSUME Settle
      PROVE  MessagesFromFinished'
  BY <1>10 DEF Settle
<1>11. ASSUME NEW t \in Tables, Visit(t)
      PROVE  MessagesFromFinished'
  BY <1>11 DEF Visit
<1>12. ASSUME NEW t \in Tables, Launch(t)
      PROVE  MessagesFromFinished'
  BY <1>12 DEF Launch
<1>13. ASSUME NEW t \in Tables, HearDone(t)
      PROVE  MessagesFromFinished'
  <2>1. \A r \in Runs : done'[r] \subseteq done[r]
    BY <1>13 DEF HearDone
  <2>2. QED
    BY <2>1
<1>14. ASSUME NEW t \in Tables, HearError(t)
      PROVE  MessagesFromFinished'
  BY <1>14 DEF HearError
<1>15. ASSUME NEW r \in Runs, NEW t \in Tables, Take(r, t)
      PROVE  MessagesFromFinished'
  BY <1>15 DEF Take
<1>16. ASSUME NEW r \in Runs, NEW t \in Tables, CopyReturns(r, t)
      PROVE  MessagesFromFinished'
  BY <1>16 DEF CopyReturns
<1>17. ASSUME NEW r \in Runs, NEW t \in Tables, GiveUp(r, t)
      PROVE  MessagesFromFinished'
  BY <1>17 DEF GiveUp
<1>18. ASSUME NEW r \in Runs, NEW t \in Tables, Complete(r, t)
      PROVE  MessagesFromFinished'
  BY <1>18 DEF Complete
<1>19. ASSUME NEW r \in Runs, NEW t \in Tables, ReportError(r, t)
      PROVE  MessagesFromFinished'
  BY <1>19 DEF ReportError
<1>20. ASSUME NEW r \in Runs, NEW t \in Tables, Leave(r, t)
      PROVE  MessagesFromFinished'
  <2>1. worker' = [worker EXCEPT ![r][t].pc = "over"] /\ "over" \in WorkerPC
    BY <1>20 DEF Leave, WorkerPC
  <2>2. worker'[r][t].pc = "over" /\ worker'[r][t].left = worker[r][t].left
    BY <2>1, WorkerMove
  <2>3. \A q \in Runs : \A u \in done'[q] :
          u \in done[q] \/ (q = r /\ u = t /\ SendsDone(r, t))
    BY <1>20 DEF Leave
  <2>4. ASSUME NEW q \in Runs, NEW u \in done[q]
        PROVE  worker'[q][u].pc = "over" /\ SendsDone(q, u)'
    <3>1. u \in Tables /\ worker[q][u].pc = "over" /\ SendsDone(q, u)
      OBVIOUS
    <3>2. worker'[q][u] = worker[q][u] /\ mode' = mode
      BY <3>1
    <3>3. QED
      BY <3>1, <3>2 DEF SendsDone
  <2>5. SendsDone(r, t) => SendsDone(r, t)'
    BY <2>2 DEF SendsDone
  <2>6. QED
    BY <2>2, <2>3, <2>4, <2>5
<1>21. CASE UNCHANGED vars
  BY <1>21 DEF vars
<1>22. QED
  BY <1>1, <1>2, <1>3, <1>4, <1>5, <1>6, <1>7, <1>8, <1>9, <1>10, <1>11, <1>12,
     <1>13, <1>14, <1>15, <1>16, <1>17, <1>18, <1>19, <1>20, <1>21
     DEF Next, MainNext, WorkerNext

\* ... and so does every message the collector has counted; a run succeeds
\* once it has counted one of each.
Counting == main \in {"scanning", "launching", "collecting"} \/ (main = "idle" /\ job = "completed")

\* A run that has not been through its tables has nothing pending yet, and
\* has heard from nobody.
FreshRun ==
  /\ \A r \in Runs :
       r > n \/ (r = n /\ main \in {"connecting", "scanning"}) => pending[r] = {}
  /\ main = "scanning" => heard = {}

LEMMA FreshStep ==
  ASSUME TypeOK, RunHasNumber, FreshRun, [Next]_vars
  PROVE  FreshRun'
<1> USE DEF TypeOK, FreshRun, RunHasNumber, Runs, jobVars, runVars, chanVars
<1>1. CASE StartRun
  BY <1>1, TableAssumption DEF StartRun
<1>2. CASE Begin \/ NothingLeft \/ Scanned \/ Launched \/ SeeStop \/ Fail \/ Finish \/ Settle
  BY <1>2, TableAssumption DEF Begin, NothingLeft, Scanned, Launched, SeeStop, Fail, Finish, Settle
<1>3. ASSUME NEW t \in Tables, Visit(t) \/ Launch(t) \/ HearDone(t) \/ HearError(t)
      PROVE  FreshRun'
  BY <1>3 DEF Visit, Launch, HearDone, HearError
<1>4. ASSUME NEW r \in Runs, NEW t \in Tables, WorkerNext(r, t)
      PROVE  FreshRun'
  BY <1>4 DEF WorkerNext, Take, CopyReturns, GiveUp, Complete, ReportError, Leave
<1>5. CASE PauseRun \/ UNCHANGED vars
  BY <1>5 DEF PauseRun, vars
<1>6. QED
  BY <1>1, <1>2, <1>3, <1>4, <1>5 DEF Next, MainNext

HeardFromFinished ==
  /\ Counting => \A t \in heard : worker[n][t].pc = "over" /\ SendsDone(n, t)
  /\ main = "idle" /\ job = "completed" => heard = pending[n]

LEMMA HeardStep ==
  ASSUME TypeOK, RunHasNumber, MessagesFromFinished, FreshRun, HeardFromFinished,
         [Next]_vars
  PROVE  HeardFromFinished'
<1>a. OverStays
  BY OverIsOver
<1> USE <1>a DEF TypeOK, OverStays, HeardFromFinished, Counting, SendsDone, RunHasNumber,
        jobVars, runVars, chanVars
<1>1. ASSUME StartRun
      PROVE  HeardFromFinished'
  BY <1>1 DEF StartRun
<1>2. ASSUME PauseRun
      PROVE  HeardFromFinished'
  BY <1>2 DEF PauseRun
<1>3. ASSUME Begin
      PROVE  HeardFromFinished'
  BY <1>3 DEF Begin
<1>4. ASSUME NothingLeft
      PROVE  HeardFromFinished'
  BY <1>4 DEF NothingLeft, FreshRun
<1>5. ASSUME Scanned
      PROVE  HeardFromFinished'
  BY <1>5 DEF Scanned
<1>6. ASSUME Launched
      PROVE  HeardFromFinished'
  BY <1>6 DEF Launched
<1>7. ASSUME SeeStop
      PROVE  HeardFromFinished'
  BY <1>7 DEF SeeStop
<1>8. ASSUME Fail
      PROVE  HeardFromFinished'
  BY <1>8 DEF Fail
<1>9. ASSUME Finish
      PROVE  HeardFromFinished'
  BY <1>9 DEF Finish
<1>10. ASSUME Settle
      PROVE  HeardFromFinished'
  BY <1>10 DEF Settle
<1>11. ASSUME NEW t \in Tables, Visit(t)
      PROVE  HeardFromFinished'
  BY <1>11 DEF Visit
<1>12. ASSUME NEW t \in Tables, Launch(t)
      PROVE  HeardFromFinished'
  BY <1>12 DEF Launch
<1>13. ASSUME NEW t \in Tables, HearDone(t)
      PROVE  HeardFromFinished'
  <2>1. n \in Runs /\ t \in done[n]
    BY <1>13 DEF HearDone
  <2>2. worker[n][t].pc = "over" /\ SendsDone(n, t)
    BY <2>1 DEF MessagesFromFinished
  <2>3. QED
    BY <1>13, <2>1, <2>2 DEF HearDone
<1>14. ASSUME NEW t \in Tables, HearError(t)
      PROVE  HeardFromFinished'
  BY <1>14 DEF HearError
<1>15. ASSUME NEW r \in Runs, NEW t \in Tables, Take(r, t)
      PROVE  HeardFromFinished'
  BY <1>15 DEF Take
<1>16. ASSUME NEW r \in Runs, NEW t \in Tables, CopyReturns(r, t)
      PROVE  HeardFromFinished'
  BY <1>16 DEF CopyReturns
<1>17. ASSUME NEW r \in Runs, NEW t \in Tables, GiveUp(r, t)
      PROVE  HeardFromFinished'
  BY <1>17 DEF GiveUp
<1>18. ASSUME NEW r \in Runs, NEW t \in Tables, Complete(r, t)
      PROVE  HeardFromFinished'
  BY <1>18 DEF Complete
<1>19. ASSUME NEW r \in Runs, NEW t \in Tables, ReportError(r, t)
      PROVE  HeardFromFinished'
  BY <1>19 DEF ReportError
<1>20. ASSUME NEW r \in Runs, NEW t \in Tables, Leave(r, t)
      PROVE  HeardFromFinished'
  BY <1>20 DEF Leave
<1>21. CASE UNCHANGED vars
  BY <1>21 DEF vars
<1>22. QED
  BY <1>1, <1>2, <1>3, <1>4, <1>5, <1>6, <1>7, <1>8, <1>9, <1>10, <1>11, <1>12,
     <1>13, <1>14, <1>15, <1>16, <1>17, <1>18, <1>19, <1>20, <1>21
     DEF Next, MainNext, WorkerNext

PoolInv ==
  /\ TypeOK
  /\ RunHasNumber
  /\ RunningTaskHasWorker
  /\ LeftIsSet
  /\ MessagesFromFinished
  /\ FreshRun
  /\ HeardFromFinished

LEMMA PoolInvariant == Spec => []PoolInv
<1>1. Init => PoolInv
  <2> SUFFICES ASSUME Init PROVE PoolInv
    OBVIOUS
  <2>1. TypeOK
    BY InitTypes
  <2>2. RunHasNumber /\ RunningTaskHasWorker /\ MessagesFromFinished
    BY DEF Init, RunHasNumber, RunningTaskHasWorker, MessagesFromFinished
  <2>3. LeftIsSet
    BY DEF Init, LeftIsSet, NoWorker
  <2>4. FreshRun /\ HeardFromFinished
    BY DEF Init, FreshRun, HeardFromFinished, Counting
  <2>5. QED
    BY <2>1, <2>2, <2>3, <2>4 DEF PoolInv
<1>2. PoolInv /\ [Next]_vars => PoolInv'
  BY NextTypes, NumberStep, RunningTaskStep, LeftStep, MessageStep, FreshStep, HeardStep
     DEF PoolInv
<1>3. QED
  BY <1>1, <1>2, PTL DEF Spec

\* A task row shown as running has a worker on it, whatever runs have come and
\* gone and whichever orphans are left.
THEOREM RunningTasksAreWorkedOn == Spec => []RunningTaskHasWorker
<1>1. PoolInv => RunningTaskHasWorker
  BY DEF PoolInv
<1>2. QED
  BY <1>1, PoolInvariant, PTL

\* A run that reports success has heard from all its workers and left none
\* behind; in an incremental run they all succeeded.
THEOREM SuccessIsComplete == Spec => []CompletedRunIsOver
<1>1. PoolInv => CompletedRunIsOver
  <2> SUFFICES ASSUME PoolInv, main = "idle", job = "completed", NEW t \in pending[n]
               PROVE  /\ ~ Live(n, t)
                      /\ worker[n][t].left # "none"
                      /\ mode = "incremental" => worker[n][t].left = "completed"
    BY DEF CompletedRunIsOver
  <2>1. n \in Runs /\ t \in Tables
    BY DEF PoolInv, RunHasNumber, TypeOK
  <2>2. worker[n][t].pc = "over" /\ SendsDone(n, t)
    BY DEF PoolInv, HeardFromFinished, Counting
  <2>3. QED
    BY <2>1, <2>2 DEF PoolInv, LeftIsSet, Live, SendsDone
<1>2. QED
  BY <1>1, PoolInvariant, PTL
-----------------------------------------------------------------------------
\* What the outcome of a run is worth.

\* What a worker's step leaves alone, and how it may touch the rows and
\* channels the run reads.
WorkerEffect(r, t) ==
  /\ UNCHANGED <<mode, started, counted, n, main, seen, visited, pending, heard, alone>>
  /\ job' \in {job, "running"}
  /\ OthersSame(r, t) /\ \A u \in Tables : u # t => task'[u] = task[u]
  /\ Live(r, t) /\ worker'[r][t].pc # "none"
  /\ worker'[r][t].pc \in {"reporting", "leaving", "over"} =>
       \/ task'[t] = worker'[r][t].left
       \/ /\ task'[t] = task[t] /\ worker'[r][t].left = worker[r][t].left
          /\ worker[r][t].pc \in {"reporting", "leaving"}
  /\ \A q \in Runs : \A u \in done'[q] :
       u \in done[q] \/ (q = r /\ u = t /\ worker[r][t].pc = "leaving")

LEMMA WorkerSteps ==
  ASSUME TypeOK, NEW r \in Runs, NEW t \in Tables, WorkerNext(r, t)
  PROVE  WorkerEffect(r, t)
<1> USE DEF TypeOK, jobVars, runVars, chanVars, OthersSame, Live
<1>1. CASE Take(r, t)
  <2>1. worker' = [worker EXCEPT ![r][t].pc = "copying"] /\ "copying" \in WorkerPC
    BY <1>1 DEF Take, WorkerPC
  <2>2. worker'[r][t].pc = "copying" /\ OthersSame(r, t)
    BY <2>1, WorkerMove
  <2>3. QED
    BY <1>1, <2>2 DEF Take, WorkerEffect
<1>2. CASE CopyReturns(r, t)
  <2>1. PICK pc \in {"erred", "copied"} : worker' = [worker EXCEPT ![r][t].pc = pc]
    BY <1>2 DEF CopyReturns
  <2>2. pc \in WorkerPC
    BY DEF WorkerPC
  <2>3. worker'[r][t].pc = pc /\ OthersSame(r, t)
    BY <2>1, <2>2, WorkerMove
  <2>4. QED
    BY <1>2, <2>3 DEF CopyReturns, WorkerEffect
<1>3. CASE GiveUp(r, t) \/ Complete(r, t)
  <2>1. PICK p \in {"reporting", "leaving"}, l \in {"paused", "failed", "completed"} :
          /\ worker' = [worker EXCEPT ![r][t] = [pc |-> p, left |-> l]]
          /\ task' = [task EXCEPT ![t] = l]
    BY <1>3 DEF GiveUp, Complete
  <2>2. [pc |-> p, left |-> l] \in Worker
    BY DEF Worker, WorkerPC
  <2>3. worker'[r][t] = [pc |-> p, left |-> l] /\ OthersSame(r, t)
    BY <2>1, <2>2, WorkerSettles
  <2>4. QED
    BY <1>3, <2>1, <2>3 DEF GiveUp, Complete, WorkerEffect
<1>4. CASE ReportError(r, t)
  <2>1. worker' = [worker EXCEPT ![r][t].pc = "leaving"] /\ "leaving" \in WorkerPC
    BY <1>4 DEF ReportError, WorkerPC
  <2>2. /\ worker'[r][t].pc = "leaving" /\ worker'[r][t].left = worker[r][t].left
        /\ OthersSame(r, t)
    BY <2>1, WorkerMove
  <2>3. QED
    BY <1>4, <2>2 DEF ReportError, WorkerEffect
<1>5. CASE Leave(r, t)
  <2>1. worker' = [worker EXCEPT ![r][t].pc = "over"] /\ "over" \in WorkerPC
    BY <1>5 DEF Leave, WorkerPC
  <2>2. /\ worker'[r][t].pc = "over" /\ worker'[r][t].left = worker[r][t].left
        /\ OthersSame(r, t)
    BY <2>1, WorkerMove
  <2>3. \A q \in Runs : \A u \in done'[q] : u \in done[q] \/ (q = r /\ u = t)
    BY <1>5 DEF Leave
  <2>4. QED
    BY <1>5, <2>2, <2>3 DEF Leave, WorkerEffect
<1>6. QED
  BY <1>1, <1>2, <1>3, <1>4, <1>5 DEF WorkerNext

\* A run's loops are through, or it has succeeded.
Launching == main \in {"launching", "collecting"} \/ (main = "idle" /\ job = "completed")

\* If the run began with no worker of an earlier one left, there is none now.
OnlyItsOwn == alone => \A r \in Runs, t \in Tables : Live(r, t) => r = n

\* Workers are there only once they are launched ...
NotYet ==
  \A r \in Runs, t \in Tables :
    r > n \/ (r = n /\ main \in {"connecting", "scanning"}) => worker[r][t].pc = "none"

\* ... for the tables that were not completed at the beginning.
PendingIsRest ==
  Launching =>
    /\ visited = Tables /\ pending[n] = Remaining /\ heard \subseteq pending[n]
    /\ \A t \in Tables : worker[n][t].pc # "none" => t \in pending[n]

\* Beside no worker of an earlier run, the rows say what this run did.
TasksAgree ==
  alone /\ Counting =>
    \A t \in Tables :
      /\ t \in seen \/ (t \in visited /\ Skips(t)) => task[t] = "completed"
      /\ worker[n][t].pc \in {"reporting", "leaving", "over"} => task[t] = worker[n][t].left

\* Every message of a worker is counted once, unless nothing was left to do;
\* an incremental run never counts beyond its tables.
CountAgrees ==
  /\ Counting => heard \cap done[n] = {}
  /\ Launching =>
       \/ counted = Cardinality(seen) + Cardinality({t \in Tables : Skips(t)}) + Cardinality(heard)
       \/ mode = "incremental" /\ seen = Tables
  /\ mode = "incremental" => counted <= Cardinality(Tables)

OutcomeInv == OnlyItsOwn /\ NotYet /\ PendingIsRest /\ TasksAgree /\ CountAgrees

LEMMA InitOutcome == Init => OutcomeInv
<1> SUFFICES ASSUME Init PROVE OutcomeInv
  OBVIOUS
<1>1. \A r \in Runs, t \in Tables : worker[r][t].pc = "none"
  BY DEF Init, NoWorker
<1>2. ~ Counting /\ ~ Launching /\ main # "scanning"
  BY DEF Init, Counting, Launching
<1>3. OnlyItsOwn /\ NotYet
  BY <1>1 DEF OnlyItsOwn, NotYet, Live
<1>4. counted <= Cardinality(Tables)
  BY CountIsNat DEF Init
<1>5. QED
  BY <1>2, <1>3, <1>4 DEF OutcomeInv, PendingIsRest, TasksAgree, CountAgrees

LEMMA WorkerOutcome ==
  ASSUME PoolInv, OutcomeInv, NEW r \in Runs, NEW t \in Tables, WorkerNext(r, t)
  PROVE  OutcomeInv'
<1>1. WorkerEffect(r, t)
  BY WorkerSteps DEF PoolInv
<1>2. /\ (Counting' => Counting) /\ (Launching' => Launching)
      /\ UNCHANGED <<mode, n, main, seen, visited, pending, heard, alone, counted>>
  BY <1>1 DEF WorkerEffect, Counting, Launching
<1>3. \A u \in Tables : Skips(u)' = Skips(u)
  BY <1>2 DEF Skips
<1>4. OnlyItsOwn'
  BY <1>1, <1>2 DEF WorkerEffect, OutcomeInv, OnlyItsOwn, OthersSame, Live
<1>5. NotYet'
  BY <1>1, <1>2 DEF WorkerEffect, OutcomeInv, NotYet, OthersSame, Live
<1>6. PendingIsRest'
  <2>1. Remaining' = Remaining
    BY <1>2, <1>3 DEF Remaining
  <2>2. ASSUME Launching, NEW u \in Tables, worker'[n][u].pc # "none"
        PROVE  u \in pending[n]
    <3>1. n \in Runs
      BY <2>2 DEF PoolInv, RunHasNumber, Launching
    <3>2. worker[n][u].pc # "none"
      BY <1>1, <2>2, <3>1 DEF WorkerEffect, OthersSame, Live
    <3>3. QED
      BY <2>2, <3>2 DEF OutcomeInv, PendingIsRest
  <2>3. QED
    BY <1>2, <2>1, <2>2 DEF OutcomeInv, PendingIsRest
<1>7. TasksAgree'
  <2> SUFFICES ASSUME alone, Counting, NEW u \in Tables
               PROVE  /\ u \in seen \/ (u \in visited /\ Skips(u)) => task'[u] = "completed"
                      /\ worker'[n][u].pc \in {"reporting", "leaving", "over"}
                           => task'[u] = worker'[n][u].left
    BY <1>2, <1>3 DEF TasksAgree
  <2>1. /\ u \in seen \/ (u \in visited /\ Skips(u)) => task[u] = "completed"
        /\ worker[n][u].pc \in {"reporting", "leaving", "over"} => task[u] = worker[n][u].left
    BY DEF OutcomeInv, TasksAgree
  <2>2. r = n /\ t \in pending[n] /\ pending[n] = Remaining
    BY <1>1 DEF WorkerEffect, OutcomeInv, OnlyItsOwn, NotYet, PendingIsRest, Live, Counting,
                Launching
  <2>3. CASE u = t
    BY <1>1, <2>1, <2>2, <2>3 DEF WorkerEffect, Remaining
  <2>4. CASE u # t
    BY <1>1, <2>1, <2>2, <2>4 DEF WorkerEffect, OthersSame
  <2>5. QED
    BY <2>3, <2>4
<1>8. CountAgrees'
  <2>1. Counting => heard \cap done'[n] = {}
    <3> SUFFICES ASSUME Counting, NEW u \in heard, u \in done'[n]
                 PROVE  FALSE
      OBVIOUS
    <3>1. n \in Runs /\ worker[n][u].pc = "over"
      BY DEF PoolInv, HeardFromFinished, RunHasNumber, Counting
    <3>2. u \in done[n]
      BY <1>1, <3>1 DEF WorkerEffect
    <3>3. QED
      BY <3>2 DEF OutcomeInv, CountAgrees
  <2>2. {u \in Tables : Skips(u)}' = {u \in Tables : Skips(u)}
    BY <1>3
  <2>3. QED
    BY <1>2, <2>1, <2>2 DEF OutcomeInv, CountAgrees
<1>9. QED
  BY <1>4, <1>5, <1>6, <1>7, <1>8 DEF OutcomeInv
LEMMA MainOutcome ==
  ASSUME PoolInv, OutcomeInv, MainNext \/ UNCHANGED vars
  PROVE  OutcomeInv'
<1> USE DEF PoolInv, TypeOK, jobVars, runVars, chanVars, RunHasNumber
<1>1. CASE StartRun
  <2>1. n' = n + 1 /\ UNCHANGED <<worker, done, mode, counted>> /\ main' = "connecting" /\ n \in Nat
    BY <1>1, TableAssumption DEF StartRun
  <2>2. OnlyItsOwn'
    BY <1>1, <2>1 DEF StartRun, OnlyItsOwn, Live
  <2>3. NotYet'
    BY <2>1, TableAssumption DEF OutcomeInv, NotYet, Runs
  <2>4. QED
    BY <2>1, <2>2, <2>3 DEF OutcomeInv, PendingIsRest, TasksAgree, CountAgrees, Launching, Counting
<1>2. CASE Begin
  <2>1. /\ UNCHANGED <<worker, done, n, alone, task, mode, counted>>
        /\ main = "connecting" /\ main' = "scanning"
        /\ heard' = {} /\ visited' = {} /\ seen' = Completed
    BY <1>2 DEF Begin
  <2>2. \A t \in Tables : worker[n][t].pc = "none"
    BY <2>1 DEF OutcomeInv, NotYet
  <2>3. OnlyItsOwn' /\ NotYet'
    BY <2>1 DEF OutcomeInv, OnlyItsOwn, NotYet, Live
  <2>4. TasksAgree'
    BY <2>1, <2>2 DEF TasksAgree, Completed
  <2>5. QED
    BY <2>1, <2>3, <2>4 DEF OutcomeInv, PendingIsRest, CountAgrees, Launching
<1>3. ASSUME NEW t \in Tables, Visit(t)
      PROVE  OutcomeInv'
  <2>1. UNCHANGED <<worker, done, n, alone, mode, main, seen, heard, counted>> /\ main = "scanning"
        /\ visited' = visited \cup {t}
        /\ \A u \in Tables : task'[u] = IF u = t /\ Skips(t) THEN "completed" ELSE task[u]
    BY <1>3 DEF Visit
  <2>2. \A u \in Tables : worker[n][u].pc = "none" /\ Skips(u)' = Skips(u)
    BY <2>1 DEF OutcomeInv, NotYet, Skips
  <2>3. OnlyItsOwn' /\ NotYet'
    BY <2>1 DEF OutcomeInv, OnlyItsOwn, NotYet, Live
  <2>4. TasksAgree'
    BY <2>1, <2>2 DEF OutcomeInv, TasksAgree, Counting
  <2>5. QED
    BY <2>1, <2>3, <2>4 DEF OutcomeInv, PendingIsRest, CountAgrees, Launching, Counting
<1>4. CASE Scanned
  <2>1. UNCHANGED <<worker, done, n, alone, mode, seen, heard, task, visited>>
        /\ main = "scanning" /\ main' = "launching" /\ visited = Tables
        /\ counted' = Cardinality(seen) + Cardinality({t \in Tables : Skips(t)})
        /\ pending' = [pending EXCEPT ![n] = Remaining]
    BY <1>4 DEF Scanned
  <2>2. \A u \in Tables : worker[n][u].pc = "none" /\ Skips(u)' = Skips(u)
    BY <2>1 DEF OutcomeInv, NotYet, Skips
  <2>3. OnlyItsOwn' /\ NotYet'
    BY <2>1 DEF OutcomeInv, OnlyItsOwn, NotYet, Live
  <2>4. TasksAgree'
    BY <2>1, <2>2 DEF OutcomeInv, TasksAgree, Counting
  <2>5. Remaining' = Remaining /\ {u \in Tables : Skips(u)}' = {u \in Tables : Skips(u)}
    BY <2>1, <2>2 DEF Remaining
  <2>6. heard = {} /\ n \in Runs /\ pending'[n] = Remaining
    BY <2>1 DEF FreshRun
  <2>7. PendingIsRest'
    BY <2>1, <2>2, <2>5, <2>6 DEF PendingIsRest
  <2>8. CountAgrees'
    <3>1. Cardinality(heard) = 0
      BY <2>6, FS_EmptySet
    <3> DEFINE skipped == {t \in Tables : Skips(t)}
    <3>2. Cardinality(seen) \in Nat /\ Cardinality(skipped) \in Nat
      BY CountIsNat
    <3>3. counted' = Cardinality(seen) + Cardinality(skipped) + Cardinality(heard)
      <4> HIDE DEF skipped
      <4>1. counted' = Cardinality(seen) + Cardinality(skipped)
        BY <2>1 DEF skipped
      <4>2. QED
        BY <3>1, <3>2, <4>1
    <3>4. mode = "incremental" => counted' <= Cardinality(Tables)
      <4>1. mode = "incremental" => Cardinality(skipped) = 0
        BY FS_EmptySet DEF Skips
      <4>2. Cardinality(seen) <= Cardinality(Tables)
        BY TableAssumption, FS_Subset
      <4> HIDE DEF skipped
      <4>3. counted' = Cardinality(seen) + Cardinality(skipped)
        BY <2>1 DEF skipped
      <4>4. QED
        BY <3>2, <4>1, <4>2, <4>3
    <3>5. QED
      BY <2>1, <2>5, <2>6, <3>3, <3>4 DEF CountAgrees
  <2>9. QED
    BY <2>3, <2>4, <2>7, <2>8 DEF OutcomeInv
<1>5. ASSUME NEW t \in Tables, Launch(t)
      PROVE  OutcomeInv'
  <2>1. /\ UNCHANGED <<done, n, alone, mode, seen, heard, task, visited, main, job,
                       pending, counted>>
        /\ main = "launching" /\ t \in pending[n] /\ n \in Runs
        /\ worker' = [worker EXCEPT ![n][t].pc = "spawned"] /\ "spawned" \in WorkerPC
    BY <1>5 DEF Launch, WorkerPC
  <2>2. worker'[n][t].pc = "spawned" /\ OthersSame(n, t)
    BY <2>1, WorkerMove DEF OthersSame
  <2>3. \A u \in Tables : Skips(u)' = Skips(u)
    BY <2>1 DEF Skips
  <2>4. OnlyItsOwn' /\ NotYet'
    BY <2>1, <2>2 DEF OutcomeInv, OnlyItsOwn, NotYet, Live, OthersSame
  <2>5. TasksAgree'
    BY <2>1, <2>2, <2>3 DEF OutcomeInv, TasksAgree, Counting, OthersSame
  <2>6. Remaining' = Remaining /\ {u \in Tables : Skips(u)}' = {u \in Tables : Skips(u)}
    BY <2>1, <2>3 DEF Remaining
  <2>7. PendingIsRest'
    BY <2>1, <2>2, <2>6 DEF OutcomeInv, PendingIsRest, Launching, OthersSame
  <2>8. CountAgrees'
    BY <2>1, <2>6 DEF OutcomeInv, CountAgrees, Launching, Counting
  <2>9. QED
    BY <2>4, <2>5, <2>7, <2>8 DEF OutcomeInv
<1>6. ASSUME NEW t \in Tables, HearDone(t)
      PROVE  OutcomeInv'
  <2>1. /\ UNCHANGED <<worker, n, alone, mode, seen, task, visited, main, pending>>
        /\ main = "collecting" /\ n \in Runs /\ t \in done[n]
        /\ done'[n] = done[n] \ {t} /\ heard' = heard \cup {t} /\ counted' = counted + 1
    BY <1>6 DEF HearDone
  <2>2. Counting /\ Launching /\ Counting' /\ Launching'
    BY <2>1 DEF Counting, Launching
  <2>3. \A u \in Tables : Skips(u)' = Skips(u)
    BY <2>1 DEF Skips
  <2>4. OnlyItsOwn' /\ NotYet'
    BY <2>1 DEF OutcomeInv, OnlyItsOwn, NotYet, Live
  <2>5. TasksAgree'
    BY <2>1, <2>2, <2>3 DEF OutcomeInv, TasksAgree
  <2>6. Remaining' = Remaining /\ {u \in Tables : Skips(u)}' = {u \in Tables : Skips(u)}
    BY <2>1, <2>3 DEF Remaining
  <2>7. t \in pending[n]
    BY <2>1, <2>2 DEF MessagesFromFinished, OutcomeInv, PendingIsRest
  <2>8. PendingIsRest'
    BY <2>1, <2>2, <2>6, <2>7 DEF OutcomeInv, PendingIsRest
  <2>9. CountAgrees'
    <3>1. t \notin heard /\ heard \cap done[n] = {}
      BY <2>1, <2>2 DEF OutcomeInv, CountAgrees
    <3>2. IsFiniteSet(heard) /\ Cardinality(heard) \in Nat
      BY CountIsNat, TableAssumption, FS_Subset
    <3>3. Cardinality(heard') = Cardinality(heard) + 1
      BY <2>1, <3>1, <3>2, FS_AddElement
    <3> DEFINE skipped == {u \in Tables : Skips(u)}
    <3>4. Cardinality(seen) \in Nat /\ Cardinality(skipped) \in Nat
      BY CountIsNat
    <3>5. counted = Cardinality(seen) + Cardinality(skipped) + Cardinality(heard)
      BY <2>2, <2>7 DEF OutcomeInv, CountAgrees, PendingIsRest, Remaining
    <3>6. counted' = Cardinality(seen) + Cardinality(skipped) + Cardinality(heard')
      <4> HIDE DEF skipped
      <4>1. QED
        BY <2>1, <3>2, <3>3, <3>4, <3>5
    <3>7. heard' \cap done'[n] = {}
      BY <2>1, <3>1
    <3>8. mode = "incremental" => counted' <= Cardinality(Tables)
      <4> SUFFICES ASSUME mode = "incremental"
                   PROVE  counted' <= Cardinality(Tables)
        OBVIOUS
      <4>1. Cardinality(skipped) = 0
        BY FS_EmptySet DEF Skips
      <4>2. heard' \subseteq Tables /\ heard' \cap seen = {}
        BY <2>1, <2>2, <2>7 DEF OutcomeInv, PendingIsRest, Remaining
      <4> HIDE DEF skipped
      <4>3. Cardinality(seen) + Cardinality(heard') <= Cardinality(Tables)
        BY <4>2, CountApart
      <4>4. QED
        BY <3>2, <3>3, <3>4, <3>6, <4>1, <4>3
    <3>9. QED
      BY <2>1, <2>6, <3>6, <3>7, <3>8 DEF CountAgrees
  <2>10. QED
    BY <2>4, <2>5, <2>8, <2>9 DEF OutcomeInv
<1>7. CASE \/ PauseRun \/ Launched \/ SeeStop \/ Fail \/ Finish \/ Settle \/ UNCHANGED vars
           \/ \E t \in Tables : HearError(t)
  <2>1. /\ UNCHANGED <<worker, done, n, alone, mode, seen, heard, task, visited, pending, counted>>
        /\ Counting' => Counting
        /\ Launching' => Launching
        /\ main' \in {"connecting", "scanning"} => main = main'
    BY <1>7 DEF PauseRun, Launched, SeeStop, Fail, Finish, Settle, HearError, Counting, Launching,
                vars
  <2>2. \A u \in Tables : Skips(u)' = Skips(u)
    BY <2>1 DEF Skips
  <2>3. Remaining' = Remaining /\ {u \in Tables : Skips(u)}' = {u \in Tables : Skips(u)}
    BY <2>1, <2>2 DEF Remaining
  <2>4. OnlyItsOwn' /\ NotYet'
    BY <2>1 DEF OutcomeInv, OnlyItsOwn, NotYet, Live
  <2>5. TasksAgree'
    BY <2>1, <2>2 DEF OutcomeInv, TasksAgree
  <2>6. PendingIsRest' /\ CountAgrees'
    BY <2>1, <2>3 DEF OutcomeInv, PendingIsRest, CountAgrees
  <2>7. QED
    BY <2>4, <2>5, <2>6 DEF OutcomeInv
<1>8. CASE NothingLeft
  <2>1. /\ UNCHANGED <<worker, done, n, alone, mode, seen, heard, task, visited, pending, counted>>
        /\ main = "scanning" /\ main' = "idle" /\ visited = Tables
        /\ mode = "incremental" /\ Remaining = {}
    BY <1>8 DEF NothingLeft
  <2>2. \A u \in Tables : worker[n][u].pc = "none" /\ Skips(u)' = Skips(u) /\ ~ Skips(u)
    BY <2>1 DEF OutcomeInv, NotYet, Skips
  <2>3. OnlyItsOwn' /\ NotYet'
    BY <2>1 DEF OutcomeInv, OnlyItsOwn, NotYet, Live
  <2>4. TasksAgree'
    BY <2>1, <2>2 DEF OutcomeInv, TasksAgree, Counting
  <2>5. Remaining' = Remaining /\ seen = Tables
    BY <2>1, <2>2 DEF Remaining
  <2>6. heard = {} /\ pending[n] = {}
    BY <2>1 DEF FreshRun
  <2>7. PendingIsRest'
    BY <2>1, <2>2, <2>5, <2>6 DEF PendingIsRest
  <2>8. CountAgrees'
    BY <2>1, <2>5, <2>6 DEF OutcomeInv, CountAgrees
  <2>9. QED
    BY <2>3, <2>4, <2>7, <2>8 DEF OutcomeInv
<1>9. QED
  BY <1>1, <1>2, <1>3, <1>4, <1>5, <1>6, <1>7, <1>8 DEF MainNext

LEMMA OutcomeInvariant == Spec => [](PoolInv /\ OutcomeInv)
<1>1. Init => OutcomeInv
  BY InitOutcome
<1>2. PoolInv /\ OutcomeInv /\ [Next]_vars => OutcomeInv'
  BY WorkerOutcome, MainOutcome DEF Next
<1>3. QED
  BY <1>1, <1>2, PoolInvariant, PTL DEF Spec

\* When a run reports success and no worker of an earlier run was left when it
\* began, the task rows are final and agree with it; in an incremental run
\* they are all completed.  (the collectors of engine.go)
THEOREM CompletedRowsAreFinal == Spec => []CompletedJobIsTruthful
<1>1. PoolInv /\ OutcomeInv => CompletedJobIsTruthful
  <2> SUFFICES ASSUME PoolInv, OutcomeInv, main = "idle", job = "completed", alone,
                      NEW t \in Tables
               PROVE  /\ task[t] \in {"completed", "failed", "paused"}
                      /\ mode = "incremental" => task[t] = "completed"
    BY DEF CompletedJobIsTruthful
  <2>1. Counting /\ Launching /\ n \in Runs
    BY DEF Counting, Launching, PoolInv, RunHasNumber
  <2>2. CASE t \in seen \/ Skips(t)
    BY <2>1, <2>2 DEF OutcomeInv, PendingIsRest, TasksAgree
  <2>3. CASE t \notin seen /\ ~ Skips(t)
    <3>1. t \in heard
      BY <2>1, <2>3 DEF OutcomeInv, PendingIsRest, Remaining, PoolInv, HeardFromFinished
    <3>2. worker[n][t].pc = "over" /\ SendsDone(n, t)
      BY <2>1, <3>1 DEF PoolInv, HeardFromFinished
    <3>3. task[t] = worker[n][t].left
      BY <2>1, <3>2 DEF OutcomeInv, TasksAgree
    <3>4. worker[n][t].left \in {"paused", "failed", "completed"}
      BY <2>1, <3>2 DEF PoolInv, TypeOK, LeftIsSet, Worker
    <3>5. QED
      BY <3>2, <3>3, <3>4 DEF SendsDone
  <2>4. QED
    BY <2>2, <2>3
<1>2. QED
  BY <1>1, OutcomeInvariant, PTL

\* The progress count of a successful run ends at the number of tables, but
\* for the tables a resumed date-range run skips again, and for a resumed
\* incremental run with nothing left to do, where it may be smaller.
THEOREM SuccessCountsTables == Spec => []CountsEveryTable
<1>1. PoolInv /\ OutcomeInv => CountsEveryTable
  <2> SUFFICES ASSUME PoolInv, OutcomeInv, main = "idle", job = "completed"
               PROVE  CountsEveryTable
    BY DEF CountsEveryTable
  <2> DEFINE skipped == {t \in Tables : Skips(t)}
             both == {t \in seen : Skips(t)}
  <2>1. Counting /\ Launching /\ seen \subseteq Tables
    BY DEF Counting, Launching, PoolInv, TypeOK
  <2>2. heard = Tables \ (seen \cup skipped) /\ both = seen \cap skipped
    BY <2>1 DEF OutcomeInv, PendingIsRest, Remaining, PoolInv, HeardFromFinished
  <2>3. CASE mode = "incremental" /\ seen = Tables
    BY <2>3 DEF OutcomeInv, CountAgrees, CountsEveryTable
  <2>4. CASE counted = Cardinality(seen) + Cardinality(skipped) + Cardinality(heard)
    <3> HIDE DEF skipped, both
    <3>1. skipped \subseteq Tables
      BY DEF skipped
    <3>2. /\ IsFiniteSet(Tables) /\ IsFiniteSet(seen) /\ IsFiniteSet(skipped)
          /\ Cardinality(seen) \in Nat /\ Cardinality(skipped) \in Nat
          /\ Cardinality(both) \in Nat /\ Cardinality(Tables) \in Nat
      BY <2>1, <2>2, <3>1, TableAssumption, CountIsNat, FS_Subset
    <3>3. Cardinality(seen \cup skipped)
            = Cardinality(seen) + Cardinality(skipped) - Cardinality(both)
      BY <2>2, <3>2, FS_Union
    <3>4. Cardinality(heard) = Cardinality(Tables) - Cardinality(seen \cup skipped)
      <4>1. Tables \cap (seen \cup skipped) = seen \cup skipped
        BY <2>1, <3>1
      <4>2. Cardinality(Tables \ (seen \cup skipped))
              = Cardinality(Tables) - Cardinality(Tables \cap (seen \cup skipped))
        BY <3>2, FS_Difference
      <4>3. QED
        BY <2>2, <4>1, <4>2
    <3>5. counted = Cardinality(Tables) + Cardinality(both)
      BY <2>4, <3>2, <3>3, <3>4
    <3>6. QED
      BY <3>5 DEF both, CountsEveryTable
  <2>5. QED
    BY <2>1, <2>3, <2>4 DEF OutcomeInv, CountAgrees
<1>2. QED
  BY <1>1, OutcomeInvariant, PTL
=============================================================================
