-------------------------- MODULE JobRunnerProofs --------------------------
(***************************************************************************)
(* Theorems about JobRunner, for any sets of jobs and requests.  Type      *)
(* correctness comes first; SlotInv strengthens the slot, ownership and    *)
(* request properties to something inductive; the action properties and    *)
(* the refinement of JobSlot follow from it.                               *)
(***************************************************************************)
EXTENDS JobRunner, TLAPS

\* Updating fields of a run record, as the steps of the goroutine do.
LEMMA PcUpdate ==
  ASSUME NEW j \in Jobs, run \in [Jobs -> Run], NEW pc \in RunPC
  PROVE  [run EXCEPT ![j].pc = pc] \in [Jobs -> Run]
<1>1. run[j] \in Run
  OBVIOUS
<1>2. [run[j] EXCEPT !.pc = pc] \in Run
  BY <1>1 DEF Run
<1>3. QED
  BY <1>2

LEMMA ErrorUpdate ==
  ASSUME NEW j \in Jobs, run \in [Jobs -> Run], NEW pc \in RunPC,
         NEW t \in BOOLEAN, NEW told \in SUBSET Requests
  PROVE  [run EXCEPT ![j].pc = pc, ![j].timeout = t, ![j].told = told] \in [Jobs -> Run]
<1>1. run[j] \in Run
  OBVIOUS
<1>2. [run[j] EXCEPT !.pc = pc, !.timeout = t, !.told = told] \in Run
  BY <1>1 DEF Run
<1>3. QED
  BY <1>2

LEMMA SampleUpdate ==
  ASSUME NEW j \in Jobs, run \in [Jobs -> Run], NEW pc \in RunPC,
         NEW p \in BOOLEAN, NEW q \in BOOLEAN
  PROVE  [run EXCEPT ![j].pc = pc, ![j].pause = p, ![j].cancel = q] \in [Jobs -> Run]
<1>1. run[j] \in Run
  OBVIOUS
<1>2. [run[j] EXCEPT !.pc = pc, !.pause = p, !.cancel = q] \in Run
  BY <1>1 DEF Run
<1>3. QED
  BY <1>2

LEMMA VerdictUpdate ==
  ASSUME NEW j \in Jobs, run \in [Jobs -> Run], NEW pc \in RunPC,
         NEW v \in Verdicts
  PROVE  [run EXCEPT ![j].pc = pc, ![j].verdict = v] \in [Jobs -> Run]
<1>1. run[j] \in Run
  OBVIOUS
<1>2. [run[j] EXCEPT !.pc = pc, !.verdict = v] \in Run
  BY <1>1 DEF Run
<1>3. QED
  BY <1>2

\* The variables that PauseJob and CancelJob change keep their types.
LEMMA RaiseTypes ==
  ASSUME TypeOK, NEW c \in Clients, NEW req \in Requests, Raise(c, req)
  PROVE  /\ cancel' \in Jobs \cup {NoJob}
         /\ pauseReq' \in BOOLEAN /\ cancelReq' \in BOOLEAN
         /\ run' \in [Jobs -> Run]
         /\ asked' \subseteq Requests
<1>1. cancel' \in Jobs \cup {NoJob} /\ asked' \subseteq Requests
  BY DEF TypeOK, Raise
<1>2. pauseReq' \in BOOLEAN
  BY Zenon DEF Raise
<1>3. cancelReq' \in BOOLEAN
  BY Zenon DEF Raise
<1>4. ASSUME NEW j \in Jobs
      PROVE  [run[j] EXCEPT !.callers = @ \cup {c}] \in Run
  <2>1. run[j] \in Run
    BY DEF TypeOK
  <2>2. QED
    BY <2>1 DEF Run
<1>5. run' \in [Jobs -> Run]
  BY <1>4 DEF TypeOK, Raise
<1>6. QED
  BY <1>1, <1>2, <1>3, <1>5

LEMMA InitTypes == Init => TypeOK
<1> SUFFICES ASSUME Init PROVE TypeOK
  OBVIOUS
<1>1. status \in [Jobs -> Status] /\ enabled \in BOOLEAN
  BY DEF Init, Status
<1>2. pauseReq \in BOOLEAN /\ cancelReq \in BOOLEAN
  BY DEF Init
<1>3. run \in [Jobs -> Run]
  BY DEF Init, NoRun, Run, RunPC, Verdicts
<1>4. client \in [Clients -> [pc : ClientPC, job : Jobs \cup {NoJob}]]
  BY DEF Init, Idle, ClientPC
<1>5. sched \in [pc : SchedPC, job : Jobs \cup {NoJob}]
  BY DEF Init, Idle, SchedPC
<1>6. QED
  BY <1>1, <1>2, <1>3, <1>4, <1>5 DEF Init, TypeOK

LEMMA NextTypes == TypeOK /\ [Next]_vars => TypeOK'
<1> SUFFICES ASSUME TypeOK, [Next]_vars PROVE TypeOK'
  OBVIOUS
<1> USE JobAssumption DEF TypeOK, Status, Startable, Final, RunPC, NoRun,
        NewRun, Idle, ClientPC, SchedPC,
        storeVars, flagVars, actorVars, strayVars, histVars
<1>1. ASSUME NEW c \in Clients, NEW j \in Jobs, CreateJob(c, j)
      PROVE  TypeOK'
  BY <1>1 DEF CreateJob
<1>2. ASSUME NEW c \in Clients, NEW j \in Jobs, StartExisting(c, j)
      PROVE  TypeOK'
  BY <1>2 DEF StartExisting, CanStart, Launch, Resumed, Run, Verdicts
<1>3. ASSUME NEW c \in Clients, CreatedStart(c)
      PROVE  TypeOK'
  BY <1>3 DEF CreatedStart, CanStart, Launch, Resumed, Run, Verdicts
<1>4. ASSUME NEW c \in Clients, CreatedRefused(c)
      PROVE  TypeOK'
  BY <1>4 DEF CreatedRefused
<1>5. ASSUME NEW c \in Clients, MarkRefused(c)
      PROVE  TypeOK'
  BY <1>5 DEF MarkRefused
<1>6. ASSUME NEW c \in Clients, PauseJob(c)
      PROVE  TypeOK'
  <2>1. Raise(c, "pause") /\ "pause" \in Requests
    BY <1>6 DEF PauseJob, Requests
  <2>2. QED
    BY <1>6, <2>1, RaiseTypes DEF PauseJob
<1>7. ASSUME NEW c \in Clients, CancelJob(c)
      PROVE  TypeOK'
  <2>1. Raise(c, "cancel") /\ "cancel" \in Requests
    BY <1>7 DEF CancelJob, Requests
  <2>2. QED
    BY <1>7, <2>1, RaiseTypes DEF CancelJob
<1>8. ASSUME NEW c \in Clients, CallCancel(c)
      PROVE  TypeOK'
  <2>1. ASSUME NEW j \in Jobs
        PROVE  [run[j] EXCEPT !.done = TRUE, !.callers = @ \ {c}] \in Run
    <3>1. run[j] \in Run
      OBVIOUS
    <3>2. QED
      BY <3>1 DEF Run
  <2>2. run' \in [Jobs -> Run]
    BY <1>8, <2>1 DEF CallCancel
  <2>3. client' \in [Clients -> [pc : ClientPC, job : Jobs \cup {NoJob}]]
    BY <1>8 DEF CallCancel
  <2>4. QED
    BY <1>8, <2>2, <2>3 DEF CallCancel
<1>9. ASSUME NEW c \in Clients, EngineStart(c)
      PROVE  TypeOK'
  BY <1>9 DEF EngineStart
<1>10. ASSUME NEW c \in Clients, EngineStopPause(c)
      PROVE  TypeOK'
  <2>1. Raise(c, "pause") /\ "pause" \in Requests
    BY <1>10 DEF EngineStopPause, Requests
  <2>2. QED
    BY <1>10, <2>1, RaiseTypes DEF EngineStopPause
<1>11. ASSUME NEW c \in Clients, EngineStopDisable(c)
      PROVE  TypeOK'
  BY <1>11 DEF EngineStopDisable
<1>12. ASSUME SchedDue
      PROVE  TypeOK'
  BY <1>12 DEF SchedDue
<1>13. ASSUME NEW j \in Jobs, SchedCreate(j)
      PROVE  TypeOK'
  BY <1>13 DEF SchedCreate
<1>14. ASSUME SchedStart
      PROVE  TypeOK'
  BY <1>14 DEF SchedStart, CanStart, Launch, Resumed, Run, Verdicts
<1>15. ASSUME SchedRefused
      PROVE  TypeOK'
  BY <1>15 DEF SchedRefused
<1>16. ASSUME NEW j \in Jobs, FailLookup(j)
      PROVE  TypeOK'
  <2>1. run' = [run EXCEPT ![j].pc = "leaving"]
    BY <1>16 DEF FailLookup
  <2>2. run' \in [Jobs -> Run]
    BY <2>1, PcUpdate
  <2>3. QED
    BY <1>16, <2>2 DEF FailLookup
<1>17. ASSUME NEW j \in Jobs, EngineBegin(j)
      PROVE  TypeOK'
  <2>1. run' = [run EXCEPT ![j].pc = "working"]
    BY <1>17 DEF EngineBegin
  <2>2. run' \in [Jobs -> Run]
    BY <2>1, PcUpdate
  <2>3. QED
    BY <1>17, <2>2 DEF EngineBegin
<1>18. ASSUME NEW j \in Jobs, EngineProgress(j)
      PROVE  TypeOK'
  BY <1>18 DEF EngineProgress
<1>19. ASSUME NEW j \in Jobs, SpawnWorker(j)
      PROVE  TypeOK'
  BY <1>19 DEF SpawnWorker
<1>20. ASSUME NEW j \in Jobs, WorkerWrite(j)
      PROVE  TypeOK'
  BY <1>20 DEF WorkerWrite
<1>21. ASSUME NEW j \in Jobs, EngineComplete(j)
      PROVE  TypeOK'
  <2>1. run' = [run EXCEPT ![j].pc = "leaving"]
    BY <1>21 DEF EngineComplete
  <2>2. run' \in [Jobs -> Run]
    BY <2>1, PcUpdate
  <2>3. QED
    BY <1>21, <2>2 DEF EngineComplete
<1>22. ASSUME NEW j \in Jobs, EngineError(j)
      PROVE  TypeOK'
  <2>1. PICK t \in BOOLEAN :
          run' = [run EXCEPT ![j].pc = "returned", ![j].timeout = t, ![j].told = asked]
    BY <1>22 DEF EngineError
  <2>2. asked \in SUBSET Requests
    OBVIOUS
  <2>3. run' \in [Jobs -> Run]
    BY <2>1, <2>2, ErrorUpdate
  <2>4. QED
    BY <1>22, <2>3 DEF EngineError
<1>23. ASSUME NEW j \in Jobs, SampleFlags(j)
      PROVE  TypeOK'
  <2>1. run' = [run EXCEPT ![j].pc = "sampled", ![j].pause = pauseReq,
                           ![j].cancel = cancelReq]
    BY <1>23 DEF SampleFlags
  <2>2. run' \in [Jobs -> Run]
    BY <2>1, SampleUpdate
  <2>3. QED
    BY <1>23, <2>2 DEF SampleFlags
<1>24. ASSUME NEW j \in Jobs, Judge(j)
      PROVE  TypeOK'
  <2>1. PICK pc \in RunPC, v \in Verdicts :
          run' = [run EXCEPT ![j].pc = pc, ![j].verdict = v]
    BY <1>24 DEF Judge, Verdicts
  <2>2. run' \in [Jobs -> Run]
    BY <2>1, VerdictUpdate
  <2>3. QED
    BY <1>24, <2>2 DEF Judge
<1>25. ASSUME NEW j \in Jobs, Settle(j)
      PROVE  TypeOK'
  <2>1. run' = [run EXCEPT ![j].pc = "leaving"]
    BY <1>25 DEF Settle
  <2>2. run' \in [Jobs -> Run]
    BY <2>1, PcUpdate
  <2>3. run[j].verdict \in Status
    BY DEF Run, Verdicts
  <2>4. QED
    BY <1>25, <2>2, <2>3 DEF Settle
<1>26. ASSUME NEW j \in Jobs, Leave(j)
      PROVE  TypeOK'
  <2>1. NoRun \in Run
    BY DEF Run, Verdicts
  <2>2. run' \in [Jobs -> Run]
    BY <1>26, <2>1 DEF Leave
  <2>3. QED
    BY <1>26, <2>2 DEF Leave
<1>27. ASSUME Crash
      PROVE  TypeOK'
  <2>1. NoRun \in Run
    BY DEF Run, Verdicts
  <2>2. run' \in [Jobs -> Run]
    BY <1>27, <2>1 DEF Crash
  <2>3. client' \in [Clients -> [pc : ClientPC, job : Jobs \cup {NoJob}]]
    BY <1>27 DEF Crash
  <2>4. enabled' \in BOOLEAN /\ pauseReq' \in BOOLEAN /\ cancelReq' \in BOOLEAN
    BY <1>27 DEF Crash
  <2>5. QED
    BY <1>27, <2>2, <2>3, <2>4 DEF Crash
<1>28. CASE UNCHANGED vars
  BY <1>28 DEF vars, storeVars, flagVars, actorVars, strayVars, histVars
<1>29. QED
  BY <1>1, <1>2, <1>3, <1>4, <1>5, <1>6, <1>7, <1>8, <1>9, <1>10, <1>11,
     <1>12, <1>13, <1>14, <1>15, <1>16, <1>17, <1>18, <1>19, <1>20,
     <1>21, <1>22, <1>23, <1>24, <1>25, <1>26, <1>27, <1>28
     DEF Next, ClientNext, SchedNext, RunNext

\* Every variable keeps its type, whatever the requests, the scheduler, the
\* engine and the crashes do.
THEOREM TypeCorrect == Spec => []TypeOK
<1>1. QED
  BY InitTypes, NextTypes, PTL DEF Spec

-----------------------------------------------------------------------------
\* What the steps of a request leave of a run record, field by field.
LEMMA RaiseFields ==
  ASSUME TypeOK, NEW c \in Clients, NEW req, Raise(c, req), NEW j \in Jobs
  PROVE  /\ run'[j].pc = run[j].pc
         /\ run'[j].timeout = run[j].timeout
         /\ run'[j].pause = run[j].pause
         /\ run'[j].cancel = run[j].cancel
         /\ run'[j].done = run[j].done
         /\ run'[j].verdict = run[j].verdict
         /\ run'[j].told = run[j].told
         /\ run'[j].callers = IF j = cancel THEN run[j].callers \cup {c}
                                           ELSE run[j].callers
<1>1. run[j] \in Run
  BY DEF TypeOK
<1>2. CASE j = cancel
  <2>1. run'[j] = [run[j] EXCEPT !.callers = @ \cup {c}]
    BY <1>2 DEF Raise
  <2>2. QED
    BY <1>1, <1>2, <2>1 DEF Run
<1>3. CASE j # cancel
  BY <1>3 DEF Raise
<1>4. QED
  BY <1>2, <1>3

LEMMA CallCancelFields ==
  ASSUME TypeOK, NEW c \in Clients, CallCancel(c), NEW j \in Jobs
  PROVE  /\ run'[j].pc = run[j].pc
         /\ run'[j].timeout = run[j].timeout
         /\ run'[j].pause = run[j].pause
         /\ run'[j].cancel = run[j].cancel
         /\ run'[j].verdict = run[j].verdict
         /\ run'[j].told = run[j].told
         /\ run[j].done => run'[j].done
         /\ run'[j].done \/ run'[j].callers # {} <=> run[j].done \/ run[j].callers # {}
<1>1. run[j] \in Run
  BY DEF TypeOK
<1>2. CASE c \in run[j].callers
  <2>1. run'[j] = [run[j] EXCEPT !.done = TRUE, !.callers = @ \ {c}]
    BY <1>2 DEF CallCancel
  <2>2. QED
    BY <1>1, <1>2, <2>1 DEF Run
<1>3. CASE c \notin run[j].callers
  BY <1>3 DEF CallCancel
<1>4. QED
  BY <1>2, <1>3

\* What looking at the context leaves of it.
LEMMA JudgeFields ==
  ASSUME TypeOK, NEW i \in Jobs, Judge(i), NEW j \in Jobs
  PROVE  /\ run'[j].timeout = run[j].timeout
         /\ run'[j].pause = run[j].pause
         /\ run'[j].cancel = run[j].cancel
         /\ run'[j].done = run[j].done
         /\ run'[j].callers = run[j].callers
         /\ run'[j].told = run[j].told
         /\ i # j => run'[j] = run[j]
         /\ run[i].pc \in {"sampled", "unpaused"}
         /\ run'[i].pc \in {"unpaused", "decided"}
<1>1. run[i] \in Run /\ run[j] \in Run
  BY DEF TypeOK
<1>2. PICK pc, v :
         run' = [run EXCEPT ![i].pc = pc, ![i].verdict = v]
  BY DEF Judge
<1>3. i # j => run'[j] = run[j]
  BY <1>2 DEF TypeOK
<1>4. run'[i] = [run[i] EXCEPT !.pc = pc, !.verdict = v]
  BY <1>2 DEF TypeOK
<1>5. run[i].pc \in {"sampled", "unpaused"} /\ run'[i].pc \in {"unpaused", "decided"}
  BY <1>1 DEF Judge, TypeOK, Run
<1>6. CASE i = j
  BY <1>1, <1>4, <1>5, <1>6 DEF Run
<1>7. QED
  BY <1>3, <1>5, <1>6

-----------------------------------------------------------------------------
\* A request or tick that is about to start a job, or to mark it refused, has
\* one in hand.
ActorsHoldJobs ==
  /\ \A c \in Clients : client[c].pc \in {"created", "refused"} => client[c].job \in Jobs
  /\ sched.pc = "created" => sched.job \in Jobs

\* What RunningIsOwned needs to survive the deferred function: by then the
\* row no longer says running.
LeavingIsSettled ==
  \A j \in Jobs \ Incremental : run[j].pc = "leaving" => status[j] # "running"

\* A final status is the last thing a run writes.
FinalMeansOver ==
  \A j \in Jobs : status[j] \in Final => run[j].pc \in {"none", "leaving"}

\* The case of the switch that a run took, against what it sampled and read.
VerdictFits(r) ==
  \/ r.verdict = "paused" /\ FirstCase(r)
  \/ /\ r.verdict = "cancelled" /\ ~ r.pause /\ ~ r.timeout
     /\ r.cancel \/ r.done
  \/ r.verdict = "failed" /\ ~ r.pause /\ ~ r.timeout /\ ~ r.cancel

\* What OutcomeMatchesRequest needs: nothing that was asked before the engine
\* returned is missed by the sample, and the verdict fits the sample.
JudgedRight ==
  \A j \in Jobs :
    /\ run[j].pc \in {"returned", "sampled", "unpaused", "decided"} => run[j].told \subseteq asked
    /\ run[j].pc \in {"sampled", "unpaused", "decided"} =>
         /\ "pause" \in run[j].told => run[j].pause
         /\ "cancel" \in run[j].told => run[j].cancel
    /\ run[j].pc = "unpaused" => ~ run[j].pause /\ ~ run[j].timeout
    /\ run[j].pc = "decided" => VerdictFits(run[j])

SlotInv ==
  /\ TypeOK
  /\ ActorsHoldJobs
  /\ SlotIsLiveRun
  /\ RunningIsOwned
  /\ LeavingIsSettled
  /\ FinalMeansOver
  /\ NoStaleRequest
  /\ JudgedRight

LEMMA ActorsStep ==
  ASSUME TypeOK, ActorsHoldJobs, [Next]_vars
  PROVE  ActorsHoldJobs'
<1> USE DEF TypeOK, ActorsHoldJobs, Idle, storeVars, flagVars, actorVars, strayVars, histVars
<1>1. ASSUME NEW c \in Clients, NEW j \in Jobs, CreateJob(c, j)
      PROVE  ActorsHoldJobs'
  <2>1. UNCHANGED sched
    BY <1>1 DEF CreateJob
  <2>2. CASE client' = [client EXCEPT ![c] = [pc |-> "created", job |-> j]]
    BY <2>1, <2>2
  <2>3. CASE UNCHANGED client
    BY <2>1, <2>3
  <2>4. QED
    BY <1>1, <2>2, <2>3 DEF CreateJob
<1>2. ASSUME NEW c \in Clients, NEW j \in Jobs, StartExisting(c, j)
      PROVE  ActorsHoldJobs'
  BY <1>2 DEF StartExisting, Launch
<1>3. ASSUME NEW c \in Clients, CreatedStart(c)
      PROVE  ActorsHoldJobs'
  BY <1>3 DEF CreatedStart, Launch
<1>4. ASSUME NEW c \in Clients, CreatedRefused(c)
      PROVE  ActorsHoldJobs'
  BY <1>4 DEF CreatedRefused
<1>5. ASSUME NEW c \in Clients, MarkRefused(c)
      PROVE  ActorsHoldJobs'
  BY <1>5 DEF MarkRefused
<1>6. ASSUME NEW c \in Clients, PauseJob(c)
      PROVE  ActorsHoldJobs'
  BY <1>6 DEF PauseJob, Raise
<1>7. ASSUME NEW c \in Clients, CancelJob(c)
      PROVE  ActorsHoldJobs'
  BY <1>7 DEF CancelJob, Raise
<1>8. ASSUME NEW c \in Clients, CallCancel(c)
      PROVE  ActorsHoldJobs'
  BY <1>8 DEF CallCancel
<1>9. ASSUME NEW c \in Clients, EngineStart(c)
      PROVE  ActorsHoldJobs'
  BY <1>9 DEF EngineStart
<1>10. ASSUME NEW c \in Clients, EngineStopPause(c)
      PROVE  ActorsHoldJobs'
  BY <1>10 DEF EngineStopPause, Raise
<1>11. ASSUME NEW c \in Clients, EngineStopDisable(c)
      PROVE  ActorsHoldJobs'
  BY <1>11 DEF EngineStopDisable
<1>12. ASSUME SchedDue
      PROVE  ActorsHoldJobs'
  BY <1>12 DEF SchedDue
<1>13. ASSUME NEW j \in Jobs, SchedCreate(j)
      PROVE  ActorsHoldJobs'
  BY <1>13 DEF SchedCreate
<1>14. ASSUME SchedStart
      PROVE  ActorsHoldJobs'
  BY <1>14 DEF SchedStart, Launch
<1>15. ASSUME SchedRefused
      PROVE  ActorsHoldJobs'
  BY <1>15 DEF SchedRefused
<1>16. ASSUME NEW j \in Jobs, FailLookup(j)
      PROVE  ActorsHoldJobs'
  BY <1>16 DEF FailLookup
<1>17. ASSUME NEW j \in Jobs, EngineBegin(j)
      PROVE  ActorsHoldJobs'
  BY <1>17 DEF EngineBegin
<1>18. ASSUME NEW j \in Jobs, EngineProgress(j)
      PROVE  ActorsHoldJobs'
  BY <1>18 DEF EngineProgress
<1>19. ASSUME NEW j \in Jobs, SpawnWorker(j)
      PROVE  ActorsHoldJobs'
  BY <1>19 DEF SpawnWorker
<1>20. ASSUME NEW j \in Jobs, WorkerWrite(j)
      PROVE  ActorsHoldJobs'
  BY <1>20 DEF WorkerWrite
<1>21. ASSUME NEW j \in Jobs, EngineComplete(j)
      PROVE  ActorsHoldJobs'
  BY <1>21 DEF EngineComplete
<1>22. ASSUME NEW j \in Jobs, EngineError(j)
      PROVE  ActorsHoldJobs'
  BY <1>22 DEF EngineError
<1>23. ASSUME NEW j \in Jobs, SampleFlags(j)
      PROVE  ActorsHoldJobs'
  BY <1>23 DEF SampleFlags
<1>24. ASSUME NEW j \in Jobs, Judge(j)
      PROVE  ActorsHoldJobs'
  BY <1>24 DEF Judge
<1>25. ASSUME NEW j \in Jobs, Settle(j)
      PROVE  ActorsHoldJobs'
  BY <1>25 DEF Settle
<1>26. ASSUME NEW j \in Jobs, Leave(j)
      PROVE  ActorsHoldJobs'
  BY <1>26 DEF Leave
<1>27. ASSUME Crash
      PROVE  ActorsHoldJobs'
  BY <1>27 DEF Crash
<1>28. CASE UNCHANGED vars
  BY <1>28 DEF vars, storeVars, flagVars, actorVars, strayVars, histVars
<1>29. QED
  BY <1>1, <1>2, <1>3, <1>4, <1>5, <1>6, <1>7, <1>8, <1>9, <1>10, <1>11,
     <1>12, <1>13, <1>14, <1>15, <1>16, <1>17, <1>18, <1>19, <1>20,
     <1>21, <1>22, <1>23, <1>24, <1>25, <1>26, <1>27, <1>28
     DEF Next, ClientNext, SchedNext, RunNext

LEMMA SlotStep ==
  ASSUME TypeOK, ActorsHoldJobs, SlotIsLiveRun, [Next]_vars
  PROVE  SlotIsLiveRun'
<1> USE JobAssumption DEF TypeOK, ActorsHoldJobs, SlotIsLiveRun, Run, NoRun, NewRun,
        storeVars, flagVars, actorVars, strayVars, histVars
<1>1. ASSUME NEW c \in Clients, NEW j \in Jobs, CreateJob(c, j)
      PROVE  SlotIsLiveRun'
  BY <1>1 DEF CreateJob
<1>2. ASSUME NEW c \in Clients, NEW j \in Jobs, StartExisting(c, j)
      PROVE  SlotIsLiveRun'
  BY <1>2 DEF StartExisting, CanStart, Launch
<1>3. ASSUME NEW c \in Clients, CreatedStart(c)
      PROVE  SlotIsLiveRun'
  BY <1>3 DEF CreatedStart, CanStart, Launch
<1>4. ASSUME NEW c \in Clients, CreatedRefused(c)
      PROVE  SlotIsLiveRun'
  BY <1>4 DEF CreatedRefused
<1>5. ASSUME NEW c \in Clients, MarkRefused(c)
      PROVE  SlotIsLiveRun'
  BY <1>5 DEF MarkRefused
<1>6. ASSUME NEW c \in Clients, PauseJob(c)
      PROVE  SlotIsLiveRun'
  BY <1>6 DEF PauseJob, Raise
<1>7. ASSUME NEW c \in Clients, CancelJob(c)
      PROVE  SlotIsLiveRun'
  BY <1>7 DEF CancelJob, Raise
<1>8. ASSUME NEW c \in Clients, CallCancel(c)
      PROVE  SlotIsLiveRun'
  <2> HIDE DEF TypeOK, Run
  <2>1. \A j \in Jobs : run'[j].pc = run[j].pc
    BY <1>8, CallCancelFields
  <2>2. cancel' = cancel
    BY <1>8 DEF CallCancel
  <2>3. QED
    BY <2>1, <2>2
<1>9. ASSUME NEW c \in Clients, EngineStart(c)
      PROVE  SlotIsLiveRun'
  BY <1>9 DEF EngineStart
<1>10. ASSUME NEW c \in Clients, EngineStopPause(c)
      PROVE  SlotIsLiveRun'
  BY <1>10 DEF EngineStopPause, Raise
<1>11. ASSUME NEW c \in Clients, EngineStopDisable(c)
      PROVE  SlotIsLiveRun'
  BY <1>11 DEF EngineStopDisable
<1>12. ASSUME SchedDue
      PROVE  SlotIsLiveRun'
  BY <1>12 DEF SchedDue
<1>13. ASSUME NEW j \in Jobs, SchedCreate(j)
      PROVE  SlotIsLiveRun'
  BY <1>13 DEF SchedCreate
<1>14. ASSUME SchedStart
      PROVE  SlotIsLiveRun'
  BY <1>14 DEF SchedStart, CanStart, Launch
<1>15. ASSUME SchedRefused
      PROVE  SlotIsLiveRun'
  BY <1>15 DEF SchedRefused
<1>16. ASSUME NEW j \in Jobs, FailLookup(j)
      PROVE  SlotIsLiveRun'
  BY <1>16 DEF FailLookup
<1>17. ASSUME NEW j \in Jobs, EngineBegin(j)
      PROVE  SlotIsLiveRun'
  BY <1>17 DEF EngineBegin
<1>18. ASSUME NEW j \in Jobs, EngineProgress(j)
      PROVE  SlotIsLiveRun'
  BY <1>18 DEF EngineProgress
<1>19. ASSUME NEW j \in Jobs, SpawnWorker(j)
      PROVE  SlotIsLiveRun'
  BY <1>19 DEF SpawnWorker
<1>20. ASSUME NEW j \in Jobs, WorkerWrite(j)
      PROVE  SlotIsLiveRun'
  BY <1>20 DEF WorkerWrite
<1>21. ASSUME NEW j \in Jobs, EngineComplete(j)
      PROVE  SlotIsLiveRun'
  BY <1>21 DEF EngineComplete
<1>22. ASSUME NEW j \in Jobs, EngineError(j)
      PROVE  SlotIsLiveRun'
  BY <1>22 DEF EngineError
<1>23. ASSUME NEW j \in Jobs, SampleFlags(j)
      PROVE  SlotIsLiveRun'
  BY <1>23 DEF SampleFlags
<1>24. ASSUME NEW j \in Jobs, Judge(j)
      PROVE  SlotIsLiveRun'
  BY <1>24 DEF Judge
<1>25. ASSUME NEW j \in Jobs, Settle(j)
      PROVE  SlotIsLiveRun'
  BY <1>25 DEF Settle
<1>26. ASSUME NEW j \in Jobs, Leave(j)
      PROVE  SlotIsLiveRun'
  BY <1>26 DEF Leave
<1>27. ASSUME Crash
      PROVE  SlotIsLiveRun'
  BY <1>27 DEF Crash
<1>28. CASE UNCHANGED vars
  BY <1>28 DEF vars, storeVars, flagVars, actorVars, strayVars, histVars
<1>29. QED
  BY <1>1, <1>2, <1>3, <1>4, <1>5, <1>6, <1>7, <1>8, <1>9, <1>10, <1>11,
     <1>12, <1>13, <1>14, <1>15, <1>16, <1>17, <1>18, <1>19, <1>20,
     <1>21, <1>22, <1>23, <1>24, <1>25, <1>26, <1>27, <1>28
     DEF Next, ClientNext, SchedNext, RunNext

LEMMA OwnershipStep ==
  ASSUME TypeOK, ActorsHoldJobs, SlotIsLiveRun, RunningIsOwned,
         LeavingIsSettled, FinalMeansOver, [Next]_vars
  PROVE  RunningIsOwned' /\ LeavingIsSettled' /\ FinalMeansOver'
<1> USE JobAssumption DEF TypeOK, ActorsHoldJobs, SlotIsLiveRun, RunningIsOwned,
        LeavingIsSettled, FinalMeansOver, Startable, Final, Run, NoRun, NewRun,
        storeVars, flagVars, actorVars, strayVars, histVars
<1>1. ASSUME NEW c \in Clients, NEW j \in Jobs, CreateJob(c, j)
      PROVE  RunningIsOwned' /\ LeavingIsSettled' /\ FinalMeansOver'
  BY <1>1 DEF CreateJob
<1>2. ASSUME NEW c \in Clients, NEW j \in Jobs, StartExisting(c, j)
      PROVE  RunningIsOwned' /\ LeavingIsSettled' /\ FinalMeansOver'
  BY <1>2 DEF StartExisting, CanStart, Launch, Resumed
<1>3. ASSUME NEW c \in Clients, CreatedStart(c)
      PROVE  RunningIsOwned' /\ LeavingIsSettled' /\ FinalMeansOver'
  BY <1>3 DEF CreatedStart, CanStart, Launch, Resumed
<1>4. ASSUME NEW c \in Clients, CreatedRefused(c)
      PROVE  RunningIsOwned' /\ LeavingIsSettled' /\ FinalMeansOver'
  BY <1>4 DEF CreatedRefused
<1>5. ASSUME NEW c \in Clients, MarkRefused(c)
      PROVE  RunningIsOwned' /\ LeavingIsSettled' /\ FinalMeansOver'
  BY <1>5 DEF MarkRefused
<1>6. ASSUME NEW c \in Clients, PauseJob(c)
      PROVE  RunningIsOwned' /\ LeavingIsSettled' /\ FinalMeansOver'
  BY <1>6 DEF PauseJob, Raise
<1>7. ASSUME NEW c \in Clients, CancelJob(c)
      PROVE  RunningIsOwned' /\ LeavingIsSettled' /\ FinalMeansOver'
  BY <1>7 DEF CancelJob, Raise
<1>8. ASSUME NEW c \in Clients, CallCancel(c)
      PROVE  RunningIsOwned' /\ LeavingIsSettled' /\ FinalMeansOver'
  <2> HIDE DEF TypeOK, Run
  <2>1. \A j \in Jobs : run'[j].pc = run[j].pc
    BY <1>8, CallCancelFields
  <2>2. UNCHANGED <<status, cancel, interrupted>>
    BY <1>8 DEF CallCancel
  <2>3. QED
    BY <2>1, <2>2
<1>9. ASSUME NEW c \in Clients, EngineStart(c)
      PROVE  RunningIsOwned' /\ LeavingIsSettled' /\ FinalMeansOver'
  BY <1>9 DEF EngineStart
<1>10. ASSUME NEW c \in Clients, EngineStopPause(c)
      PROVE  RunningIsOwned' /\ LeavingIsSettled' /\ FinalMeansOver'
  BY <1>10 DEF EngineStopPause, Raise
<1>11. ASSUME NEW c \in Clients, EngineStopDisable(c)
      PROVE  RunningIsOwned' /\ LeavingIsSettled' /\ FinalMeansOver'
  BY <1>11 DEF EngineStopDisable
<1>12. ASSUME SchedDue
      PROVE  RunningIsOwned' /\ LeavingIsSettled' /\ FinalMeansOver'
  BY <1>12 DEF SchedDue
<1>13. ASSUME NEW j \in Jobs, SchedCreate(j)
      PROVE  RunningIsOwned' /\ LeavingIsSettled' /\ FinalMeansOver'
  BY <1>13 DEF SchedCreate
<1>14. ASSUME SchedStart
      PROVE  RunningIsOwned' /\ LeavingIsSettled' /\ FinalMeansOver'
  BY <1>14 DEF SchedStart, CanStart, Launch, Resumed
<1>15. ASSUME SchedRefused
      PROVE  RunningIsOwned' /\ LeavingIsSettled' /\ FinalMeansOver'
  BY <1>15 DEF SchedRefused
<1>16. ASSUME NEW j \in Jobs, FailLookup(j)
      PROVE  RunningIsOwned' /\ LeavingIsSettled' /\ FinalMeansOver'
  BY <1>16 DEF FailLookup
<1>17. ASSUME NEW j \in Jobs, EngineBegin(j)
      PROVE  RunningIsOwned' /\ LeavingIsSettled' /\ FinalMeansOver'
  BY <1>17 DEF EngineBegin
<1>18. ASSUME NEW j \in Jobs, EngineProgress(j)
      PROVE  RunningIsOwned' /\ LeavingIsSettled' /\ FinalMeansOver'
  BY <1>18 DEF EngineProgress
<1>19. ASSUME NEW j \in Jobs, SpawnWorker(j)
      PROVE  RunningIsOwned' /\ LeavingIsSettled' /\ FinalMeansOver'
  BY <1>19 DEF SpawnWorker
<1>20. ASSUME NEW j \in Jobs, WorkerWrite(j)
      PROVE  RunningIsOwned' /\ LeavingIsSettled' /\ FinalMeansOver'
  BY <1>20 DEF WorkerWrite
<1>21. ASSUME NEW j \in Jobs, EngineComplete(j)
      PROVE  RunningIsOwned' /\ LeavingIsSettled' /\ FinalMeansOver'
  BY <1>21 DEF EngineComplete
<1>22. ASSUME NEW j \in Jobs, EngineError(j)
      PROVE  RunningIsOwned' /\ LeavingIsSettled' /\ FinalMeansOver'
  BY <1>22 DEF EngineError
<1>23. ASSUME NEW j \in Jobs, SampleFlags(j)
      PROVE  RunningIsOwned' /\ LeavingIsSettled' /\ FinalMeansOver'
  BY <1>23 DEF SampleFlags
<1>24. ASSUME NEW j \in Jobs, Judge(j)
      PROVE  RunningIsOwned' /\ LeavingIsSettled' /\ FinalMeansOver'
  <2> HIDE DEF TypeOK, Run
  <2>1. run[j].pc \in {"sampled", "unpaused"} /\ run'[j].pc \in {"unpaused", "decided"}
    BY <1>24, JudgeFields
  <2>2. \A i \in Jobs : j # i => run'[i] = run[i]
    BY <1>24, JudgeFields
  <2>3. UNCHANGED <<status, cancel, interrupted>>
    BY <1>24 DEF Judge
  <2>4. QED
    BY <2>1, <2>2, <2>3
<1>25. ASSUME NEW j \in Jobs, Settle(j)
      PROVE  RunningIsOwned' /\ LeavingIsSettled' /\ FinalMeansOver'
  <2>1. run[j].verdict # "running"
    BY DEF Verdicts
  <2>2. run'[j].pc = "leaving" /\ \A i \in Jobs : j # i => run'[i] = run[i]
    BY <1>25 DEF Settle
  <2>3. status'[j] = run[j].verdict /\ \A i \in Jobs : j # i => status'[i] = status[i]
    BY <1>25 DEF Settle
  <2>4. UNCHANGED <<cancel, interrupted>>
    BY <1>25 DEF Settle
  <2> HIDE DEF TypeOK, Run
  <2>5. QED
    BY <2>1, <2>2, <2>3, <2>4
<1>26. ASSUME NEW j \in Jobs, Leave(j)
      PROVE  RunningIsOwned' /\ LeavingIsSettled' /\ FinalMeansOver'
  BY <1>26 DEF Leave
<1>27. ASSUME Crash
      PROVE  RunningIsOwned' /\ LeavingIsSettled' /\ FinalMeansOver'
  BY <1>27 DEF Crash
<1>28. CASE UNCHANGED vars
  BY <1>28 DEF vars, storeVars, flagVars, actorVars, strayVars, histVars
<1>29. QED
  BY <1>1, <1>2, <1>3, <1>4, <1>5, <1>6, <1>7, <1>8, <1>9, <1>10, <1>11,
     <1>12, <1>13, <1>14, <1>15, <1>16, <1>17, <1>18, <1>19, <1>20,
     <1>21, <1>22, <1>23, <1>24, <1>25, <1>26, <1>27, <1>28
     DEF Next, ClientNext, SchedNext, RunNext

LEMMA RaiseKeepsRequests ==
  ASSUME TypeOK, NoStaleRequest, NEW c \in Clients, NEW req \in Requests, Raise(c, req)
  PROVE  NoStaleRequest'
<1> SUFFICES ASSUME NEW j \in Jobs, cancel = j
             PROVE  /\ pauseReq' <=> "pause" \in asked'
                    /\ cancelReq' <=> "cancel" \in asked'
                    /\ run'[j].pause => "pause" \in asked'
                    /\ run'[j].cancel => "cancel" \in asked'
                    /\ asked' # {} <=> run'[j].done \/ run'[j].callers # {}
  BY DEF NoStaleRequest, Raise
<1>1. asked' = asked \cup {req}
  BY JobAssumption DEF Raise
<1>2. (pauseReq' <=> pauseReq \/ req = "pause") /\ (cancelReq' <=> cancelReq \/ req = "cancel")
  BY Zenon DEF Raise
<1>3. /\ run'[j].pause = run[j].pause
      /\ run'[j].cancel = run[j].cancel
      /\ run'[j].callers = run[j].callers \cup {c}
  BY RaiseFields
<1>4. /\ pauseReq <=> "pause" \in asked
      /\ cancelReq <=> "cancel" \in asked
      /\ run[j].pause => "pause" \in asked
      /\ run[j].cancel => "cancel" \in asked
  BY DEF NoStaleRequest
<1>5. QED
  BY <1>1, <1>2, <1>3, <1>4 DEF Requests

LEMMA RequestStep ==
  ASSUME TypeOK, ActorsHoldJobs, SlotIsLiveRun, NoStaleRequest, [Next]_vars
  PROVE  NoStaleRequest'
<1> USE JobAssumption DEF TypeOK, ActorsHoldJobs, SlotIsLiveRun, NoStaleRequest,
        Run, NoRun, NewRun, storeVars, flagVars, actorVars, strayVars, histVars
<1>1. ASSUME NEW c \in Clients, NEW j \in Jobs, CreateJob(c, j)
      PROVE  NoStaleRequest'
  BY <1>1 DEF CreateJob
<1>2. ASSUME NEW c \in Clients, NEW j \in Jobs, StartExisting(c, j)
      PROVE  NoStaleRequest'
  BY <1>2 DEF StartExisting, CanStart, Launch
<1>3. ASSUME NEW c \in Clients, CreatedStart(c)
      PROVE  NoStaleRequest'
  BY <1>3 DEF CreatedStart, CanStart, Launch
<1>4. ASSUME NEW c \in Clients, CreatedRefused(c)
      PROVE  NoStaleRequest'
  BY <1>4 DEF CreatedRefused
<1>5. ASSUME NEW c \in Clients, MarkRefused(c)
      PROVE  NoStaleRequest'
  BY <1>5 DEF MarkRefused
<1>6. ASSUME NEW c \in Clients, PauseJob(c)
      PROVE  NoStaleRequest'
  <2> HIDE DEF TypeOK, Run, NoStaleRequest
  <2>1. Raise(c, "pause") /\ "pause" \in Requests
    BY <1>6 DEF PauseJob, Requests
  <2>2. QED
    BY <2>1, RaiseKeepsRequests
<1>7. ASSUME NEW c \in Clients, CancelJob(c)
      PROVE  NoStaleRequest'
  <2> HIDE DEF TypeOK, Run, NoStaleRequest
  <2>1. Raise(c, "cancel") /\ "cancel" \in Requests
    BY <1>7 DEF CancelJob, Requests
  <2>2. QED
    BY <2>1, RaiseKeepsRequests
<1>8. ASSUME NEW c \in Clients, CallCancel(c)
      PROVE  NoStaleRequest'
  <2> HIDE DEF TypeOK, Run
  <2>1. \A j \in Jobs :
          /\ run'[j].pause = run[j].pause
          /\ run'[j].cancel = run[j].cancel
          /\ run'[j].done \/ run'[j].callers # {} <=> run[j].done \/ run[j].callers # {}
    BY <1>8, CallCancelFields
  <2>2. UNCHANGED <<cancel, pauseReq, cancelReq, asked>>
    BY <1>8 DEF CallCancel, flagVars, histVars
  <2>3. QED
    BY <2>1, <2>2
<1>9. ASSUME NEW c \in Clients, EngineStart(c)
      PROVE  NoStaleRequest'
  BY <1>9 DEF EngineStart
<1>10. ASSUME NEW c \in Clients, EngineStopPause(c)
      PROVE  NoStaleRequest'
  <2> HIDE DEF TypeOK, Run, NoStaleRequest
  <2>1. Raise(c, "pause") /\ "pause" \in Requests
    BY <1>10 DEF EngineStopPause, Requests
  <2>2. QED
    BY <2>1, RaiseKeepsRequests
<1>11. ASSUME NEW c \in Clients, EngineStopDisable(c)
      PROVE  NoStaleRequest'
  BY <1>11 DEF EngineStopDisable
<1>12. ASSUME SchedDue
      PROVE  NoStaleRequest'
  BY <1>12 DEF SchedDue
<1>13. ASSUME NEW j \in Jobs, SchedCreate(j)
      PROVE  NoStaleRequest'
  BY <1>13 DEF SchedCreate
<1>14. ASSUME SchedStart
      PROVE  NoStaleRequest'
  BY <1>14 DEF SchedStart, CanStart, Launch
<1>15. ASSUME SchedRefused
      PROVE  NoStaleRequest'
  BY <1>15 DEF SchedRefused
<1>16. ASSUME NEW j \in Jobs, FailLookup(j)
      PROVE  NoStaleRequest'
  BY <1>16 DEF FailLookup
<1>17. ASSUME NEW j \in Jobs, EngineBegin(j)
      PROVE  NoStaleRequest'
  BY <1>17 DEF EngineBegin
<1>18. ASSUME NEW j \in Jobs, EngineProgress(j)
      PROVE  NoStaleRequest'
  BY <1>18 DEF EngineProgress
<1>19. ASSUME NEW j \in Jobs, SpawnWorker(j)
      PROVE  NoStaleRequest'
  BY <1>19 DEF SpawnWorker
<1>20. ASSUME NEW j \in Jobs, WorkerWrite(j)
      PROVE  NoStaleRequest'
  BY <1>20 DEF WorkerWrite
<1>21. ASSUME NEW j \in Jobs, EngineComplete(j)
      PROVE  NoStaleRequest'
  BY <1>21 DEF EngineComplete
<1>22. ASSUME NEW j \in Jobs, EngineError(j)
      PROVE  NoStaleRequest'
  BY <1>22 DEF EngineError
<1>23. ASSUME NEW j \in Jobs, SampleFlags(j)
      PROVE  NoStaleRequest'
  BY <1>23 DEF SampleFlags
<1>24. ASSUME NEW j \in Jobs, Judge(j)
      PROVE  NoStaleRequest'
  BY <1>24 DEF Judge
<1>25. ASSUME NEW j \in Jobs, Settle(j)
      PROVE  NoStaleRequest'
  BY <1>25 DEF Settle
<1>26. ASSUME NEW j \in Jobs, Leave(j)
      PROVE  NoStaleRequest'
  BY <1>26 DEF Leave
<1>27. ASSUME Crash
      PROVE  NoStaleRequest'
  BY <1>27 DEF Crash
<1>28. CASE UNCHANGED vars
  BY <1>28 DEF vars, storeVars, flagVars, actorVars, strayVars, histVars
<1>29. QED
  BY <1>1, <1>2, <1>3, <1>4, <1>5, <1>6, <1>7, <1>8, <1>9, <1>10, <1>11,
     <1>12, <1>13, <1>14, <1>15, <1>16, <1>17, <1>18, <1>19, <1>20,
     <1>21, <1>22, <1>23, <1>24, <1>25, <1>26, <1>27, <1>28
     DEF Next, ClientNext, SchedNext, RunNext

LEMMA JudgeStep ==
  ASSUME TypeOK, ActorsHoldJobs, SlotIsLiveRun, NoStaleRequest, JudgedRight, [Next]_vars
  PROVE  JudgedRight'
<1> USE JobAssumption DEF TypeOK, ActorsHoldJobs, SlotIsLiveRun, NoStaleRequest,
        JudgedRight, VerdictFits, FirstCase, Run, NoRun, NewRun,
        storeVars, flagVars, actorVars, strayVars, histVars
<1>1. ASSUME NEW c \in Clients, NEW j \in Jobs, CreateJob(c, j)
      PROVE  JudgedRight'
  BY <1>1 DEF CreateJob
<1>2. ASSUME NEW c \in Clients, NEW j \in Jobs, StartExisting(c, j)
      PROVE  JudgedRight'
  BY <1>2 DEF StartExisting, CanStart, Launch
<1>3. ASSUME NEW c \in Clients, CreatedStart(c)
      PROVE  JudgedRight'
  BY <1>3 DEF CreatedStart, CanStart, Launch
<1>4. ASSUME NEW c \in Clients, CreatedRefused(c)
      PROVE  JudgedRight'
  BY <1>4 DEF CreatedRefused
<1>5. ASSUME NEW c \in Clients, MarkRefused(c)
      PROVE  JudgedRight'
  BY <1>5 DEF MarkRefused
<1>6. ASSUME NEW c \in Clients, PauseJob(c)
      PROVE  JudgedRight'
  BY <1>6 DEF PauseJob, Raise
<1>7. ASSUME NEW c \in Clients, CancelJob(c)
      PROVE  JudgedRight'
  BY <1>7 DEF CancelJob, Raise
<1>8. ASSUME NEW c \in Clients, CallCancel(c)
      PROVE  JudgedRight'
  <2> HIDE DEF TypeOK, Run
  <2>1. \A j \in Jobs :
          /\ run'[j].pc = run[j].pc
          /\ run'[j].timeout = run[j].timeout
          /\ run'[j].pause = run[j].pause
          /\ run'[j].cancel = run[j].cancel
          /\ run'[j].verdict = run[j].verdict
          /\ run'[j].told = run[j].told
          /\ run[j].done => run'[j].done
    BY <1>8, CallCancelFields
  <2>2. asked' = asked
    BY <1>8 DEF CallCancel, histVars
  <2>3. QED
    BY <2>1, <2>2
<1>9. ASSUME NEW c \in Clients, EngineStart(c)
      PROVE  JudgedRight'
  BY <1>9 DEF EngineStart
<1>10. ASSUME NEW c \in Clients, EngineStopPause(c)
      PROVE  JudgedRight'
  BY <1>10 DEF EngineStopPause, Raise
<1>11. ASSUME NEW c \in Clients, EngineStopDisable(c)
      PROVE  JudgedRight'
  BY <1>11 DEF EngineStopDisable
<1>12. ASSUME SchedDue
      PROVE  JudgedRight'
  BY <1>12 DEF SchedDue
<1>13. ASSUME NEW j \in Jobs, SchedCreate(j)
      PROVE  JudgedRight'
  BY <1>13 DEF SchedCreate
<1>14. ASSUME SchedStart
      PROVE  JudgedRight'
  BY <1>14 DEF SchedStart, CanStart, Launch
<1>15. ASSUME SchedRefused
      PROVE  JudgedRight'
  BY <1>15 DEF SchedRefused
<1>16. ASSUME NEW j \in Jobs, FailLookup(j)
      PROVE  JudgedRight'
  BY <1>16 DEF FailLookup
<1>17. ASSUME NEW j \in Jobs, EngineBegin(j)
      PROVE  JudgedRight'
  BY <1>17 DEF EngineBegin
<1>18. ASSUME NEW j \in Jobs, EngineProgress(j)
      PROVE  JudgedRight'
  BY <1>18 DEF EngineProgress
<1>19. ASSUME NEW j \in Jobs, SpawnWorker(j)
      PROVE  JudgedRight'
  BY <1>19 DEF SpawnWorker
<1>20. ASSUME NEW j \in Jobs, WorkerWrite(j)
      PROVE  JudgedRight'
  BY <1>20 DEF WorkerWrite
<1>21. ASSUME NEW j \in Jobs, EngineComplete(j)
      PROVE  JudgedRight'
  BY <1>21 DEF EngineComplete
<1>22. ASSUME NEW j \in Jobs, EngineError(j)
      PROVE  JudgedRight'
  BY <1>22 DEF EngineError
<1>23. ASSUME NEW j \in Jobs, SampleFlags(j)
      PROVE  JudgedRight'
  BY <1>23 DEF SampleFlags
<1>24. ASSUME NEW j \in Jobs, Judge(j)
      PROVE  JudgedRight'
  <2> HIDE DEF TypeOK, Run
  <2>1. asked' = asked
    BY <1>24 DEF Judge, histVars
  <2>2. ASSUME NEW i \in Jobs, i # j
        PROVE  run'[i] = run[i]
    BY <1>24, <2>2, JudgeFields
  <2>3. /\ run'[j].timeout = run[j].timeout
        /\ run'[j].pause = run[j].pause
        /\ run'[j].cancel = run[j].cancel
        /\ run'[j].done = run[j].done
        /\ run'[j].told = run[j].told
    BY <1>24, JudgeFields
  <2>4. \/ run[j].pc = "sampled" /\ run'[j].pc = "unpaused" /\ ~ FirstCase(run[j])
        \/ /\ run[j].pc = "sampled" /\ run'[j].pc = "decided" /\ FirstCase(run[j])
           /\ run'[j].verdict = "paused"
        \/ /\ run[j].pc = "unpaused" /\ run'[j].pc = "decided"
           /\ IF run[j].cancel \/ run[j].done THEN run'[j].verdict = "cancelled"
                                              ELSE run'[j].verdict = "failed"
    BY <1>24 DEF Judge, TypeOK, Run
  <2>5. QED
    BY <2>1, <2>2, <2>3, <2>4
<1>25. ASSUME NEW j \in Jobs, Settle(j)
      PROVE  JudgedRight'
  BY <1>25 DEF Settle
<1>26. ASSUME NEW j \in Jobs, Leave(j)
      PROVE  JudgedRight'
  BY <1>26 DEF Leave
<1>27. ASSUME Crash
      PROVE  JudgedRight'
  BY <1>27 DEF Crash
<1>28. CASE UNCHANGED vars
  BY <1>28 DEF vars, storeVars, flagVars, actorVars, strayVars, histVars
<1>29. QED
  BY <1>1, <1>2, <1>3, <1>4, <1>5, <1>6, <1>7, <1>8, <1>9, <1>10, <1>11,
     <1>12, <1>13, <1>14, <1>15, <1>16, <1>17, <1>18, <1>19, <1>20,
     <1>21, <1>22, <1>23, <1>24, <1>25, <1>26, <1>27, <1>28
     DEF Next, ClientNext, SchedNext, RunNext

THEOREM SlotInvariant == Spec => []SlotInv
<1>1. Init => SlotInv
  BY InitTypes, JobAssumption DEF Init, SlotInv, ActorsHoldJobs, SlotIsLiveRun,
     RunningIsOwned, LeavingIsSettled, FinalMeansOver, Final, NoStaleRequest, JudgedRight,
     Idle, NoRun
<1>2. SlotInv /\ [Next]_vars => SlotInv'
  BY NextTypes, ActorsStep, SlotStep, OwnershipStep, RequestStep, JudgeStep DEF SlotInv
<1>3. QED
  BY <1>1, <1>2, PTL DEF Spec

\* Runner.cancel names exactly the job whose goroutine lives.
THEOREM SlotTracksRun == Spec => []SlotIsLiveRun
<1>1. SlotInv => SlotIsLiveRun
  BY DEF SlotInv
<1>2. QED
  BY <1>1, SlotInvariant, PTL

\* The engine never runs twice at the same time, for any number of jobs,
\* requests and crashes.
THEOREM MutualExclusion == Spec => []OneRunAtATime
<1>1. SlotInv => OneRunAtATime
  BY DEF SlotInv, SlotIsLiveRun, OneRunAtATime
<1>2. QED
  BY <1>1, SlotInvariant, PTL

\* A bulk, backup or sample job shown as running is the one in the slot, or
\* was running when the process died.
THEOREM Ownership == Spec => []RunningIsOwned
<1>1. SlotInv => RunningIsOwned
  BY DEF SlotInv
<1>2. QED
  BY <1>1, SlotInvariant, PTL

\* A request made before a run began has no effect on how that run ends.
THEOREM FreshRequests == Spec => []NoStaleRequest
<1>1. SlotInv => NoStaleRequest
  BY DEF SlotInv
<1>2. QED
  BY <1>1, SlotInvariant, PTL

-----------------------------------------------------------------------------
LEMMA OutcomeLemma ==
  ASSUME SlotInv, [Next]_vars, NEW k \in Jobs
  PROVE  OutcomeStep(k)
<1> USE DEF SlotInv, TypeOK, SlotIsLiveRun, NoStaleRequest, JudgedRight, VerdictFits,
        FirstCase, Requests, OutcomeStep, Run,
        NoRun, NewRun, storeVars, flagVars, actorVars, strayVars, histVars
<1>1. ASSUME NEW c \in Clients, NEW j \in Jobs, CreateJob(c, j)
      PROVE  OutcomeStep(k)
  BY <1>1 DEF CreateJob
<1>2. ASSUME NEW c \in Clients, NEW j \in Jobs, StartExisting(c, j)
      PROVE  OutcomeStep(k)
  BY <1>2 DEF StartExisting, Launch
<1>3. ASSUME NEW c \in Clients, CreatedStart(c)
      PROVE  OutcomeStep(k)
  BY <1>3 DEF CreatedStart, Launch
<1>4. ASSUME NEW c \in Clients, CreatedRefused(c)
      PROVE  OutcomeStep(k)
  BY <1>4 DEF CreatedRefused
<1>5. ASSUME NEW c \in Clients, MarkRefused(c)
      PROVE  OutcomeStep(k)
  BY <1>5 DEF MarkRefused
<1>6. ASSUME NEW c \in Clients, PauseJob(c)
      PROVE  OutcomeStep(k)
  BY <1>6 DEF PauseJob, Raise
<1>7. ASSUME NEW c \in Clients, CancelJob(c)
      PROVE  OutcomeStep(k)
  BY <1>7 DEF CancelJob, Raise
<1>8. ASSUME NEW c \in Clients, CallCancel(c)
      PROVE  OutcomeStep(k)
  <2> HIDE DEF TypeOK, Run
  <2>1. run'[k].pc = run[k].pc
    BY <1>8, CallCancelFields
  <2>2. QED
    BY <2>1
<1>9. ASSUME NEW c \in Clients, EngineStart(c)
      PROVE  OutcomeStep(k)
  BY <1>9 DEF EngineStart
<1>10. ASSUME NEW c \in Clients, EngineStopPause(c)
      PROVE  OutcomeStep(k)
  BY <1>10 DEF EngineStopPause, Raise
<1>11. ASSUME NEW c \in Clients, EngineStopDisable(c)
      PROVE  OutcomeStep(k)
  BY <1>11 DEF EngineStopDisable
<1>12. ASSUME SchedDue
      PROVE  OutcomeStep(k)
  BY <1>12 DEF SchedDue
<1>13. ASSUME NEW j \in Jobs, SchedCreate(j)
      PROVE  OutcomeStep(k)
  BY <1>13 DEF SchedCreate
<1>14. ASSUME SchedStart
      PROVE  OutcomeStep(k)
  BY <1>14 DEF SchedStart, Launch
<1>15. ASSUME SchedRefused
      PROVE  OutcomeStep(k)
  BY <1>15 DEF SchedRefused
<1>16. ASSUME NEW j \in Jobs, FailLookup(j)
      PROVE  OutcomeStep(k)
  BY <1>16 DEF FailLookup
<1>17. ASSUME NEW j \in Jobs, EngineBegin(j)
      PROVE  OutcomeStep(k)
  BY <1>17 DEF EngineBegin
<1>18. ASSUME NEW j \in Jobs, EngineProgress(j)
      PROVE  OutcomeStep(k)
  BY <1>18 DEF EngineProgress
<1>19. ASSUME NEW j \in Jobs, SpawnWorker(j)
      PROVE  OutcomeStep(k)
  BY <1>19 DEF SpawnWorker
<1>20. ASSUME NEW j \in Jobs, WorkerWrite(j)
      PROVE  OutcomeStep(k)
  BY <1>20 DEF WorkerWrite
<1>21. ASSUME NEW j \in Jobs, EngineComplete(j)
      PROVE  OutcomeStep(k)
  BY <1>21 DEF EngineComplete
<1>22. ASSUME NEW j \in Jobs, EngineError(j)
      PROVE  OutcomeStep(k)
  BY <1>22 DEF EngineError
<1>23. ASSUME NEW j \in Jobs, SampleFlags(j)
      PROVE  OutcomeStep(k)
  BY <1>23 DEF SampleFlags
<1>24. ASSUME NEW j \in Jobs, Judge(j)
      PROVE  OutcomeStep(k)
  BY <1>24 DEF Judge
<1>25. ASSUME NEW j \in Jobs, Settle(j)
      PROVE  OutcomeStep(k)
  <2>1. CASE j # k
    <3>1. run'[k].pc = run[k].pc
      BY <1>25, <2>1 DEF Settle
    <3>2. QED
      BY <3>1
  <2>2. CASE j = k
    <3>1. run[k].pc = "decided" /\ status'[k] = run[k].verdict
      BY <1>25, <2>2 DEF Settle
    <3>2. cancel = k
      BY <3>1
    <3>3. VerdictFits(run[k]) /\ run[k].told \subseteq {"pause", "cancel"}
      BY <3>1
    <3>4. /\ run[k].told \subseteq asked
          /\ "pause" \in run[k].told => run[k].pause
          /\ "cancel" \in run[k].told => run[k].cancel
      BY <3>1
    <3>5. /\ asked \subseteq {"pause", "cancel"}
          /\ run[k].pause => "pause" \in asked
          /\ run[k].cancel => "cancel" \in asked
          /\ run[k].done => asked # {}
      BY <3>2
    <3> HIDE DEF SlotInv, TypeOK, SlotIsLiveRun, NoStaleRequest, JudgedRight, Run
    <3>6. QED
      BY <3>1, <3>3, <3>4, <3>5
  <2>3. QED
    BY <2>1, <2>2
<1>26. ASSUME NEW j \in Jobs, Leave(j)
      PROVE  OutcomeStep(k)
  BY <1>26 DEF Leave
<1>27. ASSUME Crash
      PROVE  OutcomeStep(k)
  BY <1>27 DEF Crash
<1>28. CASE UNCHANGED vars
  BY <1>28 DEF vars, storeVars, flagVars, actorVars, strayVars, histVars
<1>29. QED
  BY <1>1, <1>2, <1>3, <1>4, <1>5, <1>6, <1>7, <1>8, <1>9, <1>10, <1>11,
     <1>12, <1>13, <1>14, <1>15, <1>16, <1>17, <1>18, <1>19, <1>20,
     <1>21, <1>22, <1>23, <1>24, <1>25, <1>26, <1>27, <1>28
     DEF Next, ClientNext, SchedNext, RunNext

\* However requests, errors and timeouts race, a run that was asked to stop is
\* never reported failed, and it is cancelled only if cancel was asked and no
\* pause was seen.
THEOREM RequestsDecideOutcome == Spec => OutcomeMatchesRequest
<1>1. SlotInv /\ [Next]_vars => [\A j \in Jobs : OutcomeStep(j)]_vars
  BY OutcomeLemma
<1>2. QED
  BY <1>1, SlotInvariant, PTL DEF Spec, OutcomeMatchesRequest

LEMMA FinalLemma ==
  ASSUME SlotInv, [Next]_vars, NEW k \in Jobs
  PROVE  FinalStep(k)
<1> USE JobAssumption DEF SlotInv, TypeOK, ActorsHoldJobs, SlotIsLiveRun,
        FinalMeansOver, FinalStep, Final, Startable, Run, NoRun, NewRun,
        storeVars, flagVars, actorVars, strayVars, histVars
<1>1. ASSUME NEW c \in Clients, NEW j \in Jobs, CreateJob(c, j)
      PROVE  FinalStep(k)
  BY <1>1 DEF CreateJob
<1>2. ASSUME NEW c \in Clients, NEW j \in Jobs, StartExisting(c, j)
      PROVE  FinalStep(k)
  BY <1>2 DEF StartExisting, CanStart, Launch, Resumed
<1>3. ASSUME NEW c \in Clients, CreatedStart(c)
      PROVE  FinalStep(k)
  BY <1>3 DEF CreatedStart, CanStart, Launch, Resumed
<1>4. ASSUME NEW c \in Clients, CreatedRefused(c)
      PROVE  FinalStep(k)
  BY <1>4 DEF CreatedRefused
<1>5. ASSUME NEW c \in Clients, MarkRefused(c)
      PROVE  FinalStep(k)
  BY <1>5 DEF MarkRefused
<1>6. ASSUME NEW c \in Clients, PauseJob(c)
      PROVE  FinalStep(k)
  BY <1>6 DEF PauseJob, Raise
<1>7. ASSUME NEW c \in Clients, CancelJob(c)
      PROVE  FinalStep(k)
  BY <1>7 DEF CancelJob, Raise
<1>8. ASSUME NEW c \in Clients, CallCancel(c)
      PROVE  FinalStep(k)
  <2> HIDE DEF TypeOK, Run
  <2>1. run'[k].pc = run[k].pc
    BY <1>8, CallCancelFields
  <2>2. status' = status
    BY <1>8 DEF CallCancel
  <2>3. QED
    BY <2>1, <2>2
<1>9. ASSUME NEW c \in Clients, EngineStart(c)
      PROVE  FinalStep(k)
  BY <1>9 DEF EngineStart
<1>10. ASSUME NEW c \in Clients, EngineStopPause(c)
      PROVE  FinalStep(k)
  BY <1>10 DEF EngineStopPause, Raise
<1>11. ASSUME NEW c \in Clients, EngineStopDisable(c)
      PROVE  FinalStep(k)
  BY <1>11 DEF EngineStopDisable
<1>12. ASSUME SchedDue
      PROVE  FinalStep(k)
  BY <1>12 DEF SchedDue
<1>13. ASSUME NEW j \in Jobs, SchedCreate(j)
      PROVE  FinalStep(k)
  BY <1>13 DEF SchedCreate
<1>14. ASSUME SchedStart
      PROVE  FinalStep(k)
  BY <1>14 DEF SchedStart, CanStart, Launch, Resumed
<1>15. ASSUME SchedRefused
      PROVE  FinalStep(k)
  BY <1>15 DEF SchedRefused
<1>16. ASSUME NEW j \in Jobs, FailLookup(j)
      PROVE  FinalStep(k)
  BY <1>16 DEF FailLookup
<1>17. ASSUME NEW j \in Jobs, EngineBegin(j)
      PROVE  FinalStep(k)
  BY <1>17 DEF EngineBegin
<1>18. ASSUME NEW j \in Jobs, EngineProgress(j)
      PROVE  FinalStep(k)
  BY <1>18 DEF EngineProgress
<1>19. ASSUME NEW j \in Jobs, SpawnWorker(j)
      PROVE  FinalStep(k)
  BY <1>19 DEF SpawnWorker
<1>20. ASSUME NEW j \in Jobs, WorkerWrite(j)
      PROVE  FinalStep(k)
  BY <1>20 DEF WorkerWrite
<1>21. ASSUME NEW j \in Jobs, EngineComplete(j)
      PROVE  FinalStep(k)
  BY <1>21 DEF EngineComplete
<1>22. ASSUME NEW j \in Jobs, EngineError(j)
      PROVE  FinalStep(k)
  BY <1>22 DEF EngineError
<1>23. ASSUME NEW j \in Jobs, SampleFlags(j)
      PROVE  FinalStep(k)
  BY <1>23 DEF SampleFlags
<1>24. ASSUME NEW j \in Jobs, Judge(j)
      PROVE  FinalStep(k)
  BY <1>24 DEF Judge
<1>25. ASSUME NEW j \in Jobs, Settle(j)
      PROVE  FinalStep(k)
  BY <1>25 DEF Settle
<1>26. ASSUME NEW j \in Jobs, Leave(j)
      PROVE  FinalStep(k)
  BY <1>26 DEF Leave
<1>27. ASSUME Crash
      PROVE  FinalStep(k)
  BY <1>27 DEF Crash
<1>28. CASE UNCHANGED vars
  BY <1>28 DEF vars, storeVars, flagVars, actorVars, strayVars, histVars
<1>29. QED
  BY <1>1, <1>2, <1>3, <1>4, <1>5, <1>6, <1>7, <1>8, <1>9, <1>10, <1>11,
     <1>12, <1>13, <1>14, <1>15, <1>16, <1>17, <1>18, <1>19, <1>20,
     <1>21, <1>22, <1>23, <1>24, <1>25, <1>26, <1>27, <1>28
     DEF Next, ClientNext, SchedNext, RunNext

\* A completed or cancelled job is never started again.
THEOREM FinalJobsStayDown == Spec => FinalIsNotRestarted
<1>1. SlotInv /\ [Next]_vars => [\A j \in Jobs : FinalStep(j)]_vars
  BY FinalLemma
<1>2. QED
  BY <1>1, SlotInvariant, PTL DEF Spec, FinalIsNotRestarted

LEMMA SlotRefinement ==
  ASSUME SlotInv, [Next]_vars
  PROVE  [Slot!Next]_(Slot!slotVars)
<1> USE JobAssumption DEF SlotInv, TypeOK, ActorsHoldJobs, SlotIsLiveRun,
        Slot!Next, Slot!slotVars, Run, storeVars, flagVars, actorVars, strayVars, histVars
<1>1. ASSUME NEW c \in Clients, NEW j \in Jobs, CreateJob(c, j)
      PROVE  [Slot!Next]_(Slot!slotVars)
  BY <1>1 DEF CreateJob, Slot!Create
<1>2. ASSUME NEW c \in Clients, NEW j \in Jobs, StartExisting(c, j)
      PROVE  [Slot!Next]_(Slot!slotVars)
  BY <1>2 DEF StartExisting, CanStart, Launch, Resumed, Slot!Acquire, Slot!Startable, Startable
<1>3. ASSUME NEW c \in Clients, CreatedStart(c)
      PROVE  [Slot!Next]_(Slot!slotVars)
  BY <1>3 DEF CreatedStart, CanStart, Launch, Resumed, Slot!Acquire, Slot!Startable, Startable
<1>4. ASSUME NEW c \in Clients, CreatedRefused(c)
      PROVE  [Slot!Next]_(Slot!slotVars)
  BY <1>4 DEF CreatedRefused
<1>5. ASSUME NEW c \in Clients, MarkRefused(c)
      PROVE  [Slot!Next]_(Slot!slotVars)
  BY <1>5 DEF MarkRefused, Slot!Refuse
<1>6. ASSUME NEW c \in Clients, PauseJob(c)
      PROVE  [Slot!Next]_(Slot!slotVars)
  BY <1>6 DEF PauseJob, Raise
<1>7. ASSUME NEW c \in Clients, CancelJob(c)
      PROVE  [Slot!Next]_(Slot!slotVars)
  BY <1>7 DEF CancelJob, Raise
<1>8. ASSUME NEW c \in Clients, CallCancel(c)
      PROVE  [Slot!Next]_(Slot!slotVars)
  BY <1>8 DEF CallCancel
<1>9. ASSUME NEW c \in Clients, EngineStart(c)
      PROVE  [Slot!Next]_(Slot!slotVars)
  BY <1>9 DEF EngineStart
<1>10. ASSUME NEW c \in Clients, EngineStopPause(c)
      PROVE  [Slot!Next]_(Slot!slotVars)
  BY <1>10 DEF EngineStopPause, Raise
<1>11. ASSUME NEW c \in Clients, EngineStopDisable(c)
      PROVE  [Slot!Next]_(Slot!slotVars)
  BY <1>11 DEF EngineStopDisable
<1>12. ASSUME SchedDue
      PROVE  [Slot!Next]_(Slot!slotVars)
  BY <1>12 DEF SchedDue
<1>13. ASSUME NEW j \in Jobs, SchedCreate(j)
      PROVE  [Slot!Next]_(Slot!slotVars)
  BY <1>13 DEF SchedCreate, Slot!Create
<1>14. ASSUME SchedStart
      PROVE  [Slot!Next]_(Slot!slotVars)
  BY <1>14 DEF SchedStart, CanStart, Launch, Resumed, Slot!Acquire, Slot!Startable, Startable
<1>15. ASSUME SchedRefused
      PROVE  [Slot!Next]_(Slot!slotVars)
  BY <1>15 DEF SchedRefused
<1>16. ASSUME NEW j \in Jobs, FailLookup(j)
      PROVE  [Slot!Next]_(Slot!slotVars)
  <2>1. cancel = j /\ cancel # NoJob
    BY <1>16 DEF FailLookup
  <2>2. "failed" \in Slot!Reportable
    BY DEF Slot!Reportable
  <2>3. Slot!Report("failed")
    BY <1>16, <2>1 DEF FailLookup, Slot!Report
  <2>4. QED
    BY <2>2, <2>3
<1>17. ASSUME NEW j \in Jobs, EngineBegin(j)
      PROVE  [Slot!Next]_(Slot!slotVars)
  <2>1. cancel = j /\ cancel # NoJob
    BY <1>17 DEF EngineBegin
  <2>2. "running" \in Slot!Reportable
    BY DEF Slot!Reportable
  <2>3. Slot!Report("running")
    BY <1>17, <2>1 DEF EngineBegin, Slot!Report
  <2>4. QED
    BY <2>2, <2>3
<1>18. ASSUME NEW j \in Jobs, EngineProgress(j)
      PROVE  [Slot!Next]_(Slot!slotVars)
  <2>1. cancel = j /\ cancel # NoJob
    BY <1>18 DEF EngineProgress
  <2>2. "running" \in Slot!Reportable
    BY DEF Slot!Reportable
  <2>3. Slot!Report("running")
    BY <1>18, <2>1 DEF EngineProgress, Slot!Report
  <2>4. QED
    BY <2>2, <2>3
<1>19. ASSUME NEW j \in Jobs, SpawnWorker(j)
      PROVE  [Slot!Next]_(Slot!slotVars)
  BY <1>19 DEF SpawnWorker
<1>20. ASSUME NEW j \in Jobs, WorkerWrite(j)
      PROVE  [Slot!Next]_(Slot!slotVars)
  BY <1>20 DEF WorkerWrite, Slot!Stray
<1>21. ASSUME NEW j \in Jobs, EngineComplete(j)
      PROVE  [Slot!Next]_(Slot!slotVars)
  <2>1. cancel = j /\ cancel # NoJob
    BY <1>21 DEF EngineComplete
  <2>2. "completed" \in Slot!Reportable
    BY DEF Slot!Reportable
  <2>3. Slot!Report("completed")
    BY <1>21, <2>1 DEF EngineComplete, Slot!Report
  <2>4. QED
    BY <2>2, <2>3
<1>22. ASSUME NEW j \in Jobs, EngineError(j)
      PROVE  [Slot!Next]_(Slot!slotVars)
  BY <1>22 DEF EngineError
<1>23. ASSUME NEW j \in Jobs, SampleFlags(j)
      PROVE  [Slot!Next]_(Slot!slotVars)
  BY <1>23 DEF SampleFlags
<1>24. ASSUME NEW j \in Jobs, Judge(j)
      PROVE  [Slot!Next]_(Slot!slotVars)
  BY <1>24 DEF Judge
<1>25. ASSUME NEW j \in Jobs, Settle(j)
      PROVE  [Slot!Next]_(Slot!slotVars)
  <2>1. cancel = j /\ cancel # NoJob
    BY <1>25 DEF Settle
  <2>2. run[j].verdict \in Slot!Reportable
    BY <1>25 DEF Settle, Slot!Reportable, JudgedRight, VerdictFits
  <2>3. Slot!Report(run[j].verdict)
    BY <1>25, <2>1 DEF Settle, Slot!Report
  <2>4. QED
    BY <2>2, <2>3
<1>26. ASSUME NEW j \in Jobs, Leave(j)
      PROVE  [Slot!Next]_(Slot!slotVars)
  BY <1>26 DEF Leave, Slot!Release
<1>27. ASSUME Crash
      PROVE  [Slot!Next]_(Slot!slotVars)
  BY <1>27 DEF Crash, Slot!Vanish
<1>28. CASE UNCHANGED vars
  BY <1>28 DEF vars, storeVars, flagVars, actorVars, strayVars, histVars
<1>29. QED
  BY <1>1, <1>2, <1>3, <1>4, <1>5, <1>6, <1>7, <1>8, <1>9, <1>10, <1>11,
     <1>12, <1>13, <1>14, <1>15, <1>16, <1>17, <1>18, <1>19, <1>20,
     <1>21, <1>22, <1>23, <1>24, <1>25, <1>26, <1>27, <1>28
     DEF Next, ClientNext, SchedNext, RunNext

\* The runner implements JobSlot: seen from the status column and the slot,
\* nothing happens that the one-slot discipline does not name.
THEOREM RunnerImplementsSlot == Spec => KeepsSlotDiscipline
<1>1. Init => Slot!Init
  BY DEF Init, Slot!Init
<1>2. SlotInv /\ [Next]_vars => [Slot!Next]_(Slot!slotVars)
  BY SlotRefinement
<1>3. QED
  BY <1>1, <1>2, SlotInvariant, PTL DEF Spec, KeepsSlotDiscipline, Slot!Spec

=============================================================================
