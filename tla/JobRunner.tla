----------------------------- MODULE JobRunner -----------------------------
(***************************************************************************)
(* internal/jobs/runner.go with the HTTP handlers that call it, the        *)
(* status column of the jobs table, the minute-tick scheduler, and the     *)
(* death and restart of the process.                                       *)
(*                                                                         *)
(* One step is one critical section under Runner.mu, or one call to the    *)
(* store (a single SQLite connection serialises those).  StartJob holds    *)
(* Runner.mu from its first check to the go statement, so it is one step.  *)
(* The migration engine is seen through what the runner can tell: it       *)
(* writes the status running, it returns nil after writing completed, or   *)
(* it returns an error.  Module TablePool opens it up.                     *)
(***************************************************************************)
EXTENDS Naturals, FiniteSets

CONSTANTS Jobs,         \* job ids
          Incremental,  \* the jobs of type incremental_sync
          Clients,      \* HTTP requests that can be in flight together
          NoJob         \* nil

ASSUME JobAssumption == NoJob \notin Jobs /\ Incremental \subseteq Jobs

VARIABLES
  status,     \* jobs.status; "none" before the row exists
  enabled,    \* app_settings.engine_enabled
  cancel,     \* the job whose context Runner.cancel would cancel, or nil
  pauseReq,   \* Runner.pauseReq
  cancelReq,  \* Runner.cancelReq
  run,        \* the goroutine Runner.run of each job, if it has one
  client,     \* each HTTP request in flight: what it is about to do, to what
  sched,      \* the scheduler goroutine, in the same form
  unwritten,  \* jobs whose current run spawned a table worker that has not
              \* made its first UpdateJob call yet
  stray,      \* the same, for workers whose run has returned
  asked,      \* history: requests that met the current run
  interrupted \* history: jobs that were running when the process died

storeVars == <<status, enabled>>
flagVars  == <<cancel, pauseReq, cancelReq>>
actorVars == <<client, sched>>
strayVars == <<unwritten, stray>>
histVars  == <<asked, interrupted>>
vars == <<storeVars, flagVars, run, actorVars, strayVars, histVars>>

Startable == {"pending", "paused", "failed"}
Final     == {"completed", "cancelled"}
Status    == {"none", "running"} \cup Startable \cup Final

\* Where Runner.run is: looking up connections and connecting (launched),
\* inside the engine with the status written (working), holding the engine's
\* error (returned), with the request flags read (sampled), past the first case
\* of its switch (unpaused), in one of its cases (decided), about to run its
\* deferred function (leaving).
RunPC == {"none", "launched", "working", "returned", "sampled", "unpaused",
          "decided", "leaving"}
Requests == {"pause", "cancel"}
Verdicts == {"none", "paused", "cancelled", "failed"}
Run == [pc : RunPC, timeout : BOOLEAN, pause : BOOLEAN, cancel : BOOLEAN,
        done : BOOLEAN,              \* its context is cancelled
        callers : SUBSET Clients,    \* hold its cancel function, to be called
        verdict : Verdicts,          \* the case taken
        told : SUBSET Requests]      \* history: asked when the engine returned
NoRun == [pc |-> "none", timeout |-> FALSE, pause |-> FALSE, cancel |-> FALSE,
          done |-> FALSE, callers |-> {}, verdict |-> "none", told |-> {}]
NewRun == [NoRun EXCEPT !.pc = "launched"]

\* A request that raised a flag is calling the cancel function it found; one
\* that stops the engine (stopping) still has the setting to write (disabling).
ClientPC == {"idle", "created", "refused", "calling", "stopping", "disabling"}
SchedPC  == {"idle", "due", "created"}
Idle     == [pc |-> "idle", job |-> NoJob]

TypeOK ==
  /\ status \in [Jobs -> Status]
  /\ enabled \in BOOLEAN
  /\ cancel \in Jobs \cup {NoJob}
  /\ pauseReq \in BOOLEAN /\ cancelReq \in BOOLEAN
  /\ run \in [Jobs -> Run]
  /\ client \in [Clients -> [pc : ClientPC, job : Jobs \cup {NoJob}]]
  /\ sched \in [pc : SchedPC, job : Jobs \cup {NoJob}]
  /\ unwritten \subseteq Incremental /\ stray \subseteq Incremental
  /\ asked \subseteq Requests
  /\ interrupted \subseteq Jobs

Init ==
  /\ status = [j \in Jobs |-> "none"]
  /\ enabled = FALSE
  /\ cancel = NoJob /\ pauseReq = FALSE /\ cancelReq = FALSE
  /\ run = [j \in Jobs |-> NoRun]
  /\ client = [c \in Clients |-> Idle]
  /\ sched = Idle
  /\ unwritten = {} /\ stray = {}
  /\ asked = {} /\ interrupted = {}

-----------------------------------------------------------------------------
\* Definitions whose name ends in a _Word are faulty variants of the definition
\* that follows them.  No action uses them: they serve to confirm that a property
\* would notice the fault (README.md, "Faulty variants").

CanStart_Busy(j) == enabled /\ status[j] \in Startable
CanStart_AnyStatus(j) == enabled /\ cancel = NoJob /\ status[j] # "running"

\* Runner.StartJob: the conditions it checks ...
CanStart(j) ==
  /\ enabled
  /\ cancel = NoJob
  /\ status[j] \in Startable

Resumed_Typo(s) == IF s \in {"paused", "failed"} THEN "resuming" ELSE s
Resumed_Pending(s) == IF s \in Startable THEN "running" ELSE s

\* ... PrepareJobResume, which turns paused and failed (only) into running ...
Resumed(s) == IF s \in {"paused", "failed"} THEN "running" ELSE s

Launch_StaleFlags(j) ==
  /\ status' = [status EXCEPT ![j] = Resumed(@)]
  /\ cancel' = j
  /\ UNCHANGED <<pauseReq, cancelReq>>
  /\ run' = [run EXCEPT ![j] = NewRun]
  /\ asked' = {}

\* ... and what it does when they hold.
Launch(j) ==
  /\ status' = [status EXCEPT ![j] = Resumed(@)]
  /\ cancel' = j
  /\ pauseReq' = FALSE
  /\ cancelReq' = FALSE
  /\ run' = [run EXCEPT ![j] = NewRun]
  /\ asked' = {}

\* What PauseJob and CancelJob do under the lock: set the flag and take the
\* cancel function if there is one, whichever job it belongs to.  They call it
\* after the unlock: see CallCancel.
Raise(c, req) ==
  /\ pauseReq' = (pauseReq \/ req = "pause")
  /\ cancelReq' = (cancelReq \/ req = "cancel")
  /\ run' = [j \in Jobs |-> IF j = cancel THEN [run[j] EXCEPT !.callers = @ \cup {c}]
                                          ELSE run[j]]
  /\ asked' = IF cancel = NoJob THEN asked ELSE asked \cup {req}
  /\ UNCHANGED cancel

-----------------------------------------------------------------------------
\* HTTP handlers.

\* POST /jobs inserts the row; with "start" it goes on to start it.
CreateJob(c, j) ==
  /\ client[c].pc = "idle"
  /\ status[j] = "none"
  /\ status' = [status EXCEPT ![j] = "pending"]
  /\ \/ client' = [client EXCEPT ![c] = [pc |-> "created", job |-> j]]
     \/ UNCHANGED client
  /\ UNCHANGED <<enabled, flagVars, run, sched, strayVars, histVars>>

CreatedStart(c) ==
  LET j == client[c].job IN
  /\ client[c].pc = "created"
  /\ CanStart(j)
  /\ Launch(j)
  /\ client' = [client EXCEPT ![c] = Idle]
  /\ UNCHANGED <<enabled, sched, strayVars, interrupted>>

CreatedRefused(c) ==
  /\ client[c].pc = "created"
  /\ ~ CanStart(client[c].job)
  /\ client' = [client EXCEPT ![c].pc = "refused"]
  /\ UNCHANGED <<storeVars, flagVars, run, sched, strayVars, histVars>>

\* The handler writes the record it got from CreateJob, marked failed,
\* whatever the row says by now.
MarkRefused(c) ==
  /\ client[c].pc = "refused"
  /\ status' = [status EXCEPT ![client[c].job] = "failed"]
  /\ client' = [client EXCEPT ![c] = Idle]
  /\ UNCHANGED <<enabled, flagVars, run, sched, strayVars, histVars>>

\* POST /jobs/{id}/start; when StartJob refuses nothing changes.
StartExisting(c, j) ==
  /\ client[c].pc = "idle"
  /\ CanStart(j)
  /\ Launch(j)
  /\ UNCHANGED <<enabled, actorVars, strayVars, interrupted>>

\* POST /jobs/{id}/pause and /cancel; the id in the path is not used.  If no job
\* runs there is no cancel function to call.
PauseJob(c) ==
  /\ client[c].pc = "idle"
  /\ Raise(c, "pause")
  /\ client' = [client EXCEPT ![c].pc = IF cancel = NoJob THEN "idle" ELSE "calling"]
  /\ UNCHANGED <<storeVars, sched, strayVars, interrupted>>

CancelJob(c) ==
  /\ client[c].pc = "idle"
  /\ Raise(c, "cancel")
  /\ client' = [client EXCEPT ![c].pc = IF cancel = NoJob THEN "idle" ELSE "calling"]
  /\ UNCHANGED <<storeVars, sched, strayVars, interrupted>>

\* The last statement of PauseJob and CancelJob.  The cancel function of a run
\* that is over has no effect, and no later run has it.
CallCancel(c) ==
  /\ client[c].pc \in {"calling", "stopping"}
  /\ run' = [j \in Jobs |->
               IF c \in run[j].callers
                 THEN [run[j] EXCEPT !.done = TRUE, !.callers = @ \ {c}]
                 ELSE run[j]]
  /\ client' = [client EXCEPT ![c].pc = IF @ = "calling" THEN "idle" ELSE "disabling"]
  /\ UNCHANGED <<storeVars, flagVars, sched, strayVars, histVars>>

\* POST /engine/start
EngineStart(c) ==
  /\ client[c].pc = "idle"
  /\ enabled' = TRUE
  /\ UNCHANGED <<status, flagVars, run, actorVars, strayVars, histVars>>

\* POST /engine/stop: PauseJob, then the setting, as separate steps.
EngineStopPause(c) ==
  /\ client[c].pc = "idle"
  /\ Raise(c, "pause")
  /\ client' = [client EXCEPT ![c].pc = IF cancel = NoJob THEN "disabling" ELSE "stopping"]
  /\ UNCHANGED <<storeVars, sched, strayVars, interrupted>>

EngineStopDisable(c) ==
  /\ client[c].pc = "disabling"
  /\ enabled' = FALSE
  /\ client' = [client EXCEPT ![c] = Idle]
  /\ UNCHANGED <<status, flagVars, run, sched, strayVars, histVars>>

-----------------------------------------------------------------------------
\* The scheduler goroutine: Scheduler.maybeRunIncremental.

\* Store.ActiveJob finds nothing.
NoActiveJob == \A j \in Jobs : status[j] \notin {"pending", "running", "paused"}

SchedDue ==
  /\ sched.pc = "idle"
  /\ enabled
  /\ NoActiveJob
  /\ sched' = [sched EXCEPT !.pc = "due"]
  /\ UNCHANGED <<storeVars, flagVars, run, client, strayVars, histVars>>

SchedCreate(j) ==
  /\ sched.pc = "due"
  /\ j \in Incremental
  /\ status[j] = "none"
  /\ status' = [status EXCEPT ![j] = "pending"]
  /\ sched' = [pc |-> "created", job |-> j]
  /\ UNCHANGED <<enabled, flagVars, run, client, strayVars, histVars>>

SchedStart ==
  /\ sched.pc = "created"
  /\ CanStart(sched.job)
  /\ Launch(sched.job)
  /\ sched' = Idle
  /\ UNCHANGED <<enabled, client, strayVars, interrupted>>

\* StartJob's error is logged and nothing else happens.
SchedRefused ==
  /\ sched.pc = "created"
  /\ ~ CanStart(sched.job)
  /\ sched' = Idle
  /\ UNCHANGED <<storeVars, flagVars, run, client, strayVars, histVars>>

-----------------------------------------------------------------------------
\* The goroutine Runner.run of job j, and the engine under it.

\* GetConnection or ConnectionPassword fails: failJob.
FailLookup(j) ==
  /\ run[j].pc = "launched"
  /\ status' = [status EXCEPT ![j] = "failed"]
  /\ run' = [run EXCEPT ![j].pc = "leaving"]
  /\ UNCHANGED <<enabled, flagVars, actorVars, strayVars, histVars>>

\* The engine has connected, which it cannot with a cancelled context, and
\* passed its first checks.
EngineBegin(j) ==
  /\ run[j].pc = "launched"
  /\ ~ run[j].done
  /\ status' = [status EXCEPT ![j] = "running"]
  /\ run' = [run EXCEPT ![j].pc = "working"]
  /\ UNCHANGED <<enabled, flagVars, actorVars, strayVars, histVars>>

\* Every progress report writes the whole record, status included.
EngineProgress(j) ==
  /\ run[j].pc = "working"
  /\ status' = [status EXCEPT ![j] = "running"]
  /\ UNCHANGED <<enabled, flagVars, run, actorVars, strayVars, histVars>>

\* RunIncremental's launch loop starts a worker goroutine ...
SpawnWorker(j) ==
  /\ run[j].pc = "working"
  /\ j \in Incremental
  /\ unwritten' = unwritten \cup {j}
  /\ UNCHANGED <<storeVars, flagVars, run, actorVars, stray, histVars>>

\* ... whose first statement of effect is UpdateJob(job) with the status the
\* run's record holds, running.
WorkerWrite(j) ==
  /\ \/ j \in unwritten /\ unwritten' = unwritten \ {j} /\ UNCHANGED stray
     \/ j \in stray /\ stray' = stray \ {j} /\ UNCHANGED unwritten
  /\ status' = [status EXCEPT ![j] = "running"]
  /\ UNCHANGED <<enabled, flagVars, run, actorVars, histVars>>

\* All tables reported done (so every worker of this run has written).
EngineComplete(j) ==
  /\ run[j].pc = "working"
  /\ j \notin unwritten
  /\ status' = [status EXCEPT ![j] = "completed"]
  /\ run' = [run EXCEPT ![j].pc = "leaving"]
  /\ UNCHANGED <<enabled, flagVars, actorVars, strayVars, histVars>>

\* The engine returns an error; a ChunkTimeoutError only once it moves data.
EngineError(j) ==
  /\ \E t \in BOOLEAN :
        /\ run[j].pc = "working" \/ (run[j].pc = "launched" /\ ~ t)
        /\ run' = [run EXCEPT ![j].pc = "returned", ![j].timeout = t, ![j].told = asked]
  /\ UNCHANGED <<storeVars, flagVars, actorVars, strayVars, histVars>>

\* The two flags are copied under the lock ...
SampleFlags(j) ==
  /\ run[j].pc = "returned"
  /\ run' = [run EXCEPT ![j].pc = "sampled", ![j].pause = pauseReq,
                        ![j].cancel = cancelReq]
  /\ UNCHANGED <<storeVars, flagVars, actorVars, strayVars, histVars>>

FirstCase_CancelWins(r) == (~ r.cancel /\ (r.pause \/ r.done)) \/ r.timeout

\* ... and the switch that follows reads them, and twice ctx.Err(), without it.
\* Its first two cases leave the job paused ...
FirstCase(r) == r.pause \/ (r.done /\ ~ r.cancel) \/ r.timeout

\* ... its third, where ctx.Err() is read again, cancelled, its last failed.
Judge(j) ==
  /\ \/ /\ run[j].pc = "sampled"
        /\ run' = [run EXCEPT
             ![j].pc = IF FirstCase(run[j]) THEN "decided" ELSE "unpaused",
             ![j].verdict = IF FirstCase(run[j]) THEN "paused" ELSE "none"]
     \/ /\ run[j].pc = "unpaused"
        /\ run' = [run EXCEPT
             ![j].pc = "decided",
             ![j].verdict = IF run[j].cancel \/ run[j].done THEN "cancelled" ELSE "failed"]
  /\ UNCHANGED <<storeVars, flagVars, actorVars, strayVars, histVars>>

Settle_Unsaved(j) ==
  /\ run[j].pc = "decided"
  /\ run' = [run EXCEPT ![j].pc = "leaving"]
  /\ IF run[j].timeout THEN UNCHANGED status
     ELSE status' = [status EXCEPT ![j] = run[j].verdict]
  /\ UNCHANGED <<enabled, flagVars, actorVars, strayVars, histVars>>

Settle_Retry(j) ==
  /\ run[j].pc = "decided"
  /\ status' = [status EXCEPT ![j] = run[j].verdict]
  /\ run' = [run EXCEPT ![j].pc = IF run[j].verdict = "failed" THEN "leaving" ELSE "launched"]
  /\ UNCHANGED <<enabled, flagVars, actorVars, strayVars, histVars>>

\* UpdateJob with the status of the case taken.
Settle(j) ==
  /\ run[j].pc = "decided"
  /\ status' = [status EXCEPT ![j] = run[j].verdict]
  /\ run' = [run EXCEPT ![j].pc = "leaving"]
  /\ UNCHANGED <<enabled, flagVars, actorVars, strayVars, histVars>>

Leave_SlotKept(j) ==
  /\ run[j].pc = "leaving"
  /\ pauseReq' = FALSE /\ cancelReq' = FALSE
  /\ run' = [run EXCEPT ![j] = NoRun]
  /\ stray' = stray \cup (unwritten \cap {j})
  /\ unwritten' = unwritten \ {j}
  /\ asked' = {}
  /\ UNCHANGED <<storeVars, cancel, actorVars, interrupted>>

\* The deferred function.  A worker that has not written yet outlives it.
Leave(j) ==
  /\ run[j].pc = "leaving"
  /\ cancel' = NoJob /\ pauseReq' = FALSE /\ cancelReq' = FALSE
  /\ run' = [run EXCEPT ![j] = NoRun]
  /\ stray' = stray \cup (unwritten \cap {j})
  /\ unwritten' = unwritten \ {j}
  /\ asked' = {}
  /\ UNCHANGED <<storeVars, actorVars, interrupted>>

-----------------------------------------------------------------------------
\* The process dies and is started again: everything in memory is gone, the
\* database stays.  main starts the engine if auto-start is configured and
\* touches no job.
Crash ==
  /\ cancel' = NoJob /\ pauseReq' = FALSE /\ cancelReq' = FALSE
  /\ run' = [j \in Jobs |-> NoRun]
  /\ client' = [c \in Clients |-> Idle]
  /\ sched' = Idle
  /\ unwritten' = {} /\ stray' = {}
  /\ enabled' \in {enabled, TRUE}
  /\ interrupted' = {j \in Jobs : status[j] = "running"}
  /\ asked' = {}
  /\ UNCHANGED <<status>>

-----------------------------------------------------------------------------
ClientNext(c) ==
  \/ \E j \in Jobs : CreateJob(c, j) \/ StartExisting(c, j)
  \/ CreatedStart(c) \/ CreatedRefused(c) \/ MarkRefused(c)
  \/ PauseJob(c) \/ CancelJob(c) \/ CallCancel(c)
  \/ EngineStart(c) \/ EngineStopPause(c) \/ EngineStopDisable(c)

SchedNext ==
  SchedDue \/ (\E j \in Jobs : SchedCreate(j)) \/ SchedStart \/ SchedRefused

RunNext(j) ==
  \/ FailLookup(j) \/ EngineBegin(j) \/ EngineProgress(j)
  \/ SpawnWorker(j) \/ WorkerWrite(j)
  \/ EngineComplete(j) \/ EngineError(j)
  \/ SampleFlags(j) \/ Judge(j) \/ Settle(j) \/ Leave(j)

Next ==
  \/ \E c \in Clients : ClientNext(c)
  \/ SchedNext
  \/ \E j \in Jobs : RunNext(j)
  \/ Crash

\* The engine gives up once its context is cancelled (each of its loops and
\* database calls watches the context), and Runner.run runs to its end once
\* the engine has returned.  Nobody has to press a button, and an engine that
\* was not asked to stop may take for ever.
EngineReturns(j) ==
  /\ run[j].done
  /\ FailLookup(j) \/ EngineComplete(j) \/ EngineError(j)

RunEnds(j) ==
  EngineReturns(j) \/ SampleFlags(j) \/ Judge(j) \/ Settle(j) \/ Leave(j)

\* A request being served is served to its end, and so is a scheduler tick.
ClientEnds(c) ==
  \/ CreatedStart(c) \/ CreatedRefused(c) \/ MarkRefused(c)
  \/ CallCancel(c) \/ EngineStopDisable(c)

SchedEnds == (\E j \in Jobs : SchedCreate(j)) \/ SchedStart \/ SchedRefused

Spec == Init /\ [][Next]_vars

FairSpec ==
  /\ Spec
  /\ \A j \in Jobs : WF_vars(RunEnds(j)) /\ WF_vars(WorkerWrite(j))
  /\ \A c \in Clients : WF_vars(ClientEnds(c))
  /\ WF_vars(SchedEnds)

-----------------------------------------------------------------------------
\* Runner.cancel is the runner's only guard against two migrations at once.
\* It names job j exactly while j's goroutine lives: from the go statement
\* until the deferred function, through every error path and every request.
SlotIsLiveRun == \A j \in Jobs : (run[j].pc # "none") <=> (cancel = j)

\* At most one Runner.run goroutine exists, so the engine never runs twice.
OneRunAtATime ==
  \A i, j \in Jobs : run[i].pc # "none" /\ run[j].pc # "none" => i = j

\* A job of a type other than incremental_sync shown as running is the one in
\* the slot, unless the process died while it was running: ending a run by
\* any path, a refused start included, never leaves the row at running.
RunningIsOwned ==
  \A j \in Jobs \ Incremental :
    status[j] = "running" => cancel = j \/ j \in interrupted

\* A pause or cancel that was pressed while nothing ran does not leak into
\* the next run, and one pressed during a run is not lost: while a run lives the
\* flags are exactly what was asked of it, what it sampled was asked of it, and
\* its context is cancelled, or about to be by a request that holds its cancel
\* function, exactly if something was asked of it.
NoStaleRequest ==
  \A j \in Jobs :
    cancel = j =>
      /\ pauseReq <=> "pause" \in asked
      /\ cancelReq <=> "cancel" \in asked
      /\ run[j].pause => "pause" \in asked
      /\ run[j].cancel => "cancel" \in asked
      /\ asked # {} <=> run[j].done \/ run[j].callers # {}

\* How a run that returned an error ends, against what was asked of it.  What
\* was asked before the engine returned decides: a pause always wins, a cancel
\* gives way only to a pause or a chunk timeout, and such a run is never failed.
\* A run is cancelled, which is final, only if cancel was asked, and paused only
\* if pause was asked or a chunk timed out, with one exception, which the code
\* really has: a request made after the engine had returned by itself may end
\* the run under the other request's name (or not at all), because its flag is
\* raised after the flags were sampled and its cancel() falls before the first
\* look at ctx.Err() (a cancel read as a pause) or between the two looks (a
\* pause read as a cancel).
OutcomeStep(j) ==
  LET told == run[j].told IN
  run[j].pc = "decided" /\ run'[j].pc = "leaving" =>
    /\ "pause" \in told \/ run[j].pause => status'[j] = "paused"
    /\ "cancel" \in told =>
         \/ status'[j] = "cancelled"
         \/ status'[j] = "paused" /\ ("pause" \in asked \/ run[j].timeout)
    /\ status'[j] = "cancelled" =>
         "cancel" \in asked \/ (told = {} /\ "pause" \in asked)
    /\ status'[j] = "paused" =>
         "pause" \in asked \/ run[j].timeout \/ (told = {} /\ "cancel" \in asked)
    /\ status'[j] = "failed" => told = {} /\ ~ run[j].timeout

OutcomeMatchesRequest == [][\A j \in Jobs : OutcomeStep(j)]_vars

\* A job that was completed or cancelled is never started again.  The one
\* write that may still hit it is the handler that created it and was refused.
FinalStep(j) ==
  status[j] \in Final =>
    /\ run'[j].pc = "launched" => run[j].pc = "launched"
    /\ j \notin Incremental => status'[j] \in Final \cup {"failed"}

FinalIsNotRestarted == [][\A j \in Jobs : FinalStep(j)]_vars

\* The discipline of JobSlot: see there.
Slot == INSTANCE JobSlot WITH state <- status, holder <- cancel
KeepsSlotDiscipline == Slot!Spec

\* Pause, cancel and engine stop, pressed while a job runs, end that run.
StopTakesEffect ==
  \A j \in Jobs : run[j].done \/ run[j].callers # {} ~> run[j].pc = "none"

-----------------------------------------------------------------------------
\* What the documentation says, which the code does not keep.

\* README.md:117, of Stop engine: "running migrations are paused".  With the
\* engine stopped, whatever still runs has been told to stop.
StoppedEngineRunsNothing ==
  \A j \in Jobs : ~ enabled /\ run[j].pc \in {"launched", "working"} => run[j].done

\* web/static/app.js:965, of Cancel: "You cannot resume a cancelled job."
\* A cancelled job stays cancelled.
CancelledIsFinal ==
  [][\A j \in Jobs : status[j] = "cancelled" => status'[j] # "running"]_vars
=============================================================================
