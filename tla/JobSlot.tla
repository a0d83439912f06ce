------------------------------ MODULE JobSlot ------------------------------
(***************************************************************************)
(* What the job runner promises, without its goroutine, flags, handlers or *)
(* scheduler.  There is one execution slot.  A job is created pending; it  *)
(* enters the slot only from a status it can be started in; while it holds *)
(* the slot its owner alone reports its status; it leaves the slot.        *)
(*                                                                         *)
(* Three writes of the code step outside that discipline and are named     *)
(* here, so that the refinement shows there are no others: Refuse (the     *)
(* handler that created a job marks it failed when starting it failed),    *)
(* Stray (an incremental table worker that outlived its run writes the     *)
(* status it remembers) and Vanish (the process dies).                     *)
(***************************************************************************)
CONSTANTS Jobs,         \* the job rows of the jobs table
          Incremental,  \* those of type incremental_sync
          NoJob         \* "no job holds the slot"

VARIABLES state,   \* the status column of each job
          holder   \* the job that holds the execution slot

slotVars == <<state, holder>>

Startable == {"pending", "paused", "failed"}
Reportable == {"running", "paused", "completed", "failed", "cancelled"}
Statuses == {"none", "pending"} \cup Reportable

Init ==
  /\ state = [j \in Jobs |-> "none"]
  /\ holder = NoJob

Create(j) ==
  /\ state[j] = "none"
  /\ state' = [state EXCEPT ![j] = "pending"]
  /\ UNCHANGED holder

\* A resumed job is shown as running at once, a pending one stays pending
\* until its owner reports.
Acquire(j) ==
  /\ holder = NoJob
  /\ state[j] \in Startable
  /\ holder' = j
  /\ state' = [state EXCEPT ![j] = IF @ = "pending" THEN @ ELSE "running"]

Report(s) ==
  /\ holder # NoJob
  /\ state' = [state EXCEPT ![holder] = s]
  /\ UNCHANGED holder

Release ==
  /\ holder # NoJob
  /\ holder' = NoJob
  /\ UNCHANGED state

Refuse(j) ==
  /\ state' = [state EXCEPT ![j] = "failed"]
  /\ UNCHANGED holder

Stray(j) ==
  /\ j \in Incremental
  /\ state' = [state EXCEPT ![j] = "running"]
  /\ UNCHANGED holder

Vanish ==
  /\ holder' = NoJob
  /\ UNCHANGED state

Next ==
  \/ \E j \in Jobs : Create(j) \/ Acquire(j) \/ Refuse(j) \/ Stray(j)
  \/ \E s \in Reportable : Report(s)
  \/ Release
  \/ Vanish

Spec == Init /\ [][Next]_slotVars
=============================================================================
