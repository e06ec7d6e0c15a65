------------------------------- MODULE RunEngine -------------------------------
(***************************************************************************)
(* The execution engine of services/scheduler.py: every asyncio task that  *)
(* runs TaskScheduler._execute_job (an APScheduler fire, run-now, a        *)
(* webhook) or calls _run_job_inner directly (a pipeline node), the        *)
(* execution semaphore they share, and the run_history rows they write.    *)
(*                                                                         *)
(* One action per stretch of code between two suspension points.  A task   *)
(* is where pc says:                                                       *)
(*   idle     no such task                                                 *)
(*   created  handed to the event loop, not yet started                    *)
(*   waiting  in the queue of the semaphore                                *)
(*   load     awaiting db.get(Job, job_id)                                 *)
(*   insert   awaiting the commit of its RUNNING row                       *)
(*   exec     inside the try block: secrets, executor, log lines           *)
(*   cleanup  awaiting DockerExecutor.cleanup (the venv one never waits)   *)
(*   persist  awaiting the commit of the result in the finally block       *)
(*   alert    awaiting the last broadcast and check_and_alert              *)
(***************************************************************************)
EXTENDS Integers, Sequences, FiniteSets

CONSTANTS
  Job,            \* the rows of the jobs table
  Task,           \* identities of asyncio tasks, reused when a task has ended
  DockerJob,      \* the jobs whose execution_mode is docker; the others use venv
  MaxConcurrent,  \* settings.MAX_CONCURRENT_JOBS
  DbMayFail,      \* whether a statement may raise (SQLite: database is locked)
  MaxRuns,        \* bound: tasks created over a behaviour
  MaxStops,       \* bound: shutdowns and crashes over a behaviour
  NoJob

ASSUME DockerAssumption == DockerJob \subseteq Job
ASSUME TaskAssumption   == IsFiniteSet(Task)
ASSUME LimitAssumption  == MaxConcurrent \in Nat \ {0}
ASSUME BoundAssumption  == MaxRuns \in Nat /\ MaxStops \in Nat
ASSUME FaultAssumption  == DbMayFail \in BOOLEAN
ASSUME NoJobAssumption  == NoJob \notin Job

VARIABLES
  history,    \* the run_history table, indexed by row id
  status,     \* jobs.status as committed
  pc, jobOf,  \* per task: where it is, and the job it runs
  origin,     \* per task: "schedule", "request" (run-now, webhook) or "pipeline"
  runOf,      \* per task: the id of its history row, 0 before the insert
  outcome,    \* per task: run.status in memory
  permits,    \* the free permits of _execution_semaphore
  waiters,    \* the tasks in its queue, oldest first
  cancelled,  \* the tasks in which CancelledError is about to be raised
  phase,      \* of the process: "up", "stopping", "closing" or "down"
  stops       \* shutdowns and crashes so far

\* The promise the rows keep, and the shape of the table.
Ledger == INSTANCE RunLedger WITH up <- (phase = "up")

taskVars == <<pc, jobOf, origin, runOf, outcome>>
semVars  == <<permits, waiters>>
vars     == <<history, status, taskVars, semVars, cancelled, phase, stops>>

--------------------------------------------------------------------------------
JobStatus == {"active", "paused", "deleted"}
Origin    == {"none", "schedule", "request", "pipeline"}
Guarded   == {"load", "insert", "exec", "cleanup", "persist", "alert"}
Stage     == {"idle", "created", "waiting"} \cup Guarded
Phase     == {"up", "stopping", "closing", "down"}

Live == {t \in Task : pc[t] # "idle"}

\* The tasks inside `async with _get_semaphore()`.  A pipeline node calls
\* _run_job_inner without it.
Holders == {t \in Task : origin[t] # "pipeline" /\ pc[t] \in Guarded}

\* A venv run ends in any final status.  A docker run never ends in TIMEOUT:
\* its only timeout is given to asyncio.timeout, which rejects the generator
\* with a TypeError, and that is a FAILED run.
Outcomes(j) == IF j \in DockerJob THEN {"success", "failed"} ELSE Ledger!FinalStatus

Init ==
  /\ history = << >>
  /\ status    = [j \in Job |-> "active"]
  /\ pc        = [t \in Task |-> "idle"]
  /\ jobOf     = [t \in Task |-> NoJob]
  /\ origin    = [t \in Task |-> "none"]
  /\ runOf     = [t \in Task |-> 0]
  /\ outcome   = [t \in Task |-> "running"]
  /\ permits   = MaxConcurrent
  /\ waiters   = << >>
  /\ cancelled = {}
  /\ phase     = "up"
  /\ stops     = 0

--------------------------------------------------------------------------------
(* The environment: schedules, requests and pipelines.                     *)

\* Bound: every task created so far has a row or may still insert one.
InBudget == Len(history) + Cardinality({t \in Live : runOf[t] = 0}) < MaxRuns

Spawn(t, j, o, stage) ==
  /\ pc[t] = "idle"
  /\ InBudget
  /\ pc'     = [pc EXCEPT ![t] = stage]
  /\ jobOf'  = [jobOf EXCEPT ![t] = j]
  /\ origin' = [origin EXCEPT ![t] = o]
  /\ UNCHANGED <<history, status, runOf, outcome, semVars, cancelled, phase, stops>>

\* Mutant of Fire: fires still queued for the semaphore are not counted.
FireUncounted(t, j) ==
  /\ phase = "up"
  /\ ~ \E u \in Live : jobOf[u] = j /\ origin[u] = "schedule" /\ pc[u] \in Guarded
  /\ Spawn(t, j, "schedule", "created")

\* APScheduler submits a fire of j unless an earlier one is still running: its
\* max_instances is 1, and a fire waiting for the semaphore counts as running.
\* The entry can outlive the ACTIVE status (see JobRegistry), so any job fires.
Fire(t, j) ==
  /\ phase = "up"
  /\ ~ \E u \in Live : jobOf[u] = j /\ origin[u] = "schedule"
  /\ Spawn(t, j, "schedule", "created")

\* run_job_now and webhook_trigger refuse a deleted job and create a task; a
\* paused job is accepted.
TriggerNow(t, j) ==
  /\ phase = "up"
  /\ status[j] # "deleted"
  /\ Spawn(t, j, "request", "created")

\* execute_pipeline awaits _run_job_inner inside its own task.
StartNode(t, j) ==
  /\ phase \in {"up", "stopping"}
  /\ Spawn(t, j, "pipeline", "load")

\* The jobs router commits a new status.
SetStatus(j, s) ==
  /\ phase = "up"
  /\ status[j] # s
  /\ status' = [status EXCEPT ![j] = s]
  /\ UNCHANGED <<history, taskVars, semVars, cancelled, phase, stops>>

--------------------------------------------------------------------------------
(* Leaving _execute_job, normally or by an exception: the task ends and    *)
(* Semaphore.release hands its permit to the oldest waiter.                *)

Release(t) ==
  \/ /\ t \in Holders /\ waiters # << >>
     /\ pc' = [pc EXCEPT ![t] = "idle", ![Head(waiters)] = "load"]
     /\ waiters' = Tail(waiters)
     /\ UNCHANGED permits
  \/ /\ t \in Holders /\ waiters = << >>
     /\ pc' = [pc EXCEPT ![t] = "idle"]
     /\ permits' = permits + 1
     /\ UNCHANGED waiters
  \/ /\ t \notin Holders
     /\ pc' = [pc EXCEPT ![t] = "idle"]
     /\ UNCHANGED semVars

Forget(t) ==
  /\ jobOf'     = [jobOf EXCEPT ![t] = NoJob]
  /\ origin'    = [origin EXCEPT ![t] = "none"]
  /\ runOf'     = [runOf EXCEPT ![t] = 0]
  /\ outcome'   = [outcome EXCEPT ![t] = "running"]
  /\ cancelled' = cancelled \ {t}

\* Mutant of Leave: acquired by hand, the semaphore is not released by an exception.
LeaveHolding(t) ==
  /\ pc' = [pc EXCEPT ![t] = "idle"]
  /\ Forget(t)
  /\ UNCHANGED semVars

Leave(t) == Release(t) /\ Forget(t)

--------------------------------------------------------------------------------
(* A task's own steps.                                                     *)

At(t, stage) == pc[t] = stage /\ t \notin cancelled

Goto(t, stage) ==
  /\ pc' = [pc EXCEPT ![t] = stage]
  /\ UNCHANGED <<jobOf, origin, semVars, cancelled>>

\* Mutant of Acquire: it never waits.
AcquireUnchecked(t) ==
  /\ At(t, "created")
  /\ permits' = permits - 1
  /\ pc' = [pc EXCEPT ![t] = "load"]
  /\ UNCHANGED <<history, status, jobOf, origin, runOf, outcome, waiters, cancelled, phase, stops>>

\* Semaphore.acquire: a permit if one is free, else the end of the queue.
Acquire(t) ==
  /\ At(t, "created")
  /\ \/ /\ permits > 0
        /\ permits' = permits - 1
        /\ pc' = [pc EXCEPT ![t] = "load"]
        /\ UNCHANGED waiters
     \/ /\ permits = 0
        /\ waiters' = Append(waiters, t)
        /\ pc' = [pc EXCEPT ![t] = "waiting"]
        /\ UNCHANGED permits
  /\ UNCHANGED <<history, status, jobOf, origin, runOf, outcome, cancelled, phase, stops>>

\* The job row is read once, here; only an ACTIVE job is run.
Load(t) ==
  /\ At(t, "load")
  /\ \/ /\ status[jobOf[t]] = "active"
        /\ Goto(t, "insert")
        /\ UNCHANGED <<runOf, outcome>>
     \/ /\ status[jobOf[t]] # "active"
        /\ Leave(t)
  /\ UNCHANGED <<history, status, phase, stops>>

\* The commits of _run_job_inner: a new RUNNING row, and the result, which goes to
\* row r whatever is in it.
AddRow(j) == history' = Append(history, [job |-> j, status |-> "running", finished |-> FALSE])

WriteResult(r, s) ==
  history' = [history EXCEPT ![r].status = s, ![r].finished = TRUE]

\* Mutant of Insert: the id is read before the row has one of its own.
InsertStaleId(t) ==
  /\ At(t, "insert")
  /\ AddRow(jobOf[t])
  /\ runOf' = [runOf EXCEPT ![t] = IF history = << >> THEN 1 ELSE Len(history)]
  /\ Goto(t, "exec")
  /\ UNCHANGED <<status, outcome, phase, stops>>

Insert(t) ==
  /\ At(t, "insert")
  /\ AddRow(jobOf[t])
  /\ runOf' = [runOf EXCEPT ![t] = Len(history')]
  /\ Goto(t, "exec")
  /\ UNCHANGED <<status, outcome, phase, stops>>

\* Mutant of AfterExec: every executor waits in its cleanup, and can fail there.
AfterExecAlways(t) == "cleanup"

\* The stage that follows the try block.
AfterExec(t) == IF jobOf[t] \in DockerJob THEN "cleanup" ELSE "persist"

\* The try block: the script ends, the executor raises, or the limit fires.
\* Only run.status in memory changes.
Execute(t) ==
  /\ At(t, "exec")
  /\ \E s \in Outcomes(jobOf[t]) : outcome' = [outcome EXCEPT ![t] = s]
  /\ Goto(t, AfterExec(t))
  /\ UNCHANGED <<history, status, runOf, phase, stops>>

Cleanup(t) ==
  /\ At(t, "cleanup")
  /\ Goto(t, "persist")
  /\ UNCHANGED <<history, status, runOf, outcome, phase, stops>>

\* DockerExecutor.cleanup raises when the run never got a Docker client and
\* the daemon is still unreachable: the rest of the finally block is skipped.
CleanupRaises(t) ==
  /\ At(t, "cleanup")
  /\ outcome[t] # "success"
  /\ Leave(t)
  /\ UNCHANGED <<history, status, phase, stops>>

\* Mutant of Persist: the result goes to the newest row of the table.
PersistNewest(t) ==
  /\ At(t, "persist")
  /\ WriteResult(Len(history), outcome[t])
  /\ Goto(t, "alert")
  /\ UNCHANGED <<status, runOf, outcome, phase, stops>>

\* Mutant of Persist: the statement that sets run.status is lost.
PersistTimeOnly(t) ==
  /\ At(t, "persist")
  /\ WriteResult(runOf[t], "running")
  /\ Goto(t, "alert")
  /\ UNCHANGED <<status, runOf, outcome, phase, stops>>

Persist(t) ==
  /\ At(t, "persist")
  /\ WriteResult(runOf[t], outcome[t])
  /\ Goto(t, "alert")
  /\ UNCHANGED <<status, runOf, outcome, phase, stops>>

\* A task that is torn out of a commit cannot tell whether it happened.
CommitMayStand(t) ==
  \/ UNCHANGED history
  \/ pc[t] = "insert"  /\ AddRow(jobOf[t])
  \/ pc[t] = "persist" /\ WriteResult(runOf[t], outcome[t])

\* A statement raises and the exception leaves the task.  The insert is a commit
\* and a refresh: the row stays if it is the refresh that raises.
DbFails(t) ==
  /\ DbMayFail
  /\ At(t, "load") \/ At(t, "insert") \/ At(t, "persist")
  /\ CommitMayStand(t)
  /\ Leave(t)
  /\ UNCHANGED <<status, phase, stops>>

\* Neither the broadcast nor check_and_alert can make the task fail.
Alert(t) ==
  /\ At(t, "alert")
  /\ Leave(t)
  /\ UNCHANGED <<history, status, phase, stops>>

--------------------------------------------------------------------------------
(* Stopping: lifespan calls scheduler.shutdown, which cancels the pending   *)
(* fires; asyncio.run then cancels every task that is left and waits for    *)
(* them; then the process ends.                                             *)

Shutdown ==
  /\ phase = "up"
  /\ stops < MaxStops
  /\ phase' = "stopping"
  /\ stops' = stops + 1
  /\ cancelled' = {t \in Live : origin[t] = "schedule"}
  /\ UNCHANGED <<history, status, taskVars, semVars>>

CloseLoop ==
  /\ phase = "stopping"
  /\ phase' = "closing"
  /\ cancelled' = Live
  /\ UNCHANGED <<history, status, taskVars, semVars, stops>>

Without(s, i) == [k \in 1 .. Len(s) - 1 |-> IF k < i THEN s[k] ELSE s[k + 1]]

\* CancelledError in a waiter: it leaves the queue.
CancelWaiter(t) ==
  /\ t \in cancelled
  /\ \E i \in DOMAIN waiters : waiters[i] = t /\ waiters' = Without(waiters, i)
  /\ pc' = [pc EXCEPT ![t] = "idle"]
  /\ Forget(t)
  /\ UNCHANGED <<history, status, permits, phase, stops>>

\* Mutant of CancelExec: the error is swallowed and the script goes on.
CancelIgnored(t) ==
  /\ t \in cancelled
  /\ pc[t] = "exec"
  /\ cancelled' = cancelled \ {t}
  /\ UNCHANGED <<history, status, taskVars, semVars, phase, stops>>

\* CancelledError in the try block is no Exception: run.status stays RUNNING
\* and the finally block runs.
CancelExec(t) ==
  /\ t \in cancelled
  /\ pc[t] = "exec"
  /\ pc' = [pc EXCEPT ![t] = AfterExec(t)]
  /\ cancelled' = cancelled \ {t}
  /\ UNCHANGED <<history, status, jobOf, origin, runOf, outcome, semVars, phase, stops>>

\* CancelledError anywhere else ends the task.
CancelElsewhere(t) ==
  /\ t \in cancelled
  /\ pc[t] \notin {"waiting", "exec"}
  /\ CommitMayStand(t)
  /\ Leave(t)
  /\ UNCHANGED <<status, phase, stops>>

\* Everything but the database is lost.
LoseMemory ==
  /\ pc'        = [t \in Task |-> "idle"]
  /\ jobOf'     = [t \in Task |-> NoJob]
  /\ origin'    = [t \in Task |-> "none"]
  /\ runOf'     = [t \in Task |-> 0]
  /\ outcome'   = [t \in Task |-> "running"]
  /\ permits'   = MaxConcurrent
  /\ waiters'   = << >>
  /\ cancelled' = {}
  /\ phase'     = "down"
  /\ UNCHANGED <<history, status>>

Exit == phase = "closing" /\ Live = {} /\ LoseMemory /\ UNCHANGED stops

Crash == phase # "down" /\ stops < MaxStops /\ LoseMemory /\ stops' = stops + 1

\* lifespan: nothing repairs the rows the last process left behind.
Restart ==
  /\ phase = "down"
  /\ phase' = "up"
  /\ UNCHANGED <<history, status, taskVars, semVars, cancelled, stops>>

--------------------------------------------------------------------------------
Cancel(t) == CancelWaiter(t) \/ CancelExec(t) \/ CancelElsewhere(t)

Step(t) ==
  \/ Acquire(t) \/ Load(t) \/ Insert(t) \/ Cleanup(t) \/ CleanupRaises(t)
  \/ Persist(t) \/ DbFails(t) \/ Alert(t)

Environment ==
  \/ \E t \in Task, j \in Job : Fire(t, j) \/ TriggerNow(t, j) \/ StartNode(t, j)
  \/ \E j \in Job, s \in JobStatus : SetStatus(j, s)
  \/ Shutdown \/ CloseLoop \/ Exit \/ Crash \/ Restart

Next == Environment \/ \E t \in Task : Step(t) \/ Execute(t) \/ Cancel(t)

Spec == Init /\ [][Next]_vars

\* The event loop resumes every task whose await has completed, and a shutdown
\* that has begun goes on.
LoopFairness ==
  /\ \A t \in Task : WF_vars(Step(t)) /\ WF_vars(Cancel(t))
  /\ WF_vars(CloseLoop) /\ WF_vars(Exit)

\* Every script ends.  Nothing in the engine enforces it: an assumption on jobs.
ScriptsEnd == \A t \in Task : WF_vars(Execute(t))

LoopSpec == Spec /\ LoopFairness
================================================================================
